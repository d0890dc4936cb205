------------------------------ MODULE Dispensing ------------------------------
(***************************************************************************)
(* What becomes of an event behind the connection manager: Notify tells it *)
(* to the listeners whose mask matches its group, one after the other, in  *)
(* the dispatcher's thread, and the application answers MQTT_FEED_NOW by   *)
(* turning the motor there and then.  Its own thread turns the same motor  *)
(* when a rule is due.                                                     *)
(***************************************************************************)
EXTENDS Integers, Sequences

CONSTANTS
    Amounts,     \* what a feed-now message may ask for: an int
    RuleAmounts, \* the amount of a rule: an unsigned byte
    Leftovers,   \* what the stack of a handler that has returned may hold
    QueueCap     \* the capacity of net_evt_queue

ASSUME AmountsAssumption ==
    Amounts \subseteq Int /\ RuleAmounts \subseteq Nat /\ Leftovers \subseteq Int
ASSUME CapAssumption == QueueCap \in Nat \ {0}

Threads == {"app", "dispatcher"}

VARIABLES
    queue,        \* net_evt_queue
    evt, told,    \* the dispatcher: the event in hand, the listeners told (3: none left)
    slot,         \* the place on the MQTT thread's stack that FEED_NOW points to
    moving, left, \* move_for: the threads in it, the steps each has left
    enable,       \* the enable pin: 0 drives the motor
    update,       \* Application: shouldUpdateRules
    sensor,       \* LvlSensor: isMQTTconnectd
    clock         \* RTC: isNetworkConnected, and is SYNC_TMR running?

motorVars == <<moving, left, enable>>
toldVars == <<update, sensor, clock>>
vars == <<queue, evt, told, slot, motorVars, toldVars>>

\* EventGroup, and the group of each event; a message also has its data.
Group == [WIFI_EVT |-> 0, MQTT_EVT |-> 1, APP_EVT |-> 2, PROV_EVT |-> 3]
Events ==
    {[evt |-> e, type |-> "WIFI_EVT"] : e \in {"WIFI_IP_ACQUIRED", "WIFI_DISCONNECTED"}}
    \cup {[evt |-> "PROVISIONING_CREDS_RECEIVED", type |-> "PROV_EVT"]}
    \cup {[evt |-> e, type |-> "MQTT_EVT"] : e \in
              {"MQTT_CONNECTED", "MQTT_DISCONNECTED", "MQTT_UPDATE_DATA"}}
FeedNow == {[evt |-> "MQTT_FEED_NOW", type |-> "MQTT_EVT", asked |-> a] : a \in Amounts}
\* The dispatcher's variable is zeroed until the first event.
Nothing == [evt |-> "START", type |-> "WIFI_EVT"]
Messages == Events \cup FeedNow

TypeOK ==
    /\ queue \in Seq(Messages) /\ Len(queue) <= QueueCap
    /\ evt \in Messages \cup {Nothing} /\ told \in 0 .. 3
    /\ slot \in Amounts \cup Leftovers
    /\ moving \subseteq Threads /\ left \in [Threads -> Int] /\ enable \in {0, 1}
    /\ update \in BOOLEAN /\ sensor \in BOOLEAN
    /\ clock \in [online : BOOLEAN, timer : BOOLEAN]

Init == /\ queue = <<>> /\ evt = Nothing /\ told = 3
        /\ slot \in Leftovers
        /\ moving = {} /\ left = [t \in Threads |-> 0] /\ enable = 1
        /\ update = FALSE /\ sensor = FALSE
        /\ clock = [online |-> FALSE, timer |-> FALSE]

-----------------------------------------------------------------------------
(***************************************************************************)
(* StepperController::move_for, a toggle of the step pin at a time.        *)
(***************************************************************************)
Begins(t, amount) == /\ moving' = moving \cup {t}
                     /\ left' = [left EXCEPT ![t] = amount]
                     /\ enable' = 0

Toggle(t) == /\ t \in moving /\ left[t] > 0
             /\ left' = [left EXCEPT ![t] = @ - 1]
             /\ UNCHANGED <<queue, evt, told, slot, moving, enable, toldVars>>

\* Mutant of Finishes: an amount that is not positive is refused after all.
FinishesBusy(t) == /\ t \in moving /\ left[t] <= 0
                   /\ moving' = moving \ {t}
                   /\ left' = [left EXCEPT ![t] = 0]
                   /\ enable' = IF left[t] = 0 THEN 1 ELSE enable
                   /\ UNCHANGED <<queue, evt, told, slot, toldVars>>

Finishes(t) == /\ t \in moving /\ left[t] <= 0
               /\ moving' = moving \ {t}
               /\ left' = [left EXCEPT ![t] = 0]
               /\ enable' = 1
               /\ UNCHANGED <<queue, evt, told, slot, toldVars>>

-----------------------------------------------------------------------------
(***************************************************************************)
(* The listeners in the order main attaches them, their masks, and what    *)
(* Update does with an event; feeding alone takes time.                    *)
(***************************************************************************)
\* Mutant of Mask: the application listens to its own group.
MaskOfOwn == <<Group.MQTT_EVT, Group.APP_EVT, Group.WIFI_EVT>>
Mask      == <<Group.MQTT_EVT, Group.WIFI_EVT + Group.MQTT_EVT, Group.WIFI_EVT>>

Bit(n, k) == (n \div k) % 2 = 1
Reaches(i) == \E k \in {1, 2} : Bit(Mask[i], k) /\ Bit(Group[evt.type], k)

\* Mutant of ListenersLeft: one listener too many.
ListenersPast == told <= Len(Mask)
ListenersLeft == told < Len(Mask)

Telling(i) == told = i - 1 /\ Reaches(i)

UpdateSensor == CASE evt.evt = "MQTT_CONNECTED"    -> TRUE
                  [] evt.evt = "MQTT_DISCONNECTED" -> FALSE
                  [] OTHER                         -> sensor

\* The timer of the synchronisation runs while the network is there.
UpdateClock == CASE evt.evt = "WIFI_IP_ACQUIRED"  -> [online |-> TRUE, timer |-> TRUE]
                 [] evt.evt = "WIFI_DISCONNECTED" -> [online |-> FALSE, timer |-> FALSE]
                 [] OTHER                         -> clock

\* k_msgq_get; process_state has dealt with the event when it is notified.
GetEvent == /\ ~ListenersLeft /\ queue # <<>> /\ "dispatcher" \notin moving
            /\ evt' = Head(queue) /\ queue' = Tail(queue) /\ told' = 0
            /\ UNCHANGED <<slot, motorVars, toldVars>>

\* The amount of a feed-now is read through the pointer of the event.
Feeds == Telling(2) /\ evt.evt = "MQTT_FEED_NOW"

Notify == /\ ListenersLeft /\ "dispatcher" \notin moving
          /\ told' = told + 1
          /\ sensor' = IF Telling(1) THEN UpdateSensor ELSE sensor
          /\ clock' = IF Telling(3) THEN UpdateClock ELSE clock
          /\ update' = (update \/ (Telling(2) /\ evt.evt = "MQTT_UPDATE_DATA"))
          /\ IF Feeds THEN Begins("dispatcher", slot) ELSE UNCHANGED motorVars
          /\ UNCHANGED <<queue, evt, slot>>

-----------------------------------------------------------------------------
(***************************************************************************)
(* The application's thread, and those that post.                          *)
(***************************************************************************)
RuleIsDue == /\ "app" \notin moving
             /\ \E a \in RuleAmounts : Begins("app", a)
             /\ UNCHANGED <<queue, evt, told, slot, toldVars>>

Reload == /\ "app" \notin moving /\ update
          /\ update' = FALSE
          /\ UNCHANGED <<queue, evt, told, slot, motorVars, sensor, clock>>

Put(m) == queue' = IF Len(queue) < QueueCap THEN Append(queue, m) ELSE queue

Post == /\ \E m \in Events : Put(m)
        /\ UNCHANGED <<evt, told, slot, motorVars, toldVars>>

\* on_mqtt_feed_topic; when it has returned its stack is used for other things.
FeedTopic == /\ \E m \in FeedNow : Put(m) /\ slot' = m.asked
             /\ UNCHANGED <<evt, told, motorVars, toldVars>>

StackReused == /\ slot' \in Leftovers
               /\ UNCHANGED <<queue, evt, told, motorVars, toldVars>>

Move(t) == Toggle(t) \/ Finishes(t)

Next == \/ GetEvent \/ Notify \/ RuleIsDue \/ Reload
        \/ Post \/ FeedTopic \/ StackReused
        \/ \E t \in Threads : Move(t)

Spec == Init /\ [][Next]_vars

\* The dispatcher and the motor's loop do not wait for anybody.
FairSpec == /\ Spec
            /\ WF_vars(GetEvent) /\ WF_vars(Notify)
            /\ \A t \in Threads : WF_vars(Move(t))

-----------------------------------------------------------------------------
(***************************************************************************)
(* A motor that nobody turns is not driven: the coil is not left under     *)
(* current, however two feedings overlap and whatever amounts they are     *)
(* asked for, which may be read from a stack that was reused.              *)
(***************************************************************************)
RestsDisabled == moving = {} => enable = 1

(***************************************************************************)
(* An update of the rules that waits in the queue reaches the application, *)
(* also behind feedings that hold the dispatcher.                          *)
(***************************************************************************)
UpdateIsTold ==
    (\E i \in DOMAIN queue : queue[i].evt = "MQTT_UPDATE_DATA") ~> update

(***************************************************************************)
(* "Turn motor ... by a number of steps": each of its steps is driven.     *)
(***************************************************************************)
StepsAreDriven == [][\A t \in Threads : Toggle(t) => enable = 0]_vars

(***************************************************************************)
(* "NTP synchronization (SNTP) for drift correction": when the network is  *)
(* there the clock is told, and its synchronisation runs.                  *)
(***************************************************************************)
ClockIsTold ==
    told = 3 /\ evt.evt = "WIFI_IP_ACQUIRED" => clock.online

(***************************************************************************)
(* The amount dispensed is the amount asked for.                           *)
(***************************************************************************)
FedAsAsked == evt \in FeedNow /\ told < 2 => slot = evt.asked
=============================================================================
