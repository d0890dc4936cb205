----------------------------- MODULE WifiManager -----------------------------
(***************************************************************************)
(* The connection manager: the dispatcher thread of Netmgnt, which takes   *)
(* events from net_evt_queue and runs the state machine wifi_sm; the       *)
(* callbacks and the timer of WifiStation, which stop the timer and post   *)
(* events from other contexts; the provisioning over Bluetooth; the work   *)
(* item that shows the signal on the LED.  The Wi-Fi driver, the DHCP      *)
(* client and the Bluetooth stack are the environment.                     *)
(*                                                                         *)
(* on_entry sleeps and calls the driver, and callbacks run meanwhile: the  *)
(* variable pc says how far the dispatcher is in the handling of an event. *)
(***************************************************************************)
EXTENDS Integers, Sequences

CONSTANTS
    MaxTries,     \* CONFIG_NETWORK_CONNECTION_MAX_TRIES
    QueueCap,     \* the capacity of net_evt_queue
    Traffic,      \* whether other events share that queue
    Prompt,       \* whether an event is handled before the network, the timer or
                  \* MQTT causes the next: if not, a listener holds the dispatcher
    Faults,       \* the calls to the platform that may fail
    MaxSubmits    \* bound on the credentials a phone submits

ASSUME TriesAssumption == MaxTries \in Nat \ {0}
ASSUME QueueAssumption == /\ QueueCap \in Nat \ {0}
                           /\ Traffic \in BOOLEAN /\ Prompt \in BOOLEAN
ASSUME FaultsAssumption ==
    Faults \subseteq {"iface", "ifup", "connect", "bt", "store", "led"}
ASSUME SubmitsAssumption == MaxSubmits \in Nat

VARIABLES
    sm,        \* wifi_sm.state
    tries,     \* wifi_sm.tries
    pc, evt,   \* the dispatcher: where it is, the event it handles
    queue,     \* net_evt_queue
    timer,     \* is TIMEOUT_TMR running?
    link,      \* the association: down, trying, up, or leaving on request
    addr,      \* has the interface an address?
    dhcp,      \* has the DHCP client been started?
    creds,     \* are credentials stored?
    bt,        \* Bluetooth: on, advertising, peer connected, half of the
               \* credentials written, isProvisioningEnabled
    gate,      \* MQTT: its thread not created yet, or isWifiConnected
    led,       \* the colour of the LED
    rssi,      \* the work item rssi_monitor
    submits,   \* the credentials submitted so far
    rounds,    \* history: the entries into the state since it was another one
    lost,      \* history: was a WIFI_DISCONNECTED dropped?
    astray     \* history: was the timer stopped for an event that was dropped, or
               \* for which the state has no branch?

netVars == <<timer, astray, link, addr, dhcp>>
showVars == <<led, rssi>>
vars == <<sm, tries, pc, evt, queue, netVars, creds, bt, gate, showVars,
          submits, rounds, lost>>

States == {"INITIALIZING", "LOADING_CREDENTIALS", "CONNECTING",
           "WAITING_FOR_IP_ADDRESS", "CONNECTED", "PROVISIONING",
           "STORING_CREDENTIALS"}
Counting == {"CONNECTING", "WAITING_FOR_IP_ADDRESS"}

Events == {"START", "IFACE_UP", "IFACE_ERROR", "CREDS_OK", "CREDS_NOT_FOUND",
           "WIFI_CONNECTED", "WIFI_DISCONNECTED", "IP_ACQUIRED", "TIMEOUT",
           "CREDS_RECEIVED", "STORE_OK", "STORE_ERROR", "OTHER"}

BtOff == [on |-> FALSE, adv |-> FALSE, peer |-> FALSE, half |-> FALSE,
          enabled |-> FALSE]

TypeOK ==
    /\ sm \in States /\ tries \in 0 .. MaxTries - 1
    /\ pc \in {"get", "handle", "sleep", "arm", "settle"}
    /\ evt \in Events
    /\ queue \in Seq(Events) /\ Len(queue) <= QueueCap
    /\ timer \in BOOLEAN /\ astray \in BOOLEAN /\ addr \in BOOLEAN /\ dhcp \in BOOLEAN
    /\ link \in {"down", "trying", "up", "leaving"}
    /\ creds \in BOOLEAN /\ gate \in {"none", "blocked", "released"} /\ lost \in BOOLEAN
    /\ bt \in [on : BOOLEAN, adv : BOOLEAN, peer : BOOLEAN, half : BOOLEAN,
               enabled : BOOLEAN]
    /\ led \in {"OFF", "RED", "YELLOW", "BLUE", "SIGNAL"}
    /\ rssi \in {"idle", "queued", "running"}
    /\ submits \in 0 .. MaxSubmits /\ rounds \in 1 .. MaxTries

\* The thread starts with process_state(START).
Init ==
    /\ sm = "INITIALIZING" /\ tries = 0 /\ pc = "handle" /\ evt = "START"
    /\ queue = <<>> /\ timer = FALSE /\ astray = FALSE
    /\ link = "down" /\ addr = FALSE /\ dhcp = FALSE
    /\ creds \in BOOLEAN /\ bt = BtOff /\ gate = "none"
    /\ led = "OFF" /\ rssi = "idle" /\ submits = 0 /\ rounds = 1 /\ lost = FALSE

\* k_msgq_put with K_NO_WAIT: an event that finds the queue full is dropped.
HasRoom == Len(queue) < QueueCap
Post(e) ==
    /\ queue' = IF HasRoom THEN Append(queue, e) ELSE queue
    /\ lost' = (lost \/ (e = "WIFI_DISCONNECTED" /\ ~HasRoom))

-----------------------------------------------------------------------------
(***************************************************************************)
(* transition and restart_state: on_exit, the new state, then on_entry.    *)
(* Leave is on_exit and the assignment of the state; n is the counter that *)
(* on_exit finds, which it resets when a counting state is left for        *)
(* another one.                                                            *)
(***************************************************************************)
\* Mutant of LeaveTries: the counter survives the state.
LeaveTriesKept(to, n) == n
LeaveTries(to, n)     == IF sm \in Counting /\ to # sm THEN 0 ELSE n

\* Mutant of Leave: the gate stays open.
LeaveReleased(to, n) ==
    /\ sm' = to
    /\ tries' = LeaveTries(to, n)
    /\ rounds' = IF to = sm THEN rounds + 1 ELSE 1
    /\ UNCHANGED gate
    /\ rssi' = IF sm = "CONNECTED" /\ rssi = "queued" THEN "idle" ELSE rssi

Leave(to, n) ==
    /\ sm' = to
    /\ tries' = LeaveTries(to, n)
    /\ rounds' = IF to = sm THEN rounds + 1 ELSE 1
    /\ gate' = IF sm = "CONNECTED" THEN "blocked" ELSE gate
    /\ rssi' = IF sm = "CONNECTED" /\ rssi = "queued" THEN "idle" ELSE rssi

ExitColour == IF sm = "CONNECTED" THEN "RED" ELSE led

\* The event is not read again once it is handled.
DispatcherAt(point) == pc' = point /\ evt' = "OTHER"

\* wifi_init, of the first boot kick: without an interface IFACE_ERROR is
\* posted; when the interface cannot be brought up nothing is.
Initialize ==
    /\ sm = "INITIALIZING" /\ evt = "START"
    /\ led' = "RED" /\ tries' = 0
    /\ \/ Post("IFACE_UP")
       \/ "iface" \in Faults /\ Post("IFACE_ERROR")
       \/ "ifup" \in Faults /\ UNCHANGED <<queue, lost>>
    /\ DispatcherAt("get")
    /\ UNCHANGED <<sm, netVars, creds, bt, gate, rssi, submits, rounds>>

\* IFACE_ERROR: a cold reboot, which only the credentials survive.
Reboot ==
    /\ sm' = "INITIALIZING" /\ tries' = 0 /\ pc' = "handle" /\ evt' = "START"
    /\ queue' = <<>> /\ timer' = FALSE /\ astray' = FALSE
    /\ link' = "down" /\ addr' = FALSE /\ dhcp' = FALSE
    /\ bt' = BtOff /\ gate' = "none" /\ led' = "OFF" /\ rssi' = "idle"
    /\ rounds' = 1 /\ lost' = FALSE
    /\ UNCHANGED <<creds, submits>>

EnterLoading ==
    /\ Leave("LOADING_CREDENTIALS", tries)
    /\ led' = ExitColour
    /\ Post(IF creds THEN "CREDS_OK" ELSE "CREDS_NOT_FOUND")
    /\ DispatcherAt("get")
    /\ UNCHANGED <<netVars, creds, bt, submits>>

\* A retry asks the driver to disconnect first: an attempt under way may still
\* succeed, an association ends a little later.
EnterConnecting(n) ==
    /\ Leave("CONNECTING", n)
    /\ led' = ExitColour
    /\ IF tries' > 0
       THEN \/ link = "trying" /\ link' \in {"trying", "down"}
            \/ link # "trying" /\ link' = (IF link = "up" THEN "leaving" ELSE link)
       ELSE UNCHANGED link
    /\ DispatcherAt("sleep")
    /\ UNCHANGED <<queue, astray, addr, dhcp, creds, bt, submits, lost>>

EnterWaiting(n) ==
    /\ Leave("WAITING_FOR_IP_ADDRESS", n)
    /\ led' = "YELLOW"
    /\ dhcp' = TRUE
    /\ DispatcherAt("arm")
    /\ UNCHANGED <<queue, timer, astray, link, addr, creds, bt, submits, lost>>

EnterConnected ==
    /\ Leave("CONNECTED", tries)
    /\ led' = ExitColour
    /\ DispatcherAt("settle")
    /\ UNCHANGED <<queue, netVars, creds, bt, submits, lost>>

\* start_provisioning, unless it is enabled: bt_enable refuses to run twice,
\* and then nothing is advertised and the flag stays as it is.
StartProvisioning ==
    \/ bt.on /\ UNCHANGED bt
    \/ ~bt.on /\ bt' = [bt EXCEPT !.on = TRUE, !.adv = TRUE, !.enabled = TRUE]
    \/ ~bt.on /\ "bt" \in Faults /\ \E on \in BOOLEAN : bt' = [bt EXCEPT !.on = on]

EnterProvisioning ==
    /\ Leave("PROVISIONING", tries)
    /\ led' = "BLUE"
    /\ IF bt.enabled THEN UNCHANGED bt ELSE StartProvisioning
    /\ DispatcherAt("get")
    /\ UNCHANGED <<queue, netVars, creds, submits, lost>>

EnterStoring ==
    /\ Leave("STORING_CREDENTIALS", tries)
    /\ led' = ExitColour
    /\ \/ creds' = TRUE /\ Post("STORE_OK")
       \/ "store" \in Faults /\ UNCHANGED creds /\ Post("STORE_ERROR")
    /\ DispatcherAt("get")
    /\ UNCHANGED <<netVars, bt, submits>>

-----------------------------------------------------------------------------
(***************************************************************************)
(* process_state, one operator per state.  A TIMEOUT counts a try, and the *)
(* state is entered again while there are tries left.                      *)
(***************************************************************************)
\* Mutant of canRetry: the counter is compared before it is incremented.
canRetryLate == tries < MaxTries
canRetry     == tries + 1 < MaxTries

Stay == /\ DispatcherAt("get")
        /\ UNCHANGED <<sm, tries, queue, netVars, creds, bt, gate, showVars,
                       submits, rounds, lost>>

OnInitializing == \/ Initialize
                  \/ evt = "IFACE_UP" /\ EnterLoading
                  \/ evt = "IFACE_ERROR" /\ Reboot

OnLoading == \/ evt = "CREDS_OK" /\ EnterConnecting(tries) /\ UNCHANGED timer
             \/ evt = "CREDS_NOT_FOUND" /\ EnterProvisioning

OnConnecting == \/ evt = "WIFI_CONNECTED" /\ EnterWaiting(tries)
                \/ /\ evt = "TIMEOUT" /\ canRetry
                   /\ EnterConnecting(tries + 1) /\ UNCHANGED timer
                \/ evt = "TIMEOUT" /\ ~canRetry /\ EnterProvisioning

\* Mutant of OnWaiting: a disconnection is left to the timer.
OnWaitingPatient == \/ evt = "IP_ACQUIRED" /\ EnterConnected
                    \/ evt = "TIMEOUT" /\ canRetry /\ EnterWaiting(tries + 1)
                    \/ evt = "TIMEOUT" /\ ~canRetry /\ EnterProvisioning
                    \/ evt = "WIFI_DISCONNECTED" /\ Stay

OnWaiting == \/ evt = "IP_ACQUIRED" /\ EnterConnected
             \/ evt = "TIMEOUT" /\ canRetry /\ EnterWaiting(tries + 1)
             \/ evt = "TIMEOUT" /\ ~canRetry /\ EnterProvisioning
             \/ /\ evt = "WIFI_DISCONNECTED"
                /\ timer' = FALSE /\ EnterConnecting(tries)

OnConnected == /\ evt = "WIFI_DISCONNECTED"
               /\ EnterConnecting(tries) /\ UNCHANGED timer

OnProvisioning == evt = "CREDS_RECEIVED" /\ EnterStoring

OnStoring == \/ evt = "STORE_OK" /\ EnterLoading
             \/ evt = "STORE_ERROR" /\ EnterProvisioning

\* The events that have a branch in each state; any other is ignored.
Handled == [s \in States |->
    CASE s = "INITIALIZING"           -> {"START", "IFACE_UP", "IFACE_ERROR"}
      [] s = "LOADING_CREDENTIALS"    -> {"CREDS_OK", "CREDS_NOT_FOUND"}
      [] s = "CONNECTING"             -> {"WIFI_CONNECTED", "TIMEOUT"}
      [] s = "WAITING_FOR_IP_ADDRESS" -> {"IP_ACQUIRED", "TIMEOUT", "WIFI_DISCONNECTED"}
      [] s = "CONNECTED"              -> {"WIFI_DISCONNECTED"}
      [] s = "PROVISIONING"           -> {"CREDS_RECEIVED"}
      [] s = "STORING_CREDENTIALS"    -> {"STORE_OK", "STORE_ERROR"}]

Ignore == evt \notin Handled[sm] /\ Stay

GetEvent ==
    /\ pc = "get" /\ queue # <<>>
    /\ evt' = Head(queue) /\ queue' = Tail(queue)
    /\ pc' = "handle"
    /\ UNCHANGED <<sm, tries, netVars, creds, bt, gate, showVars, submits,
                   rounds, lost>>

ProcessState ==
    /\ pc = "handle"
    /\ \/ sm = "INITIALIZING"           /\ OnInitializing
       \/ sm = "LOADING_CREDENTIALS"    /\ OnLoading
       \/ sm = "CONNECTING"             /\ OnConnecting
       \/ sm = "WAITING_FOR_IP_ADDRESS" /\ OnWaiting
       \/ sm = "CONNECTED"              /\ OnConnected
       \/ sm = "PROVISIONING"           /\ OnProvisioning
       \/ sm = "STORING_CREDENTIALS"    /\ OnStoring
       \/ Ignore

(***************************************************************************)
(* The rest of on_entry: the request after the second of sleep, the timer  *)
(* that is started after a request whether it succeeded or not, and what   *)
(* follows the 100 ms of CONNECTED.                                        *)
(***************************************************************************)
Request ==
    /\ pc = "sleep"
    /\ \/ /\ link' = IF link = "down" THEN "trying" ELSE link
          /\ UNCHANGED <<queue, lost>>
       \/ "connect" \in Faults /\ Post("IFACE_ERROR") /\ UNCHANGED link
    /\ DispatcherAt("arm")
    /\ UNCHANGED <<sm, tries, timer, astray, addr, dhcp, creds, bt, gate, showVars,
                   submits, rounds>>

\* Mutant of StartTimer: no attempt under way, no timer.
StartTimerTried ==
    /\ pc = "arm"
    /\ timer' = (link # "down") /\ astray' = FALSE
    /\ DispatcherAt("get")
    /\ UNCHANGED <<sm, tries, queue, link, addr, dhcp, creds, bt, gate,
                   showVars, submits, rounds, lost>>

StartTimer ==
    /\ pc = "arm"
    /\ timer' = TRUE /\ astray' = FALSE
    /\ DispatcherAt("get")
    /\ UNCHANGED <<sm, tries, queue, link, addr, dhcp, creds, bt, gate,
                   showVars, submits, rounds, lost>>

Settle ==
    /\ pc = "settle" /\ gate' = "released"
    /\ rssi' = "queued" \/ ("led" \in Faults /\ UNCHANGED rssi)
    /\ bt' = IF bt.enabled THEN [bt EXCEPT !.adv = FALSE, !.enabled = FALSE] ELSE bt
    /\ DispatcherAt("get")
    /\ UNCHANGED <<sm, tries, queue, netVars, creds, led, submits, rounds, lost>>

Dispatcher == GetEvent \/ ProcessState \/ Request \/ StartTimer \/ Settle

-----------------------------------------------------------------------------
(***************************************************************************)
(* The other contexts.  A connect result, a lost association and an        *)
(* address come from the driver; a connect result that is a failure posts  *)
(* nothing.                                                                *)
(***************************************************************************)
coreVars == <<sm, tries, pc, evt, creds, gate, submits, rounds>>

\* The callbacks and the timer itself: the wait ends here, and the event tells it.
StopTimer(e) ==
    /\ timer' = FALSE
    /\ astray' = (astray \/ (timer /\ ~(HasRoom /\ e \in Handled[sm])))
    /\ Post(e)

InTime == Prompt => queue = <<>> /\ pc # "handle"

LinkUp == /\ link = "trying" /\ InTime
          /\ link' = "up" /\ StopTimer("WIFI_CONNECTED")
          /\ UNCHANGED <<coreVars, addr, dhcp, bt, showVars>>

LinkRefused == /\ link = "trying"
               /\ link' = "down"
               /\ UNCHANGED <<coreVars, timer, astray, addr, dhcp, queue, lost, bt, showVars>>

LinkDown == /\ link \in {"up", "leaving"} /\ InTime
            /\ link' = "down" /\ addr' = FALSE
            /\ Post("WIFI_DISCONNECTED")
            /\ UNCHANGED <<coreVars, timer, astray, dhcp, bt, showVars>>

AddressAdded == /\ link = "up" /\ dhcp /\ ~addr /\ InTime
                /\ addr' = TRUE /\ StopTimer("IP_ACQUIRED")
                /\ UNCHANGED <<coreVars, link, dhcp, bt, showVars>>

TimerExpires == /\ timer /\ InTime
                /\ StopTimer("TIMEOUT")
                /\ UNCHANGED <<coreVars, link, addr, dhcp, bt, showVars>>

\* The MQTT thread posts whatever the gate, once it has been created.
OtherEvent == /\ Traffic /\ gate # "none" /\ HasRoom /\ InTime
              /\ Post("OTHER")
              /\ UNCHANGED <<coreVars, netVars, bt, showVars>>

(***************************************************************************)
(* A phone: advertising stops when it connects; once it has written both   *)
(* halves of the credentials they are handed over, in any state.           *)
(***************************************************************************)
PeerConnects == /\ bt.adv /\ ~bt.peer
                /\ bt' = [bt EXCEPT !.peer = TRUE, !.adv = FALSE]
                /\ UNCHANGED <<coreVars, netVars, queue, lost, showVars>>

PeerLeaves == /\ bt.peer
              /\ bt' = [bt EXCEPT !.peer = FALSE]
              /\ UNCHANGED <<coreVars, netVars, queue, lost, showVars>>

PeerWrites == /\ bt.peer /\ submits < MaxSubmits
              /\ bt' = [bt EXCEPT !.half = ~bt.half]
              /\ IF bt.half THEN Post("CREDS_RECEIVED") /\ submits' = submits + 1
                            ELSE UNCHANGED <<queue, lost, submits>>
              /\ UNCHANGED <<sm, tries, pc, evt, creds, gate, rounds, netVars, showVars>>

(***************************************************************************)
(* The work item: it tests the state, shows the signal (green by its       *)
(* strength, magenta when MQTT is connected) and schedules itself again.   *)
(***************************************************************************)
RssiTests == /\ rssi = "queued"
             /\ rssi' = IF sm = "CONNECTED" THEN "running" ELSE "idle"
             /\ UNCHANGED <<coreVars, netVars, queue, lost, bt, led>>

RssiShows == /\ rssi = "running"
             /\ rssi' = "queued" /\ led' = "SIGNAL"
             /\ UNCHANGED <<coreVars, netVars, queue, lost, bt>>

Next == \/ GetEvent \/ ProcessState \/ Request \/ StartTimer \/ Settle
        \/ LinkUp \/ LinkRefused \/ LinkDown \/ AddressAdded
        \/ TimerExpires \/ OtherEvent
        \/ PeerConnects \/ PeerLeaves \/ PeerWrites
        \/ RssiTests \/ RssiShows

Spec == Init /\ [][Next]_vars

(***************************************************************************)
(* The dispatcher is a thread that only blocks for events and for bounded  *)
(* sleeps; a kernel timer that is not stopped expires, however often other *)
(* events are handled meanwhile.  Nothing is assumed of the network or of  *)
(* the phone.                                                              *)
(***************************************************************************)
FairSpec == Spec /\ WF_vars(Dispatcher) /\ SF_vars(TimerExpires)

-----------------------------------------------------------------------------
Pending(e) == \/ \E i \in DOMAIN queue : queue[i] = e
              \/ pc = "handle" /\ evt = e

(***************************************************************************)
(* What the state machine, and MQTT through the gate, believe of the link  *)
(* is true, or its loss is on its way through the queue: while it waits    *)
(* for an address there is an association, while it is connected there is  *)
(* an address, unless WIFI_DISCONNECTED is pending (or was dropped).       *)
(***************************************************************************)
OnlineIsUp ==
    /\ sm = "WAITING_FOR_IP_ADDRESS" =>
          link \in {"up", "leaving"} \/ Pending("WIFI_DISCONNECTED") \/ lost
    /\ sm = "CONNECTED" \/ gate = "released" => addr \/ Pending("WIFI_DISCONNECTED") \/ lost

(***************************************************************************)
(* The device gives up on the network, and asks for credentials, only      *)
(* after MaxTries rounds of the state in which it failed, and no counts    *)
(* are carried over from one state to another.                             *)
(***************************************************************************)
GivesUpAfterTries ==
    [][(sm \in Counting /\ sm' = "PROVISIONING") => rounds = MaxTries]_vars

(***************************************************************************)
(* Through queue, timer and late callbacks the manager is nothing but a    *)
(* Session: it asks the user after exactly MaxTries failures of one kind   *)
(* in a row, lets MQTT through only while it is online, and closes the     *)
(* gate in the step that leaves.                                           *)
(***************************************************************************)
Phase ==
    CASE sm \in {"INITIALIZING", "LOADING_CREDENTIALS"} -> "offline"
      [] sm \in Counting                                -> "trying"
      [] sm = "CONNECTED"                               -> "online"
      [] OTHER                                          -> "asking"

Abstract == INSTANCE Session WITH phase <- Phase, failures <- tries

IsSession == Abstract!Spec

(***************************************************************************)
(* No event is awaited for ever: every state that waits for the answer of  *)
(* a call or of the network is left, unless the queue overflows.           *)
(***************************************************************************)
WaitingEnds ==
    \A s \in {"LOADING_CREDENTIALS", "CONNECTING", "WAITING_FOR_IP_ADDRESS",
              "STORING_CREDENTIALS"} : sm = s ~> sm # s

(***************************************************************************)
(* "Any disconnection event immediately transitions back to Connecting":   *)
(* no disconnection goes unnoticed.                                        *)
(***************************************************************************)
DropIsNoticed == gate = "released" => addr \/ Pending("WIFI_DISCONNECTED")

(***************************************************************************)
(* A state that counts its tries never waits for nothing: its timer runs,  *)
(* or an event that it has a branch for is on its way, in whatever order   *)
(* the driver, the timer and the phone interrupt the dispatcher.  The one  *)
(* exception is a timer that a callback has stopped with an event that was *)
(* dropped, or that came too late for the state it meets.                  *)
(***************************************************************************)
WaitIsTimed ==
    sm \in Counting /\ pc \in {"get", "handle"} /\ ~astray =>
        timer \/ \E e \in Handled[sm] : Pending(e)

(***************************************************************************)
(* A state that counts its tries does not wait without its timer, late     *)
(* results included: each of them stops it, whatever the state.            *)
(***************************************************************************)
WaitIsAlwaysTimed ==
    sm \in Counting /\ pc = "get" /\ queue = <<>> /\ ~lost => timer

(***************************************************************************)
(* Where no credentials work, the user can provision the device.           *)
(***************************************************************************)
UserCanProvision == sm = "PROVISIONING" /\ pc = "get" => bt.enabled

(***************************************************************************)
(* If the interface fails the machine goes on to the error state: it does  *)
(* not stay where it is initialised.                                       *)
(***************************************************************************)
InitializingEnds == sm = "INITIALIZING" ~> sm # "INITIALIZING"

(***************************************************************************)
(* The timer is stopped as soon as the expected result arrives: it does    *)
(* not run where nothing is awaited.                                       *)
(***************************************************************************)
TimerStopped == sm = "CONNECTED" => ~timer

(***************************************************************************)
(* Leaving CONNECTED cancels the RSSI work: it is not left in the queue.   *)
(***************************************************************************)
RssiCancelled == sm # "CONNECTED" => rssi # "queued"
=============================================================================
