---------------------------- MODULE FeedScheduler ----------------------------
(***************************************************************************)
(* The feeding loop: the Application thread, which loads the rules from    *)
(* the store into RAM, compares them with the clock and runs the motor;    *)
(* the MQTT handlers that add, remove and clear rules from another thread; *)
(* the event queue and its dispatcher thread, which carry MQTT_UPDATE_DATA *)
(* from the handlers to Application::Update; the clock and power losses.   *)
(*                                                                         *)
(* Time is counted in minutes from Start.  The application checks its      *)
(* rules every CONFIG_APPLICATION_THREAD_PERIOD = 5 s, so a minute does    *)
(* not end before a check that began in it has ended (the variable pass).  *)
(* A minute may end between any two steps of a later check.                *)
(***************************************************************************)
EXTENDS SchedulerRules, Sequences

CONSTANTS
    RemovePayloads,   \* the numbers that arrive on the remove topic
    QueueCap,         \* the capacity of net_evt_queue
    Traffic,          \* whether other events share that queue
    MinutesPerHour, HoursPerDay, DaysPerWeek, DaysPerMonth, MonthsPerYear,
    Start,            \* the minute at which the device is first switched on
    Horizon,          \* bound on the time
    MaxRestarts       \* bound on the power losses

ASSUME PayloadAssumption == RemovePayloads \subseteq Nat
ASSUME QueueAssumption == QueueCap \in Nat \ {0} /\ Traffic \in BOOLEAN
ASSUME CalendarAssumption ==
    /\ {MinutesPerHour, HoursPerDay, DaysPerWeek, DaysPerMonth, MonthsPerYear}
          \subseteq Nat \ {0}
    /\ Start \in Nat /\ Horizon \in Nat /\ Start <= Horizon
    /\ MaxRestarts \in Nat
ASSUME RuleAssumption ==
    Rule \subseteq [period : {"WEEKLY", "SPECIF"}, days : SUBSET Nat,
                    month : Nat, day : Nat, hour : Nat, minute : Nat]

VARIABLES
    app,            \* the application thread: its state, loop index, counter
    rules,          \* Application::rules, the rules in RAM
    available,      \* isRulesAvaliable
    shouldUpdate,   \* shouldUpdateRules
    queue,          \* net_evt_queue
    now,            \* the time, in minutes
    restarts,       \* the power losses so far
    pass,           \* history: has a check that began in this minute ended?
    loaded,         \* history: how many entries of rules the last load filled
    served,         \* history: the entries fed since the last load, the weekly
                    \* ones in this minute
    fed,            \* history: <<slot, rule>> fed, in this minute if weekly
    lost            \* history: an update was dropped and none followed it

appVars  == <<app, rules, available, loaded, served>>
timeVars == <<now, restarts>>
vars == <<storeVars, appVars, shouldUpdate, queue, timeVars, pass, fed, lost>>

AppStates == {"INIT", "LOAD_RULES", "reading", "read", "CHECK_RULES", "select",
              "hour", "minute", "PROCESS", "deleting", "IDLE", "clearing"}

\* The static object is zeroed: a weekly rule of no day, which never matches.
ZeroRule  == [period |-> "WEEKLY", days |-> {}, month |-> 0, day |-> 0,
              hour |-> 0, minute |-> 0]
ZeroRules == [k \in Slots |-> [rule |-> ZeroRule, state |-> "READY", fs |-> 0]]

TypeOK ==
    /\ StoreTypeOK
    /\ app \in [pc : AppStates, i : 0 .. MaxRules, n : 0 .. MaxRules]
    /\ rules \in [Slots -> [rule  : Rule \cup {ZeroRule},
                            state : {"READY", "WAITING", "EXECUTED"},
                            fs    : Slots]]
    /\ available \in BOOLEAN /\ shouldUpdate \in BOOLEAN
    /\ queue \in Seq({"UPDATE", "OTHER"}) /\ Len(queue) <= QueueCap
    /\ now \in Start .. Horizon /\ restarts \in 0 .. MaxRestarts
    /\ pass \in {"none", "begun", "done"}
    /\ loaded \in 0 .. MaxRules
    /\ served \subseteq Slots /\ lost \in BOOLEAN
    /\ fed \subseteq Slots \X (Rule \cup {ZeroRule})

Init ==
    /\ StoreInit
    /\ app = [pc |-> "INIT", i |-> 0, n |-> 0]
    /\ rules = ZeroRules
    /\ available = FALSE /\ shouldUpdate = FALSE
    /\ queue = <<>>
    /\ now = Start /\ restarts = 0
    /\ pass = "none" /\ loaded = 0 /\ served = {} /\ fed = {} /\ lost = FALSE

(***************************************************************************)
(* The clock as the RTC getters give it.  tm_mon counts from 0.            *)
(***************************************************************************)
Minute(t)   == t % MinutesPerHour
Hour(t)     == (t \div MinutesPerHour) % HoursPerDay
DayNo(t)    == t \div (MinutesPerHour * HoursPerDay)
Weekday(t)  == DayNo(t) % DaysPerWeek
MonthDay(t) == 1 + (DayNo(t) % DaysPerMonth)
TmMonth(t)  == (DayNo(t) \div DaysPerMonth) % MonthsPerYear

\* Mutant of DayMatches: the days of a weekly rule are not looked at.
DayMatchesDaily(r, t) ==
    \/ r.period = "WEEKLY"
    \/ r.period = "SPECIF" /\ MonthDay(t) = r.day /\ TmMonth(t) = r.month

DayMatches(r, t) ==
    \/ r.period = "WEEKLY" /\ Weekday(t) \in r.days
    \/ r.period = "SPECIF" /\ MonthDay(t) = r.day /\ TmMonth(t) = r.month

\* Mutant of HourMatches: a rule whose hour has passed is caught up with.
HourMatchesLate(r, t) == Hour(t) >= r.hour
HourMatches(r, t)   == Hour(t) = r.hour
MinuteMatches(r, t) == Minute(t) = r.minute

-----------------------------------------------------------------------------
(***************************************************************************)
(* The application thread.                                                 *)
(***************************************************************************)
AppGoto(pc, i, n) == app' = [pc |-> pc, i |-> i, n |-> n]
At(pc) == app.pc = pc

InitApp ==
    /\ At("INIT")
    /\ shouldUpdate' = FALSE
    /\ AppGoto("LOAD_RULES", 0, 0)
    /\ UNCHANGED <<storeVars, rules, available, loaded, served, queue,
                   timeVars, pass, fed, lost>>

\* LOAD_RULES, up to the loop of read_rules: with no bit set it returns 1.
LoadRules ==
    /\ At("LOAD_RULES")
    /\ available' = FALSE
    /\ AppGoto(IF map = {} THEN "CHECK_RULES" ELSE "reading", 0, 0)
    /\ loaded' = 0 /\ served' = {}
    /\ UNCHANGED <<storeVars, rules, shouldUpdate, queue, timeVars, pass, fed, lost>>

\* The loop of read_rules: the bit of the next slot is tested.
TestRule ==
    /\ At("reading") /\ app.i < MaxRules
    /\ IF app.i \in map THEN AppGoto("read", app.i, app.n)
                       ELSE AppGoto("reading", app.i + 1, app.n)
    /\ UNCHANGED <<storeVars, rules, available, loaded, served, shouldUpdate, queue,
                   timeVars, pass, fed, lost>>

\* The entry of a slot whose bit was set goes to the next entry in RAM; a read
\* that fails ends the load, the rules not available.
ReadRule ==
    /\ At("read")
    /\ LET r == flash[IdOf(app.i)]
       IN \/ /\ r # Empty
             /\ rules' = [rules EXCEPT ![app.n] =
                             [rule |-> r, state |-> "READY", fs |-> app.i]]
             /\ loaded' = app.n + 1
             /\ AppGoto("reading", app.i + 1, app.n + 1)
          \/ /\ r = Empty \/ "read" \in Faults
             /\ AppGoto("CHECK_RULES", 0, 0)
             /\ UNCHANGED <<rules, loaded>>
    /\ UNCHANGED <<storeVars, available, served, shouldUpdate, queue,
                   timeVars, pass, fed, lost>>

\* Mutant of ReadDone: the flag is cleared after the load, not before it.
ReadDoneClears ==
    /\ At("reading") /\ app.i = MaxRules
    /\ available' = TRUE /\ shouldUpdate' = FALSE
    /\ AppGoto("CHECK_RULES", 0, 0)
    /\ UNCHANGED <<storeVars, rules, loaded, served, queue, timeVars, pass, fed, lost>>

ReadDone ==
    /\ At("reading") /\ app.i = MaxRules
    /\ available' = TRUE
    /\ AppGoto("CHECK_RULES", 0, 0)
    /\ UNCHANGED <<storeVars, rules, loaded, served, shouldUpdate, queue,
                   timeVars, pass, fed, lost>>

Rest == /\ AppGoto("IDLE", 0, 0)
        /\ pass' = IF pass = "begun" THEN "done" ELSE pass

CheckRules ==
    /\ At("CHECK_RULES")
    /\ IF available
       THEN /\ AppGoto("select", 0, 0)
            /\ pass' = IF pass = "none" THEN "begun" ELSE pass
       ELSE /\ AppGoto("IDLE", 0, 0)
            /\ pass' = "done"
    /\ UNCHANGED <<storeVars, rules, available, loaded, served,
                   shouldUpdate, queue, timeVars, fed, lost>>

(***************************************************************************)
(* select_rules_to_execute: the loop runs up to the number of bits set     *)
(* now, and each getter of the clock reads the RTC anew.  A rule that does *)
(* not match is armed again if it is weekly and was executed.              *)
(***************************************************************************)
Current == rules[app.i]

\* Mutant of RuleCount: the last rule is left out.
RuleCountShort == Cardinality(map) - 1
RuleCount      == Cardinality(map)

\* Mutant of Matched: the state of the rule is not looked at.
MatchedAlways ==
    /\ rules' = [rules EXCEPT ![app.i].state = "WAITING"]
    /\ AppGoto("select", app.i + 1, app.n + 1)

Matched ==
    /\ IF Current.state = "READY"
       THEN /\ rules' = [rules EXCEPT ![app.i].state = "WAITING"]
            /\ AppGoto("select", app.i + 1, app.n + 1)
       ELSE /\ AppGoto("select", app.i + 1, app.n)
            /\ UNCHANGED rules

NotMatched ==
    /\ rules' = IF Current.state = "EXECUTED" /\ Current.rule.period = "WEEKLY"
                THEN [rules EXCEPT ![app.i].state = "READY"]
                ELSE rules
    /\ AppGoto("select", app.i + 1, app.n)

SelectRule ==
    /\ At("select") /\ app.i < RuleCount
    /\ IF DayMatches(Current.rule, now)
       THEN AppGoto("hour", app.i, app.n) /\ UNCHANGED rules
       ELSE NotMatched
    /\ UNCHANGED <<storeVars, available, loaded, served, shouldUpdate,
                   queue, timeVars, pass, fed, lost>>

ReadHour ==
    /\ At("hour")
    /\ IF HourMatches(Current.rule, now)
       THEN AppGoto("minute", app.i, app.n) /\ UNCHANGED rules
       ELSE NotMatched
    /\ UNCHANGED <<storeVars, available, loaded, served, shouldUpdate,
                   queue, timeVars, pass, fed, lost>>

ReadMinute ==
    /\ At("minute")
    /\ IF MinuteMatches(Current.rule, now) THEN Matched ELSE NotMatched
    /\ UNCHANGED <<storeVars, available, loaded, served, shouldUpdate,
                   queue, timeVars, pass, fed, lost>>

SelectDone ==
    /\ At("select") /\ app.i >= RuleCount
    /\ IF app.n # 0 THEN AppGoto("PROCESS", 0, 0) /\ UNCHANGED pass ELSE Rest
    /\ UNCHANGED <<storeVars, rules, available, loaded, served,
                   shouldUpdate, queue, timeVars, fed, lost>>

(***************************************************************************)
(* process_rules: every waiting rule is fed; one of a specific date is     *)
(* then removed from the store.                                            *)
(***************************************************************************)
LeastOf(S)     == CHOOSE i \in S : \A j \in S : i <= j
WaitingFrom(k) == {j \in Slots : j >= k /\ rules[j].state = "WAITING"}

ProcessRule ==
    /\ At("PROCESS") /\ WaitingFrom(app.i) # {}
    /\ LET k == LeastOf(WaitingFrom(app.i))
       IN /\ rules' = [rules EXCEPT ![k].state = "EXECUTED"]
          /\ fed' = fed \cup {<<rules[k].fs, rules[k].rule>>}
          /\ served' = served \cup {k}
          /\ IF rules[k].rule.period = "SPECIF"
             THEN CallDelete("app", rules[k].fs) /\ AppGoto("deleting", k + 1, 0)
             ELSE AppGoto("PROCESS", k + 1, 0) /\ UNCHANGED storeVars
    /\ UNCHANGED <<available, loaded, shouldUpdate, queue, timeVars, pass, lost>>

DeleteReturned ==
    /\ At("deleting") /\ call["app"].pc = "return"
    /\ Finish("app")
    /\ AppGoto("PROCESS", app.i, 0)
    /\ UNCHANGED <<flash, map, rules, available, loaded, served,
                   shouldUpdate, queue, timeVars, pass, fed, lost>>

ProcessDone ==
    /\ At("PROCESS") /\ WaitingFrom(app.i) = {}
    /\ Rest
    /\ UNCHANGED <<storeVars, rules, available, loaded, served,
                   shouldUpdate, queue, timeVars, fed, lost>>

(***************************************************************************)
(* IDLE: the flag is tested first and cleared by a later instruction; the  *)
(* rules are loaded after it is cleared.                                   *)
(***************************************************************************)
WakeUp ==
    /\ At("IDLE")
    /\ AppGoto(IF shouldUpdate THEN "clearing" ELSE "CHECK_RULES", 0, 0)
    /\ UNCHANGED <<storeVars, rules, available, loaded, served,
                   shouldUpdate, queue, timeVars, pass, fed, lost>>

ClearUpdate ==
    /\ At("clearing")
    /\ shouldUpdate' = FALSE
    /\ AppGoto("LOAD_RULES", 0, 0)
    /\ UNCHANGED <<storeVars, rules, available, loaded, served, queue,
                   timeVars, pass, fed, lost>>

AppStep == \/ InitApp \/ LoadRules \/ TestRule \/ ReadRule \/ ReadDone
           \/ CheckRules \/ SelectRule \/ ReadHour \/ ReadMinute \/ SelectDone
           \/ ProcessRule \/ DeleteReturned \/ ProcessDone
           \/ WakeUp \/ ClearUpdate

-----------------------------------------------------------------------------
(***************************************************************************)
(* The MQTT handlers, which all run in the MQTT thread.                    *)
(***************************************************************************)
Valid(r) ==
    /\ \/ r.period = "WEEKLY" /\ r.days # {} /\ r.days \subseteq 0 .. DaysPerWeek - 1
       \/ /\ r.period = "SPECIF"
          /\ r.day \in 1 .. DaysPerMonth /\ r.month \in 1 .. MonthsPerYear
    /\ r.hour < HoursPerDay /\ r.minute < MinutesPerHour

OnAddRule(r) ==
    /\ Valid(r)
    /\ CallWrite("mqtt", r)
    /\ UNCHANGED <<appVars, shouldUpdate, queue, timeVars, pass, fed, lost>>

\* The number of the payload is cut to a byte; 255 clears every rule.
RuleIdOf(p) == p % 256

OnRemoveRule(p) ==
    /\ \/ RuleIdOf(p) = 255 /\ CallClear("mqtt")
       \/ RuleIdOf(p) \in Slots /\ CallDelete("mqtt", RuleIdOf(p))
    /\ UNCHANGED <<appVars, shouldUpdate, queue, timeVars, pass, fed, lost>>

\* Mutant of HasRoom: one event more than the queue holds.
HasRoomLate == Len(queue) <= QueueCap
HasRoom     == Len(queue) < QueueCap

\* The handler of the call that returns: a result above 0, which only a write
\* gives, is announced, and the event is dropped when the queue is full.
OnReturn ==
    /\ call["mqtt"].pc = "return"
    /\ Finish("mqtt")
    /\ IF call["mqtt"].ret > 0
       THEN IF HasRoom
            THEN queue' = Append(queue, "UPDATE") /\ lost' = FALSE
            ELSE lost' = TRUE /\ UNCHANGED queue
       ELSE UNCHANGED <<queue, lost>>
    /\ UNCHANGED <<flash, map, appVars, shouldUpdate, timeVars, pass, fed>>

\* A flash operation or a bit of the call that thread t is in.  A rule that
\* enters a slot counts as not yet fed.
StoreCall(t) ==
    /\ StoreStep(t)
    /\ fed' = IF call[t].pc = "store" /\ call[t].op = "write"
              THEN {f \in fed : f[1] # call[t].slot}
              ELSE fed
    /\ UNCHANGED <<appVars, shouldUpdate, queue, timeVars, pass, lost>>

(***************************************************************************)
(* The dispatcher of the network manager, and the other users of its queue.*)
(***************************************************************************)
\* Mutant of Dispatch: another event takes the flag back.
DispatchOverwrites ==
    /\ queue # <<>>
    /\ queue' = Tail(queue)
    /\ shouldUpdate' = (Head(queue) = "UPDATE")
    /\ UNCHANGED <<storeVars, appVars, timeVars, pass, fed, lost>>

Dispatch ==
    /\ queue # <<>>
    /\ queue' = Tail(queue)
    /\ shouldUpdate' = (shouldUpdate \/ Head(queue) = "UPDATE")
    /\ UNCHANGED <<storeVars, appVars, timeVars, pass, fed, lost>>

OtherEvent ==
    /\ Traffic /\ HasRoom
    /\ queue' = Append(queue, "OTHER")
    /\ UNCHANGED <<storeVars, appVars, shouldUpdate, timeVars, pass, fed, lost>>

(***************************************************************************)
(* The environment: a minute ends; power is lost and comes back.           *)
(***************************************************************************)
Tick ==
    /\ now < Horizon /\ pass = "done"
    /\ now' = now + 1
    /\ pass' = "none"
    /\ served' = {k \in served : rules[k].rule.period = "SPECIF"}
    /\ fed' = {f \in fed : f[2].period = "SPECIF"}
    /\ UNCHANGED <<storeVars, app, rules, available, loaded, shouldUpdate,
                   queue, restarts, lost>>

Restart ==
    /\ restarts < MaxRestarts
    /\ restarts' = restarts + 1
    /\ RestartStore
    /\ app' = [pc |-> "INIT", i |-> 0, n |-> 0]
    /\ rules' = ZeroRules
    /\ available' = FALSE /\ shouldUpdate' = FALSE
    /\ queue' = <<>> /\ lost' = FALSE
    /\ pass' = "none" /\ loaded' = 0 /\ served' = {}
    /\ UNCHANGED <<now, fed>>

Next == \/ AppStep
        \/ \E r \in Rule : OnAddRule(r)
        \/ \E p \in RemovePayloads : OnRemoveRule(p)
        \/ OnReturn
        \/ \E t \in Threads : StoreCall(t)
        \/ Dispatch \/ OtherEvent
        \/ Tick \/ Restart

Spec == Init /\ [][Next]_vars

(***************************************************************************)
(* The threads have equal priority and every one of them blocks or sleeps  *)
(* in each turn of its loop, so each is scheduled again and again.         *)
(***************************************************************************)
FairSpec == /\ Spec
            /\ WF_vars(AppStep)
            /\ WF_vars(OnReturn) /\ WF_vars(Dispatch)
            /\ \A t \in Threads : WF_vars(StoreCall(t))

-----------------------------------------------------------------------------
(***************************************************************************)
(* Is rule r due at minute t, by the calendar of the README: months are    *)
(* counted from 1?                                                         *)
(***************************************************************************)
Due(r, t) ==
    /\ \/ r.period = "WEEKLY" /\ Weekday(t) \in r.days
       \/ r.period = "SPECIF" /\ MonthDay(t) = r.day /\ TmMonth(t) + 1 = r.month
    /\ Hour(t) = r.hour /\ Minute(t) = r.minute

Entries == 0 .. loaded - 1

(***************************************************************************)
(* When a check that began in this minute is over, every loaded rule of    *)
(* the given period that is due in this minute has been fed.               *)
(***************************************************************************)
DueIsFed(period) ==
    At("IDLE") /\ pass = "done" /\ available =>
        \A k \in Entries :
            rules[k].rule.period = period /\ Due(rules[k].rule, now)
                => <<rules[k].fs, rules[k].rule>> \in fed

\* Rules are evaluated continuously: no weekly rule in RAM is passed over.
WeeklyDueIsFed == DueIsFed("WEEKLY")

\* The same for the rules of a specific date.
SpecificDueIsFed == DueIsFed("SPECIF")

Dispenses(k) == rules[k].state = "WAITING" /\ rules'[k].state = "EXECUTED"
Fed(k)       == <<rules[k].fs, rules[k].rule>> \in fed

(***************************************************************************)
(* Between two loads the EXECUTED state does its work: an entry is fed     *)
(* once per minute if it is weekly, and once if it is of a specific date.  *)
(***************************************************************************)
FedOncePerLoad == [][\A k \in Slots : Dispenses(k) => k \notin served]_vars

(***************************************************************************)
(* The stronger promise of types.hpp: the executed flag of a weekly rule   *)
(* is what lets it operate again, so it is fed once per minute that        *)
(* matches.                                                                *)
(***************************************************************************)
FedOncePerMatch ==
    [][\A k \in Slots : Dispenses(k) /\ rules[k].rule.period = "WEEKLY" => ~Fed(k)]_vars

\* A rule of a specific date that was executed will not happen again.
SpecificOnce ==
    [][\A k \in Slots : Dispenses(k) /\ rules[k].rule.period = "SPECIF" => ~Fed(k)]_vars

(***************************************************************************)
(* A rule is fed when all its constraints match: in a minute in which it   *)
(* is due, or in the one that follows (the check began in time).           *)
(***************************************************************************)
FedWhenDue ==
    [][\A k \in Slots : Dispenses(k) =>
          \E t \in {now, now - 1} \cap Nat : Due(rules[k].rule, t)]_vars

(***************************************************************************)
(* A check that began in this minute and ends in it feeds what is due now: *)
(* no entry is still waiting from a check of an earlier minute, and none   *)
(* was selected with an hour or a day that has passed.                     *)
(***************************************************************************)
FedInItsMinute ==
    [][\A k \in Slots :
          Dispenses(k) /\ rules[k].rule.period = "WEEKLY" /\ pass # "none"
              => Due(rules[k].rule, now)]_vars

(***************************************************************************)
(* Only entries that the last load filled are ever executed, although the  *)
(* loop runs up to the number of bits set now.                             *)
(***************************************************************************)
FedFromLoad == [][\A k \in Slots : Dispenses(k) => k \in Entries]_vars

(***************************************************************************)
(* The application will load the rules again: it has been told, is about   *)
(* to be told, or is on its way to slot s in a load.                       *)
(***************************************************************************)
InRam(s) == \E k \in Entries : rules[k].fs = s /\ rules[k].rule = flash[IdOf(s)]

UpdatePending == \/ \E j \in DOMAIN queue : queue[j] = "UPDATE"
                 \/ shouldUpdate
                 \/ app.pc \in {"INIT", "clearing", "LOAD_RULES"}

Loading == app.pc \in {"reading", "read"}

AnswerPending == call["mqtt"].pc = "return" /\ call["mqtt"].ret > 0

(***************************************************************************)
(* No update is lost on its way: a rule that has its bit and that RAM does *)
(* not hold yet is announced, unless the queue was full when it was to be. *)
(***************************************************************************)
AddIsAnnounced == \A s \in map :
    \/ InRam(s) \/ UpdatePending \/ AnswerPending \/ lost
    \/ Loading /\ s >= app.i

(***************************************************************************)
(* The same for a rule that was removed: while RAM holds it, the           *)
(* application will load the rules again.                                  *)
(***************************************************************************)
RemovalIsAnnounced == \A k \in Entries :
    \/ rules[k].fs \in map
    \/ rules[k].state = "EXECUTED" /\ rules[k].rule.period = "SPECIF"
    \/ UpdatePending \/ ~IsIdle("mqtt") \/ Loading \/ lost

(***************************************************************************)
(* Stored rules are evaluated: at rest, with nothing left to announce, the *)
(* rules in RAM are available.                                             *)
(***************************************************************************)
RulesEvaluated ==
    At("IDLE") /\ map # {} /\ IsIdle("mqtt") /\ ~UpdatePending /\ ~lost => available

(***************************************************************************)
(* A number on the remove topic that is no rule id ("Rule ID greater than  *)
(* MAX RULES Allowed") starts no removal of a stored rule.                 *)
(***************************************************************************)
UnknownIdIgnored ==
    [][\A p \in RemovePayloads :
          OnRemoveRule(p) /\ call'["mqtt"].pc = "flash"
              => p \in Slots \/ p = 255]_vars

(***************************************************************************)
(* A stored rule whose update is in the queue reaches RAM, unless its slot *)
(* is given up first.                                                      *)
(***************************************************************************)
AcceptedIsLoaded == \A s \in Slots :
    (s \in map /\ UpdatePending) ~> (InRam(s) \/ s \notin map)
=============================================================================
