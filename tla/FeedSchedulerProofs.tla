------------------------- MODULE FeedSchedulerProofs -------------------------
(***************************************************************************)
(* Proofs about the feeding loop, for any set of rules, any calendar, any  *)
(* queue capacity, any faults and any number of power losses.              *)
(***************************************************************************)
EXTENDS FeedScheduler, SchedulerRulesProofs, FiniteSetTheorems, SequenceTheorems,
        WellFoundedInduction

-----------------------------------------------------------------------------
\* A set of slots that is not empty has a least element, and LeastOf picks it:
\* the execution of the rules stays within the array of rules.
LEMMA LeastOfProperties ==
    ASSUME NEW S, S \subseteq Slots, S # {}
    PROVE  LeastOf(S) \in S /\ \A j \in S : LeastOf(S) <= j
<1> DEFINE Less == OpToRel(<, Nat)
<1>1. IsWellFoundedOn(Less, Nat)
  BY NatLessThanWellFounded
<1>2. S \subseteq Nat
  BY SizeAssumption DEF Slots
<1>3. \E i \in S : \A j \in S : <<j, i>> \notin Less
  BY <1>1, <1>2, WFMin
<1>4. \A i, j \in Nat : j < i => <<j, i>> \in Less
  BY DEF OpToRel
<1> HIDE DEF Less
<1>5. PICK i \in S : \A j \in S : <<j, i>> \notin Less
  BY <1>3
<1>6. ASSUME NEW j \in S PROVE i <= j
  <2>1. i \in Nat /\ j \in Nat
    BY <1>2
  <2>2. <<j, i>> \notin Less
    BY <1>5
  <2>3. ~(j < i)
    BY <1>4, <2>1, <2>2, Zenon
  <2> QED
    BY <2>1, <2>3
<1> QED
  BY <1>6 DEF LeastOf

(***************************************************************************)
(* Type correctness.  It is not inductive: that the loops of the           *)
(* application stay within the array needs that the counter n never        *)
(* overtakes the index i and where the index is when the clock is read.    *)
(***************************************************************************)
LoopInv == /\ app.n <= app.i
           /\ app.pc \in {"read", "hour", "minute"} => app.i \in Slots

TypeInv == TypeOK /\ LoopInv

EntryRecord == [rule  : Rule \cup {ZeroRule},
                state : {"READY", "WAITING", "EXECUTED"},
                fs    : Slots]

AppRecord == [pc : AppStates, i : 0 .. MaxRules, n : 0 .. MaxRules]

\* The number of bits set, which bounds the selection, is at most MaxRules.
LEMMA RuleCountBound ==
    ASSUME map \subseteq Slots
    PROVE  RuleCount \in Nat /\ RuleCount <= MaxRules
<1>1. IsFiniteSet(Slots) /\ Cardinality(Slots) = MaxRules
  BY FS_Interval, SizeAssumption DEF Slots
<1>2. IsFiniteSet(map) /\ Cardinality(map) <= MaxRules
  BY <1>1, FS_Subset
<1> QED
  BY <1>2, FS_CardinalityType DEF RuleCount

\* Moving the application thread within the bounds of its loops.
LEMMA AppGotoType ==
    ASSUME NEW pc \in AppStates, NEW i \in 0 .. MaxRules, NEW n \in 0 .. MaxRules,
           n <= i, pc \in {"read", "hour", "minute"} => i \in Slots, AppGoto(pc, i, n)
    PROVE  app' \in AppRecord /\ LoopInv'
BY DEF AppGoto, AppRecord, LoopInv

\* A step that leaves the store alone keeps its type.
LEMMA StoreUnchanged == StoreTypeOK /\ UNCHANGED storeVars => StoreTypeOK'
BY DEF storeVars, StoreTypeOK

\* The steps of the application thread that load the rules.
LEMMA LoadType ==
    ASSUME TypeInv, InitApp \/ LoadRules \/ TestRule \/ ReadRule \/ ReadDone
    PROVE  TypeInv'
<1> USE DEF TypeInv
<1>0. /\ StoreTypeOK /\ 0 \in 0 .. MaxRules /\ app \in AppRecord
      /\ rules \in [Slots -> EntryRecord] /\ app.n <= app.i
      /\ {"LOAD_RULES", "CHECK_RULES", "reading", "read"} \subseteq AppStates
  BY SizeAssumption DEF TypeOK, AppRecord, EntryRecord, LoopInv, AppStates
<1>1. CASE InitApp
  <2>1. app' \in AppRecord /\ LoopInv'
    BY <1>0, <1>1, AppGotoType DEF InitApp
  <2> QED
    BY <1>0, <1>1, <2>1, StoreUnchanged DEF InitApp, TypeOK, AppRecord, timeVars
<1>2. CASE LoadRules
  <2>1. app' \in AppRecord /\ LoopInv'
    BY <1>0, <1>2, AppGotoType DEF LoadRules
  <2> QED
    BY <1>0, <1>2, <2>1, StoreUnchanged, SizeAssumption
       DEF LoadRules, TypeOK, AppRecord, timeVars
<1>3. CASE TestRule
  <2>1. app.i \in Slots /\ app.i + 1 \in 0 .. MaxRules /\ app.n \in 0 .. MaxRules
        /\ app.n <= app.i + 1 /\ app.i \in 0 .. MaxRules
    BY <1>0, <1>3, SizeAssumption DEF TestRule, AppRecord, Slots
  <2>2. app' \in AppRecord /\ LoopInv'
    BY <1>0, <1>3, <2>1, AppGotoType DEF TestRule
  <2> QED
    BY <1>0, <1>3, <2>2, StoreUnchanged DEF TestRule, TypeOK, AppRecord, timeVars
<1>4. CASE ReadRule
  <2> DEFINE r == flash[IdOf(app.i)]
  <2>1. app.i \in Slots
    BY <1>4 DEF ReadRule, At, LoopInv
  <2>2. r \in Rule \cup {Empty}
    BY <1>0, <2>1, SlotIds DEF StoreTypeOK
  <2>3. app.n \in Slots /\ app.n + 1 \in 0 .. MaxRules /\ app.i + 1 \in 0 .. MaxRules
        /\ app.n + 1 <= app.i + 1
    BY <1>0, <2>1, SizeAssumption DEF AppRecord, Slots
  <2>4. \/ /\ r # Empty
           /\ rules' = [rules EXCEPT ![app.n] =
                           [rule |-> r, state |-> "READY", fs |-> app.i]]
           /\ loaded' = app.n + 1
           /\ AppGoto("reading", app.i + 1, app.n + 1)
        \/ AppGoto("CHECK_RULES", 0, 0) /\ UNCHANGED <<rules, loaded>>
    BY <1>4 DEF ReadRule
  <2> HIDE DEF r
  <2>5. app' \in AppRecord /\ LoopInv'
    BY <1>0, <2>3, <2>4, AppGotoType
  <2>6. rules' \in [Slots -> EntryRecord]
    BY <1>0, <2>1, <2>2, <2>4 DEF EntryRecord
  <2>7. loaded' \in 0 .. MaxRules
    BY <2>3, <2>4 DEF TypeOK
  <2> QED
    BY <1>0, <1>4, <2>5, <2>6, <2>7, StoreUnchanged
       DEF ReadRule, TypeOK, AppRecord, EntryRecord, timeVars
<1>5. CASE ReadDone
  <2>1. app' \in AppRecord /\ LoopInv'
    BY <1>0, <1>5, AppGotoType DEF ReadDone
  <2> QED
    BY <1>0, <1>5, <2>1, StoreUnchanged DEF ReadDone, TypeOK, AppRecord, timeVars
<1> QED
  BY <1>1, <1>2, <1>3, <1>4, <1>5

\* An entry that does not match.
LEMMA NotMatchedType ==
    ASSUME TypeInv, app.i \in Slots, NotMatched
    PROVE  /\ app' \in AppRecord /\ LoopInv'
           /\ rules' \in [Slots -> EntryRecord]
<1>1. /\ rules \in [Slots -> EntryRecord] /\ app \in AppRecord /\ app.n <= app.i
  BY DEF TypeInv, TypeOK, LoopInv, AppRecord, EntryRecord
<1>2. app.i + 1 \in 0 .. MaxRules /\ app.n \in 0 .. MaxRules /\ app.n <= app.i + 1
  BY <1>1, SizeAssumption DEF AppRecord, Slots
<1>3. app' \in AppRecord /\ LoopInv'
  BY <1>2, AppGotoType DEF NotMatched, AppStates
<1>4. [rules[app.i] EXCEPT !.state = "READY"] \in EntryRecord
  BY <1>1 DEF EntryRecord
<1>5. rules' \in [Slots -> EntryRecord]
  BY <1>1, <1>4 DEF NotMatched
<1> QED
  BY <1>3, <1>5

\* An entry that matches.
LEMMA MatchedType ==
    ASSUME TypeInv, app.i \in Slots, Matched
    PROVE  /\ app' \in AppRecord /\ LoopInv'
           /\ rules' \in [Slots -> EntryRecord]
<1>1. /\ rules \in [Slots -> EntryRecord] /\ app \in AppRecord /\ app.n <= app.i
  BY DEF TypeInv, TypeOK, LoopInv, AppRecord, EntryRecord
<1>2. /\ app.i + 1 \in 0 .. MaxRules /\ app.n \in 0 .. MaxRules
      /\ app.n + 1 \in 0 .. MaxRules /\ app.n <= app.i + 1 /\ app.n + 1 <= app.i + 1
  BY <1>1, SizeAssumption DEF AppRecord, Slots
<1>3. app' \in AppRecord /\ LoopInv'
  BY <1>2, AppGotoType DEF Matched, AppStates
<1>4. [rules[app.i] EXCEPT !.state = "WAITING"] \in EntryRecord
  BY <1>1 DEF EntryRecord
<1>5. rules' \in [Slots -> EntryRecord]
  BY <1>1, <1>4 DEF Matched
<1> QED
  BY <1>3, <1>5

\* The steps that select the rules to execute.
LEMMA SelectType ==
    ASSUME TypeInv, CheckRules \/ SelectRule \/ ReadHour \/ ReadMinute \/ SelectDone
    PROVE  TypeInv'
<1>0. /\ StoreTypeOK /\ 0 \in 0 .. MaxRules /\ app \in AppRecord
      /\ rules \in [Slots -> EntryRecord] /\ app.n <= app.i
      /\ app.i \in 0 .. MaxRules /\ app.n \in 0 .. MaxRules
      /\ {"IDLE", "select", "hour", "minute", "PROCESS"} \subseteq AppStates
  BY SizeAssumption DEF TypeInv, TypeOK, AppRecord, EntryRecord, LoopInv, AppStates
<1>1. CASE CheckRules
  <2>1. app' \in AppRecord /\ LoopInv'
    BY <1>0, <1>1, AppGotoType DEF CheckRules
  <2>2. pass' \in {"none", "begun", "done"}
    BY <1>1 DEF CheckRules, TypeInv, TypeOK
  <2> QED
    BY <1>0, <1>1, <2>1, <2>2, StoreUnchanged
       DEF CheckRules, TypeInv, TypeOK, AppRecord, timeVars
<1>2. CASE SelectRule
  <2>1. app.i \in Slots
    BY <1>0, <1>2, RuleCountBound, SizeAssumption DEF SelectRule, Slots, StoreTypeOK
  <2>2. /\ app' \in AppRecord /\ LoopInv'
        /\ rules' \in [Slots -> EntryRecord]
    BY <1>0, <1>2, <2>1, AppGotoType, NotMatchedType DEF SelectRule
  <2> QED
    BY <1>0, <1>2, <2>2, StoreUnchanged
       DEF SelectRule, TypeInv, TypeOK, AppRecord, EntryRecord, timeVars
<1>3. CASE ReadHour
  <2>1. app.i \in Slots
    BY <1>3 DEF ReadHour, At, TypeInv, LoopInv
  <2>2. /\ app' \in AppRecord /\ LoopInv'
        /\ rules' \in [Slots -> EntryRecord]
    BY <1>0, <1>3, <2>1, AppGotoType, NotMatchedType DEF ReadHour
  <2> QED
    BY <1>0, <1>3, <2>2, StoreUnchanged
       DEF ReadHour, TypeInv, TypeOK, AppRecord, EntryRecord, timeVars
<1>4. CASE ReadMinute
  <2>1. app.i \in Slots
    BY <1>4 DEF ReadMinute, At, TypeInv, LoopInv
  <2>2. /\ app' \in AppRecord /\ LoopInv'
        /\ rules' \in [Slots -> EntryRecord]
    BY <1>0, <1>4, <2>1, MatchedType, NotMatchedType DEF ReadMinute
  <2> QED
    BY <1>0, <1>4, <2>2, StoreUnchanged
       DEF ReadMinute, TypeInv, TypeOK, AppRecord, EntryRecord, timeVars
<1>5. CASE SelectDone
  <2>1. app' \in AppRecord /\ LoopInv'
    BY <1>0, <1>5, AppGotoType DEF SelectDone, Rest
  <2>2. pass' \in {"none", "begun", "done"}
    BY <1>5 DEF SelectDone, Rest, TypeInv, TypeOK
  <2> QED
    BY <1>0, <1>5, <2>1, <2>2, StoreUnchanged
       DEF SelectDone, TypeInv, TypeOK, AppRecord, timeVars
<1> QED
  BY <1>1, <1>2, <1>3, <1>4, <1>5

\* The steps that execute the selected rules, and those of IDLE.
LEMMA ProcessType ==
    ASSUME TypeInv,
           ProcessRule \/ DeleteReturned \/ ProcessDone \/ WakeUp \/ ClearUpdate
    PROVE  TypeInv'
<1>0. /\ StoreTypeOK /\ 0 \in 0 .. MaxRules /\ app \in AppRecord
      /\ rules \in [Slots -> EntryRecord] /\ "app" \in Threads
      /\ app.i \in 0 .. MaxRules
      /\ {"IDLE", "PROCESS", "deleting", "clearing", "CHECK_RULES", "LOAD_RULES"}
            \subseteq AppStates
  BY SizeAssumption DEF TypeInv, TypeOK, AppRecord, EntryRecord, AppStates, Threads
<1>1. CASE ProcessRule
  <2> DEFINE k == LeastOf(WaitingFrom(app.i))
  <2>1. k \in Slots
    BY <1>1, LeastOfProperties DEF ProcessRule, WaitingFrom
  <2>2. /\ rules' = [rules EXCEPT ![k].state = "EXECUTED"]
        /\ fed' = fed \cup {<<rules[k].fs, rules[k].rule>>}
        /\ served' = served \cup {k}
        /\ \/ CallDelete("app", rules[k].fs) /\ AppGoto("deleting", k + 1, 0)
           \/ AppGoto("PROCESS", k + 1, 0) /\ UNCHANGED storeVars
    BY <1>1 DEF ProcessRule
  <2> HIDE DEF k
  <2>3. k + 1 \in 0 .. MaxRules /\ 0 <= k + 1
    BY <2>1, SizeAssumption DEF Slots
  <2>4. app' \in AppRecord /\ LoopInv'
    BY <1>0, <2>2, <2>3, AppGotoType
  <2>5. rules[k].fs \in Slots /\ rules[k].rule \in Rule \cup {ZeroRule}
    BY <1>0, <2>1 DEF EntryRecord
  <2>6. StoreTypeOK'
    BY <1>0, <2>2, <2>5, CallsType, StoreUnchanged
  <2>7. [rules[k] EXCEPT !.state = "EXECUTED"] \in EntryRecord
    BY <1>0, <2>1 DEF EntryRecord
  <2>8. rules' \in [Slots -> EntryRecord]
    BY <1>0, <2>2, <2>7
  <2> QED
    BY <1>1, <2>1, <2>2, <2>4, <2>5, <2>6, <2>8
       DEF ProcessRule, TypeInv, TypeOK, AppRecord, EntryRecord, timeVars
<1>2. CASE DeleteReturned
  <2>1. app' \in AppRecord /\ LoopInv'
    BY <1>0, <1>2, AppGotoType DEF DeleteReturned
  <2>2. StoreTypeOK'
    BY <1>0, <1>2, MoveTypes DEF DeleteReturned, StoreTypeOK
  <2> QED
    BY <1>2, <2>1, <2>2 DEF DeleteReturned, TypeInv, TypeOK, AppRecord, timeVars
<1>3. CASE ProcessDone
  <2>1. app' \in AppRecord /\ LoopInv'
    BY <1>0, <1>3, AppGotoType DEF ProcessDone, Rest
  <2>2. pass' \in {"none", "begun", "done"}
    BY <1>3 DEF ProcessDone, Rest, TypeInv, TypeOK
  <2> QED
    BY <1>0, <1>3, <2>1, <2>2, StoreUnchanged
       DEF ProcessDone, TypeInv, TypeOK, AppRecord, timeVars
<1>4. CASE WakeUp
  <2>1. app' \in AppRecord /\ LoopInv'
    BY <1>0, <1>4, AppGotoType DEF WakeUp
  <2> QED
    BY <1>0, <1>4, <2>1, StoreUnchanged DEF WakeUp, TypeInv, TypeOK, AppRecord, timeVars
<1>5. CASE ClearUpdate
  <2>1. app' \in AppRecord /\ LoopInv'
    BY <1>0, <1>5, AppGotoType DEF ClearUpdate
  <2> QED
    BY <1>0, <1>5, <2>1, StoreUnchanged
       DEF ClearUpdate, TypeInv, TypeOK, AppRecord, timeVars
<1> QED
  BY <1>1, <1>2, <1>3, <1>4, <1>5

\* The handlers of the MQTT thread and the calls in progress.
LEMMA HandlerType ==
    ASSUME TypeInv,
           \/ \E r \in Rule : OnAddRule(r)
           \/ \E p \in RemovePayloads : OnRemoveRule(p)
           \/ OnReturn
           \/ \E t \in Threads : StoreCall(t)
    PROVE  TypeInv'
<1>0. StoreTypeOK /\ "mqtt" \in Threads
  BY DEF TypeInv, TypeOK, Threads
<1>1. CASE \E r \in Rule : OnAddRule(r)
  <2>1. StoreTypeOK'
    BY <1>0, <1>1, CallsType DEF OnAddRule
  <2> QED
    BY <1>1, <2>1 DEF OnAddRule, TypeInv, TypeOK, LoopInv, appVars, timeVars
<1>2. CASE \E p \in RemovePayloads : OnRemoveRule(p)
  <2>1. StoreTypeOK'
    BY <1>0, <1>2, CallsType DEF OnRemoveRule
  <2> QED
    BY <1>2, <2>1 DEF OnRemoveRule, TypeInv, TypeOK, LoopInv, appVars, timeVars
<1>3. CASE OnReturn
  <2>1. StoreTypeOK'
    BY <1>0, <1>3, MoveTypes DEF OnReturn, StoreTypeOK
  <2>2. queue \in Seq({"UPDATE", "OTHER"}) /\ Len(queue) <= QueueCap
    BY DEF TypeInv, TypeOK
  <2>3. /\ queue' \in Seq({"UPDATE", "OTHER"}) /\ Len(queue') <= QueueCap
        /\ lost' \in BOOLEAN
    <3>1. lost' \in BOOLEAN
      BY <1>3 DEF OnReturn, TypeInv, TypeOK
    <3>2. CASE queue' = queue
      BY <2>2, <3>1, <3>2
    <3>3. CASE HasRoom /\ queue' = Append(queue, "UPDATE")
      <4>1. Append(queue, "UPDATE") \in Seq({"UPDATE", "OTHER"})
        BY <2>2
      <4>2. Len(Append(queue, "UPDATE")) = Len(queue) + 1 /\ Len(queue) \in Nat
        BY <2>2
      <4> QED
        BY <3>1, <3>3, <4>1, <4>2, QueueAssumption DEF HasRoom
    <3> QED
      BY <1>3, <3>2, <3>3 DEF OnReturn
  <2> QED
    BY <1>3, <2>1, <2>3 DEF OnReturn, TypeInv, TypeOK, LoopInv, appVars, timeVars
<1>4. CASE \E t \in Threads : StoreCall(t)
  <2>1. StoreTypeOK'
    BY <1>0, <1>4, StepsType DEF StoreCall
  <2>2. fed' \subseteq fed
    BY <1>4 DEF StoreCall
  <2> QED
    BY <1>4, <2>1, <2>2 DEF StoreCall, TypeInv, TypeOK, LoopInv, appVars, timeVars
<1> QED
  BY <1>1, <1>2, <1>3, <1>4

\* The dispatcher, the clock and the power.
LEMMA EnvironmentType ==
    ASSUME TypeInv, Dispatch \/ OtherEvent \/ Tick \/ Restart
    PROVE  TypeInv'
<1>0. /\ StoreTypeOK /\ queue \in Seq({"UPDATE", "OTHER"}) /\ Len(queue) <= QueueCap
      /\ QueueCap \in Nat \ {0}
  BY QueueAssumption DEF TypeInv, TypeOK
<1>1. CASE Dispatch
  <2>1. /\ Tail(queue) \in Seq({"UPDATE", "OTHER"})
        /\ Len(Tail(queue)) <= QueueCap
    BY <1>0, <1>1, HeadTailProperties DEF Dispatch
  <2>2. shouldUpdate' \in BOOLEAN
    BY <1>1 DEF Dispatch, TypeInv, TypeOK
  <2> QED
    BY <1>0, <1>1, <2>1, <2>2, StoreUnchanged
       DEF Dispatch, TypeInv, TypeOK, LoopInv, appVars, timeVars
<1>2. CASE OtherEvent
  <2>1. queue' \in Seq({"UPDATE", "OTHER"}) /\ Len(queue') <= QueueCap
    BY <1>0, <1>2 DEF OtherEvent, HasRoom
  <2> QED
    BY <1>0, <1>2, <2>1, StoreUnchanged
       DEF OtherEvent, TypeInv, TypeOK, LoopInv, appVars, timeVars
<1>3. CASE Tick
  BY <1>0, <1>3, StoreUnchanged, CalendarAssumption
     DEF Tick, TypeInv, TypeOK, LoopInv, timeVars
<1>4. CASE Restart
  <2>1. StoreTypeOK'
    BY <1>0, <1>4, RestartType DEF Restart
  <2>2. rules' \in [Slots -> EntryRecord] /\ app' \in AppRecord /\ LoopInv'
    BY <1>4, SizeAssumption
       DEF Restart, ZeroRules, EntryRecord, AppRecord, AppStates, LoopInv, Slots
  <2>3. /\ restarts' \in 0 .. MaxRestarts /\ loaded' \in 0 .. MaxRules
        /\ queue' \in Seq({"UPDATE", "OTHER"}) /\ Len(queue') <= QueueCap
    BY <1>0, <1>4, CalendarAssumption, SizeAssumption DEF Restart, TypeInv, TypeOK
  <2> QED
    BY <1>4, <2>1, <2>2, <2>3 DEF Restart, TypeInv, TypeOK, AppRecord, EntryRecord
<1> QED
  BY <1>1, <1>2, <1>3, <1>4

\* The initial states.
LEMMA TypeInvInit == Init => TypeInv
<1> SUFFICES ASSUME Init PROVE TypeInv
  OBVIOUS
<1>1. StoreTypeOK
  BY StoreInitType DEF Init
<1>2. rules \in [Slots -> EntryRecord] /\ app \in AppRecord /\ LoopInv
  BY SizeAssumption
     DEF Init, ZeroRules, EntryRecord, AppRecord, AppStates, LoopInv, Slots
<1>3. queue \in Seq({"UPDATE", "OTHER"}) /\ Len(queue) <= QueueCap
  BY QueueAssumption DEF Init
<1>4. /\ now \in Start .. Horizon /\ restarts \in 0 .. MaxRestarts
      /\ loaded \in 0 .. MaxRules
  BY CalendarAssumption, SizeAssumption DEF Init
<1> QED
  BY <1>1, <1>2, <1>3, <1>4 DEF Init, TypeInv, TypeOK, AppRecord, EntryRecord

\* Every step.
LEMMA TypeInvStep == TypeInv /\ [Next]_vars => TypeInv'
<1> SUFFICES ASSUME TypeInv, [Next]_vars PROVE TypeInv'
  OBVIOUS
<1>1. CASE AppStep
  BY <1>1, LoadType, SelectType, ProcessType DEF AppStep
<1>2. CASE UNCHANGED vars
  <2>1. UNCHANGED storeVars
    BY <1>2 DEF vars
  <2>2. StoreTypeOK'
    BY <2>1, StoreUnchanged DEF TypeInv, TypeOK
  <2> QED
    BY <1>2, <2>2 DEF vars, appVars, timeVars, TypeInv, TypeOK, LoopInv
<1> QED
  BY <1>1, <1>2, HandlerType, EnvironmentType DEF Next

\* The state of the feeding loop keeps its type: in particular its loops stay
\* within the array of rules, whatever the MQTT thread does to the bitset while
\* they run (Application::select_rules_to_execute, SchedulerRules::read_rules).
THEOREM TypeCorrect == Spec => []TypeOK
<1>1. TypeInv => TypeOK
  BY DEF TypeInv
<1> QED
  BY <1>1, TypeInvInit, TypeInvStep, PTL DEF Spec

-----------------------------------------------------------------------------
(***************************************************************************)
(* Between two loads an entry is fed once.  What has to be remembered of a *)
(* served entry: it is EXECUTED, or it is weekly and was armed again by a  *)
(* reading of the clock that did not match, in this very minute, so that   *)
(* no complete reading in this minute can match.                           *)
(***************************************************************************)
Matches(r, t) == DayMatches(r, t) /\ HourMatches(r, t) /\ MinuteMatches(r, t)

ServedOK(k) ==
    \/ rules[k].state = "EXECUTED"
    \/ /\ rules[k].state = "READY" /\ rules[k].rule.period = "WEEKLY"
       /\ ~Matches(rules[k].rule, now)

ReadingOK ==
    app.i \in served /\ Current.rule.period = "WEEKLY" =>
        /\ app.pc \in {"hour", "minute"} => DayMatches(Current.rule, now)
        /\ app.pc = "minute" => HourMatches(Current.rule, now)

OnceInv == /\ \A k \in served : ServedOK(k)
           /\ ReadingOK
           /\ Loading => served = {}

\* The steps that change the state of an entry, or read the clock for one.
LEMMA OnceSelect ==
    ASSUME TypeInv, OnceInv, SelectRule \/ ReadHour \/ ReadMinute
    PROVE  OnceInv'
<1>0. /\ rules \in [Slots -> EntryRecord] /\ app \in AppRecord /\ served \subseteq Slots
  BY DEF TypeInv, TypeOK, AppRecord, EntryRecord
<1>1. app.i \in Slots
  BY RuleCountBound, SizeAssumption
     DEF SelectRule, ReadHour, ReadMinute, At, TypeInv, LoopInv, TypeOK,
         StoreTypeOK, Slots
<1>2. served' = served /\ now' = now
  BY DEF SelectRule, ReadHour, ReadMinute, timeVars
<1>3. CASE NotMatched /\ ~Matches(Current.rule, now)
  <2>1. app'.pc = "select"
    BY <1>3 DEF NotMatched, AppGoto
  <2>2. \A k \in Slots : rules'[k] = rules[k] \/
             /\ k = app.i /\ rules'[k].state = "READY"
             /\ rules'[k].rule = rules[k].rule /\ rules[k].rule.period = "WEEKLY"
    BY <1>0, <1>1, <1>3 DEF NotMatched, Current, EntryRecord
  <2>3. \A k \in served : ServedOK(k)'
    BY <1>0, <1>2, <1>3, <2>2
       DEF OnceInv, ServedOK, Current, Matches, DayMatches, HourMatches, MinuteMatches
  <2> QED
    BY <1>2, <2>1, <2>3 DEF OnceInv, ReadingOK, Loading
<1>4. CASE SelectRule /\ DayMatches(Current.rule, now)
  <2>1. rules' = rules /\ app'.pc = "hour"
    BY <1>4 DEF SelectRule, AppGoto
  <2>2. app'.i = app.i
    BY <1>4 DEF SelectRule, AppGoto
  <2> QED
    BY <1>2, <1>4, <2>1, <2>2
       DEF OnceInv, ServedOK, ReadingOK, Current, Matches, DayMatches, HourMatches,
           MinuteMatches, Loading
<1>5. CASE ReadHour /\ HourMatches(Current.rule, now)
  <2>1. rules' = rules /\ app'.pc = "minute" /\ app'.i = app.i
    BY <1>5 DEF ReadHour, AppGoto
  <2> QED
    BY <1>2, <1>5, <2>1
       DEF OnceInv, ServedOK, ReadingOK, Current, Matches, DayMatches, HourMatches,
           MinuteMatches, Loading, ReadHour, At
<1>6. CASE ReadMinute /\ MinuteMatches(Current.rule, now)
  <2>1. Matched /\ app.pc = "minute"
    BY <1>6 DEF ReadMinute, At
  <2>2. app'.pc = "select"
    BY <2>1 DEF Matched, AppGoto
  <2>3. app.i \in served => rules[app.i].state = "EXECUTED"
    BY <1>6, <2>1 DEF OnceInv, ServedOK, ReadingOK, Current, Matches
  <2>4. \A k \in served : rules'[k] = rules[k]
    BY <1>0, <1>1, <2>1, <2>3 DEF Matched, Current
  <2>5. \A k \in served : ServedOK(k)'
    BY <1>2, <2>4
       DEF OnceInv, ServedOK, Matches, DayMatches, HourMatches, MinuteMatches
  <2> QED
    BY <1>2, <2>2, <2>5 DEF OnceInv, ReadingOK, Loading
<1> QED
  BY <1>3, <1>4, <1>5, <1>6 DEF SelectRule, ReadHour, ReadMinute, Matches

\* The other steps.
LEMMA OnceStep == TypeInv /\ OnceInv /\ [Next]_vars => OnceInv'
<1> SUFFICES ASSUME TypeInv, OnceInv, [Next]_vars PROVE OnceInv'
  OBVIOUS
<1>0. /\ rules \in [Slots -> EntryRecord] /\ app \in AppRecord /\ served \subseteq Slots
  BY DEF TypeInv, TypeOK, AppRecord, EntryRecord
<1> DEFINE Quiet == /\ rules' = rules /\ now' = now /\ served' = served
                    /\ \/ app' = app
                       \/ app'.pc \notin {"hour", "minute", "reading", "read"}
<1>1. CASE Quiet
  BY <1>1 DEF OnceInv, Loading, ServedOK, ReadingOK, Current, Matches, DayMatches,
              HourMatches, MinuteMatches
<1>2. CASE SelectRule \/ ReadHour \/ ReadMinute
  BY <1>2, OnceSelect
<1>3. CASE LoadRules
  BY <1>3 DEF LoadRules, AppGoto, OnceInv, ReadingOK
<1>4. CASE TestRule \/ ReadRule
  BY <1>4 DEF TestRule, ReadRule, AppGoto, OnceInv, ReadingOK, At, Loading
<1>5. CASE ProcessRule
  <2> DEFINE k == LeastOf(WaitingFrom(app.i))
  <2>1. k \in Slots
    BY <1>5, LeastOfProperties DEF ProcessRule, WaitingFrom
  <2>2. /\ rules' = [rules EXCEPT ![k].state = "EXECUTED"]
        /\ served' = served \cup {k} /\ now' = now
        /\ app'.pc \notin {"hour", "minute", "reading", "read"}
    BY <1>5 DEF ProcessRule, timeVars, AppGoto
  <2> HIDE DEF k
  <2>3. /\ rules'[k].state = "EXECUTED"
        /\ \A j \in Slots \ {k} : rules'[j] = rules[j]
    BY <1>0, <2>1, <2>2 DEF EntryRecord
  <2>4. \A j \in served' : ServedOK(j)'
    BY <1>0, <2>2, <2>3
       DEF OnceInv, ServedOK, Matches, DayMatches, HourMatches, MinuteMatches
  <2> QED
    BY <2>2, <2>4 DEF OnceInv, ReadingOK, Loading
<1>6. CASE Tick
  <2>1. \A k \in served' : k \in served /\ rules[k].state = "EXECUTED"
    BY <1>6 DEF Tick, OnceInv, ServedOK
  <2>2. rules' = rules /\ app' = app
    BY <1>6 DEF Tick
  <2>3. \A k \in served' : rules[k].rule.period = "SPECIF"
    BY <1>6 DEF Tick
  <2> QED
    BY <2>1, <2>2, <2>3 DEF OnceInv, ServedOK, ReadingOK, Current, Loading
<1>7. CASE Restart
  BY <1>7 DEF Restart, OnceInv, ReadingOK, Loading
<1>8. CASE AppStep
  BY <1>1, <1>2, <1>3, <1>4, <1>5, <1>8
     DEF AppStep, InitApp, ReadDone, CheckRules, SelectDone, DeleteReturned,
         ProcessDone, WakeUp, ClearUpdate, Rest, AppGoto, timeVars
<1>9. CASE \/ \E r \in Rule : OnAddRule(r)
           \/ \E p \in RemovePayloads : OnRemoveRule(p)
           \/ OnReturn
           \/ \E t \in Threads : StoreCall(t)
           \/ Dispatch \/ OtherEvent
           \/ UNCHANGED vars
  <2>1. UNCHANGED <<appVars, now>>
    BY <1>9 DEF OnAddRule, OnRemoveRule, OnReturn, StoreCall, Dispatch,
                OtherEvent, vars, timeVars
  <2> QED
    BY <1>1, <2>1 DEF appVars
<1> QED
  BY <1>6, <1>7, <1>8, <1>9 DEF Next

\* Between two loads of the rules, the READY/WAITING/EXECUTED state of an entry
\* (RULE_STATE) lets a weekly rule be fed once in a minute and a rule of a
\* specific date once, even when the clock moves on between two readings of it.
THEOREM FedOnce == Spec => FedOncePerLoad
<1>1. Init => OnceInv
  BY DEF Init, OnceInv, ReadingOK
<1>2. TypeInv /\ OnceInv => \A k \in Slots : Dispenses(k) => k \notin served
  BY DEF OnceInv, ServedOK, Dispenses
<1> QED
  BY <1>1, <1>2, TypeInvInit, TypeInvStep, OnceStep, PTL DEF Spec, FedOncePerLoad

-----------------------------------------------------------------------------
(***************************************************************************)
(* A check feeds what is due.  Entries wait only between their selection   *)
(* and their execution; and what a check that began in this minute has     *)
(* read of the clock still holds, for the entry it is at and for those it  *)
(* has selected, because none waits when a check begins.                   *)
(***************************************************************************)
Reading    == {"select", "hour", "minute"}
Processing == {"PROCESS", "deleting"}
NoneWaits  == \A k \in Slots : rules[k].state # "WAITING"

Waits ==
    /\ app.pc \notin Reading \cup Processing => NoneWaits
    /\ app.pc \in Reading /\ app.n = 0 => NoneWaits
    /\ app.pc \in Processing =>
          \A k \in Slots : rules[k].state = "WAITING" => k >= app.i

InTheMinute == pass # "none" =>
    /\ app.pc \in {"hour", "minute"} => DayMatches(Current.rule, now)
    /\ app.pc = "minute" => HourMatches(Current.rule, now)
    /\ \A k \in Slots : rules[k].state = "WAITING" => Matches(rules[k].rule, now)

MinuteInv == Waits /\ InTheMinute

\* The steps in which no entry begins to wait and no clock is read.
LEMMA MinuteStays ==
    ASSUME MinuteInv, now' = now,
           app' = app \/ app'.pc \notin {"hour", "minute"},
           pass' = pass \/ NoneWaits,
           \A k \in Slots : /\ rules'[k].state = "WAITING" => rules[k].state = "WAITING"
                            /\ rules'[k].state = "WAITING" => rules'[k].rule = rules[k].rule,
           app' = app => rules' = rules /\ pass' = pass
    PROVE  InTheMinute'
<1>1. \A k \in Slots : rules'[k].state = "WAITING" =>
         Matches(rules[k].rule, now)' = Matches(rules[k].rule, now)
  BY DEF Matches, DayMatches, HourMatches, MinuteMatches
<1>2. CASE app' = app
  BY <1>1, <1>2 DEF MinuteInv, InTheMinute, Current, Matches, DayMatches, HourMatches,
                    MinuteMatches
<1>3. CASE app'.pc \notin {"hour", "minute"}
  BY <1>1, <1>3 DEF MinuteInv, InTheMinute, NoneWaits
<1> QED
  BY <1>2, <1>3

\* The selection.
LEMMA MinuteSelects ==
    ASSUME TypeInv, MinuteInv, SelectRule \/ ReadHour \/ ReadMinute
    PROVE  MinuteInv'
<1>0. /\ now' = now /\ pass' = pass /\ app.pc \in Reading /\ app.i \in Slots
      /\ rules \in [Slots -> EntryRecord] /\ app.n \in Nat
  <2>1. app.i \in Slots
    BY RuleCountBound, SizeAssumption
       DEF SelectRule, ReadHour, ReadMinute, At, TypeInv, LoopInv, TypeOK,
           StoreTypeOK, Slots
  <2> QED
    BY <2>1 DEF SelectRule, ReadHour, ReadMinute, At, Reading, timeVars, TypeInv,
                TypeOK, EntryRecord
<1>1. CASE NotMatched
  <2>1. app'.pc = "select" /\ app'.n = app.n
    BY <1>1 DEF NotMatched, AppGoto
  <2>2. \A k \in Slots : rules'[k].state = "WAITING" =>
           rules[k].state = "WAITING" /\ rules'[k].rule = rules[k].rule
    BY <1>0, <1>1 DEF NotMatched, Current, EntryRecord
  <2>3. Waits'
    BY <1>0, <2>1, <2>2 DEF MinuteInv, Waits, NoneWaits, Reading, Processing
  <2>4. InTheMinute'
    <3>1. \A k \in Slots : rules'[k].state = "WAITING" =>
             Matches(rules[k].rule, now)' = Matches(rules[k].rule, now)
      BY <1>0, <2>2 DEF Matches, DayMatches, HourMatches, MinuteMatches
    <3> QED
      BY <1>0, <2>1, <2>2, <3>1 DEF MinuteInv, InTheMinute
  <2> QED
    BY <2>3, <2>4 DEF MinuteInv
<1>2. CASE \/ SelectRule /\ DayMatches(Current.rule, now)
           \/ ReadHour /\ HourMatches(Current.rule, now)
  <2>1. /\ rules' = rules /\ app'.i = app.i /\ app'.n = app.n
        /\ app'.pc \in {"hour", "minute"}
        /\ pass # "none" => /\ DayMatches(Current.rule, now)
                            /\ app'.pc = "minute" => HourMatches(Current.rule, now)
    BY <1>2 DEF SelectRule, ReadHour, At, AppGoto, MinuteInv, InTheMinute
  <2>2. Waits'
    BY <1>0, <2>1 DEF MinuteInv, Waits, NoneWaits, Reading, Processing
  <2>3. InTheMinute'
    BY <1>0, <2>1 DEF MinuteInv, InTheMinute, Current, Matches, DayMatches, HourMatches,
                      MinuteMatches
  <2> QED
    BY <2>2, <2>3 DEF MinuteInv
<1>3. CASE ReadMinute /\ MinuteMatches(Current.rule, now)
  <2>1. /\ Matched /\ app'.pc = "select"
        /\ pass # "none" => Matches(rules[app.i].rule, now)
    BY <1>3 DEF ReadMinute, At, Matched, AppGoto, MinuteInv, InTheMinute, Matches, Current
  <2>2. \/ rules' = rules /\ app'.n = app.n
        \/ /\ app'.n = app.n + 1
           /\ \A k \in Slots : rules'[k].rule = rules[k].rule
           /\ \A k \in Slots \ {app.i} : rules'[k] = rules[k]
    BY <1>0, <2>1 DEF Matched, Current, EntryRecord, AppGoto
  <2>3. Waits'
    BY <1>0, <2>1, <2>2 DEF MinuteInv, Waits, NoneWaits, Reading, Processing
  <2>4. InTheMinute'
    <3>1. \A k \in Slots : Matches(rules[k].rule, now)' = Matches(rules[k].rule, now)
      BY <1>0, <2>2 DEF Matches, DayMatches, HourMatches, MinuteMatches
    <3>2. \A k \in Slots : k # app.i => rules'[k] = rules[k]
      BY <2>2
    <3> QED
      BY <1>0, <2>1, <3>1, <3>2 DEF MinuteInv, InTheMinute
  <2> QED
    BY <2>3, <2>4 DEF MinuteInv
<1> QED
  BY <1>1, <1>2, <1>3 DEF SelectRule, ReadHour, ReadMinute

\* Every step.
LEMMA MinuteStep == TypeInv /\ MinuteInv /\ [Next]_vars => MinuteInv'
<1> SUFFICES ASSUME TypeInv, MinuteInv, [Next]_vars PROVE MinuteInv'
  OBVIOUS
<1>0. /\ rules \in [Slots -> EntryRecord] /\ app.i \in 0 .. MaxRules
      /\ app.n \in 0 .. MaxRules /\ app.n <= app.i
      /\ \A k \in Slots : k \in Nat
  BY SizeAssumption DEF TypeInv, TypeOK, LoopInv, EntryRecord, Slots
<1>1. CASE SelectRule \/ ReadHour \/ ReadMinute
  BY <1>1, MinuteSelects
<1>2. CASE \/ InitApp \/ LoadRules \/ TestRule \/ ReadDone \/ CheckRules
           \/ WakeUp \/ ClearUpdate
  <2>1. /\ app.pc \notin Reading \cup Processing /\ rules' = rules /\ now' = now
        /\ app'.pc \notin {"hour", "minute"} \cup Processing /\ app' # app
    BY <1>0, <1>2
       DEF InitApp, LoadRules, TestRule, ReadDone, CheckRules, WakeUp, ClearUpdate, At,
           AppGoto, Reading, Processing, timeVars
  <2>2. NoneWaits /\ Waits'
    BY <2>1 DEF MinuteInv, Waits, NoneWaits
  <2> QED
    BY <2>1, <2>2, MinuteStays DEF MinuteInv
<1>3. CASE ReadRule
  <2>1. /\ app.pc = "read" /\ now' = now /\ pass' = pass
        /\ app'.pc \in {"reading", "CHECK_RULES"} /\ app' # app
    BY <1>3 DEF ReadRule, At, AppGoto, timeVars
  <2>2. NoneWaits
    BY <2>1 DEF MinuteInv, Waits, Reading, Processing
  <2>3. NoneWaits'
    BY <1>0, <1>3, <2>2 DEF ReadRule, NoneWaits
  <2> QED
    BY <2>1, <2>2, <2>3, MinuteStays DEF MinuteInv, Waits, NoneWaits, Reading, Processing
<1>4. CASE SelectDone \/ ProcessDone
  <2>1. /\ rules' = rules /\ now' = now /\ app' # app
        /\ \/ app.pc = "select" /\ app.n # 0 /\ app'.pc = "PROCESS" /\ app'.i = 0 /\ pass' = pass
           \/ app.pc = "select" /\ app.n = 0 /\ app'.pc = "IDLE"
           \/ app.pc = "PROCESS" /\ app'.pc = "IDLE" /\ WaitingFrom(app.i) = {}
    BY <1>4 DEF SelectDone, ProcessDone, Rest, At, AppGoto, timeVars
  <2>2. app'.pc = "IDLE" => NoneWaits
    BY <2>1 DEF MinuteInv, Waits, NoneWaits, Reading, Processing, WaitingFrom
  <2>3. Waits'
    BY <1>0, <2>1, <2>2 DEF Waits, NoneWaits, Reading, Processing
  <2> QED
    BY <2>1, <2>2, <2>3, MinuteStays DEF MinuteInv
<1>5. CASE ProcessRule
  <2>1. PICK k \in Slots : k = LeastOf(WaitingFrom(app.i)) /\ \A j \in WaitingFrom(app.i) : k <= j
    BY <1>5, LeastOfProperties DEF ProcessRule, WaitingFrom
  <2>2. /\ rules' = [rules EXCEPT ![k].state = "EXECUTED"] /\ now' = now /\ pass' = pass
        /\ app.pc = "PROCESS" /\ app'.pc \in Processing /\ app'.i = k + 1 /\ k >= app.i
    BY <1>5, <2>1, LeastOfProperties
       DEF ProcessRule, AppGoto, At, Processing, timeVars, WaitingFrom
  <2>3. \A j \in Slots : rules'[j].state = "WAITING" =>
           rules[j].state = "WAITING" /\ j # k /\ rules'[j].rule = rules[j].rule
    BY <1>0, <2>2 DEF EntryRecord
  <2>4. \A j \in Slots : rules'[j].state = "WAITING" => j >= k + 1
    <3>1. \A j \in Slots : rules'[j].state = "WAITING" => j \in WaitingFrom(app.i)
      BY <2>2, <2>3 DEF MinuteInv, Waits, WaitingFrom, Processing
    <3> QED
      BY <1>0, <2>1, <2>3, <3>1
  <2>5. Waits'
    BY <2>2, <2>4 DEF Waits, Reading, Processing
  <2>6. app' # app
    BY <1>0, <2>2
  <2> QED
    BY <2>2, <2>3, <2>5, <2>6, MinuteStays DEF MinuteInv, Processing
<1>6. CASE DeleteReturned
  <2>1. /\ rules' = rules /\ now' = now /\ pass' = pass /\ app' # app
        /\ app.pc = "deleting" /\ app'.pc = "PROCESS" /\ app'.i = app.i
    BY <1>6 DEF DeleteReturned, At, AppGoto, timeVars
  <2>2. Waits'
    BY <2>1 DEF MinuteInv, Waits, Reading, Processing
  <2> QED
    BY <2>1, <2>2, MinuteStays DEF MinuteInv
<1>7. CASE Tick
  BY <1>7 DEF Tick, MinuteInv, Waits, NoneWaits, InTheMinute
<1>8. CASE Restart
  <2>1. app'.pc = "INIT" /\ rules' = ZeroRules /\ pass' = "none"
    BY <1>8 DEF Restart
  <2>2. NoneWaits'
    BY <2>1 DEF NoneWaits, ZeroRules
  <2> QED
    BY <2>1, <2>2 DEF MinuteInv, Waits, InTheMinute, Reading, Processing
<1>9. CASE \/ \E r \in Rule : OnAddRule(r)
           \/ \E p \in RemovePayloads : OnRemoveRule(p)
           \/ OnReturn
           \/ \E t \in Threads : StoreCall(t)
           \/ Dispatch \/ OtherEvent
           \/ UNCHANGED vars
  <2>1. UNCHANGED <<app, rules, now, pass>>
    BY <1>9 DEF OnAddRule, OnRemoveRule, OnReturn, StoreCall, Dispatch, OtherEvent, vars,
                appVars, timeVars
  <2> QED
    BY <2>1, MinuteStays DEF MinuteInv, Waits, NoneWaits
<1> QED
  BY <1>1, <1>2, <1>3, <1>4, <1>5, <1>6, <1>7, <1>8, <1>9 DEF Next, AppStep

LEMMA MinuteInit == Init => MinuteInv
BY DEF Init, MinuteInv, Waits, InTheMinute, NoneWaits, Reading, Processing, ZeroRules

\* A check that began in this minute feeds only weekly rules that are due now,
\* although the day, the hour and the minute are read one after the other
\* (Application::match) and other threads change the store and the flag
\* meanwhile: what is fed from another minute was selected in another minute.
THEOREM FedByTheClock == Spec => FedInItsMinute
<1>1. MinuteInv =>
         \A k \in Slots :
            Dispenses(k) /\ rules[k].rule.period = "WEEKLY" /\ pass # "none"
                => Due(rules[k].rule, now)
  BY DEF MinuteInv, InTheMinute, Dispenses, Due, Matches, DayMatches, HourMatches,
         MinuteMatches
<1> QED
  BY <1>1, MinuteInit, MinuteStep, TypeInvInit, TypeInvStep, PTL DEF Spec, FedInItsMinute

-----------------------------------------------------------------------------
(***************************************************************************)
(* Announcements.  AddIsAnnounced is not inductive: it needs that a bit is *)
(* only set together with the answer that announces it, that nothing under *)
(* a set bit is rewritten, and that a load fills the entries in order.     *)
(***************************************************************************)

\* The rules are weekly and only added: the application never calls the store.
WeeklyAdds == RemovePayloads = {} /\ \A r \in Rule : r.period = "WEEKLY"

\* They are always readable too: no load is cut short.
OnlyAdded == WeeklyAdds /\ "read" \notin Faults

Mqtt == call["mqtt"]

Writing ==
    /\ IsIdle("app")
    /\ Mqtt.pc # "idle" => Mqtt.op = "write"
    /\ Mqtt.pc \in {"test", "flash", "load", "store"} => Mqtt.rule # Empty
    /\ Mqtt.pc \in {"flash", "load", "store"} => Mqtt.slot \notin map
    /\ Mqtt.pc \in {"load", "store"} => flash[IdOf(Mqtt.slot)] # Empty
    /\ Mqtt.pc = "store" => Mqtt.word = map
    /\ \A s \in map : flash[IdOf(s)] # Empty

Filling == /\ Loading => loaded = app.n
           /\ app.pc = "read" => app.i \in map
           /\ app.pc # "deleting"

AddInv == Writing /\ Filling /\ AddIsAnnounced

\* A step of the store that takes no rule away, changes no stored rule, and
\* sets a bit only with the answer that will announce it.
Grows == /\ map \subseteq map'
         /\ \A s \in map : flash'[IdOf(s)] = flash[IdOf(s)]
         /\ map' # map => AnswerPending'
         /\ AnswerPending => AnswerPending'

\* Two slots have two ids.
LEMMA SlotsApart ==
    ASSUME NEW s \in Slots, NEW u \in Slots
    PROVE  s # u => IdOf(s) # IdOf(u)
BY SizeAssumption DEF Slots, IdOf

\* A step of the write in progress.
LEMMA WritingStep ==
    ASSUME StoreTypeOK, Writing, NEW t \in Threads, StoreStep(t)
    PROVE  Writing' /\ Grows
<1> USE DEF Writing
<1>0. /\ t = "mqtt" /\ "mqtt" \in Threads /\ "app" \in Threads
      /\ call \in [Threads -> CallRecord] /\ Mqtt \in CallRecord
      /\ flash \in [Ids -> Rule \cup {Empty}] /\ map \subseteq Slots
  BY DEF Threads, IsIdle, StoreStep, TestSlot, WriteSlot, DeleteSlot,
         WipeSlot, LoadWord, StoreWord, Mqtt, StoreTypeOK
<1>1. Mqtt.slot \in Slots /\ Mqtt.pc # "return" /\ Mqtt.op = "write"
  BY <1>0 DEF CallRecord, StoreStep, TestSlot, WriteSlot, DeleteSlot,
              WipeSlot, LoadWord, StoreWord, Mqtt
<1>2. ~AnswerPending
  BY <1>1 DEF AnswerPending, Mqtt
<1>3. CASE TestSlot(t)
  <2>1. /\ map' = map /\ flash' = flash /\ Mqtt.pc = "test"
        /\ \/ Mqtt.slot \in map /\ (Reply("mqtt", 0) \/ Goto("mqtt", "test", Mqtt.slot + 1))
           \/ Mqtt.slot \notin map /\ Goto("mqtt", "flash", Mqtt.slot)
    BY <1>0, <1>3 DEF TestSlot, TryNext, Mqtt
  <2>2. /\ IsIdle("app")' /\ Mqtt'.op = "write" /\ Mqtt'.rule = Mqtt.rule
        /\ \/ Mqtt'.pc \in {"return", "test"}
           \/ Mqtt'.pc = "flash" /\ Mqtt'.slot = Mqtt.slot /\ Mqtt.slot \notin map
    BY <1>0, <1>1, <2>1, MoveEffects DEF IsIdle, Mqtt
  <2> QED
    BY <1>2, <2>1, <2>2 DEF Grows
<1>4. CASE WriteSlot(t)
  <2> DEFINE s == Mqtt.slot
  <2>1. s \in Slots /\ s \notin map /\ Mqtt.pc = "flash" /\ map' = map
    BY <1>0, <1>1, <1>4 DEF WriteSlot, Mqtt
  <2> HIDE DEF s
  <2>2. \/ /\ flash' = [flash EXCEPT ![IdOf(s)] = Mqtt.rule]
           /\ Goto("mqtt", "load", s)
        \/ flash' = flash /\ (Reply("mqtt", 0) \/ Goto("mqtt", "test", s + 1))
    BY <1>0, <1>4 DEF WriteSlot, write_buffer, TryNext, Mqtt, s
  <2>3. IsIdle("app")' /\ Mqtt'.op = "write" /\ Mqtt'.rule = Mqtt.rule
    BY <1>0, <1>1, <2>2, MoveEffects DEF IsIdle, Mqtt
  <2>4. \/ /\ flash' = [flash EXCEPT ![IdOf(s)] = Mqtt.rule]
           /\ Mqtt'.pc = "load" /\ Mqtt'.slot = s
        \/ flash' = flash /\ Mqtt'.pc \in {"test", "return"}
    BY <1>0, <2>2, MoveEffects DEF Mqtt
  <2>5. IdOf(s) \in Ids /\ \A u \in map : IdOf(u) # IdOf(s)
    BY <1>0, <2>1, SlotIds, SlotsApart
  <2>6. \A u \in map : flash'[IdOf(u)] = flash[IdOf(u)]
    <3> TAKE u \in map
    <3>1. IdOf(u) \in Ids /\ IdOf(u) # IdOf(s)
      BY <1>0, <2>5, SlotIds
    <3> QED
      BY <1>0, <2>4, <3>1
  <2>7. Mqtt'.pc = "load" => flash'[IdOf(Mqtt'.slot)] # Empty /\ Mqtt'.slot \notin map
    BY <1>0, <2>1, <2>4, <2>5
  <2> QED
    BY <1>2, <2>1, <2>3, <2>4, <2>6, <2>7 DEF Grows
<1>5. CASE LoadWord(t)
  <2>1. /\ Mqtt.pc = "load" /\ map' = map /\ flash' = flash
        /\ IsIdle("app")' /\ Mqtt'.op = Mqtt.op /\ Mqtt'.pc = "store"
        /\ Mqtt'.slot = Mqtt.slot /\ Mqtt'.rule = Mqtt.rule /\ Mqtt'.word = map
    BY <1>0, <1>5 DEF LoadWord, IsIdle, Mqtt, CallRecord
  <2> QED
    BY <1>1, <1>2, <2>1 DEF Grows
<1>6. CASE StoreWord(t)
  <2>1. /\ Mqtt.pc = "store" /\ Mqtt.word = map /\ flash' = flash
        /\ map' = map \cup {Mqtt.slot}
    BY <1>0, <1>1, <1>6 DEF StoreWord, Stored, Mqtt
  <2>2. IsIdle("app")' /\ Mqtt'.op = "write" /\ Mqtt'.pc = "return" /\ Mqtt'.ret = 1
    BY <1>0, <1>1, <1>6, MoveEffects DEF StoreWord, IsIdle, Mqtt
  <2>3. AnswerPending'
    BY <2>2 DEF AnswerPending, Mqtt
  <2> QED
    BY <2>1, <2>2, <2>3 DEF Grows
<1>7. ~DeleteSlot(t) /\ ~WipeSlot(t)
  BY <1>0, <1>1 DEF DeleteSlot, WipeSlot, Mqtt
<1> QED
  BY <1>3, <1>4, <1>5, <1>6, <1>7 DEF StoreStep

\* The MQTT handlers and the store under them.
LEMMA AnnouncedByMqtt ==
    ASSUME TypeInv, AddInv, OnlyAdded,
           \/ \E r \in Rule : OnAddRule(r)
           \/ \E p \in RemovePayloads : OnRemoveRule(p)
           \/ OnReturn
           \/ \E t \in Threads : StoreCall(t)
    PROVE  AddInv'
<1>0. /\ StoreTypeOK /\ call \in [Threads -> CallRecord]
      /\ "mqtt" \in Threads /\ "app" \in Threads
  BY DEF TypeInv, TypeOK, StoreTypeOK, Threads
<1>1. CASE (\E r \in Rule : OnAddRule(r)) \/ (\E t \in Threads : StoreCall(t))
  <2>1. Writing' /\ Grows
    <3>1. CASE \E t \in Threads : StoreCall(t)
      BY <1>0, <3>1, WritingStep DEF StoreCall, AddInv
    <3>2. CASE \E r \in Rule : OnAddRule(r)
      <4>1. PICK r \in Rule : OnAddRule(r)
        BY <3>2
      <4>2. /\ IsIdle("mqtt") /\ map' = map /\ flash' = flash /\ r # Empty
            /\ Refuse("mqtt", "write", 0) \/ Begin("mqtt", "write", "test", 0, r)
        BY <4>1, EmptyAssumption DEF OnAddRule, CallWrite
      <4>3. /\ IsIdle("app")' /\ Mqtt'.op = "write"
            /\ Mqtt'.pc = "return" \/ (Mqtt'.pc = "test" /\ Mqtt'.rule = r)
        BY <1>0, <4>2, MoveEffects DEF IsIdle, Mqtt, AddInv, Writing
      <4> QED
        BY <4>2, <4>3 DEF AddInv, Writing, Grows, IsIdle, AnswerPending
    <3> QED
      BY <1>1, <3>1, <3>2
  <2>2. UNCHANGED <<app, rules, loaded, shouldUpdate, queue, lost>>
    BY <1>1 DEF OnAddRule, StoreCall, appVars
  <2>3. \A s \in map : InRam(s) => InRam(s)'
    BY <2>1, <2>2 DEF InRam, Entries, Grows
  <2>4. AddIsAnnounced'
    BY <2>1, <2>2, <2>3 DEF AddInv, AddIsAnnounced, UpdatePending, Loading, Grows
  <2> QED
    BY <2>1, <2>2, <2>4 DEF AddInv, Filling, Loading, Grows
<1>2. CASE OnReturn
  <2>1. UNCHANGED <<flash, map, app, rules, loaded, shouldUpdate>>
    BY <1>2 DEF OnReturn, appVars
  <2>2. /\ IsIdle("app")' /\ Mqtt'.pc = "idle"
    BY <1>0, <1>2 DEF OnReturn, Finish, Idle, IsIdle, Mqtt, AddInv, Writing
  <2>3. Writing'
    BY <2>1, <2>2 DEF AddInv, Writing
  <2>4. CASE AnswerPending
    <3>1. CASE HasRoom
      <4>1. queue \in Seq({"UPDATE", "OTHER"}) /\ queue' = Append(queue, "UPDATE")
        BY <1>2, <2>4, <3>1 DEF OnReturn, AnswerPending, TypeInv, TypeOK
      <4>2. Len(queue) + 1 \in DOMAIN queue' /\ queue'[Len(queue) + 1] = "UPDATE"
        BY <4>1
      <4> QED
        BY <2>1, <2>3, <4>2 DEF AddInv, Filling, Loading, AddIsAnnounced, UpdatePending
    <3>2. CASE ~HasRoom
      <4>1. lost'
        BY <1>2, <2>4, <3>2 DEF OnReturn, AnswerPending
      <4> QED
        BY <2>1, <2>3, <4>1 DEF AddInv, Filling, Loading, AddIsAnnounced
    <3> QED
      BY <3>1, <3>2
  <2>5. CASE ~AnswerPending
    <3>1. UNCHANGED <<queue, lost>>
      BY <1>2, <2>5 DEF OnReturn, AnswerPending
    <3> QED
      BY <2>1, <2>3, <2>5, <3>1
         DEF AddInv, Filling, Loading, AddIsAnnounced, UpdatePending, InRam, Entries
  <2> QED
    BY <2>4, <2>5
<1> QED
  BY <1>1, <1>2 DEF OnlyAdded, WeeklyAdds

\* The steps of the application thread that fill the entries of RAM.
LEMMA AnnouncedByLoad ==
    ASSUME TypeInv, AddInv, OnlyAdded, LoadRules \/ TestRule \/ ReadRule \/ ReadDone
    PROVE  AddInv'
<1>0. /\ map \subseteq Slots /\ map' = map /\ flash' = flash /\ call' = call
      /\ rules \in [Slots -> EntryRecord]
      /\ app.i \in 0 .. MaxRules /\ app.n \in 0 .. MaxRules /\ app.n <= app.i
      /\ UNCHANGED <<queue, lost>>
  BY DEF LoadRules, TestRule, ReadRule, ReadDone, storeVars, TypeInv, TypeOK, StoreTypeOK,
         LoopInv, EntryRecord
<1>1. Writing'
  BY <1>0 DEF AddInv, Writing, IsIdle, Mqtt
<1>2. CASE LoadRules
  <2>1. \/ map = {} /\ app'.pc = "CHECK_RULES"
        \/ app'.pc = "reading" /\ app'.i = 0 /\ app'.n = 0 /\ loaded' = 0
    BY <1>2 DEF LoadRules, AppGoto
  <2>2. \A s \in map : s >= 0
    BY <1>0, SizeAssumption DEF Slots
  <2> QED
    BY <1>0, <1>1, <2>1, <2>2 DEF AddInv, Filling, AddIsAnnounced, Loading
<1>3. CASE TestRule
  <2>1. /\ app.pc = "reading" /\ UNCHANGED <<rules, loaded, shouldUpdate>>
        /\ app'.n = app.n
        /\ \/ app.i \in map /\ app'.pc = "read" /\ app'.i = app.i
           \/ app.i \notin map /\ app'.pc = "reading" /\ app'.i = app.i + 1
    BY <1>3 DEF TestRule, At, AppGoto
  <2>2. \A u \in map : u >= app.i => u >= app'.i
    BY <1>0, <2>1 DEF Slots
  <2>3. AddIsAnnounced'
    BY <1>0, <2>1, <2>2
       DEF AddInv, AddIsAnnounced, AnswerPending, UpdatePending, Loading, InRam, Entries
  <2> QED
    BY <1>0, <1>1, <2>1, <2>3 DEF AddInv, Filling, Loading
<1>4. CASE ReadRule
  <2>1. PICK s \in map : s = app.i /\ app.pc = "read"
    BY <1>4 DEF ReadRule, At, AddInv, Filling
  <2>2. flash[IdOf(s)] # Empty
    BY <2>1 DEF AddInv, Writing
  <2>3. /\ app.n \in Slots /\ loaded = app.n /\ loaded' = app.n + 1
        /\ rules' = [rules EXCEPT ![app.n] =
                        [rule |-> flash[IdOf(s)], state |-> "READY", fs |-> s]]
        /\ shouldUpdate' = shouldUpdate
        /\ app'.pc = "reading" /\ app'.i = s + 1 /\ app'.n = app.n + 1
    BY <1>0, <1>4, <2>1, <2>2, SizeAssumption
       DEF ReadRule, AddInv, Filling, Loading, AppGoto, OnlyAdded, Slots
  <2>4. rules'[app.n].rule = flash[IdOf(s)] /\ rules'[app.n].fs = s
    BY <1>0, <2>3
  <2>5. \A k \in Entries : rules'[k] = rules[k] /\ k \in Entries'
    BY <1>0, <2>3, SizeAssumption DEF Entries, Slots
  <2>6. app.n \in Entries'
    BY <1>0, <2>3 DEF Entries
  <2>7. InRam(s)'
    BY <1>0, <2>4, <2>6 DEF InRam
  <2>8. \A u \in map : InRam(u) => InRam(u)'
    BY <1>0, <2>5 DEF InRam
  <2>9. \A u \in map : u >= app.i => u = s \/ u >= s + 1
    BY <1>0, <2>1 DEF Slots
  <2>10. UpdatePending => UpdatePending'
    BY <1>0, <2>1, <2>3 DEF UpdatePending
  <2>11. AddIsAnnounced'
    BY <1>0, <2>1, <2>3, <2>7, <2>8, <2>9, <2>10
       DEF AddInv, AddIsAnnounced, AnswerPending, Loading
  <2> QED
    BY <1>1, <2>3, <2>11 DEF AddInv, Filling
<1>5. CASE ReadDone
  <2>1. \A u \in map : ~(u >= app.i)
    BY <1>0, <1>5, SizeAssumption DEF ReadDone, Slots
  <2>2. UNCHANGED <<rules, loaded, shouldUpdate>> /\ app.pc = "reading"
        /\ app'.pc = "CHECK_RULES"
    BY <1>5 DEF ReadDone, AppGoto, At
  <2> QED
    BY <1>0, <1>1, <2>1, <2>2
       DEF AddInv, Filling, AddIsAnnounced, UpdatePending, AnswerPending, InRam, Entries,
           Loading
<1> QED
  BY <1>2, <1>3, <1>4, <1>5

\* The other steps of the application: the entries keep their rules and slots,
\* no call of the store begins, and a flag is only cleared on the way to a load.
LEMMA AnnouncedByApp ==
    ASSUME TypeInv, AddInv, OnlyAdded, AppStep
    PROVE  AddInv'
<1>0. rules \in [Slots -> EntryRecord] /\ app.pc # "deleting"
  BY DEF TypeInv, TypeOK, EntryRecord, AddInv, Filling
<1> DEFINE Keeps == /\ \A k \in Slots : /\ rules'[k].rule = rules[k].rule
                                        /\ rules'[k].fs = rules[k].fs
                    /\ loaded' = loaded
                    /\ UNCHANGED <<storeVars, queue, lost>>
                    /\ app.pc \notin {"reading", "read"}
                    /\ app'.pc \notin {"reading", "read", "deleting"}
                    /\ UpdatePending => UpdatePending'
<1>1. CASE Keeps
  <2>1. Entries \subseteq Slots
    BY SizeAssumption DEF Entries, Slots, TypeInv, TypeOK
  <2>2. Writing' /\ Filling'
    BY <1>1 DEF AddInv, Writing, Filling, Loading, IsIdle, Mqtt, storeVars
  <2>3. \A s \in map : InRam(s) => InRam(s)'
    BY <1>1, <2>1 DEF InRam, Entries, storeVars
  <2> QED
    BY <1>1, <2>2, <2>3 DEF AddInv, AddIsAnnounced, AnswerPending, Loading, storeVars
<1>2. CASE LoadRules \/ TestRule \/ ReadRule \/ ReadDone
  BY <1>2, AnnouncedByLoad
<1>3. CASE InitApp \/ ClearUpdate
  BY <1>1, <1>3 DEF InitApp, ClearUpdate, At, AppGoto, UpdatePending
<1>4. CASE CheckRules \/ SelectDone \/ ProcessDone \/ WakeUp
  BY <1>1, <1>4 DEF CheckRules, SelectDone, ProcessDone, WakeUp, Rest, At, AppGoto,
                    UpdatePending
<1>5. CASE SelectRule \/ ReadHour \/ ReadMinute
  <2>1. \/ rules' = rules
        \/ \E st \in {"READY", "WAITING"} : rules' = [rules EXCEPT ![app.i].state = st]
    BY <1>5 DEF SelectRule, ReadHour, ReadMinute, Matched, NotMatched
  <2>2. \A k \in Slots : rules'[k].rule = rules[k].rule /\ rules'[k].fs = rules[k].fs
    BY <1>0, <2>1 DEF EntryRecord
  <2>3. app.pc \notin {"INIT", "clearing", "LOAD_RULES", "reading", "read"}
        /\ app'.pc \notin {"reading", "read", "deleting"}
    BY <1>5 DEF SelectRule, ReadHour, ReadMinute, Matched, NotMatched, At, AppGoto
  <2>4. UNCHANGED <<storeVars, loaded, queue, lost, shouldUpdate>>
    BY <1>5 DEF SelectRule, ReadHour, ReadMinute
  <2> QED
    BY <1>1, <2>2, <2>3, <2>4 DEF UpdatePending
<1>6. CASE ProcessRule
  <2>1. PICK k \in Slots : /\ rules' = [rules EXCEPT ![k].state = "EXECUTED"]
                           /\ rules[k].rule.period # "SPECIF" =>
                                 AppGoto("PROCESS", k + 1, 0) /\ UNCHANGED storeVars
    BY <1>6, LeastOfProperties DEF ProcessRule, WaitingFrom
  <2>2. rules[k].rule.period = "WEEKLY"
    BY <1>0, <2>1 DEF EntryRecord, OnlyAdded, WeeklyAdds, ZeroRule
  <2>3. \A j \in Slots : rules'[j].rule = rules[j].rule /\ rules'[j].fs = rules[j].fs
    BY <1>0, <2>1 DEF EntryRecord
  <2>4. app.pc = "PROCESS" /\ app'.pc = "PROCESS"
        /\ UNCHANGED <<storeVars, loaded, queue, lost, shouldUpdate>>
    BY <1>6, <2>1, <2>2 DEF ProcessRule, At, AppGoto
  <2> QED
    BY <1>1, <2>3, <2>4 DEF UpdatePending
<1>7. ~DeleteReturned
  BY <1>0 DEF DeleteReturned, At
<1> QED
  BY <1>2, <1>3, <1>4, <1>5, <1>6, <1>7 DEF AppStep

\* Every step.
LEMMA AnnouncedStep ==
    ASSUME TypeInv, AddInv, OnlyAdded, [Next]_vars
    PROVE  AddInv'
<1>1. CASE Dispatch \/ OtherEvent
  <2>1. UNCHANGED <<storeVars, appVars, lost>>
    BY <1>1 DEF Dispatch, OtherEvent
  <2>2. UpdatePending => UpdatePending'
    <3>1. queue \in Seq({"UPDATE", "OTHER"})
      BY DEF TypeInv, TypeOK
    <3>2. CASE OtherEvent
      <4>1. queue' = Append(queue, "OTHER") /\ shouldUpdate' = shouldUpdate
        BY <3>2 DEF OtherEvent
      <4>2. \A j \in DOMAIN queue : j \in DOMAIN queue' /\ queue'[j] = queue[j]
        BY <3>1, <4>1
      <4> QED
        BY <2>1, <4>1, <4>2 DEF UpdatePending, appVars
    <3>3. CASE Dispatch
      <4>1. /\ queue # <<>> /\ queue' = Tail(queue)
            /\ shouldUpdate' = (shouldUpdate \/ Head(queue) = "UPDATE")
        BY <3>3 DEF Dispatch
      <4>2. \A j \in DOMAIN queue :
               \/ queue[j] = Head(queue)
               \/ j - 1 \in DOMAIN queue' /\ queue'[j - 1] = queue[j]
        BY <3>1, <4>1
      <4> QED
        BY <2>1, <4>1, <4>2 DEF UpdatePending, appVars
    <3> QED
      BY <1>1, <3>2, <3>3
  <2> QED
    BY <2>1, <2>2
       DEF AddInv, Writing, Filling, AddIsAnnounced, AnswerPending, InRam, Entries,
           Loading, IsIdle, Mqtt, storeVars, appVars
<1>2. CASE Tick \/ UNCHANGED vars
  <2>1. UNCHANGED <<storeVars, app, rules, loaded, shouldUpdate, queue, lost>>
    BY <1>2 DEF Tick, vars, appVars
  <2> QED
    BY <2>1 DEF AddInv, Writing, Filling, AddIsAnnounced, AnswerPending, UpdatePending,
                InRam, Entries, Loading, IsIdle, Mqtt, storeVars
<1>3. CASE Restart
  <2>1. /\ app'.pc = "INIT" /\ flash' = flash /\ map' \in InitMaps
        /\ call' = [t \in Threads |-> Idle]
    BY <1>3 DEF Restart, RestartStore
  <2>2. Mqtt'.pc = "idle" /\ IsIdle("app")'
    BY <2>1 DEF Mqtt, Idle, IsIdle, Threads
  <2>3. \A s \in map' : flash'[IdOf(s)] # Empty
    BY <2>1, Rebuilt DEF Occupied
  <2> QED
    BY <2>1, <2>2, <2>3
       DEF AddInv, Writing, Filling, AddIsAnnounced, UpdatePending, Loading
<1> QED
  BY <1>1, <1>2, <1>3, AnnouncedByApp, AnnouncedByMqtt DEF Next

\* The initial states.
LEMMA AddInit == Init => AddInv
BY StoreStarts
   DEF Init, AddInv, Writing, Filling, AddIsAnnounced, Loading, IsIdle, Mqtt, Idle, Threads

\* While weekly rules are only added and flash can be read, no update is lost on
\* its way from the MQTT handler over the queue and the flag of the application
\* to RAM, whatever writes fail, whenever power is lost, and although the flag
\* is tested and cleared by separate instructions (Application.cpp:200), unless
\* the queue was full (MQTT.cpp:771).
THEOREM Announced == ASSUME OnlyAdded PROVE Spec => []AddIsAnnounced
<1>1. AddInv => AddIsAnnounced
  BY DEF AddInv
<1>2. TypeInv /\ AddInv /\ [Next]_vars => AddInv'
  BY AnnouncedStep, OnlyAdded
<1> QED
  BY <1>1, <1>2, AddInit, TypeInvInit, TypeInvStep, PTL DEF Spec

\* Once a load has filled an entry and is over, the rules are available.
Loaded == ~Loading /\ loaded > 0 => available

LEMMA LoadedStep ==
    ASSUME TypeInv, AddInv, Loaded, OnlyAdded, [Next]_vars
    PROVE  Loaded'
<1>1. CASE TestRule \/ ReadRule
  <2>1. app'.pc \in {"reading", "read"}
    BY <1>1
       DEF TestRule, ReadRule, At, AppGoto, AddInv, Writing, Filling, OnlyAdded
  <2> QED
    BY <2>1 DEF Loaded, Loading
<1>2. CASE LoadRules \/ ReadDone \/ Restart
  BY <1>2 DEF LoadRules, ReadDone, Restart, Loaded, Loading
<1>3. CASE \/ InitApp \/ CheckRules \/ SelectRule \/ ReadHour \/ ReadMinute \/ SelectDone
           \/ ProcessRule \/ DeleteReturned \/ ProcessDone \/ WakeUp \/ ClearUpdate
  BY <1>3 DEF InitApp, CheckRules, SelectRule, ReadHour, ReadMinute, SelectDone, ProcessRule,
              DeleteReturned, ProcessDone, WakeUp, ClearUpdate, At, Loaded, Loading
<1>4. CASE \/ \E r \in Rule : OnAddRule(r)
           \/ \E p \in RemovePayloads : OnRemoveRule(p)
           \/ OnReturn
           \/ \E t \in Threads : StoreCall(t)
           \/ Dispatch \/ OtherEvent \/ Tick
           \/ UNCHANGED vars
  BY <1>4 DEF OnAddRule, OnRemoveRule, OnReturn, StoreCall, Dispatch, OtherEvent, Tick, vars,
              appVars, Loaded, Loading
<1> QED
  BY <1>1, <1>2, <1>3, <1>4 DEF Next, AppStep

\* While weekly rules are only added and flash can be read, the application
\* evaluates its rules (Application::get_rules): when a rule is stored, nothing
\* is left to announce and no update was dropped, the rules in RAM are available
\* whenever it rests.
THEOREM Available == ASSUME OnlyAdded PROVE Spec => []RulesEvaluated
<1>1. Init => AddInv /\ Loaded
  BY AddInit DEF Init, Loaded, Loading
<1>2. TypeInv /\ AddInv /\ Loaded => RulesEvaluated
  <2> SUFFICES ASSUME TypeInv, AddInv, Loaded, At("IDLE"), map # {}, IsIdle("mqtt"),
                      ~UpdatePending, ~lost
               PROVE  available
    BY DEF RulesEvaluated
  <2>1. PICK s \in map : InRam(s)
    BY DEF AddInv, AddIsAnnounced, AnswerPending, Loading, IsIdle, At
  <2>2. loaded > 0
    BY <2>1 DEF InRam, Entries, TypeInv, TypeOK
  <2> QED
    BY <2>2 DEF Loaded, Loading, At
<1>3. TypeInv /\ AddInv /\ [Next]_vars => AddInv'
  BY AnnouncedStep, OnlyAdded
<1>4. TypeInv /\ AddInv /\ Loaded /\ [Next]_vars => Loaded'
  BY LoadedStep, OnlyAdded
<1> QED
  BY <1>1, <1>2, <1>3, <1>4, TypeInvInit, TypeInvStep, PTL DEF Spec

-----------------------------------------------------------------------------
(***************************************************************************)
(* No weekly rule is passed over.  Of an entry that was executed it has to *)
(* be remembered that it was fed, if it matches, and that it does match,   *)
(* once a check has looked at it in this minute: an entry that no longer   *)
(* matched would not be armed for the next minute.  Of an entry that       *)
(* matches: it waits or was fed, once the check has seen it.  That the     *)
(* check sees every entry needs that there are as many bits as entries.    *)
(***************************************************************************)

\* Two minutes in a row differ, in an hour of more than one minute.
LEMMA NoUnit ==
    ASSUME NEW M \in Nat, M > 1, NEW d \in Int
    PROVE  M * d # 1
<1>1. CASE d <= 0
  <2>1. M * d <= 0
    BY <1>1
  <2> QED
    BY <2>1
<1>2. CASE d >= 1
  <2>1. M * d >= M
    BY <1>2
  <2> QED
    BY <2>1
<1> QED
  BY <1>1, <1>2

LEMMA NextDiffers ==
    ASSUME NEW M \in Nat, M > 1, NEW t \in Nat
    PROVE  t % M # (t + 1) % M
<1> DEFINE a == t \div M
           b == (t + 1) \div M
           r == t % M
           u == (t + 1) % M
<1>1. t = M * a + r /\ a \in Int /\ r \in Int
  OBVIOUS
<1>2. t + 1 = M * b + u /\ b \in Int /\ u \in Int
  OBVIOUS
<1> HIDE DEF a, b, r, u
<1>3. ASSUME r = u PROVE FALSE
  <2>1. M * (b - a) = M * b - M * a /\ M * a \in Int /\ M * b \in Int
    BY <1>1, <1>2
  <2>2. M * (b - a) = 1
    BY <1>1, <1>2, <1>3, <2>1
  <2>3. b - a \in Int
    BY <1>1, <1>2
  <2> QED
    BY <2>2, <2>3, NoUnit
<1> QED
  BY <1>3 DEF r, u

\* A load fills the entries of RAM with stored rules, at most one for each bit.
Below(i)        == {s \in map : s < i}
OccupiedFrom(i) == {s \in map : s >= i}

Fits ==
    /\ loaded <= Cardinality(map)
    /\ \A k \in Entries : rules[k].fs \in map
    /\ app.pc = "read" => app.i \in map
    /\ Loading =>
          /\ ~available /\ loaded = app.n /\ app.n <= Cardinality(Below(app.i))
          /\ \A k \in Entries : rules[k].state = "READY"

\* The check in progress has looked at entry k.
Seen(k) == (app.pc \in Reading /\ k < app.i) \/ app.pc = "PROCESS"

Rearmed == \A k \in Entries : rules[k].state = "EXECUTED" =>
    /\ Matches(rules[k].rule, now) => Fed(k)
    /\ pass = "done" \/ (pass = "begun" /\ Seen(k)) => Matches(rules[k].rule, now)

Covered == \A k \in Entries : Matches(rules[k].rule, now) =>
    /\ pass # "none" /\ Seen(k) => rules[k].state = "WAITING" \/ Fed(k)
    /\ pass = "done" /\ At("IDLE") => Fed(k)

Evaluated == available => Rearmed /\ Covered

LoopOK == Fits /\ Evaluated /\ app.pc # "deleting"

DueInv == Writing /\ LoopOK

\* What is known of the entries of RAM.
LEMMA EntryTypes ==
    ASSUME TypeInv, WeeklyAdds
    PROVE  /\ rules \in [Slots -> EntryRecord] /\ Entries \subseteq Slots
           /\ \A k \in Slots : rules[k].rule.period = "WEEKLY"
           /\ app.i \in 0 .. MaxRules /\ app.n \in 0 .. MaxRules /\ app.n <= app.i
           /\ loaded \in Nat /\ map \subseteq Slots
<1>1. /\ rules \in [Slots -> EntryRecord] /\ loaded \in 0 .. MaxRules
      /\ app.i \in 0 .. MaxRules /\ app.n \in 0 .. MaxRules /\ app.n <= app.i
      /\ map \subseteq Slots
  BY DEF TypeInv, TypeOK, LoopInv, EntryRecord, StoreTypeOK
<1>2. Entries \subseteq Slots /\ loaded \in Nat
  BY <1>1, SizeAssumption DEF Entries, Slots
<1>3. \A k \in Slots : rules[k].rule.period = "WEEKLY"
  BY <1>1 DEF EntryRecord, WeeklyAdds, ZeroRule
<1> QED
  BY <1>1, <1>2, <1>3

\* The bits below a slot are at most all the bits, and are counted.
LEMMA BelowCount ==
    ASSUME NEW S, S \subseteq Slots, NEW T, T \subseteq S
    PROVE  /\ IsFiniteSet(S) /\ Cardinality(S) \in Nat
           /\ IsFiniteSet(T) /\ Cardinality(T) \in Nat
           /\ Cardinality(T) <= Cardinality(S)
<1>1. IsFiniteSet(Slots)
  BY FS_Interval, SizeAssumption DEF Slots
<1>2. IsFiniteSet(S)
  BY <1>1, FS_Subset
<1>3. IsFiniteSet(T) /\ Cardinality(T) <= Cardinality(S)
  BY <1>2, FS_Subset
<1> QED
  BY <1>2, <1>3, FS_CardinalityType

\* While the device is on, bits are only set.
LEMMA StoreGrows ==
    ASSUME TypeInv, Writing, app.pc # "deleting", WeeklyAdds, [Next]_vars, ~Restart
    PROVE  Writing' /\ map \subseteq map'
<1>0. /\ StoreTypeOK /\ call \in [Threads -> CallRecord]
      /\ "mqtt" \in Threads /\ "app" \in Threads
  BY DEF TypeInv, TypeOK, StoreTypeOK, Threads
<1>1. CASE UNCHANGED storeVars
  BY <1>1 DEF Writing, IsIdle, Mqtt, storeVars
<1>2. CASE \E t \in Threads : StoreCall(t)
  BY <1>0, <1>2, WritingStep DEF StoreCall, Grows
<1>3. CASE \E r \in Rule : OnAddRule(r)
  <2>1. PICK r \in Rule : OnAddRule(r)
    BY <1>3
  <2>2. /\ IsIdle("mqtt") /\ map' = map /\ flash' = flash /\ r # Empty
        /\ Refuse("mqtt", "write", 0) \/ Begin("mqtt", "write", "test", 0, r)
    BY <2>1, EmptyAssumption DEF OnAddRule, CallWrite
  <2>3. /\ IsIdle("app")' /\ Mqtt'.op = "write"
        /\ Mqtt'.pc = "return" \/ (Mqtt'.pc = "test" /\ Mqtt'.rule = r)
    BY <1>0, <2>2, MoveEffects DEF IsIdle, Mqtt, Writing
  <2> QED
    BY <2>2, <2>3 DEF Writing, IsIdle
<1>4. CASE OnReturn
  <2>1. flash' = flash /\ map' = map /\ IsIdle("app")' /\ Mqtt'.pc = "idle"
    BY <1>0, <1>4 DEF OnReturn, Finish, Idle, IsIdle, Mqtt, Writing
  <2> QED
    BY <2>1 DEF Writing
<1>5. CASE AppStep
  <2>1. ASSUME ProcessRule PROVE UNCHANGED storeVars
    <3>1. LeastOf(WaitingFrom(app.i)) \in Slots
      BY <2>1, LeastOfProperties DEF ProcessRule, WaitingFrom
    <3> QED
      BY <2>1, <3>1, EntryTypes DEF ProcessRule
  <2> QED
    BY <1>1, <1>5, <2>1
       DEF AppStep, InitApp, LoadRules, TestRule, ReadRule, ReadDone, CheckRules,
           SelectRule, ReadHour, ReadMinute, SelectDone, DeleteReturned, ProcessDone,
           WakeUp, ClearUpdate, At
<1>6. CASE Dispatch \/ OtherEvent \/ Tick \/ UNCHANGED vars
  BY <1>1, <1>6 DEF Dispatch, OtherEvent, Tick, vars
<1> QED
  BY <1>2, <1>3, <1>4, <1>5, <1>6 DEF Next, WeeklyAdds

\* Steps of the other threads: bits are set, the fed entries stay fed.
LEMMA LoopStays ==
    ASSUME TypeInv, LoopOK, TypeInv', map \subseteq map',
           UNCHANGED <<app, rules, available, loaded, now, pass>>,
           \A k \in Entries : Fed(k) => Fed(k)'
    PROVE  LoopOK'
<1>1. map' \subseteq Slots /\ Entries' = Entries
  BY DEF TypeInv, TypeOK, StoreTypeOK, Entries
<1>2. Fits'
  <2>1. /\ Cardinality(map) <= Cardinality(map') /\ Cardinality(map) \in Nat
        /\ Cardinality(map') \in Nat
    BY <1>1, BelowCount
  <2> DEFINE B == Below(app.i)
             C == {s \in map' : s < app.i}
  <2>2. B \subseteq C /\ C \subseteq Slots
    BY <1>1 DEF Below
  <2>3. C = Below(app.i)'
    BY DEF Below
  <2> HIDE DEF B, C
  <2>4. Cardinality(B) <= Cardinality(C) /\ Cardinality(B) \in Nat /\ Cardinality(C) \in Nat
    BY <2>2, BelowCount
  <2>5. Loading => app.n <= Cardinality(B)
    BY DEF LoopOK, Fits, B
  <2>6. loaded \in Nat /\ app.n \in Nat
    BY DEF TypeInv, TypeOK
  <2>7. loaded' <= Cardinality(map')
    BY <2>1, <2>6 DEF LoopOK, Fits
  <2>8. Loading' => app'.n <= Cardinality(C)
    BY <2>4, <2>5, <2>6 DEF Loading
  <2> QED
    BY <1>1, <2>3, <2>7, <2>8 DEF LoopOK, Fits, Loading
<1>3. Evaluated'
  BY <1>1 DEF LoopOK, Evaluated, Rearmed, Covered, Seen, At, Matches, DayMatches,
              HourMatches, MinuteMatches
<1> QED
  BY <1>2, <1>3 DEF LoopOK

\* The steps of the application that change no entry.
LEMMA LoopTurns ==
    ASSUME TypeInv, MinuteInv, LoopOK, WeeklyAdds,
           \/ InitApp \/ LoadRules \/ ReadDone \/ CheckRules \/ SelectDone
           \/ ProcessDone \/ WakeUp \/ ClearUpdate
    PROVE  LoopOK'
<1>0. /\ UNCHANGED <<map, rules, fed, now>>
      /\ rules \in [Slots -> EntryRecord] /\ Entries \subseteq Slots
      /\ app.i \in 0 .. MaxRules /\ app.n \in 0 .. MaxRules
      /\ loaded \in Nat /\ map \subseteq Slots
  BY EntryTypes
     DEF InitApp, LoadRules, ReadDone, CheckRules, SelectDone, ProcessDone, WakeUp,
         ClearUpdate, storeVars, timeVars
<1>1. \A k \in Entries : Matches(rules[k].rule, now)' = Matches(rules[k].rule, now)
  BY <1>0 DEF Matches, DayMatches, HourMatches, MinuteMatches
<1>2. Cardinality(map) \in Nat /\ Cardinality({}) = 0
  BY <1>0, BelowCount, FS_EmptySet
<1>3. CASE LoadRules
  <2>1. /\ loaded' = 0 /\ available' = FALSE /\ app'.pc \in {"CHECK_RULES", "reading"}
        /\ app'.n = 0 /\ app'.i = 0
    BY <1>3 DEF LoadRules, AppGoto
  <2>2. {s \in map : s < 0} = {}
    <3>1. \A s \in map : ~(s < 0)
      BY <1>0, SizeAssumption DEF Slots
    <3> QED
      BY <3>1
  <2>3. Fits'
    BY <1>0, <1>2, <2>1, <2>2 DEF Fits, Entries, Below, Loading
  <2> QED
    BY <2>1, <2>3 DEF LoopOK, Evaluated
<1> DEFINE Same == loaded' = loaded /\ app'.pc \notin {"reading", "read"}
<1>4. ASSUME Same PROVE Fits' /\ Entries' = Entries /\ \A k : Fed(k)' = Fed(k)
  BY <1>0, <1>4 DEF LoopOK, Fits, Entries, Fed, Loading
<1>5. CASE InitApp \/ ClearUpdate \/ WakeUp
  <2>1. /\ Same /\ app.pc \in {"INIT", "clearing", "IDLE"}
        /\ app'.pc \in {"LOAD_RULES", "clearing", "CHECK_RULES"}
        /\ pass' = pass /\ available' = available
    BY <1>5 DEF InitApp, ClearUpdate, WakeUp, At, AppGoto
  <2>2. Evaluated'
    BY <1>0, <1>1, <1>4, <2>1
       DEF LoopOK, Evaluated, Rearmed, Covered, Seen, Reading, At
  <2> QED
    BY <1>4, <2>1, <2>2 DEF LoopOK
<1>6. CASE ReadDone
  <2>1. Same /\ app.pc = "reading" /\ app'.pc = "CHECK_RULES" /\ pass' = pass
    BY <1>6 DEF ReadDone, At, AppGoto
  <2>2. Evaluated'
    BY <1>0, <1>4, <2>1
       DEF LoopOK, Fits, Loading, Evaluated, Rearmed, Covered, Seen, Reading, At
  <2> QED
    BY <1>4, <2>1, <2>2 DEF LoopOK
<1>7. CASE CheckRules
  <2>1. /\ Same /\ available' = available
        /\ IF available
           THEN /\ app'.pc = "select" /\ app'.i = 0
                /\ pass' = IF pass = "none" THEN "begun" ELSE pass
           ELSE app'.pc = "IDLE"
    BY <1>7 DEF CheckRules, At, AppGoto
  <2>2. \A k \in Entries : available => ~Seen(k)' /\ ~At("IDLE")'
    BY <1>0, <2>1 DEF Seen, At, Entries
  <2>3. Evaluated'
    BY <1>0, <1>1, <1>4, <2>1, <2>2 DEF LoopOK, Evaluated, Rearmed, Covered
  <2> QED
    BY <1>4, <2>1, <2>3 DEF LoopOK
<1>8. CASE SelectDone
  <2>1. /\ Same /\ app.pc = "select" /\ available' = available /\ app.i >= Cardinality(map)
        /\ IF app.n # 0
           THEN app'.pc = "PROCESS" /\ pass' = pass
           ELSE app'.pc = "IDLE" /\ pass' = IF pass = "begun" THEN "done" ELSE pass
    BY <1>8 DEF SelectDone, Rest, At, AppGoto, RuleCount
  <2>2. \A k \in Entries : Seen(k)
    BY <1>0, <1>2, <2>1 DEF LoopOK, Fits, Entries, Seen, Reading
  <2>3. app.n = 0 => NoneWaits
    BY <2>1 DEF MinuteInv, Waits, Reading
  <2>4. Evaluated'
    BY <1>0, <1>1, <1>4, <2>1, <2>2, <2>3
       DEF LoopOK, Evaluated, Rearmed, Covered, NoneWaits, At, Seen, Reading, TypeInv, TypeOK
  <2> QED
    BY <1>4, <2>1, <2>4 DEF LoopOK
<1>9. CASE ProcessDone
  <2>1. /\ Same /\ app.pc = "PROCESS" /\ available' = available /\ app'.pc = "IDLE"
        /\ pass' = IF pass = "begun" THEN "done" ELSE pass
    BY <1>9 DEF ProcessDone, Rest, At, AppGoto
  <2>2. NoneWaits
    BY <1>9, <2>1 DEF ProcessDone, WaitingFrom, MinuteInv, Waits, NoneWaits, Processing
  <2>3. Evaluated'
    BY <1>0, <1>1, <1>4, <2>1, <2>2
       DEF LoopOK, Evaluated, Rearmed, Covered, NoneWaits, At, Seen, Reading
  <2> QED
    BY <1>4, <2>1, <2>3 DEF LoopOK
<1> QED
  BY <1>3, <1>5, <1>6, <1>7, <1>8, <1>9

\* A slot without its bit is skipped.
LEMMA LoopSkips ==
    ASSUME TypeInv, LoopOK, WeeklyAdds, TestRule
    PROVE  LoopOK'
<1>0. /\ UNCHANGED <<map, available, rules, loaded>> /\ app.pc = "reading"
      /\ Entries' = Entries /\ map \subseteq Slots /\ app.i \in Nat /\ app'.n = app.n
      /\ \/ app.i \in map /\ app'.pc = "read" /\ app'.i = app.i
         \/ app.i \notin map /\ app'.pc = "reading" /\ app'.i = app.i + 1
  BY EntryTypes DEF TestRule, At, AppGoto, storeVars, Entries
<1>1. \A s \in map : s < app.i <=> s < app'.i
  BY <1>0, SizeAssumption DEF Slots
<1>2. Below(app.i)' = Below(app.i)
  BY <1>0, <1>1 DEF Below
<1>3. Fits'
  BY <1>0, <1>2 DEF LoopOK, Fits, Loading
<1> QED
  BY <1>0, <1>3 DEF LoopOK, Fits, Loading, Evaluated

\* One entry is loaded, or the load is given up.
LEMMA LoopReads ==
    ASSUME TypeInv, MinuteInv, LoopOK, WeeklyAdds, ReadRule
    PROVE  LoopOK'
<1>0. /\ map' = map /\ available' = available /\ app.pc = "read"
      /\ rules \in [Slots -> EntryRecord] /\ Entries \subseteq Slots
      /\ app.i \in 0 .. MaxRules /\ app.n \in 0 .. MaxRules /\ app.n <= app.i
      /\ loaded \in Nat /\ map \subseteq Slots
  BY EntryTypes DEF ReadRule, At, storeVars
<1>1. /\ ~available /\ loaded = app.n /\ app.n <= Cardinality(Below(app.i))
      /\ loaded <= Cardinality(map) /\ \A k \in Entries : rules[k].fs \in map
      /\ \A k \in Entries : rules[k].state = "READY"
  BY <1>0 DEF LoopOK, Fits, Loading
<1>2. PICK s \in map : s = app.i
  BY <1>0 DEF LoopOK, Fits
<1>3. CASE AppGoto("CHECK_RULES", 0, 0) /\ UNCHANGED <<rules, loaded>>
  <2>1. app'.pc = "CHECK_RULES"
    BY <1>3 DEF AppGoto
  <2> QED
    BY <1>0, <1>1, <1>3, <2>1 DEF LoopOK, Fits, Loading, Evaluated, Entries
<1>4. CASE /\ rules' = [rules EXCEPT ![app.n] =
                           [rule |-> flash[IdOf(s)], state |-> "READY", fs |-> s]]
           /\ loaded' = app.n + 1
           /\ AppGoto("reading", s + 1, app.n + 1)
  <2>1. app'.pc = "reading" /\ app'.i = s + 1 /\ app'.n = app.n + 1
    BY <1>4 DEF AppGoto
  <2>2. app.n \in Slots /\ s \in Slots /\ s \in Int /\ app.i \in Int
    BY <1>0, <1>2, SizeAssumption DEF Slots
  <2>3. /\ rules'[app.n].state = "READY" /\ rules'[app.n].fs = s
        /\ \A k \in Slots \ {app.n} : rules'[k] = rules[k]
    BY <1>0, <1>4, <2>2
  <2>4. \A k \in Entries' : k \in Entries \/ k = app.n
    BY <1>0, <1>1, <1>4 DEF Entries
  <2>5. \A k \in Entries' : rules'[k].fs \in map /\ rules'[k].state = "READY"
    BY <1>0, <1>1, <1>2, <2>2, <2>3, <2>4
  <2>6. app.n + 1 <= Cardinality(Below(s + 1)) /\ app.n + 1 <= Cardinality(map)
    <3> DEFINE B == Below(app.i)
               C == Below(s + 1)
    <3>1. s \notin B /\ B \cup {s} \subseteq C /\ C \subseteq map
      <4>1. s \notin B
        BY <1>2, <2>2 DEF Below
      <4>2. \A j \in B : j \in map /\ j < s + 1
        BY <1>0, <1>2, <2>2 DEF Below, Slots
      <4>3. s < s + 1
        BY <2>2
      <4> QED
        BY <4>1, <4>2, <4>3 DEF Below
    <3>2. app.n <= Cardinality(B)
      BY <1>1
    <3> HIDE DEF B, C
    <3>3. IsFiniteSet(B) /\ Cardinality(B) \in Nat
      BY <1>0, <3>1, BelowCount
    <3>4. Cardinality(B \cup {s}) = Cardinality(B) + 1
      BY <3>1, <3>3, FS_AddElement
    <3>5. /\ Cardinality(B \cup {s}) <= Cardinality(C) /\ Cardinality(C) \in Nat
          /\ Cardinality(C) <= Cardinality(map) /\ Cardinality(map) \in Nat
      <4>1. C \subseteq Slots
        BY <1>0, <3>1
      <4> QED
        BY <1>0, <3>1, <4>1, BelowCount
    <3>6. app.n \in Nat
      BY <1>0
    <3>7. app.n + 1 <= Cardinality(C) /\ app.n + 1 <= Cardinality(map)
      BY <3>2, <3>3, <3>4, <3>5, <3>6
    <3> QED
      BY <3>7 DEF C
  <2>7. Below(app.i)' = Below(s + 1)
    BY <1>0, <2>1 DEF Below
  <2>8. Fits'
    BY <1>0, <1>1, <1>4, <2>1, <2>5, <2>6, <2>7 DEF Fits, Loading
  <2> QED
    BY <1>0, <1>1, <2>1, <2>8 DEF LoopOK, Evaluated
<1> QED
  BY <1>2, <1>3, <1>4 DEF ReadRule

\* The selection: a matching entry waits afterwards, or was fed; one that does
\* not match is armed again.
LEMMA LoopSelects ==
    ASSUME TypeInv, MinuteInv, LoopOK, WeeklyAdds, SelectRule \/ ReadHour \/ ReadMinute
    PROVE  LoopOK'
<1>0. /\ UNCHANGED <<map, available, loaded, fed, now, pass>>
      /\ rules \in [Slots -> EntryRecord] /\ Entries \subseteq Slots
      /\ app.i \in 0 .. MaxRules /\ app.n \in 0 .. MaxRules
      /\ loaded \in Nat /\ app.pc \in Reading /\ Entries' = Entries
  BY EntryTypes
     DEF SelectRule, ReadHour, ReadMinute, At, Reading, storeVars, timeVars, Entries
<1>1. app.i \in Slots /\ rules[app.i].rule.period = "WEEKLY"
  <2>1. app.i \in Slots
    BY RuleCountBound, SizeAssumption
       DEF SelectRule, ReadHour, ReadMinute, At, TypeInv, LoopInv, TypeOK,
           StoreTypeOK, Slots
  <2> QED
    BY <2>1, EntryTypes
<1>2. ASSUME app'.pc \in Reading,
             \A k \in Slots : rules'[k].fs = rules[k].fs /\ rules'[k].rule = rules[k].rule
      PROVE  /\ Fits'
             /\ \A k \in Slots : /\ Matches(rules[k].rule, now)' = Matches(rules[k].rule, now)
                                 /\ Fed(k)' = Fed(k)
  <2>1. \A k \in Slots : Matches(rules[k].rule, now)' = Matches(rules[k].rule, now)
    BY <1>0, <1>2 DEF Matches, DayMatches, HourMatches, MinuteMatches
  <2>2. \A k \in Slots : Fed(k)' = Fed(k)
    BY <1>0, <1>2 DEF Fed
  <2>3. Fits'
    BY <1>0, <1>2 DEF LoopOK, Fits, Reading, Loading
  <2> QED
    BY <2>1, <2>2, <2>3
<1>3. CASE NotMatched /\ ~Matches(Current.rule, now)
  <2>1. app'.pc = "select" /\ app'.i = app.i + 1 /\ app'.n = app.n
    BY <1>3 DEF NotMatched, AppGoto
  <2>2. /\ \A k \in Slots : rules'[k].fs = rules[k].fs /\ rules'[k].rule = rules[k].rule
        /\ \A k \in Slots \ {app.i} : rules'[k] = rules[k]
        /\ rules'[app.i].state # "EXECUTED"
        /\ rules'[app.i].state = "WAITING" => rules[app.i].state = "WAITING"
    BY <1>0, <1>1, <1>3 DEF NotMatched, Current, EntryRecord
  <2>3. app'.pc \in Reading
    BY <2>1 DEF Reading
  <2>4. \A k \in Entries : k # app.i /\ Seen(k)' => Seen(k)
    BY <1>0, <2>1 DEF Seen, Entries
  <2>5. Rearmed' \/ ~available
    BY <1>0, <1>2, <2>2, <2>3, <2>4 DEF LoopOK, Evaluated, Rearmed
  <2>6. Covered' \/ ~available
    BY <1>0, <1>2, <1>3, <2>1, <2>2, <2>3, <2>4
       DEF LoopOK, Evaluated, Covered, At, Current
  <2> QED
    BY <1>0, <1>2, <2>1, <2>2, <2>3, <2>5, <2>6 DEF LoopOK, Evaluated
<1>4. CASE \/ SelectRule /\ DayMatches(Current.rule, now)
           \/ ReadHour /\ HourMatches(Current.rule, now)
  <2>1. /\ rules' = rules /\ app'.i = app.i
        /\ app'.pc \in {"hour", "minute"} /\ app'.pc \in Reading
    BY <1>4 DEF SelectRule, ReadHour, AppGoto, Reading
  <2>2. \A k \in Entries : Seen(k)' => Seen(k)
    BY <1>0, <2>1 DEF Seen
  <2>3. Evaluated'
    BY <1>0, <1>2, <2>1, <2>2 DEF LoopOK, Evaluated, Rearmed, Covered, At, Reading
  <2> QED
    BY <1>2, <2>1, <2>3 DEF LoopOK
<1>5. CASE ReadMinute /\ MinuteMatches(Current.rule, now)
  <2>1. /\ Matched /\ app'.pc = "select" /\ app'.i = app.i + 1 /\ app'.pc \in Reading
        /\ pass # "none" => Matches(rules[app.i].rule, now)
    BY <1>5 DEF ReadMinute, At, Matched, AppGoto, MinuteInv, InTheMinute, Matches,
                Current, Reading
  <2>2. \A k \in Entries : k # app.i /\ Seen(k)' => Seen(k)
    BY <1>0, <2>1 DEF Seen, Entries
  <2>3. CASE rules[app.i].state = "READY"
    <3>1. /\ \A k \in Slots : rules'[k].fs = rules[k].fs /\ rules'[k].rule = rules[k].rule
          /\ \A k \in Slots \ {app.i} : rules'[k] = rules[k]
          /\ rules'[app.i].state = "WAITING"
      BY <1>0, <1>1, <2>1, <2>3 DEF Matched, Current, EntryRecord, AppGoto
    <3>2. Rearmed' \/ ~available
      BY <1>0, <1>2, <2>1, <2>2, <3>1 DEF LoopOK, Evaluated, Rearmed
    <3>3. Covered' \/ ~available
      BY <1>0, <1>2, <2>1, <2>2, <3>1 DEF LoopOK, Evaluated, Covered, At
    <3> QED
      BY <1>0, <1>2, <2>1, <3>1, <3>2, <3>3 DEF LoopOK, Evaluated
  <2>4. CASE rules[app.i].state # "READY"
    <3>1. rules' = rules
      BY <2>1, <2>4 DEF Matched, Current
    <3>2. rules[app.i].state \in {"WAITING", "EXECUTED"}
      BY <1>0, <1>1, <2>4 DEF EntryRecord
    <3>3. Rearmed' \/ ~available
      BY <1>0, <1>2, <2>1, <2>2, <3>1 DEF LoopOK, Evaluated, Rearmed
    <3>4. Covered' \/ ~available
      <4>1. \A k \in Entries : k = app.i /\ pass # "none" /\ available
                => rules[k].state = "WAITING" \/ Fed(k)
        BY <2>1, <3>2 DEF LoopOK, Evaluated, Rearmed
      <4> QED
        BY <1>0, <1>2, <2>1, <2>2, <3>1, <4>1 DEF LoopOK, Evaluated, Covered, At
    <3> QED
      BY <1>0, <1>2, <2>1, <3>1, <3>3, <3>4 DEF LoopOK, Evaluated
  <2> QED
    BY <2>3, <2>4
<1> QED
  BY <1>3, <1>4, <1>5 DEF SelectRule, ReadHour, ReadMinute, Matches

\* The execution: an entry that waited is fed.
LEMMA LoopFeeds ==
    ASSUME TypeInv, MinuteInv, LoopOK, WeeklyAdds, ProcessRule
    PROVE  LoopOK'
<1>0. /\ rules \in [Slots -> EntryRecord] /\ Entries \subseteq Slots
      /\ app.i \in 0 .. MaxRules /\ app.pc = "PROCESS"
      /\ UNCHANGED <<available, loaded, now, pass>> /\ Entries' = Entries
  BY EntryTypes DEF ProcessRule, At, timeVars, Entries
<1>1. PICK k \in Slots : rules[k].state = "WAITING" /\ k = LeastOf(WaitingFrom(app.i))
  BY LeastOfProperties DEF ProcessRule, WaitingFrom
<1>2. /\ rules' = [rules EXCEPT ![k].state = "EXECUTED"]
      /\ fed' = fed \cup {<<rules[k].fs, rules[k].rule>>}
      /\ app'.pc = "PROCESS" /\ map' = map
  BY <1>1, EntryTypes DEF ProcessRule, AppGoto, storeVars
<1>3. /\ \A j \in Slots : rules'[j].fs = rules[j].fs /\ rules'[j].rule = rules[j].rule
      /\ \A j \in Slots \ {k} : rules'[j] = rules[j]
      /\ rules'[k].state = "EXECUTED"
  BY <1>0, <1>2 DEF EntryRecord
<1>4. /\ \A j \in Slots : Matches(rules[j].rule, now)' = Matches(rules[j].rule, now)
      /\ \A j \in Slots : Fed(j) => Fed(j)'
      /\ Fed(k)'
  BY <1>0, <1>2, <1>3 DEF Matches, DayMatches, HourMatches, MinuteMatches, Fed
<1>5. Fits'
  BY <1>0, <1>2, <1>3 DEF LoopOK, Fits, Loading
<1>6. Evaluated'
  <2>1. \A j \in Entries : Seen(j)' /\ Seen(j)
    BY <1>0, <1>2 DEF Seen
  <2>2. pass # "none" => Matches(rules[k].rule, now)
    BY <1>1 DEF MinuteInv, InTheMinute
  <2>3. ~At("IDLE")'
    BY <1>2 DEF At
  <2>4. Rearmed' \/ ~available
    BY <1>0, <1>3, <1>4, <2>1, <2>2 DEF LoopOK, Evaluated, Rearmed
  <2>5. Covered' \/ ~available
    BY <1>0, <1>3, <1>4, <2>1, <2>3 DEF LoopOK, Evaluated, Covered
  <2> QED
    BY <1>0, <2>4, <2>5 DEF Evaluated
<1> QED
  BY <1>2, <1>5, <1>6 DEF LoopOK

\* A minute ends: what was executed matched, so it does not match now.
LEMMA LoopTicks ==
    ASSUME TypeInv, LoopOK, WeeklyAdds, MinutesPerHour > 1, Tick
    PROVE  LoopOK'
<1>0. /\ UNCHANGED <<map, app, rules, available, loaded>> /\ now' = now + 1
      /\ pass = "done" /\ pass' = "none" /\ now \in Nat /\ Entries' = Entries
      /\ Entries \subseteq Slots
  BY EntryTypes, CalendarAssumption DEF Tick, storeVars, TypeInv, TypeOK, Entries
<1>1. now % MinutesPerHour # (now + 1) % MinutesPerHour
  BY <1>0, NextDiffers, CalendarAssumption
<1>2. \A k \in Entries : ~(Matches(rules[k].rule, now) /\ Matches(rules[k].rule, now)')
  BY <1>0, <1>1 DEF Matches, MinuteMatches, Minute
<1>3. Fits'
  BY <1>0 DEF LoopOK, Fits, Below, Loading
<1>4. Evaluated'
  BY <1>0, <1>2 DEF LoopOK, Evaluated, Rearmed, Covered
<1> QED
  BY <1>0, <1>3, <1>4 DEF LoopOK

\* Every step.
LEMMA DueStep ==
    ASSUME TypeInv, MinuteInv, DueInv, WeeklyAdds, MinutesPerHour > 1, [Next]_vars
    PROVE  DueInv'
<1>0. TypeInv' /\ Entries \subseteq Slots /\ app.pc # "deleting" /\ LoopOK /\ Writing
  BY TypeInvStep, EntryTypes DEF DueInv, LoopOK
<1>1. CASE Restart
  <2>1. /\ app'.pc = "INIT" /\ flash' = flash /\ map' \in InitMaps /\ loaded' = 0
        /\ call' = [t \in Threads |-> Idle] /\ ~available'
    BY <1>1 DEF Restart, RestartStore
  <2>2. Mqtt'.pc = "idle" /\ IsIdle("app")'
    BY <2>1 DEF Mqtt, Idle, IsIdle, Threads
  <2>3. \A s \in map' : flash'[IdOf(s)] # Empty
    BY <2>1, Rebuilt DEF Occupied
  <2>4. Cardinality(map') \in Nat /\ Entries' = {}
    <3>1. map' \subseteq Slots
      BY <1>0 DEF TypeInv, TypeOK, StoreTypeOK
    <3> QED
      BY <2>1, <3>1, BelowCount DEF Entries
  <2> QED
    BY <2>1, <2>2, <2>3, <2>4 DEF DueInv, Writing, LoopOK, Fits, Loading, Evaluated
<1>2. CASE ~Restart
  <2>1. Writing' /\ map \subseteq map'
    BY <1>0, <1>2, StoreGrows
  <2>2. CASE AppStep
    BY <1>0, <2>1, <2>2, LoopTurns, LoopSkips, LoopReads, LoopSelects, LoopFeeds
       DEF AppStep, DeleteReturned, At, DueInv
  <2>3. CASE Tick
    BY <1>0, <2>1, <2>3, LoopTicks DEF DueInv
  <2>4. CASE \/ \E r \in Rule : OnAddRule(r)
             \/ OnReturn \/ Dispatch \/ OtherEvent \/ UNCHANGED vars
    <3>1. UNCHANGED <<app, rules, available, loaded, now, pass, fed>>
      BY <2>4 DEF OnAddRule, OnReturn, Dispatch, OtherEvent, vars, appVars, timeVars
    <3> QED
      BY <1>0, <2>1, <3>1, LoopStays DEF DueInv, Fed
  <2>5. CASE \E t \in Threads : StoreCall(t)
    <3>1. PICK t \in Threads : StoreCall(t)
      BY <2>5
    <3>2. UNCHANGED <<app, rules, available, loaded, now, pass>>
      BY <3>1 DEF StoreCall, appVars, timeVars
    <3>3. t = "mqtt"
      BY <1>0, <3>1
         DEF Threads, StoreCall, StoreStep, TestSlot, WriteSlot, DeleteSlot, WipeSlot,
             LoadWord, StoreWord, Writing, IsIdle
    <3>4. \A k \in Entries : rules[k].fs \in map
      BY <1>0 DEF LoopOK, Fits
    <3>5. \A k \in Entries : Fed(k) => Fed(k)'
      BY <1>0, <3>1, <3>2, <3>3, <3>4 DEF Fed, StoreCall, Writing, Mqtt
    <3> QED
      BY <1>0, <2>1, <3>2, <3>5, LoopStays DEF DueInv
  <2> QED
    BY <1>2, <2>2, <2>3, <2>4, <2>5 DEF Next, WeeklyAdds
<1> QED
  BY <1>1, <1>2

\* The initial states.
LEMMA DueInit == Init => DueInv
<1> SUFFICES ASSUME Init PROVE DueInv
  OBVIOUS
<1>1. Writing /\ map = {} /\ app.pc = "INIT" /\ ~available
  BY StoreStarts DEF Init, Writing, IsIdle, Mqtt, Idle, Threads
<1>2. loaded = 0 /\ Entries = {}
  BY DEF Init, Entries
<1>3. Cardinality(map) = 0
  BY <1>1, FS_EmptySet
<1> QED
  BY <1>1, <1>2, <1>3 DEF DueInv, LoopOK, Fits, Loading, Evaluated

\* While weekly rules are only added, no weekly rule in RAM is passed over: when
\* a check that began in this minute is over, each one that is due in it was fed,
\* although the loop runs up to the number of bits set now
\* (Application::select_rules_to_execute), which the MQTT thread changes, and
\* although the clock moves on between two readings.  An hour has more than one
\* minute: a rule that matched in two minutes in a row would stay EXECUTED.
THEOREM WeeklyFed ==
    ASSUME WeeklyAdds, MinutesPerHour > 1
    PROVE  Spec => []WeeklyDueIsFed
<1>1. TypeInv /\ DueInv => WeeklyDueIsFed
  <2> SUFFICES ASSUME TypeInv, DueInv, At("IDLE"), pass = "done", available,
                      NEW k \in Entries, Due(rules[k].rule, now),
                      rules[k].rule.period = "WEEKLY"
               PROVE  Fed(k)
    BY DEF WeeklyDueIsFed, DueIsFed, Fed
  <2>1. Matches(rules[k].rule, now)
    BY DEF Due, Matches, DayMatches, HourMatches, MinuteMatches
  <2> QED
    BY <2>1 DEF DueInv, LoopOK, Evaluated, Covered
<1>2. TypeInv /\ MinuteInv /\ DueInv /\ [Next]_vars => DueInv'
  BY DueStep, WeeklyAdds, MinutesPerHour > 1
<1> QED
  BY <1>1, <1>2, DueInit, MinuteInit, MinuteStep, TypeInvInit, TypeInvStep, PTL DEF Spec

-----------------------------------------------------------------------------
(***************************************************************************)
(* What no load has filled is not executed.  Bits are only set, so a load  *)
(* fills no less than the one before it, and the entries behind it are as  *)
(* the static object was: during a load, behind those that are filled and  *)
(* those still to be filled.                                               *)
(***************************************************************************)
Blank(z) == \A k \in Slots :
    k >= z => rules[k].rule = ZeroRule /\ rules[k].state = "READY"

ToCome == Cardinality(OccupiedFrom(app.i))

BlankInv ==
    /\ Loading => Blank(app.n + ToCome)
    /\ ~Loading => Blank(Cardinality(map))
    /\ available => Blank(loaded)
    /\ app.pc \in {"hour", "minute"} => Current.rule # ZeroRule
    /\ app.pc \in Reading \cup Processing => available

\* A zeroed rule has no day.
LEMMA ZeroNeverDue ==
    ASSUME NEW t
    PROVE  ~DayMatches(ZeroRule, t)
BY DEF DayMatches, ZeroRule

LEMMA BlankGrows ==
    ASSUME NEW y \in Nat, NEW z \in Nat, y <= z, Blank(y)
    PROVE  Blank(z)
BY SizeAssumption DEF Blank, Slots

\* The bits below a slot and those from it on are all the bits.
LEMMA BitsSplit ==
    ASSUME map \subseteq Slots, NEW i \in Nat
    PROVE  /\ Cardinality(Below(i)) \in Nat /\ Cardinality(OccupiedFrom(i)) \in Nat
           /\ Cardinality(map) \in Nat /\ IsFiniteSet(OccupiedFrom(i))
           /\ Cardinality(map) = Cardinality(Below(i)) + Cardinality(OccupiedFrom(i))
<1> DEFINE B == Below(i)
           C == OccupiedFrom(i)
<1>1. B \cup C = map /\ B \cap C = {}
  <2>1. \A s \in map : s < i <=> ~(s >= i)
    BY SizeAssumption DEF Slots
  <2> QED
    BY <2>1 DEF Below, OccupiedFrom
<1> HIDE DEF B, C
<1>2. /\ IsFiniteSet(B) /\ Cardinality(B) \in Nat
      /\ IsFiniteSet(C) /\ Cardinality(C) \in Nat /\ Cardinality(map) \in Nat
  <2>1. B \subseteq map /\ C \subseteq map
    BY <1>1
  <2> QED
    BY <2>1, BelowCount
<1>3. Cardinality(map) = Cardinality(B) + Cardinality(C) - Cardinality(B \cap C)
  BY <1>1, <1>2, FS_Union
<1>4. Cardinality(map) = Cardinality(B) + Cardinality(C)
  <2>1. Cardinality(B \cap C) = 0
    BY <1>1, FS_EmptySet
  <2> QED
    BY <1>2, <1>3, <2>1
<1> QED
  BY <1>2, <1>4 DEF B, C

\* Steps that leave the entries alone.
LEMMA BlankStays ==
    ASSUME TypeInv, BlankInv, map \subseteq map', map' \subseteq Slots,
           UNCHANGED <<rules, loaded, available>>,
           \/ app' = app
           \/ /\ ~Loading /\ ~Loading' /\ app'.pc \notin {"hour", "minute"}
              /\ app'.pc \in Reading \cup Processing => available
    PROVE  BlankInv'
<1>1. Cardinality(map) \in Nat /\ Cardinality(map') \in Nat
      /\ Cardinality(map) <= Cardinality(map')
  BY BelowCount
<1>2. \A z : Blank(z)' <=> Blank(z)
  BY DEF Blank
<1>3. ~Loading => Blank(Cardinality(map'))
  BY <1>1, BlankGrows DEF BlankInv
<1>4. CASE app' = app
  <2> DEFINE C == OccupiedFrom(app.i)
             D == {j \in map' : j >= app.i}
  <2>1. C \subseteq D /\ D \subseteq Slots
    BY DEF OccupiedFrom
  <2>2. D = OccupiedFrom(app.i)'
    BY <1>4 DEF OccupiedFrom
  <2> HIDE DEF C, D
  <2>3. Cardinality(C) \in Nat /\ Cardinality(D) \in Nat /\ Cardinality(C) <= Cardinality(D)
    BY <2>1, BelowCount
  <2>4. app.n \in Nat
    BY DEF TypeInv, TypeOK
  <2>5. Loading => Blank(app.n + Cardinality(C))
    BY DEF BlankInv, ToCome, C
  <2>6. Loading => Blank(app.n + Cardinality(D))
    BY <2>3, <2>4, <2>5, BlankGrows
  <2> QED
    BY <1>2, <1>3, <1>4, <2>2, <2>6 DEF BlankInv, ToCome, Current, Loading
<1>5. CASE app' # app
  BY <1>2, <1>3, <1>5 DEF BlankInv
<1> QED
  BY <1>4, <1>5

\* The loading of the rules.
LEMMA BlankLoads ==
    ASSUME TypeInv, LoopOK, BlankInv, WeeklyAdds,
           LoadRules \/ TestRule \/ ReadRule \/ ReadDone
    PROVE  BlankInv'
<1>0. /\ map' = map /\ map \subseteq Slots /\ rules \in [Slots -> EntryRecord]
      /\ app.i \in Nat /\ app.n \in 0 .. MaxRules /\ app.n <= app.i /\ app.i <= MaxRules
  BY EntryTypes DEF LoadRules, TestRule, ReadRule, ReadDone, storeVars
<1>1. /\ Cardinality(Below(app.i)) \in Nat /\ ToCome \in Nat /\ Cardinality(map) \in Nat
      /\ IsFiniteSet(OccupiedFrom(app.i))
      /\ Cardinality(map) = Cardinality(Below(app.i)) + ToCome
  BY <1>0, BitsSplit DEF ToCome
<1>2. CASE LoadRules
  <2>1. /\ rules' = rules /\ ~available' /\ app.pc = "LOAD_RULES"
        /\ app'.pc \in {"CHECK_RULES", "reading"} /\ app'.i = 0 /\ app'.n = 0
    BY <1>2 DEF LoadRules, AppGoto, At
  <2>2. OccupiedFrom(app.i)' = map
    <3>1. \A s \in map : s >= 0
      BY <1>0, SizeAssumption DEF Slots
    <3> QED
      BY <1>0, <2>1, <3>1 DEF OccupiedFrom
  <2>3. Blank(Cardinality(map))'
    BY <1>0, <2>1 DEF BlankInv, Blank, Loading
  <2> QED
    BY <1>0, <1>1, <2>1, <2>2, <2>3 DEF BlankInv, ToCome, Loading, Reading, Processing
<1>3. CASE ReadDone
  <2>1. /\ rules' = rules /\ loaded' = loaded /\ app.pc = "reading"
        /\ app'.pc = "CHECK_RULES" /\ OccupiedFrom(app.i) = {}
    <3>1. \A s \in map : ~(s >= MaxRules)
      BY <1>0, SizeAssumption DEF Slots
    <3> QED
      BY <1>3, <3>1 DEF ReadDone, AppGoto, At, OccupiedFrom
  <2>2. ToCome = 0 /\ loaded = app.n /\ app.n <= Cardinality(map)
    BY <1>0, <1>1, <2>1, FS_EmptySet DEF ToCome, LoopOK, Fits, Loading
  <2>3. Blank(app.n)
    BY <1>0, <2>1, <2>2 DEF BlankInv, Loading
  <2>4. Blank(Cardinality(map))
    BY <1>0, <1>1, <2>2, <2>3, BlankGrows
  <2> QED
    BY <1>0, <2>1, <2>2, <2>3, <2>4 DEF BlankInv, Blank, Loading, Reading, Processing
<1>4. CASE TestRule
  <2>1. /\ UNCHANGED <<rules, loaded, available>> /\ app.pc = "reading" /\ app'.n = app.n
        /\ \/ app.i \in map /\ app'.pc = "read" /\ app'.i = app.i
           \/ app.i \notin map /\ app'.pc = "reading" /\ app'.i = app.i + 1
    BY <1>4 DEF TestRule, At, AppGoto
  <2>2. \A s \in map : s >= app.i <=> s >= app'.i
    BY <1>0, <2>1, SizeAssumption DEF Slots
  <2>3. ToCome' = ToCome
    BY <1>0, <2>2 DEF ToCome, OccupiedFrom
  <2>4. ~available
    BY <2>1 DEF LoopOK, Fits, Loading
  <2> QED
    BY <2>1, <2>3, <2>4 DEF BlankInv, Blank, Loading, Reading, Processing
<1>5. CASE ReadRule
  <2>1. PICK s \in map : s = app.i
    BY <1>5 DEF ReadRule, At, LoopOK, Fits
  <2>2. ~available /\ available' = available /\ app.pc = "read"
        /\ app.n <= Cardinality(Below(app.i)) /\ Blank(app.n + ToCome)
    BY <1>5 DEF ReadRule, At, LoopOK, Fits, Loading, BlankInv
  <2>3. CASE AppGoto("CHECK_RULES", 0, 0) /\ rules' = rules
    <3>1. Blank(Cardinality(map))
      BY <1>0, <1>1, <2>2, BlankGrows
    <3>2. app'.pc = "CHECK_RULES"
      BY <2>3 DEF AppGoto
    <3> QED
      BY <1>0, <2>2, <2>3, <3>1, <3>2 DEF BlankInv, Blank, Loading, Reading, Processing
  <2>4. CASE /\ rules' = [rules EXCEPT ![app.n] =
                             [rule |-> flash[IdOf(s)], state |-> "READY", fs |-> s]]
             /\ AppGoto("reading", s + 1, app.n + 1)
    <3>1. app'.pc = "reading" /\ app'.i = s + 1 /\ app'.n = app.n + 1
      BY <2>4 DEF AppGoto
    <3>2. s \in Nat /\ \A u \in map : u \in Nat
      BY <1>0, SizeAssumption DEF Slots
    <3>3. OccupiedFrom(app.i)' = OccupiedFrom(app.i) \ {s} /\ s \in OccupiedFrom(app.i)
      BY <1>0, <2>1, <3>1, <3>2 DEF OccupiedFrom
    <3>4. ToCome' = ToCome - 1 /\ ToCome >= 1
      <4>1. Cardinality(OccupiedFrom(app.i) \ {s}) = ToCome - 1
        BY <1>1, <3>3, FS_RemoveElement DEF ToCome
      <4>2. Cardinality(OccupiedFrom(app.i) \ {s}) \in Nat
        BY <1>1, <3>3, FS_RemoveElement, FS_CardinalityType
      <4>3. ToCome' = Cardinality(OccupiedFrom(app.i) \ {s})
        BY <3>3 DEF ToCome
      <4> QED
        BY <1>1, <4>1, <4>2, <4>3
    <3>5. app'.n + ToCome' = app.n + ToCome /\ app.n + ToCome > app.n
      BY <1>0, <1>1, <3>1, <3>4
    <3>6. \A k \in Slots : k >= app.n + ToCome => rules'[k] = rules[k]
      BY <1>0, <1>1, <2>4, <3>5, SizeAssumption DEF Slots
    <3>7. Blank(app.n + ToCome)'
      BY <2>2, <3>5, <3>6 DEF Blank
    <3> QED
      BY <2>2, <3>1, <3>7 DEF BlankInv, Loading, Reading, Processing
  <2> QED
    BY <1>5, <2>1, <2>3, <2>4 DEF ReadRule
<1> QED
  BY <1>2, <1>3, <1>4, <1>5

\* The selection and the execution leave a blank entry as it is.
LEMMA BlankSelects ==
    ASSUME TypeInv, BlankInv, WeeklyAdds,
           SelectRule \/ ReadHour \/ ReadMinute \/ ProcessRule
    PROVE  BlankInv'
<1>0. /\ map' = map /\ loaded' = loaded /\ available' = available
      /\ rules \in [Slots -> EntryRecord] /\ ~Loading
  <2>1. CASE ProcessRule
    <3>1. LeastOf(WaitingFrom(app.i)) \in Slots
      BY <2>1, LeastOfProperties DEF ProcessRule, WaitingFrom
    <3> QED
      BY <2>1, <3>1, EntryTypes DEF ProcessRule, At, Loading, storeVars
  <2> QED
    BY <2>1, EntryTypes DEF SelectRule, ReadHour, ReadMinute, At, Loading, storeVars
<1>1. available /\ app'.pc \in Reading \cup Processing
  BY DEF SelectRule, ReadHour, ReadMinute, ProcessRule, Matched, NotMatched, At, AppGoto,
         BlankInv, Reading, Processing
<1>2. \A k \in Slots : rules[k].rule = ZeroRule /\ rules[k].state = "READY"
         => rules'[k] = rules[k]
  <2>1. CASE ProcessRule
    <3>1. PICK j \in Slots : /\ rules[j].state = "WAITING"
                             /\ rules' = [rules EXCEPT ![j].state = "EXECUTED"]
      BY <2>1, LeastOfProperties DEF ProcessRule, WaitingFrom
    <3> QED
      BY <1>0, <3>1
  <2>2. CASE NotMatched
    BY <1>0, <2>2 DEF NotMatched, Current
  <2>3. CASE ReadMinute /\ Matched
    BY <1>0, <2>3 DEF ReadMinute, At, Matched, Current, BlankInv
  <2>4. CASE rules' = rules
    BY <2>4
  <2> QED
    BY <2>1, <2>2, <2>3, <2>4 DEF SelectRule, ReadHour, ReadMinute
<1>3. Blank(Cardinality(map))' /\ Blank(loaded)'
  BY <1>0, <1>1, <1>2 DEF BlankInv, Blank
<1>4. app'.pc \in {"hour", "minute"} => Current'.rule # ZeroRule
  <2>1. ASSUME app'.pc \in {"hour", "minute"}
        PROVE  /\ rules' = rules /\ app'.i = app.i
               /\ DayMatches(Current.rule, now) \/ app.pc = "hour"
    BY <2>1 DEF SelectRule, ReadHour, ReadMinute, ProcessRule, Matched, NotMatched, At, AppGoto
  <2> QED
    BY <2>1, ZeroNeverDue DEF BlankInv, Current
<1>5. ~Loading'
  BY <1>1 DEF Loading, Reading, Processing
<1> QED
  BY <1>0, <1>1, <1>3, <1>4, <1>5 DEF BlankInv

\* Every step.
LEMMA BlankStep ==
    ASSUME TypeInv, DueInv, BlankInv, WeeklyAdds, [Next]_vars
    PROVE  BlankInv'
<1>0. TypeInv' /\ app.pc # "deleting" /\ LoopOK /\ Writing /\ map' \subseteq Slots
  BY TypeInvStep DEF DueInv, LoopOK, TypeInv, TypeOK, StoreTypeOK
<1>1. CASE Restart
  <2>1. app'.pc = "INIT" /\ rules' = ZeroRules /\ ~available'
    BY <1>1 DEF Restart
  <2>2. Blank(Cardinality(map))'
    BY <2>1 DEF Blank, ZeroRules
  <2> QED
    BY <2>1, <2>2 DEF BlankInv, Loading, Reading, Processing
<1>2. CASE ~Restart
  <2>1. map \subseteq map'
    BY <1>0, <1>2, StoreGrows
  <2>2. CASE LoadRules \/ TestRule \/ ReadRule \/ ReadDone
    BY <1>0, <2>2, BlankLoads
  <2>3. CASE SelectRule \/ ReadHour \/ ReadMinute \/ ProcessRule
    BY <2>3, BlankSelects
  <2>4. CASE InitApp \/ CheckRules \/ SelectDone \/ ProcessDone \/ WakeUp \/ ClearUpdate
    <3>1. UNCHANGED <<rules, loaded, available>>
      BY <2>4 DEF InitApp, CheckRules, SelectDone, ProcessDone, WakeUp, ClearUpdate
    <3>2. /\ ~Loading /\ ~Loading' /\ app'.pc \notin {"hour", "minute"}
          /\ app'.pc \in Reading \cup Processing => available
      BY <2>4 DEF InitApp, CheckRules, SelectDone, ProcessDone, WakeUp, ClearUpdate, Rest,
                  At, AppGoto, BlankInv, Loading, Reading, Processing
    <3> QED
      BY <1>0, <2>1, <3>1, <3>2, BlankStays
  <2>5. CASE \/ \E r \in Rule : OnAddRule(r)
             \/ OnReturn
             \/ \E t \in Threads : StoreCall(t)
             \/ Dispatch \/ OtherEvent \/ Tick \/ UNCHANGED vars
    <3>1. UNCHANGED <<app, rules, loaded, available>>
      BY <2>5 DEF OnAddRule, OnReturn, StoreCall, Dispatch, OtherEvent, Tick, vars, appVars
    <3> QED
      BY <1>0, <2>1, <3>1, BlankStays
  <2>6. ~DeleteReturned
    BY <1>0 DEF DeleteReturned, At
  <2> QED
    BY <1>2, <2>2, <2>3, <2>4, <2>5, <2>6 DEF Next, AppStep, WeeklyAdds
<1> QED
  BY <1>1, <1>2

\* While weekly rules are only added, no entry is executed that the last load
\* has not filled, although the loop may run past it, because the bits that are
\* set since the load count (Application::select_rules_to_execute).
THEOREM FedFromTheLoad ==
    ASSUME WeeklyAdds, MinutesPerHour > 1
    PROVE  Spec => FedFromLoad
<1>1. Init => BlankInv
  BY DEF Init, BlankInv, Blank, ZeroRules, Loading, Reading, Processing
<1>2. TypeInv /\ MinuteInv /\ BlankInv => \A k \in Slots : Dispenses(k) => k \in Entries
  <2> SUFFICES ASSUME TypeInv, MinuteInv, BlankInv, NEW k \in Slots, Dispenses(k)
               PROVE  k \in Entries
    OBVIOUS
  <2>1. rules[k].state = "WAITING" /\ available
    BY DEF Dispenses, MinuteInv, Waits, NoneWaits, BlankInv
  <2>2. ~(k >= loaded)
    BY <2>1 DEF BlankInv, Blank
  <2> QED
    BY <2>2, SizeAssumption DEF Entries, Slots, TypeInv, TypeOK
<1>3. TypeInv /\ DueInv /\ BlankInv /\ [Next]_vars => BlankInv'
  BY BlankStep, WeeklyAdds
<1>4. TypeInv /\ MinuteInv /\ DueInv /\ [Next]_vars => DueInv'
  BY DueStep, WeeklyAdds, MinutesPerHour > 1
<1> QED
  BY <1>1, <1>2, <1>3, <1>4, DueInit, MinuteInit, MinuteStep, TypeInvInit, TypeInvStep, PTL
     DEF Spec, FedFromLoad
=============================================================================
