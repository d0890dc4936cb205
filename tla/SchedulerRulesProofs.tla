------------------------- MODULE SchedulerRulesProofs -------------------------
(***************************************************************************)
(* Lemmas about the rule store, for any set of rules, any number of slots  *)
(* and any flash faults, for the modules that prove theorems about systems *)
(* that use it.                                                            *)
(***************************************************************************)
EXTENDS SchedulerRules, TLAPS

-----------------------------------------------------------------------------
(***************************************************************************)
(* The operators the model is built from.                                  *)
(***************************************************************************)

\* A call record keeps its type however the call moves.
LEMMA MoveTypes ==
    ASSUME call \in [Threads -> CallRecord], NEW t \in Threads
    PROVE  /\ \A op \in {"write", "delete", "clear"}, pc \in Points, s \in Slots,
              r \in Rule \cup {Empty} :
                 Begin(t, op, pc, s, r) => call' \in [Threads -> CallRecord]
           /\ \A pc \in Points, s \in Slots :
                 Goto(t, pc, s) => call' \in [Threads -> CallRecord]
           /\ \A value \in {-1, 0, 1} :
                 Reply(t, value) => call' \in [Threads -> CallRecord]
           /\ \A op \in {"write", "delete", "clear"}, value \in {-1, 0, 1} :
                 Refuse(t, op, value) => call' \in [Threads -> CallRecord]
           /\ Finish(t) => call' \in [Threads -> CallRecord]
<1>1. Idle \in CallRecord
  BY SizeAssumption DEF Idle, CallRecord, Points, Slots
<1>2. \A c \in CallRecord :
         call' = [call EXCEPT ![t] = c] => call' \in [Threads -> CallRecord]
  OBVIOUS
<1>3. \A op \in {"write", "delete", "clear"}, pc \in Points, s \in Slots,
         r \in Rule \cup {Empty} :
            Begin(t, op, pc, s, r) => call' \in [Threads -> CallRecord]
  BY <1>1, <1>2 DEF Begin, CallRecord
<1>4. \A pc \in Points, s \in Slots :
         Goto(t, pc, s) => call' \in [Threads -> CallRecord]
  <2> TAKE pc \in Points, s \in Slots
  <2>1. [call[t] EXCEPT !.pc = pc, !.slot = s] \in CallRecord
    BY DEF CallRecord
  <2> QED
    BY <1>2, <2>1 DEF Goto
<1>5. \A value \in {-1, 0, 1} :
         Reply(t, value) => call' \in [Threads -> CallRecord]
  <2> TAKE value \in {-1, 0, 1}
  <2>1. [call[t] EXCEPT !.pc = "return", !.ret = value] \in CallRecord
    BY DEF CallRecord, Points
  <2> QED
    BY <1>2, <2>1 DEF Reply
<1>6. \A op \in {"write", "delete", "clear"}, value \in {-1, 0, 1} :
         Refuse(t, op, value) => call' \in [Threads -> CallRecord]
  BY <1>1, <1>2 DEF Refuse, CallRecord, Points
<1>7. Finish(t) => call' \in [Threads -> CallRecord]
  BY <1>1, <1>2 DEF Finish
<1> QED
  BY <1>3, <1>4, <1>5, <1>6, <1>7

\* What each move changes in the call of its thread; the other is left alone.
LEMMA MoveEffects ==
    ASSUME call \in [Threads -> CallRecord], NEW t \in Threads
    PROVE  /\ \A op, pc, s, r : Begin(t, op, pc, s, r) =>
                 /\ call'[t].op = op /\ call'[t].pc = pc
                 /\ call'[t].slot = s /\ call'[t].rule = r
                 /\ \A u \in Threads \ {t} : call'[u] = call[u]
           /\ \A op, value : Refuse(t, op, value) =>
                 /\ call'[t].op = op /\ call'[t].pc = "return"
                 /\ \A u \in Threads \ {t} : call'[u] = call[u]
           /\ \A pc, s : Goto(t, pc, s) =>
                 /\ call'[t].pc = pc /\ call'[t].slot = s
                 /\ call'[t].op = call[t].op /\ call'[t].rule = call[t].rule
                 /\ \A u \in Threads \ {t} : call'[u] = call[u]
           /\ \A value : Reply(t, value) =>
                 /\ call'[t].pc = "return" /\ call'[t].ret = value
                 /\ call'[t].op = call[t].op /\ call'[t].slot = call[t].slot
                 /\ call'[t].rule = call[t].rule
                 /\ \A u \in Threads \ {t} : call'[u] = call[u]
<1>1. call[t] \in CallRecord
  OBVIOUS
<1>2. ASSUME NEW op, NEW pc, NEW s, NEW r, Begin(t, op, pc, s, r)
      PROVE  /\ call'[t].op = op /\ call'[t].pc = pc
             /\ call'[t].slot = s /\ call'[t].rule = r
             /\ \A u \in Threads \ {t} : call'[u] = call[u]
  BY <1>2 DEF Begin, Idle
<1>3. ASSUME NEW op, NEW value, Refuse(t, op, value)
      PROVE  /\ call'[t].op = op /\ call'[t].pc = "return"
             /\ \A u \in Threads \ {t} : call'[u] = call[u]
  BY <1>3 DEF Refuse, Idle
<1>4. ASSUME NEW pc, NEW s, Goto(t, pc, s)
      PROVE  /\ call'[t].pc = pc /\ call'[t].slot = s
             /\ call'[t].op = call[t].op /\ call'[t].rule = call[t].rule
             /\ \A u \in Threads \ {t} : call'[u] = call[u]
  BY <1>1, <1>4 DEF Goto, CallRecord
<1>5. ASSUME NEW value, Reply(t, value)
      PROVE  /\ call'[t].pc = "return" /\ call'[t].ret = value
             /\ call'[t].op = call[t].op /\ call'[t].slot = call[t].slot
             /\ call'[t].rule = call[t].rule
             /\ \A u \in Threads \ {t} : call'[u] = call[u]
  BY <1>1, <1>5 DEF Reply, CallRecord
<1> QED
  BY <1>2, <1>3, <1>4, <1>5

-----------------------------------------------------------------------------
(***************************************************************************)
(* Every step of the store keeps its type.                                 *)
(***************************************************************************)

\* The slots, their ids, and the ids that delete_rule erases are ids.
LEMMA SlotIds ==
    ASSUME NEW s \in Slots
    PROVE  /\ IdOf(s) \in Ids /\ ErasedBy(s) \in Ids
           /\ 0 \in Slots
           /\ ~IsLast(s) => s + 1 \in Slots
BY SizeAssumption DEF Slots, Ids, IdOf, ErasedBy, IsLast

\* A write, delete or clear call begins, or is refused.
LEMMA CallsType ==
    ASSUME StoreTypeOK, NEW t \in Threads,
           \/ \E r \in Rule : CallWrite(t, r)
           \/ \E s \in Slots : CallDelete(t, s)
           \/ CallClear(t)
    PROVE  StoreTypeOK'
<1> USE DEF StoreTypeOK
<1>0. 0 \in Slots
  BY SizeAssumption DEF Slots
<1>1. CASE \E r \in Rule : CallWrite(t, r)
  BY <1>0, <1>1, MoveTypes DEF CallWrite, Points
<1>2. CASE \E s \in Slots : CallDelete(t, s)
  BY <1>2, MoveTypes DEF CallDelete, Points
<1>3. CASE CallClear(t)
  BY <1>0, <1>3, MoveTypes DEF CallClear, Points
<1> QED
  BY <1>1, <1>2, <1>3

\* A step of a call in progress.
LEMMA StepsType ==
    ASSUME StoreTypeOK, NEW t \in Threads, StoreStep(t)
    PROVE  StoreTypeOK'
<1> USE DEF StoreTypeOK
<1>0. /\ call[t] \in CallRecord /\ call[t].slot \in Slots
      /\ call[t].rule \in Rule \cup {Empty} /\ call[t].word \subseteq Slots
  BY DEF CallRecord
<1>1. CASE TestSlot(t)
  BY <1>0, <1>1, MoveTypes, SlotIds DEF TestSlot, TryNext, Points
<1>2. CASE WriteSlot(t)
  <2>1. \/ /\ flash' = [flash EXCEPT ![IdOf(call[t].slot)] = call[t].rule]
           /\ Goto(t, "load", call[t].slot)
        \/ flash' = flash /\ TryNext(t)
    BY <1>2 DEF WriteSlot, write_buffer
  <2>2. call' \in [Threads -> CallRecord]
    BY <1>0, <2>1, MoveTypes, SlotIds DEF TryNext, Points
  <2>3. flash' \in [Ids -> Rule \cup {Empty}]
    BY <1>0, <2>1, SlotIds
  <2> QED
    BY <1>2, <2>2, <2>3 DEF WriteSlot
<1>3. CASE DeleteSlot(t)
  BY <1>0, <1>3, MoveTypes, SlotIds DEF DeleteSlot, delete_data, Points
<1>4. CASE WipeSlot(t)
  BY <1>0, <1>4, MoveTypes, SlotIds DEF WipeSlot, delete_data, Points
<1>5. CASE LoadWord(t)
  <2>1. [call[t] EXCEPT !.pc = "store", !.word = map] \in CallRecord
    BY <1>0 DEF CallRecord, Points
  <2> QED
    BY <1>5, <2>1 DEF LoadWord
<1>6. CASE StoreWord(t)
  <2>1. map' \subseteq Slots /\ flash' = flash
    BY <1>0, <1>6 DEF StoreWord, Stored
  <2>2. call' \in [Threads -> CallRecord]
    BY <1>0, <1>6, MoveTypes, SlotIds DEF StoreWord, Points
  <2> QED
    BY <2>1, <2>2
<1> QED
  BY <1>1, <1>2, <1>3, <1>4, <1>5, <1>6 DEF StoreStep

\* A restart.
LEMMA RestartType ==
    ASSUME StoreTypeOK, RestartStore
    PROVE  StoreTypeOK'
<1>1. Idle \in CallRecord
  BY SizeAssumption DEF Idle, CallRecord, Points, Slots
<1> QED
  BY <1>1 DEF RestartStore, StoreTypeOK, InitMaps

\* What init() rebuilds: no bit without an entry, and when every length can be
\* read, no entry without its bit.  Without entries there are no bits.
LEMMA Rebuilt ==
    ASSUME NEW m \in InitMaps
    PROVE  /\ m \subseteq Occupied
           /\ "length" \notin Faults => m = Occupied
           /\ Occupied = {} => m = {}
<1>1. /\ m \subseteq Slots
      /\ \A s \in Slots : s \in m => flash[IdOf(s)] # Empty
      /\ \A s \in Slots : s \notin m => flash[IdOf(s)] = Empty \/ "length" \in Faults
  BY DEF InitMaps, is_id_empty
<1> QED
  BY <1>1 DEF Occupied

\* The initial states.
LEMMA StoreInitType == StoreInit => StoreTypeOK
<1>1. Idle \in CallRecord
  BY SizeAssumption DEF Idle, CallRecord, Points, Slots
<1> QED
  BY <1>1 DEF StoreInit, StoreTypeOK, InitMaps

\* The store that a device starts with.
LEMMA StoreStarts ==
    ASSUME StoreInit
    PROVE  /\ map = {} /\ flash = [id \in Ids |-> Empty]
           /\ Occupied = {} /\ \A t \in Threads : call[t] = Idle
<1>1. \A s \in Slots : flash[IdOf(s)] = Empty
  BY SlotIds DEF StoreInit
<1> QED
  BY <1>1, Rebuilt DEF StoreInit, Occupied
=============================================================================
