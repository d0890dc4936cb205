--------------------------- MODULE RuleStoreProofs ---------------------------
(***************************************************************************)
(* Proofs about the rule store under its callers, for any set of rules,    *)
(* any number of slots, any callers, flash faults and restarts.            *)
(***************************************************************************)
EXTENDS RuleStore, SchedulerRulesProofs, FiniteSetTheorems

-----------------------------------------------------------------------------
\* The store and its history keep their types, whoever calls and whatever
\* fails (SchedulerRules.cpp, Storage.cpp).
THEOREM TypeCorrect == Spec => []TypeOK
<1>1. Init => TypeOK
  BY StoreInitType, CallersAssumption DEF Init, TypeOK
<1>2. TypeOK /\ [Next]_vars => TypeOK'
  <2> SUFFICES ASSUME TypeOK, [Next]_vars PROVE TypeOK'
    OBVIOUS
  <2> USE DEF TypeOK
  <2>1. CASE \E r \in Rule : AddRule(r)
    <3>1. "mqtt" \in Threads
      BY DEF Threads
    <3> QED
      BY <2>1, <3>1, CallsType DEF AddRule
  <2>2. CASE \E t \in Threads : \E s \in Removals[t] : RemoveRule(t, s)
    <3> PICK t \in Threads : \E s \in Removals[t] : RemoveRule(t, s)
      BY <2>2
    <3> PICK s \in Slots : RemoveRule(t, s)
      BY CallersAssumption
    <3>1. StoreTypeOK'
      BY CallsType DEF RemoveRule
    <3> QED
      BY <3>1 DEF RemoveRule
  <2>3. CASE \E t \in Clearers : ClearRules(t)
    <3> PICK t \in Threads : ClearRules(t)
      BY <2>3, CallersAssumption
    <3>1. StoreTypeOK'
      BY CallsType DEF ClearRules
    <3> QED
      BY <3>1 DEF ClearRules
  <2>4. CASE \E t \in Threads : Step(t)
    <3> PICK t \in Threads : Step(t)
      BY <2>4
    <3>1. StoreTypeOK'
      BY StepsType DEF Step
    <3>2. call[t].rule \in Rule \cup {Empty}
      BY DEF StoreTypeOK, CallRecord
    <3> QED
      BY <3>1, <3>2 DEF Step
  <2>5. CASE \E t \in Threads : Return(t)
    <3> PICK t \in Threads : Return(t)
      BY <2>5
    <3> QED
      BY MoveTypes DEF Return, StoreTypeOK
  <2>6. CASE Restart
    <3>1. StoreTypeOK'
      BY <2>6, RestartType DEF Restart
    <3>2. unseen' \subseteq Slots
      BY <2>6 DEF Restart, Occupied
    <3> QED
      BY <2>6, <3>1, <3>2, CallersAssumption DEF Restart
  <2>7. CASE UNCHANGED vars
    BY <2>7 DEF vars, StoreTypeOK
  <2> QED
    BY <2>1, <2>2, <2>3, <2>4, <2>5, <2>6, <2>7 DEF Next
<1> QED
  BY <1>1, <1>2, PTL DEF Spec

-----------------------------------------------------------------------------
(***************************************************************************)
(* Durability.  KeptIsStored is not inductive: it needs what the call in   *)
(* progress has done so far and that the word it holds is still the map.   *)
(***************************************************************************)
Mqtt == call["mqtt"]

Progress ==
    /\ Mqtt.pc \in {"flash", "load", "store"} => Mqtt.op # "none"
    /\ Mqtt.pc = "store" => Mqtt.word = map
    /\ Mqtt.op = "write" /\ Mqtt.pc \in {"flash", "load", "store"} =>
          Mqtt.slot \notin map
    /\ Mqtt.op = "write" /\ Mqtt.pc \in {"load", "store"} =>
          flash[IdOf(Mqtt.slot)] = Mqtt.rule
    /\ Mqtt.op = "delete" /\ Mqtt.pc \in {"flash", "load", "store"} =>
          Mqtt.slot < RuleBase /\ kept[Mqtt.slot] = Empty
    /\ Mqtt.op = "clear" /\ Mqtt.pc \in {"flash", "load", "store"} =>
          \A s \in Slots : kept[s] = Empty

DurableInv == TypeOK /\ IsIdle("app") /\ KeptIsStored /\ Progress

\* Two slots have two ids, and the number of a slot below RuleBase is the id
\* of none.
LEMMA IdsApart ==
    ASSUME NEW s \in Slots, NEW u \in Slots
    PROVE  /\ s # u => IdOf(s) # IdOf(u)
           /\ u < RuleBase => ErasedBy(u) # IdOf(s)
           /\ IdOf(s) \in Ids
BY SizeAssumption DEF Slots, IdOf, Ids, ErasedBy

\* A step of the call in progress.
LEMMA DurableStep ==
    ASSUME DurableInv, TypeOK', NEW t \in Threads, Step(t)
    PROVE  DurableInv'
<1> USE DEF DurableInv
<1>0. t = "mqtt" /\ Mqtt \in CallRecord /\ call \in [Threads -> CallRecord]
      /\ "mqtt" \in Threads /\ "app" \in Threads
  BY DEF Threads, IsIdle, Step, StoreStep, TestSlot, WriteSlot, DeleteSlot,
         WipeSlot, LoadWord, StoreWord, Mqtt, TypeOK, StoreTypeOK
<1>1. Mqtt.slot \in Slots /\ Mqtt.rule \in Rule \cup {Empty}
  BY <1>0 DEF CallRecord
<1>2. flash \in [Ids -> Rule \cup {Empty}] /\ kept \in [Slots -> Rule \cup {Empty}]
  BY DEF TypeOK, StoreTypeOK
<1>3. CASE TestSlot(t)
  <2>1. /\ map' = map /\ kept' = kept /\ flash' = flash
        /\ Mqtt.op = "write" /\ Mqtt.pc = "test"
    BY <1>0, <1>3 DEF Step, TestSlot, Mqtt
  <2>2. /\ IsIdle("app")' /\ Mqtt'.op = "write"
        /\ \/ Mqtt'.pc \in {"test", "return"}
           \/ Mqtt'.pc = "flash" /\ Mqtt'.slot \notin map
    BY <1>0, <1>3, MoveEffects DEF TestSlot, TryNext, IsIdle, Mqtt
  <2> QED
    BY <2>1, <2>2 DEF KeptIsStored, Progress
<1>4. CASE WriteSlot(t)
  <2> DEFINE s == Mqtt.slot
  <2>1. /\ Mqtt.op = "write" /\ Mqtt.pc = "flash"
        /\ map' = map /\ kept' = kept
        /\ \/ /\ flash' = [flash EXCEPT ![IdOf(s)] = Mqtt.rule]
              /\ Goto("mqtt", "load", s)
           \/ flash' = flash /\ TryNext("mqtt")
    BY <1>0, <1>4 DEF Step, WriteSlot, write_buffer, Mqtt
  <2>2. s \notin map /\ kept[s] = Empty
    BY <1>1, <2>1 DEF KeptIsStored, Progress
  <2>3. IsIdle("app")' /\ Mqtt'.op = "write" /\ Mqtt'.rule = Mqtt.rule
    BY <1>0, <2>1, MoveEffects DEF TryNext, IsIdle, Mqtt
  <2>4. \/ /\ flash' = [flash EXCEPT ![IdOf(s)] = Mqtt.rule]
           /\ Mqtt'.pc = "load" /\ Mqtt'.slot = s
        \/ flash' = flash /\ Mqtt'.pc \in {"test", "return"}
    BY <1>0, <2>1, MoveEffects DEF TryNext, Mqtt
  <2>5. KeptIsStored'
    BY <1>1, <1>2, <2>1, <2>2, <2>4, IdsApart DEF KeptIsStored
  <2>6. Progress'
    BY <1>1, <1>2, <2>1, <2>2, <2>3, <2>4, IdsApart DEF Progress
  <2> QED
    BY <2>3, <2>5, <2>6
<1>5. CASE DeleteSlot(t)
  <2>1. Mqtt.op = "delete" /\ Mqtt.pc = "flash" /\ map' = map /\ kept' = kept
    BY <1>0, <1>5 DEF Step, DeleteSlot, Mqtt
  <2>2. Mqtt.slot < RuleBase /\ kept[Mqtt.slot] = Empty
    BY <2>1 DEF Progress
  <2>3. /\ IsIdle("app")' /\ Mqtt'.op = "delete"
        /\ \/ /\ flash' = [flash EXCEPT ![ErasedBy(Mqtt.slot)] = Empty]
              /\ Mqtt'.pc = "load" /\ Mqtt'.slot = Mqtt.slot
           \/ flash' = flash /\ Mqtt'.pc = "return"
    BY <1>0, <1>5, MoveEffects DEF DeleteSlot, delete_data, IsIdle, Mqtt
  <2>4. KeptIsStored'
    BY <1>1, <1>2, <2>1, <2>2, <2>3, IdsApart DEF KeptIsStored
  <2>5. Progress'
    BY <2>1, <2>2, <2>3 DEF Progress
  <2> QED
    BY <2>3, <2>4, <2>5
<1>6. CASE WipeSlot(t)
  <2>1. Mqtt.op = "clear" /\ Mqtt.pc = "flash" /\ map' = map /\ kept' = kept
    BY <1>0, <1>6 DEF Step, WipeSlot, Mqtt
  <2>2. \A s \in Slots : kept[s] = Empty
    BY <2>1 DEF Progress
  <2>3. /\ IsIdle("app")' /\ Mqtt'.op = "clear" /\ Mqtt'.pc \in {"load", "return"}
    BY <1>0, <1>6, MoveEffects DEF WipeSlot, delete_data, IsIdle, Mqtt
  <2> QED
    BY <2>1, <2>2, <2>3 DEF KeptIsStored, Progress
<1>7. CASE LoadWord(t)
  <2>1. /\ Mqtt.pc = "load" /\ map' = map /\ kept' = kept /\ flash' = flash
        /\ IsIdle("app")' /\ Mqtt'.op = Mqtt.op /\ Mqtt'.pc = "store"
        /\ Mqtt'.slot = Mqtt.slot /\ Mqtt'.rule = Mqtt.rule /\ Mqtt'.word = map
    BY <1>0, <1>7 DEF Step, LoadWord, IsIdle, Mqtt, CallRecord
  <2> QED
    BY <2>1 DEF KeptIsStored, Progress
<1>8. CASE StoreWord(t)
  <2>1. /\ Mqtt.pc = "store" /\ Mqtt.word = map /\ flash' = flash
        /\ Mqtt.op \in {"write", "delete", "clear"}
    BY <1>0, <1>8 DEF StoreWord, Mqtt, Progress, CallRecord
  <2>2. IsIdle("app")' /\ Mqtt'.op = Mqtt.op
    BY <1>0, <1>8, MoveEffects DEF StoreWord, IsIdle, Mqtt
  <2>3. CASE Mqtt.op = "write"
    <3>1. /\ map' = map \cup {Mqtt.slot} /\ Mqtt'.pc = "return"
          /\ kept' = [kept EXCEPT ![Mqtt.slot] = Mqtt.rule]
      BY <1>0, <1>8, <2>1, <2>3, MoveEffects DEF Step, StoreWord, Stored, Mqtt
    <3>2. flash[IdOf(Mqtt.slot)] = Mqtt.rule
      BY <2>1, <2>3 DEF Progress
    <3> QED
      BY <1>1, <1>2, <2>1, <2>2, <3>1, <3>2 DEF KeptIsStored, Progress
  <2>4. CASE Mqtt.op = "delete"
    <3>1. map' = map \ {Mqtt.slot} /\ Mqtt'.pc = "return" /\ kept' = kept
      BY <1>0, <1>8, <2>1, <2>4, MoveEffects DEF Step, StoreWord, Stored, Mqtt
    <3>2. kept[Mqtt.slot] = Empty
      BY <2>1, <2>4 DEF Progress
    <3> QED
      BY <2>1, <2>2, <3>1, <3>2 DEF KeptIsStored, Progress
  <2>5. CASE Mqtt.op = "clear"
    <3>1. kept' = kept /\ Mqtt'.pc \in {"flash", "return"}
      BY <1>0, <1>8, <2>1, <2>5, MoveEffects DEF Step, StoreWord, Mqtt
    <3>2. \A s \in Slots : kept[s] = Empty
      BY <2>1, <2>5 DEF Progress
    <3> QED
      BY <2>2, <2>5, <3>1, <3>2 DEF KeptIsStored, Progress
  <2> QED
    BY <2>1, <2>3, <2>4, <2>5
<1> QED
  BY <1>3, <1>4, <1>5, <1>6, <1>7, <1>8 DEF Step, StoreStep

\* With one caller, whose removals erase no other slot's entry, a rule that
\* write_rule accepted and that nobody asked to remove stays in the bitset and
\* in the flash through any sequence of calls, flash faults and restarts, until
\* a restart that cannot read its length (SchedulerRules::write_rule, init).
THEOREM Durable == ASSUME OneCarefulCaller PROVE Spec => []KeptIsStored
<1>1. Init => DurableInv
  <2> SUFFICES ASSUME Init PROVE DurableInv
    OBVIOUS
  <2>1. TypeOK
    BY StoreInitType, CallersAssumption DEF Init, TypeOK
  <2>2. call["app"] = Idle /\ call["mqtt"] = Idle
    BY StoreStarts DEF Init, Threads
  <2> QED
    BY <2>1, <2>2 DEF Init, DurableInv, IsIdle, Idle, Mqtt, Progress, KeptIsStored
<1>2. TypeOK' /\ DurableInv /\ [Next]_vars => DurableInv'
  <2> SUFFICES ASSUME TypeOK', DurableInv, [Next]_vars PROVE DurableInv'
    OBVIOUS
  <2> USE DEF DurableInv
  <2>0. /\ "mqtt" \in Threads /\ "app" \in Threads
        /\ call \in [Threads -> CallRecord] /\ kept \in [Slots -> Rule \cup {Empty}]
    BY DEF Threads, TypeOK, StoreTypeOK
  <2>1. CASE \E r \in Rule : AddRule(r)
    <3>1. /\ flash' = flash /\ map' = map /\ kept' = kept /\ IsIdle("app")'
          /\ Mqtt'.op = "write" /\ Mqtt'.pc \in {"test", "return"}
      BY <2>0, <2>1, MoveEffects DEF AddRule, CallWrite, IsIdle, Mqtt
    <3> QED
      BY <3>1 DEF KeptIsStored, Progress
  <2>2. CASE \E t \in Threads : \E s \in Removals[t] : RemoveRule(t, s)
    <3> PICK s \in Removals["mqtt"] : RemoveRule("mqtt", s)
      BY <2>2, OneCarefulCaller DEF OneCarefulCaller, Threads
    <3>1. s \in Slots /\ s < RuleBase
      BY OneCarefulCaller, CallersAssumption, SizeAssumption, <2>0
         DEF OneCarefulCaller, Slots
    <3>2. /\ flash' = flash /\ map' = map /\ IsIdle("app")'
          /\ kept' = [kept EXCEPT ![s] = Empty]
      BY <2>0, MoveEffects DEF RemoveRule, CallDelete, IsIdle
    <3>3. /\ Mqtt'.op = "delete"
          /\ \/ Mqtt'.pc = "return"
             \/ Mqtt'.pc = "flash" /\ Mqtt'.slot = s
      <4>1. \/ Begin("mqtt", "delete", "flash", s, Empty)
            \/ Refuse("mqtt", "delete", -1)
        BY DEF RemoveRule, CallDelete
      <4> QED
        BY <2>0, <4>1, MoveEffects DEF Mqtt
    <3> QED
      BY <2>0, <3>1, <3>2, <3>3 DEF KeptIsStored, Progress
  <2>3. CASE \E t \in Clearers : ClearRules(t)
    <3>1. ClearRules("mqtt")
      BY <2>3, OneCarefulCaller DEF OneCarefulCaller
    <3>2. /\ flash' = flash /\ map' = map /\ IsIdle("app")'
          /\ kept' = [s \in Slots |-> Empty]
          /\ Mqtt'.op = "clear" /\ Mqtt'.pc = "flash"
      BY <2>0, <3>1, MoveEffects DEF ClearRules, CallClear, IsIdle, Mqtt
    <3> QED
      BY <3>2 DEF KeptIsStored, Progress
  <2>4. CASE \E t \in Threads : Step(t)
    BY <2>4, DurableStep
  <2>5. CASE \E t \in Threads : Return(t)
    <3>1. /\ flash' = flash /\ map' = map /\ kept' = kept /\ IsIdle("app")'
          /\ Mqtt'.pc = "idle" /\ Mqtt'.op = "none"
      BY <2>0, <2>5 DEF Return, Finish, IsIdle, Idle, Mqtt, Threads
    <3> QED
      BY <3>1 DEF KeptIsStored, Progress
  <2>6. CASE Restart
    <3>1. /\ flash' = flash /\ call' = [t \in Threads |-> Idle]
          /\ unseen' = Occupied \ map'
          /\ kept' = [s \in Slots |-> IF s \in unseen' THEN Empty ELSE kept[s]]
      BY <2>6 DEF Restart, RestartStore
    <3>2. IsIdle("app")' /\ Mqtt'.pc = "idle" /\ Mqtt'.op = "none"
      BY <2>0, <3>1 DEF IsIdle, Idle, Mqtt
    <3>3. \A s \in Slots : kept'[s] # Empty =>
             kept[s] # Empty /\ kept'[s] = kept[s] /\ (s \in Occupied => s \in map')
      BY <3>1
    <3>4. \A s \in Slots : kept[s] # Empty => flash[IdOf(s)] = kept[s] /\ s \in Occupied
      BY DEF KeptIsStored, Occupied
    <3>5. KeptIsStored'
      BY <3>1, <3>3, <3>4 DEF KeptIsStored
    <3> QED
      BY <3>2, <3>5 DEF Progress
  <2>7. CASE UNCHANGED vars
    BY <2>7 DEF vars, KeptIsStored, Progress, IsIdle, Mqtt
  <2> QED
    BY <2>1, <2>2, <2>3, <2>4, <2>5, <2>6, <2>7 DEF Next
<1>3. DurableInv => KeptIsStored
  BY DEF DurableInv
<1> QED
  BY <1>1, <1>2, <1>3, TypeCorrect, PTL DEF Spec

-----------------------------------------------------------------------------
(***************************************************************************)
(* The table.  For a caller that adds and clears, every slot but the one   *)
(* in flight and those that init() did not see has the same occupancy in   *)
(* the bitset and in the flash; the one in flight already has in the flash *)
(* what its bit is going to say.                                           *)
(***************************************************************************)
Flying == Mqtt.pc \in {"load", "store"}
Agrees(s) == s \in map <=> flash[IdOf(s)] # Empty

Mirror ==
    /\ \A s \in Slots : Agrees(s) \/ s \in unseen \/ (Flying /\ s = Mqtt.slot)
    /\ \A s \in unseen : /\ s \notin map /\ flash[IdOf(s)] # Empty
                         /\ ~(Flying /\ s = Mqtt.slot)
    /\ Mqtt.op # "delete"
    /\ Mqtt.pc \in {"test", "flash", "load", "store"} => Mqtt.op \in {"write", "clear"}
    /\ Busy("write") => Mqtt.rule \in Rule
    /\ Mqtt.pc = "store" => Mqtt.word = map
    /\ Mqtt.op = "write" /\ Mqtt.pc \in {"flash", "load", "store"} =>
          Mqtt.slot \notin map
    /\ Flying /\ Mqtt.op = "write" => flash[IdOf(Mqtt.slot)] = Mqtt.rule
    /\ Flying /\ Mqtt.op = "clear" => flash[IdOf(Mqtt.slot)] = Empty

TableInv == TypeOK /\ IsIdle("app") /\ Mirror

TableNext == [Table!Next]_<<Holds(map), Holds(unseen), Adding, Busy("clear")>>

\* What the variables of the table are made of, before and after a step.
LEMMA TableVars ==
    ASSUME TableInv, TypeOK'
    PROVE  /\ "mqtt" \in Threads /\ "app" \in Threads
           /\ call \in [Threads -> CallRecord] /\ call' \in [Threads -> CallRecord]
           /\ Mqtt \in CallRecord /\ Mqtt.slot \in Slots
           /\ flash \in [Ids -> Rule \cup {Empty}]
           /\ map \subseteq Slots /\ unseen \subseteq Slots
BY DEF TableInv, TypeOK, StoreTypeOK, Threads, Mqtt, CallRecord

\* A step that leaves the flash alone leaves the slots that were not seen.
LEMMA SameFlash ==
    ASSUME NEW t \in Threads, Step(t), flash' = flash
    PROVE  unseen' = unseen
BY DEF Step

\* A step that changes neither the flash nor the two sets of slots.
LEMMA SameTable ==
    ASSUME map' = map, unseen' = unseen, flash' = flash
    PROVE  Holds(map)' = Holds(map) /\ Holds(unseen)' = Holds(unseen)
BY DEF Holds

\* A step that changes the entry of slot s to another one, or erases it.
LEMMA OneEntry ==
    ASSUME TableInv, TypeOK', NEW t \in Threads, Step(t), NEW s \in Slots,
           NEW r \in Rule \cup {Empty}, flash' = [flash EXCEPT ![IdOf(s)] = r],
           flash[IdOf(s)] # r \/ r = Empty
    PROVE  /\ \A u \in Slots : u # s => flash'[IdOf(u)] = flash[IdOf(u)]
           /\ flash'[IdOf(s)] = r
           /\ unseen' = unseen \ {s}
           /\ Holds(unseen)' = [Holds(unseen) EXCEPT ![s] = Empty]
<1>1. /\ \A u \in Slots : u # s => flash'[IdOf(u)] = flash[IdOf(u)]
      /\ flash'[IdOf(s)] = r
  BY TableVars, IdsApart
<1>2. s \in unseen => flash'[IdOf(s)] # flash[IdOf(s)]
  BY <1>1 DEF TableInv, Mirror
<1>3. unseen' = unseen \ {s}
  BY <1>1, <1>2, TableVars DEF Step
<1> QED
  BY <1>1, <1>3, TableVars DEF Holds

\* TestSlot: the slot is skipped or is going to be written; the table stays.
LEMMA TableTest ==
    ASSUME TableInv, TypeOK', Step("mqtt"), TestSlot("mqtt")
    PROVE  Mirror' /\ IsIdle("app")' /\ TableNext
<1>1. /\ Mqtt.op = "write" /\ Mqtt.pc = "test" /\ map' = map /\ flash' = flash
      /\ unseen' = unseen
  BY TableVars, SameFlash DEF TestSlot, Mqtt
<1>2. /\ IsIdle("app")' /\ Mqtt'.op = "write" /\ Mqtt'.rule = Mqtt.rule
      /\ \/ Mqtt'.pc \in {"test", "return"}
         \/ Mqtt'.pc = "flash" /\ Mqtt'.slot \notin map
  BY <1>1, TableVars, MoveEffects DEF TableInv, TestSlot, TryNext, IsIdle, Mqtt
<1>3. Mirror'
  BY <1>1, <1>2 DEF TableInv, Mirror, Agrees, Flying, Busy, Mqtt
<1>4. TableNext
  BY <1>1, <1>2, SameTable
     DEF TableNext, Adding, Busy, Mqtt, Table!Next, Table!End, Table!Over
<1> QED
  BY <1>2, <1>3, <1>4

\* WriteSlot: the entry of a free slot, or nothing.
LEMMA TableWrite ==
    ASSUME TableInv, TypeOK', Step("mqtt"), WriteSlot("mqtt")
    PROVE  Mirror' /\ IsIdle("app")' /\ TableNext
<1> DEFINE s == Mqtt.slot
<1>1. /\ Mqtt.op = "write" /\ Mqtt.pc = "flash" /\ map' = map
      /\ \/ /\ flash[IdOf(s)] # Mqtt.rule
            /\ flash' = [flash EXCEPT ![IdOf(s)] = Mqtt.rule]
            /\ Goto("mqtt", "load", s)
         \/ flash' = flash /\ TryNext("mqtt")
  BY DEF WriteSlot, write_buffer, Mqtt
<1>2. IsIdle("app")' /\ Mqtt'.op = "write" /\ Mqtt'.rule = Mqtt.rule
  BY <1>1, TableVars, MoveEffects DEF TableInv, TryNext, IsIdle, Mqtt
<1>3. /\ s \in Slots /\ s \notin map
      /\ Mqtt.rule \in Rule /\ Mqtt.rule # Empty
  BY <1>1, TableVars, EmptyAssumption DEF TableInv, Mirror, Busy, Mqtt
<1>4. CASE flash' = flash /\ TryNext("mqtt")
  <2>1. unseen' = unseen /\ Mqtt'.pc \in {"test", "return"}
    BY <1>4, TableVars, SameFlash, MoveEffects DEF TryNext, Mqtt
  <2>2. Mirror'
    BY <1>1, <1>2, <1>4, <2>1 DEF TableInv, Mirror, Agrees, Flying, Busy, Mqtt
  <2>3. TableNext
    BY <1>1, <1>2, <1>4, <2>1, SameTable
       DEF TableNext, Adding, Busy, Mqtt, Table!Next, Table!End, Table!Over
  <2> QED
    BY <1>2, <2>2, <2>3
<1>5. CASE /\ flash[IdOf(s)] # Mqtt.rule
           /\ flash' = [flash EXCEPT ![IdOf(s)] = Mqtt.rule]
           /\ Goto("mqtt", "load", s)
  <2>1. Mqtt'.pc = "load" /\ Mqtt'.slot = s
    BY <1>5, TableVars, MoveEffects DEF Mqtt
  <2>2. /\ \A u \in Slots : u # s => flash'[IdOf(u)] = flash[IdOf(u)]
        /\ flash'[IdOf(s)] = Mqtt.rule
        /\ unseen' = unseen \ {s}
        /\ Holds(unseen)' = [Holds(unseen) EXCEPT ![s] = Empty]
    BY <1>3, <1>5, TableVars, OneEntry
  <2>3. Holds(map)' = Holds(map)
    BY <1>1, <1>3, <2>2, TableVars DEF Holds
  <2>4. \A u \in Slots : (Agrees(u) \/ u \in unseen \/ (Flying /\ u = Mqtt.slot))'
    BY <1>1, <2>1, <2>2 DEF TableInv, Mirror, Agrees, Flying
  <2>5. Mirror'
    BY <1>1, <1>2, <1>3, <2>1, <2>2, <2>4, TableVars DEF TableInv, Mirror, Flying, Busy, Mqtt
  <2>6. Table!Overwrite
    BY <1>1, <1>2, <1>3, <2>1, <2>2, <2>3 DEF Adding, Busy, Mqtt, Table!Overwrite
  <2> QED
    BY <1>2, <2>5, <2>6 DEF TableNext, Table!Next
<1> QED
  BY <1>1, <1>4, <1>5

\* WipeSlot: a slot of the table is emptied, or the clear ends.
LEMMA TableWipe ==
    ASSUME TableInv, TypeOK', Step("mqtt"), WipeSlot("mqtt")
    PROVE  Mirror' /\ IsIdle("app")' /\ TableNext
<1> DEFINE s == Mqtt.slot
<1>1. /\ Mqtt.op = "clear" /\ Mqtt.pc = "flash" /\ map' = map
      /\ \/ flash' = [flash EXCEPT ![IdOf(s)] = Empty] /\ Goto("mqtt", "load", s)
         \/ flash' = flash /\ Reply("mqtt", -1)
  BY DEF WipeSlot, delete_data, Mqtt
<1>2. IsIdle("app")' /\ Mqtt'.op = "clear"
  BY <1>1, TableVars, MoveEffects DEF TableInv, IsIdle, Mqtt
<1>3. \/ flash' = [flash EXCEPT ![IdOf(s)] = Empty] /\ Mqtt'.pc = "load" /\ Mqtt'.slot = s
      \/ flash' = flash /\ Mqtt'.pc = "return"
  BY <1>1, TableVars, MoveEffects DEF Mqtt
<1>4. CASE flash' = flash /\ Mqtt'.pc = "return"
  <2>1. unseen' = unseen
    BY <1>4, TableVars, SameFlash
  <2>2. Mirror'
    BY <1>1, <1>2, <1>4, <2>1 DEF TableInv, Mirror, Agrees, Flying, Busy, Mqtt
  <2>3. TableNext
    BY <1>1, <1>2, <1>4, <2>1, SameTable
       DEF TableNext, Adding, Busy, Mqtt, Table!Next, Table!End, Table!Over
  <2> QED
    BY <1>2, <2>2, <2>3
<1>5. CASE flash' = [flash EXCEPT ![IdOf(s)] = Empty] /\ Mqtt'.pc = "load" /\ Mqtt'.slot = s
  <2>1. /\ \A u \in Slots : u # s => flash'[IdOf(u)] = flash[IdOf(u)]
        /\ flash'[IdOf(s)] = Empty
        /\ unseen' = unseen \ {s}
        /\ Holds(unseen)' = [Holds(unseen) EXCEPT ![s] = Empty]
    BY <1>5, TableVars, OneEntry
  <2>2. Holds(map)' = [Holds(map) EXCEPT ![s] = Empty]
    BY <1>1, <2>1, TableVars DEF Holds
  <2>3. \A u \in Slots : (Agrees(u) \/ u \in unseen \/ (Flying /\ u = Mqtt.slot))'
    BY <1>1, <1>5, <2>1 DEF TableInv, Mirror, Agrees, Flying
  <2>4. Mirror'
    BY <1>1, <1>2, <1>5, <2>1, <2>3, TableVars DEF TableInv, Mirror, Flying, Busy, Mqtt
  <2>5. Table!Erase
    BY <1>1, <1>2, <1>5, <2>1, <2>2, TableVars DEF Adding, Busy, Mqtt, Table!Erase
  <2> QED
    BY <1>2, <2>4, <2>5 DEF TableNext, Table!Next
<1> QED
  BY <1>3, <1>4, <1>5

\* StoreWord: the bit that makes a rule part of the table, or that of a slot
\* that is already empty.
LEMMA TableStore ==
    ASSUME TableInv, TypeOK', Step("mqtt"), StoreWord("mqtt")
    PROVE  Mirror' /\ IsIdle("app")' /\ TableNext
<1> DEFINE s == Mqtt.slot
<1>1. /\ Mqtt.pc = "store" /\ Mqtt.word = map /\ flash' = flash /\ unseen' = unseen
      /\ Mqtt.op \in {"write", "clear"} /\ s \notin unseen
  BY TableVars, SameFlash DEF StoreWord, Mqtt, TableInv, Mirror, Flying
<1>2. IsIdle("app")' /\ Mqtt'.op = Mqtt.op
  BY <1>1, TableVars, MoveEffects DEF TableInv, StoreWord, IsIdle, Mqtt
<1>3. Holds(unseen)' = Holds(unseen)
  BY <1>1 DEF Holds
<1>4. CASE Mqtt.op = "write"
  <2>1. map' = map \cup {s} /\ Mqtt'.pc = "return"
    BY <1>1, <1>4, TableVars, MoveEffects DEF StoreWord, Stored, Mqtt
  <2>2. flash[IdOf(s)] = Mqtt.rule /\ s \notin map /\ Mqtt.rule \in Rule /\ Mqtt.rule # Empty
    BY <1>1, <1>4, EmptyAssumption DEF TableInv, Mirror, Flying, Busy, Mqtt
  <2>3. Mirror'
    BY <1>1, <1>2, <1>4, <2>1, <2>2 DEF TableInv, Mirror, Agrees, Flying, Busy, Mqtt
  <2>4. /\ Holds(map)[s] = Empty /\ Holds(unseen)[s] = Empty
        /\ Holds(map)' = [Holds(map) EXCEPT ![s] = Mqtt.rule]
    BY <1>1, <2>1, <2>2, TableVars DEF Holds
  <2>. QED
    BY <1>1, <1>2, <1>3, <1>4, <2>1, <2>2, <2>3, <2>4, TableVars
       DEF TableNext, Adding, Busy, Mqtt, Table!Next, Table!Add, Table!Free, Table!Over
<1>5. CASE Mqtt.op = "clear"
  <2>1. map' = map \ {s} /\ Mqtt'.pc \in {"flash", "return"}
    BY <1>1, <1>5, TableVars, MoveEffects DEF StoreWord, Stored, Mqtt
  <2>2. flash[IdOf(s)] = Empty
    BY <1>1, <1>5 DEF TableInv, Mirror, Flying
  <2>3. Mirror'
    BY <1>1, <1>2, <1>5, <2>1, <2>2 DEF TableInv, Mirror, Agrees, Flying, Busy, Mqtt
  <2>4. Holds(map)' = Holds(map)
    BY <1>1, <2>1, <2>2 DEF Holds
  <2>. QED
    BY <1>1, <1>2, <1>3, <1>5, <2>1, <2>3, <2>4
       DEF TableNext, Adding, Busy, Mqtt, Table!Next, Table!End, Table!Over
<1>. QED BY <1>1, <1>4, <1>5

\* A step of the call in progress (SchedulerRules::write_rule, clear_rules).
LEMMA TableStep ==
    ASSUME TableInv, TypeOK', NEW t \in Threads, Step(t)
    PROVE  Mirror' /\ IsIdle("app")' /\ TableNext
<1>0. t = "mqtt"
  BY DEF TableInv, Threads, IsIdle, Step, StoreStep, TestSlot, WriteSlot, DeleteSlot,
         WipeSlot, LoadWord, StoreWord
<1>1. CASE LoadWord(t)
  <2>1. /\ Mqtt.pc = "load" /\ map' = map /\ flash' = flash /\ unseen' = unseen
        /\ Mqtt'.pc = "store" /\ Mqtt'.word = map /\ Mqtt'.slot = Mqtt.slot
        /\ Mqtt'.rule = Mqtt.rule /\ Mqtt'.op = Mqtt.op /\ IsIdle("app")'
    BY <1>0, <1>1, TableVars, SameFlash
       DEF TableInv, LoadWord, IsIdle, Mqtt, CallRecord
  <2>2. Mirror'
    BY <2>1 DEF TableInv, Mirror, Agrees, Flying, Busy, Mqtt
  <2>. QED BY <2>1, <2>2, SameTable DEF TableNext, Adding, Busy, Mqtt
<1>2. ~DeleteSlot(t)
  BY <1>0 DEF DeleteSlot, TableInv, Mirror, Mqtt
<1>. QED
  BY <1>0, <1>1, <1>2, TableTest, TableWrite, TableWipe, TableStore DEF Step, StoreStep

\* The caller begins or ends a call.
LEMMA TableCalls ==
    ASSUME TableInv, TypeOK', map' = map, flash' = flash, unseen' = unseen, IsIdle("app")',
           \/ /\ Mqtt.pc = "idle"
              /\ \/ Mqtt'.op = "write" /\ Mqtt'.pc = "test" /\ Mqtt'.rule \in Rule
                 \/ Mqtt'.op = "clear" /\ Mqtt'.pc = "flash"
                 \/ Mqtt'.op = "write" /\ Mqtt'.pc = "return"
           \/ Mqtt.pc = "return" /\ Mqtt'.op = "none" /\ Mqtt'.pc = "idle"
    PROVE  Mirror' /\ TableNext
<1>1. Mirror'
  BY DEF TableInv, Mirror, Agrees, Flying, Busy, Mqtt
<1>2. Adding = Empty /\ Busy("clear") = FALSE
  BY DEF Adding, Busy, Mqtt
<1>. QED
  BY <1>1, <1>2, SameTable DEF TableNext, Adding, Busy, Mqtt, Table!Next, Table!Ask

\* What the table shows after a restart: the entries of the flash, less those
\* whose bit was not set again.
LEMMA TableShows ==
    ASSUME TypeOK, Restart
    PROVE  Table!Shows([s \in Slots |-> flash[IdOf(s)]])
<1> DEFINE all == [s \in Slots |-> flash[IdOf(s)]]
<1>1. /\ flash' = flash /\ map' \in InitMaps /\ unseen' = Occupied \ map'
  BY DEF Restart, RestartStore
<1>2. map' \subseteq Slots /\ map' \subseteq Occupied
  BY <1>1, Rebuilt DEF Occupied
<1>3. \A s \in Slots : s \notin Occupied => all[s] = Empty
  BY DEF Occupied
<1>4. /\ Holds(map)' = [s \in Slots |-> IF s \in map' THEN all[s] ELSE Empty]
      /\ Holds(unseen)' = [s \in Slots |-> IF s \in map' THEN Empty ELSE all[s]]
  BY <1>1, <1>3 DEF Holds
<1>5. CASE "length" \in Faults
  BY <1>2, <1>4, <1>5 DEF Table!Shows
<1>6. CASE "length" \notin Faults
  <2>1. map' = Occupied
    BY <1>1, <1>6, Rebuilt
  <2>2. /\ Holds(map)' = [s \in Slots |-> IF s \in Slots THEN all[s] ELSE Empty]
        /\ Holds(unseen)' = [s \in Slots |-> IF s \in Slots THEN Empty ELSE all[s]]
    BY <1>3, <1>4, <2>1
  <2> QED
    BY <1>6, <2>2 DEF Table!Shows
<1> QED
  BY <1>5, <1>6

\* A restart: the slot in flight is rebuilt from what its flash entry says.
LEMMA TableRestart ==
    ASSUME TableInv, TypeOK', Restart PROVE Mirror' /\ IsIdle("app")' /\ TableNext
<1> DEFINE all == [s \in Slots |-> flash[IdOf(s)]]
<1>1. /\ flash' = flash /\ map' \in InitMaps /\ unseen' = Occupied \ map'
      /\ call'["app"] = Idle /\ call'["mqtt"] = Idle
  BY TableVars DEF Restart, RestartStore
<1>2. IsIdle("app")' /\ Mqtt'.pc = "idle" /\ Mqtt'.op = "none"
  BY <1>1 DEF IsIdle, Idle, Mqtt
<1>3. map' \subseteq Occupied
  BY <1>1, Rebuilt
<1>4. Mirror'
  BY <1>1, <1>2, <1>3 DEF Mirror, Agrees, Flying, Busy, Mqtt, Occupied
<1>5. Adding' = Empty /\ Busy("clear")' = FALSE
  BY <1>2 DEF Adding, Busy, Mqtt
<1>6. Table!Shows(all)
  BY TableShows DEF TableInv
<1>7. \A s \in Slots : s \in unseen => s \notin map /\ flash[IdOf(s)] # Empty
  BY DEF TableInv, Mirror
<1>8. Table!Stored = [s \in Slots |-> IF s \in map \cup unseen THEN flash[IdOf(s)] ELSE Empty]
  BY <1>7 DEF Table!Stored, Holds
<1>9. CASE Flying /\ Mqtt.op = "write"
  <2> DEFINE p == Mqtt.slot
  <2>1. /\ p \in Slots /\ flash[IdOf(p)] = Mqtt.rule /\ p \notin map /\ p \notin unseen
        /\ Mqtt.rule # Empty /\ Adding = Mqtt.rule
    BY <1>9, EmptyAssumption, TableVars DEF TableInv, Mirror, Flying, Busy, Adding, Mqtt
  <2>2. Table!Free(p)
    BY <2>1 DEF Table!Free, Holds
  <2>3. all = [Table!Stored EXCEPT ![p] = Adding]
    BY <1>8, <2>1, TableVars DEF TableInv, Mirror, Agrees
  <2>. QED
    BY <1>2, <1>4, <1>5, <1>6, <2>1, <2>2, <2>3
       DEF TableNext, Table!Next, Table!PowerLoss, Table!Over
<1>10. CASE ~(Flying /\ Mqtt.op = "write")
  <2>1. all = Table!Stored
    <3> SUFFICES ASSUME NEW s \in Slots, s \notin map \cup unseen
                 PROVE  flash[IdOf(s)] = Empty
      BY <1>8
    <3> QED
      BY <1>10 DEF TableInv, Mirror, Agrees, Flying
  <2>. QED
    BY <1>2, <1>4, <1>5, <1>6, <2>1 DEF TableNext, Table!Next, Table!PowerLoss, Table!Over
<1>. QED BY <1>9, <1>10

\* Every step of the store keeps the invariant and is a step of the table.
LEMMA TableSteps ==
    ASSUME AddsAndClears, TableInv, TypeOK', [Next]_vars
    PROVE  Mirror' /\ IsIdle("app")' /\ TableNext
<1>1. CASE \E r \in Rule : AddRule(r)
  <2> PICK r \in Rule : AddRule(r)
    BY <1>1
  <2>1. /\ flash' = flash /\ map' = map /\ unseen' = unseen
        /\ Mqtt.pc = "idle" /\ IsIdle("app")' /\ Mqtt'.op = "write"
        /\ Mqtt'.pc = "return" \/ (Mqtt'.pc = "test" /\ Mqtt'.rule = r)
    BY TableVars, MoveEffects DEF TableInv, AddRule, CallWrite, IsIdle, Mqtt
  <2>. QED BY <2>1, TableCalls
<1>2. CASE \E t \in Threads : \E s \in Removals[t] : RemoveRule(t, s)
  BY <1>2 DEF AddsAndClears, OneCarefulCaller, Threads
<1>3. CASE \E t \in Clearers : ClearRules(t)
  <2>1. ClearRules("mqtt")
    BY <1>3 DEF AddsAndClears, OneCarefulCaller
  <2>2. /\ flash' = flash /\ map' = map /\ unseen' = unseen
        /\ Mqtt.pc = "idle" /\ IsIdle("app")' /\ Mqtt'.op = "clear" /\ Mqtt'.pc = "flash"
    BY <2>1, TableVars, MoveEffects DEF TableInv, ClearRules, CallClear, IsIdle, Mqtt
  <2>. QED BY <2>2, TableCalls
<1>4. CASE \E t \in Threads : Step(t)
  BY <1>4, TableStep
<1>5. CASE \E t \in Threads : Return(t)
  <2>1. /\ flash' = flash /\ map' = map /\ unseen' = unseen
        /\ Mqtt.pc = "return" /\ IsIdle("app")' /\ Mqtt'.pc = "idle" /\ Mqtt'.op = "none"
    BY <1>5, TableVars DEF TableInv, Return, Finish, IsIdle, Idle, Mqtt, Threads
  <2>. QED BY <2>1, TableCalls
<1>6. CASE Restart
  BY <1>6, TableRestart
<1>7. CASE UNCHANGED vars
  BY <1>7 DEF vars, TableInv, Mirror, Agrees, Flying, Busy, IsIdle, Mqtt, TableNext,
              Holds, Adding
<1>. QED BY <1>1, <1>2, <1>3, <1>4, <1>5, <1>6, <1>7 DEF Next

\* The empty store.
LEMMA TableInit == Init => TableInv /\ Table!Init
<1> SUFFICES ASSUME Init PROVE TableInv /\ Table!Init
  OBVIOUS
<1>1. TypeOK
  BY StoreInitType, CallersAssumption DEF Init, TypeOK
<1>2. /\ call["app"] = Idle /\ call["mqtt"] = Idle /\ map = {} /\ unseen = {}
      /\ flash = [id \in Ids |-> Empty]
  BY StoreStarts DEF Init, Threads
<1>3. Mirror /\ IsIdle("app")
  BY <1>2, IdsApart DEF Mirror, Agrees, Flying, Busy, Mqtt, Idle, IsIdle
<1>. QED
  BY <1>1, <1>2, <1>3
     DEF TableInv, Table!Init, Table!Blank, Holds, Adding, Busy, Idle

\* The invariant of the refinement, for every reachable state.
THEOREM TableInvariant == ASSUME AddsAndClears PROVE Spec => []TableInv
<1>1. TableInv /\ TypeOK' /\ [Next]_vars => TableInv'
  BY AddsAndClears, TableSteps DEF TableInv
<1>. QED BY <1>1, TableInit, TypeCorrect, PTL DEF Spec

\* A caller that adds and clears has a table whose slots change one at a time,
\* from which a loss of power may hide a rule whose length cannot be read, and
\* takes none otherwise: RuleStore implements RuleTable, for any number of
\* slots, flash faults and restarts (SchedulerRules::write_rule, clear_rules,
\* init).
THEOREM Implements == ASSUME AddsAndClears PROVE Spec => IsTable
<1>1. TableInv /\ TypeOK' /\ [Next]_vars => TableNext
  BY AddsAndClears, TableSteps
<1>. QED
  BY <1>1, TableInit, TypeCorrect, TableInvariant, PTL
     DEF Spec, IsTable, TableNext, Table!Spec, Table!tableVars

\* The bitset and the flash agree but on the slot in flight and on those that
\* init() did not see: what a restart rebuilds from the rest is what the store
\* already believes.
THEOREM Mirrors == ASSUME AddsAndClears PROVE Spec => []IndexMirrorsFlash
<1>1. TableInv => IndexMirrorsFlash
  <2> SUFFICES ASSUME TableInv, NEW s \in Slots, s \notin InFlight
               PROVE  /\ s \in map => s \in Occupied
                      /\ s \in Occupied => s \in map \/ s \in unseen
    BY DEF IndexMirrorsFlash, Occupied, TableInv, TypeOK, StoreTypeOK
  <2>1. ~(Flying /\ s = Mqtt.slot)
    BY DEF InFlight, Flying, Mqtt, Threads
  <2>. QED BY <2>1 DEF TableInv, Mirror, Agrees, Occupied
<1>. QED BY <1>1, TableInvariant, PTL

-----------------------------------------------------------------------------
(***************************************************************************)
(* Refusals.  The loop of write_rule passes over a slot because its bit is *)
(* set or, when flash accepts every write, because the slot already holds  *)
(* the rule without its bit, which only init() leaves behind.              *)
(***************************************************************************)
Passed == Mqtt.op = "write" /\ Mqtt.pc \in {"test", "flash"} =>
              \A i \in Slots : i < Mqtt.slot => i \in map \cup unseen

FullInv == Passed /\ RefusedOnlyWhenFull

\* As many bits as slots are all of them.
LEMMA FullMap == ASSUME map \subseteq Slots, IsFull PROVE map = Slots
<1>1. IsFiniteSet(Slots) /\ Cardinality(Slots) = MaxRules
  BY FS_Interval, SizeAssumption DEF Slots
<1>2. /\ IsFiniteSet(map) /\ Cardinality(map) <= MaxRules
      /\ Cardinality(map) = MaxRules => map = Slots
  BY <1>1, FS_Subset
<1> QED
  BY <1>1, <1>2, FS_CardinalityType, SizeAssumption DEF IsFull

\* The loop goes on past a slot that is taken.
LEMMA FullNext ==
    ASSUME TableInv, TypeOK', FullInv, IsIdle("app")', TryNext("mqtt"),
           map' = map, unseen' = unseen,
           Mqtt.op = "write", Mqtt.pc \in {"test", "flash"},
           Mqtt.slot \in map \cup unseen
    PROVE  FullInv'
<1>1. /\ Mqtt.slot \in Slots /\ map \cup unseen \subseteq Slots
      /\ call'["app"].pc = "idle"
  BY TableVars DEF IsIdle
<1>2. \A i \in Slots : i <= Mqtt.slot => i \in map \cup unseen
  BY <1>1, SizeAssumption DEF FullInv, Passed, Slots
<1>3. CASE IsLast(Mqtt.slot)
  <2>1. Mqtt'.pc = "return"
    BY <1>3, TableVars, MoveEffects DEF TryNext, Mqtt
  <2>2. map \cup unseen = Slots
    BY <1>1, <1>2, <1>3, SizeAssumption DEF IsLast, Slots
  <2> QED
    BY <2>1, <2>2 DEF FullInv, Passed, RefusedOnlyWhenFull
<1>4. CASE ~IsLast(Mqtt.slot)
  <2>1. Mqtt'.pc = "test" /\ Mqtt'.slot = Mqtt.slot + 1
    BY <1>4, TableVars, MoveEffects DEF TryNext, Mqtt
  <2>2. \A i \in Slots : i < Mqtt'.slot => i \in map \cup unseen
    BY <1>1, <1>2, <2>1, SizeAssumption DEF Slots
  <2> QED
    BY <1>1, <2>1, <2>2 DEF FullInv, Passed, RefusedOnlyWhenFull, Threads, Mqtt
<1> QED
  BY <1>3, <1>4

\* A step of the call in progress.
LEMMA FullStep ==
    ASSUME "write" \notin Faults, TableInv, TypeOK', FullInv,
           NEW t \in Threads, Step(t)
    PROVE  FullInv'
<1>0. t = "mqtt" /\ IsIdle("app")'
  BY TableStep
     DEF TableInv, Threads, IsIdle, Step, StoreStep, TestSlot, WriteSlot, DeleteSlot,
         WipeSlot, LoadWord, StoreWord
<1>1. ~(call'["app"].pc = "return")
  BY <1>0 DEF IsIdle
<1>2. CASE TestSlot(t)
  <2>1. /\ Mqtt.op = "write" /\ Mqtt.pc = "test" /\ map' = map /\ unseen' = unseen
    BY <1>0, <1>2, SameFlash DEF TestSlot, Mqtt
  <2>2. CASE Mqtt.slot \in map
    BY <1>0, <1>2, <2>1, <2>2, FullNext DEF TestSlot, Mqtt
  <2>3. CASE Mqtt.slot \notin map
    <3>1. Mqtt'.pc = "flash" /\ Mqtt'.slot = Mqtt.slot
      BY <1>0, <1>2, <2>3, TableVars, MoveEffects DEF TestSlot, Mqtt
    <3> QED
      BY <1>1, <2>1, <3>1 DEF FullInv, Passed, RefusedOnlyWhenFull, Threads, Mqtt
  <2> QED
    BY <2>2, <2>3
<1>3. CASE WriteSlot(t)
  <2>1. /\ Mqtt.op = "write" /\ Mqtt.pc = "flash" /\ map' = map
        /\ \/ Goto("mqtt", "load", Mqtt.slot)
           \/ flash[IdOf(Mqtt.slot)] = Mqtt.rule /\ TryNext("mqtt") /\ flash' = flash
    BY <1>0, <1>3 DEF WriteSlot, Mqtt
  <2>2. CASE Goto("mqtt", "load", Mqtt.slot)
    <3>1. Mqtt'.pc = "load"
      BY <2>2, TableVars, MoveEffects DEF Mqtt
    <3> QED
      BY <1>1, <3>1 DEF FullInv, Passed, RefusedOnlyWhenFull, Threads, Mqtt
  <2>3. CASE flash[IdOf(Mqtt.slot)] = Mqtt.rule /\ TryNext("mqtt") /\ flash' = flash
    <3>1. unseen' = unseen
      BY <2>3, SameFlash
    <3>2. Mqtt.slot \in unseen
      BY <2>1, <2>3, EmptyAssumption, TableVars
         DEF TableInv, Mirror, Agrees, Flying, Busy, Mqtt
    <3> QED
      BY <1>0, <2>1, <2>3, <3>1, <3>2, FullNext
  <2> QED
    BY <2>1, <2>2, <2>3
<1>4. CASE WipeSlot(t)
  <2>1. Mqtt'.op = "clear"
    BY <1>0, <1>4, TableVars, MoveEffects DEF WipeSlot, Mqtt
  <2> QED
    BY <1>1, <2>1 DEF FullInv, Passed, RefusedOnlyWhenFull, Threads, Mqtt
<1>5. CASE LoadWord(t)
  <2>1. Mqtt'.pc = "store"
    BY <1>0, <1>5, TableVars DEF LoadWord, Mqtt, CallRecord
  <2> QED
    BY <1>1, <2>1 DEF FullInv, Passed, RefusedOnlyWhenFull, Threads, Mqtt
<1>6. CASE StoreWord(t)
  <2>1. Mqtt.pc = "store" /\ Mqtt.op \in {"write", "clear"}
    BY <1>0, <1>6 DEF StoreWord, Mqtt, TableInv, Mirror
  <2>2. Mqtt'.op = "clear" \/ (Mqtt'.pc = "return" /\ Mqtt'.ret = 1)
    BY <1>0, <1>6, <2>1, TableVars, MoveEffects DEF StoreWord, Mqtt
  <2> QED
    BY <1>1, <2>2 DEF FullInv, Passed, RefusedOnlyWhenFull, Threads, Mqtt
<1>7. ~DeleteSlot(t)
  BY <1>0 DEF DeleteSlot, TableInv, Mirror, Mqtt
<1> QED
  BY <1>2, <1>3, <1>4, <1>5, <1>6, <1>7 DEF Step, StoreStep

\* Every step.
LEMMA FullSteps ==
    ASSUME AddsAndClears, "write" \notin Faults, TableInv, TypeOK', FullInv, [Next]_vars
    PROVE  FullInv'
<1>0. IsIdle("app")'
  BY TableSteps
<1>1. CASE \E r \in Rule : AddRule(r)
  <2> PICK r \in Rule : AddRule(r)
    BY <1>1
  <2>1. map' = map /\ unseen' = unseen /\ map \subseteq Slots /\ unseen \subseteq Slots
    BY TableVars DEF AddRule, CallWrite
  <2>2. CASE IsFull
    <3>1. Mqtt'.pc = "return"
      BY <2>2, TableVars, MoveEffects DEF AddRule, CallWrite, Mqtt
    <3> QED
      BY <2>1, <2>2, <3>1, FullMap DEF FullInv, Passed, RefusedOnlyWhenFull
  <2>3. CASE ~IsFull
    <3>1. Mqtt'.pc = "test" /\ Mqtt'.slot = 0
      BY <2>3, TableVars, MoveEffects DEF AddRule, CallWrite, Mqtt
    <3>2. \A i \in Slots : ~(i < 0)
      BY SizeAssumption DEF Slots
    <3> QED
      BY <1>0, <3>1, <3>2 DEF FullInv, Passed, RefusedOnlyWhenFull, Threads, IsIdle, Mqtt
  <2> QED
    BY <2>2, <2>3
<1>2. CASE \E t \in Threads : \E s \in Removals[t] : RemoveRule(t, s)
  BY <1>2 DEF AddsAndClears, OneCarefulCaller, Threads
<1>3. CASE \E t \in Clearers : ClearRules(t)
  <2>1. Mqtt'.op = "clear"
    BY <1>3, TableVars, MoveEffects
       DEF AddsAndClears, OneCarefulCaller, ClearRules, CallClear, Mqtt
  <2> QED
    BY <1>0, <2>1 DEF FullInv, Passed, RefusedOnlyWhenFull, Threads, IsIdle, Mqtt
<1>4. CASE \E t \in Threads : Step(t)
  BY <1>4, FullStep
<1>5. CASE (\E t \in Threads : Return(t)) \/ Restart
  <2>1. Mqtt'.pc = "idle"
    BY <1>5, TableVars
       DEF TableInv, Return, Finish, Restart, RestartStore, IsIdle, Idle, Mqtt, Threads
  <2> QED
    BY <1>0, <2>1 DEF FullInv, Passed, RefusedOnlyWhenFull, Threads, IsIdle, Mqtt
<1>6. CASE UNCHANGED vars
  BY <1>6 DEF vars, FullInv, Passed, RefusedOnlyWhenFull, Mqtt
<1> QED
  BY <1>1, <1>2, <1>3, <1>4, <1>5, <1>6 DEF Next

\* write_rule refuses a rule for lack of room only (SchedulerRules.cpp:31), when
\* one caller adds and clears and flash accepts writes, for any number of slots,
\* failed deletions, unreadable lengths and restarts; a rule that init() did not
\* see takes room all the same.
THEOREM RefusesWhenFull ==
    ASSUME AddsAndClears, "write" \notin Faults PROVE Spec => []RefusedOnlyWhenFull
<1>1. Init => FullInv
  <2> SUFFICES ASSUME Init PROVE FullInv
    OBVIOUS
  <2>1. call["app"] = Idle /\ call["mqtt"] = Idle
    BY StoreStarts DEF Init, Threads
  <2> QED
    BY <2>1 DEF FullInv, Passed, RefusedOnlyWhenFull, Mqtt, Idle, Threads
<1>2. TableInv /\ TypeOK' /\ FullInv /\ [Next]_vars => FullInv'
  BY AddsAndClears, "write" \notin Faults, FullSteps
<1>3. FullInv => RefusedOnlyWhenFull
  BY DEF FullInv
<1> QED
  BY <1>1, <1>2, <1>3, TypeCorrect, TableInvariant, PTL DEF Spec
=============================================================================
