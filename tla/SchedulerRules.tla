---------------------------- MODULE SchedulerRules ----------------------------
(***************************************************************************)
(* The rule store of the feeder: class SchedulerRules (the `map' bitset of *)
(* occupied slots) over class Storage (one entry per id in the ZMS flash   *)
(* file system).  Two threads call it with no lock of its own: `app'       *)
(* (Application) and `mqtt' (the MQTT client).  Storage::lock_mutex makes  *)
(* one flash operation atomic, so a flash operation is one step; the       *)
(* read-modify-write of the bitset's word is two steps, a load and a       *)
(* store, between which the other thread may run.                          *)
(*                                                                         *)
(* A caller starts a call with one of the Call actions, finds the result   *)
(* in call[t].ret once call[t].pc is "return", and ends it with Finish.    *)
(***************************************************************************)
EXTENDS Integers, FiniteSets

CONSTANTS
    Rule,         \* the rules a caller may store (struct Rules_t)
    Empty,        \* an id that holds no entry
    MaxRules,     \* CONFIG_MAX_SCHEDULER_RULES
    RuleBase,     \* RULES_ID_BASE, the id of slot 0
    RulesIdEnd,   \* RULES_ID_END, the last id of a rule
    Faults        \* the flash operations that may fail

ASSUME EmptyAssumption == Empty \notin Rule
ASSUME SizeAssumption == /\ MaxRules \in Nat \ {0}
                         /\ RuleBase \in Nat
                         /\ RulesIdEnd \in Nat
ASSUME FaultsAssumption == Faults \subseteq {"write", "delete", "read", "length"}

VARIABLES
    flash,   \* what each ZMS id holds
    map,     \* the set of slots whose bit is set
    call     \* the call each thread is in

storeVars == <<flash, map, call>>

Threads == {"app", "mqtt"}
Slots   == 0 .. MaxRules - 1
IdOf(s) == RuleBase + s
Ids     == 0 .. RuleBase + MaxRules - 1

Idle == [op   |-> "none", pc |-> "idle", slot |-> 0, rule |-> Empty,
         word |-> {}, ret |-> 0]

Points == {"idle", "test", "flash", "load", "store", "return"}

CallRecord == [op   : {"none", "write", "delete", "clear"},
               pc   : Points,
               slot : Slots,
               rule : Rule \cup {Empty},
               word : SUBSET Slots,
               ret  : {-1, 0, 1}]

StoreTypeOK == /\ flash \in [Ids -> Rule \cup {Empty}]
               /\ map \subseteq Slots
               /\ call \in [Threads -> CallRecord]

IsIdle(t) == call[t].pc = "idle"

(***************************************************************************)
(* Storage, on an id that is read, written or deleted.  A write of the     *)
(* data an id already holds answers 0, and not the size: it is no success. *)
(* Deleting an id that holds nothing succeeds.  An id whose length cannot  *)
(* be read is answered to be empty, as is one that holds nothing.          *)
(***************************************************************************)
is_id_empty(id, answer) == IF answer THEN flash[id] = Empty \/ "length" \in Faults
                                     ELSE flash[id] # Empty
write_buffer(id, r) == flash[id] # r /\ flash' = [flash EXCEPT ![id] = r]
delete_data(id)     == flash' = [flash EXCEPT ![id] = Empty]

Occupied == {s \in Slots : flash[IdOf(s)] # Empty}

\* SchedulerRules::init: the bits of the slots whose id is not answered empty.
InitMaps == {m \in SUBSET Slots : \A s \in Slots : is_id_empty(IdOf(s), s \notin m)}

\* A device whose flash holds no rule yet, after init().
StoreInit == /\ flash = [id \in Ids |-> Empty]
             /\ map \in InitMaps
             /\ call = [t \in Threads |-> Idle]

(***************************************************************************)
(* How a call moves: the pc of thread t, and its return with a value.      *)
(***************************************************************************)
Begin(t, op, pc, s, r) ==
    call' = [call EXCEPT ![t] = [Idle EXCEPT !.op = op, !.pc = pc,
                                             !.slot = s, !.rule = r]]
Goto(t, pc, s)  == call' = [call EXCEPT ![t] = [@ EXCEPT !.pc = pc, !.slot = s]]
Reply(t, value) ==
    call' = [call EXCEPT ![t] = [@ EXCEPT !.pc = "return", !.ret = value]]
Refuse(t, op, value) ==
    call' = [call EXCEPT ![t] = [Idle EXCEPT !.op = op, !.pc = "return",
                                             !.ret = value]]
Finish(t) == call' = [call EXCEPT ![t] = Idle]

(***************************************************************************)
(* write_rule: refused when every bit is set, else the slots are tried in  *)
(* order from slot 0.  The bit of a slot is tested; when it is clear the   *)
(* entry is written, and when that does not succeed the loop goes on.      *)
(***************************************************************************)
\* Mutant of IsLast: the loops run one slot too far.
IsLastLate(s) == s = MaxRules
IsLast(s)     == s = MaxRules - 1

\* Mutant of IsFull: one slot is never used.
IsFullEarly == Cardinality(map) >= MaxRules - 1
IsFull      == Cardinality(map) >= MaxRules

CallWrite(t, r) ==
    /\ IsIdle(t)
    /\ IF IsFull THEN Refuse(t, "write", 0)
                 ELSE Begin(t, "write", "test", 0, r)
    /\ UNCHANGED <<flash, map>>

TryNext(t) == IF IsLast(call[t].slot) THEN Reply(t, 0)
                                      ELSE Goto(t, "test", call[t].slot + 1)

\* Mutant of TestSlot: the test of the bit is dropped.
TestSlotUntested(t) ==
    /\ call[t].op = "write" /\ call[t].pc = "test"
    /\ Goto(t, "flash", call[t].slot)
    /\ UNCHANGED <<flash, map>>

TestSlot(t) ==
    /\ call[t].op = "write" /\ call[t].pc = "test"
    /\ IF call[t].slot \in map THEN TryNext(t) ELSE Goto(t, "flash", call[t].slot)
    /\ UNCHANGED <<flash, map>>

WriteSlot(t) ==
    /\ call[t].op = "write" /\ call[t].pc = "flash"
    /\ \/ /\ write_buffer(IdOf(call[t].slot), call[t].rule)
          /\ Goto(t, "load", call[t].slot)
       \/ /\ flash[IdOf(call[t].slot)] = call[t].rule \/ "write" \in Faults
          /\ TryNext(t)
          /\ UNCHANGED flash
    /\ UNCHANGED map

(***************************************************************************)
(* delete_rule: the bit and the id are tested with the slot, but the entry *)
(* erased is the one whose id is the bare slot number.                     *)
(***************************************************************************)
CallDelete(t, s) ==
    /\ IsIdle(t)
    /\ IF s \in map /\ IdOf(s) <= RulesIdEnd THEN Begin(t, "delete", "flash", s, Empty)
                                             ELSE Refuse(t, "delete", -1)
    /\ UNCHANGED <<flash, map>>

ErasedBy(s) == s

DeleteSlot(t) ==
    /\ call[t].op = "delete" /\ call[t].pc = "flash"
    /\ \/ /\ delete_data(ErasedBy(call[t].slot))
          /\ Goto(t, "load", call[t].slot)
       \/ /\ "delete" \in Faults
          /\ Reply(t, -1)
          /\ UNCHANGED flash
    /\ UNCHANGED map

(***************************************************************************)
(* clear_rules: slot after slot, the entry and then the bit; an error      *)
(* leaves the rest as it is.                                               *)
(***************************************************************************)
CallClear(t) ==
    /\ IsIdle(t)
    /\ Begin(t, "clear", "flash", 0, Empty)
    /\ UNCHANGED <<flash, map>>

\* Mutant of WipeSlot: the error of the flash is ignored.
WipeSlotUnchecked(t) ==
    /\ call[t].op = "clear" /\ call[t].pc = "flash"
    /\ \/ delete_data(IdOf(call[t].slot))
       \/ "delete" \in Faults /\ UNCHANGED flash
    /\ Goto(t, "load", call[t].slot)
    /\ UNCHANGED map

WipeSlot(t) ==
    /\ call[t].op = "clear" /\ call[t].pc = "flash"
    /\ \/ /\ delete_data(IdOf(call[t].slot))
          /\ Goto(t, "load", call[t].slot)
       \/ /\ "delete" \in Faults
          /\ Reply(t, -1)
          /\ UNCHANGED flash
    /\ UNCHANGED map

(***************************************************************************)
(* map.set(slot, value): the word is loaded, and stored with one bit       *)
(* changed.                                                                *)
(***************************************************************************)
LoadWord(t) ==
    /\ call[t].pc = "load"
    /\ call' = [call EXCEPT ![t] = [@ EXCEPT !.pc = "store", !.word = map]]
    /\ UNCHANGED <<flash, map>>

Stored(t) == IF call[t].op = "write" THEN call[t].word \cup {call[t].slot}
                                     ELSE call[t].word \ {call[t].slot}

StoreWord(t) ==
    /\ call[t].pc = "store"
    /\ map' = Stored(t)
    /\ CASE call[t].op = "write"  -> Reply(t, 1)
         [] call[t].op = "delete" -> Reply(t, 0)
         [] OTHER -> IF IsLast(call[t].slot)
                     THEN Reply(t, 0)
                     ELSE Goto(t, "flash", call[t].slot + 1)
    /\ UNCHANGED flash

StoreStep(t) == \/ TestSlot(t) \/ WriteSlot(t)
                \/ DeleteSlot(t) \/ WipeSlot(t)
                \/ LoadWord(t) \/ StoreWord(t)

(***************************************************************************)
(* Power is lost and the device starts again: the calls and the bitset are *)
(* gone, the flash stays, init() rebuilds the bitset.                      *)
(***************************************************************************)
RestartStore == /\ map' \in InitMaps
                /\ call' = [t \in Threads |-> Idle]
                /\ UNCHANGED flash
=============================================================================
