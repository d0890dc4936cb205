------------------------------ MODULE RuleStore ------------------------------
(***************************************************************************)
(* The rule store under its callers: the handlers of the MQTT topics add,  *)
(* remove and clear rules, the application removes the rules it executed,  *)
(* and the device may restart between any two steps.                       *)
(***************************************************************************)
EXTENDS SchedulerRules

CONSTANTS
    Removals,     \* the slots each thread may ask delete_rule to remove
    Clearers,     \* the threads that may call clear_rules
    MaxRestarts   \* bound on the restarts

ASSUME CallersAssumption == /\ Removals \in [Threads -> SUBSET Slots]
                            /\ Clearers \subseteq Threads
                            /\ MaxRestarts \in Nat

VARIABLES
    kept,       \* history: the rule the store has accepted for each slot and
                \* that nobody has asked it to remove
    unseen,     \* history: the slots with a rule in flash that the last init()
                \* answered to be empty, the length being unreadable
    restarts    \* the restarts so far

vars == <<flash, map, call, kept, unseen, restarts>>

TypeOK == /\ StoreTypeOK
          /\ kept \in [Slots -> Rule \cup {Empty}]
          /\ unseen \subseteq Slots
          /\ restarts \in 0 .. MaxRestarts

Init == /\ StoreInit
        /\ kept = [s \in Slots |-> Empty]
        /\ unseen = {} /\ restarts = 0

AddRule(r) == CallWrite("mqtt", r) /\ UNCHANGED <<kept, unseen, restarts>>

RemoveRule(t, s) == /\ CallDelete(t, s)
                    /\ kept' = [kept EXCEPT ![s] = Empty]
                    /\ UNCHANGED <<unseen, restarts>>

ClearRules(t) == /\ CallClear(t)
                 /\ kept' = [s \in Slots |-> Empty]
                 /\ UNCHANGED <<unseen, restarts>>

Step(t) == /\ StoreStep(t)
           /\ kept' = IF call[t].pc = "store" /\ call[t].op = "write"
                      THEN [kept EXCEPT ![call[t].slot] = call[t].rule]
                      ELSE kept
           /\ unseen' = {s \in unseen : flash'[IdOf(s)] = flash[IdOf(s)]}
           /\ UNCHANGED restarts

Return(t) == /\ call[t].pc = "return"
             /\ Finish(t)
             /\ UNCHANGED <<flash, map, kept, unseen, restarts>>

\* A rule that init() does not see is given up: its slot counts as free.
Restart == /\ restarts < MaxRestarts
           /\ RestartStore
           /\ restarts' = restarts + 1
           /\ unseen' = Occupied \ map'
           /\ kept' = [s \in Slots |-> IF s \in unseen' THEN Empty ELSE kept[s]]

Next == \/ \E r \in Rule : AddRule(r)
        \/ \E t \in Threads : \E s \in Removals[t] : RemoveRule(t, s)
        \/ \E t \in Clearers : ClearRules(t)
        \/ \E t \in Threads : Step(t) \/ Return(t)
        \/ Restart

Spec == Init /\ [][Next]_vars

-----------------------------------------------------------------------------
(***************************************************************************)
(* The callers for which the store keeps its promise: one thread, and      *)
(* removals whose bare slot number is not itself the id of a rule.         *)
(***************************************************************************)
OneCarefulCaller == /\ Removals["app"] = {} /\ Clearers \subseteq {"mqtt"}
                    /\ Removals["mqtt"] \subseteq 0 .. RuleBase - 1
AddsAndClears == OneCarefulCaller /\ Removals["mqtt"] = {}

(***************************************************************************)
(* Rules are stored persistently: a rule that write_rule accepted and that *)
(* nobody asked to remove keeps its bit and its flash entry, whatever      *)
(* calls, failed writes and deletions and restarts follow; only a restart  *)
(* that cannot read the length of its entry gives it up (see RestartKeeps).*)
(***************************************************************************)
KeptIsStored == \A s \in Slots :
    kept[s] # Empty => s \in map /\ flash[IdOf(s)] = kept[s]

(***************************************************************************)
(* No restart gives up a rule: what init() rebuilds has a bit for every    *)
(* rule that was accepted and that nobody asked to remove.                 *)
(***************************************************************************)
RestartKeeps ==
    [][restarts' # restarts => \A s \in Slots : kept[s] # Empty => s \in map']_vars

\* The slots a call has changed in flash and not yet in the bitset.
InFlight == {call[t].slot : t \in {u \in Threads : call[u].pc \in {"load", "store"}}}

(***************************************************************************)
(* The bitset and the flash agree on which slots are occupied, except on   *)
(* the slot of a call between its flash operation and its bit, and on the  *)
(* slots that the last init() did not see: what a restart would rebuild is *)
(* what the store already believes, but for those.                         *)
(***************************************************************************)
IndexMirrorsFlash == /\ map \subseteq Occupied \cup InFlight
                     /\ Occupied \subseteq map \cup InFlight \cup unseen

(***************************************************************************)
(* write_rule refuses a rule only because every slot is taken ("Could not  *)
(* write due to Rules full"), by a rule that has its bit or by one that    *)
(* init() did not see.                                                     *)
(***************************************************************************)
RefusedOnlyWhenFull == \A t \in Threads :
    call[t].op = "write" /\ call[t].pc = "return" /\ call[t].ret = 0
        => map \cup unseen = Slots

(***************************************************************************)
(* A rule that delete_rule reports deleted is out of the file system.      *)
(***************************************************************************)
DeletedIsErased == \A t \in Threads :
    call[t].op = "delete" /\ call[t].pc = "return" /\ call[t].ret = 0
        => flash[IdOf(call[t].slot)] = Empty

(***************************************************************************)
(* To one caller that adds and clears, the bitset and the flash entries    *)
(* under it are one table whose slots change one at a time, through failed *)
(* flash operations and restarts between any two steps; the rules that     *)
(* init() did not see are hidden from it.                                  *)
(***************************************************************************)
Busy(op) == call["mqtt"].op = op /\ call["mqtt"].pc \notin {"idle", "return"}
Holds(S) == [s \in Slots |-> IF s \in S THEN flash[IdOf(s)] ELSE Empty]
Adding   == IF Busy("write") THEN call["mqtt"].rule ELSE Empty

Table == INSTANCE RuleTable
         WITH table <- Holds(map), hidden <- Holds(unseen), adding <- Adding,
              clearing <- Busy("clear"), Misreads <- "length" \in Faults

IsTable == Table!Spec
=============================================================================
