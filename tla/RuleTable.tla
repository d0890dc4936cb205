------------------------------- MODULE RuleTable -------------------------------
(***************************************************************************)
(* What the rule store promises to one caller that adds and clears rules:  *)
(* a table whose slots change one at a time.  A rule goes into a slot that *)
(* is free and replaces none, a clear empties slots and nothing else, and  *)
(* after a loss of power the table is as it was, with at most the rule     *)
(* that was being added.  Where lengths may be misread, a loss of power    *)
(* may also hide rules of the table: a hidden rule comes back with a later *)
(* loss of power, or is overwritten by a rule that is added, or erased by  *)
(* a clear, and by nothing else.  RuleStore implements it.                 *)
(***************************************************************************)
CONSTANTS Rule, Empty, Slots,
          Misreads    \* may a loss of power hide rules?

VARIABLES
    table,      \* the rule in each slot
    hidden,     \* the rule that each slot holds unknown to the table
    adding,     \* the rule that is being added, or Empty
    clearing    \* is the table being cleared?

tableVars == <<table, hidden, adding, clearing>>

Blank == [s \in Slots |-> Empty]

Init == table = Blank /\ hidden = Blank /\ adding = Empty /\ clearing = FALSE

Ask == /\ adding = Empty /\ ~clearing
       /\ \/ adding' \in Rule /\ UNCHANGED clearing
          \/ clearing' = TRUE /\ UNCHANGED adding
       /\ UNCHANGED <<table, hidden>>

\* A request is over: done, failed, or cut short by a loss of power.
Over == adding' = Empty /\ clearing' = FALSE

Free(s) == table[s] = Empty /\ hidden[s] = Empty

Add == /\ adding # Empty
       /\ \E s \in Slots : Free(s) /\ table' = [table EXCEPT ![s] = adding]
       /\ Over
       /\ UNCHANGED hidden

\* The entry of a hidden rule is written over with the rule that is added.
Overwrite == /\ adding # Empty
             /\ \E s \in Slots : hidden' = [hidden EXCEPT ![s] = Empty]
             /\ UNCHANGED <<table, adding, clearing>>

End == Over /\ UNCHANGED <<table, hidden>>

Erase == /\ clearing
         /\ \E s \in Slots : /\ table' = [table EXCEPT ![s] = Empty]
                             /\ hidden' = [hidden EXCEPT ![s] = Empty]
         /\ UNCHANGED <<adding, clearing>>

\* After a loss of power every rule is back in the table, but those that are
\* hidden now.
Stored == [s \in Slots |-> IF table[s] # Empty THEN table[s] ELSE hidden[s]]

Shows(all) == \E S \in IF Misreads THEN SUBSET Slots ELSE {Slots} :
                 /\ table'  = [s \in Slots |-> IF s \in S THEN all[s] ELSE Empty]
                 /\ hidden' = [s \in Slots |-> IF s \in S THEN Empty ELSE all[s]]

PowerLoss == /\ \/ Shows(Stored)
                \/ /\ adding # Empty
                   /\ \E s \in Slots : /\ Free(s)
                                       /\ Shows([Stored EXCEPT ![s] = adding])
             /\ Over

Next == Ask \/ Add \/ Overwrite \/ Erase \/ End \/ PowerLoss

Spec == Init /\ [][Next]_tableVars
================================================================================
