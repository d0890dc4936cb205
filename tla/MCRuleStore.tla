----------------------------- MODULE MCRuleStore -----------------------------
(***************************************************************************)
(* Instances of RuleStore for TLC: who may remove which slots, and the     *)
(* symmetry of the rules, which are only compared for equality.            *)
(***************************************************************************)
EXTENDS RuleStore, TLC

NoRemovals  == [t \in Threads |-> {}]
MqttLow     == [t \in Threads |-> IF t = "mqtt" THEN {0, 1} ELSE {}]
MqttThird   == [t \in Threads |-> IF t = "mqtt" THEN {2} ELSE {}]
AppFirst    == [t \in Threads |-> IF t = "app" THEN {0} ELSE {}]
RuleSymmetry == Permutations(Rule)
=============================================================================
