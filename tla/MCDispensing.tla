---------------------------- MODULE MCDispensing ----------------------------
(***************************************************************************)
(* Dispensing with the amounts for TLC: negative numbers do not fit a .cfg.*)
(***************************************************************************)
EXTENDS Dispensing

MCAmounts   == {0, 2}
MCLeftovers == {-1, 1}
=============================================================================
