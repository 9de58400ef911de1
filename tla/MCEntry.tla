------------------------------ MODULE MCEntry ------------------------------
(* Two lifecycles and two brackets of SPY.                                   *)
EXTENDS Entry
=============================================================================
