------------------------------ MODULE MCFreeze ------------------------------
(* Three positions, an override and a restart; the streaks are scaled down.  *)
EXTENDS Freeze
=============================================================================
