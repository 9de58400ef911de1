--------------------------- MODULE MCLossTracker ----------------------------
(* LossTracker with two-hour slots: 08:00 is slot 4, 09:45 rounds up to    *)
(* slot 5, four hours are two slots.                                       *)
EXTENDS LossTracker
=============================================================================
