-------------------------------- MODULE Exit --------------------------------
(***************************************************************************)
(* What the exit of a long position promises its ledger: the shares only   *)
(* leave, one after the other; the row stays OPEN until the last one has   *)
(* left, it may then ask for a reconciliation by hand, and once CLOSED it  *)
(* stays so. An order that sells what is no longer there breaks the        *)
(* promise, and it can only come after the last share.                     *)
(***************************************************************************)
EXTENDS Integers

CONSTANT Shares     \* shares the position was opened with

VARIABLES left,     \* shares that have not left, -1 when one too many has
          outcome   \* of the row, "BROKEN" when one too many has left

Init == left = Shares /\ outcome = "OPEN"

Sell == left > 0 /\ left' = left - 1 /\ UNCHANGED outcome

Refer == left = 0 /\ outcome = "OPEN" /\ outcome' = "RECONCILE" /\ UNCHANGED left

Close == left = 0 /\ outcome # "CLOSED" /\ outcome' = "CLOSED" /\ UNCHANGED left

Break == left = 0 /\ left' = -1 /\ outcome' = "BROKEN"

Next == Sell \/ Refer \/ Close \/ Break

Spec == Init /\ [][Next]_<<left, outcome>>
=============================================================================
