------------------------------ MODULE Bracket ------------------------------
(***************************************************************************)
(* What the entry path promises the broker about one symbol: there is at   *)
(* most one bracket at a time. A bracket is a parent order with two        *)
(* children, and it is placed whole or not at all; its children wake when  *)
(* the parent fills, one of them ends it, and its side never changes.      *)
(***************************************************************************)

VARIABLE bracket  \* the stage and side of the bracket; the side of none is BUY

Sides   == {"BUY", "SELL"}
Nothing == [stage |-> "none", side |-> "BUY"]

Init == \E side \in Sides :
            bracket \in {Nothing, [stage |-> "children", side |-> side]}

Place ==
    /\ bracket = Nothing
    /\ \E side \in Sides : bracket' = [stage |-> "parent", side |-> side]

ParentFills ==
    /\ bracket.stage = "parent"
    /\ bracket' = [stage |-> "children", side |-> bracket.side]

\* A child fills, or what is left of the bracket is cancelled.
Ends == bracket # Nothing /\ bracket' = Nothing

Next == Place \/ ParentFills \/ Ends

Spec == Init /\ [][Next]_bracket
=============================================================================
