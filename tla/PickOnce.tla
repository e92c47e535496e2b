------------------------------ MODULE PickOnce ------------------------------
(***************************************************************************)
(* What an interactive selector promises its caller (pick_region and       *)
(* pick_region_in_app of ui/selector.rs): the user's choice is fixed once, *)
(* nothing done afterwards changes it, and the caller gets exactly one     *)
(* answer - the fixed choice, or no choice at all.                         *)
(***************************************************************************)
CONSTANTS
    Choices,    \* what can be picked
    Refusals,   \* the answers without a choice: cancelled, window closed
    None        \* nothing yet

VARIABLES
    chosen,     \* the choice that has been fixed
    answer      \* what the caller has received

vars == <<chosen, answer>>

Init == chosen = None /\ answer = None

Choose(v) ==
    /\ answer = None
    /\ chosen = None
    /\ chosen' = v
    /\ UNCHANGED answer

Deliver ==
    /\ answer = None
    /\ chosen # None
    /\ answer' = chosen
    /\ UNCHANGED chosen

\* Also after the choice is fixed: a countdown can still be cancelled.
Refuse(r) ==
    /\ answer = None
    /\ answer' = r
    /\ UNCHANGED chosen

Next ==
    \/ \E v \in Choices : Choose(v)
    \/ Deliver
    \/ \E r \in Refusals : Refuse(r)

Spec == Init /\ [][Next]_vars

=============================================================================
