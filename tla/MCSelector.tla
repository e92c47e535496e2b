----------------------------- MODULE MCSelector -----------------------------
(***************************************************************************)
(* A selector on two monitors (a rectangle can change hands, a gesture can *)
(* go on where the region is not), a window to pick, one rectangle, and    *)
(* countdowns of zero, one and two seconds (no tick, the last tick only,   *)
(* one tick before it).                                                    *)
(***************************************************************************)
EXTENDS Selector

=============================================================================
