-------------------------- MODULE MCOverlaySession --------------------------
(***************************************************************************)
(* A draw overlay on two monitors with two Saves and two Blur captures (to *)
(* overlap each kind with itself and with the other) and up to two unread  *)
(* commands.  Identities are used again: runs are unbounded in length.     *)
(***************************************************************************)
EXTENDS OverlaySession

=============================================================================
