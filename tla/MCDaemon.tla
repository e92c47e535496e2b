------------------------------ MODULE MCDaemon ------------------------------
(***************************************************************************)
(* Daemon with two tasks that serve requests (two clients that race for    *)
(* the editor) and three overlay identities (one closing, one open and one *)
(* being opened by the next toggle).  The identities are used again once   *)
(* an overlay is cleaned up, so runs are unbounded in length.              *)
(***************************************************************************)
EXTENDS Daemon

=============================================================================
