----------------------------- MODULE EditorGate -----------------------------
(***************************************************************************)
(* What the daemon promises about requests that ask for the annotation     *)
(* editor (`snypr screenshot --edit`, the tray's "annotate" entry): at     *)
(* most one of them is being served, a second one is turned away at once   *)
(* instead of queuing, and the gate opens again when the one inside is     *)
(* answered, whatever the answer.  daemon.rs keeps this promise with a     *)
(* mutex taken by try_lock (DaemonState.editor).                           *)
(***************************************************************************)
CONSTANT Clients

VARIABLE inside    \* the clients whose edit request is being served

Init == inside = {}

\* An edit request is accepted: nobody may be inside.
Enter(c) ==
    /\ inside = {}
    /\ inside' = {c}

\* It is answered (or cancelled with the daemon).
Leave(c) ==
    /\ c \in inside
    /\ inside' = inside \ {c}

Next == \E c \in Clients : Enter(c) \/ Leave(c)

Spec == Init /\ [][Next]_inside

=============================================================================
