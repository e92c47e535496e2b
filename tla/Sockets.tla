------------------------------- MODULE Sockets ------------------------------
(***************************************************************************)
(* The conversations snypr has over sockets: with the compositor, about    *)
(* the focus (FocusWatch) and about the windows (WindowList), and with     *)
(* itself, between a client and the daemon (DaemonSocket).  They share no  *)
(* state, so a behaviour follows one of them.                              *)
(***************************************************************************)
EXTENDS FocusWatch, WindowList, DaemonSocket

VARIABLE topic      \* which of them

vars == <<topic, watchVars, listVars, socketVars>>

TypeOK ==
    /\ topic \in {"focus", "windows", "daemon"}
    /\ WatchTypeOK /\ ListTypeOK /\ SocketTypeOK

Init ==
    /\ WatchInit /\ ListInit /\ SocketInit
    /\ \/ topic = "focus" /\ desk = CHOOSE d \in Desks : TRUE
       \/ topic = "windows" /\ backend = "none" /\ active = Head(Toplevels)
                            /\ where = [t \in Range(Toplevels) |-> CHOOSE o \in Outputs : TRUE]
       \/ topic = "daemon" /\ desk = (CHOOSE d \in Desks : TRUE)
                           /\ backend = "none" /\ active = Head(Toplevels)
                           /\ where = [t \in Range(Toplevels) |-> CHOOSE o \in Outputs : TRUE]

Next ==
    \/ topic = "focus" /\ WatchNext /\ UNCHANGED <<topic, listVars, socketVars>>
    \/ topic = "windows" /\ ListNext /\ UNCHANGED <<topic, watchVars, socketVars>>
    \/ topic = "daemon" /\ SocketNext /\ UNCHANGED <<topic, watchVars, listVars>>

\* WatchFairness, for the behaviours that are about it.
Fairness == topic = "focus" => WatchFairness

Spec == Init /\ [][Next]_vars /\ Fairness

=============================================================================
