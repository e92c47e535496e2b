---------------------------- MODULE DaemonProofs ----------------------------
(***************************************************************************)
(* Proofs about Daemon for any number of clients and overlays: its types,  *)
(* the two ownership invariants (the shutdown sender, the editor lock) and *)
(* the refinement of EditorGate.                                           *)
(***************************************************************************)
EXTENDS Daemon, TLAPS

(***************************************************************************)
(* Every step of the daemon keeps the state in its types.                  *)
(***************************************************************************)
LEMMA TypeStep == TypeOK /\ [Next]_vars => TypeOK'
<1> SUFFICES ASSUME TypeOK, [Next]_vars PROVE TypeOK'
  OBVIOUS
<1> USE DaemonAssumption DEF TypeOK, OverlayPhases, Signals, Jobs, Stages, GtkStages, NoJob
<1>1. CASE ToggleOff
  BY <1>1 DEF ToggleOff
<1>2. ASSUME NEW o \in Overlays, ToggleOn(o) \/ Escape(o) \/ OverlayTask(o)
      PROVE  TypeOK'
  <2>1. CASE ToggleOn(o)
    BY <2>1 DEF ToggleOn
  <2>2. CASE Escape(o) \/ ObserveShutdown(o)
    BY <2>2 DEF Escape, ObserveShutdown, TearDown
  <2>3. CASE OverlayAppears(o)
    BY <2>3 DEF OverlayAppears
  <2>4. CASE OverlayRefused(o)
    BY <2>4 DEF OverlayRefused
  <2>5. CASE GtkReturns(o)
    BY <2>5 DEF GtkReturns
  <2>6. CASE CleanUp(o)
    BY <2>6 DEF CleanUp, DropHandle
  <2> QED
    BY <1>2, <2>1, <2>2, <2>3, <2>4, <2>5, <2>6 DEF OverlayTask
<1>3. ASSUME NEW c \in Clients,
             \/ StartPlain(c) \/ StartEdit(c) \/ EnterGtk(c) \/ GtkRefused(c)
             \/ SelectorCommits(c) \/ UserCloses(c) \/ CountdownEnds(c)
             \/ CapturedForEditor(c) \/ CaptureEnds(c) \/ OrphanEnds(c)
      PROVE  TypeOK'
  <2>1. CASE StartPlain(c)
    BY <2>1 DEF StartPlain, FirstStages
  <2>2. CASE StartEdit(c)
    BY <2>2 DEF StartEdit, FirstStages
  <2>3. CASE EnterGtk(c)
    BY <2>3 DEF EnterGtk
  <2>4. CASE GtkRefused(c)
    BY <2>4 DEF GtkRefused, Finish
  <2>5. CASE SelectorCommits(c)
    <3>1. /\ job[c].edit \in BOOLEAN
          /\ job[c].asked \in BOOLEAN
      OBVIOUS
    <3>2. PICK edit \in BOOLEAN :
            job' = [job EXCEPT ![c] =
                      [stage |-> "capture", asked |-> job[c].asked, edit |-> edit]]
      BY <2>5, <3>1 DEF SelectorCommits
    <3> QED
      BY <2>5, <3>1, <3>2 DEF SelectorCommits
  <2>6. CASE UserCloses(c)
    BY <2>6 DEF UserCloses, Finish
  <2>7. CASE CountdownEnds(c)
    BY <2>7 DEF CountdownEnds
  <2>8. CASE CapturedForEditor(c)
    BY <2>8 DEF CapturedForEditor
  <2>9. CASE CaptureEnds(c)
    BY <2>9 DEF CaptureEnds, Finish
  <2>10. CASE OrphanEnds(c)
    BY <2>10 DEF OrphanEnds
  <2> QED
    BY <1>3, <2>1, <2>2, <2>3, <2>4, <2>5, <2>6, <2>7, <2>8, <2>9, <2>10
<1>4. CASE Quit
  <2> PICK started : 
         /\ shown' = [o \in Overlays |->
                        IF o \in started \/ shown[o] \in {"live", "closing"}
                        THEN shown[o] ELSE "none"]
         /\ job' = [c \in Clients |->
                        IF c \in started \/ gtk = c
                        THEN [NoJob EXCEPT !.stage = "orphan"] ELSE NoJob]
    BY <1>4 DEF Quit
  <2> QED
    BY <1>4 DEF Quit, DropHandle
<1>5. CASE Exited \/ UNCHANGED vars
  BY <1>5 DEF Exited, vars
<1> QED
  BY <1>1, <1>2, <1>3, <1>4, <1>5 DEF Next

(***************************************************************************)
(* The types of Daemon's variables hold in every reachable state.          *)
(***************************************************************************)
THEOREM TypeCorrect == Spec => []TypeOK
<1>1. Init => TypeOK
  BY DEF Init, TypeOK, OverlayPhases, Signals, Jobs, Stages, GtkStages, NoJob
<1> QED
  BY <1>1, TypeStep, PTL DEF Spec

-----------------------------------------------------------------------------
(***************************************************************************)
(* The owner of an overlay's shutdown sender is the slot, in every step.   *)
(***************************************************************************)
LEMMA StopperStep == TypeOK /\ SoleStopper /\ [Next]_vars => SoleStopper'
<1> SUFFICES ASSUME TypeOK, SoleStopper, [Next]_vars PROVE SoleStopper'
  OBVIOUS
<1> USE DaemonAssumption DEF TypeOK, SoleStopper, OverlayPhases, Signals
<1>1. CASE ToggleOff
  BY <1>1 DEF ToggleOff
<1>2. ASSUME NEW o \in Overlays, ToggleOn(o) \/ Escape(o) \/ OverlayTask(o)
      PROVE  SoleStopper'
  <2>1. CASE ToggleOn(o)
    BY <2>1 DEF ToggleOn
  <2>2. CASE Escape(o) \/ ObserveShutdown(o)
    BY <2>2 DEF Escape, ObserveShutdown, TearDown
  <2>3. CASE OverlayAppears(o)
    BY <2>3 DEF OverlayAppears
  <2>4. CASE OverlayRefused(o)
    BY <2>4 DEF OverlayRefused
  <2>5. CASE GtkReturns(o)
    BY <2>5 DEF GtkReturns
  <2>6. CASE CleanUp(o)
    BY <2>6 DEF CleanUp, DropHandle
  <2> QED
    BY <1>2, <2>1, <2>2, <2>3, <2>4, <2>5, <2>6 DEF OverlayTask
<1>3. CASE \E c \in Clients :
             \/ StartPlain(c) \/ StartEdit(c) \/ EnterGtk(c) \/ GtkRefused(c)
             \/ SelectorCommits(c) \/ UserCloses(c) \/ CountdownEnds(c)
             \/ CapturedForEditor(c) \/ CaptureEnds(c) \/ OrphanEnds(c)
  BY <1>3 DEF StartPlain, StartEdit, EnterGtk, GtkRefused, SelectorCommits,
              UserCloses, CountdownEnds, CapturedForEditor, CaptureEnds, OrphanEnds
<1>4. CASE Quit
  BY <1>4 DEF Quit, DropHandle
<1>5. CASE Exited \/ UNCHANGED vars
  BY <1>5 DEF Exited, vars
<1> QED
  BY <1>1, <1>2, <1>3, <1>4, <1>5 DEF Next

(***************************************************************************)
(* DrawToggle can always end what it started: an overlay that has not been *)
(* told to stop is the one whose handle the daemon holds.                  *)
(***************************************************************************)
THEOREM StopperOwned == Spec => []SoleStopper
<1>1. Init => SoleStopper
  BY DaemonAssumption DEF Init, SoleStopper
<1> QED
  BY <1>1, StopperStep, TypeCorrect, PTL DEF Spec

-----------------------------------------------------------------------------
(***************************************************************************)
(* The editor lock follows the request that asked for the editor.          *)
(***************************************************************************)
LEMMA LockStep == TypeOK /\ LockCoversRequest /\ [Next]_vars => LockCoversRequest'
<1> SUFFICES ASSUME TypeOK, LockCoversRequest, [Next]_vars
             PROVE  LockCoversRequest'
  OBVIOUS
<1> USE DaemonAssumption
    DEF TypeOK, LockCoversRequest, Serving, Jobs, Stages, GtkStages, NoJob
<1>1. CASE ToggleOff
  BY <1>1 DEF ToggleOff
<1>2. CASE \E o \in Overlays : ToggleOn(o) \/ Escape(o) \/ OverlayTask(o)
  BY <1>2 DEF ToggleOn, Escape, OverlayTask, ObserveShutdown, TearDown,
              OverlayAppears, OverlayRefused, GtkReturns, CleanUp
<1>3. ASSUME NEW c \in Clients,
             \/ StartPlain(c) \/ StartEdit(c) \/ EnterGtk(c) \/ GtkRefused(c)
             \/ SelectorCommits(c) \/ UserCloses(c) \/ CountdownEnds(c)
             \/ CapturedForEditor(c) \/ CaptureEnds(c) \/ OrphanEnds(c)
      PROVE  LockCoversRequest'
  <2>1. CASE StartPlain(c)
    BY <2>1 DEF StartPlain, FirstStages
  <2>2. CASE StartEdit(c)
    BY <2>2 DEF StartEdit, FirstStages
  <2>3. CASE EnterGtk(c)
    BY <2>3 DEF EnterGtk
  <2>4. CASE GtkRefused(c)
    BY <2>4 DEF GtkRefused, Finish
  <2>5. CASE SelectorCommits(c)
    BY <2>5 DEF SelectorCommits
  <2>6. CASE UserCloses(c)
    BY <2>6 DEF UserCloses, Finish
  <2>7. CASE CountdownEnds(c)
    BY <2>7 DEF CountdownEnds
  <2>8. CASE CapturedForEditor(c)
    BY <2>8 DEF CapturedForEditor
  <2>9. CASE CaptureEnds(c)
    BY <2>9 DEF CaptureEnds, Finish
  <2>10. CASE OrphanEnds(c)
    BY <2>10 DEF OrphanEnds
  <2> QED
    BY <1>3, <2>1, <2>2, <2>3, <2>4, <2>5, <2>6, <2>7, <2>8, <2>9, <2>10
<1>4. CASE Quit
  <2>1. /\ editor' = Nobody
        /\ \A c \in Clients : job'[c].stage \in {"idle", "orphan"}
    BY <1>4 DEF Quit
  <2> QED
    BY <2>1
<1>5. CASE Exited \/ UNCHANGED vars
  BY <1>5 DEF Exited, vars
<1> QED
  BY <1>1, <1>2, <1>3, <1>4, <1>5 DEF Next

(***************************************************************************)
(* No path through a request leaks the editor lock or gives it up early.   *)
(***************************************************************************)
THEOREM LockSafe == Spec => []LockCoversRequest
<1>1. Init => LockCoversRequest
  <2> SUFFICES ASSUME Init, NEW c \in Clients
               PROVE  (editor = c) <=> (Serving(c) /\ job[c].asked)
    BY DEF LockCoversRequest
  <2>1. editor # c /\ job[c].stage = "idle"
    BY DaemonAssumption DEF Init, NoJob
  <2> QED
    BY <2>1 DEF Serving, GtkStages
<1> QED
  BY <1>1, LockStep, TypeCorrect, PTL DEF Spec

-----------------------------------------------------------------------------
\* The requests that asked for the editor and are being served.
Inside == {c \in Clients : Serving(c) /\ job[c].asked}

(***************************************************************************)
(* What the mutex guards is exactly the set of requests inside (EditorLock).*)
(***************************************************************************)
LEMMA InsideIsHolder ==
    TypeOK /\ LockCoversRequest =>
        Inside = IF editor = Nobody THEN {} ELSE {editor}
BY DaemonAssumption DEF TypeOK, LockCoversRequest, Inside

(***************************************************************************)
(* Under the two invariants a step of the daemon is, for the requests that *)
(* asked for the editor, a step of EditorGate or no step at all.           *)
(***************************************************************************)
LEMMA GateStep ==
    TypeOK /\ LockCoversRequest /\ [Next]_vars /\ TypeOK' /\ LockCoversRequest'
        => [Gate!Next]_Inside
<1> SUFFICES ASSUME TypeOK, LockCoversRequest, [Next]_vars, TypeOK', LockCoversRequest'
             PROVE  [Gate!Next]_Inside
  OBVIOUS
<1>1. /\ Inside = IF editor = Nobody THEN {} ELSE {editor}
      /\ Inside' = IF editor' = Nobody THEN {} ELSE {editor'}
  <2>1. Inside = IF editor = Nobody THEN {} ELSE {editor}
    BY InsideIsHolder
  <2>2. Inside' = IF editor' = Nobody THEN {} ELSE {editor'}
    BY DaemonAssumption DEF TypeOK, LockCoversRequest, Inside
  <2> QED
    BY <2>1, <2>2
<1>2. \/ editor' = editor
      \/ editor' = Nobody
      \/ editor = Nobody /\ editor' \in Clients
  <2>1. CASE UNCHANGED vars
    BY <2>1 DEF vars
  <2>2. CASE Next
    BY <2>2 DEF Next, OverlayTask, ToggleOff, ToggleOn, Escape, ObserveShutdown, TearDown,
                OverlayAppears, OverlayRefused, GtkReturns, CleanUp, StartPlain, StartEdit,
                EnterGtk, GtkRefused, Finish, SelectorCommits, UserCloses, CountdownEnds,
                CapturedForEditor, CaptureEnds, OrphanEnds, Quit, Exited, vars
  <2> QED
    BY <2>1, <2>2
<1>3. CASE editor' = editor
  BY <1>1, <1>3
<1>4. CASE editor' = Nobody /\ editor # Nobody
  <2>1. PICK c \in Clients : editor = c
    BY <1>4 DEF TypeOK
  <2>2. Gate!Leave(c)
    BY <1>1, <1>4, <2>1 DEF Gate!Leave, Inside
  <2> QED
    BY <2>2 DEF Gate!Next
<1>5. CASE editor = Nobody /\ editor' \in Clients
  <2>1. PICK c \in Clients : editor' = c
    BY <1>5
  <2>2. Gate!Enter(c)
    BY <1>1, <1>5, <2>1, DaemonAssumption DEF Gate!Enter, Inside
  <2> QED
    BY <2>2 DEF Gate!Next
<1> QED
  BY <1>2, <1>3, <1>4, <1>5

(***************************************************************************)
(* The daemon implements EditorGate: at most one request that asked for    *)
(* the editor is being served, and it is let in only when none is.         *)
(***************************************************************************)
THEOREM GateImplemented == Spec => GateSpec
<1>1. Init => Gate!Init
  <2> SUFFICES ASSUME Init PROVE Inside = {}
    BY DEF Gate!Init, Inside
  <2>1. \A c \in Clients : job[c].stage = "idle"
    BY DEF Init, NoJob
  <2> QED
    BY <2>1 DEF Inside, Serving, GtkStages
<1>2. [Gate!Next]_Inside => [Gate!Next]_{c \in Clients : Serving(c) /\ job[c].asked}
  BY DEF Inside
<1> QED
  BY <1>1, <1>2, GateStep, TypeCorrect, LockSafe, PTL DEF Spec, GateSpec, Gate!Spec

=============================================================================
