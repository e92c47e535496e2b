------------------------------- MODULE Daemon -------------------------------
(***************************************************************************)
(* The long-lived daemon of src/daemon.rs: the state that survives across  *)
(* IPC clients (DaemonState), the handlers that change it, and the two     *)
(* kinds of work they start - the draw overlay, run by a detached task,    *)
(* and screenshot requests, run by the task that serves the connection or  *)
(* the tray action.                                                        *)
(*                                                                         *)
(* A handler is one action when it does not give up the CPU between        *)
(* reading and writing DaemonState (the slot's mutex is never held across  *)
(* an await); a screenshot is one action per await.  GTK is external: a    *)
(* process has one default main context and one application id, so only    *)
(* one Application::run is in progress; a second one comes back at once    *)
(* without having shown a window.                                          *)
(***************************************************************************)
CONSTANTS
    Clients,    \* tasks that can be serving a request: connections, tray actions
    Overlays,   \* identities for draw overlays that exist at the same time
    Nobody      \* Option::None

ASSUME DaemonAssumption ==
    /\ Nobody \notin Clients \cup Overlays
    /\ Clients \cap Overlays = {}

VARIABLES
    up,         \* serve() is running: DaemonState exists and requests are read
    slot,       \* DaemonState.overlay: whose OverlayHandle it holds
    editor,     \* DaemonState.editor: who holds the mutex
    gtk,        \* who is inside gtk4::Application::run
    shown,      \* how far the task of each draw overlay has got
    signal,     \* the shutdown oneshot of each draw overlay
    job         \* the screenshot each client is being served

vars == <<up, slot, editor, gtk, shown, signal, job>>

-----------------------------------------------------------------------------
(***************************************************************************)
(* none     no task                                                        *)
(* pending  the task is spawned, run_gtk has not entered GTK yet           *)
(* live     the windows are up and attach_shutdown waits on the oneshot    *)
(* closing  tear_down has run, the GTK loop has not returned yet           *)
(* dead     overlay::run has returned, the task has not cleared the slot   *)
(***************************************************************************)
OverlayPhases == {"none", "pending", "live", "closing", "dead"}

\* The sender is in the slot; it was used; it was dropped unused.
Signals == {"armed", "sent", "dropped"}

(***************************************************************************)
(* Where execute() is.  A job at a GtkStage waits for its window or has it *)
(* open (gtk = c); an "orphan" is the thread of a request whose future was *)
(* dropped when the daemon quit: its window stays until the user closes it.*)
(***************************************************************************)
GtkStages == {"select", "delay", "edit"}
Stages == GtkStages \cup {"idle", "capture", "orphan"}

\* asked: the request's `edit` flag.  edit: the flag execute() goes by.
Jobs == [stage : Stages, asked : BOOLEAN, edit : BOOLEAN]
NoJob == [stage |-> "idle", asked |-> FALSE, edit |-> FALSE]

Serving(c) == job[c].stage \in GtkStages \cup {"capture"}

Init ==
    /\ up = TRUE
    /\ slot = Nobody
    /\ editor = Nobody
    /\ gtk = Nobody
    /\ shown = [o \in Overlays |-> "none"]
    /\ signal = [o \in Overlays |-> "dropped"]
    /\ job = [c \in Clients |-> NoJob]

-----------------------------------------------------------------------------
(* toggle_overlay: the DrawToggle request and the tray's OpenDraw entry.   *)

\* Defect: the handle is looked at (as_ref) instead of taken.
ToggleOff_Peeks ==
    /\ up
    /\ slot # Nobody
    /\ signal' = [signal EXCEPT ![slot] = "sent"]
    /\ UNCHANGED <<up, slot, editor, gtk, shown, job>>

\* A handle is in the slot: take it and fire its oneshot.
ToggleOff ==
    /\ up
    /\ slot # Nobody
    /\ signal' = [signal EXCEPT ![slot] = "sent"]
    /\ slot' = Nobody
    /\ UNCHANGED <<up, editor, gtk, shown, job>>

\* The slot is empty: store a fresh handle and spawn the overlay's task.
ToggleOn(o) ==
    /\ up
    /\ slot = Nobody
    /\ shown[o] = "none"
    /\ slot' = o
    /\ signal' = [signal EXCEPT ![o] = "armed"]
    /\ shown' = [shown EXCEPT ![o] = "pending"]
    /\ UNCHANGED <<up, editor, gtk, job>>

-----------------------------------------------------------------------------
(* The overlay's task: overlay::run, then the clean-up.                    *)

\* run_gtk enters GTK and builds the windows ...
OverlayAppears(o) ==
    /\ shown[o] = "pending"
    /\ gtk = Nobody
    /\ gtk' = o
    /\ shown' = [shown EXCEPT ![o] = "live"]
    /\ UNCHANGED <<up, slot, editor, signal, job>>

\* ... or GTK refuses (busy here or in another process, no layer shell, no
\* monitor), and run() returns with nothing shown.
OverlayRefused(o) ==
    /\ shown[o] = "pending"
    /\ shown' = [shown EXCEPT ![o] = "dead"]
    /\ UNCHANGED <<up, slot, editor, gtk, signal, job>>

TearDown(o) ==
    /\ shown[o] = "live"
    /\ shown' = [shown EXCEPT ![o] = "closing"]
    /\ UNCHANGED <<up, slot, editor, gtk, signal, job>>

\* The user leaves the overlay (Esc).
Escape(o) == TearDown(o)

\* Defect: only a shutdown that was sent counts (`if rx.await.is_ok()`).
ObserveShutdown_IgnoresDrop(o) ==
    /\ signal[o] = "sent"
    /\ TearDown(o)

\* Defect: the overlay polls the shared slot instead of its own channel.
ObserveShutdown_WatchesSlot(o) ==
    /\ slot = Nobody
    /\ TearDown(o)

\* attach_shutdown: the oneshot resolves when it is fired and when its sender
\* is dropped.
ObserveShutdown(o) ==
    /\ signal[o] # "armed"
    /\ TearDown(o)

GtkReturns(o) ==
    /\ shown[o] = "closing"
    /\ gtk' = Nobody
    /\ shown' = [shown EXCEPT ![o] = "dead"]
    /\ UNCHANGED <<up, slot, editor, signal, job>>

\* The sender of a handle that leaves the slot unused is dropped with it.
DropHandle == [o \in Overlays |-> IF o = slot THEN "dropped" ELSE signal[o]]

\* Defect: the task ends without touching the slot.
CleanUp_KeepsHandle(o) ==
    /\ up
    /\ shown[o] = "dead"
    /\ slot # o
    /\ shown' = [shown EXCEPT ![o] = "none"]
    /\ UNCHANGED <<up, slot, editor, gtk, signal, job>>

\* `*guard = None`, whichever handle the slot holds by now.
CleanUp(o) ==
    /\ up
    /\ shown[o] = "dead"
    /\ shown' = [shown EXCEPT ![o] = "none"]
    /\ signal' = DropHandle
    /\ slot' = Nobody
    /\ UNCHANGED <<up, editor, gtk, job>>

-----------------------------------------------------------------------------
(* run_screenshot_with_optional_lock and execute.                          *)

FirstStages == {"select", "delay", "capture"}

\* A request without the edit flag never touches the lock.
StartPlain(c) ==
    /\ up
    /\ job[c].stage = "idle"
    /\ \E s \in FirstStages :
         job' = [job EXCEPT ![c] = [stage |-> s, asked |-> FALSE, edit |-> FALSE]]
    /\ UNCHANGED <<up, slot, editor, gtk, shown, signal>>

\* Defect: `let _ = try_lock()` drops the guard on the spot.
StartEdit_GuardDropped(c) ==
    /\ up
    /\ job[c].stage = "idle"
    /\ editor = Nobody
    /\ \E s \in FirstStages :
         job' = [job EXCEPT ![c] = [stage |-> s, asked |-> TRUE, edit |-> TRUE]]
    /\ UNCHANGED <<up, slot, editor, gtk, shown, signal>>

\* Defect: a lock that is held does not stop the request.
StartEdit_IgnoresLock(c) ==
    /\ up
    /\ job[c].stage = "idle"
    /\ editor' = c
    /\ \E s \in FirstStages :
         job' = [job EXCEPT ![c] = [stage |-> s, asked |-> TRUE, edit |-> TRUE]]
    /\ UNCHANGED <<up, slot, gtk, shown, signal>>

\* One with it must get the lock by try_lock; if it is held the client is told
\* "busy" and nothing changes.
StartEdit(c) ==
    /\ up
    /\ job[c].stage = "idle"
    /\ editor = Nobody
    /\ editor' = c
    /\ \E s \in FirstStages :
         job' = [job EXCEPT ![c] = [stage |-> s, asked |-> TRUE, edit |-> TRUE]]
    /\ UNCHANGED <<up, slot, gtk, shown, signal>>

\* execute() is over, well or badly: the guard goes out of scope and the client
\* is answered.
Finish(c) ==
    /\ job' = [job EXCEPT ![c] = NoJob]
    /\ editor' = IF editor = c THEN Nobody ELSE editor

\* The selector, the countdown or the editor gets its window ...
EnterGtk(c) ==
    /\ job[c].stage \in GtkStages \cup {"orphan"}
    /\ gtk = Nobody
    /\ gtk' = c
    /\ UNCHANGED <<up, slot, editor, shown, signal, job>>

\* ... or GTK refuses and the request ends.
GtkRefused(c) ==
    /\ job[c].stage \in GtkStages \cup {"orphan"}
    /\ gtk # c
    /\ Finish(c)
    /\ UNCHANGED <<up, slot, gtk, shown, signal>>

\* Defect: a committed selection goes on to a stage execute() does not have.
SelectorCommits_Astray(c) ==
    /\ job[c].stage = "select"
    /\ gtk = c
    /\ gtk' = Nobody
    /\ job' = [job EXCEPT ![c].stage = "committed"]
    /\ UNCHANGED <<up, slot, editor, shown, signal>>

\* The selector commits; Annotate (Shift+Enter) turns the editor on for a
\* request that did not ask for it.  Its own countdown has already run.
SelectorCommits(c) ==
    /\ job[c].stage = "select"
    /\ gtk = c
    /\ gtk' = Nobody
    /\ \E edit \in {job[c].edit, TRUE} :
         job' = [job EXCEPT ![c] = [stage |-> "capture", asked |-> @.asked, edit |-> edit]]
    /\ UNCHANGED <<up, slot, editor, shown, signal>>

\* The user cancels the selector, or closes the editor after saving or not.
UserCloses(c) ==
    /\ job[c].stage \in {"select", "edit"}
    /\ gtk = c
    /\ gtk' = Nobody
    /\ Finish(c)
    /\ UNCHANGED <<up, slot, shown, signal>>

CountdownEnds(c) ==
    /\ job[c].stage = "delay"
    /\ gtk = c
    /\ gtk' = Nobody
    /\ job' = [job EXCEPT ![c].stage = "capture"]
    /\ UNCHANGED <<up, slot, editor, shown, signal>>

\* The frame is there: on to the editor ...
CapturedForEditor(c) ==
    /\ job[c].stage = "capture"
    /\ job[c].edit
    /\ job' = [job EXCEPT ![c].stage = "edit"]
    /\ UNCHANGED <<up, slot, editor, gtk, shown, signal>>

\* ... or to the sinks; or the capture, the encoding or a sink fails.
CaptureEnds(c) ==
    /\ job[c].stage = "capture"
    /\ Finish(c)
    /\ UNCHANGED <<up, slot, gtk, shown, signal>>

-----------------------------------------------------------------------------
(***************************************************************************)
(* Ctrl-C or the tray's Quit: serve() returns and the runtime is dropped.  *)
(* Every task is cancelled where it awaits, which releases the lock and    *)
(* drops the last Arc of DaemonState with the handle in it.  A blocking    *)
(* thread is not cancelled: those inside GTK go on, those on their way     *)
(* there (`started`) still arrive, and the process lives as long as one    *)
(* does.                                                                   *)
(***************************************************************************)
Quit ==
    /\ up
    /\ up' = FALSE
    /\ editor' = Nobody
    /\ signal' = DropHandle
    /\ slot' = Nobody
    /\ \E started \in SUBSET ({o \in Overlays : shown[o] = "pending"} \cup
                              {c \in Clients : job[c].stage \in GtkStages}) :
         /\ shown' = [o \in Overlays |->
                        IF o \in started \/ shown[o] \in {"live", "closing"}
                        THEN shown[o] ELSE "none"]
         /\ job' = [c \in Clients |->
                        IF c \in started \/ gtk = c
                        THEN [NoJob EXCEPT !.stage = "orphan"] ELSE NoJob]
    /\ UNCHANGED gtk

\* The window of a cancelled request is closed.
OrphanEnds(c) ==
    /\ job[c].stage = "orphan"
    /\ gtk = c
    /\ gtk' = Nobody
    /\ job' = [job EXCEPT ![c] = NoJob]
    /\ UNCHANGED <<up, slot, editor, shown, signal>>

\* The process is gone.
Exited ==
    /\ ~up
    /\ gtk = Nobody
    /\ UNCHANGED vars

-----------------------------------------------------------------------------
OverlayTask(o) ==
    \/ OverlayAppears(o)
    \/ OverlayRefused(o)
    \/ ObserveShutdown(o)
    \/ GtkReturns(o)
    \/ CleanUp(o)

Next ==
    \/ ToggleOff
    \/ \E o \in Overlays : ToggleOn(o) \/ Escape(o) \/ OverlayTask(o)
    \/ \E c \in Clients :
         \/ StartPlain(c) \/ StartEdit(c) \/ EnterGtk(c) \/ GtkRefused(c)
         \/ SelectorCommits(c) \/ UserCloses(c) \/ CountdownEnds(c)
         \/ CapturedForEditor(c) \/ CaptureEnds(c) \/ OrphanEnds(c)
    \/ Quit
    \/ Exited

(***************************************************************************)
(* tokio runs every task that is ready and GLib every source that is:      *)
(* each step of an overlay's task is weakly fair.  Users are not.          *)
(***************************************************************************)
Fairness ==
    \A o \in Overlays :
        /\ WF_vars(OverlayAppears(o) \/ OverlayRefused(o))
        /\ WF_vars(ObserveShutdown(o))
        /\ WF_vars(GtkReturns(o))
        /\ WF_vars(CleanUp(o))

Spec == Init /\ [][Next]_vars

FairSpec == Spec /\ Fairness

-----------------------------------------------------------------------------
TypeOK ==
    /\ up \in BOOLEAN
    /\ slot \in Overlays \cup {Nobody}
    /\ editor \in Clients \cup {Nobody}
    /\ gtk \in Overlays \cup Clients \cup {Nobody}
    /\ shown \in [Overlays -> OverlayPhases]
    /\ signal \in [Overlays -> Signals]
    /\ job \in [Clients -> Jobs]

(***************************************************************************)
(* DrawToggle can always end what it started: an overlay that has not been *)
(* told to stop is the one whose handle is in the slot, and a handle in    *)
(* the slot has not been used and belongs to a task that will clear it.    *)
(* No overlay is left on screen out of every later toggle's reach.         *)
(***************************************************************************)
SoleStopper ==
    \A o \in Overlays :
        (signal[o] = "armed") <=> (slot = o /\ shown[o] # "none")

(***************************************************************************)
(* The editor lock is held for exactly as long as a request that asked for *)
(* the editor is being served: it is never leaked by an error path, and    *)
(* never released while the guard's owner is still selecting, counting     *)
(* down, capturing or editing.                                             *)
(***************************************************************************)
LockCoversRequest ==
    \A c \in Clients : (editor = c) <=> (Serving(c) /\ job[c].asked)

(***************************************************************************)
(* An overlay told to stop - by a toggle before its windows were even up,  *)
(* by a toggle afterwards, or by the loss of its handle - leaves the       *)
(* screen, and its identity becomes free again unless the daemon quits.    *)
(***************************************************************************)
StopIsHonoured ==
    \A o \in Overlays :
        (signal[o] # "armed" /\ shown[o] # "none")
            ~> (shown[o] \in {"dead", "none"})

\* An overlay that has ended by itself does not keep its handle in the slot for
\* ever, so a later DrawToggle opens a new one (daemon.rs, the clean-up).
DeadHandleReleased ==
    \A o \in Overlays : (slot = o /\ shown[o] = "dead") ~> (slot # o)

\* No draw overlay outlives the daemon (attach_shutdown's comment): with the
\* handle gone its thread leaves GTK.
QuitEndsOverlays == (~up) ~> (gtk \notin Overlays)

\* Requests that ask for the editor go through EditorGate.
Gate == INSTANCE EditorGate
            WITH inside <- {c \in Clients : Serving(c) /\ job[c].asked}

GateSpec == Gate!Spec

-----------------------------------------------------------------------------
(***************************************************************************)
(* What daemon.rs says of itself and does not keep.                        *)
(***************************************************************************)

(***************************************************************************)
(* "a spawned task clears the slot when the overlay actually exits": the   *)
(* clean-up removes the handle of the overlay that has exited.  In the     *)
(* code it empties the slot whoever is in it, so the clean-up of an        *)
(* overlay already toggled off drops the handle of its successor and with  *)
(* it tears the successor down.                                            *)
(***************************************************************************)
CleanUpDropsOwnHandle ==
    [][\A o \in Overlays :
         signal[o] = "armed" /\ signal'[o] = "dropped" => shown[o] = "dead" \/ ~up']_vars

(***************************************************************************)
(* "Serialises the editor-bearing screenshot path - ... two editor windows *)
(* from two clients would clash": no two requests have reached the editor. *)
(***************************************************************************)
EditorsSerialised ==
    \A c, d \in Clients :
        job[c].stage = "edit" /\ job[d].stage = "edit" => c = d

=============================================================================
