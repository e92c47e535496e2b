------------------------------ MODULE Selector ------------------------------
(***************************************************************************)
(* One session of the interactive selector (ui/selector.rs): a window per  *)
(* monitor, one shared selection, a commit with an optional countdown, the *)
(* two-phase teardown, Escape, and the subscription to focus events.       *)
(*                                                                         *)
(* Everything runs on the GLib thread, so an action is one signal handler, *)
(* one timer callback or one turn of the focus loop.  Only the reader of   *)
(* the window manager's events runs elsewhere (tokio) and talks through a  *)
(* watch channel.                                                          *)
(***************************************************************************)
EXTENDS ToolbarHost, Naturals

CONSTANTS
    Rects,          \* rectangles that can be dragged out
    Windows,        \* windows of the window manager's client list
    MaxDelay,       \* bound on the delay, asked for or set on the spinner, in seconds
    AllowAnnotate,  \* Shift+Enter opens the editor (pick_region's parameter)
    Cancelled,      \* Err(Cancelled)
    Closed          \* Err("selector closed without a selection")

ASSUME SelectorAssumption ==
    /\ MaxDelay \in Nat
    /\ AllowAnnotate \in BOOLEAN
    /\ None \notin Rects \cup Windows
    /\ Cancelled # None /\ Closed # None /\ Cancelled # Closed

VARIABLES
    mode,       \* SharedSelection.mode
    region,     \* its owner, drag and rectangle
    picked,     \* its selected_monitor and selected_window
    delay,      \* its delay
    pressed,    \* monitors whose GestureDrag is between begin and end
    finalised,  \* commit() or cancel() has gone through
    countdown,  \* seconds left of the countdown timer; 0: countdown_source is None
    blanking,   \* the 50 ms timer of blank_and_dismiss is armed
    outcome,    \* the SelectorOutcome the timers' closures own
    windows,    \* the windows that are up
    host,       \* the ToolbarHost
    tornDown,   \* TornDown
    following,  \* focus_shutdown still holds the sender
    reader,     \* the task that reads focus events runs
    focus,      \* a monitor in the watch channel that was not seen yet
    loop,       \* attach_focus is still waiting for changes
    answer,     \* what the oneshot of the caller got
    escaped     \* Escape has been pressed (history)

selection == <<mode, region, picked, delay, pressed>>
focusing == <<reader, focus, loop>>
vars == <<selection, finalised, countdown, blanking, outcome, windows, host, tornDown,
          following, focusing, answer, escaped>>

-----------------------------------------------------------------------------
Modes == {"Region", "Screen", "Window", "Full"}

(***************************************************************************)
(* drag "new": the rectangle is the draft, None while it is degenerate;    *)
(* "idle" and "adjust" (resize or move): it is the settled rectangle.      *)
(* `start` and `current` are dead once a drag has ended: either the draft  *)
(* was settled, or it was degenerate.                                      *)
(***************************************************************************)
Regions == [owner : Monitors \cup {None}, drag : {"idle", "new", "adjust"},
            rect : Rects \cup {None}]
NoRegion == [owner |-> None, drag |-> "idle", rect |-> None]

\* SelectorOutcome; `of` tells what the selection designates.
Outcomes == [sel : {"Region"}, of : Monitors \X Rects, edit : BOOLEAN]
            \cup [sel : {"Output"}, of : Monitors, edit : BOOLEAN]
            \cup [sel : {"Picked"}, of : Windows, edit : BOOLEAN]
            \cup [sel : {"Window", "Full"}, of : {None}, edit : BOOLEAN]

ASSUME NoneIsNoOutcome == None \notin Outcomes

\* resolve_selection: a set with the outcome, or empty for None.
Resolved(local, edit) ==
    CASE mode = "Region" ->
            IF region.owner # None /\ region.rect # None
            THEN {[sel |-> "Region", of |-> <<region.owner, region.rect>>, edit |-> edit]}
            ELSE {}
      [] mode = "Screen" ->
            {[sel |-> "Output", edit |-> edit,
              of |-> IF picked.monitor # None THEN picked.monitor ELSE local]}
      [] mode = "Window" ->
            IF picked.window # None
            THEN {[sel |-> "Picked", of |-> picked.window, edit |-> edit]}
            ELSE {[sel |-> "Window", of |-> None, edit |-> edit]}
      [] mode = "Full" ->
            {[sel |-> "Full", of |-> None, edit |-> edit]}

\* build_overlays: a window on each monitor, the toolbar on the focused one, the
\* focused monitor and window picked when the window manager reported them.
Init ==
    /\ mode \in Modes
    /\ region = NoRegion
    /\ picked \in [monitor : Monitors \cup {None}, window : Windows \cup {None}]
    /\ delay \in 0..MaxDelay
    /\ pressed = {}
    /\ finalised = FALSE
    /\ countdown = 0
    /\ blanking = FALSE
    /\ outcome = None
    /\ windows = Monitors
    /\ \E m \in Monitors : host = Placed(m) /\ picked.monitor \in {m, None}
    /\ tornDown = FALSE
    /\ following = TRUE
    /\ reader = TRUE
    /\ focus = None
    /\ loop = TRUE
    /\ answer = None
    /\ escaped = FALSE

\* Input reaches a window that is up, while the GTK loop runs.
Reaches(m) == m \in windows /\ answer # Closed

session == <<finalised, countdown, blanking, outcome, windows, host, tornDown,
             following, focusing, answer, escaped>>

-----------------------------------------------------------------------------
(* The shared selection: toolbar, drags and clicks.  None of these handlers *)
(* looks at `finalised`, so all of them also happen during a countdown.     *)

\* Defect: the region survives a switch to another mode.
ModeSelected_KeepsRegion(m) ==
    /\ \E w \in Monitors : Reaches(w)
    /\ mode' = m
    /\ UNCHANGED <<region, picked, delay, pressed, session>>

ModeSelected(m) ==
    /\ \E w \in Monitors : Reaches(w)
    /\ mode' = m
    /\ region' = IF m = "Region" THEN region ELSE NoRegion
    /\ UNCHANGED <<picked, delay, pressed, session>>

DelayChanged(d) ==
    /\ \E w \in Monitors : Reaches(w)
    /\ delay' = d
    /\ UNCHANGED <<mode, region, picked, pressed, session>>

\* drag-begin outside Region mode resets the gesture: nothing begins.  In it,
\* the press grabs this monitor's settled rectangle ...
DragBeginsOnRegion(m) ==
    /\ Reaches(m)
    /\ m \notin pressed
    /\ mode = "Region"
    /\ region.owner = m
    /\ region.rect # None
    /\ region' = [region EXCEPT !.drag = "adjust"]
    /\ pressed' = pressed \cup {m}
    /\ UNCHANGED <<mode, picked, delay, session>>

\* ... or starts a new one here, dropping one that another monitor owns.
DragBeginsAfresh(m) ==
    /\ Reaches(m)
    /\ m \notin pressed
    /\ mode = "Region"
    /\ region' = [owner |-> m, drag |-> "new", rect |-> None]
    /\ pressed' = pressed \cup {m}
    /\ UNCHANGED <<mode, picked, delay, session>>

\* A gesture acts on the region its own monitor owns and leaves any other alone.
Owned(m) == mode = "Region" /\ region.owner = m

\* Where the pointer takes the rectangle; a draft may be degenerate.
Dragged(r) ==
    /\ region.drag = "adjust" => r # None
    /\ region.drag # "idle"

DragUpdate(m) ==
    /\ Reaches(m)
    /\ m \in pressed
    /\ Owned(m)
    /\ \E r \in Rects \cup {None} :
         Dragged(r) /\ region' = [region EXCEPT !.rect = r]
    /\ UNCHANGED <<mode, picked, delay, pressed, session>>

DragEnd(m) ==
    /\ Reaches(m)
    /\ m \in pressed
    /\ pressed' = pressed \ {m}
    /\ IF ~Owned(m) \/ region.drag = "idle"
       THEN region' = region
       ELSE \E r \in Rects \cup {None} :
              Dragged(r) /\ region' = [region EXCEPT !.rect = r, !.drag = "idle"]
    /\ UNCHANGED <<mode, picked, delay, session>>

\* A click in Screen mode picks the monitor, one in Window mode the window under
\* the pointer, if there is one.
Click(m) ==
    /\ Reaches(m)
    /\ \/ mode = "Screen" /\ picked' = [picked EXCEPT !.monitor = m]
       \/ mode = "Window" /\ \E w \in Windows : picked' = [picked EXCEPT !.window = w]
    /\ UNCHANGED <<mode, region, delay, pressed, session>>

-----------------------------------------------------------------------------
(* Commit, countdown, teardown, Escape.                                    *)

\* Defect: the host keeps its slots.
Dismiss_KeepsSlots ==
    /\ tornDown' = TRUE
    /\ windows' = {}
    /\ host' = host

\* dismiss_overlays.
Dismiss ==
    /\ tornDown' = TRUE
    /\ windows' = {}
    /\ host' = Cleared

\* Defect: the countdown starts one second too high.
Commit_OneMore(m, edit) ==
    /\ Reaches(m)
    /\ ~finalised
    /\ \E o \in Resolved(m, edit) : outcome' = o
    /\ finalised' = TRUE
    /\ countdown' = IF delay = 0 THEN 0 ELSE delay + 1
    /\ blanking' = (delay = 0)
    /\ following' = (delay > 0)
    /\ UNCHANGED <<selection, windows, host, tornDown, focusing, answer, escaped>>

\* Defect: no delay, no timer: the caller is answered while the windows are up.
Commit_AnswersAtOnce(m, edit) ==
    /\ Reaches(m)
    /\ ~finalised
    /\ \E o \in Resolved(m, edit) :
         /\ outcome' = o
         /\ answer' = IF delay = 0 THEN o ELSE answer
    /\ finalised' = TRUE
    /\ countdown' = delay
    /\ following' = (delay > 0)
    /\ UNCHANGED <<selection, blanking, windows, host, tornDown, focusing, escaped>>

(***************************************************************************)
(* Enter, Capture or Annotate on window m.  The outcome is fixed here; the *)
(* timer that carries it is the countdown's, or with no delay that of      *)
(* blank_and_dismiss.  A selection that cannot be resolved is ignored.     *)
(***************************************************************************)
Commit(m, edit) ==
    /\ Reaches(m)
    /\ ~finalised
    /\ edit => AllowAnnotate
    /\ \E o \in Resolved(m, edit) : outcome' = o
    /\ finalised' = TRUE
    /\ countdown' = delay
    /\ blanking' = (delay = 0)
    /\ following' = (delay > 0)
    /\ UNCHANGED <<selection, windows, host, tornDown, focusing, answer, escaped>>

CountdownTicks ==
    /\ countdown > 1
    /\ answer # Closed
    /\ countdown' = countdown - 1
    /\ UNCHANGED <<selection, finalised, blanking, outcome, windows, host, tornDown,
                   following, focusing, answer, escaped>>

\* Defect: the timer's id stays in countdown_source.
CountdownEnds_KeepsId ==
    /\ countdown = 1
    /\ answer # Closed
    /\ blanking' = TRUE
    /\ following' = FALSE
    /\ UNCHANGED <<selection, finalised, countdown, outcome, windows, host, tornDown,
                   focusing, answer, escaped>>

\* Defect: the focus reader is not told to stop.
CountdownEnds_KeepsFollowing ==
    /\ countdown = 1
    /\ answer # Closed
    /\ countdown' = 0
    /\ blanking' = TRUE
    /\ UNCHANGED <<selection, finalised, outcome, windows, host, tornDown,
                   following, focusing, answer, escaped>>

\* The last tick forgets the timer and goes on to blank_and_dismiss.
CountdownEnds ==
    /\ countdown = 1
    /\ answer # Closed
    /\ countdown' = 0
    /\ blanking' = TRUE
    /\ following' = FALSE
    /\ UNCHANGED <<selection, finalised, outcome, windows, host, tornDown,
                   focusing, answer, escaped>>

\* Defect: the choice is resolved again when it is delivered.
BlankElapses_ResolvesAgain ==
    /\ blanking
    /\ answer # Closed
    /\ blanking' = FALSE
    /\ Dismiss
    /\ \E o \in Resolved(host.current, outcome.edit) : answer' = o
    /\ UNCHANGED <<selection, finalised, countdown, outcome, following, focusing, escaped>>

\* The compositor has had its blank frames: destroy the windows, then answer.
BlankElapses ==
    /\ blanking
    /\ answer # Closed
    /\ blanking' = FALSE
    /\ Dismiss
    /\ answer' = IF answer = None THEN outcome ELSE answer
    /\ UNCHANGED <<selection, finalised, countdown, outcome, following, focusing, escaped>>

\* Defect: `finalised` is looked at after the timer has been removed.
Cancel_FinalisedFirst(m) ==
    /\ Reaches(m)
    /\ escaped' = TRUE
    /\ countdown' = 0
    /\ finalised' = TRUE
    /\ IF ~finalised
       THEN /\ Dismiss
            /\ following' = FALSE
            /\ answer' = Cancelled
       ELSE UNCHANGED <<windows, host, tornDown, following, answer>>
    /\ UNCHANGED <<selection, blanking, outcome, focusing>>

\* Escape on window m: a countdown is cancelled, and so is a session that is not
\* finalised; otherwise it comes too late and does nothing.
Cancel(m) ==
    /\ Reaches(m)
    /\ escaped' = TRUE
    /\ IF countdown > 0 \/ ~finalised
       THEN /\ countdown' = 0
            /\ finalised' = TRUE
            /\ following' = FALSE
            /\ Dismiss
            /\ answer' = IF answer = None THEN Cancelled ELSE answer
       ELSE UNCHANGED <<countdown, finalised, following, windows, host, tornDown, answer>>
    /\ UNCHANGED <<selection, blanking, outcome, focusing>>

\* The application ends from outside (the compositor closes the windows): run_gtk
\* answers after app.run, and no handler or timer runs any more.
AppEnds ==
    /\ answer = None
    /\ answer' = Closed
    /\ UNCHANGED <<selection, finalised, countdown, blanking, outcome, windows, host,
                   tornDown, following, focusing, escaped>>

-----------------------------------------------------------------------------
(* Focus: the reader (wm::subscribe_focus) and attach_focus.               *)

\* The window manager reports monitor m; the channel keeps the latest only.
FocusMoves(m) ==
    /\ reader
    /\ focus' = m
    /\ UNCHANGED <<selection, finalised, countdown, blanking, outcome, windows, host,
                   tornDown, following, reader, loop, answer, escaped>>

\* The reader ends: it was told to, or its connection broke.
ReaderEnds ==
    /\ reader
    /\ reader' = FALSE
    /\ UNCHANGED <<selection, finalised, countdown, blanking, outcome, windows, host,
                   tornDown, following, focus, loop, answer, escaped>>

\* One turn of attach_focus with a change: after a teardown it gives up.
FocusSeen ==
    /\ loop
    /\ focus # None
    /\ focus' = None
    /\ IF tornDown THEN loop' = FALSE /\ host' = host
                   ELSE loop' = loop /\ host' = MoveTo(host, focus)
    /\ UNCHANGED <<selection, finalised, countdown, blanking, outcome, windows,
                   tornDown, following, reader, answer, escaped>>

\* The channel is closed and every change seen.
FocusLoopEnds ==
    /\ loop
    /\ focus = None
    /\ ~reader
    /\ loop' = FALSE
    /\ UNCHANGED <<selection, finalised, countdown, blanking, outcome, windows, host,
                   tornDown, following, reader, focus, answer, escaped>>

-----------------------------------------------------------------------------
\* The session is over.
Over ==
    /\ answer # None
    /\ UNCHANGED vars

Next ==
    \/ \E m \in Modes : ModeSelected(m)
    \/ \E d \in 0..MaxDelay : DelayChanged(d)
    \/ \E m \in Monitors :
         \/ DragBeginsOnRegion(m) \/ DragBeginsAfresh(m) \/ DragUpdate(m) \/ DragEnd(m)
         \/ Click(m) \/ Cancel(m) \/ FocusMoves(m)
         \/ \E edit \in BOOLEAN : Commit(m, edit)
    \/ CountdownTicks
    \/ CountdownEnds
    \/ BlankElapses
    \/ AppEnds
    \/ ReaderEnds
    \/ FocusSeen
    \/ FocusLoopEnds
    \/ Over

\* GLib dispatches every timer and future that is ready; the reader selects on
\* its shutdown.  Nothing makes a user, the window manager or AppEnds act.
Fairness ==
    /\ WF_vars(CountdownTicks)
    /\ WF_vars(CountdownEnds)
    /\ WF_vars(BlankElapses)
    /\ WF_vars(~following /\ ReaderEnds)
    /\ WF_vars(FocusSeen)
    /\ WF_vars(FocusLoopEnds)

Spec == Init /\ [][Next]_vars

FairSpec == Spec /\ Fairness

-----------------------------------------------------------------------------
TypeOK ==
    /\ mode \in Modes
    /\ region \in Regions
    /\ picked \in [monitor : Monitors \cup {None}, window : Windows \cup {None}]
    /\ delay \in 0..MaxDelay
    /\ pressed \subseteq Monitors
    /\ finalised \in BOOLEAN
    /\ countdown \in 0..MaxDelay
    /\ blanking \in BOOLEAN
    /\ outcome \in Outcomes \cup {None}
    /\ windows \subseteq Monitors
    /\ host \in Hosts
    /\ tornDown \in BOOLEAN
    /\ following \in BOOLEAN
    /\ reader \in BOOLEAN
    /\ focus \in Monitors \cup {None}
    /\ loop \in BOOLEAN
    /\ answer \in Outcomes \cup {None, Cancelled, Closed}
    /\ escaped \in BOOLEAN

(***************************************************************************)
(* The shared region is coherent across monitors: it exists in Region mode *)
(* only, a rectangle has an owner, a drag in progress is that of a button  *)
(* held on the owner's window, and what is being resized exists.  Presses  *)
(* and releases on several monitors interleave with mode shortcuts.        *)
(***************************************************************************)
RegionCoherent ==
    /\ mode # "Region" => region = NoRegion
    /\ region.owner = None => region = NoRegion
    /\ region.drag # "idle" => region.owner \in pressed
    /\ region.drag = "adjust" => region.rect # None

(***************************************************************************)
(* The timer is the choice's only way to the caller: a session in which a  *)
(* choice is fixed and not answered has exactly one timer armed, and no    *)
(* timer survives an answer (it would dismiss windows that are gone, or be *)
(* removed twice).                                                         *)
(***************************************************************************)
OneTimerPerChoice ==
    answer # Closed =>
        /\ ~(countdown > 0 /\ blanking)
        /\ (countdown > 0 \/ blanking) <=> (finalised /\ answer = None)

(***************************************************************************)
(* The capture does not see the selector: the caller is answered once all  *)
(* windows are destroyed and the host has forgotten them.                  *)
(***************************************************************************)
AnswerAfterUnmap ==
    answer \notin {None, Closed} => windows = {} /\ host = Cleared /\ tornDown

\* ToolbarHost's promise, whatever focus events do before and after a teardown.
KeyboardFollowsToolbar == KeyboardWithToolbar(host, windows)

\* The choice is fixed once and delivered as it was fixed.
Pick == INSTANCE PickOnce
            WITH Choices <- Outcomes, Refusals <- {Cancelled, Closed},
                 chosen <- outcome, answer <- answer

PickOnceSpec == Pick!Spec

\* A session that was committed or cancelled is answered: a countdown or a
\* blanking that has begun never leaves the caller waiting.
FinalisedIsAnswered == finalised ~> (answer # None)

\* Neither the reader of focus events nor the loop it feeds outlives the windows
\* ("would otherwise leak a connection per cycle", stop_focus).
FollowerEnds == tornDown ~> (~reader /\ ~loop)

-----------------------------------------------------------------------------
(***************************************************************************)
(* "Esc cancels at any time" (the header of selector.rs): a session in     *)
(* which Escape was pressed does not deliver a choice.  Once the 50 ms     *)
(* timer of blank_and_dismiss is armed, the windows still have the         *)
(* keyboard but cancel() returns early.                                    *)
(***************************************************************************)
EscCancels == escaped => answer \notin Outcomes

=============================================================================
