# snypr in TLA+

snypr is a screenshot and annotation tool for wlroots compositors: a command
line, a daemon with a tray icon, a region selector and a drawing overlay built
with GTK 4 and layer-shell, a screencopy client, and file and clipboard sinks.
It is one Rust crate; paths below are relative to the repository (`src/...`).

This directory holds TLA+ models of the parts of it where the order of events
decides the outcome, the TLC configurations that check them on small
instances, and TLAPS proofs of their main safety properties for every instance.

| file | what it is |
|---|---|
| `Daemon.tla` | the daemon: overlay slot, editor lock, screenshot requests, quit |
| `EditorGate.tla` | abstract: what the daemon promises about edit requests |
| `ToolbarHost.tla` | operators for the toolbar shared by per-monitor windows |
| `Selector.tla` | one session of the interactive selector |
| `PickOnce.tla` | abstract: what a selector promises its caller |
| `OverlaySession.tla` | one session of the draw overlay: passthrough, Save, Blur |
| `Canvas.tla`, `Annotating.tla` | drawing: a canvas as a value; the canvases of all monitors under one toolbar |
| `Document.tla` | abstract: what becomes of the annotations of a document |
| `TextEdit.tla` | the text editor of a canvas, on the bytes of UTF-8 |
| `LineEdit.tla` | abstract: what typing promises, in lines and columns |
| `Shapes.tla` | the geometry of a shape that is drawn, moved, resized and nudged |
| `Toolbar.tla`, `Pickers.tla` | the toolbar as a value; the toolbar with the canvases, the selector and the dialog it is wired to |
| `Editing.tla` | composes `TextEdit`, `Shapes` and `Pickers` |
| `Region.tla` | operators: rectangles, scaling, stitching, cropping of images |
| `Screencopy.tla` | one capture: frames, two waits, deadlines, unplugged outputs |
| `Sinks.tla` | operators: the list of sinks, the output switcher, file names |
| `Screenshot.tla` | composes the three above into a request, with editor, sinks and clipboard servers |
| `FocusWatch.tla` | following the focus: four backends, a forwarder, two watch channels |
| `WindowList.tla` | asking for the windows and for the active one, over several answers |
| `DaemonSocket.tla` | the socket file over several daemons, and connections to it |
| `Lists.tla` | operators: a list without an entry, a map with one, numbers put in order |
| `Sockets.tla` | composes `FocusWatch`, `WindowList` and `DaemonSocket` |
| `*Proofs.tla` | theorems about the module of the same name and their proofs |
| `Counting.tla` | facts on numbers, finite sets and sequences that the proofs cite |
| `MC*.tla`, `*.cfg` | instances for TLC |
| `PROJECT.json` | runs, mutants, map to the source, hazards, findings, theorems |

To check one: `tlc -config MCDaemon.cfg MCDaemon`; to prove one:
`tlapm DaemonProofs.tla`.

## 1. Inventory

### Daemon (`src/daemon.rs`, `src/ipc.rs`, `src/ui/tray.rs`)

*State.* `DaemonState.overlay`, a mutex over `Option<OverlayHandle>` (a shutdown
oneshot and a command channel); `DaemonState.editor`, a mutex taken only with
`try_lock`; the socket file; one task per connection and per tray action.

*Operations.* Ping, Screenshot, DrawToggle, PassthroughToggle from the socket;
Screenshot, Annotate, OpenDraw, Quit from the tray; Ctrl-C.

*Interactions.* A toggle spawns a task that runs the overlay on a blocking
thread and clears the slot afterwards. A screenshot runs `execute()`: selector
or countdown, capture, then editor or sinks.

*Hard.* Toggles at every point of an overlay's life; GTK allows one
`Application::run` at a time; the slot is cleared by a task that does not know
whose handle it clears; the lock is decided before the selector and the editor
after it; quitting cancels tasks but not blocking threads.

*Correct when* a started overlay can always be stopped, a stop is honoured, the
lock covers exactly the edit requests being served, nothing outlives a quit.

### Selector (`src/ui/selector.rs`)

*State.* `SharedSelection` (mode, owner, drag, rectangle, picked monitor and
window, delay), `finalised`, the countdown's timer id, the registries of
windows and areas, `TornDown`, the caller's oneshot, the focus shutdown sender.

*Operations.* Mode and delay changes, drags and clicks on each monitor, commit
(Enter, Capture, Annotate), Escape, the one-second and the 50 ms timers, focus
events, the end of the application.

*Interactions.* Called by `execute()` with an application of its own, or by the
draw overlay's Save inside the overlay's application. Moves the toolbar with
`ToolbarHost`. A tokio task feeds focus events through a watch channel.

*Hard.* Nothing locks the selection during a countdown; Escape races two
timers; two monitors edit one region; focus events outlive the windows.

*Correct when* the caller gets exactly one answer, the choice as it was fixed
at the commit, after the windows are gone; and nothing is left running.

### Toolbar and its host (`src/ui/toolbar.rs`)

*State.* `ToolbarHost`: per-monitor slots, the current one, passthrough, each
window's keyboard mode. `Toolbar`: radio groups of tools and modes, pickers with
a memory per tool, the output switcher, shortcuts.

*Hard.* A control moves by click, by shortcut, by a canvas that commits, by a
daemon command, by a nested selector; a setter must not be heard as a click.

*Correct when* exactly the window that shows the toolbar has the keyboard, or
none does under passthrough; and the buttons mirror the state they stand for.

### Draw overlay (`src/ui/overlay.rs`)

*State.* The passthrough cell (mirrored in the button and the host), one canvas
and one window per monitor, `blur_capture_in_flight`, the sinks, `TornDown`.

*Operations.* Toolbar actions, daemon commands, focus events, Save, the lazy
capture for Blur, Edit mode's save, teardown.

*Hard.* Save and the Blur capture are coroutines on the GLib thread: between two
awaits anything else happens, a second Save, a command, a teardown. All hide and
show one toolbar and park and restore one passthrough state.

*Correct when* the copies of passthrough agree, a Save leaves no trace and the
toolbar is in no picture, one Blur capture runs at a time and can be retried.

### Annotation canvas and document (`src/ui/canvas.rs`, `src/annotate/`)

*State.* A document (base, ordered layers, crop), the tool, a pending stroke, a
selected layer *index*, the manipulation under way, a text edit that may stand
for a layer taken out of the document, the caret's timer, defaults per tool.

*Hard.* An index kept while layers come and go; undo, clear and tool switches in
the middle of a gesture or a text edit. *Correct when* the selected index is
always that of the layer the user selected, no edit loses a layer, the caret
stands between two characters, and what a drag has grabbed stays in the hand.

### Capture (`src/capture/`)

*State.* Per output a frame object: buffer offered, copy requested, ready or
failed; a deadline; a shared-memory pool. Pure geometry: crop, scale, stitch.

*Hard.* The compositor answers late, fails one frame of several, or goes away;
outputs of different scale are stitched. *Correct when* a capture always ends,
never reads a buffer that is not ready, and every pixel comes from the output
that shows it.

### Screenshot pipeline and sinks (`src/cli/screenshot.rs`, `src/save.rs`, `src/output/`)

*State.* None that lasts, except the paths collected and the served clipboard.

*Hard.* Sinks are written in sequence and one may fail; one run per output; the
clipboard is served by a forked helper or by a thread of the daemon. *Correct
when* a reported path was written, and the last copy is what is pasted.

### Window manager backends (`src/wm/`)

*State.* A socket per query, an event stream per subscription, niri's maps of
workspaces and outputs, foreign-toplevel's pending and committed windows.

*Hard.* Events and initial state race; streams end; one call needs several
answers. *Correct when* the toolbar ends up on the focused output, a reader ends
when told to, and a window found under the pointer was there.

### The rest

Configuration, command line, doctor, i18n, notifications, styles, packaging:
pure functions over strings, I/O or layout, without state over time.

## 2. Plan

| order | modules | state |
|---|---|---|
| 1 | `EditorGate`, `Daemon`, `DaemonProofs` | done |
| 2 | `PickOnce`, `ToolbarHost`, `Selector`, `SelectorProofs` | done |
| 3 | `OverlaySession`, `OverlayProofs` | done |
| 4 | `Document`, `Canvas`, `Annotating`, `AnnotatingProofs` | done |
| 5 | `Region`, `Screencopy`, `Sinks`, `Screenshot`, `ScreenshotProofs`: capture, sinks and clipboard in one request | done |
| 6 | `FocusWatch`, `WindowList`, `DaemonSocket`, `Lists`, `Sockets`, `SocketsProofs` | done |
| 7 | `LineEdit`, `TextEdit`, `Shapes`, `Toolbar`, `Pickers`, `Editing`, `EditingProofs` | done |

Nothing of the plan is open; section 6 says what stays outside it.

## 3. The models

### Daemon

Each handler of `DaemonState` is one action, for the slot's mutex is never held
across an await: `ToggleOff` and `ToggleOn` are the two branches of
`toggle_overlay`, `CleanUp` the end of the spawned task. A handle is represented
by its owner in `slot` and its oneshot by `signal` (armed, sent, dropped: a
dropped sender resolves the receiver too, which `attach_shutdown` relies on).
`shown` is the life of an overlay's task. A screenshot request is a `job` at a
stage of `execute()`, one action per await; `asked` is the request's flag, `edit`
the flag `execute()` goes by after the selector. `Quit` is the return of
`serve`: every task is dropped where it is, the lock and the handle with it,
while blocking threads already started go on (`orphan`).

GTK is external: one `Application::run` at a time in `gtk`, a refusal at any
time (busy main context, application id held by another process, no monitor).
`Overlays` are identities, reused after clean-up; `Clients` are the connections
and tray actions in progress.

### Selector

An action is one signal handler, one timer callback or one turn of the focus
loop: all run on the GLib thread. The region keeps its owner, the kind of drag
and a rectangle from a small set (`None` while degenerate); hit-testing is a
choice between the gestures it can lead to. `countdown` is the remaining seconds,
and `countdown > 0` means that the timer's id is recorded; `blanking` is the 50
ms timer; `outcome` is the value the timers' closures own. `Dismiss` is
`dismiss_overlays` with the host's `clear`. The window manager's events are a
watch channel of one unseen value, `focus`, written by `FocusMoves` while the
`reader` task lives.

`ToolbarHost` is a value and its methods are operators on it, because both the
selector and the overlay own one.

### OverlaySession

`Saves` and `Blurs` are identities of coroutines. `run_draw_save` is `SaveParks`,
`SelectorOpens`, `SelectorCommits` or `SelectorFails`, `SaveCaptured`, with
`prev` the passthrough it read; `ensure_draw_blur_base` is `BlurHides`,
`BlurCaptures`, `BlurCaptured`. The nested selector is represented by its answer:
`Selector` says what that answer can be. `Answerable` is the one timing
assumption: a selector is answered by a person, many turns of the main loop after
it was opened, when the coroutines spawned earlier have started. `asked` and
`mixed` are history: the last passthrough value anyone asked for, and whether a
Save was ever interfered with; so is `untold`, a passthrough the overlay was
opened with and the host has not heard of.

### Canvas, Annotating, Document

A canvas is a record with the fields of `AnnotationCanvas`, and the functions of
the code map a canvas to a canvas; `Annotating` holds one per monitor, the shared
tool, the buttons, and the pointer, of which there is one. An action is one GTK
signal, with everything it runs through `on_change` and `apply_tool` on the
other canvases. A layer has an identity the code does not have, so that an index
can be told stale: `Grips` pairs the index with the annotation it was taken for.
`sources` are the blink timers alive in the main loop. `Document` knows only
which annotations each document holds; `lifted` is the one out for an edit.

### TextEdit and LineEdit

`TextEdit` is `PendingText` byte by byte: a byte is a character and its place in
the encoding, and the caret an offset, so that every walk to a boundary is the
walk of the code. `LineEdit` is an editor of lines and columns. The bridge in
`Editing` reads lines, row and column off the bytes; it is partial, and a caret
inside a character or half a character has no image.

### Shapes

Pointers are in half pixels and rectangles in whole ones, so that `floor`,
`ceil`, `round` and `as i32` differ as they do in the code. `BeginStroke` to
`EndStroke` and `BeginSelect` to `EndSelect` are the two lives of a drag in
`install_drag`; `GrabAt` is the hit test, `ApplyManipulation` the moves. A label
is two words of a fixed width: Pango is external.

### Toolbar and Pickers

A toolbar is a value; what the user does maps it to a toolbar and the action it
says, a setter says nothing. `Pickers` gives that action to the overlay (with
the canvases of `Canvas`, which each remember colour, style and size per tool),
or to the selector. A gesture on a canvas is one step, its inside being
`Annotating`'s. A behaviour follows one of the three pickers, which are alike and
share nothing, and either the drawing or the other controls. `told` is what the
owner believes: a delay as it was asked for (`Delays`), of which the spinner
shows up to 60. `landed` is where the last pick went.

### Screenshot, with Screencopy, Region and Sinks

`stage` is where `execute()` is; each await or blocking call is one action.
`Screencopy` has the two waits of `capture_blocking`: a frame is a `FrameSlot`,
`asked` what the compositor still owes for it, `clock` the ticks since the wait
began. A pixel is named for what it shows (an output and a cell of its screen), so
that stitching and cropping are checked by what a pixel *should* show: the cell
under its centre.
`servers` are the clipboard's helper processes and threads, `pipe` the bytes of
the helper's handshake, `owner` who a paste comes from. `disk` maps a path to
the picture in it, or to `Torn`: a failed write truncates. `Overtaken`,
`HelperKilled` and the compositor's silence are the environment's.

### Sockets: FocusWatch, WindowList, DaemonSocket

Three conversations that share no state: `topic` picks the one a behaviour
follows. In `FocusWatch` the compositor has windows on outputs and one of them
active, and sends each backend what that backend subscribes to: a name
(Hyprland), "something happened" (Sway, Niri), or what became of each window
(foreign toplevel), which `PumpDispatches` reads cut at any place. `told` says
that the present focus is announced or will be. In `WindowList` a layout is the
workspace each output shows (0: it is unplugged), its special workspace, and
where each workspace is. On every backend the user switches, moves and toggles
workspaces and unplugs outputs between the queries; each answer is written from
the layout at the moment of its query, `moments` are the layouts since the call
began, and `Mixed` says that a workspace changed outputs while a call of several
queries was under way. Sway's tree is walked level by level (`Walked`, to a depth
of `TreeDepth`), which meets windows in the order of the code's two depth-first
walks. `DeskAssumption` is what a compositor says of itself: outputs have
areas and the layout names the workspaces there are, a window has an id of its
own, Hyprland's outputs are their modes turned and scaled, Sway's tiles lie
inside their output; only Hyprland lists windows that are not mapped and has
special workspaces. In `DaemonSocket` the socket file leads to the process
that bound it last, dead or alive; `overlapped` are the processes that were not
alone; a line is the request it stands for, blank, or malformed. `DirectJob` is
what a command does by itself, for `draw` the overlay with its flags; `JobOf` is
what the daemon makes of the request that `BuildRequest` sends; `Routed` is what
is due through the daemon, which for a `draw` with flags is not `DirectJob`.

## 4. What is checked

Every property has a mutant in `PROJECT.json`: a variant of one definition, in
the same module and named `<Definition>_<Defect>`, that breaks it.

**`daemon`** (2 clients, 3 overlays, 156 384 states). `SoleStopper`: an overlay
that was not told to stop is the one in the slot. `LockCoversRequest`: the lock
is held exactly while a request that asked for the editor is served.
`StopIsHonoured`, `DeadHandleReleased`, `QuitEndsOverlays`: what must eventually
happen. `GateSpec`: the daemon implements `EditorGate`. Three overlays are one
closing, one dead and one pending at once, the most that can differ before
clean-up; two clients are enough for every contention over one lock and one GTK.

**`selector`** (2 monitors, 1 rectangle, 1 window, delays 0 to 2 s, 649 296
states). `RegionCoherent`, `OneTimerPerChoice`, `AnswerAfterUnmap`,
`KeyboardFollowsToolbar`: the state never goes wrong. `PickOnceSpec`: one answer,
as fixed at the commit, for all the edits that follow. `FinalisedIsAnswered`,
`FollowerEnds`: an answer comes, the focus reader stops. Two monitors make
ownership change hands; two seconds make a tick that is not the last. Annotate is
off here and on in `esc_cancels`: it only sets a field of the outcome.

**`overlay_session`** (2 monitors, 2 Saves, 2 Blurs, 2 unread commands, 46 590
states). `InputCoherent`: cell, button, host and keyboard agree, also when a Save
resumes after the teardown. `OneBlurCapture`: the flag and the capture agree.
`LoneSaveIsTransparent`: a Save nobody interferes with restores what the user
last asked for. `CapturesEnd`: a capture that began ends. Identities are reused,
so two of each give every overlap of a pair.

**`annotating`** (2 monitors, 1 kind of stroke beside Text, Number and Crop, 2
annotations, 538 488 states). `GripsDenote`: an index names the layer it was
taken for. `CaretTimerOwned`: no blink timer is leaked or removed twice.
`ToolsCoherent`: buttons, shared tool and all canvases agree. `DocumentSpec`: the
canvases implement `Document`, so no edit loses or doubles a layer. Two
annotations are a selection under a layer that goes away, an edit opened on the
lower of two, and a stroke cut short while another exists; strokes differ only
in their geometry.

**`editing`** (704 360 states). Text: a letter of one byte, one of two, a newline,
5 bytes, so that a caret may be inside a character of three lines. Shapes: nine
kinds, five places of the pointer (off the document, between pixels, on both
sides of each other), two Select drags, one arrow key in between. Toolbar: 2
monitors, 4 toolbars as they are built, delays of 0 and 90 s asked for, 2
colours, 1 pick, 2 annotations.
`LineEditSpec`: keys on bytes are keys on lines. `GripFollows`: what a drag has
grabbed stays under the pointer through every move. `ToolbarTells`: the controls
show what the next annotation will have and what the owner goes by (of a delay up
to 60 s), a pick reaches every target, and the dialog gives the keyboard back.

**`screenshot`** (5 desktops of at most 2 outputs, 11 requests, a deadline of 1
tick, 2 saves, 166 730 states). `WholeCapture`: a success has a filled buffer of
every output asked for. `PixelsInPlace`: each pixel shows the screen cell under
its centre, with its bytes in the right order, and nothing of an output is cut
off unless a region was asked for, over gaps, negative coordinates, mirrored
outputs, scale 4/3 and 2. `SuccessIsComplete`: the paths reported are written and
whole, each sink has a file of every picture, the only one at the path that was
named; several pictures for one named path are left out. `PasteYieldsLast`: a
paste gives the last picture. `SwitchingIsLossless`: the editor's switcher loses
no path or selection. `RequestReturns`: a request past its selection gets to an
answer. One tick tells a first wait that used up its time from a second that must
have its own; the requests combine every selection with sinks that may disturb
each other.

**`sockets`** (711 189 states). Focus: 2 outputs, 2 windows, 3 changes, 1 failed
query, 4 backends or none: there, away and back. Windows: 6 desks on a rotated
monitor and one of scale 3/2, 3 changes of the layout within a call (a
workspace switched, moved or toggled, an output unplugged). Daemon: 3
processes, 1 client, 4 scripts: a file left by one, taken by another, while a
third starts. `FollowsFocus`: once the focus rests and was announced, the toolbar
comes to it. `ReadersStop`: a toolbar that closes ends its readers.
`HitIsShown`: what a click finds was there at one moment of the call, whatever
was moved meanwhile, and if no workspace changed outputs the whole list is true
of one moment.
`SoleDaemonServes`: a daemon that lives alone serves. `AnsweredTruly`: answers in
order, each for what its line asks: of a screenshot exactly the capture the same
arguments make without the daemon, of `draw` the toggle or the overlay that
`draw` opens without flags and without the pointer.

**Violations.** Five runs check one sentence of the code's own comments each, and
TLC finds a behaviour of the code that breaks it; `PROJECT.json` quotes the
sentence.

| run | what happens |
|---|---|
| `cleanup_drops_own_handle` | the clean-up of an overlay drops the handle of its successor, which then closes by itself |
| `editors_serialised` | Annotate in the selector reaches the editor without the lock |
| `esc_cancels` | Escape in the 50 ms after the commit is ignored |
| `saved_as_shown` | Edit mode's Save while a text edit is open leaves the text out of the picture |
| `no_toolbar_in_frame` | two Saves, or a Save and a Blur capture, show the toolbar to each other's capture |

**Fairness.** `Daemon`: each step of an overlay's task is weakly fair, because
tokio runs ready tasks and GLib ready sources; users, clients and GTK's choice
between appearing and refusing are not. `Selector`: the two timers, the end of
the application and the focus loop; not the user, so a selector may stay open
for ever. `OverlaySession`: the stretches of the coroutines and the command loop,
while the main loop runs (`~tornDown`); a capture ends because the screencopy
client gives up after a timeout (`src/capture/wlr.rs`, `wait_until`).
`Screenshot`: `execute()` and the clock (`Progress`), and a helper that was
forked getting through its own start (`HelperStarts`); neither the user nor the
compositor owes anything. The second is an assumption: the first byte of the
handshake is read without a deadline (`src/output/clipboard.rs:238`).
`FocusWatch`: the tasks of the tokio pool and the toolbar's loop; a task that was
told to stop does stop, because `select!` polls both; a connection or a query is
answered or fails. The end of a stream is not fair. `Annotating`, `Editing`,
`WindowList` and `DaemonSocket` have safety properties only.

**Deadlock** is checked where a state without a successor would be a fault:
`Exited`, `Over` and `Returned` are the states in which the process, the session
or the request is over. In `annotating`, `editing` and `sockets` the user may run
out of bounded annotations, drags or changes, or everything has ended, and the
check is off.

## 5. What is proved

All theorems are about `Spec` with the constants unconstrained but for the named
assumptions of the modules: `DaemonAssumption` (identities of clients and
overlays are distinct), `HostAssumption`, `SelectorAssumption`,
`NoneIsNoOutcome`, `OverlayAssumption`, `CanvasAssumption`,
`ScreenshotAssumption`, `DeadlineAssumption`, `SocketAssumption` (absent values
are no values; bounds are naturals; requests are well formed); `RegionAssumption`
(regions are rectangles); `DesktopAssumption` (outputs have an area, in points
and in pixels, and one buffer format, which the stitching relies on,
`src/capture/region.rs:132`; they have names of their own, as the compositor
gives them, and no request names a path that the template gives to an output:
both are cases of section 6 where files are overwritten); `DeskAssumption`
(section 3); `WatchAssumption` (bounds are naturals, the backends are those of
`detect`); `ScriptsAssumption` (the lines a client writes are blank, malformed,
or what the command line parser accepts); `PickersAssumption` (bounds and delays
are naturals); `EditingAssumption` (points and documents are pairs of whole half
pixels, the kinds are those of `ToolKind`, a character is 1 to 4 bytes, and
`None` is no number and no text). The sets of monitors, clients, overlays,
rectangles, Saves and so on may be infinite.

- `Counting`. Induction stated of a set (`SetInduction`: from the well-foundedness
  of `<`, since an induction theorem over an operator cannot be instantiated) and
  the increasing enumeration of a finite set of numbers (`Enumerated`,
  `IncreasingOnto`), the greatest number of one (`HasGreatest`), and what a
  quotient is (`DivUnique`: the one q whose multiple is at most that far below),
  because the SMT solver does not divide by a variable. Cited where a definition
  is a recursive function, an enumeration or a scaling.

- `DaemonProofs`. `TypeCorrect`; `StopperOwned` (`SoleStopper` is inductive
  relative to the types); `LockSafe` (so is `LockCoversRequest`);
  `GateImplemented`, because under both invariants the requests inside the gate
  are exactly the holder of the lock, so a step that changes the lock enters or
  leaves and no other step moves the gate.
- `SelectorProofs`. `SelectionInv` (the shared selection, touched only by the
  selecting handlers) and `SessionInv` are inductive together. `SessionInv`
  strengthens the two timer properties: without a commit there is no outcome and
  no timer, a timer implies an outcome, and an answer implies `finalised`;
  without these `BlankElapses` could answer `None`. From them: `RegionSafe`,
  `TimerSafe`, `UnmapSafe`, and `PickOnceImplemented`. `HostInv` adds windows,
  host and focus: `KeyboardSafe`, `TypeCorrect`. What each method of the host
  preserves is lemmas of its own, here and in `OverlayProofs`.
- `OverlayProofs`. `InputInv` strengthens `InputCoherent` by the type of the
  value a Save restores and by "a host without a slot has no current one":
  without it a restore after the teardown could give the keyboard to a window.
  `InputSafe`, `BlurSafe`, `TypeCorrect`. `LoneInv` strengthens
  `LoneSaveIsTransparent` to the time while the Save is under way: as long as
  nothing mixed, at most one Save is parked and what it will restore is what the
  user asked for last, and a hidden toolbar has somebody who will show it:
  `LoneSaveSafe`.
- `AnnotatingProofs`. `Sound` is what every canvas keeps: an index is in range
  and names its annotation only because every function that shortens or reorders
  the layers also forgets selection and grab; a timer is known exactly while a
  text edit is open. Each function of `Canvas` has a lemma that it keeps `Sound`;
  a layer lemma says which sequences keep the indices below (`AddedAbove`).
  `Under` ties canvases to the shared tool. From `Inv`: `GripsSafe`, `TimerSafe`,
  `ToolsSafe`, `TypeCorrect`, for any monitors, strokes and number of
  annotations. `DocumentImplemented`: under the mapping of `Annotating`
  (`docLayers`, `docLifted`, `docUsed`) every step is, on each monitor at once,
  one of Grow, Lift and Discard. It needs `DocInv`: identities in use were handed
  out before, and what an edit would restore has the identity of the edit. The
  longest cases are those that end one edit and begin another in a step.
- `ScreenshotProofs`. `CopyInv`: a frame marked done was filled, and `captured`
  is reached only when all are settled and none failed: `CaptureSafe`, for any
  desktop and deadline. `SinkInv` bounds the sink being written by the list as
  resolved; with `SwitchInv` (the switcher keeps the first path and the first
  kind of the list it was made from): `SwitchingSafe`. With `OwnInv` and
  `ClipInv` for the servers: `TypeCorrect`. `SuccessSafe` rests on `DiskInv`:
  what the sinks before the present one have of the pictures before the present
  one, counted, with the paths listed so far; names of different outputs do not
  meet (`DesktopAssumption`), and a path that was named has its picture when
  there is but one. `PasteSafe` rests on an invariant of the clipboard helpers:
  whom a selection belongs to, what that server holds, and what the parent may
  still be told, for each place between fork, handshake and exit. `PixelsSafe`,
  for any desktop and any scale: `PixelInv` adds that a region is a rectangle and
  that only a picture that exists is edited or delivered. The composite of
  several outputs is as fine as the finest of them, so a centre belongs to an
  output exactly where the cell under it is one of its cells (`CentreIn`, on
  `Cancel`): by the cell under the *corner* this fails for scales between 1 and
  2, which is how a pixel came to be named by its centre. Then a stitched picture
  shows (`CompositeShows`), a crop moves what is shown (`CutIsImage`), and the
  slices of a picture nobody drew on put it together again (`EditedSame`).
- `SocketsProofs`, all about `Spec` of `Sockets`. Four invariants, one or two for
  each conversation, are combined in `SocketsInv`, because a step of one
  conversation leaves the variables of the others alone; `TypesHold` is their
  types. `WatchInv` types the focus and the events in the stream and in the
  handles: a message is typed by the backend that reads it, so a task may only
  run for a backend there is. `ListInv`: each answer speaks of a layout since the
  call began, the list is made of the answers, and layouts are consistent: what
  an output shows is on it. From it `HitShown`, for any desk: a window that
  Hyprland's two answers together declare visible was visible in one of their
  layouts, for the second names the workspace its monitor shows, and a workspace
  is shown where it is; so with the places of Niri's three. It uses
  `WalkFindsWindows` (the walk through Sway's tree finds all windows, and for the
  list those of a workspace front to back) and the lemmas on scaling and clipping
  for each backend. `ProcessInv`: a process that is not overlapped is the only
  one alive, and the file is as it found it: there while it removes, gone while
  it binds, its own while it serves. `SoleDaemonServes` alone is not inductive.
  `SoleServes`: for any number of processes, crashes and clients. `AnsweredSafe`:
  by `ServedInv`, where a task is says how its account stands (`Stands`): after n
  lines the responses are those due by them, but for the line in hand, and what
  was carried out likewise; a task that was cut off has one of these accounts,
  and its daemon has ended for good. The lemmas on `Kept` are inductions over the
  lines. `SameJob` is the other half: the job the daemon makes of a request is
  `Routed`, which for a screenshot is the job the same arguments are without a
  daemon.
- `EditingProofs`, about `Spec` of `Editing`. `ToolbarTruthful`: `ToolbarTells`
  is not inductive: a push can be told to be right only when every canvas
  remembers a value for every tool it may push (`MemoryInv`, `DrawnInv`: what is
  drawn was drawn with a tool taken in hand, and a selection names a layer), all
  canvases remember the same except for labels, the pickers are those of the tool
  even while a text is edited, and what the open dialog will give back is where
  the toolbar is (`HostInv`). A delay is any number that may be asked for.
  `Heard` says of every click and shortcut that the control moved is the one the
  action names; the five kinds of steps (a change of tool, a refresh, a pick, a
  step that does neither, the host's) then have a lemma each. `Refreshed`, the
  pushes of the edits that a tool change ends, is unfolded by induction over the
  monitors. `DragsFollow` is an action property: `ShapeInv` says that only the
  Select tool holds anything, that what it holds is remembered as it was at the
  press, and that a body has its form still. A move then starts from the shape at
  the press, not from the last place, and one lemma for each kind of grab says
  that it ends under the pointer: `MovedKeeps` (no drift, at most the half pixel
  that a box is rounded by), `AxisHeld` (an edge dragged over the other one
  changes sides), `PushedIsLong` (a segment pulled too short is pushed out to the
  minimum, by less than a handle), `LabelReshaped` (a corner sets a font size, an
  edge a wrap width). `LinesEdited` is the refinement of `LineEdit`, for any
  letters, each of one to four bytes. `LinesUpto` is a recursive function of how
  far the bytes were read, so the lemmas about it are inductions over the bytes.
  A text is the lines before the caret glued to those after it (`Glue`),
  whichever place that is (`UptoGlue`); row and column are where the glue is.
  Every edit puts one character in at a place or takes one out (`More`), and
  `MoreShown` says what that does to the lines: a letter more in a row, or a row
  broken in two. The walks of the code (`PrevIs`, `NextIs`, `StartOf`, `EndOf`,
  `VerticalIs`) find the column before, after, first, last, above and below. The
  invariant is `TextInv`: the buffer under edit and the label kept are whole
  characters (`Whole`), the caret is between two of them (`InPlace`), and a label
  is never empty. It needs no memory of the keys: the caret's place is enough to
  say what a key does, and each key has a lemma that its step is that of
  `LineEdit` (`TypesIt`, `Backspaces`, `GoesOver` and the rest).

Type correctness of `OverlaySession` is proved and no longer model-checked.

Only model-checked: everything eventual, since liveness under fairness and
ENABLED are out of the prover's reach (`StopIsHonoured`, `DeadHandleReleased`,
`QuitEndsOverlays`, `FinalisedIsAnswered`, `FollowerEnds`, `CapturesEnd`,
`RequestReturns`, `FollowsFocus`, `ReadersStop`).
`SelectSeq` is recursive in its library, so a proof can carry its result
(`FirstPath`) but not look into it: where a proof has to, the model has a recursive
function (`Kept`, `Refreshed`, `Walked`, `LinesUpto`) or an enumeration (`InOrder`).

## 6. What is not modelled

Left out for good: painting, CSS, wording, D-Bus, TOML, command-line parsing, the
doctor report, PNG. GTK, the compositor and the window manager are external: they
appear as choices among what they can answer. A nested selector's windows after
the overlay is torn down depend on GTK's shutdown of the application and are not
in `OverlaySession`. The setters `set_mode`, `set_cursor` and `set_delay` of the
toolbar are called by nobody.

What follows was met while modelling. It is the code's behaviour, left out of or
excluded from a property where named, and not checked by a run of its own.

*Daemon and command line.* A daemon that starts removes the socket file of one
that is alive, and one that quits removes its successor's (`SoleDaemonServes` is
about daemons that live alone). The client knows only the default path, so
`daemon --socket PATH` cannot be reached. `draw --via-daemon` is documented to
"route the command through a running daemon instead of running locally"
(`src/cli/draw.rs:41`) but drops `--passthrough`, `--to`, `--clipboard-type` and
`--cursor` (`src/cli/mod.rs:229`): `AnsweredTruly` says of it that the plain
overlay is opened, not that the flags are honoured. `--toggle-passthrough` is
documented to imply `--via-daemon` but requires it.

*Overlay.* `draw --passthrough` starts with the pointer let through and the
toolbar's window still holding the keyboard: the host starts without passthrough
and is not told (`place_initial`), until the first change or Save. Both
`OverlaySession` and `Pickers` start so; `InputCoherent` excepts that stretch
(`untold`). The colour dialog restores the keyboard modes it found, stale if the
toolbar moved meanwhile (`disturbed`); `OverlaySession` leaves the dialog out.

*Toolbar.* The pickers show the memory of a tool, not the selected layer's own
attribute, so a size step on a selected label starts from the memory. A colour
picked with a drawing tool in hand lands on an invisible selection. A pick after
Undo or Clear in Select mode lands nowhere. A text edit's colour and size become
the default on its own canvas only. `--interactive --delay 90` shows 60 and waits
90: the selection starts with the delay as asked for (`src/ui/selector.rs:625`),
the spinner clamps what it shows (`src/ui/toolbar.rs:1048`). `Pickers` starts so,
and `ToolbarTells` says of the delay what the spinner does.

*Drawing.* Two monitors may each keep a selection or a text edit. An edge dragged
past its opposite by less than the minimum size moves the opposite edge. An arrow
key in the middle of a drag is undone by the next move, except for a freehand
stroke, and shifts the centre that a Number's radius is measured from
(`GripFollows` says where it holds). Crop in Edit mode copies the cropped
viewport to the top left of its slice.

*Screenshot.* `--per-output` is to "capture each connected output to a separate
file" (`src/cli/screenshot.rs:18`), but `--per-output --to file=PATH` writes every
output to one path, and only the last picture stays. The behaviour is in
`Screenshot`; `SuccessIsComplete` leaves it out. Two
outputs without a name are both "unknown". Two files of one second have one name.
A failed write truncates what was there. The selector's switcher followed by the
editor's loses a path the first did not need (`SwitchingIsLossless` leaves it
out). A process with several threads forks. An unknown buffer format is taken for
Argb8888. An output without geometry is painted at the origin in device pixels.

*Window managers.* The active window of Hyprland is not clipped, unlike the list.
A workspace that moves to another monitor between its two answers hides its
windows, and none is found where one was visible all along (`Mixed`). `window_at`
is documented to find the "topmost mapped, visible window" (`src/wm/mod.rs:90`),
but Niri's list does not say which workspace is on show, so a click may find a
window of a hidden one (`Said`); nor does it clip. Sway's order may put a
floating window of one output behind a tiled one of another. A change of focus
between the one-shot query and the subscription is lost until the next (`told`).
A flood of Wayland events keeps the capture's wait from looking at its deadline:
`Tick` assumes that dispatching takes no time.
