--------------------------- MODULE OverlaySession ---------------------------
(***************************************************************************)
(* One session of the draw overlay (ui/overlay.rs, OverlayMode::Draw) from *)
(* the moment its windows are up: passthrough, the shared toolbar, and the *)
(* coroutines that share them on the GLib thread - each Save runs          *)
(* run_draw_save, the first Blur runs ensure_draw_blur_base, a loop serves *)
(* the daemon's commands and another the focus events.                     *)
(*                                                                         *)
(* A coroutine is one action per stretch between two awaits; a spawned one *)
(* (`queued`) starts in a later turn of the main loop.                     *)
(***************************************************************************)
EXTENDS ToolbarHost, Naturals

CONSTANTS
    Saves,          \* identities for run_draw_save coroutines
    Blurs,          \* identities for ensure_draw_blur_base coroutines
    MaxCommands     \* bound on the unread commands of the daemon's channel

ASSUME OverlayAssumption ==
    /\ MaxCommands \in Nat
    /\ Saves \cap Blurs = {}

VARIABLES
    passthrough,    \* the shared cell
    button,         \* the toolbar's passthrough button is active
    visible,        \* the toolbar's widget is visible
    host,           \* the ToolbarHost
    windows,        \* the windows that are up
    tornDown,       \* TornDown
    commands,       \* unread TogglePassthrough commands
    save,           \* how far each Save is, and its prev_passthrough
    blur,           \* how far each blur capture is, and its prev_toolbar_visible
    inFlight,       \* blur_capture_in_flight
    base,           \* the canvases have a base to blur
    untold,         \* --passthrough was given and nothing has applied it (history)
    asked,          \* what was last asked of passthrough (history)
    mixed           \* something else was asked while a coroutine ran (history)

input == <<passthrough, button, host, untold>>
vars == <<input, visible, windows, tornDown, commands, save, blur, inFlight, base,
          asked, mixed>>

-----------------------------------------------------------------------------
(***************************************************************************)
(* parking    the overlay lets input through and waits a frame             *)
(* selecting  the nested selector is up                                    *)
(* hiding     the toolbar is hidden and the blur capture waits two frames  *)
(* capturing  the tokio task captures (and, for a Save, writes)            *)
(***************************************************************************)
Save == [at : {"idle", "queued", "parking", "selecting", "capturing"}, prev : BOOLEAN]
Blur == [at : {"idle", "queued", "hiding", "capturing"}, prev : BOOLEAN]
Idle == [at |-> "idle", prev |-> FALSE]

Saving == {k \in Saves : save[k].at # "idle"}
Blurring == {b \in Blurs : blur[b].at # "idle"}

\* build_overlays, Draw mode.  The cell and the button start as --passthrough
\* says; the host starts without it.
Init ==
    /\ passthrough \in BOOLEAN
    /\ button = passthrough
    /\ untold = passthrough
    /\ visible = TRUE
    /\ \E m \in Monitors : host = Placed(m)
    /\ windows = Monitors
    /\ tornDown = FALSE
    /\ commands = 0
    /\ save = [k \in Saves |-> Idle]
    /\ blur = [b \in Blurs |-> Idle]
    /\ inFlight = FALSE
    /\ base = FALSE
    /\ asked = passthrough
    /\ mixed = FALSE

\* Defect: the keyboard stays as it was.
ApplyPassthrough_CellOnly(on) ==
    /\ passthrough' = on
    /\ button' = on
    /\ untold' = FALSE
    /\ host' = host

\* apply_passthrough_state.
ApplyPassthrough(on) ==
    /\ passthrough' = on
    /\ button' = on
    /\ untold' = FALSE
    /\ host' = SetKeyboardPassthrough(host, on)

\* A click on the toolbar, or a shortcut on a window that has the keyboard.
Reached == windows # {} /\ (visible \/ host.exclusive # {})

-----------------------------------------------------------------------------
\* The passthrough button or its shortcut.
PassthroughToggled ==
    /\ Reached
    /\ ApplyPassthrough(~button)
    /\ asked' = ~button
    /\ mixed' = (mixed \/ Saving # {})
    /\ UNCHANGED <<visible, windows, tornDown, commands, save, blur, inFlight, base>>

\* The daemon sends TogglePassthrough ...
CommandSent ==
    /\ commands < MaxCommands
    /\ commands' = commands + 1
    /\ UNCHANGED <<input, visible, windows, tornDown, save, blur, inFlight, base,
                   asked, mixed>>

\* ... and attach_commands serves it, parked for a Save or not.
CommandServed ==
    /\ commands > 0
    /\ commands' = commands - 1
    /\ ApplyPassthrough(~passthrough)
    /\ asked' = ~passthrough
    /\ mixed' = (mixed \/ Saving # {})
    /\ UNCHANGED <<visible, windows, tornDown, save, blur, inFlight, base>>

\* attach_focus: the toolbar follows the focus until the windows are gone.
FocusSeen(m) ==
    /\ ~tornDown
    /\ host' = MoveTo(host, m)
    /\ UNCHANGED <<passthrough, button, untold, visible, windows, tornDown, commands, save,
                   blur, inFlight, base, asked, mixed>>

-----------------------------------------------------------------------------
(* Save: run_draw_save.                                                    *)

\* The Save button or its shortcut.  Nothing looks for a Save under way.
SaveAsked(k) ==
    /\ Reached
    /\ save[k].at = "idle"
    /\ save' = [save EXCEPT ![k].at = "queued"]
    /\ mixed' = (mixed \/ Saving # {} \/ Blurring # {})
    /\ UNCHANGED <<input, visible, windows, tornDown, commands, blur, inFlight, base, asked>>

\* Passthrough is saved and forced on, the toolbar hidden.
SaveParks(k) ==
    /\ save[k].at = "queued"
    /\ save' = [save EXCEPT ![k] = [at |-> "parking", prev |-> passthrough]]
    /\ visible' = FALSE
    /\ ApplyPassthrough(TRUE)
    /\ UNCHANGED <<windows, tornDown, commands, blur, inFlight, base, asked, mixed>>

SelectorOpens(k) ==
    /\ save[k].at = "parking"
    /\ save' = [save EXCEPT ![k].at = "selecting"]
    /\ UNCHANGED <<input, visible, windows, tornDown, commands, blur, inFlight, base,
                   asked, mixed>>

\* A selector is answered many turns after it was opened: by then the coroutines
\* spawned before have started.
Answerable(k) ==
    /\ save[k].at = "selecting"
    /\ \A j \in Saves : save[j].at # "queued"
    /\ \A b \in Blurs : blur[b].at # "queued"

\* pick_region_in_app returned a choice.
SelectorCommits(k) ==
    /\ Answerable(k)
    /\ save' = [save EXCEPT ![k].at = "capturing"]
    /\ UNCHANGED <<input, visible, windows, tornDown, commands, blur, inFlight, base,
                   asked, mixed>>

\* The way out: the toolbar comes back and passthrough is what it was.
SaveEnds(k) ==
    /\ save' = [save EXCEPT ![k] = Idle]
    /\ visible' = TRUE
    /\ ApplyPassthrough(save[k].prev)
    /\ UNCHANGED <<windows, tornDown, commands, blur, inFlight, base, asked, mixed>>

\* It failed or was cancelled.
SelectorFails(k) ==
    /\ Answerable(k)
    /\ SaveEnds(k)

\* Defect: a capture that fails returns at once.
SaveCaptured_EarlyReturn(k) ==
    /\ save[k].at = "capturing"
    /\ \/ SaveEnds(k)
       \/ /\ save' = [save EXCEPT ![k] = Idle]
          /\ UNCHANGED <<input, visible, windows, tornDown, commands, blur, inFlight, base,
                         asked, mixed>>

\* The task has captured and written, or failed.
SaveCaptured(k) ==
    /\ save[k].at = "capturing"
    /\ SaveEnds(k)

-----------------------------------------------------------------------------
(* Blur: the lazy desktop capture, ensure_draw_blur_base.                  *)

\* The Blur tool is picked and there is no base yet.
BlurAsked(b) ==
    /\ Reached
    /\ ~base
    /\ ~inFlight
    /\ inFlight' = TRUE
    /\ blur[b].at = "idle"
    /\ blur' = [blur EXCEPT ![b].at = "queued"]
    /\ mixed' = (mixed \/ Saving # {})
    /\ UNCHANGED <<input, visible, windows, tornDown, commands, save, base, asked>>

\* Defect: the capture waits for the toolbar to be shown before it hides it.
BlurHides_WaitsForToolbar(b) ==
    /\ visible
    /\ blur[b].at = "queued"
    /\ blur' = [blur EXCEPT ![b] = [at |-> "hiding", prev |-> visible]]
    /\ visible' = FALSE
    /\ UNCHANGED <<input, windows, tornDown, commands, save, inFlight, base, asked, mixed>>

BlurHides(b) ==
    /\ blur[b].at = "queued"
    /\ blur' = [blur EXCEPT ![b] = [at |-> "hiding", prev |-> visible]]
    /\ visible' = FALSE
    /\ UNCHANGED <<input, windows, tornDown, commands, save, inFlight, base, asked, mixed>>

BlurCaptures(b) ==
    /\ blur[b].at = "hiding"
    /\ blur' = [blur EXCEPT ![b].at = "capturing"]
    /\ UNCHANGED <<input, visible, windows, tornDown, commands, save, inFlight, base,
                   asked, mixed>>

\* Defect: a capture that fails leaves the flag set.
BlurCaptured_KeepsFlag(b) ==
    /\ blur[b].at = "capturing"
    /\ blur' = [blur EXCEPT ![b] = Idle]
    /\ visible' = blur[b].prev
    /\ base' \in {base, TRUE}
    /\ inFlight' = ~base'
    /\ UNCHANGED <<input, windows, tornDown, commands, save, asked, mixed>>

\* The frame is there, or the capture failed and Blur can be picked again.
BlurCaptured(b) ==
    /\ blur[b].at = "capturing"
    /\ blur' = [blur EXCEPT ![b] = Idle]
    /\ visible' = blur[b].prev
    /\ base' \in {base, TRUE}
    /\ inFlight' = FALSE
    /\ UNCHANGED <<input, windows, tornDown, commands, save, asked, mixed>>

-----------------------------------------------------------------------------
\* tear_down, on Escape or when the daemon's oneshot resolves (at any time).
\* The coroutines are not cancelled: one that is resumed once more goes on with
\* no window left.
TearDown ==
    /\ ~tornDown
    /\ tornDown' = TRUE
    /\ windows' = {}
    /\ host' = Cleared
    /\ UNCHANGED <<passthrough, button, untold, visible, commands, save, blur, inFlight,
                   base, asked, mixed>>

\* Application::run returns.
Over ==
    /\ tornDown
    /\ UNCHANGED vars

SaveRuns(k) ==
    SaveParks(k) \/ SelectorOpens(k) \/ SaveCaptured(k)

BlurRuns(b) == BlurHides(b) \/ BlurCaptures(b) \/ BlurCaptured(b)

Next ==
    \/ PassthroughToggled \/ CommandSent \/ CommandServed
    \/ \E m \in Monitors : FocusSeen(m)
    \/ \E k \in Saves : SaveAsked(k) \/ SaveRuns(k) \/ SelectorCommits(k) \/ SelectorFails(k)
    \/ \E b \in Blurs : BlurAsked(b) \/ BlurRuns(b)
    \/ TearDown
    \/ Over

(***************************************************************************)
(* While the main loop runs it polls every coroutine that is ready: the    *)
(* timers fire, and a capture ends because the screencopy client gives up  *)
(* after a timeout.  The user owes no answer to the selector.              *)
(***************************************************************************)
Fairness ==
    /\ \A k \in Saves : WF_vars(~tornDown /\ SaveRuns(k))
    /\ \A b \in Blurs : WF_vars(~tornDown /\ BlurRuns(b))
    /\ WF_vars(~tornDown /\ CommandServed)

Spec == Init /\ [][Next]_vars

FairSpec == Spec /\ Fairness

-----------------------------------------------------------------------------
TypeOK ==
    /\ passthrough \in BOOLEAN
    /\ button \in BOOLEAN
    /\ untold \in BOOLEAN
    /\ visible \in BOOLEAN
    /\ host \in Hosts
    /\ windows \subseteq Monitors
    /\ tornDown \in BOOLEAN
    /\ commands \in 0..MaxCommands
    /\ save \in [Saves -> Save]
    /\ blur \in [Blurs -> Blur]
    /\ inFlight \in BOOLEAN
    /\ base \in BOOLEAN
    /\ asked \in BOOLEAN
    /\ mixed \in BOOLEAN

(***************************************************************************)
(* The three copies of passthrough agree - the cell, the toolbar's button  *)
(* and the host - and the keyboard is with the toolbar, or nowhere while   *)
(* passthrough is on; Saves, commands, focus events and a teardown in the  *)
(* middle of a Save come in any order.  Only an overlay that was opened    *)
(* with --passthrough differs, until the first of them: nobody has told    *)
(* the host, and the toolbar's window holds the keyboard.                  *)
(***************************************************************************)
InputCoherent ==
    /\ button = passthrough
    /\ ~tornDown => host.passthrough = (passthrough /\ ~untold)
    /\ KeyboardWithToolbar(host, windows)

(***************************************************************************)
(* One desktop capture for Blur at a time, and the flag says so: it is set *)
(* from the moment the tool is picked until that capture has ended, well   *)
(* or badly, so a failed one can be retried.                               *)
(***************************************************************************)
OneBlurCapture ==
    /\ \A b, c \in Blurring : b = c
    /\ inFlight <=> Blurring # {}

(***************************************************************************)
(* A Save that nothing else interferes with is transparent: when it is     *)
(* over - saved, failed or cancelled - passthrough is what the user asked  *)
(* for last, and the toolbar is back.                                      *)
(***************************************************************************)
LoneSaveIsTransparent ==
    ~mixed /\ Saving = {} =>
        /\ passthrough = asked
        /\ ~visible => \E b \in Blurs : blur[b].at \in {"hiding", "capturing"}

(***************************************************************************)
(* A capture that has begun ends, and the Save or the Blur it is for is    *)
(* over, unless the overlay is torn down meanwhile.                        *)
(***************************************************************************)
CapturesEnd ==
    /\ \A k \in Saves : save[k].at = "capturing" ~> (save[k].at = "idle" \/ tornDown)
    /\ \A b \in Blurs : blur[b].at # "idle" ~> (blur[b].at = "idle" \/ tornDown)

-----------------------------------------------------------------------------
(***************************************************************************)
(* "Keep toolbars hidden through the capture so they don't appear in the   *)
(* saved PNG" (run_draw_save).  Each coroutine restores the toolbar on its *)
(* own, so a Blur capture that ends, or another Save, shows it again.      *)
(***************************************************************************)
NoToolbarInFrame ==
    (\E k \in Saves : save[k].at = "capturing") /\ windows # {} => ~visible

=============================================================================
