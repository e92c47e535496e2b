------------------------------ MODULE Pickers -------------------------------
(***************************************************************************)
(* The toolbar and what it stands for: wire_toolbar, apply_tool and        *)
(* refresh_pickers of ui/overlay.rs between the one toolbar and the        *)
(* canvases, each with its own memory of colours, styles and sizes; the    *)
(* selector's wiring of the same widget; and the colour dialog, which      *)
(* takes the keyboard from every window while it is open.  A behaviour     *)
(* follows one of the three pickers, and either what is drawn with it or   *)
(* the other controls, which have only the toolbar in common.  A gesture   *)
(* on a canvas is one step: what happens inside it is Annotating's.        *)
(***************************************************************************)
EXTENDS Toolbar

CONSTANTS
    Strokes, Timers, MaxAnnotations,    \* those of Canvas
    Order,          \* the monitors with a canvas, as they were built
    Bars,           \* the toolbars as they are built
    Delays,         \* the delays asked for, of which a toolbar shows up to 60 s
    Handy,          \* the tools that are taken in hand
    ConfigColor,    \* [annotate.colors]
    MaxPicks        \* bound on the picks

INSTANCE Canvas

\* A toolbar as its owners build it.
IsBuilt(b) ==
    /\ b.spec \in {EditorSpec, OverlaySpec} \cup {SelectorSpec(on) : on \in BOOLEAN}
    /\ b.mode \in SelectorModes \cup {None} /\ b.output \in Destinations
    /\ {b.cursor, b.passthrough} \subseteq BOOLEAN /\ b.delay \in 0..60
    /\ b = NewToolbar(b.spec, b.mode, b.cursor, b.passthrough, b.delay, b.output)

ASSUME PickersAssumption ==
    /\ Order \in Seq(Monitors) /\ Range(Order) = Monitors /\ Order # <<>>
    /\ Handy \subseteq EditorTools \cap (Strokes \cup {"Text"}) /\ "Select" \notin Strokes
    /\ ConfigColor \in [EditorTools -> Colors] /\ InitialColor \in Colors
    /\ None \notin Colors \cup Styles /\ None \notin 6..200
    /\ None \notin Edits /\ \A ms \in SUBSET Monitors : ms # None
    /\ \A b \in Bars : IsBuilt(b)
    /\ {MaxAnnotations, MaxPicks} \cup Delays \subseteq Nat

VARIABLES
    bar,            \* the toolbar
    canvas,         \* the canvas of each monitor
    current_tool,   \* Shared.current_tool
    picker,         \* the picker that is followed
    drawing,        \* and whether what is drawn is, or the other controls
    memory,         \* tool_colors, tool_styles or tool_font_sizes of each canvas
    worth,          \* that attribute of each annotation
    typed,          \* and of each canvas's PendingText
    begun,          \* history: how many annotations have been begun
    told,           \* what the owner has been told of the other controls
    host,           \* the ToolbarHost
    dialog,         \* None, or the windows that the colour dialog took Exclusive from
    landed,         \* history: where the last pick went
    disturbed,      \* history: the host has changed under the dialog
    picks

canvasVars == <<canvas, current_tool, memory, worth, typed, begun, landed, picks>>
hostVars == <<host, dialog, disturbed>>
followed == <<picker, drawing>>
pickersVars == <<bar, canvasVars, followed, told, hostVars>>

-----------------------------------------------------------------------------
Styleable == {"Rect", "Ellipse", "Arrow", "Line", "Freehand"}
Colorable == Styleable \cup {"Highlight", "Number", "Text"}

\* kind_is_colorable, kind_is_styleable, kind_has_font_size.
Fits(p) == [color |-> Colorable, style |-> Styleable, size |-> {"Text"}][p]

PickersFor(t) == {p \in {"color", "style", "size"} : t \in Fits(p)}

Default(t) ==
    CASE picker = "color" -> ConfigColor[t]
      [] picker = "style" -> "Solid"
      [] picker = "size" -> DefaultSize

\* tool_color, tool_style, tool_font_size.
Remembered(m, t) == IF t \in Fits(picker) THEN memory[m][t] ELSE None

\* What the toolbar is pushed about tool t of canvas m.
Pushed(b, m, t) == SetPickersSensitive(Show(b, picker, Remembered(m, t)), PickersFor(t))

EffectiveKind(c, t) ==
    CASE c.text # None -> "Text"
      [] c.text = None /\ t = "Select" /\ c.selection # None -> c.layers[c.selection.at].kind
      [] OTHER -> t

-----------------------------------------------------------------------------
(* Canvases *)

\* The annotations that the edits on canvases ms leave, when they are committed.
Settled(ms) ==
    [i \in Ids |->
        LET by == {m \in ms : /\ canvas[m].text # None /\ canvas[m].text.id = i
                              /\ ~canvas[m].text.empty}
        IN IF by = {} THEN worth[i] ELSE typed[CHOOSE m \in by : TRUE]]

\* The pickers after the edits of the first canvases have ended: each refreshes
\* them.
Refreshed(cs, after, b, t) ==
    LET upto[n \in 0..Len(Order)] ==
            IF n = 0 THEN b
            ELSE LET m == Order[n]
                 IN IF cs[m].text # None /\ after[m].text = None
                    THEN Pushed(upto[n - 1], m, EffectiveKind(after[m], t))
                    ELSE upto[n - 1]
    IN upto

\* apply_tool on the canvases cs; worths is what their annotations are by then.
\* The edits end before the pickers are pushed.
ApplyTool(cs, b, worths, t) ==
    LET after == [m \in Monitors |-> SetTool(cs[m], t)]
        refreshed == Refreshed(cs, after, b, t)[Len(Order)]
    IN /\ current_tool' = t
       /\ canvas' = after
       /\ worth' = worths
       /\ bar' = Pushed(ShowTool(refreshed, t), Head(Order), t)
       /\ typed' = [m \in Monitors |-> IF after[m].text = None THEN None ELSE typed[m]]
       /\ landed' = "tool"
       /\ UNCHANGED <<memory, picks>>

\* A step of one canvas that ends in notify_ui_state.
Refresh(m, c) ==
    /\ canvas' = [canvas EXCEPT ![m] = c]
    /\ bar' = Pushed(bar, m, EffectiveKind(c, current_tool))
    /\ landed' = "tool"
    /\ UNCHANGED <<current_tool, memory, picks>>

Begin == drawing /\ begun < MaxAnnotations /\ begun' = begun + 1

Timer == CHOOSE t \in Timers : TRUE

\* The colour of a new annotation is the remembered one.
DrawStroke(m) ==
    /\ current_tool \in Strokes
    /\ Begin
    /\ ApplyTool([canvas EXCEPT ![m] = PushLayer(@, begun + 1, current_tool)], bar,
                 [worth EXCEPT ![begun + 1] = Remembered(m, current_tool)], "Select")

ClickText(m) ==
    /\ current_tool = "Text"
    /\ Begin
    /\ Refresh(m, StartText(canvas[m], begun + 1, Timer))
    /\ worth' = Settled({m})
    /\ typed' = [typed EXCEPT ![m] = Remembered(m, "Text")]

\* On a label, whose own attributes the edit keeps, or beside every one.
DoubleClick(m) ==
    /\ current_tool \in {"Text", "Select"}
    /\ worth' = Settled({m})
    /\ LET c == CommitPendingText(canvas[m])
       IN \/ canvas[m].text # None /\ Refresh(m, c) /\ typed' = [typed EXCEPT ![m] = None]
          \/ \E i \in DOMAIN c.layers :
                /\ c.layers[i].kind = "Text"
                /\ Refresh(m, ReeditText(c, i, Timer))
                /\ typed' = [typed EXCEPT ![m] = Settled({m})[c.layers[i].id]]
    /\ UNCHANGED begun

TypeText(m) ==
    /\ canvas[m].text # None
    /\ canvas' = [canvas EXCEPT ![m].text.empty = ~@]
    /\ UNCHANGED <<bar, current_tool, memory, worth, typed, begun, landed, picks>>

EndText(m) ==
    /\ canvas[m].text # None
    /\ \/ ApplyTool([canvas EXCEPT ![m] = CommitPendingText(@)],
                    Pushed(bar, m, EffectiveKind(CommitPendingText(canvas[m]), current_tool)),
                    Settled(Monitors), "Select")
       \/ ApplyTool([canvas EXCEPT ![m] = CancelPendingText(@)],
                    Pushed(bar, m, EffectiveKind(CancelPendingText(canvas[m]), current_tool)),
                    Settled(Monitors \ {m}), "Select")
    /\ UNCHANGED begun

\* With the Select tool: a layer is selected, or none, or the selected one is
\* deleted.
PointAt(m) ==
    /\ current_tool = "Select"
    /\ LET c == canvas[m]
       IN \/ \E i \in DOMAIN c.layers : Refresh(m, SelectHit(c, i))
          \/ c.selection # None /\ Refresh(m, Deselect(c))
          \/ c.selection # None /\ c.text = None /\ Refresh(m, DeleteSelected(c))
    /\ UNCHANGED <<worth, typed, begun>>

CanvasStep(m) ==
    /\ \/ DrawStroke(m) \/ ClickText(m) \/ DoubleClick(m) \/ TypeText(m) \/ EndText(m) \/ PointAt(m)
    /\ dialog = None
    /\ UNCHANGED <<followed, told, hostVars>>

-----------------------------------------------------------------------------
(* A pick *)

\* The annotation that a pick changes on canvas m, instead of the memory.
Edited(m) == canvas[m].text # None /\ "Text" \in Fits(picker)

Consumes(m) ==
    LET c == canvas[m]
    IN Edited(m) \/ (c.selection # None /\ c.layers[c.selection.at].kind \in Fits(picker))

\* apply_color_to_target, apply_font_size_to_target; apply_style_to_target.
\* The memory of the canvas follows its edit.
ApplyToTargets(ms, v) ==
    LET edits == {m \in ms : Edited(m)}
    IN /\ typed' = [m \in Monitors |-> IF m \in edits THEN v ELSE typed[m]]
       /\ memory' = [m \in Monitors |->
                        IF m \in edits THEN [memory[m] EXCEPT !["Text"] = v] ELSE memory[m]]
       /\ worth' = [i \in Ids |->
                        IF \E m \in ms \ edits : i = canvas[m].selection.of THEN v ELSE worth[i]]
       /\ landed' = "target"

\* Defect: the first canvas that has a target keeps the pick from the others.
Changed_FirstTargetOnly(v) ==
    LET consumers == SelectSeq(Order, Consumes)
    IN IF consumers # <<>> THEN ApplyToTargets({Head(consumers)}, v)
       ELSE /\ memory' = IF current_tool \in Fits(picker)
                         THEN [m \in Monitors |-> [memory[m] EXCEPT ![current_tool] = v]]
                         ELSE memory
            /\ landed' = IF current_tool \in Fits(picker) THEN "tool" ELSE "nowhere"
            /\ UNCHANGED <<worth, typed>>

\* ColorChanged, StrokeStyleChanged, FontSizeChanged.
Changed(v) ==
    LET consumers == {m \in Monitors : Consumes(m)}
    IN \/ consumers # {} /\ ApplyToTargets(consumers, v)
       \/ /\ consumers = {} /\ current_tool \in Fits(picker)
          /\ memory' = [m \in Monitors |-> [memory[m] EXCEPT ![current_tool] = v]]
          /\ landed' = "tool"
          /\ UNCHANGED <<worth, typed>>
       \/ /\ consumers = {} /\ current_tool \notin Fits(picker)
          /\ landed' = "nowhere"
          /\ UNCHANGED <<memory, worth, typed>>

Pick(b, v) ==
    /\ picks < MaxPicks /\ picks' = picks + 1
    /\ Changed(v)
    /\ bar' = b
    /\ UNCHANGED <<canvas, current_tool>>

-----------------------------------------------------------------------------
(* The toolbar's owner *)

\* A step of the host, and whether the dialog has it restore what is no more.
HostBecomes(h) ==
    /\ host' = h
    /\ disturbed' = (dialog # None /\ (disturbed \/ h.current # host.current
                                                 \/ h.passthrough # host.passthrough))
    /\ UNCHANGED dialog

\* apply_passthrough_state.
Passthrough(b, on) ==
    /\ HostBecomes(SetKeyboardPassthrough(host, on))
    /\ bar' = SetPassthrough(b, on)
    /\ told' = [told EXCEPT !.passthrough = on]
    /\ UNCHANGED canvasVars

\* What the owner keeps for each of the other controls.
ToldOf ==
    [OutputModeChanged |-> "output", ModeSelected |-> "mode", CursorToggled |-> "cursor",
     DelayChanged |-> "delay"]

PickSays == [color |-> "ColorChanged", style |-> "StrokeStyleChanged", size |-> "FontSizeChanged"]

\* Undo is for the canvas of the monitor that has the toolbar.
Undone(cs) == [cs EXCEPT ![host.current] = Undo(@)]

AllCleared(cs) == [m \in Monitors |-> ClearLayers(cs[m])]

\* wire_toolbar, of the overlay and of the selector: the owner's answer to the
\* action says of the toolbar, which is b by now.
Handled(b, says) ==
    \/ /\ says.does = "ToolSelected" /\ says.arg \in Handy \cup {"Select"}
       /\ ApplyTool(canvas, b, IF says.arg = "Text" THEN worth ELSE Settled(Monitors), says.arg)
       /\ UNCHANGED <<begun, told, hostVars>>
    \/ /\ says.does = PickSays[picker]
       /\ Pick(b, says.arg)
       /\ UNCHANGED <<begun, told, hostVars>>
    \/ /\ says.does \in {"Undo", "Clear"}
       /\ canvas' = IF says.does = "Undo" THEN Undone(canvas) ELSE AllCleared(canvas)
       /\ bar' = b
       /\ UNCHANGED <<current_tool, memory, worth, typed, begun, landed, picks, told, hostVars>>
    \/ ~drawing /\ says.does = "PassthroughToggled" /\ Passthrough(b, says.arg)
    \/ /\ ~drawing /\ says.does \in DOMAIN ToldOf
       /\ told' = [told EXCEPT ![ToldOf[says.does]] = says.arg]
       /\ bar' = b
       /\ UNCHANGED <<canvasVars, hostVars>>
    \/ /\ says.does \in {"Nothing", "Save", "Capture", "Annotate"}
       /\ bar' = b
       /\ UNCHANGED <<canvasVars, told, hostVars>>

Click ==
    /\ dialog = None
    /\ \E shift \in BOOLEAN : \E r \in Clicks(bar, shift) : Handled(r.bar, r.says)
    /\ UNCHANGED followed

\* A key that the canvas does not take: while it edits a text, only a chord.
PressShortcut ==
    /\ dialog = None
    /\ \E s \in Shortcuts(bar.spec) :
        /\ s.mods \subseteq {"shift"} => \A m \in Monitors : canvas[m].text = None
        /\ Handled(Pressed(bar, s).bar, Pressed(bar, s).says)
    /\ UNCHANGED followed

\* The timer that polls Shift.
PollShift ==
    /\ "capture" \in bar.spec.shows
    /\ \E shift \in BOOLEAN : bar' = ApplyShift(bar, shift)
    /\ UNCHANGED <<canvasVars, followed, told, hostVars>>

\* The selector that the overlay's Save opens has a switcher of its own, which
\* is adopted.
NestedSelectorSettles ==
    /\ dialog = None /\ ~drawing
    /\ bar.spec = OverlaySpec
    /\ \E to \in Destinations : /\ bar' = SetOutputMode(bar, to)
                                /\ told' = [told EXCEPT !.output = to]
    /\ UNCHANGED <<canvasVars, followed, hostVars>>

\* The daemon's toggle reaches a draw overlay at any time.
DaemonToggles ==
    /\ ~drawing
    /\ bar.spec = OverlaySpec
    /\ Passthrough(bar, ~told.passthrough)
    /\ UNCHANGED followed

FocusMoves ==
    /\ ~drawing
    /\ \E m \in Monitors : HostBecomes(MoveTo(host, m))
    /\ UNCHANGED <<bar, canvasVars, followed, told>>

\* open_color_dialog: no window keeps its layer or its keyboard.
OpenColorDialog ==
    /\ dialog = None
    /\ picker = "color" /\ "pickers" \in bar.spec.shows /\ "color" \in bar.sensitive
    /\ dialog' = host.exclusive
    /\ host' = [host EXCEPT !.exclusive = {}]
    /\ UNCHANGED <<bar, canvasVars, followed, told, disturbed>>

\* Its completion: every window has back what it had.
CloseColorDialog ==
    /\ dialog # None
    /\ dialog' = None
    /\ host' = [host EXCEPT !.exclusive = dialog]
    /\ \/ UNCHANGED <<bar, canvasVars>>
       \/ \E c \in Colors : Pick(PickColor(bar, c).bar, c) /\ UNCHANGED begun
    /\ UNCHANGED <<followed, told, disturbed>>

PickersInit ==
    /\ bar \in Bars
    /\ picker \in {"color", "style", "size"}
    /\ drawing \in BOOLEAN
    /\ picker # "color" => drawing
    /\ drawing => bar.spec = OverlaySpec
    /\ canvas = [m \in Monitors |-> SetDocument("Select")]
    /\ current_tool = "Select"
    /\ memory = [m \in Monitors |-> [t \in Fits(picker) \cap Handy |-> Default(t)]]
    /\ worth = [i \in Ids |-> None]
    /\ typed = [m \in Monitors |-> None]
    /\ begun = 0
    /\ \E asked \in Delays :
        /\ bar.delay = Between(0, asked, 60)
        /\ told = [output |-> bar.output, passthrough |-> bar.passthrough, mode |-> bar.mode,
                   cursor |-> bar.cursor, delay |-> asked]
    /\ host \in {Placed(m) : m \in Monitors}
    /\ dialog = None
    /\ landed = "tool"
    /\ disturbed = FALSE
    /\ picks = 0

PickersNext ==
    \/ \E m \in Monitors : CanvasStep(m)
    \/ Click \/ PressShortcut \/ PollShift \/ NestedSelectorSettles
    \/ DaemonToggles \/ FocusMoves \/ OpenColorDialog \/ CloseColorDialog

PickersSpec == PickersInit /\ [][PickersNext]_pickersVars

-----------------------------------------------------------------------------
\* With a tool in hand, what the picker shows is what the next annotation will
\* have, whichever monitor it is drawn on; a label may have been given another
\* on another monitor.
OffersWhatIsDrawn ==
    (landed = "tool" /\ current_tool \in Fits(picker)) =>
        /\ current_tool = "Text" =>
            \E m \in Monitors : memory[m]["Text"] = Shown(bar, picker)
        /\ current_tool # "Text" =>
            \A m \in Monitors : memory[m][current_tool] = Shown(bar, picker)

\* A picker can be used when the tool in hand has the attribute.
UsableWhenItFits ==
    (current_tool # "Select" /\ \A m \in Monitors : canvas[m].text = None) =>
        bar.sensitive = PickersFor(current_tool)

\* A pick that went to what is selected or typed is on all of it, on every
\* monitor.
PickReachesTargets ==
    landed = "target" =>
        \A m \in Monitors :
            Consumes(m) =>
                Shown(bar, picker) = IF Edited(m) THEN typed[m] ELSE worth[canvas[m].selection.of]

\* The other controls show what the owner goes by; the spinner, as much of it as
\* it has numbers for.
ControlsAgree ==
    /\ bar.lit = {current_tool} \ {"Select"}
    /\ bar.output = told.output /\ bar.passthrough = told.passthrough
    /\ bar.mode = told.mode /\ bar.cursor = told.cursor /\ bar.delay = Between(0, told.delay, 60)

\* The dialog gives back the keyboard that it took, unless it was moved
\* meanwhile; the next move puts that right.
KeyboardReturns == (dialog = None /\ ~disturbed) => KeyboardWithToolbar(host, Monitors)

(***************************************************************************)
(* The toolbar tells the truth, by whatever way its controls were moved -  *)
(* click, shortcut, tool change, selection, text edit, daemon, nested      *)
(* selector, colour dialog - and setting it says nothing back.  Of a delay *)
(* asked for it tells up to 60 s; the selector waits for all of it         *)
(* (ui/selector.rs:625, ui/toolbar.rs:1048).                               *)
(***************************************************************************)
ToolbarTells ==
    /\ OffersWhatIsDrawn
    /\ UsableWhenItFits
    /\ PickReachesTargets
    /\ ControlsAgree
    /\ KeyboardReturns

=============================================================================
