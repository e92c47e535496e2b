------------------------------ MODULE Toolbar -------------------------------
(***************************************************************************)
(* The toolbar widget of ui/toolbar.rs.  A toolbar is a value.  What the   *)
(* user does to it, by a click or a shortcut, maps it to a toolbar and the *)
(* action it says to its owner; what the owner does to it (the setters)    *)
(* says nothing.                                                           *)
(***************************************************************************)
EXTENDS ToolbarHost, Integers, SequencesExt

CONSTANTS
    Colors,         \* what the colour dialog offers
    InitialColor    \* the colour of the swatch until it is told another

(***************************************************************************)
(* Specs                                                                   *)
(***************************************************************************)
OverlayTools ==
    {"Rect", "Ellipse", "Arrow", "Line", "Highlight", "Freehand", "Number", "Text",
     "Blur", "Redact"}

EditorTools == OverlayTools \cup {"Crop"}

SelectorModes == {"Full", "Screen", "Window", "Region"}

Styles == {"Solid", "Dashed", "Dotted"}

Destinations == {"File", "Clipboard", "Both"}

ToolKey ==
    [Rect |-> "r", Ellipse |-> "o", Arrow |-> "a", Line |-> "l", Highlight |-> "h",
     Freehand |-> "f", Number |-> "n", Text |-> "t", Blur |-> "b", Redact |-> "x", Crop |-> "c"]

ModeKey == [Full |-> "1", Screen |-> "2", Window |-> "3", Region |-> "4"]

\* shows: the controls beside the tools and the modes.
EditorSpec ==
    [tools |-> EditorTools, modes |-> {}, shift_annotates |-> TRUE,
     shows |-> {"undo", "save", "pickers", "output"}]

OverlaySpec ==
    [tools |-> OverlayTools, modes |-> {}, shift_annotates |-> TRUE,
     shows |-> {"undo", "clear", "passthrough", "save", "pickers", "output"}]

SelectorSpec(annotates) ==
    [tools |-> {}, modes |-> SelectorModes, shift_annotates |-> annotates,
     shows |-> {"cursor", "delay", "capture", "output"}]

Between(low, n, high) == IF n < low THEN low ELSE IF n > high THEN high ELSE n

DefaultSize == 18

(***************************************************************************)
(* lit          the tool buttons that are down                             *)
(* mode, cursor, passthrough, delay, output   what the controls show       *)
(* color, style, size   what the pickers show                              *)
(* sensitive    the pickers that can be used                               *)
(* shift_held   the Capture button is an Annotate button                   *)
(***************************************************************************)
NewToolbar(spec, mode, cursor, passthrough, delay, output) ==
    [spec |-> spec, lit |-> {}, mode |-> mode, cursor |-> cursor, passthrough |-> passthrough,
     delay |-> Between(0, delay, 60), output |-> output,
     color |-> InitialColor, style |-> "Solid", size |-> DefaultSize,
     sensitive |-> {"color", "style", "size"}, shift_held |-> FALSE]

\* A ToolbarAction, and a toolbar that says one.
Action(does, arg) == [does |-> does, arg |-> arg]

Says(bar, does, arg) == [bar |-> bar, says |-> Action(does, arg)]

Silent(bar) == Says(bar, "Nothing", None)

-----------------------------------------------------------------------------
(* What the user does *)

\* A button that goes down puts the others up, which therefore say nothing;
\* the last one that goes up says Select.
ToggleTool(bar, t) ==
    CASE t \notin bar.lit -> Says([bar EXCEPT !.lit = {t}], "ToolSelected", t)
      [] bar.lit = {t} -> Says([bar EXCEPT !.lit = {}], "ToolSelected", "Select")
      [] OTHER -> Silent([bar EXCEPT !.lit = @ \ {t}])

\* A radio group: the button that is down stays down and says nothing.
PickMode(bar, mode) ==
    IF mode = bar.mode THEN Silent(bar)
    ELSE Says([bar EXCEPT !.mode = mode], "ModeSelected", mode)

\* Defect: the button that goes up says its style as well, and last.
PickStyle_BothSay(bar, style) ==
    IF style = bar.style THEN Silent(bar)
    ELSE Says([bar EXCEPT !.style = style], "StrokeStyleChanged", bar.style)

PickStyle(bar, style) ==
    IF style = bar.style THEN Silent(bar)
    ELSE Says([bar EXCEPT !.style = style], "StrokeStyleChanged", style)

\* By 1, or by 5 with the other button; at the end of the range nothing is said.
Steps == {-5, -1, 1, 5}

StepSize(bar, delta) ==
    LET next == Between(6, bar.size + delta, 200)
    IN IF next = bar.size THEN Silent(bar)
       ELSE Says([bar EXCEPT !.size = next], "FontSizeChanged", next)

StepDelay(bar, delta) ==
    LET next == Between(0, bar.delay + delta, 60)
    IN IF next = bar.delay THEN Silent(bar)
       ELSE Says([bar EXCEPT !.delay = next], "DelayChanged", next)

\* The colour dialog ends with a colour.
PickColor(bar, color) == Says([bar EXCEPT !.color = color], "ColorChanged", color)

ToggleCursor(bar) == Says([bar EXCEPT !.cursor = ~@], "CursorToggled", ~bar.cursor)

TogglePassthrough(bar) ==
    Says([bar EXCEPT !.passthrough = ~@], "PassthroughToggled", ~bar.passthrough)

NextDestination == [File |-> "Clipboard", Clipboard |-> "Both", Both |-> "File"]

CycleOutput(bar) ==
    LET next == NextDestination[bar.output]
    IN Says([bar EXCEPT !.output = next], "OutputModeChanged", next)

\* shift: the seat's keyboard has Shift down.
ClickCapture(bar, shift) ==
    IF bar.spec.shift_annotates /\ (bar.shift_held \/ shift)
    THEN Says(bar, "Annotate", None)
    ELSE Says(bar, "Capture", None)

\* apply_shift, by a key and by the timer that polls the seat.
ApplyShift(bar, shift) ==
    IF "capture" \in bar.spec.shows /\ bar.spec.shift_annotates
    THEN [bar EXCEPT !.shift_held = shift]
    ELSE bar

\* While Capture is Annotate the switcher is dimmed.
OutputSensitive(bar) == "output" \in bar.spec.shows /\ ~bar.shift_held

(***************************************************************************)
(* Shortcuts: a key with exactly these modifiers, and the control it acts  *)
(* on.  A letter is one key with Shift or CapsLock, Return one with        *)
(* KP_Enter.                                                               *)
(***************************************************************************)
Shortcut(key, mods, on, which) == [key |-> key, mods |-> mods, on |-> on, which |-> which]

Shortcuts(spec) ==
    {Shortcut(ToolKey[t], {}, "tool", t) : t \in spec.tools} \cup
    {Shortcut(ModeKey[m], {}, "mode", m) : m \in spec.modes} \cup
    {s \in {Shortcut("z", {"ctrl"}, "undo", None), Shortcut("l", {"ctrl"}, "clear", None),
            Shortcut("p", {}, "passthrough", None), Shortcut("o", {"ctrl"}, "output", None),
            Shortcut("s", {"ctrl"}, "save", None), Shortcut("Return", {}, "save", None),
            Shortcut("Return", {}, "capture", None)} : s.on \in spec.shows} \cup
    (IF "capture" \in spec.shows /\ spec.shift_annotates
     THEN {Shortcut("Return", {"shift"}, "annotate", None)} ELSE {})

Pressed(bar, s) ==
    LET b == ApplyShift(bar, "shift" \in s.mods)
    IN CASE s.on = "tool" -> ToggleTool(b, s.which)
         [] s.on = "mode" -> PickMode(b, s.which)
         [] s.on = "passthrough" -> TogglePassthrough(b)
         [] s.on = "output" -> CycleOutput(b)
         [] s.on = "undo" -> Says(b, "Undo", None)
         [] s.on = "clear" -> Says(b, "Clear", None)
         [] s.on = "save" -> Says(b, "Save", None)
         [] s.on = "capture" -> Says(b, "Capture", None)
         [] s.on = "annotate" -> Says(b, "Annotate", None)

\* What a click on a control that shows and can be used does.
Clicks(bar, shift) ==
    {ToggleTool(bar, t) : t \in bar.spec.tools} \cup
    {PickMode(bar, m) : m \in bar.spec.modes} \cup
    (IF "pickers" \in bar.spec.shows /\ "style" \in bar.sensitive
     THEN {PickStyle(bar, s) : s \in Styles} ELSE {}) \cup
    (IF "pickers" \in bar.spec.shows /\ "size" \in bar.sensitive
     THEN {StepSize(bar, d) : d \in Steps} ELSE {}) \cup
    (IF "delay" \in bar.spec.shows THEN {StepDelay(bar, d) : d \in Steps} ELSE {}) \cup
    (IF "cursor" \in bar.spec.shows THEN {ToggleCursor(bar)} ELSE {}) \cup
    (IF "passthrough" \in bar.spec.shows THEN {TogglePassthrough(bar)} ELSE {}) \cup
    (IF OutputSensitive(bar) THEN {CycleOutput(bar)} ELSE {}) \cup
    (IF "capture" \in bar.spec.shows THEN {ClickCapture(bar, shift)} ELSE {}) \cup
    {Says(bar, does, None) :
        does \in {d \in {"Undo", "Clear", "Save"} :
                    [Undo |-> "undo", Clear |-> "clear", Save |-> "save"][d] \in bar.spec.shows}}

-----------------------------------------------------------------------------
(* What the owner does: no action is said *)

\* set_tool.
ShowTool(bar, t) == [bar EXCEPT !.lit = {t} \cap bar.spec.tools]

SetPassthrough(bar, on) ==
    IF "passthrough" \in bar.spec.shows THEN [bar EXCEPT !.passthrough = on] ELSE bar

SetOutputMode(bar, to) ==
    IF "output" \in bar.spec.shows THEN [bar EXCEPT !.output = to] ELSE bar

\* set_color, set_stroke_style, set_font_size; a kind without the attribute
\* leaves what is shown.
Show(bar, picker, value) ==
    CASE value = None -> bar
      [] value # None /\ picker = "color" -> [bar EXCEPT !.color = value]
      [] value # None /\ picker = "style" -> [bar EXCEPT !.style = value]
      [] value # None /\ picker = "size" -> [bar EXCEPT !.size = Between(6, value, 200)]

Shown(bar, picker) ==
    CASE picker = "color" -> bar.color [] picker = "style" -> bar.style [] picker = "size" -> bar.size

SetPickersSensitive(bar, pickers) == [bar EXCEPT !.sensitive = pickers]

=============================================================================
