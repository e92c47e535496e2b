---------------------------- MODULE EditingProofs ----------------------------
(***************************************************************************)
(* Proofs about Editing: the toolbar for any monitors, tools, colours and  *)
(* number of annotations, the drags of the Select tool for any shapes,     *)
(* places of the pointer and number of drags, and the text editor for any  *)
(* letters, of any width, and any labels.                                  *)
(***************************************************************************)
EXTENDS Editing, Counting, SequenceTheorems, TLAPS

-----------------------------------------------------------------------------
(* The toolbar *)

Specs == {EditorSpec, OverlaySpec} \cup {SelectorSpec(on) : on \in BOOLEAN}

Toolbars ==
    [spec : Specs, lit : SUBSET EditorTools, mode : SelectorModes \cup {None},
     cursor : BOOLEAN, passthrough : BOOLEAN, delay : 0..60, output : Destinations,
     color : Colors, style : Styles, size : 6..200,
     sensitive : SUBSET {"color", "style", "size"}, shift_held : BOOLEAN]

(***************************************************************************)
(* Of what a toolbar shows only the control that the user moved has moved, *)
(* and the action says to what.                                            *)
(***************************************************************************)
Heard(b, c, says) ==
    /\ c \in Toolbars /\ c.spec = b.spec /\ c.sensitive = b.sensitive
    /\ IF says.does = "ToolSelected" THEN says.arg \in b.spec.tools \cup {"Select"}
       ELSE c.lit = b.lit
    /\ c.color = IF says.does = "ColorChanged" THEN says.arg ELSE b.color
    /\ c.style = IF says.does = "StrokeStyleChanged" THEN says.arg ELSE b.style
    /\ c.size = IF says.does = "FontSizeChanged" THEN says.arg ELSE b.size
    /\ c.output = IF says.does = "OutputModeChanged" THEN says.arg ELSE b.output
    /\ c.mode = IF says.does = "ModeSelected" THEN says.arg ELSE b.mode
    /\ c.cursor = IF says.does = "CursorToggled" THEN says.arg ELSE b.cursor
    /\ c.delay = IF says.does = "DelayChanged" THEN says.arg ELSE b.delay
    /\ IF says.does = "PassthroughToggled"
       THEN "passthrough" \in b.spec.shows /\ says.arg \in BOOLEAN
       ELSE c.passthrough = b.passthrough

(***************************************************************************)
(* The specs of the toolbars, field by field.                              *)
(***************************************************************************)
LEMMA SpecFacts ==
    ASSUME NEW spec \in Specs
    PROVE  /\ spec.tools \subseteq EditorTools /\ "Select" \notin spec.tools
           /\ spec.modes \subseteq SelectorModes
           /\ spec = OverlaySpec => /\ "passthrough" \in spec.shows
                                    /\ "output" \in spec.shows
  BY DEF Specs, EditorSpec, OverlaySpec, SelectorSpec, EditorTools, OverlayTools, SelectorModes

(***************************************************************************)
(* A new toolbar is one.                                                   *)
(***************************************************************************)
LEMMA BuiltIsToolbar ==
    ASSUME NEW b, IsBuilt(b)
    PROVE  b \in Toolbars /\ b.lit = {}
<1>1. /\ InitialColor \in Colors /\ "Solid" \in Styles /\ DefaultSize \in 6..200
      /\ Between(0, b.delay, 60) \in 0..60
  BY PickersAssumption DEF Styles, DefaultSize, Between, IsBuilt
<1>2. b = NewToolbar(b.spec, b.mode, b.cursor, b.passthrough, b.delay, b.output)
  BY DEF IsBuilt
<1>3. /\ b.spec \in Specs /\ b.mode \in SelectorModes \cup {None} /\ b.output \in Destinations
      /\ b.cursor \in BOOLEAN /\ b.passthrough \in BOOLEAN
  BY DEF IsBuilt, Specs
<1>4. ASSUME NEW spec \in Specs, NEW mode \in SelectorModes \cup {None},
             NEW cursor \in BOOLEAN, NEW passthrough \in BOOLEAN, NEW delay,
             Between(0, delay, 60) \in 0..60, NEW output \in Destinations
      PROVE  LET c == NewToolbar(spec, mode, cursor, passthrough, delay, output)
             IN c \in Toolbars /\ c.lit = {}
  BY <1>1, <1>4 DEF NewToolbar, Toolbars
<1>5. QED
  <2> DEFINE c == NewToolbar(b.spec, b.mode, b.cursor, b.passthrough, b.delay, b.output)
  <2>1. c \in Toolbars /\ c.lit = {}
    BY <1>1, <1>3, <1>4
  <2> HIDE DEF c
  <2>2. b = c
    BY <1>2 DEF c
  <2>3. QED
    BY <2>1, <2>2

(***************************************************************************)
(* The buttons.                                                            *)
(***************************************************************************)
LEMMA ToolHeard ==
    ASSUME NEW b \in Toolbars, b.lit = {} \/ \E u : b.lit = {u}, NEW t \in b.spec.tools
    PROVE  Heard(b, ToggleTool(b, t).bar, ToggleTool(b, t).says)
<1>1. t \in EditorTools
  BY SpecFacts DEF Toolbars
<1>2. CASE t \notin b.lit
  <2>1. ToggleTool(b, t) = Says([b EXCEPT !.lit = {t}], "ToolSelected", t)
    BY <1>2 DEF ToggleTool
  <2>2. QED
    BY <1>1, <2>1 DEF Says, Action, Heard, Toolbars
<1>3. CASE t \in b.lit
  <2>1. ToggleTool(b, t) = Says([b EXCEPT !.lit = {}], "ToolSelected", "Select")
    BY <1>3 DEF ToggleTool
  <2>2. QED
    BY <1>1, <2>1 DEF Says, Action, Heard, Toolbars
<1>4. QED
  BY <1>2, <1>3

(***************************************************************************)
(* The radio buttons of the selector and of the styles.                    *)
(***************************************************************************)
LEMMA RadioHeard ==
    ASSUME NEW b \in Toolbars
    PROVE  /\ \A m \in SelectorModes : Heard(b, PickMode(b, m).bar, PickMode(b, m).says)
           /\ \A s \in Styles : Heard(b, PickStyle(b, s).bar, PickStyle(b, s).says)
<1>1. ASSUME NEW m \in SelectorModes PROVE Heard(b, PickMode(b, m).bar, PickMode(b, m).says)
  <2>1. CASE m = b.mode
    BY <2>1 DEF PickMode, Silent, Says, Action, Heard, Toolbars
  <2>2. CASE m # b.mode
    <3>1. PickMode(b, m) = Says([b EXCEPT !.mode = m], "ModeSelected", m)
      BY <2>2 DEF PickMode
    <3>2. QED
      BY <3>1 DEF Says, Action, Heard, Toolbars
  <2>3. QED
    BY <2>1, <2>2
<1>2. ASSUME NEW s \in Styles PROVE Heard(b, PickStyle(b, s).bar, PickStyle(b, s).says)
  <2>1. CASE s = b.style
    BY <2>1 DEF PickStyle, Silent, Says, Action, Heard, Toolbars
  <2>2. CASE s # b.style
    <3>1. PickStyle(b, s) = Says([b EXCEPT !.style = s], "StrokeStyleChanged", s)
      BY <2>2 DEF PickStyle
    <3>2. QED
      BY <3>1 DEF Says, Action, Heard, Toolbars
  <2>3. QED
    BY <2>1, <2>2
<1>3. QED
  BY <1>1, <1>2

(***************************************************************************)
(* The spinners.                                                           *)
(***************************************************************************)
LEMMA SpinnersHeard ==
    ASSUME NEW b \in Toolbars, NEW d \in Steps
    PROVE  /\ Heard(b, StepSize(b, d).bar, StepSize(b, d).says)
           /\ Heard(b, StepDelay(b, d).bar, StepDelay(b, d).says)
<1>1. b.size \in Int /\ b.delay \in Int /\ d \in Int
  BY DEF Toolbars, Steps
<1>2. Between(6, b.size + d, 200) \in 6..200 /\ Between(0, b.delay + d, 60) \in 0..60
  BY <1>1 DEF Between
<1>3. ASSUME NEW n \in 6..200, n # b.size
      PROVE  LET r == Says([b EXCEPT !.size = n], "FontSizeChanged", n)
             IN Heard(b, r.bar, r.says)
  BY <1>3 DEF Says, Action, Heard, Toolbars
<1>4. ASSUME NEW n \in 0..60
      PROVE  LET r == Says([b EXCEPT !.delay = n], "DelayChanged", n)
             IN Heard(b, r.bar, r.says)
  BY <1>4 DEF Says, Action, Heard, Toolbars
<1>5. Heard(b, Silent(b).bar, Silent(b).says)
  BY DEF Silent, Says, Action, Heard, Toolbars
<1>6. QED
  BY <1>2, <1>3, <1>4, <1>5, Zenon DEF StepSize, StepDelay

(***************************************************************************)
(* The switches, the colour dialog, and what only says something.          *)
(***************************************************************************)
LEMMA SwitchesHeard ==
    ASSUME NEW b \in Toolbars
    PROVE  /\ \A c \in Colors : Heard(b, PickColor(b, c).bar, PickColor(b, c).says)
           /\ Heard(b, ToggleCursor(b).bar, ToggleCursor(b).says)
           /\ "passthrough" \in b.spec.shows =>
                Heard(b, TogglePassthrough(b).bar, TogglePassthrough(b).says)
           /\ Heard(b, CycleOutput(b).bar, CycleOutput(b).says)
           /\ \A does \in {"Undo", "Clear", "Save", "Capture", "Annotate"} :
                Heard(b, Says(b, does, None).bar, Says(b, does, None).says)
<1>1. NextDestination[b.output] \in Destinations
  BY DEF NextDestination, Destinations, Toolbars
<1>2. \A c \in Colors : Heard(b, PickColor(b, c).bar, PickColor(b, c).says)
  BY DEF PickColor, Says, Action, Heard, Toolbars
<1>3. Heard(b, ToggleCursor(b).bar, ToggleCursor(b).says)
  BY ZenonT(30) DEF ToggleCursor, Says, Action, Heard, Toolbars
<1>4. "passthrough" \in b.spec.shows =>
        Heard(b, TogglePassthrough(b).bar, TogglePassthrough(b).says)
  BY ZenonT(30) DEF TogglePassthrough, Says, Action, Heard, Toolbars
<1>5. Heard(b, CycleOutput(b).bar, CycleOutput(b).says)
  BY <1>1 DEF CycleOutput, Says, Action, Heard, Toolbars
<1>6. \A does \in {"Undo", "Clear", "Save", "Capture", "Annotate"} :
        Heard(b, Says(b, does, None).bar, Says(b, does, None).says)
  BY DEF Says, Action, Heard, Toolbars
<1>7. QED
  BY <1>2, <1>3, <1>4, <1>5, <1>6

(***************************************************************************)
(* Any click.                                                              *)
(***************************************************************************)
LEMMA ClicksHeard ==
    ASSUME NEW b \in Toolbars, b.lit = {} \/ \E u : b.lit = {u},
           NEW shift, NEW r \in Clicks(b, shift)
    PROVE  Heard(b, r.bar, r.says)
<1>1. b.spec \in Specs
  BY DEF Toolbars
<1>2. CASE \E t \in b.spec.tools : r = ToggleTool(b, t)
  BY <1>2, ToolHeard
<1>3. CASE \E m \in b.spec.modes : r = PickMode(b, m)
  BY <1>1, <1>3, SpecFacts, RadioHeard
<1>4. CASE \E s \in Styles : r = PickStyle(b, s)
  BY <1>4, RadioHeard
<1>5. CASE \E d \in Steps : r = StepSize(b, d) \/ r = StepDelay(b, d)
  BY <1>5, SpinnersHeard
<1>6. CASE r = ToggleCursor(b) \/ r = CycleOutput(b)
  BY <1>6, SwitchesHeard
<1>7. CASE "passthrough" \in b.spec.shows /\ r = TogglePassthrough(b)
  BY <1>7, SwitchesHeard
<1>8. CASE \E does \in {"Undo", "Clear", "Save", "Capture", "Annotate"} : r = Says(b, does, None)
  BY <1>8, SwitchesHeard
<1>9. r = ClickCapture(b, shift) => r = Says(b, "Capture", None) \/ r = Says(b, "Annotate", None)
  BY DEF ClickCapture
<1>10. QED
  BY <1>2, <1>3, <1>4, <1>5, <1>6, <1>7, <1>8, <1>9, Zenon DEF Clicks

(***************************************************************************)
(* Any shortcut: Shift, which goes with some, changes nothing else.        *)
(***************************************************************************)
LEMMA ShiftKeeps ==
    ASSUME NEW b \in Toolbars, NEW shift \in BOOLEAN
    PROVE  LET c == ApplyShift(b, shift)
           IN  /\ c \in Toolbars /\ c.spec = b.spec /\ c.sensitive = b.sensitive /\ c.lit = b.lit
               /\ c.color = b.color /\ c.style = b.style /\ c.size = b.size /\ c.output = b.output
               /\ c.mode = b.mode /\ c.cursor = b.cursor /\ c.delay = b.delay
               /\ c.passthrough = b.passthrough
  BY DEF ApplyShift, Toolbars

\* Any shortcut says what it moved.
LEMMA PressedHeard ==
    ASSUME NEW b \in Toolbars, b.lit = {} \/ \E u : b.lit = {u},
           NEW s \in Shortcuts(b.spec)
    PROVE  Heard(b, Pressed(b, s).bar, Pressed(b, s).says)
<1> DEFINE c == ApplyShift(b, "shift" \in s.mods)
           r == Pressed(b, s)
<1>1. /\ c \in Toolbars /\ c.spec = b.spec /\ c.sensitive = b.sensitive /\ c.lit = b.lit
      /\ c.color = b.color /\ c.style = b.style /\ c.size = b.size /\ c.output = b.output
      /\ c.mode = b.mode /\ c.cursor = b.cursor /\ c.delay = b.delay
      /\ c.passthrough = b.passthrough
  <2>1. ("shift" \in s.mods) \in BOOLEAN
    OBVIOUS
  <2>2. QED
    BY <2>1, ShiftKeeps, Zenon
<1>2. b.spec \in Specs
  BY DEF Toolbars
<1>3. \/ s.on = "tool" /\ s.which \in b.spec.tools
      \/ s.on = "mode" /\ s.which \in b.spec.modes
      \/ s.on = "passthrough" /\ "passthrough" \in b.spec.shows
      \/ s.on \in {"output", "undo", "clear", "save", "capture", "annotate"}
  BY DEF Shortcuts, Shortcut
<1> HIDE DEF c
<1>4. Heard(c, r.bar, r.says)
  <2>1. CASE s.on = "tool" /\ s.which \in b.spec.tools
    <3>1. r = ToggleTool(c, s.which)
      BY <2>1 DEF Pressed, c
    <3>2. QED
      BY <1>1, <2>1, <3>1, ToolHeard
  <2>2. CASE s.on = "mode" /\ s.which \in b.spec.modes
    <3>1. r = PickMode(c, s.which)
      BY <2>2 DEF Pressed, c
    <3>2. QED
      BY <1>1, <1>2, <2>2, <3>1, SpecFacts, RadioHeard
  <2>3. CASE s.on = "passthrough" /\ "passthrough" \in b.spec.shows
    <3>1. r = TogglePassthrough(c)
      BY <2>3 DEF Pressed, c
    <3>2. QED
      BY <1>1, <2>3, <3>1, SwitchesHeard
  <2>4. CASE s.on \in {"output", "undo", "clear", "save", "capture", "annotate"}
    <3>1. \/ r = CycleOutput(c)
          \/ \E does \in {"Undo", "Clear", "Save", "Capture", "Annotate"} : r = Says(c, does, None)
      BY <2>4 DEF Pressed, c
    <3>2. QED
      BY <1>1, <3>1, SwitchesHeard
  <2>5. QED
    BY <1>3, <2>1, <2>2, <2>3, <2>4
<1>5. QED
  BY <1>1, <1>4 DEF Heard

(***************************************************************************)
(* What the owner pushes: the value of picker p, when there is one, and    *)
(* which pickers can be used.                                              *)
(***************************************************************************)
Values(p) == [color |-> Colors, style |-> Styles, size |-> 6..200][p]

\* The value is shown, and the other controls are as they were.
LEMMA PushShows ==
    ASSUME NEW b \in Toolbars, NEW p \in {"color", "style", "size"},
           NEW v \in Values(p) \cup {None},
           NEW s \in SUBSET {"color", "style", "size"}
    PROVE  LET c == SetPickersSensitive(Show(b, p, v), s)
           IN  /\ c \in Toolbars /\ c.sensitive = s
               /\ v # None => Shown(c, p) = v
               /\ c.spec = b.spec /\ c.lit = b.lit /\ c.output = b.output
               /\ c.passthrough = b.passthrough /\ c.mode = b.mode
               /\ c.cursor = b.cursor /\ c.delay = b.delay
<1>1. CASE v = None
  BY <1>1 DEF SetPickersSensitive, Show, Toolbars
<1>2. CASE v # None /\ p = "color"
  BY <1>2 DEF SetPickersSensitive, Show, Shown, Toolbars, Values
<1>3. CASE v # None /\ p = "style"
  BY <1>3 DEF SetPickersSensitive, Show, Shown, Toolbars, Values
<1>4. CASE v # None /\ p = "size"
  <2>1. v \in 6..200 /\ Between(6, v, 200) = v
    BY <1>4 DEF Values, Between
  <2>2. Show(b, p, v) = [b EXCEPT !.size = v]
    BY <1>4, <2>1 DEF Show
  <2>3. QED
    BY <1>4, <2>1, <2>2 DEF SetPickersSensitive, Shown, Toolbars
<1>5. QED
  BY <1>1, <1>2, <1>3, <1>4

\* The tool button that is down is the tool's, when the toolbar has one (set_tool).
LEMMA ToolShown ==
    ASSUME NEW b \in Toolbars, NEW t
    PROVE  LET c == ShowTool(b, t)
           IN  /\ c \in Toolbars
               /\ c.lit = {t} \cap b.spec.tools
               /\ c.spec = b.spec /\ c.sensitive = b.sensitive /\ c.output = b.output
               /\ c.passthrough = b.passthrough /\ c.mode = b.mode
               /\ c.cursor = b.cursor /\ c.delay = b.delay
<1>1. b.spec.tools \subseteq EditorTools
  BY SpecFacts DEF Toolbars
<1>2. QED
  BY <1>1 DEF ShowTool, Toolbars

-----------------------------------------------------------------------------
(* The canvases *)

\* Of what is drawn, the tool that drew it is one that is taken in hand.
Pieces == [id : Ids, kind : Handy]

Fields ==
    {"tool", "layers", "crop", "selection", "manip", "pending", "text", "restore", "timer",
     "sources"}

Drawn(c) ==
    /\ DOMAIN c = Fields
    /\ c.layers \in Seq(Pieces)
    /\ c.text \in Edits \cup {None}
    /\ c.text # None => "Text" \in Handy
    /\ c.restore \in Pieces \cup {None}
    /\ Denotes(c, c.selection)

(***************************************************************************)
(* What the layers are made of.                                            *)
(***************************************************************************)
LEMMA PieceAt ==
    ASSUME NEW c, Drawn(c), NEW i \in DOMAIN c.layers
    PROVE  c.layers[i] \in Pieces /\ c.layers[i].kind \in Handy /\ c.layers[i].id \in Ids
<1>1. c.layers[i] \in Pieces
  BY DEF Drawn
<1>2. QED
  BY <1>1 DEF Pieces

\* The selected layer is of a tool that is taken in hand.
LEMMA SelectedPiece ==
    ASSUME NEW c, Drawn(c), c.selection # None
    PROVE  c.layers[c.selection.at].kind \in Handy /\ c.selection.of \in Ids
<1>1. c.selection.at \in DOMAIN c.layers /\ c.layers[c.selection.at].id = c.selection.of
  BY DEF Drawn, Denotes
<1>2. QED
  BY <1>1, PieceAt

(***************************************************************************)
(* What is added above leaves the selection as it was; a canvas without a  *)
(* selection may lose any layer.                                           *)
(***************************************************************************)
LEMMA PiecesAdded ==
    ASSUME NEW c, Drawn(c), NEW s \in Seq(Pieces), NEW d,
           DOMAIN d = Fields, d.layers = c.layers \o s, d.selection = c.selection,
           d.text = None \/ d.text = c.text, d.restore = None \/ d.restore = c.restore
    PROVE  Drawn(d)
<1>1. /\ c.layers \o s \in Seq(Pieces)
      /\ \A i \in DOMAIN c.layers : i \in DOMAIN (c.layers \o s) /\ (c.layers \o s)[i] = c.layers[i]
  BY DEF Drawn
<1>2. d.text \in Edits \cup {None} /\ (d.text # None => "Text" \in Handy)
  BY DEF Drawn
<1>3. d.restore \in Pieces \cup {None}
  BY DEF Drawn
<1>4. Denotes(d, d.selection)
  BY <1>1 DEF Drawn, Denotes
<1>5. QED
  BY <1>1, <1>2, <1>3, <1>4 DEF Drawn

\* An empty canvas, as an overlay builds it (set_document).
LEMMA EmptyDrawn ==
    LET c == SetDocument("Select") IN Drawn(c) /\ c.text = None /\ c.selection = None
  BY DEF SetDocument, Drawn, Fields, Denotes

(***************************************************************************)
(* An edit that ends.                                                      *)
(***************************************************************************)
LEMMA CommitDraws ==
    ASSUME NEW c, Drawn(c)
    PROVE  LET d == CommitPendingText(c)
           IN  Drawn(d) /\ d.text = None /\ d.selection = c.selection
<1> DEFINE d == CommitPendingText(c)
           s == Committed(c)
<1>1. CASE c.text = None
  BY <1>1 DEF CommitPendingText
<1>2. CASE c.text # None
  <2>1. s \in Seq(Pieces)
    <3>1. /\ c.text \in Edits /\ c.text.id \in Ids /\ "Text" \in Handy
          /\ c.restore \in Pieces \cup {None}
      BY <1>2 DEF Drawn, Edits
    <3>2. [id |-> c.text.id, kind |-> "Text"] \in Pieces
      BY <3>1 DEF Pieces
    <3>3. \A l \in Pieces : <<l>> \in Seq(Pieces)
      OBVIOUS
    <3>4. <<>> \in Seq(Pieces)
      OBVIOUS
    <3>5. CASE ~c.text.empty
      BY <3>2, <3>3, <3>5 DEF Committed
    <3>6. CASE c.text.empty /\ c.restore # None
      BY <3>1, <3>3, <3>6 DEF Committed
    <3>7. CASE c.text.empty /\ c.restore = None
      BY <3>4, <3>7 DEF Committed
    <3>8. QED
      BY <3>1, <3>5, <3>6, <3>7 DEF Edits
  <2> HIDE DEF s
  <2>2. /\ DOMAIN d = Fields /\ d.layers = c.layers \o s /\ d.selection = c.selection
        /\ d.text = None /\ d.restore = None
    <3> DEFINE r == StopCaretBlink(c)
    <3>1. DOMAIN r = Fields /\ r.layers = c.layers /\ r.selection = c.selection
      BY DEF StopCaretBlink, Drawn, Fields
    <3>2. d = [r EXCEPT !.text = None, !.restore = None, !.layers = r.layers \o s]
      BY <1>2 DEF CommitPendingText, s
    <3> HIDE DEF r, d
    <3>3. QED
      BY <3>1, <3>2 DEF Fields
  <2>3. Drawn(d)
    BY <2>1, <2>2, PiecesAdded
  <2>4. QED
    BY <2>2, <2>3
<1>3. QED
  BY <1>1, <1>2

\* Escape puts back the layer that the edit was opened on (cancel_pending_text).
LEMMA CancelDraws ==
    ASSUME NEW c, Drawn(c)
    PROVE  LET d == CancelPendingText(c)
           IN  Drawn(d) /\ d.text = None /\ d.selection = c.selection
<1> DEFINE d == CancelPendingText(c)
           s == IF c.restore = None THEN <<>> ELSE <<c.restore>>
<1>1. CASE c.text = None
  BY <1>1 DEF CancelPendingText
<1>2. CASE c.text # None
  <2>0. c.layers \in Seq(Pieces) /\ c.restore \in Pieces \cup {None}
    BY DEF Drawn
  <2>1. s \in Seq(Pieces)
    BY <2>0
  <2>2. c.layers \o s = IF c.restore = None THEN c.layers ELSE Append(c.layers, c.restore)
    <3>1. CASE c.restore = None
      BY <2>0, <3>1
    <3>2. CASE c.restore # None
      BY <2>0, <3>2
    <3>3. QED
      BY <3>1, <3>2
  <2> HIDE DEF s
  <2>3. /\ DOMAIN d = Fields /\ d.layers = c.layers \o s /\ d.selection = c.selection
        /\ d.text = None /\ d.restore = None
    <3> DEFINE r == StopCaretBlink(c)
    <3>1. DOMAIN r = Fields /\ r.layers = c.layers /\ r.selection = c.selection
      BY DEF StopCaretBlink, Drawn, Fields
    <3>2. d = [r EXCEPT !.text = None, !.restore = None, !.layers = c.layers \o s]
      BY <1>2, <2>2, <3>1 DEF CancelPendingText
    <3> HIDE DEF r, d
    <3>3. QED
      BY <3>1, <3>2 DEF Fields
  <2>4. Drawn(d)
    BY <2>1, <2>3, PiecesAdded
  <2>5. QED
    BY <2>3, <2>4
<1>3. QED
  BY <1>1, <1>2

\* A tool other than Text ends the edit (set_tool).
LEMMA SetToolDraws ==
    ASSUME NEW c, Drawn(c), NEW t
    PROVE  LET d == SetTool(c, t)
           IN  /\ Drawn(d) /\ d.selection = c.selection
               /\ d.text = IF t = "Text" THEN c.text ELSE None
<1> DEFINE e == IF t = "Text" THEN c ELSE CommitPendingText(c)
           d == SetTool(c, t)
<1>1. /\ Drawn(e) /\ e.selection = c.selection
      /\ e.text = IF t = "Text" THEN c.text ELSE None
  BY CommitDraws
<1>2. d = [e EXCEPT !.tool = t]
  BY DEF SetTool
<1> HIDE DEF e, d
<1>3. /\ DOMAIN d = Fields /\ d.layers = e.layers /\ d.selection = e.selection
      /\ d.text = e.text /\ d.restore = e.restore
  BY <1>1, <1>2 DEF Drawn, Fields
<1>4. Drawn(d)
  BY <1>1, <1>3 DEF Drawn, Denotes
<1>5. QED
  BY <1>1, <1>3, <1>4 DEF d

(***************************************************************************)
(* An annotation, a label, a label opened again.                           *)
(***************************************************************************)
LEMMA PushDraws ==
    ASSUME NEW c, Drawn(c), NEW id \in Ids, NEW k \in Handy
    PROVE  LET d == PushLayer(c, id, k)
           IN  Drawn(d) /\ d.selection = c.selection /\ d.text = c.text
<1> DEFINE l == [id |-> id, kind |-> k]
           d == PushLayer(c, id, k)
<1>1. l \in Pieces
  BY DEF Pieces
<1>2. d = [c EXCEPT !.layers = Append(c.layers, l)]
  BY DEF PushLayer
<1> HIDE DEF l, d
<1>3. <<l>> \in Seq(Pieces) /\ Append(c.layers, l) = c.layers \o << l >>
  BY <1>1 DEF Drawn
<1>4. /\ DOMAIN d = Fields /\ d.layers = c.layers \o << l >> /\ d.selection = c.selection
      /\ d.text = c.text /\ d.restore = c.restore
  BY <1>2, <1>3 DEF Drawn, Fields
<1>5. Drawn(d)
  BY <1>3, <1>4, PiecesAdded
<1>6. QED
  BY <1>4, <1>5 DEF d

\* A label is begun (start_or_commit_text).
LEMMA StartDraws ==
    ASSUME NEW c, Drawn(c), NEW id \in Ids, "Text" \in Handy, NEW t
    PROVE  LET d == StartText(c, id, t)
           IN  Drawn(d) /\ d.text # None
<1> DEFINE e == CommitPendingText(c)
           b == StartCaretBlink(e, t)
           x == [id |-> id, empty |-> TRUE]
           d == StartText(c, id, t)
<1>1. Drawn(e)
  BY CommitDraws
<1>2. x \in Edits /\ x # None
  <2>1. x \in Edits
    BY DEF Edits
  <2>2. QED
    BY <2>1, PickersAssumption
<1>3. d = [b EXCEPT !.text = x]
  BY DEF StartText
<1> HIDE DEF e, d
<1>4. /\ DOMAIN b = Fields /\ b.layers = e.layers /\ b.selection = e.selection
      /\ b.restore = e.restore
  BY <1>1 DEF StartCaretBlink, StopCaretBlink, Drawn, Fields
<1> HIDE DEF b, x
<1>5. /\ DOMAIN d = Fields /\ d.layers = e.layers /\ d.selection = e.selection
      /\ d.text = x /\ d.restore = e.restore
  BY <1>3, <1>4 DEF Fields
<1>6. Drawn(d) /\ d.text # None
  BY <1>1, <1>2, <1>5 DEF Drawn, Denotes
<1>7. QED
  BY <1>6 DEF d

\* A label is opened again (try_reedit_text).
LEMMA ReeditDraws ==
    ASSUME NEW c, Drawn(c), NEW i \in DOMAIN c.layers, c.layers[i].kind = "Text", NEW t
    PROVE  LET d == ReeditText(c, i, t)
           IN  Drawn(d) /\ d.text # None
<1> DEFINE r == Release(c)
           b == StartCaretBlink(r, t)
           x == [id |-> c.layers[i].id, empty |-> FALSE]
           s == RemoveAt(c.layers, i)
           d == ReeditText(c, i, t)
<1>1. c.layers[i] \in Pieces /\ "Text" \in Handy /\ x \in Edits /\ x # None
  <2>1. c.layers[i] \in Pieces /\ "Text" \in Handy /\ x \in Edits
    BY PieceAt DEF Edits
  <2>2. QED
    BY <2>1, PickersAssumption
<1>2. s \in Seq(Pieces)
  <2>1. c.layers \in Seq(Pieces)
    BY DEF Drawn
  <2>2. i \in 1..Len(c.layers)
    BY <2>1
  <2>3. /\ SubSeq(c.layers, 1, i - 1) \in Seq(Pieces)
        /\ SubSeq(c.layers, i + 1, Len(c.layers)) \in Seq(Pieces)
    BY <2>1, <2>2
  <2>4. QED
    BY <2>3 DEF RemoveAt
<1>3. DOMAIN b = Fields /\ b.layers = c.layers /\ b.selection = None
  BY DEF Release, StartCaretBlink, StopCaretBlink, Drawn, Fields
<1>4. d = [b EXCEPT !.text = x, !.restore = c.layers[i], !.layers = s]
  BY <1>3 DEF ReeditText
<1> HIDE DEF b, x, s, d
<1>5. /\ DOMAIN d = Fields /\ d.layers = s /\ d.selection = None
      /\ d.text = x /\ d.restore = c.layers[i]
  BY <1>3, <1>4 DEF Fields
<1>6. Drawn(d) /\ d.text # None
  BY <1>1, <1>2, <1>5 DEF Drawn, Denotes
<1>7. QED
  BY <1>6 DEF d

(***************************************************************************)
(* Typing, selecting, and what takes layers away.                          *)
(***************************************************************************)
LEMMA TypingDraws ==
    ASSUME NEW c, Drawn(c), c.text # None
    PROVE  LET d == [c EXCEPT !.text.empty = ~@]
           IN  Drawn(d) /\ d.text # None /\ d.selection = c.selection /\ d.layers = c.layers
<1> DEFINE x == [c.text EXCEPT !.empty = ~@]
           d == [c EXCEPT !.text = x]
<1>1. x \in Edits /\ x # None
  <2>1. x \in Edits
    BY DEF Drawn, Edits
  <2>2. QED
    BY <2>1, PickersAssumption
<1> HIDE DEF x
<1>2. /\ DOMAIN d = Fields /\ d.layers = c.layers /\ d.selection = c.selection
      /\ d.text = x /\ d.restore = c.restore
  BY DEF Drawn, Fields
<1> HIDE DEF d
<1>3. Drawn(d) /\ d.text # None /\ d.selection = c.selection /\ d.layers = c.layers
  BY <1>1, <1>2 DEF Drawn, Denotes
<1>4. QED
  BY <1>3 DEF d, x

\* A layer is selected, or none (begin_select).
LEMMA SelectingDraws ==
    ASSUME NEW c, Drawn(c)
    PROVE  /\ \A i \in DOMAIN c.layers : Drawn(SelectHit(c, i)) /\ SelectHit(c, i).text = c.text
           /\ Drawn(Deselect(c)) /\ Deselect(c).text = c.text
<1>1. ASSUME NEW i \in DOMAIN c.layers PROVE Drawn(SelectHit(c, i)) /\ SelectHit(c, i).text = c.text
  <2> DEFINE d == SelectHit(c, i)
             g == Grip(c, i)
  <2>1. g.at = i /\ g.of = c.layers[i].id
    BY DEF Grip
  <2>2. d = [c EXCEPT !.selection = g, !.manip = g]
    BY DEF SelectHit
  <2> HIDE DEF g, d
  <2>3. /\ DOMAIN d = Fields /\ d.layers = c.layers /\ d.selection = g
        /\ d.text = c.text /\ d.restore = c.restore
    BY <2>2 DEF Drawn, Fields
  <2>4. Drawn(d) /\ d.text = c.text
    BY <2>1, <2>3 DEF Drawn, Denotes
  <2>5. QED
    BY <2>4 DEF d
<1>2. Drawn(Deselect(c)) /\ Deselect(c).text = c.text
  BY DEF Deselect, Drawn, Fields, Denotes
<1>3. QED
  BY <1>1, <1>2

\* Without a selection any layers will do.
LEMMA ReleasedDraws ==
    ASSUME NEW c, Drawn(c), NEW s \in Seq(Pieces), NEW d, DOMAIN d = Fields,
           d.layers = s, d.selection = None, d.text = c.text, d.restore = c.restore
    PROVE  Drawn(d)
  BY DEF Drawn, Denotes

\* Undo, Clear and Delete forget the selection.
LEMMA ShorteningDraws ==
    ASSUME NEW c, Drawn(c)
    PROVE  /\ Drawn(Undo(c)) /\ Undo(c).text = c.text /\ Undo(c).selection = None
           /\ Drawn(ClearLayers(c)) /\ ClearLayers(c).text = c.text
           /\ ClearLayers(c).selection = None
           /\ c.selection # None => Drawn(DeleteSelected(c)) /\ DeleteSelected(c).text = c.text
<1> DEFINE r == Release(c)
<1>1. c.layers \in Seq(Pieces) /\ <<>> \in Seq(Pieces)
  BY DEF Drawn
<1>2. /\ DOMAIN r = Fields /\ r.layers = c.layers /\ r.selection = None
      /\ r.text = c.text /\ r.restore = c.restore
  BY DEF Release, Drawn, Fields
<1>r. r = Release(c)
  OBVIOUS
<1> HIDE DEF r
<1>3. ASSUME NEW s \in Seq(Pieces), NEW crop
      PROVE  /\ Drawn([r EXCEPT !.layers = s]) /\ [r EXCEPT !.layers = s].text = c.text
             /\ [r EXCEPT !.layers = s].selection = None
             /\ Drawn([r EXCEPT !.crop = crop]) /\ [r EXCEPT !.crop = crop].text = c.text
             /\ [r EXCEPT !.crop = crop].selection = None
             /\ Drawn([r EXCEPT !.layers = s, !.crop = crop])
             /\ [r EXCEPT !.layers = s, !.crop = crop].text = c.text
             /\ [r EXCEPT !.layers = s, !.crop = crop].selection = None
  <2>1. ASSUME NEW d, d \in {[r EXCEPT !.layers = s], [r EXCEPT !.crop = crop],
                             [r EXCEPT !.layers = s, !.crop = crop]}
        PROVE  /\ DOMAIN d = Fields /\ d.layers \in Seq(Pieces) /\ d.selection = None
               /\ d.text = c.text /\ d.restore = c.restore
    BY <1>1, <1>2, <2>1 DEF Fields
  <2>2. QED
    BY <2>1, ReleasedDraws
<1>4. Drawn(Undo(c)) /\ Undo(c).text = c.text /\ Undo(c).selection = None
  <2>1. CASE c.layers # <<>>
    <3>1. Front(c.layers) \in Seq(Pieces)
      BY <1>1, <2>1 DEF Front
    <3>2. Undo(c) = [r EXCEPT !.layers = Front(c.layers)]
      BY <1>2, <1>r, <2>1 DEF Undo
    <3>3. QED
      BY <1>3, <3>1, <3>2, ZenonT(30)
  <2>2. CASE c.layers = <<>>
    <3>1. Undo(c) = [r EXCEPT !.crop = FALSE]
      BY <1>r, <2>2 DEF Undo
    <3>2. QED
      BY <1>1, <1>3, <3>1
  <2>3. QED
    BY <2>1, <2>2
<1>5. Drawn(ClearLayers(c)) /\ ClearLayers(c).text = c.text /\ ClearLayers(c).selection = None
  BY <1>1, <1>3, <1>r DEF ClearLayers
<1>6. ASSUME c.selection # None PROVE Drawn(DeleteSelected(c)) /\ DeleteSelected(c).text = c.text
  <2> DEFINE i == c.selection.at
             s == RemoveAt(c.layers, i)
  <2>1. i \in DOMAIN c.layers
    BY <1>6 DEF Drawn, Denotes
  <2>2. /\ SubSeq(c.layers, 1, i - 1) \in Seq(Pieces)
        /\ SubSeq(c.layers, i + 1, Len(c.layers)) \in Seq(Pieces)
    BY <1>1, <2>1
  <2>3. s \in Seq(Pieces)
    BY <2>2 DEF RemoveAt
  <2>4. DeleteSelected(c) = [r EXCEPT !.layers = s]
    BY <1>2, <1>r DEF DeleteSelected
  <2>5. QED
    BY <1>3, <2>3, <2>4
<1>7. QED
  BY <1>4, <1>5, <1>6

-----------------------------------------------------------------------------
(* The invariant *)

(***************************************************************************)
(* The canvases are drawn with the tools that are taken in hand, and a     *)
(* text is edited only under a tool that may.                              *)
(***************************************************************************)
DrawnInv ==
    /\ picker \in {"color", "style", "size"}
    /\ current_tool \in Handy \cup {"Select"}
    /\ begun \in Nat
    /\ DOMAIN canvas = Monitors
    /\ \A m \in Monitors :
        Drawn(canvas[m]) /\ (canvas[m].text # None => current_tool \in {"Text", "Select"})

(***************************************************************************)
(* Every canvas remembers a value for every tool that has the attribute,   *)
(* and all of them the same one; except for labels, of which one can be    *)
(* changed while it is typed.                                              *)
(***************************************************************************)
MemoryInv ==
    /\ memory \in [Monitors -> [Fits(picker) \cap Handy -> Values(picker)]]
    /\ \A m, n \in Monitors : \A t \in (Fits(picker) \cap Handy) \ {"Text"} :
        memory[m][t] = memory[n][t]

(***************************************************************************)
(* What the toolbar shows.  With a tool in hand its pickers are those of   *)
(* that tool even while a text is edited.                                  *)
(***************************************************************************)
BarInv ==
    /\ bar \in Toolbars
    /\ DOMAIN told = {"output", "passthrough", "mode", "cursor", "delay"}
    /\ current_tool # "Select" => bar.sensitive = PickersFor(current_tool)
    /\ OffersWhatIsDrawn
    /\ ControlsAgree

(***************************************************************************)
(* The keyboard that the dialog will give back is where the toolbar is,    *)
(* unless that has moved.                                                  *)
(***************************************************************************)
HostInv ==
    /\ host \in Hosts /\ host.slots = Monitors /\ host.current \in Monitors
    /\ (dialog = None /\ ~disturbed) => KeyboardWithToolbar(host, Monitors)
    /\ dialog # None =>
        /\ dialog \in SUBSET Monitors
        /\ picker = "color"
        /\ ~disturbed => KeyboardWithToolbar([host EXCEPT !.exclusive = dialog], Monitors)

PickersInv == DrawnInv /\ MemoryInv /\ BarInv /\ PickReachesTargets /\ HostInv

-----------------------------------------------------------------------------
(* Pushing *)

(***************************************************************************)
(* The kinds that a canvas may push, and the monitors it may be of.        *)
(***************************************************************************)
InHand == Handy \cup {"Select"}

\* Select is not a tool that is taken in hand, and has no attribute.
LEMMA HandFacts ==
    /\ "Select" \notin Handy /\ Handy \subseteq EditorTools
    /\ \A p \in {"color", "style", "size"} : "Select" \notin Fits(p)
    /\ \A t : PickersFor(t) \in SUBSET {"color", "style", "size"}
<1>1. "Select" \notin Handy /\ Handy \subseteq EditorTools
  BY PickersAssumption DEF EditorTools, OverlayTools
<1>2. \A p \in {"color", "style", "size"} : "Select" \notin Fits(p)
  BY DEF Fits, Colorable, Styleable
<1>3. \A t : PickersFor(t) \in SUBSET {"color", "style", "size"}
  BY DEF PickersFor
<1>4. QED
  BY <1>1, <1>2, <1>3

\* The canvases, as they were built, are of the monitors.
LEMMA OrderFacts ==
    /\ Len(Order) \in Nat /\ Head(Order) \in Monitors
    /\ \A i \in 1..Len(Order) : Order[i] \in Monitors
<1>1. Order \in Seq(Monitors) /\ Order # <<>>
  BY PickersAssumption
<1>2. QED
  BY <1>1

\* What a canvas pushes the pickers for (refresh_pickers) is a tool taken in hand.
LEMMA KindInHand ==
    ASSUME NEW c, Drawn(c), NEW t \in InHand
    PROVE  /\ EffectiveKind(c, t) \in InHand
           /\ (t # "Select" /\ (c.text # None => t = "Text")) => EffectiveKind(c, t) = t
<1>1. CASE c.text # None
  BY <1>1 DEF EffectiveKind, InHand, Drawn
<1>2. CASE c.text = None /\ t = "Select" /\ c.selection # None
  BY <1>2, SelectedPiece DEF EffectiveKind, InHand
<1>3. CASE c.text = None /\ ~(t = "Select" /\ c.selection # None)
  BY <1>3 DEF EffectiveKind
<1>4. QED
  BY <1>1, <1>2, <1>3

(***************************************************************************)
(* A push changes the pickers and nothing else.                            *)
(***************************************************************************)
SameControls(b, c) ==
    /\ c \in Toolbars /\ c.spec = b.spec /\ c.lit = b.lit /\ c.output = b.output
    /\ c.passthrough = b.passthrough /\ c.mode = b.mode
    /\ c.cursor = b.cursor /\ c.delay = b.delay

\* A canvas remembers a value of every tool that has the attribute (tool_color).
LEMMA RememberedValue ==
    ASSUME DrawnInv, MemoryInv, NEW m \in Monitors, NEW t \in InHand
    PROVE  /\ Remembered(m, t) \in Values(picker) \cup {None}
           /\ t \in Fits(picker) =>
                /\ Remembered(m, t) = memory[m][t] /\ Remembered(m, t) # None
                /\ t \in Fits(picker) \cap Handy
<1>1. None \notin Values(picker)
  <2>1. None \notin Colors /\ None \notin Styles /\ None \notin 6..200
    BY PickersAssumption
  <2>2. Values("color") = Colors /\ Values("style") = Styles /\ Values("size") = 6..200
    BY DEF Values
  <2>3. picker = "color" \/ picker = "style" \/ picker = "size"
    BY DEF DrawnInv
  <2>4. QED
    BY <2>1, <2>2, <2>3, Zenon
<1>2. CASE t \in Fits(picker)
  <2>1. t \in Fits(picker) \cap Handy
    BY <1>2, HandFacts DEF InHand, DrawnInv
  <2>2. memory[m][t] \in Values(picker)
    BY <2>1 DEF MemoryInv
  <2>3. QED
    BY <1>1, <1>2, <2>1, <2>2 DEF Remembered
<1>3. CASE t \notin Fits(picker)
  BY <1>3 DEF Remembered
<1>4. QED
  BY <1>2, <1>3

\* What a push shows is what the canvas remembers (apply_tool, refresh_pickers).
LEMMA PushedBar ==
    ASSUME DrawnInv, MemoryInv, NEW b \in Toolbars, NEW m \in Monitors, NEW t \in InHand
    PROVE  LET c == Pushed(b, m, t)
           IN  /\ SameControls(b, c)
               /\ c.sensitive = PickersFor(t)
               /\ t \in Fits(picker) => Shown(c, picker) = memory[m][t]
<1> DEFINE v == Remembered(m, t)
           s == PickersFor(t)
           c == SetPickersSensitive(Show(b, picker, v), s)
<1>1. v \in Values(picker) \cup {None} /\ (t \in Fits(picker) => v = memory[m][t] /\ v # None)
  BY RememberedValue
<1>2. s \in SUBSET {"color", "style", "size"} /\ picker \in {"color", "style", "size"}
  BY HandFacts DEF DrawnInv
<1> HIDE DEF v, s
<1>3. SameControls(b, c) /\ c.sensitive = s /\ (v # None => Shown(c, picker) = v)
  BY <1>1, <1>2, PushShows DEF SameControls
<1>4. QED
  BY <1>1, <1>3 DEF Pushed, v, s

(***************************************************************************)
(* The pushes of the edits that end, by induction over the monitors: the   *)
(* recursion has a solution, and each push keeps the other controls.       *)
(***************************************************************************)
RefreshedAt(cs, after, b, t, g, n) ==
    IF n = 0 THEN b
    ELSE LET m == Order[n]
         IN IF cs[m].text # None /\ after[m].text = None
            THEN Pushed(g[n - 1], m, EffectiveKind(after[m], t))
            ELSE g[n - 1]

\* The recursion over the first N monitors is extended by a monitor.
LEMMA RefreshedSolves ==
    ASSUME NEW cs, NEW after, NEW b, NEW t
    PROVE  Refreshed(cs, after, b, t) =
             [n \in 0..Len(Order) |-> RefreshedAt(cs, after, b, t, Refreshed(cs, after, b, t), n)]
<1> DEFINE At(g, n) == RefreshedAt(cs, after, b, t, g, n)
           Solved(N) == \E g : g = [n \in 0..N |-> At(g, n)]
           T == {N \in Nat : Solved(N)}
<1>1. 0 \in T
  <2>1. [n \in 0..0 |-> b] = [n \in 0..0 |-> At([m \in 0..0 |-> b], n)]
    BY DEF RefreshedAt
  <2>2. QED
    BY <2>1
<1>2. ASSUME NEW N \in T PROVE N + 1 \in T
  <2>1. PICK g : g = [n \in 0..N |-> At(g, n)]
    BY <1>2
  <2> DEFINE h == [n \in 0..(N + 1) |-> IF n = N + 1 THEN At(g, n) ELSE g[n]]
  <2>2. N \in Nat
    BY <1>2
  <2>3. \A n \in 0..(N + 1) : n # 0 => h[n - 1] = g[n - 1]
    BY <2>2
  <2>4. \A n \in 0..(N + 1) : At(h, n) = At(g, n)
    <3> HIDE DEF h
    <3>1. QED
      BY <2>3 DEF RefreshedAt
  <2>5. \A n \in 0..N : g[n] = At(g, n)
    BY <2>1
  <2> HIDE DEF At
  <2>6. \A n \in 0..(N + 1) : h[n] = At(h, n)
    BY <2>2, <2>4, <2>5
  <2>7. h = [n \in 0..(N + 1) |-> h[n]]
    OBVIOUS
  <2> HIDE DEF h
  <2>8. h = [n \in 0..(N + 1) |-> At(h, n)]
    BY <2>6, <2>7
  <2>9. QED
    BY <2>2, <2>8
<1>3. T = Nat
  <2> HIDE DEF T
  <2>1. T \in SUBSET Nat
    BY DEF T
  <2>2. QED
    BY <1>1, <1>2, <2>1, SetInduction
<1>4. Solved(Len(Order))
  BY <1>3, OrderFacts
<1>5. QED
  BY <1>4 DEF Refreshed, RefreshedAt

\* However many edits end, the other controls stay (apply_tool).
LEMMA RefreshedBar ==
    ASSUME DrawnInv, MemoryInv, NEW cs, NEW after, \A m \in Monitors : Drawn(after[m]),
           NEW b \in Toolbars, NEW t \in InHand
    PROVE  SameControls(b, Refreshed(cs, after, b, t)[Len(Order)])
<1> DEFINE r == Refreshed(cs, after, b, t)
           T == {n \in Nat : n <= Len(Order) => SameControls(b, r[n])}
<1>1. \A n \in 0..Len(Order) : r[n] = RefreshedAt(cs, after, b, t, r, n)
  BY RefreshedSolves
<1> HIDE DEF r
<1>2. 0 \in T
  BY <1>1, OrderFacts DEF RefreshedAt, SameControls
<1>3. ASSUME NEW n \in T PROVE n + 1 \in T
  <2>1. n \in Nat
    BY <1>3
  <2> SUFFICES ASSUME n + 1 <= Len(Order) PROVE SameControls(b, r[n + 1])
    BY <2>1
  <2> DEFINE m == Order[n + 1]
             k == EffectiveKind(after[m], t)
  <2>2. SameControls(b, r[n])
    BY <1>3, <2>1, OrderFacts
  <2>3. m \in Monitors
    BY <2>1, OrderFacts
  <2>4. k \in InHand
    BY <2>3, KindInHand
  <2>5. r[n + 1] = IF cs[m].text # None /\ after[m].text = None THEN Pushed(r[n], m, k) ELSE r[n]
    BY <1>1, <2>1, OrderFacts DEF RefreshedAt
  <2> HIDE DEF k, m
  <2>6. SameControls(r[n], Pushed(r[n], m, k))
    BY <2>2, <2>3, <2>4, PushedBar DEF SameControls
  <2>7. QED
    BY <2>2, <2>5, <2>6 DEF SameControls
<1>4. T = Nat
  <2> HIDE DEF T
  <2>1. T \in SUBSET Nat
    BY DEF T
  <2>2. QED
    BY <1>2, <1>3, <2>1, SetInduction
<1>5. QED
  BY <1>4, OrderFacts DEF r

-----------------------------------------------------------------------------
(* The kinds of steps *)

\* The other controls of b show what the owner goes by.
Tells(b) ==
    /\ DOMAIN told = {"output", "passthrough", "mode", "cursor", "delay"}
    /\ b.output = told.output /\ b.passthrough = told.passthrough
    /\ b.mode = told.mode /\ b.cursor = told.cursor
    /\ b.delay = Between(0, told.delay, 60)

ShowsInv == DrawnInv /\ MemoryInv /\ BarInv /\ PickReachesTargets

\* The invariant, as the lemmas below use it.
LEMMA BarTells ==
    ASSUME BarInv
    PROVE  Tells(bar) /\ bar.lit = {current_tool} \ {"Select"} /\ bar \in Toolbars
  BY DEF BarInv, ControlsAgree, Tells

(***************************************************************************)
(* The memories are not touched.                                           *)
(***************************************************************************)
LEMMA MemoryStays ==
    ASSUME MemoryInv, UNCHANGED <<memory, picker>>
    PROVE  MemoryInv'
  BY DEF MemoryInv

(***************************************************************************)
(* A change of tool (apply_tool).                                          *)
(***************************************************************************)
LEMMA ApplyToolKeeps ==
    ASSUME DrawnInv, MemoryInv, NEW cs, \A m \in Monitors : Drawn(cs[m]),
           NEW b \in Toolbars, Tells(b), NEW worths,
           NEW t \in InHand, t # "Select" => t \in b.spec.tools,
           ApplyTool(cs, b, worths, t), begun' \in Nat, UNCHANGED <<picker, told>>
    PROVE  ShowsInv'
<1> DEFINE after == [m \in Monitors |-> SetTool(cs[m], t)]
           r == Refreshed(cs, after, b, t)[Len(Order)]
           s == ShowTool(r, t)
<1>1. \A m \in Monitors : Drawn(after[m]) /\ (after[m].text # None => t = "Text")
  BY SetToolDraws
<1>2. /\ current_tool' = t /\ canvas' = after /\ landed' = "tool" /\ memory' = memory
      /\ bar' = Pushed(s, Head(Order), t)
  BY DEF ApplyTool
<1>3. DrawnInv'
  BY <1>1, <1>2 DEF DrawnInv, InHand
<1>4. MemoryInv'
  BY <1>2, MemoryStays
<1>5. SameControls(b, r)
  <2> HIDE DEF after
  <2>1. QED
    BY <1>1, RefreshedBar
<1> HIDE DEF r
<1>6. s \in Toolbars /\ s.lit = {t} \ {"Select"} /\ Tells(s)
  <2>1. "Select" \notin r.spec.tools
    BY <1>5, SpecFacts DEF SameControls, Toolbars
  <2>2. QED
    BY <1>5, <2>1, ToolShown DEF SameControls, Tells
<1> HIDE DEF s
<1>7. /\ SameControls(s, bar') /\ bar'.sensitive = PickersFor(t)
      /\ t \in Fits(picker) => Shown(bar', picker) = memory[Head(Order)][t]
  BY <1>2, <1>6, OrderFacts, PushedBar
<1>8. OffersWhatIsDrawn'
  <2> SUFFICES ASSUME t \in Fits(picker)
               PROVE  /\ t = "Text" => \E m \in Monitors : memory[m]["Text"] = Shown(bar', picker)
                      /\ t # "Text" => \A m \in Monitors : memory[m][t] = Shown(bar', picker)
    BY <1>2 DEF OffersWhatIsDrawn
  <2>1. t \in Fits(picker) \cap Handy
    BY HandFacts DEF InHand, DrawnInv
  <2>2. QED
    BY <1>7, <2>1, OrderFacts DEF MemoryInv
<1>9. BarInv'
  BY <1>2, <1>6, <1>7, <1>8 DEF BarInv, ControlsAgree, SameControls, Tells, PickersFor
<1>10. PickReachesTargets'
  BY <1>2 DEF PickReachesTargets
<1>11. QED
  BY <1>3, <1>4, <1>9, <1>10 DEF ShowsInv

(***************************************************************************)
(* A step of one canvas (notify_ui_state).                                 *)
(***************************************************************************)
LEMMA RefreshKeeps ==
    ASSUME ShowsInv, NEW m \in Monitors, NEW c, Drawn(c),
           c.text # None => current_tool \in {"Text", "Select"},
           Refresh(m, c), begun' \in Nat, UNCHANGED <<picker, told>>
    PROVE  ShowsInv'
<1> DEFINE k == EffectiveKind(c, current_tool)
<1>1. DrawnInv /\ MemoryInv /\ BarInv
  BY DEF ShowsInv
<1>2. /\ canvas' = [canvas EXCEPT ![m] = c] /\ bar' = Pushed(bar, m, k)
      /\ current_tool' = current_tool /\ memory' = memory /\ landed' = "tool"
  BY DEF Refresh
<1>3. DrawnInv'
  BY <1>1, <1>2 DEF DrawnInv
<1>4. MemoryInv'
  BY <1>1, <1>2, MemoryStays
<1>5. k \in InHand /\ (current_tool # "Select" => k = current_tool)
  <2>1. current_tool \in InHand
    BY <1>1 DEF DrawnInv, InHand
  <2>2. QED
    BY <2>1, KindInHand
<1> HIDE DEF k
<1>6. /\ SameControls(bar, bar') /\ bar'.sensitive = PickersFor(k)
      /\ k \in Fits(picker) => Shown(bar', picker) = memory[m][k]
  BY <1>1, <1>2, <1>5, PushedBar DEF BarInv
<1>7. OffersWhatIsDrawn'
  <2> SUFFICES ASSUME current_tool \in Fits(picker)
               PROVE  /\ current_tool = "Text" =>
                            \E n \in Monitors : memory[n]["Text"] = Shown(bar', picker)
                      /\ current_tool # "Text" =>
                            \A n \in Monitors : memory[n][current_tool] = Shown(bar', picker)
    BY <1>2 DEF OffersWhatIsDrawn
  <2>1. current_tool \in Fits(picker) \cap Handy /\ k = current_tool
    BY <1>1, <1>5, HandFacts DEF DrawnInv
  <2>2. QED
    BY <1>1, <1>6, <2>1 DEF MemoryInv
<1>8. BarInv'
  BY <1>1, <1>2, <1>5, <1>6, <1>7 DEF BarInv, ControlsAgree, SameControls, PickersFor
<1>9. PickReachesTargets'
  BY <1>2 DEF PickReachesTargets
<1>10. QED
  BY <1>3, <1>4, <1>8, <1>9 DEF ShowsInv

(***************************************************************************)
(* A step that pushes nothing and picks nothing.  A canvas may lose its    *)
(* selection; one that it keeps is of the layer that it was of.            *)
(***************************************************************************)
Quiet(c, d) ==
    /\ Drawn(d)
    /\ d.text = None <=> c.text = None
    /\ d.selection # None => d.selection = c.selection /\ d.layers = c.layers

\* With the pickers, the tool and the memories untouched, nothing is said that was not.
LEMMA StillKeeps ==
    ASSUME ShowsInv, UNCHANGED <<picker, current_tool, memory, worth, typed, begun, landed>>,
           DOMAIN canvas' = Monitors, \A m \in Monitors : Quiet(canvas[m], canvas'[m]),
           bar' \in Toolbars, bar'.lit = bar.lit, bar'.sensitive = bar.sensitive,
           bar'.color = bar.color, bar'.style = bar.style, bar'.size = bar.size,
           Tells(bar)'
    PROVE  ShowsInv'
<1>1. DrawnInv /\ MemoryInv /\ BarInv /\ PickReachesTargets
  BY DEF ShowsInv
<1>2. DrawnInv'
  BY <1>1 DEF DrawnInv, Quiet
<1>3. MemoryInv'
  BY <1>1, MemoryStays
<1>4. Shown(bar, picker)' = Shown(bar, picker)
  BY DEF Shown
<1>5. OffersWhatIsDrawn'
  BY <1>1, <1>4 DEF BarInv, OffersWhatIsDrawn
<1>6. BarInv'
  BY <1>1, <1>5 DEF BarInv, ControlsAgree, Tells, PickersFor
<1>7. PickReachesTargets'
  <2> SUFFICES ASSUME landed = "target", NEW m \in Monitors, Consumes(m)'
               PROVE  Shown(bar, picker) =
                        (IF Edited(m) THEN typed[m] ELSE worth[canvas[m].selection.of])'
    BY <1>4 DEF PickReachesTargets
  <2>1. Edited(m)' <=> Edited(m)
    BY DEF Edited, Quiet
  <2>2. CASE Edited(m)
    <3>1. Consumes(m)
      BY <2>2 DEF Consumes
    <3>2. QED
      BY <1>1, <2>1, <2>2, <3>1 DEF PickReachesTargets
  <2>3. CASE ~Edited(m)
    <3>1. /\ canvas'[m].selection # None
          /\ canvas'[m].layers[canvas'[m].selection.at].kind \in Fits(picker)
      BY <2>1, <2>3 DEF Consumes
    <3>2. canvas'[m].selection = canvas[m].selection /\ canvas'[m].layers = canvas[m].layers
      BY <3>1 DEF Quiet
    <3>3. Consumes(m)
      BY <3>1, <3>2 DEF Consumes
    <3>4. QED
      BY <1>1, <2>1, <2>3, <3>2, <3>3 DEF PickReachesTargets
  <2>4. QED
    BY <2>2, <2>3
<1>8. QED
  BY <1>2, <1>3, <1>6, <1>7 DEF ShowsInv

(***************************************************************************)
(* A pick.                                                                 *)
(***************************************************************************)
LEMMA PickKeeps ==
    ASSUME ShowsInv, NEW b \in Toolbars, NEW v, Pick(b, v), Shown(b, picker) = v,
           b.sensitive = bar.sensitive, b.lit = bar.lit, Tells(b),
           UNCHANGED <<picker, told, begun>>
    PROVE  ShowsInv'
<1>1. DrawnInv /\ MemoryInv /\ BarInv
  BY DEF ShowsInv
<1>2. bar' = b /\ canvas' = canvas /\ current_tool' = current_tool /\ Changed(v)
  BY DEF Pick
<1>3. DrawnInv'
  BY <1>1, <1>2 DEF DrawnInv
<1>4. v \in Values(picker)
  <2>1. b.color \in Colors /\ b.style \in Styles /\ b.size \in 6..200
    BY DEF Toolbars
  <2>2. picker = "color" \/ picker = "style" \/ picker = "size"
    BY <1>1 DEF DrawnInv
  <2>3. QED
    BY <2>1, <2>2 DEF Shown, Values
<1>5. Tells(bar)' /\ bar'.lit = {current_tool} \ {"Select"} /\ bar' \in Toolbars
  BY <1>1, <1>2, BarTells DEF Tells
<1>6. ASSUME OffersWhatIsDrawn' PROVE BarInv'
  BY <1>1, <1>2, <1>5, <1>6 DEF BarInv, ControlsAgree, Tells, PickersFor
<1>7. CASE \E ms \in SUBSET Monitors : {m \in Monitors : Consumes(m)} = ms /\ ApplyToTargets(ms, v)
  <2>1. PICK ms \in SUBSET Monitors : ms = {m \in Monitors : Consumes(m)} /\ ApplyToTargets(ms, v)
    BY <1>7
  <2> DEFINE edits == {m \in ms : Edited(m)}
  <2>2. /\ typed' = [m \in Monitors |-> IF m \in edits THEN v ELSE typed[m]]
        /\ memory' = [m \in Monitors |->
                        IF m \in edits THEN [memory[m] EXCEPT !["Text"] = v] ELSE memory[m]]
        /\ worth' = [i \in Ids |->
                        IF \E m \in ms \ edits : i = canvas[m].selection.of THEN v ELSE worth[i]]
        /\ landed' = "target"
    BY <2>1 DEF ApplyToTargets
  <2>3. \A m \in edits : "Text" \in Fits(picker) \cap Handy
    BY <2>1, <1>1 DEF Edited, DrawnInv, Drawn
  <2>4. \A m \in Monitors : m \in edits <=> Edited(m)
    BY <2>1 DEF Consumes
  <2>5. \A m \in Monitors : Consumes(m) => m \in ms
    BY <2>1
  <2> HIDE DEF edits
  <2>6. MemoryInv'
    BY <1>1, <1>4, <2>2, <2>3 DEF MemoryInv
  <2>7. OffersWhatIsDrawn'
    BY <2>2 DEF OffersWhatIsDrawn
  <2>8. PickReachesTargets'
    <3> SUFFICES ASSUME NEW m \in Monitors, Consumes(m)
                 PROVE  v = IF Edited(m) THEN typed'[m] ELSE worth'[canvas[m].selection.of]
      BY <1>2 DEF PickReachesTargets, Consumes, Edited, Shown
    <3>1. CASE Edited(m)
      BY <2>2, <2>4, <3>1
    <3>2. CASE ~Edited(m)
      <4>1. m \in ms \ edits
        BY <2>4, <2>5, <3>2
      <4>2. canvas[m].selection # None
        BY <3>2 DEF Consumes
      <4>3. canvas[m].selection.of \in Ids
        BY <1>1, <4>2, SelectedPiece DEF DrawnInv
      <4>4. QED
        BY <2>2, <3>2, <4>1, <4>3
    <3>3. QED
      BY <3>1, <3>2
  <2>9. QED
    BY <1>3, <1>6, <2>6, <2>7, <2>8 DEF ShowsInv
<1>8. CASE /\ current_tool \in Fits(picker)
           /\ memory' = [m \in Monitors |-> [memory[m] EXCEPT ![current_tool] = v]]
           /\ landed' = "tool"
  <2>1. current_tool \in Fits(picker) \cap Handy
    BY <1>1, <1>8, HandFacts DEF DrawnInv
  <2>2. MemoryInv' /\ \A m \in Monitors : memory'[m][current_tool] = v
    BY <1>1, <1>4, <1>8, <2>1 DEF MemoryInv
  <2>3. OffersWhatIsDrawn'
    BY <1>2, <2>2, OrderFacts DEF OffersWhatIsDrawn, Shown
  <2>4. PickReachesTargets'
    BY <1>8 DEF PickReachesTargets
  <2>5. QED
    BY <1>3, <1>6, <2>2, <2>3, <2>4 DEF ShowsInv
<1>9. CASE landed' = "nowhere" /\ memory' = memory
  <2>1. MemoryInv'
    BY <1>1, <1>9, MemoryStays
  <2>2. OffersWhatIsDrawn' /\ PickReachesTargets'
    BY <1>9 DEF OffersWhatIsDrawn, PickReachesTargets
  <2>3. QED
    BY <1>3, <1>6, <2>1, <2>2 DEF ShowsInv
<1>10. QED
  BY <1>2, <1>7, <1>8, <1>9 DEF Changed

-----------------------------------------------------------------------------
(* The keyboard *)

(***************************************************************************)
(* The host's methods, with a window on every monitor.                     *)
(***************************************************************************)
Keyed(h) ==
    /\ h \in Hosts /\ h.slots = Monitors /\ h.current \in Monitors
    /\ KeyboardWithToolbar(h, Monitors)

\* Each method puts the keyboard where the toolbar is, wherever it was.
LEMMA HostKeyed ==
    ASSUME NEW h \in Hosts, h.slots = Monitors, h.current \in Monitors
    PROVE  /\ \A on \in BOOLEAN : Keyed(SetKeyboardPassthrough(h, on))
           /\ \A m \in Monitors : Keyed(MoveTo(h, m))
  BY DEF Keyed, Hosts, KeyboardWithToolbar, SetKeyboardPassthrough, MoveTo, SyncKeyboardMode

\* A toolbar just placed has the keyboard (place_initial).
LEMMA PlacedKeyed ==
    ASSUME NEW m \in Monitors
    PROVE  Keyed(Placed(m))
  BY DEF Placed, MoveTo, SyncKeyboardMode, Keyed, Hosts, KeyboardWithToolbar

\* A move under the open dialog is told from a step that leaves things in place.
LEMMA HostBecomesKeeps ==
    ASSUME HostInv, NEW h, Keyed(h), HostBecomes(h), UNCHANGED picker
    PROVE  HostInv'
<1>1. /\ host' = h /\ dialog' = dialog
      /\ dialog # None /\ ~disturbed' =>
            /\ ~disturbed /\ h.current = host.current /\ h.passthrough = host.passthrough
  BY DEF HostBecomes
<1>2. ASSUME dialog # None, ~disturbed'
      PROVE  KeyboardWithToolbar([h EXCEPT !.exclusive = dialog], Monitors)
  BY <1>1, <1>2 DEF HostInv, Keyed, Hosts, KeyboardWithToolbar
<1>3. QED
  BY <1>1, <1>2 DEF HostInv, Keyed

(***************************************************************************)
(* The input is let through, or taken (apply_passthrough_state).           *)
(***************************************************************************)
LEMMA QuietStays ==
    ASSUME DrawnInv, canvas' = canvas
    PROVE  DOMAIN canvas' = Monitors /\ \A m \in Monitors : Quiet(canvas[m], canvas'[m])
  BY DEF DrawnInv, Quiet

\* Toolbar, owner and host are told together.
LEMMA PassthroughKeeps ==
    ASSUME ShowsInv, HostInv, NEW on \in BOOLEAN, NEW b \in Toolbars,
           "passthrough" \in b.spec.shows,
           b.lit = bar.lit, b.sensitive = bar.sensitive, b.color = bar.color,
           b.style = bar.style, b.size = bar.size, b.output = bar.output,
           b.mode = bar.mode, b.cursor = bar.cursor, b.delay = bar.delay,
           Passthrough(b, on), UNCHANGED picker
    PROVE  ShowsInv' /\ HostInv'
<1>1. /\ HostBecomes(SetKeyboardPassthrough(host, on))
      /\ bar' = [b EXCEPT !.passthrough = on]
      /\ told' = [told EXCEPT !.passthrough = on]
      /\ UNCHANGED <<canvas, current_tool, memory, worth, typed, begun, landed>>
  BY DEF Passthrough, SetPassthrough, canvasVars
<1>2. HostInv'
  BY <1>1, HostKeyed, HostBecomesKeeps DEF HostInv
<1>3. Tells(bar)
  BY BarTells DEF ShowsInv
<1>4. /\ bar' \in Toolbars /\ bar'.lit = bar.lit /\ bar'.sensitive = bar.sensitive
      /\ bar'.color = bar.color /\ bar'.style = bar.style /\ bar'.size = bar.size
      /\ bar'.output = bar.output /\ bar'.mode = bar.mode /\ bar'.cursor = bar.cursor
      /\ bar'.delay = bar.delay /\ bar'.passthrough = on
  BY <1>1 DEF Toolbars
<1>5. Tells(bar)'
  BY <1>1, <1>3, <1>4 DEF Tells
<1>6. ShowsInv'
  BY <1>1, <1>4, <1>5, QuietStays, StillKeeps DEF ShowsInv
<1>7. QED
  BY <1>2, <1>6

-----------------------------------------------------------------------------
(* The steps *)

(***************************************************************************)
(* The canvases' own.                                                      *)
(***************************************************************************)
LEMMA CanvasStepKeeps ==
    ASSUME PickersInv, NEW m \in Monitors, CanvasStep(m)
    PROVE  PickersInv'
<1> DEFINE c == canvas[m]
<1>1. /\ ShowsInv /\ HostInv /\ DrawnInv /\ MemoryInv /\ BarInv /\ Drawn(c)
      /\ (c.text # None => current_tool \in {"Text", "Select"})
      /\ \A n \in Monitors : Drawn(canvas[n])
  BY DEF PickersInv, ShowsInv, DrawnInv
<1>2. Tells(bar) /\ bar \in Toolbars
  BY <1>1, BarTells
<1>3. UNCHANGED <<picker, told, host, dialog, disturbed>>
  BY DEF CanvasStep, followed, hostVars
<1>4. HostInv'
  BY <1>1, <1>3 DEF HostInv
<1>5. "Select" \in InHand
  BY DEF InHand
<1>6. CASE DrawStroke(m)
  <2> DEFINE d == PushLayer(c, begun + 1, current_tool)
             cs == [canvas EXCEPT ![m] = d]
             worths == [worth EXCEPT ![begun + 1] = Remembered(m, current_tool)]
  <2>1. begun' \in Nat /\ begun + 1 \in Ids /\ current_tool \in Handy
    <3>1. begun \in Nat /\ begun < MaxAnnotations /\ begun' = begun + 1
      BY <1>1, <1>6 DEF DrawStroke, Begin, DrawnInv
    <3>2. current_tool \in Handy
      BY <1>1, <1>6, PickersAssumption DEF DrawStroke, DrawnInv
    <3>3. MaxAnnotations \in Nat
      BY PickersAssumption
    <3>4. QED
      BY <3>1, <3>2, <3>3 DEF Ids
  <2>2. \A n \in Monitors : Drawn(cs[n])
    <3>1. Drawn(d)
      BY <1>1, <2>1, PushDraws
    <3> HIDE DEF d
    <3>2. QED
      BY <1>1, <3>1 DEF DrawnInv
  <2>3. ApplyTool(cs, bar, worths, "Select")
    BY <1>6 DEF DrawStroke
  <2> HIDE DEF cs, worths
  <2>4. QED
    BY <1>1, <1>2, <1>3, <1>4, <1>5, <2>1, <2>2, <2>3, ApplyToolKeeps DEF PickersInv, ShowsInv
<1>7. CASE ClickText(m)
  <2>1. /\ begun' \in Nat /\ begun + 1 \in Ids /\ current_tool = "Text" /\ "Text" \in Handy
        /\ Refresh(m, StartText(c, begun + 1, Timer))
    <3>1. begun \in Nat /\ begun < MaxAnnotations /\ begun' = begun + 1 /\ current_tool = "Text"
      BY <1>1, <1>7 DEF ClickText, Begin, DrawnInv
    <3>2. "Text" \in Handy
      BY <1>1, <3>1 DEF DrawnInv
    <3>3. MaxAnnotations \in Nat
      BY PickersAssumption
    <3>4. QED
      BY <1>7, <3>1, <3>2, <3>3 DEF Ids, ClickText
  <2>2. Drawn(StartText(c, begun + 1, Timer))
    BY <1>1, <2>1, StartDraws
  <2>3. QED
    BY <1>1, <1>3, <1>4, <2>1, <2>2, RefreshKeeps DEF PickersInv, ShowsInv
<1>8. CASE DoubleClick(m)
  <2> DEFINE d == CommitPendingText(c)
  <2>1. Drawn(d) /\ d.text = None
    BY <1>1, CommitDraws
  <2>2. /\ current_tool \in {"Text", "Select"} /\ begun' \in Nat
        /\ \/ Refresh(m, d)
           \/ \E i \in DOMAIN d.layers :
                d.layers[i].kind = "Text" /\ Refresh(m, ReeditText(d, i, Timer))
    BY <1>1, <1>8 DEF DoubleClick, DrawnInv
  <2>3. \A i \in DOMAIN d.layers : d.layers[i].kind = "Text" => Drawn(ReeditText(d, i, Timer))
    BY <2>1, ReeditDraws
  <2> HIDE DEF d
  <2>4. QED
    BY <1>1, <1>3, <1>4, <2>1, <2>2, <2>3, RefreshKeeps DEF PickersInv, ShowsInv
<1>9. CASE TypeText(m)
  <2> DEFINE d == [c EXCEPT !.text.empty = ~@]
  <2>1. /\ c.text # None /\ canvas' = [canvas EXCEPT ![m] = d]
        /\ UNCHANGED <<bar, current_tool, memory, worth, typed, begun, landed>>
    BY <1>1, <1>9 DEF TypeText, DrawnInv
  <2>2. Drawn(d) /\ d.text # None /\ d.selection = c.selection /\ d.layers = c.layers
    BY <1>1, <2>1, TypingDraws
  <2> HIDE DEF d
  <2>3. DOMAIN canvas' = Monitors /\ \A n \in Monitors : Quiet(canvas[n], canvas'[n])
    BY <1>1, <2>1, <2>2 DEF DrawnInv, Quiet
  <2>4. Tells(bar)'
    BY <1>2, <1>3, <2>1 DEF Tells
  <2>5. QED
    BY <1>1, <1>2, <1>3, <1>4, <2>1, <2>3, <2>4, StillKeeps DEF PickersInv, ShowsInv
<1>10. CASE EndText(m)
  <2>1. ASSUME NEW d, Drawn(d), d.text = None, NEW worths,
               ApplyTool([canvas EXCEPT ![m] = d], Pushed(bar, m, EffectiveKind(d, current_tool)),
                         worths, "Select")
        PROVE  ShowsInv'
    <3> DEFINE b == Pushed(bar, m, EffectiveKind(d, current_tool))
               cs == [canvas EXCEPT ![m] = d]
    <3>1. EffectiveKind(d, current_tool) \in InHand
      BY <1>1, <2>1, KindInHand DEF DrawnInv, InHand
    <3>2. b \in Toolbars /\ Tells(b)
      <4>1. SameControls(bar, b)
        BY <1>1, <1>2, <3>1, PushedBar
      <4>2. QED
        BY <1>2, <4>1 DEF SameControls, Tells
    <3>3. \A n \in Monitors : Drawn(cs[n])
      BY <1>1, <2>1 DEF DrawnInv
    <3>4. ApplyTool(cs, b, worths, "Select")
      BY <2>1
    <3>5. begun' \in Nat
      BY <1>1, <1>10 DEF EndText, DrawnInv
    <3> HIDE DEF b, cs
    <3>6. QED
      BY <1>1, <1>3, <1>5, <3>2, <3>3, <3>4, <3>5, ApplyToolKeeps
  <2>2. \E d \in {CommitPendingText(c), CancelPendingText(c)} : \E worths :
            ApplyTool([canvas EXCEPT ![m] = d], Pushed(bar, m, EffectiveKind(d, current_tool)),
                      worths, "Select")
    BY <1>1, <1>10, Zenon DEF EndText, DrawnInv
  <2>3. \A d \in {CommitPendingText(c), CancelPendingText(c)} : Drawn(d) /\ d.text = None
    BY <1>1, CommitDraws, CancelDraws
  <2>4. ShowsInv'
    BY <2>1, <2>2, <2>3
  <2>5. QED
    BY <1>4, <2>4 DEF PickersInv, ShowsInv
<1>11. CASE PointAt(m)
  <2>1. /\ begun' \in Nat /\ current_tool = "Select"
        /\ \/ \E i \in DOMAIN c.layers : Refresh(m, SelectHit(c, i))
           \/ Refresh(m, Deselect(c))
           \/ c.selection # None /\ Refresh(m, DeleteSelected(c))
    BY <1>1, <1>11 DEF PointAt, DrawnInv
  <2>2. PICK d : Refresh(m, d) /\ Drawn(d)
    BY <1>1, <2>1, SelectingDraws, ShorteningDraws
  <2>3. QED
    BY <1>1, <1>3, <1>4, <2>1, <2>2, RefreshKeeps DEF PickersInv, ShowsInv
<1>12. QED
  BY <1>6, <1>7, <1>8, <1>9, <1>10, <1>11 DEF CanvasStep

(***************************************************************************)
(* The owner's answer to what the toolbar says.                            *)
(***************************************************************************)
LEMMA HandledKeeps ==
    ASSUME PickersInv, NEW b, NEW says, Heard(bar, b, says), Handled(b, says), UNCHANGED picker
    PROVE  PickersInv'
<1>1. /\ ShowsInv /\ HostInv /\ DrawnInv /\ MemoryInv /\ BarInv
      /\ \A n \in Monitors : Drawn(canvas[n])
  BY DEF PickersInv, ShowsInv, DrawnInv
<1>2. Tells(bar) /\ bar \in Toolbars
  BY <1>1, BarTells
<1>3. ASSUME UNCHANGED hostVars PROVE HostInv'
  BY <1>1, <1>3 DEF HostInv, hostVars
<1>4. b \in Toolbars
  BY DEF Heard
<1>5. ASSUME says.does \notin {"OutputModeChanged", "ModeSelected", "CursorToggled", "DelayChanged",
                               "PassthroughToggled"}
      PROVE  Tells(b)
  BY <1>2, <1>5 DEF Heard, Tells
<1>6. CASE /\ says.does = "ToolSelected" /\ says.arg \in Handy \cup {"Select"}
           /\ ApplyTool(canvas, b, IF says.arg = "Text" THEN worth ELSE Settled(Monitors), says.arg)
           /\ UNCHANGED <<begun, told, hostVars>>
  <2>1. says.arg \in InHand /\ (says.arg # "Select" => says.arg \in b.spec.tools)
    BY <1>6 DEF Heard, InHand
  <2>2. begun' \in Nat
    BY <1>1, <1>6 DEF DrawnInv
  <2>3. \E worths : ApplyTool(canvas, b, worths, says.arg)
    BY <1>6
  <2>4. ShowsInv'
    BY <1>1, <1>4, <1>5, <1>6, <2>1, <2>2, <2>3, ApplyToolKeeps
  <2>5. QED
    BY <1>3, <1>6, <2>4 DEF PickersInv, ShowsInv
<1>7. CASE /\ says.does = PickSays[picker]
           /\ Pick(b, says.arg)
           /\ UNCHANGED <<begun, told, hostVars>>
  <2>1. picker = "color" \/ picker = "style" \/ picker = "size"
    BY <1>1 DEF DrawnInv
  <2>2. says.does = IF picker = "color" THEN "ColorChanged"
                    ELSE IF picker = "style" THEN "StrokeStyleChanged" ELSE "FontSizeChanged"
    BY <1>7, <2>1 DEF PickSays
  <2>3. /\ Shown(b, picker) = says.arg /\ b.sensitive = bar.sensitive /\ b.lit = bar.lit
    BY <2>1, <2>2 DEF Heard, Shown
  <2>4. Tells(b)
    BY <1>5, <2>1, <2>2
  <2>5. ShowsInv'
    BY <1>1, <1>4, <1>7, <2>3, <2>4, PickKeeps
  <2>6. QED
    BY <1>3, <1>7, <2>5 DEF PickersInv, ShowsInv
<1>8. CASE /\ says.does \in {"Undo", "Clear"}
           /\ canvas' = IF says.does = "Undo" THEN Undone(canvas) ELSE AllCleared(canvas)
           /\ bar' = b
           /\ UNCHANGED <<current_tool, memory, worth, typed, begun, landed, picks, told, hostVars>>
  <2>1. DOMAIN canvas' = Monitors /\ \A m \in Monitors : Quiet(canvas[m], canvas'[m])
    <3>1. \A m \in Monitors :
            /\ Quiet(canvas[m], canvas[m])
            /\ Quiet(canvas[m], Undo(canvas[m]))
            /\ Quiet(canvas[m], ClearLayers(canvas[m]))
      BY <1>1, ShorteningDraws DEF Quiet
    <3>2. CASE says.does = "Undo"
      BY <1>1, <1>8, <3>1, <3>2 DEF Undone, DrawnInv
    <3>3. CASE says.does = "Clear"
      BY <1>8, <3>1, <3>3 DEF AllCleared
    <3>4. QED
      BY <1>8, <3>2, <3>3
  <2>2. /\ b.lit = bar.lit /\ b.sensitive = bar.sensitive
        /\ b.color = bar.color /\ b.style = bar.style /\ b.size = bar.size
    BY <1>8 DEF Heard
  <2>3. Tells(bar)'
    <3>1. Tells(b)
      BY <1>5, <1>8
    <3>2. QED
      BY <1>8, <3>1 DEF Tells
  <2>4. ShowsInv'
    BY <1>1, <1>4, <1>8, <2>1, <2>2, <2>3, StillKeeps
  <2>5. QED
    BY <1>3, <1>8, <2>4 DEF PickersInv, ShowsInv
<1>9. CASE says.does = "PassthroughToggled" /\ Passthrough(b, says.arg)
  <2>1. /\ says.arg \in BOOLEAN /\ "passthrough" \in b.spec.shows
        /\ b.lit = bar.lit /\ b.sensitive = bar.sensitive /\ b.color = bar.color
        /\ b.style = bar.style /\ b.size = bar.size /\ b.output = bar.output
        /\ b.mode = bar.mode /\ b.cursor = bar.cursor /\ b.delay = bar.delay
    BY <1>9 DEF Heard
  <2>2. ShowsInv' /\ HostInv'
    BY <1>1, <1>4, <1>9, <2>1, PassthroughKeeps
  <2>3. QED
    BY <2>2 DEF PickersInv, ShowsInv
<1>10. CASE /\ says.does \in DOMAIN ToldOf
            /\ told' = [told EXCEPT ![ToldOf[says.does]] = says.arg]
            /\ bar' = b
            /\ UNCHANGED <<canvasVars, hostVars>>
  <2>1. UNCHANGED <<canvas, current_tool, memory, worth, typed, begun, landed>>
    BY <1>10 DEF canvasVars
  <2>2. says.does \in {"OutputModeChanged", "ModeSelected", "CursorToggled", "DelayChanged"}
    BY <1>10 DEF ToldOf
  <2>3. /\ b.lit = bar.lit /\ b.sensitive = bar.sensitive
        /\ b.color = bar.color /\ b.style = bar.style /\ b.size = bar.size
    BY <2>2 DEF Heard
  <2>4. Tells(bar)'
    <3>1. CASE says.does = "OutputModeChanged"
      <4>0. ToldOf[says.does] = "output"
        BY <3>1 DEF ToldOf
      <4>1. told' = [told EXCEPT !["output"] = says.arg]
        BY <1>10, <4>0
      <4>2. /\ b.output = says.arg /\ b.passthrough = bar.passthrough /\ b.mode = bar.mode
            /\ b.cursor = bar.cursor /\ b.delay = bar.delay
        BY <3>1 DEF Heard
      <4>3. QED
        BY <1>2, <1>10, <4>1, <4>2 DEF Tells
    <3>2. CASE says.does = "ModeSelected"
      <4>0. ToldOf[says.does] = "mode"
        BY <3>2 DEF ToldOf
      <4>1. told' = [told EXCEPT !["mode"] = says.arg]
        BY <1>10, <4>0
      <4>2. /\ b.output = bar.output /\ b.passthrough = bar.passthrough /\ b.mode = says.arg
            /\ b.cursor = bar.cursor /\ b.delay = bar.delay
        BY <3>2 DEF Heard
      <4>3. QED
        BY <1>2, <1>10, <4>1, <4>2 DEF Tells
    <3>3. CASE says.does = "CursorToggled"
      <4>0. ToldOf[says.does] = "cursor"
        BY <3>3 DEF ToldOf
      <4>1. told' = [told EXCEPT !["cursor"] = says.arg]
        BY <1>10, <4>0
      <4>2. /\ b.output = bar.output /\ b.passthrough = bar.passthrough /\ b.mode = bar.mode
            /\ b.cursor = says.arg /\ b.delay = bar.delay
        BY <3>3 DEF Heard
      <4>3. QED
        BY <1>2, <1>10, <4>1, <4>2 DEF Tells
    <3>4. CASE says.does = "DelayChanged"
      <4>0. ToldOf[says.does] = "delay"
        BY <3>4 DEF ToldOf
      <4>1. told' = [told EXCEPT !["delay"] = says.arg]
        BY <1>10, <4>0
      <4>2. /\ b.output = bar.output /\ b.passthrough = bar.passthrough /\ b.mode = bar.mode
            /\ b.cursor = bar.cursor /\ b.delay = says.arg /\ b \in Toolbars
        BY <3>4 DEF Heard
      <4>3. Between(0, says.arg, 60) = says.arg
        BY <4>2 DEF Toolbars, Between
      <4>4. QED
        BY <1>2, <1>10, <4>1, <4>2, <4>3 DEF Tells
    <3>5. QED
      BY <2>2, <3>1, <3>2, <3>3, <3>4
  <2>5. ShowsInv'
    BY <1>1, <1>4, <1>10, <2>1, <2>3, <2>4, QuietStays, StillKeeps
  <2>6. QED
    BY <1>3, <1>10, <2>5 DEF PickersInv, ShowsInv
<1>11. CASE /\ says.does \in {"Nothing", "Save", "Capture", "Annotate"}
            /\ bar' = b
            /\ UNCHANGED <<canvasVars, told, hostVars>>
  <2>1. UNCHANGED <<canvas, current_tool, memory, worth, typed, begun, landed>>
    BY <1>11 DEF canvasVars
  <2>2. /\ b.lit = bar.lit /\ b.sensitive = bar.sensitive
        /\ b.color = bar.color /\ b.style = bar.style /\ b.size = bar.size
    BY <1>11 DEF Heard
  <2>3. Tells(bar)'
    <3>1. Tells(b)
      BY <1>5, <1>11
    <3>2. QED
      BY <1>11, <3>1 DEF Tells
  <2>4. ShowsInv'
    BY <1>1, <1>4, <1>11, <2>1, <2>2, <2>3, QuietStays, StillKeeps
  <2>5. QED
    BY <1>3, <1>11, <2>4 DEF PickersInv, ShowsInv
<1>12. QED
  BY <1>6, <1>7, <1>8, <1>9, <1>10, <1>11 DEF Handled

(***************************************************************************)
(* What the user does to the toolbar.                                      *)
(***************************************************************************)
LEMMA ButtonsKeep ==
    ASSUME PickersInv, Click \/ PressShortcut
    PROVE  PickersInv'
<1>1. bar \in Toolbars /\ (bar.lit = {} \/ \E u : bar.lit = {u})
  BY BarTells DEF PickersInv
<1>2. UNCHANGED picker
  BY DEF Click, PressShortcut, followed
<1>3. CASE Click
  <2>1. PICK shift \in BOOLEAN : \E r \in Clicks(bar, shift) : Handled(r.bar, r.says)
    BY <1>3 DEF Click
  <2>2. PICK r \in Clicks(bar, shift) : Handled(r.bar, r.says)
    BY <2>1
  <2>3. Heard(bar, r.bar, r.says)
    BY <1>1, <2>2, ClicksHeard
  <2>4. QED
    BY <1>2, <2>2, <2>3, HandledKeeps
<1>4. CASE PressShortcut
  <2>1. PICK s \in Shortcuts(bar.spec) : Handled(Pressed(bar, s).bar, Pressed(bar, s).says)
    BY <1>4 DEF PressShortcut
  <2>2. Heard(bar, Pressed(bar, s).bar, Pressed(bar, s).says)
    BY <1>1, <2>1, PressedHeard
  <2>3. QED
    BY <1>2, <2>1, <2>2, HandledKeeps
<1>5. QED
  BY <1>3, <1>4

(***************************************************************************)
(* Shift, the nested selector, the daemon, and the focus.                  *)
(***************************************************************************)
LEMMA OwnerKeeps ==
    ASSUME PickersInv, PollShift \/ NestedSelectorSettles \/ DaemonToggles \/ FocusMoves
    PROVE  PickersInv'
<1>1. ShowsInv /\ HostInv /\ DrawnInv
  BY DEF PickersInv, ShowsInv
<1>2. Tells(bar) /\ bar \in Toolbars
  BY <1>1, BarTells DEF ShowsInv
<1>3. UNCHANGED picker
  BY DEF PollShift, NestedSelectorSettles, DaemonToggles, FocusMoves, followed
<1>4. CASE PollShift
  <2>1. PICK shift \in BOOLEAN : bar' = ApplyShift(bar, shift)
    BY <1>4 DEF PollShift
  <2>2. UNCHANGED <<canvas, current_tool, memory, worth, typed, begun, landed, told,
                    host, dialog, disturbed>>
    BY <1>4 DEF PollShift, canvasVars, hostVars
  <2>3. /\ bar' \in Toolbars /\ bar'.sensitive = bar.sensitive /\ bar'.lit = bar.lit
        /\ bar'.color = bar.color /\ bar'.style = bar.style /\ bar'.size = bar.size
        /\ bar'.output = bar.output /\ bar'.mode = bar.mode /\ bar'.cursor = bar.cursor
        /\ bar'.delay = bar.delay /\ bar'.passthrough = bar.passthrough
    BY <1>2, <2>1, ShiftKeeps
  <2>4. Tells(bar)'
    BY <1>2, <2>2, <2>3 DEF Tells
  <2>5. ShowsInv'
    BY <1>1, <1>3, <2>2, <2>3, <2>4, QuietStays, StillKeeps
  <2>6. HostInv'
    BY <1>1, <1>3, <2>2 DEF HostInv
  <2>7. QED
    BY <2>5, <2>6 DEF PickersInv, ShowsInv
<1>5. CASE NestedSelectorSettles
  <2>1. PICK to \in Destinations : /\ bar' = SetOutputMode(bar, to)
                                   /\ told' = [told EXCEPT !.output = to]
    BY <1>5 DEF NestedSelectorSettles
  <2>2. UNCHANGED <<canvas, current_tool, memory, worth, typed, begun, landed,
                    host, dialog, disturbed>>
    BY <1>5 DEF NestedSelectorSettles, canvasVars, hostVars
  <2>3. bar' = [bar EXCEPT !.output = to]
    <3>1. "output" \in bar.spec.shows
      BY <1>5 DEF NestedSelectorSettles, OverlaySpec
    <3>2. QED
      BY <2>1, <3>1 DEF SetOutputMode
  <2>4. /\ bar' \in Toolbars /\ bar'.sensitive = bar.sensitive /\ bar'.lit = bar.lit
        /\ bar'.color = bar.color /\ bar'.style = bar.style /\ bar'.size = bar.size
        /\ bar'.output = to /\ bar'.mode = bar.mode /\ bar'.cursor = bar.cursor
        /\ bar'.delay = bar.delay /\ bar'.passthrough = bar.passthrough
    BY <1>2, <2>3 DEF Toolbars
  <2>5. Tells(bar)'
    BY <1>2, <2>1, <2>4 DEF Tells
  <2>6. ShowsInv'
    BY <1>1, <1>3, <2>2, <2>4, <2>5, QuietStays, StillKeeps
  <2>7. HostInv'
    BY <1>1, <1>3, <2>2 DEF HostInv
  <2>8. QED
    BY <2>6, <2>7 DEF PickersInv, ShowsInv
<1>6. CASE DaemonToggles
  <2>1. "passthrough" \in bar.spec.shows
    BY <1>6 DEF DaemonToggles, OverlaySpec
  <2>2. (~told.passthrough) \in BOOLEAN /\ Passthrough(bar, ~told.passthrough)
    BY <1>6 DEF DaemonToggles
  <2>3. ShowsInv' /\ HostInv'
    BY <1>1, <1>2, <1>3, <2>1, <2>2, PassthroughKeeps
  <2>4. QED
    BY <2>3 DEF PickersInv, ShowsInv
<1>7. CASE FocusMoves
  <2>1. PICK m \in Monitors : HostBecomes(MoveTo(host, m))
    BY <1>7 DEF FocusMoves
  <2>2. UNCHANGED <<bar, canvas, current_tool, memory, worth, typed, begun, landed, told>>
    BY <1>7 DEF FocusMoves, canvasVars
  <2>3. HostInv'
    BY <1>1, <1>3, <2>1, HostKeyed, HostBecomesKeeps DEF HostInv
  <2>4. Tells(bar)'
    BY <1>2, <2>2 DEF Tells
  <2>5. ShowsInv'
    BY <1>1, <1>2, <1>3, <2>2, <2>4, QuietStays, StillKeeps
  <2>6. QED
    BY <2>3, <2>5 DEF PickersInv, ShowsInv
<1>8. QED
  BY <1>4, <1>5, <1>6, <1>7

(***************************************************************************)
(* The colour dialog, which takes every window's keyboard and gives it     *)
(* back.                                                                   *)
(***************************************************************************)
LEMMA DialogKeeps ==
    ASSUME PickersInv, OpenColorDialog \/ CloseColorDialog
    PROVE  PickersInv'
<1>1. ShowsInv /\ HostInv /\ DrawnInv
  BY DEF PickersInv, ShowsInv
<1>2. Tells(bar) /\ bar \in Toolbars
  BY <1>1, BarTells DEF ShowsInv
<1>3. UNCHANGED <<picker, told, disturbed>>
  BY DEF OpenColorDialog, CloseColorDialog, followed
<1>4. ASSUME UNCHANGED <<bar, canvasVars>> PROVE ShowsInv'
  <2>1. UNCHANGED <<bar, canvas, current_tool, memory, worth, typed, begun, landed>>
    BY <1>4 DEF canvasVars
  <2>2. Tells(bar)'
    BY <1>2, <1>3, <2>1 DEF Tells
  <2>3. QED
    BY <1>1, <1>2, <1>3, <2>1, <2>2, QuietStays, StillKeeps
<1>5. CASE OpenColorDialog
  <2>1. /\ dialog = None /\ picker = "color" /\ dialog' = host.exclusive
        /\ host' = [host EXCEPT !.exclusive = {}] /\ UNCHANGED <<bar, canvasVars>>
    BY <1>5 DEF OpenColorDialog
  <2>2. host.exclusive \in SUBSET Monitors /\ dialog' # None
    BY <1>1, <2>1, PickersAssumption DEF HostInv, Hosts
  <2>3. host' \in Hosts /\ host'.slots = Monitors /\ host'.current \in Monitors
    BY <1>1, <2>1 DEF HostInv, Hosts
  <2>4. [host' EXCEPT !.exclusive = dialog'] = host
    BY <1>1, <2>1 DEF HostInv, Hosts
  <2>5. HostInv'
    BY <1>1, <1>3, <2>1, <2>2, <2>3, <2>4 DEF HostInv
  <2>6. QED
    BY <1>4, <2>1, <2>5 DEF PickersInv, ShowsInv
<1>6. CASE CloseColorDialog
  <2>1. /\ dialog # None /\ dialog' = None
        /\ host' = [host EXCEPT !.exclusive = dialog]
        /\ \/ UNCHANGED <<bar, canvasVars>>
           \/ \E c \in Colors : Pick(PickColor(bar, c).bar, c) /\ UNCHANGED begun
    BY <1>6 DEF CloseColorDialog
  <2>2. host' \in Hosts /\ host'.slots = Monitors /\ host'.current \in Monitors
    BY <1>1, <2>1 DEF HostInv, Hosts
  <2>3. HostInv'
    BY <1>1, <1>3, <2>1, <2>2 DEF HostInv
  <2>4. ASSUME NEW c \in Colors, Pick(PickColor(bar, c).bar, c), UNCHANGED begun
        PROVE  ShowsInv'
    <3> DEFINE b == PickColor(bar, c).bar
    <3>1. /\ b \in Toolbars /\ Shown(b, "color") = c
          /\ b.sensitive = bar.sensitive /\ b.lit = bar.lit
          /\ b.output = bar.output /\ b.mode = bar.mode /\ b.cursor = bar.cursor
          /\ b.delay = bar.delay /\ b.passthrough = bar.passthrough
      BY <1>2 DEF PickColor, Says, Shown, Toolbars
    <3> HIDE DEF b
    <3>2. Pick(b, c)
      BY <2>4 DEF b
    <3>3. picker = "color"
      BY <1>1, <2>1 DEF HostInv
    <3>4. Tells(b)
      BY <1>2, <3>1 DEF Tells
    <3>5. QED
      BY <1>1, <1>3, <2>4, <3>1, <3>2, <3>3, <3>4, PickKeeps
  <2>5. QED
    BY <1>4, <2>1, <2>3, <2>4 DEF PickersInv, ShowsInv
<1>7. QED
  BY <1>5, <1>6

-----------------------------------------------------------------------------
(***************************************************************************)
(* A toolbar just built, over empty canvases that remember the defaults.   *)
(***************************************************************************)
LEMMA PickersStart == PickersInit => PickersInv
<1> SUFFICES ASSUME PickersInit PROVE PickersInv
  OBVIOUS
<1>1. /\ picker \in {"color", "style", "size"} /\ current_tool = "Select" /\ begun = 0
      /\ canvas = [m \in Monitors |-> SetDocument("Select")]
      /\ memory = [m \in Monitors |-> [t \in Fits(picker) \cap Handy |-> Default(t)]]
      /\ \E asked \in Delays :
            /\ bar.delay = Between(0, asked, 60)
            /\ told = [output |-> bar.output, passthrough |-> bar.passthrough,
                       mode |-> bar.mode, cursor |-> bar.cursor, delay |-> asked]
      /\ dialog = None /\ landed = "tool"
  BY DEF PickersInit
<1>2. DrawnInv
  BY <1>1, EmptyDrawn DEF DrawnInv
<1>3. MemoryInv
  <2>1. ASSUME NEW t \in Fits(picker) \cap Handy PROVE Default(t) \in Values(picker)
    <3>1. ConfigColor[t] \in Colors /\ "Solid" \in Styles /\ DefaultSize \in 6..200
      BY HandFacts, PickersAssumption DEF Styles, DefaultSize
    <3>2. Values("color") = Colors /\ Values("style") = Styles /\ Values("size") = 6..200
      BY DEF Values
    <3>3. picker = "color" \/ picker = "style" \/ picker = "size"
      BY <1>1
    <3>4. QED
      BY <3>1, <3>2, <3>3 DEF Default
  <2>2. QED
    BY <1>1, <2>1 DEF MemoryInv
<1>4. BarInv
  <2>1. IsBuilt(bar)
    BY PickersAssumption DEF PickersInit
  <2>2. bar \in Toolbars /\ bar.lit = {}
    BY <2>1, BuiltIsToolbar
  <2>3. OffersWhatIsDrawn
    BY <1>1, HandFacts DEF OffersWhatIsDrawn
  <2>4. DOMAIN told = {"output", "passthrough", "mode", "cursor", "delay"}
    BY <1>1
  <2>5. ControlsAgree
    BY <1>1, <2>2 DEF ControlsAgree
  <2>6. QED
    BY <1>1, <2>2, <2>3, <2>4, <2>5 DEF BarInv
<1>5. PickReachesTargets
  BY <1>1 DEF PickReachesTargets
<1>6. HostInv
  BY <1>1, PlacedKeyed DEF PickersInit, HostInv, Keyed
<1>7. QED
  BY <1>2, <1>3, <1>4, <1>5, <1>6 DEF PickersInv

\* Every step keeps the invariant.
LEMMA PickersStep == PickersInv /\ [PickersNext]_pickersVars => PickersInv'
<1> SUFFICES ASSUME PickersInv, [PickersNext]_pickersVars PROVE PickersInv'
  OBVIOUS
<1>1. CASE \E m \in Monitors : CanvasStep(m)
  BY <1>1, CanvasStepKeeps
<1>2. CASE Click \/ PressShortcut
  BY <1>2, ButtonsKeep
<1>3. CASE PollShift \/ NestedSelectorSettles \/ DaemonToggles \/ FocusMoves
  BY <1>3, OwnerKeeps
<1>4. CASE OpenColorDialog \/ CloseColorDialog
  BY <1>4, DialogKeeps
<1>5. CASE UNCHANGED pickersVars
  <2>1. UNCHANGED <<bar, picker, told, canvas, current_tool, memory, worth, typed, begun, landed,
                    host, dialog, disturbed>>
    BY <1>5 DEF pickersVars, canvasVars, followed, hostVars
  <2>2. ShowsInv /\ HostInv /\ DrawnInv /\ Tells(bar) /\ bar \in Toolbars
    BY BarTells DEF PickersInv, ShowsInv
  <2>3. Tells(bar)'
    BY <2>1, <2>2 DEF Tells
  <2>4. ShowsInv'
    BY <2>1, <2>2, <2>3, QuietStays, StillKeeps
  <2>5. HostInv'
    BY <2>1, <2>2 DEF HostInv
  <2>6. QED
    BY <2>4, <2>5 DEF PickersInv, ShowsInv
<1>6. QED
  BY <1>1, <1>2, <1>3, <1>4, <1>5 DEF PickersNext

(***************************************************************************)
(* For any monitors, tools, colours, toolbars and number of annotations    *)
(* and picks: the pickers offer what the next annotation is drawn with and *)
(* can be used when it has the attribute, a pick is on all that it went    *)
(* to, the other controls show what their owner goes by - of a delay asked *)
(* for, whatever it is, up to the 60 s of the spinner - and the colour     *)
(* dialog gives back the keyboard.                                         *)
(***************************************************************************)
THEOREM ToolbarTruthful == Spec => []ToolbarTells
<1>1. PickersInv => ToolbarTells
  <2> SUFFICES ASSUME PickersInv PROVE ToolbarTells
    OBVIOUS
  <2>1. OffersWhatIsDrawn /\ PickReachesTargets /\ ControlsAgree
    BY DEF PickersInv, BarInv
  <2>2. UsableWhenItFits
    BY DEF PickersInv, BarInv, UsableWhenItFits
  <2>3. KeyboardReturns
    BY DEF PickersInv, HostInv, KeyboardReturns
  <2>4. QED
    BY <2>1, <2>2, <2>3 DEF ToolbarTells
<1>2. Init => PickersInit
  BY DEF Init
<1>3. [Next]_vars => [PickersNext]_pickersVars
  BY DEF Next, vars
<1>4. QED
  BY <1>1, <1>2, <1>3, PickersStart, PickersStep, PTL DEF Spec

-----------------------------------------------------------------------------
(* Shapes: points and numbers *)

Spots == Int \X Int

\* Rounding a count of half pixels is off by half a pixel at most.
LEMMA Rounded ==
    ASSUME NEW h \in Int
    PROVE  /\ Shape!Round(h) \in Int /\ 2 * Shape!Round(h) - h \in {-1, 0, 1}
           /\ h >= 0 => Shape!Round(h) \in Nat /\ 2 * Shape!Round(h) >= h
           /\ Shape!Trunc(h) \in Int /\ 2 * Shape!Trunc(h) - h \in {-1, 0, 1}
           /\ Shape!Floor(h) \in Int /\ Shape!Ceil(h) \in Int
           /\ h >= 0 => Shape!Ceil(h) \in Nat
  BY DEF Shape!Round, Shape!Trunc, Shape!Floor, Shape!Ceil

\* A whole pixel is its own rounding.
LEMMA WholePixels == \A n \in Int : Shape!Round(2 * n) = n
  BY DEF Shape!Round

\* Points are pairs of integers, and so are their sums and differences.
LEMMA SpotFacts ==
    ASSUME NEW p \in Spots, NEW q \in Spots
    PROVE  /\ p = << p[1], p[2] >> /\ p[1] \in Int /\ p[2] \in Int
           /\ Shape!Plus(p, q) = << p[1] + q[1], p[2] + q[2] >>
           /\ Shape!Minus(p, q) = << p[1] - q[1], p[2] - q[2] >>
           /\ Shape!Plus(p, q) \in Spots /\ Shape!Minus(p, q) \in Spots
  BY DEF Spots, Shape!Plus, Shape!Minus

-----------------------------------------------------------------------------
(* Shapes: what they are *)

\* What a shape may be, by its kind.
Boxes == [x : Int, y : Int, w : Nat, h : Nat]

Labels == [origin : Spots, size_pt : Nat \ {0}, wrap_width : Nat \cup {None},
           bounds_cache : Nat \X (Nat \ {0})]

Figures(k) ==
    CASE k \in Shape!BoxKinds -> Boxes
      [] k \in Shape!PairKinds -> [1..2 -> Spots]
      [] k = "Number" -> [center : Spots, radius : Int]
      [] k = "Text" -> Labels
      [] k = "Freehand" -> Seq(Spots) \ {<<>>}

Forms == Shape!BoxKinds \cup Shape!PairKinds \cup {"Freehand", "Number", "Text"}

\* A kind belongs to one group, and its shapes are those of the group.
LEMMA FigureOf ==
    ASSUME NEW k \in Forms
    PROVE  \/ k \in Shape!BoxKinds /\ k \notin Shape!PairKinds \cup {"Freehand", "Number", "Text"}
              /\ Figures(k) = Boxes
           \/ k \in Shape!PairKinds /\ k \notin Shape!BoxKinds \cup {"Freehand", "Number", "Text"}
              /\ Figures(k) = [1..2 -> Spots]
           \/ k = "Number" /\ k \notin Shape!BoxKinds \cup Shape!PairKinds
              /\ Figures(k) = [center : Spots, radius : Int]
           \/ k = "Text" /\ k \notin Shape!BoxKinds \cup Shape!PairKinds /\ Figures(k) = Labels
           \/ k = "Freehand" /\ k \notin Shape!BoxKinds \cup Shape!PairKinds
              /\ Figures(k) = Seq(Spots) \ {<<>>}
<1>1. CASE k \in Shape!BoxKinds
  BY <1>1 DEF Shape!BoxKinds, Shape!PairKinds, Figures
<1>2. CASE k \in Shape!PairKinds
  BY <1>2 DEF Shape!BoxKinds, Shape!PairKinds, Figures
<1>3. CASE k \in {"Freehand", "Number", "Text"}
  BY <1>3 DEF Shape!BoxKinds, Shape!PairKinds, Figures
<1>4. QED
  BY <1>1, <1>2, <1>3 DEF Forms

\* A box is its corner and its size.
LEMMA BoxParts ==
    ASSUME NEW r \in Boxes
    PROVE  /\ r = Shape!Box(r.x, r.y, r.w, r.h)
           /\ r.x \in Int /\ r.y \in Int /\ r.w \in Nat /\ r.h \in Nat
  BY DEF Boxes, Shape!Box

(***************************************************************************)
(* A text measured is as wide as its wrap, or wider.                       *)
(***************************************************************************)
LEMMA Measured ==
    ASSUME NEW size \in Nat \ {0}, NEW wrap \in Nat \cup {None}
    PROVE  LET m == Shape!MeasureTextBounds(size, wrap)
           IN  /\ m \in Nat \X (Nat \ {0})
               /\ wrap # None => m[1] >= Shape!Round(wrap)
<1>1. None \notin Int
  BY EditingAssumption
<1>2. CASE wrap = None
  BY <1>2 DEF Shape!MeasureTextBounds
<1>3. CASE wrap # None
  <2>1. wrap \in Nat /\ Shape!Round(wrap) \in Nat
    BY <1>3, Rounded
  <2> DEFINE n == Shape!Round(wrap)
             g == Shape!Greatest(n, size)
  <2>2. g \in Nat \ {0} /\ g >= n
    BY <2>1 DEF Shape!Greatest
  <2>3. Shape!MeasureTextBounds(size, wrap) \in {<<n, size>>, <<g, 2 * size>>}
    BY <1>3 DEF Shape!MeasureTextBounds
  <2> HIDE DEF n, g
  <2>4. QED
    BY <2>1, <2>2, <2>3 DEF n
<1>4. QED
  BY <1>2, <1>3

\* A label laid out is a label.
LEMMA LabelMade ==
    ASSUME NEW o \in Spots, NEW size \in Nat \ {0}, NEW wrap \in Nat \cup {None}
    PROVE  Shape!TextAt(o, size, wrap) \in Labels
  BY Measured DEF Shape!TextAt, Labels

(***************************************************************************)
(* A shape that is moved is of its kind and form, and moved as far as the  *)
(* pointer; a box to half a pixel (Tool::translate).                       *)
(***************************************************************************)
LEMMA MovedKeeps ==
    ASSUME kind \in Forms, NEW s \in Figures(kind), NEW d \in Spots
    PROVE  LET t == Shape!Translated(kind, s, d)
           IN  /\ t \in Figures(kind)
               /\ Shape!Form(t) = Shape!Form(s)
               /\ Shape!Anchor(s) \in Spots /\ Shape!Anchor(t) \in Spots
               /\ kind \notin Shape!BoxKinds => Shape!Anchor(t) = Shape!Plus(Shape!Anchor(s), d)
               /\ \A i \in {1, 2} :
                      Shape!Anchor(t)[i] - Shape!Anchor(s)[i] - d[i] \in {-1, 0, 1}
<1> DEFINE t == Shape!Translated(kind, s, d)
<1>1. d[1] \in Int /\ d[2] \in Int /\ d = <<d[1], d[2]>>
  BY SpotFacts
<1>2. ASSUME t \in Figures(kind), Shape!Form(t) = Shape!Form(s), Shape!Anchor(s) \in Spots,
             Shape!Anchor(t) = Shape!Plus(Shape!Anchor(s), d)
      PROVE  /\ Shape!Anchor(t) \in Spots
             /\ \A i \in {1, 2} : Shape!Anchor(t)[i] - Shape!Anchor(s)[i] - d[i] \in {-1, 0, 1}
  <2> DEFINE a == Shape!Anchor(s)
  <2>1. a \in Spots
    BY <1>2
  <2> HIDE DEF a
  <2>2. /\ a[1] \in Int /\ a[2] \in Int /\ Shape!Plus(a, d) = <<a[1] + d[1], a[2] + d[2]>>
        /\ Shape!Plus(a, d) \in Spots
    BY <2>1, SpotFacts
  <2>3. QED
    BY <1>1, <1>2, <2>2 DEF a
<1>3. CASE /\ kind \in Shape!BoxKinds
           /\ kind \notin Shape!PairKinds \cup {"Freehand", "Number", "Text"}
           /\ Figures(kind) = Boxes
  <2>1. /\ s = Shape!Box(s.x, s.y, s.w, s.h)
        /\ s.x \in Int /\ s.y \in Int /\ s.w \in Nat /\ s.h \in Nat
    BY <1>3, BoxParts
  <2> DEFINE dx == Shape!Round(d[1])
             dy == Shape!Round(d[2])
  <2>2. /\ dx \in Int /\ 2 * dx - d[1] \in {-1, 0, 1}
        /\ dy \in Int /\ 2 * dy - d[2] \in {-1, 0, 1}
    BY <1>1, Rounded
  <2>3. t = [s EXCEPT !.x = @ + dx, !.y = @ + dy]
    BY <1>3 DEF Shape!Translated, Shape!TranslateBox
  <2> HIDE DEF dx, dy, t
  <2>4. t = Shape!Box(s.x + dx, s.y + dy, s.w, s.h)
    BY <2>1, <2>3 DEF Shape!Box
  <2>5. t \in Boxes
    BY <2>1, <2>2, <2>4 DEF Boxes, Shape!Box
  <2>6. t.x = s.x + dx /\ t.y = s.y + dy /\ t.w = s.w /\ t.h = s.h
    BY <2>4 DEF Shape!Box
  <2>7. /\ Shape!Anchor(s) = <<2 * s.x, 2 * s.y>> /\ Shape!Form(s) = <<s.w, s.h>>
        /\ Shape!Anchor(t) = <<2 * t.x, 2 * t.y>> /\ Shape!Form(t) = <<t.w, t.h>>
    BY <1>3 DEF Shape!Anchor, Shape!Form, Shape!Px
  <2>8. /\ (2 * t.x) - (2 * s.x) - d[1] \in {-1, 0, 1}
        /\ (2 * t.y) - (2 * s.y) - d[2] \in {-1, 0, 1}
        /\ 2 * s.x \in Int /\ 2 * s.y \in Int /\ 2 * t.x \in Int /\ 2 * t.y \in Int
    BY <1>1, <2>1, <2>2, <2>6
  <2>9. QED
    BY <1>3, <2>5, <2>6, <2>7, <2>8 DEF t, Spots
<1>4. CASE /\ kind \in Shape!PairKinds
           /\ kind \notin Shape!BoxKinds \cup {"Freehand", "Number", "Text"}
           /\ Figures(kind) = [1..2 -> Spots]
  <2>1. s \in [1..2 -> Spots] /\ s[1] \in Spots /\ s[2] \in Spots
    BY <1>4
  <2>2. t = <<Shape!Plus(s[1], d), Shape!Plus(s[2], d)>>
    BY <1>4 DEF Shape!Translated
  <2>3. /\ Shape!Anchor(s) = s[1] /\ Shape!Anchor(t) = t[1]
        /\ Shape!Form(s) = [i \in DOMAIN s |-> Shape!Minus(s[i], s[1])]
        /\ Shape!Form(t) = [i \in DOMAIN t |-> Shape!Minus(t[i], t[1])]
    BY <1>4 DEF Shape!Anchor, Shape!Form
  <2> HIDE DEF t
  <2>4. t \in [1..2 -> Spots]
    BY <2>1, <2>2, SpotFacts
  <2>5. \A i \in 1..2 : Shape!Minus(t[i], t[1]) = Shape!Minus(s[i], s[1])
    <3> TAKE i \in 1..2
    <3>1. t[i] = Shape!Plus(s[i], d) /\ t[1] = Shape!Plus(s[1], d) /\ s[i] \in Spots
      BY <2>1, <2>2
    <3>2. /\ t[i] = <<s[i][1] + d[1], s[i][2] + d[2]>> /\ t[1] = <<s[1][1] + d[1], s[1][2] + d[2]>>
          /\ s[i][1] \in Int /\ s[i][2] \in Int /\ s[1][1] \in Int /\ s[1][2] \in Int
      BY <2>1, <3>1, SpotFacts
    <3>3. (s[i][1] + d[1]) - (s[1][1] + d[1]) = s[i][1] - s[1][1]
      BY <1>1, <3>2
    <3>4. (s[i][2] + d[2]) - (s[1][2] + d[2]) = s[i][2] - s[1][2]
      BY <1>1, <3>2
    <3>5. QED
      BY <3>2, <3>3, <3>4 DEF Shape!Minus
  <2>6. Shape!Form(t) = Shape!Form(s)
    BY <2>1, <2>3, <2>4, <2>5
  <2>7. Shape!Anchor(t) = Shape!Plus(Shape!Anchor(s), d) /\ Shape!Anchor(s) \in Spots
    BY <2>1, <2>2, <2>3
  <2>8. QED
    BY <1>2, <1>4, <2>4, <2>6, <2>7 DEF t
<1>5. CASE kind = "Number" /\ kind \notin Shape!BoxKinds \cup Shape!PairKinds
           /\ Figures(kind) = [center : Spots, radius : Int]
  <2>1. s \in [center : Spots, radius : Int]
    BY <1>5
  <2>2. t = [s EXCEPT !.center = Shape!Plus(@, d)]
    BY <1>5 DEF Shape!Translated
  <2>3. /\ Shape!Anchor(s) = s.center /\ Shape!Anchor(t) = t.center
        /\ Shape!Form(s) = s.radius /\ Shape!Form(t) = t.radius
    BY <1>5 DEF Shape!Anchor, Shape!Form
  <2> HIDE DEF t
  <2>4. /\ t \in [center : Spots, radius : Int]
        /\ t.center = Shape!Plus(s.center, d) /\ t.radius = s.radius
    BY <2>1, <2>2, SpotFacts
  <2>5. QED
    BY <1>2, <1>5, <2>1, <2>3, <2>4 DEF t
<1>6. CASE kind = "Text" /\ kind \notin Shape!BoxKinds \cup Shape!PairKinds
           /\ Figures(kind) = Labels
  <2>1. s \in Labels
    BY <1>6
  <2>2. t = [s EXCEPT !.origin = Shape!Plus(@, d)]
    BY <1>6 DEF Shape!Translated
  <2>3. /\ Shape!Anchor(s) = s.origin /\ Shape!Anchor(t) = t.origin
        /\ Shape!Form(s) = [s EXCEPT !.origin = <<0, 0>>]
        /\ Shape!Form(t) = [t EXCEPT !.origin = <<0, 0>>]
    BY <1>6 DEF Shape!Anchor, Shape!Form
  <2> HIDE DEF t
  <2>4. t \in Labels /\ t.origin = Shape!Plus(s.origin, d) /\ s.origin \in Spots
    BY <2>1, <2>2, SpotFacts DEF Labels
  <2>5. [t EXCEPT !.origin = <<0, 0>>] = [s EXCEPT !.origin = <<0, 0>>]
    BY <2>1, <2>2 DEF Labels
  <2>6. QED
    BY <1>2, <1>6, <2>3, <2>4, <2>5 DEF t
<1>7. CASE kind = "Freehand" /\ kind \notin Shape!BoxKinds \cup Shape!PairKinds
           /\ Figures(kind) = Seq(Spots) \ {<<>>}
  <2>1. s \in Seq(Spots) /\ s # <<>> /\ 1 \in DOMAIN s /\ \A i \in DOMAIN s : s[i] \in Spots
    BY <1>7
  <2>2. t = [i \in DOMAIN s |-> Shape!Plus(s[i], d)]
    BY <1>7 DEF Shape!Translated
  <2>3. /\ Shape!Anchor(s) = s[1] /\ Shape!Anchor(t) = t[1]
        /\ Shape!Form(s) = [i \in DOMAIN s |-> Shape!Minus(s[i], s[1])]
        /\ Shape!Form(t) = [i \in DOMAIN t |-> Shape!Minus(t[i], t[1])]
    BY <1>7 DEF Shape!Anchor, Shape!Form
  <2> HIDE DEF t
  <2>4. t \in Seq(Spots) /\ t # <<>> /\ DOMAIN t = DOMAIN s
    <3>1. DOMAIN s = 1..Len(s) /\ Len(s) \in Nat
      BY <2>1
    <3>2. t \in [1..Len(s) -> Spots]
      BY <2>1, <2>2, <3>1, SpotFacts
    <3>3. QED
      BY <2>1, <3>1, <3>2
  <2>5. \A i \in DOMAIN s : Shape!Minus(t[i], t[1]) = Shape!Minus(s[i], s[1])
    <3> TAKE i \in DOMAIN s
    <3>1. /\ t[i] = Shape!Plus(s[i], d) /\ t[1] = Shape!Plus(s[1], d)
          /\ s[i] \in Spots /\ s[1] \in Spots
      BY <2>1, <2>2
    <3>2. /\ t[i] = <<s[i][1] + d[1], s[i][2] + d[2]>> /\ t[1] = <<s[1][1] + d[1], s[1][2] + d[2]>>
          /\ s[i][1] \in Int /\ s[i][2] \in Int /\ s[1][1] \in Int /\ s[1][2] \in Int
      BY <3>1, SpotFacts
    <3>3. (s[i][1] + d[1]) - (s[1][1] + d[1]) = s[i][1] - s[1][1]
      BY <1>1, <3>2
    <3>4. (s[i][2] + d[2]) - (s[1][2] + d[2]) = s[i][2] - s[1][2]
      BY <1>1, <3>2
    <3>5. QED
      BY <3>2, <3>3, <3>4 DEF Shape!Minus
  <2>6. Shape!Form(t) = Shape!Form(s)
    BY <2>1, <2>3, <2>4, <2>5
  <2>7. Shape!Anchor(t) = Shape!Plus(Shape!Anchor(s), d) /\ Shape!Anchor(s) \in Spots
    BY <2>1, <2>2, <2>3
  <2>8. QED
    BY <1>2, <1>7, <2>4, <2>6, <2>7 DEF t
<1>8. QED
  BY <1>3, <1>4, <1>5, <1>6, <1>7, FigureOf

-----------------------------------------------------------------------------
(* Shapes: what a drag grabs *)

Sides == {"low", "mid", "high"}

\* A grab that a shape of kind k can be held by.
IsGrab(k, g) ==
    \/ g = Shape!Body
    \/ k \in Shape!BoxKinds \cup {"Text"} /\ \E h \in Sides \X Sides : g = Shape!Grab("handle", h)
    \/ k \in Shape!PairKinds /\ \E n \in {1, 2} : g = Shape!Grab("end", n)
    \/ k = "Number" /\ g = Shape!Grab("radius", None)

\* The handle under the pointer, if any, is one of the shape's (handle_at).
LEMMA HandleIsOne ==
    ASSUME NEW r, NEW handles \in Seq(Sides \X Sides), NEW p
    PROVE  Shape!HandleAt(r, handles, p) \in (Sides \X Sides) \cup {None}
<1> DEFINE hits == {i \in DOMAIN handles :
                        Shape!PointHandleHit(Shape!BoxHandlePoint(r, handles[i]), p)}
<1>1. hits \in SUBSET Nat /\ \A i \in hits : handles[i] \in Sides \X Sides
  OBVIOUS
<1>2. Shape!HandleAt(r, handles, p) = IF hits = {} THEN None ELSE handles[Shape!Min(hits)]
  BY DEF Shape!HandleAt
<1> HIDE DEF hits
<1>3. hits # {} => Shape!Min(hits) \in hits
  BY <1>1, HasLeast, Zenon DEF Shape!Min
<1>4. QED
  BY <1>1, <1>2, <1>3

\* What a press takes hold of is a grab of the kind of the shape (begin_select).
LEMMA GrabIsOne ==
    ASSUME NEW k \in Forms, NEW s, NEW p
    PROVE  Shape!GrabAt(k, s, p) = None \/ IsGrab(k, Shape!GrabAt(k, s, p))
<1> DEFINE bounds == Shape!BoundsOf(k, s)
           handle == CASE k \in Shape!BoxKinds ->
                            Shape!HandleAt(bounds, Shape!Corners \o Shape!Edges, p)
                       [] k = "Text" -> Shape!HandleAt(bounds, Shape!TextHandles, p)
                       [] OTHER -> None
<1>1. /\ Shape!Corners \in Seq(Sides \X Sides) /\ Shape!Edges \in Seq(Sides \X Sides)
      /\ Shape!TextHandles \in Seq(Sides \X Sides)
  BY DEF Shape!Corners, Shape!Edges, Shape!TextHandles, Sides
<1>2. Shape!Corners \o Shape!Edges \in Seq(Sides \X Sides)
  BY <1>1
<1>3. CASE k \in Shape!BoxKinds
  <2>1. k # "Text" /\ k \notin Shape!PairKinds /\ k # "Number"
    BY <1>3 DEF Shape!BoxKinds, Shape!PairKinds
  <2>2. handle = Shape!HandleAt(bounds, Shape!Corners \o Shape!Edges, p)
    BY <1>3, <2>1
  <2>3. handle \in (Sides \X Sides) \cup {None}
    BY <1>2, <2>2, HandleIsOne
  <2>4. Shape!GrabAt(k, s, p) \in
            {IF handle # None THEN Shape!Grab("handle", handle) ELSE None, Shape!Body, None}
    BY <2>1 DEF Shape!GrabAt
  <2> HIDE DEF handle
  <2>5. QED
    BY <1>3, <2>3, <2>4 DEF IsGrab
<1>4. CASE k = "Text"
  <2>1. k \notin Shape!BoxKinds /\ k \notin Shape!PairKinds /\ k # "Number"
    BY <1>4 DEF Shape!BoxKinds, Shape!PairKinds
  <2>2. handle = Shape!HandleAt(bounds, Shape!TextHandles, p)
    BY <1>4, <2>1
  <2>3. handle \in (Sides \X Sides) \cup {None}
    BY <1>1, <2>2, HandleIsOne
  <2>4. Shape!GrabAt(k, s, p) \in
            {IF handle # None THEN Shape!Grab("handle", handle) ELSE None, Shape!Body, None}
    BY <2>1 DEF Shape!GrabAt
  <2> HIDE DEF handle
  <2>5. QED
    BY <1>4, <2>3, <2>4 DEF IsGrab
<1>5. CASE k \in Shape!PairKinds \cup {"Number", "Freehand"}
  <2>1. k \notin Shape!BoxKinds /\ k # "Text"
    BY <1>5 DEF Shape!BoxKinds, Shape!PairKinds
  <2>2. handle = None
    BY <2>1
  <2>3. /\ Shape!GrabAt(k, s, p) \in {Shape!Grab("end", 1), Shape!Grab("end", 2),
                                      Shape!Grab("radius", None), Shape!Body, None}
        /\ k \notin Shape!PairKinds =>
              Shape!GrabAt(k, s, p) \in {Shape!Grab("radius", None), Shape!Body, None}
        /\ k # "Number" => Shape!GrabAt(k, s, p) # Shape!Grab("radius", None)
                              \/ Shape!GrabAt(k, s, p) = None
    <3> DEFINE e1 == k \in Shape!PairKinds /\ Shape!PointHandleHit(s[1], p)
               e2 == k \in Shape!PairKinds /\ ~Shape!PointHandleHit(s[1], p)
                        /\ Shape!PointHandleHit(s[2], p)
               e3 == k = "Number"
                        /\ Shape!PointHandleHit(Shape!Plus(s.center, <<s.radius, 0>>), p)
               hit == Shape!HitTest(k, s, p)
    <3>1. Shape!GrabAt(k, s, p) =
              CASE e1 -> Shape!Grab("end", 1) [] e2 -> Shape!Grab("end", 2)
                [] e3 -> Shape!Grab("radius", None)
                [] OTHER -> IF hit THEN Shape!Body ELSE None
      BY <2>2 DEF Shape!GrabAt
    <3>2. ~(e1 /\ e2) /\ ~(e1 /\ e3) /\ ~(e2 /\ e3)
      BY DEF Shape!PairKinds
    <3>3. (e1 \/ e2 => k \in Shape!PairKinds) /\ (e3 => k = "Number")
      OBVIOUS
    <3>4. /\ Shape!Grab("end", 1) # Shape!Grab("radius", None)
          /\ Shape!Grab("end", 2) # Shape!Grab("radius", None)
          /\ Shape!Body # Shape!Grab("radius", None)
      BY DEF Shape!Grab, Shape!Body
    <3> HIDE DEF e1, e2, e3, hit
    <3>5. QED
      BY <3>1, <3>2, <3>3, <3>4
  <2>4. QED
    BY <1>5, <2>3 DEF IsGrab
<1>6. QED
  BY <1>3, <1>4, <1>5 DEF Forms

-----------------------------------------------------------------------------
(* Shapes: reshaping *)

(***************************************************************************)
(* One edge of a box goes where the pointer is, and the other stays        *)
(* (resize_box).                                                           *)
(***************************************************************************)
LEMMA AxisHeld ==
    ASSUME NEW start \in Int, NEW span \in Nat, NEW side \in Sides, NEW m \in Int
    PROVE  LET x == Shape!ResizeAxis(start, span, side, m)
           IN  /\ x = <<x[1], x[2]>> /\ x[1] \in Int /\ x[2] \in Nat \ {0}
               /\ Shape!AxisFollows(<<start, span>>, x, side, m)
<1> DEFINE low == IF side = "low" THEN m ELSE 2 * start
           high == IF side = "high" THEN m ELSE 2 * (start + span)
           a == IF low <= high THEN low ELSE high
           b == IF low >= high THEN low ELSE high
           small == b - a < 8
           from == IF small /\ side = "low" THEN b - 8 ELSE a
           to == IF small /\ side # "low" THEN a + 8 ELSE b
           u == Shape!Round(from)
           v == Shape!Round(to - from)
           w == IF v >= 4 THEN v ELSE 4
           x == Shape!ResizeAxis(start, span, side, m)
<1>1. x = <<u, w>>
  BY DEF Shape!ResizeAxis, Shape!Least, Shape!Greatest, Shape!Px, Shape!MinBox
<1>2. low \in Int /\ high \in Int
  OBVIOUS
<1>3. a \in Int /\ b \in Int /\ a <= b
  BY <1>2
<1>4. from \in Int /\ to \in Int /\ from <= to
  BY <1>3
<1>5. /\ u \in Int /\ 2 * u - from \in {-1, 0, 1}
      /\ v \in Nat /\ 2 * v - (to - from) \in {-1, 0, 1}
  <2> HIDE DEF from, to
  <2>1. from \in Int /\ to - from \in Int /\ to - from >= 0
    BY <1>4
  <2>2. QED
    BY <2>1, Rounded
<1>6. w \in Nat \ {0}
  BY <1>5
<1>7. CASE side = "mid"
  <2>1. low = 2 * start /\ high = 2 * (start + span) /\ a = 2 * start /\ b = 2 * (start + span)
    BY <1>7
  <2>2. from = 2 * start /\ to - from = IF span < 4 THEN 2 * 4 ELSE 2 * span
    BY <1>7, <2>1
  <2>3. u = start /\ v = IF span < 4 THEN 4 ELSE span
    BY <2>2, WholePixels
  <2>4. x = <<start, IF span >= 4 THEN span ELSE 4>>
    BY <1>1, <2>3
  <2>5. QED
    BY <1>1, <1>5, <1>6, <1>7, <2>4 DEF Shape!AxisFollows, Shape!Greatest, Shape!MinBox
<1>8. CASE side # "mid"
  <2> DEFINE fixed == IF side = "low" THEN 2 * (start + span) ELSE 2 * start
             near(p, q) == p - q <= 9 /\ q - p <= 9
  <2>1. (near(2 * u, m) /\ near(2 * (u + w), fixed)) \/ (near(2 * (u + w), m) /\ near(2 * u, fixed))
    <3>1. (a = m /\ b = fixed) \/ (a = fixed /\ b = m)
      BY <1>8 DEF Sides
    <3>2. fixed \in Int
      OBVIOUS
    <3> HIDE DEF low, high, a, b, fixed, u, v
    <3>3. QED
      BY <1>3, <1>5, <3>1, <3>2
  <2>2. fixed \in Int /\ 2 * u \in Int /\ 2 * (u + w) \in Int
    BY <1>5, <1>6
  <2>3. \A p, q \in Int : near(p, q) => Shape!Abs(p - q) <= Shape!Px(Shape!MinBox) + 1
    BY DEF Shape!Abs, Shape!Px, Shape!MinBox
  <2>4. fixed = Shape!Px(IF side = "low" THEN start + span ELSE start)
    BY DEF Shape!Px
  <2> HIDE DEF fixed, near, u, w, x
  <2>5. Shape!AxisFollows(<<start, span>>, <<u, w>>, side, m)
    BY <1>8, <2>1, <2>2, <2>3, <2>4 DEF Shape!AxisFollows, Shape!Px
  <2>6. QED
    BY <1>1, <1>5, <1>6, <2>5 DEF x
<1>9. QED
  BY <1>7, <1>8

(***************************************************************************)
(* A segment too short is made long enough, and its end stays within       *)
(* reach of the pointer (set_endpoint).                                    *)
(***************************************************************************)
LEMMA SquareFacts ==
    ASSUME NEW d \in Spots
    PROVE  /\ Shape!Square(d) \in Nat
           /\ d[1] * d[1] <= Shape!Square(d) /\ d[2] * d[2] <= Shape!Square(d)
           /\ Shape!Square(d) = d[1] * d[1] + d[2] * d[2]
<1>1. \A n \in Int : n * n \in Nat
  OBVIOUS
<1>2. d[1] * d[1] \in Nat /\ d[2] * d[2] \in Nat
  BY <1>1, SpotFacts
<1>3. QED
  BY <1>2 DEF Shape!Square

\* A coordinate of a segment too short, scaled up, has its share of the length.
LEMMA Stretched ==
    ASSUME NEW s \in Nat, s > 0, s < 64, NEW n \in Int, n * n <= s
    PROVE  LET q == Shape!Sign(n) * Shape!Min({i \in 0..8 : i * i * s >= 8 * 8 * n * n})
           IN  q \in Int /\ q - n \in -12..12 /\ q * q * s >= 64 * (n * n)
<1> DEFINE T == {i \in 0..8 : i * i * s >= 8 * 8 * n * n}
           g == Shape!Min(T)
<1>1. n \in -7..7
  <2>1. ASSUME n >= 8 PROVE FALSE
    <3>1. n * n >= 8 * n
      BY <2>1
    <3>2. QED
      BY <2>1, <3>1
  <2>2. ASSUME n <= -8 PROVE FALSE
    <3>1. n * n >= (-8) * n
      BY <2>2
    <3>2. QED
      BY <2>2, <3>1
  <2>3. QED
    BY <2>1, <2>2
<1>2. 8 * 8 * s >= 8 * 8 * n * n
  <2>1. n * n \in Int /\ 8 * 8 * n * n = 64 * (n * n)
    OBVIOUS
  <2>2. QED
    BY <2>1
<1>3. 8 \in T /\ T \in SUBSET Nat
  BY <1>2
<1>4. \A i \in T : i \in 0..8 /\ i * i * s >= 8 * 8 * n * n
  OBVIOUS
<1>5. g \in T
  <2> HIDE DEF T
  <2>1. \E m \in T : \A j \in T : m <= j
    BY <1>3, HasLeast
  <2>2. QED
    BY <2>1, Zenon DEF Shape!Min
<1>6. g \in 0..8 /\ g * g * s >= 8 * 8 * n * n
  BY <1>4, <1>5
<1> HIDE DEF g
<1>7. CASE n >= 0
  <2>1. Shape!Sign(n) * g = g
    BY <1>6, <1>7 DEF Shape!Sign
  <2>2. g - n \in -12..12
    BY <1>1, <1>6, <1>7
  <2>3. 8 * 8 * n * n = 64 * (n * n)
    OBVIOUS
  <2>4. QED
    BY <1>6, <2>1, <2>2, <2>3 DEF g
<1>8. CASE n < 0
  <2>1. Shape!Sign(n) * g = -g
    BY <1>6, <1>8 DEF Shape!Sign
  <2>2. (-g) - n \in -12..12
    BY <1>1, <1>6, <1>8
  <2>3. 8 * 8 * n * n = 64 * (n * n) /\ (-g) * (-g) = g * g
    BY <1>6
  <2>4. QED
    BY <1>6, <2>1, <2>2, <2>3 DEF g
<1>9. QED
  BY <1>7, <1>8

\* A segment pushed out is long enough, and its end is near the pointer.
LEMMA PushedIsLong ==
    ASSUME NEW d \in Spots
    PROVE  LET e == Shape!PushedOut(d)
           IN  /\ e \in Spots /\ Shape!Square(e) >= 64
               /\ e[1] - d[1] \in -12..12 /\ e[2] - d[2] \in -12..12
<1> DEFINE s == Shape!Square(d)
           Stretch(n) == Shape!Sign(n) * Shape!Min({i \in 0..8 : i * i * s >= 8 * 8 * n * n})
           e == Shape!PushedOut(d)
<1>1. /\ d = <<d[1], d[2]>> /\ d[1] \in Int /\ d[2] \in Int
      /\ s \in Nat /\ d[1] * d[1] <= s /\ d[2] * d[2] <= s /\ s = d[1] * d[1] + d[2] * d[2]
  BY SquareFacts, SpotFacts
<1>2. e = CASE s >= 8 * 8 -> d [] s = 0 -> <<8, 0>> [] OTHER -> <<Stretch(d[1]), Stretch(d[2])>>
  BY DEF Shape!PushedOut, Shape!MinLen, Shape!Px
<1>3. CASE s >= 64
  <2>1. e = d
    BY <1>1, <1>2, <1>3
  <2>2. QED
    BY <1>1, <1>3, <2>1
<1>4. CASE s = 0
  <2>1. e = <<8, 0>>
    BY <1>2, <1>4
  <2>2. d[1] = 0 /\ d[2] = 0
    <3>1. \A n \in Int : n * n = 0 => n = 0
      OBVIOUS
    <3>2. \A n \in Int : n * n \in Nat
      OBVIOUS
    <3>3. d[1] * d[1] = 0 /\ d[2] * d[2] = 0
      BY <1>1, <1>4, <3>2
    <3>4. QED
      BY <1>1, <3>1, <3>3
  <2>3. Shape!Square(<<8, 0>>) = 64
    BY DEF Shape!Square
  <2>4. QED
    BY <2>1, <2>2, <2>3 DEF Spots
<1>5. CASE s > 0 /\ s < 64
  <2> DEFINE a == Stretch(d[1])
             b == Stretch(d[2])
  <2>1. e = <<a, b>>
    BY <1>1, <1>2, <1>5
  <2>2. /\ a \in Int /\ a - d[1] \in -12..12 /\ a * a * s >= 64 * (d[1] * d[1])
        /\ b \in Int /\ b - d[2] \in -12..12 /\ b * b * s >= 64 * (d[2] * d[2])
    <3> HIDE DEF s
    <3>1. QED
      BY <1>1, <1>5, Stretched
  <2> DEFINE aa == a * a
             bb == b * b
             xx == d[1] * d[1]
             yy == d[2] * d[2]
  <2>3. aa \in Nat /\ bb \in Nat /\ xx \in Nat /\ yy \in Nat
    <3>1. \A n \in Int : n * n \in Nat
      OBVIOUS
    <3> HIDE DEF a, b
    <3>2. QED
      BY <1>1, <2>2, <3>1
  <2>4. aa * s >= 64 * xx /\ bb * s >= 64 * yy /\ s = xx + yy
    BY <1>1, <2>2
  <2>5. aa + bb >= 64
    <3> DEFINE n == aa + bb
    <3> HIDE DEF aa, bb, xx, yy, s
    <3>1. aa * s \in Int /\ bb * s \in Int /\ n * s = aa * s + bb * s /\ n \in Nat
      BY <1>1, <2>3
    <3>2. n * s >= 64 * s
      BY <1>1, <2>3, <2>4, <3>1
    <3> HIDE DEF n
    <3>3. ASSUME 64 >= n + 1 PROVE FALSE
      <4>1. s * 64 >= s * n + s
        BY <1>1, <1>5, <3>1, <3>3, Mono
      <4>2. s * n = n * s /\ s * n \in Int
        BY <1>1, <3>1
      <4>3. QED
        BY <1>1, <1>5, <3>2, <4>1, <4>2
    <3>4. QED
      BY <3>1, <3>3 DEF n
  <2> HIDE DEF a, b
  <2>6. Shape!Square(e) = aa + bb
    BY <2>1 DEF Shape!Square
  <2>7. QED
    BY <2>1, <2>2, <2>5, <2>6 DEF Spots
<1>6. QED
  BY <1>1, <1>3, <1>4, <1>5

\* A length is a natural number.
LEMMA LengthIsNat ==
    ASSUME NEW d \in Spots
    PROVE  Shape!Length(d) \in Nat
<1> DEFINE m == Shape!Abs(d[1]) + Shape!Abs(d[2])
           T == {n \in 0..m : n * n <= Shape!Square(d)}
<1>1. m \in Nat /\ Shape!Square(d) \in Nat
  <2>1. d[1] \in Int /\ d[2] \in Int /\ Shape!Square(d) \in Nat
    BY SpotFacts, SquareFacts
  <2>2. \A n \in Int : Shape!Abs(n) \in Nat
    BY DEF Shape!Abs
  <2>3. QED
    BY <2>1, <2>2
<1>2. 0 \in T /\ T \in SUBSET (0..m)
  BY <1>1
<1>3. Shape!Length(d) = Shape!Max(T)
  BY DEF Shape!Length
<1> HIDE DEF T, m
<1>4. \E g \in T : \A j \in T : g >= j
  BY <1>1, <1>2, HasGreatestFromZero
<1>5. Shape!Max(T) \in T
  BY <1>4, Zenon DEF Shape!Max
<1>6. Shape!Max(T) \in 0..m
  BY <1>2, <1>5
<1>7. QED
  BY <1>1, <1>3, <1>6

(***************************************************************************)
(* A handle of a label: a corner sets the size, an edge the wrap width,    *)
(* and then the pointer is within the label (resize_text).                 *)
(***************************************************************************)
LEMMA LabelReshaped ==
    ASSUME NEW s \in Labels, NEW h \in Sides \X Sides, NEW p \in Spots
    PROVE  LET t == Shape!ResizeText(s, h, p)
               r == Shape!BoundsOf("Text", t)
           IN  /\ t \in Labels
               /\ h[2] = "mid" => 2 * r.x - 1 <= p[1] /\ p[1] <= 2 * (r.x + r.w) + 1
<1> DEFINE r == Shape!BoundsOf("Text", s)
           left == IF h[1] = "low" THEN p[1] ELSE 2 * r.x
           right == IF h[1] = "low" THEN 2 * (r.x + r.w) ELSE p[1]
           nr == Shape!ResizeBox(r, h, p)
           tenths == Shape!Greatest(r.h, Shape!Least(10 * nr.h, 200 * r.h))
           size == (2 * s.size_pt * tenths + 10 * r.h) \div (20 * r.h)
           held_size == Shape!Greatest(6, Shape!Least(size, 200))
           least == Shape!Least(left, right)
           wide == Shape!Greatest(Shape!Abs(right - left), 8)
           t == Shape!ResizeText(s, h, p)
<1>1. /\ s.origin \in Spots /\ s.size_pt \in Nat \ {0} /\ s.wrap_width \in Nat \cup {None}
      /\ s.bounds_cache \in Nat \X (Nat \ {0})
  BY DEF Labels
<1>2. /\ p[1] \in Int /\ p[2] \in Int /\ s.origin[1] \in Int /\ s.origin[2] \in Int
      /\ h[1] \in Sides /\ h[2] \in Sides
  BY <1>1, SpotFacts
<1>3. \A u : Shape!BoundsOf("Text", u) =
             [x |-> Shape!Trunc(u.origin[1]), y |-> Shape!Trunc(u.origin[2]),
              w |-> u.bounds_cache[1], h |-> u.bounds_cache[2]]
  BY DEF Shape!BoundsOf, Shape!TextBounds, Shape!Box, Shape!BoxKinds, Shape!PairKinds
<1>4. r.x \in Int /\ r.y \in Int /\ r.w \in Nat /\ r.h \in Nat \ {0}
  BY <1>1, <1>2, <1>3, Rounded
<1>5. t = IF h[2] = "mid"
          THEN Shape!TextAt(<<least, s.origin[2]>>, s.size_pt, wide)
          ELSE Shape!TextAt(<<2 * nr.x, 2 * nr.y>>, held_size, s.wrap_width)
  BY DEF Shape!ResizeText, Shape!Px, Shape!MinBox
<1>6. CASE h[2] = "mid"
  <2>1. left \in Int /\ right \in Int
    BY <1>2, <1>4
  <2>2. p[1] = left \/ p[1] = right
    OBVIOUS
  <2> HIDE DEF left, right
  <2>3. least \in Int /\ wide \in Nat /\ least <= p[1] /\ p[1] - least <= wide
    <3> DEFINE n == right - left
               a == Shape!Abs(n)
    <3>1. n \in Int
      BY <2>1
    <3>2. a \in Nat /\ a >= n /\ a >= -n
      BY <3>1 DEF Shape!Abs
    <3>3. wide \in Nat /\ wide >= a
      <4>1. \A i \in Nat : Shape!Greatest(i, 8) \in Nat /\ Shape!Greatest(i, 8) >= i
        BY DEF Shape!Greatest
      <4> HIDE DEF a
      <4>2. wide = Shape!Greatest(a, 8)
        BY DEF a
      <4> HIDE DEF wide
      <4>3. QED
        BY <3>2, <4>1, <4>2
    <3>4. least \in Int /\ (least = left \/ least = right) /\ least <= left /\ least <= right
      BY <2>1 DEF Shape!Least
    <3> HIDE DEF wide, least, a
    <3>5. QED
      BY <2>1, <2>2, <3>2, <3>3, <3>4
  <2> HIDE DEF least, wide
  <2>4. wide # None
    BY <2>3, EditingAssumption
  <2>5. <<least, s.origin[2]>> \in Spots
    BY <1>2, <2>3 DEF Spots
  <2>6. t = Shape!TextAt(<<least, s.origin[2]>>, s.size_pt, wide)
    BY <1>5, <1>6
  <2>7. t \in Labels
    BY <1>1, <2>3, <2>5, <2>6, LabelMade
  <2> DEFINE m == Shape!MeasureTextBounds(s.size_pt, wide)
             b == Shape!BoundsOf("Text", t)
  <2>8. m \in Nat \X (Nat \ {0}) /\ m[1] >= Shape!Round(wide)
    BY <1>1, <2>3, <2>4, Measured
  <2>9. b.x = Shape!Trunc(least) /\ b.w = m[1]
    <3>1. t.origin = <<least, s.origin[2]>> /\ t.bounds_cache = m
      BY <2>6 DEF Shape!TextAt
    <3>2. QED
      BY <1>3, <3>1
  <2>10. /\ Shape!Trunc(least) \in Int /\ 2 * Shape!Trunc(least) - least \in {-1, 0, 1}
         /\ Shape!Round(wide) \in Nat /\ 2 * Shape!Round(wide) >= wide
    BY <2>3, Rounded
  <2>11. 2 * b.x - 1 <= p[1] /\ p[1] <= 2 * (b.x + b.w) + 1
    <3> DEFINE x == b.x
               w == b.w
               c == Shape!Round(wide)
               q == p[1]
    <3>1. /\ x \in Int /\ 2 * x - least \in {-1, 0, 1} /\ w \in Nat /\ w >= c
          /\ c \in Nat /\ 2 * c >= wide
      BY <2>8, <2>9, <2>10
    <3>2. q \in Int /\ least \in Int /\ wide \in Nat /\ least <= q /\ q - least <= wide
      BY <1>2, <2>3
    <3> HIDE DEF x, w, c, q
    <3>3. 2 * x - 1 <= q /\ q <= 2 * (x + w) + 1
      BY <3>1, <3>2
    <3>4. QED
      BY <3>3 DEF x, w, q
  <2>12. QED
    BY <2>7, <2>11
<1>7. CASE h[2] # "mid"
  <2> DEFINE ax == Shape!ResizeAxis(r.x, r.w, h[1], p[1])
             ay == Shape!ResizeAxis(r.y, r.h, h[2], p[2])
  <2>1. /\ ax[1] \in Int /\ ax[2] \in Nat \ {0} /\ ay[1] \in Int /\ ay[2] \in Nat \ {0}
    <3> HIDE DEF r
    <3>1. r.h \in Nat
      BY <1>4
    <3>2. QED
      BY <1>2, <1>4, <3>1, AxisHeld
  <2>2. nr = [x |-> ax[1], y |-> ay[1], w |-> ax[2], h |-> ay[2]]
    BY DEF Shape!ResizeBox, Shape!Box
  <2>3. nr.x \in Int /\ nr.y \in Int /\ nr.h \in Nat
    <3> HIDE DEF ax, ay, nr
    <3>1. QED
      BY <2>1, <2>2
  <2> HIDE DEF nr
  <2>4. tenths \in Int
    <3> DEFINE a == r.h
               b == nr.h
    <3>1. a \in Nat /\ b \in Nat
      BY <1>4, <2>3
    <3> HIDE DEF a, b
    <3>2. Shape!Greatest(a, Shape!Least(10 * b, 200 * a)) \in Int
      BY <3>1 DEF Shape!Greatest, Shape!Least
    <3>3. QED
      BY <3>2 DEF a, b
  <2>5. size \in Int
    <3> DEFINE a == s.size_pt
               d == 20 * r.h
               c == 10 * r.h
               n == 2 * a * tenths + c
    <3>1. d \in Int /\ d > 0 /\ a \in Int /\ c \in Int
      BY <1>1, <1>4
    <3> HIDE DEF tenths, a, c
    <3>2. n \in Int
      BY <2>4, <3>1
    <3> HIDE DEF n, d
    <3>3. n \div d \in Int
      BY <3>1, <3>2, DivFact
    <3>4. QED
      BY <3>3 DEF n, d, a, c
  <2> HIDE DEF size
  <2>6. held_size \in Nat \ {0}
    BY <2>5 DEF Shape!Greatest, Shape!Least
  <2> HIDE DEF held_size
  <2>7. <<2 * nr.x, 2 * nr.y>> \in Spots
    BY <2>3 DEF Spots
  <2>8. t = Shape!TextAt(<<2 * nr.x, 2 * nr.y>>, held_size, s.wrap_width)
    BY <1>5, <1>7
  <2>9. t \in Labels
    BY <1>1, <2>6, <2>7, <2>8, LabelMade
  <2>10. QED
    BY <1>7, <2>9
<1>8. QED
  BY <1>6, <1>7

-----------------------------------------------------------------------------
(* Shapes: drawing *)

(***************************************************************************)
(* The rectangle of a drag, the square, and what the document leaves of    *)
(* them, are boxes.                                                        *)
(***************************************************************************)
LEMMA DraggedBox ==
    ASSUME NEW a \in Spots, NEW b \in Spots
    PROVE  Shape!DragRect(a, b) \in Boxes
<1>1. a[1] \in Int /\ a[2] \in Int /\ b[1] \in Int /\ b[2] \in Int
  BY SpotFacts
<1>2. \A m, n \in Int :
        Shape!Least(m, n) \in Int /\ Shape!Abs(m - n) \in Int /\ Shape!Abs(m - n) >= 0
  BY DEF Shape!Least, Shape!Abs
<1>3. /\ Shape!Floor(Shape!Least(a[1], b[1])) \in Int
      /\ Shape!Floor(Shape!Least(a[2], b[2])) \in Int
      /\ Shape!Ceil(Shape!Abs(a[1] - b[1])) \in Nat /\ Shape!Ceil(Shape!Abs(a[2] - b[2])) \in Nat
  BY <1>1, <1>2, Rounded
<1>4. QED
  BY <1>3 DEF Shape!DragRect, Shape!Box, Boxes

\* With Shift, a square.
LEMMA DraggedSquare ==
    ASSUME NEW a \in Spots, NEW b \in Spots
    PROVE  Shape!DragSquare(a, b) \in Boxes
<1> DEFINE d == Shape!Minus(b, a)
           side == Shape!Greatest(Shape!Abs(d[1]), Shape!Abs(d[2]))
           e == <<side * Shape!Sign(d[1]), side * Shape!Sign(d[2])>>
<1>1. d[1] \in Int /\ d[2] \in Int
  BY SpotFacts
<1> HIDE DEF d
<1>2. side \in Int
  BY <1>1 DEF Shape!Greatest, Shape!Abs
<1> HIDE DEF side
<1>3. e \in Spots
  BY <1>1, <1>2 DEF Shape!Sign, Spots
<1>4. Shape!DragSquare(a, b) = Shape!DragRect(a, Shape!Plus(a, e))
  BY DEF Shape!DragSquare, d, side
<1> HIDE DEF e
<1>5. Shape!Plus(a, e) \in Spots
  BY <1>3, SpotFacts
<1>6. QED
  BY <1>4, <1>5, DraggedBox

\* Within the document.
LEMMA ClampedBox ==
    ASSUME NEW r \in Boxes
    PROVE  Shape!ClampToDoc(r) \in Boxes
<1>1. /\ r.x \in Int /\ r.y \in Int /\ r.w \in Nat /\ r.h \in Nat
      /\ DocSize[1] \in Nat /\ DocSize[2] \in Nat
  BY BoxParts, EditingAssumption
<1>2. \A m, n \in Int : /\ Shape!Greatest(m, n) \in Int /\ Shape!Greatest(m, n) >= n
  BY DEF Shape!Greatest
<1> DEFINE x0 == Shape!Greatest(r.x, 0)
           y0 == Shape!Greatest(r.y, 0)
           x1 == Shape!Greatest(Shape!Least(r.x + r.w, DocSize[1]), x0)
           y1 == Shape!Greatest(Shape!Least(r.y + r.h, DocSize[2]), y0)
<1>3. x0 \in Int /\ y0 \in Int
  BY <1>1 DEF Shape!Greatest
<1>4. Shape!Least(r.x + r.w, DocSize[1]) \in Int /\ Shape!Least(r.y + r.h, DocSize[2]) \in Int
  BY <1>1 DEF Shape!Least
<1>5. x1 \in Int /\ y1 \in Int /\ x1 - x0 \in Nat /\ y1 - y0 \in Nat
  <2> HIDE DEF x0, y0
  <2>1. x1 \in Int /\ x1 >= x0 /\ y1 \in Int /\ y1 >= y0
    BY <1>2, <1>3, <1>4
  <2> HIDE DEF x1, y1
  <2>2. QED
    BY <1>3, <2>1
<1>6. Shape!ClampToDoc(r) = [x |-> x0, y |-> y0, w |-> x1 - x0, h |-> y1 - y0]
  BY DEF Shape!ClampToDoc, Shape!Box
<1> HIDE DEF x0, y0, x1, y1
<1>7. QED
  BY <1>3, <1>5, <1>6 DEF Boxes

(***************************************************************************)
(* What a stroke leaves is a shape of its kind, or nothing (drag_end).     *)
(***************************************************************************)
LEMMA DrawnIsFigure ==
    ASSUME NEW shift \in BOOLEAN, kind \in Forms \ {"Number", "Text"}, pointer \in Spots,
           stroke \in [from : Spots, to : Spots, points : Seq(Spots)]
    PROVE  Shape!Drawn(shift) \in Figures(kind) \cup {None}
<1> DEFINE r == CASE kind \in {"Rect", "Ellipse"} /\ shift -> Shape!DragSquare(stroke.from, pointer)
                  [] kind \in {"Blur", "InvertedBlur", "Crop"} ->
                        Shape!ClampToDoc(Shape!DragRect(stroke.from, pointer))
                  [] OTHER -> Shape!DragRect(stroke.from, pointer)
           long == Shape!Square(Shape!Minus(pointer, stroke.from)) >= Shape!Px(4) * Shape!Px(4)
           many == Len(stroke.points) >= 2
<1>1. Shape!Drawn(shift) =
          CASE kind \in Shape!BoxKinds \cup {"Crop"} -> IF Shape!LargeBox(r) THEN r ELSE None
            [] kind \in Shape!PairKinds -> IF long THEN <<stroke.from, pointer>> ELSE None
            [] kind = "Freehand" -> IF many THEN stroke.points ELSE None
  BY DEF Shape!Drawn
<1>2. r \in Boxes
  <2>1. /\ Shape!DragSquare(stroke.from, pointer) \in Boxes
        /\ Shape!DragRect(stroke.from, pointer) \in Boxes
    BY DraggedBox, DraggedSquare
  <2>2. Shape!ClampToDoc(Shape!DragRect(stroke.from, pointer)) \in Boxes
    BY <2>1, ClampedBox
  <2>3. QED
    BY <2>1, <2>2
<1>3. many => stroke.points # <<>>
  OBVIOUS
<1> HIDE DEF r, long, many
<1>4. CASE kind \in Shape!BoxKinds
  <2>1. /\ kind \notin Shape!PairKinds /\ kind # "Freehand" /\ Figures(kind) = Boxes
    BY <1>4, FigureOf DEF Shape!BoxKinds
  <2>2. Shape!Drawn(shift) = IF Shape!LargeBox(r) THEN r ELSE None
    BY <1>1, <1>4, <2>1
  <2>3. QED
    BY <1>2, <2>1, <2>2
<1>5. CASE kind \in Shape!PairKinds
  <2>1. /\ kind \notin Shape!BoxKinds \cup {"Crop"} /\ kind # "Freehand"
        /\ Figures(kind) = [1..2 -> Spots]
    BY <1>5, FigureOf DEF Shape!PairKinds
  <2>2. Shape!Drawn(shift) = IF long THEN <<stroke.from, pointer>> ELSE None
    BY <1>1, <1>5, <2>1
  <2>3. <<stroke.from, pointer>> \in [1..2 -> Spots]
    OBVIOUS
  <2>4. QED
    BY <2>1, <2>2, <2>3
<1>6. CASE kind = "Freehand"
  <2>1. /\ kind \notin Shape!BoxKinds \cup {"Crop"} /\ kind \notin Shape!PairKinds
        /\ Figures(kind) = Seq(Spots) \ {<<>>}
    BY <1>6, FigureOf
  <2>2. Shape!Drawn(shift) = IF many THEN stroke.points ELSE None
    BY <1>1, <1>6, <2>1
  <2>3. QED
    BY <1>3, <2>1, <2>2
<1>7. QED
  BY <1>4, <1>5, <1>6 DEF Forms

-----------------------------------------------------------------------------
(* Shapes: the invariant *)

\* What is held of a shape: the way it was at the press is of its kind, and a
\* body has its form still.
Holding ==
    /\ manip.grab = held.grab /\ manip.origin = held.shape /\ manip.start = held.at
    /\ manip.last = pointer /\ DOMAIN manip = {"grab", "origin", "start", "last"}
    /\ IsGrab(kind, manip.grab) /\ manip.origin \in Figures(kind) /\ manip.start \in Spots
    /\ manip.grab = Shape!Body => Shape!Form(shape) = Shape!Form(held.shape)

\* Only the Select tool holds anything, and what it may hold is of its kind.
ShapeInv ==
    /\ kind \in Kinds /\ pointer \in Spots /\ tool \in {kind, "Select"}
    /\ tool = "Select" /\ kind # "Crop" => shape \in Figures(kind)
    /\ stroke # None => /\ tool = kind /\ kind \notin {"Number", "Text"}
                        /\ stroke \in [from : Spots, to : Spots, points : Seq(Spots)]
    /\ selected => tool = "Select" /\ kind # "Crop"
    /\ manip # None => selected /\ Holding

\* The kinds and points that a behaviour may have.
LEMMA KindFacts ==
    /\ \A k \in Kinds : k # "Select" /\ (k # "Crop" => k \in Forms)
    /\ \A p \in Points : p \in Spots
    /\ \A d \in Nudges : d \in Spots
<1>1. \A k \in Kinds : k \in Forms \cup {"Crop"}
  BY EditingAssumption DEF Forms
<1>2. \A k \in Forms : k # "Select"
  BY DEF Forms, Shape!BoxKinds, Shape!PairKinds
<1>3. \A d \in Shape!Arrows : d \in Spots
  BY DEF Shape!Arrows, Shape!NudgeSteps, Shape!Px, Spots
<1>4. QED
  BY <1>1, <1>2, <1>3, EditingAssumption DEF Spots

\* The invariant holds in the initial states.
LEMMA ShapeInvInit == Shape!ShapesInit => ShapeInv
  BY KindFacts DEF Shape!ShapesInit, ShapeInv

(***************************************************************************)
(* One move of a drag: the shape stays of its kind, and what was grabbed   *)
(* is under the pointer (apply_manipulation).                              *)
(***************************************************************************)
LEMMA DragMoves ==
    ASSUME ShapeInv, NEW p \in Points, Shape!UpdateSelect(p)
    PROVE  /\ shape' \in Figures(kind)
           /\ manip.grab = Shape!Body => Shape!Form(shape)' = Shape!Form(held.shape)
           /\ Shape!FollowsPointer
<1>1. /\ manip # None /\ pointer' = p /\ kind' = kind /\ held' = held
      /\ shape' = Shape!ApplyManipulation(kind, shape, manip, p)
      /\ manip' = [manip EXCEPT !.last = p]
  BY DEF Shape!UpdateSelect
<1>2. /\ selected /\ Holding /\ kind \in Forms /\ shape \in Figures(kind)
      /\ p \in Spots /\ pointer \in Spots /\ held.at \in Spots /\ held.shape \in Figures(kind)
      /\ IsGrab(kind, held.grab)
      /\ manip.grab = held.grab /\ manip.origin = held.shape /\ manip.start = held.at
      /\ manip.last = pointer
  BY <1>1, KindFacts DEF ShapeInv, Holding
<1> DEFINE t == Shape!ApplyManipulation(kind, shape, manip, p)
           g == held.grab
           o == held.shape
<1>3. /\ t = CASE g = Shape!Body /\ kind = "Freehand" ->
                        Shape!Translated(kind, shape, Shape!Minus(p, pointer))
               [] g = Shape!Body /\ kind # "Freehand" ->
                        LET moved == Shape!Translated(kind, o, Shape!Minus(p, held.at))
                        IN IF kind = "Text" THEN [shape EXCEPT !.origin = moved.origin] ELSE moved
               [] g.part = "handle" /\ kind \in Shape!BoxKinds -> Shape!ResizeBox(o, g.which, p)
               [] g.part = "handle" /\ kind = "Text" -> Shape!ResizeText(o, g.which, p)
               [] g.part = "end" -> Shape!SetEndpoint(o, g.which, p)
               [] g.part = "radius" -> [shape EXCEPT !.radius = Shape!NewRadius(o.center, p)]
  BY <1>2 DEF Shape!ApplyManipulation
<1>4. Shape!FollowsPointer <=>
          (manip' # None /\ pointer' # pointer =>
              CASE g = Shape!Body -> Shape!BodyFollows
                [] g.part = "handle" -> Shape!HandleFollows
                [] g.part = "end" -> Shape!EndFollows
                [] g.part = "radius" -> Shape!RadiusFollows)
  BY <1>1 DEF Shape!FollowsPointer
<1>5. /\ Shape!Body.part = "body"
      /\ \A x, y : Shape!Grab(x, y).part = x /\ Shape!Grab(x, y).which = y
  BY DEF Shape!Body, Shape!Grab
<1>6. /\ Shape!Form(shape)' = Shape!Form(t)
      /\ g = Shape!Body => Shape!Form(shape) = Shape!Form(o)
  <2>1. Shape!Form(shape)' = Shape!Form(t)
    BY <1>1 DEF Shape!Form
  <2>2. QED
    BY <1>2, <2>1 DEF Holding
<1> HIDE DEF t, g, o
<1>7. shape' = t
  BY <1>1 DEF t
<1>8. CASE g = Shape!Body /\ kind = "Freehand"
  <2> DEFINE d == Shape!Minus(p, pointer)
             a == Shape!Anchor(shape)
             b == Shape!Anchor(t)
  <2>1. t = Shape!Translated(kind, shape, d)
    BY <1>3, <1>5, <1>8
  <2>2. /\ p \in Spots /\ pointer \in Spots /\ d = <<p[1] - pointer[1], p[2] - pointer[2]>>
        /\ d \in Spots /\ p[1] \in Int /\ p[2] \in Int /\ pointer[1] \in Int /\ pointer[2] \in Int
    BY <1>2, SpotFacts
  <2>3. kind \notin Shape!BoxKinds
    BY <1>8 DEF Shape!BoxKinds
  <2> HIDE DEF d
  <2>4. /\ t \in Figures(kind) /\ Shape!Form(t) = Shape!Form(shape) /\ a \in Spots
        /\ b = Shape!Plus(a, d)
    BY <1>2, <2>1, <2>2, <2>3, MovedKeeps
  <2> HIDE DEF a, b
  <2>5. Shape!Minus(b, p) = Shape!Minus(a, pointer)
    <3>1. /\ a[1] \in Int /\ a[2] \in Int /\ b = <<a[1] + d[1], a[2] + d[2]>>
      BY <2>2, <2>4, SpotFacts
    <3>2. /\ (a[1] + d[1]) - p[1] = a[1] - pointer[1]
          /\ (a[2] + d[2]) - p[2] = a[2] - pointer[2]
      BY <2>2, <3>1
    <3>3. QED
      BY <3>1, <3>2 DEF Shape!Minus
  <2>6. Shape!BodyFollows
    BY <1>1, <1>7, <1>8, <2>4, <2>5 DEF Shape!BodyFollows, a, b
  <2>7. Shape!FollowsPointer
    BY <1>4, <1>5, <1>8, <2>6
  <2>8. QED
    BY <1>2, <1>6, <1>7, <1>8, <2>4, <2>7 DEF g, o
<1>9. CASE g = Shape!Body /\ kind # "Freehand"
  <2> DEFINE d == Shape!Minus(p, held.at)
             moved == Shape!Translated(kind, o, d)
             a == Shape!Anchor(o)
             b == Shape!Anchor(t)
  <2>1. t = IF kind = "Text" THEN [shape EXCEPT !.origin = moved.origin] ELSE moved
    BY <1>3, <1>5, <1>9
  <2>2. /\ d = <<p[1] - held.at[1], p[2] - held.at[2]>> /\ d \in Spots
        /\ p[1] \in Int /\ p[2] \in Int /\ held.at[1] \in Int /\ held.at[2] \in Int
    BY <1>2, SpotFacts
  <2>3. o \in Figures(kind)
    BY <1>2 DEF o
  <2> HIDE DEF d
  <2>4. /\ moved \in Figures(kind) /\ Shape!Form(moved) = Shape!Form(o)
        /\ a \in Spots /\ Shape!Anchor(moved) \in Spots
        /\ \A i \in {1, 2} : Shape!Anchor(moved)[i] - a[i] - d[i] \in {-1, 0, 1}
    BY <1>2, <2>2, <2>3, MovedKeeps
  <2> HIDE DEF moved, a
  <2>5. /\ t \in Figures(kind) /\ Shape!Form(t) = Shape!Form(shape) /\ b = Shape!Anchor(moved)
    <3>1. CASE kind = "Text"
      <4>1. /\ Figures(kind) = Labels
            /\ kind \notin Shape!BoxKinds \cup Shape!PairKinds \cup {"Freehand", "Number"}
        BY <1>2, <3>1, FigureOf
      <4>2. moved \in Labels /\ shape \in Labels /\ t = [shape EXCEPT !.origin = moved.origin]
        BY <1>2, <2>1, <2>4, <3>1, <4>1
      <4>3. t \in Labels /\ t.origin = moved.origin
        BY <4>2 DEF Labels
      <4>4. [t EXCEPT !.origin = <<0, 0>>] = [shape EXCEPT !.origin = <<0, 0>>]
        BY <4>2 DEF Labels
      <4>5. \A u : /\ Shape!Anchor(u) = u.origin
                   /\ Shape!Form(u) = [u EXCEPT !.origin = <<0, 0>>]
        BY <3>1, <4>1 DEF Shape!Anchor, Shape!Form
      <4>6. QED
        BY <4>1, <4>3, <4>4, <4>5
    <3>2. CASE kind # "Text"
      BY <1>6, <1>9, <2>1, <2>4, <3>2
    <3>3. QED
      BY <3>1, <3>2
  <2> HIDE DEF b
  <2>6. Shape!Close(Shape!Minus(b, p), Shape!Minus(a, held.at), 1)
    <3>1. /\ a[1] \in Int /\ a[2] \in Int /\ b[1] \in Int /\ b[2] \in Int
          /\ b[1] - a[1] - d[1] \in {-1, 0, 1} /\ b[2] - a[2] - d[2] \in {-1, 0, 1}
      BY <2>4, <2>5, SpotFacts
    <3>2. /\ (b[1] - p[1]) - (a[1] - held.at[1]) \in {-1, 0, 1}
          /\ (b[2] - p[2]) - (a[2] - held.at[2]) \in {-1, 0, 1}
      BY <2>2, <3>1
    <3>3. \A n : n \in {-1, 0, 1} => Shape!Abs(n) <= 1
      BY DEF Shape!Abs
    <3>4. QED
      BY <3>2, <3>3 DEF Shape!Close, Shape!Minus
  <2>7. Shape!BodyFollows
    BY <1>1, <1>7, <1>9, <2>5, <2>6 DEF Shape!BodyFollows, a, b, o
  <2>8. Shape!FollowsPointer
    BY <1>4, <1>5, <1>9, <2>7
  <2>9. QED
    BY <1>2, <1>6, <1>7, <1>9, <2>5, <2>8 DEF g, o
<1>10. CASE kind \in Shape!BoxKinds /\ \E h \in Sides \X Sides : g = Shape!Grab("handle", h)
  <2>1. PICK h \in Sides \X Sides : g = Shape!Grab("handle", h)
    BY <1>10
  <2>2. g.part = "handle" /\ g.which = h /\ g # Shape!Body /\ kind # "Text"
    BY <1>5, <1>10, <2>1 DEF Shape!BoxKinds
  <2>3. Figures(kind) = Boxes
    BY <1>2, <1>10, FigureOf
  <2> DEFINE ax == Shape!ResizeAxis(o.x, o.w, h[1], p[1])
             ay == Shape!ResizeAxis(o.y, o.h, h[2], p[2])
  <2>4. /\ ax = <<ax[1], ax[2]>> /\ ax[1] \in Int /\ ax[2] \in Nat \ {0}
        /\ Shape!AxisFollows(<<o.x, o.w>>, ax, h[1], p[1])
        /\ ay = <<ay[1], ay[2]>> /\ ay[1] \in Int /\ ay[2] \in Nat \ {0}
        /\ Shape!AxisFollows(<<o.y, o.h>>, ay, h[2], p[2])
    <3>1. o \in Boxes
      BY <1>2, <2>3 DEF o
    <3>2. o.x \in Int /\ o.y \in Int /\ o.w \in Nat /\ o.h \in Nat
      BY <3>1, BoxParts
    <3>3. h[1] \in Sides /\ h[2] \in Sides /\ p[1] \in Int /\ p[2] \in Int
      BY <1>2, SpotFacts
    <3>4. QED
      BY <3>2, <3>3, AxisHeld
  <2>5. t = Shape!ResizeBox(o, h, p)
    BY <1>3, <1>10, <2>2
  <2>6. t = [x |-> ax[1], y |-> ay[1], w |-> ax[2], h |-> ay[2]]
    BY <2>5 DEF Shape!ResizeBox, Shape!Box
  <2> HIDE DEF ax, ay
  <2>7. t \in Boxes /\ <<t.x, t.w>> = ax /\ <<t.y, t.h>> = ay
    BY <2>4, <2>6 DEF Boxes
  <2>8. Shape!HandleFollows
    BY <1>1, <1>7, <2>2, <2>4, <2>7 DEF Shape!HandleFollows, g, o
  <2>9. Shape!FollowsPointer
    BY <1>4, <2>2, <2>8
  <2>10. QED
    BY <1>2, <1>7, <2>2, <2>3, <2>7, <2>9 DEF g
<1>11. CASE kind = "Text" /\ \E h \in Sides \X Sides : g = Shape!Grab("handle", h)
  <2>1. PICK h \in Sides \X Sides : g = Shape!Grab("handle", h)
    BY <1>11
  <2>2. g.part = "handle" /\ g.which = h /\ g # Shape!Body /\ kind \notin Shape!BoxKinds
    BY <1>5, <1>11, <2>1 DEF Shape!BoxKinds
  <2>3. Figures(kind) = Labels /\ o \in Labels
    BY <1>2, <1>11, FigureOf DEF o
  <2>4. t = Shape!ResizeText(o, h, p)
    BY <1>3, <1>11, <2>2
  <2> DEFINE r == Shape!BoundsOf("Text", t)
  <2>5. t \in Labels /\ (h[2] = "mid" => 2 * r.x - 1 <= p[1] /\ p[1] <= 2 * (r.x + r.w) + 1)
    BY <1>2, <2>3, <2>4, LabelReshaped
  <2>6. Shape!HandleFollows
    BY <1>1, <1>7, <1>11, <2>2, <2>5 DEF Shape!HandleFollows, Shape!Px, g
  <2>7. Shape!FollowsPointer
    BY <1>4, <2>2, <2>6
  <2>8. QED
    BY <1>2, <1>7, <2>2, <2>3, <2>5, <2>7 DEF g
<1>12. CASE kind \in Shape!PairKinds /\ \E n \in {1, 2} : g = Shape!Grab("end", n)
  <2>1. PICK n \in {1, 2} : g = Shape!Grab("end", n)
    BY <1>12
  <2>2. g.part = "end" /\ g.which = n /\ g # Shape!Body
    BY <1>5, <2>1
  <2>3. Figures(kind) = [1..2 -> Spots] /\ o \in [1..2 -> Spots]
    BY <1>2, <1>12, FigureOf DEF o
  <2> DEFINE m == 3 - n
             fixed == o[m]
             d == Shape!Minus(p, fixed)
             e == Shape!PushedOut(d)
             moved == Shape!Plus(fixed, e)
  <2>4. m \in {1, 2} /\ m # n /\ fixed \in Spots
    BY <2>3
  <2>5. t = [o EXCEPT ![n] = moved]
    BY <1>3, <2>2 DEF Shape!SetEndpoint
  <2> HIDE DEF m, fixed
  <2>6. /\ d \in Spots /\ d = <<p[1] - fixed[1], p[2] - fixed[2]>>
        /\ p[1] \in Int /\ p[2] \in Int /\ fixed[1] \in Int /\ fixed[2] \in Int
    BY <1>2, <2>4, SpotFacts
  <2> HIDE DEF d
  <2>7. /\ e \in Spots /\ Shape!Square(e) >= 64
        /\ e[1] - d[1] \in -12..12 /\ e[2] - d[2] \in -12..12
    BY <2>6, PushedIsLong
  <2> HIDE DEF e
  <2>8. /\ moved \in Spots /\ moved = <<fixed[1] + e[1], fixed[2] + e[2]>>
        /\ e[1] \in Int /\ e[2] \in Int
    BY <2>4, <2>7, SpotFacts
  <2> HIDE DEF moved
  <2>9. t \in [1..2 -> Spots] /\ t[n] = moved /\ t[m] = fixed
    BY <2>3, <2>4, <2>5, <2>8 DEF fixed
  <2>10. Shape!PointHandleHit(t[n], p)
    <3>1. /\ p[1] - (fixed[1] + e[1]) \in -12..12
          /\ p[2] - (fixed[2] + e[2]) \in -12..12
      BY <2>6, <2>7, <2>8
    <3>2. \A i \in -12..12 : Shape!Abs(i) <= 12
      BY DEF Shape!Abs
    <3>3. QED
      BY <2>8, <2>9, <3>1, <3>2 DEF Shape!PointHandleHit, Shape!HandleHalfHit, Shape!Px
  <2>11. Shape!Square(Shape!Minus(t[1], t[2])) >= 64
    <3>1. Shape!Minus(moved, fixed) = <<e[1], e[2]>>
      BY <2>6, <2>8 DEF Shape!Minus
    <3>2. Shape!Minus(fixed, moved) = <<-e[1], -e[2]>>
      BY <2>6, <2>8 DEF Shape!Minus
    <3>3. \A i \in Int : (-i) * (-i) = i * i
      OBVIOUS
    <3>4. /\ Shape!Square(<<e[1], e[2]>>) = Shape!Square(e)
          /\ Shape!Square(<<-e[1], -e[2]>>) = Shape!Square(e)
      BY <2>8, <3>3 DEF Shape!Square
    <3>5. (n = 1 /\ m = 2) \/ (n = 2 /\ m = 1)
      BY <2>4
    <3>6. QED
      BY <2>7, <2>9, <3>1, <3>2, <3>4, <3>5
  <2>12. Shape!EndFollows
    BY <1>1, <1>7, <2>2, <2>9, <2>10, <2>11
       DEF Shape!EndFollows, Shape!MinLen, Shape!Px, g, o, m, fixed
  <2>13. Shape!FollowsPointer
    BY <1>4, <2>2, <2>12
  <2>14. QED
    BY <1>2, <1>7, <2>2, <2>3, <2>9, <2>13 DEF g
<1>13. CASE kind = "Number" /\ g = Shape!Grab("radius", None)
  <2>1. g.part = "radius" /\ g # Shape!Body
    BY <1>5, <1>13
  <2>2. /\ Figures(kind) = [center : Spots, radius : Int]
        /\ o \in [center : Spots, radius : Int] /\ shape \in [center : Spots, radius : Int]
    BY <1>2, <1>13, FigureOf DEF o
  <2> DEFINE n == Shape!Length(Shape!Minus(p, o.center))
             v == Shape!NewRadius(o.center, p)
  <2>3. n \in Nat
    <3>1. o.center \in Spots
      BY <2>2
    <3>2. Shape!Minus(p, o.center) \in Spots
      BY <1>2, <3>1, SpotFacts
    <3>3. QED
      BY <3>2, LengthIsNat
  <2>4. v = Shape!Greatest(n, 12)
    BY DEF Shape!NewRadius, Shape!MinRadius, Shape!Px
  <2>5. t = [shape EXCEPT !.radius = v]
    BY <1>3, <2>1
  <2> HIDE DEF n, v
  <2>6. v \in Int /\ Shape!Abs(v - n) <= 12
    BY <2>3, <2>4 DEF Shape!Greatest, Shape!Abs
  <2>7. t \in [center : Spots, radius : Int] /\ t.center = shape.center /\ t.radius = v
    BY <2>2, <2>5, <2>6
  <2>8. Shape!RadiusFollows
    BY <1>1, <1>7, <2>6, <2>7
       DEF Shape!RadiusFollows, Shape!HandleHalfHit, Shape!Px, n, o
  <2>9. Shape!FollowsPointer
    BY <1>4, <2>1, <2>8
  <2>10. QED
    BY <1>2, <1>7, <2>1, <2>2, <2>7, <2>9 DEF g
<1>14. QED
  <2>1. IsGrab(kind, g)
    BY <1>2 DEF g
  <2>2. QED
    BY <1>8, <1>9, <1>10, <1>11, <1>12, <1>13, <2>1 DEF IsGrab

\* Every step of the drawing and the Select tool keeps the invariant.
LEMMA ShapeInvStep == ShapeInv /\ [Shape!ShapesNext]_shapeVars => ShapeInv'
<1> SUFFICES ASSUME ShapeInv, [Shape!ShapesNext]_shapeVars PROVE ShapeInv'
  OBVIOUS
<1>1. /\ kind # "Select" /\ kind \in Kinds
      /\ kind # "Crop" => kind \in Forms
      /\ selected => tool = "Select" /\ kind # "Crop" /\ shape \in Figures(kind)
      /\ manip # None => selected /\ stroke = None
      /\ stroke # None => ~selected /\ manip = None
  BY KindFacts DEF ShapeInv
<1>2. CASE Shape!BeginStroke
  <2>1. /\ tool = kind /\ kind \notin {"Number", "Text"} /\ ~selected /\ manip = None
        /\ UNCHANGED <<kind, tool, shape, selected, manip, pointer, held>>
    BY <1>1, <1>2 DEF Shape!BeginStroke, ShapeInv
  <2>2. stroke' = [from |-> pointer, to |-> pointer,
                   points |-> IF tool = "Freehand" THEN <<pointer>> ELSE <<>>]
    BY <1>2 DEF Shape!BeginStroke
  <2>3. stroke' \in [from : Spots, to : Spots, points : Seq(Spots)]
    BY <2>2 DEF ShapeInv
  <2>4. QED
    BY <2>1, <2>3 DEF ShapeInv
<1>3. CASE Shape!Place
  <2>1. /\ tool = kind /\ kind \in {"Number", "Text"} /\ ~selected /\ manip = None /\ stroke = None
        /\ UNCHANGED <<kind, stroke, selected, manip, pointer, held>> /\ tool' = "Select"
        /\ shape' = IF kind = "Number" THEN [center |-> pointer, radius |-> Shape!NumberRadius]
                    ELSE Shape!TextAt(pointer, Shape!TextSize, None)
    BY <1>1, <1>3 DEF Shape!Place, Shape!Committed, ShapeInv
  <2>2. CASE kind = "Number"
    <3>1. Figures(kind) = [center : Spots, radius : Int]
      BY <1>1, <2>2, FigureOf
    <3>2. shape' = [center |-> pointer, radius |-> 36]
      BY <2>1, <2>2 DEF Shape!NumberRadius, Shape!Px
    <3>3. pointer \in Spots
      BY DEF ShapeInv
    <3>4. shape' \in Figures(kind)
      BY <3>1, <3>2, <3>3
    <3>5. QED
      BY <2>1, <3>4 DEF ShapeInv
  <2>3. CASE kind = "Text"
    <3>1. Figures(kind) = Labels
      BY <1>1, <2>3, FigureOf
    <3>2. shape' = Shape!TextAt(pointer, 18, None)
      BY <2>1, <2>3 DEF Shape!TextSize
    <3>3. pointer \in Spots /\ 18 \in Nat \ {0} /\ None \in Nat \cup {None}
      BY DEF ShapeInv
    <3>4. shape' \in Labels
      BY <3>2, <3>3, LabelMade
    <3>5. QED
      BY <2>1, <3>1, <3>4 DEF ShapeInv
  <2>4. QED
    BY <2>1, <2>2, <2>3
<1>4. CASE Shape!BeginSelect
  <2> DEFINE grab == IF kind # "Crop" /\ selected THEN Shape!GrabAt(kind, shape, pointer) ELSE None
             hit == kind # "Crop" /\ Shape!HitTest(kind, shape, pointer)
  <2>1. /\ tool = "Select" /\ manip = None
        /\ UNCHANGED <<kind, tool, stroke, shape, pointer>>
        /\ \/ grab # None /\ Shape!BeginManipulation(grab)
           \/ hit /\ Shape!BeginManipulation(Shape!Body)
           \/ selected' = FALSE /\ UNCHANGED <<manip, held>>
    BY <1>4 DEF Shape!BeginSelect
  <2>2. stroke = None
    BY <1>1, <2>1 DEF ShapeInv
  <2>3. CASE selected' = FALSE /\ UNCHANGED <<manip, held>>
    BY <2>1, <2>2, <2>3 DEF ShapeInv
  <2>4. ASSUME NEW g, IsGrab(kind, g), kind # "Crop", Shape!BeginManipulation(g)
        PROVE  ShapeInv'
    <3>1. /\ manip' = [grab |-> g, origin |-> shape, start |-> pointer, last |-> pointer]
          /\ held' = [grab |-> g, shape |-> shape, at |-> pointer] /\ selected'
      BY <2>4 DEF Shape!BeginManipulation
    <3>2. /\ manip'.grab = g /\ manip'.origin = shape /\ manip'.start = pointer
          /\ manip'.last = pointer /\ DOMAIN manip' = {"grab", "origin", "start", "last"}
          /\ held'.grab = g /\ held'.shape = shape /\ held'.at = pointer
      BY <3>1
    <3>3. shape \in Figures(kind) /\ pointer \in Spots
      BY <2>1, <2>4 DEF ShapeInv
    <3>4. Shape!Form(shape)' = Shape!Form(held.shape)'
      BY <2>1, <3>2 DEF Shape!Form
    <3>5. Holding'
      BY <2>1, <2>4, <3>2, <3>3, <3>4 DEF Holding
    <3>6. QED
      BY <2>1, <2>2, <2>4, <3>1, <3>5 DEF ShapeInv
  <2>5. CASE grab # None /\ Shape!BeginManipulation(grab)
    <3>1. kind # "Crop" /\ grab = Shape!GrabAt(kind, shape, pointer)
      BY <2>5
    <3>2. IsGrab(kind, grab)
      BY <1>1, <2>5, <3>1, GrabIsOne
    <3>3. QED
      BY <2>4, <2>5, <3>1, <3>2
  <2>6. CASE hit /\ Shape!BeginManipulation(Shape!Body)
    BY <2>4, <2>6 DEF IsGrab
  <2>7. QED
    BY <2>1, <2>3, <2>5, <2>6
<1>5. CASE Shape!EndSelect
  BY <1>5 DEF Shape!EndSelect, ShapeInv
<1>6. ASSUME NEW shift \in BOOLEAN, Shape!EndStroke(shift) PROVE ShapeInv'
  <2>1. /\ stroke # None /\ stroke' = None /\ ~selected /\ manip = None
        /\ UNCHANGED <<kind, selected, manip, pointer, held>>
        /\ IF Shape!Drawn(shift) # None THEN Shape!Committed(Shape!Drawn(shift))
           ELSE Shape!NotCommitted
    BY <1>1, <1>6 DEF Shape!EndStroke
  <2>2. CASE Shape!Drawn(shift) = None
    BY <2>1, <2>2 DEF Shape!NotCommitted, ShapeInv
  <2>3. CASE Shape!Drawn(shift) # None
    <3>1. shape' = Shape!Drawn(shift) /\ tool' = "Select"
      BY <2>1, <2>3 DEF Shape!Committed
    <3>2. kind # "Crop" => shape' \in Figures(kind)
      BY <1>1, <2>1, <2>3, <3>1, DrawnIsFigure DEF ShapeInv
    <3>3. QED
      BY <2>1, <3>1, <3>2 DEF ShapeInv
  <2>4. QED
    BY <2>2, <2>3
<1>7. ASSUME NEW p \in Points, Shape!UpdateStroke(p) PROVE ShapeInv'
  <2>1. /\ stroke # None /\ pointer' = p /\ p \in Spots /\ manip = None /\ ~selected
        /\ UNCHANGED <<kind, tool, shape, selected, manip, held>>
    BY <1>1, <1>7, KindFacts DEF Shape!UpdateStroke
  <2>2. stroke' = [stroke EXCEPT !.to = p,
                                 !.points = IF kind = "Freehand" THEN Append(@, p) ELSE @]
    BY <1>7 DEF Shape!UpdateStroke
  <2>3. /\ stroke \in [from : Spots, to : Spots, points : Seq(Spots)]
        /\ tool = kind /\ kind \notin {"Number", "Text"}
    BY <2>1 DEF ShapeInv
  <2> DEFINE q == IF kind = "Freehand" THEN Append(stroke.points, p) ELSE stroke.points
  <2>4. q \in Seq(Spots)
    BY <2>1, <2>3
  <2>5. stroke' = [stroke EXCEPT !.to = p, !.points = q]
    BY <2>2
  <2> HIDE DEF q
  <2>6. stroke' \in [from : Spots, to : Spots, points : Seq(Spots)]
    BY <2>1, <2>3, <2>4, <2>5
  <2>7. QED
    BY <2>1, <2>3, <2>6 DEF ShapeInv
<1>8. ASSUME NEW p \in Points, Shape!UpdateSelect(p) PROVE ShapeInv'
  <2>1. /\ manip # None /\ pointer' = p /\ manip' = [manip EXCEPT !.last = p]
        /\ UNCHANGED <<kind, tool, stroke, selected, held>>
    BY <1>8 DEF Shape!UpdateSelect
  <2>2. /\ shape' \in Figures(kind)
        /\ manip.grab = Shape!Body => Shape!Form(shape)' = Shape!Form(held.shape)
    BY <1>8, DragMoves
  <2>3. Holding
    BY <2>1 DEF ShapeInv
  <2>4. /\ DOMAIN manip' = DOMAIN manip /\ manip'.grab = manip.grab
        /\ manip'.origin = manip.origin /\ manip'.start = manip.start /\ manip'.last = p
    BY <2>1, <2>3 DEF Holding
  <2>5. Shape!Form(held.shape)' = Shape!Form(held.shape)
    BY <2>1 DEF Shape!Form
  <2>6. manip'.grab = Shape!Body => Shape!Form(shape)' = Shape!Form(held.shape)'
    BY <2>2, <2>4, <2>5
  <2>7. Holding'
    <3>1. /\ manip.grab = held.grab /\ manip.origin = held.shape /\ manip.start = held.at
          /\ DOMAIN manip = {"grab", "origin", "start", "last"}
          /\ IsGrab(kind, manip.grab) /\ manip.origin \in Figures(kind) /\ manip.start \in Spots
      BY <2>3 DEF Holding
    <3>2. /\ manip'.grab = held'.grab /\ manip'.origin = held'.shape /\ manip'.start = held'.at
          /\ manip'.last = pointer' /\ DOMAIN manip' = {"grab", "origin", "start", "last"}
          /\ IsGrab(kind', manip'.grab) /\ manip'.origin \in Figures(kind')
          /\ manip'.start \in Spots
      BY <2>1, <2>4, <3>1
    <3>3. QED
      BY <2>6, <3>2 DEF Holding
  <2>8. p \in Spots
    BY KindFacts
  <2>9. QED
    BY <2>1, <2>2, <2>7, <2>8 DEF ShapeInv
<1>9. ASSUME NEW p \in Points, Shape!Hover(p) PROVE ShapeInv'
  BY <1>9, KindFacts DEF Shape!Hover, ShapeInv
<1>10. ASSUME NEW d \in Nudges, Shape!Nudge(d) PROVE ShapeInv'
  <2>1. /\ selected /\ shape' = Shape!Translated(kind, shape, d)
        /\ UNCHANGED <<kind, tool, stroke, selected, manip, pointer, held>>
    BY <1>10 DEF Shape!Nudge
  <2>2. d \in Spots
    BY KindFacts
  <2>3. shape' \in Figures(kind) /\ Shape!Form(shape') = Shape!Form(shape)
    BY <1>1, <2>1, <2>2, MovedKeeps
  <2>4. Shape!Form(shape)' = Shape!Form(shape') /\ Shape!Form(held.shape)' = Shape!Form(held.shape)
    BY <2>1 DEF Shape!Form
  <2>5. manip # None => Holding'
    BY <1>1, <2>1, <2>3, <2>4 DEF ShapeInv, Holding
  <2>6. QED
    BY <2>1, <2>3, <2>5 DEF ShapeInv
<1>11. CASE UNCHANGED shapeVars
  <2>1. UNCHANGED <<kind, tool, stroke, shape, selected, manip, pointer, held>>
    BY <1>11 DEF shapeVars
  <2>2. Shape!Form(shape)' = Shape!Form(shape) /\ Shape!Form(held.shape)' = Shape!Form(held.shape)
    BY <2>1 DEF Shape!Form
  <2>3. QED
    BY <2>1, <2>2 DEF ShapeInv, Holding
<1>12. QED
  BY <1>2, <1>3, <1>4, <1>5, <1>6, <1>7, <1>8, <1>9, <1>10, <1>11 DEF Shape!ShapesNext

\* A move of the pointer during a drag is a move of the drag.
LEMMA StepFollows == ShapeInv /\ [Shape!ShapesNext]_shapeVars => [Shape!FollowsPointer]_shapeVars
<1> SUFFICES ASSUME ShapeInv, Shape!ShapesNext, manip # None, manip' # None, pointer' # pointer
             PROVE  Shape!FollowsPointer
  BY DEF Shape!FollowsPointer
<1>1. stroke = None
  BY KindFacts DEF ShapeInv
<1>2. \E p \in Points : Shape!UpdateSelect(p)
  BY <1>1 DEF Shape!ShapesNext, Shape!BeginStroke, Shape!Place, Shape!BeginSelect, Shape!EndSelect,
              Shape!EndStroke, Shape!UpdateStroke, Shape!Hover, Shape!Nudge
<1>3. QED
  BY <1>2, DragMoves

\* The shapes are where ShapeInv says throughout, whatever else is edited.
LEMMA ShapeInvKept == Spec => []ShapeInv
<1>1. Init => ShapeInv
  BY ShapeInvInit DEF Init
<1>2. [Next]_vars => [Shape!ShapesNext]_shapeVars
  BY DEF Next, vars, Shape!shapeVars
<1>3. QED
  BY <1>1, <1>2, ShapeInvStep, PTL DEF Spec

(***************************************************************************)
(* For any places of the pointer, any document and any number of drags and *)
(* arrow keys: what a drag of the Select tool has grabbed, a body, a       *)
(* handle, an end or a rim, stays under the pointer through every move     *)
(* (begin_select, update_select of ui/canvas.rs; annotate/select.rs).      *)
(***************************************************************************)
THEOREM DragsFollow == Spec => GripFollows
<1>1. [Next]_vars => [Shape!ShapesNext]_shapeVars
  BY DEF Next, vars, Shape!shapeVars
<1>2. ShapeInv /\ [Shape!ShapesNext]_shapeVars => [Shape!FollowsPointer]_Shape!shapeVars
  BY StepFollows DEF shapeVars, Shape!shapeVars
<1>3. QED
  BY <1>1, <1>2, ShapeInvKept, PTL DEF Spec, GripFollows, Shape!GripFollows

-----------------------------------------------------------------------------
(* Text: lines before and after a place *)

Rows == Seq(Seq(Letters)) \ {<<>>}

\* The lines of what is before a place and of what is after it, put together:
\* the last line of the one goes on with the first of the other.
Glue(x, y) ==
    [r \in 1..(Len(x) + Len(y) - 1) |->
        IF r < Len(x) THEN x[r]
        ELSE IF r = Len(x) THEN x[r] \o y[1] ELSE y[r - Len(x) + 1]]

\* The character ch behind the last line, or a line more.
With(t, ch) ==
    IF ch = Newline THEN Append(t, <<>>) ELSE [t EXCEPT ![Len(t)] = Append(@, ch)]

\* Lines, of which there is always one.
LEMMA RowsFacts ==
    ASSUME NEW t \in Rows
    PROVE  /\ t \in Seq(Seq(Letters)) /\ Len(t) \in Nat /\ Len(t) >= 1 /\ DOMAIN t = 1..Len(t)
           /\ \A r \in 1..Len(t) : t[r] \in Seq(Letters) /\ Len(t[r]) \in Nat
           /\ t[1] \in Seq(Letters) /\ t[Len(t)] \in Seq(Letters) /\ Last(t) = t[Len(t)]
           /\ Len(t[1]) \in Nat /\ Len(t[Len(t)]) \in Nat
<1>1. t \in Seq(Seq(Letters)) /\ t # <<>>
  BY DEF Rows
<1>2. Len(t) \in Nat /\ DOMAIN t = 1..Len(t) /\ Len(t) # 0
  BY <1>1, EmptySeq, LenProperties
<1>3. \A r \in 1..Len(t) : t[r] \in Seq(Letters)
  BY <1>1, <1>2
<1>4. \A r \in 1..Len(t) : Len(t[r]) \in Nat
  BY <1>3, LenProperties
<1>5. QED
  BY <1>1, <1>2, <1>3, <1>4 DEF Last

\* A function of lines is lines.
LEMMA MadeRows ==
    ASSUME NEW n \in Nat, n >= 1, NEW f, f = [r \in 1..n |-> f[r]],
           \A r \in 1..n : f[r] \in Seq(Letters)
    PROVE  f \in Rows /\ Len(f) = n
<1>1. f \in [1..n -> Seq(Letters)]
  OBVIOUS
<1>2. f \in Seq(Seq(Letters))
  BY <1>1, SeqDef
<1>3. DOMAIN f = 1..n
  BY <1>1
<1>4. Len(f) = n
  BY <1>2, <1>3, LenProperties
<1>5. QED
  BY <1>2, <1>4, EmptySeq DEF Rows

\* Lines are the same when each of them is.
LEMMA SameRows ==
    ASSUME NEW x \in Rows, NEW y \in Rows, Len(x) = Len(y), \A r \in 1..Len(x) : x[r] = y[r]
    PROVE  x = y
  BY RowsFacts, SeqEqual

\* Two texts put together.
LEMMA Glued ==
    ASSUME NEW x \in Rows, NEW y \in Rows
    PROVE  LET g == Glue(x, y)
           IN  /\ g \in Rows /\ Len(g) = Len(x) + Len(y) - 1 /\ Len(g) \in Nat
               /\ \A r \in 1..(Len(x) - 1) : g[r] = x[r]
               /\ g[Len(x)] = x[Len(x)] \o y[1]
               /\ Len(g[Len(x)]) = Len(x[Len(x)]) + Len(y[1])
               /\ \A r \in 2..Len(y) : g[Len(x) + r - 1] = y[r]
<1> DEFINE g == Glue(x, y)
           k == Len(x)
           n == k + Len(y) - 1
           p == x[k] \o y[1]
<1>1. k \in Nat /\ Len(y) \in Nat /\ k >= 1 /\ Len(y) >= 1
  BY RowsFacts
<1>2. n \in Nat /\ n >= 1
  BY <1>1
<1>3. x[k] \in Seq(Letters) /\ y[1] \in Seq(Letters)
  BY RowsFacts
<1>4. p \in Seq(Letters) /\ Len(p) = Len(x[k]) + Len(y[1])
  BY <1>3, ConcatProperties
<1>5. \A r \in 1..n : g[r] = IF r < k THEN x[r] ELSE IF r = k THEN p ELSE y[r - k + 1]
  BY DEF Glue
<1>6. g = [r \in 1..n |-> g[r]]
  BY DEF Glue
<1> HIDE DEF g, k, n, p
<1>7. \A r \in 1..k : x[r] \in Seq(Letters)
  BY RowsFacts DEF k
<1>8. \A r \in 1..Len(y) : y[r] \in Seq(Letters)
  BY RowsFacts
<1>9. n = k + Len(y) - 1
  BY DEF n
<1>10. \A r \in 1..n : r < k => r \in 1..k
  BY <1>1
<1>11. \A r \in 1..n : r > k => r - k + 1 \in 1..Len(y)
  BY <1>1, <1>9
<1>12. \A r \in 1..n : r < k \/ r = k \/ r > k
  BY <1>1
<1>13. \A r \in 1..n : r > k => ~(r < k) /\ r # k
  BY <1>1
<1>14. \A r \in 1..n : g[r] \in Seq(Letters)
  BY <1>4, <1>5, <1>7, <1>8, <1>10, <1>11, <1>12, <1>13
<1>15. g \in Rows /\ Len(g) = n
  BY <1>2, <1>6, <1>14, MadeRows
<1>16. \A r \in 1..(k - 1) : g[r] = x[r]
  <2>1. \A r \in 1..(k - 1) : r \in 1..n /\ r < k
    BY <1>1, <1>9
  <2>2. QED
    BY <1>5, <2>1
<1>17. g[k] = p
  <2>1. k \in 1..n /\ ~(k < k)
    BY <1>1, <1>9
  <2>2. QED
    BY <1>5, <2>1
<1>18. \A r \in 2..Len(y) : g[k + r - 1] = y[r]
  <2> TAKE r \in 2..Len(y)
  <2> DEFINE q == k + r - 1
  <2>1. q \in 1..n /\ q > k /\ q - k + 1 = r
    BY <1>1, <1>9
  <2> HIDE DEF q
  <2>2. g[q] = y[q - k + 1]
    BY <1>5, <1>13, <2>1
  <2>3. QED
    BY <2>1, <2>2 DEF q
<1>19. QED
  BY <1>2, <1>4, <1>15, <1>16, <1>17, <1>18 DEF g, k, n, p

\* A text with a character more.
LEMMA WithMore ==
    ASSUME NEW t \in Rows, NEW ch \in Letters \cup {Newline}
    PROVE  LET u == With(t, ch)
           IN  /\ u \in Rows
               /\ ch = Newline => /\ Len(u) = Len(t) + 1 /\ u[Len(t) + 1] = <<>>
                                  /\ \A r \in 1..Len(t) : u[r] = t[r]
               /\ ch # Newline => /\ Len(u) = Len(t) /\ u[Len(t)] = Append(t[Len(t)], ch)
                                  /\ Len(u[Len(t)]) = Len(t[Len(t)]) + 1
                                  /\ \A r \in 1..(Len(t) - 1) : u[r] = t[r]
<1> DEFINE k == Len(t)
<1>1. /\ t \in Seq(Seq(Letters)) /\ k \in Nat /\ k >= 1 /\ DOMAIN t = 1..k
      /\ \A r \in 1..k : t[r] \in Seq(Letters)
  BY RowsFacts
<1>5. \A r \in 1..(k - 1) : r \in 1..k /\ r # k
  <2> HIDE DEF k
  <2>1. QED
    BY <1>1
<1>2. CASE ch = Newline
  <2> DEFINE u == Append(t, <<>>)
  <2>1. With(t, ch) = u
    BY <1>2 DEF With
  <2>2. <<>> \in Seq(Letters)
    BY EmptySeq
  <2>3. /\ u \in Seq(Seq(Letters)) /\ Len(u) = k + 1 /\ u[k + 1] = <<>>
        /\ \A r \in 1..k : u[r] = t[r]
    BY <1>1, <2>2, AppendProperties
  <2> HIDE DEF u
  <2>4. u # <<>>
    BY <1>1, <2>3, EmptySeq
  <2>5. QED
    BY <1>2, <2>1, <2>3, <2>4 DEF Rows
<1>3. CASE ch # Newline
  <2> DEFINE e == Append(t[k], ch)
             u == [t EXCEPT ![k] = e]
  <2>1. With(t, ch) = u
    BY <1>3 DEF With
  <2>2. e \in Seq(Letters) /\ Len(e) = Len(t[k]) + 1
    BY <1>1, <1>3, AppendProperties
  <2> HIDE DEF e, k
  <2>3. k \in 1..Len(t) /\ Len(t) = k
    BY <1>1 DEF k
  <2>4. /\ u \in Seq(Seq(Letters)) /\ Len(u) = Len(t)
        /\ \A r \in 1..Len(t) : u[r] = IF r = k THEN e ELSE t[r]
    BY <1>1, <2>2, <2>3, ExceptSeq
  <2> HIDE DEF u
  <2>5. u # <<>>
    BY <1>1, <2>3, <2>4, EmptySeq
  <2>6. u[k] = e /\ \A r \in 1..(k - 1) : u[r] = t[r]
    BY <1>5, <2>3, <2>4
  <2>7. QED
    BY <1>3, <2>1, <2>2, <2>3, <2>4, <2>5, <2>6 DEF e, k, Rows
<1>4. QED
  BY <1>2, <1>3

(***************************************************************************)
(* A character behind the second text is behind both.                      *)
(***************************************************************************)
LEMMA GlueWith ==
    ASSUME NEW x \in Rows, NEW y \in Rows, NEW ch \in Letters \cup {Newline}
    PROVE  Glue(x, With(y, ch)) = With(Glue(x, y), ch)
<1> DEFINE g == Glue(x, y)
           v == With(y, ch)
           a == Glue(x, v)
           b == With(g, ch)
           k == Len(x)
           p == x[k]
           q == y[1]
<1>1. /\ k \in Nat /\ Len(y) \in Nat /\ k >= 1 /\ Len(y) >= 1
      /\ p \in Seq(Letters) /\ q \in Seq(Letters)
  BY RowsFacts
<1>2. /\ g \in Rows /\ Len(g) = k + Len(y) - 1
      /\ \A r \in 1..(k - 1) : g[r] = x[r]
      /\ g[k] = p \o q
      /\ \A r \in 2..Len(y) : g[k + r - 1] = y[r]
  BY Glued
<1>3. /\ v \in Rows
      /\ ch = Newline => /\ Len(v) = Len(y) + 1 /\ v[Len(y) + 1] = <<>>
                         /\ \A r \in 1..Len(y) : v[r] = y[r]
      /\ ch # Newline => /\ Len(v) = Len(y) /\ v[Len(y)] = Append(y[Len(y)], ch)
                         /\ \A r \in 1..(Len(y) - 1) : v[r] = y[r]
  BY WithMore
<1> HIDE DEF v
<1>4. /\ a \in Rows /\ Len(a) = k + Len(v) - 1
      /\ \A r \in 1..(k - 1) : a[r] = x[r]
      /\ a[k] = p \o v[1]
      /\ \A r \in 2..Len(v) : a[k + r - 1] = v[r]
  BY <1>3, Glued
<1> HIDE DEF a, g
<1>5. /\ b \in Rows
      /\ ch = Newline => /\ Len(b) = Len(g) + 1 /\ b[Len(g) + 1] = <<>>
                         /\ \A r \in 1..Len(g) : b[r] = g[r]
      /\ ch # Newline => /\ Len(b) = Len(g) /\ b[Len(g)] = Append(g[Len(g)], ch)
                         /\ \A r \in 1..(Len(g) - 1) : b[r] = g[r]
  BY <1>2, WithMore
<1> HIDE DEF b, k, p, q
<1>6. Len(a) = Len(b)
  BY <1>1, <1>2, <1>3, <1>4, <1>5
<1>7. ASSUME NEW r \in 1..Len(a) PROVE a[r] = b[r]
  <2>1. CASE r < k
    <3>1. r \in 1..(k - 1) /\ r \in 1..(Len(g) - 1) /\ r \in 1..Len(g)
      BY <1>1, <1>2, <2>1
    <3>2. QED
      BY <1>2, <1>4, <1>5, <3>1
  <2>2. CASE r = k
    <3>1. CASE ch = Newline
      <4>1. v[1] = q /\ r \in 1..Len(g)
        BY <1>1, <1>2, <1>3, <2>2, <3>1 DEF q
      <4>2. QED
        BY <1>2, <1>4, <1>5, <2>2, <3>1, <4>1
    <3>2. CASE ch # Newline /\ Len(y) = 1
      <4>1. v[1] = Append(q, ch) /\ r = Len(g)
        BY <1>1, <1>2, <1>3, <2>2, <3>2 DEF q
      <4>2. b[r] = Append(p \o q, ch) /\ a[r] = p \o Append(q, ch)
        BY <1>2, <1>4, <1>5, <2>2, <3>2, <4>1
      <4>3. p \o Append(q, ch) = Append(p \o q, ch)
        <5>1. ch \in Letters /\ <<ch>> \in Seq(Letters) /\ p \o q \in Seq(Letters)
          BY <1>1, <3>2
        <5>2. Append(q, ch) = q \o <<ch>> /\ Append(p \o q, ch) = (p \o q) \o <<ch>>
          BY <1>1, <5>1, AppendIsConcat
        <5>3. QED
          BY <1>1, <5>1, <5>2, ConcatAssociative
      <4>4. QED
        BY <4>2, <4>3
    <3>3. CASE ch # Newline /\ Len(y) # 1
      <4>1. v[1] = q /\ r \in 1..(Len(g) - 1)
        BY <1>1, <1>2, <1>3, <2>2, <3>3 DEF q
      <4>2. QED
        BY <1>2, <1>4, <1>5, <2>2, <3>3, <4>1
    <3>4. QED
      BY <3>1, <3>2, <3>3
  <2>3. CASE r > k
    <3> DEFINE i == r - k + 1
    <3>1. i \in 2..Len(v) /\ r = k + i - 1 /\ i \in Nat
      BY <1>1, <1>3, <1>4, <2>3
    <3> HIDE DEF i
    <3>2. a[r] = v[i]
      BY <1>4, <3>1
    <3>3. CASE ch = Newline /\ i = Len(y) + 1
      <4>1. r = Len(g) + 1
        BY <1>1, <1>2, <3>1, <3>3
      <4>2. QED
        BY <1>3, <1>5, <3>2, <3>3, <4>1
    <3>4. CASE ch # Newline /\ i = Len(y)
      <4>1. r = Len(g) /\ i \in 2..Len(y)
        BY <1>1, <1>2, <1>3, <3>1, <3>4
      <4>2. g[r] = y[i]
        BY <1>2, <3>1, <4>1
      <4>3. QED
        BY <1>3, <1>5, <3>2, <3>4, <4>1, <4>2
    <3>5. CASE i < Len(y) \/ (ch = Newline /\ i <= Len(y))
      <4>1. i \in 2..Len(y) /\ i \in 1..Len(y) /\ (ch # Newline => i \in 1..(Len(y) - 1))
        BY <1>1, <3>1, <3>5
      <4>2. v[i] = y[i] /\ g[r] = y[i]
        BY <1>2, <1>3, <3>1, <4>1
      <4>3. r \in 1..Len(g) /\ (ch # Newline => r \in 1..(Len(g) - 1))
        BY <1>1, <1>2, <3>1, <3>5, <4>1
      <4>4. QED
        BY <1>5, <3>2, <4>2, <4>3
    <3>6. i <= Len(y) + 1 /\ (ch # Newline => i <= Len(y))
      BY <1>1, <1>3, <3>1
    <3>7. QED
      BY <1>1, <3>1, <3>3, <3>4, <3>5, <3>6
  <2>4. QED
    BY <1>1, <1>4, <2>1, <2>2, <2>3, RowsFacts
<1>8. a = b
  BY <1>4, <1>5, <1>6, <1>7, SameRows
<1>9. QED
  BY <1>8 DEF a, b, g, v

\* Lines that agree with a text put together are that text.
LEMMA GlueIs ==
    ASSUME NEW x \in Rows, NEW y \in Rows, NEW h \in Rows, Len(h) = Len(x) + Len(y) - 1,
           \A r \in 1..(Len(x) - 1) : h[r] = x[r],
           h[Len(x)] = x[Len(x)] \o y[1],
           \A r \in 2..Len(y) : h[Len(x) + r - 1] = y[r]
    PROVE  h = Glue(x, y)
<1> DEFINE g == Glue(x, y)
           k == Len(x)
<1>1. k \in Nat /\ Len(y) \in Nat /\ k >= 1 /\ Len(y) >= 1
  BY RowsFacts
<1>2. /\ g \in Rows /\ Len(g) = k + Len(y) - 1
      /\ \A r \in 1..(k - 1) : g[r] = x[r]
      /\ g[k] = x[k] \o y[1]
      /\ \A r \in 2..Len(y) : g[k + r - 1] = y[r]
  BY Glued
<1> HIDE DEF g
<1>3. ASSUME NEW r \in 1..Len(h) PROVE h[r] = g[r]
  <2>1. CASE r \in 1..(k - 1)
    BY <1>2, <2>1
  <2>2. CASE r = k
    BY <1>2, <2>2
  <2>3. CASE r - k + 1 \in 2..Len(y)
    <3> DEFINE i == r - k + 1
    <3>1. i \in 2..Len(y) /\ r = k + i - 1
      BY <1>1, <2>3
    <3> HIDE DEF i
    <3>2. QED
      BY <1>2, <3>1
  <2>4. r \in 1..(k - 1) \/ r = k \/ r - k + 1 \in 2..Len(y)
    BY <1>1
  <2>5. QED
    BY <2>1, <2>2, <2>3, <2>4
<1>4. QED
  BY <1>2, <1>3, SameRows DEF g

\* The beginning and the rest of a sequence.
LEMMA Beginning ==
    ASSUME NEW S, NEW s \in Seq(S), NEW p \in Seq(S), Len(p) <= Len(s),
           \A i \in 1..Len(p) : s[i] = p[i]
    PROVE  SubSeq(s, 1, Len(p)) = p
<1> DEFINE n == Len(p)
           t == SubSeq(s, 1, n)
<1>1. n \in Nat /\ Len(s) \in Nat
  BY LenProperties
<1>2. \A i \in 1..n : s[i] \in S
  BY ElementOfSeq
<1> HIDE DEF n
<1>3. /\ t \in Seq(S) /\ Len(t) = IF 1 <= n THEN n - 1 + 1 ELSE 0
      /\ \A i \in 1..(n - 1 + 1) : t[i] = s[1 + i - 1]
  BY <1>1, <1>2, SubSeqProperties
<1>4. Len(t) = n
  BY <1>1, <1>3
<1>5. \A i \in 1..n : i \in 1..(n - 1 + 1) /\ 1 + i - 1 = i
  BY <1>1
<1>6. \A i \in 1..n : t[i] = p[i]
  BY <1>3, <1>5 DEF n
<1>7. QED
  BY <1>3, <1>4, <1>6, SeqEqual DEF n

\* What is behind the first n elements.
LEMMA Ending ==
    ASSUME NEW S, NEW s \in Seq(S), NEW q \in Seq(S), NEW n \in Nat, Len(s) = n + Len(q),
           \A i \in 1..Len(q) : s[n + i] = q[i]
    PROVE  SubSeq(s, n + 1, Len(s)) = q
<1> DEFINE m == Len(q)
           t == SubSeq(s, n + 1, n + m)
<1>1. m \in Nat
  BY LenProperties
<1>2. \A i \in (n + 1)..(n + m) : s[i] \in S
  BY <1>1, ElementOfSeq
<1> HIDE DEF m
<1>3. /\ t \in Seq(S) /\ Len(t) = IF n + 1 <= n + m THEN n + m - (n + 1) + 1 ELSE 0
      /\ \A i \in 1..(n + m - (n + 1) + 1) : t[i] = s[n + 1 + i - 1]
  BY <1>1, <1>2, SubSeqProperties
<1>4. Len(t) = m
  BY <1>1, <1>3
<1>5. \A i \in 1..m : i \in 1..(n + m - (n + 1) + 1) /\ n + 1 + i - 1 = n + i
  BY <1>1
<1>6. \A i \in 1..m : t[i] = q[i]
  BY <1>3, <1>5 DEF m
<1>7. QED
  <2>1. t = q
    BY <1>3, <1>4, <1>6, SeqEqual DEF m
  <2>2. n + m = Len(s)
    BY DEF m
  <2>3. QED
    BY <2>1, <2>2

\* A sequence behind another, taken apart.
LEMMA Halves ==
    ASSUME NEW S, NEW p \in Seq(S), NEW q \in Seq(S)
    PROVE  /\ p \o q \in Seq(S) /\ Len(p \o q) = Len(p) + Len(q)
           /\ \A i \in 1..Len(p) : (p \o q)[i] = p[i]
           /\ \A i \in 1..Len(q) : (p \o q)[Len(p) + i] = q[i]
           /\ SubSeq(p \o q, 1, Len(p)) = p
           /\ SubSeq(p \o q, Len(p) + 1, Len(p \o q)) = q
<1> DEFINE s == p \o q
           m == Len(p)
           n == Len(q)
<1>1. m \in Nat /\ n \in Nat
  BY LenProperties
<1>2. /\ s \in Seq(S) /\ Len(s) = m + n
      /\ \A i \in 1..(m + n) : s[i] = IF i <= m THEN p[i] ELSE q[i - m]
  BY ConcatProperties
<1> HIDE DEF s, m, n
<1>3. \A i \in 1..m : i \in 1..(m + n) /\ i <= m
  BY <1>1
<1>4. \A i \in 1..n : m + i \in 1..(m + n) /\ ~(m + i <= m) /\ m + i - m = i
  BY <1>1
<1>5. \A i \in 1..m : s[i] = p[i]
  BY <1>2, <1>3
<1>6. \A i \in 1..n : s[m + i] = q[i]
  <2> TAKE i \in 1..n
  <2> DEFINE j == m + i
  <2>1. j \in 1..(m + n) /\ ~(j <= m) /\ j - m = i
    BY <1>1, <1>4
  <2> HIDE DEF j
  <2>2. s[j] = q[j - m]
    BY <1>2, <2>1
  <2>3. QED
    BY <2>1, <2>2 DEF j
<1>7. SubSeq(s, 1, m) = p
  BY <1>1, <1>2, <1>5, Beginning DEF m
<1>8. SubSeq(s, m + 1, Len(s)) = q
  BY <1>1, <1>2, <1>6, Ending DEF n
<1>9. QED
  BY <1>2, <1>5, <1>6, <1>7, <1>8 DEF s, m, n

\* A letter put between, and taken out again.
LEMMA PutBetween ==
    ASSUME NEW S, NEW p \in Seq(S), NEW q \in Seq(S), NEW l \in S
    PROVE  /\ InsertAt(p \o q, Len(p) + 1, l) = Append(p, l) \o q
           /\ RemoveAt(Append(p, l) \o q, Len(p) + 1) = p \o q
<1> DEFINE z == Append(p, l)
           u == p \o q
           v == z \o q
           m == Len(p)
           d == Len(p) + 1
<1>1. m \in Nat /\ d \in Nat /\ d = m + 1 /\ d - 1 = m
  BY LenProperties
<1>2. z \in Seq(S) /\ Len(z) = d /\ z = p \o <<l>> /\ \A i \in 1..m : z[i] = p[i]
  BY AppendProperties, AppendIsConcat
<1>3. SubSeq(u, 1, m) = p /\ SubSeq(u, d, Len(u)) = q
  BY Halves
<1> HIDE DEF z, u, m, d
<1>4. /\ v \in Seq(S) /\ Len(v) = d + Len(q) /\ \A i \in 1..d : v[i] = z[i]
      /\ SubSeq(v, d + 1, Len(v)) = q
  BY <1>2, Halves
<1> HIDE DEF v
<1>5. m <= Len(v) /\ \A i \in 1..m : i \in 1..d
  <2>1. Len(q) \in Nat
    BY LenProperties
  <2>2. QED
    BY <1>1, <1>4, <2>1
<1>6. SubSeq(v, 1, m) = p
  BY <1>2, <1>4, <1>5, Beginning DEF m
<1>7. InsertAt(u, d, l) = SubSeq(u, 1, d - 1) \o <<l>> \o SubSeq(u, d, Len(u))
  BY DEF InsertAt
<1>8. RemoveAt(v, d) = SubSeq(v, 1, d - 1) \o SubSeq(v, d + 1, Len(v))
  BY DEF RemoveAt
<1>9. InsertAt(u, d, l) = v
  BY <1>1, <1>2, <1>3, <1>7, Zenon DEF v
<1>10. RemoveAt(v, d) = u
  BY <1>1, <1>4, <1>6, <1>8, Zenon DEF u
<1>11. QED
  BY <1>9, <1>10 DEF u, v, z, d

-----------------------------------------------------------------------------
(* Text: a character put in, a character taken out *)

\* A letter more in one line.
LEMMA LetterPutIn ==
    ASSUME NEW x \in Rows, NEW y \in Rows, NEW l \in Letters
    PROVE  LET g == Glue(x, y)
               k == Len(x)
               c == Len(x[k])
           IN  /\ Glue(With(x, l), y) = [g EXCEPT ![k] = InsertAt(@, c + 1, l)]
               /\ g = [Glue(With(x, l), y) EXCEPT ![k] = RemoveAt(@, c + 1)]
<1> DEFINE g == Glue(x, y)
           z == With(x, l)
           h == Glue(z, y)
           k == Len(x)
           p == x[k]
           q == y[1]
           c == Len(p)
<1>1. /\ k \in Nat /\ Len(y) \in Nat /\ k >= 1 /\ Len(y) >= 1
      /\ p \in Seq(Letters) /\ q \in Seq(Letters)
  BY RowsFacts
<1>2. /\ g \in Rows /\ Len(g) = k + Len(y) - 1 /\ g[k] = p \o q
      /\ \A r \in 1..(k - 1) : g[r] = x[r]
      /\ \A r \in 2..Len(y) : g[k + r - 1] = y[r]
  BY Glued
<1>3. /\ z \in Rows /\ Len(z) = k /\ z[k] = Append(p, l)
      /\ \A r \in 1..(k - 1) : z[r] = x[r]
  <2>1. l \in Letters \cup {Newline} /\ l # Newline
    BY EditingAssumption
  <2>2. QED
    BY <2>1, WithMore
<1> HIDE DEF z, g
<1>4. /\ h \in Rows /\ Len(h) = k + Len(y) - 1 /\ h[k] = Append(p, l) \o q
      /\ \A r \in 1..(k - 1) : h[r] = x[r]
      /\ \A r \in 2..Len(y) : h[k + r - 1] = y[r]
  <2>1. /\ h \in Rows /\ Len(h) = Len(z) + Len(y) - 1 /\ h[Len(z)] = z[Len(z)] \o y[1]
        /\ \A r \in 1..(Len(z) - 1) : h[r] = z[r]
        /\ \A r \in 2..Len(y) : h[Len(z) + r - 1] = y[r]
    BY <1>3, Glued
  <2> HIDE DEF h, k, p, q
  <2>2. QED
    BY <1>3, <2>1 DEF q
<1>5. /\ InsertAt(p \o q, c + 1, l) = Append(p, l) \o q
      /\ RemoveAt(Append(p, l) \o q, c + 1) = p \o q
  BY <1>1, PutBetween
<1>6. \A r \in 1..Len(g) : r # k => g[r] = h[r]
  <2> HIDE DEF h, k
  <2> SUFFICES ASSUME NEW r \in 1..Len(g), r # k PROVE g[r] = h[r]
    OBVIOUS
  <2>1. CASE r < k
    <3>1. r \in 1..(k - 1)
      BY <1>1, <2>1
    <3>2. QED
      BY <1>2, <1>4, <3>1
  <2>2. CASE r > k
    <3> DEFINE i == r - k + 1
    <3>1. i \in 2..Len(y) /\ k + i - 1 = r
      BY <1>1, <1>2, <2>2
    <3> HIDE DEF i
    <3>2. QED
      BY <1>2, <1>4, <3>1
  <2>3. QED
    BY <1>1, <2>1, <2>2
<1> HIDE DEF h, k, p, q, c
<1>7. k \in 1..Len(g) /\ Len(g) = Len(h)
  BY <1>1, <1>2, <1>4
<1>8. h = [g EXCEPT ![k] = InsertAt(@, c + 1, l)]
  <2> DEFINE e == [g EXCEPT ![k] = h[k]]
  <2>1. /\ h[k] \in Seq(Letters) /\ g \in Seq(Seq(Letters)) /\ g # <<>>
    BY <1>4, <1>7, <1>2, RowsFacts DEF Rows
  <2>2. /\ e \in Seq(Seq(Letters)) /\ Len(e) = Len(g)
        /\ \A r \in 1..Len(g) : e[r] = IF r = k THEN h[k] ELSE g[r]
    BY <1>7, <2>1, ExceptSeq
  <2>3. h[k] = InsertAt(g[k], c + 1, l)
    BY <1>2, <1>4, <1>5
  <2> HIDE DEF e
  <2>4. e \in Rows
    BY <1>2, <2>2, RowsFacts, EmptySeq DEF Rows
  <2>5. \A r \in 1..Len(h) : h[r] = e[r]
    BY <1>6, <1>7, <2>2
  <2>6. h = e
    BY <1>4, <1>7, <2>2, <2>4, <2>5, SameRows
  <2>7. QED
    BY <2>3, <2>6 DEF e
<1>9. g = [h EXCEPT ![k] = RemoveAt(@, c + 1)]
  <2> DEFINE e == [h EXCEPT ![k] = g[k]]
  <2>1. /\ g[k] \in Seq(Letters) /\ h \in Seq(Seq(Letters)) /\ h # <<>>
    BY <1>4, <1>7, <1>2, RowsFacts DEF Rows
  <2>2. /\ e \in Seq(Seq(Letters)) /\ Len(e) = Len(h)
        /\ \A r \in 1..Len(h) : e[r] = IF r = k THEN g[k] ELSE h[r]
    BY <1>7, <2>1, ExceptSeq
  <2>3. g[k] = RemoveAt(h[k], c + 1)
    BY <1>2, <1>4, <1>5
  <2> HIDE DEF e
  <2>4. e \in Rows
    BY <1>4, <2>2, RowsFacts, EmptySeq DEF Rows
  <2>5. \A r \in 1..Len(g) : g[r] = e[r]
    BY <1>6, <1>7, <2>2
  <2>6. g = e
    BY <1>2, <1>7, <2>2, <2>4, <2>5, SameRows
  <2>7. QED
    BY <2>3, <2>6 DEF e
<1>10. QED
  BY <1>8, <1>9 DEF g, h, z, k, p, c

\* What SubSeq takes.
LEMMA Slice ==
    ASSUME NEW S, NEW s \in Seq(S), NEW a \in Nat, NEW b \in Nat, 1 <= a, a <= b + 1, b <= Len(s)
    PROVE  /\ SubSeq(s, a, b) \in Seq(S) /\ Len(SubSeq(s, a, b)) = b - a + 1
           /\ \A i \in 1..(b - a + 1) : SubSeq(s, a, b)[i] = s[a + i - 1]
<1>1. Len(s) \in Nat
  BY LenProperties
<1>2. \A i \in a..b : i \in 1..Len(s)
  BY <1>1
<1>3. \A i \in a..b : s[i] \in S
  BY <1>2, ElementOfSeq
<1>4. /\ SubSeq(s, a, b) \in Seq(S)
      /\ Len(SubSeq(s, a, b)) = IF a <= b THEN b - a + 1 ELSE 0
      /\ \A i \in 1..(b - a + 1) : SubSeq(s, a, b)[i] = s[a + i - 1]
  BY <1>3, SubSeqProperties
<1>5. ~(a <= b) => b - a + 1 = 0
  OBVIOUS
<1>6. QED
  BY <1>4, <1>5

\* A line broken in two, and put together again.
LEMMA NewlinePutIn ==
    ASSUME NEW x \in Rows, NEW y \in Rows
    PROVE  LET g == Glue(x, y)
               h == Glue(With(x, Newline), y)
               k == Len(x)
               c == Len(x[k])
           IN  /\ h = SubSeq(g, 1, k - 1)
                        \o << SubSeq(g[k], 1, c), SubSeq(g[k], c + 1, Len(g[k])) >>
                        \o SubSeq(g, k + 1, Len(g))
               /\ g = ReplaceAt(RemoveAt(h, k + 1), k, h[k] \o h[k + 1])
               /\ h[k] = x[k]
<1> DEFINE g == Glue(x, y)
           z == With(x, Newline)
           h == Glue(z, y)
           k == Len(x)
           d == k + 1
           p == x[k]
           q == y[1]
           c == Len(p)
           R == Seq(Letters)
<1>1. /\ k \in Nat /\ Len(y) \in Nat /\ k >= 1 /\ Len(y) >= 1 /\ d \in Nat
      /\ p \in Seq(Letters) /\ q \in Seq(Letters)
  BY RowsFacts
<1>2. /\ g \in Rows /\ Len(g) = k + Len(y) - 1 /\ g[k] = p \o q /\ Len(g) \in Nat
      /\ \A r \in 1..(k - 1) : g[r] = x[r]
      /\ \A r \in 2..Len(y) : g[k + r - 1] = y[r]
  BY Glued
<1>3. /\ z \in Rows /\ Len(z) = d /\ z[d] = <<>>
      /\ \A r \in 1..k : z[r] = x[r]
  BY WithMore
<1> HIDE DEF z, g
<1>4. /\ h \in Rows /\ Len(h) = d + Len(y) - 1 /\ h[d] = q
      /\ \A r \in 1..k : h[r] = x[r]
      /\ \A r \in 2..Len(y) : h[d + r - 1] = y[r]
  <2>1. /\ h \in Rows /\ Len(h) = Len(z) + Len(y) - 1 /\ h[Len(z)] = z[Len(z)] \o y[1]
        /\ \A r \in 1..(Len(z) - 1) : h[r] = z[r]
        /\ \A r \in 2..Len(y) : h[Len(z) + r - 1] = y[r]
    BY <1>3, Glued
  <2>2. <<>> \o q = q
    BY <1>1, ConcatEmptySeq
  <2>3. d - 1 = k
    BY <1>1
  <2> HIDE DEF h, k, p, q, d
  <2>4. QED
    BY <1>3, <2>1, <2>2, <2>3 DEF q
<1> HIDE DEF h, k, p, q
<1>5. /\ SubSeq(p \o q, 1, c) = p
      /\ SubSeq(p \o q, c + 1, Len(p \o q)) = q
  BY <1>1, Halves
<1> HIDE DEF c, d
<1>6. d = k + 1 /\ d - 1 = k /\ Len(h) = Len(g) + 1 /\ k <= Len(g) /\ d <= Len(h)
  BY <1>1, <1>2, <1>4 DEF d
<1>7. /\ \A r \in 1..(k - 1) : h[r] = g[r]
      /\ h[k] = p /\ h[d] = q
  <2>1. \A r \in 1..(k - 1) : r \in 1..k
    BY <1>1
  <2>2. k \in 1..k
    BY <1>1
  <2>3. QED
    BY <1>2, <1>4, <2>1, <2>2 DEF p
<1>8. \A r \in d..Len(g) : h[r + 1] = g[r]
  <2> TAKE r \in d..Len(g)
  <2> DEFINE i == r - k + 1
  <2>1. i \in 2..Len(y) /\ k + i - 1 = r /\ d + i - 1 = r + 1
    BY <1>1, <1>2, <1>6
  <2> HIDE DEF i
  <2>2. h[d + i - 1] = y[i] /\ g[k + i - 1] = y[i]
    BY <1>2, <1>4, <2>1
  <2>3. QED
    BY <2>1, <2>2
<1>9. g \in Seq(R) /\ h \in Seq(R) /\ Len(h) \in Nat
  BY <1>2, <1>4, RowsFacts
<1>10. p \in R /\ q \in R /\ p \o q \in R
  BY <1>1, ConcatProperties
<1> HIDE DEF R
<1>11. h = SubSeq(g, 1, k - 1) \o << p, q >> \o SubSeq(g, d, Len(g))
  <2> DEFINE a == SubSeq(g, 1, k - 1)
             b == SubSeq(g, d, Len(g))
             m == << p, q >>
             am == a \o m
             w == am \o b
  <2>1. k - 1 \in Nat /\ 1 <= d /\ d <= Len(g) + 1 /\ k - 1 <= Len(g)
    BY <1>1, <1>2, <1>6
  <2>2. /\ a \in Seq(R) /\ Len(a) = k - 1 - 1 + 1
        /\ \A i \in 1..(k - 1 - 1 + 1) : a[i] = g[1 + i - 1]
    BY <1>9, <2>1, Slice
  <2>3. /\ b \in Seq(R) /\ Len(b) = Len(g) - d + 1
        /\ \A i \in 1..(Len(g) - d + 1) : b[i] = g[d + i - 1]
    BY <1>1, <1>2, <1>9, <2>1, Slice
  <2>4. m \in Seq(R) /\ Len(m) = 2 /\ m[1] = p /\ m[2] = q
    BY <1>10
  <2> HIDE DEF a, b, m
  <2>5. /\ am \in Seq(R) /\ Len(am) = Len(a) + Len(m)
        /\ \A i \in 1..Len(a) : am[i] = a[i]
        /\ \A i \in 1..Len(m) : am[Len(a) + i] = m[i]
    <3>1. a \in Seq(R) /\ m \in Seq(R)
      BY <2>2, <2>4
    <3>2. QED
      BY <3>1, Halves
  <2> HIDE DEF am
  <2>6. /\ w \in Seq(R) /\ Len(w) = Len(am) + Len(b)
        /\ \A i \in 1..Len(am) : w[i] = am[i]
        /\ \A i \in 1..Len(b) : w[Len(am) + i] = b[i]
    <3>1. am \in Seq(R) /\ b \in Seq(R)
      BY <2>3, <2>5
    <3>2. QED
      BY <3>1, Halves
  <2> HIDE DEF w
  <2>7. Len(a) = k - 1 /\ Len(am) = d /\ Len(w) = Len(h)
    BY <1>1, <1>2, <1>6, <2>2, <2>3, <2>4, <2>5, <2>6
  <2>8. ASSUME NEW r \in 1..Len(h) PROVE h[r] = w[r]
    <3>1. CASE r \in 1..(k - 1)
      <4>1. r \in 1..(k - 1 - 1 + 1) /\ 1 + r - 1 = r /\ r \in 1..Len(am)
        BY <1>1, <1>6, <2>7, <3>1
      <4>2. a[r] = g[r]
        BY <2>2, <4>1
      <4>3. QED
        BY <1>7, <2>5, <2>6, <2>7, <3>1, <4>1, <4>2
    <3>2. CASE r = k
      <4>1. r \in 1..Len(am) /\ Len(a) + 1 = r /\ 1 \in 1..Len(m)
        BY <1>1, <1>6, <2>4, <2>7, <3>2
      <4>2. QED
        BY <1>7, <2>4, <2>5, <2>6, <3>2, <4>1
    <3>3. CASE r = d
      <4>1. r \in 1..Len(am) /\ Len(a) + 2 = r /\ 2 \in 1..Len(m)
        BY <1>1, <1>6, <2>4, <2>7, <3>3
      <4>2. QED
        BY <1>7, <2>4, <2>5, <2>6, <3>3, <4>1
    <3>4. CASE r > d
      <4> DEFINE i == r - d
                 j == r - 1
      <4>1. /\ i \in 1..Len(b) /\ i \in 1..(Len(g) - d + 1) /\ d + i - 1 = j
            /\ Len(am) + i = r /\ j \in d..Len(g) /\ j + 1 = r
        <5> DEFINE u == Len(g)
                   v == Len(b)
                   o == Len(am)
        <5>1. d \in Nat /\ u \in Nat /\ r \in 1..(u + 1) /\ v = u - d + 1 /\ o = d /\ r > d
          BY <1>1, <1>2, <1>6, <2>3, <2>7, <3>4
        <5> HIDE DEF u, v, o, d
        <5>2. /\ i \in 1..v /\ i \in 1..(u - d + 1) /\ d + i - 1 = j
              /\ o + i = r /\ j \in d..u /\ j + 1 = r
          BY <5>1
        <5>3. QED
          BY <5>2 DEF u, v, o
      <4> HIDE DEF i, j
      <4>2. b[i] = g[j] /\ w[r] = b[i] /\ h[r] = g[j]
        BY <1>8, <2>3, <2>6, <4>1
      <4>3. QED
        BY <4>2
    <3>5. r \in 1..(k - 1) \/ r = k \/ r = d \/ r > d
      BY <1>1, <1>6
    <3>6. QED
      BY <3>1, <3>2, <3>3, <3>4, <3>5
  <2>9. h = w
    BY <1>9, <2>6, <2>7, <2>8, SeqEqual
  <2>10. QED
    BY <2>9 DEF w, am, a, b, m
<1>12. g = ReplaceAt(RemoveAt(h, d), k, h[k] \o h[d])
  <2> DEFINE a == SubSeq(h, 1, d - 1)
             b == SubSeq(h, d + 1, Len(h))
             v == a \o b
             w == [v EXCEPT ![k] = p \o q]
  <2>1. RemoveAt(h, d) = v
    BY DEF RemoveAt
  <2>2. /\ a \in Seq(R) /\ Len(a) = d - 1 - 1 + 1
        /\ \A i \in 1..(d - 1 - 1 + 1) : a[i] = h[1 + i - 1]
    <3>1. d - 1 \in Nat /\ 1 <= d - 1 + 1 /\ d - 1 <= Len(h)
      BY <1>1, <1>6
    <3>2. QED
      BY <1>9, <3>1, Slice
  <2>3. /\ b \in Seq(R) /\ Len(b) = Len(h) - (d + 1) + 1
        /\ \A i \in 1..(Len(h) - (d + 1) + 1) : b[i] = h[d + 1 + i - 1]
    <3>1. d + 1 \in Nat /\ 1 <= d + 1 /\ d + 1 <= Len(h) + 1
      BY <1>1, <1>6
    <3>2. QED
      BY <1>9, <3>1, Slice
  <2> HIDE DEF a, b
  <2>4. /\ v \in Seq(R) /\ Len(v) = Len(a) + Len(b)
        /\ \A i \in 1..Len(a) : v[i] = a[i]
        /\ \A i \in 1..Len(b) : v[Len(a) + i] = b[i]
    <3>1. a \in Seq(R) /\ b \in Seq(R)
      BY <2>2, <2>3
    <3>2. QED
      BY <3>1, Halves
  <2> HIDE DEF v
  <2>5. Len(a) = k /\ Len(b) = Len(g) - k /\ Len(v) = Len(g) /\ k \in 1..Len(v)
    BY <1>1, <1>2, <1>6, <1>9, <2>2, <2>3, <2>4
  <2>7. /\ w \in Seq(R) /\ Len(w) = Len(v)
        /\ \A r \in 1..Len(v) : w[r] = IF r = k THEN p \o q ELSE v[r]
    BY <1>10, <2>4, <2>5, ExceptSeq
  <2> HIDE DEF w
  <2>8. ASSUME NEW r \in 1..Len(g) PROVE g[r] = w[r]
    <3>1. CASE r \in 1..(k - 1)
      <4>1. /\ r \in 1..(d - 1 - 1 + 1) /\ 1 + r - 1 = r /\ r \in 1..Len(a)
            /\ r # k /\ r \in 1..Len(v)
        BY <1>1, <1>6, <2>5, <3>1
      <4>2. w[r] = h[r]
        BY <2>2, <2>4, <2>7, <4>1
      <4>3. QED
        BY <1>7, <3>1, <4>2
    <3>2. CASE r = k
      BY <1>2, <2>5, <2>7, <3>2
    <3>3. CASE r > k
      <4> DEFINE i == r - k
      <4>1. /\ i \in 1..Len(b) /\ i \in 1..(Len(h) - (d + 1) + 1) /\ d + 1 + i - 1 = r + 1
            /\ Len(a) + i = r /\ r \in d..Len(g) /\ r # k /\ r \in 1..Len(v)
        BY <1>1, <1>2, <1>6, <2>5, <3>3
      <4> HIDE DEF i
      <4>2. w[r] = v[r] /\ v[r] = b[i] /\ b[i] = h[r + 1]
        BY <2>3, <2>4, <2>7, <4>1
      <4>3. QED
        BY <1>8, <4>1, <4>2
    <3>4. QED
      BY <1>1, <3>1, <3>2, <3>3
  <2>9. g = w
    BY <1>9, <2>5, <2>7, <2>8, SeqEqual
  <2>10. ReplaceAt(v, k, p \o q) = w
    BY DEF ReplaceAt, w
  <2>11. QED
    BY <1>7, <2>1, <2>9, <2>10
<1>13. QED
  BY <1>2, <1>5, <1>7, <1>11, <1>12 DEF g, h, z, k, p, c, d

-----------------------------------------------------------------------------
(* Text: reading the bytes *)

\* Induction between two numbers.
LEMMA Upwards ==
    ASSUME NEW a \in Nat, NEW b \in Nat, NEW T, a \in T,
           \A n \in T : n \in a..(b - 1) => n + 1 \in T
    PROVE  \A n \in a..b : n \in T
<1> DEFINE U == {n \in Nat : a + n <= b => a + n \in T}
<1>1. 0 \in U
  OBVIOUS
<1>2. ASSUME NEW n \in U PROVE n + 1 \in U
  <2>1. n \in Nat /\ (a + n <= b => a + n \in T)
    BY <1>2
  <2> DEFINE i == a + n
  <2>2. a + (n + 1) <= b => i + 1 <= b /\ i <= b /\ i \in a..(b - 1)
    BY <2>1
  <2>3. a + (n + 1) = i + 1
    BY <2>1
  <2> HIDE DEF i
  <2>4. a + (n + 1) <= b => a + (n + 1) \in T
    BY <2>1, <2>2, <2>3 DEF i
  <2>5. QED
    BY <2>1, <2>4
<1> HIDE DEF U
<1>3. U \in SUBSET Nat
  BY DEF U
<1>4. U = Nat
  BY <1>1, <1>2, <1>3, SetInduction
<1>5. QED
  <2> TAKE n \in a..b
  <2>1. n - a \in U /\ a + (n - a) = n
    BY <1>4
  <2>2. QED
    BY <2>1 DEF U

\* The recursion of LinesUpto, and that it has a solution.
UptoAt(s, f, n) == IF n = 0 THEN << <<>> >> ELSE Text!Read(f[n - 1], s[n])

\* LinesUpto follows its recursion.
LEMMA UptoSolves ==
    ASSUME NEW s, Len(s) \in Nat
    PROVE  Text!LinesUpto(s) = [n \in 0..Len(s) |-> UptoAt(s, Text!LinesUpto(s), n)]
<1> DEFINE Solved(N) == \E g : g = [n \in 0..N |-> UptoAt(s, g, n)]
           T == {N \in Nat : Solved(N)}
<1>1. 0 \in T
  <2>1. [n \in 0..0 |-> << <<>> >>] = [n \in 0..0 |-> UptoAt(s, [m \in 0..0 |-> << <<>> >>], n)]
    BY DEF UptoAt
  <2>2. QED
    BY <2>1
<1>2. ASSUME NEW N \in T PROVE N + 1 \in T
  <2>1. PICK g : g = [n \in 0..N |-> UptoAt(s, g, n)]
    BY <1>2
  <2> DEFINE h == [n \in 0..(N + 1) |-> IF n = N + 1 THEN UptoAt(s, g, n) ELSE g[n]]
  <2>2. N \in Nat
    BY <1>2
  <2>3. \A n \in 0..(N + 1) : n # 0 => h[n - 1] = g[n - 1]
    BY <2>2
  <2>4. \A n \in 0..(N + 1) : UptoAt(s, h, n) = UptoAt(s, g, n)
    <3> HIDE DEF h
    <3>1. QED
      BY <2>3 DEF UptoAt
  <2>5. \A n \in 0..N : g[n] = UptoAt(s, g, n)
    BY <2>1
  <2>6. \A n \in 0..(N + 1) : h[n] = UptoAt(s, h, n)
    BY <2>2, <2>4, <2>5
  <2>7. h = [n \in 0..(N + 1) |-> h[n]]
    OBVIOUS
  <2> HIDE DEF h
  <2>8. h = [n \in 0..(N + 1) |-> UptoAt(s, h, n)]
    BY <2>6, <2>7
  <2>9. QED
    BY <2>2, <2>8
<1>3. T = Nat
  <2> HIDE DEF T
  <2>1. T \in SUBSET Nat
    BY DEF T
  <2>2. QED
    BY <1>1, <1>2, <2>1, SetInduction
<1>4. Solved(Len(s))
  BY <1>3
<1>5. QED
  BY <1>4 DEF Text!LinesUpto, UptoAt

\* LinesUpto, a byte at a time.
LEMMA UptoRule ==
    ASSUME NEW s, Len(s) \in Nat
    PROVE  /\ Text!LinesUpto(s)[0] = << <<>> >>
           /\ \A n \in 1..Len(s) :
                Text!LinesUpto(s)[n] = Text!Read(Text!LinesUpto(s)[n - 1], s[n])
<1>1. \A n \in 0..Len(s) : Text!LinesUpto(s)[n] = UptoAt(s, Text!LinesUpto(s), n)
  BY UptoSolves
<1>2. QED
  BY <1>1 DEF UptoAt

\* Only the first byte of a character is read.
LEMMA ReadIs ==
    ASSUME NEW t, NEW b \in Text!Bytes
    PROVE  /\ b.of \in Letters \cup {Newline} /\ b.nth \in 1..4
           /\ b.nth # 1 => Text!Read(t, b) = t
           /\ b.nth = 1 => Text!Read(t, b) = With(t, b.of)
<1>1. b.of \in Letters \cup {Newline} /\ b.nth \in 1..4
  BY DEF Text!Bytes
<1>2. CASE b.nth # 1
  BY <1>1, <1>2 DEF Text!Read
<1>3. CASE b.nth = 1 /\ b.of = Newline
  BY <1>1, <1>3 DEF Text!Read, With
<1>4. CASE b.nth = 1 /\ b.of # Newline
  BY <1>1, <1>4 DEF Text!Read, With
<1>5. QED
  BY <1>1, <1>2, <1>3, <1>4

\* One empty line.
LEMMA BlankRows == << <<>> >> \in Rows /\ Len(<< <<>> >>) = 1 /\ << <<>> >>[1] = <<>>
<1>1. <<>> \in Seq(Letters)
  BY EmptySeq
<1>2. QED
  BY <1>1 DEF Rows

\* What has been read is lines.
LEMMA UptoRows ==
    ASSUME NEW s \in Seq(Text!Bytes)
    PROVE  \A n \in 0..Len(s) : Text!LinesUpto(s)[n] \in Rows
<1> DEFINE U == Text!LinesUpto(s)
           T == {n \in Nat : U[n] \in Rows}
<1>1. Len(s) \in Nat /\ \A n \in 1..Len(s) : s[n] \in Text!Bytes
  BY LenProperties, ElementOfSeq
<1>2. U[0] = << <<>> >> /\ \A n \in 1..Len(s) : U[n] = Text!Read(U[n - 1], s[n])
  BY <1>1, UptoRule
<1> HIDE DEF U
<1>3. 0 \in T
  BY <1>2, BlankRows
<1>4. ASSUME NEW n \in T, n \in 0..(Len(s) - 1) PROVE n + 1 \in T
  <2> DEFINE m == n + 1
  <2>1. m \in 1..Len(s) /\ m - 1 = n /\ m \in Nat /\ U[n] \in Rows
    BY <1>1, <1>4
  <2> HIDE DEF m
  <2>2. U[m] = Text!Read(U[n], s[m]) /\ s[m] \in Text!Bytes
    BY <1>1, <1>2, <2>1
  <2>3. U[m] = U[n] \/ (U[m] = With(U[n], s[m].of) /\ s[m].of \in Letters \cup {Newline})
    BY <2>2, ReadIs
  <2>4. U[m] \in Rows
    BY <2>1, <2>3, WithMore
  <2>5. QED
    BY <2>1, <2>4 DEF m
<1> HIDE DEF T
<1>5. \A n \in 0..Len(s) : n \in T
  BY <1>1, <1>3, <1>4, Upwards
<1>6. QED
  BY <1>5 DEF T, U

\* One byte more.
LEMMA UptoStep ==
    ASSUME NEW s \in Seq(Text!Bytes)
    PROVE  /\ Len(s) \in Nat /\ Text!LinesUpto(s)[0] = << <<>> >>
           /\ \A n \in 0..Len(s) : Text!LinesUpto(s)[n] \in Rows
           /\ \A n \in 1..Len(s) :
                /\ s[n].of \in Letters \cup {Newline} /\ s[n].nth \in 1..4
                /\ s[n].nth # 1 => Text!LinesUpto(s)[n] = Text!LinesUpto(s)[n - 1]
                /\ s[n].nth = 1 =>
                    Text!LinesUpto(s)[n] = With(Text!LinesUpto(s)[n - 1], s[n].of)
<1> DEFINE U == Text!LinesUpto(s)
<1>1. Len(s) \in Nat /\ \A n \in 1..Len(s) : s[n] \in Text!Bytes
  BY LenProperties, ElementOfSeq
<1>2. U[0] = << <<>> >> /\ \A n \in 1..Len(s) : U[n] = Text!Read(U[n - 1], s[n])
  BY <1>1, UptoRule
<1>3. \A n \in 0..Len(s) : U[n] \in Rows
  BY UptoRows
<1> HIDE DEF U
<1>4. ASSUME NEW n \in 1..Len(s)
      PROVE  /\ s[n].of \in Letters \cup {Newline} /\ s[n].nth \in 1..4
             /\ s[n].nth # 1 => U[n] = U[n - 1]
             /\ s[n].nth = 1 => U[n] = With(U[n - 1], s[n].of)
  BY <1>1, <1>2, ReadIs
<1>5. QED
  BY <1>1, <1>2, <1>3, <1>4 DEF U

\* What was read up to a place depends on the bytes up to there.
LEMMA UptoSame ==
    ASSUME NEW s \in Seq(Text!Bytes), NEW t \in Seq(Text!Bytes), NEW k \in Nat,
           k <= Len(s), k <= Len(t), \A i \in 1..k : s[i] = t[i]
    PROVE  \A n \in 0..k : Text!LinesUpto(s)[n] = Text!LinesUpto(t)[n]
<1> DEFINE U == Text!LinesUpto(s)
           V == Text!LinesUpto(t)
           T == {n \in Nat : U[n] = V[n]}
<1>1. Len(s) \in Nat /\ Len(t) \in Nat
  BY LenProperties
<1>2. U[0] = << <<>> >> /\ \A n \in 1..Len(s) : U[n] = Text!Read(U[n - 1], s[n])
  BY <1>1, UptoRule
<1>3. V[0] = << <<>> >> /\ \A n \in 1..Len(t) : V[n] = Text!Read(V[n - 1], t[n])
  BY <1>1, UptoRule
<1> HIDE DEF U, V
<1>4. 0 \in T
  BY <1>2, <1>3
<1>5. ASSUME NEW n \in T, n \in 0..(k - 1) PROVE n + 1 \in T
  <2> DEFINE m == n + 1
  <2>a. U[n] = V[n]
    BY <1>5
  <2> HIDE DEF T
  <2>1. m \in 1..Len(s) /\ m \in 1..Len(t) /\ m \in 1..k /\ m - 1 = n /\ m \in Nat
    BY <1>1, <1>5
  <2> HIDE DEF m
  <2>2. U[m] = Text!Read(U[n], s[m]) /\ V[m] = Text!Read(V[n], t[m]) /\ s[m] = t[m]
    BY <1>2, <1>3, <2>1
  <2>3. m \in T
    BY <2>a, <2>1, <2>2 DEF T
  <2>4. QED
    BY <2>3 DEF m
<1> HIDE DEF T
<1>6. \A n \in 0..k : n \in T
  BY <1>4, <1>5, Upwards
<1>7. QED
  BY <1>6 DEF T, U, V

\* Nothing behind a text.
LEMMA GlueBlank ==
    ASSUME NEW x \in Rows
    PROVE  Glue(x, << <<>> >>) = x
<1> DEFINE y == << <<>> >>
<1>1. y \in Rows /\ Len(y) = 1 /\ y[1] = <<>>
  BY BlankRows
<1> HIDE DEF y
<1>2. Len(x) \in Nat /\ x[Len(x)] \in Seq(Letters)
  BY RowsFacts
<1>3. x[Len(x)] = x[Len(x)] \o y[1]
  BY <1>1, <1>2, ConcatEmptySeq
<1>4. Len(x) = Len(x) + Len(y) - 1 /\ \A r \in 2..Len(y) : FALSE
  BY <1>1, <1>2
<1>5. x = Glue(x, y)
  BY <1>1, <1>3, <1>4, GlueIs
<1>6. QED
  BY <1>5 DEF y

\* The lines of a text whose bytes from the place k on are those of b.
LEMMA UptoGlue ==
    ASSUME NEW s \in Seq(Text!Bytes), NEW b \in Seq(Text!Bytes), NEW k \in Nat,
           Len(s) = k + Len(b), \A i \in 1..Len(b) : s[k + i] = b[i]
    PROVE  Text!LinesOf(s) = Glue(Text!LinesUpto(s)[k], Text!LinesOf(b))
<1> DEFINE U == Text!LinesUpto(s)
           V == Text!LinesUpto(b)
           T == {n \in Nat : U[k + n] = Glue(U[k], V[n])}
<1>1. /\ Len(s) \in Nat
      /\ \A n \in 0..Len(s) : U[n] \in Rows
      /\ \A n \in 1..Len(s) :
            /\ s[n].of \in Letters \cup {Newline}
            /\ s[n].nth # 1 => U[n] = U[n - 1]
            /\ s[n].nth = 1 => U[n] = With(U[n - 1], s[n].of)
  BY UptoStep
<1>2. /\ Len(b) \in Nat /\ V[0] = << <<>> >>
      /\ \A n \in 0..Len(b) : V[n] \in Rows
      /\ \A n \in 1..Len(b) :
            /\ b[n].nth # 1 => V[n] = V[n - 1]
            /\ b[n].nth = 1 => V[n] = With(V[n - 1], b[n].of)
  BY UptoStep
<1> HIDE DEF U, V
<1>3. U[k] \in Rows
  BY <1>1, <1>2
<1>4. 0 \in T
  <2>1. Glue(U[k], V[0]) = U[k] /\ k + 0 = k
    BY <1>2, <1>3, GlueBlank
  <2>2. QED
    BY <2>1
<1>5. ASSUME NEW n \in T, n \in 0..(Len(b) - 1) PROVE n + 1 \in T
  <2> DEFINE m == n + 1
             j == k + m
  <2>1. /\ m \in 1..Len(b) /\ m - 1 = n /\ m \in Nat /\ n \in 0..Len(b)
        /\ j \in 1..Len(s) /\ j - 1 = k + n
    BY <1>1, <1>2, <1>5
  <2>2. U[k + n] = Glue(U[k], V[n])
    BY <1>5
  <2> HIDE DEF m, j
  <2>3. s[j] = b[m]
    BY <2>1 DEF j
  <2>4. CASE b[m].nth # 1
    BY <1>1, <1>2, <2>1, <2>2, <2>3, <2>4 DEF j
  <2>5. CASE b[m].nth = 1
    <3>1. U[j] = With(Glue(U[k], V[n]), b[m].of) /\ b[m].of \in Letters \cup {Newline}
      BY <1>1, <2>1, <2>2, <2>3, <2>5
    <3>2. V[m] = With(V[n], b[m].of) /\ V[n] \in Rows
      BY <1>2, <2>1, <2>5
    <3>3. U[j] = Glue(U[k], V[m])
      BY <1>3, <3>1, <3>2, GlueWith
    <3>4. QED
      BY <2>1, <3>3 DEF j
  <2>6. QED
    BY <2>4, <2>5 DEF m
<1> HIDE DEF T
<1>6. \A n \in 0..Len(b) : n \in T
  BY <1>2, <1>4, <1>5, Upwards
<1>7. Len(b) \in T
  BY <1>2, <1>6
<1>8. U[Len(s)] = Glue(U[k], V[Len(b)])
  BY <1>7 DEF T
<1>9. QED
  BY <1>8 DEF U, V, Text!LinesOf

\* A whole character more.
LEMMA UptoCharacter ==
    ASSUME NEW s \in Seq(Text!Bytes), NEW n \in Nat, NEW m \in Nat, n < m, m <= Len(s),
           s[n + 1].nth = 1, \A i \in (n + 2)..m : s[i].nth # 1
    PROVE  /\ Text!LinesUpto(s)[m] = With(Text!LinesUpto(s)[n], s[n + 1].of)
           /\ s[n + 1].of \in Letters \cup {Newline}
<1> DEFINE U == Text!LinesUpto(s)
           d == n + 1
           T == {i \in Nat : U[i] = With(U[n], s[d].of)}
<1>1. /\ Len(s) \in Nat
      /\ \A i \in 1..Len(s) :
            /\ s[i].of \in Letters \cup {Newline}
            /\ s[i].nth # 1 => U[i] = U[i - 1]
            /\ s[i].nth = 1 => U[i] = With(U[i - 1], s[i].of)
  BY UptoStep
<1>2. d \in 1..Len(s) /\ d - 1 = n /\ d \in Nat /\ d <= m
  BY <1>1
<1> HIDE DEF U
<1>3. d \in T
  <2> HIDE DEF d
  <2>1. s[d].nth = 1
    BY DEF d
  <2>2. QED
    BY <1>1, <1>2, <2>1
<1>4. ASSUME NEW i \in T, i \in d..(m - 1) PROVE i + 1 \in T
  <2> DEFINE j == i + 1
  <2>1. j \in (n + 2)..m /\ j \in 1..Len(s) /\ j - 1 = i /\ j \in Nat
    BY <1>1, <1>2, <1>4
  <2>2. U[i] = With(U[n], s[d].of)
    BY <1>4
  <2> HIDE DEF j, d
  <2>3. U[j] = U[i]
    BY <1>1, <2>1
  <2>4. QED
    BY <2>1, <2>2, <2>3 DEF j
<1> HIDE DEF T
<1>5. \A i \in d..m : i \in T
  BY <1>2, <1>3, <1>4, Upwards
<1>6. m \in T
  BY <1>2, <1>5
<1>7. QED
  BY <1>1, <1>2, <1>6 DEF T, U

\* Whatever is read behind it leaves a line that is over, and there is no line less.
LEMMA UptoGrows ==
    ASSUME NEW s \in Seq(Text!Bytes), NEW n \in Nat, NEW m \in Nat, n <= m, m <= Len(s)
    PROVE  /\ Len(Text!LinesUpto(s)[n]) <= Len(Text!LinesUpto(s)[m])
           /\ \A r \in 1..(Len(Text!LinesUpto(s)[n]) - 1) :
                Text!LinesUpto(s)[m][r] = Text!LinesUpto(s)[n][r]
<1> DEFINE U == Text!LinesUpto(s)
           k == Len(U[n])
           T == {i \in Nat : k <= Len(U[i]) /\ \A r \in 1..(k - 1) : U[i][r] = U[n][r]}
<1>1. /\ Len(s) \in Nat
      /\ \A i \in 0..Len(s) : U[i] \in Rows
      /\ \A i \in 1..Len(s) :
            /\ s[i].of \in Letters \cup {Newline}
            /\ s[i].nth # 1 => U[i] = U[i - 1]
            /\ s[i].nth = 1 => U[i] = With(U[i - 1], s[i].of)
  BY UptoStep
<1>2. U[n] \in Rows /\ k \in Nat
  BY <1>1, RowsFacts
<1> HIDE DEF U, k
<1>3. n \in T
  BY <1>2 DEF k
<1>4. ASSUME NEW i \in T, i \in n..(m - 1) PROVE i + 1 \in T
  <2> DEFINE j == i + 1
  <2>1. j \in 1..Len(s) /\ j - 1 = i /\ j \in Nat /\ i \in 0..Len(s)
    BY <1>1, <1>4
  <2>2. k <= Len(U[i]) /\ \A r \in 1..(k - 1) : U[i][r] = U[n][r]
    BY <1>4
  <2> HIDE DEF j
  <2>3. U[i] \in Rows /\ Len(U[i]) \in Nat
    BY <1>1, <2>1, RowsFacts
  <2>4. Len(U[i]) <= Len(U[j]) /\ \A r \in 1..(Len(U[i]) - 1) : U[j][r] = U[i][r]
    <3>1. CASE s[j].nth # 1
      BY <1>1, <2>1, <2>3, <3>1
    <3>2. CASE s[j].nth = 1
      <4>1. U[j] = With(U[i], s[j].of) /\ s[j].of \in Letters \cup {Newline}
        BY <1>1, <2>1, <3>2
      <4>2. /\ s[j].of = Newline => /\ Len(U[j]) = Len(U[i]) + 1
                                     /\ \A r \in 1..Len(U[i]) : U[j][r] = U[i][r]
            /\ s[j].of # Newline => /\ Len(U[j]) = Len(U[i])
                                     /\ \A r \in 1..(Len(U[i]) - 1) : U[j][r] = U[i][r]
        BY <2>3, <4>1, WithMore
      <4>3. \A r \in 1..(Len(U[i]) - 1) : r \in 1..Len(U[i])
        BY <2>3
      <4>4. QED
        BY <2>3, <4>2, <4>3
    <3>3. QED
      BY <3>1, <3>2
  <2>5. Len(U[j]) \in Nat
    BY <1>1, <2>1, RowsFacts
  <2>6. \A r \in 1..(k - 1) : r \in 1..(Len(U[i]) - 1)
    BY <1>2, <2>2, <2>3
  <2>7. k <= Len(U[j]) /\ \A r \in 1..(k - 1) : U[j][r] = U[n][r]
    BY <1>2, <2>2, <2>3, <2>4, <2>5, <2>6
  <2>8. QED
    BY <2>1, <2>7 DEF j
<1> HIDE DEF T
<1>5. \A i \in n..m : i \in T
  BY <1>3, <1>4, Upwards
<1>6. m \in T
  BY <1>5
<1>7. QED
  BY <1>6 DEF T, U, k

-----------------------------------------------------------------------------
(* Text: where a place is *)

\* A text whose characters are whole: it begins with a character, and a newline
\* is one byte.
Whole(s) ==
    /\ s \in Seq(Text!Bytes)
    /\ Text!IsCharBoundary(s, 0)
    /\ \A i \in 1..Len(s) :
        s[i].of = Newline => s[i].nth = 1 /\ Text!IsCharBoundary(s, i)

\* The line and the column of a place.
RowAt(s, n) == Len(Text!LinesUpto(s)[n])

ColAt(s, n) == Len(Text!LinesUpto(s)[n][RowAt(s, n)])

\* Places have lines and columns, and the first is in front of all.
LEMMA Placed0 ==
    ASSUME NEW s \in Seq(Text!Bytes)
    PROVE  /\ Len(s) \in Nat /\ RowAt(s, 0) = 1 /\ ColAt(s, 0) = 0
           /\ \A n \in 0..Len(s) : RowAt(s, n) \in Nat \ {0} /\ ColAt(s, n) \in Nat
<1> DEFINE U == Text!LinesUpto(s)
<1>1. Len(s) \in Nat /\ U[0] = << <<>> >> /\ \A n \in 0..Len(s) : U[n] \in Rows
  BY UptoStep
<1> HIDE DEF U
<1>2. \A n \in 0..Len(s) : Len(U[n]) \in Nat \ {0} /\ Len(U[n][Len(U[n])]) \in Nat
  BY <1>1, RowsFacts
<1>3. Len(U[0]) = 1 /\ U[0][1] = <<>> /\ Len(<<>>) = 0
  BY <1>1, BlankRows
<1>4. QED
  BY <1>1, <1>2, <1>3 DEF U, RowAt, ColAt

\* A byte further: a newline begins a line, the first byte of a character a column.
LEMMA PlaceStep ==
    ASSUME NEW s, Whole(s), NEW n \in 1..Len(s)
    PROVE  /\ s[n].of = Newline => RowAt(s, n) = RowAt(s, n - 1) + 1 /\ ColAt(s, n) = 0
           /\ s[n].of # Newline =>
                /\ RowAt(s, n) = RowAt(s, n - 1)
                /\ s[n].nth = 1 => ColAt(s, n) = ColAt(s, n - 1) + 1
                /\ s[n].nth # 1 => ColAt(s, n) = ColAt(s, n - 1)
<1> DEFINE U == Text!LinesUpto(s)
           m == n - 1
<1>1. s \in Seq(Text!Bytes) /\ (s[n].of = Newline => s[n].nth = 1)
  BY DEF Whole
<1>2. /\ Len(s) \in Nat /\ \A i \in 0..Len(s) : U[i] \in Rows
      /\ s[n].of \in Letters \cup {Newline}
      /\ s[n].nth # 1 => U[n] = U[m]
      /\ s[n].nth = 1 => U[n] = With(U[m], s[n].of)
  BY <1>1, UptoStep
<1> HIDE DEF U
<1>3. m \in 0..Len(s)
  BY <1>2
<1> HIDE DEF m
<1>4. U[m] \in Rows /\ Len(U[m]) \in Nat
  BY <1>2, <1>3, RowsFacts
<1>5. CASE s[n].of = Newline
  <2>1. U[n] = With(U[m], Newline)
    BY <1>1, <1>2, <1>5
  <2>2. Len(U[n]) = Len(U[m]) + 1 /\ U[n][Len(U[m]) + 1] = <<>>
    BY <1>4, <2>1, WithMore
  <2>3. U[n][Len(U[n])] = <<>> /\ Len(<<>>) = 0
    BY <2>2, EmptySeq, BlankRows
  <2>4. QED
    BY <1>5, <2>2, <2>3 DEF RowAt, ColAt, U, m
<1>6. CASE s[n].of # Newline /\ s[n].nth = 1
  <2>1. U[n] = With(U[m], s[n].of)
    BY <1>2, <1>6
  <2>2. Len(U[n]) = Len(U[m]) /\ Len(U[n][Len(U[m])]) = Len(U[m][Len(U[m])]) + 1
    BY <1>2, <1>4, <1>6, <2>1, WithMore
  <2>3. QED
    BY <1>6, <2>2 DEF RowAt, ColAt, U, m
<1>7. CASE s[n].of # Newline /\ s[n].nth # 1
  <2>1. U[n] = U[m]
    BY <1>2, <1>7
  <2>2. QED
    BY <1>7, <2>1 DEF RowAt, ColAt, U, m
<1>8. QED
  BY <1>5, <1>6, <1>7

\* Between two places without a newline the column grows by the characters.
LEMMA SameLine ==
    ASSUME NEW s, Whole(s), NEW n \in Nat, NEW m \in Nat, n <= m, m <= Len(s),
           \A i \in (n + 1)..m : s[i].of # Newline
    PROVE  /\ RowAt(s, m) = RowAt(s, n)
           /\ ColAt(s, m) = ColAt(s, n) + Cardinality(Text!Chars(s, n, m))
           /\ Cardinality(Text!Chars(s, n, m)) \in Nat
<1> DEFINE C(i) == Text!Chars(s, n, i)
           R(i) == RowAt(s, i)
           K(i) == ColAt(s, i)
           T == {i \in Nat : /\ R(i) = R(n) /\ IsFiniteSet(C(i))
                             /\ K(i) = K(n) + Cardinality(C(i))}
<1>1. s \in Seq(Text!Bytes)
  BY DEF Whole
<1>2. Len(s) \in Nat /\ K(n) \in Nat
  BY <1>1, Placed0
<1>3. n \in T
  <2>1. C(n) = {}
    BY DEF Text!Chars
  <2> HIDE DEF C, K, R
  <2>2. IsFiniteSet(C(n)) /\ Cardinality(C(n)) = 0
    BY <2>1, FS_EmptySet
  <2>3. K(n) = K(n) + Cardinality(C(n))
    BY <1>2, <2>2
  <2>4. QED
    BY <2>2, <2>3
<1>4. ASSUME NEW i \in T, i \in n..(m - 1) PROVE i + 1 \in T
  <2> DEFINE j == i + 1
  <2>1. /\ i \in Nat /\ R(i) = R(n) /\ IsFiniteSet(C(i)) /\ K(i) = K(n) + Cardinality(C(i))
    BY <1>4
  <2>2. j \in 1..Len(s) /\ j \in (n + 1)..m /\ j - 1 = i /\ j \in Nat
    BY <1>2, <1>4
  <2>3. C(j) = IF s[j].nth = 1 THEN C(i) \cup {i} ELSE C(i)
    BY <1>4, <2>1 DEF Text!Chars
  <2>4. i \notin C(i)
    BY <2>1 DEF Text!Chars
  <2> HIDE DEF j
  <2>5. /\ R(j) = R(i)
        /\ s[j].nth = 1 => K(j) = K(i) + 1
        /\ s[j].nth # 1 => K(j) = K(i)
    BY <2>2, PlaceStep
  <2> HIDE DEF C, R, K
  <2>6. /\ IsFiniteSet(C(i) \cup {i}) /\ Cardinality(C(i)) \in Nat
        /\ Cardinality(C(i) \cup {i}) = Cardinality(C(i)) + 1
    BY <2>1, <2>4, FS_AddElement, FS_CardinalityType
  <2>7. j \in T
    <3>1. CASE s[j].nth = 1
      <4>1. /\ R(j) = R(n) /\ IsFiniteSet(C(j)) /\ Cardinality(C(j)) = Cardinality(C(i)) + 1
            /\ K(j) = K(i) + 1
        BY <2>1, <2>3, <2>5, <2>6, <3>1
      <4>2. K(j) = K(n) + Cardinality(C(j))
        BY <1>2, <2>1, <2>6, <4>1
      <4>3. QED
        BY <2>2, <4>1, <4>2
    <3>2. CASE s[j].nth # 1
      BY <2>1, <2>2, <2>3, <2>5, <3>2
    <3>3. QED
      BY <3>1, <3>2
  <2>8. QED
    BY <2>7 DEF j
<1> HIDE DEF T
<1>5. \A i \in n..m : i \in T
  BY <1>3, <1>4, Upwards
<1>6. m \in T
  BY <1>5
<1>7. /\ R(m) = R(n) /\ IsFiniteSet(C(m)) /\ K(m) = K(n) + Cardinality(C(m))
  BY <1>6 DEF T
<1>8. QED
  BY <1>7, FS_CardinalityType

\* The greatest and the least of some numbers.
LEMMA GreatestOfThem ==
    ASSUME NEW n \in Nat, NEW T \in SUBSET (0..n), T # {}
    PROVE  Text!Max(T) \in T /\ \A j \in T : Text!Max(T) >= j
  BY HasGreatestFromZero, Zenon DEF Text!Max

\* The least of a set of numbers.
LEMMA LeastOfThem ==
    ASSUME NEW T \in SUBSET Nat, T # {}
    PROVE  Text!Min(T) \in T /\ \A j \in T : Text!Min(T) <= j
  BY HasLeast, Zenon DEF Text!Min

\* The beginning of a line (line_start).
LEMMA StartOf ==
    ASSUME NEW s, Whole(s), NEW c \in 0..Len(s)
    PROVE  LET a == Text!LineStart(s, c)
           IN  /\ a \in 0..c /\ Text!IsCharBoundary(s, a)
               /\ \A i \in (a + 1)..c : s[i].of # Newline
               /\ a > 0 => s[a].of = Newline
               /\ RowAt(s, a) = RowAt(s, c) /\ ColAt(s, a) = 0
               /\ ColAt(s, c) = Cardinality(Text!Chars(s, a, c))
<1> DEFINE B == {b \in Text!Breaks(s) : b < c}
           T == {0} \cup {i + 1 : i \in B}
           a == Text!LineStart(s, c)
<1>1. s \in Seq(Text!Bytes) /\ Text!IsCharBoundary(s, 0) /\ Len(s) \in Nat /\ c \in Nat
  <2>1. s \in Seq(Text!Bytes)
    BY DEF Whole
  <2>2. QED
    BY <2>1, LenProperties DEF Whole
<1>2. \A i : i \in B <=> i \in 0..(Len(s) - 1) /\ s[i + 1].of = Newline /\ i < c
  BY DEF Text!Breaks
<1> HIDE DEF B
<1>3. T \in SUBSET (0..c) /\ T # {}
  BY <1>1, <1>2
<1>4. a = Text!Max(T)
  BY DEF Text!LineStart, B
<1> HIDE DEF a
<1>5. a \in T /\ \A j \in T : a >= j
  <2> HIDE DEF T
  <2>1. QED
    BY <1>1, <1>3, <1>4, GreatestOfThem
<1>6. a \in 0..c /\ a \in 0..Len(s) /\ a \in Nat
  <2> HIDE DEF T
  <2>1. a \in 0..c
    BY <1>3, <1>5
  <2>2. QED
    BY <1>1, <2>1
<1>7. a > 0 => a \in 1..Len(s) /\ s[a].of = Newline
  <2> SUFFICES ASSUME a > 0 PROVE a \in 1..Len(s) /\ s[a].of = Newline
    OBVIOUS
  <2>1. PICK i \in B : a = i + 1
    BY <1>5
  <2>2. QED
    BY <1>2, <1>6, <2>1
<1>8. \A i \in (a + 1)..c : s[i].of # Newline
  <2> SUFFICES ASSUME NEW i \in (a + 1)..c, s[i].of = Newline PROVE FALSE
    OBVIOUS
  <2> DEFINE b == i - 1
  <2>1. b \in 0..(Len(s) - 1) /\ b + 1 = i /\ b < c /\ i > a
    BY <1>1, <1>6
  <2> HIDE DEF b
  <2>2. b \in B
    BY <1>2, <2>1
  <2>3. b + 1 \in T
    BY <2>2
  <2>4. a >= i
    BY <1>5, <2>1, <2>3
  <2>5. QED
    BY <1>6, <2>1, <2>4
<1> HIDE DEF T
<1>9. Text!IsCharBoundary(s, a) /\ ColAt(s, a) = 0
  <2>1. CASE a = 0
    BY <1>1, <2>1, Placed0
  <2>2. CASE a > 0
    BY <1>7, <2>2, PlaceStep DEF Whole
  <2>3. QED
    BY <1>6, <2>1, <2>2
<1>10. /\ RowAt(s, c) = RowAt(s, a)
       /\ ColAt(s, c) = ColAt(s, a) + Cardinality(Text!Chars(s, a, c))
       /\ Cardinality(Text!Chars(s, a, c)) \in Nat
  <2>1. a <= c /\ c <= Len(s)
    BY <1>1, <1>6
  <2>2. QED
    BY <1>1, <1>6, <1>8, <2>1, SameLine
<1>11. QED
  BY <1>6, <1>7, <1>8, <1>9, <1>10 DEF a

\* The end of a line (line_end): what is read up to it is the line.
LEMMA EndOf ==
    ASSUME NEW s, Whole(s), NEW c \in 0..Len(s)
    PROVE  LET e == Text!LineEnd(s, c)
               lines == Text!LinesOf(s)
           IN  /\ e \in c..Len(s) /\ Text!IsCharBoundary(s, e)
               /\ \A i \in (c + 1)..e : s[i].of # Newline
               /\ e < Len(s) => s[e + 1].of = Newline
               /\ RowAt(s, e) = RowAt(s, c) /\ RowAt(s, c) \in 1..Len(lines)
               /\ ColAt(s, e) = ColAt(s, c) + Cardinality(Text!Chars(s, c, e))
               /\ ColAt(s, e) = Len(lines[RowAt(s, c)])
               /\ e = Len(s) <=> RowAt(s, c) = Len(lines)
<1> DEFINE B == {b \in Text!Breaks(s) : b >= c}
           T == {Len(s)} \cup B
           e == Text!LineEnd(s, c)
           U == Text!LinesUpto(s)
           lines == Text!LinesOf(s)
<1>1. s \in Seq(Text!Bytes) /\ Len(s) \in Nat /\ c \in Nat /\ c <= Len(s)
  <2>1. s \in Seq(Text!Bytes)
    BY DEF Whole
  <2>2. QED
    BY <2>1, LenProperties
<1>2. \A i : i \in B <=> i \in 0..(Len(s) - 1) /\ s[i + 1].of = Newline /\ i >= c
  BY DEF Text!Breaks
<1> HIDE DEF B
<1>3. T \in SUBSET Nat /\ T # {} /\ \A i \in T : i \in c..Len(s)
  BY <1>1, <1>2
<1>4. e = Text!Min(T)
  BY DEF Text!LineEnd, B
<1> HIDE DEF e
<1>5. e \in T /\ \A j \in T : e <= j
  <2> HIDE DEF T
  <2>1. QED
    BY <1>1, <1>3, <1>4, LeastOfThem
<1>6. e \in c..Len(s) /\ e \in Nat /\ e \in 0..Len(s)
  BY <1>1, <1>3, <1>5
<1>7. e # Len(s) => e + 1 \in 1..Len(s) /\ s[e + 1].of = Newline
  BY <1>1, <1>2, <1>5
<1>8. \A i \in (c + 1)..e : s[i].of # Newline
  <2> SUFFICES ASSUME NEW i \in (c + 1)..e, s[i].of = Newline PROVE FALSE
    OBVIOUS
  <2> DEFINE b == i - 1
  <2>1. b \in 0..(Len(s) - 1) /\ b + 1 = i /\ b >= c /\ b < e
    BY <1>1, <1>6
  <2> HIDE DEF b
  <2>2. b \in T
    BY <1>2, <2>1
  <2>3. e <= b
    BY <1>5, <2>2
  <2>4. QED
    BY <1>6, <2>1, <2>3
<1> HIDE DEF T
<1>9. Text!IsCharBoundary(s, e)
  <2>1. CASE e = Len(s)
    BY <2>1 DEF Text!IsCharBoundary
  <2>2. CASE e # Len(s)
    <3>1. s[e + 1].nth = 1 /\ e < Len(s)
      BY <1>1, <1>6, <1>7, <2>2 DEF Whole
    <3>2. QED
      BY <3>1 DEF Text!IsCharBoundary
  <2>3. QED
    BY <2>1, <2>2
<1>10. /\ RowAt(s, e) = RowAt(s, c)
       /\ ColAt(s, e) = ColAt(s, c) + Cardinality(Text!Chars(s, c, e))
  <2>1. c <= e /\ e <= Len(s)
    BY <1>1, <1>6
  <2>2. QED
    BY <1>1, <1>6, <1>8, <2>1, SameLine
<1>11. lines = U[Len(s)]
  BY DEF Text!LinesOf
<1> HIDE DEF U, lines
<1>12. RowAt(s, c) \in Nat /\ RowAt(s, c) >= 1 /\ Len(lines) = RowAt(s, Len(s))
  BY <1>1, <1>11, Placed0 DEF RowAt, U
<1>13. CASE e = Len(s)
  <2>1. RowAt(s, c) = Len(lines) /\ ColAt(s, e) = Len(lines[RowAt(s, e)])
    BY <1>10, <1>11, <1>12, <1>13 DEF ColAt, U
  <2>2. QED
    BY <1>6, <1>7, <1>8, <1>9, <1>10, <1>12, <1>13, <2>1 DEF e, lines
<1>14. CASE e # Len(s)
  <2> DEFINE d == e + 1
             r == RowAt(s, c)
  <2>1. d \in 1..Len(s) /\ s[d].of = Newline /\ d - 1 = e /\ d \in Nat /\ d <= Len(s)
    BY <1>1, <1>6, <1>7, <1>14
  <2> HIDE DEF d
  <2>2. RowAt(s, d) = r + 1
    BY <1>10, <2>1, PlaceStep
  <2>3. /\ Len(U[d]) <= Len(U[Len(s)])
        /\ \A i \in 1..(Len(U[d]) - 1) : U[Len(s)][i] = U[d][i]
    <3>1. Len(s) <= Len(s)
      BY <1>1
    <3>2. /\ Len(Text!LinesUpto(s)[d]) <= Len(Text!LinesUpto(s)[Len(s)])
          /\ \A i \in 1..(Len(Text!LinesUpto(s)[d]) - 1) :
                Text!LinesUpto(s)[Len(s)][i] = Text!LinesUpto(s)[d][i]
      BY <1>1, <2>1, <3>1, UptoGrows
    <3>3. QED
      BY <3>2 DEF U
  <2>4. Len(U[d]) = r + 1 /\ Len(lines) >= r + 1 /\ lines[r] = U[d][r]
    <3>1. Len(U[d]) = r + 1
      BY <2>2 DEF RowAt, U
    <3> HIDE DEF r
    <3>2. r \in 1..(Len(U[d]) - 1)
      BY <1>12, <3>1 DEF r
    <3>3. QED
      BY <1>11, <2>3, <3>1, <3>2
  <2>5. U[d][r] = U[e][r]
    <3>1. U[d] = With(U[e], Newline) /\ U[e] \in Rows
      <4>1. s[d].nth = 1
        BY <2>1 DEF Whole
      <4>2. QED
        BY <1>1, <1>6, <2>1, <4>1, UptoStep DEF U
    <3>2. r = Len(U[e]) /\ Len(U[e]) \in 1..Len(U[e])
      BY <1>10, <1>12 DEF RowAt, U
    <3> HIDE DEF r
    <3>3. QED
      BY <3>1, <3>2, WithMore
  <2>6. ColAt(s, e) = Len(lines[r])
    BY <1>10, <2>4, <2>5 DEF ColAt, U
  <2>7. r \in 1..Len(lines) /\ r # Len(lines)
    <3> HIDE DEF r
    <3>1. Len(lines) \in Nat
      BY <1>1, <1>12, Placed0
    <3>2. QED
      BY <1>12, <2>4, <3>1 DEF r
  <2>8. QED
    BY <1>6, <1>7, <1>8, <1>9, <1>10, <1>14, <2>6, <2>7 DEF e, lines
<1>15. QED
  BY <1>13, <1>14

\* The character between two places next to each other.
LEMMA Adjacent ==
    ASSUME NEW s, Whole(s), NEW p \in Nat, NEW c \in Nat, p < c, c <= Len(s),
           Text!IsCharBoundary(s, p), \A i \in (p + 2)..c : s[i].nth # 1
    PROVE  LET ch == s[p + 1].of
               lines == Text!LinesOf(s)
           IN  /\ ch \in Letters \cup {Newline}
               /\ Text!LinesUpto(s)[c] = With(Text!LinesUpto(s)[p], ch)
               /\ ch # Newline => /\ RowAt(s, c) = RowAt(s, p) /\ ColAt(s, c) = ColAt(s, p) + 1
                                  /\ ColAt(s, p) < Len(lines[RowAt(s, p)])
               /\ ch = Newline => /\ RowAt(s, c) = RowAt(s, p) + 1 /\ ColAt(s, c) = 0
                                  /\ ColAt(s, p) = Len(lines[RowAt(s, p)])
                                  /\ RowAt(s, p) < Len(lines)
<1> DEFINE d == p + 1
           ch == s[d].of
           U == Text!LinesUpto(s)
           lines == Text!LinesOf(s)
<1>1. s \in Seq(Text!Bytes) /\ Len(s) \in Nat /\ p \in 0..Len(s) /\ c \in 0..Len(s) /\ p # Len(s)
  <2>1. s \in Seq(Text!Bytes)
    BY DEF Whole
  <2>2. QED
    BY <2>1, LenProperties
<1>2. s[d].nth = 1
  BY <1>1 DEF Text!IsCharBoundary
<1>3. ch \in Letters \cup {Newline} /\ U[c] = With(U[p], ch)
  BY <1>1, <1>2, UptoCharacter
<1>4. U[p] \in Rows /\ Len(U[p]) \in Nat /\ RowAt(s, p) \in Nat /\ ColAt(s, p) \in Nat
  BY <1>1, UptoStep, Placed0, RowsFacts
<1> HIDE DEF U, ch, lines
<1>5. CASE ch # Newline
  <2>1. Len(U[c]) = Len(U[p]) /\ Len(U[c][Len(U[p])]) = Len(U[p][Len(U[p])]) + 1
    BY <1>3, <1>4, <1>5, WithMore
  <2>2. RowAt(s, c) = RowAt(s, p) /\ ColAt(s, c) = ColAt(s, p) + 1
    BY <2>1 DEF RowAt, ColAt, U
  <2> DEFINE n == Cardinality(Text!Chars(s, c, Text!LineEnd(s, c)))
  <2>3. ColAt(s, c) + n = Len(lines[RowAt(s, c)])
    BY <1>1, EndOf DEF lines
  <2>4. n \in Nat
    <3> DEFINE e == Text!LineEnd(s, c)
    <3>1. e \in c..Len(s) /\ \A i \in (c + 1)..e : s[i].of # Newline
      BY <1>1, EndOf
    <3> HIDE DEF e
    <3>2. e \in Nat /\ c <= e /\ e <= Len(s)
      BY <1>1, <3>1
    <3>3. Cardinality(Text!Chars(s, c, e)) \in Nat
      BY <3>1, <3>2, SameLine
    <3>4. QED
      BY <3>3 DEF e
  <2> HIDE DEF n
  <2>5. ColAt(s, p) < Len(lines[RowAt(s, p)])
    BY <1>4, <2>2, <2>3, <2>4
  <2>6. QED
    BY <1>3, <1>5, <2>2, <2>5 DEF U, ch, lines
<1>6. CASE ch = Newline
  <2>1. /\ Len(U[c]) = Len(U[p]) + 1 /\ U[c][Len(U[p]) + 1] = <<>>
    BY <1>3, <1>4, <1>6, WithMore
  <2>2. U[c][Len(U[c])] = <<>> /\ Len(<<>>) = 0
    BY <2>1, BlankRows
  <2>3. RowAt(s, c) = RowAt(s, p) + 1 /\ ColAt(s, c) = 0
    BY <2>1, <2>2 DEF RowAt, ColAt, U
  <2> DEFINE e == Text!LineEnd(s, p)
  <2>4. /\ e \in p..Len(s) /\ \A i \in (p + 1)..e : s[i].of # Newline
        /\ RowAt(s, p) \in 1..Len(lines) /\ ColAt(s, e) = Len(lines[RowAt(s, p)])
        /\ e = Len(s) <=> RowAt(s, p) = Len(lines)
    BY <1>1, EndOf DEF lines
  <2> HIDE DEF e
  <2>5. e = p
    <3>1. ASSUME e # p PROVE FALSE
      <4>1. p + 1 \in (p + 1)..e
        BY <1>1, <2>4, <3>1
      <4>2. QED
        BY <1>6, <2>4, <4>1 DEF ch
    <3>2. QED
      BY <3>1
  <2>6. RowAt(s, p) < Len(lines)
    <3>1. Len(lines) \in Nat
      BY <1>1, Placed0 DEF lines, RowAt, Text!LinesOf
    <3>2. QED
      BY <1>1, <1>4, <2>4, <2>5, <3>1
  <2>7. QED
    BY <1>3, <1>6, <2>3, <2>4, <2>5, <2>6 DEF U, ch, lines
<1>7. QED
  BY <1>5, <1>6

\* The place a character back (prev_char_boundary).
LEMMA PrevIs ==
    ASSUME NEW s, Whole(s), NEW c \in 1..Len(s)
    PROVE  LET p == Text!PrevCharBoundary(s, c)
           IN  /\ p \in Nat /\ p < c /\ Text!IsCharBoundary(s, p)
               /\ \A i \in (p + 2)..c : s[i].nth # 1
<1> DEFINE T == {i \in 0..(c - 1) : i = 0 \/ Text!IsCharBoundary(s, i)}
           p == Text!PrevCharBoundary(s, c)
<1>1. Len(s) \in Nat /\ c \in Nat /\ c # 0 /\ c - 1 \in Nat /\ c <= Len(s)
  <2>1. s \in Seq(Text!Bytes)
    BY DEF Whole
  <2>2. QED
    BY <2>1, LenProperties
<1>2. p = Text!Max(T)
  BY <1>1 DEF Text!PrevCharBoundary
<1>3. T \in SUBSET (0..(c - 1)) /\ 0 \in T
  BY <1>1
<1> HIDE DEF p
<1>4. p \in T /\ \A j \in T : p >= j
  <2> HIDE DEF T
  <2>1. QED
    BY <1>1, <1>2, <1>3, GreatestOfThem
<1>5. p \in Nat /\ p < c /\ Text!IsCharBoundary(s, p)
  BY <1>1, <1>4 DEF Whole
<1>6. \A i \in (p + 2)..c : s[i].nth # 1
  <2> SUFFICES ASSUME NEW i \in (p + 2)..c, s[i].nth = 1 PROVE FALSE
    OBVIOUS
  <2> DEFINE j == i - 1
  <2>1. j \in 0..(c - 1) /\ j + 1 = i /\ j > p /\ j < Len(s)
    BY <1>1, <1>5
  <2> HIDE DEF j
  <2>2. j \in T
    BY <2>1 DEF Text!IsCharBoundary
  <2>3. QED
    BY <1>4, <1>5, <2>1, <2>2
<1>7. QED
  BY <1>5, <1>6 DEF p

\* The place a character on (next_char_boundary).
LEMMA NextIs ==
    ASSUME NEW s, Whole(s), NEW c \in 0..(Len(s) - 1)
    PROVE  LET n == Text!NextCharBoundary(s, c)
           IN  /\ n \in Nat /\ c < n /\ n <= Len(s) /\ Text!IsCharBoundary(s, n)
               /\ \A i \in (c + 2)..n : s[i].nth # 1
<1> DEFINE T == {i \in (c + 1)..Len(s) : Text!IsCharBoundary(s, i)}
           n == Text!NextCharBoundary(s, c)
<1>1. Len(s) \in Nat /\ c \in Nat /\ c < Len(s) /\ ~(c >= Len(s))
  <2>1. s \in Seq(Text!Bytes)
    BY DEF Whole
  <2>2. QED
    BY <2>1, LenProperties
<1>2. n = Text!Min(T)
  BY <1>1 DEF Text!NextCharBoundary
<1>3. T \in SUBSET Nat /\ Len(s) \in T
  BY <1>1 DEF Text!IsCharBoundary
<1> HIDE DEF n
<1>4. n \in T /\ \A j \in T : n <= j
  <2> HIDE DEF T
  <2>1. QED
    BY <1>2, <1>3, LeastOfThem
<1>5. n \in Nat /\ c < n /\ n <= Len(s) /\ Text!IsCharBoundary(s, n)
  BY <1>1, <1>4
<1>6. \A i \in (c + 2)..n : s[i].nth # 1
  <2> SUFFICES ASSUME NEW i \in (c + 2)..n, s[i].nth = 1 PROVE FALSE
    OBVIOUS
  <2> DEFINE j == i - 1
  <2>1. j \in (c + 1)..Len(s) /\ j + 1 = i /\ j < n /\ j < Len(s)
    BY <1>1, <1>5
  <2> HIDE DEF j
  <2>2. j \in T
    BY <2>1 DEF Text!IsCharBoundary
  <2>3. QED
    BY <1>4, <1>5, <2>1, <2>2
<1>7. QED
  BY <1>5, <1>6 DEF n

\* The two names of the library's Cardinality.
LEMMA OneCardinality ==
    ASSUME NEW S
    PROVE  Text!Cardinality(S) = Cardinality(S)
BY DEF Text!Cardinality, Cardinality

\* The place of a column in the line that begins at dest, or the line's end.
LEMMA AtColumnIs ==
    ASSUME NEW s, Whole(s), NEW dest \in 0..Len(s), Text!IsCharBoundary(s, dest),
           ColAt(s, dest) = 0, NEW column \in Nat
    PROVE  LET p == Text!AtColumn(s, dest, column)
               width == Len(Text!LinesOf(s)[RowAt(s, dest)])
           IN  /\ p \in 0..Len(s) /\ Text!IsCharBoundary(s, p)
               /\ RowAt(s, p) = RowAt(s, dest)
               /\ ColAt(s, p) = IF column <= width THEN column ELSE width
<1> DEFINE e == Text!LineEnd(s, dest)
           C(i) == Text!Chars(s, dest, i)
           M == {i \in C(e) : Cardinality(C(i)) = column}
           T == {e} \cup M
           p == Text!AtColumn(s, dest, column)
           width == Len(Text!LinesOf(s)[RowAt(s, dest)])
<1>1. s \in Seq(Text!Bytes) /\ Len(s) \in Nat /\ dest \in Nat
  <2>1. s \in Seq(Text!Bytes)
    BY DEF Whole
  <2>2. QED
    BY <2>1, LenProperties
<1>2. /\ e \in dest..Len(s) /\ Text!IsCharBoundary(s, e)
      /\ \A i \in (dest + 1)..e : s[i].of # Newline
      /\ ColAt(s, e) = width
  BY EndOf
<1>3. p = Text!Min(T)
  <2>1. M = {i \in C(e) : Text!Cardinality(C(i)) = column}
    <3> HIDE DEF e, C
    <3>1. QED
      BY OneCardinality
  <2>2. p = Text!Min({e} \cup {i \in C(e) : Text!Cardinality(C(i)) = column})
    BY DEF Text!AtColumn
  <2> HIDE DEF M, e, C, p
  <2>3. QED
    BY <2>1, <2>2
<1>4. \A i : i \in C(e) <=> i \in dest..(e - 1) /\ s[i + 1].nth = 1
  BY DEF Text!Chars
<1> HIDE DEF p, e, C, width
<1>5. e \in Nat /\ e <= Len(s)
  BY <1>1, <1>2
<1>6. ASSUME NEW i \in dest..e
      PROVE  /\ RowAt(s, i) = RowAt(s, dest) /\ ColAt(s, i) = Cardinality(C(i))
             /\ i \in 0..Len(s) /\ ColAt(s, i) \in Nat
  <2>1. i \in Nat /\ dest <= i /\ i <= Len(s) /\ i \in 0..Len(s)
    BY <1>1, <1>5
  <2>2. \A j \in (dest + 1)..i : s[j].of # Newline
    BY <1>1, <1>2, <1>5, <2>1
  <2>3. /\ RowAt(s, i) = RowAt(s, dest) /\ Cardinality(Text!Chars(s, dest, i)) \in Nat
        /\ ColAt(s, i) = ColAt(s, dest) + Cardinality(Text!Chars(s, dest, i))
    BY <1>1, <2>1, <2>2, SameLine
  <2>4. QED
    BY <2>1, <2>3 DEF C
<1>7. T \in SUBSET Nat /\ T # {} /\ \A i \in T : i \in dest..e
  BY <1>1, <1>2, <1>4, <1>5
<1>8. p \in T /\ \A j \in T : p <= j
  <2> HIDE DEF T
  <2>1. QED
    BY <1>3, <1>7, LeastOfThem
<1>9. p \in dest..e
  <2> HIDE DEF T
  <2>1. QED
    BY <1>7, <1>8
<1>10. width \in Nat
  BY <1>2, <1>6
<1>11. CASE p # e
  <2>1. p \in C(e) /\ Cardinality(C(p)) = column
    BY <1>8, <1>11
  <2> DEFINE d == p + 1
  <2>2. p \in dest..(e - 1) /\ s[d].nth = 1 /\ p < Len(s)
    BY <1>1, <1>4, <1>5, <2>1
  <2>3. Text!IsCharBoundary(s, p)
    BY <2>2 DEF Text!IsCharBoundary
  <2>4. d \in 1..Len(s) /\ d \in (dest + 1)..e /\ d - 1 = p /\ d \in dest..e
        /\ d \in Nat /\ d <= e
    BY <1>1, <1>5, <2>2
  <2>5. s[d].nth = 1
    BY <2>2
  <2> HIDE DEF d
  <2>6. ColAt(s, d) = column + 1
    <3>1. ColAt(s, d) = ColAt(s, p) + 1
      BY <1>2, <2>4, <2>5, PlaceStep
    <3>2. QED
      BY <1>6, <1>9, <2>1, <3>1
  <2>7. ColAt(s, d) <= width
    <3>1. \A j \in (d + 1)..e : s[j].of # Newline
      BY <1>1, <1>2, <1>5, <2>4
    <3>2. /\ ColAt(s, e) = ColAt(s, d) + Cardinality(Text!Chars(s, d, e))
          /\ Cardinality(Text!Chars(s, d, e)) \in Nat
      BY <1>5, <2>4, <3>1, SameLine
    <3>3. QED
      BY <1>2, <1>6, <2>4, <3>2
  <2>8. column <= width
    BY <1>10, <2>6, <2>7
  <2>9. QED
    BY <1>6, <1>9, <2>1, <2>3, <2>8 DEF p, width
<1>12. CASE p = e
  <2>1. width <= column
    <3> SUFFICES ASSUME column < width PROVE FALSE
      BY <1>10
    <3> DEFINE S == {i \in dest..e : ColAt(s, i) <= column}
    <3>1. S \in SUBSET (0..e) /\ dest \in S
      BY <1>1, <1>2, <1>5
    <3>2. PICK g \in S : \A j \in S : g >= j
      <4> HIDE DEF S
      <4>1. QED
        BY <1>5, <3>1, HasGreatestFromZero
    <3>3. g \in dest..e /\ ColAt(s, g) <= column
      BY <3>2
    <3>4. g # e
      BY <1>2, <1>10, <3>3
    <3> DEFINE d == g + 1
    <3>5. d \in dest..e /\ d \in (dest + 1)..e /\ d \in 1..Len(s) /\ d - 1 = g /\ ~(g >= d)
          /\ g \in dest..(e - 1)
      BY <1>1, <1>5, <3>3, <3>4
    <3>6. ~(ColAt(s, d) <= column)
      BY <3>2, <3>5
    <3> HIDE DEF S, d
    <3>7. /\ s[d].nth = 1 => ColAt(s, d) = ColAt(s, g) + 1
          /\ s[d].nth # 1 => ColAt(s, d) = ColAt(s, g)
      BY <1>2, <3>5, PlaceStep
    <3>8. s[d].nth = 1 /\ ColAt(s, g) = column
      BY <1>6, <3>3, <3>5, <3>6, <3>7
    <3>9. g \in C(e) /\ Cardinality(C(g)) = column
      BY <1>4, <1>6, <3>3, <3>5, <3>8 DEF d
    <3>10. p <= g
      BY <1>8, <3>9
    <3>11. QED
      BY <1>1, <1>5, <1>12, <3>5, <3>10
  <2>2. ColAt(s, p) = IF column <= width THEN column ELSE width
    BY <1>2, <1>10, <1>12, <2>1
  <2>3. QED
    BY <1>2, <1>6, <1>9, <1>12, <2>2 DEF p, width
<1>13. QED
  BY <1>11, <1>12

\* A line up or down (move_caret_vertically): the column is kept as far as the
\* other line reaches.
LEMMA VerticalIs ==
    ASSUME NEW s, Whole(s), NEW c \in 0..Len(s), NEW delta \in {-1, 1}
    PROVE  LET p == Text!MoveCaretVertically(s, c, delta)
               to == RowAt(s, c) + delta
               lines == Text!LinesOf(s)
               width == Len(lines[to])
           IN  /\ to \in 1..Len(lines) =>
                    /\ p \in 0..Len(s) /\ Text!IsCharBoundary(s, p) /\ RowAt(s, p) = to
                    /\ ColAt(s, p) = IF ColAt(s, c) <= width THEN ColAt(s, c) ELSE width
               /\ to \notin 1..Len(lines) => p = c
<1> DEFINE p == Text!MoveCaretVertically(s, c, delta)
           start == Text!LineStart(s, c)
           end == Text!LineEnd(s, c)
           column == Cardinality(Text!Chars(s, start, c))
           above == Text!LineStart(s, start - 1)
           below == end + 1
           lines == Text!LinesOf(s)
<1>1. s \in Seq(Text!Bytes) /\ Len(s) \in Nat /\ c \in Nat
  <2>1. s \in Seq(Text!Bytes)
    BY DEF Whole
  <2>2. QED
    BY <2>1, LenProperties
<1>2. /\ start \in 0..c
      /\ start > 0 => s[start].of = Newline
      /\ RowAt(s, start) = RowAt(s, c) /\ ColAt(s, c) = column
  BY StartOf
<1>3. /\ end \in c..Len(s)
      /\ end < Len(s) => s[end + 1].of = Newline
      /\ RowAt(s, end) = RowAt(s, c) /\ RowAt(s, c) \in 1..Len(lines)
      /\ end = Len(s) <=> RowAt(s, c) = Len(lines)
  BY EndOf
<1>4. /\ delta < 0 /\ start = 0 => p = c
      /\ delta < 0 /\ start > 0 => p = Text!AtColumn(s, above, column)
      /\ delta > 0 /\ end >= Len(s) => p = c
      /\ delta > 0 /\ ~(end >= Len(s)) => p = Text!AtColumn(s, below, column)
  <2> HIDE DEF start, end, column, above, below
  <2>1. p = CASE delta < 0 /\ start = 0 -> c
              [] delta < 0 /\ start > 0 -> Text!AtColumn(s, above, column)
              [] delta > 0 /\ end >= Len(s) -> c
              [] OTHER -> Text!AtColumn(s, below, column)
    <3> HIDE DEF p
    <3>1. column = Text!Cardinality(Text!Chars(s, start, c))
      BY OneCardinality DEF column
    <3> DEFINE counted == Text!Cardinality(Text!Chars(s, start, c))
    <3>2. p = CASE delta < 0 /\ start = 0 -> c
                [] delta < 0 /\ start > 0 -> Text!AtColumn(s, above, counted)
                [] delta > 0 /\ end >= Len(s) -> c
                [] OTHER -> Text!AtColumn(s, below, counted)
      BY DEF p, Text!MoveCaretVertically, start, end, above, below
    <3> HIDE DEF counted
    <3>3. counted = column
      BY <3>1 DEF counted
    <3>4. QED
      BY <3>2, <3>3
  <2> HIDE DEF p
  <2>2. ~(delta < 0 /\ delta > 0) /\ ~(start = 0 /\ start > 0)
    BY <1>2
  <2>3. QED
    BY <2>1, <2>2
<1>5. ColAt(s, c) \in Nat /\ Len(lines) \in Nat
  BY <1>1, Placed0 DEF RowAt, Text!LinesOf
<1> HIDE DEF p, start, end, column, lines
<1>6. CASE delta = -1
  <2>1. CASE start = 0
    <3>1. RowAt(s, c) = 1
      BY <1>1, <1>2, <2>1, Placed0
    <3>2. RowAt(s, c) + delta \notin 1..Len(lines) /\ delta < 0
      BY <1>5, <1>6, <3>1
    <3>3. QED
      BY <1>4, <2>1, <3>2 DEF p, lines
  <2>2. CASE start # 0
    <3> DEFINE d == start - 1
    <3>1. start \in 1..Len(s) /\ d \in 0..Len(s) /\ start > 0 /\ delta < 0
      BY <1>1, <1>2, <1>6, <2>2
    <3>2. RowAt(s, start) = RowAt(s, d) + 1
      BY <1>2, <3>1, PlaceStep
    <3>3. RowAt(s, d) \in Nat /\ RowAt(s, d) >= 1
      BY <1>1, <3>1, Placed0
    <3>4. RowAt(s, d) = RowAt(s, c) + delta
      <4> HIDE DEF d
      <4>1. QED
        BY <1>2, <1>6, <3>2, <3>3
    <3>5. /\ above \in 0..d /\ Text!IsCharBoundary(s, above)
          /\ RowAt(s, above) = RowAt(s, d) /\ ColAt(s, above) = 0
      BY <3>1, StartOf
    <3> HIDE DEF above, d
    <3>6. above \in 0..Len(s)
      BY <1>1, <3>1, <3>5
    <3>7. /\ p \in 0..Len(s) /\ Text!IsCharBoundary(s, p) /\ RowAt(s, p) = RowAt(s, above)
          /\ ColAt(s, p) = IF column <= Len(lines[RowAt(s, above)]) THEN column
                           ELSE Len(lines[RowAt(s, above)])
      <4>1. p = Text!AtColumn(s, above, column)
        BY <1>4, <3>1
      <4>2. column \in Nat
        BY <1>2, <1>5
      <4>3. QED
        BY <3>5, <3>6, <4>1, <4>2, AtColumnIs DEF lines
    <3>8. RowAt(s, c) + delta \in 1..Len(lines)
      BY <1>3, <1>5, <1>6, <3>3, <3>4
    <3>9. QED
      BY <1>2, <3>4, <3>5, <3>7, <3>8 DEF p, lines
  <2>3. QED
    BY <2>1, <2>2
<1>7. CASE delta = 1
  <2>1. CASE end = Len(s)
    <3>1. RowAt(s, c) + delta \notin 1..Len(lines) /\ delta > 0 /\ end >= Len(s)
      BY <1>1, <1>3, <1>5, <1>7, <2>1
    <3>2. QED
      BY <1>4, <3>1 DEF p, lines
  <2>2. CASE end # Len(s)
    <3>1. below \in 1..Len(s) /\ below - 1 = end /\ delta > 0 /\ ~(end >= Len(s))
      BY <1>1, <1>3, <1>7, <2>2
    <3>2. s[below].of = Newline
      BY <1>3, <3>1
    <3> HIDE DEF below
    <3>3. RowAt(s, below) = RowAt(s, end) + 1 /\ ColAt(s, below) = 0
      BY <3>1, <3>2, PlaceStep
    <3>4. Text!IsCharBoundary(s, below) /\ below \in 0..Len(s)
      BY <3>1, <3>2 DEF Whole
    <3>5. RowAt(s, below) = RowAt(s, c) + delta
      BY <1>3, <1>7, <3>3
    <3>6. /\ p \in 0..Len(s) /\ Text!IsCharBoundary(s, p) /\ RowAt(s, p) = RowAt(s, below)
          /\ ColAt(s, p) = IF column <= Len(lines[RowAt(s, below)]) THEN column
                           ELSE Len(lines[RowAt(s, below)])
      <4>1. p = Text!AtColumn(s, below, column)
        BY <1>4, <3>1
      <4>2. column \in Nat
        BY <1>2, <1>5
      <4>3. QED
        BY <3>3, <3>4, <4>1, <4>2, AtColumnIs DEF lines
    <3>7. RowAt(s, c) + delta \in 1..Len(lines)
      BY <1>3, <1>5, <1>7, <2>2
    <3>8. QED
      BY <1>2, <3>5, <3>6, <3>7 DEF p, lines
  <2>3. QED
    BY <2>1, <2>2
<1>8. QED
  BY <1>6, <1>7

-----------------------------------------------------------------------------
(* Text: a character more and a character less *)

\* The buffer y is x with a character of n bytes more at the place a.
More(x, y, a, n) ==
    /\ x \in Seq(Text!Bytes) /\ y \in Seq(Text!Bytes) /\ a \in Nat /\ n \in Nat \ {0}
    /\ a <= Len(x) /\ Len(y) = Len(x) + n /\ Text!IsCharBoundary(x, a)
    /\ \A i \in 1..a : y[i] = x[i]
    /\ \A i \in (a + 1)..Len(x) : y[i + n] = x[i]
    /\ y[a + 1].nth = 1 /\ (y[a + 1].of = Newline => n = 1)
    /\ \A i \in (a + 2)..(a + n) : y[i].nth # 1 /\ y[i].of # Newline

\* The lines of the two.
LEMMA MoreLines ==
    ASSUME NEW x, NEW y, NEW a, NEW n, More(x, y, a, n)
    PROVE  \E B \in Rows :
              /\ Text!LinesUpto(x)[a] \in Rows
              /\ Text!LinesUpto(y)[a] = Text!LinesUpto(x)[a]
              /\ Text!LinesUpto(y)[a + n] = With(Text!LinesUpto(x)[a], y[a + 1].of)
              /\ Text!LinesOf(x) = Glue(Text!LinesUpto(x)[a], B)
              /\ Text!LinesOf(y) = Glue(With(Text!LinesUpto(x)[a], y[a + 1].of), B)
              /\ y[a + 1].of \in Letters \cup {Newline}
<1> DEFINE b == SubSeq(x, a + 1, Len(x))
           k == a + n
           U == Text!LinesUpto(x)
<1>1. /\ x \in Seq(Text!Bytes) /\ y \in Seq(Text!Bytes) /\ a \in Nat /\ n \in Nat \ {0}
      /\ a <= Len(x) /\ Len(y) = Len(x) + n
      /\ \A i \in 1..a : y[i] = x[i]
      /\ \A i \in (a + 1)..Len(x) : y[i + n] = x[i]
      /\ y[a + 1].nth = 1
      /\ \A i \in (a + 2)..(a + n) : y[i].nth # 1
  BY DEF More
<1>2. Len(x) \in Nat /\ Len(y) \in Nat
  BY <1>1, LenProperties
<1>3. /\ b \in Seq(Text!Bytes) /\ Len(b) = Len(x) - a
      /\ \A i \in 1..(Len(x) - a) : b[i] = x[a + i]
  <2> DEFINE e == a + 1
  <2>1. e \in Nat /\ 1 <= e /\ e <= Len(x) + 1
    BY <1>1, <1>2
  <2> HIDE DEF e
  <2>2. /\ SubSeq(x, e, Len(x)) \in Seq(Text!Bytes)
        /\ Len(SubSeq(x, e, Len(x))) = Len(x) - e + 1
        /\ \A i \in 1..(Len(x) - e + 1) : SubSeq(x, e, Len(x))[i] = x[e + i - 1]
    <3> DEFINE S == Text!Bytes
               h == Len(x)
    <3>1. x \in Seq(S) /\ h \in Nat /\ h <= Len(x) /\ e <= h + 1
      BY <1>1, <1>2, <2>1
    <3> HIDE DEF S, h
    <3>2. /\ SubSeq(x, e, h) \in Seq(S) /\ Len(SubSeq(x, e, h)) = h - e + 1
          /\ \A i \in 1..(h - e + 1) : SubSeq(x, e, h)[i] = x[e + i - 1]
      BY <2>1, <3>1, Slice
    <3>3. QED
      BY <3>2 DEF S, h
  <2>3. Len(x) - e + 1 = Len(x) - a /\ \A i \in Nat : e + i - 1 = a + i
    BY <1>1, <1>2 DEF e
  <2>4. \A i \in 1..(Len(x) - a) : i \in Nat
    BY <1>1, <1>2
  <2>5. QED
    BY <2>2, <2>3, <2>4 DEF e
<1> HIDE DEF b
<1>4. U[a] \in Rows /\ Text!LinesUpto(y)[a] = U[a]
  <2>1. a \in 0..Len(x) /\ a \in 0..a /\ a <= Len(y)
    BY <1>1, <1>2
  <2>2. U[a] \in Rows
    BY <1>1, <2>1, UptoRows
  <2>3. Text!LinesUpto(x)[a] = Text!LinesUpto(y)[a]
    BY <1>1, <2>1, UptoSame
  <2>4. QED
    BY <2>2, <2>3
<1>5. /\ Text!LinesUpto(y)[k] = With(Text!LinesUpto(y)[a], y[a + 1].of)
      /\ y[a + 1].of \in Letters \cup {Newline}
  <2>1. k \in Nat /\ a < k /\ k <= Len(y) /\ \A i \in (a + 2)..k : y[i].nth # 1
    BY <1>1, <1>2
  <2> HIDE DEF k
  <2>2. QED
    BY <1>1, <2>1, UptoCharacter
<1>6. Text!LinesOf(x) = Glue(U[a], Text!LinesOf(b))
  <2>1. Len(x) = a + Len(b) /\ \A i \in 1..Len(b) : x[a + i] = b[i]
    BY <1>1, <1>2, <1>3
  <2>2. QED
    BY <1>1, <1>3, <2>1, UptoGlue
<1>7. Text!LinesOf(y) = Glue(Text!LinesUpto(y)[k], Text!LinesOf(b))
  <2>1. k \in Nat /\ Len(y) = k + Len(b)
    BY <1>1, <1>2, <1>3
  <2>2. ASSUME NEW i \in 1..Len(b)
        PROVE  y[k + i] = b[i]
    <3> DEFINE j == a + i
    <3>1. j \in (a + 1)..Len(x) /\ i \in 1..(Len(x) - a) /\ j + n = k + i
      BY <1>1, <1>2, <1>3
    <3>2. b[i] = x[j]
      BY <1>3, <3>1
    <3> HIDE DEF j, k
    <3>3. y[j + n] = x[j]
      BY <1>1, <3>1
    <3>4. QED
      BY <3>1, <3>2, <3>3
  <2> HIDE DEF k
  <2>3. QED
    BY <1>1, <1>3, <2>1, <2>2, UptoGlue
<1>8. Text!LinesOf(b) \in Rows
  <2>1. Len(b) \in Nat /\ Len(b) \in 0..Len(b)
    BY <1>1, <1>2, <1>3
  <2>2. QED
    BY <1>3, <2>1, UptoRows DEF Text!LinesOf
<1>9. QED
  BY <1>4, <1>5, <1>6, <1>7, <1>8

\* The one is whole characters when the other is.
LEMMA MoreWhole ==
    ASSUME NEW x, NEW y, NEW a, NEW n, More(x, y, a, n)
    PROVE  Whole(x) <=> Whole(y)
<1>1. /\ x \in Seq(Text!Bytes) /\ y \in Seq(Text!Bytes) /\ a \in Nat /\ n \in Nat \ {0}
      /\ a <= Len(x) /\ Len(y) = Len(x) + n /\ Text!IsCharBoundary(x, a)
      /\ \A i \in 1..a : y[i] = x[i]
      /\ \A i \in (a + 1)..Len(x) : y[i + n] = x[i]
      /\ y[a + 1].nth = 1 /\ (y[a + 1].of = Newline => n = 1)
      /\ \A i \in (a + 2)..(a + n) : y[i].nth # 1 /\ y[i].of # Newline
  BY DEF More
<1>2. Len(x) \in Nat /\ Len(y) \in Nat
  BY <1>1, LenProperties
<1>3. a < Len(x) => x[a + 1].nth = 1
  BY <1>1, <1>2 DEF Text!IsCharBoundary
<1>4. ASSUME NEW i \in 0..(a - 1)
      PROVE  Text!IsCharBoundary(x, i) <=> Text!IsCharBoundary(y, i)
  <2> DEFINE j == i + 1
  <2>1. j \in 1..a /\ i < Len(x) /\ i < Len(y)
    BY <1>1, <1>2
  <2>2. Text!IsCharBoundary(x, i) <=> x[j].nth = 1
    BY <1>2, <2>1 DEF Text!IsCharBoundary
  <2>3. Text!IsCharBoundary(y, i) <=> y[j].nth = 1
    BY <1>2, <2>1 DEF Text!IsCharBoundary
  <2> HIDE DEF j
  <2>4. QED
    BY <1>1, <2>1, <2>2, <2>3
<1>5. Text!IsCharBoundary(y, a)
  BY <1>1, <1>2 DEF Text!IsCharBoundary
<1>6. ASSUME NEW i \in a..Len(x)
      PROVE  Text!IsCharBoundary(x, i) <=> Text!IsCharBoundary(y, i + n)
  <2> DEFINE j == i + 1
             m == i + n
  <2>1. CASE i = Len(x)
    <3>1. i + n = Len(y)
      BY <1>1, <2>1
    <3>2. QED
      BY <2>1, <3>1 DEF Text!IsCharBoundary
  <2>2. CASE i # Len(x)
    <3>1. j \in (a + 1)..Len(x) /\ i < Len(x) /\ m < Len(y) /\ m + 1 = j + n
          /\ m # Len(y)
      BY <1>1, <1>2, <2>2
    <3>2. Text!IsCharBoundary(x, i) <=> x[j].nth = 1
      BY <1>2, <2>2, <3>1 DEF Text!IsCharBoundary
    <3> HIDE DEF j
    <3>3. Text!IsCharBoundary(y, m) <=> y[m + 1].nth = 1
      <4> HIDE DEF m
      <4>1. QED
        BY <3>1 DEF Text!IsCharBoundary
    <3>4. y[j + n] = x[j]
      BY <1>1, <3>1
    <3>5. y[m + 1] = x[j]
      BY <3>1, <3>4
    <3> HIDE DEF m
    <3>6. Text!IsCharBoundary(x, i) <=> Text!IsCharBoundary(y, m)
      BY <3>2, <3>3, <3>5
    <3>7. QED
      BY <3>6 DEF m
  <2>3. QED
    BY <2>1, <2>2
<1>7. Text!IsCharBoundary(x, 0) <=> Text!IsCharBoundary(y, 0)
  <2>1. CASE a = 0
    BY <1>1, <1>5, <2>1
  <2>2. CASE a # 0
    <3>1. 0 \in 0..(a - 1)
      BY <1>1, <2>2
    <3>2. QED
      BY <1>4, <3>1
  <2>3. QED
    BY <2>1, <2>2
<1> DEFINE Good(s, i) == s[i].of = Newline => s[i].nth = 1 /\ Text!IsCharBoundary(s, i)
<1>8. ASSUME NEW i \in 1..a
      PROVE  Good(x, i) <=> Good(y, i)
  <2>1. x[i] = y[i]
    BY <1>1
  <2>2. Text!IsCharBoundary(x, i) <=> Text!IsCharBoundary(y, i)
    <3>1. i = a \/ i \in 0..(a - 1)
      BY <1>1
    <3>2. QED
      BY <1>1, <1>4, <1>5, <3>1
  <2>3. QED
    BY <2>1, <2>2
<1>9. ASSUME NEW i \in (a + 1)..Len(x)
      PROVE  Good(x, i) <=> Good(y, i + n)
  <2>1. i \in a..Len(x)
    BY <1>1, <1>2
  <2>2. Text!IsCharBoundary(x, i) <=> Text!IsCharBoundary(y, i + n)
    BY <1>6, <2>1
  <2>3. y[i + n] = x[i]
    BY <1>1
  <2>4. QED
    BY <2>2, <2>3
<1>10. ASSUME NEW i \in (a + 1)..(a + n)
       PROVE  Good(y, i)
  <2>1. CASE i = a + 1
    <3>1. CASE y[a + 1].of = Newline
      <4>1. n = 1 /\ a \in a..Len(x)
        BY <1>1, <1>2, <3>1
      <4>2. Text!IsCharBoundary(y, a + n)
        BY <1>1, <1>6, <4>1
      <4>3. QED
        BY <1>1, <2>1, <4>1, <4>2
    <3>2. QED
      BY <2>1, <3>1
  <2>2. CASE i # a + 1
    <3>1. i \in (a + 2)..(a + n)
      BY <1>1, <2>2
    <3>2. QED
      BY <1>1, <3>1
  <2>3. QED
    BY <2>1, <2>2
<1> HIDE DEF Good
<1>11. (\A i \in 1..Len(x) : Good(x, i)) <=> (\A i \in 1..Len(y) : Good(y, i))
  <2>1. ASSUME \A i \in 1..Len(x) : Good(x, i), NEW m \in 1..Len(y)
        PROVE  Good(y, m)
    <3>1. CASE m \in 1..a
      BY <1>1, <1>2, <1>8, <2>1, <3>1
    <3>2. CASE m \in (a + 1)..(a + n)
      BY <1>10, <3>2
    <3>3. CASE m > a + n
      <4> DEFINE i == m - n
      <4>1. i \in (a + 1)..Len(x) /\ i \in 1..Len(x) /\ i + n = m
        BY <1>1, <1>2, <3>3
      <4> HIDE DEF i
      <4>2. QED
        BY <1>9, <2>1, <4>1
    <3>4. QED
      BY <1>1, <1>2, <3>1, <3>2, <3>3
  <2>2. ASSUME \A i \in 1..Len(y) : Good(y, i), NEW i \in 1..Len(x)
        PROVE  Good(x, i)
    <3>1. CASE i \in 1..a
      <4>1. i \in 1..Len(y)
        BY <1>1, <1>2
      <4>2. QED
        BY <1>8, <2>2, <3>1, <4>1
    <3>2. CASE i \notin 1..a
      <4>1. i \in (a + 1)..Len(x) /\ i + n \in 1..Len(y)
        BY <1>1, <1>2, <3>2
      <4>2. QED
        BY <1>9, <2>2, <4>1
    <3>3. QED
      BY <3>1, <3>2
  <2>3. QED
    BY <2>1, <2>2
<1>12. QED
  BY <1>1, <1>7, <1>11 DEF Whole, Good

\* The text s with the character ch at the place c.
PutInto(s, c, ch) == SubSeq(s, 1, c) \o Text!Encoded(ch) \o SubSeq(s, c + 1, Len(s))

\* A character put in at the caret (insert_at_caret).
LEMMA InsertMore ==
    ASSUME NEW s, Whole(s), NEW c \in 0..Len(s), Text!IsCharBoundary(s, c),
           NEW ch \in Letters \cup {Newline}
    PROVE  LET n == Len(Text!Encoded(ch))
               y == PutInto(s, c, ch)
           IN  /\ More(s, y, c, n) /\ y[c + 1].of = ch
               /\ c + n \in 0..Len(y) /\ Text!IsCharBoundary(y, c + n)
<1> DEFINE E == Text!Encoded(ch)
           A == SubSeq(s, 1, c)
           B == SubSeq(s, c + 1, Len(s))
           y == A \o E \o B
           n == Len(E)
           S == Text!Bytes
<1>1. s \in Seq(S) /\ Len(s) \in Nat /\ c \in Nat /\ c <= Len(s)
  <2>1. s \in Seq(Text!Bytes)
    BY DEF Whole
  <2>2. QED
    BY <2>1, LenProperties
<1>2. /\ E \in Seq(S) /\ n \in Nat \ {0} /\ (ch = Newline => n = 1)
      /\ \A i \in 1..n : E[i] = [of |-> ch, nth |-> i]
  <2> DEFINE w == IF ch = Newline THEN 1 ELSE Width[ch]
  <2>1. w \in 1..4 /\ (ch = Newline => w = 1)
    BY EditingAssumption
  <2>2. E = [i \in 1..w |-> [of |-> ch, nth |-> i]]
    BY DEF Text!Encoded
  <2> HIDE DEF w
  <2>3. \A i \in 1..w : [of |-> ch, nth |-> i] \in Text!Bytes
    BY <2>1 DEF Text!Bytes
  <2> HIDE DEF E, S
  <2>4. E \in [1..w -> S] /\ w \in Nat
    BY <2>1, <2>2, <2>3 DEF S
  <2>5. E \in Seq(S)
    BY <2>4, SeqDef
  <2>6. Len(E) = w
    <3>1. DOMAIN E = 1..w
      BY <2>2
    <3>2. QED
      BY <2>4, <2>5, <3>1, LenProperties
  <2>7. QED
    BY <2>1, <2>2, <2>5, <2>6
<1>3. A \in Seq(S) /\ Len(A) = c /\ \A i \in 1..c : A[i] = s[i]
  <2> HIDE DEF S
  <2>1. 1 \in Nat /\ 1 <= c + 1 /\ 1 <= 1
    BY <1>1
  <2>2. /\ SubSeq(s, 1, c) \in Seq(S) /\ Len(SubSeq(s, 1, c)) = c - 1 + 1
        /\ \A i \in 1..(c - 1 + 1) : SubSeq(s, 1, c)[i] = s[1 + i - 1]
    BY <1>1, <2>1, Slice
  <2>3. c - 1 + 1 = c /\ \A i \in 1..c : 1 + i - 1 = i
    BY <1>1
  <2>4. QED
    BY <2>2, <2>3
<1>4. B \in Seq(S) /\ Len(B) = Len(s) - c /\ \A i \in 1..(Len(s) - c) : B[i] = s[c + i]
  <2> DEFINE e == c + 1
             h == Len(s)
  <2>1. e \in Nat /\ 1 <= e /\ e <= h + 1 /\ h \in Nat /\ h <= Len(s)
    BY <1>1
  <2>2. h - e + 1 = h - c /\ \A i \in 1..(h - c) : e + i - 1 = c + i
    BY <1>1
  <2> HIDE DEF S, e, h
  <2>3. /\ SubSeq(s, e, h) \in Seq(S) /\ Len(SubSeq(s, e, h)) = h - e + 1
        /\ \A i \in 1..(h - e + 1) : SubSeq(s, e, h)[i] = s[e + i - 1]
    BY <1>1, <2>1, Slice
  <2>4. QED
    BY <2>2, <2>3 DEF e, h
<1> HIDE DEF E, A, B, S
<1>5. /\ A \o E \in Seq(S) /\ Len(A \o E) = c + n
      /\ \A i \in 1..c : (A \o E)[i] = A[i]
      /\ \A i \in 1..n : (A \o E)[c + i] = E[i]
  <2>1. /\ A \o E \in Seq(S) /\ Len(A \o E) = Len(A) + Len(E)
        /\ \A i \in 1..Len(A) : (A \o E)[i] = A[i]
        /\ \A i \in 1..Len(E) : (A \o E)[Len(A) + i] = E[i]
    <3>1. A \in Seq(S) /\ E \in Seq(S)
      BY <1>2, <1>3
    <3>2. QED
      BY ONLY <3>1, Halves
  <2>2. QED
    BY <1>3, <2>1
<1>6. /\ y \in Seq(S) /\ Len(y) = c + n + (Len(s) - c)
      /\ \A i \in 1..(c + n) : y[i] = (A \o E)[i]
      /\ \A i \in 1..(Len(s) - c) : y[c + n + i] = B[i]
  <2> DEFINE D == A \o E
  <2> HIDE DEF D, n
  <2>1. /\ D \o B \in Seq(S) /\ Len(D \o B) = Len(D) + Len(B)
        /\ \A i \in 1..Len(D) : (D \o B)[i] = D[i]
        /\ \A i \in 1..Len(B) : (D \o B)[Len(D) + i] = B[i]
    <3>1. D \in Seq(S) /\ B \in Seq(S)
      BY <1>4, <1>5 DEF D
    <3>2. QED
      BY ONLY <3>1, Halves
  <2>2. Len(D) = c + n
    BY <1>5 DEF D
  <2>3. QED
    BY <1>4, <2>1, <2>2 DEF D
<1> HIDE DEF y, n
<1>7. Len(y) = Len(s) + n
  BY <1>1, <1>2, <1>6
<1>8. \A i \in 1..c : y[i] = s[i]
  <2>1. \A i \in 1..c : i \in 1..(c + n)
    BY <1>1, <1>2
  <2>2. QED
    BY <1>3, <1>5, <1>6, <2>1
<1>9. \A i \in 1..n : y[c + i] = [of |-> ch, nth |-> i]
  <2>1. \A i \in 1..n : c + i \in 1..(c + n)
    BY <1>1, <1>2
  <2>2. QED
    BY <1>2, <1>5, <1>6, <2>1
<1>10. ASSUME NEW i \in (c + 1)..Len(s)
       PROVE  y[i + n] = s[i]
  <2> DEFINE j == i - c
  <2>1. j \in 1..(Len(s) - c) /\ c + n + j = i + n /\ c + j = i
    BY <1>1, <1>2
  <2> HIDE DEF j
  <2>2. y[c + n + j] = s[c + j]
    BY <1>4, <1>6, <2>1
  <2>3. QED
    BY <2>1, <2>2
<1>11. y[c + 1].of = ch /\ y[c + 1].nth = 1
  <2>1. 1 \in 1..n
    BY <1>2
  <2>2. y[c + 1] = [of |-> ch, nth |-> 1]
    BY <1>9, <2>1
  <2>3. QED
    BY <2>2
<1>12. ASSUME NEW i \in (c + 2)..(c + n)
       PROVE  y[i].nth # 1 /\ y[i].of # Newline
  <2> DEFINE j == i - c
  <2>1. j \in 1..n /\ c + j = i /\ j # 1 /\ n # 1
    BY <1>1, <1>2
  <2> HIDE DEF j
  <2>2. y[c + j] = [of |-> ch, nth |-> j]
    BY <1>9, <2>1
  <2>3. y[i] = [of |-> ch, nth |-> j]
    BY <2>1, <2>2
  <2>4. y[i].of = ch /\ y[i].nth = j
    BY <2>3
  <2>5. QED
    BY <1>2, <2>1, <2>4
<1>13. More(s, y, c, n)
  BY <1>1, <1>2, <1>6, <1>7, <1>8, <1>10, <1>11, <1>12 DEF More, S
<1>14. c + n \in 0..Len(y)
  BY <1>1, <1>2, <1>7
<1>15. Text!IsCharBoundary(y, c + n)
  <2>1. CASE c = Len(s)
    <3>1. c + n = Len(y)
      BY <1>7, <2>1
    <3>2. QED
      BY <3>1 DEF Text!IsCharBoundary
  <2>2. CASE c # Len(s)
    <3> DEFINE d == c + 1
               m == c + n
    <3>1. d \in (c + 1)..Len(s) /\ m < Len(y) /\ m + 1 = d + n
      BY <1>1, <1>2, <1>7, <2>2
    <3>2. s[d].nth = 1
      BY <1>1, <2>2 DEF Text!IsCharBoundary
    <3>3. y[d + n] = s[d]
      <4> HIDE DEF d
      <4>1. QED
        BY <1>10, <3>1
    <3> HIDE DEF d, m
    <3>4. y[m + 1].nth = 1
      BY <3>1, <3>2, <3>3
    <3>5. Text!IsCharBoundary(y, m)
      BY <3>1, <3>4 DEF Text!IsCharBoundary
    <3>6. QED
      BY <3>5 DEF m
  <2>3. QED
    BY <2>1, <2>2
<1>16. y = PutInto(s, c, ch)
  BY DEF PutInto, y, A, B, E
<1>17. QED
  BY <1>11, <1>13, <1>14, <1>15, <1>16 DEF n, E

\* A character taken out (String::drain).
LEMMA CutMore ==
    ASSUME NEW s, Whole(s), NEW p \in Nat, NEW c \in Nat, p < c, c <= Len(s),
           Text!IsCharBoundary(s, p), Text!IsCharBoundary(s, c),
           \A i \in (p + 2)..c : s[i].nth # 1
    PROVE  LET x == Text!Cut(s, p, c)
           IN  More(x, s, p, c - p) /\ p \in 0..Len(x) /\ Text!IsCharBoundary(x, p)
<1> DEFINE A == SubSeq(s, 1, p)
           B == SubSeq(s, c + 1, Len(s))
           x == Text!Cut(s, p, c)
           n == c - p
           S == Text!Bytes
<1>1. s \in Seq(S) /\ Len(s) \in Nat /\ n \in Nat \ {0} /\ p + n = c
  <2>1. s \in Seq(Text!Bytes)
    BY DEF Whole
  <2>2. QED
    BY <2>1, LenProperties
<1>2. A \in Seq(S) /\ Len(A) = p /\ \A i \in 1..p : A[i] = s[i]
  <2> HIDE DEF S
  <2>1. 1 \in Nat /\ 1 <= p + 1 /\ 1 <= 1 /\ p <= Len(s)
    BY <1>1
  <2>2. /\ SubSeq(s, 1, p) \in Seq(S) /\ Len(SubSeq(s, 1, p)) = p - 1 + 1
        /\ \A i \in 1..(p - 1 + 1) : SubSeq(s, 1, p)[i] = s[1 + i - 1]
    BY <1>1, <2>1, Slice
  <2>3. p - 1 + 1 = p /\ \A i \in 1..p : 1 + i - 1 = i
    BY <1>1
  <2>4. QED
    BY <2>2, <2>3
<1>3. B \in Seq(S) /\ Len(B) = Len(s) - c /\ \A i \in 1..(Len(s) - c) : B[i] = s[c + i]
  <2> DEFINE e == c + 1
             h == Len(s)
  <2>1. e \in Nat /\ 1 <= e /\ e <= h + 1 /\ h \in Nat /\ h <= Len(s)
    BY <1>1
  <2>2. h - e + 1 = h - c /\ \A i \in 1..(h - c) : e + i - 1 = c + i
    BY <1>1
  <2> HIDE DEF S, e, h
  <2>3. /\ SubSeq(s, e, h) \in Seq(S) /\ Len(SubSeq(s, e, h)) = h - e + 1
        /\ \A i \in 1..(h - e + 1) : SubSeq(s, e, h)[i] = s[e + i - 1]
    BY <1>1, <2>1, Slice
  <2>4. QED
    BY <2>2, <2>3 DEF e, h
<1> HIDE DEF A, B, S
<1>4. /\ x \in Seq(S) /\ Len(x) = p + (Len(s) - c)
      /\ \A i \in 1..p : x[i] = s[i]
      /\ \A i \in 1..(Len(s) - c) : x[p + i] = s[c + i]
  <2>1. x = A \o B
    BY DEF Text!Cut, A, B
  <2>2. /\ A \o B \in Seq(S) /\ Len(A \o B) = Len(A) + Len(B)
        /\ \A i \in 1..Len(A) : (A \o B)[i] = A[i]
        /\ \A i \in 1..Len(B) : (A \o B)[Len(A) + i] = B[i]
    <3>1. A \in Seq(S) /\ B \in Seq(S)
      BY <1>2, <1>3
    <3>2. QED
      BY ONLY <3>1, Halves
  <2> HIDE DEF x
  <2>3. QED
    BY <1>2, <1>3, <2>1, <2>2
<1> HIDE DEF x
<1>5. Len(x) \in Nat /\ Len(s) = Len(x) + n /\ p <= Len(x) /\ p \in 0..Len(x)
  BY <1>1, <1>4
<1>6. ASSUME NEW i \in (p + 1)..Len(x)
      PROVE  s[i + n] = x[i]
  <2> DEFINE j == i - p
  <2>1. j \in 1..(Len(s) - c) /\ p + j = i /\ c + j = i + n
    BY <1>1, <1>4
  <2> HIDE DEF j, n
  <2>2. x[p + j] = s[c + j]
    BY <1>4, <2>1
  <2>3. QED
    BY <2>1, <2>2
<1>7. Text!IsCharBoundary(x, p)
  <2>1. CASE p = Len(x)
    BY <2>1 DEF Text!IsCharBoundary
  <2>2. CASE p # Len(x)
    <3> DEFINE d == p + 1
    <3>1. d \in (p + 1)..Len(x) /\ d + n = c + 1 /\ c < Len(s)
      BY <1>1, <1>5, <2>2
    <3>2. s[c + 1].nth = 1
      BY <3>1, <1>1 DEF Text!IsCharBoundary
    <3> HIDE DEF d, n
    <3>3. s[d + n] = x[d]
      BY <1>6, <3>1
    <3>4. x[d].nth = 1
      BY <3>1, <3>2, <3>3
    <3>5. QED
      BY <1>5, <2>2, <3>4 DEF Text!IsCharBoundary, d
  <2>3. QED
    BY <2>1, <2>2
<1>8. s[p + 1].nth = 1 /\ p # Len(s)
  BY <1>1 DEF Text!IsCharBoundary
<1>9. \A i \in 1..Len(s) : s[i].of = Newline => s[i].nth = 1 /\ Text!IsCharBoundary(s, i)
  BY DEF Whole
<1>10. s[p + 1].of = Newline => n = 1
  <2> SUFFICES ASSUME s[p + 1].of = Newline, n # 1 PROVE FALSE
    OBVIOUS
  <2> DEFINE d == p + 1
  <2>1. d \in 1..Len(s) /\ d # Len(s) /\ d + 1 \in (p + 2)..c
    BY <1>1
  <2>2. Text!IsCharBoundary(s, d)
    BY <1>9, <2>1
  <2> HIDE DEF d
  <2>3. s[d + 1].nth = 1
    BY <2>1, <2>2 DEF Text!IsCharBoundary
  <2>4. QED
    BY <2>1, <2>3
<1>11. \A i \in (p + 2)..c : s[i].nth # 1 /\ s[i].of # Newline
  <2>1. \A i \in (p + 2)..c : i \in 1..Len(s)
    BY <1>1
  <2>2. QED
    BY <1>9, <2>1
<1>12. \A i \in 1..p : s[i] = x[i]
  BY <1>4
<1>13. \A i \in (p + 2)..(p + n) : s[i].nth # 1 /\ s[i].of # Newline
  BY <1>1, <1>11
<1> HIDE DEF n
<1>14. More(x, s, p, n)
  BY <1>1, <1>4, <1>5, <1>6, <1>7, <1>8, <1>10, <1>12, <1>13 DEF More, S
<1>15. QED
  BY <1>5, <1>7, <1>14 DEF x, n

\* The keys on lines: a letter put in behind column k of line r, its letter i
\* taken out, the line broken, and the line with the next one behind it.
LetterIn(t, r, k, l) == [t EXCEPT ![r] = InsertAt(@, k + 1, l)]

LetterOut(t, r, i) == [t EXCEPT ![r] = RemoveAt(@, i)]

Broken(t, r, k) ==
    SubSeq(t, 1, r - 1) \o << SubSeq(t[r], 1, k), SubSeq(t[r], k + 1, Len(t[r])) >>
        \o SubSeq(t, r + 1, Len(t))

Join(t, r) == ReplaceAt(RemoveAt(t, r + 1), r, t[r] \o t[r + 1])

\* What both show: the longer text is the shorter one with a letter put in at
\* its place, or with a line broken there.
LEMMA MoreShown ==
    ASSUME NEW x, NEW y, NEW a, NEW n, More(x, y, a, n)
    PROVE  LET X == Text!LinesOf(x)
               Y == Text!LinesOf(y)
               r == RowAt(x, a)
               k == ColAt(x, a)
               ch == y[a + 1].of
           IN  /\ X \in Rows /\ Y \in Rows /\ ch \in Letters \cup {Newline}
               /\ RowAt(y, a) = r /\ ColAt(y, a) = k
               /\ ch # Newline =>
                    /\ Y = LetterIn(X, r, k, ch) /\ X = LetterOut(Y, r, k + 1)
                    /\ RowAt(y, a + n) = r /\ ColAt(y, a + n) = k + 1
               /\ ch = Newline =>
                    /\ Y = Broken(X, r, k) /\ X = Join(Y, r) /\ Len(Y[r]) = k
                    /\ RowAt(y, a + n) = r + 1 /\ ColAt(y, a + n) = 0
<1> DEFINE X == Text!LinesOf(x)
           Y == Text!LinesOf(y)
           r == RowAt(x, a)
           k == ColAt(x, a)
           ch == y[a + 1].of
           t == Text!LinesUpto(x)[a]
           v == Text!LinesUpto(y)[a + n]
<1>1. PICK B \in Rows :
          /\ t \in Rows /\ Text!LinesUpto(y)[a] = t /\ v = With(t, ch)
          /\ X = Glue(t, B) /\ Y = Glue(With(t, ch), B)
          /\ ch \in Letters \cup {Newline}
  BY MoreLines
<1>2. r = Len(t) /\ k = Len(t[r]) /\ RowAt(y, a) = r /\ ColAt(y, a) = k
  BY <1>1 DEF RowAt, ColAt
<1>3. RowAt(y, a + n) = Len(v) /\ ColAt(y, a + n) = Len(v[Len(v)])
  BY DEF RowAt, ColAt
<1> HIDE DEF X, Y, r, k, ch, t, v
<1>4. v \in Rows /\ X \in Rows /\ Y \in Rows
  BY <1>1, WithMore, Glued
<1>5. CASE ch # Newline
  <2>1. ch \in Letters
    BY <1>1, <1>5
  <2>2. /\ Glue(With(t, ch), B)
              = [Glue(t, B) EXCEPT ![Len(t)] = InsertAt(@, Len(t[Len(t)]) + 1, ch)]
        /\ Glue(t, B) = [Glue(With(t, ch), B) EXCEPT ![Len(t)] = RemoveAt(@, Len(t[Len(t)]) + 1)]
    BY <1>1, <2>1, LetterPutIn
  <2>3. Y = LetterIn(X, r, k, ch) /\ X = LetterOut(Y, r, k + 1)
    BY <1>1, <1>2, <2>2, Zenon DEF LetterIn, LetterOut
  <2>4. Len(v) = Len(t) /\ Len(v[Len(t)]) = Len(t[Len(t)]) + 1
    BY <1>1, <1>5, WithMore
  <2>5. RowAt(y, a + n) = r /\ ColAt(y, a + n) = k + 1
    BY <1>2, <1>3, <2>4
  <2>6. QED
    BY <1>1, <1>2, <1>4, <1>5, <2>3, <2>5 DEF X, Y, r, k, ch
<1>6. CASE ch = Newline
  <2> DEFINE m == Len(t)
             g == Glue(t, B)
             h == Glue(With(t, Newline), B)
  <2>1. /\ h = SubSeq(g, 1, m - 1)
                \o << SubSeq(g[m], 1, Len(t[m])), SubSeq(g[m], Len(t[m]) + 1, Len(g[m])) >>
                \o SubSeq(g, m + 1, Len(g))
        /\ g = ReplaceAt(RemoveAt(h, m + 1), m, h[m] \o h[m + 1])
        /\ h[m] = t[m]
    BY <1>1, NewlinePutIn
  <2>2. g = X /\ h = Y /\ m = r /\ Len(t[m]) = k
    BY <1>1, <1>2, <1>6
  <2> HIDE DEF g, h, m
  <2>3. Y = Broken(X, r, k) /\ X = Join(Y, r) /\ Len(Y[r]) = k
    BY <2>1, <2>2, Zenon DEF Broken, Join
  <2>4. Len(v) = Len(t) + 1 /\ v[Len(t) + 1] = <<>>
    BY <1>1, <1>6, WithMore
  <2>5. Len(v) = r + 1 /\ v[Len(v)] = <<>> /\ Len(<<>>) = 0
    BY <1>2, <2>4, BlankRows
  <2>6. RowAt(y, a + n) = r + 1 /\ ColAt(y, a + n) = 0
    BY <1>3, <2>5
  <2>7. QED
    BY <1>1, <1>2, <1>4, <1>6, <2>3, <2>6 DEF X, Y, r, k, ch
<1>7. QED
  BY <1>5, <1>6

-----------------------------------------------------------------------------
(* Text: the keys *)

\* The two names of the library's Last.
LEMMA OneLast ==
    ASSUME NEW s
    PROVE  Lines!Last(s) = Last(s) /\ Text!Last(s) = Last(s)
BY DEF Lines!Last, Text!Last, Last

\* The edit is of whole characters, and the caret is between two of them.
InPlace(pt) ==
    /\ pt \in Text!PendingText /\ Whole(pt.buffer)
    /\ pt.caret \in 0..Len(pt.buffer) /\ Text!IsCharBoundary(pt.buffer, pt.caret)

\* The edit pt shows the lines t and the caret in column c of line r.
Displays(pt, t, r, c) ==
    /\ InPlace(pt) /\ pt.caret_visible = TRUE
    /\ Text!LinesOf(pt.buffer) = t /\ RowAt(pt.buffer, pt.caret) = r
    /\ ColAt(pt.buffer, pt.caret) = c

\* The edit q has the text s and the caret c, which shows.
Becomes(q, s, c) ==
    /\ q.buffer = s /\ q.caret = c /\ q.caret_visible = TRUE
    /\ s \in Seq(Text!Bytes) /\ c \in Nat => q \in Text!PendingText

\* A text and a caret make an edit.
LEMMA BecomesIs ==
    ASSUME NEW s, Whole(s), NEW c \in 0..Len(s), Text!IsCharBoundary(s, c), NEW t, NEW r, NEW k,
           Text!LinesOf(s) = t, RowAt(s, c) = r, ColAt(s, c) = k, NEW q, Becomes(q, s, c)
    PROVE  Displays(q, t, r, k)
<1>1. s \in Seq(Text!Bytes) /\ Len(s) \in Nat
  <2>1. s \in Seq(Text!Bytes)
    BY DEF Whole
  <2>2. QED
    BY <2>1, LenProperties
<1>2. c \in Nat
  BY <1>1
<1>3. q.buffer = s /\ q.caret = c /\ q.caret_visible = TRUE /\ q \in Text!PendingText
  BY <1>1, <1>2 DEF Becomes
<1>4. QED
  BY <1>3 DEF Displays, InPlace

\* The fields of an edit written over.
LEMMA Written ==
    ASSUME NEW pt \in Text!PendingText, NEW b, NEW n
    PROVE  /\ Becomes([[pt EXCEPT !.caret = n] EXCEPT !.caret_visible = TRUE], pt.buffer, n)
           /\ Becomes([[pt EXCEPT !.buffer = b] EXCEPT !.caret_visible = TRUE], b, pt.caret)
           /\ Becomes([[[pt EXCEPT !.caret = n] EXCEPT !.buffer = b] EXCEPT !.caret_visible = TRUE],
                      b, n)
           /\ Becomes([[pt EXCEPT !.buffer = b, !.caret = n] EXCEPT !.caret_visible = TRUE], b, n)
<1> DEFINE T == Seq(Text!Bytes)
<1>1. pt \in [buffer : T, caret : Nat, caret_visible : BOOLEAN]
  BY DEF Text!PendingText
<1>2. \A q, s, c :
        /\ q.buffer = s /\ q.caret = c /\ q.caret_visible = TRUE
        /\ s \in T /\ c \in Nat => q \in [buffer : T, caret : Nat, caret_visible : BOOLEAN]
        => Becomes(q, s, c)
  BY DEF Becomes, Text!PendingText
<1> HIDE DEF T
<1>3. Becomes([[pt EXCEPT !.caret = n] EXCEPT !.caret_visible = TRUE], pt.buffer, n)
  BY <1>1, <1>2
<1>4. Becomes([[pt EXCEPT !.buffer = b] EXCEPT !.caret_visible = TRUE], b, pt.caret)
  BY <1>1, <1>2
<1>5. Becomes([[[pt EXCEPT !.caret = n] EXCEPT !.buffer = b] EXCEPT !.caret_visible = TRUE], b, n)
  BY <1>1, <1>2
<1>6. Becomes([[pt EXCEPT !.buffer = b, !.caret = n] EXCEPT !.caret_visible = TRUE], b, n)
  BY <1>1, <1>2
<1>7. QED
  BY <1>3, <1>4, <1>5, <1>6

\* What each key does to the buffer and to the caret.
LEMMA EditedIs ==
    ASSUME NEW pt \in Text!PendingText
    PROVE  LET s == pt.buffer
               c == pt.caret
               prev == Text!PrevCharBoundary(s, c)
               next == Text!NextCharBoundary(s, c)
               Put(q, ch) == Becomes(q, PutInto(s, c, ch), c + Len(Text!Encoded(ch)))
           IN  /\ \A l \in Letters : Put(Text!Edited(pt, l), l)
               /\ Put(Text!Edited(pt, "ShiftEnter"), Newline)
               /\ Becomes(Text!Edited(pt, "Backspace"), Text!Cut(s, prev, c), prev)
               /\ Becomes(Text!Edited(pt, "Delete"), Text!Cut(s, c, next), c)
               /\ Becomes(Text!Edited(pt, "Left"), s, prev)
               /\ Becomes(Text!Edited(pt, "Right"), s, next)
               /\ Becomes(Text!Edited(pt, "Home"), s, Text!LineStart(s, c))
               /\ Becomes(Text!Edited(pt, "End"), s, Text!LineEnd(s, c))
               /\ Becomes(Text!Edited(pt, "Up"), s, Text!MoveCaretVertically(s, c, -1))
               /\ Becomes(Text!Edited(pt, "Down"), s, Text!MoveCaretVertically(s, c, 1))
<1> DEFINE s == pt.buffer
           c == pt.caret
           prev == Text!PrevCharBoundary(s, c)
           next == Text!NextCharBoundary(s, c)
           To(n) == [pt EXCEPT !.caret = n]
           up == Text!MoveCaretVertically(s, c, -1)
           down == Text!MoveCaretVertically(s, c, 1)
           home == Text!LineStart(s, c)
           end == Text!LineEnd(s, c)
           after(key) ==
              CASE key \in Letters -> Text!InsertAtCaret(pt, key)
                [] key = "ShiftEnter" -> Text!InsertAtCaret(pt, Newline)
                [] key = "Backspace" -> [To(prev) EXCEPT !.buffer = Text!Cut(s, prev, c)]
                [] key = "Delete" -> [pt EXCEPT !.buffer = Text!Cut(s, c, next)]
                [] key = "Left" -> To(prev)
                [] key = "Right" -> To(next)
                [] key = "Home" -> To(home)
                [] key = "End" -> To(end)
                [] key = "Up" -> To(up)
                [] key = "Down" -> To(down)
           Seen(q) == [q EXCEPT !.caret_visible = TRUE]
<1>1. \A key : Text!Edited(pt, key) = Seen(after(key))
  BY DEF Text!Edited
<1>2. \A key \in Text!NamedKeys : key \notin Letters
  BY EditingAssumption
<1>3. /\ "ShiftEnter" \notin Letters /\ "Backspace" \notin Letters /\ "Delete" \notin Letters
      /\ "Left" \notin Letters /\ "Right" \notin Letters /\ "Home" \notin Letters
      /\ "End" \notin Letters /\ "Up" \notin Letters /\ "Down" \notin Letters
  BY <1>2 DEF Text!NamedKeys
<1> HIDE DEF prev, next, up, down, home, end, To, s, c
<1>4. \A l \in Letters : after(l) = Text!InsertAtCaret(pt, l)
  <2>1. ASSUME NEW l \in Letters PROVE after(l) = Text!InsertAtCaret(pt, l)
    <3>1. l # "ShiftEnter" /\ l # "Backspace" /\ l # "Delete" /\ l # "Left" /\ l # "Right"
          /\ l # "Home" /\ l # "End" /\ l # "Up" /\ l # "Down"
      BY <1>3
    <3>2. QED
      BY <3>1
  <2>2. QED
    BY <2>1
<1>5. after("ShiftEnter") = Text!InsertAtCaret(pt, Newline)
  BY <1>3
<1>6. after("Backspace") = [To(prev) EXCEPT !.buffer = Text!Cut(s, prev, c)]
  BY <1>3
<1>7. after("Delete") = [pt EXCEPT !.buffer = Text!Cut(s, c, next)]
  BY <1>3
<1>8. after("Left") = To(prev) /\ after("Right") = To(next)
  BY <1>3
<1>9. after("Home") = To(home) /\ after("End") = To(end)
  BY <1>3
<1>10. after("Up") = To(up) /\ after("Down") = To(down)
  BY <1>3
<1> HIDE DEF after
<1>12. \A n : Becomes(Seen(To(n)), s, n)
  BY Written DEF To, s
<1>13. \A b, n : Becomes(Seen([To(n) EXCEPT !.buffer = b]), b, n)
  BY Written DEF To
<1>14. \A b : Becomes(Seen([pt EXCEPT !.buffer = b]), b, c)
  BY Written DEF c
<1>15. ASSUME NEW ch
       PROVE  Becomes(Seen(Text!InsertAtCaret(pt, ch)), PutInto(s, c, ch),
                      c + Len(Text!Encoded(ch)))
  <2> DEFINE b == PutInto(s, c, ch)
             n == c + Len(Text!Encoded(ch))
  <2>1. Text!InsertAtCaret(pt, ch) = [pt EXCEPT !.buffer = b, !.caret = n]
    BY DEF Text!InsertAtCaret, PutInto, s, c
  <2> HIDE DEF b, n
  <2>2. Becomes(Seen([pt EXCEPT !.buffer = b, !.caret = n]), b, n)
    BY Written
  <2> HIDE DEF Seen
  <2>3. QED
    BY <2>1, <2>2 DEF b, n
<1> HIDE DEF Seen
<1>16. \A l \in Letters :
          Becomes(Text!Edited(pt, l), PutInto(s, c, l), c + Len(Text!Encoded(l)))
  BY <1>1, <1>4, <1>15, Zenon
<1>17. Becomes(Text!Edited(pt, "ShiftEnter"), PutInto(s, c, Newline),
               c + Len(Text!Encoded(Newline)))
  BY <1>1, <1>5, <1>15, Zenon
<1>18. /\ Becomes(Text!Edited(pt, "Backspace"), Text!Cut(s, prev, c), prev)
       /\ Becomes(Text!Edited(pt, "Delete"), Text!Cut(s, c, next), c)
  <2>1. Becomes(Text!Edited(pt, "Backspace"), Text!Cut(s, prev, c), prev)
    BY <1>1, <1>6, <1>13
  <2>2. Becomes(Text!Edited(pt, "Delete"), Text!Cut(s, c, next), c)
    BY <1>1, <1>7, <1>14
  <2>3. QED
    BY <2>1, <2>2
<1>19. /\ Becomes(Text!Edited(pt, "Left"), s, prev) /\ Becomes(Text!Edited(pt, "Right"), s, next)
       /\ Becomes(Text!Edited(pt, "Home"), s, home) /\ Becomes(Text!Edited(pt, "End"), s, end)
       /\ Becomes(Text!Edited(pt, "Up"), s, up) /\ Becomes(Text!Edited(pt, "Down"), s, down)
  BY <1>1, <1>8, <1>9, <1>10, <1>12, Zenon
<1>20. QED
  BY <1>16, <1>17, <1>18, <1>19, Zenon DEF s, c, prev, next, up, down, home, end

\* A character is put in.
LEMMA PutIs ==
    ASSUME NEW s, Whole(s), NEW c \in 0..Len(s), Text!IsCharBoundary(s, c),
           NEW ch \in Letters \cup {Newline}, NEW q,
           Becomes(q, PutInto(s, c, ch), c + Len(Text!Encoded(ch)))
    PROVE  LET t == Text!LinesOf(s)
               r == RowAt(s, c)
               k == ColAt(s, c)
           IN  /\ ch # Newline => Displays(q, LetterIn(t, r, k, ch), r, k + 1)
               /\ ch = Newline => Displays(q, Broken(t, r, k), r + 1, 0)
<1> DEFINE t == Text!LinesOf(s)
           r == RowAt(s, c)
           k == ColAt(s, c)
           n == Len(Text!Encoded(ch))
           y == PutInto(s, c, ch)
<1>1. /\ More(s, y, c, n) /\ y[c + 1].of = ch
      /\ c + n \in 0..Len(y) /\ Text!IsCharBoundary(y, c + n)
  BY InsertMore
<1>2. Becomes(q, y, c + n)
  OBVIOUS
<1> HIDE DEF y, n
<1>3. Whole(y)
  BY <1>1, MoreWhole
<1>4. /\ ch # Newline => /\ Text!LinesOf(y) = LetterIn(t, r, k, ch)
                         /\ RowAt(y, c + n) = r /\ ColAt(y, c + n) = k + 1
      /\ ch = Newline => /\ Text!LinesOf(y) = Broken(t, r, k)
                         /\ RowAt(y, c + n) = r + 1 /\ ColAt(y, c + n) = 0
  BY <1>1, MoreShown
<1> HIDE DEF t, r, k
<1>5. \A u, i, j : /\ Text!LinesOf(y) = u /\ RowAt(y, c + n) = i /\ ColAt(y, c + n) = j
                   => Displays(q, u, i, j)
  BY <1>1, <1>2, <1>3, BecomesIs
<1>6. QED
  BY <1>4, <1>5 DEF t, r, k

\* A character is taken out.
LEMMA OutIs ==
    ASSUME NEW s, Whole(s), NEW p \in Nat, NEW c \in Nat, p < c, c <= Len(s),
           Text!IsCharBoundary(s, p), Text!IsCharBoundary(s, c),
           \A i \in (p + 2)..c : s[i].nth # 1, NEW q, Becomes(q, Text!Cut(s, p, c), p)
    PROVE  LET t == Text!LinesOf(s)
               r == RowAt(s, p)
               k == ColAt(s, p)
           IN  \/ /\ RowAt(s, c) = r /\ ColAt(s, c) = k + 1 /\ k < Len(t[r])
                  /\ Displays(q, LetterOut(t, r, k + 1), r, k)
               \/ /\ RowAt(s, c) = r + 1 /\ ColAt(s, c) = 0 /\ Len(t[r]) = k /\ r < Len(t)
                  /\ Displays(q, Join(t, r), r, k)
<1> DEFINE t == Text!LinesOf(s)
           r == RowAt(s, p)
           k == ColAt(s, p)
           n == c - p
           x == Text!Cut(s, p, c)
           ch == s[p + 1].of
<1>1. /\ More(x, s, p, n) /\ p \in 0..Len(x) /\ Text!IsCharBoundary(x, p)
  BY CutMore
<1>2. p + n = c
  OBVIOUS
<1>3. Becomes(q, x, p)
  OBVIOUS
<1> HIDE DEF x, n
<1>4. Whole(x)
  BY <1>1, MoreWhole
<1>5. RowAt(x, p) = r /\ ColAt(x, p) = k
  BY <1>1, MoreShown
<1>6. /\ ch # Newline => Text!LinesOf(x) = LetterOut(t, RowAt(x, p), ColAt(x, p) + 1)
      /\ ch = Newline => Text!LinesOf(x) = Join(t, RowAt(x, p))
  BY <1>1, MoreShown
<1>7. /\ ch # Newline => RowAt(s, c) = r /\ ColAt(s, c) = k + 1 /\ k < Len(t[r])
      /\ ch = Newline => RowAt(s, c) = r + 1 /\ ColAt(s, c) = 0 /\ k = Len(t[r]) /\ r < Len(t)
  BY Adjacent
<1> HIDE DEF t, r, k, ch
<1>8. \A u : Text!LinesOf(x) = u => Displays(q, u, r, k)
  BY <1>1, <1>3, <1>4, <1>5, BecomesIs
<1>9. QED
  BY <1>5, <1>6, <1>7, <1>8 DEF t, r, k

\* Nothing is taken out.
LEMMA CutNothing ==
    ASSUME NEW s, Whole(s), NEW c \in 0..Len(s)
    PROVE  Text!Cut(s, c, c) = s
<1> DEFINE A == SubSeq(s, 1, c)
           B == SubSeq(s, c + 1, Len(s))
           S == Text!Bytes
<1>1. s \in Seq(S) /\ Len(s) \in Nat /\ c \in Nat /\ c <= Len(s)
  <2>1. s \in Seq(Text!Bytes)
    BY DEF Whole
  <2>2. QED
    BY <2>1, LenProperties
<1>2. A \in Seq(S) /\ Len(A) = c /\ \A i \in 1..c : A[i] = s[i]
  <2> HIDE DEF S
  <2>1. 1 \in Nat /\ 1 <= c + 1 /\ 1 <= 1
    BY <1>1
  <2>2. /\ SubSeq(s, 1, c) \in Seq(S) /\ Len(SubSeq(s, 1, c)) = c - 1 + 1
        /\ \A i \in 1..(c - 1 + 1) : SubSeq(s, 1, c)[i] = s[1 + i - 1]
    BY <1>1, <2>1, Slice
  <2>3. c - 1 + 1 = c /\ \A i \in 1..c : 1 + i - 1 = i
    BY <1>1
  <2>4. QED
    BY <2>2, <2>3
<1>3. B \in Seq(S) /\ Len(B) = Len(s) - c /\ \A i \in 1..(Len(s) - c) : B[i] = s[c + i]
  <2> DEFINE e == c + 1
             h == Len(s)
  <2>1. e \in Nat /\ 1 <= e /\ e <= h + 1 /\ h \in Nat /\ h <= Len(s)
    BY <1>1
  <2>2. h - e + 1 = h - c /\ \A i \in 1..(h - c) : e + i - 1 = c + i
    BY <1>1
  <2> HIDE DEF S, e, h
  <2>3. /\ SubSeq(s, e, h) \in Seq(S) /\ Len(SubSeq(s, e, h)) = h - e + 1
        /\ \A i \in 1..(h - e + 1) : SubSeq(s, e, h)[i] = s[e + i - 1]
    BY <1>1, <2>1, Slice
  <2>4. QED
    BY <2>2, <2>3 DEF e, h
<1>4. Text!Cut(s, c, c) = A \o B
  BY DEF Text!Cut
<1> DEFINE x == A \o B
<1> HIDE DEF A, B, S
<1>5. /\ x \in Seq(S) /\ Len(x) = Len(s)
      /\ \A i \in 1..c : x[i] = s[i]
      /\ \A i \in 1..(Len(s) - c) : x[c + i] = s[c + i]
  <2>1. /\ A \o B \in Seq(S) /\ Len(A \o B) = Len(A) + Len(B)
        /\ \A i \in 1..Len(A) : (A \o B)[i] = A[i]
        /\ \A i \in 1..Len(B) : (A \o B)[Len(A) + i] = B[i]
    <3>1. A \in Seq(S) /\ B \in Seq(S)
      BY <1>2, <1>3
    <3>2. QED
      BY ONLY <3>1, Halves
  <2>2. c + (Len(s) - c) = Len(s)
    BY <1>1
  <2> HIDE DEF x
  <2>3. QED
    BY <1>2, <1>3, <2>1, <2>2 DEF x
<1> HIDE DEF x
<1>6. ASSUME NEW i \in 1..Len(s)
      PROVE  x[i] = s[i]
  <2>1. CASE i <= c
    BY <1>1, <1>5, <2>1
  <2>2. CASE i > c
    <3> DEFINE j == i - c
    <3>1. j \in 1..(Len(s) - c) /\ c + j = i
      BY <1>1, <2>2
    <3> HIDE DEF j
    <3>2. x[c + j] = s[c + j]
      BY <1>5, <3>1
    <3>3. QED
      BY <3>1, <3>2
  <2>3. QED
    BY <1>1, <2>1, <2>2
<1>7. x = s
  BY <1>1, <1>5, <1>6, SeqEqual
<1>8. QED
  BY <1>4, <1>7 DEF x

-----------------------------------------------------------------------------
(* Text: what the keys are on lines *)

\* What the refinement mapping shows.
ShownLines == IF pending_text = None THEN None ELSE Text!LinesOf(pending_text.buffer)

ShownRow ==
    IF pending_text = None THEN 1 ELSE Text!LineNumber(pending_text.buffer, pending_text.caret)

ShownCol ==
    IF pending_text = None THEN 0 ELSE Text!ColumnOf(pending_text.buffer, pending_text.caret)

\* The actions of LineEdit on what is shown.
LEMMA KeysAre ==
    /\ \A l : Lines!Type(l)
                <=> Lines!Rewrite(LetterIn(ShownLines, ShownRow, ShownCol, l), ShownRow,
                                  ShownCol + 1)
    /\ Lines!Break <=> Lines!Rewrite(Broken(ShownLines, ShownRow, ShownCol), ShownRow + 1, 0)
    /\ Lines!Backspace <=>
          \/ /\ ShownCol > 0
             /\ Lines!Rewrite(LetterOut(ShownLines, ShownRow, ShownCol), ShownRow, ShownCol - 1)
          \/ /\ ShownCol = 0 /\ ShownRow > 1
             /\ Lines!Rewrite(Join(ShownLines, ShownRow - 1), ShownRow - 1,
                              Len(ShownLines[ShownRow - 1]))
          \/ ShownCol = 0 /\ ShownRow = 1 /\ Lines!Move(ShownRow, ShownCol)
    /\ Lines!Delete <=>
          \/ /\ ShownCol < Len(ShownLines[ShownRow])
             /\ Lines!Rewrite(LetterOut(ShownLines, ShownRow, ShownCol + 1), ShownRow, ShownCol)
          \/ /\ ShownCol = Len(ShownLines[ShownRow]) /\ ShownRow < Len(ShownLines)
             /\ Lines!Rewrite(Join(ShownLines, ShownRow), ShownRow, ShownCol)
          \/ /\ ShownCol = Len(ShownLines[ShownRow]) /\ ShownRow = Len(ShownLines)
             /\ Lines!Move(ShownRow, ShownCol)
    /\ Lines!Left <=>
          \/ ShownCol > 0 /\ Lines!Move(ShownRow, ShownCol - 1)
          \/ /\ ShownCol = 0 /\ ShownRow > 1
             /\ Lines!Move(ShownRow - 1, Len(ShownLines[ShownRow - 1]))
          \/ ShownCol = 0 /\ ShownRow = 1 /\ Lines!Move(ShownRow, ShownCol)
    /\ Lines!Right <=>
          \/ ShownCol < Len(ShownLines[ShownRow]) /\ Lines!Move(ShownRow, ShownCol + 1)
          \/ /\ ShownCol = Len(ShownLines[ShownRow]) /\ ShownRow < Len(ShownLines)
             /\ Lines!Move(ShownRow + 1, 0)
          \/ /\ ShownCol = Len(ShownLines[ShownRow]) /\ ShownRow = Len(ShownLines)
             /\ Lines!Move(ShownRow, ShownCol)
    /\ \A r : Lines!Towards(r)
                <=> Lines!Move(r, IF ShownCol <= Len(ShownLines[r]) THEN ShownCol
                                  ELSE Len(ShownLines[r]))
    /\ Lines!Up <=> IF ShownRow > 1 THEN Lines!Towards(ShownRow - 1)
                    ELSE Lines!Move(ShownRow, ShownCol)
    /\ Lines!Down <=> IF ShownRow < Len(ShownLines) THEN Lines!Towards(ShownRow + 1)
                      ELSE Lines!Move(ShownRow, ShownCol)
    /\ Lines!Key <=>
          /\ ShownLines # None
          /\ \/ \E l \in Letters : Lines!Type(l)
             \/ Lines!Break \/ Lines!Backspace \/ Lines!Delete \/ Lines!Left \/ Lines!Right
             \/ Lines!Up \/ Lines!Down
             \/ Lines!Move(ShownRow, 0) \/ Lines!Move(ShownRow, Len(ShownLines[ShownRow]))
<1>1. \A l : Lines!Type(l)
              <=> Lines!Rewrite(LetterIn(ShownLines, ShownRow, ShownCol, l), ShownRow,
                                ShownCol + 1)
  BY DEF Lines!Type, Lines!InsertAt, InsertAt, LetterIn, ShownLines, ShownRow, ShownCol
<1>2. Lines!Break <=> Lines!Rewrite(Broken(ShownLines, ShownRow, ShownCol), ShownRow + 1, 0)
  BY DEF Lines!Break, Lines!Line, Broken, ShownLines, ShownRow, ShownCol
<1>3. Lines!Backspace <=>
          \/ /\ ShownCol > 0
             /\ Lines!Rewrite(LetterOut(ShownLines, ShownRow, ShownCol), ShownRow, ShownCol - 1)
          \/ /\ ShownCol = 0 /\ ShownRow > 1
             /\ Lines!Rewrite(Join(ShownLines, ShownRow - 1), ShownRow - 1,
                              Len(ShownLines[ShownRow - 1]))
          \/ ShownCol = 0 /\ ShownRow = 1 /\ Lines!Move(ShownRow, ShownCol)
  BY DEF Lines!Backspace, Lines!Joined, Lines!RemoveAt, RemoveAt, Lines!ReplaceAt, ReplaceAt,
         LetterOut, Join, ShownLines, ShownRow, ShownCol
<1>4. Lines!Delete <=>
          \/ /\ ShownCol < Len(ShownLines[ShownRow])
             /\ Lines!Rewrite(LetterOut(ShownLines, ShownRow, ShownCol + 1), ShownRow, ShownCol)
          \/ /\ ShownCol = Len(ShownLines[ShownRow]) /\ ShownRow < Len(ShownLines)
             /\ Lines!Rewrite(Join(ShownLines, ShownRow), ShownRow, ShownCol)
          \/ /\ ShownCol = Len(ShownLines[ShownRow]) /\ ShownRow = Len(ShownLines)
             /\ Lines!Move(ShownRow, ShownCol)
  BY DEF Lines!Delete, Lines!Line, Lines!Joined, Lines!RemoveAt, RemoveAt, Lines!ReplaceAt,
         ReplaceAt, LetterOut, Join, ShownLines, ShownRow, ShownCol
<1>5. Lines!Left <=>
          \/ ShownCol > 0 /\ Lines!Move(ShownRow, ShownCol - 1)
          \/ /\ ShownCol = 0 /\ ShownRow > 1
             /\ Lines!Move(ShownRow - 1, Len(ShownLines[ShownRow - 1]))
          \/ ShownCol = 0 /\ ShownRow = 1 /\ Lines!Move(ShownRow, ShownCol)
  BY DEF Lines!Left, ShownLines, ShownRow, ShownCol
<1>6. Lines!Right <=>
          \/ ShownCol < Len(ShownLines[ShownRow]) /\ Lines!Move(ShownRow, ShownCol + 1)
          \/ /\ ShownCol = Len(ShownLines[ShownRow]) /\ ShownRow < Len(ShownLines)
             /\ Lines!Move(ShownRow + 1, 0)
          \/ /\ ShownCol = Len(ShownLines[ShownRow]) /\ ShownRow = Len(ShownLines)
             /\ Lines!Move(ShownRow, ShownCol)
  BY DEF Lines!Right, Lines!Line, ShownLines, ShownRow, ShownCol
<1>7. \A r : Lines!Towards(r)
                <=> Lines!Move(r, IF ShownCol <= Len(ShownLines[r]) THEN ShownCol
                                  ELSE Len(ShownLines[r]))
  BY DEF Lines!Towards, ShownLines, ShownCol
<1>8. Lines!Up <=> IF ShownRow > 1 THEN Lines!Towards(ShownRow - 1)
                   ELSE Lines!Move(ShownRow, ShownCol)
  BY DEF Lines!Up, ShownRow, ShownCol
<1>9. Lines!Down <=> IF ShownRow < Len(ShownLines) THEN Lines!Towards(ShownRow + 1)
                     ELSE Lines!Move(ShownRow, ShownCol)
  BY DEF Lines!Down, ShownLines, ShownRow, ShownCol
<1>10. Lines!Key <=>
          /\ ShownLines # None
          /\ \/ \E l \in Letters : Lines!Type(l)
             \/ Lines!Break \/ Lines!Backspace \/ Lines!Delete \/ Lines!Left \/ Lines!Right
             \/ Lines!Up \/ Lines!Down
             \/ Lines!Move(ShownRow, 0) \/ Lines!Move(ShownRow, Len(ShownLines[ShownRow]))
  BY DEF Lines!Key, Lines!Line, ShownLines, ShownRow
<1>11. QED
  BY <1>1, <1>2, <1>3, <1>4, <1>5, <1>6, <1>7, <1>8, <1>9, <1>10

\* At a place between characters the column is a number.
LEMMA ColumnIs ==
    ASSUME NEW s, Whole(s), NEW n \in 0..Len(s), Text!IsCharBoundary(s, n)
    PROVE  Text!ColumnOf(s, n) = ColAt(s, n) /\ Text!LineNumber(s, n) = RowAt(s, n)
<1> DEFINE t == Text!LinesUpto(s)[n]
<1>1. s \in Seq(Text!Bytes)
  BY DEF Whole
<1>2. t \in Rows
  BY <1>1, UptoRows
<1>3. Text!ColumnOf(s, n) = Len(Text!Last(t))
  BY DEF Text!ColumnOf
<1>4. Text!Last(t) = t[Len(t)]
  BY OneLast DEF Last
<1>5. QED
  BY <1>3, <1>4 DEF ColAt, RowAt, Text!LineNumber

\* What is shown of an edit.
LEMMA ShownIs ==
    ASSUME InPlace(pending_text)
    PROVE  /\ pending_text # None /\ ShownLines = Text!LinesOf(pending_text.buffer)
           /\ ShownRow = RowAt(pending_text.buffer, pending_text.caret)
           /\ ShownCol = ColAt(pending_text.buffer, pending_text.caret)
<1>1. pending_text # None
  BY EditingAssumption DEF InPlace
<1>2. QED
  BY <1>1, ColumnIs DEF InPlace, ShownLines, ShownRow, ShownCol

\* The next lines and caret, as LineEdit has them.
LEMMA RewriteMeans ==
    ASSUME NEW t, NEW r, NEW k, Displays(pending_text', t, r, k), UNCHANGED label
    PROVE  Lines!Rewrite(t, r, k)
<1> DEFINE pt == pending_text'
<1>1. /\ InPlace(pt) /\ pt.caret_visible = TRUE
      /\ Text!LinesOf(pt.buffer) = t /\ RowAt(pt.buffer, pt.caret) = r
      /\ ColAt(pt.buffer, pt.caret) = k
  BY DEF Displays
<1>2. pt # None
  BY <1>1, EditingAssumption DEF InPlace
<1>3. Text!LineNumber(pt.buffer, pt.caret) = r /\ Text!ColumnOf(pt.buffer, pt.caret) = k
  BY <1>1, ColumnIs DEF InPlace
<1>4. QED
  BY <1>1, <1>2, <1>3 DEF Lines!Rewrite, Lines!Caret

\* The same when only the caret moves.
LEMMA MoveMeans ==
    ASSUME InPlace(pending_text), NEW r, NEW k,
           Displays(pending_text', Text!LinesOf(pending_text.buffer), r, k), UNCHANGED label
    PROVE  Lines!Move(r, k)
<1>1. Lines!Rewrite(Text!LinesOf(pending_text.buffer), r, k)
  BY RewriteMeans
<1>2. pending_text # None
  BY ShownIs
<1>3. QED
  BY <1>1, <1>2 DEF Lines!Rewrite, Lines!Move

-----------------------------------------------------------------------------
(* Text: each key is the key of LineEdit *)

\* A key changes the edit and leaves the label.
EditedBy(key) ==
    /\ InPlace(pending_text) /\ pending_text' = Text!Edited(pending_text, key)
    /\ UNCHANGED label

\* The edit in front of a key.
LEMMA BeforeKey ==
    ASSUME InPlace(pending_text)
    PROVE  LET s == pending_text.buffer
               c == pending_text.caret
           IN  /\ pending_text \in Text!PendingText
               /\ Whole(s) /\ c \in 0..Len(s) /\ Text!IsCharBoundary(s, c)
               /\ Len(s) \in Nat /\ c \in Nat /\ c <= Len(s)
               /\ ShownLines = Text!LinesOf(s) /\ ShownRow = RowAt(s, c) /\ ShownCol = ColAt(s, c)
               /\ Len(ShownLines) \in Nat /\ ShownRow \in Nat /\ ShownCol \in Nat
               /\ ShownRow >= 1 /\ ShownRow <= Len(ShownLines)
<1> DEFINE s == pending_text.buffer
           c == pending_text.caret
<1>1. /\ pending_text \in Text!PendingText
      /\ Whole(s) /\ c \in 0..Len(s) /\ Text!IsCharBoundary(s, c)
  BY DEF InPlace
<1>2. s \in Seq(Text!Bytes) /\ Len(s) \in Nat
  <2>1. s \in Seq(Text!Bytes)
    BY <1>1 DEF Whole
  <2>2. QED
    BY <2>1, LenProperties
<1>3. /\ ShownLines = Text!LinesOf(s) /\ ShownRow = RowAt(s, c) /\ ShownCol = ColAt(s, c)
  BY ShownIs
<1> HIDE DEF s, c
<1>4. RowAt(s, c) \in Nat /\ ColAt(s, c) \in Nat
  BY <1>1, <1>2, Placed0
<1>5. RowAt(s, c) \in 1..Len(Text!LinesOf(s))
  BY <1>1, EndOf
<1>6. Len(Text!LinesOf(s)) \in Nat
  <2>1. Len(s) \in 0..Len(s)
    BY <1>2
  <2>2. Text!LinesOf(s) \in Rows
    BY <1>2, <2>1, UptoRows DEF Text!LinesOf
  <2>3. QED
    BY <2>2, RowsFacts
<1>7. c \in Nat /\ c <= Len(s) /\ RowAt(s, c) >= 1 /\ RowAt(s, c) <= Len(Text!LinesOf(s))
  BY <1>1, <1>2, <1>5, <1>6
<1>8. QED
  BY <1>1, <1>2, <1>3, <1>4, <1>6, <1>7 DEF s, c

\* Lines are not none.
LEMMA MadeOfRows ==
    ASSUME InPlace(pending_text)
    PROVE  ShownLines # None /\ ShownLines \in Rows
<1> DEFINE s == pending_text.buffer
<1>1. s \in Seq(Text!Bytes) /\ Len(s) \in Nat /\ ShownLines = Text!LinesOf(s)
  <2>1. Whole(s) /\ Len(s) \in Nat /\ ShownLines = Text!LinesOf(s)
    BY BeforeKey
  <2>2. QED
    BY <2>1 DEF Whole
<1> HIDE DEF s
<1>2. Len(s) \in 0..Len(s)
  BY <1>1
<1>3. ShownLines \in Rows
  BY <1>1, <1>2, UptoRows DEF Text!LinesOf
<1>4. QED
  BY <1>3, EditingAssumption DEF Rows

\* A letter is typed.
LEMMA TypesIt ==
    ASSUME NEW l \in Letters, EditedBy(l)
    PROVE  Lines!Key /\ InPlace(pending_text')
<1> DEFINE s == pending_text.buffer
           c == pending_text.caret
           q == pending_text'
<1>1. InPlace(pending_text) /\ UNCHANGED label /\ q = Text!Edited(pending_text, l)
  BY DEF EditedBy
<1>2. /\ pending_text \in Text!PendingText
      /\ Whole(s) /\ c \in 0..Len(s) /\ Text!IsCharBoundary(s, c)
      /\ ShownLines = Text!LinesOf(s) /\ ShownRow = RowAt(s, c) /\ ShownCol = ColAt(s, c)
  BY <1>1, BeforeKey
<1>3. Becomes(q, PutInto(s, c, l), c + Len(Text!Encoded(l)))
  BY <1>1, <1>2, EditedIs
<1>4. l \in Letters \cup {Newline} /\ l # Newline
  BY EditingAssumption
<1> HIDE DEF s, c
<1>5. Displays(q, LetterIn(ShownLines, ShownRow, ShownCol, l), ShownRow, ShownCol + 1)
  BY <1>2, <1>3, <1>4, PutIs
<1>6. Lines!Rewrite(LetterIn(ShownLines, ShownRow, ShownCol, l), ShownRow, ShownCol + 1)
  BY <1>1, <1>5, RewriteMeans
<1>7. Lines!Type(l) /\ ShownLines # None
  BY <1>1, <1>2, <1>6, KeysAre, MadeOfRows
<1>8. QED
  BY <1>5, <1>7, KeysAre DEF Displays

\* Shift+Enter breaks the line.
LEMMA BreaksIt ==
    ASSUME EditedBy("ShiftEnter")
    PROVE  Lines!Key /\ InPlace(pending_text')
<1> DEFINE s == pending_text.buffer
           c == pending_text.caret
           q == pending_text'
<1>1. InPlace(pending_text) /\ UNCHANGED label /\ q = Text!Edited(pending_text, "ShiftEnter")
  BY DEF EditedBy
<1>2. /\ pending_text \in Text!PendingText
      /\ Whole(s) /\ c \in 0..Len(s) /\ Text!IsCharBoundary(s, c)
      /\ ShownLines = Text!LinesOf(s) /\ ShownRow = RowAt(s, c) /\ ShownCol = ColAt(s, c)
  BY <1>1, BeforeKey
<1>3. Becomes(q, PutInto(s, c, Newline), c + Len(Text!Encoded(Newline)))
  BY <1>1, <1>2, EditedIs
<1>4. Newline \in Letters \cup {Newline}
  OBVIOUS
<1> HIDE DEF s, c
<1>5. Displays(q, Broken(ShownLines, ShownRow, ShownCol), ShownRow + 1, 0)
  BY <1>2, <1>3, <1>4, PutIs
<1>6. Lines!Rewrite(Broken(ShownLines, ShownRow, ShownCol), ShownRow + 1, 0)
  BY <1>1, <1>5, RewriteMeans
<1>7. Lines!Break /\ ShownLines # None
  BY <1>1, <1>2, <1>6, KeysAre, MadeOfRows
<1>8. QED
  BY <1>5, <1>7, KeysAre DEF Displays

\* The caret stays.
LEMMA StaysThere ==
    ASSUME InPlace(pending_text), UNCHANGED label,
           Becomes(pending_text', pending_text.buffer, pending_text.caret)
    PROVE  Lines!Move(ShownRow, ShownCol) /\ InPlace(pending_text')
<1> DEFINE s == pending_text.buffer
           c == pending_text.caret
           q == pending_text'
<1>1. /\ Whole(s) /\ c \in 0..Len(s) /\ Text!IsCharBoundary(s, c)
      /\ ShownLines = Text!LinesOf(s) /\ ShownRow = RowAt(s, c) /\ ShownCol = ColAt(s, c)
  BY BeforeKey
<1>2. Displays(q, Text!LinesOf(s), ShownRow, ShownCol)
  BY <1>1, BecomesIs
<1>3. QED
  BY <1>2, MoveMeans DEF Displays

\* Backspace: a character is taken out in front of the caret, if there is one.
LEMMA Backspaces ==
    ASSUME EditedBy("Backspace")
    PROVE  Lines!Key /\ InPlace(pending_text')
<1> DEFINE s == pending_text.buffer
           c == pending_text.caret
           q == pending_text'
           p == Text!PrevCharBoundary(s, c)
<1>1. InPlace(pending_text) /\ UNCHANGED label /\ q = Text!Edited(pending_text, "Backspace")
  BY DEF EditedBy
<1>2. /\ pending_text \in Text!PendingText
      /\ Whole(s) /\ c \in 0..Len(s) /\ Text!IsCharBoundary(s, c)
      /\ Len(s) \in Nat /\ c \in Nat /\ c <= Len(s)
      /\ ShownLines = Text!LinesOf(s) /\ ShownRow = RowAt(s, c) /\ ShownCol = ColAt(s, c)
  BY <1>1, BeforeKey
<1>3. Becomes(q, Text!Cut(s, p, c), p)
  BY <1>1, <1>2, EditedIs
<1>4. ShownLines # None
  BY <1>1, MadeOfRows
<1>5. CASE c = 0
  <2>1. p = c
    BY <1>5 DEF Text!PrevCharBoundary
  <2>2. Becomes(q, s, c)
    BY <1>2, <1>3, <2>1, CutNothing
  <2>3. Lines!Move(ShownRow, ShownCol) /\ InPlace(q)
    BY <1>1, <2>2, StaysThere
  <2>4. ShownRow = 1 /\ ShownCol = 0
    <3>1. s \in Seq(Text!Bytes)
      BY <1>2 DEF Whole
    <3>2. QED
      BY <1>2, <1>5, <3>1, Placed0
  <2>5. Lines!Backspace
    BY <2>3, <2>4, KeysAre
  <2>6. QED
    BY <1>4, <2>3, <2>5, KeysAre
<1>6. CASE c # 0
  <2>1. c \in 1..Len(s)
    BY <1>2, <1>6
  <2>2. p \in Nat /\ p < c /\ Text!IsCharBoundary(s, p) /\ \A i \in (p + 2)..c : s[i].nth # 1
    BY <1>2, <2>1, PrevIs
  <2> HIDE DEF s, c, p
  <2> DEFINE t == Text!LinesOf(s)
             r == RowAt(s, p)
             k == ColAt(s, p)
  <2>3. \/ /\ RowAt(s, c) = r /\ ColAt(s, c) = k + 1 /\ k < Len(t[r])
           /\ Displays(q, LetterOut(t, r, k + 1), r, k)
        \/ /\ RowAt(s, c) = r + 1 /\ ColAt(s, c) = 0 /\ Len(t[r]) = k /\ r < Len(t)
           /\ Displays(q, Join(t, r), r, k)
    BY <1>2, <1>3, <2>2, OutIs
  <2>4. r \in Nat /\ r >= 1 /\ k \in Nat
    <3>1. s \in Seq(Text!Bytes) /\ p \in 0..Len(s)
      BY <1>2, <2>2 DEF Whole
    <3>2. r \in Nat \ {0} /\ k \in Nat
      BY <3>1, Placed0
    <3> HIDE DEF r, k
    <3>3. QED
      BY <3>2
  <2> HIDE DEF t, r, k
  <2>5. CASE /\ RowAt(s, c) = r /\ ColAt(s, c) = k + 1 /\ k < Len(t[r])
             /\ Displays(q, LetterOut(t, r, k + 1), r, k)
    <3>1. ShownCol > 0 /\ ShownCol = k + 1 /\ k = ShownCol - 1 /\ ShownRow = r /\ ShownLines = t
      BY <1>2, <2>4, <2>5 DEF t
    <3>2. Lines!Rewrite(LetterOut(t, r, k + 1), r, k)
      BY <1>1, <2>5, RewriteMeans
    <3>3. Lines!Rewrite(LetterOut(ShownLines, ShownRow, ShownCol), ShownRow, ShownCol - 1)
      BY <3>1, <3>2
    <3>4. Lines!Backspace
      BY <3>1, <3>3, KeysAre
    <3>5. QED
      BY <1>4, <2>5, <3>4, KeysAre DEF Displays
  <2>6. CASE /\ RowAt(s, c) = r + 1 /\ ColAt(s, c) = 0 /\ Len(t[r]) = k /\ r < Len(t)
             /\ Displays(q, Join(t, r), r, k)
    <3>1. ShownCol = 0 /\ ShownRow > 1 /\ r = ShownRow - 1 /\ ShownLines = t
      BY <1>2, <2>4, <2>6 DEF t
    <3>2. k = Len(ShownLines[ShownRow - 1])
      BY <2>6, <3>1
    <3>3. Lines!Rewrite(Join(t, r), r, k)
      BY <1>1, <2>6, RewriteMeans
    <3>4. Lines!Rewrite(Join(ShownLines, ShownRow - 1), ShownRow - 1,
                        Len(ShownLines[ShownRow - 1]))
      BY <3>1, <3>2, <3>3
    <3>5. Lines!Backspace
      BY <3>1, <3>4, KeysAre
    <3>6. QED
      BY <1>4, <2>6, <3>5, KeysAre DEF Displays
  <2>7. QED
    BY <2>3, <2>5, <2>6
<1>7. QED
  BY <1>5, <1>6

\* Behind the last character the caret is at the end of the last line.
LEMMA AtTheEnd ==
    ASSUME InPlace(pending_text), pending_text.caret = Len(pending_text.buffer)
    PROVE  ShownRow = Len(ShownLines) /\ ShownCol = Len(ShownLines[ShownRow])
<1> DEFINE s == pending_text.buffer
           c == pending_text.caret
           e == Text!LineEnd(s, c)
<1>1. /\ Whole(s) /\ c \in 0..Len(s) /\ Len(s) \in Nat /\ c = Len(s)
      /\ ShownLines = Text!LinesOf(s) /\ ShownRow = RowAt(s, c) /\ ShownCol = ColAt(s, c)
  BY BeforeKey
<1> HIDE DEF s, c
<1>2. /\ e \in c..Len(s) /\ ColAt(s, e) = Len(Text!LinesOf(s)[RowAt(s, c)])
      /\ e = Len(s) <=> RowAt(s, c) = Len(Text!LinesOf(s))
  BY <1>1, EndOf
<1> HIDE DEF e
<1>3. e = c /\ e = Len(s)
  BY <1>1, <1>2
<1>4. QED
  BY <1>1, <1>2, <1>3

\* Delete: a character is taken out behind the caret, if there is one.
LEMMA Deletes ==
    ASSUME EditedBy("Delete")
    PROVE  Lines!Key /\ InPlace(pending_text')
<1> DEFINE s == pending_text.buffer
           c == pending_text.caret
           q == pending_text'
           n == Text!NextCharBoundary(s, c)
<1>1. InPlace(pending_text) /\ UNCHANGED label /\ q = Text!Edited(pending_text, "Delete")
  BY DEF EditedBy
<1>2. /\ pending_text \in Text!PendingText
      /\ Whole(s) /\ c \in 0..Len(s) /\ Text!IsCharBoundary(s, c)
      /\ Len(s) \in Nat /\ c \in Nat /\ c <= Len(s)
      /\ ShownLines = Text!LinesOf(s) /\ ShownRow = RowAt(s, c) /\ ShownCol = ColAt(s, c)
  BY <1>1, BeforeKey
<1>3. Becomes(q, Text!Cut(s, c, n), c)
  BY <1>1, <1>2, EditedIs
<1>4. ShownLines # None
  BY <1>1, MadeOfRows
<1>5. CASE c = Len(s)
  <2>1. n = c
    BY <1>2, <1>5 DEF Text!NextCharBoundary
  <2>2. Becomes(q, s, c)
    BY <1>2, <1>3, <2>1, CutNothing
  <2>3. Lines!Move(ShownRow, ShownCol) /\ InPlace(q)
    BY <1>1, <2>2, StaysThere
  <2>4. ShownRow = Len(ShownLines) /\ ShownCol = Len(ShownLines[ShownRow])
    BY <1>1, <1>5, AtTheEnd
  <2>5. Lines!Delete
    BY <2>3, <2>4, KeysAre
  <2>6. QED
    BY <1>4, <2>3, <2>5, KeysAre
<1>6. CASE c # Len(s)
  <2>1. c \in 0..(Len(s) - 1)
    BY <1>2, <1>6
  <2>2. /\ n \in Nat /\ c < n /\ n <= Len(s) /\ Text!IsCharBoundary(s, n)
        /\ \A i \in (c + 2)..n : s[i].nth # 1
    BY <1>2, <2>1, NextIs
  <2> HIDE DEF s, c, n
  <2> DEFINE t == Text!LinesOf(s)
             r == RowAt(s, c)
             k == ColAt(s, c)
  <2>3. \/ k < Len(t[r]) /\ Displays(q, LetterOut(t, r, k + 1), r, k)
        \/ Len(t[r]) = k /\ r < Len(t) /\ Displays(q, Join(t, r), r, k)
    BY <1>2, <1>3, <2>2, OutIs
  <2>4. ShownLines = t /\ ShownRow = r /\ ShownCol = k
    BY <1>2
  <2> HIDE DEF t, r, k
  <2>5. CASE k < Len(t[r]) /\ Displays(q, LetterOut(t, r, k + 1), r, k)
    <3>1. Lines!Rewrite(LetterOut(t, r, k + 1), r, k)
      BY <1>1, <2>5, RewriteMeans
    <3>2. Lines!Delete
      BY <2>4, <2>5, <3>1, KeysAre
    <3>3. QED
      BY <1>4, <2>5, <3>2, KeysAre DEF Displays
  <2>6. CASE Len(t[r]) = k /\ r < Len(t) /\ Displays(q, Join(t, r), r, k)
    <3>1. Lines!Rewrite(Join(t, r), r, k)
      BY <1>1, <2>6, RewriteMeans
    <3>2. Lines!Delete
      BY <2>4, <2>6, <3>1, KeysAre
    <3>3. QED
      BY <1>4, <2>6, <3>2, KeysAre DEF Displays
  <2>7. QED
    BY <2>3, <2>5, <2>6
<1>7. QED
  BY <1>5, <1>6

\* The caret goes to another place between characters.
LEMMA GoesThere ==
    ASSUME InPlace(pending_text), UNCHANGED label,
           NEW p \in 0..Len(pending_text.buffer), Text!IsCharBoundary(pending_text.buffer, p),
           Becomes(pending_text', pending_text.buffer, p)
    PROVE  /\ Lines!Move(RowAt(pending_text.buffer, p), ColAt(pending_text.buffer, p))
           /\ InPlace(pending_text')
<1> DEFINE s == pending_text.buffer
           q == pending_text'
<1>1. Whole(s)
  BY BeforeKey
<1>2. Displays(q, Text!LinesOf(s), RowAt(s, p), ColAt(s, p))
  BY <1>1, BecomesIs
<1>3. QED
  BY <1>2, MoveMeans DEF Displays

\* Left: over a character, or nowhere.
LEMMA GoesLeft ==
    ASSUME EditedBy("Left")
    PROVE  Lines!Key /\ InPlace(pending_text')
<1> DEFINE s == pending_text.buffer
           c == pending_text.caret
           q == pending_text'
           p == Text!PrevCharBoundary(s, c)
<1>1. InPlace(pending_text) /\ UNCHANGED label /\ q = Text!Edited(pending_text, "Left")
  BY DEF EditedBy
<1>2. /\ pending_text \in Text!PendingText
      /\ Whole(s) /\ c \in 0..Len(s) /\ Text!IsCharBoundary(s, c)
      /\ Len(s) \in Nat /\ c \in Nat /\ c <= Len(s)
      /\ ShownLines = Text!LinesOf(s) /\ ShownRow = RowAt(s, c) /\ ShownCol = ColAt(s, c)
  BY <1>1, BeforeKey
<1>3. Becomes(q, s, p)
  BY <1>1, <1>2, EditedIs
<1>4. ShownLines # None
  BY <1>1, MadeOfRows
<1>5. CASE c = 0
  <2>1. p = c
    BY <1>5 DEF Text!PrevCharBoundary
  <2>2. Lines!Move(ShownRow, ShownCol) /\ InPlace(q)
    BY <1>1, <1>3, <2>1, StaysThere
  <2>3. ShownRow = 1 /\ ShownCol = 0
    <3>1. s \in Seq(Text!Bytes)
      BY <1>2 DEF Whole
    <3>2. QED
      BY <1>2, <1>5, <3>1, Placed0
  <2>4. Lines!Left
    BY <2>2, <2>3, KeysAre
  <2>5. QED
    BY <1>4, <2>2, <2>4, KeysAre
<1>6. CASE c # 0
  <2>1. c \in 1..Len(s)
    BY <1>2, <1>6
  <2>2. p \in Nat /\ p < c /\ Text!IsCharBoundary(s, p) /\ \A i \in (p + 2)..c : s[i].nth # 1
    BY <1>2, <2>1, PrevIs
  <2> DEFINE r == RowAt(s, p)
             k == ColAt(s, p)
  <2>3. Lines!Move(r, k) /\ InPlace(q)
    <3>1. p \in 0..Len(s)
      BY <1>2, <2>2
    <3> HIDE DEF p
    <3>2. QED
      BY <1>1, <1>3, <2>2, <3>1, GoesThere
  <2> HIDE DEF s, c, p
  <2>4. r \in Nat /\ r >= 1 /\ k \in Nat
    <3>1. s \in Seq(Text!Bytes) /\ p \in 0..Len(s)
      BY <1>2, <2>2 DEF Whole
    <3>2. r \in Nat \ {0} /\ k \in Nat
      BY <3>1, Placed0
    <3> HIDE DEF r, k
    <3>3. QED
      BY <3>2
  <2> DEFINE t == Text!LinesOf(s)
  <2>5. \/ RowAt(s, c) = r /\ ColAt(s, c) = k + 1
        \/ RowAt(s, c) = r + 1 /\ ColAt(s, c) = 0 /\ k = Len(t[r])
    BY <1>2, <2>2, Adjacent
  <2> HIDE DEF t, r, k
  <2>6. CASE RowAt(s, c) = r /\ ColAt(s, c) = k + 1
    <3>1. ShownCol > 0 /\ ShownCol - 1 = k /\ ShownRow = r
      BY <1>2, <2>4, <2>6
    <3>2. Lines!Left
      BY <2>3, <3>1, KeysAre
    <3>3. QED
      BY <1>4, <2>3, <3>2, KeysAre
  <2>7. CASE RowAt(s, c) = r + 1 /\ ColAt(s, c) = 0 /\ k = Len(t[r])
    <3>1. ShownCol = 0 /\ ShownRow > 1 /\ ShownRow - 1 = r /\ ShownLines = t
      BY <1>2, <2>4, <2>7 DEF t
    <3>2. k = Len(ShownLines[ShownRow - 1])
      BY <2>7, <3>1
    <3>3. Lines!Left
      BY <2>3, <3>1, <3>2, KeysAre
    <3>4. QED
      BY <1>4, <2>3, <3>3, KeysAre
  <2>8. QED
    BY <2>5, <2>6, <2>7
<1>7. QED
  BY <1>5, <1>6

\* Right: over a character, or nowhere.
LEMMA GoesRight ==
    ASSUME EditedBy("Right")
    PROVE  Lines!Key /\ InPlace(pending_text')
<1> DEFINE s == pending_text.buffer
           c == pending_text.caret
           q == pending_text'
           n == Text!NextCharBoundary(s, c)
<1>1. InPlace(pending_text) /\ UNCHANGED label /\ q = Text!Edited(pending_text, "Right")
  BY DEF EditedBy
<1>2. /\ pending_text \in Text!PendingText
      /\ Whole(s) /\ c \in 0..Len(s) /\ Text!IsCharBoundary(s, c)
      /\ Len(s) \in Nat /\ c \in Nat /\ c <= Len(s)
      /\ ShownLines = Text!LinesOf(s) /\ ShownRow = RowAt(s, c) /\ ShownCol = ColAt(s, c)
  BY <1>1, BeforeKey
<1>3. Becomes(q, s, n)
  BY <1>1, <1>2, EditedIs
<1>4. ShownLines # None
  BY <1>1, MadeOfRows
<1>5. CASE c = Len(s)
  <2>1. n = c
    BY <1>2, <1>5 DEF Text!NextCharBoundary
  <2>2. Lines!Move(ShownRow, ShownCol) /\ InPlace(q)
    BY <1>1, <1>3, <2>1, StaysThere
  <2>3. ShownRow = Len(ShownLines) /\ ShownCol = Len(ShownLines[ShownRow])
    BY <1>1, <1>5, AtTheEnd
  <2>4. Lines!Right
    BY <2>2, <2>3, KeysAre
  <2>5. QED
    BY <1>4, <2>2, <2>4, KeysAre
<1>6. CASE c # Len(s)
  <2>1. c \in 0..(Len(s) - 1)
    BY <1>2, <1>6
  <2>2. /\ n \in Nat /\ c < n /\ n <= Len(s) /\ Text!IsCharBoundary(s, n)
        /\ \A i \in (c + 2)..n : s[i].nth # 1
    BY <1>2, <2>1, NextIs
  <2>3. Lines!Move(RowAt(s, n), ColAt(s, n)) /\ InPlace(q)
    <3>1. n \in 0..Len(s)
      BY <1>2, <2>2
    <3> HIDE DEF n
    <3>2. QED
      BY <1>1, <1>3, <2>2, <3>1, GoesThere
  <2> HIDE DEF s, c, n
  <2> DEFINE t == Text!LinesOf(s)
             r == RowAt(s, c)
             k == ColAt(s, c)
  <2>4. \/ RowAt(s, n) = r /\ ColAt(s, n) = k + 1 /\ k < Len(t[r])
        \/ RowAt(s, n) = r + 1 /\ ColAt(s, n) = 0 /\ k = Len(t[r]) /\ r < Len(t)
    BY <1>2, <2>2, Adjacent
  <2>5. ShownLines = t /\ ShownRow = r /\ ShownCol = k
    BY <1>2
  <2> HIDE DEF t, r, k
  <2>6. Lines!Right
    BY <2>3, <2>4, <2>5, KeysAre
  <2>7. QED
    BY <1>4, <2>3, <2>6, KeysAre
<1>7. QED
  BY <1>5, <1>6

\* Home: to the beginning of the line.
LEMMA GoesHome ==
    ASSUME EditedBy("Home")
    PROVE  Lines!Key /\ InPlace(pending_text')
<1> DEFINE s == pending_text.buffer
           c == pending_text.caret
           q == pending_text'
           p == Text!LineStart(s, c)
<1>1. InPlace(pending_text) /\ UNCHANGED label /\ q = Text!Edited(pending_text, "Home")
  BY DEF EditedBy
<1>2. /\ pending_text \in Text!PendingText
      /\ Whole(s) /\ c \in 0..Len(s) /\ Len(s) \in Nat /\ c \in Nat /\ ShownRow = RowAt(s, c)
  BY <1>1, BeforeKey
<1>3. Becomes(q, s, p)
  BY <1>1, <1>2, EditedIs
<1>4. ShownLines # None
  BY <1>1, MadeOfRows
<1>5. p \in 0..c /\ Text!IsCharBoundary(s, p) /\ RowAt(s, p) = RowAt(s, c) /\ ColAt(s, p) = 0
  BY <1>2, StartOf
<1> HIDE DEF p
<1>6. p \in 0..Len(s)
  BY <1>2, <1>5
<1>7. Lines!Move(RowAt(s, p), ColAt(s, p)) /\ InPlace(q)
  BY <1>1, <1>3, <1>5, <1>6, GoesThere
<1>8. Lines!Move(ShownRow, 0)
  BY <1>2, <1>5, <1>7
<1>9. QED
  BY <1>4, <1>7, <1>8, KeysAre

\* End: to the end of the line.
LEMMA GoesToEnd ==
    ASSUME EditedBy("End")
    PROVE  Lines!Key /\ InPlace(pending_text')
<1> DEFINE s == pending_text.buffer
           c == pending_text.caret
           q == pending_text'
           p == Text!LineEnd(s, c)
<1>1. InPlace(pending_text) /\ UNCHANGED label /\ q = Text!Edited(pending_text, "End")
  BY DEF EditedBy
<1>2. /\ pending_text \in Text!PendingText
      /\ Whole(s) /\ c \in 0..Len(s) /\ Len(s) \in Nat /\ c \in Nat
      /\ ShownLines = Text!LinesOf(s) /\ ShownRow = RowAt(s, c)
  BY <1>1, BeforeKey
<1>3. Becomes(q, s, p)
  BY <1>1, <1>2, EditedIs
<1>4. ShownLines # None
  BY <1>1, MadeOfRows
<1>5. /\ p \in c..Len(s) /\ Text!IsCharBoundary(s, p) /\ RowAt(s, p) = RowAt(s, c)
      /\ ColAt(s, p) = Len(Text!LinesOf(s)[RowAt(s, c)])
  BY <1>2, EndOf
<1> HIDE DEF p
<1>6. p \in 0..Len(s)
  BY <1>2, <1>5
<1>7. Lines!Move(RowAt(s, p), ColAt(s, p)) /\ InPlace(q)
  BY <1>1, <1>3, <1>5, <1>6, GoesThere
<1>8. Lines!Move(ShownRow, Len(ShownLines[ShownRow]))
  BY <1>2, <1>5, <1>7
<1>9. QED
  BY <1>4, <1>7, <1>8, KeysAre

\* Up and Down: to the line above and the line below.
LEMMA GoesOver ==
    ASSUME NEW key \in {"Up", "Down"}, EditedBy(key)
    PROVE  Lines!Key /\ InPlace(pending_text')
<1> DEFINE s == pending_text.buffer
           c == pending_text.caret
           q == pending_text'
           delta == IF key = "Up" THEN -1 ELSE 1
           p == Text!MoveCaretVertically(s, c, delta)
           to == RowAt(s, c) + delta
           t == Text!LinesOf(s)
<1>1. InPlace(pending_text) /\ UNCHANGED label /\ q = Text!Edited(pending_text, key)
  BY DEF EditedBy
<1>2. /\ pending_text \in Text!PendingText
      /\ Whole(s) /\ c \in 0..Len(s) /\ Text!IsCharBoundary(s, c)
      /\ ShownLines = t /\ ShownRow = RowAt(s, c) /\ ShownCol = ColAt(s, c)
      /\ Len(ShownLines) \in Nat /\ ShownRow \in Nat /\ ShownRow >= 1 /\ ShownRow <= Len(ShownLines)
  BY <1>1, BeforeKey
<1>3. Becomes(q, s, p)
  <2>1. CASE key = "Up"
    <3>1. Becomes(q, s, Text!MoveCaretVertically(s, c, -1))
      BY <1>1, <1>2, <2>1, EditedIs
    <3>2. QED
      BY <2>1, <3>1
  <2>2. CASE key = "Down"
    <3>1. Becomes(q, s, Text!MoveCaretVertically(s, c, 1))
      BY <1>1, <1>2, <2>2, EditedIs
    <3>2. QED
      BY <2>2, <3>1
  <2>3. QED
    BY <2>1, <2>2
<1>4. ShownLines # None
  BY <1>1, MadeOfRows
<1>5. delta \in {-1, 1} /\ (key = "Up" => delta = -1) /\ (key = "Down" => delta = 1)
  OBVIOUS
<1> HIDE DEF delta
<1>6. /\ to \in 1..Len(t) =>
            /\ p \in 0..Len(s) /\ Text!IsCharBoundary(s, p) /\ RowAt(s, p) = to
            /\ ColAt(s, p) = IF ColAt(s, c) <= Len(t[to]) THEN ColAt(s, c) ELSE Len(t[to])
      /\ to \notin 1..Len(t) => p = c
  BY <1>2, <1>5, VerticalIs
<1> HIDE DEF p, to, t
<1>7. to = ShownRow + delta
  BY <1>2 DEF to
<1>8. CASE to \in 1..Len(t)
  <2>1. Lines!Move(RowAt(s, p), ColAt(s, p)) /\ InPlace(q)
    BY <1>1, <1>3, <1>6, <1>8, GoesThere
  <2>2. Lines!Towards(to)
    BY <1>2, <1>6, <1>8, <2>1, KeysAre
  <2>3. Lines!Up \/ Lines!Down
    <3>1. CASE key = "Up"
      <4>1. to = ShownRow - 1 /\ ShownRow > 1
        BY <1>2, <1>5, <1>7, <1>8, <3>1
      <4>2. QED
        BY <2>2, <4>1, KeysAre
    <3>2. CASE key = "Down"
      <4>1. to = ShownRow + 1 /\ ShownRow < Len(ShownLines)
        BY <1>2, <1>5, <1>7, <1>8, <3>2
      <4>2. QED
        BY <2>2, <4>1, KeysAre
    <3>3. QED
      BY <3>1, <3>2
  <2>4. QED
    BY <1>4, <2>1, <2>3, KeysAre
<1>9. CASE to \notin 1..Len(t)
  <2>1. Lines!Move(ShownRow, ShownCol) /\ InPlace(q)
    BY <1>1, <1>3, <1>6, <1>9, StaysThere
  <2>2. Lines!Up \/ Lines!Down
    <3>1. CASE key = "Up"
      <4>1. ~(ShownRow > 1)
        BY <1>2, <1>5, <1>7, <1>9, <3>1
      <4>2. QED
        BY <2>1, <4>1, KeysAre
    <3>2. CASE key = "Down"
      <4>1. ~(ShownRow < Len(ShownLines))
        BY <1>2, <1>5, <1>7, <1>9, <3>2
      <4>2. QED
        BY <2>1, <4>1, KeysAre
    <3>3. QED
      BY <3>1, <3>2
  <2>3. QED
    BY <1>4, <2>1, <2>2, KeysAre
<1>10. QED
  BY <1>8, <1>9

-----------------------------------------------------------------------------
(* Text: the whole editor is LineEdit *)

\* What is edited is in place, and what is kept is whole characters, at least
\* one: all that a key, or opening a label again, needs.
TextInv ==
    /\ pending_text # None => InPlace(pending_text)
    /\ label # None => Whole(label) /\ label # <<>>

\* Characters are seen: the lines of a text that has some are not blank.
LEMMA NotBlank ==
    ASSUME NEW s, Whole(s), s # <<>>
    PROVE  Text!LinesOf(s) # << <<>> >>
<1> DEFINE b == SubSeq(s, 2, Len(s))
           x == Text!LinesUpto(s)[1]
           y == Text!LinesOf(b)
           blank == << <<>> >>
<1>1. /\ s \in Seq(Text!Bytes) /\ Len(s) \in Nat /\ Len(s) >= 1
      /\ Text!IsCharBoundary(s, 0)
  <2>1. s \in Seq(Text!Bytes) /\ Text!IsCharBoundary(s, 0)
    BY DEF Whole
  <2>2. Len(s) \in Nat /\ Len(s) # 0
    BY <2>1, LenProperties, EmptySeq
  <2>3. QED
    BY <2>1, <2>2
<1>2. s[1].nth = 1
  BY <1>1 DEF Text!IsCharBoundary
<1>3. /\ b \in Seq(Text!Bytes) /\ Len(b) = Len(s) - 1
      /\ \A i \in 1..(Len(s) - 1) : b[i] = s[1 + i]
  <2> DEFINE S == Text!Bytes
             h == Len(s)
             e == 2
  <2>1. s \in Seq(S) /\ e \in Nat /\ h \in Nat /\ 1 <= e /\ e <= h + 1 /\ h <= Len(s)
    BY <1>1
  <2>2. h - e + 1 = h - 1 /\ \A i \in 1..(h - 1) : e + i - 1 = 1 + i
    BY <1>1
  <2> HIDE DEF S, h, e
  <2>3. /\ SubSeq(s, e, h) \in Seq(S) /\ Len(SubSeq(s, e, h)) = h - e + 1
        /\ \A i \in 1..(h - e + 1) : SubSeq(s, e, h)[i] = s[e + i - 1]
    BY <2>1, Slice
  <2>4. QED
    BY <2>2, <2>3 DEF S, h, e
<1> HIDE DEF b
<1>4. Text!LinesOf(s) = Glue(x, y)
  <2>1. Len(s) = 1 + Len(b) /\ 1 \in Nat /\ \A i \in 1..Len(b) : s[1 + i] = b[i]
    BY <1>1, <1>3
  <2>2. QED
    BY <1>1, <1>3, <2>1, UptoGlue
<1>5. y \in Rows /\ Len(y) \in Nat /\ Len(y) >= 1 /\ Len(y[1]) \in Nat
  <2>1. Len(b) \in Nat /\ Len(b) \in 0..Len(b)
    BY <1>1, <1>3
  <2>2. y \in Rows
    BY <1>3, <2>1, UptoRows DEF Text!LinesOf
  <2> HIDE DEF y
  <2>3. QED
    BY <2>2, RowsFacts
<1>6. x = With(blank, s[1].of) /\ s[1].of \in Letters \cup {Newline} /\ x \in Rows
  <2> DEFINE U == Text!LinesUpto(s)
             d == 1
  <2>1. d \in 1..Len(s) /\ d - 1 = 0 /\ d \in 0..Len(s)
    BY <1>1
  <2> HIDE DEF d
  <2>2. /\ U[0] = blank /\ s[d].of \in Letters \cup {Newline} /\ U[d] \in Rows
        /\ s[d].nth = 1 => U[d] = With(U[d - 1], s[d].of)
    BY <1>1, <2>1, UptoStep
  <2>3. QED
    BY <1>2, <2>1, <2>2 DEF d
<1> HIDE DEF x, y
<1>7. blank \in Rows /\ Len(blank) = 1 /\ blank[1] = <<>> /\ Len(<<>>) = 0
  BY BlankRows
<1> DEFINE g == Glue(x, y)
<1>8. /\ Len(g) = Len(x) + Len(y) - 1 /\ Len(g[Len(x)]) = Len(x[Len(x)]) + Len(y[1])
  BY <1>5, <1>6, Glued
<1> HIDE DEF g
<1>9. CASE s[1].of = Newline
  <2>1. Len(x) = 2
    <3> HIDE DEF blank
    <3>1. Len(x) = Len(blank) + 1
      BY <1>6, <1>7, <1>9, WithMore
    <3>2. QED
      BY <1>7, <3>1
  <2>2. Len(g) # Len(blank)
    <3> HIDE DEF blank
    <3>1. QED
      BY <1>5, <1>7, <1>8, <2>1
  <2>3. QED
    BY <1>4, <2>2 DEF g
<1>10. CASE s[1].of # Newline
  <2>1. Len(x) = 1 /\ Len(x[1]) = 1
    <3> HIDE DEF blank
    <3>1. Len(x) = Len(blank) /\ Len(x[Len(blank)]) = Len(blank[Len(blank)]) + 1
      BY <1>6, <1>7, <1>10, WithMore
    <3>2. QED
      BY <1>7, <3>1
  <2>2. Len(g[1]) # Len(blank[1])
    <3> HIDE DEF blank
    <3>1. QED
      BY <1>5, <1>7, <1>8, <2>1
  <2>3. QED
    BY <1>4, <2>2 DEF g
<1>11. QED
  BY <1>9, <1>10

\* An edit is opened, on nothing or on the label.
LEMMA Opens ==
    ASSUME TextInv, Text!OpenText
    PROVE  Lines!Open /\ InPlace(pending_text') /\ UNCHANGED label
<1> DEFINE q == pending_text'
<1>1. pending_text = None /\ UNCHANGED label
  BY DEF Text!OpenText
<1>2. CASE label = None /\ q = [buffer |-> <<>>, caret |-> 0, caret_visible |-> TRUE]
  <2> DEFINE s == <<>>
  <2>1. s \in Seq(Text!Bytes) /\ Len(s) = 0
    BY EmptySeq
  <2>2. Becomes(q, s, 0)
    BY <1>2, <2>1 DEF Becomes, Text!PendingText
  <2> HIDE DEF s
  <2>3. Whole(s) /\ Text!IsCharBoundary(s, 0) /\ 0 \in 0..Len(s)
    BY <2>1 DEF Whole, Text!IsCharBoundary
  <2>4. Text!LinesOf(s) = << <<>> >> /\ RowAt(s, 0) = 1 /\ ColAt(s, 0) = 0
    BY <2>1, Placed0, UptoStep DEF Text!LinesOf
  <2>5. Displays(q, << <<>> >>, 1, 0)
    BY <2>2, <2>3, <2>4, BecomesIs
  <2>6. Lines!Rewrite(<< <<>> >>, 1, 0)
    BY <1>1, <2>5, RewriteMeans
  <2>7. Lines!Open
    BY <1>1, <1>2, <2>6 DEF Lines!Open, Lines!Rewrite, Lines!Blank
  <2>8. QED
    BY <1>1, <2>5, <2>7 DEF Displays
<1>3. CASE label # None /\ q = [buffer |-> label, caret |-> Len(label), caret_visible |-> TRUE]
  <2> DEFINE s == label
             n == Len(s)
             t == Text!LinesOf(s)
  <2>1. Whole(s)
    BY <1>3 DEF TextInv
  <2>2. s \in Seq(Text!Bytes)
    BY <2>1 DEF Whole
  <2>3. n \in Nat /\ n \in 0..n
    BY <2>2, LenProperties
  <2>4. Text!IsCharBoundary(s, n)
    BY DEF Text!IsCharBoundary
  <2>5. Becomes(q, s, n)
    BY <1>3, <2>2, <2>3 DEF Becomes, Text!PendingText
  <2>6. t \in Rows /\ RowAt(s, n) = Len(t) /\ ColAt(s, n) = Len(t[Len(t)])
    BY <2>2, <2>3, UptoRows DEF Text!LinesOf, RowAt, ColAt
  <2>7. Displays(q, t, Len(t), Len(t[Len(t)]))
    BY <2>1, <2>3, <2>4, <2>5, <2>6, BecomesIs
  <2>8. Lines!Rewrite(t, Len(t), Len(t[Len(t)]))
    BY <1>1, <2>7, RewriteMeans
  <2>9. Lines!Last(t) = t[Len(t)]
    BY OneLast DEF Last
  <2>10. t # None
    BY <2>6, EditingAssumption DEF Rows
  <2>11. Lines!Open
    <3> HIDE DEF t
    <3>1. Lines!Rewrite(t, Len(t), Len(Lines!Last(t)))
      BY <2>8, <2>9
    <3>2. QED
      BY <1>1, <1>3, <2>10, <3>1 DEF Lines!Open, Lines!Rewrite, t
  <2>12. QED
    BY <1>1, <2>7, <2>11 DEF Displays
<1>4. QED
  BY <1>1, <1>2, <1>3 DEF Text!OpenText

\* An edit ends: its text is kept, if it has one and is to be kept.
LEMMA Ends ==
    ASSUME TextInv, pending_text # None, NEW key, Text!EndText(key)
    PROVE  Lines!Close /\ pending_text' = None /\ (label' # None => Whole(label') /\ label' # <<>>)
<1> DEFINE s == pending_text.buffer
           t == Text!LinesOf(s)
<1>1. InPlace(pending_text)
  BY DEF TextInv
<1>2. ShownLines = t /\ t # None /\ t \in Rows
  BY <1>1, ShownIs, MadeOfRows
<1>3. Whole(s) /\ s \in Seq(Text!Bytes)
  BY <1>1 DEF InPlace, Whole
<1>4. pending_text' = None /\ (label' = label \/ (label' = s /\ s # <<>>))
  BY DEF Text!EndText
<1>5. s # None
  BY <1>3, EditingAssumption
<1>6. label' = s /\ s # <<>> => t # << <<>> >>
  BY <1>3, NotBlank
<1> HIDE DEF t
<1>7. Lines!Close
  <2>1. CASE label' = label
    BY <1>2, <1>4, <2>1 DEF Lines!Close, ShownLines
  <2>2. CASE label' = s /\ s # <<>>
    <3>1. Text!LinesOf(label') = t
      BY <2>2 DEF t
    <3>2. label' # None
      BY <1>5, <2>2
    <3>3. t # Lines!Blank
      BY <1>6, <2>2 DEF Lines!Blank
    <3> HIDE DEF s
    <3>4. QED
      BY <1>2, <1>4, <3>1, <3>2, <3>3 DEF Lines!Close, ShownLines
  <2>3. QED
    BY <1>4, <2>1, <2>2
<1>8. QED
  BY <1>3, <1>4, <1>7 DEF TextInv

\* The caret blinks.
LEMMA Blinks ==
    ASSUME TextInv, Text!BlinkCaret
    PROVE  Lines!Blink /\ InPlace(pending_text') /\ UNCHANGED label
<1> DEFINE q == pending_text'
<1>1. InPlace(pending_text) /\ pending_text # None /\ UNCHANGED label
  BY DEF TextInv, Text!BlinkCaret
<1>2. pending_text \in Text!PendingText
  BY <1>1 DEF InPlace
<1>3. /\ q \in Text!PendingText /\ q.buffer = pending_text.buffer /\ q.caret = pending_text.caret
      /\ q.caret_visible = ~pending_text.caret_visible
  <2> DEFINE T == Seq(Text!Bytes)
  <2>1. pending_text \in [buffer : T, caret : Nat, caret_visible : BOOLEAN]
    BY <1>2 DEF Text!PendingText
  <2>2. q = [pending_text EXCEPT !.caret_visible = ~@]
    BY DEF Text!BlinkCaret
  <2> HIDE DEF T
  <2>3. /\ q \in [buffer : T, caret : Nat, caret_visible : BOOLEAN]
        /\ q.buffer = pending_text.buffer /\ q.caret = pending_text.caret
        /\ q.caret_visible = ~pending_text.caret_visible
    BY <2>1, <2>2
  <2>4. QED
    BY <2>3 DEF T, Text!PendingText
<1>4. InPlace(q)
  BY <1>1, <1>3 DEF InPlace
<1>5. q # None
  BY <1>3, EditingAssumption
<1>6. ShownLines # None
  BY <1>1, MadeOfRows
<1>7. Lines!Blink
  BY <1>1, <1>3, <1>5, <1>6 DEF Lines!Blink, ShownLines
<1>8. QED
  BY <1>1, <1>4, <1>7

\* A key that edits.
LEMMA KeyEdits ==
    ASSUME NEW key \in Text!Keys, key \notin {"Escape", "Enter"}, EditedBy(key)
    PROVE  Lines!Key /\ InPlace(pending_text')
<1>1. \/ key \in Letters
      \/ key \in {"ShiftEnter", "Backspace", "Delete", "Left", "Right", "Home", "End", "Up", "Down"}
  BY DEF Text!Keys, Text!NamedKeys
<1>2. CASE key \in Letters
  BY <1>2, TypesIt
<1>3. CASE key = "ShiftEnter"
  BY <1>3, BreaksIt
<1>4. CASE key = "Backspace"
  BY <1>4, Backspaces
<1>5. CASE key = "Delete"
  BY <1>5, Deletes
<1>6. CASE key = "Left"
  BY <1>6, GoesLeft
<1>7. CASE key = "Right"
  BY <1>7, GoesRight
<1>8. CASE key = "Home"
  BY <1>8, GoesHome
<1>9. CASE key = "End"
  BY <1>9, GoesToEnd
<1>10. CASE key \in {"Up", "Down"}
  BY <1>10, GoesOver
<1>11. QED
  BY <1>1, <1>2, <1>3, <1>4, <1>5, <1>6, <1>7, <1>8, <1>9, <1>10

\* A step of the text editor is a step of LineEdit.
LEMMA TextSteps ==
    ASSUME TextInv, Text!TextNext
    PROVE  Lines!Next /\ TextInv'
<1>1. CASE Text!OpenText
  <2>1. Lines!Open /\ InPlace(pending_text') /\ UNCHANGED label
    BY <1>1, Opens
  <2>2. QED
    BY <2>1 DEF Lines!Next, TextInv
<1>2. CASE Text!BlinkCaret
  <2>1. Lines!Blink /\ InPlace(pending_text') /\ UNCHANGED label
    BY <1>2, Blinks
  <2>2. QED
    BY <2>1 DEF Lines!Next, TextInv
<1>3. ASSUME NEW key \in Text!Keys, Text!PressKey(key)
      PROVE  Lines!Next /\ TextInv'
  <2>1. pending_text # None
    BY <1>3 DEF Text!PressKey
  <2>2. CASE Text!EndText(key)
    <3>1. Lines!Close /\ pending_text' = None /\ (label' # None => Whole(label') /\ label' # <<>>)
      BY <2>1, <2>2, Ends
    <3>2. QED
      BY <3>1 DEF Lines!Next, TextInv
  <2>3. CASE ~Text!EndText(key)
    <3>1. key \notin {"Escape", "Enter"} /\ pending_text' = Text!Edited(pending_text, key)
          /\ UNCHANGED label
      BY <1>3, <2>3 DEF Text!PressKey
    <3>2. EditedBy(key)
      BY <2>1, <3>1 DEF EditedBy, TextInv
    <3>3. Lines!Key /\ InPlace(pending_text')
      BY <3>1, <3>2, KeyEdits
    <3>4. QED
      BY <3>1, <3>3 DEF Lines!Next, TextInv
  <2>4. QED
    BY <2>2, <2>3
<1>4. QED
  BY <1>1, <1>2, <1>3 DEF Text!TextNext

\* The text editor of the canvas implements LineEdit: in every behaviour the
\* bytes and the offset of the caret (PendingText in ui/canvas.rs) are lines of
\* characters and a place in them, and each key does to those what it says.
THEOREM LinesEdited == Spec => LineEditSpec
<1>1. Init => TextInv /\ Lines!Init
  BY DEF Init, Text!TextInit, TextInv, Lines!Init
<1>2. TextInv /\ [Next]_vars => TextInv' /\ [Lines!Next]_Lines!vars
  <2> SUFFICES ASSUME TextInv, [Next]_vars PROVE TextInv' /\ [Lines!Next]_Lines!vars
    OBVIOUS
  <2>1. CASE Text!TextNext
    BY <2>1, TextSteps
  <2>2. CASE UNCHANGED textVars
    <3>1. UNCHANGED <<pending_text, label>>
      BY <2>2 DEF textVars
    <3>2. TextInv'
      BY <3>1 DEF TextInv
    <3>3. UNCHANGED Lines!vars
      BY <3>1 DEF Lines!vars
    <3>4. QED
      BY <3>2, <3>3
  <2>3. QED
    BY <2>1, <2>2 DEF Next, vars
<1>3. QED
  BY <1>1, <1>2, PTL DEF Spec, LineEditSpec, Lines!Spec

=============================================================================
