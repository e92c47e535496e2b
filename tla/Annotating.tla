----------------------------- MODULE Annotating -----------------------------
(***************************************************************************)
(* Drawing on an overlay (ui/overlay.rs, ui/canvas.rs): one canvas per     *)
(* monitor, one toolbar and one current tool for all of them, one pointer. *)
(* A tool is used once: what a canvas commits puts every canvas back into  *)
(* Select mode.  Save is that of Edit mode: compose, write, tear down.     *)
(***************************************************************************)
EXTENDS Canvas

CONSTANT
    Monitors        \* the monitors with a canvas

VARIABLES
    canvas,         \* the canvas of each monitor
    current_tool,   \* Shared.current_tool
    lit,            \* the tool buttons that are down
    shown,          \* the kind whose colour, style and size the pickers offer
    pointer,        \* the monitor on which a drag is under way
    phase,          \* "open" or "saved"
    begun           \* history: how many annotations have been begun

vars == <<canvas, current_tool, lit, shown, pointer, phase, begun>>

TypeOK ==
    /\ canvas \in [Monitors -> Canvases]
    /\ current_tool \in ToolKinds
    /\ lit \in SUBSET (ToolKinds \ {"Select"})
    /\ shown \in ToolKinds
    /\ pointer \in Monitors \cup {None}
    /\ phase \in {"open", "saved"}
    /\ begun \in 0..MaxAnnotations

Init ==
    /\ canvas = [m \in Monitors |-> SetDocument("Select")]
    /\ current_tool = "Select"
    /\ lit = {}
    /\ shown = "Select"
    /\ pointer = None
    /\ phase = "open"
    /\ begun = 0

-----------------------------------------------------------------------------
\* apply_tool on the canvases cs: every canvas, the shared tool, the buttons.
ApplyTool(cs, kind) ==
    /\ canvas' = [m \in Monitors |-> SetTool(cs[m], kind)]
    /\ current_tool' = kind
    /\ lit' = {kind} \ {"Select"}
    /\ shown' = kind

\* selected_kind
SelectedKind(c) ==
    IF c.selection # None /\ c.selection.at \in DOMAIN c.layers
    THEN c.layers[c.selection.at].kind
    ELSE "Select"

\* refresh_pickers: the kind that the pickers of canvas c should act on.
EffectiveKind(c) ==
    CASE c.text # None -> "Text"
      [] c.text = None /\ current_tool = "Select" -> SelectedKind(c)
      [] OTHER -> current_tool

\* A step of one canvas that no callback follows.
Only(m, c) ==
    /\ canvas' = [canvas EXCEPT ![m] = c]
    /\ UNCHANGED <<current_tool, lit, shown, phase>>

\* A step of one canvas that ends in notify_ui_state.
Refresh(m, c) ==
    /\ canvas' = [canvas EXCEPT ![m] = c]
    /\ shown' = EffectiveKind(c)
    /\ UNCHANGED <<current_tool, lit, phase>>

\* A step of one canvas that ends in notify_commit.
Done(m, c) ==
    /\ ApplyTool([canvas EXCEPT ![m] = c], "Select")
    /\ UNCHANGED phase

\* GLib gives a source an id that no live one has.
FreeTimers(c) == Timers \ c.sources

NextTimer(c) == CHOOSE t \in FreeTimers(c) : TRUE

\* The next annotation is begun, which is bounded.
NextId == begun + 1

Begin == begun < MaxAnnotations /\ begun' = NextId

-----------------------------------------------------------------------------
(***************************************************************************)
(* A tool button or its key.  A button that goes down puts the others up   *)
(* and selects its tool, also in the middle of a drag; the one that is     *)
(* down goes up, and with none left down the tool is Select.               *)
(***************************************************************************)
ToolToggled(kind) ==
    /\ phase = "open"
    /\ IF kind \in lit
       THEN lit = {kind} /\ ApplyTool(canvas, "Select")
       ELSE ApplyTool(canvas, kind)
    /\ UNCHANGED <<pointer, phase, begun>>

\* On the canvas of the monitor that has the toolbar, which may be any.
UndoPressed(m) ==
    /\ phase = "open"
    /\ Only(m, Undo(canvas[m]))
    /\ UNCHANGED <<pointer, begun>>

ClearPressed ==
    /\ phase = "open"
    /\ canvas' = [m \in Monitors |-> ClearLayers(canvas[m])]
    /\ UNCHANGED <<current_tool, lit, shown, pointer, phase, begun>>

\* compose_edit and the save closure; when either fails nothing changes.
Save ==
    /\ phase = "open"
    /\ phase' = "saved"
    /\ UNCHANGED <<canvas, current_tool, lit, shown, pointer, begun>>

-----------------------------------------------------------------------------
DragBegin(m) ==
    /\ phase = "open"
    /\ pointer = None
    /\ pointer' = m
    /\ UNCHANGED begun
    /\ LET c == canvas[m] IN
        \/ c.tool = "Select" /\ c.selection # None /\ Only(m, GrabSelected(c))
        \/ /\ c.tool = "Select"
           /\ \E i \in DOMAIN c.layers : Refresh(m, SelectHit(c, i))
        \/ c.tool = "Select" /\ c.selection # None /\ Refresh(m, Deselect(c))
        \/ c.tool = "Select" /\ c.selection = None /\ Only(m, c)
        \/ c.tool \in {"Number", "Text"} /\ Only(m, c)
        \/ /\ c.tool \in Strokes \cup {"Crop"}
           /\ Only(m, [c EXCEPT !.pending = c.tool])

DragEnd(m) ==
    /\ phase = "open"
    /\ pointer = m
    /\ pointer' = None
    /\ LET c == canvas[m] IN
        \/ /\ c.tool = "Select"
           /\ Only(m, [c EXCEPT !.manip = None])
           /\ UNCHANGED begun
        \/ c.tool # "Select" /\ c.pending = None /\ Only(m, c) /\ UNCHANGED begun
        \/ /\ c.tool # "Select" /\ c.pending # None
           /\ \E large \in BOOLEAN :
                /\ IF large /\ c.pending # "Crop" THEN Begin ELSE UNCHANGED begun
                /\ LET d == EndStroke(c, NextId, large)
                   IN IF Produced(c, d) THEN Done(m, d) ELSE Only(m, d)

\* The first click of the Number tool, before or after the end of its drag.
PlaceNumber(m) ==
    /\ phase = "open"
    /\ pointer \in {None, m}
    /\ canvas[m].tool = "Number"
    /\ Begin
    /\ Done(m, PushLayer(canvas[m], NextId, "Number"))
    /\ UNCHANGED pointer

TextClicked(m) ==
    /\ phase = "open"
    /\ pointer \in {None, m}
    /\ canvas[m].tool = "Text"
    /\ Begin
    /\ FreeTimers(canvas[m]) # {}
    /\ Refresh(m, StartText(canvas[m], NextId, NextTimer(canvas[m])))
    /\ UNCHANGED pointer

\* A double click on a text layer, or beside every one.
TextDoubleClicked(m) ==
    /\ phase = "open"
    /\ pointer \in {None, m}
    /\ canvas[m].tool \in {"Text", "Select"}
    /\ LET c == CommitPendingText(canvas[m])
       IN \/ IF canvas[m].text = None THEN Only(m, c) ELSE Refresh(m, c)
          \/ \E i \in DOMAIN c.layers :
                /\ c.layers[i].kind = "Text"
                /\ FreeTimers(c) # {}
                /\ Refresh(m, ReeditText(c, i, NextTimer(c)))
    /\ UNCHANGED <<pointer, begun>>

-----------------------------------------------------------------------------
\* A key that edits the buffer, which is empty afterwards or is not.
TextTyped(m) ==
    /\ phase = "open"
    /\ canvas[m].text # None
    /\ \E empty \in BOOLEAN : Only(m, [canvas[m] EXCEPT !.text.empty = empty])
    /\ UNCHANGED <<pointer, begun>>

TextEntered(m) ==
    /\ phase = "open"
    /\ canvas[m].text # None
    /\ Done(m, CommitPendingText(canvas[m]))
    /\ UNCHANGED <<pointer, begun>>

TextEscaped(m) ==
    /\ phase = "open"
    /\ canvas[m].text # None
    /\ Done(m, CancelPendingText(canvas[m]))
    /\ UNCHANGED <<pointer, begun>>

\* handle_select_key: Delete and Escape; an arrow key only moves the layer.
SelectKey(m) ==
    /\ phase = "open"
    /\ canvas[m].text = None
    /\ canvas[m].tool = "Select"
    /\ canvas[m].selection # None
    /\ \/ Refresh(m, DeleteSelected(canvas[m]))
       \/ Refresh(m, Deselect(canvas[m]))
    /\ UNCHANGED <<pointer, begun>>

Next ==
    \/ \E kind \in ToolKinds \ {"Select"} : ToolToggled(kind)
    \/ ClearPressed \/ Save
    \/ \E m \in Monitors :
        \/ UndoPressed(m) \/ DragBegin(m) \/ DragEnd(m)
        \/ PlaceNumber(m) \/ TextClicked(m) \/ TextDoubleClicked(m)
        \/ TextTyped(m) \/ TextEntered(m) \/ TextEscaped(m) \/ SelectKey(m)

Spec == Init /\ [][Next]_vars

-----------------------------------------------------------------------------
(***************************************************************************)
(* A selected or grabbed index names the layer it was taken for, whatever  *)
(* undo, clear, deletion, a text edit or a tool change in the middle of a  *)
(* drag have done to the layers since (canvas.rs, imp.selection: "any      *)
(* structural change to `layers` clears it").                              *)
(***************************************************************************)
GripsDenote ==
    \A m \in Monitors : /\ Denotes(canvas[m], canvas[m].selection)
                        /\ Denotes(canvas[m], canvas[m].manip)

(***************************************************************************)
(* A canvas has a blink timer exactly while it has a text edit, it is the  *)
(* only one and the one the canvas knows: none is leaked, and none that    *)
(* has ended is ever removed, which would panic (start_caret_blink).       *)
(***************************************************************************)
CaretTimerOwned ==
    \A m \in Monitors :
        /\ canvas[m].sources = {canvas[m].timer} \ {None}
        /\ canvas[m].text = None <=> canvas[m].timer = None
        /\ canvas[m].restore # None => canvas[m].text # None

(***************************************************************************)
(* The buttons, the shared tool and the tool of every canvas are one, a    *)
(* tool in hand has the pickers, and an edit that was not opened on a      *)
(* layer is open only under the Text tool: leaving it on one monitor ends  *)
(* the edits on all of them (set_tool, apply_tool, refresh_pickers).       *)
(***************************************************************************)
ToolsCoherent ==
    /\ lit = {current_tool} \ {"Select"}
    /\ current_tool # "Select" => shown = current_tool
    /\ \A m \in Monitors :
        /\ canvas[m].tool = current_tool
        /\ canvas[m].text # None =>
            \/ current_tool = "Text"
            \/ current_tool = "Select" /\ canvas[m].restore # None

(***************************************************************************)
(* The document of every canvas implements Document: an edit that is       *)
(* cancelled, emptied, committed or cut short by another click or tool     *)
(* neither loses nor doubles the layer it was opened on.                   *)
(***************************************************************************)
IdsOf(layers) == [i \in DOMAIN layers |-> layers[i].id]

\* The annotation that is out of the document, and the one not in it yet.
Lifted(c) == IF c.restore = None THEN None ELSE c.restore.id

Unplaced(c) == IF c.text = None \/ c.restore # None THEN {} ELSE {c.text.id}

docLayers == [m \in Monitors |-> IdsOf(canvas[m].layers)]
docLifted == [m \in Monitors |-> Lifted(canvas[m])]
docUsed == [m \in Monitors |-> (1..begun) \ Unplaced(canvas[m])]

Doc == INSTANCE Document WITH
    Annotations <- Ids, layers <- docLayers, lifted <- docLifted, used <- docUsed

DocumentSpec == Doc!Spec

(***************************************************************************)
(* Edit mode's Save writes what is on screen (canvas.rs, compose: "matches *)
(* the on-screen snapshot exactly").                                       *)
(***************************************************************************)
SavedAsShown ==
    phase = "saved" =>
        \A m \in Monitors : canvas[m].text # None => canvas[m].text.empty

=============================================================================
