------------------------------- MODULE Canvas -------------------------------
(***************************************************************************)
(* AnnotationCanvas of ui/canvas.rs: the document one monitor is drawn on, *)
(* the selection and the gesture that index into it, and the text edit     *)
(* that takes a layer out of it.  A canvas is a value; the functions of    *)
(* the code map it to a canvas.  Geometry, colours and the numbers of the  *)
(* Number tool are left out: a point is what it hits.                      *)
(***************************************************************************)
EXTENDS Naturals, SequencesExt

CONSTANTS
    Strokes,        \* the kinds drawn by a drag: Rect, Arrow, Freehand, ...
    Timers,         \* GLib source ids
    MaxAnnotations, \* bound on the annotations begun, on all canvases
    None            \* Option::None

ToolKinds == {"Select", "Text", "Number", "Crop"} \cup Strokes

Ids == 1..MaxAnnotations

\* A layer has an identity here, so that an index can be told stale.
Layers == [id : Ids, kind : ToolKinds]

\* An index into the layers, and (history) the annotation it was taken for.
Grips == [at : Nat \ {0}, of : Ids]

\* pending_text: the annotation it will be, and whether its buffer is empty.
Edits == [id : Ids, empty : BOOLEAN]

ASSUME CanvasAssumption ==
    /\ MaxAnnotations \in Nat
    /\ Strokes \cap {"Select", "Text", "Number", "Crop"} = {}
    /\ None \notin Strokes \cup {"Crop"} \cup Timers
    /\ None \notin Ids
    /\ None \notin Layers /\ None \notin Grips /\ None \notin Edits

(***************************************************************************)
(* tool       current_tool                                                 *)
(* layers     the document's layers, bottom first                          *)
(* crop       whether the document is cropped                              *)
(* selection  the selected layer                                           *)
(* manip      the layer that a Select drag moves or resizes                *)
(* pending    the kind of the stroke being dragged out                     *)
(* text       pending_text                                                 *)
(* restore    reedit_restore: the layer the edit was opened on             *)
(* timer      caret_timer: the source that the canvas knows                *)
(* sources    the blink sources alive in the main loop                     *)
(***************************************************************************)
Canvases ==
    [tool : ToolKinds, layers : Seq(Layers), crop : BOOLEAN,
     selection : Grips \cup {None}, manip : Grips \cup {None},
     pending : Strokes \cup {"Crop", None},
     text : Edits \cup {None},
     restore : Layers \cup {None},
     timer : Timers \cup {None}, sources : SUBSET Timers]

\* A canvas with an empty document, as a monitor's overlay is built.
SetDocument(kind) ==
    [tool |-> kind, layers |-> <<>>, crop |-> FALSE, selection |-> None,
     manip |-> None, pending |-> None, text |-> None, restore |-> None,
     timer |-> None, sources |-> {}]

PushLayer(c, id, kind) ==
    [c EXCEPT !.layers = Append(@, [id |-> id, kind |-> kind])]

\* Defect: the index counts from zero.
Grip_FromZero(c, i) == [at |-> i - 1, of |-> c.layers[i].id]

Grip(c, i) == [at |-> i, of |-> c.layers[i].id]

Release(c) == [c EXCEPT !.selection = None, !.manip = None]

-----------------------------------------------------------------------------
(* The text edit and its blinking caret *)

StopCaretBlink(c) == [c EXCEPT !.timer = None, !.sources = @ \ {c.timer}]

StartCaretBlink(c, t) ==
    LET stopped == StopCaretBlink(c)
    IN [stopped EXCEPT !.timer = t, !.sources = @ \cup {t}]

\* What an edit leaves in the document: the original when nothing is left of it.
Committed(c) ==
    CASE ~c.text.empty -> <<[id |-> c.text.id, kind |-> "Text"]>>
      [] c.text.empty /\ c.restore # None -> <<c.restore>>
      [] OTHER -> <<>>

\* Defect: the edit ends and its caret goes on blinking.
CommitPendingText_KeepsBlinking(c) ==
    IF c.text = None THEN c
    ELSE [c EXCEPT !.text = None, !.restore = None, !.layers = @ \o Committed(c)]

CommitPendingText(c) ==
    IF c.text = None THEN c
    ELSE [StopCaretBlink(c) EXCEPT !.text = None, !.restore = None,
                                   !.layers = @ \o Committed(c)]

\* Defect: Escape drops the layer that the edit was opened on.
CancelPendingText_DropsOriginal(c) ==
    IF c.text = None THEN c
    ELSE [StopCaretBlink(c) EXCEPT !.text = None, !.restore = None]

CancelPendingText(c) ==
    IF c.text = None THEN c
    ELSE [StopCaretBlink(c) EXCEPT
            !.text = None, !.restore = None,
            !.layers = IF c.restore = None THEN @ ELSE Append(@, c.restore)]

\* start_or_commit_text
StartText(c, id, t) ==
    [StartCaretBlink(CommitPendingText(c), t) EXCEPT
        !.text = [id |-> id, empty |-> TRUE]]

\* try_reedit_text on the text layer i of the document the commit leaves.
ReeditText(c, i, t) ==
    [StartCaretBlink(Release(c), t) EXCEPT
        !.text = [id |-> c.layers[i].id, empty |-> FALSE],
        !.restore = c.layers[i], !.layers = RemoveAt(@, i)]

-----------------------------------------------------------------------------
(* Tools, undo, clear and deletion *)

\* Defect: the edit is left open when another tool is picked.
SetTool_KeepsEdit(c, kind) == [c EXCEPT !.tool = kind]

SetTool(c, kind) ==
    LET d == IF kind = "Text" THEN c ELSE CommitPendingText(c)
    IN [d EXCEPT !.tool = kind]

\* Defect: the selection survives the layer.
Undo_KeepsSelection(c) ==
    IF c.layers # <<>>
    THEN [c EXCEPT !.layers = Front(@)]
    ELSE [c EXCEPT !.crop = FALSE]

Undo(c) ==
    IF c.layers # <<>>
    THEN [Release(c) EXCEPT !.layers = Front(@)]
    ELSE [Release(c) EXCEPT !.crop = FALSE]

ClearLayers(c) == [Release(c) EXCEPT !.layers = <<>>, !.crop = FALSE]

DeleteSelected(c) ==
    [Release(c) EXCEPT !.layers = RemoveAt(@, c.selection.at)]

-----------------------------------------------------------------------------
(* Drags *)

\* begin_select: the press hits a handle or the body of the selected layer,
\* the body of another layer, or nothing - then an old grab is left in place.
GrabSelected(c) == [c EXCEPT !.manip = c.selection]

SelectHit(c, i) == [c EXCEPT !.selection = Grip(c, i), !.manip = Grip(c, i)]

Deselect(c) == [c EXCEPT !.selection = None]

\* The end of a drag takes the stroke, whatever the tool is by now, and adds
\* it when it is large enough.
EndStroke(c, id, large) ==
    LET d == [c EXCEPT !.pending = None]
    IN CASE ~large -> d
         [] large /\ c.pending = "Crop" -> [d EXCEPT !.crop = TRUE]
         [] OTHER -> PushLayer(d, id, c.pending)

\* "committed": a layer more, or a crop where there was none.
Produced(c, d) == Len(c.layers) # Len(d.layers) \/ c.crop # d.crop

-----------------------------------------------------------------------------
\* The selection and the grab are indices of layers that exist, and of the
\* layers they were taken for.
Denotes(c, grip) ==
    grip # None => grip.at \in DOMAIN c.layers /\ c.layers[grip.at].id = grip.of

=============================================================================
