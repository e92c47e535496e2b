------------------------------- MODULE Editing -------------------------------
(***************************************************************************)
(* What the user does with the tools of the annotation editor: types a     *)
(* label (TextEdit), draws a shape and reshapes it (Shapes), and sets the  *)
(* toolbar that goes with them (Pickers).  How the annotations of a whole  *)
(* document come and go is Annotating's; these three are what it leaves    *)
(* out, and share no state, so a behaviour follows one of them.            *)
(***************************************************************************)
EXTENDS Pickers

CONSTANTS
    Letters, Width, Newline, MaxBytes, MaxKept,             \* those of TextEdit
    Kinds, Points, DocSize, Nudges, MaxDrags, MaxNudges     \* those of Shapes

VARIABLES
    topic,                          \* "text", "shape" or "toolbar"
    pending_text, label,            \* those of TextEdit
    kind, tool, stroke, shape, selected, manip, pointer, held, drags, nudges

Text == INSTANCE TextEdit WITH layer <- label

Shape == INSTANCE Shapes WITH layer <- shape

ASSUME EditingAssumption ==
    /\ Width \in [Letters -> 1..4] /\ Newline \notin Letters
    /\ Letters \cap Text!NamedKeys = {}
    /\ None \notin Int /\ None \notin Seq(Text!Bytes) /\ None \notin Text!PendingText
    /\ None \notin Seq(Seq(Letters))
    /\ Points \subseteq Int \X Int /\ DocSize \in Nat \X Nat
    /\ Kinds \subseteq Shape!BoxKinds \cup Shape!PairKinds \cup {"Freehand", "Number", "Text", "Crop"}
    /\ Nudges \subseteq Shape!Arrows
    /\ {MaxBytes, MaxKept, MaxDrags, MaxNudges} \subseteq Nat

textVars == <<pending_text, label>>
shapeVars == <<kind, tool, stroke, shape, selected, manip, pointer, held, drags, nudges>>
vars == <<topic, textVars, shapeVars, pickersVars>>

Init ==
    /\ Text!TextInit /\ Shape!ShapesInit /\ PickersInit
    /\ topic \in {"text", "shape", "toolbar"}
    \* What a behaviour does not follow starts in one way.
    /\ topic # "shape" => kind = "Rect" /\ pointer = (CHOOSE p \in Points : TRUE)
    /\ topic # "toolbar" => /\ bar = CHOOSE b \in Bars : b.spec = OverlaySpec
                            /\ picker = "size"
                            /\ host = Placed(Head(Order))

Next ==
    \/ topic = "text" /\ Text!TextNext /\ UNCHANGED <<topic, shapeVars, pickersVars>>
    \/ topic = "shape" /\ Shape!ShapesNext /\ UNCHANGED <<topic, textVars, pickersVars>>
    \/ topic = "toolbar" /\ PickersNext /\ UNCHANGED <<topic, textVars, shapeVars>>

Spec == Init /\ [][Next]_vars

-----------------------------------------------------------------------------
Lines == INSTANCE LineEdit WITH
    lines <- IF pending_text = None THEN None ELSE Text!LinesOf(pending_text.buffer),
    row <- IF pending_text = None THEN 1
           ELSE Text!LineNumber(pending_text.buffer, pending_text.caret),
    col <- IF pending_text = None THEN 0
           ELSE Text!ColumnOf(pending_text.buffer, pending_text.caret),
    shown <- pending_text # None /\ pending_text.caret_visible,
    kept <- IF label = None THEN None ELSE Text!LinesOf(label)

\* Typing over bytes is typing over lines of characters: no key of the text
\* editor, in whatever order and however many bytes its characters have, leaves
\* half a character, puts the caret inside one or in another column than it
\* shows, or loses the text that was there.
LineEditSpec == Lines!Spec

\* What a drag of the Select tool has grabbed, a body, a handle, an end or a
\* rim, stays under the pointer through every move, with no drift.
GripFollows == Shape!GripFollows

=============================================================================
