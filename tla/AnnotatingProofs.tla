--------------------------- MODULE AnnotatingProofs -------------------------
(***************************************************************************)
(* Proofs about Canvas and Annotating for any monitors, strokes and number *)
(* of annotations.                                                         *)
(***************************************************************************)
EXTENDS Annotating, SequenceTheorems, TLAPS

USE CanvasAssumption

(***************************************************************************)
(* What every canvas keeps.  Nothing shorter is inductive: an index stays  *)
(* good only because whatever shortens the layers forgets every index.     *)
(***************************************************************************)
Sound(c) ==
    /\ c \in Canvases
    /\ Denotes(c, c.selection)
    /\ Denotes(c, c.manip)
    /\ c.sources = {c.timer} \ {None}
    /\ c.text = None <=> c.timer = None
    /\ c.restore # None => c.text # None

\* A step that leaves tool and text edit alone.
SameEdit(c, d) == d.text = c.text /\ d.restore = c.restore /\ d.tool = c.tool

\* The canvas is under the tool, and an edit only where one can be.
Under(c, tool) ==
    /\ c.tool = tool
    /\ c.text # None => tool = "Text" \/ (tool = "Select" /\ c.restore # None)

-----------------------------------------------------------------------------
(* Sequences *)

(***************************************************************************)
(* The helpers that shorten a document return a document.                  *)
(***************************************************************************)
LEMMA FrontType ==
    ASSUME NEW S, NEW s \in Seq(S), s # <<>>
    PROVE  Front(s) \in Seq(S)
  BY DEF Front

LEMMA RemoveAtType ==
    ASSUME NEW S, NEW s \in Seq(S), NEW i \in DOMAIN s
    PROVE  RemoveAt(s, i) \in Seq(S)
<1>1. i \in 1..Len(s)
  OBVIOUS
<1>2. SubSeq(s, 1, i - 1) \in Seq(S) /\ SubSeq(s, i + 1, Len(s)) \in Seq(S)
  BY <1>1
<1>3. QED
  BY <1>2 DEF RemoveAt

(***************************************************************************)
(* What is added above leaves the indices below as they were.              *)
(***************************************************************************)
LEMMA AddedAbove ==
    ASSUME NEW c \in Canvases, NEW t \in Seq(Layers), NEW d \in Canvases,
           d.layers = c.layers \o t,
           NEW grip \in Grips \cup {None}, Denotes(c, grip)
    PROVE  Denotes(d, grip)
<1>1. c.layers \in Seq(Layers)
  BY DEF Canvases
<1>2. \A i \in DOMAIN c.layers :
        i \in DOMAIN d.layers /\ d.layers[i] = c.layers[i]
  BY <1>1
<1>3. QED
  BY <1>2 DEF Denotes

-----------------------------------------------------------------------------
(* The functions of the canvas *)

(***************************************************************************)
(* An edit that ends, in whatever way, leaves a sound canvas without edit. *)
(***************************************************************************)
LEMMA CommitSound ==
    ASSUME NEW c, Sound(c)
    PROVE  /\ Sound(CommitPendingText(c))
           /\ CommitPendingText(c).text = None
           /\ CommitPendingText(c).sources = {}
           /\ CommitPendingText(c).tool = c.tool
           /\ CommitPendingText(c).restore = None
<1> DEFINE d == CommitPendingText(c)
<1>0. c \in Canvases
  BY DEF Sound
<1>1. CASE c.text = None
  BY <1>1 DEF Sound, CommitPendingText
<1>2. CASE c.text # None
  <2>1. Committed(c) \in Seq(Layers)
    <3>1. /\ c.text \in Edits
          /\ c.restore = None \/ c.restore \in Layers
      BY <1>0, <1>2 DEF Canvases
    <3>2. [id |-> c.text.id, kind |-> "Text"] \in Layers
      BY <3>1 DEF Layers, Edits, ToolKinds
    <3>3. \A l \in Layers : <<l>> \in Seq(Layers)
      OBVIOUS
    <3>4. <<>> \in Seq(Layers)
      OBVIOUS
    <3>5. CASE ~c.text.empty
      BY <3>2, <3>3, <3>5 DEF Committed
    <3>6. CASE c.text.empty /\ c.restore # None
      BY <3>1, <3>3, <3>6 DEF Committed
    <3>7. CASE c.text.empty /\ c.restore = None
      BY <3>4, <3>7 DEF Committed
    <3>8. QED
      BY <3>1, <3>5, <3>6, <3>7 DEF Edits
  <2>2. d = [StopCaretBlink(c) EXCEPT !.text = None, !.restore = None,
                                      !.layers = @ \o Committed(c)]
    BY <1>2 DEF CommitPendingText
  <2>3. c.layers \o Committed(c) \in Seq(Layers)
    BY <1>0, <2>1 DEF Canvases
  <2>4. /\ d \in Canvases
        /\ d.layers = c.layers \o Committed(c)
        /\ d.selection = c.selection /\ d.manip = c.manip
        /\ d.text = None /\ d.restore = None /\ d.timer = None
        /\ d.sources = c.sources \ {c.timer} /\ d.tool = c.tool
    <3> DEFINE r == StopCaretBlink(c)
               ls == c.layers \o Committed(c)
    <3>1. /\ r \in Canvases /\ r.layers = c.layers
          /\ r.selection = c.selection /\ r.manip = c.manip
          /\ r.timer = None /\ r.sources = c.sources \ {c.timer} /\ r.tool = c.tool
      BY <1>0 DEF StopCaretBlink, Canvases
    <3>2. d = [r EXCEPT !.text = None, !.restore = None, !.layers = ls]
      BY <2>2, <3>1
    <3> HIDE DEF r, ls
    <3>3. /\ d.layers = ls /\ d.selection = r.selection /\ d.manip = r.manip
          /\ d.text = None /\ d.restore = None /\ d.timer = r.timer
          /\ d.sources = r.sources /\ d.tool = r.tool
      BY <3>1, <3>2 DEF Canvases
    <3>4. d \in Canvases
      BY <2>3, <3>1, <3>2 DEF Canvases, ls
    <3>5. QED
      BY <3>1, <3>3, <3>4 DEF ls
  <2>5. Denotes(d, d.selection) /\ Denotes(d, d.manip)
    BY <1>0, <2>1, <2>4, AddedAbove DEF Sound, Canvases
  <2>6. QED
    BY <2>4, <2>5 DEF Sound
<1>3. QED
  BY <1>1, <1>2

LEMMA CancelSound ==
    ASSUME NEW c, Sound(c)
    PROVE  Sound(CancelPendingText(c)) /\ CancelPendingText(c).text = None
<1> DEFINE d == CancelPendingText(c)
           s == IF c.restore = None THEN <<>> ELSE <<c.restore>>
<1>0. c \in Canvases
  BY DEF Sound
<1>1. CASE c.text = None
  BY <1>1 DEF Sound, CancelPendingText
<1>2. CASE c.text # None
  <2>1. s \in Seq(Layers)
    BY <1>0 DEF Canvases
  <2>2. /\ c.layers \o s \in Seq(Layers)
        /\ c.layers \o s = IF c.restore = None THEN c.layers
                           ELSE Append(c.layers, c.restore)
    BY <1>0, <2>1 DEF Canvases
  <2>3. d = [StopCaretBlink(c) EXCEPT !.text = None, !.restore = None,
                                      !.layers = c.layers \o s]
    BY <1>0, <1>2, <2>2 DEF CancelPendingText, StopCaretBlink, Canvases
  <2> HIDE DEF s
  <2>4. /\ d \in Canvases
        /\ d.layers = c.layers \o s
        /\ d.selection = c.selection /\ d.manip = c.manip
        /\ d.text = None /\ d.restore = None /\ d.timer = None
        /\ d.sources = c.sources \ {c.timer}
    BY <1>0, <2>2, <2>3 DEF StopCaretBlink, Canvases
  <2>5. Denotes(d, d.selection) /\ Denotes(d, d.manip)
    BY <1>0, <2>1, <2>4, AddedAbove DEF Sound, Canvases
  <2>6. QED
    BY <2>4, <2>5 DEF Sound
<1>3. QED
  BY <1>1, <1>2

LEMMA SetToolSound ==
    ASSUME NEW c, Sound(c), NEW kind \in ToolKinds
    PROVE  /\ Sound(SetTool(c, kind))
           /\ SetTool(c, kind).tool = kind
           /\ kind # "Text" => SetTool(c, kind).text = None
<1> DEFINE d == IF kind = "Text" THEN c ELSE CommitPendingText(c)
<1>1. Sound(d) /\ (kind # "Text" => d.text = None)
  BY CommitSound
<1>2. SetTool(c, kind) = [d EXCEPT !.tool = kind]
  BY DEF SetTool
<1> HIDE DEF d
<1>3. QED
  BY <1>1, <1>2 DEF Sound, Canvases, Denotes

(***************************************************************************)
(* A stroke, a number, a selection, a text edit: what the gestures do.     *)
(***************************************************************************)
LEMMA PushSound ==
    ASSUME NEW c, Sound(c), NEW id \in Ids, NEW kind \in ToolKinds
    PROVE  Sound(PushLayer(c, id, kind)) /\ SameEdit(c, PushLayer(c, id, kind))
<1> DEFINE l == [id |-> id, kind |-> kind]
           d == PushLayer(c, id, kind)
<1>1. c \in Canvases /\ l \in Layers
  BY DEF Sound, Layers
<1>2. /\ <<l>> \in Seq(Layers)
      /\ Append(c.layers, l) = c.layers \o <<l>>
      /\ Append(c.layers, l) \in Seq(Layers)
  BY <1>1 DEF Canvases
<1>3. d = [c EXCEPT !.layers = Append(c.layers, l)]
  BY DEF PushLayer
<1> HIDE DEF l
<1>4. /\ d \in Canvases /\ d.layers = c.layers \o <<l>>
      /\ d.selection = c.selection /\ d.manip = c.manip
      /\ d.text = c.text /\ d.restore = c.restore /\ d.timer = c.timer
      /\ d.sources = c.sources /\ d.tool = c.tool
  BY <1>1, <1>2, <1>3 DEF Canvases
<1>5. Denotes(d, d.selection) /\ Denotes(d, d.manip)
  BY <1>1, <1>2, <1>4, AddedAbove DEF Sound, Canvases
<1>6. QED
  BY <1>4, <1>5 DEF Sound, SameEdit

LEMMA EndStrokeSound ==
    ASSUME NEW c, Sound(c), c.pending # None, NEW large \in BOOLEAN, NEW id,
           large /\ c.pending # "Crop" => id \in Ids
    PROVE  Sound(EndStroke(c, id, large)) /\ SameEdit(c, EndStroke(c, id, large))
<1> DEFINE d == [c EXCEPT !.pending = None]
<1>1. /\ Sound(d) /\ Sound([d EXCEPT !.crop = TRUE])
      /\ SameEdit(c, d) /\ SameEdit(c, [d EXCEPT !.crop = TRUE])
  BY DEF Sound, SameEdit, Canvases, Denotes
<1>2. c.pending \in Strokes \cup {"Crop"}
  BY DEF Sound, Canvases
<1>3. CASE ~large
  BY <1>1, <1>3 DEF EndStroke
<1>4. CASE large /\ c.pending = "Crop"
  BY <1>1, <1>4 DEF EndStroke
<1>5. CASE large /\ c.pending # "Crop"
  <2>1. Sound(PushLayer(d, id, c.pending)) /\ SameEdit(d, PushLayer(d, id, c.pending))
    BY <1>1, <1>2, <1>5, PushSound DEF ToolKinds
  <2>2. QED
    BY <1>1, <2>1, <1>5 DEF EndStroke, SameEdit
<1>6. QED
  BY <1>3, <1>4, <1>5

(***************************************************************************)
(* A new edit and its timer, on a canvas that has neither.                 *)
(***************************************************************************)
OpenEdit(d, t, e, r, s) ==
    [StartCaretBlink(d, t) EXCEPT !.text = e, !.restore = r, !.layers = s]

LEMMA EditOpens ==
    ASSUME NEW d, Sound(d), d.text = None, NEW t \in Timers,
           NEW e \in Edits, NEW r \in Layers \cup {None},
           NEW s \in Seq(Layers), NEW f, f = OpenEdit(d, t, e, r, s)
    PROVE  /\ f \in Canvases /\ f.text = e /\ f.tool = d.tool
           /\ f.selection = d.selection /\ f.manip = d.manip
           /\ f.layers = s /\ f.restore = r
           /\ f.sources = {f.timer} \ {None}
           /\ f.text # None /\ f.timer # None
<1>1. d \in Canvases /\ d.sources = {} /\ d.timer = None
  BY DEF Sound
<1>2. StartCaretBlink(d, t) = [d EXCEPT !.timer = t, !.sources = {t}]
  BY <1>1 DEF StartCaretBlink, StopCaretBlink, Canvases
<1>3. e # None /\ t # None
  OBVIOUS
<1>4. f = [d EXCEPT !.timer = t, !.sources = {t},
                    !.text = e, !.restore = r, !.layers = s]
  BY <1>1, <1>2 DEF OpenEdit, Canvases
<1>5. /\ f \in Canvases /\ f.text = e /\ f.tool = d.tool
      /\ f.selection = d.selection /\ f.manip = d.manip
      /\ f.layers = s /\ f.restore = r
      /\ f.sources = {t} /\ f.timer = t
  <2> DEFINE g == [d EXCEPT !.timer = t, !.sources = {t}]
  <2>1. /\ g \in Canvases /\ g.sources = {t} /\ g.timer = t
        /\ g.selection = d.selection /\ g.manip = d.manip /\ g.tool = d.tool
    BY <1>1 DEF Canvases
  <2>2. f = [g EXCEPT !.text = e, !.restore = r, !.layers = s]
    BY <1>4
  <2> HIDE DEF g
  <2>3. QED
    BY <2>1, <2>2 DEF Canvases
<1>6. QED
  BY <1>3, <1>5

LEMMA StartTextSound ==
    ASSUME NEW c, Sound(c), NEW id \in Ids, NEW t \in Timers
    PROVE  Sound(StartText(c, id, t)) /\ StartText(c, id, t).tool = c.tool
<1> DEFINE d == CommitPendingText(c)
           e == [id |-> id, empty |-> TRUE]
           f == OpenEdit(d, t, e, None, d.layers)
<1>1. Sound(d) /\ d.text = None /\ d.restore = None /\ d.tool = c.tool
  BY CommitSound
<1>2. d \in Canvases /\ d.layers \in Seq(Layers) /\ e \in Edits
  BY <1>1 DEF Sound, Canvases, Edits
<1>3. StartText(c, id, t) = f
  BY <1>1, <1>2 DEF StartText, OpenEdit, StartCaretBlink, StopCaretBlink, Canvases
<1> HIDE DEF d, e
<1>f. f = OpenEdit(d, t, e, None, d.layers)
  OBVIOUS
<1> HIDE DEF f
<1>4. /\ f \in Canvases /\ f.text # None /\ f.timer # None /\ f.tool = d.tool
      /\ f.selection = d.selection /\ f.manip = d.manip
      /\ f.layers = d.layers /\ f.sources = {f.timer} \ {None}
  BY <1>1, <1>2, <1>f, EditOpens
<1>5. QED
  BY <1>1, <1>3, <1>4 DEF Sound, Denotes

(***************************************************************************)
(* The indices are forgotten before a layer leaves the document.           *)
(***************************************************************************)
LEMMA ReleaseSound ==
    ASSUME NEW c, Sound(c), NEW s \in Seq(Layers), NEW crop \in BOOLEAN
    PROVE  /\ Sound(Release(c))
           /\ Release(c).text = c.text /\ Release(c).tool = c.tool
           /\ Sound([Release(c) EXCEPT !.layers = s])
           /\ Sound([Release(c) EXCEPT !.crop = crop])
           /\ Sound([Release(c) EXCEPT !.layers = s, !.crop = crop])
  BY DEF Sound, Release, Denotes, Canvases

LEMMA ReeditTextSound ==
    ASSUME NEW c, Sound(c), c.text = None,
           NEW i \in DOMAIN c.layers, NEW t \in Timers
    PROVE  /\ Sound(ReeditText(c, i, t))
           /\ ReeditText(c, i, t).tool = c.tool
           /\ ReeditText(c, i, t).restore # None
<1> DEFINE d == Release(c)
           e == [id |-> c.layers[i].id, empty |-> FALSE]
           r == c.layers[i]
           s == RemoveAt(c.layers, i)
           f == OpenEdit(d, t, e, r, s)
<1>1. c \in Canvases /\ c.layers \in Seq(Layers) /\ r \in Layers
  BY DEF Sound, Canvases
<1>2. s \in Seq(Layers) /\ e \in Edits
  BY <1>1, RemoveAtType DEF Layers, Edits
<1>3. Sound(d) /\ d.text = None /\ d.tool = c.tool
  BY <1>1, ReleaseSound
<1>4. /\ d.layers = c.layers
      /\ d.selection = None /\ d.manip = None
  BY <1>1 DEF Release, Canvases
<1>5. ReeditText(c, i, t) = f
  BY <1>1, <1>4 DEF ReeditText, OpenEdit, Release, StartCaretBlink, StopCaretBlink, Canvases
<1> HIDE DEF d, e, r, s
<1>f. f = OpenEdit(d, t, e, r, s)
  OBVIOUS
<1> HIDE DEF f
<1>6. /\ f \in Canvases /\ f.text # None /\ f.timer # None /\ f.tool = d.tool
      /\ f.selection = d.selection /\ f.manip = d.manip
      /\ f.sources = {f.timer} \ {None} /\ f.restore = r
  BY <1>1, <1>2, <1>3, <1>f, EditOpens
<1>s. r # None
  BY <1>1
<1>7. QED
  BY <1>3, <1>4, <1>5, <1>6, <1>s DEF Sound, Denotes

LEMMA ShorteningSound ==
    ASSUME NEW c, Sound(c)
    PROVE  /\ Sound(Undo(c)) /\ SameEdit(c, Undo(c))
           /\ Sound(ClearLayers(c)) /\ SameEdit(c, ClearLayers(c))
           /\ c.selection # None =>
                Sound(DeleteSelected(c)) /\ SameEdit(c, DeleteSelected(c))
<1>1. c \in Canvases /\ c.layers \in Seq(Layers) /\ <<>> \in Seq(Layers)
  BY DEF Sound, Canvases
<1>2. Release(c).layers = c.layers /\ Release(c) \in Canvases
      /\ SameEdit(c, Release(c))
  BY <1>1 DEF Release, SameEdit, Canvases
<1>3. Sound(Undo(c)) /\ SameEdit(c, Undo(c))
  <2>1. CASE c.layers # <<>>
    BY <2>1, <1>1, <1>2, FrontType, ReleaseSound DEF Undo, SameEdit, Canvases
  <2>2. CASE c.layers = <<>>
    BY <2>2, <1>1, <1>2, ReleaseSound DEF Undo, SameEdit, Canvases
  <2>3. QED
    BY <2>1, <2>2
<1>4. Sound(ClearLayers(c)) /\ SameEdit(c, ClearLayers(c))
  BY <1>1, <1>2, ReleaseSound DEF ClearLayers, SameEdit, Canvases
<1>5. ASSUME c.selection # None
      PROVE  Sound(DeleteSelected(c)) /\ SameEdit(c, DeleteSelected(c))
  <2>1. RemoveAt(c.layers, c.selection.at) \in Seq(Layers)
    BY <1>1, <1>5, RemoveAtType DEF Sound, Denotes
  <2>2. QED
    BY <1>1, <1>2, <2>1, ReleaseSound DEF DeleteSelected, SameEdit, Canvases
<1>6. QED
  BY <1>3, <1>4, <1>5

(***************************************************************************)
(* Picking a layer, letting go of it, a stroke that begins, a key typed.   *)
(***************************************************************************)
LEMMA GripsSound ==
    ASSUME NEW c, Sound(c)
    PROVE  /\ Sound(GrabSelected(c)) /\ SameEdit(c, GrabSelected(c))
           /\ Sound(Deselect(c)) /\ SameEdit(c, Deselect(c))
           /\ \A i \in DOMAIN c.layers :
                Sound(SelectHit(c, i)) /\ SameEdit(c, SelectHit(c, i))
           /\ Sound([c EXCEPT !.manip = None])
           /\ SameEdit(c, [c EXCEPT !.manip = None])
           /\ \A kind \in Strokes \cup {"Crop", None} :
                /\ Sound([c EXCEPT !.pending = kind])
                /\ SameEdit(c, [c EXCEPT !.pending = kind])
<1>1. c \in Canvases
  BY DEF Sound
<1>2. \A i \in DOMAIN c.layers :
        Sound(SelectHit(c, i)) /\ SameEdit(c, SelectHit(c, i))
  <2> SUFFICES ASSUME NEW i \in DOMAIN c.layers
               PROVE  Sound(SelectHit(c, i)) /\ SameEdit(c, SelectHit(c, i))
    OBVIOUS
  <2>1. Grip(c, i) \in Grips /\ Denotes(c, Grip(c, i))
    <3>1. c.layers \in Seq(Layers)
      BY <1>1 DEF Canvases
    <3>2. c.layers[i] \in Layers /\ i \in Nat \ {0}
      BY <3>1
    <3>3. c.layers[i].id \in Ids
      BY <3>2 DEF Layers
    <3>4. QED
      BY <3>2, <3>3 DEF Grip, Grips, Denotes
  <2> DEFINE g == Grip(c, i)
  <2> HIDE DEF g
  <2>2. SelectHit(c, i) = [c EXCEPT !.selection = g, !.manip = g]
    BY DEF SelectHit, g
  <2>3. QED
    BY <1>1, <2>1, <2>2 DEF Sound, SameEdit, Denotes, Canvases, g
<1>3. QED
  BY <1>1, <1>2 DEF Sound, SameEdit, Denotes, Canvases, GrabSelected, Deselect

LEMMA TypedSound ==
    ASSUME NEW c, Sound(c), c.text # None, NEW empty \in BOOLEAN
    PROVE  LET d == [c EXCEPT !.text.empty = empty]
           IN /\ Sound(d) /\ d.tool = c.tool /\ d.restore = c.restore
<1> DEFINE e == [c.text EXCEPT !.empty = empty]
<1>1. c \in Canvases /\ c.text \in Edits
  BY DEF Sound, Canvases
<1>2. e \in Edits /\ e # None
  BY <1>1 DEF Edits
<1>3. [c EXCEPT !.text.empty = empty] = [c EXCEPT !.text = e]
  BY <1>1 DEF Canvases
<1> HIDE DEF e
<1>4. QED
  BY <1>1, <1>2, <1>3 DEF Sound, Denotes, Canvases

-----------------------------------------------------------------------------
(* The overlay *)

(***************************************************************************)
(* The inductive invariant: sound canvases, each under the shared tool.    *)
(***************************************************************************)
CanvasInv ==
    /\ canvas \in [Monitors -> Canvases]
    /\ \A m \in Monitors : Sound(canvas[m]) /\ Under(canvas[m], current_tool)
    /\ current_tool \in ToolKinds
    /\ lit = {current_tool} \ {"Select"}
    /\ shown \in ToolKinds
    /\ current_tool # "Select" => shown = current_tool

RestInv ==
    /\ pointer \in Monitors \cup {None}
    /\ phase \in {"open", "saved"}
    /\ begun \in 0..MaxAnnotations

Inv == CanvasInv /\ RestInv

(***************************************************************************)
(* A change of tool ends the edits of every canvas, unless it is to Text.  *)
(***************************************************************************)
LEMMA ApplyToolKeeps ==
    ASSUME NEW cs, \A m \in Monitors : Sound(cs[m]),
           NEW kind \in ToolKinds, ApplyTool(cs, kind)
    PROVE  CanvasInv'
<1>1. \A m \in Monitors :
        /\ canvas'[m] = SetTool(cs[m], kind)
        /\ Sound(canvas'[m]) /\ canvas'[m].tool = kind
        /\ kind # "Text" => canvas'[m].text = None
  BY SetToolSound DEF ApplyTool
<1>2. canvas' \in [Monitors -> Canvases]
  BY <1>1 DEF ApplyTool, Sound
<1>3. QED
  BY <1>1, <1>2 DEF CanvasInv, ApplyTool, Under

LEMMA DoneKeeps ==
    ASSUME CanvasInv, NEW m \in Monitors, NEW c, Sound(c), Done(m, c)
    PROVE  CanvasInv'
<1> DEFINE cs == [canvas EXCEPT ![m] = c]
<1>1. \A n \in Monitors : Sound(cs[n])
  BY DEF CanvasInv
<1>2. ApplyTool(cs, "Select") /\ "Select" \in ToolKinds
  BY DEF Done, ToolKinds
<1> HIDE DEF cs
<1>3. QED
  BY <1>1, <1>2, ApplyToolKeeps

(***************************************************************************)
(* A step of one canvas that leaves the tool alone.                        *)
(***************************************************************************)
LEMMA OneKeeps ==
    ASSUME CanvasInv, NEW m \in Monitors, NEW c, Sound(c),
           Under(c, current_tool), Only(m, c) \/ Refresh(m, c)
    PROVE  CanvasInv'
<1>1. /\ canvas' = [canvas EXCEPT ![m] = c]
      /\ current_tool' = current_tool /\ lit' = lit
      /\ shown' \in {shown, EffectiveKind(c)}
  BY DEF Only, Refresh
<1>2. \A n \in Monitors : Sound(canvas'[n]) /\ Under(canvas'[n], current_tool)
  BY <1>1 DEF CanvasInv
<1>3. canvas' \in [Monitors -> Canvases]
  BY <1>1 DEF CanvasInv, Sound
<1>4. SelectedKind(c) \in ToolKinds
  <2>1. c.layers \in Seq(Layers)
    BY DEF Sound, Canvases
  <2>2. ASSUME c.selection.at \in DOMAIN c.layers
        PROVE  c.layers[c.selection.at].kind \in ToolKinds
    <3>1. c.layers[c.selection.at] \in Layers
      BY <2>1, <2>2
    <3>2. QED
      BY <3>1 DEF Layers
  <2>3. QED
    BY <2>2 DEF SelectedKind, ToolKinds
<1>5. /\ EffectiveKind(c) \in ToolKinds
      /\ current_tool # "Select" => EffectiveKind(c) = current_tool
  <2>1. CASE c.text # None
    BY <2>1 DEF EffectiveKind, Under, ToolKinds
  <2>2. CASE c.text = None
    BY <1>4, <2>2 DEF EffectiveKind, CanvasInv
  <2>3. QED
    BY <2>1, <2>2
<1>6. QED
  BY <1>1, <1>2, <1>3, <1>5 DEF CanvasInv

LEMMA SameKeeps ==
    ASSUME CanvasInv, NEW m \in Monitors, NEW c, Sound(c),
           SameEdit(canvas[m], c), Only(m, c) \/ Refresh(m, c)
    PROVE  CanvasInv'
<1>1. Under(c, current_tool)
  BY DEF CanvasInv, SameEdit, Under
<1>2. QED
  BY <1>1, OneKeeps

LEMMA InitInv == Init => Inv
<1> SUFFICES ASSUME Init PROVE Inv
  OBVIOUS
<1>1. SetDocument("Select") \in Canvases
  BY DEF SetDocument, Canvases, ToolKinds
<1>2. Sound(SetDocument("Select")) /\ Under(SetDocument("Select"), "Select")
  BY <1>1 DEF Sound, Under, Denotes, SetDocument
<1>3. QED
  BY <1>1, <1>2 DEF Init, Inv, CanvasInv, RestInv, ToolKinds

(***************************************************************************)
(* The next annotation has an identity within the bound.                   *)
(***************************************************************************)
LEMMA BeginKeeps ==
    ASSUME RestInv, Begin
    PROVE  NextId \in Ids /\ begun' \in 0..MaxAnnotations
  BY DEF RestInv, Begin, NextId, Ids

LEMMA DragBeginKeeps ==
    ASSUME CanvasInv, NEW m \in Monitors, DragBegin(m)
    PROVE  CanvasInv'
<1> DEFINE c == canvas[m]
<1>1. Sound(c) /\ SameEdit(c, c)
  BY DEF CanvasInv, SameEdit
<1>2. CASE Only(m, GrabSelected(c))
  BY <1>1, <1>2, GripsSound, SameKeeps
<1>3. CASE \E i \in DOMAIN c.layers : Refresh(m, SelectHit(c, i))
  BY <1>1, <1>3, GripsSound, SameKeeps
<1>4. CASE Refresh(m, Deselect(c))
  BY <1>1, <1>4, GripsSound, SameKeeps
<1>5. CASE Only(m, c)
  BY <1>1, <1>5, SameKeeps
<1>6. CASE c.tool \in Strokes \cup {"Crop"} /\ Only(m, [c EXCEPT !.pending = c.tool])
  BY <1>1, <1>6, GripsSound, SameKeeps
<1>7. QED
  BY <1>2, <1>3, <1>4, <1>5, <1>6 DEF DragBegin

LEMMA DragEndKeeps ==
    ASSUME Inv, NEW m \in Monitors, DragEnd(m)
    PROVE  CanvasInv' /\ begun' \in 0..MaxAnnotations
<1> DEFINE c == canvas[m]
<1>1. CanvasInv /\ RestInv /\ Sound(c) /\ SameEdit(c, c)
  BY DEF Inv, CanvasInv, SameEdit
<1>2. CASE Only(m, [c EXCEPT !.manip = None]) /\ UNCHANGED begun
  BY <1>1, <1>2, GripsSound, SameKeeps DEF RestInv
<1>3. CASE Only(m, c) /\ UNCHANGED begun
  BY <1>1, <1>3, SameKeeps DEF RestInv
<1>4. CASE /\ c.pending # None
           /\ \E large \in BOOLEAN :
                /\ IF large /\ c.pending # "Crop" THEN Begin ELSE UNCHANGED begun
                /\ LET d == EndStroke(c, NextId, large)
                   IN IF Produced(c, d) THEN Done(m, d) ELSE Only(m, d)
  <2>1. PICK large \in BOOLEAN :
            /\ IF large /\ c.pending # "Crop" THEN Begin ELSE UNCHANGED begun
            /\ \/ Done(m, EndStroke(c, NextId, large))
               \/ Only(m, EndStroke(c, NextId, large))
    BY <1>4
  <2>2. /\ begun' \in 0..MaxAnnotations
        /\ large /\ c.pending # "Crop" => NextId \in Ids
    BY <1>1, <2>1, BeginKeeps DEF RestInv
  <2> DEFINE d == EndStroke(c, NextId, large)
  <2>3. Sound(d) /\ SameEdit(c, d)
    BY <1>1, <1>4, <2>2, EndStrokeSound
  <2> HIDE DEF d, c
  <2>4. CanvasInv'
    BY <1>1, <2>1, <2>3, DoneKeeps, SameKeeps DEF d, c
  <2>5. QED
    BY <2>2, <2>4
<1>5. QED
  BY <1>2, <1>3, <1>4 DEF DragEnd

LEMMA PlaceNumberKeeps ==
    ASSUME Inv, NEW m \in Monitors, PlaceNumber(m)
    PROVE  CanvasInv' /\ begun' \in 0..MaxAnnotations
<1>1. CanvasInv /\ RestInv /\ Sound(canvas[m]) /\ "Number" \in ToolKinds
  BY DEF Inv, CanvasInv, ToolKinds
<1>2. NextId \in Ids /\ begun' \in 0..MaxAnnotations
  BY <1>1, BeginKeeps DEF PlaceNumber
<1>3. Sound(PushLayer(canvas[m], NextId, "Number"))
  BY <1>1, <1>2, PushSound
<1>4. QED
  BY <1>1, <1>2, <1>3, DoneKeeps DEF PlaceNumber

LEMMA TextClickedKeeps ==
    ASSUME Inv, NEW m \in Monitors, TextClicked(m)
    PROVE  CanvasInv' /\ begun' \in 0..MaxAnnotations
<1> DEFINE t == NextTimer(canvas[m])
           d == StartText(canvas[m], NextId, t)
<1>1. CanvasInv /\ RestInv /\ Sound(canvas[m]) /\ Under(canvas[m], current_tool)
  BY DEF Inv, CanvasInv
<1>2. NextId \in Ids /\ begun' \in 0..MaxAnnotations
  BY <1>1, BeginKeeps DEF TextClicked
<1>3. t \in Timers
  BY DEF TextClicked, NextTimer, FreeTimers
<1>4. Sound(d) /\ d.tool = canvas[m].tool
  BY <1>1, <1>2, <1>3, StartTextSound
<1>5. canvas[m].tool = "Text" /\ Refresh(m, d)
  BY DEF TextClicked
<1>6. Under(d, current_tool)
  BY <1>1, <1>4, <1>5 DEF Under
<1>7. QED
  BY <1>1, <1>2, <1>4, <1>5, <1>6, OneKeeps

LEMMA TextDoubleClickedKeeps ==
    ASSUME CanvasInv, NEW m \in Monitors, TextDoubleClicked(m)
    PROVE  CanvasInv'
<1> DEFINE c == CommitPendingText(canvas[m])
<1>1. Sound(canvas[m]) /\ Under(canvas[m], current_tool)
  BY DEF CanvasInv
<1>2. Sound(c) /\ c.text = None /\ c.tool = canvas[m].tool
  BY <1>1, CommitSound
<1>3. Under(c, current_tool)
  BY <1>1, <1>2 DEF Under
<1>4. CASE Only(m, c) \/ Refresh(m, c)
  BY <1>2, <1>3, <1>4, OneKeeps
<1>5. CASE \E i \in DOMAIN c.layers :
            /\ FreeTimers(c) # {}
            /\ Refresh(m, ReeditText(c, i, NextTimer(c)))
  <2>1. PICK i \in DOMAIN c.layers :
            FreeTimers(c) # {} /\ Refresh(m, ReeditText(c, i, NextTimer(c)))
    BY <1>5
  <2> DEFINE d == ReeditText(c, i, NextTimer(c))
  <2>2. NextTimer(c) \in Timers
    BY <2>1 DEF NextTimer, FreeTimers
  <2>3. Sound(d) /\ d.tool = c.tool /\ d.restore # None
    BY <1>2, <2>2, ReeditTextSound
  <2>4. canvas[m].tool \in {"Text", "Select"}
    BY DEF TextDoubleClicked
  <2>5. Under(d, current_tool)
    BY <1>1, <1>2, <2>3, <2>4 DEF Under
  <2>6. QED
    BY <2>1, <2>3, <2>5, OneKeeps
<1>6. QED
  BY <1>4, <1>5 DEF TextDoubleClicked

LEMMA TextKeysKeep ==
    ASSUME CanvasInv, NEW m \in Monitors,
           TextTyped(m) \/ TextEntered(m) \/ TextEscaped(m)
    PROVE  CanvasInv'
<1>1. Sound(canvas[m]) /\ Under(canvas[m], current_tool)
  BY DEF CanvasInv
<1>2. CASE TextTyped(m)
  <2>1. PICK empty \in BOOLEAN :
            canvas[m].text # None /\ Only(m, [canvas[m] EXCEPT !.text.empty = empty])
    BY <1>2 DEF TextTyped
  <2> DEFINE d == [canvas[m] EXCEPT !.text.empty = empty]
  <2>2. Sound(d) /\ d.tool = canvas[m].tool /\ d.restore = canvas[m].restore
    BY <1>1, <2>1, TypedSound
  <2> HIDE DEF d
  <2>3. Under(d, current_tool)
    BY <1>1, <2>1, <2>2 DEF Under
  <2>4. QED
    BY <2>1, <2>2, <2>3, OneKeeps DEF d
<1>3. CASE TextEntered(m)
  BY <1>1, <1>3, CommitSound, DoneKeeps DEF TextEntered
<1>4. CASE TextEscaped(m)
  BY <1>1, <1>4, CancelSound, DoneKeeps DEF TextEscaped
<1>5. QED
  BY <1>2, <1>3, <1>4

LEMMA SelectKeyKeeps ==
    ASSUME CanvasInv, NEW m \in Monitors, SelectKey(m)
    PROVE  CanvasInv'
<1>1. Sound(canvas[m]) /\ canvas[m].selection # None
  BY DEF CanvasInv, SelectKey
<1>2. CASE Refresh(m, DeleteSelected(canvas[m]))
  BY <1>1, <1>2, ShorteningSound, SameKeeps
<1>3. CASE Refresh(m, Deselect(canvas[m]))
  BY <1>1, <1>3, GripsSound, SameKeeps
<1>4. QED
  BY <1>2, <1>3 DEF SelectKey

LEMMA ClearKeeps ==
    ASSUME CanvasInv, ClearPressed
    PROVE  CanvasInv'
<1>1. \A m \in Monitors : /\ canvas'[m] = ClearLayers(canvas[m])
                          /\ Sound(canvas'[m])
                          /\ Under(canvas'[m], current_tool)
  BY ShorteningSound DEF CanvasInv, ClearPressed, SameEdit, Under
<1>2. canvas' \in [Monitors -> Canvases]
  BY <1>1 DEF ClearPressed, Sound
<1>3. QED
  BY <1>1, <1>2 DEF CanvasInv, ClearPressed

(***************************************************************************)
(* Every step keeps the invariant.                                         *)
(***************************************************************************)
LEMMA StepInv == Inv /\ [Next]_vars => Inv'
<1> SUFFICES ASSUME Inv, [Next]_vars PROVE Inv'
  OBVIOUS
<1>0. CanvasInv /\ RestInv
  BY DEF Inv
<1>1. CASE \E kind \in ToolKinds \ {"Select"} : ToolToggled(kind)
  <2>1. \E kind \in ToolKinds : ApplyTool(canvas, kind)
    BY <1>1 DEF ToolToggled, ToolKinds
  <2>2. CanvasInv'
    BY <1>0, <2>1, ApplyToolKeeps DEF CanvasInv
  <2>3. QED
    BY <1>0, <1>1, <2>2 DEF Inv, RestInv, ToolToggled
<1>2. CASE ClearPressed
  BY <1>0, <1>2, ClearKeeps DEF Inv, RestInv, ClearPressed
<1>3. CASE Save
  BY <1>0, <1>3 DEF Inv, RestInv, CanvasInv, Save
<1>4. ASSUME NEW m \in Monitors, UndoPressed(m) PROVE Inv'
  <2>1. CanvasInv'
    BY <1>0, <1>4, ShorteningSound, SameKeeps DEF UndoPressed, CanvasInv
  <2>2. QED
    BY <1>0, <1>4, <2>1 DEF Inv, RestInv, UndoPressed, Only
<1>5. ASSUME NEW m \in Monitors, DragBegin(m) PROVE Inv'
  <2>1. CanvasInv'
    BY <1>0, <1>5, DragBeginKeeps
  <2>2. QED
    BY <1>0, <1>5, <2>1 DEF Inv, RestInv, DragBegin, Only, Refresh
<1>6. ASSUME NEW m \in Monitors, DragEnd(m) PROVE Inv'
  <2>1. phase' = phase /\ pointer' = None
    BY <1>6 DEF DragEnd, Only, Done
  <2>2. QED
    BY <1>0, <1>6, <2>1, DragEndKeeps DEF Inv, RestInv
<1>7. ASSUME NEW m \in Monitors, PlaceNumber(m) PROVE Inv'
  BY <1>0, <1>7, PlaceNumberKeeps DEF Inv, RestInv, PlaceNumber, Done
<1>8. ASSUME NEW m \in Monitors, TextClicked(m) PROVE Inv'
  BY <1>0, <1>8, TextClickedKeeps DEF Inv, RestInv, TextClicked, Refresh
<1>9. ASSUME NEW m \in Monitors, TextDoubleClicked(m) PROVE Inv'
  <2>1. phase' = phase /\ pointer' = pointer /\ begun' = begun
    BY <1>9 DEF TextDoubleClicked, Only, Refresh
  <2>2. QED
    BY <1>0, <1>9, <2>1, TextDoubleClickedKeeps DEF Inv, RestInv
<1>10. ASSUME NEW m \in Monitors, TextTyped(m) \/ TextEntered(m) \/ TextEscaped(m)
       PROVE  Inv'
  <2>1. phase' = phase /\ pointer' = pointer /\ begun' = begun
    BY <1>10 DEF TextTyped, TextEntered, TextEscaped, Only, Done
  <2>2. QED
    BY <1>0, <1>10, <2>1, TextKeysKeep DEF Inv, RestInv
<1>11. ASSUME NEW m \in Monitors, SelectKey(m) PROVE Inv'
  <2>1. phase' = phase /\ pointer' = pointer /\ begun' = begun
    BY <1>11 DEF SelectKey, Refresh
  <2>2. QED
    BY <1>0, <1>11, <2>1, SelectKeyKeeps DEF Inv, RestInv
<1>12. CASE UNCHANGED vars
  BY <1>12 DEF Inv, CanvasInv, RestInv, vars
<1>13. QED
  BY <1>1, <1>2, <1>3, <1>4, <1>5, <1>6, <1>7, <1>8, <1>9, <1>10, <1>11, <1>12
     DEF Next

LEMMA Invariance == Spec => []Inv
  BY InitInv, StepInv, PTL DEF Spec

(***************************************************************************)
(* The canvases, the tool and the buttons keep their types.                *)
(***************************************************************************)
THEOREM TypeCorrect == Spec => []TypeOK
<1>1. Inv => TypeOK
  BY DEF Inv, CanvasInv, RestInv, TypeOK
<1>2. QED
  BY <1>1, Invariance, PTL

(***************************************************************************)
(* For any monitors and any number of annotations, a selected or grabbed   *)
(* index is that of the annotation it was taken for.                       *)
(***************************************************************************)
THEOREM GripsSafe == Spec => []GripsDenote
<1>1. Inv => GripsDenote
  BY DEF Inv, CanvasInv, Sound, GripsDenote
<1>2. QED
  BY <1>1, Invariance, PTL

(***************************************************************************)
(* No blink timer is leaked and none is removed twice.                     *)
(***************************************************************************)
THEOREM TimerSafe == Spec => []CaretTimerOwned
<1>1. Inv => CaretTimerOwned
  BY DEF Inv, CanvasInv, Sound, CaretTimerOwned
<1>2. QED
  BY <1>1, Invariance, PTL

(***************************************************************************)
(* One tool on all monitors, and a text edit only where it may be open.    *)
(***************************************************************************)
THEOREM ToolsSafe == Spec => []ToolsCoherent
<1>1. Inv => ToolsCoherent
  BY DEF Inv, CanvasInv, Under, ToolsCoherent
<1>2. QED
  BY <1>1, Invariance, PTL

-----------------------------------------------------------------------------
(* The document *)

HIDE CanvasAssumption

(***************************************************************************)
(* The annotations of layers that are joined, cut out or removed.          *)
(***************************************************************************)
LEMMA IdsOfType ==
    ASSUME NEW s \in Seq(Layers)
    PROVE  /\ IdsOf(s) \in Seq(Ids)
           /\ Len(IdsOf(s)) = Len(s)
           /\ \A i \in 1..Len(s) : IdsOf(s)[i] = s[i].id
<1>1. ASSUME NEW i \in 1..Len(s) PROVE s[i].id \in Ids
  <2>1. s[i] \in Layers
    OBVIOUS
  <2>2. QED
    BY <2>1 DEF Layers
<1>2. IdsOf(s) \in Seq(Ids)
  BY <1>1 DEF IdsOf
<1>3. Len(IdsOf(s)) = Len(s)
  BY DEF IdsOf
<1>4. \A i \in 1..Len(s) : IdsOf(s)[i] = s[i].id
  BY DEF IdsOf
<1> QED
  BY <1>2, <1>3, <1>4

LEMMA IdsOfOnly ==
    ASSUME NEW s \in Seq(Layers), NEW a \in Seq(Ids),
           Len(a) = Len(s), \A i \in 1..Len(s) : a[i] = s[i].id
    PROVE  a = IdsOf(s)
<1>1. DOMAIN a = DOMAIN s /\ a = [i \in DOMAIN a |-> a[i]]
  OBVIOUS
<1> QED
  BY <1>1 DEF IdsOf

LEMMA IdsOfConcat ==
    ASSUME NEW s \in Seq(Layers), NEW t \in Seq(Layers)
    PROVE  IdsOf(s \o t) = IdsOf(s) \o IdsOf(t)
<1> SUFFICES ASSUME NEW a \in Seq(Ids), NEW b \in Seq(Ids),
                    Len(a) = Len(s), \A i \in 1..Len(s) : a[i] = s[i].id,
                    Len(b) = Len(t), \A i \in 1..Len(t) : b[i] = t[i].id
             PROVE  a \o b = IdsOf(s \o t)
  BY IdsOfType
<1>1. /\ a \o b \in Seq(Ids) /\ Len(a \o b) = Len(a) + Len(b)
      /\ \A i \in 1..(Len(a) + Len(b)) :
            (a \o b)[i] = IF i <= Len(a) THEN a[i] ELSE b[i - Len(a)]
  BY ConcatProperties
<1>2. /\ s \o t \in Seq(Layers) /\ Len(s \o t) = Len(s) + Len(t)
      /\ \A i \in 1..(Len(s) + Len(t)) :
            (s \o t)[i] = IF i <= Len(s) THEN s[i] ELSE t[i - Len(s)]
  BY ConcatProperties
<1>3. \A i \in 1..Len(s \o t) : (a \o b)[i] = (s \o t)[i].id
  BY <1>1, <1>2
<1>4. Len(a \o b) = Len(s \o t)
  BY <1>1, <1>2
<1> QED
  BY <1>1, <1>2, <1>3, <1>4, IdsOfOnly

LEMMA IdsOfSubSeq ==
    ASSUME NEW s \in Seq(Layers), NEW m \in 1..(Len(s) + 1), NEW n \in 0..Len(s)
    PROVE  /\ SubSeq(s, m, n) \in Seq(Layers)
           /\ IdsOf(SubSeq(s, m, n)) = SubSeq(IdsOf(s), m, n)
<1> SUFFICES ASSUME NEW a \in Seq(Ids), Len(a) = Len(s),
                    \A i \in 1..Len(s) : a[i] = s[i].id
             PROVE  /\ SubSeq(s, m, n) \in Seq(Layers)
                    /\ SubSeq(a, m, n) = IdsOf(SubSeq(s, m, n))
  BY IdsOfType
<1>1. /\ SubSeq(a, m, n) \in Seq(Ids) /\ SubSeq(s, m, n) \in Seq(Layers)
      /\ Len(SubSeq(a, m, n)) = Len(SubSeq(s, m, n))
  OBVIOUS
<1>2. \A i \in 1..Len(SubSeq(s, m, n)) : SubSeq(a, m, n)[i] = SubSeq(s, m, n)[i].id
  OBVIOUS
<1> QED
  BY <1>1, <1>2, IdsOfOnly

LEMMA IdsOfRemove ==
    ASSUME NEW s \in Seq(Layers), NEW i \in 1..Len(s)
    PROVE  IdsOf(RemoveAt(s, i)) = RemoveAt(IdsOf(s), i)
<1> DEFINE a == SubSeq(s, 1, i - 1)
           b == SubSeq(s, i + 1, Len(s))
<1>1. a \in Seq(Layers) /\ IdsOf(a) = SubSeq(IdsOf(s), 1, i - 1)
  BY IdsOfSubSeq
<1>2. b \in Seq(Layers) /\ IdsOf(b) = SubSeq(IdsOf(s), i + 1, Len(IdsOf(s)))
  <2>1. i + 1 \in 1..(Len(s) + 1) /\ Len(s) \in 0..Len(s) /\ Len(IdsOf(s)) = Len(s)
    BY IdsOfType
  <2>2. QED
    BY <2>1, IdsOfSubSeq
<1>3. IdsOf(a \o b) = IdsOf(a) \o IdsOf(b)
  BY <1>1, <1>2, IdsOfConcat
<1>4. QED
  BY <1>1, <1>2, <1>3 DEF RemoveAt

LEMMA IdsOfShort ==
    /\ IdsOf(<<>>) = <<>>
    /\ \A l \in Layers : IdsOf(<<l>>) = <<l.id>>
<1>1. IdsOf(<<>>) = <<>>
  BY DEF IdsOf
<1>2. ASSUME NEW l \in Layers PROVE IdsOf(<<l>>) = <<l.id>>
  BY DEF IdsOf
<1>3. QED
  BY <1>1, <1>2

(***************************************************************************)
(* Two annotations at most are added in a step.                            *)
(***************************************************************************)
LEMMA ShortSeqs ==
    /\ \A n \in Nat : <<>> \in SeqOf(Ids, n) /\ IsInjective(<<>>) /\ Range(<<>>) = {}
    /\ \A x \in Ids :
        /\ \A n \in {1, 2} : <<x>> \in SeqOf(Ids, n)
        /\ IsInjective(<<x>>) /\ Range(<<x>>) = {x}
    /\ \A x, y \in Ids :
        /\ <<x, y>> \in SeqOf(Ids, 2) /\ Range(<<x, y>>) = {x, y}
        /\ x # y => IsInjective(<<x, y>>)
<1>1. \A s, n, k : k \in 0..n /\ s \in [1..k -> Ids] => s \in SeqOf(Ids, n)
  BY Zenon DEF SeqOf
<1>2. ASSUME NEW n \in Nat PROVE <<>> \in SeqOf(Ids, n)
  <2>1. <<>> \in [1..0 -> Ids] /\ 0 \in 0..n
    OBVIOUS
  <2>2. QED
    BY <1>1, <2>1
<1>3. IsInjective(<<>>) /\ Range(<<>>) = {}
  BY DEF IsInjective, Range
<1>4. ASSUME NEW x \in Ids
      PROVE  /\ <<x>> \in [1..1 -> Ids] /\ IsInjective(<<x>>)
             /\ Range(<<x>>) = {x}
  BY DEF IsInjective, Range
<1>5. ASSUME NEW x \in Ids, NEW y \in Ids
      PROVE  /\ <<x, y>> \in [1..2 -> Ids] /\ Range(<<x, y>>) = {x, y}
             /\ x # y => IsInjective(<<x, y>>)
  BY DEF IsInjective, Range
<1>6. 1 \in 0..1 /\ 1 \in 0..2 /\ 2 \in 0..2
  OBVIOUS
<1>7. QED
  BY <1>1, <1>2, <1>3, <1>4, <1>5, <1>6

(***************************************************************************)
(* What is in the document, edited or about to be in it has been begun,    *)
(* and an edit opened on a layer is an edit of that annotation.            *)
(***************************************************************************)
Known(c, b) ==
    /\ \A i \in DOMAIN c.layers : c.layers[i].id \in 1..b
    /\ c.text # None => c.text.id \in 1..b
    /\ c.restore # None => c.restore.id = c.text.id

DocInv == \A m \in Monitors : Known(canvas[m], begun)

\* What the end of an edit may add to the layers of c.
Left(c, e) ==
    \/ e = <<>> /\ c.restore = None
    \/ c.text # None /\ \E l \in Layers : e = <<l>> /\ l.id = c.text.id

(***************************************************************************)
(* An edit that ends leaves its annotation, the one it was opened on in    *)
(* its place, or nothing if it was opened on none.                         *)
(***************************************************************************)
LEMMA CommitLeaves ==
    ASSUME NEW c, Sound(c), c.restore # None => c.restore.id = c.text.id
    PROVE  \E e \in Seq(Layers) :
             Left(c, e) /\ CommitPendingText(c).layers = c.layers \o e
<1>0. c \in Canvases /\ c.layers \in Seq(Layers)
  BY DEF Sound, Canvases
<1>1. CASE c.text = None
  <2>1. c.restore = None /\ CommitPendingText(c).layers = c.layers \o <<>>
    BY <1>0, <1>1 DEF Sound, CommitPendingText
  <2>2. <<>> \in Seq(Layers) /\ Left(c, <<>>)
    BY <2>1 DEF Left
  <2>3. QED
    BY <2>1, <2>2, Zenon
<1>2. CASE c.text # None
  <2>1. /\ c.text \in Edits
        /\ c.restore = None \/ c.restore \in Layers
    BY <1>0, <1>2 DEF Canvases
  <2>2. [id |-> c.text.id, kind |-> "Text"] \in Layers
    BY <2>1 DEF Layers, Edits, ToolKinds
  <2>3. Left(c, Committed(c)) /\ Committed(c) \in Seq(Layers)
    <3>1. CASE ~c.text.empty
      BY <1>2, <2>2, <3>1 DEF Committed, Left
    <3>2. CASE c.text.empty /\ c.restore # None
      BY <1>2, <2>1, <3>2 DEF Committed, Left
    <3>3. CASE c.text.empty /\ c.restore = None
      BY <3>3 DEF Committed, Left
    <3>4. QED
      BY <2>1, <3>1, <3>2, <3>3 DEF Edits
  <2>4. CommitPendingText(c).layers = c.layers \o Committed(c)
    BY <1>0, <1>2 DEF CommitPendingText, StopCaretBlink, Canvases
  <2>5. QED
    BY <2>3, <2>4
<1>3. QED
  BY <1>1, <1>2

LEMMA CancelLeaves ==
    ASSUME NEW c, Sound(c), c.restore # None => c.restore.id = c.text.id
    PROVE  /\ \E e \in Seq(Layers) :
                Left(c, e) /\ CancelPendingText(c).layers = c.layers \o e
           /\ CancelPendingText(c).restore = None
<1>0. c \in Canvases /\ c.layers \in Seq(Layers)
  BY DEF Sound, Canvases
<1>1. CASE c.text = None
  <2>1. CancelPendingText(c) = c /\ c.restore = None /\ c.layers = c.layers \o <<>>
    BY <1>0, <1>1 DEF Sound, CancelPendingText
  <2>2. <<>> \in Seq(Layers) /\ Left(c, <<>>)
    BY <2>1 DEF Left
  <2>3. QED
    BY <2>1, <2>2, Zenon
<1>2. CASE c.text # None
  <2> DEFINE e == IF c.restore = None THEN <<>> ELSE <<c.restore>>
             s == IF c.restore = None THEN c.layers ELSE Append(c.layers, c.restore)
  <2>1. c.restore = None \/ c.restore \in Layers
    BY <1>0 DEF Canvases
  <2>2. e \in Seq(Layers) /\ s = c.layers \o e
    <3>1. CASE c.restore = None
      BY <1>0, <3>1
    <3>2. CASE c.restore # None
      <4>1. c.restore \in Layers
        BY <2>1, <3>2
      <4>2. <<c.restore>> \in Seq(Layers)
        BY <4>1
      <4>3. Append(c.layers, c.restore) = c.layers \o <<c.restore>>
        BY <1>0, <4>1, AppendIsConcat
      <4>4. QED
        BY <3>2, <4>2, <4>3
    <3>3. QED
      BY <3>1, <3>2
  <2>3. Left(c, e)
    BY <1>2, <2>1 DEF Left
  <2>4. CancelPendingText(c).layers = s /\ CancelPendingText(c).restore = None
    BY <1>0, <1>2 DEF CancelPendingText, StopCaretBlink, Canvases
  <2>5. QED
    BY <2>2, <2>3, <2>4
<1>3. QED
  BY <1>1, <1>2

LEMMA NoneIsNoId == \A i \in Ids : i # None
  BY CanvasAssumption, Zenon

LEMMA ShortConcat ==
    \A x, y \in Ids : /\ <<x>> \o <<>> = <<x>> /\ <<>> \o <<y>> = <<y>>
                     /\ <<x>> \o <<y>> = <<x, y>>
<1>1. ASSUME NEW x \in Ids, NEW y \in Ids PROVE <<x>> \o <<y>> = <<x, y>>
  <2>1. <<x>> \in Seq(Ids) /\ <<x, y>> \in Seq(Ids)
    OBVIOUS
  <2>2. Append(<<x>>, y) \in Seq(Ids) /\ Len(Append(<<x>>, y)) = 2
    BY <2>1, AppendProperties
  <2>3. \A i \in 1..2 : Append(<<x>>, y)[i] = <<x, y>>[i]
    BY <2>1, AppendProperties
  <2>4. Append(<<x>>, y) = <<x, y>>
    BY <2>1, <2>2, <2>3, SeqEqual
  <2>5. QED
    BY <2>1, <2>4, AppendIsConcat
<1>2. \A x \in Ids : <<x>> \o <<>> = <<x>> /\ <<>> \o <<x>> = <<x>>
  OBVIOUS
<1>3. QED
  BY <1>1, <1>2

-----------------------------------------------------------------------------
(***************************************************************************)
(* The document of one monitor, before and after a step.                   *)
(***************************************************************************)
UsedBy(c, b) == (1..b) \ Unplaced(c)

LEMMA DocAt ==
    ASSUME NEW m \in Monitors
    PROVE  /\ docLayers[m] = IdsOf(canvas[m].layers)
           /\ docLifted[m] = Lifted(canvas[m])
           /\ docUsed[m] = UsedBy(canvas[m], begun)
           /\ docLayers'[m] = IdsOf(canvas'[m].layers)
           /\ docLifted'[m] = Lifted(canvas'[m])
           /\ docUsed'[m] = UsedBy(canvas'[m], begun')
  BY DEF docLayers, docLifted, docUsed, UsedBy

\* What the hypotheses of a step that adds s have in common.
Adds(m, s) ==
    /\ IsInjective(s)
    /\ Range(s) \subseteq
        (Ids \ UsedBy(canvas[m], begun)) \cup ({Lifted(canvas[m])} \ {None})
    /\ UsedBy(canvas[m], begun) \cup Range(s) \subseteq UsedBy(canvas'[m], begun')

LEMMA GrowDoc ==
    ASSUME NEW m \in Monitors, NEW s \in SeqOf(Ids, 2), Adds(m, s),
           IdsOf(canvas'[m].layers) = IdsOf(canvas[m].layers) \o s,
           Lifted(canvas'[m]) = IF Lifted(canvas[m]) \in Range(s) THEN None
                                ELSE Lifted(canvas[m])
    PROVE  Doc!Grow(m)
<1>1. Doc!Added(m, s) /\ s \in Doc!SeqOf(Ids, 2)
  BY DocAt DEF Adds, Doc!Added, Doc!Range, Range, Doc!IsInjective, IsInjective,
               Doc!SeqOf, SeqOf
<1>2. QED
  BY <1>1, DocAt, Zenon DEF Doc!Grow, Doc!Range, Range

LEMMA LiftDoc ==
    ASSUME NEW m \in Monitors, NEW s \in SeqOf(Ids, 1), Adds(m, s),
           Lifted(canvas[m]) = None \/ Lifted(canvas[m]) \in Range(s),
           NEW i \in 1..Len(IdsOf(canvas[m].layers) \o s),
           IdsOf(canvas'[m].layers) = RemoveAt(IdsOf(canvas[m].layers) \o s, i),
           Lifted(canvas'[m]) = (IdsOf(canvas[m].layers) \o s)[i]
    PROVE  Doc!Lift(m)
<1>1. Doc!Added(m, s) /\ s \in Doc!SeqOf(Ids, 1)
  BY DocAt DEF Adds, Doc!Added, Doc!Range, Range, Doc!IsInjective, IsInjective,
               Doc!SeqOf, SeqOf
<1>2. QED
  BY <1>1, DocAt, Zenon DEF Doc!Lift, Doc!Range, Range, Doc!RemoveAt, RemoveAt

LEMMA ConcatKnown ==
    ASSUME NEW s \in Seq(Layers), NEW t \in Seq(Layers), NEW n,
           \A i \in DOMAIN s : s[i].id \in n, \A i \in DOMAIN t : t[i].id \in n
    PROVE  \A i \in DOMAIN (s \o t) : (s \o t)[i].id \in n
<1>1. /\ s \o t \in Seq(Layers) /\ Len(s \o t) = Len(s) + Len(t)
      /\ \A i \in 1..(Len(s) + Len(t)) :
            (s \o t)[i] = IF i <= Len(s) THEN s[i] ELSE t[i - Len(s)]
  BY ConcatProperties
<1>2. DOMAIN s = 1..Len(s) /\ DOMAIN t = 1..Len(t) /\ DOMAIN (s \o t) = 1..Len(s \o t)
  BY <1>1
<1>3. QED
  BY <1>1, <1>2

LEMMA RemoveKnown ==
    ASSUME NEW s \in Seq(Layers), NEW i \in 1..Len(s), NEW n,
           \A j \in DOMAIN s : s[j].id \in n
    PROVE  \A j \in DOMAIN RemoveAt(s, i) : RemoveAt(s, i)[j].id \in n
<1> DEFINE a == SubSeq(s, 1, i - 1)
           b == SubSeq(s, i + 1, Len(s))
<1>1. a \in Seq(Layers) /\ \A j \in DOMAIN a : a[j].id \in n
  OBVIOUS
<1>2. b \in Seq(Layers) /\ \A j \in DOMAIN b : b[j].id \in n
  OBVIOUS
<1> HIDE DEF a, b
<1>3. \A j \in DOMAIN (a \o b) : (a \o b)[j].id \in n
  BY <1>1, <1>2, ConcatKnown
<1>4. QED
  BY <1>3 DEF a, b, RemoveAt

(***************************************************************************)
(* What the end of an edit adds is new to the document, or the annotation  *)
(* that was taken out of it.                                               *)
(***************************************************************************)
LEMMA LeftIds ==
    ASSUME Inv, DocInv, NEW m \in Monitors, NEW e \in Seq(Layers), Left(canvas[m], e)
    PROVE  LET c == canvas[m] y == c.text.id IN
           /\ e = <<>> => IdsOf(e) = <<>> /\ c.restore = None
           /\ e # <<>> => /\ c.text # None /\ IdsOf(e) = <<y>>
                          /\ y \in Ids /\ y \in 1..begun
                          /\ y \notin UsedBy(c, begun) \/ (y = Lifted(c) /\ y # None)
           /\ c.restore # None => Lifted(c) = y
<1> DEFINE c == canvas[m]
           y == c.text.id
<1>1. Known(c, begun)
  BY DEF DocInv
<1>2. begun \in 0..MaxAnnotations
  BY DEF Inv, RestInv
<1>3. c.restore # None => Lifted(c) = y
  BY <1>1, Zenon DEF Lifted, Known
<1>4. CASE e = <<>>
  <2>1. c.restore = None
    BY <1>4 DEF Left
  <2>2. QED
    BY <1>3, <1>4, <2>1, IdsOfShort
<1>5. CASE e # <<>>
  <2>1. PICK l \in Layers : c.text # None /\ e = <<l>> /\ l.id = y
    BY <1>5 DEF Left
  <2>2. y \in 1..begun
    BY <1>1, <2>1, Zenon DEF Known
  <2>3. 1..begun \subseteq Ids
    BY <1>2, CanvasAssumption DEF Ids
  <2>4. IdsOf(e) = <<y>>
    BY <2>1, IdsOfShort
  <2>5. c.restore = None => y \notin UsedBy(c, begun)
    BY <2>1 DEF UsedBy, Unplaced
  <2>6. y # None
    BY <2>2, <2>3, NoneIsNoId
  <2>7. QED
    BY <1>3, <1>5, <2>1, <2>2, <2>3, <2>4, <2>5, <2>6
<1>6. QED
  BY <1>4, <1>5

(***************************************************************************)
(* An edit ends, or none is open, and at most one more annotation has been *)
(* begun: as a layer (p) under what the edit leaves (e), or as a new edit. *)
(***************************************************************************)
LEMMA GrowMoves ==
    ASSUME Inv, DocInv, NEW m \in Monitors,
           begun' \in {begun, begun + 1}, begun' \in 0..MaxAnnotations,
           NEW p \in Seq(Layers), NEW e \in Seq(Layers),
           \/ p = <<>>
           \/ begun' = begun + 1 /\ \E l \in Layers : p = <<l>> /\ l.id = begun + 1,
           Left(canvas[m], e),
           canvas'[m].layers = canvas[m].layers \o (p \o e),
           canvas'[m].restore = None,
           \/ canvas'[m].text = None
           \/ p = <<>> /\ begun' = begun + 1 /\ canvas'[m].text.id = begun + 1
    PROVE  Doc!Grow(m) /\ Known(canvas'[m], begun')
<1> DEFINE c == canvas[m]
           d == canvas'[m]
           x == begun + 1
           y == c.text.id
           s == IdsOf(p) \o IdsOf(e)
<1>1. /\ Sound(c) /\ Known(c, begun) /\ begun \in Nat /\ begun \in 0..MaxAnnotations
      /\ c.layers \in Seq(Layers)
  BY DEF Inv, CanvasInv, RestInv, DocInv, Sound, Canvases
<1>2. IdsOf(d.layers) = IdsOf(c.layers) \o s
  <2>1. p \o e \in Seq(Layers)
    BY ConcatProperties
  <2>2. QED
    BY <1>1, <2>1, IdsOfConcat, Zenon
<1>3. /\ p = <<>> => IdsOf(p) = <<>>
      /\ p # <<>> => begun' = x /\ x \in Ids /\ IdsOf(p) = <<x>>
  BY <1>1, IdsOfShort DEF Ids
<1>4. /\ e = <<>> => IdsOf(e) = <<>> /\ c.restore = None
      /\ e # <<>> => /\ c.text # None /\ IdsOf(e) = <<y>>
                     /\ y \in Ids /\ y \in 1..begun
                     /\ y \notin UsedBy(c, begun) \/ (y = Lifted(c) /\ y # None)
      /\ c.restore # None => Lifted(c) = y
  BY LeftIds
<1>5. /\ s \in SeqOf(Ids, 2) /\ IsInjective(s)
      /\ Range(s) = (IF p = <<>> THEN {} ELSE {x}) \cup (IF e = <<>> THEN {} ELSE {y})
  <2>1. CASE p = <<>> /\ e = <<>>
    <3>1. s = <<>>
      BY <1>3, <1>4, <2>1
    <3>2. QED
      BY <2>1, <3>1, ShortSeqs
  <2>2. CASE p # <<>> /\ e = <<>>
    <3>1. s = <<x>> /\ x \in Ids
      BY <1>3, <1>4, <2>2, ShortConcat
    <3>2. QED
      BY <2>2, <3>1, ShortSeqs
  <2>3. CASE p = <<>> /\ e # <<>>
    <3>1. s = <<y>> /\ y \in Ids
      BY <1>3, <1>4, <2>3, ShortConcat
    <3>2. QED
      BY <2>3, <3>1, ShortSeqs
  <2>4. CASE p # <<>> /\ e # <<>>
    <3>1. x \in Ids /\ y \in Ids /\ IdsOf(p) = <<x>> /\ IdsOf(e) = <<y>>
      BY <1>3, <1>4, <2>4
    <3>2. s = <<x, y>>
      BY <3>1, ShortConcat
    <3>3. x # y
      BY <1>1, <1>4, <2>4
    <3>4. <<x, y>> \in SeqOf(Ids, 2) /\ IsInjective(<<x, y>>) /\ Range(<<x, y>>) = {x, y}
      BY <3>1, <3>3, ShortSeqs, Zenon
    <3>5. QED
      BY <2>4, <3>2, <3>4
  <2>5. QED
    BY <2>1, <2>2, <2>3, <2>4
<1> HIDE DEF s
<1>6. Adds(m, s)
  <2>1. x \in Ids => x \notin UsedBy(c, begun)
    BY <1>1 DEF UsedBy
  <2>3. UsedBy(d, begun') = IF d.text = None THEN 1..begun' ELSE 1..begun
    BY <1>1 DEF UsedBy, Unplaced
  <2>4. UsedBy(c, begun) \cup Range(s) \subseteq UsedBy(d, begun')
    BY <1>1, <1>3, <1>4, <1>5, <2>3 DEF UsedBy
  <2>5. QED
    BY <1>3, <1>4, <1>5, <2>1, <2>4 DEF Adds
<1>7. Lifted(d) = IF Lifted(c) \in Range(s) THEN None ELSE Lifted(c)
  <2>1. Lifted(d) = None
    BY DEF Lifted
  <2>2. c.restore # None => Lifted(c) \in Range(s)
    BY <1>4, <1>5
  <2>3. QED
    BY <2>1, <2>2 DEF Lifted
<1>8. Known(d, begun')
  <2>1. p \o e \in Seq(Layers) /\ d.layers \in Seq(Layers)
    BY <1>1
  <2>2. \A i \in DOMAIN p : p[i].id \in 1..begun'
    BY <1>1
  <2>3. \A i \in DOMAIN e : e[i].id \in 1..begun'
    BY <1>1 DEF Left, Known
  <2>4. \A i \in DOMAIN c.layers : c.layers[i].id \in 1..begun'
    BY <1>1 DEF Known
  <2>5. \A i \in DOMAIN (p \o e) : (p \o e)[i].id \in 1..begun'
    BY <2>2, <2>3, ConcatKnown
  <2>6. \A i \in DOMAIN d.layers : d.layers[i].id \in 1..begun'
    BY <1>1, <2>1, <2>4, <2>5, ConcatKnown
  <2>7. d.text # None => d.text.id \in 1..begun'
    BY <1>1
  <2>8. QED
    BY <2>6, <2>7 DEF Known
<1>9. QED
  BY <1>2, <1>5, <1>6, <1>7, <1>8, GrowDoc

(***************************************************************************)
(* The document, the edit and what it was opened on are as they were.      *)
(***************************************************************************)
LEMMA SameMoves ==
    ASSUME Inv, DocInv, NEW m \in Monitors, begun' \in {begun, begun + 1},
           canvas'[m].layers = canvas[m].layers,
           canvas'[m].restore = canvas[m].restore,
           canvas'[m].text = None <=> canvas[m].text = None,
           canvas[m].text # None => canvas'[m].text.id = canvas[m].text.id
    PROVE  Doc!Grow(m) /\ Known(canvas'[m], begun')
<1> DEFINE c == canvas[m]
           d == canvas'[m]
<1>1. Known(c, begun) /\ begun \in Nat /\ c.layers \in Seq(Layers)
  BY DEF Inv, CanvasInv, RestInv, DocInv, Sound, Canvases
<1>2. 1..begun \subseteq 1..begun'
  BY <1>1
<1>3. Known(d, begun')
  BY <1>1, <1>2 DEF Known
<1>4. <<>> \in SeqOf(Ids, 2) /\ IsInjective(<<>>) /\ Range(<<>>) = {}
  BY ShortSeqs
<1>5. Unplaced(d) = Unplaced(c) /\ Lifted(d) = Lifted(c)
  BY DEF Unplaced, Lifted
<1>6. Adds(m, <<>>)
  BY <1>2, <1>4, <1>5 DEF Adds, UsedBy
<1>7. IdsOf(d.layers) = IdsOf(c.layers) \o <<>>
  BY <1>1, IdsOfType
<1>8. QED
  BY <1>3, <1>4, <1>5, <1>6, <1>7, GrowDoc

(***************************************************************************)
(* An edit is opened on a layer, after the one before has ended.           *)
(***************************************************************************)
LEMMA LiftMoves ==
    ASSUME Inv, DocInv, NEW m \in Monitors, begun' = begun,
           NEW e \in Seq(Layers), Left(canvas[m], e),
           NEW s, s = canvas[m].layers \o e, NEW i \in DOMAIN s,
           canvas'[m].layers = RemoveAt(s, i),
           canvas'[m].restore = s[i], canvas'[m].text.id = s[i].id
    PROVE  Doc!Lift(m) /\ Known(canvas'[m], begun')
<1> DEFINE c == canvas[m]
           d == canvas'[m]
           y == c.text.id
<1>1. Known(c, begun) /\ begun \in Nat /\ c.layers \in Seq(Layers)
  BY DEF Inv, CanvasInv, RestInv, DocInv, Sound, Canvases
<1>2. s \in Seq(Layers) /\ i \in 1..Len(s) /\ s[i] \in Layers
  BY <1>1
<1>3. /\ e = <<>> => IdsOf(e) = <<>> /\ c.restore = None
      /\ e # <<>> => /\ c.text # None /\ IdsOf(e) = <<y>>
                     /\ y \in Ids /\ y \in 1..begun
                     /\ y \notin UsedBy(c, begun) \/ (y = Lifted(c) /\ y # None)
      /\ c.restore # None => Lifted(c) = y
  BY LeftIds
<1>4. \A j \in DOMAIN s : s[j].id \in 1..begun
  <2>1. \A j \in DOMAIN e : e[j].id \in 1..begun
    BY <1>1 DEF Left, Known
  <2>2. \A j \in DOMAIN c.layers : c.layers[j].id \in 1..begun
    BY <1>1 DEF Known
  <2>3. QED
    BY <1>1, <2>1, <2>2, ConcatKnown
<1>5. IdsOf(e) \in SeqOf(Ids, 1) /\ Adds(m, IdsOf(e))
      /\ (Lifted(c) = None \/ Lifted(c) \in Range(IdsOf(e)))
  <2>1. UsedBy(d, begun') = 1..begun
    <3>1. s[i] # None
      BY <1>2, CanvasAssumption
    <3>2. QED
      BY <3>1 DEF UsedBy, Unplaced
  <2>2. CASE e = <<>>
    <3>1. IdsOf(e) = <<>> /\ Lifted(c) = None
      BY <1>3, <2>2 DEF Lifted
    <3>2. QED
      BY <2>1, <3>1, ShortSeqs DEF Adds, UsedBy
  <2>3. CASE e # <<>>
    <3>1. IdsOf(e) = <<y>> /\ y \in Ids /\ Range(<<y>>) = {y}
      BY <1>3, <2>3, ShortSeqs
    <3>2. <<y>> \in SeqOf(Ids, 1) /\ IsInjective(<<y>>)
      BY <3>1, ShortSeqs
    <3>3. Lifted(c) = None \/ Lifted(c) = y
      BY <1>3 DEF Lifted
    <3>4. Adds(m, <<y>>)
      BY <1>3, <2>1, <2>3, <3>1, <3>2 DEF Adds, UsedBy
    <3>5. QED
      BY <3>1, <3>2, <3>3, <3>4
  <2>4. QED
    BY <2>2, <2>3
<1>6. /\ IdsOf(s) = IdsOf(c.layers) \o IdsOf(e)
      /\ Len(IdsOf(s)) = Len(s) /\ IdsOf(s)[i] = s[i].id
      /\ IdsOf(d.layers) = RemoveAt(IdsOf(s), i)
  BY <1>1, <1>2, IdsOfConcat, IdsOfType, IdsOfRemove
<1>7. Lifted(d) = s[i].id
  BY <1>2, CanvasAssumption DEF Lifted
<1>8. Doc!Lift(m)
  BY <1>2, <1>5, <1>6, <1>7, LiftDoc
<1>9. Known(d, begun')
  <2>1. \A j \in DOMAIN RemoveAt(s, i) : RemoveAt(s, i)[j].id \in 1..begun
    BY <1>2, <1>4, RemoveKnown
  <2>2. QED
    BY <1>2, <1>4, <2>1 DEF Known
<1>10. QED
  BY <1>8, <1>9

(***************************************************************************)
(* A layer is removed, or all of them, and nothing else changes.           *)
(***************************************************************************)
LEMMA DiscardMoves ==
    ASSUME Inv, DocInv, NEW m \in Monitors, begun' = begun,
           canvas'[m].restore = canvas[m].restore,
           canvas'[m].text = canvas[m].text,
           \/ canvas'[m].layers = <<>>
           \/ \E i \in DOMAIN canvas[m].layers :
                canvas'[m].layers = RemoveAt(canvas[m].layers, i)
    PROVE  Doc!Discard(m) /\ Known(canvas'[m], begun')
<1> DEFINE c == canvas[m]
           d == canvas'[m]
<1>1. Known(c, begun) /\ c.layers \in Seq(Layers)
  BY DEF Inv, CanvasInv, DocInv, Sound, Canvases
<1>2. Lifted(d) = Lifted(c) /\ UsedBy(d, begun') = UsedBy(c, begun)
  BY DEF Lifted, UsedBy, Unplaced
<1>3. CASE d.layers = <<>>
  <2>1. IdsOf(d.layers) = <<>>
    BY <1>3, IdsOfShort
  <2>2. Known(d, begun')
    BY <1>1, <1>3 DEF Known
  <2>3. QED
    BY <1>2, <2>1, <2>2, DocAt DEF Doc!Discard
<1>4. ASSUME NEW i \in DOMAIN c.layers, d.layers = RemoveAt(c.layers, i)
      PROVE  Doc!Discard(m) /\ Known(d, begun')
  <2>1. i \in 1..Len(c.layers)
    BY <1>1
  <2>2. IdsOf(d.layers) = RemoveAt(IdsOf(c.layers), i) /\ i \in DOMAIN IdsOf(c.layers)
    BY <1>1, <1>4, <2>1, IdsOfRemove, IdsOfType
  <2>3. \A j \in DOMAIN d.layers : d.layers[j].id \in 1..begun
    BY <1>1, <1>4, <2>1, RemoveKnown DEF Known
  <2>4. Known(d, begun')
    BY <1>1, <2>3 DEF Known
  <2>5. QED
    BY <1>2, <2>2, <2>4, DocAt DEF Doc!Discard, Doc!RemoveAt, RemoveAt
<1>5. QED
  BY <1>3, <1>4

-----------------------------------------------------------------------------
(* The steps *)

\* What a step does to the document of monitor m is one of its steps.
MovesAt(m) ==
    /\ Doc!Grow(m) \/ Doc!Lift(m) \/ Doc!Discard(m)
    /\ Known(canvas'[m], begun')

(***************************************************************************)
(* A step of one canvas leaves the other documents as they are.            *)
(***************************************************************************)
LEMMA OneMoves ==
    ASSUME Inv, DocInv, NEW m \in Monitors, MovesAt(m),
           begun' \in {begun, begun + 1},
           \E c : Only(m, c) \/ Refresh(m, c)
    PROVE  \A n \in Monitors : MovesAt(n)
<1> SUFFICES ASSUME NEW n \in Monitors, n # m PROVE MovesAt(n)
  OBVIOUS
<1>1. canvas'[n] = canvas[n]
  BY DEF Only, Refresh, Inv, CanvasInv
<1>2. QED
  BY <1>1, SameMoves, Zenon DEF MovesAt

(***************************************************************************)
(* A change of tool ends the edit of a canvas, above what the stroke or    *)
(* the number before it (p) has added.                                     *)
(***************************************************************************)
LEMMA SetToolMoves ==
    ASSUME Inv, DocInv, NEW m \in Monitors,
           begun' \in {begun, begun + 1}, begun' \in 0..MaxAnnotations,
           NEW p \in Seq(Layers),
           \/ p = <<>>
           \/ begun' = begun + 1 /\ \E l \in Layers : p = <<l>> /\ l.id = begun + 1,
           NEW c, Sound(c), SameEdit(canvas[m], c),
           c.layers = canvas[m].layers \o p,
           NEW kind \in ToolKinds \ {"Text"}, canvas'[m] = SetTool(c, kind)
    PROVE  MovesAt(m)
<1>1. c.restore # None => c.restore.id = c.text.id
  BY DEF DocInv, Known, SameEdit
<1>2. PICK e \in Seq(Layers) : Left(c, e) /\ CommitPendingText(c).layers = c.layers \o e
  BY <1>1, CommitLeaves
<1>3. Left(canvas[m], e)
  BY <1>2 DEF Left, SameEdit
<1>4. /\ canvas'[m].layers = c.layers \o e
      /\ canvas'[m].text = None /\ canvas'[m].restore = None
  <2>1. canvas'[m] = [CommitPendingText(c) EXCEPT !.tool = kind]
    BY DEF SetTool
  <2>2. CommitPendingText(c) \in Canvases
    BY CommitSound DEF Sound
  <2>3. CommitPendingText(c).text = None /\ CommitPendingText(c).restore = None
    BY CommitSound
  <2>4. QED
    BY <1>2, <2>1, <2>2, <2>3 DEF Canvases
<1>5. canvas[m].layers \in Seq(Layers)
  BY DEF Inv, CanvasInv, Sound, Canvases
<1>6. canvas'[m].layers = canvas[m].layers \o (p \o e)
  <2>1. \A q, r, t \in Seq(Layers) : (q \o r) \o t = q \o (r \o t)
    OBVIOUS
  <2>2. (canvas[m].layers \o p) \o e = canvas[m].layers \o (p \o e)
    BY <1>2, <1>5, <2>1
  <2>3. canvas'[m].layers = (canvas[m].layers \o p) \o e
    BY <1>4
  <2>4. QED
    BY <2>2, <2>3
<1>7. QED
  BY <1>3, <1>4, <1>6, GrowMoves DEF MovesAt

(***************************************************************************)
(* What a canvas commits: the stroke or the number (p) on its own, and     *)
(* every edit, its own included, as the tools go back to Select.           *)
(***************************************************************************)
LEMMA DoneMoves ==
    ASSUME Inv, DocInv, NEW m \in Monitors,
           begun' \in {begun, begun + 1}, begun' \in 0..MaxAnnotations,
           NEW p \in Seq(Layers),
           \/ p = <<>>
           \/ begun' = begun + 1 /\ \E l \in Layers : p = <<l>> /\ l.id = begun + 1,
           NEW c, Sound(c), SameEdit(canvas[m], c),
           c.layers = canvas[m].layers \o p, Done(m, c)
    PROVE  \A n \in Monitors : MovesAt(n)
<1> SUFFICES ASSUME NEW n \in Monitors PROVE MovesAt(n)
  OBVIOUS
<1>1. "Select" \in ToolKinds \ {"Text"}
  BY DEF ToolKinds
<1>2. canvas'[n] = SetTool([canvas EXCEPT ![m] = c][n], "Select")
  BY DEF Done, ApplyTool
<1>3. CASE n = m
  <2>1. canvas'[m] = SetTool(c, "Select")
    BY <1>2, <1>3 DEF Inv, CanvasInv
  <2>2. QED
    BY <1>1, <1>3, <2>1, SetToolMoves, Zenon
<1>4. CASE n # m
  <2>1. canvas'[n] = SetTool(canvas[n], "Select")
    BY <1>2, <1>4
  <2>2. Sound(canvas[n]) /\ SameEdit(canvas[n], canvas[n])
    BY DEF Inv, CanvasInv, SameEdit
  <2>3. <<>> \in Seq(Layers) /\ canvas[n].layers = canvas[n].layers \o <<>>
    BY <2>2 DEF Sound, Canvases
  <2>4. QED
    BY <1>1, <2>1, <2>2, <2>3, SetToolMoves, Zenon
<1>5. QED
  BY <1>3, <1>4

(***************************************************************************)
(* The same for a key that has ended the edit of its canvas already.       *)
(***************************************************************************)
LEMMA EndedMoves ==
    ASSUME Inv, DocInv, NEW m \in Monitors, begun' = begun,
           NEW c, Sound(c), c.text = None,
           NEW e \in Seq(Layers), Left(canvas[m], e),
           c.layers = canvas[m].layers \o e, Done(m, c)
    PROVE  \A n \in Monitors : MovesAt(n)
<1> SUFFICES ASSUME NEW n \in Monitors PROVE MovesAt(n)
  OBVIOUS
<1>1. "Select" \in ToolKinds \ {"Text"} /\ begun' \in 0..MaxAnnotations
  BY DEF ToolKinds, Inv, RestInv
<1>2. canvas'[n] = SetTool([canvas EXCEPT ![m] = c][n], "Select")
  BY DEF Done, ApplyTool
<1>3. CASE n = m
  <2>1. canvas'[m] = [c EXCEPT !.tool = "Select"]
    BY <1>2, <1>3 DEF Inv, CanvasInv, SetTool, CommitPendingText
  <2>2. /\ canvas'[m].layers = canvas[m].layers \o e
        /\ canvas'[m].text = None /\ canvas'[m].restore = None
    BY <2>1 DEF Sound, Canvases
  <2>3. <<>> \in Seq(Layers) /\ <<>> \o e = e
    OBVIOUS
  <2>4. QED
    BY <1>1, <1>3, <2>2, <2>3, GrowMoves DEF MovesAt
<1>4. CASE n # m
  <2>1. canvas'[n] = SetTool(canvas[n], "Select")
    BY <1>2, <1>4
  <2>2. Sound(canvas[n]) /\ SameEdit(canvas[n], canvas[n])
    BY DEF Inv, CanvasInv, SameEdit
  <2>3. <<>> \in Seq(Layers) /\ canvas[n].layers = canvas[n].layers \o <<>>
    BY <2>2 DEF Sound, Canvases
  <2>4. QED
    BY <1>1, <2>1, <2>2, <2>3, SetToolMoves, Zenon
<1>5. QED
  BY <1>3, <1>4

(***************************************************************************)
(* A step of one canvas that leaves its layers and its edit alone.         *)
(***************************************************************************)
LEMMA StillMoves ==
    ASSUME Inv, DocInv, NEW m \in Monitors, begun' \in {begun, begun + 1},
           NEW c, SameEdit(canvas[m], c), c.layers = canvas[m].layers,
           Only(m, c) \/ Refresh(m, c)
    PROVE  \A n \in Monitors : MovesAt(n)
<1>1. canvas'[m] = c
  BY DEF Only, Refresh, Inv, CanvasInv
<1>2. MovesAt(m)
  BY <1>1, SameMoves DEF MovesAt, SameEdit
<1>3. QED
  BY <1>2, OneMoves, Zenon

LEMMA ApplyToolMoves ==
    ASSUME Inv, DocInv, begun' = begun, NEW kind \in ToolKinds, ApplyTool(canvas, kind)
    PROVE  \A n \in Monitors : MovesAt(n)
<1> SUFFICES ASSUME NEW n \in Monitors PROVE MovesAt(n)
  OBVIOUS
<1>1. /\ canvas'[n] = SetTool(canvas[n], kind)
      /\ Sound(canvas[n]) /\ SameEdit(canvas[n], canvas[n])
      /\ begun \in 0..MaxAnnotations
  BY DEF ApplyTool, Inv, CanvasInv, RestInv, SameEdit
<1>2. CASE kind = "Text"
  <2>1. canvas'[n] = [canvas[n] EXCEPT !.tool = "Text"] /\ canvas[n] \in Canvases
    BY <1>1, <1>2 DEF SetTool, Sound
  <2>2. /\ canvas'[n].layers = canvas[n].layers
        /\ canvas'[n].restore = canvas[n].restore
        /\ canvas'[n].text = canvas[n].text
    BY <2>1 DEF Canvases
  <2>3. QED
    BY <2>2, SameMoves DEF MovesAt
<1>3. CASE kind # "Text"
  <2>1. <<>> \in Seq(Layers) /\ canvas[n].layers = canvas[n].layers \o <<>>
    BY <1>1 DEF Sound, Canvases
  <2>2. kind \in ToolKinds \ {"Text"}
    BY <1>3
  <2>3. QED
    BY <1>1, <2>1, <2>2, SetToolMoves, Zenon
<1>4. QED
  BY <1>2, <1>3

LEMMA ShorteningMoves ==
    ASSUME Inv, DocInv, begun' = begun
    PROVE  /\ ClearPressed => \A n \in Monitors : MovesAt(n)
           /\ \A m \in Monitors :
                \/ UndoPressed(m)
                \/ canvas[m].selection # None /\ Refresh(m, DeleteSelected(canvas[m]))
                => \A n \in Monitors : MovesAt(n)
<1>1. ASSUME ClearPressed, NEW n \in Monitors PROVE MovesAt(n)
  <2>1. canvas[n] \in Canvases /\ canvas'[n] = ClearLayers(canvas[n])
    BY <1>1 DEF Inv, CanvasInv, ClearPressed
  <2>2. /\ canvas'[n].layers = <<>>
        /\ canvas'[n].restore = canvas[n].restore
        /\ canvas'[n].text = canvas[n].text
    BY <2>1 DEF ClearLayers, Release, Canvases
  <2>3. QED
    BY <2>2, DiscardMoves DEF MovesAt
<1>2. ASSUME NEW m \in Monitors, UndoPressed(m)
      PROVE  \A n \in Monitors : MovesAt(n)
  <2> DEFINE c == canvas[m]
             d == Undo(c)
  <2>1. c \in Canvases /\ c.layers \in Seq(Layers) /\ canvas'[m] = d /\ Only(m, d)
    BY <1>2 DEF Inv, CanvasInv, UndoPressed, Only, Canvases
  <2>2. d.restore = c.restore /\ d.text = c.text
    BY <2>1 DEF Undo, Release, Canvases
  <2>3. CASE c.layers = <<>>
    <3>1. d.layers = <<>>
      BY <2>1, <2>3 DEF Undo, Release, Canvases
    <3>2. MovesAt(m)
      BY <2>1, <2>2, <3>1, DiscardMoves DEF MovesAt
    <3>3. QED
      BY <2>1, <3>2, OneMoves, Zenon
  <2>4. CASE c.layers # <<>>
    <3>1. Len(c.layers) \in DOMAIN c.layers
      BY <2>1, <2>4
    <3>2. Front(c.layers) = RemoveAt(c.layers, Len(c.layers))
      <4>1. SubSeq(c.layers, Len(c.layers) + 1, Len(c.layers)) = <<>>
        BY <2>1
      <4>2. /\ SubSeq(c.layers, 1, Len(c.layers) - 1) \in Seq(Layers)
            /\ \A s \in Seq(Layers) : s \o <<>> = s
        BY <2>1, <3>1
      <4>3. QED
        BY <4>1, <4>2, Zenon DEF Front, RemoveAt
    <3>3. d.layers = Front(c.layers)
      BY <2>1, <2>4 DEF Undo, Release, Canvases
    <3>4. MovesAt(m)
      BY <2>1, <2>2, <3>1, <3>2, <3>3, DiscardMoves, Zenon DEF MovesAt
    <3>5. QED
      BY <2>1, <3>4, OneMoves, Zenon
  <2>5. QED
    BY <2>3, <2>4
<1>3. ASSUME NEW m \in Monitors, canvas[m].selection # None,
             Refresh(m, DeleteSelected(canvas[m]))
      PROVE  \A n \in Monitors : MovesAt(n)
  <2> DEFINE c == canvas[m]
             d == DeleteSelected(c)
  <2>1. /\ c \in Canvases /\ canvas'[m] = d /\ Refresh(m, d)
        /\ c.selection.at \in DOMAIN c.layers
    BY <1>3 DEF Inv, CanvasInv, Sound, Denotes, Refresh
  <2>2. /\ d.restore = c.restore /\ d.text = c.text
        /\ d.layers = RemoveAt(c.layers, c.selection.at)
    BY <2>1 DEF DeleteSelected, Release, Canvases
  <2>3. MovesAt(m)
    BY <2>1, <2>2, DiscardMoves, Zenon DEF MovesAt
  <2>4. QED
    BY <2>1, <2>3, OneMoves, Zenon
<1>4. QED
  BY <1>1, <1>2, <1>3

LEMMA DragMoves ==
    ASSUME Inv, DocInv, NEW m \in Monitors, DragBegin(m) \/ DragEnd(m)
    PROVE  \A n \in Monitors : MovesAt(n)
<1> DEFINE c == canvas[m]
<1>1. /\ Sound(c) /\ SameEdit(c, c) /\ c \in Canvases /\ c.layers \in Seq(Layers)
      /\ begun \in Nat /\ begun \in 0..MaxAnnotations
  BY DEF Inv, CanvasInv, RestInv, Sound, SameEdit, Canvases
<1>2. /\ GrabSelected(c).layers = c.layers
      /\ Deselect(c).layers = c.layers
      /\ \A i : SelectHit(c, i).layers = c.layers
      /\ [c EXCEPT !.manip = None].layers = c.layers
      /\ \A kind : [c EXCEPT !.pending = kind].layers = c.layers
  BY <1>1 DEF GrabSelected, Deselect, SelectHit, Canvases
<1>3. ASSUME NEW d, SameEdit(c, d), d.layers = c.layers, Only(m, d) \/ Refresh(m, d),
             begun' = begun
      PROVE  \A n \in Monitors : MovesAt(n)
  BY <1>3, StillMoves
<1>4. CASE DragBegin(m)
  <2>1. begun' = begun
    BY <1>4 DEF DragBegin
  <2>2. CASE \E i \in DOMAIN c.layers : Refresh(m, SelectHit(c, i))
    BY <1>1, <1>2, <1>3, <2>1, <2>2, GripsSound, Zenon
  <2>3. CASE Only(m, GrabSelected(c)) \/ Refresh(m, Deselect(c)) \/ Only(m, c)
    BY <1>1, <1>2, <1>3, <2>1, <2>3, GripsSound, Zenon
  <2>4. CASE c.tool \in Strokes \cup {"Crop"} /\ Only(m, [c EXCEPT !.pending = c.tool])
    <3>1. c.tool \in Strokes \cup {"Crop", None}
      BY <2>4
    <3>2. QED
      BY <1>1, <1>2, <1>3, <2>1, <2>4, <3>1, GripsSound, Zenon
  <2>5. QED
    BY <1>4, <2>2, <2>3, <2>4 DEF DragBegin
<1>5. CASE DragEnd(m)
  <2>1. CASE UNCHANGED begun /\ (Only(m, [c EXCEPT !.manip = None]) \/ Only(m, c))
    BY <1>1, <1>2, <1>3, <2>1, GripsSound, Zenon
  <2>2. ASSUME c.pending # None, NEW large \in BOOLEAN,
               IF large /\ c.pending # "Crop" THEN Begin ELSE UNCHANGED begun,
               IF Produced(c, EndStroke(c, NextId, large))
               THEN Done(m, EndStroke(c, NextId, large))
               ELSE Only(m, EndStroke(c, NextId, large))
        PROVE  \A n \in Monitors : MovesAt(n)
    <3> DEFINE d == EndStroke(c, NextId, large)
               l == [id |-> NextId, kind |-> c.pending]
    <3>1. /\ begun' \in 0..MaxAnnotations
          /\ large /\ c.pending # "Crop" => NextId \in Ids /\ begun' = begun + 1
      BY <2>2, BeginKeeps DEF Inv, RestInv, Begin, NextId
    <3>2. Sound(d) /\ SameEdit(c, d)
      BY <1>1, <2>2, <3>1, EndStrokeSound
    <3>3. CASE large /\ c.pending # "Crop"
      <4>1. l \in Layers /\ l.id = begun + 1 /\ <<l>> \in Seq(Layers)
        <5>1. c.pending \in ToolKinds
          BY <1>1, <2>2 DEF Canvases, ToolKinds
        <5>2. QED
          BY <3>1, <3>3, <5>1 DEF Layers, NextId
      <4>2. d.layers = c.layers \o <<l>> /\ Len(d.layers) # Len(c.layers)
        <5>1. d.layers = Append(c.layers, l)
          BY <1>1, <3>3 DEF EndStroke, PushLayer, Canvases
        <5>2. Len(d.layers) = Len(c.layers) + 1 /\ Len(c.layers) \in Nat
          BY <1>1, <4>1, <5>1, AppendProperties
        <5>3. d.layers = c.layers \o <<l>>
          BY <1>1, <4>1, <5>1, AppendIsConcat
        <5>4. QED
          BY <5>2, <5>3
      <4>3. Done(m, d)
        BY <2>2, <4>2 DEF Produced
      <4>4. \/ <<l>> = <<>>
            \/ begun' = begun + 1 /\ \E k \in Layers : <<l>> = <<k>> /\ k.id = begun + 1
        BY <3>1, <3>3, <4>1
      <4> HIDE DEF d, l
      <4>5. QED
        BY <1>1, <3>1, <3>2, <3>3, <4>1, <4>2, <4>3, <4>4, DoneMoves
    <3>4. CASE ~large \/ c.pending = "Crop"
      <4>1. begun' = begun
        BY <2>2, <3>4
      <4>2. d.layers = c.layers
        BY <1>1, <3>4 DEF EndStroke, Canvases
      <4>3. CASE Only(m, d)
        BY <1>3, <3>2, <4>1, <4>2, <4>3, Zenon
      <4>4. CASE Done(m, d)
        <5>1. <<>> \in Seq(Layers) /\ d.layers = c.layers \o <<>>
          BY <1>1, <4>2
        <5> HIDE DEF d
        <5>2. QED
          BY <3>1, <3>2, <4>1, <4>4, <5>1, DoneMoves
      <4>5. QED
        BY <2>2, <4>3, <4>4
    <3>5. QED
      BY <3>3, <3>4
  <2>3. QED
    BY <1>5, <2>1, <2>2 DEF DragEnd
<1>6. QED
  BY <1>4, <1>5

LEMMA PlaceNumberMoves ==
    ASSUME Inv, DocInv, NEW m \in Monitors, PlaceNumber(m)
    PROVE  \A n \in Monitors : MovesAt(n)
<1> DEFINE c == canvas[m]
           l == [id |-> NextId, kind |-> "Number"]
           d == PushLayer(c, NextId, "Number")
<1>1. /\ NextId \in Ids /\ begun' \in 0..MaxAnnotations /\ begun' = begun + 1
      /\ Done(m, d)
  BY BeginKeeps DEF Inv, PlaceNumber, Begin, NextId
<1>2. Sound(c) /\ c \in Canvases /\ c.layers \in Seq(Layers)
  BY DEF Inv, CanvasInv, Sound, Canvases
<1>3. Sound(d) /\ SameEdit(c, d)
  BY <1>1, <1>2, PushSound DEF ToolKinds
<1>4. l \in Layers /\ l.id = begun + 1 /\ <<l>> \in Seq(Layers)
  BY <1>1 DEF Layers, NextId, ToolKinds
<1>5. d.layers = c.layers \o <<l>>
  <2>1. d.layers = Append(c.layers, l)
    BY <1>2 DEF PushLayer, Canvases
  <2>2. QED
    BY <1>2, <1>4, <2>1, AppendIsConcat
<1>6. \/ <<l>> = <<>>
      \/ begun' = begun + 1 /\ \E k \in Layers : <<l>> = <<k>> /\ k.id = begun + 1
  BY <1>1, <1>4
<1> HIDE DEF d, l
<1>7. QED
  BY <1>1, <1>3, <1>4, <1>5, <1>6, DoneMoves

(***************************************************************************)
(* The clicks and the keys of a text edit.                                 *)
(***************************************************************************)
LEMMA TextClickMoves ==
    ASSUME Inv, DocInv, NEW m \in Monitors, TextClicked(m) \/ TextDoubleClicked(m)
    PROVE  \A n \in Monitors : MovesAt(n)
<1> DEFINE b == canvas[m]
           c == CommitPendingText(b)
<1>1. /\ Sound(b) /\ (b.restore # None => b.restore.id = b.text.id)
      /\ begun \in Nat /\ begun \in 0..MaxAnnotations
  BY DEF Inv, CanvasInv, RestInv, DocInv, Known
<1>2. PICK e \in Seq(Layers) : Left(b, e) /\ c.layers = b.layers \o e
  BY <1>1, CommitLeaves
<1>3. /\ c \in Canvases /\ c.text = None /\ c.restore = None
      /\ c.sources = {} /\ c.timer = None
  BY <1>1, CommitSound DEF Sound
<1>4. <<>> \in Seq(Layers) /\ b.layers \o e = b.layers \o (<<>> \o e)
  BY <1>2
<1> HIDE DEF c
<1>5. CASE TextClicked(m)
  <2> DEFINE d == StartText(b, NextId, NextTimer(b))
  <2>1. Begin /\ Refresh(m, d)
    BY <1>5 DEF TextClicked
  <2>2. begun' = begun + 1 /\ begun' \in 0..MaxAnnotations
    BY <2>1, BeginKeeps DEF Inv, Begin, NextId
  <2>3. d.layers = c.layers /\ d.restore = None /\ d.text.id = begun + 1
    BY <1>3 DEF c, StartText, StartCaretBlink, StopCaretBlink, Canvases, NextId
  <2>4. canvas'[m] = d
    BY <2>1 DEF Refresh, Inv, CanvasInv
  <2>5. MovesAt(m)
    BY <1>2, <1>4, <2>2, <2>3, <2>4, GrowMoves DEF MovesAt
  <2>6. QED
    BY <2>1, <2>2, <2>5, OneMoves
<1>6. CASE TextDoubleClicked(m)
  <2>1. begun' = begun /\ begun' \in {begun, begun + 1}
    BY <1>6 DEF TextDoubleClicked
  <2>2. CASE Only(m, c) \/ Refresh(m, c)
    <3>1. canvas'[m] = c
      BY <2>2 DEF Only, Refresh, Inv, CanvasInv
    <3>2. MovesAt(m)
      BY <1>1, <1>2, <1>3, <1>4, <2>1, <3>1, GrowMoves DEF MovesAt
    <3>3. QED
      BY <2>1, <2>2, <3>2, OneMoves, Zenon
  <2>3. ASSUME NEW i \in DOMAIN c.layers, Refresh(m, ReeditText(c, i, NextTimer(c)))
        PROVE  \A n \in Monitors : MovesAt(n)
    <3> DEFINE d == ReeditText(c, i, NextTimer(c))
    <3>1. canvas'[m] = d
      BY <2>3 DEF Refresh, Inv, CanvasInv
    <3>2. /\ d.layers = RemoveAt(c.layers, i) /\ d.restore = c.layers[i]
          /\ d.text.id = c.layers[i].id
      BY <1>3 DEF ReeditText, Release, StartCaretBlink, StopCaretBlink, Canvases
    <3>3. MovesAt(m)
      BY <1>2, <2>1, <2>3, <3>1, <3>2, LiftMoves DEF MovesAt
    <3>4. QED
      BY <2>1, <2>3, <3>3, OneMoves, Zenon
  <2>4. QED
    BY <1>6, <2>2, <2>3 DEF TextDoubleClicked, c
<1>7. QED
  BY <1>5, <1>6

LEMMA TextKeyMoves ==
    ASSUME Inv, DocInv, NEW m \in Monitors,
           TextTyped(m) \/ TextEntered(m) \/ TextEscaped(m)
    PROVE  \A n \in Monitors : MovesAt(n)
<1> DEFINE c == canvas[m]
<1>1. /\ Sound(c) /\ (c.restore # None => c.restore.id = c.text.id)
      /\ c \in Canvases /\ c.text # None /\ c.text \in Edits
  BY DEF Inv, CanvasInv, DocInv, Known, Canvases, TextTyped, TextEntered, TextEscaped
<1>2. begun' = begun /\ begun' \in {begun, begun + 1}
  BY DEF TextTyped, TextEntered, TextEscaped
<1>3. CASE TextTyped(m)
  <2>1. PICK empty \in BOOLEAN : Only(m, [c EXCEPT !.text.empty = empty])
    BY <1>3 DEF TextTyped
  <2> DEFINE d == [c EXCEPT !.text.empty = empty]
  <2>2. /\ d.layers = c.layers /\ d.restore = c.restore
        /\ d.text.id = c.text.id /\ d.text \in Edits
    BY <1>1 DEF Canvases, Edits
  <2>3. canvas'[m] = d
    BY <2>1 DEF Only, Inv, CanvasInv
  <2>4. MovesAt(m)
    <3>1. d.text # None
      BY <2>2, CanvasAssumption
    <3>2. QED
      BY <1>1, <1>2, <2>2, <2>3, <3>1, SameMoves DEF MovesAt
  <2>5. QED
    BY <1>2, <2>1, <2>4, OneMoves, Zenon
<1>4. CASE TextEntered(m)
  <2>1. PICK e \in Seq(Layers) :
            Left(c, e) /\ CommitPendingText(c).layers = c.layers \o e
    BY <1>1, CommitLeaves
  <2>2. Sound(CommitPendingText(c)) /\ CommitPendingText(c).text = None
    BY <1>1, CommitSound
  <2>3. QED
    BY <1>2, <1>4, <2>1, <2>2, EndedMoves, Zenon DEF TextEntered
<1>5. CASE TextEscaped(m)
  <2>1. PICK e \in Seq(Layers) :
            Left(c, e) /\ CancelPendingText(c).layers = c.layers \o e
    BY <1>1, CancelLeaves
  <2>2. Sound(CancelPendingText(c)) /\ CancelPendingText(c).text = None
    BY <1>1, CancelSound
  <2>3. QED
    BY <1>2, <1>5, <2>1, <2>2, EndedMoves, Zenon DEF TextEscaped
<1>6. QED
  BY <1>3, <1>4, <1>5

LEMMA SelectKeyMoves ==
    ASSUME Inv, DocInv, NEW m \in Monitors, SelectKey(m)
    PROVE  \A n \in Monitors : MovesAt(n)
<1>1. begun' = begun /\ canvas[m].selection # None
  BY DEF SelectKey
<1>2. CASE Refresh(m, DeleteSelected(canvas[m]))
  BY <1>1, <1>2, ShorteningMoves, Zenon
<1>3. CASE Refresh(m, Deselect(canvas[m]))
  <2>1. /\ SameEdit(canvas[m], Deselect(canvas[m]))
        /\ Deselect(canvas[m]).layers = canvas[m].layers
    BY GripsSound DEF Inv, CanvasInv, Deselect, Canvases
  <2>2. QED
    BY <1>1, <1>3, <2>1, StillMoves
<1>4. QED
  BY <1>2, <1>3 DEF SelectKey

(***************************************************************************)
(* Every step is one of Document, or leaves every document as it is.       *)
(***************************************************************************)
LEMMA StepMoves ==
    ASSUME Inv, DocInv, [Next]_vars
    PROVE  (\A n \in Monitors : MovesAt(n)) \/ UNCHANGED <<canvas, begun>>
<1>1. ASSUME NEW kind \in ToolKinds \ {"Select"}, ToolToggled(kind)
      PROVE  \A n \in Monitors : MovesAt(n)
  <2>1. begun' = begun /\ \E k \in ToolKinds : ApplyTool(canvas, k)
    BY <1>1 DEF ToolToggled, ToolKinds
  <2>2. QED
    BY <2>1, ApplyToolMoves
<1>2. CASE ClearPressed
  BY <1>2, ShorteningMoves DEF ClearPressed
<1>3. CASE Save
  BY <1>3 DEF Save
<1>4. ASSUME NEW m \in Monitors, UndoPressed(m) PROVE \A n \in Monitors : MovesAt(n)
  <2>1. begun' = begun
    BY <1>4 DEF UndoPressed
  <2>2. QED
    BY <1>4, <2>1, ShorteningMoves, Zenon
<1>5. CASE UNCHANGED vars
  BY <1>5 DEF vars
<1>6. QED
  BY <1>1, <1>2, <1>3, <1>4, <1>5, DragMoves, PlaceNumberMoves, TextClickMoves,
     TextKeyMoves, SelectKeyMoves DEF Next

(***************************************************************************)
(* For any monitors and any number of annotations, the canvases implement  *)
(* Document: no click, key, tool or drag loses the annotation that an edit *)
(* was opened on, puts it back twice, or brings back what was discarded.   *)
(***************************************************************************)
THEOREM DocumentImplemented == Spec => DocumentSpec
<1>1. Init => Doc!Init /\ DocInv
  <2> SUFFICES ASSUME Init PROVE Doc!Init /\ DocInv
    OBVIOUS
  <2>1. /\ \A m \in Monitors : canvas[m] = SetDocument("Select")
        /\ begun = 0
    BY DEF Init
  <2>2. \A m \in Monitors : /\ canvas[m].layers = <<>> /\ canvas[m].text = None
                            /\ canvas[m].restore = None
    BY <2>1 DEF SetDocument
  <2>3. 1..begun = {}
    BY <2>1
  <2>4. Doc!Init
    BY <2>2, <2>3, IdsOfShort
       DEF Doc!Init, docLayers, docLifted, docUsed, Lifted, Unplaced
  <2>5. QED
    BY <2>2, <2>4 DEF DocInv, Known
<1>2. Inv /\ DocInv /\ [Next]_vars => DocInv' /\ [Doc!Next]_(Doc!vars)
  <2> SUFFICES ASSUME Inv, DocInv, [Next]_vars
               PROVE  DocInv' /\ [Doc!Next]_(Doc!vars)
    OBVIOUS
  <2>1. CASE \A n \in Monitors : MovesAt(n)
    BY <2>1 DEF MovesAt, DocInv, Doc!Next
  <2>2. CASE UNCHANGED <<canvas, begun>>
    BY <2>2 DEF DocInv, Known, Doc!vars, docLayers, docLifted, docUsed
  <2>3. QED
    BY <2>1, <2>2, StepMoves
<1>3. QED
  BY <1>1, <1>2, Invariance, PTL DEF Spec, DocumentSpec, Doc!Spec

=============================================================================
