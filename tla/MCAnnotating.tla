---------------------------- MODULE MCAnnotating ----------------------------
(***************************************************************************)
(* Two monitors, one kind of stroke beside Text, Number and Crop, and two  *)
(* annotations on the two canvases together: enough for an edit on one     *)
(* canvas while the other one draws, for an edit opened on the lower of    *)
(* two layers, and for a stroke left behind by a tool change in mid-drag.  *)
(***************************************************************************)
EXTENDS Annotating

=============================================================================
