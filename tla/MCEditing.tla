------------------------------- MODULE MCEditing -----------------------------
(***************************************************************************)
(* Labels of up to 5 bytes, of a letter of one byte and one of two, of     *)
(* which those of up to 2 are kept.  Five places for the pointer, some of  *)
(* them off the document and some between pixels, so that drags go both    *)
(* ways, cross over and are too short.  Two monitors; the toolbars of the  *)
(* editor, of a draw overlay that starts with the pointer let through, and *)
(* of two selectors; the delays asked for are none and one longer than a   *)
(* spinner can show.                                                       *)
(***************************************************************************)
EXTENDS Editing

MCOrder == <<"m1", "m2">>

MCConfigColor == [t \in EditorTools |-> IF t = "Highlight" THEN "yellow" ELSE "red"]

MCBars ==
    {NewToolbar(EditorSpec, None, FALSE, FALSE, 0, "File"),
     NewToolbar(OverlaySpec, None, FALSE, TRUE, 0, "Both"),
     NewToolbar(SelectorSpec(TRUE), "Region", FALSE, FALSE, 90, "File"),
     NewToolbar(SelectorSpec(FALSE), "Screen", TRUE, FALSE, 0, "Clipboard")}

MCDelays == {0, 90}

MCWidth == [l \in Letters |-> IF l = "a" THEN 1 ELSE 2]

MCPoints == {<<0, 0>>, <<9, 15>>, <<40, 3>>, <<40, 30>>, <<61, 35>>}

MCDocSize == <<30, 16>>

MCNudges == {<<2, 0>>, <<0, -20>>}
=============================================================================
