------------------------------ MODULE LineEdit ------------------------------
(***************************************************************************)
(* What typing a label on the canvas promises: lines of characters with a  *)
(* caret between two of them, the keys of a small editor, and an edit that *)
(* ends with the text kept or with what was there before.  No bytes, no    *)
(* offsets: the caret is a line and a column.                              *)
(***************************************************************************)
EXTENDS Naturals, SequencesExt

CONSTANTS
    Letters,        \* what can be typed
    None

VARIABLES
    lines,      \* the text being edited, or None when no edit is open
    row, col,   \* the caret is in front of character col + 1 of line row
    shown,      \* whether the blinking caret is drawn
    kept        \* the text on the document, or None

vars == <<lines, row, col, shown, kept>>

Blank == << <<>> >>

Init == lines = None /\ row = 1 /\ col = 0 /\ shown = FALSE /\ kept = None

Line == lines[row]

Caret(r, c) == row' = r /\ col' = c /\ shown' = TRUE

Move(r, c) == Caret(r, c) /\ UNCHANGED <<lines, kept>>

\* The text becomes new, with the caret at column c of row r.
Rewrite(new, r, c) == lines' = new /\ Caret(r, c) /\ UNCHANGED kept

\* A new label, or the one on the document with the caret behind its end.
Open ==
    /\ lines = None
    /\ \/ kept = None /\ lines' = Blank /\ Caret(1, 0)
       \/ kept # None /\ lines' = kept /\ Caret(Len(kept), Len(Last(kept)))
    /\ UNCHANGED kept

Type(l) == Rewrite([lines EXCEPT ![row] = InsertAt(@, col + 1, l)], row, col + 1)

Break ==
    Rewrite(SubSeq(lines, 1, row - 1)
                \o << SubSeq(Line, 1, col), SubSeq(Line, col + 1, Len(Line)) >>
                \o SubSeq(lines, row + 1, Len(lines)),
            row + 1, 0)

\* Line r takes in the line after it.
Joined(r) == ReplaceAt(RemoveAt(lines, r + 1), r, lines[r] \o lines[r + 1])

Backspace ==
    \/ col > 0 /\ Rewrite([lines EXCEPT ![row] = RemoveAt(@, col)], row, col - 1)
    \/ col = 0 /\ row > 1 /\ Rewrite(Joined(row - 1), row - 1, Len(lines[row - 1]))
    \/ col = 0 /\ row = 1 /\ Move(row, col)

Delete ==
    \/ col < Len(Line) /\ Rewrite([lines EXCEPT ![row] = RemoveAt(@, col + 1)], row, col)
    \/ col = Len(Line) /\ row < Len(lines) /\ Rewrite(Joined(row), row, col)
    \/ col = Len(Line) /\ row = Len(lines) /\ Move(row, col)

Left ==
    \/ col > 0 /\ Move(row, col - 1)
    \/ col = 0 /\ row > 1 /\ Move(row - 1, Len(lines[row - 1]))
    \/ col = 0 /\ row = 1 /\ Move(row, col)

Right ==
    \/ col < Len(Line) /\ Move(row, col + 1)
    \/ col = Len(Line) /\ row < Len(lines) /\ Move(row + 1, 0)
    \/ col = Len(Line) /\ row = Len(lines) /\ Move(row, col)

\* The column is kept as far as the other line reaches.
Towards(r) == Move(r, IF col <= Len(lines[r]) THEN col ELSE Len(lines[r]))

Up == IF row > 1 THEN Towards(row - 1) ELSE Move(row, col)

Down == IF row < Len(lines) THEN Towards(row + 1) ELSE Move(row, col)

Key ==
    /\ lines # None
    /\ \/ \E l \in Letters : Type(l)
       \/ Break \/ Backspace \/ Delete \/ Left \/ Right \/ Up \/ Down
       \/ Move(row, 0) \/ Move(row, Len(Line))

\* The edit ends.  An empty text leaves the document as it was.
Close ==
    /\ lines # None
    /\ lines' = None
    /\ kept' \in {kept} \cup (IF lines = Blank THEN {} ELSE {lines})
    /\ row' = 1 /\ col' = 0 /\ shown' = FALSE

Blink == lines # None /\ shown' = ~shown /\ UNCHANGED <<lines, row, col, kept>>

Next == Open \/ Key \/ Close \/ Blink

Spec == Init /\ [][Next]_vars

=============================================================================
