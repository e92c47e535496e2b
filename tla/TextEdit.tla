------------------------------ MODULE TextEdit ------------------------------
(***************************************************************************)
(* The in-canvas text editor of ui/canvas.rs.  The buffer is UTF-8, and    *)
(* the caret a byte offset into it, which must stay on a boundary between  *)
(* characters: every key walks over bytes.                                 *)
(***************************************************************************)
EXTENDS Naturals, SequencesExt, FiniteSetsExt

CONSTANTS
    Letters,    \* the printable characters that are typed
    Width,      \* Width[l]: the bytes of l in UTF-8
    Newline,    \* the character Shift+Enter inserts
    MaxBytes,   \* bound on the buffer
    MaxKept,    \* bound on a buffer that is committed
    None        \* Option::None

VARIABLES
    pending_text,   \* [buffer, caret, caret_visible], or None
    layer           \* the text on the document: reedit_restore while it is edited

textVars == <<pending_text, layer>>

TextInit == pending_text = None /\ layer = None

\* A byte is its character and its place in the encoding of it.
Encoded(ch) ==
    [n \in 1..(IF ch = Newline THEN 1 ELSE Width[ch]) |-> [of |-> ch, nth |-> n]]

Bytes == [of : Letters \cup {Newline}, nth : 1..4]

PendingText == [buffer : Seq(Bytes), caret : Nat, caret_visible : BOOLEAN]

\* str::is_char_boundary.  An offset i is in front of byte i + 1.
IsCharBoundary(s, i) == i = Len(s) \/ (i < Len(s) /\ s[i + 1].nth = 1)

\* Defect: one byte back.
PrevCharBoundary_OneByte(s, idx) == IF idx = 0 THEN 0 ELSE idx - 1

PrevCharBoundary(s, idx) ==
    IF idx = 0 THEN 0
    ELSE Max({i \in 0..(idx - 1) : i = 0 \/ IsCharBoundary(s, i)})

NextCharBoundary(s, idx) ==
    IF idx >= Len(s) THEN Len(s)
    ELSE Min({i \in (idx + 1)..Len(s) : IsCharBoundary(s, i)})

\* The offsets of the newlines of s.
Breaks(s) == {i \in 0..(Len(s) - 1) : s[i + 1].of = Newline}

LineStart(s, caret) == Max({0} \cup {i + 1 : i \in {b \in Breaks(s) : b < caret}})

LineEnd(s, caret) == Min({Len(s)} \cup {b \in Breaks(s) : b >= caret})

\* The characters that start in bytes a, a + 1, ..., b - 1.
Chars(s, a, b) == {i \in a..(b - 1) : s[i + 1].nth = 1}

\* The offset of the character number column of the line that starts at dest,
\* or the line's end.
AtColumn(s, dest, column) ==
    LET end == LineEnd(s, dest)
    IN Min({end} \cup {i \in Chars(s, dest, end) : Cardinality(Chars(s, dest, i)) = column})

\* Defect: the column is counted in bytes.
MoveCaretVertically_ByteColumn(s, caret, delta) ==
    LET start == LineStart(s, caret)
        end == LineEnd(s, caret)
        column == caret - start
    IN CASE delta < 0 /\ start = 0 -> caret
         [] delta < 0 /\ start > 0 -> AtColumn(s, LineStart(s, start - 1), column)
         [] delta > 0 /\ end >= Len(s) -> caret
         [] OTHER -> AtColumn(s, end + 1, column)

MoveCaretVertically(s, caret, delta) ==
    LET start == LineStart(s, caret)
        end == LineEnd(s, caret)
        column == Cardinality(Chars(s, start, caret))
    IN CASE delta < 0 /\ start = 0 -> caret
         [] delta < 0 /\ start > 0 -> AtColumn(s, LineStart(s, start - 1), column)
         [] delta > 0 /\ end >= Len(s) -> caret
         [] OTHER -> AtColumn(s, end + 1, column)

\* The buffer without its bytes a + 1 .. b.
Cut(s, a, b) == SubSeq(s, 1, a) \o SubSeq(s, b + 1, Len(s))

InsertAtCaret(pt, ch) ==
    [pt EXCEPT !.buffer = SubSeq(@, 1, pt.caret) \o Encoded(ch)
                              \o SubSeq(@, pt.caret + 1, Len(@)),
               !.caret = @ + Len(Encoded(ch))]

NamedKeys ==
    {"Escape", "Enter", "ShiftEnter", "Backspace", "Delete", "Left", "Right",
     "Home", "End", "Up", "Down"}

Keys == Letters \cup NamedKeys

\* apply_text_key for the keys that edit: the caret is shown again.
Edited(pt, key) ==
    LET s == pt.buffer
        caret == pt.caret
        prev == PrevCharBoundary(s, caret)
        next == NextCharBoundary(s, caret)
        To(c) == [pt EXCEPT !.caret = c]
        after ==
            CASE key \in Letters -> InsertAtCaret(pt, key)
              [] key = "ShiftEnter" -> InsertAtCaret(pt, Newline)
              [] key = "Backspace" -> [To(prev) EXCEPT !.buffer = Cut(s, prev, caret)]
              [] key = "Delete" -> [pt EXCEPT !.buffer = Cut(s, caret, next)]
              [] key = "Left" -> To(prev)
              [] key = "Right" -> To(next)
              [] key = "Home" -> To(LineStart(s, caret))
              [] key = "End" -> To(LineEnd(s, caret))
              [] key = "Up" -> To(MoveCaretVertically(s, caret, -1))
              [] key = "Down" -> To(MoveCaretVertically(s, caret, 1))
    IN [after EXCEPT !.caret_visible = TRUE]

-----------------------------------------------------------------------------
\* start_or_commit_text on an empty spot, try_reedit_text on the label.
OpenText ==
    /\ pending_text = None
    /\ \/ layer = None
          /\ pending_text' = [buffer |-> <<>>, caret |-> 0, caret_visible |-> TRUE]
       \/ layer # None
          /\ pending_text' = [buffer |-> layer, caret |-> Len(layer), caret_visible |-> TRUE]
    /\ UNCHANGED layer

\* handle_text_key with a key that ends the edit.
EndText(key) ==
    /\ key \in {"Escape", "Enter"}
    /\ key = "Enter" => Len(pending_text.buffer) <= MaxKept
    /\ pending_text' = None
    /\ layer' = IF key = "Enter" /\ pending_text.buffer # <<>>
                THEN pending_text.buffer ELSE layer

\* handle_text_key; a key that is none of Keys, or a chord, goes elsewhere.
PressKey(key) ==
    /\ pending_text # None
    /\ \/ EndText(key)
       \/ /\ key \notin {"Escape", "Enter"}
          /\ Len(Edited(pending_text, key).buffer) <= MaxBytes
          /\ pending_text' = Edited(pending_text, key)
          /\ UNCHANGED layer

\* The timer of start_caret_blink.
BlinkCaret ==
    /\ pending_text # None
    /\ pending_text' = [pending_text EXCEPT !.caret_visible = ~@]
    /\ UNCHANGED layer

TextNext == OpenText \/ (\E key \in Keys : PressKey(key)) \/ BlinkCaret

TextSpec == TextInit /\ [][TextNext]_textVars

-----------------------------------------------------------------------------
(* The text as LineEdit has it *)

\* The lines with one more byte: those inside a character are skipped.
Read(lines, byte) ==
    CASE byte.nth # 1 -> lines
      [] byte.nth = 1 /\ byte.of = Newline -> Append(lines, <<>>)
      [] byte.nth = 1 /\ byte.of # Newline -> [lines EXCEPT ![Len(lines)] = Append(@, byte.of)]

\* The lines of the first n bytes, for each n.
LinesUpto(s) ==
    LET upto[n \in 0..Len(s)] == IF n = 0 THEN << <<>> >> ELSE Read(upto[n - 1], s[n])
    IN upto

LinesOf(s) == LinesUpto(s)[Len(s)]

\* The line that offset n is on.
LineNumber(s, n) == Len(LinesUpto(s)[n])

\* A caret inside a character is in no column.
ColumnOf(s, caret) ==
    IF IsCharBoundary(s, caret) THEN Len(Last(LinesUpto(s)[caret])) ELSE None

=============================================================================
