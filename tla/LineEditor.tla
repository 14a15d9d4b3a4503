------------------------------ MODULE LineEditor ------------------------------
(***************************************************************************)
(* What the line editor of the serial console promises, key by key: a line *)
(* with a cursor in it, one command to recall, and the line that was being *)
(* typed kept while the recalled one is shown.                             *)
(***************************************************************************)
EXTENDS Sequences, Integers

CONSTANTS Chars,     \* characters that can be typed
          MaxLine    \* bound on the length of a line

VARIABLES text,      \* the line
          cursor,    \* characters to the left of the cursor
          last,      \* the last command that was run
          kept,      \* the line that was left for the recalled one
          recalled   \* the line is, or comes from, the recalled one

editorVars == <<text, cursor, last, kept, recalled>>

EditorInit == /\ text = <<>> /\ cursor = 0
              /\ last = <<>> /\ kept = <<>> /\ recalled = FALSE

LeftOf(n) == SubSeq(text, 1, n)
RightOf(n) == SubSeq(text, n + 1, Len(text))

Insert(c) == /\ Len(text) < MaxLine
             /\ text' = LeftOf(cursor) \o <<c>> \o RightOf(cursor)
             /\ cursor' = cursor + 1
             /\ UNCHANGED <<last, kept, recalled>>

Rubout == /\ cursor > 0
          /\ text' = LeftOf(cursor - 1) \o RightOf(cursor)
          /\ cursor' = cursor - 1
          /\ UNCHANGED <<last, kept, recalled>>

DeleteNext == /\ cursor < Len(text)
              /\ text' = LeftOf(cursor) \o RightOf(cursor + 1)
              /\ UNCHANGED <<cursor, last, kept, recalled>>

Move == /\ cursor' \in {cursor - 1, cursor + 1} \cap (0 .. Len(text))
        /\ UNCHANGED <<text, last, kept, recalled>>

\* The line is replaced, with the cursor at its end.
Show(s) == text' = s /\ cursor' = Len(s)

Recall == /\ ~recalled
          /\ Show(last)
          /\ kept' = text /\ recalled' = TRUE
          /\ UNCHANGED last

ComeBack == /\ recalled
            /\ Show(kept)
            /\ recalled' = FALSE
            /\ UNCHANGED <<last, kept>>

\* Return runs the whole line, wherever in it the cursor is - except at its
\* start, where the code takes any line for an empty one.
Run == /\ cursor > 0
       /\ last' = text
       /\ Show(<<>>)
       /\ recalled' = FALSE
       /\ UNCHANGED kept

EditorNext == \/ \E c \in Chars : Insert(c)
              \/ Rubout \/ DeleteNext \/ Move \/ Recall \/ ComeBack \/ Run

EditorSpec == EditorInit /\ [][EditorNext]_editorVars
=============================================================================
