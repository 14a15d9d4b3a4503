------------------------------- MODULE CliEditor -------------------------------
(***************************************************************************)
(* The line editor of prvUARTCommandConsoleTask (zybo_uart_driver.c): the  *)
(* byte that was received, the edit buffer, the escape-sequence decoder,   *)
(* the history of one command, and what all this does to the row of the    *)
(* terminal.  One action is one pass of the task's loop; nobody else takes *)
(* its mutex or touches its buffers.                                       *)
(***************************************************************************)
EXTENDS Sequences, Integers, FiniteSets

CONSTANTS Chars,             \* the characters that are typed (none of them in @..~[ below)
          Keys,              \* the keys that are pressed, as sequences of bytes
          cmdMAX_INPUT_SIZE, \* bytes in the edit buffer
          MaxLine            \* bound on the length of a line

\* The bytes the code tells apart: those it looks for, and the letters that come
\* in the sequences of the function keys.
Upper == {"[", "O", "A", "B", "C", "D", "P"}      \* 0x40 .. 0x5f
Params == {"3"}                                   \* 0x30 .. 0x3f
Finals == Upper \cup Chars \cup {"~"}             \* 0x40 .. 0x7e
Controls == {"CR", "BS", "DEL", "ESC"}
Byte == Finals \cup Params \cup Controls
NUL == "NUL"
Blank == " "

ASSUME EditorAssumption ==
  /\ MaxLine \in Nat /\ cmdMAX_INPUT_SIZE \in Nat /\ MaxLine < cmdMAX_INPUT_SIZE
  /\ Chars \cap (Upper \cup Params \cup Controls \cup {"~", NUL, Blank, "none"}) = {}
  /\ Keys \subseteq Seq(Byte)

\* A key sends a character, a control, or an escape sequence: one byte behind the
\* escape, or parameters and a last byte behind '[', or anything but a control
\* behind another letter.
EscTail(p) == /\ \A i \in 1 .. Len(p) : p[i] \notin Controls
              /\ Len(p) > 1 => \/ p[1] \in Upper \ {"["}
                               \/ p[1] = "[" /\ \A i \in 2 .. Len(p) - 1 : p[i] \in Params
ASSUME KeyAssumption ==
  \A k \in Keys : \/ Len(k) = 1 /\ k[1] \in Chars \cup Controls
                  \/ Len(k) > 1 /\ k[1] = "ESC" /\ EscTail(Tail(k))

VARIABLES pending,          \* bytes of the key that was pressed, to be received
          cInputString, cLastInputString, cTmpInputString,
          ucInputIndex,     \* position of the cursor
          ucHistoryIndex,   \* 1 while the last command is shown
          ucReceivingEsc,   \* part of the escape sequence that comes next
          cEscInitialByte,
          cEscParamByte,    \* the first parameter byte
          screen,           \* the terminal's row behind the prompt, and its cursor
          spoiled           \* a key came where the code does not redraw (history)

escVars == <<ucReceivingEsc, cEscInitialByte, cEscParamByte>>
lineVars == <<cInputString, ucInputIndex>>
histVars == <<cLastInputString, cTmpInputString, ucHistoryIndex>>
vars == <<pending, lineVars, histVars, escVars, screen, spoiled>>

Places == 0 .. cmdMAX_INPUT_SIZE - 1
Empty == [i \in Places |-> NUL]
-----------------------------------------------------------------------------
(* Strings in buffers *)

strlen(s) == CHOOSE n \in 0 .. cmdMAX_INPUT_SIZE :
               /\ n = cmdMAX_INPUT_SIZE \/ s[n] = NUL
               /\ \A i \in 0 .. n - 1 : s[i] # NUL

strcpy(to, from) == [i \in Places |-> IF i <= strlen(from) THEN from[i] ELSE to[i]]

\* cRxedChar put in at n, and the character at n taken out, by the code's loops.
\* Mutant: the loop stops one character early.
PutInMut(s, n, c) == [i \in Places |-> IF i = n THEN c
                                       ELSE IF i \in n + 1 .. strlen(s) - 1 THEN s[i - 1]
                                       ELSE s[i]]
PutIn(s, n, c) == [i \in Places |-> IF i = n THEN c
                                    ELSE IF i \in n + 1 .. strlen(s) THEN s[i - 1]
                                    ELSE s[i]]
TakeOut(s, n) == [i \in Places |-> IF i \in n .. strlen(s) - 1 THEN s[i + 1] ELSE s[i]]

\* The n bytes of a buffer from place k on that a terminal shows: it ignores NUL.
Shown(s, k, n) ==
  LET seen == {j \in k .. k + n - 1 : s[j] # NUL}
      nth(m) == CHOOSE j \in seen : Cardinality({i \in seen : i <= j}) = m
  IN  [m \in 1 .. Cardinality(seen) |-> s[nth(m)]]
Text(s) == Shown(s, 0, strlen(s))
-----------------------------------------------------------------------------
(* The terminal *)

Columns == 0 .. cmdMAX_INPUT_SIZE
Fresh == [row |-> [i \in Columns |-> Blank], col |-> 0]

Put(s, str) ==
  [row |-> [i \in Columns |-> IF i - s.col \in 0 .. Len(str) - 1
                                THEN str[i - s.col + 1] ELSE s.row[i]],
   col |-> IF s.col + Len(str) \in Columns THEN s.col + Len(str) ELSE cmdMAX_INPUT_SIZE]

MoveLeft(s, n) == [s EXCEPT !.col = IF n <= @ THEN @ - n ELSE 0]
MoveRight(s) == [s EXCEPT !.col = IF @ < cmdMAX_INPUT_SIZE THEN @ + 1 ELSE @]
EraseRight(s) == [s EXCEPT !.row = [i \in Columns |-> IF i >= s.col THEN Blank ELSE @[i]]]

\* Save the cursor, print, restore the cursor.
Redraw(s, str) == [Put(s, str) EXCEPT !.col = s.col]
-----------------------------------------------------------------------------
Init == /\ pending = <<>>
        /\ cInputString = Empty /\ cLastInputString = Empty /\ cTmpInputString = Empty
        /\ ucInputIndex = 0 /\ ucHistoryIndex = 0
        /\ ucReceivingEsc = 0 /\ cEscInitialByte = "none" /\ cEscParamByte = "none"
        /\ screen = Fresh /\ spoiled = FALSE

ucCurrInputStrinLen == strlen(cInputString)

\* The user presses a key: the terminal sends its bytes.  Lines stay below MaxLine.
Press(k) == /\ pending = <<>>
            /\ k \in Seq(Chars) => ucCurrInputStrinLen < MaxLine
            /\ pending' = k
            /\ UNCHANGED <<lineVars, histVars, escVars, screen, spoiled>>

Receive(bytes) == /\ pending # <<>> /\ Head(pending) \in bytes
                  /\ pending' = Tail(pending)

\* '\n' or '\r' with the cursor at the start of the line: only a new prompt.
EnterAtStart == /\ Receive({"CR"})
                /\ ucInputIndex = 0
                /\ screen' = Fresh
                /\ spoiled' = (ucCurrInputStrinLen > 0)
                /\ UNCHANGED <<lineVars, histVars, escVars>>

\* The line goes to FreeRTOS_CLIProcessCommand and becomes the last one.
Enter == /\ Receive({"CR"})
         /\ ucInputIndex > 0
         /\ cLastInputString' = strcpy(cLastInputString, cInputString)
         /\ cInputString' = Empty
         /\ ucInputIndex' = 0 /\ ucHistoryIndex' = 0
         /\ screen' = Fresh
         /\ spoiled' = FALSE
         /\ UNCHANGED <<cTmpInputString, escVars>>

\* The tail of the line from place n on is printed again, with a blank behind it.
RedrawFrom(s, n) == Redraw(s, Shown(cInputString', n, ucCurrInputStrinLen - n) \o <<Blank>>)

BackspaceInside ==
  /\ Receive({"BS"})
  /\ ucInputIndex > 0 /\ ucCurrInputStrinLen > ucInputIndex
  /\ ucInputIndex' = ucInputIndex - 1
  /\ cInputString' = TakeOut(cInputString, ucInputIndex - 1)
  /\ screen' = RedrawFrom(MoveLeft(screen, 1), ucInputIndex - 1)
  /\ UNCHANGED <<histVars, escVars, spoiled>>

\* The echo has moved the cursor back, but for a byte in an escape sequence.
BackspaceAtEnd ==
  /\ Receive({"BS"})
  /\ ucInputIndex > 0 /\ ucCurrInputStrinLen <= ucInputIndex
  /\ ucInputIndex' = ucInputIndex - 1
  /\ cInputString' = [cInputString EXCEPT ![ucInputIndex - 1] = NUL]
  /\ screen' = Redraw(IF ucReceivingEsc = 0 THEN MoveLeft(screen, 1) ELSE screen, <<Blank>>)
  /\ spoiled' = (spoiled \/ ucReceivingEsc # 0)
  /\ UNCHANGED <<histVars, escVars>>

BackspaceAtStart == /\ Receive({"BS"})
                    /\ ucInputIndex = 0
                    /\ UNCHANGED <<lineVars, histVars, escVars, screen, spoiled>>

\* The character under the cursor is deleted, if there is one.
Delete ==
  IF ucCurrInputStrinLen > ucInputIndex
    THEN /\ cInputString' = TakeOut(cInputString, ucInputIndex)
         /\ screen' = RedrawFrom(screen, ucInputIndex)
    ELSE UNCHANGED <<cInputString, screen>>

\* At the end of the line the byte is echoed first (lines 103-104): a terminal
\* ignores a DEL that it receives (assumption), so that the row stays as it is.
DelByte == /\ Receive({"DEL"})
           /\ Delete
           /\ UNCHANGED <<ucInputIndex, histVars, escVars, spoiled>>

EscByte == /\ Receive({"ESC"})
           /\ ucReceivingEsc' = 1
           /\ cEscInitialByte' = "none" /\ cEscParamByte' = "none"
           /\ UNCHANGED <<lineVars, histVars, screen, spoiled>>

\* Part 2 - Get the first byte.
EscFirstByte ==
  /\ ucReceivingEsc = 1
  /\ Receive(Byte \ Controls)
  /\ IF Head(pending) \in Upper
       THEN ucReceivingEsc' = 2 /\ cEscInitialByte' = Head(pending)
       ELSE ucReceivingEsc' = 0 /\ UNCHANGED cEscInitialByte
  /\ UNCHANGED <<cEscParamByte, lineVars, histVars, screen, spoiled>>

\* Part 3 - Get subsequent bytes until the end and execute the command.  Only the
\* sequences of '[' are known; of any other none of the bytes ends the sequence.
EscParamByte ==
  /\ ucReceivingEsc = 2 /\ cEscInitialByte = "["
  /\ Receive(Params)
  /\ cEscParamByte' = IF cEscParamByte = "none" THEN Head(pending) ELSE cEscParamByte
  /\ UNCHANGED <<ucReceivingEsc, cEscInitialByte, lineVars, histVars, screen, spoiled>>

EscOther ==
  /\ ucReceivingEsc = 2 /\ cEscInitialByte # "["
  /\ Receive(Byte \ Controls)
  /\ UNCHANGED <<lineVars, histVars, escVars, screen, spoiled>>

EscFinal(bytes) ==
  /\ ucReceivingEsc = 2 /\ cEscInitialByte = "["
  /\ Receive(bytes)
  /\ ucReceivingEsc' = 0
  /\ UNCHANGED <<cEscInitialByte, cEscParamByte>>

\* The line is replaced by the string s and printed anew.  The old one is cleared
\* only if the cursor is not at its start.
\* Mutant: the buffer is not cleared before s is copied into it.
ReplacementMut(s) == strcpy(cInputString, s)
Replacement(s) == strcpy(Empty, s)

\* Mutant: the cursor is not moved to the beginning.
ClearedMut(s) == IF ucInputIndex > 0 THEN EraseRight(s) ELSE s
Cleared(s) == IF ucInputIndex > 0 THEN EraseRight(MoveLeft(s, ucInputIndex)) ELSE s

ReplaceLine(s) ==
  /\ cInputString' = Replacement(s)
  /\ screen' = Put(Cleared(screen), Text(s))
  /\ ucInputIndex' = strlen(s)
  /\ spoiled' = (spoiled \/ (ucInputIndex = 0 /\ ucCurrInputStrinLen > 0))

UpArrow == /\ EscFinal({"A"})
           /\ ucHistoryIndex < 1
           /\ cTmpInputString' = strcpy(Empty, cInputString)
           /\ ReplaceLine(cLastInputString)
           /\ ucHistoryIndex' = 1
           /\ UNCHANGED cLastInputString

DownArrow == /\ EscFinal({"B"})
             /\ ucHistoryIndex > 0
             /\ ReplaceLine(cTmpInputString)
             /\ ucHistoryIndex' = ucHistoryIndex - 1
             /\ UNCHANGED <<cLastInputString, cTmpInputString>>

\* Mutant: the cursor can go one place behind the end of the line.
MayGoRightMut == ucInputIndex <= ucCurrInputStrinLen
MayGoRight == ucInputIndex < ucCurrInputStrinLen

RightArrow == /\ EscFinal({"C"})
              /\ MayGoRight
              /\ screen' = MoveRight(screen)
              /\ ucInputIndex' = ucInputIndex + 1
              /\ UNCHANGED <<cInputString, histVars, spoiled>>

LeftArrow == /\ EscFinal({"D"})
             /\ ucInputIndex > 0
             /\ screen' = MoveLeft(screen, 1)
             /\ ucInputIndex' = ucInputIndex - 1
             /\ UNCHANGED <<cInputString, histVars, spoiled>>

DeleteKey == /\ EscFinal({"~"})
             /\ cEscParamByte = "3"
             /\ Delete
             /\ UNCHANGED <<ucInputIndex, histVars, spoiled>>

\* A final byte that asks for nothing, or for something that is not there.
Means(b) == CASE b = "A" -> ucHistoryIndex < 1
              [] b = "B" -> ucHistoryIndex > 0
              [] b = "C" -> MayGoRight
              [] b = "D" -> ucInputIndex > 0
              [] b = "~" -> cEscParamByte = "3"
              [] OTHER -> FALSE
EscNothing == /\ EscFinal({b \in Finals : ~Means(b)})
              /\ UNCHANGED <<lineVars, histVars, screen, spoiled>>

\* A character was entered: it is echoed at the end of the line, and inside of it
\* printed with the rest of the line behind it.
TypeChar ==
  /\ ucReceivingEsc = 0
  /\ Receive(Byte \ Controls)
  /\ ucInputIndex < cmdMAX_INPUT_SIZE
  /\ cInputString' = PutIn(cInputString, ucInputIndex, Head(pending))
  /\ screen' = Redraw(Put(screen, <<Head(pending)>>),
                      IF ucCurrInputStrinLen > ucInputIndex
                        THEN Shown(cInputString', ucInputIndex + 1,
                                   ucCurrInputStrinLen - ucInputIndex + 1)
                        ELSE <<>>)
  /\ ucInputIndex' = ucInputIndex + 1
  /\ UNCHANGED <<histVars, escVars, spoiled>>

Next == \/ \E k \in Keys : Press(k)
        \/ Enter \/ EnterAtStart
        \/ BackspaceInside \/ BackspaceAtEnd \/ BackspaceAtStart \/ DelByte
        \/ EscByte \/ EscFirstByte \/ EscParamByte \/ EscOther
        \/ UpArrow \/ DownArrow \/ RightArrow \/ LeftArrow \/ DeleteKey \/ EscNothing
        \/ TypeChar

Spec == Init /\ [][Next]_vars
-----------------------------------------------------------------------------
(* Properties *)

String == [Places -> Chars \cup {NUL}]

TypeOK ==
  /\ pending \in Seq(Byte)
  /\ cInputString \in String /\ cLastInputString \in String /\ cTmpInputString \in String
  /\ ucInputIndex \in 0 .. MaxLine /\ ucHistoryIndex \in {0, 1}
  /\ ucReceivingEsc \in 0 .. 2
  /\ cEscInitialByte \in Upper \cup {"none"} /\ cEscParamByte \in Params \cup {"none"}
  /\ screen \in [row : [Columns -> Chars \cup {Blank}], col : Columns]
  /\ spoiled \in BOOLEAN

\* A character is appended by writing it at the index, and nothing writes a
\* terminator behind it: the index is never behind the end of the string, and all
\* of the buffer behind the string is clear, whatever was recalled or deleted.
LineWellFormed ==
  /\ ucInputIndex <= ucCurrInputStrinLen /\ ucCurrInputStrinLen <= MaxLine
  /\ \A i \in Places : i >= ucCurrInputStrinLen => cInputString[i] = NUL

\* The row shows the line and the cursor is where the next character goes, after
\* any mix of insertions, deletions, moves and recalled lines, as long as no key
\* came for which the code does not redraw: Up, Down or Enter with the cursor at
\* the start of a line, and backspace in the middle of an escape sequence.
ScreenShowsLine ==
  ~spoiled => /\ screen.col = ucInputIndex
              /\ \A i \in Columns : screen.row[i] =
                   IF i < ucCurrInputStrinLen THEN cInputString[i] ELSE Blank

\* The loops over the buffers are the editor of LineEditor, whose line, recalled
\* command and kept line are whole strings.
Editor == INSTANCE LineEditor WITH text <- Text(cInputString), cursor <- ucInputIndex,
                                   last <- Text(cLastInputString),
                                   kept <- Text(cTmpInputString),
                                   recalled <- ucHistoryIndex = 1
ImplementsEditor == Editor!EditorSpec
=============================================================================
