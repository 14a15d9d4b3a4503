--------------------------- MODULE CliEditorProofs ---------------------------
(***************************************************************************)
(* Proofs about CliEditor, for any characters, keys, size of the buffers   *)
(* and bound on the lines: the types, the shape of the buffers, the row of *)
(* the terminal, and that the byte loops implement LineEditor.             *)
(*                                                                         *)
(* The invariant EditorInv adds to the three invariants of the model that  *)
(* each buffer holds a string (IsStr), and that the bytes still to come of *)
(* the key are what the decoder of escape sequences expects (KeyInv), so   *)
(* that no byte of a sequence is ever typed into the line.                 *)
(***************************************************************************)
EXTENDS CliEditor, FiniteSetTheorems, SequenceTheorems, TLAPS

Holds(s, n) == /\ n \in 0 .. MaxLine
               /\ s[n] = NUL
               /\ \A i \in 0 .. n - 1 : s[i] # NUL
IsStr(s) == Holds(s, strlen(s))
Clear(s) == \A i \in Places : i >= strlen(s) => s[i] = NUL
Text1 == Chars \cup {Blank}
Screens == [row : [Columns -> Text1], col : Columns]

\* The line, the cursor in it, and the row of the terminal.
LineInv ==
  /\ cInputString \in String /\ IsStr(cInputString) /\ Clear(cInputString)
  /\ ucInputIndex \in 0 .. strlen(cInputString)
  /\ screen \in Screens /\ spoiled \in BOOLEAN
  /\ ScreenShowsLine

HistInv ==
  /\ cLastInputString \in String /\ IsStr(cLastInputString)
  /\ cTmpInputString \in String /\ IsStr(cTmpInputString)
  /\ ucHistoryIndex \in {0, 1}

\* The bytes of a key that are still to come: a whole key, or what the decoder,
\* in its state, takes to the end.
NoControl(p) == \A i \in 1 .. Len(p) : p[i] \notin Controls
KeyInv ==
  \/ pending = <<>>
  \/ /\ Len(pending) = 1 /\ pending[1] \in Chars \cup Controls
     /\ pending[1] \in Chars => strlen(cInputString) < MaxLine
  \/ Len(pending) > 1 /\ pending[1] = "ESC" /\ EscTail(Tail(pending))
  \/ ucReceivingEsc = 1 /\ pending # <<>> /\ EscTail(pending)
  \/ ucReceivingEsc = 2 /\ cEscInitialByte # "[" /\ NoControl(pending)
  \/ /\ ucReceivingEsc = 2 /\ cEscInitialByte = "[" /\ NoControl(pending)
     /\ \A i \in 1 .. Len(pending) - 1 : pending[i] \in Params
EscInv ==
  /\ pending \in Seq(Byte)
  /\ ucReceivingEsc \in 0 .. 2
  /\ cEscInitialByte \in Upper \cup {"none"} /\ cEscParamByte \in Params \cup {"none"}
  /\ KeyInv

EditorInv == LineInv /\ HistInv /\ EscInv
-----------------------------------------------------------------------------
(* The operators of the model *)

LEMMA Sizes == /\ MaxLine \in Nat /\ cmdMAX_INPUT_SIZE \in Nat
               /\ MaxLine < cmdMAX_INPUT_SIZE
               /\ 0 .. MaxLine \subseteq Places
               /\ \A c \in Chars : c # NUL
  BY EditorAssumption DEF Places

LEMMA StrlenIs ==
  ASSUME NEW s, NEW n, Holds(s, n)
  PROVE  strlen(s) = n
<1> DEFINE P(k) == /\ k = cmdMAX_INPUT_SIZE \/ s[k] = NUL
                   /\ \A i \in 0 .. k - 1 : s[i] # NUL
<1>1. n \in 0 .. cmdMAX_INPUT_SIZE /\ P(n)
  BY Sizes DEF Holds
<1>2. ASSUME NEW k \in 0 .. cmdMAX_INPUT_SIZE, P(k)
      PROVE  k = n
  BY <1>2, Sizes DEF Holds
<1>3. strlen(s) = CHOOSE k \in 0 .. cmdMAX_INPUT_SIZE : P(k)
  BY DEF strlen
<1> HIDE DEF P
<1> QED BY <1>1, <1>2, <1>3

LEMMA HoldsIsStr ==
  ASSUME NEW s, NEW n, Holds(s, n)
  PROVE  strlen(s) = n /\ IsStr(s)
  BY StrlenIs DEF IsStr

LEMMA EmptyIs == Empty \in String /\ strlen(Empty) = 0 /\ IsStr(Empty) /\ Clear(Empty)
<1>1. Empty \in String /\ Holds(Empty, 0)
  BY Sizes DEF Empty, String, Holds
<1> QED BY <1>1, HoldsIsStr DEF Clear, Empty

LEMMA CopyIs ==
  ASSUME NEW s \in String, IsStr(s), NEW t \in String
  PROVE  /\ strcpy(t, s) \in String
         /\ strlen(strcpy(t, s)) = strlen(s)
         /\ IsStr(strcpy(t, s))
         /\ \A i \in 0 .. strlen(s) : strcpy(t, s)[i] = s[i]
         /\ t = Empty => Clear(strcpy(t, s))
<1> DEFINE u == strcpy(t, s)
<1>1. strlen(s) \in 0 .. MaxLine
  BY DEF IsStr, Holds
<1>2. u \in String
  BY DEF strcpy, String
<1>3. \A i \in 0 .. strlen(s) : u[i] = s[i]
  BY <1>1, Sizes DEF strcpy
<1>4. Holds(u, strlen(s))
  BY <1>1, <1>3 DEF Holds, IsStr
<1>5. strlen(u) = strlen(s) /\ IsStr(u)
  BY <1>4, HoldsIsStr
<1>6. ASSUME t = Empty  PROVE Clear(u)
  BY <1>6, <1>1, <1>5, Sizes DEF Clear, strcpy, Empty, IsStr, Holds, Places
<1> QED BY <1>2, <1>3, <1>5, <1>6

LEMMA PutInIs ==
  ASSUME NEW s \in String, IsStr(s), Clear(s), strlen(s) < MaxLine,
         NEW n \in 0 .. strlen(s), NEW c \in Chars
  PROVE  /\ PutIn(s, n, c) \in String
         /\ strlen(PutIn(s, n, c)) = strlen(s) + 1
         /\ IsStr(PutIn(s, n, c)) /\ Clear(PutIn(s, n, c))
         /\ \A i \in 0 .. n - 1 : PutIn(s, n, c)[i] = s[i]
         /\ PutIn(s, n, c)[n] = c
         /\ \A i \in n + 1 .. strlen(s) : PutIn(s, n, c)[i] = s[i - 1]
<1> DEFINE u == PutIn(s, n, c)
           len == strlen(s)
<1>1. len \in 0 .. MaxLine /\ \A i \in 0 .. len - 1 : s[i] # NUL
  BY DEF IsStr, Holds
<1>2. \A i \in Places : i >= len => s[i] = NUL
  BY DEF Clear
<1>3. u \in String
  BY <1>1, Sizes DEF PutIn, String, Places
<1>4. /\ \A i \in 0 .. n - 1 : u[i] = s[i]
      /\ u[n] = c
      /\ \A i \in n + 1 .. len : u[i] = s[i - 1]
      /\ \A i \in len + 1 .. cmdMAX_INPUT_SIZE - 1 : u[i] = s[i]
  BY <1>1, Sizes DEF PutIn, Places
<1> HIDE DEF u
<1>5. Holds(u, len + 1)
  BY <1>1, <1>2, <1>4, Sizes DEF Holds, Places
<1>6. strlen(u) = len + 1 /\ IsStr(u)
  BY <1>5, HoldsIsStr
<1>7. Clear(u)
  BY <1>1, <1>2, <1>4, <1>6, Sizes DEF Clear, Places
<1> QED BY <1>3, <1>4, <1>6, <1>7 DEF u

LEMMA TakeOutIs ==
  ASSUME NEW s \in String, IsStr(s), Clear(s), NEW n \in 0 .. strlen(s) - 1
  PROVE  /\ TakeOut(s, n) \in String
         /\ strlen(TakeOut(s, n)) = strlen(s) - 1
         /\ IsStr(TakeOut(s, n)) /\ Clear(TakeOut(s, n))
         /\ \A i \in 0 .. n - 1 : TakeOut(s, n)[i] = s[i]
         /\ \A i \in n .. strlen(s) - 2 : TakeOut(s, n)[i] = s[i + 1]
<1> DEFINE u == TakeOut(s, n)
           len == strlen(s)
<1>1. len \in 0 .. MaxLine /\ \A i \in 0 .. len - 1 : s[i] # NUL
  BY DEF IsStr, Holds
<1>2. \A i \in Places : i >= len => s[i] = NUL
  BY DEF Clear
<1>3. u \in String
  BY <1>1, Sizes DEF TakeOut, String, Places
<1>4. /\ \A i \in 0 .. n - 1 : u[i] = s[i]
      /\ \A i \in n .. len - 1 : u[i] = s[i + 1]
      /\ \A i \in len .. cmdMAX_INPUT_SIZE - 1 : u[i] = s[i]
  BY <1>1, Sizes DEF TakeOut, Places
<1> HIDE DEF u
<1>5. Holds(u, len - 1)
  BY <1>1, <1>2, <1>4, Sizes DEF Holds, Places
<1>6. strlen(u) = len - 1 /\ IsStr(u)
  BY <1>5, HoldsIsStr
<1>7. Clear(u)
  BY <1>1, <1>2, <1>4, <1>6, Sizes DEF Clear, Places
<1> QED BY <1>1, <1>3, <1>4, <1>6, <1>7 DEF u

\* The last character is overwritten.
LEMMA CutIs ==
  ASSUME NEW s \in String, IsStr(s), Clear(s), strlen(s) > 0,
         NEW u, u = [s EXCEPT ![strlen(s) - 1] = NUL]
  PROVE  /\ u \in String
         /\ strlen(u) = strlen(s) - 1
         /\ IsStr(u) /\ Clear(u)
         /\ \A i \in 0 .. strlen(s) - 2 : u[i] = s[i]
<1> DEFINE len == strlen(s)
<1>1. len \in 1 .. MaxLine /\ \A i \in 0 .. len - 1 : s[i] # NUL
  BY DEF IsStr, Holds
<1>2. \A i \in Places : i >= len => s[i] = NUL
  BY DEF Clear
<1>3. u \in String
  BY <1>1, Sizes DEF String
<1>4. /\ \A i \in 0 .. len - 2 : u[i] = s[i]
      /\ u[len - 1] = NUL
      /\ \A i \in len .. cmdMAX_INPUT_SIZE - 1 : u[i] = s[i]
  BY <1>1, Sizes DEF String, Places
<1>5. Holds(u, len - 1)
  BY <1>1, <1>2, <1>4, Sizes DEF Holds, Places
<1>6. strlen(u) = len - 1 /\ IsStr(u)
  BY <1>5, HoldsIsStr
<1>7. Clear(u)
  BY <1>1, <1>2, <1>4, <1>6, Sizes DEF Clear, Places
<1> QED BY <1>1, <1>3, <1>4, <1>6, <1>7

\* What is shown of a part of a buffer that begins with m characters and goes on
\* with NULs.
LEMMA ShownIs ==
  ASSUME NEW s \in String, NEW k \in Nat, NEW n \in Nat, NEW m \in 0 .. n,
         k + n <= cmdMAX_INPUT_SIZE,
         \A j \in k .. k + n - 1 : s[j] # NUL <=> j < k + m
  PROVE  /\ Shown(s, k, n) = [i \in 1 .. m |-> s[k + i - 1]]
         /\ Shown(s, k, n) \in Seq(Chars)
         /\ Len(Shown(s, k, n)) = m
<1> DEFINE seen == {j \in k .. k + n - 1 : s[j] # NUL}
           nth(i) == CHOOSE j \in seen : Cardinality({h \in seen : h <= j}) = i
<1>0. Shown(s, k, n) = [i \in 1 .. Cardinality(seen) |-> s[nth(i)]]
  BY DEF Shown
<1>1. seen = k .. k + m - 1
  OBVIOUS
<1> HIDE DEF seen
<1>2. Cardinality(seen) = m
  <2>1. k \in Int /\ k + m - 1 \in Int
    OBVIOUS
  <2>2. Cardinality(k .. k + m - 1) =
          IF k > k + m - 1 THEN 0 ELSE k + m - 1 - k + 1
    BY <2>1, FS_Interval
  <2> QED BY <1>1, <2>2
<1>3. ASSUME NEW j \in seen  PROVE Cardinality({h \in seen : h <= j}) = j - k + 1
  <2> DEFINE upto == {h \in seen : h <= j}
  <2>1. upto = k .. j
    BY <1>1, <1>3
  <2> HIDE DEF upto
  <2>2. k \in Int /\ j \in Int /\ k <= j
    BY <1>1, <1>3
  <2>3. Cardinality(k .. j) = IF k > j THEN 0 ELSE j - k + 1
    BY <2>2, FS_Interval
  <2>4. Cardinality(upto) = j - k + 1
    BY <2>1, <2>2, <2>3
  <2> QED BY <2>4 DEF upto
<1>4. ASSUME NEW i \in 1 .. m  PROVE nth(i) = k + i - 1
  <2>1. k + i - 1 \in seen /\ (k + i - 1) - k + 1 = i
    BY <1>1
  <2>2. \A j \in seen : Cardinality({h \in seen : h <= j}) = i <=> j = k + i - 1
    <3>1. SUFFICES ASSUME NEW j \in seen
                   PROVE  Cardinality({h \in seen : h <= j}) = i <=> j = k + i - 1
      OBVIOUS
    <3>2. Cardinality({h \in seen : h <= j}) = j - k + 1 /\ j \in Int
      BY <1>1, <1>3
    <3> QED BY <3>2
  <2> QED BY <2>1, <2>2
<1> HIDE DEF nth
<1>6. Shown(s, k, n) = [i \in 1 .. m |-> s[k + i - 1]]
  BY <1>0, <1>2, <1>4
<1>7. \A i \in 1 .. m : s[k + i - 1] \in Chars
  BY Sizes DEF String, Places
<1> QED BY <1>6, <1>7

LEMMA TextIs ==
  ASSUME NEW s \in String, IsStr(s)
  PROVE  /\ Text(s) = [i \in 1 .. strlen(s) |-> s[i - 1]]
         /\ Text(s) \in Seq(Chars)
         /\ Len(Text(s)) = strlen(s)
<1>1. strlen(s) \in 0 .. MaxLine /\ \A i \in 0 .. strlen(s) - 1 : s[i] # NUL
  BY DEF IsStr, Holds
<1>2. /\ Shown(s, 0, strlen(s)) = [i \in 1 .. strlen(s) |-> s[0 + i - 1]]
      /\ Shown(s, 0, strlen(s)) \in Seq(Chars)
      /\ Len(Shown(s, 0, strlen(s))) = strlen(s)
  BY <1>1, ShownIs, Sizes
<1>3. \A i \in 1 .. strlen(s) : 0 + i - 1 = i - 1
  BY <1>1
<1> QED BY <1>1, <1>2, <1>3 DEF Text

\* What is shown of the end of the line, and a little more of the buffer.
LEMMA ShownTail ==
  ASSUME NEW s \in String, IsStr(s), Clear(s), NEW k \in 0 .. strlen(s), NEW n \in Nat,
         strlen(s) <= k + n, k + n <= cmdMAX_INPUT_SIZE
  PROVE  /\ Shown(s, k, n) \in Seq(Chars)
         /\ Len(Shown(s, k, n)) = strlen(s) - k
         /\ \A i \in 1 .. strlen(s) - k : Shown(s, k, n)[i] = s[k + i - 1]
<1>1. /\ strlen(s) \in 0 .. MaxLine
      /\ \A i \in 0 .. strlen(s) - 1 : s[i] # NUL
      /\ \A i \in Places : i >= strlen(s) => s[i] = NUL
  BY DEF IsStr, Holds, Clear
<1> DEFINE m == strlen(s) - k
<1>2. k \in Nat /\ m \in 0 .. n /\ k + m = strlen(s)
  BY <1>1
<1>3. \A j \in k .. k + n - 1 : s[j] # NUL <=> j < k + m
  BY <1>1, <1>2, Sizes DEF Places
<1> HIDE DEF m
<1>4. /\ Shown(s, k, n) = [i \in 1 .. m |-> s[k + i - 1]]
      /\ Shown(s, k, n) \in Seq(Chars)
      /\ Len(Shown(s, k, n)) = m
  BY <1>2, <1>3, ShownIs
<1>5. \A i \in 1 .. m : Shown(s, k, n)[i] = s[k + i - 1]
  BY <1>4
<1> QED BY <1>4, <1>5 DEF m

LEMMA PutIs ==
  ASSUME NEW s \in Screens, NEW str \in Seq(Text1)
  PROVE  /\ Put(s, str) \in Screens
         /\ s.col + Len(str) \in Columns => Put(s, str).col = s.col + Len(str)
         /\ \A i \in Columns : Put(s, str).row[i] =
              IF i - s.col \in 0 .. Len(str) - 1 THEN str[i - s.col + 1] ELSE s.row[i]
<1>1. s.col \in Columns /\ s.row \in [Columns -> Text1] /\ Len(str) \in Nat
  BY DEF Screens
<1>2. Columns \subseteq Int /\ cmdMAX_INPUT_SIZE \in Columns
  BY Sizes DEF Columns
<1>3. \A i \in Columns : i - s.col \in 0 .. Len(str) - 1 => str[i - s.col + 1] \in Text1
  BY <1>1, <1>2
<1>4. Put(s, str).row \in [Columns -> Text1]
  BY <1>1, <1>3 DEF Put
<1>5. Put(s, str).col \in Columns
  BY <1>1, <1>2 DEF Put
<1>6. Put(s, str) \in Screens
  BY <1>4, <1>5 DEF Put, Screens
<1> QED BY <1>6 DEF Put

LEMMA RedrawIs ==
  ASSUME NEW s \in Screens, NEW str \in Seq(Text1)
  PROVE  /\ Redraw(s, str) \in Screens
         /\ Redraw(s, str).col = s.col
         /\ \A i \in Columns : Redraw(s, str).row[i] =
              IF i - s.col \in 0 .. Len(str) - 1 THEN str[i - s.col + 1] ELSE s.row[i]
<1>1. /\ Put(s, str) \in Screens
      /\ \A i \in Columns : Put(s, str).row[i] =
           IF i - s.col \in 0 .. Len(str) - 1 THEN str[i - s.col + 1] ELSE s.row[i]
  BY PutIs
<1>2. s.col \in Columns
  BY DEF Screens
<1> QED BY <1>1, <1>2 DEF Redraw, Screens

LEMMA MoveLeftIs ==
  ASSUME NEW s \in Screens, NEW n \in Nat
  PROVE  /\ MoveLeft(s, n) \in Screens
         /\ MoveLeft(s, n).row = s.row
         /\ n <= s.col => MoveLeft(s, n).col = s.col - n
  BY Sizes DEF Screens, MoveLeft, Columns

LEMMA MoveRightIs ==
  ASSUME NEW s \in Screens
  PROVE  /\ MoveRight(s) \in Screens
         /\ MoveRight(s).row = s.row
         /\ s.col < cmdMAX_INPUT_SIZE => MoveRight(s).col = s.col + 1
  BY Sizes DEF Screens, MoveRight, Columns

LEMMA EraseRightIs ==
  ASSUME NEW s \in Screens
  PROVE  /\ EraseRight(s) \in Screens
         /\ EraseRight(s).col = s.col
         /\ \A i \in Columns : EraseRight(s).row[i] = IF i >= s.col THEN Blank ELSE s.row[i]
  BY Sizes DEF Screens, EraseRight, Columns, Text1

LEMMA FreshIs == Fresh \in Screens /\ Fresh.col = 0 /\ \A i \in Columns : Fresh.row[i] = Blank
  BY Sizes DEF Fresh, Screens, Columns, Text1

LEMMA WithBlank ==
  ASSUME NEW q \in Seq(Chars)
  PROVE  /\ q \o <<Blank>> \in Seq(Text1)
         /\ Len(q \o <<Blank>>) = Len(q) + 1
         /\ \A i \in 1 .. Len(q) : (q \o <<Blank>>)[i] = q[i]
         /\ (q \o <<Blank>>)[Len(q) + 1] = Blank
<1>1. q \in Seq(Text1) /\ <<Blank>> \in Seq(Text1)
  BY DEF Text1
<1> QED BY <1>1
-----------------------------------------------------------------------------
(* What each action does to the line and its row *)

LEMMA InvMeans == EditorInv => TypeOK /\ LineWellFormed /\ ScreenShowsLine
<1> SUFFICES ASSUME EditorInv  PROVE TypeOK /\ LineWellFormed /\ ScreenShowsLine
  OBVIOUS
<1>1. strlen(cInputString) \in 0 .. MaxLine
  BY DEF EditorInv, LineInv, IsStr, Holds
<1>2. ucInputIndex \in 0 .. MaxLine /\ ucInputIndex <= strlen(cInputString)
  BY <1>1, Sizes DEF EditorInv, LineInv
<1>3. TypeOK
  BY <1>2 DEF TypeOK, EditorInv, LineInv, HistInv, EscInv, Screens, Text1
<1>4. LineWellFormed
  BY <1>1, <1>2 DEF LineWellFormed, ucCurrInputStrinLen, EditorInv, LineInv, Clear
<1> QED BY <1>3, <1>4 DEF EditorInv, LineInv

\* The facts about the line that the proofs below start from.
LEMMA LineFacts ==
  ASSUME LineInv
  PROVE  /\ strlen(cInputString) \in 0 .. MaxLine
         /\ ucInputIndex \in 0 .. MaxLine /\ ucInputIndex <= strlen(cInputString)
         /\ MaxLine \in Nat /\ cmdMAX_INPUT_SIZE \in Nat /\ MaxLine < cmdMAX_INPUT_SIZE
         /\ Columns = 0 .. cmdMAX_INPUT_SIZE /\ Places = 0 .. cmdMAX_INPUT_SIZE - 1
         /\ screen.col \in Columns
<1>1. strlen(cInputString) \in 0 .. MaxLine
  BY DEF LineInv, IsStr, Holds
<1>2. ucInputIndex \in 0 .. MaxLine /\ ucInputIndex <= strlen(cInputString)
  BY <1>1, Sizes DEF LineInv
<1> QED BY <1>1, <1>2, Sizes DEF Columns, Places, LineInv, Screens

LEMMA LineKept ==
  ASSUME LineInv, UNCHANGED <<lineVars, screen, spoiled>>
  PROVE  LineInv'
  BY DEF LineInv, lineVars, ScreenShowsLine, ucCurrInputStrinLen, IsStr, Holds, Clear

LEMMA LineAtStart ==
  ASSUME LineInv, EnterAtStart
  PROVE  LineInv'
<1>1. /\ UNCHANGED lineVars /\ screen' = Fresh /\ ucInputIndex = 0
      /\ spoiled' = (strlen(cInputString) > 0)
  BY DEF EnterAtStart, ucCurrInputStrinLen
<1>2. ASSUME ~spoiled'
      PROVE  /\ screen'.col = ucInputIndex'
             /\ \A i \in Columns : screen'.row[i] =
                  IF i < strlen(cInputString) THEN cInputString[i] ELSE Blank
  <2>1. ~(strlen(cInputString) > 0)
    BY <1>1, <1>2
  <2>2. screen'.col = ucInputIndex' /\ \A i \in Columns : screen'.row[i] = Blank
    BY <1>1, FreshIs DEF lineVars
  <2>3. \A i \in Columns : ~(i < strlen(cInputString))
    BY <2>1, LineFacts
  <2> QED BY <2>2, <2>3
<1>3. ScreenShowsLine'
  BY <1>1, <1>2 DEF ScreenShowsLine, ucCurrInputStrinLen, lineVars
<1> QED BY <1>1, <1>3, FreshIs DEF LineInv, lineVars, IsStr, Holds, Clear

LEMMA LineEnter ==
  ASSUME LineInv, Enter
  PROVE  LineInv'
<1>1. /\ cInputString' = Empty /\ ucInputIndex' = 0
      /\ screen' = Fresh /\ spoiled' = FALSE
  BY DEF Enter
<1>2. strlen(cInputString') = 0
  BY <1>1, EmptyIs
<1>3. cInputString' \in String /\ IsStr(cInputString') /\ Clear(cInputString')
  BY <1>1, EmptyIs
<1>4. ScreenShowsLine'
  BY <1>1, <1>2, FreshIs, LineFacts DEF ScreenShowsLine, ucCurrInputStrinLen
<1>5. screen' \in Screens /\ spoiled' \in BOOLEAN
  BY <1>1, FreshIs
<1>6. ucInputIndex' \in 0 .. strlen(cInputString')
  BY <1>1, <1>2
<1> QED BY <1>3, <1>4, <1>5, <1>6 DEF LineInv

\* The tail of the line is printed again from place n on, the cursor being there,
\* after the character at n was taken out.
LEMMA LineTakeOut ==
  ASSUME LineInv, NEW n \in 0 .. strlen(cInputString) - 1, NEW s \in Screens,
         s.row = screen.row, ~spoiled => s.col = n,
         cInputString' = TakeOut(cInputString, n), ucInputIndex' = n,
         screen' = RedrawFrom(s, n), spoiled' = spoiled
  PROVE  LineInv'
<1> DEFINE len == strlen(cInputString)
           u == TakeOut(cInputString, n)
           str == Shown(u, n, len - n) \o <<Blank>>
<1>1. len \in 0 .. MaxLine /\ n \in 0 .. len - 1
  BY LineFacts
<1>2. /\ u \in String /\ IsStr(u) /\ Clear(u)
      /\ strlen(u) = len - 1
      /\ \A i \in 0 .. n - 1 : u[i] = cInputString[i]
  BY TakeOutIs DEF LineInv
<1>3. screen' = Redraw(s, str)
  BY DEF RedrawFrom, ucCurrInputStrinLen
<1> HIDE DEF u
<1>4. /\ Shown(u, n, len - n) \in Seq(Chars)
      /\ Len(Shown(u, n, len - n)) = len - 1 - n
      /\ \A i \in 1 .. len - 1 - n : Shown(u, n, len - n)[i] = u[n + i - 1]
  <2>1. /\ n \in 0 .. strlen(u) /\ len - n \in Nat
        /\ strlen(u) <= n + (len - n) /\ n + (len - n) <= cmdMAX_INPUT_SIZE
    BY <1>1, <1>2, Sizes
  <2> QED BY <2>1, <1>2, ShownTail
<1>5. /\ str \in Seq(Text1) /\ Len(str) = len - n
      /\ \A i \in 1 .. len - 1 - n : str[i] = u[n + i - 1]
      /\ str[len - n] = Blank
  <2> DEFINE q == Shown(u, n, len - n)
  <2>1. q \in Seq(Chars) /\ Len(q) = len - 1 - n
    BY <1>4
  <2>2. /\ q \o <<Blank>> \in Seq(Text1)
        /\ Len(q \o <<Blank>>) = Len(q) + 1
        /\ \A i \in 1 .. Len(q) : (q \o <<Blank>>)[i] = q[i]
        /\ (q \o <<Blank>>)[Len(q) + 1] = Blank
    BY <2>1, WithBlank
  <2>3. Len(q) + 1 = len - n
    BY <2>1, <1>1
  <2> QED BY <2>1, <2>2, <2>3, <1>4
<1> HIDE DEF str
<1>6. /\ screen' \in Screens /\ screen'.col = s.col
      /\ \A i \in Columns : screen'.row[i] =
           IF i - s.col \in 0 .. Len(str) - 1 THEN str[i - s.col + 1] ELSE s.row[i]
  BY <1>3, <1>5, RedrawIs
<1>7. ASSUME ~spoiled
      PROVE  /\ screen'.col = n
             /\ \A i \in Columns : screen'.row[i] = IF i < len - 1 THEN u[i] ELSE Blank
  <2>1. \A i \in Columns : screen.row[i] = IF i < len THEN cInputString[i] ELSE Blank
    BY <1>7 DEF LineInv, ScreenShowsLine, ucCurrInputStrinLen
  <2>2. \A i \in Columns : screen'.row[i] =
           IF i - n \in 0 .. len - n - 1 THEN str[i - n + 1] ELSE screen.row[i]
    BY <1>5, <1>6, <1>7
  <2> SUFFICES ASSUME NEW i \in Columns
               PROVE  screen'.row[i] = IF i < len - 1 THEN u[i] ELSE Blank
    BY <1>6, <1>7
  <2>3. i \in Int
    BY LineFacts
  <2>4. CASE i < n
    BY <2>1, <2>2, <2>3, <2>4, <1>1, <1>2, LineFacts
  <2>5. CASE i \in n .. len - 2
    <3>1. i - n \in 0 .. len - n - 1 /\ i - n + 1 \in 1 .. len - 1 - n /\ n + (i - n + 1) - 1 = i
      BY <2>3, <2>5, <1>1
    <3>2. str[i - n + 1] = u[i]
      BY <3>1, <1>5
    <3> QED BY <3>1, <3>2, <2>2, <2>5, <1>1
  <2>6. CASE i = len - 1
    <3>1. i - n \in 0 .. len - n - 1 /\ i - n + 1 = len - n
      BY <2>3, <2>6, <1>1
    <3> QED BY <3>1, <2>2, <2>6, <1>1, <1>5
  <2>7. CASE i >= len
    BY <2>1, <2>2, <2>3, <2>7, <1>1
  <2> QED BY <2>3, <2>4, <2>5, <2>6, <2>7, <1>1
<1>8. cInputString' = u /\ strlen(cInputString') = len - 1
  BY <1>2 DEF u
<1>9. ScreenShowsLine'
  BY <1>7, <1>8 DEF ScreenShowsLine, ucCurrInputStrinLen
<1>10. ucInputIndex' \in 0 .. strlen(cInputString') /\ spoiled' \in BOOLEAN
  BY <1>1, <1>8 DEF LineInv
<1> QED BY <1>2, <1>6, <1>8, <1>9, <1>10 DEF LineInv

LEMMA LineBackInside ==
  ASSUME LineInv, BackspaceInside
  PROVE  LineInv'
<1> DEFINE n == ucInputIndex - 1
<1>1. n \in 0 .. strlen(cInputString) - 1
  BY LineFacts DEF BackspaceInside, ucCurrInputStrinLen
<1>2. /\ cInputString' = TakeOut(cInputString, n) /\ ucInputIndex' = n
      /\ screen' = RedrawFrom(MoveLeft(screen, 1), n) /\ spoiled' = spoiled
  BY DEF BackspaceInside
<1>3. /\ MoveLeft(screen, 1) \in Screens /\ MoveLeft(screen, 1).row = screen.row
      /\ 1 <= screen.col => MoveLeft(screen, 1).col = screen.col - 1
  BY MoveLeftIs DEF LineInv
<1>4. ~spoiled => MoveLeft(screen, 1).col = n
  BY <1>1, <1>3, LineFacts DEF LineInv, ScreenShowsLine
<1> HIDE DEF n
<1> QED BY <1>1, <1>2, <1>3, <1>4, LineTakeOut

LEMMA LineDelete ==
  ASSUME LineInv, Delete, UNCHANGED <<ucInputIndex, spoiled>>
  PROVE  LineInv'
<1>1. CASE strlen(cInputString) > ucInputIndex
  <2>1. /\ cInputString' = TakeOut(cInputString, ucInputIndex)
        /\ ucInputIndex' = ucInputIndex
        /\ screen' = RedrawFrom(screen, ucInputIndex) /\ spoiled' = spoiled
    BY <1>1 DEF Delete, ucCurrInputStrinLen
  <2>2. ucInputIndex \in 0 .. strlen(cInputString) - 1
    BY <1>1, LineFacts
  <2>3. screen \in Screens /\ (~spoiled => screen.col = ucInputIndex)
    BY DEF LineInv, ScreenShowsLine
  <2> QED BY <2>1, <2>2, <2>3, LineTakeOut
<1>2. CASE ~(strlen(cInputString) > ucInputIndex)
  BY <1>2, LineKept DEF Delete, ucCurrInputStrinLen, lineVars
<1> QED BY <1>1, <1>2

LEMMA LineBackAtEnd ==
  ASSUME LineInv, BackspaceAtEnd
  PROVE  LineInv'
<1> DEFINE len == strlen(cInputString)
           u == [cInputString EXCEPT ![len - 1] = NUL]
           s == IF ucReceivingEsc = 0 THEN MoveLeft(screen, 1) ELSE screen
<1>1. len \in 1 .. MaxLine /\ ucInputIndex = len
  BY LineFacts DEF BackspaceAtEnd, ucCurrInputStrinLen
<1>2. /\ cInputString' = u /\ ucInputIndex' = len - 1
      /\ screen' = Redraw(s, <<Blank>>)
      /\ spoiled' = (spoiled \/ ucReceivingEsc # 0)
  BY <1>1 DEF BackspaceAtEnd
<1>3. /\ u \in String /\ IsStr(u) /\ Clear(u) /\ strlen(u) = len - 1
      /\ \A i \in 0 .. len - 2 : u[i] = cInputString[i]
  <2>1. len > 0 /\ cInputString \in String /\ IsStr(cInputString) /\ Clear(cInputString)
    BY <1>1 DEF LineInv
  <2> HIDE DEF u
  <2> QED BY <2>1, CutIs DEF u
<1>4. /\ MoveLeft(screen, 1) \in Screens /\ MoveLeft(screen, 1).row = screen.row
      /\ 1 <= screen.col => MoveLeft(screen, 1).col = screen.col - 1
  BY MoveLeftIs DEF LineInv
<1>5. s \in Screens /\ s.row = screen.row
  BY <1>4 DEF LineInv
<1>6. <<Blank>> \in Seq(Text1) /\ Len(<<Blank>>) = 1 /\ <<Blank>>[1] = Blank
  BY DEF Text1
<1>7. /\ screen' \in Screens /\ screen'.col = s.col
      /\ \A i \in Columns : screen'.row[i] =
           IF i - s.col \in 0 .. Len(<<Blank>>) - 1 THEN <<Blank>>[i - s.col + 1] ELSE s.row[i]
  BY <1>2, <1>5, <1>6, RedrawIs
<1>8. ASSUME ~spoiled'
      PROVE  /\ screen'.col = len - 1
             /\ \A i \in Columns : screen'.row[i] = IF i < len - 1 THEN u[i] ELSE Blank
  <2>1. /\ screen.col = len
        /\ \A i \in Columns : screen.row[i] = IF i < len THEN cInputString[i] ELSE Blank
    BY <1>1, <1>2, <1>8 DEF LineInv, ScreenShowsLine, ucCurrInputStrinLen
  <2>2. s.col = len - 1
    <3>1. ucReceivingEsc = 0
      BY <1>2, <1>8
    <3>2. s = MoveLeft(screen, 1)
      BY <3>1
    <3> QED BY <3>2, <1>1, <1>4, <2>1
  <2> SUFFICES ASSUME NEW i \in Columns
               PROVE  screen'.row[i] = IF i < len - 1 THEN u[i] ELSE Blank
    BY <1>7, <2>2
  <2>3. i \in Int /\ i >= 0
    BY LineFacts
  <2> HIDE DEF u, s
  <2>4. CASE i = len - 1
    <3>1. i - s.col = 0
      BY <2>2, <2>3, <2>4
    <3> QED BY <3>1, <2>4, <1>6, <1>7, <1>1
  <2>5. CASE i # len - 1
    <3>1. i - s.col # 0 /\ i - s.col \in Int
      BY <2>2, <2>3, <2>5, <1>1
    <3>2. screen'.row[i] = screen.row[i]
      BY <3>1, <1>5, <1>6, <1>7
    <3> QED BY <3>2, <2>1, <2>3, <2>5, <1>1, <1>3
  <2> QED BY <2>4, <2>5
<1> HIDE DEF u, s
<1>9. ScreenShowsLine'
  BY <1>2, <1>3, <1>8 DEF ScreenShowsLine, ucCurrInputStrinLen
<1>10. ucInputIndex' \in 0 .. strlen(cInputString') /\ spoiled' \in BOOLEAN
  BY <1>1, <1>2, <1>3 DEF LineInv
<1> QED BY <1>2, <1>3, <1>7, <1>9, <1>10 DEF LineInv

LEMMA ClearedIs ==
  ASSUME LineInv
  PROVE  /\ Cleared(screen) \in Screens
         /\ (~spoiled /\ (ucInputIndex = 0 => strlen(cInputString) = 0)) =>
              /\ Cleared(screen).col = 0
              /\ \A i \in Columns : Cleared(screen).row[i] = Blank
<1>1. screen \in Screens /\ ucInputIndex \in Nat
  BY LineFacts DEF LineInv
<1>2. CASE ucInputIndex > 0
  <2> DEFINE s == MoveLeft(screen, ucInputIndex)
  <2>1. s \in Screens /\ (ucInputIndex <= screen.col => s.col = screen.col - ucInputIndex)
    BY <1>1, MoveLeftIs
  <2> HIDE DEF s
  <2>2. /\ EraseRight(s) \in Screens /\ EraseRight(s).col = s.col
        /\ \A i \in Columns : EraseRight(s).row[i] = IF i >= s.col THEN Blank ELSE s.row[i]
    BY <2>1, EraseRightIs
  <2>3. Cleared(screen) = EraseRight(s)
    BY <1>2 DEF Cleared, s
  <2>4. ASSUME ~spoiled  PROVE s.col = 0
    BY <2>1, <2>4, LineFacts DEF LineInv, ScreenShowsLine
  <2>5. \A i \in Columns : i >= 0
    BY LineFacts
  <2> QED BY <2>2, <2>3, <2>4, <2>5, <1>2
<1>3. CASE ~(ucInputIndex > 0)
  <2>1. Cleared(screen) = screen /\ ucInputIndex = 0
    BY <1>1, <1>3 DEF Cleared
  <2>2. ASSUME ~spoiled, strlen(cInputString) = 0
        PROVE  screen.col = 0 /\ \A i \in Columns : screen.row[i] = Blank
    <3>1. \A i \in Columns : ~(i < 0)
      BY LineFacts
    <3> QED BY <2>1, <2>2, <3>1 DEF LineInv, ScreenShowsLine, ucCurrInputStrinLen
  <2> QED BY <1>1, <2>1, <2>2
<1> QED BY <1>2, <1>3

LEMMA LineReplace ==
  ASSUME LineInv, NEW s \in String, IsStr(s), ReplaceLine(s)
  PROVE  LineInv'
<1> DEFINE u == strcpy(Empty, s)
           len == strlen(s)
           scr == Cleared(screen)
<1>1. /\ cInputString' = u /\ ucInputIndex' = len
      /\ screen' = Put(scr, Text(s))
      /\ spoiled' = (spoiled \/ (ucInputIndex = 0 /\ strlen(cInputString) > 0))
  BY DEF ReplaceLine, Replacement, ucCurrInputStrinLen
<1>2. /\ u \in String /\ strlen(u) = len /\ IsStr(u) /\ Clear(u)
      /\ \A i \in 0 .. len : u[i] = s[i]
  BY CopyIs, EmptyIs
<1>3. len \in 0 .. MaxLine
  BY DEF IsStr, Holds
<1>4. /\ Text(s) = [i \in 1 .. len |-> s[i - 1]]
      /\ Text(s) \in Seq(Text1) /\ Len(Text(s)) = len
  BY TextIs DEF Text1
<1>5. scr \in Screens
  BY ClearedIs
<1> HIDE DEF u, scr
<1>6. /\ screen' \in Screens
      /\ scr.col + Len(Text(s)) \in Columns => screen'.col = scr.col + Len(Text(s))
      /\ \A i \in Columns : screen'.row[i] =
           IF i - scr.col \in 0 .. Len(Text(s)) - 1 THEN Text(s)[i - scr.col + 1] ELSE scr.row[i]
  BY <1>1, <1>4, <1>5, PutIs
<1>7. ASSUME ~spoiled'
      PROVE  /\ screen'.col = len
             /\ \A i \in Columns : screen'.row[i] = IF i < len THEN u[i] ELSE Blank
  <2>1. ~spoiled /\ ~(ucInputIndex = 0 /\ strlen(cInputString) > 0)
    BY <1>1, <1>7
  <2>2. ucInputIndex = 0 => strlen(cInputString) = 0
    BY <2>1, LineFacts
  <2>3. scr.col = 0 /\ \A i \in Columns : scr.row[i] = Blank
    BY <2>1, <2>2, ClearedIs DEF scr
  <2>4. screen'.col = len
    BY <1>3, <1>4, <1>6, <2>3, LineFacts
  <2> SUFFICES ASSUME NEW i \in Columns
               PROVE  screen'.row[i] = IF i < len THEN u[i] ELSE Blank
    BY <2>4
  <2>5. i \in Int /\ i >= 0 /\ i - scr.col = i
    BY <2>3, LineFacts
  <2>6. CASE i < len
    <3>1. screen'.row[i] = Text(s)[i + 1]
      BY <1>3, <1>4, <1>6, <2>5, <2>6
    <3>2. Text(s)[i + 1] = s[i]
      BY <1>3, <1>4, <2>5, <2>6
    <3> QED BY <3>1, <3>2, <1>2, <1>3, <2>5, <2>6
  <2>7. CASE ~(i < len)
    BY <1>3, <1>4, <1>6, <2>3, <2>5, <2>7
  <2> QED BY <2>6, <2>7
<1>8. ScreenShowsLine'
  BY <1>1, <1>2, <1>7 DEF ScreenShowsLine, ucCurrInputStrinLen
<1>9. ucInputIndex' \in 0 .. strlen(cInputString')
  BY <1>1, <1>2, <1>3
<1>10. spoiled' \in BOOLEAN
  BY <1>1
<1> QED BY <1>1, <1>2, <1>6, <1>8, <1>9, <1>10 DEF LineInv

LEMMA LineRight ==
  ASSUME LineInv, RightArrow
  PROVE  LineInv'
<1>1. /\ ucInputIndex < strlen(cInputString)
      /\ screen' = MoveRight(screen) /\ ucInputIndex' = ucInputIndex + 1
      /\ UNCHANGED <<cInputString, spoiled>>
  BY DEF RightArrow, MayGoRight, ucCurrInputStrinLen
<1>2. /\ screen' \in Screens /\ screen'.row = screen.row
      /\ screen.col < cmdMAX_INPUT_SIZE => screen'.col = screen.col + 1
  BY <1>1, MoveRightIs DEF LineInv
<1>3. ASSUME ~spoiled'  PROVE screen'.col = ucInputIndex'
  BY <1>1, <1>2, <1>3, LineFacts DEF LineInv, ScreenShowsLine
<1>4. ScreenShowsLine'
  BY <1>1, <1>2, <1>3 DEF LineInv, ScreenShowsLine, ucCurrInputStrinLen
<1>5. ucInputIndex' \in 0 .. strlen(cInputString')
  BY <1>1, LineFacts
<1> QED BY <1>1, <1>2, <1>4, <1>5 DEF LineInv, IsStr, Holds, Clear

LEMMA LineLeft ==
  ASSUME LineInv, LeftArrow
  PROVE  LineInv'
<1>1. /\ ucInputIndex > 0
      /\ screen' = MoveLeft(screen, 1) /\ ucInputIndex' = ucInputIndex - 1
      /\ UNCHANGED <<cInputString, spoiled>>
  BY DEF LeftArrow
<1>2. /\ screen' \in Screens /\ screen'.row = screen.row
      /\ 1 <= screen.col => screen'.col = screen.col - 1
  BY <1>1, MoveLeftIs DEF LineInv
<1>3. ASSUME ~spoiled'  PROVE screen'.col = ucInputIndex'
  BY <1>1, <1>2, <1>3, LineFacts DEF LineInv, ScreenShowsLine
<1>4. ScreenShowsLine'
  BY <1>1, <1>2, <1>3 DEF LineInv, ScreenShowsLine, ucCurrInputStrinLen
<1>5. ucInputIndex' \in 0 .. strlen(cInputString')
  BY <1>1, LineFacts
<1> QED BY <1>1, <1>2, <1>4, <1>5 DEF LineInv, IsStr, Holds, Clear

\* A character is typed while there is room for it.
LEMMA LineType ==
  ASSUME LineInv, TypeChar, Head(pending) \in Chars, strlen(cInputString) < MaxLine
  PROVE  LineInv'
<1> DEFINE c == Head(pending)
           n == ucInputIndex
           len == strlen(cInputString)
           u == PutIn(cInputString, n, c)
           s == Put(screen, <<c>>)
           str == IF len > n THEN Shown(u, n + 1, len - n + 1) ELSE <<>>
<1>1. len \in 0 .. MaxLine - 1 /\ n \in 0 .. len
  BY LineFacts
<1>2. /\ cInputString' = u /\ ucInputIndex' = n + 1
      /\ screen' = Redraw(s, str) /\ spoiled' = spoiled
  BY DEF TypeChar, ucCurrInputStrinLen
<1>3. /\ u \in String /\ strlen(u) = len + 1 /\ IsStr(u) /\ Clear(u)
      /\ \A i \in 0 .. n - 1 : u[i] = cInputString[i]
      /\ u[n] = c
  BY <1>1, PutInIs DEF LineInv
<1>4. <<c>> \in Seq(Text1) /\ Len(<<c>>) = 1 /\ <<c>>[1] = c
  BY DEF Text1
<1> HIDE DEF u, c
<1>5. /\ s \in Screens
      /\ screen.col + Len(<<c>>) \in Columns => s.col = screen.col + Len(<<c>>)
      /\ \A i \in Columns : s.row[i] =
           IF i - screen.col \in 0 .. Len(<<c>>) - 1 THEN <<c>>[i - screen.col + 1]
           ELSE screen.row[i]
  BY <1>4, PutIs DEF LineInv
<1> HIDE DEF s
<1>6. /\ str \in Seq(Text1) /\ Len(str) = len - n
      /\ \A i \in 1 .. len - n : str[i] = u[n + i]
  <2>1. CASE len > n
    <3>1. /\ n + 1 \in 0 .. strlen(u) /\ len - n + 1 \in Nat
          /\ strlen(u) <= n + 1 + (len - n + 1)
          /\ n + 1 + (len - n + 1) <= cmdMAX_INPUT_SIZE
      BY <1>1, <1>3, <2>1, Sizes
    <3>2. /\ Shown(u, n + 1, len - n + 1) \in Seq(Chars)
          /\ Len(Shown(u, n + 1, len - n + 1)) = strlen(u) - (n + 1)
          /\ \A i \in 1 .. strlen(u) - (n + 1) :
               Shown(u, n + 1, len - n + 1)[i] = u[n + 1 + i - 1]
      BY <3>1, <1>3, ShownTail
    <3>3. strlen(u) - (n + 1) = len - n /\ \A i \in 1 .. len - n : n + 1 + i - 1 = n + i
      BY <1>1, <1>3
    <3>4. str = Shown(u, n + 1, len - n + 1)
      BY <2>1
    <3> QED BY <3>2, <3>3, <3>4 DEF Text1
  <2>2. CASE ~(len > n)
    BY <2>2, <1>1
  <2> QED BY <2>1, <2>2
<1> HIDE DEF str
<1>7. /\ screen' \in Screens /\ screen'.col = s.col
      /\ \A i \in Columns : screen'.row[i] =
           IF i - s.col \in 0 .. Len(str) - 1 THEN str[i - s.col + 1] ELSE s.row[i]
  BY <1>2, <1>5, <1>6, RedrawIs
<1>8. ASSUME ~spoiled'
      PROVE  /\ screen'.col = n + 1
             /\ \A i \in Columns : screen'.row[i] = IF i < len + 1 THEN u[i] ELSE Blank
  <2>1. /\ screen.col = n
        /\ \A i \in Columns : screen.row[i] = IF i < len THEN cInputString[i] ELSE Blank
    BY <1>2, <1>8 DEF LineInv, ScreenShowsLine, ucCurrInputStrinLen
  <2>2. s.col = n + 1
    BY <1>1, <1>4, <1>5, <2>1, LineFacts
  <2> SUFFICES ASSUME NEW i \in Columns
               PROVE  screen'.row[i] = IF i < len + 1 THEN u[i] ELSE Blank
    BY <1>7, <2>2
  <2>3. i \in Int /\ i >= 0
    BY LineFacts
  <2>4. s.row[i] = IF i = n THEN c ELSE screen.row[i]
    <3>1. i - screen.col \in 0 .. Len(<<c>>) - 1 <=> i = n
      BY <1>1, <1>4, <2>1, <2>3
    <3>2. i = n => i - screen.col + 1 = 1
      BY <1>1, <2>1
    <3> QED BY <3>1, <3>2, <1>4, <1>5
  <2>5. CASE i \in n + 1 .. len
    <3>1. /\ i - s.col \in 0 .. Len(str) - 1
          /\ i - s.col + 1 \in 1 .. len - n /\ n + (i - s.col + 1) = i
      BY <1>1, <1>6, <2>2, <2>3, <2>5
    <3>2. screen'.row[i] = str[i - s.col + 1]
      BY <3>1, <1>7
    <3>3. str[i - s.col + 1] = u[i]
      BY <3>1, <1>6
    <3> QED BY <3>2, <3>3, <2>5, <1>1
  <2>6. CASE i \notin n + 1 .. len
    <3>1. ~(i - s.col \in 0 .. Len(str) - 1)
      BY <1>1, <1>6, <2>2, <2>3, <2>6
    <3>2. screen'.row[i] = s.row[i]
      BY <3>1, <1>7
    <3>3. CASE i = n
      BY <3>2, <3>3, <2>4, <1>1, <1>3
    <3>4. CASE i < n
      BY <3>2, <3>4, <2>1, <2>3, <2>4, <1>1, <1>3
    <3>5. CASE i > len
      BY <3>2, <3>5, <2>1, <2>3, <2>4, <1>1
    <3> QED BY <3>3, <3>4, <3>5, <2>3, <2>6, <1>1
  <2> QED BY <2>5, <2>6
<1>9. ScreenShowsLine'
  BY <1>2, <1>3, <1>8 DEF ScreenShowsLine, ucCurrInputStrinLen
<1>10. ucInputIndex' \in 0 .. strlen(cInputString')
  BY <1>1, <1>2, <1>3
<1>11. spoiled' \in BOOLEAN
  BY <1>2 DEF LineInv
<1> QED BY <1>2, <1>3, <1>7, <1>9, <1>10, <1>11 DEF LineInv
-----------------------------------------------------------------------------
(* The decoder of escape sequences, and the bytes to come *)

LEMMA Bytes == /\ Controls \cap Finals = {} /\ Controls \cap Params = {}
               /\ Params \cap Finals = {} /\ Chars \cap Controls = {}
               /\ Byte \ Controls = Finals \cup Params
               /\ Upper \subseteq Finals /\ "[" \in Upper
  BY EditorAssumption DEF Byte, Finals, Upper, Params, Controls

LEMMA Coming ==
  ASSUME NEW p \in Seq(Byte), p # <<>>
  PROVE  /\ Head(p) = p[1] /\ Head(p) \in Byte
         /\ Tail(p) \in Seq(Byte) /\ Len(p) \in Nat /\ Len(p) >= 1
         /\ Len(Tail(p)) = Len(p) - 1
         /\ \A i \in 1 .. Len(p) - 1 : Tail(p)[i] = p[i + 1]
         /\ Len(p) = 1 <=> Tail(p) = <<>>
<1>1. /\ Head(p) = p[1] /\ Head(p) \in Byte
      /\ Tail(p) \in Seq(Byte) /\ Len(p) \in Nat /\ Len(p) >= 1
      /\ Len(Tail(p)) = Len(p) - 1
      /\ \A i \in 1 .. Len(p) - 1 : Tail(p)[i] = p[i + 1]
  OBVIOUS
<1>2. \A q \in Seq(Byte) : Len(q) = 0 <=> q = <<>>
  BY EmptySeq
<1>3. Len(p) = 1 <=> Len(Tail(p)) = 0
  BY <1>1
<1>4. Len(p) = 1 <=> Tail(p) = <<>>
  BY <1>1, <1>2, <1>3
<1> QED BY <1>1, <1>4

\* A control other than ESC, and a character that is typed, is a key of its own.
LEMMA OneByte ==
  ASSUME EscInv, pending # <<>>,
         \/ Head(pending) \in Controls \ {"ESC"}
         \/ Head(pending) \notin Controls /\ ucReceivingEsc = 0
  PROVE  /\ Tail(pending) = <<>>
         /\ Head(pending) \notin Controls =>
              Head(pending) \in Chars /\ strlen(cInputString) < MaxLine
<1>1. /\ pending[1] = Head(pending) /\ Len(pending) >= 1 /\ Len(pending) \in Nat
      /\ Len(pending) = 1 => Tail(pending) = <<>>
  BY Coming DEF EscInv
<1>2. "ESC" \in Controls
  BY DEF Controls
<1>3. CASE Len(pending) = 1 /\ pending[1] \in Chars \cup Controls
           /\ (pending[1] \in Chars => strlen(cInputString) < MaxLine)
  BY <1>1, <1>3
<1>4. CASE Len(pending) > 1 /\ pending[1] = "ESC" /\ EscTail(Tail(pending))
  BY <1>1, <1>2, <1>4
<1>5. CASE ucReceivingEsc = 1 /\ pending # <<>> /\ EscTail(pending)
  <2>1. pending[1] \notin Controls
    BY <1>1, <1>5 DEF EscTail
  <2> QED BY <2>1, <1>1, <1>5
<1>6. CASE ucReceivingEsc = 2 /\ NoControl(pending)
  <2>1. pending[1] \notin Controls
    BY <1>1, <1>6 DEF NoControl
  <2> QED BY <2>1, <1>1, <1>6
<1> QED BY <1>3, <1>4, <1>5, <1>6 DEF EscInv, KeyInv

LEMMA KeyPressed ==
  ASSUME EscInv, NEW k \in Keys, Press(k)
  PROVE  EscInv'
<1>1. /\ pending' = k /\ UNCHANGED <<cInputString, escVars>>
      /\ k \in Seq(Chars) => strlen(cInputString) < MaxLine
  BY DEF Press, lineVars, ucCurrInputStrinLen
<1>2. k \in Seq(Byte)
  BY EditorAssumption
<1>3. CASE Len(k) = 1 /\ k[1] \in Chars \cup Controls
  <2>1. k[1] \in Chars => k \in Seq(Chars)
    <3>1. ASSUME k[1] \in Chars  PROVE \A i \in 1 .. Len(k) : k[i] \in Chars
      BY <1>3, <3>1
    <3> QED BY <3>1, <1>2
  <2> QED BY <2>1, <1>1, <1>2, <1>3 DEF EscInv, KeyInv, escVars
<1>4. CASE Len(k) > 1 /\ k[1] = "ESC" /\ EscTail(Tail(k))
  <2>1. Len(pending') > 1 /\ pending'[1] = "ESC" /\ EscTail(Tail(pending'))
    BY <1>1, <1>4
  <2>2. KeyInv'
    BY <2>1 DEF KeyInv, EscTail
  <2> QED BY <2>2, <1>1, <1>2 DEF EscInv, escVars
<1> QED BY <1>3, <1>4, KeyAssumption

\* The controls, and the characters that are typed.
LEMMA KeyOneByte ==
  ASSUME EscInv, pending # <<>>, pending' = Tail(pending), UNCHANGED escVars,
         \/ Head(pending) \in Controls \ {"ESC"}
         \/ Head(pending) \notin Controls /\ ucReceivingEsc = 0
  PROVE  EscInv'
<1>1. pending' = <<>>
  BY OneByte
<1>2. pending' = <<>>
  BY <1>1
<1>3. KeyInv' /\ pending' \in Seq(Byte)
  BY <1>2, EmptySeq DEF KeyInv
<1> QED BY <1>3 DEF EscInv, escVars

LEMMA KeyEscByte ==
  ASSUME EscInv, EscByte
  PROVE  EscInv'
<1>1. /\ pending # <<>> /\ Head(pending) = "ESC" /\ pending' = Tail(pending)
      /\ ucReceivingEsc' = 1 /\ cEscInitialByte' = "none" /\ cEscParamByte' = "none"
  BY DEF EscByte, Receive
<1>2. /\ pending[1] = "ESC" /\ Len(pending) >= 1 /\ Len(pending) \in Nat
      /\ Tail(pending) \in Seq(Byte)
      /\ Len(Tail(pending)) = Len(pending) - 1
      /\ Len(pending) = 1 <=> Tail(pending) = <<>>
  BY <1>1, Coming DEF EscInv
<1>3. "ESC" \in Controls
  BY DEF Controls
<1>4. CASE Len(pending) = 1
  BY <1>1, <1>2, <1>4 DEF EscInv, KeyInv
<1>5. CASE Len(pending) > 1 /\ EscTail(Tail(pending))
  <2>0. Tail(pending) # <<>>
    BY <1>2, <1>5
  <2>1. pending' # <<>> /\ EscTail(pending')
    BY <2>0, <1>1, <1>5
  <2>2. KeyInv'
    BY <2>1, <1>1 DEF KeyInv, EscTail
  <2> QED BY <2>2, <1>1, <1>2 DEF EscInv
<1>6. CASE ucReceivingEsc = 1 /\ EscTail(pending)
  BY <1>2, <1>3, <1>6 DEF EscTail
<1>7. CASE NoControl(pending)
  BY <1>2, <1>3, <1>7 DEF NoControl
<1> QED BY <1>1, <1>4, <1>5, <1>6, <1>7 DEF EscInv, KeyInv

\* The bytes of a sequence behind the escape.
LEMMA InSequence ==
  ASSUME EscInv, pending # <<>>, Head(pending) \notin Controls
  PROVE  /\ ucReceivingEsc = 1 => Tail(pending) = <<>> \/ EscTail(pending)
         /\ ucReceivingEsc = 2 => Tail(pending) = <<>> \/
              /\ NoControl(pending)
              /\ cEscInitialByte = "[" => \A i \in 1 .. Len(pending) - 1 : pending[i] \in Params
<1>1. /\ pending[1] = Head(pending) /\ Len(pending) = 1 => Tail(pending) = <<>>
  BY Coming DEF EscInv
<1>2. "ESC" \in Controls /\ pending[1] = Head(pending)
  BY Coming DEF Controls, EscInv
<1> QED BY <1>1, <1>2 DEF EscInv, KeyInv

LEMMA KeyFirstByte ==
  ASSUME EscInv, EscFirstByte
  PROVE  EscInv'
<1> DEFINE h == Head(pending)
<1>1. /\ pending # <<>> /\ h \notin Controls /\ pending' = Tail(pending)
      /\ ucReceivingEsc = 1 /\ UNCHANGED cEscParamByte
      /\ h \in Upper => ucReceivingEsc' = 2 /\ cEscInitialByte' = h
      /\ h \notin Upper => ucReceivingEsc' = 0 /\ UNCHANGED cEscInitialByte
  BY DEF EscFirstByte, Receive
<1>2. /\ h = pending[1] /\ Tail(pending) \in Seq(Byte)
      /\ Len(pending) \in Nat /\ Len(pending) >= 1
      /\ Len(Tail(pending)) = Len(pending) - 1
      /\ \A i \in 1 .. Len(pending) - 1 : Tail(pending)[i] = pending[i + 1]
      /\ Len(pending) = 1 => Tail(pending) = <<>>
  BY <1>1, Coming DEF EscInv
<1>3. Tail(pending) = <<>> \/ EscTail(pending)
  BY <1>1, InSequence
<1>4. /\ ucReceivingEsc' \in 0 .. 2 /\ cEscInitialByte' \in Upper \cup {"none"}
      /\ cEscParamByte' \in Params \cup {"none"} /\ pending' \in Seq(Byte)
  BY <1>1, <1>2 DEF EscInv
<1>5. CASE Tail(pending) = <<>>
  BY <1>1, <1>4, <1>5 DEF EscInv, KeyInv
<1>6. CASE EscTail(pending) /\ Tail(pending) # <<>>
  <2>1. Len(pending) > 1
    BY <1>2, <1>6
  <2>2. h \in Upper
    BY <2>1, <1>2, <1>6, Bytes DEF EscTail
  <2>3. NoControl(pending')
    BY <1>1, <1>2, <1>6 DEF NoControl, EscTail
  <2>4. h = "[" => \A i \in 1 .. Len(pending') - 1 : pending'[i] \in Params
    BY <2>1, <1>1, <1>2, <1>6 DEF EscTail
  <2>5. KeyInv'
    BY <2>2, <2>3, <2>4, <1>1 DEF KeyInv, NoControl
  <2> QED BY <2>5, <1>4 DEF EscInv
<1> QED BY <1>3, <1>5, <1>6

\* A byte that does not end the sequence.
LEMMA KeyInside ==
  ASSUME EscInv, ucReceivingEsc = 2, pending # <<>>, Head(pending) \notin Controls,
         pending' = Tail(pending), UNCHANGED <<ucReceivingEsc, cEscInitialByte>>,
         cEscParamByte' \in Params \cup {"none"}
  PROVE  EscInv'
<1>1. /\ Tail(pending) \in Seq(Byte) /\ Len(pending) \in Nat /\ Len(pending) >= 1
      /\ Len(Tail(pending)) = Len(pending) - 1
      /\ \A i \in 1 .. Len(pending) - 1 : Tail(pending)[i] = pending[i + 1]
  BY Coming DEF EscInv
<1>2. CASE Tail(pending) = <<>>
  BY <1>1, <1>2 DEF EscInv, KeyInv
<1>3. CASE /\ NoControl(pending)
           /\ cEscInitialByte = "[" =>
                \A i \in 1 .. Len(pending) - 1 : pending[i] \in Params
  <2>1. NoControl(pending')
    BY <1>1, <1>3 DEF NoControl
  <2>2. cEscInitialByte = "[" => \A i \in 1 .. Len(pending') - 1 : pending'[i] \in Params
    BY <1>1, <1>3
  <2>3. KeyInv'
    BY <2>1, <2>2 DEF KeyInv, NoControl
  <2> QED BY <2>3, <1>1 DEF EscInv
<1> QED BY <1>2, <1>3, InSequence

\* The byte that ends it is the last of its key.
LEMMA KeyFinal ==
  ASSUME EscInv, NEW bytes \in SUBSET Finals, EscFinal(bytes)
  PROVE  EscInv'
<1>1. /\ ucReceivingEsc = 2 /\ cEscInitialByte = "["
      /\ pending # <<>> /\ Head(pending) \in Finals /\ pending' = Tail(pending)
      /\ ucReceivingEsc' = 0 /\ UNCHANGED <<cEscInitialByte, cEscParamByte>>
  BY DEF EscFinal, Receive
<1>2. Head(pending) \notin Controls /\ Head(pending) \notin Params
  BY <1>1, Bytes
<1>3. /\ Head(pending) = pending[1] /\ Len(pending) \in Nat /\ Len(pending) >= 1
      /\ Len(pending) = 1 => Tail(pending) = <<>>
  BY <1>1, Coming DEF EscInv
<1>4. pending' = <<>>
  <2>1. CASE Tail(pending) = <<>>
    BY <2>1, <1>1
  <2>2. CASE \A i \in 1 .. Len(pending) - 1 : pending[i] \in Params
    BY <2>2, <1>1, <1>2, <1>3
  <2> QED BY <2>1, <2>2, <1>1, <1>2, InSequence
<1>5. KeyInv' /\ pending' \in Seq(Byte)
  BY <1>4 DEF KeyInv
<1> QED BY <1>1, <1>5 DEF EscInv
-----------------------------------------------------------------------------
(* The invariant *)

LEMMA HistKept ==
  ASSUME HistInv, UNCHANGED histVars
  PROVE  HistInv'
  BY DEF HistInv, histVars, IsStr, Holds

LEMMA HistEnter ==
  ASSUME LineInv, HistInv, Enter
  PROVE  HistInv'
<1>1. /\ cLastInputString' = strcpy(cLastInputString, cInputString)
      /\ ucHistoryIndex' = 0 /\ UNCHANGED cTmpInputString
  BY DEF Enter
<1>2. cLastInputString' \in String /\ IsStr(cLastInputString')
  BY <1>1, CopyIs DEF LineInv, HistInv
<1> QED BY <1>1, <1>2 DEF HistInv, IsStr, Holds

LEMMA HistUp ==
  ASSUME LineInv, HistInv, UpArrow
  PROVE  HistInv'
<1>1. /\ cTmpInputString' = strcpy(Empty, cInputString)
      /\ ucHistoryIndex' = 1 /\ UNCHANGED cLastInputString
  BY DEF UpArrow
<1>2. cTmpInputString' \in String /\ IsStr(cTmpInputString')
  BY <1>1, CopyIs, EmptyIs DEF LineInv
<1> QED BY <1>1, <1>2 DEF HistInv, IsStr, Holds

LEMMA HistDown ==
  ASSUME HistInv, DownArrow
  PROVE  HistInv'
<1>1. /\ ucHistoryIndex > 0 /\ ucHistoryIndex' = ucHistoryIndex - 1
      /\ UNCHANGED <<cLastInputString, cTmpInputString>>
  BY DEF DownArrow
<1>2. ucHistoryIndex' \in {0, 1}
  BY <1>1 DEF HistInv
<1> QED BY <1>1, <1>2 DEF HistInv, IsStr, Holds

LEMMA InitInv == Init => EditorInv
<1> SUFFICES ASSUME Init  PROVE EditorInv
  OBVIOUS
<1>1. LineInv
  <2>1. \A i \in Columns : ~(i < 0)
    BY Sizes DEF Columns
  <2>2. ScreenShowsLine
    BY <2>1, EmptyIs, FreshIs DEF Init, ScreenShowsLine, ucCurrInputStrinLen
  <2>3. /\ cInputString \in String /\ IsStr(cInputString) /\ Clear(cInputString)
        /\ strlen(cInputString) = 0 /\ ucInputIndex = 0
    BY EmptyIs DEF Init
  <2>4. screen \in Screens /\ spoiled \in BOOLEAN
    BY FreshIs DEF Init
  <2>5. ucInputIndex \in 0 .. strlen(cInputString)
    BY <2>3
  <2> QED BY <2>2, <2>3, <2>4, <2>5 DEF LineInv
<1>2. HistInv
  BY EmptyIs DEF Init, HistInv
<1>3. EscInv
  BY EmptySeq DEF Init, EscInv, KeyInv
<1> QED BY <1>1, <1>2, <1>3 DEF EditorInv

LEMMA StepInv == EditorInv /\ [Next]_vars => EditorInv'
<1> SUFFICES ASSUME EditorInv, [Next]_vars  PROVE EditorInv'
  OBVIOUS
<1>inv. LineInv /\ HistInv /\ EscInv
  BY DEF EditorInv
<1>0. "CR" \in Controls \ {"ESC"} /\ "BS" \in Controls \ {"ESC"} /\ "DEL" \in Controls \ {"ESC"}
  BY DEF Controls
<1>1. ASSUME NEW k \in Keys, Press(k)  PROVE EditorInv'
  BY <1>1, <1>inv, LineKept, HistKept, KeyPressed DEF Press, EditorInv
<1>2. CASE Enter
  <2>1. EscInv'
    BY <1>0, <1>2, <1>inv, KeyOneByte DEF Enter, Receive
  <2> QED BY <2>1, <1>2, <1>inv, LineEnter, HistEnter DEF EditorInv
<1>3. CASE EnterAtStart
  <2>1. EscInv' /\ UNCHANGED histVars
    BY <1>0, <1>3, <1>inv, KeyOneByte DEF EnterAtStart, Receive
  <2> QED BY <2>1, <1>3, <1>inv, LineAtStart, HistKept DEF EditorInv
<1>4. CASE BackspaceInside
  <2>1. EscInv' /\ UNCHANGED histVars
    BY <1>0, <1>4, <1>inv, KeyOneByte DEF BackspaceInside, Receive
  <2> QED BY <2>1, <1>4, <1>inv, LineBackInside, HistKept DEF EditorInv
<1>5. CASE BackspaceAtEnd
  <2>1. EscInv' /\ UNCHANGED histVars
    BY <1>0, <1>5, <1>inv, KeyOneByte DEF BackspaceAtEnd, Receive
  <2> QED BY <2>1, <1>5, <1>inv, LineBackAtEnd, HistKept DEF EditorInv
<1>6. CASE BackspaceAtStart
  <2>1. EscInv' /\ UNCHANGED histVars /\ UNCHANGED <<lineVars, screen, spoiled>>
    BY <1>0, <1>6, <1>inv, KeyOneByte DEF BackspaceAtStart, Receive
  <2> QED BY <2>1, <1>inv, LineKept, HistKept DEF EditorInv
<1>7. CASE DelByte
  <2>1. EscInv' /\ UNCHANGED histVars /\ UNCHANGED <<ucInputIndex, spoiled>> /\ Delete
    BY <1>0, <1>7, <1>inv, KeyOneByte DEF DelByte, Receive
  <2> QED BY <2>1, <1>inv, LineDelete, HistKept DEF EditorInv
<1>8. CASE EscByte
  BY <1>8, <1>inv, KeyEscByte, LineKept, HistKept DEF EscByte, EditorInv
<1>9. CASE EscFirstByte
  BY <1>9, <1>inv, KeyFirstByte, LineKept, HistKept DEF EscFirstByte, EditorInv
<1>10. CASE EscParamByte
  <2>1. /\ ucReceivingEsc = 2 /\ pending # <<>> /\ Head(pending) \in Params
        /\ pending' = Tail(pending) /\ UNCHANGED <<ucReceivingEsc, cEscInitialByte>>
        /\ cEscParamByte' \in {Head(pending), cEscParamByte}
    BY <1>10 DEF EscParamByte, Receive
  <2>2. Head(pending) \notin Controls /\ cEscParamByte' \in Params \cup {"none"}
    BY <2>1, <1>inv, Bytes DEF EscInv
  <2>3. EscInv'
    BY <2>1, <2>2, <1>inv, KeyInside
  <2> QED BY <2>3, <1>10, <1>inv, LineKept, HistKept DEF EscParamByte, EditorInv
<1>11. CASE EscOther
  <2>1. EscInv'
    BY <1>11, <1>inv, KeyInside DEF EscOther, Receive, escVars, EscInv
  <2> QED BY <2>1, <1>11, <1>inv, LineKept, HistKept DEF EscOther, EditorInv
<1>12. \A bytes \in SUBSET Finals : EscFinal(bytes) => EscInv'
  BY <1>inv, KeyFinal
<1>13. /\ {"A"} \subseteq Finals /\ {"B"} \subseteq Finals /\ {"C"} \subseteq Finals
       /\ {"D"} \subseteq Finals /\ {"~"} \subseteq Finals
       /\ {b \in Finals : ~Means(b)} \subseteq Finals
  BY DEF Finals, Upper
<1>14. CASE UpArrow
  <2>1. EscFinal({"A"}) /\ ReplaceLine(cLastInputString)
    BY <1>14 DEF UpArrow
  <2>2. LineInv'
    BY <2>1, <1>inv, LineReplace DEF HistInv
  <2> QED BY <2>1, <2>2, <1>12, <1>13, <1>14, <1>inv, HistUp DEF EditorInv
<1>15. CASE DownArrow
  <2>1. EscFinal({"B"}) /\ ReplaceLine(cTmpInputString)
    BY <1>15 DEF DownArrow
  <2>2. LineInv'
    BY <2>1, <1>inv, LineReplace DEF HistInv
  <2> QED BY <2>1, <2>2, <1>12, <1>13, <1>15, <1>inv, HistDown DEF EditorInv
<1>16. CASE RightArrow
  <2>1. EscFinal({"C"}) /\ UNCHANGED histVars
    BY <1>16 DEF RightArrow
  <2> QED BY <2>1, <1>12, <1>13, <1>16, <1>inv, LineRight, HistKept DEF EditorInv
<1>17. CASE LeftArrow
  <2>1. EscFinal({"D"}) /\ UNCHANGED histVars
    BY <1>17 DEF LeftArrow
  <2> QED BY <2>1, <1>12, <1>13, <1>17, <1>inv, LineLeft, HistKept DEF EditorInv
<1>18. CASE DeleteKey
  <2>1. EscFinal({"~"}) /\ UNCHANGED histVars /\ UNCHANGED <<ucInputIndex, spoiled>> /\ Delete
    BY <1>18 DEF DeleteKey
  <2> QED BY <2>1, <1>12, <1>13, <1>inv, LineDelete, HistKept DEF EditorInv
<1>19. CASE EscNothing
  <2>1. /\ EscFinal({b \in Finals : ~Means(b)})
        /\ UNCHANGED histVars /\ UNCHANGED <<lineVars, screen, spoiled>>
    BY <1>19 DEF EscNothing
  <2> QED BY <2>1, <1>12, <1>13, <1>inv, LineKept, HistKept DEF EditorInv
<1>20. CASE TypeChar
  <2>1. /\ ucReceivingEsc = 0 /\ pending # <<>> /\ Head(pending) \notin Controls
        /\ pending' = Tail(pending) /\ UNCHANGED escVars /\ UNCHANGED histVars
    BY <1>20 DEF TypeChar, Receive
  <2>2. Head(pending) \in Chars /\ strlen(cInputString) < MaxLine
    BY <2>1, <1>inv, OneByte
  <2>3. EscInv'
    BY <2>1, <1>inv, KeyOneByte
  <2> QED BY <2>1, <2>2, <2>3, <1>20, <1>inv, LineType, HistKept DEF EditorInv
<1>21. CASE UNCHANGED vars
  <2>1. EscInv'
    BY <1>21, <1>inv DEF vars, escVars, lineVars, EscInv, KeyInv, NoControl, EscTail
  <2> QED BY <2>1, <1>21, <1>inv, LineKept, HistKept DEF vars, EditorInv
<1> QED BY <1>1, <1>2, <1>3, <1>4, <1>5, <1>6, <1>7, <1>8, <1>9, <1>10, <1>11, <1>14, <1>15,
           <1>16, <1>17, <1>18, <1>19, <1>20, <1>21 DEF Next

\* Whatever keys come, the buffers hold strings, the row and the cursor are those
\* of the line, and the bytes to come are what the decoder expects: the inductive
\* invariant of prvUARTCommandConsoleTask.
THEOREM EditorIsOrderly == Spec => []EditorInv
  BY InitInv, StepInv, PTL DEF Spec

\* Every buffer and index, and the state of the decoder, stay in their types.
THEOREM TypeCorrect == Spec => []TypeOK
<1>1. EditorInv => TypeOK
  BY InvMeans
<1> QED BY <1>1, EditorIsOrderly, PTL

\* cInputString is a terminated string with ucInputIndex inside it, and clear
\* behind its end, although no loop of the code ever writes a terminator.
THEOREM LineIsAString == Spec => []LineWellFormed
<1>1. EditorInv => LineWellFormed
  BY InvMeans
<1> QED BY <1>1, EditorIsOrderly, PTL

\* Until a key comes for which the code does not redraw, the terminal shows the
\* line and its cursor is at ucInputIndex.
THEOREM RowIsTheLine == Spec => []ScreenShowsLine
<1>1. EditorInv => ScreenShowsLine
  BY InvMeans
<1> QED BY <1>1, EditorIsOrderly, PTL
-----------------------------------------------------------------------------
(* The abstract editor *)

\* The n-th and following places: what insertion, deletion and cutting do to the
\* text in terms of sequences.
LEMMA Splice ==
  ASSUME NEW t \in Seq(Chars), NEW n \in 0 .. Len(t), NEW m \in n .. Len(t)
  PROVE  /\ SubSeq(t, 1, n) \in Seq(Chars) /\ Len(SubSeq(t, 1, n)) = n
         /\ \A i \in 1 .. n : SubSeq(t, 1, n)[i] = t[i]
         /\ SubSeq(t, m + 1, Len(t)) \in Seq(Chars)
         /\ Len(SubSeq(t, m + 1, Len(t))) = Len(t) - m
         /\ \A i \in 1 .. Len(t) - m : SubSeq(t, m + 1, Len(t))[i] = t[m + i]
<1>1. Len(t) \in Nat /\ \A i \in 1 .. Len(t) : t[i] \in Chars
  OBVIOUS
<1>2. /\ SubSeq(t, 1, n) \in Seq(Chars)
      /\ Len(SubSeq(t, 1, n)) = IF 1 <= n THEN n - 1 + 1 ELSE 0
      /\ \A i \in 1 .. n - 1 + 1 : SubSeq(t, 1, n)[i] = t[1 + i - 1]
  <2>1. 1 \in Int /\ n \in Int /\ \A i \in 1 .. n : t[i] \in Chars
    BY <1>1
  <2> QED BY <2>1, SubSeqProperties
<1>3. /\ SubSeq(t, m + 1, Len(t)) \in Seq(Chars)
      /\ Len(SubSeq(t, m + 1, Len(t))) =
           IF m + 1 <= Len(t) THEN Len(t) - (m + 1) + 1 ELSE 0
      /\ \A i \in 1 .. Len(t) - (m + 1) + 1 :
           SubSeq(t, m + 1, Len(t))[i] = t[m + 1 + i - 1]
  <2>1. m + 1 \in Int /\ Len(t) \in Int /\ \A i \in m + 1 .. Len(t) : t[i] \in Chars
    BY <1>1
  <2> QED BY <2>1, SubSeqProperties
<1>4. /\ Len(SubSeq(t, 1, n)) = n
      /\ \A i \in 1 .. n : SubSeq(t, 1, n)[i] = t[i]
  <2>1. n - 1 + 1 = n /\ \A i \in 1 .. n : 1 + i - 1 = i
    BY <1>1
  <2> QED BY <1>1, <1>2, <2>1
<1>5. /\ Len(SubSeq(t, m + 1, Len(t))) = Len(t) - m
      /\ \A i \in 1 .. Len(t) - m : SubSeq(t, m + 1, Len(t))[i] = t[m + i]
  <2>1. Len(t) - (m + 1) + 1 = Len(t) - m
    BY <1>1
  <2>2. Len(SubSeq(t, m + 1, Len(t))) = Len(t) - m
    <3>1. m \in Int /\ Len(t) \in Int /\ m <= Len(t)
      BY <1>1
    <3>2. CASE m + 1 <= Len(t)
      BY <3>2, <2>1, <1>3
    <3>3. CASE ~(m + 1 <= Len(t))
      <4>1. Len(t) - m = 0
        BY <3>1, <3>3
      <4> QED BY <4>1, <3>3, <1>3
    <3> QED BY <3>2, <3>3
  <2>3. ASSUME NEW i \in 1 .. Len(t) - m
        PROVE  SubSeq(t, m + 1, Len(t))[i] = t[m + i]
    <3>1. m + 1 + i - 1 = m + i
      BY <1>1
    <3> QED BY <3>1, <2>1, <1>3
  <2> QED BY <2>2, <2>3
<1> QED BY <1>2, <1>3, <1>4, <1>5

LEMMA TextAt ==
  ASSUME NEW s \in String, IsStr(s)
  PROVE  /\ Text(s) \in Seq(Chars) /\ Len(Text(s)) = strlen(s)
         /\ strlen(s) \in 0 .. MaxLine
         /\ \A i \in 1 .. strlen(s) : Text(s)[i] = s[i - 1]
<1>1. strlen(s) \in 0 .. MaxLine
  BY DEF IsStr, Holds
<1> QED BY <1>1, TextIs

LEMMA TextPutIn ==
  ASSUME NEW s \in String, IsStr(s), Clear(s), strlen(s) < MaxLine,
         NEW n \in 0 .. strlen(s), NEW c \in Chars
  PROVE  Text(PutIn(s, n, c)) =
           SubSeq(Text(s), 1, n) \o <<c>> \o SubSeq(Text(s), n + 1, Len(Text(s)))
<1> DEFINE u == PutIn(s, n, c)
           t == Text(s)
           len == strlen(s)
           l == SubSeq(t, 1, n)
           r == SubSeq(t, n + 1, Len(t))
<1>1. /\ u \in String /\ strlen(u) = len + 1 /\ IsStr(u)
      /\ \A i \in 0 .. n - 1 : u[i] = s[i]
      /\ u[n] = c
      /\ \A i \in n + 1 .. len : u[i] = s[i - 1]
  BY PutInIs
<1>2. /\ t \in Seq(Chars) /\ Len(t) = len /\ len \in 0 .. MaxLine
      /\ \A i \in 1 .. len : t[i] = s[i - 1]
  BY TextAt
<1>3. /\ Text(u) \in Seq(Chars) /\ Len(Text(u)) = len + 1
      /\ \A i \in 1 .. len + 1 : Text(u)[i] = u[i - 1]
  <2> HIDE DEF u
  <2> QED BY <1>1, TextAt
<1> HIDE DEF t, u
<1>4. /\ l \in Seq(Chars) /\ Len(l) = n /\ \A i \in 1 .. n : l[i] = t[i]
      /\ r \in Seq(Chars) /\ Len(r) = len - n /\ \A i \in 1 .. len - n : r[i] = t[n + i]
  <2>1. n \in 0 .. Len(t) /\ n \in n .. Len(t) /\ Len(t) - n = len - n
    BY <1>2
  <2>2. t \in Seq(Chars)
    BY <1>2
  <2>3. /\ l \in Seq(Chars) /\ Len(l) = n
        /\ \A i \in 1 .. n : l[i] = t[i]
        /\ r \in Seq(Chars) /\ Len(r) = Len(t) - n
        /\ \A i \in 1 .. Len(t) - n : r[i] = t[n + i]
    BY <2>1, <2>2, Splice
  <2> HIDE DEF l, r
  <2> QED BY <2>1, <2>3
<1> HIDE DEF l, r
<1>5. <<c>> \in Seq(Chars) /\ Len(<<c>>) = 1 /\ <<c>>[1] = c
  OBVIOUS
<1>6. /\ l \o <<c>> \in Seq(Chars) /\ Len(l \o <<c>>) = n + 1
      /\ \A i \in 1 .. n + 1 : (l \o <<c>>)[i] = IF i <= n THEN l[i] ELSE <<c>>[i - n]
  BY <1>4, <1>5, ConcatProperties
<1>7. /\ l \o <<c>> \o r \in Seq(Chars) /\ Len(l \o <<c>> \o r) = len + 1
      /\ \A i \in 1 .. len + 1 : (l \o <<c>> \o r)[i] =
           IF i <= n + 1 THEN (l \o <<c>>)[i] ELSE r[i - (n + 1)]
  <2>1. n + 1 + (len - n) = len + 1
    BY <1>2
  <2> QED BY <2>1, <1>4, <1>6, ConcatProperties
<1>0. n \in Int /\ len \in Int /\ n >= 0 /\ n <= len
  BY <1>2
<1>8. ASSUME NEW i \in 1 .. len + 1
      PROVE  Text(u)[i] = (l \o <<c>> \o r)[i]
  <2>1. Text(u)[i] = u[i - 1]
    BY <1>3
  <2>2. CASE i <= n
    <3>1. i \in 1 .. n /\ i \in 1 .. n + 1 /\ i \in 1 .. len /\ i <= n + 1
      BY <2>2, <1>0
    <3>2. (l \o <<c>> \o r)[i] = (l \o <<c>>)[i] /\ (l \o <<c>>)[i] = l[i]
      BY <3>1, <2>2, <1>6, <1>7
    <3>3. l[i] = t[i] /\ t[i] = s[i - 1]
      BY <3>1, <1>2, <1>4
    <3>4. i - 1 \in 0 .. n - 1
      BY <3>1, <1>0
    <3> QED BY <3>2, <3>3, <3>4, <2>1, <1>1
  <2>3. CASE i = n + 1
    <3>1. i \in 1 .. n + 1 /\ ~(i <= n) /\ i - n = 1 /\ i - 1 = n /\ i <= n + 1
      BY <2>3, <1>0
    <3>2. (l \o <<c>> \o r)[i] = (l \o <<c>>)[i] /\ (l \o <<c>>)[i] = <<c>>[i - n]
      BY <3>1, <1>6, <1>7
    <3> QED BY <3>1, <3>2, <2>1, <1>1, <1>5
  <2>4. CASE i > n + 1
    <3>0. i \in Int /\ i <= len + 1 /\ i > n + 1
      BY <2>4, <1>0
    <3>1. i - (n + 1) \in 1 .. len - n /\ n + (i - (n + 1)) = i - 1 /\ i - 1 \in n + 1 .. len
      BY <3>0, <1>0
    <3>2. (l \o <<c>> \o r)[i] = t[i - 1]
      BY <3>1, <2>4, <1>2, <1>4, <1>7
    <3>3. t[i - 1] = s[i - 1 - 1] /\ u[i - 1] = s[i - 1 - 1]
      BY <3>1, <1>1, <1>2
    <3> QED BY <3>2, <3>3, <2>1
  <2>5. i <= n \/ i = n + 1 \/ i > n + 1
    BY <1>0
  <2> QED BY <2>2, <2>3, <2>4, <2>5
<1>9. Text(u) = l \o <<c>> \o r
  BY <1>3, <1>7, <1>8, SeqEqual
<1> QED BY <1>9 DEF u, l, r, t

\* A buffer whose text lacks the character at n.
LEMMA TextWithout ==
  ASSUME NEW s \in String, IsStr(s), NEW n \in 0 .. strlen(s) - 1,
         NEW u \in String, IsStr(u), strlen(u) = strlen(s) - 1,
         \A i \in 0 .. n - 1 : u[i] = s[i],
         \A i \in n .. strlen(s) - 2 : u[i] = s[i + 1]
  PROVE  Text(u) = SubSeq(Text(s), 1, n) \o SubSeq(Text(s), n + 2, Len(Text(s)))
<1> DEFINE t == Text(s)
           len == strlen(s)
           l == SubSeq(t, 1, n)
           r == SubSeq(t, n + 2, Len(t))
<1>2. /\ t \in Seq(Chars) /\ Len(t) = len /\ len \in 0 .. MaxLine
      /\ \A i \in 1 .. len : t[i] = s[i - 1]
  BY TextAt
<1>3. /\ Text(u) \in Seq(Chars) /\ Len(Text(u)) = len - 1
      /\ \A i \in 1 .. len - 1 : Text(u)[i] = u[i - 1]
  BY TextAt
<1> HIDE DEF t
<1>4. /\ l \in Seq(Chars) /\ Len(l) = n /\ \A i \in 1 .. n : l[i] = t[i]
      /\ r \in Seq(Chars) /\ Len(r) = len - n - 1
      /\ \A i \in 1 .. len - n - 1 : r[i] = t[n + 1 + i]
  <2>1. n \in 0 .. Len(t) /\ n + 1 \in n .. Len(t) /\ n + 1 + 1 = n + 2
        /\ Len(t) - (n + 1) = len - n - 1
    BY <1>2
  <2>2. /\ SubSeq(t, 1, n) \in Seq(Chars) /\ Len(SubSeq(t, 1, n)) = n
        /\ \A i \in 1 .. n : SubSeq(t, 1, n)[i] = t[i]
        /\ SubSeq(t, n + 1 + 1, Len(t)) \in Seq(Chars)
        /\ Len(SubSeq(t, n + 1 + 1, Len(t))) = Len(t) - (n + 1)
        /\ \A i \in 1 .. Len(t) - (n + 1) : SubSeq(t, n + 1 + 1, Len(t))[i] = t[n + 1 + i]
    BY <2>1, <1>2, Splice
  <2> QED BY <2>1, <2>2
<1> HIDE DEF l, r
<1>5. /\ l \o r \in Seq(Chars) /\ Len(l \o r) = len - 1
      /\ \A i \in 1 .. len - 1 : (l \o r)[i] = IF i <= n THEN l[i] ELSE r[i - n]
  <2>1. n + (len - n - 1) = len - 1
    BY <1>2
  <2>2. /\ l \o r \in Seq(Chars) /\ Len(l \o r) = Len(l) + Len(r)
        /\ \A i \in 1 .. Len(l) + Len(r) : (l \o r)[i] =
             IF i <= Len(l) THEN l[i] ELSE r[i - Len(l)]
    <3>1. l \in Seq(Chars) /\ r \in Seq(Chars)
      BY <1>4
    <3> QED BY <3>1, ConcatProperties
  <2>3. Len(l) = n /\ Len(l) + Len(r) = len - 1
    BY <2>1, <1>4
  <2> QED BY <2>2, <2>3
<1>0. n \in Int /\ len \in Int /\ n >= 0 /\ n < len
  BY <1>2
<1>6. ASSUME NEW i \in 1 .. len - 1
      PROVE  Text(u)[i] = (l \o r)[i]
  <2>1. Text(u)[i] = u[i - 1]
    BY <1>3
  <2>2. CASE i <= n
    <3>1. (l \o r)[i] = t[i] /\ t[i] = s[i - 1]
      BY <2>2, <1>2, <1>4, <1>5
    <3>2. i - 1 \in 0 .. n - 1
      BY <2>2, <1>2
    <3> QED BY <3>1, <3>2, <2>1
  <2>3. CASE i > n
    <3>0. i \in Int /\ i > n /\ i <= len - 1
      BY <2>3, <1>0
    <3>1. /\ i - n \in 1 .. len - n - 1 /\ n + 1 + (i - n) = i + 1
          /\ i - 1 \in n .. len - 2 /\ i - 1 + 1 = i /\ i + 1 \in 1 .. len /\ i + 1 - 1 = i
      BY <3>0, <1>0
    <3>2. (l \o r)[i] = t[i + 1]
      BY <3>1, <2>3, <1>2, <1>4, <1>5
    <3>3. t[i + 1] = s[i + 1 - 1]
      BY <3>1, <1>2
    <3>4. u[i - 1] = s[i - 1 + 1]
      BY <3>1
    <3>5. i + 1 - 1 = i /\ i - 1 + 1 = i
      BY <3>1
    <3> QED BY <3>2, <3>3, <3>4, <3>5, <2>1
  <2>4. i <= n \/ i > n
    BY <1>0
  <2> QED BY <2>2, <2>3, <2>4
<1>7. Text(u) = l \o r
  BY <1>3, <1>5, <1>6, SeqEqual
<1> QED BY <1>7 DEF l, r, t

LEMMA TextCopy ==
  ASSUME NEW s \in String, IsStr(s), NEW t \in String
  PROVE  Text(strcpy(t, s)) = Text(s)
<1> DEFINE u == strcpy(t, s)
<1>1. /\ u \in String /\ strlen(u) = strlen(s) /\ IsStr(u)
      /\ \A i \in 0 .. strlen(s) : u[i] = s[i]
  BY CopyIs
<1> HIDE DEF u
<1>2. /\ Text(u) \in Seq(Chars) /\ Len(Text(u)) = strlen(s)
      /\ \A i \in 1 .. strlen(s) : Text(u)[i] = u[i - 1]
  BY <1>1, TextAt
<1>3. /\ Text(s) \in Seq(Chars) /\ Len(Text(s)) = strlen(s) /\ strlen(s) \in 0 .. MaxLine
      /\ \A i \in 1 .. strlen(s) : Text(s)[i] = s[i - 1]
  BY TextAt
<1>4. \A i \in 1 .. strlen(s) : Text(u)[i] = Text(s)[i]
  BY <1>1, <1>2, <1>3
<1>5. Text(u) = Text(s)
  BY <1>2, <1>3, <1>4, SeqEqual
<1> QED BY <1>5 DEF u

LEMMA TextEmpty == Text(Empty) = <<>>
<1>1. /\ Text(Empty) \in Seq(Chars) /\ Len(Text(Empty)) = 0
  BY EmptyIs, TextAt
<1> QED BY <1>1, EmptySeq

LEMMA RefineInit == Init => Editor!EditorInit
  BY TextEmpty DEF Init, Editor!EditorInit

\* The line is taken over from a buffer, with the cursor at its end.
LEMMA RefineReplace ==
  ASSUME EditorInv, NEW s \in String, IsStr(s), ReplaceLine(s)
  PROVE  Text(cInputString') = Text(s) /\ ucInputIndex' = Len(Text(s))
<1>1. cInputString' = strcpy(Empty, s) /\ ucInputIndex' = strlen(s)
  BY DEF ReplaceLine, Replacement
<1>2. Text(strcpy(Empty, s)) = Text(s) /\ Len(Text(s)) = strlen(s)
  BY EmptyIs, TextCopy, TextAt
<1> QED BY <1>1, <1>2

LEMMA RefineStep == EditorInv /\ [Next]_vars => [Editor!EditorNext]_(Editor!editorVars)
<1> SUFFICES ASSUME EditorInv, [Next]_vars
             PROVE  Editor!EditorNext \/ UNCHANGED Editor!editorVars
  OBVIOUS
<1> DEFINE t == Text(cInputString)
<1>inv. LineInv /\ HistInv /\ EscInv
  BY DEF EditorInv
<1>len. t \in Seq(Chars) /\ Len(t) = strlen(cInputString)
  BY <1>inv, TextAt DEF LineInv
<1>cur. /\ ucInputIndex \in 0 .. Len(t) /\ Len(t) \in 0 .. MaxLine
  BY <1>inv, <1>len, LineFacts
<1>kept. ASSUME UNCHANGED <<lineVars, histVars>>
         PROVE  UNCHANGED Editor!editorVars
  BY <1>kept DEF Editor!editorVars, lineVars, histVars
<1>1. ASSUME NEW k \in Keys, Press(k)  PROVE UNCHANGED Editor!editorVars
  BY <1>1, <1>kept DEF Press
<1>2. CASE Enter
  <2>1. /\ ucInputIndex > 0 /\ ucInputIndex' = 0 /\ ucHistoryIndex' = 0
        /\ cLastInputString' = strcpy(cLastInputString, cInputString)
        /\ cInputString' = Empty /\ cTmpInputString' = cTmpInputString
    BY <1>2 DEF Enter
  <2>2. Text(cLastInputString') = Text(cInputString)
    BY <2>1, <1>inv, TextCopy DEF LineInv, HistInv
  <2>3. Text(cInputString') = <<>> /\ ucInputIndex' = Len(<<>>)
    BY <2>1, TextEmpty, EmptySeq
  <2>4. (ucHistoryIndex' = 1) = FALSE
    BY <2>1
  <2>5. Editor!Run
    BY <2>1, <2>2, <2>3, <2>4 DEF Editor!Run, Editor!Show
  <2> QED BY <2>5 DEF Editor!EditorNext
<1>3. CASE EnterAtStart
  BY <1>3, <1>kept DEF EnterAtStart
<1>4. CASE BackspaceInside
  <2> DEFINE n == ucInputIndex - 1
  <2>1. /\ ucInputIndex > 0 /\ ucInputIndex' = n
        /\ cInputString' = TakeOut(cInputString, n) /\ UNCHANGED histVars
    BY <1>4 DEF BackspaceInside
  <2>2. n \in 0 .. strlen(cInputString) - 1 /\ n + 2 = ucInputIndex + 1
    BY <2>1, <1>cur, <1>len
  <2> HIDE DEF n
  <2>3. Text(TakeOut(cInputString, n)) = SubSeq(t, 1, n) \o SubSeq(t, n + 2, Len(t))
    BY <2>2, <1>inv, TakeOutIs, TextWithout DEF LineInv
  <2>4. Editor!Rubout
    BY <2>1, <2>2, <2>3 DEF n, histVars, Editor!Rubout, Editor!LeftOf, Editor!RightOf
  <2> QED BY <2>4 DEF Editor!EditorNext
<1>5. CASE BackspaceAtEnd
  <2> DEFINE n == ucInputIndex - 1
             u == [cInputString EXCEPT ![n] = NUL]
  <2>1. /\ ucInputIndex > 0 /\ strlen(cInputString) <= ucInputIndex
        /\ ucInputIndex' = n /\ cInputString' = u /\ UNCHANGED histVars
    BY <1>5 DEF BackspaceAtEnd, ucCurrInputStrinLen
  <2>2. /\ n = strlen(cInputString) - 1 /\ n \in 0 .. strlen(cInputString) - 1
        /\ n + 2 = ucInputIndex + 1 /\ strlen(cInputString) > 0
    BY <2>1, <1>cur, <1>len
  <2>3. /\ u \in String /\ strlen(u) = strlen(cInputString) - 1 /\ IsStr(u)
        /\ \A i \in 0 .. strlen(cInputString) - 2 : u[i] = cInputString[i]
    <3>1. u = [cInputString EXCEPT ![strlen(cInputString) - 1] = NUL]
      BY <2>2
    <3> HIDE DEF u
    <3> QED BY <3>1, <2>2, <1>inv, CutIs DEF LineInv
  <2> HIDE DEF n, u
  <2>4. /\ \A i \in 0 .. n - 1 : u[i] = cInputString[i]
        /\ \A i \in n .. strlen(cInputString) - 2 : u[i] = cInputString[i + 1]
    BY <2>2, <2>3, <1>cur, <1>len
  <2>5. Text(u) = SubSeq(t, 1, n) \o SubSeq(t, n + 2, Len(t))
    BY <2>2, <2>3, <2>4, <1>inv, TextWithout DEF LineInv
  <2>6. Editor!Rubout
    BY <2>1, <2>2, <2>5 DEF n, histVars, Editor!Rubout, Editor!LeftOf, Editor!RightOf
  <2> QED BY <2>6 DEF Editor!EditorNext
<1>6. CASE BackspaceAtStart
  BY <1>6, <1>kept DEF BackspaceAtStart
<1>del. ASSUME Delete, UNCHANGED <<ucInputIndex, histVars>>
        PROVE  Editor!EditorNext \/ UNCHANGED Editor!editorVars
  <2> DEFINE n == ucInputIndex
  <2>1. CASE strlen(cInputString) > n
    <3>1. cInputString' = TakeOut(cInputString, n)
      BY <2>1, <1>del DEF Delete, ucCurrInputStrinLen
    <3>2. n \in 0 .. strlen(cInputString) - 1 /\ n < Len(t) /\ n + 2 = n + 1 + 1
      BY <2>1, <1>cur, <1>len
    <3>3. Text(TakeOut(cInputString, n)) = SubSeq(t, 1, n) \o SubSeq(t, n + 2, Len(t))
      BY <3>2, <1>inv, TakeOutIs, TextWithout DEF LineInv
    <3>4. Editor!DeleteNext
      BY <3>1, <3>2, <3>3, <1>del
      DEF histVars, Editor!DeleteNext, Editor!LeftOf, Editor!RightOf
    <3> QED BY <3>4 DEF Editor!EditorNext
  <2>2. CASE ~(strlen(cInputString) > n)
    BY <2>2, <1>del, <1>kept DEF Delete, ucCurrInputStrinLen, lineVars
  <2> QED BY <2>1, <2>2
<1>7. CASE DelByte
  BY <1>7, <1>del DEF DelByte
<1>8. CASE EscByte
  BY <1>8, <1>kept DEF EscByte
<1>9. CASE EscFirstByte
  BY <1>9, <1>kept DEF EscFirstByte
<1>10. CASE EscParamByte
  BY <1>10, <1>kept DEF EscParamByte
<1>11. CASE EscOther
  BY <1>11, <1>kept DEF EscOther
<1>14. CASE UpArrow
  <2>1. /\ ReplaceLine(cLastInputString) /\ ucHistoryIndex < 1 /\ ucHistoryIndex' = 1
        /\ cTmpInputString' = strcpy(Empty, cInputString)
        /\ cLastInputString' = cLastInputString
    BY <1>14 DEF UpArrow
  <2>2. /\ Text(cInputString') = Text(cLastInputString)
        /\ ucInputIndex' = Len(Text(cLastInputString))
    BY <2>1, <1>inv, RefineReplace DEF HistInv
  <2>3. Text(cTmpInputString') = Text(cInputString)
    BY <2>1, <1>inv, TextCopy, EmptyIs DEF LineInv
  <2>4. ~(ucHistoryIndex = 1) /\ ((ucHistoryIndex' = 1) = TRUE)
    BY <2>1
  <2>5. Editor!Recall
    BY <2>1, <2>2, <2>3, <2>4 DEF Editor!Recall, Editor!Show
  <2> QED BY <2>5 DEF Editor!EditorNext
<1>15. CASE DownArrow
  <2>1. /\ ReplaceLine(cTmpInputString)
        /\ ucHistoryIndex > 0 /\ ucHistoryIndex' = ucHistoryIndex - 1
        /\ cTmpInputString' = cTmpInputString /\ cLastInputString' = cLastInputString
    BY <1>15 DEF DownArrow
  <2>2. /\ Text(cInputString') = Text(cTmpInputString)
        /\ ucInputIndex' = Len(Text(cTmpInputString))
    BY <2>1, <1>inv, RefineReplace DEF HistInv
  <2>3. ucHistoryIndex = 1 /\ ((ucHistoryIndex' = 1) = FALSE)
    BY <2>1, <1>inv DEF HistInv
  <2>4. Editor!ComeBack
    BY <2>1, <2>2, <2>3 DEF Editor!ComeBack, Editor!Show
  <2> QED BY <2>4 DEF Editor!EditorNext
<1>16. CASE RightArrow
  <2>1. /\ ucInputIndex < Len(t) /\ ucInputIndex' = ucInputIndex + 1
        /\ cInputString' = cInputString /\ UNCHANGED histVars
    BY <1>16, <1>len DEF RightArrow, MayGoRight, ucCurrInputStrinLen
  <2>2. ucInputIndex' \in {ucInputIndex - 1, ucInputIndex + 1} \cap (0 .. Len(t))
    BY <2>1, <1>cur
  <2>3. Editor!Move
    BY <2>1, <2>2 DEF Editor!Move, histVars
  <2> QED BY <2>3 DEF Editor!EditorNext
<1>17. CASE LeftArrow
  <2>1. /\ ucInputIndex > 0 /\ ucInputIndex' = ucInputIndex - 1
        /\ cInputString' = cInputString /\ UNCHANGED histVars
    BY <1>17 DEF LeftArrow
  <2>2. ucInputIndex' \in {ucInputIndex - 1, ucInputIndex + 1} \cap (0 .. Len(t))
    BY <2>1, <1>cur
  <2>3. Editor!Move
    BY <2>1, <2>2 DEF Editor!Move, histVars
  <2> QED BY <2>3 DEF Editor!EditorNext
<1>18. CASE DeleteKey
  BY <1>18, <1>del DEF DeleteKey
<1>19. CASE EscNothing
  BY <1>19, <1>kept DEF EscNothing
<1>20. CASE TypeChar
  <2> DEFINE n == ucInputIndex
             c == Head(pending)
  <2>1. /\ ucReceivingEsc = 0 /\ pending # <<>> /\ c \notin Controls
        /\ cInputString' = PutIn(cInputString, n, c)
        /\ ucInputIndex' = n + 1 /\ UNCHANGED histVars
    BY <1>20 DEF TypeChar, Receive
  <2>2. c \in Chars /\ strlen(cInputString) < MaxLine
    BY <2>1, <1>inv, OneByte
  <2>3. n \in 0 .. strlen(cInputString) /\ Len(t) < MaxLine
    BY <2>2, <1>cur, <1>len
  <2> HIDE DEF c
  <2>4. Text(PutIn(cInputString, n, c)) = SubSeq(t, 1, n) \o <<c>> \o SubSeq(t, n + 1, Len(t))
    BY <2>2, <2>3, <1>inv, TextPutIn DEF LineInv
  <2>5. Editor!Insert(c)
    BY <2>1, <2>3, <2>4 DEF histVars, Editor!Insert, Editor!LeftOf, Editor!RightOf
  <2> QED BY <2>2, <2>5 DEF Editor!EditorNext
<1>21. CASE UNCHANGED vars
  BY <1>21, <1>kept DEF vars
<1> QED BY <1>1, <1>2, <1>3, <1>4, <1>5, <1>6, <1>7, <1>8, <1>9, <1>10, <1>11, <1>14, <1>15,
           <1>16, <1>17, <1>18, <1>19, <1>20, <1>21 DEF Next

\* The loops over the bytes of the buffers, and the decoder, do what LineEditor
\* says of whole lines, key by key: nothing typed is lost or doubled, and Return
\* runs the line that is seen, wherever the cursor is in it.
THEOREM EditorIsImplemented == Spec => ImplementsEditor
<1>1. Init => Editor!EditorInit
  BY RefineInit
<1>2. EditorInv /\ [Next]_vars => [Editor!EditorNext]_(Editor!editorVars)
  BY RefineStep
<1> QED BY <1>1, <1>2, EditorIsOrderly, PTL DEF Spec, ImplementsEditor, Editor!EditorSpec
=============================================================================
