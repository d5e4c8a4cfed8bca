--------------------------- MODULE Terminal_proofs ---------------------------
(***************************************************************************)
(* BufferInv is an invariant of Terminal for every number of terminals,    *)
(* every buffer and history size and every keyboard, with and without      *)
(* type-ahead; RoomForEnter and CopyEndsAtNul follow.                      *)
(***************************************************************************)
EXTENDS TerminalInv, Recursion, SequenceTheorems

USE SizeAssumption, CharAssumption

(* strlen finds the first NUL.                                             *)
LEMMA StrlenDef ==
  ASSUME NEW b \in Buffer
  PROVE  /\ strlen(b) \in 0..BUF_SIZE
         /\ \A i \in 0..(strlen(b) - 1) : b[i] # Nul
         /\ strlen(b) < BUF_SIZE => b[strlen(b)] = Nul
<1> DEFINE Z == {i \in Index : b[i] = Nul}
           L(n) == /\ \A i \in 0..(n - 1) : b[i] # Nul
                   /\ n < BUF_SIZE => b[n] = Nul
<1>1. \E n \in 0..BUF_SIZE : L(n)
  <2>1. CASE Z = {}
    <3>1. BUF_SIZE \in 0..BUF_SIZE /\ L(BUF_SIZE)
      BY <2>1 DEF Index
    <3> QED BY <3>1
  <2>2. CASE Z # {}
    <3>1. Z \subseteq Nat BY DEF Index
    <3>2. PICK m \in Z : \A y \in Z : m <= y
      <4> HIDE DEF Z
      <4> QED BY <2>2, <3>1, Least
    <3>3. \A y \in Z : ~ (y < m)
      <4> HIDE DEF Z
      <4> QED BY <3>1, <3>2
    <3>4. m \in 0..BUF_SIZE /\ L(m)
      BY <3>2, <3>3 DEF Index
    <3> QED BY <3>4
  <2> QED BY <2>1, <2>2
<1> HIDE DEF L
<1>2. strlen(b) \in 0..BUF_SIZE /\ L(strlen(b))
  <2>1. strlen(b) = CHOOSE n \in 0..BUF_SIZE : L(n) BY DEF strlen, L
  <2> QED BY <1>1, <2>1
<1> QED BY <1>2 DEF L

(* A line whose last two bytes are not text leaves room for Enter.         *)
LEMMA StrlenRoom ==
  ASSUME NEW b \in Buffer, b[BUF_SIZE - 2] = Nul
  PROVE  strlen(b) \in 0..(BUF_SIZE - 2)
<1>1. BUF_SIZE - 2 \in Index BY DEF Index
<1>2. ~ (BUF_SIZE - 2 \in 0..(strlen(b) - 1)) BY StrlenDef
<1> QED BY <1>1, <1>2, StrlenDef DEF Index

LEMMA EmptyType == EmptyBuffer \in Buffer
BY DEF EmptyBuffer, Buffer, Cell

(* What the screen operators build are sequences of cells.                 *)
LEMMA EraseType ==
  ASSUME NEW e \in Seq(Cell), NEW n \in Nat
  PROVE  Erase(e, n) \in Seq(Cell)
<1> DEFINE k == IF n <= Len(e) THEN Len(e) - n ELSE 0
<1>1. k \in 0..Len(e) OBVIOUS
<1>2. SubSeq(e, 1, k) \in Seq(Cell) BY <1>1
<1> QED BY <1>2 DEF Erase

LEMMA FirstCharsType ==
  ASSUME NEW b \in Buffer, NEW n \in 0..BUF_SIZE
  PROVE  FirstChars(b, n) \in Seq(Cell) /\ Len(FirstChars(b, n)) = n
<1>1. \A i \in 1..n : b[i - 1] \in Cell BY DEF Buffer, Index
<1> QED BY <1>1 DEF FirstChars

LEMMA ConcatType ==
  ASSUME NEW s \in Seq(Cell), NEW u \in Seq(Cell) PROVE s \o u \in Seq(Cell)
OBVIOUS

LEMMA TabCellsType == TabCells \in Seq(Cell)
BY DEF TabCells, TabStop, Cell, Text

(* Completion reads inside the buffer and leaves it well formed.           *)
LEMMA WordAtType ==
  ASSUME NEW b \in Buffer, b[0] \in Completes
  PROVE  /\ WordAt(b) \in 0..(BUF_SIZE - 3)
         /\ WordAt(b) > 0 => WordAt(b) = ArgAt[b[0]] /\ b[WordAt(b) - 1] = Space /\ b[WordAt(b)] # Nul
         /\ \A w \in WordsFor(b) :
              /\ w \in Seq(Chars) /\ w # <<>>
              /\ w \in UNION {Words[x] : x \in Forms \X Cell \X Cell}
              /\ WordAt(b) + Len(w) <= BUF_SIZE - 2
<1>1. ArgAt[b[0]] \in 0..(BUF_SIZE - 3) BY WordAssumption
<1>2. WordAt(b) \in 0..(BUF_SIZE - 3) BY <1>1 DEF WordAt
<1>3. WordAt(b) > 0 => WordAt(b) = ArgAt[b[0]] /\ b[WordAt(b) - 1] = Space /\ b[WordAt(b)] # Nul
  BY DEF WordAt
<1>4. WordAt(b) \in Index /\ WordAt(b) + 1 \in Index BY <1>2 DEF Index
<1> DEFINE f == IF WordAt(b) = 0 THEN 0 ELSE 1
           x == <<f, b[WordAt(b)], b[WordAt(b) + 1]>>
<1>5. x \in Forms \X Cell \X Cell BY <1>4 DEF Buffer, Forms
<1>6. WordsFor(b) = Words[x] BY DEF WordsFor
<1>7. ASSUME NEW w \in WordsFor(b)
      PROVE  /\ w \in Seq(Chars) /\ w # <<>>
             /\ w \in UNION {Words[y] : y \in Forms \X Cell \X Cell}
             /\ WordAt(b) + Len(w) <= BUF_SIZE - 2
  <2>1. w \in Seq(Chars \ {Space}) BY <1>5, <1>6, <1>7, WordAssumption
  <2>2. w \in Seq(Chars) /\ Len(w) \in Nat BY <2>1
  <2>3. w # <<>> /\ Len(w) <= BUF_SIZE - 2 /\ (x[1] = 1 => ArgAt[b[0]] + Len(w) <= BUF_SIZE - 2)
    BY <1>5, <1>6, <1>7, WordAssumption
  <2>4. x[1] = f OBVIOUS
  <2>5. CASE WordAt(b) = 0 BY <2>2, <2>3, <2>5, <1>5, <1>6
  <2>6. CASE WordAt(b) # 0
    <3>1. WordAt(b) > 0 BY <1>2, <2>6
    <3> QED BY <3>1, <2>2, <2>3, <2>4, <2>6, <1>3, <1>5, <1>6
  <2> QED BY <2>5, <2>6
<1> QED BY <1>2, <1>3, <1>7

-----------------------------------------------------------------------------
LEMMA InitBuffer == Init => BufferInv
<1> SUFFICES ASSUME Init PROVE BufferInv
  OBVIOUS
<1>1. TypeOK BY EmptyType DEF Init, TypeOK, Terms
<1>2. \A t \in Terms : BufferShape(t) /\ HistoryShape(t)
  BY DEF Init, BufferShape, HistoryShape, EmptyBuffer, Index
<1>3. ReaderShape BY DEF Init, ReaderShape
<1> QED BY <1>1, <1>2, <1>3 DEF BufferInv

LEMMA ShowType ==
  ASSUME TypeOK, NEW t \in Terms, NEW e \in Seq(Cell), NEW ok \in BOOLEAN,
         Show(t, e, ok)
  PROVE  /\ echo' \in [Terms -> Seq(Cell)]
         /\ tracked' \in [Terms -> BOOLEAN]
<1>1. (IF tracked[t] THEN e ELSE <<>>) \in Seq(Cell) OBVIOUS
<1>2. (tracked[t] /\ ok) \in BOOLEAN OBVIOUS
<1> QED BY <1>1, <1>2 DEF Show, TypeOK

(* A key that makes b, of length n, the line of t keeps the invariant.     *)
LEMMA KeyStep ==
  ASSUME BufferInv, NEW t \in Terms, NEW b \in Buffer, NEW n \in 0..(BUF_SIZE - 1),
         SetLine(t, b, n),
         \A i \in 0..(n - 1) : b[i] # Nul,
         \A i \in Index : b[i] = Enter => i < n /\ key_read'[t],
         b[BUF_SIZE - 1] = Nul, b[BUF_SIZE - 2] \in {Nul, Enter},
         key_read' \in [Terms -> BOOLEAN],
         \A u \in Terms \ {t} : key_read'[u] = key_read[u],
         find_his_counter' \in [Terms -> 0..(HISTORY - 1)],
         echo' \in [Terms -> Seq(Cell)], tracked' \in [Terms -> BOOLEAN],
         UNCHANGED <<visible_term, cmd_history, cmd_history_idx, read>>
  PROVE  BufferInv'
<1>1. TypeOK'
  BY DEF BufferInv, TypeOK, SetLine, read
<1>2. ASSUME NEW u \in Terms PROVE BufferShape(u)' /\ HistoryShape(u)'
  <2>1. HistoryShape(u)' BY DEF BufferInv, HistoryShape
  <2>2. CASE u = t
    <3>1. buffer'[t] = b /\ buffer_count'[t] = n BY DEF BufferInv, TypeOK, SetLine
    <3> QED BY <2>1, <2>2, <3>1 DEF BufferShape
  <2>3. CASE u # t
    <3>1. buffer'[u] = buffer[u] /\ buffer_count'[u] = buffer_count[u] /\ key_read'[u] = key_read[u]
      BY <2>3 DEF BufferInv, TypeOK, SetLine
    <3> QED BY <2>1, <3>1 DEF BufferShape, BufferInv
  <2> QED BY <2>2, <2>3
<1>3. ReaderShape' BY DEF BufferInv, ReaderShape, read
<1> QED BY <1>1, <1>2, <1>3 DEF BufferInv

(* A step that leaves line, history and key_read alone keeps the invariant *)
(* if it keeps the shape of the reader.                                    *)
LEMMA QuietStep ==
  ASSUME BufferInv, visible_term' \in Terms,
         UNCHANGED <<line, key_read, cmd_history, cmd_history_idx>>,
         find_his_counter' \in [Terms -> 0..(HISTORY - 1)],
         reader' \in [Terms -> {"none", "wait", "copy"}], got' \in [Terms -> Seq(Cell)],
         echo' \in [Terms -> Seq(Cell)], tracked' \in [Terms -> BOOLEAN],
         ReaderShape'
  PROVE  BufferInv'
<1>1. /\ buffer' = buffer /\ buffer_count' = buffer_count /\ key_read' = key_read
      /\ cmd_history' = cmd_history /\ cmd_history_idx' = cmd_history_idx
  BY DEF line
<1>2. TypeOK' BY <1>1 DEF BufferInv, TypeOK
<1>3. \A u \in Terms : BufferShape(u)' BY <1>1 DEF BufferInv, BufferShape
<1>4. \A u \in Terms : HistoryShape(u)' BY <1>1 DEF BufferInv, HistoryShape
<1> QED BY <1>2, <1>3, <1>4 DEF BufferInv

(* TypeChar, PressEnter and TypeTab                                        *)
LEMMA AddStep ==
  ASSUME BufferInv, NEW t \in Terms, NEW c \in Text \cup {Enter}, add_to_buffer(t, c),
         c = Enter => key_read' = [key_read EXCEPT ![t] = TRUE],
         c # Enter => UNCHANGED key_read,
         NEW e \in Seq(Cell), Show(t, e, TRUE),
         UNCHANGED <<visible_term, hist, read>>
  PROVE  BufferInv'
<1> DEFINE m == buffer_count[t]
           b == [buffer[t] EXCEPT ![m] = c]
<1>1. /\ TypeOK /\ BufferShape(t) /\ m \in 0..(BUF_SIZE - 2) /\ (c # Enter => m < BUF_SIZE - 2)
      /\ m \in Index
  BY SMTT(30) DEF BufferInv, TypeOK, add_to_buffer, Fits, Index
<1>2. b \in Buffer /\ b[m] = c /\ \A i \in Index \ {m} : b[i] = buffer[t][i]
  BY <1>1 DEF TypeOK, Buffer, Cell
<1>3. SetLine(t, b, m + 1) /\ m + 1 \in 0..(BUF_SIZE - 1)
  BY SMTT(30), <1>1 DEF SetLine, add_to_buffer, TypeOK
<1>4. c # Nul BY DEF Text
<1>5. \A i \in 0..((m + 1) - 1) : b[i] # Nul
  BY <1>1, <1>2, <1>4 DEF BufferShape, Index
<1>6. key_read' \in [Terms -> BOOLEAN] /\ \A u \in Terms \ {t} : key_read'[u] = key_read[u]
  BY <1>1 DEF TypeOK
<1>7. \A i \in Index : b[i] = Enter => i < m + 1 /\ key_read'[t]
  BY SMTT(30), <1>1, <1>2 DEF BufferShape, TypeOK, Index, Text
<1>8. b[BUF_SIZE - 1] = Nul /\ b[BUF_SIZE - 2] \in {Nul, Enter}
  BY <1>1, <1>2 DEF BufferShape, Index
<1>9. echo' \in [Terms -> Seq(Cell)] /\ tracked' \in [Terms -> BOOLEAN]
  BY <1>1, ShowType
<1>10. /\ find_his_counter' \in [Terms -> 0..(HISTORY - 1)]
       /\ UNCHANGED <<visible_term, cmd_history, cmd_history_idx, read>>
  BY <1>1 DEF hist, TypeOK
<1> HIDE DEF b
<1> QED BY <1>2, <1>3, <1>5, <1>6, <1>7, <1>8, <1>9, <1>10, KeyStep

LEMMA BackspaceStep ==
  ASSUME BufferInv, NEW t \in Terms, Backspace(t) PROVE BufferInv'
<1> DEFINE n == buffer_count[t] - 1
           b == [buffer[t] EXCEPT ![n] = Nul]
           e == Erase(echo[t], IF buffer[t][n] = Tab THEN TabStop ELSE 1)
<1>1. TypeOK /\ BufferShape(t) /\ n \in 0..(BUF_SIZE - 2) /\ n \in Index
  <2>1. TypeOK /\ BufferShape(t) /\ buffer_count[t] \in 0..(BUF_SIZE - 1)
    BY DEF BufferInv, TypeOK
  <2>2. n >= 0 BY DEF Backspace
  <2> QED BY <2>1, <2>2 DEF Index
<1>2. b \in Buffer /\ b[n] = Nul /\ \A i \in Index \ {n} : b[i] = buffer[t][i]
  BY <1>1 DEF TypeOK, Buffer, Cell
<1>3. SetLine(t, b, n) /\ n \in 0..(BUF_SIZE - 1) BY <1>1 DEF Backspace
<1>4. \A i \in 0..(n - 1) : b[i] # Nul BY <1>1, <1>2 DEF BufferShape, Index
<1>5. \A i \in Index : b[i] = Enter => i < n /\ key_read'[t]
  <2>1. key_read' = key_read BY DEF Backspace
  <2>2. \A i \in Index : b[i] = Enter => i # n /\ buffer[t][i] = Enter BY <1>2
  <2>3. \A i \in Index : buffer[t][i] = Enter => i < n + 1 /\ key_read[t]
    BY SMTT(30), <1>1 DEF BufferShape, TypeOK
  <2> QED BY <1>1, <2>1, <2>2, <2>3 DEF Index
<1>6. b[BUF_SIZE - 1] = Nul /\ b[BUF_SIZE - 2] \in {Nul, Enter}
  BY <1>1, <1>2 DEF BufferShape, Index
<1>7. echo' \in [Terms -> Seq(Cell)] /\ tracked' \in [Terms -> BOOLEAN]
  <2>1. e \in Seq(Cell) BY <1>1, EraseType DEF TypeOK, TabStop
  <2>2. Show(t, e, TRUE) BY DEF Backspace
  <2> HIDE DEF e
  <2> QED BY <1>1, <2>1, <2>2, ShowType
<1>8. /\ find_his_counter' \in [Terms -> 0..(HISTORY - 1)] /\ key_read' \in [Terms -> BOOLEAN]
      /\ \A u \in Terms \ {t} : key_read'[u] = key_read[u]
      /\ UNCHANGED <<visible_term, cmd_history, cmd_history_idx, read>>
  BY <1>1 DEF Backspace, hist, TypeOK
<1> HIDE DEF b, n
<1> QED BY <1>2, <1>3, <1>4, <1>5, <1>6, <1>7, <1>8, KeyStep

LEMMA CompleteStep ==
  ASSUME BufferInv, NEW t \in Terms, Complete(t) PROVE BufferInv'
<1> DEFINE a == WordAt(buffer[t])
<1>1. TypeOK /\ BufferShape(t) /\ buffer[t] \in Buffer /\ buffer[t][0] \in Completes
      /\ buffer_count[t] \in 0..(BUF_SIZE - 1)
  BY DEF BufferInv, TypeOK, Complete
<1>2. a \in 0..(BUF_SIZE - 3)
  BY <1>1, WordAtType
<1>3. PICK w \in WordsFor(buffer[t]), j \in ErasedFrom(buffer[t], buffer_count[t], a) :
        /\ SetLine(t, Overwrite(buffer[t], a, w), strlen(Overwrite(buffer[t], a, w)))
        /\ Show(t, CompletedEcho(echo[t], buffer_count[t], j, w), TRUE)
  BY DEF Complete
<1>4. j = 0 \/ j \in 1..(buffer_count[t] + 1)
  BY DEF ErasedFrom
<1>5. w \in Seq(Chars) /\ Len(w) \in Nat /\ a + Len(w) <= BUF_SIZE - 2
  BY <1>1, WordAtType
<1> DEFINE b == Overwrite(buffer[t], a, w)
           n == strlen(b)
           e == CompletedEcho(echo[t], buffer_count[t], j, w)
<1>6. /\ b \in Buffer
      /\ \A i \in Index : i < a => b[i] = buffer[t][i]
      /\ \A i \in Index : i >= a => b[i] \in Chars \cup {Nul}
      /\ b[BUF_SIZE - 2] = Nul /\ b[BUF_SIZE - 1] = Nul
  <2>1. \A i \in Index : i >= a /\ i - a < Len(w) => w[i - a + 1] \in Chars
    BY <1>2, <1>5 DEF Index
  <2>2. \A i \in Index : b[i] = IF i < a THEN buffer[t][i]
                               ELSE IF i - a < Len(w) THEN w[i - a + 1] ELSE Nul
    BY DEF Overwrite
  <2> HIDE DEF a
  <2>3. \A i \in Index : i >= a => b[i] \in Chars \cup {Nul}
    BY <1>2, <1>5, <2>1, <2>2 DEF Index
  <2>4. \A i \in Index : b[i] \in Cell
    BY <1>1, <1>2, <2>2, <2>3 DEF Buffer, Index, Cell, Text
  <2>5. b \in Buffer BY <2>4 DEF Buffer, Overwrite
  <2>6. b[BUF_SIZE - 2] = Nul /\ b[BUF_SIZE - 1] = Nul
    BY <1>2, <1>5, <2>2 DEF Index
  <2> QED BY <1>2, <2>2, <2>3, <2>5, <2>6
<1> HIDE DEF a, b
<1>7. n \in 0..(BUF_SIZE - 2) /\ (\A i \in 0..(n - 1) : b[i] # Nul) /\ b[n] = Nul
  BY <1>6, StrlenDef, StrlenRoom
<1>8. \A i \in Index : b[i] = Enter => i < n /\ key_read'[t]
  <2> SUFFICES ASSUME NEW i \in Index, b[i] = Enter PROVE i < n /\ key_read'[t]
    OBVIOUS
  <2>1. i < a /\ buffer[t][i] = Enter BY <1>2, <1>6 DEF Index, Text
  <2>2. i < buffer_count[t] /\ key_read[t] BY <1>1, <2>1 DEF BufferShape
  <2>3. \A k \in 0..i : b[k] # Nul
    BY <1>1, <1>2, <1>6, <2>1, <2>2 DEF BufferShape, Index
  <2>4. i < n BY <1>7, <2>3 DEF Index
  <2> QED BY <2>2, <2>4 DEF Complete
<1>9. echo' \in [Terms -> Seq(Cell)] /\ tracked' \in [Terms -> BOOLEAN]
  <2>1. w \in Seq(Cell) /\ <<Space>> \in Seq(Cell) BY <1>5 DEF Cell, Text
  <2>2. echo[t] \in Seq(Cell) BY <1>1 DEF TypeOK
  <2>3. ASSUME j = 0 PROVE e \in Seq(Cell)
    <3>1. buffer_count[t] \in Nat BY <1>1
    <3>2. Erase(echo[t], buffer_count[t]) \in Seq(Cell) BY <3>1, <2>2, EraseType
    <3> QED BY <2>1, <2>3, <3>2, ConcatType DEF CompletedEcho
  <2>4. ASSUME j # 0 PROVE e \in Seq(Cell)
    <3>1. buffer_count[t] - j + 1 \in Nat BY <1>1, <1>4, <2>4
    <3>2. Erase(echo[t], buffer_count[t] - j + 1) \in Seq(Cell) BY <2>2, <3>1, EraseType
    <3> QED BY <2>1, <2>4, <3>2, ConcatType DEF CompletedEcho
  <2>5. e \in Seq(Cell) BY <2>3, <2>4
  <2> HIDE DEF e
  <2>6. Show(t, e, TRUE) BY <1>3 DEF e, a
  <2> QED BY <1>1, <2>5, <2>6, ShowType
<1>10. /\ find_his_counter' \in [Terms -> 0..(HISTORY - 1)] /\ key_read' \in [Terms -> BOOLEAN]
       /\ \A u \in Terms \ {t} : key_read'[u] = key_read[u]
       /\ UNCHANGED <<visible_term, cmd_history, cmd_history_idx, read>>
  BY <1>1 DEF Complete, hist, TypeOK
<1>11. SetLine(t, b, n) BY <1>3 DEF a, b
<1>12. n \in 0..(BUF_SIZE - 1) /\ b[BUF_SIZE - 2] \in {Nul, Enter} BY <1>6, <1>7
<1> HIDE DEF n, e
<1> QED BY <1>6, <1>7, <1>8, <1>9, <1>10, <1>11, <1>12, KeyStep

(* get_prev_cmd and get_next_cmd when there is a command to show           *)
LEMMA RecallStep ==
  ASSUME BufferInv, NEW t \in Terms, NEW f \in 0..(HISTORY - 1), Recall(t, f),
         UNCHANGED <<visible_term, key_read, cmd_history, cmd_history_idx, read>>
  PROVE  BufferInv'
<1> DEFINE b == cmd_history[t][f]
           n == strlen(b)
           e == Erase(echo[t], buffer_count[t]) \o FirstChars(b, n)
           ok == ~HasTab(t, buffer_count[t]) /\ \A i \in 0..(n - 1) : b[i] # Tab
<1>1. TypeOK /\ b \in Buffer /\ HistoryShape(t) /\ buffer_count[t] \in Nat
  BY SMTT(30) DEF BufferInv, TypeOK
<1>2. b[BUF_SIZE - 2] = Nul /\ b[BUF_SIZE - 1] = Nul /\ \A i \in Index : b[i] # Enter
  BY <1>1 DEF HistoryShape
<1>3. n \in 0..(BUF_SIZE - 2) /\ n \in 0..(BUF_SIZE - 1) /\ \A i \in 0..(n - 1) : b[i] # Nul
  <2> HIDE DEF b
  <2> QED BY <1>1, <1>2, StrlenDef, StrlenRoom
<1>4. echo' \in [Terms -> Seq(Cell)] /\ tracked' \in [Terms -> BOOLEAN]
  <2>1. echo[t] \in Seq(Cell) BY <1>1 DEF TypeOK
  <2>2. Erase(echo[t], buffer_count[t]) \in Seq(Cell) BY <1>1, <2>1, EraseType
  <2>3. FirstChars(b, n) \in Seq(Cell) BY <1>1, <1>3, FirstCharsType
  <2>4. e \in Seq(Cell) BY <2>2, <2>3, ConcatType
  <2>5. Show(t, e, ok) BY DEF Recall
  <2>6. ok \in BOOLEAN OBVIOUS
  <2> HIDE DEF e, ok
  <2> QED BY <1>1, <2>4, <2>5, <2>6, ShowType
<1>5. /\ find_his_counter' \in [Terms -> 0..(HISTORY - 1)] /\ key_read' \in [Terms -> BOOLEAN]
      /\ \A u \in Terms \ {t} : key_read'[u] = key_read[u]
      /\ SetLine(t, b, n)
  BY <1>1 DEF Recall, TypeOK
<1> HIDE DEF b, n
<1> QED BY <1>1, <1>2, <1>3, <1>4, <1>5, KeyStep

LEMMA PrevStep ==
  ASSUME BufferInv, NEW t \in Terms, get_prev_cmd(t) PROVE BufferInv'
<1> DEFINE f == IF find_his_counter[t] = 0 THEN 0 ELSE find_his_counter[t] - 1
<1>1. f \in 0..(HISTORY - 1) BY DEF BufferInv, TypeOK
<1>2. UNCHANGED <<visible_term, key_read, cmd_history, cmd_history_idx, read>>
  BY DEF get_prev_cmd
<1>3. CASE cmd_history[t][f][0] = Nul
  <2>1. find_his_counter' = [find_his_counter EXCEPT ![t] = 0] /\ UNCHANGED <<line, seen>>
    BY <1>3 DEF get_prev_cmd
  <2>2. 0 \in 0..(HISTORY - 1) OBVIOUS
  <2>3. /\ TypeOK /\ ReaderShape /\ reader' = reader /\ got' = got /\ echo' = echo
        /\ tracked' = tracked /\ visible_term' = visible_term
    BY <1>2, <2>1 DEF BufferInv, seen, read
  <2>4. ReaderShape' BY <2>3 DEF ReaderShape
  <2>5. find_his_counter' \in [Terms -> 0..(HISTORY - 1)] BY <2>1, <2>2, <2>3 DEF TypeOK
  <2>6. /\ visible_term' \in Terms /\ reader' \in [Terms -> {"none", "wait", "copy"}]
        /\ got' \in [Terms -> Seq(Cell)] /\ echo' \in [Terms -> Seq(Cell)]
        /\ tracked' \in [Terms -> BOOLEAN]
    BY <2>3 DEF TypeOK
  <2> QED BY <1>2, <2>1, <2>4, <2>5, <2>6, QuietStep
<1>4. CASE cmd_history[t][f][0] # Nul
  <2>1. Recall(t, f) BY <1>4 DEF get_prev_cmd
  <2> QED BY <1>1, <1>2, <2>1, RecallStep
<1> QED BY <1>3, <1>4

LEMMA NextStep ==
  ASSUME BufferInv, NEW t \in Terms, get_next_cmd(t) PROVE BufferInv'
<1> DEFINE f == (find_his_counter[t] + 1) % HISTORY
<1>1. f \in 0..(HISTORY - 1) BY SMTT(30) DEF BufferInv, TypeOK
<1>2. UNCHANGED <<visible_term, key_read, cmd_history, cmd_history_idx, read>>
  BY DEF get_next_cmd
<1>3. CASE cmd_history[t][f][0] # Nul
  <2>1. Recall(t, f) BY <1>3 DEF get_next_cmd
  <2> QED BY <1>1, <1>2, <2>1, RecallStep
<1>4. CASE cmd_history[t][f][0] = Nul /\ f = 0
  <2>1. find_his_counter' = [find_his_counter EXCEPT ![t] = 0] /\ UNCHANGED <<line, seen>>
    BY <1>4 DEF get_next_cmd
  <2>2. 0 \in 0..(HISTORY - 1) OBVIOUS
  <2>3. /\ TypeOK /\ ReaderShape /\ reader' = reader /\ got' = got /\ echo' = echo
        /\ tracked' = tracked /\ visible_term' = visible_term
    BY <1>2, <2>1 DEF BufferInv, seen, read
  <2>4. ReaderShape' BY <2>3 DEF ReaderShape
  <2>5. find_his_counter' \in [Terms -> 0..(HISTORY - 1)] BY <2>1, <2>2, <2>3 DEF TypeOK
  <2>6. /\ visible_term' \in Terms /\ reader' \in [Terms -> {"none", "wait", "copy"}]
        /\ got' \in [Terms -> Seq(Cell)] /\ echo' \in [Terms -> Seq(Cell)]
        /\ tracked' \in [Terms -> BOOLEAN]
    BY <2>3 DEF TypeOK
  <2> QED BY <1>2, <2>1, <2>4, <2>5, <2>6, QuietStep
<1>5. CASE cmd_history[t][f][0] = Nul /\ f # 0
  <2> DEFINE e == Erase(echo[t], buffer_count[t])
             ok == ~HasTab(t, buffer_count[t])
  <2>1. SetLine(t, EmptyBuffer, 0) /\ Show(t, e, ok) /\ UNCHANGED find_his_counter
    BY <1>5 DEF get_next_cmd
  <2>2. e \in Seq(Cell)
    <3>1. echo[t] \in Seq(Cell) /\ buffer_count[t] \in Nat BY DEF BufferInv, TypeOK
    <3> QED BY <3>1, EraseType
  <2>3. TypeOK /\ ok \in BOOLEAN BY DEF BufferInv
  <2> HIDE DEF e, ok
  <2>4. echo' \in [Terms -> Seq(Cell)] /\ tracked' \in [Terms -> BOOLEAN]
    BY <2>1, <2>2, <2>3, ShowType
  <2>5. /\ find_his_counter' \in [Terms -> 0..(HISTORY - 1)] /\ key_read' \in [Terms -> BOOLEAN]
        /\ \A u \in Terms \ {t} : key_read'[u] = key_read[u]
    BY <1>2, <2>1, <2>3 DEF TypeOK
  <2>6. \A i \in Index : EmptyBuffer[i] = Nul BY DEF EmptyBuffer
  <2>7. 0 \in 0..(BUF_SIZE - 1) /\ BUF_SIZE - 1 \in Index /\ BUF_SIZE - 2 \in Index
    BY DEF Index
  <2>8. \A i \in 0..(0 - 1) : EmptyBuffer[i] # Nul OBVIOUS
  <2>9. \A i \in Index : EmptyBuffer[i] = Enter => i < 0 /\ key_read'[t]
    BY <2>6 DEF Text
  <2> QED BY ZenonT(60), <1>2, <2>1, <2>4, <2>5, <2>6, <2>7, <2>8, <2>9, EmptyType, KeyStep
<1> QED BY <1>3, <1>4, <1>5

LEMMA ClearStep ==
  ASSUME BufferInv, NEW t \in Terms, clear_term(t) PROVE BufferInv'
<1>1. TypeOK /\ <<>> \in Seq(Cell) BY DEF BufferInv, TypeOK
<1>2. Show(t, <<>>, FALSE) /\ UNCHANGED <<visible_term, line, key_read, hist, read>>
  BY DEF clear_term
<1>3. echo' \in [Terms -> Seq(Cell)] /\ tracked' \in [Terms -> BOOLEAN]
  BY <1>1, <1>2, ShowType
<1>4. /\ ReaderShape /\ reader' = reader /\ got' = got /\ visible_term' = visible_term
      /\ find_his_counter' = find_his_counter
      /\ UNCHANGED <<line, key_read, cmd_history, cmd_history_idx>>
  BY <1>2 DEF BufferInv, read, hist
<1>5. ReaderShape' BY <1>4 DEF ReaderShape
<1>6. /\ visible_term' \in Terms /\ reader' \in [Terms -> {"none", "wait", "copy"}]
      /\ got' \in [Terms -> Seq(Cell)] /\ find_his_counter' \in [Terms -> 0..(HISTORY - 1)]
  BY <1>1, <1>4 DEF TypeOK
<1> QED BY <1>3, <1>4, <1>5, <1>6, QuietStep

LEMMA ReadStartStep ==
  ASSUME BufferInv, NEW t \in Terms, ReadStart(t) PROVE BufferInv'
<1>1. TypeOK /\ BufferShape(t) /\ HistoryShape(t) /\ buffer[t] \in Buffer
  BY DEF BufferInv, TypeOK
<1> DEFINE b == Finished(t)
           idx == cmd_history_idx[t]
<1>2. b \in Buffer /\ b[BUF_SIZE - 2] = Nul /\ b[BUF_SIZE - 1] = Nul /\ \A i \in Index : b[i] # Enter
  <2>1. \A i \in Index : b[i] = IF i < buffer_count[t] /\ buffer[t][i] = Enter THEN Nul ELSE buffer[t][i]
    BY DEF Finished
  <2>2. \A i \in Index : b[i] \in Cell BY <1>1, <2>1 DEF Buffer, Cell
  <2>3. b \in Buffer BY <2>2 DEF Buffer, Finished
  <2> QED BY <1>1, <2>1, <2>3 DEF BufferShape, Index
<1> HIDE DEF b
<1>3. /\ cmd_history' \in [Terms -> [0..(HISTORY - 1) -> Buffer]]
      /\ cmd_history_idx' \in [Terms -> 0..(HISTORY - 1)]
      /\ find_his_counter' \in [Terms -> 0..(HISTORY - 1)]
      /\ \A u \in Terms : HistoryShape(u)'
  <2>1. CASE UNCHANGED hist
    BY SMTT(30), <1>1, <2>1 DEF hist, TypeOK, HistoryShape, BufferInv
  <2>2. CASE ~ UNCHANGED hist
    <3>1. /\ cmd_history' = [cmd_history EXCEPT ![t][idx] = b]
          /\ cmd_history_idx' = [cmd_history_idx EXCEPT ![t] = (idx + 1) % HISTORY]
          /\ find_his_counter' = [find_his_counter EXCEPT ![t] = (idx + 1) % HISTORY]
      BY <2>2 DEF ReadStart, SaveCommand, b
    <3>2. idx \in 0..(HISTORY - 1) /\ (idx + 1) % HISTORY \in 0..(HISTORY - 1)
      BY SMTT(30), <1>1 DEF TypeOK
    <3>3. \A u \in Terms : HistoryShape(u)' BY ZenonT(60), <1>1, <1>2, <3>1, <3>2 DEF HistoryShape, BufferInv, TypeOK
    <3> HIDE DEF idx
    <3> QED BY <1>1, <1>2, <3>1, <3>2, <3>3 DEF TypeOK
  <2> QED BY <2>1, <2>2
<1>4. /\ SetLine(t, EmptyBuffer, 0)
      /\ key_read' = [key_read EXCEPT ![t] = FALSE]
      /\ reader' = [reader EXCEPT ![t] = "wait"]
      /\ got' = [got EXCEPT ![t] = <<>>]
      /\ echo' = [echo EXCEPT ![t] = <<>>]
      /\ tracked' = [tracked EXCEPT ![t] = TRUE]
      /\ UNCHANGED visible_term
  BY DEF ReadStart
<1>5. TypeOK'
  <2>1. /\ buffer' \in [Terms -> Buffer] /\ buffer_count' \in [Terms -> 0..(BUF_SIZE - 1)]
        /\ visible_term' \in Terms
    BY <1>1, <1>4, EmptyType DEF TypeOK, SetLine
  <2>2. /\ key_read' \in [Terms -> BOOLEAN] /\ tracked' \in [Terms -> BOOLEAN]
        /\ reader' \in [Terms -> {"none", "wait", "copy"}]
    BY <1>1, <1>4 DEF TypeOK
  <2>3. <<>> \in Seq(Cell) OBVIOUS
  <2>4. got' \in [Terms -> Seq(Cell)] /\ echo' \in [Terms -> Seq(Cell)]
    BY <1>1, <1>4, <2>3 DEF TypeOK
  <2> QED BY <1>3, <2>1, <2>2, <2>4 DEF TypeOK
<1>6. \A u \in Terms : BufferShape(u)'
  <2>1. \A i \in Index : EmptyBuffer[i] = Nul BY DEF EmptyBuffer
  <2>2. BUF_SIZE - 1 \in Index /\ BUF_SIZE - 2 \in Index BY DEF Index
  <2>3. BufferShape(t)' BY <1>1, <1>4, <2>1, <2>2 DEF BufferShape, SetLine, TypeOK
  <2>4. \A u \in Terms \ {t} : BufferShape(u)'
    BY <1>1, <1>4 DEF BufferShape, SetLine, TypeOK, BufferInv
  <2> QED BY <2>3, <2>4
<1>7. ReaderShape' BY <1>1, <1>4 DEF ReaderShape, BufferInv, TypeOK
<1> QED BY <1>3, <1>5, <1>6, <1>7 DEF BufferInv

LEMMA ReadStepStep ==
  ASSUME BufferInv, NEW t \in Terms, ReadStep(t) PROVE BufferInv'
<1>1. /\ UNCHANGED <<visible_term, line, key_read, hist, seen>>
      /\ reader' \in [Terms -> {"none", "wait", "copy"}]
  BY DEF ReadStep, ReadPoll, ReadCopy, ReadReturn, BufferInv, TypeOK
<1>2. got' \in [Terms -> Seq(Cell)] /\ ReaderShape'
  <2>1. CASE ReadPoll(t) \/ ReadReturn(t)
    <3>1. UNCHANGED got BY <2>1 DEF ReadPoll, ReadReturn
    <3>2. got' \in [Terms -> Seq(Cell)] BY <3>1 DEF BufferInv, TypeOK
    <3>3. CASE ReadReturn(t)
      <4>1. reader' = [reader EXCEPT ![t] = "none"] BY <3>3 DEF ReadReturn
      <4>2. ReaderShape' BY <3>1, <4>1 DEF ReaderShape, BufferInv, TypeOK
      <4> QED BY <3>2, <4>2
    <3>4. CASE ReadPoll(t)
      <4>1. reader[t] = "wait" /\ reader' = [reader EXCEPT ![t] = "copy"] BY <3>4 DEF ReadPoll
      <4>2. got[t] = <<>> BY <4>1 DEF BufferInv, ReaderShape
      <4>3. ReaderShape'
        BY <3>1, <4>1, <4>2 DEF ReaderShape, BufferInv, TypeOK
      <4> QED BY <3>2, <4>3
    <3> QED BY <2>1, <3>3, <3>4
  <2>2. CASE ReadCopy(t)
    <3>1. /\ reader[t] = "copy" /\ More(t) /\ UNCHANGED reader
          /\ got' = [got EXCEPT ![t] = Append(got[t], buffer[t][Len(got[t])])]
      BY <2>2 DEF ReadCopy
    <3>2. TypeOK /\ got[t] \in Seq(Cell) /\ Len(got[t]) \in Nat /\ buffer[t] \in Buffer
      BY DEF BufferInv, TypeOK
    <3>3. Len(got[t]) \in Index /\ Len(got[t]) # BUF_SIZE - 1
      BY <3>1, <3>2 DEF More, BufferInv, BufferShape, Index
    <3>4. Append(got[t], buffer[t][Len(got[t])]) \in Seq(Cell)
      BY <3>2, <3>3 DEF Buffer
    <3>5. Len(Append(got[t], buffer[t][Len(got[t])])) = Len(got[t]) + 1 BY <3>2
    <3>6. got' \in [Terms -> Seq(Cell)] BY <3>1, <3>2, <3>4 DEF TypeOK
    <3>7. ReaderShape'
      <4>1. got'[t] = Append(got[t], buffer[t][Len(got[t])]) /\ Len(got'[t]) \in 0..(BUF_SIZE - 1)
        BY SMTT(30), <3>1, <3>2, <3>3, <3>5 DEF TypeOK, Index
      <4>2. \A u \in Terms \ {t} : got'[u] = got[u] BY <3>1, <3>2 DEF TypeOK
      <4> QED BY <3>1, <4>1, <4>2 DEF ReaderShape, BufferInv
    <3> QED BY <3>6, <3>7
  <2> QED BY <2>1, <2>2 DEF ReadStep
<1>3. /\ TypeOK /\ visible_term' = visible_term /\ find_his_counter' = find_his_counter
      /\ echo' = echo /\ tracked' = tracked
      /\ UNCHANGED <<line, key_read, cmd_history, cmd_history_idx>>
  BY <1>1 DEF BufferInv, hist, seen
<1>4. /\ visible_term' \in Terms /\ find_his_counter' \in [Terms -> 0..(HISTORY - 1)]
      /\ echo' \in [Terms -> Seq(Cell)]
      /\ tracked' \in [Terms -> BOOLEAN]
  BY <1>3 DEF TypeOK
<1> QED BY <1>1, <1>2, <1>3, <1>4, QuietStep

(* Every step keeps the invariant.                                         *)
LEMMA NextBuffer == BufferInv /\ [Next]_vars => BufferInv'
<1> SUFFICES ASSUME BufferInv, [Next]_vars PROVE BufferInv'
  OBVIOUS
<1>1. CASE UNCHANGED vars
  <2>1. /\ TypeOK /\ ReaderShape /\ reader' = reader /\ got' = got /\ echo' = echo
        /\ tracked' = tracked /\ visible_term' = visible_term
        /\ find_his_counter' = find_his_counter
        /\ UNCHANGED <<line, key_read, cmd_history, cmd_history_idx>>
    BY <1>1 DEF BufferInv, vars, hist, read, seen
  <2>2. ReaderShape' BY <2>1 DEF ReaderShape
  <2>3. /\ visible_term' \in Terms /\ find_his_counter' \in [Terms -> 0..(HISTORY - 1)]
        /\ reader' \in [Terms -> {"none", "wait", "copy"}] /\ got' \in [Terms -> Seq(Cell)]
        /\ echo' \in [Terms -> Seq(Cell)]
        /\ tracked' \in [Terms -> BOOLEAN]
    BY <2>1 DEF TypeOK
  <2> QED BY <2>1, <2>2, <2>3, QuietStep
<1>2. ASSUME NEW t \in Terms, Key(t) PROVE BufferInv'
  <2>1. TypeOK BY DEF BufferInv
  <2>2. ASSUME NEW c \in Chars, TypeChar(t, c) PROVE BufferInv'
    <3>1. c \in Text /\ c # Enter /\ Append(echo[t], c) \in Seq(Cell)
      BY <2>1, <2>2 DEF Text, Cell, TypeOK
    <3> QED BY <2>2, <3>1, AddStep DEF TypeChar
  <2>3. CASE PressEnter(t)
    <3>1. Append(echo[t], Enter) \in Seq(Cell) BY <2>1 DEF Cell, TypeOK
    <3> QED BY <2>3, <3>1, AddStep DEF PressEnter
  <2>4. CASE TypeTab(t)
    <3>1. Tab \in Text /\ Tab # Enter BY DEF Text
    <3>2. echo[t] \o TabCells \in Seq(Cell)
      <4>1. echo[t] \in Seq(Cell) BY <2>1 DEF TypeOK
      <4> QED BY <4>1, TabCellsType, ConcatType
    <3> QED BY <2>4, <3>1, <3>2, AddStep DEF TypeTab
  <2> QED BY <1>2, <2>2, <2>3, <2>4, BackspaceStep, CompleteStep, PrevStep, NextStep, ClearStep DEF Key
<1>3. ASSUME NEW t \in Terms, change_term(t) PROVE BufferInv'
  <2>1. /\ TypeOK /\ ReaderShape /\ reader' = reader /\ got' = got /\ echo' = echo
        /\ tracked' = tracked /\ visible_term' = t
        /\ find_his_counter' = find_his_counter
        /\ UNCHANGED <<line, key_read, cmd_history, cmd_history_idx>>
    BY <1>3 DEF change_term, BufferInv, hist, read, seen
  <2>2. ReaderShape' BY <2>1 DEF ReaderShape
  <2>3. /\ visible_term' \in Terms /\ find_his_counter' \in [Terms -> 0..(HISTORY - 1)]
        /\ reader' \in [Terms -> {"none", "wait", "copy"}] /\ got' \in [Terms -> Seq(Cell)]
        /\ echo' \in [Terms -> Seq(Cell)]
        /\ tracked' \in [Terms -> BOOLEAN]
    BY <1>3, <2>1 DEF TypeOK
  <2> QED BY <2>1, <2>2, <2>3, QuietStep
<1> QED BY <1>1, <1>2, <1>3, ReadStartStep, ReadStepStep DEF Next

(* The types, and what every line, ring and read of a terminal looks like: *)
(* add_to_buffer, the history, completion and read_term keep it.           *)
THEOREM BufferInductive == Spec => []BufferInv
<1> QED BY InitBuffer, NextBuffer, PTL DEF Spec

(* A line that a read waits for can always be ended with Enter.            *)
THEOREM EnterFits == Spec => []RoomForEnter
<1>1. BufferInv => RoomForEnter
  <2> SUFFICES ASSUME BufferInv, NEW t \in Terms, Editing(t)
               PROVE  buffer_count[t] < BUF_SIZE - 1
    BY DEF RoomForEnter
  <2>1. BUF_SIZE - 2 \in Index /\ buffer_count[t] \in 0..(BUF_SIZE - 1)
    BY DEF BufferInv, TypeOK, Index
  <2>2. buffer[t][BUF_SIZE - 2] = Nul
    BY <2>1 DEF BufferInv, BufferShape, Editing
  <2>3. ~ (BUF_SIZE - 2 \in 0..(buffer_count[t] - 1))
    BY <2>2 DEF BufferInv, BufferShape
  <2> QED BY <2>1, <2>3
<1> QED BY <1>1, BufferInductive, PTL

(* The copy loop of read_term stops at a NUL inside the buffer.            *)
THEOREM CopyStops == Spec => []CopyEndsAtNul
<1>1. BufferInv => CopyEndsAtNul BY DEF BufferInv, ReaderShape, CopyEndsAtNul
<1> QED BY <1>1, BufferInductive, PTL
=============================================================================
