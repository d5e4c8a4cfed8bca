------------------------ MODULE TerminalRefines_proofs ------------------------
(***************************************************************************)
(* As long as nobody types ahead, PoliteInv is an invariant of Terminal,   *)
(* Terminal implements LineEdit and the screen shows the line, for every   *)
(* number of terminals, every buffer and history size, alphabet and set of *)
(* words.                                                                  *)
(***************************************************************************)
EXTENDS TerminalRefines, Terminal_proofs

USE SizeAssumption, CharAssumption

-----------------------------------------------------------------------------
(* PoliteInv.  A key is pressed while a read waits, a terminal at a time.  *)

(* What of the state PoliteTerm(u) looks at stays as it is.                *)
Untouched(u) ==
  /\ buffer'[u] = buffer[u] /\ buffer_count'[u] = buffer_count[u] /\ key_read'[u] = key_read[u]
  /\ reader'[u] = reader[u] /\ got'[u] = got[u] /\ cmd_history'[u] = cmd_history[u]

LEMMA UntouchedPolite ==
  ASSUME NEW u \in Terms, PoliteTerm(u), Untouched(u)
  PROVE  PoliteTerm(u)'
BY DEF Untouched, PoliteTerm, Ended, Editing, FirstChars

(* A key that makes b, of length n, the line of t and leaves the reader    *)
(* waiting.                                                                *)
LineBecomes(t, b, n) ==
  /\ SetLine(t, b, n)
  /\ UNCHANGED <<key_read, cmd_history, read>>
  /\ Editing(t)
  /\ \A i \in Index : i >= n => b[i] = Nul

LEMMA LinePolite ==
  ASSUME PoliteInv, NEW t \in Terms, NEW b, NEW n, LineBecomes(t, b, n)
  PROVE  \A u \in Terms : PoliteTerm(u)'
<1>1. TypeOK /\ \A u \in Terms : PoliteTerm(u)
  BY DEF PoliteInv, BufferInv
<1>2. /\ buffer'[t] = b /\ buffer_count'[t] = n
      /\ \A u \in Terms \ {t} : buffer'[u] = buffer[u] /\ buffer_count'[u] = buffer_count[u]
      /\ key_read' = key_read /\ cmd_history' = cmd_history /\ reader' = reader /\ got' = got
  BY <1>1 DEF LineBecomes, SetLine, TypeOK, read
<1>3. PoliteTerm(t)'
  BY <1>1, <1>2 DEF LineBecomes, PoliteTerm, Editing
<1>4. \A u \in Terms \ {t} : PoliteTerm(u)'
  BY <1>1, <1>2, UntouchedPolite DEF Untouched
<1> QED
  BY <1>3, <1>4

(* Where the text of a line of the history ends, nothing follows.          *)
LEMMA CleanEnd ==
  ASSUME NEW b \in Buffer, Clean(b), NEW i \in Index, i >= strlen(b)
  PROVE  b[i] = Nul
<1> DEFINE n == strlen(b)
<1>1. n \in 0..BUF_SIZE /\ (n < BUF_SIZE => b[n] = Nul)
  BY StrlenDef
<1> HIDE DEF n
<1>2. n \in Index /\ b[n] = Nul /\ (n = i \/ n < i)
  BY <1>1 DEF Index, n
<1> QED
  BY <1>2 DEF Clean

LEMMA TypePolite ==
  ASSUME PoliteInv, NEW t \in Terms, Editing(t), NEW c \in Text, add_to_buffer(t, c),
         UNCHANGED <<key_read, cmd_history, read>>
  PROVE  LineBecomes(t, [buffer[t] EXCEPT ![buffer_count[t]] = c], buffer_count[t] + 1)
<1> DEFINE m == buffer_count[t]
           b == [buffer[t] EXCEPT ![m] = c]
<1>1. /\ buffer[t] \in Buffer /\ m \in Nat /\ buffer \in [Terms -> Buffer]
      /\ \A i \in Index : i >= m => buffer[t][i] = Nul
  BY DEF PoliteInv, BufferInv, TypeOK, PoliteTerm
<1>2. SetLine(t, b, m + 1)
  BY <1>1 DEF add_to_buffer, SetLine
<1>3. \A i \in Index : i >= m + 1 => b[i] = Nul
  BY <1>1 DEF Buffer, Index
<1> QED
  BY <1>2, <1>3 DEF LineBecomes

LEMMA ErasePolite ==
  ASSUME PoliteInv, NEW t \in Terms, Editing(t), Backspace(t)
  PROVE  LineBecomes(t, [buffer[t] EXCEPT ![buffer_count[t] - 1] = Nul], buffer_count[t] - 1)
<1> DEFINE m == buffer_count[t] - 1
           b == [buffer[t] EXCEPT ![m] = Nul]
<1>1. /\ buffer[t] \in Buffer /\ m \in Int
      /\ \A i \in Index : i >= m + 1 => buffer[t][i] = Nul
  BY DEF PoliteInv, BufferInv, TypeOK, PoliteTerm
<1>2. SetLine(t, b, m) /\ UNCHANGED <<key_read, cmd_history, read>>
  BY DEF Backspace, hist
<1>3. \A i \in Index : i >= m => b[i] = Nul
  BY <1>1 DEF Buffer, Index
<1> QED
  BY <1>2, <1>3 DEF LineBecomes

(* The word that completion replaces begins inside the line ...            *)
LEMMA WordInside ==
  ASSUME PoliteInv, NEW t \in Terms, buffer[t][0] \in Completes
  PROVE  WordAt(buffer[t]) \in 0..buffer_count[t]
<1>1. /\ buffer[t] \in Buffer /\ buffer_count[t] \in 0..(BUF_SIZE - 1)
      /\ \A i \in Index : i >= buffer_count[t] => buffer[t][i] = Nul
  BY DEF PoliteInv, BufferInv, TypeOK, PoliteTerm
<1>2. /\ WordAt(buffer[t]) \in 0..(BUF_SIZE - 3)
      /\ WordAt(buffer[t]) > 0 => buffer[t][WordAt(buffer[t])] # Nul
  BY <1>1, WordAtType
<1> DEFINE a == WordAt(buffer[t])
<1> HIDE DEF a
<1> QED
  BY <1>1, <1>2 DEF Index, a

(* and the space in front of it is the one the search finds.               *)
LEMMA SpaceBefore ==
  ASSUME PoliteInv, NEW t \in Terms, buffer[t][0] \in Completes
  PROVE  ErasedFrom(buffer[t], buffer_count[t], WordAt(buffer[t])) = {WordAt(buffer[t])}
<1> DEFINE a == WordAt(buffer[t])
           n == buffer_count[t]
<1>1. buffer[t] \in Buffer /\ n \in Nat /\ a \in 0..n
  BY WordInside DEF PoliteInv, BufferInv, TypeOK
<1>2. a > 0 => buffer[t][a - 1] = Space
  BY <1>1, WordAtType
<1> HIDE DEF a, n
<1>3. ErasedFrom(buffer[t], n, a) = {a}
  BY <1>1, <1>2 DEF ErasedFrom
<1> QED
  BY <1>3 DEF a, n

(* The line with its last part replaced by w                               *)
LEMMA OverwriteEffect ==
  ASSUME PoliteInv, NEW t \in Terms, buffer[t][0] \in Completes,
         NEW w \in WordsFor(buffer[t])
  PROVE  LET a == WordAt(buffer[t])  b == Overwrite(buffer[t], a, w) IN
         /\ w \in Seq(Chars) /\ a \in 0..buffer_count[t] /\ a + Len(w) <= BUF_SIZE - 2
         /\ b \in Buffer /\ strlen(b) = a + Len(w)
         /\ \A i \in Index : b[i] = IF i < a THEN buffer[t][i]
                                    ELSE IF i - a < Len(w) THEN w[i - a + 1] ELSE Nul
<1> DEFINE a == WordAt(buffer[t])
           b == Overwrite(buffer[t], a, w)
<1>1. buffer[t] \in Buffer /\ BufferShape(t) /\ buffer_count[t] \in 0..(BUF_SIZE - 1)
  BY DEF PoliteInv, BufferInv, TypeOK
<1>2. w \in Seq(Chars) /\ Len(w) \in Nat /\ a + Len(w) <= BUF_SIZE - 2 /\ a \in 0..buffer_count[t]
  BY <1>1, WordAtType, WordInside
<1>3. \A i \in Index : i >= a /\ i - a < Len(w) => w[i - a + 1] \in Chars
  BY <1>2 DEF Index
<1>4. \A i \in Index : b[i] = IF i < a THEN buffer[t][i]
                              ELSE IF i - a < Len(w) THEN w[i - a + 1] ELSE Nul
  BY DEF Overwrite
<1> HIDE DEF a
<1>5. b \in Buffer
  <2>1. \A i \in Index : buffer[t][i] \in Cell
    BY <1>1 DEF Buffer
  <2>2. b = [i \in Index |-> b[i]]
    BY DEF Overwrite
  <2> HIDE DEF b
  <2>3. \A i \in Index : b[i] \in Cell
    BY SMTT(30), <1>1, <1>2, <1>3, <1>4, <2>1 DEF Cell, Text, Index
  <2> QED
    BY <2>2, <2>3 DEF Buffer
<1>6. /\ \A i \in 0..(a + Len(w) - 1) : b[i] # Nul
      /\ b[a + Len(w)] = Nul
  <2>1. \A i \in 0..(a - 1) : i \in Index /\ buffer[t][i] # Nul
    BY <1>1, <1>2 DEF Index, BufferShape
  <2>2. \A i \in 0..(a + Len(w) - 1) : i \in Index /\ (i < a \/ i - a < Len(w))
    BY <1>2 DEF Index
  <2>3. a + Len(w) \in Index /\ ~ (a + Len(w) < a) /\ ~ ((a + Len(w)) - a < Len(w))
    BY <1>2 DEF Index
  <2> HIDE DEF b
  <2> QED
    BY SMTT(30), <1>2, <1>3, <1>4, <2>1, <2>2, <2>3 DEF Text
<1> HIDE DEF b
<1>7. strlen(b) = a + Len(w)
  <2>1. /\ strlen(b) \in 0..BUF_SIZE /\ \A i \in 0..(strlen(b) - 1) : b[i] # Nul
        /\ strlen(b) < BUF_SIZE => b[strlen(b)] = Nul
    BY <1>5, StrlenDef
  <2> QED
    BY SMTT(30), <1>2, <1>6, <2>1
<1> QED
  BY <1>2, <1>4, <1>5, <1>7 DEF a, b

LEMMA CompletePolite ==
  ASSUME PoliteInv, NEW t \in Terms, Editing(t), Complete(t)
  PROVE  \E w \in WordsFor(buffer[t]) :
           LET b == Overwrite(buffer[t], WordAt(buffer[t]), w) IN
           /\ LineBecomes(t, b, strlen(b))
           /\ Show(t, CompletedEcho(echo[t], buffer_count[t], WordAt(buffer[t]), w), TRUE)
<1>1. buffer[t][0] \in Completes /\ UNCHANGED <<key_read, cmd_history, read>>
  BY DEF Complete, hist
<1>2. PICK w \in WordsFor(buffer[t]) :
        LET b == Overwrite(buffer[t], WordAt(buffer[t]), w) IN
        /\ SetLine(t, b, strlen(b))
        /\ Show(t, CompletedEcho(echo[t], buffer_count[t], WordAt(buffer[t]), w), TRUE)
  BY <1>1, SpaceBefore DEF Complete
<1> DEFINE a == WordAt(buffer[t])
           b == Overwrite(buffer[t], a, w)
<1>3. /\ strlen(b) = a + Len(w) /\ Len(w) \in Nat /\ a \in Nat
      /\ \A i \in Index : b[i] = IF i < a THEN buffer[t][i]
                                 ELSE IF i - a < Len(w) THEN w[i - a + 1] ELSE Nul
  <2>1. buffer_count[t] \in Nat
    BY DEF PoliteInv, BufferInv, TypeOK
  <2> QED
    BY <1>1, <2>1, OverwriteEffect
<1> HIDE DEF a, b
<1>4. \A i \in Index : i >= strlen(b) => b[i] = Nul
  BY <1>3 DEF Index
<1> QED
  BY <1>1, <1>2, <1>4 DEF LineBecomes, a, b

LEMMA RecallPolite ==
  ASSUME PoliteInv, NEW t \in Terms, Editing(t), NEW f \in 0..(HISTORY - 1), Recall(t, f),
         UNCHANGED <<key_read, cmd_history, read>>
  PROVE  LineBecomes(t, cmd_history[t][f], strlen(cmd_history[t][f]))
<1>1. cmd_history[t][f] \in Buffer /\ Clean(cmd_history[t][f])
  <2>1. cmd_history \in [Terms -> [0..(HISTORY - 1) -> Buffer]] /\ PoliteTerm(t)
    BY DEF PoliteInv, BufferInv, TypeOK
  <2> QED
    BY <2>1 DEF PoliteTerm
<1>2. SetLine(t, cmd_history[t][f], strlen(cmd_history[t][f]))
  BY DEF Recall
<1> QED
  BY <1>1, <1>2, CleanEnd DEF LineBecomes

(* The keys, one after another                                             *)
LEMMA PressEnterPolite ==
  ASSUME PoliteInv, NEW t \in Terms, Editing(t), PressEnter(t)
  PROVE  \A u \in Terms : PoliteTerm(u)'
<1> DEFINE m == buffer_count[t]
           b == [buffer[t] EXCEPT ![m] = Enter]
<1>1. /\ TypeOK /\ BufferShape(t) /\ m \in 0..(BUF_SIZE - 2)
      /\ \A u \in Terms : PoliteTerm(u)
  BY SMTT(30) DEF PoliteInv, BufferInv, TypeOK, PressEnter, add_to_buffer, Fits
<1>2. /\ buffer'[t] = b /\ buffer_count'[t] = m + 1 /\ key_read'[t] = TRUE
      /\ \A u \in Terms \ {t} : /\ buffer'[u] = buffer[u] /\ buffer_count'[u] = buffer_count[u]
                                /\ key_read'[u] = key_read[u]
      /\ cmd_history' = cmd_history /\ reader' = reader /\ got' = got
  BY <1>1 DEF PressEnter, add_to_buffer, TypeOK, hist, read
<1>3. b \in Buffer /\ \A i \in Index : b[i] = IF i = m THEN Enter ELSE buffer[t][i]
  BY <1>1 DEF TypeOK, Buffer, Cell
<1>4. PoliteTerm(t)'
  <2> HIDE DEF b
  <2>1. \A i \in Index : i >= m + 1 => b[i] = Nul
    BY <1>1, <1>3 DEF PoliteTerm, Index
  <2>2. \A i \in 0..m : b[i] = Enter <=> i = m
    BY <1>1, <1>3 DEF BufferShape, Editing, Index
  <2>3. Ended(t)'
    BY <1>1, <1>2, <2>2 DEF Ended
  <2>4. reader[t] = "wait"
    BY DEF Editing
  <2> QED
    BY <1>1, <1>2, <2>1, <2>3, <2>4 DEF PoliteTerm
<1>5. \A u \in Terms \ {t} : PoliteTerm(u)'
  BY <1>1, <1>2, UntouchedPolite DEF Untouched
<1> QED
  BY <1>4, <1>5

LEMMA QuietPolite ==
  ASSUME PoliteInv, UNCHANGED <<line, key_read, cmd_history, read>>
  PROVE  \A u \in Terms : PoliteTerm(u)'
BY UntouchedPolite DEF Untouched, PoliteInv, line, read

(* What Up and Down make of the line: nothing, a line of the history, or   *)
(* nothing to read.                                                        *)
LEMMA ArrowPolite ==
  ASSUME PoliteInv, NEW t \in Terms, Editing(t), get_prev_cmd(t) \/ get_next_cmd(t)
  PROVE  /\ UNCHANGED <<key_read, cmd_history, read>>
         /\ \/ UNCHANGED line
            \/ \E f \in 0..(HISTORY - 1) :
                 LineBecomes(t, cmd_history[t][f], strlen(cmd_history[t][f]))
            \/ LineBecomes(t, EmptyBuffer, 0)
<1>1. UNCHANGED <<key_read, cmd_history, read>>
  BY DEF get_prev_cmd, get_next_cmd
<1>2. find_his_counter[t] \in 0..(HISTORY - 1)
  BY DEF PoliteInv, BufferInv, TypeOK
<1>3. CASE get_prev_cmd(t)
  <2> DEFINE f == IF find_his_counter[t] = 0 THEN 0 ELSE find_his_counter[t] - 1
  <2>1. f \in 0..(HISTORY - 1)
    BY <1>2
  <2>2. UNCHANGED line \/ Recall(t, f)
    BY <1>3 DEF get_prev_cmd, line
  <2> HIDE DEF f
  <2> QED
    BY <1>1, <2>1, <2>2, RecallPolite
<1>4. CASE get_next_cmd(t)
  <2> DEFINE f == (find_his_counter[t] + 1) % HISTORY
  <2>1. f \in 0..(HISTORY - 1)
    BY <1>2
  <2>2. UNCHANGED line \/ Recall(t, f) \/ SetLine(t, EmptyBuffer, 0)
    BY <1>4 DEF get_next_cmd, line
  <2> HIDE DEF f
  <2>3. SetLine(t, EmptyBuffer, 0) => LineBecomes(t, EmptyBuffer, 0)
    BY <1>1 DEF LineBecomes, EmptyBuffer
  <2> QED
    BY <1>1, <2>1, <2>2, <2>3, RecallPolite
<1> QED
  BY <1>3, <1>4

(* Somebody who does not type ahead only presses keys in a line.           *)
LEMMA KeyEdits ==
  ASSUME ~TypeAhead, NEW t \in Terms, Key(t)
  PROVE  Editing(t)
BY DEF Key, TypeChar, PressEnter, Backspace, TypeTab, Complete, get_prev_cmd, get_next_cmd,
       clear_term, Press

LEMMA KeyPolite ==
  ASSUME PoliteInv, ~TypeAhead, NEW t \in Terms, Key(t)
  PROVE  \A u \in Terms : PoliteTerm(u)'
<1>1. Editing(t)
  BY KeyEdits
<1>2. ASSUME NEW c \in Text, add_to_buffer(t, c), UNCHANGED <<key_read, hist, read>>
      PROVE  \A u \in Terms : PoliteTerm(u)'
  <2>1. UNCHANGED <<key_read, cmd_history, read>>
    BY <1>2 DEF hist
  <2> QED
    BY <1>1, <1>2, <2>1, TypePolite, LinePolite
<1>3. ASSUME NEW c \in Chars, TypeChar(t, c)
      PROVE  \A u \in Terms : PoliteTerm(u)'
  BY <1>2, <1>3 DEF TypeChar, Text
<1>4. CASE TypeTab(t)
  BY <1>2, <1>4 DEF TypeTab, Text
<1>5. CASE PressEnter(t)
  BY <1>1, <1>5, PressEnterPolite
<1>6. CASE Backspace(t)
  BY <1>1, <1>6, ErasePolite, LinePolite
<1>7. CASE Complete(t)
  BY <1>1, <1>7, CompletePolite, LinePolite
<1>8. CASE get_prev_cmd(t) \/ get_next_cmd(t)
  BY <1>1, <1>8, ArrowPolite, LinePolite, QuietPolite
<1>9. CASE clear_term(t)
  <2>1. UNCHANGED <<line, key_read, cmd_history, read>>
    BY <1>9 DEF clear_term, hist
  <2> QED
    BY <2>1, QuietPolite
<1> QED
  BY <1>3, <1>4, <1>5, <1>6, <1>7, <1>8, <1>9 DEF Key

(* The reader                                                              *)
LEMMA FirstCharsZero == ASSUME NEW b PROVE FirstChars(b, 0) = <<>>
BY DEF FirstChars

LEMMA FirstCharsNext ==
  ASSUME NEW b \in Buffer, NEW n \in Index
  PROVE  FirstChars(b, n + 1) = Append(FirstChars(b, n), b[n])
<1>1. /\ FirstChars(b, n) \in Seq(Cell) /\ Len(FirstChars(b, n)) = n
      /\ FirstChars(b, n + 1) \in Seq(Cell) /\ Len(FirstChars(b, n + 1)) = n + 1
  BY FirstCharsType DEF Index
<1> DEFINE s == FirstChars(b, n + 1)
           r == Append(FirstChars(b, n), b[n])
<1>2. b[n] \in Cell
  BY DEF Buffer
<1>3. r \in Seq(Cell) /\ Len(r) = n + 1
  BY <1>1, <1>2
<1>4. \A i \in 1..(n + 1) : s[i] = r[i]
  <2>1. \A i \in 1..(n + 1) : s[i] = b[i - 1]
    BY DEF FirstChars
  <2>2. \A i \in 1..n : FirstChars(b, n)[i] = b[i - 1]
    BY DEF FirstChars
  <2>3. \A i \in 1..n : r[i] = FirstChars(b, n)[i]
    BY <1>1, <1>2
  <2>4. r[n + 1] = b[n]
    BY <1>1, <1>2
  <2> HIDE DEF s, r
  <2>5. \A i \in 1..(n + 1) : i \in 1..n \/ (i = n + 1 /\ i - 1 = n)
    BY DEF Index
  <2> QED
    BY <2>1, <2>2, <2>3, <2>4, <2>5
<1> HIDE DEF s, r
<1>5. s = r
  BY <1>1, <1>3, <1>4, SeqEqual DEF s
<1> QED
  BY <1>5 DEF s, r

(* A line that has ended becomes, without its Enter, a line of the history.*)
LEMMA FinishedClean ==
  ASSUME PoliteInv, NEW t \in Terms, Ended(t)
  PROVE  /\ Finished(t) \in Buffer /\ Clean(Finished(t))
         /\ \A i \in Index : Finished(t)[i] = IF i < buffer_count[t] - 1 THEN buffer[t][i] ELSE Nul
<1> DEFINE m == buffer_count[t]
<1>1. /\ buffer[t] \in Buffer /\ m \in 0..(BUF_SIZE - 1) /\ m > 0
      /\ \A i \in Index : i >= m => buffer[t][i] = Nul
      /\ \A i \in 0..(m - 1) : buffer[t][i] # Nul
      /\ \A i \in 0..(m - 1) : buffer[t][i] = Enter <=> i = m - 1
  BY DEF PoliteInv, BufferInv, TypeOK, PoliteTerm, BufferShape, Ended
<1>2. \A i \in Index : Finished(t)[i] = IF i < m /\ buffer[t][i] = Enter THEN Nul ELSE buffer[t][i]
  BY DEF Finished
<1> HIDE DEF m
<1>3. \A i \in Index : Finished(t)[i] = IF i < m - 1 THEN buffer[t][i] ELSE Nul
  BY <1>1, <1>2 DEF Index
<1>4. Finished(t) \in Buffer
  <2>1. Finished(t) = [i \in Index |-> Finished(t)[i]]
    BY DEF Finished
  <2>2. \A i \in Index : Finished(t)[i] \in Cell
    BY <1>1, <1>3 DEF Buffer, Cell
  <2> QED
    BY <2>1, <2>2 DEF Buffer
<1>5. Clean(Finished(t))
  <2> SUFFICES ASSUME NEW i \in Index, NEW j \in Index, i < j, Finished(t)[i] = Nul
               PROVE  Finished(t)[j] = Nul
    BY DEF Clean
  <2> QED
    BY <1>1, <1>3 DEF Index
<1> QED
  BY <1>3, <1>4, <1>5 DEF m

LEMMA ReadStartPolite ==
  ASSUME PoliteInv, NEW t \in Terms, ReadStart(t)
  PROVE  \A u \in Terms : PoliteTerm(u)'
<1>1. /\ TypeOK /\ \A u \in Terms : PoliteTerm(u)
      /\ reader[t] = "none"
  BY DEF PoliteInv, BufferInv, ReadStart
<1>2. /\ buffer'[t] = EmptyBuffer /\ buffer_count'[t] = 0 /\ key_read'[t] = FALSE
      /\ reader'[t] = "wait"
      /\ \A u \in Terms \ {t} : /\ buffer'[u] = buffer[u] /\ buffer_count'[u] = buffer_count[u]
                                /\ key_read'[u] = key_read[u] /\ reader'[u] = reader[u]
                                /\ got'[u] = got[u]
  BY <1>1 DEF ReadStart, SetLine, TypeOK
<1>3. /\ \A u \in Terms \ {t} : cmd_history'[u] = cmd_history[u]
      /\ \A h \in 0..(HISTORY - 1) : Clean(cmd_history'[t][h])
  <2>1. CASE buffer_count[t] # 0 /\ Finished(t)[0] # Nul
    <3>1. Clean(Finished(t))
      BY <1>1, <2>1, FinishedClean DEF PoliteTerm
    <3>2. cmd_history' = [cmd_history EXCEPT ![t][cmd_history_idx[t]] = Finished(t)]
      BY <2>1 DEF ReadStart, SaveCommand
    <3> QED
      BY SMTT(30), <1>1, <3>1, <3>2 DEF PoliteTerm, TypeOK
  <2>2. CASE ~ (buffer_count[t] # 0 /\ Finished(t)[0] # Nul)
    <3>1. cmd_history' = cmd_history
      BY <2>2 DEF ReadStart, SaveCommand, hist
    <3> QED
      BY <1>1, <3>1 DEF PoliteTerm
  <2> QED
    BY <2>1, <2>2
<1>4. PoliteTerm(t)'
  BY <1>2, <1>3 DEF PoliteTerm, EmptyBuffer, Editing
<1>5. \A u \in Terms \ {t} : PoliteTerm(u)'
  BY <1>1, <1>2, <1>3, UntouchedPolite DEF Untouched
<1> QED
  BY <1>4, <1>5

(* What the copy loop has copied when it finds NUL is the line.            *)
LEMMA CopiedAll ==
  ASSUME PoliteInv, NEW t \in Terms, reader[t] = "copy"
  PROVE  /\ More(t) <=> Len(got[t]) < buffer_count[t]
         /\ Len(got[t]) \in Index
<1>1. /\ got[t] \in Seq(Cell) /\ buffer_count[t] \in 0..(BUF_SIZE - 1)
      /\ Len(got[t]) <= buffer_count[t]
      /\ \A i \in Index : i >= buffer_count[t] => buffer[t][i] = Nul
      /\ \A i \in 0..(buffer_count[t] - 1) : buffer[t][i] # Nul
  <2>1. TypeOK /\ PoliteTerm(t) /\ BufferShape(t)
    BY DEF PoliteInv, BufferInv
  <2> QED
    BY <2>1 DEF TypeOK, PoliteTerm, BufferShape
<1>2. Len(got[t]) \in Index
  BY <1>1 DEF Index
<1> QED
  BY <1>1, <1>2 DEF More, Index

LEMMA ReadStepPolite ==
  ASSUME PoliteInv, NEW t \in Terms, ReadStep(t)
  PROVE  \A u \in Terms : PoliteTerm(u)'
<1>1. /\ TypeOK /\ ReaderShape /\ \A u \in Terms : PoliteTerm(u)
      /\ buffer' = buffer /\ buffer_count' = buffer_count /\ key_read' = key_read
      /\ cmd_history' = cmd_history
  BY DEF PoliteInv, BufferInv, ReadStep, ReadPoll, ReadCopy, ReadReturn, line, hist
<1>2. \A u \in Terms \ {t} : reader'[u] = reader[u] /\ got'[u] = got[u]
  BY <1>1 DEF ReadStep, ReadPoll, ReadCopy, ReadReturn, TypeOK
<1>3. \A u \in Terms \ {t} : PoliteTerm(u)'
  BY <1>1, <1>2, UntouchedPolite DEF Untouched
<1>4. CASE ReadPoll(t)
  <2>1. /\ reader[t] = "wait" /\ key_read[t] /\ reader'[t] = "copy" /\ got'[t] = got[t]
        /\ buffer_count[t] \in Nat
    BY <1>1, <1>4 DEF ReadPoll, TypeOK
  <2>2. got[t] = <<>> /\ Len(got[t]) = 0 /\ FirstChars(buffer[t], 0) = <<>>
    BY <1>1, <2>1, FirstCharsZero DEF ReaderShape
  <2> QED
    BY <1>1, <1>3, <2>1, <2>2 DEF PoliteTerm, Editing, Ended
<1>5. CASE ReadCopy(t)
  <2> DEFINE n == Len(got[t])
  <2>1. /\ reader[t] = "copy" /\ reader'[t] = "copy" /\ More(t)
        /\ got'[t] = Append(got[t], buffer[t][n])
    BY <1>1, <1>5 DEF ReadCopy, TypeOK
  <2>2. n < buffer_count[t] /\ n \in Index /\ buffer_count[t] \in Nat
    BY <1>1, <2>1, CopiedAll DEF TypeOK
  <2>3. got[t] = FirstChars(buffer[t], n) /\ buffer[t] \in Buffer
    BY <1>1, <2>1 DEF PoliteTerm, TypeOK
  <2>4. got'[t] = FirstChars(buffer[t], n + 1) /\ Len(got'[t]) = n + 1
    <3> HIDE DEF n
    <3>1. n + 1 \in 0..BUF_SIZE
      BY <2>2 DEF Index
    <3>2. got'[t] = FirstChars(buffer[t], n + 1)
      BY <2>1, <2>2, <2>3, FirstCharsNext
    <3> QED
      BY <2>3, <3>1, <3>2, FirstCharsType
  <2>5. Len(got'[t]) <= buffer_count[t] /\ got'[t] = FirstChars(buffer[t], Len(got'[t]))
    BY <2>2, <2>4 DEF Index
  <2> HIDE DEF n
  <2> QED
    BY SMTT(30), <1>1, <1>3, <2>1, <2>5 DEF PoliteTerm, Editing, Ended
<1>6. CASE ReadReturn(t)
  <2>1. /\ reader[t] = "copy" /\ reader'[t] = "none" /\ ~More(t) /\ got'[t] = got[t]
        /\ buffer_count[t] \in Nat
    BY <1>1, <1>6 DEF ReadReturn, TypeOK
  <2>2. Len(got[t]) = buffer_count[t]
    BY <1>1, <2>1, CopiedAll DEF PoliteTerm, Index
  <2>3. got[t] = FirstChars(buffer[t], buffer_count[t]) /\ Ended(t)
    BY <1>1, <2>1, <2>2 DEF PoliteTerm, Editing
  <2> QED
    BY <1>1, <1>3, <2>1, <2>3 DEF PoliteTerm, Ended
<1> QED
  BY <1>4, <1>5, <1>6 DEF ReadStep

LEMMA InitPolite == Init => PoliteInv
<1> SUFFICES ASSUME Init PROVE PoliteInv
  OBVIOUS
<1>1. ASSUME NEW t \in Terms PROVE PoliteTerm(t)
  <2>1. /\ buffer[t] = EmptyBuffer /\ buffer_count[t] = 0 /\ reader[t] = "none" /\ got[t] = <<>>
        /\ \A h \in 0..(HISTORY - 1) : cmd_history[t][h] = EmptyBuffer
    BY DEF Init
  <2> QED
    BY <2>1, FirstCharsZero DEF PoliteTerm, EmptyBuffer, Clean
<1> QED
  BY <1>1, InitBuffer DEF PoliteInv

LEMMA NextPolite ==
  ASSUME ~TypeAhead
  PROVE  PoliteInv /\ [Next]_vars => PoliteInv'
<1> SUFFICES ASSUME PoliteInv, [Next]_vars PROVE PoliteInv'
  OBVIOUS
<1>1. BufferInv'
  BY NextBuffer DEF PoliteInv
<1>2. CASE UNCHANGED vars
  <2>1. UNCHANGED <<line, key_read, cmd_history, read>>
    BY <1>2 DEF vars, hist
  <2> QED
    BY <1>1, <2>1, QuietPolite DEF PoliteInv
<1>3. ASSUME NEW t \in Terms, change_term(t) PROVE PoliteInv'
  <2>1. UNCHANGED <<line, key_read, cmd_history, read>>
    BY <1>3 DEF change_term, hist
  <2> QED
    BY <1>1, <2>1, QuietPolite DEF PoliteInv
<1> QED
  BY <1>1, <1>2, <1>3, KeyPolite, ReadStartPolite, ReadStepPolite DEF Next, PoliteInv

(* If keys are only pressed while a read waits for its line, then above    *)
(* buffer_count there is only NUL, Enter is the last character of a line   *)
(* that is read, and what read_term has copied or returned is that line.   *)
THEOREM PoliteInductive ==
  ASSUME ~TypeAhead
  PROVE  Spec => []PoliteInv
<1>1. Init => PoliteInv
  BY InitPolite
<1>2. PoliteInv /\ [Next]_vars => PoliteInv'
  BY NextPolite
<1> QED
  BY <1>1, <1>2, PTL DEF Spec

(* As long as nobody types ahead, Tab never searches for a space in front  *)
(* of the line (terminal.c:528).                                           *)
THEOREM CompletionInside ==
  ASSUME ~TypeAhead
  PROVE  Spec => []CompletionFindsSpace
<1>1. PoliteInv => CompletionFindsSpace
  <2> SUFFICES ASSUME PoliteInv, NEW t \in Terms, buffer[t][0] \in Completes
               PROVE  ErasedFrom(buffer[t], buffer_count[t], WordAt(buffer[t])) # {}
    BY DEF CompletionFindsSpace
  <2> QED
    BY SpaceBefore
<1> QED
  BY <1>1, PoliteInductive, PTL

-----------------------------------------------------------------------------
(* LineEdit.  A terminal that is left alone looks the same to it.          *)
LEMMA UntouchedView ==
  ASSUME NEW u \in Terms, Untouched(u)
  PROVE  /\ Phase'[u] = Phase[u] /\ LineOf'[u] = LineOf[u]
         /\ PastOf'[u] = PastOf[u] /\ ResultOf'[u] = ResultOf[u]
BY DEF Untouched, Phase, Editing, LineOf, PastOf, ResultOf

(* A step of terminal t changes what LineEdit sees of it.                  *)
LEMMA StepView ==
  ASSUME NEW t \in Terms, \A u \in Terms \ {t} : Untouched(u),
         NEW p, NEW l, NEW h, NEW r,
         Phase'[t] = p, LineOf'[t] = l, PastOf'[t] = h, ResultOf'[t] = r
  PROVE  /\ Phase' = [Phase EXCEPT ![t] = p]
         /\ LineOf' = [LineOf EXCEPT ![t] = l]
         /\ PastOf' = [PastOf EXCEPT ![t] = h]
         /\ ResultOf' = [ResultOf EXCEPT ![t] = r]
<1>1. \A u \in Terms \ {t} : /\ Phase'[u] = Phase[u] /\ LineOf'[u] = LineOf[u]
                             /\ PastOf'[u] = PastOf[u] /\ ResultOf'[u] = ResultOf[u]
  BY UntouchedView
<1>2. Phase' = [Phase EXCEPT ![t] = p]
  BY <1>1 DEF Phase
<1>3. LineOf' = [LineOf EXCEPT ![t] = l]
  BY <1>1 DEF LineOf
<1>4. PastOf' = [PastOf EXCEPT ![t] = h]
  <2>1. PastOf = [u \in Terms |-> PastOf[u]] /\ PastOf' = [u \in Terms |-> PastOf'[u]]
    BY Zenon DEF PastOf
  <2> QED
    BY <1>1, <2>1
<1>5. ResultOf' = [ResultOf EXCEPT ![t] = r]
  BY <1>1 DEF ResultOf
<1> QED
  BY <1>2, <1>3, <1>4, <1>5

LEMMA SameView ==
  ASSUME \A u \in Terms : Untouched(u)
  PROVE  UNCHANGED E!lines
<1>1. \A u \in Terms : /\ Phase'[u] = Phase[u] /\ LineOf'[u] = LineOf[u]
                       /\ PastOf'[u] = PastOf[u] /\ ResultOf'[u] = ResultOf[u]
  BY UntouchedView
<1>2. Phase' = Phase
  BY <1>1 DEF Phase
<1>3. LineOf' = LineOf
  BY <1>1 DEF LineOf
<1>4. PastOf' = PastOf
  BY <1>1 DEF PastOf
<1>5. ResultOf' = ResultOf
  BY <1>1 DEF ResultOf
<1> QED
  BY <1>2, <1>3, <1>4, <1>5 DEF E!lines

(* The beginning of a buffer                                               *)
LEMMA FirstCharsSame ==
  ASSUME NEW b, NEW d, NEW n \in Nat, \A i \in 0..(n - 1) : b[i] = d[i]
  PROVE  FirstChars(b, n) = FirstChars(d, n)
<1>1. \A i \in 1..n : b[i - 1] = d[i - 1]
  OBVIOUS
<1> QED
  BY <1>1 DEF FirstChars

LEMMA FirstCharsPrefix ==
  ASSUME NEW b \in Buffer, NEW m \in 0..BUF_SIZE, NEW n \in 0..m
  PROVE  SubSeq(FirstChars(b, m), 1, n) = FirstChars(b, n)
<1>1. /\ FirstChars(b, m) \in Seq(Cell) /\ Len(FirstChars(b, m)) = m
      /\ FirstChars(b, n) \in Seq(Cell) /\ Len(FirstChars(b, n)) = n
  BY FirstCharsType
<1> DEFINE s == SubSeq(FirstChars(b, m), 1, n)
<1>2. s \in Seq(Cell) /\ Len(s) = n /\ \A i \in 1..n : s[i] = FirstChars(b, m)[i]
  BY <1>1
<1>3. \A i \in 1..n : s[i] = FirstChars(b, n)[i]
  BY <1>2 DEF FirstChars
<1> HIDE DEF s
<1>4. s = FirstChars(b, n)
  BY <1>1, <1>2, <1>3, SeqEqual
<1> QED
  BY <1>4 DEF s

(* A line that becomes b, of length n, is edited, if one key can make it.  *)
LEMMA EditStep ==
  ASSUME PoliteInv, NEW t \in Terms, NEW b, NEW n \in 0..(BUF_SIZE - 2),
         LineBecomes(t, b, n), Len(FirstChars(b, n)) = n,
         FirstChars(b, n) \in E!Typed(LineOf[t]) \cup E!Erased(LineOf[t]) \cup
                              E!Completed(LineOf[t]) \cup PastOf[t] \cup {<<>>}
  PROVE  E!Next
<1>1. TypeOK
  BY DEF PoliteInv, BufferInv
<1>2. /\ buffer'[t] = b /\ buffer_count'[t] = n
      /\ \A u \in Terms \ {t} : Untouched(u)
      /\ key_read' = key_read /\ cmd_history' = cmd_history /\ reader' = reader /\ got' = got
  BY <1>1 DEF LineBecomes, SetLine, TypeOK, read, Untouched
<1>3. Phase[t] = "edit"
  BY DEF LineBecomes, Editing, Phase
<1>4. /\ Phase'[t] = Phase[t] /\ LineOf'[t] = FirstChars(b, n)
      /\ PastOf'[t] = PastOf[t] /\ ResultOf'[t] = ResultOf[t]
  BY <1>2 DEF Phase, Editing, LineOf, PastOf, ResultOf
<1>5. /\ Phase' = [Phase EXCEPT ![t] = Phase[t]]
      /\ LineOf' = [LineOf EXCEPT ![t] = FirstChars(b, n)]
      /\ PastOf' = [PastOf EXCEPT ![t] = PastOf[t]]
      /\ ResultOf' = [ResultOf EXCEPT ![t] = ResultOf[t]]
  BY <1>2, <1>4, StepView
<1>6. Phase' = Phase /\ PastOf' = PastOf /\ ResultOf' = ResultOf
  BY <1>5 DEF Phase, PastOf, ResultOf
<1>7. E!Edit(t)
  <2> DEFINE l == FirstChars(b, n)
  <2>1. Len(l) <= BUF_SIZE - 2 /\ LineOf' = [LineOf EXCEPT ![t] = l]
    BY <1>5
  <2> HIDE DEF l
  <2> QED
    BY <1>3, <1>6, <2>1 DEF E!Edit, l
<1> QED
  BY <1>7 DEF E!Next

(* What the keys make of the line                                          *)
LEMMA TypeEdits ==
  ASSUME PoliteInv, NEW t \in Terms, Editing(t), NEW c \in Text, add_to_buffer(t, c),
         UNCHANGED <<key_read, cmd_history, read>>
  PROVE  E!Next
<1> DEFINE m == buffer_count[t]
           b == [buffer[t] EXCEPT ![m] = c]
<1>1. /\ buffer[t] \in Buffer /\ m \in 0..(BUF_SIZE - 3) /\ m \in Index
  BY DEF PoliteInv, BufferInv, TypeOK, add_to_buffer, Fits, Index, Text
<1>2. LineBecomes(t, b, m + 1)
  BY TypePolite
<1>3. b \in Buffer /\ b[m] = c /\ \A i \in 0..(m - 1) : b[i] = buffer[t][i]
  BY <1>1 DEF Buffer, Cell, Index
<1>4. LineOf[t] = FirstChars(buffer[t], m)
  BY DEF LineOf
<1> HIDE DEF b, m
<1>5. FirstChars(b, m + 1) = Append(LineOf[t], c)
  <2>1. FirstChars(b, m + 1) = Append(FirstChars(b, m), c)
    BY <1>1, <1>3, FirstCharsNext
  <2>2. FirstChars(b, m) = FirstChars(buffer[t], m)
    BY <1>1, <1>3, FirstCharsSame
  <2> QED
    BY <1>4, <2>1, <2>2
<1>6. FirstChars(b, m + 1) \in E!Typed(LineOf[t])
  BY <1>5 DEF E!Typed
<1>7. m + 1 \in 0..(BUF_SIZE - 2) /\ Len(FirstChars(b, m + 1)) = m + 1
  BY <1>1, <1>3, FirstCharsType
<1> QED
  BY <1>2, <1>6, <1>7, EditStep

LEMMA EraseEdits ==
  ASSUME PoliteInv, NEW t \in Terms, Editing(t), Backspace(t)
  PROVE  E!Next
<1> DEFINE m == buffer_count[t]
           b == [buffer[t] EXCEPT ![m - 1] = Nul]
<1>1. buffer[t] \in Buffer /\ m \in 1..(BUF_SIZE - 1)
  BY DEF PoliteInv, BufferInv, TypeOK, Backspace
<1>2. LineBecomes(t, b, m - 1)
  BY ErasePolite
<1>3. b \in Buffer /\ \A i \in 0..((m - 1) - 1) : b[i] = buffer[t][i]
  BY <1>1 DEF Buffer, Cell, Index
<1>4. LineOf[t] = FirstChars(buffer[t], m)
  BY DEF LineOf
<1> HIDE DEF b, m
<1>5. FirstChars(b, m - 1) = SubSeq(LineOf[t], 1, m - 1) /\ Len(LineOf[t]) = m
  <2>1. FirstChars(b, m - 1) = FirstChars(buffer[t], m - 1)
    BY <1>1, <1>3, FirstCharsSame
  <2>2. FirstChars(buffer[t], m - 1) = SubSeq(LineOf[t], 1, m - 1)
    BY <1>1, <1>4, FirstCharsPrefix
  <2> QED
    BY <1>1, <1>4, <2>1, <2>2, FirstCharsType
<1>6. FirstChars(b, m - 1) \in E!Erased(LineOf[t])
  <2>1. LineOf[t] # <<>>
    BY <1>1, <1>5
  <2> QED
    BY <1>5, <2>1 DEF E!Erased
<1>7. m - 1 \in 0..(BUF_SIZE - 2) /\ Len(FirstChars(b, m - 1)) = m - 1
  BY <1>1, <1>3, FirstCharsType
<1> QED
  BY <1>2, <1>6, <1>7, EditStep

LEMMA CompleteEdits ==
  ASSUME PoliteInv, NEW t \in Terms, Editing(t), Complete(t)
  PROVE  E!Next
<1>1. PICK w \in WordsFor(buffer[t]) :
        LineBecomes(t, Overwrite(buffer[t], WordAt(buffer[t]), w),
                    strlen(Overwrite(buffer[t], WordAt(buffer[t]), w)))
  BY CompletePolite
<1> DEFINE a == WordAt(buffer[t])
           b == Overwrite(buffer[t], a, w)
           m == buffer_count[t]
           n == a + Len(w)
           L == LineOf[t]
<1>2. buffer[t] \in Buffer /\ m \in 0..(BUF_SIZE - 1) /\ buffer[t][0] \in Completes
  BY DEF PoliteInv, BufferInv, TypeOK, Complete
<1>3. /\ w \in Seq(Chars) /\ a \in 0..m /\ a + Len(w) <= BUF_SIZE - 2
      /\ b \in Buffer /\ strlen(b) = n
      /\ \A i \in Index : b[i] = IF i < a THEN buffer[t][i]
                                 ELSE IF i - a < Len(w) THEN w[i - a + 1] ELSE Nul
  BY <1>2, OverwriteEffect
<1>4. w \in UNION {Words[x] : x \in Forms \X Cell \X Cell} /\ Len(w) \in Nat
  BY <1>2, <1>3, WordAtType
<1>5. L = FirstChars(buffer[t], m)
  BY DEF LineOf
<1>6. LineBecomes(t, b, n)
  BY <1>1, <1>3
<1> HIDE DEF a, b, m
<1>7. L \in Seq(Cell) /\ Len(L) = m /\ \A i \in 1..m : L[i] = buffer[t][i - 1]
  <2>1. \A i \in 1..m : L[i] = buffer[t][i - 1]
    BY <1>5 DEF FirstChars
  <2> HIDE DEF L
  <2> QED
    BY <1>2, <1>5, <2>1, FirstCharsType
<1> HIDE DEF L
<1>8. FirstChars(b, n) = SubSeq(L, 1, a) \o w
  <2> DEFINE q == SubSeq(L, 1, a)
             r == q \o w
  <2>1. q \in Seq(Cell) /\ Len(q) = a /\ \A i \in 1..a : q[i] = buffer[t][i - 1]
    BY <1>2, <1>3, <1>7
  <2>2. w \in Seq(Cell)
    BY <1>3 DEF Cell, Text
  <2> HIDE DEF q
  <2>3. /\ r \in Seq(Cell) /\ Len(r) = n
        /\ \A i \in 1..n : r[i] = IF i <= a THEN q[i] ELSE w[i - a]
    BY ZenonT(60), <1>2, <1>3, <1>4, <2>1, <2>2, ConcatProperties
  <2> HIDE DEF r
  <2>4. \A i \in 1..n : FirstChars(b, n)[i] = b[i - 1]
    BY DEF FirstChars
  <2>5. \A i \in 1..n : b[i - 1] = IF i <= a THEN buffer[t][i - 1] ELSE w[i - a]
    <3> SUFFICES ASSUME NEW i \in 1..n
                 PROVE  b[i - 1] = IF i <= a THEN buffer[t][i - 1] ELSE w[i - a]
      OBVIOUS
    <3>1. /\ i - 1 \in Index /\ (i - 1 < a <=> i <= a) /\ (i - 1) - a < Len(w)
          /\ ((i - 1) - a) + 1 = i - a
      BY <1>2, <1>3, <1>4 DEF Index
    <3> QED
      BY <1>3, <3>1
  <2>6. \A i \in 1..n : r[i] = FirstChars(b, n)[i]
    <3> SUFFICES ASSUME NEW i \in 1..n PROVE r[i] = FirstChars(b, n)[i]
      OBVIOUS
    <3>1. i <= a => i \in 1..a
      BY <1>2, <1>3
    <3>2. r[i] = IF i <= a THEN buffer[t][i - 1] ELSE w[i - a]
      BY <2>1, <2>3, <3>1
    <3> QED
      BY <2>4, <2>5, <3>2
  <2>7. n \in 0..BUF_SIZE
    BY <1>2, <1>3, <1>4
  <2>8. FirstChars(b, n) \in Seq(Cell) /\ Len(FirstChars(b, n)) = n
    BY <1>3, <2>7, FirstCharsType
  <2>9. r = FirstChars(b, n)
    BY <2>3, <2>6, <2>8, SeqEqual
  <2> QED
    BY <2>9 DEF r, q
<1>9. a \in 0..Len(L)
  BY <1>3, <1>7
<1>10. FirstChars(b, n) \in E!Completed(L)
  <2> DEFINE D == UNION {Words[x] : x \in Forms \X Cell \X Cell}
             s == FirstChars(b, n)
  <2>1. w \in D /\ s = SubSeq(L, 1, a) \o w
    BY <1>4, <1>8
  <2> HIDE DEF D, s
  <2>2. \E k \in 0..Len(L), v \in D : s = SubSeq(L, 1, k) \o v
    BY <1>9, <2>1
  <2>3. s \in {SubSeq(L, 1, k) \o v : k \in 0..Len(L), v \in D}
    BY <2>2
  <2> QED
    BY SMTT(30), <2>3 DEF E!Completed, D, s
<1>11. n \in 0..(BUF_SIZE - 2) /\ Len(FirstChars(b, n)) = n
  BY <1>2, <1>3, <1>4, FirstCharsType
<1> QED
  BY <1>6, <1>10, <1>11, EditStep DEF L

LEMMA RecallEdits ==
  ASSUME PoliteInv, NEW t \in Terms, NEW f \in 0..(HISTORY - 1),
         LineBecomes(t, cmd_history[t][f], strlen(cmd_history[t][f]))
  PROVE  E!Next
<1> DEFINE b == cmd_history[t][f]
           n == strlen(b)
<1>1. b \in Buffer /\ b[BUF_SIZE - 2] = Nul
  <2>1. cmd_history \in [Terms -> [0..(HISTORY - 1) -> Buffer]] /\ HistoryShape(t)
    BY DEF PoliteInv, BufferInv, TypeOK
  <2> QED
    BY <2>1 DEF HistoryShape
<1>2. FirstChars(b, n) \in PastOf[t] \cup {<<>>}
  BY DEF PastOf, TextOf
<1>3. LineBecomes(t, b, n)
  OBVIOUS
<1> HIDE DEF b
<1>4. n \in 0..(BUF_SIZE - 2) /\ Len(FirstChars(b, n)) = n
  <2>1. n \in 0..(BUF_SIZE - 2)
    BY <1>1, StrlenRoom
  <2> QED
    BY <1>1, <2>1, FirstCharsType
<1> QED
  BY <1>2, <1>3, <1>4, EditStep

LEMMA EmptyEdits ==
  ASSUME PoliteInv, NEW t \in Terms, LineBecomes(t, EmptyBuffer, 0)
  PROVE  E!Next
<1>1. FirstChars(EmptyBuffer, 0) = <<>> /\ Len(<<>>) = 0 /\ 0 \in 0..(BUF_SIZE - 2)
  BY FirstCharsZero
<1> QED
  BY <1>1, EditStep

(* Enter                                                                   *)
LEMMA EnterSubmits ==
  ASSUME PoliteInv, NEW t \in Terms, Editing(t), PressEnter(t)
  PROVE  E!Next
<1> DEFINE m == buffer_count[t]
           b == [buffer[t] EXCEPT ![m] = Enter]
<1>1. TypeOK /\ buffer[t] \in Buffer /\ m \in 0..(BUF_SIZE - 2) /\ m \in Index
  BY SMTT(30) DEF PoliteInv, BufferInv, TypeOK, PressEnter, add_to_buffer, Fits, Index
<1>2. /\ buffer'[t] = b /\ buffer_count'[t] = m + 1 /\ key_read'[t] = TRUE
      /\ \A u \in Terms \ {t} : Untouched(u)
      /\ cmd_history' = cmd_history /\ reader' = reader /\ got' = got
  BY <1>1 DEF PressEnter, add_to_buffer, TypeOK, hist, read, Untouched
<1>3. b \in Buffer /\ b[m] = Enter /\ \A i \in 0..(m - 1) : b[i] = buffer[t][i]
  BY <1>1 DEF Buffer, Cell, Index
<1>4. LineOf[t] = FirstChars(buffer[t], m) /\ LineOf'[t] = FirstChars(b, m + 1)
  BY <1>2 DEF LineOf
<1> HIDE DEF b, m
<1>5. FirstChars(b, m + 1) = Append(LineOf[t], Enter)
  <2>1. FirstChars(b, m + 1) = Append(FirstChars(b, m), Enter)
    BY <1>1, <1>3, FirstCharsNext
  <2>2. FirstChars(b, m) = FirstChars(buffer[t], m)
    BY <1>1, <1>3, FirstCharsSame
  <2> QED
    BY <1>4, <2>1, <2>2
<1>6. /\ Phase[t] = "edit" /\ Phase'[t] = "entered"
      /\ PastOf'[t] = PastOf[t] /\ ResultOf'[t] = ResultOf[t]
  BY <1>2 DEF Phase, Editing, PastOf, ResultOf
<1>7. /\ Phase' = [Phase EXCEPT ![t] = "entered"]
      /\ LineOf' = [LineOf EXCEPT ![t] = Append(LineOf[t], Enter)]
      /\ PastOf' = [PastOf EXCEPT ![t] = PastOf[t]]
      /\ ResultOf' = [ResultOf EXCEPT ![t] = ResultOf[t]]
  BY <1>2, <1>4, <1>5, <1>6, StepView
<1>8. PastOf' = PastOf /\ ResultOf' = ResultOf
  BY <1>7 DEF PastOf, ResultOf
<1>9. E!Submit(t)
  BY <1>6, <1>7, <1>8 DEF E!Submit
<1> QED
  BY <1>9 DEF E!Next

(* The lines that can be brought back once b is saved at index i           *)
LEMMA SavedLines ==
  ASSUME NEW t \in Terms, NEW i \in 0..(HISTORY - 1), NEW b,
         cmd_history'[t] = [cmd_history[t] EXCEPT ![i] = b],
         DOMAIN cmd_history[t] = 0..(HISTORY - 1)
  PROVE  \E kept \in SUBSET PastOf[t] : PastOf'[t] = kept \cup ({TextOf(b)} \ {<<>>})
<1> DEFINE H == 0..(HISTORY - 1)
           kept == {TextOf(cmd_history[t][h]) : h \in H \ {i}} \ {<<>>}
<1>1. kept \subseteq PastOf[t]
  BY DEF PastOf
<1>2. /\ cmd_history'[t][i] = b
      /\ \A h \in H \ {i} : cmd_history'[t][h] = cmd_history[t][h]
  OBVIOUS
<1>3. {TextOf(cmd_history'[t][h]) : h \in H}
        = {TextOf(cmd_history[t][h]) : h \in H \ {i}} \cup {TextOf(b)}
  BY <1>2
<1>4. PastOf'[t] = {TextOf(cmd_history'[t][h]) : h \in H} \ {<<>>}
  BY DEF PastOf, TextOf
<1>5. PastOf'[t] = kept \cup ({TextOf(b)} \ {<<>>})
  BY <1>3, <1>4
<1> QED
  BY <1>1, <1>5

(* What LineEdit remembers of a line is what goes to the history.          *)
LEMMA FinishedText ==
  ASSUME PoliteInv, NEW t \in Terms, Ended(t)
  PROVE  /\ TextOf(Finished(t)) = E!Entered(t)
         /\ Finished(t)[0] = Nul => E!Entered(t) = <<>>
<1> DEFINE m == buffer_count[t]
           b == Finished(t)
<1>1. /\ buffer[t] \in Buffer /\ m \in 1..(BUF_SIZE - 1)
      /\ \A i \in 0..(m - 1) : buffer[t][i] # Nul
  BY DEF PoliteInv, BufferInv, TypeOK, BufferShape, Ended
<1>2. /\ b \in Buffer
      /\ \A i \in Index : b[i] = IF i < m - 1 THEN buffer[t][i] ELSE Nul
  BY FinishedClean
<1>3. LineOf[t] = FirstChars(buffer[t], m)
  BY DEF LineOf
<1> HIDE DEF m, b
<1>4. /\ \A i \in 0..((m - 1) - 1) : b[i] = buffer[t][i] /\ b[i] # Nul
      /\ b[m - 1] = Nul
  BY <1>1, <1>2 DEF Index
<1>5. strlen(b) = m - 1
  <2>1. /\ strlen(b) \in 0..BUF_SIZE /\ \A i \in 0..(strlen(b) - 1) : b[i] # Nul
        /\ strlen(b) < BUF_SIZE => b[strlen(b)] = Nul
    BY <1>2, StrlenDef
  <2> QED
    BY <1>1, <1>4, <2>1
<1>6. E!Entered(t) = FirstChars(buffer[t], m - 1)
  <2>1. Len(LineOf[t]) = m
    BY <1>1, <1>3, FirstCharsType
  <2>2. LineOf[t] # <<>>
    BY <1>1, <2>1
  <2>3. SubSeq(LineOf[t], 1, m - 1) = FirstChars(buffer[t], m - 1)
    <3>1. m \in 0..BUF_SIZE /\ m - 1 \in 0..m
      BY <1>1
    <3> QED
      BY <1>1, <1>3, <3>1, FirstCharsPrefix
  <2>4. E!Entered(t) = SubSeq(LineOf[t], 1, Len(LineOf[t]) - 1)
    BY <2>2 DEF E!Entered
  <2> QED
    BY <2>1, <2>3, <2>4
<1>7. FirstChars(b, m - 1) = FirstChars(buffer[t], m - 1)
  BY <1>1, <1>4, FirstCharsSame
<1>8. b[0] = Nul => m - 1 = 0
  BY <1>1, <1>4
<1> QED
  BY <1>5, <1>6, <1>7, <1>8, FirstCharsZero DEF TextOf, b

(* read_term begins                                                        *)
LEMMA ReadPrompts ==
  ASSUME PoliteInv, NEW t \in Terms, ReadStart(t)
  PROVE  E!Next
<1>1. /\ TypeOK /\ PoliteTerm(t) /\ reader[t] = "none"
      /\ cmd_history[t] \in [0..(HISTORY - 1) -> Buffer]
      /\ cmd_history_idx[t] \in 0..(HISTORY - 1)
      /\ buffer_count[t] \in 0..(BUF_SIZE - 1)
  BY DEF PoliteInv, BufferInv, ReadStart, TypeOK
<1>2. /\ buffer'[t] = EmptyBuffer /\ buffer_count'[t] = 0 /\ key_read'[t] = FALSE
      /\ reader'[t] = "wait"
  BY <1>1 DEF ReadStart, SetLine, TypeOK
<1>3. \A u \in Terms \ {t} : cmd_history'[u] = cmd_history[u]
  BY <1>1 DEF ReadStart, SaveCommand, hist, TypeOK
<1>4. \A u \in Terms \ {t} : Untouched(u)
  BY <1>1, <1>3 DEF ReadStart, SetLine, TypeOK, Untouched
<1>5. /\ Phase[t] = "idle" /\ Phase'[t] = "edit" /\ LineOf'[t] = <<>> /\ ResultOf'[t] = <<>>
  BY <1>1, <1>2, FirstCharsZero DEF Phase, Editing, LineOf, ResultOf
<1>6. \E kept \in SUBSET PastOf[t] : PastOf'[t] = kept \cup ({E!Entered(t)} \ {<<>>})
  <2>1. CASE buffer_count[t] # 0 /\ Finished(t)[0] # Nul
    <3>1. TextOf(Finished(t)) = E!Entered(t)
      BY <1>1, <2>1, FinishedText DEF PoliteTerm
    <3>2. cmd_history' = [cmd_history EXCEPT ![t][cmd_history_idx[t]] = Finished(t)]
      BY <2>1 DEF ReadStart, SaveCommand
    <3>3. cmd_history'[t] = [cmd_history[t] EXCEPT ![cmd_history_idx[t]] = Finished(t)]
      BY <1>1, <3>2 DEF TypeOK
    <3> QED
      BY <1>1, <3>1, <3>3, SavedLines
  <2>2. CASE ~ (buffer_count[t] # 0 /\ Finished(t)[0] # Nul)
    <3>1. cmd_history' = cmd_history
      BY <2>2 DEF ReadStart, SaveCommand, hist
    <3>2. PastOf'[t] = PastOf[t]
      BY <3>1 DEF PastOf
    <3>3. E!Entered(t) = <<>>
      <4>1. CASE buffer_count[t] = 0
        <5>1. LineOf[t] = <<>>
          BY <4>1, FirstCharsZero DEF LineOf
        <5> QED
          BY <5>1 DEF E!Entered
      <4>2. CASE buffer_count[t] # 0
        BY <1>1, <2>2, <4>2, FinishedText DEF PoliteTerm
      <4> QED
        BY <4>1, <4>2
    <3> QED
      BY <3>2, <3>3
  <2> QED
    BY <2>1, <2>2
<1>7. /\ Phase' = [Phase EXCEPT ![t] = "edit"]
      /\ LineOf' = [LineOf EXCEPT ![t] = <<>>]
      /\ PastOf' = [PastOf EXCEPT ![t] = PastOf'[t]]
      /\ ResultOf' = [ResultOf EXCEPT ![t] = <<>>]
  BY <1>4, <1>5, StepView
<1>8. E!Prompt(t)
  <2>1. PICK kept \in SUBSET PastOf[t] : PastOf'[t] = kept \cup ({E!Entered(t)} \ {<<>>})
    BY <1>6
  <2>2. PastOf' = [PastOf EXCEPT ![t] = kept \cup ({E!Entered(t)} \ {<<>>})]
    BY <1>7, <2>1
  <2> QED
    BY <1>5, <1>7, <2>2 DEF E!Prompt
<1> QED
  BY <1>8 DEF E!Next

(* ReadPoll and ReadCopy show nothing, ReadReturn delivers the line.       *)
LEMMA ReadDelivers ==
  ASSUME PoliteInv, NEW t \in Terms, ReadStep(t)
  PROVE  E!Next \/ UNCHANGED E!lines
<1>1. /\ TypeOK /\ PoliteTerm(t)
      /\ buffer' = buffer /\ buffer_count' = buffer_count /\ key_read' = key_read
      /\ cmd_history' = cmd_history
  BY DEF PoliteInv, BufferInv, ReadStep, ReadPoll, ReadCopy, ReadReturn, line, hist
<1>2. \A u \in Terms \ {t} : Untouched(u)
  BY <1>1 DEF ReadStep, ReadPoll, ReadCopy, ReadReturn, TypeOK, Untouched
<1>3. LineOf'[t] = LineOf[t] /\ PastOf'[t] = PastOf[t]
  BY <1>1 DEF LineOf, PastOf
<1>4. CASE ReadPoll(t) \/ ReadCopy(t)
  <2>1. key_read[t] /\ reader[t] # "none" /\ reader'[t] # "none"
    BY <1>1, <1>4 DEF ReadPoll, ReadCopy, TypeOK, PoliteTerm
  <2>2. Phase'[t] = Phase[t] /\ ResultOf'[t] = ResultOf[t]
    BY <1>1, <2>1 DEF Phase, Editing, ResultOf
  <2>3. /\ Phase' = [Phase EXCEPT ![t] = Phase[t]]
        /\ LineOf' = [LineOf EXCEPT ![t] = LineOf[t]]
        /\ PastOf' = [PastOf EXCEPT ![t] = PastOf[t]]
        /\ ResultOf' = [ResultOf EXCEPT ![t] = ResultOf[t]]
    BY <1>2, <1>3, <2>2, StepView
  <2> QED
    BY ZenonT(60), <2>3 DEF E!lines, Phase, LineOf, PastOf, ResultOf
<1>5. CASE ReadReturn(t)
  <2>1. /\ reader[t] = "copy" /\ reader'[t] = "none" /\ ~More(t) /\ got'[t] = got[t]
        /\ buffer_count[t] \in Nat
    BY <1>1, <1>5 DEF ReadReturn, TypeOK
  <2>2. Len(got[t]) = buffer_count[t]
    BY <1>1, <2>1, CopiedAll DEF PoliteTerm, Index
  <2>3. got[t] = LineOf[t] /\ key_read[t]
    BY <1>1, <2>1, <2>2 DEF PoliteTerm, LineOf
  <2>4. Phase[t] = "entered" /\ Phase'[t] = "idle" /\ ResultOf'[t] = LineOf[t]
    BY <2>1, <2>3 DEF Phase, Editing, ResultOf
  <2>5. /\ Phase' = [Phase EXCEPT ![t] = "idle"]
        /\ LineOf' = [LineOf EXCEPT ![t] = LineOf[t]]
        /\ PastOf' = [PastOf EXCEPT ![t] = PastOf[t]]
        /\ ResultOf' = [ResultOf EXCEPT ![t] = LineOf[t]]
    BY <1>2, <1>3, <2>4, StepView
  <2>6. LineOf' = LineOf /\ PastOf' = PastOf
    BY <2>5 DEF LineOf, PastOf
  <2>7. E!Deliver(t)
    BY <2>4, <2>5, <2>6 DEF E!Deliver
  <2> QED
    BY <2>7 DEF E!Next
<1> QED
  BY <1>4, <1>5 DEF ReadStep

LEMMA KeyEditsLine ==
  ASSUME PoliteInv, ~TypeAhead, NEW t \in Terms, Key(t)
  PROVE  E!Next \/ UNCHANGED E!lines
<1>1. Editing(t)
  BY KeyEdits
<1>2. ASSUME NEW c \in Text, add_to_buffer(t, c), UNCHANGED <<key_read, hist, read>>
      PROVE  E!Next
  <2>1. UNCHANGED <<key_read, cmd_history, read>>
    BY <1>2 DEF hist
  <2> QED
    BY <1>1, <1>2, <2>1, TypeEdits
<1>3. UNCHANGED <<line, key_read, cmd_history, read>> => UNCHANGED E!lines
  BY SameView DEF Untouched, line, read
<1>4. ASSUME NEW c \in Chars, TypeChar(t, c)
      PROVE  E!Next
  BY <1>2, <1>4 DEF TypeChar, Text
<1>5. CASE TypeTab(t)
  BY <1>2, <1>5 DEF TypeTab, Text
<1>6. CASE PressEnter(t)
  BY <1>1, <1>6, EnterSubmits
<1>7. CASE Backspace(t)
  BY <1>1, <1>7, EraseEdits
<1>8. CASE Complete(t)
  BY <1>1, <1>8, CompleteEdits
<1>9. CASE get_prev_cmd(t) \/ get_next_cmd(t)
  BY <1>1, <1>3, <1>9, ArrowPolite, RecallEdits, EmptyEdits
<1>10. CASE clear_term(t)
  BY <1>3, <1>10 DEF clear_term, hist
<1> QED
  BY <1>4, <1>5, <1>6, <1>7, <1>8, <1>9, <1>10 DEF Key

LEMMA InitEmpty == Init => E!Init
<1> SUFFICES ASSUME Init PROVE E!Init
  OBVIOUS
<1>1. strlen(EmptyBuffer) = 0
  <2>1. /\ strlen(EmptyBuffer) \in 0..BUF_SIZE
        /\ \A i \in 0..(strlen(EmptyBuffer) - 1) : EmptyBuffer[i] # Nul
    BY EmptyType, StrlenDef
  <2>2. EmptyBuffer[0] = Nul
    BY DEF EmptyBuffer, Index
  <2> QED
    BY <2>1, <2>2
<1>2. TextOf(EmptyBuffer) = <<>>
  BY <1>1, FirstCharsZero DEF TextOf
<1>3. /\ Phase = [t \in Terms |-> "idle"] /\ LineOf = [t \in Terms |-> <<>>]
      /\ ResultOf = [t \in Terms |-> <<>>]
  BY FirstCharsZero DEF Init, Phase, LineOf, ResultOf
<1>4. PastOf = [t \in Terms |-> {}]
  <2>1. \A t \in Terms : \A h \in 0..(HISTORY - 1) : TextOf(cmd_history[t][h]) = <<>>
    BY <1>2 DEF Init
  <2> QED
    BY <2>1 DEF PastOf
<1> QED
  BY <1>3, <1>4 DEF E!Init

(* As long as nobody types ahead, the line discipline is the editor that   *)
(* LineEdit describes: the program gets the line as it was edited, and the *)
(* history brings back lines that were entered.                            *)
THEOREM LineDiscipline ==
  ASSUME ~TypeAhead
  PROVE  Spec => ImplementsLineEdit
<1>1. Init => E!Init
  BY InitEmpty
<1>2. PoliteInv /\ [Next]_vars => [E!Next]_(E!lines)
  <2> SUFFICES ASSUME PoliteInv, [Next]_vars PROVE E!Next \/ UNCHANGED E!lines
    OBVIOUS
  <2>1. UNCHANGED <<line, key_read, cmd_history, read>> => UNCHANGED E!lines
    BY SameView DEF Untouched, line, read
  <2>2. CASE UNCHANGED vars
    BY <2>1, <2>2 DEF vars, hist
  <2>3. ASSUME NEW t \in Terms, change_term(t) PROVE UNCHANGED E!lines
    BY <2>1, <2>3 DEF change_term, hist
  <2> QED
    BY <2>2, <2>3, KeyEditsLine, ReadPrompts, ReadDelivers DEF Next
<1> QED
  BY <1>1, <1>2, PoliteInductive, PTL DEF Spec, E!Spec, ImplementsLineEdit

-----------------------------------------------------------------------------
(* The screen.  What the cells of the first characters of a buffer are.    *)
LEMMA ColumnsDef ==
  ASSUME NEW b
  PROVE  /\ Columns(b)[0] = <<>>
         /\ \A n \in 0..(BUF_SIZE - 1) : Columns(b)[n + 1] = Columns(b)[n] \o Cells(b[n])
<1> DEFINE D(f, m) == f = [n \in 0..m |-> IF n = 0 THEN <<>> ELSE f[n - 1] \o Cells(b[n - 1])]
           S == {m \in Nat : \E f : D(f, m)}
<1>1. 0 \in S
  <2>1. D([n \in 0..0 |-> <<>>], 0)
    OBVIOUS
  <2> HIDE DEF D
  <2> QED
    BY <2>1
<1>2. ASSUME NEW m \in Nat, m \in S PROVE m + 1 \in S
  <2> HIDE DEF D
  <2>1. PICK f : D(f, m)
    BY <1>2
  <2> DEFINE g == [n \in 0..(m + 1) |-> IF n = m + 1 THEN f[m] \o Cells(b[m]) ELSE f[n]]
  <2>2. \A n \in 0..m : f[n] = IF n = 0 THEN <<>> ELSE f[n - 1] \o Cells(b[n - 1])
    BY <2>1 DEF D
  <2>3. g[m + 1] = f[m] \o Cells(b[m]) /\ \A n \in 0..m : g[n] = f[n]
    OBVIOUS
  <2>4. g = [n \in 0..(m + 1) |-> g[n]]
    OBVIOUS
  <2> HIDE DEF g
  <2>5. ASSUME NEW n \in 0..(m + 1)
        PROVE  g[n] = IF n = 0 THEN <<>> ELSE g[n - 1] \o Cells(b[n - 1])
    <3>1. CASE n = m + 1
      <4>1. n # 0 /\ n - 1 = m /\ m \in 0..m
        BY <3>1
      <4> QED
        BY <2>3, <3>1, <4>1
    <3>2. CASE n # m + 1
      <4>1. n \in 0..m /\ (n # 0 => n - 1 \in 0..m)
        BY <3>2
      <4> QED
        BY <2>2, <2>3, <4>1
    <3> QED
      BY <3>1, <3>2
  <2>6. D(g, m + 1)
    BY <2>4, <2>5 DEF D
  <2> QED
    BY <2>6
<1> HIDE DEF D, S
<1>3. \A n \in 0..BUF_SIZE : n \in S
  BY <1>1, <1>2, InductionTo
<1>4. \E f : D(f, BUF_SIZE)
  BY <1>3 DEF S
<1>5. Columns(b) = CHOOSE f : D(f, BUF_SIZE)
  BY DEF Columns, D
<1>6. D(Columns(b), BUF_SIZE)
  BY <1>4, <1>5
<1> DEFINE c == Columns(b)
<1> HIDE DEF c
<1>7. \A n \in 0..BUF_SIZE : c[n] = IF n = 0 THEN <<>> ELSE c[n - 1] \o Cells(b[n - 1])
  BY <1>6 DEF D, c
<1>8. c[0] = <<>>
  BY <1>7
<1>9. ASSUME NEW n \in 0..(BUF_SIZE - 1) PROVE c[n + 1] = c[n] \o Cells(b[n])
  <2>1. n + 1 \in 0..BUF_SIZE /\ n + 1 # 0 /\ (n + 1) - 1 = n
    OBVIOUS
  <2> QED
    BY <1>7, <2>1
<1> QED
  BY <1>8, <1>9 DEF c

LEMMA ColumnsSame ==
  ASSUME NEW b, NEW d, NEW n \in 0..BUF_SIZE, \A i \in 0..(n - 1) : b[i] = d[i]
  PROVE  Columns(b)[n] = Columns(d)[n]
<1> DEFINE S == {k \in Nat : Columns(b)[k] = Columns(d)[k]}
<1>1. 0 \in S
  BY ColumnsDef
<1>2. ASSUME NEW k \in 0..(n - 1), k \in S PROVE k + 1 \in S
  <2>1. k \in 0..(BUF_SIZE - 1) /\ k + 1 \in Nat
    OBVIOUS
  <2>2. Columns(b)[k] = Columns(d)[k] /\ Cells(b[k]) = Cells(d[k])
    BY <1>2
  <2>3. /\ Columns(b)[k + 1] = Columns(b)[k] \o Cells(b[k])
        /\ Columns(d)[k + 1] = Columns(d)[k] \o Cells(d[k])
    BY <2>1, ColumnsDef
  <2>4. Columns(b)[k + 1] = Columns(d)[k + 1]
    BY <2>2, <2>3
  <2> QED
    BY <2>1, <2>4
<1> HIDE DEF S
<1>3. n \in S
  BY <1>1, <1>2, InductionTo
<1> QED
  BY <1>3 DEF S

LEMMA CellsType ==
  ASSUME NEW c \in Cell
  PROVE  Cells(c) \in Seq(Cell) /\ Len(Cells(c)) = IF c = Tab THEN TabStop ELSE 1
BY TabCellsType DEF Cells, TabCells, TabStop

LEMMA ColumnsType ==
  ASSUME NEW b \in Buffer
  PROVE  \A n \in 0..BUF_SIZE : Columns(b)[n] \in Seq(Cell)
<1> DEFINE S == {k \in Nat : Columns(b)[k] \in Seq(Cell)}
<1>1. 0 \in S
  <2>1. <<>> \in Seq(Cell)
    OBVIOUS
  <2> QED
    BY <2>1, ColumnsDef
<1>2. ASSUME NEW k \in 0..(BUF_SIZE - 1), k \in S PROVE k + 1 \in S
  <2>1. Columns(b)[k] \in Seq(Cell) /\ Cells(b[k]) \in Seq(Cell)
    BY <1>2, CellsType DEF Buffer, Index
  <2>2. Columns(b)[k + 1] \in Seq(Cell)
    BY <2>1, ColumnsDef, ConcatType
  <2> QED
    BY <2>2
<1> HIDE DEF S
<1>3. \A n \in 0..BUF_SIZE : n \in S
  BY <1>1, <1>2, InductionTo
<1> QED
  BY <1>3 DEF S

LEMMA AppendConcat ==
  ASSUME NEW s \in Seq(Cell), NEW c \in Cell
  PROVE  Append(s, c) = s \o <<c>>
OBVIOUS

(* A line without a Tab takes one cell per character.                      *)
LEMMA ColumnsNoTab ==
  ASSUME NEW b \in Buffer, NEW n \in 0..BUF_SIZE, \A i \in 0..(n - 1) : b[i] # Tab
  PROVE  Columns(b)[n] = FirstChars(b, n)
<1> DEFINE S == {k \in Nat : Columns(b)[k] = FirstChars(b, k)}
<1>1. 0 \in S
  BY ColumnsDef, FirstCharsZero
<1>2. ASSUME NEW k \in 0..(n - 1), k \in S PROVE k + 1 \in S
  <2>1. k \in 0..(BUF_SIZE - 1) /\ k \in Index /\ k + 1 \in Nat /\ k \in 0..BUF_SIZE
    BY DEF Index
  <2>2. Columns(b)[k + 1] = FirstChars(b, k) \o <<b[k]>>
    BY <1>2, <2>1, ColumnsDef DEF Cells
  <2>3. FirstChars(b, k + 1) = Append(FirstChars(b, k), b[k])
    BY <2>1, FirstCharsNext
  <2>4. FirstChars(b, k) \in Seq(Cell) /\ b[k] \in Cell
    BY <2>1, FirstCharsType DEF Buffer
  <2>5. Columns(b)[k + 1] = FirstChars(b, k + 1)
    BY <2>2, <2>3, <2>4, AppendConcat
  <2> QED
    BY <2>1, <2>5
<1> HIDE DEF S
<1>3. n \in S
  BY <1>1, <1>2, InductionTo
<1> QED
  BY <1>3 DEF S

(* Erasing cells                                                           *)
LEMMA EraseLast ==
  ASSUME NEW s \in Seq(Cell), NEW w \in Seq(Cell)
  PROVE  Erase(s \o w, Len(w)) = s
<1> DEFINE r == s \o w
<1>1. r \in Seq(Cell) /\ Len(r) = Len(s) + Len(w) /\ \A i \in 1..Len(s) : r[i] = s[i]
  BY ConcatProperties
<1> HIDE DEF r
<1>2. Erase(r, Len(w)) = SubSeq(r, 1, Len(s))
  BY <1>1 DEF Erase
<1>3. SubSeq(r, 1, Len(s)) = s
  <2> DEFINE q == SubSeq(r, 1, Len(s))
  <2>1. q \in Seq(Cell) /\ Len(q) = Len(s) /\ \A i \in 1..Len(s) : q[i] = s[i]
    BY <1>1
  <2> HIDE DEF q
  <2>2. q = s
    BY <2>1, SeqEqual
  <2> QED
    BY <2>2 DEF q
<1> QED
  BY <1>2, <1>3 DEF r

LEMMA EraseTo ==
  ASSUME NEW b \in Buffer, NEW m \in 0..BUF_SIZE, NEW n \in 0..m
  PROVE  Erase(FirstChars(b, m), m - n) = FirstChars(b, n)
<1>1. Len(FirstChars(b, m)) = m
  BY FirstCharsType
<1>2. Erase(FirstChars(b, m), m - n) = SubSeq(FirstChars(b, m), 1, n)
  BY <1>1 DEF Erase
<1> QED
  BY <1>2, FirstCharsPrefix

(* What ScreenTerm(u) looks at stays as it is.                             *)
LEMMA UntouchedScreen ==
  ASSUME NEW u \in Terms, ScreenTerm(u), Untouched(u),
         echo'[u] = echo[u], tracked'[u] = tracked[u]
  PROVE  ScreenTerm(u)'
BY DEF ScreenTerm, Untouched, Editing, HasTab

(* A key that makes b, of length n, the line and shows e.                  *)
LEMMA LineShown ==
  ASSUME ScreenInv, NEW t \in Terms, NEW b, NEW n \in Nat, LineBecomes(t, b, n),
         NEW e, NEW ok \in BOOLEAN, Show(t, e, ok),
         tracked[t] /\ ok => /\ e = Columns(b)[n]
                             /\ b[0] \in Completes => \A i \in 0..(n - 1) : b[i] # Tab
  PROVE  \A u \in Terms : ScreenTerm(u)'
<1>1. TypeOK /\ \A u \in Terms : ScreenTerm(u)
  BY DEF ScreenInv, PoliteInv, BufferInv
<1>2. /\ buffer'[t] = b /\ buffer_count'[t] = n
      /\ \A u \in Terms \ {t} : Untouched(u)
      /\ key_read' = key_read /\ reader' = reader
  BY <1>1 DEF LineBecomes, SetLine, TypeOK, read, Untouched
<1>3. /\ tracked'[t] => tracked[t] /\ ok /\ echo'[t] = e
      /\ \A u \in Terms \ {t} : echo'[u] = echo[u] /\ tracked'[u] = tracked[u]
  BY <1>1 DEF Show, TypeOK
<1>4. ScreenTerm(t)'
  BY <1>2, <1>3 DEF ScreenTerm, HasTab
<1>5. \A u \in Terms \ {t} : ScreenTerm(u)'
  BY <1>1, <1>2, <1>3, UntouchedScreen
<1> QED
  BY <1>4, <1>5

(* A character or a Tab is printed as it is typed.                         *)
LEMMA TypeShown ==
  ASSUME ScreenInv, NEW t \in Terms, Editing(t), NEW c \in Text, add_to_buffer(t, c),
         buffer[t][0] \in Completes => c # Tab,
         Show(t, echo[t] \o Cells(c), TRUE),
         UNCHANGED <<key_read, cmd_history, read>>
  PROVE  \A u \in Terms : ScreenTerm(u)'
<1> DEFINE m == buffer_count[t]
           b == [buffer[t] EXCEPT ![m] = c]
<1>1. /\ buffer[t] \in Buffer /\ m \in 0..(BUF_SIZE - 3) /\ m \in Index
      /\ ScreenTerm(t)
  BY DEF ScreenInv, PoliteInv, BufferInv, TypeOK, add_to_buffer, Fits, Index, Text
<1>2. LineBecomes(t, b, m + 1)
  BY TypePolite DEF ScreenInv
<1>3. b[m] = c /\ \A i \in 0..(m - 1) : b[i] = buffer[t][i]
  BY <1>1 DEF Buffer, Index
<1>4. tracked[t] => echo[t] = Columns(buffer[t])[m]
  BY <1>1 DEF ScreenTerm
<1>5. tracked[t] /\ buffer[t][0] \in Completes => \A i \in 0..(m - 1) : buffer[t][i] # Tab
  BY <1>1 DEF ScreenTerm, HasTab
<1> HIDE DEF b, m
<1>6. Columns(b)[m + 1] = Columns(buffer[t])[m] \o Cells(c)
  <2>1. m \in 0..(BUF_SIZE - 1) /\ m \in 0..BUF_SIZE
    BY <1>1
  <2>2. Columns(b)[m] = Columns(buffer[t])[m]
    BY <1>3, <2>1, ColumnsSame
  <2>3. Columns(b)[m + 1] = Columns(b)[m] \o Cells(b[m])
    BY <2>1, ColumnsDef
  <2> QED
    BY <1>3, <2>2, <2>3
<1>7. tracked[t] /\ b[0] \in Completes => \A i \in 0..((m + 1) - 1) : b[i] # Tab
  <2>1. \A i \in 0..((m + 1) - 1) : i = m \/ i \in 0..(m - 1)
    BY <1>1
  <2>2. CASE m = 0
    <3>1. b[0] = c /\ (c \in Completes => c # Tab)
      BY <1>3, <2>2, WordAssumption
    <3> QED
      BY <2>1, <2>2, <3>1
  <2>3. CASE m # 0
    <3>1. b[0] = buffer[t][0]
      BY <1>1, <1>3, <2>3
    <3> QED
      BY <1>3, <1>5, <2>1, <3>1
  <2> QED
    BY <2>2, <2>3
<1>8. m + 1 \in Nat
  BY <1>1
<1> QED
  BY <1>2, <1>4, <1>6, <1>7, <1>8, LineShown

LEMMA EraseShown ==
  ASSUME ScreenInv, NEW t \in Terms, Editing(t), Backspace(t)
  PROVE  \A u \in Terms : ScreenTerm(u)'
<1> DEFINE n == buffer_count[t] - 1
           b == [buffer[t] EXCEPT ![n] = Nul]
           k == IF buffer[t][n] = Tab THEN TabStop ELSE 1
<1>1. buffer[t] \in Buffer /\ n \in 0..(BUF_SIZE - 2) /\ buffer_count[t] = n + 1 /\ ScreenTerm(t)
  BY DEF ScreenInv, PoliteInv, BufferInv, TypeOK, Backspace
<1>2. LineBecomes(t, b, n) /\ Show(t, Erase(echo[t], k), TRUE)
  BY ErasePolite DEF ScreenInv, Backspace
<1>3. /\ \A i \in 0..(n - 1) : b[i] = buffer[t][i]
      /\ b[0] \in Completes => n > 0
  BY <1>1, WordAssumption DEF Buffer, Index, Text
<1>4. tracked[t] => echo[t] = Columns(buffer[t])[n + 1]
  BY <1>1 DEF ScreenTerm
<1>5. tracked[t] /\ buffer[t][0] \in Completes => \A i \in 0..n : buffer[t][i] # Tab
  BY <1>1 DEF ScreenTerm, HasTab
<1>6. buffer[t][n] \in Cell
  BY <1>1 DEF Buffer, Index
<1>7. n \in Nat /\ n \in 0..BUF_SIZE /\ n \in 0..(BUF_SIZE - 1)
  BY <1>1
<1> HIDE DEF b, n
<1>8. Columns(b)[n] = Columns(buffer[t])[n]
  BY <1>3, <1>7, ColumnsSame
<1> DEFINE s == Columns(buffer[t])[n]
           w == Cells(buffer[t][n])
<1>9. Columns(buffer[t])[n + 1] = s \o w
  BY <1>7, ColumnsDef
<1>10. s \in Seq(Cell) /\ w \in Seq(Cell) /\ Len(w) = k
  BY <1>1, <1>6, <1>7, ColumnsType, CellsType
<1> HIDE DEF s, w, k
<1>11. tracked[t] => Erase(echo[t], k) = s
  BY <1>4, <1>9, <1>10, EraseLast
<1>12. tracked[t] /\ b[0] \in Completes => \A i \in 0..(n - 1) : b[i] # Tab
  <2>1. \A i \in 0..(n - 1) : i \in 0..n
    BY <1>7
  <2>2. b[0] \in Completes => 0 \in 0..(n - 1)
    BY <1>3, <1>7
  <2> QED
    BY <1>3, <1>5, <2>1, <2>2
<1>13. tracked[t] => Erase(echo[t], k) = Columns(b)[n]
  BY <1>8, <1>11 DEF s
<1> QED
  BY <1>2, <1>7, <1>12, <1>13, LineShown

(* Completion erases the word, or the argument and the space before it,    *)
(* and prints the new one.                                                 *)
LEMMA CompleteShown ==
  ASSUME ScreenInv, NEW t \in Terms, Editing(t), Complete(t)
  PROVE  \A u \in Terms : ScreenTerm(u)'
<1>1. PICK w \in WordsFor(buffer[t]) :
        LET b == Overwrite(buffer[t], WordAt(buffer[t]), w) IN
        /\ LineBecomes(t, b, strlen(b))
        /\ Show(t, CompletedEcho(echo[t], buffer_count[t], WordAt(buffer[t]), w), TRUE)
  BY CompletePolite DEF ScreenInv
<1> DEFINE a == WordAt(buffer[t])
           b == Overwrite(buffer[t], a, w)
           m == buffer_count[t]
           n == a + Len(w)
           e == CompletedEcho(echo[t], m, a, w)
<1>2. /\ buffer[t] \in Buffer /\ m \in 0..(BUF_SIZE - 1) /\ buffer[t][0] \in Completes
      /\ ScreenTerm(t) /\ PoliteInv
  BY DEF ScreenInv, PoliteInv, BufferInv, TypeOK, Complete
<1>3. /\ w \in Seq(Chars) /\ a \in 0..m /\ a + Len(w) <= BUF_SIZE - 2
      /\ b \in Buffer /\ strlen(b) = n
      /\ \A i \in Index : b[i] = IF i < a THEN buffer[t][i]
                                 ELSE IF i - a < Len(w) THEN w[i - a + 1] ELSE Nul
  BY <1>2, OverwriteEffect
<1>4. a > 0 => buffer[t][a - 1] = Space
  BY <1>2, WordAtType
<1>5. Len(w) \in Nat /\ w \in Seq(Cell) /\ \A i \in 1..Len(w) : w[i] \in Chars
  BY <1>3 DEF Cell, Text
<1>6. LineBecomes(t, b, n) /\ Show(t, e, TRUE)
  BY <1>1, <1>3
<1> HIDE DEF a, b, m
<1>7. n \in Nat /\ n \in 0..BUF_SIZE /\ m \in 0..BUF_SIZE /\ a \in Nat
  BY <1>2, <1>3, <1>5
<1>8. ASSUME tracked[t] PROVE e = Columns(b)[n] /\ \A i \in 0..(n - 1) : b[i] # Tab
  <2>1. \A i \in 0..(m - 1) : buffer[t][i] # Tab
    BY <1>2, <1>8 DEF ScreenTerm, HasTab, m
  <2>2. echo[t] = FirstChars(buffer[t], m)
    BY <1>2, <1>7, <1>8, <2>1, ColumnsNoTab DEF ScreenTerm, m
  <2>3. ASSUME NEW i \in 0..(n - 1) PROVE b[i] # Tab
    <3>1. i \in Index /\ (i < a => i \in 0..(m - 1)) /\ (i >= a => i - a + 1 \in 1..Len(w))
          /\ (i - a < Len(w)) /\ (i < a \/ i >= a)
      BY <1>2, <1>3, <1>5 DEF Index
    <3> QED
      BY <1>3, <1>5, <2>1, <3>1
  <2>4. Columns(b)[n] = FirstChars(b, n)
    BY <1>3, <1>7, <2>3, ColumnsNoTab
  <2>5. FirstChars(b, n) = FirstChars(buffer[t], a) \o w
    <3> DEFINE q == FirstChars(buffer[t], a)
               r == q \o w
    <3>1. a \in 0..BUF_SIZE
      BY <1>2, <1>3
    <3>2. q \in Seq(Cell) /\ Len(q) = a /\ \A i \in 1..a : q[i] = buffer[t][i - 1]
      BY <1>2, <3>1, FirstCharsType DEF FirstChars
    <3> HIDE DEF q
    <3>3. /\ r \in Seq(Cell) /\ Len(r) = n
          /\ \A i \in 1..n : r[i] = IF i <= a THEN q[i] ELSE w[i - a]
      <4>1. w \in Seq(Cell) /\ q \in Seq(Cell)
        BY <1>5, <3>2
      <4>2. /\ r \in Seq(Cell) /\ Len(r) = Len(q) + Len(w)
            /\ \A i \in 1..(Len(q) + Len(w)) :
                 r[i] = IF i <= Len(q) THEN q[i] ELSE w[i - Len(q)]
        BY <4>1, ConcatProperties
      <4> QED
        BY <3>2, <4>2
    <3>4. FirstChars(b, n) \in Seq(Cell) /\ Len(FirstChars(b, n)) = n
      BY <1>3, <1>7, FirstCharsType
    <3>5. \A i \in 1..n : FirstChars(b, n)[i] = b[i - 1]
      BY DEF FirstChars
    <3> HIDE DEF r
    <3>6. ASSUME NEW i \in 1..n PROVE r[i] = FirstChars(b, n)[i]
      <4>1. /\ i - 1 \in Index /\ (i - 1 < a <=> i <= a) /\ (i - 1) - a < Len(w)
            /\ ((i - 1) - a) + 1 = i - a /\ (i <= a => i \in 1..a)
        BY <1>2, <1>3, <1>5 DEF Index
      <4> QED
        BY ZenonT(60), <1>3, <3>2, <3>3, <3>5, <4>1
    <3>7. r = FirstChars(b, n)
      BY <3>3, <3>4, <3>6, SeqEqual
    <3> QED
      BY <3>7 DEF r, q
  <2>6. e = FirstChars(buffer[t], a) \o w
    <3>1. CASE a = 0
      <4>1. Erase(FirstChars(buffer[t], m), m - 0) = FirstChars(buffer[t], 0)
        BY <1>2, <1>7, EraseTo
      <4> QED
        BY <1>7, <2>2, <3>1, <4>1 DEF CompletedEcho
    <3>2. CASE a # 0
      <4>1. a - 1 \in 0..m /\ a - 1 \in Index /\ m - (a - 1) = m - a + 1 /\ (a - 1) + 1 = a
        BY <1>2, <1>3, <3>2 DEF Index
      <4>2. Erase(FirstChars(buffer[t], m), m - (a - 1)) = FirstChars(buffer[t], a - 1)
        BY <1>2, <1>7, <4>1, EraseTo
      <4>3. FirstChars(buffer[t], (a - 1) + 1) = Append(FirstChars(buffer[t], a - 1), Space)
        BY <1>2, <1>4, <1>7, <3>2, <4>1, FirstCharsNext
      <4>4. FirstChars(buffer[t], a - 1) \in Seq(Cell) /\ Space \in Cell
        <5>1. a - 1 \in 0..BUF_SIZE
          BY <1>7, <4>1
        <5> QED
          BY <1>2, <5>1, FirstCharsType DEF Cell, Text
      <4>5. FirstChars(buffer[t], a) = FirstChars(buffer[t], a - 1) \o <<Space>>
        BY <4>1, <4>3, <4>4, AppendConcat
      <4>6. e = Erase(echo[t], m - a + 1) \o <<Space>> \o w
        BY <3>2 DEF CompletedEcho
      <4> QED
        BY <2>2, <4>1, <4>2, <4>5, <4>6
    <3> QED
      BY <3>1, <3>2
  <2> QED
    BY <2>3, <2>4, <2>5, <2>6
<1> HIDE DEF e, n
<1> QED
  BY <1>6, <1>7, <1>8, LineShown

(* Up and Down erase the line, if it has no Tab, and print another one.    *)
LEMMA ErasedLine ==
  ASSUME ScreenInv, NEW t \in Terms, Editing(t), tracked[t], ~HasTab(t, buffer_count[t])
  PROVE  Erase(echo[t], buffer_count[t]) = <<>>
<1> DEFINE m == buffer_count[t]
<1>1. buffer[t] \in Buffer /\ m \in 0..BUF_SIZE /\ ScreenTerm(t)
  BY DEF ScreenInv, PoliteInv, BufferInv, TypeOK
<1>2. echo[t] = Columns(buffer[t])[m] /\ \A i \in 0..(m - 1) : buffer[t][i] # Tab
  BY <1>1 DEF ScreenTerm, HasTab
<1> HIDE DEF m
<1>3. echo[t] = FirstChars(buffer[t], m)
  BY <1>1, <1>2, ColumnsNoTab
<1>4. Erase(FirstChars(buffer[t], m), m - 0) = FirstChars(buffer[t], 0)
  BY <1>1, EraseTo
<1> QED
  BY <1>1, <1>3, <1>4, FirstCharsZero DEF m

LEMMA RecallShown ==
  ASSUME ScreenInv, NEW t \in Terms, Editing(t), NEW f \in 0..(HISTORY - 1), Recall(t, f),
         UNCHANGED <<key_read, cmd_history, read>>
  PROVE  \A u \in Terms : ScreenTerm(u)'
<1> DEFINE b == cmd_history[t][f]
           n == strlen(b)
           ok == ~HasTab(t, buffer_count[t]) /\ \A i \in 0..(n - 1) : b[i] # Tab
           e == Erase(echo[t], buffer_count[t]) \o FirstChars(b, n)
<1>1. b \in Buffer
  BY DEF ScreenInv, PoliteInv, BufferInv, TypeOK
<1>2. LineBecomes(t, b, n) /\ Show(t, e, ok) /\ ok \in BOOLEAN
  BY RecallPolite DEF ScreenInv, Recall
<1>3. (tracked[t] /\ ok) => ~HasTab(t, buffer_count[t]) /\ \A i \in 0..(n - 1) : b[i] # Tab
  OBVIOUS
<1>4. tracked[t] /\ ~HasTab(t, buffer_count[t]) => e = <<>> \o FirstChars(b, n)
  BY ErasedLine
<1> HIDE DEF b, ok, e
<1>5. n \in Nat /\ n \in 0..BUF_SIZE
  BY <1>1, StrlenDef
<1> HIDE DEF n
<1>6. FirstChars(b, n) \in Seq(Cell)
  BY <1>1, <1>5, FirstCharsType
<1>7. <<>> \o FirstChars(b, n) = FirstChars(b, n)
  BY <1>6
<1>8. tracked[t] /\ ok => e = Columns(b)[n] /\ \A i \in 0..(n - 1) : b[i] # Tab
  BY <1>1, <1>3, <1>4, <1>5, <1>7, ColumnsNoTab
<1> QED
  BY <1>2, <1>5, <1>8, LineShown

LEMMA QuietScreen ==
  ASSUME ScreenInv, UNCHANGED <<line, key_read, cmd_history, read, seen>>
  PROVE  \A u \in Terms : ScreenTerm(u)'
BY UntouchedScreen DEF Untouched, ScreenInv, line, read, seen

LEMMA ArrowShown ==
  ASSUME ScreenInv, NEW t \in Terms, Editing(t), get_prev_cmd(t) \/ get_next_cmd(t)
  PROVE  \A u \in Terms : ScreenTerm(u)'
<1>1. UNCHANGED <<key_read, cmd_history, read>>
  BY DEF get_prev_cmd, get_next_cmd
<1>2. find_his_counter[t] \in 0..(HISTORY - 1)
  BY DEF ScreenInv, PoliteInv, BufferInv, TypeOK
<1>3. UNCHANGED <<line, seen>> => \A u \in Terms : ScreenTerm(u)'
  BY <1>1, QuietScreen
<1>4. CASE get_prev_cmd(t)
  <2> DEFINE f == IF find_his_counter[t] = 0 THEN 0 ELSE find_his_counter[t] - 1
  <2>1. f \in 0..(HISTORY - 1)
    BY <1>2
  <2>2. UNCHANGED <<line, seen>> \/ Recall(t, f)
    BY <1>4 DEF get_prev_cmd
  <2> HIDE DEF f
  <2> QED
    BY <1>1, <1>3, <2>1, <2>2, RecallShown
<1>5. CASE get_next_cmd(t)
  <2> DEFINE f == (find_his_counter[t] + 1) % HISTORY
             e == Erase(echo[t], buffer_count[t])
             ok == ~HasTab(t, buffer_count[t])
  <2>1. f \in 0..(HISTORY - 1)
    BY <1>2
  <2>2. \/ UNCHANGED <<line, seen>>
        \/ Recall(t, f)
        \/ SetLine(t, EmptyBuffer, 0) /\ Show(t, e, ok)
    BY <1>5 DEF get_next_cmd
  <2> HIDE DEF f
  <2>3. ASSUME SetLine(t, EmptyBuffer, 0), Show(t, e, ok) PROVE \A u \in Terms : ScreenTerm(u)'
    <3>1. LineBecomes(t, EmptyBuffer, 0)
      BY <1>1, <2>3 DEF LineBecomes, EmptyBuffer
    <3>2. tracked[t] /\ ok => e = Columns(EmptyBuffer)[0]
      BY ErasedLine, ColumnsDef
    <3>3. \A i \in 0..(0 - 1) : EmptyBuffer[i] # Tab
      OBVIOUS
    <3>4. ok \in BOOLEAN /\ 0 \in Nat
      OBVIOUS
    <3> HIDE DEF e, ok
    <3> QED
      BY <2>3, <3>1, <3>2, <3>3, <3>4, LineShown
  <2> QED
    BY <1>1, <1>3, <2>1, <2>2, <2>3, RecallShown
<1> QED
  BY <1>4, <1>5

LEMMA KeyShown ==
  ASSUME ScreenInv, ~TypeAhead, NEW t \in Terms, Key(t)
  PROVE  \A u \in Terms : ScreenTerm(u)'
<1>1. Editing(t) /\ TypeOK /\ \A u \in Terms : ScreenTerm(u)
  BY KeyEdits DEF ScreenInv, PoliteInv, BufferInv
<1>2. ASSUME NEW c \in Chars, TypeChar(t, c)
      PROVE  \A u \in Terms : ScreenTerm(u)'
  <2>1. c \in Text /\ c # Tab /\ c \in Cell /\ echo[t] \in Seq(Cell)
    BY <1>1 DEF Text, Cell, TypeOK
  <2>2. Append(echo[t], c) = echo[t] \o Cells(c)
    BY <2>1, AppendConcat DEF Cells
  <2>3. /\ add_to_buffer(t, c) /\ Show(t, Append(echo[t], c), TRUE)
        /\ UNCHANGED <<key_read, cmd_history, read>>
    BY <1>2 DEF TypeChar, hist
  <2> QED
    BY <1>1, <2>1, <2>2, <2>3, TypeShown
<1>3. CASE TypeTab(t)
  <2>1. /\ Tab \in Text /\ add_to_buffer(t, Tab) /\ Show(t, echo[t] \o Cells(Tab), TRUE)
        /\ buffer[t][0] \notin Completes /\ UNCHANGED <<key_read, cmd_history, read>>
    BY <1>3 DEF TypeTab, Cells, Text, hist
  <2> QED
    BY <1>1, <2>1, TypeShown
<1>4. CASE PressEnter(t)
  <2>1. /\ key_read'[t] = TRUE /\ reader' = reader
        /\ \A u \in Terms \ {t} : /\ Untouched(u) /\ echo'[u] = echo[u]
                                  /\ tracked'[u] = tracked[u]
    BY <1>1, <1>4 DEF PressEnter, add_to_buffer, Show, TypeOK, Untouched, hist, read
  <2>2. ScreenTerm(t)'
    BY <2>1 DEF ScreenTerm, Editing
  <2>3. \A u \in Terms \ {t} : ScreenTerm(u)'
    BY <1>1, <2>1, UntouchedScreen
  <2> QED
    BY <2>2, <2>3
<1>5. CASE clear_term(t)
  <2>1. /\ tracked'[t] = FALSE
        /\ \A u \in Terms \ {t} : /\ Untouched(u) /\ echo'[u] = echo[u]
                                  /\ tracked'[u] = tracked[u]
    BY <1>1, <1>5 DEF clear_term, Show, TypeOK, Untouched, line, hist, read
  <2>2. ScreenTerm(t)'
    BY <2>1 DEF ScreenTerm
  <2>3. \A u \in Terms \ {t} : ScreenTerm(u)'
    BY <1>1, <2>1, UntouchedScreen
  <2> QED
    BY <2>2, <2>3
<1> QED
  BY <1>1, <1>2, <1>3, <1>4, <1>5, EraseShown, CompleteShown, ArrowShown DEF Key

LEMMA ReadShown ==
  ASSUME ScreenInv, NEW t \in Terms, ReadStart(t) \/ ReadStep(t)
  PROVE  \A u \in Terms : ScreenTerm(u)'
<1>1. TypeOK /\ \A u \in Terms : ScreenTerm(u) /\ PoliteTerm(u)
  BY DEF ScreenInv, PoliteInv, BufferInv
<1>2. CASE ReadStart(t)
  <2>1. /\ buffer'[t] = EmptyBuffer /\ buffer_count'[t] = 0 /\ echo'[t] = <<>>
        /\ \A u \in Terms \ {t} : /\ buffer'[u] = buffer[u] /\ buffer_count'[u] = buffer_count[u]
                                  /\ key_read'[u] = key_read[u] /\ reader'[u] = reader[u]
                                  /\ echo'[u] = echo[u] /\ tracked'[u] = tracked[u]
    BY <1>1, <1>2 DEF ReadStart, SetLine, TypeOK
  <2>2. ScreenTerm(t)'
    <3>1. Columns(EmptyBuffer)[0] = <<>>
      BY ColumnsDef
    <3>2. 0..(0 - 1) = {}
      OBVIOUS
    <3> QED
      BY <2>1, <3>1, <3>2 DEF ScreenTerm, HasTab
  <2>3. \A u \in Terms \ {t} : ScreenTerm(u)'
    BY <1>1, <2>1 DEF ScreenTerm, Editing, HasTab
  <2> QED
    BY <2>2, <2>3
<1>3. CASE ReadStep(t)
  <2>1. /\ buffer' = buffer /\ buffer_count' = buffer_count /\ key_read' = key_read
        /\ echo' = echo /\ tracked' = tracked
        /\ \A u \in Terms : reader'[u] = "wait" => reader[u] = "wait"
    BY <1>1, <1>3 DEF ReadStep, ReadPoll, ReadCopy, ReadReturn, line, hist, seen, TypeOK
  <2> QED
    BY <1>1, <2>1 DEF ScreenTerm, Editing, HasTab
<1> QED
  BY <1>2, <1>3

(* As long as nobody types ahead, what is on the screen after the prompt   *)
(* is the line that the program will get.                                  *)
THEOREM ScreenShown ==
  ASSUME ~TypeAhead
  PROVE  Spec => []ScreenShowsLine
<1>1. Init => ScreenInv
  BY InitPolite DEF Init, ScreenInv, ScreenTerm, Editing
<1>2. ScreenInv /\ [Next]_vars => ScreenInv'
  <2> SUFFICES ASSUME ScreenInv, [Next]_vars PROVE ScreenInv'
    OBVIOUS
  <2>1. PoliteInv'
    BY NextPolite DEF ScreenInv
  <2>2. UNCHANGED <<line, key_read, cmd_history, read, seen>> => ScreenInv'
    BY <2>1, QuietScreen DEF ScreenInv
  <2>3. CASE UNCHANGED vars
    BY <2>2, <2>3 DEF vars, hist
  <2>4. ASSUME NEW t \in Terms, change_term(t) PROVE ScreenInv'
    BY <2>2, <2>4 DEF change_term, hist
  <2> QED
    BY <2>1, <2>3, <2>4, KeyShown, ReadShown DEF Next, ScreenInv
<1>3. ScreenInv => ScreenShowsLine
  BY DEF ScreenInv, ScreenTerm, ScreenShowsLine
<1> QED
  BY <1>1, <1>2, <1>3, PTL DEF Spec

(* Then every line read also ends with Enter, as read_term's result        *)
(* assumes; with type-ahead it does not.                                   *)
THEOREM LinesEndWithEnter ==
  ASSUME ~TypeAhead
  PROVE  Spec => EndsWithEnter
<1>1. PoliteInv /\ [Next]_vars =>
        [\A t \in Terms : ReadReturn(t) => got[t] # <<>> /\ got[t][Len(got[t])] = Enter]_vars
  <2> SUFFICES ASSUME PoliteInv, NEW t \in Terms, ReadReturn(t)
               PROVE  got[t] # <<>> /\ got[t][Len(got[t])] = Enter
    OBVIOUS
  <2> DEFINE m == buffer_count[t]
  <2>1. /\ PoliteTerm(t) /\ reader[t] = "copy" /\ ~More(t)
        /\ buffer[t] \in Buffer /\ m \in 0..(BUF_SIZE - 1)
    BY DEF PoliteInv, BufferInv, TypeOK, ReadReturn
  <2>2. Len(got[t]) = m
    BY <2>1, CopiedAll DEF PoliteTerm, Index
  <2>3. got[t] = FirstChars(buffer[t], m) /\ m > 0 /\ buffer[t][m - 1] = Enter
    BY <2>1, <2>2 DEF PoliteTerm, Editing, Ended
  <2>4. FirstChars(buffer[t], m)[m] = buffer[t][m - 1]
    BY <2>1, <2>3 DEF FirstChars
  <2> QED
    BY <2>1, <2>2, <2>3, <2>4
<1> QED
  BY <1>1, PoliteInductive, PTL DEF Spec, EndsWithEnter
=============================================================================
