------------------------------ MODULE Terminal ------------------------------
(***************************************************************************)
(* The line discipline of EchOS: terminal.c (the line buffer, the command  *)
(* history, completion, read_term) and keyboard.c (handler_keyboard).      *)
(*                                                                         *)
(* The keyboard interrupt edits the buffer of the visible terminal; a      *)
(* process of any terminal reads the buffer of its own.  read_term         *)
(* prepares the buffer with interrupts off, then polls key_read and copies *)
(* the line one character at a time with interrupts on, so keys arrive     *)
(* between any two of its steps.  A key is one action; the modifier keys   *)
(* only choose which.  echo is what the person sees since the prompt.      *)
(***************************************************************************)
EXTENDS Integers, Sequences, FiniteSets

CONSTANTS NTERM,      \* terminals; 3 in the source
          BUF_SIZE,   \* bytes of a line buffer; 128
          HISTORY,    \* entries of cmd_history; 100
          Chars,      \* the printable characters that are told apart
          Space, Tab, Enter, Nul,
          Completes,  \* the first characters for which Tab completes
          ArgAt,      \* where the argument of such a command begins, 0: it
                      \* has none that Tab completes
          Words,      \* what simple_y_c_m writes, by form (0: command, 1:
                      \* argument) and the first two characters of the word
          Keys,       \* the keys there are
          TypeAhead   \* are keys pressed while no read waits for a line?

Terms == 0..(NTERM - 1)
Index == 0..(BUF_SIZE - 1)
Text  == Chars \cup {Tab}
Cell  == Text \cup {Enter, Nul}
Buffer == [Index -> Cell]
Forms == {0, 1}
TabStop == 4          \* cells handler_keyboard prints for a Tab

ASSUME SizeAssumption ==
  NTERM \in Nat \ {0} /\ BUF_SIZE \in Nat \ 0..2 /\ HISTORY \in Nat \ {0}
ASSUME CharAssumption ==
  /\ Space \in Chars
  /\ Tab \notin Chars /\ Enter \notin Text /\ Nul \notin Text \cup {Enter}
  /\ TypeAhead \in BOOLEAN
ASSUME WordAssumption ==
  /\ Completes \subseteq Chars
  /\ ArgAt \in [Completes -> 0..(BUF_SIZE - 3)]
  /\ Words \in [Forms \X Cell \X Cell -> SUBSET Seq(Chars \ {Space})]
  /\ \A x \in Forms \X Cell \X Cell : \A w \in Words[x] :
       /\ w # <<>> /\ Len(w) <= BUF_SIZE - 2
       /\ \A c \in Completes : x[1] = 1 => ArgAt[c] + Len(w) <= BUF_SIZE - 2

VARIABLES visible_term,                        \* the terminal keys go to
          buffer, buffer_count, key_read,      \* the line of each terminal
          cmd_history, cmd_history_idx, find_his_counter,
          reader,   \* "none", "wait" (polling key_read), "copy"
          got,      \* what read_term has copied, and then returned
          echo,     \* the characters on the screen since the prompt
          tracked   \* no Ctrl-L and no recalled Tab since the prompt

line == <<buffer, buffer_count>>
hist == <<cmd_history, cmd_history_idx, find_his_counter>>
read == <<reader, got>>
seen == <<echo, tracked>>
vars == <<visible_term, line, key_read, hist, read, seen>>

-----------------------------------------------------------------------------
(* Buffers                                                                 *)
EmptyBuffer == [i \in Index |-> Nul]

strlen(b) == CHOOSE n \in 0..BUF_SIZE :
               /\ \A i \in 0..(n - 1) : b[i] # Nul
               /\ n < BUF_SIZE => b[n] = Nul

FirstChars(b, n) == [i \in 1..n |-> b[i - 1]]

(* The cells a line takes when it is typed                                 *)
TabCells == [i \in 1..TabStop |-> Space]

Erase(e, n) == SubSeq(e, 1, IF n <= Len(e) THEN Len(e) - n ELSE 0)

Init ==
  /\ visible_term = 0
  /\ buffer = [t \in Terms |-> EmptyBuffer]
  /\ buffer_count = [t \in Terms |-> 0]
  /\ key_read = [t \in Terms |-> FALSE]
  /\ cmd_history = [t \in Terms |-> [h \in 0..(HISTORY - 1) |-> EmptyBuffer]]
  /\ cmd_history_idx = [t \in Terms |-> 0]
  /\ find_his_counter = [t \in Terms |-> 0]
  /\ reader = [t \in Terms |-> "none"]
  /\ got = [t \in Terms |-> <<>>]
  /\ echo = [t \in Terms |-> <<>>]
  /\ tracked = [t \in Terms |-> TRUE]

-----------------------------------------------------------------------------
(* Keys.  t is the terminal they go to.                                    *)
Editing(t) == reader[t] = "wait" /\ ~key_read[t]

Press(k, t) == k \in Keys /\ t = visible_term /\ (TypeAhead \/ Editing(t))

(* Mutant: no byte is kept for Enter.                                      *)
FitsNoReserve(t, c) == buffer_count[t] < BUF_SIZE - 1

(* Mutant: both limits are one too high.                                   *)
FitsOneMore(t, c) ==
  /\ buffer_count[t] < BUF_SIZE
  /\ c # Enter => buffer_count[t] < BUF_SIZE - 1

(* add_to_buffer keeps the last byte for NUL and the one before for Enter. *)
Fits(t, c) ==
  /\ buffer_count[t] < BUF_SIZE - 1
  /\ c # Enter => buffer_count[t] < BUF_SIZE - 2

add_to_buffer(t, c) ==
  /\ Fits(t, c)
  /\ buffer' = [buffer EXCEPT ![t][buffer_count[t]] = c]
  /\ buffer_count' = [buffer_count EXCEPT ![t] = @ + 1]

SetLine(t, b, n) ==
  /\ buffer' = [buffer EXCEPT ![t] = b]
  /\ buffer_count' = [buffer_count EXCEPT ![t] = n]

(* What follows a cleared screen or a recalled Tab is not kept in echo.    *)
Show(t, e, ok) ==
  /\ echo' = [echo EXCEPT ![t] = IF tracked[t] THEN e ELSE <<>>]
  /\ tracked' = [tracked EXCEPT ![t] = @ /\ ok]

TypeChar(t, c) ==
  /\ Press("char", t)
  /\ add_to_buffer(t, c)
  /\ Show(t, Append(echo[t], c), TRUE)
  /\ UNCHANGED <<visible_term, key_read, hist, read>>

(* Mutant: set_key_read is missing.                                        *)
PressEnterUnseen(t) ==
  /\ Press("enter", t)
  /\ add_to_buffer(t, Enter)
  /\ Show(t, Append(echo[t], Enter), TRUE)
  /\ UNCHANGED <<visible_term, key_read, hist, read>>

PressEnter(t) ==
  /\ Press("enter", t)
  /\ add_to_buffer(t, Enter)
  /\ key_read' = [key_read EXCEPT ![t] = TRUE]
  /\ Show(t, Append(echo[t], Enter), TRUE)
  /\ UNCHANGED <<visible_term, hist, read>>

(* Mutant: one cell is erased for a Tab as well.                           *)
BackspaceOneCell(t) ==
  LET n == buffer_count[t] - 1 IN
  /\ Press("backspace", t)
  /\ n >= 0
  /\ SetLine(t, [buffer[t] EXCEPT ![n] = Nul], n)
  /\ Show(t, Erase(echo[t], 1), TRUE)
  /\ UNCHANGED <<visible_term, key_read, hist, read>>

(* Mutant: the count goes down but the character stays.                    *)
BackspaceKeepsByte(t) ==
  LET n == buffer_count[t] - 1 IN
  /\ Press("backspace", t)
  /\ n >= 0
  /\ SetLine(t, buffer[t], n)
  /\ Show(t, Erase(echo[t], IF buffer[t][n] = Tab THEN TabStop ELSE 1), TRUE)
  /\ UNCHANGED <<visible_term, key_read, hist, read>>

(* remove_from_buffer, and one or four cells of the screen                 *)
Backspace(t) ==
  LET n == buffer_count[t] - 1 IN
  /\ Press("backspace", t)
  /\ n >= 0
  /\ SetLine(t, [buffer[t] EXCEPT ![n] = Nul], n)
  /\ Show(t, Erase(echo[t], IF buffer[t][n] = Tab THEN TabStop ELSE 1), TRUE)
  /\ UNCHANGED <<visible_term, key_read, hist, read>>

TypeTab(t) ==
  /\ Press("tab", t)
  /\ buffer[t][0] \notin Completes
  /\ add_to_buffer(t, Tab)
  /\ Show(t, echo[t] \o TabCells, TRUE)
  /\ UNCHANGED <<visible_term, key_read, hist, read>>

(* simple_y_c_m overwrites the rest of the buffer with a word, NUL padded. *)
Overwrite(b, a, w) ==
  [i \in Index |-> IF i < a THEN b[i]
                   ELSE IF i - a < Len(w) THEN w[i - a + 1] ELSE Nul]

(* Is there an argument to complete?  Where does the word begin?           *)
WordAt(b) ==
  IF ArgAt[b[0]] > 0 /\ b[ArgAt[b[0]] - 1] = Space /\ b[ArgAt[b[0]]] # Nul
  THEN ArgAt[b[0]] ELSE 0

WordsFor(b) == Words[IF WordAt(b) = 0 THEN 0 ELSE 1, b[WordAt(b)], b[WordAt(b) + 1]]

(* For an argument the screen is erased back to a space, searched for by   *)
(* counting down from buffer_count: with n characters the one before the   *)
(* argument at a, if a - 1 <= n, else one before it.  The word has none.   *)
(* If there is no such space the search leaves the buffer, and what it     *)
(* reads is not modelled: CompletionFindsSpace.                            *)
ErasedFrom(b, n, a) ==
  IF a = 0 THEN {0}
  ELSE {j \in 1..(n + 1) : /\ j <= a /\ b[j - 1] = Space
                           /\ \A i \in j..n : i < a => b[i] # Space}

CompletedEcho(e, n, j, w) ==
  IF j = 0 THEN Erase(e, n) \o w ELSE Erase(e, n - j + 1) \o <<Space>> \o w

Complete(t) ==
  LET b == buffer[t]  a == WordAt(b) IN
  /\ Press("tab", t)
  /\ b[0] \in Completes
  /\ \E w \in WordsFor(b), j \in ErasedFrom(b, buffer_count[t], a) :
       /\ SetLine(t, Overwrite(b, a, w), strlen(Overwrite(b, a, w)))
       /\ Show(t, CompletedEcho(echo[t], buffer_count[t], j, w), TRUE)
  /\ UNCHANGED <<visible_term, key_read, hist, read>>

HasTab(t, n) == \E i \in 0..(n - 1) : buffer[t][i] = Tab

(* Mutant: buffer_count is not set to the length of the command.           *)
RecallKeepsCount(t, f) ==
  LET b == cmd_history[t][f]  n == strlen(b) IN
  /\ SetLine(t, b, buffer_count[t])
  /\ find_his_counter' = [find_his_counter EXCEPT ![t] = f]
  /\ Show(t, Erase(echo[t], buffer_count[t]) \o FirstChars(b, n),
          ~HasTab(t, buffer_count[t]) /\ \A i \in 0..(n - 1) : b[i] # Tab)

(* Up and Down erase one cell and print one cell per character.            *)
Recall(t, f) ==
  LET b == cmd_history[t][f]  n == strlen(b) IN
  /\ SetLine(t, b, n)
  /\ find_his_counter' = [find_his_counter EXCEPT ![t] = f]
  /\ Show(t, Erase(echo[t], buffer_count[t]) \o FirstChars(b, n),
          ~HasTab(t, buffer_count[t]) /\ \A i \in 0..(n - 1) : b[i] # Tab)

get_prev_cmd(t) ==
  LET f == IF find_his_counter[t] = 0 THEN 0 ELSE find_his_counter[t] - 1 IN
  /\ Press("up", t)
  /\ IF cmd_history[t][f][0] = Nul
     THEN /\ f = 0 /\ find_his_counter' = [find_his_counter EXCEPT ![t] = 0]
          /\ UNCHANGED <<line, seen>>
     ELSE Recall(t, f)
  /\ UNCHANGED <<visible_term, key_read, cmd_history, cmd_history_idx, read>>

(* Past the newest entry the line is cleared and the counter stays.        *)
get_next_cmd(t) ==
  LET f == (find_his_counter[t] + 1) % HISTORY IN
  /\ Press("down", t)
  /\ IF cmd_history[t][f][0] # Nul THEN Recall(t, f)
     ELSE IF f = 0
     THEN /\ find_his_counter' = [find_his_counter EXCEPT ![t] = 0]
          /\ UNCHANGED <<line, seen>>
     ELSE /\ buffer[t][0] # Nul
          /\ SetLine(t, EmptyBuffer, 0)
          /\ Show(t, Erase(echo[t], buffer_count[t]), ~HasTab(t, buffer_count[t]))
          /\ UNCHANGED find_his_counter
  /\ UNCHANGED <<visible_term, key_read, cmd_history, cmd_history_idx, read>>

(* Ctrl-L and the colour keys: the screen is cleared, the buffer is not.   *)
clear_term(t) ==
  /\ Press("clear", t)
  /\ Show(t, <<>>, FALSE)
  /\ UNCHANGED <<visible_term, line, key_read, hist, read>>

change_term(u) ==
  /\ "alt" \in Keys /\ u # visible_term
  /\ visible_term' = u
  /\ UNCHANGED <<line, key_read, hist, read, seen>>

-----------------------------------------------------------------------------
(* Mutant: the Enter stays in the line that is saved.                      *)
FinishedKeepsEnter(t) == buffer[t]

(* read_term.  Before the prompt the line read before, which is still in   *)
(* the buffer, goes to the history.                                        *)
Finished(t) ==
  [i \in Index |-> IF i < buffer_count[t] /\ buffer[t][i] = Enter
                   THEN Nul ELSE buffer[t][i]]

SaveCommand(t) ==
  IF buffer_count[t] # 0 /\ Finished(t)[0] # Nul
  THEN LET next == (cmd_history_idx[t] + 1) % HISTORY IN
       /\ cmd_history' = [cmd_history EXCEPT ![t][cmd_history_idx[t]] = Finished(t)]
       /\ cmd_history_idx' = [cmd_history_idx EXCEPT ![t] = next]
       /\ find_his_counter' = [find_his_counter EXCEPT ![t] = next]
  ELSE UNCHANGED hist

(* Mutant: key_read is not reset.                                          *)
ReadStartStale(t) ==
  /\ reader[t] = "none"
  /\ SaveCommand(t)
  /\ SetLine(t, EmptyBuffer, 0)
  /\ reader' = [reader EXCEPT ![t] = "wait"]
  /\ got' = [got EXCEPT ![t] = <<>>]
  /\ echo' = [echo EXCEPT ![t] = <<>>]
  /\ tracked' = [tracked EXCEPT ![t] = TRUE]
  /\ UNCHANGED <<visible_term, key_read>>

ReadStart(t) ==
  /\ reader[t] = "none"
  /\ SaveCommand(t)
  /\ SetLine(t, EmptyBuffer, 0)
  /\ key_read' = [key_read EXCEPT ![t] = FALSE]
  /\ reader' = [reader EXCEPT ![t] = "wait"]
  /\ got' = [got EXCEPT ![t] = <<>>]
  /\ echo' = [echo EXCEPT ![t] = <<>>]
  /\ tracked' = [tracked EXCEPT ![t] = TRUE]
  /\ UNCHANGED visible_term

ReadPoll(t) ==
  /\ reader[t] = "wait" /\ key_read[t]
  /\ reader' = [reader EXCEPT ![t] = "copy"]
  /\ UNCHANGED <<visible_term, line, key_read, hist, got, seen>>

More(t) == Len(got[t]) < BUF_SIZE /\ buffer[t][Len(got[t])] # Nul

(* Mutant: the line of the visible terminal is copied.                     *)
ReadCopyVisible(t) ==
  /\ reader[t] = "copy" /\ More(t)
  /\ got' = [got EXCEPT ![t] = Append(@, buffer[visible_term][Len(@)])]
  /\ UNCHANGED <<visible_term, line, key_read, hist, reader, seen>>

ReadCopy(t) ==
  /\ reader[t] = "copy" /\ More(t)
  /\ got' = [got EXCEPT ![t] = Append(@, buffer[t][Len(@)])]
  /\ UNCHANGED <<visible_term, line, key_read, hist, reader, seen>>

ReadReturn(t) ==
  /\ reader[t] = "copy" /\ ~More(t)
  /\ reader' = [reader EXCEPT ![t] = "none"]
  /\ UNCHANGED <<visible_term, line, key_read, hist, got, seen>>

-----------------------------------------------------------------------------
Key(t) == \/ \E c \in Chars : TypeChar(t, c)
          \/ PressEnter(t) \/ Backspace(t) \/ TypeTab(t) \/ Complete(t)
          \/ get_prev_cmd(t) \/ get_next_cmd(t) \/ clear_term(t)

ReadStep(t) == ReadPoll(t) \/ ReadCopy(t) \/ ReadReturn(t)

Next == \E t \in Terms : Key(t) \/ change_term(t) \/ ReadStart(t) \/ ReadStep(t)

Spec == Init /\ [][Next]_vars

(* The scheduler gives every terminal its turn (EveryTerminalRuns of       *)
(* Kernel); nobody has to type, and no program has to read.                *)
LiveSpec == Spec /\ \A t \in Terms : WF_vars(ReadStep(t))

-----------------------------------------------------------------------------
(* Properties.                                                             *)

(* Every variable stays in its range; buffer_count never reaches the last  *)
(* byte of the buffer.                                                     *)
TypeOK ==
  /\ visible_term \in Terms
  /\ buffer \in [Terms -> Buffer]
  /\ buffer_count \in [Terms -> 0..(BUF_SIZE - 1)]
  /\ key_read \in [Terms -> BOOLEAN]
  /\ cmd_history \in [Terms -> [0..(HISTORY - 1) -> Buffer]]
  /\ cmd_history_idx \in [Terms -> 0..(HISTORY - 1)]
  /\ find_his_counter \in [Terms -> 0..(HISTORY - 1)]
  /\ reader \in [Terms -> {"none", "wait", "copy"}]
  /\ got \in [Terms -> Seq(Cell)]
  /\ echo \in [Terms -> Seq(Cell)]
  /\ tracked \in [Terms -> BOOLEAN]

(* While a read waits for Enter there is room for it (add_to_buffer keeps  *)
(* a byte), whatever was typed, recalled, completed or typed ahead: no     *)
(* line is so long that it can never be ended.                             *)
RoomForEnter ==
  \A t \in Terms : Editing(t) => buffer_count[t] < BUF_SIZE - 1

(* The copy loop of read_term finds a NUL inside the buffer, although keys *)
(* change it meanwhile.                                                    *)
CopyEndsAtNul ==
  \A t \in Terms : reader[t] = "copy" => Len(got[t]) < BUF_SIZE

(* A line whose Enter a waiting read has not seen yet is read: the read    *)
(* returns.                                                                *)
HasEnter(t) == \E i \in Index : buffer[t][i] = Enter

EnterEndsRead ==
  \A t \in Terms : (reader[t] = "wait" /\ HasEnter(t)) ~> (reader[t] = "none")

(* The screen shows the line that the program will get: the echo of the    *)
(* keys, with what Up, Down and Tab erase and print, is the buffer.        *)
Cells(c) == IF c = Tab THEN TabCells ELSE <<c>>

Columns(b) ==
  LET col[n \in 0..BUF_SIZE] == IF n = 0 THEN <<>> ELSE col[n - 1] \o Cells(b[n - 1])
  IN col

ScreenShowsLine ==
  \A t \in Terms :
    Editing(t) /\ tracked[t] => echo[t] = Columns(buffer[t])[buffer_count[t]]

(* Completing an argument, the search for a space before it finds one: it  *)
(* never reads in front of the line (terminal.c:528).                      *)
CompletionFindsSpace ==
  \A t \in Terms :
    buffer[t][0] \in Completes /\ WordsFor(buffer[t]) # {} =>
      ErasedFrom(buffer[t], buffer_count[t], WordAt(buffer[t])) # {}

(* "minus one because of the enter key": every line read ends with Enter,  *)
(* which is the one byte read_term does not count.                         *)
EndsWithEnter ==
  [][\A t \in Terms : ReadReturn(t) =>
        got[t] # <<>> /\ got[t][Len(got[t])] = Enter]_vars
=============================================================================
