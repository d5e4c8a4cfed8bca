----------------------------- MODULE TerminalInv -----------------------------
(***************************************************************************)
(* Inductive invariants of Terminal: BufferInv whatever keys are pressed,  *)
(* PoliteInv as long as nobody types ahead.                                *)
(***************************************************************************)
EXTENDS Terminal

(* Below buffer_count no NUL; an Enter only below it, and then key_read is *)
(* set; the last byte is NUL and the one before only ever holds an Enter.  *)
(* The history holds no Enter.                                             *)
BufferShape(t) ==
  /\ \A i \in 0..(buffer_count[t] - 1) : buffer[t][i] # Nul
  /\ \A i \in Index : buffer[t][i] = Enter => i < buffer_count[t] /\ key_read[t]
  /\ buffer[t][BUF_SIZE - 1] = Nul
  /\ buffer[t][BUF_SIZE - 2] \in {Nul, Enter}

HistoryShape(t) ==
  \A h \in 0..(HISTORY - 1) :
    /\ \A i \in Index : cmd_history[t][h][i] # Enter
    /\ cmd_history[t][h][BUF_SIZE - 2] = Nul
    /\ cmd_history[t][h][BUF_SIZE - 1] = Nul

ReaderShape ==
  \A t \in Terms : /\ reader[t] = "wait" => got[t] = <<>>
                   /\ reader[t] = "copy" => Len(got[t]) < BUF_SIZE

BufferInv ==
  /\ TypeOK
  /\ \A t \in Terms : BufferShape(t) /\ HistoryShape(t)
  /\ ReaderShape

(* Nothing but NUL above buffer_count, and no text above a NUL in a line   *)
(* of the history; once Enter is pressed it is the last character and the  *)
(* only Enter, until the next prompt; what is copied is what is there.     *)
Clean(b) == \A i, j \in Index : i < j /\ b[i] = Nul => b[j] = Nul

Ended(t) ==
  /\ buffer_count[t] > 0
  /\ \A i \in 0..(buffer_count[t] - 1) :
       buffer[t][i] = Enter <=> i = buffer_count[t] - 1

PoliteTerm(t) ==
  /\ \A i \in Index : i >= buffer_count[t] => buffer[t][i] = Nul
  /\ \A h \in 0..(HISTORY - 1) : Clean(cmd_history[t][h])
  /\ reader[t] # "none" /\ ~Editing(t) => Ended(t)
  /\ reader[t] = "none" => /\ buffer_count[t] = 0 \/ Ended(t)
                           /\ got[t] = FirstChars(buffer[t], buffer_count[t])
  /\ reader[t] = "copy" => /\ key_read[t] /\ Len(got[t]) <= buffer_count[t]
                           /\ got[t] = FirstChars(buffer[t], Len(got[t]))

PoliteInv == BufferInv /\ \A t \in Terms : PoliteTerm(t)

(* A line that Tab completes has no Tab in it, as far as the screen is     *)
(* tracked.                                                                *)
ScreenTerm(t) ==
  Editing(t) /\ tracked[t] =>
    /\ echo[t] = Columns(buffer[t])[buffer_count[t]]
    /\ buffer[t][0] \in Completes => ~HasTab(t, buffer_count[t])

ScreenInv == PoliteInv /\ \A t \in Terms : ScreenTerm(t)
=============================================================================
