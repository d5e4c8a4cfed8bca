--------------------------- MODULE TerminalRefines ---------------------------
(***************************************************************************)
(* Terminal implements LineEdit as long as nobody types ahead.             *)
(***************************************************************************)
EXTENDS TerminalInv

Phase == [t \in Terms |-> IF reader[t] = "none" THEN "idle"
                          ELSE IF Editing(t) THEN "edit" ELSE "entered"]

TextOf(b) == FirstChars(b, strlen(b))

LineOf == [t \in Terms |-> FirstChars(buffer[t], buffer_count[t])]

PastOf == [t \in Terms |->
             {TextOf(cmd_history[t][h]) : h \in 0..(HISTORY - 1)} \ {<<>>}]

ResultOf == [t \in Terms |-> IF reader[t] = "none" THEN got[t] ELSE <<>>]

E == INSTANCE LineEdit WITH
       Terminals <- Terms, Chars <- Text, MaxLine <- BUF_SIZE - 2,
       Dictionary <- UNION {Words[x] : x \in Forms \X Cell \X Cell},
       phase <- Phase, line <- LineOf, past <- PastOf, result <- ResultOf

(* A program gets the line as the person edited it, character for          *)
(* character; the history brings back lines that were entered.             *)
ImplementsLineEdit == E!Spec
=============================================================================
