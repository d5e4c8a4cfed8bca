----------------------------- MODULE MCTerminal -----------------------------
(* Terminal for TLC.  Two letters stand for the alphabet; "c" is a command *)
(* whose argument Tab completes, like cat, and both letters begin a word.  *)
EXTENDS TerminalRefines

CONSTANTS la, lc, sp

MCWords(two) == [x \in Forms \X Cell \X Cell |->
  IF two /\ x[2] = lc THEN (IF x[1] = 0 THEN {<<lc, lc>>} ELSE {<<lc>>, <<lc, lc>>})
  ELSE {}]

NoWords == MCWords(FALSE)
AllWords == MCWords(TRUE)
NoCompletion == [x \in {} |-> 0]
Completion == [x \in {lc} |-> 2]
NoArgument == [x \in {lc} |-> 0]
=============================================================================
