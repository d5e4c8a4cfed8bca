------------------------------ MODULE LineEdit ------------------------------
(***************************************************************************)
(* What a terminal promises to a person who types and to the program that  *)
(* reads: at a prompt there is a line; keys edit it, bring back a line     *)
(* entered before, or complete it; Enter ends it, and the program gets     *)
(* that very line, Enter included.                                         *)
(***************************************************************************)
EXTENDS Integers, Sequences

CONSTANTS Terminals,
          Chars,        \* the characters of a line
          Enter,
          Dictionary,   \* what completion may write
          MaxLine       \* the longest line, without its Enter

VARIABLES phase,    \* "idle": nobody reads; "edit"; "entered"
          line,     \* the text since the prompt
          past,     \* the lines that can be brought back
          result    \* what the read returned, until the next one

lines == <<phase, line, past, result>>

Init ==
  /\ phase = [t \in Terminals |-> "idle"]
  /\ line = [t \in Terminals |-> <<>>]
  /\ past = [t \in Terminals |-> {}]
  /\ result = [t \in Terminals |-> <<>>]

(* The line entered last, without its Enter                                *)
Entered(t) == IF line[t] = <<>> THEN <<>> ELSE SubSeq(line[t], 1, Len(line[t]) - 1)

(* A program begins to read: the line entered before is remembered, if it  *)
(* is not empty; older ones may be forgotten.                              *)
Prompt(t) ==
  /\ phase[t] = "idle"
  /\ \E kept \in SUBSET past[t] :
       past' = [past EXCEPT ![t] = kept \cup ({Entered(t)} \ {<<>>})]
  /\ phase' = [phase EXCEPT ![t] = "edit"]
  /\ line' = [line EXCEPT ![t] = <<>>]
  /\ result' = [result EXCEPT ![t] = <<>>]

(* The lines one key can make of l                                         *)
Typed(l)     == {Append(l, c) : c \in Chars}
Erased(l)    == IF l = <<>> THEN {} ELSE {SubSeq(l, 1, Len(l) - 1)}
Completed(l) == {SubSeq(l, 1, k) \o w : k \in 0..Len(l), w \in Dictionary}

Edit(t) ==
  /\ phase[t] = "edit"
  /\ \E l \in Typed(line[t]) \cup Erased(line[t]) \cup Completed(line[t]) \cup past[t] \cup {<<>>} :
       /\ Len(l) <= MaxLine
       /\ line' = [line EXCEPT ![t] = l]
  /\ UNCHANGED <<phase, past, result>>

Submit(t) ==
  /\ phase[t] = "edit"
  /\ line' = [line EXCEPT ![t] = Append(line[t], Enter)]
  /\ phase' = [phase EXCEPT ![t] = "entered"]
  /\ UNCHANGED <<past, result>>

Deliver(t) ==
  /\ phase[t] = "entered"
  /\ result' = [result EXCEPT ![t] = line[t]]
  /\ phase' = [phase EXCEPT ![t] = "idle"]
  /\ UNCHANGED <<line, past>>

Next == \E t \in Terminals : Prompt(t) \/ Edit(t) \/ Submit(t) \/ Deliver(t)

Spec == Init /\ [][Next]_lines
=============================================================================
