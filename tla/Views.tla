-------------------------------- MODULE Views --------------------------------
(***************************************************************************)
(* What the terminals promise: each has a text of its own, shown or not,   *)
(* and only what is written or typed on a terminal changes its text.       *)
(*                                                                         *)
(* runs, visible and artists are set from outside: the terminal whose      *)
(* program runs, the one on the screen, those whose programs draw.  So are *)
(* three flags that say when less is promised: deaf, what the program      *)
(* writes may garble its text; adrift, the cursor on the screen is not     *)
(* where the next character goes; bare, the program draws on the screen    *)
(* itself.                                                                 *)
(***************************************************************************)
EXTENDS Naturals, Sequences

CONSTANTS Terms,              \* the terminals
          NUM_ROWS, NUM_COLS, \* size of the screen; 25 and 80
          Strings,            \* what is written at once
          Banner              \* what a cleared terminal shows

VARIABLES text, pos, runs, visible, artists, deaf, adrift, bare

views == <<text, pos>>

Cells == 0 .. NUM_ROWS * NUM_COLS - 1
Blank == [i \in Cells |-> " "]

(* The text g and the place p of the next character, after character c.    *)
(* The last column stays empty.                                            *)
Line(v)    == v.p \div NUM_COLS
Scroll(g)  == [i \in Cells |-> IF i + NUM_COLS \in Cells THEN g[i + NUM_COLS] ELSE " "]
Newline(v) == IF Line(v) = NUM_ROWS - 1 THEN [g |-> Scroll(v.g), p |-> Line(v) * NUM_COLS]
              ELSE [v EXCEPT !.p = (Line(v) + 1) * NUM_COLS]
Put(v, c)  == [g |-> [v.g EXCEPT ![v.p] = c], p |-> v.p + 1]
Before(v)  == IF v.p % NUM_COLS = 0 THEN v.p - 2 ELSE v.p - 1
Shown(v, c) ==
  CASE c = "\n" -> Newline(v)
    [] c = "BS" -> IF v.p = 0 THEN v ELSE [g |-> [v.g EXCEPT ![Before(v)] = " "], p |-> Before(v)]
    [] OTHER    -> Put(IF v.p % NUM_COLS = NUM_COLS - 1 THEN Newline(v) ELSE v, c)

Others(t) == /\ \A u \in Terms \ {t} : text'[u] = text[u]

After(v, s) ==
  LET w[n \in 0..Len(s)] == IF n = 0 THEN v ELSE Shown(w[n - 1], s[n])
  IN w[Len(s)]
Now(t)      == [g |-> text[t], p |-> pos[t]]
Shows(t, g) == t = runs /\ (deaf \/ text'[t] = g) /\ Others(t)

(* A program writes, with one call: the next character of its terminal     *)
(* goes where the text ends, and no other place moves, except that the     *)
(* cursor on the screen may be taken for the place of the visible one.     *)
Output(t, s) ==
  LET v == After(Now(t), s) IN
  /\ Shows(t, v.g)
  /\ \A u \in Terms : pos'[u] = (IF u = t THEN v.p ELSE pos[u]) \/ (adrift /\ u = visible)

(* The kernel writes: a scroll of a terminal not shown moves the place of  *)
(* the visible one up, to the start of a line.                             *)
Raised(p, q)  == q = p \/ (q <= p /\ q % NUM_COLS = 0)
Message(t, s) ==
  LET v == After(Now(t), s) IN
  /\ Shows(t, v.g) /\ pos'[t] = v.p
  /\ \A u \in Terms \ {t} : pos'[u] = pos[u] \/ (u = visible /\ Raised(pos[u], pos'[u]))

(* Somebody types on t, or clears it.                                      *)
Type(t, c) == LET v == Shown(Now(t), c) IN
              text' = [text EXCEPT ![t] = v.g] /\ pos' = [pos EXCEPT ![t] = v.p]
Clear(t)   == LET v == After([g |-> Blank, p |-> 0], Banner) IN
              text' = [text EXCEPT ![t] = v.g] /\ pos' = [pos EXCEPT ![t] = v.p]

(* A program on t draws: on its text, on the screen, or nowhere.           *)
Draw(t) == /\ t = runs /\ t \in artists
           /\ bare \/ Others(t)
           /\ \E i \in Cells : \A u \in Terms, j \in Cells \ {i} : text'[u][j] = text[u][j]
           /\ UNCHANGED pos

Init == text = [t \in Terms |-> Blank] /\ pos = [t \in Terms |-> 0]

Next == \E t \in Terms : \/ \E s \in Strings : Output(t, s) \/ Message(t, s)
                         \/ \E s \in Strings : Len(s) = 1 /\ Type(t, s[1])
                         \/ Clear(t) \/ Draw(t)

Spec == Init /\ [][Next]_views
=============================================================================
