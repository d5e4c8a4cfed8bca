-------------------------------- MODULE Screen --------------------------------
(***************************************************************************)
(* The text of the terminals in video memory (lib.c, page.c, terminal.c).  *)
(* There is the page the hardware shows and a backing page for every       *)
(* terminal.  The kernel writes at the address of the screen, and the      *)
(* paging decides which page that is: the screen while the terminal that   *)
(* runs is the one shown, else the backing page of a terminal.             *)
(***************************************************************************)
EXTENDS Integers, Sequences, FiniteSets

CONSTANTS Terms, NUM_ROWS, NUM_COLS,
          Strings,  \* what a program or the kernel writes at once
          Banner,   \* what clear_term writes
          Moves,    \* how far the mouse may move at once, <<dx, dy>>
          Fish      \* the terminals where a program draws

ASSUME SizeAssumption == NUM_ROWS \in Nat \ {0} /\ NUM_COLS \in Nat \ {0, 1}

ASSUME ScreenAssumption ==
  /\ Cardinality(Terms) \in Nat \ {0} /\ Terms = 0..(Cardinality(Terms) - 1)
  /\ \A s \in Strings \cup {Banner} : Len(s) \in Nat
  /\ Moves \subseteq Int \X Int

VARIABLES vm,        \* page: contents; map, umap: the pages at the kernel's and at
                     \* the programs' address of the screen; cursor_offset of each
                     \* terminal; hw: the place of the cursor on the screen
          cur_term, visible_term,
          drawing,   \* terminals whose program has called vidmap
          mouse      \* cursor_x and cursor_y

vars == <<vm, cur_term, visible_term, drawing, mouse>>

SCREEN == -1
Pages  == Terms \cup {SCREEN}
Offsets == 0 .. NUM_ROWS * NUM_COLS - 1
Empty  == [i \in Offsets |-> " "]

Init ==
  /\ vm = [page |-> [q \in Pages |-> Empty], map |-> SCREEN, umap |-> SCREEN,
           cursor_offset |-> [t \in Terms |-> 0], hw |-> 0]
  /\ cur_term = 0 /\ visible_term = 0
  /\ drawing = {}
  /\ mouse = [x |-> 0, y |-> 0]

-----------------------------------------------------------------------------
(* Operators on vm                                                         *)
change_term_vidmap(v, t)   == [v EXCEPT !.map = t, !.umap = t]
change_term_vidmap_same(v) == [v EXCEPT !.map = SCREEN, !.umap = SCREEN]

X(v, t) == v.cursor_offset[t] % NUM_COLS
Y(v, t) == v.cursor_offset[t] \div NUM_COLS

(* cursor_moving if the terminal is shown                                  *)
MoveTo(v, t, p) == [v EXCEPT !.cursor_offset[t] = p, !.hw = IF t = visible_term THEN p ELSE @]

(* The page mapped scrolls, and the cursor moved is that of terminal, the  *)
(* one shown.                                                              *)
lines_moving_up(v, t) ==
  LET w == [v EXCEPT !.page[v.map] = [i \in Offsets |-> IF i + NUM_COLS \in Offsets
                                                        THEN @[i + NUM_COLS] ELSE " "]]
      y == Y(v, visible_term)
      p == (IF y > 0 THEN y - 1 ELSE y) * NUM_COLS
  IN [w EXCEPT !.cursor_offset[visible_term] = p,
               !.hw = IF t = visible_term THEN p ELSE @]

(* Mutant: the check for the last line is one line late.                   *)
add_newlineLate(v, t) ==
  IF Y(v, t) = NUM_ROWS THEN MoveTo(lines_moving_up(v, t), t, Y(v, t) * NUM_COLS)
  ELSE MoveTo(v, t, (Y(v, t) + 1) * NUM_COLS)

add_newline(v, t) ==
  IF Y(v, t) = NUM_ROWS - 1 THEN MoveTo(lines_moving_up(v, t), t, Y(v, t) * NUM_COLS)
  ELSE MoveTo(v, t, (Y(v, t) + 1) * NUM_COLS)

(* A terminal that is not shown is written in its backing page itself.     *)
write_char(v, c, del, t) ==
  LET p == v.cursor_offset[t] IN
  MoveTo([v EXCEPT !.page[IF t = visible_term THEN v.map ELSE t][p] = c], t, p + 1 - del)

delete_char(v, t) ==
  LET p == v.cursor_offset[t] IN
  IF p = 0 THEN v
  ELSE write_char([v EXCEPT !.cursor_offset[t] = IF X(v, t) = 0 THEN p - 2 ELSE p - 1], " ", 1, t)

Putc(v, c, t) ==
  CASE c = "\n" -> add_newline(v, t)
    [] c = "BS" -> delete_char(v, t)
    [] OTHER -> write_char(IF X(v, t) >= NUM_COLS - 1 THEN add_newline(v, t) ELSE v, c, 0, t)

(* putc_by_program writes on cur_term, putc_by_keyboard on visible_term.   *)
putc_by(t, v, c) ==
  IF t = visible_term
  THEN change_term_vidmap(Putc(change_term_vidmap_same(v), c, t), t)
  ELSE Putc(v, c, t)

Written(t, v, s) ==
  LET w[n \in 0..Len(s)] == IF n = 0 THEN v ELSE putc_by(t, w[n - 1], s[n])
  IN w[Len(s)]

clear(v) ==
  change_term_vidmap([v EXCEPT !.page[SCREEN] = Empty, !.cursor_offset[visible_term] = 0], cur_term)

-----------------------------------------------------------------------------
Same == UNCHANGED <<cur_term, visible_term, drawing, mouse>>

(* A system call runs with interrupts off: the whole string is one step.   *)
(* The cursor on the screen is then taken as that of the terminal shown.   *)
write_term(s) ==
  LET v == Written(cur_term, vm, s) IN
  vm' = [v EXCEPT !.cursor_offset[visible_term] = v.hw] /\ Same

printf(s) == vm' = Written(cur_term, vm, s) /\ Same

Key(c) == vm' = putc_by(visible_term, vm, c) /\ Same

clear_term == vm' = Written(visible_term, [clear(vm) EXCEPT !.hw = 0], Banner) /\ Same

(* Mutant: the screen left is not saved.                                   *)
change_termNoSave(v, t) ==
  IF t = visible_term THEN v
  ELSE [change_term_vidmap(v, cur_term) EXCEPT !.page[SCREEN] = v.page[t], !.hw = v.cursor_offset[t]]

change_term(v, t) ==
  IF t = visible_term THEN v
  ELSE [change_term_vidmap(v, cur_term) EXCEPT
          !.page[visible_term] = v.page[SCREEN], !.page[SCREEN] = v.page[t],
          !.hw = v.cursor_offset[t]]

FunctionKey(t) == /\ vm' = change_term(vm, t) /\ visible_term' = t
                  /\ UNCHANGED <<cur_term, drawing, mouse>>

(* The range is checked with the movement added once more.                 *)
Moved(old, d, last) ==
  LET new == old + d IN IF new + d < 0 THEN 0 ELSE IF new + d > last THEN last ELSE new

(* A packet: how far the mouse moved, and whether its middle button is     *)
(* down                                                                    *)
mouse_handler(dx, dy, middle) ==
  LET t == IF middle THEN (visible_term + 1) % Cardinality(Terms) ELSE visible_term
      v == change_term(vm, t)
      m == [x |-> Moved(mouse.x, dx, NUM_COLS - 1), y |-> Moved(mouse.y, dy, NUM_ROWS - 1)]
  IN /\ visible_term' = t
     /\ mouse' = m
     /\ vm' = IF m = mouse THEN v ELSE [v EXCEPT !.hw = m.y * NUM_COLS + m.x]
     /\ UNCHANGED <<cur_term, drawing>>

(* The part of scheduling that concerns the screen                         *)
scheduling ==
  LET t == (cur_term + 1) % Cardinality(Terms) IN
  /\ cur_term' = t
  /\ vm' = IF t = visible_term THEN change_term_vidmap_same(vm) ELSE change_term_vidmap(vm, t)
  /\ UNCHANGED <<visible_term, drawing, mouse>>

(* Programs get the screen, whichever terminal is shown.                   *)
vidmap == /\ cur_term \in Fish
          /\ vm' = [vm EXCEPT !.umap = SCREEN]
          /\ drawing' = drawing \cup {cur_term}
          /\ UNCHANGED <<cur_term, visible_term, mouse>>

(* fish: a character at some place of the screen it was given              *)
Draw == /\ cur_term \in drawing
        /\ vm' = [vm EXCEPT !.page[vm.umap][0] = "a"]
        /\ Same

Next ==
  \/ \E s \in Strings : write_term(s) \/ printf(s)
  \/ \E s \in Strings : Len(s) = 1 /\ Key(s[1])
  \/ \E t \in Terms : FunctionKey(t)
  \/ \E d \in Moves, middle \in BOOLEAN : mouse_handler(d[1], d[2], middle)
  \/ clear_term \/ scheduling \/ vidmap \/ Draw

Spec == Init /\ [][Next]_vars

-----------------------------------------------------------------------------
(* Cursors and the mouse stay on the screen: nothing is written beside a   *)
(* page (lib.c:652, lib.c:696, mouse.c:162).                               *)
CursorsOnScreen == /\ \A t \in Terms : vm.cursor_offset[t] \in Offsets
                   /\ vm.hw \in Offsets

(* Every terminal's text is its own: what it shows, or would, changes by   *)
(* what is written or typed there and by nothing else, and survives being  *)
(* hidden.  It fails, and no more than Views grants, where a key pressed   *)
(* since the turn began misdirects the scrolling of a hidden terminal, the *)
(* mouse has moved the cursor, or a hidden program has called vidmap       *)
(* (lib.c:281, lib.c:625, terminal.c:216, page.c:104, terminal.c:38).      *)
Text == [t \in Terms |-> IF t = visible_term THEN vm.page[SCREEN] ELSE vm.page[t]]

V == INSTANCE Views WITH
       text <- Text, pos <- vm.cursor_offset,
       runs <- cur_term, visible <- visible_term, artists <- drawing,
       deaf <- cur_term # visible_term /\ vm.map # cur_term,
       adrift <- vm.hw # vm.cursor_offset[visible_term],
       bare <- vm.umap = SCREEN /\ cur_term # visible_term

ImplementsViews == V!Spec
=============================================================================
