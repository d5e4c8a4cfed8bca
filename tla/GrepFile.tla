------------------------------- MODULE GrepFile -------------------------------
(***************************************************************************)
(* How grep finds the lines of a file (do_one_file of ece391grep.c) in a   *)
(* buffer of BUFSIZE bytes, of which the last line of one reading moves to *)
(* the front for the next.                                                 *)
(***************************************************************************)
EXTENDS Libc

CONSTANT BUFSIZE     \* 1024

ASSUME BufferAssumption == BUFSIZE \in Nat \ {0}

NL == 10

(* s, as data: a memory of its own                                         *)
Text(s) == [a \in 0..Len(s) |-> IF a < Len(s) THEN s[a + 1] ELSE 0]

Both(data, s) == [a \in 0..(BUFSIZE + 1 + Len(s)) |->
                    IF a <= BUFSIZE THEN data[a] ELSE Text(s)[a - BUFSIZE - 1]]

LineEnd(data, start, last) == Min({k \in start..last : k = last \/ data[k] = NL})

Found(data, start, end, s) ==
  \E check \in start..(end - 1) :
    data[check] = s[1] /\ ece391_strncmp(Both(data, s), check, BUFSIZE + 1, Len(s)) = 0

Line(data, start) == [i \in 1..ece391_strlen(data, start) |-> data[start + i - 1]] 

(* Mutant: what is left of the last line stays where it is.                *)
KeepNoCopy(data, start, end) == [data EXCEPT ![end] = 0]

Keep(data, start, end) == ece391_strcpy([data EXCEPT ![end] = 0], 0, start)

(* What a line does to b: the buffer, where the next line starts, how much *)
(* of the buffer is kept, what is printed, and whether the reading has     *)
(* another line.  cnt: how much of it is new.                              *)
Search(b, cnt, s) ==
  LET end == LineEnd(b.data, b.start, b.last)
      d   == [b.data EXCEPT ![end] = 0]
      more == end + 1 < b.last
  IN IF b.data[end] # NL /\ cnt # 0 /\ b.start # 0
     THEN [b EXCEPT !.data = Keep(@, b.start, end), !.last = @ - b.start, !.more = FALSE]
     ELSE [data |-> d, start |-> end + 1, last |-> IF more THEN b.last ELSE 0, more |-> more,
           out |-> IF Found(d, b.start, end, s) THEN Append(b.out, Line(d, b.start)) ELSE b.out]

Lines(b, cnt, s) ==
  LET r[i \in 0..(b.last + 1)] ==
        IF i = 0 THEN [b EXCEPT !.start = 0, !.more = TRUE]
        ELSE LET c == r[i - 1] IN IF c.more THEN Search(c, cnt, s) ELSE c
  IN r[b.last + 1]

(* Read what fits, from position on                                        *)
Fits(file, position, b) == Min({BUFSIZE - b.last, Len(file) - position})
Read(file, position, b) ==
  LET cnt == Fits(file, position, b) IN
  [b EXCEPT !.last = @ + cnt,
            !.data = [a \in 0..BUFSIZE |-> IF a \in b.last..(b.last + cnt - 1)
                                           THEN file[position + a - b.last + 1] ELSE @[a]]]

(* r: the position and the buffer after a number of readings; a reading of *)
(* nothing is the last.  stack: the byte the buffer holds everywhere before *)
(* the first one.                                                          *)
do_one_file(file, s, stack) ==
  LET empty == [data |-> [a \in 0..BUFSIZE |-> stack], start |-> 0, last |-> 0,
                out |-> <<>>, more |-> FALSE]
      r[i \in 0..(Len(file) + 1)] ==
        IF i = 0 THEN [position |-> 0, b |-> empty, done |-> FALSE]
        ELSE LET q == r[i - 1]  cnt == Fits(file, q.position, q.b) IN
             IF q.done THEN q
             ELSE [position |-> q.position + cnt, b |-> Lines(Read(file, q.position, q.b), cnt, s),
                   done |-> cnt = 0]
  IN r[Len(file) + 1].b.out
=============================================================================
