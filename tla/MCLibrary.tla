------------------------------ MODULE MCLibrary ------------------------------
(* Library for TLC: every call of a small memory, file or clock.           *)
EXTENDS Library

(* Bytes that are all different, and strings of three values               *)
Where   == [a \in 0..11 |-> a]
Strings == {m \in [0..7 -> {0, 97, 200}] : m[3] = 0 /\ m[6] = 0 /\ m[7] = 0}

Moves == {[fn |-> f, mem |-> Where, dest |-> d, src |-> s, n |-> n] :
            f \in {"memcpy", "memmove"}, d \in 0..5, s \in 0..5, n \in 0..6}
Fills == {[fn |-> "memset", mem |-> Where, dest |-> d, src |-> -1, n |-> n] : d \in 0..4, n \in 0..7}
         \cup {[fn |-> f, mem |-> Where, dest |-> d, src |-> 66051, n |-> n] :
                 f \in {"memset_word", "memset_dword"}, d \in 0..3, n \in 0..2}
Texts == {[fn |-> f, mem |-> m, dest |-> 0, src |-> 4, n |-> n] :
            f \in {"compare", "strcpy", "strncpy"}, m \in Strings, n \in 0..3}
Numbers == {[fn |-> "printf", format |-> f, args |-> <<v>>] :
              f \in {<<"%", "d">>, <<"%", "u">>, <<"%", "x">>, <<"%", "#", "x">>}, v \in -128..127}
           \cup {[fn |-> "counter", n |-> n] : n \in 0..120}
Content(n) == [i \in 1..n |-> i]
Inodes  == {[file_length |-> l,
             blocks |-> [k \in 1..((l + 2) \div 3) |-> [i \in 1..3 |-> 3 * (k - 1) + i]]] : l \in 0..10}
Reads   == {[fn |-> "cat", inode |-> i, n |-> n] : i \in Inodes, n \in 1..11}
Greps   == {[fn |-> "grep", file |-> f, s |-> s, stack |-> k] :
              f \in UNION {[1..n -> {97, 98, NL}] : n \in 0..8}, s \in {<<97>>, <<97, 98>>}, k \in {NL, 97}}
Times   == {[second |-> 59, minute |-> 10, hour |-> h, day |-> d, month |-> m, year |-> y] :
              h \in 0..23, d \in {1, 2, 10, 31}, m \in {1, 3, 5, 12}, y \in {2023, 2099, 2101}}
Clocks  == {[fn |-> "time", time |-> t,
             registers |-> [second |-> BCD(t.second), minute |-> BCD(t.minute), hour |-> BCD(t.hour),
                            day |-> BCD(t.day), month |-> BCD(t.month), year |-> BCD(t.year % 100)]] : t \in Times}

MCCalls == Moves \cup Fills \cup Texts \cup Numbers \cup Reads \cup Greps \cup Clocks
=============================================================================
