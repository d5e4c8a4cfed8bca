------------------------------- MODULE Library -------------------------------
(***************************************************************************)
(* The routines of Libc, Inodes, GrepFile and Clock, called with every     *)
(* argument of a bounded set and compared with what they are for.          *)
(***************************************************************************)
EXTENDS GrepFile, Inodes, Clock

CONSTANTS Calls,       \* a call is a record: fn, and its arguments
          Unanswered   \* the answer before the routine has run

-----------------------------------------------------------------------------
(* The arguments the routines are meant for.                               *)

Area(a, n)  == a..(a + n - 1)
UnitSize    == [memset |-> 1, memset_word |-> 2, memset_dword |-> 4]

Memory(m) == /\ DOMAIN m \subseteq Nat /\ m = [a \in DOMAIN m |-> m[a]]
             /\ \A a \in DOMAIN m : m[a] \in 0..255

(* A string starts at a.                                                   *)
String(m, a) == \E b \in DOMAIN m : a <= b /\ m[b] = 0 /\ a..b \subseteq DOMAIN m

(* No byte is written before it is read, copying from the first on.        *)
Harmless(dest, src, n) == dest <= src \/ Area(dest, n) \cap Area(src, n) = {}

LegalMemory(c) ==
  /\ Memory(c.mem) /\ c.dest \in Nat /\ c.n \in Nat
  /\ c.fn \in DOMAIN UnitSize => c.src \in Int /\ Area(c.dest, UnitSize[c.fn] * c.n) \subseteq DOMAIN c.mem
  /\ c.fn \notin DOMAIN UnitSize => c.src \in Nat
  /\ c.fn \in {"memcpy", "memmove"} =>
       Area(c.dest, c.n) \subseteq DOMAIN c.mem /\ Area(c.src, c.n) \subseteq DOMAIN c.mem
  /\ c.fn \in {"compare", "strcpy", "strncpy"} => String(c.mem, c.src)
  /\ c.fn = "compare" => String(c.mem, c.dest)
  /\ c.fn = "strcpy" => LET n == strlen(c.mem, c.src) + 1 IN
       Area(c.dest, n) \subseteq DOMAIN c.mem /\ Harmless(c.dest, c.src, n)
  /\ c.fn = "strncpy" => Area(c.dest, c.n) \subseteq DOMAIN c.mem /\ Harmless(c.dest, c.src, c.n)

Formats == {<<"%", "d">>, <<"%", "u">>, <<"%", "x">>, <<"%", "#", "x">>}
LegalNumber(c) ==
  /\ c.fn = "counter" => c.n \in Nat
  /\ c.fn = "printf" => LET top == Power(DIGITS) \div 2 IN
       c.format \in Formats /\ \E v \in (0 - top)..(top - 1) : c.args = <<v>>

(* The blocks of a file are whole and hold it.                             *)
LegalFile(c) ==
  /\ c.fn = "cat" =>
       /\ c.n \in Nat \ {0} /\ c.inode.file_length \in Nat /\ c.inode.blocks \in Seq(Seq(0..255))
       /\ \A i \in DOMAIN c.inode.blocks : Len(c.inode.blocks[i]) = BLOCK_SIZE
       /\ BLOCK_SIZE * Len(c.inode.blocks) >= c.inode.file_length
  /\ c.fn = "grep" => c.file \in Seq(1..255) /\ c.s \in Seq(1..255) /\ c.s # <<>> /\ c.stack \in 0..255

(* A time whose year has not passed yet                                    *)
BCD(n) == (n \div 10) * 16 + (n % 10)
Moments == [second : 0..59, minute : 0..59, hour : 0..23, day : 1..31, month : 1..12,
            year : CURRENT_YEAR..(CURRENT_YEAR + 99)]
LegalTime(c) ==
  c.fn = "time" =>
    /\ c.time \in Moments
    /\ c.registers = [second |-> BCD(c.time.second), minute |-> BCD(c.time.minute),
                      hour |-> BCD(c.time.hour), day |-> BCD(c.time.day),
                      month |-> BCD(c.time.month), year |-> BCD(c.time.year % 100)]

MemoryCalls == {"memcpy", "memmove", "memset", "memset_word", "memset_dword",
                "strcpy", "strncpy", "compare"}
ASSUME CallsAssumption ==
  \A c \in Calls : /\ c.fn \in MemoryCalls => LegalMemory(c)
                   /\ LegalNumber(c) /\ LegalFile(c) /\ LegalTime(c)

-----------------------------------------------------------------------------
VARIABLES call, answer

library == <<call, answer>>

LibraryInit == call \in Calls /\ answer = Unanswered

Answer(c) ==
  CASE c.fn = "memcpy"  -> memcpy(c.mem, c.dest, c.src, c.n)
    [] c.fn = "memmove" -> memmove(c.mem, c.dest, c.src, c.n)
    [] c.fn = "memset"  -> memset(c.mem, c.dest, c.src, c.n)
    [] c.fn = "memset_word"  -> memset_word(c.mem, c.dest, c.src, c.n)
    [] c.fn = "memset_dword" -> memset_dword(c.mem, c.dest, c.src, c.n)
    [] c.fn = "strcpy"  -> strcpy(c.mem, c.dest, c.src)
    [] c.fn = "strncpy" -> strncpy(c.mem, c.dest, c.src, c.n)
    [] c.fn = "compare" -> [kernel |-> strncmp(c.mem, c.dest, c.src, c.n),
                            program |-> ece391_strncmp(c.mem, c.dest, c.src, c.n),
                            whole |-> ece391_strcmp(c.mem, c.dest, c.src)]
    [] c.fn = "printf"  -> printf(c.format, c.args)
    [] c.fn = "counter" -> ece391_itoa(c.n, 10)
    [] c.fn = "cat"     -> ReadOn(c.inode, 0, c.n)
    [] c.fn = "grep"    -> do_one_file(c.file, c.s, c.stack)
    [] c.fn = "time"    -> update_current_global_time(c.registers, TRUE)

Run == answer = Unanswered /\ answer' = Answer(call) /\ UNCHANGED call

LibrarySpec == LibraryInit /\ [][Run]_library

Ran(fns) == answer # Unanswered /\ call.fn \in fns

-----------------------------------------------------------------------------
(* Properties.                                                             *)

(* memmove moves every byte from where it was before the call, wherever    *)
(* the two areas overlap and whatever their alignment, and touches no      *)
(* other; so does memcpy towards lower addresses or without an overlap.    *)
(* memset and its wider forms fill the area, to its last byte, and nothing *)
(* else (lib.c:359 to 506).                                                *)
BytesPlaced ==
  /\ Ran({"memcpy", "memmove"}) /\ (call.fn = "memcpy" => Harmless(call.dest, call.src, call.n)) =>
       answer = Movs(call.mem, call.dest, call.src, call.n)
  /\ Ran(DOMAIN UnitSize) =>
       LET size == UnitSize[call.fn] IN
       \A a \in DOMAIN call.mem :
         answer[a] = IF a \notin Area(call.dest, size * call.n) THEN call.mem[a]
                     ELSE LowBytes(call.src, size)[1 + ((a - call.dest) % size)]

(* A string, and its copies and comparisons: strncmp of the kernel and of  *)
(* the programs agree with the first n characters being equal, strcpy      *)
(* copies the string, strncpy its first n characters, padded.              *)
Str(m, a)   == [i \in 1..strlen(m, a) |-> m[a + i - 1]]
Cut(s, n)   == SubSeq(s, 1, Min({n, Len(s)}))
Equal(c)    == Cut(Str(c.mem, c.dest), c.n) = Cut(Str(c.mem, c.src), c.n)

StringsHold ==
  /\ Ran({"compare"}) =>
       /\ (answer.kernel = 0) = Equal(call) /\ (answer.program = 0) = Equal(call)
       /\ (answer.whole = 0) = (Str(call.mem, call.dest) = Str(call.mem, call.src))
  /\ Ran({"strcpy"}) => Str(answer, call.dest) = Str(call.mem, call.src)
  /\ Ran({"strncpy"}) =>
       \A i \in 1..call.n :
         answer[call.dest + i - 1] = IF i <= strlen(call.mem, call.src)
                                     THEN call.mem[call.src + i - 1] ELSE 0

(* What printf prints of a number, and the programs' itoa, reads back as   *)
(* the same number, the most negative one included.                        *)
Digit(c) == (CHOOSE i \in DOMAIN lookup : lookup[i] = c) - 1
Natural(s, radix) ==
  LET v[i \in 0..Len(s)] == IF i = 0 THEN 0 ELSE v[i - 1] * radix + Digit(s[i]) IN v[Len(s)]
Value(s, radix) == IF s[1] = "-" THEN 0 - Natural(Tail(s), radix) ELSE Natural(s, radix)

NumbersReadBack ==
  /\ Ran({"printf"}) =>
       CASE call.format = <<"%", "d">> -> Value(answer, 10) = call.args[1]
         [] call.format = <<"%", "u">> -> Value(answer, 10) = Unsigned(call.args[1])
         [] OTHER -> /\ Value(answer, 16) = Unsigned(call.args[1])
                     /\ call.format[2] = "#" => Len(answer) = DIGITS
  /\ Ran({"counter"}) => Value(answer, 10) = call.n

(* Reading a file to its end, any number of bytes at a time, gives the     *)
(* bytes of its blocks up to its length, in order.                         *)
FilesReadWhole ==
  Ran({"cat"}) => answer = SubSeq(FlattenSeq(call.inode.blocks), 1, call.inode.file_length)

(* grep prints every line that contains the string once, in the order of   *)
(* the file, and no other, if every line fits into the buffer with its     *)
(* newline (there is one among any BUFSIZE bytes) and the buffer's last    *)
(* byte, which the program never sets, is not a newline.                   *)
LineStart(f, i)  == Max({x \in 0..(i - 1) : x = 0 \/ f[x] = NL})
LineBefore(f, i) == SubSeq(f, LineStart(f, i) + 1, i - 1)
Ended(f, i)      == i = Len(f) + 1 \/ f[i] = NL
LinesFit(f)      == \A x \in 0..(Len(f) - BUFSIZE) : \E k \in 1..BUFSIZE : f[x + k] = NL

HasString(l, s) == \E i \in 0..(Len(l) - Len(s)) : SubSeq(l, i + 1, i + Len(s)) = s

Matches(f, s) ==
  LET m[i \in 0..(Len(f) + 1)] ==
        IF i = 0 THEN <<>>
        ELSE IF Ended(f, i) /\ HasString(LineBefore(f, i), s) THEN Append(m[i - 1], LineBefore(f, i))
        ELSE m[i - 1]
  IN m[Len(f) + 1]

GrepPrintsMatches ==
  Ran({"grep"}) /\ call.stack # NL /\ LinesFit(call.file) => answer = Matches(call.file, call.s)

(* "change the time zone to Chicago time zone" (rtc.c:172): the clock      *)
(* shows the time of six hours earlier, except when it is six o'clock, and *)
(* in the first hours of a month unless the one before has thirty days:    *)
(* there, and only there, the code is wrong.                               *)
DaysIn(m, y) ==
  CASE m = 2 -> IF y % 4 = 0 /\ (y % 100 # 0 \/ y % 400 = 0) THEN 29 ELSE 28
    [] m \in {4, 6, 9, 11} -> 30
    [] OTHER -> 31

DayBefore(t) ==
  CASE t.day > 1   -> [t EXCEPT !.day = t.day - 1]
    [] t.day = 1 /\ t.month > 1 ->
         [t EXCEPT !.day = DaysIn(t.month - 1, t.year), !.month = t.month - 1]
    [] t.day = 1 /\ t.month = 1 -> [t EXCEPT !.day = 31, !.month = 12, !.year = t.year - 1]

SixHoursEarlier(t) == IF t.hour >= 6 THEN [t EXCEPT !.hour = t.hour - 6]
                      ELSE [DayBefore(t) EXCEPT !.hour = t.hour + 18]

Misread(t) == t.hour = 6 \/ (t.hour < 6 /\ t.day = 1 /\ t.month - 1 \notin {4, 6, 9, 11})

ClockSixHoursBack ==
  Ran({"time"}) => (answer = SixHoursEarlier(call.time) <=> ~Misread(call.time))
=============================================================================
