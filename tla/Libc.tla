--------------------------------- MODULE Libc ---------------------------------
(***************************************************************************)
(* The memory, string and number routines of lib.c and of the programs'    *)
(* ece391support.c.  Memory is a function from addresses to bytes.         *)
(***************************************************************************)
EXTENDS Integers, SequencesExt, FiniteSetsExt

CONSTANT DIGITS     \* hexadecimal digits of an int; 8

ASSUME DigitsAssumption == DIGITS \in Nat \ {0}

-----------------------------------------------------------------------------
(* Memory.  movs and stos move size bytes at once, from a register.  A loop *)
(* is a function of the number of its turns.                               *)

Movs(m, dest, src, size) ==
  [a \in DOMAIN m |-> IF a \in dest..(dest + size - 1) THEN m[src + a - dest] ELSE m[a]]

Rep(m, dest, src, size, n) ==
  LET r[i \in 0..n] == IF i = 0 THEN m
                       ELSE Movs(r[i - 1], dest + size * (i - 1), src + size * (i - 1), size)
  IN r[n]

(* movsb with the direction flag set, from the last byte                   *)
RepBack(m, dest, src, n) ==
  LET r[i \in 0..n] == IF i = 0 THEN m ELSE Movs(r[i - 1], dest + n - i, src + n - i, 1)
  IN r[n]

(* rep stos of the bytes of a register                                     *)
Stos(m, dest, bytes, n) ==
  [a \in DOMAIN m |-> IF a \in dest..(dest + Len(bytes) * n - 1)
                      THEN bytes[1 + ((a - dest) % Len(bytes))] ELSE m[a]]

LowBytes(c, size) ==
  SubSeq(<<c % 256, (c \div 256) % 256, (c \div 65536) % 256, (c \div 16777216) % 256>>, 1, size)

(* Bytes up to a multiple of four, words, the bytes left                   *)
Ahead(dest, n) == Min({n, (4 - (dest % 4)) % 4})

(* Mutant: no single bytes at the end.                                     *)
memcpyWords(m, dest, src, n) ==
  LET h == Ahead(dest, n)  w == (n - h) \div 4 IN
  Rep(Rep(m, dest, src, 1, h), dest + h, src + h, 4, w)

memcpy(m, dest, src, n) ==
  LET h == Ahead(dest, n)  w == (n - h) \div 4  k == h + 4 * w IN
  Rep(Rep(Rep(m, dest, src, 1, h), dest + h, src + h, 4, w), dest + k, src + k, 1, (n - h) % 4)

memset(m, s, c, n) ==
  LET h == Ahead(s, n)  w == (n - h) \div 4  b == c % 256 IN
  Stos(Stos(Stos(m, s, <<b>>, h), s + h, <<b, b, b, b>>, w), s + h + 4 * w, <<b>>, (n - h) % 4)

memset_word(m, s, c, n)  == Stos(m, s, LowBytes(c, 2), n)
memset_dword(m, s, c, n) == Stos(m, s, LowBytes(c, 4), n)

(* A source below its destination is moved from the end; the direction     *)
(* flag is left set.                                                       *)
memmove(m, dest, src, n) ==
  IF src >= dest THEN Rep(m, dest, src, 1, n)
  ELSE RepBack(m, dest, src, n)

-----------------------------------------------------------------------------
(* Strings end with a 0.  At most n bytes of one are looked at.            *)

NulWithin(m, s, n) == Min({k \in 0..n : k = n \/ m[s + k] = 0})

strlen(m, s) == Min({a - s : a \in {b \in DOMAIN m : b >= s /\ m[b] = 0}})

strcpy(m, dest, src) == Rep(m, dest, src, 1, strlen(m, src) + 1)

(* Mutant: one 0 ends the copy.                                            *)
strncpyEnds(m, dest, src, n) ==
  LET k == NulWithin(m, src, n) IN Stos(Rep(m, dest, src, 1, k), dest + k, <<0>>, Min({1, n - k}))

strncpy(m, dest, src, n) ==
  LET k == NulWithin(m, src, n) IN Stos(Rep(m, dest, src, 1, k), dest + k, <<0>>, n - k)

Signed(b) == IF b > 127 THEN b - 256 ELSE b

strncmp(m, s1, s2, n) ==
  LET stops == {i \in 0..(n - 1) : m[s1 + i] # m[s2 + i] \/ m[s1 + i] = 0} IN
  IF stops = {} THEN 0 ELSE Signed(m[s1 + Min(stops)]) - Signed(m[s2 + Min(stops)])

(* The same routines of the programs; their chars are unsigned.            *)
ece391_strlen(m, s) == strlen(m, s)

ece391_strcpy(m, dst, src) == Rep(m, dst, src, 1, strlen(m, src) + 1)

ece391_strcmp(m, s1, s2) ==
  LET i == Min({k \in 0..strlen(m, s1) : m[s1 + k] # m[s2 + k] \/ m[s1 + k] = 0})
  IN m[s1 + i] - m[s2 + i]

ece391_strncmp(m, s1, s2, n) ==
  LET stops == {i \in 0..(n - 1) : m[s1 + i] # m[s2 + i] \/ m[s1 + i] = 0} IN
  IF stops = {} THEN 0 ELSE m[s1 + Min(stops)] - m[s2 + Min(stops)]

-----------------------------------------------------------------------------
(* Numbers as text, a sequence of characters                               *)

lookup == <<"0", "1", "2", "3", "4", "5", "6", "7", "8", "9", "A", "B", "C", "D", "E", "F">>

Swap(s, i, j) == [s EXCEPT ![i] = s[j], ![j] = s[i]]

strrev(s) ==
  LET r[i \in 0..(Len(s) \div 2)] == IF i = 0 THEN s ELSE Swap(r[i - 1], i, Len(s) + 1 - i)
  IN r[Len(s) \div 2]

(* The digits of value, the lowest first                                   *)
LowFirst(value, radix) ==
  LET d[v \in 0..value] == IF v = 0 THEN <<>> ELSE <<lookup[1 + (v % radix)]>> \o d[v \div radix]
  IN d[value]

itoa(value, radix) == IF value = 0 THEN <<"0">> ELSE strrev(LowFirst(value, radix))

ece391_itoa(value, radix) == IF value = 0 THEN <<"0">> ELSE strrev(LowFirst(value, radix))

(* The width of %#x is that of an int.                                     *)
Padded(value) ==
  LET s == itoa(value, 16) IN [i \in 1..(DIGITS - Len(s)) |-> "0"] \o s

Power(n) == LET p[i \in 0..n] == IF i = 0 THEN 1 ELSE 16 * p[i - 1] IN p[n]

Unsigned(v) == v % Power(DIGITS)

(* Mutant: the sign is printed with the number as it is.                   *)
DecimalUnsigned(v) == IF v < 0 THEN <<"-">> \o itoa(Unsigned(v), 10) ELSE itoa(v, 10)

Decimal(v) == IF v < 0 THEN <<"-">> \o itoa(Unsigned(-v), 10) ELSE itoa(v, 10)

Converted(spec, alternate, v) ==
  CASE spec = "x" -> IF alternate THEN Padded(Unsigned(v)) ELSE itoa(Unsigned(v), 16)
    [] spec = "u" -> itoa(Unsigned(v), 10)
    [] spec = "d" -> Decimal(v)
    [] spec = "c" -> <<v>>
    [] spec = "s" -> v

(* One character of the format.  conv: in a conversion, "#" seen or not;   *)
(* a format does not end within one.                                       *)
PrintOne(p, c) ==
  LET out(text, args) == [conv |-> "none", args |-> args, text |-> p.text \o text] IN
  CASE p.conv = "none" /\ c # "%" -> out(<<c>>, p.args)
    [] p.conv = "none" /\ c = "%" -> [p EXCEPT !.conv = "plain"]
    [] p.conv # "none" /\ c = "#" -> [p EXCEPT !.conv = "alternate"]
    [] p.conv # "none" /\ c = "%" -> out(<<"%">>, p.args)
    [] p.conv # "none" /\ c \in {"x", "u", "d", "c", "s"} ->
         out(Converted(c, p.conv = "alternate", Head(p.args)), Tail(p.args))
    [] OTHER -> out(<<>>, p.args)

printf(format, args) ==
  LET p[i \in 0..Len(format)] ==
        IF i = 0 THEN [conv |-> "none", args |-> args, text |-> <<>>] ELSE PrintOne(p[i - 1], format[i])
  IN p[Len(format)].text
=============================================================================
