---------------------------- MODULE Library_proofs ----------------------------
(***************************************************************************)
(* The routines of Library do what they are for, for every call they are   *)
(* meant for (CallsAssumption).                                            *)
(***************************************************************************)
EXTENDS Library, Recursion, SequenceTheorems

(* The answer is that of the call, one of Calls.                           *)
LibraryInv == call \in Calls /\ answer \in {Unanswered, Answer(call)}

LEMMA LibraryAnswers == LibrarySpec => []LibraryInv
<1>1. LibraryInit => LibraryInv
  BY DEF LibraryInit, LibraryInv
<1>2. LibraryInv /\ [Run]_library => LibraryInv'
  BY DEF LibraryInv, Run, library
<1> QED
  BY <1>1, <1>2, PTL DEF LibrarySpec

LEMMA Answered ==
  ASSUME LibraryInv, NEW fns, Ran(fns)
  PROVE  call \in Calls /\ call.fn \in fns /\ answer = Answer(call)
BY DEF LibraryInv, Ran

-----------------------------------------------------------------------------
(* The clock                                                               *)
LEMMA BinaryOfBCD ==
  ASSUME NEW n \in 0..99
  PROVE  Binary(BCD(n)) = n
BY DEF BCD, Binary

LEMMA TimeAnswer ==
  ASSUME NEW c, c.fn = "time"
  PROVE  Answer(c) = update_current_global_time(c.registers, TRUE)
BY DEF Answer

LEMMA YearRead ==
  ASSUME NEW y \in CURRENT_YEAR..(CURRENT_YEAR + 99)
  PROVE  FullYear(BCD(y % 100)) = y
<1>1. CURRENT_YEAR \in Nat /\ y % 100 \in 0..99
  BY YearAssumption
<1>2. Binary(BCD(y % 100)) = y % 100
  BY <1>1, BinaryOfBCD
<1>3. FullYear(BCD(y % 100)) = (y % 100) + (CURRENT_YEAR \div 100) * 100
                               + IF (y % 100) + (CURRENT_YEAR \div 100) * 100 < CURRENT_YEAR THEN 100 ELSE 0
  BY <1>2 DEF FullYear, Century
<1>4. \A c \in Nat : c = (c \div 100) * 100 + (c % 100) /\ c % 100 \in 0..99 /\ c \div 100 \in Nat
  OBVIOUS
<1>5. PICK p, q \in Nat : /\ p = CURRENT_YEAR \div 100 /\ q = y \div 100
                          /\ CURRENT_YEAR = p * 100 + (CURRENT_YEAR % 100) /\ y = q * 100 + (y % 100)
                          /\ CURRENT_YEAR % 100 \in 0..99
  BY <1>1, <1>4
<1> QED
  BY <1>1, <1>3, <1>5

LEMMA TimeShown ==
  ASSUME NEW c \in Calls, c.fn = "time"
  PROVE  c.time \in Moments /\ Answer(c) = Chicago(c.time)
<1> DEFINE t == c.time
           r == c.registers
           h == [second |-> Binary(r.second), minute |-> Binary(r.minute),
                 hour |-> Hour24(r.hour, TRUE), day |-> Binary(r.day),
                 month |-> Binary(r.month), year |-> FullYear(r.year)]
<1>1. /\ t.second \in 0..59 /\ t.minute \in 0..59 /\ t.hour \in 0..23 /\ t.day \in 1..31
      /\ t.month \in 1..12 /\ t.year \in CURRENT_YEAR..(CURRENT_YEAR + 99)
      /\ r.second = BCD(t.second) /\ r.minute = BCD(t.minute) /\ r.hour = BCD(t.hour)
      /\ r.day = BCD(t.day) /\ r.month = BCD(t.month) /\ r.year = BCD(t.year % 100)
  <2>1. LegalTime(c)
    BY CallsAssumption
  <2>2. c.time \in Moments
    BY <2>1 DEF LegalTime
  <2>3. c.registers = [second |-> BCD(c.time.second), minute |-> BCD(c.time.minute),
                      hour |-> BCD(c.time.hour), day |-> BCD(c.time.day),
                      month |-> BCD(c.time.month), year |-> BCD(c.time.year % 100)]
    BY <2>1 DEF LegalTime
  <2> QED
    BY <2>2, <2>3 DEF Moments
<1>2. Answer(c) = Chicago(h)
  BY TimeAnswer, Zenon DEF update_current_global_time
<1>3. /\ Binary(r.second) = t.second /\ Binary(r.minute) = t.minute
      /\ Binary(r.day) = t.day /\ Binary(r.month) = t.month
  BY <1>1, BinaryOfBCD
<1>4. FullYear(r.year) = t.year
  BY <1>1, YearRead
<1>5. Hour24(r.hour, TRUE) = t.hour
  BY <1>1 DEF Hour24, Hour, Pm, Binary, BCD
<1>6. t \in Moments
  BY CallsAssumption DEF LegalTime
<1>7. h = t
  BY <1>3, <1>4, <1>5, <1>6 DEF Moments
<1> QED
  BY <1>2, <1>6, <1>7

(* Chicago is right where it is not Misread, and nowhere else.             *)
LEMMA ChicagoTime ==
  ASSUME NEW t \in Moments
  PROVE  Chicago(t) = SixHoursEarlier(t) <=> ~Misread(t)
<1>1. t.hour \in 0..23 /\ t.day \in 1..31 /\ t.month \in 1..12 /\ t.year \in Int
  BY YearAssumption DEF Moments
<1>2. DOMAIN t = {"second", "minute", "hour", "day", "month", "year"}
  BY DEF Moments
<1>3. CASE t.hour > 6
  BY <1>1, <1>3 DEF Chicago, SixHoursEarlier, Misread
<1>4. CASE t.hour = 6
  <2>1. SixHoursEarlier(t).day = t.day
    BY <1>1, <1>2, <1>4 DEF SixHoursEarlier
  <2>2. Chicago(t).day = IF t.day > 1 THEN t.day - 1 ELSE 30
    BY <1>1, <1>2, <1>4 DEF Chicago
  <2> QED
    BY <1>1, <1>4, <2>1, <2>2 DEF Misread
<1>5. CASE t.hour < 6 /\ t.day > 1
  <2>1. (t.hour + 18) % 24 = t.hour + 18
    BY <1>1, <1>5
  <2>2. Chicago(t) = [t EXCEPT !.hour = t.hour + 18, !.day = t.day - 1, !.month = t.month]
    <3>1. ~(t.hour > 6)
      BY <1>1, <1>5
    <3> QED
      BY <1>5, <2>1, <3>1, Zenon DEF Chicago
  <2>3. SixHoursEarlier(t) = [t EXCEPT !.day = t.day - 1, !.hour = t.hour + 18]
    <3>1. ~(t.hour >= 6) /\ ~(t.day = 1)
      BY <1>1, <1>5
    <3>2. DayBefore(t) = [t EXCEPT !.day = t.day - 1]
      BY <1>5, <3>1 DEF DayBefore
    <3> QED
      BY <3>1, <3>2, Zenon DEF SixHoursEarlier
  <2>4. Chicago(t) = SixHoursEarlier(t)
    BY <1>2, <2>2, <2>3 DEF Moments
  <2> QED
    BY <1>1, <1>5, <2>4 DEF Misread
<1>6. CASE t.hour < 6 /\ t.day = 1
  <2>1. (t.hour + 18) % 24 = t.hour + 18
    BY <1>1, <1>6
  <2>2. Chicago(t) = [t EXCEPT !.hour = t.hour + 18, !.day = 30, !.month = t.month - 1]
    <3>1. ~(t.hour > 6) /\ ~(t.day > 1)
      BY <1>1, <1>6
    <3> QED
      BY <2>1, <3>1, Zenon DEF Chicago
  <2>3. CASE t.month > 1
    <3>1. SixHoursEarlier(t) = [t EXCEPT !.day = DaysIn(t.month - 1, t.year), !.month = t.month - 1,
                                         !.hour = t.hour + 18]
      <4>1. ~(t.hour >= 6) /\ ~(t.day > 1) /\ ~(t.month = 1)
        BY <1>1, <1>6, <2>3
      <4>2. DayBefore(t) = [t EXCEPT !.day = DaysIn(t.month - 1, t.year), !.month = t.month - 1]
        BY <1>6, <2>3, <4>1 DEF DayBefore
      <4> QED
        BY <4>1, <4>2, Zenon DEF SixHoursEarlier
    <3>2. Chicago(t).day = 30 /\ SixHoursEarlier(t).day = DaysIn(t.month - 1, t.year)
      BY <1>2, <2>2, <3>1
    <3>3. DaysIn(t.month - 1, t.year) = 30 <=> t.month - 1 \in {4, 6, 9, 11}
      BY <1>1 DEF DaysIn
    <3>4. DaysIn(t.month - 1, t.year) = 30 => Chicago(t) = SixHoursEarlier(t)
      BY <1>2, <2>2, <3>1 DEF Moments
    <3> QED
      BY <1>1, <1>6, <3>2, <3>3, <3>4 DEF Misread
  <2>4. CASE t.month = 1
    <3>1. SixHoursEarlier(t).month = 12
      <4>1. ~(t.hour >= 6) /\ ~(t.day > 1) /\ ~(t.month > 1)
        BY <1>1, <1>6, <2>4
      <4>2. DayBefore(t) = [t EXCEPT !.day = 31, !.month = 12, !.year = t.year - 1]
        BY <1>6, <2>4, <4>1 DEF DayBefore
      <4>3. SixHoursEarlier(t) = [DayBefore(t) EXCEPT !.hour = t.hour + 18]
        BY <4>1, Zenon DEF SixHoursEarlier
      <4> QED
        BY <1>2, <4>2, <4>3
    <3>2. Chicago(t).month = 0
      BY <1>2, <2>2, <2>4
    <3> QED
      BY <1>1, <1>6, <2>4, <3>1, <3>2 DEF Misread
  <2> QED
    BY <1>1, <2>3, <2>4
<1> QED
  BY <1>1, <1>3, <1>4, <1>5, <1>6

(* The clock shows the time of six hours earlier, for every current year   *)
(* and every time (update_current_global_time), except at six o'clock and  *)
(* in the first hours of a month that does not follow one of thirty days,  *)
(* where it never does.                                                    *)
THEOREM ClockShowsChicago == LibrarySpec => []ClockSixHoursBack
<1>1. LibraryInv => ClockSixHoursBack
  <2> SUFFICES ASSUME LibraryInv, Ran({"time"})
               PROVE  ClockSixHoursBack
    BY DEF ClockSixHoursBack
  <2>1. call \in Calls /\ call.fn = "time" /\ answer = Answer(call)
    BY Answered
  <2>2. call.time \in Moments /\ answer = Chicago(call.time)
    BY <2>1, TimeShown
  <2> QED
    BY <2>2, ChicagoTime DEF ClockSixHoursBack
<1> QED
  BY <1>1, LibraryAnswers, PTL

-----------------------------------------------------------------------------
(* Memory: m is a memory, and the areas lie in it.                         *)
Is(m) == m = [a \in DOMAIN m |-> m[a]]
Inside(m, a, n) == Area(a, n) \subseteq DOMAIN m

LEMMA MovsNothing ==
  ASSUME NEW m, Is(m), NEW dest \in Int, NEW src \in Int
  PROVE  Movs(m, dest, src, 0) = m
BY DEF Is, Movs

LEMMA MovsAgain ==
  ASSUME NEW m, DOMAIN m \subseteq Int, NEW dest \in Int, NEW src \in Int, NEW a \in Nat, NEW b \in Nat,
         Inside(m, src, a + b), Harmless(dest, src, a + b)
  PROVE  Movs(Movs(m, dest, src, a), dest + a, src + a, b) = Movs(m, dest, src, a + b)
<1> DEFINE M == Movs(m, dest, src, a)
<1>1. DOMAIN M = DOMAIN m
  BY DEF Movs
<1>2. ASSUME NEW x \in DOMAIN m
      PROVE  (IF x \in (dest + a)..((dest + a) + b - 1) THEN M[(src + a) + x - (dest + a)] ELSE M[x])
              = (IF x \in dest..(dest + (a + b) - 1) THEN m[src + x - dest] ELSE m[x])
  <2>1. x \in Int
    OBVIOUS
  <2>2. CASE x \in (dest + a)..((dest + a) + b - 1)
    <3>1. PICK y \in Int : y = src + x - dest /\ y = (src + a) + x - (dest + a)
      BY <2>1
    <3>2. y \in Area(src, a + b) /\ x \in Area(dest, a + b)
      BY <2>1, <2>2, <3>1 DEF Area
    <3>3. y \notin dest..(dest + a - 1)
      BY <2>1, <2>2, <3>1, <3>2 DEF Harmless, Area
    <3>4. M[y] = m[y]
      BY <3>2, <3>3 DEF Movs, Inside
    <3> QED
      BY <2>1, <2>2, <3>1, <3>2, <3>4 DEF Area
  <2>3. CASE x \notin (dest + a)..((dest + a) + b - 1)
    <3>1. x \in dest..(dest + (a + b) - 1) <=> x \in dest..(dest + a - 1)
      BY <2>1, <2>3
    <3>2. M[x] = IF x \in dest..(dest + a - 1) THEN m[src + x - dest] ELSE m[x]
      BY DEF Movs
    <3> QED
      BY <2>3, <3>1, <3>2
  <2> QED
    BY <2>2, <2>3
<1>3. Movs(m, dest, src, a + b)
        = [x \in DOMAIN m |-> IF x \in dest..(dest + (a + b) - 1) THEN m[src + x - dest] ELSE m[x]]
  BY DEF Movs
<1>4. Movs(M, dest + a, src + a, b)
        = [x \in DOMAIN m |-> IF x \in (dest + a)..((dest + a) + b - 1)
                              THEN M[(src + a) + x - (dest + a)] ELSE M[x]]
  BY <1>1 DEF Movs
<1> HIDE DEF M
<1> QED
  BY <1>2, <1>3, <1>4 DEF M

LEMMA RepMoves ==
  ASSUME NEW m, Is(m), DOMAIN m \subseteq Int, NEW dest \in Int, NEW src \in Int, NEW size \in Nat,
         NEW n \in Nat, Inside(m, src, size * n), Harmless(dest, src, size * n)
  PROVE  Rep(m, dest, src, size, n) = Movs(m, dest, src, size * n)
<1> DEFINE D(f) == f = [i \in 0..n |-> IF i = 0 THEN m
                          ELSE Movs(f[i - 1], dest + size * (i - 1), src + size * (i - 1), size)]
           g == [i \in 0..n |-> Movs(m, dest, src, size * i)]
<1>1. ASSUME NEW i \in 1..n
      PROVE  Movs(Movs(m, dest, src, size * (i - 1)), dest + size * (i - 1), src + size * (i - 1), size)
               = Movs(m, dest, src, size * i)
  <2>1. /\ size * (i - 1) \in Nat /\ size * i \in Nat /\ size * (i - 1) + size = size * i
        /\ size * i <= size * n
    OBVIOUS
  <2>2. PICK k \in Nat, w \in Nat : k = size * (i - 1) /\ w = size * n /\ size * i = k + size /\ k + size <= w
    BY <2>1
  <2>3. Inside(m, src, k + size) /\ Harmless(dest, src, k + size)
    BY <2>2 DEF Inside, Harmless, Area
  <2>4. Movs(Movs(m, dest, src, k), dest + k, src + k, size) = Movs(m, dest, src, k + size)
    BY <2>3, MovsAgain
  <2> QED
    BY <2>2, <2>4
<1>2. Movs(m, dest, src, size * 0) = m
  BY MovsNothing
<1> HIDE DEF g
<1>3. \A i \in 0..n : g[i] = Movs(m, dest, src, size * i)
  BY DEF g
<1>4. ASSUME NEW i \in 0..n
      PROVE  g[i] = IF i = 0 THEN m
                    ELSE Movs(g[i - 1], dest + size * (i - 1), src + size * (i - 1), size)
  <2>1. CASE i = 0
    BY <1>2, <1>3, <2>1
  <2>2. CASE i # 0
    <3>1. i \in 1..n /\ i - 1 \in 0..n
      BY <2>2
    <3> QED
      BY <1>1, <1>3, <2>2, <3>1
  <2> QED
    BY <2>1, <2>2
<1>5. D(g)
  BY <1>4 DEF g
<1> DEFINE r == CHOOSE f : D(f)
<1>6. D(r)
  BY <1>5
<1>7. Rep(m, dest, src, size, n) = r[n]
  BY DEF Rep
<1> HIDE DEF r
<1>8. \A i \in 0..n : r[i] = IF i = 0 THEN m
                  ELSE Movs(r[i - 1], dest + size * (i - 1), src + size * (i - 1), size)
  BY <1>6
<1> DEFINE S == {i \in 0..n : r[i] = g[i]}
<1>9. 0 \in S
  BY <1>4, <1>8
<1>10. ASSUME NEW i \in 0..(n - 1), i \in S PROVE i + 1 \in S
  <2>1. i + 1 \in 0..n /\ i + 1 # 0 /\ (i + 1) - 1 = i
    OBVIOUS
  <2> QED
    BY <1>4, <1>8, <1>10, <2>1
<1> HIDE DEF S
<1>11. n \in S
  BY <1>9, <1>10, InductionTo
<1> QED
  BY <1>7, <1>11, <1>3 DEF S

LEMMA MovsBefore ==
  ASSUME NEW m, DOMAIN m \subseteq Int, NEW dest \in Int, NEW src \in Int, NEW a \in Nat,
         src \in DOMAIN m, src < dest
  PROVE  Movs(Movs(m, dest + 1, src + 1, a), dest, src, 1) = Movs(m, dest, src, a + 1)
<1> DEFINE M == Movs(m, dest + 1, src + 1, a)
<1>1. DOMAIN M = DOMAIN m
  BY DEF Movs
<1>2. ASSUME NEW x \in DOMAIN m
      PROVE  (IF x \in dest..(dest + 1 - 1) THEN M[src + x - dest] ELSE M[x])
              = (IF x \in dest..(dest + (a + 1) - 1) THEN m[src + x - dest] ELSE m[x])
  <2>1. x \in Int
    OBVIOUS
  <2>2. CASE x = dest
    <3>1. src + x - dest = src /\ src \notin (dest + 1)..((dest + 1) + a - 1)
      BY <2>2
    <3>2. M[src] = m[src]
      BY <3>1 DEF Movs
    <3>3. x \in dest..(dest + 1 - 1) /\ x \in dest..(dest + (a + 1) - 1)
      BY <2>2
    <3> QED
      BY <3>1, <3>2, <3>3
  <2>3. CASE x # dest
    <3>1. /\ x \notin dest..(dest + 1 - 1)
          /\ x \in dest..(dest + (a + 1) - 1) <=> x \in (dest + 1)..((dest + 1) + a - 1)
          /\ (src + 1) + x - (dest + 1) = src + x - dest
      BY <2>1, <2>3
    <3>2. M[x] = IF x \in (dest + 1)..((dest + 1) + a - 1) THEN m[(src + 1) + x - (dest + 1)] ELSE m[x]
      BY DEF Movs
    <3> QED
      BY <3>1, <3>2
  <2> QED
    BY <2>2, <2>3
<1>3. Movs(m, dest, src, a + 1)
        = [x \in DOMAIN m |-> IF x \in dest..(dest + (a + 1) - 1) THEN m[src + x - dest] ELSE m[x]]
  BY DEF Movs
<1>4. Movs(M, dest, src, 1)
        = [x \in DOMAIN m |-> IF x \in dest..(dest + 1 - 1) THEN M[src + x - dest] ELSE M[x]]
  BY <1>1 DEF Movs
<1> HIDE DEF M
<1> QED
  BY <1>2, <1>3, <1>4 DEF M

LEMMA RepBackMoves ==
  ASSUME NEW m, Is(m), DOMAIN m \subseteq Int, NEW dest \in Int, NEW src \in Int, src < dest,
         NEW n \in Nat, Inside(m, src, n)
  PROVE  RepBack(m, dest, src, n) = Movs(m, dest, src, n)
<1> DEFINE D(f) == f = [i \in 0..n |-> IF i = 0 THEN m ELSE Movs(f[i - 1], dest + n - i, src + n - i, 1)]
           g == [i \in 0..n |-> Movs(m, dest + n - i, src + n - i, i)]
<1>1. ASSUME NEW i \in 1..n
      PROVE  Movs(Movs(m, dest + n - (i - 1), src + n - (i - 1), i - 1), dest + n - i, src + n - i, 1)
               = Movs(m, dest + n - i, src + n - i, i)
  <2>1. PICK d \in Int, s \in Int, k \in Nat : d = dest + n - i /\ s = src + n - i /\ k = i - 1
    OBVIOUS
  <2>2. /\ dest + n - (i - 1) = d + 1 /\ src + n - (i - 1) = s + 1 /\ k + 1 = i /\ s < d
        /\ s \in Area(src, n)
    BY <2>1 DEF Area
  <2>3. Movs(Movs(m, d + 1, s + 1, k), d, s, 1) = Movs(m, d, s, k + 1)
    BY <2>2, MovsBefore DEF Inside
  <2> QED
    BY <2>1, <2>2, <2>3
<1>2. Movs(m, dest + n - 0, src + n - 0, 0) = m
  BY MovsNothing
<1> HIDE DEF g
<1>3. \A i \in 0..n : g[i] = Movs(m, dest + n - i, src + n - i, i)
  BY DEF g
<1>4. ASSUME NEW i \in 0..n
      PROVE  g[i] = IF i = 0 THEN m ELSE Movs(g[i - 1], dest + n - i, src + n - i, 1)
  <2>1. CASE i = 0
    BY <1>2, <1>3, <2>1
  <2>2. CASE i # 0
    <3>1. i \in 1..n /\ i - 1 \in 0..n
      BY <2>2
    <3> QED
      BY <1>1, <1>3, <2>2, <3>1
  <2> QED
    BY <2>1, <2>2
<1>5. D(g)
  BY <1>4 DEF g
<1> DEFINE r == CHOOSE f : D(f)
<1>6. D(r)
  BY <1>5
<1>7. RepBack(m, dest, src, n) = r[n]
  BY DEF RepBack
<1> HIDE DEF r
<1>8. \A i \in 0..n : r[i] = IF i = 0 THEN m ELSE Movs(r[i - 1], dest + n - i, src + n - i, 1)
  BY <1>6
<1> DEFINE S == {i \in 0..n : r[i] = g[i]}
<1>9. 0 \in S
  BY <1>4, <1>8
<1>10. ASSUME NEW i \in 0..(n - 1), i \in S PROVE i + 1 \in S
  <2>1. i + 1 \in 0..n /\ i + 1 # 0 /\ (i + 1) - 1 = i
    OBVIOUS
  <2> QED
    BY <1>4, <1>8, <1>10, <2>1
<1> HIDE DEF S
<1>11. n \in S
  BY <1>9, <1>10, InductionTo
<1>12. dest + n - n = dest /\ src + n - n = src
  OBVIOUS
<1> QED
  BY <1>7, <1>11, <1>12, <1>3 DEF S

LEMMA MinOf ==
  ASSUME NEW Z \in SUBSET Nat, Z # {}
  PROVE  Min(Z) \in Z /\ \A y \in Z : Min(Z) <= y
<1>1. \E m \in Z : \A y \in Z : m <= y
  BY Least
<1> QED
  BY <1>1 DEF Min

(* memcpy: bytes up to a multiple of four, words, the bytes left           *)
LEMMA AheadLess ==
  ASSUME NEW dest \in Nat, NEW n \in Nat
  PROVE  \E h \in 0..n, w \in Nat, l \in Nat :
           h = Ahead(dest, n) /\ w = (n - h) \div 4 /\ l = (n - h) % 4 /\ n = h + 4 * w + l
<1>1. Ahead(dest, n) \in 0..n
  <2>1. (4 - (dest % 4)) % 4 \in Nat
    OBVIOUS
  <2>2. PICK r \in Nat : r = (4 - (dest % 4)) % 4
    BY <2>1
  <2>3. {n, r} \in SUBSET Nat /\ {n, r} # {}
    OBVIOUS
  <2>4. Min({n, r}) \in {n, r} /\ Min({n, r}) <= n
    BY <2>3, MinOf
  <2> QED
    BY <2>2, <2>4 DEF Ahead
<1>2. PICK h \in 0..n, k \in Nat : h = Ahead(dest, n) /\ k = n - h
  BY <1>1
<1>3. \A x \in Nat : x \div 4 \in Nat /\ x % 4 \in Nat /\ x = 4 * (x \div 4) + (x % 4)
  OBVIOUS
<1>4. PICK w \in Nat, l \in Nat : w = k \div 4 /\ l = k % 4 /\ k = 4 * w + l
  BY <1>3
<1> QED
  BY <1>2, <1>4

LEMMA MovsIs ==
  ASSUME NEW m, NEW d, NEW s, NEW n
  PROVE  Is(Movs(m, d, s, n)) /\ DOMAIN Movs(m, d, s, n) = DOMAIN m
BY DEF Is, Movs

LEMMA RepAgain ==
  ASSUME NEW m, Is(m), DOMAIN m \subseteq Int, NEW dest \in Int, NEW src \in Int, NEW a \in Nat,
         NEW size \in Nat, NEW n \in Nat, Inside(m, src, a + size * n), Harmless(dest, src, a + size * n)
  PROVE  Rep(Movs(m, dest, src, a), dest + a, src + a, size, n) = Movs(m, dest, src, a + size * n)
<1> DEFINE M == Movs(m, dest, src, a)
<1>1. Is(M) /\ DOMAIN M = DOMAIN m
  BY MovsIs
<1>2. PICK b \in Nat : b = size * n
  OBVIOUS
<1>3. Inside(M, src + a, b) /\ Harmless(dest + a, src + a, b)
  BY <1>1, <1>2 DEF Inside, Harmless, Area
<1> HIDE DEF M
<1>4. Rep(M, dest + a, src + a, size, n) = Movs(M, dest + a, src + a, b)
  BY <1>1, <1>2, <1>3, RepMoves
<1>5. Movs(M, dest + a, src + a, b) = Movs(m, dest, src, a + b)
  <2>1. Inside(m, src, a + b) /\ Harmless(dest, src, a + b)
    BY <1>2
  <2>2. Movs(Movs(m, dest, src, a), dest + a, src + a, b) = Movs(m, dest, src, a + b)
    BY <2>1, MovsAgain
  <2> QED
    BY <2>2 DEF M
<1> QED
  BY <1>2, <1>4, <1>5 DEF M

LEMMA MemcpyMoves ==
  ASSUME NEW m, Is(m), DOMAIN m \subseteq Int, NEW dest \in Nat, NEW src \in Nat, NEW n \in Nat,
         Inside(m, src, n), Harmless(dest, src, n)
  PROVE  memcpy(m, dest, src, n) = Movs(m, dest, src, n)
<1>1. PICK h \in 0..n, w \in Nat, l \in Nat :
        /\ h = Ahead(dest, n) /\ w = (n - h) \div 4 /\ l = (n - h) % 4 /\ n = h + 4 * w + l
  BY AheadLess
<1> DEFINE k == h + 4 * w
<1>2. k \in Nat /\ k + 1 * l = n /\ 1 * h = h /\ h \in Nat
  BY <1>1
<1>3. \A b \in 0..n : Inside(m, src, b) /\ Harmless(dest, src, b)
  BY DEF Inside, Harmless, Area
<1>4. Rep(m, dest, src, 1, h) = Movs(m, dest, src, h)
  BY <1>2, <1>3, RepMoves
<1>5. Rep(Movs(m, dest, src, h), dest + h, src + h, 4, w) = Movs(m, dest, src, k)
  <2>1. Inside(m, src, h + 4 * w) /\ Harmless(dest, src, h + 4 * w)
    BY <1>1, <1>3
  <2> QED
    BY <1>2, <2>1, RepAgain
<1>6. Rep(Movs(m, dest, src, k), dest + k, src + k, 1, l) = Movs(m, dest, src, n)
  <2> HIDE DEF k
  <2>1. Inside(m, src, k + 1 * l) /\ Harmless(dest, src, k + 1 * l)
    BY <1>2
  <2>2. Rep(Movs(m, dest, src, k), dest + k, src + k, 1, l) = Movs(m, dest, src, k + 1 * l)
    BY <1>2, <2>1, RepAgain
  <2> QED
    BY <1>2, <2>2
<1>7. memcpy(m, dest, src, n)
        = Rep(Rep(Rep(m, dest, src, 1, h), dest + h, src + h, 4, w), dest + k, src + k, 1, l)
  BY <1>1 DEF memcpy
<1> QED
  BY <1>4, <1>5, <1>6, <1>7

LEMMA MemmoveMoves ==
  ASSUME NEW m, Is(m), DOMAIN m \subseteq Int, NEW dest \in Nat, NEW src \in Nat, NEW n \in Nat,
         Inside(m, src, n)
  PROVE  memmove(m, dest, src, n) = Movs(m, dest, src, n)
<1>1. CASE src >= dest
  <2>1. Inside(m, src, 1 * n) /\ Harmless(dest, src, 1 * n) /\ 1 * n = n
    BY <1>1 DEF Harmless
  <2> QED
    BY <1>1, <2>1, RepMoves DEF memmove
<1>2. CASE ~(src >= dest)
  <2>1. src < dest
    BY <1>2
  <2> QED
    BY <1>2, <2>1, RepBackMoves DEF memmove
<1> QED
  BY <1>1, <1>2


(* memset: three times the same byte, or words at once                     *)
Filled(m, dest, n, b) == [a \in DOMAIN m |-> IF a \in Area(dest, n) THEN b ELSE m[a]]

LEMMA StosByte ==
  ASSUME NEW m, NEW dest \in Int, NEW b, NEW n \in Nat
  PROVE  Stos(m, dest, <<b>>, n) = Filled(m, dest, n, b)
<1>1. Len(<<b>>) = 1 /\ <<b>>[1] = b
  OBVIOUS
<1>2. ASSUME NEW a \in Area(dest, n) PROVE 1 + ((a - dest) % 1) = 1
  BY DEF Area
<1>3. Area(dest, n) = dest..(dest + 1 * n - 1)
  BY DEF Area
<1>4. Stos(m, dest, <<b>>, n) = [a \in DOMAIN m |-> IF a \in Area(dest, n)
                                    THEN <<b>>[1 + ((a - dest) % 1)] ELSE m[a]]
  BY <1>1, <1>3 DEF Stos
<1> QED
  BY <1>1, <1>2, <1>4 DEF Filled

LEMMA StosWord ==
  ASSUME NEW m, NEW dest \in Int, NEW b, NEW n \in Nat
  PROVE  Stos(m, dest, <<b, b, b, b>>, n) = Filled(m, dest, 4 * n, b)
<1>1. Len(<<b, b, b, b>>) = 4 /\ \A i \in 1..4 : <<b, b, b, b>>[i] = b
  OBVIOUS
<1>2. ASSUME NEW a \in Area(dest, 4 * n) PROVE 1 + ((a - dest) % 4) \in 1..4
  BY DEF Area
<1>3. Area(dest, 4 * n) = dest..(dest + 4 * n - 1)
  BY DEF Area
<1>4. Stos(m, dest, <<b, b, b, b>>, n) = [a \in DOMAIN m |-> IF a \in Area(dest, 4 * n)
                                    THEN <<b, b, b, b>>[1 + ((a - dest) % 4)] ELSE m[a]]
  BY <1>1, <1>3 DEF Stos
<1> QED
  BY <1>1, <1>2, <1>4 DEF Filled

LEMMA FilledAgain ==
  ASSUME NEW m, NEW s \in Int, NEW x \in Nat, NEW y \in Nat, NEW b
  PROVE  Filled(Filled(m, s, x, b), s + x, y, b) = Filled(m, s, x + y, b)
<1>1. \A a : a \in Area(s, x + y) <=> a \in Area(s + x, y) \/ a \in Area(s, x)
  BY DEF Area
<1> QED
  BY <1>1 DEF Filled

LEMMA MemsetFills ==
  ASSUME NEW m, NEW s \in Nat, NEW c \in Int, NEW n \in Nat
  PROVE  memset(m, s, c, n) = Filled(m, s, n, c % 256)
<1>1. PICK h \in 0..n, w \in Nat, l \in Nat :
        /\ h = Ahead(s, n) /\ w = (n - h) \div 4 /\ l = (n - h) % 4 /\ n = h + 4 * w + l
  BY AheadLess
<1>2. PICK b : b = c % 256
  OBVIOUS
<1>3. PICK k \in Nat, q \in Nat : q = 4 * w /\ k = h + q /\ n = k + l
  BY <1>1
<1>4. memset(m, s, c, n) = Stos(Stos(Stos(m, s, <<b>>, h), s + h, <<b, b, b, b>>, w), s + k, <<b>>, l)
  <2>1. s + h + 4 * w = s + k
    BY <1>1, <1>3
  <2> QED
    BY <1>1, <1>2, <2>1 DEF memset
<1>5. h \in Nat /\ s \in Int /\ s + h \in Int /\ s + k \in Int
  BY <1>1
<1>6. Stos(m, s, <<b>>, h) = Filled(m, s, h, b)
  BY <1>5, StosByte
<1>7. Stos(Filled(m, s, h, b), s + h, <<b, b, b, b>>, w) = Filled(m, s, k, b)
  <2>1. Stos(Filled(m, s, h, b), s + h, <<b, b, b, b>>, w) = Filled(Filled(m, s, h, b), s + h, q, b)
    BY <1>3, <1>5, StosWord
  <2> QED
    BY <1>3, <1>5, <2>1, FilledAgain
<1>8. Stos(Filled(m, s, k, b), s + k, <<b>>, l) = Filled(m, s, n, b)
  <2>1. Stos(Filled(m, s, k, b), s + k, <<b>>, l) = Filled(Filled(m, s, k, b), s + k, l, b)
    BY <1>5, StosByte
  <2> QED
    BY <1>3, <1>5, <2>1, FilledAgain
<1> QED
  BY <1>2, <1>4, <1>6, <1>7, <1>8

LEMMA LowBytesLen ==
  ASSUME NEW c, NEW size \in 1..4
  PROVE  Len(LowBytes(c, size)) = size /\ LowBytes(c, size)[1] = c % 256
<1> DEFINE s == <<c % 256, (c \div 256) % 256, (c \div 65536) % 256, (c \div 16777216) % 256>>
<1>1. Len(s) = 4 /\ s[1] = c % 256
  OBVIOUS
<1> HIDE DEF s
<1>2. Len(SubSeq(s, 1, size)) = size /\ SubSeq(s, 1, size)[1] = s[1]
  BY <1>1
<1> QED
  BY <1>1, <1>2 DEF LowBytes, s

LEMMA MemoryIs ==
  ASSUME NEW m, Memory(m)
  PROVE  Is(m) /\ DOMAIN m \subseteq Int /\ DOMAIN m \subseteq Nat
BY DEF Memory, Is

LEMMA Moved ==
  ASSUME NEW c \in Calls, c.fn \in {"memcpy", "memmove"},
         c.fn = "memcpy" => Harmless(c.dest, c.src, c.n)
  PROVE  Answer(c) = Movs(c.mem, c.dest, c.src, c.n)
<1>1. LegalMemory(c)
  BY CallsAssumption DEF MemoryCalls
<1>2. c.fn \notin DOMAIN UnitSize
  BY DEF UnitSize
<1>3. /\ Memory(c.mem) /\ c.dest \in Nat /\ c.n \in Nat /\ c.src \in Nat
      /\ Inside(c.mem, c.src, c.n)
  BY <1>1, <1>2 DEF LegalMemory, Inside
<1>4. CASE c.fn = "memcpy"
  <2>1. Answer(c) = memcpy(c.mem, c.dest, c.src, c.n)
    BY <1>4 DEF Answer
  <2> QED
    BY <1>3, <1>4, <2>1, MemoryIs, MemcpyMoves
<1>5. CASE c.fn = "memmove"
  <2>1. Answer(c) = memmove(c.mem, c.dest, c.src, c.n)
    BY <1>5 DEF Answer
  <2> QED
    BY <1>3, <2>1, MemoryIs, MemmoveMoves
<1> QED
  BY <1>4, <1>5

LEMMA Filling ==
  ASSUME NEW c \in Calls, NEW size \in 1..4, c.fn \in DOMAIN UnitSize, size = UnitSize[c.fn],
         NEW a \in DOMAIN c.mem
  PROVE  Answer(c)[a] = IF a \notin Area(c.dest, size * c.n) THEN c.mem[a]
                        ELSE LowBytes(c.src, size)[1 + ((a - c.dest) % size)]
<1>1. c.fn \in {"memset", "memset_word", "memset_dword"}
  BY DEF UnitSize
<1>2. LegalMemory(c)
  BY <1>1, CallsAssumption DEF MemoryCalls
<1>3. Memory(c.mem) /\ c.dest \in Nat /\ c.n \in Nat /\ c.src \in Int
  BY <1>2 DEF LegalMemory
<1>4. a \in Nat
  BY <1>3, MemoryIs
<1>5. CASE c.fn = "memset"
  <2>1. Answer(c) = memset(c.mem, c.dest, c.src, c.n) /\ size = 1
    BY <1>5 DEF Answer, UnitSize
  <2>2. memset(c.mem, c.dest, c.src, c.n) = Filled(c.mem, c.dest, c.n, c.src % 256)
    BY <1>3, MemsetFills
  <2>3. LowBytes(c.src, 1)[1] = c.src % 256
    BY LowBytesLen
  <2>4. 1 + ((a - c.dest) % 1) = 1 /\ 1 * c.n = c.n
    BY <1>3, <1>4
  <2> QED
    BY <2>1, <2>2, <2>3, <2>4 DEF Filled
<1>6. CASE c.fn \in {"memset_word", "memset_dword"}
  <2>1. Answer(c) = Stos(c.mem, c.dest, LowBytes(c.src, size), c.n)
    <3>1. CASE c.fn = "memset_word"
      BY <3>1 DEF Answer, UnitSize, memset_word
    <3>2. CASE c.fn = "memset_dword"
      BY <3>2 DEF Answer, UnitSize, memset_dword
    <3> QED
      BY <1>6, <3>1, <3>2
  <2>2. Len(LowBytes(c.src, size)) = size
    BY ZenonT(60), LowBytesLen
  <2> QED
    BY <1>3, <2>1, <2>2 DEF Stos, Area
<1> QED
  BY <1>1, <1>5, <1>6

(* memmove, and memcpy where no byte is written before it is read, put     *)
(* every byte in its place, and memset, memset_word and memset_dword fill  *)
(* their area and nothing else, for every memory, place, number and        *)
(* alignment.                                                              *)
THEOREM MemoryPlaced == LibrarySpec => []BytesPlaced
<1>1. LibraryInv => BytesPlaced
  <2> SUFFICES ASSUME LibraryInv PROVE BytesPlaced
    OBVIOUS
  <2>1. ASSUME Ran({"memcpy", "memmove"}), call.fn = "memcpy" => Harmless(call.dest, call.src, call.n)
        PROVE  answer = Movs(call.mem, call.dest, call.src, call.n)
    <3>1. call \in Calls /\ call.fn \in {"memcpy", "memmove"} /\ answer = Answer(call)
      BY <2>1, Answered
    <3> QED
      BY <2>1, <3>1, Moved
  <2>2. ASSUME Ran(DOMAIN UnitSize), NEW size, size = UnitSize[call.fn], NEW a \in DOMAIN call.mem
        PROVE  answer[a] = IF a \notin Area(call.dest, size * call.n) THEN call.mem[a]
                           ELSE LowBytes(call.src, size)[1 + ((a - call.dest) % size)]
    <3>1. call \in Calls /\ call.fn \in DOMAIN UnitSize /\ answer = Answer(call)
      BY <2>2, Answered
    <3>2. size \in 1..4
      BY <2>2, <3>1 DEF UnitSize
    <3> QED
      BY <2>2, <3>1, <3>2, Filling
  <2> QED
    BY <2>1, <2>2, Zenon DEF BytesPlaced
<1> QED
  BY <1>1, LibraryAnswers, PTL

-----------------------------------------------------------------------------
(* Strings                                                                 *)
LEMMA MinTwo ==
  ASSUME NEW x \in Nat, NEW y \in Nat
  PROVE  Min({x, y}) = IF x <= y THEN x ELSE y
<1>1. {x, y} \in SUBSET Nat /\ {x, y} # {}
  OBVIOUS
<1>2. Min({x, y}) \in {x, y} /\ \A z \in {x, y} : Min({x, y}) <= z
  BY <1>1, MinOf
<1> QED
  BY <1>2

(* l is the length of the string at a.                                     *)
LengthIs(m, a, l) == /\ l \in Nat /\ a..(a + l) \subseteq DOMAIN m
                     /\ m[a + l] = 0 /\ \A i \in 0..(l - 1) : m[a + i] # 0

LEMMA StrlenOf ==
  ASSUME NEW m, DOMAIN m \subseteq Nat, NEW a \in Nat, String(m, a)
  PROVE  LengthIs(m, a, strlen(m, a))
<1> DEFINE Y == {b \in DOMAIN m : b >= a /\ m[b] = 0}
           Z == {b - a : b \in Y}
<1>1. PICK e \in DOMAIN m : a <= e /\ m[e] = 0 /\ a..e \subseteq DOMAIN m
  BY DEF String
<1>2. Z \in SUBSET Nat /\ e - a \in Z
  BY <1>1
<1>3. strlen(m, a) = Min(Z)
  BY DEF strlen
<1>4. \A l : l \in Z <=> l \in Nat /\ a + l \in DOMAIN m /\ m[a + l] = 0
  <2>1. ASSUME NEW l \in Nat, a + l \in DOMAIN m, m[a + l] = 0 PROVE l \in Z
    <3>1. a + l \in Y /\ (a + l) - a = l
      BY <2>1
    <3> QED
      BY <3>1
  <2>2. ASSUME NEW l \in Z PROVE l \in Nat /\ a + l \in DOMAIN m /\ m[a + l] = 0
    <3>1. PICK b \in Y : l = b - a
      BY <2>2
    <3>2. b \in Nat /\ a + l = b
      BY <3>1
    <3> QED
      BY <3>1, <3>2
  <2> QED
    BY <2>1, <2>2
<1> HIDE DEF Z
<1>5. PICK l : l = strlen(m, a)
  OBVIOUS
<1>6. l \in Z /\ \A y \in Z : l <= y
  BY <1>2, <1>3, <1>5, MinOf
<1>7. l \in Nat /\ a + l <= e /\ e \in Nat
  BY <1>1, <1>2, <1>4, <1>6
<1>8. a..(a + l) \subseteq DOMAIN m
  BY <1>1, <1>7
<1>9. ASSUME NEW i \in 0..(l - 1) PROVE m[a + i] # 0
  <2>1. a + i \in a..(a + l) /\ i \in Nat /\ ~(l <= i)
    BY <1>7
  <2> QED
    BY <1>4, <1>6, <1>8, <2>1
<1> QED
  BY <1>4, <1>5, <1>6, <1>7, <1>8, <1>9 DEF LengthIs

LEMMA StrlenIs ==
  ASSUME NEW m, DOMAIN m \subseteq Nat, NEW a \in Nat, NEW l, LengthIs(m, a, l)
  PROVE  strlen(m, a) = l
<1>1. l \in Nat /\ a + l \in DOMAIN m /\ m[a + l] = 0 /\ a..(a + l) \subseteq DOMAIN m
      /\ \A i \in 0..(l - 1) : m[a + i] # 0
  BY DEF LengthIs
<1>2. String(m, a)
  BY <1>1 DEF String
<1>3. PICK k : k = strlen(m, a)
  OBVIOUS
<1>4. LengthIs(m, a, k)
  BY <1>2, <1>3, StrlenOf
<1>5. k \in Nat /\ m[a + k] = 0 /\ \A i \in 0..(k - 1) : m[a + i] # 0
  BY <1>4 DEF LengthIs
<1>6. ~(k < l) /\ ~(l < k)
  BY <1>1, <1>5
<1> QED
  BY <1>1, <1>3, <1>5, <1>6

(* The first p bytes at a, as a sequence                                   *)
Bytes(m, a, p) == [i \in 1..p |-> m[a + i - 1]]

LEMMA CutIs ==
  ASSUME NEW m, NEW a \in Nat, NEW n \in Nat, strlen(m, a) \in Nat
  PROVE  Cut(Str(m, a), n) = Bytes(m, a, IF n <= strlen(m, a) THEN n ELSE strlen(m, a))
<1>1. PICK l \in Nat : l = strlen(m, a)
  OBVIOUS
<1>2. PICK p \in Nat : p = IF n <= l THEN n ELSE l
  OBVIOUS
<1>3. Str(m, a) = Bytes(m, a, l)
  BY <1>1 DEF Str, Bytes
<1>4. Len(Bytes(m, a, l)) = l
  BY DEF Bytes
<1>5. Min({n, l}) = p
  BY <1>2, MinTwo
<1>6. Cut(Str(m, a), n) = SubSeq(Bytes(m, a, l), 1, p)
  BY <1>3, <1>4, <1>5 DEF Cut
<1>7. p \in 0..l
  BY <1>2
<1>8. SubSeq(Bytes(m, a, l), 1, p) = [i \in 1..p |-> Bytes(m, a, l)[i]]
  BY <1>7
<1>9. SubSeq(Bytes(m, a, l), 1, p) = Bytes(m, a, p)
  BY <1>7, <1>8 DEF Bytes
<1> QED
  BY <1>1, <1>2, <1>6, <1>9

Same(m, s1, s2, p) == \A i \in 0..(p - 1) : m[s1 + i] = m[s2 + i]

LEMMA BytesEqual ==
  ASSUME NEW m, NEW s1 \in Nat, NEW s2 \in Nat, NEW p \in Nat, NEW q \in Nat
  PROVE  Bytes(m, s1, p) = Bytes(m, s2, q) <=> p = q /\ Same(m, s1, s2, p)
<1>1. ASSUME Bytes(m, s1, p) = Bytes(m, s2, q)
      PROVE  p = q /\ Same(m, s1, s2, p)
  <2>1. 1..p = 1..q
    BY <1>1 DEF Bytes
  <2>2. p = q
    BY <2>1
  <2>3. ASSUME NEW i \in 0..(p - 1) PROVE m[s1 + i] = m[s2 + i]
    <3>1. i + 1 \in 1..p /\ s1 + (i + 1) - 1 = s1 + i /\ s2 + (i + 1) - 1 = s2 + i
      OBVIOUS
    <3> QED
      BY <1>1, <2>2, <3>1 DEF Bytes
  <2> QED
    BY <2>2, <2>3 DEF Same
<1>2. ASSUME p = q, Same(m, s1, s2, p)
      PROVE  Bytes(m, s1, p) = Bytes(m, s2, q)
  <2>1. ASSUME NEW i \in 1..p PROVE m[s1 + i - 1] = m[s2 + i - 1]
    <3>1. i - 1 \in 0..(p - 1) /\ s1 + i - 1 = s1 + (i - 1) /\ s2 + i - 1 = s2 + (i - 1)
      OBVIOUS
    <3> QED
      BY <1>2, <3>1 DEF Same
  <2> QED
    BY <1>2, <2>1 DEF Bytes
<1> QED
  BY <1>1, <1>2

(* Where a comparison of at most n bytes may end                           *)
Stops(m, s1, s2, n) == {i \in 0..(n - 1) : m[s1 + i] # m[s2 + i] \/ m[s1 + i] = 0}

StopAt(m, s1, s2, n, k) ==
  /\ k \in 0..(n - 1) /\ k = Min(Stops(m, s1, s2, n)) /\ (m[s1 + k] # m[s2 + k] \/ m[s1 + k] = 0)
  /\ \A i \in 0..(k - 1) : m[s1 + i] = m[s2 + i] /\ m[s1 + i] # 0

LEMMA StopsBefore ==
  ASSUME NEW m, NEW s1 \in Nat, NEW s2 \in Nat, NEW n \in Nat, NEW l1, NEW l2,
         LengthIs(m, s1, l1), LengthIs(m, s2, l2), Stops(m, s1, s2, n) # {}
  PROVE  \E k \in 0..l1 : k <= l2 /\ StopAt(m, s1, s2, n, k)
<1> DEFINE Z == Stops(m, s1, s2, n)
<1>1. Z \in SUBSET Nat /\ Z # {}
  BY DEF Stops
<1>2. PICK k \in Z : k = Min(Z) /\ \A y \in Z : k <= y
  BY <1>1, MinOf
<1>3. k \in 0..(n - 1) /\ (m[s1 + k] # m[s2 + k] \/ m[s1 + k] = 0)
  BY <1>2 DEF Stops
<1>4. ASSUME NEW i \in 0..(k - 1) PROVE m[s1 + i] = m[s2 + i] /\ m[s1 + i] # 0
  <2>1. i \in 0..(n - 1) /\ ~(k <= i)
    BY <1>3
  <2>2. i \notin Z
    BY <1>2, <2>1
  <2> QED
    BY <2>1, <2>2 DEF Stops
<1>5. l1 \in Nat /\ l2 \in Nat /\ m[s1 + l1] = 0 /\ m[s2 + l2] = 0
  BY DEF LengthIs
<1>6. ~(l1 < k) /\ ~(l2 < k)
  BY <1>3, <1>4, <1>5
<1>7. k \in 0..(n - 1) /\ k = Min(Stops(m, s1, s2, n)) /\ k <= l1 /\ k <= l2
  BY <1>2, <1>3, <1>5, <1>6
<1> HIDE DEF Z
<1>8. StopAt(m, s1, s2, n, k)
  BY <1>3, <1>4, <1>7 DEF StopAt
<1>9. k \in 0..l1
  BY <1>3, <1>5, <1>7
<1> QED
  BY <1>7, <1>8, <1>9

LEMMA StopsEqual ==
  ASSUME NEW m, NEW s1 \in Nat, NEW s2 \in Nat, NEW n \in Nat, DOMAIN m \subseteq Nat,
         String(m, s1), String(m, s2), NEW Z, Z = Stops(m, s1, s2, n)
  PROVE  (Z = {} \/ m[s1 + Min(Z)] = m[s2 + Min(Z)]) <=> Cut(Str(m, s1), n) = Cut(Str(m, s2), n)
<1>1. PICK l1 \in Nat, l2 \in Nat : /\ l1 = strlen(m, s1) /\ l2 = strlen(m, s2)
                                    /\ LengthIs(m, s1, l1) /\ LengthIs(m, s2, l2)
  BY StrlenOf DEF LengthIs
<1>2. PICK p \in Nat, q \in Nat : p = (IF n <= l1 THEN n ELSE l1) /\ q = (IF n <= l2 THEN n ELSE l2)
  OBVIOUS
<1>3. Cut(Str(m, s1), n) = Bytes(m, s1, p) /\ Cut(Str(m, s2), n) = Bytes(m, s2, q)
  BY <1>1, <1>2, CutIs
<1>4. Cut(Str(m, s1), n) = Cut(Str(m, s2), n)
        <=> p = q /\ Same(m, s1, s2, p)
  BY <1>3, BytesEqual
<1>5. /\ m[s1 + l1] = 0 /\ m[s2 + l2] = 0 /\ \A i \in 0..(l1 - 1) : m[s1 + i] # 0
      /\ \A i \in 0..(l2 - 1) : m[s2 + i] # 0
  BY <1>1 DEF LengthIs
<1>6. CASE Z = {}
  <2>1. \A i \in 0..(n - 1) : m[s1 + i] = m[s2 + i] /\ m[s1 + i] # 0
    BY <1>6 DEF Stops
  <2>2. ~(l1 < n) /\ ~(l2 < n)
    BY <1>5, <2>1
  <2> QED
    BY <1>2, <1>4, <1>6, <2>1, <2>2 DEF Same
<1>7. CASE Z # {}
  <2>1. PICK k \in 0..l1 : k <= l2 /\ StopAt(m, s1, s2, n, k)
    BY <1>1, <1>7, StopsBefore
  <2>2. /\ k \in 0..(n - 1) /\ k = Min(Z) /\ k <= l1 /\ k <= l2
        /\ m[s1 + k] # m[s2 + k] \/ m[s1 + k] = 0
        /\ \A i \in 0..(k - 1) : m[s1 + i] = m[s2 + i] /\ m[s1 + i] # 0
    BY <2>1 DEF StopAt
  <2>3. ASSUME m[s1 + k] = m[s2 + k] PROVE p = q /\ Same(m, s1, s2, p)
    <3>1. ~(k < l1) /\ ~(k < l2)
      BY <1>5, <2>2, <2>3
    <3>2. p = k /\ q = k
      BY <1>2, <2>2, <3>1
    <3> QED
      BY <2>2, <3>2 DEF Same
  <2>4. ASSUME p = q, Same(m, s1, s2, p) PROVE m[s1 + k] = m[s2 + k]
    <3>1. CASE k < p
      BY <2>4, <3>1 DEF Same
    <3>2. CASE ~(k < p)
      <4>1. l1 = k /\ l2 = k
        BY <1>2, <2>2, <2>4, <3>2
      <4> QED
        BY <1>5, <4>1
    <3> QED
      BY <3>1, <3>2
  <2> QED
    BY <1>4, <1>7, <2>2, <2>3, <2>4
<1> QED
  BY <1>6, <1>7

(* Where the comparison stops, there are two bytes.                        *)
LEMMA StopBytes ==
  ASSUME NEW m, NEW s1 \in Nat, NEW s2 \in Nat, NEW n \in Nat, Memory(m),
         String(m, s1), String(m, s2), NEW Z, Z = Stops(m, s1, s2, n), Z # {}
  PROVE  m[s1 + Min(Z)] \in 0..255 /\ m[s2 + Min(Z)] \in 0..255
<1>1. DOMAIN m \subseteq Nat /\ \A a \in DOMAIN m : m[a] \in 0..255
  BY DEF Memory
<1>2. PICK l1 \in Nat, l2 \in Nat : LengthIs(m, s1, l1) /\ LengthIs(m, s2, l2)
  BY <1>1, StrlenOf DEF LengthIs
<1>3. PICK k \in 0..l1 : k <= l2 /\ StopAt(m, s1, s2, n, k)
  BY <1>2, StopsBefore
<1>4. k = Min(Z) /\ s1 + k \in s1..(s1 + l1) /\ s2 + k \in s2..(s2 + l2)
  BY <1>2, <1>3 DEF StopAt
<1>5. s1 + k \in DOMAIN m /\ s2 + k \in DOMAIN m
  BY <1>2, <1>4 DEF LengthIs
<1> QED
  BY <1>1, <1>4, <1>5

LEMMA Compared ==
  ASSUME NEW m, NEW s1 \in Nat, NEW s2 \in Nat, NEW n \in Nat, Memory(m),
         String(m, s1), String(m, s2)
  PROVE  /\ strncmp(m, s1, s2, n) = 0 <=> Cut(Str(m, s1), n) = Cut(Str(m, s2), n)
         /\ ece391_strncmp(m, s1, s2, n) = 0 <=> Cut(Str(m, s1), n) = Cut(Str(m, s2), n)
<1>1. PICK Z : Z = Stops(m, s1, s2, n)
  OBVIOUS
<1>2. (Z = {} \/ m[s1 + Min(Z)] = m[s2 + Min(Z)]) <=> Cut(Str(m, s1), n) = Cut(Str(m, s2), n)
  BY <1>1, StopsEqual DEF Memory
<1>3. strncmp(m, s1, s2, n) = IF Z = {} THEN 0 ELSE Signed(m[s1 + Min(Z)]) - Signed(m[s2 + Min(Z)])
  BY <1>1 DEF strncmp, Stops
<1>4. ece391_strncmp(m, s1, s2, n) = IF Z = {} THEN 0 ELSE m[s1 + Min(Z)] - m[s2 + Min(Z)]
  BY <1>1 DEF ece391_strncmp, Stops
<1>5. CASE Z = {}
  BY <1>2, <1>3, <1>4, <1>5
<1>6. CASE Z # {}
  <2>1. PICK x \in 0..255, y \in 0..255 : x = m[s1 + Min(Z)] /\ y = m[s2 + Min(Z)]
    BY ZenonT(60), <1>1, <1>6, StopBytes
  <2>2. (x - y = 0 <=> x = y) /\ (Signed(x) - Signed(y) = 0 <=> x = y)
    <3>1. x \in 0..255 /\ y \in 0..255
      BY <2>1
    <3>2. PICK v \in Int, w \in Int : v = Signed(x) /\ w = Signed(y) /\ (v = w <=> x = y)
      BY <3>1 DEF Signed
    <3>3. (x - y = 0 <=> x = y) /\ (v - w = 0 <=> v = w)
      BY <3>1, <3>2
    <3> QED
      BY <3>2, <3>3
  <2>3. strncmp(m, s1, s2, n) = Signed(x) - Signed(y) /\ ece391_strncmp(m, s1, s2, n) = x - y
    BY <1>3, <1>4, <1>6, <2>1
  <2>4. x = y <=> Cut(Str(m, s1), n) = Cut(Str(m, s2), n)
    BY <1>2, <1>6, <2>1
  <2> QED
    BY SMTT(30), <2>2, <2>3, <2>4
<1> QED
  BY <1>5, <1>6

LEMMA ComparedWhole ==
  ASSUME NEW m, NEW s1 \in Nat, NEW s2 \in Nat, Memory(m), String(m, s1), String(m, s2)
  PROVE  ece391_strcmp(m, s1, s2) = 0 <=> Str(m, s1) = Str(m, s2)
<1>1. DOMAIN m \subseteq Nat
  BY DEF Memory
<1>2. PICK l1 \in Nat, l2 \in Nat : /\ l1 = strlen(m, s1) /\ l2 = strlen(m, s2)
                                    /\ LengthIs(m, s1, l1) /\ LengthIs(m, s2, l2)
  BY <1>1, StrlenOf DEF LengthIs
<1>3. PICK n \in Nat : n = l1 + 1
  BY <1>2
<1>4. PICK Z : Z = Stops(m, s1, s2, n)
  OBVIOUS
<1>5. l1 \in Z
  BY <1>2, <1>3, <1>4 DEF Stops, LengthIs
<1>6. ece391_strcmp(m, s1, s2) = m[s1 + Min(Z)] - m[s2 + Min(Z)]
  <2>1. n - 1 = l1
    BY <1>2, <1>3
  <2>2. Z = {k \in 0..strlen(m, s1) : m[s1 + k] # m[s2 + k] \/ m[s1 + k] = 0}
    BY <1>2, <1>4, <2>1 DEF Stops
  <2> QED
    BY <2>2 DEF ece391_strcmp
<1>7. m[s1 + Min(Z)] \in 0..255 /\ m[s2 + Min(Z)] \in 0..255
  BY ZenonT(60), <1>4, <1>5, StopBytes
<1>8. m[s1 + Min(Z)] = m[s2 + Min(Z)] <=> Cut(Str(m, s1), n) = Cut(Str(m, s2), n)
  BY <1>1, <1>4, <1>5, StopsEqual
<1>9. Cut(Str(m, s1), n) = Cut(Str(m, s2), n) <=> Str(m, s1) = Str(m, s2)
  <2>1. PICK q \in Nat : q = IF n <= l2 THEN n ELSE l2
    BY <1>2, <1>3
  <2>2. Cut(Str(m, s1), n) = Bytes(m, s1, l1) /\ Cut(Str(m, s2), n) = Bytes(m, s2, q)
    BY <1>2, <1>3, <2>1, CutIs
  <2>3. Str(m, s1) = Bytes(m, s1, l1) /\ Str(m, s2) = Bytes(m, s2, l2)
    BY <1>2 DEF Str, Bytes
  <2>4. Bytes(m, s1, l1) = Bytes(m, s2, q) <=> l1 = q /\ Same(m, s1, s2, l1)
    BY <1>2, <2>1, BytesEqual
  <2>5. Bytes(m, s1, l1) = Bytes(m, s2, l2) <=> l1 = l2 /\ Same(m, s1, s2, l1)
    BY <1>2, <2>1, BytesEqual
  <2>6. l1 = q <=> l1 = l2
    BY <1>2, <1>3, <2>1
  <2> QED
    BY <2>2, <2>3, <2>4, <2>6, <2>5
<1>10. PICK x \in 0..255, y \in 0..255 : x = m[s1 + Min(Z)] /\ y = m[s2 + Min(Z)]
  BY <1>7
<1>11. x - y = 0 <=> x = y
  BY <1>10
<1>12. ece391_strcmp(m, s1, s2) = x - y /\ (x = y <=> Str(m, s1) = Str(m, s2))
  BY <1>6, <1>8, <1>9, <1>10
<1> QED
  BY <1>11, <1>12

LEMMA StringCopied ==
  ASSUME NEW m, NEW dest \in Nat, NEW src \in Nat, Memory(m), String(m, src),
         NEW n, n = strlen(m, src) + 1, Inside(m, dest, n), Harmless(dest, src, n)
  PROVE  Str(strcpy(m, dest, src), dest) = Str(m, src)
<1>1. Is(m) /\ DOMAIN m \subseteq Int /\ DOMAIN m \subseteq Nat
  BY MemoryIs
<1>2. PICK l \in Nat : l = strlen(m, src) /\ n = l + 1 /\ LengthIs(m, src, l)
  BY <1>1, StrlenOf DEF LengthIs
<1>3. PICK M : M = Movs(m, dest, src, n)
  OBVIOUS
<1>4. strcpy(m, dest, src) = M
  <2>1. Inside(m, src, n)
    BY <1>2 DEF Inside, Area, LengthIs
  <2>2. 1 * n = n /\ n \in Nat
    BY <1>2
  <2>3. Rep(m, dest, src, 1, n) = Movs(m, dest, src, 1 * n)
    BY <1>1, <2>1, <2>2, RepMoves
  <2> QED
    BY <1>3, <2>2, <2>3 DEF strcpy
<1>5. ASSUME NEW i \in 0..l PROVE M[dest + i] = m[src + i]
  <2>1. dest + i \in Area(dest, n) /\ src + (dest + i) - dest = src + i
    BY <1>2 DEF Area
  <2> QED
    BY <1>3, <2>1 DEF Movs, Inside, Area
<1>6. DOMAIN M = DOMAIN m
  BY <1>3, MovsIs
<1>7. LengthIs(M, dest, l)
  <2>1. l \in 0..l /\ \A i \in 0..(l - 1) : i \in 0..l
    OBVIOUS
  <2>2. dest..(dest + l) \subseteq DOMAIN M
    BY <1>2, <1>6 DEF Inside, Area
  <2> QED
    BY <1>2, <1>5, <2>1, <2>2 DEF LengthIs
<1>8. strlen(M, dest) = l
  BY <1>1, <1>6, <1>7, StrlenIs
<1>9. ASSUME NEW i \in 1..l PROVE M[dest + i - 1] = m[src + i - 1]
  <2>1. i - 1 \in 0..l /\ dest + (i - 1) = dest + i - 1 /\ src + (i - 1) = src + i - 1
    OBVIOUS
  <2>2. M[dest + (i - 1)] = m[src + (i - 1)]
    BY <1>5, <2>1
  <2> QED
    BY <2>1, <2>2
<1> QED
  BY <1>2, <1>4, <1>8, <1>9 DEF Str

LEMMA NulIs ==
  ASSUME NEW m, NEW s \in Nat, NEW n \in Nat, NEW l, LengthIs(m, s, l)
  PROVE  NulWithin(m, s, n) = IF n <= l THEN n ELSE l
<1> DEFINE Z == {k \in 0..n : k = n \/ m[s + k] = 0}
<1>1. l \in Nat /\ m[s + l] = 0 /\ \A i \in 0..(l - 1) : m[s + i] # 0
  BY DEF LengthIs
<1>2. Z \in SUBSET Nat /\ n \in Z
  OBVIOUS
<1>3. \A k : k \in Z <=> k \in 0..n /\ (k = n \/ m[s + k] = 0)
  OBVIOUS
<1>4. NulWithin(m, s, n) = Min(Z)
  BY DEF NulWithin
<1> HIDE DEF Z
<1>5. PICK k \in Nat : k = Min(Z) /\ k \in Z /\ \A y \in Z : k <= y
  BY <1>2, MinOf
<1>6. k \in 0..n /\ (k = n \/ m[s + k] = 0)
  BY <1>3, <1>5
<1>7. CASE n <= l
  <2>1. k = n
    BY <1>1, <1>6, <1>7
  <2> QED
    BY <1>4, <1>5, <1>7, <2>1
<1>8. CASE ~(n <= l)
  <2>1. l \in Z
    BY <1>1, <1>3, <1>8
  <2>2. k <= l
    BY <1>5, <2>1
  <2>3. ~(k < l)
    BY <1>1, <1>5, <1>6, <1>8
  <2> QED
    BY <1>1, <1>4, <1>5, <1>8, <2>2, <2>3
<1> QED
  BY <1>7, <1>8

LEMMA StringPadded ==
  ASSUME NEW m, NEW dest \in Nat, NEW src \in Nat, NEW n \in Nat, Memory(m), String(m, src),
         Inside(m, dest, n), Harmless(dest, src, n), NEW i \in 1..n
  PROVE  strncpy(m, dest, src, n)[dest + i - 1] = IF i <= strlen(m, src) THEN m[src + i - 1] ELSE 0
<1>1. Is(m) /\ DOMAIN m \subseteq Int /\ DOMAIN m \subseteq Nat
  BY MemoryIs
<1>2. PICK l \in Nat : l = strlen(m, src) /\ LengthIs(m, src, l)
  BY <1>1, StrlenOf DEF LengthIs
<1>3. PICK k \in 0..n : k = NulWithin(m, src, n) /\ k = IF n <= l THEN n ELSE l
  BY <1>2, NulIs
<1>4. PICK M : M = Movs(m, dest, src, k)
  OBVIOUS
<1>5. Rep(m, dest, src, 1, k) = M
  <2>1. Inside(m, src, k) /\ Harmless(dest, src, k)
    BY <1>2, <1>3 DEF Inside, Area, LengthIs, Harmless
  <2>2. 1 * k = k /\ k \in Nat
    BY <1>3
  <2>3. Rep(m, dest, src, 1, k) = Movs(m, dest, src, 1 * k)
    BY <1>1, <2>1, <2>2, RepMoves
  <2> QED
    BY <1>4, <2>2, <2>3
<1>6. strncpy(m, dest, src, n) = Filled(M, dest + k, n - k, 0)
  <2>1. n - k \in Nat /\ dest + k \in Int
    BY <1>3
  <2>2. Stos(M, dest + k, <<0>>, n - k) = Filled(M, dest + k, n - k, 0)
    BY <2>1, StosByte
  <2> QED
    BY <1>3, <1>5, <2>2 DEF strncpy
<1>7. PICK a \in Nat : a = dest + i - 1
  OBVIOUS
<1>8. a \in DOMAIN m /\ a \in DOMAIN M
  <2>1. a \in Area(dest, n)
    BY <1>7 DEF Area
  <2> QED
    BY <1>4, <2>1, MovsIs DEF Inside
<1>9. Filled(M, dest + k, n - k, 0)[a] = IF a \in Area(dest + k, n - k) THEN 0 ELSE M[a]
  BY <1>8 DEF Filled
<1>10. M[a] = IF a \in dest..(dest + k - 1) THEN m[src + a - dest] ELSE m[a]
  BY <1>4, <1>8 DEF Movs
<1>11. CASE i <= l
  <2>1. a \notin Area(dest + k, n - k) /\ a \in dest..(dest + k - 1) /\ src + a - dest = src + i - 1
    BY <1>3, <1>7, <1>11 DEF Area
  <2> QED
    BY <1>2, <1>6, <1>7, <1>9, <1>10, <1>11, <2>1
<1>12. CASE ~(i <= l)
  <2>1. a \in Area(dest + k, n - k)
    BY <1>3, <1>7, <1>12 DEF Area
  <2> QED
    BY <1>2, <1>6, <1>7, <1>9, <1>12, <2>1
<1> QED
  BY <1>11, <1>12

(* strncmp of the kernel and of the programs and ece391_strcmp tell equal  *)
(* strings from different ones, strcpy copies the string and strncpy its   *)
(* first n characters, padded with 0, for all strings, places and n.       *)
THEOREM StringsKept == LibrarySpec => []StringsHold
<1>1. ASSUME NEW c \in Calls, c.fn \in {"strcpy", "strncpy", "compare"}
      PROVE  Memory(c.mem) /\ c.dest \in Nat /\ c.n \in Nat /\ c.src \in Nat /\ String(c.mem, c.src)
  <2>1. LegalMemory(c)
    BY <1>1, CallsAssumption DEF MemoryCalls
  <2>2. c.fn \notin DOMAIN UnitSize
    BY <1>1 DEF UnitSize
  <2> QED
    BY <1>1, <2>1, <2>2 DEF LegalMemory
<1>2. LibraryInv => StringsHold
  <2> SUFFICES ASSUME LibraryInv PROVE StringsHold
    OBVIOUS
  <2>1. ASSUME Ran({"compare"})
        PROVE  /\ (answer.kernel = 0) = Equal(call) /\ (answer.program = 0) = Equal(call)
               /\ (answer.whole = 0) = (Str(call.mem, call.dest) = Str(call.mem, call.src))
    <3>1. call \in Calls /\ call.fn = "compare" /\ answer = Answer(call)
      BY <2>1, Answered
    <3>2. answer = [kernel |-> strncmp(call.mem, call.dest, call.src, call.n),
                    program |-> ece391_strncmp(call.mem, call.dest, call.src, call.n),
                    whole |-> ece391_strcmp(call.mem, call.dest, call.src)]
      BY <3>1 DEF Answer
    <3>3. String(call.mem, call.dest)
      BY <3>1, CallsAssumption DEF MemoryCalls, LegalMemory
    <3>4. /\ strncmp(call.mem, call.dest, call.src, call.n) = 0 <=> Equal(call)
          /\ ece391_strncmp(call.mem, call.dest, call.src, call.n) = 0 <=> Equal(call)
      BY <1>1, <3>1, <3>3, Compared DEF Equal
    <3>5. ece391_strcmp(call.mem, call.dest, call.src) = 0 <=> Str(call.mem, call.dest) = Str(call.mem, call.src)
      BY <1>1, <3>1, <3>3, ComparedWhole
    <3> QED
      BY <3>2, <3>4, <3>5 DEF Equal
  <2>2. ASSUME Ran({"strcpy"}) PROVE Str(answer, call.dest) = Str(call.mem, call.src)
    <3>1. call \in Calls /\ call.fn = "strcpy" /\ answer = Answer(call)
      BY <2>2, Answered
    <3>2. answer = strcpy(call.mem, call.dest, call.src)
      BY <3>1 DEF Answer
    <3>3. PICK n : n = strlen(call.mem, call.src) + 1
      OBVIOUS
    <3>4. Inside(call.mem, call.dest, n) /\ Harmless(call.dest, call.src, n)
      BY <3>1, <3>3, CallsAssumption DEF MemoryCalls, LegalMemory, Inside
    <3> QED
      BY <1>1, <3>1, <3>2, <3>3, <3>4, StringCopied
  <2>3. ASSUME Ran({"strncpy"}), NEW i \in 1..call.n
        PROVE  answer[call.dest + i - 1] = IF i <= strlen(call.mem, call.src)
                                           THEN call.mem[call.src + i - 1] ELSE 0
    <3>1. call \in Calls /\ call.fn = "strncpy" /\ answer = Answer(call)
      BY <2>3, Answered
    <3>2. answer = strncpy(call.mem, call.dest, call.src, call.n)
      BY <3>1 DEF Answer
    <3>3. Inside(call.mem, call.dest, call.n) /\ Harmless(call.dest, call.src, call.n)
      BY <3>1, CallsAssumption DEF MemoryCalls, LegalMemory, Inside
    <3>4. PICK m, d, s, n : m = call.mem /\ d = call.dest /\ s = call.src /\ n = call.n
      OBVIOUS
    <3>5. /\ Memory(m) /\ d \in Nat /\ n \in Nat /\ s \in Nat /\ String(m, s)
          /\ Inside(m, d, n) /\ Harmless(d, s, n) /\ i \in 1..n
      BY <1>1, <2>3, <3>1, <3>3, <3>4
    <3>6. strncpy(m, d, s, n)[d + i - 1] = IF i <= strlen(m, s) THEN m[s + i - 1] ELSE 0
      BY <3>5, StringPadded
    <3> QED
      BY <3>2, <3>4, <3>6
  <2> QED
    BY <2>1, <2>2, <2>3, Zenon DEF StringsHold
<1> QED
  BY <1>2, LibraryAnswers, PTL

-----------------------------------------------------------------------------
(* Division                                                                *)
LEMMA DivMod ==
  ASSUME NEW B \in Nat \ {0}, NEW x \in Nat
  PROVE  x \div B \in Nat /\ x % B \in 0..(B - 1) /\ x = B * (x \div B) + (x % B)
OBVIOUS

LEMMA TimesLess ==
  ASSUME NEW B \in Nat, NEW p \in Int, NEW q \in Int, p <= q
  PROVE  B * p <= B * q
OBVIOUS

LEMMA DivModUnique ==
  ASSUME NEW B \in Nat \ {0}, NEW q \in Int, NEW p \in Int, NEW r \in 0..(B - 1), NEW s \in 0..(B - 1),
         B * q + r <= B * p + s
  PROVE  q <= p /\ (B * q + r = B * p + s => q = p /\ r = s)
<1>1. ASSUME NEW a \in Int, NEW b \in Int, NEW c \in 0..(B - 1), NEW d \in 0..(B - 1), a + 1 <= b
      PROVE  B * a + c < B * b + d
  <2>1. B * (a + 1) <= B * b
    BY <1>1, TimesLess
  <2>2. B * (a + 1) = B * a + B
    OBVIOUS
  <2> QED
    BY <2>1, <2>2
<1>2. q <= p
  <2>1. ~(p + 1 <= q)
    BY <1>1
  <2> QED
    BY <2>1
<1>3. ASSUME B * q + r = B * p + s PROVE q = p
  <2>1. ~(q + 1 <= p)
    BY <1>1, <1>3
  <2> QED
    BY <1>2, <2>1
<1> QED
  BY <1>2, <1>3

LEMMA DivModOf ==
  ASSUME NEW B \in Nat \ {0}, NEW q \in Nat, NEW r \in 0..(B - 1)
  PROVE  (B * q + r) \div B = q /\ (B * q + r) % B = r
<1>1. B * q + r \in Nat
  OBVIOUS
<1>2. PICK x \in Nat : x = B * q + r
  BY <1>1
<1>3. x \div B \in Nat /\ x % B \in 0..(B - 1) /\ x = B * (x \div B) + (x % B)
  BY DivMod
<1> QED
  BY <1>2, <1>3, DivModUnique

LEMMA Multiples ==
  ASSUME NEW B \in Nat \ {0}, NEW K \in Nat, NEW k \in 0..K
  PROVE  B * k \in Nat /\ B * K \in Nat /\ B * k <= B * K
<1>1. k \in Int /\ K \in Int /\ B \in Nat /\ k <= K
  OBVIOUS
<1>2. B * k <= B * K
  BY <1>1, TimesLess
<1> QED
  BY <1>2

LEMMA MultipleBefore ==
  ASSUME NEW B \in Nat \ {0}, NEW K \in Nat, NEW k \in 1..K
  PROVE  B * (k - 1) \in Nat /\ B * k = B * (k - 1) + B /\ B * k <= B * K
<1>1. B * k <= B * K
  BY Multiples
<1> QED
  BY <1>1

LEMMA QuotientLess ==
  ASSUME NEW B \in Nat \ {0}, NEW K \in Nat, NEW x \in Nat, x < B * K
  PROVE  x \div B \in 0..(K - 1) /\ x % B \in 0..(B - 1)
<1>1. PICK q \in Nat, w \in 0..(B - 1) : q = x \div B /\ w = x % B /\ x = B * q + w
  BY DivMod
<1>2. ~(K <= q)
  <2>1. ASSUME K <= q PROVE FALSE
    <3>1. B * K <= B * q
      BY <2>1, TimesLess
    <3> QED
      BY <1>1, <3>1
  <2> QED
    BY <2>1
<1> QED
  BY <1>1, <1>2

(* Sequences                                                               *)
LEMMA FunctionIsSeq ==
  ASSUME NEW S, NEW n \in Nat, NEW f \in [1..n -> S]
  PROVE  f \in Seq(S) /\ Len(f) = n
OBVIOUS

Piece(W, x, y) == SubSeq(W, x + 1, y)

LEMMA PieceJoin ==
  ASSUME NEW S, NEW W \in Seq(S), NEW x \in Nat, NEW y \in Nat, NEW z \in Nat,
         x <= y, y <= z, z <= Len(W)
  PROVE  Piece(W, x, y) \o Piece(W, y, z) = Piece(W, x, z)
<1>1. PICK L \in Nat : L = Len(W)
  BY LenProperties
<1>2. x + 1 \in 1..(L + 1) /\ y \in ((x + 1) - 1)..L /\ z \in y..L
  BY <1>1
<1> QED
  BY <1>1, <1>2, ConcatAdjacentSubSeq DEF Piece

LEMMA PiecesJoin ==
  \A S : \A W \in Seq(S) : \A p, q, t \in Nat :
    p <= q /\ q <= t /\ t <= Len(W) => Piece(W, p, q) \o Piece(W, q, t) = Piece(W, p, t)
BY PieceJoin

(* Files: sequences that are pieces of W, one after the other, are         *)
(* together a piece of W.                                                  *)
InPieces(seqs, W, E, K) == \A k \in 1..K : E[k - 1] <= E[k] /\ seqs[k] = Piece(W, E[k - 1], E[k])

LEMMA FlattenPieces ==
  ASSUME NEW S, NEW W \in Seq(S), NEW K \in Nat \ {0}, NEW E \in [0..K -> 0..Len(W)],
         NEW seqs, Len(seqs) = K,
         InPieces(seqs, W, E, K)
  PROVE  FlattenSeq(seqs) = Piece(W, E[0], E[K])
<1> DEFINE D(f) == f = [i \in 1..Len(seqs) |-> IF i = 1 THEN seqs[i] ELSE f[i - 1] \o seqs[i]]
           g == [i \in 1..K |-> Piece(W, E[0], E[i])]
<1>1. PICK L \in Nat : L = Len(W)
  BY LenProperties
<1>2. \A k \in 0..K : E[0] <= E[k] /\ E[k] \in 0..L
  <2> DEFINE Z == {k \in 0..K : E[0] <= E[k]}
  <2>1. 0 \in Z
    OBVIOUS
  <2>2. ASSUME NEW k \in 0..(K - 1), k \in Z PROVE k + 1 \in Z
    <3>1. k + 1 \in 1..K /\ (k + 1) - 1 = k /\ k + 1 \in 0..K
      OBVIOUS
    <3>2. E[k] <= E[k + 1]
      BY <3>1 DEF InPieces
    <3> QED
      BY <2>2, <3>1, <3>2
  <2> HIDE DEF Z
  <2>3. \A k \in 0..K : k \in Z
    BY <2>1, <2>2, InductionTo
  <2> QED
    BY <1>1, <2>3 DEF Z
<1>3. ASSUME NEW i \in 1..K
      PROVE  g[i] = IF i = 1 THEN seqs[i] ELSE g[i - 1] \o seqs[i]
  <2>1. CASE i = 1
    BY <2>1 DEF InPieces
  <2>2. CASE i # 1
    <3>1. i - 1 \in 1..K /\ i - 1 \in 0..K /\ i \in 0..K
      BY <2>2
    <3>2. PICK x \in 0..L, y \in 0..L, z \in 0..L :
             x = E[0] /\ y = E[i - 1] /\ z = E[i] /\ x <= y /\ y <= z
      <4>1. E[0] \in 0..L /\ E[i - 1] \in 0..L /\ E[i] \in 0..L /\ E[0] <= E[i - 1]
        BY <1>2, <3>1
      <4>2. E[i - 1] <= E[i]
        BY DEF InPieces
      <4> QED
        BY <4>1, <4>2
    <3>3. x \in Nat /\ y \in Nat /\ z \in Nat /\ x <= y /\ y <= z /\ z <= Len(W)
      BY <1>1, <3>2
    <3>4. Piece(W, x, y) \o Piece(W, y, z) = Piece(W, x, z)
      BY <3>3, PiecesJoin
    <3>5. g[i - 1] = Piece(W, x, y) /\ seqs[i] = Piece(W, y, z) /\ g[i] = Piece(W, x, z)
      BY <3>1, <3>2 DEF InPieces
    <3> QED
      BY <2>2, <3>4, <3>5
  <2> QED
    BY <2>1, <2>2
<1>4. g[K] = Piece(W, E[0], E[K]) /\ g = [i \in 1..K |-> g[i]]
  <2>1. K \in 1..K
    OBVIOUS
  <2>2. g[K] = Piece(W, E[0], E[K])
    BY <2>1
  <2> QED
    BY <2>2
<1> HIDE DEF g
<1>5. D(g)
  BY <1>3, <1>4
<1> DEFINE r == CHOOSE f : D(f)
<1>6. D(r)
  BY <1>5
<1>7. FlattenSeq(seqs) = r[K]
  BY DEF FlattenSeq
<1> HIDE DEF r
<1>8. \A i \in 1..K : r[i] = IF i = 1 THEN seqs[i] ELSE r[i - 1] \o seqs[i]
  BY <1>6
<1> DEFINE Z == {i \in 0..(K - 1) : r[i + 1] = g[i + 1]}
<1>9. 0 \in Z
  BY <1>3, <1>8
<1>10. ASSUME NEW i \in 0..((K - 1) - 1), i \in Z PROVE i + 1 \in Z
  <2>1. PICK j \in 1..K : j = (i + 1) + 1 /\ j # 1 /\ j - 1 = i + 1
    OBVIOUS
  <2>2. r[j] = r[j - 1] \o seqs[j] /\ g[j] = g[j - 1] \o seqs[j]
    BY <1>3, <1>8, <2>1
  <2>3. r[j - 1] = g[j - 1]
    BY <1>10, <2>1
  <2>4. i + 1 \in 0..(K - 1) /\ r[(i + 1) + 1] = g[(i + 1) + 1]
    BY <2>1, <2>2, <2>3
  <2> QED
    BY <2>4
<1> HIDE DEF Z
<1>11. K - 1 \in Z
  <2>1. PICK k \in Nat : k = K - 1
    OBVIOUS
  <2>2. \A i \in 0..(k - 1) : i \in Z => i + 1 \in Z
    BY <1>10, <2>1
  <2>3. \A i \in 0..k : i \in Z
    BY <1>9, <2>2, InductionTo
  <2> QED
    BY <2>1, <2>3
<1>12. r[K] = g[K]
  BY <1>11 DEF Z
<1> QED
  BY <1>4, <1>7, <1>12

(* The blocks of a file are the pieces of all its bytes.                   *)
Whole(blocks, B) == \A i \in DOMAIN blocks : Len(blocks[i]) = B
Pieces(blocks, B, W) == \A k \in 1..Len(blocks) : blocks[k] = Piece(W, B * (k - 1), B * k)

LEMMA WholeBlocks ==
  ASSUME NEW B \in Nat \ {0}, NEW S, NEW blocks \in Seq(Seq(S)), Whole(blocks, B)
  PROVE  \E W \in Seq(S) : W = FlattenSeq(blocks) /\ Len(W) = B * Len(blocks) /\ Pieces(blocks, B, W)
<1>1. PICK K \in Nat : K = Len(blocks) /\ DOMAIN blocks = 1..K
  BY LenProperties
<1>2. CASE K = 0
  <2>1. blocks = <<>>
    BY <1>1, <1>2, EmptySeq
  <2>2. FlattenSeq(blocks) = blocks
    BY <1>1, <1>2 DEF FlattenSeq
  <2>3. blocks \in Seq(S) /\ Len(blocks) = 0
    BY <1>1, <1>2, <2>1, EmptySeq
  <2>4. B * 0 = 0 /\ Pieces(blocks, B, blocks)
    BY <2>3 DEF Pieces
  <2> QED
    BY <2>2, <2>3, <2>4
<1>3. CASE K # 0
  <2>1. PICK N \in Nat : N = B * K
    OBVIOUS
  <2> DEFINE X == [x \in 1..N |-> blocks[(x - 1) \div B + 1][((x - 1) % B) + 1]]
             E == [k \in 0..K |-> B * k]
  <2>2. ASSUME NEW k \in 1..K
        PROVE  blocks[k] \in Seq(S) /\ Len(blocks[k]) = B /\ \A j \in 1..B : blocks[k][j] \in S
    <3>1. blocks[k] \in Seq(S) /\ Len(blocks[k]) = B
      BY <1>1, <2>2, ElementOfSeq DEF Whole
    <3>2. \A j \in 1..Len(blocks[k]) : blocks[k][j] \in S
      BY <3>1, ElementOfSeq
    <3> QED
      BY <3>1, <3>2
  <2>3. ASSUME NEW x \in 1..N PROVE blocks[(x - 1) \div B + 1][((x - 1) % B) + 1] \in S
    <3>1. PICK y \in Nat : y = x - 1 /\ y < B * K
      BY <2>1
    <3>2. PICK q \in 0..(K - 1), w \in 0..(B - 1) : q = y \div B /\ w = y % B
      BY <3>1, QuotientLess
    <3>3. q + 1 \in 1..K /\ w + 1 \in 1..B
      BY <3>2
    <3> QED
      BY <2>2, <3>1, <3>2, <3>3
  <2>4. X \in [1..N -> S] /\ \A x \in 1..N : X[x] = blocks[(x - 1) \div B + 1][((x - 1) % B) + 1]
    BY <2>3
  <2> HIDE DEF X
  <2>5. X \in Seq(S) /\ Len(X) = N
    BY <2>4, FunctionIsSeq
  <2>6. ASSUME NEW k \in 1..K PROVE blocks[k] = Piece(X, B * (k - 1), B * k)
    <3>1. PICK q \in Nat, u \in Nat, e \in Nat : /\ q = k - 1 /\ u = B * q /\ e = B * k /\ e = u + B /\ e <= N
      <4>1. B * (k - 1) \in Nat /\ B * k = B * (k - 1) + B /\ B * k <= B * K
        BY MultipleBefore
      <4> QED
        BY <2>1, <4>1
    <3>2. ASSUME NEW j \in 1..B PROVE X[u + j] = blocks[k][j]
      <4>1. u + j \in 1..N /\ (u + j) - 1 = u + (j - 1) /\ j - 1 \in 0..(B - 1)
        BY <3>1
      <4>2. (B * q + (j - 1)) \div B = q /\ (B * q + (j - 1)) % B = j - 1
        BY <3>1, <4>1, DivModOf
      <4>3. X[u + j] = blocks[q + 1][(j - 1) + 1]
        BY <2>4, <3>1, <4>1, <4>2
      <4>4. q + 1 = k /\ (j - 1) + 1 = j
        BY <3>1
      <4> QED
        BY <4>3, <4>4
    <3>3. PICK t : t = SubSeq(X, u + 1, e)
      OBVIOUS
    <3>4. t \in Seq(S) /\ Len(t) = B /\ \A i \in 1..B : t[i] = X[u + i]
      <4>1. \A i \in (u + 1)..e : X[i] \in S
        <5> TAKE i \in (u + 1)..e
        <5>1. i \in 1..N
          BY <3>1
        <5> QED
          BY <2>4, <5>1
      <4>2. PICK v \in Int : v = u + 1
        OBVIOUS
      <4>3. /\ SubSeq(X, v, e) \in Seq(S) /\ Len(SubSeq(X, v, e)) = (IF v <= e THEN e - v + 1 ELSE 0)
            /\ \A i \in 1..(e - v + 1) : SubSeq(X, v, e)[i] = X[v + i - 1]
        BY <4>1, <4>2, SubSeqProperties
      <4>4. v <= e /\ e - v + 1 = B /\ \A i \in 1..B : v + i - 1 = u + i
        BY <3>1, <4>2
      <4> QED
        BY <3>3, <4>2, <4>3, <4>4
    <3>5. blocks[k] \in Seq(S) /\ Len(blocks[k]) = Len(t) /\ \A i \in 1..Len(blocks[k]) : blocks[k][i] = t[i]
      BY <2>2, <3>2, <3>4
    <3>6. blocks[k] = t
      BY <3>4, <3>5, SeqEqual
    <3> QED
      BY <3>1, <3>3, <3>6 DEF Piece
  <2>7. E \in [0..K -> 0..N] /\ E[0] = 0 /\ E[K] = N /\ \A k \in 0..K : E[k] = B * k
    <3>1. \A k \in 0..K : B * k \in 0..N
      <4> TAKE k \in 0..K
      <4>1. B * k <= B * K /\ B * k \in Nat
        BY Multiples
      <4> QED
        BY <2>1, <4>1
    <3>2. K \in 0..K /\ 0 \in 0..K /\ B * 0 = 0
      OBVIOUS
    <3> QED
      BY <2>1, <3>1, <3>2
  <2> HIDE DEF E
  <2>8. \A k \in 1..K : E[k - 1] <= E[k] /\ blocks[k] = Piece(X, E[k - 1], E[k])
    <3> TAKE k \in 1..K
    <3>1. E[k - 1] = B * (k - 1) /\ E[k] = B * k
      BY <2>7
    <3>2. B * (k - 1) <= B * k
      <4>1. B * (k - 1) \in Nat /\ B * k = B * (k - 1) + B
        BY MultipleBefore
      <4> QED
        BY <4>1
    <3> QED
      BY <2>6, <3>1, <3>2
  <2>9. FlattenSeq(blocks) = Piece(X, E[0], E[K])
    <3>1. E \in [0..K -> 0..Len(X)] /\ K \in Nat \ {0} /\ Len(blocks) = K
      BY <1>1, <1>3, <2>5, <2>7
    <3> QED
      BY <2>5, <2>8, <3>1, FlattenPieces DEF InPieces
  <2>10. Piece(X, E[0], E[K]) = X
    <3>1. SubSeq(X, 1, Len(X)) = X
      BY <2>5, SubSeqFull
    <3> QED
      BY <2>5, <2>7, <3>1 DEF Piece
  <2>11. Pieces(blocks, B, X)
    BY <1>1, <2>6 DEF Pieces
  <2> QED
    BY <1>1, <2>1, <2>5, <2>9, <2>10, <2>11
<1> QED
  BY <1>2, <1>3

Within(S, W, u, e, lo, hi, p, q) ==
  /\ W \in Seq(S) /\ u \in Nat /\ e \in Nat /\ e <= Len(W) /\ lo \in Nat \ {0} /\ hi \in Nat \ {0}
  /\ u + lo <= e /\ u + hi <= e /\ p \in Nat /\ q \in Nat /\ p = u + lo - 1 /\ q = u + hi

LEMMA PieceOfPiece ==
  ASSUME NEW S, NEW W, NEW u, NEW e, NEW lo, NEW hi, NEW p, NEW q,
         Within(S, W, u, e, lo, hi, p, q)
  PROVE  SubSeq(Piece(W, u, e), lo, hi) = Piece(W, p, q)
<1>1. /\ W \in Seq(S) /\ u \in Nat /\ e \in Nat /\ e <= Len(W) /\ lo \in Nat \ {0} /\ hi \in Nat \ {0}
      /\ u + lo <= e /\ u + hi <= e /\ p \in Nat /\ q \in Nat /\ p = u + lo - 1 /\ q = u + hi
  BY DEF Within
<1>2. PICK L \in Nat : L = Len(W)
  BY <1>1, LenProperties
<1>3. PICK v \in Int : v = u + 1
  BY <1>1
<1>4. v \in 1..L /\ e \in 1..L /\ lo \in 1..(e - v + 1) /\ hi \in 1..(e - v + 1)
  BY <1>1, <1>2, <1>3
<1>5. SubSeq(SubSeq(W, v, e), lo, hi) = SubSeq(W, v + lo - 1, v + hi - 1)
  BY <1>1, <1>2, <1>4, SubSeqOfSubSeq
<1>6. v + lo - 1 = p + 1 /\ v + hi - 1 = q
  BY <1>1, <1>3
<1> QED
  BY <1>3, <1>5, <1>6 DEF Piece

(* n bytes from offset lie in the blocks begin to end.                     *)
Spans(B, K, offset, n, begin, end, o, w) ==
  /\ begin = offset \div B /\ o = offset % B /\ offset = B * begin + o
  /\ end = (offset + n - 1) \div B /\ w = (offset + n - 1) % B /\ offset + n - 1 = B * end + w
  /\ begin <= end /\ end < K

LEMMA Span ==
  ASSUME NEW B \in Nat \ {0}, NEW K \in Nat, NEW offset \in Nat, NEW n \in Nat \ {0}, offset + n <= B * K
  PROVE  \E begin \in Nat, end \in Nat, o \in 0..(B - 1), w \in 0..(B - 1) :
           Spans(B, K, offset, n, begin, end, o, w)
<1>1. PICK begin \in Nat, o \in 0..(B - 1) :
        begin = offset \div B /\ o = offset % B /\ offset = B * begin + o
  BY DivMod
<1>2. PICK x \in Nat : x = offset + n - 1 /\ offset <= x
  OBVIOUS
<1>3. PICK end \in Nat, w \in 0..(B - 1) : end = x \div B /\ w = x % B /\ x = B * end + w
  BY DivMod
<1>4. end < K
  <2>1. x < B * K
    BY <1>2
  <2>2. x \div B \in 0..(K - 1)
    BY <2>1, QuotientLess
  <2> QED
    BY <1>3, <2>2
<1>5. begin <= end
  <2>1. B * begin + o <= B * end + w
    BY <1>1, <1>2, <1>3
  <2> QED
    BY <2>1, DivModUnique
<1>6. Spans(B, K, offset, n, begin, end, o, w)
  BY <1>1, <1>2, <1>3, <1>4, <1>5 DEF Spans
<1> QED
  BY <1>6

(* Where the parts of a reading end                                        *)
Ends(B, begin, k1, offset, n) ==
  [k \in 0..k1 |-> IF k = 0 THEN offset ELSE IF k = k1 THEN offset + n ELSE B * (begin + k)]

PartOf(B, begin, end, o, w, offset, n, k1, k, i, u, lo, hi) ==
  /\ begin \in Nat /\ end \in Nat /\ begin <= end /\ B \in Nat \ {0} /\ o \in 0..(B - 1) /\ w \in 0..(B - 1)
  /\ offset \in Nat /\ n \in Nat \ {0} /\ offset = B * begin + o /\ offset + n - 1 = B * end + w
  /\ k1 = end - begin + 1 /\ k \in 1..k1 /\ i = begin + k - 1
  /\ u \in Nat /\ u = B * i /\ B * (i + 1) = u + B
  /\ lo \in 1..B /\ lo = (IF i = begin THEN o + 1 ELSE 1)
  /\ hi \in 1..B /\ hi = (IF i = end THEN w + 1 ELSE B)

LEMMA PartEnds ==
  ASSUME NEW B, NEW begin, NEW end, NEW o, NEW w, NEW offset, NEW n, NEW k1, NEW k, NEW i, NEW u, NEW lo,
         NEW hi, PartOf(B, begin, end, o, w, offset, n, k1, k, i, u, lo, hi),
         NEW E, E = Ends(B, begin, k1, offset, n)
  PROVE  E[k - 1] = u + lo - 1 /\ E[k] = u + hi /\ u + lo - 1 <= u + hi
<1> USE DEF PartOf
<1>1. /\ E[k - 1] = (IF k = 1 THEN offset ELSE B * (begin + (k - 1)))
      /\ E[k] = (IF k = k1 THEN offset + n ELSE B * (begin + k))
  BY DEF Ends
<1>2. E[k - 1] = u + lo - 1
  <2>1. CASE k = 1
    BY <1>1, <2>1
  <2>2. CASE k # 1
    <3>1. i # begin /\ begin + (k - 1) = i
      BY <2>2
    <3> QED
      BY <1>1, <2>2, <3>1
  <2> QED
    BY <2>1, <2>2
<1>3. E[k] = u + hi
  <2>1. CASE k = k1
    <3>1. i = end /\ offset + n = u + w + 1
      BY <2>1
    <3> QED
      BY <1>1, <2>1, <3>1
  <2>2. CASE k # k1
    <3>1. i # end /\ begin + k = i + 1
      BY <2>2
    <3> QED
      BY <1>1, <2>2, <3>1
  <2> QED
    BY <2>1, <2>2
<1>4. u + lo - 1 <= u + hi
  <2>1. CASE i = begin /\ i = end
    <3>1. offset = u + o /\ offset + n = u + w + 1
      BY <2>1
    <3> QED
      BY <2>1, <3>1
  <2>2. CASE ~(i = begin /\ i = end)
    BY <2>2
  <2> QED
    BY <2>1, <2>2
<1> QED
  BY <1>2, <1>3, <1>4

(* W: the bytes of all the blocks of the file                              *)
FileBytes(inode, S, W) ==
  /\ inode.blocks \in Seq(Seq(S)) /\ Whole(inode.blocks, BLOCK_SIZE)
  /\ inode.file_length \in Nat /\ BLOCK_SIZE * Len(inode.blocks) >= inode.file_length
  /\ W \in Seq(S) /\ Len(W) = BLOCK_SIZE * Len(inode.blocks) /\ Pieces(inode.blocks, BLOCK_SIZE, W)

LEMMA ReadData ==
  ASSUME NEW S, NEW inode, NEW W, FileBytes(inode, S, W), NEW offset \in Nat, offset < inode.file_length,
         NEW length \in Nat \ {0}
  PROVE  \E n \in 1..(inode.file_length - offset) :
           read_data(inode, offset, length) = Piece(W, offset, offset + n)
<1>1. PICK B \in Nat \ {0}, K \in Nat, F \in Nat, N \in Nat :
        /\ B = BLOCK_SIZE /\ K = Len(inode.blocks) /\ F = inode.file_length /\ N = B * K /\ N >= F /\ N = Len(W)
  <2>1. BLOCK_SIZE \in Nat \ {0} /\ Len(inode.blocks) \in Nat /\ inode.file_length \in Nat
    BY BlockAssumption, LenProperties DEF FileBytes
  <2>2. BLOCK_SIZE * Len(inode.blocks) \in Nat
    BY <2>1
  <2> QED
    BY <2>1, <2>2 DEF FileBytes
<1>2. PICK n \in Nat \ {0} :
        n = (IF length + offset > F THEN F - offset ELSE length) /\ offset + n <= F
  BY SMTT(60), <1>1
<1>3. PICK begin \in Nat, end \in Nat, o \in 0..(B - 1), w \in 0..(B - 1) :
        Spans(B, K, offset, n, begin, end, o, w)
  <2>1. offset + n <= B * K
    BY <1>1, <1>2
  <2> QED
    BY <2>1, Span
<1>4. /\ begin = offset \div B /\ o = offset % B /\ offset = B * begin + o
      /\ end = (offset + n - 1) \div B /\ w = (offset + n - 1) % B /\ offset + n - 1 = B * end + w
      /\ begin <= end /\ end < K
  BY <1>3 DEF Spans
<1>5. PICK k1 \in Nat \ {0} : k1 = end - begin + 1
  BY <1>4
<1> DEFINE Lo(i) == IF i = begin THEN o + 1 ELSE 1
           Hi(i) == IF i = end THEN w + 1 ELSE B
           parts == [k \in 1..k1 |-> SubSeq(inode.blocks[(begin + k - 1) + 1],
                                            Lo(begin + k - 1), Hi(begin + k - 1))]
<1>6. read_data(inode, offset, length) = FlattenSeq(parts)
  <2>1. ~(length = 0 \/ offset >= inode.file_length)
    BY <1>1
  <2> QED
    BY <1>1, <1>2, <1>4, <1>5, <2>1 DEF read_data, DataBlock, BlockOffset
<1>7. PICK E : E = Ends(B, begin, k1, offset, n)
  OBVIOUS
<1>8. ASSUME NEW k \in 1..k1 PROVE E[k - 1] <= E[k] /\ parts[k] = Piece(W, E[k - 1], E[k]) /\ E[k] \in 0..N
  <2>1. PICK i \in Nat : i = begin + k - 1 /\ i + 1 \in 1..K /\ (i + 1) - 1 = i
    BY <1>4, <1>5
  <2>2. PICK u \in Nat : u = B * i /\ B * (i + 1) = u + B /\ u + B <= N
    <3>1. B * ((i + 1) - 1) \in Nat /\ B * (i + 1) = B * ((i + 1) - 1) + B /\ B * (i + 1) <= B * K
      BY <2>1, MultipleBefore
    <3> QED
      BY <1>1, <2>1, <3>1
  <2>3. PICK e \in Nat : e = u + B
    BY <1>1
  <2>4. inode.blocks[i + 1] = Piece(W, u, e)
    <3>1. \A j \in 1..K : inode.blocks[j] = Piece(W, B * (j - 1), B * j)
      BY <1>1 DEF FileBytes, Pieces
    <3> QED
      BY <2>1, <2>2, <2>3, <3>1
  <2>5. PICK lo \in 1..B, hi \in 1..B : lo = Lo(i) /\ hi = Hi(i)
    <3>1. Lo(i) \in 1..B /\ Hi(i) \in 1..B
      BY <1>4
    <3> QED
      BY <3>1
  <2>6. lo = (IF i = begin THEN o + 1 ELSE 1) /\ hi = (IF i = end THEN w + 1 ELSE B)
    BY <2>5
  <2>7. parts[k] = SubSeq(inode.blocks[i + 1], lo, hi)
    BY <2>1, <2>5
  <2> HIDE DEF parts, Lo, Hi
  <2>8. PICK p \in Nat, q \in Nat : p = u + lo - 1 /\ q = u + hi /\ q \in 0..N
    BY <2>2
  <2>9. E[k - 1] = p /\ E[k] = q /\ p <= q
    <3>1. PartOf(B, begin, end, o, w, offset, n, k1, k, i, u, lo, hi)
      BY <1>4, <1>5, <2>1, <2>2, <2>6 DEF PartOf
    <3>2. E[k - 1] = u + lo - 1 /\ E[k] = u + hi /\ u + lo - 1 <= u + hi
      BY <1>7, <3>1, PartEnds
    <3> QED
      BY <2>8, <3>2
  <2>10. SubSeq(Piece(W, u, e), lo, hi) = Piece(W, p, q)
    <3>1. W \in Seq(S)
      BY DEF FileBytes
    <3>2. Within(S, W, u, e, lo, hi, p, q)
      BY <1>1, <2>2, <2>3, <2>8, <3>1 DEF Within
    <3> QED
      BY <3>2, PieceOfPiece
  <2> QED
    BY <2>4, <2>7, <2>8, <2>9, <2>10
<1>9. Len(parts) = k1
  OBVIOUS
<1>10. E[0] = offset /\ E[k1] = offset + n /\ E = [k \in 0..k1 |-> E[k]]
  <2>1. 0 \in 0..k1 /\ k1 \in 0..k1 /\ k1 # 0
    OBVIOUS
  <2> QED
    BY <1>7, <2>1 DEF Ends
<1> HIDE DEF parts
<1>11. E \in [0..k1 -> 0..N]
  <2>1. E[0] \in 0..N
    <3>1. offset < F /\ F <= N
      BY <1>1
    <3>2. offset \in 0..N
      BY <3>1
    <3> QED
      BY <1>10, <3>2
  <2>2. \A k \in 0..k1 : E[k] \in 0..N
    BY <1>8, <2>1
  <2> QED
    BY <1>10, <2>2
<1>12. InPieces(parts, W, E, k1)
  BY <1>8 DEF InPieces
<1>13. FlattenSeq(parts) = Piece(W, E[0], E[k1])
  <2>1. W \in Seq(S)
    BY DEF FileBytes
  <2> QED
    BY <1>1, <1>9, <1>11, <1>12, <2>1, FlattenPieces
<1>14. n \in 1..(inode.file_length - offset)
  BY <1>1, <1>2
<1> QED
  BY <1>6, <1>10, <1>13, <1>14

Ordered(S, W, x, y, z) ==
  W \in Seq(S) /\ x \in Nat /\ y \in Nat /\ z \in Nat /\ x <= y /\ y <= z /\ z <= Len(W)

LEMMA PieceLen ==
  ASSUME NEW S, NEW W, NEW x, NEW y, NEW z, Ordered(S, W, x, y, z)
  PROVE  /\ Piece(W, x, y) \in Seq(S) /\ (\A n \in Nat : y = x + n => Len(Piece(W, x, y)) = n)
         /\ (Piece(W, x, y) = <<>> <=> x = y)
         /\ Piece(W, x, y) \o Piece(W, y, z) = Piece(W, x, z)
<1>1. W \in Seq(S) /\ x \in Nat /\ y \in Nat /\ z \in Nat /\ x <= y /\ y <= z /\ z <= Len(W)
  BY DEF Ordered
<1>2. PICK L \in Nat : L = Len(W)
  BY <1>1, LenProperties
<1>3. PICK v \in Int : v = x + 1
  BY <1>1
<1>4. \A i \in v..y : W[i] \in S
  <2> TAKE i \in v..y
  <2>1. i \in 1..Len(W)
    BY <1>1, <1>2, <1>3
  <2> QED
    BY <1>1, <2>1, ElementOfSeq
<1>5. PICK s : s = SubSeq(W, v, y)
  OBVIOUS
<1>6. s \in Seq(S) /\ Len(s) = IF v <= y THEN y - v + 1 ELSE 0
  BY <1>1, <1>3, <1>4, <1>5, SubSeqProperties
<1>7. Len(s) = y - x
  BY <1>1, <1>3, <1>6
<1>8. s = <<>> <=> Len(s) = 0
  BY <1>6, EmptySeq
<1>9. (y - x = 0 <=> x = y) /\ \A n \in Nat : y = x + n => y - x = n
  BY <1>1
<1>10. Piece(W, x, y) \o Piece(W, y, z) = Piece(W, x, z)
  BY <1>1, PieceJoin
<1> QED
  BY <1>3, <1>5, <1>6, <1>7, <1>8, <1>9, <1>10 DEF Piece

LEMMA ReadsOn ==
  ASSUME NEW S, NEW inode, NEW W, FileBytes(inode, S, W), NEW nbytes \in Nat \ {0}
  PROVE  ReadOn(inode, 0, nbytes) = Piece(W, 0, inode.file_length)
<1>1. PICK F \in Nat : F = inode.file_length /\ F <= Len(W) /\ W \in Seq(S)
  BY DEF FileBytes
<1> DEFINE D(f) == f = [p \in 0..inode.file_length |->
                          LET b == read_data(inode, p, nbytes) IN
                          IF b = <<>> THEN <<>> ELSE b \o f[p + Len(b)]]
           g == [p \in 0..F |-> Piece(W, p, F)]
<1>2. ASSUME NEW p \in 0..F
      PROVE  \/ p = F /\ read_data(inode, p, nbytes) = <<>> /\ Piece(W, p, F) = <<>>
             \/ \E n \in 1..(F - p) : \E b : /\ b = read_data(inode, p, nbytes) /\ b # <<>> /\ Len(b) = n
                                             /\ Piece(W, p, F) = b \o Piece(W, p + n, F)
  <2>1. CASE p = F
    <3>1. read_data(inode, p, nbytes) = <<>>
      BY <1>1, <2>1 DEF read_data
    <3>2. Ordered(S, W, p, F, F)
      BY <1>1, <2>1 DEF Ordered
    <3>3. Piece(W, p, F) = <<>>
      BY <2>1, <3>2, PieceLen
    <3> QED
      BY <2>1, <3>1, <3>3
  <2>2. CASE p # F
    <3>1. p \in Nat /\ p < inode.file_length
      BY <1>1, <2>2
    <3>2. PICK n \in 1..(F - p) : read_data(inode, p, nbytes) = Piece(W, p, p + n)
      BY <1>1, <3>1, ReadData
    <3>3. PICK e \in Nat : e = p + n
      BY <3>1, <3>2
    <3>4. Ordered(S, W, p, e, F)
      BY <1>1, <3>1, <3>2, <3>3 DEF Ordered
    <3>5. Len(Piece(W, p, e)) = n
      BY <3>1, <3>2, <3>3, <3>4, PieceLen
    <3>6. Piece(W, p, e) = <<>> <=> p = e
      BY <3>4, PieceLen
    <3>7. Piece(W, p, e) \o Piece(W, e, F) = Piece(W, p, F)
      BY <3>4, PieceLen
    <3>8. p # e
      BY <3>1, <3>2, <3>3
    <3> QED
      BY <3>2, <3>3, <3>5, <3>8, <3>6, <3>7
  <2> QED
    BY <2>1, <2>2
<1> HIDE DEF g
<1>3. g = [p \in 0..F |-> g[p]] /\ \A p \in 0..F : g[p] = Piece(W, p, F)
  BY DEF g
<1>4. ASSUME NEW p \in 0..F
      PROVE  g[p] = LET b == read_data(inode, p, nbytes) IN IF b = <<>> THEN <<>> ELSE b \o g[p + Len(b)]
  <2>1. CASE p = F /\ read_data(inode, p, nbytes) = <<>> /\ Piece(W, p, F) = <<>>
    BY <1>3, <2>1
  <2>2. ASSUME NEW n \in 1..(F - p), NEW b, b = read_data(inode, p, nbytes), b # <<>>, Len(b) = n,
               Piece(W, p, F) = b \o Piece(W, p + n, F)
        PROVE  g[p] = IF b = <<>> THEN <<>> ELSE b \o g[p + Len(b)]
    <3>1. p + n \in 0..F
      BY <1>1
    <3> QED
      BY <1>3, <2>2, <3>1
  <2> QED
    BY <1>2, <2>1, <2>2
<1>5. D(g)
  BY <1>1, <1>3, <1>4
<1> DEFINE r == CHOOSE f : D(f)
<1>6. D(r)
  BY <1>5
<1>7. ReadOn(inode, 0, nbytes) = r[0]
  BY DEF ReadOn
<1> HIDE DEF r
<1>8. \A p \in 0..F : r[p] = LET b == read_data(inode, p, nbytes) IN IF b = <<>> THEN <<>> ELSE b \o r[p + Len(b)]
  BY <1>1, <1>6
<1> HIDE DEF D
<1> DEFINE Z == {d \in Nat : d <= F => r[F - d] = g[F - d]}
<1>9. ASSUME NEW d \in Nat, \A e \in 0..(d - 1) : e \in Z PROVE d \in Z
  <2> SUFFICES ASSUME d <= F PROVE r[F - d] = g[F - d]
    OBVIOUS
  <2>1. PICK p \in 0..F : p = F - d
    BY <1>1
  <2>2. CASE p = F /\ read_data(inode, p, nbytes) = <<>> /\ Piece(W, p, F) = <<>>
    BY <1>4, <1>8, <2>1, <2>2
  <2>3. ASSUME NEW n \in 1..(F - p), NEW b, b = read_data(inode, p, nbytes), b # <<>>, Len(b) = n
        PROVE  r[p] = g[p]
    <3>1. d - n \in 0..(d - 1) /\ d - n <= F /\ F - (d - n) = p + n
      <4>1. F - p = d /\ n \in Nat /\ 1 <= n /\ n <= d
        BY <1>1, <2>1
      <4>2. PICK k \in Nat : k = d - n /\ k <= d - 1 /\ k <= F
        BY <4>1
      <4>3. F - k = p + n
        BY <1>1, <2>1, <4>1, <4>2
      <4> QED
        BY <4>2, <4>3
    <3>2. r[p + n] = g[p + n]
      BY <1>9, <3>1
    <3> QED
      BY <1>4, <1>8, <2>3, <3>2
  <2> QED
    BY <1>2, <2>1, <2>2, <2>3
<1> HIDE DEF Z
<1>10. F \in Z
  BY <1>1, <1>9, StrongInduction
<1>11. r[0] = g[0] /\ 0 \in 0..F
  BY <1>1, <1>10 DEF Z
<1> QED
  BY <1>1, <1>3, <1>7, <1>11

(* Reading a file to its end, any number of bytes at a time, gives the     *)
(* bytes of its blocks up to its length, in order, for every size of the   *)
(* blocks and length of the file (read_data, file_read).                   *)
THEOREM FilesWhole == LibrarySpec => []FilesReadWhole
<1>1. ASSUME LibraryInv, Ran({"cat"})
      PROVE  answer = SubSeq(FlattenSeq(call.inode.blocks), 1, call.inode.file_length)
  <2>1. call \in Calls /\ call.fn = "cat" /\ answer = Answer(call)
    BY <1>1, Answered
  <2>2. answer = ReadOn(call.inode, 0, call.n)
    BY <2>1 DEF Answer
  <2>3. PICK inode : inode = call.inode
    OBVIOUS
  <2>4. /\ call.n \in Nat \ {0} /\ inode.blocks \in Seq(Seq(0..255))
        /\ Whole(inode.blocks, BLOCK_SIZE) /\ inode.file_length \in Nat
        /\ BLOCK_SIZE * Len(inode.blocks) >= inode.file_length
    <3>1. LegalFile(call)
      BY <2>1, CallsAssumption
    <3> QED
      BY <2>1, <2>3, <3>1, Zenon DEF LegalFile, Whole
  <2>5. PICK W \in Seq(0..255) : /\ W = FlattenSeq(inode.blocks) /\ Len(W) = BLOCK_SIZE * Len(inode.blocks)
                                 /\ Pieces(inode.blocks, BLOCK_SIZE, W)
    BY <2>4, BlockAssumption, WholeBlocks
  <2>6. FileBytes(inode, 0..255, W)
    BY <2>4, <2>5 DEF FileBytes
  <2>7. ReadOn(inode, 0, call.n) = Piece(W, 0, inode.file_length)
    BY <2>4, <2>6, ReadsOn
  <2> QED
    BY <2>2, <2>3, <2>5, <2>7 DEF Piece
<1>2. LibraryInv => FilesReadWhole
  BY <1>1 DEF FilesReadWhole
<1> QED
  BY <1>2, LibraryAnswers, PTL

-----------------------------------------------------------------------------
(* Numbers.  A loop: f[i] is what n turns make of v in i of them.          *)
Turns(f, n, v, F) == f[0] = v /\ \A i \in 1..n : f[i] = F[i][f[i - 1]]

LEMMA TurnsExist ==
  ASSUME NEW S, NEW n \in Nat, NEW v \in S, NEW F \in [1..n -> [S -> S]]
  PROVE  \E f \in [0..n -> S] : Turns(f, n, v, F)
<1> DEFINE D == 0..n
           B == {0}
           w == [d \in B |-> v]
           G == [d \in D \ B |-> d - 1]
           H == [d \in D \ B |-> F[d]]
           depth == [d \in D |-> d]
<1>1. D \ B = 1..n /\ B \in SUBSET D
  OBVIOUS
<1>2. w \in [B -> S] /\ G \in [D \ B -> D] /\ H \in [D \ B -> [S -> S]] /\ depth \in [D -> 0..n]
      /\ \A d \in D \ B : depth[G[d]] < depth[d]
  BY <1>1
<1>3. w[0] = v /\ \A i \in 1..n : G[i] = i - 1 /\ H[i] = F[i] /\ i \in D \ B
  BY <1>1
<1>4. 0 \in D /\ 0 \in B /\ D = 0..n
  OBVIOUS
<1> HIDE DEF D, B, w, G, H, depth
<1>5. PICK f \in [D -> S] : Recursive(f, D, B, w, G, H)
  BY <1>1, <1>2, RecursionExists
<1>6. Turns(f, n, v, F)
  <2>1. f[0] = v
    BY <1>3, <1>5, <1>4 DEF Recursive
  <2>2. ASSUME NEW i \in 1..n PROVE f[i] = F[i][f[i - 1]]
    BY <1>3, <1>5 DEF Recursive
  <2> QED
    BY <2>1, <2>2 DEF Turns
<1> QED
  BY <1>5, <1>6, <1>4

(* Powers of 16                                                            *)
LEMMA PowerIs ==
  ASSUME NEW n \in Nat, NEW f, f[0] = 1, \A i \in 1..n : f[i] = 16 * f[i - 1]
  PROVE  Power(n) = f[n]
<1> DEFINE D(g) == g = [i \in 0..n |-> IF i = 0 THEN 1 ELSE 16 * g[i - 1]]
           h == [i \in 0..n |-> f[i]]
<1>1. \A i \in 0..n : h[i] = IF i = 0 THEN 1 ELSE 16 * h[i - 1]
  <2> TAKE i \in 0..n
  <2>1. CASE i = 0
    BY <2>1
  <2>2. CASE i # 0
    <3>1. i \in 1..n /\ i - 1 \in 0..n
      BY <2>2
    <3> QED
      BY <2>2, <3>1
  <2> QED
    BY <2>1, <2>2
<1>2. D(h)
  BY <1>1
<1> HIDE DEF h
<1> DEFINE p == CHOOSE g : D(g)
<1>3. D(p) /\ Power(n) = p[n]
  BY <1>2 DEF Power
<1> HIDE DEF p
<1>4. \A i \in 0..n : p[i] = IF i = 0 THEN 1 ELSE 16 * p[i - 1]
  BY <1>3
<1> HIDE DEF D
<1> DEFINE Z == {i \in 0..n : p[i] = h[i]}
<1>5. 0 \in Z
  BY <1>1, <1>4
<1>6. ASSUME NEW i \in 0..(n - 1), i \in Z PROVE i + 1 \in Z
  <2>1. i + 1 \in 0..n /\ i + 1 # 0 /\ (i + 1) - 1 = i
    OBVIOUS
  <2> QED
    BY <1>1, <1>4, <1>6, <2>1
<1> HIDE DEF Z
<1>7. n \in Z
  BY <1>5, <1>6, InductionTo
<1> QED
  BY <1>3, <1>7 DEF Z, h

LEMMA PowerExists ==
  ASSUME NEW n \in Nat
  PROVE  \E f : \A m \in 0..n : Power(m) = f[m] /\ f[m] \in Nat \ {0} /\ (m # 0 => f[m] = 16 * f[m - 1])
<1>1. PICK S : S = Nat \ {0}
  OBVIOUS
<1> DEFINE F == [i \in 1..n |-> [x \in S |-> 16 * x]]
<1>2. F \in [1..n -> [S -> S]] /\ 1 \in S
  BY <1>1
<1>3. \A i \in 1..n : \A x \in S : F[i][x] = 16 * x
  OBVIOUS
<1> HIDE DEF F
<1>4. PICK f \in [0..n -> S] : Turns(f, n, 1, F)
  BY <1>2, TurnsExist
<1>5. f[0] = 1 /\ \A i \in 1..n : f[i] = 16 * f[i - 1]
  <2>1. \A i \in 1..n : i - 1 \in 0..n
    OBVIOUS
  <2> QED
    BY <1>3, <1>4, <2>1 DEF Turns
<1>6. ASSUME NEW m \in 0..n PROVE Power(m) = f[m] /\ f[m] \in Nat \ {0} /\ (m # 0 => f[m] = 16 * f[m - 1])
  <2>1. m \in Nat /\ \A i \in 1..m : i \in 1..n
    OBVIOUS
  <2>2. Power(m) = f[m]
    BY <1>5, <2>1, PowerIs
  <2>3. m # 0 => m \in 1..n
    OBVIOUS
  <2> QED
    BY <1>1, <1>5, <2>2, <2>3
<1> QED
  BY <1>6

LEMMA PowerNext ==
  ASSUME NEW n \in Nat \ {0}
  PROVE  /\ Power(n) \in Nat \ {0} /\ Power(n - 1) \in Nat \ {0} /\ Power(n) = 16 * Power(n - 1)
         /\ Power(0) = 1
<1>1. PICK f : \A m \in 0..n : Power(m) = f[m] /\ f[m] \in Nat \ {0} /\ (m # 0 => f[m] = 16 * f[m - 1])
  BY PowerExists
<1>2. n \in 0..n /\ n - 1 \in 0..n
  OBVIOUS
<1>3. Power(0) = 1
  <2> DEFINE one == [i \in {0} |-> 1]
  <2>1. one[0] = 1 /\ \A i \in 1..0 : one[i] = 16 * one[i - 1]
    OBVIOUS
  <2> HIDE DEF one
  <2> QED
    BY <2>1, PowerIs
<1> QED
  BY <1>1, <1>2, <1>3

(* Digits                                                                  *)
Chars == {lookup[i] : i \in 1..16}

LEMMA DigitOf ==
  ASSUME NEW i \in 0..15
  PROVE  lookup[1 + i] \in Chars /\ Digit(lookup[1 + i]) = i /\ lookup[1 + i] # "-"
<1>1. DOMAIN lookup = 1..16
  BY DEF lookup
<1>2. \A j, k \in 1..16 : lookup[j] = lookup[k] => j = k
  BY DEF lookup
<1>3. \A j \in 1..16 : lookup[j] # "-"
  BY DEF lookup
<1>4. 1 + i \in 1..16
  OBVIOUS
<1>5. (CHOOSE k \in DOMAIN lookup : lookup[k] = lookup[1 + i]) = 1 + i
  <2>1. PICK k : k = CHOOSE j \in 1..16 : lookup[j] = lookup[1 + i]
    OBVIOUS
  <2>2. \E j \in 1..16 : lookup[j] = lookup[1 + i]
    BY <1>4
  <2>3. k \in 1..16 /\ lookup[k] = lookup[1 + i]
    BY <2>1, <2>2
  <2>4. k = 1 + i
    BY <1>2, <1>4, <2>3
  <2> QED
    BY <1>1, <2>1, <2>4
<1>6. Digit(lookup[1 + i]) = (1 + i) - 1
  BY <1>5, Zenon DEF Digit
<1> QED
  BY <1>3, <1>4, <1>6 DEF Chars

LEMMA DigitsAre ==
  ASSUME NEW c \in Chars
  PROVE  Digit(c) \in Nat /\ c # "-"
<1>1. PICK j \in 1..16 : c = lookup[j]
  BY DEF Chars
<1>2. j - 1 \in 0..15 /\ 1 + (j - 1) = j
  OBVIOUS
<1> QED
  BY <1>1, <1>2, DigitOf

Reads(s, radix, n, f) == f[0] = 0 /\ \A i \in 1..n : f[i] = f[i - 1] * radix + Digit(s[i])

LEMMA NaturalIs ==
  ASSUME NEW s, NEW radix, NEW n \in Nat, n = Len(s), NEW f, Reads(s, radix, n, f)
  PROVE  Natural(s, radix) = f[n]
<1> DEFINE D(g) == g = [i \in 0..Len(s) |-> IF i = 0 THEN 0 ELSE g[i - 1] * radix + Digit(s[i])]
           h == [i \in 0..n |-> f[i]]
<1>1. \A i \in 0..n : h[i] = IF i = 0 THEN 0 ELSE h[i - 1] * radix + Digit(s[i])
  <2> TAKE i \in 0..n
  <2>1. CASE i = 0
    BY <2>1 DEF Reads
  <2>2. CASE i # 0
    <3>1. i \in 1..n /\ i - 1 \in 0..n
      BY <2>2
    <3> QED
      BY <2>2, <3>1 DEF Reads
  <2> QED
    BY <2>1, <2>2
<1>2. D(h)
  BY <1>1
<1> HIDE DEF h
<1> DEFINE p == CHOOSE g : D(g)
<1>3. D(p) /\ Natural(s, radix) = p[n]
  BY <1>2 DEF Natural
<1> HIDE DEF p
<1>4. \A i \in 0..n : p[i] = IF i = 0 THEN 0 ELSE p[i - 1] * radix + Digit(s[i])
  BY <1>3
<1> HIDE DEF D
<1> DEFINE Z == {i \in 0..n : p[i] = h[i]}
<1>5. 0 \in Z
  BY <1>1, <1>4
<1>6. ASSUME NEW i \in 0..(n - 1), i \in Z PROVE i + 1 \in Z
  <2>1. i + 1 \in 0..n /\ i + 1 # 0 /\ (i + 1) - 1 = i
    OBVIOUS
  <2> QED
    BY <1>1, <1>4, <1>6, <2>1
<1> HIDE DEF Z
<1>7. n \in Z
  BY <1>5, <1>6, InductionTo
<1> QED
  BY <1>3, <1>7 DEF Z, h

LEMMA NaturalExists ==
  ASSUME NEW s \in Seq(Chars), NEW radix \in Nat, NEW n \in Nat, n = Len(s)
  PROVE  \E f \in [0..n -> Nat] : Reads(s, radix, n, f) /\ Natural(s, radix) = f[n]
<1> DEFINE F == [i \in 1..n |-> [x \in Nat |-> x * radix + Digit(s[i])]]
<1>1. \A i \in 1..n : Digit(s[i]) \in Nat
  BY ElementOfSeq, DigitsAre
<1>2. F \in [1..n -> [Nat -> Nat]]
  BY <1>1
<1>3. \A i \in 1..n : \A x \in Nat : F[i][x] = x * radix + Digit(s[i])
  OBVIOUS
<1> HIDE DEF F
<1>4. PICK f \in [0..n -> Nat] : Turns(f, n, 0, F)
  BY <1>2, TurnsExist
<1>5. Reads(s, radix, n, f)
  <2>1. \A i \in 1..n : i - 1 \in 0..n
    OBVIOUS
  <2> QED
    BY <1>3, <1>4, <2>1 DEF Turns, Reads
<1> QED
  BY <1>5, NaturalIs

LEMMA NaturalAppend ==
  ASSUME NEW s \in Seq(Chars), NEW c \in Chars, NEW radix \in Nat
  PROVE  Natural(Append(s, c), radix) = Natural(s, radix) * radix + Digit(c) /\ Natural(s, radix) \in Nat
<1>1. PICK n \in Nat : n = Len(s)
  BY LenProperties
<1>2. PICK t : t = Append(s, c)
  OBVIOUS
<1>3. /\ t \in Seq(Chars) /\ Len(t) = n + 1 /\ t[n + 1] = c
      /\ \A i \in 1..n : t[i] = s[i]
  BY <1>1, <1>2, AppendProperties
<1>4. PICK k \in Nat : k = n + 1 /\ k = Len(t)
  BY <1>3
<1>5. PICK f \in [0..k -> Nat] : Reads(t, radix, k, f) /\ Natural(t, radix) = f[k]
  BY <1>3, <1>4, NaturalExists
<1>6. Reads(s, radix, n, f)
  BY <1>3, <1>4, <1>5 DEF Reads
<1>7. Natural(s, radix) = f[n]
  BY <1>1, <1>6, NaturalIs
<1>8. f[k] = f[n] * radix + Digit(c)
  <2>1. k \in 1..k /\ k - 1 = n
    BY <1>4
  <2> QED
    BY <1>3, <1>4, <1>5, <2>1 DEF Reads
<1>9. f[n] \in Nat
  BY <1>4, <1>5
<1> QED
  BY <1>2, <1>5, <1>7, <1>8, <1>9

LEMMA NaturalEmpty ==
  ASSUME NEW radix
  PROVE  Natural(<<>>, radix) = 0
<1> DEFINE zero == [i \in {0} |-> 0]
<1>1. Reads(<<>>, radix, 0, zero) /\ zero[0] = 0
  BY DEF Reads
<1>2. Len(<<>>) = 0
  OBVIOUS
<1> HIDE DEF zero
<1> QED
  BY <1>1, <1>2, NaturalIs

(* Reversing                                                               *)
Turned(c, s, n, i) == c = [j \in 1..n |-> IF j <= i \/ j > n - i THEN s[n + 1 - j] ELSE s[j]]

LEMMA OneMoreTurned ==
  ASSUME NEW n \in Nat, NEW i \in Nat, NEW j \in Nat, NEW k \in Int, k = n + 1 - i, j # i, j # k
  PROVE  (j <= i \/ j > n - i) <=> (j <= i - 1 \/ j > n - (i - 1))
OBVIOUS

LEMMA SwapOnce ==
  ASSUME NEW s, NEW n \in Nat, NEW i \in 1..n, 2 * i <= n, NEW b, NEW c,
         Turned(b, s, n, i - 1), Turned(c, s, n, i)
  PROVE  c = Swap(b, i, n + 1 - i)
<1>1. PICK k : k = n + 1 - i
  OBVIOUS
<1>2. i \in 1..n /\ k \in 1..n /\ i < k /\ k <= n /\ n + 1 - k = i /\ ~(i <= i - 1) /\ ~(k <= i - 1)
      /\ ~(i > n - (i - 1)) /\ ~(k > n - (i - 1)) /\ i <= i /\ k > n - i
  BY <1>1
<1>3. DOMAIN b = 1..n /\ b[i] = s[i] /\ b[k] = s[k] /\ c[i] = s[k] /\ c[k] = s[i]
  BY <1>1, <1>2 DEF Turned
<1>4. \A j \in 1..n : j # i /\ j # k => c[j] = b[j]
  <2> TAKE j \in 1..n
  <2>1. ASSUME j # i, j # k
        PROVE  (j <= i \/ j > n - i) <=> (j <= i - 1 \/ j > n - (i - 1))
    BY <1>1, <1>2, <2>1, OneMoreTurned
  <2> QED
    BY <2>1 DEF Turned
<1>5. c = [j \in 1..n |-> IF j = k THEN s[i] ELSE IF j = i THEN s[k] ELSE b[j]]
  <2>1. \A j \in 1..n : c[j] = IF j = k THEN s[i] ELSE IF j = i THEN s[k] ELSE b[j]
    BY <1>2, <1>3, <1>4
  <2>2. c = [j \in 1..n |-> c[j]]
    BY DEF Turned
  <2> QED
    BY <2>1, <2>2
<1>6. Swap(b, i, k) = [j \in 1..n |-> IF j = k THEN s[i] ELSE IF j = i THEN s[k] ELSE b[j]]
  BY <1>3 DEF Swap
<1> QED
  BY <1>1, <1>5, <1>6

LEMMA StrrevIs ==
  ASSUME NEW S, NEW s \in Seq(S)
  PROVE  strrev(s) = Reverse(s)
<1>1. PICK n \in Nat : n = Len(s)
  BY LenProperties
<1>2. PICK h \in Nat : h = n \div 2 /\ h = Len(s) \div 2
  BY <1>1
<1> DEFINE D(g) == g = [i \in 0..h |-> IF i = 0 THEN s ELSE Swap(g[i - 1], i, Len(s) + 1 - i)]
           c(i) == [j \in 1..n |-> IF j <= i \/ j > n - i THEN s[n + 1 - j] ELSE s[j]]
           g == [i \in 0..h |-> c(i)]
           p == CHOOSE f : D(f)
<1>3. strrev(s) = p[h]
  BY <1>2 DEF strrev
<1>4. c(0) = s
  <2>1. s \in [1..n -> S]
    BY <1>1, LenProperties
  <2>2. \A j \in 1..n : ~(j <= 0) /\ ~(j > n - 0)
    OBVIOUS
  <2> QED
    BY <2>1, <2>2
<1>5. c(h) = Reverse(s)
  <2>1. \A j \in 1..n : ~(j <= h \/ j > n - h) => n + 1 - j = j
    BY <1>2
  <2>2. \A j \in 1..n : n + 1 - j = (n - j) + 1
    OBVIOUS
  <2> QED
    BY <1>1, <2>1, <2>2 DEF Reverse
<1>6. ASSUME NEW i \in 1..h PROVE c(i) = Swap(c(i - 1), i, n + 1 - i)
  <2>1. PICK x : x = c(i)
    OBVIOUS
  <2>2. PICK y : y = c(i - 1)
    OBVIOUS
  <2>3. i \in 1..n /\ 2 * i <= n
    BY <1>2
  <2>4. Turned(x, s, n, i)
    BY <2>1 DEF Turned
  <2>5. Turned(y, s, n, i - 1)
    BY <2>2 DEF Turned
  <2> HIDE DEF c
  <2>6. x = Swap(y, i, n + 1 - i)
    BY <1>1, <2>3, <2>4, <2>5, SwapOnce
  <2> QED
    BY <2>1, <2>2, <2>6
<1>7. \A i \in 0..h : g[i] = c(i)
  OBVIOUS
<1> HIDE DEF c, g
<1>8. ASSUME NEW i \in 0..h PROVE g[i] = IF i = 0 THEN s ELSE Swap(g[i - 1], i, n + 1 - i)
  <2>1. CASE i = 0
    BY <1>4, <1>7, <2>1
  <2>2. CASE i # 0
    <3>1. i \in 1..h /\ i - 1 \in 0..h
      BY <2>2
    <3> QED
      BY <1>6, <1>7, <2>2, <3>1
  <2> QED
    BY <2>1, <2>2
<1>9. D(g)
  BY <1>1, <1>8 DEF g
<1>10. D(p)
  BY <1>9
<1> HIDE DEF p
<1>11. \A i \in 0..h : p[i] = IF i = 0 THEN s ELSE Swap(p[i - 1], i, n + 1 - i)
  BY <1>1, <1>10
<1> DEFINE Z == {i \in 0..h : p[i] = g[i]}
<1>12. 0 \in Z
  BY <1>8, <1>11
<1>13. ASSUME NEW i \in 0..(h - 1), i \in Z PROVE i + 1 \in Z
  <2>1. i + 1 \in 0..h /\ i + 1 # 0 /\ (i + 1) - 1 = i
    OBVIOUS
  <2> QED
    BY <1>8, <1>11, <1>13, <2>1
<1> HIDE DEF Z
<1>14. h \in Z
  BY <1>2, <1>12, <1>13, InductionTo
<1> QED
  BY <1>3, <1>5, <1>7, <1>14 DEF Z

LEMMA ReverseProperties ==
  ASSUME NEW S, NEW s \in Seq(S)
  PROVE  Reverse(s) \in Seq(S) /\ Len(Reverse(s)) = Len(s)
<1>1. PICK n \in Nat : n = Len(s)
  BY LenProperties
<1>2. \A i \in 1..n : s[(n - i) + 1] \in S
  <2> TAKE i \in 1..n
  <2>1. (n - i) + 1 \in 1..n
    OBVIOUS
  <2> QED
    BY <1>1, <2>1, ElementOfSeq
<1> QED
  BY <1>1, <1>2, FunctionIsSeq DEF Reverse

LEMMA ReverseCons ==
  ASSUME NEW S, NEW c \in S, NEW t \in Seq(S)
  PROVE  /\ <<c>> \o t \in Seq(S) /\ Len(<<c>> \o t) = Len(t) + 1
         /\ Reverse(<<c>> \o t) = Append(Reverse(t), c)
<1>1. PICK n \in Nat : n = Len(t)
  BY LenProperties
<1>2. PICK u : u = <<c>> \o t
  OBVIOUS
<1>3. PICK one : one = <<c>>
  OBVIOUS
<1>4. one \in Seq(S) /\ Len(one) = 1 /\ one[1] = c
  BY <1>3
<1>5. /\ u \in Seq(S) /\ Len(u) = n + 1
      /\ \A i \in 1..(1 + n) : u[i] = IF i <= 1 THEN one[i] ELSE t[i - 1]
  BY <1>1, <1>2, <1>3, <1>4, ConcatProperties
<1>6. PICK r : r = Reverse(t)
  OBVIOUS
<1>7. r \in Seq(S) /\ Len(r) = n /\ \A i \in 1..n : r[i] = t[(n - i) + 1]
  BY <1>1, <1>6, ReverseProperties DEF Reverse
<1>8. PICK x : x = Append(r, c)
  OBVIOUS
<1>9. /\ x \in Seq(S) /\ Len(x) = n + 1 /\ x[n + 1] = c
      /\ \A i \in 1..n : x[i] = r[i]
  BY <1>7, <1>8, AppendProperties
<1>10. PICK y : y = Reverse(u)
  OBVIOUS
<1>11. y \in Seq(S) /\ Len(y) = n + 1 /\ \A i \in 1..(n + 1) : y[i] = u[((n + 1) - i) + 1]
  BY <1>5, <1>10, ReverseProperties DEF Reverse
<1>12. \A i \in 1..(n + 1) : y[i] = x[i]
  <2> TAKE i \in 1..(n + 1)
  <2>1. CASE i = n + 1
    <3>1. ((n + 1) - i) + 1 = 1 /\ 1 \in 1..(1 + n)
      BY <2>1
    <3> QED
      BY <1>4, <1>5, <1>9, <1>11, <2>1, <3>1
  <2>2. CASE i # n + 1
    <3>1. PICK k \in 2..(1 + n) : k = ((n + 1) - i) + 1 /\ k - 1 = (n - i) + 1 /\ i \in 1..n
      BY <2>2
    <3>2. y[i] = t[k - 1]
      BY <1>5, <1>11, <3>1
    <3>3. x[i] = t[k - 1]
      BY <1>7, <1>9, <3>1
    <3> QED
      BY <3>2, <3>3
  <2> QED
    BY <2>1, <2>2
<1>13. y = x
  BY <1>9, <1>11, <1>12, SeqEqual
<1> QED
  BY <1>1, <1>2, <1>5, <1>6, <1>8, <1>10, <1>13

(* The digits of a number, the lowest first                                *)
Low(d, value, radix) ==
  /\ d[0] = <<>>
  /\ \A v \in 1..value : d[v] = <<lookup[1 + (v % radix)]>> \o d[v \div radix]

LEMMA Quotient ==
  ASSUME NEW v \in Nat \ {0}, NEW radix \in {10, 16}
  PROVE  /\ v \div radix \in 0..(v - 1) /\ v % radix \in 0..15
         /\ (v \div radix) * radix + (v % radix) = v
<1>1. CASE radix = 10
  BY <1>1
<1>2. CASE radix = 16
  BY <1>2
<1> QED
  BY <1>1, <1>2

LEMMA LowFirstIs ==
  ASSUME NEW value \in Nat, NEW radix \in {10, 16}
  PROVE  \E d : Low(d, value, radix) /\ LowFirst(value, radix) = d[value]
<1> DEFINE D == 0..value
           B == {0}
           S == Seq(Chars)
           w == [v \in B |-> <<>>]
           G == [v \in D \ B |-> v \div radix]
           H == [v \in D \ B |-> [t \in S |-> <<lookup[1 + (v % radix)]>> \o t]]
           depth == [v \in D |-> v]
           E(g) == g = [v \in 0..value |-> IF v = 0 THEN <<>>
                                           ELSE <<lookup[1 + (v % radix)]>> \o g[v \div radix]]
           p == CHOOSE g : E(g)
<1>1. D \ B = 1..value /\ B \in SUBSET D /\ D = 0..value
  OBVIOUS
<1>2. \A v \in 1..value : v \div radix \in 0..value /\ v \div radix < v
  BY Quotient
<1>3. ASSUME NEW v \in 1..value, NEW t \in S PROVE <<lookup[1 + (v % radix)]>> \o t \in S
  <2>1. v % radix \in 0..15
    BY Quotient
  <2>2. lookup[1 + (v % radix)] \in Chars
    BY <2>1, DigitOf
  <2> QED
    BY <2>2, ReverseCons
<1>4. \A v \in 1..value : \A t \in S : H[v][t] = <<lookup[1 + (v % radix)]>> \o t
  BY <1>1
<1>5. w \in [B -> S] /\ G \in [D \ B -> D] /\ depth \in [D -> 0..value] /\ w[0] = <<>>
  BY <1>1, <1>2
<1>6. H \in [D \ B -> [S -> S]]
  BY <1>1, <1>3
<1>7. \A v \in D \ B : depth[G[v]] < depth[v]
  BY <1>1, <1>2
<1>8. \A v \in 1..value : G[v] = v \div radix
  OBVIOUS
<1>9. 0 \in B /\ \A v \in D : v # 0 => v \notin B
  OBVIOUS
<1> HIDE DEF D, B, S, w, G, H, depth
<1>10. PICK f \in [D -> S] : Recursive(f, D, B, w, G, H)
  BY <1>1, <1>5, <1>6, <1>7, RecursionExists
<1>11. ASSUME NEW v \in 0..value
       PROVE  f[v] = IF v = 0 THEN <<>> ELSE <<lookup[1 + (v % radix)]>> \o f[v \div radix]
  <2>1. CASE v = 0
    BY <1>1, <1>5, <1>9, <1>10, <2>1 DEF Recursive
  <2>2. CASE v # 0
    <3>1. v \in 1..value
      BY <2>2
    <3>2. f[v] = H[v][f[G[v]]]
      BY <1>1, <1>9, <1>10, <2>2 DEF Recursive
    <3>3. f[v \div radix] \in S
      BY <1>1, <1>2, <1>10, <3>1
    <3> QED
      BY <1>4, <1>8, <2>2, <3>1, <3>2, <3>3
  <2> QED
    BY <2>1, <2>2
<1>12. E(f)
  <2>1. f = [v \in 0..value |-> f[v]]
    BY <1>1, <1>10
  <2> QED
    BY <1>11, <2>1
<1>13. LowFirst(value, radix) = p[value]
  BY DEF LowFirst
<1>14. E(p)
  BY <1>12
<1> HIDE DEF p
<1>15. Low(p, value, radix)
  <2>1. p[0] = <<>>
    BY <1>14
  <2>2. ASSUME NEW v \in 1..value PROVE p[v] = <<lookup[1 + (v % radix)]>> \o p[v \div radix]
    <3>1. v \in 0..value /\ v # 0
      OBVIOUS
    <3> QED
      BY <1>14, <3>1
  <2> QED
    BY <2>1, <2>2 DEF Low
<1> QED
  BY <1>13, <1>15

ReadsBack(t, v, radix) ==
  t \in Seq(Chars) /\ Natural(Reverse(t), radix) = v /\ (v # 0 => Len(t) \in Nat \ {0})

LEMMA LowReadsBack ==
  ASSUME NEW value \in Nat, NEW radix \in {10, 16}, NEW d, Low(d, value, radix)
  PROVE  ReadsBack(d[value], value, radix)
<1> DEFINE Z == {v \in Nat : v \in 0..value => ReadsBack(d[v], v, radix)}
<1>1. ASSUME NEW v \in Nat, \A u \in 0..(v - 1) : u \in Z PROVE v \in Z
  <2>1. CASE v = 0
    <3>1. Reverse(<<>>) = <<>>
      BY DEF Reverse
    <3>2. d[0] = <<>> /\ <<>> \in Seq(Chars)
      BY DEF Low
    <3>3. ReadsBack(d[0], 0, radix)
      BY <3>1, <3>2, NaturalEmpty DEF ReadsBack
    <3> QED
      BY <2>1, <3>3
  <2>2. ASSUME v # 0, v \in 0..value PROVE ReadsBack(d[v], v, radix)
    <3>1. PICK u : u = v \div radix
      OBVIOUS
    <3>2. PICK r : r = v % radix
      OBVIOUS
    <3>3. u \in 0..(v - 1) /\ r \in 0..15 /\ u * radix + r = v /\ radix \in Nat
      BY <2>2, <3>1, <3>2, Quotient
    <3>4. ReadsBack(d[u], u, radix)
      <4>1. u \in Z /\ u \in 0..value
        BY <1>1, <2>2, <3>3
      <4> QED
        BY <4>1
    <3>5. PICK c : c = lookup[1 + r]
      OBVIOUS
    <3>6. c \in Chars /\ Digit(c) = r
      BY <3>3, <3>5, DigitOf
    <3>7. d[v] = <<c>> \o d[u]
      <4>1. v \in 1..value
        BY <2>2
      <4> QED
        BY <3>1, <3>2, <3>5, <4>1 DEF Low
    <3>8. PICK t \in Seq(Chars) : t = d[u] /\ Natural(Reverse(t), radix) = u
      BY <3>4 DEF ReadsBack
    <3>9. /\ d[v] \in Seq(Chars) /\ Len(d[v]) = Len(t) + 1
          /\ Reverse(d[v]) = Append(Reverse(t), c)
      BY <3>6, <3>7, <3>8, ReverseCons
    <3>10. Reverse(t) \in Seq(Chars) /\ Len(t) \in Nat
      BY ReverseProperties, LenProperties
    <3>11. Natural(Reverse(d[v]), radix) = u * radix + r
      BY <3>3, <3>6, <3>8, <3>9, <3>10, NaturalAppend
    <3>12. Len(d[v]) \in Nat \ {0}
      BY <3>9, <3>10
    <3> QED
      BY <3>3, <3>9, <3>11, <3>12 DEF ReadsBack
  <2> QED
    BY <2>1, <2>2
<1> HIDE DEF Z
<1>2. value \in Z
  BY <1>1, StrongInduction
<1> QED
  BY <1>2 DEF Z

LEMMA LowIsShort ==
  ASSUME NEW value \in Nat, NEW d, Low(d, value, 16), NEW k \in Nat, value < Power(k)
  PROVE  Len(d[value]) <= k
<1> DEFINE Z == {v \in Nat : v \in 0..value => \A j \in Nat : v < Power(j) => Len(d[v]) <= j}
<1>1. ASSUME NEW v \in Nat, \A u \in 0..(v - 1) : u \in Z PROVE v \in Z
  <2>1. CASE v = 0
    <3>1. d[0] = <<>> /\ Len(<<>>) = 0
      BY DEF Low
    <3> QED
      BY <2>1, <3>1
  <2>2. ASSUME v # 0, v \in 0..value, NEW j \in Nat, v < Power(j) PROVE Len(d[v]) <= j
    <3>1. PICK u : u = v \div 16
      OBVIOUS
    <3>2. PICK r : r = v % 16
      OBVIOUS
    <3>3. u \in 0..(v - 1) /\ r \in 0..15 /\ u * 16 + r = v
      BY <2>2, <3>1, <3>2, Quotient
    <3>4. j # 0
      BY <2>2, PowerNext
    <3>5. u < Power(j - 1)
      <4>1. Power(j) \in Nat /\ Power(j - 1) \in Nat /\ Power(j) = 16 * Power(j - 1)
        BY <3>4, PowerNext
      <4>2. PICK x \in Nat : x = Power(j - 1) /\ v < 16 * x
        BY <2>2, <4>1
      <4> QED
        BY <3>3, <4>2
    <3>6. Len(d[u]) <= j - 1
      <4>1. u \in Z /\ u \in 0..value /\ j - 1 \in Nat
        BY <1>1, <2>2, <3>3, <3>4
      <4> QED
        BY <3>5, <4>1
    <3>7. d[v] = <<lookup[1 + r]>> \o d[u]
      <4>1. v \in 1..value
        BY <2>2
      <4> QED
        BY <3>1, <3>2, <4>1 DEF Low
    <3>8. lookup[1 + r] \in Chars
      BY <3>3, DigitOf
    <3>9. d[u] \in Seq(Chars)
      <4>1. u \in Nat /\ \A w \in 1..u : w \in 1..value
        BY <2>2, <3>3
      <4>2. Low(d, u, 16)
        BY <4>1, Zenon DEF Low
      <4> QED
        BY <4>1, <4>2, LowReadsBack DEF ReadsBack
    <3>10. Len(d[v]) = Len(d[u]) + 1 /\ Len(d[u]) \in Nat
      BY <3>7, <3>8, <3>9, ReverseCons, LenProperties
    <3> QED
      BY <3>6, <3>10
  <2> QED
    BY <2>1, <2>2
<1> HIDE DEF Z
<1>2. value \in Z
  BY <1>1, StrongInduction
<1> QED
  BY <1>2 DEF Z

(* Texts of numbers: digits are read back, leading zeros do not count and  *)
(* a sign negates.                                                         *)
Shows(s, v, radix) == s \in Seq(Chars) /\ Len(s) \in Nat \ {0} /\ Natural(s, radix) = v

LEMMA ItoaShows ==
  ASSUME NEW value \in Nat, NEW radix \in {10, 16}
  PROVE  Shows(itoa(value, radix), value, radix) /\ ece391_itoa(value, radix) = itoa(value, radix)
<1>1. CASE value = 0
  <2>1. itoa(value, radix) = Append(<<>>, "0") /\ ece391_itoa(value, radix) = itoa(value, radix)
    BY <1>1 DEF itoa, ece391_itoa
  <2>2. lookup[1 + 0] = "0"
    BY DEF lookup
  <2>3. "0" \in Chars /\ Digit("0") = 0
    BY <2>2, DigitOf
  <2>4. PICK e : e = <<>>
    OBVIOUS
  <2>5. e \in Seq(Chars) /\ Len(e) = 0 /\ Natural(e, radix) = 0
    BY <2>4, NaturalEmpty
  <2>6. radix \in Nat
    OBVIOUS
  <2>7. PICK t : t = Append(e, "0")
    OBVIOUS
  <2>8. Natural(t, radix) = 0 * radix + 0
    <3>1. Natural(Append(e, "0"), radix) = Natural(e, radix) * radix + Digit("0")
      BY <2>3, <2>5, <2>6, NaturalAppend
    <3> QED
      BY <2>3, <2>5, <2>7, <3>1
  <2>9. 0 * radix + 0 = 0
    OBVIOUS
  <2>10. t \in Seq(Chars) /\ Len(t) = 1
    BY <2>3, <2>5, <2>7, AppendProperties
  <2>11. itoa(value, radix) = t /\ ece391_itoa(value, radix) = t
    BY <2>1, <2>4, <2>7
  <2>12. Shows(t, 0, radix)
    BY <2>8, <2>9, <2>10, 1 \in Nat \ {0} DEF Shows
  <2> QED
    BY <1>1, <2>11, <2>12
<1>2. CASE value # 0
  <2>1. PICK d : Low(d, value, radix) /\ LowFirst(value, radix) = d[value]
    BY LowFirstIs
  <2>2. ReadsBack(d[value], value, radix)
    BY <2>1, LowReadsBack
  <2>3. PICK t \in Seq(Chars) : t = d[value] /\ Natural(Reverse(t), radix) = value /\ Len(t) \in Nat \ {0}
    BY <1>2, <2>2 DEF ReadsBack
  <2>4. strrev(t) = Reverse(t) /\ Reverse(t) \in Seq(Chars) /\ Len(Reverse(t)) = Len(t)
    BY StrrevIs, ReverseProperties
  <2>5. itoa(value, radix) = Reverse(t) /\ ece391_itoa(value, radix) = itoa(value, radix)
    BY <1>2, <2>1, <2>3, <2>4 DEF itoa, ece391_itoa
  <2> QED
    BY <2>3, <2>4, <2>5 DEF Shows
<1> QED
  BY <1>1, <1>2

LEMMA ItoaIsShort ==
  ASSUME NEW value \in Nat, NEW k \in Nat \ {0}, value < Power(k)
  PROVE  Len(itoa(value, 16)) <= k
<1>1. CASE value = 0
  <2>1. itoa(value, 16) = <<"0">> /\ Len(<<"0">>) = 1
    BY <1>1 DEF itoa
  <2>2. 1 <= k
    OBVIOUS
  <2> HIDE DEF itoa
  <2> QED
    BY <2>1, <2>2
<1>2. CASE value # 0
  <2>1. PICK d : Low(d, value, 16) /\ LowFirst(value, 16) = d[value]
    BY LowFirstIs
  <2>2. d[value] \in Seq(Chars)
    BY <2>1, LowReadsBack DEF ReadsBack
  <2>3. Len(d[value]) <= k
    BY <2>1, LowIsShort
  <2>4. itoa(value, 16) = Reverse(d[value])
    BY <1>2, <2>1, <2>2, StrrevIs DEF itoa
  <2> QED
    BY <2>2, <2>3, <2>4, ReverseProperties
<1> QED
  BY <1>1, <1>2

LEMMA ShownValue ==
  ASSUME NEW s, NEW v, NEW radix, Shows(s, v, radix)
  PROVE  Value(s, radix) = v
<1>1. s \in Seq(Chars) /\ 1 \in 1..Len(s)
  BY DEF Shows
<1>2. s[1] # "-"
  BY <1>1, ElementOfSeq, DigitsAre
<1> QED
  BY <1>2 DEF Value, Shows

LEMMA NegativeValue ==
  ASSUME NEW s, NEW v, NEW radix, Shows(s, v, radix)
  PROVE  Value(<<"-">> \o s, radix) = 0 - v
<1>1. PICK S : S = Chars \cup {"-"}
  OBVIOUS
<1>2. s \in Seq(S) /\ <<"-">> \in Seq(S) /\ Len(<<"-">>) = 1
  <2>1. Chars \subseteq S /\ "-" \in S
    BY <1>1
  <2> QED
    BY <2>1, SeqMonotonic DEF Shows
<1>3. PICK n \in Nat : n = Len(s)
  BY <1>2, LenProperties
<1>4. PICK t : t = <<"-">> \o s
  OBVIOUS
<1>5. /\ t \in Seq(S) /\ Len(t) = 1 + n /\ t[1] = "-"
      /\ \A i \in 1..n : t[i + 1] = s[i]
  <2>1. PICK one : one = <<"-">>
    OBVIOUS
  <2>2. one[1] = "-" /\ Len(one) = 1 /\ one \in Seq(S)
    BY <1>2, <2>1
  <2>3. /\ t \in Seq(S) /\ Len(t) = 1 + n
        /\ \A i \in 1..(1 + n) : t[i] = IF i <= 1 THEN one[i] ELSE s[i - 1]
    BY <1>2, <1>3, <1>4, <2>1, <2>2, ConcatProperties
  <2>4. 1 \in 1..(1 + n)
    OBVIOUS
  <2>5. t[1] = "-"
    BY <2>2, <2>3, <2>4
  <2>6. ASSUME NEW i \in 1..n PROVE t[i + 1] = s[i]
    <3>1. i + 1 \in 1..(1 + n) /\ ~(i + 1 <= 1) /\ (i + 1) - 1 = i
      OBVIOUS
    <3> QED
      BY <2>3, <3>1
  <2> QED
    BY <2>3, <2>5, <2>6
<1>6. Tail(t) = s
  <2>1. t # <<>>
    BY <1>5
  <2>2. Tail(t) \in Seq(S) /\ Len(Tail(t)) = n /\ \A i \in 1..n : Tail(t)[i] = t[i + 1]
    BY <1>5, <2>1, HeadTailProperties
  <2>3. \A i \in 1..Len(Tail(t)) : Tail(t)[i] = s[i]
    BY <1>5, <2>2
  <2> QED
    BY <1>2, <1>3, <2>2, <2>3, SeqEqual
<1> QED
  BY <1>4, <1>5, <1>6 DEF Value, Shows

LEMMA ZerosShown ==
  ASSUME NEW s, NEW v, NEW radix \in Nat, Shows(s, v, radix), NEW k \in Nat
  PROVE  /\ Shows([i \in 1..k |-> "0"] \o s, v, radix)
         /\ Len([i \in 1..k |-> "0"] \o s) = k + Len(s)
<1>1. PICK n \in Nat \ {0} : n = Len(s)
  BY DEF Shows
<1>2. PICK f \in [0..n -> Nat] : Reads(s, radix, n, f) /\ Natural(s, radix) = f[n]
  BY <1>1, NaturalExists DEF Shows
<1>3. PICK z : z = [i \in 1..k |-> "0"]
  OBVIOUS
<1>4. "0" \in Chars /\ Digit("0") = 0
  <2>1. lookup[1 + 0] = "0"
    BY DEF lookup
  <2> QED
    BY SMTT(30), <2>1, DigitOf
<1>5. z \in Seq(Chars) /\ Len(z) = k /\ \A i \in 1..k : z[i] = "0"
  BY <1>3, <1>4, FunctionIsSeq
<1>6. PICK u : u = z \o s
  OBVIOUS
<1>7. PICK N \in Nat \ {0} : N = k + n
  OBVIOUS
<1>8. /\ u \in Seq(Chars) /\ Len(u) = N
      /\ \A i \in 1..N : u[i] = IF i <= k THEN z[i] ELSE s[i - k]
  BY <1>1, <1>5, <1>6, <1>7, ConcatProperties DEF Shows
<1> DEFINE F == [i \in 0..N |-> IF i <= k THEN 0 ELSE f[i - k]]
<1>9. \A i \in 0..N : F[i] = IF i <= k THEN 0 ELSE f[i - k]
  OBVIOUS
<1> HIDE DEF F
<1>10. F[0] = 0 /\ F[N] = f[n]
  BY <1>7, <1>9
<1>11. ASSUME NEW i \in 1..N PROVE F[i] = F[i - 1] * radix + Digit(u[i])
  <2>1. CASE i <= k
    <3>1. F[i] = 0 /\ F[i - 1] = 0
      BY <1>9, <2>1
    <3>2. Digit(u[i]) = 0
      BY <1>4, <1>5, <1>8, <2>1
    <3>3. 0 * radix + 0 = 0
      OBVIOUS
    <3> QED
      BY <3>1, <3>2, <3>3
  <2>2. CASE ~(i <= k)
    <3>1. PICK j \in 1..n : j = i - k
      BY <1>7, <2>2
    <3>2. u[i] = s[j] /\ F[i] = f[j]
      BY <1>8, <1>9, <2>2, <3>1
    <3>3. F[i - 1] = f[j - 1]
      <4>1. CASE i - 1 <= k
        <5>1. j - 1 = 0 /\ f[0] = 0
          BY <1>2, <2>2, <3>1, <4>1 DEF Reads
        <5> QED
          BY <1>9, <4>1, <5>1
      <4>2. CASE ~(i - 1 <= k)
        <5>1. (i - 1) - k = j - 1 /\ i - 1 \in 0..N
          BY <3>1
        <5> QED
          BY <1>9, <4>2, <5>1
      <4> QED
        BY <4>1, <4>2
    <3>4. f[j] = f[j - 1] * radix + Digit(s[j])
      BY <1>2, <3>1 DEF Reads
    <3> QED
      BY <3>2, <3>3, <3>4
  <2> QED
    BY <2>1, <2>2
<1>12. Reads(u, radix, N, F)
  BY <1>10, <1>11 DEF Reads
<1>13. Natural(u, radix) = F[N]
  BY <1>8, <1>12, NaturalIs
<1>14. Shows(u, v, radix)
  BY <1>2, <1>8, <1>10, <1>13 DEF Shows
<1> QED
  BY <1>1, <1>3, <1>6, <1>7, <1>8, <1>14

LEMMA PaddedShows ==
  ASSUME NEW value \in Nat, value < Power(DIGITS)
  PROVE  Shows(Padded(value), value, 16) /\ Len(Padded(value)) = DIGITS
<1>1. PICK s : s = itoa(value, 16)
  OBVIOUS
<1>2. Shows(s, value, 16)
  BY <1>1, ItoaShows
<1>3. Len(s) \in Nat /\ Len(s) <= DIGITS /\ DIGITS \in Nat
  BY <1>1, <1>2, DigitsAssumption, ItoaIsShort DEF Shows
<1>4. PICK k \in Nat : k = DIGITS - Len(s)
  BY <1>3
<1>5. Padded(value) = [i \in 1..k |-> "0"] \o s
  BY <1>1, <1>4 DEF Padded
<1>6. 16 \in Nat
  OBVIOUS
<1>7. /\ Shows([i \in 1..k |-> "0"] \o s, value, 16)
      /\ Len([i \in 1..k |-> "0"] \o s) = k + Len(s)
  BY <1>2, <1>6, ZerosShown
<1> QED
  BY <1>3, <1>4, <1>5, <1>7

(* Numbers of an int's width                                               *)
LEMMA UnsignedIs ==
  ASSUME NEW v \in Int
  PROVE  /\ Unsigned(v) \in Nat /\ Unsigned(v) < Power(DIGITS)
         /\ 0 <= v /\ v < Power(DIGITS) => Unsigned(v) = v
<1>1. PICK P \in Nat \ {0} : P = Power(DIGITS)
  BY DigitsAssumption, PowerNext
<1>2. v % P \in 0..(P - 1)
  OBVIOUS
<1>3. ASSUME 0 <= v, v < P PROVE v % P = v
  <2>1. v \in 0..(P - 1) /\ P * 0 + v = v /\ 0 \in Nat
    BY <1>3
  <2>2. (P * 0 + v) % P = v
    BY <2>1, DivModOf
  <2> QED
    BY <2>1, <2>2
<1> QED
  BY <1>1, <1>2, <1>3 DEF Unsigned

(* The top bit is the sign.                                                *)
AnInt(v) == LET top == Power(DIGITS) \div 2 IN v \in (0 - top)..(top - 1)

LEMMA DecimalReadsBack ==
  ASSUME NEW v, AnInt(v)
  PROVE  Decimal(v) \in Seq(Chars \cup {"-"}) /\ Value(Decimal(v), 10) = v
<1>1. PICK P \in Nat \ {0} : P = Power(DIGITS)
  BY DigitsAssumption, PowerNext
<1>2. PICK top \in Nat : top = P \div 2 /\ top < P
  BY <1>1
<1>3. v \in Int /\ 0 - top <= v /\ v < top
  BY <1>1, <1>2 DEF AnInt
<1>4. CASE v < 0
  <2>1. PICK x \in Nat : x = -v /\ x < P
    BY <1>2, <1>3, <1>4
  <2>2. Unsigned(-v) = x
    BY <1>1, <2>1, UnsignedIs
  <2>3. PICK s : s = itoa(x, 10)
    OBVIOUS
  <2>4. Shows(s, x, 10)
    BY <2>3, ItoaShows
  <2>5. Decimal(v) = <<"-">> \o s
    BY <1>4, <2>2, <2>3 DEF Decimal
  <2>6. Value(<<"-">> \o s, 10) = 0 - x
    BY <2>4, NegativeValue
  <2>7. <<"-">> \o s \in Seq(Chars \cup {"-"})
    <3>1. s \in Seq(Chars \cup {"-"})
      BY <2>4, SeqMonotonic DEF Shows
    <3> QED
      BY <3>1, ReverseCons
  <2> QED
    BY <1>3, <2>1, <2>5, <2>6, <2>7
<1>5. CASE ~(v < 0)
  <2>1. v \in Nat
    BY <1>3, <1>5
  <2>2. Decimal(v) = itoa(v, 10) /\ Shows(itoa(v, 10), v, 10)
    BY <1>5, <2>1, ItoaShows DEF Decimal
  <2> QED
    BY <2>2, ShownValue, SeqMonotonic DEF Shows
<1> QED
  BY <1>4, <1>5

(* printf, one character of the format after the other                     *)
Printing(conv, v) == [conv |-> conv, args |-> <<v>>, text |-> <<>>]

LEMMA PrintingStarts ==
  ASSUME NEW v
  PROVE  /\ PrintOne(Printing("none", v), "%") = Printing("plain", v)
         /\ PrintOne(Printing("plain", v), "#") = Printing("alternate", v)
<1>1. PrintOne(Printing("none", v), "%") = [Printing("none", v) EXCEPT !.conv = "plain"]
  BY DEF PrintOne, Printing
<1>2. PrintOne(Printing("plain", v), "#") = [Printing("plain", v) EXCEPT !.conv = "alternate"]
  BY DEF PrintOne, Printing
<1> QED
  BY <1>1, <1>2 DEF Printing

LEMMA PrintingEnds ==
  ASSUME NEW v, NEW conv \in {"plain", "alternate"}, NEW c \in {"x", "u", "d"},
         NEW S, Converted(c, conv = "alternate", v) \in Seq(S)
  PROVE  PrintOne(Printing(conv, v), c).text = Converted(c, conv = "alternate", v)
<1>1. PICK p : p = Printing(conv, v)
  OBVIOUS
<1>2. p.conv = conv /\ Head(p.args) = v /\ p.text = <<>>
  BY <1>1 DEF Printing
<1>3. PrintOne(p, c) = [conv |-> "none", args |-> Tail(p.args),
                        text |-> p.text \o Converted(c, p.conv = "alternate", Head(p.args))]
  BY <1>2 DEF PrintOne
<1>4. PrintOne(p, c).text = <<>> \o Converted(c, conv = "alternate", v)
  BY <1>2, <1>3
<1> QED
  BY <1>1, <1>4, ConcatEmptySeq

LEMMA PrintfTwo ==
  ASSUME NEW a, NEW b, NEW v
  PROVE  printf(<<a, b>>, <<v>>) = PrintOne(PrintOne(Printing("none", v), a), b).text
<1> DEFINE format == <<a, b>>
           x == Printing("none", v)
           y == PrintOne(x, a)
           z == PrintOne(y, b)
           D(g) == g = [i \in 0..Len(format) |-> IF i = 0 THEN x ELSE PrintOne(g[i - 1], format[i])]
           g == [i \in 0..2 |-> IF i = 0 THEN x ELSE IF i = 1 THEN y ELSE z]
           p == CHOOSE h : D(h)
<1>1. Len(format) = 2 /\ format[1] = a /\ format[2] = b
  OBVIOUS
<1>2. printf(format, <<v>>) = p[2].text
  BY <1>1 DEF printf, Printing
<1> HIDE DEF format, x, y, z
<1>3. y = PrintOne(x, a) /\ z = PrintOne(y, b)
  BY DEF y, z
<1>4. D(g)
  <2>1. \A i \in 0..2 : g[i] = IF i = 0 THEN x ELSE PrintOne(g[i - 1], format[i])
    <3> TAKE i \in 0..2
    <3>1. CASE i = 0
      BY <3>1
    <3>2. CASE i = 1
      BY <1>1, <1>3, <3>2
    <3>3. CASE i = 2
      BY <1>1, <1>3, <3>3
    <3> QED
      BY <3>1, <3>2, <3>3
  <2> HIDE DEF g
  <2>2. g = [i \in 0..2 |-> g[i]]
    BY DEF g
  <2> QED
    BY <1>1, <2>1, <2>2
<1>5. D(p)
  BY <1>4
<1> HIDE DEF p
<1>6. \A i \in 0..2 : p[i] = IF i = 0 THEN x ELSE PrintOne(p[i - 1], format[i])
  BY <1>1, <1>5
<1>7. p[0] = x
  BY <1>6
<1>8. p[1] = PrintOne(p[0], a)
  <2>1. 1 \in 0..2 /\ 1 # 0 /\ 1 - 1 = 0
    OBVIOUS
  <2> QED
    BY <1>1, <1>6, <2>1
<1>9. p[2] = PrintOne(p[1], b)
  <2>1. 2 \in 0..2 /\ 2 # 0 /\ 2 - 1 = 1
    OBVIOUS
  <2> QED
    BY <1>1, <1>6, <2>1
<1> QED
  BY <1>2, <1>7, <1>8, <1>9 DEF format, x

LEMMA PrintfThree ==
  ASSUME NEW a, NEW b, NEW c, NEW v
  PROVE  printf(<<a, b, c>>, <<v>>) = PrintOne(PrintOne(PrintOne(Printing("none", v), a), b), c).text
<1> DEFINE format == <<a, b, c>>
           x == Printing("none", v)
           y == PrintOne(x, a)
           z == PrintOne(y, b)
           w == PrintOne(z, c)
           D(g) == g = [i \in 0..Len(format) |-> IF i = 0 THEN x ELSE PrintOne(g[i - 1], format[i])]
           g == [i \in 0..3 |-> IF i = 0 THEN x ELSE IF i = 1 THEN y ELSE IF i = 2 THEN z ELSE w]
           p == CHOOSE h : D(h)
<1>1. Len(format) = 3 /\ format[1] = a /\ format[2] = b /\ format[3] = c
  OBVIOUS
<1>2. printf(format, <<v>>) = p[3].text
  BY <1>1 DEF printf, Printing
<1> HIDE DEF format, x, y, z, w
<1>3. y = PrintOne(x, a) /\ z = PrintOne(y, b) /\ w = PrintOne(z, c)
  BY DEF y, z, w
<1>4. D(g)
  <2>1. \A i \in 0..3 : g[i] = IF i = 0 THEN x ELSE PrintOne(g[i - 1], format[i])
    <3> TAKE i \in 0..3
    <3>1. CASE i = 0
      BY <3>1
    <3>2. CASE i = 1
      BY <1>1, <1>3, <3>2
    <3>3. CASE i = 2
      BY <1>1, <1>3, <3>3
    <3>4. CASE i = 3
      BY <1>1, <1>3, <3>4
    <3> QED
      BY <3>1, <3>2, <3>3, <3>4
  <2> HIDE DEF g
  <2>2. g = [i \in 0..3 |-> g[i]]
    BY DEF g
  <2> QED
    BY <1>1, <2>1, <2>2
<1>5. D(p)
  BY <1>4
<1> HIDE DEF p
<1>6. \A i \in 0..3 : p[i] = IF i = 0 THEN x ELSE PrintOne(p[i - 1], format[i])
  BY <1>1, <1>5
<1>7. p[0] = x
  BY <1>6
<1>8. p[1] = PrintOne(p[0], a)
  <2>1. 1 \in 0..3 /\ 1 # 0 /\ 1 - 1 = 0
    OBVIOUS
  <2> QED
    BY <1>1, <1>6, <2>1
<1>9. p[2] = PrintOne(p[1], b)
  <2>1. 2 \in 0..3 /\ 2 # 0 /\ 2 - 1 = 1
    OBVIOUS
  <2> QED
    BY <1>1, <1>6, <2>1
<1>10. p[3] = PrintOne(p[2], c)
  <2>1. 3 \in 0..3 /\ 3 # 0 /\ 3 - 1 = 2
    OBVIOUS
  <2> QED
    BY <1>1, <1>6, <2>1
<1> QED
  BY <1>2, <1>7, <1>8, <1>9, <1>10 DEF format, x

LEMMA NumberPrinted ==
  ASSUME NEW v, AnInt(v)
  PROVE  /\ Value(printf(<<"%", "d">>, <<v>>), 10) = v
         /\ Value(printf(<<"%", "u">>, <<v>>), 10) = Unsigned(v)
         /\ Value(printf(<<"%", "x">>, <<v>>), 16) = Unsigned(v)
         /\ Value(printf(<<"%", "#", "x">>, <<v>>), 16) = Unsigned(v)
         /\ Len(printf(<<"%", "#", "x">>, <<v>>)) = DIGITS
<1>1. v \in Int
  <2>1. PICK P \in Nat \ {0} : P = Power(DIGITS)
    BY DigitsAssumption, PowerNext
  <2>2. P \div 2 \in Nat
    BY <2>1
  <2> QED
    BY <2>1, <2>2 DEF AnInt
<1>2. PICK u \in Nat : u = Unsigned(v) /\ u < Power(DIGITS)
  BY <1>1, UnsignedIs
<1>3. Shows(itoa(u, 10), u, 10) /\ Shows(itoa(u, 16), u, 16)
  BY ItoaShows
<1>4. Shows(Padded(u), u, 16) /\ Len(Padded(u)) = DIGITS
  BY <1>2, PaddedShows
<1>5. printf(<<"%", "d">>, <<v>>) = Decimal(v)
  <2>1. Converted("d", "plain" = "alternate", v) = Decimal(v)
    BY DEF Converted
  <2>2. Decimal(v) \in Seq(Chars \cup {"-"})
    BY DecimalReadsBack
  <2>3. PrintOne(Printing("plain", v), "d").text = Decimal(v)
    BY <2>1, <2>2, PrintingEnds
  <2> QED
    BY <2>3, PrintfTwo, PrintingStarts
<1>6. printf(<<"%", "u">>, <<v>>) = itoa(u, 10)
  <2>1. Converted("u", "plain" = "alternate", v) = itoa(u, 10)
    BY <1>2 DEF Converted
  <2>2. PrintOne(Printing("plain", v), "u").text = itoa(u, 10)
    BY <1>3, <2>1, PrintingEnds DEF Shows
  <2> QED
    BY <2>2, PrintfTwo, PrintingStarts
<1>7. printf(<<"%", "x">>, <<v>>) = itoa(u, 16)
  <2>1. Converted("x", "plain" = "alternate", v) = itoa(u, 16)
    BY <1>2 DEF Converted
  <2>2. PrintOne(Printing("plain", v), "x").text = itoa(u, 16)
    BY <1>3, <2>1, PrintingEnds DEF Shows
  <2> QED
    BY <2>2, PrintfTwo, PrintingStarts
<1>8. printf(<<"%", "#", "x">>, <<v>>) = Padded(u)
  <2>1. Converted("x", "alternate" = "alternate", v) = Padded(u)
    BY <1>2 DEF Converted
  <2>2. PrintOne(Printing("alternate", v), "x").text = Padded(u)
    BY <1>4, <2>1, PrintingEnds DEF Shows
  <2> QED
    BY <2>2, PrintfThree, PrintingStarts
<1> QED
  BY <1>2, <1>3, <1>4, <1>5, <1>6, <1>7, <1>8, DecimalReadsBack, ShownValue

(* %d, %u, %x and %#x of every int, and the counter program's itoa of      *)
(* every number, print a text that reads back as that number (lib.c:118    *)
(* to 214 and 282 to 319, ece391support.c:88 to 122).                      *)
THEOREM NumbersRead == LibrarySpec => []NumbersReadBack
<1>1. ASSUME LibraryInv, Ran({"printf"})
      PROVE  CASE call.format = <<"%", "d">> -> Value(answer, 10) = call.args[1]
               [] call.format = <<"%", "u">> -> Value(answer, 10) = Unsigned(call.args[1])
               [] OTHER -> /\ Value(answer, 16) = Unsigned(call.args[1])
                           /\ call.format[2] = "#" => Len(answer) = DIGITS
  <2>1. call \in Calls /\ call.fn = "printf" /\ answer = Answer(call)
    BY <1>1, Answered
  <2>2. answer = printf(call.format, call.args)
    BY <2>1 DEF Answer
  <2>3. LegalNumber(call)
    BY <2>1, CallsAssumption
  <2>4. PICK v : AnInt(v) /\ call.args = <<v>>
    BY <2>1, <2>3, Zenon DEF LegalNumber, AnInt
  <2>5. call.format \in Formats
    BY <2>1, <2>3, Zenon DEF LegalNumber
  <2>6. PICK format : format = call.format
    OBVIOUS
  <2>7. call.args[1] = v
    BY <2>4
  <2>8. CASE format = <<"%", "d">>
    BY <2>2, <2>4, <2>6, <2>7, <2>8, NumberPrinted
  <2>9. CASE format = <<"%", "u">>
    <3>1. format # <<"%", "d">>
      BY <2>9
    <3> QED
      BY <2>2, <2>4, <2>6, <2>7, <2>9, <3>1, NumberPrinted
  <2>10. CASE format = <<"%", "x">>
    <3>1. format # <<"%", "d">> /\ format # <<"%", "u">> /\ format[2] # "#"
      BY <2>10
    <3> QED
      BY <2>2, <2>4, <2>6, <2>7, <2>10, <3>1, NumberPrinted
  <2>11. CASE format = <<"%", "#", "x">>
    <3>1. format # <<"%", "d">> /\ format # <<"%", "u">>
      BY <2>11
    <3> QED
      BY <2>2, <2>4, <2>6, <2>7, <2>11, <3>1, NumberPrinted
  <2> QED
    BY <2>5, <2>6, <2>8, <2>9, <2>10, <2>11 DEF Formats
<1>2. ASSUME LibraryInv, Ran({"counter"}) PROVE Value(answer, 10) = call.n
  <2>1. call \in Calls /\ call.fn = "counter" /\ answer = Answer(call)
    BY <1>1, <1>2, Answered
  <2>2. answer = ece391_itoa(call.n, 10)
    BY <2>1 DEF Answer
  <2>3. call.n \in Nat
    BY <2>1, CallsAssumption DEF LegalNumber
  <2> QED
    BY <2>2, <2>3, ItoaShows, ShownValue
<1>3. LibraryInv => NumbersReadBack
  BY <1>1, <1>2 DEF NumbersReadBack
<1> QED
  BY <1>3, LibraryAnswers, PTL

-----------------------------------------------------------------------------
(* The lines of a file and its matches, from one newline to the next       *)
LEMMA MaxOf ==
  ASSUME NEW Z, NEW x \in Z, Z \subseteq Nat, \A y \in Z : y <= x
  PROVE  Max(Z) = x
<1>1. PICK m : m = Max(Z)
  OBVIOUS
<1>2. \E y \in Z : \A z \in Z : y >= z
  <2>1. \A z \in Z : x >= z
    OBVIOUS
  <2> QED
    BY <2>1
<1>3. m \in Z /\ \A z \in Z : m >= z
  BY <1>1, <1>2 DEF Max
<1>4. m \in Nat /\ x \in Nat /\ m <= x /\ x <= m
  BY <1>3
<1> QED
  BY <1>1, <1>4

LineStartsAt(f, x) == x = 0 \/ f[x] = NL
NoNewline(f, x, y) == \A k \in (x + 1)..y : f[k] # NL

LEMMA LineBeforeIs ==
  ASSUME NEW f, NEW i \in Nat \ {0}, NEW x \in 0..(i - 1), LineStartsAt(f, x), NoNewline(f, x, i - 1)
  PROVE  LineBefore(f, i) = SubSeq(f, x + 1, i - 1)
<1> DEFINE Z == {y \in 0..(i - 1) : y = 0 \/ f[y] = NL}
<1>1. x \in Z /\ Z \subseteq Nat
  BY DEF LineStartsAt
<1>2. \A y \in Z : y <= x
  <2> SUFFICES ASSUME NEW y \in 0..(i - 1), y = 0 \/ f[y] = NL
               PROVE  y <= x
    OBVIOUS
  <2>1. ASSUME ~(y <= x) PROVE FALSE
    <3>1. y \in (x + 1)..(i - 1) /\ y # 0
      BY <2>1
    <3> QED
      BY <3>1 DEF NoNewline
  <2> QED
    BY <2>1
<1>3. LineStart(f, i) = Max(Z)
  BY DEF LineStart
<1> HIDE DEF Z
<1>4. LineStart(f, i) = x
  BY <1>1, <1>2, <1>3, MaxOf
<1> QED
  BY <1>4 DEF LineBefore

Matched(m, f, s) ==
  /\ m[0] = <<>>
  /\ \A i \in 1..(Len(f) + 1) :
       m[i] = IF Ended(f, i) /\ HasString(LineBefore(f, i), s) THEN Append(m[i - 1], LineBefore(f, i))
              ELSE m[i - 1]

LEMMA MatchedExists ==
  ASSUME NEW f, NEW s, Len(f) \in Nat
  PROVE  \E m : Matched(m, f, s) /\ Matches(f, s) = m[Len(f) + 1]
<1> DEFINE G(r, i) == IF Ended(f, i) /\ HasString(LineBefore(f, i), s) THEN Append(r, LineBefore(f, i)) ELSE r
           D(g, n) == g = [i \in 0..n |-> IF i = 0 THEN <<>> ELSE G(g[i - 1], i)]
           Z == {n \in Nat : \E g : D(g, n)}
           N == Len(f) + 1
           p == CHOOSE g : D(g, N)
<1>1. N \in Nat /\ N = Len(f) + 1
  OBVIOUS
<1>2. Matches(f, s) = p[N]
  BY DEF Matches
<1> HIDE DEF G, N
<1>3. 0 \in Z
  <2> DEFINE g == [i \in {0} |-> <<>>]
  <2>1. D(g, 0)
    OBVIOUS
  <2> QED
    BY <2>1
<1>4. ASSUME NEW n \in 0..(N - 1), n \in Z PROVE n + 1 \in Z
  <2>1. PICK g : D(g, n)
    BY <1>4
  <2> DEFINE h == [i \in 0..(n + 1) |-> IF i \in 0..n THEN g[i] ELSE G(g[n], n + 1)]
  <2>2. \A i \in 0..n : g[i] = IF i = 0 THEN <<>> ELSE G(g[i - 1], i)
    BY <2>1
  <2>3. \A i \in 0..(n + 1) : h[i] = IF i \in 0..n THEN g[i] ELSE G(g[n], n + 1)
    OBVIOUS
  <2>4. h = [i \in 0..(n + 1) |-> h[i]]
    OBVIOUS
  <2> HIDE DEF h, D
  <2>5. ASSUME NEW i \in 0..(n + 1) PROVE h[i] = IF i = 0 THEN <<>> ELSE G(h[i - 1], i)
    <3>1. CASE i = n + 1
      <4>1. i # 0 /\ i - 1 = n /\ i - 1 \in 0..n /\ i \notin 0..n /\ i - 1 \in 0..(n + 1)
        BY <1>1, <3>1
      <4> QED
        BY <2>3, <3>1, <4>1
    <3>2. CASE i # n + 1
      <4>1. i \in 0..n /\ (i # 0 => i - 1 \in 0..n /\ i - 1 \in 0..(n + 1))
        BY <1>1, <3>2
      <4> QED
        BY <2>2, <2>3, <4>1
    <3> QED
      BY <3>1, <3>2
  <2>6. D(h, n + 1)
    BY <2>4, <2>5 DEF D
  <2> QED
    BY <1>1, <2>6
<1>5. N \in Z
  <2> HIDE DEF Z
  <2> QED
    BY <1>1, <1>3, <1>4, InductionTo
<1>6. D(p, N)
  BY <1>5
<1> HIDE DEF p
<1>7. \A i \in 0..N : p[i] = IF i = 0 THEN <<>> ELSE G(p[i - 1], i)
  BY <1>6
<1>8. p[0] = <<>> /\ \A i \in 1..N : p[i] = G(p[i - 1], i)
  <2>1. 0 \in 0..N /\ \A i \in 1..N : i \in 0..N /\ i # 0
    BY <1>1
  <2> QED
    BY <1>7, <2>1
<1>9. Matched(p, f, s)
  BY <1>1, <1>8 DEF Matched, G
<1> QED
  BY <1>1, <1>2, <1>9

(* Nothing is printed where no line ends.                                  *)
LEMMA NoMatchInside ==
  ASSUME NEW f, NEW s, NEW N \in Nat, N = Len(f), NEW m, Matched(m, f, s),
         NEW x \in 0..N, NEW y \in x..N, NoNewline(f, x, y)
  PROVE  m[y] = m[x]
<1> DEFINE Z == {k \in 0..(y - x) : m[x + k] = m[x]}
<1>1. 0 \in Z /\ y - x \in Nat
  OBVIOUS
<1>2. ASSUME NEW k \in 0..((y - x) - 1), k \in Z PROVE k + 1 \in Z
  <2>1. PICK i \in (x + 1)..y : i = x + (k + 1) /\ i - 1 = x + k
    OBVIOUS
  <2>2. i \in 1..(Len(f) + 1) /\ ~Ended(f, i)
    BY <2>1 DEF Ended, NoNewline
  <2>3. m[i] = m[i - 1]
    BY <2>2 DEF Matched
  <2>4. k + 1 \in 0..(y - x) /\ m[x + k] = m[x]
    BY <1>2
  <2> QED
    BY <2>1, <2>3, <2>4
<1> HIDE DEF Z
<1>3. PICK K \in Nat : K = y - x /\ K \in 0..K /\ x + K = y
  OBVIOUS
<1>4. \A k \in 0..K : k \in Z
  BY <1>1, <1>2, <1>3, InductionTo
<1>5. K \in Z
  BY <1>3, <1>4
<1> QED
  BY <1>3, <1>5 DEF Z

(* One line, from x to y, is printed if it has the string.                 *)
FileLine(f, N, s, m, x, y, l) ==
  /\ N \in Nat /\ N = Len(f) /\ Matched(m, f, s) /\ x \in 0..N /\ y \in x..N
  /\ NoNewline(f, x, y) /\ LineStartsAt(f, x) /\ Ended(f, y + 1) /\ l = SubSeq(f, x + 1, y)

LEMMA MatchOfLine ==
  ASSUME NEW f, NEW N, NEW s, NEW m, NEW x, NEW y, NEW l, FileLine(f, N, s, m, x, y, l)
  PROVE  m[y + 1] = IF HasString(l, s) THEN Append(m[x], l) ELSE m[x]
<1> /\ N \in Nat /\ N = Len(f) /\ Matched(m, f, s) /\ x \in 0..N /\ y \in x..N
    /\ NoNewline(f, x, y) /\ LineStartsAt(f, x) /\ Ended(f, y + 1) /\ l = SubSeq(f, x + 1, y)
  BY DEF FileLine
<1>1. PICK i \in 1..(N + 1) : i = y + 1 /\ i - 1 = y
  OBVIOUS
<1>2. LineBefore(f, i) = l
  BY SMTT(30), <1>1, LineBeforeIs
<1>3. m[i - 1] = m[x]
  BY <1>1, NoMatchInside
<1> QED
  BY <1>1, <1>2, <1>3 DEF Matched
-----------------------------------------------------------------------------
(* One line in the buffer                                                  *)
LEMMA LineEndIs ==
  ASSUME NEW data, NEW start \in Nat, NEW last \in Nat, start <= last
  PROVE  \E end \in start..last :
           /\ end = LineEnd(data, start, last) /\ (end = last \/ data[end] = NL)
           /\ \A k \in start..(end - 1) : data[k] # NL
<1> DEFINE Z == {k \in start..last : k = last \/ data[k] = NL}
<1>1. Z \in SUBSET Nat /\ last \in Z
  OBVIOUS
<1>2. \A k : k \in Z <=> k \in start..last /\ (k = last \/ data[k] = NL)
  OBVIOUS
<1>3. LineEnd(data, start, last) = Min(Z)
  BY DEF LineEnd
<1> HIDE DEF Z
<1>4. PICK end \in Z : end = Min(Z) /\ \A y \in Z : end <= y
  BY <1>1, MinOf
<1>5. end \in start..last /\ (end = last \/ data[end] = NL)
  BY <1>2, <1>4
<1>6. ASSUME NEW k \in start..(end - 1) PROVE data[k] # NL
  <2>1. k \in start..last /\ ~(end <= k)
    BY <1>5
  <2> QED
    BY <1>2, <1>4, <2>1
<1> QED
  BY <1>3, <1>4, <1>5, <1>6

(* A comparison with s, whose bytes are not 0, comes out equal if s is      *)
(* there.                                                                  *)
Has(data, check, s, n) == \A j \in 1..n : data[check + j - 1] = s[j]

BothOf(M, data, s, B, n) ==
  /\ \A a \in 0..B : M[a] = data[a]
  /\ \A i \in 0..(n - 1) : M[B + 1 + i] = s[i + 1] /\ s[i + 1] \in 1..255

LEMMA BothIs ==
  ASSUME NEW B \in Nat, B = BUFSIZE, NEW data \in [0..B -> 0..255], NEW S \in SUBSET (1..255), NEW s \in Seq(S),
         NEW n \in Nat, n = Len(s), NEW M, M = Both(data, s)
  PROVE  BothOf(M, data, s, B, n)
<1>1. \A a \in 0..(B + 1 + n) : M[a] = IF a <= B THEN data[a] ELSE Text(s)[a - B - 1]
  BY DEF Both
<1>2. ASSUME NEW i \in 0..(n - 1) PROVE M[B + 1 + i] = s[i + 1] /\ s[i + 1] \in 1..255
  <2>1. /\ B + 1 + i \in 0..(B + 1 + n) /\ ~(B + 1 + i <= B) /\ (B + 1 + i) - B - 1 = i
        /\ i \in 0..n /\ i < n /\ i + 1 \in 1..n
    OBVIOUS
  <2>2. Text(s)[i] = s[i + 1]
    BY <2>1 DEF Text
  <2>3. s[i + 1] \in S
    BY <2>1
  <2>4. s[i + 1] \in 1..255
    BY <2>3
  <2>5. M[B + 1 + i] = Text(s)[i]
    BY <1>1, <2>1
  <2> QED
    BY <2>2, <2>4, <2>5
<1>3. ASSUME NEW a \in 0..B PROVE M[a] = data[a]
  BY <1>1
<1> QED
  BY <1>2, <1>3 DEF BothOf

Comparing(S, B, data, s, n, end) ==
  /\ B \in Nat /\ B = BUFSIZE /\ data \in [0..B -> 0..255] /\ end \in 0..B /\ data[end] = 0
  /\ S \in SUBSET (1..255) /\ s \in Seq(S) /\ n \in Nat /\ n = Len(s)

LEMMA ComparesTrue ==
  ASSUME NEW S, NEW B, NEW data, NEW s, NEW n, NEW end, Comparing(S, B, data, s, n, end),
         NEW check \in 0..(end - 1)
  PROVE  ece391_strncmp(Both(data, s), check, BUFSIZE + 1, Len(s)) = 0
           <=> check + n <= end /\ Has(data, check, s, n)
<1> /\ B \in Nat /\ B = BUFSIZE /\ data \in [0..B -> 0..255] /\ end \in 0..B /\ data[end] = 0
    /\ S \in SUBSET (1..255) /\ s \in Seq(S) /\ n \in Nat /\ n = Len(s)
  BY DEF Comparing
<1> check \in Nat
  OBVIOUS
<1>1. PICK M : M = Both(data, s)
  OBVIOUS
<1>2. BothOf(M, data, s, B, n)
  BY SMTT(30), <1>1, BothIs
<1>3. PICK Z : Z = Stops(M, check, B + 1, n)
  OBVIOUS
<1>4. \A i : i \in Z <=> i \in 0..(n - 1) /\ (M[check + i] # M[B + 1 + i] \/ M[check + i] = 0)
  BY <1>3 DEF Stops
<1>5. Z \in SUBSET Nat
  BY <1>4
<1>6. ece391_strncmp(Both(data, s), check, BUFSIZE + 1, Len(s))
        = IF Z = {} THEN 0 ELSE M[check + Min(Z)] - M[B + 1 + Min(Z)]
  BY <1>1, <1>3 DEF ece391_strncmp, Stops
<1>7. CASE Z = {}
  <2>1. ASSUME NEW i \in 0..(n - 1) PROVE M[check + i] = s[i + 1] /\ M[check + i] # 0
    <3>1. M[B + 1 + i] = s[i + 1] /\ i \notin Z
      BY <1>2, <1>7 DEF BothOf
    <3> QED
      BY <1>4, <3>1
  <2>2. ASSUME ~(check + n <= end) PROVE FALSE
    <3>1. end - check \in 0..(n - 1) /\ check + (end - check) = end
      BY <2>2
    <3>2. M[end] # 0
      BY <2>1, <3>1
    <3> QED
      BY <1>2, <3>2 DEF BothOf
  <2>3. ASSUME NEW j \in 1..n PROVE data[check + j - 1] = s[j]
    <3>1. /\ j - 1 \in 0..(n - 1) /\ check + (j - 1) = check + j - 1 /\ (j - 1) + 1 = j
          /\ check + j - 1 \in 0..B
      BY <2>2
    <3> QED
      BY ZenonT(60), <1>2, <2>1, <3>1 DEF BothOf
  <2> QED
    BY <1>6, <1>7, <2>2, <2>3 DEF Has
<1>8. CASE Z # {}
  <2>1. PICK i \in Z : i = Min(Z) /\ \A y \in Z : i <= y
    BY <1>5, <1>8, MinOf
  <2>2. i \in 0..(n - 1) /\ (M[check + i] # M[B + 1 + i] \/ M[check + i] = 0)
        /\ M[B + 1 + i] = s[i + 1] /\ s[i + 1] \in 1..255
    <3>1. i \in 0..(n - 1) /\ (M[check + i] # M[B + 1 + i] \/ M[check + i] = 0)
      BY <1>4, <2>1
    <3> QED
      BY ZenonT(60), <1>2, <3>1 DEF BothOf
  <2>3. M[check + i] # s[i + 1]
    <3>1. \A y, z : z \in 1..255 /\ (y # z \/ y = 0) => y # z
      OBVIOUS
    <3> QED
      BY ZenonT(60), <2>2, <3>1
  <2>4. ~(check + i > end)
    <3>1. ASSUME check + i > end PROVE FALSE
      <4>1. PICK k \in 0..(n - 1) : k = end - check /\ check + k = end /\ k < i
        BY <2>2, <3>1
      <4>2. M[check + k] = 0
        BY <1>2, <4>1 DEF BothOf
      <4>3. k \in Z
        BY <1>4, <4>1, <4>2
      <4> QED
        BY <2>1, <2>2, <4>1, <4>3
    <3> QED
      BY <2>2, <3>1
  <2>5. check + i \in 0..B
    BY <2>2, <2>4
  <2>6. M[check + i] \in 0..255
    BY ZenonT(60), <1>2, <2>5 DEF BothOf
  <2>7. M[check + i] - s[i + 1] # 0
    <3>1. \A y \in 0..255, z \in 1..255 : y # z => y - z # 0
      OBVIOUS
    <3> QED
      BY ZenonT(60), <2>2, <2>3, <2>6, <3>1
  <2>8. ece391_strncmp(Both(data, s), check, BUFSIZE + 1, Len(s)) = M[check + i] - s[i + 1]
    BY <1>6, <1>8, <2>1, <2>2
  <2>9. ~Has(data, check, s, n)
    <3>1. i + 1 \in 1..n /\ check + (i + 1) - 1 = check + i
      BY <2>2
    <3>2. data[check + i] # s[i + 1]
      BY <1>2, <2>3, <2>5 DEF BothOf
    <3> QED
      BY <3>1, <3>2 DEF Has
  <2> QED
    BY <2>7, <2>8, <2>9
<1> QED
  BY <1>7, <1>8

(* The buffer holds, from x to y, the bytes of f from base on.             *)
Holds(data, f, base, x, y) == \A a \in x..(y - 1) : data[a] = f[base + a + 1]

PartIs(S, f, x, y, l) ==
  f \in Seq(S) /\ x \in Nat /\ y \in Nat /\ x <= y /\ y <= Len(f) /\ l = SubSeq(f, x + 1, y)

(* The n bytes of s are somewhere after the x-th byte of f, in L bytes.    *)
HasAt(f, x, L, s, n) == \E i \in 0..(L - n) : \A j \in 1..n : f[x + i + j] = s[j]

LEMMA HasStringIs ==
  ASSUME NEW S, NEW f, NEW x, NEW y, NEW l, PartIs(S, f, x, y, l), NEW s \in Seq(S), NEW n \in Nat, n = Len(s)
  PROVE  HasString(l, s) <=> HasAt(f, x, y - x, s, n)
<1> f \in Seq(S) /\ x \in Nat /\ y \in Nat /\ x <= y /\ y <= Len(f) /\ l = SubSeq(f, x + 1, y)
  BY DEF PartIs
<1>1. PICK L \in Nat : L = y - x
  OBVIOUS
<1>2. l \in Seq(S) /\ Len(l) = L /\ \A k \in 1..L : l[k] = f[x + k]
  <2>1. x + 1 \in 1..(Len(f) + 1) /\ y \in ((x + 1) - 1)..Len(f)
    OBVIOUS
  <2>2. l \in Seq(S) /\ Len(l) = (y - (x + 1)) + 1 /\ \A k \in 1..((y - (x + 1)) + 1) : l[k] = f[(x + 1) + k - 1]
    BY <2>1, SubSeqProperties
  <2>3. (y - (x + 1)) + 1 = L /\ \A k \in 1..L : (x + 1) + k - 1 = x + k
    BY <1>1
  <2> QED
    BY <2>2, <2>3
<1>3. ASSUME NEW i \in 0..(L - n)
      PROVE  SubSeq(l, i + 1, i + n) = s <=> \A j \in 1..n : f[x + i + j] = s[j]
  <2>1. PICK t : t = SubSeq(l, i + 1, i + n)
    OBVIOUS
  <2>2. i + 1 \in 1..(Len(l) + 1) /\ i + n \in ((i + 1) - 1)..Len(l)
    BY <1>2
  <2>3. t \in Seq(S) /\ Len(t) = (i + n - (i + 1)) + 1
        /\ \A j \in 1..((i + n - (i + 1)) + 1) : t[j] = l[(i + 1) + j - 1]
    BY <1>2, <2>1, <2>2, SubSeqProperties
  <2>4. (i + n - (i + 1)) + 1 = n
    OBVIOUS
  <2>5. ASSUME NEW j \in 1..n PROVE t[j] = f[x + i + j]
    <3>1. (i + 1) + j - 1 = i + j /\ i + j \in 1..L /\ x + (i + j) = x + i + j
      BY <1>1
    <3> QED
      BY <1>2, <2>3, <2>4, <3>1
  <2>6. Len(t) = Len(s)
    BY <2>3, <2>4
  <2>7. t = s <=> \A j \in 1..n : t[j] = s[j]
    BY <2>3, <2>6, SeqEqual
  <2> QED
    BY <2>1, <2>5, <2>7
<1> QED
  BY <1>1, <1>2, <1>3 DEF HasString, HasAt
(* The buffer holds a line of f, l, from start to end, and ends it with 0. *)
LineHeld(S, B, f, base, data, start, end, l) ==
  /\ B \in Nat /\ B = BUFSIZE /\ data \in [0..B -> 0..255] /\ S \in SUBSET (1..255) /\ f \in Seq(S)
  /\ base \in Nat /\ end \in 0..B /\ start \in 0..end /\ base + end <= Len(f) /\ data[end] = 0
  /\ Holds(data, f, base, start, end) /\ l = SubSeq(f, base + start + 1, base + end)

LEMMA FoundIs ==
  ASSUME NEW S, NEW B, NEW f, NEW base, NEW data, NEW start, NEW end, NEW l,
         LineHeld(S, B, f, base, data, start, end, l), NEW s \in Seq(S), s # <<>>
  PROVE  Found(data, start, end, s) <=> HasString(l, s)
<1> /\ B \in Nat /\ B = BUFSIZE /\ data \in [0..B -> 0..255] /\ S \in SUBSET (1..255) /\ f \in Seq(S)
    /\ base \in Nat /\ end \in 0..B /\ start \in 0..end /\ base + end <= Len(f) /\ data[end] = 0
    /\ Holds(data, f, base, start, end) /\ l = SubSeq(f, base + start + 1, base + end)
  BY DEF LineHeld
<1>1. PICK n \in Nat \ {0} : n = Len(s)
  OBVIOUS
<1>2. PICK x \in Nat, y \in Nat : x = base + start /\ y = base + end /\ x <= y /\ y - x = end - start
  OBVIOUS
<1>3. HasString(l, s) <=> HasAt(f, x, end - start, s, n)
  <2>1. PartIs(S, f, x, y, l) /\ n \in Nat
    BY <1>2 DEF PartIs
  <2>2. HasString(l, s) <=> HasAt(f, x, y - x, s, n)
    BY <1>1, <2>1, HasStringIs
  <2> QED
    BY <1>2, <2>2
<1>4. ASSUME NEW check \in start..(end - 1)
      PROVE  ece391_strncmp(Both(data, s), check, BUFSIZE + 1, Len(s)) = 0
               <=> check + n <= end /\ Has(data, check, s, n)
  <2>1. Comparing(S, B, data, s, n, end) /\ check \in 0..(end - 1)
    BY <1>1 DEF Comparing
  <2> QED
    BY ZenonT(60), <2>1, ComparesTrue
<1>5. Found(data, start, end, s)
        <=> \E check \in start..(end - 1) : check + n <= end /\ Has(data, check, s, n)
  <2>1. ASSUME NEW check \in start..(end - 1), Has(data, check, s, n) PROVE data[check] = s[1]
    <3>1. 1 \in 1..n /\ check + 1 - 1 = check
      OBVIOUS
    <3> QED
      BY <2>1, <3>1 DEF Has
  <2> QED
    BY <1>4, <2>1 DEF Found
<1>6. ASSUME NEW i \in 0..((end - start) - n)
      PROVE  Has(data, start + i, s, n) <=> \A j \in 1..n : f[x + i + j] = s[j]
  <2>1. ASSUME NEW j \in 1..n PROVE data[start + i + j - 1] = f[x + i + j]
    <3>1. start + i + j - 1 \in start..(end - 1) /\ base + (start + i + j - 1) + 1 = x + i + j
      BY <1>2
    <3> QED
      BY <3>1 DEF Holds
  <2> QED
    BY ZenonT(60), <2>1 DEF Has
<1>7. ASSUME NEW check \in start..(end - 1), check + n <= end
      PROVE  check - start \in 0..((end - start) - n) /\ start + (check - start) = check
  BY <1>7
<1>8. ASSUME NEW i \in 0..((end - start) - n)
      PROVE  start + i \in start..(end - 1) /\ start + i + n <= end
  OBVIOUS
<1>9. ASSUME Found(data, start, end, s)
      PROVE  HasAt(f, x, end - start, s, n)
  <2>1. PICK check \in start..(end - 1) : check + n <= end /\ Has(data, check, s, n)
    BY <1>5, <1>9
  <2>2. PICK i \in 0..((end - start) - n) : start + i = check
    BY <1>7, <2>1
  <2> QED
    BY <1>6, <2>1, <2>2 DEF HasAt
<1>10. ASSUME HasAt(f, x, end - start, s, n)
       PROVE  Found(data, start, end, s)
  <2>1. PICK i \in 0..((end - start) - n) : \A j \in 1..n : f[x + i + j] = s[j]
    BY <1>10 DEF HasAt
  <2> QED
    BY <1>5, <1>6, <1>8, <2>1
<1> QED
  BY <1>3, <1>9, <1>10

LEMMA LineIs ==
  ASSUME NEW S, NEW B, NEW f, NEW base, NEW data, NEW start, NEW end, NEW line,
         LineHeld(S, B, f, base, data, start, end, line)
  PROVE  LengthIs(data, start, end - start) /\ Line(data, start) = line
<1> /\ B \in Nat /\ B = BUFSIZE /\ data \in [0..B -> 0..255] /\ S \in SUBSET (1..255) /\ f \in Seq(S)
    /\ base \in Nat /\ end \in 0..B /\ start \in 0..end /\ base + end <= Len(f) /\ data[end] = 0
    /\ Holds(data, f, base, start, end) /\ line = SubSeq(f, base + start + 1, base + end)
  BY DEF LineHeld
<1>1. PICK L \in Nat : L = end - start /\ start + L = end
  OBVIOUS
<1> Len(f) \in Nat
  BY LenProperties
<1>2. DOMAIN data = 0..B
  OBVIOUS
<1>3. ASSUME NEW i \in 0..(L - 1) PROVE data[start + i] = f[base + start + i + 1] /\ data[start + i] # 0
  <2>1. start + i \in start..(end - 1) /\ base + (start + i) + 1 = base + start + i + 1
    BY <1>1
  <2>2. data[start + i] = f[base + start + i + 1]
    BY <2>1 DEF Holds
  <2>3. PICK k \in 1..Len(f) : k = base + start + i + 1
    BY <1>1
  <2>4. f[k] \in S
    BY <2>3
  <2> QED
    BY <2>2, <2>3, <2>4
<1>4. LengthIs(data, start, L)
  <2>1. start..(start + L) \subseteq DOMAIN data
    BY <1>1, <1>2
  <2> QED
    BY <1>1, <1>3, <2>1 DEF LengthIs
<1>5. strlen(data, start) = L
  <2>1. DOMAIN data \subseteq Nat
    BY <1>2
  <2> QED
    BY SMTT(30), <1>4, <2>1, StrlenIs
<1>6. Line(data, start) = [i \in 1..L |-> data[start + i - 1]]
  BY <1>5 DEF Line, ece391_strlen
<1>7. PICK l : l = SubSeq(f, base + start + 1, base + end)
  OBVIOUS
<1>8. l = [i \in 1..L |-> f[base + start + i]]
  <2>1. (base + end) - (base + start + 1) + 1 = L
    BY <1>1
  <2>2. ASSUME NEW k \in (base + start + 1)..(base + end) PROVE f[k] \in S
    <3>1. k \in 1..Len(f)
      OBVIOUS
    <3> QED
      BY <3>1
  <2>3. /\ l \in Seq(S) /\ Len(l) = L
        /\ \A i \in 1..L : l[i] = f[(base + start + 1) + i - 1]
    BY <1>1, <1>7, <2>1, <2>2, SubSeqProperties
  <2>4. \A i \in 1..L : (base + start + 1) + i - 1 = base + start + i
    OBVIOUS
  <2>5. l = [i \in 1..L |-> l[i]]
    BY <2>3
  <2> QED
    BY <2>3, <2>4, <2>5
<1>9. ASSUME NEW i \in 1..L PROVE data[start + i - 1] = f[base + start + i]
  <2>1. i - 1 \in 0..(L - 1) /\ start + (i - 1) = start + i - 1 /\ base + start + (i - 1) + 1 = base + start + i
    OBVIOUS
  <2>2. data[start + (i - 1)] = f[base + start + (i - 1) + 1]
    BY <1>3, <2>1
  <2> QED
    BY <2>1, <2>2
<1>10. Line(data, start) = l
  BY <1>6, <1>8, <1>9
<1>11. LengthIs(data, start, end - start)
  BY <1>1, <1>4
<1> QED
  BY <1>7, <1>10, <1>11
-----------------------------------------------------------------------------
(* What grep knows of its buffer.  N: the length of the file; m: what is   *)
(* printed of it up to each place.                                         *)
Grepping(S, B, f, N, s, m) ==
  /\ S \in SUBSET (1..255) /\ f \in Seq(S) /\ N \in Nat /\ N = Len(f) /\ s \in Seq(S) /\ s # <<>>
  /\ B \in Nat /\ B # 0 /\ B = BUFSIZE /\ LinesFit(f) /\ Matched(m, f, s)

Buffer(data, B) == data \in [0..B -> 0..255] /\ data[B] # NL

(* The next line starts at start; the last of the buffer's bytes is byte   *)
(* base + last of the file.                                                *)
Searching(f, N, m, B, base, data, start, last, out) ==
  /\ Buffer(data, B) /\ base \in Nat /\ last \in 0..B /\ start \in 0..last /\ base + last <= N
  /\ Holds(data, f, base, start, last) /\ LineStartsAt(f, base + start) /\ out = m[base + start]

(* Between two readings, at byte q of the file: the beginning of a line is *)
(* kept, or the last line has been printed.                                *)
Kept(f, m, B, q, base, data, last, out) ==
  /\ base \in Nat /\ last \in 0..(B - 1) /\ base + last = q
  /\ Holds(data, f, base, 0, last) /\ LineStartsAt(f, base) /\ out = m[base]

Left(f, N, m, B, q, data, last, out) ==
  /\ Buffer(data, B) /\ q \in 0..N
  /\ \/ \E base : Kept(f, m, B, q, base, data, last, out)
     \/ q = N /\ last = 0 /\ out = m[N + 1]

Printed(d, start, end, s, out) ==
  IF Found(d, start, end, s) THEN Append(out, Line(d, start)) ELSE out

(* The line that starts at start ends at end, or with the file.            *)
LineUpTo(data, start, last, base, N, end) ==
  /\ end \in start..last /\ \A k \in start..(end - 1) : data[k] # NL
  /\ (end < last /\ data[end] = NL) \/ (end = last /\ base + last = N)

Ending(data, end) == [data EXCEPT ![end] = 0]

LEMMA LinePrinted ==
  ASSUME NEW S, NEW B, NEW f, NEW N, NEW s, NEW m, Grepping(S, B, f, N, s, m),
         NEW base, NEW data, NEW start, NEW last, NEW out,
         Searching(f, N, m, B, base, data, start, last, out),
         NEW end, LineUpTo(data, start, last, base, N, end)
  PROVE  Printed(Ending(data, end), start, end, s, out) = m[base + end + 1]
<1>1. PICK d : d = Ending(data, end)
  OBVIOUS
<1> /\ end \in start..last /\ \A k \in start..(end - 1) : data[k] # NL
    /\ (end < last /\ data[end] = NL) \/ (end = last /\ base + last = N)
  BY DEF LineUpTo
<1>2. /\ S \in SUBSET (1..255) /\ f \in Seq(S) /\ N \in Nat /\ N = Len(f) /\ s \in Seq(S) /\ s # <<>>
      /\ B \in Nat /\ B = BUFSIZE /\ Matched(m, f, s)
  BY DEF Grepping
<1>3. /\ data \in [0..B -> 0..255] /\ base \in Nat /\ last \in 0..B /\ start \in 0..last /\ base + last <= N
      /\ Holds(data, f, base, start, last) /\ LineStartsAt(f, base + start) /\ out = m[base + start]
  BY DEF Searching, Buffer
<1>4. end \in 0..B /\ start \in 0..end
  BY <1>2, <1>3
<1>5. d \in [0..B -> 0..255] /\ d[end] = 0 /\ \A a \in 0..B : a # end => d[a] = data[a]
  BY <1>3, <1>4, <1>1 DEF Ending
<1>6. ASSUME NEW a \in start..(end - 1) PROVE d[a] = f[base + a + 1] /\ f[base + a + 1] # NL
  <2>1. a \in 0..B /\ a # end /\ a \in start..(last - 1)
    BY <1>2, <1>3, <1>4
  <2>2. data[a] = f[base + a + 1] /\ data[a] # NL
    BY <1>3, <2>1 DEF Holds
  <2> QED
    BY <1>5, <2>1, <2>2
<1>7. PICK x \in Nat, y \in Nat : x = base + start /\ y = base + end /\ x <= y /\ y <= N
  BY <1>2, <1>3, <1>4
<1>8. PICK l : l = SubSeq(f, base + start + 1, base + end)
  OBVIOUS
<1>9. Holds(d, f, base, start, end)
  BY <1>6 DEF Holds
<1>10. LineHeld(S, B, f, base, d, start, end, l)
  BY <1>2, <1>3, <1>4, <1>5, <1>7, <1>8, <1>9 DEF LineHeld
<1>11. Found(d, start, end, s) <=> HasString(l, s)
  BY <1>2, <1>10, FoundIs
<1>12. Line(d, start) = l
  BY <1>10, LineIs
<1>13. NoNewline(f, x, y)
  <2>1. ASSUME NEW k \in (x + 1)..y PROVE f[k] # NL
    <3>1. PICK a \in start..(end - 1) : base + a + 1 = k
      <4>1. k - base - 1 \in start..(end - 1) /\ base + (k - base - 1) + 1 = k
        BY <1>3, <1>4, <1>7
      <4> QED
        BY <4>1
    <3> QED
      BY <1>6, <3>1
  <2> QED
    BY <2>1 DEF NoNewline
<1>14. Ended(f, y + 1)
  <2>1. CASE end < last /\ data[end] = NL
    <3>1. end \in start..(last - 1) /\ base + end + 1 = y + 1
      BY <1>3, <1>4, <1>7, <2>1
    <3>2. f[y + 1] = NL
      BY <1>3, <2>1, <3>1 DEF Holds
    <3> QED
      BY <3>2 DEF Ended
  <2>2. CASE end = last /\ base + last = N
    BY <1>2, <1>7, <2>2 DEF Ended
  <2> QED
    BY <2>1, <2>2
<1>15. m[y + 1] = IF HasString(l, s) THEN Append(m[x], l) ELSE m[x]
  <2>1. FileLine(f, N, s, m, x, y, l)
    BY <1>2, <1>3, <1>7, <1>8, <1>13, <1>14 DEF FileLine
  <2> QED
    BY <2>1, MatchOfLine
<1> QED
  BY <1>3, <1>7, <1>11, <1>12, <1>15, <1>1 DEF Printed
LEMMA KeepIs ==
  ASSUME NEW S, NEW B, NEW f, NEW base, NEW data, NEW d, NEW start, NEW end, NEW l,
         LineHeld(S, B, f, base, d, start, end, l), start # 0, d = [data EXCEPT ![end] = 0], Buffer(d, B)
  PROVE  Buffer(Keep(data, start, end), B) /\ Holds(Keep(data, start, end), f, base + start, 0, end - start)
<1>1. /\ B \in Nat /\ d \in [0..B -> 0..255] /\ base \in Nat /\ end \in 0..B /\ start \in 0..end
      /\ Holds(d, f, base, start, end)
  BY DEF LineHeld
<1>2. PICK L \in Nat : L = end - start /\ start + L = end
  BY <1>1
<1>3. strlen(d, start) = L
  <2>1. LengthIs(d, start, L)
    BY <1>2, LineIs
  <2>2. DOMAIN d \subseteq Nat /\ start \in Nat
    BY <1>1
  <2> QED
    BY <1>1, <2>1, <2>2, StrlenIs
<1>4. PICK n \in Nat : n = L + 1
  OBVIOUS
<1>5. PICK K : K = Movs(d, 0, start, n)
  OBVIOUS
<1>6. Keep(data, start, end) = K
  <2>1. Is(d) /\ DOMAIN d = 0..B /\ DOMAIN d \subseteq Int
    <3>1. DOMAIN d = 0..B /\ 0..B \subseteq Int
      BY <1>1
    <3>2. d = [a \in DOMAIN d |-> d[a]]
      BY <1>1
    <3> QED
      BY <3>1, <3>2 DEF Is
  <2>2. Inside(d, start, n) /\ Harmless(0, start, n)
    <3>1. Area(start, n) \subseteq 0..B
      BY <1>1, <1>2, <1>4 DEF Area
    <3> QED
      BY <1>1, <2>1, <3>1 DEF Inside, Harmless
  <2>3. 1 * n = n /\ start \in Int
    BY <1>1
  <2>4. Rep(d, 0, start, 1, n) = Movs(d, 0, start, 1 * n)
    <3>1. 0 \in Int /\ 1 \in Nat /\ Inside(d, start, 1 * n) /\ Harmless(0, start, 1 * n)
      BY <2>2, <2>3
    <3> QED
      BY <2>1, <2>3, <3>1, RepMoves
  <2>5. Keep(data, start, end) = Rep(d, 0, start, 1, n)
    BY <1>3, <1>4 DEF Keep, ece391_strcpy
  <2> QED
    BY <1>5, <2>3, <2>4, <2>5
<1>7. K = [a \in 0..B |-> IF a \in 0..L THEN d[start + a] ELSE d[a]]
  <2>1. DOMAIN d = 0..B /\ 0 + n - 1 = L
    BY <1>1, <1>4
  <2>2. K = [a \in 0..B |-> IF a \in 0..(0 + n - 1) THEN d[start + a - 0] ELSE d[a]]
    BY <1>5, <2>1 DEF Movs
  <2>3. \A a \in 0..B : start + a - 0 = start + a
    BY <1>1
  <2> QED
    BY <2>1, <2>2, <2>3
<1>8. ASSUME NEW a \in 0..B PROVE K[a] \in 0..255
  <2>1. CASE a \in 0..L
    <3>1. start + a \in 0..B
      BY <1>1, <1>2, <2>1
    <3> QED
      BY <1>1, <1>7, <2>1, <3>1
  <2>2. CASE a \notin 0..L
    BY <1>1, <1>7, <2>2
  <2> QED
    BY <2>1, <2>2
<1>9. K \in [0..B -> 0..255]
  BY <1>7, <1>8
<1>10. K[B] # NL
  <2>1. B \in 0..B /\ B \notin 0..L
    BY <1>1, <1>2
  <2>2. K[B] = d[B]
    BY <1>7, <2>1
  <2> QED
    BY <2>2 DEF Buffer
<1>11. ASSUME NEW a \in 0..(L - 1) PROVE K[a] = f[(base + start) + a + 1]
  <2>1. /\ a \in 0..B /\ a \in 0..L /\ start + a \in start..(end - 1)
        /\ base + (start + a) + 1 = (base + start) + a + 1
    BY <1>1, <1>2
  <2>2. K[a] = d[start + a] /\ d[start + a] = f[base + (start + a) + 1]
    BY <1>1, <1>7, <2>1 DEF Holds
  <2> QED
    BY <2>1, <2>2
<1>12. Holds(K, f, base + start, 0, end - start)
  BY <1>2, <1>11 DEF Holds
<1> QED
  BY <1>6, <1>9, <1>10, <1>12 DEF Buffer
Buf(data, start, last, out, more) ==
  [data |-> data, start |-> start, last |-> last, out |-> out, more |-> more]

SearchMakes(data, start, last, out, cnt, s, end, d, r) ==
  r = IF data[end] # NL /\ cnt # 0 /\ start # 0
      THEN Buf(Keep(data, start, end), start, last - start, out, FALSE)
      ELSE Buf(d, end + 1, IF end + 1 < last THEN last ELSE 0, Printed(d, start, end, s, out), end + 1 < last)

LEMMA SearchIs ==
  ASSUME NEW data, NEW start, NEW last, NEW out, NEW more, NEW cnt, NEW s,
         NEW end, end = LineEnd(data, start, last), NEW d, d = [data EXCEPT ![end] = 0],
         NEW b, b = Buf(data, start, last, out, more)
  PROVE  SearchMakes(data, start, last, out, cnt, s, end, d, Search(b, cnt, s))
<1>1. b.data = data /\ b.start = start /\ b.last = last /\ b.out = out /\ b.more = more
  BY DEF Buf
<1>2. Search(b, cnt, s)
        = IF data[end] # NL /\ cnt # 0 /\ start # 0
          THEN [b EXCEPT !.data = Keep(@, b.start, end), !.last = @ - b.start, !.more = FALSE]
          ELSE [data |-> d, start |-> end + 1, last |-> IF end + 1 < last THEN last ELSE 0,
                more |-> end + 1 < last,
                out |-> Printed(d, start, end, s, out)]
  BY <1>1 DEF Search, Printed
<1>3. [b EXCEPT !.data = Keep(@, b.start, end), !.last = @ - b.start, !.more = FALSE]
        = Buf(Keep(data, start, end), start, last - start, out, FALSE)
  <2>1. PICK K, y : K = Keep(data, start, end) /\ y = last - start
    OBVIOUS
  <2>2. PICK e : e = [b EXCEPT !.data = K, !.last = y, !.more = FALSE]
    OBVIOUS
  <2>3. e = Buf(K, start, y, out, FALSE)
    BY <2>2 DEF Buf
  <2>4. [b EXCEPT !.data = Keep(@, b.start, end), !.last = @ - b.start, !.more = FALSE] = e
    BY <1>1, <2>1, <2>2
  <2> QED
    BY <2>1, <2>3, <2>4
<1>4. CASE data[end] # NL /\ cnt # 0 /\ start # 0
  BY <1>2, <1>3, <1>4 DEF SearchMakes
<1>5. CASE ~(data[end] # NL /\ cnt # 0 /\ start # 0)
  <2>1. Search(b, cnt, s)
          = [data |-> d, start |-> end + 1, last |-> IF end + 1 < last THEN last ELSE 0,
             more |-> end + 1 < last,
             out |-> Printed(d, start, end, s, out)]
    BY <1>2, <1>5
  <2>2. Search(b, cnt, s)
          = Buf(d, end + 1, IF end + 1 < last THEN last ELSE 0, Printed(d, start, end, s, out), end + 1 < last)
    BY <2>1 DEF Buf
  <2> QED
    BY <1>5, <2>2, Zenon DEF SearchMakes
<1> QED
  BY <1>4, <1>5

(* A turn of the loop over the lines of a reading that ends at byte q, of   *)
(* which cnt are new, leaves a next line, or none.                         *)
GoesOn(f, N, m, B, base, start, last, r) ==
  \E data, next, out : /\ r = Buf(data, next, last, out, TRUE) /\ start < next /\ next < last
                       /\ Searching(f, N, m, B, base, data, next, last, out)

Stopped(f, N, m, B, q, cnt, r) ==
  \E data, next, last, out : /\ r = Buf(data, next, last, out, FALSE)
                             /\ Left(f, N, m, B, q, data, last, out) /\ (cnt = 0 => last = 0)

LEMMA KeepsLine ==
  ASSUME NEW S, NEW B, NEW f, NEW N, NEW s, NEW m, Grepping(S, B, f, N, s, m),
         NEW base, NEW data, NEW start, NEW last, NEW out,
         Searching(f, N, m, B, base, data, start, last, out), start # 0, data[last] # NL
  PROVE  Left(f, N, m, B, base + last, Keep(data, start, last), last - start, out)
<1>1. B \in Nat /\ N \in Nat /\ N = Len(f) /\ f \in Seq(S) /\ S \in SUBSET (1..255) /\ B = BUFSIZE
  BY DEF Grepping
<1>2. /\ data \in [0..B -> 0..255] /\ data[B] # NL /\ base \in Nat /\ last \in 0..B /\ start \in 0..last
      /\ base + last <= N /\ Holds(data, f, base, start, last) /\ LineStartsAt(f, base + start)
      /\ out = m[base + start]
  BY DEF Searching, Buffer
<1>3. PICK d : d = [data EXCEPT ![last] = 0]
  OBVIOUS
<1>4. last \in Nat /\ start \in Nat /\ last <= B /\ start <= last
  BY <1>1, <1>2
<1>5. d \in [0..B -> 0..255] /\ d[last] = 0 /\ \A a \in 0..B : a # last => d[a] = data[a]
  BY <1>2, <1>3
<1>6. d[B] # NL
  <2>1. 0 # NL /\ B \in 0..B
    BY <1>1 DEF NL
  <2> QED
    BY <1>2, <1>5, <2>1
<1>7. Holds(d, f, base, start, last)
  <2>1. ASSUME NEW a \in start..(last - 1) PROVE d[a] = f[base + a + 1]
    <3>1. a \in 0..B /\ a # last
      BY <1>1, <1>4
    <3> QED
      BY <1>2, <1>5, <3>1 DEF Holds
  <2> QED
    BY <2>1 DEF Holds
<1>8. PICK l : l = SubSeq(f, base + start + 1, base + last)
  OBVIOUS
<1>9. LineHeld(S, B, f, base, d, start, last, l)
  BY <1>1, <1>2, <1>4, <1>5, <1>7, <1>8 DEF LineHeld
<1>10. Buffer(d, B)
  BY <1>5, <1>6 DEF Buffer
<1>11. PICK K : K = Keep(data, start, last)
  OBVIOUS
<1>12. Buffer(K, B) /\ Holds(K, f, base + start, 0, last - start)
  BY <1>3, <1>9, <1>10, <1>11, KeepIs
<1>13. Kept(f, m, B, base + last, base + start, K, last - start, out)
  <2>1. base + start \in Nat /\ last - start \in 0..(B - 1) /\ (base + start) + (last - start) = base + last
    BY <1>1, <1>2, <1>4
  <2> QED
    BY <1>2, <1>12, <2>1 DEF Kept
<1>14. base + last \in 0..N
  BY <1>1, <1>2, <1>4
<1> QED
  BY <1>11, <1>12, <1>13, <1>14 DEF Left
LEMMA LineFits ==
  ASSUME NEW S, NEW B, NEW f, NEW N, NEW s, NEW m, Grepping(S, B, f, N, s, m),
         NEW base, NEW data, NEW out, Searching(f, N, m, B, base, data, 0, B, out)
  PROVE  \E a \in 0..(B - 1) : data[a] = NL
<1>1. B \in Nat /\ N \in Nat /\ N = Len(f) /\ B = BUFSIZE /\ LinesFit(f)
  BY DEF Grepping
<1>2. base \in Nat /\ base + B <= N /\ Holds(data, f, base, 0, B)
  BY DEF Searching
<1>3. base \in 0..(Len(f) - BUFSIZE)
  BY <1>1, <1>2
<1>4. PICK k \in 1..B : f[base + k] = NL
  BY <1>1, <1>3 DEF LinesFit
<1>5. PICK a \in 0..(B - 1) : base + a + 1 = base + k
  <2>1. k - 1 \in 0..(B - 1) /\ base + (k - 1) + 1 = base + k
    BY <1>1, <1>2
  <2> QED
    BY <2>1
<1> QED
  BY <1>2, <1>4, <1>5 DEF Holds

LEMMA SearchLine ==
  ASSUME NEW S, NEW B, NEW f, NEW N, NEW s, NEW m, Grepping(S, B, f, N, s, m),
         NEW base, NEW data, NEW start, NEW last, NEW out,
         Searching(f, N, m, B, base, data, start, last, out),
         NEW cnt, cnt = 0 => last < B, last < B => base + last = N,
         NEW more, NEW b, b = Buf(data, start, last, out, more)
  PROVE  GoesOn(f, N, m, B, base, start, last, Search(b, cnt, s))
           \/ Stopped(f, N, m, B, base + last, cnt, Search(b, cnt, s))
<1>1. B \in Nat /\ B # 0 /\ N \in Nat
  BY DEF Grepping
<1>2. /\ data \in [0..B -> 0..255] /\ data[B] # NL /\ base \in Nat /\ last \in 0..B /\ start \in 0..last
      /\ base + last <= N /\ Holds(data, f, base, start, last)
  BY DEF Searching, Buffer
<1>3. last \in Nat /\ start \in Nat /\ last <= B /\ start <= last
  BY <1>1, <1>2
<1>4. PICK end \in start..last : /\ end = LineEnd(data, start, last) /\ (end = last \/ data[end] = NL)
                                 /\ \A k \in start..(end - 1) : data[k] # NL
  BY <1>3, LineEndIs
<1>5. PICK d : d = [data EXCEPT ![end] = 0]
  OBVIOUS
<1>6. SearchMakes(data, start, last, out, cnt, s, end, d, Search(b, cnt, s))
  BY <1>4, <1>5, SearchIs
<1>7. CASE data[end] # NL /\ cnt # 0 /\ start # 0
  <2>1. end = last
    BY <1>4, <1>7
  <2>2. Left(f, N, m, B, base + last, Keep(data, start, last), last - start, out)
    BY <1>7, <2>1, KeepsLine
  <2>3. Search(b, cnt, s) = Buf(Keep(data, start, last), start, last - start, out, FALSE)
    BY <1>6, <1>7, <2>1 DEF SearchMakes
  <2>4. Stopped(f, N, m, B, base + last, cnt, Search(b, cnt, s))
    BY <1>7, <2>2, <2>3 DEF Stopped
  <2> QED
    BY <2>4
<1>8. CASE ~(data[end] # NL /\ cnt # 0 /\ start # 0)
  <2>1. (end < last /\ data[end] = NL) \/ (end = last /\ base + last = N)
    <3>1. CASE end = last
      <4>1. ASSUME last = B PROVE FALSE
        <5>1. cnt # 0 /\ data[end] # NL
          BY <1>1, <1>2, <3>1, <4>1
        <5>2. start = 0
          BY <1>8, <5>1
        <5>3. PICK a \in 0..(B - 1) : data[a] = NL
          BY <4>1, <5>2, LineFits
        <5>4. a \in start..(end - 1)
          BY <3>1, <4>1, <5>2
        <5> QED
          BY <1>4, <5>3, <5>4
      <4> QED
        BY <1>1, <1>3, <3>1, <4>1
    <3>2. CASE end # last
      BY <1>3, <1>4, <3>2
    <3> QED
      BY <3>1, <3>2
  <2>2. PICK out2 : out2 = Printed(d, start, end, s, out)
    OBVIOUS
  <2>3. out2 = m[base + end + 1]
    <3>1. LineUpTo(data, start, last, base, N, end)
      BY <1>4, <2>1 DEF LineUpTo
    <3>2. Printed(Ending(data, end), start, end, s, out) = m[base + end + 1]
      BY <3>1, LinePrinted
    <3>3. d = Ending(data, end)
      BY <1>5 DEF Ending
    <3> QED
      BY <2>2, <3>2, <3>3
  <2>4. Search(b, cnt, s) = Buf(d, end + 1, IF end + 1 < last THEN last ELSE 0, out2, end + 1 < last)
    BY <1>6, <1>8, <2>2 DEF SearchMakes
  <2>5. end \in 0..B /\ end \in Nat /\ start <= end /\ end <= last
    BY <1>1, <1>3
  <2>6. d \in [0..B -> 0..255] /\ \A a \in 0..B : a # end => d[a] = data[a]
    BY <1>2, <1>5, <2>5
  <2>7. Buffer(d, B)
    <3>1. d[end] = 0 /\ 0 # NL /\ B \in 0..B
      BY <1>1, <1>2, <1>5, <2>5 DEF NL
    <3> QED
      BY <1>2, <2>6, <3>1 DEF Buffer
  <2>8. CASE end + 1 < last
    <3>1. Search(b, cnt, s) = Buf(d, end + 1, last, out2, TRUE)
      BY <2>4, <2>8
    <3>2. Holds(d, f, base, end + 1, last)
      <4>1. ASSUME NEW a \in (end + 1)..(last - 1) PROVE d[a] = f[base + a + 1]
        <5>1. a \in start..(last - 1) /\ a \in 0..B /\ a # end
          BY <1>1, <1>3, <2>5
        <5> QED
          BY <1>2, <2>6, <5>1 DEF Holds
      <4> QED
        BY <4>1 DEF Holds
    <3>3. LineStartsAt(f, base + (end + 1))
      <4>1. data[end] = NL /\ end \in start..(last - 1) /\ base + end + 1 = base + (end + 1)
        BY <1>2, <1>3, <2>1, <2>5, <2>8
      <4> QED
        BY <1>2, <4>1 DEF Holds, LineStartsAt
    <3>4. base + end + 1 = base + (end + 1) /\ end + 1 \in 0..last /\ start < end + 1
      BY <1>2, <1>3, <2>5, <2>8
    <3>5. Searching(f, N, m, B, base, d, end + 1, last, out2)
      BY <1>2, <2>3, <2>7, <3>2, <3>3, <3>4 DEF Searching
    <3>6. GoesOn(f, N, m, B, base, start, last, Search(b, cnt, s))
      BY <2>8, <3>1, <3>4, <3>5 DEF GoesOn
    <3> QED
      BY <3>6
  <2>9. CASE ~(end + 1 < last)
    <3>1. Search(b, cnt, s) = Buf(d, end + 1, 0, out2, FALSE)
      <4>1. (end + 1 < last) = FALSE
        BY <2>9
      <4> QED
        BY <2>4, <2>9, <4>1, Zenon
    <3>2. base + last \in 0..N
      BY <1>1, <1>2, <1>3
    <3>3. CASE end = last /\ base + last = N
      <4>1. out2 = m[N + 1]
        BY <2>3, <3>3
      <4> QED
        BY <2>7, <3>1, <3>2, <3>3, <4>1 DEF Stopped, Left
    <3>4. CASE end < last /\ data[end] = NL
      <4>1. end + 1 = last /\ base + end + 1 = base + last /\ end \in start..(last - 1)
        BY <1>2, <1>3, <2>5, <2>9, <3>4
      <4>2. LineStartsAt(f, base + last)
        BY <1>2, <3>4, <4>1 DEF Holds, LineStartsAt
      <4>3. Holds(d, f, base + last, 0, 0)
        BY DEF Holds
      <4>4. Kept(f, m, B, base + last, base + last, d, 0, out2)
        <5>1. base + last \in Nat /\ 0 \in 0..(B - 1) /\ (base + last) + 0 = base + last
          BY <1>1, <1>2, <1>3
        <5> QED
          BY <2>3, <4>1, <4>2, <4>3, <5>1 DEF Kept
      <4> QED
        BY <2>7, <3>1, <3>2, <4>4 DEF Stopped, Left
    <3> QED
      BY <2>1, <3>3, <3>4
  <2> QED
    BY <2>8, <2>9
<1> QED
  BY <1>7, <1>8
LinesRun(p, data, last, out, cnt, s, r) ==
  /\ p[0] = Buf(data, 0, last, out, TRUE) /\ r = p[last + 1]
  /\ \A i \in 1..(last + 1) : p[i] = IF p[i - 1].more THEN Search(p[i - 1], cnt, s) ELSE p[i - 1]

LEMMA LinesTurns ==
  ASSUME NEW data, NEW start, NEW last \in Nat, NEW out, NEW more, NEW cnt, NEW s,
         NEW b, b = Buf(data, start, last, out, more)
  PROVE  \E p : LinesRun(p, data, last, out, cnt, s, Lines(b, cnt, s))
<1>1. PICK v : v = [b EXCEPT !.start = 0, !.more = TRUE]
  OBVIOUS
<1>2. v = Buf(data, 0, last, out, TRUE)
  BY <1>1 DEF Buf
<1> DEFINE G(c) == IF c.more THEN Search(c, cnt, s) ELSE c
           D(g, n) == g = [i \in 0..n |-> IF i = 0 THEN v ELSE G(g[i - 1])]
           Z == {n \in Nat : \E g : D(g, n)}
           N == last + 1
           p == CHOOSE g : D(g, N)
<1>3. N \in Nat /\ N = last + 1 /\ b.last = last
  BY DEF Buf
<1>4. Lines(b, cnt, s) = p[N]
  BY <1>1, <1>3 DEF Lines
<1> HIDE DEF G, N
<1>5. 0 \in Z
  <2> DEFINE g == [i \in {0} |-> v]
  <2>1. D(g, 0)
    OBVIOUS
  <2> QED
    BY <2>1
<1>6. ASSUME NEW n \in 0..(N - 1), n \in Z PROVE n + 1 \in Z
  <2>1. PICK g : D(g, n)
    BY <1>6
  <2> DEFINE h == [i \in 0..(n + 1) |-> IF i \in 0..n THEN g[i] ELSE G(g[n])]
  <2>2. \A i \in 0..n : g[i] = IF i = 0 THEN v ELSE G(g[i - 1])
    BY <2>1
  <2>3. \A i \in 0..(n + 1) : h[i] = IF i \in 0..n THEN g[i] ELSE G(g[n])
    OBVIOUS
  <2>4. h = [i \in 0..(n + 1) |-> h[i]]
    OBVIOUS
  <2> HIDE DEF h, D
  <2>5. ASSUME NEW i \in 0..(n + 1) PROVE h[i] = IF i = 0 THEN v ELSE G(h[i - 1])
    <3>1. CASE i = n + 1
      <4>1. i # 0 /\ i - 1 = n /\ i - 1 \in 0..n /\ i \notin 0..n /\ i - 1 \in 0..(n + 1)
        BY <1>3, <3>1
      <4> QED
        BY <2>3, <3>1, <4>1
    <3>2. CASE i # n + 1
      <4>1. i \in 0..n /\ (i # 0 => i - 1 \in 0..n /\ i - 1 \in 0..(n + 1))
        BY <1>3, <3>2
      <4> QED
        BY <2>2, <2>3, <4>1
    <3> QED
      BY <3>1, <3>2
  <2>6. D(h, n + 1)
    BY <2>4, <2>5 DEF D
  <2> QED
    BY <1>3, <2>6
<1>7. N \in Z
  <2> HIDE DEF Z
  <2> QED
    BY <1>3, <1>5, <1>6, InductionTo
<1>8. D(p, N)
  BY <1>7
<1> HIDE DEF p
<1>9. \A i \in 0..N : p[i] = IF i = 0 THEN v ELSE G(p[i - 1])
  BY <1>8
<1>10. p[0] = v /\ \A i \in 1..N : p[i] = G(p[i - 1])
  <2>1. 0 \in 0..N /\ \A i \in 1..N : i \in 0..N /\ i # 0
    BY <1>3
  <2> QED
    BY <1>9, <2>1
<1> QED
  BY <1>2, <1>3, <1>4, <1>10 DEF G, LinesRun

(* A reading is searched to its end.                                       *)
LEMMA LinesEnd ==
  ASSUME NEW S, NEW B, NEW f, NEW N, NEW s, NEW m, Grepping(S, B, f, N, s, m),
         NEW base, NEW data, NEW last, NEW out, Searching(f, N, m, B, base, data, 0, last, out),
         NEW cnt, cnt = 0 => last < B, last < B => base + last = N,
         NEW start, NEW more, NEW b, b = Buf(data, start, last, out, more)
  PROVE  Stopped(f, N, m, B, base + last, cnt, Lines(b, cnt, s))
<1>1. last \in Nat
  BY DEF Searching, Grepping
<1>2. PICK p : /\ p[0] = Buf(data, 0, last, out, TRUE) /\ Lines(b, cnt, s) = p[last + 1]
               /\ \A i \in 1..(last + 1) :
                    p[i] = IF p[i - 1].more THEN Search(p[i - 1], cnt, s) ELSE p[i - 1]
  <2>1. PICK p : LinesRun(p, data, last, out, cnt, s, Lines(b, cnt, s))
    BY <1>1, LinesTurns
  <2> QED
    BY <2>1 DEF LinesRun
<1> DEFINE Open(i, r) == \E d, x, o : /\ r = Buf(d, x, last, o, TRUE) /\ x \in Nat /\ i <= x
                                      /\ (i # 0 => x < last)
                                      /\ Searching(f, N, m, B, base, d, x, last, o)
           Shut(r) == Stopped(f, N, m, B, base + last, cnt, r)
           Z == {i \in 0..(last + 1) : Open(i, p[i]) \/ Shut(p[i])}
<1>3. 0 \in Z
  <2>1. /\ p[0] = Buf(data, 0, last, out, TRUE) /\ 0 \in Nat /\ 0 <= 0 /\ (0 # 0 => 0 < last)
        /\ Searching(f, N, m, B, base, data, 0, last, out)
    BY <1>2
  <2>2. Open(0, p[0])
    BY <2>1, Zenon
  <2>3. 0 \in 0..(last + 1)
    BY <1>1
  <2> HIDE DEF Open, Shut
  <2> QED
    BY <2>2, <2>3
<1>4. ASSUME NEW i \in 0..((last + 1) - 1), i \in Z PROVE i + 1 \in Z
  <2>1. i + 1 \in 1..(last + 1) /\ (i + 1) - 1 = i /\ i + 1 \in 0..(last + 1)
    BY <1>1
  <2>2. p[i + 1] = IF p[i].more THEN Search(p[i], cnt, s) ELSE p[i]
    BY <1>2, <2>1
  <2>3. CASE Open(i, p[i])
    <3>1. PICK d, x, o : /\ p[i] = Buf(d, x, last, o, TRUE) /\ x \in Nat /\ i <= x
                         /\ Searching(f, N, m, B, base, d, x, last, o)
      BY <2>3
    <3>2. p[i].more = TRUE
      BY <3>1 DEF Buf
    <3>3. p[i + 1] = Search(p[i], cnt, s)
      BY <2>2, <3>2
    <3>4. GoesOn(f, N, m, B, base, x, last, p[i + 1]) \/ Stopped(f, N, m, B, base + last, cnt, p[i + 1])
      BY <3>1, <3>3, SearchLine
    <3>5. ASSUME GoesOn(f, N, m, B, base, x, last, p[i + 1]) PROVE Open(i + 1, p[i + 1])
      <4>1. PICK e, y, u : /\ p[i + 1] = Buf(e, y, last, u, TRUE) /\ x < y /\ y < last
                           /\ Searching(f, N, m, B, base, e, y, last, u)
        BY <3>5 DEF GoesOn
      <4>2. y \in Nat
        BY <1>1, <4>1 DEF Searching
      <4>3. i + 1 <= y
        BY <3>1, <4>1, <4>2
      <4> QED
        BY <4>1, <4>2, <4>3
    <3> QED
      BY <2>1, <3>4, <3>5
  <2>4. CASE Shut(p[i])
    <3>1. p[i].more = FALSE
      BY <2>4 DEF Stopped, Buf
    <3> QED
      BY <2>1, <2>2, <2>4, <3>1
  <2> QED
    BY <1>4, <2>3, <2>4
<1> HIDE DEF Z
<1>5. PICK K \in Nat : K = last + 1 /\ K \in 0..K
  BY <1>1
<1>6. \A i \in 0..K : i \in Z
  BY <1>3, <1>4, <1>5, InductionTo
<1>7. Open(last + 1, p[last + 1]) \/ Shut(p[last + 1])
  BY <1>5, <1>6 DEF Z
<1>8. ASSUME Open(last + 1, p[last + 1]) PROVE FALSE
  <2>1. PICK x \in Nat : last + 1 <= x /\ (last + 1 # 0 => x < last)
    BY <1>8
  <2> QED
    BY <1>1, <2>1
<1> QED
  BY <1>2, <1>7, <1>8
-----------------------------------------------------------------------------
(* A reading: what it puts into the buffer, and what its lines leave.      *)
ReadOf(f, q, B, data, last, cnt) ==
  [a \in 0..B |-> IF a \in last..(last + cnt - 1) THEN f[q + a - last + 1] ELSE data[a]]

LEMMA ReadIs ==
  ASSUME NEW f, NEW q, NEW data, NEW start, NEW last, NEW out, NEW more,
         NEW b, b = Buf(data, start, last, out, more), NEW cnt, cnt = Fits(f, q, b)
  PROVE  Read(f, q, b) = Buf(ReadOf(f, q, BUFSIZE, data, last, cnt), start, last + cnt, out, more)
<1>1. b.data = data /\ b.last = last
  BY DEF Buf
<1>2. PICK D, l : D = ReadOf(f, q, BUFSIZE, data, last, cnt) /\ l = last + cnt
  OBVIOUS
<1>3. PICK e : e = [b EXCEPT !.last = l, !.data = D]
  OBVIOUS
<1>4. Read(f, q, b) = e
  BY <1>1, <1>2, <1>3 DEF Read, ReadOf
<1>5. e = Buf(D, start, l, out, more)
  BY <1>3 DEF Buf
<1> QED
  BY <1>2, <1>4, <1>5

LEMMA FitsIs ==
  ASSUME NEW B \in Nat, B = BUFSIZE, NEW f, NEW N \in Nat, N = Len(f), NEW q \in 0..N,
         NEW last \in 0..B, NEW b, b.last = last
  PROVE  /\ Fits(f, q, b) \in 0..(N - q) /\ last + Fits(f, q, b) <= B
         /\ last + Fits(f, q, b) = B \/ q + Fits(f, q, b) = N
<1>1. PICK x \in Nat, y \in Nat : x = B - last /\ y = N - q
  <2>1. B - last \in Nat /\ N - q \in Nat
    OBVIOUS
  <2> QED
    BY <2>1
<1>2. Fits(f, q, b) = IF x <= y THEN x ELSE y
  BY <1>1, MinTwo DEF Fits
<1> QED
  BY <1>1, <1>2

LEMMA ReadMore ==
  ASSUME NEW S, NEW B, NEW f, NEW N, NEW s, NEW m, Grepping(S, B, f, N, s, m),
         NEW q, NEW base, NEW data, NEW last, NEW out, Buffer(data, B), Kept(f, m, B, q, base, data, last, out),
         NEW cnt \in 0..(N - q), last + cnt <= B
  PROVE  Searching(f, N, m, B, base, ReadOf(f, q, B, data, last, cnt), 0, last + cnt, out)
<1>1. B \in Nat /\ N \in Nat /\ N = Len(f) /\ f \in Seq(S) /\ S \in SUBSET (1..255)
  BY DEF Grepping
<1>2. /\ data \in [0..B -> 0..255] /\ data[B] # NL /\ base \in Nat /\ last \in 0..(B - 1) /\ base + last = q
      /\ Holds(data, f, base, 0, last) /\ LineStartsAt(f, base) /\ out = m[base]
  BY DEF Kept, Buffer
<1>3. last \in Nat /\ last < B /\ q \in Nat
  BY <1>1, <1>2
<1>4. cnt \in Nat /\ q + cnt <= N
  BY <1>1, <1>3
<1>5. PICK D : D = ReadOf(f, q, B, data, last, cnt)
  OBVIOUS
<1>6. D = [a \in 0..B |-> IF a \in last..(last + cnt - 1) THEN f[q + a - last + 1] ELSE data[a]]
  BY <1>5 DEF ReadOf
<1>7. ASSUME NEW a \in last..(last + cnt - 1)
      PROVE  a \in 0..B /\ q + a - last + 1 = base + a + 1 /\ base + a + 1 \in 1..N
  <2>1. a \in Nat /\ a <= last + cnt - 1 /\ base \in Nat /\ q = base + last
    BY <1>2, <1>3, <1>4
  <2> QED
    BY <1>1, <1>3, <1>4, <2>1
<1>8. ASSUME NEW a \in 0..B PROVE D[a] \in 0..255
  <2>1. CASE a \in last..(last + cnt - 1)
    <3>1. f[base + a + 1] \in S
      BY <1>1, <1>7, <2>1
    <3>2. D[a] = f[base + a + 1]
      BY <1>6, <1>7, <2>1
    <3>3. \A x \in S : x \in 0..255
      BY <1>1
    <3> QED
      BY <3>1, <3>2, <3>3
  <2>2. CASE a \notin last..(last + cnt - 1)
    BY <1>2, <1>6, <2>2
  <2> QED
    BY <2>1, <2>2
<1>9. D[B] # NL
  <2>1. B \in 0..B /\ B \notin last..(last + cnt - 1)
    BY <1>1, <1>3, <1>4
  <2> QED
    BY <1>2, <1>6, <2>1
<1>10. Buffer(D, B)
  BY <1>6, <1>8, <1>9 DEF Buffer
<1>11. Holds(D, f, base, 0, last + cnt)
  <2>1. ASSUME NEW a \in 0..((last + cnt) - 1) PROVE D[a] = f[base + a + 1]
    <3>1. a \in 0..B
      BY <1>1, <1>3, <1>4
    <3>2. CASE a \in last..(last + cnt - 1)
      BY <1>6, <1>7, <3>2
    <3>3. CASE a \notin last..(last + cnt - 1)
      <4>1. a \in 0..(last - 1)
        BY <1>3, <1>4, <3>3
      <4> QED
        BY <1>2, <1>6, <3>1, <3>3, <4>1 DEF Holds
    <3> QED
      BY <3>2, <3>3
  <2> QED
    BY <2>1 DEF Holds
<1>12. last + cnt \in 0..B /\ 0 \in 0..(last + cnt) /\ base + (last + cnt) <= N /\ base + 0 = base
  BY <1>1, <1>2, <1>3, <1>4
<1> QED
  BY <1>2, <1>5, <1>10, <1>11, <1>12 DEF Searching
Emptied(B, out, r) == \E d : Buffer(d, B) /\ r = Buf(d, 1, 0, out, FALSE)

LEMMA NothingLeft ==
  ASSUME NEW B \in Nat, NEW data, Buffer(data, B), NEW out, NEW cnt, NEW s,
         NEW start, NEW more, NEW b, b = Buf(data, start, 0, out, more)
  PROVE  Emptied(B, out, Lines(b, cnt, s))
<1>1. PICK p : LinesRun(p, data, 0, out, cnt, s, Lines(b, cnt, s))
  BY LinesTurns
<1>2. p[0] = Buf(data, 0, 0, out, TRUE) /\ p[0].more = TRUE
  BY <1>1 DEF LinesRun, Buf
<1>3. Lines(b, cnt, s) = Search(p[0], cnt, s)
  <2>1. 1 \in 1..(0 + 1) /\ 1 - 1 = 0 /\ 0 + 1 = 1
    OBVIOUS
  <2>2. Lines(b, cnt, s) = p[1] /\ p[1] = IF p[0].more THEN Search(p[0], cnt, s) ELSE p[0]
    BY <1>1, <2>1 DEF LinesRun
  <2> QED
    BY <1>2, <2>2
<1>4. PICK end \in 0..0 : end = LineEnd(data, 0, 0)
  <2>1. 0 \in Nat /\ 0 <= 0
    OBVIOUS
  <2> QED
    BY <2>1, LineEndIs
<1>5. PICK d : d = [data EXCEPT ![end] = 0]
  OBVIOUS
<1>6. SearchMakes(data, 0, 0, out, cnt, s, end, d, Search(p[0], cnt, s))
  BY <1>2, <1>4, <1>5, SearchIs
<1>7. end = 0 /\ ~(0 + 1 < 0) /\ 0 + 1 = 1 /\ 0..(0 - 1) = {}
  BY <1>4
<1>8. Printed(d, 0, 0, s, out) = out
  BY <1>7 DEF Printed, Found
<1>9. Search(p[0], cnt, s) = Buf(d, 1, 0, out, FALSE)
  <2>1. (0 + 1 < 0) = FALSE
    BY <1>7
  <2>2. Search(p[0], cnt, s) = Buf(d, 0 + 1, IF 0 + 1 < 0 THEN 0 ELSE 0, out, 0 + 1 < 0)
    BY <1>6, <1>7, <1>8 DEF SearchMakes
  <2> QED
    BY <1>7, <2>1, <2>2, Zenon
<1>10. Buffer(d, B)
  <2>1. data \in [0..B -> 0..255] /\ data[B] # NL /\ 0 # NL /\ 0 \in 0..255 /\ B \in 0..B
    BY DEF Buffer, NL
  <2> QED
    BY <1>5, <2>1 DEF Buffer
<1> QED
  BY <1>3, <1>9, <1>10 DEF Emptied

ReadingLeaves(f, N, m, B, q, cnt, r) ==
  cnt \in 0..(N - q) /\ (cnt = 0 => q = N) /\ Stopped(f, N, m, B, q + cnt, cnt, r)

LEMMA Reading ==
  ASSUME NEW S, NEW B, NEW f, NEW N, NEW s, NEW m, Grepping(S, B, f, N, s, m),
         NEW q, NEW data, NEW last, NEW out, Left(f, N, m, B, q, data, last, out),
         NEW start, NEW more, NEW b, b = Buf(data, start, last, out, more), NEW cnt, cnt = Fits(f, q, b)
  PROVE  ReadingLeaves(f, N, m, B, q, cnt, Lines(Read(f, q, b), cnt, s))
<1>1. B \in Nat /\ B # 0 /\ B = BUFSIZE /\ N \in Nat /\ N = Len(f)
  BY DEF Grepping
<1>2. q \in 0..N /\ Buffer(data, B) /\ b.last = last
  BY DEF Left, Buf
<1>3. last \in 0..B /\ last < B
  <2>1. CASE \E base : Kept(f, m, B, q, base, data, last, out)
    BY <1>1, <2>1 DEF Kept
  <2>2. CASE q = N /\ last = 0 /\ out = m[N + 1]
    BY <1>1, <2>2
  <2> QED
    BY <2>1, <2>2 DEF Left
<1>4. cnt \in 0..(N - q) /\ last + cnt <= B /\ (last + cnt = B \/ q + cnt = N)
  BY SMTT(30), <1>1, <1>2, <1>3, FitsIs
<1>5. PICK D, l : D = ReadOf(f, q, B, data, last, cnt) /\ l = last + cnt
  OBVIOUS
<1>6. Read(f, q, b) = Buf(D, start, l, out, more)
  BY <1>1, <1>5, ReadIs
<1>7. cnt = 0 => q = N
  BY <1>1, <1>2, <1>3, <1>4
<1>8. CASE \E base : Kept(f, m, B, q, base, data, last, out)
  <2>1. PICK base : Kept(f, m, B, q, base, data, last, out)
    BY <1>8
  <2>2. Searching(f, N, m, B, base, D, 0, l, out)
    BY <1>2, <1>4, <1>5, <2>1, ReadMore
  <2>3. base + l = q + cnt
    BY SMTT(30), <1>1, <1>2, <1>3, <1>4, <1>5, <2>1 DEF Kept
  <2>4. (cnt = 0 => l < B) /\ (l < B => base + l = N)
    BY <1>1, <1>3, <1>4, <1>5, <2>3
  <2>5. Stopped(f, N, m, B, base + l, cnt, Lines(Read(f, q, b), cnt, s))
    BY <1>6, <2>2, <2>4, LinesEnd
  <2> QED
    BY <1>4, <1>7, <2>3, <2>5 DEF ReadingLeaves
<1>9. CASE q = N /\ last = 0 /\ out = m[N + 1]
  <2>1. cnt = 0 /\ l = 0 /\ q + cnt = N
    <3>1. N - q = 0
      BY <1>1, <1>9
    <3>2. cnt = 0
      BY <1>4, <3>1
    <3> QED
      BY <1>1, <1>5, <1>9, <3>2
  <2>2. Buffer(D, B)
    <3>1. data \in [0..B -> 0..255] /\ data[B] # NL
      BY <1>2 DEF Buffer
    <3>2. last..(last + cnt - 1) = {}
      BY <1>9, <2>1
    <3>3. D = [a \in 0..B |-> data[a]]
      BY <1>5, <3>2 DEF ReadOf
    <3>4. D = data
      BY <3>1, <3>3
    <3> QED
      BY <1>2, <3>4
  <2>3. PICK d : Buffer(d, B) /\ Lines(Read(f, q, b), cnt, s) = Buf(d, 1, 0, out, FALSE)
    <3>1. Read(f, q, b) = Buf(D, start, 0, out, more)
      BY <1>6, <2>1
    <3>2. Emptied(B, out, Lines(Read(f, q, b), cnt, s))
      BY <1>1, <2>2, <3>1, NothingLeft
    <3> QED
      BY <3>2 DEF Emptied
  <2>4. Left(f, N, m, B, N, d, 0, out)
    BY <1>1, <1>9, <2>3 DEF Left
  <2>5. Stopped(f, N, m, B, N, cnt, Lines(Read(f, q, b), cnt, s))
    BY <2>3, <2>4 DEF Stopped
  <2> QED
    BY <1>4, <1>7, <2>1, <2>5 DEF ReadingLeaves
<1> QED
  BY <1>8, <1>9 DEF Left
LEMMA LastEmpty ==
  ASSUME NEW S, NEW B, NEW f, NEW N, NEW s, NEW m, Grepping(S, B, f, N, s, m),
         NEW data, NEW out, Left(f, N, m, B, N, data, 0, out)
  PROVE  out = m[N + 1]
<1>1. CASE \E base : Kept(f, m, B, N, base, data, 0, out)
  <2>1. /\ N \in Nat /\ N = Len(f) /\ f \in Seq(S) /\ s \in Seq(S) /\ s # <<>> /\ Matched(m, f, s)
    BY DEF Grepping
  <2>2. LineStartsAt(f, N) /\ out = m[N]
    BY <1>1, <2>1 DEF Kept
  <2>3. PICK l : l = SubSeq(f, N + 1, N)
    OBVIOUS
  <2>4. NoNewline(f, N, N) /\ Ended(f, N + 1) /\ N \in 0..N /\ N \in N..N
    BY <2>1 DEF NoNewline, Ended
  <2>5. FileLine(f, N, s, m, N, N, l)
    BY <2>1, <2>2, <2>3, <2>4 DEF FileLine
  <2>6. m[N + 1] = IF HasString(l, s) THEN Append(m[N], l) ELSE m[N]
    BY <2>5, MatchOfLine
  <2>7. ~HasString(l, s)
    <3>1. PICK n \in Nat \ {0} : n = Len(s)
      BY <2>1
    <3>2. PartIs(S, f, N, N, l)
      BY <2>1, <2>3 DEF PartIs
    <3>3. HasString(l, s) <=> HasAt(f, N, N - N, s, n)
      BY <2>1, <3>1, <3>2, HasStringIs
    <3>4. 0..((N - N) - n) = {}
      BY <2>1
    <3> QED
      BY <3>3, <3>4 DEF HasAt
  <2> QED
    BY <2>2, <2>6, <2>7
<1>2. CASE out = m[N + 1]
  BY <1>2
<1> QED
  BY <1>1, <1>2 DEF Left

NextReading(r, f, s) ==
  LET cnt == Fits(f, r.position, r.b) IN
  IF r.done THEN r
  ELSE [position |-> r.position + cnt, b |-> Lines(Read(f, r.position, r.b), cnt, s), done |-> cnt = 0]

FirstReading(stack) ==
  [position |-> 0, b |-> Buf([a \in 0..BUFSIZE |-> stack], 0, 0, <<>>, FALSE), done |-> FALSE]

FileRun(p, f, s, stack, n, answered) ==
  /\ p[0] = FirstReading(stack) /\ answered = p[n].b.out
  /\ \A i \in 1..n : p[i] = NextReading(p[i - 1], f, s)

LEMMA FileTurns ==
  ASSUME NEW f, NEW s, NEW stack, NEW n \in Nat, n = Len(f) + 1
  PROVE  \E p : FileRun(p, f, s, stack, n, do_one_file(f, s, stack))
<1> DEFINE G(r) == NextReading(r, f, s)
           v == FirstReading(stack)
           D(g, k) == g = [i \in 0..k |-> IF i = 0 THEN v ELSE G(g[i - 1])]
           Z == {k \in Nat : \E g : D(g, k)}
           p == CHOOSE g : D(g, n)
<1>1. do_one_file(f, s, stack) = p[n].b.out
  BY DEF do_one_file, NextReading, FirstReading, Buf
<1> HIDE DEF G, v
<1>2. 0 \in Z
  <2> DEFINE g == [i \in {0} |-> v]
  <2>1. D(g, 0)
    OBVIOUS
  <2> QED
    BY <2>1
<1>3. ASSUME NEW k \in 0..(n - 1), k \in Z PROVE k + 1 \in Z
  <2>1. PICK g : D(g, k)
    BY <1>3
  <2> DEFINE h == [i \in 0..(k + 1) |-> IF i \in 0..k THEN g[i] ELSE G(g[k])]
  <2>2. \A i \in 0..k : g[i] = IF i = 0 THEN v ELSE G(g[i - 1])
    BY <2>1
  <2>3. \A i \in 0..(k + 1) : h[i] = IF i \in 0..k THEN g[i] ELSE G(g[k])
    OBVIOUS
  <2>4. h = [i \in 0..(k + 1) |-> h[i]]
    OBVIOUS
  <2> HIDE DEF h, D
  <2>5. ASSUME NEW i \in 0..(k + 1) PROVE h[i] = IF i = 0 THEN v ELSE G(h[i - 1])
    <3>1. CASE i = k + 1
      <4>1. i # 0 /\ i - 1 = k /\ i - 1 \in 0..k /\ i \notin 0..k /\ i - 1 \in 0..(k + 1)
        BY <3>1
      <4> QED
        BY <2>3, <3>1, <4>1
    <3>2. CASE i # k + 1
      <4>1. i \in 0..k /\ (i # 0 => i - 1 \in 0..k /\ i - 1 \in 0..(k + 1))
        BY <3>2
      <4> QED
        BY <2>2, <2>3, <4>1
    <3> QED
      BY <3>1, <3>2
  <2>6. D(h, k + 1)
    BY <2>4, <2>5 DEF D
  <2> QED
    BY <2>6
<1>4. n \in Z
  <2> HIDE DEF Z
  <2> QED
    BY SMTT(30), <1>2, <1>3, InductionTo
<1>5. D(p, n)
  BY <1>4
<1> HIDE DEF p
<1>6. \A i \in 0..n : p[i] = IF i = 0 THEN v ELSE G(p[i - 1])
  BY <1>5
<1>7. p[0] = v /\ \A i \in 1..n : p[i] = G(p[i - 1])
  <2>1. 0 \in 0..n /\ \A i \in 1..n : i \in 0..n /\ i # 0
    OBVIOUS
  <2> QED
    BY <1>6, <2>1
<1> QED
  BY <1>1, <1>7 DEF G, v, FileRun
(* Before the i-th reading the file has been read up to byte q, not before *)
(* its i-th; or it has been read and everything is printed.                *)
Going(f, N, m, B, i, r) ==
  \E q, data, start, last, out :
    /\ r = [position |-> q, b |-> Buf(data, start, last, out, FALSE), done |-> FALSE]
    /\ i <= q /\ Left(f, N, m, B, q, data, last, out)

Over(N, m, r) == r.done /\ r.b.out = m[N + 1]

LEMMA ReadingDone ==
  ASSUME NEW S, NEW B, NEW f, NEW N, NEW s, NEW m, Grepping(S, B, f, N, s, m),
         NEW i \in Nat, NEW r, Going(f, N, m, B, i, r)
  PROVE  Going(f, N, m, B, i + 1, NextReading(r, f, s)) \/ Over(N, m, NextReading(r, f, s))
<1>1. PICK q, data, start, last, out :
        /\ r = [position |-> q, b |-> Buf(data, start, last, out, FALSE), done |-> FALSE]
        /\ i <= q /\ Left(f, N, m, B, q, data, last, out)
  BY DEF Going
<1>2. PICK b : b = Buf(data, start, last, out, FALSE)
  OBVIOUS
<1>3. r.position = q /\ r.b = b /\ r.done = FALSE
  BY <1>1, <1>2
<1>4. PICK cnt : cnt = Fits(f, q, b)
  OBVIOUS
<1>5. N \in Nat /\ q \in 0..N
  BY <1>1 DEF Grepping, Left
<1>6. /\ cnt \in 0..(N - q) /\ (cnt = 0 => q = N)
      /\ Stopped(f, N, m, B, q + cnt, cnt, Lines(Read(f, q, b), cnt, s))
  <2>1. ReadingLeaves(f, N, m, B, q, cnt, Lines(Read(f, q, b), cnt, s))
    BY <1>1, <1>2, <1>4, Reading
  <2> QED
    BY <2>1 DEF ReadingLeaves
<1>7. PICK c : c = Lines(Read(f, q, b), cnt, s)
  OBVIOUS
<1>8. PICK data2, start2, last2, out2 :
        /\ c = Buf(data2, start2, last2, out2, FALSE)
        /\ Left(f, N, m, B, q + cnt, data2, last2, out2) /\ (cnt = 0 => last2 = 0)
  BY <1>6, <1>7 DEF Stopped
<1>9. NextReading(r, f, s) = [position |-> q + cnt, b |-> c, done |-> cnt = 0]
  BY <1>3, <1>4, <1>7 DEF NextReading
<1>10. CASE cnt = 0
  <2>1. NextReading(r, f, s).done /\ NextReading(r, f, s).b = c
    <3>1. NextReading(r, f, s) = [position |-> q + cnt, b |-> c, done |-> TRUE]
      BY <1>9, <1>10
    <3> QED
      BY <3>1
  <2>2. q + cnt = N /\ last2 = 0
    BY <1>5, <1>6, <1>8, <1>10
  <2>3. out2 = m[N + 1]
    BY <1>8, <2>2, LastEmpty
  <2>4. c.out = m[N + 1]
    BY <1>8, <2>3 DEF Buf
  <2> QED
    BY <2>1, <2>4 DEF Over
<1>11. CASE cnt # 0
  <2>1. NextReading(r, f, s) = [position |-> q + cnt, b |-> c, done |-> FALSE]
    BY <1>9, <1>11
  <2>2. i + 1 <= q + cnt
    BY <1>1, <1>5, <1>6, <1>11
  <2> QED
    BY <1>8, <2>1, <2>2 DEF Going
<1> QED
  BY <1>10, <1>11

LEMMA PrintsMatches ==
  ASSUME NEW S, NEW B, NEW f, NEW N, NEW s, NEW m, Grepping(S, B, f, N, s, m),
         NEW stack \in 0..255, stack # NL
  PROVE  do_one_file(f, s, stack) = m[N + 1]
<1>1. B \in Nat /\ B # 0 /\ B = BUFSIZE /\ N \in Nat /\ N = Len(f) /\ Matched(m, f, s)
  BY DEF Grepping
<1>2. PICK n \in Nat : n = N + 1
  BY <1>1
<1>3. PICK p : FileRun(p, f, s, stack, n, do_one_file(f, s, stack))
  BY <1>1, <1>2, FileTurns
<1> DEFINE Z == {i \in 0..n : Going(f, N, m, B, i, p[i]) \/ Over(N, m, p[i])}
<1>4. Going(f, N, m, B, 0, p[0])
  <2>1. PICK data : data = [a \in 0..B |-> stack]
    OBVIOUS
  <2>2. Buffer(data, B)
    <3>1. B \in 0..B
      BY <1>1
    <3>2. data \in [0..B -> 0..255] /\ data[B] = stack
      BY <2>1, <3>1
    <3> QED
      BY <3>2 DEF Buffer
  <2>3. p[0] = [position |-> 0, b |-> Buf(data, 0, 0, <<>>, FALSE), done |-> FALSE]
    BY <1>1, <1>3, <2>1 DEF FileRun, FirstReading
  <2>4. Kept(f, m, B, 0, 0, data, 0, <<>>)
    <3>1. m[0] = <<>> /\ 0 \in Nat /\ 0 \in 0..(B - 1) /\ 0 + 0 = 0
      BY <1>1 DEF Matched
    <3> QED
      BY <3>1 DEF Kept, Holds, LineStartsAt
  <2>5. Left(f, N, m, B, 0, data, 0, <<>>)
    BY <1>1, <2>2, <2>4 DEF Left
  <2>6. 0 <= 0
    OBVIOUS
  <2>7. PICK e : e = <<>>
    OBVIOUS
  <2> QED
    BY <2>3, <2>5, <2>6, <2>7 DEF Going
<1>5. 0 \in Z
  BY <1>4
<1>6. ASSUME NEW i \in 0..(n - 1), i \in Z PROVE i + 1 \in Z
  <2>1. i \in Nat /\ i + 1 \in 1..n /\ i + 1 \in 0..n /\ (i + 1) - 1 = i
    OBVIOUS
  <2>2. p[i + 1] = NextReading(p[i], f, s)
    BY <1>3, <2>1 DEF FileRun
  <2>3. CASE Going(f, N, m, B, i, p[i])
    BY <2>1, <2>2, <2>3, ReadingDone
  <2>4. CASE Over(N, m, p[i])
    <3>1. p[i + 1] = p[i]
      BY <2>2, <2>4 DEF NextReading, Over
    <3> QED
      BY <2>1, <2>4, <3>1
  <2> QED
    BY <1>6, <2>3, <2>4
<1> HIDE DEF Z
<1>7. n \in 0..n
  OBVIOUS
<1>8. n \in Z
  BY <1>5, <1>6, <1>7, InductionTo
<1>9. CASE Going(f, N, m, B, n, p[n])
  <2>1. PICK q : n <= q /\ q \in 0..N
    BY <1>9 DEF Going, Left
  <2> QED
    BY <1>1, <1>2, <2>1
<1>10. CASE Over(N, m, p[n])
  BY <1>3, <1>10 DEF FileRun, Over
<1> QED
  BY <1>8, <1>9, <1>10 DEF Z

(* grep prints the lines of the file that have the string, each once and   *)
(* in their order, whatever the buffer's size and wherever the readings    *)
(* cut the lines (GrepPrintsMatches).                                      *)
THEOREM GrepPrints == LibrarySpec => []GrepPrintsMatches
<1>1. ASSUME LibraryInv, Ran({"grep"}), call.stack # NL, LinesFit(call.file)
      PROVE  answer = Matches(call.file, call.s)
  <2>1. call \in Calls /\ call.fn = "grep" /\ answer = Answer(call)
    BY <1>1, Answered
  <2>2. answer = do_one_file(call.file, call.s, call.stack)
    BY <2>1 DEF Answer
  <2>3. PICK f, s, stack : f = call.file /\ s = call.s /\ stack = call.stack
    OBVIOUS
  <2>4. PICK S, B : S = 1..255 /\ B = BUFSIZE
    OBVIOUS
  <2>5. f \in Seq(S) /\ s \in Seq(S) /\ s # <<>> /\ stack \in 0..255
    <3>1. LegalFile(call)
      BY <2>1, CallsAssumption
    <3> QED
      BY <2>1, <2>3, <2>4, <3>1, Zenon DEF LegalFile
  <2>6. PICK N \in Nat : N = Len(f)
    BY <2>5, LenProperties
  <2>7. PICK m : Matched(m, f, s) /\ Matches(f, s) = m[N + 1]
    BY <2>6, MatchedExists
  <2>8. Grepping(S, B, f, N, s, m)
    BY <1>1, <2>3, <2>4, <2>5, <2>6, <2>7, BufferAssumption DEF Grepping
  <2>9. do_one_file(f, s, stack) = m[N + 1]
    <3>1. stack \in 0..255 /\ stack # NL
      BY <1>1, <2>3, <2>5
    <3> QED
      BY <2>8, <3>1, PrintsMatches
  <2> QED
    BY <2>2, <2>3, <2>7, <2>9
<1>2. LibraryInv => GrepPrintsMatches
  BY <1>1 DEF GrepPrintsMatches
<1> QED
  BY <1>2, LibraryAnswers, PTL
=============================================================================
