-------------------------------- MODULE Clock --------------------------------
(***************************************************************************)
(* The time of day: update_current_global_time of rtc.c, from the          *)
(* registers of the CMOS clock, which count in binary-coded decimal.       *)
(***************************************************************************)
EXTENDS Integers

CONSTANT CURRENT_YEAR     \* 2023

ASSUME YearAssumption == CURRENT_YEAR \in Nat

(* & 0x70 for the hour, whose bit 7 says p.m. when the clock has 12 hours  *)
Binary(r) == (r % 16) + (r \div 16) * 10
Pm(r)     == r >= 128
Hour(r)   == Binary(r % 128) + IF Pm(r) THEN 128 ELSE 0

Hour24(r, has24) == IF ~has24 /\ Pm(Hour(r)) THEN ((Hour(r) % 128) + 12) % 24 ELSE Hour(r)

(* Mutant: the day is not changed.                                         *)
ChicagoSameDay(t) == [t EXCEPT !.hour = IF t.hour > 6 THEN t.hour - 6 ELSE (t.hour + 18) % 24]

(* From six hours after midnight back                                      *)
Chicago(t) ==
  IF t.hour > 6 THEN [t EXCEPT !.hour = t.hour - 6]
  ELSE [t EXCEPT !.hour = (t.hour + 18) % 24,
                 !.day = IF t.day > 1 THEN t.day - 1 ELSE 30,
                 !.month = IF t.day > 1 THEN t.month ELSE t.month - 1]

Century == (CURRENT_YEAR \div 100) * 100

FullYear(r) == Binary(r) + Century + IF Binary(r) + Century < CURRENT_YEAR THEN 100 ELSE 0

update_current_global_time(r, has24) ==
  Chicago([second |-> Binary(r.second), minute |-> Binary(r.minute),
           hour |-> Hour24(r.hour, has24), day |-> Binary(r.day),
           month |-> Binary(r.month), year |-> FullYear(r.year)])
=============================================================================
