--------------------------------- MODULE Rtc ---------------------------------
(***************************************************************************)
(* The real-time clock of rtc.c.  The chip interrupts RATE times a second; *)
(* handler_rtc divides that rate for every terminal, so that each has a    *)
(* clock of its own frequency.                                             *)
(***************************************************************************)
EXTENDS Sessions

CONSTANT RATE     \* interrupts per second; 1024

PowersOfTwo == {1, 2, 4, 8, 16, 32, 64, 128, 256, 512, 1024}

ASSUME RateAssumption == RATE \in PowersOfTwo \ {1}

VARIABLES freq,       \* ticks per second of each terminal
          interrupt,  \* a tick no read has taken yet
          int_times   \* interrupts since boot; 2^32 is a multiple of RATE

rtc == <<freq, interrupt, int_times>>

RTC_init ==
  /\ freq = [t \in Terms |-> 2]
  /\ interrupt = [t \in Terms |-> FALSE]
  /\ int_times = 0

rtc_open(t) ==
  /\ freq' = [freq EXCEPT ![t] = 2]
  /\ UNCHANGED <<interrupt, int_times>>

(* (f & (f - 1)) = 0 lets 0 pass as well                                   *)
Accepted(f, nbytes) == f \in PowersOfTwo \cup {0} /\ f <= RATE /\ nbytes = 4

rtc_write(t, f, nbytes) ==
  /\ freq' = IF Accepted(f, nbytes) THEN [freq EXCEPT ![t] = f] ELSE freq
  /\ UNCHANGED <<interrupt, int_times>>

(* The end of rtc_read: the loop has seen the tick and takes it.           *)
rtc_read(t) ==
  /\ interrupt[t]
  /\ interrupt' = [interrupt EXCEPT ![t] = FALSE]
  /\ UNCHANGED <<freq, int_times>>

(* Mutant: the three terminals' flags are all terminal 0's.                *)
handler_rtc_first ==
  /\ int_times' = (int_times + 1) % RATE
  /\ interrupt' = [interrupt EXCEPT ![0] = @ \/ int_times' % (RATE \div freq[0]) = 0]
  /\ UNCHANGED freq

handler_rtc ==
  /\ int_times' = (int_times + 1) % RATE
  /\ interrupt' = [t \in Terms |-> interrupt[t] \/ int_times' % (RATE \div freq[t]) = 0]
  /\ UNCHANGED freq
=============================================================================
