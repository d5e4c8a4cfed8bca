------------------------------ MODULE Sessions ------------------------------
(***************************************************************************)
(* What EchOS promises of its terminals, whatever the kernel does inside:  *)
(* each terminal is a session, a chain of processes in which only the one  *)
(* in front runs.  The terminals take turns; in its turn a terminal opens  *)
(* its shell, starts a program, which comes to the front, or loses the     *)
(* program in front, whose starter comes to the front again.               *)
(***************************************************************************)
EXTENDS Integers

CONSTANTS NTERM,   \* terminals
          Procs,   \* process slots
          None     \* no process

Terms == 0..(NTERM - 1)
Base  == Terms     \* slot t is reserved for the first shell of terminal t

ASSUME SessionsAssumption == NTERM \in Nat \ {0} /\ Terms \subseteq Procs /\ None \notin Procs

VARIABLES alive,   \* the processes
          front,   \* the process each terminal shows, None before its shell
          parent,  \* who started the others
          turn     \* the terminal that has the CPU

sessions == <<alive, front, parent, turn>>

Init ==
  /\ alive = {0}
  /\ front = [t \in Terms |-> IF t = 0 THEN 0 ELSE None]
  /\ parent = [p \in {} |-> None]
  /\ turn = 0

TakeTurn ==
  /\ front[turn] # None
  /\ turn' = (turn + 1) % NTERM
  /\ UNCHANGED <<alive, front, parent>>

OpenShell ==
  /\ front[turn] = None /\ turn \notin alive
  /\ alive' = alive \cup {turn}
  /\ front' = [front EXCEPT ![turn] = turn]
  /\ UNCHANGED <<parent, turn>>

Start(p) ==
  /\ front[turn] # None
  /\ p \notin alive \cup Base
  /\ alive' = alive \cup {p}
  /\ parent' = [q \in (alive \ Base) \cup {p} |-> IF q = p THEN front[turn] ELSE parent[q]]
  /\ front' = [front EXCEPT ![turn] = p]
  /\ UNCHANGED turn

(* Mutant: the shell of the terminal comes to the front.                   *)
ExitToShell ==
  LET p == front[turn] IN
  /\ p \in alive \ Base
  /\ alive' = alive \ {p}
  /\ parent' = [q \in alive \ (Base \cup {p}) |-> parent[q]]
  /\ front' = [front EXCEPT ![turn] = turn]
  /\ UNCHANGED turn

Exit ==
  LET p == front[turn] IN
  /\ p \in alive \ Base
  /\ alive' = alive \ {p}
  /\ parent' = [q \in alive \ (Base \cup {p}) |-> parent[q]]
  /\ front' = [front EXCEPT ![turn] = parent[p]]
  /\ UNCHANGED turn

Next == TakeTurn \/ OpenShell \/ Exit \/ \E p \in Procs : Start(p)

Spec == Init /\ [][Next]_sessions

(* The types, and which processes have a starter.                          *)
TypeInv ==
  /\ alive \subseteq Procs
  /\ front \in [Terms -> alive \cup {None}]
  /\ parent \in [alive \ Base -> alive]
  /\ turn \in Terms

(* A program's starter (the PCB halt returns to) lives until the program   *)
(* exits, is in front of no terminal and waits for this program only; no   *)
(* process is in front of two terminals.                                   *)
StartersWait ==
  /\ \A p \in alive \ Base :
       /\ parent[p] \in alive
       /\ \A t \in Terms : front[t] # parent[p]
       /\ \A q \in alive \ Base : parent[q] = parent[p] => q = p
  /\ \A t, u \in Terms : front[t] # None /\ front[t] = front[u] => t = u
=============================================================================
