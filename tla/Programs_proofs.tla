--------------------------- MODULE Programs_proofs ---------------------------
(***************************************************************************)
(* The programs and their calls keep to the sessions, and keep their       *)
(* terminal as descriptors 0 and 1; a tick of the clock comes as soon as   *)
(* its frequency promises; cat prints its file, ls and grep read the       *)
(* directory as long as it is theirs, and syserr passes its tests: for     *)
(* every choice of programs, of directory and files, and of the number of  *)
(* terminals and slots.                                                    *)
(***************************************************************************)
EXTENDS Programs, SequenceTheorems, TLAPS

-----------------------------------------------------------------------------
(* The discipline of the sessions is an inductive invariant.               *)
Inv == TypeInv /\ StartersWait

LEMMA InitInv == Init => Inv
<1> SUFFICES ASSUME Init
             PROVE  Inv
  OBVIOUS
<1>1. 0 \in Terms /\ 0 \in Procs /\ alive = {0} /\ alive \ Base = {}
  BY SessionsAssumption DEF Terms, Base, Init
<1>2. TypeInv
  BY <1>1 DEF Init, TypeInv
<1>3. StartersWait
  BY <1>1 DEF Init, StartersWait
<1> QED
  BY <1>2, <1>3 DEF Inv

LEMMA StepInv ==
  ASSUME Inv, [Next]_sessions
  PROVE  Inv'
<1>1. /\ alive \subseteq Procs /\ front \in [Terms -> alive \cup {None}]
      /\ parent \in [alive \ Base -> alive] /\ turn \in Terms /\ None \notin alive
  BY SessionsAssumption DEF Inv, TypeInv
<1>2. CASE TakeTurn
  <2>1. (turn + 1) % NTERM \in Terms
    BY <1>1, SessionsAssumption DEF Terms
  <2>2. TypeInv'
    BY <1>1, <1>2, <2>1 DEF TakeTurn, TypeInv
  <2>3. StartersWait'
    BY <1>2 DEF TakeTurn, Inv, StartersWait
  <2> QED
    BY <2>2, <2>3 DEF Inv
<1>3. CASE OpenShell
  <2>1. turn \in Base /\ turn \in Procs /\ turn # None
    BY <1>1, SessionsAssumption DEF Base
  <2>2. alive' \ Base = alive \ Base
    BY <1>3, <2>1 DEF OpenShell, Base, Terms
  <2>3. TypeInv'
    BY <1>1, <1>3, <2>1, <2>2 DEF OpenShell, TypeInv
  <2>4. StartersWait'
    BY <1>1, <1>3, <2>1, <2>2 DEF OpenShell, Inv, StartersWait
  <2> QED
    BY <2>3, <2>4 DEF Inv
<1>4. ASSUME NEW p \in Procs, Start(p)
      PROVE  Inv'
  <2>1. /\ p # None /\ p \notin alive /\ p \notin Base /\ front[turn] \in alive
        /\ alive' = alive \cup {p} /\ alive' \ Base = (alive \ Base) \cup {p}
    BY <1>1, <1>4, SessionsAssumption DEF Start, Base, Terms
  <2>2. TypeInv'
    BY <1>1, <1>4, <2>1 DEF Start, TypeInv
  <2>3. /\ \A q \in alive \ Base : parent'[q] = parent[q]
        /\ parent'[p] = front[turn]
        /\ \A t \in Terms : front'[t] = IF t = turn THEN p ELSE front[t]
    BY <1>1, <1>4, <2>1 DEF Start
  <2>4. \A t, u \in Terms : front'[t] # None /\ front'[t] = front'[u] => t = u
    BY <1>1, <2>1, <2>3 DEF Inv, StartersWait
  <2>5. ASSUME NEW q \in alive' \ Base
        PROVE  /\ parent'[q] \in alive'
               /\ \A t \in Terms : front'[t] # parent'[q]
               /\ \A r \in alive' \ Base : parent'[r] = parent'[q] => r = q
    <3>1. CASE q = p
      BY <1>1, <2>1, <2>3, <3>1 DEF Inv, StartersWait
    <3>2. CASE q # p
      BY <1>1, <2>1, <2>3, <3>2 DEF Inv, StartersWait
    <3> QED
      BY <3>1, <3>2
  <2>6. StartersWait'
    BY <2>4, <2>5 DEF StartersWait, Base, Terms
  <2> QED
    BY <2>2, <2>6 DEF Inv
<1>5. CASE Exit
  <2> DEFINE p == front[turn]
  <2>1. /\ p \in alive \ Base /\ p # None /\ parent[p] \in alive /\ parent[p] # p
        /\ alive' = alive \ {p} /\ alive' \ Base = alive \ (Base \cup {p})
    BY <1>1, <1>5 DEF Exit, Inv, StartersWait, Base, Terms
  <2>2. /\ \A q \in alive' \ Base : parent'[q] = parent[q]
        /\ \A t \in Terms : front'[t] = IF t = turn THEN parent[p] ELSE front[t]
        /\ turn' = turn
    BY <1>1, <1>5, <2>1 DEF Exit
  <2>3. /\ \A t \in Terms : t # turn => front[t] # p
        /\ \A q \in alive \ Base : parent[q] # p
    BY <1>1, <2>1 DEF Inv, StartersWait
  <2>4. TypeInv'
    <3>1. front' \in [Terms -> alive' \cup {None}]
      BY <1>1, <1>5, <2>1, <2>3 DEF Exit
    <3>2. parent' \in [alive' \ Base -> alive']
      BY <1>1, <1>5, <2>1, <2>3 DEF Exit
    <3> QED
      BY <1>1, <2>1, <2>2, <3>1, <3>2 DEF TypeInv, Base, Terms
  <2>5. StartersWait'
    <3>1. \A t, u \in Terms : front'[t] # None /\ front'[t] = front'[u] => t = u
      BY <1>1, <2>1, <2>2 DEF Inv, StartersWait
    <3>2. ASSUME NEW q \in alive' \ Base
          PROVE  /\ parent'[q] \in alive'
                 /\ \A t \in Terms : front'[t] # parent'[q]
                 /\ \A r \in alive' \ Base : parent'[r] = parent'[q] => r = q
      BY <1>1, <2>1, <2>2, <2>3 DEF Inv, StartersWait
    <3> QED
      BY <3>1, <3>2 DEF StartersWait, Base, Terms
  <2> QED
    BY <2>4, <2>5 DEF Inv
<1>6. CASE UNCHANGED sessions
  BY <1>6 DEF sessions, Inv, TypeInv, StartersWait
<1> QED
  BY <1>2, <1>3, <1>4, <1>5, <1>6 DEF Next

(* Whoever started a program waits for it, behind one terminal, until it   *)
(* exits: what parent_pcb and schedule_pcb are for (execute, halt).        *)
THEOREM StartersWaitCorrect == Spec => []StartersWait
<1>1. Init => Inv
  BY InitInv
<1>2. Inv /\ [Next]_sessions => Inv'
  BY StepInv
<1>3. Inv => StartersWait
  BY DEF Inv
<1> QED
  BY <1>1, <1>2, <1>3, PTL DEF Spec

-----------------------------------------------------------------------------
(* The programs and their calls keep to the sessions.                      *)
LEMMA InitSessions == ProgramsInit => Init
BY DEF ProgramsInit

(* A step of a program or of a call starts or ends at most the program in  *)
(* front of the terminal whose turn it is.                                 *)
LEMMA StepSessions == [ProgramsNext]_vars => [Next]_sessions
<1>1. ASSUME NEW p \in Procs, Program(p) PROVE UNCHANGED sessions
  BY <1>1 DEF Program
<1>2. ASSUME NEW p \in Procs, CallStep(p) PROVE UNCHANGED sessions
  BY <1>2 DEF CallStep
<1>3. ASSUME NEW p \in Procs, Execute(p) PROVE [Next]_sessions
  <2>1. UNCHANGED sessions \/ \E q \in Free : Start(q)
    BY <1>3 DEF Execute
  <2> QED
    BY <2>1 DEF Free, Next
<1>4. ASSUME NEW p \in Procs, Halt(p) \/ Kill(p) PROVE Next
  BY <1>4 DEF Halt, Kill, Leave, Next
<1>5. ASSUME NEW p \in Procs, Respawn(p) PROVE UNCHANGED sessions
  BY <1>5 DEF Respawn
<1>6. CASE Step
  BY <1>1, <1>2, <1>3, <1>4, <1>5, <1>6 DEF Step, FirstShell, Next
<1>7. CASE PitIrq
  BY <1>7 DEF PitIrq, Next
<1>8. CASE RtcIrq
  BY <1>8 DEF RtcIrq
<1>9. CASE UNCHANGED vars
  BY <1>9 DEF vars
<1> QED
  BY <1>6, <1>7, <1>8, <1>9 DEF ProgramsNext

(* The programs, with their calls and the interrupts, implement the        *)
(* sessions (execute, halt and scheduling as seen from the programs).      *)
LEMMA ProgramsImplementSessions == ProgramsSpec => Spec
BY InitSessions, StepSessions, PTL DEF ProgramsSpec, Spec

(* A program's starter waits for it, whatever the programs do (execute,    *)
(* halt).                                                                  *)
THEOREM StartersWaitInPrograms == ProgramsSpec => []StartersWait
BY ProgramsImplementSessions, StartersWaitCorrect, PTL

-----------------------------------------------------------------------------
(* What is inductive: the descriptors are functions, too.                  *)
DescriptorsInv ==
  /\ DOMAIN file_array = Procs
  /\ \A p \in Procs : DOMAIN file_array[p] = Fds
  /\ StandardDescriptors

LEMMA ZeroOne == 0 \in Fds /\ 1 \in Fds /\ Unused.ops = "none" /\ Terminal.ops = "term"
BY FilesAssumption DEF Fds, Unused, Terminal

LEMMA NewFilesStandard ==
  DOMAIN NewFiles = Fds /\ NewFiles[0] = Terminal /\ NewFiles[1] = Terminal
BY ZeroOne DEF NewFiles

(* Calls that change no descriptor, or one that is neither 0 nor 1         *)
LEMMA ChangeKeeps ==
  ASSUME DescriptorsInv, NEW p \in Procs, NEW fd, fd \notin {0, 1}, NEW d,
         file_array' = [file_array EXCEPT ![p][fd] = d]
  PROVE  DescriptorsInv'
<1> DEFINE f == [file_array[p] EXCEPT ![fd] = d]
<1>1. DOMAIN f = Fds /\ f[0] = Terminal /\ f[1] = Terminal
  BY ZeroOne DEF DescriptorsInv, StandardDescriptors
<1>2. file_array' = [file_array EXCEPT ![p] = f]
  OBVIOUS
<1> HIDE DEF f
<1> QED
  BY <1>1, <1>2 DEF DescriptorsInv, StandardDescriptors

LEMMA StutterKeeps ==
  ASSUME DescriptorsInv, UNCHANGED file_array
  PROVE  DescriptorsInv'
BY DEF DescriptorsInv, StandardDescriptors

(* A descriptor that open takes was free, so it is neither 0 nor 1.        *)
LEMMA OpenKeeps ==
  ASSUME DescriptorsInv, NEW p \in Procs, NEW name, open(p, name)
  PROVE  DescriptorsInv'
<1>1. CASE UNCHANGED file_array
  BY <1>1, StutterKeeps
<1>2. ASSUME NEW fd \in FreeFds(p), NEW d, file_array' = [file_array EXCEPT ![p][fd] = d]
      PROVE  DescriptorsInv'
  <2>1. fd \notin {0, 1}
    BY FilesAssumption DEF FreeFds
  <2> QED
    BY <1>2, <2>1, ChangeKeeps
<1> QED
  BY <1>1, <1>2 DEF open, files

(* close refuses 0 and 1.                                                  *)
LEMMA CloseKeeps ==
  ASSUME DescriptorsInv, NEW p \in Procs, NEW fd, close(p, fd)
  PROVE  DescriptorsInv'
BY StutterKeeps, ChangeKeeps DEF close

(* A read moves the position of a file, and 0 and 1 are not files.         *)
LEMMA ReadKeeps ==
  ASSUME DescriptorsInv, NEW p \in Procs, NEW fd, NEW n, read(p, fd, n)
  PROVE  DescriptorsInv'
<1>1. CASE UNCHANGED file_array
  BY <1>1, StutterKeeps
<1>2. CASE file_array[p][fd].ops # "term" /\ file_read(p, fd, n)
  <2>1. fd \notin {0, 1}
    BY <1>2, ZeroOne DEF DescriptorsInv, StandardDescriptors
  <2>2. \E k : file_array' = [file_array EXCEPT ![p][fd].pos = @ + k]
    BY <1>2 DEF file_read
  <2>3. \E d : file_array' = [file_array EXCEPT ![p][fd] = d]
    BY <2>2
  <2> QED
    BY <2>1, <2>3, ChangeKeeps
<1> QED
  BY <1>1, <1>2 DEF read, Bad, read_term, dir_read, files

(* What a step of a program asks of the kernel                             *)
SystemCall(p) ==
  \/ \E name : open(p, name)
  \/ \E fd : close(p, fd)
  \/ \E fd, n : read(p, fd, n)
  \/ \E fd, n, v : write(p, fd, n, v)
  \/ \E a : getargs(p, a)
  \/ \E b : vidmap(p, b)
  \/ NoSuchCall(p)
  \/ UNCHANGED <<files, calls>>

LEMMA SystemCallKeeps ==
  ASSUME DescriptorsInv, NEW p \in Procs, SystemCall(p)
  PROVE  DescriptorsInv'
<1>1. CASE \/ \E fd, n, v : write(p, fd, n, v)
           \/ \E a : getargs(p, a)
           \/ \E b : vidmap(p, b)
           \/ NoSuchCall(p)
           \/ UNCHANGED <<files, calls>>
  BY <1>1, StutterKeeps DEF write, getargs, vidmap, NoSuchCall, files
<1> QED
  BY <1>1, OpenKeeps, CloseKeeps, ReadKeeps DEF SystemCall

LEMMA ProgramCalls ==
  ASSUME NEW p \in Procs, Program(p)
  PROVE  SystemCall(p)
<1>1. CASE Shell(p)
  BY <1>1 DEF Shell, Fail, Finish, Puts, SystemCall
<1>2. CASE Cat(p)
  BY <1>2 DEF Cat, Fail, Puts, SystemCall
<1>3. CASE Ls(p)
  BY <1>3 DEF Ls, OpenDir, SystemCall
<1>4. CASE CatLs(p)
  BY <1>4 DEF CatLs, Fail, Finish, Puts, ReadNext, SystemCall
<1>5. CASE Grep(p)
  BY <1>5 DEF Grep, Fail, Finish, Puts, OpenDir, ReadNext, ReadFile, SystemCall
<1>6. CASE Pingpong(p)
  BY <1>6 DEF Pingpong, Puts, SystemCall
<1>7. CASE Syserr(p)
  BY <1>7 DEF Syserr, Make, Fail, Finish, Puts, SystemCall
<1> QED
  BY <1>1, <1>2, <1>3, <1>4, <1>5, <1>6, <1>7 DEF Program

(* The other steps make fresh descriptors or leave them alone.             *)
LEMMA FreshKeeps ==
  ASSUME DescriptorsInv, NEW p, file_array' = [file_array EXCEPT ![p] = NewFiles]
  PROVE  DescriptorsInv'
BY NewFilesStandard DEF DescriptorsInv, StandardDescriptors

LEMMA StepDescriptors ==
  ASSUME DescriptorsInv, [ProgramsNext]_vars
  PROVE  DescriptorsInv'
<1>1. ASSUME NEW p \in Procs, Program(p) PROVE DescriptorsInv'
  BY <1>1, ProgramCalls, SystemCallKeeps
<1>2. ASSUME NEW p \in Procs, CallStep(p) PROVE DescriptorsInv'
  BY <1>2, StutterKeeps DEF CallStep, LineRead, TickRead, StoreEax, LoadEax, ExecuteReturn, files
<1>3. ASSUME NEW p \in Procs, Execute(p) PROVE DescriptorsInv'
  BY <1>3, StutterKeeps, FreshKeeps DEF Execute
<1>4. ASSUME NEW p \in Procs, Halt(p) \/ Kill(p) \/ Respawn(p) PROVE DescriptorsInv'
  BY <1>4, FreshKeeps DEF Halt, Kill, Leave, Respawn
<1>5. CASE Step
  BY <1>1, <1>2, <1>3, <1>4, <1>5, StutterKeeps DEF Step, FirstShell, files
<1>6. CASE PitIrq \/ RtcIrq \/ UNCHANGED vars
  BY <1>6, StutterKeeps DEF PitIrq, RtcIrq, files, vars
<1> QED
  BY <1>5, <1>6 DEF ProgramsNext

(* No program can lose its terminal, whatever it opens and closes (open,   *)
(* close, create_PCB).                                                     *)
THEOREM DescriptorsStandard == ProgramsSpec => []StandardDescriptors
<1>1. ProgramsInit => DescriptorsInv
  BY ZenonT(60), NewFilesStandard DEF ProgramsInit, FilesInit, DescriptorsInv, StandardDescriptors
<1>2. DescriptorsInv /\ [ProgramsNext]_vars => DescriptorsInv'
  BY StepDescriptors
<1>3. DescriptorsInv => StandardDescriptors
  BY DEF DescriptorsInv
<1> QED
  BY <1>1, <1>2, <1>3, PTL DEF ProgramsSpec

-----------------------------------------------------------------------------
(* The clock of a terminal divides RATE, and its ticks are counted by the  *)
(* interrupts since boot.                                                  *)
LEMMA Divides ==
  ASSUME NEW f \in PowersOfTwo, f <= RATE
  PROVE  \E d \in PowersOfTwo : RATE \div f = d /\ RATE = d * f
<1>1. \A r \in PowersOfTwo : f <= r => \E d \in PowersOfTwo : r \div f = d /\ r = d * f
  BY DEF PowersOfTwo
<1> QED
  BY <1>1, RateAssumption

LEMMA NextTick ==
  ASSUME NEW d \in PowersOfTwo, NEW f \in PowersOfTwo, RATE = d * f, NEW i \in 0..(RATE - 1)
  PROVE  /\ i % d \in 0..(d - 1)
         /\ ((i + 1) % RATE) % d = 0 \/ ((i + 1) % RATE) % d = (i % d) + 1
         /\ (i + 1) % RATE \in 0..(RATE - 1)
<1>1. RATE \in Nat \ {0} /\ d \in Nat \ {0}
  BY RateAssumption DEF PowersOfTwo
<1>2. i % d \in 0..(d - 1) /\ (i + 1) % RATE \in 0..(RATE - 1)
  BY <1>1
<1>3. CASE i + 1 = RATE
  <2>1. (i + 1) % RATE = 0
    BY <1>1, <1>3
  <2> QED
    BY <1>1, <1>2, <2>1
<1>4. CASE i + 1 # RATE
  <2>1. (i + 1) % RATE = i + 1
    BY <1>1, <1>4
  <2>2. (i + 1) % d = 0 \/ (i + 1) % d = (i % d) + 1
    BY DEF PowersOfTwo
  <2> QED
    BY <1>2, <2>1, <2>2
<1> QED
  BY <1>3, <1>4

(* A terminal has waited for no more interrupts than have come since its   *)
(* last tick.                                                              *)
ClockInv ==
  /\ freq \in [Terms -> {f \in PowersOfTwo : f <= RATE}]
  /\ int_times \in 0..(RATE - 1)
  /\ waited \in [Terms -> Nat]
  /\ \A t \in Terms : waited[t] <= int_times % (RATE \div freq[t])

LEMMA ClockInTime == ClockInv => TickInTime
<1> SUFFICES ASSUME ClockInv, NEW t \in Terms PROVE waited[t] < RATE \div freq[t]
  BY DEF TickInTime
<1>1. PICK d \in PowersOfTwo : RATE \div freq[t] = d /\ RATE = d * freq[t]
  BY Divides DEF ClockInv
<1>2. waited[t] \in Nat /\ waited[t] <= int_times % d
  BY <1>1 DEF ClockInv
<1>3. int_times % d \in 0..(d - 1)
  BY <1>1, NextTick DEF ClockInv
<1> QED
  BY <1>1, <1>2, <1>3 DEF PowersOfTwo

(* A step of a program sets at most the clock of its own terminal.         *)
ClockStep ==
  /\ int_times' = int_times
  /\ \/ freq' = freq
     \/ \E f \in PowersOfTwo : f <= RATE /\ freq' = [freq EXCEPT ![turn] = f]

LEMMA OpenClock ==
  ASSUME NEW p, NEW name, open(p, name)
  PROVE  ClockStep
<1>1. 2 \in PowersOfTwo /\ 2 <= RATE
  BY RateAssumption DEF PowersOfTwo
<1> QED
  BY <1>1 DEF open, rtc, rtc_open, ClockStep

LEMMA WriteClock ==
  ASSUME DescriptorsInv, NEW p \in Procs, NEW fd, NEW n, NEW v, write(p, fd, n, v),
         fd = 1 \/ n # 4 \/ v # 0
  PROVE  ClockStep
<1>1. file_array[p][1].ops = "term"
  BY ZeroOne DEF DescriptorsInv, StandardDescriptors
<1> QED
  BY <1>1 DEF write, rtc, rtc_write, Accepted, ClockStep

LEMMA OtherClock ==
  ASSUME NEW p, \/ \E fd : close(p, fd)
                \/ \E fd, n : read(p, fd, n)
                \/ \E a : getargs(p, a)
                \/ \E b : vidmap(p, b)
                \/ NoSuchCall(p)
                \/ UNCHANGED rtc
  PROVE  ClockStep
BY DEF close, read, read_term, dir_read, file_read, getargs, vidmap, NoSuchCall, rtc, ClockStep

LEMMA ProgramClock ==
  ASSUME DescriptorsInv, NEW p \in Procs, Program(p)
  PROVE  ClockStep
<1>1. Puts(p) => ClockStep
  BY WriteClock DEF Puts
<1>2. CASE Shell(p)
  BY <1>1, <1>2, OtherClock DEF Shell, Fail, Finish
<1>3. CASE Cat(p) \/ Ls(p)
  BY <1>1, <1>3, OpenClock, OtherClock DEF Cat, Ls, Fail, OpenDir
<1>4. CASE CatLs(p)
  BY <1>1, <1>4, WriteClock, OtherClock DEF CatLs, Fail, Finish, ReadNext
<1>5. CASE Grep(p)
  BY <1>1, <1>5, OpenClock, OtherClock DEF Grep, Fail, Finish, OpenDir, ReadNext, ReadFile
<1>6. CASE Pingpong(p)
  BY <1>1, <1>6, OpenClock, WriteClock, OtherClock, ProgramsAssumption DEF Pingpong
<1>7. CASE Syserr(p)
  <2>1. ASSUME NEW c, Make(p, c) PROVE ClockStep
    <3>1. \/ read(p, c.fd, 31) \/ write(p, c.fd, 31, 0) \/ close(p, c.fd) \/ open(p, c.name)
          \/ vidmap(p, FALSE) \/ NoSuchCall(p) \/ Puts(p)
      BY <2>1 DEF Make
    <3>2. write(p, c.fd, 31, 0) => ClockStep
      BY WriteClock
    <3> QED
      BY <1>1, <3>1, <3>2, OpenClock, OtherClock
  <2> QED
    BY <1>1, <1>7, <2>1, OtherClock DEF Syserr, Fail, Finish
<1> QED
  BY <1>2, <1>3, <1>4, <1>5, <1>6, <1>7 DEF Program

LEMMA StepClock ==
  ASSUME DescriptorsInv, Step
  PROVE  ClockStep
<1>1. ASSUME NEW p \in Procs, CallStep(p) PROVE ClockStep
  BY <1>1 DEF CallStep, LineRead, TickRead, StoreEax, LoadEax, ExecuteReturn, rtc_read, rtc, ClockStep
<1>2. ASSUME NEW p \in Procs, Execute(p) \/ Halt(p) \/ Kill(p) \/ Respawn(p) PROVE ClockStep
  BY <1>2 DEF Execute, Halt, Kill, Leave, Respawn, rtc, ClockStep
<1> QED
  BY <1>1, <1>2, ProgramClock DEF Step, FirstShell, rtc, ClockStep

LEMMA ClockNext ==
  ASSUME DescriptorsInv, ClockInv, [ProgramsNext]_vars
  PROVE  ClockInv'
<1>1. ASSUME NEW t \in Terms
      PROVE  \E d \in PowersOfTwo : RATE \div freq[t] = d /\ RATE = d * freq[t]
  BY Divides DEF ClockInv
<1>2. CASE Step
  <2>1. ClockStep /\ waited' = [waited EXCEPT ![turn] = 0]
    BY <1>2, StepClock DEF Step
  <2>2. /\ freq' \in [Terms -> {f \in PowersOfTwo : f <= RATE}]
        /\ \A t \in Terms \ {turn} : freq'[t] = freq[t]
    BY <2>1 DEF ClockStep, ClockInv
  <2>3. waited' \in [Terms -> Nat] /\ \A t \in Terms : waited'[t] = IF t = turn THEN 0 ELSE waited[t]
    BY <2>1 DEF ClockInv
  <2>4. int_times' = int_times
    BY <2>1 DEF ClockStep
  <2>5. ASSUME NEW t \in Terms
        PROVE  waited'[t] <= int_times' % (RATE \div freq'[t])
    <3>1. CASE t = turn
      <4>1. PICK d \in PowersOfTwo : RATE \div freq'[t] = d /\ RATE = d * freq'[t]
        BY <2>2, Divides
      <4>2. int_times % d \in 0..(d - 1)
        BY <2>2, <4>1, NextTick DEF ClockInv
      <4> QED
        BY <2>3, <2>4, <3>1, <4>1, <4>2 DEF PowersOfTwo
    <3>2. CASE t # turn
      BY <2>2, <2>3, <2>4, <3>2 DEF ClockInv
    <3> QED
      BY <3>1, <3>2
  <2> QED
    BY <2>2, <2>3, <2>4, <2>5 DEF ClockInv
<1>3. CASE RtcIrq
  <2>1. /\ freq' = freq /\ int_times' = (int_times + 1) % RATE
        /\ \A t \in Terms : int_times' % (RATE \div freq[t]) = 0 => interrupt'[t]
    BY <1>3 DEF RtcIrq, handler_rtc
  <2>2. waited' = [t \in Terms |-> IF Waiting(t) /\ ~interrupt'[t] THEN waited[t] + 1 ELSE 0]
    BY <1>3 DEF RtcIrq
  <2>3. int_times' \in 0..(RATE - 1)
    BY <2>1, RateAssumption DEF ClockInv, PowersOfTwo
  <2>4. ASSUME NEW t \in Terms
        PROVE  waited'[t] \in Nat /\ waited'[t] <= int_times' % (RATE \div freq'[t])
    <3>1. PICK d \in PowersOfTwo : RATE \div freq[t] = d /\ RATE = d * freq[t]
      BY <1>1
    <3>2. /\ int_times % d \in 0..(d - 1)
          /\ int_times' % d = 0 \/ int_times' % d = (int_times % d) + 1
      BY <2>1, <3>1, NextTick DEF ClockInv
    <3>3. /\ waited[t] \in Nat /\ waited[t] <= int_times % d
          /\ waited'[t] = 0 \/ (waited'[t] = waited[t] + 1 /\ int_times' % d # 0)
      BY <2>1, <2>2, <3>1 DEF ClockInv
    <3>4. d \in Nat
      BY DEF PowersOfTwo
    <3> QED
      BY <2>1, <3>1, <3>2, <3>3, <3>4
  <2> QED
    BY <2>1, <2>2, <2>3, <2>4 DEF ClockInv
<1>4. CASE PitIrq \/ UNCHANGED vars
  BY <1>4 DEF PitIrq, vars, rtc, ClockInv
<1> QED
  BY <1>2, <1>3, <1>4 DEF ProgramsNext

(* A program waiting in rtc_read has its tick in time, whatever the other  *)
(* terminals do with theirs and however the interrupts and turns fall      *)
(* (handler_rtc, rtc_read, rtc_write).                                     *)
THEOREM TicksInTime == ProgramsSpec => []TickInTime
<1>1. ProgramsInit => DescriptorsInv
  BY NewFilesStandard DEF ProgramsInit, FilesInit, DescriptorsInv, StandardDescriptors
<1>2. ProgramsInit => ClockInv
  <2> SUFFICES ASSUME ProgramsInit PROVE ClockInv
    OBVIOUS
  <2>1. /\ freq = [t \in Terms |-> 2] /\ int_times = 0 /\ waited = [t \in Terms |-> 0]
    BY DEF ProgramsInit, RTC_init
  <2>2. 2 \in PowersOfTwo /\ 2 <= RATE /\ RATE \in Nat
    BY RateAssumption DEF PowersOfTwo
  <2>3. PICK d \in PowersOfTwo : RATE \div 2 = d /\ RATE = d * 2
    BY <2>2, Divides
  <2>4. 0 % d = 0
    BY DEF PowersOfTwo
  <2> QED
    BY <2>1, <2>2, <2>3, <2>4 DEF ClockInv
<1>3. DescriptorsInv /\ ClockInv /\ [ProgramsNext]_vars => DescriptorsInv' /\ ClockInv'
  BY StepDescriptors, ClockNext
<1> QED
  BY <1>1, <1>2, <1>3, ClockInTime, PTL DEF ProgramsSpec

-----------------------------------------------------------------------------
(* What a step leaves alone: the locals, the descriptors and the results   *)
(* of the processes that are not in front.                                 *)
Locals == {"prog", "at", "args", "fds", "out", "status", "sel", "k", "cnt", "bad"}

LocalsInv ==
  /\ DOMAIN st = Procs /\ DOMAIN mode = Procs /\ DOMAIN eax = Procs /\ DOMAIN data = Procs
  /\ \A p \in Procs : DOMAIN st[p] = Locals /\ DOMAIN st[p].fds = {1, 2}

(* A call of p's                                                           *)
CallOf(p) ==
  /\ DOMAIN mode' = Procs /\ DOMAIN eax' = Procs /\ DOMAIN data' = Procs
  /\ \A q \in Procs \ {p} :
       /\ file_array'[q] = file_array[q] /\ data'[q] = data[q] /\ mode'[q] = mode[q]
       /\ mode[q] = "user" => eax'[q] = eax[q]

LEMMA ReturnLocal ==
  ASSUME LocalsInv, NEW p \in Procs, NEW v, Return(p, v) \/ \E m : Stay(p, m, v)
  PROVE  /\ DOMAIN mode' = Procs /\ DOMAIN eax' = Procs
         /\ \A q \in Procs \ {p} : mode'[q] = mode[q] /\ (mode[q] = "user" => eax'[q] = eax[q])
BY DEF LocalsInv, Return, Store, Stay

LEMMA FilesLocal ==
  ASSUME LocalsInv, DescriptorsInv, NEW p \in Procs,
         \/ UNCHANGED file_array
         \/ \E d : file_array' = [file_array EXCEPT ![p] = d],
         UNCHANGED data \/ \E d : data' = [data EXCEPT ![p] = d]
  PROVE  /\ DOMAIN data' = Procs
         /\ \A q \in Procs \ {p} : file_array'[q] = file_array[q] /\ data'[q] = data[q]
BY DEF LocalsInv, DescriptorsInv

LEMMA SystemCallLocal ==
  ASSUME LocalsInv, DescriptorsInv, NEW p \in Procs, SystemCall(p)
  PROVE  CallOf(p)
<1>1. CASE UNCHANGED <<files, calls>>
  BY <1>1 DEF files, calls, CallOf, LocalsInv
<1>2. ASSUME NEW v, Return(p, v) \/ \E m : Stay(p, m, v),
             \/ UNCHANGED file_array
             \/ \E d : file_array' = [file_array EXCEPT ![p] = d],
             UNCHANGED data \/ \E d : data' = [data EXCEPT ![p] = d]
      PROVE  CallOf(p)
  BY <1>2, ReturnLocal, FilesLocal DEF CallOf
<1>3. ASSUME NEW name, open(p, name) PROVE CallOf(p)
  <2>1. CASE Return(p, -1) /\ UNCHANGED files
    BY <1>2, <2>1 DEF files
  <2>2. ASSUME NEW fd, NEW d, file_array' = [file_array EXCEPT ![p][fd] = d],
               Return(p, fd), UNCHANGED data
        PROVE  CallOf(p)
    BY <1>2, <2>2
  <2> QED
    BY <1>3, <2>1, <2>2 DEF open
<1>4. ASSUME NEW fd, close(p, fd) PROVE CallOf(p)
  BY <1>2, <1>4 DEF close
<1>5. ASSUME NEW fd, NEW n, read(p, fd, n) PROVE CallOf(p)
  <2>1. CASE file_read(p, fd, n)
    <3>1. \E d : file_array' = [file_array EXCEPT ![p] = d]
      BY <2>1 DEF file_read
    <3>2. \E d : data' = [data EXCEPT ![p] = d]
      BY ZenonT(60), <2>1 DEF file_read
    <3>3. \E v : Return(p, v)
      BY <2>1 DEF file_read
    <3> QED
      BY ZenonT(60), <1>2, <3>1, <3>2, <3>3
  <2>2. CASE dir_read(p)
    BY SMTT(30), <1>2, <2>2 DEF dir_read
  <2>3. CASE (Return(p, -1) \/ Stay(p, "tick", 0) \/ read_term(p, fd)) /\ UNCHANGED files
    BY <1>2, <2>3 DEF read_term, files
  <2> QED
    BY <1>5, <2>1, <2>2, <2>3 DEF read, read_term
<1>6. ASSUME NEW fd, NEW n, NEW v, write(p, fd, n, v) PROVE CallOf(p)
  BY <1>2, <1>6 DEF write, write_term, files
<1>7. CASE (\E a : getargs(p, a)) \/ (\E b : vidmap(p, b)) \/ NoSuchCall(p)
  BY <1>2, <1>7 DEF getargs, vidmap, NoSuchCall, files
<1> QED
  BY <1>1, <1>3, <1>4, <1>5, <1>6, <1>7 DEF SystemCall

(* A program goes on with its own locals and as the same program.          *)
SameProgram(p) ==
  /\ DOMAIN st' = Procs /\ DOMAIN st'[p] = Locals /\ DOMAIN st'[p].fds = {1, 2}
  /\ st'[p].prog = st[p].prog /\ st'[p].args = st[p].args
  /\ \A q \in Procs \ {p} : st'[q] = st[q]

LEMMA GoesOn ==
  ASSUME LocalsInv, NEW p \in Procs,
         \/ UNCHANGED st
         \/ \E l : st' = [st EXCEPT ![p].at = l]
         \/ \E l, s : st' = [st EXCEPT ![p].at = l, ![p].status = s]
         \/ \E l, f : st' = [st EXCEPT ![p].at = l, ![p].fds[1] = f]
         \/ \E l, f : st' = [st EXCEPT ![p].at = l, ![p].fds[2] = f]
         \/ \E l, o : st' = [st EXCEPT ![p].at = l, ![p].out = o]
         \/ \E l, s : st' = [st EXCEPT ![p].at = l, ![p].sel = s]
         \/ \E l, b : st' = [st EXCEPT ![p].at = l, ![p].bad = b]
         \/ \E l, k, c, b : st' = [st EXCEPT ![p].at = l, ![p].k = k, ![p].cnt = c, ![p].bad = b]
  PROVE  SameProgram(p)
<1> DEFINE Now(s) == /\ DOMAIN st' = Procs /\ st'[p] = s
                     /\ \A q \in Procs \ {p} : st'[q] = st[q]
           Kept(s) == /\ DOMAIN s = Locals /\ DOMAIN s.fds = {1, 2}
                      /\ s.prog = st[p].prog /\ s.args = st[p].args
<1>1. \A s : Now(s) /\ Kept(s) => SameProgram(p)
  BY DEF SameProgram
<1>2. CASE UNCHANGED st
  BY SMTT(30), <1>2 DEF LocalsInv, SameProgram
<1>3. DOMAIN st = Procs /\ DOMAIN st[p] = Locals /\ DOMAIN st[p].fds = {1, 2}
  BY ZenonT(60) DEF LocalsInv
<1>4. ASSUME NEW l, st' = [st EXCEPT ![p].at = l] PROVE SameProgram(p)
  <2>1. Now([st[p] EXCEPT !.at = l]) /\ Kept([st[p] EXCEPT !.at = l])
    BY <1>3, <1>4 DEF Locals
  <2> QED
    BY <1>1, <2>1
<1>5. ASSUME NEW l, NEW x, st' = [st EXCEPT ![p].at = l, ![p].status = x] PROVE SameProgram(p)
  <2>1. Now([st[p] EXCEPT !.at = l, !.status = x]) /\ Kept([st[p] EXCEPT !.at = l, !.status = x])
    BY <1>3, <1>5 DEF Locals
  <2> QED
    BY <1>1, <2>1
<1>6. ASSUME NEW l, NEW x, st' = [st EXCEPT ![p].at = l, ![p].fds[1] = x] PROVE SameProgram(p)
  <2>1. Now([st[p] EXCEPT !.at = l, !.fds[1] = x]) /\ Kept([st[p] EXCEPT !.at = l, !.fds[1] = x])
    BY <1>3, <1>6 DEF Locals
  <2> QED
    BY <1>1, <2>1
<1>7. ASSUME NEW l, NEW x, st' = [st EXCEPT ![p].at = l, ![p].fds[2] = x] PROVE SameProgram(p)
  <2>1. Now([st[p] EXCEPT !.at = l, !.fds[2] = x]) /\ Kept([st[p] EXCEPT !.at = l, !.fds[2] = x])
    BY <1>3, <1>7 DEF Locals
  <2> QED
    BY <1>1, <2>1
<1>8. ASSUME NEW l, NEW x, st' = [st EXCEPT ![p].at = l, ![p].out = x] PROVE SameProgram(p)
  <2>1. Now([st[p] EXCEPT !.at = l, !.out = x]) /\ Kept([st[p] EXCEPT !.at = l, !.out = x])
    BY <1>3, <1>8 DEF Locals
  <2> QED
    BY <1>1, <2>1
<1>9. ASSUME NEW l, NEW x, st' = [st EXCEPT ![p].at = l, ![p].sel = x] PROVE SameProgram(p)
  <2>1. Now([st[p] EXCEPT !.at = l, !.sel = x]) /\ Kept([st[p] EXCEPT !.at = l, !.sel = x])
    BY <1>3, <1>9 DEF Locals
  <2> QED
    BY <1>1, <2>1
<1>10. ASSUME NEW l, NEW x, st' = [st EXCEPT ![p].at = l, ![p].bad = x] PROVE SameProgram(p)
  <2>1. Now([st[p] EXCEPT !.at = l, !.bad = x]) /\ Kept([st[p] EXCEPT !.at = l, !.bad = x])
    BY <1>3, <1>10 DEF Locals
  <2> QED
    BY <1>1, <2>1
<1>11. ASSUME NEW l, NEW k, NEW c, NEW b,
              st' = [st EXCEPT ![p].at = l, ![p].k = k, ![p].cnt = c, ![p].bad = b]
       PROVE  SameProgram(p)
  <2> DEFINE s == [st[p] EXCEPT !.at = l, !.k = k, !.cnt = c, !.bad = b]
  <2>1. Now(s) /\ Kept(s)
    BY <1>3, <1>11 DEF Locals
  <2> QED
    BY <1>1, <2>1
<1>12. CASE \E l : st' = [st EXCEPT ![p].at = l]
  BY <1>4, <1>12
<1>13. CASE \E l, s : st' = [st EXCEPT ![p].at = l, ![p].status = s]
  BY <1>5, <1>13
<1>14. CASE \E l, f : st' = [st EXCEPT ![p].at = l, ![p].fds[1] = f]
  BY <1>6, <1>14
<1>15. CASE \E l, f : st' = [st EXCEPT ![p].at = l, ![p].fds[2] = f]
  BY <1>7, <1>15
<1>16. CASE \E l, o : st' = [st EXCEPT ![p].at = l, ![p].out = o]
  BY <1>8, <1>16
<1>17. CASE \E l, s : st' = [st EXCEPT ![p].at = l, ![p].sel = s]
  BY <1>9, <1>17
<1>18. CASE \E l, b : st' = [st EXCEPT ![p].at = l, ![p].bad = b]
  BY <1>10, <1>18
<1>19. CASE \E l, k, c, b : st' = [st EXCEPT ![p].at = l, ![p].k = k, ![p].cnt = c, ![p].bad = b]
  <2>1. PICK l, k, c, b : st' = [st EXCEPT ![p].at = l, ![p].k = k, ![p].cnt = c, ![p].bad = b]
    BY <1>19
  <2> QED
    BY <1>11, <2>1
<1> QED
  BY ZenonT(60), <1>2, <1>12, <1>13, <1>14, <1>15, <1>16, <1>17, <1>18, <1>19

LEMMA ProgramGoesOn ==
  ASSUME LocalsInv, NEW p \in Procs, Program(p)
  PROVE  SameProgram(p)
<1>1. ASSUME NEW s, Finish(p, s) \/ Fail(p, s) PROVE SameProgram(p)
  <2>1. st' = [st EXCEPT ![p].at = "return", ![p].status = s]
    BY <1>1 DEF Finish, Fail
  <2> QED
    BY <2>1, GoesOn
<1>2. ASSUME NEW l, Goto(p, l) PROVE SameProgram(p)
  <2>1. st' = [st EXCEPT ![p].at = l]
    BY <1>2 DEF Goto
  <2> QED
    BY <2>1, GoesOn
<1>3. ASSUME NEW f, NEW l, ReadNext(p, f, l) PROVE SameProgram(p)
  <2>1. st' = [st EXCEPT ![p].at = l, ![p].fds[1] = f]
    BY <1>3 DEF ReadNext
  <2> QED
    BY <2>1, GoesOn
<1>4. ASSUME NEW f, ReadFile(p, f) PROVE SameProgram(p)
  <2>1. st' = [st EXCEPT ![p].at = "chunk", ![p].fds[2] = f]
    BY <1>4 DEF ReadFile
  <2> QED
    BY <2>1, GoesOn
<1>5. CASE Shell(p)
  BY <1>1, <1>2, <1>5 DEF Shell
<1>6. CASE Cat(p) \/ Ls(p)
  BY <1>1, <1>2, <1>6 DEF Cat, Ls, OpenDir
<1>7. CASE CatLs(p)
  <2>1. CASE st' = [st EXCEPT ![p].at = "wrote", ![p].out = More(p)]
    BY <2>1, GoesOn
  <2> QED
    BY <1>1, <1>3, <1>7, <2>1 DEF CatLs
<1>8. CASE Grep(p)
  <2>1. CASE st' = [st EXCEPT ![p].at = "file", ![p].out = More(p)]
    BY <2>1, GoesOn
  <2>2. CASE UNCHANGED st
    BY <2>2, GoesOn
  <2> QED
    BY <1>1, <1>2, <1>3, <1>4, <1>8, <2>1, <2>2 DEF Grep, OpenDir
<1>9. CASE Pingpong(p)
  <2>1. CASE st' = [st EXCEPT ![p].at = "draw", ![p].fds[1] = eax[p]]
    BY <2>1, GoesOn
  <2> QED
    BY <1>2, <1>9, <2>1 DEF Pingpong
<1>10. CASE Syserr(p)
  <2>1. ASSUME NEW s, st' = [st EXCEPT ![p].at = "test", ![p].sel = s] PROVE SameProgram(p)
    BY <2>1, GoesOn
  <2>2. CASE st' = [st EXCEPT ![p].at = "next", ![p].bad = TRUE]
    BY <2>2, GoesOn
  <2>3. ASSUME NEW k, NEW n, NEW b,
               st' = [st EXCEPT ![p].at = "test", ![p].k = k, ![p].cnt = n, ![p].bad = b]
        PROVE  SameProgram(p)
    BY <2>3, GoesOn
  <2>4. ASSUME NEW c,
               st' = [st EXCEPT ![p].at = "test", ![p].k = @ + 1, ![p].cnt = @ + Failed(p),
                                ![p].bad = @ \/ (c.want = "one" /\ st[p].cnt # 1)]
        PROVE  SameProgram(p)
    BY <2>3, <2>4
  <2> QED
    BY <1>1, <1>2, <1>10, <2>1, <2>2, <2>4 DEF Syserr
<1> QED
  BY <1>5, <1>6, <1>7, <1>8, <1>9, <1>10 DEF Program

(* The shell that started a program waits for it.                          *)
ParentsShells == \A q \in alive \ Base : st[parent[q]].prog = "shell"

(* What a step is to one process: it is a program's step of its own, or a  *)
(* step of the call it is in; or the process starts or ends; or it does    *)
(* not notice the step.                                                    *)
Goes(p)      == p = front[turn] /\ Program(p)
IsInCall(p)  == mode[p] # "user" /\ UNCHANGED files /\ st'[p] = st[p]
Fresh(p)     == file_array'[p] = NewFiles /\ \E pr, a : st'[p] = New(pr, a)
IsShell(p)   == st'[p].prog = "shell" /\ st'[p].bad = st[p].bad
Unnoticed(p) == /\ st'[p] = st[p] /\ file_array'[p] = file_array[p] /\ data'[p] = data[p]
                /\ p = front[turn] => dir_counter' = dir_counter
                /\ st[p].prog # "shell" => /\ mode'[p] = mode[p]
                                           /\ mode[p] = "user" => eax'[p] = eax[p]

OneStep == \A p \in Procs :
             Goes(p) \/ IsInCall(p) \/ Fresh(p) \/ Unnoticed(p) \/ IsShell(p)

ProcessesInv == Inv /\ DescriptorsInv /\ LocalsInv /\ ParentsShells

LEMMA NewLocals ==
  ASSUME NEW pr, NEW a
  PROVE  /\ DOMAIN New(pr, a) = Locals /\ DOMAIN New(pr, a).fds = {1, 2} /\ New(pr, a).prog = pr
         /\ New(pr, a).at = "start" /\ New(pr, a).out = <<>>
BY DEF New, Locals

LEMMA NewTest ==
  ASSUME NEW pr, NEW a
  PROVE  New(pr, a).k = 1 /\ New(pr, a).cnt = 0 /\ New(pr, a).bad = FALSE
BY DEF New

LEMMA ProcessesNext ==
  ASSUME ProcessesInv, [ProgramsNext]_vars
  PROVE  ProcessesInv' /\ OneStep
<1>1. Inv' /\ DescriptorsInv'
  BY StepSessions, StepInv, StepDescriptors DEF ProcessesInv
<1>2. /\ Inv /\ DescriptorsInv /\ LocalsInv /\ ParentsShells
      /\ parent \in [alive \ Base -> alive] /\ alive \subseteq Procs /\ Base \subseteq Procs
  BY SessionsAssumption DEF ProcessesInv, Inv, TypeInv, Base
<1> SUFFICES LocalsInv' /\ ParentsShells' /\ OneStep
  BY <1>1 DEF ProcessesInv
<1>3. ASSUME NEW p \in Procs, Program(p) PROVE LocalsInv' /\ ParentsShells' /\ OneStep
  <2>1. CallOf(p)
    BY SMTT(30), <1>2, <1>3, ProgramCalls, SystemCallLocal
  <2>2. SameProgram(p) /\ p = front[turn]
    BY <1>2, <1>3, ProgramGoesOn
       DEF Program, Shell, Cat, Ls, CatLs, Is, Grep, Pingpong, Syserr, At
  <2>3. LocalsInv'
    BY <1>2, <2>1, <2>2 DEF LocalsInv, CallOf, SameProgram
  <2>4. ParentsShells'
    BY <1>2, <1>3, <2>2 DEF Program, sessions, ParentsShells, SameProgram
  <2>5. OneStep
    BY <1>3, <2>1, <2>2 DEF OneStep, Goes, Unnoticed, CallOf, SameProgram
  <2> QED
    BY <2>3, <2>4, <2>5
<1>4. ASSUME NEW p \in Procs, CallStep(p) PROVE LocalsInv' /\ ParentsShells' /\ OneStep
  <2>1. UNCHANGED <<sessions, st, files>> /\ mode[p] # "user"
    BY <1>4 DEF CallStep, LineRead, TickRead, StoreEax, LoadEax, ExecuteReturn
  <2>2. /\ DOMAIN mode' = Procs /\ DOMAIN eax' = Procs
        /\ \A q \in Procs \ {p} : mode'[q] = mode[q] /\ (mode[q] = "user" => eax'[q] = eax[q])
    BY <1>2, <1>4 DEF CallStep, LineRead, TickRead, StoreEax, LoadEax, ExecuteReturn, Stay, Store, LocalsInv
  <2> QED
    BY <1>2, <2>1, <2>2 DEF LocalsInv, ParentsShells, sessions, files, OneStep, IsInCall, Unnoticed
<1>5. ASSUME NEW p \in Procs, Execute(p) PROVE LocalsInv' /\ ParentsShells' /\ OneStep
  <2>1. p = front[turn] /\ st[p].prog = "shell" /\ data' = data
    BY <1>5 DEF Execute, At
  <2>2. CASE Return(p, -1) /\ Goto(p, "ran") /\ UNCHANGED <<sessions, file_array>>
    <3>1. /\ DOMAIN mode' = Procs /\ DOMAIN eax' = Procs
          /\ \A q \in Procs \ {p} : mode'[q] = mode[q] /\ (mode[q] = "user" => eax'[q] = eax[q])
      BY <1>2, <2>2, ReturnLocal
    <3>2. st' = [st EXCEPT ![p].at = "ran"]
      BY <2>2 DEF Goto
    <3>3. SameProgram(p) /\ st'[p].bad = st[p].bad
      BY <1>2, <3>2, GoesOn DEF LocalsInv, Locals
    <3>4. LocalsInv' /\ ParentsShells'
      BY <1>2, <2>1, <2>2, <3>1, <3>3 DEF LocalsInv, ParentsShells, sessions, SameProgram
    <3>5. OneStep
      BY <2>1, <2>2, <3>1, <3>3 DEF OneStep, Unnoticed, IsShell, SameProgram
    <3> QED
      BY <3>4, <3>5
  <2>3. ASSUME NEW q \in Free, NEW c, Start(q), UNCHANGED calls,
               st' = [st EXCEPT ![p].at = "ran", ![q] = New(c[1], c[2])],
               file_array' = [file_array EXCEPT ![q] = NewFiles]
        PROVE  LocalsInv' /\ ParentsShells' /\ OneStep
    <3>1. q \in Procs \ {p} /\ q \notin alive /\ alive' \ Base = (alive \ Base) \cup {q}
      BY <1>2, <2>1, <2>3, SessionsAssumption DEF Free, Inv, TypeInv, Start, Base
    <3>2. /\ DOMAIN st' = Procs /\ st'[q] = New(c[1], c[2]) /\ st'[p] = [st[p] EXCEPT !.at = "ran"]
          /\ \A r \in Procs \ {p, q} : st'[r] = st[r]
      BY <1>2, <2>3, <3>1 DEF LocalsInv
    <3>3. /\ DOMAIN st'[p] = Locals /\ DOMAIN st'[p].fds = {1, 2}
          /\ st'[p].prog = "shell" /\ st'[p].bad = st[p].bad
      BY <1>2, <2>1, <3>2 DEF LocalsInv, Locals
    <3>4. LocalsInv'
      BY <1>2, <2>1, <2>3, <3>1, <3>2, <3>3, NewLocals DEF LocalsInv, calls
    <3>5. /\ \A r \in alive \ Base : parent'[r] = parent[r]
          /\ parent'[q] = p
      BY <2>1, <2>3, <3>1 DEF Start
    <3>6. ParentsShells'
      <4> SUFFICES ASSUME NEW r \in alive' \ Base PROVE st'[parent'[r]].prog = "shell"
        BY DEF ParentsShells, Base, Terms
      <4>1. CASE r = q
        BY <3>3, <3>5, <4>1
      <4>2. CASE r # q
        <5>1. parent'[r] = parent[r] /\ parent[r] \in alive /\ st[parent[r]].prog = "shell"
          BY <1>2, <3>1, <3>5, <4>2 DEF ParentsShells
        <5> QED
          BY <1>2, <3>1, <3>2, <3>3, <5>1
      <4> QED
        BY <4>1, <4>2
    <3>7. OneStep
      <4>1. \A r \in Procs \ {p, q} : Unnoticed(r)
        BY <1>2, <2>1, <2>3, <3>2 DEF Unnoticed, calls, DescriptorsInv
      <4>2. Fresh(q)
        BY <1>2, <2>3, <3>1, <3>2 DEF Fresh, DescriptorsInv
      <4> QED
        BY <3>3, <4>1, <4>2 DEF OneStep, IsShell
    <3> QED
      BY <3>4, <3>6, <3>7
  <2> QED
    BY <1>5, <2>2, <2>3 DEF Execute
<1>6. ASSUME NEW p \in Procs, NEW s, p = front[turn], Leave(p, s) PROVE LocalsInv' /\ ParentsShells' /\ OneStep
  <2>1. /\ p \in alive \ Base /\ parent[p] \in alive /\ parent[p] # p
        /\ alive' \ Base = alive \ (Base \cup {p})
        /\ \A q \in alive' \ Base : parent'[q] = parent[q] /\ parent[q] # p
    BY <1>2, <1>6 DEF Leave, Exit, Inv, TypeInv, StartersWait
  <2>2. /\ DOMAIN st' = Procs /\ st'[p] = New("none", "") /\ file_array'[p] = NewFiles
        /\ \A q \in Procs \ {p} : st'[q] = st[q] /\ file_array'[q] = file_array[q]
                                    /\ data'[q] = data[q] /\ eax'[q] = eax[q]
        /\ \A q \in Procs \ {p, parent[p]} : mode'[q] = mode[q]
        /\ DOMAIN mode' = Procs /\ DOMAIN eax' = Procs /\ DOMAIN data' = Procs
    <3>1. /\ mode' = [mode EXCEPT ![p] = "user", ![parent[p]] = "halted"]
          /\ file_array' = [file_array EXCEPT ![p] = NewFiles]
          /\ st' = [st EXCEPT ![p] = New("none", "")]
          /\ data' = [data EXCEPT ![p] = <<>>]
          /\ eax' = [eax EXCEPT ![p] = 0]
      BY <1>6 DEF Leave
    <3>2. /\ DOMAIN st = Procs /\ DOMAIN mode = Procs /\ DOMAIN eax = Procs /\ DOMAIN data = Procs
          /\ DOMAIN file_array = Procs
      BY <1>2 DEF LocalsInv, DescriptorsInv
    <3> QED
      BY <3>1, <3>2
  <2>3. \A q \in Procs : DOMAIN st'[q] = Locals /\ DOMAIN st'[q].fds = {1, 2}
    <3>1. DOMAIN New("none", "") = Locals /\ DOMAIN New("none", "").fds = {1, 2}
      BY ZenonT(60), NewLocals
    <3>2. DOMAIN st'[p] = Locals /\ DOMAIN st'[p].fds = {1, 2}
      BY <2>2, <3>1
    <3> QED
      BY <1>2, <2>2, <3>2 DEF LocalsInv
  <2>4. LocalsInv'
    BY <2>2, <2>3 DEF LocalsInv
  <2>5. ParentsShells'
    <3> SUFFICES ASSUME NEW r \in alive' \ Base PROVE st'[parent'[r]].prog = "shell"
      BY DEF ParentsShells, Base, Terms
    <3>1. r \in alive \ Base /\ parent'[r] = parent[r] /\ parent[r] # p
      BY <2>1
    <3>2. parent[r] \in Procs /\ st[parent[r]].prog = "shell"
      BY <1>2, <3>1 DEF ParentsShells
    <3> QED
      BY <2>2, <3>1, <3>2
  <2>6. OneStep
    <3>1. st[parent[p]].prog = "shell"
      BY <1>2, <2>1 DEF ParentsShells
    <3>2. \A r \in Procs \ {p} : Unnoticed(r)
      BY <1>6, <2>2, <3>1 DEF Unnoticed
    <3>3. Fresh(p)
      BY <2>2 DEF Fresh
    <3> QED
      BY <3>2, <3>3 DEF OneStep
  <2> QED
    BY <2>4, <2>5, <2>6
<1>7. ASSUME NEW p \in Procs, Respawn(p) PROVE LocalsInv' /\ ParentsShells' /\ OneStep
  <2>1. /\ p \in Base /\ p = front[turn] /\ st[p].prog = "shell" /\ UNCHANGED <<sessions, data, calls>>
        /\ st' = [st EXCEPT ![p] = New("shell", "")]
        /\ file_array' = [file_array EXCEPT ![p] = NewFiles]
    BY <1>7 DEF Respawn, At
  <2>2. LocalsInv'
    <3>1. /\ DOMAIN st' = Procs /\ st'[p] = New("shell", "")
          /\ \A q \in Procs \ {p} : st'[q] = st[q]
      BY <1>2, <2>1 DEF LocalsInv
    <3>2. \A q \in Procs : DOMAIN st'[q] = Locals /\ DOMAIN st'[q].fds = {1, 2}
      <4>1. DOMAIN New("shell", "") = Locals /\ DOMAIN New("shell", "").fds = {1, 2}
        BY ZenonT(60), NewLocals
      <4>2. DOMAIN st'[p] = Locals /\ DOMAIN st'[p].fds = {1, 2}
        BY <3>1, <4>1
      <4> QED
        BY <1>2, <3>1, <4>2 DEF LocalsInv
    <3> QED
      BY <1>2, <2>1, <3>1, <3>2 DEF LocalsInv, calls
  <2>3. ParentsShells'
    BY <1>2, <2>1, NewLocals DEF ParentsShells, sessions, LocalsInv
  <2>4. OneStep
    <3>1. \A r \in Procs \ {p} : Unnoticed(r)
      BY <1>2, <2>1 DEF Unnoticed, calls, LocalsInv, DescriptorsInv
    <3>2. Fresh(p)
      BY <1>2, <2>1 DEF Fresh, LocalsInv, DescriptorsInv
    <3> QED
      BY <3>1, <3>2 DEF OneStep
  <2> QED
    BY <2>2, <2>3, <2>4
<1>8. CASE FirstShell
  <2>1. parent' = parent /\ alive' \ Base = alive \ Base
    BY <1>2, <1>8 DEF FirstShell, OpenShell, Inv, TypeInv, Base
  <2> QED
    BY <1>2, <1>8, <2>1 DEF FirstShell, LocalsInv, ParentsShells, OneStep, Unnoticed, files, calls, Base, Terms
<1>9. CASE PitIrq \/ RtcIrq \/ UNCHANGED vars
  BY <1>2, <1>9 DEF PitIrq, TakeTurn, RtcIrq, vars, sessions, LocalsInv, ParentsShells, OneStep, Unnoticed, files, calls
<1> QED
  BY <1>3, <1>4, <1>5, <1>6, <1>7, <1>8, <1>9 DEF ProgramsNext, Step, Halt, Kill

LEMMA ProcessesInit == ProgramsInit => ProcessesInv
<1> SUFFICES ASSUME ProgramsInit PROVE ProcessesInv
  OBVIOUS
<1>1. Inv
  BY InitSessions, InitInv
<1>2. DescriptorsInv
  BY NewFilesStandard DEF ProgramsInit, FilesInit, DescriptorsInv, StandardDescriptors
<1>3. LocalsInv
  <2>1. DOMAIN New("shell", "") = Locals /\ DOMAIN New("shell", "").fds = {1, 2}
    BY ZenonT(60), NewLocals
  <2>2. st = [p \in Procs |-> New("shell", "")]
    BY DEF ProgramsInit
  <2>3. DOMAIN st = Procs /\ \A p \in Procs : DOMAIN st[p] = Locals /\ DOMAIN st[p].fds = {1, 2}
    BY <2>1, <2>2
  <2>4. DOMAIN mode = Procs /\ DOMAIN eax = Procs /\ DOMAIN data = Procs
    BY DEF ProgramsInit, FilesInit
  <2> QED
    BY <2>3, <2>4 DEF LocalsInv
<1>4. ParentsShells
  <2>1. alive = {0}
    BY InitSessions DEF Init
  <2>2. 0 \in Base
    BY SessionsAssumption DEF Base, Terms
  <2> QED
    BY <2>1, <2>2 DEF ParentsShells
<1> QED
  BY <1>1, <1>2, <1>3, <1>4 DEF ProcessesInv

-----------------------------------------------------------------------------
(* cat: a descriptor on entry i, at position x                             *)
Holds(p, fd, i, x) ==
  fd \in 2..(MAX_FD - 1) /\ file_array[p][fd] = [ops |-> "file", inode |-> i, pos |-> x]

Numbers(x, n) == [j \in 1..n |-> x + j]

IsCat(p, i) == st[p].prog = "cat" /\ Directory[i].type = "file" /\ st[p].args = Directory[i].name

(* What cat has printed ends where its descriptor stands, or where its     *)
(* buffer begins.                                                          *)
CatAt(p, i) ==
  LET s == st[p]  size == Directory[i].size IN
  \E n \in 0..size :
    /\ s.out = Numbers(0, n)
    /\ s.at \in {"start", "open", "opened"} => n = 0
    /\ s.at = "opened" => mode[p] = "user" /\ (eax[p] = -1 \/ Holds(p, eax[p], i, 0))
    /\ s.at = "got" => /\ mode[p] = "user" /\ eax[p] \in 0..(size - n)
                       /\ Holds(p, s.fds[1], i, n + eax[p])
                       /\ data[p] = Numbers(n, eax[p])
                       /\ eax[p] = 0 => n = size
    /\ s.at = "wrote" => Holds(p, s.fds[1], i, n)
    /\ s.at = "return" /\ s.status = 0 => n = size

CatInv == \A p \in Procs, i \in DOMAIN Directory : IsCat(p, i) => CatAt(p, i)

LEMMA EntryTypes ==
  ASSUME NEW i \in DOMAIN Directory
  PROVE  /\ Directory[i].size \in Nat /\ Directory[i].type \in {"rtc", "dir", "file"}
         /\ i \in Nat \ {0}
<1> DEFINE Entries == [name : STRING, type : {"rtc", "dir", "file"}, size : Nat]
<1>1. Directory \in Seq(Entries)
  BY FilesAssumption
<1> HIDE DEF Entries
<1>2. Directory[i] \in Entries /\ i \in Nat \ {0}
  BY <1>1
<1> QED
  BY <1>2 DEF Entries

LEMMA NumbersConcat ==
  ASSUME NEW x \in Nat, NEW n \in Nat
  PROVE  Numbers(0, x) \o Numbers(x, n) = Numbers(0, x + n)
<1>1. Numbers(0, x) \in Seq(Nat) /\ Numbers(x, n) \in Seq(Nat) /\ Numbers(0, x + n) \in Seq(Nat)
  BY DEF Numbers
<1>2. Len(Numbers(0, x)) = x /\ Len(Numbers(x, n)) = n
  BY DEF Numbers
<1> QED
  BY <1>1, <1>2 DEF Numbers

LEMMA NumbersAreBytes ==
  ASSUME NEW i \in DOMAIN Directory, NEW n \in 0..Directory[i].size
  PROVE  Numbers(0, n) = SubSeq(Bytes(i), 1, n)
<1>1. Bytes(i) = Numbers(0, Directory[i].size) /\ Directory[i].size \in Nat
  BY EntryTypes DEF Bytes, Numbers
<1> QED
  BY <1>1 DEF Numbers

LEMMA CatPrints == CatInv => CatPrintsFile
<1> SUFFICES ASSUME CatInv, NEW p \in Procs, NEW i \in DOMAIN Directory, IsCat(p, i)
             PROVE  /\ \E n \in 0..Directory[i].size : st[p].out = SubSeq(Bytes(i), 1, n)
                    /\ st[p].at = "return" /\ st[p].status = 0 => st[p].out = Bytes(i)
  BY DEF CatPrintsFile, IsCat
<1>1. PICK n \in 0..Directory[i].size :
        /\ st[p].out = Numbers(0, n)
        /\ st[p].at = "return" /\ st[p].status = 0 => n = Directory[i].size
  BY DEF CatInv, CatAt
<1>2. Bytes(i) = Numbers(0, Directory[i].size)
  BY EntryTypes DEF Bytes, Numbers
<1> QED
  BY <1>1, <1>2, NumbersAreBytes

(* open takes the one entry of the name and a descriptor that is free.     *)
LEMMA OpenFile ==
  ASSUME ProcessesInv, NEW p \in Procs, mode[p] = "user",
         NEW i \in DOMAIN Directory, open(p, Directory[i].name)
  PROVE  /\ mode' = mode /\ dir_counter' = dir_counter
         /\ \A g \in Fds : file_array[p][g].ops # "none" => file_array'[p][g] = file_array[p][g]
         /\ \/ eax'[p] = -1
            \/ /\ eax'[p] \in 2..(MAX_FD - 1)
               /\ file_array'[p][eax'[p]] = [ops |-> Directory[i].type, inode |-> i, pos |-> 0]
<1>1. Named(Directory[i].name) = {i}
  BY NamesAssumption DEF Named
<1>2. Lowest(Named(Directory[i].name)) = i
  <2>1. \A k \in {i} : i <= k
    BY EntryTypes
  <2> QED
    BY <1>1, <2>1 DEF Lowest
<1>3. DOMAIN eax = Procs /\ DOMAIN file_array = Procs /\ DOMAIN file_array[p] = Fds
  BY DEF ProcessesInv, LocalsInv, DescriptorsInv
<1>4. ASSUME NEW v, Return(p, v) PROVE mode' = mode /\ eax'[p] = v
  BY <1>4 DEF Return, Store
<1>5. CASE Return(p, -1) /\ UNCHANGED files
  BY <1>4, <1>5 DEF files
<1>6. CASE UNCHANGED dir_counter /\ \E fd \in FreeFds(p) :
             /\ file_array' = [file_array EXCEPT ![p][fd] = [ops |-> Directory[i].type, inode |-> i, pos |-> 0]]
             /\ Return(p, fd)
  <2>1. PICK fd \in FreeFds(p) :
          /\ file_array' = [file_array EXCEPT ![p][fd] = [ops |-> Directory[i].type, inode |-> i, pos |-> 0]]
          /\ Return(p, fd)
    BY <1>6
  <2>2. fd \in 2..(MAX_FD - 1) /\ fd \in Fds /\ file_array[p][fd].ops = "none"
    BY FilesAssumption DEF FreeFds, Fds
  <2> QED
    BY <1>3, <1>4, <1>6, <2>1, <2>2
<1> QED
  BY <1>2, <1>5, <1>6 DEF open

(* A read gives the bytes from the position on and moves it past them.     *)
LEMMA ReadOfFile ==
  ASSUME ProcessesInv, NEW p \in Procs, NEW i \in DOMAIN Directory,
         NEW x \in 0..Directory[i].size, NEW fd, Holds(p, fd, i, x), read(p, fd, READ_SIZE)
  PROVE  /\ mode' = mode /\ eax'[p] \in 0..(Directory[i].size - x)
         /\ eax'[p] = 0 => x = Directory[i].size
         /\ data'[p] = Numbers(x, eax'[p])
         /\ Holds(p, fd, i, x + eax[p])'
<1> DEFINE left == Directory[i].size - x
           n == IF READ_SIZE < left THEN READ_SIZE ELSE left
<1>1. /\ fd \in 2..(MAX_FD - 1) /\ fd \in Fds
      /\ file_array[p][fd] = [ops |-> "file", inode |-> i, pos |-> x]
  BY FilesAssumption DEF Holds, Fds
<1>2. Directory[i].size \in Nat /\ left \in Nat /\ READ_SIZE \in Nat \ {0}
  BY EntryTypes, ProgramsAssumption
<1>3. n \in 0..left /\ (n = 0 => left = 0) /\ x \in Nat
  BY <1>2
<1>4. DOMAIN data = Procs /\ DOMAIN file_array = Procs /\ DOMAIN file_array[p] = Fds
  BY DEF ProcessesInv, LocalsInv, DescriptorsInv
<1>5. file_read(p, fd, READ_SIZE)
  BY <1>1 DEF read, Bad
<1>6. n = IF READ_SIZE < left THEN READ_SIZE ELSE IF left > 0 THEN left ELSE 0
  BY <1>2
<1>7. /\ data' = [data EXCEPT ![p] = [k \in 1..n |-> x + k]]
      /\ file_array' = [file_array EXCEPT ![p][fd].pos = @ + n]
      /\ Return(p, n)
  <2>1. file_array[p][fd].pos = x /\ file_array[p][fd].inode = i
    BY <1>1
  <2> QED
    BY <1>5, <1>6, <2>1 DEF file_read
<1> HIDE DEF n
<1>8. mode' = mode /\ eax'[p] = n
  BY <1>7 DEF Return, Store
<1>9. data'[p] = Numbers(x, n)
  BY <1>4, <1>7 DEF Numbers
<1>10. file_array'[p][fd] = [ops |-> "file", inode |-> i, pos |-> x + n]
  <2>1. file_array'[p][fd] = [file_array[p][fd] EXCEPT !.pos = @ + n]
    BY <1>1, <1>4, <1>7
  <2> QED
    BY <1>1, <2>1
<1> QED
  BY <1>1, <1>2, <1>3, <1>8, <1>9, <1>10 DEF Holds

(* The descriptor that cat reads is kept by its writes, and by the steps   *)
(* of others.                                                              *)
LEMMA CatKeeps ==
  ASSUME NEW p \in Procs, NEW i \in DOMAIN Directory, IsCat(p, i), CatAt(p, i),
         IsInCall(p) \/ Unnoticed(p)
  PROVE  CatAt(p, i)'
<1>1. PICK n \in 0..Directory[i].size :
        /\ st[p].out = Numbers(0, n)
        /\ st[p].at \in {"start", "open", "opened"} => n = 0
        /\ st[p].at = "opened" => mode[p] = "user" /\ (eax[p] = -1 \/ Holds(p, eax[p], i, 0))
        /\ st[p].at = "got" => /\ mode[p] = "user" /\ eax[p] \in 0..(Directory[i].size - n)
                               /\ Holds(p, st[p].fds[1], i, n + eax[p])
                               /\ data[p] = Numbers(n, eax[p])
                               /\ eax[p] = 0 => n = Directory[i].size
        /\ st[p].at = "wrote" => Holds(p, st[p].fds[1], i, n)
        /\ st[p].at = "return" /\ st[p].status = 0 => n = Directory[i].size
  BY DEF CatAt
<1>2. /\ st'[p] = st[p] /\ file_array'[p] = file_array[p] /\ data'[p] = data[p]
      /\ mode[p] = "user" => mode'[p] = "user" /\ eax'[p] = eax[p]
  BY DEF IsInCall, Unnoticed, files, IsCat
<1> QED
  BY <1>1, <1>2 DEF CatAt, Holds

(* A step of cat's own                                                     *)
LEMMA CatGoes ==
  ASSUME ProcessesInv, NEW p \in Procs, NEW i \in DOMAIN Directory,
         IsCat(p, i), CatAt(p, i), Goes(p)
  PROVE  CatAt(p, i)'
<1> DEFINE size == Directory[i].size
<1>1. PICK n \in 0..size :
        /\ st[p].out = Numbers(0, n)
        /\ st[p].at \in {"start", "open", "opened"} => n = 0
        /\ st[p].at = "opened" => mode[p] = "user" /\ (eax[p] = -1 \/ Holds(p, eax[p], i, 0))
        /\ st[p].at = "got" => /\ mode[p] = "user" /\ eax[p] \in 0..(size - n)
                               /\ Holds(p, st[p].fds[1], i, n + eax[p])
                               /\ data[p] = Numbers(n, eax[p])
                               /\ eax[p] = 0 => n = size
        /\ st[p].at = "wrote" => Holds(p, st[p].fds[1], i, n)
        /\ st[p].at = "return" /\ st[p].status = 0 => n = size
  BY DEF CatAt
<1>2. /\ DOMAIN st = Procs /\ DOMAIN st[p] = Locals /\ DOMAIN st[p].fds = {1, 2}
      /\ DOMAIN mode = Procs /\ DOMAIN eax = Procs
  BY DEF ProcessesInv, LocalsInv
<1>3. st[p].prog = "cat" /\ mode[p] = "user" /\ (Cat(p) \/ CatLs(p))
  BY DEF IsCat, Goes, Program, Shell, Ls, Cat, CatLs, Is, Grep, Pingpong, Syserr, At
<1>4. size \in Nat
  BY EntryTypes
<1>5. ASSUME NEW s, Finish(p, s) \/ Fail(p, s), s = 0 => n = size
      PROVE  CatAt(p, i)'
  <2>1. st' = [st EXCEPT ![p].at = "return", ![p].status = s]
    BY <1>5 DEF Finish, Fail
  <2>2. st'[p].at = "return" /\ st'[p].status = s /\ st'[p].out = st[p].out
    BY <1>2, <2>1 DEF Locals
  <2> QED
    BY <1>1, <1>5, <2>2 DEF CatAt
<1>6. ASSUME NEW x \in 0..size, st[p].out = Numbers(0, x), NEW fd, Holds(p, fd, i, x),
             ReadNext(p, fd, "got")
      PROVE  CatAt(p, i)'
  <2>1. /\ mode' = mode /\ eax'[p] \in 0..(size - x)
        /\ eax'[p] = 0 => x = size
        /\ data'[p] = Numbers(x, eax'[p])
        /\ Holds(p, fd, i, x + eax[p])'
    BY <1>6, ReadOfFile DEF ReadNext
  <2>2. st'[p].at = "got" /\ st'[p].fds[1] = fd /\ st'[p].out = st[p].out
    BY <1>2, <1>6 DEF ReadNext, Locals
  <2> QED
    BY <1>3, <1>6, <2>1, <2>2 DEF CatAt
<1>7. CASE st[p].at = "start"
  <2>1. Goto(p, "open")
    BY <1>3, <1>7 DEF Cat, CatLs, Is, At
  <2>2. st'[p].at = "open" /\ st'[p].out = st[p].out
    BY <1>2, <2>1 DEF Goto, Locals
  <2> QED
    BY <1>1, <1>7, <2>2 DEF CatAt
<1>8. CASE st[p].at = "open"
  <2>1. Fail(p, 3) \/ (open(p, st[p].args) /\ Goto(p, "opened"))
    BY <1>3, <1>8 DEF Cat, CatLs, Is, At
  <2>2. CASE open(p, st[p].args) /\ Goto(p, "opened")
    <3>1. st'[p].at = "opened" /\ st'[p].out = st[p].out
      BY <1>2, <2>2 DEF Goto, Locals
    <3>2. mode'[p] = "user" /\ (eax'[p] = -1 \/ Holds(p, eax[p], i, 0)')
      BY <1>3, <2>2, OpenFile DEF Holds, IsCat
    <3> QED
      BY <1>1, <1>8, <3>1, <3>2 DEF CatAt
  <2> QED
    BY <1>5, <2>1, <2>2
<1>9. CASE st[p].at = "opened"
  <2>1. (eax[p] = -1 /\ Fail(p, 2)) \/ (eax[p] # -1 /\ ReadNext(p, eax[p], "got"))
    BY <1>3, <1>9 DEF Cat, CatLs, Is, At
  <2> QED
    BY <1>1, <1>5, <1>6, <1>9, <2>1
<1>10. CASE st[p].at = "got"
  <2>1. \/ eax[p] = 0 /\ Finish(p, 0)
        \/ Fail(p, 3)
        \/ UNCHANGED files /\ st' = [st EXCEPT ![p].at = "wrote", ![p].out = More(p)]
    BY <1>3, <1>10 DEF Cat, CatLs, Is, At, write
  <2>2. /\ n \in Nat /\ eax[p] \in Nat /\ n + eax[p] \in 0..size
        /\ Holds(p, st[p].fds[1], i, n + eax[p]) /\ data[p] = Numbers(n, eax[p])
        /\ eax[p] = 0 => n = size
    BY <1>1, <1>4, <1>10
  <2>3. CASE eax[p] = 0 /\ Finish(p, 0)
    BY <1>5, <2>2, <2>3
  <2>4. CASE Fail(p, 3)
    BY <1>5, <2>4
  <2>5. CASE UNCHANGED files /\ st' = [st EXCEPT ![p].at = "wrote", ![p].out = More(p)]
    <3>1. st'[p].at = "wrote" /\ st'[p].out = More(p) /\ st'[p].fds = st[p].fds
      BY <1>2, <2>5 DEF Locals
    <3>2. More(p) = Numbers(0, n + eax[p])
      BY <1>1, <1>3, <2>2, NumbersConcat DEF More
    <3>3. file_array' = file_array
      BY <2>5 DEF files
    <3> QED
      BY <2>2, <3>1, <3>2, <3>3 DEF CatAt, Holds
  <2> QED
    BY <2>1, <2>5, <2>3, <2>4
<1>11. CASE st[p].at = "wrote"
  <2>1. Finish(p, 3) \/ ReadNext(p, st[p].fds[1], "got")
    BY <1>3, <1>11 DEF Cat, CatLs, Is, At
  <2> QED
    BY <1>1, <1>5, <1>6, <1>11, <2>1
<1> QED
  BY <1>3, <1>7, <1>8, <1>9, <1>10, <1>11 DEF Cat, CatLs, Is, At

LEMMA CatNext ==
  ASSUME ProcessesInv, CatInv, [ProgramsNext]_vars
  PROVE  CatInv'
<1> SUFFICES ASSUME NEW p \in Procs, NEW i \in DOMAIN Directory, IsCat(p, i)'
             PROVE  CatAt(p, i)'
  BY DEF CatInv
<1>1. Goes(p) \/ IsInCall(p) \/ Fresh(p) \/ Unnoticed(p)
  BY ProcessesNext DEF OneStep, IsShell, IsCat
<1>2. CASE Fresh(p)
  <2>1. st'[p].at = "start" /\ st'[p].out = <<>>
    BY <1>2, NewLocals DEF Fresh
  <2>2. Directory[i].size \in Nat /\ Numbers(0, 0) = <<>>
    BY EntryTypes DEF Numbers
  <2> QED
    BY <2>1, <2>2 DEF CatAt
<1>3. CASE Goes(p)
  <2>1. SameProgram(p)
    BY <1>3, ProgramGoesOn DEF Goes, ProcessesInv
  <2>2. IsCat(p, i)
    BY <2>1 DEF IsCat, SameProgram
  <2> QED
    BY <1>3, <2>2, CatGoes DEF CatInv
<1>4. CASE IsInCall(p) \/ Unnoticed(p)
  <2>1. IsCat(p, i)
    BY <1>4 DEF IsInCall, Unnoticed, IsCat
  <2> QED
    BY <1>4, <2>1, CatKeeps DEF CatInv
<1> QED
  BY <1>1, <1>2, <1>3, <1>4

(* cat prints its file, whatever the other programs do between its calls,  *)
(* on this terminal or another (file_position, in the PCB of each process, *)
(* and the one store_eax).                                                 *)
THEOREM CatPrintsItsFile == ProgramsSpec => []CatPrintsFile
<1>1. ProgramsInit => CatInv
  <2>1. ProgramsInit => st = [p \in Procs |-> New("shell", "")]
    BY DEF ProgramsInit
  <2>2. New("shell", "").prog = "shell"
    BY NewLocals
  <2> QED
    BY <2>1, <2>2 DEF CatInv, IsCat
<1>2. ProcessesInv /\ CatInv /\ [ProgramsNext]_vars => ProcessesInv' /\ CatInv'
  BY ProcessesNext, CatNext
<1> QED
  BY <1>1, <1>2, ProcessesInit, CatPrints, PTL DEF ProgramsSpec

-----------------------------------------------------------------------------
(* ls and grep: what has been printed or searched are the entries before   *)
(* dir_counter, or before the entry in the buffer.                         *)
Listed(p, n) == st[p].out \in Seq(Nat) /\ InOrder(st[p].out, Wanted(p) \cap 1..n)

DirFd(p, fd)  == fd \in 2..(MAX_FD - 1) /\ file_array[p][fd].ops = "dir"
FileFd(p, fd) == /\ fd \in 2..(MAX_FD - 1)
                 /\ \E o \in {"rtc", "file"} : \E i, x :
                      file_array[p][fd] = [ops |-> o, inode |-> i, pos |-> x]

Buffered(p) ==
  \/ /\ eax[p] = 1 /\ dir_counter \in 1..Len(Directory) /\ data[p] = <<dir_counter>>
     /\ Listed(p, dir_counter - 1)
  \/ eax[p] = 0 /\ Listed(p, Len(Directory))

DirAt(p) ==
  LET s == st[p] IN
  /\ s.at = "opened" =>
       mode[p] = "user" /\ s.out = <<>> /\ dir_counter = 0 /\ (eax[p] = -1 \/ DirFd(p, eax[p]))
  /\ s.at \in {"got", "entry"} => mode[p] = "user" /\ DirFd(p, s.fds[1]) /\ Buffered(p)
  /\ s.at \in {"wrote", "file", "chunk", "match", "last", "closed"} =>
       DirFd(p, s.fds[1]) /\ Listed(p, dir_counter)
  /\ s.at = "file" => mode[p] = "user" /\ (eax[p] = -1 \/ FileFd(p, eax[p]))
  /\ s.at \in {"chunk", "match", "last"} => FileFd(p, s.fds[2])
  /\ s.at = "return" /\ s.status = 0 => Listed(p, Len(Directory))

Walks(p) == st[p].prog \in {"ls", "grep"}

DirectoryInv ==
  /\ dir_counter \in 0..Len(Directory)
  /\ \A p \in Procs : Walks(p) =>
       /\ st[p].at \in {"start", "dir"} => st[p].out = <<>>
       /\ whole[p] => DirAt(p)

LEMMA LenDirectory == Len(Directory) \in Nat /\ DOMAIN Directory = 1..Len(Directory)
<1> DEFINE Entries == [name : STRING, type : {"rtc", "dir", "file"}, size : Nat]
<1>1. Directory \in Seq(Entries)
  BY FilesAssumption
<1> HIDE DEF Entries
<1> QED
  BY <1>1

LEMMA ListsWhole == DirectoryInv => DirectoryWhole
<1> SUFFICES ASSUME DirectoryInv, NEW p \in Procs, Walks(p), st[p].at = "return",
                    st[p].status = 0, whole[p]
             PROVE  InOrder(st[p].out, Wanted(p))
  BY DEF DirectoryWhole, Walks
<1>1. Listed(p, Len(Directory))
  BY DEF DirectoryInv, DirAt
<1>2. Wanted(p) \cap 1..Len(Directory) = Wanted(p)
  BY LenDirectory DEF Wanted
<1> QED
  BY <1>1, <1>2 DEF Listed

LEMMA InOrderNext ==
  ASSUME NEW s \in Seq(Nat), NEW W, NEW d \in Nat \ {0}, InOrder(s, W \cap 1..(d - 1))
  PROVE  /\ d \in W => s \o <<d>> \in Seq(Nat) /\ InOrder(s \o <<d>>, W \cap 1..d)
         /\ d \notin W => InOrder(s, W \cap 1..d)
<1>1. CASE d \notin W
  <2>1. W \cap 1..d = W \cap 1..(d - 1)
    BY <1>1
  <2> QED
    BY <1>1, <2>1
<1>2. CASE d \in W
  <2> DEFINE t == s \o <<d>>
             n == Len(s)
  <2>1. t \in Seq(Nat) /\ Len(t) = n + 1 /\ n \in Nat /\ DOMAIN t = 1..(n + 1) /\ DOMAIN s = 1..n
    OBVIOUS
  <2>2. t[n + 1] = d /\ \A j \in 1..n : t[j] = s[j]
    OBVIOUS
  <2>3. \A j \in 1..n : s[j] \in W \cap 1..(d - 1)
    BY <2>1 DEF InOrder
  <2> HIDE DEF t, n
  <2>4. \A j, k \in DOMAIN t : j < k => t[j] < t[k]
    <3> SUFFICES ASSUME NEW j \in 1..(n + 1), NEW k \in 1..(n + 1), j < k PROVE t[j] < t[k]
      BY <2>1
    <3>1. j \in 1..n /\ t[j] = s[j] /\ s[j] \in 1..(d - 1)
      BY <2>1, <2>2, <2>3
    <3>2. CASE k = n + 1
      BY <2>2, <3>1, <3>2
    <3>3. CASE k # n + 1
      <4>1. k \in DOMAIN s /\ j \in DOMAIN s /\ t[k] = s[k]
        BY <2>1, <2>2, <3>1, <3>3
      <4> QED
        BY <3>1, <4>1 DEF InOrder
    <3> QED
      BY <3>2, <3>3
  <2>5. {t[j] : j \in DOMAIN t} = W \cap 1..d
    <3>1. {s[j] : j \in 1..n} = W \cap 1..(d - 1)
      BY <2>1 DEF InOrder
    <3>2. {t[j] : j \in DOMAIN t} = {s[j] : j \in 1..n} \cup {d}
      <4>1. DOMAIN t = 1..n \cup {n + 1}
        BY <2>1
      <4> QED
        BY <2>2, <4>1
    <3>3. W \cap 1..d = (W \cap 1..(d - 1)) \cup {d}
      BY <1>2
    <3> QED
      BY <3>1, <3>2, <3>3
  <2> QED
    BY <1>2, <2>1, <2>4, <2>5 DEF InOrder, t
<1> QED
  BY <1>1, <1>2

(* A read of the directory gives the entry at dir_counter, or 0 after the  *)
(* last.                                                                   *)
LEMMA ReadOfDir ==
  ASSUME ProcessesInv, DirectoryInv, NEW p \in Procs, NEW fd, DirFd(p, fd), NEW n, read(p, fd, n)
  PROVE  /\ mode' = mode /\ file_array' = file_array
         /\ \/ /\ eax'[p] = 1 /\ dir_counter < Len(Directory)
               /\ dir_counter' = dir_counter + 1 /\ data'[p] = <<dir_counter + 1>>
            \/ eax'[p] = 0 /\ dir_counter' = 0 /\ dir_counter = Len(Directory)
<1>1. dir_read(p)
  BY FilesAssumption DEF read, Bad, DirFd, Fds
<1>2. DOMAIN data = Procs
  BY DEF ProcessesInv, LocalsInv
<1>3. ASSUME NEW v, Return(p, v) PROVE mode' = mode /\ eax'[p] = v
  BY <1>3 DEF Return, Store
<1>4. dir_counter \in 0..Len(Directory) /\ Len(Directory) \in Nat
  BY LenDirectory DEF DirectoryInv
<1>5. file_array' = file_array
  BY <1>1 DEF dir_read
<1>6. CASE dir_counter < Len(Directory)
  <2>1. data' = [data EXCEPT ![p] = <<dir_counter + 1>>] /\ dir_counter' = dir_counter + 1 /\ Return(p, 1)
    BY <1>1, <1>6 DEF dir_read
  <2> QED
    BY <1>2, <1>3, <1>5, <1>6, <2>1
<1>7. CASE ~(dir_counter < Len(Directory))
  <2>1. dir_counter' = 0 /\ Return(p, 0)
    BY <1>1, <1>7 DEF dir_read
  <2> QED
    BY <1>3, <1>4, <1>5, <1>7, <2>1
<1> QED
  BY <1>6, <1>7

(* Reading a file leaves the directory and its descriptor alone.           *)
LEMMA ReadLeavesDir ==
  ASSUME ProcessesInv, NEW p \in Procs, NEW fd, FileFd(p, fd), NEW n, read(p, fd, n)
  PROVE  /\ dir_counter' = dir_counter /\ FileFd(p, fd)'
         /\ \A g : DirFd(p, g) => DirFd(p, g)'
<1>1. fd \in 2..(MAX_FD - 1) /\ fd \in Fds
  BY FilesAssumption DEF FileFd, Fds
<1>2. PICK o \in {"rtc", "file"} : \E i, x : file_array[p][fd] = [ops |-> o, inode |-> i, pos |-> x]
  BY DEF FileFd
<1>3. PICK i, x : file_array[p][fd] = [ops |-> o, inode |-> i, pos |-> x]
  BY <1>2
<1>4. DOMAIN file_array = Procs /\ DOMAIN file_array[p] = Fds
  BY DEF ProcessesInv, DescriptorsInv
<1>5. CASE o = "rtc"
  <2>1. UNCHANGED files
    BY <1>1, <1>3, <1>5 DEF read, Bad
  <2> QED
    BY <2>1 DEF files, FileFd, DirFd
<1>6. CASE o = "file"
  <2>1. dir_counter' = dir_counter /\ \E k : file_array' = [file_array EXCEPT ![p][fd].pos = @ + k]
    BY <1>1, <1>3, <1>6 DEF read, Bad, file_read
  <2>2. PICK k : file_array' = [file_array EXCEPT ![p][fd].pos = @ + k]
    BY <2>1
  <2>3. /\ file_array'[p][fd] = [file_array[p][fd] EXCEPT !.pos = @ + k]
        /\ \A g \in Fds \ {fd} : file_array'[p][g] = file_array[p][g]
    BY <1>1, <1>4, <2>2
  <2>4. file_array'[p][fd] = [ops |-> o, inode |-> i, pos |-> x + k]
    BY <1>3, <2>3
  <2>5. FileFd(p, fd)'
    BY <1>1, <2>4 DEF FileFd
  <2>6. \A g : DirFd(p, g) => g \in Fds \ {fd}
    BY <1>3, FilesAssumption DEF DirFd, Fds
  <2> QED
    BY <2>1, <2>3, <2>5, <2>6 DEF DirFd
<1> QED
  BY <1>5, <1>6

LEMMA OpenDot ==
  ASSUME ProcessesInv, NEW p \in Procs, mode[p] = "user", open(p, ".")
  PROVE  mode' = mode /\ dir_counter' = dir_counter /\ (eax'[p] = -1 \/ DirFd(p, eax[p])')
<1>1. CASE Named(".") = {}
  <2>1. Return(p, -1) /\ UNCHANGED files
    BY <1>1 DEF open
  <2> QED
    BY <2>1 DEF Return, Store, files
<1>2. ASSUME NEW i \in DOMAIN Directory, Directory[i].name = "."
      PROVE  mode' = mode /\ dir_counter' = dir_counter /\ (eax'[p] = -1 \/ DirFd(p, eax[p])')
  <2>1. Directory[i].type = "dir"
    BY <1>2, NamesAssumption
  <2>2. open(p, Directory[i].name)
    BY <1>2
  <2>3. /\ mode' = mode /\ dir_counter' = dir_counter
        /\ \/ eax'[p] = -1
           \/ /\ eax'[p] \in 2..(MAX_FD - 1)
              /\ file_array'[p][eax'[p]] = [ops |-> Directory[i].type, inode |-> i, pos |-> 0]
    BY <2>2, OpenFile
  <2> QED
    BY <2>1, <2>3 DEF DirFd
<1> QED
  BY <1>1, <1>2 DEF Named

(* How they go on                                                          *)
LEMMA WalkGoes ==
  ASSUME ProcessesInv, NEW p \in Procs, Walks(p), Goes(p)
  PROVE  /\ st[p].at \notin {"start", "dir"} => st'[p].at \notin {"start", "dir", "opened"}
         /\ st[p].at \in {"start", "dir"} => st'[p].out = st[p].out
<1>1. \/ st[p].prog = "ls" /\ (Ls(p) \/ CatLs(p))
      \/ st[p].prog = "grep" /\ Grep(p)
  BY DEF Walks, Goes, Program, Shell, Cat, Ls, CatLs, Lists, Is, Grep, Pingpong, Syserr, At
<1>2. DOMAIN st = Procs /\ DOMAIN st[p] = Locals /\ DOMAIN st[p].fds = {1, 2}
  BY DEF ProcessesInv, LocalsInv
<1>3. ASSUME st[p].at \notin {"start", "dir"}
      PROVE  st'[p].at \notin {"start", "dir", "opened"}
  <2>1. ASSUME NEW l, \/ st' = [st EXCEPT ![p].at = l]
                      \/ \E x : st' = [st EXCEPT ![p].at = l, ![p].status = x]
                      \/ \E x : st' = [st EXCEPT ![p].at = l, ![p].out = x]
                      \/ \E x : st' = [st EXCEPT ![p].at = l, ![p].fds[1] = x]
                      \/ \E x : st' = [st EXCEPT ![p].at = l, ![p].fds[2] = x]
        PROVE  st'[p].at = l
    BY <1>2, <2>1 DEF Locals
  <2>2. \E l \in {"got", "wrote", "entry", "file", "chunk", "match", "last", "closed", "return"} :
          \/ st' = [st EXCEPT ![p].at = l]
          \/ \E x : st' = [st EXCEPT ![p].at = l, ![p].status = x]
          \/ \E x : st' = [st EXCEPT ![p].at = l, ![p].out = x]
          \/ \E x : st' = [st EXCEPT ![p].at = l, ![p].fds[1] = x]
          \/ \E x : st' = [st EXCEPT ![p].at = l, ![p].fds[2] = x]
          \/ st[p].at = l /\ st' = st
    <3>1. CASE st[p].prog = "ls"
      BY ZenonT(60), <1>1, <1>3, <3>1 DEF Ls, CatLs, Is, Grep, At, Finish, Fail, ReadNext
    <3>2. CASE st[p].prog = "grep"
      BY <1>1, <1>3, <3>2 DEF Ls, CatLs, Is, Grep, At, Finish, Fail, ReadNext, ReadFile, Goto
    <3> QED
      BY ZenonT(60), <1>1, <3>1, <3>2
  <2> QED
    BY SMTT(30), <2>1, <2>2, <1>3
<1>4. ASSUME st[p].at \in {"start", "dir"}
      PROVE  st'[p].out = st[p].out
  <2>1. \/ \E l : st' = [st EXCEPT ![p].at = l]
        \/ \E l, x : st' = [st EXCEPT ![p].at = l, ![p].status = x]
    BY <1>1, <1>4 DEF Ls, CatLs, Is, Grep, At, OpenDir, Goto, Fail
  <2> QED
    BY ZenonT(60), <1>2, <2>1 DEF Locals
<1> QED
  BY SMTT(30), <1>3, <1>4

(* A step of their own                                                     *)
LEMMA DirGoes ==
  ASSUME ProcessesInv, DirectoryInv, NEW p \in Procs, Walks(p), Goes(p), Reads(p)
  PROVE  DirAt(p)'
<1>1. SameProgram(p) /\ mode[p] = "user"
  BY ZenonT(60), ProgramGoesOn DEF Goes, ProcessesInv, Program, Shell, Cat, Ls, CatLs, Is, Grep, Pingpong, Syserr, At
<1>2. \/ st[p].prog = "ls" /\ (Ls(p) \/ CatLs(p))
      \/ st[p].prog = "grep" /\ Grep(p)
  BY DEF Walks, Goes, Program, Shell, Cat, Ls, CatLs, Lists, Is, Grep, Pingpong, Syserr, At
<1>3. /\ DOMAIN st = Procs /\ DOMAIN st[p] = Locals /\ DOMAIN st[p].fds = {1, 2}
      /\ DOMAIN file_array = Procs /\ DOMAIN file_array[p] = Fds
  BY DEF ProcessesInv, LocalsInv, DescriptorsInv
<1>4. Wanted(p)' = Wanted(p)
  BY <1>1 DEF Wanted, SameProgram
<1>5. ASSUME NEW n, st'[p].out = st[p].out, Listed(p, n)
      PROVE  st'[p].out \in Seq(Nat) /\ InOrder(st'[p].out, Wanted(p)' \cap 1..n)
  BY <1>4, <1>5 DEF Listed
<1>6. /\ whole[p] => DirAt(p)
      /\ st[p].at \in {"start", "dir"} => st[p].out = <<>>
      /\ dir_counter \in 0..Len(Directory) /\ Len(Directory) \in Nat
  BY LenDirectory DEF DirectoryInv
<1>7. ASSUME NEW s, Finish(p, s) \/ Fail(p, s), s = 0 => Listed(p, Len(Directory))
      PROVE  DirAt(p)'
  <2>1. st' = [st EXCEPT ![p].at = "return", ![p].status = s]
    BY <1>7 DEF Finish, Fail
  <2>2. st'[p].at = "return" /\ st'[p].status = s /\ st'[p].out = st[p].out
    BY <1>3, <2>1 DEF Locals
  <2> QED
    BY <1>5, <1>7, <2>2 DEF DirAt, Listed
<1>8. ASSUME NEW fd, NEW l \in {"got", "entry"}, DirFd(p, fd), Listed(p, dir_counter), ReadNext(p, fd, l)
      PROVE  DirAt(p)'
  <2>1. st'[p].at = l /\ st'[p].fds[1] = fd /\ st'[p].out = st[p].out
    BY <1>3, <1>8 DEF ReadNext, Locals
  <2>2. /\ mode' = mode /\ file_array' = file_array
        /\ \/ /\ eax'[p] = 1 /\ dir_counter < Len(Directory)
              /\ dir_counter' = dir_counter + 1 /\ data'[p] = <<dir_counter + 1>>
           \/ eax'[p] = 0 /\ dir_counter' = 0 /\ dir_counter = Len(Directory)
    BY <1>8, ReadOfDir DEF ReadNext
  <2>3. DirFd(p, st[p].fds[1])'
    BY <1>8, <2>1, <2>2 DEF DirFd
  <2>4. Buffered(p)'
    <3>1. CASE eax'[p] = 1 /\ dir_counter < Len(Directory)
               /\ dir_counter' = dir_counter + 1 /\ data'[p] = <<dir_counter + 1>>
      <4>1. dir_counter' \in 1..Len(Directory) /\ dir_counter' - 1 = dir_counter
        BY <1>6, <3>1
      <4>2. Listed(p, dir_counter - 1)'
        BY <1>5, <1>8, <2>1, <4>1 DEF Listed
      <4> QED
        BY <3>1, <4>1, <4>2 DEF Buffered
    <3>2. CASE eax'[p] = 0 /\ dir_counter' = 0 /\ dir_counter = Len(Directory)
      BY <1>5, <1>8, <2>1, <3>2 DEF Buffered, Listed
    <3> QED
      BY <2>2, <3>1, <3>2
  <2> QED
    BY <1>1, <1>8, <2>1, <2>2, <2>3, <2>4 DEF DirAt
<1>9. ASSUME NEW f, DirFd(p, st[p].fds[1]), Listed(p, dir_counter), FileFd(p, f), ReadFile(p, f)
      PROVE  DirAt(p)'
  <2>1. /\ st'[p].at = "chunk" /\ st'[p].fds[2] = f /\ st'[p].fds[1] = st[p].fds[1]
        /\ st'[p].out = st[p].out
    BY <1>3, <1>9 DEF ReadFile, Locals
  <2>2. dir_counter' = dir_counter /\ FileFd(p, f)' /\ DirFd(p, st[p].fds[1])'
    <3>1. \A g : DirFd(p, g) => DirFd(p, g)'
      BY <1>9, ReadLeavesDir DEF ReadFile
    <3>2. dir_counter' = dir_counter /\ FileFd(p, f)'
      BY <1>9, ReadLeavesDir DEF ReadFile
    <3> QED
      BY <1>9, <2>1, <3>1, <3>2 DEF DirFd
  <2> QED
    BY <1>5, <1>9, <2>1, <2>2 DEF DirAt, Listed, FileFd
<1>10. ASSUME NEW l, Puts(p), l \in {"match", "last"}, DirFd(p, st[p].fds[1]), Listed(p, dir_counter),
              FileFd(p, st[p].fds[2]),
              st'[p].at = l, st'[p].out = st[p].out, st'[p].fds = st[p].fds
       PROVE  DirAt(p)'
  <2>1. UNCHANGED files
    BY <1>10 DEF Puts, write
  <2> QED
    BY <1>5, <1>10, <2>1 DEF DirAt, Listed, files, DirFd, FileFd
<1>11. ASSUME close(p, st[p].fds[2]), Goto(p, "closed"), DirFd(p, st[p].fds[1]), Listed(p, dir_counter),
              FileFd(p, st[p].fds[2])
       PROVE  DirAt(p)'
  <2>1. st'[p].at = "closed" /\ st'[p].fds = st[p].fds /\ st'[p].out = st[p].out
    BY <1>3, <1>11 DEF Goto, Locals
  <2>2. st[p].fds[1] # st[p].fds[2] /\ st[p].fds[1] \in Fds
    BY <1>11, FilesAssumption DEF DirFd, FileFd, Fds
  <2>3. dir_counter' = dir_counter /\ file_array'[p][st[p].fds[1]] = file_array[p][st[p].fds[1]]
    BY <1>3, <1>11, <2>2 DEF close
  <2> QED
    BY <1>5, <1>11, <2>1, <2>3 DEF DirAt, Listed, DirFd
<1>12. CASE st[p].at \in {"start", "dir"}
  <2>1. OpenDir(p) \/ Goto(p, "dir") \/ Fail(p, 3)
    BY <1>2, <1>12 DEF Ls, CatLs, Is, Grep, At
  <2>2. CASE OpenDir(p)
    <3>1. st'[p].at = "opened" /\ st'[p].out = <<>>
      BY <1>3, <1>6, <1>12, <2>2 DEF OpenDir, Goto, Locals
    <3>2. dir_counter = 0
      BY <1>12, <3>1 DEF Reads
    <3> QED
      BY <1>1, <2>2, <3>1, <3>2, OpenDot DEF OpenDir, DirAt
  <2>3. CASE Goto(p, "dir")
    <3>1. st'[p].at = "dir"
      BY <1>3, <2>3 DEF Goto, Locals
    <3> QED
      BY <3>1 DEF DirAt
  <2> QED
    BY <1>7, <2>1, <2>2, <2>3
<1>13. ASSUME st[p].at \notin {"start", "dir"}
       PROVE  whole[p] /\ DirAt(p)
  BY <1>6, <1>13, WalkGoes DEF Reads
<1>14. CASE st[p].at = "opened"
  <2>1. (eax[p] = -1 /\ Fail(p, 2)) \/ (eax[p] # -1 /\ \E l \in {"got", "entry"} : ReadNext(p, eax[p], l))
    BY <1>2, <1>14 DEF Ls, CatLs, Is, Grep, At
  <2>2. Listed(p, dir_counter) /\ (eax[p] # -1 => DirFd(p, eax[p]))
    <3>1. st[p].out = <<>> /\ dir_counter = 0 /\ (eax[p] = -1 \/ DirFd(p, eax[p]))
      BY <1>13, <1>14 DEF DirAt
    <3>2. <<>> \in Seq(Nat) /\ DOMAIN <<>> = {} /\ Wanted(p) \cap 1..0 = {}
      OBVIOUS
    <3>3. InOrder(<<>>, {})
      BY <3>2 DEF InOrder
    <3> QED
      BY <3>1, <3>2, <3>3 DEF Listed
  <2> QED
    BY <1>7, <1>8, <2>1, <2>2
<1>15. ASSUME Buffered(p), eax[p] > 0, whole[p]
       PROVE  /\ dir_counter \in DOMAIN Directory
              /\ Directory[dir_counter].type # "dir" \/ st[p].prog = "ls" =>
                   More(p) \in Seq(Nat) /\ InOrder(More(p), Wanted(p) \cap 1..dir_counter)
              /\ Directory[dir_counter].type = "dir" /\ st[p].prog # "ls" => Listed(p, dir_counter)
              /\ Entry(p) = Directory[dir_counter]
  <2>1. /\ dir_counter \in 1..Len(Directory) /\ data[p] = <<dir_counter>>
        /\ Listed(p, dir_counter - 1)
    BY <1>15 DEF Buffered
  <2>2. dir_counter \in DOMAIN Directory /\ dir_counter \in Nat \ {0} /\ Entry(p) = Directory[dir_counter]
    BY <2>1, LenDirectory DEF Entry
  <2>3. /\ dir_counter \in Wanted(p) =>
             /\ st[p].out \o <<dir_counter>> \in Seq(Nat)
             /\ InOrder(st[p].out \o <<dir_counter>>, Wanted(p) \cap 1..dir_counter)
        /\ dir_counter \notin Wanted(p) => InOrder(st[p].out, Wanted(p) \cap 1..dir_counter)
    BY <2>1, <2>2, InOrderNext DEF Listed
  <2>4. dir_counter \in Wanted(p) <=> Directory[dir_counter].type # "dir" \/ st[p].prog = "ls"
    BY <2>2 DEF Wanted
  <2>5. More(p) = st[p].out \o <<dir_counter>>
    BY <1>15, <2>1 DEF More
  <2> QED
    BY <2>1, <2>2, <2>3, <2>4, <2>5 DEF Listed
<1>16. ASSUME NEW l \in {"wrote", "file"}, st' = [st EXCEPT ![p].at = l, ![p].out = More(p)],
              whole[p], Buffered(p), eax[p] > 0, st[p].prog = "ls" \/ Entry(p).type # "dir",
              dir_counter' = dir_counter, DirFd(p, st[p].fds[1])',
              l = "file" => mode'[p] = "user" /\ (eax'[p] = -1 \/ FileFd(p, eax[p])')
       PROVE  DirAt(p)'
  <2>1. st'[p].at = l /\ st'[p].out = More(p) /\ st'[p].fds = st[p].fds
    BY <1>3, <1>16 DEF Locals
  <2>2. Listed(p, dir_counter)'
    BY <1>4, <1>15, <1>16, <2>1 DEF Listed
  <2> QED
    BY <1>16, <2>1, <2>2 DEF DirAt
<1>17. CASE st[p].at = "got" /\ st[p].prog = "ls"
  <2>1. DirFd(p, st[p].fds[1]) /\ Buffered(p) /\ whole[p] /\ st[p].fds[1] \in Fds
    BY <1>13, <1>17, FilesAssumption DEF DirAt, DirFd, Fds
  <2>2. \/ eax[p] = 0 /\ Finish(p, 0)
        \/ Fail(p, 3)
        \/ eax[p] > 0 /\ UNCHANGED files /\ st' = [st EXCEPT ![p].at = "wrote", ![p].out = More(p)]
    BY <1>2, <1>17 DEF Ls, CatLs, Is, At, write
  <2>3. CASE eax[p] = 0 /\ Finish(p, 0)
    BY <1>7, <2>1, <2>3 DEF Buffered
  <2>4. CASE eax[p] > 0 /\ UNCHANGED files /\ st' = [st EXCEPT ![p].at = "wrote", ![p].out = More(p)]
    <3>1. st'[p].fds = st[p].fds
      BY <1>3, <2>4 DEF Locals
    <3>2. DirFd(p, st[p].fds[1])' /\ dir_counter' = dir_counter
      BY <2>1, <2>4, <3>1 DEF DirFd, files
    <3> QED
      BY <1>16, <1>17, <2>1, <2>4, <3>2
  <2> QED
    BY <1>7, <2>2, <2>3, <2>4
<1>18. CASE st[p].at = "entry" /\ st[p].prog = "grep"
  <2>1. DirFd(p, st[p].fds[1]) /\ Buffered(p) /\ whole[p] /\ st[p].fds[1] \in Fds
    BY <1>13, <1>18, FilesAssumption DEF DirAt, DirFd, Fds
  <2>2. \/ eax[p] = 0 /\ Finish(p, 0)
        \/ Fail(p, 3)
        \/ eax[p] > 0 /\ Entry(p).type = "dir" /\ ReadNext(p, st[p].fds[1], "entry")
        \/ /\ eax[p] > 0 /\ Entry(p).type # "dir" /\ open(p, Entry(p).name)
           /\ st' = [st EXCEPT ![p].at = "file", ![p].out = More(p)]
    BY <1>2, <1>18 DEF Grep, At
  <2>3. CASE eax[p] = 0 /\ Finish(p, 0)
    BY <1>7, <2>1, <2>3 DEF Buffered
  <2>4. CASE eax[p] > 0 /\ Entry(p).type = "dir" /\ ReadNext(p, st[p].fds[1], "entry")
    <3>1. Listed(p, dir_counter)
      BY <1>15, <1>18, <2>1, <2>4
    <3> QED
      BY <1>8, <2>1, <2>4, <3>1
  <2>5. CASE /\ eax[p] > 0 /\ Entry(p).type # "dir" /\ open(p, Entry(p).name)
             /\ st' = [st EXCEPT ![p].at = "file", ![p].out = More(p)]
    <3>1. st'[p].fds = st[p].fds
      BY <1>3, <2>5 DEF Locals
    <3>2. dir_counter \in DOMAIN Directory /\ Entry(p) = Directory[dir_counter]
      BY <1>15, <2>1, <2>5
    <3>3. /\ mode' = mode /\ dir_counter' = dir_counter
          /\ \A g \in Fds : file_array[p][g].ops # "none" => file_array'[p][g] = file_array[p][g]
          /\ \/ eax'[p] = -1
             \/ /\ eax'[p] \in 2..(MAX_FD - 1)
                /\ file_array'[p][eax'[p]] = [ops |-> Entry(p).type, inode |-> dir_counter, pos |-> 0]
      BY <1>1, <2>5, <3>2, OpenFile
    <3>4. DirFd(p, st[p].fds[1])'
      BY <2>1, <3>1, <3>3 DEF DirFd
    <3>5. eax'[p] = -1 \/ FileFd(p, eax[p])'
      <4>1. Entry(p).type \in {"rtc", "file"}
        BY <2>5, <3>2, EntryTypes
      <4> QED
        BY <3>3, <4>1 DEF FileFd
    <3> QED
      BY <1>1, <1>16, <2>1, <2>5, <3>3, <3>4, <3>5
  <2> QED
    BY <1>7, <2>2, <2>3, <2>4, <2>5
<1>19. CASE st[p].at \in {"wrote", "file", "chunk", "match", "last", "closed"}
  <2>1. /\ DirFd(p, st[p].fds[1]) /\ Listed(p, dir_counter)
        /\ st[p].at = "file" => mode[p] = "user" /\ (eax[p] = -1 \/ FileFd(p, eax[p]))
        /\ st[p].at \in {"chunk", "match", "last"} => FileFd(p, st[p].fds[2])
    BY <1>13, <1>19 DEF DirAt
  <2>2. CASE st[p].prog = "ls"
    <3>1. st[p].at = "wrote" /\ (Finish(p, 3) \/ ReadNext(p, st[p].fds[1], "got"))
      BY <1>2, <1>19, <2>2 DEF Ls, CatLs, Is, At
    <3> QED
      BY <1>7, <1>8, <2>1, <3>1
  <2>3. CASE st[p].prog = "grep"
    <3>1. \/ Fail(p, 3)
          \/ st[p].at = "file" /\ eax[p] # -1 /\ ReadFile(p, eax[p])
          \/ st[p].at \in {"chunk", "match"} /\ ReadFile(p, st[p].fds[2])
          \/ st[p].at = "chunk" /\ Puts(p) /\ \E l \in {"last", "match"} : Goto(p, l)
          \/ st[p].at \in {"match", "last"} /\ Puts(p) /\ UNCHANGED st
          \/ st[p].at \in {"chunk", "last"} /\ close(p, st[p].fds[2]) /\ Goto(p, "closed")
          \/ ReadNext(p, st[p].fds[1], "entry")
      BY <1>2, <1>19, <2>3 DEF Grep, At
    <3>2. CASE st[p].at = "chunk" /\ Puts(p) /\ \E l \in {"last", "match"} : Goto(p, l)
      <4>1. PICK l \in {"last", "match"} : Goto(p, l)
        BY <3>2
      <4>2. st'[p].at = l /\ st'[p].out = st[p].out /\ st'[p].fds = st[p].fds
        BY <1>3, <4>1 DEF Goto, Locals
      <4> QED
        BY <1>10, <2>1, <3>2, <4>2
    <3>3. CASE st[p].at \in {"match", "last"} /\ Puts(p) /\ UNCHANGED st
      BY <1>10, <2>1, <3>3
    <3> QED
      BY <1>7, <1>8, <1>9, <1>11, <2>1, <3>1, <3>2, <3>3
  <2> QED
    BY <1>2, <2>2, <2>3
<1> QED
  <2>1. CASE st[p].prog = "ls"
    <3>1. st[p].at \in {"start", "opened", "got", "wrote"}
      BY <1>2, <2>1 DEF Ls, CatLs, Is, At
    <3> QED
      BY <1>12, <1>14, <1>17, <1>19, <2>1, <3>1
  <2>2. CASE st[p].prog = "grep"
    <3>1. st[p].at \in {"start", "dir", "opened", "entry", "file", "chunk", "match", "last", "closed"}
      BY <1>2, <2>2 DEF Grep, At
    <3> QED
      BY <1>12, <1>14, <1>18, <1>19, <2>2, <3>1
  <2> QED
    BY <1>2, <2>1, <2>2

(* The steps of others, as long as they leave dir_counter alone            *)
LEMMA DirKeeps ==
  ASSUME NEW p \in Procs, Walks(p), DirAt(p), dir_counter' = dir_counter, IsInCall(p) \/ Unnoticed(p)
  PROVE  DirAt(p)'
<1>1. /\ st'[p] = st[p] /\ file_array'[p] = file_array[p] /\ data'[p] = data[p]
      /\ mode[p] = "user" => mode'[p] = "user" /\ eax'[p] = eax[p]
  BY DEF IsInCall, Unnoticed, files, Walks
<1>2. /\ \A fd : DirFd(p, fd)' <=> DirFd(p, fd)
      /\ \A fd : FileFd(p, fd)' <=> FileFd(p, fd)
      /\ \A n : Listed(p, n)' <=> Listed(p, n)
  BY <1>1 DEF DirFd, FileFd, Listed, Wanted
<1>3. mode[p] = "user" /\ Buffered(p) => Buffered(p)'
  BY <1>1 DEF Buffered, Listed, Wanted
<1> QED
  BY <1>1, <1>2, <1>3 DEF DirAt

LEMMA CounterNext ==
  ASSUME dir_counter \in 0..Len(Directory), [ProgramsNext]_vars
  PROVE  dir_counter' \in 0..Len(Directory)
<1>1. ASSUME NEW p, dir_read(p) PROVE dir_counter' \in 0..Len(Directory)
  BY SMTT(30), <1>1, LenDirectory DEF dir_read
<1>2. ASSUME NEW p \in Procs, SystemCall(p) PROVE dir_read(p) \/ dir_counter' = dir_counter
  BY <1>2 DEF SystemCall, open, close, read, read_term, file_read, write, getargs, vidmap, NoSuchCall, files
<1>3. ASSUME NEW p \in Procs, CallStep(p) \/ Execute(p) \/ Halt(p) \/ Kill(p) \/ Respawn(p)
      PROVE  dir_counter' = dir_counter
  BY <1>3 DEF CallStep, LineRead, TickRead, StoreEax, LoadEax, ExecuteReturn, Execute, Halt, Kill, Leave,
              Respawn, files
<1>4. CASE Step
  BY <1>1, <1>2, <1>3, <1>4, ProgramCalls DEF Step, FirstShell, files
<1>5. CASE PitIrq \/ RtcIrq \/ UNCHANGED vars
  BY <1>5 DEF PitIrq, RtcIrq, vars, files
<1> QED
  BY <1>4, <1>5 DEF ProgramsNext

LEMMA DirectoryNext ==
  ASSUME ProcessesInv, DirectoryInv, [ProgramsNext]_vars
  PROVE  DirectoryInv'
<1>1. dir_counter' \in 0..Len(Directory)
  BY CounterNext DEF DirectoryInv
<1> SUFFICES ASSUME NEW p \in Procs, Walks(p)'
             PROVE  /\ st'[p].at \in {"start", "dir"} => st'[p].out = <<>>
                    /\ whole'[p] => DirAt(p)'
  BY <1>1 DEF DirectoryInv
<1>2. CASE UNCHANGED <<files, calls, st, whole>>
  <2>1. Unnoticed(p) /\ dir_counter' = dir_counter
    BY <1>2 DEF files, calls, Unnoticed
  <2> QED
    BY <1>2, <2>1, DirKeeps DEF DirectoryInv, Walks
<1>3. CASE Step
  <2>1. whole'[p] = Reads(p)
    BY <1>3 DEF Step
  <2>2. Goes(p) \/ IsInCall(p) \/ Fresh(p) \/ Unnoticed(p)
    BY ProcessesNext DEF OneStep, IsShell, Walks
  <2>3. CASE Fresh(p)
    <3>1. st'[p].at = "start" /\ st'[p].out = <<>>
      BY <2>3, NewLocals DEF Fresh
    <3> QED
      BY <3>1 DEF DirAt
  <2>4. CASE Goes(p)
    <3>1. Walks(p)
      BY <2>4, ProgramGoesOn DEF Goes, ProcessesInv, SameProgram, Walks
    <3> QED
      BY <2>1, <2>4, <3>1, WalkGoes, DirGoes DEF DirectoryInv
  <2>5. CASE IsInCall(p) \/ Unnoticed(p)
    <3>1. st'[p] = st[p] /\ Walks(p)
      BY <2>5 DEF IsInCall, Unnoticed, Walks
    <3>2. whole'[p] => whole[p] /\ dir_counter' = dir_counter
      BY <2>1, <2>5, <3>1 DEF Reads, IsInCall, Unnoticed, files
    <3> QED
      BY <2>5, <3>1, <3>2, DirKeeps DEF DirectoryInv
  <2> QED
    BY <2>2, <2>3, <2>4, <2>5
<1> QED
  BY <1>2, <1>3 DEF ProgramsNext, PitIrq, RtcIrq, vars

(* ls lists and grep searches the whole directory, each entry once and in  *)
(* order, if its reading began at the first entry and nobody else has read *)
(* the directory meanwhile (dir_read and its one dir_counter).             *)
THEOREM DirectoryReadWhole == ProgramsSpec => []DirectoryWhole
<1>1. ProgramsInit => DirectoryInv
  <2> SUFFICES ASSUME ProgramsInit PROVE DirectoryInv
    OBVIOUS
  <2>1. st = [p \in Procs |-> New("shell", "")] /\ dir_counter = 0
    BY DEF ProgramsInit, FilesInit
  <2>2. New("shell", "").prog = "shell"
    BY NewLocals
  <2>3. \A p \in Procs : ~Walks(p)
    BY <2>1, <2>2 DEF Walks
  <2>4. dir_counter = 0
    BY DEF ProgramsInit, FilesInit
  <2>5. Len(Directory) \in Nat
    BY LenDirectory
  <2> QED
    BY <2>3, <2>4, <2>5 DEF DirectoryInv
<1>2. ProcessesInv /\ DirectoryInv /\ [ProgramsNext]_vars => ProcessesInv' /\ DirectoryInv'
  BY ProcessesNext, DirectoryNext
<1> QED
  BY <1>1, <1>2, ProcessesInit, ListsWhole, PTL DEF ProgramsSpec

-----------------------------------------------------------------------------
(* syserr: between its calls the descriptors 2, .., n + 1 are open and the *)
(* last result is what the test expects.                                   *)
Opened(p, n) == \A fd \in 2..(MAX_FD - 1) : file_array[p][fd].ops = "none" <=> fd >= n + 2

(* The test that opens until it fails: the last of its opens must fail     *)
Filling(p, m) ==
  /\ m < MAX_FD => Opened(p, m)
  /\ m \in 1..(MAX_FD - 1) => mode[p] = "user" /\ (eax[p] = -1 <=> m = MAX_FD - 1)
  /\ st[p].cnt = IF m < MAX_FD THEN 0 ELSE 1

(* The others: every call whose result is looked at fails                  *)
Refusing(p, m) ==
  /\ Opened(p, 0)
  /\ m # 0 /\ Tests(p)[m].want = "-1" => mode[p] = "user" /\ eax[p] = -1

(* The test of stdin and stdout is not among them.                         *)
Chosen == (1..9) \ {7}

TestAt(p) ==
  LET m == st[p].k - 1 IN
  /\ st[p].sel \in Chosen /\ st[p].k \in 1..(Len(Tests(p)) + 1)
  /\ st[p].sel = 3 => Filling(p, m)
  /\ st[p].sel # 3 => Refusing(p, m)

SyserrAt(p) ==
  /\ st[p].at \in {"start", "choose", "chosen", "test", "return"}
  /\ st[p].at \in {"start", "choose", "chosen"} => Opened(p, 0) /\ st[p].k = 1 /\ st[p].cnt = 0
  /\ st[p].at = "test" => TestAt(p)

SyserrInv == \A p \in Procs : ~st[p].bad /\ (st[p].prog = "syserr" => SyserrAt(p))

(* The calls of the tests                                                  *)
CallNames == {"read", "write", "close", "open", "vidmap", "none", "puts"}
OpenNames == {"", ".", "helloo", "shel"}
Wants == {"-1", "", "count", "one"}
Calls == [call : CallNames, fd : Int, name : OpenNames, want : Wants]

Refused(c) ==
  /\ c \in Calls /\ c.want = "-1"
  /\ \/ c.call \in {"read", "write"} /\ c.fd \notin {0, 1}
     \/ c.call \in {"close", "vidmap", "none"}
     \/ c.call = "open" /\ Named(c.name) = {}

Harmless == {c \in Calls : Refused(c) \/ (c.call = "puts" /\ c.want = "")}

(* The names its failing opens use, and the one that must not fail.        *)
Present == Named("helloo") = {} /\ Named("shel") = {} /\ Named("") = {} /\ Named(".") # {}

LEMMA CallFields ==
  ASSUME NEW c \in CallNames, NEW x \in Int
  PROVE  /\ Call(c, x) \in Calls /\ Call(c, x).call = c /\ Call(c, x).fd = x
         /\ Call(c, x).want = "-1"
BY DEF Call, Calls, Wants, OpenNames

LEMMA DoneFields ==
  ASSUME NEW w \in Wants
  PROVE  Done(w) \in Calls /\ Done(w).call = "puts" /\ Done(w).want = w
BY DEF Done, Calls, CallNames, OpenNames

LEMMA TryFields ==
  ASSUME NEW n \in OpenNames, NEW w \in Wants
  PROVE  Try(n, w) \in Calls /\ Try(n, w).call = "open" /\ Try(n, w).name = n /\ Try(n, w).want = w
<1>1. Try(n, w).call = "open" /\ Try(n, w).name = n /\ Try(n, w).want = w
  BY DEF Try
<1>2. Try(n, w) \in [call : {"open"}, fd : {0}, name : {n}, want : {w}]
  BY DEF Try
<1>3. "open" \in CallNames
  BY DEF CallNames
<1> HIDE DEF Try
<1> QED
  BY <1>1, <1>2, <1>3 DEF Calls

LEMMA EachFields ==
  ASSUME NEW c \in CallNames, NEW w \in Wants, NEW i \in 1..(MAX_FD - 2)
  PROVE  /\ Each(c, w)[i] \in Calls /\ Each(c, w)[i].call = c
         /\ Each(c, w)[i].fd = i + 1 /\ Each(c, w)[i].want = w
<1>1. Each(c, w)[i] = [Call(c, i + 1) EXCEPT !.want = w]
  BY DEF Each
<1>2. MAX_FD \in Nat
  BY FilesAssumption
<1>3. i + 1 \in Int
  BY <1>2
<1>4. [Call(c, i + 1) EXCEPT !.want = w] \in [call : {c}, fd : {i + 1}, name : {""}, want : {w}]
  BY DEF Call
<1>5. Each(c, w)[i] \in [call : {c}, fd : {i + 1}, name : {""}, want : {w}]
  BY <1>1, <1>4
<1> HIDE DEF Each
<1> QED
  BY <1>3, <1>5 DEF Calls, OpenNames

LEMMA HarmlessCalls ==
  /\ \A c \in {"read", "write"}, x \in Int \ {0, 1} : Call(c, x) \in Harmless
  /\ \A c \in {"close", "vidmap", "none"}, x \in Int : Call(c, x) \in Harmless
  /\ Done("") \in Harmless
<1>1. ASSUME NEW c \in {"read", "write"}, NEW x \in Int \ {0, 1} PROVE Call(c, x) \in Harmless
  <2>1. /\ Call(c, x) \in Calls /\ Call(c, x).call = c /\ Call(c, x).fd = x
        /\ Call(c, x).want = "-1"
    BY CallFields DEF CallNames
  <2> QED
    BY <2>1 DEF Harmless, Refused
<1>2. ASSUME NEW c \in {"close", "vidmap", "none"}, NEW x \in Int PROVE Call(c, x) \in Harmless
  <2>1. Call(c, x) \in Calls /\ Call(c, x).call = c /\ Call(c, x).want = "-1"
    BY CallFields DEF CallNames
  <2> QED
    BY <2>1 DEF Harmless, Refused
<1>3. Done("") \in Harmless
  BY DoneFields DEF Harmless, Wants
<1> QED
  BY <1>1, <1>2, <1>3

LEMMA HarmlessAnyway ==
  ASSUME NEW x \in Int
  PROVE  Call("close", x) \in Harmless /\ Call("vidmap", x) \in Harmless /\ Call("none", x) \in Harmless
<1>1. ASSUME NEW c \in {"close", "vidmap", "none"} PROVE Call(c, x) \in Harmless
  BY HarmlessCalls
<1> QED
  BY <1>1

LEMMA HarmlessEach ==
  \A c \in {"read", "write", "close"} : Each(c, "-1") \in Seq(Harmless)
<1> SUFFICES ASSUME NEW c \in {"read", "write", "close"} PROVE Each(c, "-1") \in Seq(Harmless)
  OBVIOUS
<1>1. MAX_FD - 2 \in Nat
  BY FilesAssumption
<1>2. ASSUME NEW i \in 1..(MAX_FD - 2) PROVE Each(c, "-1")[i] \in Harmless
  <2>1. i + 1 \notin {0, 1}
    BY <1>1
  <2>2. /\ Each(c, "-1")[i] \in Calls /\ Each(c, "-1")[i].call = c
        /\ Each(c, "-1")[i].fd = i + 1 /\ Each(c, "-1")[i].want = "-1"
    <3>1. c \in CallNames /\ "-1" \in Wants
      BY DEF CallNames, Wants
    <3> QED
      BY <3>1, EachFields
  <2> QED
    BY <2>1, <2>2 DEF Harmless, Refused
<1>3. Each(c, "-1") = [i \in 1..(MAX_FD - 2) |-> Each(c, "-1")[i]]
  BY DEF Each
<1> QED
  BY <1>1, <1>2, <1>3

LEMMA ThreeSeq ==
  ASSUME NEW S, NEW a \in S, NEW b \in S, NEW c \in S
  PROVE  <<a>> \in Seq(S) /\ <<a, b>> \in Seq(S) /\ <<a, b, c>> \in Seq(S)
OBVIOUS

LEMMA FourSeq ==
  ASSUME NEW S, NEW a \in S, NEW b \in S, NEW c \in S, NEW d \in S
  PROVE  <<a, b, c, d>> \in Seq(S)
OBVIOUS

(* Every call of the other tests is harmless if the image is Present.      *)
LEMMA OthersHarmless ==
  ASSUME Present, NEW s \in Chosen \ {3}
  PROVE  Script[s] \in Seq(Harmless)
<1>1. MAX_FD \in Int \ {0, 1}
  BY FilesAssumption
<1>2. ASSUME NEW f \in Int \ {0, 1} PROVE err_fd(f) \in Seq(Harmless)
  BY <1>2, HarmlessCalls, FourSeq DEF err_fd
<1>3. err_fd(NEG_FD) \in Seq(Harmless) /\ err_fd(BIG_FD) \in Seq(Harmless)
  <2>1. NEG_FD \in Int \ {0, 1}
    BY DEF NEG_FD
  <2> QED
    BY <1>1, <1>2, <2>1 DEF BIG_FD
<1>4. err_open \in Seq(Harmless)
  <2>1. ASSUME NEW n \in {"helloo", "shel", ""} PROVE Try(n, "-1") \in Harmless
    <3>1. n \in OpenNames /\ "-1" \in Wants
      BY DEF Wants, OpenNames
    <3>2. /\ Try(n, "-1") \in Calls /\ Try(n, "-1").call = "open" /\ Try(n, "-1").name = n
          /\ Try(n, "-1").want = "-1"
      BY <3>1, TryFields
    <3>3. Named(n) = {}
      BY DEF Present
    <3> QED
      BY <3>2, <3>3 DEF Harmless, Refused
  <2> QED
    BY <2>1, HarmlessCalls, FourSeq DEF err_open
<1>5. err_unopened \in Seq(Harmless)
  <2>1. <<Call("close", 0), Call("close", 1)>> \in Seq(Harmless) /\ <<Done("")>> \in Seq(Harmless)
    <3>1. Call("close", 0) \in Harmless /\ Call("close", 1) \in Harmless
      BY HarmlessAnyway
    <3>2. Done("") \in Harmless
      BY HarmlessCalls
    <3> QED
      BY <3>1, <3>2, ThreeSeq
  <2>2. /\ Each("close", "-1") \in Seq(Harmless) /\ Each("read", "-1") \in Seq(Harmless)
        /\ Each("write", "-1") \in Seq(Harmless)
    BY HarmlessEach
  <2> DEFINE a == <<Call("close", 0), Call("close", 1)>>
             b == Each("close", "-1")
             c == Each("read", "-1")
             d == Each("write", "-1")
             e == <<Done("")>>
             S == Seq(Harmless)
  <2>3. a \in S /\ b \in S /\ c \in S /\ d \in S /\ e \in S /\ err_unopened = a \o b \o c \o d \o e
    BY <2>1, <2>2 DEF err_unopened
  <2>4. \A x, y \in S : x \o y \in S
    OBVIOUS
  <2> HIDE DEF a, b, c, d, e, S
  <2>5. a \o b \o c \o d \o e \in S
    BY <2>3, <2>4
  <2> QED
    BY <2>3, <2>5 DEF S
<1>6. err_vidmap \in Seq(Harmless)
  <2>1. Call("vidmap", 0) \in Harmless /\ Call("vidmap", 1) \in Harmless
    BY HarmlessAnyway
  <2>2. Done("") \in Harmless
    BY HarmlessCalls
  <2> QED
    BY <2>1, <2>2, ThreeSeq DEF err_vidmap
<1>7. err_syscall_num \in Seq(Harmless)
  <2>1. \A x \in {0, 1, 2} : Call("none", x) \in Harmless
    BY HarmlessAnyway
  <2>2. Done("") \in Harmless
    BY HarmlessCalls
  <2> QED
    BY <2>1, <2>2, FourSeq DEF err_syscall_num
<1>8. <<Done("")>> \in Seq(Harmless)
  BY HarmlessCalls, ThreeSeq
<1>9. s \in {1, 2, 4, 5, 6, 8, 9}
  BY DEF Chosen
<1>10. /\ Script[1] = err_fd(NEG_FD) /\ Script[2] = err_fd(BIG_FD) /\ Script[4] = err_open
       /\ Script[5] = err_unopened /\ Script[6] = err_vidmap /\ Script[8] = err_syscall_num
       /\ Script[9] = <<Done("")>>
  BY DEF Script
<1> QED
  BY <1>3, <1>4, <1>5, <1>6, <1>7, <1>8, <1>9, <1>10

(* The test that opens until it fails                                      *)
LotsCall(c, i) ==
  /\ i < MAX_FD => c.call = "open" /\ c.name = "." /\ c.want = "count"
  /\ i >= MAX_FD => c.want \in {"", "one"}
  /\ c.want = "one" => i > MAX_FD

LEMMA LotsCalls ==
  /\ err_open_lots \in Seq(Calls)
  /\ \A i \in 1..Len(err_open_lots) : LotsCall(err_open_lots[i], i)
<1> DEFINE N == MAX_FD - 1
           a == [i \in 1..N |-> Try(".", "count")]
           b == Each("close", "")
           c == <<Done("one")>>
<1>1. N \in Nat \ {0, 1} /\ MAX_FD - 2 = N - 1 /\ MAX_FD = N + 1
  BY FilesAssumption
<1>2. /\ Try(".", "count") \in Calls /\ Try(".", "count").call = "open"
      /\ Try(".", "count").name = "." /\ Try(".", "count").want = "count"
  <2>1. "." \in OpenNames /\ "count" \in Wants
    BY DEF OpenNames, Wants
  <2> QED
    BY <2>1, TryFields
<1>3. a \in Seq(Calls) /\ Len(a) = N /\ \A i \in 1..N : a[i] = Try(".", "count")
  BY <1>1, <1>2
<1>4. b \in Seq(Calls) /\ Len(b) = N - 1 /\ \A i \in 1..(N - 1) : b[i].want = ""
  <2>1. "close" \in CallNames /\ "" \in Wants
    BY DEF CallNames, Wants
  <2>2. ASSUME NEW i \in 1..(MAX_FD - 2) PROVE b[i] \in Calls /\ b[i].want = ""
    <3>1. Each("close", "")[i] \in Calls /\ Each("close", "")[i].want = ""
      <4>1. \A x \in CallNames, w \in Wants :
              Each(x, w)[i] \in Calls /\ Each(x, w)[i].want = w
        BY EachFields
      <4> QED
        BY <2>1, <4>1, Zenon
    <3> QED
      BY <3>1
  <2>3. b = [i \in 1..(MAX_FD - 2) |-> b[i]]
    BY DEF Each
  <2>4. N - 1 \in Nat /\ MAX_FD - 2 = N - 1
    BY <1>1
  <2> HIDE DEF b, N
  <2>5. b = [i \in 1..(N - 1) |-> b[i]] /\ \A i \in 1..(N - 1) : b[i] \in Calls
    BY <2>2, <2>3, <2>4
  <2>6. b \in Seq(Calls) /\ Len(b) = N - 1
    BY <2>4, <2>5
  <2> QED
    BY <2>2, <2>4, <2>6
<1>5. c \in Seq(Calls) /\ Len(c) = 1 /\ c[1].want = "one"
  <2>1. "one" \in Wants
    BY DEF Wants
  <2> QED
    BY <2>1, DoneFields
<1>6. err_open_lots = a \o b \o c
  BY DEF err_open_lots
<1> HIDE DEF a, b, c, N
<1>7. /\ a \o b \in Seq(Calls) /\ Len(a \o b) = N + (N - 1)
      /\ \A i \in 1..(N + (N - 1)) : (a \o b)[i] = IF i <= N THEN a[i] ELSE b[i - N]
  <2>1. /\ a \o b \in Seq(Calls) /\ Len(a \o b) = Len(a) + Len(b)
        /\ \A i \in 1..(Len(a) + Len(b)) : (a \o b)[i] = IF i <= Len(a) THEN a[i] ELSE b[i - Len(a)]
    BY <1>3, <1>4, ConcatProperties, Zenon
  <2>2. Len(a) = N /\ Len(b) = N - 1
    BY <1>3, <1>4
  <2> QED
    BY <2>1, <2>2
<1> DEFINE d == a \o b
<1>8. d \in Seq(Calls) /\ Len(d) = 2 * N - 1
  BY <1>1, <1>7
<1>9. ASSUME NEW i \in 1..N PROVE d[i] = Try(".", "count")
  <2>1. i \in 1..(N + (N - 1)) /\ i <= N
    BY <1>1
  <2> QED
    BY <1>3, <1>7, <2>1
<1>10. ASSUME NEW i \in (N + 1)..(2 * N - 1) PROVE d[i].want = ""
  <2>1. i - N \in 1..(N - 1) /\ i \in 1..(N + (N - 1)) /\ ~(i <= N)
    BY <1>1
  <2> QED
    BY <1>4, <1>7, <2>1
<1> HIDE DEF d
<1> DEFINE e == d \o c
<1>11. /\ e \in Seq(Calls) /\ Len(e) = Len(d) + Len(c)
       /\ \A i \in 1..(Len(d) + Len(c)) : e[i] = IF i <= Len(d) THEN d[i] ELSE c[i - Len(d)]
  BY <1>5, <1>8, ConcatProperties, Zenon
<1>12. err_open_lots = e
  BY <1>6 DEF d
<1> HIDE DEF e
<1>13. ASSUME NEW i \in 1..(2 * N) PROVE LotsCall(e[i], i)
  <2>1. N \in Int /\ N > 1 /\ MAX_FD = N + 1 /\ i \in Int
    BY <1>1
  <2>2. CASE i <= N
    <3>1. e[i] = Try(".", "count")
      BY <1>1, <1>5, <1>8, <1>9, <1>11, <2>2
    <3>2. ~(i >= MAX_FD)
      BY <2>1, <2>2
    <3>3. e[i].call = "open" /\ e[i].name = "." /\ e[i].want = "count"
      BY <1>2, <3>1
    <3> QED
      BY <3>2, <3>3 DEF LotsCall
  <2>3. CASE i \in (N + 1)..(2 * N - 1)
    <3>1. e[i].want = ""
      <4>1. i \in 1..(Len(d) + Len(c)) /\ i <= Len(d)
        BY <1>1, <1>5, <1>8, <2>3
      <4>2. e[i] = d[i]
        BY <1>11, <4>1
      <4> QED
        BY <1>10, <2>3, <4>2
    <3>2. i >= MAX_FD /\ ~(i < MAX_FD)
      BY <2>1, <2>3
    <3> QED
      BY <3>1, <3>2 DEF LotsCall
  <2>4. CASE i = 2 * N
    <3>1. e[i].want = "one"
      BY <1>1, <1>5, <1>8, <1>11, <2>4
    <3>2. i > MAX_FD /\ ~(i < MAX_FD)
      BY <2>1, <2>4
    <3> QED
      BY <3>1, <3>2 DEF LotsCall
  <2>5. i <= N \/ i \in (N + 1)..(2 * N - 1) \/ i = 2 * N
    BY <2>1
  <2> QED
    BY <2>2, <2>3, <2>4, <2>5
<1>14. Len(e) = 2 * N
  BY <1>1, <1>5, <1>8, <1>11
<1> QED
  BY <1>11, <1>12, <1>13, <1>14

(* What the calls do                                                       *)
LEMMA ReturnResult ==
  ASSUME NEW p \in Procs, NEW v, Return(p, v)
  PROVE  eax'[p] = v /\ mode' = mode
BY DEF Return, Store

LEMMA RefusedFails ==
  ASSUME ProcessesInv, NEW p \in Procs, Opened(p, 0), NEW c, Refused(c), Make(p, c)
  PROVE  file_array' = file_array /\ mode' = mode /\ eax'[p] = -1
<1>1. Return(p, -1) /\ UNCHANGED file_array
  <2>1. ASSUME NEW fd \in Int, fd \notin {0, 1} PROVE Bad(p, fd)
    BY FilesAssumption, <2>1 DEF Bad, Opened, Fds
  <2>2. c.fd \in Int
    BY DEF Refused, Calls
  <2>3. CASE c.call = "read" /\ c.fd \notin {0, 1}
    BY <2>1, <2>2, <2>3 DEF Make, read, files
  <2>4. CASE c.call = "write" /\ c.fd \notin {0, 1}
    BY <2>1, <2>2, <2>4 DEF Make, write, files
  <2>5. CASE c.call = "close"
    BY <2>1, <2>2, <2>5 DEF Make, close
  <2>6. CASE c.call = "vidmap" \/ c.call = "none"
    BY <2>6 DEF Make, vidmap, NoSuchCall, files
  <2>7. CASE c.call = "open" /\ Named(c.name) = {}
    BY <2>7 DEF Make, open, files
  <2> QED
    BY <2>3, <2>4, <2>5, <2>6, <2>7 DEF Refused
<1> QED
  BY <1>1, ReturnResult

LEMMA HarmlessFails ==
  ASSUME ProcessesInv, NEW p \in Procs, Opened(p, 0), NEW c \in Harmless, Make(p, c)
  PROVE  /\ file_array' = file_array
         /\ c.want = "-1" => mode' = mode /\ eax'[p] = -1
<1>1. CASE Refused(c)
  BY <1>1, RefusedFails
<1>2. CASE c.call = "puts" /\ c.want = ""
  BY <1>2 DEF Make, Puts, write, files
<1> QED
  BY <1>1, <1>2 DEF Harmless

LEMMA OpenNext ==
  ASSUME ProcessesInv, Present, NEW p \in Procs, NEW m \in 0..(MAX_FD - 2), Opened(p, m),
         open(p, ".")
  PROVE  Opened(p, m + 1)' /\ mode' = mode /\ (eax'[p] = -1 <=> m + 1 = MAX_FD - 1)
<1>1. MAX_FD \in Nat /\ MAX_FD > 2 /\ m \in Nat
  BY FilesAssumption
<1>2. FreeFds(p) = (m + 2)..(MAX_FD - 1)
  BY <1>1 DEF FreeFds, Opened
<1>3. CASE m = MAX_FD - 2
  <2>1. FreeFds(p) = {}
    BY <1>1, <1>2, <1>3
  <2>2. Return(p, -1) /\ UNCHANGED files
    BY <2>1 DEF open
  <2>3. Opened(p, m + 1)'
    BY <1>1, <1>3, <2>2 DEF files, Opened
  <2> QED
    BY <1>1, <1>3, <2>2, <2>3, ReturnResult
<1>4. CASE m # MAX_FD - 2
  <2>1. FreeFds(p) # {} /\ Named(".") # {}
    <3>1. m + 2 \in (m + 2)..(MAX_FD - 1)
      BY <1>1, <1>4
    <3> QED
      BY <1>2, <3>1 DEF Present
  <2>2. PICK i \in Named(".") : i = Lowest(Named("."))
    <3>1. \E i \in Named(".") : \A j \in Named(".") : i <= j
      BY <2>1, NamesAssumption, EntryTypes DEF Named
    <3> QED
      BY <3>1 DEF Lowest
  <2>3. Directory[i].type # "none"
    BY EntryTypes, <2>2 DEF Named
  <2>4. PICK fd \in FreeFds(p) :
          /\ \A g \in FreeFds(p) : fd <= g
          /\ file_array' = [file_array EXCEPT ![p][fd] = [ops |-> Directory[i].type, inode |-> i, pos |-> 0]]
          /\ Return(p, fd)
    BY <2>1, <2>2 DEF open
  <2>5. fd = m + 2
    BY <1>1, <1>2, <1>4, <2>4
  <2>6. /\ file_array'[p][fd].ops = Directory[i].type
        /\ \A g \in Fds \ {fd} : file_array'[p][g] = file_array[p][g]
    <3>1. DOMAIN file_array = Procs /\ DOMAIN file_array[p] = Fds /\ fd \in Fds
      BY <1>1, <1>2, <2>4 DEF ProcessesInv, DescriptorsInv, Fds
    <3> QED
      BY <2>4, <3>1
  <2>7. Opened(p, m + 1)'
    <3> SUFFICES ASSUME NEW g \in 2..(MAX_FD - 1)
                 PROVE  file_array'[p][g].ops = "none" <=> g >= m + 3
      BY <1>1 DEF Opened
    <3>1. CASE g = fd
      BY <1>1, <2>3, <2>5, <2>6, <3>1
    <3>2. CASE g # fd
      <4>1. g \in Fds \ {fd}
        BY <1>1, <3>2 DEF Fds
      <4>2. g >= m + 2 <=> g >= m + 3
        BY <1>1, <2>5, <3>2
      <4> QED
        BY <2>6, <4>1, <4>2 DEF Opened
    <3> QED
      BY <3>1, <3>2
  <2>8. eax'[p] = fd /\ mode' = mode
    BY <2>4, ReturnResult
  <2> QED
    BY <1>1, <1>4, <2>5, <2>7, <2>8
<1> QED
  BY <1>3, <1>4

(* No other program has a bad test.                                        *)
LEMMA OnlySyserrFails ==
  ASSUME LocalsInv, NEW p \in Procs, Program(p), st[p].prog # "syserr"
  PROVE  st'[p].bad = st[p].bad
<1>1. DOMAIN st = Procs /\ DOMAIN st[p] = Locals /\ DOMAIN st[p].fds = {1, 2}
  BY DEF LocalsInv
<1>2. ASSUME \/ UNCHANGED st
             \/ \E l : st' = [st EXCEPT ![p].at = l]
             \/ \E l, x : st' = [st EXCEPT ![p].at = l, ![p].status = x]
             \/ \E l, x : st' = [st EXCEPT ![p].at = l, ![p].fds[1] = x]
             \/ \E l, x : st' = [st EXCEPT ![p].at = l, ![p].fds[2] = x]
             \/ \E l, x : st' = [st EXCEPT ![p].at = l, ![p].out = x]
      PROVE  st'[p].bad = st[p].bad
  <2>1. ASSUME NEW l, st' = [st EXCEPT ![p].at = l] PROVE st'[p].bad = st[p].bad
    BY <1>1, <2>1 DEF Locals
  <2>2. ASSUME NEW l, NEW x, \/ st' = [st EXCEPT ![p].at = l, ![p].status = x]
                            \/ st' = [st EXCEPT ![p].at = l, ![p].out = x]
        PROVE  st'[p].bad = st[p].bad
    BY <1>1, <2>2 DEF Locals
  <2>3. ASSUME NEW l, NEW x, \/ st' = [st EXCEPT ![p].at = l, ![p].fds[1] = x]
                            \/ st' = [st EXCEPT ![p].at = l, ![p].fds[2] = x]
        PROVE  st'[p].bad = st[p].bad
    BY <1>1, <2>3 DEF Locals
  <2> QED
    BY <1>2, <2>1, <2>2, <2>3, Zenon
<1>3. ASSUME NEW s, Finish(p, s) \/ Fail(p, s) PROVE st'[p].bad = st[p].bad
  BY <1>2, <1>3 DEF Finish, Fail
<1>4. ASSUME NEW l, Goto(p, l) PROVE st'[p].bad = st[p].bad
  BY <1>2, <1>4 DEF Goto
<1>5. ASSUME NEW f, NEW l, ReadNext(p, f, l) PROVE st'[p].bad = st[p].bad
  BY <1>2, <1>5 DEF ReadNext
<1>6. ASSUME NEW f, ReadFile(p, f) PROVE st'[p].bad = st[p].bad
  BY <1>2, <1>6 DEF ReadFile
<1>7. CASE Shell(p) \/ Cat(p) \/ Ls(p)
  BY <1>3, <1>4, <1>7 DEF Shell, Cat, Ls, OpenDir
<1>8. CASE CatLs(p)
  <2>1. CASE st' = [st EXCEPT ![p].at = "wrote", ![p].out = More(p)]
    BY <1>2, <2>1
  <2> QED
    BY <1>3, <1>5, <1>8, <2>1 DEF CatLs
<1>9. CASE Grep(p)
  <2>1. CASE st' = [st EXCEPT ![p].at = "file", ![p].out = More(p)]
    BY <1>2, <2>1
  <2>2. CASE UNCHANGED st
    BY <1>2, <2>2
  <2> QED
    BY <1>3, <1>4, <1>5, <1>6, <1>9, <2>1, <2>2 DEF Grep, OpenDir
<1>10. CASE Pingpong(p)
  <2>1. CASE st' = [st EXCEPT ![p].at = "draw", ![p].fds[1] = eax[p]]
    BY <1>2, <2>1
  <2> QED
    BY <1>4, <1>10, <2>1 DEF Pingpong
<1>11. ~Syserr(p)
  BY DEF Syserr, At
<1> QED
  BY <1>7, <1>8, <1>9, <1>10, <1>11 DEF Program

(* The calls of the test that opens until it fails                         *)
LEMMA FillingGoes ==
  ASSUME ProcessesInv, Present, NEW p \in Procs, SyserrInv, st[p].prog = "syserr",
         st[p].at = "test", st[p].sel = 3, mode[p] = "user", Left(p), ~Wrong(p),
         NEW c, c = Tests(p)[st[p].k], Make(p, c),
         st' = [st EXCEPT ![p].at = "test", ![p].k = @ + 1, ![p].cnt = @ + Failed(p),
                          ![p].bad = @ \/ (c.want = "one" /\ st[p].cnt # 1)]
  PROVE  SyserrAt(p)' /\ ~st'[p].bad
<1>1. st[p].k \in 1..(Len(Tests(p)) + 1) /\ Filling(p, st[p].k - 1) /\ ~st[p].bad
  BY DEF SyserrInv, SyserrAt, TestAt
<1>2. /\ Tests(p) = err_open_lots /\ Len(Tests(p)) \in Nat
      /\ \A i \in 1..Len(Tests(p)) : LotsCall(Tests(p)[i], i)
  <2>1. Script[3] = err_open_lots
    BY DEF Script
  <2>2. Tests(p) = err_open_lots
    BY <2>1 DEF Tests
  <2> QED
    BY <2>2, LotsCalls
<1>3. MAX_FD \in Nat /\ MAX_FD > 2
  BY FilesAssumption
<1>4. st[p].k - 1 \in Nat /\ st[p].k \in Nat
  BY <1>1, <1>2
<1>5. PICK m \in Nat : m = st[p].k - 1
  BY <1>4
<1>6. Filling(p, m) /\ ~st[p].bad
  BY <1>1, <1>5
<1>7. st[p].k = m + 1 /\ m + 1 \in 1..Len(Tests(p)) /\ m + 2 \in 1..(Len(Tests(p)) + 1)
  BY SMTT(30), <1>1, <1>4, <1>5, <1>2 DEF Left
<1>8. LotsCall(c, m + 1)
  BY <1>2, <1>7
<1>9. st'[p].at = "test" /\ st'[p].sel = 3 /\ st'[p].k = m + 2 /\ Tests(p)' = Tests(p)
  BY <1>7 DEF ProcessesInv, LocalsInv, Locals, Tests
<1>10. /\ st'[p].cnt = st[p].cnt + Failed(p)
      /\ st'[p].bad = (st[p].bad \/ (c.want = "one" /\ st[p].cnt # 1))
  BY DEF ProcessesInv, LocalsInv, Locals
<1>11. Before(p) = IF m = 0 THEN Done("") ELSE Tests(p)[m]
  <2>1. st[p].k - 1 = m /\ (st[p].k = 1 <=> m = 0)
    BY <1>4, <1>5
  <2> QED
    BY <2>1, Zenon DEF Before
<1>12. m # 0 => m \in 1..Len(Tests(p))
  BY <1>2, <1>7
<1>13. Failed(p) = IF m = MAX_FD - 1 THEN 1 ELSE 0
  <2>1. CASE m = 0
    <3>1. Before(p) = Done("")
      BY <1>11, <2>1
    <3>2. Done("").want = ""
      BY DEF Done
    <3>3. "" # "count"
      OBVIOUS
    <3>4. Before(p).want # "count"
      BY <3>1, <3>2, <3>3, Zenon
    <3>5. m # MAX_FD - 1
      BY <1>3, <2>1
    <3> QED
      BY <3>5, <3>4 DEF Failed
  <2>2. CASE m \in 1..(MAX_FD - 1)
    <3>1. m # 0 /\ m < MAX_FD
      BY <1>3, <2>2
    <3>2. Before(p).want = "count"
      BY <1>2, <1>11, <1>12, <3>1 DEF LotsCall
    <3>3. eax[p] = -1 <=> m = MAX_FD - 1
      BY <1>6, <2>2 DEF Filling
    <3> QED
      BY <3>2, <3>3 DEF Failed
  <2>3. CASE m >= MAX_FD
    <3>1. m # 0 /\ m # MAX_FD - 1
      BY <1>3, <2>3
    <3>2. Before(p).want # "count"
      BY <1>2, <1>11, <1>12, <2>3, <3>1 DEF LotsCall
    <3> QED
      BY <3>1, <3>2 DEF Failed
  <2> QED
    BY <1>3, <1>7, <2>1, <2>2, <2>3
<1>14. st'[p].cnt = IF m + 1 < MAX_FD THEN 0 ELSE 1
  <2>1. st[p].cnt = IF m < MAX_FD THEN 0 ELSE 1
    BY <1>6 DEF Filling
  <2>2. st'[p].cnt = st[p].cnt + Failed(p)
    BY <1>10
  <2> QED
    BY <1>3, <1>13, <2>1, <2>2
<1>15. c.want = "one" => st[p].cnt = 1
  <2>1. c.want = "one" => m + 1 > MAX_FD
    BY <1>8 DEF LotsCall
  <2>2. m + 1 > MAX_FD => ~(m < MAX_FD)
    BY <1>3
  <2>3. st[p].cnt = IF m < MAX_FD THEN 0 ELSE 1
    BY <1>6 DEF Filling
  <2> QED
    BY <2>1, <2>2, <2>3
<1>16. CASE m + 1 < MAX_FD
  <2>1. m \in 0..(MAX_FD - 2) /\ m < MAX_FD
    BY <1>3, <1>7, <1>16
  <2>2. open(p, ".")
    BY <1>8, <1>16 DEF LotsCall, Make
  <2>3. Opened(p, m + 1)' /\ mode' = mode /\ (eax'[p] = -1 <=> m + 1 = MAX_FD - 1)
    BY <1>6, <2>1, <2>2, OpenNext DEF Filling
  <2>4. Filling(p, m + 1)'
    BY <1>14, <2>3 DEF Filling
  <2>5. TestAt(p)'
    <3>1. st'[p].k - 1 = m + 1
      BY <1>7, <1>9
    <3> QED
      BY <1>7, <1>9, <2>4, <3>1 DEF TestAt, Chosen
  <2> QED
    BY <1>6, <1>9, <1>10, <1>15, <2>5 DEF SyserrAt
<1>17. CASE m + 1 >= MAX_FD
  <2>1. Filling(p, m + 1)'
    BY <1>3, <1>7, <1>14, <1>17 DEF Filling
  <2>2. TestAt(p)'
    <3>1. st'[p].k - 1 = m + 1
      BY <1>7, <1>9
    <3> QED
      BY <1>7, <1>9, <2>1, <3>1 DEF TestAt, Chosen
  <2> QED
    BY <1>6, <1>9, <1>10, <1>15, <2>2 DEF SyserrAt
<1> QED
  BY <1>3, <1>7, <1>16, <1>17

(* The calls of the other tests                                            *)
LEMMA RefusingGoes ==
  ASSUME ProcessesInv, Present, NEW p \in Procs, SyserrInv, st[p].prog = "syserr",
         st[p].at = "test", st[p].sel # 3, mode[p] = "user", Left(p),
         NEW c, c = Tests(p)[st[p].k], Make(p, c),
         st' = [st EXCEPT ![p].at = "test", ![p].k = @ + 1, ![p].cnt = @ + Failed(p),
                          ![p].bad = @ \/ (c.want = "one" /\ st[p].cnt # 1)]
  PROVE  SyserrAt(p)' /\ ~st'[p].bad
<1>1. /\ st[p].sel \in Chosen \ {3} /\ st[p].k \in 1..(Len(Tests(p)) + 1)
      /\ Refusing(p, st[p].k - 1) /\ ~st[p].bad
  BY DEF SyserrInv, SyserrAt, TestAt
<1>2. Tests(p) \in Seq(Harmless)
  BY <1>1, OthersHarmless DEF Tests
<1>3. Len(Tests(p)) \in Nat
  BY <1>2
<1>4. st[p].k \in 1..Len(Tests(p)) /\ st[p].k + 1 \in 1..(Len(Tests(p)) + 1)
  BY <1>1, <1>3 DEF Left
<1>5. c \in Harmless
  BY <1>2, <1>4
<1>6. file_array' = file_array /\ (c.want = "-1" => mode' = mode /\ eax'[p] = -1)
  BY <1>1, <1>5, HarmlessFails DEF Refusing
<1>7. /\ st'[p].at = "test" /\ st'[p].sel = st[p].sel /\ st'[p].k = st[p].k + 1
      /\ Tests(p)' = Tests(p)
  BY <1>4 DEF ProcessesInv, LocalsInv, Locals, Tests
<1>8. ~st'[p].bad
  <2>1. st'[p].bad = (st[p].bad \/ (c.want = "one" /\ st[p].cnt # 1))
    BY DEF ProcessesInv, LocalsInv, Locals
  <2>2. c.want = "-1" \/ c.want = ""
    BY <1>5 DEF Harmless, Refused
  <2>3. c.want # "one"
    BY <2>2
  <2> QED
    BY <1>1, <2>1, <2>3
<1>9. PICK m \in Nat : m = st[p].k
  BY <1>4
<1>10. Tests(p)[m] = c
  BY <1>9
<1>11. Refusing(p, m)'
  <2>1. Opened(p, 0)'
    BY <1>1, <1>6 DEF Refusing, Opened
  <2>2. Tests(p)'[m] = c
    BY <1>7, <1>10
  <2>3. c.want = "-1" => mode'[p] = "user" /\ eax'[p] = -1
    BY <1>6
  <2> QED
    BY <2>1, <2>2, <2>3 DEF Refusing
<1>12. TestAt(p)'
  <2>1. st'[p].k - 1 = m
    BY <1>4, <1>7, <1>9
  <2> QED
    BY <1>1, <1>4, <1>7, <1>11, <2>1 DEF TestAt
<1> QED
  BY <1>7, <1>8, <1>12 DEF SyserrAt

(* One step of syserr                                                      *)
LEMMA SyserrGoes ==
  ASSUME ProcessesInv, Present, Selections \subseteq Chosen, SyserrInv,
         NEW p \in Procs, st[p].prog = "syserr", Program(p)
  PROVE  SyserrAt(p)' /\ ~st'[p].bad
<1>1. /\ DOMAIN st = Procs /\ DOMAIN st[p] = Locals /\ SyserrAt(p) /\ ~st[p].bad
      /\ StandardDescriptors
  BY DEF ProcessesInv, LocalsInv, DescriptorsInv, SyserrInv
<1>2. Syserr(p)
  BY DEF Program, Shell, Cat, Ls, CatLs, Lists, Grep, Pingpong, At
<1>3. ASSUME NEW s, Finish(p, s) \/ Fail(p, s) PROVE SyserrAt(p)' /\ ~st'[p].bad
  <2>1. st' = [st EXCEPT ![p].at = "return", ![p].status = s]
    BY <1>3 DEF Finish, Fail
  <2>2. st'[p].at = "return" /\ st'[p].bad = st[p].bad
    BY <1>1, <2>1 DEF Locals
  <2> QED
    BY <1>1, <2>2 DEF SyserrAt
<1>4. ASSUME st[p].at \in {"start", "choose"}, UNCHANGED file_array,
             Goto(p, "choose") \/ Goto(p, "chosen")
      PROVE  SyserrAt(p)' /\ ~st'[p].bad
  <2>1. Opened(p, 0) /\ st[p].k = 1 /\ st[p].cnt = 0
    BY <1>1, <1>4 DEF SyserrAt
  <2>2. Opened(p, 0)'
    BY <1>4, <2>1 DEF Opened
  <2>3. PICK l \in {"choose", "chosen"} : st' = [st EXCEPT ![p].at = l]
    BY <1>4 DEF Goto
  <2>4. st'[p].at = l /\ st'[p].k = 1 /\ st'[p].cnt = 0 /\ st'[p].bad = st[p].bad
    BY <1>1, <2>1, <2>3 DEF Locals
  <2> QED
    BY <1>1, <2>2, <2>4 DEF SyserrAt
<1>5. CASE At(p, "syserr", "start") /\ Puts(p) /\ Goto(p, "choose")
  BY <1>4, <1>5 DEF At, Puts, write, files
<1>6. CASE At(p, "syserr", "choose") /\ read(p, 0, 127) /\ Goto(p, "chosen")
  <2>1. file_array[p][0] = Terminal /\ 0 \in Fds /\ Terminal.ops = "term"
    BY <1>1, ZeroOne DEF StandardDescriptors
  <2>2. UNCHANGED file_array
    BY <1>6, <2>1 DEF read, read_term, Bad, files
  <2> QED
    BY <1>4, <1>6, <2>2 DEF At
<1>7. ASSUME At(p, "syserr", "chosen"), UNCHANGED <<rtc, files, calls>>, NEW s \in Selections,
             st' = [st EXCEPT ![p].at = "test", ![p].sel = s]
      PROVE  SyserrAt(p)' /\ ~st'[p].bad
  <2>1. Opened(p, 0) /\ st[p].k = 1 /\ st[p].cnt = 0
    BY <1>1, <1>7 DEF SyserrAt, At
  <2>2. Opened(p, 0)'
    BY <1>7, <2>1 DEF Opened, files
  <2>3. /\ st'[p].at = "test" /\ st'[p].sel = s /\ st'[p].k = 1 /\ st'[p].cnt = 0
        /\ st'[p].bad = st[p].bad
    BY <1>1, <1>7, <2>1 DEF Locals
  <2>4. Tests(p)' = Script[s] /\ s \in Chosen
    BY <2>3 DEF Tests
  <2>5. 1 \in 1..(Len(Script[s]) + 1)
    <3>1. Len(Script[s]) \in Nat
      <4>1. CASE s = 3
        BY <4>1, LotsCalls DEF Script
      <4>2. CASE s # 3
        BY <2>4, <4>2, OthersHarmless
      <4> QED
        BY <4>1, <4>2
    <3> QED
      BY <3>1
  <2>6. Filling(p, 0)' /\ Refusing(p, 0)'
    BY <2>2, <2>3, FilesAssumption DEF Filling, Refusing
  <2>7. TestAt(p)'
    BY <2>3, <2>4, <2>5, <2>6 DEF TestAt
  <2> QED
    BY <1>1, <2>3, <2>7 DEF SyserrAt
<1>8. ~Wrong(p)
  <2> SUFFICES ASSUME st[p].at = "test", Before(p).want = "-1" PROVE eax[p] = -1
    BY DEF Wrong
  <2>1. TestAt(p)
    BY <1>1 DEF SyserrAt
  <2>2. CASE st[p].k = 1
    <3>1. Before(p) = Done("")
      BY <2>2 DEF Before
    <3>2. Done("").want = ""
      BY DEF Done
    <3>3. "" # "-1"
      OBVIOUS
    <3> QED
      BY <3>1, <3>2, <3>3, Zenon
  <2>3. CASE st[p].k # 1 /\ st[p].sel = 3
    <3>1. Script[3] = err_open_lots
      BY DEF Script
    <3>2. Tests(p) = err_open_lots /\ Len(err_open_lots) \in Nat
      BY <2>3, <3>1, LotsCalls DEF Tests
    <3>3. st[p].k \in 1..(Len(err_open_lots) + 1)
      BY <2>1, <3>2 DEF TestAt
    <3>4. PICK m \in 1..Len(err_open_lots) : m = st[p].k - 1
      BY <2>3, <3>2, <3>3
    <3>5. Before(p) = err_open_lots[m] /\ LotsCall(err_open_lots[m], m)
      BY <2>3, <3>2, <3>4, LotsCalls DEF Before
    <3>6. err_open_lots[m].want # "-1"
      <4>1. m < MAX_FD \/ m >= MAX_FD
        BY <3>2, FilesAssumption
      <4>2. err_open_lots[m].want \in {"count", "", "one"}
        BY <3>5, <4>1 DEF LotsCall
      <4> QED
        BY <4>2
    <3> QED
      BY <3>5, <3>6
  <2>4. CASE st[p].k # 1 /\ st[p].sel # 3
    <3>1. Before(p) = Tests(p)[st[p].k - 1]
      BY <2>4 DEF Before
    <3>2. Refusing(p, st[p].k - 1) /\ st[p].k - 1 # 0
      <4>1. st[p].sel \in Chosen \ {3} /\ st[p].k \in 1..(Len(Tests(p)) + 1)
            /\ Refusing(p, st[p].k - 1)
        BY <2>1, <2>4 DEF TestAt
      <4>2. Len(Tests(p)) \in Nat
        BY <4>1, OthersHarmless DEF Tests
      <4> QED
        BY <2>4, <4>1, <4>2
    <3> QED
      BY <3>1, <3>2 DEF Refusing
  <2> QED
    BY <2>2, <2>3, <2>4
<1>9. st[p].at # "next" /\ (st[p].at = "test" => st[p].sel \in Chosen)
  BY <1>1 DEF SyserrAt, TestAt
<1>10. ASSUME At(p, "syserr", "test"), Left(p), NEW c, c = Tests(p)[st[p].k], Make(p, c),
              st' = [st EXCEPT ![p].at = "test", ![p].k = @ + 1, ![p].cnt = @ + Failed(p),
                               ![p].bad = @ \/ (c.want = "one" /\ st[p].cnt # 1)]
       PROVE  SyserrAt(p)' /\ ~st'[p].bad
  <2>1. st[p].at = "test" /\ mode[p] = "user"
    BY SMTT(30), <1>10 DEF At
  <2>2. CASE st[p].sel = 3
    BY <1>8, <1>10, <2>1, <2>2, FillingGoes
  <2>3. CASE st[p].sel # 3
    BY <1>10, <2>1, <2>3, RefusingGoes
  <2> QED
    BY <2>2, <2>3
<1>11. CASE /\ At(p, "syserr", "next") \/ (At(p, "syserr", "test") /\ ~Wrong(p))
            /\ Left(p)
            /\ LET c == Tests(p)[st[p].k] IN
               /\ Make(p, c)
               /\ st' = [st EXCEPT ![p].at = "test", ![p].k = @ + 1, ![p].cnt = @ + Failed(p),
                                   ![p].bad = @ \/ (c.want = "one" /\ st[p].cnt # 1)]
  <2>1. At(p, "syserr", "test")
    BY <1>9, <1>11 DEF At
  <2> QED
    BY <1>10, <1>11, <2>1
<1> QED
  BY <1>2, <1>3, <1>5, <1>6, <1>7, <1>8, <1>11 DEF Syserr

LEMMA SyserrNext ==
  ASSUME ProcessesInv, Present, Selections \subseteq Chosen, SyserrInv, [ProgramsNext]_vars
  PROVE  SyserrInv'
<1> SUFFICES ASSUME NEW p \in Procs
             PROVE  ~st'[p].bad /\ (st'[p].prog = "syserr" => SyserrAt(p)')
  BY DEF SyserrInv
<1>1. ~st[p].bad /\ (st[p].prog = "syserr" => SyserrAt(p))
  BY DEF SyserrInv
<1>2. Goes(p) \/ IsInCall(p) \/ Fresh(p) \/ Unnoticed(p) \/ IsShell(p)
  BY ProcessesNext DEF OneStep
<1>3. CASE Goes(p) /\ st[p].prog = "syserr"
  BY <1>3, SyserrGoes DEF Goes
<1>4. CASE Goes(p) /\ st[p].prog # "syserr"
  <2>1. LocalsInv /\ Program(p)
    BY <1>4 DEF Goes, ProcessesInv
  <2>2. st'[p].bad = st[p].bad
    BY <1>4, <2>1, OnlySyserrFails
  <2>3. st'[p].prog = st[p].prog
    BY <2>1, ProgramGoesOn DEF SameProgram
  <2> QED
    BY <1>1, <1>4, <2>2, <2>3
<1>5. CASE Fresh(p)
  <2>1. PICK pr, a : st'[p] = New(pr, a)
    BY <1>5 DEF Fresh
  <2>2. st'[p].k = 1 /\ st'[p].cnt = 0 /\ st'[p].bad = FALSE /\ st'[p].at = "start"
    <3>1. New(pr, a).k = 1 /\ New(pr, a).cnt = 0 /\ New(pr, a).bad = FALSE
      BY NewTest
    <3>2. New(pr, a).at = "start"
      BY NewLocals
    <3> QED
      BY <2>1, <3>1, <3>2
  <2>3. Opened(p, 0)'
    <3>1. file_array'[p] = NewFiles
      BY <1>5 DEF Fresh
    <3>2. \A fd \in 2..(MAX_FD - 1) : NewFiles[fd].ops = "none" /\ fd >= 0 + 2
      BY FilesAssumption DEF NewFiles, Unused, Fds
    <3> QED
      BY <3>1, <3>2 DEF Opened
  <2> QED
    BY <2>2, <2>3 DEF SyserrAt
<1>6. CASE IsShell(p)
  BY <1>1, <1>6 DEF IsShell
<1>7. CASE (IsInCall(p) \/ Unnoticed(p)) /\ st[p].prog = "syserr"
  <2>1. /\ st'[p] = st[p] /\ file_array'[p] = file_array[p]
        /\ mode[p] = "user" => mode'[p] = "user" /\ eax'[p] = eax[p]
    BY <1>7 DEF IsInCall, Unnoticed, files
  <2>2. Tests(p)' = Tests(p)
    BY <2>1 DEF Tests
  <2>3. ASSUME NEW n, Opened(p, n) PROVE Opened(p, n)'
    BY <2>1, <2>3 DEF Opened
  <2>4. ASSUME NEW m, Filling(p, m) PROVE Filling(p, m)'
    BY <2>1, <2>3, <2>4 DEF Filling
  <2>5. ASSUME NEW m, Refusing(p, m) PROVE Refusing(p, m)'
    BY <2>1, <2>2, <2>3, <2>5 DEF Refusing
  <2>6. TestAt(p) => TestAt(p)'
    BY <2>1, <2>2, <2>4, <2>5 DEF TestAt
  <2> QED
    BY <1>1, <1>7, <2>1, <2>3, <2>6 DEF SyserrAt
<1>8. CASE (IsInCall(p) \/ Unnoticed(p)) /\ st[p].prog # "syserr"
  BY <1>1, <1>8 DEF IsInCall, Unnoticed
<1> QED
  BY <1>2, <1>3, <1>4, <1>5, <1>6, <1>7, <1>8

(* Every test of syserr but the one of stdin and stdout passes on an image *)
(* without the files that must not be there, whatever the other terminals  *)
(* do: its calls return -1 because no descriptor of its own is open, and   *)
(* exactly one of the opens does because MAX_FD - 2 are free (open, close  *)
(* and the checks of read and write in system_calls.c; store_eax is shared,*)
(* but these calls leave IF clear).                                        *)
THEOREM SyserrCorrect ==
  ASSUME Present, Selections \subseteq Chosen
  PROVE  ProgramsSpec => []SyserrPasses
<1>1. ProgramsInit => SyserrInv
  <2>1. ProgramsInit => st = [p \in Procs |-> New("shell", "")]
    BY DEF ProgramsInit
  <2>2. New("shell", "").prog = "shell" /\ New("shell", "").bad = FALSE
    BY NewLocals, NewTest
  <2> QED
    BY <2>1, <2>2 DEF SyserrInv
<1>2. ProcessesInv /\ SyserrInv /\ [ProgramsNext]_vars => ProcessesInv' /\ SyserrInv'
  BY ProcessesNext, SyserrNext
<1>3. SyserrInv => SyserrPasses
  BY DEF SyserrInv, SyserrPasses
<1> QED
  BY <1>1, <1>2, <1>3, ProcessesInit, PTL DEF ProgramsSpec
=============================================================================
