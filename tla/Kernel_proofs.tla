--------------------------- MODULE Kernel_proofs ----------------------------
(***************************************************************************)
(* IInv (KernelInv) is an inductive invariant of Kernel in every execution *)
(* in which no interrupt hits execute, halt or the critical part of        *)
(* scheduling() (Undisturbed), for any number of terminals and PCB slots,  *)
(* and it implies the safety properties of Kernel.  First what the three   *)
(* ways of changing a kernel stack do (Push, Goto, Iret); then one lemma   *)
(* per action; then the theorems.                                          *)
(***************************************************************************)
EXTENDS KernelRefines, SequenceTheorems, TLAPS

-----------------------------------------------------------------------------
(* What the three ways of changing a kernel stack do.                      *)

(* Labels a frame can have, by the gate that pushed it.                    *)
Fits(irq, l) == /\ irq => l \notin {"win", "eax", "haltret", "wait", "stuck"}
                /\ ~irq => l \notin {"pit", "switch", "back"}

(* Where an interrupt may find the kernel.                                 *)
Preemptible == {"win", "eax", "haltret", "pit", "back"}

OnlyStackOf(p) == \A q \in Slots : q # p => stk'[q] = stk[q]

(* Changing label and local of the innermost frame leaves the others.      *)
LEMMA SetTopEffect ==
  ASSUME TypeOK, Stacks, NEW p \in Slots, stk[p] # <<>>, NEW f \in Frame,
         f.irq = stk[p][1].irq, f.ifl = stk[p][1].ifl, Fits(f.irq, f.at),
         f.at = "wait" => f.arg \notin Base,
         stk' = [stk EXCEPT ![p] = [stk[p] EXCEPT ![1] = f]]
  PROVE  /\ stk' \in [Slots -> Seq(Frame)] /\ OnlyStackOf(p)
         /\ stk'[p] # <<>> /\ stk'[p][1] = f
         /\ Stacks'
<1> DEFINE s == stk[p]
<1>1. s \in Seq(Frame) /\ Len(s) \in Nat \ {0} /\ 1 \in 1..Len(s)
  BY EmptySeq, LenProperties DEF TypeOK
<1>2. /\ [s EXCEPT ![1] = f] \in Seq(Frame)
      /\ Len([s EXCEPT ![1] = f]) = Len(s)
      /\ \A j \in 1..Len(s) : [s EXCEPT ![1] = f][j] = IF j = 1 THEN f ELSE s[j]
  BY <1>1, ExceptSeq
<1>3. stk' \in [Slots -> Seq(Frame)] /\ OnlyStackOf(p) /\ stk'[p] = [s EXCEPT ![1] = f]
  BY <1>2 DEF TypeOK, OnlyStackOf
<1>4. stk'[p] # <<>> /\ stk'[p][1] = f
  BY <1>1, <1>2, <1>3, EmptySeq
<1>5. Stacks'
  <2> SUFFICES ASSUME NEW q \in Slots, NEW i \in 1..Len(stk'[q])
               PROVE  LET g == stk'[q][i] IN
                      /\ i < Len(stk'[q]) => g.irq /\ g.ifl
                      /\ i > 1 => g.at \in Preemptible
                      /\ Fits(g.irq, g.at)
                      /\ g.at = "wait" => g.arg \notin Base
    BY DEF Stacks, Fits, Preemptible
  <2>1. CASE q # p
    <3>1. stk'[q] = stk[q]
      BY <2>1, <1>3 DEF OnlyStackOf
    <3> QED
      BY <3>1 DEF Stacks, Fits, Preemptible
  <2>2. CASE q = p
    <3>1. i \in 1..Len(s) /\ Len(stk'[q]) = Len(s)
      BY <2>2, <1>2, <1>3
    <3>2. CASE i = 1
      BY <3>1, <3>2, <2>2, <1>1, <1>4 DEF Stacks, Fits, Preemptible
    <3>3. CASE i # 1
      <4>1. stk'[q][i] = s[i]
        BY <3>1, <3>3, <2>2, <1>2, <1>3
      <4> QED
        BY <3>1, <4>1 DEF Stacks, Fits, Preemptible
    <3> QED
      BY <3>2, <3>3
  <2> QED
    BY <2>1, <2>2
<1> QED
  BY <1>3, <1>4, <1>5

(* Pushing a frame; in user mode the stack starts anew.                    *)
LEMMA PushEffect ==
  ASSUME TypeOK, Stacks, NEW p \in Slots, NEW s \in Seq(Frame), NEW f \in Frame,
         Fits(f.irq, f.at), f.at # "wait",
         \/ s = <<>>
         \/ s = stk[p] /\ s # <<>> /\ f.irq /\ f.ifl /\ s[1].at \in Preemptible,
         stk' = [stk EXCEPT ![p] = <<f>> \o s]
  PROVE  /\ stk' \in [Slots -> Seq(Frame)] /\ OnlyStackOf(p)
         /\ stk'[p] # <<>> /\ stk'[p][1] = f
         /\ Stacks'
<1>1. /\ <<f>> \in Seq(Frame) /\ Len(<<f>>) = 1
      /\ s \in Seq(Frame) /\ Len(s) \in Nat
  BY LenProperties
<1>2. /\ <<f>> \o s \in Seq(Frame)
      /\ Len(<<f>> \o s) = 1 + Len(s)
      /\ \A i \in 1..(1 + Len(s)) : (<<f>> \o s)[i] = IF i <= 1 THEN <<f>>[i] ELSE s[i - 1]
  BY <1>1, ConcatProperties
<1>3. stk' \in [Slots -> Seq(Frame)] /\ OnlyStackOf(p) /\ stk'[p] = <<f>> \o s
  BY <1>2 DEF TypeOK, OnlyStackOf
<1>4. stk'[p] # <<>> /\ stk'[p][1] = f
  BY <1>1, <1>2, <1>3, EmptySeq
<1>5. Stacks'
  <2> SUFFICES ASSUME NEW q \in Slots, NEW i \in 1..Len(stk'[q])
               PROVE  LET g == stk'[q][i] IN
                      /\ i < Len(stk'[q]) => g.irq /\ g.ifl
                      /\ i > 1 => g.at \in Preemptible
                      /\ Fits(g.irq, g.at)
                      /\ g.at = "wait" => g.arg \notin Base
    BY DEF Stacks, Fits, Preemptible
  <2>1. CASE q # p
    <3>1. stk'[q] = stk[q]
      BY <2>1, <1>3 DEF OnlyStackOf
    <3> QED
      BY SMTT(30), <3>1 DEF Stacks, Fits, Preemptible
  <2>2. CASE q = p
    <3>1. i \in 1..(1 + Len(s)) /\ Len(stk'[q]) = 1 + Len(s)
      BY <2>2, <1>2, <1>3
    <3>2. CASE i = 1
      <4>1. s # <<>> => Len(s) > 0
        BY EmptySeq
      <4>2. s = <<>> => Len(s) = 0
        OBVIOUS
      <4> QED
        BY <3>1, <3>2, <2>2, <1>1, <1>4, <4>1, <4>2
    <3>3. CASE i # 1
      <4>1. s = stk[p] /\ i - 1 \in 1..Len(s)
        BY <3>1, <3>3, <1>1
      <4>2. stk'[q][i] = s[i - 1]
        BY <3>1, <3>3, <2>2, <1>2, <1>3
      <4>3. i - 1 > 1 => s[i - 1].at \in Preemptible
        BY <4>1 DEF Stacks, Fits, Preemptible
      <4>4. i - 1 = 1 => s[i - 1].at \in Preemptible
        BY <4>1
      <4> QED
        BY <3>1, <3>3, <4>1, <4>2, <4>3, <4>4, <1>1 DEF Stacks, Fits, Preemptible
    <3> QED
      BY <3>2, <3>3
  <2> QED
    BY SMTT(30), <2>1, <2>2
<1> QED
  BY <1>3, <1>4, <1>5

(* iret: the frame below, if there is one, was interrupted with IF set.    *)
LEMMA IretEffect ==
  ASSUME TypeOK, Stacks, ~InUser, Iret
  PROVE  /\ stk' \in [Slots -> Seq(Frame)] /\ OnlyStackOf(esp)
         /\ Stacks' /\ iflag' \in BOOLEAN
         /\ stk'[esp] # <<>> =>
              /\ Top.irq /\ iflag'
              /\ stk'[esp][1] \in Frame
              /\ stk'[esp][1].at \in Preemptible
              /\ Fits(stk'[esp][1].irq, stk'[esp][1].at)
<1> DEFINE s == stk[esp]
<1>1. /\ esp \in Slots /\ s \in Seq(Frame) /\ s # <<>>
      /\ Len(s) \in Nat \ {0} /\ s[1] \in Frame
  BY EmptySeq, ElementOfSeq DEF TypeOK, InUser
<1>2. /\ Tail(s) \in Seq(Frame)
      /\ Len(Tail(s)) = Len(s) - 1
      /\ \A i \in 1..Len(Tail(s)) : Tail(s)[i] = s[i + 1]
  BY <1>1, HeadTailProperties
<1>3. stk' \in [Slots -> Seq(Frame)] /\ OnlyStackOf(esp) /\ stk'[esp] = Tail(s)
  BY <1>1, <1>2 DEF TypeOK, OnlyStackOf, Iret
<1>4. iflag' = s[1].ifl /\ iflag' \in BOOLEAN
  BY <1>1 DEF Iret, Top, Frame
<1>5. Stacks'
  <2> SUFFICES ASSUME NEW q \in Slots, NEW i \in 1..Len(stk'[q])
               PROVE  LET g == stk'[q][i] IN
                      /\ i < Len(stk'[q]) => g.irq /\ g.ifl
                      /\ i > 1 => g.at \in Preemptible
                      /\ Fits(g.irq, g.at)
                      /\ g.at = "wait" => g.arg \notin Base
    BY DEF Stacks, Fits, Preemptible
  <2>1. CASE q # esp
    <3>1. stk'[q] = stk[q]
      BY <2>1, <1>3 DEF OnlyStackOf
    <3> QED
      BY <3>1 DEF Stacks, Fits, Preemptible
  <2>2. CASE q = esp
    <3>1. /\ i \in 1..Len(Tail(s)) /\ stk'[q][i] = s[i + 1]
          /\ Len(stk'[q]) = Len(s) - 1
          /\ i + 1 \in 1..Len(s) /\ i + 1 > 1
      BY <2>2, <1>1, <1>2, <1>3
    <3> QED
      BY <3>1, <1>1 DEF Stacks, Fits, Preemptible
  <2> QED
    BY <2>1, <2>2
<1>6. PICK t \in Seq(Frame) : t = stk'[esp]
  BY <1>2, <1>3
<1>7. Len(t) = Len(s) - 1 /\ \A i \in 1..Len(t) : t[i] = s[i + 1]
  BY <1>2, <1>3, <1>6
<1>8. ASSUME t # <<>>
      PROVE  /\ Top.irq /\ iflag'
             /\ t[1] \in Frame
             /\ t[1].at \in Preemptible
             /\ Fits(t[1].irq, t[1].at)
  <2>1. Len(t) \in Nat \ {0}
    BY <1>8, EmptySeq
  <2>2. Len(s) \in Nat \ {0} /\ Len(t) = Len(s) - 1
    BY <1>1, <1>7
  <2>3. ASSUME NEW m \in Nat \ {0}, NEW n \in Nat \ {0}, m = n - 1
        PROVE  1 \in 1..m /\ 1 \in 1..n /\ 1 < n /\ 2 \in 1..n
    BY <2>3
  <2>4. 1 \in 1..Len(t) /\ 1 \in 1..Len(s) /\ 1 < Len(s) /\ 2 \in 1..Len(s)
    BY <2>1, <2>2, <2>3
  <2>5. t[1] = s[2] /\ s[2] \in Frame
    BY <2>4, <1>1, <1>7, ElementOfSeq
  <2> QED
    BY <2>4, <2>5, <1>1, <1>4 DEF Stacks, Fits, Preemptible, Top
<1> QED
  BY <1>3, <1>4, <1>5, <1>8, <1>6

-----------------------------------------------------------------------------
(* Steps that touch neither the process table nor the scheduler's state.   *)

(* Where halt and execute are not half way, the bitmap is the live set.    *)
LEMMA LiveIsPCBs ==
  ASSUME TypeOK, InUser \/ Top.at \notin {"respawn", "create", "resched", "enlist"}
  PROVE  Live = PCBs
BY DEF Live, Doomed, Unborn, TypeOK

(* While no shell is being launched term_num counts the launched terminals.*)
LEMMA CountIsTermNum ==
  ASSUME InUser \/ ~Top.irq \/ Top.at \notin {"find", "create", "enlist"}
  PROVE  Count = term_num /\ ~Launching
BY DEF Count, Launching

(* In the settled points the running process is its terminal's.            *)
LEMMA RunningIsLeaf ==
  ASSUME TypeOK, Tree, Focus, InUser \/ Top.at \in Plain
  PROVE  /\ schedule_pcb[cur_term] = esp /\ page = esp /\ esp0 = esp
         /\ IsLeaf(esp) /\ cur_term < term_num /\ esp \in PCBs
         /\ Count = term_num /\ Live = PCBs
<1>1. Count = term_num /\ ~Launching /\ Live = PCBs
  BY CountIsTermNum, LiveIsPCBs DEF Plain
<1>2. schedule_pcb[cur_term] = esp /\ page = esp /\ esp0 = esp
  BY DEF Focus
<1>3. cur_term \in Terms /\ esp \in Slots /\ esp # NULL
  BY DEF TypeOK, Slots, NULL
<1>4. cur_term < Count
  BY <1>2, <1>3 DEF Tree
<1> QED
  BY <1>1, <1>2, <1>3, <1>4 DEF Tree, IsLeaf

(* A step that changes only the stack the CPU is on, from one preemptible  *)
(* point to another or into halt or execute, keeps the links and contexts. *)
LEMMA QuietStep ==
  ASSUME IInv, UNCHANGED <<PCBs, parent_pcb, sched, page, esp0, esp>>,
         InUser \/ Top.at \in Preemptible,
         OnlyStackOf(esp), Stacks',
         \/ stk'[esp] = <<>>
         \/ stk'[esp][1].at \in Preemptible
         \/ /\ term_num = NTERM
            /\ \/ stk'[esp][1].at = "halt"
               \/ stk'[esp][1].at = "find" /\ ~stk'[esp][1].irq
  PROVE  Tree' /\ Focus' /\ Saved' /\ Waits' /\ Live' = PCBs
<1>1. /\ schedule_pcb[cur_term] = esp /\ page = esp /\ esp0 = esp
      /\ IsLeaf(esp) /\ cur_term < term_num /\ esp \in PCBs
      /\ Count = term_num /\ Live = PCBs
  BY RunningIsLeaf DEF IInv, Plain, Preemptible
<1>2. InUser' \/ Top'.at \in Preemptible \cup {"halt", "find"}
  BY DEF InUser, Top
<1>3. /\ Count' = term_num /\ ~Launching'
      /\ Live' = PCBs
      /\ \A p : IsLeaf(p)' <=> IsLeaf(p)
  BY <1>2 DEF Count, Launching, InUser, Top, Live, Doomed, Unborn, IInv, TypeOK,
     Preemptible, sched, IsLeaf
<1>4. Tree'
  BY <1>1, <1>3 DEF IInv, Tree, sched, IsLeaf
<1>5. Focus'
  <2>1. /\ next_term' = (cur_term' + 1) % NTERM
        /\ Count' < NTERM => cur_term' = Count' - 1
    BY <1>1, <1>3, CountIsTermNum DEF IInv, Focus, sched, Preemptible
  <2>2. CASE InUser'
    BY <2>1, <2>2, <1>1 DEF Focus, sched
  <2>3. CASE ~InUser'
    <3>1. Top'.at \in Preemptible \cup {"halt", "find"} /\ Top' = stk'[esp][1]
      BY <1>2, <2>3 DEF InUser, Top
    <3> QED
      BY <2>1, <2>3, <3>1, <1>1, <1>3 DEF Focus, sched, Preemptible, Plain, InUser
  <2> QED
    BY <2>2, <2>3
<1>6. Saved'
  <2> SUFFICES ASSUME NEW t \in Terms, schedule_pcb[t] # NULL, schedule_pcb[t] # esp
               PROVE  stk'[schedule_pcb[t]] # <<>> /\ stk'[schedule_pcb[t]][1].at = "back"
    BY DEF Saved, sched
  <2>1. schedule_pcb[t] \in Slots
    BY DEF IInv, TypeOK
  <2>2. stk'[schedule_pcb[t]] = stk[schedule_pcb[t]]
    BY <2>1 DEF OnlyStackOf
  <2> QED
    BY <2>2 DEF Saved, IInv, Preemptible
<1>7. Waits'
  <2> SUFFICES ASSUME NEW q \in PCBs \ Base
               PROVE  LET s == stk'[parent_pcb[q]] IN s # <<>> /\ s[1].at = "wait" /\ s[1].arg = q
    BY <1>3 DEF Waits
  <2>1. parent_pcb[q] \in Slots /\ parent_pcb[q] # esp
    BY <1>1 DEF IInv, Tree, TypeOK
  <2>2. stk'[parent_pcb[q]] = stk[parent_pcb[q]]
    BY <2>1 DEF OnlyStackOf
  <2> QED
    BY <2>2, <1>1 DEF Waits, IInv, Preemptible
<1> QED
  BY <1>3, <1>4, <1>5, <1>6, <1>7

-----------------------------------------------------------------------------

(* In the kernel the innermost frame exists and is a frame.                *)
LEMMA TopInFrame ==
  ASSUME TypeOK, ~InUser
  PROVE  stk[esp] # <<>> /\ esp \in Slots /\ Top \in Frame /\ Top = stk[esp][1]
<1>1. esp \in Slots /\ stk[esp] \in Seq(Frame) /\ stk[esp] # <<>>
  BY DEF TypeOK, InUser
<1>2. 1 \in 1..Len(stk[esp])
  BY <1>1, EmptySeq
<1> QED
  BY <1>1, <1>2, ElementOfSeq DEF Top

(* Goto moves the running frame to another label.                          *)
LEMMA GotoEffect ==
  ASSUME TypeOK, Stacks, ~InUser, NEW l \in Labels, Goto(l), Fits(Top.irq, l), l # "wait"
  PROVE  /\ stk' \in [Slots -> Seq(Frame)] /\ OnlyStackOf(esp) /\ Stacks'
         /\ stk'[esp] # <<>> /\ stk'[esp][1] = [Top EXCEPT !.at = l]
         /\ stk'[esp][1].at = l /\ stk'[esp][1].irq = Top.irq /\ stk'[esp][1].arg = Top.arg
<1> DEFINE f == [Top EXCEPT !.at = l]
<1>1. /\ esp \in Slots /\ stk[esp] # <<>> /\ f \in Frame
      /\ f.irq = stk[esp][1].irq /\ f.ifl = stk[esp][1].ifl /\ f.at = l /\ f.arg = Top.arg
  BY TopInFrame DEF Frame
<1>2. stk' = [stk EXCEPT ![esp] = [stk[esp] EXCEPT ![1] = f]]
  BY DEF Goto, Top
<1>3. Fits(f.irq, f.at) /\ (f.at = "wait" => f.arg \notin Base)
  BY <1>1 DEF Top
<1> HIDE DEF f
<1>4. /\ stk' \in [Slots -> Seq(Frame)] /\ OnlyStackOf(esp)
      /\ stk'[esp] # <<>> /\ stk'[esp][1] = f /\ Stacks'
  BY <1>1, <1>2, <1>3, SetTopEffect
<1> QED
  BY <1>1, <1>4 DEF f, Top

(* GotoWith also sets its local.                                           *)
LEMMA GotoWithEffect ==
  ASSUME TypeOK, Stacks, ~InUser, NEW l \in Labels, NEW a \in Slots \cup {NULL},
         GotoWith(l, a), Fits(Top.irq, l), l # "wait"
  PROVE  /\ stk' \in [Slots -> Seq(Frame)] /\ OnlyStackOf(esp) /\ Stacks'
         /\ stk'[esp] # <<>>
         /\ stk'[esp][1].at = l /\ stk'[esp][1].irq = Top.irq /\ stk'[esp][1].arg = a
<1> DEFINE f == [Top EXCEPT !.at = l, !.arg = a]
<1>1. /\ esp \in Slots /\ stk[esp] # <<>> /\ f \in Frame
      /\ f.irq = stk[esp][1].irq /\ f.ifl = stk[esp][1].ifl /\ f.at = l /\ f.arg = a
  BY TopInFrame DEF Frame
<1>2. stk' = [stk EXCEPT ![esp] = [stk[esp] EXCEPT ![1] = f]]
  BY TopInFrame DEF GotoWith, TypeOK
<1>3. Fits(f.irq, f.at) /\ (f.at = "wait" => f.arg \notin Base)
  BY <1>1 DEF Top
<1> HIDE DEF f
<1>4. /\ stk' \in [Slots -> Seq(Frame)] /\ OnlyStackOf(esp)
      /\ stk'[esp] # <<>> /\ stk'[esp][1] = f /\ Stacks'
  BY <1>1, <1>2, <1>3, SetTopEffect
<1> QED
  BY <1>1, <1>4 DEF f, Top

(* A system call or an exception, from user mode.                          *)
LEMMA EnterEffect ==
  ASSUME IInv, InUser, NEW l \in Labels, NEW i \in BOOLEAN, NEW a \in Slots \cup {NULL},
         Push(l, i, a), Fits(i, l), l # "wait"
  PROVE  /\ esp' = esp /\ EntryStack = esp
         /\ stk' \in [Slots -> Seq(Frame)] /\ OnlyStackOf(esp) /\ Stacks'
         /\ stk'[esp] # <<>>
         /\ stk'[esp][1].at = l /\ stk'[esp][1].irq = i /\ stk'[esp][1].arg = a
<1> DEFINE f == [at |-> l, ifl |-> iflag, irq |-> i, arg |-> a]
<1>1. f \in Frame /\ f.irq = i /\ f.at = l /\ f.arg = a
  BY DEF Frame, IInv, TypeOK
<1>2. EntryStack = esp /\ Below = <<>> /\ esp' = esp /\ esp \in Slots
  BY DEF EntryStack, Below, IInv, Focus, Push, TypeOK
<1>3. stk' = [stk EXCEPT ![esp] = <<f>> \o <<>>]
  BY <1>2 DEF Push
<1>4. <<>> \in Seq(Frame)
  OBVIOUS
<1>5. Fits(f.irq, f.at) /\ f.at # "wait" /\ TypeOK /\ Stacks
  BY <1>1 DEF IInv
<1> HIDE DEF f
<1>6. /\ stk' \in [Slots -> Seq(Frame)] /\ OnlyStackOf(esp)
      /\ stk'[esp] # <<>> /\ stk'[esp][1] = f /\ Stacks'
  BY <1>1, <1>2, <1>3, <1>4, <1>5, PushEffect
<1> QED
  BY <1>1, <1>2, <1>6

(* An interrupt, from user mode or from a point of the kernel outside the  *)
(* critical sections; there the interrupted code had IF set.               *)
LEMMA InterruptEffect ==
  ASSUME IInv, CanInterrupt, ~Critical, NEW l \in Labels, Push(l, TRUE, NULL),
         Fits(TRUE, l), l # "wait"
  PROVE  /\ InUser \/ Top.at \in Preemptible
         /\ esp' = esp
         /\ stk' \in [Slots -> Seq(Frame)] /\ OnlyStackOf(esp) /\ Stacks'
         /\ stk'[esp] # <<>>
         /\ stk'[esp][1].at = l /\ stk'[esp][1].irq = TRUE
<1>1. CASE InUser
  <2>1. TRUE \in BOOLEAN /\ NULL \in Slots \cup {NULL}
    OBVIOUS
  <2> QED
    BY <1>1, <2>1, EnterEffect
<1>2. CASE ~InUser
  <2> DEFINE f == [at |-> l, ifl |-> iflag, irq |-> TRUE, arg |-> NULL]
  <2>1. iflag = TRUE /\ TypeOK /\ Stacks
    BY DEF CanInterrupt, IInv, TypeOK
  <2>2. f \in Frame /\ f.ifl /\ f.irq /\ f.at = l
    BY <2>1 DEF Frame
  <2>3. EntryStack = esp /\ Below = stk[esp] /\ esp' = esp /\ esp \in Slots
    BY <1>2, <2>1 DEF EntryStack, Below, Push, TypeOK
  <2>4. stk' = [stk EXCEPT ![esp] = <<f>> \o stk[esp]]
    BY <2>3 DEF Push
  <2>5. Top.at \in Preemptible
    BY <1>2, TopInFrame DEF Critical, Frame, Labels, Preemptible, IInv, Focus
  <2>6. /\ Fits(f.irq, f.at) /\ f.at # "wait"
        /\ stk[esp] \in Seq(Frame) /\ stk[esp] # <<>> /\ stk[esp][1].at \in Preemptible
    BY <1>2, <2>1, <2>2, <2>3, <2>5 DEF TypeOK, InUser, Top
  <2> HIDE DEF f
  <2>7. /\ stk' \in [Slots -> Seq(Frame)] /\ OnlyStackOf(esp) /\ Stacks'
        /\ stk'[esp] # <<>> /\ stk'[esp][1] = f
    BY <2>1, <2>2, <2>3, <2>4, <2>6, PushEffect
  <2> QED
    BY <2>2, <2>3, <2>5, <2>7
<1> QED
  BY <1>1, <1>2

-----------------------------------------------------------------------------
(* The actions that leave the process table and the scheduler alone.       *)

(* What a step does to the links between processes: nothing, or ...        *)
SameLinks ==
  /\ Live' = Live /\ schedule_pcb' = schedule_pcb
  /\ \A p \in Live \ Base : parent_pcb'[p] = parent_pcb[p]

(* ... a terminal gets its first shell, a program is put in front of the   *)
(* process of cur_term, or that process is taken away.                     *)
ShellLinked ==
  /\ schedule_pcb[cur_term] = NULL /\ cur_term \notin Live
  /\ Live' = Live \cup {cur_term}
  /\ schedule_pcb' = [schedule_pcb EXCEPT ![cur_term] = cur_term]
  /\ parent_pcb' = parent_pcb /\ cur_term' = cur_term

ProgramLinked(p) ==
  /\ schedule_pcb[cur_term] # NULL /\ p \notin Live /\ p \notin Base
  /\ parent_pcb[p] = schedule_pcb[cur_term]
  /\ Live' = Live \cup {p}
  /\ schedule_pcb' = [schedule_pcb EXCEPT ![cur_term] = p]
  /\ parent_pcb' = parent_pcb /\ cur_term' = cur_term

ProgramUnlinked ==
  /\ schedule_pcb[cur_term] \in Live \ Base
  /\ Live' = Live \ {schedule_pcb[cur_term]}
  /\ schedule_pcb' = [schedule_pcb EXCEPT ![cur_term] = parent_pcb[schedule_pcb[cur_term]]]
  /\ parent_pcb' = parent_pcb /\ cur_term' = cur_term

(* Signals are recorded only after every terminal has its shell.           *)
LEMMA NoEarlySignal ==
  ASSUME IInv
  PROVE  term_num < NTERM => pending = {}
BY DEF IInv, Signals

(* A step to another preemptible point, or to user mode, that keeps        *)
(* pending: what is left of IInv' to show.                                 *)
LEMMA QuietInv ==
  ASSUME IInv, UNCHANGED <<PCBs, parent_pcb, sched, page, esp0, esp>>,
         InUser \/ Top.at \in Preemptible,
         stk' \in [Slots -> Seq(Frame)], OnlyStackOf(esp), Stacks',
         \A p \in pending' : p \in pending \/ (p \in Slots /\ IsLeaf(p)),
         term_num < NTERM => pending' = {},
         iflag' \in BOOLEAN,
         exeret' \in Slots \cup {NULL}, store_eax' \in Slots \cup {NULL},
         \/ stk'[esp] = <<>>
         \/ stk'[esp] # <<>> /\ stk'[esp][1].at \in Preemptible
         \/ /\ stk'[esp] # <<>> /\ term_num = NTERM
            /\ \/ stk'[esp][1].at = "halt"
               \/ stk'[esp][1].at = "find" /\ ~stk'[esp][1].irq,
         esp \in pending' => stk'[esp] # <<>> /\ stk'[esp][1].at \in {"back", "pit"}
  PROVE  IInv' /\ SameLinks
<1>1. \/ stk'[esp] = <<>>
      \/ stk'[esp][1].at \in Preemptible
      \/ /\ term_num = NTERM
         /\ \/ stk'[esp][1].at = "halt"
            \/ stk'[esp][1].at = "find" /\ ~stk'[esp][1].irq
  OBVIOUS
<1>2. Tree' /\ Focus' /\ Saved' /\ Waits' /\ Live' = PCBs
  BY <1>1, QuietStep
<1>3. TypeOK'
  BY DEF IInv, TypeOK, sched
<1>5. Signals'
  <2>1. pending' \subseteq Slots /\ (term_num' < NTERM => pending' = {})
    BY <1>3 DEF TypeOK, sched
  <2>2. ASSUME NEW p \in pending', p # esp
        PROVE  p \in PCBs' /\ stk'[p] # <<>> /\ stk'[p][1].at \in {"back", "pit", "switch"}
    <3>1. stk'[p] = stk[p] /\ p # NULL
      BY <2>1, <2>2 DEF OnlyStackOf, Slots, NULL
    <3>2. CASE p \in pending
      BY <3>1, <3>2 DEF IInv, Signals
    <3>3. CASE IsLeaf(p)
      <4>1. PICK t \in Terms : schedule_pcb[t] = p
        BY <3>3 DEF IsLeaf
      <4>2. p \in PCBs
        BY <3>1, <4>1, LiveIsPCBs DEF IInv, Tree, Preemptible
      <4> QED
        BY <3>1, <4>1, <4>2, <2>2 DEF IInv, Saved, Preemptible
    <3> QED
      BY <3>2, <3>3, <2>2
  <2>3. esp \in PCBs
    BY RunningIsLeaf DEF IInv, Plain, Preemptible
  <2> QED
    BY <2>1, <2>2, <2>3 DEF Signals
<1>6. SameLinks
  <2>1. Live = PCBs
    BY RunningIsLeaf DEF IInv, Plain, Preemptible
  <2> QED
    BY <1>2, <2>1 DEF SameLinks, sched
<1> QED
  BY <1>2, <1>3, <1>5, <1>6 DEF IInv

(* A call that returns to its caller enters the kernel.                    *)
LEMMA SysCallInv ==
  ASSUME IInv, NEW sti \in BOOLEAN, SysCall(sti)
  PROVE  IInv' /\ SameLinks
<1>1. /\ InUser /\ Push("win", FALSE, esp0) /\ Fits(FALSE, "win")
      /\ "win" \in Labels /\ esp0 \in Slots \cup {NULL} /\ FALSE \in BOOLEAN
  BY DEF SysCall, Fits, Labels, IInv, TypeOK
<1>2. /\ esp' = esp
      /\ stk' \in [Slots -> Seq(Frame)] /\ OnlyStackOf(esp) /\ Stacks'
      /\ stk'[esp] # <<>> /\ stk'[esp][1].at = "win"
  BY <1>1, EnterEffect
<1>3. esp \notin pending
  BY <1>1 DEF IInv, Signals, InUser
<1>4. iflag' \in BOOLEAN /\ exeret' \in Slots \cup {NULL} /\ store_eax' \in Slots \cup {NULL}
  BY DEF IInv, TypeOK, SysCall, retval
<1>5. UNCHANGED <<PCBs, parent_pcb, pending, sched, page, esp0, esp>>
  BY <1>2 DEF SysCall, proc
<1>6. stk'[esp][1].at \in Preemptible /\ stk'[esp][1].at \notin {"pit", "back"}
  BY <1>2 DEF Preemptible
<1> QED
  BY <1>1, <1>2, <1>3, <1>4, <1>5, <1>6, NoEarlySignal, QuietInv

(* execute is called from user mode.                                       *)
LEMMA SysExecuteInv ==
  ASSUME IInv, SysExecute
  PROVE  IInv' /\ SameLinks
<1>1. /\ InUser /\ Push("find", FALSE, NULL) /\ Fits(FALSE, "find")
      /\ "find" \in Labels /\ NULL \in Slots \cup {NULL} /\ FALSE \in BOOLEAN
      /\ term_num = NTERM
  BY DEF SysExecute, Fits, Labels, ExecLabels, Launched
<1>2. /\ esp' = esp
      /\ stk' \in [Slots -> Seq(Frame)] /\ OnlyStackOf(esp) /\ Stacks'
      /\ stk'[esp] # <<>> /\ stk'[esp][1].at = "find" /\ ~stk'[esp][1].irq
  BY <1>1, EnterEffect
<1>3. esp \notin pending
  BY <1>1 DEF IInv, Signals, InUser
<1>4. /\ iflag' = iflag /\ iflag' \in BOOLEAN
      /\ exeret' \in Slots \cup {NULL} /\ store_eax' \in Slots \cup {NULL}
  BY DEF IInv, TypeOK, SysExecute, retval
<1>5. UNCHANGED <<PCBs, parent_pcb, pending, sched, page, esp0, esp>>
  BY <1>2 DEF SysExecute, proc
<1> QED
  BY <1>1, <1>2, <1>3, <1>4, <1>5, NoEarlySignal, QuietInv

(* halt is called from user mode.                                          *)
LEMMA SysHaltInv ==
  ASSUME IInv, SysHalt
  PROVE  IInv' /\ SameLinks
<1>1. /\ InUser /\ Push("halt", FALSE, NULL) /\ Fits(FALSE, "halt")
      /\ "halt" \in Labels /\ NULL \in Slots \cup {NULL} /\ FALSE \in BOOLEAN
      /\ term_num = NTERM
  BY DEF SysHalt, Fits, Labels, HaltLabels, Launched
<1>2. /\ esp' = esp
      /\ stk' \in [Slots -> Seq(Frame)] /\ OnlyStackOf(esp) /\ Stacks'
      /\ stk'[esp] # <<>> /\ stk'[esp][1].at = "halt" /\ ~stk'[esp][1].irq
  BY <1>1, EnterEffect
<1>3. esp \notin pending
  BY <1>1 DEF IInv, Signals, InUser
<1>4. /\ iflag' = iflag /\ iflag' \in BOOLEAN
      /\ exeret' \in Slots \cup {NULL} /\ store_eax' \in Slots \cup {NULL}
  BY DEF IInv, TypeOK, SysHalt, retval
<1>5. UNCHANGED <<PCBs, parent_pcb, pending, sched, page, esp0, esp>>
  BY <1>2 DEF SysHalt, proc
<1> QED
  BY <1>1, <1>2, <1>3, <1>4, <1>5, NoEarlySignal, QuietInv

(* link_handler_sysc stores the return value.                              *)
LEMMA StoreEaxInv ==
  ASSUME IInv, StoreEax
  PROVE  IInv' /\ SameLinks
<1>1. /\ ~InUser /\ Top.at = "win" /\ Goto("eax") /\ "eax" \in Labels
      /\ Top \in Frame /\ stk[esp] # <<>> /\ Top = stk[esp][1] /\ 1 \in 1..Len(stk[esp])
  BY TopInFrame, EmptySeq DEF StoreEax, At, Labels, IInv, TypeOK
<1>2. Fits(Top.irq, "eax") /\ TypeOK /\ Stacks
  BY <1>1 DEF IInv, Stacks, Fits, TypeOK
<1>3. /\ stk' \in [Slots -> Seq(Frame)] /\ OnlyStackOf(esp) /\ Stacks'
      /\ stk'[esp] # <<>> /\ stk'[esp][1].at = "eax"
  BY <1>1, <1>2, GotoEffect
<1>4. esp \notin pending
  BY <1>1 DEF IInv, Signals
<1>5. /\ iflag' \in BOOLEAN
      /\ exeret' \in Slots \cup {NULL} /\ store_eax' \in Slots \cup {NULL}
  BY <1>1 DEF IInv, TypeOK, StoreEax, Frame
<1>6. UNCHANGED <<PCBs, parent_pcb, pending, sched, page, esp0, esp>>
  BY DEF StoreEax, proc
<1>7. /\ Top.at \in Preemptible
      /\ stk'[esp][1].at \in Preemptible /\ stk'[esp][1].at \notin {"pit", "back"}
  BY <1>1, <1>3 DEF Preemptible
<1> QED
  BY <1>3, <1>4, <1>5, <1>6, <1>7, NoEarlySignal, QuietInv

(* execute returns to its caller's linkage.                                *)
LEMMA ExecuteReturnInv ==
  ASSUME IInv, ExecuteReturn
  PROVE  IInv' /\ SameLinks
<1>1. /\ ~InUser /\ Top.at = "haltret" /\ GotoWith("win", exeret) /\ "win" \in Labels
      /\ exeret \in Slots \cup {NULL}
      /\ Top \in Frame /\ stk[esp] # <<>> /\ Top = stk[esp][1] /\ 1 \in 1..Len(stk[esp])
  BY TopInFrame, EmptySeq DEF ExecuteReturn, At, Labels, IInv, TypeOK
<1>2. Fits(Top.irq, "win") /\ TypeOK /\ Stacks
  BY <1>1 DEF IInv, Stacks, Fits, TypeOK
<1>3. /\ stk' \in [Slots -> Seq(Frame)] /\ OnlyStackOf(esp) /\ Stacks'
      /\ stk'[esp] # <<>> /\ stk'[esp][1].at = "win"
  BY <1>1, <1>2, GotoWithEffect
<1>4. esp \notin pending
  BY <1>1 DEF IInv, Signals
<1>5. /\ iflag' \in BOOLEAN
      /\ exeret' \in Slots \cup {NULL} /\ store_eax' \in Slots \cup {NULL}
  BY <1>1 DEF IInv, TypeOK, ExecuteReturn, retval
<1>6. UNCHANGED <<PCBs, parent_pcb, pending, sched, page, esp0, esp>>
  BY DEF ExecuteReturn, proc
<1>7. /\ Top.at \in Preemptible
      /\ stk'[esp][1].at \in Preemptible /\ stk'[esp][1].at \notin {"pit", "back"}
  BY <1>1, <1>3 DEF Preemptible
<1> QED
  BY <1>3, <1>4, <1>5, <1>6, <1>7, NoEarlySignal, QuietInv

(* The iret of a system call and that of an interrupt linkage.             *)
LEMMA IretInv ==
  ASSUME IInv, ~InUser, Top.at \in {"eax", "back"}, esp \notin pending, Iret,
         UNCHANGED <<proc, sched, page, esp0, esp, retval>>
  PROVE  IInv' /\ SameLinks
<1>1. TypeOK /\ Stacks
  BY DEF IInv
<1>2. /\ stk' \in [Slots -> Seq(Frame)] /\ OnlyStackOf(esp)
      /\ Stacks' /\ iflag' \in BOOLEAN
      /\ stk'[esp] # <<>> =>
           /\ stk'[esp][1].at \in Preemptible
           /\ Fits(stk'[esp][1].irq, stk'[esp][1].at)
           /\ stk'[esp][1] \in Frame
  BY <1>1, IretEffect
<1>3. exeret' \in Slots \cup {NULL} /\ store_eax' \in Slots \cup {NULL}
  BY DEF IInv, TypeOK, retval
<1>4. UNCHANGED <<PCBs, parent_pcb, pending, sched, page, esp0, esp>>
  BY DEF proc
<1>5. Top.at \in Preemptible
  BY DEF Preemptible
<1> QED
  BY <1>2, <1>3, <1>4, <1>5, NoEarlySignal, QuietInv

(* The iret of a system call: no signal can be pending at "eax".           *)
LEMMA SysReturnInv ==
  ASSUME IInv, SysReturn
  PROVE  IInv' /\ SameLinks
<1>1. esp \notin pending
  BY DEF SysReturn, At, IInv, Signals, Top
<1> QED
  BY <1>1, IretInv DEF SysReturn, At

(* The iret of an interrupt linkage, no signal pending.                    *)
LEMMA IrqReturnInv ==
  ASSUME IInv, IrqReturn
  PROVE  IInv' /\ SameLinks
BY IretInv DEF IrqReturn, At

(* A tick interrupts a preemptible point.                                  *)
LEMMA TickInv ==
  ASSUME IInv, ~Critical, NEW alarm \in BOOLEAN, Tick(alarm)
  PROVE  IInv' /\ SameLinks
<1>1. /\ CanInterrupt /\ Push("pit", TRUE, NULL) /\ Fits(TRUE, "pit") /\ "pit" \in Labels
      /\ iflag' = alarm
  BY DEF Tick, Fits, Labels
<1>2. /\ InUser \/ Top.at \in Preemptible
      /\ esp' = esp
      /\ stk' \in [Slots -> Seq(Frame)] /\ OnlyStackOf(esp) /\ Stacks'
      /\ stk'[esp] # <<>> /\ stk'[esp][1].at = "pit" /\ stk'[esp][1].irq
  BY <1>1, InterruptEffect
<1>3. /\ iflag' \in BOOLEAN
      /\ exeret' \in Slots \cup {NULL} /\ store_eax' \in Slots \cup {NULL}
  BY <1>1 DEF IInv, TypeOK, Tick, retval
<1>4. UNCHANGED <<PCBs, parent_pcb, pending, sched, page, esp0, esp>>
  BY <1>2 DEF Tick, proc
<1>5. stk'[esp][1].at \in Preemptible
  BY <1>2 DEF Preemptible
<1> QED
  BY <1>2, <1>3, <1>4, <1>5, NoEarlySignal, QuietInv

(* A device interrupt interrupts a preemptible point.                      *)
LEMMA DeviceIrqInv ==
  ASSUME IInv, ~Critical, NEW sti \in BOOLEAN, DeviceIrq(sti)
  PROVE  IInv' /\ SameLinks
<1>1. /\ CanInterrupt /\ Push("back", TRUE, NULL) /\ Fits(TRUE, "back") /\ "back" \in Labels
      /\ iflag' = sti
  BY DEF DeviceIrq, Fits, Labels
<1>2. /\ InUser \/ Top.at \in Preemptible
      /\ esp' = esp
      /\ stk' \in [Slots -> Seq(Frame)] /\ OnlyStackOf(esp) /\ Stacks'
      /\ stk'[esp] # <<>> /\ stk'[esp][1].at = "back" /\ stk'[esp][1].irq
  BY <1>1, InterruptEffect
<1>3. /\ iflag' \in BOOLEAN
      /\ exeret' \in Slots \cup {NULL} /\ store_eax' \in Slots \cup {NULL}
  BY <1>1 DEF IInv, TypeOK, DeviceIrq, retval
<1>4. UNCHANGED <<PCBs, parent_pcb, pending, sched, page, esp0, esp>>
  BY <1>2 DEF DeviceIrq, proc
<1>5. stk'[esp][1].at \in Preemptible
  BY <1>2 DEF Preemptible
<1> QED
  BY <1>2, <1>3, <1>4, <1>5, NoEarlySignal, QuietInv

(* Ctrl-C marks the process the visible terminal runs.                     *)
LEMMA CtrlCInv ==
  ASSUME IInv, ~Critical, NEW v \in Terms, CtrlC(v)
  PROVE  IInv' /\ SameLinks
<1>1. /\ CanInterrupt /\ Push("back", TRUE, NULL) /\ Fits(TRUE, "back") /\ "back" \in Labels
      /\ iflag' = TRUE
  BY DEF CtrlC, Fits, Labels
<1>2. /\ InUser \/ Top.at \in Preemptible
      /\ esp' = esp
      /\ stk' \in [Slots -> Seq(Frame)] /\ OnlyStackOf(esp) /\ Stacks'
      /\ stk'[esp] # <<>> /\ stk'[esp][1].at = "back" /\ stk'[esp][1].irq
  BY <1>1, InterruptEffect
<1>3. /\ iflag' \in BOOLEAN
      /\ exeret' \in Slots \cup {NULL} /\ store_eax' \in Slots \cup {NULL}
  BY <1>1 DEF IInv, TypeOK, CtrlC, retval
<1>4. UNCHANGED <<PCBs, parent_pcb, sched, page, esp0, esp>>
  BY <1>2 DEF CtrlC
<1>5. stk'[esp][1].at \in Preemptible
  BY <1>2 DEF Preemptible
<1>6. /\ \A p \in pending' : p \in pending \/ (p \in Slots /\ IsLeaf(p))
      /\ ~(term_num < NTERM)
  BY SizeAssumption, KillAssumption DEF CtrlC, IsLeaf, Launched
<1> QED
  BY <1>2, <1>3, <1>4, <1>5, <1>6, NoEarlySignal, QuietInv

(* A fault marks the process that runs, which RunningIsLeaf says is a leaf.*)
LEMMA FaultInv ==
  ASSUME IInv, Fault
  PROVE  IInv' /\ SameLinks
<1>1. /\ InUser /\ Push("back", TRUE, NULL) /\ Fits(TRUE, "back")
      /\ "back" \in Labels /\ NULL \in Slots \cup {NULL} /\ TRUE \in BOOLEAN
      /\ iflag' = TRUE
  BY DEF Fault, Fits, Labels
<1>2. /\ esp' = esp /\ EntryStack = esp
      /\ stk' \in [Slots -> Seq(Frame)] /\ OnlyStackOf(esp) /\ Stacks'
      /\ stk'[esp] # <<>> /\ stk'[esp][1].at = "back" /\ stk'[esp][1].irq
  BY <1>1, EnterEffect
<1>3. /\ iflag' \in BOOLEAN
      /\ exeret' \in Slots \cup {NULL} /\ store_eax' \in Slots \cup {NULL}
  BY <1>1 DEF IInv, TypeOK, Fault, retval
<1>4. UNCHANGED <<PCBs, parent_pcb, sched, page, esp0, esp>>
  BY <1>2 DEF Fault
<1>5. stk'[esp][1].at \in Preemptible
  BY <1>2 DEF Preemptible
<1>6. IsLeaf(esp)
  BY <1>1, RunningIsLeaf DEF IInv
<1>7. /\ \A p \in pending' : p \in pending \/ (p \in Slots /\ IsLeaf(p))
      /\ ~(term_num < NTERM)
  BY <1>2, <1>6, SizeAssumption DEF Fault, Launched, IInv, TypeOK
<1> QED
  BY <1>1, <1>2, <1>3, <1>4, <1>5, <1>7, NoEarlySignal, QuietInv

(* signal_handler turns a pending SIG_INTERRUPT into halt, in a base shell *)
(* as well.                                                                *)
LEMMA KillTaskInv ==
  ASSUME IInv, KillTask
  PROVE  IInv' /\ SameLinks
<1>1. /\ ~InUser /\ Top.at = "back" /\ Goto("halt") /\ "halt" \in Labels
      /\ Top \in Frame /\ stk[esp] # <<>> /\ Top = stk[esp][1] /\ 1 \in 1..Len(stk[esp])
  BY TopInFrame, EmptySeq DEF KillTask, At, Labels, HaltLabels, IInv, TypeOK
<1>2. Fits(Top.irq, "halt") /\ Top.irq /\ TypeOK /\ Stacks
  BY <1>1 DEF IInv, Stacks, Fits, TypeOK, Frame
<1>3. /\ stk' \in [Slots -> Seq(Frame)] /\ OnlyStackOf(esp) /\ Stacks'
      /\ stk'[esp] # <<>> /\ stk'[esp][1].at = "halt" /\ stk'[esp][1].irq
  BY <1>1, <1>2, GotoEffect
<1>4. esp \in pending /\ esp \notin pending'
  BY DEF KillTask
<1>6. term_num = NTERM
  BY <1>4, SizeAssumption DEF IInv, Signals, TypeOK
<1>7. /\ iflag' \in BOOLEAN
      /\ exeret' \in Slots \cup {NULL} /\ store_eax' \in Slots \cup {NULL}
      /\ \A p \in pending' : p \in pending
  BY <1>1 DEF IInv, TypeOK, KillTask, retval
<1>8. UNCHANGED <<PCBs, parent_pcb, sched, page, esp0, esp>>
  BY DEF KillTask
<1>9. Top.at \in Preemptible
  BY <1>1 DEF Preemptible
<1> QED
  BY <1>3, <1>4, <1>6, <1>7, <1>8, <1>9, NoEarlySignal, QuietInv

-----------------------------------------------------------------------------

(* The contexts scheduling() saved lie on other stacks.                    *)
LEMMA StillSaved ==
  ASSUME IInv, ~InUser, Top.at \notin {"map", "enter", "return"},
         esp' = esp, schedule_pcb' = schedule_pcb, OnlyStackOf(esp)
  PROVE  Saved'
<1> SUFFICES ASSUME NEW t \in Terms, schedule_pcb[t] # NULL, schedule_pcb[t] # esp
             PROVE  stk'[schedule_pcb[t]] # <<>> /\ stk'[schedule_pcb[t]][1].at = "back"
  BY DEF Saved
<1>1. schedule_pcb[t] \in Slots
  BY DEF IInv, TypeOK
<1> QED
  BY <1>1 DEF OnlyStackOf, Saved, IInv

(* So do those of the processes inside execute.                            *)
LEMMA StillWaits ==
  ASSUME IInv, ~InUser, Top.at \notin {"map", "enter"}, IsLeaf(esp),
         Live' \subseteq Live, OnlyStackOf(esp),
         \A q \in Live \ Base : parent_pcb'[q] = parent_pcb[q]
  PROVE  Waits'
<1> SUFFICES ASSUME NEW q \in Live \ Base
             PROVE  LET s == stk'[parent_pcb[q]] IN s # <<>> /\ s[1].at = "wait" /\ s[1].arg = q
  BY DEF Waits
<1>1. parent_pcb[q] \in Slots /\ parent_pcb[q] # esp
  BY DEF IInv, Tree, TypeOK, Live, Doomed
<1> QED
  BY <1>1 DEF OnlyStackOf, Waits, IInv

(* No signal is pending for a process inside execute or halt.              *)
LEMMA StillPending ==
  ASSUME IInv, ~InUser, Top.at \notin {"back", "pit", "switch"},
         OnlyStackOf(esp), pending' \subseteq pending, term_num' = term_num,
         \A p \in PCBs : p # esp => p \in PCBs'
  PROVE  Signals'
<1>1. esp \notin pending
  BY DEF IInv, Signals, Top
<1> QED
  BY <1>1 DEF IInv, Signals, OnlyStackOf, TypeOK

(* The lowest free slot: the launched shell gets the slot of its terminal,  *)
(* a respawned one its own, a program none of Base.                        *)
LEMMA FindSlotInv ==
  ASSUME IInv, FindSlot
  PROVE  IInv' /\ SameLinks
<1>1. /\ ~InUser /\ Top.at \in {"find", "respawn"} /\ TypeOK /\ Stacks
      /\ Top \in Frame /\ stk[esp] # <<>> /\ Top = stk[esp][1] /\ 1 \in 1..Len(stk[esp])
      /\ esp \in Slots
  BY TopInFrame, EmptySeq DEF FindSlot, At, IInv, TypeOK
<1>2. /\ Top.at = "find" => esp \in PCBs /\ Live = PCBs /\ page = esp /\ esp0 = esp
      /\ Top.at = "respawn" => esp \in Base \ PCBs /\ Live = PCBs \cup {esp}
  BY <1>1 DEF IInv, Focus, Live, Doomed, Unborn
<1>3. /\ Count \in 1..NTERM /\ term_num \in 1..NTERM /\ NTERM \in Nat \ {0}
      /\ cur_term \in Terms /\ cur_term \in 0..(NTERM - 1)
  BY SizeAssumption DEF IInv, Tree, TypeOK, Terms
<1>4. /\ Launching => Top.irq /\ Count = term_num - 1 /\ cur_term = Count /\ IsLeaf(esp)
      /\ ~Launching => Count = term_num /\ Count = NTERM /\ schedule_pcb[cur_term] = esp
  BY <1>1 DEF IInv, Focus, Count, Launching
<1>5. /\ ~Launching => IsLeaf(esp)
      /\ Top.at = "find" => (Launching <=> Top.irq)
      /\ Top.at = "respawn" => ~Launching
  BY <1>1, <1>2, <1>3, <1>4 DEF Launching, IsLeaf
<1>6. /\ IF Launching THEN cur_term = Count /\ Count < NTERM /\ Count = term_num - 1
                      ELSE schedule_pcb[cur_term] = esp /\ Count = NTERM /\ Count = term_num
      /\ IsLeaf(esp) /\ (Top.at = "find" => (Launching <=> Top.irq))
      /\ Top.at = "respawn" => ~Launching
      /\ Count \in 1..NTERM /\ cur_term \in 0..(NTERM - 1)
  BY <1>3, <1>4, <1>5
<1>7. 0..(Count - 1) \subseteq Live /\ (Count < NTERM => Live \subseteq 0..(Count - 1))
  BY <1>6, SizeAssumption DEF IInv, Tree, Terms
<1>8. UNCHANGED <<PCBs, parent_pcb, pending, schedule_pcb, cur_term, next_term, term_num,
                  page, esp0, esp, iflag, exeret, store_eax>>
  BY DEF FindSlot, proc, sched, retval
<1>9. ASSUME NEW i \in FreeSlots, 0..(i - 1) \subseteq PCBs, GotoWith("create", i)
      PROVE  IInv' /\ SameLinks
  <2>1. i \in Slots \ PCBs /\ i \in Nat
    BY <1>9 DEF FreeSlots, Slots
  <2>2. /\ stk' \in [Slots -> Seq(Frame)] /\ OnlyStackOf(esp) /\ Stacks'
        /\ stk'[esp] # <<>> /\ stk'[esp][1].at = "create"
        /\ stk'[esp][1].irq = Top.irq /\ stk'[esp][1].arg = i
    <3>1. Fits(Top.irq, "create") /\ "create" \in Labels /\ i \in Slots \cup {NULL}
      BY <2>1 DEF Fits, Labels, ExecLabels
    <3> QED
      BY <1>1, <1>9, <3>1, GotoWithEffect
  <2>4. Launching => i = cur_term
    <3> SUFFICES ASSUME Launching
                 PROVE  i = cur_term
      OBVIOUS
    <3>1. Live = PCBs /\ cur_term = Count /\ Count < NTERM
      BY <1>1, <1>2, <1>6
    <3>2. Count \notin PCBs /\ (i < Count => i \in PCBs)
      BY <1>6, <1>7, <2>1, <3>1, SizeAssumption
    <3>3. ~(Count < i)
      BY <1>6, <1>9, <2>1, <3>1, <3>2, SizeAssumption
    <3> QED
      BY <1>6, <2>1, <3>1, <3>2, <3>3, SizeAssumption
  <2>5. Top.at = "respawn" => i = esp
    <3> SUFFICES ASSUME Top.at = "respawn"
                 PROVE  i = esp
      OBVIOUS
    <3>1. esp \in Base \ PCBs /\ Live = PCBs \cup {esp} /\ Count = NTERM
      BY <1>2, <1>6
    <3>2. i < esp => i \in PCBs
      BY <1>7, <2>1, <3>1, SizeAssumption DEF Base, Terms
    <3>3. ~(esp < i)
      BY <1>9, <2>1, <3>1, SizeAssumption DEF Base, Terms
    <3> QED
      BY <2>1, <3>1, <3>2, <3>3, SizeAssumption DEF Base, Terms
  <2>3. /\ ~InUser' /\ Top' = stk'[esp][1]
        /\ Launching' = Launching /\ Count' = Count /\ Live' = Live
        /\ \A p : IsLeaf(p)' <=> IsLeaf(p)
    <3>1. ~InUser' /\ Top' = stk'[esp][1]
      BY <1>8, <2>2 DEF InUser, Top
    <3>2. Top.at = "find" => i # esp
      BY <1>2, <2>1
    <3>3. Launching' = Launching
      BY <1>1, <1>5, <1>6, <1>8, <2>2, <2>5, <3>1, <3>2 DEF Launching
    <3> QED
      BY <1>1, <1>2, <1>6, <1>8, <2>2, <3>1, <3>3
         DEF Count, Live, Doomed, Unborn, IsLeaf
  <2>6. Top.at = "find" /\ ~Launching => i \notin Base
    BY <1>2, <1>6, <1>7, <2>1, SizeAssumption DEF Base, Terms
  <2>7. TypeOK'
    BY <1>8, <2>2 DEF IInv, TypeOK
  <2>8. Tree'
    BY <1>8, <2>3 DEF IInv, Tree, IsLeaf
  <2>9. Focus'
    BY <1>1, <1>2, <1>6, <1>8, <2>1, <2>2, <2>3, <2>4, <2>5, <2>6 DEF IInv, Focus, Plain
  <2>10. Saved' /\ Waits'
    BY <1>1, <1>6, <1>8, <2>2, <2>3, StillSaved, StillWaits
  <2>12. Signals'
    BY <1>1, <1>8, <2>2, StillPending
  <2> QED
    BY <2>2, <2>7, <2>8, <2>9, <2>10, <2>12, <1>8, <2>3 DEF IInv, SameLinks
<1>10. ASSUME FreeSlots = {}, Top.at = "find", GotoWith("win", esp)
      PROVE  IInv' /\ SameLinks
  <2>1. ~Launching
    <3>1. Launching => cur_term \notin PCBs /\ cur_term \in Slots
      BY <1>2, <1>6, <1>7, <1>10, SizeAssumption DEF Slots
    <3> QED
      BY <1>10, <3>1 DEF FreeSlots
  <2>2. /\ stk' \in [Slots -> Seq(Frame)] /\ OnlyStackOf(esp) /\ Stacks'
        /\ stk'[esp] # <<>> /\ stk'[esp][1].at = "win" /\ ~stk'[esp][1].irq
    <3>1. Fits(Top.irq, "win") /\ "win" \in Labels /\ esp \in Slots \cup {NULL}
      BY <1>1, <1>6, <1>10, <2>1 DEF Fits, Labels
    <3> QED
      BY <1>1, <1>6, <1>10, <2>1, <3>1, GotoWithEffect
  <2>3. /\ ~InUser' /\ Top' = stk'[esp][1]
        /\ ~Launching' /\ Count' = Count /\ Live' = Live
        /\ \A p : IsLeaf(p)' <=> IsLeaf(p)
    BY <1>2, <1>6, <1>8, <1>10, <2>1, <2>2
       DEF InUser, Top, Launching, Count, Live, Doomed, Unborn, IsLeaf
  <2>4. TypeOK'
    BY <1>8, <2>2 DEF IInv, TypeOK
  <2>5. Tree'
    BY <1>8, <2>3 DEF IInv, Tree, IsLeaf
  <2>6. Focus'
    BY <1>1, <1>2, <1>6, <1>8, <1>10, <2>1, <2>2, <2>3, SizeAssumption DEF IInv, Focus, Plain
  <2>7. Saved' /\ Waits'
    BY <1>1, <1>6, <1>8, <2>2, <2>3, StillSaved, StillWaits
  <2>9. Signals'
    BY <1>1, <1>8, <2>2, StillPending
  <2> QED
    BY <2>2, <2>4, <2>5, <2>6, <2>7, <2>9, <1>8, <2>3 DEF IInv, SameLinks
<1>11. ~(FreeSlots = {} /\ Top.at = "respawn")
  BY <1>1, <1>2 DEF FreeSlots
<1> QED
  BY <1>9, <1>10, <1>11 DEF FindSlot, At

(* create_PCB takes the slot; the process is not linked yet.               *)
LEMMA CreatePCBInv ==
  ASSUME IInv, CreatePCB
  PROVE  IInv' /\ SameLinks
<1> DEFINE a == Top.arg
<1>1. /\ ~InUser /\ Top.at = "create" /\ TypeOK /\ Stacks /\ Goto("enlist")
      /\ Top \in Frame /\ stk[esp] # <<>> /\ Top = stk[esp][1] /\ 1 \in 1..Len(stk[esp])
      /\ esp \in Slots
  BY TopInFrame, EmptySeq DEF CreatePCB, At, IInv, TypeOK
<1>2. /\ a \in Slots \ PCBs
      /\ Launching => a = cur_term /\ esp \in PCBs
      /\ esp \notin PCBs => a = esp /\ esp \in Base
      /\ esp \in PCBs /\ ~Launching => a \notin Base
      /\ IF Launching THEN cur_term = Count /\ IsLeaf(esp)
                      ELSE schedule_pcb[cur_term] = esp
      /\ Count = NTERM \/ Launching
  BY <1>1 DEF IInv, Focus
<1>3. IsLeaf(esp) /\ cur_term \in Terms
  BY <1>1, <1>2 DEF IsLeaf, TypeOK
<1>4. /\ PCBs' = PCBs \cup {a} /\ pending' = pending \ {a}
      /\ parent_pcb' = [parent_pcb EXCEPT ![a] = IF a \in Base THEN NULL ELSE esp]
      /\ UNCHANGED <<schedule_pcb, cur_term, next_term, term_num, page, esp0, esp, iflag,
                     exeret, store_eax>>
  BY DEF CreatePCB, sched, retval
<1>5. /\ stk' \in [Slots -> Seq(Frame)] /\ OnlyStackOf(esp) /\ Stacks'
      /\ stk'[esp] # <<>> /\ stk'[esp][1].at = "enlist"
      /\ stk'[esp][1].irq = Top.irq /\ stk'[esp][1].arg = a
  <2>1. Fits(Top.irq, "enlist") /\ "enlist" \in Labels
    BY DEF Fits, Labels, ExecLabels
  <2> QED
    BY <1>1, <2>1, GotoEffect
<1> HIDE DEF a
<1>6. Live = PCBs \cup (IF esp \in PCBs THEN {} ELSE {esp})
  BY <1>1 DEF Live, Doomed, Unborn
<1>7. ~InUser' /\ Top' = stk'[esp][1]
  BY <1>4, <1>5 DEF InUser, Top
<1>8. /\ Launching' = Launching /\ Count' = Count
      /\ \A p : IsLeaf(p)' <=> IsLeaf(p)
  BY <1>1, <1>4, <1>5, <1>7 DEF Launching, Count, IsLeaf, a
<1>9. Live' = PCBs' \ (IF a = esp THEN {} ELSE {a})
  BY <1>2, <1>4, <1>5, <1>7 DEF Live, Doomed, Unborn
<1>10. Live' = Live /\ a \notin Live \ Base
  BY <1>2, <1>4, <1>6, <1>9
<1>11. \A q \in Live \ Base : parent_pcb'[q] = parent_pcb[q]
  BY <1>2, <1>4, <1>10, <1>1 DEF TypeOK, Live, Doomed
<1>12. TypeOK'
  BY <1>1, <1>2, <1>4, <1>5 DEF TypeOK
<1>13. Tree'
  BY <1>4, <1>8, <1>10, <1>11 DEF IInv, Tree
<1>14. Focus'
  <2>1. ~Launching /\ a # esp => a \notin Base /\ parent_pcb'[a] = esp
    BY <1>1, <1>2, <1>4 DEF TypeOK
  <2>2. Launching => a # esp
    BY <1>2
  <2>3. a = esp => esp \in Base
    BY <1>2
  <2> QED
    BY <1>1, <1>2, <1>3, <1>4, <1>5, <1>7, <1>8, <2>1, <2>2, <2>3 DEF IInv, Focus, Plain
<1>15. Saved' /\ Waits'
  BY <1>1, <1>3, <1>4, <1>5, <1>10, <1>11, StillSaved, StillWaits
<1>17. Signals'
  BY <1>1, <1>4, <1>5, StillPending
<1> QED
  BY <1>5, <1>12, <1>13, <1>14, <1>15, <1>17,
     <1>4, <1>10, <1>11 DEF IInv, SameLinks

(* execute links the new process: it becomes the leaf of its terminal, in  *)
(* front of its parent or as the first of a new chain.                     *)
LEMMA EnlistInv ==
  ASSUME IInv, Enlist
  PROVE  IInv' /\ (SameLinks \/ ShellLinked \/ \E p \in Slots : ProgramLinked(p))
<1> DEFINE a == Top.arg
           Runs(p) == \E t \in Terms : schedule_pcb'[t] = p
<1>1. /\ ~InUser /\ Top.at = "enlist" /\ TypeOK /\ Stacks /\ Tree /\ Goto("map")
      /\ Top \in Frame /\ stk[esp] # <<>> /\ Top = stk[esp][1] /\ 1 \in 1..Len(stk[esp])
      /\ esp \in Slots
  BY TopInFrame, EmptySeq DEF Enlist, At, IInv, TypeOK
<1>2. /\ a \in PCBs /\ a \in Slots \ pending
      /\ Launching => a = cur_term /\ a # esp
      /\ ~Launching /\ a # esp => a \notin Base /\ parent_pcb[a] = esp
      /\ a = esp => esp \in Base
      /\ IF Launching THEN cur_term = Count /\ IsLeaf(esp)
                      ELSE schedule_pcb[cur_term] = esp
      /\ Count = NTERM \/ Launching
  BY <1>1 DEF IInv, Focus
<1>3. /\ IsLeaf(esp) /\ cur_term \in Terms /\ cur_term \in 0..(NTERM - 1)
      /\ NTERM \in Nat \ {0} /\ Count \in 1..NTERM /\ term_num \in 1..NTERM
      /\ Launching <=> Top.irq /\ a # esp
      /\ Launching => Count = term_num - 1
      /\ ~Launching => Count = term_num
  BY <1>1, <1>2, SizeAssumption DEF IsLeaf, TypeOK, Tree, Terms, Launching, Count
<1>4. /\ schedule_pcb' = [schedule_pcb EXCEPT ![cur_term] = a]
      /\ UNCHANGED <<PCBs, parent_pcb, pending, cur_term, next_term, term_num, page, esp0,
                     esp, iflag, exeret, store_eax>>
  BY DEF Enlist, proc, retval
<1>5. /\ stk' \in [Slots -> Seq(Frame)] /\ OnlyStackOf(esp) /\ Stacks'
      /\ stk'[esp] # <<>> /\ stk'[esp][1].at = "map"
      /\ stk'[esp][1].irq = Top.irq /\ stk'[esp][1].arg = a
  <2>1. Fits(Top.irq, "map") /\ "map" \in Labels
    BY DEF Fits, Labels, ExecLabels
  <2> QED
    BY <1>1, <2>1, GotoEffect
<1> HIDE DEF a
<1>6. ~InUser' /\ Top' = stk'[esp][1]
  BY <1>4, <1>5 DEF InUser, Top
<1>7. Live = PCBs \ (IF a = esp THEN {} ELSE {a})
  BY <1>1, <1>2 DEF Live, Doomed, Unborn, a
<1>8. ~Launching' /\ Count' = term_num /\ Live' = PCBs /\ Live' = Live \cup {a}
  BY SMTT(30), <1>1, <1>2, <1>4, <1>5, <1>6, <1>7 DEF Launching, Count, Live, Doomed, Unborn, TypeOK
<1>9. \A t \in Terms : schedule_pcb'[t] = IF t = cur_term THEN a ELSE schedule_pcb[t]
  BY <1>1, <1>4 DEF TypeOK
<1>10. \A p : Runs(p) <=> (p = a \/ \E t \in Terms : t # cur_term /\ schedule_pcb[t] = p)
  BY <1>3, <1>9
<1>11. TypeOK'
  BY <1>1, <1>2, <1>4, <1>5 DEF TypeOK
<1>12. ASSUME Launching
      PROVE  Tree' /\ Focus'
  <2>1. /\ a = cur_term /\ a = Count /\ Count < NTERM /\ a \notin Live /\ a \in Slots
        /\ term_num = Count + 1 /\ a # esp /\ a \in Base /\ a # NULL
    <3>1. a = cur_term /\ a = Count /\ a # esp
      BY <1>2, <1>12
    <3>2. a \in Slots /\ a \notin Live
      BY <1>1, <1>2, <1>7, <3>1 DEF TypeOK
    <3>3. term_num = Count + 1 /\ Count < NTERM /\ a \in Base /\ a # NULL
      BY <1>3, <1>12, <3>1 DEF Base, Terms, NULL
    <3> QED
      BY <3>1, <3>2, <3>3
  <2>2. Live \subseteq 0..(Count - 1) /\ Live' \subseteq 0..Count /\ Live' \subseteq Base
    <3>1. Live \subseteq 0..(Count - 1)
      BY <1>1, <2>1 DEF Tree
    <3>2. 0..(Count - 1) \subseteq 0..Count /\ a \in 0..Count /\ 0..Count \subseteq Base
      BY <1>3, <2>1 DEF Base, Terms
    <3> QED
      BY <3>1, <3>2, <1>8
  <2>3. schedule_pcb[cur_term] = NULL
    BY <1>1, <1>3, <2>1 DEF Tree
  <2>4. \A t \in Terms : t < Count + 1 <=> t < Count \/ t = cur_term
    BY <1>3, <2>1 DEF Terms
  <2>5. \A t \in Terms : t < Count => schedule_pcb[t] \in Live /\ t \in Live
    BY <1>1 DEF Tree
  <2>6. Tree'
    <3>1. Count' \in 1..NTERM
      BY <1>3, <1>8
    <3>2. \A t \in Terms : schedule_pcb'[t] # NULL <=> t < Count'
      BY <1>1, <1>8, <1>9, <2>1, <2>4 DEF Tree
    <3>3. \A t \in Terms : t < Count' => schedule_pcb'[t] \in Live' /\ t \in Live'
      BY <1>8, <1>9, <2>1, <2>4, <2>5
    <3>4. \A t, u \in Terms : t < Count' /\ schedule_pcb'[t] = schedule_pcb'[u] => t = u
      <4> SUFFICES ASSUME NEW t \in Terms, NEW u \in Terms, t < Count',
                          schedule_pcb'[t] = schedule_pcb'[u]
                   PROVE  t = u
        OBVIOUS
      <4>1. t < Count \/ t = cur_term
        BY <1>8, <2>1, <2>4
      <4>2. schedule_pcb'[u] # NULL
        BY <3>2
      <4>3. u < Count \/ u = cur_term
        BY <1>8, <2>1, <2>4, <3>2, <4>2
      <4> QED
        BY <1>1, <1>9, <2>1, <2>5, <4>1, <4>3 DEF Tree
    <3>5. Live' \ Base = {}
      BY <2>2
    <3>6. \A p \in Live' : Runs(p) \/ \E q \in Live' \ Base : parent_pcb'[q] = p
      <4> SUFFICES ASSUME NEW p \in Live, p # a
                   PROVE  Runs(p)
        BY <1>8, <1>10
      <4>1. IsLeaf(p) /\ p # NULL
        BY <1>1, <1>8, <2>2, <2>3 DEF Tree, TypeOK, Live, Doomed, Slots, NULL
      <4> QED
        BY <1>10, <2>3, <4>1 DEF IsLeaf
    <3>7. Live' \subseteq 0..(Count' - 1)
      <4>1. Count' - 1 = Count
        BY <1>3, <1>8, <2>1
      <4> QED
        BY <4>1, <2>2
    <3> QED
      BY <3>1, <3>2, <3>3, <3>4, <3>5, <3>6, <3>7, <1>4 DEF Tree, IsLeaf, Base, Terms
  <2>7. Focus'
    <3>1. Runs(esp)
      <4>1. PICK t \in Terms : schedule_pcb[t] = esp
        BY <1>3 DEF IsLeaf
      <4>2. t # cur_term
        BY <1>1, <2>3, <4>1 DEF Slots, NULL
      <4> QED
        BY <1>9, <4>1, <4>2
    <3>2. next_term' = (cur_term' + 1) % NTERM
      BY <1>4, <1>1 DEF IInv, Focus
    <3>3. schedule_pcb'[cur_term'] = a
      BY <1>3, <1>4, <1>9
    <3>4. cur_term' = Count' - 1
      BY <1>3, <1>4, <1>8, <2>1
    <3>5. Top.irq
      BY <1>3, <1>12
    <3> QED
      BY <1>2, <1>4, <1>5, <1>6, <2>1, <3>1, <3>2, <3>3, <3>4, <3>5 DEF Focus, IsLeaf, Plain
  <2> QED
    BY <2>6, <2>7
<1>13. ASSUME ~Launching, a # esp
      PROVE  Tree'
  <2>1. /\ a \notin Base /\ parent_pcb[a] = esp /\ schedule_pcb[cur_term] = esp
        /\ Count = NTERM /\ term_num = NTERM /\ Count' = NTERM
        /\ a \notin Live /\ a # NULL /\ a \in Slots
    BY <1>1, <1>2, <1>3, <1>7, <1>8, <1>13 DEF TypeOK, Slots, NULL
  <2>2. \A t \in Terms : t < NTERM
    BY <1>3 DEF Terms
  <2>3. \A t \in Terms : schedule_pcb[t] \in Live /\ t \in Live /\ schedule_pcb[t] # NULL
    BY <1>1, <2>1, <2>2 DEF Tree
  <2>4. \A t, u \in Terms : schedule_pcb[t] = schedule_pcb[u] => t = u
    BY <1>1, <2>1, <2>2 DEF Tree
  <2>5. esp \in Live /\ ~Runs(esp)
    BY <1>3, <1>9, <1>13, <2>1, <2>3, <2>4
  <2>6. ASSUME NEW p, p # a
        PROVE  Runs(p) <=> IsLeaf(p) /\ p # esp
    <3>1. cur_term \in Terms
      BY <1>3
    <3>2. Runs(p) => \E t \in Terms : t # cur_term /\ schedule_pcb[t] = p
      BY <1>9, <2>6
    <3>3. (\E t \in Terms : t # cur_term /\ schedule_pcb[t] = p) => Runs(p)
      BY <1>9
    <3>4. (\E t \in Terms : t # cur_term /\ schedule_pcb[t] = p) <=> IsLeaf(p) /\ p # esp
      BY <2>1, <2>4, <3>1 DEF IsLeaf
    <3> QED
      BY <3>2, <3>3, <3>4
  <2>7. \A p \in Live \ Base : parent_pcb[p] \in Live /\ ~IsLeaf(parent_pcb[p])
    BY <1>1 DEF Tree
  <2>8. Count' \in 1..NTERM
    BY <1>3, <1>8
  <2>9. \A t \in Terms : schedule_pcb'[t] # NULL <=> t < Count'
    BY <1>9, <2>1, <2>2, <2>3
  <2>10. \A t \in Terms : schedule_pcb'[t] \in Live' /\ t \in Live'
    BY <1>8, <1>9, <2>3
  <2>11. \A t, u \in Terms : schedule_pcb'[t] = schedule_pcb'[u] => t = u
    BY <1>9, <2>1, <2>3, <2>4
  <2>12. \A p \in Live' \ Base : parent_pcb'[p] \in Live' /\ ~Runs(parent_pcb[p])
    <3> SUFFICES ASSUME NEW p \in Live' \ Base
                 PROVE  parent_pcb[p] \in Live /\ ~Runs(parent_pcb[p])
      BY <1>4, <1>8
    <3>1. CASE p = a
      BY <2>1, <2>5, <3>1
    <3>2. CASE p # a
      BY <1>8, <2>1, <2>6, <2>7, <3>2
    <3> QED
      BY <3>1, <3>2
  <2>13. \A p, q \in Live' \ Base : parent_pcb'[p] = parent_pcb'[q] => p = q
    <3>1. \A p \in Live \ Base : parent_pcb[p] # esp
      BY <1>3, <2>7
    <3> QED
      BY <1>1, <1>4, <1>8, <2>1, <3>1 DEF Tree
  <2>14. \A p \in Live' : Runs(p) \/ \E q \in Live' \ Base : parent_pcb'[q] = p
    <3> SUFFICES ASSUME NEW p \in Live', p # a, p # esp
                 PROVE  Runs(p) \/ \E q \in Live' \ Base : parent_pcb[q] = p
      BY <1>2, <1>4, <1>8, <1>10, <2>1
    <3>1. p \in Live /\ (IsLeaf(p) \/ \E q \in Live \ Base : parent_pcb[q] = p)
      BY <1>1, <1>8 DEF Tree
    <3> QED
      BY <1>8, <2>6, <3>1
  <2> QED
    BY <1>3, <2>1, <2>8, <2>9, <2>10, <2>11, <2>12, <2>13, <2>14, <1>4 DEF Tree, IsLeaf
<1>14. ASSUME ~Launching, a = esp
      PROVE  Tree'
  <2>1. schedule_pcb' = schedule_pcb /\ Live' = Live /\ Count' = Count
    BY <1>1, <1>2, <1>3, <1>4, <1>7, <1>8, <1>14 DEF TypeOK
  <2> QED
    BY <1>1, <1>4, <2>1 DEF Tree, IsLeaf
<1>15. ASSUME ~Launching
      PROVE  Focus'
  <2>1. schedule_pcb'[cur_term'] = a /\ Count' = NTERM /\ (a # esp => ~Top.irq)
    BY <1>2, <1>3, <1>4, <1>8, <1>9, <1>15
  <2>2. next_term' = (cur_term' + 1) % NTERM
    BY <1>4 DEF IInv, Focus
  <2> QED
    BY <1>2, <1>3, <1>4, <1>5, <1>6, <1>15, <2>1, <2>2 DEF Focus, Plain
<1>16. Saved'
  <2> SUFFICES ASSUME NEW t \in Terms, t # cur_term, schedule_pcb[t] # NULL,
                      schedule_pcb[t] # esp
               PROVE  stk'[schedule_pcb[t]] # <<>> /\ stk'[schedule_pcb[t]][1].at = "back"
    BY <1>4, <1>5, <1>6, <1>9 DEF Saved
  <2>1. schedule_pcb[t] \in Slots
    BY <1>1 DEF TypeOK
  <2> QED
    BY <1>1, <1>5, <2>1 DEF OnlyStackOf, Saved, IInv
<1>17. Waits'
  <2> SUFFICES ASSUME NEW q \in Live' \ Base
               PROVE  \/ LET s == stk'[parent_pcb[q]] IN
                          s # <<>> /\ s[1].at = "wait" /\ s[1].arg = q
                      \/ ~Top.irq /\ q = a
    BY <1>4, <1>5, <1>6 DEF Waits
  <2>1. CASE q = a
    <3>1. a # esp
      BY <1>2, <2>1
    <3>2. ~Launching
      BY <1>2, <1>3, <2>1 DEF Base, Terms
    <3> QED
      BY <1>3, <2>1, <3>1, <3>2
  <2>2. CASE q # a
    <3>1. q \in Live \ Base
      BY <1>8, <2>2
    <3>2. parent_pcb[q] \in Slots /\ parent_pcb[q] # esp
      BY <1>1, <1>3, <3>1 DEF Tree, TypeOK, Live, Doomed
    <3> QED
      BY <1>1, <1>5, <3>1, <3>2 DEF OnlyStackOf, Waits, IInv
  <2> QED
    BY <2>1, <2>2
<1>19. Signals'
  BY <1>1, <1>4, <1>5, StillPending
<1>20. Tree' /\ Focus'
  BY <1>12, <1>13, <1>14, <1>15
<1>21. SameLinks \/ ShellLinked \/ \E p \in Slots : ProgramLinked(p)
  <2>1. ASSUME Launching
        PROVE  ShellLinked
    <3>1. a = cur_term /\ Count < NTERM /\ a # esp
      BY <1>2, <1>3, <2>1
    <3>2. cur_term = Count
      BY <1>2, <2>1
    <3>3. schedule_pcb[cur_term] = NULL
      BY <1>1, <1>3, <3>1, <3>2 DEF Tree
    <3>4. a \notin Live
      BY <1>1, <1>2, <1>7, <3>1 DEF TypeOK
    <3> QED
      BY <1>3, <1>4, <1>8, <3>1, <3>3, <3>4 DEF ShellLinked
  <2>2. ASSUME ~Launching, a # esp
        PROVE  ProgramLinked(a)
    <3>1. a \notin Live /\ a \notin Base /\ parent_pcb[a] = esp /\ schedule_pcb[cur_term] = esp
      BY <1>1, <1>2, <1>7, <2>2 DEF TypeOK
    <3>2. esp # NULL
      BY <1>1 DEF Slots, NULL
    <3> QED
      BY <1>3, <1>4, <1>8, <3>1, <3>2 DEF ProgramLinked
  <2>3. ASSUME ~Launching, a = esp
        PROVE  SameLinks
    BY <1>1, <1>2, <1>3, <1>4, <1>7, <1>8, <2>3 DEF TypeOK, SameLinks
  <2> QED
    BY <1>2, <2>1, <2>2, <2>3
<1> QED
  BY <1>5, <1>11, <1>16, <1>17, <1>19, <1>20, <1>21 DEF IInv

(* execute maps the image of the new process.                              *)
LEMMA MapImageInv ==
  ASSUME IInv, MapImage
  PROVE  IInv' /\ SameLinks
<1> DEFINE a == Top.arg
<1>1. /\ ~InUser /\ Top.at = "map" /\ TypeOK /\ Stacks /\ Tree /\ Goto("enter")
      /\ Top \in Frame /\ stk[esp] # <<>> /\ Top = stk[esp][1] /\ 1 \in 1..Len(stk[esp])
      /\ esp \in Slots
  BY TopInFrame, EmptySeq DEF MapImage, At, IInv, TypeOK
<1>2. /\ a \in Slots \ pending /\ schedule_pcb[cur_term] = a
      /\ \/ a = esp /\ esp \in Base
         \/ a \notin Base /\ parent_pcb[a] = esp /\ ~Top.irq
         \/ a \in Base /\ a # esp /\ IsLeaf(esp) /\ Top.irq
  BY <1>1 DEF IInv, Focus
<1>3. /\ page' = a
      /\ UNCHANGED <<PCBs, parent_pcb, pending, schedule_pcb, cur_term, next_term, term_num,
                     esp0, esp, iflag, exeret, store_eax>>
  BY DEF MapImage, proc, sched, retval
<1>4. /\ stk' \in [Slots -> Seq(Frame)] /\ OnlyStackOf(esp) /\ Stacks'
      /\ stk'[esp] # <<>> /\ stk'[esp][1].at = "enter"
      /\ stk'[esp][1].irq = Top.irq /\ stk'[esp][1].arg = a
  <2>1. Fits(Top.irq, "enter") /\ "enter" \in Labels
    BY DEF Fits, Labels, ExecLabels
  <2> QED
    BY <1>1, <2>1, GotoEffect
<1> HIDE DEF a
<1>5. ~InUser' /\ Top' = stk'[esp][1]
  BY <1>3, <1>4 DEF InUser, Top
<1>6. Count = term_num /\ ~Launching /\ Live = PCBs
  BY <1>1, CountIsTermNum, LiveIsPCBs
<1>7. /\ ~Launching' /\ Count' = Count /\ Live' = Live
      /\ \A p : IsLeaf(p)' <=> IsLeaf(p)
  BY <1>3, <1>4, <1>5, <1>6 DEF Launching, Count, Live, Doomed, Unborn, IsLeaf, TypeOK
<1>8. TypeOK'
  BY <1>1, <1>2, <1>3, <1>4 DEF TypeOK
<1>9. Tree'
  BY <1>1, <1>3, <1>7 DEF Tree, IsLeaf
<1>10. Focus'
  BY <1>1, <1>2, <1>3, <1>4, <1>5, <1>6, <1>7 DEF IInv, Focus, Plain
<1>11. Saved'
  BY <1>1, <1>2, <1>3, <1>4, <1>5 DEF IInv, Saved, OnlyStackOf, TypeOK
<1>12. Waits'
  <2> SUFFICES ASSUME NEW q \in Live \ Base
               PROVE  \/ LET s == stk'[parent_pcb[q]] IN
                          s # <<>> /\ s[1].at = "wait" /\ s[1].arg = q
                      \/ ~Top.irq /\ q = a
    BY <1>3, <1>4, <1>5, <1>7 DEF Waits
  <2>1. parent_pcb[q] \in Slots
    BY <1>1 DEF Tree, TypeOK, Live, Doomed
  <2>2. \/ LET s == stk[parent_pcb[q]] IN s # <<>> /\ s[1].at = "wait" /\ s[1].arg = q
        \/ ~Top.irq /\ q = a
    BY DEF IInv, Waits, a
  <2> QED
    BY <1>1, <1>4, <2>1, <2>2 DEF OnlyStackOf
<1>14. Signals'
  BY <1>1, <1>3, <1>4, StillPending
<1> QED
  BY <1>4, <1>8, <1>9, <1>10, <1>11, <1>12, <1>14, <1>3, <1>7 DEF IInv, SameLinks

(* Relabelling the innermost frame of p and emptying the stack of q, which *)
(* is how execute enters a program and how halt leaves one.                *)
LEMMA SetAndClearEffect ==
  ASSUME TypeOK, Stacks, NEW p \in Slots, NEW q \in Slots, stk[p] # <<>>,
         NEW l \in Labels, Fits(stk[p][1].irq, l),
         p # q /\ l = "wait" => stk[p][1].arg \notin Base,
         stk' = [[stk EXCEPT ![p][1].at = l] EXCEPT ![q] = <<>>]
  PROVE  /\ stk' \in [Slots -> Seq(Frame)] /\ Stacks'
         /\ stk'[q] = <<>>
         /\ p # q => /\ stk'[p] # <<>> /\ stk'[p][1].at = l
                     /\ stk'[p][1].arg = stk[p][1].arg /\ stk'[p][1].irq = stk[p][1].irq
         /\ \A r \in Slots : r # p /\ r # q => stk'[r] = stk[r]
<1> DEFINE s == stk[p]
           f == [s[1] EXCEPT !.at = l]
           t == [s EXCEPT ![1] = f]
<1>1. s \in Seq(Frame) /\ Len(s) \in Nat \ {0} /\ 1 \in 1..Len(s) /\ s[1] \in Frame
  BY EmptySeq, ElementOfSeq, LenProperties DEF TypeOK
<1>2. f \in Frame /\ f.at = l /\ f.irq = s[1].irq /\ f.ifl = s[1].ifl /\ f.arg = s[1].arg
  BY <1>1 DEF Frame
<1> HIDE DEF f
<1>3. /\ t \in Seq(Frame) /\ Len(t) = Len(s)
      /\ \A j \in 1..Len(s) : t[j] = IF j = 1 THEN f ELSE s[j]
  BY <1>1, <1>2, ExceptSeq
<1>4. t # <<>> /\ t[1] = f
  BY <1>1, <1>3, EmptySeq
<1>5. \A r \in Slots : stk'[r] = IF r = q THEN <<>> ELSE IF r = p THEN t ELSE stk[r]
  BY DEF TypeOK, f
<1>6. DOMAIN stk' = Slots /\ stk' = [r \in Slots |-> stk'[r]]
  BY DEF TypeOK
<1> HIDE DEF t
<1>7. <<>> \in Seq(Frame)
  OBVIOUS
<1>8. stk' \in [Slots -> Seq(Frame)]
  <2>1. \A r \in Slots : stk'[r] \in Seq(Frame)
    BY <1>3, <1>5, <1>7 DEF TypeOK
  <2> QED
    BY <1>6, <2>1
<1>9. Stacks'
  <2> SUFFICES ASSUME NEW r \in Slots, NEW i \in 1..Len(stk'[r])
               PROVE  LET g == stk'[r][i] IN
                      /\ i < Len(stk'[r]) => g.irq /\ g.ifl
                      /\ i > 1 => g.at \in Preemptible
                      /\ Fits(g.irq, g.at)
                      /\ g.at = "wait" => g.arg \notin Base
    BY DEF Stacks, Fits, Preemptible
  <2>1. CASE r = q
    <3>1. stk'[r] = <<>>
      BY <1>5, <2>1
    <3> QED
      BY <3>1
  <2>2. CASE r # q /\ r # p
    <3>1. stk'[r] = stk[r]
      BY <1>5, <2>2
    <3> QED
      BY <3>1 DEF Stacks, Fits, Preemptible
  <2>3. CASE r # q /\ r = p
    <3>1. stk'[r] = t
      BY <1>5, <2>3
    <3>2. i \in 1..Len(s) /\ Len(stk'[r]) = Len(s)
      BY <1>3, <3>1
    <3>3. CASE i = 1
      BY <2>3, <1>1, <1>2, <1>4, <3>1, <3>2, <3>3 DEF Stacks, Fits, Preemptible
    <3>4. CASE i # 1
      <4>1. stk'[r][i] = s[i]
        BY <1>3, <3>1, <3>2, <3>4
      <4> QED
        BY <3>2, <4>1 DEF Stacks, Fits, Preemptible
    <3> QED
      BY <3>3, <3>4
  <2> QED
    BY <2>1, <2>2, <2>3
<1> QED
  BY <1>2, <1>4, <1>5, <1>8, <1>9

(* The iret into the new program: its parent now waits, or, when            *)
(* scheduling() launched a shell, is saved.                                *)
LEMMA EnterProgramInv ==
  ASSUME IInv, EnterProgram
  PROVE  IInv' /\ SameLinks
<1> DEFINE a == Top.arg
           l == IF Top.irq THEN "back" ELSE "wait"
<1>1. /\ ~InUser /\ Top.at = "enter" /\ TypeOK /\ Stacks /\ Tree
      /\ Top \in Frame /\ stk[esp] # <<>> /\ Top = stk[esp][1] /\ 1 \in 1..Len(stk[esp])
      /\ esp \in Slots
  BY TopInFrame, EmptySeq DEF EnterProgram, At, IInv, TypeOK
<1>2. /\ a \in Slots \ pending /\ schedule_pcb[cur_term] = a /\ page = a
      /\ \/ a = esp /\ esp \in Base
         \/ a \notin Base /\ parent_pcb[a] = esp /\ ~Top.irq
         \/ a \in Base /\ a # esp /\ IsLeaf(esp) /\ Top.irq
  BY <1>1 DEF IInv, Focus
<1>3. /\ esp0' = a /\ esp' = a
      /\ stk' = [[stk EXCEPT ![esp][1].at = l] EXCEPT ![a] = <<>>]
      /\ UNCHANGED <<PCBs, parent_pcb, pending, schedule_pcb, cur_term, next_term, term_num,
                     page, iflag, exeret, store_eax>>
  BY DEF EnterProgram, proc, sched, retval
<1>4. /\ Fits(stk[esp][1].irq, l) /\ l \in Labels /\ a \in Slots
      /\ esp # a /\ l = "wait" => stk[esp][1].arg \notin Base
  BY <1>1, <1>2 DEF Fits, Labels, Frame
<1> HIDE DEF a, l
<1>5. /\ stk' \in [Slots -> Seq(Frame)] /\ Stacks'
      /\ stk'[a] = <<>>
      /\ esp # a => stk'[esp] # <<>> /\ stk'[esp][1].at = l /\ stk'[esp][1].arg = a
      /\ \A r \in Slots : r # esp /\ r # a => stk'[r] = stk[r]
  <2>1. /\ stk' \in [Slots -> Seq(Frame)] /\ Stacks'
        /\ stk'[a] = <<>>
        /\ esp # a => /\ stk'[esp] # <<>> /\ stk'[esp][1].at = l
                      /\ stk'[esp][1].arg = stk[esp][1].arg
                      /\ stk'[esp][1].irq = stk[esp][1].irq
        /\ \A r \in Slots : r # esp /\ r # a => stk'[r] = stk[r]
    BY <1>1, <1>3, <1>4, SetAndClearEffect
  <2> QED
    BY <1>1, <2>1 DEF a
<1>6. InUser'
  BY <1>3, <1>5 DEF InUser
<1>7. Count = term_num /\ ~Launching /\ Live = PCBs
  BY <1>1, CountIsTermNum, LiveIsPCBs
<1>8. ~Launching' /\ Count' = Count /\ Live' = Live
  BY <1>3, <1>6, <1>7 DEF Launching, Count, Live, Doomed, Unborn
<1>9. TypeOK'
  BY <1>1, <1>2, <1>3, <1>4, <1>5 DEF TypeOK
<1>10. Tree'
  BY <1>1, <1>3, <1>8 DEF Tree, IsLeaf
<1>11. Focus'
  BY <1>1, <1>2, <1>3, <1>6, <1>7, <1>8 DEF IInv, Focus
<1>12. IsLeaf(a) /\ a \in Live /\ cur_term \in Terms
  BY <1>1, <1>2 DEF Tree, TypeOK, IsLeaf, Slots, NULL
<1>13. a # esp /\ IsLeaf(esp) => Top.irq
  BY <1>1, <1>2, <1>12 DEF Tree
<1>14. Saved'
  <2> SUFFICES ASSUME NEW t \in Terms, schedule_pcb[t] # NULL, schedule_pcb[t] # a
               PROVE  stk'[schedule_pcb[t]] # <<>> /\ stk'[schedule_pcb[t]][1].at = "back"
    BY <1>3 DEF Saved
  <2>1. t # cur_term /\ schedule_pcb[t] \in Slots
    BY <1>1, <1>2 DEF TypeOK
  <2>2. CASE schedule_pcb[t] = esp
    <3>1. esp # a /\ Top.irq
      BY <1>13, <2>2 DEF IsLeaf
    <3> QED
      BY <1>5, <2>2, <3>1 DEF l
  <2>3. CASE schedule_pcb[t] # esp
    BY <1>5, <2>1, <2>3 DEF IInv, Saved
  <2> QED
    BY <2>2, <2>3
<1>15. Waits'
  <2> SUFFICES ASSUME NEW q \in Live \ Base
               PROVE  LET s == stk'[parent_pcb[q]] IN
                       s # <<>> /\ s[1].at = "wait" /\ s[1].arg = q
    BY <1>3, <1>8 DEF Waits
  <2>1. parent_pcb[q] \in Slots /\ parent_pcb[q] # a
    BY <1>1, <1>12 DEF Tree, TypeOK, Live, Doomed
  <2>2. CASE q = a
    <3>1. ~Top.irq /\ ~(a = esp /\ esp \in Base)
      BY <1>2, <2>2
    <3>2. parent_pcb[a] = esp
      BY <1>2, <2>2, <3>1
    <3> QED
      BY <1>5, <2>1, <2>2, <3>1, <3>2 DEF l
  <2>3. CASE q # a
    <3>1. LET s == stk[parent_pcb[q]] IN s # <<>> /\ s[1].at = "wait" /\ s[1].arg = q
      BY <2>3 DEF IInv, Waits, a
    <3> QED
      BY <1>1, <1>5, <2>1, <3>1
  <2> QED
    BY <2>2, <2>3
<1>17. Signals'
  <2>1. esp \notin pending
    BY <1>1 DEF IInv, Signals
  <2> QED
    BY ZenonT(60), <1>1, <1>2, <1>3, <1>5, <2>1 DEF IInv, Signals, TypeOK
<1> QED
  BY <1>5, <1>9, <1>10, <1>11, <1>14, <1>15, <1>17, <1>3, <1>8 DEF IInv, SameLinks

(* halt, in each of its statements, runs for the process of cur_term.      *)
LEMMA HaltFacts ==
  ASSUME IInv, ~InUser, Top.at \in {"halt", "unmap", "remove", "resched"}
  PROVE  /\ TypeOK /\ Stacks /\ Tree /\ stk[esp] # <<>> /\ 1 \in 1..Len(stk[esp])
         /\ Top \in Frame /\ Top = stk[esp][1] /\ esp \in Slots /\ esp \notin pending
         /\ schedule_pcb[cur_term] = esp /\ cur_term \in Terms /\ IsLeaf(esp) /\ esp \in Live
         /\ Count = NTERM /\ term_num = NTERM /\ ~Launching
         /\ Live = PCBs \cup (IF Top.at = "resched" THEN {esp} ELSE {})
<1>1. /\ TypeOK /\ Stacks /\ Tree /\ stk[esp] # <<>> /\ 1 \in 1..Len(stk[esp])
      /\ Top \in Frame /\ Top = stk[esp][1] /\ esp \in Slots
  BY TopInFrame, EmptySeq DEF IInv, TypeOK
<1>2. esp \notin pending
  BY <1>1 DEF IInv, Signals
<1>3. schedule_pcb[cur_term] = esp /\ cur_term \in Terms /\ IsLeaf(esp) /\ term_num = NTERM
  BY <1>1 DEF IInv, Focus, Plain, TypeOK, IsLeaf
<1>4. Count = NTERM /\ ~Launching
  BY <1>3, CountIsTermNum
<1>5. esp \in Live
  BY <1>1, <1>3 DEF Tree, Slots, NULL
<1>6. Live = PCBs \cup (IF Top.at = "resched" THEN {esp} ELSE {})
  BY <1>1 DEF Live, Doomed, Unborn, IInv, Focus
<1> QED
  BY <1>1, <1>2, <1>3, <1>4, <1>5, <1>6

(* halt records the status and splits on base shells.                      *)
LEMMA HaltInv ==
  ASSUME IInv, Halt
  PROVE  IInv' /\ SameLinks
<1> DEFINE l == IF esp \in Base THEN "respawn" ELSE "unmap"
<1>1. ~InUser /\ Top.at = "halt"
  BY DEF Halt, At
<1>2. /\ TypeOK /\ Stacks /\ Tree /\ stk[esp] # <<>> /\ 1 \in 1..Len(stk[esp])
      /\ Top \in Frame /\ Top = stk[esp][1] /\ esp \in Slots /\ esp \notin pending
      /\ schedule_pcb[cur_term] = esp /\ cur_term \in Terms /\ IsLeaf(esp) /\ esp \in PCBs
      /\ Count = NTERM /\ term_num = NTERM /\ ~Launching
      /\ Live = PCBs
  BY <1>1, HaltFacts
<1>4. /\ PCBs' = PCBs \ (IF esp \in Base THEN {esp} ELSE {})
      /\ Goto(l) /\ exeret' = esp
      /\ UNCHANGED <<parent_pcb, pending, schedule_pcb, cur_term, next_term, term_num, page,
                     esp0, esp, iflag, store_eax>>
  BY DEF Halt, sched
<1>5. /\ stk' \in [Slots -> Seq(Frame)] /\ OnlyStackOf(esp) /\ Stacks'
      /\ stk'[esp] # <<>> /\ stk'[esp][1].at = l /\ stk'[esp][1].irq = Top.irq
  <2>1. Fits(Top.irq, l) /\ l \in Labels
    BY DEF Fits, Labels, HaltLabels
  <2> QED
    BY <1>1, <1>2, <1>4, <2>1, GotoEffect
<1>6. ~InUser' /\ Top' = stk'[esp][1]
  BY <1>4, <1>5 DEF InUser, Top
<1>7. /\ ~Launching' /\ Count' = Count /\ Live' = Live
      /\ \A p : IsLeaf(p)' <=> IsLeaf(p)
  BY <1>2, <1>4, <1>5, <1>6 DEF Launching, Count, Live, Doomed, Unborn, IsLeaf
<1>8. TypeOK'
  BY <1>2, <1>4, <1>5 DEF TypeOK
<1>9. Tree'
  BY <1>2, <1>4, <1>7 DEF Tree, IsLeaf
<1>10. Focus'
  BY <1>1, <1>2, <1>4, <1>5, <1>6, <1>7 DEF IInv, Focus, Plain
<1>11. Saved' /\ Waits'
  BY <1>1, <1>2, <1>4, <1>5, <1>7, StillSaved, StillWaits
<1>13. Signals'
  BY <1>1, <1>4, <1>5, StillPending
<1> QED
  BY <1>5, <1>8, <1>9, <1>10, <1>11, <1>13, <1>4, <1>7 DEF IInv, SameLinks

(* halt maps the parent's image.                                           *)
LEMMA HaltMapParentInv ==
  ASSUME IInv, HaltMapParent
  PROVE  IInv' /\ SameLinks
<1>1. ~InUser /\ Top.at = "unmap" /\ Goto("remove")
  BY DEF HaltMapParent, At
<1>2. /\ TypeOK /\ Stacks /\ Tree /\ stk[esp] # <<>> /\ 1 \in 1..Len(stk[esp])
      /\ Top \in Frame /\ Top = stk[esp][1] /\ esp \in Slots /\ esp \notin pending
      /\ schedule_pcb[cur_term] = esp /\ cur_term \in Terms /\ IsLeaf(esp) /\ esp \in PCBs
      /\ Count = NTERM /\ term_num = NTERM /\ ~Launching
      /\ Live = PCBs
  BY <1>1, HaltFacts
<1>3. esp \notin Base
  BY <1>1 DEF IInv, Focus
<1>4. /\ page' = parent_pcb[esp]
      /\ UNCHANGED <<PCBs, parent_pcb, pending, schedule_pcb, cur_term, next_term, term_num,
                     esp0, esp, iflag, exeret, store_eax>>
  BY DEF HaltMapParent, proc, sched, retval
<1>5. /\ stk' \in [Slots -> Seq(Frame)] /\ OnlyStackOf(esp) /\ Stacks'
      /\ stk'[esp] # <<>> /\ stk'[esp][1].at = "remove" /\ stk'[esp][1].irq = Top.irq
  <2>1. Fits(Top.irq, "remove") /\ "remove" \in Labels
    BY DEF Fits, Labels, HaltLabels
  <2> QED
    BY <1>1, <1>2, <2>1, GotoEffect
<1>6. ~InUser' /\ Top' = stk'[esp][1]
  BY <1>4, <1>5 DEF InUser, Top
<1>7. /\ ~Launching' /\ Count' = Count /\ Live' = Live
      /\ \A p : IsLeaf(p)' <=> IsLeaf(p)
  BY <1>2, <1>4, <1>5, <1>6 DEF Launching, Count, Live, Doomed, Unborn, IsLeaf
<1>8. parent_pcb[esp] \in Slots
  BY <1>2, <1>3 DEF Tree, TypeOK
<1>9. TypeOK'
  BY <1>2, <1>4, <1>5, <1>8 DEF TypeOK
<1>10. Tree'
  BY <1>2, <1>4, <1>7 DEF Tree, IsLeaf
<1>11. Focus'
  BY <1>1, <1>2, <1>3, <1>4, <1>5, <1>6, <1>7 DEF IInv, Focus, Plain
<1>12. Saved' /\ Waits'
  BY <1>1, <1>2, <1>4, <1>5, <1>7, StillSaved, StillWaits
<1>14. Signals'
  BY <1>1, <1>4, <1>5, StillPending
<1> QED
  BY <1>5, <1>9, <1>10, <1>11, <1>12, <1>14, <1>4, <1>7 DEF IInv, SameLinks

(* halt frees the slot; the process stays linked for one more statement.   *)
LEMMA HaltRemovePCBInv ==
  ASSUME IInv, HaltRemovePCB
  PROVE  IInv' /\ SameLinks
<1>1. ~InUser /\ Top.at = "remove" /\ Goto("resched")
  BY DEF HaltRemovePCB, At
<1>2. /\ TypeOK /\ Stacks /\ Tree /\ stk[esp] # <<>> /\ 1 \in 1..Len(stk[esp])
      /\ Top \in Frame /\ Top = stk[esp][1] /\ esp \in Slots /\ esp \notin pending
      /\ schedule_pcb[cur_term] = esp /\ cur_term \in Terms /\ IsLeaf(esp) /\ esp \in PCBs
      /\ Count = NTERM /\ term_num = NTERM /\ ~Launching
      /\ Live = PCBs
  BY <1>1, HaltFacts
<1>3. esp \notin Base /\ page = parent_pcb[esp]
  BY <1>1 DEF IInv, Focus
<1>4. /\ PCBs' = PCBs \ {esp}
      /\ UNCHANGED <<parent_pcb, pending, schedule_pcb, cur_term, next_term, term_num,
                     page, esp0, esp, iflag, exeret, store_eax>>
  BY DEF HaltRemovePCB, sched, retval
<1>5. /\ stk' \in [Slots -> Seq(Frame)] /\ OnlyStackOf(esp) /\ Stacks'
      /\ stk'[esp] # <<>> /\ stk'[esp][1].at = "resched" /\ stk'[esp][1].irq = Top.irq
  <2>1. Fits(Top.irq, "resched") /\ "resched" \in Labels
    BY DEF Fits, Labels, HaltLabels
  <2> QED
    BY <1>1, <1>2, <2>1, GotoEffect
<1>6. ~InUser' /\ Top' = stk'[esp][1]
  BY <1>4, <1>5 DEF InUser, Top
<1>7. /\ ~Launching' /\ Count' = Count /\ Live' = Live
      /\ \A p : IsLeaf(p)' <=> IsLeaf(p)
  BY <1>2, <1>4, <1>5, <1>6 DEF Launching, Count, Live, Doomed, Unborn, IsLeaf
<1>8. TypeOK'
  BY <1>2, <1>4, <1>5 DEF TypeOK
<1>9. Tree'
  BY <1>2, <1>4, <1>7 DEF Tree, IsLeaf
<1>10. Focus'
  BY <1>1, <1>2, <1>3, <1>4, <1>5, <1>6, <1>7 DEF IInv, Focus, Plain
<1>11. Saved' /\ Waits'
  BY <1>1, <1>2, <1>4, <1>5, <1>7, StillSaved, StillWaits
<1>13. Signals'
  BY <1>1, <1>4, <1>5, StillPending
<1> QED
  BY <1>5, <1>8, <1>9, <1>10, <1>11, <1>13, <1>4, <1>7 DEF IInv, SameLinks

(* The parent takes over the terminal of the process that leaves.          *)
LEMMA HaltRescheduleInv ==
  ASSUME IInv, HaltReschedule
  PROVE  IInv' /\ ProgramUnlinked
<1> DEFINE u == parent_pcb[esp]
           Runs(p) == \E t \in Terms : schedule_pcb'[t] = p
<1>1. ~InUser /\ Top.at = "resched" /\ Goto("return")
  BY DEF HaltReschedule, At
<1>2. /\ TypeOK /\ Stacks /\ Tree /\ stk[esp] # <<>> /\ 1 \in 1..Len(stk[esp])
      /\ Top \in Frame /\ Top = stk[esp][1] /\ esp \in Slots /\ esp \notin pending
      /\ schedule_pcb[cur_term] = esp /\ cur_term \in Terms /\ IsLeaf(esp) /\ esp \in Live
      /\ Count = NTERM /\ term_num = NTERM /\ ~Launching
      /\ Live = PCBs \cup {esp}
  BY <1>1, HaltFacts
<1>3. esp \notin Base /\ page = u /\ esp \notin PCBs
  BY <1>1 DEF IInv, Focus
<1>4. /\ schedule_pcb' = [schedule_pcb EXCEPT ![cur_term] = u]
      /\ UNCHANGED <<PCBs, parent_pcb, pending, cur_term, next_term, term_num,
                     page, esp0, esp, iflag, exeret, store_eax>>
  BY DEF HaltReschedule, proc, retval
<1>5. /\ stk' \in [Slots -> Seq(Frame)] /\ OnlyStackOf(esp) /\ Stacks'
      /\ stk'[esp] # <<>> /\ stk'[esp][1].at = "return" /\ stk'[esp][1].irq = Top.irq
  <2>1. Fits(Top.irq, "return") /\ "return" \in Labels
    BY DEF Fits, Labels, HaltLabels
  <2> QED
    BY <1>1, <1>2, <2>1, GotoEffect
<1>6. ~InUser' /\ Top' = stk'[esp][1]
  BY <1>4, <1>5 DEF InUser, Top
<1>7. u \in Live /\ ~IsLeaf(u) /\ u # esp /\ u \in Slots /\ u # NULL
  BY <1>2, <1>3 DEF Tree, TypeOK, Slots, NULL
<1>8. LET s == stk[u] IN s # <<>> /\ s[1].at = "wait" /\ s[1].arg = esp
  BY <1>1, <1>2, <1>3 DEF IInv, Waits
<1> HIDE DEF u
<1>9. ~Launching' /\ Count' = NTERM /\ Live' = PCBs /\ Live' = Live \ {esp}
  BY <1>2, <1>3, <1>4, <1>5, <1>6 DEF Launching, Count, Live, Doomed, Unborn
<1>10. \A t \in Terms : schedule_pcb'[t] = IF t = cur_term THEN u ELSE schedule_pcb[t]
  BY <1>2, <1>4 DEF TypeOK
<1>11. TypeOK'
  BY <1>2, <1>4, <1>5, <1>7 DEF TypeOK
<1>12. /\ \A t \in Terms : t < NTERM /\ schedule_pcb[t] # NULL
                            /\ schedule_pcb[t] \in Live /\ t \in Live
       /\ \A t, v \in Terms : schedule_pcb[t] = schedule_pcb[v] => t = v
       /\ \A p \in Live \ Base : parent_pcb[p] \in Live /\ ~IsLeaf(parent_pcb[p])
  <2>1. \A t \in Terms : t < NTERM
    BY SizeAssumption DEF Terms
  <2> QED
    BY <1>2, <2>1 DEF Tree
<1>13. Tree'
  <2>1. Count' \in 1..NTERM
    BY <1>9, SizeAssumption
  <2>2. \A t \in Terms : schedule_pcb'[t] # NULL <=> t < Count'
    BY <1>7, <1>9, <1>10, <1>12
  <2>3. \A t \in Terms : schedule_pcb'[t] \in Live' /\ t \in Live'
    BY <1>2, <1>3, <1>7, <1>9, <1>10, <1>12 DEF Base
  <2>4. \A t, v \in Terms : schedule_pcb'[t] = schedule_pcb'[v] => t = v
    BY <1>7, <1>10, <1>12 DEF IsLeaf
  <2>5. \A p \in Live' \ Base : parent_pcb'[p] \in Live' /\ ~Runs(parent_pcb[p])
    <3> SUFFICES ASSUME NEW p \in Live' \ Base
                 PROVE  parent_pcb[p] \in Live' /\ ~Runs(parent_pcb[p])
      BY <1>4
    <3>1. p \in Live \ Base /\ p # esp
      BY <1>9
    <3>2. parent_pcb[p] \in Live /\ ~IsLeaf(parent_pcb[p]) /\ parent_pcb[p] # esp
      BY <1>2, <1>12, <3>1
    <3>3. parent_pcb[p] # u
      BY <1>2, <1>3, <3>1 DEF Tree, u
    <3> QED
      BY <1>9, <1>10, <3>2, <3>3 DEF IsLeaf
  <2>6. \A p, q \in Live' \ Base : parent_pcb'[p] = parent_pcb'[q] => p = q
    BY <1>2, <1>4, <1>9 DEF Tree
  <2>7. \A p \in Live' : Runs(p) \/ \E q \in Live' \ Base : parent_pcb'[q] = p
    <3> SUFFICES ASSUME NEW p \in Live \ {esp}, p # u
                 PROVE  Runs(p) \/ \E q \in Live' \ Base : parent_pcb[q] = p
      BY <1>2, <1>4, <1>9, <1>10
    <3>1. CASE IsLeaf(p)
      <4>1. PICK t \in Terms : schedule_pcb[t] = p
        BY <3>1 DEF IsLeaf
      <4>2. t # cur_term
        BY <1>2, <4>1
      <4> QED
        BY <1>10, <4>1, <4>2
    <3>2. CASE ~IsLeaf(p)
      <4>1. PICK q \in Live \ Base : parent_pcb[q] = p
        BY <1>2, <3>2 DEF Tree
      <4>2. q # esp
        BY <4>1 DEF u
      <4> QED
        BY <1>9, <4>1, <4>2
    <3> QED
      BY <3>1, <3>2
  <2>8. ~(Count' < NTERM)
    BY <1>9, SizeAssumption
  <2> QED
    BY <2>1, <2>2, <2>3, <2>4, <2>5, <2>6, <2>7, <2>8, <1>4 DEF Tree, IsLeaf
<1>14. Focus'
  <2>1. schedule_pcb'[cur_term'] = u /\ page' = u /\ parent_pcb'[esp'] = u /\ stk'[u] = stk[u]
    BY <1>2, <1>3, <1>4, <1>5, <1>7, <1>10 DEF OnlyStackOf, u
  <2>2. next_term' = (cur_term' + 1) % NTERM /\ ~(Count' < NTERM)
    BY <1>4, <1>9, SizeAssumption DEF IInv, Focus
  <2> QED
    BY <1>2, <1>3, <1>4, <1>5, <1>6, <1>8, <1>9, <2>1, <2>2 DEF Focus, Plain
<1>15. Saved'
  <2> SUFFICES ASSUME NEW t \in Terms, t # cur_term, schedule_pcb[t] # NULL,
                      schedule_pcb[t] # esp
               PROVE  stk'[schedule_pcb[t]] # <<>> /\ stk'[schedule_pcb[t]][1].at = "back"
    BY <1>4, <1>5, <1>6, <1>10 DEF Saved
  <2>1. schedule_pcb[t] \in Slots
    BY <1>2 DEF TypeOK
  <2> QED
    BY <1>5, <2>1 DEF OnlyStackOf, Saved, IInv
<1>16. Waits'
  BY <1>1, <1>2, <1>4, <1>5, <1>9, StillWaits
<1>18. Signals'
  BY <1>1, <1>4, <1>5, StillPending
<1>19. ProgramUnlinked
  BY <1>2, <1>3, <1>4, <1>9 DEF ProgramUnlinked, u
<1> QED
  BY <1>5, <1>11, <1>13, <1>14, <1>15, <1>16, <1>18, <1>19 DEF IInv

(* Back at haltret, on the stack of the process that called execute.       *)
LEMMA HaltReturnInv ==
  ASSUME IInv, HaltReturn
  PROVE  IInv' /\ SameLinks
<1> DEFINE u == parent_pcb[esp]
<1>1. /\ ~InUser /\ Top.at = "return" /\ TypeOK /\ Stacks /\ Tree /\ esp \in Slots
      /\ Top \in Frame /\ Top = stk[esp][1]
  BY TopInFrame DEF HaltReturn, At, IInv
<1>2. /\ esp \notin PCBs /\ esp \notin Base
      /\ schedule_pcb[cur_term] = u /\ page = u
      /\ stk[u] # <<>> /\ stk[u][1].at = "wait"
      /\ u \in Slots /\ u # NULL /\ cur_term \in Terms /\ term_num = NTERM
  BY <1>1 DEF IInv, Focus, TypeOK, Slots, NULL
<1>3. Count = term_num /\ ~Launching /\ Live = PCBs
  BY <1>1, CountIsTermNum, LiveIsPCBs
<1>4. IsLeaf(u) /\ u \in Live /\ u # esp
  BY <1>1, <1>2, <1>3 DEF IsLeaf, Tree
<1>5. /\ esp0' = u /\ esp' = u /\ iflag' = TRUE
      /\ UNCHANGED <<PCBs, parent_pcb, pending, schedule_pcb, cur_term, next_term, term_num,
                     page, exeret, store_eax>>
  BY DEF HaltReturn, proc, sched, retval
<1>6. stk' = [[stk EXCEPT ![u][1].at = "haltret"] EXCEPT ![esp] = <<>>]
  BY <1>1, <1>2, <1>4 DEF HaltReturn, TypeOK
<1> HIDE DEF u
<1>7. /\ stk' \in [Slots -> Seq(Frame)] /\ Stacks' /\ stk'[esp] = <<>>
      /\ stk'[u] # <<>> /\ stk'[u][1].at = "haltret" /\ ~stk'[u][1].irq
      /\ \A r \in Slots : r # u /\ r # esp => stk'[r] = stk[r]
  <2>1. 1 \in 1..Len(stk[u]) /\ stk[u][1] \in Frame
    BY <1>1, <1>2, EmptySeq, ElementOfSeq DEF TypeOK
  <2>2. ~stk[u][1].irq
    BY <1>1, <1>2, <2>1 DEF Stacks
  <2>3. Fits(stk[u][1].irq, "haltret") /\ "haltret" \in Labels
    BY <2>2 DEF Fits, Labels
  <2> DEFINE l == "haltret"
  <2>4. l \in Labels /\ stk' = [[stk EXCEPT ![u][1].at = l] EXCEPT ![esp] = <<>>]
        /\ Fits(stk[u][1].irq, l) /\ l # "wait"
    BY <1>6, <2>3
  <2> HIDE DEF l
  <2>5. /\ stk' \in [Slots -> Seq(Frame)] /\ Stacks' /\ stk'[esp] = <<>>
        /\ u # esp => /\ stk'[u] # <<>> /\ stk'[u][1].at = l
                      /\ stk'[u][1].arg = stk[u][1].arg /\ stk'[u][1].irq = stk[u][1].irq
        /\ \A r \in Slots : r # u /\ r # esp => stk'[r] = stk[r]
    <3>1. TypeOK /\ Stacks /\ u \in Slots /\ esp \in Slots /\ stk[u] # <<>>
      BY <1>1, <1>2
    <3>2. PICK w \in Slots : w = u
      BY <3>1
    <3>3. PICK e \in Slots : e = esp
      BY <3>1
    <3>4. /\ stk[w] # <<>> /\ Fits(stk[w][1].irq, l)
          /\ stk' = [[stk EXCEPT ![w][1].at = l] EXCEPT ![e] = <<>>]
      BY <2>4, <3>1, <3>2, <3>3
    <3>5. /\ stk' \in [Slots -> Seq(Frame)] /\ Stacks' /\ stk'[e] = <<>>
          /\ w # e => /\ stk'[w] # <<>> /\ stk'[w][1].at = l
                      /\ stk'[w][1].arg = stk[w][1].arg /\ stk'[w][1].irq = stk[w][1].irq
          /\ \A r \in Slots : r # w /\ r # e => stk'[r] = stk[r]
      BY ZenonT(60), <2>4, <3>1, <3>4, SetAndClearEffect
    <3> QED
      BY <3>2, <3>3, <3>5
  <2> QED
    BY <1>4, <2>2, <2>5 DEF l
<1>8. ~InUser' /\ Top' = stk'[u][1]
  BY <1>5, <1>7 DEF InUser, Top
<1>9. ~Launching' /\ Count' = Count /\ Live' = Live
  BY <1>3, <1>5, <1>7, <1>8 DEF Launching, Count, Live, Doomed, Unborn
<1>10. TypeOK'
  BY <1>1, <1>2, <1>5, <1>7 DEF TypeOK
<1>11. Tree'
  BY <1>1, <1>5, <1>9 DEF Tree, IsLeaf
<1>12. Focus'
  <2>1. next_term' = (cur_term' + 1) % NTERM /\ ~(Count' < NTERM)
    BY <1>2, <1>3, <1>5, <1>9, SizeAssumption DEF IInv, Focus
  <2> QED
    BY <1>2, <1>5, <1>7, <1>8, <1>9, <2>1 DEF Focus, Plain
<1>13. Saved'
  <2> SUFFICES ASSUME NEW t \in Terms, schedule_pcb[t] # NULL, schedule_pcb[t] # u
               PROVE  stk'[schedule_pcb[t]] # <<>> /\ stk'[schedule_pcb[t]][1].at = "back"
    BY <1>5 DEF Saved
  <2>1. t # cur_term /\ schedule_pcb[t] \in Slots /\ schedule_pcb[t] # esp
    BY <1>1, <1>2, <1>3 DEF TypeOK, Tree
  <2> QED
    BY <1>7, <2>1 DEF IInv, Saved
<1>14. Waits'
  <2> SUFFICES ASSUME NEW q \in Live \ Base
               PROVE  LET s == stk'[parent_pcb[q]] IN
                       s # <<>> /\ s[1].at = "wait" /\ s[1].arg = q
    BY <1>5, <1>9 DEF Waits
  <2>1. parent_pcb[q] \in Live /\ parent_pcb[q] # u /\ parent_pcb[q] # esp
    BY <1>1, <1>2, <1>3, <1>4 DEF Tree
  <2>2. LET s == stk[parent_pcb[q]] IN s # <<>> /\ s[1].at = "wait" /\ s[1].arg = q
    BY <1>1 DEF IInv, Waits
  <2>3. parent_pcb[q] \in Slots
    BY <1>1, <1>3, <2>1 DEF TypeOK
  <2> QED
    BY <1>7, <2>1, <2>2, <2>3
<1>16. Signals'
  BY ZenonT(60), <1>1, <1>2, <1>5, <1>7 DEF IInv, Signals, TypeOK
<1> QED
  BY <1>7, <1>10, <1>11, <1>12, <1>13, <1>14, <1>16,
     <1>5, <1>9 DEF IInv, SameLinks

(* scheduling() turns to the next terminal: to launch its shell, or to the *)
(* process it runs.                                                        *)
LEMMA ScheduleInv ==
  ASSUME IInv, Schedule
  PROVE  IInv' /\ SameLinks
<1>1. /\ ~InUser /\ Top.at = "pit" /\ TypeOK /\ Stacks /\ Tree /\ esp \in Slots
      /\ Top \in Frame /\ Top = stk[esp][1] /\ stk[esp] # <<>> /\ 1 \in 1..Len(stk[esp])
  BY TopInFrame, EmptySeq DEF Schedule, At, IInv, TypeOK
<1>2. /\ schedule_pcb[cur_term] = esp /\ page = esp /\ esp0 = esp
      /\ IsLeaf(esp) /\ cur_term < term_num /\ esp \in PCBs
      /\ Count = term_num /\ Live = PCBs /\ ~Launching
  BY <1>1, RunningIsLeaf, CountIsTermNum DEF IInv, Plain
<1>3. Top.irq
  BY <1>1 DEF Stacks, Frame
<1>4. /\ NTERM \in Nat \ {0} /\ cur_term \in 0..(NTERM - 1) /\ next_term \in Terms
      /\ term_num \in 1..NTERM
      /\ next_term = (cur_term + 1) % NTERM
      /\ term_num < NTERM => cur_term = term_num - 1
  BY <1>1, <1>2, SizeAssumption DEF IInv, Focus, TypeOK, Terms
<1>5. (next_term + 1) % NTERM \in Terms
  BY <1>4 DEF Terms
<1>6. /\ cur_term' = next_term /\ next_term' = (next_term + 1) % NTERM
      /\ UNCHANGED <<PCBs, parent_pcb, pending, schedule_pcb, page, esp0, esp, iflag,
                     exeret, store_eax>>
  BY DEF Schedule, proc, retval
<1>7. ASSUME term_num < NTERM, term_num' = term_num + 1, Goto("find")
      PROVE  IInv' /\ SameLinks
  <2>1. /\ stk' \in [Slots -> Seq(Frame)] /\ OnlyStackOf(esp) /\ Stacks'
        /\ stk'[esp] # <<>> /\ stk'[esp][1].at = "find" /\ stk'[esp][1].irq
    <3>1. Fits(Top.irq, "find") /\ "find" \in Labels
      BY <1>3 DEF Fits, Labels, ExecLabels
    <3> QED
      BY <1>1, <1>3, <1>7, <3>1, GotoEffect
  <2>2. ~InUser' /\ Top' = stk'[esp][1]
    BY <1>6, <2>1 DEF InUser, Top
  <2>3. /\ Launching' /\ Count' = Count /\ Live' = Live
        /\ \A p : IsLeaf(p)' <=> IsLeaf(p)
    <3>1. Launching' /\ Count' = Count
      BY <1>2, <1>4, <1>7, <2>1, <2>2 DEF Launching, Count
    <3> QED
      BY <1>2, <1>6, <2>1, <2>2, <3>1 DEF Live, Doomed, Unborn, IsLeaf
  <2>4. cur_term' = Count'
    <3>1. ASSUME NEW m \in Nat, NEW n \in Nat, m < n
          PROVE  ((m - 1) + 1) % n = m
      BY <3>1
    <3> QED
      BY <1>2, <1>4, <1>6, <1>7, <2>3, <3>1
  <2>5. pending = {}
    BY <1>7, NoEarlySignal
  <2>6. TypeOK'
    <3>1. term_num' \in 1..NTERM
      BY <1>4, <1>7
    <3>2. cur_term' \in Terms /\ next_term' \in Terms
      BY <1>4, <1>5, <1>6
    <3> QED
      BY <1>1, <1>6, <2>1, <3>1, <3>2 DEF TypeOK
  <2>7. Tree'
    BY <1>1, <1>6, <2>3 DEF Tree, IsLeaf
  <2>8. Focus'
    BY <1>2, <1>6, <2>1, <2>2, <2>3, <2>4 DEF Focus, Plain
  <2>9. Saved' /\ Waits'
    BY <1>1, <1>2, <1>6, <2>1, <2>3, StillSaved, StillWaits
  <2>11. Signals'
    BY <1>6, <2>1, <2>5 DEF IInv, Signals, OnlyStackOf, TypeOK
  <2> QED
    BY <2>1, <2>6, <2>7, <2>8, <2>9, <2>11,
       <1>6, <2>3 DEF IInv, SameLinks
<1>8. ASSUME term_num = NTERM, term_num' = term_num,
             GotoWith("switch", schedule_pcb[next_term])
      PROVE  IInv' /\ SameLinks
  <2> DEFINE n == schedule_pcb[next_term]
  <2>1. /\ stk' \in [Slots -> Seq(Frame)] /\ OnlyStackOf(esp) /\ Stacks'
        /\ stk'[esp] # <<>> /\ stk'[esp][1].at = "switch" /\ stk'[esp][1].irq
        /\ stk'[esp][1].arg = n
    <3>1. Fits(Top.irq, "switch") /\ "switch" \in Labels
      BY <1>3 DEF Fits, Labels
    <3>2. n \in Slots \cup {NULL} /\ GotoWith("switch", n)
      BY <1>1, <1>4, <1>8 DEF TypeOK
    <3> HIDE DEF n
    <3> QED
      BY <1>1, <1>3, <3>1, <3>2, GotoWithEffect
  <2>2. ~InUser' /\ Top' = stk'[esp][1]
    BY <1>6, <2>1 DEF InUser, Top
  <2>3. /\ ~Launching' /\ Count' = Count /\ Live' = Live
        /\ \A p : IsLeaf(p)' <=> IsLeaf(p)
    BY <1>2, <1>4, <1>6, <1>8, <2>1, <2>2
       DEF Launching, Count, Live, Doomed, Unborn, IsLeaf
  <2>4. TypeOK'
    BY <1>1, <1>4, <1>5, <1>6, <1>8, <2>1 DEF TypeOK
  <2>5. Tree'
    BY <1>1, <1>6, <2>3 DEF Tree, IsLeaf
  <2>6. Focus'
    BY <1>2, <1>4, <1>6, <1>8, <2>1, <2>2, <2>3 DEF Focus, Plain
  <2>7. Saved' /\ Waits'
    BY <1>1, <1>2, <1>6, <2>1, <2>3, StillSaved, StillWaits
  <2>9. Signals'
    BY <1>6, <1>8, <2>1 DEF IInv, Signals, OnlyStackOf, TypeOK
  <2> QED
    BY <2>1, <2>4, <2>5, <2>6, <2>7, <2>9, <1>6, <2>3 DEF IInv, SameLinks
<1> QED
  <2>1. term_num < NTERM \/ term_num = NTERM
    BY <1>4
  <2> QED
    BY <1>7, <1>8, <2>1 DEF Schedule

(* The stack the CPU leaves is saved, the one it moves to had been.        *)
LEMMA SwitchInv ==
  ASSUME IInv, Switch
  PROVE  IInv' /\ SameLinks
<1> DEFINE n == Top.arg
<1>1. /\ ~InUser /\ Top.at = "switch" /\ TypeOK /\ Stacks /\ Tree /\ esp \in Slots
      /\ Top \in Frame /\ Top = stk[esp][1] /\ stk[esp] # <<>> /\ 1 \in 1..Len(stk[esp])
  BY TopInFrame, EmptySeq DEF Switch, At, IInv, TypeOK
<1>2. /\ n = schedule_pcb[cur_term] /\ IsLeaf(esp) /\ term_num = NTERM /\ cur_term \in Terms
  BY <1>1 DEF IInv, Focus, TypeOK
<1>3. Count = term_num /\ ~Launching /\ Live = PCBs
  BY <1>1, CountIsTermNum, LiveIsPCBs
<1>4. n \in Slots /\ n # NULL /\ IsLeaf(n)
  <2>1. cur_term < Count
    BY <1>2, <1>3, SizeAssumption DEF Terms
  <2> QED
    BY <1>1, <1>2, <2>1 DEF Tree, TypeOK, IsLeaf
<1>5. /\ page' = n /\ esp0' = n /\ esp' = n /\ Goto("back")
      /\ UNCHANGED <<PCBs, parent_pcb, pending, schedule_pcb, cur_term, next_term, term_num,
                     iflag, exeret, store_eax>>
  BY DEF Switch, proc, sched, retval
<1> HIDE DEF n
<1>6. /\ stk' \in [Slots -> Seq(Frame)] /\ OnlyStackOf(esp) /\ Stacks'
      /\ stk'[esp] # <<>> /\ stk'[esp][1].at = "back"
  <2>1. Fits(Top.irq, "back") /\ "back" \in Labels
    BY <1>1 DEF Stacks, Fits, Labels, Frame
  <2> QED
    BY <1>1, <1>5, <2>1, GotoEffect
<1>7. \A t \in Terms : schedule_pcb[t] # NULL =>
         stk'[schedule_pcb[t]] # <<>> /\ stk'[schedule_pcb[t]][1].at = "back"
  <2> SUFFICES ASSUME NEW t \in Terms, schedule_pcb[t] # NULL, schedule_pcb[t] # esp
               PROVE  stk'[schedule_pcb[t]] # <<>> /\ stk'[schedule_pcb[t]][1].at = "back"
    BY <1>6
  <2>1. schedule_pcb[t] \in Slots
    BY <1>1 DEF TypeOK
  <2> QED
    BY <1>1, <1>6, <2>1 DEF OnlyStackOf, Saved, IInv
<1>8. stk'[n] # <<>> /\ stk'[n][1].at = "back"
  BY <1>2, <1>4, <1>7
<1>9. ~InUser' /\ Top' = stk'[n][1]
  BY <1>5, <1>8 DEF InUser, Top
<1>11. ~Launching' /\ Count' = Count /\ Live' = Live
  BY <1>3, <1>5, <1>8, <1>9 DEF Launching, Count, Live, Doomed, Unborn
<1>12. TypeOK'
  BY <1>1, <1>4, <1>5, <1>6 DEF TypeOK
<1>13. Tree'
  BY <1>1, <1>5, <1>11 DEF Tree, IsLeaf
<1>14. Focus'
  <2>1. next_term' = (cur_term' + 1) % NTERM /\ ~(Count' < NTERM)
    BY <1>2, <1>3, <1>5, <1>11, SizeAssumption DEF IInv, Focus
  <2> QED
    BY <1>2, <1>5, <1>8, <1>9, <1>11, <2>1 DEF Focus, Plain
<1>15. Saved'
  BY <1>5, <1>7 DEF Saved
<1>16. Waits'
  <2> SUFFICES ASSUME NEW q \in Live \ Base
               PROVE  LET s == stk'[parent_pcb[q]] IN
                       s # <<>> /\ s[1].at = "wait" /\ s[1].arg = q
    BY <1>5, <1>11 DEF Waits
  <2>1. parent_pcb[q] \in Slots /\ parent_pcb[q] # esp
    BY <1>1, <1>2, <1>3 DEF Tree, TypeOK
  <2> QED
    BY <1>1, <1>6, <2>1 DEF OnlyStackOf, Waits, IInv
<1>18. Signals'
  BY <1>5, <1>6 DEF IInv, Signals, OnlyStackOf, TypeOK
<1> QED
  BY <1>6, <1>12, <1>13, <1>14, <1>15, <1>16, <1>18,
     <1>5, <1>11 DEF IInv, SameLinks

-----------------------------------------------------------------------------
(* The state kernel.c leaves after the first execute satisfies IInv.       *)
LEMMA InitInv == Init => IInv
<1> SUFFICES ASSUME Init
             PROVE  IInv
  OBVIOUS
<1>1. /\ NTERM \in Nat \ {0} /\ 0 \in Terms /\ 0 \in Base /\ 0 \in Slots /\ 1 \in 1..NTERM
      /\ 1 % NTERM \in Terms
  BY SizeAssumption DEF Terms, Base, Slots
<1>2. /\ PCBs = {0} /\ parent_pcb = [p \in Slots |-> NULL] /\ pending = {}
      /\ schedule_pcb = [t \in Terms |-> IF t = 0 THEN 0 ELSE NULL]
      /\ cur_term = 0 /\ next_term = 1 % NTERM /\ term_num = 1
      /\ page = 0 /\ esp0 = 0 /\ esp = 0 /\ iflag = FALSE
      /\ exeret = NULL /\ store_eax = NULL
  BY DEF Init
<1>3. stk = [p \in Slots |-> <<>>] /\ \A p \in Slots : stk[p] = <<>>
  BY DEF Init
<1>4. InUser
  BY <1>1, <1>2, <1>3 DEF InUser
<1>5. ~Launching /\ Count = 1 /\ Live = {0}
  BY <1>2, <1>4 DEF Launching, Count, Live, Doomed, Unborn
<1>6. TypeOK
  <2>1. stk \in [Slots -> Seq(Frame)]
    BY <1>3
  <2> QED
    BY <1>1, <1>2, <2>1 DEF TypeOK
<1>7. \A t \in Terms : schedule_pcb[t] = IF t = 0 THEN 0 ELSE NULL
  BY <1>2
<1>8. Tree
  <2>1. \A t \in Terms : t < 1 <=> t = 0
    BY SizeAssumption DEF Terms
  <2>2. 0 # NULL /\ 0..(Count - 1) = {0}
    BY <1>5 DEF NULL
  <2> QED
    BY <1>1, <1>5, <1>7, <2>1, <2>2 DEF Tree, IsLeaf
<1>9. Focus
  BY <1>1, <1>2, <1>4, <1>5, <1>7 DEF Focus
<1>10. Saved
  BY <1>2, <1>7 DEF Saved
<1>11. Waits
  BY <1>1, <1>5 DEF Waits
<1>12. Stacks
  <2>1. \A p \in Slots : 1..Len(stk[p]) = {}
    BY <1>3
  <2> QED
    BY <2>1 DEF Stacks
<1>14. Signals
  BY <1>2 DEF Signals
<1> QED
  BY <1>6, <1>8, <1>9, <1>10, <1>11, <1>12, <1>14 DEF IInv

(* Every step of UndisturbedNext, and stuttering, preserves IInv.          *)
LEMMA StepInv ==
  ASSUME IInv, [UndisturbedNext]_vars
  PROVE  IInv'
<1>1. CASE ExecuteStep
  BY <1>1, FindSlotInv, CreatePCBInv, EnlistInv, MapImageInv, EnterProgramInv DEF ExecuteStep
<1>2. CASE HaltStep
  BY <1>2, HaltInv, HaltMapParentInv, HaltRemovePCBInv, HaltRescheduleInv, HaltReturnInv
     DEF HaltStep
<1>3. CASE IrqStep
  BY <1>3, ScheduleInv, SwitchInv, KillTaskInv, IrqReturnInv DEF IrqStep
<1>4. CASE UserStep
  BY <1>4, SysCallInv, SysExecuteInv, SysHaltInv, FaultInv DEF UserStep
<1>5. CASE ~Critical /\ Interrupt
  BY <1>5, TickInv, DeviceIrqInv, CtrlCInv DEF Interrupt
<1>6. CASE StoreEax \/ ExecuteReturn \/ SysReturn
  BY <1>6, StoreEaxInv, ExecuteReturnInv, SysReturnInv
<1>7. CASE UNCHANGED vars
  <2>1. UNCHANGED <<PCBs, parent_pcb, pending, schedule_pcb, cur_term, next_term, term_num,
                    page, esp0, esp, stk, iflag, exeret, store_eax>>
    BY <1>7 DEF vars, proc, sched, retval
  <2>2. /\ InUser' = InUser /\ Top' = Top /\ Launching' = Launching /\ Count' = Count
        /\ Live' = Live /\ \A p : IsLeaf(p)' <=> IsLeaf(p)
    BY <2>1 DEF InUser, Top, Launching, Count, Live, Doomed, Unborn, IsLeaf
  <2>3. TypeOK' /\ Tree'
    BY <2>1, <2>2 DEF IInv, TypeOK, Tree, IsLeaf
  <2>4. Focus'
    BY <2>1, <2>2 DEF IInv, Focus, IsLeaf
  <2>5. Saved' /\ Waits' /\ Stacks' /\ Signals'
    BY <2>1, <2>2 DEF IInv, Saved, Waits, Stacks, Signals
  <2> QED
    BY <2>3, <2>4, <2>5 DEF IInv
<1> QED
  BY <1>1, <1>2, <1>3, <1>4, <1>5, <1>6, <1>7 DEF UndisturbedNext, KernelStep

(* The condition of the theorems, as a next-state relation.                *)
LEMMA UndisturbedSteps == Spec /\ Undisturbed => UndisturbedSpec
<1>1. [Next]_vars /\ [Critical => ~Interrupt]_vars => [UndisturbedNext]_vars
  BY DEF Next, UndisturbedNext
<1> QED
  BY <1>1, PTL DEF Spec, Undisturbed, UndisturbedSpec

(* As long as no interrupt hits execute, halt or the critical part of      *)
(* scheduling(), every state satisfies IInv.                               *)
THEOREM Inductive == Spec /\ Undisturbed => []IInv
<1>1. Init => IInv
  BY InitInv
<1>2. IInv /\ [UndisturbedNext]_vars => IInv'
  BY StepInv
<1> QED
  BY <1>1, <1>2, UndisturbedSteps, PTL DEF UndisturbedSpec

-----------------------------------------------------------------------------
(* Without signals no interrupt can hit a critical section.                *)

LEMMA CalmSetTop ==
  ASSUME NEW s \in Seq(Frame), s # <<>>, NEW f \in Frame, f.ifl = s[1].ifl, CalmStack(s)
  PROVE  CalmStack([s EXCEPT ![1] = f])
<1>1. Len(s) \in Nat \ {0} /\ 1 \in 1..Len(s)
  BY EmptySeq, LenProperties
<1>2. /\ Len([s EXCEPT ![1] = f]) = Len(s)
      /\ \A j \in 1..Len(s) : [s EXCEPT ![1] = f][j] = IF j = 1 THEN f ELSE s[j]
  BY <1>1, ExceptSeq
<1> DEFINE t == [s EXCEPT ![1] = f]
<1> HIDE DEF t
<1>3. Len(t) = Len(s) /\ \A j \in 1..Len(s) : t[j] = IF j = 1 THEN f ELSE s[j]
  BY <1>2 DEF t
<1>4. CalmStack(t)
  <2> SUFFICES ASSUME NEW i \in 1..Len(s)
               PROVE  (i = Len(s) => ~t[i].ifl) /\ (i > 1 => t[i].at # "pit")
    BY <1>3 DEF CalmStack
  <2>1. (i = Len(s) => ~s[i].ifl) /\ (i > 1 => s[i].at # "pit")
    BY DEF CalmStack
  <2>2. CASE i = 1
    BY <1>3, <2>1, <2>2
  <2>3. CASE i # 1
    BY <1>3, <2>1, <2>3
  <2> QED
    BY <2>2, <2>3
<1> QED
  BY <1>4 DEF t

LEMMA CalmPush ==
  ASSUME NEW s \in Seq(Frame), NEW f \in Frame, CalmStack(s),
         \/ s = <<>> /\ ~f.ifl
         \/ s # <<>> /\ s[1].at # "pit"
  PROVE  CalmStack(<<f>> \o s)
<1>1. /\ <<f>> \in Seq(Frame) /\ Len(<<f>>) = 1
      /\ s \in Seq(Frame) /\ Len(s) \in Nat
  BY LenProperties
<1>2. /\ Len(<<f>> \o s) = 1 + Len(s)
      /\ \A i \in 1..(1 + Len(s)) : (<<f>> \o s)[i] = IF i <= 1 THEN <<f>>[i] ELSE s[i - 1]
  BY <1>1, ConcatProperties
<1>3. s = <<>> => Len(s) = 0
  OBVIOUS
<1>4. s # <<>> => Len(s) > 0
  BY EmptySeq
<1> SUFFICES ASSUME NEW i \in 1..(1 + Len(s))
             PROVE  LET g == (<<f>> \o s)[i] IN
                    (i = 1 + Len(s) => ~g.ifl) /\ (i > 1 => g.at # "pit")
  BY <1>2 DEF CalmStack
<1>5. CASE i = 1
  BY <1>1, <1>2, <1>3, <1>4, <1>5
<1>6. CASE i # 1
  <2>1. i - 1 \in 1..Len(s) /\ (<<f>> \o s)[i] = s[i - 1]
    BY <1>1, <1>2, <1>6
  <2>2. s # <<>>
    BY <1>1, <1>3, <2>1
  <2>3. (i - 1 = Len(s) => ~s[i - 1].ifl) /\ (i - 1 > 1 => s[i - 1].at # "pit")
    BY <2>1 DEF CalmStack
  <2>4. (i = 1 + Len(s) => i - 1 = Len(s)) /\ (i - 1 = 1 \/ i - 1 > 1)
    BY <1>1, <2>1
  <2> QED
    BY <2>1, <2>2, <2>3, <2>4
<1> QED
  BY <1>5, <1>6

LEMMA CalmTail ==
  ASSUME NEW s \in Seq(Frame), s # <<>>, CalmStack(s)
  PROVE  /\ CalmStack(Tail(s))
         /\ Tail(s) = <<>> => ~s[1].ifl
         /\ Tail(s) # <<>> => Tail(s)[1].at # "pit"
<1>1. Len(s) \in Nat \ {0}
  BY EmptySeq, LenProperties
<1>2. /\ Tail(s) \in Seq(Frame) /\ Len(Tail(s)) = Len(s) - 1
      /\ \A i \in 1..Len(Tail(s)) : Tail(s)[i] = s[i + 1]
  BY HeadTailProperties
<1>3. PICK t \in Seq(Frame) : t = Tail(s)
  BY <1>2
<1>4. Len(t) \in Nat /\ Len(t) = Len(s) - 1 /\ \A i \in 1..Len(t) : t[i] = s[i + 1]
  BY <1>2, <1>3, LenProperties
<1>5. CalmStack(t)
  <2> SUFFICES ASSUME NEW i \in 1..Len(t)
               PROVE  (i = Len(t) => ~t[i].ifl) /\ (i > 1 => t[i].at # "pit")
    BY DEF CalmStack
  <2>1. /\ i + 1 \in 1..Len(s) /\ t[i] = s[i + 1]
        /\ i = Len(t) => i + 1 = Len(s)
        /\ i + 1 > 1
    BY <1>1, <1>4
  <2> QED
    BY <2>1 DEF CalmStack
<1>6. ASSUME t = <<>>
      PROVE  ~s[1].ifl
  <2>1. Len(t) = 0
    BY <1>6
  <2>2. Len(s) = 1 /\ 1 \in 1..Len(s)
    BY <1>1, <1>4, <2>1
  <2> QED
    BY <2>2 DEF CalmStack
<1>7. ASSUME t # <<>>
      PROVE  t[1].at # "pit"
  <2>1. Len(t) \in Nat \ {0}
    BY <1>7, EmptySeq
  <2>2. 1 \in 1..Len(t) /\ 2 \in 1..Len(s) /\ 2 > 1
    BY <1>1, <1>4, <2>1
  <2>3. t[1] = s[2]
    BY <1>4, <2>2
  <2> QED
    BY <2>2, <2>3 DEF CalmStack
<1> QED
  BY <1>3, <1>5, <1>6, <1>7

(* The three ways of changing a stack keep Calm's part about stacks.       *)
LEMMA CalmGoto ==
  ASSUME TypeOK, Calm, ~InUser, NEW l \in Labels, NEW a \in Slots \cup {NULL},
         Goto(l) \/ GotoWith(l, a)
  PROVE  \A p \in Slots : CalmStack(stk'[p])
<1> DEFINE s == stk[esp]
           f == IF Goto(l) THEN [s[1] EXCEPT !.at = l] ELSE [s[1] EXCEPT !.at = l, !.arg = a]
<1>1. /\ esp \in Slots /\ s \in Seq(Frame) /\ s # <<>> /\ s[1] \in Frame
      /\ f \in Frame /\ f.ifl = s[1].ifl
  BY TopInFrame DEF TypeOK, Frame, Top
<1>2. stk' = [stk EXCEPT ![esp] = [s EXCEPT ![1] = f]]
  BY <1>1 DEF Goto, GotoWith, TypeOK
<1>3. CalmStack([s EXCEPT ![1] = f])
  <2> HIDE DEF f
  <2>1. PICK r \in Seq(Frame) : r = s
    BY <1>1
  <2>2. CalmStack(r)
    BY <1>1, <2>1 DEF Calm
  <2>3. CalmStack([r EXCEPT ![1] = f])
    BY <1>1, <2>1, <2>2, CalmSetTop
  <2> QED
    BY <2>1, <2>3
<1> HIDE DEF f
<1>4. \A p \in Slots : stk'[p] = IF p = esp THEN [s EXCEPT ![1] = f] ELSE stk[p]
  BY <1>1, <1>2 DEF TypeOK
<1> QED
  BY <1>3, <1>4 DEF Calm

LEMMA CalmSetAndClear ==
  ASSUME TypeOK, Calm, NEW p \in Slots, NEW q \in Slots, stk[p] # <<>>, NEW l \in Labels,
         stk' = [[stk EXCEPT ![p][1].at = l] EXCEPT ![q] = <<>>]
  PROVE  \A r \in Slots : CalmStack(stk'[r])
<1> DEFINE f == [stk[p][1] EXCEPT !.at = l]
<1>1. PICK s \in Seq(Frame) : s = stk[p]
  BY DEF TypeOK
<1>2. 1 \in 1..Len(s)
  BY <1>1, EmptySeq
<1>3. s # <<>> /\ s[1] \in Frame /\ f \in Frame /\ f.ifl = s[1].ifl /\ CalmStack(s)
  <2>1. s # <<>> /\ s[1] \in Frame /\ CalmStack(s)
    BY <1>1, <1>2, ElementOfSeq DEF Calm
  <2>2. f \in Frame /\ f.ifl = s[1].ifl
    BY <1>1, <2>1 DEF Frame
  <2> QED
    BY <2>1, <2>2
<1>4. \A r \in Slots : stk'[r] = IF r = q THEN <<>> ELSE
                                  IF r = p THEN [s EXCEPT ![1] = f] ELSE stk[r]
  BY <1>1 DEF TypeOK
<1> HIDE DEF f
<1>5. CalmStack([s EXCEPT ![1] = f])
  BY <1>3, CalmSetTop
<1>6. CalmStack(<<>>)
  BY DEF CalmStack
<1> QED
  BY <1>4, <1>5, <1>6 DEF Calm

LEMMA CalmEnter ==
  ASSUME IInv, Calm, NEW l \in Labels, NEW i \in BOOLEAN, NEW a \in Slots \cup {NULL},
         Push(l, i, a), InUser \/ iflag
  PROVE  (\A p \in Slots : CalmStack(stk'[p])) /\ ~InUser' /\ Top'.at = l
<1> DEFINE f == [at |-> l, ifl |-> iflag, irq |-> i, arg |-> a]
<1>1. /\ EntryStack = esp /\ esp' = esp /\ esp \in Slots /\ TypeOK
      /\ f \in Frame /\ f.ifl = iflag /\ f.at = l
  BY DEF EntryStack, IInv, Focus, Push, TypeOK, Frame
<1>2. PICK s \in Seq(Frame) : s = Below
  <2>1. <<>> \in Seq(Frame) /\ stk[esp] \in Seq(Frame)
    BY <1>1 DEF TypeOK
  <2> QED
    BY <2>1 DEF Below
<1>3. CalmStack(s) /\ IF s = <<>> THEN ~f.ifl ELSE s[1].at # "pit"
  <2>1. CASE InUser
    <3>1. s = <<>> /\ ~iflag
      BY <1>2, <2>1 DEF Below, Calm
    <3> QED
      BY <1>1, <3>1 DEF CalmStack
  <2>2. CASE ~InUser
    BY <1>1, <1>2, <2>2 DEF Below, Calm, InUser, Top
  <2> QED
    BY <2>1, <2>2
<1>4. stk' = [stk EXCEPT ![esp] = <<f>> \o s]
  BY <1>1, <1>2 DEF Push
<1>5. \A p \in Slots : stk'[p] = IF p = esp THEN <<f>> \o s ELSE stk[p]
  BY <1>1, <1>4 DEF TypeOK
<1> HIDE DEF f
<1>6. CalmStack(<<f>> \o s)
  BY <1>1, <1>3, CalmPush
<1>7. <<f>> \o s # <<>> /\ (<<f>> \o s)[1] = f
  <2>1. <<f>> \in Seq(Frame) /\ Len(<<f>>) = 1 /\ Len(s) \in Nat
    BY <1>1, LenProperties
  <2>2. Len(<<f>> \o s) = 1 + Len(s) /\ (<<f>> \o s)[1] = <<f>>[1]
    BY <2>1, ConcatProperties
  <2>3. 1 + Len(s) # 0
    BY <2>1
  <2> QED
    BY <2>2, <2>3
<1> QED
  BY <1>1, <1>5, <1>6, <1>7 DEF Calm, InUser, Top

(* Calm is kept by every step that sends no signal.                        *)
LEMMA CalmStep ==
  ASSUME IInv, Calm, Next, ~Signal
  PROVE  Calm'
<1>1. TypeOK /\ pending = {} /\ NULL \in Slots \cup {NULL} /\ esp0 \in Slots
      /\ exeret \in Slots \cup {NULL} /\ Labels \cap {"win", "find", "halt", "pit", "back"}
                                           = {"win", "find", "halt", "pit", "back"}
  BY DEF IInv, TypeOK, Calm, Labels, HaltLabels, ExecLabels
<1>2. ASSUME ~InUser, NEW l \in Labels, NEW a \in Slots \cup {NULL},
             Goto(l) \/ GotoWith(l, a), pending' \subseteq pending, iflag' = iflag,
             \/ Top.at \notin {"win", "eax", "haltret", "back"}
             \/ esp' = esp /\ l \in {"win", "eax"}
      PROVE  Calm'
  <2>1. \A p \in Slots : CalmStack(stk'[p])
    BY <1>1, <1>2, CalmGoto
  <2>2. CASE Top.at \notin {"win", "eax", "haltret", "back"}
    BY <1>1, <1>2, <2>1, <2>2 DEF Calm
  <2>3. CASE esp' = esp /\ l \in {"win", "eax"}
    <3>1. ~InUser' /\ Top'.at = l
      <4>1. /\ esp \in Slots /\ stk[esp] \in Seq(Frame) /\ stk[esp] # <<>>
            /\ 1 \in 1..Len(stk[esp]) /\ stk[esp][1] \in Frame
        BY <1>1, <1>2, TopInFrame, EmptySeq DEF TypeOK, Top
      <4>2. CASE Goto(l)
        BY <1>1, <2>3, <4>1, <4>2 DEF Goto, InUser, Top, Frame, TypeOK
      <4>3. CASE GotoWith(l, a)
        BY <1>1, <2>3, <4>1, <4>3 DEF GotoWith, InUser, Top, Frame, TypeOK
      <4> QED
        BY <1>2, <4>2, <4>3
    <3> QED
      BY <1>1, <1>2, <2>1, <2>3, <3>1 DEF Calm
  <2> QED
    BY <1>2, <2>2, <2>3
<1>3. ASSUME NEW l \in Labels, NEW i \in BOOLEAN, NEW a \in Slots \cup {NULL},
             Push(l, i, a), InUser \/ iflag, pending' = pending,
             iflag' => l \in {"win", "back"}
      PROVE  Calm'
  <2>1. (\A p \in Slots : CalmStack(stk'[p])) /\ ~InUser' /\ Top'.at = l
    BY <1>3, CalmEnter
  <2> QED
    BY <1>1, <1>3, <2>1 DEF Calm
<1>4. CASE ExecuteStep
  <2>1. CASE EnterProgram
    <3>1. ~InUser /\ Top.at = "enter" /\ stk[esp] # <<>> /\ esp \in Slots /\ Top.arg \in Slots
      BY <1>1, <2>1, TopInFrame DEF EnterProgram, At, IInv, Focus
    <3>2. \A p \in Slots : CalmStack(stk'[p])
      <4> DEFINE l == IF Top.irq THEN "back" ELSE "wait"
      <4>1. l \in Labels /\ stk' = [[stk EXCEPT ![esp][1].at = l] EXCEPT ![Top.arg] = <<>>]
        BY <2>1 DEF EnterProgram, Labels
      <4> HIDE DEF l
      <4> QED
        BY <1>1, <3>1, <4>1, CalmSetAndClear
    <3>3. pending' = pending /\ iflag' = iflag
      BY <2>1 DEF EnterProgram, proc
    <3> QED
      BY <3>1, <3>2, <3>3 DEF Calm
  <2>2. CASE FindSlot
    <3>1. /\ ~InUser /\ Top.at \in {"find", "respawn"}
          /\ pending' \subseteq pending /\ iflag' = iflag
          /\ "create" \in Labels /\ "win" \in Labels /\ "stuck" \in Labels /\ esp \in Slots
      BY <1>1, <2>2 DEF FindSlot, At, proc, Labels, ExecLabels, TypeOK
    <3>2. (\E i \in Slots : GotoWith("create", i)) \/ GotoWith("win", esp) \/ Goto("stuck")
      BY <2>2 DEF FindSlot, FreeSlots
    <3> QED
      BY <1>1, <1>2, <3>1, <3>2
  <2>3. CASE CreatePCB \/ Enlist \/ MapImage
    <3>1. /\ ~InUser /\ Top.at \in {"create", "enlist", "map"}
          /\ pending' \subseteq pending /\ iflag' = iflag
          /\ Goto("enlist") \/ Goto("map") \/ Goto("enter")
      BY <2>3 DEF CreatePCB, Enlist, MapImage, At, proc
    <3>2. "enlist" \in Labels /\ "map" \in Labels /\ "enter" \in Labels
      BY DEF Labels, ExecLabels
    <3> QED
      BY <1>1, <1>2, <3>1, <3>2
  <2> QED
    BY <1>4, <2>1, <2>2, <2>3 DEF ExecuteStep
<1>5. CASE HaltStep
  <2>1. CASE HaltReturn
    <3> DEFINE u == parent_pcb[esp]
    <3>1. /\ ~InUser /\ Top.at = "return" /\ Top = stk[esp][1] /\ esp \in Slots
          /\ u \in Slots /\ stk[u] # <<>> /\ stk[u][1].at = "wait"
      BY <1>1, <2>1, TopInFrame DEF HaltReturn, At, IInv, Focus, TypeOK
    <3>2. u # esp
      BY <3>1
    <3>3. stk' = [[stk EXCEPT ![u][1].at = "haltret"] EXCEPT ![esp] = <<>>]
      BY <1>1, <2>1, <3>1, <3>2 DEF HaltReturn, TypeOK
    <3>4. esp' = u /\ pending' = pending
      BY <2>1 DEF HaltReturn, proc
    <3> HIDE DEF u
    <3>5. \A p \in Slots : CalmStack(stk'[p])
      <4> DEFINE l == "haltret"
      <4>1. l \in Labels /\ stk' = [[stk EXCEPT ![u][1].at = l] EXCEPT ![esp] = <<>>]
        BY <3>3 DEF Labels
      <4> HIDE DEF l
      <4>2. TypeOK /\ u \in Slots /\ esp \in Slots /\ stk[u] # <<>>
        BY <1>1, <3>1
      <4> QED
        BY <4>1, <4>2, CalmSetAndClear
    <3>6. ~InUser' /\ Top'.at = "haltret"
      <4>1. 1 \in 1..Len(stk[u]) /\ stk[u] \in Seq(Frame)
        BY <1>1, <3>1, EmptySeq DEF TypeOK
      <4>2. stk[u][1] \in Frame
        BY <4>1, ElementOfSeq
      <4>3. stk'[u] = [stk[u] EXCEPT ![1].at = "haltret"]
        BY <1>1, <3>1, <3>2, <3>3 DEF TypeOK
      <4> QED
        BY <3>1, <3>4, <4>1, <4>2, <4>3, EmptySeq, ExceptSeq DEF InUser, Top, Frame
    <3> QED
      BY <1>1, <3>4, <3>5, <3>6 DEF Calm
  <2>2. CASE Halt \/ HaltMapParent \/ HaltRemovePCB \/ HaltReschedule
    <3>1. /\ ~InUser /\ Top.at \in {"halt", "unmap", "remove", "resched"}
          /\ pending' \subseteq pending /\ iflag' = iflag
          /\ \/ Goto("respawn") \/ Goto("unmap") \/ Goto("remove")
             \/ Goto("resched") \/ Goto("return")
      BY <2>2 DEF Halt, HaltMapParent, HaltRemovePCB, HaltReschedule, At, proc
    <3>2. {"respawn", "unmap", "remove", "resched", "return"} \subseteq Labels
      BY DEF Labels, HaltLabels
    <3> QED
      BY <1>1, <1>2, <3>1, <3>2
  <2> QED
    BY <1>5, <2>1, <2>2 DEF HaltStep
<1>6. CASE SysReturn \/ IrqReturn
  <2>1. /\ ~InUser /\ Iret /\ pending' = pending /\ esp' = esp
        /\ TypeOK /\ Stacks
    BY <1>1, <1>6 DEF SysReturn, IrqReturn, At, proc, IInv
  <2>2. /\ OnlyStackOf(esp)
        /\ stk'[esp] # <<>> => stk'[esp][1].at \in Preemptible
    BY <2>1, IretEffect
  <2>3. PICK s \in Seq(Frame) : s = stk[esp]
    BY <1>1 DEF TypeOK
  <2>4. s # <<>> /\ CalmStack(s) /\ stk'[esp] = Tail(s) /\ iflag' = s[1].ifl
    BY <1>1, <2>1, <2>3 DEF Calm, InUser, Iret, Top, TypeOK
  <2>5. /\ CalmStack(stk'[esp])
        /\ stk'[esp] = <<>> => ~iflag'
        /\ stk'[esp] # <<>> => stk'[esp][1].at # "pit"
    BY <2>4, CalmTail
  <2>6. \A p \in Slots : CalmStack(stk'[p])
    BY <2>2, <2>5 DEF OnlyStackOf, Calm
  <2> QED
    BY <1>1, <2>1, <2>2, <2>5, <2>6 DEF Calm, InUser, Top, Preemptible
<1>7. CASE StoreEax \/ ExecuteReturn
  <2>1. /\ ~InUser /\ pending' \subseteq pending /\ iflag' = iflag /\ esp' = esp
        /\ Goto("eax") \/ GotoWith("win", exeret)
    BY <1>7 DEF StoreEax, ExecuteReturn, At, proc
  <2>2. "eax" \in Labels /\ "win" \in Labels
    BY DEF Labels
  <2> QED
    BY <1>1, <1>2, <2>1, <2>2
<1>8. CASE Schedule \/ Switch
  <2>1. /\ ~InUser /\ Top.at \in {"pit", "switch"} /\ pending' \subseteq pending /\ iflag' = iflag
        /\ \/ Goto("find") \/ Goto("back")
           \/ \E a \in Slots \cup {NULL} : GotoWith("switch", a)
    BY <1>1, <1>8 DEF Schedule, Switch, At, proc, TypeOK
  <2>2. "find" \in Labels /\ "back" \in Labels /\ "switch" \in Labels
    BY DEF Labels, ExecLabels
  <2> QED
    BY <1>1, <1>2, <2>1, <2>2
<1>9. ~KillTask
  BY <1>1 DEF KillTask
<1>10. CASE UserStep
  <2>1. CASE \E sti \in BOOLEAN : SysCall(sti)
    <3>1. InUser /\ Push("win", FALSE, esp0) /\ pending' = pending
      BY <2>1 DEF SysCall, proc
    <3>2. "win" \in Labels /\ FALSE \in BOOLEAN /\ esp0 \in Slots \cup {NULL}
      BY <1>1 DEF Labels
    <3> QED
      BY <1>3, <3>1, <3>2
  <2>2. CASE SysExecute \/ SysHalt
    <3>1. /\ InUser
          /\ Push("find", FALSE, NULL) \/ Push("halt", FALSE, NULL)
          /\ pending' = pending /\ iflag' = iflag
      BY <2>2 DEF SysExecute, SysHalt, proc
    <3>2. "find" \in Labels /\ "halt" \in Labels
      BY DEF Labels, ExecLabels, HaltLabels
    <3>3. ~iflag' /\ FALSE \in BOOLEAN
      BY <3>1 DEF Calm
    <3> QED
      BY <1>1, <1>3, <3>1, <3>2, <3>3
  <2> QED
    BY <1>10, <2>1, <2>2 DEF UserStep, Signal
<1>11. CASE Interrupt
  <2>1. CASE Tick(FALSE)
    <3>1. Push("pit", TRUE, NULL) /\ iflag /\ pending' = pending /\ ~iflag'
      BY <2>1 DEF Tick, CanInterrupt, proc
    <3>2. "pit" \in Labels /\ TRUE \in BOOLEAN
      BY DEF Labels
    <3> QED
      BY <1>1, <1>3, <3>1, <3>2
  <2>2. CASE \E sti \in BOOLEAN : DeviceIrq(sti)
    <3>1. Push("back", TRUE, NULL) /\ iflag /\ pending' = pending
      BY <2>2 DEF DeviceIrq, CanInterrupt, proc
    <3>2. "back" \in Labels /\ TRUE \in BOOLEAN
      BY DEF Labels
    <3> QED
      BY <1>1, <1>3, <3>1, <3>2
  <2> QED
    BY <1>11, <2>1, <2>2 DEF Interrupt, Signal
<1> QED
  BY <1>4, <1>5, <1>6, <1>7, <1>8, <1>9, <1>10, <1>11 DEF Next, KernelStep, IrqStep

(* While nobody is sent a signal - no Ctrl-C, no fault, no alarm - no      *)
(* interrupt can hit execute, halt or the critical part of scheduling(),   *)
(* for IF is clear there: then the theorems below need no condition.       *)
THEOREM UnsignalledUndisturbed == Spec /\ Unsignalled => Undisturbed
<1>1. Init => IInv /\ Calm
  <2>1. Init => \A p \in Slots : stk[p] = <<>>
    BY DEF Init
  <2>2. CalmStack(<<>>)
    BY DEF CalmStack
  <2>3. Init => pending = {} /\ iflag = FALSE
    BY DEF Init
  <2> QED
    BY <2>1, <2>2, <2>3, InitInv DEF Calm
<1>2. Calm => (Critical => ~Interrupt)
  <2>1. Calm /\ Critical => ~iflag
    BY DEF Calm, Critical, HaltLabels, ExecLabels
  <2>2. Interrupt => iflag
    BY DEF Interrupt, Tick, DeviceIrq, CtrlC, CanInterrupt
  <2> QED
    BY <2>1, <2>2
<1>3. IInv /\ Calm /\ [Next]_vars /\ [~Signal]_vars => (IInv /\ Calm)'
  <2> SUFFICES ASSUME IInv, Calm, [Next]_vars, [~Signal]_vars
               PROVE  IInv' /\ Calm'
    OBVIOUS
  <2>1. IInv'
    <3>1. [UndisturbedNext]_vars
      BY <1>2 DEF Next, UndisturbedNext
    <3> QED
      BY <3>1, StepInv
  <2>2. CASE UNCHANGED vars
    <3>1. pending' = pending /\ iflag' = iflag /\ stk' = stk /\ InUser' = InUser /\ Top' = Top
      BY <2>2 DEF vars, proc, InUser, Top
    <3> QED
      BY <2>1, <3>1 DEF Calm
  <2>3. CASE Next /\ ~Signal
    BY <2>1, <2>3, CalmStep
  <2> QED
    BY <2>2, <2>3
<1>4. Calm => [Critical => ~Interrupt]_vars
  BY <1>2
<1> QED
  BY <1>1, <1>3, <1>4, PTL DEF Spec, Unsignalled, Undisturbed

-----------------------------------------------------------------------------
(* What the invariant says where other code can look.                      *)
(* At the settled points the bitmap is the live set and term_num the number*)
(* of chains.                                                              *)
LEMMA SettledFacts ==
  ASSUME IInv, Settled
  PROVE  /\ TypeOK /\ Tree /\ Saved /\ Waits
         /\ Count = term_num /\ Live = PCBs /\ term_num \in 1..NTERM
         /\ InUser \/ Top.at \notin {"map", "enter", "return"}
         /\ \A t : t \in 0..(term_num - 1) <=> t \in Terms /\ t < Count
<1>1. TypeOK /\ Tree /\ Saved /\ Waits /\ term_num \in 1..NTERM
  BY DEF IInv, TypeOK
<1>2. InUser \/ Top.at \notin {"map", "enter", "return", "find", "create", "enlist",
                               "respawn", "resched"}
  BY DEF Settled
<1>3. Count = term_num /\ Live = PCBs
  BY <1>1, <1>2, CountIsTermNum, LiveIsPCBs
<1>4. \A t : t \in 0..(term_num - 1) <=> t \in Terms /\ t < Count
  BY <1>1, <1>3, SizeAssumption DEF Terms
<1> QED
  BY <1>1, <1>2, <1>3, <1>4

(* Every variable keeps its type: in particular page, esp0 and esp always  *)
(* name a slot (execute, halt, scheduling).                                *)
THEOREM TypeCorrect == Spec /\ Undisturbed => []TypeOK
<1>1. IInv => TypeOK
  BY DEF IInv
<1> QED
  BY <1>1, Inductive, PTL

(* Whoever executes has its own image and kernel stack installed and is    *)
(* the process its terminal runs.                                          *)
THEOREM InstalledCorrect == Spec /\ Undisturbed => []Installed
<1>1. IInv => Installed
  <2> SUFFICES ASSUME IInv, Settled, ~At("switch")
               PROVE  page = esp /\ esp0 = esp /\ schedule_pcb[cur_term] = esp /\ esp \in PCBs
    BY DEF Installed
  <2>1. InUser \/ Top.at \in Plain
    BY DEF Settled, At, Plain
  <2> QED
    BY <2>1, RunningIsLeaf DEF IInv
<1> QED
  BY <1>1, Inductive, PTL

(* The chains of the terminals stay disjoint (create_PCB, execute, halt).  *)
THEOREM ChainsDisjointCorrect == Spec /\ Undisturbed => []ChainsDisjoint
<1>1. IInv => ChainsDisjoint
  <2> SUFFICES ASSUME IInv, Settled
               PROVE  /\ \A t, u \in 0..(term_num - 1) : schedule_pcb[t] = schedule_pcb[u] => t = u
                      /\ \A p \in PCBs \ Base : parent_pcb[p] \notin Leaves
                      /\ \A p, q \in PCBs \ Base : parent_pcb[p] = parent_pcb[q] => p = q
    BY DEF ChainsDisjoint
  <2>1. \A t, u \in 0..(term_num - 1) : schedule_pcb[t] = schedule_pcb[u] => t = u
    BY SettledFacts DEF Tree
  <2>2. \A p \in Leaves : IsLeaf(p)
    BY SettledFacts DEF Leaves, IsLeaf
  <2>3. \A p \in PCBs \ Base : parent_pcb[p] \notin Leaves
    BY <2>2, SettledFacts DEF Tree
  <2>4. \A p, q \in PCBs \ Base : parent_pcb[p] = parent_pcb[q] => p = q
    BY SettledFacts DEF Tree
  <2> QED
    BY <2>1, <2>3, <2>4
<1> QED
  BY <1>1, Inductive, PTL

(* No slot is leaked and none in use is free (create_PCB, remove_PCB).     *)
THEOREM NoSlotLeakCorrect == Spec /\ Undisturbed => []NoSlotLeak
<1>1. IInv => NoSlotLeak
  <2> SUFFICES ASSUME IInv, Settled
               PROVE  PCBs = Leaves \cup {parent_pcb[p] : p \in PCBs \ Base}
    BY DEF NoSlotLeak
  <2>1. ASSUME NEW p \in PCBs
        PROVE  p \in Leaves \cup {parent_pcb[q] : q \in PCBs \ Base}
    <3>1. CASE IsLeaf(p)
      <4>1. PICK t \in Terms : schedule_pcb[t] = p
        BY <3>1 DEF IsLeaf
      <4>2. t \in 0..(term_num - 1)
        BY <4>1, SettledFacts DEF Tree, TypeOK, Slots, NULL
      <4> QED
        BY <4>1, <4>2 DEF Leaves
    <3>2. CASE ~IsLeaf(p)
      BY <3>2, SettledFacts DEF Tree
    <3> QED
      BY <3>1, <3>2
  <2>2. Leaves \subseteq PCBs
    BY SettledFacts DEF Tree, Leaves
  <2>3. {parent_pcb[p] : p \in PCBs \ Base} \subseteq PCBs
    BY SettledFacts DEF Tree
  <2> QED
    BY <2>1, <2>2, <2>3
<1> QED
  BY <1>1, Inductive, PTL

(* scheduling() resumes only stacks that scheduling() has saved.           *)
THEOREM SwitchCorrect == Spec /\ Undisturbed => []SwitchTargetSaved
<1>1. IInv => SwitchTargetSaved
  <2> SUFFICES ASSUME IInv, Settled, NEW t \in 0..(term_num - 1), schedule_pcb[t] # esp
               PROVE  /\ stk[schedule_pcb[t]] # <<>>
                      /\ stk[schedule_pcb[t]][1].at = "back"
    BY DEF SwitchTargetSaved
  <2>1. t \in Terms /\ schedule_pcb[t] # NULL
    BY SettledFacts DEF Tree
  <2> QED
    BY <2>1, SettledFacts DEF Saved
<1> QED
  BY <1>1, Inductive, PTL

(* halt finds the execute that started the program waiting for it.         *)
THEOREM ParentWaitsCorrect == Spec /\ Undisturbed => []ParentWaits
<1>1. IInv => ParentWaits
  <2> SUFFICES ASSUME IInv, Settled, NEW p \in PCBs \ Base
               PROVE  LET s == stk[parent_pcb[p]] IN s # <<>> /\ s[1].at = "wait" /\ s[1].arg = p
    BY DEF ParentWaits
  <2> QED
    BY SettledFacts DEF Waits
<1> QED
  BY <1>1, Inductive, PTL

(* create_PCB and halt take a slot of Base for a shell's: the shell of     *)
(* every launched terminal keeps its slot, and no execute waits for a      *)
(* program in such a slot.                                                 *)
THEOREM BaseForShellsCorrect == Spec /\ Undisturbed => []BaseForShells
<1>1. IInv /\ Settled => 0..(term_num - 1) \subseteq PCBs
  BY SettledFacts DEF Tree
<1>2. ASSUME IInv, NEW p \in Slots, stk[p] # <<>>, stk[p][1].at = "wait"
      PROVE  stk[p][1].arg \notin Base
  <2>1. 1 \in 1..Len(stk[p])
    BY <1>2, EmptySeq DEF IInv, TypeOK
  <2> QED
    BY <1>2, <2>1 DEF IInv, Stacks
<1>3. IInv => BaseForShells
  BY <1>1, <1>2 DEF BaseForShells
<1> QED
  BY <1>3, Inductive, PTL

(* A pending Ctrl-C belongs to a process about to run signal_handler.      *)
THEOREM PendingCorrect == Spec /\ Undisturbed => []PendingIsSaved
<1>1. IInv => PendingIsSaved
  BY DEF IInv, Signals, PendingIsSaved
<1> QED
  BY <1>1, Inductive, PTL

-----------------------------------------------------------------------------
(* Kernel implements Sessions, for any number of terminals and PCB slots.  *)

(* Steps that change no link and keep the terminal are invisible.          *)
LEMMA LinksStutter ==
  ASSUME SameLinks, cur_term' = cur_term
  PROVE  UNCHANGED S!sessions
<1>1. Starter' = Starter
  BY DEF SameLinks, Starter, Base, Terms
<1> QED
  BY <1>1 DEF SameLinks, S!sessions

(* scheduling() takes turns: the process of cur_term is in front.          *)
LEMMA ScheduleTakesTurn ==
  ASSUME IInv, SameLinks, Schedule
  PROVE  S!TakeTurn
<1>1. ~InUser /\ Top.at = "pit"
  BY DEF Schedule, At
<1>2. schedule_pcb[cur_term] = esp /\ esp \in Slots /\ next_term = (cur_term + 1) % NTERM
  BY <1>1 DEF IInv, Focus, Plain, TypeOK
<1>3. Starter' = Starter
  BY DEF SameLinks, Starter, Base, Terms
<1> QED
  BY <1>2, <1>3 DEF S!TakeTurn, SameLinks, Schedule, Slots, NULL

(* The first shell of a terminal is linked.                                *)
LEMMA LinkOpensShell ==
  ASSUME TypeOK, ShellLinked
  PROVE  S!OpenShell
<1>1. cur_term \in Base
  BY DEF TypeOK, Base
<1>2. Starter' = Starter
  BY <1>1 DEF ShellLinked, Starter, Base, Terms
<1> QED
  BY <1>2 DEF ShellLinked, S!OpenShell

(* execute links the program it starts.                                    *)
LEMMA LinkStarts ==
  ASSUME NEW p \in Slots, ProgramLinked(p)
  PROVE  S!Start(p)
<1>1. Starter' = [q \in (Live \ Base) \cup {p} |->
                    IF q = p THEN schedule_pcb[cur_term] ELSE Starter[q]]
  <2>1. Live' \ Base = (Live \ Base) \cup {p}
    BY DEF ProgramLinked
  <2>2. \A q \in Live \ Base : Starter[q] = parent_pcb[q]
    BY DEF Starter
  <2> QED
    BY <2>1, <2>2 DEF ProgramLinked, Starter, Base, Terms
<1> QED
  BY <1>1 DEF ProgramLinked, S!Start, S!Base, S!Terms, Base, Terms

(* halt unlinks the process in front.                                      *)
LEMMA UnlinkExits ==
  ASSUME ProgramUnlinked
  PROVE  S!Exit
<1> DEFINE p == schedule_pcb[cur_term]
<1>1. p \in Live \ Base /\ Live' = Live \ {p} /\ Starter[p] = parent_pcb[p]
  BY DEF ProgramUnlinked, Starter
<1>2. Starter' = [q \in Live \ (Base \cup {p}) |-> Starter[q]]
  <2>1. Live' \ Base = Live \ (Base \cup {p})
    BY <1>1
  <2>2. \A q \in Live \ (Base \cup {p}) : Starter[q] = parent_pcb[q]
    BY DEF Starter
  <2> QED
    BY <2>1, <2>2 DEF ProgramUnlinked, Starter, Base, Terms
<1> QED
  BY <1>1, <1>2 DEF ProgramUnlinked, S!Exit, S!Base, S!Terms, Base, Terms

(* The state after the first execute has one session, that of terminal 0.  *)
LEMMA InitSessions == Init => S!Init
<1> SUFFICES ASSUME Init
             PROVE  S!Init
  OBVIOUS
<1>1. 0 \in Base /\ 0 \in Slots
  BY SizeAssumption DEF Base, Terms, Slots
<1>2. InUser
  BY <1>1 DEF Init, InUser
<1>3. Live = {0} /\ Live \ Base = {}
  BY <1>1, <1>2 DEF Live, Doomed, Unborn, Init
<1> QED
  BY <1>3 DEF Init, S!Init, S!Terms, Terms, Starter

LEMMA StepSessions ==
  ASSUME IInv, [UndisturbedNext]_vars
  PROVE  [S!Next]_(S!sessions)
<1>1. CASE Enlist
  <2>1. TypeOK /\ (SameLinks \/ ShellLinked \/ \E p \in Slots : ProgramLinked(p))
    BY <1>1, EnlistInv DEF IInv
  <2>2. cur_term' = cur_term
    BY <1>1 DEF Enlist
  <2> QED
    BY <2>1, <2>2, LinksStutter, LinkOpensShell, LinkStarts DEF S!Next
<1>2. CASE HaltReschedule
  BY <1>2, HaltRescheduleInv, UnlinkExits DEF S!Next
<1>3. CASE Schedule
  BY <1>3, ScheduleInv, ScheduleTakesTurn DEF S!Next
<1>4. CASE FindSlot \/ CreatePCB \/ MapImage \/ EnterProgram
  <2>1. SameLinks
    BY <1>4, FindSlotInv, CreatePCBInv, MapImageInv, EnterProgramInv
  <2>2. cur_term' = cur_term
    BY <1>4 DEF FindSlot, CreatePCB, MapImage, EnterProgram, sched
  <2> QED
    BY <2>1, <2>2, LinksStutter
<1>5. CASE Halt \/ HaltMapParent \/ HaltRemovePCB \/ HaltReturn
  <2>1. SameLinks
    BY <1>5, HaltInv, HaltMapParentInv, HaltRemovePCBInv, HaltReturnInv
  <2>2. cur_term' = cur_term
    BY <1>5 DEF Halt, HaltMapParent, HaltRemovePCB, HaltReturn, sched
  <2> QED
    BY <2>1, <2>2, LinksStutter
<1>6. CASE Switch \/ KillTask \/ IrqReturn
  <2>1. SameLinks
    BY <1>6, SwitchInv, KillTaskInv, IrqReturnInv
  <2>2. cur_term' = cur_term
    BY <1>6 DEF Switch, KillTask, IrqReturn, sched
  <2> QED
    BY <2>1, <2>2, LinksStutter
<1>7. CASE UserStep
  <2>1. SameLinks
    BY <1>7, SysCallInv, SysExecuteInv, SysHaltInv, FaultInv DEF UserStep
  <2>2. cur_term' = cur_term
    BY <1>7 DEF UserStep, SysCall, SysExecute, SysHalt, Fault, sched
  <2> QED
    BY <2>1, <2>2, LinksStutter
<1>8. CASE ~Critical /\ Interrupt
  <2>1. SameLinks
    BY <1>8, TickInv, DeviceIrqInv, CtrlCInv DEF Interrupt
  <2>2. cur_term' = cur_term
    BY <1>8 DEF Interrupt, Tick, DeviceIrq, CtrlC, sched
  <2> QED
    BY <2>1, <2>2, LinksStutter
<1>9. CASE StoreEax \/ ExecuteReturn \/ SysReturn
  <2>1. SameLinks
    BY <1>9, StoreEaxInv, ExecuteReturnInv, SysReturnInv
  <2>2. cur_term' = cur_term
    BY <1>9 DEF StoreEax, ExecuteReturn, SysReturn, sched
  <2> QED
    BY <2>1, <2>2, LinksStutter
<1>10. CASE UNCHANGED vars
  <2>1. SameLinks /\ cur_term' = cur_term
    BY <1>10 DEF vars, proc, sched, SameLinks, Live, Doomed, Unborn, InUser, Top
  <2> QED
    BY <2>1, LinksStutter
<1> QED
  BY <1>1, <1>2, <1>3, <1>4, <1>5, <1>6, <1>7, <1>8, <1>9, <1>10
     DEF UndisturbedNext, KernelStep, ExecuteStep, HaltStep, IrqStep

(* Without an interrupt in its critical sections an execution of the       *)
(* kernel is, seen from the terminals, an execution of Sessions: execute   *)
(* and halt take effect at one instant, on the terminal whose turn it is,  *)
(* and turns go round.                                                     *)
THEOREM KernelImplementsSessions == Spec /\ Undisturbed => ImplementsSessions
<1>1. Init => S!Init
  BY InitSessions
<1>2. IInv /\ [UndisturbedNext]_vars => [S!Next]_(S!sessions)
  BY StepSessions
<1> QED
  BY <1>1, <1>2, Inductive, UndisturbedSteps, PTL DEF UndisturbedSpec, S!Spec, ImplementsSessions
=============================================================================
