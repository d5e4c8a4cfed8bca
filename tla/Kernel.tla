------------------------------- MODULE Kernel -------------------------------
(***************************************************************************)
(* Processes, system calls and the round-robin scheduler of EchOS:         *)
(* system_calls.c (create_PCB, remove_PCB, execute, halt), scheduling.c,   *)
(* signal.c (SIG_INTERRUPT and its default handler) and the assembly       *)
(* linkage idt-linkage.S, on a machine with one CPU.                       *)
(*                                                                         *)
(* A process is its PCB slot.  Slot p owns an 8KB kernel stack and the     *)
(* 4MB user image user_paging(p) maps at 128MB.  What the CPU does is      *)
(* decided by the stack %esp points into: stk[p] lists the frames on the   *)
(* kernel stack of slot p, innermost first, and the innermost one says     *)
(* where the kernel is ("at").  An empty stack means that p runs in user   *)
(* mode.  One action is one C statement (or a run of them no interrupt     *)
(* can observe half done); interrupts are taken between two actions when   *)
(* the interrupt flag is set.                                              *)
(***************************************************************************)
EXTENDS Integers, Sequences, FiniteSets

CONSTANTS NTERM,      \* terminals; 3 in the source
          MAX_PCB,    \* PCB slots; 6 in the source
          KillPids,   \* slots whose program Ctrl-C or a fault may kill
          MaxDepth    \* bound on the frames of one kernel stack

Terms == 0..(NTERM - 1)
Slots == 0..(MAX_PCB - 1)
Base  == Terms        \* slots 0..NTERM-1 hold the shells nobody started
NULL  == -1

ASSUME SizeAssumption == NTERM \in Nat \ {0} /\ MAX_PCB \in Nat /\ NTERM <= MAX_PCB
ASSUME KillAssumption == KillPids \subseteq Slots
ASSUME DepthAssumption == MaxDepth \in Nat

VARIABLES PCBs,          \* bitmap of the slots in use
          parent_pcb,    \* PCB field: the process that called execute
          pending,       \* slots whose signal_status[SIG_INTERRUPT] is ON
          schedule_pcb,  \* the process each terminal runs
          cur_term, next_term, term_num,
          page,          \* the image mapped at 128MB
          esp0,          \* the kernel stack named by tss.esp0
          esp,           \* the kernel stack %esp is in (its owner in user mode)
          stk,           \* the frames of every kernel stack
          iflag,         \* EFLAGS.IF
          exeret,        \* global exit status: the slot whose halt wrote it
          store_eax      \* global return value: the slot whose call wrote it

proc   == <<PCBs, parent_pcb, pending>>
sched  == <<schedule_pcb, cur_term, next_term, term_num>>
retval == <<exeret, store_eax>>
vars   == <<proc, sched, page, esp0, esp, stk, iflag, retval>>

HaltLabels == {"halt", "respawn", "unmap", "remove", "resched", "return"}
ExecLabels == {"find", "create", "enlist", "map", "enter"}
Labels == {"win", "eax", "wait", "haltret", "pit", "switch", "back", "stuck"}
            \cup HaltLabels \cup ExecLabels

(* irq: pushed by an interrupt or exception gate rather than by int 0x80;  *)
(* ifl: the IF its iret restores; arg: the one local the code keeps here.  *)
Frame == [at: Labels, ifl: BOOLEAN, irq: BOOLEAN, arg: Slots \cup {NULL}]

InUser == stk[esp] = <<>>
Top    == stk[esp][1]
At(l)  == ~InUser /\ Top.at = l

(* Entering the kernel from user mode loads tss.esp0, whatever was left on *)
(* that stack; from kernel mode the CPU stays on the stack it is on.       *)
EntryStack == IF InUser THEN esp0 ELSE esp
Below      == IF InUser THEN <<>> ELSE stk[esp]

Push(l, i, a) ==
  /\ esp' = EntryStack
  /\ stk' = [stk EXCEPT ![EntryStack] =
               <<[at |-> l, ifl |-> iflag, irq |-> i, arg |-> a]>> \o Below]

Goto(l) == stk' = [stk EXCEPT ![esp][1].at = l]
GotoWith(l, a) == stk' = [stk EXCEPT ![esp][1].at = l, ![esp][1].arg = a]

Iret == /\ iflag' = Top.ifl
        /\ stk' = [stk EXCEPT ![esp] = Tail(@)]

FreeSlots == Slots \ PCBs

(***************************************************************************)
(* After kernel.c has called execute("shell"): slot 0 runs in user mode    *)
(* with interrupts off, because nothing has executed sti before the pushfl *)
(* of that execute.                                                        *)
(***************************************************************************)
Init ==
  /\ PCBs = {0}
  /\ parent_pcb = [p \in Slots |-> NULL]
  /\ pending = {}
  /\ schedule_pcb = [t \in Terms |-> IF t = 0 THEN 0 ELSE NULL]
  /\ cur_term = 0 /\ next_term = 1 % NTERM /\ term_num = 1
  /\ page = 0 /\ esp0 = 0 /\ esp = 0
  /\ stk = [p \in Slots |-> <<>>]
  /\ iflag = FALSE
  /\ exeret = NULL /\ store_eax = NULL

(* The first call of every shell is a terminal write; its sti lets in the  *)
(* tick that launches the next shell.  Programs, faults and Ctrl-C come    *)
(* after that.                                                             *)
Launched == term_num = NTERM

-----------------------------------------------------------------------------
(* System calls, from user mode through the trap gate (IF is kept).        *)

(* Any call that returns to its caller.  read_term, write_term and         *)
(* rtc_read execute sti, so from there to the iret ticks are taken; a read *)
(* stays at "win" until its key or RTC tick comes.                         *)
SysCall(sti) ==
  /\ InUser
  /\ Push("win", FALSE, esp0)
  /\ iflag' = (iflag \/ sti)
  /\ UNCHANGED <<proc, sched, page, esp0, retval>>

(* execute of an existing ELF file, and halt                               *)
SysExecute ==
  /\ InUser /\ Launched
  /\ Push("find", FALSE, NULL)
  /\ UNCHANGED <<proc, sched, page, esp0, iflag, retval>>

SysHalt ==
  /\ InUser /\ Launched
  /\ Push("halt", FALSE, NULL)
  /\ UNCHANGED <<proc, sched, page, esp0, iflag, retval>>

(* link_handler_sysc keeps the result in one global while it pops.         *)
StoreEax ==
  /\ At("win")
  /\ store_eax' = Top.arg
  /\ Goto("eax")
  /\ UNCHANGED <<proc, sched, page, esp0, esp, iflag, exeret>>

SysReturn ==
  /\ At("eax")
  /\ Iret
  /\ UNCHANGED <<proc, sched, page, esp0, esp, retval>>

-----------------------------------------------------------------------------
(* execute, from the search for a PCB to the iret into the new program.    *)

(* Mutant: not the lowest free slot.                                       *)
FindAnySlot ==
  /\ At("find") \/ At("respawn")
  /\ \E i \in FreeSlots : GotoWith("create", i)
  /\ UNCHANGED <<proc, sched, page, esp0, esp, iflag, retval>>

FindSlot ==
  /\ At("find") \/ At("respawn")
  /\ \/ \E i \in FreeSlots : 0..(i - 1) \subseteq PCBs /\ GotoWith("create", i)
     \/ FreeSlots = {} /\ At("find") /\ GotoWith("win", esp)   \* return -1
     \/ FreeSlots = {} /\ At("respawn") /\ Goto("stuck")  \* halt goes on, its parent NULL
  /\ UNCHANGED <<proc, sched, page, esp0, esp, iflag, retval>>

(* Mutant: the parent is the process of terminal 0, as if it were visible. *)
CreatePCBOfVisible ==
  /\ At("create")
  /\ PCBs' = PCBs \cup {Top.arg}
  /\ pending' = pending \ {Top.arg}
  /\ parent_pcb' = [parent_pcb EXCEPT ![Top.arg] =
                      IF Top.arg \in Base THEN NULL ELSE schedule_pcb[0]]
  /\ Goto("enlist")
  /\ UNCHANGED <<sched, page, esp0, esp, iflag, retval>>

CreatePCB ==
  /\ At("create")
  /\ PCBs' = PCBs \cup {Top.arg}
  /\ pending' = pending \ {Top.arg}
  /\ parent_pcb' = [parent_pcb EXCEPT ![Top.arg] = IF Top.arg \in Base THEN NULL ELSE esp]
  /\ Goto("enlist")
  /\ UNCHANGED <<sched, page, esp0, esp, iflag, retval>>

Enlist ==
  /\ At("enlist")
  /\ schedule_pcb' = [schedule_pcb EXCEPT ![cur_term] = Top.arg]
  /\ Goto("map")
  /\ UNCHANGED <<proc, cur_term, next_term, term_num, page, esp0, esp, iflag, retval>>

MapImage ==
  /\ At("map")
  /\ page' = Top.arg
  /\ Goto("enter")
  /\ UNCHANGED <<proc, sched, esp0, esp, iflag, retval>>

(* Mutants: tss.esp0 stays the parent's; execute does not save the context *)
(* scheduling() resumes; it saves the parent's where scheduling() does.    *)
EnterKeepsEsp0 ==
  /\ At("enter")
  /\ esp' = Top.arg
  /\ stk' = [[stk EXCEPT ![esp][1].at = IF Top.irq THEN "back" ELSE "wait"]
                  EXCEPT ![Top.arg] = <<>>]
  /\ UNCHANGED <<proc, sched, page, esp0, iflag, retval>>

EnterAs(l) ==
  /\ At("enter")
  /\ esp0' = Top.arg /\ esp' = Top.arg
  /\ stk' = [[stk EXCEPT ![esp][1].at = l] EXCEPT ![Top.arg] = <<>>]
  /\ UNCHANGED <<proc, sched, page, iflag, retval>>

EnterWithoutSaving == EnterAs("wait")
EnterLikeScheduling == EnterAs("back")

(* pushfl comes before sti: the program starts with the IF of this path.   *)
EnterProgram ==
  /\ At("enter")
  /\ LET new == Top.arg IN
     /\ esp0' = new /\ esp' = new
     /\ stk' = [[stk EXCEPT ![esp][1].at = IF Top.irq THEN "back" ELSE "wait"]
                     EXCEPT ![new] = <<>>]
  /\ UNCHANGED <<proc, sched, page, iflag, retval>>

-----------------------------------------------------------------------------
(* halt, from the system call or from kill_task, on the dying stack.       *)

(* Mutant: the base shell is not told apart.                               *)
HaltBaseToo ==
  /\ At("halt")
  /\ exeret' = esp
  /\ Goto("unmap")
  /\ UNCHANGED <<proc, sched, page, esp0, esp, iflag, store_eax>>

Halt ==
  /\ At("halt")
  /\ exeret' = esp
  /\ IF esp \in Base
     THEN PCBs' = PCBs \ {esp} /\ Goto("respawn")
     ELSE PCBs' = PCBs /\ Goto("unmap")
  /\ UNCHANGED <<parent_pcb, pending, sched, page, esp0, esp, iflag, store_eax>>

HaltMapParent ==
  /\ At("unmap")
  /\ page' = parent_pcb[esp]
  /\ Goto("remove")
  /\ UNCHANGED <<proc, sched, esp0, esp, iflag, retval>>

(* Mutant: remove_PCB clears no bit.                                       *)
HaltKeepsPCB ==
  /\ At("remove")
  /\ Goto("resched")
  /\ UNCHANGED <<proc, sched, page, esp0, esp, iflag, retval>>

HaltRemovePCB ==
  /\ At("remove")
  /\ PCBs' = PCBs \ {esp}
  /\ Goto("resched")
  /\ UNCHANGED <<parent_pcb, pending, sched, page, esp0, esp, iflag, retval>>

(* Mutant: the terminal still runs the process that left.                  *)
HaltKeepsSchedule ==
  /\ At("resched")
  /\ Goto("return")
  /\ UNCHANGED <<proc, sched, page, esp0, esp, iflag, retval>>

HaltReschedule ==
  /\ At("resched")
  /\ schedule_pcb' = [schedule_pcb EXCEPT ![cur_term] = parent_pcb[esp]]
  /\ Goto("return")
  /\ UNCHANGED <<proc, cur_term, next_term, term_num, page, esp0, esp, iflag, retval>>

(* Back on the stack of the process that called execute, at haltret, with  *)
(* sti.  (If no execute waits there the machine runs on garbage, which is  *)
(* not modelled.)                                                          *)
HaltReturn ==
  /\ At("return")
  /\ stk[parent_pcb[esp]] # <<>>
  /\ LET up == parent_pcb[esp] IN
     /\ esp0' = up /\ esp' = up
     /\ stk' = [[stk EXCEPT ![esp] = <<>>] EXCEPT ![up][1].at = "haltret"]
  /\ iflag' = TRUE
  /\ UNCHANGED <<proc, sched, page, retval>>

(* printf("\n"); return exeret;                                            *)
ExecuteReturn ==
  /\ At("haltret")
  /\ GotoWith("win", exeret)
  /\ UNCHANGED <<proc, sched, page, esp0, esp, iflag, retval>>

-----------------------------------------------------------------------------
(* Interrupts and exceptions.                                              *)

CanInterrupt == iflag /\ Len(Below) < MaxDepth

(* pit_handler up to scheduling(); make_signal(ALARM) leaves IF set, and   *)
(* the default handler of ALARM does nothing.                              *)
Tick(alarm) ==
  /\ CanInterrupt
  /\ alarm => Launched
  /\ Push("pit", TRUE, NULL)
  /\ iflag' = alarm
  /\ UNCHANGED <<proc, sched, page, esp0, retval>>

(* Mutant: next_term is not advanced.                                      *)
ScheduleSameTerminal ==
  /\ At("pit")
  /\ cur_term' = next_term
  /\ IF term_num < NTERM
     THEN term_num' = term_num + 1 /\ Goto("find")
     ELSE term_num' = term_num /\ GotoWith("switch", schedule_pcb[next_term])
  /\ UNCHANGED <<proc, schedule_pcb, next_term, page, esp0, esp, iflag, retval>>

(* scheduling() has saved esp and ebp: this stack can be resumed here.     *)
Schedule ==
  /\ At("pit")
  /\ cur_term' = next_term
  /\ next_term' = (next_term + 1) % NTERM
  /\ IF term_num < NTERM
     THEN term_num' = term_num + 1 /\ Goto("find")
     ELSE term_num' = term_num /\ GotoWith("switch", schedule_pcb[next_term])
  /\ UNCHANGED <<proc, schedule_pcb, page, esp0, esp, iflag, retval>>

Switch ==
  /\ At("switch")
  /\ LET next == Top.arg IN page' = next /\ esp0' = next /\ esp' = next
  /\ Goto("back")
  /\ UNCHANGED <<proc, sched, iflag, retval>>

(* A key, the RTC or the mouse; handler_keyboard ends with sti.            *)
DeviceIrq(sti) ==
  /\ CanInterrupt
  /\ Push("back", TRUE, NULL)
  /\ iflag' = sti
  /\ UNCHANGED <<proc, sched, page, esp0, retval>>

(* Ctrl-C while terminal v is visible                                      *)
CtrlC(v) ==
  /\ CanInterrupt /\ Launched
  /\ schedule_pcb[v] \in KillPids
  /\ pending' = pending \cup {schedule_pcb[v]}
  /\ Push("back", TRUE, NULL)
  /\ iflag' = TRUE
  /\ UNCHANGED <<PCBs, parent_pcb, sched, page, esp0, retval>>

(* An exception in user code; make_signal leaves IF set.                   *)
Fault ==
  /\ InUser /\ Launched
  /\ esp \in KillPids
  /\ pending' = pending \cup {EntryStack}
  /\ Push("back", TRUE, NULL)
  /\ iflag' = TRUE
  /\ UNCHANGED <<PCBs, parent_pcb, sched, page, esp0, retval>>

(* Mutant: the signal stays pending.                                       *)
KillTaskKeepsPending ==
  /\ At("back")
  /\ esp \in pending
  /\ Goto("halt")
  /\ UNCHANGED <<proc, sched, page, esp0, esp, iflag, retval>>

(* signal_handler at the end of every interrupt and exception linkage      *)
KillTask ==
  /\ At("back")
  /\ esp \in pending
  /\ pending' = pending \ {esp}
  /\ Goto("halt")
  /\ UNCHANGED <<PCBs, parent_pcb, sched, page, esp0, esp, iflag, retval>>

IrqReturn ==
  /\ At("back")
  /\ esp \notin pending
  /\ Iret
  /\ UNCHANGED <<proc, sched, page, esp0, esp, retval>>

-----------------------------------------------------------------------------
ExecuteStep == FindSlot \/ CreatePCB \/ Enlist \/ MapImage \/ EnterProgram
HaltStep    == Halt \/ HaltMapParent \/ HaltRemovePCB \/ HaltReschedule \/ HaltReturn
IrqStep     == Schedule \/ Switch \/ KillTask \/ IrqReturn

(* Steps the CPU takes on its own; only a call that has executed sti may    *)
(* wait at "win" for ever.                                                 *)
KernelStep == ExecuteStep \/ HaltStep \/ ExecuteReturn \/ SysReturn \/ IrqStep
                \/ (~iflag /\ StoreEax)

UserStep  == (\E sti \in BOOLEAN : SysCall(sti)) \/ SysExecute \/ SysHalt \/ Fault
Interrupt == \/ \E b \in BOOLEAN : Tick(b) \/ DeviceIrq(b)
             \/ \E v \in Terms : CtrlC(v)

Next == KernelStep \/ StoreEax \/ UserStep \/ Interrupt

Spec == Init /\ [][Next]_vars

(* execute, halt and what scheduling() does once it has named the next     *)
(* terminal set the records of who runs one after the other, and nothing   *)
(* in them keeps interrupts out: IF is set there in a kill that a key or a *)
(* fault began, in the calls of a shell that such a kill has started, and  *)
(* in scheduling() after an alarm.                                         *)
Critical == ~InUser /\ Top.at \in HaltLabels \cup ExecLabels \cup {"switch"}

(* The executions in which no interrupt hits one of these sections.        *)
Undisturbed == [][Critical => ~Interrupt]_vars

UndisturbedNext == KernelStep \/ StoreEax \/ UserStep \/ (~Critical /\ Interrupt)
UndisturbedSpec == Init /\ [][UndisturbedNext]_vars

(* The executions without signals: no Ctrl-C, no fault, and no alarm.      *)
Signal == Fault \/ (\E v \in Terms : CtrlC(v)) \/ Tick(TRUE)
Unsignalled == [][~Signal]_vars

(* The PIT keeps its request pending until IF is set, so a tick that can   *)
(* be taken again and again is taken; fifteen of sixteen raise no alarm.   *)
CpuRuns == WF_vars(KernelStep) /\ SF_vars(~Critical /\ Tick(FALSE))

(* Not a promise of the kernel: every program makes a terminal or RTC call *)
(* again and again.                                                        *)
ProgramsBlock == SF_vars(SysCall(TRUE))

LiveSpec == UndisturbedSpec /\ CpuRuns /\ ProgramsBlock
-----------------------------------------------------------------------------
(* Properties.                                                             *)

(* Every variable stays in its range; frames are well formed.              *)
TypeOK ==
  /\ PCBs \subseteq Slots
  /\ parent_pcb \in [Slots -> Slots \cup {NULL}]
  /\ pending \subseteq Slots
  /\ schedule_pcb \in [Terms -> Slots \cup {NULL}]
  /\ cur_term \in Terms /\ next_term \in Terms /\ term_num \in 1..NTERM
  /\ page \in Slots /\ esp0 \in Slots /\ esp \in Slots
  /\ stk \in [Slots -> Seq(Frame)]
  /\ iflag \in BOOLEAN
  /\ exeret \in Slots \cup {NULL} /\ store_eax \in Slots \cup {NULL}

(* The points where other code may observe or change the process table:    *)
(* user mode, a system call that can be preempted, an interrupt handler    *)
(* outside halt and execute.                                               *)
Settled == InUser \/ Top.at \in {"win", "eax", "haltret", "pit", "switch", "back"}

(* Whoever executes has its own image mapped and its own kernel stack in   *)
(* the TSS, owns a slot in use, and is the process the scheduler believes  *)
(* its terminal runs (user_paging, tss.esp0 and schedule_pcb, set in four  *)
(* different places, agree with %esp).                                     *)
Installed ==
  Settled /\ ~At("switch") =>
    /\ page = esp /\ esp0 = esp /\ schedule_pcb[cur_term] = esp
    /\ esp \in PCBs

(* A program in user mode runs on its own image (what Installed says, but  *)
(* only where a program can tell).                                         *)
OwnImage == InUser => page = esp

(* No process belongs to two terminals, a foreground process waits for     *)
(* nobody, and two processes never wait for the same child's parent slot:  *)
(* the terminals' chains of shells and programs are disjoint.              *)
Leaves == {schedule_pcb[t] : t \in 0..(term_num - 1)}

ChainsDisjoint ==
  Settled =>
    /\ \A t, u \in 0..(term_num - 1) : schedule_pcb[t] = schedule_pcb[u] => t = u
    /\ \A p \in PCBs \ Base : parent_pcb[p] \notin Leaves
    /\ \A p, q \in PCBs \ Base : parent_pcb[p] = parent_pcb[q] => p = q

(* A slot is in use exactly when a terminal runs it or a process in use    *)
(* will return to it: halt and execute leak no PCB and free none that is   *)
(* still needed.                                                           *)
NoSlotLeak ==
  Settled => PCBs = Leaves \cup {parent_pcb[p] : p \in PCBs \ Base}

(* create_PCB and halt tell a base shell by its slot.  "Can't exit base    *)
(* shell": the shell of every launched terminal keeps its slot; and a      *)
(* program that an execute waits for never has such a slot, or it would    *)
(* become a shell when it exits and its parent would wait for ever.        *)
BaseForShells ==
  /\ Settled => 0..(term_num - 1) \subseteq PCBs
  /\ \A p \in Slots : stk[p] # <<>> /\ stk[p][1].at = "wait" => stk[p][1].arg \notin Base

(* scheduling() only ever resumes a stack on which an earlier scheduling() *)
(* saved its context.                                                      *)
SwitchTargetSaved ==
  Settled => \A t \in 0..(term_num - 1) :
    LET p == schedule_pcb[t] IN
    p # esp => stk[p] # <<>> /\ stk[p][1].at = "back"

(* halt returns to the execute that started this very program.             *)
ParentWaits ==
  Settled => \A p \in PCBs \ Base :
    LET s == stk[parent_pcb[p]] IN s # <<>> /\ s[1].at = "wait" /\ s[1].arg = p

(* A pending Ctrl-C belongs to a process about to run signal_handler, so   *)
(* it is never left to a later program in the slot.                        *)
PendingIsSaved ==
  \A p \in pending : p \in PCBs /\ stk[p] # <<>> /\ stk[p][1].at \in {"back", "pit", "switch"}

(* Every terminal's process gets the CPU again and again.                  *)
EveryTerminalRuns == \A t \in Terms : []<>(cur_term = t /\ esp = schedule_pcb[t])

(* A program that starts to halt is gone, or is a base shell again.        *)
HaltCompletes ==
  \A p \in Slots : (stk[p] # <<>> /\ stk[p][1].at \in HaltLabels)
                      ~> (stk[p] = <<>> /\ (p \in PCBs <=> p \in Base))

(* A Ctrl-C is acted upon.                                                 *)
CtrlCDelivered == \A p \in Slots : (p \in pending) ~> (p \notin pending)
=============================================================================
