----------------------------- MODULE KernelInv ------------------------------
(***************************************************************************)
(* The inductive invariant of Kernel, for the executions in which no       *)
(* interrupt hits execute, halt or the critical part of scheduling().      *)
(***************************************************************************)
EXTENDS Kernel

(* scheduling() is starting the shell of terminal cur_term: in an interrupt *)
(* handler, and not in the slot of the process it interrupted, as halt does *)
(* for a base shell that a signal has killed.                              *)
Launching ==
  /\ ~InUser /\ Top.irq
  /\ Top.at = "find" \/ (Top.at \in {"create", "enlist"} /\ Top.arg # esp)
Count == IF Launching THEN term_num - 1 ELSE term_num

(* Slots whose bit halt has cleared though their process is still linked,  *)
(* and the slot whose bit create_PCB has set though it is not yet linked.  *)
Doomed == {p \in Slots \ PCBs : p = esp /\ ~InUser /\ Top.at \in {"respawn", "create", "resched"}}
Unborn == {p \in Slots : ~InUser /\ Top.at = "enlist" /\ p = Top.arg /\ p # esp}
Live   == (PCBs \cup Doomed) \ Unborn

IsLeaf(p) == \E t \in Terms : schedule_pcb[t] = p

(* The links schedule_pcb and parent_pcb make one chain per terminal.      *)
Tree ==
  /\ Count \in 1..NTERM
  /\ \A t \in Terms : schedule_pcb[t] # NULL <=> t < Count
  /\ \A t \in Terms : t < Count => schedule_pcb[t] \in Live /\ t \in Live
  /\ \A t, u \in Terms : t < Count /\ schedule_pcb[t] = schedule_pcb[u] => t = u
  /\ \A p \in Live \ Base : parent_pcb[p] \in Live /\ ~IsLeaf(parent_pcb[p])
  /\ \A p, q \in Live \ Base : parent_pcb[p] = parent_pcb[q] => p = q
  /\ \A p \in Live : IsLeaf(p) \/ \E q \in Live \ Base : parent_pcb[q] = p
  /\ Count < NTERM => Live \subseteq 0..(Count - 1)

(* Where the CPU is, by the label of the innermost frame.                  *)
Plain == {"win", "eax", "haltret", "pit", "back", "halt"}

Focus ==
  /\ InUser => schedule_pcb[cur_term] = esp /\ page = esp /\ esp0 = esp
  /\ ~InUser =>
     /\ Top.at \notin {"wait", "stuck"}
     /\ Top.at \in Plain =>
          schedule_pcb[cur_term] = esp /\ page = esp /\ esp0 = esp
     /\ Top.at \in {"find", "create", "enlist", "respawn"} =>
          /\ IF Launching THEN cur_term = Count /\ IsLeaf(esp)
                          ELSE schedule_pcb[cur_term] = esp
          /\ Count = NTERM \/ Launching
     /\ Top.at = "respawn" => esp \in Base /\ esp \notin PCBs
     /\ Top.at = "find" => esp \in PCBs /\ page = esp /\ esp0 = esp
     /\ Top.at = "create" =>
          /\ Top.arg \in Slots \ PCBs
          /\ Launching => Top.arg = cur_term /\ esp \in PCBs
          /\ esp \notin PCBs => Top.arg = esp /\ esp \in Base
          /\ esp \in PCBs /\ ~Launching => Top.arg \notin Base
     /\ Top.at = "enlist" =>
          /\ Top.arg \in PCBs
          /\ Launching => Top.arg = cur_term /\ Top.arg # esp
          /\ ~Launching /\ Top.arg # esp => Top.arg \notin Base /\ parent_pcb[Top.arg] = esp
          /\ Top.arg = esp => esp \in Base
     /\ Top.at \in {"enlist", "map", "enter"} => Top.arg \in Slots \ pending
     /\ Top.at \in {"map", "enter"} =>
          /\ schedule_pcb[cur_term] = Top.arg
          /\ Top.at = "enter" => page = Top.arg
          /\ \/ Top.arg = esp /\ esp \in Base
             \/ Top.arg \notin Base /\ parent_pcb[Top.arg] = esp /\ ~Top.irq
             \/ Top.arg \in Base /\ Top.arg # esp /\ IsLeaf(esp) /\ Top.irq
     /\ Top.at \in {"unmap", "remove", "resched"} =>
          /\ schedule_pcb[cur_term] = esp /\ esp \notin Base
          /\ Top.at # "unmap" => page = parent_pcb[esp]
          /\ Top.at = "resched" => esp \notin PCBs
     /\ Top.at = "return" =>
          /\ esp \notin PCBs /\ esp \notin Base
          /\ schedule_pcb[cur_term] = parent_pcb[esp] /\ page = parent_pcb[esp]
          /\ LET s == stk[parent_pcb[esp]] IN
               s # <<>> /\ s[1].at = "wait" /\ s[1].arg = esp
     /\ Top.at = "switch" => Top.arg = schedule_pcb[cur_term] /\ IsLeaf(esp)
     /\ Top.at \in {"switch", "halt", "unmap", "remove", "resched", "return"} => term_num = NTERM
  /\ next_term = (cur_term + 1) % NTERM
  /\ Count < NTERM => cur_term = Count - 1 \/ Launching

(* A process that a terminal runs but the CPU does not has a context that  *)
(* scheduling() saved; one that waits for a child is inside execute.       *)
Saved ==
  \A t \in Terms :
    LET p == schedule_pcb[t] IN
    p # NULL /\ p # esp =>
      \/ stk[p] # <<>> /\ stk[p][1].at = "back"
      \/ t = cur_term /\ ~InUser /\ Top.at \in {"map", "enter", "return"}

Waits ==
  \A q \in Live \ Base :
    \/ LET s == stk[parent_pcb[q]] IN s # <<>> /\ s[1].at = "wait" /\ s[1].arg = q
    \/ ~InUser /\ Top.at \in {"map", "enter"} /\ ~Top.irq /\ q = Top.arg

(* Stacks: only interrupt frames sit on other frames, they restore IF to 1 *)
(* and hit no critical section; nobody waits for a base shell.             *)
Stacks ==
  \A p \in Slots : \A i \in 1..Len(stk[p]) :
    LET f == stk[p][i] IN
    /\ i < Len(stk[p]) => f.irq /\ f.ifl
    /\ i > 1 => f.at \in {"win", "eax", "haltret", "pit", "back"}
    /\ f.irq => f.at \notin {"win", "eax", "haltret", "wait", "stuck"}
    /\ ~f.irq => f.at \notin {"pit", "switch", "back"}
    /\ f.at = "wait" => f.arg \notin Base

Signals ==
  /\ term_num < NTERM => pending = {}
  /\ \A p \in pending : p \in PCBs /\ stk[p] # <<>> /\ stk[p][1].at \in {"back", "pit", "switch"}

(* What also holds while nobody is sent a signal: IF is clear in user mode *)
(* and from the entry of execute, halt and pit_handler on.                 *)
CalmStack(s) ==
  \A i \in 1..Len(s) : (i = Len(s) => ~s[i].ifl) /\ (i > 1 => s[i].at # "pit")

Calm ==
  /\ pending = {}
  /\ iflag => ~InUser /\ Top.at \in {"win", "eax", "haltret", "back"}
  /\ \A p \in Slots : CalmStack(stk[p])

IInv == TypeOK /\ Tree /\ Focus /\ Saved /\ Waits /\ Stacks /\ Signals
=============================================================================
