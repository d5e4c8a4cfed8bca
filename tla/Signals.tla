------------------------------- MODULE Signals -------------------------------
(***************************************************************************)
(* The signals of one process.  An interrupt or a fault posts them; the    *)
(* stub that served it takes one, signal_handler, on its way out.  A       *)
(* handler of the program is started by putting on the user stack the      *)
(* interrupted context, the signal number and a return address that leads  *)
(* to sigreturn; it exists only where the program's stack does, for a stub *)
(* entered from user mode.                                                 *)
(*                                                                         *)
(* The process runs one of the programs of Codes.  A program is a sequence *)
(* of instructions; an address in it is a position.  Programs run with     *)
(* interrupts off: only faults and system calls leave user mode.           *)
(***************************************************************************)
EXTENDS Integers, Sequences, FiniteSetsExt

CONSTANTS Codes,       \* the programs
          USER_ESP,    \* words of user stack
          MAX_FRAMES   \* bound: kernel activations on the kernel stack

ASSUME StackAssumption == USER_ESP \in Nat /\ MAX_FRAMES \in Nat \ {0}

VARIABLES code,     \* the program that runs
          cpu,      \* user registers ip, eax and esp; what iret restores
          mem,      \* the user stack, growing down from USER_ESP
          badbuf, charbuf,  \* the variables of the program
          pending,  \* signal_status
          handler,  \* handler: addresses, those of the kernel below 0
          frames,   \* the kernel stack, innermost activation last
          visible,  \* the process's terminal is the one on the screen
          status,   \* "running", or how it ended
          saved     \* history: contexts the started handlers interrupted

vars == <<code, cpu, mem, badbuf, charbuf, pending, handler, frames, visible, status, saved>>
program == <<code, badbuf, charbuf>>

DIV_ZERO  == 0
SEGFAULT  == 1
INTERRUPT == 2
ALARM     == 3
USER1     == 4
USER2     == 5
SignalNumbers == 0..5

(* Addresses outside the program: the kernel's handlers, the return        *)
(* handler copied to the stack, and anywhere else                          *)
kill_task       == -1
signal_ignore   == -2
left_key_mouse  == -3
right_key_mouse == -4
RETURN_HANDLER  == -5
WILD            == -6

(* Mutant: a fault is ignored by default.                                  *)
DefaultIgnores == [s \in SignalNumbers |->
              CASE s \in {DIV_ZERO, INTERRUPT} -> kill_task
                [] s \in {SEGFAULT, ALARM} -> signal_ignore
                [] s = USER1 -> left_key_mouse
                [] s = USER2 -> right_key_mouse]

Default == [s \in SignalNumbers |->
              CASE s \in {DIV_ZERO, SEGFAULT, INTERRUPT} -> kill_task
                [] s = ALARM -> signal_ignore
                [] s = USER1 -> left_key_mouse
                [] s = USER2 -> right_key_mouse]

Cell(k, v) == [kind |-> k, val |-> v]
Garbage    == Cell("none", 0)
Frame(k, stage, on) == [kind |-> k, stage |-> stage, on |-> on]

Init ==
  /\ code \in Codes
  /\ cpu = [ip |-> 1, eax |-> 0, esp |-> USER_ESP]
  /\ mem = [a \in 1..USER_ESP |-> Garbage]
  /\ badbuf = 0 /\ charbuf = 0
  /\ pending = {}
  /\ handler = Default
  /\ frames = <<>>
  /\ visible = TRUE
  /\ status = "running"
  /\ saved = <<>>

-----------------------------------------------------------------------------
(* The program                                                             *)
InUser    == status = "running" /\ frames = <<>>
Does(op)  == InUser /\ cpu.ip \in DOMAIN code /\ code[cpu.ip].op = op
Fetched   == code[cpu.ip]
Next_ip   == [cpu EXCEPT !.ip = @ + 1]

(* Faults: the instruction has no effect and ip stays                      *)
Fault(k) == /\ frames' = <<Frame(k, "body", FALSE)>>
            /\ UNCHANGED <<program, cpu, mem, pending, handler, visible, status, saved>>

Quiet == UNCHANGED <<code, pending, handler, frames, visible, status>>

Load == /\ Does("load") /\ cpu' = [Next_ip EXCEPT !.eax = badbuf]
        /\ Quiet /\ UNCHANGED <<mem, badbuf, charbuf, saved>>

Store == /\ Does("store")
         /\ IF cpu.eax = 0 THEN Fault("PF")
            ELSE /\ charbuf' = 1 /\ cpu' = Next_ip
                 /\ Quiet /\ UNCHANGED <<mem, badbuf, saved>>

Divide == /\ Does("divide")
          /\ IF cpu.eax = 0 THEN Fault("DE")
             ELSE cpu' = Next_ip /\ Quiet /\ UNCHANGED <<mem, badbuf, charbuf, saved>>

(* A handler's prologue: room for its locals                               *)
Enter == /\ Does("enter")
         /\ cpu' = [Next_ip EXCEPT !.esp = @ - 1]
         /\ mem' = [mem EXCEPT ![cpu.esp - 1] = Cell("local", 0)]
         /\ Quiet /\ UNCHANGED <<badbuf, charbuf, saved>>

(* badbuf = &charbuf, and so does eax in the context above signum          *)
Fix == LET c == cpu.esp + 3 IN
       /\ Does("fix")
       /\ badbuf' = 1
       /\ mem' = IF mem[c].kind = "context" THEN [mem EXCEPT ![c].val.eax = 1] ELSE mem
       /\ saved' = [saved EXCEPT ![Len(saved)].eax = 1]
       /\ cpu' = Next_ip
       /\ Quiet /\ UNCHANGED charbuf

(* leave; ret                                                              *)
Return == LET r == mem[cpu.esp + 1] IN
          /\ Does("return")
          /\ cpu' = [cpu EXCEPT !.esp = @ + 2,
                       !.ip = IF r.kind = "ret" /\ mem[r.val].kind = "code"
                              THEN RETURN_HANDLER ELSE WILD]
          /\ Quiet /\ UNCHANGED <<mem, badbuf, charbuf, saved>>

(* The system calls that never enable interrupts, in one step.  The        *)
(* argument of the program starts with 1, with something else, or is none. *)
Getargs ==
  /\ Does("getargs")
  /\ \/ status' = "refused" /\ UNCHANGED cpu
     \/ status' = status /\ \E n \in {cpu.ip + 1, Fetched.h} : cpu' = [cpu EXCEPT !.ip = n]
  /\ UNCHANGED <<program, mem, pending, handler, frames, visible, saved>>

(* Mutant: the handler goes to the next signal's place.                    *)
set_handlerNext ==
  LET s == Fetched.s IN
  /\ Does("set_handler")
  /\ handler' = IF s \notin SignalNumbers THEN handler
                ELSE [handler EXCEPT ![s + 1] = IF Fetched.h # 0 THEN Fetched.h ELSE Default[s]]
  /\ cpu' = Next_ip
  /\ UNCHANGED <<program, mem, pending, frames, visible, status, saved>>

set_handler ==
  LET s == Fetched.s IN
  /\ Does("set_handler")
  /\ handler' = IF s \notin SignalNumbers THEN handler
                ELSE [handler EXCEPT ![s] = IF Fetched.h # 0 THEN Fetched.h ELSE Default[s]]
  /\ cpu' = Next_ip
  /\ UNCHANGED <<program, mem, pending, frames, visible, status, saved>>

(* Halt, after printing what charbuf says                                  *)
Halt == /\ Does("halt")
        /\ status' = IF charbuf = 1 THEN "success" ELSE "failure"
        /\ UNCHANGED <<program, cpu, mem, pending, handler, frames, visible, saved>>

(* The return handler's int 0x80 and sigreturn: the context above the      *)
(* signal number is copied over the one iret restores; eax stays as        *)
(* restored (sig_return_flag).                                             *)
(* Mutant: the linkage stores the call's result in eax, as for other calls *)
RestoredResult(hwcontext) == [hwcontext EXCEPT !.eax = 1]

Restored(hwcontext) == hwcontext

sigreturn ==
  LET a == cpu.esp + 1 IN
  /\ InUser /\ cpu.ip = RETURN_HANDLER
  /\ cpu' = IF a \in DOMAIN mem /\ mem[a].kind = "context" THEN Restored(mem[a].val)
            ELSE [cpu EXCEPT !.ip = WILD]
  /\ saved' = IF saved = <<>> THEN saved ELSE SubSeq(saved, 1, Len(saved) - 1)
  /\ Quiet /\ UNCHANGED <<mem, badbuf, charbuf>>

(* read and write: interrupts are enabled until they return                *)
Call == /\ Does("read") \/ Does("write")
        /\ frames' = <<Frame("call", "body", TRUE)>>
        /\ UNCHANGED <<program, cpu, mem, pending, handler, visible, status, saved>>

InKernel == status = "running" /\ frames # <<>>
Top      == frames[Len(frames)]
Below    == SubSeq(frames, 1, Len(frames) - 1)

CallReturns == /\ InKernel /\ Top.kind = "call"
               /\ frames' = <<>> /\ cpu' = Next_ip
               /\ UNCHANGED <<program, mem, pending, handler, visible, status, saved>>

-----------------------------------------------------------------------------
(* The stubs.  An activation goes from its body to its return, where it    *)
(* calls signal_handler; on: interrupts are enabled in it.                 *)
SetTop(stage, on) == frames' = [frames EXCEPT ![Len(frames)] = Frame(Top.kind, stage, on)]
InBody(k) == InKernel /\ Top.kind = k /\ Top.stage = "body"
KeepUser  == UNCHANGED <<program, cpu, mem, handler, status, saved>>

Interrupt(k) == /\ InKernel /\ Top.on /\ Len(frames) < MAX_FRAMES
                /\ frames' = Append(frames, Frame(k, "body", FALSE))
                /\ KeepUser /\ UNCHANGED <<pending, visible>>

ToVisible == {INTERRUPT, USER1, USER2}

(* It ends with sti, whatever interrupts were before.                      *)
make_signal(s) == pending' = IF s \in ToVisible /\ ~visible THEN pending ELSE pending \cup {s}

handler_DE == /\ InBody("DE") /\ make_signal(DIV_ZERO) /\ SetTop("return", TRUE)
              /\ KeepUser /\ UNCHANGED visible
handler_PF == /\ InBody("PF") /\ make_signal(SEGFAULT) /\ SetTop("return", TRUE)
              /\ KeepUser /\ UNCHANGED visible

(* Ctrl-C, Alt with a function key, another key                            *)
handler_keyboard ==
  /\ InBody("keyboard") /\ SetTop("return", TRUE) /\ KeepUser
  /\ \/ make_signal(INTERRUPT) /\ UNCHANGED visible
     \/ visible' \in BOOLEAN /\ UNCHANGED pending

(* Left, middle and right button, or none                                  *)
mouse_handler ==
  /\ InBody("mouse") /\ KeepUser
  /\ \/ \E s \in {USER1, USER2} : make_signal(s) /\ SetTop("return", TRUE) /\ UNCHANGED visible
     \/ /\ visible' \in IF visible THEN {FALSE} ELSE BOOLEAN
        /\ SetTop("return", FALSE) /\ UNCHANGED pending
     \/ SetTop("return", FALSE) /\ UNCHANGED <<pending, visible>>

handler_rtc == /\ InBody("rtc") /\ SetTop("return", FALSE)
               /\ KeepUser /\ UNCHANGED <<pending, visible>>

(* Its counter c is a uint8_t, so the 10000 stored in it is 16.  A tick    *)
(* that posts ALARM switches with interrupts on.                           *)
pit_handler ==
  /\ InBody("pit") /\ KeepUser /\ UNCHANGED visible
  /\ \/ make_signal(ALARM) /\ SetTop("switch", TRUE)
     \/ UNCHANGED pending /\ SetTop("away", FALSE)

Switch == /\ InKernel /\ Top.stage = "switch" /\ SetTop("away", FALSE)
          /\ KeepUser /\ UNCHANGED <<pending, visible>>

(* Interrupts served while other processes run                             *)
Elsewhere ==
  /\ InKernel /\ Top.stage = "away" /\ KeepUser /\ UNCHANGED frames
  /\ \/ \E s \in ToVisible : make_signal(s) /\ UNCHANGED visible
     \/ visible' = ~visible /\ UNCHANGED pending

(* Interrupts are then as the process switched from had them.              *)
Back == /\ InKernel /\ Top.stage = "away"
        /\ \E on \in BOOLEAN : SetTop("return", on)
        /\ KeepUser /\ UNCHANGED <<pending, visible>>

-----------------------------------------------------------------------------
(* signal_handler, and the stub's iret                                     *)
SignalHandler == InKernel /\ Top.stage = "return" /\ frames' = Below
                 /\ UNCHANGED <<program, handler, visible>>

Lowest   == Min(pending)
Taken    == pending' = pending \ {Lowest}
OfKernel == {kill_task, signal_ignore, left_key_mouse, right_key_mouse}

(* hwcontext->esp is a user stack pointer: the activation was entered from *)
(* user mode.  (Otherwise that word is none of iret's.)                    *)
FromUser == Len(frames) = 1 /\ Top.kind \in {"DE", "PF"}

NoSignal == /\ SignalHandler /\ pending = {}
            /\ UNCHANGED <<cpu, mem, pending, status, saved>>

KernelHandler ==
  /\ SignalHandler /\ pending # {} /\ handler[Lowest] \in OfKernel /\ Taken
  /\ status' = IF handler[Lowest] # kill_task THEN status
               ELSE IF Lowest = INTERRUPT THEN "interrupted" ELSE "killed"
  /\ UNCHANGED <<cpu, mem, saved>>

(* Mutant: the return address is that of the program's own top of stack.   *)
build_hwcontextAtTop(uesp, s, hwcontext) ==
  [mem EXCEPT ![uesp - 1] = Cell("code", 0), ![uesp - 2] = Cell("context", hwcontext),
              ![uesp - 3] = Cell("signum", s), ![uesp - 4] = Cell("ret", uesp)]

(* From the top: the return handler's code, the context, the signal number *)
(* and the address of the code                                             *)
build_hwcontext(uesp, s, hwcontext) ==
  [mem EXCEPT ![uesp - 1] = Cell("code", 0), ![uesp - 2] = Cell("context", hwcontext),
              ![uesp - 3] = Cell("signum", s), ![uesp - 4] = Cell("ret", uesp - 1)]

(* The handler starts when the stub returns.                               *)
UserHandler ==
  /\ SignalHandler /\ pending # {} /\ handler[Lowest] \notin OfKernel /\ FromUser /\ Taken
  /\ mem' = build_hwcontext(cpu.esp, Lowest, cpu)
  /\ cpu' = [cpu EXCEPT !.ip = handler[Lowest], !.esp = @ - 4]
  /\ saved' = Append(saved, cpu)
  /\ UNCHANGED status

(* Elsewhere the signal is gone; ALARM's handler is called in the kernel,  *)
(* and what it does there is to print.                                     *)
Dropped ==
  /\ SignalHandler /\ pending # {} /\ handler[Lowest] \notin OfKernel /\ ~FromUser /\ Taken
  /\ UNCHANGED <<cpu, mem, status, saved>>

-----------------------------------------------------------------------------
Ended == status # "running" /\ UNCHANGED vars

User == Load \/ Store \/ Divide \/ Enter \/ Fix \/ Return \/ Getargs \/ set_handler
          \/ Halt \/ sigreturn \/ Call

Kernel == \/ handler_DE \/ handler_PF \/ handler_keyboard \/ mouse_handler \/ handler_rtc
          \/ pit_handler \/ Switch \/ Back
          \/ NoSignal \/ KernelHandler \/ UserHandler \/ Dropped

Next == \/ User \/ Kernel \/ CallReturns \/ Elsewhere \/ Ended
        \/ \E k \in {"keyboard", "mouse", "pit", "rtc"} : Interrupt(k)

(* The processor goes on with an interrupt or a fault, and the scheduler   *)
(* comes back to every process.                                            *)
Spec == Init /\ [][Next]_vars /\ WF_vars(Kernel)

-----------------------------------------------------------------------------
(* sigtest.c.  With an argument that starts with 1 it sets two handlers;   *)
(* its store through badbuf, then null, faults; the handler of the fault   *)
(* makes the store good.                                                   *)
Op(op)        == [op |-> op, s |-> 0, h |-> 0]
Install(s, h) == [op |-> "set_handler", s |-> s, h |-> h]

main == <<[op |-> "getargs", s |-> 0, h |-> 4], Install(SEGFAULT, 10), Install(ALARM, 16),
          Op("write"), Op("read"), Op("load"), Op("store"), Op("write"), Op("halt")>>
segfault_sighandler == <<Op("enter"), Op("write"), Op("read"), Op("fix"), Op("write"), Op("return")>>
alarm_sighandler    == <<Op("enter"), Op("write"), Op("return")>>

Sigtest == main \o segfault_sighandler \o alarm_sighandler

-----------------------------------------------------------------------------
(* When a handler returns, the program goes on as it was when the signal   *)
(* interrupted it, with the changes the handler made to that context: the  *)
(* last one interrupted is the first resumed (signal.c:227, sigreturn).    *)
Resumes == [][Len(saved') < Len(saved) => cpu' = saved[Len(saved)]]_vars

(* No handler returns to an address that is not code, however handlers     *)
(* nest on the user stack (build_hwcontext, link_handler_sig_return).      *)
HandlersReturn == cpu.ip # WILD

(* sigtest never says failure and never dies of its own fault once its     *)
(* handlers are set, whatever interrupts take its signals in the window    *)
(* make_signal opens; without them it does not get past the faulting store *)
(* (sigtest.c:13, signal.c:216).                                           *)
SigtestVerdict ==
  code = Sigtest => /\ status # "failure"
                    /\ status = "success" => handler # Default
                    /\ status = "killed" => handler = Default

(* A program without a handler for it dies of its fault, even if the       *)
(* signal is taken by an interrupt nested in the fault's own stub          *)
(* (signal.c:216, idt.c).                                                  *)
FaultEnds ==
  /\ frames # <<>> /\ frames[1].kind = "PF" /\ handler = Default
  ~> status # "running"
=============================================================================
