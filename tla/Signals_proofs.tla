---------------------------- MODULE Signals_proofs ----------------------------
(***************************************************************************)
(* Handlers nest on the user stack and are left in the order opposite to   *)
(* the one they were started in, for every program whose handlers are      *)
(* separate pieces of code between a prologue and a return, every size of  *)
(* its stack and every nesting of interrupts in the kernel, as long as the *)
(* stack has room.  sigtest is such a program, and passes its own test.    *)
(***************************************************************************)
EXTENDS Signals, SequenceTheorems, TLAPS

Instructions ==
  [op : {"load", "store", "divide", "enter", "fix", "return", "getargs", "set_handler", "halt",
         "read", "write"}, s : Int, h : Nat]

(* What a compiler makes of main and of functions that are handlers: parts *)
(* says of every address whether it is in main, the first of a handler or  *)
(* in one.                                                                 *)
Compiled(c, parts) ==
  /\ c \in Seq(Instructions)
  /\ parts \in [1..(Len(c) + 1) -> {"main", "entry", "body"}]
  /\ parts[1] = "main"
  /\ \A i \in DOMAIN c :
       /\ c[i].op = "enter" <=> parts[i] = "entry"
       /\ c[i].op \in {"fix", "return"} => parts[i] = "body"
       /\ c[i].op \notin {"halt", "return"} =>
            parts[i + 1] = IF parts[i] = "main" THEN "main" ELSE "body"
       /\ c[i].op = "getargs" => c[i].h \in DOMAIN c /\ parts[c[i].h] = parts[i]
       /\ c[i].op = "set_handler" =>
            c[i].h = 0 \/ (c[i].h \in DOMAIN c /\ parts[c[i].h] = "entry")

WellFormed == \A c \in Codes : \E parts : Compiled(c, parts)

(* The stack never runs out.                                               *)
StackRoom == cpu.esp > 0

-----------------------------------------------------------------------------
(* The stack pointer under n handlers, and the frame of the kth of them    *)
Depth(n) == USER_ESP - 5 * n

Contexts == [ip : Int, eax : {0, 1}, esp : Int]

Framed(k) == LET b == Depth(k - 1) IN
  /\ b - 4 \in DOMAIN mem
  /\ mem[b - 1] = Cell("code", 0)
  /\ mem[b - 2] = Cell("context", saved[k])
  /\ mem[b - 4] = Cell("ret", b - 1)

(* A place where a signal may interrupt the program under n handlers       *)
Inside(parts, ip, n) ==
  /\ ip \in DOMAIN parts
  /\ parts[ip] = IF n = 0 THEN "main" ELSE "body"

Where(parts) == LET n == Len(saved) IN
  \/ Inside(parts, cpu.ip, n) /\ cpu.esp = Depth(n)
  \/ n > 0 /\ cpu.ip \in DOMAIN parts /\ parts[cpu.ip] = "entry" /\ cpu.esp = Depth(n) + 1
  \/ n > 0 /\ cpu.ip = RETURN_HANDLER /\ cpu.esp = Depth(n) + 2

Installed(parts) ==
  \A s \in SignalNumbers : \/ handler[s] \in OfKernel
                           \/ handler[s] \in DOMAIN code /\ parts[handler[s]] = "entry"

(* The kernel is entered from user mode at one of these instructions.     *)
Trapped == /\ cpu.ip \in DOMAIN code
           /\ code[cpu.ip].op \in {"store", "divide", "read", "write"}

StackInv(parts) ==
  /\ Compiled(code, parts)
  /\ cpu \in Contexts /\ badbuf \in {0, 1} /\ DOMAIN mem = 1..USER_ESP
  /\ saved \in Seq(Contexts)
  /\ \A k \in DOMAIN saved : /\ Inside(parts, saved[k].ip, k - 1)
                             /\ saved[k].esp = Depth(k - 1)
                             /\ Framed(k)
  /\ Where(parts)
  /\ frames # <<>> => Trapped
  /\ DOMAIN handler = SignalNumbers /\ Installed(parts)
  /\ pending \subseteq SignalNumbers

HandlersInv == \E parts : StackInv(parts)

-----------------------------------------------------------------------------
LEMMA InitStack ==
  ASSUME NEW parts, Compiled(code, parts), Init
  PROVE  StackInv(parts)
<1>1. USER_ESP \in Nat /\ saved = <<>> /\ frames = <<>> /\ Len(saved) = 0
  BY StackAssumption DEF Init
<1>2. cpu = [ip |-> 1, eax |-> 0, esp |-> USER_ESP] /\ cpu \in Contexts
  BY <1>1 DEF Init, Contexts
<1>3. Where(parts)
  <2>1. 1 \in DOMAIN parts /\ parts[1] = "main"
    BY DEF Compiled
  <2> QED
    BY <1>1, <1>2, <2>1 DEF Where, Inside, Depth
<1>4. DOMAIN handler = SignalNumbers /\ Installed(parts)
  BY DEF Init, Default, Installed, OfKernel, SignalNumbers, DIV_ZERO, SEGFAULT, INTERRUPT, ALARM, USER1, USER2
<1> QED
  BY <1>1, <1>2, <1>3, <1>4 DEF Init, StackInv

LEMMA InitHandlers ==
  ASSUME WellFormed, Init
  PROVE  HandlersInv
<1>1. PICK parts : Compiled(code, parts)
  BY DEF Init, WellFormed
<1> QED
  BY <1>1, InitStack DEF HandlersInv

LEMMA Outside ==
  ASSUME NEW parts, StackInv(parts)
  PROVE  /\ DOMAIN parts = 1..(Len(code) + 1) /\ Len(code) \in Nat /\ DOMAIN code = 1..Len(code)
         /\ RETURN_HANDLER \notin DOMAIN parts /\ WILD \notin DOMAIN parts
         /\ Len(saved) \in Nat /\ DOMAIN saved = 1..Len(saved) /\ USER_ESP \in Nat
BY StackAssumption DEF StackInv, Compiled, RETURN_HANDLER, WILD

(* Where an instruction is executed, the stack pointer is that of main or  *)
(* of a handler after its prologue, but for the prologue itself.           *)
LEMMA InsideEsp ==
  ASSUME NEW parts, StackInv(parts), cpu.ip \in DOMAIN parts
  PROVE  \/ Inside(parts, cpu.ip, Len(saved)) /\ cpu.esp = Depth(Len(saved))
         \/ /\ Len(saved) > 0 /\ parts[cpu.ip] = "entry" /\ cpu.esp = Depth(Len(saved)) + 1
            /\ ~Inside(parts, cpu.ip, Len(saved))
BY Outside DEF StackInv, Where, Inside

(* The next instruction belongs to the same part.                          *)
LEMMA NextInside ==
  ASSUME NEW parts, StackInv(parts), cpu.ip \in DOMAIN code,
         code[cpu.ip].op \notin {"enter", "halt", "return"}
  PROVE  /\ Inside(parts, cpu.ip, Len(saved)) /\ Inside(parts, cpu.ip + 1, Len(saved))
         /\ Next_ip.ip = cpu.ip + 1 /\ Next_ip.esp = cpu.esp /\ Next_ip \in Contexts
<1>1. cpu.ip \in DOMAIN parts /\ cpu.ip + 1 \in DOMAIN parts
  BY Outside
<1>2. parts[cpu.ip] # "entry"
  BY DEF StackInv, Compiled
<1>3. Inside(parts, cpu.ip, Len(saved))
  BY <1>1, <1>2, InsideEsp
<1>4. parts[cpu.ip + 1] = IF parts[cpu.ip] = "main" THEN "main" ELSE "body"
  BY DEF StackInv, Compiled
<1>5. Inside(parts, cpu.ip + 1, Len(saved))
  BY <1>1, <1>3, <1>4 DEF Inside
<1>6. cpu \in Contexts
  BY DEF StackInv
<1> QED
  BY <1>3, <1>5, <1>6 DEF Next_ip, Contexts

(* Steps that leave the stack and the handlers alone, and the program      *)
(* where it is or in the same part                                         *)
LEMMA Stays ==
  ASSUME NEW parts, StackInv(parts),
         UNCHANGED <<code, mem, saved>>, badbuf' \in {0, 1}, pending' \subseteq SignalNumbers,
         DOMAIN handler' = SignalNumbers /\ Installed(parts)',
         cpu' \in Contexts, cpu'.esp = cpu.esp,
         cpu'.ip = cpu.ip \/ (Inside(parts, cpu.ip, Len(saved)) /\ Inside(parts, cpu'.ip, Len(saved))),
         frames' # <<>> => Trapped /\ cpu'.ip = cpu.ip
  PROVE  StackInv(parts)'
<1>1. \A k : Framed(k)' <=> Framed(k)
  BY DEF Framed, Depth
<1>2. Where(parts)'
  <2>1. CASE cpu'.ip = cpu.ip
    BY <2>1 DEF StackInv, Where, Inside, Depth
  <2>2. CASE Inside(parts, cpu.ip, Len(saved)) /\ Inside(parts, cpu'.ip, Len(saved))
    <3>1. cpu.esp = Depth(Len(saved))
      BY <2>2, InsideEsp DEF Inside
    <3> QED
      BY <2>2, <3>1 DEF Where, Inside, Depth
  <2> QED
    BY <2>1, <2>2
<1>3. frames' # <<>> => Trapped'
  BY DEF Trapped
<1> QED
  BY <1>1, <1>2, <1>3 DEF StackInv, Inside, Depth

LEMMA InstalledStays ==
  ASSUME NEW parts, StackInv(parts), UNCHANGED <<code, handler>>
  PROVE  DOMAIN handler' = SignalNumbers /\ Installed(parts)'
BY DEF StackInv, Installed

(* Instructions that do not touch the stack, and calls                     *)
LEMMA PlainSteps ==
  ASSUME NEW parts, StackInv(parts),
         Load \/ Store \/ Divide \/ Getargs \/ set_handler \/ Halt \/ Call
  PROVE  StackInv(parts)'
<1>1. cpu.ip \in DOMAIN code /\ frames = <<>> /\ cpu \in Contexts /\ badbuf \in {0, 1}
      /\ pending \subseteq SignalNumbers
  BY DEF Load, Store, Divide, Getargs, set_handler, Halt, Call, Does, InUser, StackInv
<1>2. CASE Load
  <2>1. code[cpu.ip].op = "load" /\ cpu' = [Next_ip EXCEPT !.eax = badbuf]
        /\ UNCHANGED <<code, mem, saved, handler, badbuf, pending, frames>>
    BY <1>2 DEF Load, Does, Quiet
  <2>2. /\ Inside(parts, cpu.ip, Len(saved)) /\ Inside(parts, cpu.ip + 1, Len(saved))
        /\ Next_ip.ip = cpu.ip + 1 /\ Next_ip.esp = cpu.esp /\ Next_ip \in Contexts
    BY <1>1, <2>1, NextInside
  <2>3. cpu' \in Contexts /\ cpu'.ip = cpu.ip + 1 /\ cpu'.esp = cpu.esp
    BY <1>1, <2>1, <2>2 DEF Contexts
  <2> QED
    BY <1>1, <2>1, <2>2, <2>3, Stays, InstalledStays
<1>3. CASE /\ Store \/ Divide
           /\ cpu' = Next_ip /\ UNCHANGED <<code, mem, saved, handler, badbuf, pending, frames>>
  <2>1. code[cpu.ip].op \in {"store", "divide"}
    BY <1>3 DEF Store, Divide, Does
  <2> QED
    BY <1>1, <1>3, <2>1, NextInside, Stays, InstalledStays
<1>4. CASE (Store \/ Divide \/ Call) /\ UNCHANGED <<code, badbuf, cpu, mem, pending, handler, saved>>
  <2>1. code[cpu.ip].op \in {"store", "divide", "read", "write"}
    BY <1>4 DEF Store, Divide, Call, Does
  <2> QED
    BY <1>1, <1>4, <2>1, NextInside, Stays, InstalledStays DEF Trapped
<1>5. CASE Getargs
  <2>1. code[cpu.ip].op = "getargs" /\ frames' = <<>>
        /\ UNCHANGED <<code, mem, saved, handler, badbuf, pending>>
        /\ (cpu' = cpu \/ \E n \in {cpu.ip + 1, code[cpu.ip].h} : cpu' = [cpu EXCEPT !.ip = n])
    BY <1>1, <1>5 DEF Getargs, Does, Fetched, program
  <2>2. Inside(parts, cpu.ip, Len(saved)) /\ Inside(parts, cpu.ip + 1, Len(saved))
    BY <1>1, <2>1, NextInside
  <2>3. Inside(parts, code[cpu.ip].h, Len(saved)) /\ code[cpu.ip].h \in Int /\ cpu.ip + 1 \in Int
    <3>1. code[cpu.ip].h \in DOMAIN code /\ parts[code[cpu.ip].h] = parts[cpu.ip]
      BY <1>1, <2>1 DEF StackInv, Compiled
    <3> QED
      BY <1>1, <2>2, <3>1, Outside DEF Inside
  <2>4. cpu' = cpu \/ (cpu' \in Contexts /\ cpu'.esp = cpu.esp /\ Inside(parts, cpu'.ip, Len(saved)))
    BY <1>1, <2>1, <2>2, <2>3 DEF Contexts
  <2> QED
    BY <1>1, <2>1, <2>2, <2>4, Stays, InstalledStays
<1>6. CASE set_handler
  <2>1. code[cpu.ip].op = "set_handler" /\ frames' = <<>> /\ cpu' = Next_ip
        /\ UNCHANGED <<code, mem, saved, badbuf, pending>>
    BY <1>1, <1>6 DEF set_handler, Does, program
  <2>2. DOMAIN handler' = SignalNumbers /\ Installed(parts)'
    <3> DEFINE s == code[cpu.ip].s
               h == code[cpu.ip].h
    <3>1. handler' = IF s \notin SignalNumbers THEN handler
                     ELSE [handler EXCEPT ![s] = IF h # 0 THEN h ELSE Default[s]]
      BY <1>6 DEF set_handler, Fetched
    <3>2. h = 0 \/ (h \in DOMAIN code /\ parts[h] = "entry")
      BY <1>1, <2>1 DEF StackInv, Compiled
    <3>3. \A x \in SignalNumbers : Default[x] \in OfKernel
      BY DEF Default, OfKernel, SignalNumbers, DIV_ZERO, SEGFAULT, INTERRUPT, ALARM, USER1, USER2
    <3>4. DOMAIN handler = SignalNumbers /\ Installed(parts)
      BY DEF StackInv
    <3> HIDE DEF s, h
    <3>5. \A x \in SignalNumbers : handler'[x] = handler[x] \/ (handler'[x] = h /\ h # 0) \/ handler'[x] = Default[x]
      <4>1. CASE s \notin SignalNumbers
        BY <3>1, <4>1
      <4>2. CASE s \in SignalNumbers /\ h # 0
        BY <3>1, <3>4, <4>2
      <4>3. CASE s \in SignalNumbers /\ h = 0
        BY <3>1, <3>4, <4>3
      <4> QED
        BY <4>1, <4>2, <4>3
    <3> QED
      BY <2>1, <3>1, <3>2, <3>3, <3>4, <3>5 DEF Installed
  <2> QED
    BY <1>1, <2>1, <2>2, NextInside, Stays
<1>7. CASE Halt
  BY <1>1, <1>7, Stays, InstalledStays DEF Halt, program
<1> QED
  BY <1>2, <1>3, <1>4, <1>5, <1>6, <1>7 DEF Store, Divide, Fault, Call, program, Quiet

(* A handler's frame is not touched by what is written below it.           *)
LEMMA FramesKept ==
  ASSUME NEW parts, StackInv(parts), NEW k \in DOMAIN saved,
         \A a \in DOMAIN mem : a > Depth(k) => mem'[a] = mem[a],
         DOMAIN mem' = DOMAIN mem, saved'[k] = saved[k]
  PROVE  Framed(k)'
<1> DEFINE b == Depth(k - 1)
<1>1. k \in Nat \ {0} /\ USER_ESP \in Nat /\ DOMAIN mem = 1..USER_ESP
  BY Outside DEF StackInv
<1>2. b - 4 \in 1..USER_ESP /\ b \in Int /\ Depth(k) = b - 5 /\ b <= USER_ESP
  BY SMTT(30), <1>1 DEF StackInv, Framed, Depth
<1>3. b - 1 \in DOMAIN mem /\ b - 2 \in DOMAIN mem /\ b - 4 \in DOMAIN mem
  BY <1>1, <1>2
<1>4. mem'[b - 1] = mem[b - 1] /\ mem'[b - 2] = mem[b - 2] /\ mem'[b - 4] = mem[b - 4]
  BY <1>2, <1>3
<1>5. Framed(k)
  BY DEF StackInv
<1> QED
  BY <1>3, <1>4, <1>5 DEF Framed, Depth

LEMMA EnterKeeps ==
  ASSUME NEW parts, StackInv(parts), Enter
  PROVE  StackInv(parts)'
<1> DEFINE n == Len(saved)
<1>1. /\ cpu.ip \in DOMAIN code /\ code[cpu.ip].op = "enter" /\ frames' = <<>>
      /\ UNCHANGED <<code, handler, pending, saved, badbuf>>
      /\ cpu' = [Next_ip EXCEPT !.esp = @ - 1]
      /\ mem' = [mem EXCEPT ![cpu.esp - 1] = Cell("local", 0)]
  BY DEF Enter, Does, InUser, Quiet
<1>2. parts[cpu.ip] = "entry" /\ parts[cpu.ip + 1] = "body"
  BY <1>1 DEF StackInv, Compiled
<1>3. /\ n > 0 /\ cpu.esp = Depth(n) + 1 /\ n \in Nat /\ USER_ESP \in Nat
      /\ cpu.ip + 1 \in DOMAIN parts
  BY <1>1, <1>2, InsideEsp, Outside DEF Inside
<1>4. cpu' \in Contexts /\ cpu'.ip = cpu.ip + 1 /\ cpu'.esp = Depth(n)
  <2>1. cpu \in Contexts /\ Depth(n) \in Int
    BY <1>3 DEF StackInv, Depth
  <2>2. cpu' = [ip |-> cpu.ip + 1, eax |-> cpu.eax, esp |-> cpu.esp - 1]
    BY <1>1, <2>1 DEF Next_ip, Contexts
  <2>3. cpu.esp - 1 = Depth(n)
    BY <1>3, <2>1
  <2> QED
    BY <2>1, <2>2, <2>3 DEF Contexts
<1>5. Where(parts)'
  BY <1>1, <1>2, <1>3, <1>4 DEF Where, Inside, Depth
<1>6. ASSUME NEW k \in DOMAIN saved PROVE Framed(k)'
  <2>1. k \in 1..n /\ Depth(k) >= Depth(n) /\ Depth(k) \in Int /\ Depth(n) \in Int
    BY <1>3, Outside DEF Depth
  <2>2. cpu.esp - 1 = Depth(n)
    BY <1>3, <2>1
  <2>3. \A a \in DOMAIN mem : a > Depth(k) => mem'[a] = mem[a]
    BY <1>1, <2>1, <2>2
  <2> QED
    BY <1>1, <2>3, FramesKept
<1> QED
  BY <1>1, <1>4, <1>5, <1>6 DEF StackInv, Inside, Depth, Installed

LEMMA FixKeeps ==
  ASSUME NEW parts, StackInv(parts), Fix
  PROVE  StackInv(parts)'
<1> DEFINE n == Len(saved)
           c == cpu.esp + 3
           ctx == [saved[n] EXCEPT !.eax = 1]
<1>1. /\ cpu.ip \in DOMAIN code /\ code[cpu.ip].op = "fix" /\ frames' = <<>>
      /\ UNCHANGED <<code, handler, pending>> /\ badbuf' = 1
      /\ cpu' = Next_ip
      /\ mem' = IF mem[c].kind = "context" THEN [mem EXCEPT ![c].val.eax = 1] ELSE mem
      /\ saved' = [saved EXCEPT ![n].eax = 1]
  BY DEF Fix, Does, InUser, Quiet
<1>2. /\ Inside(parts, cpu.ip, n) /\ Inside(parts, cpu.ip + 1, n)
      /\ cpu'.ip = cpu.ip + 1 /\ cpu'.esp = cpu.esp /\ cpu' \in Contexts
  BY <1>1, NextInside
<1>3. parts[cpu.ip] = "body"
  BY <1>1 DEF StackInv, Compiled
<1>4. n \in Nat \ {0} /\ USER_ESP \in Nat /\ DOMAIN saved = 1..n
  BY <1>2, <1>3, Outside DEF Inside
<1>5. cpu.esp = Depth(n) /\ Depth(n) \in Int
  BY <1>2, <1>4, InsideEsp DEF Inside, Depth
<1>6. /\ saved[n] \in Contexts /\ Framed(n) /\ n \in DOMAIN saved
      /\ \A k \in DOMAIN saved : Inside(parts, saved[k].ip, k - 1) /\ saved[k].esp = Depth(k - 1) /\ Framed(k)
      /\ saved \in Seq(Contexts) /\ DOMAIN mem = 1..USER_ESP
  BY <1>4 DEF StackInv
<1>7. ctx \in Contexts /\ ctx.ip = saved[n].ip /\ ctx.esp = saved[n].esp
  BY <1>6 DEF Contexts
<1>8. /\ saved' \in Seq(Contexts) /\ Len(saved') = n /\ DOMAIN saved' = DOMAIN saved
      /\ saved'[n] = ctx /\ \A k \in DOMAIN saved \ {n} : saved'[k] = saved[k]
  BY <1>1, <1>4, <1>6, <1>7
<1>9. c = Depth(n - 1) - 2 /\ mem[c] = Cell("context", saved[n]) /\ c \in DOMAIN mem
  <2>1. c = Depth(n - 1) - 2 /\ Depth(n - 1) \in Int /\ Depth(n - 1) <= USER_ESP
    BY <1>4, <1>5 DEF Depth
  <2> QED
    BY <1>4, <1>6, <2>1 DEF Framed
<1>10. /\ mem'[c] = Cell("context", ctx) /\ DOMAIN mem' = DOMAIN mem
       /\ \A a \in DOMAIN mem \ {c} : mem'[a] = mem[a]
  <2>1. mem' = [mem EXCEPT ![c].val.eax = 1]
    BY <1>1, <1>9 DEF Cell
  <2>2. mem'[c] = [mem[c] EXCEPT !.val.eax = 1]
    BY <1>9, <2>1
  <2>3. mem'[c] = [kind |-> "context", val |-> ctx]
    BY <1>9, <2>2 DEF Cell
  <2> QED
    BY <1>9, <2>1, <2>3 DEF Cell
<1>11. ASSUME NEW k \in DOMAIN saved PROVE Framed(k)'
  <2> DEFINE b == Depth(k - 1)
  <2>1. b \in Int /\ b - 4 \in DOMAIN mem /\ b <= USER_ESP /\ k \in 1..n
    BY SMTT(30), <1>4, <1>6 DEF Framed, Depth
  <2>2. b - 1 # c /\ b - 4 # c /\ (b - 2 = c <=> k = n)
    <3>1. b = USER_ESP - 5 * k + 5 /\ c = USER_ESP - 5 * n + 3 /\ k \in Int
      BY <1>4, <1>9, <2>1 DEF Depth
    <3>2. n \in Int /\ USER_ESP \in Int
      BY <1>4
    <3> HIDE DEF b, c, n
    <3>3. b - 1 # c
      BY <3>1, <3>2
    <3>4. b - 4 # c
      BY <3>1, <3>2
    <3>5. b - 2 = c <=> k = n
      BY <3>1, <3>2
    <3> QED
      BY <3>3, <3>4, <3>5
  <2>3. b - 1 \in DOMAIN mem /\ b - 2 \in DOMAIN mem
    BY <1>4, <1>6, <2>1
  <2>4. mem[b - 1] = Cell("code", 0) /\ mem[b - 2] = Cell("context", saved[k]) /\ mem[b - 4] = Cell("ret", b - 1)
    BY <1>6 DEF Framed
  <2>5. mem'[b - 1] = Cell("code", 0) /\ mem'[b - 4] = Cell("ret", b - 1)
    BY <1>10, <2>1, <2>2, <2>3, <2>4
  <2>6. mem'[b - 2] = Cell("context", saved'[k])
    BY <1>8, <1>10, <2>2, <2>3, <2>4
  <2> QED
    BY <1>10, <2>1, <2>5, <2>6 DEF Framed, Depth
<1>12. Where(parts)'
  BY <1>1, <1>2, <1>5, <1>8 DEF Where, Inside, Depth
<1>13. \A k \in DOMAIN saved' : Inside(parts, saved'[k].ip, k - 1) /\ saved'[k].esp = Depth(k - 1)
  BY <1>6, <1>7, <1>8
<1> QED
  BY <1>1, <1>2, <1>6, <1>8, <1>10, <1>11, <1>12, <1>13 DEF StackInv, Inside, Depth, Installed

(* A handler returns to the code its frame holds for it.                   *)
LEMMA ReturnKeeps ==
  ASSUME NEW parts, StackInv(parts), Return
  PROVE  StackInv(parts)'
<1> DEFINE n == Len(saved)
           b == Depth(n - 1)
           r == mem[cpu.esp + 1]
<1>1. /\ cpu.ip \in DOMAIN code /\ code[cpu.ip].op = "return" /\ frames' = <<>>
      /\ UNCHANGED <<code, handler, pending, mem, saved, badbuf>>
      /\ cpu' = [cpu EXCEPT !.esp = @ + 2,
                   !.ip = IF r.kind = "ret" /\ mem[r.val].kind = "code"
                          THEN RETURN_HANDLER ELSE WILD]
  BY DEF Return, Does, InUser, Quiet
<1>2. parts[cpu.ip] = "body" /\ cpu.ip \in DOMAIN parts /\ cpu \in Contexts
  BY <1>1, Outside DEF StackInv, Compiled
<1>3. Inside(parts, cpu.ip, n) /\ cpu.esp = Depth(n)
  BY <1>2, InsideEsp
<1>4. n \in Nat \ {0} /\ USER_ESP \in Nat /\ n \in DOMAIN saved
  BY <1>2, <1>3, Outside DEF Inside
<1>5. Framed(n)
  BY <1>4 DEF StackInv
<1>6. b - 4 = cpu.esp + 1
  BY <1>3, <1>4 DEF Depth
<1>7. r = Cell("ret", b - 1) /\ mem[b - 1] = Cell("code", 0)
  BY <1>5, <1>6 DEF Framed
<1>8. r.kind = "ret" /\ mem[r.val].kind = "code"
  BY <1>7 DEF Cell
<1>9. cpu' \in Contexts /\ cpu'.ip = RETURN_HANDLER /\ cpu'.esp = Depth(n) + 2
  <2>1. cpu' = [cpu EXCEPT !.esp = @ + 2, !.ip = RETURN_HANDLER]
    BY <1>1, <1>8
  <2>2. cpu' = [ip |-> RETURN_HANDLER, eax |-> cpu.eax, esp |-> cpu.esp + 2]
    BY <1>2, <2>1 DEF Contexts
  <2> QED
    BY <1>2, <1>3, <2>2 DEF Contexts, RETURN_HANDLER
<1>10. Where(parts)'
  BY <1>1, <1>4, <1>9 DEF Where, Depth
<1>11. \A k : Framed(k)' <=> Framed(k)
  BY <1>1 DEF Framed, Depth
<1> QED
  BY <1>1, <1>9, <1>10, <1>11 DEF StackInv, Inside, Depth, Installed

(* sigreturn finds the context of the last handler's frame.                *)
LEMMA SigreturnFinds ==
  ASSUME NEW parts, StackInv(parts), sigreturn
  PROVE  /\ Len(saved) \in Nat \ {0} /\ Len(saved) \in DOMAIN saved
         /\ cpu' = saved[Len(saved)]
         /\ saved' = SubSeq(saved, 1, Len(saved) - 1)
<1> DEFINE n == Len(saved)
           a == cpu.esp + 1
           b == Depth(n - 1)
<1>1. cpu.ip = RETURN_HANDLER
  BY DEF sigreturn
<1>2. n \in Nat \ {0} /\ USER_ESP \in Nat /\ n \in DOMAIN saved /\ cpu.esp = Depth(n) + 2
  BY <1>1, Outside DEF StackInv, Where, Inside
<1>3. a = b - 2 /\ b \in Int /\ b <= USER_ESP
  BY <1>2 DEF Depth
<1>4. mem[a] = Cell("context", saved[n]) /\ b - 4 \in DOMAIN mem
  BY <1>2, <1>3 DEF StackInv, Framed
<1>5. a \in DOMAIN mem
  BY <1>2, <1>3, <1>4 DEF StackInv
<1>6. cpu' = saved[n]
  BY <1>4, <1>5 DEF sigreturn, Cell, Restored
<1>7. saved # <<>>
  BY <1>2
<1> QED
  BY <1>2, <1>6, <1>7 DEF sigreturn

LEMMA SigreturnKeeps ==
  ASSUME NEW parts, StackInv(parts), sigreturn
  PROVE  StackInv(parts)'
<1> DEFINE n == Len(saved)
<1>1. /\ frames' = <<>> /\ UNCHANGED <<code, handler, pending, mem, badbuf>>
  BY DEF sigreturn, InUser, Quiet
<1>2. n \in Nat \ {0} /\ n \in DOMAIN saved /\ cpu' = saved[n]
      /\ saved' = SubSeq(saved, 1, n - 1) /\ saved \in Seq(Contexts)
  BY SigreturnFinds DEF StackInv
<1>3. /\ saved' \in Seq(Contexts) /\ Len(saved') = n - 1
      /\ DOMAIN saved' = 1..(n - 1) /\ \A k \in 1..(n - 1) : saved'[k] = saved[k]
  <2> HIDE DEF n
  <2>1. n = Len(saved) /\ 1 \in Int /\ n - 1 \in Nat
    BY <1>2 DEF n
  <2>2. saved' \in Seq(Contexts)
    BY <1>2, <2>1
  <2>3. Len(saved') = n - 1
    BY <1>2, <2>1
  <2>4. \A k \in 1..(n - 1) : saved'[k] = saved[k]
    BY <1>2, <2>1
  <2> QED
    BY <2>2, <2>3, <2>4
<1>4. cpu' \in Contexts /\ Inside(parts, cpu'.ip, n - 1) /\ cpu'.esp = Depth(n - 1)
  BY <1>2 DEF StackInv
<1>5. Where(parts)'
  BY <1>3, <1>4 DEF Where, Inside, Depth
<1>6. ASSUME NEW k \in DOMAIN saved'
      PROVE  Inside(parts, saved'[k].ip, k - 1) /\ saved'[k].esp = Depth(k - 1) /\ Framed(k)'
  <2>1. k \in DOMAIN saved /\ saved'[k] = saved[k]
    BY <1>2, <1>3
  <2> QED
    BY <1>1, <2>1 DEF StackInv, Framed, Depth
<1> QED
  BY <1>1, <1>3, <1>4, <1>5, <1>6 DEF StackInv, Inside, Depth, Installed

-----------------------------------------------------------------------------
LEMMA LowestPosted ==
  ASSUME pending \subseteq SignalNumbers, pending # {}
  PROVE  Lowest \in pending
<1>1. \E x \in pending : \A y \in pending : x <= y
  <2>1. \A y \in pending : y \in {0, 1, 2, 3, 4, 5}
    BY DEF SignalNumbers
  <2>2. CASE 0 \in pending
    BY <2>1, <2>2
  <2>3. CASE 0 \notin pending /\ 1 \in pending
    BY <2>1, <2>3
  <2>4. CASE 0 \notin pending /\ 1 \notin pending /\ 2 \in pending
    BY <2>1, <2>4
  <2>5. CASE pending \subseteq {3, 4, 5} /\ 3 \in pending
    BY <2>5
  <2>6. CASE pending \subseteq {4, 5} /\ 4 \in pending
    BY <2>6
  <2>7. CASE pending \subseteq {5}
    <3>1. 5 \in pending
      BY <2>7
    <3> QED
      BY <2>7, <3>1
  <2> QED
    BY <2>1, <2>2, <2>3, <2>4, <2>5, <2>6, <2>7
<1> QED
  BY <1>1 DEF Lowest, Min

(* A handler starts on a frame of its own below those of the others.       *)
LEMMA UserHandlerKeeps ==
  ASSUME NEW parts, StackInv(parts), UserHandler, StackRoom'
  PROVE  StackInv(parts)'
<1> DEFINE n == Len(saved)
           b == Depth(n)
<1>1. /\ frames # <<>> /\ Len(frames) = 1 /\ frames' = SubSeq(frames, 1, Len(frames) - 1)
      /\ UNCHANGED <<code, handler, badbuf>> /\ pending # {} /\ handler[Lowest] \notin OfKernel
      /\ pending' = pending \ {Lowest}
      /\ mem' = build_hwcontext(cpu.esp, Lowest, cpu)
      /\ cpu' = [cpu EXCEPT !.ip = handler[Lowest], !.esp = @ - 4]
      /\ saved' = Append(saved, cpu)
  BY DEF UserHandler, SignalHandler, InKernel, Below, Taken, FromUser, program
<1>2. frames' = <<>>
  BY <1>1
<1>3. Trapped
  BY <1>1 DEF StackInv
<1>4. Inside(parts, cpu.ip, n)
  BY <1>3, NextInside DEF Trapped
<1>5. cpu.esp = b /\ n \in Nat /\ USER_ESP \in Nat /\ b \in Int
  BY <1>4, InsideEsp, Outside DEF Inside, Depth
<1>6. handler[Lowest] \in DOMAIN code /\ parts[handler[Lowest]] = "entry"
      /\ handler[Lowest] \in DOMAIN parts /\ handler[Lowest] \in Int
  BY <1>1, LowestPosted, Outside DEF StackInv, Installed
<1>7. cpu' \in Contexts /\ cpu'.ip = handler[Lowest] /\ cpu'.esp = b - 4
  <2>1. cpu \in Contexts
    BY DEF StackInv
  <2>2. cpu' = [ip |-> handler[Lowest], eax |-> cpu.eax, esp |-> cpu.esp - 4]
    BY <1>1, <2>1 DEF Contexts
  <2> QED
    BY <1>5, <1>6, <2>1, <2>2 DEF Contexts
<1>8. b - 4 > 0 /\ b <= USER_ESP
  BY <1>5, <1>7 DEF StackRoom, Depth
<1>9. /\ saved \in Seq(Contexts) /\ cpu \in Contexts /\ saved' \in Seq(Contexts)
      /\ Len(saved') = n + 1 /\ DOMAIN saved' = 1..(n + 1) /\ DOMAIN saved = 1..n
      /\ saved'[n + 1] = cpu /\ \A k \in DOMAIN saved : saved'[k] = saved[k]
  BY <1>1, <1>5 DEF StackInv
<1>10. /\ DOMAIN mem = 1..USER_ESP /\ DOMAIN mem' = DOMAIN mem
       /\ mem'[b - 1] = Cell("code", 0) /\ mem'[b - 2] = Cell("context", cpu)
       /\ mem'[b - 4] = Cell("ret", b - 1)
       /\ \A a \in DOMAIN mem : a >= b => mem'[a] = mem[a]
  <2>1. DOMAIN mem = 1..USER_ESP
    BY DEF StackInv
  <2>2. mem' = [mem EXCEPT ![b - 1] = Cell("code", 0), ![b - 2] = Cell("context", cpu),
                           ![b - 3] = Cell("signum", Lowest), ![b - 4] = Cell("ret", b - 1)]
    BY <1>1, <1>5 DEF build_hwcontext
  <2> HIDE DEF b
  <2>3. b - 1 \in DOMAIN mem /\ b - 2 \in DOMAIN mem /\ b - 3 \in DOMAIN mem /\ b - 4 \in DOMAIN mem
    BY <1>5, <1>8, <2>1
  <2> QED
    BY SMTT(30), <1>5, <2>1, <2>2, <2>3
<1>11. ASSUME NEW k, k = n + 1
       PROVE  Inside(parts, saved'[k].ip, k - 1) /\ saved'[k].esp = Depth(k - 1) /\ Framed(k)'
  <2>1. k - 1 = n /\ Depth(k - 1) = b
    BY <1>5, <1>11
  <2>2. saved'[k] = cpu
    BY <1>9, <1>11
  <2>3. b - 4 \in DOMAIN mem'
    BY <1>5, <1>8, <1>10
  <2>4. Framed(k)'
    BY <1>10, <2>1, <2>2, <2>3 DEF Framed, Depth
  <2> QED
    BY <1>4, <1>5, <2>1, <2>2, <2>4
<1>12. ASSUME NEW k \in DOMAIN saved
       PROVE  Inside(parts, saved'[k].ip, k - 1) /\ saved'[k].esp = Depth(k - 1) /\ Framed(k)'
  <2>1. Depth(k) >= b /\ Depth(k) \in Int
    BY <1>5, <1>9 DEF Depth
  <2>2. \A a \in DOMAIN mem : a > Depth(k) => mem'[a] = mem[a]
    BY <1>5, <1>10, <2>1
  <2>3. Framed(k)'
    BY <1>9, <1>10, <2>2, FramesKept
  <2> QED
    BY <1>9, <2>3 DEF StackInv
<1>13. \A k \in DOMAIN saved' :
          Inside(parts, saved'[k].ip, k - 1) /\ saved'[k].esp = Depth(k - 1) /\ Framed(k)'
  BY <1>5, <1>9, <1>11, <1>12
<1>14. Where(parts)'
  <2>1. cpu'.esp = Depth(n + 1) + 1
    BY <1>5, <1>7 DEF Depth
  <2> QED
    BY <1>5, <1>6, <1>7, <1>9, <2>1 DEF Where, Depth
<1> QED
  BY <1>1, <1>2, <1>7, <1>9, <1>10, <1>13, <1>14 DEF StackInv, Inside, Depth, Installed

(* What the kernel does otherwise leaves the program where it was, or past *)
(* its call.                                                               *)
LEMMA KernelKeeps ==
  ASSUME NEW parts, StackInv(parts), frames # <<>>,
         UNCHANGED <<code, cpu, mem, saved, handler, badbuf>>, pending' \subseteq SignalNumbers
  PROVE  StackInv(parts)'
<1>1. Trapped /\ badbuf \in {0, 1} /\ cpu \in Contexts
  BY DEF StackInv
<1> QED
  BY <1>1, Stays, InstalledStays

LEMMA CallReturnsKeeps ==
  ASSUME NEW parts, StackInv(parts), CallReturns
  PROVE  StackInv(parts)'
<1>1. Trapped /\ badbuf \in {0, 1} /\ pending \subseteq SignalNumbers
  BY DEF StackInv, CallReturns, InKernel
<1>2. UNCHANGED <<code, mem, saved, handler, badbuf, pending>> /\ frames' = <<>> /\ cpu' = Next_ip
  BY DEF CallReturns, program
<1>3. /\ Inside(parts, cpu.ip, Len(saved)) /\ Inside(parts, cpu.ip + 1, Len(saved))
      /\ Next_ip.ip = cpu.ip + 1 /\ Next_ip.esp = cpu.esp /\ Next_ip \in Contexts
  BY <1>1, NextInside DEF Trapped
<1> QED
  BY <1>1, <1>2, <1>3, Stays, InstalledStays

LEMMA KernelSteps ==
  ASSUME pending \subseteq SignalNumbers,
         Kernel \/ Elsewhere \/ \E k \in {"keyboard", "mouse", "pit", "rtc"} : Interrupt(k)
  PROVE  \/ UserHandler
         \/ /\ frames # <<>> /\ UNCHANGED <<code, cpu, mem, saved, handler, badbuf>>
            /\ pending' \subseteq SignalNumbers
<1> USE DEF InKernel, InBody, KeepUser, program
<1> DEFINE Keeps == frames # <<>> /\ UNCHANGED <<code, cpu, mem, saved, handler, badbuf>>
<1>1. ASSUME NEW s \in SignalNumbers, make_signal(s) PROVE pending' \subseteq SignalNumbers
  <2>1. pending' = pending \/ pending' = pending \cup {s}
    BY <1>1 DEF make_signal
  <2> QED
    BY <2>1
<1>2. CASE handler_DE \/ handler_PF
  <2>1. Keeps /\ (make_signal(DIV_ZERO) \/ make_signal(SEGFAULT))
    BY <1>2 DEF handler_DE, handler_PF
  <2>2. DIV_ZERO \in SignalNumbers /\ SEGFAULT \in SignalNumbers
    BY DEF SignalNumbers, DIV_ZERO, SEGFAULT
  <2> QED
    BY <1>1, <2>1, <2>2, Zenon
<1>3. CASE handler_keyboard \/ mouse_handler
  <2>1. Keeps
    BY <1>3 DEF handler_keyboard, mouse_handler
  <2>2. pending' = pending \/ \E s \in {INTERRUPT, USER1, USER2} : make_signal(s)
    BY <1>3 DEF handler_keyboard, mouse_handler
  <2>3. {INTERRUPT, USER1, USER2} \subseteq SignalNumbers
    BY DEF SignalNumbers, INTERRUPT, USER1, USER2
  <2> QED
    BY <1>1, <2>1, <2>2, <2>3, Zenon
<1>4. CASE handler_rtc \/ pit_handler \/ Switch \/ Back
  <2>1. Keeps /\ (pending' = pending \/ make_signal(ALARM))
    BY <1>4 DEF handler_rtc, pit_handler, Switch, Back
  <2>2. ALARM \in SignalNumbers
    BY DEF SignalNumbers, ALARM
  <2> QED
    BY <1>1, <2>1, <2>2, Zenon
<1>5. CASE NoSignal \/ KernelHandler \/ Dropped
  <2>1. Keeps
    BY <1>5 DEF NoSignal, KernelHandler, Dropped, SignalHandler
  <2>2. pending' = pending \/ pending' = pending \ {Lowest}
    BY <1>5 DEF NoSignal, KernelHandler, Dropped, Taken
  <2> QED
    BY <2>1, <2>2
<1>6. CASE Elsewhere
  <2>1. Keeps
    BY <1>6 DEF Elsewhere
  <2>2. pending' = pending \/ \E s \in ToVisible : make_signal(s)
    BY <1>6 DEF Elsewhere
  <2>3. ToVisible \subseteq SignalNumbers
    BY DEF ToVisible, SignalNumbers, INTERRUPT, USER1, USER2
  <2> QED
    BY <1>1, <2>1, <2>2, <2>3, Zenon
<1>7. CASE \E k \in {"keyboard", "mouse", "pit", "rtc"} : Interrupt(k)
  BY <1>7 DEF Interrupt
<1> QED
  BY <1>2, <1>3, <1>4, <1>5, <1>6, <1>7 DEF Kernel

LEMMA HandlersStep ==
  ASSUME NEW parts, StackInv(parts), UserHandler => StackRoom', [Next]_vars
  PROVE  StackInv(parts)'
<1>0. pending \subseteq SignalNumbers
  BY DEF StackInv
<1>1. CASE User
  BY <1>1, PlainSteps, EnterKeeps, FixKeeps, ReturnKeeps, SigreturnKeeps DEF User
<1>2. CASE Kernel \/ Elsewhere \/ \E k \in {"keyboard", "mouse", "pit", "rtc"} : Interrupt(k)
  BY <1>0, <1>2, KernelSteps, KernelKeeps, UserHandlerKeeps
<1>3. CASE CallReturns
  BY <1>3, CallReturnsKeeps
<1>4. CASE UNCHANGED vars
  BY <1>4 DEF vars, StackInv, Compiled, Where, Inside, Depth, Framed, Installed, Trapped
<1> QED
  BY <1>1, <1>2, <1>3, <1>4 DEF Next, Ended

LEMMA HandlersInvStep == HandlersInv /\ StackRoom' /\ [Next]_vars => HandlersInv'
<1> SUFFICES ASSUME HandlersInv, StackRoom', [Next]_vars PROVE HandlersInv'
  OBVIOUS
<1>1. PICK parts : StackInv(parts)
  BY DEF HandlersInv
<1>2. StackInv(parts)'
  BY <1>1, HandlersStep
<1> QED
  BY <1>2 DEF HandlersInv

-----------------------------------------------------------------------------
(* No handler returns to an address that is not code, however handlers     *)
(* nest on the user stack (build_hwcontext, link_handler_sig_return).      *)
THEOREM HandlersReturnHome ==
  ASSUME WellFormed
  PROVE  Spec /\ []StackRoom => []HandlersReturn
<1>1. Init => HandlersInv
  BY InitHandlers
<1>2. HandlersInv /\ StackRoom' /\ [Next]_vars => HandlersInv'
  BY HandlersInvStep
<1>3. HandlersInv => HandlersReturn
  <2> SUFFICES ASSUME HandlersInv PROVE HandlersReturn
    OBVIOUS
  <2>1. PICK parts : StackInv(parts)
    BY DEF HandlersInv
  <2>2. cpu.ip \in DOMAIN parts \/ cpu.ip = RETURN_HANDLER
    BY <2>1 DEF StackInv, Where, Inside
  <2> QED
    BY <2>1, <2>2, Outside DEF HandlersReturn, RETURN_HANDLER, WILD
<1> QED
  BY <1>1, <1>2, <1>3, PTL DEF Spec

LEMMA OnlySigreturnShortens ==
  ASSUME NEW parts, StackInv(parts), [Next]_vars, Len(saved') < Len(saved)
  PROVE  sigreturn
<1>1. saved \in Seq(Contexts) /\ cpu \in Contexts /\ Len(saved) \in Nat
      /\ pending \subseteq SignalNumbers
  BY DEF StackInv
<1>2. saved' # saved
  BY <1>1
<1>3. ~Fix
  <2> SUFFICES ASSUME Fix PROVE FALSE
    OBVIOUS
  <2>1. saved' = [saved EXCEPT ![Len(saved)].eax = 1]
    BY DEF Fix
  <2>2. Len(saved') = Len(saved)
    BY <1>1, <2>1
  <2> QED
    BY <1>1, <2>2
<1>4. ~UserHandler
  <2> SUFFICES ASSUME UserHandler PROVE FALSE
    OBVIOUS
  <2>1. saved' = Append(saved, cpu)
    BY DEF UserHandler
  <2> QED
    BY <1>1, <2>1
<1>5. ~(Kernel \/ Elsewhere \/ \E k \in {"keyboard", "mouse", "pit", "rtc"} : Interrupt(k))
  BY <1>1, <1>2, <1>4, KernelSteps
<1>6. ~(UNCHANGED vars) /\ ~CallReturns /\ ~Ended
  BY <1>2 DEF vars, CallReturns, Ended
<1>7. User
  BY <1>5, <1>6 DEF Next
<1> QED
  BY <1>2, <1>3, <1>7 DEF User, Load, Store, Divide, Enter, Return, Getargs, set_handler, Halt, Call,
       Fault

(* When a handler returns, the program goes on as it was when the signal   *)
(* interrupted it, with the changes the handler made to that context: the  *)
(* last one interrupted is the first resumed (signal.c:227, sigreturn).    *)
THEOREM LastInterruptedFirst ==
  ASSUME WellFormed
  PROVE  Spec /\ []StackRoom => Resumes
<1>1. Init => HandlersInv
  BY InitHandlers
<1>2. HandlersInv /\ StackRoom' /\ [Next]_vars => HandlersInv'
  BY HandlersInvStep
<1>3. HandlersInv /\ [Next]_vars => [Len(saved') < Len(saved) => cpu' = saved[Len(saved)]]_vars
  <2> SUFFICES ASSUME HandlersInv, [Next]_vars, Len(saved') < Len(saved)
               PROVE  cpu' = saved[Len(saved)]
    BY DEF vars
  <2>1. PICK parts : StackInv(parts)
    BY DEF HandlersInv
  <2> QED
    BY <2>1, OnlySigreturnShortens, SigreturnFinds
<1> QED
  BY <1>1, <1>2, <1>3, PTL DEF Spec, Resumes

-----------------------------------------------------------------------------
(* sigtest is such a program.                                              *)
SigtestParts ==
  [i \in 1..19 |-> IF i < 10 THEN "main" ELSE IF i \in {10, 16} THEN "entry" ELSE "body"]

LEMMA SigtestCode ==
  /\ Sigtest \in Seq(Instructions) /\ Len(Sigtest) = 18
  /\ Sigtest[1] = [op |-> "getargs", s |-> 0, h |-> 4]
  /\ Sigtest[2] = Install(SEGFAULT, 10) /\ Sigtest[3] = Install(ALARM, 16)
  /\ Sigtest[4] = Op("write") /\ Sigtest[5] = Op("read") /\ Sigtest[6] = Op("load")
  /\ Sigtest[7] = Op("store") /\ Sigtest[8] = Op("write") /\ Sigtest[9] = Op("halt")
  /\ Sigtest[10] = Op("enter") /\ Sigtest[11] = Op("write") /\ Sigtest[12] = Op("read")
  /\ Sigtest[13] = Op("fix") /\ Sigtest[14] = Op("write") /\ Sigtest[15] = Op("return")
  /\ Sigtest[16] = Op("enter") /\ Sigtest[17] = Op("write") /\ Sigtest[18] = Op("return")
<1> DEFINE I == Instructions
<1>0. /\ \A x \in {"load", "store", "enter", "fix", "return", "halt", "read", "write"} : Op(x) \in I
      /\ Install(SEGFAULT, 10) \in I /\ Install(ALARM, 16) \in I
      /\ [op |-> "getargs", s |-> 0, h |-> 4] \in I
  BY DEF Instructions, Op, Install, SEGFAULT, ALARM
<1> HIDE DEF I
<1>1. main \in Seq(I) /\ Len(main) = 9
  BY <1>0 DEF main
<1>2. segfault_sighandler \in Seq(I) /\ Len(segfault_sighandler) = 6
  BY <1>0 DEF segfault_sighandler
<1>3. alarm_sighandler \in Seq(I) /\ Len(alarm_sighandler) = 3
  BY <1>0 DEF alarm_sighandler
<1>4. /\ Sigtest \in Seq(I) /\ Len(Sigtest) = 18
      /\ \A i \in 1..9 : Sigtest[i] = main[i]
      /\ \A i \in 10..15 : Sigtest[i] = segfault_sighandler[i - 9]
      /\ \A i \in 16..18 : Sigtest[i] = alarm_sighandler[i - 15]
  <2> DEFINE ms == main \o segfault_sighandler
  <2>1. /\ ms \in Seq(I) /\ Len(ms) = Len(main) + Len(segfault_sighandler)
        /\ \A i \in 1..(Len(main) + Len(segfault_sighandler)) :
              ms[i] = IF i <= Len(main) THEN main[i] ELSE segfault_sighandler[i - Len(main)]
    BY <1>1, <1>2, ConcatProperties, Zenon
  <2> HIDE DEF ms
  <2>6. ms \in Seq(I)
    BY <2>1
  <2> DEFINE all == ms \o alarm_sighandler
  <2>2. /\ all \in Seq(I) /\ Len(all) = Len(ms) + Len(alarm_sighandler)
        /\ \A i \in 1..(Len(ms) + Len(alarm_sighandler)) :
              all[i] = IF i <= Len(ms) THEN ms[i] ELSE alarm_sighandler[i - Len(ms)]
    BY <1>3, <2>6, ConcatProperties, Zenon
  <2>3. Len(ms) = 15 /\ \A i \in 1..15 : ms[i] = IF i <= 9 THEN main[i] ELSE segfault_sighandler[i - 9]
    BY <1>1, <1>2, <2>1
  <2>4. Sigtest = all
    BY DEF Sigtest, ms
  <2> HIDE DEF all
  <2>5. Len(all) = 18 /\ \A i \in 1..18 : all[i] = IF i <= 15 THEN ms[i] ELSE alarm_sighandler[i - 15]
    BY <1>3, <2>2, <2>3
  <2>7. \A i \in 1..9 : all[i] = main[i]
    BY <2>3, <2>5
  <2>8. \A i \in 10..15 : all[i] = segfault_sighandler[i - 9]
    BY <2>3, <2>5
  <2>9. \A i \in 16..18 : all[i] = alarm_sighandler[i - 15]
    BY <2>5
  <2> QED
    BY <2>2, <2>4, <2>5, <2>7, <2>8, <2>9
<1>5. /\ Sigtest[1] = [op |-> "getargs", s |-> 0, h |-> 4]
      /\ Sigtest[2] = Install(SEGFAULT, 10) /\ Sigtest[3] = Install(ALARM, 16)
      /\ Sigtest[4] = Op("write") /\ Sigtest[5] = Op("read") /\ Sigtest[6] = Op("load")
      /\ Sigtest[7] = Op("store") /\ Sigtest[8] = Op("write") /\ Sigtest[9] = Op("halt")
  BY <1>4 DEF main
<1>6. /\ Sigtest[10] = Op("enter") /\ Sigtest[11] = Op("write") /\ Sigtest[12] = Op("read")
      /\ Sigtest[13] = Op("fix") /\ Sigtest[14] = Op("write") /\ Sigtest[15] = Op("return")
  BY <1>4 DEF segfault_sighandler
<1>7. Sigtest[16] = Op("enter") /\ Sigtest[17] = Op("write") /\ Sigtest[18] = Op("return")
  BY SMTT(30), <1>4 DEF alarm_sighandler
<1> QED
  BY <1>4, <1>5, <1>6, <1>7 DEF I

LEMMA SigtestCompiled == Compiled(Sigtest, SigtestParts)
<1>1. Sigtest \in Seq(Instructions) /\ Len(Sigtest) = 18 /\ DOMAIN Sigtest = 1..18
  BY SigtestCode
<1>2. /\ DOMAIN SigtestParts = 1..19 /\ SigtestParts \in [1..19 -> {"main", "entry", "body"}]
      /\ \A i \in 1..9 : SigtestParts[i] = "main"
      /\ \A i \in {10, 16} : SigtestParts[i] = "entry"
      /\ \A i \in {11, 12, 13, 14, 15, 17, 18, 19} : SigtestParts[i] = "body"
  BY DEF SigtestParts
<1>3. ASSUME NEW i \in 1..18
      PROVE  /\ Sigtest[i].op = "enter" <=> SigtestParts[i] = "entry"
             /\ Sigtest[i].op \in {"fix", "return"} => SigtestParts[i] = "body"
             /\ Sigtest[i].op \notin {"halt", "return"} =>
                  SigtestParts[i + 1] = IF SigtestParts[i] = "main" THEN "main" ELSE "body"
             /\ Sigtest[i].op = "getargs" =>
                  Sigtest[i].h \in 1..18 /\ SigtestParts[Sigtest[i].h] = SigtestParts[i]
             /\ Sigtest[i].op = "set_handler" =>
                  Sigtest[i].h \in 1..18 /\ SigtestParts[Sigtest[i].h] = "entry"
  <2>1. CASE i = 1
    BY <1>2, <2>1, SigtestCode
  <2>5. CASE i = 2
    <3>1. Sigtest[i] = [op |-> "set_handler", s |-> SEGFAULT, h |-> 10]
      BY <2>5, SigtestCode DEF Install
    <3> QED
      BY <1>2, <2>5, <3>1
  <2>6. CASE i = 3
    <3>1. Sigtest[i] = [op |-> "set_handler", s |-> ALARM, h |-> 16]
      BY <2>6, SigtestCode DEF Install
    <3> QED
      BY <1>2, <2>6, <3>1
  <2>2. CASE i \in {4, 5, 6, 7, 8, 9}
    BY SMTT(30), <1>2, <2>2, SigtestCode DEF Op
  <2>3. CASE i \in {10, 11, 12, 13, 14, 15}
    BY SMTT(30), <1>2, <2>3, SigtestCode DEF Op
  <2>4. CASE i \in {16, 17, 18}
    BY <1>2, <2>4, SigtestCode DEF Op
  <2> QED
    BY <2>1, <2>2, <2>3, <2>4, <2>5, <2>6
<1>4. 1..(Len(Sigtest) + 1) = 1..19 /\ SigtestParts[1] = "main"
  BY <1>1, <1>2
<1> QED
  BY <1>1, <1>2, <1>3, <1>4 DEF Compiled

LEMMA SigtestOps ==
  ASSUME code = Sigtest, cpu.ip \in DOMAIN code
  PROVE  LET o == code[cpu.ip].op IN
         /\ o # "divide"
         /\ o = "load" => cpu.ip = 6
         /\ o = "store" => cpu.ip = 7
         /\ o = "enter" => cpu.ip \in {10, 16}
         /\ o = "fix" => cpu.ip = 13
         /\ o = "halt" => cpu.ip = 9
         /\ o = "getargs" => cpu.ip = 1 /\ code[cpu.ip].h = 4
         /\ o = "set_handler" => \/ cpu.ip = 2 /\ code[cpu.ip] = Install(SEGFAULT, 10)
                                 \/ cpu.ip = 3 /\ code[cpu.ip] = Install(ALARM, 16)
         /\ o \in {"read", "write"} => cpu.ip \in {4, 5, 8, 11, 12, 14, 17}
<1>1. DOMAIN code = 1..18
  BY SigtestCode
<1>2. CASE cpu.ip = 1
  BY <1>2, SigtestCode
<1>3. CASE cpu.ip \in {2, 3}
  BY <1>3, SigtestCode DEF Install
<1>4. CASE cpu.ip \in {4, 5, 6, 7, 8, 9}
  BY <1>4, SigtestCode DEF Op
<1>5. CASE cpu.ip \in {10, 11, 12, 13, 14, 15}
  BY <1>5, SigtestCode DEF Op
<1>6. CASE cpu.ip \in {16, 17, 18}
  BY <1>6, SigtestCode DEF Op
<1> QED
  BY <1>1, <1>2, <1>3, <1>4, <1>5, <1>6

-----------------------------------------------------------------------------
(* How sigtest runs: its faults are the store's, and with the handler set  *)
(* for SEGFAULT nothing but INTERRUPT ends it.                             *)
SigtestFrames == [kind : {"PF", "call", "keyboard", "mouse", "pit", "rtc"},
                  stage : {"body", "return", "switch", "away"}, on : BOOLEAN]

SigtestRun ==
  /\ frames \in Seq(SigtestFrames)
  /\ \A i \in DOMAIN frames : /\ frames[i].kind = "PF" => cpu.ip = 7
                              /\ frames[i].kind = "call" => cpu.ip # 7
  /\ DIV_ZERO \notin pending
  /\ \A s \in SignalNumbers : handler[s] \in {Default[s], 10, 16}
  /\ handler # Default => handler[SEGFAULT] = 10
  /\ handler = Default => cpu.ip \in 1..7 /\ saved = <<>> /\ badbuf = 0 /\ cpu.eax = 0
  /\ cpu.ip = 3 => handler[SEGFAULT] = 10
  /\ cpu.ip \in {8, 9} => charbuf = 1
  /\ \A k \in DOMAIN saved : saved[k].ip = 7
  /\ status # "failure"
  /\ status = "success" => handler # Default
  /\ status = "killed" => handler = Default

SigtestInv == code = Sigtest => StackInv(SigtestParts) /\ SigtestRun

LEMMA SigtestInit ==
  ASSUME Init
  PROVE  SigtestInv
<1> SUFFICES ASSUME code = Sigtest PROVE StackInv(SigtestParts) /\ SigtestRun
  BY DEF SigtestInv
<1>1. StackInv(SigtestParts)
  BY InitStack, SigtestCompiled
<1>2. SigtestRun
  BY DEF SigtestRun, Init, DIV_ZERO, SEGFAULT
<1> QED
  BY <1>1, <1>2

(* The kernel works on its own stack.                                      *)
LEMMA SetTopKeeps ==
  ASSUME frames \in Seq(SigtestFrames), frames # <<>>,
         NEW stage \in {"body", "return", "switch", "away"}, NEW on \in BOOLEAN, SetTop(stage, on)
  PROVE  /\ frames' \in Seq(SigtestFrames) /\ frames # <<>>
         /\ \A i \in DOMAIN frames' : i \in DOMAIN frames /\ frames'[i].kind = frames[i].kind
<1> DEFINE n == Len(frames)
           f == Frame(frames[n].kind, stage, on)
<1>1. n \in Nat \ {0} /\ n \in DOMAIN frames /\ 1 \in DOMAIN frames /\ frames[n] \in SigtestFrames
  OBVIOUS
<1>2. f \in SigtestFrames /\ f.kind = frames[n].kind
  BY <1>1 DEF SigtestFrames, Frame
<1>3. frames' = [frames EXCEPT ![n] = f]
  BY DEF SetTop, Top
<1> HIDE DEF n, f
<1> QED
  BY <1>1, <1>2, <1>3

LEMMA SigtestKernel ==
  ASSUME code = Sigtest, StackInv(SigtestParts), SigtestRun,
         Kernel \/ Elsewhere \/ \E k \in {"keyboard", "mouse", "pit", "rtc"} : Interrupt(k)
  PROVE  \/ UserHandler \/ KernelHandler
         \/ /\ UNCHANGED <<code, cpu, saved, handler, badbuf, charbuf, status>>
            /\ frames' \in Seq(SigtestFrames) /\ frames # <<>>
            /\ \A i \in DOMAIN frames' : \/ frames'[i].kind \notin {"PF", "call"}
                                         \/ i \in DOMAIN frames /\ frames'[i].kind = frames[i].kind
            /\ DIV_ZERO \notin pending'
<1> DEFINE Keeps == UNCHANGED <<code, cpu, saved, handler, badbuf, charbuf, status>>
           Framing ==
             /\ frames' \in Seq(SigtestFrames) /\ frames # <<>>
             /\ \A i \in DOMAIN frames' : \/ frames'[i].kind \notin {"PF", "call"}
                                          \/ i \in DOMAIN frames /\ frames'[i].kind = frames[i].kind
           Stages == {"body", "return", "switch", "away"}
<1>1. frames \in Seq(SigtestFrames) /\ DIV_ZERO \notin pending
  BY DEF SigtestRun
<1>2. ASSUME NEW s \in 1..5, make_signal(s) PROVE DIV_ZERO \notin pending'
  <2>1. pending' = pending \/ pending' = pending \cup {s}
    BY <1>2 DEF make_signal
  <2> QED
    BY <1>1, <2>1 DEF DIV_ZERO
<1>3. ASSUME frames # <<>>, \E stage \in Stages, on \in BOOLEAN : SetTop(stage, on) PROVE Framing
  BY <1>1, <1>3, SetTopKeeps
<1>4. ~handler_DE
  <2>1. frames # <<>> => frames[Len(frames)] \in SigtestFrames
    BY <1>1
  <2> QED
    BY <2>1 DEF handler_DE, InBody, InKernel, Top, SigtestFrames
<1> USE DEF InKernel, InBody, KeepUser, program
<1>5. CASE handler_PF \/ handler_keyboard \/ mouse_handler
  <2>1. Keeps /\ frames # <<>> /\ \E stage \in Stages, on \in BOOLEAN : SetTop(stage, on)
    BY <1>5 DEF handler_PF, handler_keyboard, mouse_handler
  <2>2. pending' = pending \/ \E s \in {SEGFAULT, INTERRUPT, USER1, USER2} : make_signal(s)
    BY <1>5 DEF handler_PF, handler_keyboard, mouse_handler
  <2>3. {SEGFAULT, INTERRUPT, USER1, USER2} \subseteq 1..5
    BY DEF SEGFAULT, INTERRUPT, USER1, USER2
  <2>4. DIV_ZERO \notin pending'
    BY <1>1, <1>2, <2>2, <2>3, Zenon
  <2> QED
    BY <1>3, <2>1, <2>4
<1>6. CASE handler_rtc \/ pit_handler \/ Switch \/ Back
  <2>1. Keeps /\ frames # <<>> /\ \E stage \in Stages, on \in BOOLEAN : SetTop(stage, on)
    BY <1>6 DEF handler_rtc, pit_handler, Switch, Back
  <2>2. pending' = pending \/ make_signal(ALARM)
    BY <1>6 DEF handler_rtc, pit_handler, Switch, Back
  <2>3. ALARM \in 1..5
    BY DEF ALARM
  <2>4. DIV_ZERO \notin pending'
    BY <1>1, <1>2, <2>2, <2>3, Zenon
  <2> QED
    BY <1>3, <2>1, <2>4
<1>7. CASE NoSignal \/ Dropped
  <2>1. Keeps /\ frames # <<>> /\ frames' = SubSeq(frames, 1, Len(frames) - 1)
    BY <1>7 DEF NoSignal, Dropped, SignalHandler, Below
  <2>2. pending' \subseteq pending
    BY <1>7 DEF NoSignal, Dropped, Taken
  <2>3. Framing
    BY <1>1, <2>1
  <2> QED
    BY <1>1, <2>1, <2>2, <2>3
<1>8. CASE Elsewhere
  <2>1. Keeps /\ frames # <<>> /\ frames' = frames
    BY <1>8 DEF Elsewhere
  <2>2. pending' = pending \/ \E s \in ToVisible : make_signal(s)
    BY <1>8 DEF Elsewhere
  <2>3. ToVisible \subseteq 1..5
    BY DEF ToVisible, INTERRUPT, USER1, USER2
  <2>4. DIV_ZERO \notin pending'
    BY <1>1, <1>2, <2>2, <2>3, Zenon
  <2> QED
    BY <1>1, <2>1, <2>4
<1>9. CASE \E k \in {"keyboard", "mouse", "pit", "rtc"} : Interrupt(k)
  <2>1. PICK k \in {"keyboard", "mouse", "pit", "rtc"} : Interrupt(k)
    BY <1>9
  <2>2. Frame(k, "body", FALSE) \in SigtestFrames
    BY DEF Frame, SigtestFrames
  <2>3. Keeps /\ frames # <<>> /\ frames' = Append(frames, Frame(k, "body", FALSE)) /\ pending' = pending
    BY <2>1 DEF Interrupt
  <2> DEFINE f == Frame(k, "body", FALSE)
  <2> HIDE DEF f
  <2>4. frames' \in Seq(SigtestFrames) /\ DOMAIN frames' = 1..(Len(frames) + 1) /\ f.kind = k
        /\ frames'[Len(frames) + 1] = f /\ \A i \in DOMAIN frames : frames'[i] = frames[i]
    BY <1>1, <2>2, <2>3 DEF f, Frame
  <2>5. ASSUME NEW i \in DOMAIN frames'
        PROVE  \/ frames'[i].kind \notin {"PF", "call"}
               \/ i \in DOMAIN frames /\ frames'[i].kind = frames[i].kind
    <3>1. i \in DOMAIN frames \/ i = Len(frames) + 1
      BY <1>1, <2>4
    <3> QED
      BY <2>4, <3>1
  <2>7. frames' \in Seq(SigtestFrames) /\ frames # <<>>
    BY <2>3, <2>4
  <2>6. Framing
    BY <2>5, <2>7, Zenon
  <2> QED
    BY <1>1, <2>3, <2>6
<1> QED
  BY <1>4, <1>5, <1>6, <1>7, <1>8, <1>9 DEF Kernel

LEMMA SigtestUser ==
  ASSUME code = Sigtest, StackInv(SigtestParts), SigtestRun, User
  PROVE  SigtestRun'
<1>1. /\ cpu \in Contexts /\ DOMAIN handler = SignalNumbers /\ saved \in Seq(Contexts)
      /\ status = "running" /\ frames = <<>>
  BY DEF StackInv, User, Load, Store, Divide, Enter, Fix, Return, Getargs, set_handler, Halt,
         sigreturn, Call, Does, InUser
<1>2. CASE Load
  <2>1. cpu.ip = 6 /\ cpu' = [Next_ip EXCEPT !.eax = badbuf]
        /\ UNCHANGED <<pending, handler, frames, status, charbuf, badbuf, saved>>
    BY <1>2, SigtestOps DEF Load, Does, Quiet
  <2>2. cpu'.ip = 7 /\ cpu'.eax = badbuf
    BY <1>1, <2>1 DEF Next_ip, Contexts
  <2> QED
    BY <1>1, <2>1, <2>2 DEF SigtestRun
<1>3. CASE Store
  <2>1. cpu.ip = 7 /\ UNCHANGED <<pending, handler, status, badbuf, saved>>
    BY <1>3, SigtestOps DEF Store, Does, Quiet, Fault, program
  <2>2. CASE cpu.eax = 0
    <3>1. frames' = <<Frame("PF", "body", FALSE)>> /\ UNCHANGED <<cpu, charbuf>>
      BY <1>3, <2>2 DEF Store, Fault, program
    <3>2. Frame("PF", "body", FALSE) \in SigtestFrames
      BY DEF Frame, SigtestFrames
    <3>3. frames' \in Seq(SigtestFrames) /\ DOMAIN frames' = {1} /\ frames'[1].kind = "PF"
      <4> DEFINE f == Frame("PF", "body", FALSE)
      <4>1. frames' = <<f>> /\ f \in SigtestFrames /\ f.kind = "PF"
        BY <3>1, <3>2 DEF Frame
      <4> HIDE DEF f
      <4> QED
        BY <4>1
    <3> QED
      BY <2>1, <3>1, <3>3 DEF SigtestRun
  <2>3. CASE cpu.eax # 0
    <3>1. cpu'.ip = 8 /\ charbuf' = 1 /\ frames' = frames
      BY <1>1, <1>3, <2>1, <2>3 DEF Store, Next_ip, Contexts, Quiet
    <3>2. handler # Default
      BY <2>3 DEF SigtestRun
    <3> QED
      BY <1>1, <2>1, <3>1, <3>2 DEF SigtestRun
  <2> QED
    BY <2>2, <2>3
<1>4. ~Divide
  BY SigtestOps DEF Divide, Does
<1>5. CASE Enter \/ Fix \/ Return
  <2>1. cpu.ip \in 10..18 /\ UNCHANGED <<pending, handler, frames, status, charbuf>>
    <3>1. cpu.ip \in DOMAIN code /\ code[cpu.ip].op \in {"enter", "fix", "return"}
      BY <1>5 DEF Enter, Fix, Return, Does
    <3>2. DOMAIN code = 1..18
      BY SigtestCode
    <3>3. CASE code[cpu.ip].op \in {"enter", "fix"}
      BY <3>1, <3>3, <1>5, SigtestOps DEF Enter, Fix, Return, Quiet
    <3>4. CASE code[cpu.ip].op = "return"
      <4>1. SigtestParts[cpu.ip] = "body"
        BY <3>1, <3>4 DEF StackInv, Compiled
      <4>2. cpu.ip >= 10
        BY <3>1, <3>2, <4>1 DEF SigtestParts
      <4> QED
        BY <1>5, <3>1, <3>2, <4>2 DEF Enter, Fix, Return, Quiet
    <3> QED
      BY <3>1, <3>3, <3>4
  <2>2. handler # Default
    BY SMTT(30), <2>1 DEF SigtestRun
  <2>3. cpu'.ip \notin {3, 8, 9}
    <3>1. CASE Enter
      <4>1. cpu' = [Next_ip EXCEPT !.esp = @ - 1]
        BY <3>1 DEF Enter
      <4>2. cpu'.ip = cpu.ip + 1
        BY <1>1, <4>1 DEF Next_ip, Contexts
      <4> QED
        BY <2>1, <4>2
    <3>2. CASE Fix
      <4>1. cpu'.ip = cpu.ip + 1
        BY <1>1, <3>2 DEF Fix, Next_ip, Contexts
      <4> QED
        BY <2>1, <4>1
    <3>3. CASE Return
      BY <1>1, <3>3 DEF Return, Contexts, RETURN_HANDLER, WILD
    <3> QED
      BY <1>5, <3>1, <3>2, <3>3
  <2>4. \A k \in DOMAIN saved' : saved'[k].ip = 7
    <3>1. CASE saved' = saved
      BY <3>1 DEF SigtestRun
    <3>2. CASE saved' = [saved EXCEPT ![Len(saved)].eax = 1]
      <4> DEFINE n == Len(saved)
                 ctx == [saved[n] EXCEPT !.eax = 1]
      <4>1. DOMAIN saved' = DOMAIN saved /\ saved' = [saved EXCEPT ![n] = ctx]
        BY <1>1, <3>2
      <4>2. n \in DOMAIN saved => ctx.ip = saved[n].ip
        BY <1>1 DEF Contexts
      <4> HIDE DEF n, ctx
      <4>3. \A k \in DOMAIN saved : saved[k].ip = 7
        BY DEF SigtestRun
      <4> QED
        BY <1>1, <4>1, <4>2, <4>3
    <3> QED
      BY <1>5, <3>1, <3>2 DEF Enter, Fix, Return, Quiet
  <2> QED
    BY <1>1, <2>1, <2>2, <2>3, <2>4 DEF SigtestRun
<1>6. CASE Getargs
  <2>1. cpu.ip = 1 /\ code[cpu.ip].h = 4
    BY <1>6, SigtestOps DEF Getargs, Does
  <2>2. /\ UNCHANGED <<pending, handler, frames, charbuf, badbuf, saved>>
        /\ (status' = "refused" /\ cpu' = cpu)
            \/ (status' = status /\ \E n \in {2, 4} : cpu' = [cpu EXCEPT !.ip = n])
    BY <1>6, <2>1 DEF Getargs, program, Fetched
  <2>3. cpu'.ip \in {1, 2, 4} /\ cpu'.eax = cpu.eax /\ status' \in {"running", "refused"}
    BY <1>1, <2>1, <2>2 DEF Contexts
  <2> QED
    BY <1>1, <2>2, <2>3 DEF SigtestRun
<1>7. CASE set_handler
  <2>1. /\ UNCHANGED <<pending, frames, status, charbuf, badbuf, saved>> /\ cpu' = Next_ip
        /\ cpu.ip \in DOMAIN code /\ code[cpu.ip].op = "set_handler"
    BY <1>7 DEF set_handler, program, Does
  <2>2. (cpu.ip = 2 /\ code[cpu.ip] = Install(SEGFAULT, 10))
        \/ (cpu.ip = 3 /\ code[cpu.ip] = Install(ALARM, 16))
    BY <2>1, SigtestOps
  <2>3. cpu'.ip \in {3, 4} /\ cpu'.eax = cpu.eax
    BY <1>1, <2>1, <2>2 DEF Next_ip, Contexts
  <2>4. handler' = [handler EXCEPT ![1] = 10] \/ handler' = [handler EXCEPT ![3] = 16]
    <3>1. CASE code[cpu.ip] = Install(SEGFAULT, 10)
      <4>1. code[cpu.ip].s = 1 /\ code[cpu.ip].h = 10
        BY <3>1 DEF Install, SEGFAULT
      <4> QED
        BY <1>7, <4>1 DEF set_handler, Fetched, SignalNumbers
    <3>2. CASE code[cpu.ip] = Install(ALARM, 16)
      <4>1. code[cpu.ip].s = 3 /\ code[cpu.ip].h = 16
        BY <3>2 DEF Install, ALARM
      <4> QED
        BY <1>7, <4>1 DEF set_handler, Fetched, SignalNumbers
    <3> QED
      BY <2>2, <3>1, <3>2
  <2>5. \A s \in SignalNumbers : handler'[s] \in {Default[s], 10, 16}
    BY <1>1, <2>4 DEF SigtestRun, SignalNumbers
  <2>6. handler'[SEGFAULT] = 10
    <3>1. CASE cpu.ip = 2
      BY <1>1, <1>7, <2>2, <3>1 DEF set_handler, Fetched, Install, SignalNumbers, SEGFAULT
    <3>2. CASE cpu.ip = 3
      <4>1. handler[1] = 10
        BY <3>2 DEF SigtestRun, SEGFAULT
      <4> QED
        BY <1>1, <2>4, <4>1 DEF SEGFAULT
    <3> QED
      BY <2>2, <3>1, <3>2
  <2>7. handler' # Default
    <3>1. Default[SEGFAULT] = kill_task
      BY DEF Default, SEGFAULT, SignalNumbers, DIV_ZERO, INTERRUPT, ALARM, USER1, USER2
    <3> QED
      BY <2>6, <3>1 DEF kill_task
  <2> QED
    BY <1>1, <2>1, <2>3, <2>5, <2>6, <2>7 DEF SigtestRun
<1>8. CASE Halt
  <2>1. cpu.ip = 9 /\ UNCHANGED <<pending, frames, cpu, charbuf, badbuf, saved, handler>>
    BY <1>8, SigtestOps DEF Halt, Does, program
  <2>2. status' = "success" /\ handler # Default
    BY <1>8, <2>1 DEF Halt, SigtestRun
  <2> QED
    BY <2>1, <2>2 DEF SigtestRun
<1>9. CASE sigreturn
  <2>1. /\ Len(saved) \in DOMAIN saved /\ cpu' = saved[Len(saved)] /\ saved' = SubSeq(saved, 1, Len(saved) - 1)
        /\ UNCHANGED <<pending, handler, frames, status, charbuf>> /\ Len(saved) \in Nat \ {0}
    BY <1>9, SigreturnFinds DEF sigreturn, Quiet
  <2>2. \A k \in DOMAIN saved : saved[k].ip = 7
    BY DEF SigtestRun
  <2>3. cpu'.ip = 7
    BY <2>1, <2>2
  <2>4. \A k \in DOMAIN saved' : k \in DOMAIN saved /\ saved'[k] = saved[k]
    <3> DEFINE n == Len(saved) - 1
    <3>1. n \in Nat /\ n <= Len(saved)
      BY <2>1
    <3> QED
      BY <1>1, <2>1, <3>1
  <2>5. handler # Default
    <3>1. saved # <<>>
      BY <2>1
    <3> QED
      BY <3>1 DEF SigtestRun
  <2> QED
    BY <1>1, <2>1, <2>2, <2>3, <2>4, <2>5 DEF SigtestRun
<1>10. CASE Call
  <2>1. cpu.ip # 7 /\ UNCHANGED <<pending, handler, status, charbuf, badbuf, saved, cpu>>
        /\ frames' = <<Frame("call", "body", TRUE)>>
    BY <1>10, SigtestOps DEF Call, Does, program
  <2>2. Frame("call", "body", TRUE) \in SigtestFrames /\ Frame("call", "body", TRUE).kind # "PF"
    BY DEF Frame, SigtestFrames
  <2>3. frames' \in Seq(SigtestFrames) /\ DOMAIN frames' = {1} /\ frames'[1].kind # "PF"
    <3> DEFINE f == Frame("call", "body", TRUE)
    <3>1. frames' = <<f>> /\ f \in SigtestFrames /\ f.kind # "PF"
      BY <2>1, <2>2
    <3> HIDE DEF f
    <3> QED
      BY <3>1
  <2> QED
    BY <2>1, <2>3 DEF SigtestRun
<1> QED
  BY <1>2, <1>3, <1>4, <1>5, <1>6, <1>7, <1>8, <1>9, <1>10 DEF User

(* A handler of sigtest starts at the store alone.                         *)
LEMMA HandledAtStore ==
  ASSUME SigtestRun, UserHandler
  PROVE  cpu.ip = 7
<1>1. frames # <<>> /\ Len(frames) = 1 /\ frames[1].kind \in {"DE", "PF"} /\ frames \in Seq(SigtestFrames)
  BY DEF UserHandler, SignalHandler, InKernel, FromUser, Top, SigtestRun
<1>2. 1 \in DOMAIN frames
  BY <1>1
<1>3. frames[1] \in SigtestFrames
  BY <1>1, <1>2
<1>4. frames[1].kind = "PF"
  BY <1>1, <1>3 DEF SigtestFrames
<1>5. \A i \in DOMAIN frames : frames[i].kind = "PF" => cpu.ip = 7
  BY DEF SigtestRun
<1> QED
  BY <1>2, <1>4, <1>5

(* sigtest's stack has to hold one frame.                                  *)
LEMMA SigtestRoom ==
  ASSUME USER_ESP > 4, StackInv(SigtestParts), SigtestRun, UserHandler
  PROVE  StackRoom'
<1>1. cpu.ip = 7 /\ cpu \in Contexts /\ USER_ESP \in Nat /\ Len(saved) \in Nat
  BY HandledAtStore, Outside DEF StackInv
<1>2. SigtestParts[cpu.ip] = "main" /\ cpu.ip \in DOMAIN SigtestParts
  BY <1>1 DEF SigtestParts
<1>3. cpu.esp = USER_ESP
  BY <1>1, <1>2 DEF StackInv, Where, Inside, Depth, RETURN_HANDLER
<1>4. cpu'.esp = cpu.esp - 4
  BY <1>1 DEF UserHandler, Contexts
<1> QED
  BY <1>1, <1>3, <1>4 DEF StackRoom

LEMMA SigtestHandled ==
  ASSUME code = Sigtest, StackInv(SigtestParts), SigtestRun, UserHandler \/ KernelHandler
  PROVE  SigtestRun'
<1>1. /\ frames \in Seq(SigtestFrames) /\ frames # <<>> /\ pending \subseteq SignalNumbers /\ pending # {}
      /\ frames' = SubSeq(frames, 1, Len(frames) - 1) /\ pending' = pending \ {Lowest}
      /\ UNCHANGED <<code, badbuf, charbuf, handler>> /\ status = "running"
      /\ saved \in Seq(Contexts) /\ cpu \in Contexts
  BY DEF UserHandler, KernelHandler, SignalHandler, InKernel, Below, Taken, program, SigtestRun, StackInv
<1>2. /\ frames' \in Seq(SigtestFrames)
      /\ \A i \in DOMAIN frames' : i \in DOMAIN frames /\ frames'[i] = frames[i]
      /\ DIV_ZERO \notin pending'
  BY <1>1 DEF SigtestRun
<1>3. Lowest \in 1..5
  <2>1. Lowest \in pending
    BY <1>1, LowestPosted
  <2>2. 0 \notin pending
    BY DEF SigtestRun, DIV_ZERO
  <2> QED
    BY <1>1, <2>1, <2>2 DEF SignalNumbers
<1>4. CASE KernelHandler
  <2>1. /\ UNCHANGED <<cpu, saved>> /\ handler[Lowest] \in OfKernel
        /\ status' = IF handler[Lowest] # kill_task THEN status
                     ELSE IF Lowest = INTERRUPT THEN "interrupted" ELSE "killed"
    BY <1>4 DEF KernelHandler
  <2>2. status' = "killed" => handler = Default
    <3> SUFFICES ASSUME status' = "killed", handler # Default PROVE FALSE
      OBVIOUS
    <3>1. handler[Lowest] = kill_task /\ Lowest # INTERRUPT
      BY <1>1, <2>1
    <3>2. handler[1] = 10
      BY DEF SigtestRun, SEGFAULT
    <3>3. handler[Lowest] \in {Default[Lowest], 10, 16}
      BY <1>3 DEF SigtestRun, SignalNumbers
    <3>4. Lowest \in {3, 4, 5}
      BY <1>3, <3>1, <3>2 DEF kill_task, INTERRUPT
    <3>5. Default[Lowest] \in {signal_ignore, left_key_mouse, right_key_mouse}
      BY <3>4 DEF Default, SignalNumbers, DIV_ZERO, SEGFAULT, INTERRUPT, ALARM, USER1, USER2
    <3> QED
      BY <3>1, <3>3, <3>5 DEF kill_task, signal_ignore, left_key_mouse, right_key_mouse
  <2>3. status' \in {"running", "interrupted", "killed"}
    BY <1>1, <2>1
  <2> QED
    BY <1>1, <1>2, <2>1, <2>2, <2>3 DEF SigtestRun
<1>5. CASE UserHandler
  <2>1. /\ handler[Lowest] \notin OfKernel /\ Len(frames) = 1 /\ frames[1].kind \in {"DE", "PF"}
        /\ cpu' = [cpu EXCEPT !.ip = handler[Lowest], !.esp = @ - 4]
        /\ saved' = Append(saved, cpu) /\ status' = status
    BY <1>5 DEF UserHandler, FromUser, Top
  <2>2. cpu.ip = 7
    BY <1>5, HandledAtStore
  <2>3. handler[Lowest] \in {10, 16} /\ handler # Default
    <3>1. handler[Lowest] \in {Default[Lowest], 10, 16}
      BY <1>3 DEF SigtestRun, SignalNumbers
    <3>2. Default[Lowest] \in OfKernel
      BY <1>3 DEF Default, OfKernel, SignalNumbers, DIV_ZERO, SEGFAULT, INTERRUPT, ALARM, USER1, USER2
    <3> QED
      BY <2>1, <3>1, <3>2
  <2>4. cpu'.ip \in {10, 16}
    BY <1>1, <2>1, <2>3 DEF Contexts
  <2>5. \A k \in DOMAIN saved' : saved'[k].ip = 7
    <3>1. \A k \in DOMAIN saved : saved[k].ip = 7
      BY DEF SigtestRun
    <3> QED
      BY <1>1, <2>1, <2>2, <3>1
  <2>6. frames' = <<>>
    BY <1>1, <2>1
  <2> QED
    BY <1>1, <1>2, <2>1, <2>3, <2>4, <2>5, <2>6 DEF SigtestRun
<1> QED
  BY <1>4, <1>5

LEMMA CodeStays == [Next]_vars => code' = code
BY DEF Next, vars, User, Kernel, Load, Store, Divide, Enter, Fix, Return, Getargs, set_handler, Halt,
       sigreturn, Call, Fault, Quiet, program, CallReturns, handler_DE, handler_PF, handler_keyboard,
       mouse_handler, handler_rtc, pit_handler, Switch, Back, NoSignal, KernelHandler, UserHandler,
       Dropped, SignalHandler, KeepUser, Elsewhere, Interrupt, Ended

LEMMA SigtestStep ==
  ASSUME USER_ESP > 4
  PROVE  SigtestInv /\ [Next]_vars => SigtestInv'
<1> SUFFICES ASSUME SigtestInv, [Next]_vars, code' = Sigtest
             PROVE  (StackInv(SigtestParts) /\ SigtestRun)'
  BY DEF SigtestInv
<1>1. code' = code
  BY CodeStays
<1>2. code = Sigtest /\ StackInv(SigtestParts) /\ SigtestRun
  BY <1>1 DEF SigtestInv
<1>3. StackInv(SigtestParts)'
  BY <1>2, HandlersStep, SigtestRoom
<1>4. SigtestRun'
  <2>1. CASE User
    BY <1>2, <2>1, SigtestUser
  <2>2. CASE Kernel \/ Elsewhere \/ \E k \in {"keyboard", "mouse", "pit", "rtc"} : Interrupt(k)
    <3>1. CASE UserHandler \/ KernelHandler
      BY <1>2, <3>1, SigtestHandled
    <3>2. CASE /\ UNCHANGED <<code, cpu, saved, handler, badbuf, charbuf, status>>
               /\ frames' \in Seq(SigtestFrames)
               /\ \A i \in DOMAIN frames' : \/ frames'[i].kind \notin {"PF", "call"}
                                            \/ i \in DOMAIN frames /\ frames'[i].kind = frames[i].kind
               /\ DIV_ZERO \notin pending'
      BY <1>2, <3>2 DEF SigtestRun
    <3> QED
      BY <1>2, <2>2, <3>1, <3>2, SigtestKernel
  <2>3. CASE CallReturns
    <3>1. /\ frames' = <<>> /\ cpu' = Next_ip /\ frames # <<>>
          /\ UNCHANGED <<code, badbuf, charbuf, pending, handler, status, saved>>
      BY <2>3 DEF CallReturns, program, InKernel
    <3>2. Trapped /\ cpu \in Contexts
      BY <1>2, <3>1 DEF StackInv
    <3>3. cpu.ip \in {4, 5, 7, 8, 11, 12, 14, 17}
      BY <1>2, <3>2, SigtestOps DEF Trapped
    <3>4. cpu'.ip = cpu.ip + 1 /\ cpu'.eax = cpu.eax
      BY <3>1, <3>2 DEF Next_ip, Contexts
    <3>5. cpu.ip # 7
      <4>1. Len(frames) \in DOMAIN frames /\ frames[Len(frames)].kind = "call"
        BY <1>2, <2>3, <3>1 DEF CallReturns, Top, SigtestRun
      <4> QED
        BY <1>2, <4>1 DEF SigtestRun
    <3> QED
      BY <1>2, <3>1, <3>3, <3>4, <3>5 DEF SigtestRun
  <2>4. CASE UNCHANGED vars
    BY <1>2, <2>4 DEF vars, SigtestRun
  <2> QED
    BY <2>1, <2>2, <2>3, <2>4 DEF Next, Ended
<1> QED
  BY <1>3, <1>4

(* sigtest never says failure and never dies of its own fault once its     *)
(* handlers are set, whatever interrupts take its signals in the window    *)
(* make_signal opens; without them it does not get past the faulting store *)
(* (sigtest.c:13, signal.c:216).                                           *)
THEOREM SigtestCorrect ==
  ASSUME USER_ESP > 4
  PROVE  Spec => []SigtestVerdict
<1>1. Init => SigtestInv
  BY SigtestInit
<1>2. SigtestInv => SigtestVerdict
  BY DEF SigtestInv, SigtestRun, SigtestVerdict
<1> QED
  BY <1>1, <1>2, SigtestStep, PTL DEF Spec
=============================================================================
