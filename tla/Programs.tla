------------------------------- MODULE Programs -------------------------------
(***************************************************************************)
(* The user programs shell, cat, ls, grep, syserr and pingpong, running on *)
(* the terminals' sessions and making the calls of Files.  An action is    *)
(* what a program makes of the result of its last call together with its   *)
(* next call.                                                              *)
(***************************************************************************)
EXTENDS Files

CONSTANTS Uses,    \* what may be typed where: for each terminal its commands,
                       \* <<program, argument>>
          READ_SIZE,   \* the buffer of cat and grep; 1024
          FREQ,        \* what pingpong writes to the RTC; 32
          Selections   \* the tests typed to syserr

ASSUME ProgramsAssumption == READ_SIZE \in Nat \ {0} /\ FREQ # 0

VARIABLES typed,   \* the one of Uses that takes place
          st,      \* the program of each process and its locals
          exeret,  \* global: the exit status halt leaves for execute
          whole,   \* has a process read the directory from its first entry,
                   \* and nobody else since?
          waited   \* RTC interrupts since the read a terminal waits in began

vars == <<sessions, rtc, files, calls, typed, st, exeret, whole, waited>>

(* at: the next statement; fds: what it has opened; out: what it printed   *)
(* or searched (entries only while its reading is whole); sel, k, cnt, bad: *)
(* syserr's test, next call, opens that failed, whether the test failed.   *)
New(pr, arg) == [prog |-> pr, at |-> "start", args |-> arg, fds |-> <<-1, -1>>,
                 out |-> <<>>, status |-> 0,
                 sel |-> 0, k |-> 1, cnt |-> 0, bad |-> FALSE]

ProgramsInit ==
  /\ Init /\ RTC_init /\ FilesInit
  /\ typed \in Uses
  /\ st = [p \in Procs |-> New("shell", "")]
  /\ exeret = 0
  /\ whole = [p \in Procs |-> FALSE]
  /\ waited = [t \in Terms |-> 0]

At(p, pr, l) == /\ p = front[turn] /\ mode[p] = "user"
                /\ st[p].prog = pr /\ st[p].at = l

Goto(p, l) == st' = [st EXCEPT ![p].at = l]

(* ece391_fdputs(1, s), s not empty; its result is ignored                 *)
Puts(p) == write(p, 1, 2, 0)

(* Leave main with status s, at once or after a message                    *)
Finish(p, s) == /\ st' = [st EXCEPT ![p].at = "return", ![p].status = s]
                /\ UNCHANGED <<rtc, files, calls>>
Fail(p, s)   == /\ Puts(p)
                /\ st' = [st EXCEPT ![p].at = "return", ![p].status = s]

-----------------------------------------------------------------------------
(* halt closes the descriptors and leaves the status to the execute of the *)
(* parent, which goes on with sti.                                         *)
Leave(p, s) ==
  /\ Exit
  /\ exeret' = IF s = 1 THEN 256 ELSE s
  /\ mode' = [mode EXCEPT ![p] = "user", ![parent[p]] = "halted"]
  /\ file_array' = [file_array EXCEPT ![p] = NewFiles]
  /\ st' = [st EXCEPT ![p] = New("none", "")]
  /\ data' = [data EXCEPT ![p] = <<>>]
  /\ eax' = [eax EXCEPT ![p] = 0]
  /\ own' = [own EXCEPT ![p] = 0, ![parent[p]] = exeret']
  /\ UNCHANGED <<dir_counter, rtc>>

Halt(p) ==
  /\ p = front[turn] /\ mode[p] = "user" /\ st[p].at = "return"
  /\ Leave(p, st[p].status)

(* Ctrl-C: kill_task calls halt(1) at the end of an interrupt.             *)
Kill(p) == p = front[turn] /\ mode[p] # "user" /\ Leave(p, 1)

(* halt of a base shell: another shell takes its slot.                     *)
Respawn(p) ==
  /\ p \in Base /\ At(p, "shell", "return")
  /\ exeret' = st[p].status
  /\ file_array' = [file_array EXCEPT ![p] = NewFiles]
  /\ st' = [st EXCEPT ![p] = New("shell", "")]
  /\ UNCHANGED <<sessions, rtc, dir_counter, data, calls>>

ExecuteReturn(p) ==
  /\ mode[p] = "halted"
  /\ eax' = [eax EXCEPT ![p] = exeret]
  /\ mode' = [mode EXCEPT ![p] = "done"]
  /\ UNCHANGED <<own, rtc, files>>

-----------------------------------------------------------------------------
(* ece391shell.c                                                           *)
Shell(p) ==
  \/ At(p, "shell", "start") /\ Puts(p) /\ Goto(p, "prompt")
  \/ At(p, "shell", "prompt") /\ Puts(p) /\ Goto(p, "read")
  \/ At(p, "shell", "read") /\ read(p, 0, READ_SIZE) /\ Goto(p, "line")
  \/ At(p, "shell", "line") /\ eax[p] = -1 /\ Fail(p, 3)
  \/ At(p, "shell", "line") /\ eax[p] = 0 /\ Puts(p) /\ Goto(p, "read")
  \/ At(p, "shell", "line") /\ eax[p] > 0 /\ Finish(p, 0)       \* "exit"
  \/ At(p, "shell", "ran") /\ eax[p] = 0 /\ Puts(p) /\ Goto(p, "read")
  \/ At(p, "shell", "ran") /\ eax[p] # 0 /\ Puts(p) /\ Goto(p, "prompt")

(* execute: the lowest free slot, or -1                                    *)
Free == Procs \ (Base \cup alive)

Execute(p) ==
  /\ At(p, "shell", "line") /\ eax[p] > 0
  /\ \E c \in typed[turn] :
     IF Free = {} THEN Return(p, -1) /\ Goto(p, "ran") /\ UNCHANGED <<sessions, file_array>>
     ELSE \E q \in Free :
          /\ \A r \in Free : q <= r
          /\ Start(q)
          /\ st' = [st EXCEPT ![p].at = "ran", ![q] = New(c[1], c[2])]
          /\ file_array' = [file_array EXCEPT ![q] = NewFiles]
          /\ UNCHANGED calls
  /\ UNCHANGED <<rtc, dir_counter, data, exeret>>

-----------------------------------------------------------------------------
(* ece391cat.c and ece391ls.c: open, then read and print until nothing is  *)
(* left.  ls prints a newline after each name.                             *)
Lists(p) == st[p].prog \in {"cat", "ls"}
Is(p, l) == At(p, st[p].prog, l)
End(p)   == IF st[p].prog = "ls" THEN 1 ELSE 0

OpenDir(p) == open(p, ".") /\ Goto(p, "opened")

(* The entry or the bytes just read                                        *)
More(p) == IF st[p].prog = "cat" \/ whole[p] THEN st[p].out \o data[p] ELSE <<>>

ReadNext(p, f, l) ==
  /\ read(p, f, READ_SIZE)
  /\ st' = [st EXCEPT ![p].at = l, ![p].fds[1] = f]

Cat(p) ==
  \/ At(p, "cat", "start") /\ getargs(p, st[p].args) /\ Goto(p, "open")
  \/ At(p, "cat", "open") /\ eax[p] # 0 /\ Fail(p, 3)
  \/ At(p, "cat", "open") /\ eax[p] = 0 /\ open(p, st[p].args) /\ Goto(p, "opened")

Ls(p) == At(p, "ls", "start") /\ OpenDir(p)

CatLs(p) ==
  /\ Lists(p)
  /\ \/ Is(p, "opened") /\ eax[p] = -1 /\ Fail(p, 2)
     \/ Is(p, "opened") /\ eax[p] # -1 /\ ReadNext(p, eax[p], "got")
     \/ Is(p, "got") /\ eax[p] = 0 /\ Finish(p, 0)
     \/ Is(p, "got") /\ eax[p] = -1 /\ Fail(p, 3)
     \/ /\ Is(p, "got") /\ eax[p] > 0
        /\ write(p, 1, eax[p] + End(p), 0)
        /\ st' = [st EXCEPT ![p].at = "wrote", ![p].out = More(p)]
     \/ Is(p, "wrote") /\ eax[p] = -1 /\ Finish(p, 3)
     \/ Is(p, "wrote") /\ eax[p] # -1 /\ ReadNext(p, st[p].fds[1], "got")

(* ece391grep.c, for lines shorter than its buffer.  How many matches it   *)
(* prints is left open; the one name with a dot in front is the directory. *)
Entry(p) == Directory[data[p][1]]
ReadFile(p, f) == read(p, f, READ_SIZE) /\ st' = [st EXCEPT ![p].at = "chunk", ![p].fds[2] = f]

Grep(p) ==
  \/ At(p, "grep", "start") /\ getargs(p, st[p].args) /\ Goto(p, "dir")
  \/ At(p, "grep", "dir") /\ IF eax[p] # 0 THEN Fail(p, 3) ELSE OpenDir(p)
  \/ At(p, "grep", "opened") /\ IF eax[p] = -1 THEN Fail(p, 2) ELSE ReadNext(p, eax[p], "entry")
  \/ At(p, "grep", "entry") /\ eax[p] = 0 /\ Finish(p, 0)
  \/ At(p, "grep", "entry") /\ eax[p] = -1 /\ Fail(p, 3)
  \/ /\ At(p, "grep", "entry") /\ eax[p] > 0
     /\ IF Entry(p).type = "dir" THEN ReadNext(p, st[p].fds[1], "entry")
        ELSE /\ open(p, Entry(p).name)
             /\ st' = [st EXCEPT ![p].at = "file", ![p].out = More(p)]
  \/ At(p, "grep", "file") /\ IF eax[p] = -1 THEN Fail(p, 3) ELSE ReadFile(p, eax[p])
  \/ At(p, "grep", "chunk") /\ eax[p] = -1 /\ Fail(p, 3)
  \/ At(p, "grep", "chunk") /\ eax[p] # -1 /\ Puts(p) /\ Goto(p, IF eax[p] = 0 THEN "last" ELSE "match")
  \/ At(p, "grep", "chunk") /\ eax[p] > 0 /\ ReadFile(p, st[p].fds[2])
  \/ (At(p, "grep", "match") \/ At(p, "grep", "last")) /\ Puts(p) /\ UNCHANGED st
  \/ At(p, "grep", "match") /\ ReadFile(p, st[p].fds[2])
  \/ /\ At(p, "grep", "last") \/ (At(p, "grep", "chunk") /\ eax[p] = 0)
     /\ close(p, st[p].fds[2]) /\ Goto(p, "closed")
  \/ At(p, "grep", "closed") /\ IF eax[p] = -1 THEN Fail(p, 3) ELSE ReadNext(p, st[p].fds[1], "entry")

(* ece391pingpong.c                                                        *)
Pingpong(p) ==
  \/ At(p, "pingpong", "start") /\ open(p, "rtc") /\ Goto(p, "set")
  \/ /\ At(p, "pingpong", "set") /\ write(p, eax[p], 4, FREQ)
     /\ st' = [st EXCEPT ![p].at = "draw", ![p].fds[1] = eax[p]]
  \/ At(p, "pingpong", "draw") /\ Puts(p) /\ Goto(p, "wait")
  \/ At(p, "pingpong", "wait") /\ read(p, st[p].fds[1], 4) /\ Goto(p, "draw")

-----------------------------------------------------------------------------
(* ece391syserr.c: the calls of its tests.  All of them should return -1,  *)
(* except that exactly one of the seven opens should.                      *)
NEG_FD == -1
BIG_FD == MAX_FD

Call(c, x) == [call |-> c, fd |-> x, name |-> "", want |-> "-1"]
Try(name, w) == [call |-> "open", fd |-> 0, name |-> name, want |-> w]
Done(w) == [call |-> "puts", fd |-> 0, name |-> "", want |-> w]
Each(c, w) == [i \in 1..(MAX_FD - 2) |-> [Call(c, i + 1) EXCEPT !.want = w]]

err_fd(f) == <<Call("read", f), Call("write", f), Call("close", f), Done("")>>
err_open_lots == [i \in 1..(MAX_FD - 1) |-> Try(".", "count")] \o Each("close", "") \o <<Done("one")>>
err_open == <<Try("helloo", "-1"), Try("shel", "-1"), Try("", "-1"), Done("")>>
err_unopened == <<Call("close", 0), Call("close", 1)>> \o Each("close", "-1")
                  \o Each("read", "-1") \o Each("write", "-1") \o <<Done("")>>
err_vidmap == <<Call("vidmap", 0), Call("vidmap", 1), Done("")>>
err_stdin_out == <<Call("write", 0), Call("read", 1), Done("")>>
err_syscall_num == <<Call("none", 0), Call("none", 1), Call("none", 2), Done("")>>

(* Any other choice gets a message; choice 0, all of them in turn, is left *)
(* out.                                                                    *)
Script == <<err_fd(NEG_FD), err_fd(BIG_FD), err_open_lots, err_open, err_unopened,
            err_vidmap, err_stdin_out, err_syscall_num, <<Done("")>>>>

Make(p, c) ==
  CASE c.call = "read"   -> read(p, c.fd, 31)
    [] c.call = "write"  -> write(p, c.fd, 31, 0)
    [] c.call = "close"  -> close(p, c.fd)
    [] c.call = "open"   -> open(p, c.name)
    [] c.call = "vidmap" -> vidmap(p, FALSE)
    [] c.call = "none"   -> NoSuchCall(p)
    [] OTHER               -> Puts(p)   \* "puts"

(* The call whose result the test looks at, if there is one, and the next. *)
Tests(p)  == Script[st[p].sel]
Before(p) == IF st[p].k = 1 THEN Done("") ELSE Tests(p)[st[p].k - 1]
Left(p)   == st[p].k <= Len(Tests(p))

Wrong(p)  == st[p].at = "test" /\ Before(p).want = "-1" /\ eax[p] # -1
Failed(p) == IF st[p].at = "test" /\ Before(p).want = "count" /\ eax[p] = -1 THEN 1 ELSE 0

Syserr(p) ==
  \/ At(p, "syserr", "start") /\ Puts(p) /\ Goto(p, "choose")
  \/ At(p, "syserr", "choose") /\ read(p, 0, 127) /\ Goto(p, "chosen")
  \/ At(p, "syserr", "chosen") /\ eax[p] = -1 /\ Fail(p, 2)
  \/ /\ At(p, "syserr", "chosen") /\ eax[p] # -1 /\ UNCHANGED <<rtc, files, calls>>
     /\ \E s \in Selections : st' = [st EXCEPT ![p].at = "test", ![p].sel = s]
  \/ /\ At(p, "syserr", "test") /\ Wrong(p)
     /\ Puts(p) /\ st' = [st EXCEPT ![p].at = "next", ![p].bad = TRUE]
  \/ /\ At(p, "syserr", "next") \/ (At(p, "syserr", "test") /\ ~Wrong(p))
     /\ Left(p)
     /\ LET c == Tests(p)[st[p].k] IN
        /\ Make(p, c)
        /\ st' = [st EXCEPT ![p].at = "test", ![p].k = @ + 1, ![p].cnt = @ + Failed(p),
                            ![p].bad = @ \/ (c.want = "one" /\ st[p].cnt # 1)]
  \/ /\ At(p, "syserr", "next") \/ (At(p, "syserr", "test") /\ ~Wrong(p))
     /\ ~Left(p)
     /\ Finish(p, IF st[p].bad THEN 2 ELSE 0)

-----------------------------------------------------------------------------
Program(p) ==
  /\ Shell(p) \/ Cat(p) \/ Ls(p) \/ CatLs(p) \/ Grep(p) \/ Pingpong(p) \/ Syserr(p)
  /\ UNCHANGED <<sessions, exeret>>

CallStep(p) ==
  /\ p = front[turn]
  /\ LineRead(p) \/ TickRead(p) \/ StoreEax(p) \/ LoadEax(p) \/ ExecuteReturn(p)
  /\ UNCHANGED <<sessions, st, exeret>>

FirstShell == OpenShell /\ UNCHANGED <<rtc, files, calls, st, exeret>>

(* Another process that moves dir_counter ends a whole reading.            *)
Reads(q) ==
  /\ st'[q].prog \in {"ls", "grep"}
  /\ IF st[q].at # "opened" /\ st'[q].at = "opened" THEN dir_counter = 0
     ELSE whole[q] /\ (q = front[turn] \/ dir_counter' = dir_counter)

(* A step of the terminal whose turn it is                                 *)
Step ==
  /\ \/ FirstShell
     \/ \E p \in Procs : Program(p) \/ CallStep(p) \/ Execute(p) \/ Halt(p) \/ Kill(p) \/ Respawn(p)
  /\ whole' = [q \in Procs |-> Reads(q)]
  /\ waited' = [waited EXCEPT ![turn] = 0]
  /\ UNCHANGED typed

(* Interrupts are taken only in the calls that have set IF.                *)
Interruptible == front[turn] # None /\ mode[front[turn]] # "user"

PitIrq == Interruptible /\ TakeTurn /\ UNCHANGED <<rtc, files, calls, typed, st, exeret, whole, waited>>

Waiting(t) == front[t] # None /\ mode[front[t]] = "tick"

RtcIrq ==
  /\ Interruptible /\ handler_rtc
  /\ waited' = [t \in Terms |-> IF Waiting(t) /\ ~interrupt'[t] THEN waited[t] + 1 ELSE 0]
  /\ UNCHANGED <<sessions, files, calls, typed, st, exeret, whole>>

ProgramsNext == Step \/ PitIrq \/ RtcIrq

ProgramsSpec == ProgramsInit /\ [][ProgramsNext]_vars

-----------------------------------------------------------------------------
(* Properties.                                                             *)

Bytes(i) == [j \in 1..Directory[i].size |-> j]

(* cat prints the bytes of its file in order, none twice, and all of them  *)
(* unless it reports an error (the position of its descriptor, kept across *)
(* the calls and the turns of other programs).                             *)
CatPrintsFile ==
  \A p \in Procs : \A i \in DOMAIN Directory :
    st[p].prog = "cat" /\ Directory[i].type = "file" /\ st[p].args = Directory[i].name =>
      /\ \E n \in 0..Directory[i].size : st[p].out = SubSeq(Bytes(i), 1, n)
      /\ st[p].at = "return" /\ st[p].status = 0 => st[p].out = Bytes(i)

(* ls lists every entry of the directory once and in order, and grep       *)
(* searches every file once and in order, if dir_counter was 0 when they   *)
(* opened it and nobody else read it meanwhile.                            *)
Wanted(p) == IF st[p].prog = "ls" THEN DOMAIN Directory
             ELSE {i \in DOMAIN Directory : Directory[i].type # "dir"}

InOrder(s, S) ==
  /\ \A j, k \in DOMAIN s : j < k => s[j] < s[k]
  /\ {s[j] : j \in DOMAIN s} = S

DirectoryWhole ==
  \A p \in Procs :
    st[p].prog \in {"ls", "grep"} /\ st[p].at = "return" /\ st[p].status = 0 /\ whole[p] =>
      InOrder(st[p].out, Wanted(p))

(* No process loses its terminal: whatever it opens and closes, descriptors *)
(* 0 and 1 are what create_PCB made them.                                   *)
StandardDescriptors == \A p \in Procs, fd \in {0, 1} : file_array[p][fd] = Terminal

(* "PASS if behavior is EXPECTED": no test of syserr fails, whatever the   *)
(* other terminals do.                                                     *)
SyserrPasses == \A p \in Procs : ~st[p].bad

(* A program that waits for its clock (rtc_read) has its tick after at     *)
(* most RATE / freq interrupts of the RTC, whatever frequency the other    *)
(* terminals have set and whoever has the CPU when the interrupt comes.    *)
TickInTime == \A t \in Terms : waited[t] < RATE \div freq[t]

(* A program gets the result of its own call, not of another process's     *)
(* (store_eax and exeret are one each for all of them).                    *)
OwnResult == \A p \in Procs : mode[p] = "user" => eax[p] = own[p]
=============================================================================
