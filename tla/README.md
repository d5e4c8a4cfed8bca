# EchOS: a TLA+ model, its checks and its proofs

EchOS is a teaching kernel for one 32-bit x86 CPU: three text terminals, up to
six processes, a round-robin scheduler driven by the timer chip, a read-only
file system, signals, and a handful of Linux-like system calls. The code is in
`src/mp3_Echos/student-distrib`; this directory holds TLA+ modules translated
from it, TLC configurations that model-check them, and theorems about them that
TLAPS has checked.

## 1. The system

| part | state it keeps | operations | talks to |
|------|----------------|------------|----------|
| processes (`system_calls.c`) | `PCBs` bitmap, per slot a PCB (`parent_pcb`, `pcb_esp`, signals, 8 descriptors) and an 8KB kernel stack, `exeret` | `execute`, `halt`, `create_PCB`, `remove_PCB` | paging, TSS, scheduler, files |
| scheduler (`scheduling.c`) | `schedule_pcb[3]`, `cur_term`, `next_term`, `term_num`, the alarm counter `c` | `pit_handler`, `scheduling` | every process's saved stack, `execute` (start of the shells), signals |
| linkage (`idt-linkage.S`, `exeception.S`, `idt.c`) | frames on the kernel stacks, `store_eax`, `sig_return_flag`, EFLAGS.IF | one stub per vector | all handlers, then `signal_handler` |
| signals (`signal.c`) | `signal_status[6]`, `handler[6]` of a PCB, frames on the user stack | `make_signal`, `signal_handler`, `kill_task`, `set_handler`, `sigreturn` | `halt`, user stacks |
| terminals (`terminal.c`, `keyboard.c`) | per terminal a line buffer, `key_read`, history, cursor; modifier keys, `visible_term` | `handler_keyboard`, `read_term`, `write_term`, history, completion, `change_term` | video, signals |
| files (`filesystem.c`, `open`..`write`) | the disk image (constant), `file_array` of each PCB, `dir_counter` | `open`, `close`, `read`, `write`, `read_data`, `dir_read` | terminals, RTC |
| real-time clock (`rtc.c`) | per terminal `freq` and `interrupt`, `int_times`; the date | `handler_rtc`, `rtc_open/read/write`, `update_current_global_time` | terminals |
| video (`lib.c`, `page.c`) | the screen, three backing pages, the two mappings of the screen page, cursors | `putc_by_program`, `putc_by_keyboard`, scrolling, `vidmap` | terminals, scheduler |
| mouse (`mouse.c`) | `cursor_x`, `cursor_y` | `mouse_handler` | cursor, terminals, signals |
| library (`lib.c`, `syscalls/ece391support.c`) | none | memory, strings, numbers, `printf` | everything |
| user programs (`syscalls/`, `fish/`) | their own memory | shell, cat, ls, grep, pingpong, syserr, sigtest, fish | system calls |
| interrupt controller (`i8259.c`) | masks, requests and in-service bits | `enable_irq`, `send_eoi` | every handler |

What is hard here, and what makes each part right:

* **One stack pointer, four records of who runs.** `%esp`, `tss.esp0`, the 4MB
  user page and `schedule_pcb[cur_term]` are set in different places of
  `execute`, `halt` and `scheduling()`. They must agree whenever an interrupt or
  a system call can look (`Installed`).
* **Long sequences of `execute` and `halt` on three terminals** must keep one
  chain of processes per terminal, free each slot once, and return into the very
  `execute` that started the program (`ChainsDisjoint`, `NoSlotLeak`,
  `BaseForShells`, `ParentWaits`, `StartersWait`).
* **A context switch resumes a saved stack**: it must be one an earlier
  `scheduling()` saved, whatever that terminal did since (`SwitchTargetSaved`).
* **Interrupts inside the kernel.** Interrupt gates clear IF, but `read_term`,
  `write_term`, `rtc_read`, `handler_keyboard` and `make_signal` set it again in
  the middle of handlers; user programs on the other hand run with IF clear,
  because `execute` pushes the flags before `sti`. Globals that live across such
  a window (`exeret`, `store_eax`) are shared by three terminals: a program must
  get the result of its own call (`OwnResult`), and does not always.
* **Signals are recorded for the visible process and acted on later**, on the
  way out of a later interrupt (`PendingIsSaved`, `CtrlCDelivered`), possibly of
  one nested in the handler that recorded them (`FaultEnds`, `SigtestVerdict`),
  and a handler of the program must return to what it interrupted, handlers
  interrupted by handlers included (`Resumes`, `HandlersReturn`).
* **Keys arrive while programs read or do not read.** The interrupt edits the
  visible terminal's line, `read_term` polls and copies its own terminal's line
  with interrupts on. The program must get the line as the person edited it
  (`ImplementsLineEdit`), the screen must show that line (`ScreenShowsLine`),
  every line must be endable and end inside its buffer (`RoomForEnter`,
  `CopyEndsAtNul`), and Enter must end the read (`EnterEndsRead`).
* **State that outlives a call.** A position lives in a descriptor while other
  programs run (`CatPrintsFile`), one `dir_counter` serves all open directories
  (`DirectoryWhole`), one RTC is divided into a clock per terminal whose ticks
  come while other terminals run (`TickInTime`), and descriptors are freed and
  taken again to their limit (`SyserrPasses`, `StandardDescriptors`).
* **One address, several screens.** Programs and the kernel write at the address
  of the screen; `change_term_vidmap` decides again and again which page that is.
  What is written on a terminal must end up in that terminal's text and in no
  other (`ImplementsViews`), and inside the page (`CursorsOnScreen`).
* **Boundaries of blocks, words and buffers** in `read_data`, `memcpy`, `grep`,
  `itoa` (`FilesReadWhole`, `BytesPlaced`, `GrepPrintsMatches`,
  `NumbersReadBack`) and of the calendar (`ClockSixHoursBack`), six slots, eight
  descriptors, 128-byte lines, 100 history entries.

PROJECT.json lists every hazard at its line, with the properties that watch it.

## 2. The modules

| what | modules |
|------|---------|
| processes, scheduler, linkage, kill | `Kernel`, its inductive invariant `KernelInv`, `Kernel_proofs` |
| what a user sees of it | `Sessions` (abstract), proved about in `Programs_proofs`; `KernelRefines` is the mapping, `Kernel_proofs` proves it |
| line editing, history, completion | `Terminal`, `LineEdit` (abstract), `TerminalRefines` (mapping), `TerminalInv` (inductive invariants), `Terminal_proofs`, `TerminalRefines_proofs` |
| clock, descriptors, user programs | `Rtc`, `Files`, `Programs`, each extending the one before, `Rtc` extending `Sessions`; `Programs_proofs` |
| signals of one process | `Signals`, `Signals_proofs` |
| video memory | `Screen`, `Views` (abstract), `Screen_proofs` |
| routines without state | `Libc`, `Inodes`, `GrepFile`, `Clock`, and `Library`, which calls them; `Library_proofs` |
| for the proofs | `Recursion` (induction and recursion on sets and functions) |
| for TLC | `MCKernel`, `MCTerminal`, `MCPrograms`, `MCLibrary`, `MCSignals`, `MCScreen` and the `.cfg` files |

How they fit together. `Sessions` is the joint: the kernel is proved to implement
it, statement by statement, and the programs run on top of it, call by call
(`Programs` EXTENDS it and conjoins its actions). So
`Programs` need not repeat how a process is created or switched. `Terminal` meets
`Kernel` at the scheduler: a step of `read_term` needs the CPU, which `Kernel`
gives to every terminal again and again; no key changes what `Kernel` models
except Ctrl-C, which is `CtrlC` there. For `Programs`, `read_term` is a call that
returns the length of some line. `Signals` looks closely at one process whose
stub `Kernel` has as the single frame `back`; `Screen` looks at what the switches of
`Kernel` and the keys of `Terminal` do to video memory.

### Kernel

A process is its PCB slot `p`; slot `p` owns kernel stack `p` and user image `p`
(`KENEL_BOT-(p+1)*BLOCK`, `PROGRAM_First+p*PROGRAM_Size`), which is why
`get_current_pcb()`, a mask of `%esp`, is the variable `esp` here.

| variable | code |
|----------|------|
| `PCBs`, `parent_pcb`, `pending` | the bitmap; the PCB field; slots whose `signal_status` of a killing signal is ON |
| `schedule_pcb`, `cur_term`, `next_term`, `term_num` | the globals of `scheduling.c` |
| `page`, `esp0`, `esp` | the image `user_paging` mapped, the stack `tss.esp0` names, the stack `%esp` is in |
| `stk[p]` | the frames on kernel stack `p`, innermost first; empty when `p` is in user mode |
| `iflag` | EFLAGS.IF |
| `exeret`, `store_eax` | the two globals, as the slot that wrote them last |

A frame is `[at, ifl, irq, arg]`: the point in the kernel the frame is at, the
IF its `iret` will restore, whether an interrupt or exception pushed it (then
`signal_handler` runs before `iret`), and the one local variable the code keeps
there. Labels, in the order the code passes them:

* a call: `win` (inside it, preemptible once it has executed `sti`), `eax` (between
  the store and the load of `store_eax`), then user mode;
* `execute`: `find`, `create`, `enlist`, `map`, `enter`, then `wait` while the
  program runs and `haltret` when it has halted;
* `halt`: `halt`, `unmap`, `remove`, `resched`, `return`; `respawn` is the
  `execute("shell")` of a dying base shell and `stuck` its failure;
* an interrupt: `pit` (before `scheduling()` reads anything), `switch` (contexts
  saved, target chosen), `back` (before `signal_handler` and `iret`).

One action is one statement of the code, or a run of them between which nothing
can be observed: interrupts are taken between actions, when `iflag` is set.
Three things are abstracted. A status value is "the slot that halted"; the
conversion of 1 to 256 in `halt` is therefore not visible. The alarm counter
(uint8_t, so every 16th tick, not every 10000th) is a Boolean choice of `Tick`.
The names, contents and arguments of programs are left out: `SysExecute` is any
`execute` that finds an ELF file.

`Init` is the state after `kernel.c` has started the first shell: slot 0 in user
mode with IF clear. The shells of the other terminals are started by the first
ticks (`Launched` says they have been). `HaltReturn` is not enabled when no
`execute` waits in the parent: the machine would run on garbage, and
`ParentWaits` shows when that does not happen.

`Spec` takes an interrupt wherever IF is set, nested ones included. `Critical` are
the places where the records of who runs disagree: `execute`, `halt`, and
`scheduling()` once it has named the next terminal. Nothing in the code keeps
interrupts out of them: IF is set there in a kill that a key or a fault began, in
the calls of a shell started by such a kill (`execute` saves the flags it finds for
the new program), and in `scheduling()` after an alarm, whose `make_signal` ends
with `sti`. `Undisturbed` says of an execution that no interrupt comes there;
`UndisturbedSpec` are the executions that are, `Unsignalled` those without Ctrl-C,
fault or alarm.

### Sessions

`alive`, `front` (per terminal), `parent`, `turn`. Four actions: the turn passes
on, a terminal opens its shell, the process in front starts a program, the
program in front exits and its starter comes to the front. This is all that
`execute`, `halt` and `scheduling()` promise to a user who cannot see the kernel
half way through one of them. The mapping (`KernelRefines`): a process is alive
from the statement of `execute` that links it into `schedule_pcb` to the
statement of `halt` that unlinks it, so neither `create_PCB` setting the bit nor
`remove_PCB` clearing it is a visible step.

### Terminal

| variable | code |
|----------|------|
| `visible_term` | the global, and with it `terminal`, the structure keys go to |
| `buffer`, `buffer_count`, `key_read` | the fields of `terminal_t` |
| `cmd_history`, `cmd_history_idx`, `find_his_counter` | the ring of commands and its two indices |
| `reader[t]` | where the process of terminal `t` is in `read_term`: not in it, polling `key_read`, in the copy loop |
| `got[t]` | the reader's `buf[0..endline-1]` |
| `echo[t]` | what `putc_by_keyboard` has printed and erased since the prompt |
| `tracked[t]` | `echo` is followed: no Ctrl-L and no recalled Tab since the prompt (history variable) |

A key is one action, because its interrupt gate keeps IF clear: `TypeChar`,
`PressEnter`, `Backspace`, `TypeTab`, `Complete` (Tab on a line that begins with
one of the letters `simple_y_c_m` knows), `get_prev_cmd`, `get_next_cmd`,
`clear_term` (Ctrl-L and the colour keys, when they clear) and `change_term`.
`read_term` is four actions: everything before its `sti` is `ReadStart`, then
`ReadPoll`, one `ReadCopy` per character, `ReadReturn`; keys come between them.

Abstracted: an alphabet of a few characters; the words of completion are the
constant `Words`, by the first two characters of what is completed; `frame_sign`,
which alternates between two words, is a choice among them; scan codes and
modifiers only choose the key. A prompt, colours, cursor positions and line
wrapping are left out: `echo` is a row that never ends. Readers pass `nbytes` of
at least `BUF_SIZE`, as the shell does. Paths of `read_term` that return an error
at once change no state. `ErasedFrom` is the space at which the search of
completion stops, which may lie before the argument; when there is none the loop
leaves the buffer, and `Complete` is not enabled. `CompletionFindsSpace` says that
there is one: it holds of lines typed while a read waits, and fails with type-ahead
(section 5).

`TypeAhead` chooses between two environments. FALSE: keys are pressed while a
read waits for its line. TRUE: at any time, also between the prompt of one
command and the next and in the middle of the copy loop.

### LineEdit

`phase`, `line`, `past`, `result` per terminal, and four actions: a program
prompts, a key edits the line, Enter submits it, the program gets it. The mapping:
`line` is the buffer up to `buffer_count`, `past` the commands of the history,
`phase` follows `reader` and `key_read`.

### Rtc, Files, Programs

| variable | code |
|----------|------|
| `alive`, `front`, `parent`, `turn` | those of `Sessions` |
| `freq`, `interrupt`, `int_times` | the arrays and the counter of `rtc.c` |
| `file_array[p]` | the descriptors: operations table, inode, `file_position` |
| `dir_counter`, `exeret` | the globals |
| `data[p]` | what the last file or directory read put into the program's buffer, as positions in the file or numbers of entries |
| `mode[p]`, `eax[p]` | where the process is in a call that has executed `sti`, and the result on its way to `%eax` |
| `own[p]` | the result the call should give (history) |
| `st[p]` | the program, the next statement in it, and its locals |
| `typed`, `waited` | what is typed at the shells, chosen once; RTC interrupts since a read began (history) |

A program's action is what it makes of the last result together with its next
call. Programs run with IF clear, so a call is one step unless it executes `sti`:
terminal reads and writes and RTC reads go through `line` or `tick`, `done`
(`StoreEax` puts the result into `store_eax`) and `stored` (`LoadEax` takes it
out), and only there are the timer and the RTC taken and Ctrl-C acted upon. `store_eax` is
not a variable of its own: `Store` gives a result to everybody who is about to
load, which is what one global does. `execute` goes on in the starter from
`halted`, with `exeret` as it then is.

The programs are `ece391shell.c`, `cat`, `ls`, `grep`, `pingpong` and `syserr`,
every branch of them. Text is abstracted: a read gives positions, a directory
read the number of an entry, so `out` is what a program has printed as such
numbers. How many lines `grep` prints of a chunk is open here; which lines, is
`GrepFile`. Of `syserr` the tests are scripts of calls with the result they
expect; choice 0, all tests in turn, is left out.

### Signals

The user side of one process in enough detail for a handler to go wrong:
instructions that fault (`Load`, `Store`, `Divide`), the user stack as cells
(`mem`), `cpu` as the context `iret` restores, and the kernel's activations
(`frames`), each in its body or at its return, with IF. `sigtest.c` is a program of
this machine (`Sigtest`); `MCSignals` has a second one, whose handler faults.
`build_hwcontext` and `sigreturn` are translated as what they copy where.
`signal_handler` takes the lowest pending signal at the return of any activation,
also of one nested in the kernel, where a user handler cannot run and the signal
is dropped (`Dropped`). What other processes do meanwhile is `Elsewhere`. The
counter of ALARM is a `uint8_t`: the 10000 put into it is 16.

Simplified: `read` and `write` always succeed; delivering a signal is one step;
the handler of ALARM called in the kernel is one print; for an activation nested in
the kernel the word taken as the user's `%esp` is assumed not to be an address of
the user page. The stub of exception 17 (`exeception.S:443`) pushes another
frame than its handler pops, but the AM bit that enables it is never set.

### Screen and Views

`Screen` has the pages (the screen and one backing page per terminal), the two
mappings (`map` for the kernel, `umap` for programs), the cursor of each terminal
and the one on the screen. A call that prints is one step, since it prints with
IF clear. `scheduling`, `change_term`, `vidmap`, `clear_term` and the mouse set
mappings and cursors as the code does, `lines_moving_up` moves the cursor of the
visible terminal whoever scrolls, and the last column is never written. Colours,
the line with the clock, and what the first shells print at their start are left
out.

`Views` is the promise: a text and a place of the next character per terminal,
changed by what is written there and by nothing else, except that a scroll of a
hidden terminal may raise the place of the visible one to the start of a line
(`Raised`: `lines_moving_up` takes the visible terminal's cursor for the one that
scrolls). It has three flags, set by the mapping in `Screen`, for what the code does
not keep:

* `deaf`: a key pressed since the turn began has left the mapping at the visible
  terminal's page (`lib.c:281`); when a hidden program scrolls, it scrolls that
  page and not its own;
* `adrift`: the mouse has moved the hardware cursor, and `write_term` takes it
  for the terminal's (`terminal.c:216`): the place of the visible terminal is then
  open, and no other;
* `bare`: a program has called `vidmap` while hidden, which maps the screen
  itself (`page.c:116`), and it draws on what somebody else sees.

With any of the three set to FALSE in the mapping TLC finds a counterexample, so
none grants more than the code needs.

### Library

`Libc` (`memcpy` with its bytes, words and bytes again, `memset` and its wider forms,
`memmove`, the string functions of the kernel and of the programs, `itoa`,
`printf`), `Inodes` (`read_data` block by block), `GrepFile` (the buffer of `grep`,
what is kept of it between readings) and `Clock` (BCD, the century, the shift of
six hours) are operators. A behaviour of `Library` chooses a call and runs it;
the properties compare the answer with a definition that knows nothing of words,
blocks or buffers. An int has `DIGITS` hexadecimal digits. Every loop is a
function of the number of its turns, or of what is left to do, so that the proofs can
unfold it. `CallsAssumption` says which arguments each routine is meant for: the areas
lie in the memory, strings end, `strcpy` and `strncpy` do not overwrite what they
have yet to read, a file's blocks hold it, a file that `grep` searches has no NUL,
the clock's registers are BCD.

## 3. The runs

| run | instance | shows |
|-----|----------|-------|
| `kernel_main` | 2 terminals, 4 slots, both programs and the shell of terminal 1 may be killed, `UndisturbedSpec`; 1,526,358 states | chains of length 3, both programs on one terminal or one on each, a base shell that is killed and started again: `TypeOK`, `Installed`, `BaseForShells`, `SwitchTargetSaved`, `NoSlotLeak`, `PendingIsSaved`, `ChainsDisjoint`, `ParentWaits`, the refinement `ImplementsSessions`, and `IInv`, the invariant of the proofs |
| `kernel_live` | 2 terminals, 3 slots, the program and the shell of terminal 1 may be killed, `LiveSpec`; 119,695 states | the liveness of scheduling, halt and Ctrl-C: `EveryTerminalRuns`, `HaltCompletes`, `CtrlCDelivered` |
| `terminal_line` | 1 terminal, 6 bytes, 1 history entry, every key; 157,397 states | `PoliteInv`, `ScreenShowsLine`, `CompletionFindsSpace`, `ImplementsLineEdit` |
| `terminal_two` | 2 terminals, 4 bytes, Alt-F1/F2; 23,762 states | `ImplementsLineEdit` when keys go to one terminal and the other reads |
| `terminal_type_ahead` | 1 terminal, 4 bytes, keys at any time, `LiveSpec`; 63,540 states | `BufferInv`, `RoomForEnter`, `CopyEndsAtNul`, `EnterEndsRead` |
| `programs` | 2 terminals, 4 slots, 4 descriptors, four pairs of programs; about 1.3 million states | `StartersWait`, `StandardDescriptors`, `CatPrintsFile`, `DirectoryWhole`, `SyserrPasses`, `TickInTime` |
| `library` | 45,266 calls | `BytesPlaced`, `StringsHold`, `NumbersReadBack`, `FilesReadWhole`, `GrepPrintsMatches`, `ClockSixHoursBack` |
| `signals` | sigtest and a program with nested handlers, 12 words of user stack, 4 activations; 116,557 states | `HandlersReturn`, `SigtestVerdict`, `Resumes`, `FaultEnds` |
| `screen` | 2 terminals of 2 lines and 2 columns, keys, switches, mouse, a drawing program; about 140,000 states | `CursorsOnScreen`, `ImplementsViews` |
| `kernel_kill` | 2 terminals, 4 slots, programs may be killed, `Spec` | violation of `OwnImage`: after a kill interrupted by a tick the parent runs on the dead program's image |
| `terminal_enter_erased` | keys at any time | violation: Backspace after Enter, and the read returns a line without its Enter |
| `programs_results` | as `programs` | violation: a program gets the result of a call of another terminal's program |

Every property of a passing run has a mutant (the definitions marked "Mutant" in
the modules), a plausible slip of the code that breaks it.

### Bounds

`Kernel`. `NTERM`, `MAX_PCB` are 3 and 6 in the source. Two terminals are enough
for every interference between terminals: the second shell is started by a tick,
`next_term` wraps round, and Ctrl-C at the visible terminal hits a process that may or
may not be running. Two program slots give chains of three processes and
two terminals competing for the last slot; with none left `execute` fails. The
theorems hold for all values, three terminals and six slots among them. `MaxDepth` bounds the frames of one stack below
which an interrupt is still taken: 2 allows a call, an interrupt in it, and one
nested in that. `KillPids` names the slots whose processes Ctrl-C and faults may end:
in `kernel_main` and `kernel_live` programs and a base shell. `kernel_live` has one
program slot less, as TLC's check of liveness takes longer.

`Terminal`. Two bytes of a buffer are reserved, so 4 bytes hold two characters
and 6 bytes four, enough for a command letter, the space, and a word of two
letters that completion writes; a line of one or two characters already reaches
both limits of `add_to_buffer`. One history entry makes every save a wrap of the
ring. A second terminal needs no second alphabet.

`Programs`. One program per terminal and the shells under them: 4 slots, which
also lets a shell run out of them when it is started from a shell. `MAX_FD` = 4
leaves two descriptors to fill. A file of three bytes read two at a time has a
full, a partial and an empty reading; `RATE` = 2 with frequencies 1 and 2 gives a
terminal whose ticks are rarer than interrupts. `Uses` pairs what can disturb each
other: `ls` with `syserr` (which opens directories), `cat` and `ls` with `grep` (both
read the directory and the file), two `pingpong`s (one RTC), a shell in a shell with
a `cat` that fails. `Selections` leaves out the test of `syserr` that
reads descriptor 1 and writes descriptor 0 (choice 7): it fails by the race that
`programs_results` shows. Any choice above 8 is as 9. A line read is one character long; a
negative length would be the result `terminal_enter_erased` shows.

`Signals`. 12 words hold three nested frames of four words. Four activations:
a fault, and interrupts nested up to three deep in its stub, more than there are kinds of signals
to take away.

`Screen`. Two lines and two columns make every character the last of a line and every newline a
scroll; strings of up to two characters let one call write, wrap and scroll. `Moves`
go right, down, and diagonally back, past each edge.

`Library`. Memories of 12 bytes hold every alignment of source and
destination to a 4-byte word, overlapping by every distance up to 5, and lengths
up to 7 have bytes before, a word, and bytes after. Files of
up to 10 bytes in blocks of 3 (4096 in the source) have first, middle and last blocks,
read with every length; `grep` gets every file of up to 8 bytes over two letters
and newline with a buffer of 4; `DIGITS` = 2 makes every number, the most negative
included, one of 256. `GrepPrintsMatches` supposes that lines fit into the buffer with
their newline and that the byte after the buffer, which the program never sets, is
not a newline. `ClockSixHoursBack` leaves nothing out: it says at exactly which times
the clock is wrong (`Misread`). The run has every hour of days in January, March, May
and December, which the hours before belong to another year, to February, and to
months of thirty and thirty-one days.

### Fairness

`Terminal`: `WF(ReadStep(t))`: a process in `read_term` gets the CPU, which is
`EveryTerminalRuns` of `Kernel`; `read_term` has executed `sti`, so the tick that
takes the CPU away and brings it back is possible. Nobody is assumed to type, nor
any program to read.

`Kernel`: `WF(KernelStep)`: the CPU executes. `SF(~Critical /\ Tick(FALSE))`: the
timer chip's request stays pending in the interrupt controller, so a tick that can be
taken again and again is taken, and fifteen of sixteen raise no alarm.
`ProgramsBlock`, `SF(SysCall(TRUE))`, is *not* something the kernel
ensures: programs run with IF clear, so a program that makes no terminal or clock
call keeps the CPU. The liveness properties are about programs that do, in
executions that are `Undisturbed`.

`Signals`: `WF(Kernel)`: the CPU executes the stubs, and a process switched from
is switched back to (`EveryTerminalRuns` again). Nothing is assumed of the program's own
steps, and nothing of when an interrupt comes; that `sigtest` ever gets past its
store is not claimed.

`Library` stops after its one call and says so in its cfg; so does `kernel_kill`,
where a machine that runs on garbage has no next step. Everywhere else
deadlock is checked; the one action that stands for having ended is `Ended` of
`Signals`, after the program has ended.

## 4. The proofs

The theorems about `Kernel` have the hypothesis `Undisturbed`: no interrupt comes
while the CPU is in `execute`, `halt`, or `scheduling()` past the choice of the next
terminal. The code does not ensure it, and without it the properties fail: a tick in
a kill breaks `OwnImage` (`kernel_kill`), and after Ctrl-C or a fault at a base shell
`SwitchTargetSaved` and `BaseForShells` fail (section 5 has the traces). It is a
condition on when interrupts come and on nothing else. What the theorems cover all
the same: Ctrl-C and faults at any process, the base shells included; the shells
started in their place, which run with IF set; alarms; interrupts nested in
handlers and in system calls everywhere else. And it has to be assumed only of
executions with signals: `UnsignalledUndisturbed` proves that as long as there is no
Ctrl-C, no fault and no alarm, IF is clear in all of these places, so that
`Spec /\ Unsignalled => Undisturbed`. (An alarm is raised by every sixteenth tick; the
theorem says that the code between is safe by itself, and that it is `make_signal`
that opens it.) For every number of terminals, slots and frames:

* `Kernel_proofs`: `Spec /\ Undisturbed => []IInv` (`Inductive`), and from it
  `TypeOK`, `Installed`, `ChainsDisjoint`, `NoSlotLeak`, `BaseForShells`,
  `SwitchTargetSaved`, `ParentWaits` and `PendingIsSaved`.
* `KernelImplementsSessions`, in the same module:
  `Spec /\ Undisturbed => ImplementsSessions`. That `Sessions!Spec => []StartersWait`
  is `StartersWaitCorrect` of `Programs_proofs`.

For `Terminal`, for every number of terminals, buffer size of at least 3, length
of history, alphabet and set of words that fit:

* `Terminal_proofs`, with keys at any time: `Spec => []BufferInv`
  (`BufferInductive`, type correctness included), `Spec => []RoomForEnter`
  (`EnterFits`) and `Spec => []CopyEndsAtNul` (`CopyStops`). `BufferInv` is
  inductive as it stands. What makes `RoomForEnter` true is not the test in
  `add_to_buffer` alone: the byte before the last holds NUL or Enter after
  recalling and completing as well, and an Enter in the buffer means that
  `key_read` is set. `strlen` is a CHOOSE; that it exists is proved by the
  well-foundedness of the naturals (`StrlenDef`).
* `TerminalRefines_proofs`, under `~TypeAhead` (a key is pressed while a read waits
  for its line): `Spec => []PoliteInv` (`PoliteInductive`), and from it
  `CompletionFindsSpace` (`CompletionInside`), `Spec => ImplementsLineEdit`
  (`LineDiscipline`), `ScreenShowsLine` (`ScreenShown`) and `EndsWithEnter`
  (`LinesEndWithEnter`), which `terminal_enter_erased` shows to fail without the
  hypothesis. `PoliteInv` says that there is only NUL above `buffer_count`, that
  Enter is the last character of a line being read and of no other, and that `got`
  is always a beginning of the buffer. `CompletionFindsSpace` fails without the
  hypothesis too (section 5). `ScreenShown` is about a line until the first Ctrl-L or
  recalled Tab since the prompt (`tracked`). For the screen `ScreenInv` adds how many
  cells a line takes (`Columns`, by recursion on the line, unfolded one character
  at a time) and that a line which Tab completes has no Tab in it.

For `Programs`, for every number of terminals, slots and descriptors, every
directory whose names differ and whose only directory is "." (`NamesAssumption`:
`createfs` makes the image from the files of one host directory), every `RATE` that is a power of two and
every choice of what is typed, `Programs_proofs` has

* `[]StartersWait` (`StartersWaitInPrograms`). That `Programs` takes only steps of
  `Sessions` is how it is built (its actions conjoin those of `Sessions`), and a lemma.
* `[]StandardDescriptors` (`DescriptorsStandard`), by `DescriptorsInv`, which adds
  that every `file_array[p]` is a function on the descriptors; its step is one
  lemma per call, by whether the call can assign an entry and which, and then one
  case per program.
* `[]TickInTime` (`TicksInTime`). The invariant, `ClockInv`, is that a terminal has
  waited for no more interrupts than `int_times` is past a multiple of its divider;
  it needs that the divider divides `RATE`, or the wrap of `int_times` would cost a
  tick.
* `[]CatPrintsFile` (`CatPrintsItsFile`) and `[]DirectoryWhole`
  (`DirectoryReadWhole`). `CatInv` and `DirectoryInv` say for every statement of
  `cat`, `ls` and `grep` what has been printed, which descriptor is open where, and
  that the result is the program's own. They rest on one lemma that follows no
  program (`ProcessesNext`): in a step every process but the one in front keeps its
  locals, descriptors, data and, in user mode, result, unless it is started or is
  a shell that `execute` returns to.
* `[]SyserrPasses` (`SyserrCorrect`), for an image without `helloo` and `shel`
  (`Present`: those names must fail to open, and "." must not) and for every choice
  of tests but 7, which fails by the race that `programs_results` shows (`Chosen`).
  The run meets both hypotheses. `SyserrInv` says which descriptors are open after
  each call of the test that opens until it fails (`Filling`), and that in the
  others none is and the last call whose result counts returned -1 (`Refusing`). It
  needs that the calls whose result counts leave IF clear: `OwnResult`, which fails,
  is not among its hypotheses.

For `Signals`, for every set of programs, stack and nesting:

* `HandlersReturnHome` (`HandlersReturn`) and `LastInterruptedFirst` (`Resumes`),
  for programs that are `WellFormed` and behaviours with `StackRoom`. `WellFormed`
  is what a compiler makes of handlers that are functions: a handler is entered at
  its first instruction and left by its return. It is proved of `sigtest`
  (`SigtestCompiled`). `StackRoom` says that the stack pointer stays above the end of
  the stack: the code checks nothing there, and unlimited nesting of handlers writes
  below the program's page. `StackInv` describes the user stack as the frames of the
  handlers that are active, each holding the context it will resume.
* `SigtestCorrect` (`SigtestVerdict`), for every stack of at least five words:
  `SigtestRun` adds which statement of `sigtest` can fault and which handlers are
  set by then.

For `Screen`, for every number of terminals, screen size of at least two columns,
strings and movements of the mouse, `Screen_proofs` has `Spec => []MemoryInv`
(`MemoryInductive`: the pages, the mappings, every cursor), hence `CursorsOnScreen`
(`CursorsStayOnScreen`), and `Spec => ImplementsViews` (`TextsKept`): every step maps
to a step of `Views` or changes no text. A string is printed by a function on
its length (`Written`), of which the proof uses one step and the induction over the
naturals (`InductionTo`).

For `Library`, for every memory, file, number and time that `CallsAssumption` allows,
every size of block and every width of an int, `Library_proofs` has

* `[]BytesPlaced` (`MemoryPlaced`): a loop of `n` moves is one move of `n` units
  (`RepMoves`, `RepBackMoves`) where the areas allow it, and the bytes before, the
  words and the bytes after join to one move (`MemcpyMoves`).
* `[]StringsHold` (`StringsKept`): what the comparisons say of the first difference
  or NUL is what equality of the strings, cut at `n`, says.
* `[]FilesReadWhole` (`FilesWhole`): the parts of blocks that a `read_data` takes are
  one piece of the blocks laid end to end (`ReadData`), and by induction on what is
  left of the file the pieces join (`ReadsOn`).
* `[]NumbersReadBack` (`NumbersRead`): by induction on the number, the digits that
  `itoa` takes off, once reversed, read back as the number (`LowReadsBack`) and are
  no more than fit (`LowIsShort`); leading zeros change nothing (`ZerosShown`).
* `[]GrepPrintsMatches` (`GrepPrints`), for every size of the buffer: between two
  turns of the loop over the lines the buffer holds the file from the start of the
  next line on and what has been printed are the matches before it (`Searching`);
  between two readings it holds the beginning of a line, or the last line has been
  printed (`Left`). A turn keeps that (`SearchLine`), and so does a reading
  (`Reading`); each reading but the last moves on in the file (`ReadingDone`).
* `[]ClockSixHoursBack` (`ClockShowsChicago`), for every BCD time and current year.

The induction is over the naturals and stated for sets (`InductionTo`,
`StrongInduction` of `Recursion`), and that a recursive function exists is
`RecursionExists` there, for a step that takes each argument to a less deep one.

None of the properties of `Kernel` is inductive. `IInv` adds, by name:

* `Tree`: the links `schedule_pcb` and `parent_pcb` form one chain per terminal
  over the live slots, where a slot is live from being linked to being unlinked;
* `Focus`: for each label of the innermost frame, what has been done and what is
  still to do (which of `page`, `esp0`, `schedule_pcb`, the bitmap are already
  those of the next process);
* `Saved`, `Waits`: every terminal's process that is not on the CPU has a saved
  context, every starter is inside the `execute` of its program;
* `Stacks`: only interrupt frames lie on other frames, they restore IF to 1, they
  hit no critical section, and nobody waits for a base shell;
* `Signals`: a pending kill belongs to a stack that will run `signal_handler`.

`Unsignalled` needs `Calm` besides: IF is clear in user mode and from the entry of
`execute`, `halt` and `pit_handler` on, which is what a signal ends.

The step proof has one lemma per action and, in it, one step per conjunct that
the action can disturb.

Only model-checked: the liveness properties `EveryTerminalRuns`, `HaltCompletes`,
`CtrlCDelivered`, `EnterEndsRead` and `FaultEnds`, as TLAPS has no backend for
fairness and ENABLED here.

## 5. Findings

Three of the runs are expected to find a violation; PROJECT.json quotes the
comment each contradicts:

* `kernel_kill`: a halt that `kill_task` starts runs with IF set, and a tick in the
  middle of it leaves the dead program's image mapped under the parent;
* `terminal_enter_erased`: Enter taken away by Backspace before the reader runs;
* `programs_results`: `store_eax`, and in the same way `exeret`, are one each for
  three terminals, and a call that executed `sti` can be preempted between their
  store and their load.

Met while modelling, and not runs of their own. The first two TLC finds when
`KernelMain.cfg` is given `SPECIFICATION Spec`, the third with keys at any time, a buffer
of 8 bytes and the argument of a command at byte 4:

* Ctrl-C or a fault ends a base shell; the `execute("shell")` in its `halt` saves the
  flags of a handler that runs with IF set, so the new shell runs with IF set and so
  do its calls. A tick in its `execute`, after the program is linked into
  `schedule_pcb` (`system_calls.c:361`), saves the context on the shell's stack, and
  the scheduler later resumes the program's, which it never saved: `SwitchTargetSaved`
  fails;
* `halt` gives the slot of a base shell back (`system_calls.c:161`) before it takes
  one for the next. A tick in between, and an `execute` on another terminal gets the
  slot, where `create_PCB` and `halt` take its program for a base shell:
  `BaseForShells` fails;
* with `ca`, Enter, a space and a letter typed before the prompt, the next `read_term`
  saves the whole buffer in the history, the Enter as a NUL. Up then brings it back
  with a `buffer_count` of 2, Tab takes the letter at byte 4 for the argument of `cat`
  (`keyboard.c:170`), and the search for a space, from byte 2 down, finds none:
  `CompletionFindsSpace` fails, and the loop leaves the buffer;
* one `dir_counter` serves all open directories (`filesystem.c:249`), so an `ls` misses
  the entries that another terminal's program has read since; `DirectoryWhole` is
  about directories that nobody else reads;
* six o'clock in the morning becomes midnight of the day before, the first of any
  month the 30th of the one before, and January month 0 (`rtc.c:172`): the times
  `Misread` names;
* after Up and Down, Up skips the newest command (`find_his_counter`);
* once the ring of commands has wrapped to index 0, `get_prev_cmd` stops at 0
  instead of going round, and Up shows the oldest command;
* a Tab brought back by Up is printed as one cell and erased as four;
* `rtc_write` accepts frequency 0, by which `handler_rtc` divides (`rtc.c:84`);
* `grep` looks at the byte behind what it has read, which it has never set: if the
  stack held a newline there, a line that two readings share is taken for two
  (`ece391grep.c:34`);
* the three limits of the screen that `Views` names.

## 6. Plan

Done: every module of section 2, with theorems for every safety property of a
passing run. What is left:

1. The interrupt controller: end of interrupt when `make_signal` sets IF before
   `send_eoi`.

## 7. Not modelled

* The command-line parser and the built-in commands of `execute`, and the copies
  of arguments in the PCB: `Programs` passes a file name as a value.
* The interrupt controller, the speaker and other port I/O; the registers of the
  clock chip are external. The boot code, the cover picture and the descriptor
  tables run once before interrupts are on; `Init` of `Kernel` is the state they end in.
* Colours and attributes, the clock on the screen, and the texts of messages.
* `counter`, `hello`, `testprint` make the calls of `cat` and `shell` and no
  others; `emulate` is for the Linux host; of `fish` only that it draws.
* The kernel's tests.

Hazards that no property covers: a tick nested in the `scheduling()` of an alarm
tick (`scheduling.c:72`), arguments of a slot taken again during a kill
(`system_calls.c:124`), programs that keep the CPU because they run with IF
clear (`system_calls.c:388`), a read shorter than the line (`terminal.c:189`), and
frequency 0 (`rtc.c:84`). PROJECT.json says why at each.

Data races inside one C statement do not exist on this one-CPU machine.
