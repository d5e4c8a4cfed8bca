-------------------------------- MODULE Files --------------------------------
(***************************************************************************)
(* The system calls on descriptors: open, close, read, write, getargs and  *)
(* vidmap of system_calls.c over filesystem.c, rtc.c and terminal.c.       *)
(*                                                                         *)
(* Programs run with IF clear, so a call is one step, unless it executes   *)
(* sti: a terminal write or read and an RTC read.  Those stay in the       *)
(* kernel (mode) until their result has gone through store_eax, and        *)
(* interrupts are taken meanwhile.                                         *)
(***************************************************************************)
EXTENDS Rtc, Sequences, FiniteSets

CONSTANTS MAX_FD,      \* descriptors of a process; 8
          LineLengths, \* what a terminal read may return: -1 (Backspace took
                       \* the Enter away), 0 (an empty line) or more
          Directory    \* the entries of the boot block: name, type, length

ASSUME FilesAssumption ==
  /\ MAX_FD \in Nat \ 0..2
  /\ Directory \in Seq([name : STRING, type : {"rtc", "dir", "file"}, size : Nat])
(* The image is made of the files of one directory: no two entries have    *)
(* the same name, and the directory is the entry ".".                      *)
ASSUME NamesAssumption ==
  /\ \A i, j \in DOMAIN Directory : Directory[i].name = Directory[j].name => i = j
  /\ \A i \in DOMAIN Directory : Directory[i].name = "." <=> Directory[i].type = "dir"

VARIABLES file_array,   \* PCB field: the descriptors of each process
          dir_counter,  \* global: the next entry dir_read returns
          data,         \* what the last file or directory read returned
          mode,         \* "user", or where in a call with IF set
          eax,          \* the result; in mode "stored" it is the global
                        \* store_eax, which all processes share
          own           \* the result the process should get

files == <<file_array, dir_counter, data>>
calls == <<mode, eax, own>>

Fds == 0..(MAX_FD - 1)
Unused   == [ops |-> "none", inode |-> 0, pos |-> 0]
Terminal == [ops |-> "term", inode |-> 0, pos |-> 0]

(* create_PCB                                                              *)
NewFiles == [fd \in Fds |-> IF fd \in {0, 1} THEN Terminal ELSE Unused]

FilesInit ==
  /\ file_array = [p \in Procs |-> NewFiles]
  /\ dir_counter = 0
  /\ data = [p \in Procs |-> <<>>]
  /\ mode = [p \in Procs |-> "user"]
  /\ eax = [p \in Procs |-> 0]
  /\ own = [p \in Procs |-> 0]

(* link_handler_sysc leaves the result in store_eax, and whoever is about  *)
(* to load store_eax will find it there.                                   *)
Store(p, v) == eax' = [q \in Procs |-> IF q = p \/ mode[q] = "stored" THEN v ELSE eax[q]]

(* A call that leaves IF clear: nothing comes between store_eax and eax.   *)
Return(p, v) == Store(p, v) /\ own' = [own EXCEPT ![p] = v] /\ UNCHANGED mode

(* A call that has executed sti: it waits for a line or a tick, or is done.*)
Stay(p, m, v) ==
  /\ eax' = [eax EXCEPT ![p] = v]
  /\ own' = [own EXCEPT ![p] = v]
  /\ mode' = [mode EXCEPT ![p] = m]

Bad(p, fd) == fd \notin Fds \/ file_array[p][fd].ops = "none"

Named(name) == {i \in DOMAIN Directory : Directory[i].name = name}
Lowest(S)   == CHOOSE i \in S : \A j \in S : i <= j
FreeFds(p)  == {fd \in 2..(MAX_FD - 1) : file_array[p][fd].ops = "none"}

(* The name "" is in no directory.  What ops->open returns is ignored.     *)
open(p, name) ==
  IF Named(name) = {} \/ FreeFds(p) = {}
  THEN Return(p, -1) /\ UNCHANGED <<files, rtc>>
  ELSE LET i == Lowest(Named(name))  d == Directory[i] IN
       \E fd \in FreeFds(p) :
       /\ \A g \in FreeFds(p) : fd <= g
       /\ file_array' = [file_array EXCEPT ![p][fd] = [ops |-> d.type, inode |-> i, pos |-> 0]]
       /\ Return(p, fd)
       /\ IF d.type = "rtc" THEN rtc_open(turn) ELSE UNCHANGED rtc
       /\ UNCHANGED <<dir_counter, data>>

(* Mutant: stdin and stdout can be closed.                                 *)
close_any(p, fd) ==
  /\ IF Bad(p, fd)
     THEN Return(p, -1) /\ UNCHANGED file_array
     ELSE Return(p, 0) /\ file_array' = [file_array EXCEPT ![p][fd] = Unused]
  /\ UNCHANGED <<dir_counter, data, rtc>>

close(p, fd) ==
  /\ IF Bad(p, fd) \/ fd \in {0, 1}
     THEN Return(p, -1) /\ UNCHANGED file_array
     ELSE Return(p, 0) /\ file_array' = [file_array EXCEPT ![p][fd] = Unused]
  /\ UNCHANGED <<dir_counter, data, rtc>>

(* read_term: fd 1 is an error, after sti.                                 *)
read_term(p, fd) ==
  /\ IF fd = 1 THEN Stay(p, "done", -1) ELSE Stay(p, "line", 0)
  /\ UNCHANGED <<files, rtc>>

(* Mutant: file_position does not move.                                    *)
file_read_again(p, fd, nbytes) ==
  LET f == file_array[p][fd]
      left == Directory[f.inode].size - f.pos
      n == IF nbytes < left THEN nbytes ELSE IF left > 0 THEN left ELSE 0 IN
  /\ data' = [data EXCEPT ![p] = [i \in 1..n |-> f.pos + i]]
  /\ Return(p, n)
  /\ UNCHANGED <<file_array, dir_counter, rtc>>

(* read_data copies the bytes from the position on, here their numbers;    *)
(* read then moves the position.                                           *)
file_read(p, fd, nbytes) ==
  LET f == file_array[p][fd]
      left == Directory[f.inode].size - f.pos
      n == IF nbytes < left THEN nbytes ELSE IF left > 0 THEN left ELSE 0 IN
  /\ data' = [data EXCEPT ![p] = [i \in 1..n |-> f.pos + i]]
  /\ file_array' = [file_array EXCEPT ![p][fd].pos = @ + n]
  /\ Return(p, n)
  /\ UNCHANGED <<dir_counter, rtc>>

(* Mutant: the last entry is taken for the end.                            *)
dir_read_short(p) ==
  /\ IF dir_counter < Len(Directory)
     THEN /\ data' = [data EXCEPT ![p] = <<dir_counter + 1>>]
          /\ dir_counter' = (dir_counter + 1) % Len(Directory)
          /\ Return(p, IF dir_counter' = 0 THEN 0 ELSE 1)
     ELSE dir_counter' = 0 /\ Return(p, 0) /\ UNCHANGED data
  /\ UNCHANGED <<file_array, rtc>>

(* One counter for all descriptors of all processes; open leaves it alone. *)
dir_read(p) ==
  /\ IF dir_counter < Len(Directory)
     THEN /\ data' = [data EXCEPT ![p] = <<dir_counter + 1>>]
          /\ dir_counter' = dir_counter + 1
          /\ Return(p, 1)
     ELSE dir_counter' = 0 /\ Return(p, 0) /\ UNCHANGED data
  /\ UNCHANGED <<file_array, rtc>>

read(p, fd, nbytes) ==
  IF Bad(p, fd) THEN Return(p, -1) /\ UNCHANGED <<files, rtc>>
  ELSE CASE file_array[p][fd].ops = "term" -> read_term(p, fd)
         [] file_array[p][fd].ops = "rtc"  -> Stay(p, "tick", 0) /\ UNCHANGED <<files, rtc>>
         [] file_array[p][fd].ops = "dir"  -> dir_read(p)
         [] OTHER -> file_read(p, fd, nbytes)

(* write_term returns one less than it prints.                             *)
write_term(p, fd, nbytes) ==
  IF fd = 0 THEN Return(p, -1) ELSE Stay(p, "done", nbytes - 1)

(* value: what an RTC write finds in the buffer                            *)
write(p, fd, nbytes, value) ==
  /\ IF Bad(p, fd) THEN Return(p, -1) /\ UNCHANGED rtc
     ELSE CASE file_array[p][fd].ops = "term" -> write_term(p, fd, nbytes) /\ UNCHANGED rtc
            [] file_array[p][fd].ops = "rtc"  ->
                 /\ Return(p, IF Accepted(value, nbytes) THEN 0 ELSE -1)
                 /\ rtc_write(turn, value, nbytes)
            [] OTHER -> Return(p, -1) /\ UNCHANGED rtc      \* dir_write, file_write
  /\ UNCHANGED files

(* The buffer gets the argument, whole: it is shorter than the buffers.    *)
getargs(p, args) ==
  Return(p, IF args = "" THEN -1 ELSE 0) /\ UNCHANGED <<files, rtc>>

(* Mutant: the address is not looked at.                                   *)
vidmap_any(p, inside) ==
  Return(p, 0) /\ UNCHANGED <<files, rtc>>

(* NULL, or an address outside the program                                 *)
vidmap(p, inside) ==
  Return(p, IF inside THEN 0 ELSE -1) /\ UNCHANGED <<files, rtc>>

(* fail_sysc                                                               *)
NoSuchCall(p) == Return(p, -1) /\ UNCHANGED <<files, rtc>>

-----------------------------------------------------------------------------
(* The rest of a call with IF set, whenever its process has the CPU.       *)

LineRead(p) ==
  /\ mode[p] = "line"
  /\ \E n \in LineLengths : Stay(p, "done", n)
  /\ UNCHANGED <<files, rtc>>

TickRead(p) ==
  /\ mode[p] = "tick"
  /\ rtc_read(turn)
  /\ Stay(p, "done", 0)
  /\ UNCHANGED files

StoreEax(p) ==
  /\ mode[p] = "done"
  /\ Store(p, eax[p])
  /\ mode' = [mode EXCEPT ![p] = "stored"]
  /\ UNCHANGED <<own, files, rtc>>

LoadEax(p) ==
  /\ mode[p] = "stored"
  /\ mode' = [mode EXCEPT ![p] = "user"]
  /\ UNCHANGED <<eax, own, files, rtc>>
=============================================================================
