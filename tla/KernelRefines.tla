---------------------------- MODULE KernelRefines ----------------------------
(***************************************************************************)
(* Kernel implements Sessions: a process begins when execute links it (not *)
(* when create_PCB takes its slot) and ends when halt unlinks it (not when *)
(* remove_PCB frees the slot).                                             *)
(***************************************************************************)
EXTENDS KernelInv

Starter == [p \in Live \ Base |-> parent_pcb[p]]

S == INSTANCE Sessions WITH Procs <- Slots, None <- NULL, alive <- Live,
                            front <- schedule_pcb, parent <- Starter, turn <- cur_term

(* Every step of the kernel is one step of the sessions or none: half done *)
(* calls of execute, halt and scheduling() cannot be told apart from       *)
(* outside.                                                                *)
ImplementsSessions == S!Spec
=============================================================================
