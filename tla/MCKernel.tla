------------------------------ MODULE MCKernel ------------------------------
(* Kernel for TLC: the instances, small numbers of terminals and slots, are *)
(* in the Kernel*.cfg files.                                               *)
EXTENDS KernelRefines
=============================================================================
