------------------------------ MODULE MCSignals ------------------------------
(***************************************************************************)
(* sigtest, and a program whose handler for SEGFAULT divides by zero and   *)
(* has a handler for that too, which makes the divisor good: one handler   *)
(* interrupts the other.                                                   *)
(***************************************************************************)
EXTENDS Signals

Nested == <<Install(SEGFAULT, 6), Install(DIV_ZERO, 12), Op("load"), Op("store"), Op("halt"),
            Op("enter"), Op("load"), Op("divide"), Op("write"), Op("fix"), Op("return"),
            Op("enter"), Op("fix"), Op("return")>>

MCCodes == {Sigtest, Nested}
=============================================================================
