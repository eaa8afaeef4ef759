------------------------------ MODULE MCKernel -------------------------------
(* Small instances of Kernel for TLC. *)
EXTENDS Kernel

CONSTANTS a, b

MCThread == {idle, a, b}
=============================================================================
