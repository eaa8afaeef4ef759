----------------------------- MODULE MCReadyQueue -----------------------------
(* A small instance of ReadyQueue for TLC. *)
EXTENDS ReadyQueue

CONSTANTS t1, t2

MCThread == {idle, t1, t2}
=============================================================================
