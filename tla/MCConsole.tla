------------------------------ MODULE MCConsole -------------------------------
(* Small instances of Console for TLC. *)
EXTENDS Console

CONSTANTS k1, k2, p1

MCThread  == {idle, k1, k2, p1}
MCKThread == {k1, k2}
MCProcess == {p1}

\* One kernel thread, which with the idle thread makes two that print.
MCThreadLive  == {idle, k1, p1}
MCKThreadLive == {k1}
=============================================================================
