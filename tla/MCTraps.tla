------------------------------- MODULE MCTraps --------------------------------
(* A small instance of Traps for TLC. *)
EXTENDS Traps

\* The vectors the controllers had at power-up and have after pic_init, one
\* behind the end of intr_entry_table, and the system call.
MCVector == (8 .. 15) \cup (\h20 .. \h30) \cup {\h80}

\* Timer and keyboard; a masked line; one of the slave.
MCLine == {0, 1, 3, 12}

\* The image base is 0xc0001500; TLC's integers end at 2^31 - 1.
MC_ENTRY_BASE == \h40001500
MC_TSS_ADDR   == \h400079C0
MC_WILD       == \h00F0F0F0
=============================================================================
