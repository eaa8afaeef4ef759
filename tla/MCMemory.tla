------------------------------- MODULE MCMemory -------------------------------
(* Small instances of Memory for TLC. *)
EXTENDS Memory

\* Memory with n pages for the pools and a rest that is no page.
Pages(n) == used_mem + n * PG_SIZE + 100

\* With two processes, each with three pages of bitmap, main() needs eleven
\* kernel pages, and the processes up to four for page tables.  From
\* too few for the TCBs, for the second bitmap (two pages are left, of which
\* the page directory still gets one) or for the last page directory, over too
\* few for the page tables, and 13 user pages for two processes, to enough.
MCMemSize == {Pages(n) : n \in {4, 18, 20, 23, 26, 30}}

MCPgCnt == {3, 6}
=============================================================================
