------------------------------- MODULE MCInput --------------------------------
(* Small instances of Input for TLC. *)
EXTENDS Input

CONSTANTS c1, k1

\* 'a' and left shift: make and break codes.
MCScanByte == {\h1E, \h9E, \h2A, \hAA}
MCByte     == {<<\h1E, FALSE>>, <<\h1E, TRUE>>, CHAR_INVISIBLE}

\* 'a' only, for the runs in which the order of characters does not matter.
MCScanByteOne == {\h1E, \h9E}

OneReader == {idle, c1, k1}
NoReader  == {idle, k1}
=============================================================================
