------------------------------- MODULE MCDevices ------------------------------
(* Small instances of Typing and of Screen for TLC.  The decoder and the     *)
(* screen share nothing, so they run one after the other: one moves while    *)
(* the other is as at first.  The typist may stop.                           *)
EXTENDS Typing, Screen

\* 'a', keypad ENTER, cursor up, both ctrl and shift keys, right alt, caps lock.
MCKey == {\h1E, \hE01C, \hE048, CTRL_LEFT_MAKE, CTRL_RIGHT_MAKE,
          SHIFT_LEFT_MAKE, SHIFT_RIGHT_MAKE, ALT_RIGHT_MAKE, CAPS_LOCK_MAKE}

MC_NL == 10
MC_BS == 8
MC_BLANK == 32

\* No digit but "0", and eight digits with the step from "9" to "A" (TLC has
\* no larger first digit).
MCNum == {0, \h7FFFFF9A}

\* Newlines come from the handler.
MCText == {<<BS>>}

MCInit == TypingInit /\ Init

MCNext ==
  \/ Init /\ TypingNext /\ UNCHANGED vars
  \/ TypingInit /\ Next /\ UNCHANGED typingVars
  \/ wire = << >> /\ events # << >> /\ UNCHANGED <<typingVars, vars>>

MCSpec == MCInit /\ [][MCNext]_<<typingVars, vars>>
=============================================================================
