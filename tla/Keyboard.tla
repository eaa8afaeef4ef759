------------------------------- MODULE Keyboard -------------------------------
(***************************************************************************)
(* The decoder of device/keyboard.c: from the bytes the keyboard sends to  *)
(* the state of the modifier keys and the characters put into kbd_buf.     *)
(* The static variables of the file are the record k; every operator maps  *)
(* their values before the call to those after it.                         *)
(*                                                                         *)
(* A character is named by its place in keymap, <<index, shift>>, except   *)
(* that places the table fills with one character have one name.  (The two *)
(* entries '*' of the table keep different names.)                         *)
(***************************************************************************)
EXTENDS Naturals

UINT8 == 0 .. 255

KEYMAP_MAX_INDEX == 58

SHIFT_LEFT_MAKE  == \h2A
SHIFT_RIGHT_MAKE == \h36
ALT_LEFT_MAKE    == \h38
ALT_RIGHT_MAKE   == \hE038
CTRL_LEFT_MAKE   == \h1D
CTRL_RIGHT_MAKE  == \hE01D
CAPS_LOCK_MAKE   == \h3A

\* Indexes of keymap with CHAR_INVISIBLE in both columns, and with any other
\* character in both columns: ESC, BACKSPACE, TAB, ENTER, '*' and ' '.
Invisible == {0, \h1D, \h2A, \h36, \h38, \h3A}
OneCase   == {\h01, \h0E, \h0F, \h1C, \h37, \h39}

CHAR_INVISIBLE == <<0, FALSE>>
NO_CHAR        == <<>>       \* ioq_putchar is not called

keymap(index, shift) ==
  IF index \in Invisible THEN CHAR_INVISIBLE
  ELSE <<index, shift /\ index \notin OneCase>>

Char == {keymap(i, b) : i \in 0 .. KEYMAP_MAX_INDEX, b \in BOOLEAN}

KeyboardState ==
  [ext_scan_code    : BOOLEAN,
   ctrl_status      : BOOLEAN,
   shift_status     : BOOLEAN,
   alt_status       : BOOLEAN,
   caps_lock_status : BOOLEAN]

keyboard_init ==
  [ext_scan_code    |-> FALSE,
   ctrl_status      |-> FALSE,
   shift_status     |-> FALSE,
   alt_status       |-> FALSE,
   caps_lock_status |-> FALSE]

break_code(scan_code) == (scan_code \div 128) % 2 = 1

break_code2make_code(scan_code) ==
  IF break_code(scan_code) THEN scan_code - 128 ELSE scan_code

\* The code returned for a byte; the byte after 0xe0 is the low half of an
\* extended code.
scan_code_get(k, byte) ==
  [code |-> IF k.ext_scan_code THEN \hE000 + byte ELSE byte,
   k    |-> [k EXCEPT !.ext_scan_code = ~@ /\ byte = \hE0]]

\* Mutant: the status of a modifier follows its left key only.
ctrl_key_proc_left_only(k, scan_code) ==
  LET status_to_set == ~break_code(scan_code)
      make          == break_code2make_code(scan_code)
  IN  CASE make = CTRL_LEFT_MAKE ->
             [ret |-> TRUE, k |-> [k EXCEPT !.ctrl_status = status_to_set]]
        [] make = ALT_LEFT_MAKE ->
             [ret |-> TRUE, k |-> [k EXCEPT !.alt_status = status_to_set]]
        [] make = SHIFT_LEFT_MAKE ->
             [ret |-> TRUE, k |-> [k EXCEPT !.shift_status = status_to_set]]
        [] make = CAPS_LOCK_MAKE ->
             [ret |-> TRUE,
              k   |-> IF status_to_set THEN k
                      ELSE [k EXCEPT !.caps_lock_status = ~@]]
        [] OTHER -> [ret |-> FALSE, k |-> k]

\* Whether the code is one of a modifier key, and the statuses after it.
ctrl_key_proc(k, scan_code) ==
  LET status_to_set == ~break_code(scan_code)
      make          == break_code2make_code(scan_code)
  IN  CASE make \in {CTRL_LEFT_MAKE, CTRL_RIGHT_MAKE} ->
             [ret |-> TRUE, k |-> [k EXCEPT !.ctrl_status = status_to_set]]
        [] make \in {ALT_LEFT_MAKE, ALT_RIGHT_MAKE} ->
             [ret |-> TRUE, k |-> [k EXCEPT !.alt_status = status_to_set]]
        [] make \in {SHIFT_LEFT_MAKE, SHIFT_RIGHT_MAKE} ->
             [ret |-> TRUE, k |-> [k EXCEPT !.shift_status = status_to_set]]
        [] make = CAPS_LOCK_MAKE ->
             [ret |-> TRUE,
              k   |-> IF status_to_set THEN k
                      ELSE [k EXCEPT !.caps_lock_status = ~@]]
        [] OTHER -> [ret |-> FALSE, k |-> k]

\* Mutant: a release prints as a press does.
normal_key_proc_break_prints(k, scan_code) ==
  LET index == scan_code % 128
  IN  IF index > KEYMAP_MAX_INDEX THEN NO_CHAR
      ELSE keymap(index, k.shift_status \/ k.caps_lock_status)

\* The character of any other code, NO_CHAR for a break code and for a code
\* that is not in keymap.  Only the low byte of the code counts.
normal_key_proc(k, scan_code) ==
  LET index == scan_code % 256
  IN  IF break_code(scan_code) \/ index > KEYMAP_MAX_INDEX THEN NO_CHAR
      ELSE keymap(index, k.shift_status \/ k.caps_lock_status)

\* The handler up to its call of ioq_putchar: the statuses and the character.
intr_keyboard_handler(k, byte) ==
  LET sc  == scan_code_get(k, byte)
      ctl == ctrl_key_proc(sc.k, sc.code)
  IN  IF sc.code = \hE0 THEN [k |-> sc.k, char |-> NO_CHAR]
      ELSE [k    |-> ctl.k,
            char |-> IF ctl.ret THEN NO_CHAR
                     ELSE normal_key_proc(ctl.k, sc.code)]
=============================================================================
