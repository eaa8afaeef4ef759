-------------------------------- MODULE Screen --------------------------------
(***************************************************************************)
(* lib/kernel/print.c on the registers of the CRT controller.  A cursor is *)
(* read and written in four port accesses, with an index register in       *)
(* front, and interrupts may come between any two of them.  Kernel threads *)
(* print under the console mutex, processes call put_int without it, and   *)
(* an interrupt handler prints in one go in the middle of either.          *)
(*                                                                         *)
(* One step is one port access, or what put_char does to the video memory  *)
(* between reading and writing the cursor.  Cells off the screen are not   *)
(* kept.  Sizes are parameters: a register holds BYTE values (256), the    *)
(* screen has COLS * ROWS (80 * 25) places.                                *)
(***************************************************************************)
EXTENDS Terminal, FiniteSets

CONSTANTS
  Printer,     \* threads that print
  Locked,      \* those that take console_mutex
  NOBODY,
  BYTE,        \* 256
  Num,         \* the arguments of put_int
  Text,        \* the arguments of put_str
  MAX_CHARS    \* bound on the characters printed

SCREEN_MAX == ROWS * COLS
UINT16 == 0 .. BYTE * BYTE - 1

ASSUME ScreenAssumption ==
  /\ Locked \subseteq Printer
  /\ NOBODY \notin Printer
  /\ BYTE \in Nat \ {0} /\ SCREEN_MAX \in UINT16
  /\ Num \subseteq Nat
  /\ MAX_CHARS \in Nat

VARIABLES
  crt,         \* index, and the high and low byte of the cursor
  video,       \* the characters on the screen
  pc,          \* where each printer is in put_char
  cur_pos,     \* its local: the cursor read, later next_cur_pos
  text,        \* the rest of its string
  console_mutex,
  left,        \* how many characters may still be printed
  last         \* history: the last put_char, what it found, and whether it
               \* began while no other was under way

vars == <<crt, video, pc, cur_pos, text, console_mutex, left, last>>

-----------------------------------------------------------------------------
(* put_int and put_char as operators                                       *)

\* Mutant: ten is taken for a decimal digit.
digit_le_10(low) == IF low <= 10 THEN 48 + low ELSE 65 + low - 10

digit(low) == IF low <= 9 THEN 48 + low ELSE 65 + low - 10

\* put_int fills for_print from its end; off is a uint8_t, so after eight
\* digits it is 255, and ++off is 0.
put_int(num) ==
  LET store(s, c) == [s EXCEPT !.for_print[s.off] = c, !.off = (@ - 1) % 256]
      empty == [for_print |-> [i \in 0 .. 8 |-> 0], off |-> 7, num_tmp |-> num]
      loop[k \in 0 .. 8] ==
        IF k = 0
        THEN IF num = 0 THEN store(empty, digit(0)) ELSE empty
        ELSE LET s == loop[k - 1]
             IN  IF s.num_tmp = 0 THEN s
                 ELSE [store(s, digit(s.num_tmp % 16)) EXCEPT !.num_tmp = @ \div 16]
      off == (loop[8].off + 1) % 256
  IN  [i \in 1 .. 8 - off |-> loop[8].for_print[off + i - 1]]

\* Mutant: the line that becomes free keeps the old one.
roll_screen_only(v) ==
  [i \in DOMAIN v |-> IF i < SCREEN_MAX - COLS THEN v[i + COLS] ELSE v[i]]

\* ROLL_SCREEN and clean_last_line.
roll(v) ==
  [i \in DOMAIN v |-> IF i < SCREEN_MAX - COLS THEN v[i + COLS] ELSE BLANK]

\* Mutant: only the first place off the screen is noticed.
out_of_screen_at_end(pos) == pos = SCREEN_MAX

out_of_screen(pos) == pos >= SCREEN_MAX

CHECK_OUT_OF_SCREEN(v, pos) ==
  IF out_of_screen(pos)
  THEN [video |-> roll(v), pos |-> SCREEN_MAX - COLS]
  ELSE [video |-> v, pos |-> pos]

show(v, i, c) == IF i \in DOMAIN v THEN [v EXCEPT ![i] = c] ELSE v

\* The body of put_char between get_cursor and set_cursor.
draw(v, pos, c) ==
  LET uint16(n) == n % (BYTE * BYTE)
  IN  CASE c = NL -> CHECK_OUT_OF_SCREEN(v, uint16(pos - (pos % COLS) + COLS))
        [] c = BS -> [video |-> show(v, pos - 1, BLANK), pos |-> uint16(pos - 1)]
        [] OTHER  -> CHECK_OUT_OF_SCREEN(show(v, pos, c), uint16(pos + 1))

cursor == crt.high * BYTE + crt.low

-----------------------------------------------------------------------------

\* What the messages of init_all have left on the screen, all different.
boot_screen == [i \in 0 .. SCREEN_MAX - 1 |-> 1000 + i]
overlapped == [alone |-> FALSE, char |-> NL, video |-> boot_screen, cursor |-> 0]

Init ==
  /\ \E pos \in 0 .. SCREEN_MAX - 1 :
       crt = [index |-> "low", high |-> pos \div BYTE, low |-> pos % BYTE]
  /\ video = boot_screen
  /\ pc = [p \in Printer |-> "ready"]
  /\ cur_pos = [p \in Printer |-> 0]
  /\ text = [p \in Printer |-> << >>]
  /\ console_mutex = NOBODY
  /\ left = MAX_CHARS
  /\ last = overlapped

Alone == \A p \in Printer : pc[p] \in {"ready", "printing"}

\* The history: a put_char that starts while another is under way overlaps.
Note(c) ==
  last' = IF Alone
          THEN [alone |-> TRUE, char |-> c, video |-> video, cursor |-> cursor]
          ELSE overlapped

Step(p, from, to) == pc[p] = from /\ pc' = [pc EXCEPT ![p] = to]

\* put_int or put_str, for Locked ones from console.c, under the mutex.
PutStr(p, s) ==
  /\ Step(p, "ready", "printing")
  /\ p \in Locked => console_mutex = NOBODY
  /\ console_mutex' = IF p \in Locked THEN p ELSE console_mutex
  /\ text' = [text EXCEPT ![p] = s]
  /\ UNCHANGED <<crt, video, cur_pos, left, last>>

Returned(p) ==
  /\ text[p] = << >>
  /\ Step(p, "printing", "ready")
  /\ console_mutex' = IF p \in Locked THEN NOBODY ELSE console_mutex
  /\ UNCHANGED <<crt, video, cur_pos, text, left, last>>

PutChar(p) ==
  /\ text[p] # << >>
  /\ left > 0
  /\ left' = left - 1
  /\ Step(p, "printing", "get_high")
  /\ Note(Head(text[p]))
  /\ UNCHANGED <<crt, video, cur_pos, text, console_mutex>>

\* An outb to CRT_ADDR_REG.
Select(p, from, index, to) ==
  /\ Step(p, from, to)
  /\ crt' = [crt EXCEPT !.index = index]
  /\ UNCHANGED <<video, cur_pos, text, console_mutex, left, last>>

\* An inb from CRT_DATA_REG: the high byte, then the low byte.
ReadHigh(p) ==
  /\ Step(p, "read_high", "get_low")
  /\ cur_pos' = [cur_pos EXCEPT ![p] = crt[crt.index] * BYTE]
  /\ UNCHANGED <<crt, video, text, console_mutex, left, last>>

ReadLow(p) ==
  /\ Step(p, "read_low", "draw")
  /\ cur_pos' = [cur_pos EXCEPT ![p] = @ + crt[crt.index]]
  /\ UNCHANGED <<crt, video, text, console_mutex, left, last>>

Draw(p) ==
  /\ Step(p, "draw", "set_high")
  /\ LET d == draw(video, cur_pos[p], Head(text[p]))
     IN  /\ video' = d.video
         /\ cur_pos' = [cur_pos EXCEPT ![p] = d.pos]
  /\ text' = [text EXCEPT ![p] = Tail(@)]
  /\ UNCHANGED <<crt, console_mutex, left, last>>

\* An outb to CRT_DATA_REG.
Write(p, from, byte, to) ==
  /\ Step(p, from, to)
  /\ crt' = [crt EXCEPT ![crt.index] = byte]
  /\ UNCHANGED <<video, cur_pos, text, console_mutex, left, last>>

get_cursor(p) ==
  \/ Select(p, "get_high", "high", "read_high")
  \/ ReadHigh(p)
  \/ Select(p, "get_low", "low", "read_low")
  \/ ReadLow(p)

set_cursor(p) ==
  \/ Select(p, "set_high", "high", "write_high")
  \/ Write(p, "write_high", cur_pos[p] \div BYTE, "set_low")
  \/ Select(p, "set_low", "low", "write_low")
  \/ Write(p, "write_low", cur_pos[p] % BYTE, "printing")

\* An interrupt handler prints a character (the newline of "unknown key\n").
HandlerPutChar(c) ==
  /\ left > 0
  /\ left' = left - 1
  /\ LET d == draw(video, cursor, c)
     IN  /\ video' = d.video
         /\ crt' = [index |-> "low", high |-> d.pos \div BYTE, low |-> d.pos % BYTE]
  /\ Note(c)
  /\ UNCHANGED <<pc, cur_pos, text, console_mutex>>

Finished ==
  /\ left = 0 /\ Alone
  /\ UNCHANGED vars

Next ==
  \/ \E p \in Printer :
       \/ \E n \in Num : PutStr(p, put_int(n))
       \/ \E s \in Text : PutStr(p, s)
       \/ PutChar(p) \/ get_cursor(p) \/ Draw(p) \/ set_cursor(p) \/ Returned(p)
  \/ HandlerPutChar(NL)
  \/ Finished

Spec == Init /\ [][Next]_vars

-----------------------------------------------------------------------------

TypeOK ==
  /\ crt \in [index : {"high", "low"}, high : 0 .. BYTE - 1, low : 0 .. BYTE - 1]
  /\ \A p \in Printer : cur_pos[p] \in UINT16

\* A cursor and a screen as a terminal.
OnScreen(pos) == pos < SCREEN_MAX
Shown(v, pos) ==
  [lines |-> [r \in 1 .. ROWS |-> [c \in 1 .. COLS |-> v[(r - 1) * COLS + c - 1]]],
   row |-> (pos \div COLS) + 1, col |-> (pos % COLS) + 1]

\* The last put_char has ended and no other was under way with it.
RanAlone == Alone /\ last.alone

\* A put_char that no other overlaps does to the screen what a terminal does,
\* also after earlier ones have left the cursor and the index anywhere.
SoloExact ==
  RanAlone /\ OnScreen(last.cursor) =>
    LET before == Shown(last.video, last.cursor)
    IN  \/ last.char = BS /\ AtOrigin(before)
        \/ Shown(video, cursor) = Put(before, last.char)

\* However overlapping accesses or a backspace have garbled the cursor, the
\* next character that is printed alone brings it back to the screen.
CursorHeals == RanAlone /\ last.char # BS => OnScreen(cursor)

\* The characters "0" to "9" and "A" to "F".
Numeral == <<48, 49, 50, 51, 52, 53, 54, 55, 56, 57, 65, 66, 67, 68, 69, 70>>

\* The number a string of hexadecimal digits stands for.
Value(s) ==
  LET v[k \in 0 .. Len(s)] ==
        IF k = 0 THEN 0
        ELSE v[k - 1] * 16 + (CHOOSE d \in 0 .. 15 : Numeral[d + 1] = s[k])
  IN  v[Len(s)]

\* put_int hands the hexadecimal numeral of its argument to put_str: all its
\* digits, no leading zero, from 0 to the eight digits the buffer holds.
DigitsExact ==
  [][\A p \in Printer, n \in Num :
       PutStr(p, put_int(n)) =>
         /\ \A k \in DOMAIN text'[p] : \E i \in 1 .. 16 : text'[p][k] = Numeral[i]
         /\ Value(text'[p]) = n
         /\ Len(text'[p]) > 1 => text'[p][1] # Numeral[1]]_vars
=============================================================================
