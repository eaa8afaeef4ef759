------------------------------- MODULE Terminal -------------------------------
(***************************************************************************)
(* What put_char promises: a terminal of ROWS lines of COLS characters     *)
(* with a cursor, to which characters are written one at a time.           *)
(***************************************************************************)
EXTENDS Integers, Sequences

CONSTANTS COLS, ROWS, NL, BS, BLANK

ASSUME TerminalAssumption ==
  /\ COLS \in Nat \ {0} /\ ROWS \in Nat \ {0}
  /\ NL # BS

blank_line == [c \in 1 .. COLS |-> BLANK]

\* lines[r][c] is shown at row r, column c; both count from 1.
NewLine(t) ==
  IF t.row < ROWS
  THEN [t EXCEPT !.row = @ + 1, !.col = 1]
  ELSE [t EXCEPT !.col = 1, !.lines = Append(Tail(@), blank_line)]

Type(t, c) ==
  LET typed == [t EXCEPT !.lines[t.row][t.col] = c]
  IN  IF t.col < COLS THEN [typed EXCEPT !.col = @ + 1] ELSE NewLine(typed)

\* Nothing is promised of a backspace in the first place of the screen.
AtOrigin(t) == t.row = 1 /\ t.col = 1

Rubout(t) ==
  LET back == IF t.col > 1 THEN [t EXCEPT !.col = @ - 1]
                           ELSE [t EXCEPT !.row = @ - 1, !.col = COLS]
  IN  [back EXCEPT !.lines[back.row][back.col] = BLANK]

Put(t, c) ==
  IF c = NL THEN NewLine(t) ELSE IF c = BS THEN Rubout(t) ELSE Type(t, c)
=============================================================================
