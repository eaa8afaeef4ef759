-------------------------------- MODULE Bitmap --------------------------------
(***************************************************************************)
(* lib/kernel/bitmap.c: a bitmap is an array of bytes, a byte is the set   *)
(* of the offsets of its 1-bits.  bitmap_scan is a loop, one step per      *)
(* iteration, that slides a window left .. right over the bits.  No two    *)
(* calls on the same bitmap overlap: the scheduler calls with interrupts   *)
(* off, the allocator under the lock of the pool or before interrupts are  *)
(* first enabled.                                                          *)
(***************************************************************************)
EXTENDS Integers

CONSTANTS
  bit_num,  \* the field of struct bitmap
  Count     \* the values of cnt; no caller passes 0

ASSUME BitmapAssumption ==
  /\ bit_num \in Nat
  /\ Count \subseteq Nat \ {0}

VARIABLES
  base_addr,         \* the array of bytes
  pc,                \* "idle", "while" in bitmap_scan, "return" after it
  val, cnt,          \* the arguments of bitmap_scan
  left, right,       \* its locals
  answer             \* its result, until the caller has used it

scanVars == <<pc, val, cnt, left, right, answer>>
vars == <<base_addr, scanVars>>

Bit == 0 .. bit_num - 1
Val == {0, 1}
NO_ANSWER == [val |-> 0, cnt |-> 0, idx |-> -1]

bit_num_2_byte_len ==
  IF bit_num % 8 # 0 THEN bit_num \div 8 + 1 ELSE bit_num \div 8

byte_len == bit_num_2_byte_len
Byte == SUBSET (0 .. 7)

bitmap_init == [b \in 0 .. byte_len - 1 |-> {}]

bitmap_get(bytes, idx) == IF idx % 8 \in bytes[idx \div 8] THEN 1 ELSE 0

\* Mutant: the byte is assigned, not or-ed.
bitmap_set_overwrites(bytes, idx) == [bytes EXCEPT ![idx \div 8] = {idx % 8}]

bitmap_set(bytes, idx) == [bytes EXCEPT ![idx \div 8] = @ \cup {idx % 8}]

bitmap_clear(bytes, idx) == [bytes EXCEPT ![idx \div 8] = @ \ {idx % 8}]

TypeOK ==
  /\ base_addr \in [0 .. byte_len - 1 -> Byte]
  /\ pc \in {"idle", "while", "return"}
  /\ val \in Val
  /\ cnt \in Count \cup {0}
  /\ left \in 0 .. bit_num
  /\ right \in 0 .. bit_num
  /\ answer \in [val : Val, cnt : Count \cup {0}, idx : Bit \cup {-1}]

Init ==
  /\ base_addr = bitmap_init
  /\ pc = "idle"
  /\ val = 0 /\ cnt = 0
  /\ left = 0 /\ right = 0
  /\ answer = NO_ANSWER

-----------------------------------------------------------------------------

BitmapSet(i) ==
  /\ pc = "idle"
  /\ base_addr' = bitmap_set(base_addr, i)
  /\ UNCHANGED scanVars

BitmapClear(i) ==
  /\ pc = "idle"
  /\ base_addr' = bitmap_clear(base_addr, i)
  /\ UNCHANGED scanVars

\* The call of bitmap_scan.
ScanCall(v, c) ==
  /\ pc = "idle"
  /\ pc' = "while"
  /\ val' = v /\ cnt' = c
  /\ left' = 0 /\ right' = 0
  /\ UNCHANGED <<base_addr, answer>>

Return(i) ==
  /\ pc' = "return"
  /\ answer' = [val |-> val, cnt |-> cnt, idx |-> i]
  /\ val' = 0 /\ cnt' = 0
  /\ left' = 0 /\ right' = 0

\* The condition of the while.
more_bits == right < bit_num

\* Mutant: the loop advances over matching bits only.
next_right_on_match ==
  IF bitmap_get(base_addr, right) = val THEN right + 1 ELSE right

\* right++
next_right == right + 1

\* left after the first if of the body.
new_left ==
  IF bitmap_get(base_addr, right) # val THEN right + 1 ELSE left

\* The second if: the window is long enough.
WindowFull == right - new_left + 1 = cnt

\* An iteration that finds the window full.
ScanFound ==
  /\ pc = "while"
  /\ more_bits
  /\ WindowFull
  /\ Return(new_left)
  /\ UNCHANGED base_addr

\* An iteration that does not.
ScanStep ==
  /\ pc = "while"
  /\ more_bits
  /\ ~WindowFull
  /\ left' = new_left
  /\ right' = next_right
  /\ UNCHANGED <<base_addr, pc, val, cnt, answer>>

\* The end of the bitmap.
ScanFailed ==
  /\ pc = "while"
  /\ ~more_bits
  /\ Return(-1)
  /\ UNCHANGED base_addr

\* The caller uses the result.
ScanUsed ==
  /\ pc = "return"
  /\ pc' = "idle"
  /\ answer' = NO_ANSWER
  /\ UNCHANGED <<base_addr, val, cnt, left, right>>

ScanNext == ScanFound \/ ScanStep \/ ScanFailed

Next ==
  \/ \E i \in Bit : BitmapSet(i) \/ BitmapClear(i)
  \/ \E v \in Val, c \in Count : ScanCall(v, c)
  \/ ScanNext
  \/ ScanUsed

\* The processor executes the loop it is in.
Fairness == WF_vars(ScanNext)

Spec == Init /\ [][Next]_vars /\ Fairness

-----------------------------------------------------------------------------

\* The bits that are 1.
ones == {i \in Bit : bitmap_get(base_addr, i) = 1}

Abstract == INSTANCE BitSet

\* What the loop of bitmap_scan knows whenever it is at its while: the bits of
\* the window match, the window is shorter than what is asked for, and no run
\* starts before the window.
WindowInv ==
  pc = "while" =>
    /\ cnt \in Count
    /\ left <= right
    /\ right - left < cnt
    /\ \A j \in left .. right - 1 : bitmap_get(base_addr, j) = val
    /\ \A k \in 0 .. left - 1 : ~Abstract!IsRun(ones, val, cnt, k)

\* Set, clear and scan on the bytes do what they do on a set of bit numbers:
\* setting or clearing a bit touches no other bit of the byte or of a
\* neighbouring one, and the one-pass loop of bitmap_scan returns the first
\* run of cnt equal bits, or -1 when there is none.
ImplementsBitSet == Abstract!Spec

\* Every call of bitmap_scan returns.
ScanReturns == (pc = "while") ~> (pc = "return")
=============================================================================
