-------------------------------- MODULE BitSet --------------------------------
(***************************************************************************)
(* What the users of a bitmap rely on: it is a set of bit numbers, and     *)
(* bitmap_scan answers at once with the first run of cnt bits equal to     *)
(* val.  Scheduler and Memory treat their bitmaps this way.                *)
(***************************************************************************)
EXTENDS Integers

CONSTANTS
  bit_num,  \* the number of bits
  Count     \* the lengths of runs that are asked for

VARIABLES
  ones,   \* the bits that are 1
  answer  \* the result of bitmap_scan, until its caller has used it

Bit == 0 .. bit_num - 1
Val == {0, 1}
NOT_FOUND == -1
NO_ANSWER == [val |-> 0, cnt |-> 0, idx |-> NOT_FOUND]

BitOf(s, i) == IF i \in s THEN 1 ELSE 0

\* cnt bits from i on have the value val.
IsRun(s, val, cnt, i) ==
  /\ i + cnt <= bit_num
  /\ \A j \in i .. i + cnt - 1 : BitOf(s, j) = val

\* i is the result that a scan of s for cnt bits of value val must have.
IsFirstRun(s, val, cnt, i) ==
  \/ /\ i \in Bit
     /\ IsRun(s, val, cnt, i)
     /\ \A k \in 0 .. i - 1 : ~IsRun(s, val, cnt, k)
  \/ /\ i = NOT_FOUND
     /\ \A k \in Bit : ~IsRun(s, val, cnt, k)

Init ==
  /\ ones = {}
  /\ answer = NO_ANSWER

Set(i) ==
  /\ answer = NO_ANSWER
  /\ ones' = ones \cup {i}
  /\ UNCHANGED answer

Clear(i) ==
  /\ answer = NO_ANSWER
  /\ ones' = ones \ {i}
  /\ UNCHANGED answer

Scan(val, cnt) ==
  /\ answer = NO_ANSWER
  /\ \E i \in Bit \cup {NOT_FOUND} :
       /\ IsFirstRun(ones, val, cnt, i)
       /\ answer' = [val |-> val, cnt |-> cnt, idx |-> i]
  /\ UNCHANGED ones

Use ==
  /\ answer' = NO_ANSWER
  /\ UNCHANGED ones

Next ==
  \/ \E i \in Bit : Set(i) \/ Clear(i)
  \/ \E val \in Val, cnt \in Count : Scan(val, cnt)
  \/ Use

Spec == Init /\ [][Next]_<<ones, answer>>
=============================================================================
