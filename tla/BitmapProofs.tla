----------------------------- MODULE BitmapProofs -----------------------------
(***************************************************************************)
(* Bitmap implements BitSet, for every number of bits and every length of  *)
(* run.                                                                    *)
(***************************************************************************)
EXTENDS Bitmap, TLAPS

USE DEF more_bits, next_right

\* Outside the return of bitmap_scan there is no result to use.
AnswerInv == pc # "return" => answer = NO_ANSWER

\* The inductive invariant.
BitmapInv == TypeOK /\ WindowInv /\ AnswerInv

\* byte_len bytes have room for bit_num bits, and the place of a bit
\* determines the bit.
LEMMA BytePlace ==
  /\ byte_len \in Nat
  /\ \A i \in Bit : i \div 8 \in 0 .. byte_len - 1 /\ i % 8 \in 0 .. 7
  /\ \A i, j \in Bit : i \div 8 = j \div 8 /\ i % 8 = j % 8 => i = j
  BY BitmapAssumption DEF byte_len, bit_num_2_byte_len, Bit

\* bitmap_set sets bit i and leaves every other bit alone.
LEMMA SetBit ==
  ASSUME NEW bytes \in [0 .. byte_len - 1 -> Byte], NEW i \in Bit
  PROVE  /\ bitmap_set(bytes, i) \in [0 .. byte_len - 1 -> Byte]
         /\ \A j \in Bit : bitmap_get(bitmap_set(bytes, i), j)
                             = IF j = i THEN 1 ELSE bitmap_get(bytes, j)
  <1> DEFINE B == i \div 8
             O == i % 8
             new == [bytes EXCEPT ![B] = @ \cup {O}]
  <1>1. B \in 0 .. byte_len - 1 /\ O \in 0 .. 7
    BY BytePlace
  <1>2. new \in [0 .. byte_len - 1 -> Byte]
    BY <1>1 DEF Byte
  <1>3. ASSUME NEW j \in Bit
        PROVE  (j % 8 \in new[j \div 8]) <=> (j = i \/ j % 8 \in bytes[j \div 8])
    <2>1. j \div 8 \in 0 .. byte_len - 1
      BY BytePlace
    <2>2. CASE j \div 8 = B
      <3>1. j % 8 = O <=> j = i
        BY <2>2, BytePlace
      <3> QED
        BY <1>1, <2>1, <2>2, <3>1
    <2>3. CASE j \div 8 # B
      BY <1>1, <2>1, <2>3
    <2> QED
      BY <2>2, <2>3
  <1> QED
    BY <1>2, <1>3 DEF bitmap_set, bitmap_get

\* bitmap_clear clears bit i and leaves every other bit alone.
LEMMA ClearBit ==
  ASSUME NEW bytes \in [0 .. byte_len - 1 -> Byte], NEW i \in Bit
  PROVE  /\ bitmap_clear(bytes, i) \in [0 .. byte_len - 1 -> Byte]
         /\ \A j \in Bit : bitmap_get(bitmap_clear(bytes, i), j)
                             = IF j = i THEN 0 ELSE bitmap_get(bytes, j)
  <1> DEFINE B == i \div 8
             O == i % 8
             new == [bytes EXCEPT ![B] = @ \ {O}]
  <1>1. B \in 0 .. byte_len - 1 /\ O \in 0 .. 7
    BY BytePlace
  <1>2. new \in [0 .. byte_len - 1 -> Byte]
    BY <1>1 DEF Byte
  <1>3. ASSUME NEW j \in Bit
        PROVE  (j % 8 \in new[j \div 8]) <=> (j # i /\ j % 8 \in bytes[j \div 8])
    <2>1. j \div 8 \in 0 .. byte_len - 1
      BY BytePlace
    <2>2. CASE j \div 8 = B
      <3>1. j % 8 = O <=> j = i
        BY <2>2, BytePlace
      <3> QED
        BY <1>1, <2>1, <2>2, <3>1
    <2>3. CASE j \div 8 # B
      BY <1>1, <2>1, <2>3
    <2> QED
      BY <2>2, <2>3
  <1> QED
    BY <1>2, <1>3 DEF bitmap_clear, bitmap_get

\* A bit read from the bytes is the bit of the set.
LEMMA GetBit ==
  ASSUME NEW j \in Bit
  PROVE  /\ bitmap_get(base_addr, j) \in Val
         /\ Abstract!BitOf(ones, j) = bitmap_get(base_addr, j)
  BY DEF bitmap_get, ones, Abstract!BitOf, Val

\* The body of the loop, as facts about the bits: after its first if, the
\* window left .. right matches and no run starts before it.
LEMMA Slide ==
  ASSUME BitmapInv, pc = "while", right < bit_num
  PROVE  /\ new_left \in 0 .. right + 1
         /\ right - new_left < cnt
         /\ \A j \in new_left .. right : Abstract!BitOf(ones, j) = val
         /\ \A k \in 0 .. new_left - 1 : ~Abstract!IsRun(ones, val, cnt, k)
  <1>0. /\ bit_num \in Nat /\ cnt \in Nat \ {0} /\ val \in Val
        /\ left \in Nat /\ right \in Nat /\ left <= right
        /\ right - left < cnt
        /\ right \in Bit
    BY BitmapAssumption DEF BitmapInv, TypeOK, WindowInv, Bit
  <1>1. CASE bitmap_get(base_addr, right) # val
    <2>1. new_left = right + 1
      BY <1>1 DEF new_left
    <2>2. ASSUME NEW k \in 0 .. right
          PROVE  ~Abstract!IsRun(ones, val, cnt, k)
      <3>1. CASE k < left
        BY <1>0, <3>1 DEF BitmapInv, WindowInv
      <3>2. CASE left <= k
        <4>1. right \in k .. k + cnt - 1
          BY <1>0, <3>2
        <4>2. Abstract!BitOf(ones, right) # val
          BY <1>0, <1>1, GetBit
        <4> QED
          BY <4>1, <4>2 DEF Abstract!IsRun
      <3> QED
        BY <1>0, <3>1, <3>2
    <2> QED
      BY <1>0, <2>1, <2>2
  <1>2. CASE bitmap_get(base_addr, right) = val
    <2>1. new_left = left
      BY <1>2 DEF new_left
    <2>2. ASSUME NEW j \in left .. right
          PROVE  Abstract!BitOf(ones, j) = val
      <3>1. j \in Bit
        BY <1>0 DEF Bit
      <3>2. bitmap_get(base_addr, j) = val
        BY <1>0, <1>2 DEF BitmapInv, WindowInv
      <3> QED
        BY <3>1, <3>2, GetBit
    <2>3. \A k \in 0 .. left - 1 : ~Abstract!IsRun(ones, val, cnt, k)
      BY DEF BitmapInv, WindowInv
    <2> QED
      BY <1>0, <2>1, <2>2, <2>3
  <1> QED
    BY <1>1, <1>2

\* A full window is the first run.
LEMMA FoundIsFirst ==
  ASSUME BitmapInv, pc = "while", right < bit_num, WindowFull
  PROVE  /\ new_left \in Bit
         /\ Abstract!IsFirstRun(ones, val, cnt, new_left)
  <1>0. bit_num \in Nat /\ cnt \in Nat \ {0} /\ right \in Nat
    BY BitmapAssumption DEF BitmapInv, TypeOK, WindowInv
  <1>1. new_left \in Nat /\ new_left + cnt = right + 1
    BY <1>0, Slide DEF WindowFull
  <1>2. new_left \in Bit
    BY <1>0, <1>1 DEF Bit
  <1>3. Abstract!IsRun(ones, val, cnt, new_left)
    BY <1>0, <1>1, Slide DEF Abstract!IsRun
  <1> QED
    BY <1>2, <1>3, Slide DEF Abstract!IsFirstRun, Abstract!Bit, Bit

\* When the loop has come to the end there is no run.
LEMMA FailedIsNone ==
  ASSUME BitmapInv, pc = "while", ~(right < bit_num)
  PROVE  Abstract!IsFirstRun(ones, val, cnt, -1)
  <1>0. /\ bit_num \in Nat /\ cnt \in Nat \ {0} /\ left \in Nat
        /\ right = bit_num /\ right - left < cnt
    BY BitmapAssumption DEF BitmapInv, TypeOK, WindowInv
  <1>1. ASSUME NEW k \in Bit
        PROVE  ~Abstract!IsRun(ones, val, cnt, k)
    <2>1. CASE k < left
      BY <1>0, <2>1 DEF BitmapInv, WindowInv, Bit
    <2>2. CASE left <= k
      BY <1>0, <2>2 DEF Abstract!IsRun, Bit
    <2> QED
      BY <1>0, <2>1, <2>2 DEF Bit
  <1> QED
    BY <1>1 DEF Abstract!IsFirstRun, Abstract!NOT_FOUND, Abstract!Bit, Bit

\* While the bytes stay as they are, so do the bits.
LEMMA SameBits ==
  ASSUME base_addr' = base_addr
  PROVE  /\ ones' = ones
         /\ \A j : bitmap_get(base_addr, j)' = bitmap_get(base_addr, j)
  BY DEF ones, bitmap_get

\* The loop invariant of bitmap_scan, with the types, is an invariant of the
\* bitmap: for every size and every length of run, the window holds matching
\* bits only and no run has been passed over.
THEOREM ScanLoopCorrect == Spec => []BitmapInv
<1>1. Init => BitmapInv
  <2> SUFFICES ASSUME Init PROVE BitmapInv
    OBVIOUS
  <2>1. byte_len \in Nat
    BY BytePlace
  <2>2. TypeOK
    BY <2>1, BitmapAssumption
    DEF Init, TypeOK, bitmap_init, Byte, Val, NO_ANSWER
  <2> QED
    BY <2>2 DEF Init, BitmapInv, WindowInv, AnswerInv
<1>2. BitmapInv /\ [Next]_vars => BitmapInv'
  <2> SUFFICES ASSUME BitmapInv, [Next]_vars
               PROVE  BitmapInv'
    OBVIOUS
  <2>0. TypeOK /\ WindowInv /\ AnswerInv /\ bit_num \in Nat
    BY BitmapAssumption DEF BitmapInv
  <2>1. ASSUME NEW i \in Bit, BitmapSet(i)
        PROVE  BitmapInv'
    BY <2>0, <2>1, SetBit
    DEF BitmapSet, scanVars, BitmapInv, TypeOK, WindowInv, AnswerInv
  <2>2. ASSUME NEW i \in Bit, BitmapClear(i)
        PROVE  BitmapInv'
    BY <2>0, <2>2, ClearBit
    DEF BitmapClear, scanVars, BitmapInv, TypeOK, WindowInv, AnswerInv
  <2>3. ASSUME NEW v \in Val, NEW c \in Count, ScanCall(v, c)
        PROVE  BitmapInv'
    <3>1. c \in Nat \ {0}
      BY BitmapAssumption
    <3>2. TypeOK' /\ AnswerInv'
      BY <2>0, <2>3 DEF ScanCall, TypeOK, AnswerInv
    <3>3. WindowInv'
      BY <2>0, <2>3, <3>1 DEF ScanCall, WindowInv
    <3> QED
      BY <3>2, <3>3 DEF BitmapInv
  <2>4. CASE ScanFound
    <3>1. new_left \in Bit
      BY <2>4, FoundIsFirst DEF ScanFound
    <3>2. cnt \in Count
      BY <2>0, <2>4 DEF WindowInv, ScanFound
    <3>3. TypeOK'
      BY <2>0, <2>4, <3>1, <3>2 DEF ScanFound, Return, TypeOK, Val
    <3> QED
      BY <2>4, <3>3 DEF ScanFound, Return, BitmapInv, WindowInv, AnswerInv
  <2>5. CASE ScanStep
    <3>1. pc = "while" /\ right < bit_num /\ pc' = "while"
      BY <2>0, <2>5 DEF ScanStep
    <3>2. /\ new_left \in 0 .. right + 1
          /\ right - new_left < cnt
          /\ \A j \in new_left .. right : Abstract!BitOf(ones, j) = val
          /\ \A k \in 0 .. new_left - 1 : ~Abstract!IsRun(ones, val, cnt, k)
      BY <3>1, Slide
    <3>3. cnt \in Nat \ {0} /\ cnt \in Count /\ right \in Nat
      BY <2>0, <3>1, BitmapAssumption DEF TypeOK, WindowInv
    <3>4. right - new_left + 1 # cnt
      BY <2>5 DEF ScanStep, WindowFull
    <3>5. /\ left' = new_left /\ right' = right + 1
          /\ UNCHANGED <<base_addr, val, cnt, answer>>
      BY <2>5 DEF ScanStep
    <3>6. TypeOK' /\ AnswerInv'
      BY <2>0, <3>1, <3>2, <3>3, <3>5 DEF TypeOK, AnswerInv
    <3>7. ASSUME NEW j \in left' .. right' - 1
          PROVE  bitmap_get(base_addr, j)' = val'
      <4>1. j \in new_left .. right /\ j \in Bit
        BY <2>0, <3>1, <3>2, <3>3, <3>5 DEF Bit
      <4>2. bitmap_get(base_addr, j) = val
        BY <3>2, <4>1, GetBit
      <4> QED
        BY <3>5, <4>2 DEF bitmap_get
    <3>8. ASSUME NEW k \in 0 .. left' - 1
          PROVE  ~Abstract!IsRun(ones, val, cnt, k)'
      <4>1. ~Abstract!IsRun(ones, val, cnt, k)
        BY <3>2, <3>5
      <4> QED
        BY <3>5, <4>1, SameBits DEF Abstract!IsRun, Abstract!BitOf
    <3>9. left' <= right' /\ right' - left' < cnt' /\ cnt' \in Count
      BY <3>2, <3>3, <3>4, <3>5
    <3> QED
      BY <3>6, <3>7, <3>8, <3>9 DEF BitmapInv, WindowInv
  <2>6. CASE ScanFailed
    <3>1. cnt \in Count
      BY <2>0, <2>6 DEF WindowInv, ScanFailed
    <3>2. TypeOK'
      BY <2>0, <2>6, <3>1 DEF ScanFailed, Return, TypeOK, Val
    <3> QED
      BY <2>6, <3>2 DEF ScanFailed, Return, BitmapInv, WindowInv, AnswerInv
  <2>7. CASE ScanUsed
    BY <2>0, <2>7
    DEF ScanUsed, BitmapInv, TypeOK, WindowInv, AnswerInv, NO_ANSWER, Val
  <2>8. CASE UNCHANGED vars
    <3>1. UNCHANGED <<base_addr, pc, val, cnt, left, right, answer>>
      BY <2>8 DEF vars, scanVars
    <3>2. TypeOK' /\ AnswerInv'
      BY <2>0, <3>1 DEF TypeOK, AnswerInv
    <3>3. WindowInv'
      BY <2>0, <3>1, SameBits DEF WindowInv, Abstract!IsRun, Abstract!BitOf
    <3> QED
      BY <3>2, <3>3 DEF BitmapInv
  <2> QED
    BY <2>1, <2>2, <2>3, <2>4, <2>5, <2>6, <2>7, <2>8 DEF Next, ScanNext
<1> QED
  BY <1>1, <1>2, PTL DEF Spec

\* The byte array with its one-pass scan implements a set of bit numbers
\* whose scan answers at once with the first run: what bitmap_set,
\* bitmap_clear and bitmap_scan promise to the scheduler and the allocator.
THEOREM BitmapImplementsBitSet == Spec => ImplementsBitSet
<1>1. Init => Abstract!Init
  <2> SUFFICES ASSUME Init PROVE Abstract!Init
    OBVIOUS
  <2>1. ASSUME NEW i \in Bit PROVE bitmap_get(base_addr, i) # 1
    BY BytePlace DEF Init, bitmap_init, bitmap_get
  <2>2. ones = {}
    BY <2>1 DEF ones
  <2> QED
    BY <2>2 DEF Init, Abstract!Init, NO_ANSWER, Abstract!NO_ANSWER,
                Abstract!NOT_FOUND
<1>2. BitmapInv /\ [Next]_vars => [Abstract!Next]_<<ones, answer>>
  <2> SUFFICES ASSUME BitmapInv, [Next]_vars
               PROVE  Abstract!Next \/ UNCHANGED <<ones, answer>>
    OBVIOUS
  <2>0. TypeOK /\ WindowInv /\ AnswerInv
    BY DEF BitmapInv
  <2> USE DEF NO_ANSWER, Abstract!NO_ANSWER, Abstract!NOT_FOUND
  <2>1. ASSUME NEW i \in Bit, BitmapSet(i)
        PROVE  Abstract!Set(i)
    <3>1. \A j \in Bit : bitmap_get(base_addr', j)
                           = IF j = i THEN 1 ELSE bitmap_get(base_addr, j)
      BY <2>0, <2>1, SetBit DEF BitmapSet, TypeOK
    <3>2. ones' = ones \cup {i}
      BY <3>1 DEF ones, bitmap_get
    <3> QED
      BY <2>0, <2>1, <3>2
      DEF BitmapSet, scanVars, AnswerInv, Abstract!Set
  <2>2. ASSUME NEW i \in Bit, BitmapClear(i)
        PROVE  Abstract!Clear(i)
    <3>1. \A j \in Bit : bitmap_get(base_addr', j)
                           = IF j = i THEN 0 ELSE bitmap_get(base_addr, j)
      BY <2>0, <2>2, ClearBit DEF BitmapClear, TypeOK
    <3>2. ones' = ones \ {i}
      BY <3>1 DEF ones, bitmap_get
    <3> QED
      BY <2>0, <2>2, <3>2
      DEF BitmapClear, scanVars, AnswerInv, Abstract!Clear
  <2>3. ASSUME NEW v \in Val, NEW c \in Count, ScanCall(v, c)
        PROVE  UNCHANGED <<ones, answer>>
    BY <2>3, SameBits DEF ScanCall
  <2>4. CASE ScanFound
    <3>1. /\ new_left \in Bit
          /\ Abstract!IsFirstRun(ones, val, cnt, new_left)
      BY <2>4, FoundIsFirst DEF ScanFound
    <3>2. ones' = ones
      BY <2>4, SameBits DEF ScanFound
    <3>3. answer = NO_ANSWER
      BY <2>0, <2>4 DEF ScanFound, AnswerInv
    <3>4. Abstract!Scan(val, cnt)
      BY <2>4, <3>1, <3>2, <3>3
      DEF ScanFound, Return, Abstract!Scan, Abstract!Bit, Bit
    <3>5. val \in Val /\ cnt \in Count
      BY <2>0, <2>4 DEF TypeOK, WindowInv, ScanFound
    <3> QED
      BY <3>4, <3>5 DEF Abstract!Next, Abstract!Val, Val
  <2>5. CASE ScanStep
    BY <2>5, SameBits DEF ScanStep
  <2>6. CASE ScanFailed
    <3>1. Abstract!IsFirstRun(ones, val, cnt, -1)
      BY <2>6, FailedIsNone DEF ScanFailed
    <3>2. ones' = ones
      BY <2>6, SameBits DEF ScanFailed
    <3>3. answer = NO_ANSWER
      BY <2>0, <2>6 DEF ScanFailed, AnswerInv
    <3>4. Abstract!Scan(val, cnt)
      BY <2>6, <3>1, <3>2, <3>3 DEF ScanFailed, Return, Abstract!Scan
    <3>5. val \in Val /\ cnt \in Count
      BY <2>0, <2>6 DEF TypeOK, WindowInv, ScanFailed
    <3> QED
      BY <3>4, <3>5 DEF Abstract!Next, Abstract!Val, Val
  <2>7. CASE ScanUsed
    BY <2>7, SameBits DEF ScanUsed, Abstract!Use, Abstract!Next
  <2>8. CASE UNCHANGED vars
    BY <2>8, SameBits DEF vars, scanVars
  <2> QED
    BY <2>1, <2>2, <2>3, <2>4, <2>5, <2>6, <2>7, <2>8
    DEF Next, ScanNext, Abstract!Next, Abstract!Bit, Bit
<1> QED
  BY <1>1, <1>2, ScanLoopCorrect, PTL DEF Spec, ImplementsBitSet, Abstract!Spec
=============================================================================
