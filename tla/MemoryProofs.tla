----------------------------- MODULE MemoryProofs -----------------------------
(***************************************************************************)
(* The layout of the pools, for every amount of memory that the allocator  *)
(* is written for; and the allocator itself, for any number of processes   *)
(* and pages.  Kernel pages are given away one after the other and never   *)
(* come back, which makes the loop of kernel_pages_malloc a closed form    *)
(* (MallocIs).  MemInv is inductive; there is one lemma for every action.  *)
(***************************************************************************)
EXTENDS Memory, TLAPS, WellFoundedInduction

\* "Physical memory is at most 32M" (malloc_page).
MAX_MEM == 32 * 1024 * 1024

\* The whole pages in x bytes.
LEMMA WholePages ==
  ASSUME NEW x \in Nat, x <= 31457280
  PROVE  x \div 4096 \in 0 .. 7680 /\ (x \div 4096) * 4096 <= x
  BY SMT

\* mem_pool_init makes of every amount of memory, from none left after the
\* page tables up to 32M, pools and bitmaps that do not overlap, keep clear of
\* the idle thread's TCB, and end within the memory there is.
THEOREM PoolsLaidOut ==
  ASSUME NEW all_mem \in Nat, used_mem <= all_mem, all_mem <= MAX_MEM
  PROVE  LET pools == mem_pool_init(all_mem)
         IN  /\ SideBySide(pools.kernel_phy, pools.user_phy, pools.kernel_vir)
             /\ pools.user_phy.addr_base + pools.user_phy.pool_size <= all_mem
<1> DEFINE pages == (all_mem - used_mem) \div PG_SIZE
           k == pages \div 2
           u == pages - k
           kb == btmp_bytes_len4pages(k)
           ub == btmp_bytes_len4pages(u)
<1>1. used_mem = 2097152
  BY SMT DEF used_mem, page_table_size, PG_SIZE, PAGE_DIR_CNT, PAGE_TAB_CNT,
         PAGE_DIR_START_ADDR
<1>2. pages \in 0 .. 7680 /\ pages * 4096 <= all_mem - 2097152
  <2>1. all_mem - 2097152 \in Nat /\ all_mem - 2097152 <= 31457280
    BY SMT, <1>1 DEF MAX_MEM
  <2> QED
    BY SMT, <1>1, <2>1, WholePages DEF PG_SIZE
<1>3. k \in 0 .. 3840 /\ u \in 0 .. 3840 /\ k + u = pages
  <2> HIDE DEF pages
  <2>1. pages \in Nat /\ pages <= 7680
    BY SMT, <1>2
  <2>2. k \in Nat /\ k <= 3840
    BY SMT, <2>1
  <2>3. u \in Nat /\ u <= 3840
    BY SMT, <2>1
  <2>4. k + u = pages
    BY SMT, <2>1, <2>2
  <2> HIDE DEF k, u
  <2> QED
    BY SMT, <2>2, <2>3, <2>4
<1>4. /\ kb = (k + 7) \div 8 /\ ub = (u + 7) \div 8
      /\ kb \in 0 .. 480 /\ ub \in 0 .. 480
  <2> HIDE DEF k, u
  <2> QED
    BY SMT, <1>3 DEF btmp_bytes_len4pages
<1>5. /\ mem_pool_init(all_mem).kernel_phy = pool_init(MEM_BITMAP_BASE, used_mem, k)
      /\ mem_pool_init(all_mem).user_phy
           = pool_init(MEM_BITMAP_BASE + kb, used_mem + k * PG_SIZE, u)
      /\ mem_pool_init(all_mem).kernel_vir
           = pool_init(MEM_BITMAP_BASE + kb + ub, K_HEAP_START, k)
  BY SMT DEF mem_pool_init
<1> HIDE DEF pages, k, u, kb, ub
<1>6. SideBySide(mem_pool_init(all_mem).kernel_phy,
                 mem_pool_init(all_mem).user_phy,
                 mem_pool_init(all_mem).kernel_vir)
  BY SMT, <1>1, <1>3, <1>4, <1>5
  DEF SideBySide, pool_init, MEM_BITMAP_BASE, IDLE_TCB, PG_SIZE
<1>7. mem_pool_init(all_mem).user_phy.addr_base
        + mem_pool_init(all_mem).user_phy.pool_size <= all_mem
  BY SMT, <1>1, <1>2, <1>3, <1>5 DEF pool_init, PG_SIZE
<1> QED
  BY SMT, <1>6, <1>7

-----------------------------------------------------------------------------
(* Scans.                                                                  *)

\* A set of numbers that is not empty has a least element.
LEMMA LeastOf ==
  ASSUME NEW S \in SUBSET Nat, S # {}
  PROVE  \E x \in S : \A y \in S : x <= y
<1>1. PICK x \in S : \A y \in S : ~(<<y, x>> \in OpToRel(<, Nat))
  BY WFMin, NatLessThanWellFounded
<1>2. ASSUME NEW y \in S PROVE x <= y
  <2>1. ~(y < x)
    BY <1>1 DEF OpToRel
  <2> QED
    BY <2>1
<1> QED
  BY <1>2

\* A scan finds a run of free bits, or there is none.
LEMMA ScanRun ==
  ASSUME NEW pool, NEW n \in Nat \ {0}, pool.bit_num \in Nat
  PROVE  \/ /\ bitmap_scan(pool, n) \in 0 .. pool.bit_num - n
            /\ \A j \in 0 .. n - 1 : bitmap_scan(pool, n) + j \notin pool.btmp
         \/ /\ bitmap_scan(pool, n) = -1
            /\ \A i \in 0 .. pool.bit_num - n : \E j \in i .. i + n - 1 : j \in pool.btmp
<1>1. PICK free : free = {i \in 0 .. pool.bit_num - n :
                            \A j \in i .. i + n - 1 : j \notin pool.btmp}
  OBVIOUS
<1>2. bitmap_scan(pool, n) =
        IF free = {} THEN -1 ELSE CHOOSE i \in free : \A k \in free : i <= k
  BY <1>1 DEF bitmap_scan
<1>3. CASE free = {}
  BY <1>1, <1>2, <1>3
<1>4. CASE free # {}
  <2>1. free \in SUBSET Nat
    BY <1>1
  <2>2. \E x \in free : \A y \in free : x <= y
    BY <1>4, <2>1, LeastOf
  <2>3. PICK i : i = bitmap_scan(pool, n)
    OBVIOUS
  <2>4. i \in free
    BY <1>2, <1>4, <2>2, <2>3
  <2>5. ASSUME NEW j \in 0 .. n - 1 PROVE i + j \notin pool.btmp
    <3>1. i + j \in i .. i + n - 1
      BY <1>1, <2>4
    <3> QED
      BY <1>1, <2>4, <3>1
  <2> QED
    BY <1>1, <2>3, <2>4, <2>5
<1> QED
  BY <1>3, <1>4

\* A scan of a pool whose first m pages are taken.
LEMMA ScanPrefix ==
  ASSUME NEW pool, NEW n \in Nat \ {0}, NEW m \in Nat, pool.bit_num \in Nat,
         pool.btmp = 0 .. m - 1
  PROVE  bitmap_scan(pool, n) = IF m + n <= pool.bit_num THEN m ELSE -1
<1>1. PICK free : free = {i \in 0 .. pool.bit_num - n :
                            \A j \in i .. i + n - 1 : j \notin pool.btmp}
  OBVIOUS
<1>2. bitmap_scan(pool, n) =
        IF free = {} THEN -1 ELSE CHOOSE i \in free : \A k \in free : i <= k
  BY <1>1 DEF bitmap_scan
<1>3. \A i \in free : i >= m
  BY <1>1
<1>4. CASE m + n <= pool.bit_num
  <2>1. m \in free
    BY <1>1, <1>4
  <2>2. \A i \in free : i \in Nat
    BY <1>1
  <2>3. ASSUME NEW i \in free, \A k \in free : i <= k PROVE i = m
    BY <1>3, <2>1, <2>2, <2>3
  <2> QED
    BY <1>2, <1>3, <1>4, <2>1, <2>3
<1>5. CASE ~(m + n <= pool.bit_num)
  <2>1. free = {}
    BY <1>1, <1>3, <1>5
  <2> QED
    BY <1>2, <1>5, <2>1
<1> QED
  BY <1>4, <1>5

-----------------------------------------------------------------------------
(* The kernel heap.                                                        *)

\* Where the pages and the addresses of the heap begin.
LEMMA Bases ==
  /\ used_mem \in Nat /\ used_mem # 0 /\ PG_SIZE \in Nat /\ PG_SIZE # 0
  /\ \A i \in Nat : K_HEAP_START + i * PG_SIZE \in Nat /\ K_HEAP_START + i * PG_SIZE # NULL
  /\ \A i \in Nat : used_mem + i * PG_SIZE \in Nat /\ used_mem + i * PG_SIZE # NULL
  /\ \A i, j \in Nat : used_mem + i * PG_SIZE = used_mem + j * PG_SIZE => i = j
<1>1. used_mem = 2097152
  BY SMT DEF used_mem, page_table_size, PG_SIZE, PAGE_DIR_CNT, PAGE_TAB_CNT,
         PAGE_DIR_START_ADDR
<1> QED
  BY SMT, <1>1 DEF PG_SIZE, K_HEAP_START, NULL

\* The pools of size pages from base on.
PoolRec(size, base) ==
  [btmp : SUBSET (0 .. size - 1), btmp_base : Int, bit_num : {size},
   addr_base : {base}, pool_size : Int]

\* A heap of size pages, of which the first m are given away and the first n
\* addresses taken; the addresses from n on are not mapped.
HeapShape(h, size, n, m) ==
  /\ h \in [phy : PoolRec(size, used_mem), vir : PoolRec(size, K_HEAP_START),
            pte : [0 .. size - 1 -> Int], vaddr : Int, repeated : BOOLEAN]
  /\ h.phy.btmp = 0 .. m - 1 /\ h.vir.btmp = 0 .. n - 1
  /\ \A x \in n .. size - 1 : h.pte[x] = NOT_PRESENT

\* The page table entries when addresses from n on get g pages from m on.
MapRun(f, n, m, g) ==
  [x \in DOMAIN f |-> IF x \in n .. n + g - 1 THEN used_mem + (m + x - n) * PG_SIZE
                                              ELSE f[x]]

\* The heap as a record of its fields.
HeapOf(p, v, f, a, r) == [phy |-> p, vir |-> v, pte |-> f, vaddr |-> a, repeated |-> r]

\* A pool of which the first m pages are given away.
Given(pool, m) == [pool EXCEPT !.btmp = 0 .. m - 1]

\* How many of j pages there are.
Got(size, m, j) == IF m + j <= size THEN j ELSE size - m

\* The heap after j rounds of malloc_page's loop.
Round(h, size, n, m, k, j) ==
  HeapOf(Given(h.phy, m + Got(size, m, j)), Given(h.vir, n + k),
         MapRun(h.pte, n, m, Got(size, m, j)),
         IF m + j <= size THEN addr_of(h.vir, n) ELSE NULL, h.repeated)

\* The heap with k addresses from i on taken, which is where the loop begins.
Reserved(h, i, k) ==
  [h EXCEPT !.vir.btmp = @ \cup (i .. i + k - 1), !.vaddr = addr_of(h.vir, i)]

\* The function that malloc_page's loop stands for.
LoopIs(f, h, i, k) ==
  f = [n \in 0 .. k |->
         IF n = 0
         THEN Reserved(h, i, k)
         ELSE IF f[n - 1].vaddr = NULL THEN f[n - 1]
         ELSE heap_map(f[n - 1], i + n - 1)]

\* Where there are addresses, kernel_pages_malloc is its loop run k times.
LEMMA LoopChosen ==
  ASSUME NEW h, NEW k, NEW i, i = bitmap_scan(h.vir, k), i # -1
  PROVE  kernel_pages_malloc(h, k) = (CHOOSE f : LoopIs(f, h, i, k))[k]
  BY DEF kernel_pages_malloc, LoopIs, Reserved

\* What the EXCEPTs of heap_map and kernel_pages_malloc do to the fields.
LEMMA PutVaddr ==
  ASSUME NEW p, NEW v, NEW f, NEW a, NEW r, NEW h, h = HeapOf(p, v, f, a, r), NEW x
  PROVE  [h EXCEPT !.vaddr = x] = HeapOf(p, v, f, x, r)
  BY DEF HeapOf

\* Assigning one field of the heap gives the record with that field.
LEMMA PutPhy ==
  ASSUME NEW p, NEW v, NEW f, NEW a, NEW r, NEW h, h = HeapOf(p, v, f, a, r), NEW x
  PROVE  [h EXCEPT !.phy = x] = HeapOf(x, v, f, a, r)
  BY DEF HeapOf

\* What one round assigns.
PageUpdate(h, x, y, i, c) == [h EXCEPT !.phy = x, !.repeated = y, !.pte[i] = c]

\* One round's assignments, in the terms of HeapOf.
LEMMA PutPage ==
  ASSUME NEW p, NEW v, NEW f, NEW a, NEW r, NEW h, h = HeapOf(p, v, f, a, r),
         NEW x, NEW y, NEW i, NEW c
  PROVE  PageUpdate(h, x, y, i, c) = HeapOf(x, v, [f EXCEPT ![i] = c], a, y)
<1>1. PICK h1 : h1 = [h EXCEPT !.phy = x]
  OBVIOUS
<1>2. h1 = HeapOf(x, v, f, a, r)
  BY <1>1 DEF HeapOf
<1>3. PICK h2 : h2 = [h1 EXCEPT !.repeated = y]
  OBVIOUS
<1>4. h2 = HeapOf(x, v, f, a, y)
  BY <1>2, <1>3 DEF HeapOf
<1>5. PICK f1 : f1 = [f EXCEPT ![i] = c]
  OBVIOUS
<1>6. [h2 EXCEPT !.pte = f1] = HeapOf(x, v, f1, a, y)
  BY <1>4 DEF HeapOf
<1>7. [h EXCEPT !.phy = x, !.repeated = y, !.pte[i] = c] = [h2 EXCEPT !.pte[i] = c]
  BY <1>1, <1>3 DEF HeapOf
<1>8. [h2 EXCEPT !.pte[i] = c] = [h2 EXCEPT !.pte = f1]
  BY <1>4, <1>5 DEF HeapOf
<1> QED
  BY <1>5, <1>6, <1>7, <1>8 DEF PageUpdate

\* What vaddr_get assigns.
VirUpdate(h, x, y) == [h EXCEPT !.vir.btmp = x, !.vaddr = y]

\* vaddr_get's assignments, in the terms of HeapOf.
LEMMA PutVir ==
  ASSUME NEW p, NEW v, NEW f, NEW a, NEW r, NEW h, h = HeapOf(p, v, f, a, r),
         NEW x, NEW y
  PROVE  VirUpdate(h, x, y) = HeapOf(p, [v EXCEPT !.btmp = x], f, y, r)
<1>1. PICK v1 : v1 = [v EXCEPT !.btmp = x]
  OBVIOUS
<1>2. PICK h3 : h3 = [h EXCEPT !.vir = v1]
  OBVIOUS
<1>3. h3 = HeapOf(p, v1, f, a, r)
  BY <1>2 DEF HeapOf
<1>4. [h3 EXCEPT !.vaddr = y] = HeapOf(p, v1, f, y, r)
  BY <1>3 DEF HeapOf
<1>5. [h EXCEPT !.vir.btmp = x, !.vaddr = y] = [h3 EXCEPT !.vaddr = y]
  BY <1>1, <1>2 DEF HeapOf
<1> QED
  BY <1>1, <1>4, <1>5 DEF VirUpdate

\* What was given away before is not remembered twice.
LEMMA GivenAgain ==
  ASSUME NEW size, NEW base, NEW p \in PoolRec(size, base), NEW x, NEW y
  PROVE  [[p EXCEPT !.btmp = x] EXCEPT !.btmp = y] = [p EXCEPT !.btmp = y]
  BY DEF PoolRec

\* One round of the loop.
LEMMA RoundStep ==
  ASSUME NEW size \in Nat, NEW n \in 0 .. size, NEW m \in 0 .. size,
         NEW k \in Nat \ {0}, n + k <= size, NEW h, HeapShape(h, size, n, m),
         NEW j \in 1 .. k, NEW q, q = Round(h, size, n, m, k, j - 1)
  PROVE  Round(h, size, n, m, k, j) =
           IF q.vaddr = NULL THEN q ELSE heap_map(q, n + j - 1)
<1>1. /\ h.phy \in PoolRec(size, used_mem) /\ h.vir \in PoolRec(size, K_HEAP_START)
      /\ h.pte \in [0 .. size - 1 -> Int] /\ h.repeated \in BOOLEAN
      /\ h.phy.btmp = 0 .. m - 1 /\ h.vir.btmp = 0 .. n - 1
      /\ \A x \in n .. size - 1 : h.pte[x] = NOT_PRESENT
  BY DEF HeapShape
<1>2. PICK a : a = addr_of(h.vir, n)
  OBVIOUS
<1>3. a # NULL /\ a \in Int
  <2>1. h.vir.addr_base = K_HEAP_START /\ n \in Nat
    BY <1>1 DEF PoolRec
  <2> QED
    BY <1>2, <2>1, Bases DEF addr_of
<1>4. PICK V : V = Given(h.vir, n + k)
  OBVIOUS
<1>5. CASE ~(m + (j - 1) <= size)
  <2>1. Got(size, m, j) = Got(size, m, j - 1) /\ ~(m + j <= size)
    BY <1>5 DEF Got
  <2>2. Round(h, size, n, m, k, j) = q /\ q.vaddr = NULL
    BY <1>5, <2>1 DEF Round, HeapOf
  <2> QED
    BY <2>2
<1>6. CASE m + (j - 1) <= size
  <2>1. Got(size, m, j - 1) = j - 1
    BY <1>6 DEF Got
  <2>2. PICK P : P = Given(h.phy, m + (j - 1))
    OBVIOUS
  <2>3. PICK F : F = MapRun(h.pte, n, m, j - 1)
    OBVIOUS
  <2>4. q = HeapOf(P, V, F, a, h.repeated)
    BY <1>2, <1>4, <1>6, <2>1, <2>2, <2>3 DEF Round
  <2>5. q.vaddr = a /\ q.phy = P /\ q.pte = F /\ q.repeated = h.repeated
    BY <2>4 DEF HeapOf
  <2>6. /\ P.bit_num = size /\ P.btmp = 0 .. m + (j - 1) - 1
        /\ P.addr_base = used_mem
    BY <1>1, <2>2 DEF Given, PoolRec
  <2>7. PICK M \in Nat : M = m + (j - 1)
    OBVIOUS
  <2>8. bitmap_scan(P, 1) = IF M + 1 <= size THEN M ELSE -1
    BY <2>6, <2>7, ScanPrefix
  <2>9. CASE ~(M + 1 <= size)
    <3>1. heap_map(q, n + j - 1) = [q EXCEPT !.vaddr = NULL]
      BY <2>5, <2>8, <2>9 DEF heap_map
    <3>2. [q EXCEPT !.vaddr = NULL] = HeapOf(P, V, F, NULL, h.repeated)
      BY <2>4, PutVaddr
    <3>3. Got(size, m, j) = j - 1 /\ ~(m + j <= size)
      BY <2>7, <2>9, <1>6 DEF Got
    <3>4. Round(h, size, n, m, k, j) = HeapOf(P, V, F, NULL, h.repeated)
      BY <3>3, <2>2, <2>3, <1>4 DEF Round
    <3> QED
      BY <1>3, <2>5, <3>1, <3>2, <3>4
  <2>10. CASE M + 1 <= size
    <3>1. PICK i \in 0 .. size - 1 : i = n + j - 1
      OBVIOUS
    <3>2. F \in [0 .. size - 1 -> Int] /\ F[i] = NOT_PRESENT
      BY <1>1, <2>3, <3>1, Bases DEF MapRun
    <3>3. PICK c : c = addr_of(P, M)
      OBVIOUS
    <3>4. M # -1
      BY <2>7
    <3>5. heap_map(q, i) =
            PageUpdate(q, bitmap_set(P, M), h.repeated \/ F[i] # NOT_PRESENT, i, c)
      BY <2>5, <2>8, <2>10, <3>3, <3>4 DEF heap_map, PageUpdate
    <3>6. (h.repeated \/ F[i] # NOT_PRESENT) = h.repeated
      BY <1>1, <3>2
    <3>7. PICK P1 : P1 = bitmap_set(P, M)
      OBVIOUS
    <3>8. PageUpdate(q, P1, h.repeated, i, c) =
            HeapOf(P1, V, [F EXCEPT ![i] = c], a, h.repeated)
      <4>1. PICK R, f1 : R = h.repeated /\ f1 = [F EXCEPT ![i] = c]
        OBVIOUS
      <4>2. q = HeapOf(P, V, F, a, R)
        BY <2>4, <4>1
      <4>3. PageUpdate(q, P1, R, i, c) = HeapOf(P1, V, [F EXCEPT ![i] = c], a, R)
        BY <4>2, PutPage
      <4> QED
        BY <4>1, <4>3
    <3>9. heap_map(q, i) = HeapOf(P1, V, [F EXCEPT ![i] = c], a, h.repeated)
      BY <3>5, <3>6, <3>7, <3>8
    <3>10. Got(size, m, j) = j /\ m + j <= size
      BY <2>7, <2>10 DEF Got
    <3>11. P1 = Given(h.phy, m + j)
      <4>1. (0 .. m + (j - 1) - 1) \cup {M} = 0 .. m + j - 1
        BY <2>7
      <4>2. PICK x, y : x = 0 .. m + (j - 1) - 1 /\ y = 0 .. m + j - 1
        OBVIOUS
      <4>3. P = [h.phy EXCEPT !.btmp = x]
        BY <2>2, <4>2 DEF Given
      <4>4. P1 = [P EXCEPT !.btmp = y]
        BY <2>6, <3>7, <4>1, <4>2 DEF bitmap_set
      <4>5. PICK H \in PoolRec(size, used_mem) : H = h.phy
        BY <1>1
      <4>6. [[H EXCEPT !.btmp = x] EXCEPT !.btmp = y] = [H EXCEPT !.btmp = y]
        BY GivenAgain
      <4>7. P1 = [H EXCEPT !.btmp = y]
        BY <4>3, <4>4, <4>5, <4>6
      <4> QED
        BY <4>2, <4>5, <4>7 DEF Given
    <3>12. [F EXCEPT ![i] = c] = MapRun(h.pte, n, m, j)
      <4>1. c = used_mem + (m + i - n) * PG_SIZE
        BY <2>6, <2>7, <3>1, <3>3 DEF addr_of
      <4>2. F = [x \in 0 .. size - 1 |->
                   IF x \in n .. n + (j - 1) - 1 THEN used_mem + (m + x - n) * PG_SIZE
                                                 ELSE h.pte[x]]
        BY <1>1, <2>3 DEF MapRun
      <4>3. MapRun(h.pte, n, m, j) =
              [x \in 0 .. size - 1 |->
                 IF x \in n .. n + j - 1 THEN used_mem + (m + x - n) * PG_SIZE
                                         ELSE h.pte[x]]
        BY <1>1 DEF MapRun
      <4>4. \A x \in 0 .. size - 1 :
              x \in n .. n + j - 1 <=> (x \in n .. n + (j - 1) - 1 \/ x = i)
        BY <3>1
      <4> QED
        BY <4>1, <4>2, <4>3, <4>4
    <3>13. Round(h, size, n, m, k, j) =
             HeapOf(P1, V, [F EXCEPT ![i] = c], a, h.repeated)
      BY <1>2, <1>4, <3>10, <3>11, <3>12 DEF Round
    <3> QED
      BY <1>3, <2>5, <3>1, <3>9, <3>13
  <2> QED
    BY <2>9, <2>10
<1> QED
  BY <1>5, <1>6

\* Before the first round the addresses are taken and nothing is mapped.
LEMMA RoundZero ==
  ASSUME NEW size \in Nat, NEW n \in 0 .. size, NEW m \in 0 .. size,
         NEW k \in Nat \ {0}, n + k <= size, NEW h, HeapShape(h, size, n, m)
  PROVE  Round(h, size, n, m, k, 0) = Reserved(h, n, k)
<1>1. /\ h.phy \in PoolRec(size, used_mem) /\ h.vir \in PoolRec(size, K_HEAP_START)
      /\ h.pte \in [0 .. size - 1 -> Int]
      /\ h.phy.btmp = 0 .. m - 1 /\ h.vir.btmp = 0 .. n - 1
  BY DEF HeapShape
<1>2. PICK P, V, F, A, R :
        P = h.phy /\ V = h.vir /\ F = h.pte /\ A = h.vaddr /\ R = h.repeated
  OBVIOUS
<1>3. h = HeapOf(P, V, F, A, R)
  BY <1>2 DEF HeapShape, HeapOf
<1>4. PICK x, y : x = 0 .. n + k - 1 /\ y = addr_of(h.vir, n)
  OBVIOUS
<1>5. VirUpdate(h, x, y) = HeapOf(P, [V EXCEPT !.btmp = x], F, y, R)
  BY <1>3, PutVir
<1>6. h.vir.btmp \cup (n .. n + k - 1) = x
  BY <1>1, <1>4
<1>7. Reserved(h, n, k) = VirUpdate(h, x, y)
  BY <1>4, <1>6 DEF VirUpdate, Reserved
<1>8. Got(size, m, 0) = 0 /\ m + 0 <= size /\ m + 0 = m
  BY DEF Got
<1>9. Given(P, m) = P
  BY <1>1, <1>2 DEF Given, PoolRec
<1>10. MapRun(F, n, m, 0) = F
  <2>1. \A z \in DOMAIN F : z \notin n .. n + 0 - 1
    BY <1>1, <1>2
  <2>2. MapRun(F, n, m, 0) = [z \in DOMAIN F |-> F[z]]
    BY <2>1 DEF MapRun
  <2> QED
    BY <1>1, <1>2, <2>2
<1>11. Round(h, size, n, m, k, 0) = HeapOf(P, Given(V, n + k), F, y, R)
  BY <1>2, <1>4, <1>8, <1>9, <1>10 DEF Round
<1> QED
  BY <1>4, <1>5, <1>7, <1>11 DEF Given

\* What kernel_pages_malloc(k) makes of the heap: k addresses are taken, and get
\* as many of the k pages as there are.
LEMMA MallocIs ==
  ASSUME NEW size \in Nat, NEW n \in 0 .. size, NEW m \in 0 .. size,
         NEW k \in Nat \ {0}, NEW h, HeapShape(h, size, n, m)
  PROVE  kernel_pages_malloc(h, k) =
           IF n + k <= size THEN Round(h, size, n, m, k, k) ELSE [h EXCEPT !.vaddr = NULL]
<1>1. h.vir.bit_num = size /\ h.vir.btmp = 0 .. n - 1
  BY DEF HeapShape, PoolRec
<1>2. bitmap_scan(h.vir, k) = IF n + k <= size THEN n ELSE -1
  BY <1>1, ScanPrefix
<1>3. CASE ~(n + k <= size)
  BY <1>2, <1>3 DEF kernel_pages_malloc
<1>4. CASE n + k <= size
  <2>1. PICK C : C = [j \in 0 .. k |-> Round(h, size, n, m, k, j)]
    OBVIOUS
  <2>2. PICK zero : zero = Reserved(h, n, k)
    OBVIOUS
  <2>3. \A f : LoopIs(f, h, n, k) <=>
          f = [j \in 0 .. k |-> IF j = 0 THEN zero
                                ELSE IF f[j - 1].vaddr = NULL THEN f[j - 1]
                                ELSE heap_map(f[j - 1], n + j - 1)]
    BY <2>2 DEF LoopIs
  <2>4. C[0] = zero
    <3>1. PICK r : r = Round(h, size, n, m, k, 0)
      OBVIOUS
    <3>2. C[0] = r
      BY <2>1, <3>1
    <3>3. r = zero
      BY <1>4, <2>2, <3>1, RoundZero
    <3> QED
      BY <3>2, <3>3
  <2>5. ASSUME NEW j \in 1 .. k
        PROVE  C[j] = IF C[j - 1].vaddr = NULL THEN C[j - 1]
                      ELSE heap_map(C[j - 1], n + j - 1)
    <3>1. PICK q : q = Round(h, size, n, m, k, j - 1)
      OBVIOUS
    <3>2. C[j - 1] = q /\ C[j] = Round(h, size, n, m, k, j)
      BY <2>1, <3>1
    <3> QED
      BY <1>4, <3>1, <3>2, RoundStep
  <2>6. LoopIs(C, h, n, k)
    <3>1. C = [j \in 0 .. k |-> C[j]]
      BY <2>1
    <3>2. \A j \in 0 .. k :
            C[j] = IF j = 0 THEN zero ELSE IF C[j - 1].vaddr = NULL THEN C[j - 1]
                                      ELSE heap_map(C[j - 1], n + j - 1)
      BY <2>4, <2>5
    <3> QED
      BY <2>3, <3>1, <3>2
  <2>7. PICK f : f = CHOOSE g : LoopIs(g, h, n, k)
    OBVIOUS
  <2>8. LoopIs(f, h, n, k)
    BY <2>6, <2>7
  <2>9. f[k] = C[k]
    <3> SUFFICES ASSUME f[k] # C[k] PROVE FALSE
      OBVIOUS
    <3>0. {j \in 0 .. k : f[j] # C[j]} \in SUBSET Nat
      OBVIOUS
    <3>1. PICK S \in SUBSET Nat : S = {j \in 0 .. k : f[j] # C[j]}
      BY <3>0
    <3>2. k \in S
      BY <3>1
    <3>3. PICK j \in S : \A z \in S : j <= z
      BY <3>2, LeastOf
    <3>4. j \in 0 .. k /\ f[j] # C[j]
      BY <3>1, <3>3
    <3>5. j # 0
      <4>1. f[0] = zero
        BY <2>3, <2>8
      <4> QED
        BY <2>4, <3>4, <4>1
    <3>6. f[j - 1] = C[j - 1]
      <4>1. j - 1 \in 0 .. k /\ ~(j <= j - 1)
        BY <3>4, <3>5
      <4> QED
        BY <3>1, <3>3, <4>1
    <3>7. f[j] = IF f[j - 1].vaddr = NULL THEN f[j - 1]
                 ELSE heap_map(f[j - 1], n + j - 1)
      BY <2>3, <2>8, <3>4, <3>5
    <3>8. j \in 1 .. k
      BY <3>4, <3>5
    <3> QED
      BY <2>5, <3>4, <3>6, <3>7, <3>8
  <2>10. n # -1
    OBVIOUS
  <2>11. kernel_pages_malloc(h, k) = f[k]
    BY <1>2, <1>4, <2>7, <2>10, LoopChosen
  <2> QED
    BY <1>4, <2>1, <2>9, <2>11
<1> QED
  BY <1>3, <1>4

-----------------------------------------------------------------------------
(* The inductive invariant.                                                *)

\* A page of the kernel pool.
KPage(b) == used_mem + b * PG_SIZE

\* A heap that shares no page, with the pages in T used for page tables.
HeapSound(h, size, n, m, T) ==
  /\ HeapShape(h, size, n, m)
  /\ h.repeated = FALSE
  /\ \A x \in 0 .. size - 1 :
       h.pte[x] # NOT_PRESENT =>
         /\ h.pte[x] \notin T
         /\ \E b \in 0 .. m - 1 : h.pte[x] = KPage(b)
         /\ \A y \in 0 .. size - 1 : h.pte[y] = h.pte[x] => y = x
  /\ T \subseteq {KPage(b) : b \in 0 .. m - 1}
  /\ \A b \in 0 .. m - 1 :
       KPage(b) \in T \/ \E x \in 0 .. size - 1 : h.pte[x] = KPage(b)

\* The number of pages of the kernel pool.
Size == heap.phy.bit_num

\* The pages that are page tables.
Tables == {pde[x[1]][x[2]] : x \in TableUse}

\* No process has run.
Booting == \A p \in Process : pc[p] \in {"none", "ready"}

\* No page is left.
Full(pool) == 0 .. pool.bit_num - 1 \subseteq pool.btmp

\* p is in malloc_page's loop.
InLoop(p) == pc[p] \in {"scan", "set", "map", "table"}

\* p is past mutex_lock and has not unlocked.
InMutex(p) == InLoop(p) \/ pc[p] \in {"vaddr", "unlock", "no_stack"}

\* The pages that a call under way has still to map.
Pending(p) == IF InLoop(p) THEN vaddr[p] .. vaddr[p] + cnt[p] - 1 ELSE {}

\* The pools follow one another and have the sizes mem_pool_init gave them.
PoolsInv ==
  /\ Size \in Nat
  /\ \E n, m \in 0 .. Size : HeapShape(heap, Size, n, m)
  /\ \E u \in Nat : /\ Size <= u
                    /\ user_phy_pool \in PoolRec(u, used_mem + Size * PG_SIZE)

\* The mutex is held by the process that is past mutex_lock, which is stuck
\* there only when the pool is exhausted.
MutexInv ==
  \A p \in Process :
    /\ InMutex(p) <=> user_phy_mtx = p
    /\ pc[p] = "no_stack" => Full(user_phy_pool)

\* The machine stops only when a pool is exhausted, and page 0 is a page table
\* only then.
StopInv ==
  /\ fault # "assert"
  /\ fault # "none" =>
       \/ bitmap_scan(heap.phy, IF fault = "low_memory" THEN BITMAP_PAGES ELSE 1) = -1
       \/ Full(user_phy_pool)
  /\ \A x \in TableUse :
       (\E b \in heap.phy.btmp : pde[x[1]][x[2]] = KPage(b)) \/ Full(heap.phy)

\* TCBs of threads come before processes, processes before any of them runs,
\* and a process is without a page directory only when there was no page.
BootInv ==
  /\ boot_pages <= KTHREAD_NUM => \A p \in Process : pc[p] = "none"
  /\ (\E p \in Process : pc[p] = "none") => Booting
  /\ \A p \in Process : pc[p] # "none" /\ pg_dir[p] = NULL => Full(heap.phy)

\* Kernel pages and addresses are given away from the first on, and a page is
\* mapped once or is one page table.
HeapInv ==
  \E n, m \in 0 .. Size :
    /\ HeapSound(heap, Size, n, m, Tables)
    /\ Booting => m = n \/ m = Size

\* No two directory entries name the same table.
TablesInv == \A x, y \in TableUse : pde[x[1]][x[2]] = pde[y[1]][y[2]] => x = y

\* A page of the user pool.
UPage(b) == addr_of(user_phy_pool, b)

\* A user page is mapped once, or at hand, or free.
PagesInv ==
  /\ \A p \in Process, va \in UserPage :
       Mapped(p, va) # NOT_PRESENT =>
         /\ \E b \in user_phy_pool.btmp : Mapped(p, va) = UPage(b)
         /\ \A q \in Process : paddr[q] # Mapped(p, va)
         /\ \A q \in Process, vb \in UserPage :
              Mapped(q, vb) = Mapped(p, va) => q = p /\ vb = va
  /\ \A p \in Process :
       paddr[p] # NULL => \E b \in user_phy_pool.btmp : paddr[p] = UPage(b)
  /\ \A b \in user_phy_pool.btmp :
       \/ \E p \in Process, va \in UserPage : Mapped(p, va) = UPage(b)
       \/ \E p \in Process : paddr[p] = UPage(b)

\* Before the stack of a process has got its address.
NoAddressYet(p) ==
  \/ pc[p] \in {"none", "ready"}
  \/ pc[p] \in {"lock", "vaddr"} /\ call[p] = "target_vaddr_malloc"

\* The locals of a process fit the place where it is.
CallOK(p) ==
  /\ NoAddressYet(p) => user_vaddr_btmp[p] = {}
  /\ pc[p] \in {"lock", "vaddr"} =>
       /\ cnt[p] >= 1
       /\ call[p] = "target_vaddr_malloc" => cnt[p] = 1
  /\ InLoop(p) => cnt[p] >= 1 /\ vaddr[p] \in UserPage
  /\ \A va \in Pending(p) : va \in UserPage /\ Mapped(p, va) = NOT_PRESENT
  /\ paddr[p] # NULL <=> pc[p] \in {"map", "table"}
  /\ pc[p] = "set" => /\ bit_idx[p] \in 0 .. user_phy_pool.bit_num - 1
                      /\ bit_idx[p] \notin user_phy_pool.btmp
  /\ pc[p] = "table" => /\ ~pde_present(p)
                        /\ bit_idx[p] = bitmap_scan(heap.phy, 1)

\* The locals of all calls under way.
CallInv == \A p \in Process : CallOK(p)

\* What is reserved is mapped, or will be, or the memory has run out.
ReservedOK(p) ==
  \A va \in UserPage :
    /\ Mapped(p, va) # NOT_PRESENT \/ va \in Pending(p)
         => va - USER_START_PAGE \in user_vaddr_btmp[p]
    /\ va - USER_START_PAGE \in user_vaddr_btmp[p]
         => Mapped(p, va) # NOT_PRESENT \/ va \in Pending(p) \/ Full(user_phy_pool)

\* The addresses of all processes.
ReservedInv == \A p \in Process : ReservedOK(p)

\* What holds while the machine runs.
RunInv ==
  BootInv /\ HeapInv /\ TablesInv /\ PagesInv /\ CallInv /\ ReservedInv

\* The inductive invariant of the allocator.
MemInv ==
  /\ TypeOK /\ PoolsInv /\ MutexInv /\ StopInv
  /\ fault = "none" => RunInv

-----------------------------------------------------------------------------
(* Allocation from the kernel heap keeps it sound.                         *)

\* Pages of the kernel pool are different, and not NULL.
LEMMA KPages ==
  /\ \A b \in Nat : KPage(b) \in Int /\ KPage(b) # NULL /\ KPage(b) # NOT_PRESENT
  /\ \A b, c \in Nat : KPage(b) = KPage(c) => b = c
<1>1. \A b \in Nat : KPage(b) \in Nat /\ KPage(b) # NULL
  BY Bases DEF KPage
<1>2. \A b, c \in Nat : KPage(b) = KPage(c) => b = c
  BY Bases DEF KPage
<1> QED
  BY <1>1, <1>2 DEF NOT_PRESENT

\* What r, made of h by an allocation of k pages, has of it.
Allocates(h, r, size, n, m, k, n1, m1, T) ==
  /\ HeapSound(r, size, n1, m1, T)
  /\ n <= n1 /\ m <= m1
  /\ \A x \in 0 .. size - 1 : h.pte[x] # NOT_PRESENT => r.pte[x] = h.pte[x]
  /\ m = n \/ m = size => m1 = n1 \/ m1 = size
  /\ r.vaddr = NULL /\ (m = n \/ m = size) => m1 + k > size
  /\ r.vaddr # NULL => \E i \in 0 .. size - 1 : r.vaddr = K_HEAP_START + i * PG_SIZE

\* Whatever kernel_pages_malloc returns, a heap that shares no page stays one:
\* the pages it took are mapped once and were free before.
LEMMA MallocSound ==
  ASSUME NEW size \in Nat, NEW n \in 0 .. size, NEW m \in 0 .. size,
         NEW k \in Nat \ {0}, NEW h, NEW T, HeapSound(h, size, n, m, T),
         NEW r, r = kernel_pages_malloc(h, k)
  PROVE  \E n1, m1 \in 0 .. size : Allocates(h, r, size, n, m, k, n1, m1, T)
<1>1. /\ HeapShape(h, size, n, m) /\ h.repeated = FALSE
      /\ \A x \in 0 .. size - 1 :
           h.pte[x] # NOT_PRESENT =>
             /\ h.pte[x] \notin T
             /\ \E b \in 0 .. m - 1 : h.pte[x] = KPage(b)
             /\ \A y \in 0 .. size - 1 : h.pte[y] = h.pte[x] => y = x
      /\ T \subseteq {KPage(b) : b \in 0 .. m - 1}
      /\ \A b \in 0 .. m - 1 :
           KPage(b) \in T \/ \E x \in 0 .. size - 1 : h.pte[x] = KPage(b)
  BY DEF HeapSound
<1>2. PICK P, V, F, A, R :
        P = h.phy /\ V = h.vir /\ F = h.pte /\ A = h.vaddr /\ R = h.repeated
  OBVIOUS
<1>3. h = HeapOf(P, V, F, A, R)
  BY <1>1, <1>2 DEF HeapShape, HeapOf
<1>4. /\ P \in PoolRec(size, used_mem) /\ V \in PoolRec(size, K_HEAP_START)
      /\ F \in [0 .. size - 1 -> Int] /\ P.btmp = 0 .. m - 1 /\ V.btmp = 0 .. n - 1
      /\ \A x \in n .. size - 1 : F[x] = NOT_PRESENT
  BY <1>1, <1>2 DEF HeapShape
<1>5. CASE ~(n + k <= size)
  <2>1. r = HeapOf(P, V, F, NULL, R)
    <3>1. r = [h EXCEPT !.vaddr = NULL]
      BY <1>1, <1>5, MallocIs
    <3> QED
      BY <1>3, <3>1, PutVaddr
  <2>2. r.phy = P /\ r.vir = V /\ r.pte = F /\ r.vaddr = NULL /\ r.repeated = FALSE
    BY <1>1, <1>2, <2>1 DEF HeapOf
  <2>3. HeapShape(r, size, n, m)
    <3>1. NULL \in Int
      BY DEF NULL
    <3>2. R \in BOOLEAN
      BY <1>1, <1>2
    <3> QED
      BY <1>4, <2>1, <2>2, <3>1, <3>2 DEF HeapShape, HeapOf
  <2>4. HeapSound(r, size, n, m, T)
    BY <1>1, <1>2, <2>2, <2>3 DEF HeapSound
  <2>5. Allocates(h, r, size, n, m, k, n, m, T)
    BY <1>2, <1>5, <2>2, <2>4 DEF Allocates
  <2> QED
    BY <2>5
<1>6. CASE n + k <= size
  <2>0. Got(size, m, k) \in 0 .. k
    BY DEF Got
  <2>1. PICK g \in 0 .. k : g = Got(size, m, k)
    BY <2>0
  <2>2. /\ m + g \in 0 .. size
        /\ m + k <= size => g = k
        /\ ~(m + k <= size) => m + g = size
    BY <2>1 DEF Got
  <2>3. PICK P1, V1, F1, A1 :
          /\ P1 = Given(P, m + g) /\ V1 = Given(V, n + k) /\ F1 = MapRun(F, n, m, g)
          /\ A1 = IF m + k <= size THEN addr_of(V, n) ELSE NULL
    OBVIOUS
  <2>4. r = HeapOf(P1, V1, F1, A1, R)
    <3>1. r = Round(h, size, n, m, k, k)
      BY <1>1, <1>6, MallocIs
    <3> QED
      BY <1>2, <2>1, <2>3, <3>1 DEF Round
  <2>5. r.phy = P1 /\ r.vir = V1 /\ r.pte = F1 /\ r.vaddr = A1 /\ r.repeated = FALSE
    BY <1>1, <1>2, <2>4 DEF HeapOf
  <2>6. /\ F1 = [x \in 0 .. size - 1 |->
                   IF x \in n .. n + g - 1 THEN KPage(m + x - n) ELSE F[x]]
    BY <1>4, <2>3 DEF MapRun, KPage
  <2>7. A1 \in Int /\ (A1 = NULL <=> ~(m + k <= size))
    <3>1. addr_of(V, n) = K_HEAP_START + n * PG_SIZE
      BY <1>4 DEF addr_of, PoolRec
    <3>2. addr_of(V, n) \in Int /\ addr_of(V, n) # NULL
      BY <3>1, Bases
    <3> QED
      BY <2>3, <3>2 DEF NULL
  <2>8. HeapShape(r, size, n + k, m + g)
    <3>1. P1 \in PoolRec(size, used_mem) /\ P1.btmp = 0 .. m + g - 1
      <4>1. 0 .. m + g - 1 \in SUBSET (0 .. size - 1)
        BY <2>2
      <4>2. PICK x \in SUBSET (0 .. size - 1) : x = 0 .. m + g - 1
        BY <4>1
      <4>3. P1 = [P EXCEPT !.btmp = x]
        BY <2>3, <4>2 DEF Given
      <4>4. P1 \in PoolRec(size, used_mem) /\ P1.btmp = x
        BY <1>4, <4>3 DEF PoolRec
      <4> QED
        BY <4>2, <4>4
    <3>2. V1 \in PoolRec(size, K_HEAP_START) /\ V1.btmp = 0 .. n + k - 1
      <4>1. 0 .. n + k - 1 \in SUBSET (0 .. size - 1)
        BY <1>6
      <4>2. PICK x \in SUBSET (0 .. size - 1) : x = 0 .. n + k - 1
        BY <4>1
      <4>3. V1 = [V EXCEPT !.btmp = x]
        BY <2>3, <4>2 DEF Given
      <4>4. V1 \in PoolRec(size, K_HEAP_START) /\ V1.btmp = x
        BY <1>4, <4>3 DEF PoolRec
      <4> QED
        BY <4>2, <4>4
    <3>3. F1 \in [0 .. size - 1 -> Int]
      BY <1>4, <2>6, KPages
    <3>4. \A x \in n + k .. size - 1 : F1[x] = NOT_PRESENT
      BY <1>4, <2>6
    <3>5. R \in BOOLEAN
      BY <1>1, <1>2
    <3> QED
      BY <2>4, <2>5, <2>7, <3>1, <3>2, <3>3, <3>4, <3>5 DEF HeapShape, HeapOf
  <2>9. \A x \in 0 .. size - 1 : F[x] # NOT_PRESENT => x < n /\ F1[x] = F[x]
    BY <1>4, <2>6
  <2>10. \A x \in 0 .. size - 1 : F1[x] # NOT_PRESENT =>
           \/ x < n /\ F[x] # NOT_PRESENT /\ F1[x] = F[x]
           \/ x \in n .. n + g - 1 /\ F1[x] = KPage(m + x - n)
    BY <1>4, <2>6
  <2>11. \A x \in 0 .. size - 1 : F[x] # NOT_PRESENT =>
           /\ F[x] \notin T
           /\ \E b \in 0 .. m - 1 : F[x] = KPage(b)
           /\ \A y \in 0 .. size - 1 : F[y] = F[x] => y = x
    BY <1>1, <1>2
  <2>12. \A c \in Nat : c >= m =>
           /\ KPage(c) \notin T
           /\ \A x \in 0 .. size - 1 : F[x] # NOT_PRESENT => F[x] # KPage(c)
    <3> SUFFICES ASSUME NEW c \in Nat, c >= m
                 PROVE  \A b \in 0 .. m - 1 : KPage(b) # KPage(c)
      BY <1>1, <2>11
    <3> QED
      BY KPages
  <2>13. ASSUME NEW x \in 0 .. size - 1, F1[x] # NOT_PRESENT
         PROVE  /\ F1[x] \notin T
                /\ \E b \in 0 .. m + g - 1 : F1[x] = KPage(b)
                /\ \A y \in 0 .. size - 1 : F1[y] = F1[x] => y = x
    <3>1. CASE x < n /\ F[x] # NOT_PRESENT /\ F1[x] = F[x]
      <4>1. F1[x] \notin T /\ \E b \in 0 .. m + g - 1 : F1[x] = KPage(b)
        BY <2>11, <3>1
      <4>2. ASSUME NEW y \in 0 .. size - 1, F1[y] = F1[x] PROVE y = x
        <5>1. CASE F1[y] = F[y]
          BY <2>11, <3>1, <4>2, <5>1
        <5>2. CASE y \in n .. n + g - 1 /\ F1[y] = KPage(m + y - n)
          <6>1. m + y - n \in Nat /\ m + y - n >= m
            BY <5>2
          <6> QED
            BY <2>12, <3>1, <4>2, <5>2, <6>1
        <5> QED
          BY <2>10, <2>13, <4>2, <5>1, <5>2
      <4> QED
        BY <4>1, <4>2
    <3>2. CASE x \in n .. n + g - 1 /\ F1[x] = KPage(m + x - n)
      <4>1. m + x - n \in Nat /\ m + x - n >= m /\ m + x - n \in 0 .. m + g - 1
        BY <3>2
      <4>2. ASSUME NEW y \in 0 .. size - 1, F1[y] = F1[x] PROVE y = x
        <5>1. CASE F[y] # NOT_PRESENT /\ F1[y] = F[y]
          BY <2>12, <3>2, <4>1, <4>2, <5>1
        <5>2. CASE y \in n .. n + g - 1 /\ F1[y] = KPage(m + y - n)
          <6>1. m + y - n \in Nat
            BY <5>2
          <6>2. m + y - n = m + x - n
            BY <3>2, <4>1, <4>2, <5>2, <6>1, KPages
          <6> QED
            BY <6>2
        <5> QED
          BY <2>10, <2>13, <4>2, <5>1, <5>2
      <4> QED
        BY <2>12, <3>2, <4>1, <4>2
    <3> QED
      BY <2>10, <2>13, <3>1, <3>2
  <2>14. ASSUME NEW b \in 0 .. m + g - 1
         PROVE  KPage(b) \in T \/ \E x \in 0 .. size - 1 : F1[x] = KPage(b)
    <3>1. CASE b < m
      <4>1. KPage(b) \in T \/ \E x \in 0 .. size - 1 : F[x] = KPage(b)
        BY <1>1, <1>2, <3>1
      <4>2. KPage(b) # NOT_PRESENT
        BY KPages
      <4> QED
        BY <2>9, <4>1, <4>2
    <3>2. CASE ~(b < m)
      <4>1. PICK x \in 0 .. size - 1 : x = n + (b - m)
        BY <1>6, <3>2
      <4>2. x \in n .. n + g - 1 /\ m + x - n = b
        BY <3>2, <4>1
      <4> QED
        BY <2>6, <4>2
    <3> QED
      BY <3>1, <3>2
  <2>15. T \subseteq {KPage(b) : b \in 0 .. m + g - 1}
    BY <1>1
  <2>16. HeapSound(r, size, n + k, m + g, T)
    BY <2>5, <2>8, <2>13, <2>14, <2>15 DEF HeapSound
  <2>17. A1 # NULL => A1 = K_HEAP_START + n * PG_SIZE /\ n \in 0 .. size - 1
    <3>1. addr_of(V, n) = K_HEAP_START + n * PG_SIZE
      BY <1>4 DEF addr_of, PoolRec
    <3> QED
      BY <1>6, <2>3, <3>1
  <2>18. n <= n + k /\ m <= m + g /\ n + k \in 0 .. size
    BY <1>6
  <2>19. m = n \/ m = size => m + g = n + k \/ m + g = size
    BY <2>2
  <2>20. A1 = NULL => m + g + k > size
    BY <2>2, <2>7
  <2>21. Allocates(h, r, size, n, m, k, n + k, m + g, T)
    BY <1>2, <2>5, <2>9, <2>16, <2>17, <2>18, <2>19, <2>20 DEF Allocates
  <2> QED
    BY <2>2, <2>18, <2>21
<1> QED
  BY <1>5, <1>6

-----------------------------------------------------------------------------
(* The start.                                                              *)

\* A pool has no free page exactly when a scan for one fails.
LEMMA Exhausted ==
  ASSUME NEW pool, pool.bit_num \in Nat
  PROVE  bitmap_scan(pool, 1) = -1 <=> Full(pool)
<1>1. \/ /\ bitmap_scan(pool, 1) \in 0 .. pool.bit_num - 1
         /\ \A j \in 0 .. 1 - 1 : bitmap_scan(pool, 1) + j \notin pool.btmp
      \/ /\ bitmap_scan(pool, 1) = -1
         /\ \A i \in 0 .. pool.bit_num - 1 : \E j \in i .. i + 1 - 1 : j \in pool.btmp
  BY ScanRun
<1>2. CASE bitmap_scan(pool, 1) = -1
  <2>1. \A i \in 0 .. pool.bit_num - 1 : i \in pool.btmp
    BY <1>1, <1>2
  <2> QED
    BY <1>2, <2>1 DEF Full
<1>3. CASE bitmap_scan(pool, 1) # -1
  <2>1. PICK i \in 0 .. pool.bit_num - 1 : i = bitmap_scan(pool, 1)
    BY <1>1, <1>3
  <2>2. i \notin pool.btmp
    BY <1>1, <1>3, <2>1
  <2> QED
    BY <1>3, <2>2 DEF Full
<1> QED
  BY <1>2, <1>3

\* mem_pool_init gives the kernel no more pages than the processes.
LEMMA PoolsMade ==
  ASSUME NEW all_mem \in MemSize, NEW pools, pools = mem_pool_init(all_mem)
  PROVE  \E k, u \in Nat :
           /\ k <= u
           /\ pools.kernel_phy \in PoolRec(k, used_mem) /\ pools.kernel_phy.btmp = {}
           /\ pools.kernel_vir \in PoolRec(k, K_HEAP_START) /\ pools.kernel_vir.btmp = {}
           /\ pools.user_phy \in PoolRec(u, used_mem + k * PG_SIZE)
           /\ pools.user_phy.btmp = {}
<1>1. all_mem \in Nat /\ all_mem >= used_mem /\ used_mem \in Nat
      /\ PG_SIZE \in Nat \ {0}
  BY MemoryAssumption, Bases
<1>2. PICK pages \in Nat : pages = (all_mem - used_mem) \div PG_SIZE
  <2>1. PICK x \in Nat : x = all_mem - used_mem
    BY <1>1
  <2>2. x \div PG_SIZE \in Nat
    BY <1>1
  <2> QED
    BY <2>1, <2>2
<1>3. PICK k \in Nat : k = pages \div 2 /\ k + k <= pages
  OBVIOUS
<1>4. PICK u \in Nat : u = pages - k /\ k <= u
  BY <1>3
<1>5. \A x \in Nat : btmp_bytes_len4pages(x) \in Int
  BY DEF btmp_bytes_len4pages
<1>6. PICK kb, ub \in Int : kb = btmp_bytes_len4pages(k) /\ ub = btmp_bytes_len4pages(u)
  BY <1>5
<1>7. /\ pools.kernel_phy = pool_init(MEM_BITMAP_BASE, used_mem, k)
      /\ pools.user_phy = pool_init(MEM_BITMAP_BASE + kb, used_mem + k * PG_SIZE, u)
      /\ pools.kernel_vir = pool_init(MEM_BITMAP_BASE + kb + ub, K_HEAP_START, k)
  BY <1>2, <1>3, <1>4, <1>6 DEF mem_pool_init
<1>8. MEM_BITMAP_BASE \in Int
  BY SMT DEF MEM_BITMAP_BASE
<1>9. ASSUME NEW base \in Int, NEW start, NEW z \in Nat
      PROVE  pool_init(base, start, z) \in PoolRec(z, start) /\ pool_init(base, start, z).btmp = {}
  BY <1>1, <1>9 DEF pool_init, PoolRec
<1> QED
  BY <1>4, <1>6, <1>7, <1>8, <1>9

\* Processes have pages.
LEMMA UserPages ==
  /\ UserPage \subseteq Nat /\ USER_STACK3_PAGE \in UserPage
  /\ USER_START_PAGE \in Nat /\ USER_PAGES \in Nat \ {0} /\ PT_ENTRIES \in Nat \ {0}
  /\ \A va \in UserPage : PDE_IDX(va) \in UserPde /\ PTE_IDX(va) \in PteIdx
  /\ \A va, vb \in UserPage :
       PDE_IDX(va) = PDE_IDX(vb) /\ PTE_IDX(va) = PTE_IDX(vb) => va = vb
<1>1. USER_START_PAGE \in Nat /\ USER_PAGES \in Nat \ {0} /\ PT_ENTRIES \in Nat \ {0}
  BY MemoryAssumption
<1>2. UserPage \subseteq Nat /\ USER_STACK3_PAGE \in UserPage
  BY <1>1 DEF UserPage, USER_STACK3_PAGE
<1>3. ASSUME NEW va \in UserPage PROVE PDE_IDX(va) \in UserPde /\ PTE_IDX(va) \in PteIdx
  BY <1>1, <1>2 DEF UserPde, PteIdx, PDE_IDX, PTE_IDX
<1>4. \A va \in Nat : va = (va \div PT_ENTRIES) * PT_ENTRIES + (va % PT_ENTRIES)
  BY <1>1
<1>5. ASSUME NEW va \in UserPage, NEW vb \in UserPage,
             PDE_IDX(va) = PDE_IDX(vb), PTE_IDX(va) = PTE_IDX(vb)
      PROVE  va = vb
  <2>1. va = (va \div PT_ENTRIES) * PT_ENTRIES + (va % PT_ENTRIES)
    BY <1>2, <1>4
  <2>2. vb = (vb \div PT_ENTRIES) * PT_ENTRIES + (vb % PT_ENTRIES)
    BY <1>2, <1>4
  <2> QED
    BY <1>5, <2>1, <2>2 DEF PDE_IDX, PTE_IDX
<1> QED
  BY <1>1, <1>2, <1>3, <1>5

\* The types of the pools and the heap.
HeapTypes ==
  /\ heap.phy \in Pool(heap.phy)
  /\ heap.vir \in Pool(heap.vir)
  /\ heap.pte \in [0 .. heap.vir.bit_num - 1
                     -> PageOf(heap.phy) \cup {NOT_PRESENT}]
  /\ heap.vaddr \in PageOf(heap.vir) \cup {NULL}
  /\ heap.repeated \in BOOLEAN

\* The types of the address spaces.
SpaceTypes ==
  /\ user_phy_pool \in Pool(user_phy_pool)
  /\ pg_dir \in [Process -> PageOf(heap.vir) \cup {NULL}]
  /\ user_vaddr_btmp \in [Process -> SUBSET (0 .. USER_PAGES - 1)]
  /\ pde \in [Process -> [UserPde -> PageOf(heap.phy) \cup {NULL, NOT_PRESENT}]]
  /\ page_table \in [PageOf(heap.phy) \cup {NULL}
                       -> [PteIdx -> PageOf(user_phy_pool) \cup {NOT_PRESENT}]]
  /\ paddr \in [Process -> PageOf(user_phy_pool) \cup {NULL}]

\* The types of the locals.
CallTypes ==
  /\ user_phy_mtx \in Process \cup {NO_PROCESS}
  /\ boot_pages \in 0 .. KTHREAD_NUM + 1
  /\ pc \in [Process -> Location]
  /\ call \in [Process -> {"none", "target_vaddr_malloc", "user_pages_malloc"}]
  /\ cnt \in [Process -> PgCnt \cup 0 .. PG_CNT_MAX]
  /\ vaddr \in [Process -> UserPage \cup {0, USER_START_PAGE + USER_PAGES}]
  /\ bit_idx \in [Process -> -1 .. user_phy_pool.bit_num]
  /\ fault \in {"none", "assert", "panic", "low_memory", "page_fault"}

\* TypeOK in three parts, of which most steps disturb one.
LEMMA TypeParts == TypeOK <=> HeapTypes /\ SpaceTypes /\ CallTypes
<1>1. TypeOK => HeapTypes
  BY DEF TypeOK, HeapTypes
<1>2. TypeOK => SpaceTypes
  BY DEF TypeOK, SpaceTypes
<1>3. TypeOK => CallTypes
  BY DEF TypeOK, CallTypes
<1>4. HeapTypes /\ SpaceTypes /\ CallTypes => TypeOK
  BY DEF TypeOK, HeapTypes, SpaceTypes, CallTypes
<1> QED
  BY <1>1, <1>2, <1>3, <1>4

\* MemInv holds at the start.
LEMMA MemInit == Init => MemInv
<1> SUFFICES ASSUME Init PROVE MemInv
  OBVIOUS
<1>1. PICK all_mem \in MemSize :
        LET pools == mem_pool_init(all_mem)
        IN  /\ heap = [phy |-> pools.kernel_phy, vir |-> pools.kernel_vir,
                       pte |-> [i \in 0 .. pools.kernel_vir.bit_num - 1 |-> NOT_PRESENT],
                       vaddr |-> NULL, repeated |-> FALSE]
            /\ user_phy_pool = pools.user_phy
            /\ page_table = [a \in PageOf(pools.kernel_phy) \cup {NULL} |-> empty_table]
  BY DEF Init
<1>2. PICK pools : pools = mem_pool_init(all_mem)
  OBVIOUS
<1>3. /\ heap = [phy |-> pools.kernel_phy, vir |-> pools.kernel_vir,
                 pte |-> [i \in 0 .. pools.kernel_vir.bit_num - 1 |-> NOT_PRESENT],
                 vaddr |-> NULL, repeated |-> FALSE]
      /\ user_phy_pool = pools.user_phy
      /\ page_table = [a \in PageOf(pools.kernel_phy) \cup {NULL} |-> empty_table]
  BY <1>1, <1>2
<1>4. PICK k, u \in Nat :
        /\ k <= u
        /\ pools.kernel_phy \in PoolRec(k, used_mem) /\ pools.kernel_phy.btmp = {}
        /\ pools.kernel_vir \in PoolRec(k, K_HEAP_START) /\ pools.kernel_vir.btmp = {}
        /\ pools.user_phy \in PoolRec(u, used_mem + k * PG_SIZE)
        /\ pools.user_phy.btmp = {}
  BY <1>2, PoolsMade
<1>5. /\ heap.phy \in PoolRec(k, used_mem) /\ heap.phy.btmp = {}
      /\ heap.vir \in PoolRec(k, K_HEAP_START) /\ heap.vir.btmp = {}
      /\ user_phy_pool \in PoolRec(u, used_mem + k * PG_SIZE) /\ user_phy_pool.btmp = {}
      /\ heap.pte = [i \in 0 .. k - 1 |-> NOT_PRESENT] /\ heap.vaddr = NULL
      /\ heap.repeated = FALSE
      /\ page_table = [a \in PageOf(heap.phy) \cup {NULL} |-> empty_table]
  BY <1>3, <1>4 DEF PoolRec
<1>6. Size = k /\ k \in Nat /\ heap.vir.bit_num = k /\ user_phy_pool.bit_num = u
  BY <1>5 DEF Size, PoolRec
<1>7. HeapShape(heap, k, 0, 0)
  <2>1. NOT_PRESENT \in Int /\ NULL \in Int /\ 0 .. 0 - 1 = {}
    BY DEF NOT_PRESENT, NULL
  <2> QED
    BY <1>3, <1>5, <2>1 DEF HeapShape
<1>8. PoolsInv
  BY <1>4, <1>5, <1>6, <1>7 DEF PoolsInv
<1>9. /\ pg_dir = [p \in Process |-> NULL] /\ user_vaddr_btmp = [p \in Process |-> {}]
      /\ pde = [p \in Process |-> [i \in UserPde |-> NOT_PRESENT]]
      /\ pc = [p \in Process |-> "none"] /\ call = [p \in Process |-> "none"]
      /\ cnt = [p \in Process |-> 0] /\ vaddr = [p \in Process |-> 0]
      /\ bit_idx = [p \in Process |-> -1] /\ paddr = [p \in Process |-> NULL]
      /\ fault = "none" /\ boot_pages = 0 /\ user_phy_mtx = NO_PROCESS
  BY DEF Init
<1>10. TableUse = {} /\ Tables = {}
  BY <1>9 DEF TableUse, Tables
<1>11. \A p \in Process, va \in UserPage : Mapped(p, va) = NOT_PRESENT
  BY <1>9, UserPages DEF Mapped
<1>12. TypeOK
  <2>1. heap.phy \in Pool(heap.phy) /\ heap.vir \in Pool(heap.vir)
        /\ user_phy_pool \in Pool(user_phy_pool)
    BY <1>5 DEF Pool, PoolRec
  <2>2. heap.pte \in [0 .. heap.vir.bit_num - 1 -> PageOf(heap.phy) \cup {NOT_PRESENT}]
    BY <1>5, <1>6
  <2>3. page_table \in [PageOf(heap.phy) \cup {NULL}
                          -> [PteIdx -> PageOf(user_phy_pool) \cup {NOT_PRESENT}]]
    BY <1>5 DEF empty_table
  <2>4. boot_pages \in 0 .. KTHREAD_NUM + 1
    BY <1>9, MemoryAssumption
  <2>5. bit_idx \in [Process -> -1 .. user_phy_pool.bit_num]
    BY <1>6, <1>9
  <2>6. pc \in [Process -> Location]
    BY <1>9 DEF Location
  <2>7. /\ heap.vaddr \in PageOf(heap.vir) \cup {NULL} /\ heap.repeated \in BOOLEAN
        /\ user_phy_mtx \in Process \cup {NO_PROCESS}
        /\ pg_dir \in [Process -> PageOf(heap.vir) \cup {NULL}]
        /\ user_vaddr_btmp \in [Process -> SUBSET (0 .. USER_PAGES - 1)]
    BY <1>5, <1>9
  <2>8. /\ pde \in [Process -> [UserPde -> PageOf(heap.phy) \cup {NULL, NOT_PRESENT}]]
        /\ call \in [Process -> {"none", "target_vaddr_malloc", "user_pages_malloc"}]
        /\ vaddr \in [Process -> UserPage \cup {0, USER_START_PAGE + USER_PAGES}]
        /\ paddr \in [Process -> PageOf(user_phy_pool) \cup {NULL}]
        /\ fault \in {"none", "assert", "panic", "low_memory", "page_fault"}
    BY <1>9
  <2>9. cnt \in [Process -> PgCnt \cup 0 .. PG_CNT_MAX]
    BY <1>9, SMT DEF PG_CNT_MAX
  <2> QED
    BY <2>1, <2>2, <2>3, <2>4, <2>5, <2>6, <2>7, <2>8, <2>9 DEF TypeOK
<1>13. MutexInv
  <2>1. \A p \in Process : ~InMutex(p) /\ pc[p] # "no_stack"
    BY <1>9 DEF InMutex, InLoop
  <2>2. user_phy_mtx = NO_PROCESS
    BY <1>9
  <2>3. \A p \in Process : user_phy_mtx # p
    BY <2>2, MemoryAssumption
  <2> QED
    BY <2>1, <2>3 DEF MutexInv
<1>14. StopInv
  BY <1>9, <1>10 DEF StopInv
<1>15. BootInv
  BY <1>9 DEF BootInv, Booting
<1>16. HeapInv
  <2>1. HeapSound(heap, Size, 0, 0, Tables)
    BY <1>5, <1>6, <1>7, <1>10 DEF HeapSound
  <2>2. 0 \in 0 .. Size
    BY <1>6
  <2> QED
    BY <2>1, <2>2 DEF HeapInv
<1>17. TablesInv
  BY <1>10 DEF TablesInv
<1>18. PagesInv
  BY <1>5, <1>9, <1>11 DEF PagesInv
<1>19. \A p \in Process : ~InLoop(p) /\ Pending(p) = {} /\ pc[p] = "none"
  BY <1>9 DEF InLoop, Pending
<1>20. CallInv
  BY <1>9, <1>11, <1>19 DEF CallInv, CallOK
<1>21. ReservedInv
  BY <1>9, <1>11, <1>19 DEF ReservedInv, ReservedOK
<1> QED
  BY <1>8, <1>12, <1>13, <1>14, <1>15, <1>16, <1>17, <1>18, <1>20, <1>21 DEF MemInv, RunInv

-----------------------------------------------------------------------------
(* What a step leaves alone.                                               *)

\* The pools do not move.
LEMMA Shape ==
  ASSUME PoolsInv
  PROVE  /\ Size \in Nat /\ heap.vir.bit_num = Size
         /\ user_phy_pool.bit_num \in Nat /\ Size <= user_phy_pool.bit_num
         /\ \A b : addr_of(heap.phy, b) = KPage(b)
         /\ \A b : UPage(b) = used_mem + Size * PG_SIZE + b * PG_SIZE
         /\ heap.phy.btmp \subseteq 0 .. Size - 1
         /\ user_phy_pool.btmp \subseteq 0 .. user_phy_pool.bit_num - 1
<1>1. PICK n, m \in 0 .. Size : HeapShape(heap, Size, n, m)
  BY DEF PoolsInv
<1>2. heap.phy \in PoolRec(Size, used_mem) /\ heap.vir \in PoolRec(Size, K_HEAP_START)
  BY <1>1 DEF HeapShape
<1>3. PICK u \in Nat : Size <= u /\ user_phy_pool \in PoolRec(u, used_mem + Size * PG_SIZE)
  BY DEF PoolsInv
<1>4. Size \in Nat
  BY DEF PoolsInv
<1>5. /\ heap.phy.addr_base = used_mem /\ heap.vir.bit_num = Size
      /\ heap.phy.btmp \subseteq 0 .. Size - 1
  BY <1>2 DEF PoolRec
<1>6. /\ user_phy_pool.bit_num = u /\ user_phy_pool.addr_base = used_mem + Size * PG_SIZE
      /\ user_phy_pool.btmp \subseteq 0 .. u - 1
  BY <1>3 DEF PoolRec
<1> QED
  BY <1>3, <1>4, <1>5, <1>6 DEF addr_of, KPage, UPage

\* The pages of the two pools are different.
LEMMA UPages ==
  ASSUME PoolsInv
  PROVE  /\ \A b \in Nat : UPage(b) \in Nat /\ UPage(b) # NULL /\ UPage(b) # NOT_PRESENT
         /\ \A b, c \in Nat : UPage(b) = UPage(c) => b = c
         /\ \A b \in Nat, c \in 0 .. Size - 1 : UPage(b) # KPage(c)
<1>1. PICK k \in Nat : k = Size
  BY DEF PoolsInv
<1>2. \A b : UPage(b) = used_mem + k * PG_SIZE + b * PG_SIZE
  BY <1>1, Shape
<1>3. used_mem \in Nat /\ used_mem # 0
  BY Bases
<1>4. PICK base \in Nat : base = used_mem /\ base # 0
  BY <1>3
<1>5. \A b \in Nat : UPage(b) = base + k * 4096 + b * 4096
  BY <1>2, <1>4 DEF PG_SIZE
<1>6. \A b \in Nat : KPage(b) = base + b * 4096
  BY <1>4 DEF PG_SIZE, KPage
<1>7. \A b \in Nat : UPage(b) \in Nat /\ UPage(b) # NULL /\ UPage(b) # NOT_PRESENT
  BY <1>4, <1>5, SMT DEF NULL, NOT_PRESENT
<1>8. \A b, c \in Nat : UPage(b) = UPage(c) => b = c
  BY <1>5, SMT
<1>9. \A b \in Nat, c \in 0 .. k - 1 : UPage(b) # KPage(c)
  BY <1>5, <1>6, SMT
<1> QED
  BY <1>1, <1>7, <1>8, <1>9

\* Who leaves directories and tables alone leaves every mapping alone.
LEMMA KeptMaps ==
  ASSUME UNCHANGED <<pde, page_table>>
  PROVE  /\ \A p, va : Mapped(p, va)' = Mapped(p, va)
         /\ TableUse' = TableUse /\ Tables' = Tables
<1>1. \A p, va : Mapped(p, va)' = Mapped(p, va)
  BY DEF Mapped
<1>2. TableUse' = TableUse
  BY DEF TableUse
<1>3. Tables' = Tables
  BY <1>2 DEF Tables
<1> QED
  BY <1>1, <1>2, <1>3

\* A process that a step of another does not concern.
Untouched(q) ==
  /\ pc'[q] = pc[q] /\ call'[q] = call[q] /\ cnt'[q] = cnt[q]
  /\ vaddr'[q] = vaddr[q] /\ bit_idx'[q] = bit_idx[q] /\ paddr'[q] = paddr[q]
  /\ user_vaddr_btmp'[q] = user_vaddr_btmp[q] /\ pde'[q] = pde[q]
  /\ \A va \in UserPage : Mapped(q, va)' = Mapped(q, va)

\* Pages are given away and never come back.
PoolGrows ==
  /\ user_phy_pool'.bit_num = user_phy_pool.bit_num
  /\ user_phy_pool.btmp \subseteq user_phy_pool'.btmp

\* A step of another process leaves the locals of q fitting its place, if the
\* pools stay as they are while q is in the loop.
LEMMA OtherCall ==
  ASSUME NEW q \in Process, Untouched(q), CallOK(q),
         InLoop(q) => user_phy_pool' = user_phy_pool /\ heap'.phy = heap.phy
  PROVE  CallOK(q)' /\ Pending(q)' = Pending(q)
<1>1. InLoop(q)' = InLoop(q)
  BY DEF InLoop, Untouched
<1>2. Pending(q)' = Pending(q)
  BY <1>1 DEF Pending, Untouched
<1>3. NoAddressYet(q)' = NoAddressYet(q)
  BY DEF NoAddressYet, Untouched
<1>4. pde_present(q)' = pde_present(q)
  BY DEF pde_present, Untouched
<1>5. /\ NoAddressYet(q)' => user_vaddr_btmp'[q] = {}
      /\ pc'[q] \in {"lock", "vaddr"} =>
           /\ cnt'[q] >= 1
           /\ call'[q] = "target_vaddr_malloc" => cnt'[q] = 1
      /\ InLoop(q)' => cnt'[q] >= 1 /\ vaddr'[q] \in UserPage
  BY <1>1, <1>3 DEF CallOK, Untouched
<1>6. \A va \in Pending(q)' : va \in UserPage /\ Mapped(q, va)' = NOT_PRESENT
  BY <1>2 DEF CallOK, Untouched
<1>7. paddr'[q] # NULL <=> pc'[q] \in {"map", "table"}
  BY DEF CallOK, Untouched
<1>8. pc'[q] = "set" => /\ bit_idx'[q] \in 0 .. user_phy_pool'.bit_num - 1
                        /\ bit_idx'[q] \notin user_phy_pool'.btmp
  BY DEF CallOK, Untouched, InLoop
<1>9. pc'[q] = "table" => /\ ~pde_present(q)'
                          /\ bit_idx'[q] = bitmap_scan(heap'.phy, 1)
  BY <1>4 DEF CallOK, Untouched, InLoop
<1> QED
  BY <1>2, <1>5, <1>6, <1>7, <1>8, <1>9 DEF CallOK

\* A step of another process leaves the addresses of q accounted for.
LEMMA OtherReserved ==
  ASSUME NEW q \in Process, Untouched(q), ReservedOK(q), PoolGrows,
         Pending(q)' = Pending(q)
  PROVE  ReservedOK(q)'
<1>1. Full(user_phy_pool) => Full(user_phy_pool')
  BY DEF Full, PoolGrows
<1> QED
  BY <1>1 DEF ReservedOK, Untouched

-----------------------------------------------------------------------------
(* Steps that allocate no page.                                            *)

\* A step that leaves the pools, the tables and the pages at hand alone.
Quiet ==
  UNCHANGED <<heap, user_phy_pool, boot_pages, pg_dir, pde, page_table, paddr>>

\* Where p may go once the processes run.
Moves(p) ==
  \/ pc' = pc
  \/ \E w \in Location \ {"none", "ready"} : pc' = [pc EXCEPT ![p] = w]

\* Once the processes run, a step of p moves no other, and boot is over.
LEMMA MovesBooted ==
  ASSUME TypeOK, NEW p \in Process, Booted, Moves(p)
  PROVE  /\ \A q \in Process : q # p => pc'[q] = pc[q]
         /\ \A q \in Process : pc'[q] # "none"
         /\ Booting' => Booting
<1>0. pc \in [Process -> Location]
  BY DEF TypeOK
<1>1. CASE pc' = pc
  BY <1>1 DEF Booted, Booting
<1>2. CASE \E w \in Location \ {"none", "ready"} : pc' = [pc EXCEPT ![p] = w]
  <2>1. PICK w \in Location \ {"none", "ready"} : pc' = [pc EXCEPT ![p] = w]
    BY <1>2
  <2>2. pc'[p] = w /\ w # "none" /\ w # "ready"
    BY <1>0, <2>1
  <2>3. \A q \in Process : q # p => pc'[q] = pc[q]
    BY <1>0, <2>1
  <2>4. ~Booting'
    BY <2>2 DEF Booting
  <2> QED
    BY <2>2, <2>3, <2>4 DEF Booted
<1> QED
  BY <1>1, <1>2 DEF Moves

\* A quiet step keeps the parts of the invariant that are about memory.
LEMMA QuietStep ==
  ASSUME MemInv, fault = "none", NEW p \in Process, Booted, Quiet, Moves(p)
  PROVE  /\ HeapTypes' /\ PoolsInv' /\ BootInv' /\ HeapInv' /\ TablesInv' /\ PagesInv'
         /\ fault' = "none" => StopInv'
<1>1. /\ TypeOK /\ PoolsInv /\ StopInv
      /\ BootInv /\ HeapInv /\ TablesInv /\ PagesInv
  BY DEF MemInv, RunInv
<1>2. /\ heap' = heap /\ user_phy_pool' = user_phy_pool /\ boot_pages' = boot_pages
      /\ pg_dir' = pg_dir /\ pde' = pde /\ page_table' = page_table /\ paddr' = paddr
  BY DEF Quiet
<1>3. /\ \A q, va : Mapped(q, va)' = Mapped(q, va)
      /\ TableUse' = TableUse /\ Tables' = Tables
  BY <1>2, KeptMaps
<1>4. Size' = Size
  BY <1>2 DEF Size
<1>5. \A b : UPage(b)' = UPage(b)
  BY <1>2 DEF UPage
<1>6. HeapTypes'
  BY <1>1, <1>2, TypeParts DEF HeapTypes
<1>7. PoolsInv'
  BY <1>1, <1>2, <1>4 DEF PoolsInv
<1>8. BootInv'
  <2>1. \A q \in Process : pc'[q] # "none" /\ pc[q] # "none"
    BY <1>1, MovesBooted DEF Booted
  <2>2. ~(boot_pages' <= KTHREAD_NUM) \/ Process = {}
    BY <1>1, <1>2, <2>1 DEF BootInv
  <2>3. \A q \in Process : pg_dir'[q] = NULL => Full(heap'.phy)
    BY <1>1, <1>2, <2>1 DEF BootInv
  <2> QED
    BY <2>1, <2>2, <2>3 DEF BootInv
<1>9. HeapInv'
  <2>1. PICK n, m \in 0 .. Size :
          HeapSound(heap, Size, n, m, Tables) /\ (Booting => m = n \/ m = Size)
    BY <1>1 DEF HeapInv
  <2>2. Booting' => Booting
    BY <1>1, MovesBooted
  <2> QED
    BY <1>2, <1>3, <1>4, <2>1, <2>2 DEF HeapInv
<1>10. TablesInv'
  BY <1>1, <1>2, <1>3 DEF TablesInv
<1>11. PagesInv'
  BY <1>1, <1>2, <1>3, <1>5 DEF PagesInv
<1>12. fault' = "none" => StopInv'
  BY <1>1, <1>2, <1>3 DEF StopInv
<1> QED
  BY <1>6, <1>7, <1>8, <1>9, <1>10, <1>11, <1>12

\* A quiet step keeps the types of the address spaces.
LEMMA QuietSpace ==
  ASSUME TypeOK, Quiet,
         user_vaddr_btmp' \in [Process -> SUBSET (0 .. USER_PAGES - 1)]
  PROVE  SpaceTypes'
<1>1. SpaceTypes
  BY TypeParts
<1>2. /\ heap' = heap /\ user_phy_pool' = user_phy_pool
      /\ pg_dir' = pg_dir /\ pde' = pde /\ page_table' = page_table /\ paddr' = paddr
  BY DEF Quiet
<1> QED
  BY <1>1, <1>2 DEF SpaceTypes

\* A step of p that concerns no other process.
Alone(p) == \A q \in Process : q # p => Untouched(q)

\* A step of p disturbs no other process: only the one in the mutex changes
\* the pools, and no other is then in the loop.
LEMMA OthersOK ==
  ASSUME MemInv, fault = "none", NEW p \in Process, Alone(p), PoolGrows,
         InMutex(p) \/ (user_phy_pool' = user_phy_pool /\ heap'.phy = heap.phy)
  PROVE  \A q \in Process : q # p =>
           /\ CallOK(q)' /\ ReservedOK(q)' /\ (InMutex(q)' <=> InMutex(q))
           /\ pc'[q] = "no_stack" => Full(user_phy_pool')
<1> SUFFICES ASSUME NEW q \in Process, q # p
             PROVE  /\ CallOK(q)' /\ ReservedOK(q)' /\ (InMutex(q)' <=> InMutex(q))
                    /\ pc'[q] = "no_stack" => Full(user_phy_pool')
  OBVIOUS
<1>1. MutexInv /\ CallOK(q) /\ ReservedOK(q)
  BY DEF MemInv, RunInv, CallInv, ReservedInv
<1>2. Untouched(q)
  BY DEF Alone
<1>3. InLoop(q) => user_phy_pool' = user_phy_pool /\ heap'.phy = heap.phy
  BY <1>1 DEF MutexInv, InMutex
<1>4. CallOK(q)' /\ Pending(q)' = Pending(q)
  BY <1>1, <1>2, <1>3, OtherCall
<1>5. ReservedOK(q)'
  BY <1>1, <1>2, <1>4, OtherReserved
<1>6. (InMutex(q)' <=> InMutex(q))
  BY <1>2 DEF InMutex, InLoop, Untouched
<1>7. pc'[q] = "no_stack" => Full(user_phy_pool')
  BY <1>1, <1>2 DEF MutexInv, Untouched, Full, PoolGrows
<1> QED
  BY <1>4, <1>5, <1>6, <1>7

\* The mutex is kept by the one who has it.
LEMMA MutexKept ==
  ASSUME MutexInv, NEW p \in Process, user_phy_mtx' = user_phy_mtx,
         \A q \in Process : q # p =>
           /\ (InMutex(q)' <=> InMutex(q))
           /\ pc'[q] = "no_stack" => Full(user_phy_pool'),
         (InMutex(p)' <=> InMutex(p)), pc'[p] = "no_stack" => Full(user_phy_pool')
  PROVE  MutexInv'
  BY DEF MutexInv

\* MemInv, part by part.
LEMMA Together ==
  ASSUME NEW p \in Process,
         HeapTypes', SpaceTypes', CallTypes', PoolsInv', MutexInv', StopInv',
         BootInv', HeapInv', TablesInv', PagesInv', CallOK(p)', ReservedOK(p)',
         \A q \in Process : q # p => CallOK(q)' /\ ReservedOK(q)'
  PROVE  MemInv'
<1>1. TypeOK'
  BY TypeParts, PTL
<1>2. CallInv' /\ ReservedInv'
  BY DEF CallInv, ReservedInv
<1> QED
  BY <1>1, <1>2 DEF MemInv, RunInv

\* p keeps, takes or gives back the mutex of the user pool.
MutexStep(p) ==
  /\ pc'[p] = "no_stack" => Full(user_phy_pool')
  /\ \/ user_phy_mtx' = user_phy_mtx /\ (InMutex(p)' <=> InMutex(p))
     \/ user_phy_mtx = NO_PROCESS /\ user_phy_mtx' = p /\ InMutex(p)'
     \/ user_phy_mtx = p /\ user_phy_mtx' = NO_PROCESS /\ ~InMutex(p)'

\* For a quiet step the invariant comes down to the process that takes it.
LEMMA QuietMemInv ==
  ASSUME MemInv, fault = "none", fault' = "none", NEW p \in Process, Booted, Quiet,
         Moves(p), Alone(p),
         user_vaddr_btmp' \in [Process -> SUBSET (0 .. USER_PAGES - 1)],
         CallTypes', CallOK(p)', ReservedOK(p)', MutexStep(p)
  PROVE  MemInv'
<1>1. TypeOK /\ MutexInv
  BY DEF MemInv
<1>2. PoolGrows /\ user_phy_pool' = user_phy_pool /\ heap'.phy = heap.phy
  BY DEF Quiet, PoolGrows
<1>3. \A q \in Process : q # p =>
        /\ CallOK(q)' /\ ReservedOK(q)' /\ (InMutex(q)' <=> InMutex(q))
        /\ pc'[q] = "no_stack" => Full(user_phy_pool')
  BY <1>2, OthersOK
<1>4. MutexInv'
  <2>1. CASE user_phy_mtx' = user_phy_mtx /\ (InMutex(p)' <=> InMutex(p))
    BY <1>1, <1>3, <2>1, MutexKept DEF MutexStep
  <2>2. CASE user_phy_mtx = NO_PROCESS /\ user_phy_mtx' = p /\ InMutex(p)'
    <3>1. \A q \in Process : ~InMutex(q)
      BY <1>1, <2>2, MemoryAssumption DEF MutexInv
    <3> QED
      BY <1>3, <2>2, <3>1 DEF MutexInv, MutexStep
  <2>3. CASE user_phy_mtx = p /\ user_phy_mtx' = NO_PROCESS /\ ~InMutex(p)'
    <3>1. \A q \in Process : q # p => ~InMutex(q)
      BY <1>1, <2>3 DEF MutexInv
    <3>2. \A q \in Process : ~InMutex(q)' /\ NO_PROCESS # q
      BY <1>3, <2>3, <3>1, MemoryAssumption
    <3> QED
      BY <1>3, <2>3, <3>2 DEF MutexInv, MutexStep
  <2> QED
    BY <2>1, <2>2, <2>3 DEF MutexStep
<1>5. SpaceTypes'
  BY <1>1, QuietSpace
<1>6. /\ HeapTypes' /\ PoolsInv' /\ BootInv' /\ HeapInv' /\ TablesInv' /\ PagesInv'
      /\ StopInv'
  BY QuietStep
<1> QED
  BY <1>3, <1>4, <1>5, <1>6, Together

\* What MemInv says of the locals of a process, and of what it has mapped.
LEMMA Locals ==
  ASSUME MemInv, fault = "none", NEW p \in Process
  PROVE  /\ CallOK(p) /\ ReservedOK(p) /\ CallTypes /\ TypeOK /\ PoolsInv
         /\ (InMutex(p) <=> user_phy_mtx = p)
         /\ pc \in [Process -> Location]
         /\ call \in [Process -> {"none", "target_vaddr_malloc", "user_pages_malloc"}]
         /\ cnt \in [Process -> Nat]
         /\ vaddr \in [Process -> Nat]
         /\ bit_idx \in [Process -> Int]
         /\ DOMAIN paddr = Process
         /\ user_vaddr_btmp \in [Process -> SUBSET (0 .. USER_PAGES - 1)]
<1>1. /\ CallOK(p) /\ ReservedOK(p) /\ CallTypes /\ TypeOK /\ SpaceTypes /\ PoolsInv
      /\ (InMutex(p) <=> user_phy_mtx = p)
  BY TypeParts DEF MemInv, RunInv, CallInv, ReservedInv, MutexInv
<1>2. PgCnt \cup 0 .. PG_CNT_MAX \subseteq Nat
  <2>1. PgCnt \subseteq 1 .. PG_CNT_MAX
    BY MemoryAssumption
  <2>2. PG_CNT_MAX \in Nat
    BY SMT DEF PG_CNT_MAX
  <2> QED
    BY <2>1, <2>2
<1>3. cnt \in [Process -> Nat]
  BY <1>1, <1>2 DEF CallTypes
<1>4. vaddr \in [Process -> Nat]
  <2>1. UserPage \cup {0, USER_START_PAGE + USER_PAGES} \subseteq Nat
    BY UserPages
  <2>2. vaddr \in [Process -> UserPage \cup {0, USER_START_PAGE + USER_PAGES}]
    BY <1>1 DEF CallTypes
  <2> QED
    BY <2>1, <2>2
<1>5. bit_idx \in [Process -> Int]
  BY <1>1 DEF CallTypes
<1> QED
  BY <1>1, <1>3, <1>4, <1>5 DEF CallTypes, SpaceTypes

\* A quiet step keeps what is reserved when it keeps what is pending.
LEMMA ReservedKept ==
  ASSUME NEW p, ReservedOK(p), Quiet, user_vaddr_btmp'[p] = user_vaddr_btmp[p],
         \A va \in UserPage : va \in Pending(p)' <=> va \in Pending(p)
  PROVE  ReservedOK(p)'
<1>1. \A va : Mapped(p, va)' = Mapped(p, va)
  BY KeptMaps DEF Quiet
<1>2. user_phy_pool' = user_phy_pool
  BY DEF Quiet
<1> QED
  BY <1>1, <1>2 DEF ReservedOK

\* process_entry asks for the stack page.
LEMMA EntryStep ==
  ASSUME MemInv, NEW p \in Process, ProcessEntry(p)
  PROVE  MemInv'
<1>1. /\ fault = "none" /\ fault' = "none" /\ Booted /\ pc[p] = "ready"
      /\ pc' = [pc EXCEPT ![p] = "lock"]
      /\ call' = [call EXCEPT ![p] = "target_vaddr_malloc"]
      /\ cnt' = [cnt EXCEPT ![p] = 1]
      /\ Quiet /\ user_phy_mtx' = user_phy_mtx /\ user_vaddr_btmp' = user_vaddr_btmp
      /\ vaddr' = vaddr /\ bit_idx' = bit_idx /\ paddr' = paddr
  BY DEF ProcessEntry, At, Goto, Quiet, sharedVars, spaceVars
<1>2. /\ CallOK(p) /\ ReservedOK(p) /\ CallTypes
      /\ pc \in [Process -> Location]
      /\ call \in [Process -> {"none", "target_vaddr_malloc", "user_pages_malloc"}]
      /\ cnt \in [Process -> Nat]
      /\ user_vaddr_btmp \in [Process -> SUBSET (0 .. USER_PAGES - 1)]
  BY <1>1, Locals
<1>3. \A q, va : Mapped(q, va)' = Mapped(q, va)
  BY <1>1, KeptMaps DEF Quiet
<1>4. Alone(p)
  BY <1>1, <1>2, <1>3 DEF Alone, Untouched, Quiet
<1>5. Moves(p)
  BY <1>1 DEF Moves, Location
<1>6. pc'[p] = "lock" /\ call'[p] = "target_vaddr_malloc" /\ cnt'[p] = 1
  BY <1>1, <1>2
<1>7. ~InMutex(p) /\ ~InMutex(p)' /\ ~InLoop(p) /\ ~InLoop(p)'
  BY <1>1, <1>6 DEF InMutex, InLoop
<1>8. Pending(p) = {} /\ Pending(p)' = {}
  BY <1>7 DEF Pending
<1>9. CallOK(p)'
  <2>1. user_vaddr_btmp[p] = {} /\ paddr[p] = NULL
    BY <1>1, <1>2 DEF CallOK, NoAddressYet
  <2> QED
    BY <1>1, <1>6, <1>7, <1>8, <2>1 DEF CallOK
<1>10. ReservedOK(p)'
  BY <1>1, <1>2, <1>8, ReservedKept
<1>11. CallTypes'
  <2>1. 1 \in 0 .. PG_CNT_MAX
    BY SMT DEF PG_CNT_MAX
  <2>2. pc' \in [Process -> Location]
    BY <1>1, <1>2 DEF Location
  <2> QED
    BY <1>1, <1>2, <2>1, <2>2 DEF CallTypes, Quiet
<1>12. MutexStep(p)
  BY <1>1, <1>6, <1>7 DEF MutexStep
<1>13. user_vaddr_btmp' \in [Process -> SUBSET (0 .. USER_PAGES - 1)]
  BY <1>1, <1>2
<1>14. fault = "none" /\ fault' = "none" /\ Booted /\ Quiet
  BY <1>1
<1> QED
  BY <1>4, <1>5, <1>9, <1>10, <1>11, <1>12, <1>13, <1>14,
     QuietMemInv

\* user_pages_malloc begins.
LEMMA RequestStep ==
  ASSUME MemInv, NEW p \in Process, NEW n \in PgCnt, UserPagesMalloc(p, n)
  PROVE  MemInv'
<1>1. /\ fault = "none" /\ fault' = "none" /\ Booted /\ pc[p] = "user"
      /\ pc' = [pc EXCEPT ![p] = "lock"]
      /\ call' = [call EXCEPT ![p] = "user_pages_malloc"]
      /\ cnt' = [cnt EXCEPT ![p] = n]
      /\ Quiet /\ user_phy_mtx' = user_phy_mtx /\ user_vaddr_btmp' = user_vaddr_btmp
      /\ vaddr' = vaddr /\ bit_idx' = bit_idx /\ paddr' = paddr
  BY DEF UserPagesMalloc, At, Goto, Quiet, sharedVars, spaceVars
<1>2. /\ CallOK(p) /\ ReservedOK(p) /\ CallTypes
      /\ pc \in [Process -> Location]
      /\ call \in [Process -> {"none", "target_vaddr_malloc", "user_pages_malloc"}]
      /\ cnt \in [Process -> Nat]
      /\ user_vaddr_btmp \in [Process -> SUBSET (0 .. USER_PAGES - 1)]
  BY <1>1, Locals
<1>3. \A q, va : Mapped(q, va)' = Mapped(q, va)
  BY <1>1, KeptMaps DEF Quiet
<1>4. Alone(p)
  BY <1>1, <1>2, <1>3 DEF Alone, Untouched, Quiet
<1>5. Moves(p)
  BY <1>1 DEF Moves, Location
<1>6. /\ pc'[p] = "lock" /\ call'[p] = "user_pages_malloc" /\ cnt'[p] = n
      /\ n \in Nat /\ n >= 1
  <2>1. n \in 1 .. PG_CNT_MAX /\ PG_CNT_MAX \in Nat
    BY MemoryAssumption, SMT DEF PG_CNT_MAX
  <2> QED
    BY <1>1, <1>2, <2>1
<1>7. ~InMutex(p) /\ ~InMutex(p)' /\ ~InLoop(p) /\ ~InLoop(p)'
  BY <1>1, <1>6 DEF InMutex, InLoop
<1>8. Pending(p) = {} /\ Pending(p)' = {}
  BY <1>7 DEF Pending
<1>9. CallOK(p)'
  <2>1. paddr[p] = NULL
    BY <1>1, <1>2 DEF CallOK
  <2>2. ~NoAddressYet(p)'
    BY <1>6 DEF NoAddressYet
  <2> QED
    BY <1>1, <1>6, <1>7, <1>8, <2>1, <2>2 DEF CallOK
<1>10. ReservedOK(p)'
  BY <1>1, <1>2, <1>8, ReservedKept
<1>11. CallTypes'
  <2>1. n \in PgCnt \cup 0 .. PG_CNT_MAX
    OBVIOUS
  <2>2. pc' \in [Process -> Location]
    BY <1>1, <1>2 DEF Location
  <2> QED
    BY <1>1, <1>2, <2>1, <2>2 DEF CallTypes, Quiet
<1>12. MutexStep(p)
  BY <1>1, <1>6, <1>7 DEF MutexStep
<1>13. user_vaddr_btmp' \in [Process -> SUBSET (0 .. USER_PAGES - 1)]
  BY <1>1, <1>2
<1>14. fault = "none" /\ fault' = "none" /\ Booted /\ Quiet
  BY <1>1
<1> QED
  BY <1>4, <1>5, <1>9, <1>10, <1>11, <1>12, <1>13, <1>14, QuietMemInv

\* mutex_lock of the user pool.
LEMMA LockStep ==
  ASSUME MemInv, NEW p \in Process, MutexLock(p)
  PROVE  MemInv'
<1>1. /\ fault = "none" /\ fault' = "none" /\ Booted /\ pc[p] = "lock"
      /\ pc' = [pc EXCEPT ![p] = "vaddr"]
      /\ user_phy_mtx = NO_PROCESS /\ user_phy_mtx' = p
      /\ Quiet /\ user_vaddr_btmp' = user_vaddr_btmp /\ call' = call /\ cnt' = cnt
      /\ vaddr' = vaddr /\ bit_idx' = bit_idx /\ paddr' = paddr
  BY DEF MutexLock, At, Goto, Quiet, sharedVars, spaceVars
<1>2. /\ CallOK(p) /\ ReservedOK(p) /\ CallTypes
      /\ pc \in [Process -> Location]
      /\ user_vaddr_btmp \in [Process -> SUBSET (0 .. USER_PAGES - 1)]
  BY <1>1, Locals
<1>3. \A q, va : Mapped(q, va)' = Mapped(q, va)
  BY <1>1, KeptMaps DEF Quiet
<1>4. Alone(p)
  BY <1>1, <1>2, <1>3 DEF Alone, Untouched, Quiet
<1>5. Moves(p)
  BY <1>1 DEF Moves, Location
<1>6. pc'[p] = "vaddr"
  BY <1>1, <1>2
<1>7. InMutex(p)' /\ ~InLoop(p) /\ ~InLoop(p)'
  BY <1>1, <1>6 DEF InMutex, InLoop
<1>8. Pending(p) = {} /\ Pending(p)' = {}
  BY <1>7 DEF Pending
<1>9. CallOK(p)'
  <2>1. paddr[p] = NULL
    BY <1>1, <1>2 DEF CallOK
  <2>2. NoAddressYet(p)' => NoAddressYet(p)
    BY <1>1, <1>6 DEF NoAddressYet
  <2> QED
    BY <1>1, <1>2, <1>6, <1>7, <1>8, <2>1, <2>2 DEF CallOK
<1>10. ReservedOK(p)'
  BY <1>1, <1>2, <1>8, ReservedKept
<1>11. CallTypes'
  <2>2. pc' \in [Process -> Location]
    BY <1>1, <1>2 DEF Location
  <2> QED
    BY <1>1, <1>2, <2>2 DEF CallTypes, Quiet
<1>12. MutexStep(p)
  BY <1>1, <1>6, <1>7 DEF MutexStep
<1>13. user_vaddr_btmp' \in [Process -> SUBSET (0 .. USER_PAGES - 1)]
  BY <1>1, <1>2
<1>14. fault = "none" /\ fault' = "none" /\ Booted /\ Quiet
  BY <1>1
<1> QED
  BY <1>4, <1>5, <1>9, <1>10, <1>11, <1>12, <1>13, <1>14, QuietMemInv

\* mutex_unlock of the user pool.
LEMMA UnlockStep ==
  ASSUME MemInv, NEW p \in Process, MutexUnlock(p)
  PROVE  MemInv'
<1>1. /\ fault = "none" /\ fault' = "none" /\ Booted /\ pc[p] = "unlock"
      /\ pc' = [pc EXCEPT ![p] = "user"] /\ user_phy_mtx' = NO_PROCESS
      /\ call' = [call EXCEPT ![p] = "none"] /\ cnt' = [cnt EXCEPT ![p] = 0]
      /\ vaddr' = [vaddr EXCEPT ![p] = 0] /\ bit_idx' = [bit_idx EXCEPT ![p] = -1]
      /\ Quiet /\ user_vaddr_btmp' = user_vaddr_btmp /\ paddr' = paddr
  BY DEF MutexUnlock, At, Goto, Quiet, sharedVars, spaceVars
<1>2. /\ CallOK(p) /\ ReservedOK(p) /\ CallTypes /\ PoolsInv
      /\ (InMutex(p) <=> user_phy_mtx = p)
      /\ pc \in [Process -> Location]
      /\ call \in [Process -> {"none", "target_vaddr_malloc", "user_pages_malloc"}]
      /\ cnt \in [Process -> Nat] /\ vaddr \in [Process -> Nat]
      /\ bit_idx \in [Process -> Int]
      /\ user_vaddr_btmp \in [Process -> SUBSET (0 .. USER_PAGES - 1)]
  BY <1>1, Locals
<1>3. \A q, va : Mapped(q, va)' = Mapped(q, va)
  BY <1>1, KeptMaps DEF Quiet
<1>4. Alone(p)
  BY <1>1, <1>2, <1>3 DEF Alone, Untouched, Quiet
<1>5. Moves(p)
  BY <1>1 DEF Moves, Location
<1>6. pc'[p] = "user"
  BY <1>1, <1>2
<1>7. InMutex(p) /\ ~InMutex(p)' /\ ~InLoop(p) /\ ~InLoop(p)'
  BY <1>1, <1>6 DEF InMutex, InLoop
<1>8. Pending(p) = {} /\ Pending(p)' = {}
  BY <1>7 DEF Pending
<1>9. CallOK(p)'
  <2>1. paddr[p] = NULL
    BY <1>1, <1>2 DEF CallOK
  <2>2. ~NoAddressYet(p)'
    BY <1>6 DEF NoAddressYet
  <2> QED
    BY <1>1, <1>6, <1>7, <1>8, <2>1, <2>2 DEF CallOK
<1>10. ReservedOK(p)'
  BY <1>1, <1>2, <1>8, ReservedKept
<1>11. CallTypes'
  <2>1. 0 \in 0 .. PG_CNT_MAX
    BY SMT DEF PG_CNT_MAX
  <2>2. pc' \in [Process -> Location]
    BY <1>1, <1>2 DEF Location
  <2>3. -1 \in -1 .. user_phy_pool.bit_num
    BY <1>2, Shape
  <2>4. cnt' \in [Process -> PgCnt \cup 0 .. PG_CNT_MAX]
    BY <1>1, <1>2, <2>1 DEF CallTypes
  <2>5. vaddr' \in [Process -> UserPage \cup {0, USER_START_PAGE + USER_PAGES}]
    BY <1>1, <1>2 DEF CallTypes
  <2>6. bit_idx' \in [Process -> -1 .. user_phy_pool'.bit_num]
    BY <1>1, <1>2, <2>3 DEF CallTypes, Quiet
  <2> QED
    BY <1>1, <1>2, <2>2, <2>4, <2>5, <2>6 DEF CallTypes, Quiet
<1>12. MutexStep(p)
  BY <1>1, <1>2, <1>6, <1>7 DEF MutexStep
<1>13. user_vaddr_btmp' \in [Process -> SUBSET (0 .. USER_PAGES - 1)]
  BY <1>1, <1>2
<1>14. fault = "none" /\ fault' = "none" /\ Booted /\ Quiet
  BY <1>1
<1> QED
  BY <1>4, <1>5, <1>9, <1>10, <1>11, <1>12, <1>13, <1>14, QuietMemInv

\* The scan of paddr_get, in the user pool.
LEMMA ScanStep ==
  ASSUME MemInv, NEW p \in Process, PaddrScan(p)
  PROVE  MemInv'
<1>0. PICK b, w : /\ b = bitmap_scan(user_phy_pool, 1)
                  /\ w = IF b = -1 THEN no_page_exit(p) ELSE "set"
  OBVIOUS
<1>1. /\ fault = "none" /\ fault' = "none" /\ Booted /\ pc[p] = "scan"
      /\ pc' = [pc EXCEPT ![p] = w]
      /\ bit_idx' = [bit_idx EXCEPT ![p] = b]
      /\ Quiet /\ user_phy_mtx' = user_phy_mtx /\ user_vaddr_btmp' = user_vaddr_btmp
      /\ call' = call /\ cnt' = cnt /\ vaddr' = vaddr /\ paddr' = paddr
  BY <1>0 DEF PaddrScan, At, Goto, Quiet, sharedVars, spaceVars
<1>2. /\ CallOK(p) /\ ReservedOK(p) /\ CallTypes /\ PoolsInv
      /\ pc \in [Process -> Location]
      /\ bit_idx \in [Process -> Int]
      /\ user_vaddr_btmp \in [Process -> SUBSET (0 .. USER_PAGES - 1)]
  BY <1>1, Locals
<1>3. \A q, va : Mapped(q, va)' = Mapped(q, va)
  BY <1>1, KeptMaps DEF Quiet
<1>4. Alone(p)
  BY <1>1, <1>2, <1>3 DEF Alone, Untouched, Quiet
<1>5. /\ b = -1 => Full(user_phy_pool) /\ w \in {"no_stack", "unlock"}
      /\ b # -1 => /\ w = "set"
                   /\ b \in 0 .. user_phy_pool.bit_num - 1 /\ b \notin user_phy_pool.btmp
  <2>1. user_phy_pool.bit_num \in Nat
    BY <1>2, Shape
  <2>2. b = -1 <=> Full(user_phy_pool)
    BY <1>0, <2>1, Exhausted
  <2>3. b # -1 => /\ b \in 0 .. user_phy_pool.bit_num - 1
                  /\ \A j \in 0 .. 1 - 1 : b + j \notin user_phy_pool.btmp
    BY <1>0, <2>1, ScanRun
  <2>4. b # -1 => b \notin user_phy_pool.btmp
    <3> SUFFICES ASSUME b # -1 PROVE b \notin user_phy_pool.btmp
      OBVIOUS
    <3>1. b + 0 \notin user_phy_pool.btmp /\ b \in Int
      BY <2>3
    <3> QED
      BY <3>1
  <2> QED
    BY <1>0, <2>2, <2>3, <2>4 DEF no_page_exit
<1>6. pc'[p] = w /\ w \in {"no_stack", "unlock", "set"} /\ bit_idx'[p] = b
  BY <1>1, <1>2, <1>5
<1>7. InMutex(p) /\ InMutex(p)' /\ InLoop(p) /\ (InLoop(p)' <=> w = "set")
  BY <1>1, <1>6 DEF InMutex, InLoop
<1>8. Pending(p)' = IF w = "set" THEN Pending(p) ELSE {}
  BY <1>1, <1>7 DEF Pending
<1>9. CallOK(p)'
  <2>1. paddr[p] = NULL /\ cnt[p] >= 1 /\ vaddr[p] \in UserPage
        /\ \A va \in Pending(p) : va \in UserPage /\ Mapped(p, va) = NOT_PRESENT
    BY <1>1, <1>2, <1>7 DEF CallOK
  <2>2. ~NoAddressYet(p)'
    BY <1>6 DEF NoAddressYet
  <2>3. \A va \in Pending(p)' : va \in UserPage /\ Mapped(p, va)' = NOT_PRESENT
    BY <1>3, <1>8, <2>1
  <2>4. pc'[p] = "set" => /\ bit_idx'[p] \in 0 .. user_phy_pool'.bit_num - 1
                          /\ bit_idx'[p] \notin user_phy_pool'.btmp
    BY <1>1, <1>5, <1>6 DEF Quiet
  <2> QED
    BY <1>1, <1>6, <2>1, <2>2, <2>3, <2>4 DEF CallOK
<1>10. ReservedOK(p)'
  <2>1. user_phy_pool' = user_phy_pool
    BY <1>1 DEF Quiet
  <2> QED
    BY <1>1, <1>2, <1>3, <1>5, <1>8, <2>1 DEF ReservedOK
<1>11. CallTypes'
  <2>1. pc' \in [Process -> Location]
    BY <1>1, <1>2, <1>6 DEF Location
  <2>2. b \in -1 .. user_phy_pool.bit_num
    BY <1>2, <1>5, Shape
  <2>3. bit_idx' \in [Process -> -1 .. user_phy_pool'.bit_num]
    BY <1>1, <1>2, <2>2 DEF CallTypes, Quiet
  <2> QED
    BY <1>1, <1>2, <2>1, <2>3 DEF CallTypes, Quiet
<1>12. MutexStep(p)
  BY <1>1, <1>5, <1>6, <1>7 DEF MutexStep, Quiet
<1>13. user_vaddr_btmp' \in [Process -> SUBSET (0 .. USER_PAGES - 1)]
  BY <1>1, <1>2
<1>14. fault = "none" /\ fault' = "none" /\ Booted /\ Quiet
  BY <1>1
<1>15. Moves(p)
  BY <1>1, <1>6 DEF Moves, Location
<1> QED
  BY <1>4, <1>9, <1>10, <1>11, <1>12, <1>13, <1>14, <1>15, QuietMemInv

\* The scan of paddr_get, for a page table.
LEMMA TableScanStep ==
  ASSUME MemInv, NEW p \in Process, TableScan(p)
  PROVE  MemInv'
<1>0. PICK b : b = bitmap_scan(heap.phy, 1)
  OBVIOUS
<1>1. /\ fault = "none" /\ fault' = "none" /\ Booted /\ pc[p] = "map"
      /\ ~pde_present(p)
      /\ pc' = [pc EXCEPT ![p] = "table"]
      /\ bit_idx' = [bit_idx EXCEPT ![p] = b]
      /\ Quiet /\ user_phy_mtx' = user_phy_mtx /\ user_vaddr_btmp' = user_vaddr_btmp
      /\ call' = call /\ cnt' = cnt /\ vaddr' = vaddr /\ paddr' = paddr
  BY <1>0 DEF TableScan, At, Goto, Quiet, sharedVars, spaceVars
<1>2. /\ CallOK(p) /\ ReservedOK(p) /\ CallTypes /\ PoolsInv
      /\ pc \in [Process -> Location]
      /\ bit_idx \in [Process -> Int]
      /\ user_vaddr_btmp \in [Process -> SUBSET (0 .. USER_PAGES - 1)]
  BY <1>1, Locals
<1>3. \A q, va : Mapped(q, va)' = Mapped(q, va)
  BY <1>1, KeptMaps DEF Quiet
<1>4. Alone(p)
  BY <1>1, <1>2, <1>3 DEF Alone, Untouched, Quiet
<1>5. Moves(p)
  BY <1>1 DEF Moves, Location
<1>6. pc'[p] = "table" /\ bit_idx'[p] = b
  BY <1>1, <1>2
<1>7. InMutex(p) /\ InMutex(p)' /\ InLoop(p) /\ InLoop(p)'
  BY <1>1, <1>6 DEF InMutex, InLoop
<1>8. Pending(p)' = Pending(p)
  BY <1>1, <1>7 DEF Pending
<1>9. CallOK(p)'
  <2>1. paddr[p] # NULL /\ cnt[p] >= 1 /\ vaddr[p] \in UserPage
        /\ \A va \in Pending(p) : va \in UserPage /\ Mapped(p, va) = NOT_PRESENT
    BY <1>1, <1>2, <1>7 DEF CallOK
  <2>2. ~NoAddressYet(p)'
    BY <1>6 DEF NoAddressYet
  <2>3. \A va \in Pending(p)' : va \in UserPage /\ Mapped(p, va)' = NOT_PRESENT
    BY <1>3, <1>8, <2>1
  <2>4. ~pde_present(p)'
    BY <1>1 DEF pde_present, Quiet
  <2>5. bit_idx'[p] = bitmap_scan(heap'.phy, 1)
    BY <1>0, <1>1, <1>6 DEF Quiet
  <2> QED
    BY <1>1, <1>6, <2>1, <2>2, <2>3, <2>4, <2>5 DEF CallOK
<1>10. ReservedOK(p)'
  BY <1>1, <1>2, <1>8, ReservedKept
<1>11. CallTypes'
  <2>1. pc' \in [Process -> Location]
    BY <1>1, <1>2 DEF Location
  <2>2. b \in -1 .. user_phy_pool.bit_num
    <3>1. /\ heap.phy.bit_num \in Nat /\ user_phy_pool.bit_num \in Nat
          /\ heap.phy.bit_num <= user_phy_pool.bit_num
      BY <1>2, Shape DEF Size
    <3>2. b \in 0 .. heap.phy.bit_num - 1 \/ b = -1
      BY <1>0, <3>1, ScanRun
    <3> QED
      BY <3>1, <3>2
  <2>3. bit_idx' \in [Process -> -1 .. user_phy_pool'.bit_num]
    BY <1>1, <1>2, <2>2 DEF CallTypes, Quiet
  <2> QED
    BY <1>1, <1>2, <2>1, <2>3 DEF CallTypes, Quiet
<1>12. MutexStep(p)
  BY <1>1, <1>6, <1>7 DEF MutexStep
<1>13. user_vaddr_btmp' \in [Process -> SUBSET (0 .. USER_PAGES - 1)]
  BY <1>1, <1>2
<1>14. fault = "none" /\ fault' = "none" /\ Booted /\ Quiet
  BY <1>1
<1> QED
  BY <1>4, <1>5, <1>9, <1>10, <1>11, <1>12, <1>13, <1>14, QuietMemInv

\* The addresses that p reserves from the bit i of its bitmap on.
Reserves(p, i) ==
  /\ At(p, "vaddr") /\ fault' = "none" /\ pc' = [pc EXCEPT ![p] = "scan"]
  /\ user_vaddr_btmp' = [user_vaddr_btmp EXCEPT
                           ![p] = user_vaddr_btmp[p] \cup (i .. i + cnt[p] - 1)]
  /\ vaddr' = [vaddr EXCEPT ![p] = USER_START_PAGE + i]
  /\ Quiet /\ UNCHANGED <<user_phy_mtx, call, cnt, bit_idx>>

\* Reserving a run of addresses that were free.
LEMMA ReserveStep ==
  ASSUME MemInv, NEW p \in Process, NEW i \in Nat, Reserves(p, i),
         i + cnt[p] <= USER_PAGES,
         \A j \in i .. i + cnt[p] - 1 : j \notin user_vaddr_btmp[p]
  PROVE  MemInv'
<1>1. /\ fault = "none" /\ fault' = "none" /\ Booted /\ pc[p] = "vaddr"
      /\ pc' = [pc EXCEPT ![p] = "scan"]
      /\ user_vaddr_btmp' = [user_vaddr_btmp EXCEPT
                               ![p] = user_vaddr_btmp[p] \cup (i .. i + cnt[p] - 1)]
      /\ vaddr' = [vaddr EXCEPT ![p] = USER_START_PAGE + i]
      /\ Quiet /\ user_phy_mtx' = user_phy_mtx
      /\ call' = call /\ cnt' = cnt /\ bit_idx' = bit_idx /\ paddr' = paddr
  BY DEF Reserves, At, Quiet
<1>2. /\ CallOK(p) /\ ReservedOK(p) /\ CallTypes
      /\ pc \in [Process -> Location] /\ vaddr \in [Process -> Nat]
      /\ cnt \in [Process -> Nat]
      /\ user_vaddr_btmp \in [Process -> SUBSET (0 .. USER_PAGES - 1)]
  BY <1>1, Locals
<1>3. \A q, va : Mapped(q, va)' = Mapped(q, va)
  BY <1>1, KeptMaps DEF Quiet
<1>4. Alone(p)
  BY <1>1, <1>2, <1>3 DEF Alone, Untouched, Quiet
<1>5. Moves(p)
  BY <1>1 DEF Moves, Location
<1>6. /\ pc'[p] = "scan" /\ vaddr'[p] = USER_START_PAGE + i /\ cnt'[p] = cnt[p]
      /\ user_vaddr_btmp'[p] = user_vaddr_btmp[p] \cup (i .. i + cnt[p] - 1)
  BY <1>1, <1>2
<1>7. InMutex(p) /\ InMutex(p)' /\ ~InLoop(p) /\ InLoop(p)'
  BY <1>1, <1>6 DEF InMutex, InLoop
<1>8. Pending(p) = {} /\ Pending(p)' = USER_START_PAGE + i .. USER_START_PAGE + i + cnt[p] - 1
  BY <1>6, <1>7 DEF Pending
<1>9. cnt[p] \in Nat /\ cnt[p] >= 1 /\ paddr[p] = NULL
  BY <1>1, <1>2 DEF CallOK
<1>10. /\ \A va \in Pending(p)' : /\ va \in UserPage
                                  /\ va - USER_START_PAGE \in i .. i + cnt[p] - 1
       /\ \A va \in UserPage : va - USER_START_PAGE \in i .. i + cnt[p] - 1
                                 => va \in Pending(p)'
       /\ USER_START_PAGE + i \in UserPage
  <2>1. PICK c \in Nat : c = cnt[p] /\ c >= 1 /\ i + c <= USER_PAGES
    BY <1>9
  <2>2. Pending(p)' = USER_START_PAGE + i .. USER_START_PAGE + i + c - 1
    BY <1>8, <2>1
  <2>3. USER_START_PAGE \in Nat /\ USER_PAGES \in Nat
    BY UserPages
  <2>4. USER_START_PAGE + i \in UserPage
    BY <2>1, <2>3 DEF UserPage
  <2>5. \A va \in USER_START_PAGE + i .. USER_START_PAGE + i + c - 1 :
          va \in UserPage /\ va - USER_START_PAGE \in i .. i + c - 1
    BY <2>1, <2>3 DEF UserPage
  <2>6. \A va \in UserPage : va - USER_START_PAGE \in i .. i + c - 1
          => va \in USER_START_PAGE + i .. USER_START_PAGE + i + c - 1
    BY <2>1, <2>3 DEF UserPage
  <2> QED
    BY <2>1, <2>2, <2>4, <2>5, <2>6
<1>11. CallOK(p)'
  <2>1. ASSUME NEW va \in Pending(p)'
        PROVE  va \in UserPage /\ Mapped(p, va)' = NOT_PRESENT
    <3>1. va \in UserPage /\ va - USER_START_PAGE \notin user_vaddr_btmp[p]
      BY <1>10
    <3> QED
      BY <1>2, <1>3, <3>1 DEF ReservedOK
  <2>2. ~NoAddressYet(p)'
    BY <1>6 DEF NoAddressYet
  <2> QED
    BY <1>1, <1>6, <1>9, <1>10, <2>1, <2>2 DEF CallOK
<1>12. ReservedOK(p)'
  <2>1. user_phy_pool' = user_phy_pool
    BY <1>1 DEF Quiet
  <2> QED
    BY <1>2, <1>3, <1>6, <1>8, <1>10, <2>1 DEF ReservedOK
<1>13. CallTypes'
  <2>1. pc' \in [Process -> Location]
    BY <1>1, <1>2 DEF Location
  <2>2. vaddr' \in [Process -> UserPage \cup {0, USER_START_PAGE + USER_PAGES}]
    BY <1>1, <1>2, <1>10 DEF CallTypes
  <2> QED
    BY <1>1, <1>2, <2>1, <2>2 DEF CallTypes, Quiet
<1>14. MutexStep(p)
  BY <1>1, <1>6, <1>7 DEF MutexStep
<1>15. user_vaddr_btmp' \in [Process -> SUBSET (0 .. USER_PAGES - 1)]
  <2>1. i .. i + cnt[p] - 1 \subseteq 0 .. USER_PAGES - 1
    BY <1>9, UserPages
  <2> QED
    BY <1>1, <1>2, <2>1
<1>16. fault = "none" /\ fault' = "none" /\ Booted /\ Quiet
  BY <1>1
<1> QED
  BY <1>4, <1>5, <1>11, <1>12, <1>13, <1>14, <1>15, <1>16, QuietMemInv

\* vaddr_get: a run of addresses, or none.
LEMMA VaddrGetStep ==
  ASSUME MemInv, NEW p \in Process, VaddrGet(p)
  PROVE  MemInv'
<1>0. PICK i : i = bitmap_scan([btmp |-> user_vaddr_btmp[p], bit_num |-> USER_PAGES],
                               cnt[p])
  OBVIOUS
<1>1. /\ fault = "none" /\ fault' = "none" /\ Booted /\ pc[p] = "vaddr"
      /\ Quiet /\ user_phy_mtx' = user_phy_mtx
      /\ call' = call /\ cnt' = cnt /\ bit_idx' = bit_idx /\ paddr' = paddr
  BY DEF VaddrGet, At, Quiet, sharedVars, spaceVars
<1>2. /\ CallOK(p) /\ ReservedOK(p) /\ CallTypes
      /\ pc \in [Process -> Location] /\ cnt \in [Process -> Nat]
      /\ user_vaddr_btmp \in [Process -> SUBSET (0 .. USER_PAGES - 1)]
  BY <1>1, Locals
<1>3. cnt[p] \in Nat \ {0}
  BY <1>1, <1>2 DEF CallOK
<1>4. CASE i = -1
  <2>1. /\ pc' = [pc EXCEPT ![p] = "unlock"] /\ user_vaddr_btmp' = user_vaddr_btmp
        /\ vaddr' = vaddr
    BY <1>0, <1>4 DEF VaddrGet, Goto
  <2>2. \A q, va : Mapped(q, va)' = Mapped(q, va)
    BY <1>1, KeptMaps DEF Quiet
  <2>3. Alone(p)
    BY <1>1, <1>2, <2>1, <2>2 DEF Alone, Untouched, Quiet
  <2>4. Moves(p)
    BY <2>1 DEF Moves, Location
  <2>5. pc'[p] = "unlock"
    BY <1>2, <2>1
  <2>6. InMutex(p) /\ InMutex(p)' /\ ~InLoop(p) /\ ~InLoop(p)'
    BY <1>1, <2>5 DEF InMutex, InLoop
  <2>7. Pending(p) = {} /\ Pending(p)' = {}
    BY <2>6 DEF Pending
  <2>8. CallOK(p)'
    <3>1. paddr[p] = NULL
      BY <1>1, <1>2 DEF CallOK
    <3>2. ~NoAddressYet(p)'
      BY <2>5 DEF NoAddressYet
    <3> QED
      BY <1>1, <2>5, <2>6, <2>7, <3>1, <3>2 DEF CallOK
  <2>9. ReservedOK(p)'
    BY <1>1, <1>2, <2>1, <2>7, ReservedKept
  <2>10. CallTypes'
    <3>1. pc' \in [Process -> Location]
      BY <1>2, <2>1 DEF Location
    <3> QED
      BY <1>1, <1>2, <2>1, <3>1 DEF CallTypes, Quiet
  <2>11. MutexStep(p)
    BY <1>1, <2>5, <2>6 DEF MutexStep
  <2>12. user_vaddr_btmp' \in [Process -> SUBSET (0 .. USER_PAGES - 1)]
    BY <1>2, <2>1
  <2>13. fault = "none" /\ fault' = "none" /\ Booted /\ Quiet
    BY <1>1
  <2> QED
    BY <2>3, <2>4, <2>8, <2>9, <2>10, <2>11, <2>12, <2>13, QuietMemInv
<1>5. CASE i # -1
  <2>1. Reserves(p, i)
    BY <1>0, <1>1, <1>5 DEF VaddrGet, Goto, Reserves, At, vaddr_mark
  <2>2. PICK pool : pool = [btmp |-> user_vaddr_btmp[p], bit_num |-> USER_PAGES]
    OBVIOUS
  <2>3. pool.btmp = user_vaddr_btmp[p] /\ pool.bit_num = USER_PAGES /\ USER_PAGES \in Nat
    BY <2>2, UserPages
  <2>4. i = bitmap_scan(pool, cnt[p])
    BY <1>0, <2>2
  <2>5. /\ i \in 0 .. USER_PAGES - cnt[p]
        /\ \A j \in 0 .. cnt[p] - 1 : i + j \notin user_vaddr_btmp[p]
    BY <1>3, <1>5, <2>3, <2>4, ScanRun
  <2>6. ASSUME NEW j \in i .. i + cnt[p] - 1 PROVE j \notin user_vaddr_btmp[p]
    <3>1. PICK k \in 0 .. cnt[p] - 1 : k = j - i
      BY <1>3, <2>5
    <3>2. i + k = j
      BY <2>5, <3>1
    <3> QED
      BY <2>5, <3>1, <3>2
  <2>7. i \in Nat /\ i + cnt[p] <= USER_PAGES
    BY <1>3, <2>3, <2>5
  <2> QED
    BY <2>1, <2>6, <2>7, ReserveStep
<1> QED
  BY <1>4, <1>5

\* The machine stops, for want of memory.
LEMMA FaultStep ==
  ASSUME MemInv, UNCHANGED <<sharedVars, spaceVars, localVars>>,
         fault' \in {"panic", "page_fault"},
         Full(heap.phy) \/ Full(user_phy_pool)
  PROVE  MemInv'
<1>1. /\ heap' = heap /\ user_phy_pool' = user_phy_pool /\ user_phy_mtx' = user_phy_mtx
      /\ boot_pages' = boot_pages /\ pg_dir' = pg_dir
      /\ user_vaddr_btmp' = user_vaddr_btmp /\ pde' = pde /\ page_table' = page_table
      /\ pc' = pc /\ call' = call /\ cnt' = cnt /\ vaddr' = vaddr
      /\ bit_idx' = bit_idx /\ paddr' = paddr
  BY DEF sharedVars, spaceVars, localVars
<1>2. /\ HeapTypes /\ SpaceTypes /\ CallTypes /\ PoolsInv /\ MutexInv /\ StopInv
  BY TypeParts DEF MemInv
<1>3. HeapTypes' /\ SpaceTypes'
  BY <1>1, <1>2 DEF HeapTypes, SpaceTypes
<1>4. CallTypes'
  BY <1>1, <1>2 DEF CallTypes
<1>5. TypeOK'
  BY <1>3, <1>4, TypeParts, PTL
<1>6. Size' = Size /\ TableUse' = TableUse
  BY <1>1, KeptMaps DEF Size
<1>7. PoolsInv'
  BY <1>1, <1>2, <1>6 DEF PoolsInv
<1>8. MutexInv'
  BY <1>1, <1>2 DEF MutexInv, InMutex, InLoop
<1>9. StopInv'
  <2>1. heap.phy.bit_num \in Nat
    BY <1>2, Shape DEF Size
  <2>2. bitmap_scan(heap.phy, 1) = -1 \/ Full(user_phy_pool)
    BY <2>1, Exhausted
  <2>3. /\ fault' # "assert" /\ fault' # "none" /\ fault' # "low_memory"
    OBVIOUS
  <2> QED
    BY <1>1, <1>2, <1>6, <2>2, <2>3 DEF StopInv
<1> QED
  BY <1>5, <1>7, <1>8, <1>9 DEF MemInv

\* target_vaddr_malloc takes the address of the stack.
LEMMA TargetVaddrStep ==
  ASSUME MemInv, NEW p \in Process, TargetVaddr(p)
  PROVE  MemInv'
<1>1. /\ fault = "none" /\ Booted /\ pc[p] = "vaddr"
      /\ call[p] = "target_vaddr_malloc" /\ UNCHANGED <<sharedVars, pg_dir, pde, page_table,
                                                      call, cnt, bit_idx, paddr>>
  BY DEF TargetVaddr, At
<1>2. /\ CallOK(p) /\ user_vaddr_btmp \in [Process -> SUBSET (0 .. USER_PAGES - 1)]
  BY <1>1, Locals
<1>3. CASE pg_dir[p] = NULL
  <2>1. UNCHANGED <<sharedVars, spaceVars, localVars>> /\ fault' = "panic"
    BY <1>1, <1>3 DEF TargetVaddr, spaceVars, localVars
  <2>2. Full(heap.phy)
    BY <1>1, <1>3 DEF MemInv, RunInv, BootInv
  <2> QED
    BY <2>1, <2>2, FaultStep
<1>4. CASE pg_dir[p] # NULL
  <2>1. user_vaddr_btmp[p] = {} /\ cnt[p] = 1
    BY <1>1, <1>2 DEF CallOK, NoAddressYet
  <2>2. PICK i \in Nat : i = USER_PAGES - 1
    BY UserPages
  <2>3. i .. i + cnt[p] - 1 = {USER_PAGES - 1} /\ USER_START_PAGE + i = USER_STACK3_PAGE
    BY <2>1, <2>2, UserPages DEF USER_STACK3_PAGE
  <2>4. user_vaddr_set(p) = user_vaddr_btmp[p] \cup (i .. i + cnt[p] - 1)
    BY <2>3 DEF user_vaddr_set
  <2>5. /\ user_vaddr_btmp' = [user_vaddr_btmp EXCEPT ![p] = user_vaddr_set(p)]
        /\ vaddr' = [vaddr EXCEPT ![p] = USER_STACK3_PAGE]
        /\ pc' = [pc EXCEPT ![p] = "scan"] /\ fault' = fault
    BY <1>4 DEF TargetVaddr, Goto
  <2>6. Reserves(p, i)
    BY <1>1, <2>3, <2>4, <2>5 DEF Reserves, At, Quiet, sharedVars
  <2>7. i + cnt[p] <= USER_PAGES
    BY <2>1, <2>2, UserPages
  <2> QED
    BY <2>1, <2>6, <2>7, ReserveStep
<1> QED
  BY <1>3, <1>4

\* A process without a stack faults, and only when the pool is exhausted.
LEMMA UserFaultStep ==
  ASSUME MemInv, NEW p \in Process, UserFault(p)
  PROVE  MemInv'
<1>1. /\ fault' = "page_fault" /\ UNCHANGED <<sharedVars, spaceVars, localVars>>
      /\ pc[p] = "no_stack"
  BY DEF UserFault, At
<1>2. Full(user_phy_pool)
  BY <1>1 DEF MemInv, MutexInv
<1> QED
  BY <1>1, <1>2, FaultStep

-----------------------------------------------------------------------------
(* Steps that take a page of the user pool, and map it.                    *)

\* Steps that leave the heap and the directories alone keep what is known of
\* them.
LEMMA HeapKept ==
  ASSUME MemInv, fault = "none", fault' = "none", NEW p \in Process, Booted, Moves(p),
         UNCHANGED <<heap, boot_pages, pg_dir, pde>>
  PROVE  /\ BootInv' /\ HeapInv' /\ TablesInv' /\ StopInv' /\ HeapTypes'
         /\ Size' = Size
<1>1. TypeOK /\ StopInv /\ BootInv /\ HeapInv /\ TablesInv
  BY DEF MemInv, RunInv
<1>2. TableUse' = TableUse /\ Tables' = Tables
  BY DEF TableUse, Tables
<1>3. Size' = Size
  BY DEF Size
<1>4. BootInv'
  <2>1. \A q \in Process : pc'[q] # "none" /\ pc[q] # "none"
    BY <1>1, MovesBooted DEF Booted
  <2>2. ~(boot_pages' <= KTHREAD_NUM) \/ Process = {}
    BY <1>1, <2>1 DEF BootInv
  <2>3. \A q \in Process : pg_dir'[q] = NULL => Full(heap'.phy)
    BY <1>1, <2>1 DEF BootInv
  <2> QED
    BY <2>1, <2>2, <2>3 DEF BootInv
<1>5. HeapInv'
  <2>1. PICK n, m \in 0 .. Size :
          HeapSound(heap, Size, n, m, Tables) /\ (Booting => m = n \/ m = Size)
    BY <1>1 DEF HeapInv
  <2>2. Booting' => Booting
    BY <1>1, MovesBooted
  <2> QED
    BY <1>2, <1>3, <2>1, <2>2 DEF HeapInv
<1>6. TablesInv'
  BY <1>1, <1>2 DEF TablesInv
<1>7. StopInv'
  BY <1>1, <1>2 DEF StopInv
<1>8. HeapTypes'
  BY <1>1, TypeParts DEF HeapTypes
<1> QED
  BY <1>3, <1>4, <1>5, <1>6, <1>7, <1>8

\* A bit of the bitmap of a pool is set.
LEMMA BitSet ==
  ASSUME NEW u \in Nat, NEW base, NEW pool \in PoolRec(u, base), NEW b \in 0 .. u - 1
  PROVE  /\ bitmap_set(pool, b) \in PoolRec(u, base)
         /\ bitmap_set(pool, b).btmp = pool.btmp \cup {b}
         /\ bitmap_set(pool, b).bit_num = pool.bit_num
         /\ bitmap_set(pool, b).addr_base = pool.addr_base
         /\ bitmap_set(pool, b) \in Pool(bitmap_set(pool, b))
         /\ PageOf(bitmap_set(pool, b)) = PageOf(pool)
         /\ \A c : addr_of(bitmap_set(pool, b), c) = addr_of(pool, c)
<1>1. pool.btmp \cup {b} \in SUBSET (0 .. u - 1)
  BY DEF PoolRec
<1>2. PICK s \in SUBSET (0 .. u - 1) : s = pool.btmp \cup {b}
  BY <1>1
<1>3. PICK r : r = bitmap_set(pool, b)
  OBVIOUS
<1>4. r = [pool EXCEPT !.btmp = s]
  BY <1>2, <1>3 DEF bitmap_set
<1>5. /\ r \in PoolRec(u, base) /\ r.btmp = s /\ r.bit_num = pool.bit_num
      /\ r.addr_base = pool.addr_base
  BY <1>4 DEF PoolRec
<1>6. r \in Pool(r)
  BY <1>5 DEF Pool, PoolRec
<1>7. \A c : addr_of(r, c) = addr_of(pool, c)
  BY <1>5 DEF addr_of
<1>8. PageOf(r) = PageOf(pool)
  BY <1>5, <1>7 DEF PageOf
<1> QED
  BY <1>2, <1>3, <1>5, <1>6, <1>7, <1>8

\* The bitmap_set of paddr_get: the page found by the scan is still free.
LEMMA SetStep ==
  ASSUME MemInv, NEW p \in Process, PaddrSet(p)
  PROVE  MemInv'
<1>0. PICK b : b = bit_idx[p]
  OBVIOUS
<1>1. /\ fault = "none" /\ fault' = "none" /\ Booted /\ pc[p] = "set"
      /\ user_phy_pool' = bitmap_set(user_phy_pool, b)
      /\ paddr' = [paddr EXCEPT ![p] = UPage(b)]
      /\ pc' = [pc EXCEPT ![p] = "map"]
      /\ UNCHANGED <<heap, boot_pages, pg_dir, pde>>
      /\ heap' = heap /\ user_phy_mtx' = user_phy_mtx /\ boot_pages' = boot_pages
      /\ pg_dir' = pg_dir /\ user_vaddr_btmp' = user_vaddr_btmp /\ pde' = pde
      /\ page_table' = page_table
      /\ call' = call /\ cnt' = cnt /\ vaddr' = vaddr /\ bit_idx' = bit_idx
  BY <1>0 DEF PaddrSet, At, Goto, UPage, spaceVars
<1>2. /\ CallOK(p) /\ ReservedOK(p) /\ CallTypes /\ PoolsInv /\ SpaceTypes /\ PagesInv
      /\ MutexInv /\ pc \in [Process -> Location] /\ DOMAIN paddr = Process
  BY <1>1, Locals, TypeParts DEF MemInv, RunInv
<1>3. \A q, va : Mapped(q, va)' = Mapped(q, va)
  BY <1>1, KeptMaps
<1>4. PICK u \in Nat : Size <= u /\ user_phy_pool \in PoolRec(u, used_mem + Size * PG_SIZE)
  BY <1>2 DEF PoolsInv
<1>5. user_phy_pool.bit_num = u /\ user_phy_pool.btmp \subseteq 0 .. u - 1
  BY <1>4 DEF PoolRec
<1>6. b \in 0 .. u - 1 /\ b \notin user_phy_pool.btmp /\ paddr[p] = NULL
  BY <1>0, <1>1, <1>2, <1>5 DEF CallOK
<1>7. /\ user_phy_pool' \in PoolRec(u, used_mem + Size * PG_SIZE)
      /\ user_phy_pool'.btmp = user_phy_pool.btmp \cup {b}
      /\ user_phy_pool'.bit_num = user_phy_pool.bit_num
      /\ user_phy_pool' \in Pool(user_phy_pool')
      /\ PageOf(user_phy_pool') = PageOf(user_phy_pool)
      /\ \A c : UPage(c)' = UPage(c)
  BY <1>1, <1>4, <1>6, BitSet DEF UPage
<1>8. PoolGrows
  BY <1>7 DEF PoolGrows
<1>9. Alone(p)
  BY <1>1, <1>2, <1>3 DEF Alone, Untouched
<1>10. Moves(p)
  BY <1>1 DEF Moves, Location
<1>11. pc'[p] = "map" /\ paddr'[p] = UPage(b)
  BY <1>1, <1>2
<1>12. InMutex(p) /\ InMutex(p)' /\ InLoop(p) /\ InLoop(p)'
  BY <1>1, <1>11 DEF InMutex, InLoop
<1>13. Pending(p)' = Pending(p)
  BY <1>1, <1>12 DEF Pending
<1>14. UPage(b) # NULL /\ \A c \in Nat : UPage(c) # NULL /\ (UPage(c) = UPage(b) => c = b)
  BY <1>2, <1>6, UPages
<1>15. CallOK(p)'
  <2>1. cnt[p] >= 1 /\ vaddr[p] \in UserPage
        /\ \A va \in Pending(p) : va \in UserPage /\ Mapped(p, va) = NOT_PRESENT
    BY <1>2, <1>12 DEF CallOK
  <2>2. ~NoAddressYet(p)'
    BY <1>11 DEF NoAddressYet
  <2>3. \A va \in Pending(p)' : va \in UserPage /\ Mapped(p, va)' = NOT_PRESENT
    BY <1>3, <1>13, <2>1
  <2> QED
    BY <1>1, <1>11, <1>14, <2>1, <2>2, <2>3 DEF CallOK
<1>16. ReservedOK(p)'
  <2>1. Full(user_phy_pool) => Full(user_phy_pool')
    BY <1>8 DEF Full, PoolGrows
  <2> QED
    BY <1>1, <1>2, <1>3, <1>13, <2>1 DEF ReservedOK
<1>17. CallTypes'
  <2>1. pc' \in [Process -> Location]
    BY <1>1, <1>2 DEF Location
  <2> QED
    BY <1>1, <1>2, <1>7, <2>1 DEF CallTypes
<1>18. SpaceTypes'
  <2>1. UPage(b) \in PageOf(user_phy_pool)
    BY <1>5, <1>6 DEF PageOf, UPage
  <2> QED
    BY <1>1, <1>2, <1>7, <2>1 DEF SpaceTypes
<1>19. \A q \in Process : q # p =>
         /\ CallOK(q)' /\ ReservedOK(q)' /\ (InMutex(q)' <=> InMutex(q))
         /\ pc'[q] = "no_stack" => Full(user_phy_pool')
  BY <1>1, <1>8, <1>9, <1>12, OthersOK
<1>20. MutexInv'
  BY <1>1, <1>2, <1>11, <1>12, <1>19, MutexKept
<1>21. /\ BootInv' /\ HeapInv' /\ TablesInv' /\ StopInv' /\ HeapTypes' /\ Size' = Size
  BY <1>1, <1>10, HeapKept
<1>22. PoolsInv'
  BY <1>1, <1>2, <1>4, <1>7, <1>21 DEF PoolsInv
<1>23. PagesInv'
  <2>1. ASSUME NEW q \in Process, NEW va \in UserPage, Mapped(q, va)' # NOT_PRESENT
        PROVE  /\ \E c \in user_phy_pool'.btmp : Mapped(q, va)' = UPage(c)'
               /\ \A r \in Process : paddr'[r] # Mapped(q, va)'
               /\ \A r \in Process, vb \in UserPage :
                    Mapped(r, vb)' = Mapped(q, va)' => r = q /\ vb = va
    <3>1. PICK c \in user_phy_pool.btmp : Mapped(q, va) = UPage(c)
      BY <1>2, <1>3, <2>1 DEF PagesInv
    <3>2. UPage(c) # UPage(b)
      BY <1>5, <1>6, <1>14, <3>1
    <3>3. \A r \in Process : paddr'[r] # Mapped(q, va)
      BY <1>1, <1>2, <1>3, <2>1, <3>1, <3>2 DEF PagesInv
    <3> QED
      BY <1>2, <1>3, <1>7, <2>1, <3>1, <3>3 DEF PagesInv
  <2>2. \A q \in Process :
          paddr'[q] # NULL => \E c \in user_phy_pool'.btmp : paddr'[q] = UPage(c)'
    BY <1>1, <1>2, <1>7 DEF PagesInv
  <2>3. ASSUME NEW c \in user_phy_pool'.btmp
        PROVE  \/ \E q \in Process, va \in UserPage : Mapped(q, va)' = UPage(c)'
               \/ \E q \in Process : paddr'[q] = UPage(c)'
    <3>1. CASE c = b
      BY <1>7, <1>11, <3>1
    <3>2. CASE c # b
      <4>1. c \in user_phy_pool.btmp /\ c \in Nat
        BY <1>5, <1>7, <3>2
      <4>2. CASE \E q \in Process, va \in UserPage : Mapped(q, va) = UPage(c)
        BY <1>3, <1>7, <4>2
      <4>3. CASE \E q \in Process : paddr[q] = UPage(c)
        <5>1. PICK q \in Process : paddr[q] = UPage(c)
          BY <4>3
        <5>2. q # p
          BY <1>6, <1>14, <4>1, <5>1
        <5> QED
          BY <1>1, <1>2, <1>7, <5>1, <5>2
      <4> QED
        BY <1>2, <4>1, <4>2, <4>3 DEF PagesInv
    <3> QED
      BY <3>1, <3>2
  <2> QED
    BY <2>1, <2>2, <2>3 DEF PagesInv
<1> QED
  BY <1>15, <1>16, <1>17, <1>18, <1>19, <1>20, <1>21, <1>22, <1>23, Together

\* The end of the loop body.
LEMMA MappedLocals ==
  ASSUME MemInv, fault = "none", NEW p \in Process, pc[p] \in {"map", "table"},
         PageMapped(p),
         UNCHANGED <<user_phy_pool, user_phy_mtx, boot_pages, call, bit_idx>>,
         fault' \in {"none", "low_memory"}
  PROVE  /\ CallTypes' /\ MutexInv' /\ Moves(p)
         /\ cnt[p] \in Nat /\ cnt[p] >= 1 /\ vaddr[p] \in UserPage /\ paddr[p] # NULL
         /\ cnt'[p] = cnt[p] - 1 /\ vaddr'[p] = vaddr[p] + 1 /\ paddr'[p] = NULL
         /\ pc'[p] = IF cnt[p] = 1 THEN "unlock" ELSE "scan"
         /\ \A q \in Process : q # p =>
              /\ pc'[q] = pc[q] /\ cnt'[q] = cnt[q] /\ vaddr'[q] = vaddr[q]
              /\ paddr'[q] = paddr[q] /\ paddr[q] = NULL
<1>1. /\ cnt' = [cnt EXCEPT ![p] = @ - 1] /\ vaddr' = [vaddr EXCEPT ![p] = @ + 1]
      /\ paddr' = [paddr EXCEPT ![p] = NULL]
      /\ pc' = [pc EXCEPT ![p] = IF cnt[p] = 1 THEN "unlock" ELSE "scan"]
  BY DEF PageMapped, Goto
<1>2. /\ CallOK(p) /\ CallTypes /\ MutexInv /\ CallInv
      /\ pc \in [Process -> Location] /\ cnt \in [Process -> Nat]
      /\ vaddr \in [Process -> Nat] /\ DOMAIN paddr = Process
  BY Locals DEF MemInv, RunInv
<1>3. InLoop(p) /\ InMutex(p)
  BY DEF InLoop, InMutex
<1>4. cnt[p] \in Nat /\ cnt[p] >= 1 /\ vaddr[p] \in UserPage /\ paddr[p] # NULL
  BY <1>2, <1>3 DEF CallOK
<1>5. PICK w \in {"unlock", "scan"} : w = IF cnt[p] = 1 THEN "unlock" ELSE "scan"
  OBVIOUS
<1>6. /\ cnt'[p] = cnt[p] - 1 /\ vaddr'[p] = vaddr[p] + 1 /\ paddr'[p] = NULL
      /\ pc'[p] = w /\ pc' = [pc EXCEPT ![p] = w]
  BY <1>1, <1>2, <1>5
<1>7. \A q \in Process : q # p =>
        /\ pc'[q] = pc[q] /\ cnt'[q] = cnt[q] /\ vaddr'[q] = vaddr[q]
        /\ paddr'[q] = paddr[q]
  BY <1>1, <1>2
<1>8. ASSUME NEW q \in Process, q # p PROVE paddr[q] = NULL
  <2>1. ~InMutex(q)
    BY <1>2, <1>3, <1>8 DEF MutexInv
  <2> QED
    BY <1>2, <2>1 DEF CallInv, CallOK, InMutex, InLoop
<1>9. Moves(p)
  BY <1>6 DEF Moves, Location
<1>10. MutexInv'
  <2>1. InMutex(p)' /\ pc'[p] # "no_stack"
    BY <1>6 DEF InMutex, InLoop
  <2>2. \A q \in Process : q # p => (InMutex(q)' <=> InMutex(q))
    BY <1>7 DEF InMutex, InLoop
  <2> QED
    BY <1>2, <1>3, <1>7, <2>1, <2>2 DEF MutexInv
<1>11. CallTypes'
  <2>1. pc' \in [Process -> Location]
    BY <1>2, <1>6 DEF Location
  <2>2. cnt' \in [Process -> PgCnt \cup 0 .. PG_CNT_MAX]
    <3>1. cnt[p] - 1 \in 0 .. PG_CNT_MAX
      <4>1. PG_CNT_MAX \in Nat
        BY SMT DEF PG_CNT_MAX
      <4>2. PgCnt \subseteq 1 .. PG_CNT_MAX
        BY MemoryAssumption
      <4>3. cnt[p] \in PgCnt \cup 0 .. PG_CNT_MAX
        BY <1>2 DEF CallTypes
      <4> QED
        BY <1>4, <4>1, <4>2, <4>3
    <3> QED
      BY <1>1, <1>2, <3>1 DEF CallTypes
  <2>3. vaddr' \in [Process -> UserPage \cup {0, USER_START_PAGE + USER_PAGES}]
    <3>1. vaddr[p] + 1 \in UserPage \cup {USER_START_PAGE + USER_PAGES}
      BY <1>4, UserPages DEF UserPage
    <3> QED
      BY <1>1, <1>2, <3>1 DEF CallTypes
  <2>4. /\ user_phy_mtx' \in Process \cup {NO_PROCESS}
        /\ boot_pages' \in 0 .. KTHREAD_NUM + 1
        /\ call' \in [Process -> {"none", "target_vaddr_malloc", "user_pages_malloc"}]
        /\ bit_idx' \in [Process -> -1 .. user_phy_pool'.bit_num]
        /\ fault' \in {"none", "assert", "panic", "low_memory", "page_fault"}
    BY <1>2 DEF CallTypes
  <2> QED
    BY <2>1, <2>2, <2>3, <2>4 DEF CallTypes
<1> QED
  BY <1>4, <1>5, <1>6, <1>7, <1>8, <1>9, <1>10, <1>11

\* The page at hand, and no other, has been mapped where p wants it.
MapsOne(p) ==
  \A q \in Process, w \in UserPage :
    Mapped(q, w)' = IF q = p /\ w = vaddr[p] THEN paddr[p] ELSE Mapped(q, w)

\* Mapping exactly the page at hand keeps pages unshared and addresses
\* accounted for.
LEMMA MapStep ==
  ASSUME MemInv, fault = "none", NEW p \in Process, pc[p] \in {"map", "table"},
         PageMapped(p), MapsOne(p),
         UNCHANGED <<user_phy_pool, user_phy_mtx, boot_pages, call, bit_idx>>,
         user_vaddr_btmp' = user_vaddr_btmp,
         \A q \in Process : q # p => pde'[q] = pde[q],
         fault' = "none"
  PROVE  /\ CallOK(p)' /\ ReservedOK(p)' /\ PagesInv'
         /\ \A q \in Process : q # p => CallOK(q)' /\ ReservedOK(q)'
<1>1. /\ cnt[p] \in Nat /\ cnt[p] >= 1 /\ vaddr[p] \in UserPage /\ paddr[p] # NULL
      /\ cnt'[p] = cnt[p] - 1 /\ vaddr'[p] = vaddr[p] + 1 /\ paddr'[p] = NULL
      /\ pc'[p] = IF cnt[p] = 1 THEN "unlock" ELSE "scan"
      /\ \A q \in Process : q # p =>
           /\ pc'[q] = pc[q] /\ cnt'[q] = cnt[q] /\ vaddr'[q] = vaddr[q]
           /\ paddr'[q] = paddr[q] /\ paddr[q] = NULL
  <2>1. fault' \in {"none", "low_memory"}
    OBVIOUS
  <2> QED
    BY <2>1, MappedLocals
<1>2. CallOK(p) /\ ReservedOK(p) /\ PagesInv /\ PoolsInv
  BY Locals DEF MemInv, RunInv
<1>3. InLoop(p) /\ InMutex(p) /\ (InLoop(p)' <=> cnt[p] # 1)
  BY <1>1 DEF InLoop, InMutex
<1>4. PICK v, c \in Nat : v = vaddr[p] /\ c = cnt[p] /\ c >= 1
  BY <1>1, UserPages
<1>5. Pending(p) = v .. v + c - 1
  BY <1>3, <1>4 DEF Pending
<1>6. Pending(p)' = Pending(p) \ {v}
  <2>1. CASE c = 1
    BY <1>3, <1>4, <1>5, <2>1 DEF Pending
  <2>2. CASE c # 1
    <3>1. vaddr'[p] + cnt'[p] - 1 = v + c - 1 /\ vaddr'[p] = v + 1
      BY <1>1, <1>4
    <3>2. Pending(p)' = v + 1 .. v + c - 1
      BY <1>3, <1>4, <2>2, <3>1 DEF Pending
    <3> QED
      BY <1>4, <1>5, <3>2
  <2> QED
    BY <2>1, <2>2
<1>7. v \in Pending(p)
  BY <1>4, <1>5
<1>8. \A va \in Pending(p) : va \in UserPage /\ Mapped(p, va) = NOT_PRESENT
  BY <1>2 DEF CallOK
<1>9. PICK b \in user_phy_pool.btmp : paddr[p] = UPage(b)
  BY <1>1, <1>2 DEF PagesInv
<1>10. b \in Nat /\ paddr[p] # NOT_PRESENT
  <2>1. b \in Nat
    BY <1>2, <1>9, Shape
  <2> QED
    BY <1>2, <1>9, <2>1, UPages
<1>11. CallOK(p)'
  <2>1. ~NoAddressYet(p)'
    BY <1>1 DEF NoAddressYet
  <2>2. InLoop(p)' => cnt'[p] >= 1 /\ vaddr'[p] \in UserPage
    <3> SUFFICES ASSUME InLoop(p)' PROVE cnt'[p] >= 1 /\ vaddr'[p] \in UserPage
      OBVIOUS
    <3>1. c # 1 /\ vaddr'[p] = v + 1 /\ cnt'[p] = c - 1
      BY <1>1, <1>3, <1>4
    <3>2. v + 1 \in Pending(p)
      BY <1>4, <1>5, <3>1
    <3> QED
      BY <1>4, <1>8, <3>1, <3>2
  <2>3. \A va \in Pending(p)' : va \in UserPage /\ Mapped(p, va)' = NOT_PRESENT
    BY <1>4, <1>6, <1>8 DEF MapsOne
  <2> QED
    BY <1>1, <2>1, <2>2, <2>3 DEF CallOK
<1>12. ReservedOK(p)'
  <2> SUFFICES ASSUME NEW va \in UserPage
               PROVE  /\ Mapped(p, va)' # NOT_PRESENT \/ va \in Pending(p)'
                           => va - USER_START_PAGE \in user_vaddr_btmp[p]
                      /\ va - USER_START_PAGE \in user_vaddr_btmp[p]
                           => \/ Mapped(p, va)' # NOT_PRESENT \/ va \in Pending(p)'
                              \/ Full(user_phy_pool)
    BY DEF ReservedOK
  <2>1. CASE va = v
    BY <1>2, <1>4, <1>7, <1>10, <2>1 DEF ReservedOK, MapsOne
  <2>2. CASE va # v
    BY <1>2, <1>4, <1>6, <2>2 DEF ReservedOK, MapsOne
  <2> QED
    BY <2>1, <2>2
<1>13. \A q \in Process : q # p => CallOK(q)' /\ ReservedOK(q)'
  <2>1. Alone(p)
    BY <1>1 DEF Alone, Untouched, MapsOne
  <2>2. PoolGrows
    BY DEF PoolGrows
  <2> QED
    BY <1>3, <2>1, <2>2, OthersOK
<1>14. PagesInv'
  <2>0. \A x : UPage(x)' = UPage(x)
    BY DEF UPage
  <2>1. ASSUME NEW q \in Process, NEW va \in UserPage, Mapped(q, va)' # NOT_PRESENT
        PROVE  /\ \E x \in user_phy_pool'.btmp : Mapped(q, va)' = UPage(x)'
               /\ \A r \in Process : paddr'[r] # Mapped(q, va)'
               /\ \A r \in Process, vb \in UserPage :
                    Mapped(r, vb)' = Mapped(q, va)' => r = q /\ vb = va
    <3>1. CASE q = p /\ va = v
      <4>1. Mapped(q, va)' = paddr[p]
        BY <1>4, <3>1 DEF MapsOne
      <4>2. \A r \in Process : paddr'[r] # paddr[p]
        BY <1>1
      <4>3. \A r \in Process, vb \in UserPage :
              Mapped(r, vb) # NOT_PRESENT => paddr[p] # Mapped(r, vb)
        BY <1>2 DEF PagesInv
      <4>4. \A r \in Process, vb \in UserPage :
              Mapped(r, vb)' = paddr[p] => r = p /\ vb = v
        BY <1>4, <1>10, <4>3 DEF MapsOne
      <4> QED
        BY <1>9, <2>0, <3>1, <4>1, <4>2, <4>4
    <3>2. CASE ~(q = p /\ va = v)
      <4>1. Mapped(q, va)' = Mapped(q, va) /\ Mapped(q, va) # NOT_PRESENT
        BY <1>4, <2>1, <3>2 DEF MapsOne
      <4>2. /\ \E x \in user_phy_pool.btmp : Mapped(q, va) = UPage(x)
            /\ \A r \in Process : paddr[r] # Mapped(q, va)
            /\ \A r \in Process, vb \in UserPage :
                 Mapped(r, vb) = Mapped(q, va) => r = q /\ vb = va
        BY <1>2, <4>1 DEF PagesInv
      <4>3. \A r \in Process : paddr'[r] # Mapped(q, va)
        <5>1. PICK x \in user_phy_pool.btmp : Mapped(q, va) = UPage(x)
          BY <4>2
        <5>2. x \in Nat
          BY <1>2, Shape
        <5>3. UPage(x) # NULL
          BY <1>2, <5>2, UPages
        <5> QED
          BY <1>1, <5>1, <5>3
      <4>4. \A r \in Process, vb \in UserPage :
              Mapped(r, vb)' = Mapped(q, va) => r = q /\ vb = va
        BY <1>4, <4>2 DEF MapsOne
      <4> QED
        BY <2>0, <4>1, <4>2, <4>3, <4>4
    <3> QED
      BY <3>1, <3>2
  <2>2. \A q \in Process :
          paddr'[q] # NULL => \E x \in user_phy_pool'.btmp : paddr'[q] = UPage(x)'
    BY <1>1
  <2>3. ASSUME NEW x \in user_phy_pool'.btmp
        PROVE  \/ \E q \in Process, va \in UserPage : Mapped(q, va)' = UPage(x)'
               \/ \E q \in Process : paddr'[q] = UPage(x)'
    <3>0. x \in user_phy_pool.btmp /\ UPage(x) # NOT_PRESENT /\ UPage(x) # NULL
      <4>1. x \in user_phy_pool.btmp /\ x \in Nat
        BY <1>2, Shape
      <4> QED
        BY <1>2, <4>1, UPages
    <3>1. CASE \E q \in Process, va \in UserPage : Mapped(q, va) = UPage(x)
      <4>1. PICK q \in Process, va \in UserPage : Mapped(q, va) = UPage(x)
        BY <3>1
      <4>2. ~(q = p /\ va = v)
        BY <1>7, <1>8, <3>0, <4>1
      <4>3. Mapped(q, va)' = UPage(x)
        BY <1>4, <4>1, <4>2 DEF MapsOne
      <4> QED
        BY <2>0, <4>3
    <3>2. CASE \E q \in Process : paddr[q] = UPage(x)
      <4>1. paddr[p] = UPage(x)
        BY <1>1, <3>0, <3>2
      <4>2. Mapped(p, v)' = UPage(x)
        BY <1>1, <1>4, <4>1 DEF MapsOne
      <4> QED
        BY <1>1, <1>4, <2>0, <4>2
    <3> QED
      BY <1>2, <3>0, <3>1, <3>2 DEF PagesInv
  <2> QED
    BY <2>1, <2>2, <2>3 DEF PagesInv
<1> QED
  BY <1>11, <1>12, <1>13, <1>14

\* v2p_mapping with a table that is there.
LEMMA MappingStep ==
  ASSUME MemInv, NEW p \in Process, V2pMapping(p)
  PROVE  MemInv' /\ MapsOne(p) /\ UNCHANGED heap
<1>0. PICK v, i, e, t : /\ v = vaddr[p] /\ i = PDE_IDX(v) /\ e = PTE_IDX(v)
                        /\ t = pde[p][i]
  OBVIOUS
<1>1. /\ fault = "none" /\ Booted /\ pc[p] = "map" /\ t # NOT_PRESENT
      /\ UNCHANGED <<heap, boot_pages, pg_dir, pde>>
      /\ UNCHANGED <<user_phy_pool, user_phy_mtx, boot_pages, call, bit_idx>>
      /\ user_vaddr_btmp' = user_vaddr_btmp
      /\ heap' = heap /\ pde' = pde /\ pg_dir' = pg_dir /\ user_phy_pool' = user_phy_pool
  BY <1>0 DEF V2pMapping, At, pde_present, sharedVars
<1>2. /\ CallOK(p) /\ PoolsInv /\ SpaceTypes /\ TablesInv
  BY <1>1, Locals, TypeParts DEF MemInv, RunInv
<1>3. /\ InLoop(p) /\ v \in UserPage /\ v \in Pending(p) /\ Mapped(p, v) = NOT_PRESENT
      /\ paddr[p] # NULL
  <2>1. InLoop(p)
    BY <1>1 DEF InLoop
  <2>2. cnt[p] >= 1 /\ vaddr[p] \in UserPage /\ paddr[p] # NULL
    BY <1>1, <1>2, <2>1 DEF CallOK
  <2>3. cnt[p] \in Nat /\ v \in Nat
    BY <1>0, <1>1, <2>2, Locals, UserPages
  <2>4. v \in Pending(p)
    BY <1>0, <2>1, <2>2, <2>3 DEF Pending
  <2> QED
    BY <1>0, <1>2, <2>1, <2>2, <2>4 DEF CallOK
<1>4. page_table[t][e] = NOT_PRESENT
  BY <1>0, <1>1, <1>3 DEF Mapped
<1>5. /\ page_table' = [page_table EXCEPT ![t][e] = paddr[p]] /\ PageMapped(p)
      /\ fault' = "none"
  BY <1>0, <1>1, <1>4 DEF V2pMapping
<1>6. i \in UserPde /\ e \in PteIdx
  BY <1>0, <1>3, UserPages
<1>7. t \in PageOf(heap.phy) \cup {NULL}
  BY <1>0, <1>1, <1>2, <1>6 DEF SpaceTypes
<1>8. PICK old : old = page_table[t]
  OBVIOUS
<1>9. /\ page_table' = [page_table EXCEPT ![t] = [old EXCEPT ![e] = paddr[p]]]
      /\ DOMAIN page_table = PageOf(heap.phy) \cup {NULL} /\ DOMAIN old = PteIdx
  BY <1>2, <1>5, <1>7, <1>8 DEF SpaceTypes
<1>10. /\ page_table'[t] = [old EXCEPT ![e] = paddr[p]]
       /\ \A a \in PageOf(heap.phy) \cup {NULL} : a # t => page_table'[a] = page_table[a]
       /\ page_table'[t][e] = paddr[p]
       /\ \A j \in PteIdx : j # e => page_table'[t][j] = page_table[t][j]
  BY <1>6, <1>7, <1>8, <1>9
<1>11. MapsOne(p)
  <2> SUFFICES ASSUME NEW q \in Process, NEW w \in UserPage
               PROVE  Mapped(q, w)' = IF q = p /\ w = v THEN paddr[p] ELSE Mapped(q, w)
    BY <1>0 DEF MapsOne
  <2>1. PICK k, j, s : k = PDE_IDX(w) /\ j = PTE_IDX(w) /\ s = pde[q][k]
    OBVIOUS
  <2>2. k \in UserPde /\ j \in PteIdx
    BY <2>1, UserPages
  <2>3. /\ Mapped(q, w) = IF s = NOT_PRESENT THEN NOT_PRESENT ELSE page_table[s][j]
        /\ Mapped(q, w)' = IF s = NOT_PRESENT THEN NOT_PRESENT ELSE page_table'[s][j]
    BY <1>1, <2>1 DEF Mapped
  <2>4. CASE q = p /\ w = v
    BY <1>0, <1>1, <1>10, <2>1, <2>3, <2>4
  <2>5. CASE ~(q = p /\ w = v) /\ s # NOT_PRESENT /\ s = t
    <3>1. <<q, k>> \in TableUse /\ <<p, i>> \in TableUse
      BY <1>0, <1>1, <1>6, <2>1, <2>2, <2>5 DEF TableUse
    <3>2. pde[<<q, k>>[1]][<<q, k>>[2]] = pde[<<p, i>>[1]][<<p, i>>[2]]
      BY <1>0, <2>1, <2>5
    <3>3. <<q, k>> = <<p, i>>
      BY <1>2, <3>1, <3>2 DEF TablesInv
    <3>4. q = p /\ k = i
      BY <3>3
    <3>5. j # e
      BY <1>0, <1>3, <2>1, <2>5, <3>4, UserPages
    <3> QED
      BY <1>10, <2>2, <2>3, <2>5, <3>5
  <2>6. CASE s # NOT_PRESENT /\ s # t
    <3>1. s \in PageOf(heap.phy) \cup {NULL}
      BY <1>2, <2>1, <2>2, <2>6 DEF SpaceTypes
    <3>2. ~(q = p /\ w = v)
      BY <1>0, <2>1, <2>6
    <3> QED
      BY <1>10, <2>3, <3>1, <3>2, <2>6
  <2>7. CASE s = NOT_PRESENT
    BY <1>0, <1>1, <2>1, <2>3, <2>7
  <2> QED
    BY <2>4, <2>5, <2>6, <2>7
<1>12. pc[p] \in {"map", "table"} /\ fault' \in {"none", "low_memory"}
  BY <1>1, <1>5
<1>13. CallTypes' /\ MutexInv' /\ Moves(p) /\ paddr' = [paddr EXCEPT ![p] = NULL]
  <2>1. CallTypes' /\ MutexInv' /\ Moves(p)
    BY <1>1, <1>5, <1>12, MappedLocals
  <2> QED
    BY <1>5, <2>1 DEF PageMapped
<1>14. /\ CallOK(p)' /\ ReservedOK(p)' /\ PagesInv'
       /\ \A q \in Process : q # p => CallOK(q)' /\ ReservedOK(q)'
  BY <1>1, <1>5, <1>11, <1>12, MapStep
<1>15. BootInv' /\ HeapInv' /\ TablesInv' /\ StopInv' /\ HeapTypes' /\ Size' = Size
  BY <1>1, <1>5, <1>13, HeapKept
<1>16. SpaceTypes'
  <2>1. paddr[p] \in PageOf(user_phy_pool)
    BY <1>2, <1>3 DEF SpaceTypes
  <2>2. [old EXCEPT ![e] = paddr[p]] \in [PteIdx -> PageOf(user_phy_pool) \cup {NOT_PRESENT}]
    BY <1>2, <1>6, <1>7, <1>8, <2>1 DEF SpaceTypes
  <2>3. page_table' \in [PageOf(heap.phy) \cup {NULL}
                           -> [PteIdx -> PageOf(user_phy_pool) \cup {NOT_PRESENT}]]
    BY <1>2, <1>9, <2>2 DEF SpaceTypes
  <2>4. paddr' \in [Process -> PageOf(user_phy_pool) \cup {NULL}]
    BY <1>2, <1>13 DEF SpaceTypes
  <2> QED
    BY <1>1, <1>2, <2>3, <2>4 DEF SpaceTypes
<1>17. PoolsInv'
  BY <1>1, <1>2, <1>15 DEF PoolsInv
<1>18. MemInv'
  BY <1>13, <1>14, <1>15, <1>16, <1>17, Together
<1> QED
  BY <1>1, <1>11, <1>18

-----------------------------------------------------------------------------
(* A page table is made.                                                   *)

\* Nothing is found in a pool that is given away.
LEMMA FullScan ==
  ASSUME NEW pool, pool.bit_num \in Nat, Full(pool), NEW n \in Nat \ {0}
  PROVE  bitmap_scan(pool, n) = -1
<1> SUFFICES ASSUME bitmap_scan(pool, n) # -1 PROVE FALSE
  OBVIOUS
<1>1. PICK i : i = bitmap_scan(pool, n)
  OBVIOUS
<1>2. i \in 0 .. pool.bit_num - n /\ \A j \in 0 .. n - 1 : i + j \notin pool.btmp
  BY <1>1, ScanRun
<1>3. i \in 0 .. pool.bit_num - 1 /\ i + 0 = i /\ 0 \in 0 .. n - 1
  BY <1>2
<1>4. i \notin pool.btmp
  BY <1>2, <1>3
<1> QED
  BY <1>3, <1>4 DEF Full

\* What r, made of h by taking the page m for a page table, has of it.
Takes(h, r, size, n, m, T) ==
  /\ HeapSound(r, size, n, m + 1, T \cup {KPage(m)}) /\ KPage(m) \notin T
  /\ r.phy = bitmap_set(h.phy, m) /\ r.vir = h.vir /\ r.pte = h.pte
  /\ r.vaddr = h.vaddr /\ r.repeated = FALSE

\* The page that v2p_mapping takes for a page table is one nobody has.
LEMMA TableTaken ==
  ASSUME NEW size \in Nat, NEW n \in 0 .. size, NEW m \in 0 .. size - 1, NEW h, NEW T,
         HeapSound(h, size, n, m, T), NEW r, r = table_page_set(h, m)
  PROVE  Takes(h, r, size, n, m, T)
<1>1. /\ HeapShape(h, size, n, m) /\ h.repeated = FALSE
      /\ \A x \in 0 .. size - 1 :
           h.pte[x] # NOT_PRESENT =>
             /\ h.pte[x] \notin T
             /\ \E b \in 0 .. m - 1 : h.pte[x] = KPage(b)
             /\ \A y \in 0 .. size - 1 : h.pte[y] = h.pte[x] => y = x
      /\ T \subseteq {KPage(b) : b \in 0 .. m - 1}
      /\ \A b \in 0 .. m - 1 :
           KPage(b) \in T \/ \E x \in 0 .. size - 1 : h.pte[x] = KPage(b)
  BY DEF HeapSound
<1>2. PICK P, V, F, A, R, Q :
        /\ P = h.phy /\ V = h.vir /\ F = h.pte /\ A = h.vaddr /\ R = h.repeated
        /\ Q = bitmap_set(h.phy, m)
  OBVIOUS
<1>3. h = HeapOf(P, V, F, A, R)
  BY <1>1, <1>2 DEF HeapShape, HeapOf
<1>4. r = HeapOf(Q, V, F, A, R)
  <2>1. r = [h EXCEPT !.phy = Q]
    BY <1>2 DEF table_page_set
  <2> QED
    BY <1>3, <2>1, PutPhy
<1>5. r.phy = Q /\ r.vir = V /\ r.pte = F /\ r.vaddr = A /\ r.repeated = R
  BY <1>4 DEF HeapOf
<1>6. Q \in PoolRec(size, used_mem) /\ Q.btmp = 0 .. m + 1 - 1
  <2>1. P \in PoolRec(size, used_mem) /\ P.btmp = 0 .. m - 1
    BY <1>1, <1>2 DEF HeapShape
  <2>2. Q \in PoolRec(size, used_mem) /\ Q.btmp = P.btmp \cup {m}
    BY <1>2, <2>1, BitSet
  <2> QED
    BY <2>1, <2>2
<1>7. HeapShape(r, size, n, m + 1)
  BY <1>1, <1>2, <1>4, <1>5, <1>6 DEF HeapShape, HeapOf
<1>8. \A b \in 0 .. m - 1 : KPage(b) # KPage(m)
  BY KPages
<1>9. KPage(m) \notin T
  BY <1>1, <1>8
<1>10. \A x \in 0 .. size - 1 :
         F[x] # NOT_PRESENT =>
           /\ F[x] \notin T \cup {KPage(m)}
           /\ \E b \in 0 .. m + 1 - 1 : F[x] = KPage(b)
           /\ \A y \in 0 .. size - 1 : F[y] = F[x] => y = x
  BY <1>1, <1>2, <1>8
<1>11. T \cup {KPage(m)} \subseteq {KPage(b) : b \in 0 .. m + 1 - 1}
  BY <1>1
<1>12. ASSUME NEW b \in 0 .. m + 1 - 1
       PROVE  KPage(b) \in T \cup {KPage(m)} \/ \E x \in 0 .. size - 1 : F[x] = KPage(b)
  <2>1. b = m \/ b \in 0 .. m - 1
    OBVIOUS
  <2> QED
    BY <1>1, <1>2, <2>1
<1>13. HeapSound(r, size, n, m + 1, T \cup {KPage(m)})
  BY <1>1, <1>2, <1>5, <1>7, <1>10, <1>11, <1>12 DEF HeapSound
<1> QED
  BY <1>1, <1>2, <1>5, <1>9, <1>13 DEF Takes

\* v2p_mapping with a new page table, or with page 0 when there is none left.
LEMMA TableStep ==
  ASSUME MemInv, NEW p \in Process, TableMap(p)
  PROVE  MemInv' /\ (fault' = "none" => MapsOne(p) /\ heap'.pte = heap.pte)
<1>0. PICK v, i, e, b, a :
        /\ v = vaddr[p] /\ i = PDE_IDX(v) /\ e = PTE_IDX(v) /\ b = bit_idx[p]
        /\ a = IF b = -1 THEN NULL ELSE addr_of(heap.phy, b)
  OBVIOUS
<1>1. /\ fault = "none" /\ Booted /\ pc[p] = "table"
      /\ heap' = IF b = -1 THEN heap ELSE table_page_set(heap, b)
      /\ pde' = [pde EXCEPT ![p][i] = a]
      /\ page_table' = [page_table EXCEPT ![a] = [empty_table EXCEPT ![e] = paddr[p]]]
      /\ fault' = IF a = NULL THEN "low_memory" ELSE "none"
      /\ PageMapped(p)
      /\ UNCHANGED <<user_phy_pool, user_phy_mtx, boot_pages, call, bit_idx>>
      /\ pg_dir' = pg_dir /\ user_phy_pool' = user_phy_pool /\ boot_pages' = boot_pages
      /\ user_vaddr_btmp' = user_vaddr_btmp
  BY <1>0 DEF TableMap, At
<1>2. /\ CallOK(p) /\ PoolsInv /\ SpaceTypes /\ HeapTypes /\ TablesInv /\ BootInv /\ StopInv
      /\ HeapInv /\ TypeOK
  BY <1>1, Locals, TypeParts DEF MemInv, RunInv
<1>3. /\ v \in UserPage /\ paddr[p] # NULL /\ pde[p][i] = NOT_PRESENT
      /\ b = bitmap_scan(heap.phy, 1)
  <2>1. InLoop(p)
    BY <1>1 DEF InLoop
  <2> QED
    BY <1>0, <1>1, <1>2, <2>1 DEF CallOK, pde_present
<1>4. i \in UserPde /\ e \in PteIdx
  BY <1>0, <1>3, UserPages
<1>5. pc[p] \in {"map", "table"} /\ fault' \in {"none", "low_memory"}
  BY <1>1
<1>6. CallTypes' /\ MutexInv' /\ Moves(p) /\ paddr' = [paddr EXCEPT ![p] = NULL]
  <2>1. CallTypes' /\ MutexInv' /\ Moves(p)
    BY <1>1, <1>5, MappedLocals
  <2> QED
    BY <1>1, <2>1 DEF PageMapped
<1>7. PICK n, m \in 0 .. Size :
        HeapSound(heap, Size, n, m, Tables) /\ (Booting => m = n \/ m = Size)
  BY <1>2 DEF HeapInv
<1>8. Size \in Nat /\ heap.phy.bit_num = Size /\ heap.phy.btmp = 0 .. m - 1
      /\ heap.phy \in PoolRec(Size, used_mem)
      /\ n \in 0 .. Size /\ m \in 0 .. Size /\ n \in Nat /\ m \in Nat
  <2>1. Size \in Nat /\ heap.phy.bit_num = Size
    BY <1>2, Shape DEF Size
  <2>2. heap.phy.btmp = 0 .. m - 1 /\ heap.phy \in PoolRec(Size, used_mem)
    BY <1>7 DEF HeapSound, HeapShape
  <2>3. n \in Nat /\ m \in Nat
    BY <2>1
  <2> QED
    BY <2>1, <2>2, <2>3
<1>9. b = IF m + 1 <= Size THEN m ELSE -1
  <2>1. PICK pool : pool = heap.phy
    OBVIOUS
  <2>2. pool.bit_num \in Nat /\ pool.btmp = 0 .. m - 1 /\ m \in Nat
    BY <1>8, <2>1
  <2>3. bitmap_scan(pool, 1) = IF m + 1 <= pool.bit_num THEN m ELSE -1
    BY <2>2, ScanPrefix
  <2> QED
    BY <1>3, <1>8, <2>1, <2>3
<1>10. PICK row : row = pde[p]
  OBVIOUS
<1>11. pde' = [pde EXCEPT ![p] = [row EXCEPT ![i] = a]] /\ DOMAIN row = UserPde
       /\ DOMAIN pde = Process
  BY <1>1, <1>2, <1>10 DEF SpaceTypes
<1>12. /\ pde'[p][i] = a
       /\ \A k \in UserPde : k # i => pde'[p][k] = pde[p][k]
       /\ \A q \in Process : q # p => pde'[q] = pde[q]
  BY <1>4, <1>10, <1>11
<1>13. PICK tab : tab = [empty_table EXCEPT ![e] = paddr[p]]
  OBVIOUS
<1>14. /\ tab \in [PteIdx -> PageOf(user_phy_pool) \cup {NOT_PRESENT}]
       /\ tab[e] = paddr[p] /\ \A j \in PteIdx : j # e => tab[j] = NOT_PRESENT
  <2>1. paddr[p] \in PageOf(user_phy_pool)
    BY <1>2, <1>3 DEF SpaceTypes
  <2> QED
    BY <1>4, <1>13, <2>1 DEF empty_table
<1>15. paddr' \in [Process -> PageOf(user_phy_pool) \cup {NULL}]
  BY <1>2, <1>6 DEF SpaceTypes
<1>16. CASE b = -1
  <2>1. heap' = heap /\ a = NULL /\ fault' = "low_memory"
    BY <1>0, <1>1, <1>16
  <2>2. m = Size /\ Full(heap.phy)
    BY <1>8, <1>9, <1>16 DEF Full
  <2>3. SpaceTypes'
    <3>1. [row EXCEPT ![i] = a] \in [UserPde -> PageOf(heap.phy) \cup {NULL, NOT_PRESENT}]
      BY <1>2, <1>10, <2>1 DEF SpaceTypes
    <3>2. pde' \in [Process -> [UserPde -> PageOf(heap.phy) \cup {NULL, NOT_PRESENT}]]
      BY <1>2, <1>11, <3>1 DEF SpaceTypes
    <3>3. page_table' \in [PageOf(heap.phy) \cup {NULL}
                             -> [PteIdx -> PageOf(user_phy_pool) \cup {NOT_PRESENT}]]
      BY <1>1, <1>2, <1>13, <1>14 DEF SpaceTypes
    <3> QED
      BY <1>1, <1>2, <1>15, <2>1, <3>2, <3>3 DEF SpaceTypes
  <2>4. HeapTypes' /\ Size' = Size
    BY <1>2, <2>1 DEF HeapTypes, Size
  <2>5. TypeOK'
    BY <1>6, <2>3, <2>4, TypeParts, PTL
  <2>6. PoolsInv'
    BY <1>1, <1>2, <2>1, <2>4 DEF PoolsInv
  <2>7. StopInv'
    <3>1. bitmap_scan(heap.phy, BITMAP_PAGES) = -1
      BY <1>8, <2>2, FullScan, MemoryAssumption
    <3> QED
      BY <2>1, <2>2, <3>1 DEF StopInv
  <2> QED
    BY <1>6, <2>1, <2>5, <2>6, <2>7 DEF MemInv
<1>17. CASE b # -1
  <2>1. b = m /\ m \in 0 .. Size - 1 /\ a = KPage(m) /\ a # NULL /\ a # NOT_PRESENT
    <3>1. b = m /\ m \in 0 .. Size - 1
      BY <1>8, <1>9, <1>17
    <3>2. a = KPage(m)
      BY <1>0, <1>2, <1>17, <3>1, Shape
    <3> QED
      BY <3>1, <3>2, KPages
  <2>2. fault' = "none" /\ heap' = table_page_set(heap, m)
    BY <1>1, <1>17, <2>1
  <2>3. PICK h, T : h = heap' /\ T = Tables
    OBVIOUS
  <2>4. /\ HeapSound(h, Size, n, m + 1, T \cup {KPage(m)}) /\ KPage(m) \notin T
        /\ h.phy = bitmap_set(heap.phy, m) /\ h.vir = heap.vir /\ h.pte = heap.pte
        /\ h.vaddr = heap.vaddr /\ h.repeated = FALSE
    <3>1. PICK g, size : g = heap /\ size = Size
      OBVIOUS
    <3>2. /\ size \in Nat /\ n \in 0 .. size /\ m \in 0 .. size - 1
          /\ HeapSound(g, size, n, m, T) /\ h = table_page_set(g, m)
      <4>1. size \in Nat /\ n \in 0 .. size /\ m \in 0 .. size - 1
        BY <1>8, <2>1, <3>1
      <4>2. HeapSound(g, size, n, m, T)
        BY <1>7, <2>3, <3>1
      <4>3. h = table_page_set(g, m)
        BY <2>2, <2>3, <3>1
      <4> QED
        BY <4>1, <4>2, <4>3
    <3>3. Takes(g, h, size, n, m, T)
      BY <3>2, TableTaken
    <3> QED
      BY <3>1, <3>3 DEF Takes
  <2>5. /\ h.phy.btmp = heap.phy.btmp \cup {m} /\ h.phy.bit_num = Size
        /\ h.phy \in Pool(h.phy) /\ PageOf(h.phy) = PageOf(heap.phy)
    BY <1>8, <2>1, <2>4, BitSet
  <2>6. Size' = Size
    BY <2>3, <2>5 DEF Size
  <2>7. TableUse' = TableUse \cup {<<p, i>>} /\ <<p, i>> \notin TableUse
    <3>1. \A q \in Process, k \in UserPde : ~(q = p /\ k = i) => pde'[q][k] = pde[q][k]
      BY <1>12
    <3>2. \A q \in Process, k \in UserPde :
            pde'[q][k] # NOT_PRESENT <=> pde[q][k] # NOT_PRESENT \/ (q = p /\ k = i)
      BY <1>12, <2>1, <3>1
    <3>3. \A x : x \in TableUse' <=> x \in Process \X UserPde /\ pde'[x[1]][x[2]] # NOT_PRESENT
      BY DEF TableUse
    <3>4. \A x : x \in TableUse <=> x \in Process \X UserPde /\ pde[x[1]][x[2]] # NOT_PRESENT
      BY DEF TableUse
    <3>5. <<p, i>> \in Process \X UserPde /\ <<p, i>> \notin TableUse
      BY <1>3, <1>4, <3>4
    <3>6. ASSUME NEW x PROVE x \in TableUse' <=> x \in TableUse \cup {<<p, i>>}
      <4>1. CASE x \in Process \X UserPde
        <5>1. PICK q \in Process, k \in UserPde : x = <<q, k>>
          BY <4>1
        <5>2. x[1] = q /\ x[2] = k /\ (x = <<p, i>> <=> q = p /\ k = i)
          BY <5>1
        <5> QED
          BY <3>2, <3>3, <3>4, <4>1, <5>2
      <4>2. CASE x \notin Process \X UserPde
        BY <3>3, <3>4, <3>5, <4>2
      <4> QED
        BY <4>1, <4>2
    <3> QED
      BY <3>5, <3>6
  <2>8. /\ \A x \in TableUse : pde'[x[1]][x[2]] = pde[x[1]][x[2]]
        /\ \A x \in TableUse : pde[x[1]][x[2]] \in Tables
        /\ pde'[<<p, i>>[1]][<<p, i>>[2]] = a
    <3>1. ASSUME NEW x \in TableUse PROVE pde'[x[1]][x[2]] = pde[x[1]][x[2]]
      <4>1. PICK q \in Process, k \in UserPde : x = <<q, k>>
        BY DEF TableUse
      <4>2. ~(q = p /\ k = i)
        BY <2>7, <4>1
      <4>3. pde'[q][k] = pde[q][k]
        BY <1>12, <4>2
      <4> QED
        BY <4>1, <4>3
    <3>2. \A x \in TableUse : pde[x[1]][x[2]] \in Tables
      BY DEF Tables
    <3> QED
      BY <1>12, <3>1, <3>2
  <2>9. Tables' = Tables \cup {a}
    <3>1. Tables' = {pde'[x[1]][x[2]] : x \in TableUse'}
      BY DEF Tables
    <3>2. Tables = {pde[x[1]][x[2]] : x \in TableUse}
      BY DEF Tables
    <3> QED
      BY <2>7, <2>8, <3>1, <3>2
  <2>10. HeapInv'
    <3>1. HeapSound(h, Size, n, m + 1, Tables')
      BY <2>1, <2>3, <2>4, <2>9
    <3>2. ~Booting'
      <4>1. pc'[p] \in {"unlock", "scan"}
        BY <1>1, <1>5, MappedLocals
      <4> QED
        BY <4>1 DEF Booting
    <3>3. n \in 0 .. Size' /\ m + 1 \in 0 .. Size'
      BY <1>8, <2>1, <2>6
    <3> QED
      BY <2>3, <2>6, <3>1, <3>2, <3>3 DEF HeapInv
  <2>11. PoolsInv'
    <3>1. HeapShape(heap', Size', n, m + 1) /\ n \in 0 .. Size' /\ m + 1 \in 0 .. Size'
      BY <1>8, <2>1, <2>3, <2>4, <2>6 DEF HeapSound
    <3> QED
      BY <1>1, <1>2, <2>6, <3>1 DEF PoolsInv
  <2>12. BootInv'
    <3>1. \A q \in Process : pc'[q] # "none" /\ pc[q] # "none"
      BY <1>1, <1>2, <1>6, MovesBooted DEF Booted
    <3>2. ~(boot_pages' <= KTHREAD_NUM)
      BY <1>1, <1>2, <3>1 DEF BootInv
    <3>3. Full(heap.phy) => Full(heap'.phy)
      BY <1>8, <2>3, <2>5 DEF Full
    <3>4. \A q \in Process : pg_dir'[q] = NULL => Full(heap'.phy)
      BY <1>1, <1>2, <3>1, <3>3 DEF BootInv
    <3> QED
      BY <3>1, <3>2, <3>4 DEF BootInv
  <2>13. a \notin Tables
    BY <2>1, <2>3, <2>4
  <2>14. TablesInv'
    <3>1. \A x \in TableUse : pde'[x[1]][x[2]] # a
      BY <2>8, <2>13
    <3>2. \A x, y \in TableUse : pde'[x[1]][x[2]] = pde'[y[1]][y[2]] => x = y
      BY <1>2, <2>8 DEF TablesInv
    <3> QED
      BY <2>7, <2>8, <3>1, <3>2 DEF TablesInv
  <2>15. StopInv'
    <3>1. m \in h.phy.btmp /\ heap.phy.btmp \subseteq h.phy.btmp
      BY <2>5
    <3>2. ~Full(heap.phy)
      BY <1>8, <2>1 DEF Full
    <3>3. \A x \in TableUse : \E c \in h.phy.btmp : pde'[x[1]][x[2]] = KPage(c)
      BY <1>2, <2>8, <3>1, <3>2 DEF StopInv
    <3>4. \A x \in TableUse' : \E c \in h.phy.btmp : pde'[x[1]][x[2]] = KPage(c)
      BY <2>1, <2>7, <2>8, <3>1, <3>3
    <3> QED
      BY <2>2, <2>3, <3>4 DEF StopInv
  <2>16. HeapTypes'
    BY <1>2, <2>3, <2>4, <2>5 DEF HeapTypes
  <2>17. a \in PageOf(heap.phy)
    BY <1>0, <1>8, <1>17, <2>1 DEF PageOf
  <2>18. SpaceTypes'
    <3>1. [row EXCEPT ![i] = a] \in [UserPde -> PageOf(heap.phy) \cup {NULL, NOT_PRESENT}]
      BY <1>2, <1>10, <2>17 DEF SpaceTypes
    <3>2. pde' \in [Process -> [UserPde -> PageOf(heap.phy) \cup {NULL, NOT_PRESENT}]]
      BY <1>2, <1>11, <3>1 DEF SpaceTypes
    <3>3. page_table' \in [PageOf(heap.phy) \cup {NULL}
                             -> [PteIdx -> PageOf(user_phy_pool) \cup {NOT_PRESENT}]]
      BY <1>1, <1>2, <1>13, <1>14 DEF SpaceTypes
    <3>4. PageOf(heap'.vir) = PageOf(heap.vir) /\ PageOf(heap'.phy) = PageOf(heap.phy)
      BY <2>3, <2>4, <2>5
    <3> QED
      BY <1>1, <1>2, <1>15, <3>2, <3>3, <3>4 DEF SpaceTypes
  <2>19. MapsOne(p)
    <3> SUFFICES ASSUME NEW q \in Process, NEW w \in UserPage
                 PROVE  Mapped(q, w)' = IF q = p /\ w = v THEN paddr[p] ELSE Mapped(q, w)
      BY <1>0 DEF MapsOne
    <3>1. PICK k, j, s : k = PDE_IDX(w) /\ j = PTE_IDX(w) /\ s = pde[q][k]
      OBVIOUS
    <3>2. k \in UserPde /\ j \in PteIdx
      BY <3>1, UserPages
    <3>3. page_table'[a] = tab
      BY <1>1, <1>2, <1>13, <2>17 DEF SpaceTypes
    <3>4. CASE q = p /\ k = i
      <4>1. Mapped(q, w) = NOT_PRESENT
        BY <1>3, <3>1, <3>4 DEF Mapped
      <4>2. Mapped(q, w)' = tab[j]
        BY <1>12, <2>1, <3>1, <3>3, <3>4 DEF Mapped
      <4>3. w = v <=> j = e
        BY <1>0, <1>3, <3>1, <3>4, UserPages
      <4> QED
        BY <1>14, <3>2, <3>4, <4>1, <4>2, <4>3
    <3>5. CASE ~(q = p /\ k = i)
      <4>1. pde'[q][k] = s
        BY <1>12, <3>1, <3>2, <3>5
      <4>2. ~(q = p /\ w = v)
        BY <1>0, <3>1, <3>5
      <4>3. s # NOT_PRESENT => page_table'[s] = page_table[s]
        <5> SUFFICES ASSUME s # NOT_PRESENT PROVE page_table'[s] = page_table[s]
          OBVIOUS
        <5>1. <<q, k>> \in TableUse
          BY <3>1, <3>2 DEF TableUse
        <5>2. s \in Tables
          BY <2>8, <3>1, <5>1
        <5>3. s # a
          BY <2>13, <5>2
        <5>4. s \in PageOf(heap.phy) \cup {NULL}
          BY <1>2, <3>1, <3>2 DEF SpaceTypes
        <5> QED
          BY <1>1, <1>2, <5>3, <5>4 DEF SpaceTypes
      <4>4. Mapped(q, w)' = Mapped(q, w)
        BY <3>1, <4>1, <4>3 DEF Mapped
      <4> QED
        BY <4>2, <4>4
    <3> QED
      BY <3>4, <3>5
  <2>20. /\ CallOK(p)' /\ ReservedOK(p)' /\ PagesInv'
         /\ \A q \in Process : q # p => CallOK(q)' /\ ReservedOK(q)'
    BY <1>1, <1>5, <1>12, <2>2, <2>19, MapStep
  <2>21. MemInv'
    BY <1>6, <2>10, <2>11, <2>12, <2>14, <2>15, <2>16, <2>18, <2>20, Together
  <2> QED
    BY <2>3, <2>4, <2>19, <2>21
<1> QED
  BY <1>16, <1>17

-----------------------------------------------------------------------------
(* main() allocates.                                                       *)

\* What allocations at boot leave alone.
BootKept ==
  UNCHANGED <<user_phy_pool, user_phy_mtx, user_vaddr_btmp, pde, page_table, call,
              cnt, vaddr, bit_idx, paddr>>

\* The heap h may follow on the heap there is, of which it has the pages.
Follows(h, n, m) ==
  /\ HeapSound(h, Size, n, m, Tables)
  /\ m = n \/ m = Size
  /\ Full(heap.phy) => m = Size
  /\ heap.phy.btmp \subseteq 0 .. m - 1
  /\ h.vaddr # NULL => \E i \in 0 .. Size - 1 : h.vaddr = K_HEAP_START + i * PG_SIZE

\* An allocation at boot keeps what the invariant says of everything but boot.
LEMMA BootStep ==
  ASSUME MemInv, fault = "none", Booting, Booting', BootKept,
         NEW n, NEW m, n \in 0 .. Size, m \in 0 .. Size, Follows(heap', n, m)
  PROVE  /\ HeapTypes' /\ PoolsInv' /\ MutexInv' /\ HeapInv' /\ TablesInv' /\ PagesInv'
         /\ CallInv' /\ ReservedInv' /\ Size' = Size
         /\ heap'.phy.bit_num = Size /\ heap'.phy.btmp = 0 .. m - 1
         /\ Full(heap'.phy) <=> m = Size
         /\ \A x \in TableUse' :
              (\E b \in heap'.phy.btmp : pde'[x[1]][x[2]] = KPage(b)) \/ Full(heap'.phy)
         /\ heap'.vaddr \in PageOf(heap'.vir) \cup {NULL}
         /\ PageOf(heap'.vir) = PageOf(heap.vir) /\ PageOf(heap'.phy) = PageOf(heap.phy)
<1>1. PICK h, T, size, H : h = heap' /\ T = Tables /\ size = Size /\ H = heap
  OBVIOUS
<1>2. /\ TypeOK /\ PoolsInv /\ MutexInv /\ StopInv /\ TablesInv /\ PagesInv
      /\ CallInv /\ ReservedInv
  BY DEF MemInv, RunInv
<1>3. size \in Nat /\ n \in Nat /\ m \in Nat /\ n \in 0 .. size /\ m \in 0 .. size
  BY <1>1, <1>2, Shape
<1>4. HeapSound(h, size, n, m, T) /\ (m = n \/ m = size)
  BY <1>1 DEF Follows
<1>5. /\ h.phy \in PoolRec(size, used_mem) /\ h.vir \in PoolRec(size, K_HEAP_START)
      /\ h.phy.btmp = 0 .. m - 1 /\ h.pte \in [0 .. size - 1 -> Int]
      /\ HeapShape(h, size, n, m) /\ h.repeated = FALSE
      /\ \A x \in 0 .. size - 1 : h.pte[x] # NOT_PRESENT =>
           \E b \in 0 .. m - 1 : h.pte[x] = KPage(b)
  BY <1>4 DEF HeapSound, HeapShape
<1>6. /\ h.phy.bit_num = size /\ h.vir.bit_num = size /\ h.phy.addr_base = used_mem
      /\ h.vir.addr_base = K_HEAP_START
  BY <1>5 DEF PoolRec
<1>7. /\ H.phy.bit_num = size /\ H.vir.bit_num = size /\ H.phy.addr_base = used_mem
      /\ H.vir.addr_base = K_HEAP_START
  <2>1. PICK n0, m0 \in 0 .. Size : HeapShape(heap, Size, n0, m0)
    BY <1>2 DEF PoolsInv
  <2>2. H.phy \in PoolRec(size, used_mem) /\ H.vir \in PoolRec(size, K_HEAP_START)
    BY <1>1, <2>1 DEF HeapShape
  <2> QED
    BY <2>2 DEF PoolRec
<1>8. PageOf(h.vir) = PageOf(H.vir) /\ PageOf(h.phy) = PageOf(H.phy)
  BY <1>6, <1>7 DEF PageOf, addr_of
<1>9. /\ \A b \in 0 .. size - 1 : KPage(b) \in PageOf(h.phy)
      /\ \A b \in 0 .. size - 1 : K_HEAP_START + b * PG_SIZE \in PageOf(h.vir)
  BY <1>6 DEF PageOf, addr_of, KPage
<1>10. h.vaddr \in PageOf(h.vir) \cup {NULL}
  BY <1>1, <1>9 DEF Follows
<1>11. HeapTypes'
  <2>1. h.phy \in Pool(h.phy) /\ h.vir \in Pool(h.vir)
    BY <1>5, <1>6 DEF Pool, PoolRec
  <2>2. h.pte \in [0 .. h.vir.bit_num - 1 -> PageOf(h.phy) \cup {NOT_PRESENT}]
    <3>1. \A x \in 0 .. size - 1 : h.pte[x] \in PageOf(h.phy) \cup {NOT_PRESENT}
      BY <1>3, <1>5, <1>9
    <3> QED
      BY <1>5, <1>6, <3>1
  <2> QED
    BY <1>1, <1>5, <1>10, <2>1, <2>2 DEF HeapTypes
<1>12. Size' = Size
  BY <1>1, <1>6 DEF Size
<1>13. PoolsInv'
  <2>1. user_phy_pool' = user_phy_pool
    BY DEF BootKept
  <2> QED
    BY <1>1, <1>2, <1>3, <1>5, <1>12, <2>1 DEF PoolsInv
<1>14. \A q \in Process : ~InMutex(q) /\ ~InMutex(q)' /\ ~InLoop(q) /\ ~InLoop(q)'
         /\ pc[q] \in {"none", "ready"} /\ pc'[q] \in {"none", "ready"}
  BY DEF Booting, InMutex, InLoop
<1>15. MutexInv'
  BY <1>2, <1>14 DEF MutexInv, BootKept
<1>16. /\ \A q, va : Mapped(q, va)' = Mapped(q, va)
       /\ TableUse' = TableUse /\ Tables' = Tables
  BY KeptMaps DEF BootKept
<1>17. HeapInv'
  BY <1>1, <1>3, <1>4, <1>12, <1>16 DEF HeapInv
<1>18. TablesInv'
  BY <1>2, <1>16 DEF TablesInv, BootKept
<1>19. PagesInv'
  <2>1. \A b : UPage(b)' = UPage(b)
    BY DEF UPage, BootKept
  <2>2. user_phy_pool' = user_phy_pool /\ paddr' = paddr
    BY DEF BootKept
  <2> QED
    BY <1>2, <1>16, <2>1, <2>2 DEF PagesInv
<1>20. \A q \in Process : Pending(q) = {} /\ Pending(q)' = {}
  BY <1>14 DEF Pending
<1>21. CallInv'
  <2> SUFFICES ASSUME NEW q \in Process PROVE CallOK(q)'
    BY DEF CallInv
  <2>1. CallOK(q) /\ NoAddressYet(q) /\ pc'[q] \in {"none", "ready"} /\ ~InLoop(q)'
    BY <1>2, <1>14 DEF CallInv, NoAddressYet
  <2>2. user_vaddr_btmp[q] = {} /\ paddr[q] = NULL
    BY <1>14, <2>1 DEF CallOK
  <2>3. user_vaddr_btmp'[q] = {} /\ paddr'[q] = NULL
    BY <2>2 DEF BootKept
  <2> QED
    BY <1>20, <2>1, <2>3 DEF CallOK
<1>22. ReservedInv'
  <2>1. user_phy_pool' = user_phy_pool /\ user_vaddr_btmp' = user_vaddr_btmp
    BY DEF BootKept
  <2> QED
    BY <1>2, <1>16, <1>20, <2>1 DEF ReservedInv, ReservedOK
<1>23. Full(h.phy) <=> m = size
  BY <1>3, <1>5, <1>6 DEF Full
<1>24. ASSUME NEW x \in TableUse'
       PROVE  (\E b \in h.phy.btmp : pde'[x[1]][x[2]] = KPage(b)) \/ Full(h.phy)
  <2>1. (\E b \in H.phy.btmp : pde[x[1]][x[2]] = KPage(b)) \/ Full(H.phy)
    BY <1>1, <1>2, <1>16 DEF StopInv
  <2>2. H.phy.btmp \subseteq h.phy.btmp /\ (Full(H.phy) => Full(h.phy))
    BY <1>1, <1>5, <1>23 DEF Follows
  <2>3. pde' = pde
    BY DEF BootKept
  <2> QED
    BY <2>1, <2>2, <2>3
<1> QED
  BY <1>1, <1>5, <1>6, <1>8, <1>10, <1>11, <1>12, <1>13, <1>15, <1>17, <1>18, <1>19,
     <1>21, <1>22, <1>23, <1>24

\* A TCB of a kernel thread is allocated.
LEMMA KernelPageStep ==
  ASSUME MemInv, KernelPage
  PROVE  /\ MemInv'
         /\ UNCHANGED <<pde, page_table>>
         /\ \A i \in HeapUse : heap'.pte[i] = heap.pte[i]
<1>1. /\ fault = "none" /\ boot_pages <= KTHREAD_NUM
      /\ heap' = kernel_pages_malloc(heap, 1)
      /\ fault' = FaultOf(heap', heap'.vaddr = NULL)
      /\ boot_pages' = boot_pages + 1
      /\ UNCHANGED <<user_phy_pool, user_phy_mtx, spaceVars, localVars>>
  BY DEF KernelPage
<1>2. BootKept /\ pc' = pc /\ pg_dir' = pg_dir
  BY <1>1 DEF BootKept, spaceVars, localVars
<1>3. /\ PoolsInv /\ BootInv /\ HeapInv /\ StopInv /\ SpaceTypes /\ CallTypes
  BY <1>1, TypeParts DEF MemInv, RunInv
<1>4. \A q \in Process : pc[q] = "none" /\ pc'[q] = "none"
  BY <1>1, <1>2, <1>3 DEF BootInv
<1>5. Booting /\ Booting'
  BY <1>4 DEF Booting
<1>6. PICK h, r, T, size : h = heap /\ r = heap' /\ T = Tables /\ size = Size
  OBVIOUS
<1>7. PICK n, m \in 0 .. size : HeapSound(h, size, n, m, T) /\ (m = n \/ m = size)
  BY <1>3, <1>5, <1>6 DEF HeapInv
<1>8. size \in Nat
  BY <1>3, <1>6, Shape
<1>9. r = kernel_pages_malloc(h, 1)
  BY <1>1, <1>6
<1>10. PICK n1, m1 \in 0 .. size : Allocates(h, r, size, n, m, 1, n1, m1, T)
  BY <1>7, <1>8, <1>9, MallocSound
<1>11. /\ HeapSound(r, size, n1, m1, T) /\ (m1 = n1 \/ m1 = size) /\ m <= m1
       /\ r.vaddr = NULL => m1 + 1 > size
       /\ r.vaddr # NULL => \E i \in 0 .. size - 1 : r.vaddr = K_HEAP_START + i * PG_SIZE
       /\ n1 \in Nat /\ m1 \in Nat /\ n \in Nat /\ m \in Nat
  BY <1>7, <1>8, <1>10 DEF Allocates
<1>12. h.phy.btmp = 0 .. m - 1 /\ h.phy.bit_num = size
  BY <1>6, <1>7 DEF HeapSound, HeapShape, Size
<1>13. Full(h.phy) => m1 = size
  <2>1. Full(h.phy) => m >= size
    BY <1>8, <1>11, <1>12 DEF Full
  <2> QED
    BY <1>8, <1>11, <2>1
<1>14. Follows(heap', n1, m1)
  <2>1. h.phy.btmp \subseteq 0 .. m1 - 1
    BY <1>11, <1>12
  <2> QED
    BY <1>6, <1>11, <1>13, <2>1 DEF Follows
<1>15. n1 \in 0 .. Size /\ m1 \in 0 .. Size
  BY <1>6
<1>16. /\ HeapTypes' /\ PoolsInv' /\ MutexInv' /\ HeapInv' /\ TablesInv' /\ PagesInv'
       /\ CallInv' /\ ReservedInv' /\ Size' = Size
       /\ heap'.phy.bit_num = Size /\ heap'.phy.btmp = 0 .. m1 - 1
       /\ Full(heap'.phy) <=> m1 = Size
       /\ \A x \in TableUse' :
            (\E b \in heap'.phy.btmp : pde'[x[1]][x[2]] = KPage(b)) \/ Full(heap'.phy)
       /\ PageOf(heap'.vir) = PageOf(heap.vir) /\ PageOf(heap'.phy) = PageOf(heap.phy)
  BY <1>1, <1>2, <1>5, <1>14, <1>15, BootStep
<1>17. fault' = IF heap'.vaddr = NULL THEN "low_memory" ELSE "none"
  BY <1>1, <1>6, <1>11 DEF FaultOf, HeapSound
<1>18. StopInv'
  <2>1. heap'.vaddr = NULL => bitmap_scan(heap'.phy, BITMAP_PAGES) = -1
    <3> SUFFICES ASSUME heap'.vaddr = NULL PROVE bitmap_scan(heap'.phy, BITMAP_PAGES) = -1
      OBVIOUS
    <3>1. Full(heap'.phy)
      BY <1>6, <1>8, <1>11, <1>16
    <3>2. heap'.phy.bit_num \in Nat
      BY <1>6, <1>8, <1>16
    <3> QED
      BY <3>1, <3>2, FullScan, MemoryAssumption
  <2> QED
    BY <1>16, <1>17, <2>1 DEF StopInv
<1>19. BootInv'
  BY <1>4, <1>5 DEF BootInv
<1>20. SpaceTypes'
  BY <1>2, <1>3, <1>16 DEF SpaceTypes, BootKept
<1>21. CallTypes'
  <2>1. boot_pages' \in 0 .. KTHREAD_NUM + 1
    BY <1>1, <1>3, MemoryAssumption DEF CallTypes
  <2> QED
    BY <1>2, <1>3, <1>17, <2>1 DEF CallTypes, BootKept
<1>22. TypeOK'
  BY <1>16, <1>20, <1>21, TypeParts, PTL
<1>23. \A i \in HeapUse : heap'.pte[i] = heap.pte[i]
  <2>1. DOMAIN h.pte = 0 .. size - 1
    BY <1>7 DEF HeapSound, HeapShape
  <2> QED
    BY <1>6, <1>10, <2>1 DEF HeapUse, Allocates
<1> QED
  BY <1>2, <1>16, <1>18, <1>19, <1>22, <1>23 DEF MemInv, RunInv, BootKept

\* process_run: TCB, address bitmap and page directory.
LEMMA ProcessRunStep ==
  ASSUME MemInv, NEW p \in Process, ProcessRun(p)
  PROVE  /\ MemInv'
         /\ UNCHANGED <<pde, page_table>>
         /\ \A i \in HeapUse : heap'.pte[i] = heap.pte[i]
<1>0. PICK h, T, size : h = heap /\ T = Tables /\ size = Size
  OBVIOUS
<1>1. PICK tcb, bm, dir :
        /\ tcb = kernel_pages_malloc(h, 1)
        /\ bm = kernel_pages_malloc(tcb, BITMAP_PAGES)
        /\ dir = kernel_pages_malloc(bm, 1)
  OBVIOUS
<1>2. /\ fault = "none" /\ boot_pages > KTHREAD_NUM /\ pc[p] = "none"
      /\ heap' = dir /\ pg_dir' = [pg_dir EXCEPT ![p] = dir.vaddr]
      /\ fault' = FaultOf(dir, NULL \in {tcb.vaddr, bm.vaddr})
      /\ pc' = [pc EXCEPT ![p] = "ready"] /\ boot_pages' = boot_pages
      /\ BootKept
  BY <1>0, <1>1 DEF ProcessRun, BootKept
<1>3. /\ PoolsInv /\ BootInv /\ HeapInv /\ StopInv /\ SpaceTypes /\ CallTypes
      /\ pc \in [Process -> Location]
  BY <1>2, TypeParts DEF MemInv, RunInv, CallTypes
<1>4. Booting /\ Booting'
  <2>1. Booting
    BY <1>2, <1>3 DEF BootInv
  <2> QED
    BY <1>2, <1>3, <2>1 DEF Booting
<1>5. PICK n, m \in 0 .. size : HeapSound(h, size, n, m, T) /\ (m = n \/ m = size)
  BY <1>0, <1>3, <1>4 DEF HeapInv
<1>6. size \in Nat
  BY <1>0, <1>3, Shape
<1>7. BITMAP_PAGES \in Nat \ {0}
  BY MemoryAssumption
<1>8. PICK n1, m1 \in 0 .. size : Allocates(h, tcb, size, n, m, 1, n1, m1, T)
  BY <1>1, <1>5, <1>6, MallocSound
<1>9. /\ HeapSound(tcb, size, n1, m1, T) /\ (m1 = n1 \/ m1 = size) /\ m <= m1
      /\ tcb.vaddr = NULL => m1 + 1 > size
      /\ n1 \in Nat /\ m1 \in Nat /\ n \in Nat /\ m \in Nat
  BY <1>5, <1>6, <1>8 DEF Allocates
<1>10. PICK n2, m2 \in 0 .. size : Allocates(tcb, bm, size, n1, m1, BITMAP_PAGES, n2, m2, T)
  BY <1>1, <1>6, <1>7, <1>9, MallocSound
<1>11. /\ HeapSound(bm, size, n2, m2, T) /\ (m2 = n2 \/ m2 = size) /\ m1 <= m2
       /\ bm.vaddr = NULL => m2 + BITMAP_PAGES > size
       /\ n2 \in Nat /\ m2 \in Nat
  BY <1>6, <1>9, <1>10 DEF Allocates
<1>12. PICK n3, m3 \in 0 .. size : Allocates(bm, dir, size, n2, m2, 1, n3, m3, T)
  BY <1>1, <1>6, <1>11, MallocSound
<1>13. /\ HeapSound(dir, size, n3, m3, T) /\ (m3 = n3 \/ m3 = size) /\ m2 <= m3
       /\ dir.vaddr = NULL => m3 + 1 > size
       /\ dir.vaddr # NULL => \E i \in 0 .. size - 1 : dir.vaddr = K_HEAP_START + i * PG_SIZE
       /\ n3 \in Nat /\ m3 \in Nat
  BY <1>6, <1>11, <1>12 DEF Allocates
<1>14. m <= m3 /\ m1 <= m3
  BY <1>9, <1>11, <1>13
<1>15. h.phy.btmp = 0 .. m - 1 /\ h.phy.bit_num = size
  BY <1>0, <1>5 DEF HeapSound, HeapShape, Size
<1>16. Full(h.phy) => m3 = size
  <2>1. Full(h.phy) => m >= size
    BY <1>6, <1>9, <1>15 DEF Full
  <2> QED
    BY <1>6, <1>9, <1>13, <1>14, <2>1
<1>17. Follows(heap', n3, m3)
  <2>1. h.phy.btmp \subseteq 0 .. m3 - 1
    BY <1>9, <1>13, <1>14, <1>15
  <2> QED
    BY <1>0, <1>2, <1>13, <1>16, <2>1 DEF Follows
<1>18. n3 \in 0 .. Size /\ m3 \in 0 .. Size
  BY <1>0
<1>19. /\ HeapTypes' /\ PoolsInv' /\ MutexInv' /\ HeapInv' /\ TablesInv' /\ PagesInv'
       /\ CallInv' /\ ReservedInv' /\ Size' = Size
       /\ heap'.phy.bit_num = Size /\ heap'.phy.btmp = 0 .. m3 - 1
       /\ Full(heap'.phy) <=> m3 = Size
       /\ \A x \in TableUse' :
            (\E b \in heap'.phy.btmp : pde'[x[1]][x[2]] = KPage(b)) \/ Full(heap'.phy)
       /\ heap'.vaddr \in PageOf(heap'.vir) \cup {NULL}
       /\ PageOf(heap'.vir) = PageOf(heap.vir) /\ PageOf(heap'.phy) = PageOf(heap.phy)
  BY <1>2, <1>4, <1>17, <1>18, BootStep
<1>20. fault' = IF NULL \in {tcb.vaddr, bm.vaddr} THEN "low_memory" ELSE "none"
  BY <1>2, <1>13 DEF FaultOf, HeapSound
<1>21. StopInv'
  <2>1. NULL \in {tcb.vaddr, bm.vaddr} => m3 + BITMAP_PAGES > size
    BY <1>6, <1>7, <1>9, <1>11, <1>13, <1>14
  <2>2. bitmap_scan(heap'.phy, BITMAP_PAGES)
          = IF m3 + BITMAP_PAGES <= size THEN m3 ELSE -1
    <3>1. PICK pool : pool = heap'.phy
      OBVIOUS
    <3>2. pool.bit_num = size /\ pool.btmp = 0 .. m3 - 1
      BY <1>0, <1>19, <3>1
    <3>3. bitmap_scan(pool, BITMAP_PAGES)
            = IF m3 + BITMAP_PAGES <= pool.bit_num THEN m3 ELSE -1
      BY <1>6, <1>7, <1>13, <3>2, ScanPrefix
    <3> QED
      BY <3>1, <3>2, <3>3
  <2>3. NULL \in {tcb.vaddr, bm.vaddr} => bitmap_scan(heap'.phy, BITMAP_PAGES) = -1
    BY <1>6, <1>7, <1>13, <2>1, <2>2
  <2> QED
    BY <1>19, <1>20, <2>3 DEF StopInv
<1>22. BootInv'
  <2>1. ASSUME NEW q \in Process, pc'[q] # "none", pg_dir'[q] = NULL
        PROVE  Full(heap'.phy)
    <3>1. CASE q = p
      <4>1. dir.vaddr = NULL
        BY <1>2, <1>3, <2>1, <3>1 DEF SpaceTypes
      <4> QED
        BY <1>0, <1>6, <1>13, <1>19, <4>1
    <3>2. CASE q # p
      <4>1. pc[q] # "none" /\ pg_dir[q] = NULL
        BY <1>2, <1>3, <2>1, <3>2 DEF SpaceTypes
      <4>2. Full(h.phy)
        BY <1>0, <1>3, <4>1 DEF BootInv
      <4> QED
        BY <1>0, <1>16, <1>19, <4>2
    <3> QED
      BY <3>1, <3>2
  <2>2. ~(boot_pages' <= KTHREAD_NUM)
    <3>1. boot_pages \in Int /\ KTHREAD_NUM \in Nat
      BY <1>3, MemoryAssumption DEF CallTypes
    <3> QED
      BY <1>2, <3>1
  <2> QED
    BY <1>4, <2>1, <2>2 DEF BootInv
<1>23. SpaceTypes'
  <2>1. pg_dir' \in [Process -> PageOf(heap'.vir) \cup {NULL}]
    BY <1>2, <1>3, <1>19 DEF SpaceTypes
  <2> QED
    BY <1>2, <1>3, <1>19, <2>1 DEF SpaceTypes, BootKept
<1>24. CallTypes'
  <2>1. pc' \in [Process -> Location]
    BY <1>2, <1>3 DEF Location
  <2> QED
    BY <1>2, <1>3, <1>20, <2>1 DEF CallTypes, BootKept
<1>25. TypeOK'
  BY <1>19, <1>23, <1>24, TypeParts, PTL
<1>26. \A i \in HeapUse : heap'.pte[i] = heap.pte[i]
  <2>1. DOMAIN h.pte = 0 .. size - 1
    BY <1>5 DEF HeapSound, HeapShape
  <2>2. \A x \in 0 .. size - 1 : h.pte[x] # NOT_PRESENT => tcb.pte[x] = h.pte[x]
    BY <1>8 DEF Allocates
  <2>3. \A x \in 0 .. size - 1 : tcb.pte[x] # NOT_PRESENT => bm.pte[x] = tcb.pte[x]
    BY <1>10 DEF Allocates
  <2>4. \A x \in 0 .. size - 1 : bm.pte[x] # NOT_PRESENT => dir.pte[x] = bm.pte[x]
    BY <1>12 DEF Allocates
  <2> QED
    BY <1>0, <1>2, <2>1, <2>2, <2>3, <2>4 DEF HeapUse
<1> QED
  BY <1>2, <1>19, <1>21, <1>22, <1>25, <1>26 DEF MemInv, RunInv, BootKept

\* A step that changes nothing.
LEMMA StutterStep ==
  ASSUME MemInv, UNCHANGED vars
  PROVE  MemInv'
<1>1. /\ heap' = heap /\ user_phy_pool' = user_phy_pool /\ user_phy_mtx' = user_phy_mtx
      /\ boot_pages' = boot_pages /\ pg_dir' = pg_dir
      /\ user_vaddr_btmp' = user_vaddr_btmp /\ pde' = pde /\ page_table' = page_table
      /\ pc' = pc /\ call' = call /\ cnt' = cnt /\ vaddr' = vaddr
      /\ bit_idx' = bit_idx /\ paddr' = paddr /\ fault' = fault
  BY DEF vars, sharedVars, spaceVars, localVars
<1>2. /\ HeapTypes /\ SpaceTypes /\ CallTypes /\ PoolsInv /\ MutexInv /\ StopInv
      /\ fault = "none" => RunInv
  BY TypeParts DEF MemInv
<1>3. HeapTypes' /\ SpaceTypes'
  BY <1>1, <1>2 DEF HeapTypes, SpaceTypes
<1>4. CallTypes'
  BY <1>1, <1>2 DEF CallTypes
<1>5. TypeOK'
  BY <1>3, <1>4, TypeParts, PTL
<1>6. /\ Size' = Size /\ TableUse' = TableUse /\ Tables' = Tables
      /\ \A q, va : Mapped(q, va)' = Mapped(q, va)
  BY <1>1, KeptMaps DEF Size
<1>7. PoolsInv'
  BY <1>1, <1>2, <1>6 DEF PoolsInv
<1>8. MutexInv' /\ StopInv'
  BY <1>1, <1>2, <1>6 DEF MutexInv, InMutex, InLoop, StopInv
<1>9. ASSUME fault' = "none" PROVE RunInv'
  <2>1. BootInv /\ HeapInv /\ TablesInv /\ PagesInv /\ CallInv /\ ReservedInv
    BY <1>1, <1>2, <1>9 DEF RunInv
  <2>2. BootInv'
    BY <1>1, <2>1 DEF BootInv, Booting
  <2>3. HeapInv'
    BY <1>1, <1>6, <2>1 DEF HeapInv, Booting
  <2>4. TablesInv'
    BY <1>1, <1>6, <2>1 DEF TablesInv
  <2>5. PagesInv'
    BY <1>1, <1>6, <2>1 DEF PagesInv, UPage
  <2>6. ASSUME NEW q \in Process PROVE CallOK(q)' /\ ReservedOK(q)'
    <3>1. Untouched(q) /\ PoolGrows /\ CallOK(q) /\ ReservedOK(q)
      BY <1>1, <1>6, <2>1 DEF Untouched, PoolGrows, CallInv, ReservedInv
    <3>2. InLoop(q) => user_phy_pool' = user_phy_pool /\ heap'.phy = heap.phy
      BY <1>1
    <3>3. CallOK(q)' /\ Pending(q)' = Pending(q)
      BY <3>1, <3>2, OtherCall
    <3> QED
      BY <3>1, <3>3, OtherReserved
  <2>7. CallInv' /\ ReservedInv'
    BY <2>6 DEF CallInv, ReservedInv
  <2> QED
    BY <2>2, <2>3, <2>4, <2>5, <2>7 DEF RunInv
<1> QED
  BY <1>5, <1>7, <1>8, <1>9 DEF MemInv

-----------------------------------------------------------------------------
(* The theorems.                                                           *)

\* Nothing that is mapped is moved.
Stable ==
  /\ \A p \in Process, va \in UserPage :
       Mapped(p, va) # NOT_PRESENT => Mapped(p, va)' = Mapped(p, va)
  /\ \A i \in HeapUse : heap'.pte[i] = heap.pte[i]

\* Who changes neither heap nor tables moves nothing.
LEMMA KeptStable ==
  ASSUME UNCHANGED <<heap, pde, page_table>>
  PROVE  Stable
  BY KeptMaps DEF Stable

\* Mapping the page at hand moves nothing: its address was not mapped.
LEMMA MapsOneStable ==
  ASSUME MemInv, fault = "none", NEW p \in Process, pc[p] \in {"map", "table"},
         MapsOne(p), heap'.pte = heap.pte
  PROVE  Stable
<1>1. CallOK(p) /\ cnt \in [Process -> Nat] /\ vaddr \in [Process -> Nat]
  BY Locals
<1>2. InLoop(p)
  BY DEF InLoop
<1>3. cnt[p] \in Nat /\ cnt[p] >= 1 /\ vaddr[p] \in Nat
  BY <1>1, <1>2 DEF CallOK
<1>4. vaddr[p] \in Pending(p)
  BY <1>2, <1>3 DEF Pending
<1>5. Mapped(p, vaddr[p]) = NOT_PRESENT
  BY <1>1, <1>4 DEF CallOK
<1> QED
  BY <1>5 DEF Stable, MapsOne

\* Every step keeps MemInv, and moves no page unless the machine stops.
LEMMA MemStep ==
  ASSUME MemInv, [Next]_vars
  PROVE  MemInv' /\ (fault' = "none" => Stable)
<1>1. CASE KernelPage
  <2>1. /\ MemInv' /\ UNCHANGED <<pde, page_table>>
        /\ \A i \in HeapUse : heap'.pte[i] = heap.pte[i]
    BY <1>1, KernelPageStep
  <2> QED
    BY <2>1, KeptMaps DEF Stable
<1>2. CASE \E p \in Process : ProcessRun(p)
  <2>1. /\ MemInv' /\ UNCHANGED <<pde, page_table>>
        /\ \A i \in HeapUse : heap'.pte[i] = heap.pte[i]
    BY <1>2, ProcessRunStep
  <2> QED
    BY <2>1, KeptMaps DEF Stable
<1>3. ASSUME NEW p \in Process, ProcessStep(p)
      PROVE  MemInv' /\ (fault' = "none" => Stable)
  <2>1. CASE ProcessEntry(p)
    <3>1. UNCHANGED <<heap, pde, page_table>>
      BY <2>1 DEF ProcessEntry, sharedVars, spaceVars
    <3> QED
      BY <2>1, <3>1, EntryStep, KeptStable
  <2>2. CASE MutexLock(p)
    <3>1. UNCHANGED <<heap, pde, page_table>>
      BY <2>2 DEF MutexLock, sharedVars, spaceVars
    <3> QED
      BY <2>2, <3>1, LockStep, KeptStable
  <2>3. CASE TargetVaddr(p)
    <3>1. UNCHANGED <<heap, pde, page_table>>
      BY <2>3 DEF TargetVaddr, sharedVars
    <3> QED
      BY <2>3, <3>1, TargetVaddrStep, KeptStable
  <2>4. CASE VaddrGet(p)
    <3>1. UNCHANGED <<heap, pde, page_table>>
      BY <2>4 DEF VaddrGet, sharedVars
    <3> QED
      BY <2>4, <3>1, VaddrGetStep, KeptStable
  <2>5. CASE PaddrScan(p)
    <3>1. UNCHANGED <<heap, pde, page_table>>
      BY <2>5 DEF PaddrScan, sharedVars, spaceVars
    <3> QED
      BY <2>5, <3>1, ScanStep, KeptStable
  <2>6. CASE PaddrSet(p)
    <3>1. UNCHANGED <<heap, pde, page_table>>
      BY <2>6 DEF PaddrSet, spaceVars
    <3> QED
      BY <2>6, <3>1, SetStep, KeptStable
  <2>7. CASE V2pMapping(p)
    <3>1. fault = "none" /\ pc[p] \in {"map", "table"}
      BY <2>7 DEF V2pMapping, At
    <3>2. MemInv' /\ MapsOne(p) /\ heap'.pte = heap.pte
      BY <2>7, MappingStep
    <3> QED
      BY <3>1, <3>2, MapsOneStable
  <2>8. CASE TableScan(p)
    <3>1. UNCHANGED <<heap, pde, page_table>>
      BY <2>8 DEF TableScan, sharedVars, spaceVars
    <3> QED
      BY <2>8, <3>1, TableScanStep, KeptStable
  <2>9. CASE TableMap(p)
    <3>1. fault = "none" /\ pc[p] \in {"map", "table"}
      BY <2>9 DEF TableMap, At
    <3>2. MemInv' /\ (fault' = "none" => MapsOne(p) /\ heap'.pte = heap.pte)
      BY <2>9, TableStep
    <3> QED
      BY <3>1, <3>2, MapsOneStable
  <2>10. CASE MutexUnlock(p)
    <3>1. UNCHANGED <<heap, pde, page_table>>
      BY <2>10 DEF MutexUnlock, spaceVars
    <3> QED
      BY <2>10, <3>1, UnlockStep, KeptStable
  <2>11. CASE UserFault(p)
    <3>1. fault' # "none"
      BY <2>11 DEF UserFault
    <3> QED
      BY <2>11, <3>1, UserFaultStep
  <2> QED
    BY <1>3, <2>1, <2>2, <2>3, <2>4, <2>5, <2>6, <2>7, <2>8, <2>9, <2>10, <2>11
       DEF ProcessStep
<1>4. CASE \E p \in Process, n \in PgCnt : UserPagesMalloc(p, n)
  <2>1. PICK p \in Process, n \in PgCnt : UserPagesMalloc(p, n)
    BY <1>4
  <2>2. UNCHANGED <<heap, pde, page_table>>
    BY <2>1 DEF UserPagesMalloc, sharedVars, spaceVars
  <2> QED
    BY <2>1, <2>2, RequestStep, KeptStable
<1>5. CASE UNCHANGED vars
  <2>1. UNCHANGED <<heap, pde, page_table>>
    BY <1>5 DEF vars, sharedVars, spaceVars
  <2> QED
    BY <1>5, <2>1, StutterStep, KeptStable
<1> QED
  BY <1>1, <1>2, <1>3, <1>4, <1>5 DEF Next, Halted

\* MemInv is an invariant, for every amount of memory, number of processes and
\* size of request.
THEOREM MemoryInvariant == Spec => []MemInv
<1>1. Init => MemInv
  BY MemInit
<1>2. MemInv /\ [Next]_vars => MemInv'
  BY MemStep
<1> QED
  BY <1>1, <1>2, PTL DEF Spec

\* The variables of memory.c keep their types.
THEOREM MemoryTypeCorrect == Spec => []TypeOK
<1>1. MemInv => TypeOK
  BY DEF MemInv
<1> QED
  BY <1>1, MemoryInvariant, PTL

\* No allocation, of the kernel or of a process, moves a page that is mapped.
THEOREM MemoryMappingsStable == Spec => MappingsStable
<1>1. MemInv /\ [Next]_vars =>
        [fault' = "none" =>
           /\ \A p \in Process, va \in UserPage :
                Mapped(p, va) # NOT_PRESENT => Mapped(p, va)' = Mapped(p, va)
           /\ \A i \in HeapUse : heap.pte'[i] = heap.pte[i]]_vars
  BY MemStep DEF Stable
<1> QED
  BY <1>1, MemoryInvariant, PTL DEF Spec, MappingsStable

\* The pages of the heap, with their addresses.
LEMMA HeapPages ==
  ASSUME MemInv, fault = "none"
  PROVE  /\ \A i \in HeapUse : /\ heap.pte[i] \notin Tables
                               /\ \E b \in heap.phy.btmp : heap.pte[i] = KPage(b)
                               /\ \A j \in HeapUse : heap.pte[i] = heap.pte[j] => i = j
         /\ \A b \in heap.phy.btmp :
              KPage(b) \in Tables \/ \E i \in HeapUse : heap.pte[i] = KPage(b)
         /\ \A x \in TableUse : /\ pde[x[1]][x[2]] \in Tables
                                /\ \E b \in heap.phy.btmp : pde[x[1]][x[2]] = KPage(b)
         /\ heap.phy.btmp \subseteq 0 .. Size - 1
<1>1. HeapInv /\ PoolsInv
  BY DEF MemInv, RunInv
<1>2. PICK n, m \in 0 .. Size : HeapSound(heap, Size, n, m, Tables)
  BY <1>1 DEF HeapInv
<1>3. heap.phy.btmp = 0 .. m - 1 /\ DOMAIN heap.pte = 0 .. Size - 1
  BY <1>2 DEF HeapSound, HeapShape
<1>4. \A i \in HeapUse : /\ heap.pte[i] \notin Tables
                         /\ \E b \in heap.phy.btmp : heap.pte[i] = KPage(b)
                         /\ \A j \in HeapUse : heap.pte[i] = heap.pte[j] => i = j
  BY <1>2, <1>3 DEF HeapSound, HeapUse
<1>5. \A b \in heap.phy.btmp :
        KPage(b) \in Tables \/ \E i \in HeapUse : heap.pte[i] = KPage(b)
  <2> SUFFICES ASSUME NEW b \in heap.phy.btmp
               PROVE  KPage(b) \in Tables \/ \E i \in HeapUse : heap.pte[i] = KPage(b)
    OBVIOUS
  <2>1. KPage(b) \in Tables \/ \E x \in 0 .. Size - 1 : heap.pte[x] = KPage(b)
    BY <1>2, <1>3 DEF HeapSound
  <2>2. KPage(b) # NOT_PRESENT
    BY <1>3, KPages
  <2> QED
    BY <1>3, <2>1, <2>2 DEF HeapUse
<1>6. \A x \in TableUse : pde[x[1]][x[2]] \in Tables
  BY DEF Tables
<1>7. \A a \in Tables : \E b \in heap.phy.btmp : a = KPage(b)
  BY <1>2, <1>3 DEF HeapSound
<1> QED
  BY <1>1, <1>4, <1>5, <1>6, <1>7, Shape

\* No page of memory is used twice, by whatever processes or tables.
THEOREM MemoryNoPageShared == Spec => []NoPageShared
<1>1. ASSUME MemInv PROVE NoPageShared
  <2> SUFFICES ASSUME fault = "none"
               PROVE  /\ \A x, y \in UserUse :
                           Mapped(x[1], x[2]) = Mapped(y[1], y[2]) => x = y
                      /\ \A x, y \in TableUse : pde[x[1]][x[2]] = pde[y[1]][y[2]] => x = y
                      /\ \A i, j \in HeapUse : heap.pte[i] = heap.pte[j] => i = j
                      /\ \A x \in TableUse, i \in HeapUse : pde[x[1]][x[2]] # heap.pte[i]
                      /\ \A x \in UserUse :
                           /\ \A y \in TableUse : Mapped(x[1], x[2]) # pde[y[1]][y[2]]
                           /\ \A i \in HeapUse : Mapped(x[1], x[2]) # heap.pte[i]
    BY DEF NoPageShared
  <2>1. PagesInv /\ TablesInv /\ PoolsInv
    BY <1>1 DEF MemInv, RunInv
  <2>2. ASSUME NEW x \in UserUse, NEW y \in UserUse,
               Mapped(x[1], x[2]) = Mapped(y[1], y[2])
        PROVE  x = y
    <3>1. PICK p \in Process, va \in UserPage : x = <<p, va>> /\ Mapped(p, va) # NOT_PRESENT
      BY DEF UserUse
    <3>2. PICK q \in Process, vb \in UserPage : y = <<q, vb>> /\ Mapped(q, vb) # NOT_PRESENT
      BY DEF UserUse
    <3>3. Mapped(q, vb) = Mapped(p, va)
      BY <2>2, <3>1, <3>2
    <3> QED
      BY <2>1, <3>1, <3>2, <3>3 DEF PagesInv
  <2>3. \A x, y \in TableUse : pde[x[1]][x[2]] = pde[y[1]][y[2]] => x = y
    BY <2>1 DEF TablesInv
  <2>4. \A i, j \in HeapUse : heap.pte[i] = heap.pte[j] => i = j
    BY <1>1, HeapPages
  <2>5. \A x \in TableUse, i \in HeapUse : pde[x[1]][x[2]] # heap.pte[i]
    BY <1>1, HeapPages
  <2>6. ASSUME NEW x \in UserUse, NEW b \in heap.phy.btmp
        PROVE  Mapped(x[1], x[2]) # KPage(b)
    <3>1. PICK p \in Process, va \in UserPage : x = <<p, va>> /\ Mapped(p, va) # NOT_PRESENT
      BY DEF UserUse
    <3>2. PICK c \in user_phy_pool.btmp : Mapped(p, va) = UPage(c)
      BY <2>1, <3>1 DEF PagesInv
    <3>3. c \in Nat /\ b \in 0 .. Size - 1
      BY <2>1, Shape
    <3>4. UPage(c) # KPage(b)
      BY <2>1, <3>3, UPages
    <3> QED
      BY <3>1, <3>2, <3>4
  <2>7. \A x \in UserUse :
          /\ \A y \in TableUse : Mapped(x[1], x[2]) # pde[y[1]][y[2]]
          /\ \A i \in HeapUse : Mapped(x[1], x[2]) # heap.pte[i]
    BY <1>1, <2>6, HeapPages
  <2> QED
    BY <2>2, <2>3, <2>4, <2>5, <2>7
<1> QED
  BY <1>1, MemoryInvariant, PTL

\* The bitmaps of the two physical pools say exactly which pages are in use.
THEOREM MemoryPoolsExact == Spec => []PoolsExact
<1>1. ASSUME MemInv PROVE PoolsExact
  <2> SUFFICES ASSUME fault = "none"
               PROVE  /\ {addr_of(user_phy_pool, b) : b \in user_phy_pool.btmp}
                           = {Mapped(x[1], x[2]) : x \in UserUse}
                             \cup {paddr[p] : p \in {q \in Process : paddr[q] # NULL}}
                      /\ {addr_of(heap.phy, b) : b \in heap.phy.btmp}
                           = {heap.pte[i] : i \in HeapUse}
                             \cup {pde[x[1]][x[2]] : x \in TableUse}
    BY DEF PoolsExact
  <2>1. PagesInv /\ PoolsInv
    BY <1>1 DEF MemInv, RunInv
  <2>2. \A b \in user_phy_pool.btmp :
          \/ \E x \in UserUse : UPage(b) = Mapped(x[1], x[2])
          \/ \E p \in Process : paddr[p] # NULL /\ UPage(b) = paddr[p]
    <3> SUFFICES ASSUME NEW b \in user_phy_pool.btmp
                 PROVE  \/ \E x \in UserUse : UPage(b) = Mapped(x[1], x[2])
                        \/ \E p \in Process : paddr[p] # NULL /\ UPage(b) = paddr[p]
      OBVIOUS
    <3>1. b \in Nat
      BY <2>1, Shape
    <3>2. UPage(b) # NULL /\ UPage(b) # NOT_PRESENT
      BY <2>1, <3>1, UPages
    <3>3. CASE \E p \in Process, va \in UserPage : Mapped(p, va) = UPage(b)
      <4>1. PICK p \in Process, va \in UserPage : Mapped(p, va) = UPage(b)
        BY <3>3
      <4>2. <<p, va>> \in UserUse
        BY <3>2, <4>1 DEF UserUse
      <4>3. Mapped(<<p, va>>[1], <<p, va>>[2]) = UPage(b)
        BY <4>1
      <4> QED
        BY <4>2, <4>3
    <3>4. CASE \E p \in Process : paddr[p] = UPage(b)
      BY <3>2, <3>4
    <3> QED
      BY <2>1, <3>3, <3>4 DEF PagesInv
  <2>3. \A x \in UserUse : \E b \in user_phy_pool.btmp : Mapped(x[1], x[2]) = UPage(b)
    BY <2>1 DEF UserUse, PagesInv
  <2>4. \A p \in Process : paddr[p] # NULL =>
          \E b \in user_phy_pool.btmp : paddr[p] = UPage(b)
    BY <2>1 DEF PagesInv
  <2>5. {addr_of(user_phy_pool, b) : b \in user_phy_pool.btmp}
          = {Mapped(x[1], x[2]) : x \in UserUse}
            \cup {paddr[p] : p \in {q \in Process : paddr[q] # NULL}}
    BY <2>2, <2>3, <2>4 DEF UPage
  <2>6. \A b : addr_of(heap.phy, b) = KPage(b)
    BY <2>1, Shape
  <2>7. \A a \in Tables : \E x \in TableUse : a = pde[x[1]][x[2]]
    BY DEF Tables
  <2>8. {addr_of(heap.phy, b) : b \in heap.phy.btmp}
          = {heap.pte[i] : i \in HeapUse} \cup {pde[x[1]][x[2]] : x \in TableUse}
    BY <1>1, <2>6, <2>7, HeapPages
  <2> QED
    BY <2>5, <2>8
<1> QED
  BY <1>1, MemoryInvariant, PTL

\* What is mapped is reserved, and the ASSERT of v2p_mapping never fails.
THEOREM MemoryAddressesReserved == Spec => []AddressesReserved
<1>1. ASSUME MemInv PROVE AddressesReserved
  <2>1. fault # "assert" /\ PoolsInv
    BY <1>1 DEF MemInv, StopInv
  <2>2. ASSUME fault = "none", NEW p \in Process, NEW va \in UserPage
        PROVE  /\ Mapped(p, va) # NOT_PRESENT => va - USER_START_PAGE \in user_vaddr_btmp[p]
               /\ va - USER_START_PAGE \in user_vaddr_btmp[p]
                    => \/ Mapped(p, va) # NOT_PRESENT
                       \/ pc[p] \in {"scan", "set", "map", "table"}
                       \/ bitmap_scan(user_phy_pool, 1) = -1
    <3>1. ReservedOK(p)
      BY <1>1, <2>2 DEF MemInv, RunInv, ReservedInv
    <3>2. user_phy_pool.bit_num \in Nat
      BY <2>1, Shape
    <3>3. bitmap_scan(user_phy_pool, 1) = -1 <=> Full(user_phy_pool)
      BY <3>2, Exhausted
    <3>4. va \in Pending(p) => pc[p] \in {"scan", "set", "map", "table"}
      BY DEF Pending, InLoop
    <3> QED
      BY <3>1, <3>3, <3>4 DEF ReservedOK
  <2> QED
    BY <2>1, <2>2 DEF AddressesReserved
<1> QED
  BY <1>1, MemoryInvariant, PTL

\* The mutex is kept, a page table is missing and the machine stops only when
\* a pool has run out of pages.
THEOREM MemoryFailsOnlyWhenExhausted == Spec => []FailsOnlyWhenExhausted
<1>1. ASSUME MemInv PROVE FailsOnlyWhenExhausted
  <2>1. PoolsInv /\ MutexInv /\ StopInv
    BY <1>1 DEF MemInv
  <2>2. heap.phy.bit_num \in Nat /\ user_phy_pool.bit_num \in Nat
    BY <2>1, Shape DEF Size
  <2>3. /\ bitmap_scan(user_phy_pool, 1) = -1 <=> Full(user_phy_pool)
        /\ bitmap_scan(heap.phy, 1) = -1 <=> Full(heap.phy)
    BY <2>2, Exhausted
  <2>4. ASSUME NEW p \in Process, user_phy_mtx = p,
               pc[p] \in {"ready", "lock", "user", "no_stack"}
        PROVE  pc[p] = "no_stack" /\ bitmap_scan(user_phy_pool, 1) = -1
    <3>1. InMutex(p)
      BY <2>1, <2>4 DEF MutexInv
    <3>2. pc[p] = "no_stack"
      BY <2>4, <3>1 DEF InMutex, InLoop
    <3> QED
      BY <2>1, <2>3, <3>2 DEF MutexInv
  <2>5. \A b : addr_of(heap.phy, b) = KPage(b)
    BY <2>1, Shape
  <2>6. \A x \in TableUse :
          ~(\E b \in heap.phy.btmp : pde[x[1]][x[2]] = addr_of(heap.phy, b))
             => bitmap_scan(heap.phy, 1) = -1
    BY <2>1, <2>3, <2>5 DEF StopInv
  <2>7. fault # "none" =>
          \/ bitmap_scan(heap.phy, IF fault = "low_memory" THEN BITMAP_PAGES ELSE 1) = -1
          \/ bitmap_scan(user_phy_pool, 1) = -1
    BY <2>1, <2>3 DEF StopInv
  <2> QED
    BY <2>4, <2>6, <2>7 DEF FailsOnlyWhenExhausted
<1> QED
  BY <1>1, MemoryInvariant, PTL
=============================================================================
