-------------------------------- MODULE Memory --------------------------------
(***************************************************************************)
(* kernel/memory.c: the pools of physical pages, the kernel heap and the   *)
(* address spaces of the processes, under the calls that main(),           *)
(* process_run and process_entry make, and under processes that ask for    *)
(* further pages with user_pages_malloc.                                   *)
(*                                                                         *)
(* main() allocates before interrupts are first enabled, so its calls are  *)
(* single steps.  A process allocates with interrupts on; its steps are    *)
(* cut where it reads or writes a pool that others use as well.            *)
(*                                                                         *)
(* Physical addresses are those of the machine.  Addresses of the kernel   *)
(* half are given as offsets from 0xc0000000, addresses of the user half   *)
(* as page numbers, and a bitmap as the set of its 1-bits (see BitSet).    *)
(* RAM is 0 at power-up; the code never clears a page directory, nor the   *)
(* loader the page tables of the kernel.                                   *)
(***************************************************************************)
EXTENDS Integers

CONSTANTS
  Process,           \* the processes main() starts
  KTHREAD_NUM,       \* how many kernel threads it starts before them
  MemSize,           \* the amounts of memory the loader may have found
  PgCnt,             \* the arguments of user_pages_malloc
  PT_ENTRIES,        \* the entries of a page table (1024)
  USER_START_PAGE,   \* USER_VADDR_START, as a page number
  USER_PAGES,        \* user_free_pages_num of user_vaddr_bitmap_create
  BITMAP_PAGES,      \* bitmap_pages_need of the same
  NO_PROCESS

PG_SIZE == 4096
MEM_BITMAP_BASE == \h9A000
K_HEAP_START == \h100000
PAGE_DIR_START_ADDR == \h100000
PAGE_DIR_CNT == 1
PAGE_TAB_CNT == 255
NULL == 0
NOT_PRESENT == -1
IDLE_TCB == \h9E000
PG_CNT_MAX == 3839    \* malloc_page asserts pg_cnt < 3840

page_table_size == PG_SIZE * (PAGE_DIR_CNT + PAGE_TAB_CNT)
used_mem == page_table_size + PAGE_DIR_START_ADDR

ASSUME MemoryAssumption ==
  /\ KTHREAD_NUM \in Nat
  /\ MemSize \subseteq {m \in Nat : m >= used_mem}
  /\ PT_ENTRIES \in Nat \ {0}
  /\ USER_START_PAGE \in Nat
  /\ USER_PAGES \in Nat \ {0}
  /\ BITMAP_PAGES \in Nat \ {0}
  /\ PgCnt \subseteq 1 .. PG_CNT_MAX
  /\ NO_PROCESS \notin Process

VARIABLES
  heap,             \* kernel_phy_pool, kernel_vir_pool, the page table entries
                    \* of the heap, and the result of kernel_pages_malloc
  user_phy_pool,
  user_phy_mtx,     \* the process that holds user_phy_pool.mtx
  boot_pages,       \* pages main() has allocated before the processes
  pg_dir,           \* the field of the TCB
  user_vaddr_btmp,  \* the bitmap of the field user_vaddr_pool
  pde,              \* the user half of each page directory
  page_table,       \* what the pages used as page tables hold
  pc, call,         \* where each process is, and in which function
  cnt, vaddr,       \* pages still to map, and the page to map next
  bit_idx, paddr,   \* locals of paddr_get, malloc_page
  fault             \* why the machine has stopped

sharedVars == <<heap, user_phy_pool, user_phy_mtx, boot_pages>>
spaceVars == <<pg_dir, user_vaddr_btmp, pde, page_table>>
localVars == <<pc, call, cnt, vaddr, bit_idx, paddr>>
vars == <<sharedVars, spaceVars, localVars, fault>>

-----------------------------------------------------------------------------
(* Pools.                                                                  *)

btmp_bytes_len4pages(pool_size_pg) ==
  IF pool_size_pg % 8 = 0 THEN pool_size_pg \div 8 ELSE pool_size_pg \div 8 + 1

pool_init(btmp_base, pool_base, pool_size_pg) ==
  [btmp |-> {}, btmp_base |-> btmp_base, bit_num |-> pool_size_pg,
   addr_base |-> pool_base, pool_size |-> PG_SIZE * pool_size_pg]

\* bitmap_scan(&pool->btmp, 0, n), by what BitSet says it returns.
bitmap_scan(pool, n) ==
  LET free == {i \in 0 .. pool.bit_num - n :
                 \A j \in i .. i + n - 1 : j \notin pool.btmp}
  IN  IF free = {} THEN -1 ELSE CHOOSE i \in free : \A k \in free : i <= k

bitmap_set(pool, i) == [pool EXCEPT !.btmp = @ \cup {i}]

addr_of(pool, i) == pool.addr_base + i * PG_SIZE

\* The three pools that mem_pool_init makes of all_mem bytes.
mem_pool_init(all_mem) ==
  LET free_mem == all_mem - used_mem
      all_free_pages == free_mem \div PG_SIZE
      kernel_free_pages == all_free_pages \div 2
      user_free_pages == all_free_pages - kernel_free_pages
      kbm_len == btmp_bytes_len4pages(kernel_free_pages)
      ubm_len == btmp_bytes_len4pages(user_free_pages)
      kp_start == used_mem
      up_start == kp_start + kernel_free_pages * PG_SIZE
  IN  [kernel_phy |-> pool_init(MEM_BITMAP_BASE, kp_start, kernel_free_pages),
       user_phy   |-> pool_init(MEM_BITMAP_BASE + kbm_len, up_start,
                                user_free_pages),
       kernel_vir |-> pool_init(MEM_BITMAP_BASE + kbm_len + ubm_len,
                                K_HEAP_START, kernel_free_pages)]

-----------------------------------------------------------------------------
(* The kernel heap.                                                        *)

heap_idx(va) == (va - K_HEAP_START) \div PG_SIZE

addr_v2p(h, va) == h.pte[heap_idx(va)]

\* The loop body of malloc_page for the heap page number i: paddr_get, then
\* v2p_mapping.  The page directory entry is there, the loader made it.
heap_map(h, i) ==
  LET b == bitmap_scan(h.phy, 1)
  IN  IF b = -1
      THEN [h EXCEPT !.vaddr = NULL]
      ELSE [h EXCEPT !.phy = bitmap_set(@, b),
                     !.repeated = @ \/ h.pte[i] # NOT_PRESENT,
                     !.pte[i] = addr_of(h.phy, b)]

\* malloc_page(PF_KERNEL, pg_cnt).  When a page is missing the loop is left,
\* with the earlier pages mapped and all the addresses taken.
kernel_pages_malloc(h, pg_cnt) ==
  LET i == bitmap_scan(h.vir, pg_cnt)
      reserved == [h EXCEPT !.vir.btmp = @ \cup (i .. i + pg_cnt - 1),
                            !.vaddr = addr_of(h.vir, i)]
      after[n \in 0 .. pg_cnt] ==
        IF n = 0 THEN reserved
        ELSE IF after[n - 1].vaddr = NULL THEN after[n - 1]
        ELSE heap_map(after[n - 1], i + n - 1)
  IN  IF i = -1 THEN [h EXCEPT !.vaddr = NULL] ELSE after[pg_cnt]

-----------------------------------------------------------------------------

UserPage == USER_START_PAGE .. USER_START_PAGE + USER_PAGES - 1
PDE_IDX(va) == va \div PT_ENTRIES
PTE_IDX(va) == va % PT_ENTRIES
UserPde == {PDE_IDX(va) : va \in UserPage}
PteIdx == 0 .. PT_ENTRIES - 1

\* The last page below 0xc0000000.
USER_STACK3_PAGE == USER_START_PAGE + USER_PAGES - 1

PageOf(pool) == {addr_of(pool, i) : i \in 0 .. pool.bit_num - 1}

empty_table == [i \in PteIdx |-> NOT_PRESENT]

\* mem_init.
Init ==
  /\ \E all_mem \in MemSize :
       LET pools == mem_pool_init(all_mem)
       IN  /\ heap = [phy |-> pools.kernel_phy, vir |-> pools.kernel_vir,
                      pte |-> [i \in 0 .. pools.kernel_vir.bit_num - 1
                                 |-> NOT_PRESENT],
                      vaddr |-> NULL, repeated |-> FALSE]
           /\ user_phy_pool = pools.user_phy
           /\ page_table = [a \in PageOf(pools.kernel_phy) \cup {NULL}
                              |-> empty_table]
  /\ user_phy_mtx = NO_PROCESS
  /\ boot_pages = 0
  /\ pg_dir = [p \in Process |-> NULL]
  /\ user_vaddr_btmp = [p \in Process |-> {}]
  /\ pde = [p \in Process |-> [i \in UserPde |-> NOT_PRESENT]]
  /\ pc = [p \in Process |-> "none"]
  /\ call = [p \in Process |-> "none"]
  /\ cnt = [p \in Process |-> 0]
  /\ vaddr = [p \in Process |-> 0]
  /\ bit_idx = [p \in Process |-> -1]
  /\ paddr = [p \in Process |-> NULL]
  /\ fault = "none"

-----------------------------------------------------------------------------
(* main(), interrupts off.                                                 *)

\* A structure that was to be on the page is put at address 0 instead: over
\* the page that holds the GDT.  The machine is taken to stop.
FaultOf(h, stop) ==
  IF h.repeated THEN "assert" ELSE IF stop THEN "low_memory" ELSE "none"

\* The page of rq_mask, then those of the TCBs of the kernel threads.
KernelPage ==
  /\ fault = "none"
  /\ boot_pages <= KTHREAD_NUM
  /\ \E h \in {kernel_pages_malloc(heap, 1)} :
         /\ heap' = h
         /\ fault' = FaultOf(h, h.vaddr = NULL)
  /\ boot_pages' = boot_pages + 1
  /\ UNCHANGED <<user_phy_pool, user_phy_mtx, spaceVars, localVars>>

\* process_run: the TCB, the bitmap of the user addresses, the page directory.
\* Without a page for the directory pg_dir is NULL, and nobody notices.
ProcessRun(p) ==
  /\ fault = "none"
  /\ boot_pages > KTHREAD_NUM
  /\ pc[p] = "none"
  /\ \E tcb \in {kernel_pages_malloc(heap, 1)} :
     \E btmp \in {kernel_pages_malloc(tcb, BITMAP_PAGES)} :
     \E dir \in {kernel_pages_malloc(btmp, 1)} :
         /\ heap' = dir
         /\ pg_dir' = [pg_dir EXCEPT ![p] = dir.vaddr]
         /\ fault' = FaultOf(dir, NULL \in {tcb.vaddr, btmp.vaddr})
  /\ pc' = [pc EXCEPT ![p] = "ready"]
  /\ UNCHANGED <<user_phy_pool, user_phy_mtx, boot_pages, user_vaddr_btmp, pde,
                 page_table, call, cnt, vaddr, bit_idx, paddr>>

Booted == \A p \in Process : pc[p] # "none"

-----------------------------------------------------------------------------
(* Processes.                                                              *)

At(p, where) ==
  /\ fault = "none"
  /\ Booted
  /\ pc[p] = where

Goto(p, where) == pc' = [pc EXCEPT ![p] = where]

\* process_entry calls target_vaddr_malloc.
ProcessEntry(p) ==
  /\ At(p, "ready")
  /\ Goto(p, "lock")
  /\ call' = [call EXCEPT ![p] = "target_vaddr_malloc"]
  /\ cnt' = [cnt EXCEPT ![p] = 1]
  /\ UNCHANGED <<sharedVars, spaceVars, vaddr, bit_idx, paddr, fault>>

\* A process calls user_pages_malloc.
UserPagesMalloc(p, pg_cnt) ==
  /\ At(p, "user")
  /\ Goto(p, "lock")
  /\ call' = [call EXCEPT ![p] = "user_pages_malloc"]
  /\ cnt' = [cnt EXCEPT ![p] = pg_cnt]
  /\ UNCHANGED <<sharedVars, spaceVars, vaddr, bit_idx, paddr, fault>>

\* Mutant: the pool is not locked.
MutexLockNone(p) ==
  /\ At(p, "lock")
  /\ Goto(p, "vaddr")
  /\ UNCHANGED <<sharedVars, spaceVars, call, cnt, vaddr, bit_idx, paddr, fault>>

\* mutex_lock(&user_phy_pool.mtx); how it waits is the matter of Sync.
MutexLock(p) ==
  /\ At(p, "lock")
  /\ user_phy_mtx = NO_PROCESS
  /\ user_phy_mtx' = p
  /\ Goto(p, "vaddr")
  /\ UNCHANGED <<heap, user_phy_pool, boot_pages, spaceVars, call, cnt, vaddr,
                 bit_idx, paddr, fault>>

\* Mutant: the address of the stack is not marked.
user_vaddr_set_forgotten(p) == user_vaddr_btmp[p]

\* The bitmap_set of target_vaddr_malloc; it does not look at the bit first.
user_vaddr_set(p) == user_vaddr_btmp[p] \cup {USER_PAGES - 1}

\* target_vaddr_malloc, up to paddr_get.
TargetVaddr(p) ==
  /\ At(p, "vaddr")
  /\ call[p] = "target_vaddr_malloc"
  /\ IF pg_dir[p] = NULL
     THEN /\ fault' = "panic"
          /\ UNCHANGED <<user_vaddr_btmp, vaddr, pc>>
     ELSE /\ user_vaddr_btmp' = [user_vaddr_btmp EXCEPT ![p] = user_vaddr_set(p)]
          /\ vaddr' = [vaddr EXCEPT ![p] = USER_STACK3_PAGE]
          /\ Goto(p, "scan")
          /\ UNCHANGED fault
  /\ UNCHANGED <<sharedVars, pg_dir, pde, page_table, call, cnt, bit_idx, paddr>>

\* The loop of bitmap_set in vaddr_get.
vaddr_mark(p, i) == user_vaddr_btmp[p] \cup (i .. i + cnt[p] - 1)

\* vaddr_get(PF_USER, pg_cnt), as called by malloc_page.
VaddrGet(p) ==
  /\ At(p, "vaddr")
  /\ call[p] = "user_pages_malloc"
  /\ LET i == bitmap_scan([btmp |-> user_vaddr_btmp[p], bit_num |-> USER_PAGES],
                          cnt[p])
     IN  IF i = -1
         THEN /\ Goto(p, "unlock")
              /\ UNCHANGED <<user_vaddr_btmp, vaddr>>
         ELSE /\ user_vaddr_btmp' = [user_vaddr_btmp EXCEPT
                                       ![p] = vaddr_mark(p, i)]
              /\ vaddr' = [vaddr EXCEPT ![p] = USER_START_PAGE + i]
              /\ Goto(p, "scan")
  /\ UNCHANGED <<sharedVars, pg_dir, pde, page_table, call, cnt, bit_idx, paddr,
                 fault>>

\* Mutant: user_pages_malloc returns without unlocking when there is no page.
no_page_exit_lock_kept(p) ==
  IF call[p] = "target_vaddr_malloc" THEN "no_stack" ELSE "user"

\* Where a process goes for which there is no physical page.  malloc_page
\* returns NULL to user_pages_malloc, which unlocks; target_vaddr_malloc
\* returns NULL to process_entry with the mutex held.
no_page_exit(p) ==
  IF call[p] = "target_vaddr_malloc" THEN "no_stack" ELSE "unlock"

\* paddr_get(&user_phy_pool): the scan.
PaddrScan(p) ==
  /\ At(p, "scan")
  /\ LET b == bitmap_scan(user_phy_pool, 1)
     IN  /\ bit_idx' = [bit_idx EXCEPT ![p] = b]
         /\ Goto(p, IF b = -1 THEN no_page_exit(p) ELSE "set")
  /\ UNCHANGED <<sharedVars, spaceVars, call, cnt, vaddr, paddr, fault>>

\* paddr_get: the bitmap_set and the address.
PaddrSet(p) ==
  /\ At(p, "set")
  /\ user_phy_pool' = bitmap_set(user_phy_pool, bit_idx[p])
  /\ paddr' = [paddr EXCEPT ![p] = addr_of(user_phy_pool, bit_idx[p])]
  /\ Goto(p, "map")
  /\ UNCHANGED <<heap, user_phy_mtx, boot_pages, spaceVars, call, cnt, vaddr,
                 bit_idx, fault>>

\* The end of the loop body of malloc_page; target_vaddr_malloc maps one page.
PageMapped(p) ==
  /\ cnt' = [cnt EXCEPT ![p] = @ - 1]
  /\ vaddr' = [vaddr EXCEPT ![p] = @ + 1]
  /\ paddr' = [paddr EXCEPT ![p] = NULL]
  /\ Goto(p, IF cnt[p] = 1 THEN "unlock" ELSE "scan")

\* Mutant: the test of the page directory entry always fails.
pde_present_never(p) == FALSE

\* (*pde) & 0x1
pde_present(p) == pde[p][PDE_IDX(vaddr[p])] # NOT_PRESENT

\* v2p_mapping, with the page table there.
V2pMapping(p) ==
  LET t == pde[p][PDE_IDX(vaddr[p])]
      e == PTE_IDX(vaddr[p])
  IN  /\ At(p, "map")
      /\ pde_present(p)
      /\ IF page_table[t][e] # NOT_PRESENT
         THEN /\ fault' = "assert"
              /\ UNCHANGED <<page_table, pc, cnt, vaddr, paddr>>
         ELSE /\ page_table' = [page_table EXCEPT ![t][e] = paddr[p]]
              /\ PageMapped(p)
              /\ UNCHANGED fault
      /\ UNCHANGED <<sharedVars, pg_dir, user_vaddr_btmp, pde, call, bit_idx>>

\* v2p_mapping, without: paddr_get(&kernel_phy_pool), the scan.
TableScan(p) ==
  /\ At(p, "map")
  /\ ~pde_present(p)
  /\ bit_idx' = [bit_idx EXCEPT ![p] = bitmap_scan(heap.phy, 1)]
  /\ Goto(p, "table")
  /\ UNCHANGED <<sharedVars, spaceVars, call, cnt, vaddr, paddr, fault>>

\* Mutant: the page taken for the table is not marked.
table_page_unmarked(h, b) == h

\* The bitmap_set of paddr_get.
table_page_set(h, b) == [h EXCEPT !.phy = bitmap_set(@, b)]

\* The bitmap_set, the page directory entry, the memset and the page table
\* entry.  Nobody looks at pt_paddr: NULL, which is page 0, is installed and
\* cleared like any other.
TableMap(p) ==
  LET i == PDE_IDX(vaddr[p])
      e == PTE_IDX(vaddr[p])
      a == IF bit_idx[p] = -1 THEN NULL ELSE addr_of(heap.phy, bit_idx[p])
  IN  /\ At(p, "table")
      /\ heap' = IF bit_idx[p] = -1 THEN heap ELSE table_page_set(heap, bit_idx[p])
      /\ pde' = [pde EXCEPT ![p][i] = a]
      /\ page_table' = [page_table EXCEPT ![a] = [empty_table EXCEPT ![e] = paddr[p]]]
      /\ fault' = IF a = NULL THEN "low_memory" ELSE "none"
      /\ PageMapped(p)
      /\ UNCHANGED <<user_phy_pool, user_phy_mtx, boot_pages, pg_dir,
                     user_vaddr_btmp, call, bit_idx>>

\* mutex_unlock, and the return to user mode.
MutexUnlock(p) ==
  /\ At(p, "unlock")
  /\ user_phy_mtx' = NO_PROCESS
  /\ Goto(p, "user")
  /\ call' = [call EXCEPT ![p] = "none"]
  /\ cnt' = [cnt EXCEPT ![p] = 0]
  /\ vaddr' = [vaddr EXCEPT ![p] = 0]
  /\ bit_idx' = [bit_idx EXCEPT ![p] = -1]
  /\ UNCHANGED <<heap, user_phy_pool, boot_pages, spaceVars, paddr, fault>>

\* A process that went to user mode without a stack pushes: a page fault, in
\* which general_intr_handler spins with interrupts off.
UserFault(p) ==
  /\ At(p, "no_stack")
  /\ fault' = "page_fault"
  /\ UNCHANGED <<sharedVars, spaceVars, localVars>>

Halted ==
  /\ fault # "none"
  /\ UNCHANGED vars

ProcessStep(p) ==
  \/ ProcessEntry(p) \/ MutexLock(p) \/ TargetVaddr(p) \/ VaddrGet(p)
  \/ PaddrScan(p) \/ PaddrSet(p) \/ V2pMapping(p) \/ TableScan(p)
  \/ TableMap(p) \/ MutexUnlock(p) \/ UserFault(p)

Next ==
  \/ KernelPage
  \/ \E p \in Process : ProcessRun(p)
  \/ \E p \in Process : ProcessStep(p)
  \/ \E p \in Process, n \in PgCnt : UserPagesMalloc(p, n)
  \/ Halted

Spec == Init /\ [][Next]_vars

-----------------------------------------------------------------------------

Pool(base) ==
  [btmp : SUBSET (0 .. base.bit_num - 1), btmp_base : {base.btmp_base},
   bit_num : {base.bit_num}, addr_base : {base.addr_base},
   pool_size : {base.pool_size}]

Location ==
  {"none", "ready", "lock", "vaddr", "scan", "set", "map", "table", "unlock",
   "no_stack", "user"}

TypeOK ==
  /\ heap.phy \in Pool(heap.phy)
  /\ heap.vir \in Pool(heap.vir)
  /\ heap.pte \in [0 .. heap.vir.bit_num - 1
                     -> PageOf(heap.phy) \cup {NOT_PRESENT}]
  /\ heap.vaddr \in PageOf(heap.vir) \cup {NULL}
  /\ heap.repeated \in BOOLEAN
  /\ user_phy_pool \in Pool(user_phy_pool)
  /\ user_phy_mtx \in Process \cup {NO_PROCESS}
  /\ boot_pages \in 0 .. KTHREAD_NUM + 1
  /\ pg_dir \in [Process -> PageOf(heap.vir) \cup {NULL}]
  /\ user_vaddr_btmp \in [Process -> SUBSET (0 .. USER_PAGES - 1)]
  /\ pde \in [Process -> [UserPde -> PageOf(heap.phy) \cup {NULL, NOT_PRESENT}]]
  /\ page_table \in [PageOf(heap.phy) \cup {NULL}
                       -> [PteIdx -> PageOf(user_phy_pool) \cup {NOT_PRESENT}]]
  /\ pc \in [Process -> Location]
  /\ call \in [Process -> {"none", "target_vaddr_malloc", "user_pages_malloc"}]
  /\ cnt \in [Process -> PgCnt \cup 0 .. PG_CNT_MAX]
  /\ vaddr \in [Process -> UserPage \cup {0, USER_START_PAGE + USER_PAGES}]
  /\ bit_idx \in [Process -> -1 .. user_phy_pool.bit_num]
  /\ paddr \in [Process -> PageOf(user_phy_pool) \cup {NULL}]
  /\ fault \in {"none", "assert", "panic", "low_memory", "page_fault"}

-----------------------------------------------------------------------------
(* Who uses a page.                                                        *)

\* The page that process p sees at user page va, or NOT_PRESENT.
Mapped(p, va) ==
  IF pde[p][PDE_IDX(va)] = NOT_PRESENT THEN NOT_PRESENT
  ELSE page_table[pde[p][PDE_IDX(va)]][PTE_IDX(va)]

UserUse == {x \in Process \X UserPage : Mapped(x[1], x[2]) # NOT_PRESENT}
TableUse == {x \in Process \X UserPde : pde[x[1]][x[2]] # NOT_PRESENT}
HeapUse == {i \in DOMAIN heap.pte : heap.pte[i] # NOT_PRESENT}

\* No page is used twice: two user pages, of one process or of two, never
\* share memory; nor do two page tables, two pages of the heap, or pages of
\* different kinds.  Page tables come from the kernel pool, which has a
\* mutex of its own that v2p_mapping does not take; that of the user pool has
\* to do.
NoPageShared ==
  fault = "none" =>
    /\ \A x, y \in UserUse :
         Mapped(x[1], x[2]) = Mapped(y[1], y[2]) => x = y
    /\ \A x, y \in TableUse : pde[x[1]][x[2]] = pde[y[1]][y[2]] => x = y
    /\ \A i, j \in HeapUse : heap.pte[i] = heap.pte[j] => i = j
    /\ \A x \in TableUse, i \in HeapUse : pde[x[1]][x[2]] # heap.pte[i]
    /\ \A x \in UserUse :
         /\ \A y \in TableUse : Mapped(x[1], x[2]) # pde[y[1]][y[2]]
         /\ \A i \in HeapUse : Mapped(x[1], x[2]) # heap.pte[i]

\* The pages a pool has given away are exactly those in use, whatever has
\* failed: a call of malloc_page that runs out of memory half way keeps what
\* it has mapped, but no page is marked and mapped nowhere, and none is mapped
\* and free.
PoolsExact ==
  fault = "none" =>
    /\ {addr_of(user_phy_pool, b) : b \in user_phy_pool.btmp}
         = {Mapped(x[1], x[2]) : x \in UserUse}
           \cup {paddr[p] : p \in {q \in Process : paddr[q] # NULL}}
    /\ {addr_of(heap.phy, b) : b \in heap.phy.btmp}
         = {heap.pte[i] : i \in HeapUse}
           \cup {pde[x[1]][x[2]] : x \in TableUse}

\* A user page that is mapped is reserved in its process's bitmap, so that
\* vaddr_get will not give it away again; the converse fails only for pages
\* of a call under way or of one that found the user pool exhausted.  Hence the
\* ASSERT of v2p_mapping that a page is not mapped yet never fails, although
\* target_vaddr_malloc does not look whether its address is free.
AddressesReserved ==
  /\ fault # "assert"
  /\ fault = "none" => \A p \in Process, va \in UserPage :
       /\ Mapped(p, va) # NOT_PRESENT
            => va - USER_START_PAGE \in user_vaddr_btmp[p]
       /\ va - USER_START_PAGE \in user_vaddr_btmp[p]
            => \/ Mapped(p, va) # NOT_PRESENT
               \/ pc[p] \in {"scan", "set", "map", "table"}
               \/ bitmap_scan(user_phy_pool, 1) = -1

\* The allocator has no error path that cleans up, but what it leaves behind it
\* leaves only when a pool is exhausted.  A process keeps the mutex of the user
\* pool only when target_vaddr_malloc has found that pool empty; an entry of a
\* page directory names no page of the kernel pool ("if the page directory
\* entry exists, its page table surely exists", says v2p_mapping) only when
\* that pool is empty.  The machine stops only when one of the two is empty,
\* or when main() finds no BITMAP_PAGES in a row for an address bitmap: the
\* page directory it asks for next may still get its page.
FailsOnlyWhenExhausted ==
  LET short(pool, n) == bitmap_scan(pool, n) = -1
      exhausted(pool) == short(pool, 1)
      unbacked(x) == ~\E b \in heap.phy.btmp : pde[x[1]][x[2]] = addr_of(heap.phy, b)
  IN  /\ \A p \in Process :
           user_phy_mtx = p /\ pc[p] \in {"ready", "lock", "user", "no_stack"}
             => pc[p] = "no_stack" /\ exhausted(user_phy_pool)
      /\ \A x \in TableUse : unbacked(x) => exhausted(heap.phy)
      /\ fault # "none" =>
           \/ short(heap.phy, IF fault = "low_memory" THEN BITMAP_PAGES ELSE 1)
           \/ exhausted(user_phy_pool)

\* The two pools and the heap lie side by side, after the page tables of
\* the kernel, with bitmaps that do not overlap and end before the page of the
\* idle thread's TCB.
SideBySide(k, u, v) ==
  LET End(p) == p.btmp_base + (p.bit_num + 7) \div 8
  IN  /\ used_mem <= k.addr_base
      /\ k.addr_base + k.pool_size <= u.addr_base
      /\ v.pool_size = k.pool_size
      /\ End(k) <= u.btmp_base
      /\ End(u) <= v.btmp_base
      /\ End(v) <= IDLE_TCB

\* A page once mapped stays mapped to the same memory: no later allocation,
\* by this process or by another, moves it.
MappingsStable ==
  [][fault' = "none" =>
       /\ \A p \in Process, va \in UserPage :
            Mapped(p, va) # NOT_PRESENT => Mapped(p, va)' = Mapped(p, va)
       /\ \A i \in HeapUse : heap.pte'[i] = heap.pte[i]]_vars

=============================================================================
