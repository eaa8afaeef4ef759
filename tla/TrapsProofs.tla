----------------------------- MODULE TrapsProofs ------------------------------
(***************************************************************************)
(* Proofs about Traps, for every stack size, set of device lines, placement *)
(* of the tables and register contents.                                    *)
(***************************************************************************)
EXTENDS Traps, TLAPS

-----------------------------------------------------------------------------
(* The tables                                                              *)

\* What the processor reads of the TSS: the selector of the kernel stack, and a
\* permission map that begins at 0, because the word it is read from belongs to
\* trace.  The bits for the cursor registers lie behind the struct.
LEMMA TssContent ==
  /\ TSS_SIZE = 108
  /\ struct_tss[2] = "esp0"
  /\ tss_word(TSS_SS0_AT) = 16
  /\ tss_word(TSS_IO_MAP_AT) = 0
  /\ tss_byte(122) = 0
<1>1. /\ TSS_SIZE = 108 /\ struct_tss[2] = "esp0" /\ struct_tss[3] = "ss0"
      /\ struct_tss[26] = "trace" /\ DOMAIN struct_tss = 1 .. 27
  BY DEF TSS_SIZE, struct_tss
<1>2. tss_init[3] = 16 /\ tss_init[26] = 0
  BY <1>1 DEF tss_init, SELECTOR_K_DATA, selector
<1>3. tss_byte(8) = 16 /\ tss_byte(9) = 0
  BY <1>1, <1>2 DEF tss_byte
<1>4. tss_byte(102) = 0 /\ tss_byte(103) = 0
  BY <1>1, <1>2 DEF tss_byte
<1>5. tss_byte(122) = 0
  BY <1>1 DEF tss_byte
<1> QED  BY <1>1, <1>3, <1>4, <1>5 DEF tss_word, TSS_SS0_AT, TSS_IO_MAP_AT

\* The descriptor of the TSS that tss_init puts together from its address,
\* cut into three fields, is read back as that address, and what is found there
\* is a stack for ring 0.
LEMMA TssIsFound == TssFound
<1>1. SELECTOR_TSS \div 8 = 4
  BY DEF SELECTOR_TSS, selector
<1>2. gdt[4] = gdt_desc_make(TSS_ADDR, TSS_SIZE - 1, TSS_ATTR_LOW, TSS_ATTR_HIGH)
  BY DEF gdt
<1>3. gdt[4].attr_low_byte = 137
  BY <1>2 DEF gdt_desc_make, TSS_ATTR_LOW, attr_low
<1>4. Base(gdt[4]) = TSS_ADDR
  <2>1. TSS_ADDR \in Nat
    BY InterruptsAssumption
  <2>2. /\ gdt[4].base_low_word = TSS_ADDR % 65536
        /\ gdt[4].base_mid_byte = (TSS_ADDR \div 65536) % 256
        /\ gdt[4].base_high_byte = TSS_ADDR \div 16777216
    BY <1>2 DEF gdt_desc_make
  <2> QED  BY <2>1, <2>2 DEF Base
<1>5. Loadable(16, 2, 0)
  <2>1. 16 \div 8 = 2 /\ 2 \in DOMAIN gdt
    BY DEF gdt
  <2>2. gdt[2].attr_low_byte = 146
    BY DEF gdt, loader_gdt, gdt_desc_make, attr_low
  <2> QED  BY <2>1, <2>2 DEF Loadable, Type, Rpl, Dpl
<1> QED  BY <1>1, <1>3, <1>4, <1>5, TssContent DEF TssFound, Type, TSS_ESP0_AT

\* The bits of the I/O permission map for the cursor registers are inside the
\* TSS, because its limit counts pages, and they are clear.
LEMMA CursorAllowed == PortAllowed(CRT_ADDR_REG) /\ PortAllowed(CRT_DATA_REG)
<1>1. SELECTOR_TSS \div 8 = 4
  BY DEF SELECTOR_TSS, selector
<1>2. gdt[4] = gdt_desc_make(TSS_ADDR, TSS_SIZE - 1, TSS_ATTR_LOW, TSS_ATTR_HIGH)
  BY DEF gdt
<1>3. gdt[4].limit_low_word = 107 /\ gdt[4].limit_high_attr_high = 128
  BY <1>2, TssContent DEF gdt_desc_make, TSS_ATTR_HIGH
<1>4. Limit(gdt[4]) = 107 * 4096 + 4095
  BY <1>3 DEF Limit
<1>5. Bits(0) = {}
  BY DEF Bits, Irq
<1>6. CRT_ADDR_REG \div 8 = 122 /\ CRT_DATA_REG \div 8 = 122
  BY DEF CRT_ADDR_REG, CRT_DATA_REG
<1> QED  BY <1>1, <1>4, <1>5, <1>6, TssContent DEF PortAllowed

\* The selectors the code uses are those of descriptors of the right kind.
LEMMA Selectors ==
  /\ SELECTOR_K_CODE = 8 /\ SELECTOR_K_DATA = 16
  /\ SELECTOR_U_CODE = 43 /\ SELECTOR_U_DATA = 51
BY DEF SELECTOR_K_CODE, SELECTOR_K_DATA, SELECTOR_U_CODE, SELECTOR_U_DATA, selector

\* Code and data of kernel and process pass the checks of an iret.
LEMMA SegmentsLoad ==
  /\ Loadable(8, 8, 0) /\ Loadable(16, 2, 0)
  /\ Loadable(43, 8, 3) /\ Loadable(51, 2, 3)
<1>1. /\ 8 \div 8 = 1 /\ 16 \div 8 = 2 /\ 43 \div 8 = 5 /\ 51 \div 8 = 6
      /\ {1, 2, 5, 6} \subseteq DOMAIN gdt
  BY DEF gdt
<1>2. /\ gdt[1].attr_low_byte = 152 /\ gdt[2].attr_low_byte = 146
      /\ gdt[5].attr_low_byte = 248 /\ gdt[6].attr_low_byte = 242
  BY DEF gdt, loader_gdt, gdt_desc_make, attr_low, GDT_CODE_ATTR_LOW_DPL3,
         GDT_DATA_ATTR_LOW_DPL3
<1> QED  BY <1>1, <1>2 DEF Loadable, Type, Rpl, Dpl

\* The gates of the three vectors the controllers can raise, and of the
\* system call, lead to their entries, and the first three to handlers that
\* return.
LEMMA GatesLand ==
  /\ \A v \in {\h20, \h21, \h27} : /\ Target(idt[v]) = entry_addr(v)
                                   /\ HandlerReturns(idt_table[v], v)
  /\ Target(idt[INT_SYSCALL]) = syscall_entry
  /\ Dpl(idt[INT_SYSCALL].attribute) = 3
<1>1. ENTRY_BASE \in Nat /\ {\h20, \h21, \h27, \h80} \subseteq Vector
  BY InterruptsAssumption
<1>2. ASSUME NEW v \in {\h20, \h21, \h27}
      PROVE  Target(idt[v]) = entry_addr(v)
  <2>1. idt[v] = idt_desc_make(IDT_DESC_ATTR_DPL0, entry_addr(v))
    BY <1>1 DEF idt, intr_entry_table, INT_SYSCALL
  <2>2. entry_addr(v) \in Nat
    BY <1>1 DEF entry_addr
  <2>3. /\ idt[v].func_offset_low_word = entry_addr(v) % 65536
        /\ idt[v].func_offset_high_word = entry_addr(v) \div 65536
    BY <2>1 DEF idt_desc_make
  <2> QED  BY <2>2, <2>3 DEF Target
<1>3. ASSUME NEW v \in {\h20, \h21, \h27}
      PROVE  HandlerReturns(idt_table[v], v)
  <2>1. idt_table = [[[u \in Vector |-> "general_intr_handler"]
                        EXCEPT ![\h20] = "intr_timer_handler"]
                        EXCEPT ![\h21] = "intr_keyboard_handler"]
    BY DEF idt_table, keyboard_init, timer_init, intr_handler_register, exception_init
  <2>2. /\ idt_table[\h20] = "intr_timer_handler"
        /\ idt_table[\h21] = "intr_keyboard_handler"
    BY <1>1, <2>1
  <2> QED  BY <2>2 DEF HandlerReturns
<1>4. /\ Target(idt[INT_SYSCALL]) = syscall_entry
      /\ Dpl(idt[INT_SYSCALL].attribute) = 3
  <2>1. idt[INT_SYSCALL] = idt_desc_make(IDT_DESC_ATTR_DPL3, syscall_entry)
    BY <1>1 DEF idt, INT_SYSCALL
  <2>2. syscall_entry \in Nat
    BY <1>1 DEF syscall_entry, entry_addr
  <2>3. /\ idt[INT_SYSCALL].func_offset_low_word = syscall_entry % 65536
        /\ idt[INT_SYSCALL].func_offset_high_word = syscall_entry \div 65536
        /\ idt[INT_SYSCALL].attribute = 238
    BY <2>1 DEF idt_desc_make, IDT_DESC_ATTR_DPL3, attr_low
  <2> QED  BY <2>2, <2>3 DEF Target, Dpl
<1> QED  BY <1>2, <1>3, <1>4

-----------------------------------------------------------------------------
(* The controllers                                                         *)

\* The bytes the kernel writes to the controllers, as bits.
LEMMA BitsWritten ==
  /\ 4 \in Bits(\h11) /\ 4 \notin Bits(\h20)
  /\ Bits(\hFC) = 2 .. 7 /\ Bits(\hFF) = 0 .. 7
<1> DEFINE pow == <<1, 2, 4, 8, 16, 32, 64, 128>>
<1>1. /\ pow[1] = 1 /\ pow[2] = 2 /\ pow[3] = 4 /\ pow[4] = 8
      /\ pow[5] = 16 /\ pow[6] = 32 /\ pow[7] = 64 /\ pow[8] = 128
  OBVIOUS
<1>2. \A i \in Irq : i \in {0, 1, 2, 3, 4, 5, 6, 7}
  BY DEF Irq
<1> HIDE DEF pow
<1>3. \A b : Bits(b) = {i \in Irq : (b \div pow[i + 1]) % 2 = 1}
  BY DEF Bits, pow
<1>4. 4 \in Bits(\h11) /\ 4 \notin Bits(\h20)
  BY <1>1, <1>3 DEF Irq
<1>5. Bits(\hFC) = 2 .. 7
  <2>1. \A i \in Irq : (\hFC \div pow[i + 1]) % 2 = 1 <=> i >= 2
    BY <1>1, <1>2
  <2> QED  BY <2>1, <1>3 DEF Irq
<1>6. Bits(\hFF) = 0 .. 7
  <2>1. \A i \in Irq : (\hFF \div pow[i + 1]) % 2 = 1
    BY <1>1, <1>2
  <2> QED  BY <2>1, <1>3 DEF Irq
<1> QED  BY <1>4, <1>5, <1>6

\* The least element of a set of one line.
LEMMA MinSingle == ASSUME NEW i \in Int PROVE Min({i}) = i
BY DEF Min

\* One controller.
Pic(w, v, mask, i, x) ==
  [icw |-> w, base |-> v, imr |-> mask, irr |-> i, isr |-> x]

\* Both controllers.
Pair(x, y) == [m |-> x, s |-> y]

\* Both controllers as pic_init leaves them, with these lines latched.
Ready(mi, si) == Pair(Pic(0, \h20, 2 .. 7, mi, {}), Pic(0, \h28, 0 .. 7, si, {}))

\* Each port belongs to one controller.
LEMMA Outb ==
  ASSUME NEW x, NEW y, NEW b
  PROVE  /\ outb(Pair(x, y), \h20, b) = Pair(ctrl_write(x, b), y)
         /\ outb(Pair(x, y), \h21, b) = Pair(data_write(x, b), y)
         /\ outb(Pair(x, y), \hA0, b) = Pair(x, ctrl_write(y, b))
         /\ outb(Pair(x, y), \hA1, b) = Pair(x, data_write(y, b))
BY DEF outb, Pair

\* The first initialisation word.
LEMMA CtrlInit ==
  ASSUME NEW w, NEW v, NEW mask, NEW i, NEW x
  PROVE  ctrl_write(Pic(w, v, mask, i, x), \h11) = Pic(2, v, {}, {}, {})
<1>1. 4 \in Bits(\h11)
  BY BitsWritten
<1> QED  BY <1>1 DEF ctrl_write, Pic

\* The end of an interrupt, when there is one in service and when there is none.
LEMMA CtrlEoi ==
  ASSUME NEW w, NEW v, NEW mask, NEW i, NEW k \in Int
  PROVE  /\ ctrl_write(Pic(w, v, mask, i, {}), \h20) = Pic(w, v, mask, i, {})
         /\ ctrl_write(Pic(w, v, mask, i, {k}), \h20) = Pic(w, v, mask, i, {})
<1>1. 4 \notin Bits(\h20)
  BY BitsWritten
<1>2. {k} \ {Min({k})} = {} /\ {k} # {}
  BY MinSingle
<1>3. ctrl_write(Pic(w, v, mask, i, {}), \h20) = Pic(w, v, mask, i, {})
  BY <1>1 DEF ctrl_write, Pic
<1>4. ctrl_write(Pic(w, v, mask, i, {k}), \h20) = Pic(w, v, mask, i, {})
  BY <1>1, <1>2 DEF ctrl_write, Pic
<1> QED  BY <1>3, <1>4

\* A controller is given by its fields.
LEMMA PicFields ==
  ASSUME NEW w, NEW v, NEW mask, NEW i, NEW x,
         NEW f \in [icw : {w}, base : {v}, imr : {mask}, irr : {i}, isr : {x}]
  PROVE  f = Pic(w, v, mask, i, x)
BY DEF Pic

\* An acknowledged interrupt is in service.
LEMMA Take ==
  ASSUME NEW w, NEW v, NEW mask, NEW i, NEW k
  PROVE  take(Pic(w, v, mask, i, {}), k) = Pic(w, v, mask, i \ {k}, {k})
<1>1. take(Pic(w, v, mask, i, {}), k)
        \in [icw : {w}, base : {v}, imr : {mask}, irr : {i \ {k}}, isr : {{k}}]
  BY DEF take, Pic
<1> QED  BY <1>1, PicFields

\* The other three initialisation words, and the mask behind them.
LEMMA DataWrite ==
  ASSUME NEW v, NEW mask, NEW i, NEW x, NEW b \in Nat
  PROVE  /\ data_write(Pic(2, v, mask, i, x), \h20) = Pic(3, \h20, mask, i, x)
         /\ data_write(Pic(2, v, mask, i, x), \h28) = Pic(3, \h28, mask, i, x)
         /\ data_write(Pic(3, v, mask, i, x), b) = Pic(4, v, mask, i, x)
         /\ data_write(Pic(4, v, mask, i, x), b) = Pic(0, v, mask, i, x)
         /\ data_write(Pic(0, v, mask, i, x), b) = Pic(0, v, Bits(b), i, x)
<1>1. /\ data_write(Pic(2, v, mask, i, x), \h20) = Pic(3, \h20, mask, i, x)
      /\ data_write(Pic(2, v, mask, i, x), \h28) = Pic(3, \h28, mask, i, x)
  <2> DEFINE p == Pic(2, v, mask, i, x)
             set(y) == [p EXCEPT !.icw = 3, !.base = y]
  <2>1. p.icw = 2
    BY DEF Pic
  <2>2. ASSUME NEW y
        PROVE  set(y) = Pic(3, y, mask, i, x)
    <3>1. set(y) \in [icw : {3}, base : {y}, imr : {mask}, irr : {i}, isr : {x}]
      BY DEF Pic
    <3> HIDE DEF set
    <3> QED  BY <3>1, PicFields
  <2> HIDE DEF p
  <2>3. ASSUME NEW y, NEW z, z = y - (y % 8)
        PROVE  data_write(p, y) = set(z)
    BY <2>1, <2>3 DEF data_write
  <2> HIDE DEF set
  <2>4. \h20 = \h20 - (\h20 % 8) /\ \h28 = \h28 - (\h28 % 8)
    OBVIOUS
  <2>5. data_write(p, \h20) = set(\h20) /\ data_write(p, \h28) = set(\h28)
    BY <2>3, <2>4
  <2> QED  BY <2>2, <2>5 DEF p
<1>2. data_write(Pic(3, v, mask, i, x), b) = Pic(4, v, mask, i, x)
  BY DEF data_write, Pic
<1>3. data_write(Pic(4, v, mask, i, x), b) = Pic(0, v, mask, i, x)
  BY DEF data_write, Pic
<1>4. data_write(Pic(0, v, mask, i, x), b) = Pic(0, v, Bits(b), i, x)
  BY DEF data_write, Pic
<1> QED  BY <1>1, <1>2, <1>3, <1>4

\* Whatever was latched before, pic_init ends with both controllers
\* initialised and everything but timer and keyboard masked.
LEMMA PicInit ==
  ASSUME NEW irr
  PROVE  pic_init([pics_reset EXCEPT !.m.irr = irr]) = Ready({}, {})
<1> DEFINE p0 == [pics_reset EXCEPT !.m.irr = irr]
<1>1. p0 = Pair(Pic(0, \h08, {}, irr, {}), Pic(0, \h70, {}, {}, {}))
  BY DEF pics_reset, Pic, Pair
<1> HIDE DEF p0
<1>2. icws(p0, \h20, \h21, \h20, \h04)
        = Pair(Pic(0, \h20, {}, {}, {}), Pic(0, \h70, {}, {}, {}))
  <2>1. outb(p0, \h20, \h11)
          = Pair(Pic(2, \h08, {}, {}, {}), Pic(0, \h70, {}, {}, {}))
    BY <1>1, Outb, CtrlInit
  <2>3. data_write(Pic(2, \h08, {}, {}, {}), \h20) = Pic(3, \h20, {}, {}, {})
    BY DataWrite
  <2>4. data_write(Pic(3, \h20, {}, {}, {}), \h04) = Pic(4, \h20, {}, {}, {})
    BY DataWrite
  <2>5. data_write(Pic(4, \h20, {}, {}, {}), \h01) = Pic(0, \h20, {}, {}, {})
    BY DataWrite
  <2> QED  BY <2>1, <2>3, <2>4, <2>5, Outb DEF icws
<1>3. icws(Pair(Pic(0, \h20, {}, {}, {}), Pic(0, \h70, {}, {}, {})),
           \hA0, \hA1, \h28, \h02)
        = Pair(Pic(0, \h20, {}, {}, {}), Pic(0, \h28, {}, {}, {}))
  <2>1. ctrl_write(Pic(0, \h70, {}, {}, {}), \h11) = Pic(2, \h70, {}, {}, {})
    BY CtrlInit
  <2>3. data_write(Pic(2, \h70, {}, {}, {}), \h28) = Pic(3, \h28, {}, {}, {})
    BY DataWrite
  <2>4. data_write(Pic(3, \h28, {}, {}, {}), \h02) = Pic(4, \h28, {}, {}, {})
    BY DataWrite
  <2>5. data_write(Pic(4, \h28, {}, {}, {}), \h01) = Pic(0, \h28, {}, {}, {})
    BY DataWrite
  <2> QED  BY <2>1, <2>3, <2>4, <2>5, Outb DEF icws
<1> DEFINE st(a, b) == Pair(Pic(0, \h20, a, {}, {}), Pic(0, \h28, b, {}, {}))
<1>4. \A a, b : \A x \in Nat : /\ outb(st(a, b), \h21, x) = st(Bits(x), b)
                              /\ outb(st(a, b), \hA1, x) = st(a, Bits(x))
  BY Outb, DataWrite
<1>5. icws(icws(p0, \h20, \h21, \h20, \h04), \hA0, \hA1, \h28, \h02) = st({}, {})
  BY <1>2, <1>3
<1>6. st(Bits(\hFC), Bits(\hFF)) = Ready({}, {})
  BY BitsWritten DEF Ready
<1> HIDE DEF st
<1>7. pic_init(p0) = st(Bits(\hFC), Bits(\hFF))
  BY <1>4, <1>5 DEF pic_init
<1> QED  BY <1>6, <1>7 DEF p0

\* The least element of a set of lines is one of them.
LEMMA MinOfTwo ==
  ASSUME NEW S \in SUBSET {0, 1}, S # {}
  PROVE  Min(S) \in S
<1>1. \E x \in S : \A y \in S : x <= y
  <2>1. CASE 0 \in S
    BY <2>1
  <2>2. CASE 0 \notin S
    <3>1. S = {1}
      BY <2>2
    <3> QED  BY <3>1
  <2> QED  BY <2>1, <2>2
<1> QED  BY <1>1 DEF Min

\* The controllers only ever ask for the timer or the keyboard; after the
\* acknowledge and the two EOIs nothing is in service.
LEMMA Delivered ==
  ASSUME NEW mi \in SUBSET Irq, NEW si \in SUBSET Irq, AsksMaster(Ready(mi, si)) # {}
  PROVE  /\ Acknowledge(Ready(mi, si)).vec \in {\h20, \h21}
         /\ \E i \in Irq : eoi(Acknowledge(Ready(mi, si)).pics) = Ready(mi \ {i}, si)
<1> DEFINE p == Ready(mi, si)
           S == AsksMaster(p)
           i == Min(S)
           q == Pair(Pic(0, \h20, 2 .. 7, mi \ {i}, {i}), p.s)
<1>0. p.m = Pic(0, \h20, 2 .. 7, mi, {}) /\ p.s = Pic(0, \h28, 0 .. 7, si, {})
  BY DEF Ready, Pair
<1>1. Asks(p.s) = {}
  <2>1. p.s.irr = si /\ p.s.imr = 0 .. 7
    BY <1>0 DEF Pic
  <2>2. si \ (0 .. 7) = {}
    BY DEF Irq
  <2> QED  BY <2>1, <2>2 DEF Asks
<1>2. S = (mi \ {2}) \ (2 .. 7)
  <2>1. [p.m EXCEPT !.irr = (@ \ {2}) \cup {}] = Pic(0, \h20, 2 .. 7, mi \ {2}, {})
    <3>1. (mi \ {2}) \cup {} = mi \ {2}
      OBVIOUS
    <3> DEFINE f == mi \ {2}
    <3> HIDE DEF f
    <3>2. \A y : [Pic(0, \h20, 2 .. 7, mi, {}) EXCEPT !.irr = y]
                   = Pic(0, \h20, 2 .. 7, y, {})
      BY DEF Pic
    <3>3. p.m.irr = mi
      BY <1>0 DEF Pic
    <3> QED  BY <1>0, <3>1, <3>2, <3>3
  <2>2. Asks(Pic(0, \h20, 2 .. 7, mi \ {2}, {})) = (mi \ {2}) \ (2 .. 7)
    BY DEF Asks, Pic
  <2> QED  BY <1>1, <2>1, <2>2 DEF AsksMaster
<1>3. S \in SUBSET {0, 1}
  BY <1>2 DEF Irq
<1>4. i \in S
  BY <1>3, MinOfTwo
<1>5. i \in {0, 1} /\ i # 2
  BY <1>3, <1>4
<1>6. Acknowledge(p) = [vec |-> p.m.base + i, pics |-> [p EXCEPT !.m = take(@, i)]]
  <2> HIDE DEF p
  <2> QED  BY <1>5 DEF Acknowledge
<1>7. p.m.base = \h20
  BY <1>0 DEF Pic
<1>8. [p EXCEPT !.m = take(@, i)] = q
  <2>1. take(Pic(0, \h20, 2 .. 7, mi, {}), i) = Pic(0, \h20, 2 .. 7, mi \ {i}, {i})
    BY Take
  <2> HIDE DEF i
  <2> QED  BY <1>0, <2>1 DEF Ready, Pair
<1>9. eoi(q) = Ready(mi \ {i}, si)
  <2>1. ctrl_write(Pic(0, \h28, 0 .. 7, si, {}), \h20) = Pic(0, \h28, 0 .. 7, si, {})
    BY CtrlEoi, 0 \in Int
  <2>3. ctrl_write(Pic(0, \h20, 2 .. 7, mi \ {i}, {i}), \h20)
          = Pic(0, \h20, 2 .. 7, mi \ {i}, {})
    BY <1>5, CtrlEoi
  <2> QED  BY <1>0, <2>1, <2>3, Outb DEF eoi, Ready
<1> HIDE DEF p, S, i, q
<1>10. Acknowledge(p).vec \in {\h20, \h21} /\ Acknowledge(p).pics = q
  BY <1>5, <1>6, <1>7, <1>8
<1> QED  BY <1>5, <1>9, <1>10 DEF Irq, p

\* An EOI without an interrupt in service changes nothing.
LEMMA EoiIdle == ASSUME NEW mi, NEW si PROVE eoi(Ready(mi, si)) = Ready(mi, si)
<1>1. ctrl_write(Pic(0, \h28, 0 .. 7, si, {}), \h20) = Pic(0, \h28, 0 .. 7, si, {})
  BY CtrlEoi, 0 \in Int
<1>2. ctrl_write(Pic(0, \h20, 2 .. 7, mi, {}), \h20) = Pic(0, \h20, 2 .. 7, mi, {})
  BY CtrlEoi, 0 \in Int
<1> QED  BY <1>1, <1>2, Outb DEF eoi, Ready

-----------------------------------------------------------------------------
(* Frames                                                                  *)

\* The fields of the frame of an interrupt, by name and by place.
LEMMA IntrFields ==
  /\ DOMAIN intr_stack = 1 .. 19 /\ Len(intr_stack) = 19
  /\ intr_stack[1] = "save_flag" /\ intr_stack[2] = "edi" /\ intr_stack[3] = "esi"
  /\ intr_stack[4] = "ebp" /\ intr_stack[5] = "esp_dummy" /\ intr_stack[6] = "ebx"
  /\ intr_stack[7] = "edx" /\ intr_stack[8] = "ecx" /\ intr_stack[9] = "eax"
  /\ intr_stack[10] = "gs" /\ intr_stack[11] = "fs" /\ intr_stack[12] = "es"
  /\ intr_stack[13] = "ds" /\ intr_stack[14] = "err_code" /\ intr_stack[15] = "eip"
  /\ intr_stack[16] = "cs" /\ intr_stack[17] = "eflags" /\ intr_stack[18] = "esp"
  /\ intr_stack[19] = "ss"
BY DEF intr_stack

\* The fields of the frame of task_trap, by name and by place.
LEMMA ThreadFields ==
  /\ DOMAIN thread_stack = 1 .. 9 /\ Len(thread_stack) = 9
  /\ thread_stack[1] = "save_flag" /\ thread_stack[2] = "ebp" /\ thread_stack[3] = "ebx"
  /\ thread_stack[4] = "edi" /\ thread_stack[5] = "esi" /\ thread_stack[6] = "eip"
  /\ thread_stack[7] = "unused_ret_addr" /\ thread_stack[8] = "func"
  /\ thread_stack[9] = "func_arg"
BY DEF thread_stack

\* A field is where its name stands in the layout.
LEMMA OffsetOf ==
  ASSUME NEW layout, NEW k \in DOMAIN layout,
         \A i \in DOMAIN layout : layout[i] = layout[k] => i = k
  PROVE  offset(layout, layout[k]) = k - 1
BY DEF offset

\* No two fields of the frame of an interrupt have the same name.
LEMMA IntrInjective ==
  ASSUME NEW i \in 1 .. 19, NEW k \in 1 .. 19, intr_stack[i] = intr_stack[k]
  PROVE  i = k
<1>1. \A j \in 1 .. 19 : \/ j = 1 \/ j = 2 \/ j = 3 \/ j = 4 \/ j = 5 \/ j = 6 \/ j = 7
                         \/ j = 8 \/ j = 9 \/ j = 10 \/ j = 11 \/ j = 12 \/ j = 13
                         \/ j = 14 \/ j = 15 \/ j = 16 \/ j = 17 \/ j = 18 \/ j = 19
  OBVIOUS
<1> QED  BY <1>1, IntrFields

\* The offsets of the fields of the frame of an interrupt.
LEMMA IntrOffsets ==
  /\ \A k \in 1 .. 19 : offset(intr_stack, intr_stack[k]) = k - 1
  /\ offset(intr_stack, "eip") = 14 /\ offset(intr_stack, "cs") = 15
  /\ offset(intr_stack, "eflags") = 16 /\ offset(intr_stack, "esp") = 17
  /\ offset(intr_stack, "ss") = 18
<1>1. \A k \in 1 .. 19 : offset(intr_stack, intr_stack[k]) = k - 1
  BY IntrInjective, OffsetOf, IntrFields
<1>2. /\ intr_stack[15] = "eip" /\ intr_stack[16] = "cs" /\ intr_stack[17] = "eflags"
      /\ intr_stack[18] = "esp" /\ intr_stack[19] = "ss"
  BY IntrFields
<1>3. offset(intr_stack, "eip") = 14
  BY <1>1, <1>2, 15 \in 1 .. 19
<1>4. offset(intr_stack, "cs") = 15
  BY <1>1, <1>2, 16 \in 1 .. 19
<1>5. offset(intr_stack, "eflags") = 16
  BY <1>1, <1>2, 17 \in 1 .. 19
<1>6. offset(intr_stack, "esp") = 17
  BY <1>1, <1>2, 18 \in 1 .. 19
<1>7. offset(intr_stack, "ss") = 18
  BY <1>1, <1>2, 19 \in 1 .. 19
<1> QED  BY <1>1, <1>3, <1>4, <1>5, <1>6, <1>7

\* Every register has a field in the frame of an interrupt, and all but the
\* last two are among the first seventeen.
LEMMA RegisterField ==
  ASSUME NEW r \in Register
  PROVE  \E k \in 1 .. 19 : /\ intr_stack[k] = r
                            /\ r \notin {"esp", "ss"} => k <= 17
<1>1. \/ r = "edi" \/ r = "esi" \/ r = "ebp" \/ r = "ebx" \/ r = "edx" \/ r = "ecx"
      \/ r = "eax" \/ r = "gs" \/ r = "fs" \/ r = "es" \/ r = "ds" \/ r = "eip"
      \/ r = "cs" \/ r = "eflags" \/ r = "esp" \/ r = "ss"
  BY DEF Register, Gpr, Segment
<1> QED  BY <1>1, IntrFields

\* The offsets of the fields of the frame of task_trap.
LEMMA ThreadOffsets ==
  /\ offset(thread_stack, "ebp") = 1 /\ offset(thread_stack, "ebx") = 2
  /\ offset(thread_stack, "edi") = 3 /\ offset(thread_stack, "esi") = 4
  /\ offset(thread_stack, "eip") = 5
<1>1. \A j \in 1 .. 9 : \/ j = 1 \/ j = 2 \/ j = 3 \/ j = 4 \/ j = 5 \/ j = 6 \/ j = 7
                        \/ j = 8 \/ j = 9
  OBVIOUS
<1>2. \A i, k \in 1 .. 9 : thread_stack[i] = thread_stack[k] => i = k
  BY <1>1, ThreadFields
<1>3. \A k \in 1 .. 9 : offset(thread_stack, thread_stack[k]) = k - 1
  BY <1>2, OffsetOf, ThreadFields
<1>4. offset(thread_stack, "ebp") = 1
  BY <1>3, ThreadFields, 2 \in 1 .. 9
<1>5. offset(thread_stack, "ebx") = 2
  BY <1>3, ThreadFields, 3 \in 1 .. 9
<1>6. offset(thread_stack, "edi") = 3
  BY <1>3, ThreadFields, 4 \in 1 .. 9
<1>7. offset(thread_stack, "esi") = 4
  BY <1>3, ThreadFields, 5 \in 1 .. 9
<1>8. offset(thread_stack, "eip") = 5
  BY <1>3, ThreadFields, 6 \in 1 .. 9
<1> QED  BY <1>4, <1>5, <1>6, <1>7, <1>8

\* The kernel stack: a function on the words of the page.
IsStack(m) == m = [w \in 0 .. TOP - 1 |-> m[w]]

\* The register file: a function on the registers.
IsRegs(c) == c = [r \in Register |-> c[r]]

\* What store writes, and what it leaves alone.
LEMMA StoreWords ==
  ASSUME NEW m, IsStack(m), NEW a \in Int, NEW layout, NEW f, NEW n \in Nat,
         DOMAIN layout = 1 .. n
  PROVE  /\ IsStack(store(m, a, layout, f))
         /\ \A k \in 1 .. n : a + k - 1 \in 0 .. TOP - 1 =>
              store(m, a, layout, f)[a + k - 1] = f[layout[k]]
         /\ \A w \in 0 .. TOP - 1 : (w < a \/ w >= a + n) =>
              store(m, a, layout, f)[w] = m[w]
<1> DEFINE s == store(m, a, layout, f)
<1>0. TOP \in Nat
  BY TrapsAssumption
<1>1. DOMAIN m = 0 .. TOP - 1
  BY DEF IsStack
<1>2. s = [w \in 0 .. TOP - 1 |-> IF w - a + 1 \in 1 .. n
                                  THEN f[layout[w - a + 1]] ELSE m[w]]
  BY <1>1 DEF store
<1>3. IsStack(s)
  BY <1>2 DEF IsStack
<1>4. ASSUME NEW k \in 1 .. n, a + k - 1 \in 0 .. TOP - 1
      PROVE  s[a + k - 1] = f[layout[k]]
  <2>1. (a + k - 1) - a + 1 = k
    OBVIOUS
  <2> QED  BY <1>2, <1>4, <2>1
<1>5. ASSUME NEW w \in 0 .. TOP - 1, w < a \/ w >= a + n
      PROVE  s[w] = m[w]
  <2>1. w - a + 1 \notin 1 .. n
    BY <1>5
  <2> QED  BY <1>2, <2>1
<1> QED  BY <1>3, <1>4, <1>5

\* The same for a whole frame of an interrupt.
LEMMA StoreIntr ==
  ASSUME NEW m, IsStack(m), NEW a \in Int, NEW f
  PROVE  /\ IsStack(store(m, a, intr_stack, f))
         /\ \A k \in 1 .. 19 : a + k - 1 \in 0 .. TOP - 1 =>
              store(m, a, intr_stack, f)[a + k - 1] = f[intr_stack[k]]
<1>1. PICK n \in Nat : n = 19
  OBVIOUS
<1>2. DOMAIN intr_stack = 1 .. n
  BY <1>1, IntrFields
<1>3. /\ IsStack(store(m, a, intr_stack, f))
      /\ \A k \in 1 .. n : a + k - 1 \in 0 .. TOP - 1 =>
           store(m, a, intr_stack, f)[a + k - 1] = f[intr_stack[k]]
  BY <1>2, StoreWords
<1> QED  BY <1>1, <1>3

\* Words at and above esp survive Forget.
LEMMA ForgetWords ==
  ASSUME NEW m, IsStack(m), NEW esp \in Int
  PROVE  /\ IsStack(Forget(m, esp))
         /\ \A w \in 0 .. TOP - 1 : w >= esp => Forget(m, esp)[w] = m[w]
<1>1. DOMAIN m = 0 .. TOP - 1
  BY DEF IsStack
<1>2. Forget(m, esp) = [w \in 0 .. TOP - 1 |-> IF w < esp THEN 0 ELSE m[w]]
  BY <1>1 DEF Forget
<1>3. IsStack(Forget(m, esp))
  BY <1>2 DEF IsStack
<1>4. ASSUME NEW w \in 0 .. TOP - 1, w >= esp
      PROVE  Forget(m, esp)[w] = m[w]
  <2>1. TOP \in Nat /\ ~(w < esp)
    BY <1>4, TrapsAssumption
  <2> QED  BY <1>2, <2>1
<1> QED  BY <1>3, <1>4

\* The frame that VECTOR pushes is one that all_load takes the same registers
\* from, in the kernel (seventeen words) and in user mode (nineteen).
LEMMA SaveLoad ==
  ASSUME NEW m, IsStack(m), NEW c, IsRegs(c), NEW a \in 0 .. TOP - 1, NEW n \in {17, 19},
         NEW layout, DOMAIN layout = 1 .. n, \A k \in 1 .. n : layout[k] = intr_stack[k],
         a + n <= TOP,
         \/ n = 19 /\ Rpl(c.cs) = 3
         \/ n = 17 /\ Rpl(c.cs) = 0 /\ c.ss = SELECTOR_K_DATA /\ c.esp = a + 17
  PROVE  /\ all_load(store(m, a, layout, saved(c, ALL_SAVE_FLAG)), a) = c
         /\ store(m, a, layout, saved(c, ALL_SAVE_FLAG))[a] = ALL_SAVE_FLAG
<1> DEFINE f == saved(c, ALL_SAVE_FLAG)
           s == store(m, a, layout, f)
<1>0. TOP \in Nat
  BY TrapsAssumption
<1>1. \A r \in Register : f[r] = c[r]
  BY DEF saved, Register, Gpr, Segment
<1>2. f["save_flag"] = ALL_SAVE_FLAG
  BY DEF saved
<1> HIDE DEF f
<1>3. \A k \in 1 .. n : a + k - 1 \in 0 .. TOP - 1
  BY <1>0
<1>4. \A k \in 1 .. n : s[a + k - 1] = f[intr_stack[k]]
  <2>1. n \in Nat /\ a \in Int
    BY <1>0
  <2>2. \A k \in 1 .. n : a + k - 1 \in 0 .. TOP - 1 => s[a + k - 1] = f[layout[k]]
    BY <2>1, StoreWords
  <2> HIDE DEF s
  <2> QED  BY <1>3, <2>2
<1> HIDE DEF s
<1>5. ASSUME NEW k \in 1 .. n, intr_stack[k] \in Register
      PROVE  field(s, a, intr_stack, intr_stack[k]) = c[intr_stack[k]]
  <2>1. offset(intr_stack, intr_stack[k]) = k - 1
    <3>1. k \in 1 .. 19
      OBVIOUS
    <3> QED  BY <3>1, IntrOffsets
  <2>2. field(s, a, intr_stack, intr_stack[k]) = s[a + k - 1]
    BY <2>1 DEF field
  <2> QED  BY <2>2, <1>4, <1>5, <1>1
<1>6. ASSUME NEW r \in Register, n = 19 \/ r \notin {"esp", "ss"}
      PROVE  field(s, a, intr_stack, r) = c[r]
  <2>1. PICK k \in 1 .. 19 : intr_stack[k] = r /\ (r \notin {"esp", "ss"} => k <= 17)
    BY RegisterField
  <2>2. k \in 1 .. n
    BY <2>1, <1>6
  <2> QED  BY <1>5, <2>1, <2>2
<1>7. "cs" \in Register /\ "cs" \notin {"esp", "ss"}
  BY DEF Register
<1>8. field(s, a, intr_stack, "cs") = c.cs
  BY <1>6, <1>7
<1>9. ASSUME NEW r \in Register
      PROVE  all_load(s, a)[r] = c[r]
  <2>1. CASE n = 19
    BY <2>1, <1>6, <1>8 DEF all_load
  <2>2. CASE n = 17
    BY <2>2, <1>6, <1>8 DEF all_load
  <2> QED  BY <2>1, <2>2
<1>10. all_load(s, a) = [r \in Register |-> all_load(s, a)[r]]
  BY DEF all_load
<1>11. all_load(s, a) = c
  BY <1>9, <1>10 DEF IsRegs
<1>12. s[a] = ALL_SAVE_FLAG
  <2>1. s[a + 1 - 1] = f[intr_stack[1]]
    BY <1>4
  <2> QED  BY <2>1, <1>2, IntrFields
<1> QED  BY <1>11, <1>12 DEF s, f

-----------------------------------------------------------------------------
(* The inductive invariant                                                 *)

\* The places in kernel_thread_entry and process_entry, and in the process.
Startup ==
  {ENTRY, INTR_ON, PROCESS, STACK_READ, STORED, PLACED, BUILT, MALLOC, BLOCKED, FILLED}
InUser == {USER, CALLING, PRINTING, SPINNING}

\* Where the stack pointer is at each place before hwi_ret.
depth(place) ==
  TOP - 22 - (IF place = ENTRY THEN 0 ELSE ENTRY_WORDS)
           - (IF place \in {ENTRY, INTR_ON} THEN 0 ELSE PROC_WORDS)
           - (IF place \in {MALLOC, BLOCKED} THEN MALLOC_WORDS ELSE 0)
           - (IF place = BLOCKED THEN 1 ELSE 0)

\* The registers that decide what a trap does.
CpuInv ==
  /\ IsRegs(cpu)
  /\ cpu.eip \in Startup \cup {HWI_RET} \cup InUser
  /\ cpu.eip \in Startup => cpu.esp = depth(cpu.eip)
  /\ cpu.eip = HWI_RET => cpu.esp \in Reserved .. Reserved + 14
  /\ cpu.cs = IF cpu.eip \in InUser THEN 43 ELSE 8
  /\ cpu.ss = IF cpu.eip \in InUser THEN 51 ELSE 16
  /\ cpu.eflags = IF cpu.eip \in {ENTRY, BLOCKED} THEN 2 ELSE 514
  /\ cpu.eip = CALLING => cpu.eax = PID_GET

\* A process that does not run has its registers in the frame at stack_top.
FrameInv ==
  ~running =>
    IF cpu.eip \in {ENTRY, BLOCKED}
    THEN /\ mem[stack_top] = FAST_SAVE_FLAG
         /\ stack_top = cpu.esp - 6
         /\ \A r \in {"ebp", "ebx", "edi", "esi", "eip"} :
              field(mem, stack_top, thread_stack, r) = cpu[r]
    ELSE /\ mem[stack_top] = ALL_SAVE_FLAG
         /\ all_load(mem, stack_top) = cpu

\* The frame for user mode stays as process_entry builds it, below what the
\* call chain and the interrupts on top of it use.
UserFrameInv ==
  /\ cpu.eip \in {BUILT, MALLOC, BLOCKED, FILLED, HWI_RET} =>
       /\ ~early
       /\ mem[Reserved + 14] = USER
       /\ mem[Reserved + 15] = 43
       /\ mem[Reserved + 16] = 514
  /\ cpu.eip \in {FILLED, HWI_RET} =>
       mem[Reserved + 17] = USER_ESP /\ mem[Reserved + 18] = 51

\* A value taken from stack_top is right unless an interrupt came early.
Placed(value, right) == IF early THEN value < right ELSE value = right

\* How stack_top becomes proc_stack.
PlaceInv ==
  /\ cpu.eip = ENTRY => ~early
  /\ cpu.eip \in {ENTRY, INTR_ON, PROCESS} => Placed(stack_top, TOP - 28)
  /\ cpu.eip = STACK_READ => stack \in 0 .. TOP /\ Placed(stack, Reserved)
  /\ cpu.eip = STORED => Placed(stack_top, Reserved)
  /\ cpu.eip \in {PLACED, BUILT, MALLOC, BLOCKED, FILLED, HWI_RET} =>
       proc_stack \in 0 .. TOP /\ Placed(proc_stack, Reserved)

\* The controllers are as pic_init left them.
PicsInv == \E mi, si \in SUBSET Irq : pics = Ready(mi, si)

\* What holds until process_entry overwrites its own stack.
RunInv ==
  /\ CpuInv
  /\ IsStack(mem)
  /\ FrameInv
  /\ UserFrameInv
  /\ PlaceInv
  /\ running => esp0 = TOP

\* The inductive invariant.
IInv ==
  /\ PicsInv
  /\ running \in BOOLEAN /\ early \in BOOLEAN
  /\ fault \in {"none", "clobbered"}
  /\ DOMAIN cpu = Register
  /\ stack_top \in 0 .. TOP
  /\ MisplacedOnlyWhenEarly
  /\ fault = "none" => RunInv

-----------------------------------------------------------------------------
(* Steps of the process                                                    *)

USE DEF ENTRY, INTR_ON, PROCESS, STACK_READ, STORED, PLACED, BUILT, MALLOC, BLOCKED,
        FILLED, HWI_RET, USER, CALLING, PRINTING, SPINNING

\* The sizes the proofs compute with.
LEMMA Sizes ==
  /\ TOP \in Nat /\ ENTRY_WORDS \in Nat /\ PROC_WORDS \in Nat /\ MALLOC_WORDS \in Nat
  /\ ENTRY_WORDS > 0 /\ PROC_WORDS > 0 /\ MALLOC_WORDS > 0
  /\ TOP >= 45 + ENTRY_WORDS + PROC_WORDS + MALLOC_WORDS
  /\ Reserved = TOP - 19 /\ thread_stack_init = TOP - 28
  /\ EFLAGS_MBS + EFLAGS_IF_1 = 514 /\ EFLAGS_MBS = 2
BY TrapsAssumption, IntrFields, ThreadFields
   DEF Reserved, thread_stack_init, EFLAGS_MBS, EFLAGS_IF_1

\* The names of registers the proofs mention.
LEMMA Names ==
  /\ {"eip", "esp", "eflags", "cs", "ss", "eax", "ebp", "ebx", "edi", "esi"} \subseteq Register
  /\ {"eip", "esp", "eflags", "cs", "ss"} \cap (Gpr \cup Segment) = {}
BY DEF Register, Gpr, Segment

\* A step of the running process to another place in the kernel that leaves
\* the memory alone keeps the invariant when registers and locals fit.
LEMMA KernelMove ==
  ASSUME IInv, fault = "none", running, Keep, mem' = mem, fault' = "none",
         CpuInv', PlaceInv', stack_top' \in 0 .. TOP,
         cpu'.eip \in {BUILT, MALLOC, BLOCKED, FILLED, HWI_RET} =>
           cpu.eip \in {BUILT, MALLOC, BLOCKED, FILLED, HWI_RET},
         cpu'.eip \in {FILLED, HWI_RET} => cpu.eip \in {FILLED, HWI_RET}
  PROVE  IInv'
<1>1. PicsInv' /\ running' = TRUE /\ early' = early /\ esp0' = esp0
  BY DEF IInv, PicsInv, Keep
<1>2. UserFrameInv'
  BY <1>1 DEF IInv, RunInv, UserFrameInv, Reserved
<1>3. FrameInv'
  BY <1>1 DEF FrameInv
<1>4. IsStack(mem)' /\ esp0' = TOP
  BY <1>1 DEF IInv, RunInv, IsStack
<1>5. MisplacedOnlyWhenEarly'
  BY <1>1, Sizes DEF PlaceInv, Placed, MisplacedOnlyWhenEarly, IInv
<1>6. DOMAIN cpu' = Register
  BY DEF CpuInv, IsRegs
<1> QED  BY <1>1, <1>2, <1>3, <1>4, <1>5, <1>6 DEF IInv, RunInv

\* moved changes what it names and nothing else.
LEMMA MovedRegs ==
  ASSUME NEW c, DOMAIN c = Register, NEW p, NEW e, NEW x
  PROVE  /\ IsRegs(moved(c, p, e, x))
         /\ moved(c, p, e, x).eip = p
         /\ moved(c, p, e, x).esp = e
         /\ moved(c, p, e, x).eflags = x
         /\ moved(c, p, e, x).cs = c.cs
         /\ moved(c, p, e, x).ss = c.ss
         /\ \A r \in Register \ {"eip", "esp", "eflags"} : moved(c, p, e, x)[r] = c[r]
<1>1. moved(c, p, e, x) =
        [r \in Register |-> CASE r = "eip" -> p [] r = "esp" -> e [] r = "eflags" -> x
                              [] OTHER -> c[r]]
  BY DEF moved
<1>2. IsRegs(moved(c, p, e, x))
  BY <1>1 DEF IsRegs
<1> QED  BY <1>1, <1>2, Names

\* kernel_thread_entry enables interrupts.
LEMMA KernelThreadEntryInv ==
  ASSUME IInv, fault = "none", KernelThreadEntry PROVE IInv'
<1>0. RunInv /\ CpuInv /\ PlaceInv /\ UserFrameInv
  BY DEF IInv, RunInv
<1>1. running /\ cpu.eip = ENTRY
  BY DEF KernelThreadEntry, At
<1>2. /\ IsRegs(cpu')
      /\ cpu'.eip = INTR_ON /\ cpu'.esp = cpu.esp - ENTRY_WORDS /\ cpu'.eflags = 514
      /\ cpu'.cs = cpu.cs /\ cpu'.ss = cpu.ss
  <2>1. cpu' = moved(Scratch(cpu, 100), INTR_ON, cpu.esp - ENTRY_WORDS, 514)
    BY Sizes DEF KernelThreadEntry
  <2>2. DOMAIN Scratch(cpu, 100) = Register
    BY DEF Scratch
  <2>3. Scratch(cpu, 100).cs = cpu.cs /\ Scratch(cpu, 100).ss = cpu.ss
    BY Names DEF Scratch
  <2> QED  BY <2>1, <2>2, <2>3, MovedRegs
<1>3. CpuInv'
  BY <1>0, <1>1, <1>2, Sizes DEF CpuInv, Startup, InUser, depth
<1>4. PlaceInv'
  BY <1>0, <1>1, <1>2, Sizes, ThreadFields
     DEF PlaceInv, Placed, KernelThreadEntry, Keep, locals, IInv
<1>5. stack_top' \in 0 .. TOP
  BY <1>0, <1>1 DEF IInv, PlaceInv, KernelThreadEntry
<1>6. mem' = mem /\ fault' = "none" /\ Keep
  BY DEF KernelThreadEntry
<1> QED  BY <1>1, <1>2, <1>3, <1>4, <1>5, <1>6, KernelMove

\* kernel_thread_entry calls process_entry.
LEMMA ProcessEntryInv ==
  ASSUME IInv, fault = "none", ProcessEntry PROVE IInv'
<1>0. RunInv /\ CpuInv /\ PlaceInv /\ UserFrameInv
  BY DEF IInv, RunInv
<1>1. running /\ cpu.eip = INTR_ON
  BY DEF ProcessEntry, At
<1>2. /\ IsRegs(cpu')
      /\ cpu'.eip = PROCESS /\ cpu'.esp = cpu.esp - PROC_WORDS /\ cpu'.eflags = cpu.eflags
      /\ cpu'.cs = cpu.cs /\ cpu'.ss = cpu.ss
  <2>1. cpu' = moved(cpu, PROCESS, cpu.esp - PROC_WORDS, cpu.eflags) /\ DOMAIN cpu = Register
    BY Sizes DEF ProcessEntry, IInv
  <2> QED  BY <2>1, MovedRegs
<1>3. CpuInv'
  BY <1>0, <1>1, <1>2, Sizes DEF CpuInv, Startup, InUser, depth
<1>4. PlaceInv'
  BY <1>0, <1>1, <1>2, Sizes, ThreadFields
     DEF PlaceInv, Placed, ProcessEntry, Keep, locals, IInv
<1>5. stack_top' \in 0 .. TOP
  BY <1>0, <1>1 DEF IInv, PlaceInv, ProcessEntry
<1>6. mem' = mem /\ fault' = "none" /\ Keep
  BY DEF ProcessEntry
<1> QED  BY <1>1, <1>2, <1>3, <1>4, <1>5, <1>6, KernelMove

\* process_entry reads stack_top.
LEMMA StackReadInv ==
  ASSUME IInv, fault = "none", StackRead PROVE IInv'
<1>0. RunInv /\ CpuInv /\ PlaceInv /\ UserFrameInv
  BY DEF IInv, RunInv
<1>1. running /\ cpu.eip = PROCESS
  BY DEF StackRead, At
<1>2. /\ IsRegs(cpu')
      /\ cpu'.eip = STACK_READ /\ cpu'.esp = cpu.esp /\ cpu'.eflags = cpu.eflags
      /\ cpu'.cs = cpu.cs /\ cpu'.ss = cpu.ss
  <2>1. cpu' = moved(cpu, STACK_READ, cpu.esp, cpu.eflags) /\ DOMAIN cpu = Register
    BY Sizes DEF StackRead, Goto, IInv
  <2> QED  BY <2>1, MovedRegs
<1>3. CpuInv'
  BY <1>0, <1>1, <1>2, Sizes DEF CpuInv, Startup, InUser, depth
<1>4. PlaceInv'
  BY <1>0, <1>1, <1>2, Sizes, ThreadFields
     DEF PlaceInv, Placed, StackRead, Keep, locals, IInv
<1>5. stack_top' \in 0 .. TOP
  BY <1>0, <1>1 DEF IInv, PlaceInv, StackRead
<1>6. mem' = mem /\ fault' = "none" /\ Keep
  BY DEF StackRead
<1> QED  BY <1>1, <1>2, <1>3, <1>4, <1>5, <1>6, KernelMove

\* process_entry stores stack_top.
LEMMA StackStoreInv ==
  ASSUME IInv, fault = "none", StackStore PROVE IInv'
<1>0. RunInv /\ CpuInv /\ PlaceInv /\ UserFrameInv
  BY DEF IInv, RunInv
<1>1. running /\ cpu.eip = STACK_READ
  BY DEF StackStore, At
<1>2. /\ IsRegs(cpu')
      /\ cpu'.eip = STORED /\ cpu'.esp = cpu.esp /\ cpu'.eflags = cpu.eflags
      /\ cpu'.cs = cpu.cs /\ cpu'.ss = cpu.ss
  <2>1. cpu' = moved(cpu, STORED, cpu.esp, cpu.eflags) /\ DOMAIN cpu = Register
    BY Sizes DEF StackStore, Goto, IInv
  <2> QED  BY <2>1, MovedRegs
<1>3. CpuInv'
  BY <1>0, <1>1, <1>2, Sizes DEF CpuInv, Startup, InUser, depth
<1>4. PlaceInv'
  BY <1>0, <1>1, <1>2, Sizes, ThreadFields
     DEF PlaceInv, Placed, StackStore, Keep, locals, IInv
<1>5. stack_top' \in 0 .. TOP
  BY <1>0, <1>1 DEF IInv, PlaceInv, StackStore
<1>6. mem' = mem /\ fault' = "none" /\ Keep
  BY DEF StackStore
<1> QED  BY <1>1, <1>2, <1>3, <1>4, <1>5, <1>6, KernelMove

\* process_entry reads stack_top again.
LEMMA ProcStackInv ==
  ASSUME IInv, fault = "none", ProcStack PROVE IInv'
<1>0. RunInv /\ CpuInv /\ PlaceInv /\ UserFrameInv
  BY DEF IInv, RunInv
<1>1. running /\ cpu.eip = STORED
  BY DEF ProcStack, At
<1>2. /\ IsRegs(cpu')
      /\ cpu'.eip = PLACED /\ cpu'.esp = cpu.esp /\ cpu'.eflags = cpu.eflags
      /\ cpu'.cs = cpu.cs /\ cpu'.ss = cpu.ss
  <2>1. cpu' = moved(cpu, PLACED, cpu.esp, cpu.eflags) /\ DOMAIN cpu = Register
    BY Sizes DEF ProcStack, Goto, IInv
  <2> QED  BY <2>1, MovedRegs
<1>3. CpuInv'
  BY <1>0, <1>1, <1>2, Sizes DEF CpuInv, Startup, InUser, depth
<1>4. PlaceInv'
  BY <1>0, <1>1, <1>2, Sizes, ThreadFields
     DEF PlaceInv, Placed, ProcStack, Keep, locals, IInv
<1>5. stack_top' \in 0 .. TOP
  BY <1>0, <1>1 DEF IInv, PlaceInv, ProcStack
<1>6. mem' = mem /\ fault' = "none" /\ Keep
  BY DEF ProcStack
<1> QED  BY <1>1, <1>2, <1>3, <1>4, <1>5, <1>6, KernelMove

\* process_entry calls target_vaddr_malloc.
LEMMA MallocCallInv ==
  ASSUME IInv, fault = "none", MallocCall PROVE IInv'
<1>0. RunInv /\ CpuInv /\ PlaceInv /\ UserFrameInv
  BY DEF IInv, RunInv
<1>1. running /\ cpu.eip = BUILT
  BY DEF MallocCall, At
<1>2. /\ IsRegs(cpu')
      /\ cpu'.eip = MALLOC /\ cpu'.esp = cpu.esp - MALLOC_WORDS /\ cpu'.eflags = cpu.eflags
      /\ cpu'.cs = cpu.cs /\ cpu'.ss = cpu.ss
  <2>1. cpu' = moved(cpu, MALLOC, cpu.esp - MALLOC_WORDS, cpu.eflags) /\ DOMAIN cpu = Register
    BY Sizes DEF MallocCall, IInv
  <2> QED  BY <2>1, MovedRegs
<1>3. CpuInv'
  BY <1>0, <1>1, <1>2, Sizes DEF CpuInv, Startup, InUser, depth
<1>4. PlaceInv'
  BY <1>0, <1>1, <1>2, Sizes, ThreadFields
     DEF PlaceInv, Placed, MallocCall, Keep, locals, IInv
<1>5. stack_top' \in 0 .. TOP
  BY <1>0, <1>1 DEF IInv, PlaceInv, MallocCall
<1>6. mem' = mem /\ fault' = "none" /\ Keep
  BY DEF MallocCall
<1> QED  BY <1>1, <1>2, <1>3, <1>4, <1>5, <1>6, KernelMove

\* thread_block returns.
LEMMA ThreadResumeInv ==
  ASSUME IInv, fault = "none", ThreadResume PROVE IInv'
<1>0. RunInv /\ CpuInv /\ PlaceInv /\ UserFrameInv
  BY DEF IInv, RunInv
<1>1. running /\ cpu.eip = BLOCKED
  BY DEF ThreadResume, At
<1>2. /\ IsRegs(cpu')
      /\ cpu'.eip = MALLOC /\ cpu'.esp = cpu.esp + 1 /\ cpu'.eflags = 514
      /\ cpu'.cs = cpu.cs /\ cpu'.ss = cpu.ss
  <2>1. cpu' = moved(cpu, MALLOC, cpu.esp + 1, 514) /\ DOMAIN cpu = Register
    BY Sizes DEF ThreadResume, IInv
  <2> QED  BY <2>1, MovedRegs
<1>3. CpuInv'
  BY <1>0, <1>1, <1>2, Sizes DEF CpuInv, Startup, InUser, depth
<1>4. PlaceInv'
  BY <1>0, <1>1, <1>2, Sizes, ThreadFields
     DEF PlaceInv, Placed, ThreadResume, Keep, locals, IInv
<1>5. stack_top' \in 0 .. TOP
  BY <1>0, <1>1 DEF IInv, PlaceInv, ThreadResume
<1>6. mem' = mem /\ fault' = "none" /\ Keep
  BY DEF ThreadResume
<1> QED  BY <1>1, <1>2, <1>3, <1>4, <1>5, <1>6, KernelMove

\* process_entry jumps to hwi_ret with its frame as the stack.
LEMMA JumpHwiRetInv ==
  ASSUME IInv, fault = "none", JumpHwiRet PROVE IInv'
<1>0. RunInv /\ CpuInv /\ PlaceInv /\ UserFrameInv
  BY DEF IInv, RunInv
<1>1. running /\ cpu.eip = FILLED
  BY DEF JumpHwiRet, At
<1>2. /\ IsRegs(cpu')
      /\ cpu'.eip = HWI_RET /\ cpu'.esp = proc_stack /\ cpu'.eflags = cpu.eflags
      /\ cpu'.cs = cpu.cs /\ cpu'.ss = cpu.ss
  <2>1. cpu' = moved(cpu, HWI_RET, proc_stack, cpu.eflags) /\ DOMAIN cpu = Register
    BY Sizes DEF JumpHwiRet, IInv
  <2> QED  BY <2>1, MovedRegs
<1>3. CpuInv'
  <2>1. proc_stack = Reserved
    BY <1>0, <1>1 DEF PlaceInv, Placed, UserFrameInv
  <2>2. cpu'.esp \in Reserved .. Reserved + 14
    BY <1>2, <2>1, Sizes
  <2> QED  BY <1>0, <1>1, <1>2, <2>2 DEF CpuInv, Startup, InUser, Reserved
<1>4. PlaceInv'
  BY <1>0, <1>1, <1>2, Sizes, ThreadFields
     DEF PlaceInv, Placed, JumpHwiRet, Keep, locals, IInv
<1>5. stack_top' \in 0 .. TOP
  BY <1>0, <1>1 DEF IInv, PlaceInv, JumpHwiRet
<1>6. mem' = mem /\ fault' = "none" /\ Keep
  BY DEF JumpHwiRet
<1> QED  BY <1>1, <1>2, <1>3, <1>4, <1>5, <1>6, KernelMove

\* One instruction of hwi_ret.
LEMMA HwiRetInv ==
  ASSUME IInv, fault = "none", HwiRet PROVE IInv'
<1> DEFINE i == cpu.esp - proc_stack
           n == IF i = 1 THEN 8 ELSE 1
           popped == {intr_stack[k] : k \in i + 1 .. i + n} \cap (Gpr \cup Segment)
<1>0. RunInv /\ CpuInv /\ PlaceInv /\ UserFrameInv
  BY DEF IInv, RunInv
<1>1. running /\ cpu.eip = HWI_RET
  BY DEF HwiRet, At
<1>2. proc_stack = Reserved
  BY <1>0, <1>1 DEF PlaceInv, Placed, UserFrameInv
<1>3. cpu.esp \in Reserved .. Reserved + 14 /\ i < 14
  <2>1. cpu.esp \in Reserved .. Reserved + 14
    BY <1>0, <1>1 DEF CpuInv
  <2>2. i < offset(intr_stack, "eip")
    BY DEF HwiRet
  <2> QED  BY <2>1, <2>2, IntrOffsets
<1>4. i \in 0 .. 13
  BY <1>2, <1>3, Sizes
<1>5. cpu' = [r \in Register |->
                CASE r \in popped -> field(mem, proc_stack, intr_stack, r)
                  [] r = "esp"    -> cpu.esp + n
                  [] OTHER        -> cpu[r]]
  BY DEF HwiRet
<1>6. {"eip", "esp", "eflags", "cs", "ss"} \cap popped = {}
  BY Names
<1> HIDE DEF popped
<1>7. IsRegs(cpu')
  BY <1>5 DEF IsRegs
<1>8. /\ cpu'.eip = HWI_RET /\ cpu'.esp = cpu.esp + n /\ cpu'.eflags = cpu.eflags
      /\ cpu'.cs = cpu.cs /\ cpu'.ss = cpu.ss
  BY <1>1, <1>5, <1>6, Names
<1>9. cpu'.esp \in Reserved .. Reserved + 14
  BY <1>2, <1>3, <1>4, <1>8, Sizes
<1> HIDE DEF i, n
<1>10. CpuInv'
  BY <1>0, <1>1, <1>7, <1>8, <1>9 DEF CpuInv, Startup, InUser, Reserved
<1>11. PlaceInv'
  BY <1>0, <1>1, <1>8 DEF PlaceInv, Placed, HwiRet, Keep, locals
<1>12. stack_top' \in 0 .. TOP /\ mem' = mem /\ fault' = "none" /\ Keep
  BY DEF IInv, HwiRet
<1> QED  BY <1>1, <1>8, <1>10, <1>11, <1>12, KernelMove

\* The code of the process before its system call.
LEMMA UserCodeInv ==
  ASSUME IInv, fault = "none", UserCode PROVE IInv'
<1> DEFINE c == [Scratch(cpu, 200) EXCEPT !.eax = PID_GET]
<1>0. RunInv /\ CpuInv /\ PlaceInv
  BY DEF IInv, RunInv
<1>1. running /\ cpu.eip = USER
  BY DEF UserCode, At
<1>2. DOMAIN c = Register
  BY DEF Scratch
<1>3. c.cs = cpu.cs /\ c.ss = cpu.ss /\ c.eax = PID_GET
  <2>1. /\ DOMAIN Scratch(cpu, 200) = Register
        /\ Scratch(cpu, 200).cs = cpu.cs /\ Scratch(cpu, 200).ss = cpu.ss
    BY Names DEF Scratch
  <2> QED  BY <2>1, Names
<1>4. cpu' = moved(c, CALLING, cpu.esp, cpu.eflags)
  BY DEF UserCode
<1> HIDE DEF c
<1>5. /\ IsRegs(cpu') /\ cpu'.eip = CALLING /\ cpu'.eflags = cpu.eflags
      /\ cpu'.cs = cpu.cs /\ cpu'.ss = cpu.ss /\ cpu'.eax = PID_GET
  <2>1. "eax" \in Register \ {"eip", "esp", "eflags"}
    BY Names
  <2> QED  BY <1>2, <1>3, <1>4, <2>1, MovedRegs
<1>6. CpuInv'
  BY <1>0, <1>1, <1>5 DEF CpuInv, Startup, InUser
<1>7. PlaceInv'
  BY <1>0, <1>1, <1>5 DEF PlaceInv
<1>8. stack_top' \in 0 .. TOP /\ mem' = mem /\ fault' = "none" /\ Keep
  BY DEF IInv, UserCode
<1> QED  BY <1>1, <1>5, <1>6, <1>7, <1>8, KernelMove

\* A system call runs to its end, through entry and table, and returns to the
\* next instruction with the result in eax and everything else as it was.
LEMMA SyscallReturns ==
  ASSUME IInv, fault = "none", Syscall
  PROVE  fault' = "none" /\ cpu' = [cpu EXCEPT !.eip = PRINTING, !.eax = PID]
<1>0. RunInv /\ CpuInv
  BY DEF IInv, RunInv
<1>1. running /\ cpu.eip = CALLING /\ esp0 = TOP
  BY <1>0 DEF Syscall, At, RunInv
<1>2. cpu.cs = 43 /\ cpu.ss = 51 /\ cpu.eax = PID_GET /\ DOMAIN cpu = Register
  BY <1>0, <1>1 DEF CpuInv, InUser, IInv
<1>3. Rpl(cpu.cs) = 3
  BY <1>2 DEF Rpl
<1>4. pushed = intr_stack /\ pushed_at = TOP - 19
  <2>1. pushed = intr_stack
    BY <1>3 DEF pushed
  <2>2. pushed_at = esp0 - Len(pushed)
    BY <1>3 DEF pushed_at
  <2> QED  BY <1>1, <2>1, <2>2, IntrFields
<1> DEFINE a == TOP - 19
           c == moved(cpu, PRINTING, cpu.esp, cpu.eflags)
           called == store(mem, a, intr_stack, saved(c, ALL_SAVE_FLAG))
           done == [called EXCEPT ![a + 8] = PID]
<1>5. cpu' = all_load(done, a) /\ fault' = IF IretFault(cpu') THEN "protection" ELSE "none"
  <2>1. syscall_result_at(pushed_at - 1) = a + 8
    BY <1>4, Sizes DEF syscall_result_at
  <2>2. ~(Dpl(idt[INT_SYSCALL].attribute) < Rpl(cpu.cs))
    BY <1>3, GatesLand
  <2>3. ~(~TssFound \/ Target(idt[INT_SYSCALL]) # syscall_entry)
    BY TssIsFound, GatesLand
  <2>4. ~(cpu.eax \notin DOMAIN syscall_table)
    BY <1>2 DEF syscall_table
  <2>5. /\ cpu' = all_load([store(mem, pushed_at, pushed, saved(c, ALL_SAVE_FLAG))
                              EXCEPT ![syscall_result_at(pushed_at - 1)] = PID], pushed_at)
        /\ fault' = IF IretFault(cpu') THEN "protection" ELSE "none"
    BY <2>2, <2>3, <2>4 DEF Syscall
  <2> QED  BY <1>4, <2>1, <2>5
<1>6. IsRegs(c) /\ c.cs = 43 /\ c.ss = 51 /\ c.eip = PRINTING
      /\ \A r \in Register \ {"eip"} : c[r] = cpu[r]
  <2>1. IsRegs(c) /\ c.eip = PRINTING /\ c.cs = 43 /\ c.ss = 51
    BY <1>2, MovedRegs
  <2>2. c["esp"] = cpu["esp"] /\ c["eflags"] = cpu["eflags"]
    BY <1>2, MovedRegs
  <2>3. \A r \in Register \ {"eip", "esp", "eflags"} : c[r] = cpu[r]
    BY <1>2, MovedRegs
  <2> QED  BY <2>1, <2>2, <2>3
<1> HIDE DEF c
<1>7. IsStack(mem) /\ a \in 0 .. TOP - 1 /\ a + 19 = TOP
  BY <1>0, Sizes DEF RunInv
<1>8. all_load(called, a) = c /\ IsStack(called)
  <2>1. Rpl(c.cs) = 3
    BY <1>6 DEF Rpl
  <2>2. all_load(called, a) = c
    BY <1>6, <1>7, <2>1, Sizes, IntrFields, SaveLoad, 19 \in {17, 19}
  <2>3. IsStack(called)
    <3>1. 19 \in Nat /\ a \in Int /\ DOMAIN intr_stack = 1 .. 19
      BY Sizes, IntrFields
    <3> QED  BY <1>7, <3>1, StoreWords
  <2> QED  BY <2>2, <2>3
<1> HIDE DEF called
<1>9. DOMAIN called = 0 .. TOP - 1
  BY <1>8 DEF IsStack
<1>10. ASSUME NEW r \in Register
       PROVE  field(done, a, intr_stack, r)
                = IF r = "eax" THEN PID ELSE field(called, a, intr_stack, r)
  <2>1. PICK k \in 1 .. 19 : intr_stack[k] = r
    BY RegisterField
  <2>2. offset(intr_stack, r) = k - 1
    BY <2>1, IntrOffsets
  <2>3. a + (k - 1) \in 0 .. TOP - 1
    BY <1>7, Sizes
  <2>4. r = "eax" <=> k = 9
    BY <2>1, IntrFields, IntrInjective, 9 \in 1 .. 19
  <2>5. field(done, a, intr_stack, r) = done[a + (k - 1)]
    BY <2>2 DEF field
  <2>6. field(called, a, intr_stack, r) = called[a + (k - 1)]
    BY <2>2 DEF field
  <2>7. CASE k = 9
    BY <2>7, <2>3, <2>4, <2>5, <1>9, Sizes
  <2>8. CASE k # 9
    <3>1. a + (k - 1) # a + 8
      BY <2>8, Sizes
    <3>2. done[a + (k - 1)] = called[a + (k - 1)]
      BY <3>1, <1>9, <2>3
    <3> QED  BY <3>2, <2>4, <2>5, <2>6, <2>8
  <2> QED  BY <2>7, <2>8
<1> HIDE DEF done
<1>11. field(called, a, intr_stack, "cs") = 43
  <2>1. all_load(called, a)["cs"] = field(called, a, intr_stack, "cs")
    BY Names DEF all_load
  <2> QED  BY <2>1, <1>8, <1>6
<1>12. Rpl(field(called, a, intr_stack, "cs")) = 3 /\ Rpl(field(done, a, intr_stack, "cs")) = 3
  <2>1. field(done, a, intr_stack, "cs") = 43
    BY <1>10, <1>11, Names
  <2> QED  BY <1>11, <2>1 DEF Rpl
<1>13. ASSUME NEW r \in Register
       PROVE  all_load(done, a)[r] = IF r = "eax" THEN PID ELSE c[r]
  <2>1. all_load(done, a)[r] = field(done, a, intr_stack, r)
    BY <1>12 DEF all_load
  <2>2. all_load(called, a)[r] = field(called, a, intr_stack, r)
    BY <1>12 DEF all_load
  <2> QED  BY <2>1, <2>2, <1>8, <1>10
<1>14. cpu' = [r \in Register |-> cpu'[r]]
  BY <1>5 DEF all_load
<1>15. \A r \in Register : cpu'[r] = CASE r = "eip" -> PRINTING [] r = "eax" -> PID
                                       [] OTHER -> cpu[r]
  BY <1>5, <1>6, <1>13
<1>16. cpu' = [cpu EXCEPT !.eip = PRINTING, !.eax = PID]
  <2>1. cpu = [r \in Register |-> cpu[r]]
    BY <1>0 DEF CpuInv, IsRegs
  <2>2. cpu' = [r \in Register |-> CASE r = "eip" -> PRINTING [] r = "eax" -> PID
                                     [] OTHER -> cpu[r]]
    BY <1>14, <1>15
  <2> HIDE DEF PRINTING
  <2> QED  BY <1>2, <2>1, <2>2
<1>17. ~IretFault(cpu')
  <2>1. cpu'.cs = 43 /\ cpu'.ss = 51
    BY <1>2, <1>15, Names
  <2> QED  BY <2>1, SegmentsLoad DEF IretFault, Rpl
<1> QED  BY <1>5, <1>16, <1>17

\* The system call of the process.
LEMMA SyscallInv ==
  ASSUME IInv, fault = "none", Syscall PROVE IInv'
<1>0. RunInv /\ CpuInv /\ PlaceInv
  BY DEF IInv, RunInv
<1>1. running /\ cpu.eip = CALLING
  BY DEF Syscall, At
<1>2. fault' = "none" /\ cpu' = [cpu EXCEPT !.eip = PRINTING, !.eax = PID]
  BY SyscallReturns
<1>3. /\ cpu'.eip = PRINTING /\ cpu'.eflags = cpu.eflags
      /\ cpu'.cs = cpu.cs /\ cpu'.ss = cpu.ss
  BY <1>2, Names DEF IInv
<1>4. IsRegs(cpu')
  <2>1. cpu' = [r \in Register |-> CASE r = "eip" -> PRINTING [] r = "eax" -> PID
                                     [] OTHER -> cpu[r]]
    <3> HIDE DEF PRINTING
    <3> QED  BY <1>2 DEF IInv
  <2> QED  BY <2>1 DEF IsRegs
<1>5. CpuInv'
  BY <1>0, <1>1, <1>3, <1>4 DEF CpuInv, Startup, InUser
<1>6. PlaceInv'
  BY <1>0, <1>1, <1>3 DEF PlaceInv
<1>7. stack_top' \in 0 .. TOP /\ mem' = mem /\ Keep
  BY DEF IInv, Syscall
<1> QED  BY <1>1, <1>2, <1>3, <1>5, <1>6, <1>7, KernelMove

\* The output of the process.
LEMMA PutIntInv ==
  ASSUME IInv, fault = "none", PutInt PROVE IInv'
<1>0. RunInv /\ CpuInv /\ PlaceInv
  BY DEF IInv, RunInv
<1>1. running /\ cpu.eip = PRINTING
  BY DEF PutInt, At
<1>2. fault' = "none" /\ cpu' = moved(cpu, SPINNING, cpu.esp, cpu.eflags)
  BY CursorAllowed DEF PutInt, Goto
<1>3. /\ IsRegs(cpu') /\ cpu'.eip = SPINNING /\ cpu'.eflags = cpu.eflags
      /\ cpu'.cs = cpu.cs /\ cpu'.ss = cpu.ss
  BY <1>2, MovedRegs DEF IInv
<1>4. CpuInv'
  BY <1>0, <1>1, <1>3 DEF CpuInv, Startup, InUser
<1>5. PlaceInv'
  BY <1>0, <1>1, <1>3 DEF PlaceInv
<1>6. stack_top' \in 0 .. TOP /\ mem' = mem /\ Keep
  BY DEF IInv, PutInt
<1> QED  BY <1>1, <1>2, <1>3, <1>4, <1>5, <1>6, KernelMove

\* The stores of process_entry into its frame: in the reserved place when no
\* interrupt came early, and otherwise over its own stack.
LEMMA BuildFrameInv ==
  ASSUME IInv, fault = "none", BuildFrame PROVE IInv'
<1>0. RunInv /\ CpuInv /\ PlaceInv
  BY DEF IInv, RunInv
<1>1. running /\ cpu.eip = PLACED /\ early \in BOOLEAN
  BY DEF BuildFrame, At, IInv
<1>2. /\ PicsInv' /\ running' = TRUE /\ early' = early /\ esp0' = esp0
      /\ stack_top' = stack_top /\ stack' = stack /\ proc_stack' = proc_stack
  BY <1>1 DEF IInv, PicsInv, BuildFrame, Keep, locals
<1>3. /\ IsRegs(cpu') /\ cpu'.eip = BUILT /\ cpu'.eflags = cpu.eflags
      /\ cpu'.cs = cpu.cs /\ cpu'.ss = cpu.ss /\ cpu'.esp = cpu.esp
  <2>1. cpu' = moved(cpu, BUILT, cpu.esp, cpu.eflags) /\ DOMAIN cpu = Register
    BY DEF BuildFrame, Goto, IInv
  <2> QED  BY <2>1, MovedRegs
<1>4. proc_stack \in 0 .. TOP /\ Placed(proc_stack, Reserved)
  BY <1>0, <1>1 DEF PlaceInv
<1>5. MisplacedOnlyWhenEarly' /\ DOMAIN cpu' = Register
  <2>1. DOMAIN cpu' = Register
    BY <1>3 DEF IsRegs
  <2>2. proc_stack' = Reserved <=> ~early'
    BY <1>1, <1>2, <1>4, Sizes DEF Placed
  <2> QED  BY <2>1, <2>2 DEF MisplacedOnlyWhenEarly, Reserved
<1>6. CASE early
  <2>1. fault' = "clobbered"
    BY <1>4, <1>6 DEF BuildFrame, Placed
  <2> QED  BY <1>1, <1>2, <1>5, <2>1 DEF IInv
<1>7. CASE ~early
  <2>1. proc_stack = Reserved
    BY <1>4, <1>7 DEF Placed
  <2>2. fault' = "none"
    BY <2>1, Sizes DEF BuildFrame
  <2>3. /\ IsStack(mem')
        /\ \A k \in 1 .. 19 : Reserved + k - 1 \in 0 .. TOP - 1 =>
             mem'[Reserved + k - 1] = user_regs[intr_stack[k]]
    <3>1. mem' = store(mem, Reserved, intr_stack, user_regs)
      BY <2>1 DEF BuildFrame
    <3>2. IsStack(mem) /\ Reserved \in Int /\ 19 \in Nat /\ DOMAIN intr_stack = 1 .. 19
      BY <1>0, Sizes, IntrFields DEF RunInv
    <3> DEFINE f == user_regs
    <3> HIDE DEF f
    <3>3. /\ IsStack(store(mem, Reserved, intr_stack, f))
          /\ \A k \in 1 .. 19 : Reserved + k - 1 \in 0 .. TOP - 1 =>
               store(mem, Reserved, intr_stack, f)[Reserved + k - 1] = f[intr_stack[k]]
      BY <3>2, StoreIntr
    <3>4. mem' = store(mem, Reserved, intr_stack, f)
      BY <3>1 DEF f
    <3>5. /\ IsStack(mem')
          /\ \A k \in 1 .. 19 : Reserved + k - 1 \in 0 .. TOP - 1 =>
               mem'[Reserved + k - 1] = f[intr_stack[k]]
      BY <3>3, <3>4
    <3> QED  BY <3>5 DEF f
  <2>4. user_regs["eip"] = USER /\ user_regs["cs"] = 43 /\ user_regs["eflags"] = 514
    BY Selectors, Sizes DEF user_regs
  <2>5. /\ mem'[Reserved + 14] = USER /\ mem'[Reserved + 15] = 43
        /\ mem'[Reserved + 16] = 514
    <3> HIDE DEF user_regs
    <3>1. \A k \in 1 .. 19 : mem'[Reserved + k - 1] = user_regs[intr_stack[k]]
      BY <2>3, Sizes
    <3>2. mem'[Reserved + 15 - 1] = user_regs["eip"]
      BY <3>1, IntrFields, 15 \in 1 .. 19
    <3>3. mem'[Reserved + 16 - 1] = user_regs["cs"]
      BY <3>1, IntrFields, 16 \in 1 .. 19
    <3>4. mem'[Reserved + 17 - 1] = user_regs["eflags"]
      BY <3>1, IntrFields, 17 \in 1 .. 19
    <3>5. /\ Reserved + 15 - 1 = Reserved + 14 /\ Reserved + 16 - 1 = Reserved + 15
          /\ Reserved + 17 - 1 = Reserved + 16
      BY Sizes
    <3> QED  BY <2>4, <3>2, <3>3, <3>4, <3>5
  <2>6. UserFrameInv'
    BY <1>2, <1>3, <1>7, <2>5 DEF UserFrameInv, Reserved
  <2>7. CpuInv'
    BY <1>0, <1>1, <1>3, Sizes DEF CpuInv, Startup, InUser, depth
  <2>8. PlaceInv'
    BY <1>2, <1>3, <1>4 DEF PlaceInv, Placed, Reserved
  <2>9. FrameInv' /\ IsStack(mem)' /\ (running => esp0 = TOP)'
    BY <1>0, <1>1, <1>2, <2>3 DEF FrameInv, RunInv, IsStack
  <2> QED  BY <1>1, <1>2, <1>5, <2>2, <2>6, <2>7, <2>8, <2>9 DEF IInv, RunInv
<1> QED  BY <1>1, <1>6, <1>7

\* target_vaddr_malloc returns, and the frame is completed.
LEMMA MallocReturnInv ==
  ASSUME IInv, fault = "none", MallocReturn PROVE IInv'
<1>0. RunInv /\ CpuInv /\ PlaceInv /\ UserFrameInv
  BY DEF IInv, RunInv
<1>1. running /\ cpu.eip = MALLOC /\ early \in BOOLEAN
  BY DEF MallocReturn, At, IInv
<1>2. /\ PicsInv' /\ running' = TRUE /\ early' = early /\ esp0' = esp0 /\ fault' = "none"
      /\ stack_top' = stack_top /\ stack' = stack /\ proc_stack' = proc_stack
  BY <1>1 DEF IInv, PicsInv, MallocReturn, Keep, locals
<1>3. /\ IsRegs(cpu') /\ cpu'.eip = FILLED /\ cpu'.eflags = cpu.eflags
      /\ cpu'.cs = cpu.cs /\ cpu'.ss = cpu.ss /\ cpu'.esp = cpu.esp + MALLOC_WORDS
  <2>1. cpu' = moved(cpu, FILLED, cpu.esp + MALLOC_WORDS, cpu.eflags) /\ DOMAIN cpu = Register
    BY DEF MallocReturn, IInv
  <2> QED  BY <2>1, MovedRegs
<1>4. /\ ~early /\ proc_stack \in 0 .. TOP /\ proc_stack = Reserved
      /\ mem[Reserved + 14] = USER /\ mem[Reserved + 15] = 43 /\ mem[Reserved + 16] = 514
  BY <1>0, <1>1 DEF PlaceInv, Placed, UserFrameInv
<1>5. DOMAIN mem = 0 .. TOP - 1
  BY <1>0 DEF RunInv, IsStack
<1> DEFINE a == Reserved + 17
           b == Reserved + 18
<1>6. /\ a \in 0 .. TOP - 1 /\ b \in 0 .. TOP - 1 /\ a # b
      /\ \A k \in {14, 15, 16} : Reserved + k \in 0 .. TOP - 1 /\ Reserved + k \notin {a, b}
  BY Sizes
<1>7. mem' = [mem EXCEPT ![a] = USER_ESP, ![b] = 51]
  <2>1. proc_stack + offset(intr_stack, "esp") = a
    BY <1>4, IntrOffsets
  <2>2. proc_stack + offset(intr_stack, "ss") = b
    BY <1>4, IntrOffsets
  <2>3. SELECTOR_U_DATA = 51
    BY Selectors
  <2> HIDE DEF a, b
  <2>4. mem' = [mem EXCEPT ![a] = USER_ESP, ![b] = SELECTOR_U_DATA]
    BY <2>1, <2>2 DEF MallocReturn
  <2> QED  BY <2>3, <2>4
<1> HIDE DEF a, b
<1>8. \A e : [mem EXCEPT ![a] = USER_ESP, ![b] = e] =
        [w \in 0 .. TOP - 1 |-> IF w = b THEN e ELSE IF w = a THEN USER_ESP ELSE mem[w]]
  BY <1>5, <1>6
<1>9. mem' = [w \in 0 .. TOP - 1 |-> IF w = b THEN 51 ELSE IF w = a THEN USER_ESP ELSE mem[w]]
  BY <1>7, <1>8
<1>10. IsStack(mem)'
  BY <1>9 DEF IsStack
<1>11. mem'[a] = USER_ESP /\ mem'[b] = 51
  BY <1>6, <1>9
<1>12. \A k \in {14, 15, 16} : mem'[Reserved + k] = mem[Reserved + k]
  BY <1>6, <1>9
<1>13. UserFrameInv'
  BY <1>2, <1>3, <1>4, <1>11, <1>12 DEF UserFrameInv, Reserved, a, b
<1>14. CpuInv'
  BY <1>0, <1>1, <1>3, Sizes DEF CpuInv, Startup, InUser, depth
<1>15. PlaceInv'
  BY <1>0, <1>1, <1>2, <1>3 DEF PlaceInv, Placed, Reserved
<1>16. FrameInv' /\ (running => esp0 = TOP)'
  BY <1>0, <1>1, <1>2 DEF FrameInv, RunInv
<1>17. MisplacedOnlyWhenEarly' /\ DOMAIN cpu' = Register
  BY <1>2, <1>3, <1>4 DEF MisplacedOnlyWhenEarly, IsRegs, Reserved
<1> QED  BY <1>1, <1>2, <1>10, <1>13, <1>14, <1>15, <1>16, <1>17 DEF IInv, RunInv

\* The iret into user mode.
LEMMA IretInv ==
  ASSUME IInv, fault = "none", Iret PROVE IInv'
<1>0. RunInv /\ CpuInv /\ PlaceInv /\ UserFrameInv
  BY DEF IInv, RunInv
<1>1. running /\ cpu.eip = HWI_RET /\ early \in BOOLEAN
  BY DEF Iret, At, IInv
<1>2. /\ PicsInv' /\ running' = TRUE /\ early' = early /\ esp0' = esp0
      /\ stack_top' = stack_top
  BY <1>1 DEF IInv, PicsInv, Iret, Keep
<1>3. /\ proc_stack = Reserved
      /\ mem[Reserved + 14] = USER /\ mem[Reserved + 15] = 43 /\ mem[Reserved + 16] = 514
      /\ mem[Reserved + 18] = 51
  BY <1>0, <1>1 DEF PlaceInv, Placed, UserFrameInv
<1>4. cpu' = [r \in Register |->
                IF r \in {"eip", "cs", "eflags", "esp", "ss"}
                THEN field(mem, proc_stack, intr_stack, r) ELSE cpu[r]]
  BY DEF Iret
<1>5. IsRegs(cpu')
  BY <1>4 DEF IsRegs
<1>6. cpu'.eip = USER /\ cpu'.cs = 43 /\ cpu'.eflags = 514 /\ cpu'.ss = 51
  BY <1>3, <1>4, IntrOffsets, Names DEF field
<1>7. fault' = "none"
  BY <1>6, SegmentsLoad DEF Iret, IretFault, Rpl
<1>8. IsStack(mem)'
  <2>1. mem' = Forget(mem, TOP) /\ TOP \in Int
    BY Sizes DEF Iret
  <2>2. IsStack(Forget(mem, TOP))
    BY <1>0, <2>1, ForgetWords DEF RunInv
  <2> QED  BY <2>1, <2>2 DEF IsStack
<1>9. CpuInv'
  BY <1>5, <1>6 DEF CpuInv, Startup, InUser
<1>10. PlaceInv' /\ UserFrameInv' /\ FrameInv' /\ MisplacedOnlyWhenEarly'
  BY <1>2, <1>6 DEF PlaceInv, UserFrameInv, FrameInv, MisplacedOnlyWhenEarly
<1>11. DOMAIN cpu' = Register /\ esp0' = TOP
  BY <1>0, <1>1, <1>2, <1>5 DEF IsRegs, RunInv
<1> QED  BY <1>1, <1>2, <1>7, <1>8, <1>9, <1>10, <1>11 DEF IInv, RunInv

\* A block behind target_vaddr_malloc: task_trap saves what a function must
\* preserve and the process gives the processor up.
LEMMA TaskTrapInv ==
  ASSUME IInv, fault = "none", TaskTrap PROVE IInv'
<1>0. RunInv /\ CpuInv /\ PlaceInv /\ UserFrameInv
  BY DEF IInv, RunInv
<1>1. running /\ cpu.eip = MALLOC /\ early \in BOOLEAN
  BY DEF TaskTrap, At, IInv
<1>2. /\ PicsInv' /\ running' = FALSE /\ early' = early /\ esp0' = esp0 /\ fault' = "none"
      /\ stack_top' = cpu.esp - 7 /\ stack' = stack /\ proc_stack' = proc_stack
  BY DEF IInv, PicsInv, TaskTrap, locals
<1>3. /\ IsRegs(cpu') /\ cpu'.eip = BLOCKED /\ cpu'.eflags = 2
      /\ cpu'.cs = cpu.cs /\ cpu'.ss = cpu.ss /\ cpu'.esp = cpu.esp - 1
  <2>1. cpu' = moved(cpu, BLOCKED, cpu.esp - 1, 2) /\ DOMAIN cpu = Register
    BY Sizes DEF TaskTrap, IInv
  <2> QED  BY <2>1, MovedRegs
<1>4. cpu.esp = TOP - 22 - ENTRY_WORDS - PROC_WORDS - MALLOC_WORDS
  BY <1>0, <1>1, Sizes DEF CpuInv, Startup, depth
<1> DEFINE a == cpu.esp - 7
           layout == SubSeq(thread_stack, 1, 6)
           f == saved(cpu', FAST_SAVE_FLAG)
<1>5. a \in Int /\ a >= 0 /\ a + 6 < Reserved
  BY <1>4, Sizes
<1>6. DOMAIN layout = 1 .. 6 /\ \A k \in 1 .. 6 : layout[k] = thread_stack[k]
  BY ThreadFields DEF thread_stack
<1>7. mem' = store(mem, a, layout, f)
  BY <1>2 DEF TaskTrap
<1>8. /\ f["save_flag"] = FAST_SAVE_FLAG
      /\ \A r \in {"ebp", "ebx", "edi", "esi", "eip"} : f[r] = cpu'[r]
  BY Names DEF saved
<1> HIDE DEF f, layout
<1>9. /\ IsStack(mem')
      /\ \A k \in 1 .. 6 : mem'[a + k - 1] = f[thread_stack[k]]
      /\ \A w \in 0 .. TOP - 1 : w >= a + 6 => mem'[w] = mem[w]
  <2>1. PICK n \in Nat : n = 6
    OBVIOUS
  <2>2. DOMAIN layout = 1 .. n
    BY <1>6, <2>1
  <2>3. /\ IsStack(store(mem, a, layout, f))
        /\ \A k \in 1 .. n : a + k - 1 \in 0 .. TOP - 1 =>
             store(mem, a, layout, f)[a + k - 1] = f[layout[k]]
        /\ \A w \in 0 .. TOP - 1 : (w < a \/ w >= a + n) =>
             store(mem, a, layout, f)[w] = mem[w]
    BY <1>0, <1>5, <2>2, StoreWords DEF RunInv
  <2>4. /\ IsStack(mem')
        /\ \A k \in 1 .. 6 : a + k - 1 \in 0 .. TOP - 1 => mem'[a + k - 1] = f[layout[k]]
        /\ \A w \in 0 .. TOP - 1 : w >= a + 6 => mem'[w] = mem[w]
    BY <1>7, <2>1, <2>3
  <2>5. \A k \in 1 .. 6 : a + k - 1 \in 0 .. TOP - 1
    BY <1>5, Sizes
  <2> QED  BY <1>6, <2>4, <2>5
<1> HIDE DEF a
<1>10. FrameInv'
  <2>0. stack_top' = a /\ stack_top' = cpu'.esp - 6
    BY <1>2, <1>3, <1>4, Sizes DEF a
  <2>1. mem'[a] = FAST_SAVE_FLAG
    <3>1. mem'[a + 1 - 1] = f[thread_stack[1]] /\ a + 1 - 1 = a
      BY <1>5, <1>9
    <3> QED  BY <3>1, <1>8, ThreadFields
  <2>2. /\ mem'[a + 1] = f["ebp"] /\ mem'[a + 2] = f["ebx"] /\ mem'[a + 3] = f["edi"]
        /\ mem'[a + 4] = f["esi"] /\ mem'[a + 5] = f["eip"]
    <3>1. \A k \in 1 .. 5 : mem'[a + k] = f[thread_stack[k + 1]]
      <4> TAKE k \in 1 .. 5
      <4>1. k + 1 \in 1 .. 6 /\ a + (k + 1) - 1 = a + k
        BY <1>5
      <4> QED  BY <4>1, <1>9
    <3> QED  BY <3>1, ThreadFields
  <2>3. \A r \in {"ebp", "ebx", "edi", "esi", "eip"} :
          field(mem', a, thread_stack, r) = cpu'[r]
    BY <2>2, <1>8, ThreadOffsets DEF field
  <2> QED  BY <1>3, <2>0, <2>1, <2>3 DEF FrameInv, field
<1>11. UserFrameInv'
  <2>1. \A k \in {14, 15, 16} : Reserved + k \in 0 .. TOP - 1 /\ Reserved + k >= a + 6
    BY <1>5, Sizes
  <2>2. \A k \in {14, 15, 16} : mem'[Reserved + k] = mem[Reserved + k]
    BY <1>9, <2>1
  <2> QED  BY <1>0, <1>1, <1>2, <1>3, <2>2 DEF UserFrameInv, Reserved
<1>12. CpuInv'
  BY <1>0, <1>1, <1>3, <1>4, Sizes DEF CpuInv, Startup, InUser, depth
<1>13. PlaceInv'
  BY <1>0, <1>1, <1>2, <1>3 DEF PlaceInv, Placed, Reserved
<1>14. MisplacedOnlyWhenEarly' /\ DOMAIN cpu' = Register
  BY <1>1, <1>2, <1>3, <1>13, Sizes DEF PlaceInv, Placed, MisplacedOnlyWhenEarly, IsRegs
<1>15. stack_top' \in 0 .. TOP
  BY <1>2, <1>5, Sizes DEF a
<1> QED  BY <1>1, <1>2, <1>9, <1>10, <1>11, <1>12, <1>13, <1>14, <1>15
         DEF IInv, RunInv, IsStack

-----------------------------------------------------------------------------
(* Switches and interrupts                                                 *)

\* The process continues with the registers it had.
LEMMA LoadReturns ==
  ASSUME IInv, fault = "none", ContextLoad
  PROVE  cpu' = cpu /\ fault' = "none"
<1>0. RunInv /\ CpuInv /\ ~running
  BY DEF IInv, RunInv, ContextLoad
<1>1. CASE cpu.eip \in {ENTRY, BLOCKED}
  <2>1. /\ mem[stack_top] = FAST_SAVE_FLAG /\ stack_top = cpu.esp - 6
        /\ \A r \in {"ebp", "ebx", "edi", "esi", "eip"} :
             field(mem, stack_top, thread_stack, r) = cpu[r]
    BY <1>0, <1>1 DEF RunInv, FrameInv
  <2>2. mem[stack_top] # ALL_SAVE_FLAG
    BY <2>1 DEF ALL_SAVE_FLAG, FAST_SAVE_FLAG
  <2>3. /\ fault' = fault
        /\ cpu' = [r \in Register |->
             CASE r \in {"ebp", "ebx", "edi", "esi", "eip"} ->
                    field(mem, stack_top, thread_stack, r)
               [] r = "esp"    -> stack_top + 6
               [] r = "eflags" -> EFLAGS_MBS
               [] OTHER        -> cpu[r]]
    BY <2>2 DEF ContextLoad
  <2>4. stack_top + 6 = cpu.esp /\ EFLAGS_MBS = cpu.eflags
    <3>1. cpu.esp \in Int
      BY <1>0, <1>1, Sizes DEF CpuInv, Startup, depth
    <3> QED  BY <1>0, <1>1, <2>1, <3>1, Sizes DEF CpuInv
  <2>5. \A r \in Register : cpu'[r] = cpu[r]
    BY <2>1, <2>3, <2>4
  <2>6. cpu' = [r \in Register |-> cpu'[r]]
    BY <2>3
  <2> QED  BY <1>0, <2>3, <2>5, <2>6 DEF CpuInv, IsRegs
<1>2. CASE cpu.eip \notin {ENTRY, BLOCKED}
  <2>1. mem[stack_top] = ALL_SAVE_FLAG /\ all_load(mem, stack_top) = cpu
    BY <1>0, <1>2 DEF RunInv, FrameInv
  <2>2. cpu' = cpu /\ fault' = IF IretFault(cpu') THEN "protection" ELSE "none"
    BY <2>1 DEF ContextLoad
  <2>3. (cpu.cs = 8 /\ cpu.ss = 16) \/ (cpu.cs = 43 /\ cpu.ss = 51)
    BY <1>0 DEF CpuInv
  <2>4. ~IretFault(cpu)
    BY <2>3, SegmentsLoad DEF IretFault, Rpl
  <2> QED  BY <2>2, <2>4
<1> QED  BY <1>1, <1>2

\* context_load.
LEMMA ContextLoadInv ==
  ASSUME IInv, fault = "none", ContextLoad PROVE IInv'
<1>0. RunInv /\ CpuInv /\ PlaceInv /\ UserFrameInv
  BY DEF IInv, RunInv
<1>1. cpu' = cpu /\ fault' = "none"
  BY LoadReturns
<1>2. /\ pics' = pics /\ running' = TRUE /\ early' = early /\ stack_top' = stack_top
      /\ stack' = stack /\ proc_stack' = proc_stack
  BY DEF ContextLoad, locals
<1>3. esp0' = TOP
  BY DEF ContextLoad, tss_esp0_update
<1> DEFINE e == IF Rpl(cpu.cs) = 3 THEN TOP ELSE cpu.esp
<1>4. mem' = Forget(mem, e)
  BY <1>1 DEF ContextLoad
<1>5. e \in Int /\ (cpu.eip \in {BUILT, MALLOC, BLOCKED, FILLED, HWI_RET} =>
                     e <= Reserved + 14)
  <2>1. CASE cpu.eip \in InUser
    <3>1. Rpl(cpu.cs) = 3
      BY <1>0, <2>1 DEF CpuInv, Rpl
    <3> QED  BY <2>1, <3>1, Sizes DEF InUser
  <2>2. CASE cpu.eip \in Startup
    <3>1. Rpl(cpu.cs) = 0
      BY <1>0, <2>2 DEF CpuInv, Rpl, Startup, InUser
    <3>2. cpu.esp \in Int /\ cpu.esp <= Reserved + 14
      BY <1>0, <2>2, Sizes DEF CpuInv, Startup, depth
    <3> QED  BY <3>1, <3>2
  <2>3. CASE cpu.eip = HWI_RET
    <3>1. Rpl(cpu.cs) = 0
      BY <1>0, <2>3 DEF CpuInv, Rpl, InUser
    <3>2. cpu.esp \in Int /\ cpu.esp <= Reserved + 14
      BY <1>0, <2>3, Sizes DEF CpuInv
    <3> QED  BY <3>1, <3>2
  <2> QED  BY <1>0, <2>1, <2>2, <2>3 DEF CpuInv
<1> HIDE DEF e
<1>6. IsStack(mem') /\ \A w \in 0 .. TOP - 1 : w >= e => mem'[w] = mem[w]
  BY <1>0, <1>4, <1>5, ForgetWords DEF RunInv
<1>7. UserFrameInv'
  <2>1. CASE cpu.eip \in {BUILT, MALLOC, BLOCKED, FILLED, HWI_RET}
    <3>1. \A k \in {14, 15, 16, 17, 18} : Reserved + k \in 0 .. TOP - 1 /\ Reserved + k >= e
      BY <1>5, <2>1, Sizes
    <3>2. \A k \in {14, 15, 16, 17, 18} : mem'[Reserved + k] = mem[Reserved + k]
      BY <1>6, <3>1
    <3> QED  BY <1>0, <1>1, <1>2, <3>2 DEF UserFrameInv, Reserved
  <2>2. CASE cpu.eip \notin {BUILT, MALLOC, BLOCKED, FILLED, HWI_RET}
    BY <1>1, <2>2 DEF UserFrameInv
  <2> QED  BY <2>1, <2>2
<1>8. CpuInv'
  BY <1>0, <1>1 DEF CpuInv, IsRegs, Startup, InUser, depth, Reserved
<1>9. PlaceInv' /\ MisplacedOnlyWhenEarly'
  BY <1>0, <1>1, <1>2 DEF PlaceInv, Placed, Reserved, IInv, MisplacedOnlyWhenEarly
<1>10. FrameInv' /\ PicsInv'
  BY <1>2 DEF FrameInv, PicsInv, IInv
<1> QED  BY <1>1, <1>2, <1>3, <1>6, <1>7, <1>8, <1>9, <1>10 DEF IInv, RunInv, IsStack

\* Every interrupt that comes lands, and one that comes while the process runs
\* leaves a frame that context_load takes the same registers from.
LEMMA InterruptInv ==
  ASSUME IInv, fault = "none", NEW v \in {\h20, \h21, \h27}, NEW controllers,
         Interrupt(v, controllers), PicsInv'
  PROVE  IInv'
<1>0. RunInv /\ CpuInv /\ PlaceInv /\ UserFrameInv /\ running \in BOOLEAN /\ early \in BOOLEAN
  BY DEF IInv, RunInv
<1>1. fault' = "none"
  BY TssIsFound, GatesLand DEF Interrupt
<1>2. /\ running' = FALSE /\ esp0' = esp0 /\ cpu' = cpu
      /\ stack' = stack /\ proc_stack' = proc_stack
  BY DEF Interrupt, locals
<1>3. CpuInv'
  BY <1>0, <1>2 DEF CpuInv, IsRegs, Startup, InUser, depth, Reserved
<1>4. CASE ~running
  <2>1. mem' = mem /\ stack_top' = stack_top /\ early' = early
    BY <1>4 DEF Interrupt
  <2>2. PlaceInv' /\ MisplacedOnlyWhenEarly' /\ UserFrameInv'
    BY <1>0, <1>2, <2>1
       DEF PlaceInv, Placed, Reserved, IInv, MisplacedOnlyWhenEarly, UserFrameInv
  <2>3. FrameInv'
    BY <1>0, <1>2, <1>4, <2>1 DEF RunInv, FrameInv, field, all_load
  <2> QED  BY <1>0, <1>1, <1>2, <1>3, <2>1, <2>2, <2>3 DEF IInv, RunInv, IsStack
<1>5. CASE running
  <2> DEFINE a == pushed_at
             n == Len(pushed)
  <2>1. /\ mem' = store(mem, a, pushed, saved(cpu, ALL_SAVE_FLAG))
        /\ stack_top' = a
        /\ early' = (early \/ cpu.eip \in Window)
        /\ IntrOn(cpu)
    BY <1>5 DEF Interrupt, saved_regs
  <2>2. cpu.eip \notin {ENTRY, BLOCKED}
    <3>1. CASE cpu.eflags = 2
      BY <3>1, <2>1 DEF IntrOn, EFLAGS_IF_1
    <3>2. CASE cpu.eflags = 514
      BY <1>0, <3>2 DEF CpuInv
    <3> QED  BY <1>0, <3>1, <3>2 DEF CpuInv
  <2>3. /\ n \in {17, 19} /\ DOMAIN pushed = 1 .. n
        /\ \A k \in 1 .. n : pushed[k] = intr_stack[k]
        /\ a \in 0 .. TOP - 1 /\ a + n <= TOP
        /\ \/ n = 19 /\ Rpl(cpu.cs) = 3
           \/ n = 17 /\ Rpl(cpu.cs) = 0 /\ cpu.ss = SELECTOR_K_DATA /\ cpu.esp = a + 17
        /\ cpu.eip \in Startup => a = depth(cpu.eip) - 17
        /\ cpu.eip = HWI_RET => a + n <= Reserved + 14
    <3>1. CASE cpu.eip \in InUser
      <4>1. Rpl(cpu.cs) = 3
        BY <1>0, <3>1 DEF CpuInv, Rpl
      <4>2. pushed = intr_stack /\ a = esp0 - Len(pushed)
        BY <4>1 DEF pushed, pushed_at
      <4>3. n = 19 /\ a = TOP - 19 /\ DOMAIN pushed = 1 .. 19
        BY <1>0, <1>5, <4>2, IntrFields DEF RunInv
      <4> QED  BY <3>1, <4>1, <4>2, <4>3, Sizes DEF Startup, InUser
    <3>2. CASE cpu.eip \notin InUser
      <4>1. cpu.cs = 8 /\ cpu.ss = SELECTOR_K_DATA
        BY <1>0, <3>2, Selectors DEF CpuInv
      <4>2. Rpl(cpu.cs) = 0
        BY <4>1 DEF Rpl
      <4>3. pushed = SubSeq(intr_stack, 1, 17) /\ a = cpu.esp - Len(pushed)
        BY <4>2 DEF pushed, pushed_at
      <4>4. /\ Len(SubSeq(intr_stack, 1, 17)) = 17
            /\ DOMAIN SubSeq(intr_stack, 1, 17) = 1 .. 17
            /\ \A k \in 1 .. 17 : SubSeq(intr_stack, 1, 17)[k] = intr_stack[k]
        BY IntrFields DEF intr_stack
      <4>5. n = 17 /\ a = cpu.esp - 17
        BY <4>3, <4>4
      <4>6. CASE cpu.eip \in Startup
        <5>1. /\ cpu.esp = depth(cpu.eip) /\ depth(cpu.eip) \in Int
              /\ depth(cpu.eip) >= 17 /\ depth(cpu.eip) <= TOP
          BY <1>0, <4>6, Sizes DEF CpuInv, depth
        <5> QED  BY <4>1, <4>2, <4>3, <4>4, <4>5, <4>6, <5>1, Sizes DEF Startup
      <4>7. CASE cpu.eip = HWI_RET
        <5>1. cpu.esp \in Int /\ cpu.esp >= 17 /\ cpu.esp <= TOP /\ cpu.esp <= Reserved + 14
          BY <1>0, <4>7, Sizes DEF CpuInv
        <5> QED  BY <4>1, <4>2, <4>3, <4>4, <4>5, <4>7, <5>1, Sizes DEF Startup
      <4> QED  BY <1>0, <3>2, <4>6, <4>7 DEF CpuInv
    <3> QED  BY <3>1, <3>2
  <2> HIDE DEF a, n
  <2>4. /\ all_load(mem', a) = cpu
        /\ mem'[a] = ALL_SAVE_FLAG
    <3>1. IsStack(mem) /\ IsRegs(cpu)
      BY <1>0 DEF RunInv, CpuInv
    <3>2. /\ all_load(store(mem, a, pushed, saved(cpu, ALL_SAVE_FLAG)), a) = cpu
          /\ store(mem, a, pushed, saved(cpu, ALL_SAVE_FLAG))[a] = ALL_SAVE_FLAG
      <4>1. a \in 0 .. TOP - 1 /\ n \in {17, 19} /\ DOMAIN pushed = 1 .. n
        BY <2>3
      <4>2. \A k \in 1 .. n : pushed[k] = intr_stack[k]
        BY <2>3
      <4>3. a + n <= TOP
        BY <2>3
      <4>4. \/ n = 19 /\ Rpl(cpu.cs) = 3
            \/ n = 17 /\ Rpl(cpu.cs) = 0 /\ cpu.ss = SELECTOR_K_DATA /\ cpu.esp = a + 17
        BY <2>3
      <4>5. CASE n = 19 /\ Rpl(cpu.cs) = 3
        <5>1. /\ 19 \in {17, 19} /\ DOMAIN pushed = 1 .. 19 /\ a + 19 <= TOP
              /\ \A k \in 1 .. 19 : pushed[k] = intr_stack[k]
          BY <4>1, <4>2, <4>3, <4>5
        <5> QED  BY <3>1, <4>1, <4>5, <5>1, SaveLoad
      <4>6. CASE n = 17 /\ Rpl(cpu.cs) = 0 /\ cpu.ss = SELECTOR_K_DATA /\ cpu.esp = a + 17
        <5>1. /\ 17 \in {17, 19} /\ DOMAIN pushed = 1 .. 17 /\ a + 17 <= TOP
              /\ \A k \in 1 .. 17 : pushed[k] = intr_stack[k]
          BY <4>1, <4>2, <4>3, <4>6
        <5> QED  BY <3>1, <4>1, <4>6, <5>1, SaveLoad
      <4> QED  BY <4>4, <4>5, <4>6
    <3> QED  BY <2>1, <3>2
  <2>5. /\ IsStack(mem')
        /\ \A w \in 0 .. TOP - 1 : w >= a + n => mem'[w] = mem[w]
    <3>1. n \in Nat /\ a \in Int /\ IsStack(mem)
      BY <1>0, <2>3, Sizes DEF RunInv
    <3> DEFINE f == saved(cpu, ALL_SAVE_FLAG)
    <3> HIDE DEF f
    <3>2. /\ IsStack(store(mem, a, pushed, f))
          /\ \A w \in 0 .. TOP - 1 : (w < a \/ w >= a + n) =>
               store(mem, a, pushed, f)[w] = mem[w]
      BY <2>3, <3>1, StoreWords
    <3> QED  BY <2>1, <3>2 DEF f
  <2>6. FrameInv'
    BY <1>2, <2>1, <2>2, <2>4 DEF FrameInv, field, all_load
  <2>7. UserFrameInv'
    <3>1. CASE cpu.eip \in {BUILT, MALLOC, BLOCKED, FILLED, HWI_RET}
      <4>1. a + n <= Reserved + 14
        <5>1. CASE cpu.eip = HWI_RET
          BY <2>3, <5>1
        <5>2. CASE cpu.eip \in Startup
          <6>1. depth(cpu.eip) \in Int /\ depth(cpu.eip) <= TOP - 22 /\ a = depth(cpu.eip) - 17
            BY <2>3, <5>2, Sizes DEF depth
          <6> QED  BY <2>3, <6>1, Sizes
        <5> QED  BY <3>1, <5>1, <5>2 DEF Startup
      <4>2. \A k \in {14, 15, 16, 17, 18} : /\ Reserved + k \in 0 .. TOP - 1
                                            /\ Reserved + k >= a + n
        BY <2>3, <4>1, Sizes
      <4>3. \A k \in {14, 15, 16, 17, 18} : mem'[Reserved + k] = mem[Reserved + k]
        BY <2>5, <4>2
      <4>4. early' = early
        BY <2>1, <3>1, <1>0 DEF Window
      <4> QED  BY <1>0, <1>2, <3>1, <4>3, <4>4 DEF UserFrameInv, Reserved
    <3>2. CASE cpu.eip \notin {BUILT, MALLOC, BLOCKED, FILLED, HWI_RET}
      BY <1>2, <3>2 DEF UserFrameInv
    <3> QED  BY <3>1, <3>2
  <2>8. PlaceInv'
    <3>1. CASE cpu.eip \in {INTR_ON, PROCESS, STORED}
      <4>1. early' = TRUE
        <5>1. cpu.eip \in Window
          BY <3>1 DEF Window
        <5> QED  BY <2>1, <5>1, Zenon
      <4>2. stack_top' < TOP - 28
        <5>1. a = depth(cpu.eip) - 17
          BY <2>3, <3>1 DEF Startup
        <5>2. depth(cpu.eip) \in Int /\ depth(cpu.eip) < TOP - 22
          BY <3>1, Sizes DEF depth
        <5> QED  BY <2>1, <5>1, <5>2, Sizes
      <4>3. stack_top' < Reserved
        BY <2>1, <2>3, <4>2, Sizes
      <4> QED  BY <1>2, <3>1, <4>1, <4>2, <4>3 DEF PlaceInv, Placed, Reserved
    <3>2. CASE cpu.eip \notin {INTR_ON, PROCESS, STORED}
      <4>1. early' = early
        BY <2>1, <3>2, <1>0 DEF Window
      <4> QED  BY <1>0, <1>2, <2>2, <3>2, <4>1 DEF PlaceInv, Placed, Reserved
    <3> QED  BY <3>1, <3>2
  <2>9. MisplacedOnlyWhenEarly'
    <3>1. early' \in BOOLEAN
      BY <2>1, <1>0
    <3> QED  BY <2>8, <3>1, Sizes DEF PlaceInv, Placed, MisplacedOnlyWhenEarly
  <2>10. stack_top' \in 0 .. TOP /\ early' \in BOOLEAN /\ DOMAIN cpu' = Register
    BY <1>0, <1>2, <2>1, <2>3, Sizes DEF IInv
  <2>11. RunInv'
    BY <1>2, <1>3, <2>5, <2>6, <2>7, <2>8 DEF RunInv, IsStack
  <2> QED  BY <1>1, <1>2, <2>9, <2>10, <2>11 DEF IInv
<1> QED  BY <1>0, <1>4, <1>5

\* An interrupt of a device.
LEMMA DeliverInv ==
  ASSUME IInv, fault = "none", Deliver PROVE IInv'
<1>1. PICK mi, si \in SUBSET Irq : pics = Ready(mi, si)
  BY DEF IInv, PicsInv
<1>2. AsksMaster(Ready(mi, si)) # {}
  BY <1>1 DEF Deliver
<1> DEFINE k == Acknowledge(Ready(mi, si))
<1>3. k.vec \in {\h20, \h21} /\ \E i \in Irq : eoi(k.pics) = Ready(mi \ {i}, si)
  BY <1>2, Delivered
<1>4. Interrupt(k.vec, k.pics)
  BY <1>1 DEF Deliver
<1> HIDE DEF k
<1>5. pics' = eoi(k.pics)
  BY <1>4 DEF Interrupt
<1>6. PicsInv'
  BY <1>3, <1>5 DEF PicsInv
<1> QED  BY <1>3, <1>4, <1>6, InterruptInv

\* A spurious interrupt.
LEMMA SpuriousInv ==
  ASSUME IInv, fault = "none", Spurious PROVE IInv'
<1>1. PICK mi, si \in SUBSET Irq : pics = Ready(mi, si)
  BY DEF IInv, PicsInv
<1>2. pics.m.base + 7 = \h27
  BY <1>1 DEF Ready, Pair, Pic
<1>3. Interrupt(\h27, pics)
  BY <1>2 DEF Spurious
<1>4. pics' = eoi(pics)
  BY <1>3 DEF Interrupt
<1>5. PicsInv'
  BY <1>1, <1>4, EoiIdle DEF PicsInv
<1> QED  BY <1>3, <1>5, InterruptInv

\* What RunInv says does not depend on the controllers, nor on esp0 while the
\* process does not run.
LEMMA RunStutter ==
  ASSUME RunInv, UNCHANGED <<running, cpu, mem, stack_top, stack, proc_stack, early>>,
         running => esp0' = esp0
  PROVE  RunInv'
<1>1. CpuInv'
  BY DEF RunInv, CpuInv, IsRegs, Startup, InUser, depth, Reserved
<1>2. IsStack(mem)'
  BY DEF RunInv, IsStack
<1>3. FrameInv'
  <2>1. running' = running /\ cpu' = cpu /\ mem' = mem /\ stack_top' = stack_top
    OBVIOUS
  <2>2. FrameInv
    BY DEF RunInv
  <2> QED  BY <2>1, <2>2 DEF FrameInv, field, all_load
<1>4. UserFrameInv'
  BY DEF RunInv, UserFrameInv, Reserved
<1>5. PlaceInv'
  BY DEF RunInv, PlaceInv, Placed, Reserved
<1>6. running' => esp0' = TOP
  BY DEF RunInv
<1> QED  BY <1>1, <1>2, <1>3, <1>4, <1>5, <1>6 DEF RunInv

\* A device raises its line.
LEMMA RaiseInv ==
  ASSUME IInv, NEW i \in Line, Raise(i) PROVE IInv'
<1>1. PICK mi, si \in SUBSET Irq : pics = Ready(mi, si)
  BY DEF IInv, PicsInv
<1>2. i \in 0 .. 15
  BY TrapsAssumption
<1>3. PicsInv'
  <2>1. ASSUME NEW S
        PROVE  /\ [Ready(mi, si) EXCEPT !.m.irr = S] = Ready(S, si)
               /\ [Ready(mi, si) EXCEPT !.s.irr = S] = Ready(mi, S)
    <3> DEFINE x == Pic(0, \h20, 2 .. 7, mi, {})
               y == Pic(0, \h28, 0 .. 7, si, {})
               xs == [x EXCEPT !.irr = S]
               ys == [y EXCEPT !.irr = S]
    <3>1. xs = Pic(0, \h20, 2 .. 7, S, {}) /\ ys = Pic(0, \h28, 0 .. 7, S, {})
      BY DEF Pic
    <3> HIDE DEF x, y
    <3>2. /\ [Pair(x, y) EXCEPT !.m.irr = S] = Pair(xs, y)
          /\ [Pair(x, y) EXCEPT !.s.irr = S] = Pair(x, ys)
      BY DEF Pair
    <3>3. Ready(mi, si) = Pair(x, y)
      BY DEF Ready, x, y
    <3> HIDE DEF xs, ys
    <3>4. Pair(xs, y) = Ready(S, si) /\ Pair(x, ys) = Ready(mi, S)
      BY <3>1 DEF Ready, x, y
    <3> QED  BY <3>2, <3>3, <3>4
  <2>2. Ready(mi, si).m.irr = mi /\ Ready(mi, si).s.irr = si
    BY DEF Ready, Pair, Pic
  <2>3. CASE i < 8
    <3>1. mi \cup {i} \in SUBSET Irq
      BY <1>2, <2>3 DEF Irq
    <3>2. pics' = [Ready(mi, si) EXCEPT !.m.irr = mi \cup {i}]
      BY <1>1, <2>2, <2>3 DEF Raise
    <3>3. pics' = Ready(mi \cup {i}, si)
      BY <2>1, <3>2
    <3> QED  BY <3>1, <3>3 DEF PicsInv
  <2>4. CASE ~(i < 8)
    <3>1. si \cup {i - 8} \in SUBSET Irq
      BY <1>2, <2>4 DEF Irq
    <3>2. pics' = [Ready(mi, si) EXCEPT !.s.irr = si \cup {i - 8}]
      BY <1>1, <2>2, <2>4 DEF Raise
    <3>3. pics' = Ready(mi, si \cup {i - 8})
      BY <2>1, <3>2
    <3> QED  BY <3>1, <3>3 DEF PicsInv
  <2> QED  BY <2>3, <2>4
<1>4. UNCHANGED <<esp0, running, cpu, mem, stack_top, stack, proc_stack, early, fault>>
  BY DEF Raise, locals
<1>5. MisplacedOnlyWhenEarly'
  BY <1>4 DEF IInv, MisplacedOnlyWhenEarly, Reserved
<1>6. RunInv => RunInv'
  BY <1>4, RunStutter
<1> QED  BY <1>3, <1>4, <1>5, <1>6 DEF IInv

\* Another process runs.
LEMMA OtherProcessInv ==
  ASSUME IInv, fault = "none", OtherProcess PROVE IInv'
<1>1. /\ UNCHANGED <<pics, running, cpu, mem, stack_top, stack, proc_stack, early, fault>>
      /\ ~running
  BY DEF OtherProcess, locals
<1>2. PicsInv' /\ MisplacedOnlyWhenEarly'
  BY <1>1 DEF IInv, PicsInv, MisplacedOnlyWhenEarly, Reserved
<1>3. RunInv => RunInv'
  BY <1>1, RunStutter
<1> QED  BY <1>1, <1>2, <1>3 DEF IInv

\* A step that changes nothing keeps the invariant.
LEMMA StutterInv ==
  ASSUME IInv, UNCHANGED vars PROVE IInv'
<1>1. UNCHANGED <<pics, esp0, running, cpu, mem, stack_top, stack, proc_stack, early, fault>>
  BY DEF vars, locals
<1>2. PicsInv' /\ MisplacedOnlyWhenEarly'
  BY <1>1 DEF IInv, PicsInv, MisplacedOnlyWhenEarly, Reserved
<1>3. RunInv => RunInv'
  BY <1>1, RunStutter
<1> QED  BY <1>1, <1>2, <1>3 DEF IInv

\* The state at intr_enable in main(): thread_stack_init has built the frame
\* from which the process starts.
LEMMA InitInv == Init => IInv
<1> SUFFICES ASSUME Init PROVE IInv
  OBVIOUS
<1>1. PicsInv
  <2>1. PICK irr \in SUBSET (Line \cap Irq) : pics = pic_init([pics_reset EXCEPT !.m.irr = irr])
    BY DEF Init
  <2>2. pics = Ready({}, {})
    BY <2>1, PicInit
  <2> QED  BY <2>2 DEF PicsInv
<1>2. /\ running = FALSE /\ early = FALSE /\ fault = "none" /\ stack_top = TOP - 28
      /\ esp0 = 0
  BY Sizes DEF Init
<1>3. /\ IsRegs(cpu) /\ cpu.eip = ENTRY /\ cpu.esp = stack_top + 6 /\ cpu.eflags = 2
      /\ cpu.cs = 8 /\ cpu.ss = 16
      /\ \A r \in {"ebp", "ebx", "edi", "esi"} : cpu[r] = 0
  <2> DEFINE z == [r \in Register |-> 0]
  <2>1. cpu = [z EXCEPT !.eip = ENTRY, !.esp = stack_top + 6, !.eflags = EFLAGS_MBS,
                        !.cs = SELECTOR_K_CODE, !.ss = SELECTOR_K_DATA]
    BY DEF Init
  <2>2. DOMAIN z = Register /\ \A r \in Register : z[r] = 0
    OBVIOUS
  <2> HIDE DEF z, ENTRY
  <2>3. DOMAIN cpu = Register
    BY <2>1, <2>2
  <2>4. cpu.eip = ENTRY /\ cpu.esp = stack_top + 6 /\ cpu.eflags = EFLAGS_MBS
        /\ cpu.cs = SELECTOR_K_CODE /\ cpu.ss = SELECTOR_K_DATA
    BY <2>1, <2>2, Names
  <2>5. \A r \in {"ebp", "ebx", "edi", "esi"} : cpu[r] = 0
    BY <2>1, <2>2, Names
  <2>6. IsRegs(cpu)
    <3>1. ASSUME NEW p, NEW e, NEW x, NEW y, NEW u
          PROVE  LET c == [z EXCEPT !.eip = p, !.esp = e, !.eflags = x, !.cs = y, !.ss = u]
                 IN  c = [r \in Register |-> c[r]]
      BY <2>2
    <3> QED  BY <2>1, <3>1 DEF IsRegs
  <2> QED  BY <2>4, <2>5, <2>6, Selectors, Sizes
<1>4. stack_top \in 0 .. TOP /\ stack_top = cpu.esp - 6
  BY <1>2, <1>3, Sizes
<1> DEFINE f == [save_flag |-> FAST_SAVE_FLAG, ebp |-> 0, ebx |-> 0, edi |-> 0,
                 esi |-> 0, eip |-> ENTRY, unused_ret_addr |-> 0,
                 func |-> PROCESS, func_arg |-> USER]
           z == [w \in 0 .. TOP - 1 |-> 0]
<1>5. mem = store(z, stack_top, thread_stack, f)
  BY DEF Init
<1>6. /\ f["save_flag"] = FAST_SAVE_FLAG /\ f["eip"] = ENTRY
      /\ \A r \in {"ebp", "ebx", "edi", "esi"} : f[r] = 0
  OBVIOUS
<1>7. IsStack(z)
  BY DEF IsStack
<1> HIDE DEF f, z
<1>8. IsStack(mem) /\ \A k \in 1 .. 9 : mem[stack_top + k - 1] = f[thread_stack[k]]
  <2>1. PICK n \in Nat : n = 9
    OBVIOUS
  <2>2. DOMAIN thread_stack = 1 .. n /\ stack_top \in Int
    BY <1>2, <2>1, ThreadFields, Sizes
  <2>3. /\ IsStack(store(z, stack_top, thread_stack, f))
        /\ \A k \in 1 .. n : stack_top + k - 1 \in 0 .. TOP - 1 =>
             store(z, stack_top, thread_stack, f)[stack_top + k - 1] = f[thread_stack[k]]
    BY <1>7, <2>2, StoreWords
  <2>4. \A k \in 1 .. n : stack_top + k - 1 \in 0 .. TOP - 1
    BY <1>2, <2>1, Sizes
  <2> QED  BY <1>5, <2>1, <2>3, <2>4
<1>9. FrameInv
  <2>1. mem[stack_top] = FAST_SAVE_FLAG
    <3>1. mem[stack_top + 1 - 1] = f[thread_stack[1]] /\ stack_top + 1 - 1 = stack_top
      BY <1>4, <1>8
    <3> QED  BY <3>1, <1>6, ThreadFields
  <2>2. \A k \in 1 .. 8 : mem[stack_top + k] = f[thread_stack[k + 1]]
    <3> TAKE k \in 1 .. 8
    <3>1. k + 1 \in 1 .. 9 /\ stack_top + (k + 1) - 1 = stack_top + k
      BY <1>4
    <3> QED  BY <3>1, <1>8
  <2>3. /\ mem[stack_top + 1] = f["ebp"] /\ mem[stack_top + 2] = f["ebx"]
        /\ mem[stack_top + 3] = f["edi"] /\ mem[stack_top + 4] = f["esi"]
        /\ mem[stack_top + 5] = f["eip"]
    BY <2>2, ThreadFields
  <2>4. \A r \in {"ebp", "ebx", "edi", "esi", "eip"} :
          field(mem, stack_top, thread_stack, r) = cpu[r]
    BY <2>3, <1>3, <1>6, ThreadOffsets DEF field
  <2> QED  BY <1>3, <1>4, <2>1, <2>4 DEF FrameInv
<1>10. CpuInv
  BY <1>2, <1>3, Sizes DEF CpuInv, Startup, InUser, depth
<1>11. PlaceInv /\ UserFrameInv /\ MisplacedOnlyWhenEarly
  BY <1>2, <1>3 DEF PlaceInv, Placed, UserFrameInv, MisplacedOnlyWhenEarly
<1>12. DOMAIN cpu = Register
  BY <1>3 DEF IsRegs
<1> QED  BY <1>1, <1>2, <1>4, <1>8, <1>9, <1>10, <1>11, <1>12 DEF IInv, RunInv

\* Every step keeps the invariant; a faulted processor takes none that matters.
LEMMA NextInv == IInv /\ [Next]_vars => IInv'
<1> SUFFICES ASSUME IInv, [Next]_vars PROVE IInv'
  OBVIOUS
<1>1. CASE Code
  <2>1. fault = "none"
    BY <1>1 DEF Code, KernelThreadEntry, ProcessEntry, StackRead, StackStore, ProcStack,
                BuildFrame, MallocCall, TaskTrap, ThreadResume, MallocReturn,
                JumpHwiRet, HwiRet, Iret, UserCode, Syscall, PutInt, At
  <2> QED  BY <1>1, <2>1, KernelThreadEntryInv, ProcessEntryInv, StackReadInv,
              StackStoreInv, ProcStackInv, BuildFrameInv, MallocCallInv, TaskTrapInv,
              ThreadResumeInv, MallocReturnInv, JumpHwiRetInv, HwiRetInv, IretInv,
              UserCodeInv, SyscallInv, PutIntInv DEF Code
<1>2. CASE Spin
  BY <1>2, StutterInv DEF Spin
<1>3. CASE \E i \in Line : Raise(i)
  BY <1>3, RaiseInv
<1>4. CASE Deliver
  BY <1>4, DeliverInv DEF Deliver, Interrupt
<1>5. CASE Spurious
  BY <1>5, SpuriousInv DEF Spurious, Interrupt
<1>6. CASE OtherProcess
  BY <1>6, OtherProcessInv DEF OtherProcess
<1>7. CASE ContextLoad
  BY <1>7, ContextLoadInv DEF ContextLoad
<1>8. CASE UNCHANGED vars
  BY <1>8, StutterInv
<1> QED  BY <1>1, <1>2, <1>3, <1>4, <1>5, <1>6, <1>7, <1>8 DEF Next

-----------------------------------------------------------------------------
(* Theorems                                                                *)

\* The inductive invariant holds of every behaviour.
LEMMA Invariance == Spec => []IInv
<1>1. Init => IInv
  BY InitInv
<1>2. IInv /\ [Next]_vars => IInv'
  BY NextInv
<1> QED  BY <1>1, <1>2, PTL DEF Spec

\* Traps is type correct: the register file keeps its registers, and stack_top
\* of the TCB stays inside its page.
THEOREM TypeCorrect == Spec => []TypeOK
<1>1. IInv => TypeOK
  BY DEF IInv, TypeOK
<1> QED  BY <1>1, Invariance, PTL

\* Every interrupt, system call, iret and output of the process goes where it
\* should: gates, descriptors, handlers and the programming of the controllers
\* agree, whatever the devices do, for every placement of the tables.
THEOREM EveryTrapLands == Spec => []TrapsLand
<1>1. IInv => TrapsLand
  BY DEF IInv, TrapsLand
<1> QED  BY <1>1, Invariance, PTL

\* The entries end each interrupt of the master exactly once, spurious ones
\* included; the slave, wholly masked, never has one in service.
THEOREM EveryInterruptEnds == Spec => []NothingInService
<1>1. IInv => NothingInService
  BY DEF IInv, PicsInv, Ready, Pair, Pic, NothingInService
<1> QED  BY <1>1, Invariance, PTL

\* process_entry misplaces its frame in exactly one way: an interrupt between
\* intr_enable and its last read of stack_top.
THEOREM MisplacedIffEarly == Spec => []MisplacedOnlyWhenEarly
<1>1. IInv => MisplacedOnlyWhenEarly
  BY DEF IInv
<1> QED  BY <1>1, Invariance, PTL

\* VECTOR with all_load, task_trap with fast_load, and syscall_entry give the
\* process its registers back, for every content they may have.
THEOREM Transparent == Spec => TrapsTransparent
<1> DEFINE A == /\ ~running /\ running' => \A r \in Live : cpu'[r] = cpu[r]
                /\ At(CALLING) /\ cpu' # cpu =>
                     cpu' = [cpu EXCEPT !.eip = PRINTING, !.eax = PID]
<1>1. ASSUME IInv, [Next]_vars
      PROVE  [A]_vars
  <2>1. CASE Code
    <3>1. running /\ fault = "none"
      BY <2>1 DEF Code, KernelThreadEntry, ProcessEntry, StackRead, StackStore, ProcStack,
                  BuildFrame, MallocCall, TaskTrap, ThreadResume, MallocReturn,
                  JumpHwiRet, HwiRet, Iret, UserCode, Syscall, PutInt, At
    <3>2. cpu.eip = CALLING => Syscall
      BY <2>1 DEF Code, KernelThreadEntry, ProcessEntry, StackRead, StackStore, ProcStack,
                  BuildFrame, MallocCall, TaskTrap, ThreadResume, MallocReturn,
                  JumpHwiRet, HwiRet, Iret, UserCode, PutInt, At
    <3>3. Syscall => cpu' = [cpu EXCEPT !.eip = PRINTING, !.eax = PID]
      BY <1>1, <3>1, SyscallReturns
    <3>4. ~running /\ running' => \A r \in Live : cpu'[r] = cpu[r]
      BY <3>1
    <3>5. At(CALLING) /\ cpu' # cpu => cpu' = [cpu EXCEPT !.eip = PRINTING, !.eax = PID]
      <4> HIDE DEF PRINTING
      <4> QED  BY <3>2, <3>3 DEF At
    <3> QED  BY <3>4, <3>5, Zenon
  <2>2. CASE ContextLoad
    <3>1. cpu' = cpu
      BY <1>1, <2>2, LoadReturns DEF ContextLoad
    <3> QED  BY <3>1
  <2>3. CASE Spin \/ (\E i \in Line : Raise(i)) \/ OtherProcess
    <3>1. cpu' = cpu /\ running' = running
      BY <2>3 DEF Spin, Raise, OtherProcess, vars
    <3> QED  BY <3>1
  <2>4. CASE Deliver \/ Spurious
    <3>1. cpu' = cpu /\ running' = FALSE
      BY <2>4 DEF Deliver, Spurious, Interrupt
    <3> QED  BY <3>1
  <2>5. CASE UNCHANGED vars
    BY <2>5
  <2> QED  BY <1>1, <2>1, <2>2, <2>3, <2>4, <2>5 DEF Next
<1>2. IInv /\ [Next]_vars => [A]_vars
  BY <1>1
<1> QED  BY <1>2, Invariance, PTL DEF Spec, TrapsTransparent
=============================================================================
