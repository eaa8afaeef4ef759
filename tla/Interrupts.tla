------------------------------ MODULE Interrupts ------------------------------
(***************************************************************************)
(* The tables through which the processor enters the kernel and the two    *)
(* 8259 controllers in front of it, as operators: selectors and            *)
(* descriptors of kernel/global.h and user/tss.c, gates and handlers of    *)
(* kernel/interrupt.c, and what the hardware does with them; idt,          *)
(* idt_table, gdt and syscall_table are as init_all leaves them.  Operators *)
(* have the names of the C functions.                                      *)
(***************************************************************************)
EXTENDS Integers, Sequences, FiniteSetsExt

CONSTANTS
  Vector,       \* the vectors looked at, of the 0x81 of the IDT
  ENTRY_BASE,   \* the address of intr0x00entry, with 64 bytes for each entry
  TSS_ADDR,     \* the address of tss; both below 2^31, TLC's largest integer
  WILD          \* an address outside the kernel's text

ASSUME InterruptsAssumption ==
  /\ Vector \subseteq 0 .. 128
  /\ {\h20, \h21, \h27, \h2F, \h80} \subseteq Vector
  /\ ENTRY_BASE \in Nat /\ TSS_ADDR \in Nat
  /\ WILD \in Nat /\ WILD < ENTRY_BASE

-----------------------------------------------------------------------------
(* Segments                                                                *)

selector(index, rpl) == (index * 8) + rpl

SELECTOR_K_CODE == selector(1, 0)
SELECTOR_K_DATA == selector(2, 0)
SELECTOR_TSS    == selector(4, 0)
SELECTOR_U_CODE == selector(5, 3)
SELECTOR_U_DATA == selector(6, 3)

attr_low(dpl, s, type) == 128 + dpl * 32 + s * 16 + type
GDT_CODE_ATTR_LOW_DPL3 == attr_low(3, 1, 8)
GDT_DATA_ATTR_LOW_DPL3 == attr_low(3, 1, 2)
TSS_ATTR_LOW           == attr_low(0, 0, 9)
GDT_ATTR_HIGH          == 128 + 64

\* Mutant: the limit of the TSS counts bytes.
TSS_ATTR_HIGH_BYTES == 0

TSS_ATTR_HIGH == 128

gdt_desc_make(base, limit, attr_lo, attr_hi) ==
  [limit_low_word       |-> limit % 2^16,
   base_low_word        |-> base % 2^16,
   base_mid_byte        |-> (base \div 2^16) % 2^8,
   attr_low_byte        |-> attr_lo,
   limit_high_attr_high |-> (((limit \div 2^16) % 2^4) + attr_hi) % 2^8,
   base_high_byte       |-> base \div 2^24]

\* What the loader leaves in the GDT: kernel code and data.
loader_gdt ==
  <<gdt_desc_make(0, \hFFFFF, attr_low(0, 1, 8), GDT_ATTR_HIGH),
    gdt_desc_make(0, \hFFFFF, attr_low(0, 1, 2), GDT_ATTR_HIGH)>>

\* struct tss: every field is a dword, trace and io_base too.
struct_tss ==
  <<"backlink", "esp0", "ss0", "esp1", "ss1", "esp2", "ss2", "cr3", "eip",
    "eflags", "eax", "ecx", "edx", "ebx", "esp", "ebp", "esi", "edi", "es", "cs",
    "ss", "ds", "fs", "gs", "ldt", "trace", "io_base">>
TSS_SIZE == 4 * Len(struct_tss)

\* memset and two stores; the field esp0 is a variable of Traps.
tss_init ==
  [i \in DOMAIN struct_tss |-> CASE struct_tss[i] = "ss0"     -> SELECTOR_K_DATA
                                 [] struct_tss[i] = "io_base" -> TSS_SIZE
                                 [] OTHER                     -> 0]

\* The bytes from tss on, and what the processor reads as a word.  Up to the
\* next variable of the kernel there is padding, which is 0.
tss_byte(o) ==
  IF o < TSS_SIZE
  THEN (tss_init[(o \div 4) + 1] \div <<1, 2^8, 2^16, 2^24>>[(o % 4) + 1]) % 2^8
  ELSE 0
tss_word(o) == tss_byte(o) + tss_byte(o + 1) * 2^8

\* tss_init adds the TSS, user code and user data.
gdt ==
  [i \in {1, 2, 4, 5, 6} |->
     CASE i = 4 -> gdt_desc_make(TSS_ADDR, TSS_SIZE - 1, TSS_ATTR_LOW, TSS_ATTR_HIGH)
       [] i = 5 -> gdt_desc_make(0, \hFFFFF, GDT_CODE_ATTR_LOW_DPL3, GDT_ATTR_HIGH)
       [] i = 6 -> gdt_desc_make(0, \hFFFFF, GDT_DATA_ATTR_LOW_DPL3, GDT_ATTR_HIGH)
       [] OTHER -> loader_gdt[i]]

\* How the processor reads a selector and a descriptor.
Rpl(sel)  == sel % 4
Dpl(attr) == (attr \div 32) % 4
Type(d)   == d.attr_low_byte % 16
Base(d)   == d.base_low_word + d.base_mid_byte * 2^16 + d.base_high_byte * 2^24
Limit(d)  == LET limit == d.limit_low_word + (d.limit_high_attr_high % 16) * 2^16
             IN  IF d.limit_high_attr_high \div 128 = 1
                 THEN limit * 4096 + 4095 ELSE limit

\* Where the processor looks in a TSS: the stack of ring 0 is at 4 and 8, and
\* the start of the I/O permission map is the word at 102.
TSS_ESP0_AT   == 4
TSS_SS0_AT    == 8
TSS_IO_MAP_AT == 102

\* A segment of this type that code of this ring may load.
Loadable(sel, type, ring) ==
  /\ sel \div 8 \in DOMAIN gdt
  /\ Type(gdt[sel \div 8]) = type
  /\ Rpl(sel) = ring
  /\ Dpl(gdt[sel \div 8].attr_low_byte) = ring

-----------------------------------------------------------------------------
(* Gates and handlers                                                      *)

IDT_DESC_ATTR_DPL0 == attr_low(0, 0, 14)
IDT_DESC_ATTR_DPL3 == attr_low(3, 0, 14)
INT_SYSCALL == \h80

entry_addr(v)  == ENTRY_BASE + 64 * v
syscall_entry  == entry_addr(\h30)

\* kernel.s has the entries 0 to 0x2f only; the reads past them find
\* whatever follows the table.
intr_entry_table(v) == IF v < \h30 THEN entry_addr(v) ELSE WILD

idt_desc_make(attr, func) ==
  [func_offset_low_word |-> func % 2^16, selector |-> SELECTOR_K_CODE,
   attribute |-> attr, func_offset_high_word |-> func \div 2^16]

idt ==
  [v \in Vector |-> IF v = INT_SYSCALL
                    THEN idt_desc_make(IDT_DESC_ATTR_DPL3, syscall_entry)
                    ELSE idt_desc_make(IDT_DESC_ATTR_DPL0, intr_entry_table(v))]

Target(gate) == gate.func_offset_high_word * 2^16 + gate.func_offset_low_word

exception_init == [v \in Vector |-> "general_intr_handler"]

intr_handler_register(table, v, func) == [table EXCEPT ![v] = func]

timer_init(table) == intr_handler_register(table, \h20, "intr_timer_handler")
keyboard_init(table) ==
  intr_handler_register(table, \h21, "intr_keyboard_handler")

\* In the order of init_all.
idt_table == keyboard_init(timer_init(exception_init))

PID_GET == 0
syscall_table == [n \in {PID_GET} |-> "sys_pid_get"]

\* general_intr_handler spins but for the two vectors of spurious interrupts.
HandlerReturns(func, v) ==
  func = "general_intr_handler" => v \in {\h27, \h2F}

-----------------------------------------------------------------------------
(* The controllers: m is the master, s the slave on its line 2             *)

Irq == 0 .. 7
Bits(b) == {i \in Irq : (b \div <<1, 2, 4, 8, 16, 32, 64, 128>>[i + 1]) % 2 = 1}

\* As the BIOS leaves them.
pics_reset ==
  [m |-> [icw |-> 0, base |-> \h08, imr |-> {}, irr |-> {}, isr |-> {}],
   s |-> [icw |-> 0, base |-> \h70, imr |-> {}, irr |-> {}, isr |-> {}]]

\* Bit 4 starts an initialisation; 0x20 ends the most urgent service.
ctrl_write(pic, b) ==
  IF 4 \in Bits(b)
  THEN [pic EXCEPT !.icw = 2, !.imr = {}, !.irr = {}, !.isr = {}]
  ELSE [pic EXCEPT !.isr = IF @ = {} THEN {} ELSE @ \ {Min(@)}]

data_write(pic, b) ==
  CASE pic.icw = 2 -> [pic EXCEPT !.icw = 3, !.base = b - (b % 8)]
    [] pic.icw = 3 -> [pic EXCEPT !.icw = 4]
    [] pic.icw = 4 -> [pic EXCEPT !.icw = 0]
    [] OTHER       -> [pic EXCEPT !.imr = Bits(b)]

outb(pics, port, b) ==
  CASE port = \h20 -> [pics EXCEPT !.m = ctrl_write(@, b)]
    [] port = \h21 -> [pics EXCEPT !.m = data_write(@, b)]
    [] port = \hA0 -> [pics EXCEPT !.s = ctrl_write(@, b)]
    [] port = \hA1 -> [pics EXCEPT !.s = data_write(@, b)]

\* The four initialisation words of one controller.
icws(pics, ctrl, data, vector, cascade) ==
  outb(outb(outb(outb(pics, ctrl, \h11), data, vector), data, cascade), data, \h01)

\* Mutant: the mask is written before the initialisation.
pic_init_mask_first(pics) ==
  LET masked == outb(outb(pics, \h21, \hFC), \hA1, \hFF)
  IN  icws(icws(masked, \h20, \h21, \h20, \h04), \hA0, \hA1, \h28, \h02)

\* All lines but the timer's are masked, then all but those of timer and keyboard.
pic_init(pics) ==
  LET ready == icws(icws(pics, \h20, \h21, \h20, \h04), \hA0, \hA1, \h28, \h02)
      timer == outb(outb(ready, \h21, \hFE), \hA1, \hFF)
  IN  outb(outb(timer, \h21, \hFC), \hA1, \hFF)

\* Mutant: only the slave is told.
eoi_slave_only(pics) == outb(pics, \hA0, \h20)

\* What every entry sends before it calls the handler.
eoi(pics) == outb(outb(pics, \hA0, \h20), \h20, \h20)

\* The lines a controller asks for: latched, not masked, and more urgent than
\* all in service.
Asks(pic) == {i \in pic.irr \ pic.imr : \A j \in pic.isr : i < j}
AsksMaster(pics) ==
  Asks([pics.m EXCEPT !.irr = (@ \ {2}) \cup (IF Asks(pics.s) = {} THEN {} ELSE {2})])

take(pic, i) == [pic EXCEPT !.irr = @ \ {i}, !.isr = @ \cup {i}]

\* The vector the processor gets, and the controllers afterwards.
Acknowledge(pics) ==
  LET i == Min(AsksMaster(pics))
      j == Min(Asks(pics.s))
  IN  IF i = 2
      THEN [vec |-> pics.s.base + j, pics |-> [m |-> take(pics.m, 2), s |-> take(pics.s, j)]]
      ELSE [vec |-> pics.m.base + i, pics |-> [pics EXCEPT !.m = take(@, i)]]
=============================================================================
