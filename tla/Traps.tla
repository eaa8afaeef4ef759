-------------------------------- MODULE Traps ---------------------------------
(***************************************************************************)
(* One process from its first instruction to user mode and through its     *)
(* traps, word by word on its kernel stack: kernel_thread_entry and        *)
(* process_entry build the frame from which hwi_ret enters user mode;      *)
(* interrupts (VECTOR of kernel.s), blocking (task_trap) and system calls  *)
(* (syscall_entry) push frames and return through them.  The tables of      *)
(* Interrupts are those init_all leaves: it runs with interrupts off, and  *)
(* the first state is that of main() at its intr_enable.                   *)
(*                                                                         *)
(* An address is the number of a word in the page of the TCB, TOP one past *)
(* its last word.  cpu holds the registers of the process as they were     *)
(* when it last ran; while it does not run, other threads do, and only     *)
(* interrupts and esp0 matter of what they do.  The code is compiled       *)
(* without optimisation, so every use of stack_top reads memory.           *)
(***************************************************************************)
EXTENDS Interrupts

CONSTANTS
  TOP,            \* words in the page, less those of the TCB
  ENTRY_WORDS,    \* words kernel_thread_entry, process_entry and
  PROC_WORDS,     \*   target_vaddr_malloc have on the stack
  MALLOC_WORDS,
  PID,            \* the pid of the process
  USER_ESP,       \* target_vaddr_malloc(...) + PG_SIZE
  Line            \* the lines on which devices interrupt, 8 to 15 of the slave

ASSUME TrapsAssumption ==
  /\ {ENTRY_WORDS, PROC_WORDS, MALLOC_WORDS} \subseteq Nat \ {0}
  /\ TOP \in Nat /\ TOP >= 28 + ENTRY_WORDS + PROC_WORDS + MALLOC_WORDS + 17
  /\ {PID, USER_ESP} \subseteq Nat
  /\ Line \subseteq 0 .. 15

VARIABLES
  pics,           \* both interrupt controllers
  esp0,           \* the field of tss
  running,        \* the process has the processor
  cpu,            \* its registers
  mem,            \* the words of its kernel stack
  stack_top,      \* the field of its TCB
  stack, proc_stack,   \* locals of process_entry
  early,          \* history: an interrupt came while stack_top had to stay
  fault

locals == <<stack, proc_stack>>
vars == <<pics, esp0, running, cpu, mem, stack_top, locals, early, fault>>

-----------------------------------------------------------------------------
(* Frames                                                                  *)

ALL_SAVE_FLAG  == 0
FAST_SAVE_FLAG == 1

intr_stack ==
  <<"save_flag", "edi", "esi", "ebp", "esp_dummy", "ebx", "edx", "ecx", "eax",
    "gs", "fs", "es", "ds", "err_code", "eip", "cs", "eflags", "esp", "ss">>

thread_stack ==
  <<"save_flag", "ebp", "ebx", "edi", "esi", "eip", "unused_ret_addr", "func",
    "func_arg">>

Gpr == {"edi", "esi", "ebp", "ebx", "edx", "ecx", "eax"}
Segment == {"gs", "fs", "es", "ds"}
Register == Gpr \cup Segment \cup {"eip", "cs", "eflags", "esp", "ss"}

offset(layout, name) == (CHOOSE i \in DOMAIN layout : layout[i] = name) - 1

\* The memory with a frame at address a whose fields have the values of f.
store(m, a, layout, f) ==
  [w \in DOMAIN m |-> IF w - a + 1 \in DOMAIN layout
                      THEN f[layout[w - a + 1]] ELSE m[w]]

field(m, a, layout, name) == m[a + offset(layout, name)]

\* The processor finds the stack for traps of a process: the TSS through its
\* descriptor, and the fields tss_esp0_update and tss_init have set in it.
TssFound ==
  LET d == gdt[SELECTOR_TSS \div 8]
  IN  /\ Type(d) = 9 /\ Base(d) = TSS_ADDR
      /\ struct_tss[(TSS_ESP0_AT \div 4) + 1] = "esp0"
      /\ Loadable(tss_word(TSS_SS0_AT), 2, 0)

\* The words an interrupt pushes: two less when it comes in the kernel.
pushed == IF Rpl(cpu.cs) = 3 THEN intr_stack ELSE SubSeq(intr_stack, 1, 17)
pushed_at == (IF Rpl(cpu.cs) = 3 THEN esp0 ELSE cpu.esp) - Len(pushed)

\* The registers c as the fields of a frame.
saved(c, flag) ==
  [n \in Register \cup {"save_flag", "err_code", "esp_dummy"} |->
     CASE n = "save_flag" -> flag
       [] n = "err_code"  -> 0
       [] n = "esp_dummy" -> c.esp
       [] OTHER           -> c[n]]

saved_regs == saved(cpu, ALL_SAVE_FLAG)

\* hwi_ret and all_load: the registers popped from the frame at a.
all_load(m, a) ==
  LET user == Rpl(field(m, a, intr_stack, "cs")) = 3
  IN  [r \in Register |->
         CASE r = "esp" /\ ~user -> a + 17
           [] r = "ss" /\ ~user  -> SELECTOR_K_DATA
           [] OTHER              -> field(m, a, intr_stack, r)]

EFLAGS_MBS  == 2
EFLAGS_IF_1 == 512
IntrOn(c) == (c.eflags \div EFLAGS_IF_1) % 2 = 1

\* The processor refuses to return to segments of the wrong kind.
IretFault(c) ==
  \/ ~Loadable(c.cs, 8, Rpl(c.cs))
  \/ ~Loadable(c.ss, 2, Rpl(c.cs))

\* Words below the stack pointer are dead; they are forgotten.
Forget(m, esp) == [w \in DOMAIN m |-> IF w < esp THEN 0 ELSE m[w]]

-----------------------------------------------------------------------------
(* Places in the code: what eip is                                         *)

ENTRY      == 1001   \* kernel_thread_entry, interrupts still off
INTR_ON    == 1002   \* there, after intr_enable
PROCESS    == 1003   \* process_entry, before it reads stack_top
STACK_READ == 1004   \* before it stores stack_top
STORED     == 1005   \* before it reads stack_top again
PLACED     == 1006   \* proc_stack has its value
BUILT      == 1007   \* before target_vaddr_malloc
MALLOC     == 1008   \* in target_vaddr_malloc
BLOCKED    == 1009   \* behind task_trap in thread_block
FILLED     == 1010   \* the frame is complete
HWI_RET    == 1011   \* in hwi_ret
USER       == 3001   \* the first instruction of the process
CALLING    == 3002   \* at the int $0x80 of syscall0
PRINTING   == 3003   \* at an out instruction of put_int
SPINNING   == 3004

\* Where an interrupt changes the stack_top that proc_stack is taken from.
Window == {INTR_ON, PROCESS, STORED}

\* The registers c at another place.
moved(c, eip, esp, eflags) == [c EXCEPT !.eip = eip, !.esp = esp, !.eflags = eflags]

\* The registers c after code that uses the general ones.
Scratch(c, base) ==
  [r \in Register |-> IF r \in Gpr THEN base + offset(intr_stack, r) ELSE c[r]]

\* Mutant: no room is kept for the frame of process_entry.
thread_stack_init_no_room == TOP - Len(thread_stack)

\* thread_stack_init keeps room for an intr_stack above the thread_stack.
thread_stack_init == TOP - Len(intr_stack) - Len(thread_stack)

\* cpu is what the first context_load is to give the process.
Init ==
  /\ \E irr \in SUBSET (Line \cap Irq) :
       pics = pic_init([pics_reset EXCEPT !.m.irr = irr])
  /\ esp0 = 0
  /\ running = FALSE
  /\ stack_top = thread_stack_init
  /\ mem = store([w \in 0 .. TOP - 1 |-> 0], stack_top, thread_stack,
               [save_flag |-> FAST_SAVE_FLAG, ebp |-> 0, ebx |-> 0, edi |-> 0,
                esi |-> 0, eip |-> ENTRY, unused_ret_addr |-> 0,
                func |-> PROCESS, func_arg |-> USER])
  /\ cpu = [[r \in Register |-> 0] EXCEPT
              !.eip = ENTRY, !.esp = stack_top + 6, !.eflags = EFLAGS_MBS,
              !.cs = SELECTOR_K_CODE, !.ss = SELECTOR_K_DATA]
  /\ stack = 0 /\ proc_stack = 0
  /\ early = FALSE
  /\ fault = "none"

-----------------------------------------------------------------------------
(* Interrupts and switches                                                 *)

\* A device raises its line, at any time.
Raise(i) ==
  /\ pics' = IF i < 8 THEN [pics EXCEPT !.m.irr = @ \cup {i}]
                      ELSE [pics EXCEPT !.s.irr = @ \cup {i - 8}]
  /\ UNCHANGED <<esp0, running, cpu, mem, stack_top, locals, early, fault>>

\* The VECTOR entry for v: save the registers, tell the controllers, call the
\* handler, and go to the scheduler, which may choose any thread.
Interrupt(v, controllers) ==
  /\ fault = "none"
  /\ running => IntrOn(cpu)
  /\ IF running
     THEN /\ mem' = store(mem, pushed_at, pushed, saved_regs)
          /\ stack_top' = pushed_at
          /\ early' = (early \/ cpu.eip \in Window)
     ELSE UNCHANGED <<mem, stack_top, early>>
  /\ running' = FALSE
  /\ pics' = eoi(controllers)
  /\ fault' = CASE ~TssFound                           -> "wild"
                [] Target(idt[v]) # entry_addr(v)      -> "wild"
                [] ~HandlerReturns(idt_table[v], v)    -> "spin"
                [] OTHER                               -> "none"
  /\ UNCHANGED <<esp0, cpu, locals>>

Deliver ==
  /\ AsksMaster(pics) # {}
  /\ LET a == Acknowledge(pics) IN Interrupt(a.vec, a.pics)

\* A line that falls back before the acknowledge.
Spurious == Interrupt(pics.m.base + 7, pics)

\* Another process runs: process_activate names its kernel stack.
OtherProcess ==
  /\ ~running /\ fault = "none"
  /\ esp0' = 0
  /\ UNCHANGED <<pics, running, cpu, mem, stack_top, locals, early, fault>>

\* The end of the page of the TCB.
tss_esp0_update == TOP

\* context_load with what process_activate does before it.
ContextLoad ==
  /\ ~running /\ fault = "none"
  /\ running' = TRUE
  /\ esp0' = tss_esp0_update
  /\ IF mem[stack_top] = ALL_SAVE_FLAG
     THEN /\ cpu' = all_load(mem, stack_top)
          /\ fault' = IF IretFault(cpu') THEN "protection" ELSE "none"
     ELSE LET popped == {"ebp", "ebx", "edi", "esi", "eip"}
          IN  /\ cpu' = [r \in Register |->
                   CASE r \in popped -> field(mem, stack_top, thread_stack, r)
                     [] r = "esp"    -> stack_top + 6
                     [] r = "eflags" -> EFLAGS_MBS
                     [] OTHER        -> cpu[r]]
              /\ UNCHANGED fault
  /\ mem' = Forget(mem, IF Rpl(cpu'.cs) = 3 THEN TOP ELSE cpu'.esp)
  /\ UNCHANGED <<pics, stack_top, locals, early>>

-----------------------------------------------------------------------------
(* The process in the kernel                                               *)

At(place) == running /\ fault = "none" /\ cpu.eip = place

Goto(place) == cpu' = moved(cpu, place, cpu.esp, cpu.eflags)
Keep == UNCHANGED <<pics, esp0, running, early>>

KernelThreadEntry ==
  /\ At(ENTRY)
  /\ cpu' = moved(Scratch(cpu, 100), INTR_ON, cpu.esp - ENTRY_WORDS,
                  EFLAGS_MBS + EFLAGS_IF_1)
  /\ Keep /\ UNCHANGED <<mem, stack_top, locals, fault>>

ProcessEntry ==
  /\ At(INTR_ON)
  /\ cpu' = moved(cpu, PROCESS, cpu.esp - PROC_WORDS, cpu.eflags)
  /\ Keep /\ UNCHANGED <<mem, stack_top, locals, fault>>

StackRead ==
  /\ At(PROCESS)
  /\ stack' = stack_top + Len(thread_stack)
  /\ Goto(STACK_READ)
  /\ Keep /\ UNCHANGED <<mem, stack_top, proc_stack, fault>>

StackStore ==
  /\ At(STACK_READ)
  /\ stack_top' = stack
  /\ Goto(STORED)
  /\ Keep /\ UNCHANGED <<mem, locals, fault>>

ProcStack ==
  /\ At(STORED)
  /\ proc_stack' = stack_top
  /\ Goto(PLACED)
  /\ Keep /\ UNCHANGED <<mem, stack_top, stack, fault>>

\* The place thread_stack_init has kept free.
Reserved == TOP - Len(intr_stack)

\* What process_entry stores at once; esp and ss follow, err_code never does.
kept(n) == field(mem, proc_stack, intr_stack, n)
user_regs ==
  [save_flag |-> ALL_SAVE_FLAG, edi |-> 0, esi |-> 0, ebp |-> 0,
   esp_dummy |-> 0, ebx |-> 0, edx |-> 0, ecx |-> 0, eax |-> 0, gs |-> 0,
   ds |-> SELECTOR_U_DATA, es |-> SELECTOR_U_DATA, fs |-> SELECTOR_U_DATA,
   eip |-> USER, cs |-> SELECTOR_U_CODE, eflags |-> EFLAGS_MBS + EFLAGS_IF_1,
   err_code |-> kept("err_code"), esp |-> kept("esp"), ss |-> kept("ss")]

\* The stores into *proc_stack.  Below the reserved place are the words this
\* call chain uses, or will use when it calls target_vaddr_malloc.
BuildFrame ==
  /\ At(PLACED)
  /\ mem' = store(mem, proc_stack, intr_stack, user_regs)
  /\ Goto(BUILT)
  /\ fault' = IF proc_stack < Reserved THEN "clobbered" ELSE "none"
  /\ Keep /\ UNCHANGED <<stack_top, locals>>

MallocCall ==
  /\ At(BUILT)
  /\ cpu' = moved(cpu, MALLOC, cpu.esp - MALLOC_WORDS, cpu.eflags)
  /\ Keep /\ UNCHANGED <<mem, stack_top, locals, fault>>

\* The mutex of the user pool is taken: thread_block, task_trap.  The words
\* are its argument, the return address and the five that it pushes.
TaskTrap ==
  /\ At(MALLOC)
  /\ cpu' = moved(cpu, BLOCKED, cpu.esp - 1, EFLAGS_MBS)
  /\ stack_top' = cpu.esp - 7
  /\ mem' = store(mem, stack_top', SubSeq(thread_stack, 1, 6), saved(cpu', FAST_SAVE_FLAG))
  /\ running' = FALSE
  /\ UNCHANGED <<pics, esp0, locals, early, fault>>

\* Woken: thread_block restores the interrupt flag, sem_down tries again.
ThreadResume ==
  /\ At(BLOCKED)
  /\ cpu' = moved(cpu, MALLOC, cpu.esp + 1, EFLAGS_MBS + EFLAGS_IF_1)
  /\ Keep /\ UNCHANGED <<mem, stack_top, locals, fault>>

MallocReturn ==
  /\ At(MALLOC)
  /\ mem' = [mem EXCEPT ![proc_stack + offset(intr_stack, "esp")] = USER_ESP,
                        ![proc_stack + offset(intr_stack, "ss")] = SELECTOR_U_DATA]
  /\ cpu' = moved(cpu, FILLED, cpu.esp + MALLOC_WORDS, cpu.eflags)
  /\ Keep /\ UNCHANGED <<stack_top, locals, fault>>

JumpHwiRet ==
  /\ At(FILLED)
  /\ cpu' = moved(cpu, HWI_RET, proc_stack, cpu.eflags)
  /\ Keep /\ UNCHANGED <<mem, stack_top, locals, fault>>

\* One instruction of hwi_ret before its iret, with interrupts on: popad
\* takes eight words, the others one.
HwiRet ==
  LET i == cpu.esp - proc_stack
      n == IF i = 1 THEN 8 ELSE 1
      popped == {intr_stack[k] : k \in i + 1 .. i + n} \cap (Gpr \cup Segment)
  IN  /\ At(HWI_RET)
      /\ i < offset(intr_stack, "eip")
      /\ cpu' = [r \in Register |->
                   CASE r \in popped -> field(mem, proc_stack, intr_stack, r)
                     [] r = "esp"    -> cpu.esp + n
                     [] OTHER        -> cpu[r]]
      /\ Keep /\ UNCHANGED <<mem, stack_top, locals, fault>>

Iret ==
  /\ At(HWI_RET)
  /\ cpu.esp - proc_stack = offset(intr_stack, "eip")
  /\ cpu' = [r \in Register |->
               IF r \in {"eip", "cs", "eflags", "esp", "ss"}
               THEN field(mem, proc_stack, intr_stack, r) ELSE cpu[r]]
  /\ fault' = IF IretFault(cpu') THEN "protection" ELSE "none"
  /\ mem' = Forget(mem, TOP)
  /\ Keep /\ UNCHANGED <<stack_top, locals>>

-----------------------------------------------------------------------------
(* The process in user mode: put_int(pid_get())                            *)

\* Any code before the system call, which leaves its number in eax.
UserCode ==
  /\ At(USER)
  /\ cpu' = moved([Scratch(cpu, 200) EXCEPT !.eax = PID_GET], CALLING, cpu.esp,
                  cpu.eflags)
  /\ Keep /\ UNCHANGED <<mem, stack_top, locals, fault>>

\* Mutant: the result goes one word too low.
syscall_result_at_off_by_one(esp) == esp + 8

\* mov [esp + 9 * 4], eax: above the vector number and eight fields.
syscall_result_at(esp) == esp + 9

\* syscall_entry, with interrupts off to its end.  It leaves stack_top alone
\* and returns through hwi_ret, not through the scheduler.
Syscall ==
  LET gate == idt[INT_SYSCALL]
      a == pushed_at
      called == store(mem, a, pushed,
                      saved(moved(cpu, PRINTING, cpu.esp, cpu.eflags), ALL_SAVE_FLAG))
      done == [called EXCEPT ![syscall_result_at(a - 1)] = PID]
  IN  /\ At(CALLING)
      /\ CASE Dpl(gate.attribute) < Rpl(cpu.cs) ->
                fault' = "protection" /\ UNCHANGED cpu
           [] ~TssFound \/ Target(gate) # syscall_entry ->
                fault' = "wild" /\ UNCHANGED cpu
           [] cpu.eax \notin DOMAIN syscall_table ->
                fault' = "null_call" /\ UNCHANGED cpu
           [] OTHER ->
                /\ cpu' = all_load(done, a)
                /\ fault' = IF IretFault(cpu') THEN "protection" ELSE "none"
      /\ Keep /\ UNCHANGED <<mem, stack_top, locals>>

\* What decides whether a process may use a port: two bytes of the map must be
\* inside the limit of the TSS, and the bit of the port must be clear.
PortAllowed(port) ==
  LET at == tss_word(TSS_IO_MAP_AT) + (port \div 8)
  IN  /\ at + 1 <= Limit(gdt[SELECTOR_TSS \div 8])
      /\ port % 8 \notin Bits(tss_byte(at))

\* put_int reads and writes the cursor registers.  The word at 102 is the upper
\* half of trace, 0, and not io_base, two bytes behind it: the permission map
\* is the TSS itself and what follows it.
CRT_ADDR_REG == \h3D4
CRT_DATA_REG == \h3D5

PutInt ==
  /\ At(PRINTING)
  /\ IF PortAllowed(CRT_ADDR_REG) /\ PortAllowed(CRT_DATA_REG)
     THEN Goto(SPINNING) /\ UNCHANGED fault
     ELSE fault' = "protection" /\ UNCHANGED cpu
  /\ Keep /\ UNCHANGED <<mem, stack_top, locals>>

\* while (1), panics and exceptions.
Spin ==
  /\ fault # "none" \/ At(SPINNING)
  /\ UNCHANGED vars

Code ==
  \/ KernelThreadEntry \/ ProcessEntry \/ StackRead \/ StackStore \/ ProcStack
  \/ BuildFrame \/ MallocCall \/ TaskTrap \/ ThreadResume \/ MallocReturn
  \/ JumpHwiRet \/ HwiRet \/ Iret \/ UserCode \/ Syscall \/ PutInt

Next ==
  \/ Code \/ Spin
  \/ \E i \in Line : Raise(i)
  \/ Deliver \/ Spurious \/ OtherProcess \/ ContextLoad

Spec == Init /\ [][Next]_vars

\* The processor executes; a process that is ready is chosen again
\* (NoStarvation of Console); an interrupt entry is followed by an instruction
\* of the thread it returns to; and a process that waits for the mutex of the
\* pool gets it in the end.
Fairness ==
  /\ WF_vars(ContextLoad)
  /\ SF_vars(Code)
  /\ SF_vars(MallocReturn)

FairSpec == Spec /\ Fairness

-----------------------------------------------------------------------------

TypeOK ==
  /\ DOMAIN cpu = Register
  /\ stack_top \in 0 .. TOP
  /\ fault \in {"none", "wild", "spin", "protection", "null_call", "clobbered"}

\* Every trap goes to its own entry and handler, and every return is one the
\* processor accepts: tables, controllers and handlers are ready and agree
\* with each other before the first interrupt, and system call, iret and the
\* output of a process pass the protection checks.
TrapsLand == fault \in {"none", "clobbered"}

\* Whenever code runs with interrupts on, no interrupt is in service: each is
\* ended exactly once, also when it was a spurious one of the master (0x27).
\* The slave is wholly masked, so its lines, and a spurious 0x2f, never come.
NothingInService == pics.m.isr = {} /\ pics.s.isr = {}

\* What must survive: all registers after an interrupt; after thread_block and
\* at the start, those a function must preserve.
Live ==
  IF cpu.eip \in {ENTRY, BLOCKED}
  THEN {"ebp", "ebx", "edi", "esi", "eip", "esp", "cs", "ss", "eflags"}
  ELSE Register

\* Traps are invisible: a process that gets the processor back continues with
\* the registers it had, wherever it was, and a system call changes eax to its
\* result and nothing else.
TrapsTransparent ==
  [][/\ ~running /\ running' => \A r \in Live : cpu'[r] = cpu[r]
     /\ At(CALLING) /\ cpu' # cpu =>
          cpu' = [cpu EXCEPT !.eip = PRINTING, !.eax = PID]]_vars

\* The frame for user mode is misplaced exactly when an interrupt came between
\* intr_enable and the last read of stack_top.
MisplacedOnlyWhenEarly ==
  cpu.eip \in {PLACED, BUILT, MALLOC, BLOCKED, FILLED, HWI_RET} =>
    (proc_stack = Reserved <=> ~early)

\* Unless that happens, the process gets to user mode, gets its pid and prints.
ProcessStarts == <>(early \/ At(SPINNING))

\* thread_stack_init: "here room is kept for the user process"; process_entry
\* builds the frame there.
FrameInReservedPlace ==
  cpu.eip \in {PLACED, BUILT, MALLOC, BLOCKED, FILLED, HWI_RET} =>
    proc_stack = Reserved
=============================================================================
