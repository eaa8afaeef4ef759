------------------------------- MODULE Machine -------------------------------
(***************************************************************************)
(* The processor under the scheduler: interrupt flag, page directory       *)
(* register, TSS stack pointer, and the kernel stacks on which kernel.s    *)
(* and switch.s save and load contexts.                                    *)
(*                                                                         *)
(* stack[t] holds the frames that are live on the kernel stack of t.  A    *)
(* frame is ALL (pushed by an interrupt entry of kernel.s) or FAST (pushed *)
(* by task_trap, or built by thread_stack_init).  stack_top[t] is the TCB  *)
(* field of that name, as the number of frames at and above it.  Whatever  *)
(* lies between two frames on the real stack is left out.                  *)
(***************************************************************************)
EXTENDS Scheduler

VARIABLES
  sched,      \* the scheduler state, a record of SchedState
  cpu,        \* [intr, cr3, esp0]
  stack,      \* live frames of each kernel stack, innermost last
  stack_top,  \* TCB field stack_top, as a depth in stack
  fault       \* why the machine has left the code, or "none"

machineVars == <<sched, cpu, stack, stack_top, fault>>

INTR_ON  == "INTR_ON"
INTR_OFF == "INTR_OFF"
Frame    == {"ALL", "FAST"}
Fault    == {"none",          \* executing the code
             "no_thread",     \* next_thread_pick found all queues empty
             "stale_frame",   \* context_load popped a frame that was not live
             "assert"}        \* panic_spin: an ASSERT failed

MachineTypeOK ==
  /\ sched \in SchedState
  /\ cpu \in [intr : {INTR_ON, INTR_OFF}, cr3 : Thread \cup {NULL},
              esp0 : Thread \cup {NULL}]
  /\ stack \in [Thread -> Seq(Frame)]
  /\ stack_top \in [Thread -> Nat]
  /\ fault \in Fault

running == sched.running

\* cr3 = NULL is the kernel's own page directory; esp0 = NULL is the zeroed TSS.
MachineInit ==
  /\ sched = thread_all_init
  /\ cpu = [intr |-> INTR_OFF, cr3 |-> NULL, esp0 |-> NULL]
  /\ stack = [t \in Thread |-> << >>]
  /\ stack_top = [t \in Thread |-> 0]
  /\ fault = "none"

-----------------------------------------------------------------------------

\* Mutant: a kernel thread keeps the page directory of the thread before it.
process_activate_lazy(c, s, t) ==
  IF s.pg_dir[t] = NULL THEN c ELSE [c EXCEPT !.cr3 = s.pg_dir[t], !.esp0 = t]

\* page_dir_activate loads the page directory of every thread, the TSS is
\* only updated for one that has a directory of its own.
process_activate(c, s, t) ==
  [c EXCEPT !.cr3 = s.pg_dir[t],
            !.esp0 = IF s.pg_dir[t] # NULL THEN t ELSE @]

\* context_load(next): pop the frame stack_top points to.  all_load ends with
\* iret, which restores the flags of code that could be interrupted; fast_load
\* leaves the interrupt flag as it is.
context_load(c, stk, top, next) ==
  IF top[next] = Len(stk[next]) /\ stk[next] # << >>
  THEN /\ stack' = [stk EXCEPT ![next] = Front(@)]
       /\ cpu' = IF Last(stk[next]) = "ALL" THEN [c EXCEPT !.intr = INTR_ON]
                                            ELSE c
       /\ UNCHANGED fault
  ELSE /\ stack' = stk
       /\ cpu' = c
       /\ fault' = "stale_frame"

\* main_schedule(), called with interrupts off on scheduler state s and the
\* stacks stk, top; it never returns.
MainSchedule(s, stk, top) ==
  LET s1   == main_schedule(s)
      next == s1.running
      off  == [cpu EXCEPT !.intr = INTR_OFF]
      c    == IF s.need_schedule /\ next # NULL
              THEN process_activate(off, s1, next) ELSE off
  IN  /\ sched' = s1
      /\ stack_top' = top
      /\ IF next = NULL
         THEN /\ stack' = stk
              /\ cpu' = c
              /\ fault' = "no_thread"
         ELSE context_load(c, stk, top, next)

\* Entry and tail of the VECTOR macro around a handler that turns the
\* scheduler state into s: save an ALL frame, run the handler, and leave
\* through hwi_tail_handle.
Interrupt(s) ==
  /\ cpu.intr = INTR_ON
  /\ LET d == Len(stack[running]) + 1
     IN  MainSchedule(s, [stack EXCEPT ![running] = Append(@, "ALL")],
                         [stack_top EXCEPT ![running] = d])

\* Mutant: task_trap does not store esp in the TCB.
TaskTrapTopNotSaved(s) ==
  MainSchedule(s, [stack EXCEPT ![running] = Append(@, "FAST")], stack_top)

\* schedule() from thread_block: task_trap saves a FAST frame.
TaskTrap(s) ==
  LET d == Len(stack[running]) + 1
  IN  MainSchedule(s, [stack EXCEPT ![running] = Append(@, "FAST")],
                      [stack_top EXCEPT ![running] = d])

\* thread_stack_init: the FAST frame that first enters kernel_thread_entry.
thread_stack_init(t) ==
  /\ stack' = [stack EXCEPT ![t] = <<"FAST">>]
  /\ stack_top' = [stack_top EXCEPT ![t] = 1]

IntrSetStatus(status) == cpu' = [cpu EXCEPT !.intr = status]
=============================================================================
