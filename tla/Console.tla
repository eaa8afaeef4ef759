------------------------------- MODULE Console --------------------------------
(***************************************************************************)
(* The system main() builds: two kernel threads and the idle thread print  *)
(* their pids for ever through console_put_int, whose calls are serialised *)
(* by console_mutex, while user processes spin.  The timer may interrupt   *)
(* wherever interrupts are on.                                             *)
(*                                                                         *)
(* Each thread runs                                                        *)
(*                                                                         *)
(*   intr_disable(); console_put_int(pid); intr_enable();                  *)
(*   while (1) console_put_int(pid);                                       *)
(*                                                                         *)
(* and console_put_int is mutex_lock, put_int, mutex_unlock.  A step is a  *)
(* stretch of code that nothing can interrupt.                             *)
(***************************************************************************)
EXTENDS Machine, Sync

CONSTANTS
  KThread,      \* the threads main() starts with thread_run
  Process,      \* the ones it starts with process_run
  KTHREAD_PRIO  \* the priority it gives to the former

ASSUME ConsoleAssumption ==
  /\ Thread = {idle} \cup KThread \cup Process
  /\ idle \notin KThread \cup Process
  /\ KThread \cap Process = {}
  /\ KTHREAD_PRIO \in Prio

VARIABLES
  pc,             \* where each thread is, see Location
  int_save,       \* the local of thread_block
  sem_save,       \* the local int_save of sem_down and sem_up
  first,          \* still in the call made with interrupts off
  console_mutex

consoleVars == <<pc, int_save, sem_save, first, console_mutex>>
vars == <<machineVars, consoleVars>>

InLock == {"locked",   \* sem_down: val taken, before intr_set_status
           "hold",     \* mutex_lock: before holder = RUNNING_THREAD
           "put",      \* console_put_int: before and during put_int
           "unlock",   \* before sem_up's intr_disable
           "up"}       \* sem_up: interrupts off

Location ==
  {"none", "boot", "entry",
   "start",    \* thread1: before intr_disable
   "lock",     \* before sem_down's intr_disable
   "down",     \* sem_down: at the while
   "blocked"}  \* sem_down: in thread_block, past schedule()
  \cup InLock \cup
  {"upped",    \* sem_up: val given back, before intr_set_status
   "clear",    \* mutex_unlock: before holder = NULL
   "enable",   \* thread1: before intr_enable
   "process",  \* in process_entry
   "user"}     \* a process in user mode

TypeOK ==
  /\ MachineTypeOK
  /\ pc \in [Thread -> Location]
  /\ int_save \in [Thread -> {INTR_ON, INTR_OFF}]
  /\ sem_save \in [Thread -> {INTR_ON, INTR_OFF}]
  /\ first \in [Thread -> BOOLEAN]
  /\ console_mutex \in Mutex

Init ==
  /\ MachineInit
  /\ pc = [t \in Thread |-> IF t = idle THEN "boot" ELSE "none"]
  /\ int_save = [t \in Thread |-> INTR_OFF]
  /\ sem_save = [t \in Thread |-> INTR_OFF]
  /\ first = [t \in Thread |-> TRUE]
  /\ console_mutex = mutex_init

-----------------------------------------------------------------------------

At(where) ==
  /\ fault = "none"
  /\ pc[running] = where

Goto(where) == pc' = [pc EXCEPT ![running] = where]

\* A step that changes the interrupt flag and nothing else of the machine.
SetIntr(status) ==
  /\ IntrSetStatus(status)
  /\ UNCHANGED <<sched, stack, stack_top, fault>>

-----------------------------------------------------------------------------
(* main() and the start of the threads                                     *)

\* main() creates the kernel threads, then the processes.
Create(t, s) ==
  /\ At("boot")
  /\ pc[t] = "none"
  /\ sched' = s
  /\ thread_stack_init(t)
  /\ pc' = [pc EXCEPT ![t] = "entry"]
  /\ UNCHANGED <<cpu, fault, int_save, sem_save, first, console_mutex>>

ThreadRun(t) == Create(t, thread_run(sched, t, KTHREAD_PRIO))

ProcessRun(t) ==
  /\ \A k \in KThread : pc[k] # "none"
  /\ Create(t, process_run(sched, t))

\* The intr_enable of main(), with all threads created.
Booted ==
  /\ At("boot")
  /\ \A t \in Thread : pc[t] # "none"
  /\ SetIntr(INTR_ON)
  /\ Goto("start")
  /\ UNCHANGED <<int_save, sem_save, first, console_mutex>>

\* Mutant: a new thread starts with interrupts off.
KernelThreadEntryIntrOff ==
  /\ At("entry")
  /\ Goto(IF running \in Process THEN "process" ELSE "start")
  /\ UNCHANGED <<machineVars, int_save, sem_save, first, console_mutex>>

\* kernel_thread_entry calls thread1 or, for a process, process_entry.
KernelThreadEntry ==
  /\ At("entry")
  /\ SetIntr(INTR_ON)
  /\ Goto(IF running \in Process THEN "process" ELSE "start")
  /\ UNCHANGED <<int_save, sem_save, first, console_mutex>>

\* process_entry builds a frame for user mode and drops into it, with
\* interrupts on.  Where it builds the frame is left out, and so is the
\* allocation of the user stack.
ProcessEntry ==
  /\ At("process")
  /\ Goto("user")
  /\ UNCHANGED <<machineVars, int_save, sem_save, first, console_mutex>>

Start ==
  /\ At("start")
  /\ SetIntr(INTR_OFF)
  /\ Goto("lock")
  /\ UNCHANGED <<int_save, sem_save, first, console_mutex>>

-----------------------------------------------------------------------------
(* mutex_lock(&console_mutex)                                              *)

SemDown ==
  /\ At("lock")
  /\ sem_save' = [sem_save EXCEPT ![running] = cpu.intr]
  /\ SetIntr(INTR_OFF)
  /\ Goto("down")
  /\ UNCHANGED <<int_save, first, console_mutex>>

SemTake ==
  /\ At("down")
  /\ console_mutex.sem.val # 0
  /\ console_mutex' = [console_mutex EXCEPT !.sem = sem_down_take(@)]
  /\ Goto("locked")
  /\ UNCHANGED <<machineVars, int_save, sem_save, first>>

SemWait ==
  /\ At("down")
  /\ console_mutex.sem.val = 0
  /\ console_mutex' = [console_mutex EXCEPT !.sem = sem_down_wait(@, running)]
  /\ int_save' = [int_save EXCEPT ![running] = cpu.intr]
  /\ Goto("blocked")
  /\ TaskTrap(thread_block(sched))
  /\ UNCHANGED <<sem_save, first>>

\* Mutant: sem_down tests its counter with an if, not a while.
ThreadResumeNoRecheck ==
  /\ At("blocked")
  /\ SetIntr(int_save[running])
  /\ console_mutex' = [console_mutex EXCEPT !.sem = sem_down_take(@)]
  /\ Goto("locked")
  /\ UNCHANGED <<int_save, sem_save, first>>

ThreadResume ==
  /\ At("blocked")
  /\ SetIntr(int_save[running])
  /\ Goto("down")
  /\ UNCHANGED <<int_save, sem_save, first, console_mutex>>

SemDownReturn ==
  /\ At("locked")
  /\ SetIntr(sem_save[running])
  /\ Goto("hold")
  /\ UNCHANGED <<int_save, sem_save, first, console_mutex>>

MutexLock ==
  /\ At("hold")
  /\ console_mutex' = [console_mutex EXCEPT !.holder = running]
  /\ Goto("put")
  /\ UNCHANGED <<machineVars, int_save, sem_save, first>>

-----------------------------------------------------------------------------
(* put_int, mutex_unlock(&console_mutex) and the loop                      *)

PutInt ==
  /\ At("put")
  /\ Goto("unlock")
  /\ UNCHANGED <<machineVars, int_save, sem_save, first, console_mutex>>

SemUp ==
  /\ At("unlock")
  /\ sem_save' = [sem_save EXCEPT ![running] = cpu.intr]
  /\ SetIntr(INTR_OFF)
  /\ Goto("up")
  /\ UNCHANGED <<int_save, first, console_mutex>>

\* A failed ASSERT ends in panic_spin.
SemGive ==
  /\ At("up")
  /\ LET sem == console_mutex.sem
     IN  IF sem_up_assert(sem, sched)
         THEN /\ sched' = sem_up_wake(sem, sched)
              /\ console_mutex' = [console_mutex EXCEPT !.sem = sem_up_put(@)]
              /\ Goto("upped")
              /\ UNCHANGED fault
         ELSE /\ fault' = "assert"
              /\ UNCHANGED <<sched, console_mutex, pc>>
  /\ UNCHANGED <<cpu, stack, stack_top, int_save, sem_save, first>>

SemUpReturn ==
  /\ At("upped")
  /\ SetIntr(sem_save[running])
  /\ Goto("clear")
  /\ UNCHANGED <<int_save, sem_save, first, console_mutex>>

\* Mutant: the holder is not cleared.
MutexUnlockHolderKept ==
  /\ At("clear")
  /\ Goto(IF first[running] THEN "enable" ELSE "lock")
  /\ UNCHANGED <<machineVars, int_save, sem_save, first, console_mutex>>

MutexUnlock ==
  /\ At("clear")
  /\ console_mutex' = [console_mutex EXCEPT !.holder = NULL]
  /\ Goto(IF first[running] THEN "enable" ELSE "lock")
  /\ UNCHANGED <<machineVars, int_save, sem_save, first>>

\* Mutant: the loop is entered with interrupts off.
EnableForgotten ==
  /\ At("enable")
  /\ first' = [first EXCEPT ![running] = FALSE]
  /\ Goto("lock")
  /\ UNCHANGED <<machineVars, int_save, sem_save, console_mutex>>

Enable ==
  /\ At("enable")
  /\ SetIntr(INTR_ON)
  /\ first' = [first EXCEPT ![running] = FALSE]
  /\ Goto("lock")
  /\ UNCHANGED <<int_save, sem_save, console_mutex>>

-----------------------------------------------------------------------------

TimerIntr ==
  /\ fault = "none"
  /\ Interrupt(intr_timer_handler(sched))
  /\ UNCHANGED consoleVars

\* One step of the running thread's own code.
Code ==
  \/ \E t \in KThread : ThreadRun(t)
  \/ \E t \in Process : ProcessRun(t)
  \/ Booted \/ KernelThreadEntry \/ ProcessEntry \/ Start
  \/ SemDown \/ SemTake \/ SemWait \/ ThreadResume \/ SemDownReturn
  \/ MutexLock \/ PutInt
  \/ SemUp \/ SemGive \/ SemUpReturn \/ MutexUnlock
  \/ Enable

Next == Code \/ TimerIntr

Spec == Init /\ [][Next]_vars

\* The processor executes the code of a thread that has it again and again
\* (a process in user mode only spins), and a tick that arrives while
\* interrupts are off is latched by the interrupt controller and delivered
\* when they are next on.
Fairness ==
  /\ \A t \in Thread :
       []<>(running = t /\ pc[t] # "user")
         => []<><<running = t /\ Code>>_vars
  /\ []<>(cpu.intr = INTR_ON) => []<><<TimerIntr>>_vars

FairSpec == Spec /\ Fairness

-----------------------------------------------------------------------------
(* Safety                                                                  *)

Holders == {t \in Thread : pc[t] \in InLock}

\* At most one thread is between sem_down's decrement and sem_up's increment,
\* so put_int calls never overlap.
MutualExclusion ==
  \A t, u \in Holders : t = u

\* The counter says whether a thread holds the mutex, and the list of waiters
\* holds the blocked threads and no other, each once: the ASSERT in
\* thread_unblock cannot fail and no sleeper is forgotten.
SemaphoreExact ==
  /\ console_mutex.sem.val = IF Holders = {} THEN 1 ELSE 0
  /\ IsInjective(console_mutex.sem.waiters)
  /\ ToSet(console_mutex.sem.waiters)
       = {t \in Thread : sched.status[t] = TASK_BLOCKED}

\* sem_up wakes one waiter and another thread may take the mutex before it
\* runs.  Even so the mutex is never free with sleeping waiters and nobody on
\* the way to take it.
NoLostWakeup ==
  console_mutex.sem.val # 0 /\ console_mutex.sem.waiters # << >> =>
    \E t \in Thread : pc[t] \in {"blocked", "down"}
                      /\ sched.status[t] # TASK_BLOCKED

\* The machine never leaves the code: no ASSERT fails, context_load finds a
\* live frame, and (highest_rq_get) some queue always holds a thread.
NeverFaults == fault = "none"

\* mutex->holder never names a thread that is neither in the mutex nor on the
\* way out of it.  (It may be NULL while the mutex is held.)
HolderAccurate ==
  LET h == console_mutex.holder
  IN  h # NULL => pc[h] \in {"put", "unlock", "up", "upped", "clear"}

-----------------------------------------------------------------------------
(* Refinement                                                              *)

\* Control points of Kernel: everything past the entry of a thread and
\* outside thread_block is its own code.
kernelPc ==
  [t \in Thread |->
     IF pc[t] \in {"none", "boot", "entry", "blocked"} THEN pc[t] ELSE "code"]

K == INSTANCE Kernel WITH pc <- kernelPc

\* The console workload is one of the clients that Kernel allows, so that
\* what is proved there holds here.
ImplementsKernel == K!Spec

-----------------------------------------------------------------------------
(* Liveness                                                                *)

\* Somebody always gets to print again.
PrintsForEver == []<>(\E t \in Thread : pc[t] = "put")

\* The feedback rule starves nobody: a ready thread gets the processor.
NoStarvation ==
  \A t \in Thread :
    sched.status[t] = TASK_READY ~> sched.status[t] = TASK_RUNNING

\* A woken waiter or an interrupted critical section never leaves interrupts
\* off for good.
InterruptsComeBack == []<>(cpu.intr = INTR_ON)
=============================================================================
