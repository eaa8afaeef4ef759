------------------------------- MODULE Kernel --------------------------------
(***************************************************************************)
(* The thread system under its most general client.  main() creates        *)
(* threads and processes with interrupts off and then enables them; from   *)
(* then on the running thread may at any moment disable or enable          *)
(* interrupts, block, or wake a blocked thread, and the timer or a device  *)
(* whose handler may wake a blocked thread may interrupt it.  Whatever the *)
(* synchronisation code built on thread_block and thread_unblock does is   *)
(* one of these behaviours, as long as no handler blocks.                  *)
(***************************************************************************)
EXTENDS Machine

VARIABLES
  pc,        \* where each thread is in the code, see Location
  int_save   \* thread_block's local variable of that name

vars == <<sched, cpu, stack, stack_top, fault, pc, int_save>>

Location == {"none",      \* no TCB yet
             "boot",      \* in main(), before its first intr_enable
             "entry",     \* before the intr_enable of kernel_thread_entry
             "code",      \* in the thread's own code
             "blocked"}   \* in thread_block, past the call of schedule()

TypeOK ==
  /\ MachineTypeOK
  /\ pc \in [Thread -> Location]
  /\ int_save \in [Thread -> {INTR_ON, INTR_OFF}]

Init ==
  /\ MachineInit
  /\ pc = [t \in Thread |-> IF t = idle THEN "boot" ELSE "none"]
  /\ int_save = [t \in Thread |-> INTR_OFF]

-----------------------------------------------------------------------------

\* The running thread is at one of the locations in where.
At(where) ==
  /\ fault = "none"
  /\ pc[running] \in where

Goto(where) == pc' = [pc EXCEPT ![running] = where]

\* thread_create, on a page that is not yet a TCB, followed by the part that
\* differs between threads and processes.
Create(t, s) ==
  /\ At({"boot"})
  /\ pc[t] = "none"
  /\ sched' = s
  /\ thread_stack_init(t)
  /\ pc' = [pc EXCEPT ![t] = "entry"]
  /\ UNCHANGED <<cpu, fault, int_save>>

ThreadRun(t, prio) == Create(t, thread_run(sched, t, prio))

ProcessRun(t) == Create(t, process_run(sched, t))

\* intr_enable in main() or in a thread's own code.
IntrEnable ==
  /\ At({"boot", "code"})
  /\ cpu.intr = INTR_OFF
  /\ IntrSetStatus(INTR_ON)
  /\ Goto("code")
  /\ UNCHANGED <<sched, stack, stack_top, fault, int_save>>

IntrDisable ==
  /\ At({"code"})
  /\ cpu.intr = INTR_ON
  /\ IntrSetStatus(INTR_OFF)
  /\ UNCHANGED <<sched, stack, stack_top, fault, pc, int_save>>

\* kernel_thread_entry: the first thing a new thread does.
KernelThreadEntry ==
  /\ At({"entry"})
  /\ IntrSetStatus(INTR_ON)
  /\ Goto("code")
  /\ UNCHANGED <<sched, stack, stack_top, fault, int_save>>

\* thread_block up to and including the switch away from the thread.
ThreadBlock ==
  /\ At({"code"})
  /\ int_save' = [int_save EXCEPT ![running] = cpu.intr]
  /\ Goto("blocked")
  /\ TaskTrap(thread_block(sched))

\* The rest of thread_block, once schedule() has returned.
ThreadResume ==
  /\ At({"blocked"})
  /\ IntrSetStatus(int_save[running])
  /\ Goto("code")
  /\ UNCHANGED <<sched, stack, stack_top, fault, int_save>>

\* thread_unblock, whose callers (sem_up, ioq_signal) have interrupts off.
ThreadUnblock(t) ==
  /\ At({"code"})
  /\ cpu.intr = INTR_OFF
  /\ sched.status[t] = TASK_BLOCKED
  /\ sched' = thread_unblock(sched, t)
  /\ UNCHANGED <<cpu, stack, stack_top, fault, pc, int_save>>

TimerIntr ==
  /\ fault = "none"
  /\ Interrupt(intr_timer_handler(sched))
  /\ UNCHANGED <<pc, int_save>>

\* A device interrupt whose handler wakes a blocked thread.
DeviceIntr(t) ==
  /\ fault = "none"
  /\ sched.status[t] = TASK_BLOCKED
  /\ Interrupt(thread_unblock(sched, t))
  /\ UNCHANGED <<pc, int_save>>

\* A device interrupt whose handler wakes nobody.
QuietIntr ==
  /\ fault = "none"
  /\ Interrupt(sched)
  /\ UNCHANGED <<pc, int_save>>

\* Once it executes no code of ours the machine is left alone.
Halted == fault # "none" /\ UNCHANGED vars

Next ==
  \/ \E t \in Thread, prio \in Prio : ThreadRun(t, prio)
  \/ \E t \in Thread : ProcessRun(t)
  \/ IntrEnable
  \/ IntrDisable
  \/ KernelThreadEntry
  \/ ThreadBlock
  \/ ThreadResume
  \/ \E t \in Thread : ThreadUnblock(t)
  \/ TimerIntr
  \/ \E t \in Thread : DeviceIntr(t)
  \/ QuietIntr
  \/ Halted

Spec == Init /\ [][Next]_vars

-----------------------------------------------------------------------------
(* Safety                                                                  *)

\* Every run queue holds exactly the runnable threads of its priority, the
\* running one included, and each of them once (thread.h: "running thread
\* still in rq").
RunQueueExact ==
  \A p \in Prio :
    /\ IsInjective(sched.rq[p])
    /\ ToSet(sched.rq[p]) = {t \in Queued(sched) : sched.priority[t] = p}

\* rq_mask, from which next_thread_pick finds its queue, has the bit of a
\* priority set exactly when that queue is not empty.
MaskExact ==
  \A p \in Prio : p \in sched.rq_mask <=> sched.rq[p] # << >>

\* At most one TCB says TASK_RUNNING, and it is the one the scheduler runs.
OneRunning ==
  \A t \in Thread : sched.status[t] = TASK_RUNNING <=> t = running

\* The queues, the bitmap that summarises them, the statuses and priorities in
\* the TCBs and the scheduler's running_thread are four accounts of who may
\* run, each updated by hand; after every operation they agree.
SchedulerConsistent == RunQueueExact /\ MaskExact /\ OneRunning

\* No preemption is forgotten: whenever a more urgent thread than the running
\* one is runnable, need_schedule is set, so the next interrupt switches.
NoMissedPreemption ==
  fault = "none" =>
    \A t \in Queued(sched) :
      sched.priority[t] < sched.priority[running] => sched.need_schedule

\* Every thread that does not run has its innermost live frame in stack_top,
\* so context_load resumes it where it was left: by an iret into its own code
\* if an interrupt stopped it there, by a return into kernel_thread_entry or
\* thread_block otherwise.  The running thread's kernel stack holds no frame.
SavedContextLive ==
  fault = "none" =>
    \A t \in Created(sched) :
      IF t = running THEN stack[t] = << >>
      ELSE /\ stack[t] = IF pc[t] = "code" THEN <<"ALL">> ELSE <<"FAST">>
           /\ stack_top[t] = 1

\* Interrupts are off in main() before its intr_enable, from the switch to a
\* new thread until kernel_thread_entry, and from the switch to a woken one
\* until thread_block restores the flag (the comment in thread_block).
SwitchedInWithIntrOff ==
  fault = "none" /\ pc[running] # "code" => cpu.intr = INTR_OFF

\* context_load never pops a frame that is not the innermost live one.
NoStaleFrame == fault # "stale_frame"

\* The processor translates addresses with the page directory of the running
\* thread, and takes interrupts from a running process on that process's own
\* kernel stack.
AddressSpaceOfRunning ==
  fault = "none" =>
    /\ cpu.cr3 = sched.pg_dir[running]
    /\ sched.pg_dir[running] # NULL => cpu.esp0 = running

\* Pids are given in the order of creation, and PID2TCB inverts them.  When
\* thread_table is full, pid_alloc leaves a new thread with pid 0, which is that
\* of the idle thread: PID2TCB does not find such a thread, and pid_get tells
\* it what it tells the others, but no entry is ever taken from its owner.
PidTable ==
  LET all == sched.all_list
  IN  /\ IsInjective(all) /\ ToSet(all) = Created(sched)
      /\ \A i \in DOMAIN all :
           sched.pid[all[i]] = IF i <= MAX_THREAD_NUM THEN i - 1 ELSE 0
      /\ \A i \in Pid :
           sched.thread_table[i] = IF i < Len(all) THEN all[i + 1] ELSE NULL

\* A switch gives the processor to a thread of the most urgent priority.
DispatchMostUrgent ==
  [][running' # running /\ running' # NULL =>
       \A t \in Queued(sched') :
         sched'.priority[running'] <= sched'.priority[t]]_vars

=============================================================================
