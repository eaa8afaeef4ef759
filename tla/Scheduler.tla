------------------------------ MODULE Scheduler ------------------------------
(***************************************************************************)
(* The priority-feedback scheduler of thread/thread.c: the run queues, the *)
(* mask of non-empty queues, the thread control blocks and the operations  *)
(* on them.  Every operator bears the name of the C function it models and *)
(* maps the scheduler state s in which the function is called to the state *)
(* in which it returns, so that calls compose the way they do in the code. *)
(* All of them run with interrupts off, hence atomically.                  *)
(*                                                                         *)
(* s is a record: the fields of struct scheduler, and the fields of the    *)
(* TCBs as functions of the thread.  The intrusive lists of lib/kernel are *)
(* sequences of threads; the rq_mask bitmap is the set of its 1-bits.      *)
(***************************************************************************)
EXTENDS Naturals, Sequences, SequencesExt

CONSTANTS
  Thread,          \* the pages that are or will become TCBs
  idle,            \* the boot thread, which becomes the idle thread
  NULL,            \* the null pointer
  PRIO_NUM,        \* number of priorities; 0 is the most urgent
  MAX_THREAD_NUM   \* number of entries of thread_table

ASSUME SchedulerAssumption ==
  /\ idle \in Thread
  /\ NULL \notin Thread
  /\ PRIO_NUM \in Nat \ {0}
  /\ MAX_THREAD_NUM \in Nat \ {0}

Prio == 0 .. PRIO_NUM - 1
Pid  == 0 .. MAX_THREAD_NUM - 1

TASK_RUNNING == "TASK_RUNNING"
TASK_READY   == "TASK_READY"
TASK_BLOCKED == "TASK_BLOCKED"
NO_TCB       == "NO_TCB"        \* thread_create has not been called on it

Status == {TASK_RUNNING, TASK_READY, TASK_BLOCKED, NO_TCB}

SchedState ==
  [running       : Thread \cup {NULL},
   need_schedule : BOOLEAN,
   rq            : [Prio -> Seq(Thread)],
   rq_mask       : SUBSET Prio,
   status        : [Thread -> Status],
   priority      : [Thread -> Prio],
   ticks         : [Thread -> Nat],
   pg_dir        : [Thread -> Thread \cup {NULL}],
   pid           : [Thread -> Pid],
   thread_table  : [Pid -> Thread \cup {NULL}],
   all_list      : Seq(Thread)]

Created(s) == {t \in Thread : s.status[t] # NO_TCB}
Queued(s)  == {t \in Thread : s.status[t] \in {TASK_RUNNING, TASK_READY}}

-----------------------------------------------------------------------------
(* lib/kernel/list.c on the sequence of the elements between head and tail *)

list_push_back(l, e)  == Append(l, e)
list_push_front(l, e) == Cons(e, l)
list_remove(l, e)     == RemoveAt(l, CHOOSE i \in DOMAIN l : l[i] = e)

ticks_get(prio) == prio \div 3 + 1

-----------------------------------------------------------------------------
(* Entering and leaving the run queue.  The running thread stays queued.   *)

scheduler_rq_join_only(s, t) ==
  LET p == s.priority[t]
  IN  [s EXCEPT !.rq[p] = list_push_back(@, t), !.rq_mask = @ \cup {p}]

scheduler_rq_jump_only(s, t) ==
  LET p == s.priority[t]
  IN  [s EXCEPT !.rq[p] = list_push_front(@, t), !.rq_mask = @ \cup {p}]

\* Mutant: the bit of an emptied queue stays set.
scheduler_rq_leave_only_mask_kept(s, t) ==
  LET p == s.priority[t] IN [s EXCEPT !.rq[p] = list_remove(@, t)]

scheduler_rq_leave_only(s, t) ==
  LET p == s.priority[t]
      q == list_remove(s.rq[p], t)
  IN  [s EXCEPT !.rq[p] = q,
                !.rq_mask = IF q = << >> THEN @ \ {p} ELSE @]

\* Mutant: the priorities are compared the wrong way round.
preempt_check_swapped(s, t) ==
  IF s.priority[s.running] < s.priority[t]
  THEN [s EXCEPT !.need_schedule = TRUE]
  ELSE s

\* Both scheduler_rq_join and scheduler_rq_jump end with this test.
preempt_check(s, t) ==
  IF s.priority[s.running] > s.priority[t]
  THEN [s EXCEPT !.need_schedule = TRUE]
  ELSE s

scheduler_rq_join(s, t) == preempt_check(scheduler_rq_join_only(s, t), t)
scheduler_rq_jump(s, t) == preempt_check(scheduler_rq_jump_only(s, t), t)

scheduler_rq_leave(s, t) ==
  LET s1 == scheduler_rq_leave_only(s, t)
  IN  IF t = s.running THEN [s1 EXCEPT !.need_schedule = TRUE] ELSE s1

-----------------------------------------------------------------------------
(* Creation of threads and processes                                       *)

\* Mutant: a loop that finds nothing leaves its last entry to the new thread.
pid_alloc_takes_last(s, t) ==
  LET free == {i \in Pid : s.thread_table[i] = NULL} \cup {MAX_THREAD_NUM - 1}
  IN  [s EXCEPT !.pid[t] = Min(free), !.thread_table[Min(free)] = t]

\* The first free entry of thread_table; with none left the pid keeps the
\* zero of the memset in thread_tcb_init.
pid_alloc(s, t) ==
  LET free == {i \in Pid : s.thread_table[i] = NULL}
  IN  IF free = {}
      THEN [s EXCEPT !.pid[t] = 0]
      ELSE [s EXCEPT !.pid[t] = Min(free), !.thread_table[Min(free)] = t]

thread_tcb_init(s, t, prio) ==
  pid_alloc([s EXCEPT !.status[t]   = TASK_READY,
                      !.priority[t] = prio,
                      !.ticks[t]    = ticks_get(prio),
                      !.pg_dir[t]   = NULL], t)

publish(s, t) ==
  [scheduler_rq_join(s, t) EXCEPT !.all_list = list_push_back(@, t)]

thread_run(s, t, prio) == publish(thread_tcb_init(s, t, prio), t)

\* page_dir_create: a process owns a page directory, named after its TCB.
process_run(s, t) ==
  publish([thread_tcb_init(s, t, PRIO_NUM - 1) EXCEPT !.pg_dir[t] = t], t)

\* scheduler_init followed by idle_thread_make, which turns the boot thread
\* into the running idle thread of the lowest priority.
thread_all_init ==
  [running       |-> idle,
   need_schedule |-> FALSE,
   rq            |-> [p \in Prio |-> IF p = PRIO_NUM - 1 THEN <<idle>> ELSE << >>],
   rq_mask       |-> {PRIO_NUM - 1},
   status        |-> [t \in Thread |-> IF t = idle THEN TASK_RUNNING ELSE NO_TCB],
   priority      |-> [t \in Thread |-> IF t = idle THEN PRIO_NUM - 1 ELSE 0],
   ticks         |-> [t \in Thread |->
                        IF t = idle THEN ticks_get(PRIO_NUM - 1) ELSE 0],
   pg_dir        |-> [t \in Thread |-> NULL],
   pid           |-> [t \in Thread |-> 0],
   thread_table  |-> [i \in Pid |-> IF i = 0 THEN idle ELSE NULL],
   all_list      |-> <<idle>>]

-----------------------------------------------------------------------------
(* Blocking, waking and the tick                                           *)

\* thread_block up to the call of schedule(), which always switches because
\* scheduler_rq_leave of the running thread has set need_schedule.
thread_block(s) ==
  scheduler_rq_leave([s EXCEPT !.status[s.running] = TASK_BLOCKED], s.running)

thread_unblock(s, t) ==
  scheduler_rq_jump([s EXCEPT !.status[t] = TASK_READY], t)

intr_timer_handler(s) ==
  IF s.ticks[s.running] = 0
  THEN [s EXCEPT !.need_schedule = TRUE]
  ELSE [s EXCEPT !.ticks[s.running] = @ - 1]

-----------------------------------------------------------------------------
(* main_schedule without its final context_load                            *)

\* Mutant: no feedback.
thread_prio_change_none(s, t) == s

thread_prio_change(s, t) == [s EXCEPT !.priority[t] = (@ + 1) % PRIO_NUM]

\* What main_schedule does to a current thread that is still TASK_RUNNING.
requeue(s, cur) ==
  LET s1 == scheduler_rq_join_only(
              thread_prio_change(scheduler_rq_leave_only(s, cur), cur), cur)
  IN  [s1 EXCEPT !.ticks[cur]  = ticks_get(s1.priority[cur]),
                 !.status[cur] = TASK_READY]

\* Mutant: the scan takes the last bit.
highest_rq_get_last(s) == Max(s.rq_mask)

highest_rq_get(s) == Min(s.rq_mask)

\* With no bit set bitmap_scan returns -1 and the code indexes rq[-1]; with
\* an empty list it takes the list's tail for a thread.  NULL stands for both.
next_thread_pick(s) ==
  IF s.rq_mask = {} THEN NULL
  ELSE LET q == s.rq[highest_rq_get(s)]
       IN  IF q = << >> THEN NULL ELSE Head(q)

dispatch(s, next) ==
  IF next = NULL
  THEN [s EXCEPT !.running = NULL]
  ELSE [s EXCEPT !.running = next, !.status[next] = TASK_RUNNING]

main_schedule(s) ==
  IF ~s.need_schedule THEN s
  ELSE LET s1 == [s EXCEPT !.need_schedule = FALSE]
           s2 == IF s1.status[s1.running] = TASK_RUNNING
                 THEN requeue(s1, s1.running)
                 ELSE s1
       IN  dispatch(s2, next_thread_pick(s2))
=============================================================================
