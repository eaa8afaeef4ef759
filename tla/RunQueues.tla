------------------------------- MODULE RunQueues ------------------------------
(***************************************************************************)
(* What Scheduler and Sync say of the queues, as a specification: the run  *)
(* queues and the waiters of a semaphore are sequences of threads, rq_mask *)
(* is a set of priorities, and the next thread is picked at once.  Every   *)
(* step is made of operators of those two modules.                         *)
(***************************************************************************)
EXTENDS Sync

VARIABLES
  s,     \* the fields rq, rq_mask, priority, running and all_list of SchedState
  sem,   \* a semaphore
  at     \* "boot", "run", "left": out of its queue to change priority, "pick"

vars == <<s, sem, at>>

Init ==
  /\ s = [rq |-> [p \in Prio |-> << >>], rq_mask |-> {}, running |-> NULL,
          priority |-> [t \in Thread |-> PRIO_NUM - 1], all_list |-> << >>]
  /\ sem = sem_init(0)
  /\ at = "boot"

\* A thread enters the queue of its priority and the list of all threads.
Enter(r, t) ==
  [scheduler_rq_join_only(r, t) EXCEPT !.all_list = list_push_back(@, t)]

IdleThreadMake ==
  /\ at = "boot"
  /\ s' = Enter([s EXCEPT !.running = idle], idle)
  /\ at' = "run"
  /\ UNCHANGED sem

Running == at = "run" /\ s.running # NULL

ThreadRun(t, prio) ==
  /\ Running
  /\ ~Contains(s.all_list, t)
  /\ s' = Enter([s EXCEPT !.priority[t] = prio], t)
  /\ UNCHANGED <<sem, at>>

SemDown ==
  /\ Running
  /\ sem' = sem_down_wait(sem, s.running)
  /\ s' = scheduler_rq_leave_only(s, s.running)
  /\ at' = "pick"

SemUp ==
  /\ Running
  /\ sem.waiters # << >>
  /\ s' = scheduler_rq_jump_only(s, Head(sem.waiters))
  /\ sem' = [sem EXCEPT !.waiters = list_pop_front(@)]
  /\ UNCHANGED at

Slice ==
  /\ Running
  /\ s' = scheduler_rq_leave_only(s, s.running)
  /\ at' = "left"
  /\ UNCHANGED sem

Requeue ==
  /\ at = "left"
  /\ s' = scheduler_rq_join_only(thread_prio_change(s, s.running), s.running)
  /\ at' = "pick"
  /\ UNCHANGED sem

Pick ==
  /\ at = "pick"
  /\ s' = [s EXCEPT !.running = next_thread_pick(s)]
  /\ at' = "run"
  /\ UNCHANGED sem

Next ==
  \/ IdleThreadMake
  \/ \E t \in Thread, prio \in Prio : ThreadRun(t, prio)
  \/ SemDown \/ SemUp \/ Slice \/ Requeue \/ Pick

Spec == Init /\ [][Next]_vars
=============================================================================
