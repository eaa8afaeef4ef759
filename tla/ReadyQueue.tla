------------------------------- MODULE ReadyQueue -----------------------------
(***************************************************************************)
(* The queues of the scheduler as they are in memory: struct lists through *)
(* ready_tag, pend_tag and all_list_tag of the TCBs, the bytes of rq_mask  *)
(* and the loop of bitmap_scan (Bitmap, with bit_num for PRIO_NUM), under  *)
(* the calls that creating, blocking, waking and rescheduling threads make *)
(* on them.  The handlers around them are those of Kernel; here one runs   *)
(* to its end with interrupts off, and a thread may wait, be woken and be  *)
(* preempted at any time.                                                  *)
(***************************************************************************)
EXTENDS Bitmap, List

CONSTANTS Thread, idle

VARIABLES
  links,      \* the prev and next fields of all list elements
  priority,   \* the field of the TCB
  running,    \* running_thread
  at          \* "boot", then "run", "left" or "pick": see main_schedule

tcbVars == <<links, priority, running, at>>
rqVars == <<vars, tcbVars>>

Prio == Bit
THIS_RQ(prio) == <<"rq", prio>>
waiters == <<"waiters", 0>>
all_list == <<"all_list", 0>>
lists == {THIS_RQ(p) : p \in Prio} \cup {waiters, all_list}

ready_tag(t) == <<"ready_tag", t>>
pend_tag(t) == <<"pend_tag", t>>
all_list_tag(t) == <<"all_list_tag", t>>
tags == UNION {{ready_tag(t), pend_tag(t), all_list_tag(t)} : t \in Thread}

\* The TCB around an element.
ELEM2ENTRY(e) == e[2]

-----------------------------------------------------------------------------

scheduler_rq_join_only(m, t, prio) ==
  /\ links' = list_push_back(m, THIS_RQ(prio), ready_tag(t))
  /\ base_addr' = bitmap_set(base_addr, prio)

scheduler_rq_jump_only(m, t, prio) ==
  /\ links' = list_push_front(m, THIS_RQ(prio), ready_tag(t))
  /\ base_addr' = bitmap_set(base_addr, prio)

scheduler_rq_leave_only(m, t, prio) ==
  LET left_behind == list_remove(m, ready_tag(t))
  IN  /\ links' = left_behind
      /\ base_addr' = IF list_empty(left_behind, THIS_RQ(prio))
                      THEN bitmap_clear(base_addr, prio) ELSE base_addr

\* A thread enters the queue of its priority and the list of all threads.
Enter(t, prio) ==
  scheduler_rq_join_only(list_push_back(links, all_list, all_list_tag(t)),
                         t, prio)

\* scheduler_init.
RqInit ==
  /\ Init
  /\ links = list_init(lists, tags)
  /\ priority = [t \in Thread |-> bit_num - 1]
  /\ running = NULL
  /\ at = "boot"

\* idle_thread_make.
IdleThreadMake ==
  /\ at = "boot"
  /\ Enter(idle, bit_num - 1)
  /\ running' = idle
  /\ at' = "run"
  /\ UNCHANGED <<scanVars, priority>>

Running == at = "run" /\ running # NULL

Created(t) == list_elem_find(links, all_list, all_list_tag(t))

\* thread_run.
ThreadRun(t, prio) ==
  /\ Running
  /\ ~Created(t)
  /\ priority' = [priority EXCEPT ![t] = prio]
  /\ Enter(t, prio)
  /\ UNCHANGED <<scanVars, running, at>>

\* sem_down on a semaphore that is taken: the waiter is entered unless it is
\* still there, and thread_block takes it out of its queue.
SemDown ==
  /\ Running
  /\ scheduler_rq_leave_only(
       IF list_elem_find(links, waiters, pend_tag(running)) THEN links
       ELSE list_push_back(links, waiters, pend_tag(running)),
       running, priority[running])
  /\ at' = "pick"
  /\ UNCHANGED <<scanVars, priority, running>>

\* sem_up with a waiter, and thread_unblock.
SemUp ==
  /\ Running
  /\ ~list_empty(links, waiters)
  /\ LET t == ELEM2ENTRY(list_first_elem(links, waiters))
     IN  scheduler_rq_jump_only(list_pop_front(links, waiters), t, priority[t])
  /\ UNCHANGED <<scanVars, priority, running, at>>

\* main_schedule, with the current thread TASK_RUNNING: out of its queue ...
Slice ==
  /\ Running
  /\ scheduler_rq_leave_only(links, running, priority[running])
  /\ at' = "left"
  /\ UNCHANGED <<scanVars, priority, running>>

\* ... and into the next one.
Requeue ==
  /\ at = "left"
  /\ LET prio == (priority[running] + 1) % bit_num
     IN  /\ priority' = [priority EXCEPT ![running] = prio]
         /\ scheduler_rq_join_only(links, running, prio)
  /\ at' = "pick"
  /\ UNCHANGED <<scanVars, running>>

\* next_thread_pick: highest_rq_get calls bitmap_scan ...
HighestRqGet ==
  /\ at = "pick"
  /\ ScanCall(1, 1)
  /\ UNCHANGED tcbVars

ScanLoop == ScanNext /\ UNCHANGED tcbVars

\* ... and the first element of that queue is taken for a ready_tag.  NULL
\* stands for what is found without a queue, or with an empty one.
Pick ==
  /\ ScanUsed
  /\ running' = IF answer.idx = -1 \/ list_empty(links, THIS_RQ(answer.idx))
                THEN NULL
                ELSE ELEM2ENTRY(list_first_elem(links, THIS_RQ(answer.idx)))
  /\ at' = "run"
  /\ UNCHANGED <<links, priority>>

Halted == at = "run" /\ running = NULL /\ UNCHANGED rqVars

RqNext ==
  \/ IdleThreadMake
  \/ \E t \in Thread, prio \in Prio : ThreadRun(t, prio)
  \/ SemDown \/ SemUp \/ Slice \/ Requeue
  \/ HighestRqGet \/ ScanLoop \/ Pick
  \/ Halted

\* The processor executes the loop it is in.
RqSpec == RqInit /\ [][RqNext]_rqVars /\ WF_rqVars(ScanLoop)

-----------------------------------------------------------------------------

\* The threads of a list, in order.
threads(l) ==
  LET es == elements(links, l) IN [i \in DOMAIN es |-> ELEM2ENTRY(es[i])]

\* The record of the fields of Scheduler's state that are kept here.
queues ==
  [rq |-> [p \in Prio |-> threads(THIS_RQ(p))], rq_mask |-> ones,
   running |-> running, priority |-> priority, all_list |-> threads(all_list)]

Q == INSTANCE RunQueues WITH
       s <- queues, sem <- [val |-> 0, waiters |-> threads(waiters)],
       PRIO_NUM <- bit_num, MAX_THREAD_NUM <- 1

\* The pointers and the bytes do what Scheduler and Sync say of sequences and
\* sets.  An element keeps its old pointers when it is taken out of one list
\* and is then put, by its neighbours' pointers alone, at the front or the back
\* of another; no sequence of this loses a thread, puts it into two places or
\* leaves a bit of rq_mask that disagrees with its list.
ImplementsRunQueues == Q!Spec
=============================================================================
