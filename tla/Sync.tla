--------------------------------- MODULE Sync ---------------------------------
(***************************************************************************)
(* The semaphore and the mutex of thread/sync.c.  A semaphore is a record  *)
(* of its counter, a uint8_t, and of the list of waiting threads.  The     *)
(* operators below are the stretches of sem_down and sem_up that run with  *)
(* interrupts off, hence atomically; the modules that use them put the     *)
(* stretches in the order of the code, around thread_block.                *)
(***************************************************************************)
EXTENDS Scheduler

UINT8_MAX == 255

Semaphore == [val : 0 .. UINT8_MAX, waiters : Seq(Thread)]
Mutex     == [holder : Thread \cup {NULL}, sem : Semaphore]

list_elem_find(l, e) == e \in ToSet(l)
list_pop_front(l)    == Tail(l)

sem_init(val) == [val |-> val, waiters |-> << >>]

\* Mutant: a mutex that lets nobody in.
mutex_init_zero == [holder |-> NULL, sem |-> sem_init(0)]

mutex_init == [holder |-> NULL, sem |-> sem_init(1)]

\* The body of the while loop of sem_down, before it blocks.
sem_down_wait(sem, t) ==
  [sem EXCEPT !.waiters = IF list_elem_find(@, t) THEN @
                          ELSE list_push_back(@, t)]

\* Mutant: the counter is not decremented.
sem_down_take_nothing(sem) == sem

\* The way out of the loop.
sem_down_take(sem) == [sem EXCEPT !.val = (@ + UINT8_MAX) % (UINT8_MAX + 1)]

\* The two ASSERTs on the way through sem_up: its own, and the one of
\* thread_unblock on the status of the waiter it is given.
sem_up_assert(sem, s) ==
  /\ sem.val = 0
  /\ sem.waiters # << >> => s.status[Head(sem.waiters)] = TASK_BLOCKED

\* Mutant: the waiter taken off the list is not woken.
sem_up_wake_none(sem, s) == s

\* sem_up, on the scheduler and on the semaphore.
sem_up_wake(sem, s) ==
  IF sem.waiters = << >> THEN s ELSE thread_unblock(s, Head(sem.waiters))

\* Mutant: the woken waiter stays on the list.
sem_up_put_no_pop(sem) == [sem EXCEPT !.val = (@ + 1) % (UINT8_MAX + 1)]

sem_up_put(sem) ==
  [val     |-> (sem.val + 1) % (UINT8_MAX + 1),
   waiters |-> IF sem.waiters = << >> THEN << >>
               ELSE list_pop_front(sem.waiters)]
=============================================================================
