----------------------------- MODULE InputProofs -----------------------------
(***************************************************************************)
(* Proofs about keyboard input, for any ring, any keyboard and any number  *)
(* of threads and readers: who sleeps where and who is named, which        *)
(* character is where, and the order in which they come out.               *)
(***************************************************************************)
EXTENDS Input, MachineProofs, SequenceTheorems, FunctionTheorems,
        FiniteSetTheorems

-----------------------------------------------------------------------------
(* Scheduler and stacks, also when handlers block                          *)

\* Where a thread that does not run may be.
Away == {"entry", "lock", "wait", "code"}

\* t can be switched to in such a way that it finds interrupts off unless it
\* is in its own code.
Parked(t, stk, p) ==
  /\ p[t] \in Away
  /\ p[t] # "code" => stk[t] # << >> /\ Last(stk[t]) = "FAST"

\* What is left of MachineOK once a handler has blocked: the scheduler is as
\* good as before, but the frames in stack_top need no longer be the right
\* ones.
LooseOK(s, c, stk, top, f, p) ==
  /\ s \in SchedState /\ c \in Cpu /\ f \in Fault
  /\ stk \in [Thread -> Seq(Frame)] /\ top \in [Thread -> Nat]
  /\ QueuesHold(s, Queued(s)) /\ RunningMarked(s)
  /\ f = "none" =>
       /\ s.running \in Thread /\ PreemptionNoted(s)
       /\ \A t \in Created(s) \ {s.running} : Parked(t, stk, p)
       /\ p[s.running] # "code" => c.intr = INTR_OFF

Loose == LooseOK(sched, cpu, stack, stack_top, fault, pc)

\* The machine after a step, with p the new places of the threads.
LooseAfter(p) == LooseOK(sched', cpu', stack', stack_top', fault', p)

\* While code runs the scheduler state is one the operations start from.
LEMMA LooseRuns ==
  ASSUME Loose, fault = "none"
  PROVE  /\ Sound(sched) /\ PreemptionNoted(sched)
         /\ running \in Thread /\ sched.status[running] = TASK_RUNNING
         /\ running \in Created(sched) /\ running \in Queued(sched)
         /\ running = sched.running
<1>1. running \in Thread /\ sched.status[running] = TASK_RUNNING
  BY DEF Loose, LooseOK, RunningMarked, running
<1> QED
  BY <1>1 DEF Loose, LooseOK, RunningMarked, Sound, running, Created, Queued,
              TASK_RUNNING, NO_TCB

\* main_schedule, entered with the stacks stk and all threads parked.
LEMMA LooseSwitch ==
  ASSUME Loose, fault = "none",
         NEW s, Sound(s), PreemptionNoted(s), SameThreads(s, sched),
         NEW stk \in [Thread -> Seq(Frame)], NEW top \in [Thread -> Nat],
         NEW p, \A t \in Created(sched) : Parked(t, stk, p),
         MainSchedule(s, stk, top)
  PROVE  LooseAfter(p) /\ Scheduled(sched', s) /\ fault' # "assert"
<1>1. PICK r : r = main_schedule(s)
  OBVIOUS
<1>2. Scheduled(r, s)
  BY <1>1, MainScheduleSound
<1>3. /\ r \in SchedState /\ QueuesHold(r, Queued(r)) /\ RunningMarked(r)
      /\ SameThreads(r, s)
      /\ r.running = NULL \/ r.running \in Queued(r)
      /\ r.running # NULL => PreemptionNoted(r)
  BY <1>2 DEF Scheduled
<1>4. Created(r) = Created(sched) /\ cpu \in Cpu
  BY <1>3 DEF SameThreads, Loose, LooseOK
<1>5. PICK c : c = IF s.need_schedule /\ r.running # NULL
                   THEN process_activate([cpu EXCEPT !.intr = INTR_OFF], r, r.running)
                   ELSE [cpu EXCEPT !.intr = INTR_OFF]
  OBVIOUS
<1>6. c \in Cpu /\ c.intr = INTR_OFF
  <2>1. r.pg_dir \in [Thread -> Thread \cup {NULL}]
    BY <1>3 DEF SchedState
  <2>2. r.running # NULL => r.running \in Thread
    BY <1>3 DEF Queued
  <2> QED
    BY <1>4, <1>5, <2>1, <2>2 DEF process_activate, Cpu
<1>7. sched' = r /\ stack_top' = top
  BY <1>1 DEF MainSchedule
<1>8. CASE r.running = NULL
  <2>1. stack' = stk /\ cpu' = c /\ fault' = "no_thread"
    BY <1>1, <1>5, <1>8 DEF MainSchedule
  <2> QED
    BY <1>2, <1>3, <1>6, <1>7, <2>1 DEF LooseAfter, LooseOK, Fault
<1>9. CASE r.running # NULL
  <2>1. context_load(c, stk, top, r.running)
    BY <1>1, <1>5, <1>9 DEF MainSchedule
  <2>2. r.running \in Created(sched) /\ r.running \in Thread
    BY <1>3, <1>4, <1>9 DEF Queued, Created, TASK_RUNNING, TASK_READY, NO_TCB
  <2>3. Parked(r.running, stk, p)
    BY <2>2
  <2>4. CASE top[r.running] = Len(stk[r.running]) /\ stk[r.running] # << >>
    <3>1. /\ stack' = [stk EXCEPT ![r.running] = Front(stk[r.running])]
          /\ cpu' = IF Last(stk[r.running]) = "ALL" THEN [c EXCEPT !.intr = INTR_ON]
                                                    ELSE c
          /\ fault' = "none"
      BY <2>1, <2>4 DEF context_load
    <3>2. stack' \in [Thread -> Seq(Frame)]
      <4>1. Front(stk[r.running]) \in Seq(Frame)
        BY <2>2, <2>4 DEF Front
      <4> QED
        BY <2>2, <3>1, <4>1
    <3>3. cpu' \in Cpu /\ (p[r.running] # "code" => cpu'.intr = INTR_OFF)
      BY <1>6, <2>3, <3>1 DEF Cpu, Parked
    <3>4. \A t \in Created(r) \ {r.running} : Parked(t, stack', p)
      <4>1. \A t \in Thread \ {r.running} : stack'[t] = stk[t]
        BY <3>1
      <4> QED
        BY <1>4, <4>1 DEF Created, Parked
    <3> QED
      BY <1>2, <1>3, <1>7, <1>9, <2>2, <3>1, <3>2, <3>3, <3>4
         DEF LooseAfter, LooseOK, Fault
  <2>5. CASE ~(top[r.running] = Len(stk[r.running]) /\ stk[r.running] # << >>)
    <3>1. stack' = stk /\ cpu' = c /\ fault' = "stale_frame"
      BY <2>1, <2>5 DEF context_load
    <3> QED
      BY <1>2, <1>3, <1>6, <1>7, <3>1 DEF LooseAfter, LooseOK, Fault
  <2> QED
    BY <2>4, <2>5
<1> QED
  BY <1>8, <1>9

-----------------------------------------------------------------------------
(* Who sleeps and who is named                                             *)

InMutex == {"wait", "unlock"}

\* SleeperNamed, and the same for the waiters of the mutex, on a queue q, the
\* statuses st of the threads, and where they are.
Names(q, st, p, o) ==
  /\ \A t \in Thread : st[t] = TASK_BLOCKED => p[t] \in {"lock", "wait"}
  /\ IsInjective(q.mtx.sem.waiters)
  /\ ToSet(q.mtx.sem.waiters)
       = {t \in Thread : p[t] = "lock" /\ st[t] = TASK_BLOCKED}
  /\ \A t, u \in Thread : p[t] \in InMutex /\ p[u] \in InMutex => t = u
  /\ q.mtx.sem.val = IF \E t \in Thread : p[t] \in InMutex THEN 0 ELSE 1
  /\ \A t \in Thread : q.mtx.holder = t <=> p[t] \in InMutex
  /\ \A t \in Thread :
       st[t] = TASK_BLOCKED /\ p[t] = "wait" =>
         IF o[t] = "get" THEN q.consumer = t ELSE q.producer = t
  /\ \A t \in Thread : q.consumer = t =>
       st[t] = TASK_BLOCKED /\ p[t] = "wait" /\ o[t] = "get"
  /\ \A t \in Thread : q.producer = t =>
       st[t] = TASK_BLOCKED /\ p[t] = "wait" /\ o[t] = "put"

\* A step that blocks and wakes nobody, with the mutex as it is.
LEMMA NamesFrame ==
  ASSUME NEW q, NEW st, NEW p, NEW o, Names(q, st, p, o),
         NEW q2, NEW st2, NEW p2, NEW o2,
         q2.mtx = q.mtx, q2.consumer = q.consumer, q2.producer = q.producer,
         \A t \in Thread : st2[t] = TASK_BLOCKED <=> st[t] = TASK_BLOCKED,
         \A t \in Thread : st[t] = TASK_BLOCKED => p2[t] = p[t] /\ o2[t] = o[t],
         \A t \in Thread : p2[t] \in InMutex <=> p[t] \in InMutex
  PROVE  Names(q2, st2, p2, o2)
<1>1. {t \in Thread : p2[t] = "lock" /\ st2[t] = TASK_BLOCKED}
        = {t \in Thread : p[t] = "lock" /\ st[t] = TASK_BLOCKED}
  OBVIOUS
<1> QED
  BY <1>1 DEF Names

\* The mutex is taken: r sleeps in mutex_lock.
LEMMA NamesQueue ==
  ASSUME NEW q \in Ioqueue, NEW st, NEW p, NEW o, Names(q, st, p, o),
         NEW r \in Thread, st[r] # TASK_BLOCKED, p[r] \notin InMutex,
         q.mtx.sem.val = 0,
         NEW st2, NEW p2,
         \A t \in Thread : st2[t] = TASK_BLOCKED <=> t = r \/ st[t] = TASK_BLOCKED,
         p2[r] = "lock", \A t \in Thread \ {r} : p2[t] = p[t],
         NEW q2, q2 = [q EXCEPT !.mtx.sem = sem_down_wait(@, r)]
  PROVE  q2 \in Ioqueue /\ Names(q2, st2, p2, o)
<1>1. PICK l : l = list_push_back(q.mtx.sem.waiters, r)
  OBVIOUS
<1>2. q.mtx.sem \in Semaphore /\ q.mtx \in Mutex
  BY DEF Ioqueue, Mutex
<1>3. r \notin ToSet(q.mtx.sem.waiters) /\ IsInjective(q.mtx.sem.waiters)
  BY DEF Names
<1>4. /\ l \in Seq(Thread) /\ IsInjective(l)
      /\ ToSet(l) = ToSet(q.mtx.sem.waiters) \cup {r}
  BY <1>1, <1>2, <1>3, PushBack DEF Semaphore
<1>5. PICK sem : sem = sem_down_wait(q.mtx.sem, r)
  OBVIOUS
<1>6. sem = [q.mtx.sem EXCEPT !.waiters = l]
  BY <1>1, <1>3, <1>5 DEF sem_down_wait, list_elem_find
<1>7. sem \in Semaphore /\ sem.val = 0 /\ sem.waiters = l
  BY <1>2, <1>4, <1>6 DEF Semaphore
<1>8. q2 = [q EXCEPT !.mtx.sem = sem]
  BY <1>5
<1>9. /\ q2 \in Ioqueue /\ q2.mtx.sem = sem /\ q2.mtx.holder = q.mtx.holder
      /\ q2.consumer = q.consumer /\ q2.producer = q.producer
  BY <1>2, <1>7, <1>8 DEF Ioqueue, Mutex
<1>10. {t \in Thread : p2[t] = "lock" /\ st2[t] = TASK_BLOCKED}
         = {t \in Thread : p[t] = "lock" /\ st[t] = TASK_BLOCKED} \cup {r}
  OBVIOUS
<1>11. \A t \in Thread : p2[t] \in InMutex <=> p[t] \in InMutex
  BY DEF InMutex
<1> QED
  BY <1>4, <1>7, <1>9, <1>10, <1>11 DEF Names

\* The queue when r takes the mutex and is to sleep as the waiter w.
Taken(q, r, w) ==
  [q EXCEPT !.mtx.sem = sem_down_take(@), !.mtx.holder = r, ![w] = r]

\* The mutex is free: r takes it and sleeps in ioq_wait.
LEMMA NamesWait ==
  ASSUME NEW q \in Ioqueue, NEW st, NEW p, NEW o, Names(q, st, p, o),
         NEW r \in Thread, st[r] # TASK_BLOCKED, q.mtx.sem.val # 0,
         o[r] \in Op,
         NEW st2, NEW p2,
         \A t \in Thread : st2[t] = TASK_BLOCKED <=> t = r \/ st[t] = TASK_BLOCKED,
         p2[r] = "wait", \A t \in Thread \ {r} : p2[t] = p[t],
         NEW w, w = IF o[r] = "get" THEN "consumer" ELSE "producer",
         NEW q2, q2 = Taken(q, r, w)
  PROVE  q2 \in Ioqueue /\ Names(q2, st2, p2, o)
<1>1. q.mtx.sem \in Semaphore /\ q.mtx \in Mutex
  BY DEF Ioqueue, Mutex
<1>2. q.mtx.sem.val = 1 /\ \A t \in Thread : p[t] \notin InMutex
  BY DEF Names
<1>3. PICK sem : sem = sem_down_take(q.mtx.sem)
  OBVIOUS
<1>4. sem \in Semaphore /\ sem.val = 0 /\ sem.waiters = q.mtx.sem.waiters
  BY <1>1, <1>2, <1>3 DEF sem_down_take, Semaphore, UINT8_MAX
<1>5. q2 = [q EXCEPT !.mtx.sem = sem, !.mtx.holder = r, ![w] = r]
  BY <1>3 DEF Taken
<1>6. /\ q2 \in Ioqueue /\ q2.mtx.sem = sem /\ q2.mtx.holder = r
      /\ q2.consumer = IF w = "consumer" THEN r ELSE q.consumer
      /\ q2.producer = IF w = "producer" THEN r ELSE q.producer
  <2>1. PICK m : m = [q.mtx EXCEPT !.sem = sem, !.holder = r]
    OBVIOUS
  <2>2. m \in Mutex /\ m.sem = sem /\ m.holder = r
    BY <1>1, <1>4, <2>1 DEF Mutex
  <2>3. PICK q1 : q1 = [q EXCEPT !.mtx = m]
    OBVIOUS
  <2>4. q1 \in Ioqueue /\ q1.mtx = m /\ q1.consumer = q.consumer
        /\ q1.producer = q.producer
    BY <2>2, <2>3 DEF Ioqueue
  <2>5. q2 = [q1 EXCEPT ![w] = r]
    BY <1>1, <1>5, <2>1, <2>3 DEF Ioqueue, Mutex
  <2>6. CASE w = "consumer"
    BY <2>2, <2>4, <2>5, <2>6 DEF Ioqueue
  <2>7. CASE w = "producer"
    BY <2>2, <2>4, <2>5, <2>7 DEF Ioqueue
  <2> QED
    BY <2>6, <2>7
<1>7. {t \in Thread : p2[t] = "lock" /\ st2[t] = TASK_BLOCKED}
        = {t \in Thread : p[t] = "lock" /\ st[t] = TASK_BLOCKED}
  OBVIOUS
<1>8. \A t \in Thread : p2[t] \in InMutex <=> t = r
  BY <1>2 DEF InMutex
<1>9. \A t \in Thread : q.consumer # t /\ q.producer # t
  BY <1>2 DEF Names, InMutex
<1> QED
  BY <1>4, <1>6, <1>7, <1>8, <1>9 DEF Names, Op

\* The waiter that sem_up or ioq_signal is to wake, if any.
Waiting(q) ==
  IF q.mtx.sem.waiters = << >> THEN NULL ELSE Head(q.mtx.sem.waiters)

\* The queue when its mutex is given back.
Given(q) == [q EXCEPT !.mtx.sem = sem_up_put(@), !.mtx.holder = NULL]

\* r gives the mutex back and wakes the first that waits for it.
LEMMA NamesUnlock ==
  ASSUME NEW q \in Ioqueue, NEW st, NEW p, NEW o, Names(q, st, p, o),
         NEW r \in Thread, st[r] # TASK_BLOCKED, p[r] = "unlock",
         NEW st2, NEW p2,
         \A t \in Thread : st2[t] = TASK_BLOCKED
                             <=> t # Waiting(q) /\ st[t] = TASK_BLOCKED,
         p2[r] = "loop", \A t \in Thread \ {r} : p2[t] = p[t],
         NEW q2, q2 = Given(q)
  PROVE  q2 \in Ioqueue /\ Names(q2, st2, p2, o)
<1>1. q.mtx.sem \in Semaphore /\ q.mtx \in Mutex
  BY DEF Ioqueue, Mutex
<1>2. /\ q.mtx.sem.val = 0 /\ \A t \in Thread : p2[t] \notin InMutex
      /\ q.mtx.holder = r
  BY DEF Names, InMutex
<1>3. PICK l : l = IF q.mtx.sem.waiters = << >> THEN << >>
                   ELSE Tail(q.mtx.sem.waiters)
  OBVIOUS
<1>4. /\ l \in Seq(Thread) /\ IsInjective(l)
      /\ ToSet(l) = {t \in Thread : p2[t] = "lock" /\ st2[t] = TASK_BLOCKED}
  <2>1. /\ q.mtx.sem.waiters \in Seq(Thread) /\ IsInjective(q.mtx.sem.waiters)
        /\ ToSet(q.mtx.sem.waiters)
             = {t \in Thread : p[t] = "lock" /\ st[t] = TASK_BLOCKED}
    BY <1>1 DEF Names, Semaphore
  <2>2. CASE q.mtx.sem.waiters = << >>
    <3>1. Waiting(q) = NULL /\ l = << >> /\ ToSet(<< >>) = {}
      BY <1>3, <2>2 DEF Waiting, ToSet
    <3>2. {t \in Thread : p2[t] = "lock" /\ st2[t] = TASK_BLOCKED} = {}
      BY <2>1, <2>2, <3>1
    <3> QED
      BY <2>1, <2>2, <3>1, <3>2
  <2>3. CASE q.mtx.sem.waiters # << >>
    <3>1. /\ l \in Seq(Thread) /\ IsInjective(l)
          /\ ToSet(l) = ToSet(q.mtx.sem.waiters) \ {Waiting(q)}
      BY <1>3, <2>1, <2>3, PopFront DEF Waiting
    <3>2. {t \in Thread : p2[t] = "lock" /\ st2[t] = TASK_BLOCKED}
            = {t \in Thread : p[t] = "lock" /\ st[t] = TASK_BLOCKED} \ {Waiting(q)}
      OBVIOUS
    <3> QED
      BY <2>1, <3>1, <3>2
  <2> QED
    BY <2>2, <2>3
<1>5. PICK sem : sem = sem_up_put(q.mtx.sem)
  OBVIOUS
<1>6. sem \in Semaphore /\ sem.val = 1 /\ sem.waiters = l
  <2>1. (q.mtx.sem.val + 1) % (UINT8_MAX + 1) = 1
    BY <1>2 DEF UINT8_MAX
  <2>2. sem = [val |-> 1, waiters |-> l]
    BY <1>3, <1>5, <2>1 DEF sem_up_put, list_pop_front
  <2> QED
    BY <1>4, <2>2 DEF Semaphore, UINT8_MAX
<1>7. q2 = [q EXCEPT !.mtx.sem = sem, !.mtx.holder = NULL]
  BY <1>5 DEF Given
<1>8. /\ q2 \in Ioqueue /\ q2.mtx.sem = sem /\ q2.mtx.holder = NULL
      /\ q2.consumer = q.consumer /\ q2.producer = q.producer
  <2>1. PICK m : m = [q.mtx EXCEPT !.sem = sem, !.holder = NULL]
    OBVIOUS
  <2>2. m \in Mutex /\ m.sem = sem /\ m.holder = NULL
    BY <1>1, <1>6, <2>1 DEF Mutex
  <2>3. q2 = [q EXCEPT !.mtx = m]
    BY <1>1, <1>7, <2>1 DEF Ioqueue, Mutex
  <2> QED
    BY <2>2, <2>3 DEF Ioqueue
<1>9. \A t \in Thread : p[t] \in InMutex <=> t = r
  BY DEF Names, InMutex
<1>10. \A t \in Thread : q.consumer # t /\ q.producer # t
  BY <1>9 DEF Names, InMutex
<1>11. \A t \in Thread : p2[t] # "wait"
  BY <1>2 DEF InMutex
<1>12. \A t \in Thread : st2[t] = TASK_BLOCKED => p2[t] = "lock"
  BY <1>11 DEF Names
<1> QED
  BY <1>2, <1>4, <1>6, <1>8, <1>10, <1>11, <1>12, SchedulerAssumption DEF Names

\* In q2 the thread that q names as the sleeper of one side is forgotten.
Forgets(q2, q, w) ==
  /\ q2.mtx = q.mtx
  /\ \/ w = q.consumer /\ q2.consumer = NULL /\ q2.producer = q.producer
     \/ w = q.producer /\ q2.producer = NULL /\ q2.consumer = q.consumer

\* A character is put into the ring or taken out of it, and the sleeper of the
\* other side, if there is one, is woken and forgotten.
LEMMA NamesSignal ==
  ASSUME NEW q, NEW st, NEW p, NEW o, Names(q, st, p, o),
         NEW st2, NEW p2, NEW q2, NEW w,
         \A t \in Thread : st2[t] = TASK_BLOCKED <=> t # w /\ st[t] = TASK_BLOCKED,
         \A t \in Thread : st[t] = TASK_BLOCKED => p2[t] = p[t],
         \A t \in Thread : p2[t] \in InMutex <=> p[t] \in InMutex,
         Forgets(q2, q, w)
  PROVE  Names(q2, st2, p2, o)
<1>1. {t \in Thread : p2[t] = "lock" /\ st2[t] = TASK_BLOCKED}
        = {t \in Thread : p[t] = "lock" /\ st[t] = TASK_BLOCKED}
  BY SchedulerAssumption DEF Names, Forgets
<1>2. \A t \in Thread : q.consumer = t => q.producer # t
  BY DEF Names
<1>3. CASE w = q.consumer /\ q2.consumer = NULL /\ q2.producer = q.producer
  BY <1>1, <1>2, <1>3, SchedulerAssumption DEF Names, Forgets
<1>4. CASE w = q.producer /\ q2.producer = NULL /\ q2.consumer = q.consumer
  BY <1>1, <1>2, <1>4, SchedulerAssumption DEF Names, Forgets
<1> QED
  BY <1>3, <1>4 DEF Forgets

-----------------------------------------------------------------------------
(* The operations of the machine in a client whose handlers may block      *)

\* The scheduler state r after s, when w, if it is a thread, has been woken.
Signalled(r, s, w) ==
  /\ Sound(r) /\ PreemptionNoted(r) /\ SameThreads(r, s)
  /\ r.running = s.running /\ r.status[r.running] = TASK_RUNNING
  /\ \A t \in Thread : r.status[t] = TASK_BLOCKED
                         <=> t # w /\ s.status[t] = TASK_BLOCKED

\* ioq_signal, or no call of it, in a running thread.
LEMMA SignalSound ==
  ASSUME NEW s, Sound(s), PreemptionNoted(s), s.status[s.running] = TASK_RUNNING,
         NEW w \in Thread \cup {NULL}, ioq_signal_assert(w, s),
         NEW r, r = ioq_signal(w, s)
  PROVE  Signalled(r, s, w)
<1>1. CASE w = NULL
  <2>1. r = s
    BY <1>1 DEF ioq_signal
  <2> QED
    BY <1>1, <2>1, SchedulerAssumption DEF Signalled, SameThreads, SamePids
<1>2. CASE w # NULL
  <2>1. w \in Thread /\ s.status[w] = TASK_BLOCKED /\ r = thread_unblock(s, w)
    BY <1>2 DEF ioq_signal, ioq_signal_assert
  <2>2. Woken(r, s, w)
    BY <2>1, UnblockSound
  <2>3. s.status \in [Thread -> Status] /\ s.running \in Thread
    BY DEF Sound, SchedState
  <2> QED
    BY <2>1, <2>2, <2>3
       DEF Woken, Signalled, TASK_BLOCKED, TASK_READY, TASK_RUNNING
<1> QED
  BY <1>1, <1>2

\* What steps of the running thread's own code have in common: only the
\* interrupt flag changes.
LEMMA LooseIntr ==
  ASSUME Loose, fault = "none",
         NEW i \in {INTR_ON, INTR_OFF}, IntrSetStatus(i),
         UNCHANGED <<sched, stack, stack_top, fault>>,
         NEW p, \A t \in Thread \ {running} : p[t] = pc[t],
         p[running] # "code" => i = INTR_OFF
  PROVE  LooseAfter(p)
<1>1. cpu' \in Cpu /\ cpu'.intr = i
  BY DEF Loose, LooseOK, IntrSetStatus, Cpu
<1>2. \A t \in Created(sched) \ {running} : Parked(t, stack, p)
  BY DEF Loose, LooseOK, Parked, Created, running
<1> QED
  BY <1>1, <1>2 DEF Loose, LooseOK, LooseAfter, running

\* The running thread wakes another one, or none.
LEMMA LooseWake ==
  ASSUME Loose, fault = "none", NEW w, Signalled(sched', sched, w),
         UNCHANGED <<cpu, stack, stack_top, fault>>,
         NEW p, \A t \in Thread \ {running} : p[t] = pc[t],
         cpu.intr = INTR_OFF
  PROVE  LooseAfter(p)
<1>1. \A t \in Created(sched) \ {running} : Parked(t, stack, p)
  BY DEF Loose, LooseOK, Parked, Created, running
<1>2. /\ sched' \in SchedState /\ QueuesHold(sched', Queued(sched'))
      /\ RunningMarked(sched') /\ PreemptionNoted(sched')
      /\ Created(sched') = Created(sched) /\ sched'.running = running
      /\ sched'.running \in Thread
  BY DEF Signalled, Sound, RunningMarked, SameThreads, running
<1> QED
  BY <1>1, <1>2 DEF Loose, LooseOK, LooseAfter

\* The running thread creates another one.
LEMMA LooseSpawn ==
  ASSUME Loose, fault = "none", NEW t \in Thread, t # running,
         Spawned(sched', sched, t), thread_stack_init(t), UNCHANGED <<cpu, fault>>,
         NEW p, p[t] = "entry", \A x \in Thread \ {t} : p[x] = pc[x]
  PROVE  LooseAfter(p)
<1>1. /\ sched' \in SchedState /\ QueuesHold(sched', Queued(sched'))
      /\ RunningMarked(sched') /\ PreemptionNoted(sched')
      /\ Created(sched') = Created(sched) \cup {t} /\ sched'.running = running
      /\ sched'.running \in Thread
  BY DEF Spawned, Sound, RunningMarked, running
<1>2. /\ stack' = [stack EXCEPT ![t] = <<"FAST">>]
      /\ stack_top' = [stack_top EXCEPT ![t] = 1]
      /\ stack \in [Thread -> Seq(Frame)] /\ stack_top \in [Thread -> Nat]
  BY DEF thread_stack_init, Loose, LooseOK
<1>3. stack' \in [Thread -> Seq(Frame)] /\ stack_top' \in [Thread -> Nat]
  <2>1. <<"FAST">> \in Seq(Frame)
    BY DEF Frame
  <2> QED
    BY <1>2, <2>1
<1>4. ASSUME NEW x \in Created(sched') \ {running}
      PROVE  Parked(x, stack', p)
  <2>1. CASE x = t
    <3>1. stack'[x] = <<"FAST">> /\ Last(<<"FAST">>) = "FAST"
      BY <1>2, <2>1 DEF Last
    <3> QED
      BY <2>1, <3>1 DEF Parked, Away
  <2>2. CASE x # t
    <3>1. x \in Created(sched) \ {running} /\ x \in Thread /\ stack'[x] = stack[x]
      BY <1>1, <1>2, <1>4, <2>2 DEF Created
    <3> QED
      BY <2>2, <3>1 DEF Loose, LooseOK, Parked, running
  <2> QED
    BY <2>1, <2>2
<1> QED
  BY <1>1, <1>3, <1>4 DEF Loose, LooseOK, LooseAfter, running

\* The running thread saves a frame, for which its new place is fit, and
\* leaves through main_schedule.
LEMMA LooseLeave ==
  ASSUME Loose, fault = "none",
         NEW s, Sound(s), PreemptionNoted(s), SameThreads(s, sched),
         NEW p, \A t \in Thread \ {running} : p[t] = pc[t],
         NEW frame \in Frame,
         \/ frame = "ALL" /\ p[running] = "code"
         \/ frame = "FAST" /\ p[running] \in {"lock", "wait"},
         MainSchedule(s, [stack EXCEPT ![running] = Append(@, frame)],
                         [stack_top EXCEPT ![running] = Len(stack[running]) + 1])
  PROVE  LooseAfter(p) /\ Scheduled(sched', s) /\ fault' # "assert"
<1>1. stack \in [Thread -> Seq(Frame)] /\ stack_top \in [Thread -> Nat]
      /\ running \in Thread
  BY DEF Loose, LooseOK, running
<1>2. PICK l : l = Append(stack[running], frame)
  OBVIOUS
<1>3. l \in Seq(Frame) /\ l # << >> /\ Last(l) = frame
  <2>1. stack[running] \in Seq(Frame)
    BY <1>1
  <2> QED
    BY <1>2, <2>1 DEF Last
<1>4. PICK stk \in [Thread -> Seq(Frame)] : stk = [stack EXCEPT ![running] = l]
  BY <1>1, <1>3
<1>5. PICK top \in [Thread -> Nat] :
        top = [stack_top EXCEPT ![running] = Len(stack[running]) + 1]
  <2>1. Len(stack[running]) + 1 \in Nat
    BY <1>1
  <2> QED
    BY <1>1, <2>1
<1>6. ASSUME NEW t \in Created(sched) PROVE Parked(t, stk, p)
  <2>1. CASE t = running
    BY <1>1, <1>3, <1>4, <2>1 DEF Parked, Away
  <2>2. CASE t # running
    <3>1. t \in Thread /\ stk[t] = stack[t] /\ p[t] = pc[t]
      BY <1>4, <2>2 DEF Created
    <3> QED
      BY <2>2, <3>1 DEF Loose, LooseOK, Parked, running
  <2> QED
    BY <2>1, <2>2
<1>7. MainSchedule(s, stk, top)
  BY <1>2, <1>4, <1>5
<1> QED
  BY <1>6, <1>7, LooseSwitch

-----------------------------------------------------------------------------
(* The invariant of every run                                              *)

\* Where the threads are, who sleeps, and what the queue says of it.
ThreadsOK(s, f, p, o, i, q) ==
  /\ p \in [Thread -> Location] /\ o \in [Thread -> Op]
  /\ i \in [Thread -> {INTR_ON, INTR_OFF}] /\ q \in Ioqueue
  /\ \A t \in Thread : p[t] = "none" <=> t \notin Created(s)
  /\ \A t \in Thread : p[t] \in {"lock", "wait"} => i[t] = INTR_OFF
  /\ Names(q, s.status, p, o)
  /\ f # "assert"

\* Inductive: SleeperNamed alone is not, because what a thread does next
\* depends on the frames its stack holds, on the interrupt flag it saved and
\* on the waiters of the mutex.
ThreadsInv ==
  /\ Loose
  /\ ThreadsOK(sched, fault, pc, op, int_save, kbd_buf)

\* What the steps of a running machine start from.
ThreadsRun ==
  /\ Loose /\ ThreadsOK(sched, fault, pc, op, int_save, kbd_buf)
  /\ Sound(sched) /\ PreemptionNoted(sched) /\ sched \in SchedState
  /\ running \in Thread /\ running = sched.running /\ running \in Created(sched)
  /\ sched.status[running] = TASK_RUNNING /\ sched.status[running] # TASK_BLOCKED
  /\ pc \in [Thread -> Location] /\ op \in [Thread -> Op]
  /\ int_save \in [Thread -> {INTR_ON, INTR_OFF}] /\ kbd_buf \in Ioqueue
  /\ Names(kbd_buf, sched.status, pc, op)
  /\ pc[running] # "none"
  /\ pc[running] # "code" => cpu.intr = INTR_OFF

\* What the invariant says of the thread that runs.
LEMMA RunsThreads ==
  ASSUME ThreadsInv, fault = "none"
  PROVE  ThreadsRun
<1>1. Loose /\ ThreadsOK(sched, fault, pc, op, int_save, kbd_buf)
  BY DEF ThreadsInv
<1>2. /\ Sound(sched) /\ PreemptionNoted(sched)
      /\ running \in Thread /\ sched.status[running] = TASK_RUNNING
      /\ running \in Created(sched) /\ running = sched.running
  BY <1>1, LooseRuns
<1>3. pc[running] # "code" => cpu.intr = INTR_OFF
  BY <1>1, <1>2 DEF Loose, LooseOK
<1>4. sched \in SchedState
  BY <1>2 DEF Sound
<1>5. /\ pc \in [Thread -> Location] /\ op \in [Thread -> Op]
      /\ int_save \in [Thread -> {INTR_ON, INTR_OFF}] /\ kbd_buf \in Ioqueue
      /\ Names(kbd_buf, sched.status, pc, op)
      /\ pc[running] # "none"
  BY <1>1, <1>2 DEF ThreadsOK
<1> QED
  BY <1>1, <1>2, <1>3, <1>4, <1>5 DEF ThreadsRun, TASK_RUNNING, TASK_BLOCKED

\* The initial state.
LEMMA ThreadsStart ==
  ASSUME Init
  PROVE  ThreadsInv
<1>1. /\ MachineInit
      /\ pc = [t \in Thread |-> IF t = idle THEN "boot" ELSE "none"]
      /\ op = [t \in Thread |-> "get"]
      /\ int_save = [t \in Thread |-> INTR_OFF]
      /\ kbd_buf = ioqueue_init
  BY DEF Init
<1>2. /\ sched = thread_all_init /\ fault = "none"
      /\ cpu = [intr |-> INTR_OFF, cr3 |-> NULL, esp0 |-> NULL]
      /\ stack = [t \in Thread |-> << >>] /\ stack_top = [t \in Thread |-> 0]
  BY <1>1 DEF MachineInit
<1>3. /\ Sound(sched) /\ PreemptionNoted(sched) /\ sched.running = idle
      /\ sched.status[idle] = TASK_RUNNING /\ Created(sched) = {idle}
  BY <1>2, InitSound
<1>4. Loose
  <2>1. cpu \in Cpu /\ cpu.intr = INTR_OFF /\ fault \in Fault
    BY <1>2 DEF Cpu, Fault
  <2>2. stack \in [Thread -> Seq(Frame)] /\ stack_top \in [Thread -> Nat]
    BY <1>2
  <2> QED
    BY <1>3, <2>1, <2>2 DEF Loose, LooseOK, Sound, RunningMarked
<1>5. /\ pc \in [Thread -> Location] /\ op \in [Thread -> Op]
      /\ int_save \in [Thread -> {INTR_ON, INTR_OFF}]
  BY <1>1 DEF Location, Op
<1>6. /\ kbd_buf \in Ioqueue /\ kbd_buf.mtx.sem.waiters = << >>
      /\ kbd_buf.mtx.sem.val = 1 /\ kbd_buf.mtx.holder = NULL
      /\ kbd_buf.consumer = NULL /\ kbd_buf.producer = NULL
  BY <1>1, IoQueueAssumption
     DEF ioqueue_init, Ioqueue, mutex_init, Mutex, sem_init, Semaphore, UINT8_MAX,
         Pos
<1>7. \A t \in Thread : sched.status[t] # TASK_BLOCKED
  <2>1. \A t \in Thread : t # idle => sched.status[t] = NO_TCB
    BY <1>3 DEF Created
  <2> QED
    BY <1>3, <2>1 DEF NO_TCB, TASK_RUNNING, TASK_BLOCKED
<1>8. Names(kbd_buf, sched.status, pc, op)
  <2>1. IsInjective(<< >>) /\ ToSet(<< >>) = {}
    BY DEF IsInjective, ToSet
  <2>2. \A t \in Thread : pc[t] \notin InMutex
    BY <1>1 DEF InMutex
  <2> QED
    BY <1>6, <1>7, <2>1, <2>2, SchedulerAssumption DEF Names
<1>9. /\ \A t \in Thread : pc[t] = "none" <=> t \notin Created(sched)
      /\ \A t \in Thread : pc[t] \notin {"lock", "wait"}
  BY <1>1, <1>3
<1> QED
  BY <1>2, <1>4, <1>5, <1>6, <1>8, <1>9 DEF ThreadsInv, ThreadsOK

\* A step of the running thread's own code that blocks and wakes nobody.
LEMMA OwnCode ==
  ASSUME ThreadsInv, fault = "none", LooseAfter(pc'),
         NEW w \in Location, pc' = [pc EXCEPT ![running] = w],
         w \notin {"none", "lock", "wait"},
         w = "unlock" <=> pc[running] \in {"wait", "unlock"},
         NEW o \in Op, op' = [op EXCEPT ![running] = o],
         UNCHANGED <<sched, fault, int_save, kbd_buf>>
  PROVE  ThreadsInv'
<1>1. ThreadsRun
  BY RunsThreads
<1>2. /\ pc' \in [Thread -> Location] /\ op' \in [Thread -> Op]
      /\ pc'[running] = w /\ \A t \in Thread \ {running} : pc'[t] = pc[t]
      /\ \A t \in Thread \ {running} : op'[t] = op[t]
  BY <1>1 DEF ThreadsRun
<1>3. \A t \in Thread : pc'[t] = "none" <=> t \notin Created(sched)
  BY <1>1, <1>2 DEF ThreadsRun, ThreadsOK
<1>4. \A t \in Thread : pc'[t] \in {"lock", "wait"} => int_save[t] = INTR_OFF
  BY <1>1, <1>2 DEF ThreadsRun, ThreadsOK
<1>5. Names(kbd_buf, sched.status, pc', op')
  <2>1. \A t \in Thread : sched.status[t] = TASK_BLOCKED
                            => pc'[t] = pc[t] /\ op'[t] = op[t]
    BY <1>1, <1>2 DEF ThreadsRun
  <2>2. \A t \in Thread : pc'[t] \in InMutex <=> pc[t] \in InMutex
    BY <1>1, <1>2 DEF ThreadsRun, InMutex
  <2>3. PICK p2, o2 : p2 = pc' /\ o2 = op'
    OBVIOUS
  <2>4. Names(kbd_buf, sched.status, pc, op)
    BY <1>1 DEF ThreadsRun
  <2>5. /\ \A t \in Thread : sched.status[t] = TASK_BLOCKED
                            => p2[t] = pc[t] /\ o2[t] = op[t]
        /\ \A t \in Thread : p2[t] \in InMutex <=> pc[t] \in InMutex
    BY <2>1, <2>2, <2>3
  <2>6. Names(kbd_buf, sched.status, p2, o2)
    BY <2>4, <2>5, NamesFrame
  <2> QED
    BY <2>3, <2>6
<1>6. ThreadsOK(sched', fault', pc', op', int_save', kbd_buf')
  BY <1>1, <1>2, <1>3, <1>4, <1>5 DEF ThreadsRun, ThreadsOK
<1> QED
  BY <1>6 DEF ThreadsInv, LooseAfter, Loose

\* The same, with the interrupt flag all that changes in the machine.
LEMMA OwnCodeIntr ==
  ASSUME ThreadsInv, fault = "none",
         NEW w \in Location, pc' = [pc EXCEPT ![running] = w],
         w \notin {"none", "lock", "wait"},
         w = "unlock" <=> pc[running] \in {"wait", "unlock"},
         NEW i \in {INTR_ON, INTR_OFF}, SetIntr(i), w # "code" => i = INTR_OFF,
         NEW o \in Op, op' = [op EXCEPT ![running] = o],
         UNCHANGED <<int_save, kbd_buf>>
  PROVE  ThreadsInv'
<1>1. ThreadsRun
  BY RunsThreads
<1>2. PICK p : p = pc'
  OBVIOUS
<1>3. p[running] = w /\ \A t \in Thread \ {running} : p[t] = pc[t]
  BY <1>1, <1>2 DEF ThreadsRun
<1>4. IntrSetStatus(i) /\ UNCHANGED <<sched, stack, stack_top, fault>>
  BY DEF SetIntr
<1>5. LooseAfter(p)
  BY <1>1, <1>3, <1>4, LooseIntr DEF ThreadsRun
<1>6. LooseAfter(pc')
  BY <1>2, <1>5
<1> QED
  BY <1>4, <1>6, OwnCode

\* The steps that only move the running thread and set the interrupt flag.
LEMMA MovesKept ==
  ASSUME ThreadsInv,
         \/ Booted \/ KernelThreadEntry \/ GetChar \/ ThreadResume \/ Done
  PROVE  ThreadsInv'
<1>1. fault = "none"
  BY DEF Booted, KernelThreadEntry, GetChar, ThreadResume, Done, At
<1>2. ThreadsRun
  BY <1>1, RunsThreads
<1>3. op[running] \in Op /\ op = [op EXCEPT ![running] = op[running]]
      /\ INTR_ON \in {INTR_ON, INTR_OFF} /\ INTR_OFF \in {INTR_ON, INTR_OFF}
  BY <1>2 DEF ThreadsRun
<1>4. CASE Booted \/ KernelThreadEntry \/ Done
  <2>1. /\ pc[running] \in {"boot", "entry", "done"}
        /\ pc' = [pc EXCEPT ![running] = "code"] /\ SetIntr(INTR_ON)
        /\ UNCHANGED <<op, int_save, kbd_buf>>
    BY <1>4 DEF Booted, KernelThreadEntry, Done, At, Goto
  <2>2. "code" \in Location /\ op' = [op EXCEPT ![running] = op[running]]
    BY <1>3, <2>1 DEF Location
  <2> QED
    BY <1>1, <1>3, <2>1, <2>2, OwnCodeIntr
<1>5. CASE GetChar
  <2>1. /\ pc[running] = "code" /\ SetIntr(INTR_OFF)
        /\ pc' = [pc EXCEPT ![running] = "loop"]
        /\ op' = [op EXCEPT ![running] = "get"]
        /\ UNCHANGED <<int_save, kbd_buf>>
    BY <1>5 DEF GetChar, At, Goto
  <2>2. "loop" \in Location /\ "get" \in Op
    BY DEF Location, Op
  <2> QED
    BY <1>1, <1>3, <2>1, <2>2, OwnCodeIntr
<1>6. CASE ThreadResume
  <2>1. PICK w : w = IF pc[running] = "lock" THEN "down" ELSE "unlock"
    OBVIOUS
  <2>2. /\ pc[running] \in {"lock", "wait"} /\ SetIntr(int_save[running])
        /\ pc' = [pc EXCEPT ![running] = w]
        /\ UNCHANGED <<op, int_save, kbd_buf>>
    BY <1>6, <2>1 DEF ThreadResume, At, Goto
  <2>3. SetIntr(INTR_OFF)
    BY <1>2, <2>2 DEF ThreadsRun, ThreadsOK
  <2>4. w \in Location /\ op' = [op EXCEPT ![running] = op[running]]
        /\ w \notin {"none", "lock", "wait", "code"}
        /\ (w = "unlock" <=> pc[running] \in {"wait", "unlock"})
    BY <1>3, <2>1, <2>2 DEF Location
  <2> QED
    BY <1>1, <1>3, <2>2, <2>3, <2>4, OwnCodeIntr
<1> QED
  BY <1>4, <1>5, <1>6

\* A handler finds the ring full and is left in the loop of ioq_putchar, on
\* the stack of the thread it has interrupted.
LEMMA StuckKept ==
  ASSUME ThreadsInv, NEW b, NEW c, KeyStuck(b, c)
  PROVE  ThreadsInv'
<1>1. /\ fault = "none" /\ cpu.intr = INTR_ON
      /\ stack' = [stack EXCEPT ![running] = Append(@, "ALL")]
      /\ stack_top' = [stack_top EXCEPT ![running] = Len(stack[running]) + 1]
      /\ cpu' = [cpu EXCEPT !.intr = INTR_OFF]
      /\ op' = [op EXCEPT ![running] = "put"]
      /\ pc' = [pc EXCEPT ![running] = "loop"]
      /\ UNCHANGED <<sched, fault, int_save, kbd_buf>>
  BY DEF KeyStuck, KeyIntr, IntrSetStatus, Goto
<1>2. ThreadsRun
  BY <1>1, RunsThreads
<1>3. pc[running] = "code"
  BY <1>1, <1>2 DEF ThreadsRun, INTR_ON, INTR_OFF
<1>4. LooseAfter(pc')
  <2>1. stack \in [Thread -> Seq(Frame)] /\ stack_top \in [Thread -> Nat] /\ cpu \in Cpu
    BY <1>2 DEF ThreadsRun, Loose, LooseOK
  <2>2. stack' \in [Thread -> Seq(Frame)] /\ stack_top' \in [Thread -> Nat]
    <3>1. Append(stack[running], "ALL") \in Seq(Frame) /\ Len(stack[running]) + 1 \in Nat
      BY <1>2, <2>1 DEF ThreadsRun, Frame
    <3> QED
      BY <1>1, <2>1, <3>1
  <2>3. cpu' \in Cpu /\ cpu'.intr = INTR_OFF
    BY <1>1, <2>1 DEF Cpu
  <2>4. \A t \in Created(sched) \ {running} : Parked(t, stack', pc')
    <3>1. \A t \in Thread \ {running} : stack'[t] = stack[t] /\ pc'[t] = pc[t]
      BY <1>1, <1>2, <2>1 DEF ThreadsRun
    <3> QED
      BY <1>1, <1>2, <3>1 DEF ThreadsRun, Loose, LooseOK, Parked, Created
  <2> QED
    BY <1>1, <1>2, <2>2, <2>3, <2>4 DEF ThreadsRun, Loose, LooseOK, LooseAfter
<1>5. "loop" \in Location /\ "put" \in Op
  BY DEF Location, Op
<1> QED
  BY <1>1, <1>3, <1>4, <1>5, OwnCode

\* main() creates a thread.
LEMMA SpawnKept ==
  ASSUME ThreadsInv, NEW t \in Thread, ThreadRun(t)
  PROVE  ThreadsInv' /\ Spawned(sched', sched, t)
<1>1. /\ fault = "none" /\ pc[running] = "boot" /\ pc[t] = "none"
      /\ sched' = thread_run(sched, t, PRIO_NUM - 1)
      /\ thread_stack_init(t)
      /\ pc' = [pc EXCEPT ![t] = "entry"]
      /\ UNCHANGED <<cpu, fault, op, int_save, kbd_buf>>
  BY DEF ThreadRun, At
<1>2. ThreadsRun
  BY <1>1, RunsThreads
<1>3. t \notin Created(sched) /\ sched.status[t] = NO_TCB /\ t # running
  BY <1>1, <1>2 DEF ThreadsRun, ThreadsOK, Created
<1>4. Spawned(sched', sched, t)
  <2>1. PICK r, prio : r = sched' /\ prio = PRIO_NUM - 1
    OBVIOUS
  <2>2. prio \in Prio
    BY <2>1, SchedulerAssumption DEF Prio
  <2>3. r = thread_run(sched, t, prio) /\ sched.status[sched.running] = TASK_RUNNING
    BY <1>1, <1>2, <2>1 DEF ThreadsRun
  <2>4. Spawned(r, sched, t)
    BY <1>2, <1>3, <2>2, <2>3, CreateSound DEF ThreadsRun
  <2> QED
    BY <2>1, <2>4
<1>5. /\ pc' \in [Thread -> Location] /\ pc'[t] = "entry"
      /\ \A x \in Thread \ {t} : pc'[x] = pc[x]
  BY <1>1, <1>2 DEF ThreadsRun, Location
<1>6. LooseAfter(pc')
  <2>1. PICK p : p = pc'
    OBVIOUS
  <2>2. p[t] = "entry" /\ \A x \in Thread \ {t} : p[x] = pc[x]
    BY <1>5, <2>1
  <2>3. LooseAfter(p)
    BY <1>1, <1>2, <1>3, <1>4, <2>2, LooseSpawn DEF ThreadsRun
  <2> QED
    BY <2>1, <2>3
<1>7. /\ Created(sched') = Created(sched) \cup {t}
      /\ sched'.status = [sched.status EXCEPT ![t] = TASK_READY]
  BY <1>4 DEF Spawned
<1>8. \A x \in Thread : sched'.status[x] = TASK_BLOCKED
                          <=> sched.status[x] = TASK_BLOCKED
  <2>1. sched.status \in [Thread -> Status]
    BY <1>2 DEF ThreadsRun, SchedState
  <2> QED
    BY <1>3, <1>7, <2>1 DEF TASK_READY, TASK_BLOCKED, NO_TCB
<1>9. Names(kbd_buf, sched'.status, pc', op)
  <2>1. PICK st, p : st = sched'.status /\ p = pc'
    OBVIOUS
  <2>2. /\ \A x \in Thread : st[x] = TASK_BLOCKED <=> sched.status[x] = TASK_BLOCKED
        /\ \A x \in Thread : p[x] \in InMutex <=> pc[x] \in InMutex
    BY <1>1, <1>5, <1>8, <2>1 DEF InMutex
  <2>3. \A x \in Thread : sched.status[x] = TASK_BLOCKED => p[x] = pc[x]
    BY <1>3, <1>5, <2>1 DEF NO_TCB, TASK_BLOCKED
  <2>4. Names(kbd_buf, st, p, op)
    BY <1>2, <2>2, <2>3, NamesFrame DEF ThreadsRun
  <2> QED
    BY <2>1, <2>4
<1>10. \A x \in Thread : pc'[x] = "none" <=> x \notin Created(sched')
  BY <1>2, <1>5, <1>7 DEF ThreadsRun, ThreadsOK
<1>11. \A x \in Thread : pc'[x] \in {"lock", "wait"} => int_save[x] = INTR_OFF
  BY <1>2, <1>5 DEF ThreadsRun, ThreadsOK
<1>12. ThreadsOK(sched', fault', pc', op', int_save', kbd_buf')
  BY <1>1, <1>2, <1>5, <1>9, <1>10, <1>11 DEF ThreadsRun, ThreadsOK
<1> QED
  BY <1>4, <1>6, <1>12 DEF ThreadsInv, LooseAfter, Loose

\* The running thread sleeps, in mutex_lock or in ioq_wait.
LEMMA BlockKept ==
  ASSUME ThreadsInv, SemWait \/ IoqWait
  PROVE  ThreadsInv'
<1>1. PICK where : where = IF kbd_buf.mtx.sem.val = 0 THEN "lock" ELSE "wait"
  OBVIOUS
<1>2. /\ fault = "none" /\ Block(where) /\ pc[running] \in {"loop", "down"}
  BY <1>1 DEF SemWait, IoqWait, Locking, At
<1>3. ThreadsRun
  BY <1>2, RunsThreads
<1>4. /\ int_save' = [int_save EXCEPT ![running] = cpu.intr]
      /\ pc' = [pc EXCEPT ![running] = where]
      /\ TaskTrap(thread_block(sched)) /\ op' = op
  BY <1>2 DEF Block, Goto
<1>5. where \in {"lock", "wait"} /\ cpu.intr = INTR_OFF
  BY <1>1, <1>2, <1>3 DEF ThreadsRun
<1>6. /\ pc' \in [Thread -> Location] /\ pc'[running] = where
      /\ \A t \in Thread \ {running} : pc'[t] = pc[t]
      /\ int_save' \in [Thread -> {INTR_ON, INTR_OFF}]
      /\ int_save'[running] = INTR_OFF
      /\ \A t \in Thread \ {running} : int_save'[t] = int_save[t]
  BY <1>3, <1>4, <1>5 DEF ThreadsRun, Location
<1>7. PICK s : s = thread_block(sched)
  OBVIOUS
<1>8. Asleep(s, sched)
  BY <1>3, <1>7, BlockSound DEF ThreadsRun
<1>9. /\ Sound(s) /\ PreemptionNoted(s) /\ SameThreads(s, sched)
      /\ s.status = [sched.status EXCEPT ![running] = TASK_BLOCKED]
  BY <1>3, <1>8 DEF Asleep, ThreadsRun
<1>10. LooseAfter(pc') /\ Scheduled(sched', s) /\ fault' # "assert"
  <2>1. PICK p, frame : p = pc' /\ frame = "FAST"
    OBVIOUS
  <2>2. /\ p[running] \in {"lock", "wait"} /\ frame \in Frame /\ frame = "FAST"
        /\ \A t \in Thread \ {running} : p[t] = pc[t]
    BY <1>5, <1>6, <2>1 DEF Frame
  <2>3. MainSchedule(s, [stack EXCEPT ![running] = Append(@, frame)],
                        [stack_top EXCEPT ![running] = Len(stack[running]) + 1])
    BY <1>4, <1>7, <2>1 DEF TaskTrap
  <2>4. Loose
    BY <1>3 DEF ThreadsRun
  <2>5. LooseAfter(p) /\ Scheduled(sched', s) /\ fault' # "assert"
    BY <1>2, <1>9, <2>2, <2>3, <2>4, LooseLeave
  <2> QED
    BY <2>1, <2>5
<1>11. \A t \in Thread : sched'.status[t] = TASK_BLOCKED
                           <=> t = running \/ sched.status[t] = TASK_BLOCKED
  <2>1. /\ sched' \in SchedState /\ Created(sched') = Created(s)
        /\ Queued(sched') = Queued(s) /\ s \in SchedState
    BY <1>9, <1>10 DEF Scheduled, SameThreads, Sound
  <2>2. sched.status \in [Thread -> Status]
    BY <1>3 DEF ThreadsRun, SchedState
  <2> QED
    BY <1>3, <1>9, <2>1, <2>2, SameBlocked DEF ThreadsRun
<1>12. kbd_buf' \in Ioqueue /\ Names(kbd_buf', sched'.status, pc', op)
  <2>1. PICK st, p, q2 : st = sched'.status /\ p = pc' /\ q2 = kbd_buf'
    OBVIOUS
  <2>2. /\ \A t \in Thread : st[t] = TASK_BLOCKED
                               <=> t = running \/ sched.status[t] = TASK_BLOCKED
        /\ p[running] = where /\ \A t \in Thread \ {running} : p[t] = pc[t]
    BY <1>6, <1>11, <2>1
  <2>3. /\ kbd_buf \in Ioqueue /\ Names(kbd_buf, sched.status, pc, op)
        /\ running \in Thread /\ sched.status[running] # TASK_BLOCKED
        /\ pc[running] \notin InMutex /\ op[running] \in Op
    BY <1>2, <1>3 DEF ThreadsRun, InMutex
  <2>4. CASE kbd_buf.mtx.sem.val = 0
    <3>1. q2 = [kbd_buf EXCEPT !.mtx.sem = sem_down_wait(@, running)]
      BY <2>1, <2>4 DEF SemWait, IoqWait
    <3>2. p[running] = "lock"
      BY <1>1, <2>2, <2>4
    <3>3. q2 \in Ioqueue /\ Names(q2, st, p, op)
      BY <2>2, <2>3, <2>4, <3>1, <3>2, NamesQueue
    <3> QED
      BY <2>1, <3>3
  <2>5. CASE kbd_buf.mtx.sem.val # 0
    <3>1. PICK w : w = IF op[running] = "get" THEN "consumer" ELSE "producer"
      OBVIOUS
    <3>2. q2 = Taken(kbd_buf, running, w)
      BY <2>1, <2>5, <3>1 DEF SemWait, IoqWait, waiter, Taken
    <3>3. p[running] = "wait"
      BY <1>1, <2>2, <2>5
    <3>4. q2 \in Ioqueue /\ Names(q2, st, p, op)
      BY <2>2, <2>3, <2>5, <3>1, <3>2, <3>3, NamesWait
    <3> QED
      BY <2>1, <3>4
  <2> QED
    BY <2>4, <2>5
<1>13. \A t \in Thread : pc'[t] = "none" <=> t \notin Created(sched')
  <2>1. Created(sched') = Created(sched)
    BY <1>9, <1>10 DEF Scheduled, SameThreads
  <2> QED
    BY <1>3, <1>5, <1>6, <2>1 DEF ThreadsRun, ThreadsOK
<1>14. \A t \in Thread : pc'[t] \in {"lock", "wait"} => int_save'[t] = INTR_OFF
  BY <1>3, <1>6 DEF ThreadsRun, ThreadsOK
<1>15. ThreadsOK(sched', fault', pc', op', int_save', kbd_buf')
  BY <1>3, <1>4, <1>6, <1>10, <1>12, <1>13, <1>14 DEF ThreadsRun, ThreadsOK
<1> QED
  BY <1>10, <1>15 DEF ThreadsInv, LooseAfter, Loose

\* A step after which the scheduler is s but for a switch, in which w, if it
\* is a thread, has been woken, and after which nobody else is in the mutex.
LEMMA SignalKept ==
  ASSUME ThreadsInv, fault = "none", LooseAfter(pc'), fault' # "assert",
         sched' \in SchedState, NEW s, NEW w, Signalled(s, sched, w),
         Created(sched') = Created(s), Queued(sched') = Queued(s),
         pc' \in [Thread -> Location],
         \A t \in Thread \ {running} : pc'[t] = pc[t],
         pc'[running] \notin {"none", "lock", "wait", "unlock"},
         pc[running] \notin {"wait", "unlock"},
         UNCHANGED <<op, int_save>>, kbd_buf' \in Ioqueue,
         Forgets(kbd_buf', kbd_buf, w)
  PROVE  ThreadsInv'
<1>1. ThreadsRun
  BY RunsThreads
<1>2. \A t \in Thread : sched'.status[t] = TASK_BLOCKED
                          <=> t # w /\ sched.status[t] = TASK_BLOCKED
  <2>1. s \in SchedState
    BY DEF Signalled, Sound
  <2> QED
    BY <2>1, SameBlocked DEF Signalled
<1>3. Names(kbd_buf', sched'.status, pc', op)
  <2>1. PICK st, p, q2 : st = sched'.status /\ p = pc' /\ q2 = kbd_buf'
    OBVIOUS
  <2>2. /\ \A t \in Thread : st[t] = TASK_BLOCKED
                               <=> t # w /\ sched.status[t] = TASK_BLOCKED
        /\ Forgets(q2, kbd_buf, w)
    BY <1>2, <2>1
  <2>3. \A t \in Thread : sched.status[t] = TASK_BLOCKED => p[t] = pc[t]
    BY <1>1, <2>1 DEF ThreadsRun
  <2>4. \A t \in Thread : p[t] \in InMutex <=> pc[t] \in InMutex
    BY <2>1 DEF InMutex
  <2>5. Names(kbd_buf, sched.status, pc, op)
    BY <1>1 DEF ThreadsRun
  <2>6. Names(q2, st, p, op)
    BY <2>2, <2>3, <2>4, <2>5, NamesSignal
  <2> QED
    BY <2>1, <2>6
<1>4. \A t \in Thread : pc'[t] = "none" <=> t \notin Created(sched')
  <2>1. Created(sched') = Created(sched)
    BY DEF Signalled, SameThreads
  <2> QED
    BY <1>1, <2>1 DEF ThreadsRun, ThreadsOK
<1>5. \A t \in Thread : pc'[t] \in {"lock", "wait"} => int_save[t] = INTR_OFF
  BY <1>1 DEF ThreadsRun, ThreadsOK
<1>6. ThreadsOK(sched', fault', pc', op', int_save', kbd_buf')
  BY <1>1, <1>3, <1>4, <1>5 DEF ThreadsRun, ThreadsOK
<1> QED
  BY <1>6 DEF ThreadsInv, LooseAfter, Loose

\* ioq_putchar and ioq_getchar on the record: each forgets the sleeper of the
\* other side and moves one end of the ring.
LEMMA RingMoves ==
  ASSUME NEW q \in Ioqueue, NEW c \in Byte
  PROVE  /\ ioq_putchar(q, c) \in Ioqueue /\ Forgets(ioq_putchar(q, c), q, q.consumer)
         /\ ioq_getchar(q) \in Ioqueue /\ Forgets(ioq_getchar(q), q, q.producer)
<1>1. \A x \in Pos : next_pos_get(x) \in Pos
  BY IoQueueAssumption DEF next_pos_get, Pos
<1>2. q.head \in Pos /\ q.tail \in Pos /\ q.buf \in [Pos -> Byte]
  BY DEF Ioqueue
<1>3. PICK h, l, b : h = next_pos_get(q.head) /\ l = next_pos_get(q.tail)
                     /\ b = [q.buf EXCEPT ![q.head] = c]
  OBVIOUS
<1>4. h \in Pos /\ l \in Pos /\ b \in [Pos -> Byte]
  BY <1>1, <1>2, <1>3
<1>5. /\ ioq_putchar(q, c) = [q EXCEPT !.buf = b, !.head = h, !.consumer = NULL]
      /\ ioq_getchar(q) = [q EXCEPT !.tail = l, !.producer = NULL]
  BY <1>3 DEF ioq_putchar, ioq_getchar
<1> QED
  BY <1>4, <1>5 DEF Ioqueue, Forgets

\* The ASSERT of thread_unblock holds for whoever the queue names.
LEMMA NamedAsleep ==
  ASSUME ThreadsInv, fault = "none"
  PROVE  /\ kbd_buf.consumer \in Thread \cup {NULL}
         /\ kbd_buf.producer \in Thread \cup {NULL}
         /\ ioq_signal_assert(kbd_buf.consumer, sched)
         /\ ioq_signal_assert(kbd_buf.producer, sched)
<1>1. ThreadsRun
  BY RunsThreads
<1>2. /\ kbd_buf.consumer \in Thread \cup {NULL}
      /\ kbd_buf.producer \in Thread \cup {NULL}
  BY <1>1 DEF ThreadsRun, Ioqueue
<1> QED
  BY <1>1, <1>2 DEF ThreadsRun, Names, ioq_signal_assert

\* mutex_unlock: its ASSERTs hold, the mutex is free and its first waiter
\* runnable.
LEMMA UnlockKept ==
  ASSUME ThreadsInv, MutexUnlock
  PROVE  /\ ThreadsInv' /\ sched' = ioq_signal(Waiting(kbd_buf), sched)
         /\ Waiting(kbd_buf) \in Thread \cup {NULL}
         /\ ioq_signal_assert(Waiting(kbd_buf), sched)
         /\ pc' = [pc EXCEPT ![running] = "loop"] /\ fault' = fault
<1>1. fault = "none" /\ pc[running] = "unlock"
  BY DEF MutexUnlock, At
<1>2. ThreadsRun
  BY <1>1, RunsThreads
<1>3. PICK sem : sem = kbd_buf.mtx.sem
  OBVIOUS
<1>4. PICK w : w = Waiting(kbd_buf)
  OBVIOUS
<1>5. /\ sem \in Semaphore /\ sem.val = 0
      /\ ToSet(sem.waiters)
           = {t \in Thread : pc[t] = "lock" /\ sched.status[t] = TASK_BLOCKED}
      /\ IsInjective(sem.waiters)
  <2>1. sem \in Semaphore
    BY <1>2, <1>3 DEF ThreadsRun, Ioqueue, Mutex
  <2> QED
    BY <1>1, <1>2, <1>3, <2>1 DEF ThreadsRun, Names, InMutex
<1>6. sem.waiters # << >> =>
        Head(sem.waiters) \in Thread /\ sched.status[Head(sem.waiters)] = TASK_BLOCKED
  <2>1. sem.waiters \in Seq(Thread)
    BY <1>5 DEF Semaphore
  <2> QED
    BY <1>5, <2>1, PopFront
<1>7. /\ w \in Thread \cup {NULL} /\ ioq_signal_assert(w, sched)
      /\ sem_up_assert(sem, sched) /\ sem_up_wake(sem, sched) = ioq_signal(w, sched)
  BY <1>3, <1>4, <1>5, <1>6, SchedulerAssumption
     DEF Waiting, ioq_signal_assert, sem_up_assert, sem_up_wake, ioq_signal
<1>8. /\ sched' = ioq_signal(w, sched)
      /\ kbd_buf' = [kbd_buf EXCEPT !.mtx.sem = sem_up_put(@), !.mtx.holder = NULL]
      /\ pc' = [pc EXCEPT ![running] = "loop"]
      /\ UNCHANGED <<cpu, stack, stack_top, fault, op, int_save>>
  BY <1>3, <1>7 DEF MutexUnlock, Goto
<1>9. Signalled(sched', sched, w)
  <2>1. PICK r : r = sched'
    OBVIOUS
  <2>2. r = ioq_signal(w, sched) /\ sched.status[sched.running] = TASK_RUNNING
    BY <1>2, <1>8, <2>1 DEF ThreadsRun
  <2>3. Signalled(r, sched, w)
    BY <1>2, <1>7, <2>2, SignalSound DEF ThreadsRun
  <2> QED
    BY <2>1, <2>3
<1>10. /\ pc' \in [Thread -> Location] /\ pc'[running] = "loop"
       /\ \A t \in Thread \ {running} : pc'[t] = pc[t]
  BY <1>2, <1>8 DEF ThreadsRun, Location
<1>11. LooseAfter(pc')
  <2>1. PICK p : p = pc'
    OBVIOUS
  <2>2. \A t \in Thread \ {running} : p[t] = pc[t]
    BY <1>10, <2>1
  <2>3. cpu.intr = INTR_OFF /\ Loose
    BY <1>1, <1>2 DEF ThreadsRun
  <2>4. LooseAfter(p)
    BY <1>1, <1>8, <1>9, <2>2, <2>3, LooseWake
  <2> QED
    BY <2>1, <2>4
<1>12. kbd_buf' \in Ioqueue /\ Names(kbd_buf', sched'.status, pc', op)
  <2>1. PICK st, p, q2 : st = sched'.status /\ p = pc' /\ q2 = kbd_buf'
    OBVIOUS
  <2>2. /\ \A t \in Thread : st[t] = TASK_BLOCKED
              <=> t # Waiting(kbd_buf) /\ sched.status[t] = TASK_BLOCKED
        /\ p[running] = "loop" /\ \A t \in Thread \ {running} : p[t] = pc[t]
    BY <1>4, <1>9, <1>10, <2>1 DEF Signalled
  <2>3. q2 = Given(kbd_buf)
    BY <1>8, <2>1 DEF Given
  <2>4. /\ kbd_buf \in Ioqueue /\ Names(kbd_buf, sched.status, pc, op)
        /\ running \in Thread /\ sched.status[running] # TASK_BLOCKED
    BY <1>2 DEF ThreadsRun
  <2>5. q2 \in Ioqueue /\ Names(q2, st, p, op)
    BY <1>1, <2>2, <2>3, <2>4, NamesUnlock
  <2> QED
    BY <2>1, <2>5
<1>13. \A t \in Thread : pc'[t] = "none" <=> t \notin Created(sched')
  <2>1. Created(sched') = Created(sched)
    BY <1>9 DEF Signalled, SameThreads
  <2> QED
    BY <1>2, <1>10, <2>1 DEF ThreadsRun, ThreadsOK
<1>14. \A t \in Thread : pc'[t] \in {"lock", "wait"} => int_save[t] = INTR_OFF
  BY <1>2, <1>10 DEF ThreadsRun, ThreadsOK
<1>15. ThreadsOK(sched', fault', pc', op', int_save', kbd_buf')
  BY <1>1, <1>2, <1>8, <1>10, <1>12, <1>13, <1>14 DEF ThreadsRun, ThreadsOK
<1> QED
  BY <1>4, <1>7, <1>8, <1>11, <1>15 DEF ThreadsInv, LooseAfter, Loose

\* ioq_getchar past its loop.
LEMMA GetKept ==
  ASSUME ThreadsInv, IoqGet
  PROVE  /\ ThreadsInv' /\ sched' = ioq_signal(kbd_buf.producer, sched)
         /\ kbd_buf' = ioq_getchar(kbd_buf)
         /\ got' = Append(got, kbd_buf.buf[kbd_buf.tail])
         /\ pc' = [pc EXCEPT ![running] = "done"] /\ fault' = fault
<1>1. fault = "none" /\ pc[running] = "loop"
  BY DEF IoqGet, At
<1>2. ThreadsRun
  BY <1>1, RunsThreads
<1>3. PICK w : w = kbd_buf.producer
  OBVIOUS
<1>4. w \in Thread \cup {NULL} /\ ioq_signal_assert(w, sched)
  BY <1>1, <1>3, NamedAsleep
<1>5. /\ sched' = ioq_signal(w, sched) /\ kbd_buf' = ioq_getchar(kbd_buf)
      /\ got' = Append(got, kbd_buf.buf[kbd_buf.tail])
      /\ pc' = [pc EXCEPT ![running] = "done"]
      /\ UNCHANGED <<cpu, stack, stack_top, fault, op, int_save>>
  BY <1>3, <1>4 DEF IoqGet, Goto
<1>6. Signalled(sched', sched, w)
  <2>1. PICK r : r = sched'
    OBVIOUS
  <2>2. r = ioq_signal(w, sched) /\ sched.status[sched.running] = TASK_RUNNING
    BY <1>2, <1>5, <2>1 DEF ThreadsRun
  <2>3. Signalled(r, sched, w)
    BY <1>2, <1>4, <2>2, SignalSound DEF ThreadsRun
  <2> QED
    BY <2>1, <2>3
<1>7. /\ pc' \in [Thread -> Location] /\ pc'[running] = "done"
      /\ \A t \in Thread \ {running} : pc'[t] = pc[t]
  BY <1>2, <1>5 DEF ThreadsRun, Location
<1>8. LooseAfter(pc')
  <2>1. PICK p : p = pc'
    OBVIOUS
  <2>2. \A t \in Thread \ {running} : p[t] = pc[t]
    BY <1>7, <2>1
  <2>3. cpu.intr = INTR_OFF /\ Loose
    BY <1>1, <1>2 DEF ThreadsRun
  <2>4. LooseAfter(p)
    BY <1>1, <1>5, <1>6, <2>2, <2>3, LooseWake
  <2> QED
    BY <2>1, <2>4
<1>9. kbd_buf' \in Ioqueue /\ Forgets(kbd_buf', kbd_buf, w)
  BY <1>2, <1>3, <1>5, RingMoves, IoQueueAssumption DEF ThreadsRun
<1>10. ThreadsInv'
  <2>1. PICK s : s = sched'
    OBVIOUS
  <2>2. /\ Signalled(s, sched, w) /\ sched' \in SchedState
        /\ Created(sched') = Created(s) /\ Queued(sched') = Queued(s)
    BY <1>6, <2>1 DEF Signalled, Sound
  <2>3. UNCHANGED <<op, int_save>> /\ fault' # "assert"
    BY <1>1, <1>5
  <2> QED
    BY <1>1, <1>7, <1>8, <1>9, <2>2, <2>3, SignalKept
<1> QED
  BY <1>3, <1>5, <1>10

\* The end of a keyboard interrupt that had to wait: the handler leaves
\* through main_schedule, without a frame of its own in stack_top.
LEMMA PutKept ==
  ASSUME ThreadsInv, byte \in [Thread -> Byte], IoqPut
  PROVE  /\ ThreadsInv' /\ kbd_buf' = ioq_putchar(kbd_buf, byte[running])
         /\ pc' = [pc EXCEPT ![running] = "code"]
<1>1. fault = "none" /\ pc[running] = "loop"
  BY DEF IoqPut, At
<1>2. ThreadsRun
  BY <1>1, RunsThreads
<1>3. PICK w : w = kbd_buf.consumer
  OBVIOUS
<1>4. w \in Thread \cup {NULL} /\ ioq_signal_assert(w, sched)
  BY <1>1, <1>3, NamedAsleep
<1>5. /\ MainSchedule(ioq_signal(w, sched), stack, stack_top)
      /\ kbd_buf' = ioq_putchar(kbd_buf, byte[running])
      /\ pc' = [pc EXCEPT ![running] = "code"]
      /\ UNCHANGED <<op, int_save>>
  BY <1>3, <1>4 DEF IoqPut, Goto
<1>6. PICK s : s = ioq_signal(w, sched)
  OBVIOUS
<1>7. Signalled(s, sched, w)
  BY <1>2, <1>4, <1>6, SignalSound DEF ThreadsRun
<1>8. /\ pc' \in [Thread -> Location] /\ pc'[running] = "code"
      /\ \A t \in Thread \ {running} : pc'[t] = pc[t]
  BY <1>2, <1>5 DEF ThreadsRun, Location
<1>9. LooseAfter(pc') /\ Scheduled(sched', s) /\ fault' # "assert"
  <2>1. PICK p, stk, top : p = pc' /\ stk = stack /\ top = stack_top
    OBVIOUS
  <2>2. /\ p[running] = "code" /\ \A t \in Thread \ {running} : p[t] = pc[t]
        /\ stk \in [Thread -> Seq(Frame)] /\ top \in [Thread -> Nat]
        /\ MainSchedule(s, stk, top)
    BY <1>2, <1>5, <1>6, <1>8, <2>1 DEF ThreadsRun, Loose, LooseOK
  <2>3. \A t \in Created(sched) : Parked(t, stk, p)
    BY <1>1, <1>2, <2>1, <2>2
       DEF ThreadsRun, Loose, LooseOK, Parked, Created, Away
  <2>4. Loose /\ Sound(s) /\ PreemptionNoted(s) /\ SameThreads(s, sched)
    BY <1>2, <1>7 DEF ThreadsRun, Signalled
  <2>5. LooseAfter(p) /\ Scheduled(sched', s) /\ fault' # "assert"
    BY <1>1, <2>2, <2>3, <2>4, LooseSwitch
  <2> QED
    BY <2>1, <2>5
<1>10. kbd_buf' \in Ioqueue /\ Forgets(kbd_buf', kbd_buf, w)
  <2>1. byte[running] \in Byte
    BY <1>2 DEF ThreadsRun
  <2> QED
    BY <1>2, <1>3, <1>5, <2>1, RingMoves DEF ThreadsRun
<1>11. ThreadsInv'
  <2>1. /\ sched' \in SchedState /\ Created(sched') = Created(s)
        /\ Queued(sched') = Queued(s)
    BY <1>9 DEF Scheduled, SameThreads
  <2>2. UNCHANGED <<op, int_save>>
    BY <1>5
  <2> QED
    BY <1>1, <1>7, <1>8, <1>9, <1>10, <2>1, <2>2, SignalKept
<1> QED
  BY <1>5, <1>11

\* An interrupt whose handler blocks nobody, in the code of a thread: its
\* frame is saved and main_schedule entered.
LEMMA LooseInterrupt ==
  ASSUME ThreadsInv, fault = "none", NEW s, Interrupt(s), pc' = pc,
         Sound(s), PreemptionNoted(s), SameThreads(s, sched)
  PROVE  /\ LooseAfter(pc') /\ Scheduled(sched', s) /\ fault' # "assert"
         /\ pc[running] = "code"
<1>1. ThreadsRun
  BY RunsThreads
<1>2. pc[running] = "code"
  BY <1>1 DEF ThreadsRun, Interrupt, INTR_ON, INTR_OFF
<1>3. PICK p, frame : p = pc' /\ frame = "ALL"
  OBVIOUS
<1>4. /\ p[running] = "code" /\ frame = "ALL" /\ frame \in Frame
      /\ \A t \in Thread \ {running} : p[t] = pc[t]
  BY <1>2, <1>3 DEF Frame
<1>5. MainSchedule(s, [stack EXCEPT ![running] = Append(@, frame)],
                      [stack_top EXCEPT ![running] = Len(stack[running]) + 1])
  BY <1>3 DEF Interrupt
<1>6. Loose
  BY <1>1 DEF ThreadsRun
<1>7. LooseAfter(p) /\ Scheduled(sched', s) /\ fault' # "assert"
  BY <1>4, <1>5, <1>6, LooseLeave
<1> QED
  BY <1>2, <1>3, <1>7

\* A tick, and a byte that completes no character.
LEMMA TickKept ==
  ASSUME ThreadsInv, TimerIntr \/ \E b \in ScanByte : KeyIgnored(b)
  PROVE  ThreadsInv'
<1>1. fault = "none"
  BY DEF TimerIntr, KeyIgnored, KeyIntr
<1>2. ThreadsRun
  BY <1>1, RunsThreads
<1>3. UNCHANGED <<pc, op, int_save, kbd_buf>>
  BY DEF TimerIntr, KeyIgnored, inputVars
<1>4. PICK s : /\ Interrupt(s) /\ Sound(s) /\ PreemptionNoted(s)
               /\ SameThreads(s, sched) /\ s.status = sched.status
  <2>1. CASE TimerIntr
    <3>1. PICK s : s = intr_timer_handler(sched)
      OBVIOUS
    <3>2. /\ Sound(s) /\ PreemptionNoted(s) /\ SameThreads(s, sched)
          /\ s.status = sched.status
      BY <1>2, <3>1, TimerSound DEF ThreadsRun
    <3>3. Interrupt(s)
      BY <2>1, <3>1 DEF TimerIntr
    <3> QED
      BY <3>2, <3>3
  <2>2. CASE \E b \in ScanByte : KeyIgnored(b)
    <3>1. PICK s : s = sched
      OBVIOUS
    <3>2. Interrupt(s)
      BY <2>2, <3>1 DEF KeyIgnored
    <3>3. Sound(s) /\ PreemptionNoted(s) /\ SameThreads(s, sched)
      BY <1>2, <3>1 DEF ThreadsRun, SameThreads, SamePids
    <3> QED
      BY <3>1, <3>2, <3>3
  <2> QED
    BY <2>1, <2>2
<1>5. LooseAfter(pc') /\ Scheduled(sched', s) /\ fault' # "assert"
  BY <1>1, <1>3, <1>4, LooseInterrupt
<1>6. /\ Created(sched') = Created(sched)
      /\ \A t \in Thread : sched'.status[t] = TASK_BLOCKED
                             <=> sched.status[t] = TASK_BLOCKED
  <2>1. /\ sched' \in SchedState /\ Created(sched') = Created(s)
        /\ Queued(sched') = Queued(s) /\ s \in SchedState
    BY <1>4, <1>5 DEF Scheduled, SameThreads, Sound
  <2> QED
    BY <1>4, <2>1, SameBlocked DEF SameThreads
<1>7. Names(kbd_buf, sched'.status, pc, op)
  <2>1. PICK st : st = sched'.status
    OBVIOUS
  <2>2. \A t \in Thread : st[t] = TASK_BLOCKED <=> sched.status[t] = TASK_BLOCKED
    BY <1>6, <2>1
  <2>3. Names(kbd_buf, st, pc, op)
    BY <1>2, <2>2, NamesFrame DEF ThreadsRun
  <2> QED
    BY <2>1, <2>3
<1>8. ThreadsOK(sched', fault', pc', op', int_save', kbd_buf')
  BY <1>2, <1>3, <1>5, <1>6, <1>7 DEF ThreadsRun, ThreadsOK
<1> QED
  BY <1>5, <1>8 DEF ThreadsInv, LooseAfter, Loose

\* A character for which the ring has room.
LEMMA StoredKept ==
  ASSUME ThreadsInv, NEW b, NEW c \in Byte, KeyStored(b, c)
  PROVE  /\ ThreadsInv' /\ kbd_buf' = ioq_putchar(kbd_buf, c)
         /\ Interrupt(ioq_signal(kbd_buf.consumer, sched))
<1>1. fault = "none" /\ UNCHANGED <<pc, op, int_save>>
  BY DEF KeyStored, KeyIntr
<1>2. ThreadsRun
  BY <1>1, RunsThreads
<1>3. PICK w : w = kbd_buf.consumer
  OBVIOUS
<1>4. w \in Thread \cup {NULL} /\ ioq_signal_assert(w, sched)
  BY <1>1, <1>3, NamedAsleep
<1>5. /\ Interrupt(ioq_signal(w, sched)) /\ kbd_buf' = ioq_putchar(kbd_buf, c)
  BY <1>3, <1>4 DEF KeyStored
<1>6. PICK s : s = ioq_signal(w, sched)
  OBVIOUS
<1>7. Signalled(s, sched, w)
  BY <1>2, <1>4, <1>6, SignalSound DEF ThreadsRun
<1>8. LooseAfter(pc') /\ Scheduled(sched', s) /\ fault' # "assert"
      /\ pc[running] = "code"
  <2>1. Interrupt(s) /\ pc' = pc
    BY <1>1, <1>5, <1>6
  <2>2. Sound(s) /\ PreemptionNoted(s) /\ SameThreads(s, sched)
    BY <1>7 DEF Signalled
  <2> QED
    BY <1>1, <2>1, <2>2, LooseInterrupt
<1>9. kbd_buf' \in Ioqueue /\ Forgets(kbd_buf', kbd_buf, w)
  BY <1>2, <1>3, <1>5, RingMoves DEF ThreadsRun
<1>10. ThreadsInv'
  <2>1. /\ sched' \in SchedState /\ Created(sched') = Created(s)
        /\ Queued(sched') = Queued(s)
    BY <1>8 DEF Scheduled, SameThreads
  <2>2. /\ pc' \in [Thread -> Location]
        /\ \A t \in Thread \ {running} : pc'[t] = pc[t]
        /\ pc'[running] = "code"
    BY <1>1, <1>2, <1>8 DEF ThreadsRun
  <2>3. UNCHANGED <<op, int_save>>
    BY <1>1
  <2> QED
    BY <1>1, <1>7, <1>8, <1>9, <2>1, <2>2, <2>3, SignalKept
<1> QED
  BY <1>3, <1>5, <1>10

\* What a thread has been handed or typed; it depends on nothing but itself.
DataInv ==
  /\ byte \in [Thread -> Byte] /\ kbd \in KeyboardState
  /\ typed \in Seq(Byte) /\ got \in Seq(Byte) /\ stuck \in BOOLEAN

\* The decoder of the keyboard keeps the types of its variables.
LEMMA KeyboardTyped ==
  ASSUME NEW k \in KeyboardState, NEW b
  PROVE  intr_keyboard_handler(k, b).k \in KeyboardState
<1>1. PICK sc : sc = scan_code_get(k, b)
  OBVIOUS
<1>2. sc.k \in KeyboardState
  <2>1. PICK e \in BOOLEAN : e = (~k.ext_scan_code /\ b = \hE0)
    OBVIOUS
  <2>2. sc.k = [k EXCEPT !.ext_scan_code = e]
    BY <1>1, <2>1 DEF scan_code_get
  <2> QED
    BY <2>1, <2>2 DEF KeyboardState
<1>3. PICK ctl : ctl = ctrl_key_proc(sc.k, sc.code)
  OBVIOUS
<1>4. ctl.k \in KeyboardState
  <2>1. PICK x, up, make : /\ x = sc.k /\ up \in BOOLEAN
                           /\ up = ~break_code(sc.code)
                           /\ make = break_code2make_code(sc.code)
    BY DEF break_code
  <2>2. x \in KeyboardState
    BY <1>2, <2>1
  <2>3. /\ [x EXCEPT !.ctrl_status = up] \in KeyboardState
        /\ [x EXCEPT !.alt_status = up] \in KeyboardState
        /\ [x EXCEPT !.shift_status = up] \in KeyboardState
        /\ [x EXCEPT !.caps_lock_status = ~@] \in KeyboardState
    BY <2>1, <2>2 DEF KeyboardState
  <2>4. \/ ctl.k = [x EXCEPT !.ctrl_status = up]
        \/ ctl.k = [x EXCEPT !.alt_status = up]
        \/ ctl.k = [x EXCEPT !.shift_status = up]
        \/ ctl.k = [x EXCEPT !.caps_lock_status = ~@]
        \/ ctl.k = x
    BY <1>3, <2>1 DEF ctrl_key_proc
  <2> QED
    BY <2>2, <2>3, <2>4
<1> QED
  BY <1>1, <1>2, <1>3, <1>4 DEF intr_keyboard_handler

\* The data keep their types in every step.
LEMMA DataKept ==
  ASSUME ThreadsInv, DataInv, [Next]_vars
  PROVE  DataInv'
<1>1. CASE UNCHANGED <<byte, kbd, typed, got, stuck>>
  BY <1>1 DEF DataInv
<1>2. CASE IoqGet
  <2>1. /\ got' = Append(got, kbd_buf.buf[kbd_buf.tail])
        /\ UNCHANGED <<byte, kbd, typed, stuck>>
    BY <1>2, GetKept DEF IoqGet
  <2>2. kbd_buf.buf[kbd_buf.tail] \in Byte
    BY DEF ThreadsInv, ThreadsOK, Ioqueue
  <2> QED
    BY <2>1, <2>2 DEF DataInv
<1>3. ASSUME NEW b \in ScanByte, NEW c \in Byte \cup {NO_CHAR}, KeyIntr(b, c),
             UNCHANGED got, byte' = byte \/ byte' = [byte EXCEPT ![running] = c],
             typed' = typed \/ typed' = Append(typed, c),
             stuck' = stuck \/ stuck' = TRUE,
             c \in Byte \/ (byte' = byte /\ typed' = typed)
      PROVE  DataInv'
  <2>1. kbd' \in KeyboardState
    <3>1. kbd' = intr_keyboard_handler(kbd, b).k /\ kbd \in KeyboardState
      BY <1>3 DEF KeyIntr, DataInv
    <3> QED
      BY <3>1, KeyboardTyped
  <2>2. byte' \in [Thread -> Byte]
    BY <1>3 DEF DataInv
  <2>3. typed' \in Seq(Byte)
    BY <1>3 DEF DataInv
  <2> QED
    BY <1>3, <2>1, <2>2, <2>3 DEF DataInv
<1>4. CASE \E b \in ScanByte : KeyIgnored(b)
  <2>1. PICK b \in ScanByte : KeyIgnored(b)
    BY <1>4
  <2>2. PICK c : c = NO_CHAR
    OBVIOUS
  <2>3. /\ KeyIntr(b, c) /\ UNCHANGED <<byte, typed, got, stuck>>
        /\ c \in Byte \cup {NO_CHAR}
    BY <2>1, <2>2 DEF KeyIgnored
  <2> QED
    BY <1>3, <2>3
<1>5. CASE \E b \in ScanByte, c \in Byte : KeyStored(b, c) \/ KeyStuck(b, c)
  <2>1. PICK b \in ScanByte, c \in Byte : KeyStored(b, c) \/ KeyStuck(b, c)
    BY <1>5
  <2>2. /\ KeyIntr(b, c) /\ UNCHANGED got /\ typed' = Append(typed, c)
        /\ byte' = byte \/ byte' = [byte EXCEPT ![running] = c]
        /\ stuck' = stuck \/ stuck' = TRUE
    BY <2>1 DEF KeyStored, KeyStuck
  <2> QED
    BY <1>3, <2>2
<1>6. \/ UNCHANGED <<byte, kbd, typed, got, stuck>> \/ IoqGet
      \/ \E b \in ScanByte : KeyIgnored(b)
      \/ \E b \in ScanByte, c \in Byte : KeyStored(b, c) \/ KeyStuck(b, c)
  BY DEF Next, Code, ThreadRun, Booted, KernelThreadEntry, GetChar, SemWait,
         IoqWait, Block, ThreadResume, MutexUnlock, Done, IoqPut, TimerIntr,
         Halted, vars, inputVars
<1> QED
  BY <1>1, <1>2, <1>4, <1>5, <1>6

\* The invariant of every run, whether or not the ring has been full.
InputInv == ThreadsInv /\ DataInv

\* It holds at first and every step keeps it.
LEMMA InputKept ==
  /\ Init => InputInv
  /\ InputInv /\ [Next]_vars => InputInv'
<1>1. ASSUME Init PROVE InputInv
  <2>1. ThreadsInv
    BY <1>1, ThreadsStart
  <2>2. DataInv
    <3>1. byte \in [Thread -> Byte] /\ typed \in Seq(Byte) /\ got \in Seq(Byte)
      BY <1>1, IoQueueAssumption DEF Init
    <3>2. kbd \in KeyboardState
      BY <1>1 DEF Init, keyboard_init, KeyboardState
    <3>3. stuck \in BOOLEAN
      BY <1>1 DEF Init
    <3> QED
      BY <3>1, <3>2, <3>3 DEF DataInv
  <2> QED
    BY <2>1, <2>2 DEF InputInv
<1>2. ASSUME InputInv, [Next]_vars PROVE InputInv'
  <2>1. ThreadsInv /\ DataInv /\ byte \in [Thread -> Byte]
    BY <1>2 DEF InputInv, DataInv
  <2>2. DataInv'
    BY <1>2, <2>1, DataKept
  <2>3. ThreadsInv'
    <3>1. CASE \E t \in Thread : ThreadRun(t)
      BY <2>1, <3>1, SpawnKept
    <3>2. CASE Booted \/ KernelThreadEntry \/ GetChar \/ ThreadResume \/ Done
      BY <2>1, <3>2, MovesKept
    <3>3. CASE SemWait \/ IoqWait
      BY <2>1, <3>3, BlockKept
    <3>4. CASE MutexUnlock
      BY <2>1, <3>4, UnlockKept
    <3>5. CASE IoqGet
      BY <2>1, <3>5, GetKept
    <3>6. CASE IoqPut
      BY <2>1, <3>6, PutKept
    <3>7. CASE TimerIntr \/ \E b \in ScanByte : KeyIgnored(b)
      BY <2>1, <3>7, TickKept
    <3>8. CASE \E b \in ScanByte, c \in Byte : KeyStored(b, c) \/ KeyStuck(b, c)
      BY <2>1, <3>8, StoredKept, StuckKept
    <3>9. CASE UNCHANGED vars
      BY <2>1, <3>9
         DEF vars, machineVars, inputVars, ThreadsInv, Loose
    <3> QED
      BY <1>2, <3>1, <3>2, <3>3, <3>4, <3>5, <3>6, <3>7, <3>8, <3>9
         DEF Next, Code, Halted
  <2> QED
    BY <2>2, <2>3 DEF InputInv
<1> QED
  BY <1>1, <1>2

\* InputInv is an invariant of keyboard input.
THEOREM InputInvariant == Spec => []InputInv
BY InputKept, PTL DEF Spec

\* Keyboard input is type correct: statuses, stacks and queue keep their types
\* for any ring, any keyboard and any number of readers, full ring or not.
THEOREM InputTypeCorrect == Spec => []TypeOK
<1>1. InputInv => TypeOK
  BY DEF InputInv, ThreadsInv, Loose, LooseOK, ThreadsOK, DataInv, TypeOK,
         MachineTypeOK, Cpu
<1> QED
  BY <1>1, InputInvariant, PTL

-----------------------------------------------------------------------------
(* Until a handler has found the ring full                                 *)

\* The threads that an interrupt, if it comes, finds in their own code.
InCode == {t \in Thread : pc[t] \notin {"none", "boot", "entry", "lock", "wait"}}

\* What a thread goes through in a call of ioq_getchar or ioq_putchar.
InCall == {"loop", "lock", "down", "wait", "unlock", "done"}

\* The frames are the right ones, only consumers are in calls of the queue,
\* and the idle thread, which is none, is always there to be run.
Quiet ==
  /\ MachineInv(InCode) /\ fault = "none" /\ pc[idle] # "none"
  /\ \A t \in Thread : pc[t] \in InCall => t \in Consumer /\ op[t] = "get"

QuietInv == ~stuck => Quiet

\* The idle thread is runnable, so the scheduler finds a thread.
LEMMA QuietStepped ==
  ASSUME ThreadsInv', NEW d, d = InCode', Stepped(d),
         fault' = "none" \/ (sched'.running = NULL => Queued(sched') = {}),
         pc'[idle] # "none",
         \A t \in Thread : pc'[t] \in InCall => t \in Consumer /\ op'[t] = "get"
  PROVE  Quiet'
<1>1. idle \in Queued(sched')
  <2>1. /\ sched'.status \in [Thread -> Status] /\ idle \in Thread
        /\ sched'.status[idle] = TASK_BLOCKED => pc'[idle] \in {"lock", "wait"}
        /\ idle \in Created(sched') /\ idle \notin Consumer
    BY SchedulerAssumption, InputAssumption
       DEF ThreadsInv, Loose, LooseOK, ThreadsOK, Names, SchedState
  <2>2. sched'.status[idle] # TASK_BLOCKED
    BY <2>1 DEF InCall
  <2> QED
    BY <2>1, <2>2
       DEF Queued, Created, Status, TASK_BLOCKED, TASK_RUNNING, TASK_READY, NO_TCB
<1>2. fault' = "none"
  BY <1>1 DEF Stepped, MachineOK
<1>3. MachineInv(InCode)'
  BY DEF Stepped, MachineInv
<1> QED
  BY <1>2, <1>3 DEF Quiet

\* What the steps before that moment start from.
LEMMA QuietRuns ==
  ASSUME InputInv, Quiet
  PROVE  /\ ThreadsInv /\ ThreadsRun /\ MachineInv(InCode) /\ fault = "none"
         /\ pc[idle] # "none" /\ idle \in Thread /\ idle \notin Consumer
         /\ \A t \in Thread : pc[t] \in InCall => t \in Consumer /\ op[t] = "get"
<1>1. ThreadsInv /\ fault = "none"
  BY DEF InputInv, Quiet
<1>2. ThreadsRun
  BY <1>1, RunsThreads
<1> QED
  BY <1>1, <1>2, SchedulerAssumption, InputAssumption DEF Quiet

\* The steps that only move the running thread and set the interrupt flag.
LEMMA QuietMoves ==
  ASSUME InputInv, Quiet,
         \/ Booted \/ KernelThreadEntry \/ GetChar \/ ThreadResume \/ Done
  PROVE  Quiet'
<1>1. /\ ThreadsInv /\ ThreadsRun /\ MachineInv(InCode) /\ fault = "none"
      /\ pc[idle] # "none"
      /\ \A t \in Thread : pc[t] \in InCall => t \in Consumer /\ op[t] = "get"
  BY QuietRuns
<1>2. ThreadsInv'
  BY <1>1, MovesKept
<1>3. PICK w, i : /\ pc' = [pc EXCEPT ![running] = w]
                  /\ w \in {"code", "loop", "down", "unlock"}
                  /\ i \in {INTR_ON, INTR_OFF} /\ SetIntr(i)
                  /\ w # "code" => running \in Consumer /\ op'[running] = "get"
                  /\ \A t \in Thread \ {running} : op'[t] = op[t]
  <2>1. CASE Booted \/ KernelThreadEntry \/ Done
    <3>1. /\ pc' = [pc EXCEPT ![running] = "code"] /\ SetIntr(INTR_ON) /\ op' = op
      BY <2>1 DEF Booted, KernelThreadEntry, Done, At, Goto
    <3> QED
      BY <3>1
  <2>2. CASE GetChar
    <3>1. /\ pc' = [pc EXCEPT ![running] = "loop"] /\ SetIntr(INTR_OFF)
          /\ op' = [op EXCEPT ![running] = "get"] /\ running \in Consumer
      BY <2>2 DEF GetChar, At, Goto
    <3> QED
      BY <1>1, <3>1 DEF ThreadsRun
  <2>3. CASE ThreadResume
    <3>1. PICK w : w = IF pc[running] = "lock" THEN "down" ELSE "unlock"
      OBVIOUS
    <3>2. /\ pc[running] \in {"lock", "wait"} /\ SetIntr(int_save[running])
          /\ pc' = [pc EXCEPT ![running] = w] /\ op' = op
      BY <2>3, <3>1 DEF ThreadResume, At, Goto
    <3>3. w \in {"down", "unlock"} /\ int_save[running] \in {INTR_ON, INTR_OFF}
          /\ running \in Consumer /\ op[running] = "get"
      BY <1>1, <3>1, <3>2 DEF ThreadsRun, InCall
    <3> QED
      BY <3>2, <3>3
  <2> QED
    BY <2>1, <2>2, <2>3
<1>4. PICK c, d : c = InCode /\ d = InCode'
  OBVIOUS
<1>5. /\ pc'[running] = w /\ \A t \in Thread \ {running} : pc'[t] = pc[t]
  BY <1>1, <1>3 DEF ThreadsRun
<1>6. Stepped(d)
  <2>1. d = c \cup {running} /\ MachineInv(c)
    BY <1>1, <1>3, <1>4, <1>5 DEF InCode, ThreadsRun
  <2>2. IntrSetStatus(i) /\ UNCHANGED <<sched, stack, stack_top, fault>>
    BY <1>3 DEF SetIntr
  <2> QED
    BY <1>1, <1>3, <2>1, <2>2, MachineIntr
<1>7. fault' = "none"
  BY <1>1, <1>3 DEF SetIntr
<1>8. \A t \in Thread : pc'[t] \in InCall => t \in Consumer /\ op'[t] = "get"
  BY <1>1, <1>3, <1>5 DEF InCall
<1>9. pc'[idle] # "none"
  BY <1>1, <1>3, <1>5, SchedulerAssumption
<1> QED
  BY <1>2, <1>4, <1>6, <1>7, <1>8, <1>9, QuietStepped

\* A reader goes to sleep.
LEMMA QuietBlock ==
  ASSUME InputInv, Quiet, SemWait \/ IoqWait
  PROVE  Quiet'
<1>1. /\ ThreadsInv /\ ThreadsRun /\ MachineInv(InCode) /\ fault = "none"
      /\ pc[idle] # "none"
      /\ \A t \in Thread : pc[t] \in InCall => t \in Consumer /\ op[t] = "get"
  BY QuietRuns
<1>2. ThreadsInv'
  BY <1>1, BlockKept
<1>3. PICK where : /\ pc[running] \in {"loop", "down"} /\ where \in {"lock", "wait"}
                   /\ pc' = [pc EXCEPT ![running] = where] /\ op' = op
                   /\ TaskTrap(thread_block(sched))
  BY DEF SemWait, IoqWait, Locking, At, Block, Goto
<1>4. /\ pc'[running] = where /\ \A t \in Thread \ {running} : pc'[t] = pc[t]
  BY <1>1, <1>3 DEF ThreadsRun
<1>5. PICK s : s = thread_block(sched)
  OBVIOUS
<1>6. Asleep(s, sched)
  BY <1>1, <1>5, BlockSound DEF ThreadsRun
<1>7. /\ Sound(s) /\ PreemptionNoted(s) /\ SameThreads(s, sched)
      /\ s.running = running
  BY <1>1, <1>6 DEF Asleep, ThreadsRun
<1>8. PICK c, d : c = InCode /\ d = InCode'
  OBVIOUS
<1>9. Stepped(d) /\ Scheduled(sched', s)
  <2>1. PICK frame \in Frame : frame = "FAST"
    BY DEF Frame
  <2>2. /\ MachineInv(c) /\ (running \in d <=> frame = "ALL")
        /\ \A t \in Thread \ {running} : t \in d <=> t \in c
    BY <1>1, <1>3, <1>4, <1>8, <2>1 DEF InCode
  <2>3. MainSchedule(s, [stack EXCEPT ![running] = Append(@, frame)],
                        [stack_top EXCEPT ![running] = Len(stack[running]) + 1])
    BY <1>3, <1>5, <2>1 DEF TaskTrap
  <2> QED
    BY <1>1, <1>7, <2>2, <2>3, MachineSwitch
<1>10. sched'.running = NULL => Queued(sched') = {}
  BY <1>9 DEF Scheduled
<1>11. \A t \in Thread : pc'[t] \in InCall => t \in Consumer /\ op'[t] = "get"
  BY <1>1, <1>3, <1>4 DEF InCall
<1>12. pc'[idle] # "none"
  BY <1>1, <1>3, <1>4, SchedulerAssumption
<1> QED
  BY <1>2, <1>8, <1>9, <1>10, <1>11, <1>12, QuietStepped

\* A reader wakes another one, or a writer, or nobody.
LEMMA QuietWake ==
  ASSUME InputInv, Quiet, MutexUnlock \/ IoqGet
  PROVE  Quiet'
<1>1. /\ ThreadsInv /\ ThreadsRun /\ MachineInv(InCode) /\ fault = "none"
      /\ pc[idle] # "none"
      /\ \A t \in Thread : pc[t] \in InCall => t \in Consumer /\ op[t] = "get"
  BY QuietRuns
<1>2. PICK w, where :
           /\ ThreadsInv' /\ sched' = ioq_signal(w, sched)
           /\ w \in Thread \cup {NULL} /\ ioq_signal_assert(w, sched)
           /\ pc' = [pc EXCEPT ![running] = where] /\ where \in {"loop", "done"}
           /\ fault' = fault
  <2>1. CASE MutexUnlock
    BY <1>1, <2>1, UnlockKept
  <2>2. CASE IoqGet
    BY <1>1, <2>2, GetKept, NamedAsleep
  <2> QED
    BY <2>1, <2>2
<1>3. /\ UNCHANGED <<cpu, stack, stack_top, op>>
      /\ pc[running] \in {"unlock", "loop"}
  BY DEF MutexUnlock, IoqGet, At
<1>4. /\ pc'[running] = where /\ \A t \in Thread \ {running} : pc'[t] = pc[t]
  BY <1>1, <1>2 DEF ThreadsRun
<1>5. PICK c, d : c = InCode /\ d = InCode'
  OBVIOUS
<1>6. d = c /\ MachineInv(c)
  BY <1>1, <1>2, <1>3, <1>4, <1>5 DEF InCode
<1>7. Stepped(c)
  <2>1. CASE w = NULL
    <3>1. sched' = sched
      BY <1>2, <2>1 DEF ioq_signal
    <3> QED
      BY <1>2, <1>3, <1>6, <3>1 DEF Stepped, MachineInv
  <2>2. CASE w # NULL
    <3>1. w \in Thread /\ sched.status[w] = TASK_BLOCKED
          /\ sched' = thread_unblock(sched, w)
      BY <1>2, <2>2 DEF ioq_signal, ioq_signal_assert
    <3>2. UNCHANGED <<cpu, stack, stack_top, fault>>
      BY <1>2, <1>3
    <3> QED
      BY <1>1, <1>6, <3>1, <3>2, MachineWake
  <2> QED
    BY <2>1, <2>2
<1>8. \A t \in Thread : pc'[t] \in InCall => t \in Consumer /\ op'[t] = "get"
  BY <1>1, <1>3, <1>4 DEF InCall
<1>9. pc'[idle] # "none" /\ fault' = "none"
  BY <1>1, <1>2, <1>4, SchedulerAssumption
<1> QED
  BY <1>2, <1>5, <1>6, <1>7, <1>8, <1>9, QuietStepped

\* An interrupt whose handler does not block.
LEMMA QuietInterrupt ==
  ASSUME InputInv, Quiet, ThreadsInv', UNCHANGED <<pc, op>>,
         NEW s, Interrupt(s), Sound(s), PreemptionNoted(s),
         SameThreads(s, sched), s.running = running
  PROVE  Quiet'
<1>1. /\ ThreadsInv /\ ThreadsRun /\ MachineInv(InCode) /\ fault = "none"
      /\ pc[idle] # "none"
      /\ \A t \in Thread : pc[t] \in InCall => t \in Consumer /\ op[t] = "get"
  BY QuietRuns
<1>2. pc[running] = "code"
  BY <1>1 DEF ThreadsRun, Interrupt, INTR_ON, INTR_OFF
<1>3. PICK c, d : c = InCode /\ d = InCode'
  OBVIOUS
<1>4. Stepped(d) /\ Scheduled(sched', s)
  <2>1. PICK frame \in Frame : frame = "ALL"
    BY DEF Frame
  <2>2. /\ MachineInv(c) /\ (running \in d <=> frame = "ALL")
        /\ \A t \in Thread \ {running} : t \in d <=> t \in c
    BY <1>1, <1>2, <1>3, <2>1 DEF InCode, ThreadsRun
  <2>3. MainSchedule(s, [stack EXCEPT ![running] = Append(@, frame)],
                        [stack_top EXCEPT ![running] = Len(stack[running]) + 1])
    BY <2>1 DEF Interrupt
  <2> QED
    BY <1>1, <2>2, <2>3, MachineSwitch
<1>5. sched'.running = NULL => Queued(sched') = {}
  BY <1>4 DEF Scheduled
<1>6. /\ pc'[idle] # "none"
      /\ \A t \in Thread : pc'[t] \in InCall => t \in Consumer /\ op'[t] = "get"
  BY <1>1
<1> QED
  BY <1>3, <1>4, <1>5, <1>6, QuietStepped

\* main() creates a thread.
LEMMA QuietSpawn ==
  ASSUME InputInv, Quiet, NEW t \in Thread, ThreadRun(t)
  PROVE  Quiet'
<1>1. /\ ThreadsInv /\ ThreadsRun /\ MachineInv(InCode) /\ fault = "none"
      /\ pc[idle] # "none"
      /\ \A x \in Thread : pc[x] \in InCall => x \in Consumer /\ op[x] = "get"
  BY QuietRuns
<1>2. ThreadsInv'
  BY <1>1, SpawnKept
<1>3. /\ pc[t] = "none" /\ sched' = thread_run(sched, t, PRIO_NUM - 1)
      /\ thread_stack_init(t) /\ pc' = [pc EXCEPT ![t] = "entry"]
      /\ UNCHANGED <<cpu, fault, op>>
  BY DEF ThreadRun
<1>4. pc'[t] = "entry" /\ \A x \in Thread \ {t} : pc'[x] = pc[x]
  BY <1>1, <1>3 DEF ThreadsRun
<1>5. PICK c, d : c = InCode /\ d = InCode'
  OBVIOUS
<1>6. Stepped(d)
  <2>1. d = c \ {t} /\ MachineInv(c)
    BY <1>1, <1>3, <1>4, <1>5 DEF InCode
  <2>2. t \notin Created(sched)
    BY <1>1, <1>3 DEF ThreadsRun, ThreadsOK
  <2>3. PICK prio \in Prio : prio = PRIO_NUM - 1
    BY SchedulerAssumption DEF Prio
  <2>4. sched' = thread_run(sched, t, prio)
    BY <1>3, <2>3
  <2>5. UNCHANGED <<cpu, fault>>
    BY <1>3
  <2> QED
    BY <1>1, <1>3, <2>1, <2>2, <2>4, <2>5, MachineSpawn
<1>7. pc'[idle] # "none" /\ fault' = "none"
  BY <1>1, <1>3, <1>4, SchedulerAssumption
<1>8. \A x \in Thread : pc'[x] \in InCall => x \in Consumer /\ op'[x] = "get"
  BY <1>1, <1>3, <1>4 DEF InCall
<1> QED
  BY <1>2, <1>5, <1>6, <1>7, <1>8, QuietStepped

\* The frames stay right until a handler finds the ring full.
LEMMA QuietKept ==
  /\ Init => QuietInv
  /\ InputInv /\ QuietInv /\ [Next]_vars => QuietInv'
<1>1. ASSUME Init PROVE QuietInv
  <2>1. PICK c : c = InCode
    OBVIOUS
  <2>2. MachineInv(c)
    BY <1>1, MachineStart DEF Init
  <2>3. fault = "none" /\ pc[idle] # "none" /\ \A t \in Thread : pc[t] \notin InCall
    BY <1>1, SchedulerAssumption DEF Init, MachineInit, InCall
  <2> QED
    BY <2>1, <2>2, <2>3 DEF QuietInv, Quiet
<1>2. ASSUME InputInv, QuietInv, [Next]_vars, ~stuck' PROVE Quiet'
  <2>1. ThreadsInv' /\ DataInv
    BY <1>2, InputKept DEF InputInv
  <2>2. ~stuck /\ ~\E b \in ScanByte, c \in Byte : KeyStuck(b, c)
    BY <1>2, <2>1
       DEF Next, Code, ThreadRun, Booted, KernelThreadEntry, GetChar, SemWait,
           IoqWait, Block, ThreadResume, MutexUnlock, IoqGet, Done, IoqPut,
           KeyIgnored, KeyStored, KeyStuck, TimerIntr, Halted, vars, inputVars
  <2>3. Quiet
    BY <1>2, <2>2 DEF QuietInv
  <2>4. /\ ThreadsInv /\ ThreadsRun /\ fault = "none"
        /\ \A t \in Thread : pc[t] \in InCall => t \in Consumer /\ op[t] = "get"
    BY <1>2, <2>3, QuietRuns
  <2>5. CASE \E t \in Thread : ThreadRun(t)
    BY <1>2, <2>3, <2>5, QuietSpawn
  <2>6. CASE Booted \/ KernelThreadEntry \/ GetChar \/ ThreadResume \/ Done
    BY <1>2, <2>3, <2>6, QuietMoves
  <2>7. CASE SemWait \/ IoqWait
    BY <1>2, <2>3, <2>7, QuietBlock
  <2>8. CASE MutexUnlock \/ IoqGet
    BY <1>2, <2>3, <2>8, QuietWake
  <2>9. ~IoqPut
    BY <2>4 DEF IoqPut, At, InCall, ThreadsRun
  <2>10. CASE TimerIntr
    <3>1. PICK s : s = intr_timer_handler(sched)
      OBVIOUS
    <3>2. /\ Sound(s) /\ PreemptionNoted(s) /\ SameThreads(s, sched)
          /\ s.running = running
      BY <2>4, <3>1, TimerSound DEF ThreadsRun
    <3>3. Interrupt(s) /\ UNCHANGED <<pc, op>>
      BY <2>10, <3>1 DEF TimerIntr, inputVars
    <3> QED
      BY <1>2, <2>1, <2>3, <3>2, <3>3, QuietInterrupt
  <2>11. CASE \E b \in ScanByte : KeyIgnored(b)
    <3>1. PICK s : s = sched
      OBVIOUS
    <3>2. /\ Sound(s) /\ PreemptionNoted(s) /\ SameThreads(s, sched)
          /\ s.running = running
      BY <2>4, <3>1 DEF ThreadsRun, SameThreads, SamePids
    <3>3. Interrupt(s) /\ UNCHANGED <<pc, op>>
      BY <2>11, <3>1 DEF KeyIgnored
    <3> QED
      BY <1>2, <2>1, <2>3, <3>2, <3>3, QuietInterrupt
  <2>12. CASE \E b \in ScanByte, c \in Byte : KeyStored(b, c)
    <3>1. PICK b \in ScanByte, c \in Byte : KeyStored(b, c)
      BY <2>12
    <3>2. PICK w : w = kbd_buf.consumer
      OBVIOUS
    <3>3. PICK s : s = ioq_signal(w, sched)
      OBVIOUS
    <3>4. Interrupt(s) /\ UNCHANGED <<pc, op>>
      BY <2>4, <3>1, <3>2, <3>3, StoredKept DEF KeyStored
    <3>5. w \in Thread \cup {NULL} /\ ioq_signal_assert(w, sched)
      BY <2>4, <3>2, NamedAsleep
    <3>6. Signalled(s, sched, w)
      BY <2>4, <3>3, <3>5, SignalSound DEF ThreadsRun
    <3>7. /\ Sound(s) /\ PreemptionNoted(s) /\ SameThreads(s, sched)
          /\ s.running = running
      BY <2>4, <3>6 DEF Signalled, ThreadsRun
    <3> QED
      BY <1>2, <2>1, <2>3, <3>4, <3>7, QuietInterrupt
  <2>13. CASE UNCHANGED vars
    BY <2>3, <2>13
       DEF vars, machineVars, inputVars, Quiet, MachineInv, InCode
  <2> QED
    BY <1>2, <2>2, <2>5, <2>6, <2>7, <2>8, <2>9, <2>10, <2>11, <2>12, <2>13
       DEF Next, Code, Halted
<1> QED
  BY <1>1, <1>2 DEF QuietInv

\* InputInv and QuietInv are invariants of keyboard input.
THEOREM InputQuietInvariant == Spec => [](InputInv /\ QuietInv)
BY InputKept, QuietKept, PTL DEF Spec

\* The mutex of the queue has exactly the holder it names, everyone asleep in
\* ioq_wait is named by the side it waits for and nobody else is, no ASSERT of
\* thread_unblock fails, and nothing stops the machine before the ring is full
\* for the first time: for any ring and any number of readers.
THEOREM SleepersAreNamed == Spec => []SleeperNamed
<1>1. InputInv /\ QuietInv => SleeperNamed
  <2> SUFFICES ASSUME InputInv, QuietInv PROVE SleeperNamed
    OBVIOUS
  <2>1. /\ Names(kbd_buf, sched.status, pc, op) /\ fault # "assert"
        /\ op \in [Thread -> Op]
    BY DEF InputInv, ThreadsInv, ThreadsOK
  <2>2. fault # "none" => stuck
    BY DEF QuietInv, Quiet
  <2>3. PICK H : H = {t \in Thread : pc[t] \in {"wait", "unlock"}}
    OBVIOUS
  <2>4. /\ \A t, u \in H : t = u
        /\ kbd_buf.mtx.sem.val = IF H = {} THEN 1 ELSE 0
        /\ \A t \in Thread : kbd_buf.mtx.holder = t <=> t \in H
    BY <2>1, <2>3 DEF Names, InMutex
  <2>5. \A t \in Thread :
          pc[t] = "wait" /\ sched.status[t] = TASK_BLOCKED <=>
             \/ kbd_buf.consumer = t /\ op[t] = "get"
             \/ kbd_buf.producer = t /\ op[t] = "put"
    BY <2>1 DEF Names, Op
  <2>6. /\ \A t \in Thread : kbd_buf.consumer = t => op[t] = "get"
        /\ \A t \in Thread : kbd_buf.producer = t => op[t] = "put"
    BY <2>1 DEF Names
  <2> QED
    BY <2>1, <2>2, <2>3, <2>4, <2>5, <2>6 DEF SleeperNamed
<1> QED
  BY <1>1, InputQuietInvariant, PTL

-----------------------------------------------------------------------------
(* The ring                                                                *)

\* The remainder of a number below twice the divisor.
LEMMA ModSmall ==
  ASSUME NEW b \in Nat \ {0}, NEW x \in Nat, x < b + b
  PROVE  x % b = IF x < b THEN x ELSE x - b
OBVIOUS

\* The number of bytes in the ring, and the place of the i-th of them.
Fill(q) == IF q.head >= q.tail THEN q.head - q.tail
                             ELSE q.head + BUF_SIZE - q.tail

Place(q, i) == IF q.tail + i - 1 < BUF_SIZE THEN q.tail + i - 1
                                           ELSE q.tail + i - 1 - BUF_SIZE

\* Content is what lies between tail and head.
LEMMA ContentIs ==
  ASSUME NEW q \in Ioqueue
  PROVE  /\ Fill(q) \in 0 .. BUF_SIZE - 1
         /\ Content(q) \in Seq(Byte) /\ Len(Content(q)) = Fill(q)
         /\ \A i \in 1 .. Fill(q) :
              Place(q, i) \in Pos /\ Content(q)[i] = q.buf[Place(q, i)]
<1>1. /\ BUF_SIZE \in Nat \ {0} /\ q.head \in 0 .. BUF_SIZE - 1
      /\ q.tail \in 0 .. BUF_SIZE - 1 /\ q.buf \in [Pos -> Byte]
  BY IoQueueAssumption DEF Ioqueue, Pos
<1>2. PICK n : n = Fill(q)
  OBVIOUS
<1>3. n \in 0 .. BUF_SIZE - 1 /\ (q.head + BUF_SIZE - q.tail) % BUF_SIZE = n
  <2>1. PICK x : x = q.head + BUF_SIZE - q.tail
    OBVIOUS
  <2>2. x \in Nat /\ x < BUF_SIZE + BUF_SIZE
    BY <1>1, <2>1
  <2>3. x % BUF_SIZE = IF x < BUF_SIZE THEN x ELSE x - BUF_SIZE
    BY <1>1, <2>2, ModSmall
  <2> QED
    BY <1>1, <1>2, <2>1, <2>3 DEF Fill
<1>4. ASSUME NEW i \in 1 .. n
      PROVE  /\ (q.tail + i - 1) % BUF_SIZE = Place(q, i) /\ Place(q, i) \in Pos
             /\ q.buf[Place(q, i)] \in Byte
  <2>1. PICK x : x = q.tail + i - 1
    OBVIOUS
  <2>2. x \in Nat /\ x < BUF_SIZE + BUF_SIZE
    BY <1>1, <1>3, <2>1
  <2>3. x % BUF_SIZE = IF x < BUF_SIZE THEN x ELSE x - BUF_SIZE
    BY <1>1, <2>2, ModSmall
  <2>4. Place(q, i) \in Pos /\ x % BUF_SIZE = Place(q, i)
    BY <1>1, <2>1, <2>2, <2>3 DEF Place, Pos
  <2> QED
    BY <1>1, <2>1, <2>4
<1>5. Content(q) = [i \in 1 .. n |-> q.buf[Place(q, i)]]
  BY <1>3, <1>4 DEF Content
<1>6. PICK f : f = [i \in 1 .. n |-> q.buf[Place(q, i)]]
  OBVIOUS
<1>7. f \in [1 .. n -> Byte] /\ n \in Nat
  BY <1>3, <1>4, <1>6
<1>8. f \in Seq(Byte) /\ Len(f) = n
  BY <1>7
<1> QED
  BY <1>2, <1>3, <1>4, <1>5, <1>6, <1>8

\* ioq_putchar on a ring that is not full adds the byte at the end.
LEMMA ContentPut ==
  ASSUME NEW q \in Ioqueue, ~ioq_full(q), NEW c \in Byte
  PROVE  Content(ioq_putchar(q, c)) = Append(Content(q), c)
<1>1. /\ BUF_SIZE \in Nat \ {0} /\ q.head \in 0 .. BUF_SIZE - 1
      /\ q.tail \in 0 .. BUF_SIZE - 1 /\ q.buf \in [Pos -> Byte]
  BY IoQueueAssumption DEF Ioqueue, Pos
<1>2. PICK h : h = (q.head + 1) % BUF_SIZE
  OBVIOUS
<1>3. h = IF q.head + 1 < BUF_SIZE THEN q.head + 1 ELSE 0
  <2>1. PICK x : x = q.head + 1
    OBVIOUS
  <2>2. x \in Nat /\ x < BUF_SIZE + BUF_SIZE
    BY <1>1, <2>1
  <2>3. x % BUF_SIZE = IF x < BUF_SIZE THEN x ELSE x - BUF_SIZE
    BY <1>1, <2>2, ModSmall
  <2> QED
    BY <1>1, <1>2, <2>1, <2>3
<1>4. h # q.tail
  BY <1>2 DEF ioq_full, next_pos_get
<1>5. PICK r : r = ioq_putchar(q, c)
  OBVIOUS
<1>6. /\ r.head = h /\ r.tail = q.tail /\ r.buf = [q.buf EXCEPT ![q.head] = c]
      /\ r \in Ioqueue
  <2>1. r \in Ioqueue
    BY <1>5, RingMoves
  <2>2. PICK b : b = [q.buf EXCEPT ![q.head] = c]
    OBVIOUS
  <2>3. r = [q EXCEPT !.buf = b, !.head = h, !.consumer = NULL]
    BY <1>2, <1>5, <2>2 DEF ioq_putchar, next_pos_get
  <2> QED
    BY <2>1, <2>2, <2>3 DEF Ioqueue
<1>7. Fill(r) = Fill(q) + 1 /\ Place(q, Fill(q) + 1) = q.head
  BY <1>1, <1>3, <1>4, <1>6 DEF Fill, Place
<1>8. /\ Content(r) \in Seq(Byte) /\ Len(Content(r)) = Fill(q) + 1
      /\ Content(q) \in Seq(Byte) /\ Len(Content(q)) = Fill(q)
      /\ Fill(q) \in Nat
      /\ \A i \in 1 .. Fill(q) : Content(q)[i] = q.buf[Place(q, i)]
      /\ \A i \in 1 .. Fill(q) + 1 : Content(r)[i] = r.buf[Place(r, i)]
      /\ \A i \in 1 .. Fill(q) : Place(q, i) \in Pos
  <2>1. /\ Content(q) \in Seq(Byte) /\ Len(Content(q)) = Fill(q)
        /\ Fill(q) \in 0 .. BUF_SIZE - 1
        /\ \A i \in 1 .. Fill(q) :
             Place(q, i) \in Pos /\ Content(q)[i] = q.buf[Place(q, i)]
    BY ContentIs
  <2>2. /\ Content(r) \in Seq(Byte) /\ Len(Content(r)) = Fill(r)
        /\ \A i \in 1 .. Fill(r) :
             Place(r, i) \in Pos /\ Content(r)[i] = r.buf[Place(r, i)]
    BY <1>6, ContentIs
  <2> QED
    BY <1>1, <1>7, <2>1, <2>2
<1>9. ASSUME NEW i \in 1 .. Fill(q) + 1
      PROVE  Content(r)[i] = Append(Content(q), c)[i]
  <2>1. Place(r, i) = Place(q, i)
    BY <1>6 DEF Place
  <2>2. CASE i = Fill(q) + 1
    <3>1. Content(r)[i] = c
      BY <1>1, <1>6, <1>7, <1>8, <2>1, <2>2 DEF Pos
    <3> QED
      BY <1>8, <2>2, <3>1
  <2>3. CASE i # Fill(q) + 1
    <3>1. i \in 1 .. Fill(q)
      BY <1>8, <2>3
    <3>2. Place(q, i) # q.head
      BY <1>1, <3>1 DEF Place, Fill
    <3>3. Content(r)[i] = q.buf[Place(q, i)]
      BY <1>1, <1>6, <1>8, <2>1, <3>1, <3>2
    <3>4. Append(Content(q), c)[i] = Content(q)[i]
      BY <1>8, <3>1
    <3> QED
      BY <1>8, <3>1, <3>3, <3>4
  <2> QED
    BY <2>2, <2>3
<1>10. /\ Append(Content(q), c) \in Seq(Byte)
       /\ Len(Append(Content(q), c)) = Fill(q) + 1
  BY <1>8
<1>11. Content(r) = Append(Content(q), c)
  <2>1. PICK x, y : x = Content(r) /\ y = Append(Content(q), c)
    OBVIOUS
  <2>2. x \in Seq(Byte) /\ y \in Seq(Byte) /\ Len(x) = Len(y)
        /\ \A i \in 1 .. Len(x) : x[i] = y[i]
    BY <1>8, <1>9, <1>10, <2>1
  <2> QED
    BY <2>1, <2>2, SeqEqual
<1> QED
  BY <1>5, <1>11

\* ioq_getchar on a ring that is not empty takes the oldest byte.
LEMMA ContentGet ==
  ASSUME NEW q \in Ioqueue, ~ioq_empty(q)
  PROVE  /\ Content(q) # << >> /\ Head(Content(q)) = q.buf[q.tail]
         /\ Content(ioq_getchar(q)) = Tail(Content(q))
<1>1. /\ BUF_SIZE \in Nat \ {0} /\ q.head \in 0 .. BUF_SIZE - 1
      /\ q.tail \in 0 .. BUF_SIZE - 1 /\ q.buf \in [Pos -> Byte]
      /\ q.head # q.tail
  BY IoQueueAssumption DEF Ioqueue, Pos, ioq_empty
<1>2. PICK h : h = (q.tail + 1) % BUF_SIZE
  OBVIOUS
<1>3. h = IF q.tail + 1 < BUF_SIZE THEN q.tail + 1 ELSE 0
  <2>1. PICK x : x = q.tail + 1
    OBVIOUS
  <2>2. x \in Nat /\ x < BUF_SIZE + BUF_SIZE
    BY <1>1, <2>1
  <2>3. x % BUF_SIZE = IF x < BUF_SIZE THEN x ELSE x - BUF_SIZE
    BY <1>1, <2>2, ModSmall
  <2> QED
    BY <1>1, <1>2, <2>1, <2>3
<1>4. PICK r : r = ioq_getchar(q)
  OBVIOUS
<1>5. /\ r.head = q.head /\ r.tail = h /\ r.buf = q.buf /\ r \in Ioqueue
  <2>1. r \in Ioqueue
    BY <1>4, RingMoves, IoQueueAssumption
  <2> QED
    BY <1>2, <1>4, <2>1 DEF ioq_getchar, next_pos_get, Ioqueue
<1>6. Fill(q) = Fill(r) + 1 /\ Place(q, 1) = q.tail
  BY <1>1, <1>3, <1>5 DEF Fill, Place
<1>7. /\ Content(q) \in Seq(Byte) /\ Len(Content(q)) = Fill(r) + 1
      /\ Content(r) \in Seq(Byte) /\ Len(Content(r)) = Fill(r)
      /\ Fill(r) \in Nat
      /\ \A i \in 1 .. Fill(r) + 1 : Content(q)[i] = q.buf[Place(q, i)]
      /\ \A i \in 1 .. Fill(r) : Content(r)[i] = q.buf[Place(r, i)]
  <2>1. /\ Content(q) \in Seq(Byte) /\ Len(Content(q)) = Fill(q)
        /\ \A i \in 1 .. Fill(q) :
             Place(q, i) \in Pos /\ Content(q)[i] = q.buf[Place(q, i)]
    BY ContentIs
  <2>2. /\ Content(r) \in Seq(Byte) /\ Len(Content(r)) = Fill(r)
        /\ Fill(r) \in 0 .. BUF_SIZE - 1
        /\ \A i \in 1 .. Fill(r) :
             Place(r, i) \in Pos /\ Content(r)[i] = r.buf[Place(r, i)]
    BY <1>5, ContentIs
  <2> QED
    BY <1>1, <1>5, <1>6, <2>1, <2>2
<1>8. ASSUME NEW i \in 1 .. Fill(r)
      PROVE  Content(r)[i] = Tail(Content(q))[i]
  <2>1. Place(r, i) = Place(q, i + 1)
    <3>1. Fill(r) \in 0 .. BUF_SIZE - 1
      BY <1>5, ContentIs
    <3> QED
      BY <1>1, <1>3, <1>5, <3>1 DEF Place
  <2>2. i + 1 \in 1 .. Fill(r) + 1
    BY <1>7
  <2>3. Content(q)[i + 1] = q.buf[Place(q, i + 1)] /\ Content(r)[i] = q.buf[Place(r, i)]
    BY <1>7, <2>2
  <2>4. Tail(Content(q))[i] = Content(q)[i + 1]
    BY <1>7
  <2> QED
    BY <2>1, <2>3, <2>4
<1>9. /\ Tail(Content(q)) \in Seq(Byte) /\ Len(Tail(Content(q))) = Fill(r)
       /\ Content(q) # << >> /\ Head(Content(q)) = q.buf[q.tail]
  BY <1>6, <1>7
<1>10. Content(r) = Tail(Content(q))
  <2>1. PICK x, y : x = Content(r) /\ y = Tail(Content(q))
    OBVIOUS
  <2>2. x \in Seq(Byte) /\ y \in Seq(Byte) /\ Len(x) = Len(y)
        /\ \A i \in 1 .. Len(x) : x[i] = y[i]
    BY <1>7, <1>8, <1>9, <2>1
  <2> QED
    BY <2>1, <2>2, SeqEqual
<1> QED
  BY <1>4, <1>9, <1>10

-----------------------------------------------------------------------------
(* The order of the characters, and readers that sleep                     *)

\* Taking from the second of two sequences and appending to the first.
LEMMA MoveOver ==
  ASSUME NEW x \in Seq(Byte), NEW y \in Seq(Byte), y # << >>
  PROVE  x \o y = Append(x, Head(y)) \o Tail(y)
<1>1. /\ Head(y) \in Byte /\ Tail(y) \in Seq(Byte) /\ <<Head(y)>> \in Seq(Byte)
      /\ Len(y) \in Nat \ {0} /\ Head(y) = y[1]
  BY HeadTailProperties
<1>2. y = <<Head(y)>> \o Tail(y)
  <2>1. SubSeq(y, 1, Len(y)) = <<y[1]>> \o SubSeq(y, 2, Len(y))
    <3>1. 1 \in 1 .. Len(y) /\ Len(y) \in 1 .. Len(y) /\ 1 + 1 = 2
      BY <1>1
    <3> QED
      BY <3>1, SubSeqRecursiveFirst
  <2> QED
    BY <1>1, <2>1, SubSeqFull, TailIsSubSeq
<1>3. Append(x, Head(y)) = x \o <<Head(y)>>
  BY <1>1, AppendIsConcat
<1> QED
  BY <1>1, <1>2, <1>3, ConcatAssociative

\* Appending to a concatenation.
LEMMA AppendOver ==
  ASSUME NEW x \in Seq(Byte), NEW y \in Seq(Byte), NEW c \in Byte
  PROVE  Append(x \o y, c) = x \o Append(y, c)
<1>1. /\ <<c>> \in Seq(Byte) /\ x \o y \in Seq(Byte)
  BY ConcatProperties
<1>2. Append(x \o y, c) = (x \o y) \o <<c>> /\ Append(y, c) = y \o <<c>>
  BY <1>1, AppendIsConcat
<1> QED
  BY <1>1, <1>2, ConcatAssociative

SameRing(r, q) == r.head = q.head /\ r.tail = q.tail /\ r.buf = q.buf

\* But for the two ends of an interrupt that had to wait, the ring changes
\* only where a character is put or taken, and a reader is named as a sleeper
\* when the ring is empty or when it has been woken from mutex_lock.
LEMMA RingSteps ==
  ASSUME InputInv, [Next]_vars, ~IoqPut,
         ~\E b \in ScanByte, c \in Byte : KeyStuck(b, c)
  PROVE  \/ /\ SameRing(kbd_buf', kbd_buf) /\ UNCHANGED <<typed, got>>
            /\ \/ kbd_buf'.consumer = kbd_buf.consumer
               \/ pc[running] = "down" \/ ioq_empty(kbd_buf)
         \/ /\ ~ioq_empty(kbd_buf) /\ kbd_buf' = ioq_getchar(kbd_buf)
            /\ got' = Append(got, kbd_buf.buf[kbd_buf.tail]) /\ typed' = typed
         \/ \E c \in Byte : /\ ~ioq_full(kbd_buf)
                            /\ kbd_buf' = ioq_putchar(kbd_buf, c)
                            /\ typed' = Append(typed, c) /\ got' = got
<1>1. ThreadsInv /\ kbd_buf \in Ioqueue
  BY DEF InputInv, ThreadsInv, ThreadsOK
<1>2. CASE SemWait
  <2>1. /\ kbd_buf' = [kbd_buf EXCEPT !.mtx.sem = sem_down_wait(@, running)]
        /\ UNCHANGED <<typed, got>>
    BY <1>2 DEF SemWait, Block
  <2> QED
    BY <1>1, <2>1 DEF SameRing, Ioqueue
<1>3. CASE IoqWait
  <2>1. PICK w : w = waiter
    OBVIOUS
  <2>2. /\ kbd_buf' = [kbd_buf EXCEPT !.mtx.sem = sem_down_take(@),
                                      !.mtx.holder = running, ![w] = running]
        /\ UNCHANGED <<typed, got>>
        /\ pc[running] = "down" \/ (pc[running] = "loop" /\ Stuck)
    BY <1>3, <2>1 DEF IoqWait, Block, Locking, At
  <2>3. w = "consumer" \/ w = "producer"
    BY <2>1 DEF waiter
  <2>4. SameRing(kbd_buf', kbd_buf)
    BY <1>1, <2>2, <2>3 DEF SameRing, Ioqueue
  <2>5. CASE op[running] = "get"
    BY <2>2, <2>4, <2>5 DEF Stuck
  <2>6. CASE op[running] # "get"
    <3>1. w = "producer"
      BY <2>1, <2>6 DEF waiter
    <3>2. kbd_buf'.consumer = kbd_buf.consumer
      BY <1>1, <2>2, <3>1 DEF Ioqueue
    <3> QED
      BY <2>2, <2>4, <3>2
  <2> QED
    BY <2>5, <2>6
<1>4. CASE MutexUnlock
  <2>1. /\ \/ kbd_buf' = [kbd_buf EXCEPT !.mtx.sem = sem_up_put(@),
                                         !.mtx.holder = NULL]
           \/ kbd_buf' = kbd_buf
        /\ UNCHANGED <<typed, got>>
    BY <1>4 DEF MutexUnlock
  <2> QED
    BY <1>1, <2>1 DEF SameRing, Ioqueue
<1>5. CASE IoqGet
  <2>1. /\ kbd_buf' = ioq_getchar(kbd_buf)
        /\ got' = Append(got, kbd_buf.buf[kbd_buf.tail])
    BY <1>1, <1>5, GetKept
  <2>2. ~ioq_empty(kbd_buf) /\ typed' = typed
    BY <1>5 DEF IoqGet, Stuck
  <2> QED
    BY <2>1, <2>2
<1>6. CASE \E b \in ScanByte, c \in Byte : KeyStored(b, c)
  <2>1. PICK b \in ScanByte, c \in Byte : KeyStored(b, c)
    BY <1>6
  <2>2. kbd_buf' = ioq_putchar(kbd_buf, c)
    BY <1>1, <2>1, StoredKept
  <2>3. ~ioq_full(kbd_buf) /\ typed' = Append(typed, c) /\ got' = got
    BY <2>1 DEF KeyStored
  <2> QED
    BY <2>2, <2>3
<1>7. CASE UNCHANGED <<kbd_buf, typed, got>>
  BY <1>7 DEF SameRing
<1>8. \/ SemWait \/ IoqWait \/ MutexUnlock \/ IoqGet
      \/ \E b \in ScanByte, c \in Byte : KeyStored(b, c)
      \/ UNCHANGED <<kbd_buf, typed, got>>
  BY DEF Next, Code, ThreadRun, Booted, KernelThreadEntry, GetChar, ThreadResume,
         Done, KeyIgnored, TimerIntr, Halted, vars, inputVars
<1> QED
  BY <1>2, <1>3, <1>4, <1>5, <1>6, <1>7, <1>8

\* Before the ring has been full no interrupt is in the middle of a put.
LEMMA QuietPut ==
  ASSUME InputInv, Quiet, ~stuck'
  PROVE  /\ ~IoqPut
         /\ ~\E b \in ScanByte, c \in Byte : KeyStuck(b, c)
<1>1. pc[running] \in InCall => op[running] = "get"
  BY QuietRuns DEF ThreadsRun
<1> QED
  BY <1>1 DEF IoqPut, At, InCall, KeyStuck

\* Nothing goes back: a ring that has been full stays so in the history.
LEMMA StuckStays ==
  ASSUME DataInv, [Next]_vars, ~stuck'
  PROVE  ~stuck
BY DEF DataInv, Next, Code, ThreadRun, Booted, KernelThreadEntry, GetChar, SemWait,
       IoqWait, Block, ThreadResume, MutexUnlock, IoqGet, Done, IoqPut,
       KeyIgnored, KeyStored, KeyStuck, TimerIntr, Halted, vars, inputVars

\* Until the ring is full for the first time the characters come out in the
\* order in which they were typed, for any ring and any number of readers.
THEOREM InputInOrder == Spec => []InOrder
<1>1. Init => InOrder
  <2> SUFFICES ASSUME Init PROVE typed = got \o Content(kbd_buf)
    BY DEF InOrder
  <2>1. /\ typed = << >> /\ got = << >> /\ kbd_buf = ioqueue_init
    BY DEF Init
  <2>2. kbd_buf \in Ioqueue
    BY ThreadsStart DEF ThreadsInv, ThreadsOK
  <2>3. Content(kbd_buf) \in Seq(Byte) /\ Len(Content(kbd_buf)) = Fill(kbd_buf)
    BY <2>2, ContentIs
  <2>4. Fill(kbd_buf) = 0
    BY <2>1 DEF Fill, ioqueue_init
  <2>5. Content(kbd_buf) = << >>
    BY <2>3, <2>4, EmptySeq
  <2> QED
    BY <2>1, <2>5, <2>3, ConcatEmptySeq
<1>2. InputInv /\ QuietInv /\ InOrder /\ [Next]_vars => InOrder'
  <2> SUFFICES ASSUME InputInv, QuietInv, InOrder, [Next]_vars, ~stuck'
               PROVE  typed' = got' \o Content(kbd_buf')
    BY DEF InOrder
  <2>1. ~stuck /\ Quiet /\ typed = got \o Content(kbd_buf)
    BY StuckStays DEF InputInv, QuietInv, InOrder
  <2>2. kbd_buf \in Ioqueue /\ got \in Seq(Byte) /\ Content(kbd_buf) \in Seq(Byte)
    <3>1. kbd_buf \in Ioqueue /\ got \in Seq(Byte)
      BY DEF InputInv, ThreadsInv, ThreadsOK, DataInv
    <3> QED
      BY <3>1, ContentIs
  <2>3. CASE SameRing(kbd_buf', kbd_buf) /\ UNCHANGED <<typed, got>>
    BY <2>1, <2>3 DEF SameRing, Content
  <2>4. CASE /\ ~ioq_empty(kbd_buf) /\ kbd_buf' = ioq_getchar(kbd_buf)
             /\ got' = Append(got, kbd_buf.buf[kbd_buf.tail]) /\ typed' = typed
    <3>1. /\ Content(kbd_buf) # << >>
          /\ Head(Content(kbd_buf)) = kbd_buf.buf[kbd_buf.tail]
          /\ Content(kbd_buf') = Tail(Content(kbd_buf))
      BY <2>2, <2>4, ContentGet
    <3> QED
      BY <2>1, <2>2, <2>4, <3>1, MoveOver
  <2>5. CASE \E c \in Byte : /\ ~ioq_full(kbd_buf)
                             /\ kbd_buf' = ioq_putchar(kbd_buf, c)
                             /\ typed' = Append(typed, c) /\ got' = got
    <3>1. PICK c \in Byte : /\ ~ioq_full(kbd_buf)
                            /\ kbd_buf' = ioq_putchar(kbd_buf, c)
                            /\ typed' = Append(typed, c) /\ got' = got
      BY <2>5
    <3>2. Content(kbd_buf') = Append(Content(kbd_buf), c)
      BY <2>2, <3>1, ContentPut
    <3> QED
      BY <2>1, <2>2, <3>1, <3>2, AppendOver
  <2> QED
    BY <2>1, <2>3, <2>4, <2>5, RingSteps, QuietPut
<1> QED
  BY <1>1, <1>2, InputQuietInvariant, PTL DEF Spec

\* With one reader nobody waits for the mutex, and a queue that names a
\* sleeping reader is empty.
ReaderInv ==
  ~stuck => /\ \A t \in Thread : pc[t] \notin {"lock", "down"}
            /\ ioq_empty(kbd_buf) \/ kbd_buf.consumer = NULL

\* One reader finds the mutex free whenever it needs it.
LEMMA ReaderMoves ==
  ASSUME \A a, b \in Consumer : a = b,
         InputInv, Quiet, [Next]_vars,
         \A t \in Thread : pc[t] \notin {"lock", "down"},
         ~\E b \in ScanByte, c \in Byte : KeyStuck(b, c)
  PROVE  \A t \in Thread : pc'[t] \notin {"lock", "down"}
<1>1. /\ ThreadsInv /\ ThreadsRun /\ pc \in [Thread -> Location]
      /\ running \in Thread /\ Names(kbd_buf, sched.status, pc, op)
      /\ \A t \in Thread : pc[t] \in InCall => t \in Consumer /\ op[t] = "get"
  BY QuietRuns DEF ThreadsRun
<1>2. ASSUME NEW x \in Thread, NEW w, w \notin {"lock", "down"},
             pc' = [pc EXCEPT ![x] = w]
      PROVE  \A t \in Thread : pc'[t] \notin {"lock", "down"}
  BY <1>1, <1>2
<1>3. CASE \E t \in Thread : ThreadRun(t)
  <2>1. PICK t \in Thread : pc' = [pc EXCEPT ![t] = "entry"]
    BY <1>3 DEF ThreadRun
  <2> QED
    BY <1>2, <2>1
<1>4. CASE Booted \/ KernelThreadEntry \/ Done
  BY <1>1, <1>2, <1>4 DEF Booted, KernelThreadEntry, Done, Goto
<1>5. CASE GetChar
  BY <1>1, <1>2, <1>5 DEF GetChar, Goto
<1>6. ~SemWait
  <2> SUFFICES ASSUME SemWait PROVE FALSE
    OBVIOUS
  <2>1. pc[running] \in {"loop", "down"} /\ kbd_buf.mtx.sem.val = 0
    BY DEF SemWait, Locking, At
  <2>2. PICK t \in Thread : pc[t] \in InMutex
    BY <1>1, <2>1 DEF Names
  <2>3. t \in Consumer /\ running \in Consumer
    BY <1>1, <2>1, <2>2 DEF InCall, InMutex
  <2> QED
    BY <2>1, <2>2, <2>3 DEF InMutex
<1>7. CASE IoqWait
  BY <1>1, <1>2, <1>7 DEF IoqWait, Block, Goto
<1>8. CASE ThreadResume
  <2>1. pc' = [pc EXCEPT ![running] = "unlock"]
    BY <1>1, <1>8 DEF ThreadResume, At, Goto
  <2> QED
    BY <1>1, <1>2, <2>1
<1>9. CASE MutexUnlock
  BY <1>1, <1>2, <1>9, UnlockKept
<1>10. CASE IoqGet
  BY <1>1, <1>2, <1>10, GetKept
<1>11. ~IoqPut
  BY <1>1 DEF IoqPut, At, InCall
<1>12. CASE UNCHANGED pc
  BY <1>12
<1>13. \/ \E t \in Thread : ThreadRun(t)
       \/ Booted \/ KernelThreadEntry \/ Done \/ GetChar \/ SemWait \/ IoqWait
       \/ ThreadResume \/ MutexUnlock \/ IoqGet \/ IoqPut \/ UNCHANGED pc
  BY DEF Next, Code, KeyIgnored, KeyStored, TimerIntr, Halted, vars, inputVars
<1> QED
  BY <1>3, <1>4, <1>5, <1>6, <1>7, <1>8, <1>9, <1>10, <1>11, <1>12, <1>13

\* With one reader, and until the ring is full for the first time, the reader
\* never sleeps on a ring that holds a character.  With two the statement is
\* false: a reader that slept in mutex_lock goes on to ioq_wait without
\* another look at the ring.
THEOREM OneReaderNeverAsleep ==
  ASSUME \A a, b \in Consumer : a = b
  PROVE  Spec => []NoReaderAsleep
<1>1. Init => ReaderInv
  <2> SUFFICES ASSUME Init PROVE ReaderInv
    OBVIOUS
  <2>1. /\ pc = [t \in Thread |-> IF t = idle THEN "boot" ELSE "none"]
        /\ kbd_buf = ioqueue_init
    BY DEF Init
  <2> QED
    BY <2>1 DEF ReaderInv, ioqueue_init
<1>2. InputInv /\ QuietInv /\ ReaderInv /\ [Next]_vars => ReaderInv'
  <2> SUFFICES ASSUME InputInv, QuietInv, ReaderInv, [Next]_vars, ~stuck'
               PROVE  /\ \A t \in Thread : pc'[t] \notin {"lock", "down"}
                      /\ ioq_empty(kbd_buf') \/ kbd_buf'.consumer = NULL
    BY DEF ReaderInv
  <2>1. /\ ~stuck /\ Quiet /\ \A t \in Thread : pc[t] \notin {"lock", "down"}
        /\ ioq_empty(kbd_buf) \/ kbd_buf.consumer = NULL
    BY StuckStays DEF InputInv, QuietInv, ReaderInv
  <2>2. ~\E b \in ScanByte, c \in Byte : KeyStuck(b, c)
    BY DEF KeyStuck
  <2>3. \A t \in Thread : pc'[t] \notin {"lock", "down"}
    BY <2>1, <2>2, ReaderMoves
  <2>4. running \in Thread /\ kbd_buf \in Ioqueue
    BY <2>1, QuietRuns DEF ThreadsRun
  <2>5. CASE /\ SameRing(kbd_buf', kbd_buf)
             /\ \/ kbd_buf'.consumer = kbd_buf.consumer
                \/ pc[running] = "down" \/ ioq_empty(kbd_buf)
    BY <2>1, <2>3, <2>4, <2>5 DEF SameRing, ioq_empty
  <2>6. CASE ~ioq_empty(kbd_buf) /\ kbd_buf' = ioq_getchar(kbd_buf)
    <3>1. kbd_buf'.consumer = kbd_buf.consumer
      BY <2>4, <2>6 DEF ioq_getchar, Ioqueue
    <3> QED
      BY <2>1, <2>3, <2>6, <3>1
  <2>7. CASE \E c \in Byte : kbd_buf' = ioq_putchar(kbd_buf, c)
    <3>1. kbd_buf'.consumer = NULL
      BY <2>4, <2>7 DEF ioq_putchar, Ioqueue
    <3> QED
      BY <2>3, <3>1
  <2> QED
    BY <2>1, <2>5, <2>6, <2>7, RingSteps, QuietPut
<1>3. InputInv /\ QuietInv /\ ReaderInv => NoReaderAsleep
  <2> SUFFICES ASSUME InputInv, QuietInv, ReaderInv, ~stuck, ~ioq_empty(kbd_buf),
                      NEW t \in Thread, sched.status[t] = TASK_BLOCKED
               PROVE  FALSE
    BY DEF NoReaderAsleep
  <2>1. /\ kbd_buf.consumer = NULL /\ pc[t] # "lock"
    BY DEF ReaderInv
  <2>2. Names(kbd_buf, sched.status, pc, op) /\ (pc[t] \in InCall => op[t] = "get")
    BY DEF InputInv, ThreadsInv, ThreadsOK, QuietInv, Quiet
  <2>3. pc[t] = "wait" /\ op[t] = "get"
    BY <2>1, <2>2 DEF Names, InCall
  <2> QED
    BY <2>1, <2>2, <2>3, SchedulerAssumption DEF Names
<1> QED
  BY <1>1, <1>2, <1>3, InputQuietInvariant, PTL DEF Spec

-----------------------------------------------------------------------------
(* No character is lost                                                    *)

\* How often c occurs in s.
In(c, s) == Cardinality({i \in DOMAIN s : s[i] = c})

One(c, d) == IF d = c THEN 1 ELSE 0

\* Counting is well defined, and appending adds one occurrence.
LEMMA CountAppend ==
  ASSUME NEW s \in Seq(Byte), NEW d \in Byte, NEW c \in Byte
  PROVE  In(c, s) \in Nat /\ In(c, Append(s, d)) = In(c, s) + One(c, d)
<1>1. PICK n, S, T : /\ n = Len(s) /\ S = {i \in DOMAIN s : s[i] = c}
                     /\ T = {i \in DOMAIN Append(s, d) : Append(s, d)[i] = c}
  OBVIOUS
<1>2. n \in Nat /\ DOMAIN s = 1 .. n /\ n + 1 \notin S
  BY <1>1
<1>3. IsFiniteSet(S) /\ Cardinality(S) \in Nat
  <2>1. IsFiniteSet(1 .. n) /\ S \subseteq 1 .. n
    BY <1>1, <1>2, FS_Interval
  <2>2. IsFiniteSet(S)
    BY <2>1, FS_Subset
  <2> QED
    BY <2>2, FS_CardinalityType
<1>4. T = IF d = c THEN S \cup {n + 1} ELSE S
  <2>1. PICK a : a = Append(s, d)
    OBVIOUS
  <2>2. /\ DOMAIN a = 1 .. n + 1 /\ a[n + 1] = d /\ \A i \in 1 .. n : a[i] = s[i]
    BY <1>1, <1>2, <2>1
  <2>3. T = {i \in 1 .. n + 1 : a[i] = c} /\ S = {i \in 1 .. n : s[i] = c}
    BY <1>1, <1>2, <2>1, <2>2
  <2> QED
    BY <1>2, <2>2, <2>3
<1>5. Cardinality(S \cup {n + 1}) = Cardinality(S) + 1
  BY <1>2, <1>3, FS_AddElement
<1>6. In(c, s) = Cardinality(S) /\ In(c, Append(s, d)) = Cardinality(T)
  BY <1>1 DEF In
<1> QED
  BY <1>3, <1>4, <1>5, <1>6 DEF One

\* Taking the first element takes one occurrence.
LEMMA CountTail ==
  ASSUME NEW s \in Seq(Byte), s # << >>, NEW c \in Byte
  PROVE  In(c, Tail(s)) \in Nat /\ In(c, s) = In(c, Tail(s)) + One(c, Head(s))
<1>1. PICK n, r : n = Len(s) /\ r = Tail(s)
  OBVIOUS
<1>2. /\ n \in Nat \ {0} /\ DOMAIN s = 1 .. n /\ Head(s) = s[1]
      /\ r \in Seq(Byte) /\ Len(r) = n - 1 /\ DOMAIN r = 1 .. n - 1
      /\ \A i \in 1 .. n - 1 : r[i] = s[i + 1]
  BY <1>1, HeadTailProperties
<1>3. PICK S, T, U : /\ S = {i \in DOMAIN r : r[i] = c}
                     /\ T = {i \in 2 .. n : s[i] = c}
                     /\ U = {i \in DOMAIN s : s[i] = c}
  OBVIOUS
<1>4. IsFiniteSet(S) /\ IsFiniteSet(T) /\ Cardinality(T) = Cardinality(S)
      /\ Cardinality(S) \in Nat
  <2>1. IsFiniteSet(1 .. n - 1) /\ S \subseteq 1 .. n - 1
    BY <1>2, <1>3, FS_Interval
  <2>2. IsFiniteSet(S)
    BY <2>1, FS_Subset
  <2>3. PICK f : f = [i \in S |-> i + 1]
    OBVIOUS
  <2>4. f \in Bijection(S, T)
    <3>1. f \in [S -> T]
      BY <1>2, <1>3, <2>3
    <3>2. \A i, j \in S : f[i] = f[j] => i = j
      BY <1>2, <1>3, <2>3
    <3>3. \A t \in T : \E i \in S : f[i] = t
      <4> SUFFICES ASSUME NEW t \in T PROVE f[t - 1] = t /\ t - 1 \in S
        OBVIOUS
      <4>1. t \in 2 .. n /\ s[t] = c /\ t - 1 \in 1 .. n - 1
        BY <1>2, <1>3
      <4>2. r[t - 1] = s[(t - 1) + 1] /\ (t - 1) + 1 = t
        BY <1>2, <4>1
      <4>3. t - 1 \in S
        BY <1>2, <1>3, <4>1, <4>2
      <4> QED
        BY <2>3, <4>2, <4>3
    <3> QED
      BY <3>1, <3>2, <3>3, Fun_IsBij
  <2>5. ExistsBijection(S, T)
    BY <2>4 DEF ExistsBijection
  <2> QED
    BY <2>2, <2>5, FS_Bijection, FS_CardinalityType
<1>5. U = (IF s[1] = c THEN T \cup {1} ELSE T) /\ 1 \notin T
  BY <1>2, <1>3
<1>6. Cardinality(T \cup {1}) = Cardinality(T) + 1
  BY <1>4, <1>5, FS_AddElement
<1>7. In(c, Tail(s)) = Cardinality(S) /\ In(c, s) = Cardinality(U)
  BY <1>1, <1>3 DEF In
<1> QED
  BY <1>2, <1>4, <1>5, <1>6, <1>7 DEF One

\* t is in ioq_putchar, on behalf of an interrupt that has found the ring full.
Putting(t, p, o) == p[t] \notin {"none", "boot", "entry", "code"} /\ o[t] = "put"

\* The handlers that hold the character c.
Holding(c) == {t \in Thread : Putting(t, pc, op) /\ byte[t] = c}

DoneInv == \A t \in Thread : pc[t] = "done" => op[t] = "get"

\* Only the two ends of an interrupt that had to wait change who holds what.
LEMMA PuttingSteps ==
  ASSUME ThreadsInv, DoneInv, [Next]_vars, ~IoqPut,
         ~\E b \in ScanByte, c \in Byte : KeyStuck(b, c)
  PROVE  /\ DoneInv' /\ byte' = byte
         /\ \A t \in Thread : Putting(t, pc', op') <=> Putting(t, pc, op)
<1>1. byte' = byte
  BY DEF Next, Code, ThreadRun, Booted, KernelThreadEntry, GetChar, SemWait,
         IoqWait, Block, ThreadResume, MutexUnlock, IoqGet, Done,
         KeyIgnored, KeyStored, TimerIntr, Halted, vars, inputVars
<1>2. CASE UNCHANGED <<pc, op>>
  BY <1>1, <1>2 DEF DoneInv
<1>3. ASSUME NEW x \in Thread, NEW w, pc' = [pc EXCEPT ![x] = w],
             \A t \in Thread \ {x} : op'[t] = op[t],
             Putting(x, pc', op') <=> Putting(x, pc, op),
             w = "done" => op'[x] = "get", pc \in [Thread -> Location]
      PROVE  /\ DoneInv'
             /\ \A t \in Thread : Putting(t, pc', op') <=> Putting(t, pc, op)
  <2>1. \A t \in Thread \ {x} : pc'[t] = pc[t]
    BY <1>3
  <2>2. pc'[x] = w
    BY <1>3
  <2> QED
    BY <1>3, <2>1, <2>2 DEF DoneInv, Putting
<1>4. ASSUME fault = "none"
      PROVE  /\ ThreadsRun /\ running \in Thread /\ pc \in [Thread -> Location]
             /\ op \in [Thread -> Op] /\ pc[running] # "none"
  BY <1>4, RunsThreads DEF ThreadsRun
<1>5. CASE \E t \in Thread : ThreadRun(t)
  <2>1. PICK t \in Thread : ThreadRun(t)
    BY <1>5
  <2>2. /\ fault = "none" /\ pc[t] = "none" /\ pc' = [pc EXCEPT ![t] = "entry"]
        /\ op' = op
    BY <2>1 DEF ThreadRun, At
  <2>3. Putting(t, pc', op') <=> Putting(t, pc, op)
    BY <1>4, <2>2 DEF Putting
  <2> QED
    BY <1>1, <1>3, <1>4, <2>2, <2>3
<1>6. CASE Booted \/ KernelThreadEntry \/ Done
  <2>1. /\ fault = "none" /\ pc[running] \in {"boot", "entry", "done"}
        /\ pc' = [pc EXCEPT ![running] = "code"] /\ op' = op
    BY <1>6 DEF Booted, KernelThreadEntry, Done, At, Goto
  <2>2. Putting(running, pc', op') <=> Putting(running, pc, op)
    BY <1>4, <2>1 DEF Putting, DoneInv
  <2> QED
    BY <1>1, <1>3, <1>4, <2>1, <2>2
<1>7. CASE GetChar
  <2>1. /\ fault = "none" /\ pc[running] = "code"
        /\ pc' = [pc EXCEPT ![running] = "loop"]
        /\ op' = [op EXCEPT ![running] = "get"]
    BY <1>7 DEF GetChar, At, Goto
  <2>2. /\ Putting(running, pc', op') <=> Putting(running, pc, op)
        /\ \A t \in Thread \ {running} : op'[t] = op[t]
    BY <1>4, <2>1 DEF Putting
  <2> QED
    BY <1>1, <1>3, <1>4, <2>1, <2>2
<1>8. CASE SemWait \/ IoqWait
  <2>1. PICK w : /\ w \in {"lock", "wait"} /\ pc' = [pc EXCEPT ![running] = w]
                 /\ fault = "none" /\ pc[running] \in {"loop", "down"} /\ op' = op
    BY <1>8 DEF SemWait, IoqWait, Locking, Block, At, Goto
  <2>2. Putting(running, pc', op') <=> Putting(running, pc, op)
    BY <1>4, <2>1 DEF Putting
  <2> QED
    BY <1>1, <1>3, <1>4, <2>1, <2>2
<1>9. CASE ThreadResume
  <2>1. PICK w : w = IF pc[running] = "lock" THEN "down" ELSE "unlock"
    OBVIOUS
  <2>2. /\ w \in {"down", "unlock"} /\ pc' = [pc EXCEPT ![running] = w]
        /\ fault = "none" /\ pc[running] \in {"lock", "wait"} /\ op' = op
    BY <1>9, <2>1 DEF ThreadResume, At, Goto
  <2>3. Putting(running, pc', op') <=> Putting(running, pc, op)
    BY <1>4, <2>2 DEF Putting
  <2> QED
    BY <1>1, <1>3, <1>4, <2>2, <2>3
<1>10. CASE MutexUnlock
  <2>1. /\ pc' = [pc EXCEPT ![running] = "loop"]
        /\ fault = "none" /\ pc[running] = "unlock" /\ op' = op
    BY <1>10, UnlockKept DEF MutexUnlock, At
  <2>2. Putting(running, pc', op') <=> Putting(running, pc, op)
    BY <1>4, <2>1 DEF Putting
  <2> QED
    BY <1>1, <1>3, <1>4, <2>1, <2>2
<1>11. CASE IoqGet
  <2>1. /\ pc' = [pc EXCEPT ![running] = "done"] /\ op[running] = "get"
        /\ fault = "none" /\ pc[running] = "loop" /\ op' = op
    BY <1>11, GetKept DEF IoqGet, At
  <2>2. Putting(running, pc', op') <=> Putting(running, pc, op)
    BY <1>4, <2>1 DEF Putting
  <2> QED
    BY <1>1, <1>3, <1>4, <2>1, <2>2
<1>12. \/ \E t \in Thread : ThreadRun(t)
       \/ Booted \/ KernelThreadEntry \/ Done \/ GetChar \/ SemWait \/ IoqWait
       \/ ThreadResume \/ MutexUnlock \/ IoqGet \/ UNCHANGED <<pc, op>>
  BY DEF Next, Code, KeyIgnored, KeyStored, TimerIntr, Halted, vars, inputVars
<1> QED
  BY <1>1, <1>2, <1>5, <1>6, <1>7, <1>8, <1>9, <1>10, <1>11, <1>12

\* Every typed character is counted once.
Counted(c) ==
  /\ IsFiniteSet(Holding(c))
  /\ In(c, typed) = In(c, got) + In(c, Content(kbd_buf)) + Cardinality(Holding(c))

CountInv == DoneInv /\ \A c \in Byte : Counted(c)

\* A handler finds the ring full: it holds the character.
LEMMA CountStuck ==
  ASSUME InputInv, CountInv, NEW b \in ScanByte, NEW d \in Byte, KeyStuck(b, d)
  PROVE  CountInv'
<1>1. /\ fault = "none" /\ cpu.intr = INTR_ON /\ typed' = Append(typed, d)
      /\ op' = [op EXCEPT ![running] = "put"]
      /\ byte' = [byte EXCEPT ![running] = d]
      /\ pc' = [pc EXCEPT ![running] = "loop"] /\ UNCHANGED <<kbd_buf, got>>
  BY DEF KeyStuck, KeyIntr, Goto
<1>2. /\ running \in Thread /\ pc \in [Thread -> Location] /\ op \in [Thread -> Op]
      /\ byte \in [Thread -> Byte] /\ typed \in Seq(Byte)
      /\ (pc[running] # "code" => cpu.intr = INTR_OFF)
  BY <1>1, RunsThreads DEF InputInv, DataInv, ThreadsRun
<1>3. pc[running] = "code"
  BY <1>1, <1>2 DEF INTR_ON, INTR_OFF
<1>4. /\ pc'[running] = "loop" /\ op'[running] = "put" /\ byte'[running] = d
      /\ \A t \in Thread \ {running} :
           pc'[t] = pc[t] /\ op'[t] = op[t] /\ byte'[t] = byte[t]
  BY <1>1, <1>2
<1>5. DoneInv'
  BY <1>4 DEF CountInv, DoneInv
<1>6. ASSUME NEW c \in Byte PROVE Counted(c)'
  <2>1. PICK S, T : S = Holding(c) /\ T = Holding(c)'
    OBVIOUS
  <2>2. T = (IF d = c THEN S \cup {running} ELSE S) /\ running \notin S
    BY <1>2, <1>3, <1>4, <2>1 DEF Holding, Putting
  <2>3. IsFiniteSet(S) /\ Cardinality(S) \in Nat
    BY <2>1, FS_CardinalityType DEF CountInv, Counted
  <2>4. IsFiniteSet(T) /\ Cardinality(T) = Cardinality(S) + One(c, d)
    <3>1. IsFiniteSet(S \cup {running})
          /\ Cardinality(S \cup {running}) = Cardinality(S) + 1
      BY <2>2, <2>3, FS_AddElement
    <3> QED
      BY <2>2, <2>3, <3>1 DEF One
  <2>5. /\ In(c, typed) = In(c, got) + In(c, Content(kbd_buf)) + Cardinality(S)
    BY <2>1 DEF CountInv, Counted
  <2>6. /\ In(c, typed') = In(c, typed) + One(c, d)
        /\ In(c, got) \in Nat /\ In(c, Content(kbd_buf)) \in Nat
    <3>1. kbd_buf \in Ioqueue /\ got \in Seq(Byte)
      BY DEF InputInv, ThreadsInv, ThreadsOK, DataInv
    <3>2. Content(kbd_buf) \in Seq(Byte)
      BY <3>1, ContentIs
    <3> QED
      BY <1>1, <1>2, <3>1, <3>2, CountAppend
  <2>7. One(c, d) \in Nat
    BY DEF One
  <2>8. In(c, typed') = In(c, got') + In(c, Content(kbd_buf')) + Cardinality(T)
    BY <1>1, <2>3, <2>4, <2>5, <2>6, <2>7
  <2> QED
    BY <2>1, <2>4, <2>8 DEF Counted
<1> QED
  BY <1>5, <1>6 DEF CountInv

\* A handler that had to wait puts its character into the ring.
LEMMA CountPut ==
  ASSUME InputInv, CountInv, IoqPut
  PROVE  CountInv'
<1>1. /\ ThreadsInv /\ byte \in [Thread -> Byte] /\ kbd_buf \in Ioqueue
      /\ got \in Seq(Byte)
  BY DEF InputInv, DataInv, ThreadsInv, ThreadsOK
<1>2. /\ fault = "none" /\ pc[running] = "loop" /\ op[running] = "put"
      /\ ~ioq_full(kbd_buf) /\ UNCHANGED <<op, byte, typed, got>>
  BY DEF IoqPut, At, Stuck
<1>3. /\ kbd_buf' = ioq_putchar(kbd_buf, byte[running])
      /\ pc' = [pc EXCEPT ![running] = "code"]
  BY <1>1, PutKept
<1>4. running \in Thread /\ pc \in [Thread -> Location]
  BY <1>1, <1>2, RunsThreads DEF ThreadsRun
<1>5. pc'[running] = "code" /\ \A t \in Thread \ {running} : pc'[t] = pc[t]
  BY <1>3, <1>4
<1>6. PICK d \in Byte : d = byte[running]
  BY <1>1, <1>4
<1>7. DoneInv'
  BY <1>2, <1>5 DEF CountInv, DoneInv
<1>8. ASSUME NEW c \in Byte PROVE Counted(c)'
  <2>1. PICK S, T : S = Holding(c) /\ T = Holding(c)'
    OBVIOUS
  <2>2. S = (IF d = c THEN T \cup {running} ELSE T) /\ running \notin T
    BY <1>2, <1>4, <1>5, <1>6, <2>1 DEF Holding, Putting
  <2>3. IsFiniteSet(S)
    BY <2>1 DEF CountInv, Counted
  <2>4. IsFiniteSet(T) /\ Cardinality(T) \in Nat
    <3>1. T \in SUBSET S
      BY <2>2
    <3>2. IsFiniteSet(T)
      BY <2>3, <3>1, FS_Subset
    <3> QED
      BY <3>2, FS_CardinalityType
  <2>5. Cardinality(S) = Cardinality(T) + One(c, d)
    <3>1. Cardinality(T \cup {running}) = Cardinality(T) + 1
      BY <2>2, <2>4, FS_AddElement
    <3> QED
      BY <2>2, <2>4, <3>1 DEF One
  <2>6. In(c, typed) = In(c, got) + In(c, Content(kbd_buf)) + Cardinality(S)
    BY <2>1 DEF CountInv, Counted
  <2>7. /\ In(c, got) \in Nat /\ In(c, Content(kbd_buf)) \in Nat
        /\ In(c, Content(kbd_buf')) = In(c, Content(kbd_buf)) + One(c, d)
    <3>1. Content(kbd_buf) \in Seq(Byte)
      BY <1>1, ContentIs
    <3>2. Content(kbd_buf') = Append(Content(kbd_buf), d)
      BY <1>1, <1>2, <1>3, <1>6, ContentPut
    <3> QED
      BY <1>1, <3>1, <3>2, CountAppend
  <2>8. One(c, d) \in Nat
    BY DEF One
  <2>9. In(c, typed') = In(c, got') + In(c, Content(kbd_buf')) + Cardinality(T)
    BY <1>2, <2>4, <2>5, <2>6, <2>7, <2>8
  <2> QED
    BY <2>1, <2>4, <2>9 DEF Counted
<1> QED
  BY <1>7, <1>8 DEF CountInv

\* Every other step moves a character from one place to the next, or none.
LEMMA CountMove ==
  ASSUME InputInv, CountInv, [Next]_vars, ~IoqPut,
         ~\E b \in ScanByte, c \in Byte : KeyStuck(b, c)
  PROVE  CountInv'
<1>1. /\ ThreadsInv /\ kbd_buf \in Ioqueue /\ got \in Seq(Byte) /\ typed \in Seq(Byte)
  BY DEF InputInv, DataInv, ThreadsInv, ThreadsOK
<1>2. /\ DoneInv' /\ byte' = byte
      /\ \A t \in Thread : Putting(t, pc', op') <=> Putting(t, pc, op)
  BY <1>1, PuttingSteps DEF CountInv
<1>3. Content(kbd_buf) \in Seq(Byte)
  BY <1>1, ContentIs
<1>4. ASSUME NEW c \in Byte PROVE Counted(c)'
  <2>1. PICK S : S = Holding(c)
    OBVIOUS
  <2>2. Holding(c)' = S
    BY <1>2, <2>1 DEF Holding
  <2>3. /\ IsFiniteSet(S) /\ Cardinality(S) \in Nat
        /\ In(c, typed) = In(c, got) + In(c, Content(kbd_buf)) + Cardinality(S)
    BY <2>1, FS_CardinalityType DEF CountInv, Counted
  <2>4. In(c, got) \in Nat /\ In(c, Content(kbd_buf)) \in Nat /\ In(c, typed) \in Nat
        /\ \A d : One(c, d) \in Nat
    BY <1>1, <1>3, CountAppend DEF One
  <2>5. In(c, typed') = In(c, got') + In(c, Content(kbd_buf')) + Cardinality(S)
    <3>1. CASE SameRing(kbd_buf', kbd_buf) /\ UNCHANGED <<typed, got>>
      <4>1. Content(kbd_buf') = Content(kbd_buf)
        BY <3>1 DEF SameRing, Content
      <4> QED
        BY <2>3, <3>1, <4>1
    <3>2. CASE /\ ~ioq_empty(kbd_buf) /\ kbd_buf' = ioq_getchar(kbd_buf)
               /\ got' = Append(got, kbd_buf.buf[kbd_buf.tail]) /\ typed' = typed
      <4>1. PICK d : d = kbd_buf.buf[kbd_buf.tail]
        OBVIOUS
      <4>2. /\ Content(kbd_buf) # << >> /\ Head(Content(kbd_buf)) = d
            /\ Content(kbd_buf') = Tail(Content(kbd_buf)) /\ d \in Byte
        <5>1. /\ Content(kbd_buf) # << >> /\ Head(Content(kbd_buf)) = d
              /\ Content(kbd_buf') = Tail(Content(kbd_buf))
          BY <1>1, <3>2, <4>1, ContentGet
        <5> QED
          BY <1>1, <4>1, <5>1 DEF Ioqueue
      <4>3. /\ In(c, got') = In(c, got) + One(c, d)
        BY <1>1, <3>2, <4>1, <4>2, CountAppend
      <4>4. /\ In(c, Content(kbd_buf)) = In(c, Content(kbd_buf')) + One(c, d)
            /\ In(c, Content(kbd_buf')) \in Nat
        BY <1>3, <4>2, CountTail
      <4> QED
        BY <2>3, <2>4, <3>2, <4>3, <4>4
    <3>3. CASE \E d \in Byte : /\ ~ioq_full(kbd_buf)
                               /\ kbd_buf' = ioq_putchar(kbd_buf, d)
                               /\ typed' = Append(typed, d) /\ got' = got
      <4>1. PICK d \in Byte : /\ ~ioq_full(kbd_buf)
                              /\ kbd_buf' = ioq_putchar(kbd_buf, d)
                              /\ typed' = Append(typed, d) /\ got' = got
        BY <3>3
      <4>2. Content(kbd_buf') = Append(Content(kbd_buf), d)
        BY <1>1, <4>1, ContentPut
      <4>3. /\ In(c, typed') = In(c, typed) + One(c, d)
            /\ In(c, Content(kbd_buf')) = In(c, Content(kbd_buf)) + One(c, d)
        BY <1>1, <1>3, <4>1, <4>2, CountAppend
      <4> QED
        BY <2>3, <2>4, <4>1, <4>3
    <3> QED
      BY <3>1, <3>2, <3>3, RingSteps
  <2> QED
    BY <2>2, <2>3, <2>5 DEF Counted
<1> QED
  BY <1>2, <1>4 DEF CountInv

\* No typed character is lost and none is made up, however often the ring is
\* full and whoever reads it.
THEOREM InputLosesNothing == Spec => []NoCharLost
<1>1. Init => CountInv
  <2> SUFFICES ASSUME Init PROVE CountInv
    OBVIOUS
  <2>1. /\ typed = << >> /\ got = << >> /\ kbd_buf = ioqueue_init
        /\ pc = [t \in Thread |-> IF t = idle THEN "boot" ELSE "none"]
        /\ op = [t \in Thread |-> "get"]
    BY DEF Init
  <2>2. kbd_buf \in Ioqueue
    BY ThreadsStart DEF ThreadsInv, ThreadsOK
  <2>3. Content(kbd_buf) \in Seq(Byte) /\ Len(Content(kbd_buf)) = Fill(kbd_buf)
    BY <2>2, ContentIs
  <2>4. Fill(kbd_buf) = 0
    BY <2>1 DEF Fill, ioqueue_init
  <2>5. Content(kbd_buf) = << >>
    BY <2>3, <2>4, EmptySeq
  <2>6. ASSUME NEW c \in Byte PROVE Counted(c)
    <3>1. Holding(c) = {}
      BY <2>1 DEF Holding, Putting
    <3>2. {i \in DOMAIN << >> : << >>[i] = c} = {}
      OBVIOUS
    <3>3. In(c, << >>) = 0
      BY <3>2, FS_EmptySet DEF In
    <3> QED
      BY <2>1, <2>5, <3>1, <3>3, FS_EmptySet DEF Counted
  <2> QED
    BY <2>1, <2>6 DEF CountInv, DoneInv
<1>2. InputInv /\ CountInv /\ [Next]_vars => CountInv'
  BY CountStuck, CountPut, CountMove
<1>3. CountInv => NoCharLost
  BY DEF CountInv, Counted, NoCharLost, In, Holding, Putting
<1> QED
  BY <1>1, <1>2, <1>3, InputInvariant, PTL DEF Spec

-----------------------------------------------------------------------------
(* Until then Input implements Kernel                                      *)

\* The scheduler that K brings along is the scheduler of Input.
LEMMA SameScheduler ==
  /\ \A s, t, prio : K!thread_run(s, t, prio) = thread_run(s, t, prio)
  /\ \A s, t : K!process_run(s, t) = process_run(s, t)
  /\ \A s, t : K!thread_unblock(s, t) = thread_unblock(s, t)
  /\ \A s : K!thread_block(s) = thread_block(s)
  /\ \A s : K!intr_timer_handler(s) = intr_timer_handler(s)
  /\ \A s : K!main_schedule(s) = main_schedule(s)
<1>1. /\ K!TASK_READY = TASK_READY /\ K!TASK_RUNNING = TASK_RUNNING
      /\ K!TASK_BLOCKED = TASK_BLOCKED /\ K!NO_TCB = NO_TCB /\ K!Pid = Pid
      /\ \A p : K!ticks_get(p) = ticks_get(p)
      /\ \A S : K!Min(S) = Min(S)
      /\ \A l, e : K!list_push_back(l, e) = list_push_back(l, e)
      /\ \A l, e : K!list_push_front(l, e) = list_push_front(l, e)
  BY DEF K!TASK_READY, TASK_READY, K!TASK_RUNNING, TASK_RUNNING,
         K!TASK_BLOCKED, TASK_BLOCKED, K!NO_TCB, NO_TCB,
         K!Pid, Pid, K!ticks_get, ticks_get, K!Min, Min, K!list_push_back,
         list_push_back, K!list_push_front, list_push_front, K!Cons, Cons
<1>2. \A l, e : K!list_remove(l, e) = list_remove(l, e)
  BY DEF K!list_remove, list_remove, K!RemoveAt, RemoveAt
<1>3. /\ \A s, t : K!scheduler_rq_join_only(s, t) = scheduler_rq_join_only(s, t)
      /\ \A s, t : K!scheduler_rq_jump_only(s, t) = scheduler_rq_jump_only(s, t)
  BY <1>1 DEF K!scheduler_rq_join_only, scheduler_rq_join_only,
         K!scheduler_rq_jump_only, scheduler_rq_jump_only
<1>4. \A s, t : K!scheduler_rq_leave_only(s, t) = scheduler_rq_leave_only(s, t)
  BY <1>2 DEF K!scheduler_rq_leave_only, scheduler_rq_leave_only
<1>5. \A s, t : K!preempt_check(s, t) = preempt_check(s, t)
  BY DEF K!preempt_check, preempt_check
<1>6. /\ \A s, t : K!scheduler_rq_join(s, t) = scheduler_rq_join(s, t)
      /\ \A s, t : K!scheduler_rq_jump(s, t) = scheduler_rq_jump(s, t)
  BY <1>3, <1>5 DEF K!scheduler_rq_join, scheduler_rq_join,
         K!scheduler_rq_jump, scheduler_rq_jump
<1>7. \A s, t : K!scheduler_rq_leave(s, t) = scheduler_rq_leave(s, t)
  BY <1>4 DEF K!scheduler_rq_leave, scheduler_rq_leave
<1>8. \A s, t : K!pid_alloc(s, t) = pid_alloc(s, t)
  BY <1>1 DEF K!pid_alloc, pid_alloc
<1>9. \A s, t, prio : K!thread_tcb_init(s, t, prio) = thread_tcb_init(s, t, prio)
  <2> SUFFICES ASSUME NEW s, NEW t, NEW prio
               PROVE  K!thread_tcb_init(s, t, prio) = thread_tcb_init(s, t, prio)
    OBVIOUS
  <2>1. PICK u : u = [s EXCEPT !.status[t] = TASK_READY, !.priority[t] = prio,
                               !.ticks[t] = ticks_get(prio), !.pg_dir[t] = NULL]
    OBVIOUS
  <2>2. thread_tcb_init(s, t, prio) = pid_alloc(u, t)
    BY <2>1 DEF thread_tcb_init
  <2>3. K!thread_tcb_init(s, t, prio) = K!pid_alloc(u, t)
    BY <2>1 DEF K!thread_tcb_init, K!TASK_READY, TASK_READY, K!ticks_get,
           ticks_get
  <2> QED
    BY <1>8, <2>2, <2>3
<1>10. \A s, t : K!publish(s, t) = publish(s, t)
  BY <1>1, <1>6 DEF K!publish, publish
<1>11. /\ \A s, t, prio : K!thread_run(s, t, prio) = thread_run(s, t, prio)
       /\ \A s, t : K!process_run(s, t) = process_run(s, t)
  BY <1>9, <1>10 DEF K!thread_run, thread_run, K!process_run, process_run
<1>12. /\ \A s, t : K!thread_unblock(s, t) = thread_unblock(s, t)
       /\ \A s : K!thread_block(s) = thread_block(s)
       /\ \A s : K!intr_timer_handler(s) = intr_timer_handler(s)
  BY <1>1, <1>6, <1>7 DEF K!thread_unblock, thread_unblock, K!thread_block,
         thread_block, K!intr_timer_handler, intr_timer_handler
<1>13. \A s, t : K!thread_prio_change(s, t) = thread_prio_change(s, t)
  BY DEF K!thread_prio_change, thread_prio_change
<1>14. \A s, t : K!requeue(s, t) = requeue(s, t)
  BY <1>1, <1>3, <1>4, <1>13 DEF K!requeue, requeue
<1>15. \A s : K!next_thread_pick(s) = next_thread_pick(s)
  BY <1>1 DEF K!next_thread_pick, next_thread_pick, K!highest_rq_get,
         highest_rq_get
<1>16. \A s, t : K!dispatch(s, t) = dispatch(s, t)
  BY <1>1 DEF K!dispatch, dispatch
<1>17. \A s : K!main_schedule(s) = main_schedule(s)
  BY <1>1, <1>14, <1>15, <1>16 DEF K!main_schedule, main_schedule
<1> QED
  BY <1>11, <1>12, <1>17

\* So is the processor.
LEMMA SameMachine ==
  /\ K!running = running /\ K!TASK_BLOCKED = TASK_BLOCKED
  /\ K!INTR_ON = INTR_ON /\ K!INTR_OFF = INTR_OFF /\ K!Prio = Prio
  /\ \A i : K!IntrSetStatus(i) <=> IntrSetStatus(i)
  /\ \A t : K!thread_stack_init(t) <=> thread_stack_init(t)
  /\ \A s : K!TaskTrap(s) <=> TaskTrap(s)
  /\ \A s : K!Interrupt(s) <=> Interrupt(s)
<1>1. /\ K!running = running /\ K!TASK_BLOCKED = TASK_BLOCKED
      /\ K!INTR_ON = INTR_ON /\ K!INTR_OFF = INTR_OFF /\ K!Prio = Prio
      /\ \A i : K!IntrSetStatus(i) <=> IntrSetStatus(i)
      /\ \A t : K!thread_stack_init(t) <=> thread_stack_init(t)
  BY DEF K!running, running, K!TASK_BLOCKED, TASK_BLOCKED, K!INTR_ON, INTR_ON,
         K!INTR_OFF, INTR_OFF, K!Prio, Prio, K!IntrSetStatus, IntrSetStatus,
         K!thread_stack_init, thread_stack_init
<1>2. \A c, stk, top, t :
        K!context_load(c, stk, top, t) <=> context_load(c, stk, top, t)
  BY DEF K!context_load, context_load, K!Front, Front, K!Last, Last,
         K!INTR_ON, INTR_ON
<1>3. \A c, s, t : K!process_activate(c, s, t) = process_activate(c, s, t)
  BY DEF K!process_activate, process_activate
<1>4. \A s, stk, top : K!MainSchedule(s, stk, top) <=> MainSchedule(s, stk, top)
  <2> SUFFICES ASSUME NEW s, NEW stk, NEW top
               PROVE  K!MainSchedule(s, stk, top) <=> MainSchedule(s, stk, top)
    OBVIOUS
  <2>1. PICK r : r = main_schedule(s) /\ r = K!main_schedule(s)
    BY SameScheduler
  <2>2. PICK c : c = IF s.need_schedule /\ r.running # NULL
                     THEN process_activate([cpu EXCEPT !.intr = INTR_OFF], r, r.running)
                     ELSE [cpu EXCEPT !.intr = INTR_OFF]
    OBVIOUS
  <2>3. c = IF s.need_schedule /\ r.running # NULL
            THEN K!process_activate([cpu EXCEPT !.intr = K!INTR_OFF], r, r.running)
            ELSE [cpu EXCEPT !.intr = K!INTR_OFF]
    BY <1>1, <1>3, <2>2
  <2>4. MainSchedule(s, stk, top) <=>
          /\ sched' = r
          /\ stack_top' = top
          /\ IF r.running = NULL
             THEN stack' = stk /\ cpu' = c /\ fault' = "no_thread"
             ELSE context_load(c, stk, top, r.running)
    BY <2>1, <2>2 DEF MainSchedule
  <2>5. K!MainSchedule(s, stk, top) <=>
          /\ sched' = r
          /\ stack_top' = top
          /\ IF r.running = NULL
             THEN stack' = stk /\ cpu' = c /\ fault' = "no_thread"
             ELSE K!context_load(c, stk, top, r.running)
    BY <2>1, <2>3 DEF K!MainSchedule
  <2> QED
    BY <1>2, <2>4, <2>5
<1>5. \A s : K!TaskTrap(s) <=> TaskTrap(s)
  BY <1>1, <1>4 DEF K!TaskTrap, TaskTrap
<1>6. \A s : K!Interrupt(s) <=> Interrupt(s)
  BY <1>1, <1>4 DEF K!Interrupt, Interrupt
<1> QED
  BY <1>1, <1>5, <1>6

\* Initial states are initial states.
LEMMA KernelFromInit == Init => K!Init
<1> SUFFICES ASSUME Init PROVE K!Init
  OBVIOUS
<1>1. K!MachineInit
  <2>1. K!thread_all_init = thread_all_init
    BY DEF K!thread_all_init, thread_all_init, K!Prio, Prio, K!Pid, Pid,
           K!TASK_RUNNING, TASK_RUNNING, K!NO_TCB, NO_TCB, K!ticks_get, ticks_get
  <2> QED
    BY <2>1 DEF Init, MachineInit, K!MachineInit, K!INTR_OFF, INTR_OFF
<1>2. kernelPc = [t \in Thread |-> IF t = idle THEN "boot" ELSE "none"]
  BY DEF Init, kernelPc
<1> QED
  BY <1>1, <1>2 DEF Init, K!Init, K!INTR_OFF, INTR_OFF

\* Where Kernel sees a thread that goes to w.
KernelView(w) ==
  CASE w \in {"none", "boot", "entry"} -> w
    [] w \in {"lock", "wait"} -> "blocked"
    [] OTHER -> "code"

\* How kernelPc follows pc.
LEMMA KernelPcFollows ==
  ASSUME InputInv
  PROVE  /\ \A t \in Thread : kernelPc[t] = KernelView(pc[t])
         /\ kernelPc = [kernelPc EXCEPT ![running] = KernelView(pc[running])]
         /\ \A t \in Thread : \A w :
              pc' = [pc EXCEPT ![t] = w] =>
                kernelPc' = [kernelPc EXCEPT ![t] = KernelView(w)]
<1>0. pc \in [Thread -> Location]
  BY DEF InputInv, ThreadsInv, ThreadsOK
<1>1. kernelPc = [x \in Thread |-> KernelView(pc[x])]
  BY DEF kernelPc, KernelView
<1>2. ASSUME NEW t \in Thread, NEW w, pc' = [pc EXCEPT ![t] = w]
      PROVE  kernelPc' = [kernelPc EXCEPT ![t] = KernelView(w)]
  <2>1. kernelPc' = [x \in Thread |-> KernelView(pc'[x])]
    BY DEF kernelPc, KernelView
  <2>2. \A x \in Thread : pc'[x] = IF x = t THEN w ELSE pc[x]
    BY <1>0, <1>2
  <2> QED
    BY <1>1, <2>1, <2>2
<1>3. kernelPc = [kernelPc EXCEPT ![running] = KernelView(pc[running])]
  BY <1>1
<1> QED
  BY <1>1, <1>2, <1>3

\* The running thread sets the interrupt flag on its way to w, which is in its
\* own code: Kernel sees an intr_enable, an intr_disable, kernel_thread_entry,
\* the end of thread_block, or nothing.
LEMMA IntrMaps ==
  ASSUME InputInv, Quiet, NEW w, KernelView(w) = "code", pc[running] # "none",
         NEW i \in {INTR_ON, INTR_OFF},
         pc[running] \in {"boot", "entry"} => i = INTR_ON,
         pc[running] \in {"lock", "wait"} => i = int_save[running],
         pc' = [pc EXCEPT ![running] = w], IntrSetStatus(i),
         UNCHANGED <<sched, stack, stack_top, fault, int_save>>
  PROVE  K!Next \/ UNCHANGED K!vars
<1>1. /\ fault = "none" /\ running \in Thread /\ pc \in [Thread -> Location]
      /\ pc[running] # "code" => cpu.intr = INTR_OFF
      /\ cpu.intr \in {INTR_ON, INTR_OFF} /\ cpu = [cpu EXCEPT !.intr = cpu.intr]
  <2>1. ThreadsRun /\ fault = "none"
    BY QuietRuns
  <2>2. cpu \in Cpu
    BY <2>1 DEF ThreadsRun, Loose, LooseOK
  <2> QED
    BY <2>1, <2>2 DEF ThreadsRun, Cpu
<1>2. /\ K!running = running /\ K!INTR_ON = INTR_ON /\ K!INTR_OFF = INTR_OFF
      /\ K!IntrSetStatus(i)
  BY SameMachine
<1>3. /\ kernelPc' = [kernelPc EXCEPT ![running] = "code"]
      /\ kernelPc[running] = KernelView(pc[running])
      /\ kernelPc = [kernelPc EXCEPT ![running] = KernelView(pc[running])]
  <2>1. running \in Thread
    BY <1>1
  <2>2. kernelPc' = [kernelPc EXCEPT ![running] = KernelView(w)]
    BY <2>1, KernelPcFollows
  <2> QED
    BY <2>1, <2>2, KernelPcFollows
<1>4. CASE pc[running] = "boot"
  <2>1. kernelPc[running] = "boot" /\ cpu.intr = INTR_OFF /\ i = INTR_ON
    BY <1>1, <1>3, <1>4 DEF KernelView
  <2>2. K!IntrEnable
    BY <1>1, <1>2, <1>3, <2>1 DEF K!IntrEnable, K!At, K!Goto
  <2> QED
    BY <2>2 DEF K!Next
<1>5. CASE pc[running] = "entry"
  <2>1. kernelPc[running] = "entry" /\ i = INTR_ON
    BY <1>3, <1>5 DEF KernelView
  <2>2. K!KernelThreadEntry
    BY <1>1, <1>2, <1>3, <2>1 DEF K!KernelThreadEntry, K!At, K!Goto
  <2> QED
    BY <2>2 DEF K!Next
<1>6. CASE pc[running] \in {"lock", "wait"}
  <2>1. kernelPc[running] = "blocked" /\ i = int_save[running]
    BY <1>3, <1>6 DEF KernelView
  <2>2. K!ThreadResume
    BY <1>1, <1>2, <1>3, <2>1 DEF K!ThreadResume, K!At, K!Goto
  <2> QED
    BY <2>2 DEF K!Next
<1>7. CASE pc[running] \notin {"boot", "entry", "lock", "wait"}
  <2>1. kernelPc[running] = "code" /\ kernelPc' = kernelPc
    BY <1>3, <1>7 DEF KernelView
  <2>2. CASE cpu.intr = i
    BY <1>1, <2>1, <2>2 DEF IntrSetStatus, K!vars
  <2>3. CASE cpu.intr = INTR_OFF /\ i = INTR_ON
    <3>1. K!IntrEnable
      BY <1>1, <1>2, <1>3, <2>1, <2>3 DEF K!IntrEnable, K!At, K!Goto
    <3> QED
      BY <3>1 DEF K!Next
  <2>4. CASE cpu.intr = INTR_ON /\ i = INTR_OFF
    <3>1. K!IntrDisable
      BY <1>1, <1>2, <2>1, <2>4 DEF K!IntrDisable, K!At
    <3> QED
      BY <3>1 DEF K!Next
  <2> QED
    BY <1>1, <2>2, <2>3, <2>4
<1> QED
  BY <1>4, <1>5, <1>6, <1>7

\* With interrupts off, in a call of the queue, the running thread wakes h or,
\* if h is NULL, nobody.
LEMMA WakeMaps ==
  ASSUME InputInv, Quiet, pc[running] \in {"loop", "unlock"},
         NEW h \in Thread \cup {NULL}, h # NULL => sched.status[h] = TASK_BLOCKED,
         sched' = IF h = NULL THEN sched ELSE thread_unblock(sched, h),
         NEW w, KernelView(w) = "code", pc' = [pc EXCEPT ![running] = w],
         UNCHANGED <<cpu, stack, stack_top, fault, int_save>>
  PROVE  K!Next \/ UNCHANGED K!vars
<1>1. /\ fault = "none" /\ running \in Thread /\ pc \in [Thread -> Location]
      /\ cpu.intr = INTR_OFF
  BY QuietRuns DEF ThreadsRun
<1>2. kernelPc[running] = "code" /\ kernelPc' = kernelPc
  <2>1. KernelView(pc[running]) = "code"
    BY DEF KernelView
  <2> QED
    BY <1>1, <2>1, KernelPcFollows
<1>3. CASE h = NULL
  BY <1>2, <1>3 DEF K!vars
<1>4. CASE h # NULL
  <2>1. h \in Thread /\ sched' = K!thread_unblock(sched, h)
    BY <1>4, SameScheduler
  <2>2. K!ThreadUnblock(h)
    BY <1>1, <1>2, <1>4, <2>1, SameMachine DEF K!ThreadUnblock, K!At
  <2> QED
    BY <2>1, <2>2 DEF K!Next
<1> QED
  BY <1>3, <1>4

\* An interrupt whose handler wakes h or, if h is NULL, nobody.
LEMMA InterruptMaps ==
  ASSUME fault = "none", NEW h \in Thread \cup {NULL},
         h # NULL => sched.status[h] = TASK_BLOCKED,
         Interrupt(IF h = NULL THEN sched ELSE thread_unblock(sched, h)),
         UNCHANGED <<pc, int_save>>
  PROVE  K!Next
<1>1. kernelPc' = kernelPc
  BY DEF kernelPc
<1>2. CASE h = NULL
  <2>1. K!Interrupt(sched)
    BY <1>2, SameMachine
  <2>2. K!QuietIntr
    BY <1>1, <2>1 DEF K!QuietIntr
  <2> QED
    BY <2>2 DEF K!Next
<1>3. CASE h # NULL
  <2>1. h \in Thread /\ K!Interrupt(K!thread_unblock(sched, h))
    BY <1>3, SameScheduler, SameMachine
  <2>2. K!DeviceIntr(h)
    BY <1>1, <1>3, <2>1, SameMachine DEF K!DeviceIntr
  <2> QED
    BY <2>1, <2>2 DEF K!Next
<1> QED
  BY <1>2, <1>3

\* As long as no handler has found the ring full, every step of Input is a step
\* of Kernel or leaves its state alone.
LEMMA KernelFromNext ==
  ASSUME InputInv, QuietInv, [Next]_vars, ~stuck'
  PROVE  K!Next \/ UNCHANGED K!vars
<1>1. ~stuck /\ Quiet
  BY StuckStays DEF QuietInv, InputInv
<1>2. /\ fault = "none" /\ running \in Thread /\ pc \in [Thread -> Location]
      /\ int_save \in [Thread -> {INTR_ON, INTR_OFF}] /\ kbd_buf \in Ioqueue
      /\ \A t \in Thread : pc[t] \in InCall => op[t] = "get"
  BY <1>1, QuietRuns DEF ThreadsRun
<1>3. fault' = "none"
  <2>1. InputInv' /\ QuietInv'
    BY <1>1, InputKept, QuietKept
  <2> QED
    BY <2>1 DEF QuietInv, Quiet
<1>4. /\ kbd_buf.producer \in Thread \cup {NULL} /\ kbd_buf.consumer \in Thread \cup {NULL}
      /\ kbd_buf.mtx.sem.waiters \in Seq(Thread)
  BY <1>2 DEF Ioqueue, Mutex, Semaphore
<1>5. ASSUME NEW t \in Thread, ThreadRun(t) PROVE K!Next
  <2>1. PICK prio : prio = PRIO_NUM - 1
    OBVIOUS
  <2>2. /\ pc[running] = "boot" /\ pc[t] = "none" /\ sched' = thread_run(sched, t, prio)
        /\ thread_stack_init(t) /\ pc' = [pc EXCEPT ![t] = "entry"]
        /\ UNCHANGED <<cpu, fault, int_save>>
    BY <1>5, <2>1 DEF ThreadRun, At
  <2>3. K!thread_stack_init(t) /\ K!running = running /\ K!Prio = Prio
    BY <2>2, SameMachine
  <2>4. /\ kernelPc' = [kernelPc EXCEPT ![t] = "entry"]
        /\ kernelPc[t] = "none" /\ kernelPc[running] = "boot"
    <3>1. KernelView("entry") = "entry"
      BY DEF KernelView
    <3>2. kernelPc' = [kernelPc EXCEPT ![t] = KernelView("entry")]
      BY <2>2, KernelPcFollows
    <3>3. /\ kernelPc[t] = KernelView(pc[t])
          /\ kernelPc[running] = KernelView(pc[running])
      BY <1>2, KernelPcFollows
    <3> QED
      BY <2>2, <3>1, <3>2, <3>3 DEF KernelView
  <2>5. sched' = K!thread_run(sched, t, prio)
    BY <2>2, SameScheduler
  <2>6. K!ThreadRun(t, prio)
    BY <1>2, <2>2, <2>3, <2>4, <2>5 DEF K!ThreadRun, K!Create, K!At
  <2>7. prio \in Prio
    BY <2>1, SchedulerAssumption DEF Prio
  <2> QED
    BY <2>3, <2>6, <2>7 DEF K!Next
<1>6. CASE Booted \/ KernelThreadEntry \/ GetChar \/ ThreadResume \/ Done
  <2>1. PICK w, i : /\ KernelView(w) = "code" /\ pc[running] # "none"
                    /\ i \in {INTR_ON, INTR_OFF}
                    /\ pc[running] \in {"boot", "entry"} => i = INTR_ON
                    /\ pc[running] \in {"lock", "wait"} => i = int_save[running]
                    /\ pc' = [pc EXCEPT ![running] = w] /\ IntrSetStatus(i)
                    /\ UNCHANGED <<sched, stack, stack_top, fault, int_save>>
    <3>1. KernelView("code") = "code" /\ KernelView("loop") = "code"
          /\ KernelView("down") = "code" /\ KernelView("unlock") = "code"
      BY DEF KernelView
    <3>2. CASE Booted \/ KernelThreadEntry \/ Done
      BY <3>1, <3>2 DEF Booted, KernelThreadEntry, Done, At, Goto, SetIntr
    <3>3. CASE GetChar
      BY <3>1, <3>3 DEF GetChar, At, Goto, SetIntr
    <3>4. CASE ThreadResume
      <4>1. PICK w : w = IF pc[running] = "lock" THEN "down" ELSE "unlock"
        OBVIOUS
      <4>2. /\ pc[running] \in {"lock", "wait"} /\ IntrSetStatus(int_save[running])
            /\ pc' = [pc EXCEPT ![running] = w]
            /\ UNCHANGED <<sched, stack, stack_top, fault, int_save>>
        BY <3>4, <4>1 DEF ThreadResume, At, Goto, SetIntr
      <4>3. KernelView(w) = "code" /\ int_save[running] \in {INTR_ON, INTR_OFF}
        BY <1>2, <3>1, <4>1
      <4> QED
        BY <4>2, <4>3
    <3> QED
      BY <1>6, <3>2, <3>3, <3>4
  <2> QED
    BY <1>1, <2>1, IntrMaps
<1>7. CASE SemWait \/ IoqWait
  <2>1. PICK w : /\ w \in {"lock", "wait"} /\ Block(w)
                 /\ pc[running] \in {"loop", "down"}
    BY <1>7 DEF SemWait, IoqWait, Locking, At
  <2>2. /\ pc' = [pc EXCEPT ![running] = w] /\ TaskTrap(thread_block(sched))
        /\ int_save' = [int_save EXCEPT ![running] = cpu.intr]
    BY <2>1 DEF Block, Goto
  <2>3. KernelView(w) = "blocked" /\ KernelView(pc[running]) = "code"
    BY <2>1 DEF KernelView
  <2>4. /\ kernelPc' = [kernelPc EXCEPT ![running] = "blocked"]
        /\ kernelPc[running] = "code"
    <3>1. running \in Thread /\ pc' = [pc EXCEPT ![running] = w]
      BY <1>2, <2>2
    <3>2. /\ kernelPc' = [kernelPc EXCEPT ![running] = KernelView(w)]
          /\ kernelPc[running] = KernelView(pc[running])
      BY <3>1, KernelPcFollows
    <3> QED
      BY <2>3, <3>2
  <2>5. K!TaskTrap(K!thread_block(sched)) /\ K!running = running
    BY <2>2, SameScheduler, SameMachine
  <2>6. K!ThreadBlock
    BY <1>2, <2>2, <2>4, <2>5 DEF K!ThreadBlock, K!At, K!Goto
  <2> QED
    BY <2>6 DEF K!Next
<1>8. CASE MutexUnlock
  <2>1. PICK sem, h : /\ sem = kbd_buf.mtx.sem
                      /\ h = IF sem.waiters = << >> THEN NULL ELSE Head(sem.waiters)
    OBVIOUS
  <2>2. /\ pc[running] = "unlock" /\ UNCHANGED <<cpu, stack, stack_top, fault, int_save>>
        /\ sem_up_assert(sem, sched) /\ sched' = sem_up_wake(sem, sched)
        /\ pc' = [pc EXCEPT ![running] = "loop"]
    BY <1>2, <1>3, <1>8, <2>1 DEF MutexUnlock, At, Goto
  <2>3. /\ h \in Thread \cup {NULL} /\ (h = NULL <=> sem.waiters = << >>)
    BY <1>4, <2>1, SchedulerAssumption
  <2>4. /\ h # NULL => sched.status[h] = TASK_BLOCKED
        /\ sched' = IF h = NULL THEN sched ELSE thread_unblock(sched, h)
    BY <2>1, <2>2, <2>3 DEF sem_up_assert, sem_up_wake
  <2>5. KernelView("loop") = "code"
    BY DEF KernelView
  <2> QED
    BY <1>1, <2>2, <2>3, <2>4, <2>5, WakeMaps
<1>9. CASE IoqGet
  <2>1. PICK h : h = kbd_buf.producer
    OBVIOUS
  <2>2. /\ pc[running] = "loop" /\ UNCHANGED <<cpu, stack, stack_top, fault, int_save>>
        /\ ioq_signal_assert(h, sched) /\ sched' = ioq_signal(h, sched)
        /\ pc' = [pc EXCEPT ![running] = "done"]
    BY <1>2, <1>3, <1>9, <2>1 DEF IoqGet, At, Goto
  <2>3. /\ h # NULL => sched.status[h] = TASK_BLOCKED
        /\ sched' = IF h = NULL THEN sched ELSE thread_unblock(sched, h)
    BY <2>2 DEF ioq_signal_assert, ioq_signal
  <2>4. KernelView("done") = "code"
    BY DEF KernelView
  <2> QED
    BY <1>1, <1>4, <2>1, <2>2, <2>3, <2>4, WakeMaps
<1>10. ~IoqPut
  BY <1>2 DEF IoqPut, At, InCall
<1>11. ASSUME NEW b \in ScanByte, KeyIgnored(b) PROVE K!Next
  <2>1. Interrupt(sched) /\ UNCHANGED <<pc, int_save>>
    BY <1>11 DEF KeyIgnored
  <2> QED
    BY <1>2, <2>1, InterruptMaps
<1>12. ASSUME NEW b \in ScanByte, NEW c \in Byte, KeyStored(b, c) PROVE K!Next
  <2>1. PICK h : h = kbd_buf.consumer
    OBVIOUS
  <2>2. /\ ioq_signal_assert(h, sched) /\ Interrupt(ioq_signal(h, sched))
        /\ UNCHANGED <<pc, int_save>>
    BY <1>3, <1>12, <2>1 DEF KeyStored
  <2>3. /\ h # NULL => sched.status[h] = TASK_BLOCKED
        /\ Interrupt(IF h = NULL THEN sched ELSE thread_unblock(sched, h))
    BY <2>2 DEF ioq_signal_assert, ioq_signal
  <2> QED
    BY <1>2, <1>4, <2>1, <2>2, <2>3, InterruptMaps
<1>13. ASSUME NEW b \in ScanByte, NEW c \in Byte, KeyStuck(b, c) PROVE FALSE
  BY <1>13 DEF KeyStuck
<1>14. CASE TimerIntr
  <2>1. Interrupt(intr_timer_handler(sched)) /\ UNCHANGED <<pc, int_save>>
    BY <1>14 DEF TimerIntr, inputVars
  <2>2. K!Interrupt(K!intr_timer_handler(sched))
    BY <2>1, SameScheduler, SameMachine
  <2>3. kernelPc' = kernelPc
    BY <2>1 DEF kernelPc
  <2>4. K!TimerIntr
    BY <1>2, <2>1, <2>2, <2>3 DEF K!TimerIntr
  <2> QED
    BY <2>4 DEF K!Next
<1>15. CASE Halted \/ UNCHANGED vars
  BY <1>15 DEF Halted, vars, machineVars, inputVars, K!vars, kernelPc
<1> QED
  BY <1>5, <1>6, <1>7, <1>8, <1>9, <1>10, <1>11, <1>12, <1>13, <1>14, <1>15
     DEF Next, Code

\* Until a handler has found the ring full, keyboard input implements Kernel,
\* for any ring, any keyboard and any number of threads and readers: the
\* keyboard handler is one of the devices that Kernel allows.
THEOREM InputImplementsKernel == Spec => ImplementsKernel
<1>1. Init => K!Init
  BY KernelFromInit
<1>2. InputInv /\ QuietInv /\ [Next]_vars => [stuck' \/ K!Next]_(K!vars)
  BY KernelFromNext
<1> QED
  BY <1>1, <1>2, InputQuietInvariant, PTL DEF Spec, ImplementsKernel
=============================================================================
