---------------------------- MODULE ConsoleProofs ----------------------------
(***************************************************************************)
(* Proofs about the console workload, for any number of kernel threads and *)
(* processes: the mutex excludes, no waiter is lost, the machine never     *)
(* leaves the code, and the workload is a client that Kernel allows.       *)
(***************************************************************************)
EXTENDS Console, MachineProofs

-----------------------------------------------------------------------------
(* The invariant                                                           *)

\* The threads that are in their own code, as Kernel understands it.
InCode == {t \in Thread : pc[t] \notin {"none", "boot", "entry", "blocked"}}

\* Where sem_down and sem_up have interrupts off.
IntrOff == {"down", "locked", "up", "upped"}

\* Where mutex->holder may still name the thread.
Named == {"put", "unlock", "up", "upped", "clear"}

\* What the semaphore says of the threads.
SyncInv == MutualExclusion /\ SemaphoreExact /\ NoLostWakeup

\* The inductive invariant.  Beyond the properties it says that a blocked
\* thread is in thread_block and will find interrupts off when it leaves it,
\* and that only the running thread can be in a stretch of sem_down or sem_up
\* that must not be interrupted.
ConsoleInv ==
  /\ TypeOK
  /\ MachineInv(InCode)
  /\ NeverFaults
  /\ \A t \in Thread : pc[t] = "none" <=> t \notin Created(sched)
  /\ SyncInv
  /\ HolderAccurate
  /\ \A t \in Thread : sched.status[t] = TASK_BLOCKED => pc[t] = "blocked"
  /\ \A t \in Thread : pc[t] = "blocked" => int_save[t] = INTR_OFF
  /\ \A t \in Thread : pc[t] \in IntrOff => t = running /\ cpu.intr = INTR_OFF

\* What the parts of the invariant mean after a step.
LEMMA ConsoleStepped ==
  ASSUME pc' \in [Thread -> Location],
         int_save' \in [Thread -> {INTR_ON, INTR_OFF}],
         sem_save' \in [Thread -> {INTR_ON, INTR_OFF}],
         first' \in [Thread -> BOOLEAN], console_mutex' \in Mutex,
         Stepped(InCode'), fault' = "none",
         \A t \in Thread : pc'[t] = "none" <=> t \notin Created(sched'),
         SyncInv', HolderAccurate',
         \A t \in Thread : sched'.status[t] = TASK_BLOCKED => pc'[t] = "blocked",
         \A t \in Thread : pc'[t] = "blocked" => int_save'[t] = INTR_OFF,
         \A t \in Thread : pc'[t] \in IntrOff =>
                             t = sched'.running /\ cpu'.intr = INTR_OFF
  PROVE  ConsoleInv'
<1>1. MachineInv(InCode)'
  BY DEF Stepped, MachineInv
<1>2. TypeOK'
  BY DEF Stepped, MachineOK, TypeOK, MachineTypeOK, Cpu, Fault
<1>3. (\A t \in Thread : pc[t] \in IntrOff => t = running /\ cpu.intr = INTR_OFF)'
  BY DEF running
<1> QED
  BY <1>1, <1>2, <1>3 DEF ConsoleInv, NeverFaults

\* A step that leaves the semaphore alone, blocks and wakes nobody, and takes
\* no thread into or out of the mutex.
LEMMA SyncKept ==
  ASSUME SyncInv, console_mutex'.sem = console_mutex.sem,
         \A t \in Thread : sched'.status[t] = TASK_BLOCKED
                             <=> sched.status[t] = TASK_BLOCKED,
         \A t \in Thread : pc'[t] \in InLock <=> pc[t] \in InLock,
         \A t \in Thread : pc[t] \in {"blocked", "down"}
                             => pc'[t] \in {"blocked", "down"}
  PROVE  SyncInv'
<1>1. Holders' = Holders
  BY DEF Holders
<1>2. MutualExclusion' /\ SemaphoreExact'
  BY <1>1 DEF SyncInv, MutualExclusion, SemaphoreExact
<1>3. NoLostWakeup'
  BY DEF SyncInv, NoLostWakeup
<1> QED
  BY <1>2, <1>3 DEF SyncInv

\* The running thread goes on to w, setting the interrupt flag to i, and at
\* most the holder of the mutex changes.
LEMMA CodeStep ==
  ASSUME ConsoleInv, NEW w \in Location \ {"none", "boot", "entry", "blocked"},
         NEW i \in {INTR_ON, INTR_OFF},
         pc' = [pc EXCEPT ![running] = w], IntrSetStatus(i),
         UNCHANGED <<sched, stack, stack_top, fault, int_save>>,
         sem_save' \in [Thread -> {INTR_ON, INTR_OFF}],
         first' \in [Thread -> BOOLEAN],
         console_mutex' \in Mutex, console_mutex'.sem = console_mutex.sem,
         pc[running] # "none", pc[running] \in InLock <=> w \in InLock,
         pc[running] \in {"blocked", "down"} => w = "down",
         w \in IntrOff => i = INTR_OFF,
         \/ console_mutex'.holder = NULL
         \/ console_mutex'.holder = running /\ w \in Named
         \/ /\ console_mutex'.holder = console_mutex.holder
            /\ pc[running] \in Named => w \in Named
  PROVE  ConsoleInv'
<1>1. /\ MachineInv(InCode) /\ fault = "none"
      /\ pc \in [Thread -> Location]
      /\ int_save \in [Thread -> {INTR_ON, INTR_OFF}]
      /\ console_mutex \in Mutex /\ cpu \in Cpu
  BY DEF ConsoleInv, NeverFaults, TypeOK, MachineInv, MachineOK
<1>2. running \in Thread /\ sched.status[running] = TASK_RUNNING
  BY <1>1, RunningSound
<1>3. /\ pc'[running] = w /\ pc' \in [Thread -> Location]
      /\ \A t \in Thread \ {running} : pc'[t] = pc[t]
  BY <1>1, <1>2
<1>4. Stepped(InCode')
  <2>1. PICK c, d : c = InCode /\ d = InCode'
    OBVIOUS
  <2>2. MachineInv(c) /\ d = c \cup {running}
    BY <1>1, <1>2, <1>3, <2>1 DEF InCode
  <2>3. Stepped(d)
    BY <1>1, <2>2, MachineIntr
  <2> QED
    BY <2>1, <2>3
<1>5. cpu'.intr = i
  BY <1>1 DEF IntrSetStatus, Cpu
<1>6. SyncInv'
  <2>1. \A t \in Thread : pc'[t] \in InLock <=> pc[t] \in InLock
    BY <1>3
  <2>2. \A t \in Thread : pc[t] \in {"blocked", "down"}
                            => pc'[t] \in {"blocked", "down"}
    BY <1>3
  <2> QED
    BY <2>1, <2>2, SyncKept DEF ConsoleInv
<1>7. HolderAccurate'
  <2>1. HolderAccurate /\ console_mutex'.holder \in Thread \cup {NULL}
    BY DEF ConsoleInv, Mutex
  <2> QED
    BY <1>2, <1>3, <2>1, SchedulerAssumption DEF HolderAccurate, Named
<1>8. \A t \in Thread : pc'[t] = "none" <=> t \notin Created(sched')
  BY <1>3 DEF ConsoleInv
<1>9. \A t \in Thread : sched'.status[t] = TASK_BLOCKED => pc'[t] = "blocked"
  BY <1>2, <1>3 DEF ConsoleInv, TASK_BLOCKED, TASK_RUNNING
<1>10. \A t \in Thread : pc'[t] = "blocked" => int_save'[t] = INTR_OFF
  BY <1>3 DEF ConsoleInv
<1>11. \A t \in Thread : pc'[t] \in IntrOff =>
                           t = sched'.running /\ cpu'.intr = INTR_OFF
  BY <1>3, <1>5 DEF ConsoleInv, running
<1> QED
  BY <1>1, <1>3, <1>4, <1>6, <1>7, <1>8, <1>9, <1>10, <1>11, ConsoleStepped

\* The initial state.
LEMMA ConsoleInit == Init => ConsoleInv
<1> SUFFICES ASSUME Init PROVE ConsoleInv
  OBVIOUS
<1>1. PICK c : c = InCode
  OBVIOUS
<1>2. MachineInit /\ fault = "none"
  BY DEF Init, MachineInit
<1>3. MachineInv(c)
  BY <1>2, MachineStart
<1>4. /\ sched.running = idle /\ sched.status[idle] = TASK_RUNNING
      /\ Created(sched) = {idle}
  BY <1>2, InitSound DEF MachineInit
<1>5. /\ pc = [t \in Thread |-> IF t = idle THEN "boot" ELSE "none"]
      /\ int_save = [t \in Thread |-> INTR_OFF]
      /\ sem_save = [t \in Thread |-> INTR_OFF]
      /\ first = [t \in Thread |-> TRUE]
      /\ console_mutex = mutex_init
  BY DEF Init
<1>6. \A t \in Thread : sched.status[t] # TASK_BLOCKED
  BY <1>4 DEF Created, TASK_RUNNING, TASK_BLOCKED, NO_TCB
<1>7. /\ console_mutex \in Mutex /\ console_mutex.holder = NULL
      /\ console_mutex.sem.val = 1 /\ console_mutex.sem.waiters = << >>
  BY <1>5 DEF mutex_init, sem_init, Mutex, Semaphore, UINT8_MAX
<1>8. TypeOK
  BY <1>2, <1>3, <1>5, <1>7
     DEF TypeOK, MachineTypeOK, MachineInv, MachineOK, Cpu, Fault, Location
<1>9. Holders = {}
  BY <1>5 DEF Holders, InLock
<1>10. IsInjective(<< >>) /\ ToSet(<< >>) = {}
  BY DEF IsInjective, ToSet
<1>11. SyncInv
  BY <1>6, <1>7, <1>9, <1>10
     DEF SyncInv, MutualExclusion, SemaphoreExact, NoLostWakeup
<1>12. HolderAccurate
  BY <1>7 DEF HolderAccurate
<1>13. \A t \in Thread : pc[t] = "none" <=> t \notin Created(sched)
  BY <1>4, <1>5
<1> QED
  BY <1>1, <1>2, <1>3, <1>5, <1>6, <1>8, <1>11, <1>12, <1>13
     DEF ConsoleInv, NeverFaults, IntrOff

\* What the proofs of the steps start from.
LEMMA ConsoleRuns ==
  ASSUME ConsoleInv
  PROVE  /\ MachineInv(InCode) /\ fault = "none"
         /\ pc \in [Thread -> Location]
         /\ int_save \in [Thread -> {INTR_ON, INTR_OFF}]
         /\ sem_save \in [Thread -> {INTR_ON, INTR_OFF}]
         /\ first \in [Thread -> BOOLEAN]
         /\ console_mutex \in Mutex /\ cpu \in Cpu
         /\ cpu = [cpu EXCEPT !.intr = cpu.intr]
         /\ cpu.intr \in {INTR_ON, INTR_OFF}
         /\ running \in Thread /\ sched.status[running] = TASK_RUNNING
         /\ running = sched.running
<1>1. /\ MachineInv(InCode) /\ fault = "none"
      /\ pc \in [Thread -> Location]
      /\ int_save \in [Thread -> {INTR_ON, INTR_OFF}]
      /\ sem_save \in [Thread -> {INTR_ON, INTR_OFF}]
      /\ first \in [Thread -> BOOLEAN]
      /\ console_mutex \in Mutex /\ cpu \in Cpu
  BY DEF ConsoleInv, NeverFaults, TypeOK, MachineInv, MachineOK
<1>2. running \in Thread /\ sched.status[running] = TASK_RUNNING
  BY <1>1, RunningSound
<1> QED
  BY <1>1, <1>2 DEF Cpu, running

\* thread_run and process_run, in main().
LEMMA CreateKept ==
  ASSUME ConsoleInv, NEW t \in Thread, NEW prio \in Prio,
         NEW s, s = thread_run(sched, t, prio) \/ s = process_run(sched, t),
         Create(t, s)
  PROVE  ConsoleInv'
<1>1. /\ MachineInv(InCode) /\ fault = "none" /\ pc \in [Thread -> Location]
      /\ int_save \in [Thread -> {INTR_ON, INTR_OFF}]
      /\ sem_save \in [Thread -> {INTR_ON, INTR_OFF}]
      /\ first \in [Thread -> BOOLEAN] /\ console_mutex \in Mutex
      /\ running \in Thread /\ running = sched.running
  BY ConsoleRuns
<1>2. /\ pc[t] = "none" /\ sched' = s /\ thread_stack_init(t)
      /\ pc' = [pc EXCEPT ![t] = "entry"]
      /\ UNCHANGED <<cpu, fault, int_save, sem_save, first, console_mutex>>
  BY DEF Create
<1>3. /\ pc' \in [Thread -> Location] /\ pc'[t] = "entry"
      /\ \A x \in Thread \ {t} : pc'[x] = pc[x]
  BY <1>1, <1>2 DEF Location
<1>4. t \notin Created(sched)
  BY <1>2 DEF ConsoleInv
<1>5. Stepped(InCode') /\ Spawned(sched', sched, t)
  <2>1. PICK c, d : c = InCode /\ d = InCode'
    OBVIOUS
  <2>2. d = c \ {t}
    BY <1>3, <2>1 DEF InCode
  <2>3. Stepped(d) /\ Spawned(sched', sched, t)
    <3>1. MachineInv(c)
      BY <1>1, <2>1
    <3>2. sched' = thread_run(sched, t, prio) \/ sched' = process_run(sched, t)
      BY <1>2
    <3> QED
      BY <1>1, <1>2, <1>4, <2>2, <3>1, <3>2, MachineSpawn
  <2> QED
    BY <2>1, <2>3
<1>6. /\ sched'.status = [sched.status EXCEPT ![t] = TASK_READY]
      /\ Created(sched') = Created(sched) \cup {t}
      /\ sched'.running = running
  BY <1>1, <1>5 DEF Spawned
<1>7. /\ sched'.status[t] # TASK_BLOCKED
      /\ sched.status[t] # TASK_BLOCKED
      /\ \A x \in Thread \ {t} : sched'.status[x] = sched.status[x]
  <2>1. sched.status \in [Thread -> Status]
    BY <1>1 DEF MachineInv, MachineOK, SchedState
  <2> QED
    BY <1>4, <1>6, <2>1 DEF Created, TASK_READY, TASK_BLOCKED, NO_TCB
<1>8. SyncInv'
  <2>1. \A x \in Thread : sched'.status[x] = TASK_BLOCKED
                            <=> sched.status[x] = TASK_BLOCKED
    BY <1>7
  <2>2. \A x \in Thread : pc'[x] \in InLock <=> pc[x] \in InLock
    BY <1>2, <1>3 DEF InLock
  <2>3. \A x \in Thread : pc[x] \in {"blocked", "down"}
                            => pc'[x] \in {"blocked", "down"}
    BY <1>2, <1>3
  <2> QED
    BY <1>2, <2>1, <2>2, <2>3, SyncKept DEF ConsoleInv
<1>9. HolderAccurate'
  <2>1. HolderAccurate /\ console_mutex.holder \in Thread \cup {NULL}
    BY <1>1 DEF ConsoleInv, Mutex
  <2> QED
    BY <1>2, <1>3, <2>1 DEF HolderAccurate
<1>10. \A x \in Thread : pc'[x] = "none" <=> x \notin Created(sched')
  BY <1>2, <1>3, <1>6 DEF ConsoleInv
<1>11. \A x \in Thread : sched'.status[x] = TASK_BLOCKED => pc'[x] = "blocked"
  BY <1>3, <1>7 DEF ConsoleInv
<1>12. \A x \in Thread : pc'[x] = "blocked" => int_save'[x] = INTR_OFF
  BY <1>2, <1>3 DEF ConsoleInv
<1>13. \A x \in Thread : pc'[x] \in IntrOff =>
                           x = sched'.running /\ cpu'.intr = INTR_OFF
  BY <1>2, <1>3, <1>6 DEF ConsoleInv, IntrOff
<1> QED
  BY <1>1, <1>2, <1>3, <1>5, <1>8, <1>9, <1>10, <1>11, <1>12, <1>13,
     ConsoleStepped

\* The counter as SemaphoreExact leaves it: 1 and nobody in the mutex, or 0.
LEMMA Counter ==
  ASSUME ConsoleInv
  PROVE  /\ console_mutex.sem \in Semaphore
         /\ console_mutex.sem.val # 0 => Holders = {} /\ console_mutex.sem.val = 1
         /\ console_mutex.sem.val = 0 => Holders # {}
  BY DEF ConsoleInv, SyncInv, SemaphoreExact, TypeOK, Mutex

\* sem_down finds the counter at one and takes it.
LEMMA SemTakeKept ==
  ASSUME ConsoleInv, SemTake
  PROVE  ConsoleInv'
<1>1. /\ MachineInv(InCode) /\ fault = "none" /\ pc \in [Thread -> Location]
      /\ int_save \in [Thread -> {INTR_ON, INTR_OFF}]
      /\ sem_save \in [Thread -> {INTR_ON, INTR_OFF}]
      /\ first \in [Thread -> BOOLEAN] /\ console_mutex \in Mutex
      /\ cpu = [cpu EXCEPT !.intr = cpu.intr]
      /\ cpu.intr \in {INTR_ON, INTR_OFF}
      /\ running \in Thread /\ running = sched.running
      /\ sched.status[running] = TASK_RUNNING
  BY ConsoleRuns
<1>2. /\ pc[running] = "down" /\ console_mutex.sem.val # 0
      /\ console_mutex' = [console_mutex EXCEPT !.sem = sem_down_take(@)]
      /\ pc' = [pc EXCEPT ![running] = "locked"]
      /\ UNCHANGED <<sched, cpu, stack, stack_top, fault>>
      /\ UNCHANGED <<int_save, sem_save, first>>
  BY DEF SemTake, At, Goto, machineVars
<1>3. /\ pc' \in [Thread -> Location] /\ pc'[running] = "locked"
      /\ \A x \in Thread \ {running} : pc'[x] = pc[x]
  BY <1>1, <1>2 DEF Location, InLock
<1>4. Stepped(InCode')
  <2>1. PICK c, d : c = InCode /\ d = InCode'
    OBVIOUS
  <2>2. d = c \cup {running} /\ MachineInv(c)
    BY <1>1, <1>3, <2>1 DEF InCode
  <2>3. IntrSetStatus(cpu.intr)
    BY <1>1, <1>2 DEF IntrSetStatus
  <2>4. Stepped(d)
    BY <1>1, <1>2, <2>2, <2>3, MachineIntr
  <2> QED
    BY <2>1, <2>4
<1>5. Holders = {} /\ console_mutex.sem.val = 1 /\ console_mutex.sem \in Semaphore
  BY <1>2, Counter
<1>6. Holders' = {running}
  BY <1>1, <1>3, <1>5 DEF Holders, InLock
<1>7. /\ console_mutex'.sem.val = 0 /\ console_mutex' \in Mutex
      /\ console_mutex'.sem.waiters = console_mutex.sem.waiters
      /\ console_mutex'.holder = console_mutex.holder
  BY <1>1, <1>2, <1>5 DEF sem_down_take, Mutex, Semaphore, UINT8_MAX
<1>8. SyncInv'
  <2>1. MutualExclusion' /\ NoLostWakeup'
    BY <1>6, <1>7 DEF MutualExclusion, NoLostWakeup
  <2>2. SemaphoreExact'
    BY <1>2, <1>6, <1>7 DEF ConsoleInv, SyncInv, SemaphoreExact
  <2> QED
    BY <2>1, <2>2 DEF SyncInv
<1>9. HolderAccurate'
  <2>1. HolderAccurate /\ console_mutex.holder \in Thread \cup {NULL}
    BY <1>1 DEF ConsoleInv, Mutex
  <2> QED
    BY <1>2, <1>3, <1>7, <2>1 DEF HolderAccurate
<1>10. \A x \in Thread : pc'[x] = "none" <=> x \notin Created(sched')
  BY <1>2, <1>3 DEF ConsoleInv
<1>11. \A x \in Thread : sched'.status[x] = TASK_BLOCKED => pc'[x] = "blocked"
  BY <1>1, <1>2, <1>3 DEF ConsoleInv, TASK_RUNNING, TASK_BLOCKED
<1>12. \A x \in Thread : pc'[x] = "blocked" => int_save'[x] = INTR_OFF
  BY <1>2, <1>3 DEF ConsoleInv
<1>13. \A x \in Thread : pc'[x] \in IntrOff =>
                           x = sched'.running /\ cpu'.intr = INTR_OFF
  BY <1>1, <1>2, <1>3 DEF ConsoleInv, IntrOff
<1> QED
  BY <1>1, <1>2, <1>3, <1>4, <1>7, <1>8, <1>9, <1>10, <1>11, <1>12, <1>13,
     ConsoleStepped

\* sem_up gives the counter back and wakes the first waiter, if any.
LEMMA SemGiveKept ==
  ASSUME ConsoleInv, SemGive
  PROVE  ConsoleInv'
<1>1. /\ MachineInv(InCode) /\ fault = "none" /\ pc \in [Thread -> Location]
      /\ int_save \in [Thread -> {INTR_ON, INTR_OFF}]
      /\ sem_save \in [Thread -> {INTR_ON, INTR_OFF}]
      /\ first \in [Thread -> BOOLEAN] /\ console_mutex \in Mutex
      /\ cpu = [cpu EXCEPT !.intr = cpu.intr]
      /\ cpu.intr \in {INTR_ON, INTR_OFF}
      /\ running \in Thread /\ running = sched.running
      /\ sched.status[running] = TASK_RUNNING
  BY ConsoleRuns
<1>2. PICK sem : sem = console_mutex.sem
  OBVIOUS
<1>3. pc[running] = "up" /\ UNCHANGED <<cpu, stack, stack_top, int_save, sem_save, first>>
  BY DEF SemGive, At
<1>4. Holders = {running} /\ sem.val = 0 /\ sem \in Semaphore
  <2>1. running \in Holders
    BY <1>1, <1>3 DEF Holders, InLock
  <2>2. MutualExclusion
    BY DEF ConsoleInv, SyncInv
  <2> QED
    BY <1>2, <2>1, <2>2, Counter DEF MutualExclusion
<1>5. /\ IsInjective(sem.waiters) /\ sem.waiters \in Seq(Thread)
      /\ ToSet(sem.waiters) = {t \in Thread : sched.status[t] = TASK_BLOCKED}
  BY <1>2, <1>4 DEF ConsoleInv, SyncInv, SemaphoreExact, Semaphore
<1>6. sem.waiters # << >> =>
        /\ Head(sem.waiters) \in Thread
        /\ sched.status[Head(sem.waiters)] = TASK_BLOCKED
        /\ Tail(sem.waiters) \in Seq(Thread) /\ IsInjective(Tail(sem.waiters))
        /\ ToSet(Tail(sem.waiters)) = ToSet(sem.waiters) \ {Head(sem.waiters)}
  BY <1>5, PopFront
<1>7. sem_up_assert(sem, sched)
  BY <1>4, <1>6 DEF sem_up_assert
<1>8. /\ sched' = sem_up_wake(sem, sched)
      /\ console_mutex' = [console_mutex EXCEPT !.sem = sem_up_put(sem)]
      /\ pc' = [pc EXCEPT ![running] = "upped"] /\ UNCHANGED fault
  BY <1>2, <1>7 DEF SemGive, Goto
<1>9. /\ pc' \in [Thread -> Location] /\ pc'[running] = "upped"
      /\ \A x \in Thread \ {running} : pc'[x] = pc[x]
  BY <1>1, <1>8 DEF Location
<1>10. Holders' = {}
  BY <1>4, <1>9 DEF Holders, InLock
<1>11. /\ sched' = IF sem.waiters = << >> THEN sched
                   ELSE thread_unblock(sched, Head(sem.waiters))
       /\ console_mutex'.sem.val = 1 /\ console_mutex' \in Mutex
       /\ console_mutex'.sem.waiters = IF sem.waiters = << >> THEN << >>
                                       ELSE Tail(sem.waiters)
       /\ console_mutex'.holder = console_mutex.holder
  <2>1. (sem.val + 1) % (UINT8_MAX + 1) = 1
    BY <1>4 DEF UINT8_MAX
  <2>2. sem_up_put(sem) = [val |-> 1,
                           waiters |-> IF sem.waiters = << >> THEN << >>
                                       ELSE Tail(sem.waiters)]
    BY <2>1 DEF sem_up_put, list_pop_front
  <2>3. sem_up_put(sem) \in Semaphore
    BY <1>6, <2>2 DEF Semaphore, UINT8_MAX
  <2>4. PICK put \in Semaphore : put = sem_up_put(sem)
    BY <2>3
  <2>5. /\ console_mutex' = [console_mutex EXCEPT !.sem = put] /\ put.val = 1
        /\ put.waiters = IF sem.waiters = << >> THEN << >> ELSE Tail(sem.waiters)
    BY <1>8, <2>2, <2>4
  <2>6. /\ console_mutex'.sem = put /\ console_mutex' \in Mutex
        /\ console_mutex'.holder = console_mutex.holder
    BY <1>1, <2>5 DEF Mutex
  <2> QED
    BY <1>8, <2>5, <2>6 DEF sem_up_wake
<1>12. InCode' = InCode
  BY <1>1, <1>3, <1>9 DEF InCode
<1>13. /\ Stepped(InCode') /\ sched'.running = running
       /\ Created(sched') = Created(sched)
       /\ sem.waiters = << >> => sched'.status = sched.status
       /\ sem.waiters # << >> =>
            sched'.status = [sched.status EXCEPT ![Head(sem.waiters)] = TASK_READY]
  <2>1. PICK c, d : c = InCode /\ d = InCode'
    OBVIOUS
  <2>2. d = c /\ MachineInv(c)
    BY <1>1, <1>12, <2>1
  <2>3. CASE sem.waiters = << >>
    <3>1. sched' = sched /\ d = c \cup {running}
      BY <1>1, <1>3, <1>11, <2>1, <2>2, <2>3 DEF InCode
    <3>2. IntrSetStatus(cpu.intr)
      BY <1>1, <1>3 DEF IntrSetStatus
    <3>3. Stepped(d)
      BY <1>1, <1>3, <1>8, <2>2, <3>1, <3>2, MachineIntr
    <3> QED
      BY <1>1, <2>1, <2>3, <3>1, <3>3
  <2>4. CASE sem.waiters # << >>
    <3>1. PICK h \in Thread : h = Head(sem.waiters)
      BY <1>6, <2>4
    <3>2. Stepped(c) /\ Woken(sched', sched, h)
      BY <1>1, <1>3, <1>6, <1>8, <1>11, <2>2, <2>4, <3>1, MachineWake
    <3>3. /\ sched'.running = sched.running
          /\ sched'.status = [sched.status EXCEPT ![h] = TASK_READY]
          /\ Created(sched') = Created(sched)
      BY <3>2 DEF Woken, SameThreads
    <3> QED
      BY <1>1, <2>1, <2>2, <2>4, <3>1, <3>2, <3>3
  <2> QED
    BY <2>3, <2>4
<1>14. sched.status \in [Thread -> Status]
  BY <1>1 DEF MachineInv, MachineOK, SchedState
<1>15. SyncInv'
  <2>1. MutualExclusion'
    BY <1>10 DEF MutualExclusion
  <2>2. SemaphoreExact'
    <3>1. CASE sem.waiters = << >>
      BY <1>5, <1>10, <1>11, <1>13, <3>1 DEF SemaphoreExact
    <3>2. CASE sem.waiters # << >>
      <4>1. {t \in Thread : sched'.status[t] = TASK_BLOCKED}
              = {t \in Thread : sched.status[t] = TASK_BLOCKED} \ {Head(sem.waiters)}
        BY <1>13, <1>14, <3>2 DEF TASK_READY, TASK_BLOCKED
      <4> QED
        BY <1>5, <1>6, <1>10, <1>11, <3>2, <4>1 DEF SemaphoreExact
    <3> QED
      BY <3>1, <3>2
  <2>3. NoLostWakeup'
    <3>1. CASE sem.waiters = << >>
      BY <1>11, <3>1 DEF NoLostWakeup
    <3>2. CASE sem.waiters # << >>
      <4>1. PICK h \in Thread : h = Head(sem.waiters)
        BY <1>6, <3>2
      <4>2. pc[h] = "blocked" /\ h # running
        BY <1>3, <1>6, <3>2, <4>1 DEF ConsoleInv
      <4>3. pc'[h] = "blocked" /\ sched'.status[h] # TASK_BLOCKED
        BY <1>9, <1>13, <1>14, <3>2, <4>1, <4>2 DEF TASK_READY, TASK_BLOCKED
      <4> QED
        BY <4>3 DEF NoLostWakeup
    <3> QED
      BY <3>1, <3>2
  <2> QED
    BY <2>1, <2>2, <2>3 DEF SyncInv
<1>16. HolderAccurate'
  <2>1. HolderAccurate /\ console_mutex.holder \in Thread \cup {NULL}
    BY <1>1 DEF ConsoleInv, Mutex
  <2> QED
    BY <1>9, <1>11, <2>1 DEF HolderAccurate
<1>17. \A x \in Thread : pc'[x] = "none" <=> x \notin Created(sched')
  BY <1>3, <1>9, <1>13 DEF ConsoleInv
<1>18. \A x \in Thread : sched'.status[x] = TASK_BLOCKED => pc'[x] = "blocked"
  <2>1. \A x \in Thread : sched'.status[x] = TASK_BLOCKED
                            => sched.status[x] = TASK_BLOCKED
    BY <1>13, <1>14 DEF TASK_READY, TASK_BLOCKED
  <2> QED
    BY <1>1, <1>9, <2>1 DEF ConsoleInv, TASK_RUNNING, TASK_BLOCKED
<1>19. \A x \in Thread : pc'[x] = "blocked" => int_save'[x] = INTR_OFF
  BY <1>3, <1>9 DEF ConsoleInv
<1>20. \A x \in Thread : pc'[x] \in IntrOff =>
                           x = sched'.running /\ cpu'.intr = INTR_OFF
  BY <1>1, <1>3, <1>9, <1>13 DEF ConsoleInv, IntrOff
<1> QED
  BY <1>1, <1>3, <1>8, <1>9, <1>11, <1>13, <1>15, <1>16, <1>17, <1>18, <1>19,
     <1>20, ConsoleStepped

\* The running thread blocks in sem_down.  The thread that has the mutex is
\* ready, so main_schedule finds somebody to run.
LEMMA SemWaitKept ==
  ASSUME ConsoleInv, SemWait
  PROVE  ConsoleInv'
<1>1. /\ MachineInv(InCode) /\ fault = "none" /\ pc \in [Thread -> Location]
      /\ int_save \in [Thread -> {INTR_ON, INTR_OFF}]
      /\ sem_save \in [Thread -> {INTR_ON, INTR_OFF}]
      /\ first \in [Thread -> BOOLEAN] /\ console_mutex \in Mutex
      /\ running \in Thread /\ running = sched.running
      /\ sched.status[running] = TASK_RUNNING
  BY ConsoleRuns
<1>2. PICK sem : sem = console_mutex.sem
  OBVIOUS
<1>3. /\ pc[running] = "down" /\ sem.val = 0
      /\ console_mutex' = [console_mutex EXCEPT !.sem = sem_down_wait(sem, running)]
      /\ int_save' = [int_save EXCEPT ![running] = cpu.intr]
      /\ pc' = [pc EXCEPT ![running] = "blocked"]
      /\ TaskTrap(thread_block(sched))
      /\ UNCHANGED <<sem_save, first>>
  BY <1>2 DEF SemWait, At, Goto
<1>4. /\ pc' \in [Thread -> Location] /\ pc'[running] = "blocked"
      /\ \A x \in Thread \ {running} : pc'[x] = pc[x]
  BY <1>1, <1>3 DEF Location
<1>5. PICK s : s = thread_block(sched)
  OBVIOUS
<1>6. Asleep(s, sched)
  <2>1. Sound(sched)
    BY <1>1, RunningSound
  <2> QED
    BY <1>1, <1>5, <2>1, BlockSound
<1>7. /\ Sound(s) /\ PreemptionNoted(s) /\ SameThreads(s, sched)
      /\ s.running = running
      /\ s.status = [sched.status EXCEPT ![running] = TASK_BLOCKED]
  BY <1>1, <1>6 DEF Asleep
<1>8. Stepped(InCode') /\ Scheduled(sched', s)
  <2>1. PICK c, d : c = InCode /\ d = InCode'
    OBVIOUS
  <2>2. /\ MachineInv(c) /\ running \notin d
        /\ \A t \in Thread \ {running} : t \in d <=> t \in c
    BY <1>1, <1>4, <2>1 DEF InCode
  <2>3. MainSchedule(s, [stack EXCEPT ![running] = Append(@, "FAST")],
                        [stack_top EXCEPT ![running] = Len(stack[running]) + 1])
    BY <1>3, <1>5 DEF TaskTrap
  <2>4. PICK frame \in Frame : frame = "FAST"
    BY DEF Frame
  <2>5. running \in d <=> frame = "ALL"
    BY <2>2, <2>4
  <2>6. MainSchedule(s, [stack EXCEPT ![running] = Append(@, frame)],
                        [stack_top EXCEPT ![running] = Len(stack[running]) + 1])
    BY <2>3, <2>4
  <2>7. Stepped(d) /\ Scheduled(sched', s)
    BY <1>1, <1>7, <2>2, <2>5, <2>6, MachineSwitch
  <2> QED
    BY <2>1, <2>7
<1>9. /\ SameThreads(sched', s) /\ Queued(sched') = Queued(s)
      /\ sched'.running = NULL => Queued(s) = {}
      /\ sched' \in SchedState
  BY <1>8 DEF Scheduled
<1>10. sched.status \in [Thread -> Status] /\ sched'.status \in [Thread -> Status]
  BY <1>1, <1>9 DEF MachineInv, MachineOK, SchedState
<1>11. Created(sched') = Created(sched)
  BY <1>7, <1>9 DEF SameThreads
<1>12. {t \in Thread : sched'.status[t] = TASK_BLOCKED}
         = {t \in Thread : sched.status[t] = TASK_BLOCKED} \cup {running}
  <2>1. \A t \in Thread : sched'.status[t] = TASK_BLOCKED
                            <=> s.status[t] = TASK_BLOCKED
    BY <1>7, <1>9, SameBlocked DEF Sound, SameThreads
  <2> QED
    BY <1>1, <1>7, <1>10, <2>1
<1>13. fault' = "none"
  <2>1. PICK h \in Thread : pc[h] \in InLock
    BY <1>2, <1>3, Counter DEF Holders
  <2>2. h # running /\ h \in Created(sched) /\ sched.status[h] # TASK_BLOCKED
    BY <1>3, <2>1 DEF ConsoleInv, InLock
  <2>3. h \in Queued(s)
    BY <1>7, <1>10, <2>2
       DEF Created, Queued, Status, TASK_BLOCKED, TASK_RUNNING, TASK_READY, NO_TCB
  <2>4. sched'.running # NULL
    BY <1>9, <2>3
  <2> QED
    BY <1>8, <2>4 DEF Stepped, MachineOK
<1>14. /\ sem \in Semaphore /\ IsInjective(sem.waiters)
       /\ ToSet(sem.waiters) = {t \in Thread : sched.status[t] = TASK_BLOCKED}
  BY <1>2, Counter DEF ConsoleInv, SyncInv, SemaphoreExact
<1>15. /\ console_mutex' \in Mutex /\ console_mutex'.sem.val = 0
       /\ console_mutex'.holder = console_mutex.holder
       /\ IsInjective(console_mutex'.sem.waiters)
       /\ ToSet(console_mutex'.sem.waiters) = ToSet(sem.waiters) \cup {running}
  <2>1. running \notin ToSet(sem.waiters)
    BY <1>1, <1>14 DEF TASK_RUNNING, TASK_BLOCKED
  <2>2. PICK l : l = list_push_back(sem.waiters, running)
    OBVIOUS
  <2>3. /\ l \in Seq(Thread) /\ IsInjective(l)
        /\ ToSet(l) = ToSet(sem.waiters) \cup {running}
    BY <1>1, <1>14, <2>1, <2>2, PushBack DEF Semaphore
  <2>4. sem_down_wait(sem, running) = [sem EXCEPT !.waiters = l]
    BY <2>1, <2>2 DEF sem_down_wait, list_elem_find
  <2>5. PICK put : put = sem_down_wait(sem, running)
    OBVIOUS
  <2>6. put \in Semaphore /\ put.val = 0 /\ put.waiters = l
    BY <1>3, <1>14, <2>3, <2>4, <2>5 DEF Semaphore
  <2>7. console_mutex' = [console_mutex EXCEPT !.sem = put]
    BY <1>3, <2>5
  <2>8. /\ console_mutex'.sem = put /\ console_mutex' \in Mutex
        /\ console_mutex'.holder = console_mutex.holder
    BY <1>1, <2>6, <2>7 DEF Mutex
  <2> QED
    BY <2>3, <2>6, <2>8
<1>16. SyncInv'
  <2>1. Holders' = Holders
    BY <1>1, <1>3, <1>4 DEF Holders, InLock
  <2>2. MutualExclusion' /\ NoLostWakeup'
    BY <1>15, <2>1 DEF ConsoleInv, SyncInv, MutualExclusion, NoLostWakeup
  <2>3. SemaphoreExact'
    <3>1. Holders # {}
      BY <1>2, <1>3, Counter
    <3> QED
      BY <1>12, <1>14, <1>15, <2>1, <3>1 DEF SemaphoreExact
  <2> QED
    BY <2>2, <2>3 DEF SyncInv
<1>17. HolderAccurate'
  <2>1. HolderAccurate /\ console_mutex.holder \in Thread \cup {NULL}
    BY <1>1 DEF ConsoleInv, Mutex
  <2> QED
    BY <1>3, <1>4, <1>15, <2>1 DEF HolderAccurate
<1>18. \A x \in Thread : pc'[x] = "none" <=> x \notin Created(sched')
  BY <1>3, <1>4, <1>11 DEF ConsoleInv
<1>19. \A x \in Thread : sched'.status[x] = TASK_BLOCKED => pc'[x] = "blocked"
  BY <1>4, <1>12 DEF ConsoleInv
<1>20. /\ int_save' \in [Thread -> {INTR_ON, INTR_OFF}]
       /\ \A x \in Thread : pc'[x] = "blocked" => int_save'[x] = INTR_OFF
  <2>1. cpu.intr = INTR_OFF
    BY <1>1, <1>3 DEF ConsoleInv, IntrOff
  <2> QED
    BY <1>1, <1>3, <1>4, <2>1 DEF ConsoleInv
<1>21. \A x \in Thread : pc'[x] \in IntrOff =>
                           x = sched'.running /\ cpu'.intr = INTR_OFF
  BY <1>1, <1>4 DEF ConsoleInv, IntrOff
<1> QED
  BY <1>1, <1>3, <1>4, <1>8, <1>13, <1>15, <1>16, <1>17, <1>18, <1>19, <1>20,
     <1>21, ConsoleStepped

\* A tick: the running thread may lose the processor and stays ready.
LEMMA TimerKept ==
  ASSUME ConsoleInv, TimerIntr
  PROVE  ConsoleInv'
<1>1. /\ MachineInv(InCode) /\ fault = "none" /\ pc \in [Thread -> Location]
      /\ int_save \in [Thread -> {INTR_ON, INTR_OFF}]
      /\ sem_save \in [Thread -> {INTR_ON, INTR_OFF}]
      /\ first \in [Thread -> BOOLEAN] /\ console_mutex \in Mutex
      /\ running \in Thread /\ running = sched.running
      /\ sched.status[running] = TASK_RUNNING
  BY ConsoleRuns
<1>2. /\ Interrupt(intr_timer_handler(sched)) /\ cpu.intr = INTR_ON
      /\ UNCHANGED <<pc, int_save, sem_save, first, console_mutex>>
  BY DEF TimerIntr, Interrupt, consoleVars
<1>3. PICK s : s = intr_timer_handler(sched)
  OBVIOUS
<1>4. Sound(sched) /\ PreemptionNoted(sched) /\ running \in Queued(sched)
  BY <1>1, RunningSound
<1>5. /\ Sound(s) /\ PreemptionNoted(s) /\ SameThreads(s, sched)
      /\ s.running = running /\ s.status = sched.status
  BY <1>1, <1>3, <1>4, TimerSound
<1>6. Stepped(InCode') /\ Scheduled(sched', s)
  <2>1. PICK c, d : c = InCode /\ d = InCode'
    OBVIOUS
  <2>2. d = c /\ MachineInv(c)
    BY <1>1, <1>2, <2>1 DEF InCode
  <2>3. running \in c
    BY <1>1, <1>2, <2>2 DEF MachineInv, MachineOK, INTR_ON, INTR_OFF
  <2>4. PICK frame \in Frame : frame = "ALL"
    BY DEF Frame
  <2>5. running \in d <=> frame = "ALL"
    BY <2>2, <2>3, <2>4
  <2>6. MainSchedule(s, [stack EXCEPT ![running] = Append(@, frame)],
                        [stack_top EXCEPT ![running] = Len(stack[running]) + 1])
    BY <1>2, <1>3, <2>4 DEF Interrupt
  <2>7. Stepped(d) /\ Scheduled(sched', s)
    BY <1>1, <1>5, <2>2, <2>5, <2>6, MachineSwitch
  <2> QED
    BY <2>1, <2>7
<1>7. /\ SameThreads(sched', s) /\ Queued(sched') = Queued(s)
      /\ sched'.running = NULL => Queued(s) = {}
      /\ sched' \in SchedState
  BY <1>6 DEF Scheduled
<1>9. Created(sched') = Created(sched) /\ Queued(sched') = Queued(sched)
  BY <1>5, <1>7 DEF SameThreads, Queued
<1>10. \A t \in Thread : sched'.status[t] = TASK_BLOCKED
                           <=> sched.status[t] = TASK_BLOCKED
  <2>1. sched \in SchedState
    BY <1>4 DEF Sound
  <2> QED
    BY <1>7, <1>9, <2>1, SameBlocked
<1>11. fault' = "none"
  <2>1. sched'.running # NULL
    BY <1>4, <1>7, <1>9
  <2> QED
    BY <1>6, <2>1 DEF Stepped, MachineOK
<1>12. SyncInv' /\ HolderAccurate'
  <2>1. SyncInv'
    BY <1>2, <1>10, SyncKept DEF ConsoleInv
  <2> QED
    BY <1>2, <2>1 DEF ConsoleInv, HolderAccurate
<1>13. \A x \in Thread : pc'[x] \notin IntrOff
  BY <1>2 DEF ConsoleInv, INTR_ON, INTR_OFF
<1>14. \A x \in Thread : pc'[x] = "none" <=> x \notin Created(sched')
  BY <1>2, <1>9 DEF ConsoleInv
<1>15. \A x \in Thread : sched'.status[x] = TASK_BLOCKED => pc'[x] = "blocked"
  BY <1>2, <1>10 DEF ConsoleInv
<1>16. \A x \in Thread : pc'[x] = "blocked" => int_save'[x] = INTR_OFF
  BY <1>2 DEF ConsoleInv
<1> QED
  BY <1>1, <1>2, <1>6, <1>11, <1>12, <1>13, <1>14, <1>15, <1>16, ConsoleStepped

\* The steps in which the running thread only moves on, sets the interrupt
\* flag or changes the holder of the mutex.
LEMMA CodeKept ==
  ASSUME ConsoleInv,
         \/ Booted \/ KernelThreadEntry \/ ProcessEntry \/ Start \/ SemDown
         \/ ThreadResume \/ SemDownReturn \/ MutexLock \/ PutInt
         \/ SemUp \/ SemUpReturn \/ MutexUnlock \/ Enable
  PROVE  ConsoleInv'
<1>1. /\ pc \in [Thread -> Location]
      /\ int_save \in [Thread -> {INTR_ON, INTR_OFF}]
      /\ sem_save \in [Thread -> {INTR_ON, INTR_OFF}]
      /\ first \in [Thread -> BOOLEAN] /\ console_mutex \in Mutex
      /\ cpu = [cpu EXCEPT !.intr = cpu.intr]
      /\ cpu.intr \in {INTR_ON, INTR_OFF} /\ running \in Thread
  BY ConsoleRuns
<1>2. console_mutex.holder \in Thread \cup {NULL}
  BY <1>1 DEF Mutex
<1>3. \A i : [sem_save EXCEPT ![running] = i] \in [Thread -> {INTR_ON, INTR_OFF}]
             \/ i \notin {INTR_ON, INTR_OFF}
  BY <1>1
<1>4. INTR_ON \in {INTR_ON, INTR_OFF} /\ INTR_OFF \in {INTR_ON, INTR_OFF}
  OBVIOUS
<1>5. UNCHANGED machineVars => IntrSetStatus(cpu.intr)
                               /\ UNCHANGED <<sched, stack, stack_top, fault>>
  BY <1>1 DEF machineVars, IntrSetStatus
<1>6. CASE Booted
  <2>1. /\ pc[running] = "boot" /\ pc' = [pc EXCEPT ![running] = "start"]
        /\ IntrSetStatus(INTR_ON) /\ UNCHANGED <<sched, stack, stack_top, fault>>
        /\ UNCHANGED <<int_save, sem_save, first, console_mutex>>
    BY <1>6 DEF Booted, At, Goto, SetIntr
  <2> QED
    BY <1>1, <1>4, <2>1, CodeStep DEF Location, InLock, IntrOff, Named
<1>7. CASE KernelThreadEntry
  <2>1. PICK w : w = IF running \in Process THEN "process" ELSE "start"
    OBVIOUS
  <2>2. /\ pc[running] = "entry" /\ pc' = [pc EXCEPT ![running] = w]
        /\ IntrSetStatus(INTR_ON) /\ UNCHANGED <<sched, stack, stack_top, fault>>
        /\ UNCHANGED <<int_save, sem_save, first, console_mutex>>
    BY <1>7, <2>1 DEF KernelThreadEntry, At, Goto, SetIntr
  <2>3. w \in {"process", "start"}
    BY <2>1
  <2> QED
    BY <1>1, <1>4, <2>2, <2>3, CodeStep DEF Location, InLock, IntrOff, Named
<1>8. CASE ProcessEntry
  <2>1. /\ pc[running] = "process" /\ pc' = [pc EXCEPT ![running] = "user"]
        /\ UNCHANGED machineVars
        /\ UNCHANGED <<int_save, sem_save, first, console_mutex>>
    BY <1>8 DEF ProcessEntry, At, Goto
  <2> QED
    BY <1>1, <1>5, <2>1, CodeStep DEF Location, InLock, IntrOff, Named
<1>9. CASE Start
  <2>1. /\ pc[running] = "start" /\ pc' = [pc EXCEPT ![running] = "lock"]
        /\ IntrSetStatus(INTR_OFF) /\ UNCHANGED <<sched, stack, stack_top, fault>>
        /\ UNCHANGED <<int_save, sem_save, first, console_mutex>>
    BY <1>9 DEF Start, At, Goto, SetIntr
  <2> QED
    BY <1>1, <1>4, <2>1, CodeStep DEF Location, InLock, IntrOff, Named
<1>10. CASE SemDown
  <2>1. /\ pc[running] = "lock" /\ pc' = [pc EXCEPT ![running] = "down"]
        /\ IntrSetStatus(INTR_OFF) /\ UNCHANGED <<sched, stack, stack_top, fault>>
        /\ sem_save' = [sem_save EXCEPT ![running] = cpu.intr]
        /\ UNCHANGED <<int_save, first, console_mutex>>
    BY <1>10 DEF SemDown, At, Goto, SetIntr
  <2>2. sem_save' \in [Thread -> {INTR_ON, INTR_OFF}]
    BY <1>1, <1>3, <2>1
  <2> QED
    BY <1>1, <1>4, <2>1, <2>2, CodeStep DEF Location, InLock, IntrOff, Named
<1>11. CASE ThreadResume
  <2>1. /\ pc[running] = "blocked" /\ pc' = [pc EXCEPT ![running] = "down"]
        /\ IntrSetStatus(int_save[running])
        /\ UNCHANGED <<sched, stack, stack_top, fault>>
        /\ UNCHANGED <<int_save, sem_save, first, console_mutex>>
    BY <1>11 DEF ThreadResume, At, Goto, SetIntr
  <2>2. int_save[running] = INTR_OFF
    BY <1>1, <2>1 DEF ConsoleInv
  <2>3. IntrSetStatus(INTR_OFF)
    BY <2>1, <2>2
  <2> QED
    BY <1>1, <1>4, <2>1, <2>3, CodeStep DEF Location, InLock, IntrOff, Named
<1>12. CASE SemDownReturn
  <2>1. /\ pc[running] = "locked" /\ pc' = [pc EXCEPT ![running] = "hold"]
        /\ IntrSetStatus(sem_save[running])
        /\ UNCHANGED <<sched, stack, stack_top, fault>>
        /\ UNCHANGED <<int_save, sem_save, first, console_mutex>>
    BY <1>12 DEF SemDownReturn, At, Goto, SetIntr
  <2>2. sem_save[running] \in {INTR_ON, INTR_OFF}
    BY <1>1
  <2> QED
    BY <1>1, <2>1, <2>2, CodeStep DEF Location, InLock, IntrOff, Named
<1>13. CASE MutexLock
  <2>1. /\ pc[running] = "hold" /\ pc' = [pc EXCEPT ![running] = "put"]
        /\ console_mutex' = [console_mutex EXCEPT !.holder = running]
        /\ UNCHANGED machineVars
        /\ UNCHANGED <<int_save, sem_save, first>>
    BY <1>13 DEF MutexLock, At, Goto
  <2>2. /\ console_mutex' \in Mutex /\ console_mutex'.sem = console_mutex.sem
        /\ console_mutex'.holder = running
    BY <1>1, <2>1 DEF Mutex
  <2> QED
    BY <1>1, <1>5, <2>1, <2>2, CodeStep DEF Location, InLock, IntrOff, Named
<1>14. CASE PutInt
  <2>1. /\ pc[running] = "put" /\ pc' = [pc EXCEPT ![running] = "unlock"]
        /\ UNCHANGED machineVars
        /\ UNCHANGED <<int_save, sem_save, first, console_mutex>>
    BY <1>14 DEF PutInt, At, Goto
  <2> QED
    BY <1>1, <1>5, <2>1, CodeStep DEF Location, InLock, IntrOff, Named
<1>15. CASE SemUp
  <2>1. /\ pc[running] = "unlock" /\ pc' = [pc EXCEPT ![running] = "up"]
        /\ IntrSetStatus(INTR_OFF) /\ UNCHANGED <<sched, stack, stack_top, fault>>
        /\ sem_save' = [sem_save EXCEPT ![running] = cpu.intr]
        /\ UNCHANGED <<int_save, first, console_mutex>>
    BY <1>15 DEF SemUp, At, Goto, SetIntr
  <2>2. sem_save' \in [Thread -> {INTR_ON, INTR_OFF}]
    BY <1>1, <1>3, <2>1
  <2> QED
    BY <1>1, <1>4, <2>1, <2>2, CodeStep DEF Location, InLock, IntrOff, Named
<1>16. CASE SemUpReturn
  <2>1. /\ pc[running] = "upped" /\ pc' = [pc EXCEPT ![running] = "clear"]
        /\ IntrSetStatus(sem_save[running])
        /\ UNCHANGED <<sched, stack, stack_top, fault>>
        /\ UNCHANGED <<int_save, sem_save, first, console_mutex>>
    BY <1>16 DEF SemUpReturn, At, Goto, SetIntr
  <2>2. sem_save[running] \in {INTR_ON, INTR_OFF}
    BY <1>1
  <2> QED
    BY <1>1, <2>1, <2>2, CodeStep DEF Location, InLock, IntrOff, Named
<1>17. CASE MutexUnlock
  <2>1. PICK w : w = IF first[running] THEN "enable" ELSE "lock"
    OBVIOUS
  <2>2. /\ pc[running] = "clear" /\ pc' = [pc EXCEPT ![running] = w]
        /\ console_mutex' = [console_mutex EXCEPT !.holder = NULL]
        /\ UNCHANGED machineVars
        /\ UNCHANGED <<int_save, sem_save, first>>
    BY <1>17, <2>1 DEF MutexUnlock, At, Goto
  <2>3. /\ console_mutex' \in Mutex /\ console_mutex'.sem = console_mutex.sem
        /\ console_mutex'.holder = NULL
    BY <1>1, <2>2 DEF Mutex
  <2>4. w \in {"enable", "lock"}
    BY <2>1
  <2> QED
    BY <1>1, <1>5, <2>2, <2>3, <2>4, CodeStep DEF Location, InLock, IntrOff, Named
<1>18. CASE Enable
  <2>1. /\ pc[running] = "enable" /\ pc' = [pc EXCEPT ![running] = "lock"]
        /\ IntrSetStatus(INTR_ON) /\ UNCHANGED <<sched, stack, stack_top, fault>>
        /\ first' = [first EXCEPT ![running] = FALSE]
        /\ UNCHANGED <<int_save, sem_save, console_mutex>>
    BY <1>18 DEF Enable, At, Goto, SetIntr
  <2>2. first' \in [Thread -> BOOLEAN]
    BY <1>1, <2>1
  <2> QED
    BY <1>1, <1>4, <2>1, <2>2, CodeStep DEF Location, InLock, IntrOff, Named
<1> QED
  BY <1>6, <1>7, <1>8, <1>9, <1>10, <1>11, <1>12, <1>13, <1>14, <1>15, <1>16,
     <1>17, <1>18

\* Every step keeps the invariant.
LEMMA ConsoleNext == ConsoleInv /\ [Next]_vars => ConsoleInv'
<1> SUFFICES ASSUME ConsoleInv, [Next]_vars PROVE ConsoleInv'
  OBVIOUS
<1>1. ASSUME NEW t \in KThread, ThreadRun(t) PROVE ConsoleInv'
  BY <1>1, ConsoleAssumption, CreateKept DEF ThreadRun
<1>2. ASSUME NEW t \in Process, ProcessRun(t) PROVE ConsoleInv'
  BY <1>2, ConsoleAssumption, CreateKept DEF ProcessRun
<1>3. CASE UNCHANGED vars
  BY <1>3 DEF vars, machineVars, consoleVars, ConsoleInv, TypeOK, MachineTypeOK,
              MachineInv, InCode, NeverFaults, SyncInv, MutualExclusion,
              SemaphoreExact, NoLostWakeup, Holders, HolderAccurate, running
<1> QED
  BY <1>1, <1>2, <1>3, CodeKept, SemTakeKept, SemWaitKept, SemGiveKept, TimerKept
     DEF Next, Code

\* The workload is in one of the states of ConsoleInv for ever.
THEOREM ConsoleInvariant == Spec => []ConsoleInv
  BY ConsoleInit, ConsoleNext, PTL DEF Spec

\* Every variable keeps its type.
THEOREM ConsoleTypeCorrect == Spec => []TypeOK
<1>1. ConsoleInv => TypeOK
  BY DEF ConsoleInv
<1> QED
  BY <1>1, ConsoleInvariant, PTL

\* put_int calls never overlap, however many threads print.
THEOREM ConsoleExcludes == Spec => []MutualExclusion
<1>1. ConsoleInv => MutualExclusion
  BY DEF ConsoleInv, SyncInv
<1> QED
  BY <1>1, ConsoleInvariant, PTL

\* The semaphore's counter and list of waiters always agree with what the
\* threads do.
THEOREM ConsoleSemaphoreExact == Spec => []SemaphoreExact
<1>1. ConsoleInv => SemaphoreExact
  BY DEF ConsoleInv, SyncInv
<1> QED
  BY <1>1, ConsoleInvariant, PTL

\* A free mutex with sleeping waiters has somebody awake about to take it.
THEOREM ConsoleNoLostWakeup == Spec => []NoLostWakeup
<1>1. ConsoleInv => NoLostWakeup
  BY DEF ConsoleInv, SyncInv
<1> QED
  BY <1>1, ConsoleInvariant, PTL

\* No ASSERT fails, no dead frame is loaded, and main_schedule always finds a
\* thread: the machine never leaves the code.
THEOREM ConsoleNeverFaults == Spec => []NeverFaults
<1>1. ConsoleInv => NeverFaults
  BY DEF ConsoleInv
<1> QED
  BY <1>1, ConsoleInvariant, PTL

\* mutex->holder only names a thread that is in the mutex or leaving it.
THEOREM ConsoleHolderAccurate == Spec => []HolderAccurate
<1>1. ConsoleInv => HolderAccurate
  BY DEF ConsoleInv
<1> QED
  BY <1>1, ConsoleInvariant, PTL

-----------------------------------------------------------------------------
(* The workload implements Kernel                                          *)

\* The scheduler that K brings along is the scheduler of the workload.
LEMMA SameScheduler ==
  /\ \A s, t, prio : K!thread_run(s, t, prio) = thread_run(s, t, prio)
  /\ \A s, t : K!process_run(s, t) = process_run(s, t)
  /\ \A s, t : K!thread_unblock(s, t) = thread_unblock(s, t)
  /\ \A s : K!thread_block(s) = thread_block(s)
  /\ \A s : K!intr_timer_handler(s) = intr_timer_handler(s)
  /\ \A s : K!main_schedule(s) = main_schedule(s)
<1>1. /\ K!TASK_READY = TASK_READY /\ K!TASK_RUNNING = TASK_RUNNING
      /\ K!TASK_BLOCKED = TASK_BLOCKED /\ K!NO_TCB = NO_TCB /\ K!Pid = Pid
      /\ \A p : K!ticks_get(p) = ticks_get(p)
      /\ \A S : K!Min(S) = Min(S)
      /\ \A l, e : K!list_push_back(l, e) = list_push_back(l, e)
      /\ \A l, e : K!list_push_front(l, e) = list_push_front(l, e)
  BY DEF K!TASK_READY, TASK_READY, K!TASK_RUNNING, TASK_RUNNING,
         K!TASK_BLOCKED, TASK_BLOCKED, K!NO_TCB, NO_TCB,
         K!Pid, Pid, K!ticks_get, ticks_get, K!Min, Min, K!list_push_back,
         list_push_back, K!list_push_front, list_push_front, K!Cons, Cons
<1>2. \A l, e : K!list_remove(l, e) = list_remove(l, e)
  BY DEF K!list_remove, list_remove, K!RemoveAt, RemoveAt
<1>3. /\ \A s, t : K!scheduler_rq_join_only(s, t) = scheduler_rq_join_only(s, t)
      /\ \A s, t : K!scheduler_rq_jump_only(s, t) = scheduler_rq_jump_only(s, t)
  BY <1>1 DEF K!scheduler_rq_join_only, scheduler_rq_join_only,
         K!scheduler_rq_jump_only, scheduler_rq_jump_only
<1>4. \A s, t : K!scheduler_rq_leave_only(s, t) = scheduler_rq_leave_only(s, t)
  BY <1>2 DEF K!scheduler_rq_leave_only, scheduler_rq_leave_only
<1>5. \A s, t : K!preempt_check(s, t) = preempt_check(s, t)
  BY DEF K!preempt_check, preempt_check
<1>6. /\ \A s, t : K!scheduler_rq_join(s, t) = scheduler_rq_join(s, t)
      /\ \A s, t : K!scheduler_rq_jump(s, t) = scheduler_rq_jump(s, t)
  BY <1>3, <1>5 DEF K!scheduler_rq_join, scheduler_rq_join,
         K!scheduler_rq_jump, scheduler_rq_jump
<1>7. \A s, t : K!scheduler_rq_leave(s, t) = scheduler_rq_leave(s, t)
  BY <1>4 DEF K!scheduler_rq_leave, scheduler_rq_leave
<1>8. \A s, t : K!pid_alloc(s, t) = pid_alloc(s, t)
  BY <1>1 DEF K!pid_alloc, pid_alloc
<1>9. \A s, t, prio : K!thread_tcb_init(s, t, prio) = thread_tcb_init(s, t, prio)
  <2> SUFFICES ASSUME NEW s, NEW t, NEW prio
               PROVE  K!thread_tcb_init(s, t, prio) = thread_tcb_init(s, t, prio)
    OBVIOUS
  <2>1. PICK u : u = [s EXCEPT !.status[t] = TASK_READY, !.priority[t] = prio,
                               !.ticks[t] = ticks_get(prio), !.pg_dir[t] = NULL]
    OBVIOUS
  <2>2. thread_tcb_init(s, t, prio) = pid_alloc(u, t)
    BY <2>1 DEF thread_tcb_init
  <2>3. K!thread_tcb_init(s, t, prio) = K!pid_alloc(u, t)
    BY <2>1 DEF K!thread_tcb_init, K!TASK_READY, TASK_READY, K!ticks_get,
           ticks_get
  <2> QED
    BY <1>8, <2>2, <2>3
<1>10. \A s, t : K!publish(s, t) = publish(s, t)
  BY <1>1, <1>6 DEF K!publish, publish
<1>11. /\ \A s, t, prio : K!thread_run(s, t, prio) = thread_run(s, t, prio)
       /\ \A s, t : K!process_run(s, t) = process_run(s, t)
  BY <1>9, <1>10 DEF K!thread_run, thread_run, K!process_run, process_run
<1>12. /\ \A s, t : K!thread_unblock(s, t) = thread_unblock(s, t)
       /\ \A s : K!thread_block(s) = thread_block(s)
       /\ \A s : K!intr_timer_handler(s) = intr_timer_handler(s)
  BY <1>1, <1>6, <1>7 DEF K!thread_unblock, thread_unblock, K!thread_block,
         thread_block, K!intr_timer_handler, intr_timer_handler
<1>13. \A s, t : K!thread_prio_change(s, t) = thread_prio_change(s, t)
  BY DEF K!thread_prio_change, thread_prio_change
<1>14. \A s, t : K!requeue(s, t) = requeue(s, t)
  BY <1>1, <1>3, <1>4, <1>13 DEF K!requeue, requeue
<1>15. \A s : K!next_thread_pick(s) = next_thread_pick(s)
  BY <1>1 DEF K!next_thread_pick, next_thread_pick, K!highest_rq_get,
         highest_rq_get
<1>16. \A s, t : K!dispatch(s, t) = dispatch(s, t)
  BY <1>1 DEF K!dispatch, dispatch
<1>17. \A s : K!main_schedule(s) = main_schedule(s)
  BY <1>1, <1>14, <1>15, <1>16 DEF K!main_schedule, main_schedule
<1> QED
  BY <1>11, <1>12, <1>17

\* So is the processor.
LEMMA SameMachine ==
  /\ K!running = running /\ K!TASK_BLOCKED = TASK_BLOCKED
  /\ K!INTR_ON = INTR_ON /\ K!INTR_OFF = INTR_OFF /\ K!Prio = Prio
  /\ \A i : K!IntrSetStatus(i) <=> IntrSetStatus(i)
  /\ \A t : K!thread_stack_init(t) <=> thread_stack_init(t)
  /\ \A s : K!TaskTrap(s) <=> TaskTrap(s)
  /\ \A s : K!Interrupt(s) <=> Interrupt(s)
<1>1. /\ K!running = running /\ K!TASK_BLOCKED = TASK_BLOCKED
      /\ K!INTR_ON = INTR_ON /\ K!INTR_OFF = INTR_OFF /\ K!Prio = Prio
      /\ \A i : K!IntrSetStatus(i) <=> IntrSetStatus(i)
      /\ \A t : K!thread_stack_init(t) <=> thread_stack_init(t)
  BY DEF K!running, running, K!TASK_BLOCKED, TASK_BLOCKED, K!INTR_ON, INTR_ON,
         K!INTR_OFF, INTR_OFF, K!Prio, Prio, K!IntrSetStatus, IntrSetStatus,
         K!thread_stack_init, thread_stack_init
<1>2. \A c, stk, top, t :
        K!context_load(c, stk, top, t) <=> context_load(c, stk, top, t)
  BY DEF K!context_load, context_load, K!Front, Front, K!Last, Last,
         K!INTR_ON, INTR_ON
<1>3. \A c, s, t : K!process_activate(c, s, t) = process_activate(c, s, t)
  BY DEF K!process_activate, process_activate
<1>4. \A s, stk, top : K!MainSchedule(s, stk, top) <=> MainSchedule(s, stk, top)
  <2> SUFFICES ASSUME NEW s, NEW stk, NEW top
               PROVE  K!MainSchedule(s, stk, top) <=> MainSchedule(s, stk, top)
    OBVIOUS
  <2>1. PICK r : r = main_schedule(s) /\ r = K!main_schedule(s)
    BY SameScheduler
  <2>2. PICK c : c = IF s.need_schedule /\ r.running # NULL
                     THEN process_activate([cpu EXCEPT !.intr = INTR_OFF], r, r.running)
                     ELSE [cpu EXCEPT !.intr = INTR_OFF]
    OBVIOUS
  <2>3. c = IF s.need_schedule /\ r.running # NULL
            THEN K!process_activate([cpu EXCEPT !.intr = K!INTR_OFF], r, r.running)
            ELSE [cpu EXCEPT !.intr = K!INTR_OFF]
    BY <1>1, <1>3, <2>2
  <2>4. MainSchedule(s, stk, top) <=>
          /\ sched' = r
          /\ stack_top' = top
          /\ IF r.running = NULL
             THEN stack' = stk /\ cpu' = c /\ fault' = "no_thread"
             ELSE context_load(c, stk, top, r.running)
    BY <2>1, <2>2 DEF MainSchedule
  <2>5. K!MainSchedule(s, stk, top) <=>
          /\ sched' = r
          /\ stack_top' = top
          /\ IF r.running = NULL
             THEN stack' = stk /\ cpu' = c /\ fault' = "no_thread"
             ELSE K!context_load(c, stk, top, r.running)
    BY <2>1, <2>3 DEF K!MainSchedule
  <2> QED
    BY <1>2, <2>4, <2>5
<1>5. \A s : K!TaskTrap(s) <=> TaskTrap(s)
  BY <1>1, <1>4 DEF K!TaskTrap, TaskTrap
<1>6. \A s : K!Interrupt(s) <=> Interrupt(s)
  BY <1>1, <1>4 DEF K!Interrupt, Interrupt
<1> QED
  BY <1>1, <1>5, <1>6

\* Initial states are initial states.
LEMMA KernelFromInit == Init => K!Init
<1> SUFFICES ASSUME Init PROVE K!Init
  OBVIOUS
<1>1. K!MachineInit
  <2>1. K!thread_all_init = thread_all_init
    BY DEF K!thread_all_init, thread_all_init, K!Prio, Prio, K!Pid, Pid,
           K!TASK_RUNNING, TASK_RUNNING, K!NO_TCB, NO_TCB, K!ticks_get, ticks_get
  <2> QED
    BY <2>1 DEF Init, MachineInit, K!MachineInit, K!INTR_OFF, INTR_OFF
<1>2. kernelPc = [t \in Thread |-> IF t = idle THEN "boot" ELSE "none"]
  BY DEF Init, kernelPc
<1> QED
  BY <1>1, <1>2 DEF Init, K!Init, K!INTR_OFF, INTR_OFF

\* Where Kernel sees a thread that goes to w.
KernelView(w) == IF w \in {"none", "boot", "entry", "blocked"} THEN w ELSE "code"

\* How kernelPc follows pc.
LEMMA KernelPcFollows ==
  ASSUME ConsoleInv
  PROVE  /\ \A t \in Thread : kernelPc[t] = KernelView(pc[t])
         /\ kernelPc = [kernelPc EXCEPT ![running] = KernelView(pc[running])]
         /\ \A t \in Thread : \A w :
              pc' = [pc EXCEPT ![t] = w] =>
                kernelPc' = [kernelPc EXCEPT ![t] = KernelView(w)]
<1>1. pc \in [Thread -> Location] /\ running \in Thread
  BY ConsoleRuns
<1>2. \A t \in Thread : kernelPc[t] = KernelView(pc[t])
  BY DEF kernelPc, KernelView
<1>3. ASSUME NEW t \in Thread, NEW w, pc' = [pc EXCEPT ![t] = w]
      PROVE  kernelPc' = [kernelPc EXCEPT ![t] = KernelView(w)]
  <2>1. kernelPc' = [x \in Thread |-> KernelView(pc'[x])]
    BY DEF kernelPc, KernelView
  <2>2. kernelPc = [x \in Thread |-> KernelView(pc[x])]
    BY DEF kernelPc, KernelView
  <2>3. \A x \in Thread : pc'[x] = IF x = t THEN w ELSE pc[x]
    BY <1>1, <1>3
  <2> QED
    BY <2>1, <2>2, <2>3
<1>4. kernelPc = [kernelPc EXCEPT ![running] = KernelView(pc[running])]
  BY <1>1, <1>2 DEF kernelPc
<1> QED
  BY <1>2, <1>3, <1>4

\* The running thread, in its own code or at the end of main()'s part, sets
\* the interrupt flag: Kernel sees an intr_enable, an intr_disable or nothing.
LEMMA IntrMaps ==
  ASSUME ConsoleInv, NEW w \in Location \ {"none", "boot", "entry", "blocked"},
         NEW i \in {INTR_ON, INTR_OFF},
         pc[running] \notin {"none", "entry", "blocked"},
         pc[running] = "boot" => i = INTR_ON,
         pc' = [pc EXCEPT ![running] = w], IntrSetStatus(i),
         UNCHANGED <<sched, stack, stack_top, fault, int_save>>
  PROVE  K!IntrEnable \/ K!IntrDisable \/ UNCHANGED K!vars
<1>1. /\ MachineInv(InCode) /\ fault = "none" /\ running \in Thread
      /\ cpu = [cpu EXCEPT !.intr = cpu.intr]
      /\ cpu.intr \in {INTR_ON, INTR_OFF} /\ running = sched.running
  BY ConsoleRuns
<1>2. /\ K!running = running /\ K!INTR_ON = INTR_ON /\ K!INTR_OFF = INTR_OFF
      /\ K!IntrSetStatus(i)
  BY SameMachine
<1>3. /\ kernelPc' = [kernelPc EXCEPT ![running] = "code"]
      /\ kernelPc[running] = KernelView(pc[running])
      /\ kernelPc = [kernelPc EXCEPT ![running] = KernelView(pc[running])]
  BY <1>1, KernelPcFollows DEF KernelView
<1>4. CASE pc[running] = "boot"
  <2>1. cpu.intr = INTR_OFF
    BY <1>1, <1>4 DEF MachineInv, MachineOK, InCode
  <2> QED
    BY <1>1, <1>2, <1>3, <1>4, <2>1
       DEF K!IntrEnable, K!At, K!Goto, KernelView, INTR_ON, INTR_OFF
<1>5. CASE pc[running] # "boot"
  <2>1. kernelPc[running] = "code" /\ kernelPc' = kernelPc
    BY <1>3, <1>5 DEF KernelView
  <2>2. CASE cpu.intr = i
    BY <1>1, <2>1, <2>2 DEF IntrSetStatus, K!vars
  <2>3. CASE cpu.intr = INTR_OFF /\ i = INTR_ON
    BY <1>1, <1>2, <1>3, <2>1, <2>3 DEF K!IntrEnable, K!At, K!Goto
  <2>4. CASE cpu.intr = INTR_ON /\ i = INTR_OFF
    BY <1>1, <1>2, <2>1, <2>4 DEF K!IntrDisable, K!At
  <2> QED
    BY <1>1, <2>2, <2>3, <2>4
<1> QED
  BY <1>4, <1>5

\* Every step of the workload is a step of Kernel or leaves its state alone.
LEMMA KernelFromNext ==
  ConsoleInv /\ [Next]_vars => [K!Next]_K!vars
<1> SUFFICES ASSUME ConsoleInv, [Next]_vars PROVE K!Next \/ UNCHANGED K!vars
  OBVIOUS
<1>1. /\ MachineInv(InCode) /\ fault = "none" /\ running \in Thread
      /\ cpu = [cpu EXCEPT !.intr = cpu.intr]
      /\ cpu.intr \in {INTR_ON, INTR_OFF} /\ running = sched.running
      /\ int_save \in [Thread -> {INTR_ON, INTR_OFF}]
      /\ sem_save \in [Thread -> {INTR_ON, INTR_OFF}]
  BY ConsoleRuns
<1>2. /\ K!running = running /\ K!INTR_ON = INTR_ON /\ K!INTR_OFF = INTR_OFF
      /\ K!Prio = Prio /\ K!TASK_BLOCKED = TASK_BLOCKED
  BY SameMachine
<1>3. /\ kernelPc[running] = KernelView(pc[running])
      /\ kernelPc = [kernelPc EXCEPT ![running] = KernelView(pc[running])]
      /\ \A w : pc' = [pc EXCEPT ![running] = w] =>
                 kernelPc' = [kernelPc EXCEPT ![running] = KernelView(w)]
  <2>1. running \in Thread
    BY <1>1
  <2> QED
    BY <2>1, KernelPcFollows
<1>4. ASSUME NEW t \in Thread, NEW s, Create(t, s) PROVE K!Create(t, s)
  <2>1. /\ pc[running] = "boot" /\ pc[t] = "none" /\ sched' = s
        /\ thread_stack_init(t) /\ pc' = [pc EXCEPT ![t] = "entry"]
        /\ UNCHANGED <<cpu, fault, int_save>>
    BY <1>4 DEF Create, At
  <2>2. K!thread_stack_init(t)
    BY <2>1, SameMachine
  <2>3. /\ kernelPc' = [kernelPc EXCEPT ![t] = "entry"]
        /\ kernelPc[t] = "none" /\ kernelPc[running] = "boot"
    BY <1>3, <2>1, KernelPcFollows DEF KernelView
  <2> QED
    BY <1>1, <1>2, <2>1, <2>2, <2>3 DEF K!Create, K!At
<1>5. ASSUME NEW t \in KThread, ThreadRun(t) PROVE K!Next
  <2>1. t \in Thread /\ KTHREAD_PRIO \in Prio
    BY ConsoleAssumption
  <2>2. K!Create(t, thread_run(sched, t, KTHREAD_PRIO))
    BY <1>4, <1>5, <2>1 DEF ThreadRun
  <2>3. K!ThreadRun(t, KTHREAD_PRIO)
    BY <2>2, SameScheduler DEF K!ThreadRun
  <2> QED
    BY <1>2, <2>1, <2>3 DEF K!Next
<1>6. ASSUME NEW t \in Process, ProcessRun(t) PROVE K!Next
  <2>1. t \in Thread
    BY ConsoleAssumption
  <2>2. K!Create(t, process_run(sched, t))
    BY <1>4, <1>6, <2>1 DEF ProcessRun
  <2>3. K!ProcessRun(t)
    BY <2>2, SameScheduler DEF K!ProcessRun
  <2> QED
    BY <2>1, <2>3 DEF K!Next
<1>7. ASSUME NEW w \in Location \ {"none", "boot", "entry", "blocked"},
             NEW i \in {INTR_ON, INTR_OFF},
             pc[running] \notin {"none", "entry", "blocked"},
             pc[running] = "boot" => i = INTR_ON,
             pc' = [pc EXCEPT ![running] = w], IntrSetStatus(i),
             UNCHANGED <<sched, stack, stack_top, fault, int_save>>
      PROVE  K!Next \/ UNCHANGED K!vars
  <2>1. K!IntrEnable \/ K!IntrDisable \/ UNCHANGED K!vars
    BY <1>7, IntrMaps
  <2> QED
    BY <2>1 DEF K!Next
<1>8. UNCHANGED machineVars => IntrSetStatus(cpu.intr)
                               /\ UNCHANGED <<sched, stack, stack_top, fault>>
  BY <1>1 DEF machineVars, IntrSetStatus
<1>9. CASE \/ Booted \/ Start \/ SemDown \/ SemTake \/ SemDownReturn
           \/ MutexLock \/ PutInt \/ SemUp \/ SemUpReturn \/ MutexUnlock
           \/ Enable \/ ProcessEntry
  <2>1. PICK w \in Location \ {"none", "boot", "entry", "blocked"},
             i \in {INTR_ON, INTR_OFF} :
          /\ pc[running] \notin {"none", "entry", "blocked"}
          /\ pc[running] = "boot" => i = INTR_ON
          /\ pc' = [pc EXCEPT ![running] = w] /\ IntrSetStatus(i)
          /\ UNCHANGED <<sched, stack, stack_top, fault, int_save>>
    <3>1. sem_save[running] \in {INTR_ON, INTR_OFF}
      BY <1>1
    <3>2. CASE Booted
      BY <3>2 DEF Booted, At, Goto, SetIntr, Location
    <3>3. CASE Start \/ SemDown \/ SemUp
      BY <3>3 DEF Start, SemDown, SemUp, At, Goto, SetIntr, Location, InLock
    <3>4. CASE SemDownReturn \/ SemUpReturn
      BY <3>1, <3>4 DEF SemDownReturn, SemUpReturn, At, Goto, SetIntr, Location,
                        InLock
    <3>5. CASE SemTake \/ MutexLock \/ PutInt \/ ProcessEntry
      BY <1>1, <1>8, <3>5 DEF SemTake, MutexLock, PutInt, ProcessEntry, At, Goto,
                              Location, InLock
    <3>6. CASE MutexUnlock
      BY <1>1, <1>8, <3>6 DEF MutexUnlock, At, Goto, Location
    <3>7. CASE Enable
      BY <3>7 DEF Enable, At, Goto, SetIntr, Location
    <3> QED
      BY <1>9, <3>2, <3>3, <3>4, <3>5, <3>6, <3>7
  <2> QED
    BY <1>7, <2>1
<1>10. CASE KernelThreadEntry
  <2>1. PICK w : w = IF running \in Process THEN "process" ELSE "start"
    OBVIOUS
  <2>2. /\ pc[running] = "entry" /\ pc' = [pc EXCEPT ![running] = w]
        /\ IntrSetStatus(INTR_ON)
        /\ UNCHANGED <<sched, stack, stack_top, fault, int_save>>
    BY <1>10, <2>1 DEF KernelThreadEntry, At, Goto, SetIntr
  <2>3. KernelView(w) = "code"
    BY <2>1 DEF KernelView
  <2>4. kernelPc' = [kernelPc EXCEPT ![running] = "code"]
    BY <1>3, <2>2, <2>3
  <2>5. K!IntrSetStatus(INTR_ON)
    BY <2>2, SameMachine
  <2>6. K!KernelThreadEntry
    BY <1>1, <1>2, <1>3, <2>2, <2>4, <2>5
       DEF K!KernelThreadEntry, K!At, K!Goto, KernelView
  <2> QED
    BY <2>6 DEF K!Next
<1>11. CASE ThreadResume
  <2>1. /\ pc[running] = "blocked" /\ pc' = [pc EXCEPT ![running] = "down"]
        /\ IntrSetStatus(int_save[running])
        /\ UNCHANGED <<sched, stack, stack_top, fault, int_save>>
    BY <1>11 DEF ThreadResume, At, Goto, SetIntr
  <2>2. KernelView("down") = "code"
    BY DEF KernelView
  <2>3. kernelPc' = [kernelPc EXCEPT ![running] = "code"]
    BY <1>3, <2>1, <2>2
  <2>4. K!IntrSetStatus(int_save[running])
    BY <2>1, SameMachine
  <2>5. K!ThreadResume
    BY <1>1, <1>2, <1>3, <2>1, <2>3, <2>4
       DEF K!ThreadResume, K!At, K!Goto, KernelView
  <2> QED
    BY <2>5 DEF K!Next
<1>12. CASE SemWait
  <2>1. /\ pc[running] = "down" /\ pc' = [pc EXCEPT ![running] = "blocked"]
        /\ int_save' = [int_save EXCEPT ![running] = cpu.intr]
        /\ TaskTrap(thread_block(sched))
    BY <1>12 DEF SemWait, At, Goto
  <2>2. KernelView("blocked") = "blocked"
    BY DEF KernelView
  <2>3. kernelPc' = [kernelPc EXCEPT ![running] = "blocked"]
    BY <1>3, <2>1, <2>2
  <2>4. K!TaskTrap(K!thread_block(sched))
    BY <2>1, SameScheduler, SameMachine
  <2>5. K!ThreadBlock
    BY <1>1, <1>2, <1>3, <2>1, <2>3, <2>4
       DEF K!ThreadBlock, K!At, K!Goto, KernelView
  <2> QED
    BY <2>5 DEF K!Next
<1>13. CASE SemGive
  <2>1. PICK sem : sem = console_mutex.sem
    OBVIOUS
  <2>2. pc[running] = "up" /\ UNCHANGED <<cpu, stack, stack_top, int_save>>
    BY <1>13 DEF SemGive, At
  <2>3. cpu.intr = INTR_OFF
    BY <1>1, <2>2 DEF ConsoleInv, IntrOff
  <2>4. fault' = "none"
    BY <1>13, SemGiveKept DEF ConsoleInv, NeverFaults
  <2>5. /\ sem_up_assert(sem, sched) /\ sched' = sem_up_wake(sem, sched)
        /\ pc' = [pc EXCEPT ![running] = "upped"]
    BY <1>13, <2>1, <2>4 DEF SemGive, Goto
  <2>6. kernelPc' = kernelPc
    <3>1. /\ KernelView("upped") = "code"
          /\ KernelView(pc[running]) = "code"
      BY <2>2 DEF KernelView
    <3> QED
      BY <1>3, <2>5, <3>1
  <2>7. CASE sem.waiters = << >>
    BY <1>1, <2>2, <2>4, <2>5, <2>6, <2>7 DEF sem_up_wake, K!vars
  <2>8. CASE sem.waiters # << >>
    <3>1. PICK h : h = Head(sem.waiters)
      OBVIOUS
    <3>2. sched.status[h] = TASK_BLOCKED /\ sched' = thread_unblock(sched, h)
      BY <2>5, <2>8, <3>1 DEF sem_up_assert, sem_up_wake
    <3>3. h \in Thread
      <4>1. sem.waiters \in Seq(Thread)
        BY <2>1, Counter DEF Semaphore
      <4> QED
        BY <2>8, <3>1, <4>1
    <3>4. sched' = K!thread_unblock(sched, h)
      BY <3>2, SameScheduler
    <3>5. K!ThreadUnblock(h)
      BY <1>1, <1>2, <1>3, <2>2, <2>3, <2>4, <2>6, <3>2, <3>4
         DEF K!ThreadUnblock, K!At, KernelView
    <3> QED
      BY <3>3, <3>5 DEF K!Next
  <2> QED
    BY <2>7, <2>8
<1>14. CASE TimerIntr
  <2>1. Interrupt(intr_timer_handler(sched)) /\ UNCHANGED <<pc, int_save>>
    BY <1>14 DEF TimerIntr, consoleVars
  <2>2. K!Interrupt(K!intr_timer_handler(sched))
    BY <2>1, SameScheduler, SameMachine
  <2>3. kernelPc' = kernelPc
    BY <2>1 DEF kernelPc
  <2>4. K!TimerIntr
    BY <1>1, <2>1, <2>2, <2>3 DEF K!TimerIntr
  <2> QED
    BY <2>4 DEF K!Next
<1>15. CASE UNCHANGED vars
  BY <1>15 DEF vars, machineVars, consoleVars, K!vars, kernelPc
<1> QED
  BY <1>5, <1>6, <1>9, <1>10, <1>11, <1>12, <1>13, <1>14, <1>15 DEF Next, Code

\* The console workload implements Kernel, for any number of threads, so that
\* every theorem about Kernel's scheduler, stacks and address spaces is one
\* about this workload.
THEOREM ConsoleImplementsKernel == Spec => ImplementsKernel
<1>1. Init => K!Init
  BY KernelFromInit
<1>2. ConsoleInv /\ [Next]_vars => [K!Next]_K!vars
  BY KernelFromNext
<1> QED
  BY <1>1, <1>2, ConsoleInvariant, PTL DEF Spec, ImplementsKernel, K!Spec
=============================================================================
