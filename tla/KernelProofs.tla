---------------------------- MODULE KernelProofs -----------------------------
(***************************************************************************)
(* Proofs that the thread system keeps its invariants, for any number of   *)
(* threads, priorities and pids.                                           *)
(***************************************************************************)
EXTENDS Kernel, MachineProofs

\* The threads that are in their own code.
InCode == {t \in Thread : pc[t] = "code"}

\* The inductive invariant.  Beyond the machine's own it says that a page has
\* a control point exactly when it is a TCB.
KernelInv ==
  /\ TypeOK
  /\ MachineInv(InCode)
  /\ \A t \in Thread : pc[t] = "none" <=> t \notin Created(sched)

\* What the machine's invariant means after a step.
LEMMA KernelStepped ==
  ASSUME pc' \in [Thread -> Location],
         int_save' \in [Thread -> {INTR_ON, INTR_OFF}],
         Stepped(InCode'),
         \A t \in Thread : pc'[t] = "none" <=> t \notin Created(sched')
  PROVE  KernelInv'
<1>1. MachineInv(InCode)'
  BY DEF Stepped, MachineInv
<1>2. TypeOK'
  BY DEF Stepped, MachineOK, TypeOK, MachineTypeOK, Cpu, Fault
<1> QED
  BY <1>1, <1>2 DEF KernelInv

\* The initial state.
LEMMA KernelInit ==
  Init => KernelInv
<1> SUFFICES ASSUME Init PROVE KernelInv
  OBVIOUS
<1>1. /\ MachineInit
      /\ pc = [t \in Thread |-> IF t = idle THEN "boot" ELSE "none"]
      /\ int_save = [t \in Thread |-> INTR_OFF]
  BY DEF Init
<1>2. MachineInv(InCode)
  BY <1>1, MachineStart
<1>3. TypeOK
  BY <1>1, <1>2 DEF MachineInv, MachineOK, TypeOK, MachineTypeOK, Cpu, Fault,
                    Location
<1>4. \A t \in Thread : pc[t] = "none" <=> t \notin Created(sched)
  <2>1. Created(sched) = {idle}
    BY <1>1, InitSound DEF MachineInit
  <2> QED
    BY <1>1, <2>1
<1> QED
  BY <1>2, <1>3, <1>4 DEF KernelInv

\* Every step keeps the invariant.
LEMMA KernelNext ==
  KernelInv /\ [Next]_vars => KernelInv'
<1> SUFFICES ASSUME KernelInv, [Next]_vars PROVE KernelInv'
  OBVIOUS
<1>1. /\ MachineInv(InCode) /\ sched \in SchedState
      /\ pc \in [Thread -> Location]
      /\ int_save \in [Thread -> {INTR_ON, INTR_OFF}]
      /\ \A t \in Thread : pc[t] = "none" <=> t \notin Created(sched)
  BY DEF KernelInv, TypeOK, MachineTypeOK
<1>2. fault = "none" => /\ Sound(sched) /\ PreemptionNoted(sched)
                        /\ running \in Thread
                        /\ sched.status[running] = TASK_RUNNING
                        /\ running \in Created(sched)
  BY <1>1, RunningSound
<1>3. ASSUME NEW t \in Thread, NEW s, Create(t, s), NEW prio \in Prio,
             s = thread_run(sched, t, prio) \/ s = process_run(sched, t)
      PROVE  KernelInv'
  <2>1. /\ fault = "none" /\ pc[t] = "none" /\ sched' = s
        /\ thread_stack_init(t)
        /\ pc' = [pc EXCEPT ![t] = "entry"]
        /\ UNCHANGED <<cpu, fault, int_save>>
    BY <1>3 DEF Create, At
  <2>2. t \notin Created(sched)
    BY <1>1, <2>1
  <2>3. InCode' = InCode \ {t}
    BY <1>1, <2>1 DEF InCode
  <2>4. Stepped(InCode') /\ Spawned(sched', sched, t)
    <3>1. PICK c, d : c = InCode /\ d = InCode'
      OBVIOUS
    <3>2. MachineInv(c) /\ d = c \ {t}
      BY <1>1, <2>3, <3>1
    <3>3. Stepped(d) /\ Spawned(sched', sched, t)
      BY <1>3, <2>1, <2>2, <3>2, MachineSpawn
    <3> QED
      BY <3>1, <3>3
  <2>5. \A x \in Thread : pc'[x] = "none" <=> x \notin Created(sched')
    BY <1>1, <2>1, <2>4 DEF Spawned
  <2>6. /\ pc' \in [Thread -> Location]
        /\ int_save' \in [Thread -> {INTR_ON, INTR_OFF}]
    BY <1>1, <2>1 DEF Location
  <2> QED
    BY <2>4, <2>5, <2>6, KernelStepped
<1>4. ASSUME NEW t \in Thread, NEW prio \in Prio, ThreadRun(t, prio)
      PROVE  KernelInv'
  BY <1>3, <1>4 DEF ThreadRun
<1>5. ASSUME NEW t \in Thread, ProcessRun(t)
      PROVE  KernelInv'
  <2>1. 0 \in Prio
    BY SchedulerAssumption DEF Prio
  <2> QED
    BY <1>3, <1>5, <2>1 DEF ProcessRun
<1>6. ASSUME fault = "none", NEW i \in {INTR_ON, INTR_OFF}, IntrSetStatus(i),
             pc' = [pc EXCEPT ![running] = "code"], pc[running] # "none",
             UNCHANGED <<sched, stack, stack_top, fault, int_save>>
      PROVE  KernelInv'
  <2>1. InCode' = InCode \cup {running}
    BY <1>1, <1>2, <1>6 DEF InCode
  <2>2. Stepped(InCode')
    <3>1. PICK c, d : c = InCode /\ d = InCode'
      OBVIOUS
    <3>2. MachineInv(c) /\ d = c \cup {running}
      BY <1>1, <2>1, <3>1
    <3>3. Stepped(d)
      BY <1>6, <3>2, MachineIntr
    <3> QED
      BY <3>1, <3>3
  <2>3. \A x \in Thread : pc'[x] = "none" <=> x \notin Created(sched')
    BY <1>1, <1>6
  <2>4. /\ pc' \in [Thread -> Location]
        /\ int_save' \in [Thread -> {INTR_ON, INTR_OFF}]
    BY <1>1, <1>6 DEF Location
  <2> QED
    BY <2>2, <2>3, <2>4, KernelStepped
<1>7. CASE IntrEnable
  <2>1. /\ fault = "none" /\ pc[running] # "none" /\ IntrSetStatus(INTR_ON)
        /\ pc' = [pc EXCEPT ![running] = "code"]
        /\ UNCHANGED <<sched, stack, stack_top, fault, int_save>>
    BY <1>7 DEF IntrEnable, At, Goto
  <2> QED
    BY <1>6, <2>1
<1>8. CASE IntrDisable
  <2>1. /\ fault = "none" /\ pc[running] = "code" /\ pc' = pc
        /\ IntrSetStatus(INTR_OFF)
        /\ UNCHANGED <<sched, stack, stack_top, fault, int_save>>
    BY <1>8 DEF IntrDisable, At
  <2>2. pc' = [pc EXCEPT ![running] = "code"]
    BY <1>1, <1>2, <2>1
  <2> QED
    BY <1>6, <2>1, <2>2
<1>9. CASE KernelThreadEntry
  <2>1. /\ fault = "none" /\ pc[running] # "none" /\ IntrSetStatus(INTR_ON)
        /\ pc' = [pc EXCEPT ![running] = "code"]
        /\ UNCHANGED <<sched, stack, stack_top, fault, int_save>>
    BY <1>9 DEF KernelThreadEntry, At, Goto
  <2> QED
    BY <1>6, <2>1
<1>10. CASE ThreadResume
  <2>1. /\ fault = "none" /\ pc[running] # "none"
        /\ IntrSetStatus(int_save[running])
        /\ pc' = [pc EXCEPT ![running] = "code"]
        /\ UNCHANGED <<sched, stack, stack_top, fault, int_save>>
    BY <1>10 DEF ThreadResume, At, Goto
  <2>2. int_save[running] \in {INTR_ON, INTR_OFF}
    BY <1>1, <1>2, <2>1
  <2> QED
    BY <1>6, <2>1, <2>2
<1>11. ASSUME fault = "none", NEW s, Sound(s), PreemptionNoted(s),
              SameThreads(s, sched), s.running = running, NEW frame \in Frame,
              MainSchedule(s, [stack EXCEPT ![running] = Append(@, frame)],
                              [stack_top EXCEPT ![running] = Len(stack[running]) + 1]),
              pc' \in [Thread -> Location],
              int_save' \in [Thread -> {INTR_ON, INTR_OFF}],
              \A t \in Thread \ {running} : pc'[t] = pc[t],
              pc'[running] = IF frame = "ALL" THEN "code" ELSE "blocked"
       PROVE  KernelInv'
  <2>1. Stepped(InCode') /\ Scheduled(sched', s)
    <3>1. PICK c, d : c = InCode /\ d = InCode'
      OBVIOUS
    <3>2. /\ MachineInv(c)
          /\ \A t \in Thread \ {running} : t \in d <=> t \in c
          /\ running \in d <=> frame = "ALL"
      BY <1>1, <1>2, <1>11, <3>1 DEF InCode
    <3>3. Stepped(d) /\ Scheduled(sched', s)
      BY <1>11, <3>2, MachineSwitch
    <3> QED
      BY <3>1, <3>3
  <2>2. Created(sched') = Created(sched)
    BY <1>11, <2>1 DEF Scheduled, SameThreads
  <2>3. \A x \in Thread : pc'[x] = "none" <=> x \notin Created(sched')
    BY <1>1, <1>2, <1>11, <2>2
  <2> QED
    BY <1>11, <2>1, <2>3, KernelStepped
<1>12. CASE ThreadBlock
  <2>1. /\ fault = "none" /\ pc[running] = "code"
        /\ int_save' = [int_save EXCEPT ![running] = cpu.intr]
        /\ pc' = [pc EXCEPT ![running] = "blocked"]
        /\ TaskTrap(thread_block(sched))
    BY <1>12 DEF ThreadBlock, At, Goto
  <2>2. PICK s : s = thread_block(sched)
    OBVIOUS
  <2>3. /\ Sound(s) /\ PreemptionNoted(s) /\ SameThreads(s, sched)
        /\ s.running = running
    BY <1>2, <2>1, <2>2, BlockSound DEF Asleep, running
  <2>4. cpu.intr \in {INTR_ON, INTR_OFF}
    BY <1>1 DEF MachineInv, MachineOK, Cpu
  <2>5. /\ pc' \in [Thread -> Location]
        /\ int_save' \in [Thread -> {INTR_ON, INTR_OFF}]
        /\ \A t \in Thread \ {running} : pc'[t] = pc[t]
        /\ pc'[running] = "blocked"
    BY <1>1, <1>2, <2>1, <2>4 DEF Location
  <2>6. MainSchedule(s, [stack EXCEPT ![running] = Append(@, "FAST")],
               [stack_top EXCEPT ![running] = Len(stack[running]) + 1])
    BY <2>1, <2>2 DEF TaskTrap
  <2>7. "FAST" \in Frame /\ "FAST" # "ALL"
    BY DEF Frame
  <2> QED
    BY <1>11, <2>1, <2>3, <2>5, <2>6, <2>7
<1>13. CASE \E t \in Thread : ThreadUnblock(t)
  <2>1. PICK t \in Thread : ThreadUnblock(t)
    BY <1>13
  <2>2. /\ fault = "none" /\ sched.status[t] = TASK_BLOCKED
        /\ sched' = thread_unblock(sched, t)
        /\ UNCHANGED <<cpu, stack, stack_top, fault, pc, int_save>>
    BY <2>1 DEF ThreadUnblock, At
  <2>3. Stepped(InCode) /\ Woken(sched', sched, t)
    BY <1>1, <2>2, MachineWake
  <2>4. InCode' = InCode /\ Created(sched') = Created(sched)
    BY <2>2, <2>3 DEF InCode, Woken, SameThreads
  <2> QED
    BY <1>1, <2>2, <2>3, <2>4, KernelStepped
<1>14. ASSUME fault = "none", NEW s, Interrupt(s), UNCHANGED <<pc, int_save>>,
              Sound(s), PreemptionNoted(s), SameThreads(s, sched),
              s.running = sched.running
       PROVE  KernelInv'
  <2>1. pc[running] = "code"
    BY <1>1, <1>14 DEF MachineInv, MachineOK, InCode, Interrupt, running,
                       INTR_ON, INTR_OFF
  <2>2. MainSchedule(s, [stack EXCEPT ![running] = Append(@, "ALL")],
               [stack_top EXCEPT ![running] = Len(stack[running]) + 1])
    BY <1>14 DEF Interrupt
  <2>3. /\ pc' \in [Thread -> Location]
        /\ int_save' \in [Thread -> {INTR_ON, INTR_OFF}]
        /\ \A t \in Thread \ {running} : pc'[t] = pc[t]
        /\ pc'[running] = "code"
        /\ s.running = running
    BY <1>1, <1>14, <2>1 DEF running
  <2>4. "ALL" \in Frame
    BY DEF Frame
  <2> QED
    BY <1>11, <1>14, <2>2, <2>3, <2>4
<1>15. CASE TimerIntr
  <2>1. /\ fault = "none" /\ Interrupt(intr_timer_handler(sched))
        /\ UNCHANGED <<pc, int_save>>
    BY <1>15 DEF TimerIntr
  <2>2. PICK s : s = intr_timer_handler(sched)
    OBVIOUS
  <2>3. /\ Sound(s) /\ PreemptionNoted(s) /\ SameThreads(s, sched)
        /\ s.running = sched.running
    BY <1>2, <2>1, <2>2, TimerSound
  <2> QED
    BY <1>14, <2>1, <2>2, <2>3
<1>16. CASE \E t \in Thread : DeviceIntr(t)
  <2>1. PICK t \in Thread : DeviceIntr(t)
    BY <1>16
  <2>2. /\ fault = "none" /\ sched.status[t] = TASK_BLOCKED
        /\ Interrupt(thread_unblock(sched, t))
        /\ UNCHANGED <<pc, int_save>>
    BY <2>1 DEF DeviceIntr
  <2>3. PICK s : s = thread_unblock(sched, t)
    OBVIOUS
  <2>4. /\ Sound(s) /\ PreemptionNoted(s) /\ SameThreads(s, sched)
        /\ s.running = sched.running
    BY <1>2, <2>2, <2>3, UnblockSound DEF Woken
  <2> QED
    BY <1>14, <2>2, <2>3, <2>4
<1>17. CASE QuietIntr
  <2>1. /\ fault = "none" /\ Interrupt(sched)
        /\ UNCHANGED <<pc, int_save>>
    BY <1>17 DEF QuietIntr
  <2>2. SameThreads(sched, sched)
    BY DEF SameThreads, SamePids
  <2>3. Sound(sched) /\ PreemptionNoted(sched)
    BY <1>2, <2>1
  <2> QED
    BY <1>14, <2>1, <2>2, <2>3
<1>18. CASE UNCHANGED vars
  <2>1. UNCHANGED <<sched, cpu, stack, stack_top, fault, pc, int_save>>
    BY <1>18 DEF vars
  <2>2. InCode' = InCode
    BY <2>1 DEF InCode
  <2>3. Stepped(InCode')
    BY <1>1, <2>1, <2>2 DEF MachineInv, Stepped
  <2> QED
    BY <1>1, <2>1, <2>3, KernelStepped
<1>19. CASE Halted
  BY <1>18, <1>19 DEF Halted
<1> QED
  BY <1>4, <1>5, <1>7, <1>8, <1>9, <1>10, <1>12, <1>13, <1>15, <1>16, <1>17,
     <1>18, <1>19 DEF Next

\* The inductive invariant holds in every reachable state.
THEOREM KernelInvariant == Spec => []KernelInv
  BY KernelInit, KernelNext, PTL DEF Spec

\* The state of the thread system keeps its types, whatever its threads do.
THEOREM TypeCorrect == Spec => []TypeOK
<1>1. KernelInv => TypeOK
  BY DEF KernelInv
<1> QED
  BY <1>1, KernelInvariant, PTL

\* Every run queue holds exactly the runnable threads of its priority and
\* rq_mask tells exactly which queues are not empty, however joins, jumps,
\* leaves, demotions and wake-ups from interrupts interleave.
THEOREM RunQueuesCorrect == Spec => []SchedulerConsistent
<1>1. KernelInv => SchedulerConsistent
  BY DEF KernelInv, MachineInv, MachineOK, QueuesHold, RunningMarked, running,
         SchedulerConsistent, RunQueueExact, MaskExact, OneRunning
<1> QED
  BY <1>1, KernelInvariant, PTL

\* No operation lets a more urgent thread become runnable without asking for
\* a switch.
THEOREM PreemptionNeverMissed == Spec => []NoMissedPreemption
<1>1. KernelInv => NoMissedPreemption
  BY DEF KernelInv, MachineInv, MachineOK, NoMissedPreemption,
         PreemptionNoted, running
<1> QED
  BY <1>1, KernelInvariant, PTL

\* kernel.s and switch.s always resume a thread from its innermost live frame,
\* with interrupts off until its own code runs again.
THEOREM ContextsPreserved ==
  Spec => [](SavedContextLive /\ SwitchedInWithIntrOff /\ NoStaleFrame)
<1>1. KernelInv => SavedContextLive /\ SwitchedInWithIntrOff /\ NoStaleFrame
  <2> SUFFICES ASSUME KernelInv
               PROVE  SavedContextLive /\ SwitchedInWithIntrOff /\ NoStaleFrame
    OBVIOUS
  <2>1. \A t \in Created(sched) : t \in InCode <=> pc[t] = "code"
    BY DEF InCode, Created
  <2>2. SavedContextLive
    BY <2>1 DEF KernelInv, MachineInv, MachineOK, ContextsLive,
                SavedContextLive, running
  <2>3. SwitchedInWithIntrOff
    BY DEF KernelInv, MachineInv, MachineOK, InCode, SwitchedInWithIntrOff,
           running
  <2>4. NoStaleFrame
    BY DEF KernelInv, MachineInv, MachineOK, NoStaleFrame
  <2> QED
    BY <2>2, <2>3, <2>4
<1> QED
  BY <1>1, KernelInvariant, PTL

\* The running thread always executes in its own address space.
THEOREM AddressSpacesKept == Spec => []AddressSpaceOfRunning
<1>1. KernelInv => AddressSpaceOfRunning
  BY DEF KernelInv, MachineInv, MachineOK, AddressSpaceOfRunning, running
<1> QED
  BY <1>1, KernelInvariant, PTL

\* pid_alloc hands the entries of thread_table out in order and nothing ever
\* takes one back, so PID2TCB finds every thread by its pid but those that were
\* created when the table was full, which all have pid 0.
THEOREM PidTableCorrect == Spec => []PidTable
<1>1. KernelInv => PidTable
  BY DEF KernelInv, MachineInv, MachineOK, PidsExact, PidTable
<1> QED
  BY <1>1, KernelInvariant, PTL

\* Whenever the processor changes hands it goes to a thread that no runnable
\* thread is more urgent than.
THEOREM MostUrgentDispatched == Spec => DispatchMostUrgent
<1> DEFINE Urgent == running' # running /\ running' # NULL =>
                       \A t \in Queued(sched') :
                         sched'.priority[running'] <= sched'.priority[t]
<1>1. KernelInv /\ [Next]_vars => [Urgent]_vars
  <2> SUFFICES ASSUME KernelInv, Next PROVE Urgent
    OBVIOUS
  <2>1. fault = "none" => /\ Sound(sched) /\ PreemptionNoted(sched)
                          /\ running \in Thread
                          /\ sched.status[running] = TASK_RUNNING
    BY RunningSound DEF KernelInv
  <2>2. ASSUME NEW s, Sound(s), PreemptionNoted(s), s.running = running,
               sched' = main_schedule(s)
        PROVE  Urgent
    <3>1. /\ ~s.need_schedule => sched' = s
          /\ s.need_schedule /\ sched'.running # NULL =>
               \A t \in Queued(sched') :
                 sched'.priority[sched'.running] <= sched'.priority[t]
      BY <2>2, MainScheduleSound DEF Scheduled
    <3> QED
      BY <2>2, <3>1 DEF running
  <2>3. ASSUME sched'.running = sched.running PROVE Urgent
    BY <2>3 DEF running
  <2>4. ASSUME NEW t \in Thread, NEW s, Create(t, s), NEW prio \in Prio,
               s = thread_run(sched, t, prio) \/ s = process_run(sched, t)
        PROVE  Urgent
    <3>1. fault = "none" /\ sched' = s /\ sched.status[t] = NO_TCB
      BY <2>4 DEF Create, At, KernelInv, Created
    <3>2. s.running = sched.running
      <4>1. /\ Sound(sched) /\ PreemptionNoted(sched)
            /\ sched.status[sched.running] = TASK_RUNNING
        BY <2>1, <3>1 DEF running
      <4>2. Spawned(s, sched, t)
        BY <2>4, <3>1, <4>1, CreateSound
      <4> QED
        BY <4>2 DEF Spawned
    <3> QED
      BY <2>3, <3>1, <3>2
  <2>5. CASE \E t \in Thread, prio \in Prio : ThreadRun(t, prio)
    BY <2>4, <2>5 DEF ThreadRun
  <2>6. CASE \E t \in Thread : ProcessRun(t)
    <3>1. 0 \in Prio
      BY SchedulerAssumption DEF Prio
    <3> QED
      BY <2>4, <2>6, <3>1 DEF ProcessRun
  <2>7. CASE IntrEnable \/ IntrDisable \/ KernelThreadEntry \/ ThreadResume
             \/ Halted
    BY <2>3, <2>7 DEF IntrEnable, IntrDisable, KernelThreadEntry, ThreadResume,
                      Halted, vars
  <2>8. CASE ThreadBlock
    <3>1. fault = "none" /\ sched' = main_schedule(thread_block(sched))
      BY <2>8 DEF ThreadBlock, At, TaskTrap, MainSchedule
    <3> QED
      BY <2>1, <2>2, <3>1, BlockSound DEF Asleep, running
  <2>9. CASE \E t \in Thread : ThreadUnblock(t)
    <3>1. PICK t \in Thread :
            /\ fault = "none" /\ sched.status[t] = TASK_BLOCKED
            /\ sched' = thread_unblock(sched, t)
      BY <2>9 DEF ThreadUnblock, At
    <3> QED
      BY <2>1, <2>3, <3>1, UnblockSound DEF Woken
  <2>10. CASE TimerIntr
    <3>1. fault = "none" /\ sched' = main_schedule(intr_timer_handler(sched))
      BY <2>10 DEF TimerIntr, Interrupt, MainSchedule
    <3> QED
      BY <2>1, <2>2, <3>1, TimerSound DEF running
  <2>11. CASE \E t \in Thread : DeviceIntr(t)
    <3>1. PICK t \in Thread :
            /\ fault = "none" /\ sched.status[t] = TASK_BLOCKED
            /\ sched' = main_schedule(thread_unblock(sched, t))
      BY <2>11 DEF DeviceIntr, Interrupt, MainSchedule
    <3> QED
      BY <2>1, <2>2, <3>1, UnblockSound DEF Woken, running
  <2>12. CASE QuietIntr
    <3>1. fault = "none" /\ sched' = main_schedule(sched)
      BY <2>12 DEF QuietIntr, Interrupt, MainSchedule
    <3> QED
      BY <2>1, <2>2, <3>1 DEF running
  <2> QED
    BY <2>5, <2>6, <2>7, <2>8, <2>9, <2>10, <2>11, <2>12 DEF Next
<1> QED
  BY <1>1, KernelInvariant, PTL DEF Spec, DispatchMostUrgent
=============================================================================
