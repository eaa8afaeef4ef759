--------------------------------- MODULE Input --------------------------------
(***************************************************************************)
(* Keyboard input: the interrupt handler of device/keyboard.c puts         *)
(* characters into kbd_buf in the context of whatever thread it has        *)
(* interrupted, and blocks that thread when the ring is full.  Consumers   *)
(* call ioq_getchar.  main() starts none, so they are external: threads    *)
(* that disable interrupts (the comment on ioq_getchar asks for that), get *)
(* a character and enable them again.  The other threads spin.             *)
(*                                                                         *)
(* Both sides run with interrupts off from their start to their end, so a  *)
(* step is what happens between two points where a thread may block.       *)
(***************************************************************************)
EXTENDS Machine, IoQueue, Keyboard

CONSTANTS
  Consumer,   \* the threads that read kbd_buf
  ScanByte,   \* the bytes the keyboard sends
  MAX_KEYS    \* bound on the number of characters typed

ASSUME InputAssumption ==
  /\ Consumer \subseteq Thread \ {idle}
  /\ ScanByte \subseteq UINT8
  /\ MAX_KEYS \in Nat

VARIABLES
  pc,         \* where each thread is, see Location
  op,         \* the call it is in past "code": "get" or "put"
  int_save,   \* the local of thread_block
  byte,       \* the parameter of ioq_putchar
  kbd,        \* the static variables of keyboard.c
  kbd_buf,
  typed,      \* the characters handed to ioq_putchar, in that order
  got,        \* the characters ioq_getchar has returned, in that order
  stuck       \* history: a handler has found the ring full

inputVars == <<pc, op, int_save, byte, kbd, kbd_buf, typed, got, stuck>>
vars == <<machineVars, inputVars>>

Location ==
  {"none", "boot", "entry", "code",
   "loop",     \* at the while of ioq_getchar or ioq_putchar
   "lock",     \* blocked in mutex_lock
   "down",     \* woken there, back at the while of sem_down
   "wait",     \* blocked in ioq_wait, with the mutex
   "unlock",   \* woken there, before mutex_unlock
   "done"}     \* a consumer, before its intr_enable

Op == {"get", "put"}

TypeOK ==
  /\ MachineTypeOK
  /\ pc \in [Thread -> Location]
  /\ op \in [Thread -> Op]
  /\ int_save \in [Thread -> {INTR_ON, INTR_OFF}]
  /\ byte \in [Thread -> Byte]
  /\ kbd \in KeyboardState
  /\ kbd_buf \in Ioqueue
  /\ typed \in Seq(Byte)
  /\ got \in Seq(Byte)
  /\ stuck \in BOOLEAN

Init ==
  /\ MachineInit
  /\ pc = [t \in Thread |-> IF t = idle THEN "boot" ELSE "none"]
  /\ op = [t \in Thread |-> "get"]
  /\ int_save = [t \in Thread |-> INTR_OFF]
  /\ byte = [t \in Thread |-> ZERO]
  /\ kbd = keyboard_init
  /\ kbd_buf = ioqueue_init
  /\ typed = << >>
  /\ got = << >>
  /\ stuck = FALSE

-----------------------------------------------------------------------------

At(where) ==
  /\ fault = "none"
  /\ pc[running] = where

Goto(where) == pc' = [pc EXCEPT ![running] = where]

SetIntr(status) ==
  /\ IntrSetStatus(status)
  /\ UNCHANGED <<sched, stack, stack_top, fault>>

\* main() creates the threads, at the lowest priority, and enables interrupts.
ThreadRun(t) ==
  /\ At("boot")
  /\ pc[t] = "none"
  /\ sched' = thread_run(sched, t, PRIO_NUM - 1)
  /\ thread_stack_init(t)
  /\ pc' = [pc EXCEPT ![t] = "entry"]
  /\ UNCHANGED <<cpu, fault, op, int_save, byte, kbd, kbd_buf, typed, got, stuck>>

Booted ==
  /\ At("boot")
  /\ \A t \in Thread : pc[t] # "none"
  /\ SetIntr(INTR_ON)
  /\ Goto("code")
  /\ UNCHANGED <<op, int_save, byte, kbd, kbd_buf, typed, got, stuck>>

\* Mutant: a new thread starts with interrupts off.
KernelThreadEntryIntrOff ==
  /\ At("entry")
  /\ Goto("code")
  /\ UNCHANGED <<machineVars, op, int_save, byte, kbd, kbd_buf, typed, got, stuck>>

KernelThreadEntry ==
  /\ At("entry")
  /\ SetIntr(INTR_ON)
  /\ Goto("code")
  /\ UNCHANGED <<op, int_save, byte, kbd, kbd_buf, typed, got, stuck>>

\* A consumer disables interrupts and calls ioq_getchar.
GetChar ==
  /\ At("code")
  /\ running \in Consumer
  /\ SetIntr(INTR_OFF)
  /\ op' = [op EXCEPT ![running] = "get"]
  /\ Goto("loop")
  /\ UNCHANGED <<int_save, byte, kbd, kbd_buf, typed, got, stuck>>

-----------------------------------------------------------------------------
(* The while loops of ioq_getchar and ioq_putchar                          *)

\* The condition of the loop the running thread is in.
Stuck == IF op[running] = "get" THEN ioq_empty(kbd_buf) ELSE ioq_full(kbd_buf)

waiter == IF op[running] = "get" THEN "consumer" ELSE "producer"

\* The running thread is about to go through the while of sem_down.
Locking == (At("loop") /\ Stuck) \/ At("down")

\* sem_down and ioq_wait both end in thread_block.
Block(where) ==
  /\ int_save' = [int_save EXCEPT ![running] = cpu.intr]
  /\ Goto(where)
  /\ TaskTrap(thread_block(sched))
  /\ UNCHANGED <<op, byte, kbd, typed, got, stuck>>

\* The mutex is taken: sleep until it is given back.
SemWait ==
  /\ Locking
  /\ kbd_buf.mtx.sem.val = 0
  /\ kbd_buf' = [kbd_buf EXCEPT !.mtx.sem = sem_down_wait(@, running)]
  /\ Block("lock")

\* mutex_lock succeeds, and ioq_wait follows without another look at the ring.
IoqWait ==
  /\ Locking
  /\ kbd_buf.mtx.sem.val # 0
  /\ kbd_buf' = [kbd_buf EXCEPT !.mtx.sem = sem_down_take(@),
                                !.mtx.holder = running,
                                ![waiter] = running]
  /\ Block("wait")

ThreadResume ==
  /\ At("lock") \/ At("wait")
  /\ SetIntr(int_save[running])
  /\ Goto(IF pc[running] = "lock" THEN "down" ELSE "unlock")
  /\ UNCHANGED <<op, int_save, byte, kbd, kbd_buf, typed, got, stuck>>

MutexUnlock ==
  /\ At("unlock")
  /\ LET sem == kbd_buf.mtx.sem
     IN  IF sem_up_assert(sem, sched)
         THEN /\ sched' = sem_up_wake(sem, sched)
              /\ kbd_buf' = [kbd_buf EXCEPT !.mtx.sem = sem_up_put(@),
                                            !.mtx.holder = NULL]
              /\ Goto("loop")
              /\ UNCHANGED fault
         ELSE /\ fault' = "assert"
              /\ UNCHANGED <<sched, kbd_buf, pc>>
  /\ UNCHANGED <<cpu, stack, stack_top, op, int_save, byte, kbd, typed, got, stuck>>

-----------------------------------------------------------------------------
(* Past the loops                                                          *)

IoqGet ==
  /\ At("loop")
  /\ op[running] = "get"
  /\ ~Stuck
  /\ IF ioq_signal_assert(kbd_buf.producer, sched)
     THEN /\ sched' = ioq_signal(kbd_buf.producer, sched)
          /\ kbd_buf' = ioq_getchar(kbd_buf)
          /\ got' = Append(got, kbd_buf.buf[kbd_buf.tail])
          /\ Goto("done")
          /\ UNCHANGED fault
     ELSE /\ fault' = "assert"
          /\ UNCHANGED <<sched, kbd_buf, got, pc>>
  /\ UNCHANGED <<cpu, stack, stack_top, op, int_save, byte, kbd, typed, stuck>>

Done ==
  /\ At("done")
  /\ SetIntr(INTR_ON)
  /\ Goto("code")
  /\ UNCHANGED <<op, int_save, byte, kbd, kbd_buf, typed, got, stuck>>

\* The rest of a keyboard interrupt that had to wait: ioq_putchar, the return
\* of the handler and hwi_tail_handle.
IoqPut ==
  /\ At("loop")
  /\ op[running] = "put"
  /\ ~Stuck
  /\ IF ioq_signal_assert(kbd_buf.consumer, sched)
     THEN /\ kbd_buf' = ioq_putchar(kbd_buf, byte[running])
          /\ Goto("code")
          /\ MainSchedule(ioq_signal(kbd_buf.consumer, sched), stack, stack_top)
     ELSE /\ fault' = "assert"
          /\ UNCHANGED <<sched, cpu, stack, stack_top, kbd_buf, pc>>
  /\ UNCHANGED <<op, int_save, byte, kbd, typed, got, stuck>>

-----------------------------------------------------------------------------
(* The keyboard interrupt                                                  *)

\* One byte arrives; c is the character it completes, or NO_CHAR.
KeyIntr(b, c) ==
  /\ fault = "none"
  /\ cpu.intr = INTR_ON
  /\ Len(typed) < MAX_KEYS
  /\ LET r == intr_keyboard_handler(kbd, b)
     IN  kbd' = r.k /\ c = r.char

\* It completes none: the handler returns.
KeyIgnored(b) ==
  /\ KeyIntr(b, NO_CHAR)
  /\ Interrupt(sched)
  /\ UNCHANGED <<pc, op, int_save, byte, kbd_buf, typed, got, stuck>>

\* There is room for it in the ring.
KeyStored(b, c) ==
  /\ KeyIntr(b, c)
  /\ ~ioq_full(kbd_buf)
  /\ typed' = Append(typed, c)
  /\ IF ioq_signal_assert(kbd_buf.consumer, sched)
     THEN /\ kbd_buf' = ioq_putchar(kbd_buf, c)
          /\ Interrupt(ioq_signal(kbd_buf.consumer, sched))
     ELSE /\ fault' = "assert"
          /\ UNCHANGED <<sched, cpu, stack, stack_top, kbd_buf>>
  /\ UNCHANGED <<pc, op, int_save, byte, got, stuck>>

\* There is none: the entry of the interrupt, up to the loop of ioq_putchar.
KeyStuck(b, c) ==
  /\ KeyIntr(b, c)
  /\ ioq_full(kbd_buf)
  /\ typed' = Append(typed, c)
  /\ stack' = [stack EXCEPT ![running] = Append(@, "ALL")]
  /\ stack_top' = [stack_top EXCEPT ![running] = Len(stack[running]) + 1]
  /\ IntrSetStatus(INTR_OFF)
  /\ op' = [op EXCEPT ![running] = "put"]
  /\ byte' = [byte EXCEPT ![running] = c]
  /\ Goto("loop")
  /\ stuck' = TRUE
  /\ UNCHANGED <<sched, fault, int_save, kbd_buf, got>>

TimerIntr ==
  /\ fault = "none"
  /\ Interrupt(intr_timer_handler(sched))
  /\ UNCHANGED inputVars

Halted == fault # "none" /\ UNCHANGED vars

\* One step of the running thread's own code.
Code ==
  \/ \E t \in Thread : ThreadRun(t)
  \/ Booted \/ KernelThreadEntry \/ GetChar
  \/ SemWait \/ IoqWait \/ ThreadResume \/ MutexUnlock
  \/ IoqGet \/ Done \/ IoqPut

Next ==
  \/ Code
  \/ \E b \in ScanByte : KeyIgnored(b)
  \/ \E b \in ScanByte, c \in Byte : KeyStored(b, c) \/ KeyStuck(b, c)
  \/ TimerIntr
  \/ Halted

Spec == Init /\ [][Next]_vars

\* As in Console: code that can run does, and ticks are delivered.  Nothing
\* is assumed of the keyboard.
Fairness ==
  /\ \A t \in Thread :
       []<>(fault = "none" /\ running = t
            /\ (pc[t] # "code" \/ t \in Consumer))
         => []<><<running = t /\ Code>>_vars
  /\ []<>(cpu.intr = INTR_ON) => []<><<TimerIntr>>_vars

FairSpec == Spec /\ Fairness

-----------------------------------------------------------------------------
(* Safety, in every run                                                    *)

\* No typed character is lost and none is made up, whether it is still held
\* by a handler that waits, in the ring, or read; the ring never overflows.
NoCharLost ==
  \A c \in Byte :
    LET in(s) == Cardinality({i \in DOMAIN s : s[i] = c})
    IN  in(typed) = in(got) + in(Content(kbd_buf))
                    + Cardinality({t \in Thread :
                         /\ pc[t] \notin {"none", "boot", "entry", "code"}
                         /\ op[t] = "put" /\ byte[t] = c})

\* The mutex of the queue is held exactly by the thread that sleeps in
\* ioq_wait or is on its way out, and there is at most one; producer and
\* consumer each name a thread asleep there for that side, and a sleeper is
\* named: the ASSERT of thread_unblock never fails.  Before the ring is full
\* for the first time, nothing else stops the machine either.
SleeperNamed ==
  LET Holders == {t \in Thread : pc[t] \in {"wait", "unlock"}}
  IN  /\ \A t, u \in Holders : t = u
      /\ kbd_buf.mtx.sem.val = IF Holders = {} THEN 1 ELSE 0
      /\ \A t \in Thread : kbd_buf.mtx.holder = t <=> t \in Holders
      /\ \A t \in Thread :
           pc[t] = "wait" /\ sched.status[t] = TASK_BLOCKED <=>
             \/ kbd_buf.consumer = t /\ op[t] = "get"
             \/ kbd_buf.producer = t /\ op[t] = "put"
      /\ \A t \in Thread : kbd_buf.consumer = t => op[t] = "get"
      /\ \A t \in Thread : kbd_buf.producer = t => op[t] = "put"
      /\ fault # "assert"
      /\ fault # "none" => stuck

-----------------------------------------------------------------------------
(* Until a handler has found the ring full                                 *)

\* The characters come out in the order in which they were typed.  A handler
\* that had to wait stores its character after those of later interrupts.
InOrder == ~stuck => typed = got \o Content(kbd_buf)

\* One reader alone never sleeps on a ring that holds a character.  (Of two
\* one may: it was asleep in mutex_lock while the ring was tested.)
NoReaderAsleep ==
  ~stuck /\ ~ioq_empty(kbd_buf) =>
    \A t \in Thread : sched.status[t] # TASK_BLOCKED

\* Every typed character is read: the reader catches up with the ring again
\* and again, or, when the typist never pauses, reads for ever.
AllRead == []<>(ioq_empty(kbd_buf) \/ stuck) \/ []<><<got' # got>>_vars

kernelPc ==
  [t \in Thread |->
     CASE pc[t] \in {"none", "boot", "entry"} -> pc[t]
       [] pc[t] \in {"lock", "wait"} -> "blocked"
       [] OTHER -> "code"]

K == INSTANCE Kernel WITH pc <- kernelPc

\* Up to that moment this is one of the clients Kernel allows, so that what is
\* proved there holds here.
ImplementsKernel == K!Init /\ [][stuck' \/ K!Next]_(K!vars)

-----------------------------------------------------------------------------
(* What comments of the code say of a full ring                            *)

\* highest_rq_get: "it cannot happen that no queue holds a task".
SomeThreadRunnable == fault # "no_thread"

\* main_schedule: "if not need schedule, return to the original thread".
ReturnsToInterrupted == fault # "stale_frame"
=============================================================================
