-------------------------------- MODULE IoQueue -------------------------------
(***************************************************************************)
(* The ring buffer of device/ioqueue.c.  As in Sync, the operators are the *)
(* stretches of ioq_getchar and ioq_putchar between two points where they  *)
(* may block; Input puts them together.                                    *)
(***************************************************************************)
EXTENDS Sync

CONSTANTS
  BUF_SIZE,   \* number of places of the ring, one of which stays free
  Byte,       \* what a place can hold
  ZERO        \* what a place holds at first

ASSUME IoQueueAssumption ==
  /\ BUF_SIZE \in Nat \ {0}
  /\ ZERO \in Byte

Pos == 0 .. BUF_SIZE - 1

Ioqueue ==
  [mtx      : Mutex,
   producer : Thread \cup {NULL},
   consumer : Thread \cup {NULL},
   buf      : [Pos -> Byte],
   head     : Pos,
   tail     : Pos]

ioqueue_init ==
  [mtx      |-> mutex_init,
   producer |-> NULL,
   consumer |-> NULL,
   buf      |-> [i \in Pos |-> ZERO],
   head     |-> 0,
   tail     |-> 0]

next_pos_get(pos) == (pos + 1) % BUF_SIZE

\* Mutant: the queue is never full.
ioq_full_never(q) == FALSE

ioq_full(q)  == next_pos_get(q.head) = q.tail
ioq_empty(q) == q.head = q.tail

\* Mutant: the waiter is forgotten without being woken.
ioq_signal_none(waiter, s) == s

\* The scheduler after "if (*waiter != NULL) ioq_signal(waiter)", and whether
\* the ASSERT of thread_unblock lets it pass.
ioq_signal(waiter, s) ==
  IF waiter = NULL THEN s ELSE thread_unblock(s, waiter)

ioq_signal_assert(waiter, s) ==
  waiter # NULL => s.status[waiter] = TASK_BLOCKED

\* ioq_getchar and ioq_putchar past their while loops.
ioq_getchar(q) ==
  [q EXCEPT !.tail = next_pos_get(@), !.producer = NULL]

\* Mutant: the woken consumer is still named.
ioq_putchar_consumer_kept(q, byte) ==
  [q EXCEPT !.buf[q.head] = byte, !.head = next_pos_get(@)]

\* Mutant: the byte is stored one place too far.
ioq_putchar_off_by_one(q, byte) ==
  [q EXCEPT !.buf[next_pos_get(q.head)] = byte, !.head = next_pos_get(@),
            !.consumer = NULL]

ioq_putchar(q, byte) ==
  [q EXCEPT !.buf[q.head] = byte, !.head = next_pos_get(@), !.consumer = NULL]

\* The bytes in the ring, oldest first.
Content(q) ==
  [i \in 1 .. (q.head + BUF_SIZE - q.tail) % BUF_SIZE |->
     q.buf[(q.tail + i - 1) % BUF_SIZE]]
=============================================================================
