---------------------------- MODULE MachineProofs ----------------------------
(***************************************************************************)
(* What the operations of Scheduler do to the run queues, and what those   *)
(* on processor and kernel stacks keep, for any number of threads,         *)
(* priorities and pids and for any client: the facts on which the proofs   *)
(* about Kernel, Console and Input rest.                                   *)
(***************************************************************************)
EXTENDS Machine, SequenceTheorems, WellFoundedInduction, TLAPS

-----------------------------------------------------------------------------
(* Lists                                                                   *)

\* list_push_back adds its element and keeps a list free of duplicates.
LEMMA PushBack ==
  ASSUME NEW l \in Seq(Thread), NEW e \in Thread, e \notin ToSet(l),
         IsInjective(l)
  PROVE  /\ list_push_back(l, e) \in Seq(Thread)
         /\ list_push_back(l, e) # << >>
         /\ ToSet(list_push_back(l, e)) = ToSet(l) \cup {e}
         /\ IsInjective(list_push_back(l, e))
<1> DEFINE r == Append(l, e)
<1>1. /\ r \in Seq(Thread) /\ Len(r) = Len(l) + 1 /\ r # << >>
      /\ Len(l) \in Nat /\ DOMAIN l = 1 .. Len(l) /\ DOMAIN r = 1 .. Len(l) + 1
      /\ \A i \in 1 .. Len(l) : r[i] = l[i]
      /\ r[Len(l) + 1] = e
  OBVIOUS
<1> HIDE DEF r
<1>2. ToSet(r) = ToSet(l) \cup {e}
  BY <1>1 DEF ToSet
<1>3. IsInjective(r)
  BY <1>1 DEF IsInjective, ToSet
<1> QED
  BY <1>1, <1>2, <1>3 DEF r, list_push_back

\* list_push_front adds its element and keeps a list free of duplicates.
LEMMA PushFront ==
  ASSUME NEW l \in Seq(Thread), NEW e \in Thread, e \notin ToSet(l),
         IsInjective(l)
  PROVE  /\ list_push_front(l, e) \in Seq(Thread)
         /\ list_push_front(l, e) # << >>
         /\ ToSet(list_push_front(l, e)) = ToSet(l) \cup {e}
         /\ IsInjective(list_push_front(l, e))
<1> DEFINE r == <<e>> \o l
<1>1. /\ r \in Seq(Thread) /\ Len(r) = Len(l) + 1 /\ r # << >>
      /\ Len(l) \in Nat /\ DOMAIN l = 1 .. Len(l) /\ DOMAIN r = 1 .. Len(l) + 1
      /\ r[1] = e
      /\ \A i \in 2 .. Len(l) + 1 : i - 1 \in 1 .. Len(l) /\ r[i] = l[i - 1]
  OBVIOUS
<1>2. \A i \in 1 .. Len(l) : i + 1 \in 2 .. Len(l) + 1 /\ r[i + 1] = l[i]
  BY <1>1
<1> HIDE DEF r
<1>3. ToSet(r) = ToSet(l) \cup {e}
  <2>1. ASSUME NEW x \in ToSet(r) PROVE x \in ToSet(l) \cup {e}
    BY <1>1 DEF ToSet
  <2>2. ASSUME NEW x \in ToSet(l) PROVE x \in ToSet(r)
    <3>1. PICK i \in 1 .. Len(l) : x = l[i]
      BY <1>1 DEF ToSet
    <3>2. i + 1 \in 1 .. Len(l) + 1 /\ r[i + 1] = x
      BY <1>1, <1>2, <3>1
    <3> QED
      BY <1>1, <3>2 DEF ToSet
  <2>3. e \in ToSet(r)
    <3>1. 1 \in DOMAIN r
      BY <1>1
    <3> QED
      BY <1>1, <3>1 DEF ToSet
  <2> QED
    BY <2>1, <2>2, <2>3
<1>4. IsInjective(r)
  <2> SUFFICES ASSUME NEW i \in 1 .. Len(l) + 1, NEW j \in 1 .. Len(l) + 1,
                      r[i] = r[j]
               PROVE  i = j
    BY <1>1 DEF IsInjective
  <2>1. \A k \in 2 .. Len(l) + 1 : r[k] # e
    BY <1>1 DEF ToSet
  <2>2. CASE i = 1 \/ j = 1
    <3>1. i = 1 /\ j = 1
      BY <1>1, <2>1, <2>2
    <3> QED
      BY <3>1
  <2>3. CASE i # 1 /\ j # 1
    <3>1. /\ i - 1 \in 1 .. Len(l) /\ r[i] = l[i - 1]
          /\ j - 1 \in 1 .. Len(l) /\ r[j] = l[j - 1]
      BY <1>1, <2>3
    <3>2. i - 1 = j - 1
      BY <1>1, <3>1 DEF IsInjective
    <3> QED
      BY <3>2
  <2> QED
    BY <2>2, <2>3
<1> QED
  BY <1>1, <1>3, <1>4 DEF r, list_push_front, Cons

\* What RemoveAt leaves at each index.
LEMMA RemoveAtIndex ==
  ASSUME NEW l \in Seq(Thread), NEW k \in 1 .. Len(l)
  PROVE  /\ RemoveAt(l, k) \in Seq(Thread)
         /\ DOMAIN RemoveAt(l, k) = 1 .. Len(l) - 1
         /\ \A i \in 1 .. Len(l) - 1 :
              RemoveAt(l, k)[i] = l[IF i < k THEN i ELSE i + 1]
<1>1. PICK u : u = SubSeq(l, 1, k - 1)
  OBVIOUS
<1>2. PICK v : v = SubSeq(l, k + 1, Len(l))
  OBVIOUS
<1>3. /\ u \in Seq(Thread)
      /\ Len(u) = k - 1
      /\ \A i \in 1 .. k - 1 : u[i] = l[i]
  BY <1>1
<1>4. /\ v \in Seq(Thread)
      /\ Len(v) = Len(l) - k
      /\ \A i \in 1 .. Len(l) - k : v[i] = l[k + i]
  BY <1>2
<1>5. RemoveAt(l, k) = u \o v
  BY <1>1, <1>2 DEF RemoveAt
<1>6. u \o v \in Seq(Thread) /\ Len(u \o v) = Len(l) - 1
  BY <1>3, <1>4
<1>7. ASSUME NEW i \in 1 .. Len(l) - 1
      PROVE  (u \o v)[i] = l[IF i < k THEN i ELSE i + 1]
  <2>1. CASE i < k
    BY <1>3, <1>4, <2>1
  <2>2. CASE ~(i < k)
    <3>1. (u \o v)[i] = v[i - (k - 1)] /\ i - (k - 1) \in 1 .. Len(l) - k
      BY <1>3, <1>4, <2>2
    <3> QED
      BY <1>4, <2>2, <3>1
  <2> QED
    BY <2>1, <2>2
<1>8. PICK w : w = u \o v
  OBVIOUS
<1>9. /\ w \in Seq(Thread)
      /\ DOMAIN w = 1 .. Len(l) - 1
  BY <1>6, <1>8
<1>10. \A i \in 1 .. Len(l) - 1 : w[i] = l[IF i < k THEN i ELSE i + 1]
  BY <1>7, <1>8
<1> QED
  BY <1>5, <1>8, <1>9, <1>10

\* list_remove of an element that is in the list removes it and nothing else.
LEMMA ListRemove ==
  ASSUME NEW l \in Seq(Thread), NEW e \in Thread, e \in ToSet(l),
         IsInjective(l)
  PROVE  /\ list_remove(l, e) \in Seq(Thread)
         /\ ToSet(list_remove(l, e)) = ToSet(l) \ {e}
         /\ IsInjective(list_remove(l, e))
<1>1. PICK k : k = CHOOSE i \in DOMAIN l : l[i] = e
  OBVIOUS
<1>2. PICK n : n = Len(l)
  OBVIOUS
<1>3. PICK r : r = RemoveAt(l, k)
  OBVIOUS
<1>4. /\ n \in Nat /\ DOMAIN l = 1 .. n
      /\ k \in 1 .. n /\ l[k] = e
      /\ list_remove(l, e) = r
  BY <1>1, <1>2, <1>3 DEF ToSet, list_remove
<1>5. /\ r \in Seq(Thread) /\ DOMAIN r = 1 .. n - 1
      /\ \A i \in 1 .. n - 1 : r[i] = l[IF i < k THEN i ELSE i + 1]
  BY <1>2, <1>3, <1>4, RemoveAtIndex
<1>6. \A i \in 1 .. n, j \in 1 .. n : l[i] = l[j] => i = j
  BY <1>4 DEF IsInjective
<1>7. ToSet(r) = ToSet(l) \ {e}
  <2>1. ASSUME NEW x \in ToSet(r) PROVE x \in ToSet(l) \ {e}
    <3>1. PICK i \in 1 .. n - 1 : r[i] = x
      BY <1>5 DEF ToSet
    <3>2. PICK j : j = IF i < k THEN i ELSE i + 1
      OBVIOUS
    <3>3. j \in 1 .. n /\ j # k /\ l[j] = x
      BY <1>4, <1>5, <3>1, <3>2
    <3> QED
      BY <1>4, <1>6, <3>3 DEF ToSet
  <2>2. ASSUME NEW x \in ToSet(l) \ {e} PROVE x \in ToSet(r)
    <3>1. PICK j \in 1 .. n : l[j] = x /\ j # k
      BY <1>4 DEF ToSet
    <3>2. CASE j < k
      <4>1. j \in 1 .. n - 1 /\ r[j] = x
        BY <1>4, <1>5, <3>1, <3>2
      <4> QED
        BY <1>5, <4>1 DEF ToSet
    <3>3. CASE ~(j < k)
      <4>1. j - 1 \in 1 .. n - 1 /\ r[j - 1] = x
        BY <1>4, <1>5, <3>1, <3>3
      <4> QED
        BY <1>5, <4>1 DEF ToSet
    <3> QED
      BY <3>2, <3>3
  <2> QED
    BY <2>1, <2>2
<1>8. IsInjective(r)
  <2> SUFFICES ASSUME NEW i \in 1 .. n - 1, NEW j \in 1 .. n - 1, r[i] = r[j]
               PROVE  i = j
    BY <1>5 DEF IsInjective
  <2> QED
    BY <1>4, <1>5, <1>6
<1> QED
  BY <1>4, <1>5, <1>7, <1>8

\* list_pop_front takes the first element off a list without duplicates and
\* no other.
LEMMA PopFront ==
  ASSUME NEW l \in Seq(Thread), IsInjective(l), l # << >>
  PROVE  /\ Head(l) \in Thread /\ Head(l) \in ToSet(l)
         /\ Tail(l) \in Seq(Thread) /\ IsInjective(Tail(l))
         /\ ToSet(Tail(l)) = ToSet(l) \ {Head(l)}
<1>1. PICK r : r = Tail(l)
  OBVIOUS
<1>2. /\ r \in Seq(Thread) /\ DOMAIN r = 1 .. Len(l) - 1
      /\ Len(l) \in Nat /\ Len(l) # 0 /\ DOMAIN l = 1 .. Len(l)
      /\ \A i \in 1 .. Len(l) - 1 : r[i] = l[i + 1]
      /\ Head(l) = l[1] /\ Head(l) \in Thread
  BY <1>1
<1>3. Head(l) \in ToSet(l)
  BY <1>2 DEF ToSet
<1>4. IsInjective(r)
  <2> SUFFICES ASSUME NEW i \in 1 .. Len(l) - 1, NEW j \in 1 .. Len(l) - 1,
                      r[i] = r[j]
               PROVE  i = j
    BY <1>2 DEF IsInjective
  <2>1. i + 1 \in DOMAIN l /\ j + 1 \in DOMAIN l /\ l[i + 1] = l[j + 1]
    BY <1>2
  <2>2. i + 1 = j + 1
    BY <2>1 DEF IsInjective
  <2> QED
    BY <1>2, <2>2
<1>5. ASSUME NEW x \in ToSet(r) PROVE x \in ToSet(l) \ {Head(l)}
  <2>1. PICK i \in 1 .. Len(l) - 1 : x = l[i + 1]
    BY <1>2 DEF ToSet
  <2>2. i + 1 \in DOMAIN l /\ 1 \in DOMAIN l /\ i + 1 # 1
    BY <1>2
  <2> QED
    BY <1>2, <2>1, <2>2 DEF ToSet, IsInjective
<1>6. ASSUME NEW x \in ToSet(l), x # Head(l) PROVE x \in ToSet(r)
  <2>1. PICK i \in 1 .. Len(l) : x = l[i]
    BY <1>2 DEF ToSet
  <2>2. i - 1 \in 1 .. Len(l) - 1 /\ r[i - 1] = x
    BY <1>2, <1>6, <2>1
  <2> QED
    BY <1>2, <2>2 DEF ToSet
<1> QED
  BY <1>1, <1>2, <1>3, <1>4, <1>5, <1>6

\* A list is empty exactly when it has no element.
LEMMA EmptyList ==
  ASSUME NEW l \in Seq(Thread)
  PROVE  /\ l = << >> <=> ToSet(l) = {}
         /\ l # << >> => Head(l) \in ToSet(l)
<1>1. CASE l = << >>
  BY <1>1 DEF ToSet
<1>2. CASE l # << >>
  <2>1. Head(l) = l[1] /\ 1 \in DOMAIN l
    BY <1>2
  <2> QED
    BY <1>2, <2>1 DEF ToSet
<1> QED
  BY <1>1, <1>2

\* bitmap_scan finds the least set bit of a mask that has one.
LEMMA LeastBit ==
  ASSUME NEW S \in SUBSET Nat, S # {}
  PROVE  /\ Min(S) \in S
         /\ \A n \in S : Min(S) =< n
<1>1. PICK x \in S : \A y \in S : ~(<<y, x>> \in OpToRel(<, Nat))
  BY WFMin, NatLessThanWellFounded
<1>2. ASSUME NEW y \in S PROVE x =< y
  <2>1. ~(y < x)
    BY <1>1 DEF OpToRel
  <2> QED
    BY <2>1
<1> QED
  BY <1>2 DEF Min

-----------------------------------------------------------------------------
(* The run queues as a whole.  S is the set of the threads they hold, which*)
(* is not always the set of runnable threads: main_schedule takes the      *)
(* current thread out, changes its priority and puts it back.              *)

QueuesHold(s, S) ==
  \A p \in Prio :
    /\ IsInjective(s.rq[p])
    /\ ToSet(s.rq[p]) = {t \in S : s.priority[t] = p}
    /\ p \in s.rq_mask <=> s.rq[p] # << >>

\* r differs from s in nothing but the run queues and their mask.
SameButQueues(r, s) ==
  /\ r.running = s.running
  /\ r.need_schedule = s.need_schedule
  /\ r.status = s.status
  /\ r.priority = s.priority
  /\ r.ticks = s.ticks
  /\ r.pg_dir = s.pg_dir
  /\ r.pid = s.pid
  /\ r.thread_table = s.thread_table
  /\ r.all_list = s.all_list

\* QueuesHold only depends on the queues, the mask and the priorities of S.
LEMMA QueuesHoldFrame ==
  ASSUME NEW s, NEW r, NEW S, QueuesHold(s, S),
         r.rq = s.rq, r.rq_mask = s.rq_mask,
         \A t \in S : r.priority[t] = s.priority[t]
  PROVE  QueuesHold(r, S)
  BY DEF QueuesHold

WithQueue(s, p, q, m) == [s EXCEPT !.rq[p] = q, !.rq_mask = m]

\* Replacing one queue and its mask bit, consistently.
LEMMA ReplaceQueue ==
  ASSUME NEW s \in SchedState, NEW S \in SUBSET Thread, QueuesHold(s, S),
         NEW T \in SUBSET Thread, NEW p \in Prio,
         NEW q \in Seq(Thread), NEW m \in SUBSET Prio,
         IsInjective(q),
         ToSet(q) = {t \in T : s.priority[t] = p},
         \A t \in Thread : s.priority[t] # p => (t \in T <=> t \in S),
         p \in m <=> q # << >>,
         \A x \in Prio \ {p} : x \in m <=> x \in s.rq_mask
  PROVE  /\ WithQueue(s, p, q, m) \in SchedState
         /\ SameButQueues(WithQueue(s, p, q, m), s)
         /\ QueuesHold(WithQueue(s, p, q, m), T)
<1> DEFINE r == WithQueue(s, p, q, m)
<1>1. r \in SchedState
  BY DEF SchedState, WithQueue
<1>2. SameButQueues(r, s)
  BY DEF SchedState, SameButQueues, WithQueue
<1>3. r.rq = [s.rq EXCEPT ![p] = q] /\ r.rq_mask = m
  BY DEF SchedState, WithQueue
<1> HIDE DEF r
<1>4. QueuesHold(r, T)
  <2> SUFFICES ASSUME NEW x \in Prio
               PROVE  /\ IsInjective(r.rq[x])
                      /\ ToSet(r.rq[x]) = {t \in T : s.priority[t] = x}
                      /\ x \in r.rq_mask <=> r.rq[x] # << >>
    BY <1>2 DEF QueuesHold, SameButQueues
  <2>1. s.rq \in [Prio -> Seq(Thread)]
    BY DEF SchedState
  <2>2. CASE x = p
    BY <1>3, <2>1, <2>2
  <2>3. CASE x # p
    <3>1. r.rq[x] = s.rq[x] /\ (x \in r.rq_mask <=> x \in s.rq_mask)
      BY <1>3, <2>1, <2>3
    <3>2. {t \in T : s.priority[t] = x} = {t \in S : s.priority[t] = x}
      BY <2>3
    <3>3. /\ IsInjective(s.rq[x])
          /\ ToSet(s.rq[x]) = {t \in S : s.priority[t] = x}
          /\ x \in s.rq_mask <=> s.rq[x] # << >>
      BY DEF QueuesHold
    <3> QED
      BY <3>1, <3>2, <3>3
  <2> QED
    BY <2>2, <2>3
<1> QED
  BY <1>1, <1>2, <1>4 DEF r

\* scheduler_rq_join_only adds a thread that is in no queue.
LEMMA JoinOnly ==
  ASSUME NEW s \in SchedState, NEW S \in SUBSET Thread, QueuesHold(s, S),
         NEW t \in Thread \ S
  PROVE  /\ scheduler_rq_join_only(s, t) \in SchedState
         /\ SameButQueues(scheduler_rq_join_only(s, t), s)
         /\ QueuesHold(scheduler_rq_join_only(s, t), S \cup {t})
<1>1. PICK p \in Prio : p = s.priority[t]
  BY DEF SchedState
<1>2. s.rq[p] \in Seq(Thread) /\ s.rq_mask \in SUBSET Prio
  BY DEF SchedState
<1>3. IsInjective(s.rq[p]) /\ ToSet(s.rq[p]) = {x \in S : s.priority[x] = p}
  BY DEF QueuesHold
<1>4. PICK q : q = list_push_back(s.rq[p], t)
  OBVIOUS
<1>5. /\ q \in Seq(Thread) /\ q # << >> /\ IsInjective(q)
      /\ ToSet(q) = {x \in S \cup {t} : s.priority[x] = p}
  BY <1>1, <1>2, <1>3, <1>4, PushBack
<1>6. PICK T : T = S \cup {t}
  OBVIOUS
<1>7. PICK m : m = s.rq_mask \cup {p}
  OBVIOUS
<1>8. scheduler_rq_join_only(s, t) = WithQueue(s, p, q, m)
  BY <1>1, <1>4, <1>7 DEF scheduler_rq_join_only, SchedState, WithQueue
<1>9. /\ T \in SUBSET Thread
      /\ \A x \in Thread : s.priority[x] # p => (x \in T <=> x \in S)
  BY <1>1, <1>6
<1>10. /\ m \in SUBSET Prio
       /\ p \in m <=> q # << >>
       /\ \A x \in Prio \ {p} : x \in m <=> x \in s.rq_mask
  BY <1>2, <1>5, <1>7
<1>11. ToSet(q) = {x \in T : s.priority[x] = p}
  BY <1>5, <1>6
<1>12. /\ WithQueue(s, p, q, m) \in SchedState
       /\ SameButQueues(WithQueue(s, p, q, m), s)
       /\ QueuesHold(WithQueue(s, p, q, m), T)
  BY <1>5, <1>9, <1>10, <1>11, ReplaceQueue
<1> QED
  BY <1>6, <1>8, <1>12

\* scheduler_rq_jump_only adds a thread that is in no queue.
LEMMA JumpOnly ==
  ASSUME NEW s \in SchedState, NEW S \in SUBSET Thread, QueuesHold(s, S),
         NEW t \in Thread \ S
  PROVE  /\ scheduler_rq_jump_only(s, t) \in SchedState
         /\ SameButQueues(scheduler_rq_jump_only(s, t), s)
         /\ QueuesHold(scheduler_rq_jump_only(s, t), S \cup {t})
<1>1. PICK p \in Prio : p = s.priority[t]
  BY DEF SchedState
<1>2. s.rq[p] \in Seq(Thread) /\ s.rq_mask \in SUBSET Prio
  BY DEF SchedState
<1>3. IsInjective(s.rq[p]) /\ ToSet(s.rq[p]) = {x \in S : s.priority[x] = p}
  BY DEF QueuesHold
<1>4. PICK q : q = list_push_front(s.rq[p], t)
  OBVIOUS
<1>5. /\ q \in Seq(Thread) /\ q # << >> /\ IsInjective(q)
      /\ ToSet(q) = {x \in S \cup {t} : s.priority[x] = p}
  BY <1>1, <1>2, <1>3, <1>4, PushFront
<1>6. PICK T : T = S \cup {t}
  OBVIOUS
<1>7. PICK m : m = s.rq_mask \cup {p}
  OBVIOUS
<1>8. scheduler_rq_jump_only(s, t) = WithQueue(s, p, q, m)
  BY <1>1, <1>4, <1>7 DEF scheduler_rq_jump_only, SchedState, WithQueue
<1>9. /\ T \in SUBSET Thread
      /\ \A x \in Thread : s.priority[x] # p => (x \in T <=> x \in S)
  BY <1>1, <1>6
<1>10. /\ m \in SUBSET Prio
       /\ p \in m <=> q # << >>
       /\ \A x \in Prio \ {p} : x \in m <=> x \in s.rq_mask
  BY <1>2, <1>5, <1>7
<1>11. ToSet(q) = {x \in T : s.priority[x] = p}
  BY <1>5, <1>6
<1>12. /\ WithQueue(s, p, q, m) \in SchedState
       /\ SameButQueues(WithQueue(s, p, q, m), s)
       /\ QueuesHold(WithQueue(s, p, q, m), T)
  BY <1>5, <1>9, <1>10, <1>11, ReplaceQueue
<1> QED
  BY <1>6, <1>8, <1>12

\* scheduler_rq_leave_only takes a queued thread out, and clears the mask bit
\* exactly when it was the last of its queue.
LEMMA LeaveOnly ==
  ASSUME NEW s \in SchedState, NEW S \in SUBSET Thread, QueuesHold(s, S),
         NEW t \in S
  PROVE  /\ scheduler_rq_leave_only(s, t) \in SchedState
         /\ SameButQueues(scheduler_rq_leave_only(s, t), s)
         /\ QueuesHold(scheduler_rq_leave_only(s, t), S \ {t})
<1>1. PICK p \in Prio : p = s.priority[t]
  BY DEF SchedState
<1>2. s.rq[p] \in Seq(Thread) /\ s.rq_mask \in SUBSET Prio
  BY DEF SchedState
<1>3. /\ IsInjective(s.rq[p]) /\ ToSet(s.rq[p]) = {x \in S : s.priority[x] = p}
      /\ p \in s.rq_mask
  <2>1. /\ IsInjective(s.rq[p])
        /\ ToSet(s.rq[p]) = {x \in S : s.priority[x] = p}
        /\ p \in s.rq_mask <=> s.rq[p] # << >>
    BY DEF QueuesHold
  <2>2. s.rq[p] # << >>
    BY <1>1, <1>2, <2>1, EmptyList
  <2> QED
    BY <2>1, <2>2
<1>4. PICK q : q = list_remove(s.rq[p], t)
  OBVIOUS
<1>5. t \in Thread /\ t \in ToSet(s.rq[p])
  BY <1>1, <1>3
<1>6. /\ q \in Seq(Thread) /\ IsInjective(q)
      /\ ToSet(q) = {x \in S \ {t} : s.priority[x] = p}
  BY <1>1, <1>2, <1>3, <1>4, <1>5, ListRemove
<1>7. PICK m \in SUBSET Prio :
        m = IF q = << >> THEN s.rq_mask \ {p} ELSE s.rq_mask
  BY <1>2
<1>8. scheduler_rq_leave_only(s, t) = WithQueue(s, p, q, m)
  BY <1>1, <1>4, <1>7 DEF scheduler_rq_leave_only, SchedState, WithQueue
<1>9. p \in m <=> q # << >>
  BY <1>3, <1>7
<1>10. \A x \in Prio \ {p} : x \in m <=> x \in s.rq_mask
  BY <1>7
<1>11. PICK T \in SUBSET Thread : T = S \ {t}
  OBVIOUS
<1>12. \A x \in Thread : s.priority[x] # p => (x \in T <=> x \in S)
  BY <1>1, <1>11
<1>13. ToSet(q) = {x \in T : s.priority[x] = p}
  BY <1>6, <1>11
<1>14. /\ WithQueue(s, p, q, m) \in SchedState
       /\ SameButQueues(WithQueue(s, p, q, m), s)
       /\ QueuesHold(WithQueue(s, p, q, m), T)
  <2>1. q \in Seq(Thread) /\ IsInjective(q)
    BY <1>6
  <2> QED
    BY <2>1, <1>9, <1>10, <1>12, <1>13, ReplaceQueue
<1> QED
  BY <1>8, <1>11, <1>14

\* next_thread_pick finds a queued thread of the most urgent priority.
LEMMA PickMostUrgent ==
  ASSUME NEW s \in SchedState, NEW S \in SUBSET Thread, QueuesHold(s, S),
         S # {}
  PROVE  /\ next_thread_pick(s) \in S
         /\ \A t \in S : s.priority[next_thread_pick(s)] =< s.priority[t]
<1>1. /\ s.rq \in [Prio -> Seq(Thread)] /\ s.priority \in [Thread -> Prio]
      /\ s.rq_mask \in SUBSET Prio
  BY DEF SchedState
<1>2. \A t \in S : s.priority[t] \in s.rq_mask
  <2> SUFFICES ASSUME NEW t \in S PROVE s.priority[t] \in s.rq_mask
    OBVIOUS
  <2>1. PICK p \in Prio : p = s.priority[t]
    BY <1>1
  <2>2. t \in ToSet(s.rq[p]) /\ s.rq[p] \in Seq(Thread)
    BY <1>1, <2>1 DEF QueuesHold
  <2>3. s.rq[p] # << >>
    BY <2>2, EmptyList
  <2> QED
    BY <2>1, <2>3 DEF QueuesHold
<1>3. s.rq_mask # {} /\ s.rq_mask \in SUBSET Nat
  BY <1>1, <1>2, SchedulerAssumption DEF Prio
<1>4. PICK p : p = highest_rq_get(s)
  OBVIOUS
<1>5. p \in s.rq_mask /\ \A x \in s.rq_mask : p =< x
  BY <1>3, <1>4, LeastBit DEF highest_rq_get
<1>6. s.rq[p] # << >> /\ ToSet(s.rq[p]) = {t \in S : s.priority[t] = p}
  BY <1>1, <1>5 DEF QueuesHold
<1>7. next_thread_pick(s) = Head(s.rq[p])
  BY <1>3, <1>4, <1>6 DEF next_thread_pick
<1>8. Head(s.rq[p]) \in S /\ s.priority[Head(s.rq[p])] = p
  BY <1>1, <1>5, <1>6, EmptyList
<1> QED
  BY <1>2, <1>5, <1>7, <1>8

\* With nothing queued next_thread_pick finds nothing.
LEMMA PickNone ==
  ASSUME NEW s \in SchedState, QueuesHold(s, {})
  PROVE  next_thread_pick(s) = NULL
<1>1. \A p \in Prio : s.rq[p] \in Seq(Thread) /\ ToSet(s.rq[p]) = {}
  BY DEF SchedState, QueuesHold
<1>2. \A p \in Prio : p \notin s.rq_mask
  BY <1>1, EmptyList DEF QueuesHold
<1> QED
  BY <1>2 DEF SchedState, next_thread_pick

-----------------------------------------------------------------------------
(* The operations on a sound scheduler state.                              *)

\* The current thread exists, the queues hold the runnable threads, and the
\* current thread runs unless it has just blocked, when it must be replaced.
Sound(s) ==
  /\ s \in SchedState
  /\ s.running \in Thread
  /\ QueuesHold(s, Queued(s))
  /\ \A t \in Thread : s.status[t] = TASK_RUNNING => t = s.running
  /\ s.status[s.running] = TASK_RUNNING \/ s.need_schedule

\* A runnable thread more urgent than the current one has asked for a switch.
PreemptionNoted(s) ==
  \A t \in Queued(s) :
    s.priority[t] < s.priority[s.running] => s.need_schedule

\* The pids, and the tables and lists that name all threads, are the same.
SamePids(r, s) ==
  /\ r.pid = s.pid
  /\ r.thread_table = s.thread_table
  /\ r.all_list = s.all_list

\* What no operation but the creation of a thread changes.
SameThreads(r, s) ==
  /\ Created(r) = Created(s)
  /\ r.pg_dir = s.pg_dir
  /\ SamePids(r, s)

\* Who is blocked follows from who has a TCB and who is queued.
LEMMA SameBlocked ==
  ASSUME NEW r \in SchedState, NEW s \in SchedState,
         Created(r) = Created(s), Queued(r) = Queued(s)
  PROVE  \A t \in Thread : r.status[t] = TASK_BLOCKED <=> s.status[t] = TASK_BLOCKED
<1>1. r.status \in [Thread -> Status] /\ s.status \in [Thread -> Status]
  BY DEF SchedState
<1>2. \A t \in Thread :
        /\ r.status[t] = TASK_BLOCKED <=> t \in Created(r) /\ t \notin Queued(r)
        /\ s.status[t] = TASK_BLOCKED <=> t \in Created(s) /\ t \notin Queued(s)
  BY <1>1 DEF Created, Queued, Status, TASK_BLOCKED, TASK_RUNNING, TASK_READY,
              NO_TCB
<1> QED
  BY <1>2

\* scheduler_rq_join and scheduler_rq_jump, of a thread that is in no queue.
LEMMA JoinOrJump ==
  ASSUME NEW s \in SchedState, s.running \in Thread,
         NEW S \in SUBSET Thread, QueuesHold(s, S),
         NEW t \in Thread \ S,
         NEW r, r = scheduler_rq_join(s, t) \/ r = scheduler_rq_jump(s, t)
  PROVE  /\ r \in SchedState
         /\ QueuesHold(r, S \cup {t})
         /\ r.running = s.running /\ r.status = s.status
         /\ r.priority = s.priority /\ r.pg_dir = s.pg_dir /\ SamePids(r, s)
         /\ r.need_schedule = (s.need_schedule
                                 \/ s.priority[s.running] > s.priority[t])
<1>1. PICK u : /\ u = scheduler_rq_join_only(s, t)
                  \/ u = scheduler_rq_jump_only(s, t)
               /\ r = preempt_check(u, t)
  BY DEF scheduler_rq_join, scheduler_rq_jump
<1>2. u \in SchedState /\ SameButQueues(u, s) /\ QueuesHold(u, S \cup {t})
  BY <1>1, JoinOnly, JumpOnly
<1>3. /\ u.running = s.running /\ u.status = s.status
      /\ u.priority = s.priority /\ u.pg_dir = s.pg_dir /\ SamePids(u, s)
      /\ u.need_schedule = s.need_schedule /\ u.need_schedule \in BOOLEAN
  BY <1>2 DEF SameButQueues, SamePids, SchedState
<1>4. CASE u.priority[u.running] > u.priority[t]
  <2>1. r = [u EXCEPT !.need_schedule = TRUE]
    BY <1>1, <1>4 DEF preempt_check
  <2>2. /\ r \in SchedState /\ r.rq = u.rq /\ r.rq_mask = u.rq_mask
        /\ r.running = u.running /\ r.status = u.status
        /\ r.priority = u.priority /\ r.pg_dir = u.pg_dir /\ SamePids(r, u)
        /\ r.need_schedule = TRUE
    BY <1>2, <2>1 DEF SchedState, SamePids
  <2>3. QueuesHold(r, S \cup {t})
    BY <1>2, <2>2, QueuesHoldFrame
  <2> QED
    BY <1>3, <1>4, <2>2, <2>3 DEF SamePids
<1>5. CASE ~(u.priority[u.running] > u.priority[t])
  <2>1. r = u
    BY <1>1, <1>5 DEF preempt_check
  <2> QED
    BY <1>2, <1>3, <1>5, <2>1
<1> QED
  BY <1>4, <1>5

\* What thread_unblock(t) makes of s.
Woken(r, s, t) ==
  /\ Sound(r) /\ PreemptionNoted(r) /\ SameThreads(r, s)
  /\ r.running = s.running
  /\ r.status = [s.status EXCEPT ![t] = TASK_READY]

\* thread_unblock of a blocked thread.
LEMMA UnblockSound ==
  ASSUME NEW s, Sound(s), PreemptionNoted(s),
         NEW t \in Thread, s.status[t] = TASK_BLOCKED,
         NEW r, r = thread_unblock(s, t)
  PROVE  Woken(r, s, t)
<1>1. PICK u : u = [s EXCEPT !.status[t] = TASK_READY]
  OBVIOUS
<1>2. /\ u \in SchedState /\ u.rq = s.rq /\ u.rq_mask = s.rq_mask
      /\ u.running = s.running /\ u.priority = s.priority
      /\ u.pg_dir = s.pg_dir /\ SamePids(u, s) /\ u.need_schedule = s.need_schedule
      /\ u.status = [s.status EXCEPT ![t] = TASK_READY]
  BY <1>1 DEF Sound, SchedState, SamePids, Status
<1>3. /\ s \in SchedState /\ s.status \in [Thread -> Status]
      /\ s.running \in Thread /\ s.need_schedule \in BOOLEAN
      /\ s.priority \in [Thread -> Prio]
  BY DEF Sound, SchedState, SamePids
<1>4. t \notin Queued(s) /\ Queued(u) = Queued(s) \cup {t} /\ Created(u) = Created(s)
  BY <1>2, <1>3 DEF Queued, Created, Status, TASK_RUNNING, TASK_READY,
                    TASK_BLOCKED, NO_TCB
<1>5. QueuesHold(u, Queued(s))
  BY <1>2, QueuesHoldFrame DEF Sound
<1>6. r = scheduler_rq_jump(u, t)
  BY <1>1 DEF thread_unblock
<1>7. /\ r \in SchedState
      /\ QueuesHold(r, Queued(s) \cup {t})
      /\ r.running = u.running /\ r.status = u.status
      /\ r.priority = u.priority /\ r.pg_dir = u.pg_dir /\ SamePids(r, u)
      /\ r.need_schedule = (u.need_schedule
                              \/ u.priority[u.running] > u.priority[t])
  <2>1. Queued(s) \in SUBSET Thread /\ t \in Thread \ Queued(s)
    BY <1>4 DEF Queued
  <2>2. u \in SchedState /\ u.running \in Thread
    BY <1>2, <1>3
  <2>3. PICK S \in SUBSET Thread : S = Queued(s)
    BY <2>1
  <2>4. QueuesHold(u, S) /\ t \in Thread \ S
    BY <1>5, <2>1, <2>3
  <2>5. /\ r \in SchedState
        /\ QueuesHold(r, S \cup {t})
        /\ r.running = u.running /\ r.status = u.status
        /\ r.priority = u.priority /\ r.pg_dir = u.pg_dir /\ SamePids(r, u)
        /\ r.need_schedule = (u.need_schedule
                                \/ u.priority[u.running] > u.priority[t])
    BY ONLY <1>6, <2>2, <2>4, JoinOrJump DEF SamePids
  <2> QED
    BY <2>3, <2>5
<1>8. Queued(r) = Queued(s) \cup {t} /\ Created(r) = Created(s)
  BY <1>4, <1>7 DEF Queued, Created
<1>9. Sound(r)
  <2>1. \A x \in Thread : r.status[x] = TASK_RUNNING => x = r.running
    BY <1>2, <1>3, <1>7 DEF Sound, TASK_READY, TASK_RUNNING
  <2>2. r.status[r.running] = TASK_RUNNING \/ r.need_schedule
    BY <1>2, <1>3, <1>7 DEF Sound, TASK_BLOCKED, TASK_RUNNING
  <2> QED
    BY <1>2, <1>3, <1>7, <1>8, <2>1, <2>2 DEF Sound
<1>10. PreemptionNoted(r)
  <2>1. \A x \in Thread : s.priority[x] \in Nat
    BY <1>3, SchedulerAssumption DEF Prio
  <2> QED
    BY <1>2, <1>3, <1>7, <1>8, <2>1 DEF PreemptionNoted, Queued
<1> QED
  BY <1>2, <1>7, <1>8, <1>9, <1>10 DEF Woken, SameThreads, SamePids

\* What thread_block makes of s, up to the switch.
Asleep(r, s) ==
  /\ Sound(r) /\ PreemptionNoted(r) /\ SameThreads(r, s)
  /\ r.running = s.running
  /\ r.status = [s.status EXCEPT ![s.running] = TASK_BLOCKED]

\* thread_block of the running thread.
LEMMA BlockSound ==
  ASSUME NEW s, Sound(s), s.status[s.running] = TASK_RUNNING,
         NEW r, r = thread_block(s)
  PROVE  Asleep(r, s)
<1>1. PICK u : u = [s EXCEPT !.status[s.running] = TASK_BLOCKED]
  OBVIOUS
<1>2. /\ s \in SchedState /\ s.status \in [Thread -> Status]
      /\ s.running \in Thread /\ QueuesHold(s, Queued(s))
  BY DEF Sound, SchedState, SamePids
<1>3. /\ u \in SchedState /\ u.rq = s.rq /\ u.rq_mask = s.rq_mask
      /\ u.running = s.running /\ u.priority = s.priority
      /\ u.pg_dir = s.pg_dir /\ SamePids(u, s)
      /\ u.status = [s.status EXCEPT ![s.running] = TASK_BLOCKED]
  BY <1>1, <1>2 DEF SchedState, SamePids, Status
<1>4. /\ s.running \in Queued(s) /\ Queued(u) = Queued(s) \ {s.running}
      /\ Created(u) = Created(s) /\ Queued(s) \in SUBSET Thread
  BY <1>2, <1>3 DEF Queued, Created, TASK_RUNNING, TASK_READY,
                    TASK_BLOCKED, NO_TCB
<1>5. QueuesHold(u, Queued(s))
  BY <1>2, <1>3, QueuesHoldFrame
<1>6. PICK v : v = scheduler_rq_leave_only(u, s.running)
  OBVIOUS
<1>7. v \in SchedState /\ SameButQueues(v, u) /\ QueuesHold(v, Queued(u))
  BY <1>3, <1>4, <1>5, <1>6, LeaveOnly
<1>8. r = [v EXCEPT !.need_schedule = TRUE]
  BY <1>1, <1>3, <1>6 DEF thread_block, scheduler_rq_leave
<1>9. /\ r \in SchedState /\ r.rq = v.rq /\ r.rq_mask = v.rq_mask
      /\ r.running = u.running /\ r.priority = v.priority
      /\ r.status = u.status /\ r.pg_dir = u.pg_dir
      /\ SamePids(r, u) /\ r.need_schedule = TRUE
  BY <1>7, <1>8 DEF SchedState, SamePids, SameButQueues
<1>10. Queued(r) = Queued(u) /\ Created(r) = Created(u)
  BY <1>9 DEF Queued, Created
<1>11. QueuesHold(r, Queued(r))
  BY <1>7, <1>9, <1>10, QueuesHoldFrame
<1>12. \A t \in Thread : r.status[t] = TASK_RUNNING => t = r.running
  BY <1>2, <1>3, <1>9 DEF Sound, TASK_BLOCKED, TASK_RUNNING
<1> QED
  BY <1>2, <1>3, <1>4, <1>9, <1>10, <1>11, <1>12
     DEF Asleep, Sound, PreemptionNoted, SameThreads, SamePids

\* A time slice is a number of ticks.
LEMMA TicksNat ==
  ASSUME NEW p \in Prio
  PROVE  ticks_get(p) \in Nat
<1>1. p \in Nat
  BY SchedulerAssumption DEF Prio
<1> QED
  BY <1>1 DEF ticks_get

\* The timer handler, in a running thread.
LEMMA TimerSound ==
  ASSUME NEW s, Sound(s), PreemptionNoted(s),
         NEW r, r = intr_timer_handler(s)
  PROVE  /\ Sound(r) /\ PreemptionNoted(r) /\ SameThreads(r, s)
         /\ r.running = s.running /\ r.status = s.status
<1>1. /\ s \in SchedState /\ s.running \in Thread /\ s.need_schedule \in BOOLEAN
      /\ s.ticks \in [Thread -> Nat] /\ QueuesHold(s, Queued(s))
  BY DEF Sound, SchedState, SamePids
<1>2. /\ r \in SchedState /\ r.rq = s.rq /\ r.rq_mask = s.rq_mask
      /\ r.running = s.running /\ r.status = s.status
      /\ r.priority = s.priority /\ r.pg_dir = s.pg_dir /\ SamePids(r, s)
      /\ s.need_schedule => r.need_schedule
  <2>1. CASE s.ticks[s.running] = 0
    <3>1. r = [s EXCEPT !.need_schedule = TRUE]
      BY <2>1 DEF intr_timer_handler
    <3> QED
      BY <1>1, <3>1 DEF SchedState, SamePids
  <2>2. CASE s.ticks[s.running] # 0
    <3>1. PICK n \in Nat : n = s.ticks[s.running] - 1
      BY <1>1, <2>2
    <3>2. PICK f \in [Thread -> Nat] : f = [s.ticks EXCEPT ![s.running] = n]
      BY <1>1
    <3>3. r = [s EXCEPT !.ticks = f]
      BY <2>2, <3>1, <3>2 DEF intr_timer_handler
    <3>4. r \in SchedState
      BY <1>1, <3>3 DEF SchedState, SamePids
    <3>5. /\ r.rq = s.rq /\ r.rq_mask = s.rq_mask
          /\ r.running = s.running /\ r.status = s.status
          /\ r.priority = s.priority /\ r.pg_dir = s.pg_dir /\ SamePids(r, s)
          /\ r.need_schedule = s.need_schedule
      BY <1>1, <3>3 DEF SchedState, SamePids
    <3> QED
      BY <3>4, <3>5
  <2> QED
    BY <2>1, <2>2
<1>3. Queued(r) = Queued(s) /\ Created(r) = Created(s)
  BY <1>2 DEF Queued, Created
<1>4. QueuesHold(r, Queued(r))
  BY <1>1, <1>2, <1>3, QueuesHoldFrame
<1> QED
  BY <1>1, <1>2, <1>3, <1>4 DEF Sound, PreemptionNoted, SameThreads

\* main_schedule puts a current thread that still runs at the back of the
\* queue of its new priority.
LEMMA RequeueSound ==
  ASSUME NEW s \in SchedState, NEW S \in SUBSET Thread, QueuesHold(s, S),
         NEW cur \in S,
         NEW r, r = requeue(s, cur)
  PROVE  /\ r \in SchedState /\ QueuesHold(r, S)
         /\ r.status = [s.status EXCEPT ![cur] = TASK_READY]
         /\ r.running = s.running /\ r.need_schedule = s.need_schedule
         /\ r.pg_dir = s.pg_dir /\ SamePids(r, s)
<1>1. PICK u : u = scheduler_rq_leave_only(s, cur)
  OBVIOUS
<1>2. u \in SchedState /\ SameButQueues(u, s) /\ QueuesHold(u, S \ {cur})
  BY <1>1, LeaveOnly
<1>3. PICK v : v = thread_prio_change(u, cur)
  OBVIOUS
<1>4. /\ v \in SchedState /\ v.rq = u.rq /\ v.rq_mask = u.rq_mask
      /\ v.status = s.status /\ v.running = s.running
      /\ v.need_schedule = s.need_schedule /\ v.pg_dir = s.pg_dir /\ SamePids(v, s)
      /\ \A t \in S \ {cur} : v.priority[t] = u.priority[t]
  <2>1. PICK n \in Prio : n = (u.priority[cur] + 1) % PRIO_NUM
    <3>1. PICK k : k = u.priority[cur]
      OBVIOUS
    <3>2. k \in Nat
      BY <1>2, <3>1 DEF SchedState, SamePids, Prio
    <3>3. (k + 1) % PRIO_NUM \in Prio
      BY ONLY <3>2, SchedulerAssumption DEF Prio
    <3> QED
      BY <3>1, <3>3
  <2>2. v = [u EXCEPT !.priority[cur] = n]
    BY <1>3, <2>1 DEF thread_prio_change
  <2>3. PICK f \in [Thread -> Prio] : f = [u.priority EXCEPT ![cur] = n]
    BY <1>2 DEF SchedState, SamePids
  <2>4. \A t \in S \ {cur} : f[t] = u.priority[t]
    BY <1>2, <2>3 DEF SchedState, SamePids
  <2>5. v = [u EXCEPT !.priority = f]
    BY <1>2, <2>2, <2>3 DEF SchedState, SamePids
  <2>6. /\ v \in SchedState /\ v.rq = u.rq /\ v.rq_mask = u.rq_mask
        /\ v.priority = f /\ v.status = u.status /\ v.running = u.running
        /\ v.need_schedule = u.need_schedule /\ v.pg_dir = u.pg_dir /\ SamePids(v, u)
    BY <1>2, <2>5 DEF SchedState, SamePids
  <2> QED
    BY <1>2, <2>4, <2>6 DEF SameButQueues, SamePids
<1>5. QueuesHold(v, S \ {cur})
  BY <1>2, <1>4, QueuesHoldFrame
<1>6. PICK w : w = scheduler_rq_join_only(v, cur)
  OBVIOUS
<1>7. w \in SchedState /\ SameButQueues(w, v) /\ QueuesHold(w, S)
  <2>1. S \ {cur} \in SUBSET Thread /\ cur \in Thread \ (S \ {cur})
    OBVIOUS
  <2>2. (S \ {cur}) \cup {cur} = S
    OBVIOUS
  <2> QED
    BY <1>4, <1>5, <1>6, <2>1, <2>2, JoinOnly
<1>8. PICK n \in Nat : n = ticks_get(w.priority[cur])
  <2>1. w.priority[cur] \in Prio
    BY <1>7 DEF SchedState, SamePids
  <2> QED
    BY <2>1, TicksNat
<1>9. r = [w EXCEPT !.ticks[cur] = n, !.status[cur] = TASK_READY]
  BY <1>1, <1>3, <1>6, <1>8 DEF requeue
<1>10. /\ r \in SchedState /\ r.rq = w.rq /\ r.rq_mask = w.rq_mask
       /\ r.priority = w.priority /\ r.pg_dir = w.pg_dir /\ SamePids(r, w)
       /\ r.running = w.running /\ r.need_schedule = w.need_schedule
       /\ r.status = [w.status EXCEPT ![cur] = TASK_READY]
  <2>1. PICK x : x = [w EXCEPT !.ticks[cur] = n]
    OBVIOUS
  <2>2. /\ x \in SchedState /\ x.rq = w.rq /\ x.rq_mask = w.rq_mask
        /\ x.priority = w.priority /\ x.pg_dir = w.pg_dir /\ SamePids(x, w)
        /\ x.running = w.running /\ x.need_schedule = w.need_schedule
        /\ x.status = w.status
    BY <1>7, <2>1 DEF SchedState, SamePids
  <2>3. r = [x EXCEPT !.status[cur] = TASK_READY]
    BY <1>9, <2>1
  <2>4. r \in SchedState
    <3>1. PICK f \in [Thread -> Status] :
            f = [x.status EXCEPT ![cur] = TASK_READY]
      BY <2>2 DEF SchedState, SamePids, Status
    <3>2. r = [x EXCEPT !.status = f]
      BY <2>3, <3>1
    <3> QED
      BY <2>2, <3>2 DEF SchedState, SamePids
  <2>5. /\ r.rq = x.rq /\ r.rq_mask = x.rq_mask
        /\ r.priority = x.priority /\ r.pg_dir = x.pg_dir /\ SamePids(r, x)
        /\ r.running = x.running /\ r.need_schedule = x.need_schedule
        /\ r.status = [x.status EXCEPT ![cur] = TASK_READY]
    BY <2>2, <2>3 DEF SchedState, SamePids
  <2> QED
    BY <2>2, <2>4, <2>5 DEF SamePids
<1>11. QueuesHold(r, S)
  BY <1>7, <1>10, QueuesHoldFrame
<1> QED
  BY <1>4, <1>7, <1>10, <1>11 DEF SameButQueues, SamePids

\* Exactly the current thread, if there is one, is TASK_RUNNING.
RunningMarked(s) ==
  \A t \in Thread : s.status[t] = TASK_RUNNING <=> t = s.running

\* dispatch of the thread next_thread_pick finds, when none is marked running.
LEMMA DispatchSound ==
  ASSUME NEW s \in SchedState, QueuesHold(s, Queued(s)),
         \A t \in Thread : s.status[t] # TASK_RUNNING,
         NEW r, r = dispatch(s, next_thread_pick(s))
  PROVE  /\ r \in SchedState /\ QueuesHold(r, Queued(r)) /\ RunningMarked(r)
         /\ SameThreads(r, s) /\ r.need_schedule = s.need_schedule
         /\ Queued(r) = Queued(s)
         /\ r.running = NULL => Queued(s) = {}
         /\ r.running = NULL \/ r.running \in Queued(r)
         /\ r.running # NULL =>
              \A t \in Queued(r) : r.priority[r.running] =< r.priority[t]
<1>1. CASE Queued(s) = {}
  <2>1. r = [s EXCEPT !.running = NULL]
    BY <1>1, PickNone DEF dispatch
  <2>2. /\ r \in SchedState /\ r.rq = s.rq /\ r.rq_mask = s.rq_mask
        /\ r.status = s.status /\ r.running = NULL
        /\ r.need_schedule = s.need_schedule /\ r.pg_dir = s.pg_dir /\ SamePids(r, s)
    BY <2>1 DEF SchedState, SamePids
  <2>3. Queued(r) = Queued(s) /\ Created(r) = Created(s)
    BY <2>2 DEF Queued, Created
  <2>4. QueuesHold(r, Queued(r))
    BY <1>1, <2>2, <2>3, QueuesHoldFrame
  <2> QED
    BY <1>1, <2>2, <2>3, <2>4, SchedulerAssumption DEF RunningMarked, SameThreads
<1>2. CASE Queued(s) # {}
  <2>1. PICK next : next = next_thread_pick(s)
    OBVIOUS
  <2>2. /\ next \in Queued(s) /\ next \in Thread /\ next # NULL
        /\ \A t \in Queued(s) : s.priority[next] =< s.priority[t]
    <3>1. Queued(s) \in SUBSET Thread
      BY DEF Queued
    <3> QED
      BY <1>2, <2>1, <3>1, PickMostUrgent, SchedulerAssumption
  <2>3. PICK f \in [Thread -> Status] :
          f = [s.status EXCEPT ![next] = TASK_RUNNING]
    BY DEF SchedState, SamePids, Status
  <2>4. r = [s EXCEPT !.running = next, !.status = f]
    BY <2>1, <2>2, <2>3 DEF dispatch, SchedState
  <2>5. r \in SchedState
    BY <2>2, <2>4 DEF SchedState, SamePids
  <2>6. /\ r.rq = s.rq /\ r.rq_mask = s.rq_mask
        /\ r.status = f /\ r.running = next /\ r.priority = s.priority
        /\ r.need_schedule = s.need_schedule /\ r.pg_dir = s.pg_dir /\ SamePids(r, s)
    BY <2>4 DEF SchedState, SamePids
  <2>7. s.status \in [Thread -> Status]
    BY DEF SchedState, SamePids
  <2>8. Queued(r) = Queued(s) /\ Created(r) = Created(s)
    BY <2>2, <2>3, <2>6, <2>7
       DEF Queued, Created, TASK_RUNNING, TASK_READY, NO_TCB
  <2>9. QueuesHold(r, Queued(r))
    BY <2>6, <2>8, QueuesHoldFrame
  <2>10. RunningMarked(r)
    BY <2>2, <2>3, <2>6, <2>7 DEF RunningMarked
  <2> QED
    BY <2>2, <2>5, <2>6, <2>8, <2>9, <2>10 DEF SameThreads, SamePids
<1> QED
  BY <1>1, <1>2

\* What main_schedule makes of s: the queues are right, and the processor goes
\* to a thread of the most urgent priority if a switch was asked for; otherwise
\* nothing changes.  There is no next thread only when none is runnable.
Scheduled(r, s) ==
  /\ r \in SchedState /\ QueuesHold(r, Queued(r)) /\ RunningMarked(r)
  /\ SameThreads(r, s) /\ Queued(r) = Queued(s)
  /\ r.running = NULL => Queued(s) = {}
  /\ r.running = NULL \/ r.running \in Queued(r)
  /\ r.running # NULL => PreemptionNoted(r)
  /\ ~s.need_schedule => r = s
  /\ s.need_schedule /\ r.running # NULL =>
       \A t \in Queued(r) : r.priority[r.running] =< r.priority[t]

\* main_schedule.
LEMMA MainScheduleSound ==
  ASSUME NEW s, Sound(s), PreemptionNoted(s),
         NEW r, r = main_schedule(s)
  PROVE  Scheduled(r, s)
<1>1. /\ s \in SchedState /\ s.running \in Thread /\ s.need_schedule \in BOOLEAN
      /\ QueuesHold(s, Queued(s)) /\ Queued(s) \in SUBSET Thread
      /\ s.status \in [Thread -> Status]
  BY DEF Sound, SchedState, SamePids, Queued
<1>2. CASE ~s.need_schedule
  <2>1. r = s
    BY <1>2 DEF main_schedule
  <2>2. s.status[s.running] = TASK_RUNNING
    BY <1>2 DEF Sound
  <2>3. RunningMarked(s)
    BY <2>2 DEF RunningMarked, Sound
  <2>4. s.running \in Queued(s)
    BY <1>1, <2>2 DEF Queued
  <2> QED
    BY <1>1, <1>2, <2>1, <2>3, <2>4, SchedulerAssumption
       DEF Scheduled, SameThreads, SamePids
<1>3. CASE s.need_schedule
  <2>1. PICK u : u = [s EXCEPT !.need_schedule = FALSE]
    OBVIOUS
  <2>2. /\ u \in SchedState /\ u.rq = s.rq /\ u.rq_mask = s.rq_mask
        /\ u.status = s.status /\ u.running = s.running
        /\ u.priority = s.priority /\ u.pg_dir = s.pg_dir /\ SamePids(u, s)
        /\ u.need_schedule = FALSE
    BY <1>1, <2>1 DEF SchedState, SamePids
  <2>3. QueuesHold(u, Queued(s))
    BY <1>1, <2>2, QueuesHoldFrame
  <2>4. PICK v : v = IF u.status[u.running] = TASK_RUNNING
                     THEN requeue(u, u.running) ELSE u
    OBVIOUS
  <2>5. /\ v \in SchedState /\ QueuesHold(v, Queued(s))
        /\ v.need_schedule = FALSE /\ v.pg_dir = s.pg_dir /\ SamePids(v, s)
        /\ Queued(v) = Queued(s) /\ Created(v) = Created(s)
        /\ \A t \in Thread : v.status[t] # TASK_RUNNING
    <3>1. CASE u.status[u.running] = TASK_RUNNING
      <4>1. v = requeue(u, u.running) /\ u.running \in Queued(s)
        BY <1>1, <2>2, <2>4, <3>1 DEF Queued
      <4>2. /\ v \in SchedState /\ QueuesHold(v, Queued(s))
            /\ v.status = [u.status EXCEPT ![u.running] = TASK_READY]
            /\ v.need_schedule = FALSE /\ v.pg_dir = s.pg_dir /\ SamePids(v, s)
        BY <1>1, <2>2, <2>3, <4>1, RequeueSound DEF SamePids
      <4>3. Queued(v) = Queued(s) /\ Created(v) = Created(s)
        BY <1>1, <2>2, <3>1, <4>2
           DEF Queued, Created, TASK_RUNNING, TASK_READY, NO_TCB
      <4>4. \A t \in Thread : v.status[t] # TASK_RUNNING
        BY <1>1, <2>2, <4>2 DEF Sound, TASK_RUNNING, TASK_READY
      <4> QED
        BY <4>2, <4>3, <4>4
    <3>2. CASE u.status[u.running] # TASK_RUNNING
      <4>1. v = u
        BY <2>4, <3>2
      <4>2. \A t \in Thread : v.status[t] # TASK_RUNNING
        BY <1>1, <2>2, <3>2, <4>1 DEF Sound
      <4>3. Queued(v) = Queued(s) /\ Created(v) = Created(s)
        BY <2>2, <4>1 DEF Queued, Created
      <4> QED
        BY <2>2, <2>3, <4>1, <4>2, <4>3
    <3> QED
      BY <3>1, <3>2
  <2>6. r = dispatch(v, next_thread_pick(v))
    BY <1>3, <2>1, <2>4 DEF main_schedule
  <2>7. /\ r \in SchedState /\ QueuesHold(r, Queued(r)) /\ RunningMarked(r)
        /\ SameThreads(r, v) /\ r.need_schedule = FALSE
        /\ Queued(r) = Queued(v)
        /\ r.running = NULL => Queued(v) = {}
        /\ r.running = NULL \/ r.running \in Queued(r)
        /\ r.running # NULL =>
             \A t \in Queued(r) : r.priority[r.running] =< r.priority[t]
    BY <2>5, <2>6, DispatchSound
  <2>8. r.running # NULL => PreemptionNoted(r)
    <3>1. \A t \in Thread : r.priority[t] \in Nat
      BY <2>7, SchedulerAssumption DEF SchedState, SamePids, Prio
    <3> QED
      BY <2>7, <3>1 DEF PreemptionNoted, Queued
  <2>9. SameThreads(r, s)
    BY <2>5, <2>7 DEF SameThreads, SamePids
  <2> QED
    BY <1>3, <2>5, <2>7, <2>8, <2>9 DEF Scheduled
<1> QED
  BY <1>1, <1>2, <1>3

\* t is given the first free entry of the table, or pid 0 without an entry
\* when there is none.
PidGiven(t, pid, table, newpid, newtable) ==
  IF \A i \in Pid : table[i] # NULL
  THEN newpid = [pid EXCEPT ![t] = 0] /\ newtable = table
  ELSE \E i \in Pid :
         /\ table[i] = NULL
         /\ \A j \in Pid : j < i => table[j] # NULL
         /\ newpid = [pid EXCEPT ![t] = i]
         /\ newtable = [table EXCEPT ![i] = t]

\* pid_alloc touches nothing but the pids.
LEMMA PidAlloc ==
  ASSUME NEW s \in SchedState, NEW t \in Thread,
         NEW r, r = pid_alloc(s, t)
  PROVE  /\ r \in SchedState
         /\ r.rq = s.rq /\ r.rq_mask = s.rq_mask /\ r.running = s.running
         /\ r.need_schedule = s.need_schedule /\ r.status = s.status
         /\ r.priority = s.priority /\ r.pg_dir = s.pg_dir
         /\ PidGiven(t, s.pid, s.thread_table, r.pid, r.thread_table)
         /\ r.all_list = s.all_list
<1>1. PICK free : free = {i \in Pid : s.thread_table[i] = NULL}
  OBVIOUS
<1>2. CASE free = {}
  <2>1. 0 \in Pid
    BY SchedulerAssumption DEF Pid
  <2>2. PICK f \in [Thread -> Pid] : f = [s.pid EXCEPT ![t] = 0]
    BY <2>1 DEF SchedState
  <2>3. r = [s EXCEPT !.pid = f]
    BY <1>1, <1>2, <2>2 DEF pid_alloc
  <2>4. /\ r \in SchedState
        /\ r.rq = s.rq /\ r.rq_mask = s.rq_mask /\ r.running = s.running
        /\ r.need_schedule = s.need_schedule /\ r.status = s.status
        /\ r.priority = s.priority /\ r.pg_dir = s.pg_dir
        /\ r.pid = f /\ r.thread_table = s.thread_table
        /\ r.all_list = s.all_list
    BY <2>3 DEF SchedState
  <2>5. \A i \in Pid : s.thread_table[i] # NULL
    BY <1>1, <1>2
  <2> QED
    BY <2>2, <2>4, <2>5 DEF PidGiven
<1>3. CASE free # {}
  <2>1. free \in SUBSET Nat /\ free \in SUBSET Pid
    BY <1>1, SchedulerAssumption DEF Pid
  <2>2. PICK i \in free : i = Min(free) /\ \A j \in free : i =< j
    BY <1>3, <2>1, LeastBit
  <2>3. PICK f \in [Thread -> Pid] : f = [s.pid EXCEPT ![t] = i]
    BY <2>1 DEF SchedState
  <2>4. PICK g \in [Pid -> Thread \cup {NULL}] :
          g = [s.thread_table EXCEPT ![i] = t]
    BY <2>1 DEF SchedState
  <2>5. r = [s EXCEPT !.pid = f, !.thread_table = g]
    BY <1>1, <1>3, <2>2, <2>3, <2>4 DEF pid_alloc, SchedState
  <2>6. r \in SchedState
    BY <2>5 DEF SchedState
  <2>7. /\ r.rq = s.rq /\ r.rq_mask = s.rq_mask /\ r.running = s.running
        /\ r.need_schedule = s.need_schedule /\ r.status = s.status
        /\ r.priority = s.priority /\ r.pg_dir = s.pg_dir
        /\ r.pid = f /\ r.thread_table = g /\ r.all_list = s.all_list
    BY <2>5, <2>6 DEF SchedState
  <2>8. i \in Pid /\ s.thread_table[i] = NULL
    BY <1>1
  <2>9. \A j \in Pid : j < i => s.thread_table[j] # NULL
    <3> SUFFICES ASSUME NEW j \in Pid, j < i, s.thread_table[j] = NULL
                 PROVE  FALSE
      OBVIOUS
    <3>1. j \in free /\ i \in Nat /\ j \in Nat
      BY <1>1, <2>1
    <3> QED
      BY <2>2, <3>1
  <2> QED
    BY <2>3, <2>4, <2>6, <2>7, <2>8, <2>9 DEF PidGiven
<1> QED
  BY <1>2, <1>3

\* What thread_tcb_init makes of a page that is not yet a TCB.
LEMMA TcbInit ==
  ASSUME NEW s, Sound(s),
         NEW t \in Thread, s.status[t] = NO_TCB, NEW prio \in Prio,
         NEW r, r = thread_tcb_init(s, t, prio)
  PROVE  /\ r \in SchedState /\ QueuesHold(r, Queued(s))
         /\ r.running = s.running /\ r.need_schedule = s.need_schedule
         /\ r.status = [s.status EXCEPT ![t] = TASK_READY]
         /\ r.priority = [s.priority EXCEPT ![t] = prio]
         /\ r.pg_dir = [s.pg_dir EXCEPT ![t] = NULL]
         /\ PidGiven(t, s.pid, s.thread_table, r.pid, r.thread_table)
         /\ r.all_list = s.all_list
<1>1. s \in SchedState /\ QueuesHold(s, Queued(s))
  BY DEF Sound
<1>2. PICK st \in [Thread -> Status] : st = [s.status EXCEPT ![t] = TASK_READY]
  BY <1>1 DEF SchedState, Status
<1>3. PICK pr \in [Thread -> Prio] : pr = [s.priority EXCEPT ![t] = prio]
  BY <1>1 DEF SchedState
<1>4. PICK ti \in [Thread -> Nat] : ti = [s.ticks EXCEPT ![t] = ticks_get(prio)]
  BY <1>1, TicksNat DEF SchedState
<1>5. PICK pg \in [Thread -> Thread \cup {NULL}] :
        pg = [s.pg_dir EXCEPT ![t] = NULL]
  BY <1>1 DEF SchedState
<1>6. PICK u : u = [s EXCEPT !.status = st, !.priority = pr, !.ticks = ti,
                             !.pg_dir = pg]
  OBVIOUS
<1>7. u \in SchedState
  BY <1>1, <1>6 DEF SchedState
<1>8. /\ u.rq = s.rq /\ u.rq_mask = s.rq_mask /\ u.running = s.running
      /\ u.need_schedule = s.need_schedule /\ u.status = st
      /\ u.priority = pr /\ u.pg_dir = pg /\ SamePids(u, s)
  BY <1>1, <1>6 DEF SchedState, SamePids
<1>9. r = pid_alloc(u, t)
  BY <1>1, <1>2, <1>3, <1>4, <1>5, <1>6 DEF thread_tcb_init, SchedState
<1>10. /\ r \in SchedState
       /\ r.rq = u.rq /\ r.rq_mask = u.rq_mask /\ r.running = u.running
       /\ r.need_schedule = u.need_schedule /\ r.status = u.status
       /\ r.priority = u.priority /\ r.pg_dir = u.pg_dir
       /\ PidGiven(t, u.pid, u.thread_table, r.pid, r.thread_table)
       /\ r.all_list = u.all_list
  BY <1>7, <1>9, PidAlloc
<1>11. \A x \in Queued(s) : r.priority[x] = s.priority[x]
  BY <1>1, <1>3, <1>8, <1>10
     DEF Queued, SchedState, TASK_RUNNING, TASK_READY, NO_TCB
<1>12. QueuesHold(r, Queued(s))
  BY <1>1, <1>8, <1>10, <1>11, QueuesHoldFrame
<1>13. /\ PidGiven(t, s.pid, s.thread_table, r.pid, r.thread_table)
       /\ r.all_list = s.all_list
  <2>1. /\ u.pid = s.pid /\ u.thread_table = s.thread_table
        /\ u.all_list = s.all_list
    BY <1>8 DEF SamePids
  <2> QED
    BY <1>10, <2>1, Zenon
<1> QED
  BY <1>2, <1>3, <1>5, <1>8, <1>10, <1>12, <1>13

\* u is s with t made a ready TCB of priority prio, not yet in a queue.
TcbReady(u, s, t, prio) ==
  /\ u \in SchedState /\ QueuesHold(u, Queued(s))
  /\ u.running = s.running /\ u.need_schedule = s.need_schedule
  /\ u.status = [s.status EXCEPT ![t] = TASK_READY]
  /\ u.priority = [s.priority EXCEPT ![t] = prio]

\* Publishing a TCB that is ready and in no queue: the end of thread_run and
\* of process_run.
LEMMA PublishSound ==
  ASSUME NEW s, Sound(s), PreemptionNoted(s),
         s.status[s.running] = TASK_RUNNING,
         NEW t \in Thread, s.status[t] = NO_TCB, NEW prio \in Prio,
         NEW u, TcbReady(u, s, t, prio),
         NEW r, r = publish(u, t)
  PROVE  /\ Sound(r) /\ PreemptionNoted(r)
         /\ Created(r) = Created(s) \cup {t} /\ r.pg_dir = u.pg_dir
         /\ r.running = s.running
         /\ r.status[r.running] = TASK_RUNNING
         /\ r.status = u.status
         /\ r.pid = u.pid /\ r.thread_table = u.thread_table
         /\ r.all_list = Append(u.all_list, t)
<1> USE DEF TcbReady
<1>1. /\ s \in SchedState /\ s.running \in Thread /\ s.need_schedule \in BOOLEAN
      /\ s.status \in [Thread -> Status] /\ s.priority \in [Thread -> Prio]
      /\ Queued(s) \in SUBSET Thread /\ t \notin Queued(s) /\ s.running # t
  BY DEF Sound, SchedState, Queued, TASK_RUNNING, TASK_READY, NO_TCB
<1>2. PICK v : v = scheduler_rq_join(u, t)
  OBVIOUS
<1>3. /\ v \in SchedState
      /\ QueuesHold(v, Queued(s) \cup {t})
      /\ v.running = u.running /\ v.status = u.status
      /\ v.priority = u.priority /\ v.pg_dir = u.pg_dir /\ SamePids(v, u)
      /\ v.need_schedule = (u.need_schedule
                              \/ u.priority[u.running] > u.priority[t])
  <2>1. PICK S \in SUBSET Thread : S = Queued(s)
    BY <1>1
  <2>2. u.running \in Thread /\ t \in Thread \ S /\ QueuesHold(u, S)
    BY <1>1, <2>1
  <2>3. /\ u \in SchedState
        /\ v = scheduler_rq_join(u, t) \/ v = scheduler_rq_jump(u, t)
    BY <1>2
  <2>4. /\ v \in SchedState
        /\ QueuesHold(v, S \cup {t})
        /\ v.running = u.running /\ v.status = u.status
        /\ v.priority = u.priority /\ v.pg_dir = u.pg_dir /\ SamePids(v, u)
        /\ v.need_schedule = (u.need_schedule
                                \/ u.priority[u.running] > u.priority[t])
    BY ONLY <2>2, <2>3, JoinOrJump, Zenon
  <2> QED
    BY <2>1, <2>4
<1>4. PICK a \in Seq(Thread) : a = list_push_back(v.all_list, t)
  <2>1. v.all_list \in Seq(Thread)
    BY <1>3 DEF SchedState
  <2>2. Append(v.all_list, t) \in Seq(Thread)
    BY <2>1
  <2> QED
    BY <2>2 DEF list_push_back
<1>5. r = [v EXCEPT !.all_list = a]
  BY <1>2, <1>4 DEF publish
<1>6. r \in SchedState
  BY <1>3, <1>5 DEF SchedState
<1>7. /\ r.rq = v.rq /\ r.rq_mask = v.rq_mask /\ r.running = v.running
      /\ r.status = v.status /\ r.priority = v.priority
      /\ r.pg_dir = v.pg_dir /\ r.need_schedule = v.need_schedule
      /\ r.pid = v.pid /\ r.thread_table = v.thread_table /\ r.all_list = a
  BY <1>3, <1>5 DEF SchedState
<1>8. Queued(r) = Queued(s) \cup {t} /\ Created(r) = Created(s) \cup {t}
  BY <1>1, <1>3, <1>7 DEF Queued, Created, TASK_RUNNING, TASK_READY, NO_TCB
<1>9. QueuesHold(r, Queued(r))
  BY <1>3, <1>7, <1>8, QueuesHoldFrame
<1>10. \A x \in Thread : r.status[x] = TASK_RUNNING => x = r.running
  BY <1>1, <1>3, <1>7 DEF Sound, TASK_RUNNING, TASK_READY
<1>11. r.status[r.running] = TASK_RUNNING
  BY <1>1, <1>3, <1>7
<1>12. PreemptionNoted(r)
  <2>1. /\ r.priority = [s.priority EXCEPT ![t] = prio] /\ r.running = s.running
        /\ r.need_schedule = (s.need_schedule \/ s.priority[s.running] > prio)
    BY <1>1, <1>3, <1>7
  <2>2. prio \in Nat /\ \A x \in Thread : s.priority[x] \in Nat
    BY <1>1, SchedulerAssumption DEF Prio
  <2> SUFFICES ASSUME NEW x \in Queued(r),
                      r.priority[x] < r.priority[r.running]
               PROVE  r.need_schedule
    BY DEF PreemptionNoted
  <2>3. r.priority[r.running] = s.priority[s.running]
    BY <1>1, <2>1
  <2>4. CASE x = t
    BY <1>1, <2>1, <2>2, <2>3, <2>4
  <2>5. CASE x # t
    <3>1. x \in Queued(s) /\ r.priority[x] = s.priority[x]
      BY <1>1, <1>8, <2>1, <2>5
    <3> QED
      BY <2>1, <2>3, <3>1 DEF PreemptionNoted
  <2> QED
    BY <2>4, <2>5
<1>13. /\ r.pid = u.pid /\ r.thread_table = u.thread_table
       /\ r.all_list = Append(u.all_list, t) /\ r.status = u.status
  BY <1>3, <1>4, <1>7 DEF SamePids, list_push_back
<1> QED
  BY <1>1, <1>3, <1>6, <1>7, <1>8, <1>9, <1>10, <1>11, <1>12, <1>13 DEF Sound

\* What thread_run and process_run make of s: t has a TCB.
Spawned(r, s, t) ==
  /\ Sound(r) /\ PreemptionNoted(r)
  /\ Created(r) = Created(s) \cup {t}
  /\ \A x \in Thread \ {t} : r.pg_dir[x] = s.pg_dir[x]
  /\ r.running = s.running
  /\ r.status[r.running] = TASK_RUNNING
  /\ r.status = [s.status EXCEPT ![t] = TASK_READY]
  /\ PidGiven(t, s.pid, s.thread_table, r.pid, r.thread_table)
  /\ r.all_list = Append(s.all_list, t)

\* thread_run and process_run of a page that is not yet a TCB.
LEMMA CreateSound ==
  ASSUME NEW s, Sound(s), PreemptionNoted(s),
         s.status[s.running] = TASK_RUNNING,
         NEW t \in Thread, s.status[t] = NO_TCB, NEW prio \in Prio,
         NEW r, r = thread_run(s, t, prio) \/ r = process_run(s, t)
  PROVE  Spawned(r, s, t)
<1>1. s.pg_dir \in [Thread -> Thread \cup {NULL}]
  BY DEF Sound, SchedState
<1>2. CASE r = thread_run(s, t, prio)
  <2>1. PICK u : u = thread_tcb_init(s, t, prio)
    OBVIOUS
  <2>2. /\ u \in SchedState /\ QueuesHold(u, Queued(s))
        /\ u.running = s.running /\ u.need_schedule = s.need_schedule
        /\ u.status = [s.status EXCEPT ![t] = TASK_READY]
        /\ u.priority = [s.priority EXCEPT ![t] = prio]
        /\ u.pg_dir = [s.pg_dir EXCEPT ![t] = NULL]
        /\ PidGiven(t, s.pid, s.thread_table, u.pid, u.thread_table)
        /\ u.all_list = s.all_list
    BY <2>1, TcbInit
  <2>3. r = publish(u, t)
    BY <1>2, <2>1 DEF thread_run
  <2>4. /\ Sound(r) /\ PreemptionNoted(r)
        /\ Created(r) = Created(s) \cup {t} /\ r.pg_dir = u.pg_dir
        /\ r.running = s.running
        /\ r.status[r.running] = TASK_RUNNING /\ r.status = u.status
        /\ r.pid = u.pid /\ r.thread_table = u.thread_table
        /\ r.all_list = Append(u.all_list, t)
    <3>1. TcbReady(u, s, t, prio)
      BY <2>2 DEF TcbReady
    <3> QED
      BY <2>3, <3>1, PublishSound
  <2> QED
    BY <1>1, <2>2, <2>4 DEF Spawned
<1>3. CASE r = process_run(s, t)
  <2>1. PICK p \in Prio : p = PRIO_NUM - 1
    BY SchedulerAssumption DEF Prio
  <2>2. PICK u : u = thread_tcb_init(s, t, p)
    OBVIOUS
  <2>3. /\ u \in SchedState /\ QueuesHold(u, Queued(s))
        /\ u.running = s.running /\ u.need_schedule = s.need_schedule
        /\ u.status = [s.status EXCEPT ![t] = TASK_READY]
        /\ u.priority = [s.priority EXCEPT ![t] = p]
        /\ u.pg_dir = [s.pg_dir EXCEPT ![t] = NULL]
        /\ PidGiven(t, s.pid, s.thread_table, u.pid, u.thread_table)
        /\ u.all_list = s.all_list
    BY <2>2, TcbInit
  <2>4. PICK f \in [Thread -> Thread \cup {NULL}] : f = [u.pg_dir EXCEPT ![t] = t]
    BY <2>3 DEF SchedState
  <2>5. PICK v : v = [u EXCEPT !.pg_dir = f]
    OBVIOUS
  <2>6. /\ v \in SchedState /\ v.rq = u.rq /\ v.rq_mask = u.rq_mask
        /\ v.running = s.running /\ v.need_schedule = s.need_schedule
        /\ v.status = [s.status EXCEPT ![t] = TASK_READY]
        /\ v.priority = u.priority /\ v.pg_dir = f /\ SamePids(v, u)
    BY <2>3, <2>5 DEF SchedState, SamePids
  <2>7. QueuesHold(v, Queued(s))
    BY <2>3, <2>6, QueuesHoldFrame
  <2>8. r = publish(v, t)
    BY <1>3, <2>1, <2>2, <2>4, <2>5 DEF process_run
  <2>9. /\ Sound(r) /\ PreemptionNoted(r)
        /\ Created(r) = Created(s) \cup {t} /\ r.pg_dir = v.pg_dir
        /\ r.running = s.running
        /\ r.status[r.running] = TASK_RUNNING /\ r.status = v.status
        /\ r.pid = v.pid /\ r.thread_table = v.thread_table
        /\ r.all_list = Append(v.all_list, t)
    <3>1. TcbReady(v, s, t, p)
      BY <2>3, <2>6, <2>7 DEF TcbReady
    <3> QED
      BY <2>8, <3>1, PublishSound
  <2>10. \A x \in Thread \ {t} : r.pg_dir[x] = s.pg_dir[x]
    BY <1>1, <2>3, <2>4, <2>6, <2>9
  <2>11. /\ PidGiven(t, s.pid, s.thread_table, r.pid, r.thread_table)
         /\ r.all_list = Append(s.all_list, t)
    <3>1. /\ v.pid = u.pid /\ v.thread_table = u.thread_table
          /\ v.all_list = u.all_list
      BY <2>6 DEF SamePids
    <3> QED
      BY <2>3, <2>9, <3>1, Zenon
  <2> QED
    BY <2>6, <2>9, <2>10, <2>11 DEF Spawned
<1> QED
  BY <1>2, <1>3

\* all_list names the threads in the order of their creation; the i-th has pid
\* i - 1 and that entry of thread_table, or pid 0 and none when it is full.
PidsExact(s) ==
  /\ IsInjective(s.all_list) /\ ToSet(s.all_list) = Created(s)
  /\ \A i \in DOMAIN s.all_list :
       s.pid[s.all_list[i]] = IF i <= MAX_THREAD_NUM THEN i - 1 ELSE 0
  /\ \A i \in Pid :
       s.thread_table[i] = IF i < Len(s.all_list) THEN s.all_list[i + 1] ELSE NULL

\* An operation that creates no thread keeps the pids exact.
LEMMA PidsFrame ==
  ASSUME NEW r, NEW s, PidsExact(s), SameThreads(r, s)
  PROVE  PidsExact(r)
  BY DEF PidsExact, SameThreads, SamePids

\* So does a creation.
LEMMA PidsKept ==
  ASSUME NEW s \in SchedState, PidsExact(s),
         NEW t \in Thread, NEW r \in SchedState,
         PidGiven(t, s.pid, s.thread_table, r.pid, r.thread_table),
         r.all_list = Append(s.all_list, t),
         Created(r) = Created(s) \cup {t}, t \notin Created(s)
  PROVE  PidsExact(r)
<1>1. /\ s.pid \in [Thread -> Pid]
      /\ s.thread_table \in [Pid -> Thread \cup {NULL}]
      /\ s.all_list \in Seq(Thread)
  BY DEF SchedState
<1>2. PICK n \in Nat : /\ n = Len(s.all_list) /\ Len(r.all_list) = n + 1
                       /\ DOMAIN s.all_list = 1 .. n /\ DOMAIN r.all_list = 1 .. n + 1
                       /\ \A i \in 1 .. n : r.all_list[i] = s.all_list[i]
                       /\ r.all_list[n + 1] = t
  <2>1. PICK l \in Seq(Thread) : l = s.all_list
    BY <1>1
  <2>2. PICK m \in Nat : m = Len(l)
    OBVIOUS
  <2>3. /\ Len(Append(l, t)) = m + 1
        /\ DOMAIN l = 1 .. m /\ DOMAIN Append(l, t) = 1 .. m + 1
        /\ \A i \in 1 .. m : Append(l, t)[i] = l[i]
        /\ Append(l, t)[m + 1] = t
    BY <2>2
  <2> QED  BY <2>1, <2>2, <2>3
<1>3. /\ \A i \in 1 .. n : s.pid[s.all_list[i]] = IF i <= MAX_THREAD_NUM THEN i - 1 ELSE 0
      /\ \A i \in Pid : s.thread_table[i] = IF i < n THEN s.all_list[i + 1] ELSE NULL
      /\ ToSet(s.all_list) = Created(s) /\ IsInjective(s.all_list)
  BY <1>2 DEF PidsExact
<1>4. \A i \in Nat : i \in Pid <=> i < MAX_THREAD_NUM
  BY SchedulerAssumption DEF Pid
<1>5. \A i \in Pid : i \in Nat
  BY SchedulerAssumption DEF Pid
<1>6. IsInjective(r.all_list) /\ ToSet(r.all_list) = Created(r)
  <2>1. t \notin ToSet(s.all_list) /\ r.all_list = list_push_back(s.all_list, t)
    BY <1>3 DEF list_push_back
  <2> QED  BY <1>1, <1>3, <2>1, PushBack
<1>7. \A i \in 1 .. n : s.all_list[i] \in Thread /\ s.all_list[i] # t
  <2>1. \A i \in 1 .. n : s.all_list[i] \in ToSet(s.all_list)
    BY <1>2 DEF ToSet
  <2> QED  BY <1>1, <1>2, <1>3, <2>1
<1>8. \A i \in 1 .. n : s.all_list[i] # NULL
  BY <1>7, SchedulerAssumption
<1>9. /\ r.pid[t] = IF n < MAX_THREAD_NUM THEN n ELSE 0
      /\ \A i \in 1 .. n : r.pid[s.all_list[i]] = s.pid[s.all_list[i]]
      /\ \A i \in Pid : r.thread_table[i] = IF i = n THEN t ELSE s.thread_table[i]
  <2>1. CASE n < MAX_THREAD_NUM
    <3>1. n \in Pid /\ s.thread_table[n] = NULL
      BY <1>3, <1>4, <2>1
    <3>2. PICK i \in Pid :
            /\ s.thread_table[i] = NULL
            /\ \A j \in Pid : j < i => s.thread_table[j] # NULL
            /\ r.pid = [s.pid EXCEPT ![t] = i]
            /\ r.thread_table = [s.thread_table EXCEPT ![i] = t]
      BY <3>1, Zenon DEF PidGiven
    <3>3. ~(n < i)
      BY <3>1, <3>2
    <3>4. ~(i < n)
      <4>1. i \in Nat
        BY <1>5
      <4>2. i < n => s.thread_table[i] = s.all_list[i + 1] /\ i + 1 \in 1 .. n
        BY <1>3, <4>1
      <4> QED  BY <1>8, <3>2, <4>2
    <3>5. i = n
      BY <1>5, <3>3, <3>4
    <3> QED  BY <1>1, <1>7, <2>1, <3>2, <3>5
  <2>2. CASE ~(n < MAX_THREAD_NUM)
    <3>1. ASSUME NEW i \in Pid PROVE s.thread_table[i] # NULL /\ i # n
      <4>1. i \in Nat /\ i < n
        BY <1>4, <1>5, <2>2, SchedulerAssumption
      <4>2. i + 1 \in 1 .. n /\ s.thread_table[i] = s.all_list[i + 1]
        BY <1>3, <4>1
      <4> QED  BY <1>8, <4>1, <4>2
    <3>2. r.pid = [s.pid EXCEPT ![t] = 0] /\ r.thread_table = s.thread_table
      BY <3>1, Zenon DEF PidGiven
    <3> QED  BY <1>1, <1>7, <2>2, <3>1, <3>2
  <2> QED  BY <2>1, <2>2
<1>10. ASSUME NEW i \in 1 .. n + 1
       PROVE  r.pid[r.all_list[i]] = IF i <= MAX_THREAD_NUM THEN i - 1 ELSE 0
  <2>1. CASE i = n + 1
    BY <1>2, <1>9, <2>1, SchedulerAssumption
  <2>2. CASE i \in 1 .. n
    BY <1>2, <1>3, <1>9, <2>2
  <2>3. i \in 1 .. n \/ i = n + 1
    OBVIOUS
  <2> QED  BY <2>1, <2>2, <2>3
<1>11. ASSUME NEW i \in Pid
       PROVE  r.thread_table[i] = IF i < n + 1 THEN r.all_list[i + 1] ELSE NULL
  <2>1. i \in Nat
    BY <1>5
  <2>2. ASSUME i = n
        PROVE  r.thread_table[i] = r.all_list[i + 1] /\ i < n + 1
    BY <1>2, <1>9, <2>2
  <2>3. ASSUME i < n
        PROVE  r.thread_table[i] = r.all_list[i + 1] /\ i < n + 1
    <3>1. i + 1 \in 1 .. n /\ i < n + 1 /\ i # n
      BY <2>1, <2>3
    <3>2. r.thread_table[i] = s.all_list[i + 1]
      BY <1>3, <1>9, <2>3, <3>1
    <3> QED  BY <1>2, <3>1, <3>2
  <2>4. ASSUME n < i
        PROVE  r.thread_table[i] = NULL /\ ~(i < n + 1)
    <3>1. ~(i < n) /\ ~(i < n + 1) /\ i # n
      BY <2>1, <2>4
    <3> QED  BY <1>3, <1>9, <3>1
  <2>5. i < n \/ i = n \/ n < i
    BY <2>1
  <2> QED  BY <2>2, <2>3, <2>4, <2>5
<1> QED  BY <1>2, <1>6, <1>10, <1>11 DEF PidsExact

\* The state in which thread_all_init leaves the scheduler.
LEMMA InitSound ==
  /\ Sound(thread_all_init) /\ PreemptionNoted(thread_all_init)
  /\ thread_all_init.running = idle
  /\ thread_all_init.status[idle] = TASK_RUNNING
  /\ Created(thread_all_init) = {idle}
  /\ \A t \in Thread : thread_all_init.pg_dir[t] = NULL
  /\ PidsExact(thread_all_init)
<1>1. PICK s : s = thread_all_init
  OBVIOUS
<1>2. PICK low \in Prio : low = PRIO_NUM - 1
  BY SchedulerAssumption DEF Prio
<1>3. ticks_get(low) \in Nat /\ 0 \in Prio /\ 0 \in Pid
  BY TicksNat, SchedulerAssumption DEF Prio, Pid
<1>4. /\ s.running = idle /\ s.need_schedule = FALSE
      /\ s.rq = [p \in Prio |-> IF p = low THEN <<idle>> ELSE << >>]
      /\ s.rq_mask = {low}
      /\ s.status = [t \in Thread |-> IF t = idle THEN TASK_RUNNING ELSE NO_TCB]
      /\ s.priority = [t \in Thread |-> IF t = idle THEN low ELSE 0]
      /\ s.pg_dir = [t \in Thread |-> NULL]
  BY <1>1, <1>2 DEF thread_all_init
<1>5. s \in SchedState
  BY <1>1, <1>2, <1>3, SchedulerAssumption
     DEF thread_all_init, SchedState, Status
<1>6. Queued(s) = {idle} /\ Created(s) = {idle}
  BY <1>4, SchedulerAssumption
     DEF Queued, Created, TASK_RUNNING, TASK_READY, NO_TCB
<1>7. QueuesHold(s, Queued(s))
  <2> SUFFICES ASSUME NEW p \in Prio
               PROVE  /\ IsInjective(s.rq[p])
                      /\ ToSet(s.rq[p]) = {t \in {idle} : s.priority[t] = p}
                      /\ p \in s.rq_mask <=> s.rq[p] # << >>
    BY <1>6 DEF QueuesHold
  <2>1. CASE p = low
    <3>1. s.rq[p] = <<idle>> /\ s.priority[idle] = p /\ p \in s.rq_mask
      BY <1>4, <2>1, SchedulerAssumption
    <3>2. ToSet(<<idle>>) = {idle} /\ IsInjective(<<idle>>) /\ <<idle>> # << >>
      BY DEF ToSet, IsInjective
    <3> QED
      BY <3>1, <3>2
  <2>2. CASE p # low
    <3>1. s.rq[p] = << >> /\ s.priority[idle] # p /\ p \notin s.rq_mask
      BY <1>4, <2>2, SchedulerAssumption
    <3>2. ToSet(<< >>) = {} /\ IsInjective(<< >>)
      BY DEF ToSet, IsInjective
    <3> QED
      BY <3>1, <3>2
  <2> QED
    BY <2>1, <2>2
<1>8. Sound(s)
  BY <1>4, <1>5, <1>7, SchedulerAssumption DEF Sound, TASK_RUNNING, NO_TCB
<1>9. PreemptionNoted(s)
  <2>1. low \in Nat
    BY SchedulerAssumption DEF Prio
  <2>2. s.priority[idle] = low /\ ~(low < low)
    BY <1>4, <2>1, SchedulerAssumption
  <2> QED
    BY <1>4, <1>6, <2>2 DEF PreemptionNoted
<1>10. PidsExact(s)
  <2>1. /\ s.pid = [t \in Thread |-> 0] /\ s.all_list = <<idle>>
        /\ s.thread_table = [i \in Pid |-> IF i = 0 THEN idle ELSE NULL]
    BY <1>1 DEF thread_all_init
  <2>2. /\ Len(s.all_list) = 1 /\ DOMAIN s.all_list = {1} /\ s.all_list[1] = idle
        /\ \A i \in Pid : (i < 1 <=> i = 0) /\ (i = 0 => i + 1 = 1)
    BY <2>1, SchedulerAssumption DEF Pid
  <2>3. IsInjective(s.all_list) /\ ToSet(s.all_list) = {idle}
    BY <2>2 DEF IsInjective, ToSet
  <2>4. s.pid[idle] = 0 /\ 1 <= MAX_THREAD_NUM
    BY <2>1, SchedulerAssumption
  <2> QED
    BY <1>6, <2>1, <2>2, <2>3, <2>4 DEF PidsExact
<1> QED
  BY <1>1, <1>4, <1>6, <1>8, <1>9, <1>10, SchedulerAssumption

-----------------------------------------------------------------------------
(* The processor and the kernel stacks                                     *)

Cpu == [intr : {INTR_ON, INTR_OFF}, cr3 : Thread \cup {NULL},
        esp0 : Thread \cup {NULL}]

\* Every thread but the running one has one live frame, the one in stack_top:
\* an ALL frame if it was interrupted in its own code, that is, in the set
\* code, and a FAST frame otherwise.
ContextsLive(s, stk, top, code) ==
  \A t \in Created(s) :
    IF t = s.running THEN stk[t] = << >>
    ELSE /\ stk[t] = IF t \in code THEN <<"ALL">> ELSE <<"FAST">>
         /\ top[t] = 1

\* The inductive invariant of the machine, on the values of its variables and
\* the set of the threads that are in their own code.  It only stops for want
\* of a runnable thread; as long as it runs, the running thread exists, has no
\* frame on its kernel stack, is in its own code if interrupts are on, and is
\* in its own address space.
MachineOK(s, c, stk, top, f, code) ==
  /\ s \in SchedState /\ c \in Cpu
  /\ stk \in [Thread -> Seq(Frame)] /\ top \in [Thread -> Nat]
  /\ QueuesHold(s, Queued(s)) /\ RunningMarked(s) /\ PidsExact(s)
  /\ f \in {"none", "no_thread"} /\ (f = "no_thread" => s.running = NULL)
  /\ f = "none" =>
       /\ s.running \in Thread /\ PreemptionNoted(s)
       /\ ContextsLive(s, stk, top, code)
       /\ s.running \notin code => c.intr = INTR_OFF
       /\ c.cr3 = s.pg_dir[s.running]
       /\ s.pg_dir[s.running] # NULL => c.esp0 = s.running

\* The machine with nobody in its own code but possibly the threads in code.
MachineInv(code) == MachineOK(sched, cpu, stack, stack_top, fault, code)

\* While code runs the scheduler state is one the operations start from.
LEMMA RunningSound ==
  ASSUME NEW code, MachineInv(code), fault = "none"
  PROVE  /\ Sound(sched) /\ PreemptionNoted(sched)
         /\ running \in Thread /\ sched.status[running] = TASK_RUNNING
         /\ running \in Created(sched) /\ running \in Queued(sched)
<1>1. running \in Thread /\ sched.status[running] = TASK_RUNNING
  BY DEF MachineInv, MachineOK, RunningMarked, running
<1> QED
  BY <1>1 DEF MachineInv, MachineOK, RunningMarked, Sound, running, Created,
              Queued, TASK_RUNNING, NO_TCB

\* The initial state.
LEMMA MachineStart ==
  ASSUME MachineInit, NEW code
  PROVE  MachineInv(code)
<1>1. /\ sched = thread_all_init
      /\ cpu = [intr |-> INTR_OFF, cr3 |-> NULL, esp0 |-> NULL]
      /\ stack = [t \in Thread |-> << >>]
      /\ stack_top = [t \in Thread |-> 0]
      /\ fault = "none"
  BY DEF MachineInit
<1>2. /\ Sound(sched) /\ PreemptionNoted(sched) /\ sched.running = idle
      /\ sched.status[idle] = TASK_RUNNING /\ Created(sched) = {idle}
      /\ \A t \in Thread : sched.pg_dir[t] = NULL
      /\ PidsExact(sched)
  BY <1>1, InitSound
<1>3. cpu \in Cpu /\ cpu.intr = INTR_OFF /\ cpu.cr3 = NULL
  BY <1>1 DEF Cpu
<1>4. RunningMarked(sched) /\ sched \in SchedState
      /\ QueuesHold(sched, Queued(sched)) /\ sched.running \in Thread
  BY <1>2 DEF RunningMarked, Sound
<1>5. ContextsLive(sched, stack, stack_top, code)
  BY <1>1, <1>2, SchedulerAssumption DEF ContextsLive
<1>6. stack \in [Thread -> Seq(Frame)] /\ stack_top \in [Thread -> Nat]
  BY <1>1
<1> QED
  BY <1>1, <1>2, <1>3, <1>4, <1>5, <1>6 DEF MachineInv, MachineOK

\* The machine after an operation, with code' the threads in their own code.
Stepped(code) == MachineOK(sched', cpu', stack', stack_top', fault', code)

\* Creating a thread, in the running thread.
LEMMA MachineSpawn ==
  ASSUME NEW code, MachineInv(code), fault = "none",
         NEW t \in Thread, t \notin Created(sched), NEW prio \in Prio,
         \/ sched' = thread_run(sched, t, prio)
         \/ sched' = process_run(sched, t),
         thread_stack_init(t), UNCHANGED <<cpu, fault>>,
         NEW code2, code2 = code \ {t}
  PROVE  Stepped(code2) /\ Spawned(sched', sched, t)
<1>1. /\ Sound(sched) /\ PreemptionNoted(sched) /\ running \in Thread
      /\ sched.status[sched.running] = TASK_RUNNING /\ running \in Created(sched)
  BY RunningSound DEF running
<1>2. sched.status[t] = NO_TCB /\ t # sched.running
  BY <1>1 DEF Created, running
<1>3. Spawned(sched', sched, t)
  <2>1. PICK r : r = sched'
    OBVIOUS
  <2>2. r = thread_run(sched, t, prio) \/ r = process_run(sched, t)
    BY <2>1
  <2>3. Spawned(r, sched, t)
    BY <1>1, <1>2, <2>2, CreateSound
  <2> QED
    BY <2>1, <2>3
<1>4. /\ Sound(sched') /\ PreemptionNoted(sched')
      /\ Created(sched') = Created(sched) \cup {t}
      /\ \A x \in Thread \ {t} : sched'.pg_dir[x] = sched.pg_dir[x]
      /\ sched'.running = sched.running
      /\ sched'.status[sched'.running] = TASK_RUNNING
      /\ PidGiven(t, sched.pid, sched.thread_table, sched'.pid,
                  sched'.thread_table)
      /\ sched'.all_list = Append(sched.all_list, t)
  BY <1>3 DEF Spawned
<1>5. /\ sched \in SchedState /\ cpu \in Cpu
      /\ stack \in [Thread -> Seq(Frame)] /\ stack_top \in [Thread -> Nat]
      /\ PidsExact(sched) /\ ContextsLive(sched, stack, stack_top, code)
      /\ sched.running \notin code => cpu.intr = INTR_OFF
      /\ cpu.cr3 = sched.pg_dir[sched.running]
      /\ sched.pg_dir[sched.running] # NULL => cpu.esp0 = sched.running
  BY DEF MachineInv, MachineOK
<1>6. /\ stack' = [stack EXCEPT ![t] = <<"FAST">>]
      /\ stack_top' = [stack_top EXCEPT ![t] = 1]
  BY DEF thread_stack_init
<1>7. stack' \in [Thread -> Seq(Frame)] /\ stack_top' \in [Thread -> Nat]
  <2>1. <<"FAST">> \in Seq(Frame)
    BY DEF Frame
  <2> QED
    BY <1>5, <1>6, <2>1
<1>8. PidsExact(sched')
  <2>1. PICK r \in SchedState : r = sched'
    BY <1>4 DEF Sound
  <2>2. /\ PidGiven(t, sched.pid, sched.thread_table, r.pid, r.thread_table)
        /\ r.all_list = Append(sched.all_list, t)
        /\ Created(r) = Created(sched) \cup {t}
    BY <1>4, <2>1
  <2>3. PidsExact(r)
    BY <1>5, <2>2, PidsKept
  <2> QED
    BY <2>1, <2>3
<1>9. ContextsLive(sched', stack', stack_top', code2)
  <2> SUFFICES ASSUME NEW x \in Created(sched')
               PROVE  IF x = sched.running THEN stack'[x] = << >>
                      ELSE /\ stack'[x] = IF x \in code2 THEN <<"ALL">>
                                                         ELSE <<"FAST">>
                           /\ stack_top'[x] = 1
    BY <1>4 DEF ContextsLive
  <2>1. CASE x = t
    BY <1>2, <1>5, <1>6, <2>1
  <2>2. CASE x # t
    <3>1. x \in Created(sched) /\ x \in Thread /\ (x \in code2 <=> x \in code)
      BY <1>4, <2>2 DEF Created
    <3>2. stack'[x] = stack[x] /\ stack_top'[x] = stack_top[x]
      BY <1>5, <1>6, <2>2, <3>1
    <3> QED
      BY <1>5, <3>1, <3>2 DEF ContextsLive
  <2> QED
    BY <2>1, <2>2
<1>10. RunningMarked(sched') /\ sched' \in SchedState
       /\ QueuesHold(sched', Queued(sched')) /\ sched'.running \in Thread
  BY <1>4 DEF Sound, RunningMarked
<1>11. /\ cpu'.cr3 = sched'.pg_dir[sched'.running]
       /\ sched'.pg_dir[sched'.running] # NULL => cpu'.esp0 = sched'.running
       /\ sched'.running \notin code2 => cpu'.intr = INTR_OFF
  BY <1>1, <1>2, <1>4, <1>5 DEF running
<1> QED
  BY <1>3, <1>4, <1>5, <1>7, <1>8, <1>9, <1>10, <1>11 DEF Stepped, MachineOK

\* The running thread, in its own code or on its way into it, sets the
\* interrupt flag.
LEMMA MachineIntr ==
  ASSUME NEW code, MachineInv(code), fault = "none",
         NEW i \in {INTR_ON, INTR_OFF}, IntrSetStatus(i),
         UNCHANGED <<sched, stack, stack_top, fault>>,
         NEW code2, code2 = code \cup {running}
  PROVE  Stepped(code2)
<1>1. running \in Thread
  BY RunningSound
<1>2. cpu' \in Cpu /\ cpu'.cr3 = cpu.cr3 /\ cpu'.esp0 = cpu.esp0
  BY DEF MachineInv, MachineOK, IntrSetStatus, Cpu
<1>3. ContextsLive(sched, stack, stack_top, code2)
  BY DEF MachineInv, MachineOK, ContextsLive, running
<1> QED
  BY <1>1, <1>2, <1>3 DEF MachineInv, MachineOK, Stepped, running

\* The running thread wakes a blocked one.
LEMMA MachineWake ==
  ASSUME NEW code, MachineInv(code), fault = "none",
         NEW t \in Thread, sched.status[t] = TASK_BLOCKED,
         sched' = thread_unblock(sched, t),
         UNCHANGED <<cpu, stack, stack_top, fault>>
  PROVE  Stepped(code) /\ Woken(sched', sched, t)
<1>1. /\ Sound(sched) /\ PreemptionNoted(sched) /\ sched.running \in Thread
      /\ sched.status[sched.running] = TASK_RUNNING
  BY RunningSound DEF running
<1>2. Woken(sched', sched, t)
  <2>1. PICK r : r = sched'
    OBVIOUS
  <2>2. Woken(r, sched, t)
    BY <1>1, <2>1, UnblockSound
  <2> QED
    BY <2>1, <2>2
<1>3. /\ Sound(sched') /\ PreemptionNoted(sched') /\ SameThreads(sched', sched)
      /\ sched'.running = sched.running
      /\ sched'.status = [sched.status EXCEPT ![t] = TASK_READY]
  BY <1>2 DEF Woken
<1>4. Created(sched') = Created(sched) /\ sched'.pg_dir = sched.pg_dir
  BY <1>3 DEF SameThreads
<1>5. sched'.status[sched'.running] = TASK_RUNNING
  BY <1>1, <1>3 DEF Sound, SchedState, TASK_BLOCKED, TASK_RUNNING
<1>6. RunningMarked(sched') /\ sched' \in SchedState
      /\ QueuesHold(sched', Queued(sched'))
  BY <1>3, <1>5 DEF Sound, RunningMarked
<1>7. PidsExact(sched')
  BY <1>3, PidsFrame DEF MachineInv, MachineOK
<1>8. ContextsLive(sched', stack', stack_top', code)
  BY <1>3, <1>4 DEF MachineInv, MachineOK, ContextsLive
<1> QED
  BY <1>1, <1>2, <1>3, <1>4, <1>6, <1>7, <1>8 DEF MachineInv, MachineOK, Stepped

\* Saving a frame for the running thread and leaving through main_schedule.
LEMMA MachineSwitch ==
  ASSUME NEW code, MachineInv(code), fault = "none",
         NEW s, Sound(s), PreemptionNoted(s), SameThreads(s, sched),
         s.running = running,
         NEW frame \in Frame, NEW code2,
         \A t \in Thread \ {running} : t \in code2 <=> t \in code,
         running \in code2 <=> frame = "ALL",
         MainSchedule(s, [stack EXCEPT ![running] = Append(@, frame)],
                         [stack_top EXCEPT ![running] = Len(stack[running]) + 1])
  PROVE  Stepped(code2) /\ Scheduled(sched', s)
<1>1. /\ sched \in SchedState /\ stack \in [Thread -> Seq(Frame)]
      /\ stack_top \in [Thread -> Nat] /\ cpu \in Cpu
      /\ PidsExact(sched) /\ ContextsLive(sched, stack, stack_top, code)
      /\ cpu.cr3 = sched.pg_dir[sched.running]
      /\ sched.pg_dir[sched.running] # NULL => cpu.esp0 = sched.running
  BY DEF MachineInv, MachineOK
<1>2. running \in Thread /\ running \in Created(sched)
  BY RunningSound
<1>3. stack[running] = << >>
  BY <1>1, <1>2 DEF ContextsLive, running
<1>4. PICK stk \in [Thread -> Seq(Frame)] :
        stk = [stack EXCEPT ![running] = <<frame>>]
  <2>1. <<frame>> \in Seq(Frame)
    OBVIOUS
  <2> QED
    BY <1>1, <2>1
<1>5. PICK top \in [Thread -> Nat] : top = [stack_top EXCEPT ![running] = 1]
  BY <1>1
<1>6. MainSchedule(s, stk, top)
  <2>1. Append(stack[running], frame) = <<frame>> /\ Len(stack[running]) + 1 = 1
    BY <1>3
  <2>2. stk = [stack EXCEPT ![running] = Append(@, frame)]
    BY <1>4, <2>1
  <2>3. top = [stack_top EXCEPT ![running] = Len(stack[running]) + 1]
    BY <1>5, <2>1
  <2> QED
    BY <2>2, <2>3
<1>7. \A t \in Created(s) :
        /\ stk[t] = IF t \in code2 THEN <<"ALL">> ELSE <<"FAST">>
        /\ top[t] = 1
  <2> SUFFICES ASSUME NEW t \in Created(sched)
               PROVE  /\ stk[t] = IF t \in code2 THEN <<"ALL">> ELSE <<"FAST">>
                      /\ top[t] = 1
    BY DEF SameThreads
  <2>1. t \in Thread
    BY DEF Created
  <2>2. CASE t = running
    BY <1>1, <1>2, <1>4, <1>5, <2>2 DEF Frame
  <2>3. CASE t # running
    BY <1>1, <1>4, <1>5, <2>1, <2>3 DEF ContextsLive, running
  <2> QED
    BY <2>2, <2>3
<1>8. PICK r : r = main_schedule(s)
  OBVIOUS
<1>9. Scheduled(r, s)
  BY <1>8, MainScheduleSound
<1>10. /\ r \in SchedState /\ QueuesHold(r, Queued(r)) /\ RunningMarked(r)
       /\ SameThreads(r, s)
       /\ r.running = NULL \/ r.running \in Queued(r)
       /\ r.running # NULL => PreemptionNoted(r)
       /\ ~s.need_schedule => r = s
  BY <1>9 DEF Scheduled
<1>11. Created(r) = Created(sched) /\ r.pg_dir = sched.pg_dir
  BY <1>10 DEF SameThreads
<1>12. /\ sched' = r /\ stack_top' = top /\ PidsExact(r)
  <2>1. sched' = r /\ stack_top' = top
    BY <1>6, <1>8 DEF MainSchedule
  <2>2. PidsExact(s)
    BY <1>1, PidsFrame
  <2> QED
    BY <1>10, <2>1, <2>2, PidsFrame
<1>13. PICK c : c = IF s.need_schedule /\ r.running # NULL
                    THEN process_activate([cpu EXCEPT !.intr = INTR_OFF], r, r.running)
                    ELSE [cpu EXCEPT !.intr = INTR_OFF]
  OBVIOUS
<1>14. /\ c \in Cpu /\ c.intr = INTR_OFF
       /\ r.running # NULL =>
            /\ r.running \in Thread
            /\ c.cr3 = r.pg_dir[r.running]
            /\ r.pg_dir[r.running] # NULL => c.esp0 = r.running
  <2>1. r.pg_dir \in [Thread -> Thread \cup {NULL}]
    BY <1>10 DEF SchedState
  <2>2. r.running # NULL => r.running \in Thread
    BY <1>10 DEF Queued
  <2>3. CASE s.need_schedule /\ r.running # NULL
    BY <1>1, <1>13, <2>1, <2>2, <2>3 DEF process_activate, Cpu
  <2>4. CASE ~s.need_schedule
    <3>1. r.running = sched.running
      BY <1>10, <2>4 DEF running
    <3>2. c = [cpu EXCEPT !.intr = INTR_OFF]
      BY <1>13, <2>4
    <3> QED
      BY <1>1, <1>11, <2>2, <3>1, <3>2 DEF Cpu
  <2>5. CASE r.running = NULL
    BY <1>1, <1>13, <2>5 DEF Cpu
  <2> QED
    BY <2>3, <2>4, <2>5
<1>15. CASE r.running = NULL
  <2>1. stack' = stk /\ cpu' = c /\ fault' = "no_thread"
    BY <1>6, <1>8, <1>13, <1>15 DEF MainSchedule
  <2> QED
    BY <1>4, <1>5, <1>9, <1>10, <1>12, <1>14, <1>15, <2>1 DEF Stepped, MachineOK
<1>16. CASE r.running # NULL
  <2>1. context_load(c, stk, top, r.running)
    BY <1>6, <1>8, <1>13, <1>16 DEF MainSchedule
  <2>2. r.running \in Created(s) /\ r.running \in Thread
    BY <1>10, <1>11, <1>16
       DEF Queued, Created, SameThreads, TASK_RUNNING, TASK_READY, NO_TCB
  <2>3. /\ top[r.running] = Len(stk[r.running]) /\ stk[r.running] # << >>
        /\ Front(stk[r.running]) = << >>
        /\ Last(stk[r.running]) = IF r.running \in code2 THEN "ALL" ELSE "FAST"
    <3>1. /\ stk[r.running] = IF r.running \in code2 THEN <<"ALL">> ELSE <<"FAST">>
          /\ top[r.running] = 1
      BY <1>7, <2>2
    <3>2. \A f \in Frame : Front(<<f>>) = << >> /\ Last(<<f>>) = f /\ Len(<<f>>) = 1
      BY DEF Front, Last
    <3> QED
      BY <3>1, <3>2 DEF Frame
  <2>4. /\ stack' = [stk EXCEPT ![r.running] = << >>] /\ fault' = "none"
        /\ cpu' = IF r.running \in code2 THEN [c EXCEPT !.intr = INTR_ON] ELSE c
    BY <2>1, <2>3 DEF context_load
  <2>5. stack' \in [Thread -> Seq(Frame)]
    <3>1. << >> \in Seq(Frame)
      OBVIOUS
    <3> QED
      BY <2>4, <3>1
  <2>6. /\ cpu' \in Cpu /\ cpu'.cr3 = c.cr3 /\ cpu'.esp0 = c.esp0
        /\ r.running \notin code2 => cpu'.intr = INTR_OFF
    BY <1>14, <2>4 DEF Cpu
  <2>7. ContextsLive(r, stack', top, code2)
    BY <1>4, <1>7, <1>10, <2>2, <2>4 DEF ContextsLive, SameThreads, Created
  <2> QED
    BY <1>5, <1>9, <1>10, <1>12, <1>14, <1>16, <2>4, <2>5, <2>6, <2>7
       DEF Stepped, MachineOK
<1> QED
  BY <1>15, <1>16
=============================================================================
