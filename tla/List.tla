--------------------------------- MODULE List ---------------------------------
(***************************************************************************)
(* lib/kernel/list.c: doubly linked lists that run through elements        *)
(* embedded in other structures, between a head and a tail of their own.   *)
(* The memory m is a record of the prev and the next field of every        *)
(* element; an operator bears the name of the C function and returns the   *)
(* memory it leaves behind.  All run with interrupts off.                  *)
(***************************************************************************)
EXTENDS Integers, FiniteSets, Sequences

CONSTANT NULL

head(l) == <<"head", l>>
tail(l) == <<"tail", l>>

\* The memory of the elements tags, all zero, and of the lists, initialised.
list_init(lists, tags) ==
  LET ends == {head(l) : l \in lists} \cup {tail(l) : l \in lists}
      link(from(_), to(_)) ==
        [e \in ends \cup tags |->
           IF \E l \in lists : e = from(l)
           THEN to(CHOOSE l \in lists : e = from(l)) ELSE NULL]
  IN  [next |-> link(head, tail), prev |-> link(tail, head)]

\* Mutant: the new element is not entered as its successor's predecessor.
list_insert_before_no_prev(m, e1, e2) ==
  [m EXCEPT !.next[m.prev[e1]] = e2,
            !.prev[e2] = m.prev[e1],
            !.next[e2] = e1]

list_insert_before(m, e1, e2) ==
  [m EXCEPT !.next[m.prev[e1]] = e2,
            !.prev[e2] = m.prev[e1],
            !.next[e2] = e1,
            !.prev[e1] = e2]

list_push_front(m, l, e) == list_insert_before(m, m.next[head(l)], e)

list_push_back(m, l, e) == list_insert_before(m, tail(l), e)

\* The element keeps its own pointers.
list_remove(m, e) ==
  [m EXCEPT !.next[m.prev[e]] = m.next[e],
            !.prev[m.next[e]] = m.prev[e]]

list_first_elem(m, l) == m.next[head(l)]

list_pop_front(m, l) == list_remove(m, list_first_elem(m, l))

list_empty(m, l) == list_first_elem(m, l) = tail(l)

\* The elements that tmp goes through in the loop of list_elem_find when it
\* has come to e; with the links broken, n at most.
RECURSIVE rest(_, _, _, _)
rest(m, l, e, n) ==
  IF e \in {tail(l), NULL} \/ n = 0 THEN << >>
  ELSE <<e>> \o rest(m, l, m.next[e], n - 1)

elements(m, l) == rest(m, l, list_first_elem(m, l), Cardinality(DOMAIN m.next))

list_elem_find(m, l, e) == \E i \in DOMAIN elements(m, l) : elements(m, l)[i] = e
=============================================================================
