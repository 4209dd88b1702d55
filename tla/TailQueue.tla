------------------------------ MODULE TailQueue ------------------------------
(***************************************************************************)
(* The TAILQ macros of include/queue.h, at the level of the pointers they  *)
(* read and write, over the elements of the array 'envs'.                  *)
(*                                                                         *)
(* A tail queue is a head (first, last) and, in every element, two links   *)
(* (next, prev).  'last' and 'prev' are addresses of a 'next' cell: the    *)
(* cell of element e is written e, the cell head->tqh_first is written     *)
(* HeadCell.  The macros never look at membership, and TAILQ_REMOVE does   *)
(* not clear the links of what it removes: both facts matter to callers.   *)
(***************************************************************************)
EXTENDS Integers

CONSTANT NENV           \* number of slots of 'envs'

ASSUME NENVAssumption == NENV \in Nat \ {0}

Env  == 0 .. NENV - 1   \* an element, by its index
Null == -1              \* the NULL pointer
HeadCell == -2          \* the address of head->tqh_first

Cell == Env \cup {HeadCell, Null}

Queue == [first : Env \cup {Null}, last : Cell,
          next : [Env -> Env \cup {Null}], prev : [Env -> Cell]]

\* The head after TAILQ_INIT; the links are in zeroed memory.
TAILQ_INIT ==
  [first |-> Null, last |-> HeadCell,
   next |-> [e \in Env |-> Null], prev |-> [e \in Env |-> Null]]

\* In each macro a store through a pointer to a 'next' cell, *p = v, writes
\* 'first' when p is HeadCell and next[p] when p is an element.
TAILQ_EMPTY(q) == q.first = Null
TAILQ_FIRST(q) == q.first

TAILQ_INSERT_HEAD(q, e) ==
  [first |-> e,
   last  |-> IF q.first = Null THEN e ELSE q.last,
   next  |-> [q.next EXCEPT ![e] = q.first],
   prev  |-> [x \in Env |-> IF x = e THEN HeadCell
                            ELSE IF x = q.first THEN e ELSE q.prev[x]]]

\* Mutant: the element is inserted at the other end.
TAILQ_INSERT_TAIL_AtHead(q, e) == TAILQ_INSERT_HEAD(q, e)

TAILQ_INSERT_TAIL(q, e) ==
  [first |-> IF q.last = HeadCell THEN e ELSE q.first,
   last  |-> e,
   next  |-> [x \in Env |-> IF x = q.last THEN e
                            ELSE IF x = e THEN Null ELSE q.next[x]],
   prev  |-> [q.prev EXCEPT ![e] = q.last]]

\* Mutant: removing the last element does not move tqh_last back.
TAILQ_REMOVE_KeepLast(q, e) ==
  LET n == q.next[e]
      p == q.prev[e]
  IN  [q EXCEPT !.first = IF p = HeadCell THEN n ELSE q.first,
                !.next  = [x \in Env |-> IF x = p THEN n ELSE q.next[x]],
                !.prev  = [x \in Env |-> IF x = n THEN p ELSE q.prev[x]]]

TAILQ_REMOVE(q, e) ==
  LET n == q.next[e]
      p == q.prev[e]
  IN  [first |-> IF p = HeadCell THEN n ELSE q.first,
       last  |-> IF n = Null THEN p ELSE q.last,
       next  |-> [x \in Env |-> IF x = p THEN n ELSE q.next[x]],
       prev  |-> [x \in Env |-> IF x = n THEN p ELSE q.prev[x]]]

\* TAILQ_REMOVE writes through tqe_prev, which is NULL in an element that was
\* never inserted.
RemoveFaults(q, e) == q.prev[e] = Null

------------------------------------------------------------------------------
(***************************************************************************)
(* What a well-formed queue is: q represents the n elements s[1..n].       *)
(***************************************************************************)
Represents(q, n, s) ==
  /\ \A i, j \in 1 .. n : s[i] = s[j] => i = j
  /\ q.first = IF n = 0 THEN Null ELSE s[1]
  /\ q.last  = IF n = 0 THEN HeadCell ELSE s[n]
  /\ \A i \in 1 .. n :
       /\ q.next[s[i]] = IF i = n THEN Null ELSE s[i + 1]
       /\ q.prev[s[i]] = IF i = 1 THEN HeadCell ELSE s[i - 1]

\* The queue q is well formed and its elements are the set S.
QueueOf(q, S) ==
  \E n \in 0 .. NENV : \E s \in [1 .. n -> Env] :
    /\ Represents(q, n, s)
    /\ S = {s[i] : i \in 1 .. n}
==============================================================================
