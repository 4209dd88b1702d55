--------------------------- MODULE TailQueueProofs ---------------------------
(***************************************************************************)
(* The TAILQ macros applied to a well-formed queue give a well-formed      *)
(* queue, with the element where its name says, and removing an element    *)
(* twice in a row is the same as removing it once.                         *)
(***************************************************************************)
EXTENDS TailQueue, FiniteSetTheorems, TLAPS

\* The addresses that are not elements are different from the elements and
\* from each other.
LEMMA Addresses == /\ Null \notin Env
                   /\ HeadCell \notin Env
                   /\ Null # HeadCell
  BY DEF Env, Null, HeadCell

\* TAILQ_INIT gives the empty queue.
LEMMA InitRepresents == ASSUME NEW s PROVE Represents(TAILQ_INIT, 0, s)
  BY DEF Represents, TAILQ_INIT

\* TAILQ_INSERT_HEAD puts a new element before the first.
LEMMA InsertHeadRepresents ==
  ASSUME NEW q \in Queue, NEW n \in Nat, NEW s \in [1 .. n -> Env],
         Represents(q, n, s),
         NEW e \in Env, \A i \in 1 .. n : s[i] # e
  PROVE  /\ TAILQ_INSERT_HEAD(q, e) \in Queue
         /\ Represents(TAILQ_INSERT_HEAD(q, e), n + 1,
                       [i \in 1 .. n + 1 |-> IF i = 1 THEN e ELSE s[i - 1]])
  <1> DEFINE r == TAILQ_INSERT_HEAD(q, e)
             t == [i \in 1 .. n + 1 |-> IF i = 1 THEN e ELSE s[i - 1]]
  <1>1. r \in Queue
    BY Addresses DEF Queue, Cell, TAILQ_INSERT_HEAD
  <1>2. \A i, j \in 1 .. n + 1 : t[i] = t[j] => i = j
    BY DEF Represents
  <1>3. r.first = t[1] /\ r.last = t[n + 1]
    BY Addresses DEF Represents, TAILQ_INSERT_HEAD
  <1>4. ASSUME NEW i \in 1 .. n + 1
        PROVE  /\ r.next[t[i]] = IF i = n + 1 THEN Null ELSE t[i + 1]
               /\ r.prev[t[i]] = IF i = 1 THEN HeadCell ELSE t[i - 1]
    <2>1. CASE i = 1
      BY <2>1, Addresses DEF Represents, TAILQ_INSERT_HEAD, Queue
    <2>2. CASE i > 1
      <3>1. i - 1 \in 1 .. n /\ t[i] = s[i - 1] /\ s[i - 1] # e /\ s[i - 1] \in Env
        BY <2>2
      <3>2. s[i - 1] = q.first <=> i = 2
        BY <3>1, <2>2 DEF Represents
      <3>3. QED
        BY <3>1, <3>2, <2>2 DEF Represents, TAILQ_INSERT_HEAD, Queue
    <2>3. QED
      BY <2>1, <2>2
  <1>5. QED
    BY <1>1, <1>2, <1>3, <1>4 DEF Represents

\* TAILQ_INSERT_TAIL puts a new element after the last.
LEMMA InsertTailRepresents ==
  ASSUME NEW q \in Queue, NEW n \in Nat, NEW s \in [1 .. n -> Env],
         Represents(q, n, s),
         NEW e \in Env, \A i \in 1 .. n : s[i] # e
  PROVE  /\ TAILQ_INSERT_TAIL(q, e) \in Queue
         /\ Represents(TAILQ_INSERT_TAIL(q, e), n + 1,
                       [i \in 1 .. n + 1 |-> IF i = n + 1 THEN e ELSE s[i]])
  <1> DEFINE r == TAILQ_INSERT_TAIL(q, e)
             t == [i \in 1 .. n + 1 |-> IF i = n + 1 THEN e ELSE s[i]]
  <1>1. r \in Queue
    BY DEF Queue, Cell, TAILQ_INSERT_TAIL
  <1>2. \A i, j \in 1 .. n + 1 : t[i] = t[j] => i = j
    BY DEF Represents
  <1>3. r.first = t[1] /\ r.last = t[n + 1]
    BY Addresses DEF Represents, TAILQ_INSERT_TAIL
  <1>4. ASSUME NEW i \in 1 .. n + 1
        PROVE  /\ r.next[t[i]] = IF i = n + 1 THEN Null ELSE t[i + 1]
               /\ r.prev[t[i]] = IF i = 1 THEN HeadCell ELSE t[i - 1]
    <2>1. CASE i = n + 1
      BY <2>1, Addresses DEF Represents, TAILQ_INSERT_TAIL, Queue
    <2>2. CASE i < n + 1
      <3>1. i \in 1 .. n /\ t[i] = s[i] /\ s[i] # e /\ s[i] \in Env
        BY <2>2
      <3>2. s[i] = q.last <=> i = n
        BY <3>1, Addresses DEF Represents
      <3>3. QED
        BY <3>1, <3>2 DEF Represents, TAILQ_INSERT_TAIL, Queue
    <2>3. QED
      BY <2>1, <2>2
  <1>5. QED
    BY <1>1, <1>2, <1>3, <1>4 DEF Represents

\* TAILQ_REMOVE takes out the element at position k and closes the gap.
LEMMA RemoveRepresents ==
  ASSUME NEW q \in Queue, NEW n \in Nat, NEW s \in [1 .. n -> Env],
         Represents(q, n, s), NEW k \in 1 .. n
  PROVE  /\ TAILQ_REMOVE(q, s[k]) \in Queue
         /\ Represents(TAILQ_REMOVE(q, s[k]), n - 1,
                       [i \in 1 .. n - 1 |-> IF i < k THEN s[i] ELSE s[i + 1]])
  <1> DEFINE e == s[k]
             r == TAILQ_REMOVE(q, e)
             t == [i \in 1 .. n - 1 |-> IF i < k THEN s[i] ELSE s[i + 1]]
  <1>0. /\ e \in Env
        /\ q.next[e] = IF k = n THEN Null ELSE s[k + 1]
        /\ q.prev[e] = IF k = 1 THEN HeadCell ELSE s[k - 1]
    BY DEF Represents
  <1>1. r \in Queue
    BY <1>0 DEF Queue, Cell, TAILQ_REMOVE
  <1>2. ASSUME NEW i \in 1 .. n - 1, NEW j \in 1 .. n - 1, t[i] = t[j]
        PROVE  i = j
    <2> DEFINE f(m) == IF m < k THEN m ELSE m + 1
    <2>1. f(i) \in 1 .. n /\ f(j) \in 1 .. n /\ t[i] = s[f(i)] /\ t[j] = s[f(j)]
      OBVIOUS
    <2>2. f(i) = f(j)
      BY <2>1, <1>2 DEF Represents
    <2>3. QED
      BY <2>2
  <1>3. /\ r.first = IF n - 1 = 0 THEN Null ELSE t[1]
        /\ r.last = IF n - 1 = 0 THEN HeadCell ELSE t[n - 1]
    BY <1>0, Addresses DEF Represents, TAILQ_REMOVE
  <1>4. ASSUME NEW i \in 1 .. n - 1
        PROVE  /\ r.next[t[i]] = IF i = n - 1 THEN Null ELSE t[i + 1]
               /\ r.prev[t[i]] = IF i = 1 THEN HeadCell ELSE t[i - 1]
    <2> DEFINE j == IF i < k THEN i ELSE i + 1
    <2>1. j \in 1 .. n /\ t[i] = s[j] /\ s[j] \in Env /\ j # k
      OBVIOUS
    <2>2. s[j] = q.prev[e] <=> j = k - 1
      BY <1>0, <2>1, Addresses DEF Represents
    <2>3. s[j] = q.next[e] <=> j = k + 1
      BY <1>0, <2>1, Addresses DEF Represents
    <2>4. r.next[s[j]] = IF j = k - 1 THEN q.next[e] ELSE q.next[s[j]]
      BY <2>1, <2>2 DEF TAILQ_REMOVE
    <2>5. r.prev[s[j]] = IF j = k + 1 THEN q.prev[e] ELSE q.prev[s[j]]
      BY <2>1, <2>3 DEF TAILQ_REMOVE
    <2>6. /\ q.next[s[j]] = IF j = n THEN Null ELSE s[j + 1]
          /\ q.prev[s[j]] = IF j = 1 THEN HeadCell ELSE s[j - 1]
      BY <2>1 DEF Represents
    <2>7. QED
      BY <1>0, <2>1, <2>4, <2>5, <2>6
  <1>5. QED
    BY <1>1, <1>2, <1>3, <1>4 DEF Represents

\* Removing an element a second time, before anything else touches the queue,
\* rewrites the same cells with the same values (sys_ipc_recv, then schedule).
LEMMA RemoveTwice ==
  ASSUME NEW q \in Queue, NEW n \in Nat, NEW s \in [1 .. n -> Env],
         Represents(q, n, s), NEW k \in 1 .. n
  PROVE  TAILQ_REMOVE(TAILQ_REMOVE(q, s[k]), s[k]) = TAILQ_REMOVE(q, s[k])
  <1> DEFINE e == s[k]
             r == TAILQ_REMOVE(q, e)
  <1>1. e \in Env /\ q.next[e] # e /\ q.prev[e] # e
    BY Addresses DEF Represents
  <1>2. r.next[e] = q.next[e] /\ r.prev[e] = q.prev[e]
    BY <1>1 DEF TAILQ_REMOVE
  <1>3. QED
    BY <1>1, <1>2 DEF TAILQ_REMOVE

\* An injective sequence over the slots has at most NENV elements.
LEMMA LengthBound ==
  ASSUME NEW n \in Nat, NEW s \in [1 .. n -> Env],
         \A i, j \in 1 .. n : s[i] = s[j] => i = j
  PROVE  n <= NENV
  <1>1. IsFiniteSet(1 .. n) /\ Cardinality(1 .. n) = n
    BY FS_Interval
  <1>2. IsFiniteSet(Env) /\ Cardinality(Env) = NENV
    BY FS_Interval, NENVAssumption DEF Env
  <1>3. ~ (Cardinality(Env) < Cardinality(1 .. n))
    BY <1>1, <1>2, FS_PigeonHole
  <1>4. QED
    BY <1>1, <1>2, <1>3, NENVAssumption

------------------------------------------------------------------------------
(* The same facts about queues as sets: what the kernel code relies on. *)

\* TAILQ_EMPTY and TAILQ_FIRST tell an empty queue from one with a head.
LEMMA QueueFirst ==
  ASSUME NEW q \in Queue, NEW S, QueueOf(q, S)
  PROVE  /\ S \subseteq Env
         /\ TAILQ_EMPTY(q) <=> S = {}
         /\ S # {} => TAILQ_FIRST(q) \in S
  <1>0. PICK n \in 0 .. NENV : \E s \in [1 .. n -> Env] :
          Represents(q, n, s) /\ S = {s[i] : i \in 1 .. n}
    BY DEF QueueOf
  <1>1. PICK s \in [1 .. n -> Env] :
          Represents(q, n, s) /\ S = {s[i] : i \in 1 .. n}
    BY <1>0
  <1>2. CASE n = 0
    BY <1>1, <1>2 DEF Represents, TAILQ_EMPTY, TAILQ_FIRST
  <1>3. CASE n # 0
    <2>1. 1 \in 1 .. n /\ q.first = s[1] /\ s[1] \in Env
      BY <1>1, <1>3 DEF Represents
    <2>2. QED
      BY <1>1, <2>1, Addresses DEF TAILQ_EMPTY, TAILQ_FIRST
  <1>4. QED
    BY <1>2, <1>3

\* The initial queue is the empty one.
LEMMA QueueInit == TAILQ_INIT \in Queue /\ QueueOf(TAILQ_INIT, {})
  <1>1. TAILQ_INIT \in Queue
    BY DEF TAILQ_INIT, Queue, Cell
  <1>2. /\ 0 \in 0 .. NENV
        /\ [i \in 1 .. 0 |-> 0] \in [1 .. 0 -> Env]
        /\ {} = {[i \in 1 .. 0 |-> 0][j] : j \in 1 .. 0}
    BY NENVAssumption
  <1>3. QED
    BY <1>1, <1>2, InitRepresents DEF QueueOf

\* An insertion at the head adds the element and makes it the first.
LEMMA QueueInsertHead ==
  ASSUME NEW q \in Queue, NEW S, QueueOf(q, S), NEW e \in Env, e \notin S
  PROVE  /\ TAILQ_INSERT_HEAD(q, e) \in Queue
         /\ QueueOf(TAILQ_INSERT_HEAD(q, e), S \cup {e})
  <1>0. PICK n \in 0 .. NENV : \E s \in [1 .. n -> Env] :
          Represents(q, n, s) /\ S = {s[i] : i \in 1 .. n}
    BY DEF QueueOf
  <1>1. PICK s \in [1 .. n -> Env] :
          Represents(q, n, s) /\ S = {s[i] : i \in 1 .. n}
    BY <1>0
  <1> DEFINE t == [i \in 1 .. n + 1 |-> IF i = 1 THEN e ELSE s[i - 1]]
  <1>2. n \in Nat /\ n + 1 \in Nat /\ t \in [1 .. n + 1 -> Env]
    BY NENVAssumption
  <1>a. Represents(q, n, s) /\ \A i \in 1 .. n : s[i] # e
    BY <1>1
  <1>3. /\ TAILQ_INSERT_HEAD(q, e) \in Queue
        /\ Represents(TAILQ_INSERT_HEAD(q, e), n + 1, t)
    BY ONLY <1>2, <1>a, InsertHeadRepresents, q \in Queue, e \in Env, s \in [1 .. n -> Env]
  <1>b. \A i, j \in 1 .. n + 1 : t[i] = t[j] => i = j
    BY <1>3 DEF Represents
  <1>4. n + 1 \in 0 .. NENV
    <2> HIDE DEF t
    <2>1. n + 1 <= NENV
      BY <1>2, <1>b, LengthBound
    <2>2. QED
      BY <1>2, <2>1, NENVAssumption
  <1>5. S \cup {e} = {t[i] : i \in 1 .. n + 1}
    <2>1. \A i \in 1 .. n + 1 : t[i] \in S \cup {e}
      BY <1>1
    <2>2. \A i \in 1 .. n : s[i] = t[i + 1] /\ i + 1 \in 1 .. n + 1
      OBVIOUS
    <2>3. e = t[1] /\ 1 \in 1 .. n + 1
      BY <1>2
    <2> HIDE DEF t
    <2>4. QED
      BY <1>1, <2>1, <2>2, <2>3
  <1>6. QED
    BY <1>2, <1>3, <1>4, <1>5 DEF QueueOf

\* An insertion at the tail adds the element and keeps the head.
LEMMA QueueInsertTail ==
  ASSUME NEW q \in Queue, NEW S, QueueOf(q, S), NEW e \in Env, e \notin S
  PROVE  /\ TAILQ_INSERT_TAIL(q, e) \in Queue
         /\ QueueOf(TAILQ_INSERT_TAIL(q, e), S \cup {e})
         /\ S # {} => TAILQ_FIRST(TAILQ_INSERT_TAIL(q, e)) = TAILQ_FIRST(q)
  <1>0. PICK n \in 0 .. NENV : \E s \in [1 .. n -> Env] :
          Represents(q, n, s) /\ S = {s[i] : i \in 1 .. n}
    BY DEF QueueOf
  <1>1. PICK s \in [1 .. n -> Env] :
          Represents(q, n, s) /\ S = {s[i] : i \in 1 .. n}
    BY <1>0
  <1> DEFINE t == [i \in 1 .. n + 1 |-> IF i = n + 1 THEN e ELSE s[i]]
  <1>2. n \in Nat /\ n + 1 \in Nat /\ t \in [1 .. n + 1 -> Env]
    BY NENVAssumption
  <1>a. Represents(q, n, s) /\ \A i \in 1 .. n : s[i] # e
    BY <1>1
  <1>3. /\ TAILQ_INSERT_TAIL(q, e) \in Queue
        /\ Represents(TAILQ_INSERT_TAIL(q, e), n + 1, t)
    BY ONLY <1>2, <1>a, InsertTailRepresents, q \in Queue, e \in Env, s \in [1 .. n -> Env]
  <1>b. \A i, j \in 1 .. n + 1 : t[i] = t[j] => i = j
    BY <1>3 DEF Represents
  <1>4. n + 1 \in 0 .. NENV
    <2> HIDE DEF t
    <2>1. n + 1 <= NENV
      BY <1>2, <1>b, LengthBound
    <2>2. QED
      BY <1>2, <2>1, NENVAssumption
  <1>5. S \cup {e} = {t[i] : i \in 1 .. n + 1}
    <2>1. \A i \in 1 .. n + 1 : t[i] \in S \cup {e}
      BY <1>1
    <2>2. \A i \in 1 .. n : s[i] = t[i] /\ i \in 1 .. n + 1
      OBVIOUS
    <2>3. e = t[n + 1] /\ n + 1 \in 1 .. n + 1
      BY <1>2
    <2> HIDE DEF t
    <2>4. QED
      BY <1>1, <2>1, <2>2, <2>3
  <1>6. S # {} => TAILQ_FIRST(TAILQ_INSERT_TAIL(q, e)) = TAILQ_FIRST(q)
    BY <1>1, <1>2, <1>3 DEF Represents, TAILQ_FIRST
  <1>7. QED
    BY <1>2, <1>3, <1>4, <1>5, <1>6 DEF QueueOf

\* Removing an element takes it out and nothing else, writes through no NULL,
\* does not move another head, and can be repeated at once without effect.
LEMMA QueueRemove ==
  ASSUME NEW q \in Queue, NEW S, QueueOf(q, S), NEW e \in S
  PROVE  /\ TAILQ_REMOVE(q, e) \in Queue
         /\ QueueOf(TAILQ_REMOVE(q, e), S \ {e})
         /\ ~RemoveFaults(q, e)
         /\ TAILQ_REMOVE(TAILQ_REMOVE(q, e), e) = TAILQ_REMOVE(q, e)
         /\ e # TAILQ_FIRST(q) => TAILQ_FIRST(TAILQ_REMOVE(q, e)) = TAILQ_FIRST(q)
  <1>0. PICK n \in 0 .. NENV : \E s \in [1 .. n -> Env] :
          Represents(q, n, s) /\ S = {s[i] : i \in 1 .. n}
    BY DEF QueueOf
  <1>1. PICK s \in [1 .. n -> Env] :
          Represents(q, n, s) /\ S = {s[i] : i \in 1 .. n}
    BY <1>0
  <1>2. PICK k \in 1 .. n : e = s[k]
    BY <1>1
  <1> DEFINE t == [i \in 1 .. n - 1 |-> IF i < k THEN s[i] ELSE s[i + 1]]
  <1>3. n \in Nat /\ n - 1 \in 0 .. NENV /\ t \in [1 .. n - 1 -> Env]
    BY <1>2, NENVAssumption
  <1>4. /\ TAILQ_REMOVE(q, e) \in Queue
        /\ Represents(TAILQ_REMOVE(q, e), n - 1, t)
    BY <1>1, <1>2, <1>3, RemoveRepresents
  <1>5. S \ {e} = {t[i] : i \in 1 .. n - 1}
    <2>1. \A i \in 1 .. n - 1 : t[i] \in S /\ t[i] # e
      BY <1>1, <1>2 DEF Represents
    <2>2. ASSUME NEW x \in S, x # e
          PROVE  \E i \in 1 .. n - 1 : x = t[i]
      <3>1. PICK j \in 1 .. n : x = s[j]
        BY <1>1
      <3>2. CASE j < k
        BY <3>1, <3>2, <1>2
      <3>3. CASE j > k
        <4>1. j - 1 \in 1 .. n - 1 /\ t[j - 1] = s[j]
          BY <3>3, <1>2
        <4>2. QED
          BY <4>1, <3>1
      <3>4. QED
        BY <3>1, <3>2, <3>3, <2>2, <1>2
    <2>3. QED
      BY <2>1, <2>2
  <1>6. ~RemoveFaults(q, e)
    BY <1>1, <1>2, Addresses DEF Represents, RemoveFaults
  <1>7. TAILQ_REMOVE(TAILQ_REMOVE(q, e), e) = TAILQ_REMOVE(q, e)
    BY <1>1, <1>2, <1>3, RemoveTwice
  <1>8. e # TAILQ_FIRST(q) => TAILQ_FIRST(TAILQ_REMOVE(q, e)) = TAILQ_FIRST(q)
    BY <1>1, <1>2, <1>3, Addresses DEF Represents, TAILQ_FIRST, TAILQ_REMOVE
  <1>9. QED
    BY <1>3, <1>4, <1>5, <1>6, <1>7, <1>8 DEF QueueOf
==============================================================================
