---------------------------- MODULE RunQueueProofs ----------------------------
(***************************************************************************)
(* The pointer-level run queue, the time slices and the system calls       *)
(* implement the FIFO of module RunQueue, for every number of slots.       *)
(***************************************************************************)
EXTENDS EnvSchedProofs, SequenceTheorems

------------------------------------------------------------------------------
(* The sequence a queue represents *)

\* Following the links from the head meets the elements in order, then NULL.
LEMMA ReachedIs ==
  ASSUME NEW q \in Queue, NEW n \in 0 .. NENV, NEW s \in [1 .. n -> Env], Represents(q, n, s)
  PROVE  Reached(q) = [i \in 1 .. NENV |-> IF i <= n THEN s[i] ELSE Null]
  <1> DEFINE F(g) == [i \in 1 .. NENV |->
                        IF i = 1 THEN q.first
                        ELSE IF g[i - 1] = Null THEN Null ELSE q.next[g[i - 1]]]
             t == [i \in 1 .. NENV |-> IF i <= n THEN s[i] ELSE Null]
             r == Reached(q)
  <1>0. NENV \in Nat /\ n \in Nat /\ n <= NENV
    BY NENVAssumption
  <1>1. t = F(t)
    <2>1. ASSUME NEW i \in 1 .. NENV
          PROVE  t[i] = IF i = 1 THEN q.first
                        ELSE IF t[i - 1] = Null THEN Null ELSE q.next[t[i - 1]]
      <3>1. CASE i = 1
        BY <1>0, <3>1 DEF Represents
      <3>2. CASE i # 1 /\ i - 1 <= n
        <4>1. i - 1 \in 1 .. n /\ t[i - 1] = s[i - 1] /\ s[i - 1] \in Env
          BY <1>0, <3>2
        <4>2. q.next[s[i - 1]] = IF i - 1 = n THEN Null ELSE s[i]
          BY <1>0, <4>1 DEF Represents
        <4>3. t[i] = IF i <= n THEN s[i] ELSE Null
          OBVIOUS
        <4>4. QED
          BY <1>0, <3>2, <4>1, <4>2, <4>3, Addresses
      <3>3. CASE i # 1 /\ ~(i - 1 <= n)
        BY <1>0, <3>3
      <3>4. QED
        BY <3>1, <3>2, <3>3
    <2>2. QED
      BY <2>1
  <1>2. r = F(r)
    <2>1. r = CHOOSE g : g = F(g)
      BY DEF Reached
    <2> HIDE DEF F, t, r
    <2>2. QED
      BY <1>1, <2>1, Zenon
  <1>3. ASSUME NEW j \in 1 .. NENV, r[j] # t[j] PROVE FALSE
    <2> DEFINE bad == {i \in 1 .. NENV : r[i] # t[i]}
    <2> HIDE DEF r, t, F
    <2>1. bad \subseteq Nat /\ bad # {}
      BY <1>3
    <2>2. \E x \in bad : \A y \in bad : ~ (<<y, x>> \in OpToRel(<, Nat))
      <3> HIDE DEF bad
      <3>1. QED
        BY <2>1, WFMin, NatLessThanWellFounded
    <2>3. PICK x \in bad : \A y \in bad : ~ (y < x)
      BY <2>1, <2>2 DEF OpToRel
    <2>4. x # 1 => x - 1 \in 1 .. NENV /\ r[x - 1] = t[x - 1]
      BY <1>0, <2>3
    <2>5. F(r)[x] = F(t)[x]
      BY <2>4 DEF F
    <2>6. r[x] = t[x]
      BY <1>1, <1>2, <2>5
    <2>7. QED
      BY <2>3, <2>6
  <1>4. r = [i \in 1 .. NENV |-> r[i]] /\ t = [i \in 1 .. NENV |-> t[i]]
    <2>1. r = [i \in 1 .. NENV |-> r[i]]
      <3> HIDE DEF r
      <3>1. QED
        BY <1>2
    <2>2. QED
      BY <2>1
  <1>5. QED
    <2> HIDE DEF r, t
    <2>1. r = t
      BY <1>3, <1>4
    <2>2. QED
      BY <2>1 DEF r, t

\* So the sequence read off the links is the one the queue represents.
LEMMA QueueSeqIs ==
  ASSUME NEW q \in Queue, NEW n \in 0 .. NENV, NEW s \in [1 .. n -> Env], Represents(q, n, s)
  PROVE  QueueSeq(q) = s
  <1> DEFINE t == [i \in 1 .. NENV |-> IF i <= n THEN s[i] ELSE Null]
  <1>0. NENV \in Nat /\ n \in Nat /\ n <= NENV
    BY NENVAssumption
  <1>1. Reached(q) = t
    BY ReachedIs
  <1>2. {j \in 1 .. NENV : t[j] # Null} = 1 .. n
    <2>1. \A j \in 1 .. NENV : t[j] # Null <=> j \in 1 .. n
      BY <1>0, Addresses
    <2> HIDE DEF t
    <2>2. QED
      BY <1>0, <2>1
  <1>3. Cardinality(1 .. n) = n
    BY <1>0, FS_Interval
  <1>4. QueueSeq(q) = [i \in 1 .. n |-> t[i]]
    BY <1>1, <1>2, <1>3 DEF QueueSeq
  <1>5. \A i \in 1 .. n : t[i] = s[i]
    BY <1>0
  <1>6. QED
    BY <1>4, <1>5

\* A well-formed queue of the set S is a sequence over S, without repetition,
\* whose head is the first element.
LEMMA SeqOfQueue ==
  ASSUME NEW q \in Queue, NEW S, QueueOf(q, S)
  PROVE  /\ QueueSeq(q) \in Seq(Env)
         /\ {QueueSeq(q)[i] : i \in DOMAIN QueueSeq(q)} = S
         /\ QueueSeq(q) = <<>> <=> S = {}
         /\ S # {} => Head(QueueSeq(q)) = TAILQ_FIRST(q)
  <1>0. PICK n \in 0 .. NENV : \E s \in [1 .. n -> Env] :
          Represents(q, n, s) /\ S = {s[i] : i \in 1 .. n}
    BY DEF QueueOf
  <1>1. PICK s \in [1 .. n -> Env] :
          Represents(q, n, s) /\ S = {s[i] : i \in 1 .. n}
    BY <1>0
  <1>2. QueueSeq(q) = s /\ n \in Nat
    BY <1>1, QueueSeqIs, NENVAssumption
  <1>3. s \in Seq(Env) /\ Len(s) = n /\ DOMAIN s = 1 .. n
    BY <1>2
  <1>4. S = {} <=> n = 0
    BY <1>1, <1>2
  <1>5. n # 0 => Head(s) = TAILQ_FIRST(q)
    BY <1>1, <1>2, <1>3 DEF Represents, TAILQ_FIRST
  <1>6. QED
    BY <1>1, <1>2, <1>3, <1>4, <1>5

\* TAILQ_INSERT_HEAD puts the element before the sequence.
LEMMA SeqInsertHead ==
  ASSUME NEW q \in Queue, NEW S, QueueOf(q, S), NEW e \in Env, e \notin S
  PROVE  QueueSeq(TAILQ_INSERT_HEAD(q, e)) = <<e>> \o QueueSeq(q)
  <1>0. PICK n \in 0 .. NENV : \E s \in [1 .. n -> Env] :
          Represents(q, n, s) /\ S = {s[i] : i \in 1 .. n}
    BY DEF QueueOf
  <1>1. PICK s \in [1 .. n -> Env] :
          Represents(q, n, s) /\ S = {s[i] : i \in 1 .. n}
    BY <1>0
  <1> DEFINE r == TAILQ_INSERT_HEAD(q, e)
             t == [i \in 1 .. n + 1 |-> IF i = 1 THEN e ELSE s[i - 1]]
  <1>2. QueueSeq(q) = s /\ n \in Nat /\ n + 1 \in Nat /\ t \in [1 .. n + 1 -> Env]
    BY <1>1, QueueSeqIs, NENVAssumption
  <1>3. r \in Queue /\ Represents(r, n + 1, t)
    BY <1>1, <1>2, InsertHeadRepresents
  <1>4. n + 1 \in 0 .. NENV
    <2> HIDE DEF t, r
    <2>1. n + 1 <= NENV
      BY <1>2, <1>3, LengthBound DEF Represents
    <2>2. QED
      BY <1>2, <2>1, NENVAssumption
  <1>5. QueueSeq(r) = t
    <2> HIDE DEF t, r
    <2>1. QED
      BY <1>2, <1>3, <1>4, QueueSeqIs
  <1>6. t = <<e>> \o s
    BY <1>2
  <1>7. QED
    BY <1>2, <1>5, <1>6

\* TAILQ_INSERT_TAIL appends it.
LEMMA SeqInsertTail ==
  ASSUME NEW q \in Queue, NEW S, QueueOf(q, S), NEW e \in Env, e \notin S
  PROVE  QueueSeq(TAILQ_INSERT_TAIL(q, e)) = Append(QueueSeq(q), e)
  <1>0. PICK n \in 0 .. NENV : \E s \in [1 .. n -> Env] :
          Represents(q, n, s) /\ S = {s[i] : i \in 1 .. n}
    BY DEF QueueOf
  <1>1. PICK s \in [1 .. n -> Env] :
          Represents(q, n, s) /\ S = {s[i] : i \in 1 .. n}
    BY <1>0
  <1> DEFINE r == TAILQ_INSERT_TAIL(q, e)
             t == [i \in 1 .. n + 1 |-> IF i = n + 1 THEN e ELSE s[i]]
  <1>2. QueueSeq(q) = s /\ n \in Nat /\ n + 1 \in Nat /\ t \in [1 .. n + 1 -> Env]
    BY <1>1, QueueSeqIs, NENVAssumption
  <1>3. r \in Queue /\ Represents(r, n + 1, t)
    <2>1. Represents(q, n, s) /\ \A i \in 1 .. n : s[i] # e
      BY <1>1
    <2>2. QED
      BY <1>2, <2>1, InsertTailRepresents
  <1>4. n + 1 \in 0 .. NENV
    <2> HIDE DEF t, r
    <2>1. n + 1 <= NENV
      BY <1>2, <1>3, LengthBound DEF Represents
    <2>2. QED
      BY <1>2, <2>1, NENVAssumption
  <1>5. QueueSeq(r) = t
    <2> HIDE DEF t, r
    <2>1. QED
      BY <1>2, <1>3, <1>4, QueueSeqIs
  <1>6. t = Append(s, e)
    <2>1. s \in Seq(Env) /\ Len(s) = n
      BY <1>2
    <2>2. /\ Append(s, e) \in Seq(Env) /\ Len(Append(s, e)) = n + 1
          /\ \A i \in 1 .. n + 1 : Append(s, e)[i] = IF i = n + 1 THEN e ELSE s[i]
      BY <1>2, <2>1
    <2>3. t \in Seq(Env) /\ Len(t) = n + 1
      BY <1>2
    <2>4. QED
      BY <2>2, <2>3, SeqEqual
  <1>7. QED
    BY <1>2, <1>5, <1>6

\* s without its k-th element.
Without(s, k) == [i \in 1 .. Len(s) - 1 |-> IF i < k THEN s[i] ELSE s[i + 1]]

\* TAILQ_REMOVE takes it out of its place; out of the first place, what is left is
\* the tail.
LEMMA SeqRemove ==
  ASSUME NEW q \in Queue, NEW S, QueueOf(q, S), NEW e \in S
  PROVE  /\ \E k \in 1 .. Len(QueueSeq(q)) :
              QueueSeq(q)[k] = e /\ QueueSeq(TAILQ_REMOVE(q, e)) = Without(QueueSeq(q), k)
         /\ e = TAILQ_FIRST(q) => QueueSeq(TAILQ_REMOVE(q, e)) = Tail(QueueSeq(q))
  <1>0. PICK n \in 0 .. NENV : \E s \in [1 .. n -> Env] :
          Represents(q, n, s) /\ S = {s[i] : i \in 1 .. n}
    BY DEF QueueOf
  <1>1. PICK s \in [1 .. n -> Env] :
          Represents(q, n, s) /\ S = {s[i] : i \in 1 .. n}
    BY <1>0
  <1>2. PICK k \in 1 .. n : s[k] = e
    BY <1>1
  <1> DEFINE r == TAILQ_REMOVE(q, e)
             t == [i \in 1 .. n - 1 |-> IF i < k THEN s[i] ELSE s[i + 1]]
  <1>3. /\ QueueSeq(q) = s /\ n \in Nat /\ n - 1 \in 0 .. NENV
        /\ t \in [1 .. n - 1 -> Env] /\ Len(s) = n
    BY <1>1, QueueSeqIs, NENVAssumption
  <1>4. r \in Queue /\ Represents(r, n - 1, t)
    <2>1. Represents(q, n, s) /\ s[k] = e
      BY <1>1, <1>2
    <2>2. QED
      BY <1>3, <2>1, RemoveRepresents
  <1>5. QueueSeq(r) = t
    <2> HIDE DEF t, r
    <2>1. QED
      BY <1>3, <1>4, QueueSeqIs
  <1>6. e = TAILQ_FIRST(q) => t = Tail(s)
    <2>1. ASSUME e = TAILQ_FIRST(q) PROVE k = 1
      BY <1>1, <1>2, <1>3, <2>1 DEF Represents, TAILQ_FIRST
    <2>2. ASSUME k = 1 PROVE t = Tail(s)
      <3>1. s \in Seq(Env) /\ Len(s) = n /\ n # 0 /\ s # <<>>
        BY <1>2, <1>3
      <3>2. /\ Tail(s) \in Seq(Env) /\ Len(Tail(s)) = n - 1
            /\ \A i \in 1 .. n - 1 : Tail(s)[i] = s[i + 1]
        BY <1>3, <3>1
      <3>3. /\ t \in Seq(Env) /\ Len(t) = n - 1
            /\ \A i \in 1 .. n - 1 : t[i] = s[i + 1]
        BY <1>3, <2>2
      <3>4. QED
        BY <3>2, <3>3, SeqEqual
    <2>3. QED
      BY <2>1, <2>2
  <1>7. QED
    BY <1>2, <1>3, <1>5, <1>6 DEF Without

------------------------------------------------------------------------------
(* The steps *)

\* schedule either lets the current env go on, or ends its turn, or, when there is
\* no runnable current env, takes the head of the queue.
LEMMA ScheduleTurn ==
  ASSUME NEW q \in Queue, NEW st \in [Env -> Status], NEW e \in Env \cup {Null},
         NEW y \in BOOLEAN, schedule(q, st, e, y),
         QueueOf(q, {x \in Env : st[x] = RUNNABLE}),
         \/ e = Null
         \/ e \in Env /\ st[e] = RUNNABLE /\ TAILQ_FIRST(q) = e
         \/ e \in Env /\ st[e] # RUNNABLE /\ TAILQ_REMOVE(q, e) = q
  PROVE  \/ e # Null /\ st[e] = RUNNABLE /\ env_sched_list' = q /\ curenv' = e
         \/ /\ e # Null /\ st[e] = RUNNABLE
            /\ QueueSeq(env_sched_list') = Append(Tail(QueueSeq(q)), e)
            /\ curenv' = Head(QueueSeq(env_sched_list'))
         \/ /\ e # Null => st[e] # RUNNABLE
            /\ env_sched_list' = q
            /\ curenv' = IF QueueSeq(q) = <<>> THEN e ELSE Head(QueueSeq(q))
  <1> DEFINE R == {x \in Env : st[x] = RUNNABLE}
             removed == IF e = Null THEN q ELSE TAILQ_REMOVE(q, e)
             rotated == IF e # Null /\ st[e] = RUNNABLE
                        THEN TAILQ_INSERT_TAIL(removed, e) ELSE removed
             n == TAILQ_FIRST(rotated)
             keep == ~y /\ count > 0 /\ e # Null /\ st[e] = RUNNABLE
  <1>1. CASE keep
    BY <1>1 DEF schedule
  <1>2. CASE ~keep /\ ~(e # Null /\ st[e] = RUNNABLE)
    <2>1. rotated = q
      BY <1>2
    <2>2. /\ QueueSeq(q) = <<>> <=> R = {}
          /\ R # {} => Head(QueueSeq(q)) = TAILQ_FIRST(q)
      <3> HIDE DEF R
      <3>1. QueueOf(q, R)
        BY DEF R
      <3>2. QED
        BY <3>1, SeqOfQueue
    <2>3. (TAILQ_EMPTY(q) <=> R = {}) /\ (R # {} => TAILQ_FIRST(q) \in R)
      <3> HIDE DEF R
      <3>1. QueueOf(q, R)
        BY DEF R
      <3>2. QED
        BY <3>1, QueueFirst
    <2>4. CASE TAILQ_EMPTY(q)
      <3>1. env_sched_list' = q /\ curenv' = e
        BY <1>2, <2>1, <2>4 DEF schedule
      <3>2. QED
        BY <1>2, <2>2, <2>3, <2>4, <3>1
    <2>5. CASE ~TAILQ_EMPTY(q)
      <3>1. st[TAILQ_FIRST(q)] = RUNNABLE
        BY <2>3, <2>5
      <3>2. env_sched_list' = q /\ curenv' = TAILQ_FIRST(q)
        BY <1>2, <2>1, <2>5, <3>1 DEF schedule
      <3>3. QED
        BY <1>2, <2>2, <2>3, <2>5, <3>2
    <2>6. QED
      BY <2>4, <2>5
  <1>3. CASE ~keep /\ e # Null /\ st[e] = RUNNABLE
    <2>1. e \in Env /\ e \in R /\ TAILQ_FIRST(q) = e /\ rotated = TAILQ_INSERT_TAIL(TAILQ_REMOVE(q, e), e)
      BY <1>3
    <2>r. QueueOf(q, R)
      OBVIOUS
    <2> HIDE DEF R
    <2>2. /\ TAILQ_REMOVE(q, e) \in Queue /\ QueueOf(TAILQ_REMOVE(q, e), R \ {e})
          /\ QueueSeq(TAILQ_REMOVE(q, e)) = Tail(QueueSeq(q))
      BY <2>1, <2>r, QueueRemove, SeqRemove
    <2>3. /\ rotated \in Queue /\ QueueOf(rotated, (R \ {e}) \cup {e})
          /\ QueueSeq(rotated) = Append(Tail(QueueSeq(q)), e)
      <3> DEFINE T == R \ {e}
                 r == TAILQ_REMOVE(q, e)
      <3>1. r \in Queue /\ QueueOf(r, T) /\ e \in Env /\ e \notin T /\ QueueSeq(r) = Tail(QueueSeq(q))
        BY <2>1, <2>2
      <3> HIDE DEF T, r
      <3>2. /\ TAILQ_INSERT_TAIL(r, e) \in Queue /\ QueueOf(TAILQ_INSERT_TAIL(r, e), T \cup {e})
            /\ QueueSeq(TAILQ_INSERT_TAIL(r, e)) = Append(QueueSeq(r), e)
        BY <3>1, QueueInsertTail, SeqInsertTail
      <3>3. QED
        BY <2>1, <3>1, <3>2 DEF T, r
    <2> HIDE DEF rotated
    <2>4. (R \ {e}) \cup {e} = R /\ R # {}
      BY <2>1
    <2>5. ~TAILQ_EMPTY(rotated) /\ n \in R /\ Head(QueueSeq(rotated)) = n
      BY <2>3, <2>4, QueueFirst, SeqOfQueue
    <2>6. st[n] = RUNNABLE
      BY <2>5 DEF R
    <2>7. env_sched_list' = rotated /\ curenv' = n
      BY <1>3, <2>5, <2>6 DEF schedule, rotated
    <2>8. QED
      BY <1>3, <2>3, <2>5, <2>7
  <1>4. QED
    BY <1>1, <1>2, <1>3

\* What the abstract specification sees of a step.
Turn == Abstract!Next \/ UNCHANGED <<QueueSeq(env_sched_list), curenv>>

\* Every step of the process core is a step of the FIFO, or leaves it alone.
LEMMA TurnStep == ASSUME Liberties = {} PROVE IInv /\ [Next]_vars => Turn
  <1> SUFFICES ASSUME IInv, [Next]_vars PROVE Turn
    OBVIOUS
  <1> DEFINE ready == QueueSeq(env_sched_list)
  <1>0. /\ TypeOK /\ env_status \in [Env -> Status] /\ env_sched_list \in Queue
        /\ curenv \in Env \cup {Null}
    BY DEF IInv, TypeOK, Status
  <1>q. panicked = "no" => /\ QueueOf(env_sched_list, Runnable)
                           /\ ready \in Seq(Env)
                           /\ {ready[i] : i \in DOMAIN ready} = Runnable
                           /\ ready = <<>> <=> Runnable = {}
                           /\ Runnable # {} => Head(ready) = TAILQ_FIRST(env_sched_list)
    <2>1. SUFFICES ASSUME panicked = "no" PROVE QueueOf(env_sched_list, Runnable)
      BY <1>0, SeqOfQueue
    <2>2. QED
      BY <2>1 DEF IInv, SchedListInv
  <1>r. Running => /\ curenv \in Env /\ curenv # Null /\ curenv \in Runnable /\ ready # <<>>
                   /\ TAILQ_FIRST(env_sched_list) = curenv /\ env_status[curenv] = RUNNABLE
    BY <1>0, <1>q, Addresses DEF IInv, CurenvIsHead, Running, Runnable
  <1> HIDE DEF ready
  <1>1. ASSUME NEW p \in Priorities, env_create(p) PROVE Turn
    <2>1. PICK e \in Env : /\ env_alloc(e, ZeroId, RUNNABLE, p)
                           /\ env_sched_list' = TAILQ_INSERT_HEAD(env_sched_list, e)
      BY <1>1 DEF env_create
    <2>2. env_status[e] = FREE
      BY <1>0, <2>1, EnvAllocFree DEF IInv
    <2>3. curenv = Null /\ panicked = "no" /\ curenv' = curenv /\ e \notin Runnable
      BY <1>1, <2>2 DEF env_create, Booting, Runnable, FREE, RUNNABLE
    <2>4. QueueSeq(env_sched_list') = <<e>> \o ready
      BY <1>0, <1>q, <2>1, <2>3, SeqInsertHead DEF ready
    <2>5. QED
      BY <2>3, <2>4 DEF Turn, Abstract!Next, Abstract!Create, ready
  <1>2. ASSUME mips_init_schedule PROVE Turn
    <2>1. schedule(env_sched_list, env_status, Null, FALSE) /\ curenv = Null /\ panicked = "no"
      BY <1>2 DEF mips_init_schedule, Booting
    <2>2. QueueOf(env_sched_list, {x \in Env : env_status[x] = RUNNABLE})
      BY <1>q, <2>1 DEF Runnable
    <2>3. /\ env_sched_list' = env_sched_list
          /\ curenv' = IF ready = <<>> THEN Null ELSE Head(ready)
      BY <1>0, <2>1, <2>2, ScheduleTurn DEF ready
    <2>4. QED
      BY <2>1, <2>3 DEF Turn, Abstract!Next, Abstract!Start, Abstract!FrontOr, ready
  <1>3. ASSUME handle_int \/ sys_yield PROVE Turn
    <2>1. PICK y \in BOOLEAN : schedule(env_sched_list, env_status, curenv, y)
      BY <1>3 DEF handle_int, sys_yield
    <2>2. Running /\ panicked = "no"
      BY <1>3 DEF handle_int, sys_yield, Running
    <2>3. QueueOf(env_sched_list, {x \in Env : env_status[x] = RUNNABLE})
      BY <1>q, <2>2 DEF Runnable
    <2>4. \/ env_sched_list' = env_sched_list /\ curenv' = curenv
          \/ /\ QueueSeq(env_sched_list') = Append(Tail(ready), curenv)
             /\ curenv' = Head(QueueSeq(env_sched_list'))
      BY <1>0, <1>r, <2>1, <2>2, <2>3, ScheduleTurn DEF ready
    <2>5. QED
      BY <1>r, <2>2, <2>4 DEF Turn, Abstract!Next, Abstract!EndTurn, ready
  <1>4. ASSUME NEW id \in EnvId, sys_env_destroy(id) PROVE Turn
    <2>1. PICK e \in envid2env(id, TRUE) : env_destroy(e) /\ env_status[e] = RUNNABLE
      BY <1>4 DEF sys_env_destroy
    <2>2. e \in Env /\ Running /\ panicked = "no"
      BY <1>0, <1>4, Envid2envType DEF sys_env_destroy, Running
    <2> DEFINE q == TAILQ_REMOVE(env_sched_list, e)
    <2>3. e \in Runnable /\ QueueOf(env_sched_list, Runnable)
      BY <1>q, <2>1, <2>2 DEF Runnable
    <2>4. /\ q \in Queue /\ QueueOf(q, Runnable \ {e}) /\ ~RemoveFaults(env_sched_list, e)
          /\ \E k \in 1 .. Len(ready) : ready[k] = e /\ QueueSeq(q) = Without(ready, k)
          /\ e = TAILQ_FIRST(env_sched_list) => QueueSeq(q) = Tail(ready)
      BY <1>0, <2>3, QueueRemove, SeqRemove DEF ready
    <2>5. /\ env_status' = [env_status EXCEPT ![e] = FREE] /\ env_status' \in [Env -> Status]
          /\ Runnable \ {e} = {x \in Env : env_status'[x] = RUNNABLE}
      BY <1>0, <2>1, <2>2 DEF env_destroy, env_free, Runnable, Status, FREE, RUNNABLE
    <2>6. CASE e = curenv
      <3>1. schedule(q, env_status', Null, TRUE)
        BY <2>1, <2>4, <2>6 DEF env_destroy
      <3> HIDE DEF q
      <3>2. /\ env_sched_list' = q
            /\ curenv' = IF QueueSeq(q) = <<>> THEN Null ELSE Head(QueueSeq(q))
        <4>1. PICK st \in [Env -> Status] : st = env_status'
          BY <2>5
        <4>2. schedule(q, st, Null, TRUE) /\ QueueOf(q, {x \in Env : st[x] = RUNNABLE})
          BY <2>4, <2>5, <3>1, <4>1
        <4>3. QED
          BY <2>4, <4>2, ScheduleTurn
      <3>3. QueueSeq(env_sched_list') = Tail(ready)
        BY <1>r, <2>2, <2>4, <2>6, <3>2
      <3>4. QED
        BY <1>r, <2>2, <3>2, <3>3 DEF Turn, Abstract!Next, Abstract!Stop, ready
    <2>7. CASE e # curenv
      <3>1. env_sched_list' = q /\ curenv' = curenv
        BY <2>1, <2>4, <2>7 DEF env_destroy
      <3> HIDE DEF q
      <3>2. QED
        BY <1>r, <2>2, <2>4, <2>7, <3>1 DEF Turn, Abstract!Next, Abstract!Leave, Without, ready
    <2>8. QED
      BY <2>6, <2>7
  <1>5. ASSUME sys_exofork \/ sys_exofork_no_asid PROVE Turn
    BY <1>5 DEF sys_exofork, sys_exofork_no_asid, runVars, Turn
  <1>6. ASSUME NEW id \in EnvId, NEW st \in {RUNNABLE, NOT_RUNNABLE}, sys_set_env_status(id, st)
        PROVE  Turn
    <2>1. PICK e \in envid2env(id, TRUE) :
            /\ env_status[e] # st /\ e # curenv
            /\ \/ UNCHANGED env_sched_list
               \/ env_sched_list' = IF st = RUNNABLE
                                    THEN TAILQ_INSERT_TAIL(env_sched_list, e)
                                    ELSE TAILQ_REMOVE(env_sched_list, e)
      BY <1>6 DEF sys_set_env_status
    <2>2. Running /\ panicked = "no" /\ curenv' = curenv
      BY <1>6 DEF sys_set_env_status, Running
    <2>3. e \in Env /\ env_status[e] # FREE
      <3>1. e \in Env
        BY <1>0, <1>6, <2>2, Envid2envType DEF Running
      <3>2. QED
        BY <2>1, <3>1 DEF envid2env
    <2>4. CASE UNCHANGED env_sched_list
      BY <2>2, <2>4 DEF Turn
    <2>5. CASE st = RUNNABLE /\ env_sched_list' = TAILQ_INSERT_TAIL(env_sched_list, e)
      <3>1. e \notin Runnable
        BY <2>1, <2>5 DEF Runnable
      <3>2. QueueSeq(env_sched_list') = Append(ready, e)
        BY <1>0, <1>q, <2>2, <2>3, <2>5, <3>1, SeqInsertTail DEF ready
      <3>3. \A i \in DOMAIN ready : ready[i] # e
        BY <1>q, <2>2, <3>1
      <3>4. QED
        BY <1>r, <2>2, <2>3, <3>2, <3>3 DEF Turn, Abstract!Next, Abstract!Wake, ready
    <2>6. CASE st = NOT_RUNNABLE /\ env_sched_list' = TAILQ_REMOVE(env_sched_list, e)
      <3>1. env_status[e] = RUNNABLE /\ e \in Runnable
        BY <1>0, <2>1, <2>3, <2>6 DEF Status, Runnable
      <3>2. \E k \in 1 .. Len(ready) :
              ready[k] = e /\ QueueSeq(env_sched_list') = Without(ready, k)
        BY <1>0, <1>q, <2>2, <2>6, <3>1, SeqRemove DEF ready
      <3>3. QED
        BY <1>r, <2>1, <2>2, <2>3, <3>2 DEF Turn, Abstract!Next, Abstract!Leave, Without, ready
    <2>7. QED
      BY <2>1, <2>4, <2>5, <2>6 DEF RUNNABLE, NOT_RUNNABLE
  <1>7. ASSUME sys_ipc_recv PROVE Turn
    <2> DEFINE q == TAILQ_REMOVE(env_sched_list, curenv)
    <2>1. /\ Running /\ panicked = "no" /\ schedule(q, env_status', curenv, TRUE)
          /\ env_status' = [env_status EXCEPT ![curenv] = NOT_RUNNABLE]
      BY <1>7 DEF sys_ipc_recv, Running
    <2>2. QueueOf(env_sched_list, Runnable) /\ curenv \in Runnable
      BY <1>q, <1>r, <2>1
    <2>3. /\ q \in Queue /\ QueueOf(q, Runnable \ {curenv}) /\ TAILQ_REMOVE(q, curenv) = q
          /\ QueueSeq(q) = Tail(ready)
      BY <1>0, <1>r, <2>1, <2>2, QueueRemove, SeqRemove DEF ready
    <2>4. /\ env_status' \in [Env -> Status] /\ env_status'[curenv] # RUNNABLE
          /\ Runnable \ {curenv} = {x \in Env : env_status'[x] = RUNNABLE}
      BY <1>0, <1>r, <2>1 DEF Runnable, Status, NOT_RUNNABLE, RUNNABLE
    <2> HIDE DEF q
    <2>5. /\ env_sched_list' = q
          /\ curenv' = IF QueueSeq(q) = <<>> THEN curenv ELSE Head(QueueSeq(q))
      <3>1. curenv \in Env /\ curenv # Null
        BY <1>r, <2>1
      <3>2. QED
        BY <2>1, <2>3, <2>4, <3>1, ScheduleTurn
    <2>6. QED
      BY <1>r, <2>1, <2>3, <2>5 DEF Turn, Abstract!Next, Abstract!Stop, ready
  <1>8. ASSUME NEW id \in EnvId, NEW v \in Values, sys_ipc_try_send(id, v) PROVE Turn
    <2>1. PICK e \in envid2env(id, FALSE) :
            env_ipc_recving[e] /\ env_sched_list' = TAILQ_INSERT_TAIL(env_sched_list, e)
      BY <1>8 DEF sys_ipc_try_send
    <2>2. e \in Env /\ Running /\ panicked = "no" /\ curenv' = curenv
      BY <1>0, <1>8, Envid2envType DEF sys_ipc_try_send, Running
    <2>3. e \notin Runnable
      BY <2>1, <2>2 DEF IInv, ReceiverIsBlocked, Runnable, NOT_RUNNABLE, RUNNABLE
    <2>4. QueueSeq(env_sched_list') = Append(ready, e)
      BY <1>0, <1>q, <2>1, <2>2, <2>3, SeqInsertTail DEF ready
    <2>5. \A i \in DOMAIN ready : ready[i] # e
      BY <1>q, <2>2, <2>3
    <2>6. QED
      BY <1>r, <2>2, <2>4, <2>5 DEF Turn, Abstract!Next, Abstract!Wake, ready
  <1>9. CASE UNCHANGED vars
    BY <1>9 DEF vars, runVars, Turn
  <1>10. QED
    BY <1>1, <1>2, <1>3, <1>4, <1>5, <1>6, <1>7, <1>8, <1>9 DEF Next

\* The initial state is the empty FIFO.
LEMMA TurnInit == Init => Abstract!Init
  <1> SUFFICES ASSUME Init PROVE Abstract!Init
    OBVIOUS
  <1>1. env_sched_list = TAILQ_INIT /\ curenv = Null
    BY DEF Init
  <1>2. QueueSeq(TAILQ_INIT) = <<>>
    BY QueueInit, SeqOfQueue
  <1>3. QED
    BY <1>1, <1>2 DEF Abstract!Init

\* The kernel's run queue takes its turns as the FIFO says: the order in which envs
\* get the processor changes in no other way, whatever sequence of creations, exits,
\* suspensions, wake-ups, IPCs and clock interrupts.
THEOREM TurnsInOrder == ASSUME Liberties = {} PROVE Spec => Abstract!Turns
  BY TurnInit, TurnStep, Invariance, PTL DEF Spec, Abstract!Turns, Turn
==============================================================================
