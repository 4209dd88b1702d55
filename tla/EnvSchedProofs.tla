---------------------------- MODULE EnvSchedProofs ----------------------------
(***************************************************************************)
(* The process core keeps its types and, when callers keep the discipline  *)
(* (Liberties = {}), its invariants, for every number of slots and asids,  *)
(* every priority and every bound.                                         *)
(***************************************************************************)
EXTENDS EnvSched, TailQueueProofs, WellFoundedInduction

Status == {FREE, RUNNABLE, NOT_RUNNABLE}
Panics == {"no", "No runnable envs", "env_run: env not RUNNABLE", "store through NULL"}

------------------------------------------------------------------------------
(* Types *)

\* The macros yield a head and links of the right types, on any queue.
LEMMA QueueTypes ==
  ASSUME NEW q \in Queue, NEW e \in Env
  PROVE  /\ TAILQ_INSERT_HEAD(q, e) \in Queue
         /\ TAILQ_INSERT_TAIL(q, e) \in Queue
         /\ TAILQ_REMOVE(q, e) \in Queue
  BY DEF Queue, Cell, TAILQ_INSERT_HEAD, TAILQ_INSERT_TAIL, TAILQ_REMOVE

\* asid_alloc finds a clear bit whenever there is one.
LEMMA AsidAllocFinds ==
  ASSUME asid_bitmap \in SUBSET (0 .. NASID - 1), asid_bitmap # 0 .. NASID - 1
  PROVE  asid_alloc \in 0 .. NASID - 1 /\ asid_alloc \notin asid_bitmap
  <1> DEFINE clear == (0 .. NASID - 1) \ asid_bitmap
  <1>0. clear # {}
    <2> DEFINE A == 0 .. NASID - 1
    <2> HIDE DEF A
    <2>1. asid_bitmap \subseteq A /\ asid_bitmap # A
      BY DEF A
    <2>2. A \ asid_bitmap # {}
      BY <2>1
    <2>3. QED
      BY <2>2 DEF A
  <1>1. clear \subseteq Nat /\ clear # {}
    BY <1>0, NASIDAssumption
  <1>2. \E x \in clear : \A y \in clear : ~ (<<y, x>> \in OpToRel(<, Nat))
    <2> HIDE DEF clear
    <2>1. QED
      BY <1>1, WFMin, NatLessThanWellFounded
  <1>3. PICK x \in clear : \A y \in clear : ~ (y < x)
    BY <1>1, <1>2 DEF OpToRel
  <1>4. \A b \in 0 .. x - 1 : b \in asid_bitmap
    BY <1>3, NASIDAssumption
  <1>5. QED
    BY <1>3, <1>4 DEF asid_alloc

\* mkenvid makes an id of the right width.
LEMMA MkenvidType ==
  ASSUME mkenvid_i \in Nat, NEW e \in Env PROVE mkenvid(e) \in EnvId
  <1>1. (mkenvid_i + 1) % GenMod \in 0 .. GenMod - 1
    BY GenModAssumption
  <1>2. QED
    BY <1>1 DEF mkenvid, EnvId

\* schedule keeps the types of what it assigns.
LEMMA ScheduleType ==
  ASSUME TypeOK, NEW q \in Queue, NEW st \in [Env -> Status],
         NEW e \in Env \cup {Null}, NEW y \in BOOLEAN, schedule(q, st, e, y)
  PROVE  /\ env_sched_list' \in Queue
         /\ curenv' \in Env \cup {Null}
         /\ count' \in Int
         /\ panicked' \in Panics
  <1> DEFINE removed == IF e = Null THEN q ELSE TAILQ_REMOVE(q, e)
             rotated == IF e # Null /\ st[e] = RUNNABLE
                        THEN TAILQ_INSERT_TAIL(removed, e) ELSE removed
             n == TAILQ_FIRST(rotated)
             keep == ~y /\ count > 0 /\ e # Null /\ st[e] = RUNNABLE
  <1>1. removed \in Queue /\ rotated \in Queue
    BY QueueTypes
  <1>2. n \in Env \cup {Null} /\ (~TAILQ_EMPTY(rotated) => n \in Env)
    BY <1>1 DEF TAILQ_FIRST, TAILQ_EMPTY, Queue
  <1>3. CASE keep
    <2>1. /\ env_sched_list' = q /\ curenv' = e
          /\ count' = count - 1 /\ panicked' = panicked
      BY <1>3 DEF schedule
    <2>2. count \in Int /\ panicked \in Panics
      BY DEF TypeOK, Panics
    <2>3. QED
      BY <2>1, <2>2
  <1>4. CASE ~keep /\ TAILQ_EMPTY(rotated)
    <2>1. /\ env_sched_list' = rotated /\ curenv' = e
          /\ count' = count /\ panicked' = "No runnable envs"
      BY <1>4 DEF schedule
    <2>2. count \in Int
      BY DEF TypeOK
    <2>3. QED
      BY <1>1, <2>1, <2>2 DEF Panics
  <1>5. CASE ~keep /\ ~TAILQ_EMPTY(rotated)
    <2>1. /\ env_sched_list' = rotated
          /\ count' = env_pri[n] - 1
          /\ \/ curenv' = n /\ panicked' = panicked
             \/ curenv' = e /\ panicked' = "env_run: env not RUNNABLE"
      BY <1>5 DEF schedule
    <2>2. env_pri \in [Env -> Nat] /\ panicked \in Panics
      BY DEF TypeOK, Panics
    <2>3. n \in Env
      BY <1>2, <1>5
    <2> HIDE DEF n, rotated
    <2>4. env_pri[n] - 1 \in Int
      BY <2>2, <2>3
    <2>5. QED
      BY <1>1, <2>1, <2>2, <2>3, <2>4 DEF Panics
  <1>6. QED
    BY <1>3, <1>4, <1>5

\* A successful env_alloc keeps the types.
LEMMA EnvAllocType ==
  ASSUME TypeOK, NEW e, NEW pid \in EnvId, NEW st \in Status, NEW pri \in Nat,
         env_alloc(e, pid, st, pri)
  PROVE  /\ e \in Env
         /\ env_id' \in [Env -> EnvId] /\ env_parent_id' \in [Env -> EnvId]
         /\ env_pri' \in [Env -> Nat] /\ env_asid' \in [Env -> 0 .. NASID - 1]
         /\ asid_bitmap' \in SUBSET (0 .. NASID - 1) /\ mkenvid_i' \in Nat
         /\ env_free_list' \in Seq(Env) /\ env_status' \in [Env -> Status]
  <1>1. e \in Env
    <2>1. env_free_list \in Seq(Env) /\ env_free_list # <<>> /\ e = Head(env_free_list)
      BY DEF TypeOK, env_alloc
    <2>2. QED
      BY <2>1
  <1>2. mkenvid(e) \in EnvId
    BY <1>1, MkenvidType DEF TypeOK
  <1>3. asid_alloc \in 0 .. NASID - 1
    BY AsidAllocFinds DEF TypeOK, env_alloc
  <1>4. QED
    <2>1. env_free_list' \in Seq(Env)
      <3>1. env_free_list \in Seq(Env) /\ env_free_list # <<>> /\ env_free_list' = Tail(env_free_list)
        BY DEF TypeOK, env_alloc
      <3>2. QED
        BY <3>1
    <2>2. env_id' \in [Env -> EnvId] /\ env_parent_id' \in [Env -> EnvId]
      BY <1>1, <1>2 DEF TypeOK, env_alloc
    <2>3. env_pri' \in [Env -> Nat] /\ env_status' \in [Env -> Status]
      BY <1>1 DEF TypeOK, env_alloc, Status
    <2>4. env_asid' \in [Env -> 0 .. NASID - 1] /\ asid_bitmap' \in SUBSET (0 .. NASID - 1)
      BY <1>1, <1>3 DEF TypeOK, env_alloc
    <2>5. mkenvid_i' \in Nat
      <3>1. mkenvid_i \in Nat /\ mkenvid_i' = mkenvid_i + 1
        BY DEF TypeOK, env_alloc
      <3>2. QED
        BY <3>1
    <2>6. QED
      BY <1>1, <2>1, <2>2, <2>3, <2>4, <2>5

\* envid2env returns envs.
LEMMA Envid2envType ==
  ASSUME TypeOK, curenv # Null, NEW id \in EnvId, NEW c \in BOOLEAN, NEW e \in envid2env(id, c)
  PROVE  e \in Env
  BY DEF TypeOK, envid2env, EnvId, ENVX

\* env_free and env_destroy keep the types.
LEMMA EnvDestroyType ==
  ASSUME TypeOK, NEW e \in Env, env_destroy(e)
  PROVE  TypeOK'
  <1>1. /\ env_status' \in [Env -> Status]
        /\ asid_bitmap' \in SUBSET (0 .. NASID - 1)
        /\ retired' \in SUBSET EnvId
    BY DEF TypeOK, env_destroy, env_free, Status
  <1>2. env_free_list' \in Seq(Env)
    <2>1. env_free_list \in Seq(Env) /\ env_free_list' = <<e>> \o env_free_list
      BY DEF TypeOK, env_destroy, env_free
    <2>2. QED
      BY <2>1
  <1>3. /\ env_id' \in [Env -> EnvId] /\ env_parent_id' \in [Env -> EnvId]
        /\ env_pri' \in [Env -> Nat] /\ env_asid' \in [Env -> 0 .. NASID - 1]
        /\ mkenvid_i' \in Nat /\ env_ipc_recving' \in [Env -> BOOLEAN]
        /\ env_ipc_msg' \in [Env -> Message \cup {<<>>}]
    BY DEF TypeOK, env_destroy, env_free, ipcVars
  <1>4. /\ env_sched_list' \in Queue /\ curenv' \in Env \cup {Null}
        /\ count' \in Int /\ panicked' \in Panics
    <2> DEFINE q == TAILQ_REMOVE(env_sched_list, e)
    <2>0. /\ env_sched_list \in Queue /\ curenv \in Env \cup {Null}
          /\ count \in Int /\ panicked \in Panics
      BY DEF TypeOK, Panics
    <2>1. q \in Queue
      BY <2>0, QueueTypes
    <2>2. CASE RemoveFaults(env_sched_list, e)
      BY <2>0, <2>2 DEF env_destroy, Panics
    <2>3. CASE ~RemoveFaults(env_sched_list, e) /\ e = curenv
      <3>1. schedule(q, env_status', Null, TRUE)
        BY <2>3 DEF env_destroy
      <3>2. QED
        BY <1>1, <2>1, <3>1, ScheduleType
    <2>4. CASE ~RemoveFaults(env_sched_list, e) /\ e # curenv
      BY <2>0, <2>1, <2>4 DEF env_destroy
    <2>5. QED
      BY <2>2, <2>3, <2>4
  <1>5. QED
    BY <1>1, <1>2, <1>3, <1>4 DEF TypeOK, Status, Panics

\* Every step keeps the types.
LEMMA TypeStep == TypeOK /\ [Next]_vars => TypeOK'
  <1> SUFFICES ASSUME TypeOK, [Next]_vars PROVE TypeOK'
    OBVIOUS
  <1>0. /\ env_status \in [Env -> Status] /\ env_sched_list \in Queue
        /\ curenv \in Env \cup {Null}
    BY DEF TypeOK, Status
  <1>1. ASSUME NEW p \in Priorities, env_create(p) PROVE TypeOK'
    <2>1. PICK e \in Env : /\ env_alloc(e, ZeroId, RUNNABLE, p)
                           /\ env_sched_list' = TAILQ_INSERT_HEAD(env_sched_list, e)
      BY <1>1 DEF env_create
    <2>2. ZeroId \in EnvId /\ RUNNABLE \in Status /\ p \in Nat
      BY PrioritiesAssumption, GenModAssumption, NENVAssumption DEF ZeroId, EnvId, Status, Env
    <2>3. env_sched_list' \in Queue
      BY <1>0, <2>1, QueueTypes
    <2>4. UNCHANGED <<env_ipc_recving, env_ipc_msg, curenv, count, panicked, retired>>
      BY <1>1 DEF env_create, ipcVars
    <2>5. QED
      BY <2>1, <2>2, <2>3, <2>4, EnvAllocType DEF TypeOK, Status
  <1>2. ASSUME \/ mips_init_schedule \/ handle_int \/ sys_yield
        PROVE  TypeOK'
    <2>1. PICK e \in Env \cup {Null}, y \in BOOLEAN : schedule(env_sched_list, env_status, e, y)
      BY <1>0, <1>2 DEF mips_init_schedule, handle_int, sys_yield
    <2>2. UNCHANGED <<env_status, allocVars, ipcVars, retired>>
      BY <1>2 DEF mips_init_schedule, handle_int, sys_yield
    <2>3. /\ env_sched_list' \in Queue /\ curenv' \in Env \cup {Null}
          /\ count' \in Int /\ panicked' \in Panics
      BY <1>0, <2>1, ScheduleType
    <2>4. QED
      BY <2>2, <2>3 DEF TypeOK, allocVars, ipcVars, Panics
  <1>3. ASSUME NEW id \in EnvId, sys_env_destroy(id) PROVE TypeOK'
    <2>1. PICK e \in envid2env(id, TRUE) : env_destroy(e)
      BY <1>3 DEF sys_env_destroy
    <2>2. e \in Env
      BY <1>3, Envid2envType DEF sys_env_destroy, Running
    <2>3. QED
      BY <2>1, <2>2, EnvDestroyType
  <1>4. ASSUME sys_exofork PROVE TypeOK'
    <2>1. PICK e \in Env : env_alloc(e, env_id[curenv], NOT_RUNNABLE, env_pri[curenv])
      BY <1>4 DEF sys_exofork
    <2>2. env_id[curenv] \in EnvId /\ NOT_RUNNABLE \in Status /\ env_pri[curenv] \in Nat
      BY <1>0, <1>4 DEF sys_exofork, Running, TypeOK, Status
    <2>3. UNCHANGED <<env_ipc_recving, env_ipc_msg, env_sched_list, curenv, count, panicked, retired>>
      BY <1>4 DEF sys_exofork, ipcVars, runVars
    <2>4. QED
      BY <2>1, <2>2, <2>3, EnvAllocType DEF TypeOK, Status
  <1>5. ASSUME sys_exofork_no_asid PROVE TypeOK'
    <2> DEFINE e == Head(env_free_list)
    <2>1. e \in Env
      <3>1. env_free_list \in Seq(Env) /\ env_free_list # <<>>
        BY <1>5 DEF TypeOK, sys_exofork_no_asid, env_alloc_no_asid
      <3>2. QED
        BY <3>1
    <2>2. mkenvid(e) \in EnvId
      BY <2>1, MkenvidType DEF TypeOK
    <2>3. env_id' \in [Env -> EnvId]
      BY <1>5, <2>1, <2>2 DEF TypeOK, sys_exofork_no_asid, env_alloc_no_asid
    <2>4. mkenvid_i' \in Nat
      <3>1. mkenvid_i \in Nat /\ mkenvid_i' = mkenvid_i + 1
        BY <1>5 DEF TypeOK, sys_exofork_no_asid, env_alloc_no_asid
      <3>2. QED
        BY <3>1
    <2>5. UNCHANGED <<env_status, env_parent_id, env_pri, env_asid, asid_bitmap, env_free_list,
                      env_ipc_recving, env_ipc_msg, env_sched_list, curenv, count, panicked, retired>>
      BY <1>5 DEF sys_exofork_no_asid, env_alloc_no_asid, ipcVars, runVars
    <2>6. QED
      BY <2>3, <2>4, <2>5 DEF TypeOK
  <1>6. ASSUME NEW id \in EnvId, NEW st \in {RUNNABLE, NOT_RUNNABLE}, sys_set_env_status(id, st)
        PROVE  TypeOK'
    <2>1. PICK e \in envid2env(id, TRUE) :
            \/ panicked' = "store through NULL" /\ UNCHANGED <<env_status, env_sched_list>>
            \/ /\ env_sched_list' = IF st = RUNNABLE
                                    THEN TAILQ_INSERT_TAIL(env_sched_list, e)
                                    ELSE TAILQ_REMOVE(env_sched_list, e)
               /\ env_status' = [env_status EXCEPT ![e] = st]
               /\ UNCHANGED panicked
      BY <1>6 DEF sys_set_env_status
    <2>2. e \in Env
      BY <1>6, Envid2envType DEF sys_set_env_status, Running
    <2>3. env_sched_list' \in Queue /\ env_status' \in [Env -> Status] /\ panicked' \in Panics
      <3>0. /\ TAILQ_INSERT_TAIL(env_sched_list, e) \in Queue
            /\ TAILQ_REMOVE(env_sched_list, e) \in Queue
        BY <1>0, <2>2, QueueTypes
      <3>1. env_sched_list' \in Queue
        BY <1>0, <2>1, <3>0
      <3>2. env_status' \in [Env -> Status]
        BY <1>0, <2>1, <2>2 DEF Status
      <3>3. panicked' \in Panics
        BY <2>1 DEF TypeOK, Panics
      <3>4. QED
        BY <3>1, <3>2, <3>3
    <2>4. UNCHANGED <<allocVars, ipcVars, curenv, count, retired>>
      BY <1>6 DEF sys_set_env_status
    <2>5. QED
      BY <2>3, <2>4 DEF TypeOK, allocVars, ipcVars, Status, Panics
  <1>7. ASSUME sys_ipc_recv PROVE TypeOK'
    <2>1. curenv \in Env
      BY <1>0, <1>7 DEF sys_ipc_recv, Running
    <2>2. env_status' \in [Env -> Status] /\ env_ipc_recving' \in [Env -> BOOLEAN]
      BY <1>7, <2>1 DEF sys_ipc_recv, TypeOK, Status
    <2>3. schedule(TAILQ_REMOVE(env_sched_list, curenv), env_status', curenv, TRUE)
      BY <1>7 DEF sys_ipc_recv
    <2>4. /\ env_sched_list' \in Queue /\ curenv' \in Env \cup {Null}
          /\ count' \in Int /\ panicked' \in Panics
      BY <1>0, <2>1, <2>2, <2>3, QueueTypes, ScheduleType
    <2>5. UNCHANGED <<allocVars, env_ipc_msg, retired>>
      BY <1>7 DEF sys_ipc_recv
    <2>6. QED
      BY <2>2, <2>4, <2>5 DEF TypeOK, allocVars, Status, Panics
  <1>8. ASSUME NEW id \in EnvId, NEW v \in Values, sys_ipc_try_send(id, v) PROVE TypeOK'
    <2>1. PICK e \in envid2env(id, FALSE) :
            /\ env_ipc_msg' = [env_ipc_msg EXCEPT ![e] = [from |-> env_id[curenv], value |-> v]]
            /\ env_ipc_recving' = [env_ipc_recving EXCEPT ![e] = FALSE]
            /\ env_status' = [env_status EXCEPT ![e] = RUNNABLE]
            /\ env_sched_list' = TAILQ_INSERT_TAIL(env_sched_list, e)
      BY <1>8 DEF sys_ipc_try_send
    <2>2. e \in Env /\ curenv \in Env
      BY <1>0, <1>8, Envid2envType DEF sys_ipc_try_send, Running
    <2>3. [from |-> env_id[curenv], value |-> v] \in Message
      BY <2>2 DEF Message, TypeOK
    <2>4. env_ipc_msg' \in [Env -> Message \cup {<<>>}]
      BY <2>1, <2>2, <2>3 DEF TypeOK
    <2>5. env_ipc_recving' \in [Env -> BOOLEAN] /\ env_status' \in [Env -> Status]
      BY <2>1, <2>2 DEF TypeOK, Status
    <2>6. env_sched_list' \in Queue
      BY <1>0, <2>1, <2>2, QueueTypes
    <2>7. UNCHANGED <<allocVars, curenv, count, panicked, retired>>
      BY <1>8 DEF sys_ipc_try_send
    <2>8. QED
      BY <2>4, <2>5, <2>6, <2>7 DEF TypeOK, allocVars, Status
  <1>9. CASE UNCHANGED vars
    BY <1>9 DEF vars, allocVars, ipcVars, runVars, TypeOK
  <1>10. QED
    BY <1>1, <1>2, <1>3, <1>4, <1>5, <1>6, <1>7, <1>8, <1>9 DEF Next

\* The initial state has the types.
LEMMA TypeInit == Init => TypeOK
  <1> SUFFICES ASSUME Init PROVE TypeOK
    OBVIOUS
  <1>1. ZeroId \in EnvId
    BY GenModAssumption, NENVAssumption DEF ZeroId, EnvId, Env
  <1>2. env_free_list \in Seq(Env)
    <2>1. [i \in 1 .. NENV |-> i - 1] \in [1 .. NENV -> Env] /\ NENV \in Nat
      BY NENVAssumption DEF Env
    <2>2. QED
      BY <2>1 DEF Init
  <1>3. env_sched_list \in Queue
    BY QueueInit DEF Init
  <1>4. 0 \in 0 .. NASID - 1
    BY NASIDAssumption
  <1>5. QED
    BY <1>1, <1>2, <1>3, <1>4 DEF Init, TypeOK

\* The process core keeps its types, whatever its callers do: every list link
\* stays a slot, the head cell or NULL, and every id and asid stays in range.
THEOREM TypeCorrect == Spec => []TypeOK
  BY TypeInit, TypeStep, PTL DEF Spec

------------------------------------------------------------------------------
(***************************************************************************)
(* The invariants, for callers that keep the discipline.  No part is       *)
(* inductive alone: inserting is safe because the inserted env is not      *)
(* RUNNABLE, which for a new env rests on FreeListInv and for a receiver on *)
(* ReceiverIsBlocked; schedule's TAILQ_REMOVE of curenv is safe because of *)
(* CurenvIsHead.                                                           *)
(***************************************************************************)
IInv ==
  /\ TypeOK
  /\ SchedListInv
  /\ CurenvIsHead
  /\ ReceiverIsBlocked
  /\ FreeListInv
  /\ NoKernelFault

\* What schedule does to a queue that is well formed when it is called: with no
\* current env, with a runnable current env in the queue, or with a current env
\* that has just left it and whose stale links schedule uses once more.
LEMMA ScheduleKeeps ==
  ASSUME TypeOK, panicked = "no",
         NEW q \in Queue, NEW st \in [Env -> Status], NEW e \in Env \cup {Null},
         NEW y \in BOOLEAN, schedule(q, st, e, y),
         QueueOf(q, {x \in Env : st[x] = RUNNABLE}),
         \/ e = Null
         \/ e \in Env /\ st[e] = RUNNABLE /\ TAILQ_FIRST(q) = e
         \/ e \in Env /\ st[e] # RUNNABLE /\ TAILQ_REMOVE(q, e) = q
  PROVE  \/ /\ panicked' = "no"
            /\ QueueOf(env_sched_list', {x \in Env : st[x] = RUNNABLE})
            /\ curenv' \in Env /\ st[curenv'] = RUNNABLE
            /\ TAILQ_FIRST(env_sched_list') = curenv'
         \/ panicked' = "No runnable envs"
  <1> DEFINE R == {x \in Env : st[x] = RUNNABLE}
             removed == IF e = Null THEN q ELSE TAILQ_REMOVE(q, e)
             rotated == IF e # Null /\ st[e] = RUNNABLE
                        THEN TAILQ_INSERT_TAIL(removed, e) ELSE removed
             n == TAILQ_FIRST(rotated)
             keep == ~y /\ count > 0 /\ e # Null /\ st[e] = RUNNABLE
  <1>1. rotated \in Queue /\ QueueOf(rotated, R)
    <2>1. CASE e = Null
      BY <2>1
    <2>2. CASE e \in Env /\ st[e] = RUNNABLE
      <3> HIDE DEF R
      <3>1. e \in R /\ e # Null /\ R = (R \ {e}) \cup {e} /\ QueueOf(q, R)
        BY <2>2, Addresses DEF R
      <3>2. TAILQ_REMOVE(q, e) \in Queue /\ QueueOf(TAILQ_REMOVE(q, e), R \ {e})
        BY <3>1, QueueRemove
      <3>3. /\ TAILQ_INSERT_TAIL(TAILQ_REMOVE(q, e), e) \in Queue
            /\ QueueOf(TAILQ_INSERT_TAIL(TAILQ_REMOVE(q, e), e), (R \ {e}) \cup {e})
        BY <2>2, <3>2, QueueInsertTail
      <3>4. QED
        BY <2>2, <3>1, <3>3
    <2>3. CASE e \in Env /\ st[e] # RUNNABLE
      BY <2>3, Addresses
    <2>4. QED
      BY <2>1, <2>2, <2>3
  <1>2. /\ TAILQ_EMPTY(rotated) <=> R = {}
        /\ R # {} => n \in R
    <2> HIDE DEF R, rotated
    <2>1. QED
      BY <1>1, QueueFirst DEF n
  <1>3. CASE keep
    <2>1. env_sched_list' = q /\ curenv' = e /\ panicked' = panicked
      BY <1>3 DEF schedule
    <2>2. QED
      BY <1>3, <2>1
  <1>4. CASE ~keep /\ TAILQ_EMPTY(rotated)
    BY <1>4 DEF schedule
  <1>5. CASE ~keep /\ ~TAILQ_EMPTY(rotated)
    <2>1. /\ env_sched_list' = rotated
          /\ IF st[n] = RUNNABLE
             THEN curenv' = n /\ panicked' = panicked
             ELSE curenv' = e /\ panicked' = "env_run: env not RUNNABLE"
      BY <1>5 DEF schedule
    <2>2. n \in Env /\ st[n] = RUNNABLE
      BY <1>2, <1>5
    <2> HIDE DEF rotated
    <2>3. QED
      BY <1>1, <2>1, <2>2
  <1>6. QED
    BY <1>3, <1>4, <1>5

\* The slot env_alloc takes from the free list is free, and the free list
\* afterwards holds the remaining free slots.
LEMMA EnvAllocFree ==
  ASSUME TypeOK, FreeListInv, NEW e, NEW pid, NEW st \in {RUNNABLE, NOT_RUNNABLE}, NEW pri,
         env_alloc(e, pid, st, pri)
  PROVE  e \in Env /\ env_status[e] = FREE /\ FreeListInv'
  <1> DEFINE f == env_free_list
  <1>0. f \in Seq(Env) /\ f # <<>> /\ e = Head(f) /\ env_free_list' = Tail(f)
    BY DEF TypeOK, env_alloc
  <1>1. e \in Env /\ 1 \in DOMAIN f /\ f[1] = e
    BY <1>0
  <1>2. /\ \A i, j \in DOMAIN f : f[i] = f[j] => i = j
        /\ {f[i] : i \in DOMAIN f} = Env \ Live
    BY DEF FreeListInv
  <1>3. e \notin Live
    BY <1>1, <1>2
  <1>4. env_status[e] = FREE
    BY <1>1, <1>3 DEF Live
  <1>5. Live' = Live \cup {e}
    <2>1. env_status' = [env_status EXCEPT ![e] = st] /\ st # FREE
      BY DEF env_alloc, FREE, RUNNABLE, NOT_RUNNABLE
    <2>2. env_status \in [Env -> Status]
      BY DEF TypeOK, Status
    <2>3. QED
      BY <1>1, <2>1, <2>2 DEF Live
  <1>6. /\ DOMAIN Tail(f) = 1 .. Len(f) - 1 /\ DOMAIN f = 1 .. Len(f) /\ Len(f) \in Nat
        /\ \A i \in 1 .. Len(f) - 1 : Tail(f)[i] = f[i + 1]
    BY <1>0
  <1>7. \A i, j \in DOMAIN Tail(f) : Tail(f)[i] = Tail(f)[j] => i = j
    <2>1. SUFFICES ASSUME NEW i \in 1 .. Len(f) - 1, NEW j \in 1 .. Len(f) - 1,
                          f[i + 1] = f[j + 1]
                   PROVE  i = j
      BY <1>6
    <2>2. i + 1 = j + 1
      BY <1>2, <1>6, <2>1
    <2>3. QED
      BY <2>2
  <1>8. {Tail(f)[i] : i \in DOMAIN Tail(f)} = {f[i] : i \in DOMAIN f} \ {e}
    <2>1. ASSUME NEW i \in 1 .. Len(f) - 1
          PROVE  f[i + 1] \in {f[j] : j \in DOMAIN f} \ {e}
      BY <1>1, <1>2, <1>6
    <2>2. ASSUME NEW j \in 1 .. Len(f), f[j] # e
          PROVE  j - 1 \in 1 .. Len(f) - 1 /\ f[j] = Tail(f)[j - 1]
      BY <1>1, <1>6, <2>2
    <2> DEFINE h == Tail(f)
    <2>3. /\ \A i \in DOMAIN h : h[i] \in {f[j] : j \in DOMAIN f} \ {e}
          /\ \A j \in DOMAIN f : f[j] # e => j - 1 \in DOMAIN h /\ f[j] = h[j - 1]
      BY <1>6, <2>1, <2>2
    <2> HIDE DEF h, f
    <2>4. {h[i] : i \in DOMAIN h} = {f[i] : i \in DOMAIN f} \ {e}
      BY <2>3
    <2>5. QED
      BY <2>4 DEF h
  <1>9. {Tail(f)[i] : i \in DOMAIN Tail(f)} = Env \ Live'
    BY <1>2, <1>5, <1>8
  <1>10. QED
    BY <1>0, <1>1, <1>4, <1>7, <1>9 DEF FreeListInv

\* env_free returns a live slot to the free list.
LEMMA EnvFreeFree ==
  ASSUME TypeOK, FreeListInv, NEW e \in Env, env_status[e] # FREE, env_free(e)
  PROVE  FreeListInv'
  <1> DEFINE f == env_free_list
             g == <<e>> \o f
  <1>0. f \in Seq(Env) /\ env_free_list' = g /\ env_status \in [Env -> Status]
        /\ env_status' = [env_status EXCEPT ![e] = FREE]
    BY DEF TypeOK, env_free, Status
  <1>1. /\ \A i, j \in DOMAIN f : f[i] = f[j] => i = j
        /\ {f[i] : i \in DOMAIN f} = Env \ Live
    BY DEF FreeListInv
  <1>2. e \in Live /\ Live' = Live \ {e}
    BY <1>0 DEF Live
  <1>3. /\ Len(f) \in Nat /\ DOMAIN f = 1 .. Len(f) /\ DOMAIN g = 1 .. Len(f) + 1
        /\ g[1] = e /\ \A i \in 2 .. Len(f) + 1 : g[i] = f[i - 1]
    BY <1>0
  <1>4. \A i \in 2 .. Len(f) + 1 : i - 1 \in DOMAIN f /\ g[i] # e
    BY <1>1, <1>2, <1>3
  <1> HIDE DEF g, f
  <1>5. ASSUME NEW i \in DOMAIN g, NEW j \in DOMAIN g, g[i] = g[j] PROVE i = j
    <2>1. CASE i = 1 \/ j = 1
      BY <1>3, <1>4, <1>5, <2>1
    <2>2. CASE i # 1 /\ j # 1
      <3>1. i - 1 \in DOMAIN f /\ j - 1 \in DOMAIN f /\ f[i - 1] = f[j - 1]
        BY <1>3, <1>4, <1>5, <2>2
      <3>2. i - 1 = j - 1
        BY <1>1, <3>1
      <3>3. QED
        BY <1>3, <3>2
    <2>3. QED
      BY <2>1, <2>2
  <1>6. {g[i] : i \in DOMAIN g} = {f[i] : i \in DOMAIN f} \cup {e}
    <2>1. \A i \in DOMAIN g : g[i] \in {f[j] : j \in DOMAIN f} \cup {e}
      BY <1>3, <1>4
    <2>2. \A j \in DOMAIN f : j + 1 \in DOMAIN g /\ f[j] = g[j + 1]
      BY <1>3
    <2>3. 1 \in DOMAIN g /\ g[1] = e
      BY <1>3
    <2>4. QED
      BY <2>1, <2>2, <2>3
  <1>7. {g[i] : i \in DOMAIN g} = Env \ Live'
    BY <1>1, <1>2, <1>6 DEF Live
  <1>8. QED
    BY <1>0, <1>5, <1>7 DEF FreeListInv

\* The set of runnable envs after the status of one env is set.
LEMMA RunnableAfter ==
  ASSUME env_status \in [Env -> Status], NEW e \in Env, NEW st,
         env_status' = [env_status EXCEPT ![e] = st]
  PROVE  /\ Runnable' = {x \in Env : env_status'[x] = RUNNABLE}
         /\ st = RUNNABLE => Runnable' = Runnable \cup {e}
         /\ st # RUNNABLE => Runnable' = Runnable \ {e}
  BY DEF Runnable

\* Destroying a runnable env keeps the invariants.
LEMMA EnvDestroyKeeps ==
  ASSUME IInv, Running, NEW e \in Env, env_status[e] = RUNNABLE, env_destroy(e)
  PROVE  IInv'
  <1> DEFINE q == TAILQ_REMOVE(env_sched_list, e)
  <1>0. /\ TypeOK /\ env_sched_list \in Queue /\ env_status \in [Env -> Status]
        /\ panicked = "no" /\ e \in Runnable /\ QueueOf(env_sched_list, Runnable)
        /\ TAILQ_FIRST(env_sched_list) = curenv
    BY DEF IInv, TypeOK, Status, SchedListInv, Runnable, Running, CurenvIsHead
  <1>1. /\ q \in Queue /\ QueueOf(q, Runnable \ {e}) /\ ~RemoveFaults(env_sched_list, e)
        /\ e # TAILQ_FIRST(env_sched_list) => TAILQ_FIRST(q) = TAILQ_FIRST(env_sched_list)
    <2> HIDE DEF q
    <2>1. QED
      BY <1>0, QueueRemove DEF q
  <1>2. env_free(e) /\ env_status' = [env_status EXCEPT ![e] = FREE] /\ FREE # RUNNABLE
    BY DEF env_destroy, env_free, FREE, RUNNABLE
  <1>3. Runnable' = Runnable \ {e} /\ Runnable' = {x \in Env : env_status'[x] = RUNNABLE}
    BY <1>0, <1>2, RunnableAfter
  <1>4. TypeOK'
    BY <1>0, EnvDestroyType
  <1>5. FreeListInv'
    <2>1. env_status[e] # FREE
      BY DEF FREE, RUNNABLE
    <2>2. QED
      BY <1>2, <2>1, EnvFreeFree DEF IInv
  <1>6. ReceiverIsBlocked'
    <2>1. env_ipc_recving' = env_ipc_recving
      BY <1>2 DEF env_free, ipcVars
    <2>2. ~env_ipc_recving[e]
      BY DEF IInv, ReceiverIsBlocked, RUNNABLE, NOT_RUNNABLE
    <2>3. QED
      BY <1>0, <1>2, <2>1, <2>2 DEF IInv, ReceiverIsBlocked
  <1>7. SchedListInv' /\ CurenvIsHead' /\ NoKernelFault'
    <2> HIDE DEF q
    <2>1. CASE e = curenv
      <3>1. schedule(q, env_status', Null, TRUE)
        BY <1>1, <2>1 DEF env_destroy, q
      <3>2. env_status' \in [Env -> Status]
        BY <1>4 DEF TypeOK, Status
      <3>3. \/ /\ panicked' = "no"
               /\ QueueOf(env_sched_list', Runnable')
               /\ curenv' \in Env /\ env_status'[curenv'] = RUNNABLE
               /\ TAILQ_FIRST(env_sched_list') = curenv'
            \/ panicked' = "No runnable envs"
        BY <1>0, <1>1, <1>3, <3>1, <3>2, ScheduleKeeps
      <3>4. QED
        BY <3>3 DEF SchedListInv, CurenvIsHead, NoKernelFault, Running
    <2>2. CASE e # curenv
      <3>1. env_sched_list' = q /\ UNCHANGED <<curenv, panicked>>
        BY <1>1, <2>2 DEF env_destroy, q
      <3>2. env_status'[curenv] = RUNNABLE
        BY <1>0, <1>2, <2>2 DEF IInv, CurenvIsHead
      <3>3. QED
        BY <1>0, <1>1, <1>3, <2>2, <3>1, <3>2 DEF SchedListInv, CurenvIsHead, NoKernelFault, Running
    <2>3. QED
      BY <2>1, <2>2
  <1>8. QED
    BY <1>4, <1>5, <1>6, <1>7 DEF IInv

\* The invariants depend on these variables only, apart from the types.
LEMMA InvariantUnchanged ==
  ASSUME IInv, TypeOK',
         UNCHANGED <<env_status, env_free_list, env_ipc_recving, env_sched_list, curenv, panicked>>
  PROVE  IInv'
  <1>1. Runnable' = Runnable /\ Live' = Live /\ (Running' <=> Running)
    BY DEF Runnable, Live, Running
  <1>2. SchedListInv' /\ NoKernelFault'
    BY <1>1 DEF IInv, SchedListInv, NoKernelFault
  <1>3. FreeListInv'
    BY <1>1 DEF IInv, FreeListInv
  <1>4. CurenvIsHead' /\ ReceiverIsBlocked'
    BY <1>1 DEF IInv, CurenvIsHead, ReceiverIsBlocked
  <1>5. QED
    BY <1>2, <1>3, <1>4 DEF IInv

\* Every step of a disciplined caller, and every clock interrupt, keeps the
\* invariants.
LEMMA InvariantStep == ASSUME Liberties = {} PROVE IInv /\ [Next]_vars => IInv'
  <1> SUFFICES ASSUME IInv, [Next]_vars PROVE IInv'
    OBVIOUS
  <1>0. /\ TypeOK /\ TypeOK' /\ env_status \in [Env -> Status] /\ env_sched_list \in Queue
        /\ curenv \in Env \cup {Null}
    BY TypeStep DEF IInv, TypeOK, Status
  <1>1. ASSUME NEW p \in Priorities, env_create(p) PROVE IInv'
    <2>1. PICK e \in Env : /\ env_alloc(e, ZeroId, RUNNABLE, p)
                           /\ env_sched_list' = TAILQ_INSERT_HEAD(env_sched_list, e)
      BY <1>1 DEF env_create
    <2>2. env_status[e] = FREE /\ FreeListInv'
      BY <1>0, <2>1, EnvAllocFree DEF IInv
    <2>3. UNCHANGED <<env_ipc_recving, curenv, panicked>> /\ curenv = Null /\ panicked = "no"
      BY <1>1 DEF env_create, ipcVars, Booting
    <2>4. env_status' = [env_status EXCEPT ![e] = RUNNABLE]
      BY <2>1 DEF env_alloc
    <2>5. e \notin Runnable /\ Runnable' = Runnable \cup {e} /\ QueueOf(env_sched_list, Runnable)
      BY <1>0, <2>2, <2>3, <2>4, RunnableAfter DEF Runnable, IInv, SchedListInv, FREE, RUNNABLE
    <2>6. QueueOf(env_sched_list', Runnable')
      BY <1>0, <2>1, <2>5, QueueInsertHead
    <2>7. ReceiverIsBlocked'
      BY <1>0, <2>2, <2>3, <2>4 DEF IInv, ReceiverIsBlocked, FREE, NOT_RUNNABLE
    <2>8. QED
      BY <1>0, <2>2, <2>3, <2>6, <2>7 DEF IInv, SchedListInv, CurenvIsHead, NoKernelFault, Running
  <1>2. ASSUME \/ mips_init_schedule \/ handle_int \/ sys_yield
        PROVE  IInv'
    <2>1. PICK y \in BOOLEAN : schedule(env_sched_list, env_status, curenv, y)
      BY <1>2 DEF mips_init_schedule, handle_int, sys_yield, Booting
    <2>2. UNCHANGED <<env_status, env_ipc_recving, env_free_list>> /\ panicked = "no"
      BY <1>2 DEF mips_init_schedule, handle_int, sys_yield, allocVars, ipcVars, Booting, Running
    <2>3. /\ QueueOf(env_sched_list, {x \in Env : env_status[x] = RUNNABLE})
          /\ Runnable' = {x \in Env : env_status[x] = RUNNABLE}
      BY <2>2 DEF IInv, SchedListInv, Runnable
    <2>4. \/ curenv = Null
          \/ curenv \in Env /\ env_status[curenv] = RUNNABLE /\ TAILQ_FIRST(env_sched_list) = curenv
      BY <1>0, <2>2 DEF IInv, CurenvIsHead, Running
    <2>5. \/ /\ panicked' = "no"
             /\ QueueOf(env_sched_list', Runnable')
             /\ curenv' \in Env /\ env_status[curenv'] = RUNNABLE
             /\ TAILQ_FIRST(env_sched_list') = curenv'
          \/ panicked' = "No runnable envs"
      BY <1>0, <2>1, <2>2, <2>3, <2>4, ScheduleKeeps
    <2>6. FreeListInv' /\ ReceiverIsBlocked'
      BY <2>2 DEF IInv, FreeListInv, ReceiverIsBlocked, Live
    <2>7. QED
      BY <1>0, <2>2, <2>5, <2>6 DEF IInv, SchedListInv, CurenvIsHead, NoKernelFault, Running
  <1>3. ASSUME NEW id \in EnvId, sys_env_destroy(id) PROVE IInv'
    <2>1. PICK e \in envid2env(id, TRUE) : env_destroy(e) /\ env_status[e] = RUNNABLE
      BY <1>3 DEF sys_env_destroy
    <2>2. e \in Env /\ Running
      BY <1>0, <1>3, Envid2envType DEF sys_env_destroy, Running
    <2>3. QED
      BY <2>1, <2>2, EnvDestroyKeeps
  <1>4. ASSUME sys_exofork PROVE IInv'
    <2>1. PICK e \in Env : env_alloc(e, env_id[curenv], NOT_RUNNABLE, env_pri[curenv])
      BY <1>4 DEF sys_exofork
    <2>2. env_status[e] = FREE /\ FreeListInv'
      BY <1>0, <2>1, EnvAllocFree DEF IInv
    <2>3. UNCHANGED <<env_ipc_recving, env_sched_list, curenv, panicked>> /\ panicked = "no"
      BY <1>4 DEF sys_exofork, ipcVars, runVars, Running
    <2>4. env_status' = [env_status EXCEPT ![e] = NOT_RUNNABLE]
      BY <2>1 DEF env_alloc
    <2>5. e \notin Runnable /\ Runnable' = Runnable
      BY <1>0, <2>2, <2>4, RunnableAfter DEF Runnable, FREE, RUNNABLE, NOT_RUNNABLE
    <2>6. CurenvIsHead'
      BY <1>0, <2>2, <2>3, <2>4 DEF IInv, CurenvIsHead, Running, FREE, RUNNABLE
    <2>7. ReceiverIsBlocked'
      BY <1>0, <2>2, <2>3, <2>4 DEF IInv, ReceiverIsBlocked, FREE, NOT_RUNNABLE
    <2>8. QED
      BY <1>0, <2>2, <2>3, <2>5, <2>6, <2>7 DEF IInv, SchedListInv, NoKernelFault
  <1>5. ASSUME sys_exofork_no_asid PROVE IInv'
    <2>1. UNCHANGED <<env_status, env_free_list, env_ipc_recving, env_sched_list, curenv, panicked>>
      BY <1>5 DEF sys_exofork_no_asid, env_alloc_no_asid, ipcVars, runVars
    <2>2. QED
      BY <1>0, <2>1, InvariantUnchanged
  <1>6. ASSUME NEW id \in EnvId, NEW st \in {RUNNABLE, NOT_RUNNABLE}, sys_set_env_status(id, st)
        PROVE  IInv'
    <2>0. panicked = "no" /\ curenv \in Env /\ QueueOf(env_sched_list, Runnable)
      BY <1>0, <1>6 DEF sys_set_env_status, Running, IInv, SchedListInv
    <2>1. PICK e \in envid2env(id, TRUE) :
            /\ env_status[e] # st /\ e # curenv /\ ~env_ipc_recving[e]
            /\ IF st = NOT_RUNNABLE /\ RemoveFaults(env_sched_list, e)
               THEN panicked' = "store through NULL" /\ UNCHANGED <<env_status, env_sched_list>>
               ELSE /\ env_sched_list' = IF st = RUNNABLE
                                         THEN TAILQ_INSERT_TAIL(env_sched_list, e)
                                         ELSE TAILQ_REMOVE(env_sched_list, e)
                    /\ env_status' = [env_status EXCEPT ![e] = st]
                    /\ UNCHANGED panicked
      BY <1>6 DEF sys_set_env_status
    <2>2. e \in Env /\ env_status[e] # FREE
      <3>1. e \in Env
        BY <1>0, <1>6, <2>0, Envid2envType, Addresses
      <3>2. QED
        BY <2>1, <3>1 DEF envid2env
    <2>3. UNCHANGED <<env_ipc_recving, env_free_list, curenv>>
      BY <1>6 DEF sys_set_env_status, allocVars, ipcVars
    <2>4. /\ panicked' = "no" /\ env_status' = [env_status EXCEPT ![e] = st]
          /\ QueueOf(env_sched_list', Runnable')
          /\ TAILQ_FIRST(env_sched_list') = TAILQ_FIRST(env_sched_list)
      <3>0. curenv \in Runnable /\ TAILQ_FIRST(env_sched_list) = curenv
        BY <2>0, Addresses DEF IInv, CurenvIsHead, Running, Runnable
      <3>1. CASE st = RUNNABLE
        <4>1. st # NOT_RUNNABLE
          BY <3>1 DEF RUNNABLE, NOT_RUNNABLE
        <4>2. /\ env_sched_list' = TAILQ_INSERT_TAIL(env_sched_list, e)
              /\ env_status' = [env_status EXCEPT ![e] = st] /\ panicked' = panicked
          BY <2>1, <3>1, <4>1
        <4>3. e \notin Runnable /\ Runnable' = Runnable \cup {e}
          BY <1>0, <2>1, <2>2, <3>1, <4>2, RunnableAfter DEF Runnable
        <4>4. QED
          BY <1>0, <2>0, <2>2, <3>0, <4>2, <4>3, QueueInsertTail
      <3>2. CASE st = NOT_RUNNABLE
        <4>1. st # RUNNABLE /\ env_status[e] = RUNNABLE
          BY <1>0, <2>1, <2>2, <3>2 DEF RUNNABLE, NOT_RUNNABLE, Status
        <4>2. e \in Runnable
          BY <2>2, <4>1 DEF Runnable
        <4>3. /\ QueueOf(TAILQ_REMOVE(env_sched_list, e), Runnable \ {e})
              /\ ~RemoveFaults(env_sched_list, e)
              /\ TAILQ_FIRST(TAILQ_REMOVE(env_sched_list, e)) = TAILQ_FIRST(env_sched_list)
          BY <1>0, <2>0, <2>1, <3>0, <4>2, QueueRemove
        <4>4. /\ env_sched_list' = TAILQ_REMOVE(env_sched_list, e)
              /\ env_status' = [env_status EXCEPT ![e] = st] /\ panicked' = panicked
          BY <2>1, <4>1, <4>3
        <4>5. Runnable' = Runnable \ {e}
          BY <1>0, <2>2, <4>1, <4>4, RunnableAfter
        <4>6. QED
          BY <2>0, <4>3, <4>4, <4>5
      <3>3. QED
        BY <3>1, <3>2
    <2>5. FreeListInv'
      <3>1. Live' = Live
        BY <1>0, <2>2, <2>4 DEF Live, FREE, RUNNABLE, NOT_RUNNABLE
      <3>2. QED
        BY <2>3, <3>1 DEF IInv, FreeListInv
    <2>6. ReceiverIsBlocked'
      BY <1>0, <2>1, <2>2, <2>3, <2>4 DEF IInv, ReceiverIsBlocked
    <2>7. CurenvIsHead'
      BY <1>0, <2>0, <2>1, <2>3, <2>4 DEF IInv, CurenvIsHead, Running
    <2>8. QED
      BY <1>0, <2>4, <2>5, <2>6, <2>7 DEF IInv, SchedListInv, NoKernelFault
  <1>7. ASSUME sys_ipc_recv PROVE IInv'
    <2> DEFINE q == TAILQ_REMOVE(env_sched_list, curenv)
    <2>0. /\ panicked = "no" /\ curenv \in Env /\ QueueOf(env_sched_list, Runnable)
          /\ curenv \in Runnable
      BY <1>0, <1>7 DEF sys_ipc_recv, Running, IInv, SchedListInv, CurenvIsHead, Runnable
    <2>1. /\ env_ipc_recving' = [env_ipc_recving EXCEPT ![curenv] = TRUE]
          /\ env_status' = [env_status EXCEPT ![curenv] = NOT_RUNNABLE]
          /\ schedule(q, env_status', curenv, TRUE)
          /\ env_free_list' = env_free_list
      BY <1>7 DEF sys_ipc_recv, allocVars
    <2>2. /\ q \in Queue /\ QueueOf(q, Runnable \ {curenv})
          /\ TAILQ_REMOVE(q, curenv) = q
      BY <1>0, <2>0, QueueRemove
    <2>3. /\ Runnable' = {x \in Env : env_status'[x] = RUNNABLE}
          /\ Runnable' = Runnable \ {curenv}
      BY <1>0, <2>0, <2>1, RunnableAfter DEF RUNNABLE, NOT_RUNNABLE
    <2>4. env_status' \in [Env -> Status] /\ env_status'[curenv] # RUNNABLE
      BY <1>0, <2>0, <2>1 DEF Status, RUNNABLE, NOT_RUNNABLE
    <2>5. \/ /\ panicked' = "no"
             /\ QueueOf(env_sched_list', Runnable')
             /\ curenv' \in Env /\ env_status'[curenv'] = RUNNABLE
             /\ TAILQ_FIRST(env_sched_list') = curenv'
          \/ panicked' = "No runnable envs"
      <3> HIDE DEF q
      <3>1. QED
        BY <1>0, <2>0, <2>1, <2>2, <2>3, <2>4, ScheduleKeeps
    <2>6. FreeListInv'
      <3>1. Live' = Live
        BY <1>0, <2>0, <2>1 DEF Live, Runnable, FREE, RUNNABLE, NOT_RUNNABLE
      <3>2. QED
        BY <2>1, <3>1 DEF IInv, FreeListInv
    <2>7. ReceiverIsBlocked'
      BY <1>0, <2>0, <2>1 DEF IInv, ReceiverIsBlocked, TypeOK
    <2>8. QED
      BY <1>0, <2>5, <2>6, <2>7 DEF IInv, SchedListInv, CurenvIsHead, NoKernelFault, Running
  <1>8. ASSUME NEW id \in EnvId, NEW v \in Values, sys_ipc_try_send(id, v) PROVE IInv'
    <2>0. /\ panicked = "no" /\ curenv \in Env /\ QueueOf(env_sched_list, Runnable)
          /\ curenv \in Runnable /\ TAILQ_FIRST(env_sched_list) = curenv
      BY <1>0, <1>8 DEF sys_ipc_try_send, Running, IInv, SchedListInv, CurenvIsHead, Runnable
    <2>1. PICK e \in envid2env(id, FALSE) :
            /\ env_ipc_recving[e]
            /\ env_ipc_recving' = [env_ipc_recving EXCEPT ![e] = FALSE]
            /\ env_status' = [env_status EXCEPT ![e] = RUNNABLE]
            /\ env_sched_list' = TAILQ_INSERT_TAIL(env_sched_list, e)
      BY <1>8 DEF sys_ipc_try_send
    <2>2. e \in Env /\ env_status[e] = NOT_RUNNABLE
      <3>1. e \in Env
        BY <1>0, <1>8, <2>0, Envid2envType, Addresses
      <3>2. QED
        BY <2>1, <3>1 DEF IInv, ReceiverIsBlocked
    <2>3. UNCHANGED <<env_free_list, curenv, panicked>>
      BY <1>8 DEF sys_ipc_try_send, allocVars
    <2>4. e \notin Runnable /\ Runnable' = Runnable \cup {e}
      BY <1>0, <2>1, <2>2, RunnableAfter DEF Runnable, RUNNABLE, NOT_RUNNABLE
    <2>5. /\ QueueOf(env_sched_list', Runnable')
          /\ TAILQ_FIRST(env_sched_list') = curenv
      BY <1>0, <2>0, <2>1, <2>2, <2>4, QueueInsertTail
    <2>6. FreeListInv'
      <3>1. Live' = Live
        BY <1>0, <2>1, <2>2 DEF Live, FREE, RUNNABLE, NOT_RUNNABLE
      <3>2. QED
        BY <2>3, <3>1 DEF IInv, FreeListInv
    <2>7. ReceiverIsBlocked'
      BY <1>0, <2>1, <2>2 DEF IInv, ReceiverIsBlocked, TypeOK
    <2>8. CurenvIsHead'
      BY <1>0, <2>0, <2>1, <2>2, <2>3, <2>5 DEF CurenvIsHead, Running, Runnable
    <2>9. QED
      BY <1>0, <2>0, <2>3, <2>5, <2>6, <2>7, <2>8 DEF IInv, SchedListInv, NoKernelFault
  <1>9. CASE UNCHANGED vars
    <2>1. UNCHANGED <<env_status, env_free_list, env_ipc_recving, env_sched_list, curenv, panicked>>
      BY <1>9 DEF vars, allocVars, ipcVars, runVars
    <2>2. QED
      BY <1>0, <2>1, InvariantUnchanged
  <1>10. QED
    BY <1>1, <1>2, <1>3, <1>4, <1>5, <1>6, <1>7, <1>8, <1>9 DEF Next

\* The initial state satisfies the invariants.
LEMMA InvariantInit == Init => IInv
  <1> SUFFICES ASSUME Init PROVE IInv
    OBVIOUS
  <1>1. TypeOK
    BY TypeInit
  <1>2. Runnable = {} /\ Live = {}
    BY DEF Init, Runnable, Live, FREE, RUNNABLE
  <1>3. SchedListInv
    BY <1>2, QueueInit DEF Init, SchedListInv
  <1>4. FreeListInv
    <2>1. env_free_list = [i \in 1 .. NENV |-> i - 1]
      BY DEF Init
    <2>2. \A i \in 1 .. NENV : i - 1 \in Env
      BY NENVAssumption DEF Env
    <2>3. \A e \in Env : e + 1 \in 1 .. NENV /\ env_free_list[e + 1] = e
      BY <2>1, NENVAssumption DEF Env
    <2>4. {env_free_list[i] : i \in DOMAIN env_free_list} = Env
      BY <2>1, <2>2, <2>3
    <2>5. QED
      BY <1>2, <2>1, <2>4 DEF FreeListInv
  <1>5. CurenvIsHead /\ ReceiverIsBlocked /\ NoKernelFault
    BY DEF Init, CurenvIsHead, ReceiverIsBlocked, NoKernelFault, Running
  <1>6. QED
    BY <1>1, <1>3, <1>4, <1>5 DEF IInv

\* The inductive invariant holds for disciplined callers.
THEOREM Invariance == ASSUME Liberties = {} PROVE Spec => []IInv
  BY InvariantInit, InvariantStep, PTL DEF Spec

\* kern/env.c:14: the run queue is well formed and holds exactly the runnable
\* envs, whatever sequence of calls and clock interrupts, although the macros
\* check nothing and leave stale links behind.
THEOREM SchedListCorrect == ASSUME Liberties = {} PROVE Spec => []SchedListInv
  BY Invariance, PTL DEF IInv

\* The running env is at the head of the run queue, so that schedule rotates it.
THEOREM CurenvHeads == ASSUME Liberties = {} PROVE Spec => []CurenvIsHead
  BY Invariance, PTL DEF IInv

\* Only a blocked env accepts a message.
THEOREM ReceiversBlocked == ASSUME Liberties = {} PROVE Spec => []ReceiverIsBlocked
  BY Invariance, PTL DEF IInv

\* No slot is lost from, or twice on, the free list.
THEOREM FreeListCorrect == ASSUME Liberties = {} PROVE Spec => []FreeListInv
  BY Invariance, PTL DEF IInv

\* The kernel neither writes through a NULL link nor runs a blocked env.
THEOREM KernelFaultFree == ASSUME Liberties = {} PROVE Spec => []NoKernelFault
  BY Invariance, PTL DEF IInv

------------------------------------------------------------------------------
(***************************************************************************)
(* Resources: what env_alloc hands out and env_free takes back is never    *)
(* shared, stale or lost: asids, env ids, time slices and delivered        *)
(* messages.                                                               *)
(*                                                                         *)
(* StaleIdRejected is not inductive: that the id mkenvid makes next is in  *)
(* nobody's hands rests on every id ever made being at most as old as the  *)
(* counter.  SlicesLeft rests on every priority being positive.            *)
(***************************************************************************)
IdsPast ==
  mkenvid_i < GenMod =>
    /\ \A e \in Live : /\ env_id[e].index = e
                       /\ env_id[e].gen \in 1 .. mkenvid_i
                       /\ env_id[e] \notin retired
    /\ \A id \in retired : id.gen <= mkenvid_i

PrioritiesPositive == \A e \in Live : env_pri[e] > 0

RInv ==
  /\ IInv
  /\ AsidInv
  /\ IdsPast
  /\ PrioritiesPositive
  /\ SlicesLeft

\* What env_alloc and env_free leave alone keeps the three together.
LEMMA ResourcesUnchanged ==
  ASSUME RInv, Live' = Live, UNCHANGED <<allocVars, retired>>
  PROVE  AsidInv' /\ IdsPast' /\ PrioritiesPositive'
  <1>1. AsidInv'
    BY DEF RInv, AsidInv, allocVars
  <1>2. IdsPast'
    BY DEF RInv, IdsPast, allocVars
  <1>3. PrioritiesPositive'
    BY DEF RInv, PrioritiesPositive, allocVars
  <1>4. QED
    BY <1>1, <1>2, <1>3

\* The id mkenvid makes, as long as the counter has not wrapped.
LEMMA MkenvidFresh ==
  ASSUME mkenvid_i \in Nat, mkenvid_i + 1 < GenMod, NEW e \in Env
  PROVE  mkenvid(e).gen = mkenvid_i + 1 /\ mkenvid(e).index = e
  <1>1. (mkenvid_i + 1) % GenMod = mkenvid_i + 1
    BY GenModAssumption
  <1>2. QED
    BY <1>1 DEF mkenvid

\* The generation of a retired id is a number.
LEMMA RetiredGen == ASSUME TypeOK PROVE \A id \in retired : id.gen \in Int
  <1>1. \A id \in EnvId : id.gen \in 0 .. GenMod - 1
    BY DEF EnvId
  <1>2. 0 .. GenMod - 1 \subseteq Int
    BY GenModAssumption
  <1>3. QED
    BY <1>1, <1>2 DEF TypeOK

\* env_alloc gives a free slot an asid nobody has, an id nobody has had and a
\* positive priority.
LEMMA AllocResources ==
  ASSUME RInv, NEW e, NEW pid, NEW st \in {RUNNABLE, NOT_RUNNABLE}, NEW pri \in Nat \ {0},
         env_alloc(e, pid, st, pri), retired' = retired
  PROVE  AsidInv' /\ IdsPast' /\ PrioritiesPositive'
  <1>0. /\ TypeOK /\ e \in Env /\ env_status[e] = FREE /\ e \notin Live
        /\ env_status \in [Env -> Status]
    <2>1. TypeOK /\ FreeListInv /\ env_status \in [Env -> Status]
      BY DEF RInv, IInv, TypeOK, Status
    <2>2. e \in Env /\ env_status[e] = FREE
      BY <2>1, EnvAllocFree
    <2>3. QED
      BY <2>1, <2>2 DEF Live
  <1>1. env_status' = [env_status EXCEPT ![e] = st] /\ st # FREE
    BY DEF env_alloc, FREE, RUNNABLE, NOT_RUNNABLE
  <1>2. Live' = Live \cup {e} /\ Live \subseteq Env
    BY <1>0, <1>1 DEF Live
  <1>3. AsidInv'
    <2>1. /\ asid_alloc \notin asid_bitmap
          /\ asid_bitmap' = asid_bitmap \cup {asid_alloc}
          /\ env_asid' = [env_asid EXCEPT ![e] = asid_alloc]
          /\ env_asid \in [Env -> 0 .. NASID - 1]
      BY <1>0, AsidAllocFinds DEF TypeOK, env_alloc
    <2>2. env_asid'[e] = asid_alloc /\ \A d \in Live : env_asid'[d] = env_asid[d]
      BY <1>0, <1>2, <2>1
    <2>3. asid_bitmap = {env_asid[d] : d \in Live}
      BY DEF RInv, AsidInv
    <2>4. asid_bitmap' = {env_asid'[d] : d \in Live'}
      BY <1>2, <2>1, <2>2, <2>3
    <2>5. \A d \in Live : env_asid'[d] # env_asid'[e]
      BY <2>1, <2>2, <2>3
    <2>6. ASSUME NEW c \in Live', NEW d \in Live', env_asid'[c] = env_asid'[d] PROVE c = d
      BY <1>2, <2>2, <2>5, <2>6 DEF RInv, AsidInv
    <2>7. QED
      BY <2>4, <2>6 DEF AsidInv
  <1>4. IdsPast'
    <2>1. SUFFICES ASSUME mkenvid_i' < GenMod
                   PROVE  /\ \A d \in Live' : /\ env_id'[d].index = d
                                              /\ env_id'[d].gen \in 1 .. mkenvid_i'
                                              /\ env_id'[d] \notin retired'
                          /\ \A id \in retired' : id.gen <= mkenvid_i'
      BY DEF IdsPast
    <2>2. /\ mkenvid_i \in Nat /\ mkenvid_i' = mkenvid_i + 1
          /\ env_id' = [env_id EXCEPT ![e] = mkenvid(e)] /\ env_id \in [Env -> EnvId]
      BY <1>0 DEF TypeOK, env_alloc
    <2>3. mkenvid_i < GenMod /\ mkenvid_i + 1 < GenMod
      BY <2>1, <2>2, GenModAssumption
    <2>4. /\ \A d \in Live : /\ env_id[d].index = d /\ env_id[d].gen \in 1 .. mkenvid_i
                             /\ env_id[d] \notin retired
          /\ \A id \in retired : id.gen <= mkenvid_i
      BY <2>3 DEF RInv, IdsPast
    <2>5. env_id'[e].gen = mkenvid_i + 1 /\ env_id'[e].index = e
      BY <1>0, <2>2, <2>3, MkenvidFresh
    <2>6. \A d \in Live : env_id'[d] = env_id[d]
      BY <1>0, <1>2, <2>2
    <2>7. env_id'[e] \notin retired
      BY <2>2, <2>4, <2>5
    <2>8. \A id \in retired : id.gen \in Int
      BY <1>0, RetiredGen
    <2>9. QED
      BY <1>2, <2>2, <2>4, <2>5, <2>6, <2>7, <2>8
  <1>5. PrioritiesPositive'
    <2>1. env_pri' = [env_pri EXCEPT ![e] = pri] /\ env_pri \in [Env -> Nat]
      BY <1>0 DEF TypeOK, env_alloc
    <2>2. QED
      BY <1>0, <1>2, <2>1 DEF RInv, PrioritiesPositive
  <1>6. QED
    BY <1>3, <1>4, <1>5

\* An env_alloc that finds no asid has renamed a free slot and used up an id.
LEMMA NoAsidResources ==
  ASSUME RInv, env_alloc_no_asid, UNCHANGED <<env_status, retired>>
  PROVE  AsidInv' /\ IdsPast' /\ PrioritiesPositive'
  <1> DEFINE e == Head(env_free_list)
  <1>0. Live' = Live /\ Live \subseteq Env
    BY DEF Live
  <1>1. e \in Env /\ e \notin Live
    <2>1. env_free_list \in Seq(Env) /\ env_free_list # <<>>
      BY DEF RInv, IInv, TypeOK, env_alloc_no_asid
    <2>2. 1 \in DOMAIN env_free_list /\ e = env_free_list[1] /\ e \in Env
      BY <2>1
    <2>3. QED
      BY <2>2 DEF RInv, IInv, FreeListInv
  <1>2. AsidInv' /\ PrioritiesPositive'
    BY <1>0 DEF RInv, AsidInv, PrioritiesPositive, env_alloc_no_asid
  <1>3. IdsPast'
    <2>1. /\ mkenvid_i \in Nat /\ mkenvid_i' = mkenvid_i + 1
          /\ env_id' = [env_id EXCEPT ![e] = mkenvid(e)] /\ env_id \in [Env -> EnvId]
      BY DEF RInv, IInv, TypeOK, env_alloc_no_asid
    <2>2. \A d \in Live : env_id'[d] = env_id[d]
      <3> HIDE DEF e
      <3>1. QED
        BY <1>0, <1>1, <2>1
    <2>3. \A id \in retired : id.gen \in Int
      BY RetiredGen DEF RInv, IInv
    <2>4. mkenvid_i' < GenMod => mkenvid_i < GenMod
      BY <2>1, GenModAssumption
    <2>5. QED
      BY <1>0, <2>1, <2>2, <2>3, <2>4 DEF RInv, IdsPast
  <1>4. QED
    BY <1>2, <1>3

\* env_free gives back the asid of a live env and retires its id.
LEMMA FreeResources ==
  ASSUME RInv, NEW e \in Live, env_free(e)
  PROVE  AsidInv' /\ IdsPast' /\ PrioritiesPositive'
  <1>0. /\ env_status \in [Env -> Status] /\ e \in Env
        /\ env_status' = [env_status EXCEPT ![e] = FREE]
        /\ UNCHANGED <<env_id, env_pri, env_asid, mkenvid_i>>
    BY DEF RInv, IInv, TypeOK, Status, Live, env_free
  <1>1. Live' = Live \ {e}
    BY <1>0 DEF Live
  <1>2. AsidInv'
    <2>1. asid_bitmap' = asid_bitmap \ {env_asid[e]}
      BY DEF env_free
    <2>2. /\ asid_bitmap = {env_asid[d] : d \in Live}
          /\ \A c, d \in Live : env_asid[c] = env_asid[d] => c = d
      BY DEF RInv, AsidInv
    <2>3. asid_bitmap' = {env_asid[d] : d \in Live \ {e}}
      BY <2>1, <2>2
    <2>4. QED
      BY <1>0, <1>1, <2>2, <2>3 DEF AsidInv
  <1>3. IdsPast'
    <2>1. SUFFICES ASSUME mkenvid_i < GenMod
                   PROVE  /\ \A d \in Live \ {e} : /\ env_id[d].index = d
                                                   /\ env_id[d].gen \in 1 .. mkenvid_i
                                                   /\ env_id[d] \notin retired'
                          /\ \A id \in retired' : id.gen <= mkenvid_i
      BY <1>0, <1>1 DEF IdsPast
    <2>2. /\ \A d \in Live : /\ env_id[d].index = d /\ env_id[d].gen \in 1 .. mkenvid_i
                             /\ env_id[d] \notin retired
          /\ \A id \in retired : id.gen <= mkenvid_i
      BY <2>1 DEF RInv, IdsPast
    <2>3. retired' = retired \cup {env_id[e]}
      BY DEF env_free
    <2>4. \A d \in Live \ {e} : env_id[d] # env_id[e]
      BY <2>2
    <2>5. mkenvid_i \in Nat
      BY DEF RInv, IInv, TypeOK
    <2>6. QED
      BY <2>2, <2>3, <2>4, <2>5
  <1>4. PrioritiesPositive'
    BY <1>0, <1>1 DEF RInv, PrioritiesPositive
  <1>5. QED
    BY <1>2, <1>3, <1>4

\* schedule leaves the env it picks the slices of its priority, one of them
\* consumed, or takes one from those that are left.
LEMMA ScheduleSlices ==
  ASSUME TypeOK, panicked = "no",
         NEW q \in Queue, NEW st \in [Env -> Status], NEW e \in Env \cup {Null},
         NEW y \in BOOLEAN, schedule(q, st, e, y),
         \A x \in Env : st[x] = RUNNABLE => env_pri[x] > 0,
         e # Null => 0 <= count /\ count < env_pri[e],
         panicked' = "no"
  PROVE  0 <= count' /\ count' < env_pri[curenv']
  <1> DEFINE removed == IF e = Null THEN q ELSE TAILQ_REMOVE(q, e)
             rotated == IF e # Null /\ st[e] = RUNNABLE
                        THEN TAILQ_INSERT_TAIL(removed, e) ELSE removed
             n == TAILQ_FIRST(rotated)
             keep == ~y /\ count > 0 /\ e # Null /\ st[e] = RUNNABLE
  <1>0. count \in Int /\ env_pri \in [Env -> Nat]
    BY DEF TypeOK
  <1>1. CASE keep
    <2>1. curenv' = e /\ count' = count - 1 /\ e \in Env
      BY <1>1 DEF schedule
    <2>2. QED
      BY <1>0, <1>1, <2>1
  <1>2. CASE ~keep
    <2>1. /\ ~TAILQ_EMPTY(rotated) /\ count' = env_pri[n] - 1
          /\ st[n] = RUNNABLE /\ curenv' = n
      BY <1>2 DEF schedule
    <2>2. rotated \in Queue
      BY QueueTypes
    <2>3. n \in Env
      BY <2>1, <2>2 DEF TAILQ_FIRST, TAILQ_EMPTY, Queue
    <2> HIDE DEF rotated, n
    <2>4. env_pri[n] > 0 /\ env_pri[n] \in Nat
      BY <1>0, <2>1, <2>3
    <2>5. QED
      BY <2>1, <2>4
  <1>3. QED
    BY <1>1, <1>2

\* Every step keeps the strengthened invariant.
LEMMA ResourceStep == ASSUME Liberties = {} PROVE RInv /\ [Next]_vars => RInv'
  <1> SUFFICES ASSUME RInv, [Next]_vars PROVE RInv'
    OBVIOUS
  <1> DEFINE Kept == AsidInv' /\ IdsPast' /\ PrioritiesPositive' /\ SlicesLeft'
  <1>0. /\ IInv /\ TypeOK /\ TypeOK' /\ env_status \in [Env -> Status] /\ env_sched_list \in Queue
        /\ curenv \in Env \cup {Null} /\ env_pri \in [Env -> Nat]
    BY TypeStep DEF RInv, IInv, TypeOK, Status
  <1>i. IInv'
    BY InvariantStep DEF RInv
  <1>l. \A x \in Env : env_status[x] = RUNNABLE => x \in Live /\ env_pri[x] > 0
    BY DEF Live, FREE, RUNNABLE, RInv, PrioritiesPositive
  <1>s. Running => /\ curenv \in Env /\ curenv \in Live /\ env_status[curenv] = RUNNABLE
                   /\ 0 <= count /\ count < env_pri[curenv]
    <2>1. Running => curenv \in Env /\ env_status[curenv] = RUNNABLE
      BY <1>0 DEF IInv, CurenvIsHead, Running
    <2>2. QED
      BY <1>l, <2>1 DEF RInv, SlicesLeft
  <1>1. ASSUME NEW p \in Priorities, env_create(p) PROVE Kept
    <2>1. PICK e \in Env : env_alloc(e, ZeroId, RUNNABLE, p)
      BY <1>1 DEF env_create
    <2>2. p \in Nat \ {0} /\ retired' = retired /\ curenv' = Null
      BY <1>1, PrioritiesAssumption DEF env_create, Booting
    <2>3. SlicesLeft'
      BY <2>2 DEF SlicesLeft, Running
    <2>4. QED
      BY <2>1, <2>2, <2>3, AllocResources
  <1>2. ASSUME \/ mips_init_schedule \/ handle_int \/ sys_yield
        PROVE  Kept
    <2>1. PICK y \in BOOLEAN : schedule(env_sched_list, env_status, curenv, y)
      BY <1>2 DEF mips_init_schedule, handle_int, sys_yield, Booting
    <2>2. UNCHANGED <<env_status, allocVars, retired>> /\ panicked = "no"
      BY <1>2 DEF mips_init_schedule, handle_int, sys_yield, Booting, Running
    <2>3. curenv # Null => 0 <= count /\ count < env_pri[curenv]
      BY <1>s, <2>2 DEF Running
    <2>4. panicked' = "no" => 0 <= count' /\ count' < env_pri[curenv']
      BY <1>0, <1>l, <2>1, <2>2, <2>3, ScheduleSlices
    <2>5. SlicesLeft'
      BY <2>2, <2>4 DEF SlicesLeft, Running, allocVars
    <2>6. Live' = Live
      BY <2>2 DEF Live
    <2>7. QED
      BY <2>2, <2>5, <2>6, ResourcesUnchanged
  <1>3. ASSUME NEW id \in EnvId, sys_env_destroy(id) PROVE Kept
    <2>1. PICK e \in envid2env(id, TRUE) : env_destroy(e) /\ env_status[e] = RUNNABLE
      BY <1>3 DEF sys_env_destroy
    <2>2. e \in Env /\ Running
      BY <1>0, <1>3, Envid2envType DEF sys_env_destroy, Running
    <2>3. e \in Live /\ env_free(e) /\ env_status' = [env_status EXCEPT ![e] = FREE] /\ env_pri' = env_pri
      BY <1>l, <2>1, <2>2 DEF env_destroy, env_free
    <2>4. SlicesLeft'
      <3> DEFINE q == TAILQ_REMOVE(env_sched_list, e)
      <3>1. \A x \in Env : env_status'[x] = RUNNABLE => env_pri[x] > 0
        BY <1>0, <1>l, <2>2, <2>3 DEF FREE, RUNNABLE
      <3>2. CASE RemoveFaults(env_sched_list, e)
        BY <2>1, <3>2 DEF env_destroy, SlicesLeft, Running
      <3>3. CASE ~RemoveFaults(env_sched_list, e) /\ e = curenv
        <4>1. schedule(q, env_status', Null, TRUE)
          BY <2>1, <3>3 DEF env_destroy
        <4>2. q \in Queue /\ env_status' \in [Env -> Status] /\ panicked = "no"
          BY <1>0, <2>2, QueueTypes DEF TypeOK, Status, Running
        <4> HIDE DEF q
        <4>3. panicked' = "no" => 0 <= count' /\ count' < env_pri[curenv']
          BY <1>0, <3>1, <4>1, <4>2, ScheduleSlices
        <4>4. QED
          BY <2>3, <4>3 DEF SlicesLeft, Running
      <3>4. CASE ~RemoveFaults(env_sched_list, e) /\ e # curenv
        <4>1. UNCHANGED <<curenv, count, panicked>>
          BY <2>1, <3>4 DEF env_destroy
        <4>2. QED
          BY <1>s, <2>2, <2>3, <4>1 DEF SlicesLeft, Running
      <3>5. QED
        BY <3>2, <3>3, <3>4
    <2>5. QED
      BY <2>3, <2>4, FreeResources
  <1>4. ASSUME sys_exofork PROVE Kept
    <2>1. PICK e \in Env : env_alloc(e, env_id[curenv], NOT_RUNNABLE, env_pri[curenv])
      BY <1>4 DEF sys_exofork
    <2>2. Running /\ env_pri[curenv] \in Nat \ {0} /\ retired' = retired
      <3>1. Running /\ retired' = retired
        BY <1>4 DEF sys_exofork
      <3>2. curenv \in Env /\ 0 <= count /\ count < env_pri[curenv] /\ count \in Int
        BY <1>0, <1>s, <3>1 DEF TypeOK
      <3>3. QED
        BY <1>0, <3>1, <3>2
    <2>3. env_status[e] = FREE
      BY <1>0, <2>1, EnvAllocFree DEF IInv
    <2>4. SlicesLeft'
      <3>1. UNCHANGED <<curenv, count, panicked>> /\ env_pri' = [env_pri EXCEPT ![e] = env_pri[curenv]]
        BY <1>4, <2>1 DEF sys_exofork, runVars, env_alloc
      <3>2. e # curenv
        BY <1>s, <2>2, <2>3 DEF FREE, RUNNABLE
      <3>3. QED
        BY <1>0, <1>s, <2>2, <3>1, <3>2 DEF SlicesLeft, Running
    <2>5. QED
      BY <2>1, <2>2, <2>4, AllocResources
  <1>5. ASSUME sys_exofork_no_asid PROVE Kept
    <2>1. env_alloc_no_asid /\ UNCHANGED <<env_status, curenv, count, panicked, retired, env_pri>>
      BY <1>5 DEF sys_exofork_no_asid, env_alloc_no_asid, runVars
    <2>2. SlicesLeft'
      BY <2>1 DEF RInv, SlicesLeft, Running
    <2>3. QED
      BY <2>1, <2>2, NoAsidResources
  <1>6. ASSUME NEW id \in EnvId, NEW st \in {RUNNABLE, NOT_RUNNABLE}, sys_set_env_status(id, st)
        PROVE  Kept
    <2>1. PICK e \in envid2env(id, TRUE) :
            \/ UNCHANGED env_status
            \/ env_status' = [env_status EXCEPT ![e] = st]
      BY <1>6 DEF sys_set_env_status
    <2>2. e \in Env /\ Running /\ env_status[e] # FREE
      <3>1. e \in Env /\ Running
        BY <1>0, <1>6, Envid2envType DEF sys_set_env_status, Running
      <3>2. QED
        BY <1>s, <3>1 DEF envid2env, FREE, RUNNABLE
    <2>3. Live' = Live
      BY <1>0, <2>1, <2>2 DEF Live, FREE, RUNNABLE, NOT_RUNNABLE
    <2>4. UNCHANGED <<allocVars, curenv, count, retired>>
      BY <1>6 DEF sys_set_env_status
    <2>5. SlicesLeft'
      BY <1>s, <2>2, <2>4 DEF SlicesLeft, Running, allocVars
    <2>6. QED
      BY <2>3, <2>4, <2>5, ResourcesUnchanged
  <1>7. ASSUME sys_ipc_recv PROVE Kept
    <2>1. /\ Running /\ env_status' = [env_status EXCEPT ![curenv] = NOT_RUNNABLE]
          /\ schedule(TAILQ_REMOVE(env_sched_list, curenv), env_status', curenv, TRUE)
          /\ UNCHANGED <<allocVars, retired>>
      BY <1>7 DEF sys_ipc_recv
    <2>2. Live' = Live
      BY <1>0, <1>s, <2>1 DEF Live, FREE, RUNNABLE, NOT_RUNNABLE
    <2>3. /\ TAILQ_REMOVE(env_sched_list, curenv) \in Queue /\ env_status' \in [Env -> Status]
          /\ panicked = "no"
      BY <1>0, <1>s, <2>1, QueueTypes DEF TypeOK, Status, Running
    <2>4. \A x \in Env : env_status'[x] = RUNNABLE => env_pri[x] > 0
      BY <1>0, <1>l, <1>s, <2>1 DEF NOT_RUNNABLE, RUNNABLE
    <2>5. panicked' = "no" => 0 <= count' /\ count' < env_pri[curenv']
      BY <1>0, <1>s, <2>1, <2>3, <2>4, ScheduleSlices
    <2>6. SlicesLeft'
      BY <2>1, <2>5 DEF SlicesLeft, Running, allocVars
    <2>7. QED
      BY <2>1, <2>2, <2>6, ResourcesUnchanged
  <1>8. ASSUME NEW id \in EnvId, NEW v \in Values, sys_ipc_try_send(id, v) PROVE Kept
    <2>1. PICK e \in envid2env(id, FALSE) :
            env_ipc_recving[e] /\ env_status' = [env_status EXCEPT ![e] = RUNNABLE]
      BY <1>8 DEF sys_ipc_try_send
    <2>2. e \in Env
      BY <1>0, <1>8, Envid2envType DEF sys_ipc_try_send, Running
    <2>3. Live' = Live
      BY <1>0, <2>1, <2>2 DEF IInv, ReceiverIsBlocked, Live, FREE, RUNNABLE, NOT_RUNNABLE
    <2>4. UNCHANGED <<allocVars, curenv, count, panicked, retired>>
      BY <1>8 DEF sys_ipc_try_send
    <2>5. SlicesLeft'
      BY <2>4 DEF RInv, SlicesLeft, Running, allocVars
    <2>6. QED
      BY <2>3, <2>4, <2>5, ResourcesUnchanged
  <1>9. ASSUME UNCHANGED vars PROVE Kept
    <2>1. Live' = Live /\ UNCHANGED <<allocVars, retired, curenv, count, panicked>>
      BY <1>9 DEF vars, Live, runVars
    <2>2. SlicesLeft'
      BY <2>1 DEF RInv, SlicesLeft, Running, allocVars
    <2>3. QED
      BY <2>1, <2>2, ResourcesUnchanged
  <1>10. Kept
    BY <1>1, <1>2, <1>3, <1>4, <1>5, <1>6, <1>7, <1>8, <1>9 DEF Next
  <1>11. QED
    BY <1>i, <1>10 DEF RInv

\* The initial state satisfies it.
LEMMA ResourceInit == Init => RInv
  <1> SUFFICES ASSUME Init PROVE RInv
    OBVIOUS
  <1>1. Live = {}
    BY DEF Init, Live
  <1>2. AsidInv /\ PrioritiesPositive /\ SlicesLeft
    BY <1>1 DEF Init, AsidInv, PrioritiesPositive, SlicesLeft, Running
  <1>3. IdsPast
    BY <1>1 DEF Init, IdsPast
  <1>4. QED
    BY <1>2, <1>3, InvariantInit DEF RInv

\* The strengthened invariant holds for disciplined callers.
THEOREM ResourceInvariance == ASSUME Liberties = {} PROVE Spec => []RInv
  BY ResourceInit, ResourceStep, PTL DEF Spec

\* kern/env.c, asid_alloc and asid_free: live envs never share an asid, and the
\* bitmap loses none, also when env_alloc fails half way.
THEOREM AsidsExact == ASSUME Liberties = {} PROVE Spec => []AsidInv
  BY ResourceInvariance, PTL DEF RInv

\* kern/env.c, mkenvid and envid2env: an id kept after its env has ended names
\* nobody, until the counter wraps.
THEOREM StaleIdsRejected == ASSUME Liberties = {} PROVE Spec => []StaleIdRejected
  <1>1. RInv => StaleIdRejected
    <2> SUFFICES ASSUME RInv, mkenvid_i < GenMod, NEW e \in Live
                 PROVE  env_id[e].index = e /\ env_id[e] # ZeroId /\ env_id[e] \notin retired
      BY DEF StaleIdRejected
    <2>1. env_id[e].index = e /\ env_id[e].gen \in 1 .. mkenvid_i /\ env_id[e] \notin retired
      BY DEF RInv, IdsPast
    <2>2. mkenvid_i \in Nat
      BY DEF RInv, IInv, TypeOK
    <2>3. QED
      BY <2>1, <2>2 DEF ZeroId
  <1>2. QED
    BY <1>1, ResourceInvariance, PTL

\* kern/sched.c: the slices left are curenv's own, also after a call replaced
\* curenv, after its parent gave it its priority and after it ended.
THEOREM SlicesBelongToCurenv == ASSUME Liberties = {} PROVE Spec => []SlicesLeft
  BY ResourceInvariance, PTL DEF RInv

\* kern/syscall_all.c, sys_ipc_try_send: a message is written only into an env
\* that is blocked for it, so no message is overwritten before it is read.
THEOREM MessagesKept == ASSUME Liberties = {} PROVE Spec => MessageKept
  <1> DEFINE Kept(e) == env_ipc_msg'[e] # env_ipc_msg[e] =>
                          env_status[e] = NOT_RUNNABLE /\ env_status'[e] = RUNNABLE /\ curenv # e
  <1>1. IInv /\ [Next]_vars => [\A e \in Env : Kept(e)]_vars
    <2> SUFFICES ASSUME IInv, Next, NEW e \in Env PROVE Kept(e)
      OBVIOUS
    <2>1. CASE UNCHANGED env_ipc_msg
      BY <2>1
    <2>2. ASSUME NEW id \in EnvId, NEW v \in Values, sys_ipc_try_send(id, v) PROVE Kept(e)
      <3>1. PICK d \in envid2env(id, FALSE) :
              /\ env_ipc_recving[d]
              /\ env_ipc_msg' = [env_ipc_msg EXCEPT ![d] = [from |-> env_id[curenv], value |-> v]]
              /\ env_status' = [env_status EXCEPT ![d] = RUNNABLE]
        BY <2>2 DEF sys_ipc_try_send
      <3>2. d \in Env /\ Running
        BY <2>2, Envid2envType DEF sys_ipc_try_send, Running, IInv
      <3>3. env_status[d] = NOT_RUNNABLE /\ env_status[curenv] = RUNNABLE
        BY <3>1, <3>2 DEF IInv, ReceiverIsBlocked, CurenvIsHead
      <3>4. env_status \in [Env -> Status] /\ env_ipc_msg \in [Env -> Message \cup {<<>>}]
        BY DEF IInv, TypeOK, Status
      <3>5. env_ipc_msg'[e] # env_ipc_msg[e] => e = d
        BY <3>1, <3>4
      <3>6. env_status'[d] = RUNNABLE /\ curenv # d
        BY <3>1, <3>2, <3>3, <3>4 DEF RUNNABLE, NOT_RUNNABLE
      <3>7. QED
        BY <3>3, <3>5, <3>6
    <2>3. QED
      BY <2>1, <2>2 DEF Next, ipcVars, env_create, mips_init_schedule, handle_int, sys_yield,
            sys_env_destroy, env_destroy, env_free, sys_exofork, sys_exofork_no_asid,
            sys_set_env_status, sys_ipc_recv
  <1>2. QED
    BY <1>1, Invariance, PTL DEF Spec, MessageKept
==============================================================================
