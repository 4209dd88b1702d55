------------------------------- MODULE EnvSched -------------------------------
(***************************************************************************)
(* The process core of the kernel: the life of an env (kern/env.c), the    *)
(* round-robin scheduler (kern/sched.c) and the system calls that create,  *)
(* stop, wake and connect envs (kern/syscall_all.c).                       *)
(*                                                                         *)
(* The kernel runs on one processor with interrupts off, so a system call  *)
(* or the clock interrupt is one step.  Between steps the user code of     *)
(* 'curenv' decides which call comes next: the calls are the actions, with *)
(* any arguments.                                                          *)
(***************************************************************************)
EXTENDS TailQueue, FiniteSets, Sequences

CONSTANTS
  NASID,       \* number of address space ids (asid_bitmap)
  GenMod,      \* mkenvid's counter is shifted left by 11 in a u_int: 2^21
  Priorities,  \* the priorities env_create is given
  Values,      \* the values user code sends
  MaxAllocs,   \* bound: how often env_alloc reaches mkenvid
  Liberties    \* calls made beyond the callers' discipline, see below

ASSUME NASIDAssumption == NASID \in Nat \ {0}
ASSUME GenModAssumption == GenMod \in Nat \ {0, 1}
ASSUME PrioritiesAssumption == Priorities \subseteq Nat \ {0}
ASSUME MaxAllocsAssumption == MaxAllocs \in Nat

(***************************************************************************)
(* What the system calls accept and the scheduler cannot cope with:        *)
(*   "destroyBlocked"  destroying an env that is not RUNNABLE              *)
(*   "suspendSelf"     curenv sets its own status to NOT_RUNNABLE          *)
(*   "wakeReceiver"    setting a child blocked in ipc_recv RUNNABLE        *)
(* Callers that avoid all three keep the discipline.                       *)
(***************************************************************************)
ASSUME LibertiesAssumption ==
  Liberties \subseteq {"destroyBlocked", "suspendSelf", "wakeReceiver"}

FREE == "ENV_FREE"
RUNNABLE == "ENV_RUNNABLE"
NOT_RUNNABLE == "ENV_NOT_RUNNABLE"

(* An env id is (generation << 11) | index.  Id 0 stands for curenv when it *)
(* is an argument and for "no parent" when it is env_parent_id.             *)
EnvId  == [gen : 0 .. GenMod - 1, index : Env]
ZeroId == [gen |-> 0, index |-> 0]
ENVX(envid) == envid.index

Message == [from : EnvId, value : Values]

VARIABLES
  env_status, env_id, env_parent_id, env_pri, env_asid,
  env_ipc_recving,  \* blocked in ipc_recv, accepting a message
  env_ipc_msg,      \* <<>>, or the message last delivered (env_ipc_from, env_ipc_value)
  env_free_list,    \* only head operations are used: a sequence
  env_sched_list,   \* a tail queue, pointer by pointer
  asid_bitmap,      \* the asids in use
  mkenvid_i,        \* the static counter of mkenvid
  curenv, count,    \* running env, and its remaining time slices
  panicked,         \* "no", or why the kernel stopped
  retired           \* history: the ids of the envs freed so far

allocVars == <<env_id, env_parent_id, env_pri, env_asid, asid_bitmap, mkenvid_i, env_free_list>>
ipcVars   == <<env_ipc_recving, env_ipc_msg>>
runVars   == <<env_sched_list, curenv, count, panicked>>
vars      == <<env_status, allocVars, ipcVars, runVars, retired>>

------------------------------------------------------------------------------
(* kern/env.c *)

\* env_init: slots in array order on the free list, everything else zero.
Init ==
  /\ env_status = [e \in Env |-> FREE]
  /\ env_id = [e \in Env |-> ZeroId]
  /\ env_parent_id = [e \in Env |-> ZeroId]
  /\ env_pri = [e \in Env |-> 0]
  /\ env_asid = [e \in Env |-> 0]
  /\ env_ipc_recving = [e \in Env |-> FALSE]
  /\ env_ipc_msg = [e \in Env |-> <<>>]
  /\ env_free_list = [i \in 1 .. NENV |-> i - 1]
  /\ env_sched_list = TAILQ_INIT
  /\ asid_bitmap = {}
  /\ mkenvid_i = 0
  /\ curenv = Null
  /\ count = 0
  /\ panicked = "no"
  /\ retired = {}

\* Mutant: the counter is incremented after it is used.
mkenvid_PostIncrement(e) == [gen |-> mkenvid_i % GenMod, index |-> e]

mkenvid(e) == [gen |-> (mkenvid_i + 1) % GenMod, index |-> e]

\* The envs that envid2env(envid, &e, checkperm) returns: one, or none when it
\* returns -E_BAD_ENV.
envid2env(envid, checkperm) ==
  IF envid = ZeroId
  THEN {curenv}
  ELSE {e \in {ENVX(envid)} :
          /\ env_status[e] # FREE
          /\ env_id[e] = envid
          /\ checkperm => \/ env_id[e] = env_id[curenv]
                          \/ env_parent_id[e] = env_id[curenv]}

\* Mutant: the search starts at asid 1 and includes NASID.
asid_alloc_OffByOne == CHOOSE a \in 1 .. NASID :
                         /\ a \notin asid_bitmap
                         /\ \A b \in 1 .. a - 1 : b \in asid_bitmap

\* The asid asid_alloc returns: the first whose bit is clear.
asid_alloc == CHOOSE a \in 0 .. NASID - 1 :
                /\ a \notin asid_bitmap
                /\ \A b \in 0 .. a - 1 : b \in asid_bitmap

\* env_alloc succeeds with env e (env_setup_vm having found its page); the
\* caller sets status and priority.
env_alloc(e, parent_id, status, pri) ==
  /\ mkenvid_i < MaxAllocs
  /\ env_free_list # <<>>
  /\ e = Head(env_free_list)
  /\ asid_bitmap # 0 .. NASID - 1
  /\ env_id' = [env_id EXCEPT ![e] = mkenvid(e)]
  /\ mkenvid_i' = mkenvid_i + 1
  /\ env_asid' = [env_asid EXCEPT ![e] = asid_alloc]
  /\ asid_bitmap' = asid_bitmap \cup {asid_alloc}
  /\ env_parent_id' = [env_parent_id EXCEPT ![e] = parent_id]
  /\ env_free_list' = Tail(env_free_list)
  /\ env_status' = [env_status EXCEPT ![e] = status]
  /\ env_pri' = [env_pri EXCEPT ![e] = pri]

\* env_alloc runs out of asids after it has renamed the free slot.
env_alloc_no_asid ==
  /\ mkenvid_i < MaxAllocs
  /\ env_free_list # <<>>
  /\ asid_bitmap = 0 .. NASID - 1
  /\ env_id' = [env_id EXCEPT ![Head(env_free_list)] = mkenvid(Head(env_free_list))]
  /\ mkenvid_i' = mkenvid_i + 1
  /\ UNCHANGED <<env_parent_id, env_pri, env_asid, asid_bitmap, env_free_list>>

\* Mutants: the slot is not put back; the asid is not given back.
env_free_NoInsert(e) ==
  /\ asid_bitmap' = asid_bitmap \ {env_asid[e]}
  /\ env_status' = [env_status EXCEPT ![e] = FREE]
  /\ retired' = retired \cup {env_id[e]}
  /\ UNCHANGED <<env_free_list, env_id, env_parent_id, env_pri, env_asid, mkenvid_i, ipcVars>>

env_free_KeepAsid(e) ==
  /\ env_status' = [env_status EXCEPT ![e] = FREE]
  /\ env_free_list' = <<e>> \o env_free_list
  /\ retired' = retired \cup {env_id[e]}
  /\ UNCHANGED <<asid_bitmap, env_id, env_parent_id, env_pri, env_asid, mkenvid_i, ipcVars>>

\* env_free: what it does to everything but the run queue.
env_free(e) ==
  /\ asid_bitmap' = asid_bitmap \ {env_asid[e]}
  /\ env_status' = [env_status EXCEPT ![e] = FREE]
  /\ env_free_list' = <<e>> \o env_free_list
  /\ retired' = retired \cup {env_id[e]}
  /\ UNCHANGED <<env_id, env_parent_id, env_pri, env_asid, mkenvid_i, ipcVars>>

------------------------------------------------------------------------------
(* kern/sched.c: schedule(yield), called with the run queue q, the statuses *)
(* and the current env e its caller has left.  It ends in env_run.          *)

schedule(q, status, e, yield) ==
  LET keep    == ~yield /\ count > 0 /\ e # Null /\ status[e] = RUNNABLE
      removed == IF e = Null THEN q ELSE TAILQ_REMOVE(q, e)
      rotated == IF e # Null /\ status[e] = RUNNABLE
                 THEN TAILQ_INSERT_TAIL(removed, e) ELSE removed
      n       == TAILQ_FIRST(rotated)
  IN  \/ /\ keep
         /\ env_sched_list' = q
         /\ curenv' = e
         /\ count' = count - 1
         /\ UNCHANGED panicked
      \/ /\ ~keep
         /\ TAILQ_EMPTY(rotated)
         /\ env_sched_list' = rotated
         /\ curenv' = e
         /\ panicked' = "No runnable envs"
         /\ UNCHANGED count
      \/ /\ ~keep
         /\ ~TAILQ_EMPTY(rotated)
         /\ env_sched_list' = rotated
         /\ count' = env_pri[n] - 1
         /\ IF status[n] = RUNNABLE
            THEN curenv' = n /\ UNCHANGED panicked
            ELSE curenv' = e /\ panicked' = "env_run: env not RUNNABLE"

\* env_free(e) and, when e was running, schedule(1) with no current env.
env_destroy(e) ==
  LET q == TAILQ_REMOVE(env_sched_list, e) IN
  /\ env_free(e)
  /\ IF RemoveFaults(env_sched_list, e)
     THEN /\ panicked' = "store through NULL"
          /\ UNCHANGED <<env_sched_list, curenv, count>>
     ELSE IF e = curenv
     THEN schedule(q, env_status', Null, TRUE)
     ELSE env_sched_list' = q /\ UNCHANGED <<curenv, count, panicked>>

------------------------------------------------------------------------------
(* Boot: mips_init creates the first envs, then calls schedule(0). *)

Booting == curenv = Null /\ panicked = "no"
Running == curenv # Null /\ panicked = "no"

env_create(priority) ==
  /\ Booting
  /\ \E e \in Env :
       /\ env_alloc(e, ZeroId, RUNNABLE, priority)
       /\ env_sched_list' = TAILQ_INSERT_HEAD(env_sched_list, e)
  /\ UNCHANGED <<ipcVars, curenv, count, panicked, retired>>

mips_init_schedule ==
  /\ Booting
  /\ schedule(env_sched_list, env_status, Null, FALSE)
  /\ UNCHANGED <<env_status, allocVars, ipcVars, retired>>

------------------------------------------------------------------------------
(* The clock interrupt and the system calls of curenv.  A call that fails   *)
(* before it has changed anything is no step; neither are the parts of a    *)
(* call that only concern memory (the page an IPC carries).                 *)

\* handle_int: schedule(0).
handle_int ==
  /\ Running
  /\ schedule(env_sched_list, env_status, curenv, FALSE)
  /\ UNCHANGED <<env_status, allocVars, ipcVars, retired>>

sys_yield ==
  /\ Running
  /\ schedule(env_sched_list, env_status, curenv, TRUE)
  /\ UNCHANGED <<env_status, allocVars, ipcVars, retired>>

sys_env_destroy(envid) ==
  /\ Running
  /\ \E e \in envid2env(envid, TRUE) :
       /\ "destroyBlocked" \in Liberties \/ env_status[e] = RUNNABLE
       /\ env_destroy(e)

\* Mutant: the child does not inherit its parent's priority.
sys_exofork_NoPri ==
  /\ Running
  /\ \E e \in Env : env_alloc(e, env_id[curenv], NOT_RUNNABLE, 0)
  /\ UNCHANGED <<ipcVars, runVars, retired>>

sys_exofork ==
  /\ Running
  /\ \E e \in Env : env_alloc(e, env_id[curenv], NOT_RUNNABLE, env_pri[curenv])
  /\ UNCHANGED <<ipcVars, runVars, retired>>

sys_exofork_no_asid ==
  /\ Running
  /\ env_alloc_no_asid
  /\ UNCHANGED <<env_status, ipcVars, runVars, retired>>

\* Mutant: an env set NOT_RUNNABLE stays in the run queue.
sys_set_env_status_NoRemove(envid, status) ==
  /\ Running
  /\ \E e \in envid2env(envid, TRUE) :
       /\ env_status[e] # status
       /\ e # curenv /\ ~env_ipc_recving[e]
       /\ env_status' = [env_status EXCEPT ![e] = status]
       /\ env_sched_list' = IF status = RUNNABLE
                            THEN TAILQ_INSERT_TAIL(env_sched_list, e)
                            ELSE env_sched_list
  /\ UNCHANGED <<allocVars, ipcVars, curenv, count, panicked, retired>>

sys_set_env_status(envid, status) ==
  /\ Running
  /\ \E e \in envid2env(envid, TRUE) :
       /\ env_status[e] # status
       /\ "suspendSelf" \in Liberties \/ e # curenv
       /\ "wakeReceiver" \in Liberties \/ ~env_ipc_recving[e]
       /\ IF status = NOT_RUNNABLE /\ RemoveFaults(env_sched_list, e)
          THEN panicked' = "store through NULL" /\ UNCHANGED <<env_status, env_sched_list>>
          ELSE /\ env_sched_list' = IF status = RUNNABLE
                                    THEN TAILQ_INSERT_TAIL(env_sched_list, e)
                                    ELSE TAILQ_REMOVE(env_sched_list, e)
               /\ env_status' = [env_status EXCEPT ![e] = status]
               /\ UNCHANGED panicked
  /\ UNCHANGED <<allocVars, ipcVars, curenv, count, retired>>

sys_ipc_recv ==
  /\ Running
  /\ env_ipc_recving' = [env_ipc_recving EXCEPT ![curenv] = TRUE]
  /\ env_status' = [env_status EXCEPT ![curenv] = NOT_RUNNABLE]
  /\ schedule(TAILQ_REMOVE(env_sched_list, curenv), env_status', curenv, TRUE)
  /\ UNCHANGED <<allocVars, env_ipc_msg, retired>>

\* Mutants: the receiver's readiness is not checked; it is not reset.
sys_ipc_try_send_NoCheck(envid, value) ==
  /\ Running
  /\ \E e \in envid2env(envid, FALSE) :
       /\ env_ipc_msg' = [env_ipc_msg EXCEPT ![e] = [from |-> env_id[curenv], value |-> value]]
       /\ env_ipc_recving' = [env_ipc_recving EXCEPT ![e] = FALSE]
       /\ env_status' = [env_status EXCEPT ![e] = RUNNABLE]
       /\ env_sched_list' = TAILQ_INSERT_TAIL(env_sched_list, e)
  /\ UNCHANGED <<allocVars, curenv, count, panicked, retired>>

sys_ipc_try_send_NoReset(envid, value) ==
  /\ Running
  /\ \E e \in envid2env(envid, FALSE) :
       /\ env_ipc_recving[e]
       /\ env_ipc_msg' = [env_ipc_msg EXCEPT ![e] = [from |-> env_id[curenv], value |-> value]]
       /\ env_status' = [env_status EXCEPT ![e] = RUNNABLE]
       /\ env_sched_list' = TAILQ_INSERT_TAIL(env_sched_list, e)
  /\ UNCHANGED <<allocVars, env_ipc_recving, curenv, count, panicked, retired>>

\* The receiver is woken before the page at srcva is looked up and mapped, so
\* the step is the same when that part fails and the sender gets an error.
sys_ipc_try_send(envid, value) ==
  /\ Running
  /\ \E e \in envid2env(envid, FALSE) :
       /\ env_ipc_recving[e]
       /\ env_ipc_msg' = [env_ipc_msg EXCEPT ![e] = [from |-> env_id[curenv], value |-> value]]
       /\ env_ipc_recving' = [env_ipc_recving EXCEPT ![e] = FALSE]
       /\ env_status' = [env_status EXCEPT ![e] = RUNNABLE]
       /\ env_sched_list' = TAILQ_INSERT_TAIL(env_sched_list, e)
  /\ UNCHANGED <<allocVars, curenv, count, panicked, retired>>

Next ==
  \/ \E p \in Priorities : env_create(p)
  \/ mips_init_schedule
  \/ handle_int
  \/ sys_yield
  \/ \E id \in EnvId : sys_env_destroy(id)
  \/ sys_exofork
  \/ sys_exofork_no_asid
  \/ \E id \in EnvId, st \in {RUNNABLE, NOT_RUNNABLE} : sys_set_env_status(id, st)
  \/ sys_ipc_recv
  \/ \E id \in EnvId, v \in Values : sys_ipc_try_send(id, v)

\* The clock keeps ticking; user code owes nothing.
Fairness == WF_vars(handle_int)

Spec == Init /\ [][Next]_vars /\ Fairness

------------------------------------------------------------------------------
(* Properties *)

Live == {e \in Env : env_status[e] # FREE}
Runnable == {e \in Env : env_status[e] = RUNNABLE}

\* Every variable has the C type its declaration gives it.
TypeOK ==
  /\ env_status \in [Env -> {FREE, RUNNABLE, NOT_RUNNABLE}]
  /\ env_id \in [Env -> EnvId]
  /\ env_parent_id \in [Env -> EnvId]
  /\ env_pri \in [Env -> Nat]
  /\ env_asid \in [Env -> 0 .. NASID - 1]
  /\ env_ipc_recving \in [Env -> BOOLEAN]
  /\ env_ipc_msg \in [Env -> Message \cup {<<>>}]
  /\ env_free_list \in Seq(Env)
  /\ env_sched_list \in Queue
  /\ asid_bitmap \in SUBSET (0 .. NASID - 1)
  /\ mkenvid_i \in Nat
  /\ curenv \in Env \cup {Null}
  /\ count \in Int
  /\ panicked \in {"no", "No runnable envs", "env_run: env not RUNNABLE", "store through NULL"}
  /\ retired \in SUBSET EnvId

\* kern/env.c:14, "'env' in 'env_sched_list' iff. 'env->env_status' is
\* 'RUNNABLE'": the links form a well-formed queue of exactly the runnable
\* envs, whatever sequence of creations, exits, suspensions, wake-ups, IPCs and
\* clock interrupts came before, although TAILQ_REMOVE is at times applied to
\* an env that has already left the queue (schedule after sys_ipc_recv).
SchedListInv == panicked = "no" => QueueOf(env_sched_list, Runnable)

\* schedule puts curenv at the tail and takes the head, which is a rotation
\* only if curenv is the head: no wake-up or creation ever gets in front of it.
CurenvIsHead == Running => TAILQ_FIRST(env_sched_list) = curenv /\ env_status[curenv] = RUNNABLE

\* The slices left belong to curenv: less than its priority, since env_run has
\* consumed one, and never negative.
SlicesLeft == Running => 0 <= count /\ count < env_pri[curenv]

\* An env that accepts a message is blocked.  sys_ipc_try_send relies on it:
\* it inserts the receiver in the run queue without looking at its status.
ReceiverIsBlocked == \A e \in Env : env_ipc_recving[e] => env_status[e] = NOT_RUNNABLE

\* The free list holds each free slot once and no other, also after an
\* env_alloc that failed half way.
FreeListInv ==
  /\ \A i, j \in DOMAIN env_free_list : env_free_list[i] = env_free_list[j] => i = j
  /\ {env_free_list[i] : i \in DOMAIN env_free_list} = Env \ Live

\* Live envs have different asids and the bitmap is the set of those asids:
\* none is shared, and none leaks when env_alloc fails or an env ends.
AsidInv ==
  /\ asid_bitmap = {env_asid[e] : e \in Live}
  /\ \A d, e \in Live : env_asid[d] = env_asid[e] => d = e

\* An id kept after its env has ended never names a later env in the same slot,
\* until mkenvid's counter wraps: envid2env then rejects it.
StaleIdRejected ==
  mkenvid_i < GenMod =>
    \A e \in Live : /\ env_id[e].index = e
                    /\ env_id[e] # ZeroId
                    /\ env_id[e] \notin retired

\* The kernel stops for no other reason than that every env is blocked.
NoKernelFault == panicked \in {"no", "No runnable envs"}

\* A delivered message stays in place until its receiver asks for the next one:
\* ipc_recv reads env_ipc_from and env_ipc_value only after it is scheduled
\* again, any number of steps after the sender wrote them.
MessageKept ==
  [][\A e \in Env : env_ipc_msg'[e] # env_ipc_msg[e] =>
        env_status[e] = NOT_RUNNABLE /\ env_status'[e] = RUNNABLE /\ curenv # e]_vars

\* A runnable env eventually gets the processor, or stops being runnable, or
\* the kernel halts, whatever the other envs do between clock interrupts.
NoStarvation ==
  \A e \in Env : (Running /\ env_status[e] = RUNNABLE) ~>
                   (curenv = e \/ env_status[e] # RUNNABLE \/ panicked # "no")

\* What is reached from the head of the run queue q by 0, 1, ... links.
Reached(q) ==
  LET nth[i \in 1 .. NENV] ==
        IF i = 1 THEN q.first
        ELSE IF nth[i - 1] = Null THEN Null ELSE q.next[nth[i - 1]]
  IN  nth

\* The sequence of its elements.
QueueSeq(q) ==
  [i \in 1 .. Cardinality({j \in 1 .. NENV : Reached(q)[j] # Null}) |-> Reached(q)[i]]

Abstract == INSTANCE RunQueue WITH
  Nobody <- Null, ready <- QueueSeq(env_sched_list), running <- curenv

\* The pointer-level queue, the time slices and the system calls implement the
\* FIFO of module RunQueue: order of turns included, and turns end.
ImplementsRunQueue == Abstract!Spec
==============================================================================
