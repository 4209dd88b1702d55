--------------------------------- MODULE Pipe ---------------------------------
(***************************************************************************)
(* Pipes (user/lib/pipe.c) and the sharing of their descriptors            *)
(* (close and dup of user/lib/fd.c, fork of user/lib/fork.c).              *)
(*                                                                         *)
(* A pipe is three shared pages: the descriptor of its read end, that of   *)
(* its write end, and the buffer, which a process maps once per open       *)
(* descriptor.  Nothing counts readers and writers: _pipe_is_closed        *)
(* compares reference counts of pages.  The library runs in user mode, so  *)
(* the clock interrupt may come between any two of its memory accesses and *)
(* system calls: each of those is a step of its own.                       *)
(***************************************************************************)
EXTENDS Integers, Sequences, FiniteSets

CONSTANTS
  Proc,       \* processes
  Born,       \* the ones that exist at the start; the others may be forked
  FdNum,      \* descriptor numbers, 0 .. n: pipe() returned 0 and 1
  Dups,       \* the pairs <<old, new>> dup is called with
  Readers,    \* the processes that call read
  Writers,    \* the processes that call write
  PIPE_SIZE,
  PosMod,     \* p_rpos and p_wpos are u_int: 2^32
  MaxBytes    \* bound: bytes written in all

ASSUME ProcAssumption == IsFiniteSet(Proc) /\ Born \subseteq Proc
ASSUME FdAssumption ==
  IsFiniteSet(FdNum) /\ {0, 1} \subseteq FdNum /\ FdNum = 0 .. Cardinality(FdNum) - 1
ASSUME DupsAssumption == Dups \subseteq {d \in FdNum \X FdNum : d[1] # d[2]}
ASSUME SizeAssumption ==
  PIPE_SIZE \in Nat \ {0} /\ PosMod \in Nat /\ PIPE_SIZE < PosMod /\ PosMod % PIPE_SIZE = 0

End == {"r", "w"}

VARIABLES
  fdpage,      \* the end whose descriptor is mapped at a number, or "none"
  data,        \* the numbers at whose data address the buffer page is mapped
  p_rpos, p_wpos, p_buf,
  frame,       \* where a process is in the library, with its locals
  undisturbed, \* env_runs has not changed since _pipe_is_closed read it
  told,        \* _pipe_is_closed has told the process that the pipe is closed
  eof,         \* the process has had a read that returned 0
  sent, got    \* history: bytes written and read, by serial number

pageVars == <<fdpage, data>>
bufVars  == <<p_rpos, p_wpos, p_buf, sent, got>>
vars     == <<pageVars, bufVars, frame, undisturbed, told, eof>>

\* fd, to: the descriptors of the call; n, i: bytes asked for and done; tmp: a
\* value just read; kid: the child being forked.
Idle == [pc |-> "idle", fd |-> 0, to |-> 0, n |-> 0, i |-> 0, tmp |-> 0, kid |-> {}]
Unborn == [Idle EXCEPT !.pc = "unborn"]
Embryo == [Idle EXCEPT !.pc = "embryo"]   \* forked, not yet RUNNABLE
Gone == [Idle EXCEPT !.pc = "gone"]

\* pipe(pfd) has returned <<0, 1>>, and every process of Born has been forked
\* since.
Init ==
  /\ fdpage = [p \in Proc |-> [f \in FdNum |->
                 IF p \in Born /\ f = 0 THEN "r" ELSE IF p \in Born /\ f = 1 THEN "w" ELSE "none"]]
  /\ data = [p \in Proc |-> IF p \in Born THEN {0, 1} ELSE {}]
  /\ p_rpos = 0 /\ p_wpos = 0
  /\ p_buf = [k \in 0 .. PIPE_SIZE - 1 |-> 0]
  /\ frame = [p \in Proc |-> IF p \in Born THEN Idle ELSE Unborn]
  /\ undisturbed = [p \in Proc |-> FALSE]
  /\ told = [p \in Proc |-> FALSE]
  /\ eof = [p \in Proc |-> FALSE]
  /\ sent = <<>> /\ got = <<>>

------------------------------------------------------------------------------
(* One step of process p.  Whoever was interrupted for it will be resumed   *)
(* by env_run, which increments its env_runs.                               *)

At(p, pc) == frame[p].pc = pc
Goto(p, pc) == frame' = [frame EXCEPT ![p].pc = pc]
Return(p) == frame' = [frame EXCEPT ![p] = Idle]
Disturb(p) == undisturbed' = [q \in Proc |-> undisturbed[q] /\ q = p]

\* pageref of a descriptor page and of the buffer page: sys_mem_map and
\* sys_mem_unmap keep pp_ref equal to the number of mappings.
pageref_fd(x) == Cardinality({m \in Proc \X FdNum : fdpage[m[1]][m[2]] = x})
pageref_pipe  == Cardinality({m \in Proc \X FdNum : m[2] \in data[m[1]]})

\* Mutant: the comparison is off by one.
empty_OffByOne == p_rpos > p_wpos
empty == p_rpos >= p_wpos
full  == (p_wpos - p_rpos) % PosMod >= PIPE_SIZE

(* Calls *)

Open(p, f, x) == At(p, "idle") /\ fdpage[p][f] = x

call_read(p, f, n) ==
  /\ p \in Readers /\ Open(p, f, "r")
  /\ frame' = [frame EXCEPT ![p] = [Idle EXCEPT !.pc = "read", !.fd = f, !.n = n]]
  /\ Disturb(p)
  /\ UNCHANGED <<pageVars, bufVars, told, eof>>

call_write(p, f, n) ==
  /\ p \in Writers /\ Open(p, f, "w")
  /\ Len(sent) + n <= MaxBytes
  /\ frame' = [frame EXCEPT ![p] = [Idle EXCEPT !.pc = "write", !.fd = f, !.n = n]]
  /\ Disturb(p)
  /\ UNCHANGED <<pageVars, bufVars, told, eof>>

\* pipe_is_closed
call_is_closed(p, f) ==
  /\ At(p, "idle") /\ fdpage[p][f] # "none"
  /\ frame' = [frame EXCEPT ![p] = [Idle EXCEPT !.pc = "ask", !.fd = f]]
  /\ Disturb(p)
  /\ UNCHANGED <<pageVars, bufVars, told, eof>>

\* dup closes the new number first, if it is open.
call_dup(p, f, to) ==
  /\ At(p, "idle") /\ fdpage[p][f] # "none"
  /\ frame' = [frame EXCEPT ![p] =
                 [Idle EXCEPT !.pc = IF fdpage[p][to] = "none" THEN "dup" ELSE "dup_close",
                              !.fd = f, !.to = to]]
  /\ Disturb(p)
  /\ UNCHANGED <<pageVars, bufVars, told, eof>>

------------------------------------------------------------------------------
(* pipe_read and pipe_write, one byte per turn of the loop *)

\* The buffer is looked at.
read_test(p) ==
  /\ At(p, "read")
  /\ \/ /\ ~empty
        /\ Goto(p, "read_copy") /\ UNCHANGED eof
     \/ /\ empty /\ frame[p].i > 0
        /\ Return(p) /\ UNCHANGED eof
     \/ /\ empty /\ frame[p].i = 0
        /\ Goto(p, "read_ask") /\ UNCHANGED eof
  /\ Disturb(p)
  /\ UNCHANGED <<pageVars, bufVars, told>>

read_copy(p) ==
  /\ At(p, "read_copy")
  /\ got' = Append(got, p_buf[p_rpos % PIPE_SIZE])
  /\ frame' = [frame EXCEPT ![p].pc = "read_inc", ![p].tmp = p_rpos]
  /\ Disturb(p)
  /\ UNCHANGED <<pageVars, p_rpos, p_wpos, p_buf, sent, told, eof>>

\* The byte is counted; the last one ends the call.
NextByte(p, pc) ==
  frame' = [frame EXCEPT ![p] = IF frame[p].i + 1 = frame[p].n THEN Idle
                                ELSE [frame[p] EXCEPT !.pc = pc, !.i = @ + 1, !.tmp = 0]]

read_inc(p) ==
  /\ At(p, "read_inc")
  /\ p_rpos' = (frame[p].tmp + 1) % PosMod
  /\ NextByte(p, "read")
  /\ Disturb(p)
  /\ UNCHANGED <<pageVars, p_wpos, p_buf, sent, got, told, eof>>

write_test(p) ==
  /\ At(p, "write")
  /\ Goto(p, IF full THEN "write_ask" ELSE "write_copy")
  /\ Disturb(p)
  /\ UNCHANGED <<pageVars, bufVars, told, eof>>

write_copy(p) ==
  /\ At(p, "write_copy")
  /\ p_buf' = [p_buf EXCEPT ![p_wpos % PIPE_SIZE] = Len(sent) + 1]
  /\ sent' = Append(sent, Len(sent) + 1)
  /\ frame' = [frame EXCEPT ![p].pc = "write_inc", ![p].tmp = p_wpos]
  /\ Disturb(p)
  /\ UNCHANGED <<pageVars, p_rpos, p_wpos, got, told, eof>>

write_inc(p) ==
  /\ At(p, "write_inc")
  /\ p_wpos' = (frame[p].tmp + 1) % PosMod
  /\ NextByte(p, "write")
  /\ Disturb(p)
  /\ UNCHANGED <<pageVars, p_rpos, p_buf, sent, got, told, eof>>

------------------------------------------------------------------------------
(* _pipe_is_closed, called from the three places *)

\* runs = env->env_runs; fd_ref = pageref(fd)
is_closed_fd_ref(p) ==
  /\ frame[p].pc \in {"ask", "read_ask", "write_ask"}
  /\ frame' = [frame EXCEPT
                 ![p].tmp = pageref_fd(fdpage[p][frame[p].fd]),
                 ![p].pc  = CASE frame[p].pc = "ask" -> "asked"
                              [] frame[p].pc = "read_ask" -> "read_asked"
                              [] frame[p].pc = "write_ask" -> "write_asked"]
  /\ undisturbed' = [q \in Proc |-> q = p]
  /\ UNCHANGED <<pageVars, bufVars, told, eof>>

\* pipe_ref = pageref(p), then the loop's condition finds env_runs changed.
is_closed_retry(p) ==
  /\ frame[p].pc \in {"asked", "read_asked", "write_asked"}
  /\ ~undisturbed[p]
  /\ frame' = [frame EXCEPT
                 ![p].pc = CASE frame[p].pc = "asked" -> "ask"
                             [] frame[p].pc = "read_asked" -> "read_ask"
                             [] frame[p].pc = "write_asked" -> "write_ask"]
  /\ Disturb(p)
  /\ UNCHANGED <<pageVars, bufVars, told, eof>>

\* Mutant: env_runs is not compared.
is_closed_answer_NoRetry(p) ==
  LET closed == frame[p].tmp = pageref_pipe IN
  /\ frame[p].pc \in {"asked", "read_asked", "write_asked"}
  /\ told' = [told EXCEPT ![p] = @ \/ closed]
  /\ eof' = [eof EXCEPT ![p] = @ \/ (At(p, "read_asked") /\ closed)]
  /\ IF closed \/ At(p, "asked") THEN Return(p)
     ELSE frame' = [frame EXCEPT ![p].tmp = 0,
                                 ![p].pc = IF At(p, "read_asked") THEN "read" ELSE "write"]
  /\ undisturbed' = [q \in Proc |-> FALSE]
  /\ UNCHANGED <<pageVars, bufVars>>

\* It does not: the answer is fd_ref == pipe_ref.  A reader or a writer told
\* that the pipe is closed returns, otherwise it yields and looks again.
is_closed_answer(p) ==
  LET closed == frame[p].tmp = pageref_pipe IN
  /\ frame[p].pc \in {"asked", "read_asked", "write_asked"}
  /\ undisturbed[p]
  /\ told' = [told EXCEPT ![p] = @ \/ closed]
  /\ eof' = [eof EXCEPT ![p] = @ \/ (At(p, "read_asked") /\ closed)]
  /\ IF closed \/ At(p, "asked") THEN Return(p)
     ELSE frame' = [frame EXCEPT ![p].tmp = 0,
                                 ![p].pc = IF At(p, "read_asked") THEN "read" ELSE "write"]
  /\ undisturbed' = [q \in Proc |-> FALSE]
  /\ UNCHANGED <<pageVars, bufVars>>

------------------------------------------------------------------------------
(* Descriptors *)

\* pipe_close unmaps the descriptor, then the buffer.
close_fd(p, f) ==
  /\ At(p, "idle") /\ fdpage[p][f] # "none"
  /\ fdpage' = [fdpage EXCEPT ![p][f] = "none"]
  /\ frame' = [frame EXCEPT ![p] = [Idle EXCEPT !.pc = "close_data", !.fd = f]]
  /\ Disturb(p)
  /\ UNCHANGED <<data, bufVars, told, eof>>

\* Mutant: the buffer stays mapped.
close_data_Skip(p) ==
  /\ At(p, "close_data")
  /\ Return(p)
  /\ Disturb(p)
  /\ UNCHANGED <<pageVars, bufVars, told, eof>>

close_data(p) ==
  /\ At(p, "close_data")
  /\ data' = [data EXCEPT ![p] = @ \ {frame[p].fd}]
  /\ Return(p)
  /\ Disturb(p)
  /\ UNCHANGED <<fdpage, bufVars, told, eof>>

\* The close inside dup.
dup_close_fd(p) ==
  /\ At(p, "dup_close")
  /\ fdpage' = [fdpage EXCEPT ![p][frame[p].to] = "none"]
  /\ Goto(p, "dup_close_data")
  /\ Disturb(p)
  /\ UNCHANGED <<data, bufVars, told, eof>>

dup_close_data(p) ==
  /\ At(p, "dup_close_data")
  /\ data' = [data EXCEPT ![p] = @ \ {frame[p].to}]
  /\ Goto(p, "dup")
  /\ Disturb(p)
  /\ UNCHANGED <<fdpage, bufVars, told, eof>>

\* Mutant: only the descriptor is shared.
dup_data_Skip(p) ==
  /\ At(p, "dup")
  /\ Goto(p, "dup_fd")
  /\ Disturb(p)
  /\ UNCHANGED <<pageVars, bufVars, told, eof>>

\* dup maps the buffer, then the descriptor.
dup_data(p) ==
  /\ At(p, "dup")
  /\ data' = [data EXCEPT ![p] = @ \cup {frame[p].to}]
  /\ Goto(p, "dup_fd")
  /\ Disturb(p)
  /\ UNCHANGED <<fdpage, bufVars, told, eof>>

dup_fd(p) ==
  /\ At(p, "dup_fd")
  /\ fdpage' = [fdpage EXCEPT ![p][frame[p].to] = fdpage[p][frame[p].fd]]
  /\ Return(p)
  /\ Disturb(p)
  /\ UNCHANGED <<data, bufVars, told, eof>>

\* fork shares the mapped pages in the order of their addresses, one system
\* call each: descriptors (FDTABLE) come before data (FILEBASE).
call_fork(p, q) ==
  /\ At(p, "idle") /\ At(q, "unborn")
  /\ frame' = [frame EXCEPT ![p] = [Idle EXCEPT !.pc = "fork_fd", !.kid = {q}], ![q] = Embryo]
  /\ Disturb(p)
  /\ UNCHANGED <<pageVars, bufVars, told, eof>>

LastFd == Cardinality(FdNum) - 1

fork_fd(p) ==
  LET f == frame[p].i IN
  /\ At(p, "fork_fd")
  /\ \E q \in frame[p].kid : fdpage' = [fdpage EXCEPT ![q][f] = fdpage[p][f]]
  /\ frame' = [frame EXCEPT ![p].pc = IF f = LastFd THEN "fork_data" ELSE "fork_fd",
                            ![p].i  = IF f = LastFd THEN 0 ELSE f + 1]
  /\ Disturb(p)
  /\ UNCHANGED <<data, bufVars, told, eof>>

\* Mutant: the last number is forgotten.
fork_data_OffByOne(p) ==
  LET f == frame[p].i IN
  /\ At(p, "fork_data")
  /\ \E q \in frame[p].kid :
       /\ data' = [data EXCEPT ![q] = @ \cup ({f} \cap (data[p] \ {LastFd}))]
       /\ frame' = IF f = LastFd
                   THEN [frame EXCEPT ![p] = Idle, ![q] = Idle]
                   ELSE [frame EXCEPT ![p].i = f + 1]
  /\ Disturb(p)
  /\ UNCHANGED <<fdpage, bufVars, told, eof>>

fork_data(p) ==
  LET f == frame[p].i IN
  /\ At(p, "fork_data")
  /\ \E q \in frame[p].kid :
       /\ data' = [data EXCEPT ![q] = @ \cup ({f} \cap data[p])]
       /\ frame' = IF f = LastFd
                   THEN [frame EXCEPT ![p] = Idle, ![q] = Idle]
                   ELSE [frame EXCEPT ![p].i = f + 1]
  /\ Disturb(p)
  /\ UNCHANGED <<fdpage, bufVars, told, eof>>

\* The process ends, or its parent destroys it: env_free unmaps everything.
env_destroy(p) ==
  /\ frame[p].pc \notin {"unborn", "embryo", "gone"}
  /\ fdpage' = [fdpage EXCEPT ![p] = [f \in FdNum |-> "none"]]
  /\ data' = [data EXCEPT ![p] = {}]
  /\ frame' = [frame EXCEPT ![p] = Gone]
  /\ Disturb(p)
  /\ UNCHANGED <<bufVars, told, eof>>

------------------------------------------------------------------------------
call(p) ==
  \/ \E f \in FdNum, n \in 1 .. 2 : call_read(p, f, n) \/ call_write(p, f, n)
  \/ \E f \in FdNum : call_is_closed(p, f) \/ close_fd(p, f)
  \/ \E d \in Dups : call_dup(p, d[1], d[2])
  \/ \E q \in Proc : call_fork(p, q)

\* A process that is inside a call goes on with it.
step(p) ==
  \/ read_test(p) \/ read_copy(p) \/ read_inc(p)
  \/ write_test(p) \/ write_copy(p) \/ write_inc(p)
  \/ is_closed_fd_ref(p) \/ is_closed_retry(p) \/ is_closed_answer(p)
  \/ close_data(p)
  \/ dup_close_fd(p) \/ dup_close_data(p) \/ dup_data(p) \/ dup_fd(p)
  \/ fork_fd(p) \/ fork_data(p)

Next == \E p \in Proc : call(p) \/ step(p) \/ env_destroy(p)

\* The scheduler lets every process go on (NoStarvation of EnvSched), and a time
\* slice is long enough for the two counts: the loop is not cut short for ever.
Fairness == \A p \in Proc : WF_vars(step(p)) /\ SF_vars(is_closed_answer(p))

Spec == Init /\ [][Next]_vars /\ Fairness

------------------------------------------------------------------------------
(* Properties *)

Holders(x) == {p \in Proc : \E f \in FdNum : fdpage[p][f] = x}

Reading(p) == frame[p].pc \in {"read", "read_copy", "read_inc", "read_ask", "read_asked"}
Writing(p) == frame[p].pc \in {"write", "write_copy", "write_inc", "write_ask", "write_asked"}

\* user/lib/pipe.c:101, "If they're the same, the pipe is closed": a process is
\* told so only when nobody has the other end open, whichever close, exit or
\* kill of another process the two counts were read across.
ClosedIsTrue == (\E p \in Proc : told[p]) => Holders("r") = {} \/ Holders("w") = {}

\* The same where processes also dup and fork: no answer is wrong unless it is
\* given while a fork is under way, or one was cut short by a kill.
ClosedUnlessForking ==
  [][\A p \in Proc : told'[p] /\ ~told[p] =>
       \/ Holders("r") = {} \/ Holders("w") = {}
       \/ \E q \in Proc : At(q, "embryo")]_vars

\* user/lib/pipe.c:96, "The 'pageref(p)' is the total number of readers and
\* writers": true again whenever no close, dup or fork is under way, whatever
\* was killed in between.  A fork whose parent was killed never ends.
CountsAgreeAtRest ==
  (\A p \in Proc : frame[p].pc \notin {"close_data", "dup_close_data", "dup_fd", "embryo"})
    => pageref_pipe = pageref_fd("r") + pageref_fd("w")

\* With one reader and one writer the bytes come out as they went in: none is
\* lost, repeated or overtaken, and the buffer is never overrun.
Fifo ==
  /\ \A k \in DOMAIN got : got[k] = k /\ k <= Len(sent)
  /\ (p_wpos - p_rpos) % PosMod <= PIPE_SIZE

\* user/lib/pipe.c:124, the value of pipe_read "must be greater than 0, unless
\* the pipe is closed and nothing has been written since the last read".
EofMeansDrained == \A p \in Proc : eof[p] => p_rpos = p_wpos

\* user/lib/pipe.c:144, "keep yielding until the buffer isn't empty or the pipe
\* is closed": a read returns once there is something to read, or nobody is
\* left to write.
ReadReturns ==
  \A p \in Proc : (Reading(p) /\ (p_rpos # p_wpos \/ Holders("w") = {})) ~> ~Reading(p)

\* A write returns once nobody is left to read.
WriteReturns == \A p \in Proc : (Writing(p) /\ Holders("r") = {}) ~> ~Writing(p)
==============================================================================
