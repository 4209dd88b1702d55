-------------------------------- MODULE Shell --------------------------------
(***************************************************************************)
(* The shell (user/sh.c): a tree of processes that fork in the middle of   *)
(* parsing a line, run programs, and pass results up by IPC; with the ends *)
(* of programs (user/lib/libos.c), wait, ipc_send and ipc_recv, and the    *)
(* table of background jobs in the kernel (kern/syscall_all.c).            *)
(*                                                                         *)
(* IPC is a rendezvous without addressees' consent: a process that waits   *)
(* for one answer takes whatever comes first.  The file server is here     *)
(* only as a process that answers.                                         *)
(***************************************************************************)
EXTENDS Integers, Sequences, FiniteSets, SequencesExt

CONSTANTS
  MaxProc,   \* env ids there are; 1 is the shell itself
  Sessions   \* what may be typed: sequences of lines, which are sequences of tokens

\* A word is a program that returns 0 or 1 from main, one that calls exit, a name
\* that is no program, or a command of the shell; "kill" and "fg" are about job 1.
Returning == {"true", "false"}
Program == Returning \union {"quit"}
Words == Program \union {"none", "jobs", "kill", "fg"}
Symbols == {";", "&&", "||", "|", "&", ">"}
ASSUME SessionsAssumption == Sessions \subseteq Seq(Seq(Words \union Symbols))
ASSUME MaxProcAssumption == MaxProc \in Nat \ {0}
Pid == 1 .. MaxProc
Main == 1
NoProc == 0

VARIABLES
  proc,    \* the processes
  session, \* what will be typed
  typed,   \* the lines typed so far
  fs,      \* processes whose request the file server has not answered: one at most
  jobs,    \* jobs[] of the kernel
  ran,     \* history: the commands started, in order: line and position
  ended    \* history: those whose main has returned

vars == <<proc, session, typed, fs, jobs, ran, ended>>

\* pc: where it is; parent; line, at: the next token; argv: positions of its words;
\* cond, back: flag_next_is_condition, flag_is_in_back; file: "open", "closed", or
\* "none" when it never had one; child: what it waits for; right: rightpipe; val, from: what
\* ipc_recv returned.
Unborn == [pc |-> "unborn", parent |-> NoProc, line |-> 0, at |-> 1, argv |-> <<>>,
           cond |-> FALSE, back |-> FALSE, file |-> "none", child |-> NoProc,
           right |-> NoProc, val |-> 0, from |-> NoProc]
Over(p) == p \in Pid => proc[p].pc = "dead"

Init ==
  /\ proc = [p \in Pid |-> IF p = Main THEN [Unborn EXCEPT !.pc = "prompt"] ELSE Unborn]
  /\ session \in Sessions
  /\ typed = <<>> /\ fs = {} /\ jobs = <<>> /\ ran = <<>> /\ ended = {}

At(p, pc) == proc[p].pc = pc
Become(p, r) == proc' = [proc EXCEPT ![p] = r]
Goto(p, pc) == Become(p, [proc[p] EXCEPT !.pc = pc])

\* env_alloc: an env id that was never used.
New == CHOOSE q \in Pid : At(q, "unborn") /\ \A r \in Pid : At(r, "unborn") => q <= r
Room == \E q \in Pid : At(q, "unborn")
\* fork: p goes on as r, the child as s.
Fork(p, r, s) == Room /\ proc' = [proc EXCEPT ![p] = r, ![New] = [s EXCEPT !.parent = p]]

------------------------------------------------------------------------------
(* main *)

\* readline and save_line; a copy of the shell runs the line, the shell waits for it.
readline(p) ==
  /\ p = Main /\ At(p, "prompt") /\ Len(typed) < Len(session)
  /\ typed' = Append(typed, session[Len(typed) + 1])
  /\ Fork(p, [proc[p] EXCEPT !.pc = "wait", !.child = New],
             [Unborn EXCEPT !.pc = "parse", !.line = Len(typed) + 1])
  /\ UNCHANGED <<session, fs, jobs, ran, ended>>

wait(p) ==
  /\ At(p, "wait") /\ Over(proc[p].child)
  /\ Goto(p, "prompt")
  /\ UNCHANGED <<session, typed, fs, jobs, ran, ended>>

------------------------------------------------------------------------------
(* parsecmd *)

Tokens(p) == typed[proc[p].line]
Token(p, i) == IF i \in DOMAIN Tokens(p) THEN Tokens(p)[i] ELSE "end"

\* The words from at on, and the symbol (or end) after them.
Stop(p) == CHOOSE i \in proc[p].at .. Len(Tokens(p)) + 1 :
             /\ Token(p, i) \notin Words
             /\ \A j \in proc[p].at .. i - 1 : Token(p, j) \in Words
Symbol(p) == Token(p, Stop(p))
Argv(p) == proc[p].argv \o [i \in 1 .. Stop(p) - proc[p].at |-> proc[p].at + i - 1]

\* p with its words read: about to run them, and about to parse what follows.
Parsed(p) == [proc[p] EXCEPT !.argv = Argv(p), !.at = Stop(p) + 1]
Runs(p) == [Parsed(p) EXCEPT !.pc = "run"]
Goes(p) == [Parsed(p) EXCEPT !.pc = "parse", !.argv = <<>>]
Parses(p, symbol) == At(p, "parse") /\ Symbol(p) = symbol

parse_end(p) ==
  /\ Parses(p, "end")
  /\ Become(p, IF Argv(p) = <<>> THEN [proc[p] EXCEPT !.pc = "exit"] ELSE Runs(p))
  /\ UNCHANGED <<session, typed, fs, jobs, ran, ended>>

\* ">", which stands for "<" and ">>" too: the word after it is opened.  The two to
\* six requests to the file server are one here: nobody else sends to a process that
\* is parsing.  A missing word, or a file that cannot be opened, ends the process.
parse_redirect(p) ==
  /\ Parses(p, ">")
  /\ \/ /\ Token(p, Stop(p) + 1) \in Words /\ fs = {}
        /\ fs' = {p}
        /\ Become(p, [Parsed(p) EXCEPT !.pc = "open", !.at = Stop(p) + 2])
     \/ /\ Token(p, Stop(p) + 1) \notin Words
        /\ Goto(p, "exit") /\ UNCHANGED fs
  /\ UNCHANGED <<session, typed, jobs, ran, ended>>

opened(p) ==
  /\ At(p, "open_got")
  /\ Become(p, [proc[p] EXCEPT !.pc = "parse", !.file = "open", !.from = NoProc]) \/ Goto(p, "exit")
  /\ UNCHANGED <<session, typed, fs, jobs, ran, ended>>

\* "|": the child goes on with the right side, the parent runs the left.
parse_pipe(p) ==
  /\ Parses(p, "|")
  /\ Fork(p, [Runs(p) EXCEPT !.right = New], [Goes(p) EXCEPT !.right = NoProc])
  /\ UNCHANGED <<session, typed, fs, jobs, ran, ended>>

\* Mutant: "好像不wait也可以": the right side does not wait for the left.
parse_sequence_NoWait(p) ==
  /\ Parses(p, ";")
  /\ Fork(p, Goes(p), Runs(p))
  /\ UNCHANGED <<session, typed, fs, jobs, ran, ended>>

\* ";": the child runs the left side, the parent waits and goes on.
parse_sequence(p) ==
  /\ Parses(p, ";")
  /\ Fork(p, [Goes(p) EXCEPT !.pc = "wait_left", !.child = New], Runs(p))
  /\ UNCHANGED <<session, typed, fs, jobs, ran, ended>>

left_done(p) ==
  /\ At(p, "wait_left") /\ Over(proc[p].child)
  /\ Become(p, [proc[p] EXCEPT !.pc = "parse", !.child = NoProc])
  /\ UNCHANGED <<session, typed, fs, jobs, ran, ended>>

\* "&&", "||": the child runs the left side and sends its result; the parent keeps
\* its words while it waits.
parse_condition(p) ==
  /\ Parses(p, "&&") \/ Parses(p, "||")
  /\ Fork(p, [Parsed(p) EXCEPT !.pc = IF Symbol(p) = "&&" THEN "and" ELSE "or"],
             [Runs(p) EXCEPT !.cond = TRUE])
  /\ UNCHANGED <<session, typed, fs, jobs, ran, ended>>

Fresh(p, pc, at) == [proc[p] EXCEPT !.pc = pc, !.at = at, !.argv = <<>>, !.from = NoProc]

\* "&&": one token is skipped after a failure; unless it is "||" or there is none,
\* parsing goes on with the words of the left side still in argv.
and_result(p) ==
  LET q == proc[p] IN
  /\ At(p, "and_got")
  /\ \/ q.val = 0 /\ Become(p, Fresh(p, "parse", q.at))
     \/ q.val # 0 /\ Token(p, q.at) = "end" /\ Become(p, Fresh(p, "exit", q.at))
     \/ q.val # 0 /\ Token(p, q.at) = "||" /\ Become(p, Fresh(p, "parse", q.at + 1))
     \/ /\ q.val # 0 /\ Token(p, q.at) \notin {"end", "||"}
        /\ Become(p, [q EXCEPT !.pc = "parse", !.at = q.at + 1, !.from = NoProc])
  /\ UNCHANGED <<session, typed, fs, jobs, ran, ended>>

\* "||": after a success everything up to the next "&&" is skipped.
or_result(p) ==
  LET q == proc[p]
      ands == {i \in q.at .. Len(Tokens(p)) : Token(p, i) = "&&"}
  IN
  /\ At(p, "or_got")
  /\ \/ q.val # 0 /\ Become(p, Fresh(p, "parse", q.at))
     \/ q.val = 0 /\ ands = {} /\ Become(p, Fresh(p, "exit", q.at))
     \/ /\ q.val = 0 /\ ands # {}
        /\ Become(p, Fresh(p, "parse", 1 + CHOOSE i \in ands : \A j \in ands : i <= j))
  /\ UNCHANGED <<session, typed, fs, jobs, ran, ended>>

\* "&": the child runs the left side in the background.
parse_background(p) ==
  /\ Parses(p, "&")
  /\ Fork(p, Goes(p), [Runs(p) EXCEPT !.back = TRUE])
  /\ UNCHANGED <<session, typed, fs, jobs, ran, ended>>

------------------------------------------------------------------------------
(* IPC *)

\* Where a process is in ipc_recv: for the file server, or for a result.
Got == [open |-> "open_got", and |-> "and_got", or |-> "or_got", close |-> "close_got",
        recv |-> "recv_got", last_close |-> "last_got"]
Receiving == DOMAIN Got
\* q after it received v from p.
Receives(q, v, p) == [proc[q] EXCEPT !.pc = Got[@], !.val = v, !.from = p]
FileServer == -1

\* The file server answers whoever waits at the address of its client.
fs_reply(p) ==
  /\ p \in fs /\ proc[p].pc \in Receiving
  /\ fs' = {}
  /\ Become(p, Receives(p, 0, FileServer))
  /\ UNCHANGED <<session, typed, jobs, ran, ended>>

\* ipc_send to the parent, which must be receiving; p goes on at pc.  When the parent
\* has ended p never does: user_assert fails, and user_panic itself calls ipc_send.
Send(p, v, pc) ==
  LET q == proc[p].parent IN
  /\ proc[q].pc \in Receiving
  /\ proc' = [proc EXCEPT ![q] = Receives(q, v, p), ![p].pc = pc]

------------------------------------------------------------------------------
(* Programs: libmain *)

WordOf(p) == Tokens(p)[Head(proc[p].argv)]
Command(p) == <<proc[p].line, Head(proc[p].argv)>>
Status(word) == IF word = "false" THEN 1 ELSE 0

\* Mutant: the result is not what main returned.
main_returns_Zero(p) ==
  /\ At(p, "main") /\ WordOf(p) \in Returning
  /\ Become(p, [proc[p] EXCEPT !.pc = "send", !.val = 0])
  /\ ended' = ended \union {Command(p)}
  /\ UNCHANGED <<session, typed, fs, jobs, ran>>

main_returns(p) ==
  /\ At(p, "main") /\ WordOf(p) \in Returning
  /\ Become(p, [proc[p] EXCEPT !.pc = "send", !.val = Status(WordOf(p))])
  /\ ended' = ended \union {Command(p)}
  /\ UNCHANGED <<session, typed, fs, jobs, ran>>

\* exit called inside main: nothing is sent.
main_exits(p) ==
  /\ At(p, "main") /\ WordOf(p) = "quit"
  /\ Goto(p, "exit")
  /\ ended' = ended \union {Command(p)}
  /\ UNCHANGED <<session, typed, fs, jobs, ran>>

send_result(p) ==
  /\ At(p, "send") /\ Send(p, proc[p].val, "exit")
  /\ UNCHANGED <<session, typed, fs, jobs, ran, ended>>

Done(list, env) == [i \in DOMAIN list |-> IF list[i].env = env THEN [list[i] EXCEPT !.done = TRUE] ELSE list[i]]

\* Mutant: exit destroys the env as it did before there were jobs.
exit_Destroy(p) ==
  /\ At(p, "exit") /\ proc[p].file # "open" /\ Goto(p, "dead")
  /\ UNCHANGED <<session, typed, fs, jobs, ran, ended>>

\* exit, after its close_all: syscall_try_done_job_status also destroys the caller.
exit(p) ==
  /\ At(p, "exit") /\ proc[p].file # "open"
  /\ jobs' = Done(jobs, p)
  /\ Goto(p, "dead")
  /\ UNCHANGED <<session, typed, fs, ran, ended>>

------------------------------------------------------------------------------
(* runcmd *)

Failed(p) == [proc[p] EXCEPT !.pc = "spawned", !.child = NoProc]

run_program(p) ==
  /\ At(p, "run") /\ WordOf(p) \in Program
  /\ Fork(p, [proc[p] EXCEPT !.pc = "spawned", !.child = New],
             [Unborn EXCEPT !.pc = "main", !.line = proc[p].line, !.argv = proc[p].argv])
  /\ ran' = Append(ran, Command(p))
  /\ UNCHANGED <<session, typed, fs, jobs, ended>>

run_none(p) ==
  /\ At(p, "run") /\ WordOf(p) = "none"
  /\ Become(p, Failed(p))
  /\ UNCHANGED <<session, typed, fs, jobs, ran, ended>>

run_jobs(p) ==
  /\ At(p, "run") /\ WordOf(p) = "jobs"
  /\ Become(p, [Failed(p) EXCEPT !.pc = "close_all"])
  /\ UNCHANGED <<session, typed, fs, jobs, ran, ended>>

\* sys_kill_job destroys the env of the job.  When envid2env does not find it, because
\* spawn had failed or the program has ended and the job does not know, e is not
\* initialised and any env may be destroyed.  Then "kill" itself is looked for as a
\* program.
run_kill(p) ==
  /\ At(p, "run") /\ WordOf(p) = "kill"
  /\ IF jobs = <<>> \/ jobs[1].done
     THEN Become(p, Failed(p)) /\ UNCHANGED jobs
     ELSE /\ jobs' = [jobs EXCEPT ![1].done = TRUE]
          /\ \E v \in IF Over(jobs[1].env) THEN {q \in Pid : ~At(q, "unborn")} ELSE {jobs[1].env} :
               proc' = [[proc EXCEPT ![p] = Failed(p)] EXCEPT ![v].pc = "dead"]
  /\ UNCHANGED <<session, typed, fs, ran, ended>>

\* fg: wait for the env of the job, if it is not done; then as for "kill".
run_fg(p) ==
  /\ At(p, "run") /\ WordOf(p) = "fg"
  /\ jobs # <<>> => jobs[1].done \/ Over(jobs[1].env)
  /\ Become(p, Failed(p))
  /\ UNCHANGED <<session, typed, fs, jobs, ran, ended>>

\* sys_add_job, also when spawn failed.
add_job(p) ==
  /\ At(p, "spawned")
  /\ jobs' = IF proc[p].back THEN Append(jobs, [env |-> proc[p].child, done |-> FALSE]) ELSE jobs
  /\ Goto(p, "close_all")
  /\ UNCHANGED <<session, typed, fs, ran, ended>>

\* close_all: a file is closed by asking the file server.  runcmd calls it, and exit.
AfterClose(p) == IF proc[p].child = NoProc THEN "tail" ELSE "recv"

close_all(p) ==
  /\ At(p, "close_all") /\ proc[p].file # "open"
  /\ Goto(p, AfterClose(p))
  /\ UNCHANGED <<session, typed, fs, jobs, ran, ended>>

close_file(p) ==
  /\ proc[p].pc \in {"close_all", "exit"} /\ proc[p].file = "open" /\ fs = {}
  /\ fs' = {p}
  /\ Become(p, [proc[p] EXCEPT !.pc = IF @ = "exit" THEN "last_close" ELSE "close", !.file = "closed"])
  /\ UNCHANGED <<session, typed, jobs, ran, ended>>

closed(p) ==
  /\ \/ At(p, "close_got") /\ Goto(p, AfterClose(p))
     \/ At(p, "last_got") /\ Goto(p, "exit")
  /\ UNCHANGED <<session, typed, fs, jobs, ran, ended>>

\* Mutant: the result is kept.
forward_Keep(p) ==
  /\ At(p, "recv_got") /\ Goto(p, "tail")
  /\ UNCHANGED <<session, typed, fs, jobs, ran, ended>>

\* The result of the program goes to the parent if it waits for one.
forward(p) ==
  /\ At(p, "recv_got")
  /\ IF proc[p].cond THEN Send(p, proc[p].val, "tail") ELSE Goto(p, "tail")
  /\ UNCHANGED <<session, typed, fs, jobs, ran, ended>>

\* Mutant: the left end of a pipe does not wait for the right one.
wait_right_Skip(p) ==
  /\ At(p, "tail") /\ Goto(p, "exit")
  /\ UNCHANGED <<session, typed, fs, jobs, ran, ended>>

wait_right(p) ==
  /\ At(p, "tail") /\ Over(proc[p].right)
  /\ Goto(p, "exit")
  /\ UNCHANGED <<session, typed, fs, jobs, ran, ended>>

Parse(p) ==
  \/ parse_end(p) \/ parse_redirect(p) \/ opened(p) \/ parse_pipe(p) \/ parse_sequence(p)
  \/ left_done(p) \/ parse_condition(p) \/ and_result(p) \/ or_result(p) \/ parse_background(p)
Run(p) ==
  \/ run_program(p) \/ run_none(p) \/ run_jobs(p) \/ run_kill(p) \/ run_fg(p) \/ add_job(p)
  \/ close_all(p) \/ close_file(p) \/ closed(p) \/ forward(p) \/ wait_right(p) \/ exit(p)
Step(p) == Parse(p) \/ Run(p) \/ main_returns(p) \/ main_exits(p) \/ send_result(p) \/ wait(p)

Next ==
  \/ \E p \in Pid : Step(p) \/ fs_reply(p)
  \/ readline(Main)

\* The scheduler runs every process again and again, and ipc_send tries again until
\* it succeeds.  Nobody has to type.
Fairness == \A p \in Pid : WF_vars(Step(p)) /\ WF_vars(fs_reply(p))
Spec == Init /\ [][Next]_vars /\ Fairness

------------------------------------------------------------------------------
(* What a line means *)

\* The commands of a line: the positions of their first words.
Commands(line) == {i \in DOMAIN line : line[i] \in Words /\ (i = 1 \/ line[i - 1] \in Symbols \ {">"})}
Before(line, i) == {j \in Commands(line) : j < i}
Previous(line, i) == CHOOSE j \in Before(line, i) : \A k \in Before(line, i) : k <= j
Operator(line, i) == IF i = 1 THEN ";" ELSE line[i - 1]
InBack(line, i) == i + 1 \in DOMAIN line /\ line[i + 1] = "&"

\* Whether the command at i is to be run, and the status the line has after it.
Meaning(line) ==
  LET m[i \in Commands(line)] ==
        LET before == IF Before(line, i) = {} THEN [run |-> TRUE, status |-> 0] ELSE m[Previous(line, i)]
            run == CASE Operator(line, i) = "&&" -> before.status = 0
                     [] Operator(line, i) = "||" -> before.status # 0
                     [] Operator(line, i) = "|" -> before.run
                     [] OTHER -> TRUE
        IN [run |-> run, status |-> IF run THEN Status(line[i]) ELSE before.status]
  IN m

Times(n, i) == Len(SelectSeq(ran, LAMBDA c : c = <<n, i>>))
Finished(n) == n < Len(typed) \/ At(Main, "prompt")

------------------------------------------------------------------------------
(* Properties *)

\* Line n is run as ";", "&&", "||" and "|" say: each of its programs at most once, and
\* when the shell prompts again all that were to be run in the foreground have been
\* started (unless a file could not be opened).
LineRun(n) ==
  \A i \in {j \in Commands(typed[n]) : typed[n][j] \in Program} :
    LET said == Meaning(typed[n])[i].run IN
    /\ Times(n, i) <= IF said THEN 1 ELSE 0
    /\ Finished(n) /\ said /\ ~InBack(typed[n], i) /\ ">" \notin Range(typed[n]) => Times(n, i) = 1

\* In these lines nothing is to be skipped, except by "||" up to the next "&&" or the
\* end.  (After a failure, "&&" skips one token and runs its left side once more;
\* after a success, "||" also skips what follows a ";".)
Plain(line) ==
  \A i \in Commands(line) :
    \/ Meaning(line)[i].run
    \/ Operator(line, i) = "||" /\ \A j \in DOMAIN line : j > i => line[j] \notin {";", "&", "|"}

\* Plain lines are run as they say: the forks in parsecmd, each with its copy of the
\* parser, and what they make of the results.
PlainRunAsSaid == \A n \in DOMAIN typed : Plain(typed[n]) => LineRun(n)

\* A command after ";", "&&" or "||", or on the next line, starts only when the
\* foreground commands before it have returned from main: wait and the rendezvous of
\* the results along the tree of shells.
InOrder ==
  \A k \in DOMAIN ran :
    LET n == ran[k][1]
        i == ran[k][2]
        earlier == {ran[j] : j \in 1 .. k - 1}
    IN /\ \A c \in earlier : c[1] < n /\ ~InBack(typed[c[1]], c[2]) => c \in ended
       /\ i > 1 /\ Operator(typed[n], i) \in {";", "&&", "||"} =>
            \A c \in earlier : c = <<n, Previous(typed[n], i)>> => c \in ended

\* What a shell takes for the result of its program is the program's own result, and
\* what it takes for the result of its left side is the status of that command,
\* unless a file is being closed (the answer of the file server may be mistaken for
\* it): runcmd, libmain and ipc_recv.
ResultIsChilds ==
  \A p \in Pid : proc[p].from > NoProc /\ proc[p].file = "none" /\ proc[proc[p].from].file = "none" =>
    /\ proc[p].from # p /\ proc[proc[p].from].parent = p
    /\ At(p, "recv_got") => proc[p].val = Status(WordOf(proc[p].child))
    /\ At(p, "and_got") \/ At(p, "or_got") => proc[p].val = Status(WordOf(proc[p].from))

\* A job is marked done only when its process has ended, by itself or by "kill", and
\* always then if the program returns from main: sys_add_job comes in time although
\* the program is already running, because libmain waits until the shell receives the
\* result before it calls exit.  A program that calls exit inside main does not wait:
\* it may end before it is in the table, and then its job says "Running" for ever.
JobsExact ==
  \A i \in DOMAIN jobs : jobs[i].env # NoProc =>
    LET e == jobs[i].env IN
    /\ jobs[i].done => At(e, "dead")
    /\ At(e, "dead") /\ WordOf(e) \in Returning => jobs[i].done

\* Every command on the left of "&&" or "||" sends a result, no program leaves by
\* exit in the foreground, and "kill" finds the process of the job: every job returns
\* from main.
Answers(line) ==
  /\ \A i \in DOMAIN line :
       /\ line[i] = "quit" => InBack(line, i)
       /\ line[i] \in {"&&", "||"} => line[i - 1] \in Returning
  /\ "kill" \in Range(line) =>
       \A l \in Range(typed) : \A i \in DOMAIN l : InBack(l, i) => l[i] \in Returning

\* The shell prompts again after every line that Answers: no result is lost, and no
\* two processes wait for each other.
ReturnsToPrompt ==
  (At(Main, "wait") /\ Answers(Last(typed))) ~> At(Main, "prompt")
=============================================================================
