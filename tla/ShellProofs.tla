----------------------------- MODULE ShellProofs -----------------------------
(***************************************************************************)
(* Proofs about the shell (Shell): a result is taken from the process it   *)
(* was asked of, and the table of jobs is exact, for any lines and any     *)
(* number of processes.                                                    *)
(*                                                                         *)
(* The invariant says who may be in ipc_send to whom.  It is stated on     *)
(* parameters: P for proc, T for the lines typed, F for fs, J for jobs.    *)
(***************************************************************************)
EXTENDS Shell, WellFoundedInduction, TLAPS

Parsing == {"parse", "open", "open_got", "wait_left", "and", "and_got", "or", "or_got"}
Hosting == {"spawned", "close_all", "close", "close_got", "recv", "recv_got"}
Closing == {"close", "close_got", "last_close", "last_got"}
Ending  == {"tail", "exit", "last_close", "last_got", "dead"}
PC == Parsing \union Hosting \union Ending \union {"unborn", "prompt", "wait", "run", "main", "send"}

\* A record with the fields of a process.
Shaped(r) ==
  r = [pc |-> r.pc, parent |-> r.parent, line |-> r.line, at |-> r.at, argv |-> r.argv,
       cond |-> r.cond, back |-> r.back, file |-> r.file, child |-> r.child,
       right |-> r.right, val |-> r.val, from |-> r.from]

IsTable(P) == P = [p \in Pid |-> P[p]]
Shapes(P) ==
  /\ IsTable(P)
  /\ \A p \in Pid : Shaped(P[p]) /\ P[p].pc \in PC
  /\ P[Main].pc \in {"prompt", "wait", "dead"}
Lines(P, T) ==
  /\ T \in Seq(Seq(Words \union Symbols))
  /\ \A p \in Pid : p # Main /\ P[p].pc # "unborn" => P[p].line \in 1 .. Len(T)

\* A process that parses owes nobody a result and has none.
Parsers(P) ==
  \A p \in Pid :
    /\ P[p].pc \in Parsing => ~P[p].cond
    /\ P[p].pc \in {"parse", "wait_left"} => P[p].from = NoProc
    /\ P[p].pc \in Closing => P[p].file # "none"

\* The child of a shell that has run a program is this program.
Guests(P) ==
  \A p \in Pid : P[p].pc \in Hosting /\ P[p].child # NoProc =>
    /\ P[p].child \in Pid /\ P[p].child # Main
    /\ P[P[p].child].pc \in {"main", "send", "exit", "dead"}
    /\ P[P[p].child].parent = p /\ P[P[p].child].file = "none"
    /\ P[P[p].child].line = P[p].line /\ P[P[p].child].argv = P[p].argv

\* While the program has not sent its result, its parent has not gone on without it,
\* unless an answer of the file server misled it.
Hosts(P) ==
  \A q \in Pid : P[q].pc \in {"main", "send"} =>
    /\ P[q].file = "none"
    /\ P[q].parent \in Pid /\ P[P[q].parent].child = q
    /\ P[P[q].parent].pc \in Hosting \union Ending
    /\ P[P[q].parent].file = "none" => P[P[q].parent].pc \in {"spawned", "close_all", "recv", "dead"}

\* A shell that will send the result of its program to its parent.
Asked(r) == r.cond /\ r.pc \in Hosting \union {"run"}
Askers(P) ==
  /\ \A c \in Pid : Asked(P[c]) =>
       P[c].parent \in Pid /\ P[P[c].parent].pc \in {"and", "or", "dead"}
  /\ \A b, c \in Pid : Asked(P[b]) /\ Asked(P[c]) /\ P[b].parent = P[c].parent => b = c

\* Who has no file of its own open waits for the file server only to get one.
Clients(P, F) ==
  /\ F \subseteq Pid
  /\ \A p \in F : /\ P[p].pc = "open" \/ P[p].pc \in Hosting \union Ending
                  /\ P[p].file = "none" => P[p].pc \in {"open", "dead"}

Word(T, r) == T[r.line][Head(r.argv)]
Results(P, T) ==
  \A p \in Pid :
    /\ P[p].pc = "send" => P[p].val = Status(Word(T, P[p]))
    /\ P[p].pc = "recv_got" /\ P[p].file = "none" =>
         /\ P[p].from = P[p].child /\ P[p].child # NoProc
         /\ P[p].val = Status(Word(T, P[p]))
    /\ P[p].from \in Int
    /\ P[p].from > NoProc =>
         /\ P[p].from \in Pid /\ P[p].from # Main /\ P[P[p].from].pc \in Ending
         /\ P[p].file = "none" /\ P[P[p].from].file = "none" =>
              /\ P[p].from # p /\ P[P[p].from].parent = p
              /\ P[p].pc \in {"and_got", "or_got"} => P[p].val = Status(Word(T, P[P[p].from]))

Good(P, T, F) ==
  /\ Shapes(P) /\ Lines(P, T) /\ Parsers(P) /\ Guests(P) /\ Hosts(P) /\ Askers(P)
  /\ Clients(P, F) /\ Results(P, T)

\* Of the table of jobs this much is always true: no job is of an env id never used.
JobType == [env : Pid \union {NoProc}, done : BOOLEAN]
Known(P, J) ==
  /\ J \in Seq(JobType)
  /\ \A i \in DOMAIN J : J[i].env # NoProc => P[J[i].env].pc # "unborn"
Inv ==
  /\ Good(proc, typed, fs) /\ Known(proc, jobs)
  /\ session \in Seq(Seq(Words \union Symbols))

\* "kill" is not typed for a job whose process envid2env does not find.
JobsFound ==
  jobs # <<>> /\ ~jobs[1].done /\ Over(jobs[1].env) => \A p \in Pid : At(p, "run") => WordOf(p) # "kill"

\* A program that calls exit inside main.
Leaves(T, r) == Word(T, r) \notin Returning

\* The process r of a job that is done or not.
Entered(T, r, done) ==
  /\ r.pc \in {"main", "send", "exit", "dead"} /\ r.file = "none"
  /\ done => r.pc = "dead"
  /\ r.pc = "dead" => done \/ Leaves(T, r)

\* The program of a shell that has still to add its job.
Awaits(T, r) == r.pc \in {"main", "send"} \/ Leaves(T, r)

\* The table: a job is the program of a shell that ran in the background, once; before a
\* shell has added its job, the program has not ended unless it leaves inside main.
Table(P, T, J) ==
  /\ J \in Seq(JobType)
  /\ \A i \in DOMAIN J : J[i].env # NoProc => J[i].env # Main /\ Entered(T, P[J[i].env], J[i].done)
  /\ \A i, j \in DOMAIN J : J[i].env # NoProc /\ J[i].env = J[j].env => i = j
  /\ \A p \in Pid : P[p].pc = "spawned" /\ P[p].back /\ P[p].child # NoProc =>
       /\ P[p].child \in Pid /\ Awaits(T, P[P[p].child])
       /\ \A i \in DOMAIN J : J[i].env # P[p].child
JobsInv == Table(proc, typed, jobs)

------------------------------------------------------------------------------
(* The table of processes *)

\* The shell itself is a process, and NoProc is none.
LEMMA Pids == Main \in Pid /\ NoProc \notin Pid /\ (\A p \in Pid : p \in Int /\ p > NoProc)
  BY MaxProcAssumption DEF Pid, Main, NoProc

\* One process changed.
Put(P, p, r) == [P EXCEPT ![p] = r]
LEMMA OneChanged ==
  ASSUME NEW P, Shapes(P), NEW p \in Pid, NEW r, NEW N, N = Put(P, p, r)
  PROVE  N[p] = r /\ (\A q \in Pid : q # p => N[q] = P[q]) /\ IsTable(N)
  BY DEF Shapes, IsTable, Put

\* A process that has been started is not unborn again.
LEMMA KnownPut ==
  ASSUME NEW P, Shapes(P), NEW J, Known(P, J), NEW p \in Pid, NEW r, r.pc # "unborn",
         NEW N, N = Put(P, p, r)
  PROVE  Known(N, J)
<1>1. N[p] = r /\ \A q \in Pid : q # p => N[q] = P[q]
  BY OneChanged
<1>2. ASSUME NEW i \in DOMAIN J, J[i].env # NoProc
      PROVE  N[J[i].env].pc # "unborn"
  <2>1. J[i] \in JobType
    BY DEF Known
  <2>2. PICK e \in Pid : e = J[i].env
    BY <1>2, <2>1 DEF JobType
  <2> QED
    BY <1>1, <1>2, <2>2 DEF Known
<1> QED
  BY <1>2 DEF Known

\* What a process may do to itself, x before and r after, and what kill does to it: it
\* receives nothing, and keeps what others know of it.
Moves(x, r, T) ==
  /\ Shaped(r) /\ r.pc \in PC \ {"unborn", "and_got", "or_got", "recv_got"}
  /\ x.pc # "unborn"
  /\ x.pc \in {"open", "and", "or", "close", "recv", "last_close", "dead"} => r.pc = "dead"
  /\ r.parent = x.parent /\ r.line = x.line
  /\ r.pc \in Parsing => ~r.cond
  /\ r.pc \in {"parse", "wait_left"} => r.from = NoProc
  /\ r.pc \in Closing => r.file # "none"
  /\ r.file = "none" => x.file = "none"
  /\ r.from = x.from \/ r.from = NoProc
  /\ Asked(r) => Asked(x)
  /\ r.pc \in Hosting /\ r.child # NoProc => x.pc \in Hosting /\ r.child = x.child /\ r.argv = x.argv
  /\ x.pc \in {"main", "send", "exit", "dead"} /\ x.file = "none" =>
       r.argv = x.argv /\ r.pc \in {"main", "send", "exit", "dead"} /\ r.file = "none"
  /\ x.pc \in Ending => r.pc \in Ending /\ r.argv = x.argv
  /\ x.pc \in Hosting => r.pc \in Hosting \union Ending
  /\ x.pc \in Hosting \union Ending /\ x.child # NoProc =>
       /\ r.child = x.child
       /\ r.file = "none" /\ x.pc \in {"spawned", "close_all", "recv", "dead"} =>
            r.pc \in {"spawned", "close_all", "recv", "dead"}
  /\ r.pc \in {"main", "send"} => x.pc \in {"main", "send"}
  /\ r.pc = "send" => r.val = Status(Word(T, x))

\* Such a step, and the request it may send to the file server, keeps the invariant.
LEMMA OwnGood ==
  ASSUME NEW P, NEW T, NEW F, Good(P, T, F), NEW p \in Pid, NEW r, Moves(P[p], r, T),
         p = Main => r.pc \in {"prompt", "wait", "dead"}, NEW N, N = Put(P, p, r),
         NEW G, G = F \/ (G = {p} /\ (r.pc = "open" \/ (r.pc \in Hosting \union Ending /\ r.file # "none")))
  PROVE  Good(N, T, G)
<1>0. /\ Shapes(P) /\ Lines(P, T) /\ Parsers(P) /\ Guests(P) /\ Hosts(P) /\ Askers(P)
      /\ Clients(P, F) /\ Results(P, T)
  BY DEF Good
<1>1. N[p] = r /\ (\A q \in Pid : q # p => N[q] = P[q]) /\ IsTable(N)
  BY <1>0, OneChanged
<1>2. Shapes(N)
  BY <1>0, <1>1, Pids DEF Shapes, Moves
<1>3. Lines(N, T)
  BY <1>0, <1>1 DEF Lines, Moves
<1>4. Parsers(N)
  BY <1>0, <1>1 DEF Parsers, Moves
<1>5. Guests(N)
  <2> SUFFICES ASSUME NEW a \in Pid, N[a].pc \in Hosting, N[a].child # NoProc
               PROVE  /\ N[a].child \in Pid /\ N[a].child # Main
                      /\ N[N[a].child].pc \in {"main", "send", "exit", "dead"}
                      /\ N[N[a].child].parent = a /\ N[N[a].child].file = "none"
                      /\ N[N[a].child].line = N[a].line /\ N[N[a].child].argv = N[a].argv
    BY DEF Guests
  <2>1. P[a].pc \in Hosting /\ P[a].child # NoProc /\ N[a].child = P[a].child
        /\ N[a].line = P[a].line /\ N[a].argv = P[a].argv
    BY <1>1 DEF Moves
  <2>2. PICK c \in Pid : /\ c = P[a].child /\ c # Main /\ P[c].pc \in {"main", "send", "exit", "dead"}
                         /\ P[c].parent = a /\ P[c].file = "none"
                         /\ P[c].line = P[a].line /\ P[c].argv = P[a].argv
    BY <2>1, <1>0 DEF Guests
  <2>3. /\ N[c].pc \in {"main", "send", "exit", "dead"} /\ N[c].parent = a /\ N[c].file = "none"
        /\ N[c].line = P[c].line /\ N[c].argv = P[c].argv
    BY <2>2, <1>1 DEF Moves
  <2> QED
    BY <2>1, <2>2, <2>3
<1>6. Hosts(N)
  <2> SUFFICES ASSUME NEW q \in Pid, N[q].pc \in {"main", "send"}
               PROVE  /\ N[q].file = "none"
                      /\ N[q].parent \in Pid /\ N[N[q].parent].child = q
                      /\ N[N[q].parent].pc \in Hosting \union Ending
                      /\ N[N[q].parent].file = "none" =>
                           N[N[q].parent].pc \in {"spawned", "close_all", "recv", "dead"}
    BY DEF Hosts
  <2>1. P[q].pc \in {"main", "send"} /\ N[q].parent = P[q].parent
    BY <1>1 DEF Moves
  <2>2. PICK a \in Pid : /\ a = P[q].parent /\ P[a].child = q /\ P[a].pc \in Hosting \union Ending
                         /\ P[a].file = "none" => P[a].pc \in {"spawned", "close_all", "recv", "dead"}
                         /\ P[q].file = "none"
    BY <2>1, <1>0 DEF Hosts
  <2>3. N[q].file = "none"
    BY <2>1, <2>2, <1>1 DEF Moves
  <2>4. /\ N[a].child = q /\ N[a].pc \in Hosting \union Ending
        /\ N[a].file = "none" => N[a].pc \in {"spawned", "close_all", "recv", "dead"}
    BY <2>2, <1>1, Pids DEF Moves
  <2> QED
    BY <2>1, <2>2, <2>3, <2>4
<1>7. Askers(N)
  <2>1. \A c \in Pid : Asked(N[c]) => Asked(P[c]) /\ N[c].parent = P[c].parent
    BY <1>1 DEF Moves
  <2>2. \A c \in Pid : P[c].pc \in {"and", "or", "dead"} => N[c].pc \in {"and", "or", "dead"}
    BY <1>1 DEF Moves
  <2> QED
    BY <2>1, <2>2, <1>0 DEF Askers
<1>8. Clients(N, G)
  <2>1. p \in F => /\ r.pc = "open" \/ r.pc \in Hosting \union Ending
                   /\ r.file = "none" => r.pc \in {"open", "dead"}
    <3>1. CASE P[p].pc = "open"
      BY <3>1 DEF Moves, Ending
    <3>2. CASE P[p].pc \in Hosting \union Ending
      BY <3>2, <1>0 DEF Moves, Clients
    <3> QED
      BY <3>1, <3>2, <1>0 DEF Clients
  <2>2. CASE G = F
    <3>1. \A q \in F : q \in Pid /\ (q = p \/ N[q] = P[q])
      BY <1>0, <1>1 DEF Clients
    <3>2. ASSUME NEW q \in F
          PROVE  /\ N[q].pc = "open" \/ N[q].pc \in Hosting \union Ending
                 /\ N[q].file = "none" => N[q].pc \in {"open", "dead"}
      <4>1. CASE q = p
        BY <4>1, <2>1, <1>1
      <4>2. CASE N[q] = P[q]
        BY <4>2, <1>0 DEF Clients
      <4> QED
        BY <4>1, <4>2, <3>1
    <3> QED
      BY <3>1, <3>2, <2>2 DEF Clients
  <2>3. CASE G = {p} /\ (r.pc = "open" \/ (r.pc \in Hosting \union Ending /\ r.file # "none"))
    BY <2>3, <1>1 DEF Clients
  <2> QED
    BY <2>2, <2>3
<1>9. Results(N, T)
  <2>1. \A a \in Pid : N[a].pc = "send" => N[a].val = Status(Word(T, N[a]))
    <3>1. ASSUME r.pc = "send" PROVE r.val = Status(Word(T, r))
      <4>1. P[p].pc \in {"main", "send"} /\ P[p].file = "none" /\ r.val = Status(Word(T, P[p]))
        BY <3>1, <1>0 DEF Moves, Hosts
      <4>2. r.argv = P[p].argv /\ r.line = P[p].line
        BY <4>1 DEF Moves
      <4> QED
        BY <4>1, <4>2 DEF Word
    <3> QED
      BY <3>1, <1>0, <1>1 DEF Results
  <2>2. \A a \in Pid : N[a].pc = "recv_got" /\ N[a].file = "none" =>
             /\ N[a].from = N[a].child /\ N[a].child # NoProc /\ N[a].val = Status(Word(T, N[a]))
    BY <1>0, <1>1 DEF Moves, Results
  <2>3. \A a \in Pid : N[a].from \in Int
    BY <1>0, <1>1, Pids DEF Moves, Results, NoProc
  <2>4. ASSUME NEW a \in Pid, N[a].from > NoProc
        PROVE  /\ N[a].from \in Pid /\ N[a].from # Main /\ N[N[a].from].pc \in Ending
               /\ N[a].file = "none" /\ N[N[a].from].file = "none" =>
                    /\ N[a].from # a /\ N[N[a].from].parent = a
                    /\ N[a].pc \in {"and_got", "or_got"} => N[a].val = Status(Word(T, N[N[a].from]))
    <3>1. N[a].from = P[a].from /\ (N[a].file = "none" => P[a].file = "none")
      BY <2>4, <1>1 DEF Moves, NoProc
    <3>2. PICK b \in Pid : /\ b = P[a].from /\ b # Main /\ P[b].pc \in Ending
                           /\ P[a].file = "none" /\ P[b].file = "none" =>
                                /\ b # a /\ P[b].parent = a
                                /\ P[a].pc \in {"and_got", "or_got"} => P[a].val = Status(Word(T, P[b]))
      BY <3>1, <2>4, <1>0 DEF Results
    <3>3. /\ N[b].pc \in Ending /\ N[b].parent = P[b].parent /\ (N[b].file = "none" => P[b].file = "none")
          /\ N[b].line = P[b].line /\ N[b].argv = P[b].argv
      <4>1. CASE b = p
        BY <4>1, <3>2, <1>1 DEF Moves
      <4>2. CASE b # p
        BY <4>2, <3>2, <1>1
      <4> QED
        BY <4>1, <4>2
    <3>4. ASSUME N[a].pc \in {"and_got", "or_got"}, N[a].file = "none", N[b].file = "none"
          PROVE  N[a].val = Status(Word(T, N[b]))
      <4>1. N[a] = P[a]
        BY <3>4, <1>1 DEF Moves
      <4> QED
        BY <4>1, <3>2, <3>3, <3>4 DEF Word
    <3> QED
      BY <3>1, <3>2, <3>3, <3>4
  <2> QED
    BY <2>1, <2>2, <2>3, <2>4 DEF Results
<1> QED
  BY <1>2, <1>3, <1>4, <1>5, <1>6, <1>7, <1>8, <1>9 DEF Good

\* q receives v from f: the file server, or the process f.
Takes(x, r, v, f) ==
  /\ Shaped(r) /\ r.pc \in PC /\ x.pc \in Receiving /\ r.pc = Got[x.pc] /\ r.val = v /\ r.from = f
  /\ r.parent = x.parent /\ r.line = x.line /\ r.argv = x.argv /\ r.cond = x.cond
  /\ r.file = x.file /\ r.child = x.child
LEMMA GotIs ==
  ASSUME NEW c
  PROVE  /\ Receiving = {"open", "and", "or", "close", "recv", "last_close"}
         /\ c = "open" => Got[c] = "open_got"
         /\ c = "and" => Got[c] = "and_got"
         /\ c = "or" => Got[c] = "or_got"
         /\ c = "close" => Got[c] = "close_got"
         /\ c = "recv" => Got[c] = "recv_got"
         /\ c = "last_close" => Got[c] = "last_got"
  BY DEF Receiving, Got

\* Where it is then, of those that the invariant tells apart.
LEMMA TakesWhere ==
  ASSUME NEW x, NEW r, NEW v, NEW f, Takes(x, r, v, f)
  PROVE  /\ x.pc \in Parsing <=> r.pc \in Parsing
         /\ x.pc \in Hosting <=> r.pc \in Hosting
         /\ x.pc \in Ending <=> r.pc \in Ending
         /\ x.pc \in Closing <=> r.pc \in Closing
         /\ r.pc \in {"open_got", "and_got", "or_got", "close_got", "recv_got", "last_got"}
         /\ r.pc = "recv_got" <=> x.pc = "recv"
         /\ r.pc \in {"and_got", "or_got"} <=> x.pc \in {"and", "or"}
<1>1. x.pc \in {"open", "and", "or", "close", "recv", "last_close"} /\ r.pc = Got[x.pc]
  BY GotIs DEF Takes
<1> QED
  BY <1>1, GotIs DEF Parsing, Hosting, Ending, Closing

\* A process that receives keeps its place in the tree; what is left to show is what the
\* result is, and that nobody else still waits to send it one.
LEMMA TakesGood ==
  ASSUME NEW P, NEW T, NEW F, Good(P, T, F), NEW p \in Pid, NEW r, NEW v, NEW f,
         Takes(P[p], r, v, f), NEW N, N = Put(P, p, r)
  PROVE  /\ Shapes(N) /\ Lines(N, T) /\ Parsers(N) /\ Guests(N)
         /\ N[p] = r /\ \A q \in Pid : q # p => N[q] = P[q]
<1>0. /\ Shapes(P) /\ Lines(P, T) /\ Parsers(P) /\ Guests(P) /\ Hosts(P) /\ Askers(P)
      /\ Clients(P, F) /\ Results(P, T)
  BY DEF Good
<1>1. N[p] = r /\ (\A q \in Pid : q # p => N[q] = P[q]) /\ IsTable(N)
  BY <1>0, OneChanged
<1>m. P[p].pc \in {"open", "and", "or", "close", "recv", "last_close"}
  BY GotIs DEF Takes
<1>p. p # Main
  BY <1>0, <1>m DEF Shapes
<1>2. Shapes(N)
  BY <1>0, <1>1, <1>p, Pids DEF Shapes, Takes
<1>3. Lines(N, T)
  BY <1>0, <1>1, <1>m, <1>p DEF Lines, Takes
<1>4. Parsers(N)
  <2>1. /\ r.pc \in Parsing => ~r.cond
        /\ r.pc \notin {"parse", "wait_left"}
        /\ r.pc \in Closing => r.file # "none"
    BY <1>0, TakesWhere DEF Parsers, Takes
  <2> QED
    BY <2>1, <1>0, <1>1 DEF Parsers
<1>5. Guests(N)
  <2> SUFFICES ASSUME NEW a \in Pid, N[a].pc \in Hosting, N[a].child # NoProc
               PROVE  /\ N[a].child \in Pid /\ N[a].child # Main
                      /\ N[N[a].child].pc \in {"main", "send", "exit", "dead"}
                      /\ N[N[a].child].parent = a /\ N[N[a].child].file = "none"
                      /\ N[N[a].child].line = N[a].line /\ N[N[a].child].argv = N[a].argv
    BY DEF Guests
  <2>1. P[a].pc \in Hosting /\ N[a].child = P[a].child /\ N[a].line = P[a].line /\ N[a].argv = P[a].argv
    BY <1>1, TakesWhere DEF Takes
  <2>2. PICK c \in Pid : /\ c = P[a].child /\ c # Main /\ P[c].pc \in {"main", "send", "exit", "dead"}
                         /\ P[c].parent = a /\ P[c].file = "none"
                         /\ P[c].line = P[a].line /\ P[c].argv = P[a].argv
    BY <2>1, <1>0 DEF Guests
  <2>3. N[c] = P[c]
    BY <2>2, <1>1, <1>m
  <2> QED
    BY <2>1, <2>2, <2>3
<1> QED
  BY <1>1, <1>2, <1>3, <1>4, <1>5

\* fs_reply.
LEMMA AnswerGood ==
  ASSUME NEW P, NEW T, NEW F, Good(P, T, F), NEW p \in F, NEW r, Takes(P[p], r, 0, FileServer),
         NEW N, N = Put(P, p, r)
  PROVE  Good(N, T, {})
<1>0. /\ Shapes(P) /\ Lines(P, T) /\ Parsers(P) /\ Guests(P) /\ Hosts(P) /\ Askers(P)
      /\ Clients(P, F) /\ Results(P, T)
  BY DEF Good
<1>1. p \in Pid
  BY <1>0 DEF Clients
<1>2. Clients(N, {})
  BY DEF Clients
<1>3. /\ Shapes(N) /\ Lines(N, T) /\ Parsers(N) /\ Guests(N)
      /\ N[p] = r /\ \A q \in Pid : q # p => N[q] = P[q]
  <2>1. PICK v, f : Takes(P[p], r, v, f)
    OBVIOUS
  <2> QED
    BY <1>1, <2>1, TakesGood
<1>m. /\ P[p].pc \in {"open", "and", "or", "close", "recv", "last_close"}
      /\ P[p].file = "none" => P[p].pc = "open"
  BY <1>0, GotIs DEF Takes, Clients
<1>4. Hosts(N)
  <2> SUFFICES ASSUME NEW q \in Pid, N[q].pc \in {"main", "send"}
               PROVE  /\ N[q].file = "none"
                      /\ N[q].parent \in Pid /\ N[N[q].parent].child = q
                      /\ N[N[q].parent].pc \in Hosting \union Ending
                      /\ N[N[q].parent].file = "none" =>
                           N[N[q].parent].pc \in {"spawned", "close_all", "recv", "dead"}
    BY DEF Hosts
  <2>1. q # p /\ N[q] = P[q]
    BY <1>3, TakesWhere
  <2>2. PICK a \in Pid : /\ a = P[q].parent /\ P[a].child = q /\ P[a].pc \in Hosting \union Ending
                         /\ P[a].file = "none" => P[a].pc \in {"spawned", "close_all", "recv", "dead"}
                         /\ P[q].file = "none"
    BY <2>1, <1>0 DEF Hosts
  <2>3. /\ N[a].child = q /\ N[a].pc \in Hosting \union Ending
        /\ N[a].file = "none" => N[a].pc \in {"spawned", "close_all", "recv", "dead"}
    <3>1. CASE a = p
      BY <3>1, <2>2, <1>3, <1>m, TakesWhere DEF Takes
    <3>2. CASE a # p
      BY <3>2, <2>2, <1>3
    <3> QED
      BY <3>1, <3>2
  <2> QED
    BY <2>1, <2>2, <2>3
<1>5. Askers(N)
  <2>1. \A c \in Pid : Asked(N[c]) => Asked(P[c]) /\ N[c].parent = P[c].parent
    BY <1>3, TakesWhere DEF Takes, Asked
  <2>2. \A c \in Pid : P[c].pc \in {"and", "or", "dead"} => N[c] = P[c]
    BY <1>0, <1>3, <1>m DEF Clients, Hosting, Ending
  <2> QED
    BY <2>1, <2>2, <1>0 DEF Askers
<1>6. Results(N, T)
  <2>1. \A a \in Pid : N[a].pc = "send" => N[a].val = Status(Word(T, N[a]))
    BY <1>0, <1>3, TakesWhere DEF Results
  <2>2. \A a \in Pid : N[a].pc = "recv_got" /\ N[a].file = "none" =>
             /\ N[a].from = N[a].child /\ N[a].child # NoProc /\ N[a].val = Status(Word(T, N[a]))
    BY <1>0, <1>3, <1>m, TakesWhere DEF Results, Takes
  <2>3. r.from \in Int /\ ~(r.from > NoProc)
    BY DEF Takes, FileServer, NoProc
  <2>4. ASSUME NEW a \in Pid, N[a].from > NoProc
        PROVE  /\ N[a].from \in Pid /\ N[a].from # Main /\ N[N[a].from].pc \in Ending
               /\ N[a].file = "none" /\ N[N[a].from].file = "none" =>
                    /\ N[a].from # a /\ N[N[a].from].parent = a
                    /\ N[a].pc \in {"and_got", "or_got"} => N[a].val = Status(Word(T, N[N[a].from]))
    <3>1. a # p /\ N[a] = P[a]
      BY <2>3, <2>4, <1>3
    <3>2. PICK b \in Pid : /\ b = P[a].from /\ b # Main /\ P[b].pc \in Ending
                           /\ P[a].file = "none" /\ P[b].file = "none" =>
                                /\ b # a /\ P[b].parent = a
                                /\ P[a].pc \in {"and_got", "or_got"} => P[a].val = Status(Word(T, P[b]))
      BY <3>1, <2>4, <1>0 DEF Results
    <3>3. /\ N[b].pc \in Ending /\ N[b].parent = P[b].parent /\ N[b].file = P[b].file
          /\ N[b].line = P[b].line /\ N[b].argv = P[b].argv
      BY <3>2, <1>3, TakesWhere DEF Takes
    <3>4. Word(T, N[b]) = Word(T, P[b])
      BY <3>3 DEF Word
    <3> QED
      BY <3>1, <3>2, <3>3, <3>4
  <2>5. \A a \in Pid : N[a].from \in Int
    BY <2>3, <1>0, <1>3 DEF Results
  <2> QED
    BY <2>1, <2>2, <2>4, <2>5 DEF Results
<1> QED
  BY <1>2, <1>3, <1>4, <1>5, <1>6 DEF Good

\* p, which has just sent its result, has it taken by q: as the program q runs, or as the
\* left side q asked.
ByProgram(P, T, p, q) ==
  /\ P[q].pc \in Hosting \union Ending /\ P[q].child = p
  /\ \A s \in Pid : P[s].pc \in {"main", "send"} => P[s].parent # q
  /\ P[p].val = Status(Word(T, P[p]))
ByLeft(P, T, p, q) ==
  /\ P[q].pc \in {"and", "or"}
  /\ \A s \in Pid : Asked(P[s]) => P[s].parent # q
  /\ P[p].file = "none" => P[p].val = Status(Word(T, P[p]))
LEMMA SentGood ==
  ASSUME NEW P, NEW T, NEW F, Good(P, T, F), NEW p \in Pid, NEW q \in Pid, p # q, p # Main,
         P[p].pc \in Ending, P[p].parent = q, ByProgram(P, T, p, q) \/ ByLeft(P, T, p, q),
         NEW v, v = P[p].val, NEW r, Takes(P[q], r, v, p), NEW N, N = Put(P, q, r)
  PROVE  Good(N, T, F)
<1>0. /\ Shapes(P) /\ Lines(P, T) /\ Parsers(P) /\ Guests(P) /\ Hosts(P) /\ Askers(P)
      /\ Clients(P, F) /\ Results(P, T)
  BY DEF Good
<1>3. /\ Shapes(N) /\ Lines(N, T) /\ Parsers(N) /\ Guests(N)
      /\ N[q] = r /\ \A s \in Pid : s # q => N[s] = P[s]
  <2>1. PICK g : Takes(P[q], r, v, g)
    OBVIOUS
  <2> QED
    BY <2>1, TakesGood
<1>m. P[q].pc \in {"open", "and", "or", "close", "recv", "last_close"}
  BY GotIs DEF Takes
<1>4. Hosts(N)
  <2> SUFFICES ASSUME NEW s \in Pid, N[s].pc \in {"main", "send"}
               PROVE  /\ N[s].file = "none"
                      /\ N[s].parent \in Pid /\ N[N[s].parent].child = s
                      /\ N[N[s].parent].pc \in Hosting \union Ending
                      /\ N[N[s].parent].file = "none" =>
                           N[N[s].parent].pc \in {"spawned", "close_all", "recv", "dead"}
    BY DEF Hosts
  <2>1. s # q /\ N[s] = P[s]
    BY <1>3, TakesWhere
  <2>2. PICK a \in Pid : /\ a = P[s].parent /\ P[a].child = s /\ P[a].pc \in Hosting \union Ending
                         /\ P[a].file = "none" => P[a].pc \in {"spawned", "close_all", "recv", "dead"}
                         /\ P[s].file = "none"
    BY <2>1, <1>0 DEF Hosts
  <2>3. a # q
    BY <2>1, <2>2 DEF ByProgram, ByLeft, Hosting, Ending
  <2> QED
    BY <2>1, <2>2, <2>3, <1>3
<1>5. Askers(N)
  <2>1. \A c \in Pid : Asked(N[c]) => Asked(P[c]) /\ N[c].parent = P[c].parent
    BY <1>3, TakesWhere DEF Takes, Asked
  <2>2. \A c \in Pid : Asked(P[c]) => P[c].parent # q
    BY <1>0, <1>m DEF ByProgram, ByLeft, Askers, Hosting, Ending
  <2>3. \A c \in Pid : c # q => N[c] = P[c]
    BY <1>3
  <2> QED
    BY <2>1, <2>2, <2>3, <1>0 DEF Askers
<1>6. Clients(N, F)
  <2>1. ASSUME q \in F
        PROVE  r.pc \in Hosting \union Ending /\ r.file # "none"
    <3>1. P[q].pc \in Hosting \union Ending
      BY <2>1, <1>0 DEF Clients, ByProgram, ByLeft, Hosting, Ending
    <3>2. P[q].file # "none"
      BY <3>1, <2>1, <1>0, <1>m DEF Clients, Hosting, Ending
    <3> QED
      BY <3>1, <3>2, TakesWhere DEF Takes
  <2>2. ASSUME NEW s \in F
        PROVE  /\ s \in Pid /\ (N[s].pc = "open" \/ N[s].pc \in Hosting \union Ending)
               /\ N[s].file = "none" => N[s].pc \in {"open", "dead"}
    <3>1. CASE s = q
      BY <3>1, <2>1, <1>3
    <3>2. CASE s # q
      BY <3>2, <1>0, <1>3 DEF Clients
    <3> QED
      BY <3>1, <3>2
  <2> QED
    BY <2>2 DEF Clients
<1>7. Results(N, T)
  <2>1. \A a \in Pid : N[a].pc = "send" => N[a].val = Status(Word(T, N[a]))
    BY <1>0, <1>3, TakesWhere DEF Results
  <2>2. ASSUME r.pc = "recv_got", r.file = "none"
        PROVE  r.from = r.child /\ r.child # NoProc /\ r.val = Status(Word(T, r))
    <3>1. P[q].pc = "recv" /\ ByProgram(P, T, p, q) /\ P[q].child = p
      BY <2>2, TakesWhere DEF ByProgram, ByLeft
    <3>2. r.from = p /\ r.child = p /\ p # NoProc /\ r.val = v /\ v = Status(Word(T, P[p]))
      BY <3>1, Pids DEF Takes, ByProgram
    <3>3. P[p].line = P[q].line /\ P[p].argv = P[q].argv
      BY <3>1, <3>2, <1>0 DEF Guests, Hosting
    <3>4. Word(T, r) = Word(T, P[p])
      BY <3>3 DEF Takes, Word
    <3> QED
      BY <3>2, <3>4
  <2>3. \A a \in Pid : N[a].pc = "recv_got" /\ N[a].file = "none" =>
             /\ N[a].from = N[a].child /\ N[a].child # NoProc /\ N[a].val = Status(Word(T, N[a]))
    BY <2>2, <1>0, <1>3 DEF Results
  <2>4. r.from = p /\ r.from \in Int
    BY Pids DEF Takes
  <2>5. \A a \in Pid : N[a].from \in Int
    BY <2>4, <1>0, <1>3 DEF Results
  <2>6. ASSUME NEW a \in Pid, N[a].from > NoProc
        PROVE  /\ N[a].from \in Pid /\ N[a].from # Main /\ N[N[a].from].pc \in Ending
               /\ N[a].file = "none" /\ N[N[a].from].file = "none" =>
                    /\ N[a].from # a /\ N[N[a].from].parent = a
                    /\ N[a].pc \in {"and_got", "or_got"} => N[a].val = Status(Word(T, N[N[a].from]))
    <3>1. CASE a = q
      <4>1. N[a].from = p /\ N[p] = P[p] /\ N[a] = r
        BY <3>1, <2>4, <1>3
      <4>2. ASSUME r.pc \in {"and_got", "or_got"}, P[p].file = "none"
            PROVE  r.val = Status(Word(T, P[p]))
        BY <4>2, TakesWhere DEF ByProgram, ByLeft, Takes
      <4> QED
        BY <4>1, <4>2, <3>1
    <3>2. CASE a # q
      <4>1. N[a] = P[a]
        BY <3>2, <1>3
      <4>2. PICK b \in Pid : /\ b = P[a].from /\ b # Main /\ P[b].pc \in Ending
                             /\ P[a].file = "none" /\ P[b].file = "none" =>
                                  /\ b # a /\ P[b].parent = a
                                  /\ P[a].pc \in {"and_got", "or_got"} => P[a].val = Status(Word(T, P[b]))
        BY <4>1, <2>6, <1>0 DEF Results
      <4>3. /\ N[b].pc \in Ending /\ N[b].parent = P[b].parent /\ N[b].file = P[b].file
            /\ N[b].line = P[b].line /\ N[b].argv = P[b].argv
        BY <4>2, <1>3, TakesWhere DEF Takes
      <4>4. Word(T, N[b]) = Word(T, P[b])
        BY <4>3 DEF Word
      <4> QED
        BY <4>1, <4>2, <4>3, <4>4
    <3> QED
      BY <3>1, <3>2
  <2> QED
    BY <2>1, <2>3, <2>5, <2>6 DEF Results
<1> QED
  BY <1>3, <1>4, <1>5, <1>6, <1>7 DEF Good

\* ipc_send to the parent: y is p once it has been taken, r its parent.
LEMMA SendGood ==
  ASSUME NEW P, NEW T, NEW F, Good(P, T, F), NEW p \in Pid, NEW q, q = P[p].parent,
         NEW y, Moves(P[p], y, T), y.val = P[p].val, y.argv = P[p].argv, y.file = P[p].file, y.pc \in Ending,
         P[p].pc = "send" \/ (P[p].pc = "recv_got" /\ P[p].cond),
         NEW v, v = P[p].val, NEW r, Takes(P[q], r, v, p), NEW K, K = Put(P, p, y), NEW N, N = Put(K, q, r)
  PROVE  Good(N, T, F)
<1>0. /\ Shapes(P) /\ Lines(P, T) /\ Parsers(P) /\ Guests(P) /\ Hosts(P) /\ Askers(P)
      /\ Clients(P, F) /\ Results(P, T)
  BY DEF Good
<1>1. p # Main
  BY <1>0 DEF Shapes
<1>2. Good(K, T, F)
  BY <1>1, OwnGood
<1>3. K[p] = y /\ \A s \in Pid : s # p => K[s] = P[s]
  BY <1>0, OneChanged
<1>4. P[q].pc \in {"open", "and", "or", "close", "recv", "last_close"}
  BY GotIs DEF Takes
<1>5. q \in Pid
  BY <1>0 DEF Hosts, Askers, Asked, Hosting
<1>6. p # q /\ K[q] = P[q] /\ K[p].parent = q
  BY <1>3, <1>4, <1>5 DEF Moves
<1>7. Word(T, y) = Word(T, P[p])
  BY DEF Moves, Word
<1>8. CASE P[p].pc = "send"
  <2>1. P[q].pc \in Hosting \union Ending /\ P[q].child = p
    BY <1>8, <1>0 DEF Hosts
  <2>2. \A s \in Pid : K[s].pc \in {"main", "send"} => K[s].parent # q
    <3>1. ASSUME NEW s \in Pid, K[s].pc \in {"main", "send"}, K[s].parent = q PROVE FALSE
      <4>1. s # p
        BY <3>1, <1>3 DEF Ending
      <4>2. P[q].child = s
        BY <4>1, <3>1, <1>0, <1>3 DEF Hosts
      <4> QED
        BY <4>1, <4>2, <2>1
    <3> QED
      BY <3>1
  <2>3. K[p].val = Status(Word(T, K[p]))
    BY <1>0, <1>3, <1>7, <1>8 DEF Results
  <2>4. ByProgram(K, T, p, q)
    BY <2>1, <2>2, <2>3, <1>6 DEF ByProgram
  <2> QED
    BY <2>4, <1>1, <1>2, <1>3, <1>5, <1>6, SentGood
<1>9. CASE P[p].pc = "recv_got" /\ P[p].cond
  <2>1. Asked(P[p]) /\ P[q].pc \in {"and", "or"}
    BY <1>9, <1>0, <1>4 DEF Askers, Asked, Hosting
  <2>2. \A s \in Pid : Asked(K[s]) => K[s].parent # q
    <3>1. ~Asked(y)
      BY DEF Asked, Ending, Hosting
    <3> QED
      BY <3>1, <2>1, <1>0, <1>3 DEF Askers
  <2>3. K[p].file = "none" => K[p].val = Status(Word(T, K[p]))
    <3>1. P[p].file = "none" => P[p].val = Status(Word(T, P[p]))
      BY <1>0, <1>9 DEF Results
    <3> QED
      BY <3>1, <1>3, <1>7
  <2>4. ByLeft(K, T, p, q)
    BY <2>1, <2>2, <2>3, <1>6 DEF ByLeft
  <2> QED
    BY <2>4, <1>1, <1>2, <1>3, <1>5, <1>6, SentGood
<1> QED
  BY <1>8, <1>9

\* A shell that fork makes: it goes on parsing, or runs a command, alone or for its parent.
Fresh0(P, T, t) ==
  /\ Shaped(t) /\ t.pc \in {"parse", "run"} /\ t.from = NoProc /\ t.line \in 1 .. Len(T)
  /\ t.cond => /\ t.pc = "run" /\ t.parent \in Pid /\ P[t.parent].pc \in {"and", "or"}
               /\ \A s \in Pid : Asked(P[s]) => P[s].parent # t.parent
LEMMA BirthGood ==
  ASSUME NEW P, NEW T, NEW F, Good(P, T, F), NEW n \in Pid, P[n].pc = "unborn", NEW t, Fresh0(P, T, t),
         NEW N, N = Put(P, n, t)
  PROVE  Good(N, T, F)
<1>0. /\ Shapes(P) /\ Lines(P, T) /\ Parsers(P) /\ Guests(P) /\ Hosts(P) /\ Askers(P)
      /\ Clients(P, F) /\ Results(P, T)
  BY DEF Good
<1>1. N[n] = t /\ (\A q \in Pid : q # n => N[q] = P[q]) /\ IsTable(N)
  BY <1>0, OneChanged
<1>m. n # Main
  BY <1>0 DEF Shapes
<1>2. Shapes(N)
  BY <1>0, <1>1, <1>m, Pids DEF Shapes, Fresh0, PC, Parsing
<1>3. Lines(N, T)
  BY <1>0, <1>1 DEF Lines, Fresh0
<1>4. Parsers(N)
  BY <1>0, <1>1 DEF Parsers, Fresh0, Parsing, Closing
<1>5. Guests(N)
  <2> SUFFICES ASSUME NEW a \in Pid, N[a].pc \in Hosting, N[a].child # NoProc
               PROVE  /\ N[a].child \in Pid /\ N[a].child # Main
                      /\ N[N[a].child].pc \in {"main", "send", "exit", "dead"}
                      /\ N[N[a].child].parent = a /\ N[N[a].child].file = "none"
                      /\ N[N[a].child].line = N[a].line /\ N[N[a].child].argv = N[a].argv
    BY DEF Guests
  <2>1. a # n /\ N[a] = P[a]
    BY <1>1 DEF Fresh0, Hosting
  <2>2. P[a].child \in Pid /\ P[P[a].child].pc \in {"main", "send", "exit", "dead"}
    BY <2>1, <1>0 DEF Guests
  <2>3. N[P[a].child] = P[P[a].child]
    BY <2>2, <1>1
  <2> QED
    BY <2>1, <2>3, <1>0 DEF Guests
<1>6. Hosts(N)
  <2> SUFFICES ASSUME NEW q \in Pid, N[q].pc \in {"main", "send"}
               PROVE  /\ N[q].file = "none"
                      /\ N[q].parent \in Pid /\ N[N[q].parent].child = q
                      /\ N[N[q].parent].pc \in Hosting \union Ending
                      /\ N[N[q].parent].file = "none" =>
                           N[N[q].parent].pc \in {"spawned", "close_all", "recv", "dead"}
    BY DEF Hosts
  <2>1. q # n /\ N[q] = P[q]
    BY <1>1 DEF Fresh0
  <2>2. P[q].parent \in Pid /\ P[P[q].parent].pc \in Hosting \union Ending
    BY <2>1, <1>0 DEF Hosts
  <2>3. N[P[q].parent] = P[P[q].parent]
    BY <2>2, <1>1 DEF Hosting, Ending
  <2> QED
    BY <2>1, <2>3, <1>0 DEF Hosts
<1>7. Askers(N)
  <2>1. \A c \in Pid : P[c].pc \in {"and", "or", "dead"} => N[c] = P[c]
    BY <1>1
  <2>2. ASSUME NEW c \in Pid, Asked(N[c])
        PROVE  /\ N[c].parent \in Pid /\ N[N[c].parent].pc \in {"and", "or", "dead"}
    <3>1. CASE c = n
      <4>1. t.parent \in Pid /\ P[t.parent].pc \in {"and", "or"}
        BY <3>1, <2>2, <1>1 DEF Fresh0, Asked
      <4> QED
        BY <4>1, <3>1, <2>1, <1>1
    <3>2. CASE c # n
      BY <3>2, <2>1, <2>2, <1>0, <1>1 DEF Askers
    <3> QED
      BY <3>1, <3>2
  <2>3. ASSUME NEW b \in Pid, NEW c \in Pid, Asked(N[b]), Asked(N[c]), N[b].parent = N[c].parent
        PROVE  b = c
    <3>1. CASE b = n /\ c # n
      BY <3>1, <2>3, <1>1 DEF Fresh0, Asked
    <3>2. CASE c = n /\ b # n
      BY <3>2, <2>3, <1>1 DEF Fresh0, Asked
    <3>3. CASE b # n /\ c # n
      BY <3>3, <2>3, <1>0, <1>1 DEF Askers
    <3> QED
      BY <3>1, <3>2, <3>3
  <2> QED
    BY <2>2, <2>3 DEF Askers
<1>8. Clients(N, F)
  <2>1. \A q \in F : q # n
    BY <1>0 DEF Clients, Hosting, Ending
  <2> QED
    BY <2>1, <1>0, <1>1 DEF Clients
<1>9. Results(N, T)
  <2>1. /\ \A a \in Pid : N[a].pc = "send" => N[a].val = Status(Word(T, N[a]))
        /\ \A a \in Pid : N[a].pc = "recv_got" /\ N[a].file = "none" =>
             /\ N[a].from = N[a].child /\ N[a].child # NoProc /\ N[a].val = Status(Word(T, N[a]))
    BY <1>0, <1>1 DEF Results, Fresh0
  <2>2. \A a \in Pid : N[a].from \in Int
    BY <1>0, <1>1 DEF Results, Fresh0, NoProc
  <2>3. ASSUME NEW a \in Pid, N[a].from > NoProc
        PROVE  /\ N[a].from \in Pid /\ N[a].from # Main /\ N[N[a].from].pc \in Ending
               /\ N[a].file = "none" /\ N[N[a].from].file = "none" =>
                    /\ N[a].from # a /\ N[N[a].from].parent = a
                    /\ N[a].pc \in {"and_got", "or_got"} => N[a].val = Status(Word(T, N[N[a].from]))
    <3>1. a # n /\ N[a] = P[a]
      BY <2>3, <1>1 DEF Fresh0, NoProc
    <3>2. P[a].from \in Pid /\ P[P[a].from].pc \in Ending
      BY <3>1, <2>3, <1>0 DEF Results
    <3>3. N[P[a].from] = P[P[a].from]
      BY <3>2, <1>1 DEF Ending
    <3> QED
      BY <3>1, <3>3, <2>3, <1>0 DEF Results
  <2> QED
    BY <2>1, <2>2, <2>3 DEF Results
<1> QED
  BY <1>2, <1>3, <1>4, <1>5, <1>6, <1>7, <1>8, <1>9 DEF Good

\* spawn: the shell p goes on as r, the program starts as t.
Starts(x, r) ==
  /\ Shaped(r) /\ r.pc = "spawned" /\ x.pc = "run"
  /\ r.parent = x.parent /\ r.line = x.line /\ r.argv = x.argv /\ r.cond = x.cond /\ r.file = x.file
  /\ r.from = x.from
Started(x, t) ==
  /\ Shaped(t) /\ t.pc = "main" /\ t.line = x.line /\ t.argv = x.argv /\ t.from = NoProc
  /\ t.file = "none" /\ ~t.cond
LEMMA StartGood ==
  ASSUME NEW P, NEW T, NEW F, Good(P, T, F), NEW p \in Pid, NEW n \in Pid, P[n].pc = "unborn",
         NEW r, Starts(P[p], r), r.child = n, NEW t, Started(P[p], t), t.parent = p,
         NEW K, K = Put(P, p, r), NEW N, N = Put(K, n, t)
  PROVE  Good(N, T, F)
<1>0. /\ Shapes(P) /\ Lines(P, T) /\ Parsers(P) /\ Guests(P) /\ Hosts(P) /\ Askers(P)
      /\ Clients(P, F) /\ Results(P, T)
  BY DEF Good
<1>1. K[p] = r /\ (\A q \in Pid : q # p => K[q] = P[q]) /\ IsTable(K)
  BY <1>0, OneChanged
<1>m. n # Main /\ p # Main /\ n # p
  BY <1>0 DEF Shapes, Starts
<1>k. Shapes(K)
  BY <1>0, <1>1, <1>m, Pids DEF Shapes, Starts, PC, Hosting
<1>n. N[n] = t /\ (\A q \in Pid : q # n => N[q] = K[q]) /\ IsTable(N)
  BY <1>k, OneChanged
<1>2. N[p] = r /\ N[n] = t /\ (\A q \in Pid : q # p /\ q # n => N[q] = P[q])
  BY <1>1, <1>m, <1>n
<1>3. Shapes(N)
  BY <1>k, <1>n, <1>m, Pids DEF Shapes, Started, PC
<1>4. Lines(N, T)
  BY <1>0, <1>2, <1>m DEF Lines, Starts, Started
<1>5. Parsers(N)
  BY <1>0, <1>2 DEF Parsers, Starts, Started, Parsing, Closing
<1>6. Guests(N)
  <2> SUFFICES ASSUME NEW a \in Pid, N[a].pc \in Hosting, N[a].child # NoProc
               PROVE  /\ N[a].child \in Pid /\ N[a].child # Main
                      /\ N[N[a].child].pc \in {"main", "send", "exit", "dead"}
                      /\ N[N[a].child].parent = a /\ N[N[a].child].file = "none"
                      /\ N[N[a].child].line = N[a].line /\ N[N[a].child].argv = N[a].argv
    BY DEF Guests
  <2>1. CASE a = p
    BY <2>1, <1>2, <1>m DEF Starts, Started
  <2>2. CASE a # p
    <3>1. a # n /\ N[a] = P[a]
      BY <2>2, <1>2 DEF Started, Hosting
    <3>2. P[a].child \in Pid /\ P[P[a].child].pc \in {"main", "send", "exit", "dead"}
      BY <3>1, <1>0 DEF Guests
    <3>3. N[P[a].child] = P[P[a].child]
      BY <3>2, <1>2 DEF Starts
    <3> QED
      BY <3>1, <3>3, <1>0 DEF Guests
  <2> QED
    BY <2>1, <2>2
<1>7. Hosts(N)
  <2> SUFFICES ASSUME NEW q \in Pid, N[q].pc \in {"main", "send"}
               PROVE  /\ N[q].file = "none"
                      /\ N[q].parent \in Pid /\ N[N[q].parent].child = q
                      /\ N[N[q].parent].pc \in Hosting \union Ending
                      /\ N[N[q].parent].file = "none" =>
                           N[N[q].parent].pc \in {"spawned", "close_all", "recv", "dead"}
    BY DEF Hosts
  <2>1. CASE q = n
    BY <2>1, <1>2 DEF Starts, Started, Hosting
  <2>2. CASE q # n
    <3>1. q # p /\ N[q] = P[q]
      BY <2>2, <1>2 DEF Starts
    <3>2. P[q].parent \in Pid /\ P[P[q].parent].pc \in Hosting \union Ending
      BY <3>1, <1>0 DEF Hosts
    <3>3. N[P[q].parent] = P[P[q].parent]
      BY <3>2, <1>2 DEF Hosting, Ending, Starts
    <3> QED
      BY <3>1, <3>3, <1>0 DEF Hosts
  <2> QED
    BY <2>1, <2>2
<1>8. Askers(N)
  <2>1. \A c \in Pid : P[c].pc \in {"and", "or", "dead"} => N[c] = P[c]
    BY <1>2 DEF Starts
  <2>2. \A c \in Pid : Asked(N[c]) => Asked(P[c]) /\ N[c].parent = P[c].parent
    BY <1>2 DEF Starts, Started, Asked
  <2> QED
    BY <2>1, <2>2, <1>0 DEF Askers
<1>9. Clients(N, F)
  <2>1. \A q \in F : q # n /\ q # p
    BY <1>0 DEF Clients, Hosting, Ending, Starts
  <2> QED
    BY <2>1, <1>0, <1>2 DEF Clients
<1>10. Results(N, T)
  <2>1. /\ \A a \in Pid : N[a].pc = "send" => N[a].val = Status(Word(T, N[a]))
        /\ \A a \in Pid : N[a].pc = "recv_got" /\ N[a].file = "none" =>
             /\ N[a].from = N[a].child /\ N[a].child # NoProc /\ N[a].val = Status(Word(T, N[a]))
    BY <1>0, <1>2 DEF Results, Starts, Started
  <2>2. \A a \in Pid : N[a].from \in Int
    BY <1>0, <1>2 DEF Results, Starts, Started, NoProc
  <2>3. ASSUME NEW a \in Pid, N[a].from > NoProc
        PROVE  /\ N[a].from \in Pid /\ N[a].from # Main /\ N[N[a].from].pc \in Ending
               /\ N[a].file = "none" /\ N[N[a].from].file = "none" =>
                    /\ N[a].from # a /\ N[N[a].from].parent = a
                    /\ N[a].pc \in {"and_got", "or_got"} => N[a].val = Status(Word(T, N[N[a].from]))
    <3>1. /\ a # n /\ N[a].from = P[a].from /\ N[a].file = P[a].file
          /\ N[a].pc \in {"and_got", "or_got"} => N[a] = P[a]
      BY <2>3, <1>2 DEF Starts, Started, NoProc
    <3>2. P[a].from \in Pid /\ P[P[a].from].pc \in Ending
      BY <3>1, <2>3, <1>0 DEF Results
    <3>3. N[P[a].from] = P[P[a].from]
      BY <3>2, <1>2 DEF Ending, Starts
    <3> QED
      BY <3>1, <3>3, <2>3, <1>0 DEF Results
  <2> QED
    BY <2>1, <2>2, <2>3 DEF Results
<1> QED
  BY <1>3, <1>4, <1>5, <1>6, <1>7, <1>8, <1>9, <1>10 DEF Good

\* readline: one line more.
LEMMA TypedGood ==
  ASSUME NEW P, NEW T, NEW F, Good(P, T, F), NEW l \in Seq(Words \union Symbols), NEW U, U = Append(T, l)
  PROVE  Good(P, U, F) /\ Len(U) = Len(T) + 1
<1>0. /\ Shapes(P) /\ Lines(P, T) /\ Parsers(P) /\ Guests(P) /\ Hosts(P) /\ Askers(P)
      /\ Clients(P, F) /\ Results(P, T)
  BY DEF Good
<1>1. /\ T \in Seq(Seq(Words \union Symbols)) /\ U \in Seq(Seq(Words \union Symbols)) /\ Len(U) = Len(T) + 1
      /\ Len(T) \in Nat /\ \A i \in 1 .. Len(T) : U[i] = T[i]
  BY <1>0 DEF Lines
<1>2. Lines(P, U)
  BY <1>0, <1>1 DEF Lines
<1>3. \A p \in Pid : p # Main /\ P[p].pc # "unborn" => Word(U, P[p]) = Word(T, P[p])
  BY <1>0, <1>1 DEF Lines, Word
<1>4. Results(P, U)
  <2>1. /\ \A a \in Pid : P[a].pc = "send" => P[a].val = Status(Word(U, P[a]))
        /\ \A a \in Pid : P[a].pc = "recv_got" /\ P[a].file = "none" =>
             /\ P[a].from = P[a].child /\ P[a].child # NoProc /\ P[a].val = Status(Word(U, P[a]))
    BY <1>0, <1>3 DEF Results, Shapes
  <2>2. ASSUME NEW a \in Pid, P[a].from > NoProc
        PROVE  /\ P[a].from \in Pid /\ P[a].from # Main /\ P[P[a].from].pc \in Ending
               /\ Word(U, P[P[a].from]) = Word(T, P[P[a].from])
    <3>1. P[a].from \in Pid /\ P[a].from # Main /\ P[P[a].from].pc \in Ending
      BY <2>2, <1>0 DEF Results
    <3> QED
      BY <3>1, <1>3 DEF Ending
  <2> QED
    BY <2>1, <2>2, <1>0 DEF Results
<1> QED
  BY <1>0, <1>1, <1>2, <1>4 DEF Good

------------------------------------------------------------------------------
(* The table of jobs *)

\* The program p, that goes on as it is or leaves inside main.
Goes0(x, r) == r.line = x.line /\ r.argv = x.argv
LEMMA LeavesKept ==
  ASSUME NEW T, NEW x, NEW r, Goes0(x, r)
  PROVE  Leaves(T, r) <=> Leaves(T, x)
  BY DEF Goes0, Leaves, Word

\* A step of p that neither starts nor ends a program, nor lets one that returns from main
\* end while its shell has still to add its job, is no business of the table.
Quiet(P, T, p, x, r) ==
  /\ x.pc \in {"main", "send", "exit", "dead"} /\ x.file = "none" =>
       r.pc \in {"main", "send", "exit", "dead"} /\ r.file = "none" /\ Goes0(x, r)
  /\ x.pc = "dead" <=> r.pc = "dead"
  /\ r.pc = "spawned" /\ r.back => r.child = NoProc
  /\ x.pc \in {"main", "send"} =>
       \/ r.pc \in {"main", "send"}
       \/ Leaves(T, x)
       \/ \A a \in Pid : P[a].pc = "spawned" /\ P[a].back => P[a].child # p
LEMMA QuietTable ==
  ASSUME NEW P, Shapes(P), Guests(P), NEW T, NEW J, Table(P, T, J), NEW p \in Pid, NEW r,
         Quiet(P, T, p, P[p], r), NEW N, N = Put(P, p, r)
  PROVE  Table(N, T, J)
<1>1. N[p] = r /\ \A q \in Pid : q # p => N[q] = P[q]
  BY OneChanged
<1>2. J \in Seq(JobType)
  BY DEF Table
<1>3. ASSUME NEW i \in DOMAIN J, J[i].env # NoProc
      PROVE  J[i].env # Main /\ Entered(T, N[J[i].env], J[i].done)
  <2>1. PICK e \in Pid : e = J[i].env
    <3>1. J[i] \in JobType
      BY <1>2
    <3> QED
      BY <3>1, <1>3 DEF JobType
  <2>2. e # Main /\ Entered(T, P[e], J[i].done)
    BY <2>1, <1>3 DEF Table
  <2>3. CASE e # p
    BY <2>1, <2>2, <2>3, <1>1
  <2>4. CASE e = p
    <3>1. Leaves(T, r) <=> Leaves(T, P[p])
      BY <2>2, <2>4, LeavesKept DEF Quiet, Entered
    <3> QED
      BY <3>1, <2>1, <2>2, <2>4, <1>1 DEF Quiet, Entered
  <2> QED
    BY <2>3, <2>4
<1>4. \A i, j \in DOMAIN J : J[i].env # NoProc /\ J[i].env = J[j].env => i = j
  BY DEF Table
<1>5. ASSUME NEW a \in Pid, N[a].pc = "spawned", N[a].back, N[a].child # NoProc
      PROVE  /\ N[a].child \in Pid /\ Awaits(T, N[N[a].child])
             /\ \A i \in DOMAIN J : J[i].env # N[a].child
  <2>1. a # p /\ N[a] = P[a]
    BY <1>1, <1>5 DEF Quiet
  <2>2. PICK c \in Pid : /\ c = P[a].child /\ Awaits(T, P[c])
                         /\ \A i \in DOMAIN J : J[i].env # c
    BY <2>1, <1>5 DEF Table
  <2>3. P[c].pc \in {"main", "send", "exit", "dead"} /\ P[c].file = "none"
    BY <2>1, <2>2, <1>5 DEF Guests, Hosting
  <2>4. CASE c # p
    BY <2>1, <2>2, <2>4, <1>1
  <2>5. CASE c = p
    <3>1. Leaves(T, r) <=> Leaves(T, P[p])
      BY <2>3, <2>5, LeavesKept DEF Quiet
    <3>2. r.pc \in {"main", "send"} \/ Leaves(T, P[p])
      BY <2>1, <2>2, <2>5, <1>5 DEF Quiet, Awaits
    <3> QED
      BY <3>1, <3>2, <2>1, <2>2, <2>5, <1>1 DEF Awaits
  <2> QED
    BY <2>4, <2>5
<1> QED
  BY <1>2, <1>3, <1>4, <1>5 DEF Table

\* A line typed does not change what was typed before.
LEMMA TypedTable ==
  ASSUME NEW P, Guests(P), NEW T, Lines(P, T), NEW J, Table(P, T, J), NEW l, l \in Seq(Words \union Symbols)
  PROVE  Table(P, Append(T, l), J)
<1>1. PICK U : U = Append(T, l)
  OBVIOUS
<1>2. ASSUME NEW c \in Pid, c # Main, P[c].pc # "unborn"
      PROVE  Leaves(U, P[c]) <=> Leaves(T, P[c])
  <2>1. P[c].line \in 1 .. Len(T) /\ T \in Seq(Seq(Words \union Symbols))
    BY <1>2 DEF Lines
  <2>2. U[P[c].line] = T[P[c].line]
    BY <2>1, <1>1
  <2> QED
    BY <2>2 DEF Leaves, Word
<1>3. J \in Seq(JobType)
  BY DEF Table
<1>4. ASSUME NEW i \in DOMAIN J, J[i].env # NoProc
      PROVE  J[i].env # Main /\ Entered(U, P[J[i].env], J[i].done)
  <2>1. PICK e \in Pid : e = J[i].env
    <3>1. J[i] \in JobType
      BY <1>3
    <3> QED
      BY <3>1, <1>4 DEF JobType
  <2>2. e # Main /\ Entered(T, P[e], J[i].done)
    BY <2>1, <1>4 DEF Table
  <2>3. Leaves(U, P[e]) <=> Leaves(T, P[e])
    BY <2>2, <1>2 DEF Entered
  <2> QED
    BY <2>1, <2>2, <2>3 DEF Entered
<1>5. ASSUME NEW a \in Pid, P[a].pc = "spawned", P[a].back, P[a].child # NoProc
      PROVE  /\ P[a].child \in Pid /\ Awaits(U, P[P[a].child])
             /\ \A i \in DOMAIN J : J[i].env # P[a].child
  <2>1. PICK c \in Pid : /\ c = P[a].child /\ Awaits(T, P[c])
                         /\ \A i \in DOMAIN J : J[i].env # c
    BY <1>5 DEF Table
  <2>2. c # Main /\ P[c].pc # "unborn"
    BY <2>1, <1>5 DEF Guests, Hosting
  <2>3. Leaves(U, P[c]) <=> Leaves(T, P[c])
    BY <2>2, <1>2
  <2> QED
    BY <2>1, <2>3 DEF Awaits
<1>6. Table(P, U, J)
  <2>1. \A i, j \in DOMAIN J : J[i].env # NoProc /\ J[i].env = J[j].env => i = j
    BY DEF Table
  <2> QED
    BY <2>1, <1>3, <1>4, <1>5 DEF Table
<1> QED
  BY <1>1, <1>6

\* spawn in a shell p: the program n is in no job yet.
LEMMA StartTable ==
  ASSUME NEW P, Shapes(P), Guests(P), NEW T, NEW J, Table(P, T, J), NEW p \in Pid, NEW n \in Pid,
         P[n].pc = "unborn", NEW r, Starts(P[p], r), r.child = n, NEW t, Started(P[p], t),
         NEW K, K = Put(P, p, r), NEW N, N = Put(K, n, t)
  PROVE  Table(N, T, J)
<1>1. K[p] = r /\ (\A q \in Pid : q # p => K[q] = P[q]) /\ IsTable(K)
  BY OneChanged
<1>m. n # p /\ p # Main
  BY DEF Starts, Shapes
<1>k. Shapes(K)
  BY <1>1, <1>m, Pids DEF Shapes, Starts, PC, Hosting
<1>2. N[n] = t /\ (\A q \in Pid : q # n => N[q] = K[q])
  BY <1>k, OneChanged
<1>3. J \in Seq(JobType)
  BY DEF Table
<1>4. ASSUME NEW i \in DOMAIN J, J[i].env # NoProc
      PROVE  J[i].env # Main /\ Entered(T, N[J[i].env], J[i].done) /\ J[i].env # n
  <2>1. PICK e \in Pid : e = J[i].env
    <3>1. J[i] \in JobType
      BY <1>3
    <3> QED
      BY <3>1, <1>4 DEF JobType
  <2>2. e # Main /\ Entered(T, P[e], J[i].done)
    BY <2>1, <1>4 DEF Table
  <2>3. e # n /\ N[e] = P[e]
    BY <2>2, <1>1, <1>2 DEF Starts, Entered
  <2> QED
    BY <2>1, <2>2, <2>3
<1>5. \A i, j \in DOMAIN J : J[i].env # NoProc /\ J[i].env = J[j].env => i = j
  BY DEF Table
<1>6. ASSUME NEW a \in Pid, N[a].pc = "spawned", N[a].back, N[a].child # NoProc
      PROVE  /\ N[a].child \in Pid /\ Awaits(T, N[N[a].child])
             /\ \A i \in DOMAIN J : J[i].env # N[a].child
  <2>1. CASE a = p
    <3>1. N[a].child = n /\ n # NoProc
      BY <2>1, <1>1, <1>2, <1>m, Pids
    <3>2. \A i \in DOMAIN J : J[i].env # n
      BY <3>1, <1>4
    <3> QED
      BY <3>1, <3>2, <1>2 DEF Started, Awaits
  <2>2. CASE a # p
    <3>1. N[a] = P[a]
      BY <2>2, <1>1, <1>2, <1>6 DEF Started
    <3>2. PICK c \in Pid : /\ c = P[a].child /\ Awaits(T, P[c])
                           /\ \A i \in DOMAIN J : J[i].env # c
      BY <3>1, <1>6 DEF Table
    <3>3. P[c].pc \in {"main", "send", "exit", "dead"}
      BY <3>1, <3>2, <1>6 DEF Guests, Hosting
    <3>4. N[c] = P[c]
      BY <3>3, <1>1, <1>2 DEF Starts
    <3> QED
      BY <3>1, <3>2, <3>4
  <2> QED
    BY <2>1, <2>2
<1> QED
  BY <1>3, <1>4, <1>5, <1>6 DEF Table

\* The end of v, by itself (exit) or by "kill": every job of v is done, and no other.
Closed(K, J, v) ==
  /\ K \in Seq(JobType) /\ DOMAIN K = DOMAIN J
  /\ \A i \in DOMAIN J : K[i].env = J[i].env /\ (K[i].done <=> (J[i].done \/ J[i].env = v))
LEMMA EndTable ==
  ASSUME NEW P, Shapes(P), NEW T, NEW J, Table(P, T, J), NEW v \in Pid, NEW r, r.pc = "dead", r.file = P[v].file,
         Goes0(P[v], r),
         Leaves(T, P[v]) \/ \A a \in Pid : P[a].pc = "spawned" /\ P[a].back => P[a].child # v,
         NEW K, Closed(K, J, v), NEW N, N = Put(P, v, r)
  PROVE  Table(N, T, K)
<1>1. N[v] = r /\ \A q \in Pid : q # v => N[q] = P[q]
  BY OneChanged
<1>2. J \in Seq(JobType) /\ K \in Seq(JobType) /\ DOMAIN K = DOMAIN J
  BY DEF Table, Closed
<1>3. ASSUME NEW i \in DOMAIN K, K[i].env # NoProc
      PROVE  K[i].env # Main /\ Entered(T, N[K[i].env], K[i].done)
  <2>1. PICK e \in Pid : e = K[i].env
    <3>1. K[i] \in JobType
      BY <1>2
    <3> QED
      BY <3>1, <1>3 DEF JobType
  <2>2. i \in DOMAIN J /\ J[i].env = e /\ (K[i].done <=> (J[i].done \/ e = v))
    BY <2>1, <1>2 DEF Closed
  <2>3. e # Main /\ Entered(T, P[e], J[i].done)
    BY <2>1, <2>2, <1>3 DEF Table
  <2>4. CASE e = v
    BY <2>1, <2>2, <2>3, <2>4, <1>1 DEF Entered
  <2>5. CASE e # v
    BY <2>1, <2>2, <2>3, <2>5, <1>1 DEF Entered
  <2> QED
    BY <2>4, <2>5
<1>4. \A i, j \in DOMAIN K : K[i].env # NoProc /\ K[i].env = K[j].env => i = j
  BY <1>2 DEF Table, Closed
<1>5. ASSUME NEW a \in Pid, N[a].pc = "spawned", N[a].back, N[a].child # NoProc
      PROVE  /\ N[a].child \in Pid /\ Awaits(T, N[N[a].child])
             /\ \A i \in DOMAIN K : K[i].env # N[a].child
  <2>1. a # v /\ N[a] = P[a]
    BY <1>1, <1>5
  <2>2. PICK c \in Pid : /\ c = P[a].child /\ Awaits(T, P[c])
                         /\ \A i \in DOMAIN J : J[i].env # c
    BY <2>1, <1>5 DEF Table
  <2>3. Awaits(T, N[c])
    <3>1. CASE c # v
      BY <3>1, <2>2, <1>1
    <3>2. CASE c = v
      <4>1. Leaves(T, P[v])
        BY <3>2, <2>1, <2>2, <1>5
      <4>2. Leaves(T, r)
        BY <4>1, LeavesKept
      <4> QED
        BY <4>2, <3>2, <1>1 DEF Awaits
    <3> QED
      BY <3>1, <3>2
  <2>4. \A i \in DOMAIN K : K[i].env # c
    BY <2>2, <1>2 DEF Closed
  <2> QED
    BY <2>1, <2>2, <2>3, <2>4
<1> QED
  BY <1>2, <1>3, <1>4, <1>5 DEF Table

\* sys_add_job: the program of a shell in the background is running when its job is added,
\* unless it leaves inside main.
LEMMA AddTable ==
  ASSUME NEW P, Shapes(P), Guests(P), NEW T, NEW J, Table(P, T, J), NEW p \in Pid, P[p].pc = "spawned",
         P[p].back, P[p].child \in Pid \union {NoProc}, NEW e, e = [env |-> P[p].child, done |-> FALSE],
         NEW K, K = Append(J, e), NEW r, r.pc = "close_all", NEW N, N = Put(P, p, r)
  PROVE  Table(N, T, K)
<1>1. N[p] = r /\ \A q \in Pid : q # p => N[q] = P[q]
  BY OneChanged
<1>2. e \in JobType /\ e.env = P[p].child /\ ~e.done
  BY DEF JobType
<1>3. J \in Seq(JobType)
  BY DEF Table
<1>4. /\ K \in Seq(JobType) /\ Len(J) \in Nat /\ DOMAIN J = 1 .. Len(J) /\ DOMAIN K = 1 .. Len(J) + 1
      /\ K[Len(J) + 1] = e /\ \A i \in DOMAIN J : K[i] = J[i]
  BY <1>2, <1>3
<1>5. \A i \in DOMAIN K : i \in DOMAIN J \/ i = Len(J) + 1
  BY <1>4
<1>6. ASSUME NEW i \in DOMAIN K, K[i].env # NoProc
      PROVE  K[i].env # Main /\ Entered(T, N[K[i].env], K[i].done)
  <2>1. PICK c \in Pid : c = K[i].env
    <3>1. K[i] \in JobType
      BY <1>4
    <3> QED
      BY <3>1, <1>6 DEF JobType
  <2>2. CASE i \in DOMAIN J
    <3>1. c # Main /\ Entered(T, P[c], J[i].done)
      BY <2>1, <2>2, <1>4, <1>6 DEF Table
    <3>2. N[c] = P[c]
      BY <3>1, <1>1 DEF Entered
    <3> QED
      BY <3>1, <3>2, <2>1, <2>2, <1>4
  <2>3. CASE i = Len(J) + 1
    <3>1. c = P[p].child /\ ~K[i].done
      BY <2>1, <2>3, <1>2, <1>4
    <3>2. P[p].child # NoProc /\ P[p].pc \in Hosting
      BY <3>1, Pids DEF Hosting
    <3>3. Awaits(T, P[c])
      BY <3>1, <3>2 DEF Table
    <3>4. c # Main /\ P[c].pc \in {"main", "send", "exit", "dead"} /\ P[c].file = "none"
      BY <3>1, <3>2 DEF Guests
    <3>5. N[c] = P[c]
      BY <3>4, <1>1
    <3> QED
      BY <3>1, <3>3, <3>4, <3>5, <2>1 DEF Entered, Awaits
  <2> QED
    BY <2>2, <2>3, <1>5
<1>7. ASSUME NEW i \in DOMAIN K, NEW j \in DOMAIN K, K[i].env # NoProc, K[i].env = K[j].env
      PROVE  i = j
  <2>1. P[p].child # NoProc => \A k \in DOMAIN J : J[k].env # P[p].child
    BY DEF Table
  <2>2. CASE i \in DOMAIN J /\ j \in DOMAIN J
    BY <2>2, <1>4, <1>7 DEF Table
  <2>3. CASE i \in DOMAIN J /\ j = Len(J) + 1
    BY <2>1, <2>3, <1>2, <1>4, <1>7
  <2>4. CASE i = Len(J) + 1 /\ j \in DOMAIN J
    BY <2>1, <2>4, <1>2, <1>4, <1>7
  <2> QED
    BY <2>2, <2>3, <2>4, <1>5
<1>8. ASSUME NEW a \in Pid, N[a].pc = "spawned", N[a].back, N[a].child # NoProc
      PROVE  /\ N[a].child \in Pid /\ Awaits(T, N[N[a].child])
             /\ \A i \in DOMAIN K : K[i].env # N[a].child
  <2>1. a # p /\ N[a] = P[a]
    BY <1>1, <1>8
  <2>2. PICK c \in Pid : /\ c = P[a].child /\ Awaits(T, P[c])
                         /\ \A i \in DOMAIN J : J[i].env # c
    BY <2>1, <1>8 DEF Table
  <2>3. N[c] = P[c]
    <3>1. P[c].pc \in {"main", "send", "exit", "dead"}
      BY <2>1, <2>2, <1>8 DEF Guests, Hosting
    <3> QED
      BY <3>1, <1>1
  <2>4. P[p].child # c
    BY <2>1, <2>2, <1>8, Pids DEF Guests, Hosting
  <2>5. \A i \in DOMAIN K : K[i].env # c
    BY <2>2, <2>4, <1>2, <1>4, <1>5
  <2> QED
    BY <2>1, <2>2, <2>3, <2>5
<1> QED
  BY <1>4, <1>6, <1>7, <1>8 DEF Table

------------------------------------------------------------------------------
(* The steps *)

\* A step of p alone.
LEMMA OwnStep ==
  ASSUME Inv, NEW p \in Pid, NEW r, Become(p, r), Moves(proc[p], r, typed),
         p = Main => r.pc \in {"prompt", "wait", "dead"}, session' = session, typed' = typed, jobs' = jobs,
         fs' = fs \/ (fs' = {p} /\ (r.pc = "open" \/ (r.pc \in Hosting \union Ending /\ r.file # "none")))
  PROVE  Inv'
<1>1. PICK N, G : N = proc' /\ G = fs' /\ N = Put(proc, p, r)
  BY DEF Become, Put
<1>2. G = fs \/ (G = {p} /\ (r.pc = "open" \/ (r.pc \in Hosting \union Ending /\ r.file # "none")))
  BY <1>1
<1>3. Good(N, typed, G)
  BY <1>1, <1>2, OwnGood DEF Inv
<1>4. Known(N, jobs)
  BY <1>1, KnownPut DEF Inv, Good, Moves
<1> QED
  BY <1>1, <1>3, <1>4 DEF Inv

\* A step that is no business of the table of jobs.
LEMMA QuietStep ==
  ASSUME Inv, NEW p \in Pid, NEW r, Become(p, r), Quiet(proc, typed, p, proc[p], r), jobs' = jobs,
         typed' = typed, JobsInv
  PROVE  JobsInv'
<1>1. PICK N : N = proc' /\ N = Put(proc, p, r)
  BY DEF Become, Put
<1>2. Table(N, typed, jobs)
  BY <1>1, QuietTable DEF Inv, Good, JobsInv
<1> QED
  BY <1>1, <1>2 DEF JobsInv

\* What a step of p may do, for both invariants.
LEMMA Plain0 ==
  ASSUME Inv, NEW p \in Pid, NEW r, Become(p, r), Moves(proc[p], r, typed), Quiet(proc, typed, p, proc[p], r),
         p # Main \/ r.pc = "prompt", UNCHANGED <<session, typed, jobs>>,
         fs' = fs \/ (fs' = {p} /\ (r.pc = "open" \/ (r.pc \in Hosting \union Ending /\ r.file # "none")))
  PROVE  Inv' /\ (JobsInv => JobsInv')
  BY OwnStep, QuietStep

\* What the invariant says of one process by where it is.
LEMMA Facts ==
  ASSUME Inv, NEW p \in Pid
  PROVE  /\ Shaped(proc[p]) /\ proc[p].pc \in PC
         /\ proc[p].pc \in Parsing => ~proc[p].cond /\ p # Main
         /\ proc[p].pc \in {"parse", "wait_left"} => proc[p].from = NoProc
         /\ proc[p].pc \in Hosting \union (Ending \ {"dead"}) \union {"run", "main", "send"} => p # Main
         /\ proc[p].pc \in {"main", "send"} => proc[p].file = "none"
         /\ proc[p].pc \in Closing => proc[p].file # "none"
  BY DEF Inv, Good, Shapes, Parsers, Hosts, Parsing, Hosting, Ending

\* A step of a process that parses, to a place where it parses on, runs or ends.
LEMMA ParseStep ==
  ASSUME NEW x, NEW r, NEW T, NEW P, NEW p, Shaped(r),
         x.pc \in {"parse", "open_got", "wait_left", "and_got", "or_got"}, ~x.cond, ~r.cond,
         r.pc \in {"parse", "open", "wait_left", "and", "or", "run", "exit"},
         r.parent = x.parent, r.line = x.line, r.file = x.file \/ r.file # "none",
         r.from = NoProc \/ (r.from = x.from /\ r.pc = "exit")
  PROVE  Moves(x, r, T) /\ Quiet(P, T, p, x, r)
  BY DEF Moves, Quiet, PC, Parsing, Hosting, Ending, Closing, Asked

\* The same process elsewhere.
Same(x, r) ==
  /\ Shaped(r) /\ r.parent = x.parent /\ r.line = x.line /\ r.argv = x.argv /\ r.cond = x.cond
  /\ r.back = x.back /\ r.file = x.file /\ r.child = x.child /\ r.right = x.right /\ r.val = x.val
  /\ r.from = x.from
LEMMA GotoIs ==
  ASSUME NEW p, Shaped(proc[p]), NEW c, Goto(p, c)
  PROVE  \E r : Become(p, r) /\ Same(proc[p], r) /\ r.pc = c
<1>1. PICK r : r = [proc[p] EXCEPT !.pc = c]
  OBVIOUS
<1>2. Same(proc[p], r) /\ r.pc = c
  BY <1>1 DEF Same, Shaped
<1>3. Become(p, r)
  BY <1>1 DEF Goto
<1> QED
  BY <1>2, <1>3

\* p with its words read keeps what others know of it.
Kept(x, r) ==
  /\ Shaped(r) /\ r.parent = x.parent /\ r.line = x.line /\ r.cond = x.cond
  /\ r.back = x.back /\ r.file = x.file /\ r.child = x.child /\ r.from = x.from
LEMMA ParsedIs ==
  ASSUME NEW p, Shaped(proc[p]), NEW r, r = Parsed(p)
  PROVE  Kept(proc[p], r) /\ r.pc = proc[p].pc
<1>1. PICK a, i : a = Argv(p) /\ i = Stop(p) + 1
  OBVIOUS
<1>2. r = [proc[p] EXCEPT !.argv = a, !.at = i]
  BY <1>1 DEF Parsed
<1> QED
  BY <1>2 DEF Shaped, Kept

\* About to run them.
LEMMA RunsIs ==
  ASSUME NEW p, Shaped(proc[p]), NEW r, r = Runs(p)
  PROVE  Kept(proc[p], r) /\ r.pc = "run"
<1>1. PICK x : x = Parsed(p)
  OBVIOUS
<1>2. Kept(proc[p], x)
  BY <1>1, ParsedIs
<1>3. r = [x EXCEPT !.pc = "run"]
  BY <1>1 DEF Runs
<1> QED
  BY <1>2, <1>3 DEF Shaped, Kept

\* About to parse what follows.
LEMMA GoesIs ==
  ASSUME NEW p, Shaped(proc[p]), NEW r, r = Goes(p)
  PROVE  Kept(proc[p], r) /\ r.pc = "parse"
<1>1. PICK x, e : x = Parsed(p) /\ e = <<>>
  OBVIOUS
<1>2. Kept(proc[p], x)
  BY <1>1, ParsedIs
<1>3. r = [x EXCEPT !.pc = "parse", !.argv = e]
  BY <1>1 DEF Goes
<1> QED
  BY <1>2, <1>3 DEF Shaped, Kept

\* What every action has to keep.
Both == Inv' /\ (JobsInv /\ JobsFound => JobsInv')

\* A step of a process that parses is a step of its own.
LEMMA ParseBoth ==
  ASSUME Inv, NEW p \in Pid, NEW r, Become(p, r), Shaped(r),
         proc[p].pc \in {"parse", "open_got", "wait_left", "and_got", "or_got"}, ~r.cond,
         r.pc \in {"parse", "open", "wait_left", "and", "or", "run", "exit"},
         r.parent = proc[p].parent, r.line = proc[p].line, r.file = proc[p].file \/ r.file # "none",
         r.from = NoProc \/ (r.from = proc[p].from /\ r.pc = "exit"),
         UNCHANGED <<session, typed, jobs>>, fs' = fs \/ (fs' = {p} /\ r.pc = "open")
  PROVE  Both
<1>1. ~proc[p].cond /\ p # Main
  BY Facts DEF Parsing
<1>2. Moves(proc[p], r, typed) /\ Quiet(proc, typed, p, proc[p], r)
  <2>1. PICK x, P, T : x = proc[p] /\ P = proc /\ T = typed
    OBVIOUS
  <2>2. Moves(x, r, T) /\ Quiet(P, T, p, x, r)
    BY <1>1, <2>1, ParseStep
  <2> QED
    BY <2>1, <2>2
<1>3. fs' = fs \/ (fs' = {p} /\ (r.pc = "open" \/ (r.pc \in Hosting \union Ending /\ r.file # "none")))
  OBVIOUS
<1>4. UNCHANGED <<session, typed, jobs>>
  OBVIOUS
<1> QED
  BY <1>1, <1>2, <1>3, <1>4, Plain0 DEF Both

\* parse_end.
LEMMA EndBoth ==
  ASSUME Inv, NEW p \in Pid, parse_end(p)
  PROVE  Both
<1>1. /\ proc[p].pc = "parse" /\ Shaped(proc[p]) /\ ~proc[p].cond /\ proc[p].from = NoProc
      /\ UNCHANGED <<session, typed, jobs>> /\ fs' = fs
  BY Facts DEF parse_end, Parses, At, Parsing
<1>2. CASE Become(p, [proc[p] EXCEPT !.pc = "exit"])
  <2>1. PICK r : Become(p, r) /\ Same(proc[p], r) /\ r.pc = "exit"
    BY <1>1, <1>2, GotoIs DEF Goto
  <2> QED
    BY <1>1, <2>1, ParseBoth DEF Same
<1>3. CASE Become(p, Runs(p))
  <2>1. PICK r : Become(p, r) /\ r = Runs(p)
    BY <1>3
  <2>2. Kept(proc[p], r) /\ r.pc = "run"
    BY <1>1, <2>1, RunsIs
  <2> QED
    BY <1>1, <2>1, <2>2, ParseBoth DEF Kept
<1> QED
  BY <1>2, <1>3 DEF parse_end

\* parse_redirect.
LEMMA RedirectBoth ==
  ASSUME Inv, NEW p \in Pid, parse_redirect(p)
  PROVE  Both
<1>1. /\ proc[p].pc = "parse" /\ Shaped(proc[p]) /\ ~proc[p].cond /\ proc[p].from = NoProc
      /\ UNCHANGED <<session, typed, jobs>>
  BY Facts DEF parse_redirect, Parses, At, Parsing
<1>2. CASE Goto(p, "exit") /\ fs' = fs
  <2>1. PICK r : Become(p, r) /\ Same(proc[p], r) /\ r.pc = "exit"
    BY <1>1, <1>2, GotoIs
  <2> QED
    BY <1>1, <1>2, <2>1, ParseBoth DEF Same
<1>3. CASE fs' = {p} /\ Become(p, [Parsed(p) EXCEPT !.pc = "open", !.at = Stop(p) + 2])
  <2>1. PICK x, i, r : /\ Become(p, r) /\ x = Parsed(p) /\ i = Stop(p) + 2
                       /\ r = [Parsed(p) EXCEPT !.pc = "open", !.at = Stop(p) + 2]
    BY <1>3
  <2>2. Kept(proc[p], x)
    BY <1>1, <2>1, ParsedIs
  <2>3. r = [x EXCEPT !.pc = "open", !.at = i]
    BY <2>1
  <2>4. Kept(proc[p], r) /\ r.pc = "open"
    BY <2>2, <2>3 DEF Shaped, Kept
  <2> QED
    BY <1>1, <1>3, <2>1, <2>4, ParseBoth DEF Kept
<1> QED
  BY <1>2, <1>3 DEF parse_redirect

\* opened.
LEMMA OpenedBoth ==
  ASSUME Inv, NEW p \in Pid, opened(p)
  PROVE  Both
<1>1. /\ proc[p].pc = "open_got" /\ Shaped(proc[p]) /\ ~proc[p].cond
      /\ UNCHANGED <<session, typed, jobs>> /\ fs' = fs
  BY Facts DEF opened, At, Parsing
<1>2. CASE Goto(p, "exit")
  <2>1. PICK r : Become(p, r) /\ Same(proc[p], r) /\ r.pc = "exit"
    BY <1>1, <1>2, GotoIs
  <2> QED
    BY <1>1, <2>1, ParseBoth DEF Same
<1>3. CASE Become(p, [proc[p] EXCEPT !.pc = "parse", !.file = "open", !.from = NoProc])
  <2>1. PICK r : Become(p, r) /\ r = [proc[p] EXCEPT !.pc = "parse", !.file = "open", !.from = NoProc]
    BY <1>3
  <2>2. /\ Shaped(r) /\ r.pc = "parse" /\ r.file = "open" /\ r.from = NoProc /\ r.parent = proc[p].parent
        /\ r.line = proc[p].line /\ r.cond = proc[p].cond
    BY <1>1, <2>1 DEF Shaped
  <2> QED
    BY <1>1, <2>1, <2>2, ParseBoth
<1> QED
  BY <1>2, <1>3 DEF opened

\* left_done.
LEMMA LeftDoneBoth ==
  ASSUME Inv, NEW p \in Pid, left_done(p)
  PROVE  Both
<1>1. /\ proc[p].pc = "wait_left" /\ Shaped(proc[p]) /\ ~proc[p].cond /\ proc[p].from = NoProc
      /\ UNCHANGED <<session, typed, jobs>> /\ fs' = fs
  BY Facts DEF left_done, At, Parsing
<1>2. PICK r : Become(p, r) /\ r = [proc[p] EXCEPT !.pc = "parse", !.child = NoProc]
  BY DEF left_done
<1>3. /\ Shaped(r) /\ r.pc = "parse" /\ r.file = proc[p].file /\ r.from = NoProc /\ r.parent = proc[p].parent
      /\ r.line = proc[p].line /\ r.cond = proc[p].cond
  BY <1>1, <1>2 DEF Shaped
<1> QED
  BY <1>1, <1>2, <1>3, ParseBoth

\* A process that goes on without the words it had and without the result it got, or with
\* the words.
LEMMA FreshBoth ==
  ASSUME Inv, NEW p \in Pid, proc[p].pc \in {"and_got", "or_got"}, NEW c, c \in {"parse", "exit"},
         NEW i, NEW a, Become(p, [proc[p] EXCEPT !.pc = c, !.at = i, !.argv = a, !.from = NoProc]),
         UNCHANGED <<session, typed, jobs>>, fs' = fs
  PROVE  Both
<1>1. Shaped(proc[p]) /\ ~proc[p].cond
  BY Facts DEF Parsing
<1>2. PICK r : Become(p, r) /\ r = [proc[p] EXCEPT !.pc = c, !.at = i, !.argv = a, !.from = NoProc]
  OBVIOUS
<1>3. /\ Shaped(r) /\ r.pc = c /\ r.file = proc[p].file /\ r.from = NoProc /\ r.parent = proc[p].parent
      /\ r.line = proc[p].line /\ r.cond = proc[p].cond
  BY <1>1, <1>2 DEF Shaped
<1> QED
  BY <1>1, <1>2, <1>3, ParseBoth

\* and_result.
LEMMA AndBoth ==
  ASSUME Inv, NEW p \in Pid, and_result(p)
  PROVE  Both
<1>1. proc[p].pc = "and_got" /\ UNCHANGED <<session, typed, jobs>> /\ fs' = fs
  BY DEF and_result, At
<1>2. CASE \E c, i : c \in {"parse", "exit"} /\ Become(p, Fresh(p, c, i))
  <2>1. PICK c, i, a : c \in {"parse", "exit"} /\ Become(p, Fresh(p, c, i)) /\ a = <<>>
    BY <1>2
  <2>2. Become(p, [proc[p] EXCEPT !.pc = c, !.at = i, !.argv = a, !.from = NoProc])
    BY <2>1 DEF Fresh
  <2> QED
    BY <1>1, <2>1, <2>2, FreshBoth
<1>3. CASE Become(p, [proc[p] EXCEPT !.pc = "parse", !.at = proc[p].at + 1, !.from = NoProc])
  <2>1. PICK i, r : /\ Become(p, r) /\ i = proc[p].at + 1
                    /\ r = [proc[p] EXCEPT !.pc = "parse", !.at = proc[p].at + 1, !.from = NoProc]
    BY <1>3
  <2>2. r = [proc[p] EXCEPT !.pc = "parse", !.at = i, !.from = NoProc]
    BY <2>1
  <2>3. Shaped(proc[p]) /\ ~proc[p].cond
    BY <1>1, Facts DEF Parsing
  <2>4. /\ Shaped(r) /\ r.pc = "parse" /\ r.file = proc[p].file /\ r.from = NoProc /\ r.parent = proc[p].parent
        /\ r.line = proc[p].line /\ r.cond = proc[p].cond
    BY <2>2, <2>3 DEF Shaped
  <2> QED
    BY <1>1, <2>1, <2>3, <2>4, ParseBoth
<1> QED
  BY <1>2, <1>3 DEF and_result

\* or_result.
LEMMA OrBoth ==
  ASSUME Inv, NEW p \in Pid, or_result(p)
  PROVE  Both
<1>1. proc[p].pc = "or_got" /\ UNCHANGED <<session, typed, jobs>> /\ fs' = fs
  BY DEF or_result, At
<1>2. PICK c, i, a : c \in {"parse", "exit"} /\ Become(p, Fresh(p, c, i)) /\ a = <<>>
  BY DEF or_result
<1>3. Become(p, [proc[p] EXCEPT !.pc = c, !.at = i, !.argv = a, !.from = NoProc])
  BY <1>2 DEF Fresh
<1> QED
  BY <1>1, <1>2, <1>3, FreshBoth

\* A set of numbers that is not empty has a least one.
LEMMA LeastElement ==
  ASSUME NEW S, S \subseteq Nat, S # {}
  PROVE  \E x \in S : \A y \in S : x <= y
<1>1. IsWellFoundedOn(OpToRel(<, Nat), Nat)
  BY NatLessThanWellFounded
<1>2. PICK x \in S : \A y \in S : ~ (<<y, x>> \in OpToRel(<, Nat))
  BY <1>1, WFMin
<1>3. \A y \in S : ~(y < x)
  BY <1>2 DEF OpToRel
<1> QED
  BY <1>3

\* fork takes an env id that was never used.
LEMMA NewIs ==
  ASSUME Room
  PROVE  New \in Pid /\ proc[New].pc = "unborn"
<1> DEFINE S == {q \in Pid : proc[q].pc = "unborn"}
<1>1. S # {}
  BY DEF Room, At
<1>2. S \subseteq Nat
  BY MaxProcAssumption DEF Pid
<1>3. PICK q \in S : \A r \in S : q <= r
  BY <1>1, <1>2, LeastElement
<1>4. q \in Pid /\ At(q, "unborn") /\ \A r \in Pid : At(r, "unborn") => q <= r
  BY <1>3 DEF At
<1> QED
  BY <1>4 DEF New, At

\* The two steps of fork: p goes on as r, with K for proc then, and n starts as t, a copy
\* of s.
Forked(p, r, s, n, t, K, N) ==
  /\ n = New /\ proc[n].pc = "unborn" /\ n # p /\ Shaped(t)
  /\ t.pc = s.pc /\ t.parent = p /\ t.line = s.line /\ t.argv = s.argv /\ t.cond = s.cond
  /\ t.back = s.back /\ t.file = s.file /\ t.child = s.child /\ t.from = s.from
  /\ K = Put(proc, p, r) /\ N = Put(K, n, t) /\ N = proc'
LEMMA ForkIs ==
  ASSUME NEW p \in Pid, Shapes(proc), proc[p].pc # "unborn", NEW r, NEW s, Shaped(s), Fork(p, r, s)
  PROVE  \E n \in Pid : \E t, K, N : Forked(p, r, s, n, t, K, N)
<1>1. PICK n \in Pid : n = New /\ proc[n].pc = "unborn"
  BY NewIs DEF Fork
<1>2. PICK t, K, N : t = [s EXCEPT !.parent = p] /\ K = Put(proc, p, r) /\ N = Put(K, n, t)
  OBVIOUS
<1>3. N = proc'
  <2>1. proc' = [proc EXCEPT ![p] = r, ![n] = t]
    BY <1>1, <1>2 DEF Fork
  <2> QED
    BY <1>2, <2>1 DEF Put
<1>4. /\ Shaped(t)
      /\ t.pc = s.pc /\ t.parent = p /\ t.line = s.line /\ t.argv = s.argv /\ t.cond = s.cond
      /\ t.back = s.back /\ t.file = s.file /\ t.child = s.child /\ t.from = s.from
  BY <1>2 DEF Shaped
<1>5. n # p
  BY <1>1
<1> QED
  BY <1>1, <1>2, <1>3, <1>4, <1>5 DEF Forked

\* A fork in the middle of parsing: both go on, the child perhaps with a result to send.
LEMMA ForkBoth ==
  ASSUME Inv, NEW p \in Pid, NEW r, NEW s, Fork(p, r, s), Shaped(r), Shaped(s), proc[p].pc = "parse", ~r.cond,
         r.pc \in {"parse", "wait_left", "and", "or", "run"}, r.parent = proc[p].parent,
         r.line = proc[p].line, r.file = proc[p].file, r.from = NoProc,
         s.pc \in {"parse", "run"}, s.from = NoProc, s.line = proc[p].line,
         s.cond => s.pc = "run" /\ r.pc \in {"and", "or"},
         UNCHANGED <<session, typed, fs, jobs>>
  PROVE  Both
<1>0. Shapes(proc) /\ ~proc[p].cond /\ p # Main
  BY Facts DEF Inv, Good, Parsing
<1>n. PICK n \in Pid : \E t, K, N : Forked(p, r, s, n, t, K, N)
  BY <1>0, ForkIs
<1>t. PICK t, K, N : Forked(p, r, s, n, t, K, N)
  BY <1>n
<1>1. /\ proc[n].pc = "unborn" /\ n # p /\ Shaped(t)
      /\ t.pc = s.pc /\ t.parent = p /\ t.line = s.line /\ t.cond = s.cond /\ t.from = s.from
      /\ K = Put(proc, p, r) /\ N = Put(K, n, t) /\ N = proc'
  BY <1>t DEF Forked
<1>2. Moves(proc[p], r, typed) /\ Quiet(proc, typed, p, proc[p], r)
  <2>1. PICK x, P, T : x = proc[p] /\ P = proc /\ T = typed
    OBVIOUS
  <2>2. Moves(x, r, T) /\ Quiet(P, T, p, x, r)
    BY <1>0, <2>1, ParseStep
  <2> QED
    BY <2>1, <2>2
<1>3. PICK P, T, F : P = proc /\ T = typed /\ F = fs
  OBVIOUS
<1>4. Good(P, T, F) /\ Moves(P[p], r, T) /\ K = Put(P, p, r)
  BY <1>1, <1>2, <1>3 DEF Inv
<1>5. Good(K, T, F)
  BY <1>0, <1>4, OwnGood
<1>6. K[p] = r /\ \A q \in Pid : q # p => K[q] = P[q]
  BY <1>0, <1>3, <1>4, OneChanged
<1>7. Fresh0(K, T, t)
  <2>1. t.line \in 1 .. Len(T)
    BY <1>0, <1>1, <1>3 DEF Inv, Good, Lines
  <2>2. \A q \in Pid : Asked(K[q]) => K[q].parent # p \/ r.pc = "run" \/ r.pc \notin {"and", "or"}
    <3>1. \A q \in Pid : Asked(P[q]) => P[q].parent # p
      BY <1>3 DEF Inv, Good, Askers
    <3> QED
      BY <3>1, <1>6 DEF Asked, Hosting
  <2> QED
    BY <2>1, <2>2, <1>1, <1>6 DEF Fresh0
<1>8. Good(N, T, F)
  <2>1. K[n].pc = "unborn" /\ N = Put(K, n, t)
    BY <1>1, <1>3, <1>6
  <2> QED
    BY <2>1, <1>5, <1>7, BirthGood
<1>9. ASSUME JobsInv PROVE JobsInv'
  <2>1. Table(K, typed, jobs)
    BY <1>0, <1>1, <1>2, <1>9, QuietTable DEF JobsInv, Inv, Good
  <2>2. Quiet(K, typed, n, K[n], t)
    BY <1>1, <1>3, <1>6 DEF Quiet
  <2>3. Shapes(K) /\ Guests(K)
    BY <1>5 DEF Good
  <2>4. Table(N, typed, jobs)
    BY <1>1, <2>1, <2>2, <2>3, QuietTable
  <2> QED
    BY <1>1, <2>4 DEF JobsInv
<1>10. Known(N, jobs)
  <2>1. Known(K, jobs)
    BY <1>0, <1>1, <1>2, KnownPut DEF Inv, Moves
  <2>2. t.pc # "unborn" /\ Shapes(K) /\ N = Put(K, n, t)
    BY <1>1, <1>5 DEF Good
  <2> QED
    BY <2>1, <2>2, KnownPut
<1> QED
  BY <1>1, <1>3, <1>8, <1>9, <1>10 DEF Both, Inv

\* parse_pipe.
LEMMA PipeBoth ==
  ASSUME Inv, NEW p \in Pid, parse_pipe(p)
  PROVE  Both
<1>1. /\ proc[p].pc = "parse" /\ Shaped(proc[p]) /\ ~proc[p].cond /\ proc[p].from = NoProc
      /\ UNCHANGED <<session, typed, fs, jobs>>
  BY Facts DEF parse_pipe, Parses, At, Parsing
<1>2. PICK x, y, n : x = Runs(p) /\ y = Goes(p) /\ n = New
  OBVIOUS
<1>3. PICK r, s : r = [x EXCEPT !.right = n] /\ s = [y EXCEPT !.right = NoProc] /\ Fork(p, r, s)
  BY <1>2 DEF parse_pipe
<1>4. Kept(proc[p], x) /\ x.pc = "run" /\ Kept(proc[p], y) /\ y.pc = "parse"
  BY <1>1, <1>2, RunsIs, GoesIs
<1>5. Kept(proc[p], r) /\ r.pc = "run" /\ Kept(proc[p], s) /\ s.pc = "parse"
  BY <1>3, <1>4 DEF Kept, Shaped
<1> QED
  BY <1>1, <1>3, <1>5, ForkBoth DEF Kept

\* parse_sequence.
LEMMA SequenceBoth ==
  ASSUME Inv, NEW p \in Pid, parse_sequence(p)
  PROVE  Both
<1>1. /\ proc[p].pc = "parse" /\ Shaped(proc[p]) /\ ~proc[p].cond /\ proc[p].from = NoProc
      /\ UNCHANGED <<session, typed, fs, jobs>>
  BY Facts DEF parse_sequence, Parses, At, Parsing
<1>2. PICK x, s, n : s = Runs(p) /\ x = Goes(p) /\ n = New
  OBVIOUS
<1>3. PICK r : r = [x EXCEPT !.pc = "wait_left", !.child = n] /\ Fork(p, r, s)
  BY <1>2 DEF parse_sequence
<1>4. Kept(proc[p], s) /\ s.pc = "run" /\ Kept(proc[p], x)
  BY <1>1, <1>2, RunsIs, GoesIs
<1>5. /\ Shaped(r) /\ r.pc = "wait_left" /\ r.parent = proc[p].parent /\ r.line = proc[p].line
      /\ r.cond = proc[p].cond /\ r.file = proc[p].file /\ r.from = proc[p].from
  BY <1>3, <1>4 DEF Kept, Shaped
<1> QED
  BY <1>1, <1>3, <1>4, <1>5, ForkBoth DEF Kept

\* parse_condition.
LEMMA ConditionBoth ==
  ASSUME Inv, NEW p \in Pid, parse_condition(p)
  PROVE  Both
<1>1. /\ proc[p].pc = "parse" /\ Shaped(proc[p]) /\ ~proc[p].cond /\ proc[p].from = NoProc
      /\ UNCHANGED <<session, typed, fs, jobs>>
  BY Facts DEF parse_condition, Parses, At, Parsing
<1>2. PICK x, y, c : x = Parsed(p) /\ y = Runs(p) /\ c = IF Symbol(p) = "&&" THEN "and" ELSE "or"
  OBVIOUS
<1>3. c \in {"and", "or"}
  BY <1>2
<1>4. PICK r, s : r = [x EXCEPT !.pc = c] /\ s = [y EXCEPT !.cond = TRUE] /\ Fork(p, r, s)
  BY <1>2 DEF parse_condition
<1>5. Kept(proc[p], x) /\ Kept(proc[p], y) /\ y.pc = "run"
  BY <1>1, <1>2, RunsIs, ParsedIs
<1>6. Kept(proc[p], r) /\ r.pc = c
  BY <1>4, <1>5 DEF Kept, Shaped
<1>7. /\ Shaped(s) /\ s.pc = "run" /\ s.parent = proc[p].parent /\ s.line = proc[p].line
      /\ s.file = proc[p].file /\ s.from = proc[p].from
  BY <1>4, <1>5 DEF Kept, Shaped
<1> QED
  BY <1>1, <1>3, <1>4, <1>6, <1>7, ForkBoth DEF Kept

\* parse_background.
LEMMA BackgroundBoth ==
  ASSUME Inv, NEW p \in Pid, parse_background(p)
  PROVE  Both
<1>1. /\ proc[p].pc = "parse" /\ Shaped(proc[p]) /\ ~proc[p].cond /\ proc[p].from = NoProc
      /\ UNCHANGED <<session, typed, fs, jobs>>
  BY Facts DEF parse_background, Parses, At, Parsing
<1>2. PICK x, r : x = Runs(p) /\ r = Goes(p)
  OBVIOUS
<1>3. PICK s : s = [x EXCEPT !.back = TRUE] /\ Fork(p, r, s)
  BY <1>2 DEF parse_background
<1>4. Kept(proc[p], x) /\ x.pc = "run" /\ Kept(proc[p], r) /\ r.pc = "parse"
  BY <1>1, <1>2, RunsIs, GoesIs
<1>5. /\ Shaped(s) /\ s.pc = "run" /\ s.parent = proc[p].parent /\ s.line = proc[p].line
      /\ s.cond = proc[p].cond /\ s.file = proc[p].file /\ s.from = proc[p].from
  BY <1>3, <1>4 DEF Kept, Shaped
<1> QED
  BY <1>1, <1>3, <1>4, <1>5, ForkBoth DEF Kept

\* A step to another place, or of a process that is running a command, for both invariants.
LEMMA PlainBoth ==
  ASSUME Inv, NEW p \in Pid, NEW r, Become(p, r), Moves(proc[p], r, typed),
         Quiet(proc, typed, p, proc[p], r), p # Main \/ r.pc = "prompt",
         UNCHANGED <<session, typed, jobs>>,
         fs' = fs \/ (fs' = {p} /\ r.pc \in Hosting \union Ending /\ r.file # "none")
  PROVE  Both
  BY OwnStep, QuietStep DEF Both

\* wait.
LEMMA WaitBoth ==
  ASSUME Inv, NEW p \in Pid, wait(p)
  PROVE  Both
<1>1. proc[p].pc = "wait" /\ Shaped(proc[p]) /\ UNCHANGED <<session, typed, jobs>> /\ fs' = fs
  BY Facts DEF wait, At
<1>2. PICK r : Become(p, r) /\ Same(proc[p], r) /\ r.pc = "prompt"
  BY <1>1, GotoIs DEF wait
<1>3. Moves(proc[p], r, typed)
  BY <1>1, <1>2 DEF Moves, Same, PC, Parsing, Hosting, Ending, Closing, Asked
<1>4. Quiet(proc, typed, p, proc[p], r)
  BY <1>1, <1>2 DEF Quiet
<1> QED
  BY <1>1, <1>2, <1>3, <1>4, PlainBoth

\* main_returns.
LEMMA ReturnsBoth ==
  ASSUME Inv, NEW p \in Pid, main_returns(p)
  PROVE  Both
<1>1. /\ proc[p].pc = "main" /\ Shaped(proc[p]) /\ proc[p].file = "none" /\ p # Main
      /\ UNCHANGED <<session, typed, jobs>> /\ fs' = fs
  BY Facts DEF main_returns, At
<1>2. PICK v, r : v = Status(WordOf(p)) /\ Become(p, r) /\ r = [proc[p] EXCEPT !.pc = "send", !.val = v]
  BY DEF main_returns
<1>3. /\ Shaped(r) /\ r.pc = "send" /\ r.val = v /\ r.parent = proc[p].parent /\ r.line = proc[p].line
      /\ r.argv = proc[p].argv /\ r.cond = proc[p].cond /\ r.file = proc[p].file /\ r.child = proc[p].child
      /\ r.from = proc[p].from
  BY <1>1, <1>2 DEF Shaped
<1>4. v = Status(Word(typed, proc[p]))
  BY <1>2 DEF Word, WordOf, Tokens
<1>5. Moves(proc[p], r, typed)
  BY <1>1, <1>3, <1>4 DEF Moves, PC, Parsing, Hosting, Ending, Closing, Asked
<1>6. Quiet(proc, typed, p, proc[p], r)
  BY <1>1, <1>3 DEF Quiet, Goes0
<1> QED
  BY <1>1, <1>2, <1>5, <1>6, PlainBoth

\* main_exits: here the program of a job may end before its job is added.
LEMMA ExitsBoth ==
  ASSUME Inv, NEW p \in Pid, main_exits(p)
  PROVE  Both
<1>1. /\ proc[p].pc = "main" /\ Shaped(proc[p]) /\ proc[p].file = "none" /\ p # Main
      /\ UNCHANGED <<session, typed, jobs>> /\ fs' = fs
  BY Facts DEF main_exits, At
<1>2. PICK r : Become(p, r) /\ Same(proc[p], r) /\ r.pc = "exit"
  BY <1>1, GotoIs DEF main_exits
<1>3. Moves(proc[p], r, typed)
  BY <1>1, <1>2 DEF Moves, Same, PC, Parsing, Hosting, Ending, Closing, Asked
<1>4. Leaves(typed, proc[p])
  BY <1>1 DEF Leaves, Word, main_exits, WordOf, Tokens, Returning
<1>5. Quiet(proc, typed, p, proc[p], r)
  BY <1>1, <1>2, <1>4 DEF Quiet, Same, Goes0
<1> QED
  BY <1>1, <1>2, <1>3, <1>5, PlainBoth

\* The shell goes on without a child: no program was started.
LEMMA FailedIs ==
  ASSUME NEW p, Shaped(proc[p]), NEW r, r = Failed(p)
  PROVE  /\ Shaped(r) /\ r.pc = "spawned" /\ r.child = NoProc /\ r.parent = proc[p].parent
         /\ r.line = proc[p].line /\ r.argv = proc[p].argv /\ r.cond = proc[p].cond /\ r.file = proc[p].file
         /\ r.from = proc[p].from
  BY DEF Failed, Shaped

\* It is a step of its own, and no business of the table.
LEMMA FailedMoves ==
  ASSUME NEW p, proc[p].pc = "run", NEW P, NEW T, NEW r,
         Shaped(r) /\ r.pc \in {"spawned", "close_all"} /\ r.child = NoProc /\ r.parent = proc[p].parent
         /\ r.line = proc[p].line /\ r.argv = proc[p].argv /\ r.cond = proc[p].cond /\ r.file = proc[p].file
         /\ r.from = proc[p].from
  PROVE  Moves(proc[p], r, T) /\ Quiet(P, T, p, proc[p], r)
<1>1. PICK x : x = proc[p]
  OBVIOUS
<1>2. Moves(x, r, T)
  BY <1>1 DEF Moves, PC, Parsing, Hosting, Ending, Closing, Asked
<1>3. Quiet(P, T, p, x, r)
  BY <1>1 DEF Quiet
<1> QED
  BY <1>1, <1>2, <1>3

\* run_none, run_fg, and run_kill when there is nothing to kill.
LEMMA FailedBoth ==
  ASSUME Inv, NEW p \in Pid, proc[p].pc = "run", Become(p, Failed(p)), UNCHANGED <<session, typed, fs, jobs>>
  PROVE  Both
<1>1. Shaped(proc[p]) /\ p # Main
  BY Facts
<1>2. PICK r : Become(p, r) /\ r = Failed(p)
  OBVIOUS
<1>3. /\ Shaped(r) /\ r.pc = "spawned" /\ r.child = NoProc /\ r.parent = proc[p].parent
      /\ r.line = proc[p].line /\ r.argv = proc[p].argv /\ r.cond = proc[p].cond /\ r.file = proc[p].file
      /\ r.from = proc[p].from
  BY <1>1, <1>2, FailedIs
<1>4. Moves(proc[p], r, typed) /\ Quiet(proc, typed, p, proc[p], r)
  BY <1>3, FailedMoves
<1> QED
  BY <1>1, <1>2, <1>4, PlainBoth

\* run_jobs.
LEMMA JobsBoth ==
  ASSUME Inv, NEW p \in Pid, run_jobs(p)
  PROVE  Both
<1>1. /\ proc[p].pc = "run" /\ Shaped(proc[p]) /\ p # Main
      /\ UNCHANGED <<session, typed, jobs>> /\ fs' = fs
  BY Facts DEF run_jobs, At
<1>2. PICK x, r : x = Failed(p) /\ Become(p, r) /\ r = [x EXCEPT !.pc = "close_all"]
  BY DEF run_jobs
<1>3. /\ Shaped(x) /\ x.child = NoProc /\ x.parent = proc[p].parent
      /\ x.line = proc[p].line /\ x.argv = proc[p].argv /\ x.cond = proc[p].cond /\ x.file = proc[p].file
      /\ x.from = proc[p].from
  BY <1>1, <1>2, FailedIs
<1>4. /\ Shaped(r) /\ r.pc = "close_all" /\ r.child = NoProc /\ r.parent = proc[p].parent
      /\ r.line = proc[p].line /\ r.argv = proc[p].argv /\ r.cond = proc[p].cond /\ r.file = proc[p].file
      /\ r.from = proc[p].from
  BY <1>2, <1>3 DEF Shaped
<1>5. Moves(proc[p], r, typed) /\ Quiet(proc, typed, p, proc[p], r)
  BY <1>1, <1>4, FailedMoves
<1> QED
  BY <1>1, <1>2, <1>5, PlainBoth

\* close_all, closed and wait_right: a shell moves on without anything new.
LEMMA CloseAllBoth ==
  ASSUME Inv, NEW p \in Pid, close_all(p)
  PROVE  Both
<1>1. /\ proc[p].pc = "close_all" /\ Shaped(proc[p]) /\ p # Main
      /\ UNCHANGED <<session, typed, jobs>> /\ fs' = fs
  BY Facts DEF close_all, At, Hosting
<1>2. PICK c : c = AfterClose(p)
  OBVIOUS
<1>3. c = "tail" \/ c = "recv"
  BY <1>2 DEF AfterClose
<1>4. c = "tail" => proc[p].child = NoProc
  BY <1>2 DEF AfterClose
<1>5. PICK r : Become(p, r) /\ Same(proc[p], r) /\ r.pc = c
  BY <1>1, <1>2, GotoIs DEF close_all
<1>6. Moves(proc[p], r, typed)
  BY <1>1, <1>3, <1>4, <1>5 DEF Moves, Same, PC, Parsing, Hosting, Ending, Closing, Asked
<1>7. Quiet(proc, typed, p, proc[p], r)
  BY <1>1, <1>3, <1>5 DEF Quiet
<1> QED
  BY <1>1, <1>5, <1>6, <1>7, PlainBoth

\* closed.
LEMMA ClosedBoth ==
  ASSUME Inv, NEW p \in Pid, closed(p)
  PROVE  Both
<1>1. /\ Shaped(proc[p]) /\ UNCHANGED <<session, typed, jobs>> /\ fs' = fs
  BY Facts DEF closed, At
<1>2. PICK c : /\ Goto(p, c) /\ \/ proc[p].pc = "close_got" /\ c \in {"tail", "recv"}
                                \/ proc[p].pc = "last_got" /\ c = "exit"
  BY DEF closed, At, AfterClose
<1>3. PICK r : Become(p, r) /\ Same(proc[p], r) /\ r.pc = c
  BY <1>1, <1>2, GotoIs
<1>4. p # Main /\ proc[p].file # "none"
  BY <1>2, Facts DEF Hosting, Ending, Closing
<1>5. Moves(proc[p], r, typed)
  BY <1>2, <1>3, <1>4 DEF Moves, Same, PC, Parsing, Hosting, Ending, Closing, Asked
<1>6. Quiet(proc, typed, p, proc[p], r)
  BY <1>2, <1>3 DEF Quiet
<1> QED
  BY <1>1, <1>3, <1>4, <1>5, <1>6, PlainBoth

\* wait_right.
LEMMA WaitRightBoth ==
  ASSUME Inv, NEW p \in Pid, wait_right(p)
  PROVE  Both
<1>1. /\ proc[p].pc = "tail" /\ Shaped(proc[p]) /\ p # Main
      /\ UNCHANGED <<session, typed, jobs>> /\ fs' = fs
  BY Facts DEF wait_right, At, Ending
<1>2. PICK r : Become(p, r) /\ Same(proc[p], r) /\ r.pc = "exit"
  BY <1>1, GotoIs DEF wait_right
<1>3. Moves(proc[p], r, typed)
  BY <1>1, <1>2 DEF Moves, Same, PC, Parsing, Hosting, Ending, Closing, Asked
<1>4. Quiet(proc, typed, p, proc[p], r)
  BY <1>1, <1>2 DEF Quiet
<1> QED
  BY <1>1, <1>2, <1>3, <1>4, PlainBoth

\* close_file.
LEMMA CloseFileBoth ==
  ASSUME Inv, NEW p \in Pid, close_file(p)
  PROVE  Both
<1>1. /\ proc[p].pc \in {"close_all", "exit"} /\ proc[p].file = "open" /\ Shaped(proc[p]) /\ p # Main
      /\ UNCHANGED <<session, typed, jobs>> /\ fs' = {p}
  BY Facts DEF close_file, At, Hosting, Ending
<1>2. PICK c : c = IF proc[p].pc = "exit" THEN "last_close" ELSE "close"
  OBVIOUS
<1>3. PICK r : Become(p, r) /\ r = [proc[p] EXCEPT !.pc = c, !.file = "closed"]
  BY <1>1, <1>2 DEF close_file, Shaped
<1>4. /\ Shaped(r) /\ r.pc = c /\ r.file = "closed" /\ r.parent = proc[p].parent /\ r.line = proc[p].line
      /\ r.argv = proc[p].argv /\ r.cond = proc[p].cond /\ r.child = proc[p].child
      /\ r.from = proc[p].from
  BY <1>1, <1>3 DEF Shaped
<1>5. Moves(proc[p], r, typed)
  BY <1>1, <1>2, <1>4 DEF Moves, PC, Parsing, Hosting, Ending, Closing, Asked
<1>6. Quiet(proc, typed, p, proc[p], r)
  BY <1>1, <1>2, <1>4 DEF Quiet
<1>7. r.pc \in Hosting \union Ending /\ r.file # "none"
  BY <1>2, <1>4 DEF Hosting, Ending
<1> QED
  BY <1>1, <1>3, <1>5, <1>6, <1>7, PlainBoth

\* What ipc_recv does to the receiver.
LEMMA ReceivesIs ==
  ASSUME NEW q, Shaped(proc[q]), proc[q].pc \in Receiving, NEW v, NEW f, NEW r, r = Receives(q, v, f)
  PROVE  Takes(proc[q], r, v, f)
<1>1. PICK c : c = Got[proc[q].pc]
  OBVIOUS
<1>2. c \in PC
  BY <1>1, GotIs DEF PC, Parsing, Hosting, Ending
<1>3. r = [proc[q] EXCEPT !.pc = c, !.val = v, !.from = f]
  BY <1>1 DEF Receives, Shaped
<1>4. /\ Shaped(r) /\ r.pc = c /\ r.val = v /\ r.from = f /\ r.parent = proc[q].parent
      /\ r.line = proc[q].line /\ r.argv = proc[q].argv /\ r.cond = proc[q].cond
      /\ r.file = proc[q].file /\ r.child = proc[q].child
  BY <1>3 DEF Shaped
<1> QED
  BY <1>1, <1>2, <1>4 DEF Takes

\* A process that receives neither starts nor ends.
LEMMA TakesQuiet ==
  ASSUME NEW P, NEW T, NEW q, NEW x, NEW r, NEW v, NEW f, Takes(x, r, v, f)
  PROVE  Quiet(P, T, q, x, r) /\ r.pc # "unborn"
<1>1. r.pc \in {"open_got", "and_got", "or_got", "close_got", "recv_got", "last_got"}
  BY TakesWhere
<1>2. x.pc \in {"open", "and", "or", "close", "recv", "last_close"}
  BY GotIs DEF Takes
<1> QED
  BY <1>1, <1>2 DEF Quiet

\* fs_reply.
LEMMA ReplyBoth ==
  ASSUME Inv, NEW p \in Pid, fs_reply(p)
  PROVE  Both
<1>1. PICK N, P, T, F, J : N = proc' /\ P = proc /\ T = typed /\ F = fs /\ J = jobs
  OBVIOUS
<1>2. Good(P, T, F) /\ Shapes(P) /\ Known(P, J)
  BY <1>1 DEF Inv, Good
<1>3. PICK r : r = Receives(p, 0, FileServer)
  OBVIOUS
<1>4. Takes(P[p], r, 0, FileServer)
  BY <1>1, <1>2, <1>3, ReceivesIs DEF fs_reply, Shapes
<1>5. N = Put(P, p, r) /\ p \in F /\ fs' = {} /\ typed' = T /\ jobs' = J /\ session' = session
  BY <1>1, <1>3 DEF fs_reply, Become, Put
<1>6. Good(N, T, {})
  BY <1>2, <1>4, <1>5, AnswerGood
<1>7. Quiet(P, T, p, P[p], r) /\ r.pc # "unborn"
  <2>1. PICK v, f : Takes(P[p], r, v, f)
    BY <1>4
  <2> QED
    BY <2>1, TakesQuiet
<1>8. Known(N, J)
  BY <1>2, <1>5, <1>7, KnownPut
<1>9. Table(P, T, J) => Table(N, T, J)
  BY <1>2, <1>5, <1>7, QuietTable DEF Good
<1> QED
  BY <1>1, <1>5, <1>6, <1>8, <1>9 DEF Both, Inv, JobsInv

\* A result sent to the parent, by a program or by a shell.
LEMMA SendBoth ==
  ASSUME Inv, NEW p \in Pid, NEW c, Send(p, proc[p].val, c),
         (proc[p].pc = "send" /\ c = "exit") \/ (proc[p].pc = "recv_got" /\ proc[p].cond /\ c = "tail"),
         UNCHANGED <<session, typed, fs, jobs>>
  PROVE  Both
<1>1. PICK N, P, T, F, J, q, v : /\ N = proc' /\ P = proc /\ T = typed /\ F = fs /\ J = jobs
                                 /\ q = proc[p].parent /\ v = proc[p].val
  OBVIOUS
<1>2. Good(P, T, F) /\ Shapes(P) /\ Known(P, J)
  BY <1>1 DEF Inv, Good
<1>3. q \in Pid
  <2>1. CASE proc[p].pc = "send"
    BY <1>1, <2>1 DEF Inv, Good, Hosts
  <2>2. CASE proc[p].pc = "recv_got" /\ proc[p].cond
    BY <1>1, <2>2 DEF Inv, Good, Askers, Asked, Hosting
  <2> QED
    BY <2>1, <2>2
<1>4. P[q].pc \in Receiving
  BY <1>1 DEF Send
<1>5. p # q
  BY <1>1, <1>4, GotIs
<1>6. PICK r : r = Receives(q, v, p)
  OBVIOUS
<1>7. PICK y : y = [proc[p] EXCEPT !.pc = c]
  OBVIOUS
<1>8. PICK K : K = Put(P, p, y)
  OBVIOUS
<1>9. N = Put(K, q, r)
  <2>1. proc' = [proc EXCEPT ![q] = r, ![p].pc = c]
    BY <1>1, <1>6 DEF Send
  <2>2. [proc EXCEPT ![q] = r][p] = proc[p] /\ DOMAIN proc = Pid
    BY <1>1, <1>2, <1>5 DEF Shapes, IsTable
  <2>3. proc' = [proc EXCEPT ![q] = r, ![p] = y]
    BY <2>1, <2>2, <1>7
  <2> QED
    BY <2>2, <2>3, <1>1, <1>3, <1>5, <1>8 DEF Put
<1>10. Same(P[p], y) /\ y.pc = c
  <2>1. Shaped(proc[p])
    BY Facts
  <2>2. Same(proc[p], y) /\ y.pc = c
    BY <2>1, <1>7 DEF Same, Shaped
  <2> QED
    BY <2>2, <1>1
<1>11. Takes(P[q], r, v, p)
  BY <1>1, <1>2, <1>3, <1>4, <1>6, ReceivesIs DEF Shapes
<1>12. Moves(P[p], y, T) /\ y.pc \in Ending
  <2>1. P[p].pc = "send" => P[p].file = "none"
    BY <1>1, Facts
  <2> QED
    BY <1>1, <1>10, <2>1 DEF Moves, Same, PC, Parsing, Hosting, Ending, Closing, Asked
<1>13. Good(N, T, F)
  BY <1>1, <1>2, <1>8, <1>9, <1>10, <1>11, <1>12, SendGood DEF Same
<1>14. K[q] = P[q] /\ Shapes(K)
  <2>1. K[p] = y /\ (\A s \in Pid : s # p => K[s] = P[s]) /\ IsTable(K)
    BY <1>2, <1>8, OneChanged
  <2>2. p # Main
    BY Facts DEF Hosting
  <2> QED
    BY <2>1, <2>2, <1>2, <1>3, <1>5, <1>12, Pids DEF Shapes, Moves
<1>15. Quiet(K, T, q, K[q], r) /\ r.pc # "unborn"
  <2>1. Takes(K[q], r, v, p)
    BY <1>11, <1>14
  <2> QED
    BY <2>1, TakesQuiet
<1>16. y.pc # "unborn" /\ Quiet(P, T, p, P[p], y)
  <2>1. ASSUME NEW a \in Pid, P[a].pc = "spawned", P[a].child = p PROVE FALSE
    <3>1. P[p].parent = a
      BY <2>1, <1>2, Pids DEF Good, Guests, Hosting
    <3> QED
      BY <2>1, <3>1, <1>1, <1>4, GotIs
  <2>2. P[p].pc = "send" => P[p].file = "none"
    BY <1>1, Facts
  <2> QED
    BY <2>1, <2>2, <1>1, <1>10 DEF Quiet, Same, Goes0
<1>17. Known(N, J)
  <2>1. Known(K, J)
    BY <1>2, <1>8, <1>16, KnownPut
  <2> QED
    BY <2>1, <1>3, <1>9, <1>14, <1>15, KnownPut
<1>18. ASSUME Table(P, T, J) PROVE Table(N, T, J)
  <2>1. Table(K, T, J)
    BY <1>2, <1>8, <1>16, <1>18, QuietTable DEF Good
  <2>2. Guests(K)
    <3>1. p = Main => y.pc \in {"prompt", "wait", "dead"}
      BY Facts DEF Hosting
    <3>2. Good(K, T, F)
      BY <3>1, <1>2, <1>8, <1>12, OwnGood
    <3> QED
      BY <3>2 DEF Good
  <2> QED
    BY <2>1, <2>2, <1>3, <1>9, <1>14, <1>15, QuietTable
<1> QED
  BY <1>1, <1>13, <1>17, <1>18 DEF Both, Inv, JobsInv

\* forward.
LEMMA ForwardBoth ==
  ASSUME Inv, NEW p \in Pid, forward(p)
  PROVE  Both
<1>1. /\ proc[p].pc = "recv_got" /\ Shaped(proc[p]) /\ p # Main
      /\ UNCHANGED <<session, typed, fs, jobs>>
  BY Facts DEF forward, At, Hosting
<1>2. CASE proc[p].cond
  <2>1. Send(p, proc[p].val, "tail")
    BY <1>2 DEF forward
  <2> QED
    BY <1>1, <1>2, <2>1, SendBoth
<1>3. CASE ~proc[p].cond
  <2>1. PICK r : Become(p, r) /\ Same(proc[p], r) /\ r.pc = "tail"
    BY <1>1, <1>3, GotoIs DEF forward
  <2>2. Moves(proc[p], r, typed)
    BY <1>1, <2>1 DEF Moves, Same, PC, Parsing, Hosting, Ending, Closing, Asked
  <2>3. Quiet(proc, typed, p, proc[p], r)
    BY <1>1, <2>1 DEF Quiet
  <2> QED
    BY <1>1, <2>1, <2>2, <2>3, PlainBoth
<1> QED
  BY <1>2, <1>3

\* send_result.
LEMMA ResultBoth ==
  ASSUME Inv, NEW p \in Pid, send_result(p)
  PROVE  Both
<1>1. proc[p].pc = "send" /\ Send(p, proc[p].val, "exit") /\ UNCHANGED <<session, typed, fs, jobs>>
  BY DEF send_result, At
<1> QED
  BY <1>1, SendBoth

\* exit: the jobs of p are done.
LEMMA ExitBoth ==
  ASSUME Inv, NEW p \in Pid, exit(p)
  PROVE  Both
<1>1. /\ proc[p].pc = "exit" /\ Shaped(proc[p]) /\ p # Main
      /\ UNCHANGED <<session, typed, fs>>
  BY Facts DEF exit, At, Ending
<1>2. PICK r : Become(p, r) /\ Same(proc[p], r) /\ r.pc = "dead"
  BY <1>1, GotoIs DEF exit
<1>3. PICK N, P, T, F, J, K : /\ N = proc' /\ P = proc /\ T = typed /\ F = fs /\ J = jobs
                              /\ K = Done(J, p)
  OBVIOUS
<1>4. Good(P, T, F) /\ Shapes(P) /\ Known(P, J) /\ N = Put(P, p, r) /\ jobs' = K
  BY <1>2, <1>3 DEF Inv, Good, Become, Put, exit
<1>5. Moves(P[p], r, T)
  BY <1>1, <1>2, <1>3 DEF Moves, Same, PC, Parsing, Hosting, Ending, Closing, Asked
<1>6. Good(N, T, F)
  BY <1>1, <1>4, <1>5, OwnGood
<1>7. Closed(K, J, p)
  <2>1. J \in Seq(JobType)
    BY <1>4 DEF Known
  <2>2. DOMAIN K = DOMAIN J /\ \A i \in DOMAIN J :
          K[i] = IF J[i].env = p THEN [J[i] EXCEPT !.done = TRUE] ELSE J[i]
    BY <1>3 DEF Done
  <2>3. ASSUME NEW i \in DOMAIN J
        PROVE  K[i] \in JobType /\ K[i].env = J[i].env /\ (K[i].done <=> (J[i].done \/ J[i].env = p))
    <3>1. J[i] \in JobType
      BY <2>1
    <3>2. CASE J[i].env = p
      BY <3>1, <3>2, <2>2 DEF JobType
    <3>3. CASE J[i].env # p
      BY <3>1, <3>3, <2>2 DEF JobType
    <3> QED
      BY <3>2, <3>3
  <2>4. K \in Seq(JobType)
    <3>1. K = [i \in 1 .. Len(J) |-> K[i]] /\ Len(J) \in Nat /\ DOMAIN J = 1 .. Len(J)
      BY <2>1, <1>3 DEF Done
    <3>2. \A i \in 1 .. Len(J) : K[i] \in JobType
      BY <3>1, <2>3
    <3> QED
      BY <3>1, <3>2
  <2> QED
    BY <2>2, <2>3, <2>4 DEF Closed
<1>8. Known(N, K)
  <2>1. Known(N, J)
    BY <1>2, <1>4, KnownPut
  <2> QED
    BY <2>1, <1>7 DEF Known, Closed
<1>9. ASSUME Table(P, T, J) PROVE Table(N, T, K)
  <2>1. Leaves(T, P[p]) \/ \A a \in Pid : P[a].pc = "spawned" /\ P[a].back => P[a].child # p
    BY <1>1, <1>3, <1>9, Pids DEF Table, Awaits
  <2>2. Goes0(P[p], r) /\ r.file = P[p].file
    BY <1>2, <1>3 DEF Same, Goes0
  <2> QED
    BY <2>1, <2>2, <1>2, <1>3, <1>4, <1>7, <1>9, EndTable
<1> QED
  BY <1>1, <1>3, <1>4, <1>6, <1>8, <1>9 DEF Both, Inv, JobsInv

\* add_job.
LEMMA AddBoth ==
  ASSUME Inv, NEW p \in Pid, add_job(p)
  PROVE  Both
<1>1. /\ proc[p].pc = "spawned" /\ Shaped(proc[p]) /\ p # Main
      /\ UNCHANGED <<session, typed, fs>>
  BY Facts DEF add_job, At, Hosting
<1>2. PICK r : Become(p, r) /\ Same(proc[p], r) /\ r.pc = "close_all"
  BY <1>1, GotoIs DEF add_job
<1>3. Moves(proc[p], r, typed)
  BY <1>1, <1>2 DEF Moves, Same, PC, Parsing, Hosting, Ending, Closing, Asked
<1>4. CASE ~proc[p].back
  <2>1. Quiet(proc, typed, p, proc[p], r)
    BY <1>1, <1>2 DEF Quiet
  <2>2. UNCHANGED <<session, typed, jobs>> /\ fs' = fs
    BY <1>1, <1>4 DEF add_job
  <2> QED
    BY <1>1, <1>2, <1>3, <2>1, <2>2, PlainBoth
<1>5. CASE proc[p].back
  <2>1. PICK N, P, T, F, J, e, K : /\ N = proc' /\ P = proc /\ T = typed /\ F = fs /\ J = jobs
                                   /\ e = [env |-> proc[p].child, done |-> FALSE] /\ K = Append(jobs, e)
    OBVIOUS
  <2>2. Good(P, T, F) /\ Shapes(P) /\ Guests(P) /\ Known(P, J) /\ N = Put(P, p, r) /\ jobs' = K
    BY <1>2, <1>5, <2>1 DEF Inv, Good, Become, Put, add_job
  <2>3. Good(N, T, F)
    <3>1. Moves(P[p], r, T)
      BY <2>1, <1>3
    <3> QED
      BY <3>1, <1>1, <2>2, OwnGood
  <2>4. P[p].child \in Pid \union {NoProc} /\ (P[p].child # NoProc => P[P[p].child].pc # "unborn")
    BY <1>1, <2>1, <2>2 DEF Guests, Hosting
  <2>5. Known(N, K)
    <3>1. Known(N, J)
      BY <1>2, <2>2, KnownPut
    <3>2. e \in JobType /\ e.env = P[p].child
      BY <2>1, <2>4 DEF JobType
    <3>3. N[p] = r /\ \A q \in Pid : q # p => N[q] = P[q]
      BY <2>2, OneChanged
    <3>4. e.env # NoProc => N[e.env].pc # "unborn"
      BY <3>2, <3>3, <2>4, <1>2
    <3>5. J \in Seq(JobType) /\ K = Append(J, e)
      BY <2>1, <2>2 DEF Known
    <3>6. /\ K \in Seq(JobType)
          /\ \A i \in DOMAIN K : (i \in DOMAIN J /\ K[i] = J[i]) \/ K[i] = e
      BY <3>2, <3>5
    <3> QED
      BY <3>1, <3>4, <3>6 DEF Known
  <2>6. Table(P, T, J) => Table(N, T, K)
    BY <1>1, <1>2, <1>5, <2>1, <2>2, <2>4, AddTable
  <2> QED
    BY <1>1, <2>1, <2>2, <2>3, <2>5, <2>6 DEF Both, Inv, JobsInv
<1> QED
  BY <1>4, <1>5

\* The records spawn and readline start a process with.
LEMMA UnbornIs ==
  ASSUME NEW x, x = Unborn
  PROVE  /\ Shaped(x) /\ x.pc = "unborn" /\ x.line = 0 /\ ~x.cond /\ ~x.back /\ x.file = "none"
         /\ x.child = NoProc /\ x.from = NoProc
  BY DEF Unborn, Shaped

\* run_program.
LEMMA ProgramBoth ==
  ASSUME Inv, NEW p \in Pid, run_program(p)
  PROVE  Both
<1>1. /\ proc[p].pc = "run" /\ Shaped(proc[p]) /\ UNCHANGED <<session, typed, fs, jobs>>
  BY Facts DEF run_program, At
<1>2. PICK n, u : n = New /\ u = Unborn
  OBVIOUS
<1>3. PICK r : r = [proc[p] EXCEPT !.pc = "spawned", !.child = n]
  OBVIOUS
<1>4. PICK s : s = [u EXCEPT !.pc = "main", !.line = proc[p].line, !.argv = proc[p].argv]
  OBVIOUS
<1>5. Fork(p, r, s)
  BY <1>2, <1>3, <1>4 DEF run_program
<1>6. Starts(proc[p], r) /\ r.child = n
  BY <1>1, <1>3 DEF Starts, Shaped
<1>7. /\ Shaped(s) /\ s.pc = "main" /\ s.line = proc[p].line /\ s.argv = proc[p].argv /\ s.from = NoProc
      /\ s.file = "none" /\ ~s.cond
  <2>1. /\ Shaped(u) /\ ~u.cond /\ u.file = "none" /\ u.from = NoProc
    BY <1>2, UnbornIs
  <2> QED
    BY <1>4, <2>1 DEF Shaped
<1>8. Shapes(proc) /\ proc[p].pc # "unborn"
  BY <1>1 DEF Inv, Good
<1>m. PICK m \in Pid : \E t, K, N : Forked(p, r, s, m, t, K, N)
  BY <1>5, <1>7, <1>8, ForkIs
<1>t. PICK t, K, N : Forked(p, r, s, m, t, K, N)
  BY <1>m
<1>9. /\ m = New /\ proc[m].pc = "unborn" /\ m # p /\ Shaped(t)
      /\ t.pc = s.pc /\ t.parent = p /\ t.line = s.line /\ t.argv = s.argv /\ t.cond = s.cond
      /\ t.file = s.file /\ t.from = s.from
      /\ K = Put(proc, p, r) /\ N = Put(K, m, t) /\ N = proc'
  BY <1>t DEF Forked
<1>10. Started(proc[p], t)
  BY <1>7, <1>9 DEF Started
<1>11. PICK P, T, F, J : P = proc /\ T = typed /\ F = fs /\ J = jobs
  OBVIOUS
<1>12. /\ Good(P, T, F) /\ Shapes(P) /\ Known(P, J) /\ P[m].pc = "unborn" /\ Starts(P[p], r) /\ r.child = m
       /\ Started(P[p], t) /\ t.parent = p /\ K = Put(P, p, r) /\ N = Put(K, m, t)
  BY <1>2, <1>6, <1>8, <1>9, <1>10, <1>11 DEF Inv
<1>13. Good(N, T, F)
  BY <1>12, StartGood
<1>14. Known(N, J)
  <2>1. K[p] = r /\ (\A q \in Pid : q # p => K[q] = P[q]) /\ IsTable(K)
    BY <1>12, OneChanged
  <2>2. p # Main
    BY <1>1, Facts
  <2>3. Shapes(K)
    BY <1>12, <2>1, <2>2, Pids DEF Shapes, Starts, PC, Hosting
  <2>4. Known(K, J)
    BY <1>12, KnownPut DEF Starts
  <2> QED
    BY <1>12, <2>3, <2>4, KnownPut DEF Started
<1>15. Table(P, T, J) => Table(N, T, J)
  BY <1>12, StartTable DEF Good
<1> QED
  BY <1>1, <1>9, <1>11, <1>13, <1>14, <1>15 DEF Both, Inv, JobsInv

\* readline.
LEMMA ReadlineBoth ==
  ASSUME Inv, readline(Main)
  PROVE  Both
<1>1. /\ Main \in Pid /\ proc[Main].pc = "prompt" /\ Shaped(proc[Main]) /\ UNCHANGED <<session, fs, jobs>>
      /\ Len(typed) < Len(session) /\ typed' = Append(typed, session[Len(typed) + 1])
  BY Facts, Pids DEF readline, At
<1>2. PICK n, u, k : n = New /\ u = Unborn /\ k = Len(typed) + 1
  OBVIOUS
<1>3. PICK r : r = [proc[Main] EXCEPT !.pc = "wait", !.child = n]
  OBVIOUS
<1>4. PICK s : s = [u EXCEPT !.pc = "parse", !.line = k]
  OBVIOUS
<1>5. Fork(Main, r, s)
  BY <1>2, <1>3, <1>4 DEF readline
<1>6. /\ Shaped(r) /\ r.pc = "wait" /\ r.parent = proc[Main].parent /\ r.line = proc[Main].line
      /\ r.argv = proc[Main].argv /\ r.cond = proc[Main].cond /\ r.file = proc[Main].file
      /\ r.from = proc[Main].from
  BY <1>1, <1>3 DEF Shaped
<1>7. Shaped(s) /\ s.pc = "parse" /\ s.line = k /\ s.from = NoProc /\ ~s.cond
  <2>1. Shaped(u) /\ ~u.cond /\ u.from = NoProc
    BY <1>2, UnbornIs
  <2> QED
    BY <1>4, <2>1 DEF Shaped
<1>8. Shapes(proc) /\ proc[Main].pc # "unborn"
  BY <1>1 DEF Inv, Good
<1>m. PICK m \in Pid : \E t, K, N : Forked(Main, r, s, m, t, K, N)
  BY <1>1, <1>5, <1>7, <1>8, ForkIs
<1>t. PICK t, K, N : Forked(Main, r, s, m, t, K, N)
  BY <1>m
<1>9. /\ proc[m].pc = "unborn" /\ m # Main /\ Shaped(t)
      /\ t.pc = s.pc /\ t.line = s.line /\ t.cond = s.cond /\ t.from = s.from
      /\ K = Put(proc, Main, r) /\ N = Put(K, m, t) /\ N = proc'
  BY <1>t DEF Forked
<1>10. PICK P, T, F, J, l, U : /\ P = proc /\ T = typed /\ F = fs /\ J = jobs
                               /\ l = session[Len(typed) + 1] /\ U = typed'
  OBVIOUS
<1>11. l \in Seq(Words \union Symbols) /\ U = Append(T, l) /\ Len(T) \in Nat
  <2>1. session \in Seq(Seq(Words \union Symbols)) /\ Len(typed) \in Nat
    BY DEF Inv, Good, Lines
  <2>2. Len(typed) + 1 \in 1 .. Len(session)
    BY <1>1, <2>1
  <2> QED
    BY <1>1, <1>10, <2>1, <2>2
<1>12. Good(P, U, F) /\ Len(U) = Len(T) + 1
  <2>1. Good(P, T, F)
    BY <1>10 DEF Inv
  <2> QED
    BY <1>11, <2>1, TypedGood
<1>13. Moves(P[Main], r, U)
  BY <1>1, <1>6, <1>10 DEF Moves, PC, Parsing, Hosting, Ending, Closing, Asked
<1>14. K = Put(P, Main, r) /\ Good(K, U, F)
  <2>1. K = Put(P, Main, r)
    BY <1>9, <1>10
  <2> QED
    BY <2>1, <1>1, <1>6, <1>12, <1>13, OwnGood
<1>15. K[Main] = r /\ \A q \in Pid : q # Main => K[q] = P[q]
  BY <1>1, <1>8, <1>10, <1>14, OneChanged
<1>16. Fresh0(K, U, t)
  <2>1. t.line \in 1 .. Len(U)
    BY <1>2, <1>7, <1>9, <1>10, <1>11, <1>12
  <2> QED
    BY <2>1, <1>7, <1>9 DEF Fresh0
<1>17. Good(N, U, F)
  <2>1. K[m].pc = "unborn" /\ N = Put(K, m, t)
    BY <1>9, <1>10, <1>15
  <2> QED
    BY <2>1, <1>14, <1>16, BirthGood
<1>18. Shapes(P) /\ Shapes(K) /\ Known(P, J) /\ t.pc # "unborn" /\ r.pc # "unborn" /\ N = Put(K, m, t)
  BY <1>6, <1>7, <1>8, <1>9, <1>10, <1>14 DEF Inv, Good
<1>19. Known(N, J)
  <2>1. Known(K, J)
    BY <1>1, <1>14, <1>18, KnownPut
  <2> QED
    BY <2>1, <1>18, KnownPut
<1>20. ASSUME Table(P, T, J) PROVE Table(N, U, J)
  <2>0. Table(P, U, J)
    BY <1>10, <1>11, <1>20, TypedTable DEF Inv, Good
  <2>1. Quiet(P, U, Main, P[Main], r)
    BY <1>1, <1>6, <1>10 DEF Quiet
  <2>2. Table(K, U, J)
    BY <1>1, <1>12, <1>14, <1>18, <2>0, <2>1, QuietTable DEF Good
  <2>3. Quiet(K, U, m, K[m], t)
    BY <1>7, <1>9, <1>10, <1>15 DEF Quiet
  <2> QED
    BY <1>14, <1>18, <2>2, <2>3, QuietTable DEF Good
<1> QED
  BY <1>1, <1>9, <1>10, <1>17, <1>19, <1>20 DEF Both, Inv, JobsInv

\* Job 1 is marked done.
FirstOf(J) == [J EXCEPT ![1].done = TRUE]
LEMMA FirstDone ==
  ASSUME NEW J, J \in Seq(JobType), J # <<>>, NEW K, K = FirstOf(J)
  PROVE  /\ K \in Seq(JobType) /\ DOMAIN K = DOMAIN J /\ 1 \in DOMAIN J
         /\ \A i \in DOMAIN J : K[i].env = J[i].env /\ (K[i].done <=> (J[i].done \/ i = 1))
<1>1. 1 \in DOMAIN J /\ Len(J) \in Nat /\ DOMAIN J = 1 .. Len(J) /\ DOMAIN K = DOMAIN J
  BY DEF FirstOf
<1>2. J[1] \in JobType
  BY <1>1
<1>3. PICK e : e = [J[1] EXCEPT !.done = TRUE]
  OBVIOUS
<1>4. e \in JobType /\ e.env = J[1].env /\ e.done
  BY <1>2, <1>3 DEF JobType
<1>5. K = [J EXCEPT ![1] = e]
  BY <1>3 DEF FirstOf
<1>6. K[1] = e /\ \A i \in DOMAIN J : i # 1 => K[i] = J[i]
  BY <1>1, <1>5
<1>7. K \in Seq(JobType)
  <2>1. K = [i \in 1 .. Len(J) |-> K[i]]
    BY <1>1, <1>5
  <2>2. \A i \in 1 .. Len(J) : K[i] \in JobType
    BY <1>1, <1>4, <1>6
  <2> QED
    BY <1>1, <2>1, <2>2
<1> QED
  BY <1>1, <1>4, <1>6, <1>7

\* run_kill: whoever is destroyed, the results of the others are not touched.
LEMMA KillBoth ==
  ASSUME Inv, NEW p \in Pid, run_kill(p)
  PROVE  Both
<1>1. /\ proc[p].pc = "run" /\ Shaped(proc[p]) /\ p # Main /\ UNCHANGED <<session, typed, fs>>
      /\ WordOf(p) = "kill"
  BY Facts DEF run_kill, At
<1>2. CASE jobs = <<>> \/ jobs[1].done
  <2>1. Become(p, Failed(p)) /\ jobs' = jobs
    BY <1>2 DEF run_kill
  <2> QED
    BY <1>1, <2>1, FailedBoth
<1>3. CASE ~(jobs = <<>> \/ jobs[1].done)
  <2>1. PICK v \in IF Over(jobs[1].env) THEN {q \in Pid : ~At(q, "unborn")} ELSE {jobs[1].env} :
               proc' = [[proc EXCEPT ![p] = Failed(p)] EXCEPT ![v].pc = "dead"]
    BY <1>3 DEF run_kill
  <2>2. PICK N, P, T, F, J, L : /\ N = proc' /\ P = proc /\ T = typed /\ F = fs /\ J = jobs
                                /\ L = jobs'
    OBVIOUS
  <2>3. L = FirstOf(J) /\ J # <<>>
    BY <1>3, <2>2 DEF run_kill, FirstOf
  <2>4. Good(P, T, F) /\ Shapes(P) /\ Known(P, J) /\ J \in Seq(JobType)
    BY <2>2 DEF Inv, Good, Known
  <2>5. /\ L \in Seq(JobType) /\ DOMAIN L = DOMAIN J /\ 1 \in DOMAIN J
        /\ \A i \in DOMAIN J : L[i].env = J[i].env /\ (L[i].done <=> (J[i].done \/ i = 1))
    BY <2>3, <2>4, FirstDone
  <2>6. v \in Pid /\ P[v].pc # "unborn" /\ (~Over(J[1].env) => v = J[1].env)
    <3>1. CASE Over(J[1].env)
      BY <3>1, <2>1, <2>2 DEF At
    <3>2. CASE ~Over(J[1].env)
      <4>1. v = J[1].env
        BY <3>2, <2>1, <2>2
      <4>2. v \in Pid
        BY <3>2, <4>1 DEF Over
      <4> QED
        BY <3>2, <4>1, <4>2, <2>4, <2>5, Pids DEF Known
    <3> QED
      BY <3>1, <3>2
  <2>7. PICK f : f = Failed(p)
    OBVIOUS
  <2>8. PICK K : K = Put(P, p, f)
    OBVIOUS
  <2>9. K[p] = f /\ \A q \in Pid : q # p => K[q] = P[q]
    BY <2>4, <2>8, OneChanged
  <2>10. /\ Shaped(f) /\ f.pc = "spawned" /\ f.child = NoProc /\ f.parent = proc[p].parent
         /\ f.line = proc[p].line /\ f.argv = proc[p].argv /\ f.cond = proc[p].cond /\ f.file = proc[p].file
         /\ f.from = proc[p].from
    BY <1>1, <2>7, FailedIs
  <2>11. Moves(P[p], f, T) /\ Quiet(P, T, p, P[p], f)
    BY <1>1, <2>2, <2>10, FailedMoves
  <2>12. Good(K, T, F) /\ Shapes(K)
    <3>1. Good(K, T, F)
      BY <1>1, <2>4, <2>8, <2>11, OwnGood
    <3> QED
      BY <3>1 DEF Good
  <2>13. PICK w : w = [K[v] EXCEPT !.pc = "dead"]
    OBVIOUS
  <2>14. N = Put(K, v, w)
    <3>1. K = [proc EXCEPT ![p] = Failed(p)]
      BY <2>2, <2>7, <2>8 DEF Put
    <3>2. proc' = [K EXCEPT ![v].pc = "dead"]
      BY <2>1, <3>1
    <3>3. [K EXCEPT ![v].pc = "dead"] = [K EXCEPT ![v] = w]
      BY <2>13
    <3> QED
      BY <3>2, <3>3, <2>2 DEF Put
  <2>15. K[v].pc # "unborn" /\ Shaped(K[v])
    BY <2>6, <2>9, <2>10, <2>12 DEF Shapes
  <2>16. Same(K[v], w) /\ w.pc = "dead"
    BY <2>13, <2>15 DEF Same, Shaped
  <2>17. Good(N, T, F)
    <3>1. Moves(K[v], w, T)
      BY <2>15, <2>16 DEF Moves, Same, PC, Parsing, Hosting, Ending, Closing, Asked
    <3> QED
      BY <3>1, <2>6, <2>12, <2>14, <2>16, OwnGood
  <2>18. Known(N, L)
    <3>1. Known(K, J)
      BY <2>4, <2>8, <2>10, KnownPut
    <3>2. Known(N, J)
      BY <3>1, <2>6, <2>12, <2>14, <2>16, KnownPut
    <3> QED
      BY <3>2, <2>5 DEF Known
  <2>19. ASSUME Table(P, T, J), JobsFound PROVE Table(N, T, L)
    <3>1. Table(K, T, J)
      BY <2>4, <2>8, <2>11, <2>19, QuietTable DEF Good
    <3>2. v = J[1].env /\ v # NoProc
      <4>1. ~Over(jobs[1].env)
        BY <1>1, <1>3, <2>19 DEF JobsFound, At
      <4> QED
        BY <4>1, <2>2, <2>6, Pids
    <3>3. \A a \in Pid : K[a].pc = "spawned" /\ K[a].back => K[a].child # v
      BY <3>1, <3>2, <2>5 DEF Table
    <3>4. \A i \in DOMAIN J : J[i].env = v <=> i = 1
      BY <3>1, <3>2, <2>5 DEF Table
    <3>5. Closed(L, J, v)
      BY <3>4, <2>5 DEF Closed
    <3>6. Goes0(K[v], w) /\ w.file = K[v].file /\ w.pc = "dead"
      BY <2>16 DEF Same, Goes0
    <3> QED
      BY <3>1, <3>3, <3>5, <3>6, <2>6, <2>12, <2>14, EndTable
  <2> QED
    BY <1>1, <2>2, <2>17, <2>18, <2>19 DEF Both, Inv, JobsInv
<1> QED
  BY <1>2, <1>3

------------------------------------------------------------------------------
(* The theorems *)

\* The shell before anything is typed.
LEMMA InitGood ==
  ASSUME Init
  PROVE  Inv /\ JobsInv
<1>1. PICK u : u = Unborn
  OBVIOUS
<1>2. PICK m : m = [u EXCEPT !.pc = "prompt"]
  OBVIOUS
<1>3. proc = [p \in Pid |-> IF p = Main THEN m ELSE u]
  BY <1>1, <1>2 DEF Init
<1>4. /\ Shaped(u) /\ u.pc = "unborn" /\ ~u.cond /\ u.child = NoProc /\ u.from = NoProc
  BY <1>1, UnbornIs
<1>5. /\ Shaped(m) /\ m.pc = "prompt" /\ ~m.cond /\ m.child = NoProc /\ m.from = NoProc
  BY <1>2, <1>4 DEF Shaped
<1>6. \A p \in Pid : proc[p] = IF p = Main THEN m ELSE u
  BY <1>3
<1>7. /\ \A p \in Pid : proc[p].pc \in {"unborn", "prompt"} /\ proc[p].from = NoProc /\ Shaped(proc[p])
      /\ \A p \in Pid : p # Main => proc[p].pc = "unborn"
      /\ proc[Main].pc = "prompt"
  BY <1>4, <1>5, <1>6, Pids
<1>8. Shapes(proc)
  BY <1>3, <1>7 DEF Shapes, IsTable, PC
<1>9. Lines(proc, typed)
  BY <1>7 DEF Lines, Init
<1>10. Parsers(proc) /\ Guests(proc) /\ Hosts(proc) /\ Askers(proc)
  BY <1>7 DEF Parsers, Guests, Hosts, Askers, Asked, Parsing, Hosting, Closing
<1>11. Clients(proc, fs)
  BY DEF Clients, Init
<1>12. Results(proc, typed)
  BY <1>7 DEF Results, NoProc
<1>13. session \in Seq(Seq(Words \union Symbols))
  BY SessionsAssumption DEF Init
<1>14. Known(proc, jobs)
  BY DEF Known, Init
<1>15. Table(proc, typed, jobs)
  BY <1>7 DEF Table, Init
<1> QED
  BY <1>8, <1>9, <1>10, <1>11, <1>12, <1>13, <1>14, <1>15 DEF Inv, Good, JobsInv

\* Every step, of every process.
LEMMA NextBoth ==
  ASSUME Inv, [Next]_vars
  PROVE  Both
<1>1. ASSUME NEW p \in Pid, Parse(p) PROVE Both
  BY <1>1, EndBoth, RedirectBoth, OpenedBoth, PipeBoth, SequenceBoth, LeftDoneBoth, ConditionBoth,
     AndBoth, OrBoth, BackgroundBoth DEF Parse
<1>2. ASSUME NEW p \in Pid, Run(p) PROVE Both
  <2>1. CASE run_none(p) \/ run_fg(p)
    <3>1. proc[p].pc = "run" /\ Become(p, Failed(p)) /\ UNCHANGED <<session, typed, fs, jobs>>
      BY <2>1 DEF run_none, run_fg, At
    <3> QED
      BY <3>1, FailedBoth
  <2> QED
    BY <1>2, <2>1, ProgramBoth, JobsBoth, KillBoth, AddBoth, CloseAllBoth, CloseFileBoth, ClosedBoth,
       ForwardBoth, WaitRightBoth, ExitBoth DEF Run
<1>3. ASSUME NEW p \in Pid, Step(p) \/ fs_reply(p) PROVE Both
  BY <1>1, <1>2, <1>3, ReturnsBoth, ExitsBoth, ResultBoth, WaitBoth, ReplyBoth DEF Step
<1>4. CASE UNCHANGED vars
  BY <1>4 DEF vars, Both, Inv, JobsInv
<1> QED
  BY <1>3, <1>4, ReadlineBoth DEF Next

\* What the invariant says of results.
LEMMA ResultsFollow == Inv => ResultIsChilds
<1> SUFFICES ASSUME Inv, NEW p \in Pid, proc[p].from > NoProc, proc[p].file = "none",
                    proc[proc[p].from].file = "none"
             PROVE  /\ proc[p].from # p /\ proc[proc[p].from].parent = p
                    /\ At(p, "recv_got") => proc[p].val = Status(WordOf(proc[p].child))
                    /\ At(p, "and_got") \/ At(p, "or_got") => proc[p].val = Status(WordOf(proc[p].from))
  BY DEF ResultIsChilds
<1>1. /\ proc[p].from # p /\ proc[proc[p].from].parent = p
      /\ proc[p].pc \in {"and_got", "or_got"} => proc[p].val = Status(Word(typed, proc[proc[p].from]))
  BY DEF Inv, Good, Results
<1>2. ASSUME proc[p].pc = "recv_got"
      PROVE  proc[p].val = Status(WordOf(proc[p].child))
  <2>1. proc[p].child # NoProc /\ proc[p].val = Status(Word(typed, proc[p]))
    BY <1>2 DEF Inv, Good, Results
  <2>2. proc[proc[p].child].line = proc[p].line /\ proc[proc[p].child].argv = proc[p].argv
    BY <1>2, <2>1 DEF Inv, Good, Guests, Hosting
  <2> QED
    BY <2>1, <2>2 DEF Word, WordOf, Tokens
<1> QED
  BY <1>1, <1>2 DEF At, Word, WordOf, Tokens

\* What a shell takes for the result of its program, or of its left side, is what this
\* program returned from main, through every interleaving of the senders, of the file
\* server and of "kill", whatever is typed and however many processes there are: runcmd,
\* libmain and ipc_recv.
THEOREM ResultsRight == Spec => []ResultIsChilds
<1>1. Init => Inv
  BY InitGood
<1>2. Inv /\ [Next]_vars => Inv'
  BY NextBoth DEF Both
<1>3. Inv => ResultIsChilds
  BY ResultsFollow
<1> QED
  BY <1>1, <1>2, <1>3, PTL DEF Spec

\* A job is done only when its process has ended, and always then if the program returns
\* from main (sys_add_job, exit, sys_kill_job): as long as "kill" finds the process of its
\* job.  Whether a program leaves inside main, and when, makes no difference to the others.
THEOREM JobsRight == Spec /\ []JobsFound => []JobsExact
<1>1. Init => Inv /\ JobsInv
  BY InitGood
<1>2. Inv /\ JobsInv /\ JobsFound /\ [Next]_vars => (Inv /\ JobsInv)'
  BY NextBoth DEF Both
<1>3. JobsInv => JobsExact
  <2> SUFFICES ASSUME JobsInv, NEW i \in DOMAIN jobs, jobs[i].env # NoProc
               PROVE  /\ jobs[i].done => At(jobs[i].env, "dead")
                      /\ At(jobs[i].env, "dead") /\ WordOf(jobs[i].env) \in Returning => jobs[i].done
    BY DEF JobsExact
  <2>1. Entered(typed, proc[jobs[i].env], jobs[i].done)
    BY DEF JobsInv, Table
  <2> QED
    BY <2>1 DEF Entered, Leaves, Word, WordOf, Tokens, At
<1> QED
  BY <1>1, <1>2, <1>3, PTL DEF Spec
==============================================================================
