---------------------------- MODULE ForkMemoryProofs ----------------------------
(***************************************************************************)
(* fork, copy-on-write and spawn: the handlers, whose page a page is, and  *)
(* what it holds.  A process sees in its private pages what it wrote, and  *)
(* the child of spawn is the image of its program.                         *)
(***************************************************************************)
EXTENDS ForkProofs

USE DEF Handling, Copying, Filling, Building, Opened, Idle, Pc, InFork

------------------------------------------------------------------------------
(* The handlers *)

\* A process that can meet a page copied on write has a handler, a child that is
\* about to be started by fork too, and a child of spawn has no such page.
Ready(e) ==
  /\ \A v \in Va : Alive(e) /\ "COW" \in pt[e][v].perm => entry[e]
  /\ Where(e) \in InFork => entry[e]
  /\ \A k \in frame[e].kid :
       /\ Where(e) = "runnable" => entry[k]
       /\ Where(e) \in Building => \A v \in Va : "COW" \notin pt[k][v].perm
Handlers ==
  /\ entry \in [Env -> BOOLEAN] /\ panic \in BOOLEAN
  /\ \A e \in Env : Ready(e)
  /\ panic => NoMemory

\* An env that is not running needs no handler.
LEMMA IdleReady ==
  ASSUME NEW e \in Env, frame[e].pc \in Idle, frame[e].kid = {}
  PROVE  Ready(e)
  BY DEF Ready, Alive, Where, Place

\* A step of e changes e, its child and free envs only.
LEMMA ReadyStep ==
  ASSUME Basics, Handlers, NEW e \in Env, frame[e].pc \notin Idle,
         NEW K \in SUBSET Env, \A k \in K : frame[k] = Free \/ k \in frame[e].kid,
         OthersBut(e, K),
         \A k \in Env : k # e /\ k \notin frame[e].kid /\ k \notin K => pt'[k] = pt[k] /\ entry'[k] = entry[k],
         Ready(e)', \A k \in K : Ready(k)'
  PROVE  \A d \in Env : Ready(d)'
<1> SUFFICES ASSUME NEW d \in Env, d # e, d \notin K
             PROVE  Ready(d)'
  OBVIOUS
<1>1. frame'[d] = frame[d]
  BY DEF OthersBut
<1>2. Kids
  BY DEF Basics
<1>3. CASE d \in frame[e].kid
  <2>1. frame'[d] = Embryo
    BY <1>1, <1>2, <1>3 DEF Kids
  <2> QED
    BY <2>1, Starts DEF Ready, Alive, Where, Place
<1>4. CASE d \notin frame[e].kid
  <2>1. pt'[d] = pt[d] /\ entry'[d] = entry[d]
    BY <1>4
  <2>2. ASSUME NEW k \in frame[d].kid
        PROVE  pt'[k] = pt[k] /\ entry'[k] = entry[k]
    <3>1. k \in Env
      BY DEF Basics, Frames, Frame
    <3>2. frame[k] = Embryo /\ k \notin frame[e].kid
      BY <1>2, <3>1 DEF Kids
    <3>3. k # e /\ k \notin K
      BY <3>2, Starts
    <3> QED
      BY <3>1, <3>2, <3>3
  <2>3. Ready(d)
    BY DEF Handlers
  <2> QED
    BY <1>1, <2>1, <2>2, <2>3 DEF Ready, Alive, Where
<1> QED
  BY <1>3, <1>4

\* Every step keeps the handlers registered where they can be needed.
LEMMA HandlersNext ==
  ASSUME Basics, Handlers, [Next]_vars
  PROVE  Handlers'
<1>0. CASE UNCHANGED vars
  BY <1>0 DEF vars, Handlers, Ready, Alive, Where, NoMemory, Used
<1> SUFFICES ASSUME NEW e \in Env, ForkStep(e) \/ SpawnStep(e)
             PROVE  Handlers'
  BY <1>0 DEF Next
<1>a. ~panic /\ frame[e].pc \notin Idle
  BY Acting
<1>b. entry \in [Env -> BOOLEAN] /\ panic \in BOOLEAN /\ Ready(e) /\ Tables /\ Perms /\ Temps
  BY DEF Handlers, Basics
<1>k. /\ frame[e].kid \subseteq Env /\ e \notin frame[e].kid
      /\ \A k \in frame[e].kid : frame[k] = Embryo
  <2>1. frame[e].kid \subseteq Env
    BY DEF Basics, Frames, Frame
  <2> QED
    BY <2>1, <1>a, Starts DEF Basics, Kids
\* The step changes e and the table of its child.
<1>o. ASSUME Others(e), UNCHANGED <<entry, panic>>, Ready(e)',
             \A k \in Env : k # e /\ k \notin frame[e].kid => pt'[k] = pt[k]
      PROVE  Handlers'
  <2> DEFINE K == {}
  <2>1. K \in SUBSET Env /\ (\A k \in K : frame[k] = Free \/ k \in frame[e].kid) /\ OthersBut(e, K)
        /\ \A k \in K : Ready(k)'
    BY <1>o DEF Others, OthersBut
  <2> HIDE DEF K
  <2>2. \A d \in Env : Ready(d)'
    BY <1>o, <2>1, <1>a, ReadyStep
  <2> QED
    BY <1>o, <2>2, <1>a, <1>b DEF Handlers
\* ... to a place where nothing new is asked of it.
<1>p. ASSUME UNCHANGED entry, frame'[e].kid = frame[e].kid,
             Where(e)' \in InFork => Where(e) \in InFork,
             Where(e)' = "runnable" => Where(e) = "runnable",
             Where(e)' \in Building => Where(e) \in Building,
             \A v \in Va : "COW" \in pt'[e][v].perm => \E w \in Va : "COW" \in pt[e][w].perm,
             Where(e) \in Building => \A k \in frame[e].kid, v \in Va : "COW" \in pt'[k][v].perm => "COW" \in pt[k][v].perm
      PROVE  Ready(e)'
  BY <1>p, <1>a, <1>b DEF Ready, Alive
<1>3. ASSUME NEW v \in Own, NEW x \in Values, write(e, v, x)
      PROVE  Handlers'
  <2>1. UNCHANGED <<pt, entry, frame, panic>>
    BY <1>3, WriteDoes
  <2> QED
    BY <2>1, <1>a DEF Handlers, Ready, Alive, Where
<1>4. ASSUME NEW v \in Own, do_tlb_mod(e, v)
      PROVE  Handlers'
  <2>0. /\ UNCHANGED <<mem, pt, entry, view>>
        /\ frame[e].pc = "run" \/ (frame[e].pc \in InFork /\ v = Stack)
        /\ pt[e][v].perm = {"COW"}
    BY <1>4, DoTlbModDoes
  <2>1. entry[e]
    <3>1. Alive(e) /\ v \in Va
      BY <1>a, VaFacts DEF Alive
    <3> QED
      BY <2>0, <3>1, <1>b DEF Ready
  <2>2. /\ UNCHANGED panic /\ Others(e) /\ Works1(frame'[e], frame[e])
        /\ frame'[e].pc = "cow_copy" /\ frame'[e].back = frame[e].pc
    BY <1>4, <2>1, DoTlbModDoes
  <2>3. Where(e)' = Where(e) /\ frame'[e].kid = frame[e].kid
    BY <2>0, <2>2 DEF Where, Place, Works1
  <2>4. Ready(e)'
    BY <2>0, <2>3, <1>p
  <2> QED
    BY <2>0, <2>2, <2>4, <1>o
<1>5. CASE cow_copy(e)
  <2>0. UNCHANGED entry /\ frame[e].pc = "cow_copy"
    BY <1>5, CowCopyDoes
  <2>1. CASE NoMemory /\ panic' /\ UNCHANGED <<mem, pt, frame>>
    BY <2>0, <2>1, <1>b DEF Handlers, Ready, Alive, Where, NoMemory, Used
  <2>2. CASE /\ ~NoMemory /\ UNCHANGED panic /\ Others(e)
             /\ frame'[e].pc = "cow_map" /\ Works1(frame'[e], frame[e])
             /\ frame'[e].fault = frame[e].fault /\ frame'[e].back = frame[e].back
             /\ Only(e, UCOW, Map(NewPage(e, Fault(e)), {"D"}))
    <3>1. Where(e)' = Where(e) /\ frame'[e].kid = frame[e].kid
      BY <2>0, <2>2 DEF Where, Place, Works1
    <3>2. \A v \in Va : "COW" \in pt'[e][v].perm => "COW" \in pt[e][v].perm
      BY <2>2, <1>b DEF Only, Map
    <3>3. \A k \in Env : k # e => pt'[k] = pt[k]
      BY <2>2, <1>b DEF Only, Tables
    <3>4. Ready(e)'
      BY <2>0, <3>1, <3>2, <3>3, <1>k, <1>p
    <3> QED
      BY <2>0, <2>2, <3>3, <3>4, <1>o
  <2> QED
    BY <1>5, <2>1, <2>2, CowCopyDoes
<1>6. CASE cow_map(e)
  <2>0. /\ UNCHANGED <<entry, panic>> /\ frame[e].pc = "cow_map" /\ Others(e)
        /\ frame'[e].pc = frame[e].back /\ Works1(frame'[e], frame[e])
        /\ pt' = [d \in Env |-> [w \in Va |->
              IF d = e /\ w = frame[e].fault THEN pt[e][UCOW]
              ELSE IF d = e /\ w = UCOW THEN Unmapped ELSE pt[d][w]]]
    BY <1>6, CowMapDoes
  <2>1. frame[e].back \in {"run"} \union InFork
    BY DEF Basics, Frames, Frame
  <2>2. Where(e)' = Where(e) /\ frame'[e].kid = frame[e].kid
    BY <2>0, <2>1 DEF Where, Place, Works1
  <2>3. \A v \in Va : "COW" \in pt'[e][v].perm => \E w \in Va : "COW" \in pt[e][w].perm
    BY <2>0, VaFacts, MapRow
  <2>4. \A k \in Env : k # e => pt'[k] = pt[k]
    BY <2>0, <1>b DEF Tables
  <2>5. Ready(e)'
    BY <2>0, <2>2, <2>3, <2>4, <1>k, <1>p
  <2> QED
    BY <2>0, <2>4, <2>5, <1>o
<1>7. CASE call_fork(e)
  <2>0. /\ UNCHANGED <<mem, pt, view, panic>> /\ frame[e].pc = "run" /\ Others(e)
        /\ frame'[e].pc = "exofork" /\ Works1(frame'[e], frame[e])
        /\ entry' = [entry EXCEPT ![e] = TRUE]
    BY <1>7, CallForkDoes
  <2>1. entry' \in [Env -> BOOLEAN] /\ entry'[e] /\ \A k \in Env \ {e} : entry'[k] = entry[k]
    BY <2>0, <1>b
  <2>2. Ready(e)'
    BY <2>0, <2>1 DEF Ready, Where, Place
  <2> DEFINE K == {}
  <2>3. K \in SUBSET Env /\ (\A k \in K : frame[k] = Free \/ k \in frame[e].kid) /\ OthersBut(e, K)
        /\ \A k \in K : Ready(k)'
    BY <2>0 DEF Others, OthersBut
  <2> HIDE DEF K
  <2>4. \A d \in Env : Ready(d)'
    BY <2>0, <2>1, <2>2, <2>3, <1>a, ReadyStep
  <2> QED
    BY <2>0, <2>1, <2>4, <1>a, <1>b DEF Handlers
\* A free env becomes the child.
<1>n. ASSUME NEW k \in Env \ {e}, frame[k] = Free, frame'[k] = Embryo, OthersBut(e, {k}),
             UNCHANGED <<pt, panic>>, entry' \in [Env -> BOOLEAN],
             \A d \in Env \ {k} : entry'[d] = entry[d], Ready(e)'
      PROVE  Handlers'
  <2> DEFINE K == {k}
  <2>1. Ready(k)'
    BY <1>n, Starts DEF Ready, Alive, Where, Place
  <2>2. K \in SUBSET Env /\ (\A j \in K : frame[j] = Free \/ j \in frame[e].kid) /\ OthersBut(e, K)
        /\ \A j \in K : Ready(j)'
    BY <1>n, <2>1
  <2>3. \A j \in Env : j # e /\ j \notin frame[e].kid /\ j \notin K => pt'[j] = pt[j] /\ entry'[j] = entry[j]
    BY <1>n
  <2> HIDE DEF K
  <2>4. \A d \in Env : Ready(d)'
    BY <1>n, <2>2, <2>3, <1>a, ReadyStep
  <2> QED
    BY <1>n, <2>4, <1>a, <1>b DEF Handlers
<1>8. CASE exofork(e)
  <2>0. /\ UNCHANGED <<mem, pt, view, panic>> /\ frame[e].pc = "exofork" /\ frame[e].kid = {}
        /\ frame'[e].pc \in {"entry", "dup"}
    BY <1>8, ExoforkDoes
  <2>1. entry[e]
    BY <2>0, <1>b DEF Ready, Where, Place
  <2>2. CASE Others(e) /\ frame'[e].kid = {} /\ UNCHANGED entry
    <3>1. Ready(e)'
      BY <2>0, <2>1, <2>2 DEF Ready, Where, Place
    <3> QED
      BY <2>0, <2>2, <3>1, <1>o
  <2>3. CASE \E k \in Env \ {e} :
                 /\ frame[k] = Free /\ frame'[k] = Embryo /\ OthersBut(e, {k}) /\ frame'[e].kid = {k}
                 /\ entry' = [entry EXCEPT ![k] = FALSE]
    <3>1. PICK k \in Env \ {e} :
                 /\ frame[k] = Free /\ frame'[k] = Embryo /\ OthersBut(e, {k}) /\ frame'[e].kid = {k}
                 /\ entry' = [entry EXCEPT ![k] = FALSE]
      BY <2>3
    <3>2. entry' \in [Env -> BOOLEAN] /\ entry'[e] /\ \A d \in Env \ {k} : entry'[d] = entry[d]
      BY <3>1, <2>1, <1>b
    <3>3. Ready(e)'
      BY <2>0, <3>2 DEF Ready, Where, Place
    <3> QED
      BY <2>0, <3>1, <3>2, <3>3, <1>n
  <2> QED
    BY <1>8, <2>2, <2>3, ExoforkDoes
<1>9. CASE duppage(e)
  <2>0. /\ UNCHANGED <<mem, pt, entry, view, panic>> /\ frame[e].pc = "dup" /\ Others(e)
        /\ frame'[e].pc = "dup_child" /\ frame'[e].kid = frame[e].kid
    BY <1>9, DuppageDoes
  <2>1. Ready(e)'
    BY <2>0, <1>p DEF Where, Place
  <2> QED
    BY <2>0, <2>1, <1>o
<1>10. CASE duppage_child(e)
  <2>0. /\ UNCHANGED <<mem, entry, panic>> /\ frame[e].pc = "dup_child" /\ Others(e)
        /\ frame'[e].pc \in {"dup_parent", "entry", "dup"} /\ frame'[e].kid = frame[e].kid
    BY <1>10, DuppageChildDoes DEF Onward, Works1
  <2>1. \A d \in Env : d \notin frame[e].kid => pt'[d] = pt[d]
    <3>1. \/ pt' = pt
          \/ pt' = [d \in Env |-> [w \in Va |->
                    IF d \in frame[e].kid /\ w = frame[e].va
                    THEN Map(PageOf(e, frame[e].va), IF frame[e].perm = {"D"} THEN {"COW"} ELSE frame[e].perm)
                    ELSE pt[d][w]]]
      BY <1>10, DuppageChildDoes
    <3> QED
      BY <3>1, <1>b DEF Tables
  <2>2. Ready(e)'
    BY <2>0, <2>1, <1>k, <1>p DEF Where, Place
  <2> QED
    BY <2>0, <2>1, <2>2, <1>o
<1>11. CASE duppage_parent(e)
  <2>0. /\ UNCHANGED <<mem, entry, panic>> /\ frame[e].pc = "dup_parent" /\ Others(e)
        /\ frame'[e].pc \in {"entry", "dup"} /\ frame'[e].kid = frame[e].kid
        /\ Only(e, frame[e].va, Map(PageOf(e, frame[e].va), {"COW"}))
    BY <1>11, DuppageParentDoes DEF Onward
  <2>1. \A d \in Env : d # e => pt'[d] = pt[d]
    BY <2>0, <1>b DEF Only, Tables
  <2>2. entry[e]
    BY <2>0, <1>b DEF Ready, Where, Place
  <2>3. Ready(e)'
    BY <2>0, <2>2 DEF Ready, Where, Place
  <2> QED
    BY <2>0, <2>1, <2>3, <1>o
<1>12. CASE set_entry(e)
  <2>0. /\ UNCHANGED <<mem, pt, view, panic>> /\ frame[e].pc = "entry" /\ Others(e)
        /\ frame'[e].pc = "runnable" /\ frame'[e].kid = frame[e].kid
        /\ entry' = [k \in Env |-> entry[k] \/ k \in frame[e].kid]
    BY <1>12, SetEntryDoes DEF Works1
  <2>1. entry[e]
    BY <2>0, <1>b DEF Ready, Where, Place
  <2>2. /\ entry' \in [Env -> BOOLEAN] /\ entry'[e] /\ (\A k \in frame[e].kid : entry'[k])
        /\ \A k \in Env : k \notin frame[e].kid => entry'[k] = entry[k]
    BY <2>0, <2>1, <1>b, <1>k, Zenon
  <2>3. Ready(e)'
    BY <2>0, <2>2 DEF Ready, Where, Place
  <2> DEFINE K == {}
  <2>4. K \in SUBSET Env /\ (\A k \in K : frame[k] = Free \/ k \in frame[e].kid) /\ OthersBut(e, K)
        /\ \A k \in K : Ready(k)'
    BY <2>0 DEF Others, OthersBut
  <2> HIDE DEF K
  <2>5. \A d \in Env : Ready(d)'
    BY <2>0, <2>2, <2>3, <2>4, <1>a, ReadyStep
  <2> QED
    BY <2>0, <2>2, <2>5, <1>a, <1>b DEF Handlers
\* The child is let go.
<1>l. ASSUME OthersBut(e, frame[e].kid), UNCHANGED panic, entry' \in [Env -> BOOLEAN],
             \A k \in Env : k # e /\ k \notin frame[e].kid => pt'[k] = pt[k] /\ entry'[k] = entry[k],
             Ready(e)', \A k \in frame[e].kid : Ready(k)'
      PROVE  Handlers'
  <2> DEFINE K == frame[e].kid
  <2>1. K \in SUBSET Env /\ (\A k \in K : frame[k] = Free \/ k \in frame[e].kid) /\ OthersBut(e, K)
        /\ (\A k \in K : Ready(k)')
        /\ \A k \in Env : k # e /\ k \notin frame[e].kid /\ k \notin K => pt'[k] = pt[k] /\ entry'[k] = entry[k]
    BY <1>l, <1>k
  <2> HIDE DEF K
  <2>2. \A d \in Env : Ready(d)'
    BY <1>l, <2>1, <1>a, ReadyStep
  <2> QED
    BY <1>l, <2>2, <1>a, <1>b DEF Handlers
<1>13. CASE set_runnable(e)
  <2>0. /\ UNCHANGED <<mem, pt, entry, view, panic>> /\ frame[e].pc = "runnable"
        /\ frame'[e] = Running /\ (\A k \in frame[e].kid : frame'[k] = Running)
        /\ OthersBut(e, frame[e].kid)
    BY <1>13, SetRunnableDoes
  <2>1. entry[e] /\ \A k \in frame[e].kid : entry[k]
    BY <2>0, <1>b DEF Ready, Where, Place
  <2>2. \A k \in frame[e].kid \union {e} : Ready(k)'
    BY <2>0, <2>1, Starts DEF Ready, Where, Place
  <2> QED
    BY <2>0, <2>2, <1>b, <1>l
<1>14. CASE env_free(e)
  <2>0. /\ UNCHANGED panic
        /\ frame'[e] = Free /\ (\A k \in frame[e].kid : frame'[k] = Orphan)
        /\ OthersBut(e, frame[e].kid)
        /\ pt' = [d \in Env |-> [w \in Va |-> IF d = e THEN Unmapped ELSE pt[d][w]]]
        /\ entry' = [entry EXCEPT ![e] = FALSE]
    BY <1>14, EnvFreeDoes
  <2>1. Ready(e)' /\ \A k \in frame[e].kid : Ready(k)'
    BY <2>0, Starts DEF Ready, Alive, Where, Place
  <2>2. entry' \in [Env -> BOOLEAN] /\ \A k \in Env \ {e} : entry'[k] = entry[k]
    BY <2>0, <1>b
  <2>3. \A k \in Env \ {e} : pt'[k] = pt[k]
    BY <2>0, <1>b DEF Tables
  <2> QED
    BY <2>0, <2>1, <2>2, <2>3, <1>l
\* A step of spawn that changes one place of one table, to something not copied on write.
<1>w. ASSUME Others(e), UNCHANGED <<entry, panic>>, frame'[e].kid = frame[e].kid,
             Where(e)' \notin InFork, Where(e)' \in Building => Where(e) \in Building \/ frame[e].kid = {},
             NEW d \in Env, d = e \/ d \in frame[e].kid, NEW v \in Va, NEW m, "COW" \notin m.perm,
             Only(d, v, m)
      PROVE  Handlers'
  <2>1. \A k \in Env, w \in Va : "COW" \in pt'[k][w].perm => "COW" \in pt[k][w].perm
    BY <1>w DEF Only
  <2>2. \A k \in Env : k # d => pt'[k] = pt[k]
    BY <1>w, <1>b DEF Only, Tables
  <2>3. Ready(e)'
    BY <1>w, <2>1, <1>a, <1>b, <1>k DEF Ready, Alive
  <2> QED
    BY <1>w, <2>2, <2>3, <1>o
<1>s. ASSUME Others(e), UNCHANGED <<pt, entry, panic>>, frame'[e].kid = frame[e].kid,
             Where(e)' \notin InFork, Where(e)' \in Building => Where(e) \in Building \/ frame[e].kid = {}
      PROVE  Handlers'
  <2>1. Ready(e)'
    BY <1>s, <1>a, <1>b, <1>k DEF Ready, Alive
  <2> QED
    BY <1>s, <2>1, <1>o
<1>15. ASSUME NEW p \in Programs, spawn(e, p)
       PROVE  Handlers'
  <2>0. /\ UNCHANGED <<entry, view, panic>> /\ frame[e].pc = "run" /\ ~NoMemory
        /\ Others(e) /\ frame'[e].pc = "header" /\ frame'[e].kid = frame[e].kid
        /\ Only(e, Fd, Map(NewPage(e, Fd), {"D", "LIB"}))
    BY <1>15, SpawnDoes
  <2>1. Where(e)' = "header" /\ "COW" \notin Map(NewPage(e, Fd), {"D", "LIB"}).perm /\ Fd \in Va
    BY <2>0, VaFacts DEF Where, Place, Map
  <2> QED
    BY <2>0, <2>1, <1>w
<1>16. CASE spawn_exofork(e)
  <2>0. /\ UNCHANGED <<mem, pt, entry, view, panic>> /\ frame[e].pc = "header"
        /\ frame[e].kid = {} /\ frame'[e].pc \in {"err", "stack"}
    BY <1>16, SpawnExoforkDoes
  <2>2. CASE Others(e) /\ frame'[e].kid = {}
    BY <2>0, <2>2, <1>s DEF Where, Place
  <2>3. CASE \E k \in Env \ {e} :
                 frame[k] = Free /\ frame'[k] = Embryo /\ OthersBut(e, {k}) /\ frame'[e].kid = {k}
    <3>1. PICK k \in Env \ {e} :
                 frame[k] = Free /\ frame'[k] = Embryo /\ OthersBut(e, {k}) /\ frame'[e].kid = {k}
      BY <2>3
    <3>2. pt[k] = NoPages
      BY <3>1, <1>b, Starts DEF Temps, TempsOf
    <3>3. \A v \in Va : "COW" \notin pt'[k][v].perm
      BY <2>0, <3>2 DEF NoPages, Unmapped
    <3>4. Ready(e)'
      BY <2>0, <3>1, <3>3, <1>a, <1>b DEF Ready, Where, Place, Alive
    <3> QED
      BY <2>0, <3>1, <3>4, <1>b, <1>n
  <2> QED
    BY <1>16, <2>2, <2>3, SpawnExoforkDoes
<1>17. CASE init_stack(e)
  <2>0. /\ UNCHANGED <<entry, view, panic>> /\ frame[e].pc = "stack"
        /\ Others(e) /\ frame'[e].kid = frame[e].kid /\ frame'[e].pc \in {"err1", "stack_map"}
    BY <1>17, InitStackDoes DEF Works1
  <2>1. Where(e)' \in Building /\ Where(e) \in Building /\ Where(e)' \notin InFork
    BY <2>0 DEF Where, Place
  <2>2. CASE UNCHANGED pt
    BY <2>0, <2>1, <2>2, <1>s
  <2>3. CASE Only(e, UTEMP, Map(NewPage(e, UTEMP), {"D"}))
    <3>1. "COW" \notin Map(NewPage(e, UTEMP), {"D"}).perm
      BY DEF Map
    <3> QED
      BY <2>0, <2>1, <2>3, <3>1, <1>w, VaFacts
  <2> QED
    BY <1>17, <2>2, <2>3, InitStackDoes
<1>18. CASE init_stack_map(e)
  <2>0. /\ UNCHANGED <<entry, view, panic>> /\ frame[e].pc = "stack_map"
        /\ Others(e) /\ frame'[e].kid = frame[e].kid /\ pt[e][UTEMP].perm = {"D"}
        /\ frame'[e].pc \in {"err1", "load"}
    BY <1>18, InitStackMapDoes
  <2>1. Where(e)' \in Building /\ Where(e) \in Building /\ Where(e)' \notin InFork
    BY <2>0 DEF Where, Place
  <2>2. CASE Only(e, UTEMP, Unmapped)
    BY <2>0, <2>1, <2>2, <1>w, VaFacts, MapRow
  <2>3. CASE /\ frame[e].kid # {}
             /\ pt' = [d \in Env |-> [w \in Va |->
                    IF d = Kid(e) /\ w = Stack THEN pt[e][UTEMP]
                    ELSE IF d = e /\ w = UTEMP THEN Unmapped ELSE pt[d][w]]]
    <3>1. Kid(e) \in Env /\ frame[e].kid = {Kid(e)}
      BY <2>3, TheKid
    <3>2. \A k \in Env, w \in Va : "COW" \in pt'[k][w].perm => "COW" \in pt[k][w].perm
      BY <2>0, <2>3, MapRow
    <3>3. \A k \in Env : k # e /\ k \notin frame[e].kid => pt'[k] = pt[k]
      BY <2>3, <3>1, <1>b DEF Tables
    <3>4. Ready(e)'
      BY <2>0, <2>1, <3>2, <1>k, <1>p
    <3> QED
      BY <2>0, <3>3, <3>4, <1>o
  <2> QED
    BY <1>18, <2>2, <2>3, InitStackMapDoes
<1>19. CASE spawn_mapper(e)
  <2>0. /\ UNCHANGED <<entry, view, panic>> /\ frame[e].pc = "load" /\ frame[e].todo # <<>>
        /\ frame[e].kid # {} /\ Others(e)
        /\ frame'[e].kid = frame[e].kid /\ frame'[e].pc \in {"err1", "load", "load_map"}
    BY <1>19, SpawnMapperDoes
  <2>1. Where(e)' \in Building /\ Where(e) \in Building /\ Where(e)' \notin InFork
    BY <2>0 DEF Where, Place
  <2>2. CASE UNCHANGED pt
    BY <2>0, <2>1, <2>2, <1>s
  <2>3. CASE Only(Kid(e), Next1(e).page, Map(NewPage(Kid(e), Next1(e).page), Next1(e).perm))
    <3>1. Kid(e) \in frame[e].kid /\ Next1(e).page \in Va /\ Next1(e).perm \in SUBSET {"D"}
      BY <2>0, TheKid, Next1Call
    <3>2. "COW" \notin Map(NewPage(Kid(e), Next1(e).page), Next1(e).perm).perm
      BY <3>1 DEF Map
    <3> QED
      BY <2>0, <2>1, <2>3, <3>1, <3>2, <1>k, <1>w
  <2> QED
    BY <1>19, <2>2, <2>3, SpawnMapperDoes
<1>20. CASE mapper_map(e)
  <2>0. /\ UNCHANGED <<entry, view, panic>> /\ frame[e].pc = "load_map" /\ frame[e].todo # <<>>
        /\ frame[e].kid # {} /\ Others(e)
        /\ frame'[e].kid = frame[e].kid /\ frame'[e].pc \in {"err1", "load_copy"}
    BY <1>20, MapperMapDoes DEF Works1
  <2>1. Where(e)' \in Building /\ Where(e) \in Building /\ Where(e)' \notin InFork
    BY <2>0 DEF Where, Place
  <2>2. CASE Only(Kid(e), Next1(e).page, Unmapped)
    BY <2>0, <2>1, <2>2, <1>w, <1>k, MapRow, TheKid, Next1Call
  <2>3. CASE Only(e, UTEMP, Map(PageOf(Kid(e), Next1(e).page), {"D"}))
    <3>1. "COW" \notin Map(PageOf(Kid(e), Next1(e).page), {"D"}).perm
      BY DEF Map
    <3> QED
      BY <2>0, <2>1, <2>3, <3>1, <1>w, VaFacts
  <2> QED
    BY <1>20, <2>2, <2>3, MapperMapDoes
<1>21. CASE mapper_copy(e)
  <2>0. /\ UNCHANGED <<entry, view, panic>> /\ frame[e].pc = "load_copy"
        /\ Others(e) /\ frame'[e].pc = "load" /\ frame'[e].kid = frame[e].kid /\ Only(e, UTEMP, Unmapped)
    BY <1>21, MapperCopyDoes
  <2> QED
    BY <2>0, <1>w, VaFacts, MapRow DEF Where, Place
<1>22. CASE spawn_close(e)
  <2>0. /\ UNCHANGED <<entry, view, panic>> /\ frame[e].pc = "load"
        /\ Others(e) /\ frame'[e].pc \in {"start", "share"} /\ frame'[e].kid = frame[e].kid
        /\ Only(e, Fd, Unmapped)
    BY <1>22, SpawnCloseDoes DEF Sharing
  <2> QED
    BY <2>0, <1>w, VaFacts, MapRow DEF Where, Place
<1>23. CASE share(e)
  <2>0. /\ UNCHANGED <<mem, entry, view, panic>> /\ frame[e].pc = "share"
        /\ frame[e].kid # {} /\ Others(e) /\ frame[e].va \in Lib \ {Fd}
        /\ frame'[e].pc \in {"err2", "start", "share"} /\ frame'[e].kid = frame[e].kid
    BY <1>23, ShareDoes DEF Sharing, Works1
  <2>1. Where(e)' \in Building /\ Where(e) \in Building /\ Where(e)' \notin InFork
    BY <2>0 DEF Where, Place
  <2>2. CASE UNCHANGED pt
    BY <2>0, <2>1, <2>2, <1>s
  <2>3. CASE Only(Kid(e), frame[e].va, pt[e][frame[e].va])
    <3>1. "COW" \notin pt[e][frame[e].va].perm
      BY <2>0, <1>b, VaFacts DEF Perms, Shared, Unmapped, Map
    <3> QED
      BY <2>0, <2>1, <2>3, <3>1, <1>w, <1>k, TheKid, VaFacts
  <2> QED
    BY <1>23, <2>2, <2>3, ShareDoes
<1>24. CASE start(e)
  <2>0. /\ UNCHANGED <<mem, pt, entry, panic>> /\ frame[e].pc = "start"
        /\ frame[e].kid # {} /\ frame'[e] = Running /\ frame'[Kid(e)] = Running
        /\ OthersBut(e, {Kid(e)})
    BY <1>24, StartDoes
  <2>1. PICK k \in Env : frame[e].kid = {k} /\ k = Kid(e)
    BY <2>0, TheKid
  <2>2. \A v \in Va : "COW" \notin pt[k][v].perm
    BY <2>0, <2>1, <1>b DEF Ready, Where, Place
  <2>3. Ready(e)' /\ Ready(k)'
    BY <2>0, <2>1, <2>2, <1>a, <1>b, Starts DEF Ready, Where, Place, Alive
  <2>4. OthersBut(e, frame[e].kid) /\ \A j \in frame[e].kid : Ready(j)'
    BY <2>0, <2>1, <2>3
  <2> QED
    BY <2>0, <2>3, <2>4, <1>b, <1>l
<1>25. CASE destroy(e)
  <2>0. /\ UNCHANGED <<entry, view, panic>> /\ frame[e].pc \in {"err1", "err2"}
        /\ frame'[e].kid = {} /\ frame'[e].pc \in {"err", "run"}
        /\ (\A k \in frame[e].kid : frame'[k] = Free) /\ OthersBut(e, frame[e].kid)
        /\ pt' = [d \in Env |-> [w \in Va |-> IF d \in frame[e].kid THEN Unmapped ELSE pt[d][w]]]
    BY <1>25, DestroyDoes
  <2>1. \A k \in Env : k \notin frame[e].kid => pt'[k] = pt[k]
    BY <2>0, <1>b DEF Tables
  <2>2. Ready(e)'
    BY <2>0, <2>1, <1>a, <1>b, <1>k DEF Ready, Where, Place, Alive
  <2>3. \A k \in frame[e].kid : Ready(k)'
    BY <2>0, Starts DEF Ready, Alive, Where, Place
  <2> QED
    BY <2>0, <2>1, <2>2, <2>3, <1>b, <1>l
<1>26. CASE err(e)
  <2>0. /\ UNCHANGED <<entry, view, panic>> /\ frame[e].pc = "err" /\ frame[e].kid = {}
        /\ Others(e) /\ frame'[e] = Running /\ Only(e, Fd, Unmapped)
    BY <1>26, ErrDoes
  <2> QED
    BY <2>0, <1>w, Starts, VaFacts, MapRow DEF Where, Place
<1> QED
  BY <1>3, <1>4, <1>5, <1>6, <1>7, <1>8, <1>9, <1>10, <1>11, <1>12, <1>13, <1>14, <1>15, <1>16, <1>17,
     <1>18, <1>19, <1>20, <1>21, <1>22, <1>23, <1>24, <1>25, <1>26 DEF ForkStep, SpawnStep

\* The kernel never stops in do_tlb_mod for want of a handler: only when it has no
\* page left (fork's order of registering the handlers).
THEOREM HandlersReady == Spec => []HandlerReady
<1>1. Init => Handlers
  <2> SUFFICES ASSUME Init
               PROVE  Handlers
    OBVIOUS
  <2>1. entry = [e \in Env |-> FALSE] /\ panic = FALSE
    BY DEF Init
  <2>2. ASSUME NEW e \in Env
        PROVE  Ready(e)
    <3>1. frame[e] \in {Running, Other, Free}
      BY DEF Init
    <3>2. frame[e].pc \in {"run", "other", "free"} /\ frame[e].kid = {}
      BY <3>1, Starts
    <3>3. \A v \in Va : "COW" \notin pt[e][v].perm
      BY DEF Init, Unmapped, Map
    <3> QED
      BY <3>2, <3>3 DEF Ready, Where, Place
  <2> QED
    BY <2>1, <2>2 DEF Handlers
<1>2. Handlers => HandlerReady
  BY DEF Handlers, HandlerReady
<1> QED
  BY <1>1, <1>2, HandlersNext, ForkInvariance, PTL DEF Spec

------------------------------------------------------------------------------
(* Whose page it is *)

\* d is being made by spawn.
Made(d) == \E e \in Env : d \in frame[e].kid /\ Where(e) \in Building
\* Somebody writes to the page d has at w.
Strong(d, w) == "D" \in pt[d][w].perm \/ Made(d)
\* The page d has at w is shared for a moment: it is the one fork is freezing, or the
\* one spawn is filling.
Passing(d, w, e, v) ==
  \/ Where(d) = "dup_parent" /\ w = frame[d].va /\ v = w /\ e \in frame[d].kid
  \/ frame[d].pc = "load_copy" /\ w = UTEMP /\ e \in frame[d].kid /\ v = Next1(d).page
  \/ frame[e].pc = "load_copy" /\ v = UTEMP /\ d \in frame[e].kid /\ w = Next1(e).page
\* A private page somebody writes to is mapped once; a shared one at one address only.
Sole ==
  \A d, e \in Env, v, w \in Va : \A p \in pt[d][w].page : p \in pt[e][v].page =>
    /\ w \notin Lib /\ Strong(d, w) => (d = e /\ v = w) \/ Passing(d, w, e, v)
    /\ w \in Lib => v = w /\ (v = Fd => d = e)

\* What holds after a step at the places it does not change.
StrongKept ==
  \A d \in Env, w \in Va :
    pt'[d][w] = pt[d][w] /\ pt[d][w].page # {} /\ Strong(d, w)' => Strong(d, w)
PassingKept ==
  \A d, e \in Env, v, w \in Va :
    /\ pt'[d][w] = pt[d][w] /\ pt[d][w].page # {}
    /\ pt'[e][v] = pt[e][v] /\ pt[e][v].page # {}
    /\ Passing(d, w, e, v)
    => Passing(d, w, e, v)'

\* A step that only takes pages away.
LEMMA SoleLess ==
  ASSUME Sole, \A d \in Env, w \in Va : pt'[d][w] = pt[d][w] \/ pt'[d][w].page = {},
         StrongKept, PassingKept
  PROVE  Sole'
<1> SUFFICES ASSUME NEW d \in Env, NEW e \in Env, NEW v \in Va, NEW w \in Va,
                    NEW p \in pt'[d][w].page, p \in pt'[e][v].page
             PROVE  /\ w \notin Lib /\ Strong(d, w)' => (d = e /\ v = w) \/ Passing(d, w, e, v)'
                    /\ w \in Lib => v = w /\ (v = Fd => d = e)
  BY DEF Sole
<1>1. pt'[d][w] = pt[d][w] /\ pt'[e][v] = pt[e][v] /\ p \in pt[d][w].page /\ p \in pt[e][v].page
  OBVIOUS
<1>2. /\ w \notin Lib /\ Strong(d, w) => (d = e /\ v = w) \/ Passing(d, w, e, v)
      /\ w \in Lib => v = w /\ (v = Fd => d = e)
  BY <1>1 DEF Sole
<1>3. Strong(d, w)' => Strong(d, w)
  BY <1>1 DEF StrongKept
<1>4. Passing(d, w, e, v) => Passing(d, w, e, v)'
  BY <1>1 DEF PassingKept
<1> QED
  BY <1>2, <1>3, <1>4

\* A step that gives one place a page nobody else has.
LEMMA SoleStep ==
  ASSUME Sole, NEW d0 \in Env, NEW w0 \in Va,
         \A d \in Env, w \in Va :
           pt'[d][w] = pt[d][w] \/ pt'[d][w].page = {} \/ (d = d0 /\ w = w0),
         \A p \in pt'[d0][w0].page : \A d \in Env, w \in Va : p \in pt'[d][w].page => d = d0 /\ w = w0,
         StrongKept, PassingKept
  PROVE  Sole'
<1> SUFFICES ASSUME NEW d \in Env, NEW e \in Env, NEW v \in Va, NEW w \in Va,
                    NEW p \in pt'[d][w].page, p \in pt'[e][v].page
             PROVE  /\ w \notin Lib /\ Strong(d, w)' => (d = e /\ v = w) \/ Passing(d, w, e, v)'
                    /\ w \in Lib => v = w /\ (v = Fd => d = e)
  BY DEF Sole
<1>1. CASE (d = d0 /\ w = w0) \/ (e = d0 /\ v = w0)
  BY <1>1
<1>2. CASE ~((d = d0 /\ w = w0) \/ (e = d0 /\ v = w0))
  <2>1. pt'[d][w] = pt[d][w] /\ pt'[e][v] = pt[e][v] /\ p \in pt[d][w].page /\ p \in pt[e][v].page
    BY <1>2
  <2>2. /\ w \notin Lib /\ Strong(d, w) => (d = e /\ v = w) \/ Passing(d, w, e, v)
        /\ w \in Lib => v = w /\ (v = Fd => d = e)
    BY <2>1 DEF Sole
  <2>3. Strong(d, w)' => Strong(d, w)
    BY <2>1 DEF StrongKept
  <2>4. Passing(d, w, e, v) => Passing(d, w, e, v)'
    BY <2>1 DEF PassingKept
  <2> QED
    BY <2>2, <2>3, <2>4
<1> QED
  BY <1>1, <1>2

\* A step of e that is not the end of such a moment.
LEMMA CalmStep ==
  ASSUME Basics, NEW e \in Env, frame[e].pc \notin Idle,
         NEW K \in SUBSET Env, \A k \in K : (frame[k] = Free \/ k \in frame[e].kid) /\ frame'[k].kid = {},
         OthersBut(e, K), frame[e].pc # "load_copy",
         Where(e) = "dup_parent" =>
           Where(e)' = "dup_parent" /\ frame'[e].va = frame[e].va /\ frame'[e].kid = frame[e].kid,
         Where(e)' \in Building =>
           \A k \in frame'[e].kid : (Where(e) \in Building /\ k \in frame[e].kid) \/ \A w \in Va : pt'[k][w].page = {}
  PROVE  StrongKept /\ PassingKept
<1>1. \A k \in K : frame[k] = Free \/ frame[k] = Embryo
  BY DEF Basics, Kids
<1>2. \A k \in K : Where(k) # "dup_parent" /\ frame[k].pc # "load_copy"
  BY <1>1, Starts DEF Where, Place
<1>3. \A d \in Env : Where(d) = "dup_parent" =>
        Where(d)' = "dup_parent" /\ frame'[d].va = frame[d].va /\ frame'[d].kid = frame[d].kid
  BY <1>2 DEF OthersBut, Where
<1>4. \A d \in Env : frame[d].pc = "load_copy" => frame'[d] = frame[d]
  BY <1>2 DEF OthersBut
<1>5. PassingKept
  <2> SUFFICES ASSUME NEW d \in Env, NEW c \in Env, NEW v \in Va, NEW w \in Va, Passing(d, w, c, v)
               PROVE  Passing(d, w, c, v)'
    BY DEF PassingKept
  <2>1. CASE Where(d) = "dup_parent" /\ w = frame[d].va /\ v = w /\ c \in frame[d].kid
    BY <2>1, <1>3 DEF Passing
  <2>2. CASE frame[d].pc = "load_copy" /\ w = UTEMP /\ c \in frame[d].kid /\ v = Next1(d).page
    BY <2>2, <1>4 DEF Passing, Next1
  <2>3. CASE frame[c].pc = "load_copy" /\ v = UTEMP /\ d \in frame[c].kid /\ w = Next1(c).page
    BY <2>3, <1>4 DEF Passing, Next1
  <2> QED
    BY <2>1, <2>2, <2>3 DEF Passing
<1>6. StrongKept
  <2> SUFFICES ASSUME NEW d \in Env, NEW w \in Va,
                      pt'[d][w] = pt[d][w], pt[d][w].page # {}, Made(d)'
               PROVE  Made(d)
    BY DEF StrongKept, Strong
  <2>1. PICK c \in Env : d \in frame'[c].kid /\ Where(c)' \in Building
    BY DEF Made
  <2>2. CASE c = e
    BY <2>1, <2>2 DEF Made
  <2>3. CASE c # e
    <3>1. c \notin K
      BY <2>1
    <3>2. frame'[c] = frame[c]
      BY <2>3, <3>1 DEF OthersBut
    <3> QED
      BY <2>1, <3>2 DEF Made, Where
  <2> QED
    BY <2>2, <2>3
<1> QED
  BY <1>5, <1>6

\* Every step keeps a writable private page its owner's alone.
LEMMA SoleNext ==
  ASSUME Basics, Sole, [Next]_vars
  PROVE  Sole'
<1>0. CASE UNCHANGED vars
  BY <1>0 DEF vars, Sole, Strong, Made, Passing, Where, Next1
<1> SUFFICES ASSUME NEW e \in Env, ForkStep(e) \/ SpawnStep(e)
             PROVE  Sole'
  BY <1>0 DEF Next
<1>a. frame[e].pc \notin Idle
  BY Acting
<1>b. Tables /\ Perms /\ Temps /\ Fits /\ Kids /\ Frames
  BY DEF Basics
<1>k. /\ frame[e].kid \subseteq Env /\ e \notin frame[e].kid
      /\ \A k \in frame[e].kid : frame[k] = Embryo
      /\ \A d \in Env : e \notin frame[d].kid
  <2>1. frame[e].kid \subseteq Env
    BY DEF Basics, Frames, Frame
  <2> QED
    BY <2>1, <1>a, <1>b, Starts DEF Kids
<1>v. UTEMP \in Va /\ UCOW \in Va /\ UTEMP \notin Lib /\ UCOW \notin Lib
  BY VaFacts
\* A step that changes no frame but e's.
<1>c. ASSUME Others(e), frame[e].pc # "load_copy",
             Where(e) = "dup_parent" =>
               Where(e)' = "dup_parent" /\ frame'[e].va = frame[e].va /\ frame'[e].kid = frame[e].kid,
             Where(e)' \in Building => frame'[e].kid = {} \/ (Where(e) \in Building /\ frame'[e].kid = frame[e].kid)
      PROVE  StrongKept /\ PassingKept
  <2> DEFINE K == {}
  <2>1. K \in SUBSET Env /\ (\A k \in K : (frame[k] = Free \/ k \in frame[e].kid) /\ frame'[k].kid = {})
        /\ OthersBut(e, K)
    BY <1>c DEF Others, OthersBut
  <2> HIDE DEF K
  <2> QED
    BY <1>c, <1>a, <2>1, CalmStep
\* A step that puts a fresh page somewhere.
<1>f. ASSUME NEW d \in Env, NEW v \in Va, NEW x \in Va, NEW c \in Env, NEW m, ~NoMemory,
             Only(d, v, Map(NewPage(c, x), m)), StrongKept, PassingKept
      PROVE  Sole'
  <2>1. NewPage(c, x) \notin Used(pt)
    BY <1>f, <1>b, NewPageFresh
  <2>2. \A k \in Env, w \in Va : NewPage(c, x) \notin pt[k][w].page
    BY <2>1 DEF Used
  <2>3. \A k \in Env, w \in Va : pt'[k][w] = IF k = d /\ w = v THEN Map(NewPage(c, x), m) ELSE pt[k][w]
    BY <1>f DEF Only
  <2>4. Map(NewPage(c, x), m).page = {NewPage(c, x)}
    BY DEF Map
  <2>5. \A p \in pt'[d][v].page : \A k \in Env, w \in Va : p \in pt'[k][w].page => k = d /\ w = v
    BY <2>2, <2>3, <2>4
  <2> QED
    BY <1>f, <2>3, <2>5, SoleStep
<1>u. ASSUME UNCHANGED pt, StrongKept, PassingKept
      PROVE  Sole'
  BY <1>u, SoleLess
<1>d. ASSUME NEW d \in Env, NEW v \in Va, Only(d, v, Unmapped), StrongKept, PassingKept
      PROVE  Sole'
  BY <1>d, SoleLess, MapRow DEF Only
<1>3. ASSUME NEW v \in Own, NEW x \in Values, write(e, v, x)
      PROVE  Sole'
  BY <1>3, WriteDoes DEF Sole, Strong, Made, Passing, Where, Next1
<1>4. ASSUME NEW v \in Own, do_tlb_mod(e, v)
      PROVE  Sole'
  <2>0. /\ UNCHANGED pt /\ frame[e].pc \in {"run"} \union InFork
        /\ \/ /\ Others(e) /\ frame'[e].pc = "cow_copy" /\ frame'[e].back = frame[e].pc
              /\ Works1(frame'[e], frame[e])
           \/ UNCHANGED frame
    BY <1>4, DoTlbModDoes
  <2>1. Others(e) /\ Where(e)' = Where(e) /\ frame'[e].kid = frame[e].kid /\ frame'[e].va = frame[e].va
    BY <2>0 DEF Where, Place, Works1, Others
  <2> QED
    BY <2>0, <2>1, <1>c, <1>u
<1>5. CASE cow_copy(e)
  <2>0. frame[e].pc = "cow_copy"
    BY <1>5, CowCopyDoes
  <2>1. CASE UNCHANGED <<pt, frame>>
    BY <2>0, <2>1, <1>c, <1>u DEF Others, Where
  <2>2. CASE /\ ~NoMemory /\ Others(e)
             /\ frame'[e].pc = "cow_map" /\ Works1(frame'[e], frame[e])
             /\ frame'[e].back = frame[e].back
             /\ Only(e, UCOW, Map(NewPage(e, Fault(e)), {"D"}))
    <3>1. Where(e)' = Where(e) /\ frame'[e].kid = frame[e].kid /\ frame'[e].va = frame[e].va
      BY <2>0, <2>2 DEF Where, Place, Works1
    <3>2. Fault(e) \in Va
      BY <2>0, <1>b, VaFacts DEF Frames, Sound, Fault
    <3>3. StrongKept /\ PassingKept
      BY <2>0, <2>2, <3>1, <1>c
    <3> QED
      BY <2>2, <3>2, <3>3, <1>v, <1>f
  <2> QED
    BY <1>5, <2>1, <2>2, CowCopyDoes
<1>6. CASE cow_map(e)
  <2>0. /\ frame[e].pc = "cow_map" /\ Others(e)
        /\ frame'[e].pc = frame[e].back /\ Works1(frame'[e], frame[e])
        /\ pt' = [d \in Env |-> [w \in Va |->
              IF d = e /\ w = frame[e].fault THEN pt[e][UCOW]
              ELSE IF d = e /\ w = UCOW THEN Unmapped ELSE pt[d][w]]]
    BY <1>6, CowMapDoes
  <2>1. frame[e].back \in {"run"} \union InFork /\ frame[e].fault \in Va /\ frame[e].fault # UCOW
    BY <2>0, <1>b, VaFacts DEF Frames, Frame, Sound
  <2>2. Where(e)' = Where(e) /\ frame'[e].kid = frame[e].kid /\ frame'[e].va = frame[e].va
    BY <2>0, <2>1 DEF Where, Place, Works1
  <2>3. StrongKept /\ PassingKept
    BY <2>0, <2>2, <1>c
  <2>4. ASSUME NEW p \in pt[e][UCOW].page, NEW d \in Env, NEW w \in Va, p \in pt[d][w].page
        PROVE  d = e /\ w = UCOW
    <3>1. Strong(e, UCOW)
      BY <2>0, <1>b DEF Temps, TempsOf, Strong
    <3>2. (e = d /\ w = UCOW) \/ Passing(e, UCOW, d, w)
      BY <2>4, <3>1, <1>v DEF Sole
    <3>3. ~Passing(e, UCOW, d, w)
      <4>1. Where(e) = "dup_parent" => frame[e].va \in Own
        BY DEF Basics, Places, PlacesOf, Where
      <4>2. frame[e].pc # "load_copy" /\ e \notin frame[d].kid
        BY <2>0, <1>k
      <4> QED
        BY <4>1, <4>2, VaFacts DEF Passing
    <3> QED
      BY <3>2, <3>3
  <2>5. \A p \in pt'[e][frame[e].fault].page : \A d \in Env, w \in Va :
          p \in pt'[d][w].page => d = e /\ w = frame[e].fault
    <3>1. pt'[e][frame[e].fault] = pt[e][UCOW] /\ pt'[e][UCOW].page = {}
      BY <2>0, <2>1, <1>v, MapRow
    <3>2. \A d \in Env, w \in Va : pt'[d][w] = pt[d][w] \/ (d = e /\ w \in {UCOW, frame[e].fault})
      BY <2>0
    <3> QED
      BY <2>4, <3>1, <3>2
  <2>6. \A d \in Env, w \in Va :
          pt'[d][w] = pt[d][w] \/ pt'[d][w].page = {} \/ (d = e /\ w = frame[e].fault)
    BY <2>0, MapRow
  <2> QED
    BY <2>1, <2>3, <2>5, <2>6, SoleStep
<1>7. CASE call_fork(e)
  <2>0. /\ UNCHANGED pt /\ frame[e].pc = "run" /\ Others(e) /\ frame'[e].pc = "exofork"
    BY <1>7, CallForkDoes
  <2> QED
    BY <2>0, <1>c, <1>u DEF Where, Place
\* A free env becomes the child.
<1>n. ASSUME NEW k \in Env \ {e}, frame[k] = Free, frame'[k] = Embryo, OthersBut(e, {k}), UNCHANGED pt,
             frame[e].pc \in {"exofork", "header"}, frame'[e].kid = {k}
      PROVE  Sole'
  <2> DEFINE K == {k}
  <2>1. K \in SUBSET Env /\ (\A j \in K : (frame[j] = Free \/ j \in frame[e].kid) /\ frame'[j].kid = {})
        /\ OthersBut(e, K)
    BY <1>n, Starts
  <2>2. \A w \in Va : pt'[k][w].page = {}
    <3>1. pt[k] = NoPages
      BY <1>n, <1>b, Starts DEF Temps, TempsOf
    <3> QED
      BY <1>n, <3>1 DEF NoPages, Unmapped
  <2>3. Where(e) # "dup_parent" /\ frame[e].pc # "load_copy"
    BY <1>n DEF Where, Place
  <2>4. \A j \in frame'[e].kid : \A w \in Va : pt'[j][w].page = {}
    BY <1>n, <2>2
  <2> HIDE DEF K
  <2>5. StrongKept /\ PassingKept
    BY <1>a, <2>1, <2>3, <2>4, CalmStep
  <2> QED
    BY <1>n, <2>5, <1>u
<1>8. CASE exofork(e)
  <2>0. /\ UNCHANGED pt /\ frame[e].pc = "exofork" /\ frame[e].kid = {}
        /\ frame'[e].pc \in {"entry", "dup"}
    BY <1>8, ExoforkDoes
  <2>1. CASE Others(e)
    BY <2>0, <2>1, <1>c, <1>u DEF Where, Place
  <2>2. CASE \E k \in Env \ {e} :
                 frame[k] = Free /\ frame'[k] = Embryo /\ OthersBut(e, {k}) /\ frame'[e].kid = {k}
    BY <2>0, <2>2, <1>n
  <2> QED
    BY <1>8, <2>1, <2>2, ExoforkDoes
<1>9. CASE duppage(e)
  <2>0. UNCHANGED pt /\ frame[e].pc = "dup" /\ Others(e) /\ frame'[e].pc = "dup_child"
    BY <1>9, DuppageDoes
  <2> QED
    BY <2>0, <1>c, <1>u DEF Where, Place
\* A page of e is given to its child at the same address.
<1>g. ASSUME NEW a \in (Own \union Lib) \ {Fd}, NEW m,
             pt' = [d \in Env |-> [w \in Va |-> IF d \in frame[e].kid /\ w = a THEN m ELSE pt[d][w]]],
             m.page = pt[e][a].page, pt[e][a].page # {},
             StrongKept, PassingKept,
             \A k \in frame[e].kid : a \in Own =>
               ~Strong(k, a)' /\ (Strong(e, a) => Passing(e, a, k, a)')
      PROVE  Sole'
  <2> SUFFICES ASSUME NEW d \in Env, NEW c \in Env, NEW v \in Va, NEW w \in Va,
                      NEW p \in pt'[d][w].page, p \in pt'[c][v].page
               PROVE  /\ w \notin Lib /\ Strong(d, w)' => (d = c /\ v = w) \/ Passing(d, w, c, v)'
                      /\ w \in Lib => v = w /\ (v = Fd => d = c)
    BY DEF Sole
  <2>0. a \in Va
    BY VaFacts
  <2>1. d \in frame[e].kid /\ w = a => p \in pt[e][a].page
    BY <1>g
  <2>2. c \in frame[e].kid /\ v = a => p \in pt[e][a].page
    BY <1>g
  <2>3. ~(d \in frame[e].kid /\ w = a) => p \in pt[d][w].page /\ pt'[d][w] = pt[d][w]
    BY <1>g
  <2>4. ~(c \in frame[e].kid /\ v = a) => p \in pt[c][v].page /\ pt'[c][v] = pt[c][v]
    BY <1>g
  <2>5. ASSUME w \in Lib
        PROVE  v = w /\ (v = Fd => d = c)
    BY <2>0, <2>1, <2>2, <2>3, <2>4, <2>5 DEF Sole
  <2>6. ASSUME w \notin Lib, Strong(d, w)'
        PROVE  (d = c /\ v = w) \/ Passing(d, w, c, v)'
    <3>1. ~(d \in frame[e].kid /\ w = a)
      BY <2>6, <1>g
    <3>2. p \in pt[d][w].page /\ pt'[d][w] = pt[d][w]
      BY <2>3, <3>1
    <3>3. Strong(d, w)
      BY <2>6, <3>2, <1>g DEF StrongKept
    <3>4. CASE c \in frame[e].kid /\ v = a
      <4>1. p \in pt[e][a].page
        BY <2>2, <3>4
      <4>2. (d = e /\ a = w) \/ Passing(d, w, e, a)
        BY <2>0, <2>6, <3>2, <3>3, <4>1 DEF Sole
      <4>3. ~Passing(d, w, e, a)
        <5>1. a # UTEMP
          BY VaFacts
        <5> QED
          BY <5>1, <1>k DEF Passing
      <4> QED
        BY <2>6, <3>3, <3>4, <4>2, <4>3, <1>g
    <3>5. CASE ~(c \in frame[e].kid /\ v = a)
      <4>1. (d = c /\ v = w) \/ Passing(d, w, c, v)
        BY <2>4, <2>6, <3>2, <3>3, <3>5 DEF Sole
      <4> QED
        BY <4>1, <2>4, <3>2, <3>5, <1>g DEF PassingKept
    <3> QED
      BY <3>4, <3>5
  <2> QED
    BY <2>5, <2>6
<1>10. CASE duppage_child(e)
  <2> DEFINE f == frame[e]
  <2>0. /\ f.pc = "dup_child" /\ Others(e)
        /\ f.va \in (Own \union Lib) \ {Fd} /\ pt[e][f.va].page # {} /\ f.perm = pt[e][f.va].perm
        /\ frame'[e].kid = f.kid /\ frame'[e].pc \in {"dup_parent", "entry", "dup"}
        /\ f.perm = {"D"} => frame'[e].pc = "dup_parent" /\ frame'[e].va = f.va
    BY <1>10, DuppageChildDoes DEF Onward, Works1
  <2>1. StrongKept /\ PassingKept
    BY <2>0, <1>c DEF Where, Place
  <2>2. CASE UNCHANGED pt
    BY <2>1, <2>2, <1>u
  <2>3. CASE pt' = [d \in Env |-> [w \in Va |->
                    IF d \in f.kid /\ w = f.va
                    THEN Map(PageOf(e, f.va), IF f.perm = {"D"} THEN {"COW"} ELSE f.perm) ELSE pt[d][w]]]
    <3> DEFINE m == Map(PageOf(e, f.va), IF f.perm = {"D"} THEN {"COW"} ELSE f.perm)
    <3>0. f.va \in Va
      BY <2>0, VaFacts
    <3>1. m.page = pt[e][f.va].page /\ m.perm = IF f.perm = {"D"} THEN {"COW"} ELSE f.perm
      BY <2>0, <3>0, <1>b, PageOfCell DEF Map
    <3>a. PICK a \in (Own \union Lib) \ {Fd} : a = f.va
      BY <2>0
    <3>2. f.va \in Own => "D" \notin m.perm
      <4>1. f.va \in Own => f.perm \in {{}, {"D"}, {"COW"}}
        BY <2>0, <3>0, <1>b, VaFacts DEF Perms
      <4> QED
        BY <3>1, <4>1
    <3>3. \A k \in f.kid : pt'[k][f.va] = m
      BY <2>3, <3>0, <1>k
    <3> HIDE DEF m
    <3>4. ASSUME NEW k \in f.kid, a \in Own
          PROVE  ~Strong(k, a)' /\ (Strong(e, a) => Passing(e, a, k, a)')
      <4>1. ~(Made(k)')
        <5> SUFFICES ASSUME NEW c \in Env, k \in frame'[c].kid, Where(c)' \in Building
                     PROVE  FALSE
          BY DEF Made
        <5>1. c # e
          BY <2>0 DEF Where, Place
        <5>2. frame'[c] = frame[c]
          BY <5>1, <2>0 DEF Others
        <5> QED
          BY <5>1, <5>2, <3>4, <1>b, <1>k DEF Kids
      <4>2. ~Strong(k, a)'
        <5>1. "D" \notin pt'[k][a].perm
          BY <3>2, <3>3, <3>4, <3>a
        <5> QED
          BY <4>1, <5>1 DEF Strong
      <4>3. ASSUME Strong(e, a)
            PROVE  Passing(e, a, k, a)'
        <5>1. ~Made(e)
          BY <1>k DEF Made
        <5>2. "D" \in f.perm
          BY <4>3, <5>1, <2>0, <3>a DEF Strong
        <5>3. f.perm = {"D"}
          BY <5>2, <3>0, <3>4, <3>a, <2>0, <1>b, VaFacts DEF Perms
        <5>4. Where(e)' = "dup_parent" /\ frame'[e].va = a /\ k \in frame'[e].kid
          BY <5>3, <2>0, <3>4, <3>a DEF Where, Place
        <5> QED
          BY <5>4 DEF Passing
      <4> QED
        BY <4>2, <4>3
    <3>5. pt' = [d \in Env |-> [w \in Va |-> IF d \in f.kid /\ w = a THEN m ELSE pt[d][w]]]
      BY <2>3, <3>a DEF m
    <3>6. m.page = pt[e][a].page /\ pt[e][a].page # {}
      BY <2>0, <3>1, <3>a
    <3> QED
      BY <2>1, <3>4, <3>5, <3>6, <1>g
  <2> QED
    BY <1>10, <2>2, <2>3, DuppageChildDoes
<1>11. CASE duppage_parent(e)
  <2>0. /\ frame[e].pc = "dup_parent" /\ Others(e) /\ frame'[e].pc \in {"entry", "dup"}
        /\ frame'[e].kid = frame[e].kid
        /\ frame[e].va \in Own /\ pt[e][frame[e].va].page # {}
        /\ Only(e, frame[e].va, Map(PageOf(e, frame[e].va), {"COW"}))
    BY <1>11, DuppageParentDoes DEF Onward
  <2>1. PICK a \in Own : a = frame[e].va
    BY <2>0
  <2>2. a \in Va /\ \A d \in Env, w \in Va : pt'[d][w].page = pt[d][w].page
    <3>1. a \in Va
      BY VaFacts
    <3>2. pt[e][a].page = {PageOf(e, a)}
      BY <3>1, <2>0, <2>1, <1>b, PageOfCell
    <3>3. \A d \in Env, w \in Va : pt'[d][w] = IF d = e /\ w = a THEN Map(PageOf(e, a), {"COW"}) ELSE pt[d][w]
      BY <2>0, <2>1 DEF Only
    <3>4. Map(PageOf(e, a), {"COW"}).page = {PageOf(e, a)}
      BY DEF Map
    <3> QED
      BY <3>1, <3>2, <3>3, <3>4
  <2>3. \A d \in Env, w \in Va : pt'[d][w] = pt[d][w] \/ (d = e /\ w = a)
    BY <2>0, <2>1 DEF Only
  <2>4. "D" \notin pt'[e][a].perm
    BY <2>0, <2>1, <2>2 DEF Only, Map
  <2>5. ASSUME NEW d \in Env, Made(d)'
        PROVE  Made(d) /\ d # e
    <3>1. PICK c \in Env : d \in frame'[c].kid /\ Where(c)' \in Building
      BY <2>5 DEF Made
    <3>2. c # e
      BY <3>1, <2>0 DEF Where, Place
    <3>3. frame'[c] = frame[c]
      BY <3>2, <2>0 DEF Others
    <3> QED
      BY <3>1, <3>3, <1>k DEF Made, Where
  <2>6. \A d \in Env, w \in Va : Strong(d, w)' => Strong(d, w) /\ ~(d = e /\ w = a)
    BY <2>3, <2>4, <2>5 DEF Strong
  <2>7. ASSUME NEW d \in Env, NEW c \in Env, NEW v \in Va, NEW w \in Va, Passing(d, w, c, v),
               ~(d = e /\ w = a)
        PROVE  Passing(d, w, c, v)'
    <3>1. CASE Where(d) = "dup_parent" /\ w = frame[d].va /\ v = w /\ c \in frame[d].kid
      <4>1. frame'[d] = frame[d]
        BY <3>1, <2>0, <2>1, <2>7 DEF Others
      <4> QED
        BY <3>1, <4>1 DEF Passing, Where
    <3>2. CASE frame[d].pc = "load_copy" /\ w = UTEMP /\ c \in frame[d].kid /\ v = Next1(d).page
      <4>1. frame'[d] = frame[d]
        BY <3>2, <2>0 DEF Others
      <4> QED
        BY <3>2, <4>1 DEF Passing, Next1
    <3>3. CASE frame[c].pc = "load_copy" /\ v = UTEMP /\ d \in frame[c].kid /\ w = Next1(c).page
      <4>1. frame'[c] = frame[c]
        BY <3>3, <2>0 DEF Others
      <4> QED
        BY <3>3, <4>1 DEF Passing, Next1
    <3> QED
      BY <2>7, <3>1, <3>2, <3>3 DEF Passing
  <2> SUFFICES ASSUME NEW d \in Env, NEW c \in Env, NEW v \in Va, NEW w \in Va,
                      NEW p \in pt'[d][w].page, p \in pt'[c][v].page
               PROVE  /\ w \notin Lib /\ Strong(d, w)' => (d = c /\ v = w) \/ Passing(d, w, c, v)'
                      /\ w \in Lib => v = w /\ (v = Fd => d = c)
    BY DEF Sole
  <2>8. /\ w \notin Lib /\ Strong(d, w) => (d = c /\ v = w) \/ Passing(d, w, c, v)
        /\ w \in Lib => v = w /\ (v = Fd => d = c)
    BY <2>2 DEF Sole
  <2> QED
    BY <2>6, <2>7, <2>8
<1>12. CASE set_entry(e)
  <2>0. UNCHANGED pt /\ frame[e].pc = "entry" /\ Others(e) /\ frame'[e].pc = "runnable"
    BY <1>12, SetEntryDoes
  <2> QED
    BY <2>0, <1>c, <1>u DEF Where, Place
\* The child is let go.
<1>l. ASSUME OthersBut(e, frame[e].kid), frame'[e].kid = {}, \A k \in frame[e].kid : frame'[k].kid = {},
             frame[e].pc \in {"runnable", "start", "err1", "err2"}
      PROVE  StrongKept /\ PassingKept
  <2> DEFINE K == frame[e].kid
  <2>1. K \in SUBSET Env /\ (\A k \in K : (frame[k] = Free \/ k \in frame[e].kid) /\ frame'[k].kid = {})
        /\ OthersBut(e, K)
    BY <1>l, <1>k
  <2>2. Where(e) # "dup_parent" /\ frame[e].pc # "load_copy"
    BY <1>l DEF Where, Place
  <2> HIDE DEF K
  <2> QED
    BY <1>l, <1>a, <2>1, <2>2, CalmStep
<1>13. CASE set_runnable(e)
  <2>0. /\ UNCHANGED pt /\ frame[e].pc = "runnable"
        /\ frame'[e] = Running /\ (\A k \in frame[e].kid : frame'[k] = Running)
        /\ OthersBut(e, frame[e].kid)
    BY <1>13, SetRunnableDoes
  <2>1. StrongKept /\ PassingKept
    BY <2>0, <1>l, Starts
  <2> QED
    BY <2>0, <2>1, <1>u
<1>14. CASE env_free(e)
  <2>0. /\ frame'[e] = Free /\ (\A k \in frame[e].kid : frame'[k] = Orphan)
        /\ OthersBut(e, frame[e].kid)
        /\ pt' = [d \in Env |-> [w \in Va |-> IF d = e THEN Unmapped ELSE pt[d][w]]]
    BY <1>14, EnvFreeDoes
  <2>1. \A d \in Env, w \in Va : pt'[d][w] = IF d = e THEN Unmapped ELSE pt[d][w]
    BY <2>0
  <2>2. StrongKept
    <3> SUFFICES ASSUME NEW d \in Env, Made(d)'
                 PROVE  Made(d)
      BY DEF StrongKept, Strong
    <3>1. PICK c \in Env : d \in frame'[c].kid /\ Where(c)' \in Building
      BY DEF Made
    <3>2. c # e /\ c \notin frame[e].kid
      BY <3>1, <2>0, Starts
    <3>3. frame'[c] = frame[c]
      BY <3>2, <2>0 DEF OthersBut
    <3> QED
      BY <3>1, <3>3 DEF Made, Where
  <2>3. PassingKept
    <3> SUFFICES ASSUME NEW d \in Env, NEW c \in Env, NEW v \in Va, NEW w \in Va, Passing(d, w, c, v),
                        pt'[d][w].page # {}, pt'[c][v].page # {}
                 PROVE  Passing(d, w, c, v)'
      BY DEF PassingKept
    <3>0. d # e /\ c # e
      BY <2>1, MapRow
    <3>k. \A k \in frame[e].kid : Where(k) # "dup_parent" /\ frame[k].pc # "load_copy"
      BY <1>k, Starts DEF Where, Place
    <3>1. CASE Where(d) = "dup_parent" /\ w = frame[d].va /\ v = w /\ c \in frame[d].kid
      <4>1. frame'[d] = frame[d]
        BY <3>0, <3>k, <3>1, <2>0 DEF OthersBut
      <4> QED
        BY <3>1, <4>1 DEF Passing, Where
    <3>2. CASE frame[d].pc = "load_copy" /\ w = UTEMP /\ c \in frame[d].kid /\ v = Next1(d).page
      <4>1. frame'[d] = frame[d]
        BY <3>0, <3>k, <3>2, <2>0 DEF OthersBut
      <4> QED
        BY <3>2, <4>1 DEF Passing, Next1
    <3>3. CASE frame[c].pc = "load_copy" /\ v = UTEMP /\ d \in frame[c].kid /\ w = Next1(c).page
      <4>1. frame'[c] = frame[c]
        BY <3>0, <3>k, <3>3, <2>0 DEF OthersBut
      <4> QED
        BY <3>3, <4>1 DEF Passing, Next1
    <3> QED
      BY <3>1, <3>2, <3>3 DEF Passing
  <2> QED
    BY <2>1, <2>2, <2>3, MapRow, SoleLess
<1>15. ASSUME NEW p \in Programs, spawn(e, p)
       PROVE  Sole'
  <2>0. /\ frame[e].pc = "run" /\ ~NoMemory /\ Others(e) /\ frame'[e].pc = "header"
        /\ Only(e, Fd, Map(NewPage(e, Fd), {"D", "LIB"}))
    BY <1>15, SpawnDoes
  <2>1. StrongKept /\ PassingKept
    BY <2>0, <1>c DEF Where, Place
  <2> QED
    BY <2>0, <2>1, <1>f, VaFacts
<1>16. CASE spawn_exofork(e)
  <2>0. /\ UNCHANGED pt /\ frame[e].pc = "header" /\ frame'[e].pc \in {"err", "stack"}
    BY <1>16, SpawnExoforkDoes
  <2>1. CASE Others(e) /\ frame'[e].kid = {}
    BY <2>0, <2>1, <1>c, <1>u DEF Where, Place
  <2>2. CASE \E k \in Env \ {e} :
                 frame[k] = Free /\ frame'[k] = Embryo /\ OthersBut(e, {k}) /\ frame'[e].kid = {k}
    BY <2>0, <2>2, <1>n
  <2> QED
    BY <1>16, <2>1, <2>2, SpawnExoforkDoes
<1>17. CASE init_stack(e)
  <2>0. /\ frame[e].pc = "stack"
        /\ Others(e) /\ frame'[e].kid = frame[e].kid /\ frame'[e].pc \in {"err1", "stack_map"}
    BY <1>17, InitStackDoes DEF Works1
  <2>1. StrongKept /\ PassingKept
    BY <2>0, <1>c DEF Where, Place
  <2>2. CASE UNCHANGED pt
    BY <2>1, <2>2, <1>u
  <2>3. CASE ~NoMemory /\ Only(e, UTEMP, Map(NewPage(e, UTEMP), {"D"}))
    BY <2>1, <2>3, <1>f, <1>v
  <2> QED
    BY <1>17, <2>2, <2>3, InitStackDoes
<1>18. CASE init_stack_map(e)
  <2>0. /\ frame[e].pc = "stack_map" /\ pt[e][UTEMP].perm = {"D"}
        /\ Others(e) /\ frame'[e].kid = frame[e].kid /\ frame'[e].pc \in {"err1", "load"}
    BY <1>18, InitStackMapDoes
  <2>1. StrongKept /\ PassingKept
    BY <2>0, <1>c DEF Where, Place
  <2>2. CASE Only(e, UTEMP, Unmapped)
    BY <2>1, <2>2, <1>d, <1>v
  <2>3. CASE /\ frame[e].kid # {}
             /\ pt' = [d \in Env |-> [w \in Va |->
                    IF d = Kid(e) /\ w = Stack THEN pt[e][UTEMP]
                    ELSE IF d = e /\ w = UTEMP THEN Unmapped ELSE pt[d][w]]]
    <3>1. PICK k \in Env : k = Kid(e) /\ k # e
      BY <2>3, TheKid
    <3>2. \A d \in Env, w \in Va : pt'[d][w] = IF d = k /\ w = Stack THEN pt[e][UTEMP]
                                               ELSE IF d = e /\ w = UTEMP THEN Unmapped ELSE pt[d][w]
      BY <2>3, <3>1
    <3>3. ASSUME NEW p \in pt[e][UTEMP].page, NEW d \in Env, NEW w \in Va, p \in pt[d][w].page
          PROVE  d = e /\ w = UTEMP
      <4>1. Strong(e, UTEMP)
        BY <2>0 DEF Strong
      <4>2. (e = d /\ w = UTEMP) \/ Passing(e, UTEMP, d, w)
        BY <3>3, <4>1, <1>v DEF Sole
      <4>3. ~Passing(e, UTEMP, d, w)
        BY <2>0, <1>k DEF Passing, Where, Place
      <4> QED
        BY <4>2, <4>3
    <3>4. \A p \in pt'[k][Stack].page : \A d \in Env, w \in Va : p \in pt'[d][w].page => d = k /\ w = Stack
      BY <3>1, <3>2, <3>3, MapRow, VaFacts
    <3>5. \A d \in Env, w \in Va : pt'[d][w] = pt[d][w] \/ pt'[d][w].page = {} \/ (d = k /\ w = Stack)
      BY <3>2, MapRow
    <3> QED
      BY <2>1, <3>4, <3>5, VaFacts, SoleStep
  <2> QED
    BY <1>18, <2>2, <2>3, InitStackMapDoes
<1>19. CASE spawn_mapper(e)
  <2>0. /\ frame[e].pc = "load" /\ frame[e].todo # <<>>
        /\ frame[e].kid # {} /\ Others(e)
        /\ frame'[e].kid = frame[e].kid /\ frame'[e].pc \in {"err1", "load", "load_map"}
    BY <1>19, SpawnMapperDoes
  <2>1. StrongKept /\ PassingKept
    BY <2>0, <1>c DEF Where, Place
  <2>2. CASE UNCHANGED pt
    BY <2>1, <2>2, <1>u
  <2>3. CASE ~NoMemory /\ Only(Kid(e), Next1(e).page, Map(NewPage(Kid(e), Next1(e).page), Next1(e).perm))
    BY <2>0, <2>1, <2>3, <1>f, TheKid, Next1Call
  <2> QED
    BY <1>19, <2>2, <2>3, SpawnMapperDoes
<1>20. CASE mapper_map(e)
  <2>0. /\ frame[e].pc = "load_map" /\ frame[e].todo # <<>>
        /\ frame[e].kid # {} /\ Others(e) /\ frame'[e].todo = frame[e].todo
        /\ frame'[e].kid = frame[e].kid /\ frame'[e].pc \in {"err1", "load_copy"}
    BY <1>20, MapperMapDoes DEF Works1
  <2>1. StrongKept /\ PassingKept
    BY <2>0, <1>c DEF Where, Place
  <2>2. PICK k \in Env : k = Kid(e) /\ k # e /\ frame[e].kid = {k} /\ frame[k] = Embryo
    BY <2>0, TheKid
  <2>3. PICK a \in Own : a = Next1(e).page
    BY <2>0, Next1Call
  <2>4. CASE Only(Kid(e), Next1(e).page, Unmapped)
    BY <2>1, <2>2, <2>3, <2>4, <1>d, VaFacts
  <2>5. CASE Only(e, UTEMP, Map(PageOf(Kid(e), Next1(e).page), {"D"})) /\ frame'[e].pc = "load_copy"
    <3>0. a \in Va /\ a # UTEMP /\ a \notin Lib
      BY VaFacts
    <3>1. pt[k][a].page # {}
      BY <2>0, <2>2, <2>3 DEF Basics, Places
    <3>2. pt[k][a].page = {PageOf(k, a)}
      BY <3>0, <3>1, <1>b, PageOfCell
    <3>3. /\ pt'[e][UTEMP].page = pt[k][a].page
          /\ \A d \in Env, w \in Va : ~(d = e /\ w = UTEMP) => pt'[d][w] = pt[d][w]
      <4>1. Map(PageOf(k, a), {"D"}).page = {PageOf(k, a)}
        BY DEF Map
      <4> QED
        BY <2>2, <2>3, <2>5, <3>2, <4>1, <1>v DEF Only
    <3>4. ASSUME NEW p \in pt[k][a].page, NEW d \in Env, NEW w \in Va, p \in pt[d][w].page
          PROVE  d = k /\ w = a
      <4>1. Strong(k, a)
        BY <2>0, <2>2 DEF Strong, Made, Where, Place
      <4>2. (k = d /\ w = a) \/ Passing(k, a, d, w)
        BY <3>0, <3>4, <4>1 DEF Sole
      <4>3. ~Passing(k, a, d, w)
        <5>1. Where(k) # "dup_parent" /\ frame[k].pc # "load_copy"
          BY <2>2, Starts DEF Where, Place
        <5>2. k \in frame[d].kid => d = e
          BY <2>2, <1>b DEF Kids
        <5> QED
          BY <5>1, <5>2, <2>0 DEF Passing
      <4> QED
        BY <4>2, <4>3
    <3>5. Passing(e, UTEMP, k, a)' /\ Passing(k, a, e, UTEMP)'
      BY <2>0, <2>2, <2>3, <2>5 DEF Passing, Next1
    <3> SUFFICES ASSUME NEW d \in Env, NEW c \in Env, NEW v \in Va, NEW w \in Va,
                        NEW p \in pt'[d][w].page, p \in pt'[c][v].page
                 PROVE  /\ w \notin Lib /\ Strong(d, w)' => (d = c /\ v = w) \/ Passing(d, w, c, v)'
                        /\ w \in Lib => v = w /\ (v = Fd => d = c)
      BY DEF Sole
    <3>6. CASE (d = e /\ w = UTEMP) \/ (c = e /\ v = UTEMP)
      <4>1. p \in pt[k][a].page
        BY <3>3, <3>6
      <4>2. (d = e /\ w = UTEMP) \/ (d = k /\ w = a)
        BY <3>3, <3>4, <4>1
      <4>3. (c = e /\ v = UTEMP) \/ (c = k /\ v = a)
        BY <3>3, <3>4, <4>1
      <4> QED
        BY <4>2, <4>3, <3>0, <3>5, <1>v
    <3>7. CASE ~((d = e /\ w = UTEMP) \/ (c = e /\ v = UTEMP))
      <4>1. pt'[d][w] = pt[d][w] /\ pt'[c][v] = pt[c][v] /\ p \in pt[d][w].page /\ p \in pt[c][v].page
        BY <3>3, <3>7
      <4>2. /\ w \notin Lib /\ Strong(d, w) => (d = c /\ v = w) \/ Passing(d, w, c, v)
            /\ w \in Lib => v = w /\ (v = Fd => d = c)
        BY <4>1 DEF Sole
      <4>3. Strong(d, w)' => Strong(d, w)
        BY <4>1, <2>1 DEF StrongKept
      <4>4. Passing(d, w, c, v) => Passing(d, w, c, v)'
        BY <4>1, <2>1 DEF PassingKept
      <4> QED
        BY <4>2, <4>3, <4>4
    <3> QED
      BY <3>6, <3>7
  <2> QED
    BY <1>20, <2>4, <2>5, MapperMapDoes
<1>21. CASE mapper_copy(e)
  <2>0. /\ frame[e].pc = "load_copy"
        /\ Others(e) /\ frame'[e].pc = "load" /\ frame'[e].kid = frame[e].kid /\ Only(e, UTEMP, Unmapped)
    BY <1>21, MapperCopyDoes
  <2>1. \A d \in Env, w \in Va : pt'[d][w] = IF d = e /\ w = UTEMP THEN Unmapped ELSE pt[d][w]
    BY <2>0 DEF Only
  <2>2. StrongKept
    <3> SUFFICES ASSUME NEW d \in Env, Made(d)'
                 PROVE  Made(d)
      BY DEF StrongKept, Strong
    <3>1. PICK c \in Env : d \in frame'[c].kid /\ Where(c)' \in Building
      BY DEF Made
    <3>2. d \in frame[c].kid /\ Where(c) \in Building
      BY <3>1, <2>0 DEF Others, Where, Place
    <3> QED
      BY <3>2 DEF Made
  <2>3. PassingKept
    <3> SUFFICES ASSUME NEW d \in Env, NEW c \in Env, NEW v \in Va, NEW w \in Va, Passing(d, w, c, v),
                        pt'[d][w].page # {}, pt'[c][v].page # {}
                 PROVE  Passing(d, w, c, v)'
      BY DEF PassingKept
    <3>0. ~(d = e /\ w = UTEMP) /\ ~(c = e /\ v = UTEMP)
      BY <2>1, MapRow
    <3>1. CASE Where(d) = "dup_parent" /\ w = frame[d].va /\ v = w /\ c \in frame[d].kid
      <4>1. frame'[d] = frame[d]
        BY <3>1, <2>0 DEF Others, Where, Place
      <4> QED
        BY <3>1, <4>1 DEF Passing, Where
    <3>2. CASE frame[d].pc = "load_copy" /\ w = UTEMP /\ c \in frame[d].kid /\ v = Next1(d).page
      <4>1. frame'[d] = frame[d]
        BY <3>0, <3>2, <2>0 DEF Others
      <4> QED
        BY <3>2, <4>1 DEF Passing, Next1
    <3>3. CASE frame[c].pc = "load_copy" /\ v = UTEMP /\ d \in frame[c].kid /\ w = Next1(c).page
      <4>1. frame'[c] = frame[c]
        BY <3>0, <3>3, <2>0 DEF Others
      <4> QED
        BY <3>3, <4>1 DEF Passing, Next1
    <3> QED
      BY <3>1, <3>2, <3>3 DEF Passing
  <2> QED
    BY <2>1, <2>2, <2>3, MapRow, SoleLess
<1>22. CASE spawn_close(e)
  <2>0. /\ frame[e].pc = "load" /\ Others(e) /\ frame'[e].pc \in {"start", "share"}
        /\ frame'[e].kid = frame[e].kid /\ Only(e, Fd, Unmapped)
    BY <1>22, SpawnCloseDoes DEF Sharing
  <2>1. StrongKept /\ PassingKept
    BY <2>0, <1>c DEF Where, Place
  <2> QED
    BY <2>0, <2>1, <1>d, VaFacts
<1>23. CASE share(e)
  <2>0. /\ frame[e].pc = "share" /\ frame[e].kid # {} /\ Others(e) /\ frame[e].va \in Lib \ {Fd}
        /\ frame'[e].pc \in {"err2", "start", "share"} /\ frame'[e].kid = frame[e].kid
    BY <1>23, ShareDoes DEF Sharing, Works1
  <2>1. StrongKept /\ PassingKept
    BY <2>0, <1>c DEF Where, Place
  <2>2. CASE UNCHANGED pt
    BY <2>1, <2>2, <1>u
  <2>3. CASE Only(Kid(e), frame[e].va, pt[e][frame[e].va])
    <3>1. PICK a \in Lib \ {Fd} : a = frame[e].va
      BY <2>0
    <3>2. Kid(e) \in Env /\ frame[e].kid = {Kid(e)}
      BY <2>0, TheKid
    <3>3. pt' = [d \in Env |-> [w \in Va |-> IF d \in frame[e].kid /\ w = a THEN pt[e][a] ELSE pt[d][w]]]
      BY <2>3, <3>1, <3>2 DEF Only
    <3>4. pt[e][a].page # {}
      <4>1. "LIB" \in pt[e][a].perm
        BY <2>0, <3>1 DEF Basics, Places, PlacesOf
      <4>2. pt[e][a] # Unmapped
        BY <4>1, MapRow
      <4> QED
        BY <4>2, <1>b, VaFacts, EmptyCell
    <3>5. a \notin Own
      BY VaFacts
    <3> QED
      BY <2>1, <3>3, <3>4, <3>5, <1>g
  <2> QED
    BY <1>23, <2>2, <2>3, ShareDoes
<1>24. CASE start(e)
  <2>0. /\ UNCHANGED pt /\ frame[e].pc = "start" /\ frame[e].kid = {Kid(e)}
        /\ frame'[e] = Running /\ frame'[Kid(e)] = Running /\ OthersBut(e, {Kid(e)})
    BY <1>24, StartDoes, TheKid
  <2>1. StrongKept /\ PassingKept
    BY <2>0, <1>l, Starts
  <2> QED
    BY <2>0, <2>1, <1>u
<1>25. CASE destroy(e)
  <2>0. /\ frame[e].pc \in {"err1", "err2"} /\ frame'[e].kid = {}
        /\ (\A k \in frame[e].kid : frame'[k] = Free) /\ OthersBut(e, frame[e].kid)
        /\ pt' = [d \in Env |-> [w \in Va |-> IF d \in frame[e].kid THEN Unmapped ELSE pt[d][w]]]
    BY <1>25, DestroyDoes
  <2>1. StrongKept /\ PassingKept
    BY <2>0, <1>l, Starts
  <2>2. \A d \in Env, w \in Va : pt'[d][w] = pt[d][w] \/ pt'[d][w].page = {}
    BY <2>0, MapRow
  <2> QED
    BY <2>1, <2>2, SoleLess
<1>26. CASE err(e)
  <2>0. /\ frame[e].pc = "err" /\ Others(e) /\ frame'[e] = Running /\ Only(e, Fd, Unmapped)
    BY <1>26, ErrDoes
  <2>1. StrongKept /\ PassingKept
    BY <2>0, <1>c, Starts DEF Where, Place
  <2> QED
    BY <2>0, <2>1, <1>d, VaFacts
<1> QED
  BY <1>3, <1>4, <1>5, <1>6, <1>7, <1>8, <1>9, <1>10, <1>11, <1>12, <1>13, <1>14, <1>15, <1>16, <1>17,
     <1>18, <1>19, <1>20, <1>21, <1>22, <1>23, <1>24, <1>25, <1>26 DEF ForkStep, SpawnStep

\* The first process has its pages alone.
LEMMA SoleInit == Init => Sole
<1> SUFFICES ASSUME Init
             PROVE  Sole
  OBVIOUS
<1>1. \A e \in Env, v \in Va : pt[e][v] = IF e # First \/ v \notin Begin THEN Unmapped
             ELSE Map(<<e, v, 1>>, IF v \in Lib THEN {"D", "LIB"} ELSE {"D"})
  BY DEF Init
<1>2. \A e \in Env, v \in Va : \A p \in pt[e][v].page : p = <<First, v, 1>> /\ e = First
  <2> SUFFICES ASSUME NEW e \in Env, NEW v \in Va, NEW p \in pt[e][v].page
               PROVE  p = <<First, v, 1>> /\ e = First
    OBVIOUS
  <2>1. e = First /\ v \in Begin
    BY <1>1, MapRow
  <2>2. pt[e][v].page = {<<e, v, 1>>}
    <3> DEFINE s == IF v \in Lib THEN {"D", "LIB"} ELSE {"D"}
    <3>1. pt[e][v] = Map(<<e, v, 1>>, s)
      BY <1>1, <2>1
    <3> HIDE DEF s
    <3> QED
      BY <3>1 DEF Map
  <2> QED
    BY <2>1, <2>2
<1> QED
  BY <1>2 DEF Sole

------------------------------------------------------------------------------
(* What the pages hold *)

\* There is a page at a place of a table, and it holds c.
HoldsIn(cell, m, c) == cell.page # {} /\ \A p \in cell.page : m[p] = c
Holds(e, v, c) == HoldsIn(pt[e][v], mem, c)

\* A process that runs finds its view of a private page there, and in the handler its
\* copy at UCOW; a child of fork has its view of the pages before the one at work, the
\* one fork freezes being its parent's; the child of spawn and a free env have none.
ViewsOf(e) ==
  /\ frame[e].pc \notin {"orphan", "embryo"} =>
       \A v \in Own : view[e][v] # <<>> => Holds(e, v, view[e][v])
  /\ frame[e].pc = "cow_map" =>
       \A v \in Own : v = frame[e].fault /\ view[e][v] # <<>> => Holds(e, UCOW, view[e][v])
  /\ frame[e].pc \in {"free", "other"} => \A v \in Own : view[e][v] = <<>>
  /\ \A k \in frame[e].kid, v \in Own : view[k][v] # <<>> =>
       /\ Where(e) \notin Building
       /\ Where(e) \in {"dup", "dup_child"} => v < frame[e].va
       /\ Where(e) = "dup_parent" => v <= frame[e].va
       /\ Where(e) = "dup_parent" /\ v = frame[e].va => pt[k][v].page = pt[e][v].page
       /\ ~(Where(e) = "dup_parent" /\ v = frame[e].va) => Holds(k, v, view[k][v])
Views ==
  /\ view = [e \in Env |-> [v \in Own |-> view[e][v]]]
  /\ \A e \in Env : ViewsOf(e)

\* Page v of e's child is being filled.
Open(e, v) == frame[e].pc \in {"load_map", "load_copy"} /\ v = Next1(e).page
\* j is the last of the first n calls of the mapper for page v.
LastCall(calls, n, v, j) ==
  j \in 1 .. n /\ calls[j].page = v /\ \A i \in j + 1 .. n : calls[i].page # v
\* What the first n calls leave at v.
PageLoaded(calls, n, k, v) ==
  /\ (\A j \in 1 .. n : calls[j].page # v) => pt[k][v] = Unmapped
  /\ \A j \in 1 .. n : LastCall(calls, n, v, j) => Holds(k, v, Content(calls[j]))
\* The pages of PTE_LIBRARY spawn has shared when it is at f.
LibLoaded(f, t, tk) ==
  \A v \in Lib : /\ f.pc \in Filling => tk[v] = Unmapped
                 /\ f.pc = "share" => tk[v] = IF v < f.va THEN t[v] ELSE Unmapped
                 /\ f.pc = "start" => tk[v] = t[v]
Past(f) == Len(Calls(f.prog)) - Len(f.todo)
TodoOf(f) ==
  /\ Past(f) \in 0 .. Len(Calls(f.prog))
  /\ \A i \in 1 .. Len(f.todo) : f.todo[i] = Calls(f.prog)[Past(f) + i]
  /\ f.pc \in {"share", "start"} => f.todo = <<>>
\* The child spawn makes is blank, and then as far as spawn has come.
LoadedOf(e) ==
  /\ frame[e].pc \in {"stack", "stack_map"} => \A k \in frame[e].kid, v \in Va : pt[k][v] = Unmapped
  /\ frame[e].pc = "stack_map" => Holds(e, UTEMP, frame[e].prog.args)
  /\ frame[e].pc \in Filling \union {"share", "start"} =>
       /\ TodoOf(frame[e])
       /\ \A k \in frame[e].kid :
            /\ Holds(k, Stack, frame[e].prog.args)
            /\ \A v \in Own \ {Stack} :
                 /\ Open(e, v) => Holds(k, v, Zeros)
                 /\ ~Open(e, v) => PageLoaded(Calls(frame[e].prog), Past(frame[e]), k, v)
            /\ frame[e].pc = "load_copy" => pt[e][UTEMP].page = pt[k][Next1(e).page].page
            /\ LibLoaded(frame[e], pt[e], pt[k])
Loaded == \A e \in Env : LoadedOf(e)

------------------------------------------------------------------------------
(* Steps and what they leave alone *)

\* A step of e leaves alone the other processes, but for its child and those in K.
Steady(e, K) ==
  \A d \in Env : d # e /\ d \notin frame[e].kid /\ d \notin K =>
    /\ pt'[d] = pt[d] /\ view'[d] = view[d]
    /\ \A w \in Va : \A p \in pt[d][w].page : mem'[p] = mem[p]
\* The pages that stay in use stay as they are.
MemKept == \A p \in Used(pt) : p \in Used(pt') => mem'[p] = mem[p]
Acts(e, K) ==
  /\ frame[e].pc \notin Idle /\ OthersBut(e, K) /\ Steady(e, K)
  /\ K \subseteq Env /\ \A k \in K : frame[k] = Free \/ k \in frame[e].kid

\* A step of e leaves another process, its tables and what its pages hold.
LEMMA Apart ==
  ASSUME Basics, NEW e \in Env, NEW K, Acts(e, K), NEW d \in Env, d # e, d \notin frame[e].kid, d \notin K
  PROVE  /\ frame'[d] = frame[d] /\ pt'[d] = pt[d] /\ view'[d] = view[d]
         /\ \A w \in Va : \A p \in pt[d][w].page : mem'[p] = mem[p]
         /\ \A k \in frame[d].kid :
              /\ k \in Env /\ pt'[k] = pt[k] /\ view'[k] = view[k]
              /\ \A w \in Va : \A p \in pt[k][w].page : mem'[p] = mem[p]
<1>1. /\ frame'[d] = frame[d] /\ pt'[d] = pt[d] /\ view'[d] = view[d]
      /\ \A w \in Va : \A p \in pt[d][w].page : mem'[p] = mem[p]
  BY DEF Acts, OthersBut, Steady
<1>2. ASSUME NEW k \in frame[d].kid
      PROVE  /\ k \in Env /\ pt'[k] = pt[k] /\ view'[k] = view[k]
             /\ \A w \in Va : \A p \in pt[k][w].page : mem'[p] = mem[p]
  <2>1. k \in Env
    BY DEF Basics, Frames, Frame
  <2>2. frame[k] = Embryo /\ k \notin frame[e].kid
    BY <2>1 DEF Basics, Kids
  <2>3. k # e /\ k \notin K
    BY <2>2, Starts DEF Acts
  <2> QED
    BY <2>1, <2>2, <2>3 DEF Acts, Steady
<1> QED
  BY <1>1, <1>2

\* A child that is not started or given up stays as it is.
LEMMA ChildStays ==
  ASSUME Basics, NEW e \in Env, NEW K, Acts(e, K), NEW d \in frame[e].kid, d \notin K
  PROVE  d \in Env /\ frame'[d] = Embryo
<1>1. d \in Env
  BY DEF Basics, Frames, Frame
<1>2. frame[d] = Embryo
  BY <1>1 DEF Basics, Kids
<1>3. d # e
  BY <1>2, Starts DEF Acts
<1> QED
  BY <1>1, <1>2, <1>3 DEF Acts, OthersBut

\* A page that is not written holds what it held.
LEMMA HoldsSame ==
  ASSUME NEW t, NEW m, NEW n, NEW c, HoldsIn(t, m, c), \A p \in t.page : n[p] = m[p]
  PROVE  HoldsIn(t, n, c)
  BY DEF HoldsIn

\* A step of e keeps the views of the others.
LEMMA ViewsStep ==
  ASSUME Basics, Views, NEW e \in Env, NEW K, Acts(e, K), ViewsOf(e)', \A k \in K : ViewsOf(k)'
  PROVE  \A d \in Env : ViewsOf(d)'
<1> SUFFICES ASSUME NEW d \in Env, d # e, d \notin K
             PROVE  ViewsOf(d)'
  OBVIOUS
<1>1. CASE d \in frame[e].kid
  <2>1. frame'[d] = Embryo
    BY <1>1, ChildStays
  <2> QED
    BY <2>1, Starts DEF ViewsOf
<1>2. CASE d \notin frame[e].kid
  <2>1. /\ frame'[d] = frame[d] /\ pt'[d] = pt[d] /\ view'[d] = view[d]
        /\ \A w \in Va : \A p \in pt[d][w].page : mem'[p] = mem[p]
        /\ \A k \in frame[d].kid :
              /\ k \in Env /\ pt'[k] = pt[k] /\ view'[k] = view[k]
              /\ \A w \in Va : \A p \in pt[k][w].page : mem'[p] = mem[p]
    BY <1>2, Apart
  <2>2. ViewsOf(d)
    BY DEF Views
  <2>v. Own \subseteq Va /\ UCOW \in Va
    BY VaFacts
  <2>3. \A v \in Va : \A c : Holds(d, v, c) => HoldsIn(pt'[d][v], mem', c)
    BY <2>1, HoldsSame DEF Holds
  <2>4. \A k \in frame[d].kid, v \in Va : \A c : Holds(k, v, c) => HoldsIn(pt'[k][v], mem', c)
    BY <2>1, HoldsSame DEF Holds
  <2>5. frame'[d].pc \notin {"orphan", "embryo"} =>
          \A v \in Own : view'[d][v] # <<>> => HoldsIn(pt'[d][v], mem', view'[d][v])
    BY <2>1, <2>2, <2>3, <2>v DEF ViewsOf
  <2>6. frame'[d].pc = "cow_map" =>
          \A v \in Own : v = frame'[d].fault /\ view'[d][v] # <<>> => HoldsIn(pt'[d][UCOW], mem', view'[d][v])
    BY <2>1, <2>2, <2>3, <2>v DEF ViewsOf
  <2>7. frame'[d].pc \in {"free", "other"} => \A v \in Own : view'[d][v] = <<>>
    BY <2>1, <2>2 DEF ViewsOf
  <2>8. ASSUME NEW k \in frame'[d].kid, NEW v \in Own, view'[k][v] # <<>>
        PROVE  /\ Where(d)' \notin Building
               /\ Where(d)' \in {"dup", "dup_child"} => v < frame'[d].va
               /\ Where(d)' = "dup_parent" => v <= frame'[d].va
               /\ Where(d)' = "dup_parent" /\ v = frame'[d].va => pt'[k][v].page = pt'[d][v].page
               /\ ~(Where(d)' = "dup_parent" /\ v = frame'[d].va) => HoldsIn(pt'[k][v], mem', view'[k][v])
    <3>1. k \in frame[d].kid /\ view'[k] = view[k] /\ pt'[k] = pt[k] /\ Where(d)' = Where(d)
      BY <2>1 DEF Where
    <3>2. /\ Where(d) \notin Building
          /\ Where(d) \in {"dup", "dup_child"} => v < frame[d].va
          /\ Where(d) = "dup_parent" => v <= frame[d].va
          /\ Where(d) = "dup_parent" /\ v = frame[d].va => pt[k][v].page = pt[d][v].page
          /\ ~(Where(d) = "dup_parent" /\ v = frame[d].va) => Holds(k, v, view[k][v])
      BY <2>2, <2>8, <3>1 DEF ViewsOf
    <3> QED
      BY <3>1, <3>2, <2>1, <2>4, <2>v
  <2> QED
    BY <2>5, <2>6, <2>7, <2>8 DEF ViewsOf, Holds
<1> QED
  BY <1>1, <1>2

\* A step of e keeps what the others have loaded.
LEMMA LoadedStep ==
  ASSUME Basics, Loaded, NEW e \in Env, NEW K, Acts(e, K), LoadedOf(e)', \A k \in K : LoadedOf(k)'
  PROVE  Loaded'
<1> SUFFICES ASSUME NEW d \in Env, d # e, d \notin K
             PROVE  LoadedOf(d)'
  BY DEF Loaded
<1>1. CASE d \in frame[e].kid
  <2>1. frame'[d] = Embryo
    BY <1>1, ChildStays
  <2> QED
    BY <2>1, Starts DEF LoadedOf
<1>2. CASE d \notin frame[e].kid
  <2>1. /\ frame'[d] = frame[d] /\ pt'[d] = pt[d]
        /\ \A k \in frame[d].kid :
              /\ k \in Env /\ pt'[k] = pt[k]
              /\ \A w \in Va : \A p \in pt[k][w].page : mem'[p] = mem[p]
    BY <1>2, Apart
  <2>2. LoadedOf(d)
    BY DEF Loaded
  <2>v. Own \subseteq Va /\ Stack \in Va
    BY VaFacts
  <2>3. \A k \in frame[d].kid, v \in Va : \A c : Holds(k, v, c) => HoldsIn(pt'[k][v], mem', c)
    BY <2>1, HoldsSame DEF Holds
  <2>4. \A v : Open(d, v)' <=> Open(d, v)
    BY <2>1 DEF Open, Next1
  <2>5. ASSUME NEW calls, NEW n, NEW k \in frame[d].kid, NEW v \in Own, PageLoaded(calls, n, k, v)
        PROVE  /\ (\A j \in 1 .. n : calls[j].page # v) => pt'[k][v] = Unmapped
               /\ \A j \in 1 .. n : LastCall(calls, n, v, j) => HoldsIn(pt'[k][v], mem', Content(calls[j]))
    BY <2>1, <2>3, <2>5, <2>v DEF PageLoaded
  <2>6. ASSUME frame[d].pc \in Filling \union {"share", "start"}, NEW k \in frame[d].kid
        PROVE  /\ HoldsIn(pt'[k][Stack], mem', frame[d].prog.args)
               /\ \A v \in Own \ {Stack} :
                    /\ Open(d, v)' => HoldsIn(pt'[k][v], mem', Zeros)
                    /\ ~Open(d, v)' => PageLoaded(Calls(frame[d].prog), Past(frame[d]), k, v)'
               /\ frame'[d].pc = "load_copy" => pt'[d][UTEMP].page = pt'[k][Next1(d)'.page].page
               /\ LibLoaded(frame'[d], pt'[d], pt'[k])
    <3>1. /\ Holds(k, Stack, frame[d].prog.args)
          /\ \A v \in Own \ {Stack} :
               /\ Open(d, v) => Holds(k, v, Zeros)
               /\ ~Open(d, v) => PageLoaded(Calls(frame[d].prog), Past(frame[d]), k, v)
          /\ frame[d].pc = "load_copy" => pt[d][UTEMP].page = pt[k][Next1(d).page].page
          /\ LibLoaded(frame[d], pt[d], pt[k])
      BY <2>2, <2>6 DEF LoadedOf
    <3>2. HoldsIn(pt'[k][Stack], mem', frame[d].prog.args)
      BY <3>1, <2>3, <2>v
    <3>3. ASSUME NEW v \in Own \ {Stack}, Open(d, v)
          PROVE  HoldsIn(pt'[k][v], mem', Zeros)
      BY <3>1, <3>3, <2>3, <2>v
    <3>4. ASSUME NEW v \in Own \ {Stack}, ~Open(d, v)
          PROVE  PageLoaded(Calls(frame[d].prog), Past(frame[d]), k, v)'
      <4>1. PageLoaded(Calls(frame[d].prog), Past(frame[d]), k, v)
        BY <3>1, <3>4
      <4>2. PICK calls : calls = Calls(frame[d].prog)
        OBVIOUS
      <4>3. PICK n : n = Past(frame[d])
        OBVIOUS
      <4>4. calls = Calls(frame'[d].prog) /\ n = Past(frame'[d])
        BY <4>2, <4>3, <2>1
      <4>5. PageLoaded(calls, n, k, v)
        BY <4>1, <4>2, <4>3
      <4>6. PageLoaded(calls, n, k, v)'
        BY <4>5, <2>5 DEF PageLoaded, Holds
      <4> QED
        BY <4>4, <4>6 DEF PageLoaded
    <3> QED
      BY <3>1, <3>2, <3>3, <3>4, <2>1, <2>4 DEF Next1
  <2>7. ASSUME frame[d].pc \in Filling \union {"share", "start"}
        PROVE  TodoOf(frame'[d])
    BY <2>1, <2>2, <2>7 DEF LoadedOf
  <2>8. frame'[d].pc \in {"stack", "stack_map"} => \A k \in frame'[d].kid, v \in Va : pt'[k][v] = Unmapped
    BY <2>1, <2>2 DEF LoadedOf
  <2>9. frame'[d].pc = "stack_map" => HoldsIn(pt'[d][UTEMP], mem', frame'[d].prog.args)
    <3>1. UTEMP \in Va /\ \A p \in pt[d][UTEMP].page : mem'[p] = mem[p]
      BY <1>2, Apart, VaFacts
    <3> QED
      BY <2>1, <2>2, <3>1, HoldsSame DEF LoadedOf, Holds
  <2> QED
    BY <2>1, <2>6, <2>7, <2>8, <2>9 DEF LoadedOf, Holds
<1> QED
  BY <1>1, <1>2

\* The ways the memory changes without a write to a page in use.
LEMMA MemSteps ==
  /\ UNCHANGED mem => MemKept
  /\ mem' = Kept(mem, pt') => MemKept
  /\ \A p, c : mem' = Filled(mem, p, c) /\ p \notin Used(pt) /\ Used(pt) \subseteq DOMAIN mem =>
       MemKept /\ mem'[p] = c
  /\ \A p, c : mem' = Kept(Filled(mem, p, c), pt') /\ p \notin Used(pt) /\ Used(pt) \subseteq DOMAIN mem =>
       MemKept /\ (p \in Used(pt') => mem'[p] = c)
<1>1. mem' = Kept(mem, pt') => MemKept
  BY DEF MemKept, Kept
<1>2. ASSUME NEW p, NEW c, p \notin Used(pt), Used(pt) \subseteq DOMAIN mem
      PROVE  Filled(mem, p, c)[p] = c /\ \A q \in Used(pt) : Filled(mem, p, c)[q] = mem[q]
  BY <1>2 DEF Filled
<1>3. ASSUME NEW m
      PROVE  \A q \in Used(pt') : Kept(m, pt')[q] = m[q]
  BY DEF Kept
<1>4. ASSUME NEW p, NEW c, mem' = Filled(mem, p, c), p \notin Used(pt), Used(pt) \subseteq DOMAIN mem
      PROVE  MemKept /\ mem'[p] = c
  BY <1>2, <1>4 DEF MemKept
<1>5. ASSUME NEW p, NEW c, mem' = Kept(Filled(mem, p, c), pt'), p \notin Used(pt), Used(pt) \subseteq DOMAIN mem
      PROVE  MemKept /\ (p \in Used(pt') => mem'[p] = c)
  <2> DEFINE m == Filled(mem, p, c)
  <2>1. m[p] = c /\ \A q \in Used(pt) : m[q] = mem[q]
    BY <1>2, <1>5
  <2>2. mem' = Kept(m, pt')
    BY <1>5
  <2> HIDE DEF m
  <2>3. \A q \in Used(pt') : mem'[q] = m[q]
    BY <1>3, <2>2
  <2> QED
    BY <2>1, <2>3 DEF MemKept
<1> QED
  BY <1>1, <1>4, <1>5 DEF MemKept

\* A page that moves from one place to another, or stays, holds what it held.
LEMMA CellKept ==
  ASSUME MemKept, NEW d \in Env, NEW w \in Va, NEW c \in Env, NEW v \in Va, pt'[c][v].page = pt[d][w].page
  PROVE  /\ \A p \in pt[d][w].page : mem'[p] = mem[p]
         /\ \A x : HoldsIn(pt[d][w], mem, x) => HoldsIn(pt'[c][v], mem', x)
<1>1. ASSUME NEW p \in pt[d][w].page
      PROVE  mem'[p] = mem[p]
  <2>1. p \in Used(pt)
    BY DEF Used
  <2>2. p \in Used(pt')
    BY DEF Used
  <2> QED
    BY <2>1, <2>2 DEF MemKept
<1> QED
  BY <1>1 DEF HoldsIn

\* A step without a write leaves the others alone.
LEMMA SteadyStep ==
  ASSUME MemKept, UNCHANGED view, NEW e \in Env, NEW K,
         \A d \in Env : d # e /\ d \notin frame[e].kid => pt'[d] = pt[d]
  PROVE  Steady(e, K)
  BY CellKept DEF Steady

\* The next page of fork's loop is a later one.
LEMMA NextPageLater ==
  ASSUME NEW e \in Env, NEW g \in Frame, NextPage(e, g).pc = "dup"
  PROVE  g.va < NextPage(e, g).va
<1>1. Below(e, g.va) # {}
  <2> SUFFICES ASSUME Below(e, g.va) = {}
               PROVE  FALSE
    OBVIOUS
  <2> DEFINE zero == 0
             none == {}
  <2>1. NextPage(e, g) = [g EXCEPT !.pc = "entry", !.va = zero, !.perm = none]
    BY DEF NextPage
  <2>2. zero \in Int /\ none \in SUBSET Bits
    OBVIOUS
  <2> HIDE DEF zero, none
  <2>3. NextPage(e, g).pc = "entry"
    BY <2>1, <2>2 DEF Frame
  <2> QED
    BY <2>3
<1> DEFINE w == CHOOSE w \in Below(e, g.va) : \A u \in Below(e, g.va) : w <= u
           none == {}
<1>2. NextPage(e, g) = [g EXCEPT !.pc = "dup", !.perm = none, !.va = w]
  BY <1>1 DEF NextPage
<1>3. \E u \in Below(e, g.va) : \A x \in Below(e, g.va) : u <= x
  <2>1. Below(e, g.va) \subseteq Nat
    BY VaAssumption DEF Below
  <2> QED
    BY <1>1, <2>1, LeastElement
<1>4. w \in Below(e, g.va) /\ none \in SUBSET Bits
  BY <1>3
<1> HIDE DEF w, none
<1>5. NextPage(e, g).va = w
  BY <1>2, <1>4 DEF Frame
<1> QED
  BY <1>4, <1>5 DEF Below

\* A step of e that leaves its private pages and those its child has.
LEMMA ViewsCalm ==
  ASSUME Basics, Views, NEW e \in Env, frame[e].pc \notin Idle, view' = view, MemKept,
         frame'[e].pc \notin {"cow_map", "free", "other"},
         \A v \in Own : pt'[e][v].page = pt[e][v].page,
         frame'[e].kid = frame[e].kid,
         \/ Where(e) \in Building
         \/ frame[e].kid = {}
         \/ /\ \A k \in frame[e].kid, v \in Own : pt'[k][v].page = pt[k][v].page
            /\ Where(e)' \notin Building
            /\ Where(e)' \in {"dup", "dup_child"} =>
                 Where(e) \in {"dup", "dup_child"} /\ frame'[e].va = frame[e].va
            /\ Where(e)' = "dup_parent" <=> Where(e) = "dup_parent"
            /\ Where(e) = "dup_parent" => frame'[e].va = frame[e].va
  PROVE  ViewsOf(e)'
<1>v. Own \subseteq Va
  BY VaFacts
<1>1. ViewsOf(e)
  BY DEF Views
<1>2. \A v \in Own : view[e][v] # <<>> => Holds(e, v, view[e][v])
  BY <1>1 DEF ViewsOf
<1>3. \A v \in Own : view'[e][v] # <<>> => HoldsIn(pt'[e][v], mem', view'[e][v])
  BY <1>2, <1>v, CellKept DEF Holds
<1>4. ASSUME NEW k \in frame'[e].kid, NEW v \in Own, view'[k][v] # <<>>
      PROVE  /\ Where(e)' \notin Building
             /\ Where(e)' \in {"dup", "dup_child"} => v < frame'[e].va
             /\ Where(e)' = "dup_parent" => v <= frame'[e].va
             /\ Where(e)' = "dup_parent" /\ v = frame'[e].va => pt'[k][v].page = pt'[e][v].page
             /\ ~(Where(e)' = "dup_parent" /\ v = frame'[e].va) => HoldsIn(pt'[k][v], mem', view'[k][v])
  <2>1. /\ Where(e) \notin Building
        /\ Where(e) \in {"dup", "dup_child"} => v < frame[e].va
        /\ Where(e) = "dup_parent" => v <= frame[e].va
        /\ Where(e) = "dup_parent" /\ v = frame[e].va => pt[k][v].page = pt[e][v].page
        /\ ~(Where(e) = "dup_parent" /\ v = frame[e].va) => Holds(k, v, view[k][v])
    BY <1>1, <1>4 DEF ViewsOf
  <2>2. /\ \A j \in frame[e].kid, w \in Own : pt'[j][w].page = pt[j][w].page
        /\ Where(e)' \notin Building
        /\ Where(e)' \in {"dup", "dup_child"} =>
             Where(e) \in {"dup", "dup_child"} /\ frame'[e].va = frame[e].va
        /\ Where(e)' = "dup_parent" <=> Where(e) = "dup_parent"
        /\ Where(e) = "dup_parent" => frame'[e].va = frame[e].va
    BY <1>4, <2>1
  <2>3. k \in Env
    BY <1>4 DEF Basics, Frames, Frame
  <2>4. Holds(k, v, view[k][v]) => HoldsIn(pt'[k][v], mem', view'[k][v])
    BY <1>4, <1>v, <2>2, <2>3, CellKept DEF Holds
  <2> QED
    BY <1>4, <2>1, <2>2, <2>4
<1> QED
  BY <1>3, <1>4 DEF ViewsOf, Holds

\* An env that was never started sees nothing.
LEMMA ViewsIdle ==
  ASSUME NEW d \in Env, frame'[d] \in {Embryo, Orphan}
  PROVE  ViewsOf(d)'
  BY Starts DEF ViewsOf

\* Nothing is asked of a process that is not loading.
LEMMA NotLoading ==
  ASSUME NEW d \in Env,
         frame'[d].pc \notin {"stack", "stack_map", "load", "load_map", "load_copy", "share", "start"}
  PROVE  LoadedOf(d)'
  BY DEF LoadedOf

\* page_alloc returns a page nobody has.
LEMMA FreshPage ==
  ASSUME Basics, ~NoMemory, NEW e \in Env, NEW v \in Va
  PROVE  NewPage(e, v) \notin Used(pt) /\ NewPage(e, v) \in Page
  BY NewPageFresh DEF Basics

\* What a process writes to is seen by nobody but itself, and by a child that is
\* getting the page.
LEMMA WrittenPage ==
  ASSUME Basics, Sole, NEW e \in Env, NEW v \in Va, v \notin Lib, "D" \in pt[e][v].perm,
         \A d \in Env : e \notin frame[d].kid,
         NEW d \in Env, NEW w \in Va, NEW p \in pt[e][v].page, p \in pt[d][w].page
  PROVE  \/ d = e /\ w = v
         \/ d \in frame[e].kid /\ Where(e) = "dup_parent" /\ v = frame[e].va /\ w = v
         \/ d \in frame[e].kid /\ frame[e].pc = "load_copy" /\ v = UTEMP /\ w = Next1(e).page
<1>1. (e = d /\ w = v) \/ Passing(e, v, d, w)
  BY DEF Sole, Strong
<1> QED
  BY <1>1 DEF Passing

Contents == Views /\ Loaded

\* A write changes the writer's view and its page together, and no other.
LEMMA ContentsWrite ==
  ASSUME Basics, Sole, Contents, NEW e \in Env, NEW v \in Own, NEW x, write(e, v, x),
         frame[e].pc \notin Idle, \A d \in Env : e \notin frame[d].kid
  PROVE  Contents'
<1>1. /\ pt' = pt /\ frame' = frame
      /\ frame[e].pc \in {"run"} \union InFork
      /\ "D" \in pt[e][v].perm /\ pt[e][v].page # {}
      /\ mem' = [mem EXCEPT ![PageOf(e, v)][1] = x]
      /\ view' = [view EXCEPT ![e][v][1] = x]
  BY WriteDoes
<1>v. v \in Va /\ Own \subseteq Va /\ v \notin Lib /\ v # UTEMP
  BY VaFacts
<1> DEFINE P == PageOf(e, v)
<1>2. pt[e][v].page = {P} /\ P \in DOMAIN mem
  BY <1>1, <1>v, PageOfCell, InUse DEF Basics, Fits
<1>3. mem'[P] = [mem[P] EXCEPT ![1] = x] /\ \A p : p # P => mem'[p] = mem[p] \/ p \notin DOMAIN mem
  BY <1>1, <1>2
<1>w. \A p \in Used(pt) : p # P => mem'[p] = mem[p]
  BY <1>3 DEF Basics, Fits
<1> HIDE DEF P
<1>4. ASSUME NEW d \in Env, NEW w \in Va, P \in pt[d][w].page
      PROVE  \/ d = e /\ w = v
             \/ d \in frame[e].kid /\ Where(e) = "dup_parent" /\ v = frame[e].va /\ w = v
  BY <1>1, <1>2, <1>4, <1>v, WrittenPage
<1>5. ASSUME NEW d \in Env, NEW w \in Va, ~(d = e /\ w = v),
             ~(d \in frame[e].kid /\ Where(e) = "dup_parent" /\ v = frame[e].va /\ w = v)
      PROVE  \A p \in pt[d][w].page : mem'[p] = mem[p]
  <2>1. P \notin pt[d][w].page
    BY <1>4, <1>5
  <2>2. pt[d][w].page \subseteq Used(pt)
    BY DEF Used
  <2> QED
    BY <2>1, <2>2, <1>w
<1> DEFINE y == [view[e][v] EXCEPT ![1] = x]
<1>6. /\ view = [d \in Env |-> [w \in Own |-> view[d][w]]]
      /\ \A d \in Env : ViewsOf(d)
  BY DEF Contents, Views
<1>7. view' = [d \in Env |-> [w \in Own |-> IF d = e /\ w = v THEN y ELSE view[d][w]]]
  BY <1>1, <1>6
<1>8. view[e][v] = <<>> => y = <<>>
  OBVIOUS
<1>y. mem[P] = view[e][v] => mem'[P] = y
  BY <1>3
<1> HIDE DEF y
<1>9. /\ view' = [d \in Env |-> [w \in Own |-> view'[d][w]]]
      /\ view'[e][v] = y
      /\ \A d \in Env, w \in Own : ~(d = e /\ w = v) => view'[d][w] = view[d][w]
      /\ \A d \in Env : d # e => view'[d] = view[d]
  <2>1. \A d \in Env : view[d] = [w \in Own |-> view[d][w]]
    BY <1>6
  <2>2. \A d \in Env \ {e} : view'[d] = [w \in Own |-> view[d][w]]
    BY <1>7
  <2> QED
    BY <1>7, <2>1, <2>2
<1> DEFINE K == {}
<1>10. Acts(e, K)
  <2>1. OthersBut(e, K) /\ K \subseteq Env
    BY <1>1 DEF OthersBut
  <2>2. Steady(e, K)
    BY <1>1, <1>5, <1>9 DEF Steady
  <2> QED
    BY <2>1, <2>2 DEF Acts
<1>11. ViewsOf(e)'
  <2>0. ViewsOf(e)
    BY <1>6
  <2>1. ASSUME NEW w \in Own, view'[e][w] # <<>>
        PROVE  HoldsIn(pt'[e][w], mem', view'[e][w])
    <3>1. CASE w = v
      <4>1. view[e][v] # <<>>
        BY <1>8, <1>9, <2>1, <3>1
      <4>2. Holds(e, v, view[e][v])
        BY <4>1, <2>0, <1>1 DEF ViewsOf
      <4>3. mem[P] = view[e][v]
        BY <4>2, <1>2 DEF Holds, HoldsIn
      <4> QED
        BY <4>3, <1>y, <1>1, <1>2, <1>9, <3>1 DEF HoldsIn
    <3>2. CASE w # v
      <4>1. Holds(e, w, view[e][w]) /\ view'[e][w] = view[e][w]
        BY <2>0, <2>1, <3>2, <1>1, <1>9 DEF ViewsOf
      <4>2. e \notin frame[e].kid
        OBVIOUS
      <4>3. \A p \in pt[e][w].page : mem'[p] = mem[p]
        BY <3>2, <4>2, <1>5, <1>v
      <4> QED
        BY <4>1, <4>3, <1>1, HoldsSame DEF Holds
    <3> QED
      BY <3>1, <3>2
  <2>2. ASSUME NEW k \in frame'[e].kid, NEW w \in Own, view'[k][w] # <<>>
        PROVE  /\ Where(e)' \notin Building
               /\ Where(e)' \in {"dup", "dup_child"} => w < frame'[e].va
               /\ Where(e)' = "dup_parent" => w <= frame'[e].va
               /\ Where(e)' = "dup_parent" /\ w = frame'[e].va => pt'[k][w].page = pt'[e][w].page
               /\ ~(Where(e)' = "dup_parent" /\ w = frame'[e].va) => HoldsIn(pt'[k][w], mem', view'[k][w])
    <3>1. k \in frame[e].kid /\ k \in Env /\ k # e
      BY <1>1, <2>2 DEF Basics, Frames, Frame
    <3>2. view'[k] = view[k] /\ Where(e)' = Where(e)
      BY <1>1, <1>9, <3>1 DEF Where
    <3>3. /\ Where(e) \notin Building
          /\ Where(e) \in {"dup", "dup_child"} => w < frame[e].va
          /\ Where(e) = "dup_parent" => w <= frame[e].va
          /\ Where(e) = "dup_parent" /\ w = frame[e].va => pt[k][w].page = pt[e][w].page
          /\ ~(Where(e) = "dup_parent" /\ w = frame[e].va) => Holds(k, w, view[k][w])
      BY <2>0, <2>2, <3>1, <3>2 DEF ViewsOf
    <3>4. ~(Where(e) = "dup_parent" /\ w = frame[e].va) => \A p \in pt[k][w].page : mem'[p] = mem[p]
      BY <3>1, <1>5, <1>v
    <3> QED
      BY <3>2, <3>3, <3>4, <1>1, HoldsSame DEF Holds
  <2> QED
    BY <2>1, <2>2, <1>1 DEF ViewsOf, Holds
<1>12. LoadedOf(e)'
  BY <1>1, NotLoading
<1>13. \A k \in K : ViewsOf(k)' /\ LoadedOf(k)'
  OBVIOUS
<1> HIDE DEF K
<1>14. Views'
  BY <1>9, <1>10, <1>11, <1>13, ViewsStep DEF Views, Contents
<1> QED
  BY <1>10, <1>12, <1>13, <1>14, LoadedStep DEF Contents

\* fork and the handler keep the views and what is loaded.
LEMMA ContentsFork ==
  ASSUME Basics, Sole, Contents, NEW e \in Env, ForkStep(e)
  PROVE  Contents'
<1>a. ~panic /\ frame[e].pc \notin Idle
  BY Acting
<1>b. Tables /\ Perms /\ Temps /\ Fits /\ Kids /\ Frames /\ Used(pt) \subseteq DOMAIN mem
  BY DEF Basics, Fits
<1>k. /\ frame[e].kid \subseteq Env /\ e \notin frame[e].kid
      /\ \A k \in frame[e].kid : frame[k] = Embryo
      /\ \A d \in Env : e \notin frame[d].kid
  <2>1. frame[e].kid \subseteq Env
    BY DEF Basics, Frames, Frame
  <2> QED
    BY <2>1, <1>a, <1>b, Starts DEF Kids
<1>v. Own \subseteq Va /\ UCOW \in Va /\ UTEMP \in Va /\ UCOW \notin Own /\ UTEMP \notin Own
  BY VaFacts
<1>s. /\ view = [d \in Env |-> [w \in Own |-> view[d][w]]] /\ \A d \in Env : ViewsOf(d)
  BY DEF Contents, Views
<1>h. \A v \in Own : view[e][v] # <<>> => Holds(e, v, view[e][v])
  BY <1>a, <1>s DEF ViewsOf
<1>q. ASSUME NEW K, Acts(e, K), ViewsOf(e)', LoadedOf(e)', \A k \in K : ViewsOf(k)' /\ LoadedOf(k)',
             view' = [d \in Env |-> [w \in Own |-> view'[d][w]]]
      PROVE  Contents'
  <2>1. \A d \in Env : ViewsOf(d)'
    BY <1>q, ViewsStep DEF Contents
  <2>2. Loaded'
    BY <1>q, LoadedStep DEF Contents
  <2> QED
    BY <2>1, <2>2, <1>q DEF Contents, Views
\* A step that changes no frame but e's.
<1>o. ASSUME Others(e), Steady(e, {}), ViewsOf(e)', LoadedOf(e)', view' = [d \in Env |-> [w \in Own |-> view'[d][w]]]
      PROVE  Contents'
  <2> DEFINE K == {}
  <2>1. Acts(e, K) /\ \A k \in K : ViewsOf(k)' /\ LoadedOf(k)'
    BY <1>o, <1>a DEF Acts, Others, OthersBut
  <2> HIDE DEF K
  <2> QED
    BY <1>o, <2>1, <1>q
<1>u. ASSUME Others(e), UNCHANGED <<mem, pt, view>>, frame'[e].kid = frame[e].kid,
             frame'[e].pc \in {"run", "cow_copy"} \union InFork,
             Where(e)' \notin Building,
             Where(e)' \in {"dup", "dup_child"} => Where(e) \in {"dup", "dup_child"} /\ frame'[e].va = frame[e].va,
             Where(e)' = "dup_parent" <=> Where(e) = "dup_parent",
             Where(e) = "dup_parent" => frame'[e].va = frame[e].va
      PROVE  Contents'
  <2>1. MemKept
    BY <1>u, MemSteps
  <2>2. Steady(e, {})
    BY <1>u, <2>1, SteadyStep
  <2>3. ViewsOf(e)'
    BY <1>u, <1>a, <2>1, ViewsCalm DEF Contents
  <2>4. LoadedOf(e)'
    BY <1>u, NotLoading
  <2> QED
    BY <1>u, <1>s, <2>2, <2>3, <2>4, <1>o
<1>3. ASSUME NEW v \in Own, NEW x \in Values, write(e, v, x)
      PROVE  Contents'
  BY <1>3, <1>a, <1>k, ContentsWrite
<1>4. ASSUME NEW v \in Own, do_tlb_mod(e, v)
      PROVE  Contents'
  <2>0. /\ UNCHANGED <<mem, pt, view>> /\ frame[e].pc \in {"run"} \union InFork
        /\ \/ /\ Others(e) /\ frame'[e].pc = "cow_copy" /\ frame'[e].back = frame[e].pc
              /\ Works1(frame'[e], frame[e])
           \/ UNCHANGED frame
    BY <1>4, DoTlbModDoes
  <2>1. /\ Others(e) /\ Where(e)' = Where(e) /\ frame'[e].kid = frame[e].kid /\ frame'[e].va = frame[e].va
        /\ frame'[e].pc \in {"run", "cow_copy"} \union InFork /\ Where(e) \notin Building
    BY <2>0 DEF Where, Place, Works1, Others
  <2> QED
    BY <2>0, <2>1, <1>u
<1>5. CASE cow_copy(e)
  <2>0. frame[e].pc = "cow_copy" /\ UNCHANGED view
    BY <1>5, CowCopyDoes
  <2>i. frame[e].fault \in Own /\ frame[e].back \in {"run"} \union InFork
    BY <2>0, <1>b DEF Frames, Frame, Sound
  <2>w. Where(e) \notin Building
    BY <2>0, <2>i DEF Where, Place
  <2>1. CASE UNCHANGED <<mem, pt, frame>>
    BY <2>0, <2>w, <2>1, <1>u DEF Others, Where
  <2>2. CASE /\ ~NoMemory /\ Others(e)
             /\ frame'[e].pc = "cow_map" /\ Works1(frame'[e], frame[e])
             /\ frame'[e].fault = frame[e].fault /\ frame'[e].back = frame[e].back
             /\ Only(e, UCOW, Map(NewPage(e, Fault(e)), {"D"}))
             /\ mem' = Filled(mem, NewPage(e, Fault(e)), mem[PageOf(e, Fault(e))])
    <3> DEFINE new == NewPage(e, Fault(e))
    <3>1. Where(e)' = Where(e) /\ frame'[e].kid = frame[e].kid /\ frame'[e].va = frame[e].va
      BY <2>0, <2>2 DEF Where, Place, Works1
    <3>2. new \notin Used(pt)
      BY <2>2, <2>i, <1>v, FreshPage DEF Fault
    <3>3. MemKept /\ mem'[new] = mem[PageOf(e, Fault(e))]
      BY <2>2, <3>2, <1>b, MemSteps
    <3>4. Map(new, {"D"}).page = {new}
      BY DEF Map
    <3> HIDE DEF new
    <3>5. pt'[e][UCOW].page = {new} /\ \A d \in Env, w \in Va : ~(d = e /\ w = UCOW) => pt'[d][w] = pt[d][w]
      BY <2>2, <3>4, <1>v DEF Only, new
    <3>6. \A d \in Env : d # e => pt'[d] = pt[d]
      BY <2>2, <1>b DEF Only, Tables
    <3>7. Steady(e, {})
      BY <2>0, <3>3, <3>6, SteadyStep
    <3>8. ViewsOf(e)'
      <4>0. ViewsOf(e)
        BY <1>s
      <4>1. ASSUME NEW v \in Own, view'[e][v] # <<>>
            PROVE  HoldsIn(pt'[e][v], mem', view'[e][v])
        <5>1. pt'[e][v] = pt[e][v]
          BY <3>5, <1>v
        <5> QED
          BY <4>1, <5>1, <2>0, <3>3, <1>h, <1>v, CellKept DEF Holds
      <4>2. ASSUME NEW v \in Own, v = frame'[e].fault, view'[e][v] # <<>>
            PROVE  HoldsIn(pt'[e][UCOW], mem', view'[e][v])
        <5>1. v = Fault(e) /\ Holds(e, v, view[e][v])
          BY <4>2, <2>0, <2>2, <1>h DEF Fault
        <5>2. pt[e][v].page = {PageOf(e, v)}
          BY <5>1, <1>v, <1>b, PageOfCell DEF Holds, HoldsIn
        <5>3. mem'[new] = view[e][v]
          BY <5>1, <5>2, <3>3 DEF Holds, HoldsIn
        <5> QED
          BY <5>3, <3>5, <2>0 DEF HoldsIn
      <4>3. ASSUME NEW k \in frame'[e].kid, NEW v \in Own, view'[k][v] # <<>>
            PROVE  /\ Where(e)' \notin Building
                   /\ Where(e)' \in {"dup", "dup_child"} => v < frame'[e].va
                   /\ Where(e)' = "dup_parent" => v <= frame'[e].va
                   /\ Where(e)' = "dup_parent" /\ v = frame'[e].va => pt'[k][v].page = pt'[e][v].page
                   /\ ~(Where(e)' = "dup_parent" /\ v = frame'[e].va) => HoldsIn(pt'[k][v], mem', view'[k][v])
        <5>1. k \in frame[e].kid /\ k \in Env
          BY <3>1, <4>3, <1>k
        <5>2. /\ Where(e) \in {"dup", "dup_child"} => v < frame[e].va
              /\ Where(e) = "dup_parent" => v <= frame[e].va
              /\ Where(e) = "dup_parent" /\ v = frame[e].va => pt[k][v].page = pt[e][v].page
              /\ ~(Where(e) = "dup_parent" /\ v = frame[e].va) => Holds(k, v, view[k][v])
          BY <4>0, <4>3, <5>1, <2>0 DEF ViewsOf
        <5>3. pt'[k][v] = pt[k][v] /\ pt'[e][v] = pt[e][v]
          BY <5>1, <3>5, <1>v
        <5>4. Holds(k, v, view[k][v]) => HoldsIn(pt'[k][v], mem', view'[k][v])
          BY <5>1, <5>3, <3>3, <2>0, <1>v, CellKept DEF Holds
        <5> QED
          BY <5>2, <5>3, <5>4, <3>1, <2>w
      <4> QED
        BY <4>1, <4>2, <4>3, <2>2 DEF ViewsOf, Holds
    <3>9. LoadedOf(e)'
      BY <2>2, NotLoading
    <3> QED
      BY <2>0, <2>2, <3>7, <3>8, <3>9, <1>s, <1>o
  <2> QED
    BY <1>5, <2>1, <2>2, CowCopyDoes
<1>6. CASE cow_map(e)
  <2>0. /\ frame[e].pc = "cow_map" /\ Others(e) /\ UNCHANGED view
        /\ frame'[e].pc = frame[e].back /\ Works1(frame'[e], frame[e])
        /\ pt' = [d \in Env |-> [w \in Va |->
              IF d = e /\ w = frame[e].fault THEN pt[e][UCOW]
              ELSE IF d = e /\ w = UCOW THEN Unmapped ELSE pt[d][w]]]
        /\ mem' = Kept(mem, pt')
    BY <1>6, CowMapDoes
  <2>1. PICK a \in Own : a = frame[e].fault
    BY <2>0, <1>b DEF Frames, Sound
  <2>2. frame[e].back \in {"run"} \union InFork
    BY <1>b DEF Frames, Frame
  <2>3. Where(e)' = Where(e) /\ frame'[e].kid = frame[e].kid /\ frame'[e].va = frame[e].va /\ Where(e) \notin Building
    BY <2>0, <2>2 DEF Where, Place, Works1
  <2>4. MemKept
    BY <2>0, MemSteps
  <2>5. /\ pt'[e][a] = pt[e][UCOW]
        /\ \A d \in Env, w \in Own : ~(d = e /\ w = a) => pt'[d][w] = pt[d][w]
    BY <2>0, <2>1, <1>v
  <2>6. \A d \in Env : d # e => pt'[d] = pt[d]
    BY <2>0, <1>b DEF Tables
  <2>7. Steady(e, {})
    BY <2>0, <2>4, <2>6, SteadyStep
  <2>p. Where(e) = "dup_parent" => frame[e].va # a
    <3>1. PlacesOf(frame[e], pt[e])
      BY DEF Basics, Places
    <3>2. pt[e][a].perm = {"COW"}
      BY <3>1, <2>0, <2>1 DEF PlacesOf
    <3>3. Where(e) = "dup_parent" => pt[e][frame[e].va].perm = {"D"}
      BY <3>1 DEF PlacesOf, Where
    <3> QED
      BY <3>2, <3>3
  <2>8. ViewsOf(e)'
    <3>0. ViewsOf(e)
      BY <1>s
    <3>1. ASSUME NEW v \in Own, view'[e][v] # <<>>
          PROVE  HoldsIn(pt'[e][v], mem', view'[e][v])
      <4>1. CASE v = a
        <5>1. Holds(e, UCOW, view[e][v])
          BY <4>1, <3>0, <3>1, <2>0, <2>1 DEF ViewsOf
        <5>2. pt'[e][v].page = pt[e][UCOW].page
          BY <2>5, <4>1
        <5> QED
          BY <5>1, <5>2, <2>0, <2>4, <1>v, CellKept DEF Holds
      <4>2. CASE v # a
        <5>1. pt'[e][v] = pt[e][v]
          BY <4>2, <2>5
        <5> QED
          BY <5>1, <3>1, <2>0, <2>4, <1>v, <1>h, CellKept DEF Holds
      <4> QED
        BY <4>1, <4>2
    <3>2. ASSUME NEW k \in frame'[e].kid, NEW v \in Own, view'[k][v] # <<>>
          PROVE  /\ Where(e)' \notin Building
                 /\ Where(e)' \in {"dup", "dup_child"} => v < frame'[e].va
                 /\ Where(e)' = "dup_parent" => v <= frame'[e].va
                 /\ Where(e)' = "dup_parent" /\ v = frame'[e].va => pt'[k][v].page = pt'[e][v].page
                 /\ ~(Where(e)' = "dup_parent" /\ v = frame'[e].va) => HoldsIn(pt'[k][v], mem', view'[k][v])
      <4>1. k \in frame[e].kid /\ k \in Env /\ k # e
        BY <2>3, <3>2, <1>k
      <4>2. /\ Where(e) \in {"dup", "dup_child"} => v < frame[e].va
            /\ Where(e) = "dup_parent" => v <= frame[e].va
            /\ Where(e) = "dup_parent" /\ v = frame[e].va => pt[k][v].page = pt[e][v].page
            /\ ~(Where(e) = "dup_parent" /\ v = frame[e].va) => Holds(k, v, view[k][v])
        BY <3>0, <3>2, <4>1, <2>0 DEF ViewsOf
      <4>3. pt'[k][v] = pt[k][v] /\ (v # a => pt'[e][v] = pt[e][v])
        BY <4>1, <2>5
      <4>4. Holds(k, v, view[k][v]) => HoldsIn(pt'[k][v], mem', view'[k][v])
        BY <4>1, <4>3, <2>0, <2>4, <1>v, CellKept DEF Holds
      <4> QED
        BY <4>2, <4>3, <4>4, <2>3, <2>p
    <3> QED
      BY <3>1, <3>2, <2>0, <2>2 DEF ViewsOf, Holds
  <2>9. LoadedOf(e)'
    BY <2>0, <2>2, NotLoading
  <2> QED
    BY <2>0, <2>7, <2>8, <2>9, <1>s, <1>o
<1>7. CASE call_fork(e)
  <2>0. /\ UNCHANGED <<mem, pt, view>> /\ frame[e].pc = "run" /\ Others(e)
        /\ frame'[e].pc = "exofork" /\ frame'[e].kid = frame[e].kid
    BY <1>7, CallForkDoes DEF Works1
  <2> QED
    BY <2>0, <1>u DEF Where, Place
<1>8. CASE exofork(e)
  <2>0. /\ UNCHANGED <<mem, pt, view>> /\ frame[e].pc = "exofork" /\ frame[e].kid = {}
        /\ frame'[e].pc \in {"entry", "dup"}
    BY <1>8, ExoforkDoes
  <2>1. \A v \in Own : view'[e][v] # <<>> => HoldsIn(pt'[e][v], mem', view'[e][v])
    BY <2>0, <1>h DEF Holds
  <2>2. LoadedOf(e)'
    BY <2>0, NotLoading
  <2>3. MemKept
    BY <2>0, MemSteps
  <2>4. CASE Others(e) /\ frame'[e].kid = {}
    <3>1. ViewsOf(e)'
      BY <2>0, <2>1, <2>4 DEF ViewsOf, Holds
    <3> QED
      BY <2>0, <2>2, <2>3, <2>4, <3>1, <1>s, <1>o, SteadyStep
  <2>5. CASE \E k \in Env \ {e} :
                 frame[k] = Free /\ frame'[k] = Embryo /\ OthersBut(e, {k}) /\ frame'[e].kid = {k}
    <3>1. PICK k \in Env \ {e} :
                 frame[k] = Free /\ frame'[k] = Embryo /\ OthersBut(e, {k}) /\ frame'[e].kid = {k}
      BY <2>5
    <3>2. \A v \in Own : view'[k][v] = <<>>
      BY <2>0, <3>1, <1>s, Starts DEF ViewsOf
    <3>3. ViewsOf(e)'
      BY <2>0, <2>1, <3>1, <3>2 DEF ViewsOf, Holds
    <3> DEFINE K == {k}
    <3>4. Acts(e, K)
      BY <3>1, <2>0, <2>3, <1>a, SteadyStep DEF Acts
    <3>5. \A j \in K : ViewsOf(j)' /\ LoadedOf(j)'
      BY <3>1, ViewsIdle, NotLoading, Starts
    <3> HIDE DEF K
    <3> QED
      BY <2>0, <2>2, <3>3, <3>4, <3>5, <1>s, <1>q
  <2> QED
    BY <1>8, <2>4, <2>5, ExoforkDoes
<1>9. CASE duppage(e)
  <2>0. /\ UNCHANGED <<mem, pt, view>> /\ frame[e].pc = "dup" /\ Others(e)
        /\ frame'[e].pc = "dup_child" /\ frame'[e].kid = frame[e].kid /\ frame'[e].va = frame[e].va
    BY <1>9, DuppageDoes
  <2> QED
    BY <2>0, <1>u DEF Where, Place
<1>10. CASE duppage_child(e)
  <2> DEFINE f == frame[e]
  <2>0. /\ UNCHANGED mem /\ f.pc = "dup_child" /\ Others(e)
        /\ f.va \in (Own \union Lib) \ {Fd} /\ pt[e][f.va].page # {}
        /\ frame'[e].kid = f.kid /\ frame'[e].pc \in {"dup_parent", "entry", "dup"}
        /\ frame'[e].pc = "dup_parent" => frame'[e].va = f.va
    BY <1>10, DuppageChildDoes DEF Onward, Works1
  <2>n. frame'[e].pc = "dup" => f.va < frame'[e].va
    <3>1. f \in Frame
      BY <1>b DEF Frames
    <3>2. frame'[e] = IF Cow(f.perm) THEN [f EXCEPT !.pc = "dup_parent"] ELSE NextPage(e, f)
      BY <1>10, <1>b DEF duppage_child, Frames
    <3>3. [f EXCEPT !.pc = "dup_parent"].pc = "dup_parent"
      BY <3>1 DEF Frame
    <3> QED
      BY <3>1, <3>2, <3>3, NextPageLater
  <2>1. PICK a \in (Own \union Lib) \ {Fd} : a = f.va
    BY <2>0
  <2>i. a \in Int /\ a \in Va
    BY VaFacts
  <2>2. MemKept
    BY <2>0, MemSteps
  <2>3. /\ Where(e) = "dup_child" /\ Where(e)' = frame'[e].pc
    BY <2>0 DEF Where, Place
  <2>4. LoadedOf(e)'
    BY <2>0, NotLoading
  \* What is known of the pages before this one.
  <2>5. ASSUME NEW k \in f.kid, NEW v \in Own, view[k][v] # <<>>
        PROVE  v < a /\ Holds(k, v, view[k][v])
    BY <2>1, <2>3, <2>5, <1>s DEF ViewsOf
  <2>6. ASSUME \A d \in Env : d \notin f.kid => pt'[d] = pt[d] /\ view'[d] = view[d],
               \A k \in f.kid, v \in Own \ {a} : pt'[k][v] = pt[k][v] /\ view'[k][v] = view[k][v],
               \A k \in f.kid : a \in Own /\ view'[k][a] # <<>> =>
                 pt'[k][a].page = pt[e][a].page /\ view'[k][a] = view[e][a],
               view' = [d \in Env |-> [w \in Own |-> view'[d][w]]]
        PROVE  Contents'
    <3>1. pt'[e] = pt[e] /\ view'[e] = view[e]
      BY <2>6, <1>k
    <3>2. \A v \in Own : view'[e][v] # <<>> => HoldsIn(pt'[e][v], mem', view'[e][v])
      BY <3>1, <2>0, <1>h DEF Holds
    <3>3. ASSUME NEW k \in frame'[e].kid, NEW v \in Own, view'[k][v] # <<>>
          PROVE  /\ Where(e)' \notin Building
                 /\ Where(e)' \in {"dup", "dup_child"} => v < frame'[e].va
                 /\ Where(e)' = "dup_parent" => v <= frame'[e].va
                 /\ Where(e)' = "dup_parent" /\ v = frame'[e].va => pt'[k][v].page = pt'[e][v].page
                 /\ ~(Where(e)' = "dup_parent" /\ v = frame'[e].va) => HoldsIn(pt'[k][v], mem', view'[k][v])
      <4>0. k \in f.kid /\ frame'[e].va \in Int /\ v \in Int
        <5>1. frame'[e] \in Frame
          BY FramesNext DEF Basics, Frames, Next
        <5> QED
          BY <3>3, <2>0, <5>1, VaFacts DEF Frame
      <4>1. CASE v = a
        <5>1. pt'[k][a].page = pt[e][a].page /\ view'[k][a] = view[e][a]
          BY <4>0, <4>1, <3>3, <2>6
        <5>2. HoldsIn(pt'[k][v], mem', view'[k][v])
          <6>1. HoldsIn(pt[e][a], mem, view[e][a])
            BY <4>1, <5>1, <3>3, <1>h DEF Holds
          <6> QED
            BY <6>1, <4>1, <5>1, <2>0 DEF HoldsIn
        <5> QED
          BY <4>0, <4>1, <5>1, <5>2, <3>1, <2>0, <2>1, <2>3, <2>n
      <4>2. CASE v # a
        <5>1. pt'[k][v] = pt[k][v] /\ view'[k][v] = view[k][v]
          BY <4>0, <4>2, <2>6
        <5>2. v < a /\ Holds(k, v, view[k][v])
          BY <4>0, <5>1, <3>3, <2>5
        <5>3. HoldsIn(pt'[k][v], mem', view'[k][v])
          BY <5>1, <5>2, <2>0 DEF Holds
        <5> QED
          BY <4>0, <5>2, <5>3, <2>0, <2>1, <2>i, <2>3, <2>n
      <4> QED
        BY <4>1, <4>2
    <3>4. ViewsOf(e)'
      BY <2>0, <3>2, <3>3 DEF ViewsOf, Holds
    <3>5. Steady(e, {})
      BY <2>0, <2>6 DEF Steady
    <3> QED
      BY <2>0, <2>4, <2>6, <3>4, <3>5, <1>o
  <2>7. CASE UNCHANGED <<pt, view>>
    <3>1. \A k \in f.kid : a \in Own => view'[k][a] = <<>>
      BY <2>5, <2>7, <2>i
    <3> QED
      BY <2>6, <2>7, <3>1, <1>s
  <2>8. CASE /\ pt' = [d \in Env |-> [w \in Va |->
                    IF d \in f.kid /\ w = f.va
                    THEN Map(PageOf(e, f.va), IF f.perm = {"D"} THEN {"COW"} ELSE f.perm) ELSE pt[d][w]]]
             /\ view' = [k \in Env |-> IF k \in f.kid /\ f.va \in Own
                                  THEN [view[k] EXCEPT ![f.va] = view[e][f.va]] ELSE view[k]]
    <3> DEFINE m == Map(PageOf(e, a), IF f.perm = {"D"} THEN {"COW"} ELSE f.perm)
    <3>1. m.page = pt[e][a].page
      BY <2>0, <2>1, <2>i, <1>b, PageOfCell DEF Map
    <3>2. pt' = [d \in Env |-> [w \in Va |-> IF d \in f.kid /\ w = a THEN m ELSE pt[d][w]]]
      BY <2>8, <2>1
    <3> HIDE DEF m
    <3>3. \A d \in Env : d \notin f.kid => pt'[d] = pt[d]
      BY <3>2, <1>b DEF Tables
    <3>4. \A k \in f.kid : pt'[k][a].page = pt[e][a].page /\ \A v \in Own \ {a} : pt'[k][v] = pt[k][v]
      BY <3>1, <3>2, <2>i, <1>k, <1>v
    <3>5. \A d \in Env : view[d] = [w \in Own |-> view[d][w]]
      BY <1>s
    <3>6. view' = [d \in Env |-> [w \in Own |-> IF d \in f.kid /\ w = a THEN view[e][a] ELSE view[d][w]]]
      <4>1. ASSUME NEW d \in Env
            PROVE  view'[d] = [w \in Own |-> IF d \in f.kid /\ w = a THEN view[e][a] ELSE view[d][w]]
        <5>1. CASE d \in f.kid /\ a \in Own
          BY <5>1, <2>1, <2>8, <3>5
        <5>2. CASE ~(d \in f.kid /\ a \in Own)
          <6>1. view'[d] = view[d]
            BY <5>2, <2>1, <2>8
          <6>2. \A w \in Own : ~(d \in f.kid /\ w = a)
            BY <5>2
          <6> QED
            BY <6>1, <6>2, <3>5
        <5> QED
          BY <5>1, <5>2
      <4>2. view' = [d \in Env |-> view'[d]]
        BY <2>8
      <4> QED
        BY <4>1, <4>2
    <3>7. /\ view' = [d \in Env |-> [w \in Own |-> view'[d][w]]]
          /\ \A d \in Env : d \notin f.kid => view'[d] = view[d]
          /\ \A k \in f.kid : a \in Own => view'[k][a] = view[e][a]
          /\ \A k \in f.kid, v \in Own \ {a} : view'[k][v] = view[k][v]
      <4>1. \A d \in Env, w \in Own : view'[d][w] = IF d \in f.kid /\ w = a THEN view[e][a] ELSE view[d][w]
        BY <3>6
      <4>2. \A d \in Env : view'[d] = [w \in Own |-> view'[d][w]]
        BY <3>6
      <4>3. ASSUME NEW d \in Env, d \notin f.kid
            PROVE  view'[d] = view[d]
        BY <4>1, <4>2, <4>3, <3>5
      <4>4. view' = [d \in Env |-> view'[d]]
        BY <3>6
      <4> QED
        BY <4>1, <4>2, <4>3, <4>4, <1>k
    <3> QED
      BY <2>6, <3>3, <3>4, <3>7
  <2> QED
    BY <1>10, <2>7, <2>8, DuppageChildDoes
<1>11. CASE duppage_parent(e)
  <2> DEFINE f == frame[e]
  <2>0. /\ UNCHANGED mem /\ f.pc = "dup_parent" /\ Others(e) /\ frame'[e].pc \in {"entry", "dup"}
        /\ frame'[e].kid = f.kid /\ f.va \in Own /\ pt[e][f.va].page # {}
        /\ Only(e, f.va, Map(PageOf(e, f.va), {"COW"}))
        /\ view' = [k \in Env |-> IF k \in f.kid /\ view[k][f.va] # <<>>
                            THEN [view[k] EXCEPT ![f.va] = view[e][f.va]] ELSE view[k]]
    BY <1>11, DuppageParentDoes DEF Onward
  <2>n. frame'[e].pc = "dup" => f.va < frame'[e].va
    <3>1. f \in Frame /\ frame'[e] = NextPage(e, f)
      BY <1>11, <1>b DEF Frames, duppage_parent
    <3> QED
      BY <3>1, NextPageLater
  <2>1. PICK a \in Own : a = f.va
    BY <2>0
  <2>i. a \in Int /\ a \in Va
    BY VaFacts
  <2>2. Where(e) = "dup_parent" /\ Where(e)' = frame'[e].pc
    BY <2>0 DEF Where, Place
  <2>3. \A d \in Env, w \in Va : pt'[d][w].page = pt[d][w].page
    <3>2. pt[e][a].page = {PageOf(e, a)}
      BY <2>i, <2>0, <2>1, <1>b, PageOfCell
    <3>3. \A d \in Env, w \in Va : pt'[d][w] = IF d = e /\ w = a THEN Map(PageOf(e, a), {"COW"}) ELSE pt[d][w]
      BY <2>0, <2>1 DEF Only
    <3>4. Map(PageOf(e, a), {"COW"}).page = {PageOf(e, a)}
      BY DEF Map
    <3> QED
      BY <3>2, <3>3, <3>4
  <2>4. \A d \in Env : d # e => pt'[d] = pt[d]
    BY <2>0, <1>b DEF Only, Tables
  <2>5. \A d \in Env : view[d] = [w \in Own |-> view[d][w]]
    BY <1>s
  <2>6. ASSUME NEW d \in Env
        PROVE  view'[d] = [w \in Own |-> IF d \in f.kid /\ w = a /\ view[d][a] # <<>> THEN view[e][a] ELSE view[d][w]]
    <3>1. CASE d \in f.kid /\ view[d][a] # <<>>
      BY <3>1, <2>0, <2>1, <2>5
    <3>2. CASE ~(d \in f.kid /\ view[d][a] # <<>>)
      <4>1. view'[d] = view[d]
        BY <3>2, <2>0, <2>1
      <4> QED
        BY <3>2, <4>1, <2>5
    <3> QED
      BY <3>1, <3>2
  <2>7. \A d \in Env, w \in Own :
          view'[d][w] = IF d \in f.kid /\ w = a /\ view[d][a] # <<>> THEN view[e][a] ELSE view[d][w]
    BY <2>6
  <2>8. view' = [d \in Env |-> [w \in Own |-> view'[d][w]]]
    <3>1. view' = [d \in Env |-> view'[d]]
      BY <2>0
    <3>2. \A d \in Env : view'[d] = [w \in Own |-> view'[d][w]]
      BY <2>6
    <3> QED
      BY <3>1, <3>2
  <2>9. \A d \in Env : d \notin f.kid => view'[d] = view[d]
    BY <2>5, <2>6
  <2>10. Steady(e, {})
    BY <2>0, <2>4, <2>9 DEF Steady
  <2>11. ViewsOf(e)'
    <3>1. \A v \in Own : view'[e][v] # <<>> => HoldsIn(pt'[e][v], mem', view'[e][v])
      <4>1. view'[e] = view[e]
        BY <2>9, <1>k
      <4> QED
        BY <4>1, <2>0, <2>3, <1>h, <1>v DEF Holds, HoldsIn
    <3>2. ASSUME NEW k \in frame'[e].kid, NEW v \in Own, view'[k][v] # <<>>
          PROVE  /\ Where(e)' \notin Building
                 /\ Where(e)' \in {"dup", "dup_child"} => v < frame'[e].va
                 /\ Where(e)' # "dup_parent"
                 /\ HoldsIn(pt'[k][v], mem', view'[k][v])
      <4>0. k \in f.kid /\ k \in Env /\ frame'[e].va \in Int /\ v \in Int
        <5>1. frame'[e] \in Frame
          BY FramesNext DEF Basics, Frames, Next
        <5> QED
          BY <3>2, <2>0, <5>1, <1>k, VaFacts DEF Frame
      <4>1. view[k][v] # <<>>
        BY <4>0, <3>2, <2>7
      <4>2. /\ v <= a
            /\ v = a => pt[k][v].page = pt[e][v].page
            /\ v # a => Holds(k, v, view[k][v])
        BY <4>0, <4>1, <2>1, <2>2, <1>s DEF ViewsOf
      <4>3. HoldsIn(pt'[k][v], mem', view'[k][v])
        <5>1. CASE v = a
          <6>1. view'[k][v] = view[e][a]
            BY <5>1, <4>0, <4>1, <2>7
          <6>2. Holds(e, a, view[e][a])
            BY <6>1, <3>2, <1>h
          <6>3. pt'[k][v].page = pt[e][a].page
            BY <5>1, <4>0, <4>2, <2>3, <2>i
          <6> QED
            BY <6>1, <6>2, <6>3, <2>0 DEF Holds, HoldsIn
        <5>2. CASE v # a
          <6>1. view'[k][v] = view[k][v] /\ pt'[k][v].page = pt[k][v].page
            BY <5>2, <4>0, <2>3, <2>7, <1>v
          <6> QED
            BY <5>2, <4>2, <6>1, <2>0 DEF Holds, HoldsIn
        <5> QED
          BY <5>1, <5>2
      <4> QED
        BY <4>0, <4>2, <4>3, <2>0, <2>1, <2>i, <2>2, <2>n
    <3> QED
      BY <3>1, <3>2, <2>0 DEF ViewsOf, Holds
  <2>12. LoadedOf(e)'
    BY <2>0, NotLoading
  <2> QED
    BY <2>0, <2>8, <2>10, <2>11, <2>12, <1>o
<1>12. CASE set_entry(e)
  <2>0. /\ UNCHANGED <<mem, pt, view>> /\ frame[e].pc = "entry" /\ Others(e)
        /\ frame'[e].pc = "runnable" /\ frame'[e].kid = frame[e].kid
    BY <1>12, SetEntryDoes DEF Works1
  <2> QED
    BY <2>0, <1>u DEF Where, Place
<1>13. CASE set_runnable(e)
  <2>0. /\ UNCHANGED <<mem, pt, view>> /\ frame[e].pc = "runnable"
        /\ frame'[e] = Running /\ (\A k \in frame[e].kid : frame'[k] = Running)
        /\ OthersBut(e, frame[e].kid)
    BY <1>13, SetRunnableDoes
  <2>1. \A k \in frame[e].kid, v \in Own : view[k][v] # <<>> => Holds(k, v, view[k][v])
    <3>1. Where(e) = "runnable" /\ ViewsOf(e)
      BY <2>0, <1>s DEF Where, Place
    <3> QED
      BY <3>1 DEF ViewsOf
  <2>2. \A k \in frame[e].kid \union {e} : ViewsOf(k)'
    BY <2>0, <2>1, <1>h, Starts DEF ViewsOf, Holds
  <2>3. \A k \in frame[e].kid \union {e} : LoadedOf(k)'
    BY <2>0, <1>k, Starts, NotLoading
  <2> DEFINE K == frame[e].kid
  <2>4. MemKept
    BY <2>0, MemSteps
  <2>5. Acts(e, K)
    <3>1. Steady(e, K)
      BY <2>0, <2>4, SteadyStep
    <3> QED
      BY <2>0, <3>1, <1>a, <1>k DEF Acts
  <2>6. ViewsOf(e)' /\ LoadedOf(e)' /\ \A k \in K : ViewsOf(k)' /\ LoadedOf(k)'
    BY <2>2, <2>3
  <2> HIDE DEF K
  <2> QED
    BY <2>0, <2>5, <2>6, <1>s, <1>q
<1>14. CASE env_free(e)
  <2>0. /\ frame'[e] = Free /\ (\A k \in frame[e].kid : frame'[k] = Orphan)
        /\ OthersBut(e, frame[e].kid)
        /\ pt' = [d \in Env |-> [w \in Va |-> IF d = e THEN Unmapped ELSE pt[d][w]]]
        /\ mem' = Kept(mem, pt') /\ view' = [view EXCEPT ![e] = Given]
    BY <1>14, EnvFreeDoes
  <2>1. MemKept
    BY <2>0, MemSteps
  <2>2. \A d \in Env : d # e => pt'[d] = pt[d]
    BY <2>0, <1>b DEF Tables
  <2>3. /\ view' = [d \in Env |-> [w \in Own |-> view'[d][w]]]
        /\ \A d \in Env : d # e => view'[d] = view[d]
        /\ \A v \in Own : view'[e][v] = <<>>
    <3>1. view' = [d \in Env |-> IF d = e THEN Given ELSE view[d]]
      BY <2>0, <1>s
    <3>2. \A d \in Env : view[d] = [w \in Own |-> view[d][w]]
      BY <1>s
    <3>3. Given = [w \in Own |-> Given[w]] /\ \A v \in Own : Given[v] = <<>>
      BY DEF Given
    <3> QED
      BY <3>1, <3>2, <3>3
  <2>4. ViewsOf(e)' /\ LoadedOf(e)'
    <3>1. ViewsOf(e)'
      BY <2>0, <2>3, Starts DEF ViewsOf
    <3> QED
      BY <3>1, <2>0, Starts, NotLoading
  <2>5. \A k \in frame[e].kid : ViewsOf(k)' /\ LoadedOf(k)'
    BY <2>0, <1>k, Starts, ViewsIdle, NotLoading
  <2> DEFINE K == frame[e].kid
  <2>6. Steady(e, K)
    BY <2>1, <2>2, <2>3, CellKept DEF Steady
  <2>7. Acts(e, K)
    BY <2>0, <2>6, <1>a, <1>k DEF Acts
  <2>8. \A k \in K : ViewsOf(k)' /\ LoadedOf(k)'
    BY <2>5
  <2> HIDE DEF K
  <2> QED
    BY <2>3, <2>4, <2>7, <2>8, <1>q
<1> QED
  BY <1>3, <1>4, <1>5, <1>6, <1>7, <1>8, <1>9, <1>10, <1>11, <1>12, <1>13, <1>14 DEF ForkStep

------------------------------------------------------------------------------
(* Loading a program *)

\* What the calls of the mapper before the next one leave stays when that one is for
\* another page, and the next one leaves its content.
LEMMA PageLoadedSame ==
  ASSUME NEW calls, NEW n, NEW k, NEW v, PageLoaded(calls, n, k, v), pt'[k][v] = pt[k][v],
         \A p \in pt[k][v].page : mem'[p] = mem[p]
  PROVE  PageLoaded(calls, n, k, v)'
  BY HoldsSame DEF PageLoaded, Holds

\* The next call is for another page.
LEMMA PageLoadedOther ==
  ASSUME NEW calls, NEW n \in Nat, NEW k, NEW v, calls[n + 1].page # v,
         PageLoaded(calls, n, k, v), pt'[k][v] = pt[k][v], \A p \in pt[k][v].page : mem'[p] = mem[p]
  PROVE  PageLoaded(calls, n + 1, k, v)'
<1>1. \A j : j \in 1 .. n + 1 <=> j \in 1 .. n \/ j = n + 1
  OBVIOUS
<1>2. ASSUME \A j \in 1 .. n + 1 : calls[j].page # v
      PROVE  pt'[k][v] = Unmapped
  BY <1>1, <1>2 DEF PageLoaded
<1>3. ASSUME NEW j \in 1 .. n + 1, LastCall(calls, n + 1, v, j)
      PROVE  HoldsIn(pt'[k][v], mem', Content(calls[j]))
  <2>1. j \in 1 .. n /\ calls[j].page = v
    BY <1>1, <1>3 DEF LastCall
  <2>2. \A i \in j + 1 .. n : calls[i].page # v
    BY <1>3, <2>1 DEF LastCall
  <2>3. Holds(k, v, Content(calls[j]))
    BY <2>1, <2>2 DEF PageLoaded, LastCall
  <2> QED
    BY <2>3, HoldsSame DEF Holds
<1> QED
  BY <1>2, <1>3 DEF PageLoaded, Holds

\* The next call is for this page.
LEMMA PageLoadedNow ==
  ASSUME NEW calls, NEW n \in Nat, NEW k, NEW v, calls[n + 1].page = v,
         HoldsIn(pt'[k][v], mem', Content(calls[n + 1]))
  PROVE  PageLoaded(calls, n + 1, k, v)'
<1>1. n + 1 \in 1 .. n + 1
  OBVIOUS
<1>2. ASSUME NEW j \in 1 .. n + 1, LastCall(calls, n + 1, v, j)
      PROVE  j = n + 1
  <2> SUFFICES ASSUME j # n + 1
               PROVE  FALSE
    OBVIOUS
  <2>1. n + 1 \in j + 1 .. n + 1
    OBVIOUS
  <2> QED
    BY <2>1, <1>2 DEF LastCall
<1> QED
  BY <1>1, <1>2 DEF PageLoaded, Holds

\* What is assumed of the program that is being loaded.
LEMMA CallsOf ==
  ASSUME Basics, NEW e \in Env, frame[e].pc \in Building
  PROVE  /\ frame[e].prog \in Programs /\ Calls(frame[e].prog) \in Seq(LoadCall)
         /\ frame[e].prog.args \in [1 .. PAGE_SIZE -> Nat] /\ LoadsImage(frame[e].prog)
         /\ frame[e].todo \in Seq(LoadCall)
<1>1. frame[e].prog \in Programs
  BY DEF Basics, Frames, Sound
<1>2. LoadsImage(frame[e].prog) /\ frame[e].prog.args \in [1 .. PAGE_SIZE -> Nat]
  BY <1>1, LoaderAssumption
<1>3. Calls(frame[e].prog) \in Seq(LoadCall)
  BY <1>2 DEF LoadsImage
<1> QED
  BY <1>1, <1>2, <1>3 DEF Basics, Frames, Frame

\* spawn goes on to the next call of the mapper.
LEMMA TodoTail ==
  ASSUME NEW f, NEW g, TodoOf(f), f.todo \in Seq(LoadCall), Calls(f.prog) \in Seq(LoadCall),
         f.todo # <<>>, g.prog = f.prog, g.todo = Tail(f.todo), g.pc = "load"
  PROVE  /\ TodoOf(g) /\ Past(f) \in Nat /\ Past(g) = Past(f) + 1
         /\ Calls(f.prog)[Past(f) + 1] = Head(f.todo)
<1> DEFINE calls == Calls(f.prog)
<1>1. calls \in Seq(LoadCall) /\ Len(calls) \in Nat /\ Len(f.todo) \in Nat /\ Len(f.todo) >= 1
  OBVIOUS
<1>2. Len(g.todo) = Len(f.todo) - 1 /\ \A i \in 1 .. Len(g.todo) : g.todo[i] = f.todo[i + 1]
  BY <1>1
<1>3. Past(f) = Len(calls) - Len(f.todo) /\ Past(g) = Len(calls) - Len(g.todo)
  BY DEF Past
<1>4. Past(f) \in 0 .. Len(calls) /\ \A i \in 1 .. Len(f.todo) : f.todo[i] = calls[Past(f) + i]
  BY DEF TodoOf
<1> HIDE DEF calls
<1>5. Past(g) = Past(f) + 1 /\ Past(f) \in Nat /\ Past(f) \in Int
  BY <1>1, <1>2, <1>3, <1>4
<1>6. Past(g) \in 0 .. Len(calls)
  BY <1>1, <1>2, <1>3, <1>4, <1>5
<1>7. ASSUME NEW i \in 1 .. Len(g.todo)
      PROVE  g.todo[i] = calls[Past(g) + i]
  <2>1. i + 1 \in 1 .. Len(f.todo) /\ Past(f) + (i + 1) = Past(g) + i
    <3>1. PICK m \in Nat : m = Len(f.todo)
      BY <1>1
    <3>2. i \in 1 .. m - 1
      BY <3>1, <1>2
    <3>3. i \in Int /\ i + 1 \in 1 .. m
      BY <3>2
    <3>4. PICK a \in Int : a = Past(f)
      BY <1>5
    <3>5. Past(g) = a + 1
      BY <3>4, <1>5
    <3>6. a + (i + 1) = a + 1 + i
      BY <3>3
    <3> QED
      BY <3>1, <3>3, <3>4, <3>5, <3>6
  <2>2. f.todo[i + 1] = calls[Past(f) + (i + 1)]
    BY <2>1, <1>4
  <2> QED
    BY <2>1, <2>2, <1>2
<1>8. Head(f.todo) = calls[Past(f) + 1]
  <2>1. 1 \in 1 .. Len(f.todo) /\ Head(f.todo) = f.todo[1]
    BY <1>1
  <2> QED
    BY <2>1, <1>4
<1> QED
  BY <1>5, <1>6, <1>7, <1>8 DEF TodoOf, calls

\* A page is not empty.
LEMMA FullPage ==
  ASSUME NEW f, DOMAIN f = 1 .. PAGE_SIZE
  PROVE  f # <<>>
<1>1. 1 \in DOMAIN f
  BY MemoryAssumption
<1>2. DOMAIN <<>> = {}
  OBVIOUS
<1> QED
  BY <1>1, <1>2

\* When spawn starts its child, each private page of it is what the segments say.
LEMMA ChildIsImage ==
  ASSUME Basics, Loaded, NEW e \in Env, frame[e].pc = "start", NEW k \in frame[e].kid, NEW v \in Own
  PROVE  \/ Image(frame[e].prog, v) = <<>> /\ pt[k][v] = Unmapped
         \/ Image(frame[e].prog, v) # <<>> /\ Holds(k, v, Image(frame[e].prog, v))
<1> DEFINE prog == frame[e].prog
           calls == Calls(prog)
<1>1. /\ calls \in Seq(LoadCall) /\ prog.args \in [1 .. PAGE_SIZE -> Nat] /\ LoadsImage(prog)
  BY CallsOf
<1>2. /\ TodoOf(frame[e]) /\ Holds(k, Stack, prog.args)
      /\ v # Stack /\ ~Open(e, v) => PageLoaded(calls, Past(frame[e]), k, v)
  BY DEF Loaded, LoadedOf
<1>3. CASE v = Stack
  <2>1. Image(prog, v) = prog.args
    BY <1>3 DEF Image
  <2>2. prog.args # <<>>
    BY <1>1, FullPage
  <2> QED
    BY <2>1, <2>2, <1>2, <1>3
<1>4. CASE v # Stack
  <2>1. Past(frame[e]) = Len(calls)
    <3>1. frame[e].todo = <<>>
      BY <1>2 DEF TodoOf
    <3>2. Len(frame[e].todo) = 0 /\ Len(calls) \in Nat
      BY <3>1, <1>1
    <3> QED
      BY <3>2 DEF Past
  <2>2. PageLoaded(calls, Len(calls), k, v)
    BY <1>2, <1>4, <2>1 DEF Open
  <2>3. /\ \A j \in DOMAIN calls :
             (\A i \in j + 1 .. Len(calls) : calls[i].page # calls[j].page)
                => Image(prog, calls[j].page) = Content(calls[j])
        /\ (\A j \in DOMAIN calls : calls[j].page # v) => Image(prog, v) = <<>>
    BY <1>1, <1>4 DEF LoadsImage
  <2>4. DOMAIN calls = 1 .. Len(calls) /\ Len(calls) \in Nat
    BY <1>1
  <2> HIDE DEF calls, prog
  <2>5. CASE \A j \in 1 .. Len(calls) : calls[j].page # v
    <3>1. Image(prog, v) = <<>> /\ pt[k][v] = Unmapped
      BY <2>2, <2>3, <2>4, <2>5 DEF PageLoaded
    <3> QED
      BY <3>1 DEF prog
  <2>6. CASE \E j \in 1 .. Len(calls) : calls[j].page = v
    <3> DEFINE T == {x \in Nat : \E j \in 1 .. Len(calls) : calls[j].page = v /\ x = Len(calls) - j}
    <3>1. T # {}
      <4>1. PICK j \in 1 .. Len(calls) : calls[j].page = v
        BY <2>6
      <4>2. Len(calls) - j \in Nat
        BY <2>4
      <4> QED
        BY <4>1, <4>2
    <3>2. PICK x \in T : \A y \in T : x <= y
      BY <3>1, LeastElement
    <3>3. PICK j \in 1 .. Len(calls) : calls[j].page = v /\ x = Len(calls) - j
      BY <3>2
    <3>4. ASSUME NEW i \in j + 1 .. Len(calls), calls[i].page = v
          PROVE  FALSE
      <4>1. Len(calls) - i \in Nat /\ i \in 1 .. Len(calls)
        <5>1. PICK n \in Nat : n = Len(calls)
          BY <2>4
        <5>2. j \in 1 .. n /\ i \in j + 1 .. n
          BY <5>1
        <5>3. n - i \in Nat /\ i \in 1 .. n
          BY <5>2
        <5> QED
          BY <5>1, <5>3
      <4>2. Len(calls) - i \in T
        BY <4>1, <3>4
      <4>3. Len(calls) - i < x
        BY <4>1, <3>3, <2>4
      <4>4. x <= Len(calls) - i /\ x \in Nat
        BY <3>2, <4>2
      <4> QED
        BY <4>1, <4>3, <4>4
    <3> HIDE DEF T
    <3>5. LastCall(calls, Len(calls), v, j)
      BY <3>3, <3>4 DEF LastCall
    <3>6. Holds(k, v, Content(calls[j]))
      BY <3>5, <2>2 DEF PageLoaded
    <3>7. Image(prog, v) = Content(calls[j])
      BY <3>3, <3>4, <2>3, <2>4
    <3>8. Content(calls[j]) # <<>>
      BY FullPage DEF Content
    <3> QED
      BY <3>6, <3>7, <3>8 DEF prog
  <2> QED
    BY <2>5, <2>6
<1> QED
  BY <1>3, <1>4

\* A step of spawn that leaves the private pages of its caller.
LEMMA SpawnCalm ==
  ASSUME Basics, Contents, NEW e \in Env, frame[e].pc \notin Idle, Others(e), MemKept, view' = view,
         frame'[e].kid = frame[e].kid, Where(e) \in Building \/ frame[e].kid = {},
         frame'[e].pc \notin {"cow_map", "free", "other"},
         \A v \in Own : pt'[e][v].page = pt[e][v].page,
         \A d \in Env : d # e /\ d \notin frame[e].kid => pt'[d] = pt[d],
         LoadedOf(e)'
  PROVE  Contents'
<1> DEFINE K == {}
<1>1. Steady(e, K)
  BY SteadyStep
<1>2. Acts(e, K) /\ \A k \in K : ViewsOf(k)' /\ LoadedOf(k)'
  BY <1>1 DEF Acts, Others, OthersBut
<1> HIDE DEF K
<1>3. ViewsOf(e)'
  BY ViewsCalm DEF Contents
<1>4. view' = [d \in Env |-> [w \in Own |-> view'[d][w]]]
  BY DEF Contents, Views
<1>5. \A d \in Env : ViewsOf(d)'
  BY <1>2, <1>3, ViewsStep DEF Contents
<1>6. Loaded'
  BY <1>2, LoadedStep DEF Contents
<1> QED
  BY <1>4, <1>5, <1>6 DEF Contents, Views

\* What there is to show of a step to a place where spawn is loading.
LEMMA LoadingStep ==
  ASSUME NEW e \in Env, NEW k, frame'[e].kid = {k}, frame'[e].pc \in Filling \union {"share", "start"},
         NEW prog, prog = frame'[e].prog, NEW n, n = Past(frame'[e]), TodoOf(frame'[e]),
         HoldsIn(pt'[k][Stack], mem', prog.args),
         \A v \in Own \ {Stack} :
           /\ Open(e, v)' => HoldsIn(pt'[k][v], mem', Zeros)
           /\ ~Open(e, v)' => PageLoaded(Calls(prog), n, k, v)',
         frame'[e].pc = "load_copy" => pt'[e][UTEMP].page = pt'[k][Next1(e)'.page].page,
         LibLoaded(frame'[e], pt'[e], pt'[k])
  PROVE  LoadedOf(e)'
<1>1. ASSUME NEW v \in Own \ {Stack}, ~Open(e, v)'
      PROVE  PageLoaded(Calls(frame[e].prog), Past(frame[e]), k, v)'
  <2>1. PageLoaded(Calls(prog), n, k, v)'
    BY <1>1
  <2>2. Calls(prog) = Calls(frame'[e].prog) /\ n = Past(frame'[e])
    OBVIOUS
  <2> QED
    BY <2>1, <2>2 DEF PageLoaded
<1>2. ASSUME NEW j \in frame'[e].kid
      PROVE  j = k
  OBVIOUS
<1> QED
  BY <1>1, <1>2 DEF LoadedOf, Holds

\* What is known while spawn is loading.
LEMMA LoadingFacts ==
  ASSUME Basics, Loaded, NEW e \in Env, frame[e].pc \in Filling \union {"share", "start"}
  PROVE  /\ frame[e].kid = {Kid(e)} /\ Kid(e) \in Env /\ Kid(e) # e
         /\ TodoOf(frame[e])
         /\ Holds(Kid(e), Stack, frame[e].prog.args)
         /\ \A v \in Own \ {Stack} :
              /\ Open(e, v) => Holds(Kid(e), v, Zeros)
              /\ ~Open(e, v) => PageLoaded(Calls(frame[e].prog), Past(frame[e]), Kid(e), v)
         /\ frame[e].pc = "load_copy" => pt[e][UTEMP].page = pt[Kid(e)][Next1(e).page].page
         /\ LibLoaded(frame[e], pt[e], pt[Kid(e)])
<1>1. frame[e].kid # {}
  BY DEF Basics, Kids
<1>2. frame[e].kid = {Kid(e)} /\ Kid(e) \in Env /\ Kid(e) # e
  BY <1>1, TheKid
<1>3. LoadedOf(e)
  BY DEF Loaded
<1> QED
  BY <1>2, <1>3 DEF LoadedOf

\* A place keeps its page, or a page that is mapped stays what it is.
LEMMA CellSame ==
  ASSUME MemKept, NEW d \in Env, NEW w \in Va, pt'[d][w] = pt[d][w]
  PROVE  /\ \A p \in pt[d][w].page : mem'[p] = mem[p]
         /\ \A x : Holds(d, w, x) => HoldsIn(pt'[d][w], mem', x)
  BY CellKept DEF Holds

\* init_stack: the child has the arguments on its stack.
LEMMA ContentsStackMap ==
  ASSUME Basics, Contents, NEW e \in Env, init_stack_map(e)
  PROVE  Contents'
<1>1. /\ view' = view /\ frame[e].pc = "stack_map"
      /\ mem' = Kept(mem, pt') /\ Others(e) /\ frame'[e].kid = frame[e].kid /\ frame'[e].prog = frame[e].prog
      /\ pt[e][UTEMP].page # {}
  BY InitStackMapDoes
<1>2. MemKept /\ Where(e) \in Building
  BY <1>1, MemSteps DEF Where, Place
<1>v. Own \subseteq Va /\ UTEMP \in Va /\ UTEMP \notin Own /\ Lib \subseteq Va /\ Stack \in Own /\ Stack \notin Lib
  BY VaFacts
<1>3. CASE frame'[e].pc = "err1" /\ Only(e, UTEMP, Unmapped)
  <2>1. /\ \A v \in Own : pt'[e][v] = pt[e][v]
        /\ \A d \in Env : d # e => pt'[d] = pt[d]
    BY <1>3, <1>v DEF Only, Basics, Tables
  <2>2. LoadedOf(e)'
    BY <1>3, NotLoading
  <2> QED
    BY <1>1, <1>2, <1>3, <2>1, <2>2, SpawnCalm
<1>4. CASE /\ frame'[e].pc = "load" /\ frame'[e].todo = Calls(frame[e].prog) /\ frame[e].kid # {}
           /\ pt' = [d \in Env |-> [w \in Va |->
                    IF d = Kid(e) /\ w = Stack THEN pt[e][UTEMP]
                    ELSE IF d = e /\ w = UTEMP THEN Unmapped ELSE pt[d][w]]]
  <2>1. PICK k \in Env : k = Kid(e) /\ frame[e].kid = {k} /\ k # e
    BY <1>4, TheKid
  <2>2. /\ pt'[k][Stack] = pt[e][UTEMP]
        /\ \A v \in Va \ {Stack} : pt'[k][v] = pt[k][v]
        /\ \A v \in Own : pt'[e][v] = pt[e][v]
        /\ \A d \in Env \ {e, k} : pt'[d] = pt[d]
    BY <1>4, <2>1, <1>v DEF Basics, Tables
  <2>3. /\ \A v \in Va : pt[k][v] = Unmapped
        /\ Holds(e, UTEMP, frame[e].prog.args)
    BY <1>1, <2>1 DEF Contents, Loaded, LoadedOf
  <2>4. HoldsIn(pt'[k][Stack], mem', frame[e].prog.args)
    <3>1. pt'[k][Stack].page = pt[e][UTEMP].page
      BY <2>2
    <3> QED
      BY <3>1, <1>2, <2>3, <1>v, CellKept DEF Holds
  <2>5. PICK prog : prog = frame[e].prog
    OBVIOUS
  <2>6. Calls(prog) \in Seq(LoadCall)
    BY <1>1, <2>5, CallsOf
  <2>7. Past(frame'[e]) = 0 /\ TodoOf(frame'[e])
    <3>1. Len(Calls(prog)) \in Nat
      BY <2>6
    <3>2. Past(frame'[e]) = 0
      BY <3>1, <1>1, <1>4, <2>5 DEF Past
    <3>3. \A i \in 1 .. Len(Calls(prog)) : 0 + i = i
      BY <3>1
    <3> QED
      BY <3>1, <3>2, <3>3, <1>1, <1>4, <2>5 DEF TodoOf
  <2>8. ASSUME NEW v \in Own \ {Stack}
        PROVE  ~Open(e, v)' /\ PageLoaded(Calls(prog), 0, k, v)'
    <3>1. pt'[k][v] = Unmapped
      BY <2>2, <2>3, <1>v
    <3>2. ~Open(e, v)'
      BY <1>4 DEF Open
    <3>3. \A j \in 1 .. 0 : FALSE
      OBVIOUS
    <3> QED
      BY <3>1, <3>2, <3>3 DEF PageLoaded
  <2>9. LibLoaded(frame'[e], pt'[e], pt'[k])
    BY <1>4, <2>2, <2>3, <1>v DEF LibLoaded
  <2> DEFINE zero == 0
  <2>10. zero = Past(frame'[e]) /\ \A v \in Own \ {Stack} : ~Open(e, v)' /\ PageLoaded(Calls(prog), zero, k, v)'
    BY <2>7, <2>8
  <2> HIDE DEF zero
  <2>11. LoadedOf(e)'
    BY <1>1, <1>4, <2>1, <2>4, <2>5, <2>7, <2>9, <2>10, LoadingStep
  <2> QED
    BY <1>1, <1>2, <1>4, <2>1, <2>2, <2>11, SpawnCalm
<1> QED
  BY <1>3, <1>4, InitStackMapDoes

\* spawn_mapper: a page of zeros is the child's only.
LEMMA ContentsMapper ==
  ASSUME Basics, Contents, NEW e \in Env, spawn_mapper(e)
  PROVE  Contents'
<1>1. /\ view' = view /\ frame[e].pc = "load" /\ frame[e].todo # <<>> /\ frame[e].kid # {} /\ Others(e)
      /\ frame'[e].kid = frame[e].kid /\ frame'[e].prog = frame[e].prog
  BY SpawnMapperDoes
<1>2. Where(e) \in Building
  BY <1>1 DEF Where, Place
<1>v. Own \subseteq Va /\ UTEMP \notin Own /\ Lib \subseteq Va /\ Stack \in Own /\ Own \intersect Lib = {}
  BY VaFacts
<1>3. CASE frame'[e].pc = "err1" /\ UNCHANGED <<mem, pt>>
  <2>1. LoadedOf(e)' /\ MemKept
    BY <1>3, NotLoading, MemSteps
  <2> QED
    BY <1>1, <1>2, <1>3, <2>1, SpawnCalm
<1> DEFINE new == NewPage(Kid(e), Next1(e).page)
<1>4. CASE /\ ~NoMemory /\ Only(Kid(e), Next1(e).page, Map(new, Next1(e).perm))
           /\ mem' = Kept(Filled(mem, new, Zeros), pt')
           /\ \/ /\ Next1(e).bytes = <<>> /\ frame'[e].pc = "load"
                 /\ frame'[e].todo = Tail(frame[e].todo)
              \/ /\ Next1(e).bytes # <<>> /\ frame'[e].pc = "load_map"
                 /\ frame'[e].todo = frame[e].todo
  <2>f. /\ frame[e].kid = {Kid(e)} /\ Kid(e) \in Env /\ Kid(e) # e
        /\ TodoOf(frame[e])
        /\ Holds(Kid(e), Stack, frame[e].prog.args)
        /\ \A v \in Own \ {Stack} :
             ~Open(e, v) => PageLoaded(Calls(frame[e].prog), Past(frame[e]), Kid(e), v)
        /\ LibLoaded(frame[e], pt[e], pt[Kid(e)])
    BY <1>1, LoadingFacts DEF Contents
  <2>1. PICK k \in Env : k = Kid(e) /\ frame[e].kid = {k} /\ k # e
    BY <2>f
  <2>2. PICK c : c = Next1(e)
    OBVIOUS
  <2>3. c.page \in Own \ {Stack} /\ c.page \in Va
    BY <1>1, <2>2, Next1Call
  <2>4. PICK prog : prog = frame[e].prog
    OBVIOUS
  <2>5. Calls(prog) \in Seq(LoadCall) /\ frame[e].todo \in Seq(LoadCall)
    BY <1>1, <2>4, CallsOf
  <2>6. PICK n : n = Past(frame[e])
    OBVIOUS
  <2>7. new \notin Used(pt)
    BY <1>4, <2>1, <2>2, <2>3, FreshPage
  <2>8. MemKept /\ (new \in Used(pt') => mem'[new] = Zeros)
    BY <1>4, <2>7, MemSteps DEF Basics, Fits
  <2>9. Map(new, Next1(e).perm).page = {new}
    BY DEF Map
  <2>10. /\ pt'[k][c.page].page = {new}
         /\ \A v \in Va \ {c.page} : pt'[k][v] = pt[k][v]
         /\ \A d \in Env \ {k} : pt'[d] = pt[d]
    <3> DEFINE m == Map(new, Next1(e).perm)
    <3>1. m.page = {new} /\ Only(k, c.page, m)
      BY <1>4, <2>1, <2>2, <2>9
    <3> HIDE DEF m, new
    <3> QED
      BY <3>1, <2>3 DEF Only, Basics, Tables
  <2>11. HoldsIn(pt'[k][c.page], mem', Zeros)
    <3>1. new \in Used(pt')
      BY <2>3, <2>10 DEF Used
    <3> QED
      BY <3>1, <2>8, <2>10 DEF HoldsIn
  <2> HIDE DEF new
  <2>12. HoldsIn(pt'[k][Stack], mem', prog.args)
    <3>1. pt'[k][Stack] = pt[k][Stack] /\ Stack \in Va
      BY <2>3, <2>10, <1>v
    <3> QED
      BY <3>1, <2>1, <2>4, <2>8, <2>f, CellSame
  <2>13. ASSUME NEW v \in Own \ {Stack}, v # c.page
         PROVE  /\ PageLoaded(Calls(prog), n, k, v) /\ pt'[k][v] = pt[k][v]
                /\ \A p \in pt[k][v].page : mem'[p] = mem[p]
    <3>1. pt'[k][v] = pt[k][v] /\ v \in Va
      BY <2>10, <2>13, <1>v
    <3>2. ~Open(e, v)
      BY <1>1 DEF Open
    <3> QED
      BY <3>1, <3>2, <2>1, <2>4, <2>6, <2>8, <2>f, CellSame
  <2>14. LibLoaded(frame'[e], pt'[e], pt'[k])
    <3>1. \A v \in Lib : pt[k][v] = Unmapped
      BY <1>1, <2>1, <2>f DEF LibLoaded
    <3>2. \A v \in Lib : pt'[k][v] = pt[k][v]
      BY <2>3, <2>10, <1>v
    <3> QED
      BY <1>4, <3>1, <3>2 DEF LibLoaded
  <2>15. LoadedOf(e)'
    <3>1. CASE c.bytes = <<>>
      <4>1. frame'[e].pc = "load" /\ frame'[e].todo = Tail(frame[e].todo)
        BY <1>4, <2>2, <3>1
      <4>2. /\ TodoOf(frame'[e]) /\ n \in Nat /\ Past(frame'[e]) = n + 1
            /\ Calls(prog)[n + 1] = c
        BY <1>1, <2>2, <2>4, <2>5, <2>6, <2>f, <4>1, TodoTail DEF Next1
      <4>3. Content(c) = Zeros
        <5>1. DOMAIN c.bytes = {}
          BY <3>1
        <5> QED
          BY <5>1 DEF Content, Zeros
      <4>4. ASSUME NEW v \in Own \ {Stack}
            PROVE  PageLoaded(Calls(prog), n + 1, k, v)'
        <5>1. CASE v = c.page
          BY <2>11, <4>2, <4>3, <5>1, PageLoadedNow
        <5>2. CASE v # c.page
          BY <2>13, <4>2, <5>2, PageLoadedOther
        <5> QED
          BY <5>1, <5>2
      <4>5. PICK m : m = n + 1
        OBVIOUS
      <4>6. \A v \in Own \ {Stack} : ~Open(e, v)' /\ PageLoaded(Calls(prog), m, k, v)'
        BY <4>1, <4>4, <4>5 DEF Open
      <4> QED
        BY <1>1, <2>1, <2>4, <2>12, <2>14, <4>1, <4>2, <4>5, <4>6, LoadingStep
    <3>2. CASE c.bytes # <<>>
      <4>1. frame'[e].pc = "load_map" /\ frame'[e].todo = frame[e].todo
        BY <1>4, <2>2, <3>2
      <4>2. TodoOf(frame'[e]) /\ n = Past(frame'[e])
        BY <1>1, <2>6, <2>f, <4>1 DEF TodoOf, Past
      <4>3. \A v \in Own \ {Stack} : Open(e, v)' <=> v = c.page
        BY <2>2, <4>1 DEF Open, Next1
      <4>4. ASSUME NEW v \in Own \ {Stack}, v # c.page
            PROVE  PageLoaded(Calls(prog), n, k, v)'
        BY <2>13, <4>4, PageLoadedSame
      <4> QED
        BY <1>1, <2>1, <2>4, <2>11, <2>12, <2>14, <4>1, <4>2, <4>3, <4>4, LoadingStep
    <3> QED
      BY <3>1, <3>2
  <2>16. frame'[e].pc \notin {"cow_map", "free", "other"}
    BY <1>4
  <2> QED
    BY <1>1, <1>2, <2>1, <2>8, <2>10, <2>15, <2>16, SpawnCalm
<1> QED
  BY <1>3, <1>4, SpawnMapperDoes

\* spawn_mapper: the page at UTEMP is the child's.
LEMMA ContentsMapperMap ==
  ASSUME Basics, Contents, NEW e \in Env, mapper_map(e)
  PROVE  Contents'
<1>1. /\ view' = view /\ frame[e].pc = "load_map" /\ frame[e].todo # <<>> /\ frame[e].kid # {} /\ Others(e)
      /\ mem' = Kept(mem, pt') /\ Works1(frame'[e], frame[e])
      /\ frame'[e].kid = frame[e].kid /\ frame'[e].prog = frame[e].prog /\ frame'[e].todo = frame[e].todo
  BY MapperMapDoes DEF Works1
<1>2. Where(e) \in Building /\ MemKept
  BY <1>1, MemSteps DEF Where, Place
<1>v. Own \subseteq Va /\ UTEMP \notin Own /\ UTEMP \in Va /\ Lib \subseteq Va /\ Stack \in Own /\ UTEMP \notin Lib
  BY VaFacts
<1>f. /\ frame[e].kid = {Kid(e)} /\ Kid(e) \in Env /\ Kid(e) # e
      /\ TodoOf(frame[e])
      /\ Holds(Kid(e), Stack, frame[e].prog.args)
      /\ \A v \in Own \ {Stack} :
           /\ Open(e, v) => Holds(Kid(e), v, Zeros)
           /\ ~Open(e, v) => PageLoaded(Calls(frame[e].prog), Past(frame[e]), Kid(e), v)
      /\ LibLoaded(frame[e], pt[e], pt[Kid(e)])
  BY <1>1, LoadingFacts DEF Contents
<1>3. PICK k \in Env : k = Kid(e) /\ frame[e].kid = {k} /\ k # e
  BY <1>f
<1>4. PICK a \in Own \ {Stack} : a = Next1(e).page
  BY <1>1, Next1Call
<1>5. CASE frame'[e].pc = "err1" /\ Only(Kid(e), Next1(e).page, Unmapped)
  <2>1. LoadedOf(e)'
    BY <1>5, NotLoading
  <2>2. Only(k, a, Unmapped)
    BY <1>3, <1>4, <1>5
  <2>3. \A d \in Env \ {k} : pt'[d] = pt[d]
    BY <2>2 DEF Only, Basics, Tables
  <2> QED
    BY <1>1, <1>2, <1>3, <1>5, <2>1, <2>3, SpawnCalm
<1>6. CASE /\ frame'[e].pc = "load_copy"
           /\ Only(e, UTEMP, Map(PageOf(Kid(e), Next1(e).page), {"D"}))
  <2> DEFINE m == Map(PageOf(k, a), {"D"})
  <2>1. m.page = pt[k][a].page /\ pt[k][a].page # {}
    <3>1. Open(e, a)
      BY <1>1, <1>4 DEF Open
    <3>2. pt[k][a].page # {}
      BY <3>1, <1>3, <1>f DEF Holds, HoldsIn
    <3>3. pt[k][a].page = {PageOf(k, a)}
      BY <3>2, <1>v, PageOfCell DEF Basics
    <3> QED
      BY <3>2, <3>3 DEF Map
  <2>2. Only(e, UTEMP, m)
    BY <1>3, <1>4, <1>6
  <2> HIDE DEF m
  <2>3. /\ pt'[e][UTEMP].page = pt[k][a].page
        /\ \A v \in Own : pt'[e][v] = pt[e][v]
        /\ \A d \in Env \ {e} : pt'[d] = pt[d]
    BY <2>1, <2>2, <1>v DEF Only, Basics, Tables
  <2>4. pt'[k] = pt[k]
    BY <2>3, <1>3
  <2>5. PICK prog : prog = frame[e].prog
    OBVIOUS
  <2>6. PICK n : n = Past(frame[e])
    OBVIOUS
  <2>7. TodoOf(frame'[e]) /\ n = Past(frame'[e])
    BY <1>1, <1>6, <1>f, <2>6 DEF TodoOf, Past
  <2>8. \A v \in Own \ {Stack} : (Open(e, v)' <=> v = a) /\ (Open(e, v) <=> v = a)
    BY <1>1, <1>4, <1>6 DEF Open, Next1
  <2>9. HoldsIn(pt'[k][Stack], mem', prog.args)
    BY <1>2, <1>3, <1>v, <1>f, <2>4, <2>5, CellSame
  <2>10. HoldsIn(pt'[k][a], mem', Zeros)
    BY <1>2, <1>3, <1>v, <1>f, <2>4, <2>8, CellSame
  <2>11. ASSUME NEW v \in Own \ {Stack}, v # a
         PROVE  PageLoaded(Calls(prog), n, k, v)'
    <3>1. PageLoaded(Calls(prog), n, k, v)
      BY <2>5, <2>6, <2>8, <2>11, <1>3, <1>f
    <3>2. \A p \in pt[k][v].page : mem'[p] = mem[p]
      BY <1>2, <1>v, <2>4, CellSame
    <3> QED
      BY <3>1, <3>2, <2>4, PageLoadedSame
  <2>12. pt'[e][UTEMP].page = pt'[k][Next1(e)'.page].page
    <3>1. Next1(e)' = Next1(e)
      BY <1>1 DEF Next1
    <3> QED
      BY <3>1, <2>3, <2>4, <1>4
  <2>13. LibLoaded(frame'[e], pt'[e], pt'[k])
    BY <1>1, <1>3, <1>6, <1>f, <2>4 DEF LibLoaded
  <2>14. LoadedOf(e)'
    BY <1>1, <1>3, <1>6, <2>5, <2>7, <2>8, <2>9, <2>10, <2>11, <2>12, <2>13, LoadingStep
  <2> QED
    BY <1>1, <1>2, <1>3, <1>6, <2>3, <2>14, SpawnCalm
<1> QED
  BY <1>5, <1>6, MapperMapDoes

\* The page at UTEMP is seen by the child only: nobody else sees what is copied there.
LEMMA ContentsMapperCopy ==
  ASSUME Basics, Sole, Contents, NEW e \in Env, mapper_copy(e)
  PROVE  Contents'
<1> DEFINE P == PageOf(e, UTEMP)
<1>1. /\ view' = view /\ frame[e].pc = "load_copy" /\ frame[e].todo # <<>> /\ frame[e].kid # {} /\ Others(e)
      /\ frame'[e].pc = "load" /\ frame'[e].todo = Tail(frame[e].todo)
      /\ frame'[e].kid = frame[e].kid /\ frame'[e].prog = frame[e].prog /\ Only(e, UTEMP, Unmapped)
  BY MapperCopyDoes
<1>2. Where(e) \in Building /\ Where(e)' \in Building /\ Where(e) # "dup_parent"
  BY <1>1 DEF Where, Place
<1>v. Own \subseteq Va /\ UTEMP \notin Own /\ UTEMP \in Va /\ Lib \subseteq Va /\ Stack \in Own /\ UTEMP \notin Lib
      /\ Own \intersect Lib = {}
  BY VaFacts
<1>f. /\ frame[e].kid = {Kid(e)} /\ Kid(e) \in Env /\ Kid(e) # e
      /\ TodoOf(frame[e])
      /\ Holds(Kid(e), Stack, frame[e].prog.args)
      /\ \A v \in Own \ {Stack} :
           /\ Open(e, v) => Holds(Kid(e), v, Zeros)
           /\ ~Open(e, v) => PageLoaded(Calls(frame[e].prog), Past(frame[e]), Kid(e), v)
      /\ pt[e][UTEMP].page = pt[Kid(e)][Next1(e).page].page
      /\ LibLoaded(frame[e], pt[e], pt[Kid(e)])
  BY <1>1, LoadingFacts DEF Contents
<1>3. PICK k \in Env : k = Kid(e) /\ frame[e].kid = {k} /\ k # e
  BY <1>f
<1>4. PICK c : c = Next1(e)
  OBVIOUS
<1>5. c.page \in Own \ {Stack}
  BY <1>1, <1>4, Next1Call
<1>6. pt[e][UTEMP].page = {P} /\ pt[k][c.page].page = {P} /\ "D" \in pt[e][UTEMP].perm /\ P \in DOMAIN mem
  <2>1. pt[e][UTEMP].page # {} /\ "D" \in pt[e][UTEMP].perm
    BY <1>1 DEF Basics, Temps, TempsOf
  <2> QED
    BY <2>1, <1>v, <1>f, <1>3, <1>4, PageOfCell, InUse DEF Basics, Fits
<1>7. mem[P] = Zeros
  <2>1. Open(e, c.page)
    BY <1>1, <1>4 DEF Open
  <2> QED
    BY <2>1, <1>3, <1>5, <1>6, <1>f DEF Holds, HoldsIn
<1> DEFINE new == [i \in 1 .. PAGE_SIZE |->
                     IF i - c.offset \in DOMAIN c.bytes THEN c.bytes[i - c.offset] ELSE mem[P][i]]
<1>8. mem' = [mem EXCEPT ![P] = new]
  BY <1>4, MapperCopyDoes
<1>9. new = Content(c)
  <2>1. \A i \in 1 .. PAGE_SIZE : mem[P][i] = 0
    BY <1>7 DEF Zeros
  <2> HIDE DEF P
  <2> QED
    BY <2>1 DEF Content
<1> HIDE DEF new
<1>10. mem'[P] = Content(c) /\ \A p \in Used(pt) : p # P => mem'[p] = mem[p]
  BY <1>6, <1>8, <1>9 DEF Basics, Fits
<1>k. \A d \in Env : e \notin frame[d].kid
  BY <1>1, Starts DEF Basics, Kids
<1> HIDE DEF P
<1>11. ASSUME NEW d \in Env, NEW w \in Va, P \in pt[d][w].page
       PROVE  (d = e /\ w = UTEMP) \/ (d = k /\ w = c.page)
  BY <1>2, <1>3, <1>4, <1>6, <1>11, <1>k, <1>v, WrittenPage
<1>12. ASSUME NEW d \in Env, NEW w \in Va, ~(d = e /\ w = UTEMP), ~(d = k /\ w = c.page)
       PROVE  \A p \in pt[d][w].page : mem'[p] = mem[p]
  <2>1. P \notin pt[d][w].page
    BY <1>11, <1>12
  <2>2. pt[d][w].page \subseteq Used(pt)
    BY DEF Used
  <2> QED
    BY <2>1, <2>2, <1>10
<1>13. /\ \A v \in Own : pt'[e][v] = pt[e][v]
       /\ \A d \in Env \ {e} : pt'[d] = pt[d]
  BY <1>1, <1>v DEF Only, Basics, Tables
<1>14. pt'[k] = pt[k]
  BY <1>13, <1>3
<1>15. ViewsOf(e)'
  <2>1. ViewsOf(e)
    BY DEF Contents, Views
  <2>2. ASSUME NEW v \in Own, view'[e][v] # <<>>
        PROVE  HoldsIn(pt'[e][v], mem', view'[e][v])
    <3>1. Holds(e, v, view[e][v])
      BY <2>1, <2>2, <1>1 DEF ViewsOf
    <3>2. \A p \in pt[e][v].page : mem'[p] = mem[p]
      <4>1. v \in Va /\ v # UTEMP
        BY <1>v
      <4> QED
        BY <4>1, <1>12, <1>3
    <3> QED
      BY <3>1, <3>2, <1>1, <1>13, HoldsSame DEF Holds
  <2>3. \A j \in frame'[e].kid, v \in Own : view'[j][v] = <<>>
    BY <2>1, <1>1, <1>2 DEF ViewsOf
  <2> QED
    BY <2>2, <2>3, <1>1 DEF ViewsOf, Holds
<1>16. PICK prog : prog = frame[e].prog
  OBVIOUS
<1>17. PICK n : n = Past(frame[e])
  OBVIOUS
<1>18. Calls(prog) \in Seq(LoadCall) /\ frame[e].todo \in Seq(LoadCall)
  BY <1>1, <1>16, CallsOf
<1>19. TodoOf(frame'[e]) /\ n \in Nat /\ Past(frame'[e]) = n + 1 /\ Calls(prog)[n + 1] = c
  BY <1>1, <1>4, <1>16, <1>17, <1>18, <1>f, TodoTail DEF Next1
<1>20. HoldsIn(pt'[k][Stack], mem', prog.args)
  <2>1. Stack \in Va /\ Stack # c.page
    BY <1>5, <1>v
  <2>2. \A p \in pt[k][Stack].page : mem'[p] = mem[p]
    BY <2>1, <1>12, <1>3
  <2> QED
    BY <2>2, <1>3, <1>14, <1>16, <1>f, HoldsSame DEF Holds
<1>21. ASSUME NEW v \in Own \ {Stack}
       PROVE  PageLoaded(Calls(prog), n + 1, k, v)'
  <2>1. CASE v = c.page
    <3>1. HoldsIn(pt'[k][v], mem', Content(c))
      BY <2>1, <1>6, <1>10, <1>14 DEF HoldsIn
    <3> QED
      BY <3>1, <2>1, <1>19, PageLoadedNow
  <2>2. CASE v # c.page
    <3>1. ~Open(e, v)
      BY <2>2, <1>4 DEF Open
    <3>2. PageLoaded(Calls(prog), n, k, v)
      BY <3>1, <1>3, <1>16, <1>17, <1>f
    <3>3. \A p \in pt[k][v].page : mem'[p] = mem[p]
      BY <2>2, <1>12, <1>3, <1>v
    <3> QED
      BY <3>2, <3>3, <2>2, <1>14, <1>19, PageLoadedOther
  <2> QED
    BY <2>1, <2>2
<1>22. PICK m : m = n + 1
  OBVIOUS
<1>23. \A v \in Own \ {Stack} : ~Open(e, v)' /\ PageLoaded(Calls(prog), m, k, v)'
  BY <1>1, <1>21, <1>22 DEF Open
<1>24. LibLoaded(frame'[e], pt'[e], pt'[k])
  BY <1>1, <1>3, <1>14, <1>f DEF LibLoaded
<1>25. LoadedOf(e)'
  BY <1>1, <1>3, <1>16, <1>19, <1>20, <1>22, <1>23, <1>24, LoadingStep
<1> DEFINE K == {}
<1>26. Steady(e, K)
  <2>1. ASSUME NEW d \in Env, d # e, d # k, NEW w \in Va
        PROVE  \A p \in pt[d][w].page : mem'[p] = mem[p]
    BY <2>1, <1>12
  <2> QED
    BY <2>1, <1>1, <1>3, <1>13 DEF Steady
<1>27. Acts(e, K) /\ \A j \in K : ViewsOf(j)' /\ LoadedOf(j)'
  BY <1>1, <1>26 DEF Acts, Others, OthersBut
<1> HIDE DEF K
<1>28. \A d \in Env : ViewsOf(d)'
  BY <1>15, <1>27, ViewsStep DEF Contents
<1>29. Loaded'
  BY <1>25, <1>27, LoadedStep DEF Contents
<1> QED
  BY <1>1, <1>28, <1>29 DEF Contents, Views

\* A shared place without the bit is empty.
LEMMA NotShared ==
  ASSUME Basics, NEW e \in Env, NEW v \in Lib \ {Fd}, "LIB" \notin pt[e][v].perm
  PROVE  pt[e][v] = Unmapped
<1>1. pt[e][v] \in {Unmapped, Shared(v)}
  BY DEF Basics, Perms
<1>2. "LIB" \in Shared(v).perm
  BY DEF Shared, Map
<1> QED
  BY <1>1, <1>2

\* close: the shared pages are next.
LEMMA ContentsClose ==
  ASSUME Basics, Contents, NEW e \in Env, spawn_close(e)
  PROVE  Contents'
<1>1. /\ view' = view /\ frame[e].pc = "load" /\ frame[e].todo = <<>> /\ frame[e].kid # {} /\ Others(e)
      /\ mem' = Kept(mem, pt') /\ Only(e, Fd, Unmapped) /\ Sharing(e, -1)
      /\ frame'[e].kid = frame[e].kid /\ frame'[e].prog = frame[e].prog /\ frame'[e].todo = frame[e].todo
      /\ frame'[e].pc \in {"share", "start"}
  BY SpawnCloseDoes DEF Sharing
<1>2. Where(e) \in Building /\ MemKept
  BY <1>1, MemSteps DEF Where, Place
<1>v. Own \subseteq Va /\ Lib \subseteq Va /\ Stack \in Own /\ Fd \in Lib /\ Own \intersect Lib = {}
  BY VaFacts
<1>f. /\ frame[e].kid = {Kid(e)} /\ Kid(e) \in Env /\ Kid(e) # e
      /\ TodoOf(frame[e])
      /\ Holds(Kid(e), Stack, frame[e].prog.args)
      /\ \A v \in Own \ {Stack} : ~Open(e, v) => PageLoaded(Calls(frame[e].prog), Past(frame[e]), Kid(e), v)
      /\ LibLoaded(frame[e], pt[e], pt[Kid(e)])
  BY <1>1, LoadingFacts DEF Contents
<1>3. PICK k \in Env : k = Kid(e) /\ frame[e].kid = {k} /\ k # e
  BY <1>f
<1>4. /\ pt'[e][Fd] = Unmapped
      /\ \A v \in Va \ {Fd} : pt'[e][v] = pt[e][v]
      /\ \A d \in Env \ {e} : pt'[d] = pt[d]
  BY <1>1, <1>v DEF Only, Basics, Tables
<1>5. pt'[k] = pt[k]
  BY <1>3, <1>4
<1>6. PICK prog : prog = frame[e].prog
  OBVIOUS
<1>7. PICK n : n = Past(frame[e])
  OBVIOUS
<1>8. TodoOf(frame'[e]) /\ n = Past(frame'[e])
  BY <1>1, <1>7, <1>f DEF TodoOf, Past
<1>9. HoldsIn(pt'[k][Stack], mem', prog.args)
  BY <1>2, <1>3, <1>5, <1>6, <1>v, <1>f, CellSame
<1>10. ASSUME NEW v \in Own \ {Stack}
       PROVE  ~Open(e, v)' /\ PageLoaded(Calls(prog), n, k, v)'
  <2>1. ~Open(e, v) /\ ~Open(e, v)'
    BY <1>1 DEF Open
  <2>2. PageLoaded(Calls(prog), n, k, v)
    BY <2>1, <1>3, <1>6, <1>7, <1>f
  <2>3. \A p \in pt[k][v].page : mem'[p] = mem[p]
    BY <1>2, <1>v, <1>5, CellSame
  <2> QED
    BY <2>1, <2>2, <2>3, <1>5, PageLoadedSame
<1>11. LibLoaded(frame'[e], pt'[e], pt'[k])
  <2>1. \A v \in Lib : pt'[k][v] = Unmapped
    BY <1>1, <1>3, <1>5, <1>f DEF LibLoaded
  <2>2. ASSUME NEW v \in Lib, "LIB" \notin pt'[e][v].perm
        PROVE  pt'[e][v] = Unmapped
    BY <2>2, <1>4, <1>v, NotShared
  <2>3. \A v \in Lib : v > -1
    BY VaAssumption
  <2> QED
    BY <1>1, <2>1, <2>2, <2>3 DEF LibLoaded, Sharing
<1>12. LoadedOf(e)'
  BY <1>1, <1>3, <1>6, <1>8, <1>9, <1>10, <1>11, LoadingStep
<1>13. \A v \in Own : pt'[e][v] = pt[e][v]
  BY <1>4, <1>v
<1> QED
  BY <1>1, <1>2, <1>4, <1>12, <1>13, SpawnCalm

\* The child has the shared pages up to the one at work.
LEMMA ContentsShare ==
  ASSUME Basics, Contents, NEW e \in Env, share(e)
  PROVE  Contents'
<1>1. /\ view' = view /\ mem' = mem /\ frame[e].pc = "share" /\ frame[e].kid # {} /\ Others(e)
      /\ frame[e].va \in Lib \ {Fd}
  BY ShareDoes
<1>2. Where(e) \in Building /\ MemKept
  BY <1>1, MemSteps DEF Where, Place
<1>v. Own \subseteq Va /\ Lib \subseteq Va /\ Stack \in Own /\ Own \intersect Lib = {} /\ Fd \in Lib /\ Lib \subseteq Int
  BY VaFacts
<1>f. /\ frame[e].kid = {Kid(e)} /\ Kid(e) \in Env /\ Kid(e) # e
      /\ TodoOf(frame[e])
      /\ Holds(Kid(e), Stack, frame[e].prog.args)
      /\ \A v \in Own \ {Stack} : ~Open(e, v) => PageLoaded(Calls(frame[e].prog), Past(frame[e]), Kid(e), v)
      /\ LibLoaded(frame[e], pt[e], pt[Kid(e)])
  BY <1>1, LoadingFacts DEF Contents
<1>3. CASE frame'[e].pc = "err2" /\ UNCHANGED pt /\ Works1(frame'[e], frame[e])
  <2>1. LoadedOf(e)'
    BY <1>3, NotLoading
  <2>2. frame'[e].kid = frame[e].kid
    BY <1>3 DEF Works1
  <2> QED
    BY <1>1, <1>2, <1>3, <2>1, <2>2, SpawnCalm
<1>4. CASE Only(Kid(e), frame[e].va, pt[e][frame[e].va]) /\ Sharing(e, frame[e].va)
  <2>1. PICK k \in Env : k = Kid(e) /\ frame[e].kid = {k} /\ k # e
    BY <1>f
  <2>2. PICK a \in Lib \ {Fd} : a = frame[e].va
    BY <1>1
  <2>3. Only(k, a, pt[e][a]) /\ Sharing(e, a)
    BY <1>4, <2>1, <2>2
  <2>4. /\ pt'[k][a] = pt[e][a]
        /\ \A v \in Va \ {a} : pt'[k][v] = pt[k][v]
        /\ \A d \in Env \ {k} : pt'[d] = pt[d]
    BY <2>3, <1>v DEF Only, Basics, Tables
  <2>5. /\ frame'[e].kid = frame[e].kid /\ frame'[e].prog = frame[e].prog /\ frame'[e].todo = frame[e].todo
        /\ frame'[e].pc \in {"share", "start"}
    BY <2>3 DEF Sharing
  <2>6. PICK prog : prog = frame[e].prog
    OBVIOUS
  <2>7. PICK n : n = Past(frame[e])
    OBVIOUS
  <2>8. TodoOf(frame'[e]) /\ n = Past(frame'[e])
    BY <1>1, <1>f, <2>5, <2>7 DEF TodoOf, Past
  <2>9. \A v \in Own : v \in Va /\ pt'[k][v] = pt[k][v]
    BY <2>4, <1>v
  <2>10. HoldsIn(pt'[k][Stack], mem', prog.args)
    BY <1>2, <2>1, <2>6, <2>9, <1>v, <1>f, CellSame
  <2>11. ASSUME NEW v \in Own \ {Stack}
         PROVE  ~Open(e, v)' /\ PageLoaded(Calls(prog), n, k, v)'
    <3>1. ~Open(e, v) /\ ~Open(e, v)'
      BY <1>1, <2>5 DEF Open
    <3>2. PageLoaded(Calls(prog), n, k, v)
      BY <3>1, <2>1, <2>6, <2>7, <1>f
    <3>3. \A p \in pt[k][v].page : mem'[p] = mem[p]
      BY <1>1
    <3> QED
      BY <3>1, <3>2, <3>3, <2>9, PageLoadedSame
  <2>12. LibLoaded(frame'[e], pt'[e], pt'[k])
    <3>1. \A v \in Lib : pt[k][v] = IF v < a THEN pt[e][v] ELSE Unmapped
      BY <1>1, <2>1, <2>2, <1>f DEF LibLoaded
    <3>2. pt'[e] = pt[e] /\ pt[e][Fd] = Unmapped
      BY <2>1, <2>4, <1>1 DEF Basics, Temps, TempsOf
    <3>3. ASSUME NEW v \in Lib, "LIB" \notin pt'[e][v].perm
          PROVE  pt'[e][v] = Unmapped
      BY <3>2, <3>3, NotShared
    <3>4. \A v \in Lib : v \in Int /\ (v <= a => pt'[k][v] = pt'[e][v]) /\ (v > a => pt'[k][v] = Unmapped)
      <4> SUFFICES ASSUME NEW v \in Lib
                   PROVE  v \in Int /\ (v <= a => pt'[k][v] = pt'[e][v]) /\ (v > a => pt'[k][v] = Unmapped)
        OBVIOUS
      <4>1. v \in Int /\ a \in Int
        BY <1>v
      <4>2. CASE v = a
        BY <4>1, <4>2, <2>4, <3>2
      <4>3. CASE v # a
        <5>1. pt'[k][v] = pt[k][v]
          BY <4>3, <2>4, <1>v
        <5> QED
          BY <4>1, <4>3, <5>1, <3>1, <3>2
      <4> QED
        BY <4>2, <4>3
    <3>5. CASE frame'[e].pc = "start"
      <4>1. \A w \in Lib : w > a => "LIB" \notin pt'[e][w].perm
        BY <2>3, <3>5 DEF Sharing
      <4>2. ASSUME NEW v \in Lib
            PROVE  pt'[k][v] = pt'[e][v]
        <5>1. v \in Int /\ a \in Int
          BY <1>v
        <5>2. CASE v <= a
          BY <5>2, <3>4
        <5>3. CASE v > a
          BY <5>3, <4>1, <3>3, <3>4
        <5> QED
          BY <5>1, <5>2, <5>3
      <4> QED
        BY <3>5, <4>2 DEF LibLoaded
    <3>6. CASE frame'[e].pc = "share"
      <4>1. PICK b \in Lib : /\ b = frame'[e].va /\ b > a
                             /\ \A w \in Lib : w > a /\ w < b => "LIB" \notin pt'[e][w].perm
        BY <2>3, <3>6 DEF Sharing
      <4>2. ASSUME NEW v \in Lib
            PROVE  pt'[k][v] = IF v < b THEN pt'[e][v] ELSE Unmapped
        <5>1. v \in Int /\ a \in Int /\ b \in Int
          BY <1>v
        <5>2. CASE v <= a
          BY <5>1, <5>2, <4>1, <3>4
        <5>3. CASE v > a /\ v < b
          BY <5>1, <5>3, <4>1, <3>3, <3>4
        <5>4. CASE v >= b
          BY <5>1, <5>4, <4>1, <3>4
        <5> QED
          BY <5>1, <5>2, <5>3, <5>4
      <4> QED
        BY <3>6, <4>1, <4>2 DEF LibLoaded
    <3> QED
      BY <2>5, <3>5, <3>6
  <2>13. LoadedOf(e)'
    BY <1>1, <2>1, <2>5, <2>6, <2>8, <2>10, <2>11, <2>12, LoadingStep
  <2> QED
    BY <1>1, <1>2, <2>1, <2>4, <2>5, <2>13, SpawnCalm
<1> QED
  BY <1>3, <1>4, ShareDoes

\* The child starts with the image of its program.
LEMMA ContentsStart ==
  ASSUME Basics, Contents, NEW e \in Env, start(e)
  PROVE  Contents'
<1>1. /\ mem' = mem /\ pt' = pt /\ frame[e].pc = "start"
      /\ frame[e].kid # {} /\ frame'[e] = Running /\ frame'[Kid(e)] = Running
      /\ OthersBut(e, {Kid(e)})
      /\ view' = [view EXCEPT ![Kid(e)] = [v \in Own |-> Image(frame[e].prog, v)]]
  BY StartDoes
<1>2. PICK k \in Env : k = Kid(e) /\ frame[e].kid = {k} /\ k # e
  BY <1>1, TheKid
<1>3. PICK prog : prog = frame[e].prog
  OBVIOUS
<1>4. view = [d \in Env |-> [w \in Own |-> view[d][w]]] /\ ViewsOf(e)
  BY DEF Contents, Views
<1>5. /\ \A v \in Own : view'[k][v] = Image(prog, v)
      /\ \A d \in Env \ {k} : view'[d] = view[d]
  BY <1>1, <1>2, <1>3, <1>4
<1>6. view' = [d \in Env |-> [w \in Own |-> view'[d][w]]]
  <2>1. view' = [d \in Env |-> [w \in Own |-> IF d = k THEN Image(prog, w) ELSE view[d][w]]]
    <3> DEFINE img == [v \in Own |-> Image(prog, v)]
    <3>1. view' = [view EXCEPT ![k] = img] /\ img = [v \in Own |-> Image(prog, v)]
      BY <1>1, <1>2, <1>3
    <3> HIDE DEF img
    <3>2. view' = [d \in Env |-> IF d = k THEN img ELSE view[d]]
      BY <3>1, <1>4
    <3>3. \A d \in Env : view[d] = [w \in Own |-> view[d][w]]
      BY <1>4
    <3>4. \A d \in Env : (IF d = k THEN img ELSE view[d])
                       = [w \in Own |-> IF d = k THEN Image(prog, w) ELSE view[d][w]]
      BY <3>1, <3>3
    <3> QED
      BY <3>2, <3>4
  <2> QED
    BY <2>1
<1>7. ViewsOf(e)'
  <2>1. \A v \in Own : view'[e][v] # <<>> => HoldsIn(pt'[e][v], mem', view'[e][v])
    BY <1>1, <1>2, <1>4, <1>5 DEF ViewsOf, Holds
  <2> QED
    BY <2>1, <1>1, Starts DEF ViewsOf, Holds
<1>8. ViewsOf(k)'
  <2>1. ASSUME NEW v \in Own, view'[k][v] # <<>>
        PROVE  HoldsIn(pt'[k][v], mem', view'[k][v])
    <3>1. Image(prog, v) # <<>> /\ view'[k][v] = Image(prog, v)
      BY <2>1, <1>5
    <3>2. Holds(k, v, Image(prog, v))
      BY <3>1, <1>1, <1>2, <1>3, ChildIsImage DEF Contents
    <3> QED
      BY <3>1, <3>2, <1>1 DEF Holds
  <2> QED
    BY <2>1, <1>1, <1>2, Starts DEF ViewsOf, Holds
<1> DEFINE K == {k}
<1>9. Acts(e, K)
  BY <1>1, <1>2, <1>5 DEF Acts, OthersBut, Steady
<1>10. \A d \in K : ViewsOf(d)' /\ LoadedOf(d)'
  BY <1>1, <1>2, <1>8, Starts, NotLoading
<1>11. LoadedOf(e)'
  BY <1>1, Starts, NotLoading
<1> HIDE DEF K
<1>12. \A d \in Env : ViewsOf(d)'
  BY <1>7, <1>9, <1>10, ViewsStep DEF Contents
<1>13. Loaded'
  BY <1>9, <1>10, <1>11, LoadedStep DEF Contents
<1> QED
  BY <1>6, <1>12, <1>13 DEF Contents, Views

\* A child that is given up leaves nothing.
LEMMA ContentsDestroy ==
  ASSUME Basics, Contents, NEW e \in Env, destroy(e)
  PROVE  Contents'
<1>1. /\ view' = view /\ frame[e].pc \in {"err1", "err2"}
      /\ frame'[e].kid = {} /\ frame'[e].pc = IF frame[e].pc = "err1" THEN "err" ELSE "run"
      /\ (\A k \in frame[e].kid : frame'[k] = Free) /\ OthersBut(e, frame[e].kid)
      /\ e \notin frame[e].kid /\ frame[e].kid \subseteq Env
      /\ pt' = [d \in Env |-> [w \in Va |-> IF d \in frame[e].kid THEN Unmapped ELSE pt[d][w]]]
      /\ mem' = Kept(mem, pt')
  BY DestroyDoes
<1>2. MemKept /\ Where(e) \in Building
  BY <1>1, MemSteps DEF Where, Place
<1>3. \A d \in Env : d \notin frame[e].kid => pt'[d] = pt[d]
  BY <1>1 DEF Basics, Tables
<1>4. view = [d \in Env |-> [w \in Own |-> view[d][w]]] /\ ViewsOf(e)
  BY DEF Contents, Views
<1>5. ViewsOf(e)'
  <2>1. ASSUME NEW v \in Own, view'[e][v] # <<>>
        PROVE  HoldsIn(pt'[e][v], mem', view'[e][v])
    <3>1. Holds(e, v, view[e][v])
      BY <2>1, <1>1, <1>4 DEF ViewsOf
    <3>2. pt'[e][v] = pt[e][v] /\ v \in Va
      BY <1>1, <1>3, VaFacts
    <3> QED
      BY <3>1, <3>2, <1>1, <1>2, CellSame
  <2> QED
    BY <2>1, <1>1 DEF ViewsOf, Holds
<1> DEFINE K == frame[e].kid
<1>6. ASSUME NEW k \in frame[e].kid
      PROVE  ViewsOf(k)' /\ LoadedOf(k)'
  <2>1. \A v \in Own : view'[k][v] = <<>>
    BY <1>1, <1>2, <1>4 DEF ViewsOf
  <2>2. frame'[k] = Free /\ k \in Env
    BY <1>1
  <2>3. ViewsOf(k)'
    BY <2>1, <2>2, Starts DEF ViewsOf
  <2> QED
    BY <2>2, <2>3, Starts, NotLoading
<1>7. Steady(e, K)
  BY <1>1, <1>2, <1>3, SteadyStep
<1>8. Acts(e, K)
  BY <1>1, <1>7 DEF Acts
<1>9. LoadedOf(e)'
  BY <1>1, NotLoading
<1>10. \A k \in K : ViewsOf(k)' /\ LoadedOf(k)'
  BY <1>6
<1> HIDE DEF K
<1>11. \A d \in Env : ViewsOf(d)'
  BY <1>5, <1>8, <1>10, ViewsStep DEF Contents
<1>12. Loaded'
  BY <1>8, <1>9, <1>10, LoadedStep DEF Contents
<1> QED
  BY <1>1, <1>4, <1>11, <1>12 DEF Contents, Views

\* The child of spawn starts with no pages.
LEMMA ContentsSpawnExofork ==
  ASSUME Basics, Contents, NEW e \in Env, spawn_exofork(e)
  PROVE  Contents'
<1>1. /\ mem' = mem /\ pt' = pt /\ view' = view /\ frame[e].pc = "header"
      /\ frame[e].kid = {} /\ frame'[e].pc \in {"err", "stack"}
  BY SpawnExoforkDoes
<1>2. MemKept
  BY <1>1, MemSteps
<1>3. CASE Others(e) /\ frame'[e].kid = {}
  <2>1. LoadedOf(e)'
    BY <1>1, <1>3 DEF LoadedOf
  <2> QED
    BY <1>1, <1>2, <1>3, <2>1, SpawnCalm
<1>4. ASSUME NEW k \in Env \ {e}, frame[k] = Free, frame'[k] = Embryo, OthersBut(e, {k}), frame'[e].kid = {k}
      PROVE  Contents'
  <2>1. view = [d \in Env |-> [w \in Own |-> view[d][w]]] /\ ViewsOf(e) /\ ViewsOf(k)
    BY DEF Contents, Views
  <2>2. \A v \in Own : view'[k][v] = <<>>
    BY <1>1, <1>4, <2>1, Starts DEF ViewsOf
  <2>3. ViewsOf(e)'
    <3>1. \A v \in Own : view'[e][v] # <<>> => HoldsIn(pt'[e][v], mem', view'[e][v])
      BY <1>1, <2>1 DEF ViewsOf, Holds
    <3> QED
      BY <3>1, <2>2, <1>1, <1>4 DEF ViewsOf, Holds
  <2>4. LoadedOf(e)'
    <3>1. pt[k] = NoPages
      BY <1>4, Starts DEF Basics, Temps, TempsOf
    <3>2. \A v \in Va : pt'[k][v] = Unmapped
      BY <3>1, <1>1 DEF NoPages
    <3> QED
      BY <3>2, <1>1, <1>4 DEF LoadedOf
  <2> DEFINE K == {k}
  <2>5. Acts(e, K)
    BY <1>1, <1>4 DEF Acts, Steady
  <2>6. \A d \in K : ViewsOf(d)' /\ LoadedOf(d)'
    BY <1>4, ViewsIdle, Starts, NotLoading
  <2> HIDE DEF K
  <2>7. \A d \in Env : ViewsOf(d)'
    BY <2>3, <2>5, <2>6, ViewsStep DEF Contents
  <2>8. Loaded'
    BY <2>4, <2>5, <2>6, LoadedStep DEF Contents
  <2> QED
    BY <1>1, <2>1, <2>7, <2>8 DEF Contents, Views
<1> QED
  BY <1>3, <1>4, SpawnExoforkDoes

\* spawn keeps the views and what is loaded.
LEMMA ContentsSpawn ==
  ASSUME Basics, Sole, Contents, NEW e \in Env, SpawnStep(e)
  PROVE  Contents'
<1>v. Own \subseteq Va /\ UTEMP \notin Own /\ UTEMP \in Va /\ Fd \in Va /\ Fd \notin Own
  BY VaFacts
<1>o. ASSUME NEW v \in Va, v \notin Own, NEW m, Only(e, v, m)
      PROVE  /\ \A w \in Own : pt'[e][w] = pt[e][w]
             /\ \A d \in Env : d # e => pt'[d] = pt[d]
             /\ pt'[e][v] = m
  BY <1>o, <1>v DEF Only, Basics, Tables
<1>1. ASSUME NEW p \in Programs, spawn(e, p)
      PROVE  Contents'
  <2>1. /\ view' = view /\ frame[e].pc = "run" /\ ~NoMemory
        /\ Others(e) /\ frame'[e].pc = "header" /\ frame'[e].kid = frame[e].kid
        /\ Only(e, Fd, Map(NewPage(e, Fd), {"D", "LIB"}))
        /\ mem' = Filled(mem, NewPage(e, Fd), Zeros)
    BY <1>1, SpawnDoes
  <2>2. MemKept
    BY <2>1, <1>v, FreshPage, MemSteps DEF Basics, Fits
  <2>3. frame[e].kid = {}
    BY <2>1 DEF Basics, Kids, Where, Place
  <2>4. /\ \A w \in Own : pt'[e][w] = pt[e][w]
        /\ \A d \in Env : d # e => pt'[d] = pt[d]
    BY <2>1, <1>o, <1>v
  <2>5. LoadedOf(e)'
    BY <2>1, NotLoading
  <2> QED
    BY <2>1, <2>2, <2>3, <2>4, <2>5, SpawnCalm
<1>2. CASE init_stack(e)
  <2>1. /\ view' = view /\ frame[e].pc = "stack" /\ Others(e)
        /\ frame'[e].kid = frame[e].kid /\ frame'[e].prog = frame[e].prog
    BY <1>2, InitStackDoes DEF Works1
  <2>w. Where(e) \in Building
    BY <2>1 DEF Where, Place
  <2>2. CASE UNCHANGED <<mem, pt>> /\ frame'[e].pc = "err1"
    <3>1. LoadedOf(e)' /\ MemKept
      BY <2>2, NotLoading, MemSteps
    <3> QED
      BY <2>1, <2>2, <2>w, <3>1, SpawnCalm
  <2>3. CASE /\ ~NoMemory /\ frame'[e].pc = "stack_map"
             /\ Only(e, UTEMP, Map(NewPage(e, UTEMP), {"D"}))
             /\ mem' = Filled(mem, NewPage(e, UTEMP), frame[e].prog.args)
    <3> DEFINE new == NewPage(e, UTEMP)
    <3>1. MemKept /\ mem'[new] = frame[e].prog.args
      BY <2>3, <1>v, FreshPage, MemSteps DEF Basics, Fits
    <3>2. /\ \A w \in Own : pt'[e][w] = pt[e][w]
          /\ \A d \in Env : d # e => pt'[d] = pt[d]
          /\ pt'[e][UTEMP] = Map(new, {"D"})
      BY <2>3, <1>o, <1>v
    <3>3. Map(new, {"D"}).page = {new}
      BY DEF Map
    <3> HIDE DEF new
    <3>4. HoldsIn(pt'[e][UTEMP], mem', frame'[e].prog.args)
      BY <3>1, <3>2, <3>3, <2>1 DEF HoldsIn
    <3>5. \A k \in frame'[e].kid, v \in Va : pt'[k][v] = Unmapped
      <4>1. \A k \in frame[e].kid, v \in Va : pt[k][v] = Unmapped
        BY <2>1 DEF Contents, Loaded, LoadedOf
      <4>2. \A k \in frame[e].kid : k \in Env /\ k # e
        <5>1. frame[e].kid \subseteq Env
          BY DEF Basics, Frames, Frame
        <5>2. \A k \in frame[e].kid : frame[k] = Embryo
          BY <5>1 DEF Basics, Kids
        <5> QED
          BY <5>1, <5>2, <2>1, Starts
      <4> QED
        BY <4>1, <4>2, <3>2, <2>1
    <3>6. LoadedOf(e)'
      BY <3>4, <3>5, <2>3 DEF LoadedOf, Holds
    <3> QED
      BY <2>1, <2>3, <2>w, <3>1, <3>2, <3>6, SpawnCalm
  <2> QED
    BY <1>2, <2>2, <2>3, InitStackDoes
<1>3. CASE err(e)
  <2>1. /\ view' = view /\ frame[e].pc = "err" /\ frame[e].kid = {}
        /\ Others(e) /\ frame'[e] = Running /\ Only(e, Fd, Unmapped) /\ mem' = Kept(mem, pt')
    BY <1>3, ErrDoes
  <2>2. MemKept /\ frame'[e].pc = "run" /\ frame'[e].kid = frame[e].kid
    BY <2>1, MemSteps, Starts
  <2>4. /\ \A w \in Own : pt'[e][w] = pt[e][w]
        /\ \A d \in Env : d # e => pt'[d] = pt[d]
    BY <2>1, <1>o, <1>v
  <2>5. LoadedOf(e)'
    BY <2>2, NotLoading
  <2> QED
    BY <2>1, <2>2, <2>4, <2>5, SpawnCalm
<1> QED
  BY <1>1, <1>2, <1>3, ContentsSpawnExofork, ContentsStackMap, ContentsMapper, ContentsMapperMap,
     ContentsMapperCopy, ContentsClose, ContentsShare, ContentsStart, ContentsDestroy DEF SpawnStep

\* Every step does.
LEMMA ContentsNext ==
  ASSUME Basics, Sole, Contents, [Next]_vars
  PROVE  Contents'
<1>1. CASE UNCHANGED vars
  <2>1. mem' = mem /\ pt' = pt /\ frame' = frame /\ view' = view
    BY <1>1 DEF vars
  <2>2. Views'
    <3>1. ASSUME NEW e \in Env
          PROVE  ViewsOf(e)'
      <4>1. ViewsOf(e)
        BY DEF Contents, Views
      <4> QED
        BY <2>1, <4>1 DEF ViewsOf, Holds, Where
    <3>2. view' = [e \in Env |-> [v \in Own |-> view'[e][v]]]
      BY <2>1 DEF Contents, Views
    <3> QED
      BY <3>1, <3>2 DEF Views
  <2>3. ASSUME NEW e \in Env
        PROVE  LoadedOf(e)'
    <3>1. LoadedOf(e)
      BY DEF Contents, Loaded
    <3> QED
      BY <2>1, <3>1 DEF LoadedOf, Holds, Open, Next1, PageLoaded
  <2> QED
    BY <2>2, <2>3 DEF Contents, Loaded
<1>2. CASE Next
  BY <1>2, ContentsFork, ContentsSpawn DEF Next
<1> QED
  BY <1>1, <1>2

\* The first process sees zeros.
LEMMA ContentsInit == Init => Contents
<1> SUFFICES ASSUME Init
             PROVE  Contents
  OBVIOUS
<1>1. Basics
  BY BasicsInit
<1>2. \A e \in Env : frame[e] \in {Running, Other, Free} /\ (frame[e] # Running => e # First)
  <2>1. PICK taken \in SUBSET (Env \ {First}) :
          frame = [e \in Env |-> IF e = First THEN Running ELSE IF e \in taken THEN Other ELSE Free]
    BY DEF Init
  <2> QED
    BY <2>1
<1>3. \A e \in Env : frame[e].kid = {} /\ frame[e].pc \in {"run", "other", "free"}
                     /\ (frame[e].pc # "run" => e # First)
  BY <1>2, Starts
<1>4. view = [e \in Env |-> [v \in Own |-> IF e = First /\ v \in Begin THEN Zeros ELSE <<>>]]
  BY DEF Init
<1>5. \A e \in Env, v \in Own : view[e][v] = IF e = First /\ v \in Begin THEN Zeros ELSE <<>>
  BY <1>4
<1>6. ASSUME NEW v \in Own \intersect Begin
      PROVE  Holds(First, v, Zeros)
  <2> DEFINE P == {<<First, w, 1>> : w \in Begin}
             m == Map(<<First, v, 1>>, IF v \in Lib THEN {"D", "LIB"} ELSE {"D"})
  <2>1. mem = [p \in P |-> Zeros]
    BY DEF Init
  <2>2. pt[First][v] = m
    BY EnvAssumption, VaFacts DEF Init
  <2>3. m.page = {<<First, v, 1>>}
    BY DEF Map
  <2>4. <<First, v, 1>> \in P
    OBVIOUS
  <2> HIDE DEF m, P
  <2> QED
    BY <2>1, <2>2, <2>3, <2>4 DEF Holds, HoldsIn
<1>7. ASSUME NEW e \in Env
      PROVE  ViewsOf(e) /\ LoadedOf(e)
  <2>1. \A v \in Own : view[e][v] # <<>> => Holds(e, v, view[e][v])
    BY <1>5, <1>6
  <2>2. frame[e].pc # "run" => \A v \in Own : view[e][v] = <<>>
    BY <1>3, <1>5
  <2>3. ViewsOf(e)
    BY <1>3, <2>1, <2>2 DEF ViewsOf
  <2> QED
    BY <2>3, <1>3 DEF LoadedOf
<1>8. view = [e \in Env |-> [v \in Own |-> view[e][v]]]
  BY <1>4
<1> QED
  BY <1>7, <1>8 DEF Contents, Views, Loaded

\* Whose the pages are and what they hold.
THEOREM MemoryInvariance == Spec => [](Sole /\ Contents)
<1>1. Basics /\ Sole /\ Contents /\ [Next]_vars => (Sole /\ Contents)'
  BY SoleNext, ContentsNext
<1>2. Init => Sole /\ Contents
  BY SoleInit, ContentsInit
<1> QED
  BY <1>1, <1>2, ForkInvariance, PTL DEF Spec

\* No process sees what another writes to its private pages (PTE_COW, duppage's order,
\* cow_entry): for every number of processes, pages and steps.
THEOREM Isolated == Spec => []Isolation
<1>1. Basics /\ Contents => Isolation
  <2> SUFFICES ASSUME Basics, Contents, NEW e \in Env, NEW v \in Own, Alive(e), view[e][v] # <<>>
               PROVE  pt[e][v].page # {} /\ mem[PageOf(e, v)] = view[e][v]
    BY DEF Isolation
  <2>1. Holds(e, v, view[e][v])
    BY DEF Contents, Views, ViewsOf, Alive
  <2>2. pt[e][v].page = {PageOf(e, v)}
    BY <2>1, PageOfCell, VaFacts DEF Basics, Holds, HoldsIn
  <2> QED
    BY <2>1, <2>2 DEF Holds, HoldsIn
<1> QED
  BY <1>1, ForkInvariance, MemoryInvariance, PTL

\* The child spawn starts is the program: its segments and arguments, the shared pages
\* and nothing else (elf_load_seg, spawn_mapper, the loop after close), for every
\* program whose calls of the mapper end in the image (LoaderAssumption).
THEOREM ChildAsDescribed == Spec => []ChildComplete
<1>1. Basics /\ Contents => ChildComplete
  <2> SUFFICES ASSUME Basics, Contents, NEW e \in Env, frame[e].pc = "start"
               PROVE  /\ \A v \in Own : LET want == Image(frame[e].prog, v) IN
                           IF want = <<>> THEN pt[Kid(e)][v] = Unmapped
                           ELSE pt[Kid(e)][v] # Unmapped /\ mem[PageOf(Kid(e), v)] = want
                      /\ \A v \in Lib : pt[Kid(e)][v] = pt[e][v]
                      /\ pt[Kid(e)][Fd] = Unmapped
    BY DEF ChildComplete
  <2>1. /\ frame[e].kid = {Kid(e)} /\ Kid(e) \in Env
        /\ LibLoaded(frame[e], pt[e], pt[Kid(e)])
    BY LoadingFacts DEF Contents
  <2>2. ASSUME NEW v \in Own
        PROVE  LET want == Image(frame[e].prog, v) IN
               IF want = <<>> THEN pt[Kid(e)][v] = Unmapped
               ELSE pt[Kid(e)][v] # Unmapped /\ mem[PageOf(Kid(e), v)] = want
    <3> DEFINE want == Image(frame[e].prog, v)
    <3>1. \/ want = <<>> /\ pt[Kid(e)][v] = Unmapped
          \/ want # <<>> /\ Holds(Kid(e), v, want)
      BY <2>1, ChildIsImage DEF Contents
    <3> HIDE DEF want
    <3>2. ASSUME Holds(Kid(e), v, want)
          PROVE  pt[Kid(e)][v] # Unmapped /\ mem[PageOf(Kid(e), v)] = want
      <4>1. pt[Kid(e)][v].page # {}
        BY <3>2 DEF Holds, HoldsIn
      <4>2. pt[Kid(e)][v].page = {PageOf(Kid(e), v)}
        BY <4>1, <2>1, PageOfCell, VaFacts DEF Basics
      <4> QED
        BY <3>2, <4>1, <4>2 DEF Holds, HoldsIn, Unmapped
    <3>3. IF want = <<>> THEN pt[Kid(e)][v] = Unmapped
          ELSE pt[Kid(e)][v] # Unmapped /\ mem[PageOf(Kid(e), v)] = want
      BY <3>1, <3>2
    <3> QED
      BY <3>3 DEF want
  <2>3. \A v \in Lib : pt[Kid(e)][v] = pt[e][v]
    BY <2>1 DEF LibLoaded
  <2>4. pt[e][Fd] = Unmapped
    BY DEF Basics, Temps, TempsOf
  <2> QED
    BY <2>2, <2>3, <2>4, VaFacts
<1> QED
  BY <1>1, ForkInvariance, MemoryInvariance, PTL
==============================================================================
