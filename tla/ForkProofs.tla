------------------------------ MODULE ForkProofs ------------------------------
(***************************************************************************)
(* fork, copy-on-write and spawn, for any number of processes, pages and   *)
(* programs: where the processes are and what their page tables hold, with *)
(* what follows for the shared pages and for what is left behind.          *)
(***************************************************************************)
EXTENDS Spawn, TLAPS, FiniteSetTheorems, WellFoundedInduction

(* Where the processes are *)

Handling == {"cow_copy", "cow_map"}
\* Where a process is, or will be again when its handler is done.
Place(f) == IF f.pc \in Handling THEN f.back ELSE f.pc
Where(e) == Place(frame[e])

Copying == {"dup", "dup_child", "dup_parent", "entry", "runnable"}
Filling == {"load", "load_map", "load_copy"}
Building == {"stack", "stack_map"} \union Filling \union {"share", "start", "err1", "err2"}
Opened == {"header", "stack", "stack_map", "err1", "err"} \union Filling
Idle == {"free", "embryo", "orphan", "other"}
Pc == {"run"} \union InFork \union Handling \union Building \union Opened \union Idle

Bits == {"D", "COW", "LIB"}
Frame == [pc : Pc, va : Int, kid : SUBSET Env, perm : SUBSET Bits, fault : Int,
          back : {"run"} \union InFork, prog : Programs \union {<<>>}, todo : Seq(LoadCall)]

Sound(f) ==
  /\ f.pc \in Handling => f.fault \in Own /\ (f.back # "run" => f.fault = Stack)
  /\ f.pc \in Building \union {"header"} => f.prog \in Programs
  /\ f.pc \in {"load_map", "load_copy"} => f.todo # <<>>
Frames == frame \in [Env -> Frame] /\ \A e \in Env : Sound(frame[e])

\* Who makes whom.
Kids ==
  /\ \A e \in Env : frame[e].kid # {} => Where(e) \in Copying \union Building
  /\ \A e, k \in Env : k \in frame[e].kid => frame[k] = Embryo
  /\ \A e \in Env, j, k \in Env : j \in frame[e].kid /\ k \in frame[e].kid => j = k
  /\ \A d, e, k \in Env : k \in frame[d].kid /\ k \in frame[e].kid => d = e
  /\ \A k \in Env : frame[k].pc = "embryo" => \E e \in Env : k \in frame[e].kid
  /\ \A e \in Env : frame[e].pc \in Filling \union {"share", "start"} => frame[e].kid # {}

------------------------------------------------------------------------------
(* The page tables *)

Shared(v) == Map(<<First, v, 1>>, {"D", "LIB"})

Tables ==
  /\ pt \in [Env -> [Va -> [page : SUBSET Page, perm : SUBSET Bits]]]
  /\ \A e \in Env, v \in Va : pt[e][v] = Unmapped \/ \E p \in Page : pt[e][v].page = {p}
\* The bits: private pages are writable, copied on write or neither; the others are shared.
Perms ==
  /\ \A e \in Env, v \in Va \ Lib : pt[e][v].perm \in {{}, {"D"}, {"COW"}}
  /\ \A e \in Env, v \in Lib \ {Fd} : pt[e][v] \in {Unmapped, Shared(v)}
\* The places that are used only for a time, for a process at f with the table t.
TempsOf(f, t) ==
  /\ t[UTEMP] # Unmapped => f.pc \in {"stack_map", "load_copy"}
  /\ t[UCOW] # Unmapped => f.pc = "cow_map"
  /\ t[Fd] # Unmapped => f.pc \in Opened
  /\ f.pc \in {"stack_map", "load_copy"} => t[UTEMP].page # {} /\ t[UTEMP].perm = {"D"}
  /\ f.pc = "cow_map" => t[UCOW].page # {} /\ t[UCOW].perm = {"D"}
  /\ f.pc \in {"free", "other"} => t = NoPages
Temps == \A e \in Env : TempsOf(frame[e], pt[e])

\* The page a process is at.
PlacesOf(f, t) ==
  /\ f.pc \in Handling => t[f.fault].perm = {"COW"}
  /\ Place(f) \in {"dup", "dup_child", "dup_parent"} =>
       f.va \in (Own \union Lib) \ {Fd} /\ t[f.va].page # {}
  /\ Place(f) \in {"dup_child", "dup_parent"} =>
       f.perm = t[f.va].perm /\ (f.va = Stack => "D" \in f.perm)
  /\ Place(f) = "dup_parent" => f.va \in Own /\ f.perm = {"D"}
  /\ f.pc = "share" => f.va \in Lib \ {Fd} /\ "LIB" \in t[f.va].perm
Places ==
  \A e \in Env :
    /\ PlacesOf(frame[e], pt[e])
    /\ frame[e].pc \in {"load_map", "load_copy"} =>
         \A k \in frame[e].kid : pt[k][Next1(e).page].page # {}

\* The pages in use are within the bound, and hold something.
Fits == Cardinality(Used(pt)) <= MaxPage /\ Used(pt) \subseteq DOMAIN mem

------------------------------------------------------------------------------
USE DEF Handling, Copying, Filling, Building, Opened, Idle, Pc, InFork

\* The frames a process starts with.
LEMMA Starts ==
  /\ Running \in Frame /\ Free \in Frame /\ Embryo \in Frame /\ Orphan \in Frame /\ Other \in Frame
  /\ Sound(Running) /\ Sound(Free) /\ Sound(Embryo) /\ Sound(Orphan) /\ Sound(Other)
  /\ Running.pc = "run" /\ Free.pc = "free" /\ Embryo.pc = "embryo"
  /\ Orphan.pc = "orphan" /\ Other.pc = "other"
  /\ Running.kid = {} /\ Free.kid = {} /\ Embryo.kid = {} /\ Orphan.kid = {} /\ Other.kid = {}
<1>1. <<>> \in Seq(LoadCall)
  OBVIOUS
<1>2. Running \in Frame
  BY <1>1 DEF Running, Frame
<1>3. Free \in Frame /\ Embryo \in Frame /\ Orphan \in Frame /\ Other \in Frame
  <2>1. \A c \in Pc : [Running EXCEPT !.pc = c] \in Frame
    BY <1>2 DEF Frame
  <2> QED
    BY <2>1 DEF Free, Embryo, Orphan, Other
<1>4. /\ Running.pc = "run" /\ Free.pc = "free" /\ Embryo.pc = "embryo"
      /\ Orphan.pc = "orphan" /\ Other.pc = "other"
  BY <1>2 DEF Running, Free, Embryo, Orphan, Other
<1>5. Running.kid = {} /\ Free.kid = {} /\ Embryo.kid = {} /\ Orphan.kid = {} /\ Other.kid = {}
  BY <1>2 DEF Running, Free, Embryo, Orphan, Other
<1> QED
  BY <1>2, <1>3, <1>4, <1>5 DEF Sound

\* A step that changes one frame.
LEMMA OwnStep ==
  ASSUME Frames, NEW e \in Env, NEW g \in Frame, Sound(g), frame' = [frame EXCEPT ![e] = g]
  PROVE  Frames' /\ frame'[e] = g /\ \A k \in Env \ {e} : frame'[k] = frame[k]
  BY DEF Frames

\* ... and leaves the child it is making.
LEMMA KeepKid ==
  ASSUME Frames, Kids, NEW e \in Env, NEW g \in Frame, frame' = [frame EXCEPT ![e] = g],
         frame[e].pc \notin Idle, g.pc \notin Idle, g.kid = frame[e].kid,
         g.kid # {} => Place(g) \in Copying \union Building,
         g.pc \in Filling \union {"share", "start"} => g.kid # {}
  PROVE  Kids'
<1>1. frame'[e] = g /\ \A k \in Env \ {e} : frame'[k] = frame[k]
  BY DEF Frames
<1>2. \A k \in Env : frame'[k].kid = frame[k].kid
  BY <1>1
<1>3. \A k \in Env : frame[k] = Embryo => frame'[k] = Embryo
  BY <1>1, Starts
<1>4. \A k \in Env : frame'[k].pc = "embryo" => frame[k].pc = "embryo"
  BY <1>1
<1> QED
  BY <1>1, <1>2, <1>3, <1>4 DEF Kids, Where

\* A set of numbers that is not empty has a least one.
LEMMA LeastElement ==
  ASSUME NEW T, T \subseteq Nat, T # {}
  PROVE  \E x \in T : \A y \in T : x <= y
<1>1. IsWellFoundedOn(OpToRel(<, Nat), Nat)
  BY NatLessThanWellFounded
<1>2. PICK x \in T : \A y \in T : ~ (<<y, x>> \in OpToRel(<, Nat))
  BY <1>1, WFMin
<1>3. \A y \in T : ~(y < x)
  BY <1>2 DEF OpToRel
<1> QED
  BY <1>3

\* The frame of fork at its next page: a mapped one, or the end of the loop.
LEMMA NextPageFrame ==
  ASSUME NEW e \in Env, NEW g \in Frame
  PROVE  /\ NextPage(e, g) \in Frame /\ NextPage(e, g).kid = g.kid
         /\ NextPage(e, g).prog = g.prog /\ NextPage(e, g).todo = g.todo
         /\ \/ NextPage(e, g).pc = "entry"
            \/ /\ NextPage(e, g).pc = "dup"
               /\ NextPage(e, g).va \in Own \union Lib
               /\ pt[e][NextPage(e, g).va].page # {}
<1>1. CASE Below(e, g.va) = {}
  <2> DEFINE zero == 0
             none == {}
  <2>1. NextPage(e, g) = [g EXCEPT !.pc = "entry", !.va = zero, !.perm = none]
    BY <1>1 DEF NextPage
  <2>2. zero \in Int /\ none \in SUBSET Bits
    OBVIOUS
  <2> HIDE DEF zero, none
  <2>3. /\ NextPage(e, g) \in Frame /\ NextPage(e, g).kid = g.kid /\ NextPage(e, g).pc = "entry"
        /\ NextPage(e, g).prog = g.prog /\ NextPage(e, g).todo = g.todo
    BY <2>1, <2>2 DEF Frame
  <2> QED
    BY <2>3
<1>2. CASE Below(e, g.va) # {}
  <2> DEFINE w == CHOOSE w \in Below(e, g.va) : \A u \in Below(e, g.va) : w <= u
  <2>1. w \in Below(e, g.va)
    BY <1>2, LeastElement, VaAssumption DEF Below
  <2>2. NextPage(e, g) = [g EXCEPT !.pc = "dup", !.perm = {}, !.va = w]
    BY <1>2 DEF NextPage
  <2> HIDE DEF w
  <2>3. w \in Own \union Lib /\ pt[e][w].page # {} /\ w \in Int
    BY <2>1, VaAssumption DEF Below
  <2>4. /\ NextPage(e, g) \in Frame /\ NextPage(e, g).kid = g.kid /\ NextPage(e, g).pc = "dup"
        /\ NextPage(e, g).prog = g.prog /\ NextPage(e, g).todo = g.todo /\ NextPage(e, g).va = w
    BY <2>2, <2>3 DEF Frame
  <2> QED
    BY <2>3, <2>4
<1> QED
  BY <1>1, <1>2

\* The frame of spawn at its next shared page, or the end of that loop: no page with
\* PTE_LIBRARY is left out between the two.
LEMMA NextSharedFrame ==
  ASSUME NEW g \in Frame, NEW tables
  PROVE  /\ NextShared(g, tables) \in Frame
         /\ NextShared(g, tables).kid = g.kid
         /\ NextShared(g, tables).prog = g.prog /\ NextShared(g, tables).todo = g.todo
         /\ \/ /\ NextShared(g, tables).pc = "start"
               /\ \A w \in Lib : w > g.va => "LIB" \notin tables[w].perm
            \/ /\ NextShared(g, tables).pc = "share"
               /\ NextShared(g, tables).va \in Lib /\ NextShared(g, tables).va > g.va
               /\ "LIB" \in tables[NextShared(g, tables).va].perm
               /\ \A w \in Lib : w > g.va /\ w < NextShared(g, tables).va => "LIB" \notin tables[w].perm
<1> DEFINE later == {w \in Lib : w > g.va /\ "LIB" \in tables[w].perm}
           w == CHOOSE w \in later : \A u \in later : w <= u
           zero == 0
<1>0. NextShared(g, tables) = IF later = {} THEN [g EXCEPT !.pc = "start", !.va = zero]
                              ELSE [g EXCEPT !.pc = "share", !.va = w]
  BY DEF NextShared
<1>z. zero \in Int
  OBVIOUS
<1>1. CASE later = {}
  <2>1. NextShared(g, tables) = [g EXCEPT !.pc = "start", !.va = zero]
    BY <1>0, <1>1
  <2>2. \A u \in Lib : u > g.va => "LIB" \notin tables[u].perm
    BY <1>1
  <2> HIDE DEF zero
  <2>3. /\ NextShared(g, tables) \in Frame /\ NextShared(g, tables).kid = g.kid
        /\ NextShared(g, tables).pc = "start"
        /\ NextShared(g, tables).prog = g.prog /\ NextShared(g, tables).todo = g.todo
    BY <1>z, <2>1 DEF Frame
  <2> QED
    BY <2>2, <2>3
<1>2. CASE later # {}
  <2>1. w \in later /\ \A u \in later : w <= u
    BY <1>2, LeastElement, VaAssumption
  <2>2. NextShared(g, tables) = [g EXCEPT !.pc = "share", !.va = w]
    BY <1>0, <1>2
  <2> HIDE DEF w
  <2>3. w \in Lib /\ w \in Int /\ w > g.va /\ "LIB" \in tables[w].perm
    BY <2>1, VaAssumption
  <2>4. \A u \in Lib : u > g.va /\ u < w => "LIB" \notin tables[u].perm
    BY <2>1, <2>3, VaAssumption
  <2> HIDE DEF later
  <2>5. /\ NextShared(g, tables) \in Frame /\ NextShared(g, tables).kid = g.kid
        /\ NextShared(g, tables).pc = "share" /\ NextShared(g, tables).va = w
        /\ NextShared(g, tables).prog = g.prog /\ NextShared(g, tables).todo = g.todo
    BY <2>2, <2>3 DEF Frame
  <2> QED
    BY <2>3, <2>4, <2>5
<1> QED
  BY <1>1, <1>2

\* exofork: the free env becomes the child of e.
Gained(e, g, k) == [j \in Env |-> IF j = e THEN g ELSE IF j = k THEN Embryo ELSE frame[j]]
LEMMA GainKid ==
  ASSUME Frames, Kids, NEW e \in Env, NEW k \in Env, NEW g \in Frame, Sound(g),
         frame[k] = Free, frame[e].pc \notin Idle, frame[e].kid = {},
         g.kid = {k}, g.pc \in Copying \union Building,
         frame' = Gained(e, g, k)
  PROVE  Frames' /\ Kids'
<1>1. k # e
  BY Starts
<1>2. /\ \A j \in Env \ {e, k} : frame'[j] = frame[j]
      /\ frame'[e] = g /\ frame'[k] = Embryo
  BY <1>1 DEF Gained
<1>3. Frames'
  BY Starts DEF Frames, Gained
<1>4. \A i, j \in Env : i \in frame[j].kid => i # e /\ i # k /\ j # e /\ j # k
  BY Starts DEF Kids
<1>5. \A i, j \in Env : i \in frame'[j].kid <=> (i = k /\ j = e) \/ i \in frame[j].kid
  BY <1>1, <1>2, Starts
<1>6. \A j \in Env : frame'[j].kid # {} => Where(j)' \in Copying \union Building
  BY <1>2, Starts DEF Kids, Where, Place
<1>7. \A i, j \in Env : i \in frame'[j].kid => frame'[i] = Embryo
  BY <1>2, <1>4, <1>5 DEF Kids
<1>8. \A i \in Env : frame'[i].pc = "embryo" => \E j \in Env : i \in frame'[j].kid
  BY <1>2, <1>5 DEF Kids
<1>9. \A j \in Env : frame'[j].pc \in Filling \union {"share", "start"} => frame'[j].kid # {}
  BY <1>2, Starts DEF Kids
<1>10. \A d, i, j \in Env : i \in frame'[d].kid /\ i \in frame'[j].kid => d = j
  BY <1>4, <1>5 DEF Kids
<1>11. \A d, i, j \in Env : i \in frame'[d].kid /\ j \in frame'[d].kid => i = j
  BY <1>4, <1>5 DEF Kids
<1> QED
  BY <1>3, <1>6, <1>7, <1>8, <1>9, <1>10, <1>11 DEF Kids

\* A process is done with its child.
LEMMA LoseKid ==
  ASSUME Frames, Kids, NEW e \in Env, NEW g \in Frame, Sound(g), NEW h \in {Running, Free, Orphan},
         frame[e].pc \notin Idle,
         g.kid = {}, g.pc \notin Filling \union {"share", "start", "embryo"},
         frame' = [j \in Env |-> IF j = e THEN g ELSE IF j \in frame[e].kid THEN h ELSE frame[j]]
  PROVE  Frames' /\ Kids'
<1>1. \A j \in Env : /\ j = e => frame'[j] = g
                     /\ j # e /\ j \in frame[e].kid => frame'[j] = h
                     /\ j # e /\ j \notin frame[e].kid => frame'[j] = frame[j]
  OBVIOUS
<1>2. h \in Frame /\ Sound(h) /\ h.kid = {} /\ h.pc \in {"run", "free", "orphan"}
  BY Starts
<1>3. Frames'
  BY <1>2 DEF Frames
<1>4. \A i, j \in Env : i \in frame[j].kid => i # e /\ (j # e => i \notin frame[e].kid /\ j \notin frame[e].kid)
  BY Starts DEF Kids
<1>5. \A i, j \in Env : i \in frame'[j].kid <=> j # e /\ i \in frame[j].kid
  BY <1>1, <1>2, <1>4, Starts DEF Kids
<1>6. \A j \in Env : frame'[j].kid # {} => Where(j)' \in Copying \union Building
  BY <1>1, <1>2 DEF Kids, Where, Place
<1>7. \A i, j \in Env : i \in frame'[j].kid => frame'[i] = Embryo
  BY <1>1, <1>4, <1>5 DEF Kids
<1>8. \A i \in Env : frame'[i].pc = "embryo" => \E j \in Env : i \in frame'[j].kid
  <2> SUFFICES ASSUME NEW i \in Env, frame'[i].pc = "embryo"
               PROVE  \E j \in Env : i \in frame'[j].kid
    OBVIOUS
  <2>1. i # e /\ i \notin frame[e].kid /\ frame[i].pc = "embryo"
    BY <1>1, <1>2
  <2>2. PICK j \in Env : i \in frame[j].kid
    BY <2>1 DEF Kids
  <2> QED
    BY <2>1, <2>2, <1>5
<1>9. \A j \in Env : frame'[j].pc \in Filling \union {"share", "start"} => frame'[j].kid # {}
  BY <1>1, <1>2 DEF Kids
<1> QED
  BY <1>3, <1>5, <1>6, <1>7, <1>8, <1>9 DEF Kids

\* Every step keeps the frames sound, and a child has one maker.
LEMMA FramesNext ==
  ASSUME Frames, Kids, Tables, Places, [Next]_vars
  PROVE  Frames' /\ Kids'
<1>1. CASE UNCHANGED vars
  BY <1>1 DEF vars, Frames, Kids, Where
<1> SUFFICES ASSUME NEW e \in Env, ForkStep(e) \/ SpawnStep(e)
             PROVE  Frames' /\ Kids'
  BY <1>1 DEF Next
<1> DEFINE f == frame[e]
<1>0. f \in Frame /\ Sound(f) /\ (f.kid # {} => Place(f) \in Copying \union Building)
  BY DEF Frames, Kids, Where
<1>f. \A g : [frame EXCEPT ![e] = g] = [k \in Env |-> IF k = e THEN g ELSE frame[k]]
  BY DEF Frames
<1> HIDE DEF f
<1>o. ASSUME NEW g \in Frame, Sound(g), frame' = [frame EXCEPT ![e] = g],
         f.pc \notin Idle, g.pc \notin Idle, g.kid = f.kid,
         g.kid # {} => Place(g) \in Copying \union Building,
         g.pc \in Filling \union {"share", "start"} => g.kid # {}
      PROVE  Frames' /\ Kids'
  BY <1>o, OwnStep, KeepKid DEF f
<1>2. ASSUME NEW v \in Own, do_tlb_mod(e, v)
      PROVE  Frames' /\ Kids'
  <2>1. CASE UNCHANGED frame
    BY <2>1 DEF Frames, Kids, Where
  <2>2. CASE frame' = [frame EXCEPT ![e] = [f EXCEPT !.pc = "cow_copy", !.back = f.pc, !.fault = v]]
    <3> DEFINE g == [f EXCEPT !.pc = "cow_copy", !.back = f.pc, !.fault = v]
    <3>0. (f.pc = "run" \/ (f.pc \in InFork /\ v = Stack)) /\ v \in Int
      BY <1>2, VaAssumption DEF do_tlb_mod, Writes, f
    <3>1. g \in Frame /\ g.pc = "cow_copy" /\ g.back = f.pc /\ g.fault = v /\ g.kid = f.kid
      BY <1>0, <3>0 DEF Frame
    <3> HIDE DEF g
    <3>2. Sound(g) /\ Place(g) = f.pc /\ Place(f) = f.pc
      BY <3>0, <3>1 DEF Sound, Place
    <3>3. frame' = [frame EXCEPT ![e] = g]
      BY <2>2 DEF g
    <3> QED
      BY <3>0, <3>1, <3>2, <3>3, <1>0, <1>o
  <2> QED
    BY <2>1, <2>2, <1>2, <1>0, <1>f DEF do_tlb_mod, f, Frames
<1>3. ASSUME NEW v \in Own, NEW x \in Values, write(e, v, x)
      PROVE  Frames' /\ Kids'
  BY <1>3 DEF write, Frames, Kids, Where
<1>4. CASE cow_copy(e)
  <2>1. CASE UNCHANGED frame
    BY <2>1 DEF Frames, Kids, Where
  <2>2. CASE Goto(e, "cow_map")
    <3> DEFINE g == [f EXCEPT !.pc = "cow_map"]
    <3>1. g \in Frame /\ g.pc = "cow_map" /\ g.back = f.back /\ g.fault = f.fault /\ g.kid = f.kid
      BY <1>0 DEF Frame
    <3>2. frame' = [frame EXCEPT ![e] = g]
      BY <2>2 DEF Goto, f
    <3> HIDE DEF g
    <3> QED
      BY <1>4, <3>1, <3>2, <1>0, <1>o DEF cow_copy, At, f, Sound, Place
  <2> QED
    BY <2>1, <2>2, <1>4 DEF cow_copy
<1>5. CASE cow_map(e)
  <2> DEFINE zero == 0
             g == [f EXCEPT !.pc = f.back, !.back = "run", !.fault = zero]
  <2>1. frame' = [frame EXCEPT ![e] = g] /\ f.pc = "cow_map"
    BY <1>5 DEF cow_map, f, At
  <2>2. zero \in Int /\ f.back \in Pc
    BY <1>0 DEF Frame
  <2> HIDE DEF zero
  <2>3. g \in Frame /\ g.pc = f.back /\ g.kid = f.kid
    BY <1>0, <2>2 DEF Frame
  <2>4. f.back \in {"run"} \union InFork
    BY <1>0 DEF Frame
  <2> HIDE DEF g
  <2> QED
    BY <2>1, <2>3, <2>4, <1>0, <1>o DEF Sound, Place
<1>6. CASE call_fork(e)
  <2> DEFINE g == [f EXCEPT !.pc = "exofork"]
  <2>1. frame' = [frame EXCEPT ![e] = g] /\ f.pc = "run"
    BY <1>6 DEF call_fork, f, At, Goto
  <2>2. g \in Frame /\ g.pc = "exofork" /\ g.kid = f.kid
    BY <1>0 DEF Frame
  <2> HIDE DEF g
  <2> QED
    BY <2>1, <2>2, <1>0, <1>o DEF Sound, Place
<1>7. CASE duppage(e)
  <2> DEFINE p == pt[e][f.va].perm
             g == [f EXCEPT !.pc = "dup_child", !.perm = p]
  <2>1. frame' = [frame EXCEPT ![e] = g] /\ f.pc = "dup"
    BY <1>7 DEF duppage, f, At
  <2>2. p \in SUBSET Bits
    BY <2>1 DEF Tables, Places, PlacesOf, Where, Place, f, Va
  <2> HIDE DEF p
  <2>3. g \in Frame /\ g.pc = "dup_child" /\ g.kid = f.kid
    BY <1>0, <2>2 DEF Frame
  <2> HIDE DEF g
  <2> QED
    BY <2>1, <2>3, <1>0, <1>o DEF Sound, Place
<1>8. CASE duppage_child(e)
  <2> DEFINE g == IF Cow(f.perm) THEN [f EXCEPT !.pc = "dup_parent"] ELSE NextPage(e, f)
  <2>1. frame' = [frame EXCEPT ![e] = g] /\ f.pc = "dup_child"
    BY <1>8 DEF duppage_child, f, At
  <2>2. g \in Frame /\ g.pc \in {"dup", "entry", "dup_parent"} /\ g.kid = f.kid
    <3>1. CASE Cow(f.perm)
      BY <3>1, <1>0 DEF Frame
    <3>2. CASE ~Cow(f.perm)
      BY <3>2, <1>0, NextPageFrame
    <3> QED
      BY <3>1, <3>2
  <2> HIDE DEF g
  <2> QED
    BY <2>1, <2>2, <1>0, <1>o DEF Sound, Place
<1>9. CASE duppage_parent(e)
  <2> DEFINE g == NextPage(e, f)
  <2>1. frame' = [frame EXCEPT ![e] = g] /\ f.pc = "dup_parent"
    BY <1>9 DEF duppage_parent, f, At
  <2>2. g \in Frame /\ g.pc \in {"dup", "entry"} /\ g.kid = f.kid
    BY <1>0, NextPageFrame
  <2> HIDE DEF g
  <2> QED
    BY <2>1, <2>2, <1>0, <1>o DEF Sound, Place
<1>10. CASE set_entry(e)
  <2> DEFINE g == [f EXCEPT !.pc = "runnable"]
  <2>1. frame' = [frame EXCEPT ![e] = g] /\ f.pc = "entry"
    BY <1>10 DEF set_entry, f, At, Goto
  <2>2. g \in Frame /\ g.pc = "runnable" /\ g.kid = f.kid
    BY <1>0 DEF Frame
  <2> HIDE DEF g
  <2> QED
    BY <2>1, <2>2, <1>0, <1>o DEF Sound, Place
<1>11. CASE exofork(e)
  <2> DEFINE neg == -1
             h(K) == [f EXCEPT !.va = neg, !.kid = K]
             g(K) == NextPage(e, h(K))
  <2>n. neg \in Int
    OBVIOUS
  <2>0. f.pc = "exofork" /\ neg \in Int
    BY <2>n, <1>11 DEF exofork, At, f
  <2>1. CASE frame' = [frame EXCEPT ![e] = g({})]
    <3> DEFINE none == {}
    <3>1. none \in SUBSET Env
      OBVIOUS
    <3> HIDE DEF neg, none
    <3>2. h(none) \in Frame /\ h(none).kid = none
      BY <1>0, <2>0, <3>1 DEF Frame
    <3> HIDE DEF h
    <3>3. g(none) \in Frame /\ g(none).kid = none /\ g(none).pc \in {"entry", "dup"}
      BY <3>2, NextPageFrame
    <3>4. f.kid = {}
      BY <2>0, <1>0 DEF Place
    <3>5. frame' = [frame EXCEPT ![e] = g(none)]
      BY <2>1 DEF none
    <3> HIDE DEF g
    <3> QED
      BY <2>0, <3>3, <3>4, <3>5, <1>o DEF none, Sound, Place
  <2>2. ASSUME NEW k \in Env, frame[k] = Free, frame' = [frame EXCEPT ![k] = Embryo, ![e] = g({k})]
        PROVE  Frames' /\ Kids'
    <3> HIDE DEF neg
    <3>1. h({k}) \in Frame /\ h({k}).kid = {k}
      BY <1>0, <2>0 DEF Frame
    <3> HIDE DEF h
    <3>2. g({k}) \in Frame /\ g({k}).kid = {k} /\ g({k}).pc \in {"entry", "dup"}
      BY <3>1, NextPageFrame
    <3> HIDE DEF g
    <3>3. k # e
      BY <2>0, <2>2, Starts DEF f
    <3>4. frame' = [j \in Env |-> IF j = e THEN g({k}) ELSE IF j = k THEN Embryo ELSE frame[j]]
      BY <2>2, <3>3 DEF Frames
    <3>5. f.kid = {} /\ Sound(g({k}))
      BY <2>0, <3>2, <1>0 DEF Place, Sound
    <3> QED
      <4>1. frame' = Gained(e, g({k}), k)
        BY <3>4 DEF Gained
      <4>2. frame[e].pc \notin Idle /\ frame[e].kid = {} /\ g({k}).pc \in Copying \union Building
        BY <2>0, <3>2, <3>5 DEF f
      <4> QED
        BY <2>2, <3>2, <3>5, <4>1, <4>2, GainKid
  <2> QED
    BY <2>1, <2>2, <1>11 DEF exofork, f, Frames
<1>12. CASE set_runnable(e)
  <2>1. frame' = [j \in Env |-> IF j = e THEN Running ELSE IF j \in frame[e].kid THEN Running ELSE frame[j]]
    BY <1>12 DEF set_runnable, Kids
  <2> QED
    BY <2>1, <1>12, Starts, LoseKid DEF set_runnable, At
<1>13. CASE env_free(e)
  BY <1>13, Starts, LoseKid DEF env_free, Alive
<1>14. ASSUME NEW p \in Programs, spawn(e, p)
       PROVE  Frames' /\ Kids'
  <2> DEFINE g == [f EXCEPT !.pc = "header", !.prog = p]
  <2>1. frame' = [frame EXCEPT ![e] = g] /\ f.pc = "run"
    BY <1>14 DEF spawn, f, At, Step
  <2>2. g \in Frame /\ g.pc = "header" /\ g.prog = p /\ g.kid = f.kid
    BY <1>0 DEF Frame
  <2> HIDE DEF g
  <2> QED
    BY <2>1, <2>2, <1>0, <1>o DEF Sound, Place
\* A step that only goes on to another place of spawn.
<1>t. ASSUME NEW c \in {"err", "err1", "err2", "stack", "stack_map", "load_map", "load_copy"},
             To(e, c), f.pc \in Building \union {"header"},
             c = "err" => f.kid = {}, c = "load_map" => f.pc = "load" /\ f.todo # <<>>,
             c = "load_copy" => f.pc = "load_map"
      PROVE  Frames' /\ Kids'
  <2> DEFINE g == [f EXCEPT !.pc = c]
  <2>1. frame' = [frame EXCEPT ![e] = g]
    BY <1>t DEF f, To, Step
  <2>2. g \in Frame /\ g.pc = c /\ g.prog = f.prog /\ g.kid = f.kid /\ g.todo = f.todo
    BY <1>0 DEF Frame
  <2> HIDE DEF g
  <2>3. c \in {"load_map", "load_copy"} => f.kid # {}
    BY <1>t DEF Kids, f
  <2>4. Sound(g)
    BY <1>0, <1>t, <2>2 DEF Sound
  <2> QED
    BY <1>t, <2>1, <2>2, <2>3, <2>4, <1>0, <1>o DEF Place
<1>15. CASE spawn_exofork(e)
  <2>0. f.pc = "header" /\ f.kid = {}
    BY <1>15, <1>0 DEF spawn_exofork, At, f, Place
  <2>1. CASE To(e, "err") \/ To(e, "stack")
    BY <2>0, <2>1, <1>t
  <2>2. ASSUME NEW k \in Env, frame[k] = Free,
               frame' = [frame EXCEPT ![k] = Embryo, ![e].pc = "stack", ![e].kid = {k}]
        PROVE  Frames' /\ Kids'
    <3> DEFINE g == [f EXCEPT !.pc = "stack", !.kid = {k}]
    <3>1. k # e
      BY <2>0, <2>2, Starts DEF f
    <3>2. frame' = [j \in Env |-> IF j = e THEN g ELSE IF j = k THEN Embryo ELSE frame[j]]
      BY <2>2, <3>1 DEF Frames, f
    <3>3. g \in Frame /\ g.pc = "stack" /\ g.prog = f.prog /\ g.kid = {k}
      BY <1>0 DEF Frame
    <3> HIDE DEF g
    <3>4. Sound(g)
      BY <1>0, <2>0, <3>3 DEF Sound
    <3> QED
      <4>1. frame[e].pc \notin Idle /\ frame[e].kid = {} /\ g.pc \in Copying \union Building
        BY <2>0, <3>3 DEF f
      <4>2. frame' = Gained(e, g, k)
        BY <3>2 DEF Gained
      <4> QED
        BY <2>2, <3>3, <3>4, <4>1, <4>2, GainKid
  <2> QED
    BY <1>15, <2>1, <2>2 DEF spawn_exofork
<1>16. CASE init_stack(e)
  BY <1>16, <1>t DEF init_stack, At, f
<1>17. CASE init_stack_map(e)
  <2>0. f.pc = "stack_map"
    BY <1>17 DEF init_stack_map, At, f
  <2>1. CASE To(e, "err1")
    BY <2>0, <2>1, <1>t
  <2>2. CASE Works(e) /\ Step(e, [f EXCEPT !.pc = "load", !.todo = Calls(f.prog)])
    <3> DEFINE g == [f EXCEPT !.pc = "load", !.todo = Calls(f.prog)]
    <3>1. f.prog \in Programs /\ Calls(f.prog) \in Seq(LoadCall)
      BY <2>0, <1>0, LoaderAssumption DEF Sound, LoadsImage
    <3>2. g \in Frame /\ g.pc = "load" /\ g.prog = f.prog /\ g.kid = f.kid
      BY <1>0, <3>1 DEF Frame
    <3>3. frame' = [frame EXCEPT ![e] = g]
      BY <2>2 DEF Step
    <3> HIDE DEF g
    <3>4. f.kid # {}
      BY <2>2 DEF Works, f
    <3> QED
      BY <1>0, <1>o, <2>0, <3>1, <3>2, <3>3, <3>4 DEF Sound, Place
  <2> QED
    BY <1>17, <2>1, <2>2 DEF init_stack_map, f
\* A call of the mapper is done.
<1>d. ASSUME f.pc \in Filling, f.todo # <<>>, Step(e, Done1(e))
      PROVE  Frames' /\ Kids'
  <2> DEFINE g == [f EXCEPT !.pc = "load", !.todo = Tail(f.todo)]
  <2>1. Tail(f.todo) \in Seq(LoadCall)
    <3>1. f.todo \in Seq(LoadCall)
      BY <1>0 DEF Frame
    <3> QED
      BY <1>d, <3>1
  <2>2. g \in Frame /\ g.pc = "load" /\ g.prog = f.prog /\ g.kid = f.kid
    BY <1>0, <2>1 DEF Frame
  <2>3. frame' = [frame EXCEPT ![e] = g]
    BY <1>d, <1>0 DEF Step, Done1, f
  <2> HIDE DEF g
  <2>4. f.kid # {}
    BY <1>d DEF Kids, f
  <2> QED
    BY <1>d, <1>0, <1>o, <2>2, <2>3, <2>4 DEF Sound, Place
<1>18. CASE spawn_mapper(e)
  <2>0. f.pc = "load" /\ f.todo # <<>>
    BY <1>18 DEF spawn_mapper, At, f
  <2>1. To(e, "err1") \/ To(e, "load_map") \/ Step(e, Done1(e))
    BY <1>18 DEF spawn_mapper, To
  <2> QED
    BY <2>0, <2>1, <1>t, <1>d
<1>19. CASE mapper_map(e)
  BY <1>19, <1>t DEF mapper_map, At, f
<1>20. CASE mapper_copy(e)
  BY <1>20, <1>0, <1>d DEF mapper_copy, At, f, Sound
\* The loop over the shared pages.
<1>s. ASSUME NEW h \in Frame, NEW tables, h.kid = f.kid, h.prog = f.prog, f.kid # {},
             f.pc \in {"load", "share"}, Step(e, NextShared(h, tables))
      PROVE  Frames' /\ Kids'
  <2> DEFINE g == NextShared(h, tables)
  <2>1. g \in Frame /\ g.pc \in {"share", "start"} /\ g.prog = f.prog /\ g.kid = f.kid
    BY <1>s, NextSharedFrame
  <2>2. frame' = [frame EXCEPT ![e] = g]
    BY <1>s DEF Step
  <2> HIDE DEF g
  <2> QED
    BY <1>s, <1>0, <1>o, <2>1, <2>2 DEF Sound, Place
<1>21. CASE spawn_close(e)
  <2> DEFINE neg == -1
             h == [f EXCEPT !.va = neg]
  <2>1. Step(e, NextShared(h, pt'[e])) /\ f.pc = "load"
    BY <1>21 DEF spawn_close, At, f
  <2>2. neg \in Int
    OBVIOUS
  <2> HIDE DEF neg
  <2>3. h \in Frame /\ h.kid = f.kid /\ h.prog = f.prog
    BY <1>0, <2>2 DEF Frame
  <2> HIDE DEF h
  <2>4. f.kid # {}
    BY <2>1 DEF Kids, f
  <2> QED
    BY <2>1, <2>3, <2>4, <1>s
<1>22. CASE share(e)
  <2>0. f.pc = "share"
    BY <1>22 DEF share, At, f
  <2>1. CASE To(e, "err2")
    BY <2>0, <2>1, <1>t
  <2>2. CASE Step(e, NextShared(f, pt[e]))
    <3>1. f.kid # {}
      BY <2>0 DEF Kids, f
    <3> QED
      BY <2>0, <2>2, <3>1, <1>0, <1>s
  <2> QED
    BY <1>22, <2>1, <2>2 DEF share, f
<1>23. CASE start(e)
  <2>0. f.pc = "start" /\ f.kid # {}
    BY <1>23 DEF start, At, f, Kids
  <2>1. frame[e].kid = {Kid(e)} /\ Kid(e) # e /\ Kid(e) \in Env
    <3>1. PICK k : k = Kid(e) /\ k \in frame[e].kid
      BY <2>0 DEF Kid, f
    <3>2. frame[e].kid \subseteq Env
      BY <1>0 DEF f, Frame
    <3>3. frame[e].kid = {k}
      BY <3>1, <3>2 DEF Kids
    <3>4. k # e
      BY <3>1, <3>2, <2>0, Starts DEF Kids, f
    <3> QED
      BY <3>1, <3>2, <3>3, <3>4
  <2>2. frame' = [j \in Env |-> IF j = e THEN Running ELSE IF j \in frame[e].kid THEN Running ELSE frame[j]]
    BY <1>23, <2>1 DEF start, Frames
  <2> QED
    BY <2>0, <2>2, Starts, LoseKid DEF f
<1>24. CASE destroy(e)
  <2> DEFINE none == {}
             h == [f EXCEPT !.pc = "err", !.kid = none]
             g == IF f.pc = "err1" THEN h ELSE Running
  <2>0. f.pc \in {"err1", "err2"}
    BY <1>24 DEF destroy, At, f
  <2>1. frame' = [j \in Env |-> IF j = e THEN g ELSE IF j \in frame[e].kid THEN Free ELSE frame[j]]
    BY <1>24 DEF destroy, f
  <2>2. none \in SUBSET Env
    OBVIOUS
  <2>n. none = {}
    OBVIOUS
  <2> HIDE DEF none
  <2>3. h \in Frame /\ h.pc = "err" /\ h.kid = none
    BY <1>0, <2>2 DEF Frame
  <2> HIDE DEF h
  <2>4. g \in Frame /\ g.pc \in {"err", "run"} /\ g.kid = {}
    BY <2>3, <2>n, Starts
  <2> HIDE DEF g
  <2> QED
    BY <2>0, <2>1, <2>4, Starts, LoseKid DEF f, Sound
<1>25. CASE err(e)
  BY <1>25, <1>0, <1>o, Starts DEF err, At, f, Step, Place
<1> QED
  BY <1>2, <1>3, <1>4, <1>5, <1>6, <1>7, <1>8, <1>9, <1>10, <1>11, <1>12, <1>13, <1>14, <1>15, <1>16, <1>17,
     <1>18, <1>19, <1>20, <1>21, <1>22, <1>23, <1>24, <1>25 DEF ForkStep, SpawnStep

------------------------------------------------------------------------------
(* What the steps do to the frames and to the tables *)

Others(e) == \A k \in Env \ {e} : frame'[k] = frame[k]
OthersBut(e, K) == \A k \in Env \ ({e} \union K) : frame'[k] = frame[k]
Works1(g, f) == g.kid = f.kid /\ g.va = f.va /\ g.perm = f.perm /\ g.prog = f.prog /\ g.todo = f.todo
Only(e, v, m) == pt' = [d \in Env |-> [w \in Va |-> IF d = e /\ w = v THEN m ELSE pt[d][w]]]

Basics == Frames /\ Kids /\ Tables /\ Perms /\ Temps /\ Places /\ Fits

\* The addresses.
LEMMA VaFacts ==
  /\ UTEMP \in Va /\ UCOW \in Va /\ Own \subseteq Va /\ Lib \subseteq Va /\ Fd \in Va /\ Stack \in Va
  /\ UTEMP # UCOW /\ UTEMP \notin Own \union Lib /\ UCOW \notin Own \union Lib
  /\ Own \intersect Lib = {} /\ Fd \in Lib /\ Stack \in Own
  /\ Own \union Lib \subseteq Int
  BY VaAssumption DEF Va, UTEMP, UCOW

\* Two entries of the page tables are written.
Written(d, v, x, e, w, y) == [pt EXCEPT ![d][v] = x, ![e][w] = y]
Cells(d, v, x, e, w, y) ==
  [c \in Env |-> [u \in Va |-> IF c = d /\ u = v THEN x ELSE IF c = e /\ u = w THEN y ELSE pt[c][u]]]
LEMMA TwoCells ==
  ASSUME Tables, NEW d \in Env, NEW e \in Env, NEW v \in Va, NEW w \in Va, d # e \/ v # w,
         NEW x, NEW y
  PROVE  Written(d, v, x, e, w, y) = Cells(d, v, x, e, w, y)
<1> DEFINE q == [pt EXCEPT ![d][v] = x]
<1>1. pt = [c \in Env |-> [u \in Va |-> pt[c][u]]]
  BY DEF Tables
<1>2. q = [c \in Env |-> [u \in Va |-> IF c = d /\ u = v THEN x ELSE pt[c][u]]]
  BY <1>1
<1>3. Written(d, v, x, e, w, y) = [q EXCEPT ![e][w] = y]
  BY DEF Written
<1> HIDE DEF q
<1>4. /\ q = [c \in Env |-> q[c]]
      /\ \A c \in Env : q[c] = [u \in Va |-> IF c = d /\ u = v THEN x ELSE pt[c][u]]
  BY <1>2
<1>5. [q EXCEPT ![e][w] = y] = [c \in Env |-> IF c = e THEN [q[e] EXCEPT ![w] = y] ELSE q[c]]
  BY <1>4
<1>6. [q[e] EXCEPT ![w] = y]
        = [u \in Va |-> IF e = d /\ u = v THEN x ELSE IF u = w THEN y ELSE pt[e][u]]
  BY <1>4
<1>7. \A c \in Env : (IF c = e THEN [q[e] EXCEPT ![w] = y] ELSE q[c])
        = [u \in Va |-> IF c = d /\ u = v THEN x ELSE IF c = e /\ u = w THEN y ELSE pt[c][u]]
  <2> TAKE c \in Env
  <2>1. CASE c = e
    BY <2>1, <1>6
  <2>2. CASE c # e
    BY <2>2, <1>4
  <2> QED
    BY <2>1, <2>2
<1> QED
  BY <1>3, <1>5, <1>7 DEF Cells

\* A step from one place to another leaves the rest of the frame.
LEMMA GotoFields ==
  ASSUME Frames, NEW e \in Env, NEW c \in Pc, Goto(e, c) \/ To(e, c)
  PROVE  /\ Others(e) /\ frame'[e].pc = c /\ Works1(frame'[e], frame[e])
         /\ frame'[e].fault = frame[e].fault /\ frame'[e].back = frame[e].back
<1> DEFINE g == [frame[e] EXCEPT !.pc = c]
<1>1. frame' = [frame EXCEPT ![e] = g]
  BY DEF Goto, To, Step
<1>2. frame[e] \in Frame
  BY DEF Frames
<1>3. g.pc = c /\ Works1(g, frame[e]) /\ g.fault = frame[e].fault /\ g.back = frame[e].back
  BY <1>2 DEF Frame, Works1
<1> HIDE DEF g
<1> QED
  BY <1>1, <1>3 DEF Others, Frames

\* One place of one table is written.
LEMMA OnlyCell ==
  ASSUME Tables, NEW e \in Env, NEW v \in Va, NEW m, pt' = [pt EXCEPT ![e][v] = m]
  PROVE  Only(e, v, m)
  BY DEF Tables, Only

\* The page at a place that is mapped.
LEMMA PageOfCell ==
  ASSUME Tables, NEW e \in Env, NEW v \in Va, pt[e][v].page # {}
  PROVE  PageOf(e, v) \in Page /\ pt[e][v].page = {PageOf(e, v)} /\ pt[e][v] = Map(PageOf(e, v), pt[e][v].perm)
<1>1. PICK p \in Page : pt[e][v].page = {p}
  BY DEF Tables, Unmapped
<1>2. PageOf(e, v) = p
  BY <1>1 DEF PageOf
<1>3. pt[e][v] = [page |-> pt[e][v].page, perm |-> pt[e][v].perm]
  BY DEF Tables
<1> QED
  BY <1>1, <1>2, <1>3 DEF Map

\* do_tlb_mod: the handler is entered with the address and the place it came from, or
\* the kernel stops.
LEMMA DoTlbModDoes ==
  ASSUME Basics, NEW e \in Env, NEW v \in Own, do_tlb_mod(e, v)
  PROVE  /\ ~panic /\ UNCHANGED <<mem, pt, entry, view>>
         /\ frame[e].pc = "run" \/ (frame[e].pc \in InFork /\ v = Stack)
         /\ pt[e][v].perm = {"COW"}
         /\ \/ /\ entry[e] /\ UNCHANGED panic /\ Others(e)
               /\ frame'[e].pc = "cow_copy" /\ frame'[e].back = frame[e].pc /\ frame'[e].fault = v
               /\ Works1(frame'[e], frame[e])
            \/ ~entry[e] /\ panic' /\ UNCHANGED frame
<1>1. /\ ~panic /\ UNCHANGED <<mem, pt, entry, view>>
      /\ frame[e].pc = "run" \/ (frame[e].pc \in InFork /\ v = Stack)
  BY DEF do_tlb_mod, Writes
<1>2. pt[e][v].perm = {"COW"}
  BY VaFacts DEF do_tlb_mod, Writes, Basics, Perms
<1>3. CASE entry[e]
  <2> DEFINE g == [frame[e] EXCEPT !.pc = "cow_copy", !.back = frame[e].pc, !.fault = v]
  <2>1. frame' = [frame EXCEPT ![e] = g] /\ UNCHANGED panic
    BY <1>3 DEF do_tlb_mod, Basics, Frames
  <2>2. frame[e] \in Frame
    BY DEF Basics, Frames
  <2>3. g.pc = "cow_copy" /\ g.back = frame[e].pc /\ g.fault = v /\ Works1(g, frame[e])
    BY <2>2 DEF Frame, Works1
  <2> HIDE DEF g
  <2>4. frame'[e] = g /\ Others(e)
    BY <2>1 DEF Basics, Frames, Others
  <2> QED
    BY <1>1, <1>2, <1>3, <2>1, <2>3, <2>4
<1> QED
  BY <1>1, <1>2, <1>3 DEF do_tlb_mod

\* cow_entry, first part: a fresh page at UCOW with the content of the faulting one.
LEMMA CowCopyDoes ==
  ASSUME Basics, NEW e \in Env, cow_copy(e)
  PROVE  /\ ~panic /\ UNCHANGED <<entry, view>> /\ frame[e].pc = "cow_copy"
         /\ \/ NoMemory /\ panic' /\ UNCHANGED <<mem, pt, frame>>
            \/ /\ ~NoMemory /\ UNCHANGED panic /\ Others(e)
               /\ frame'[e].pc = "cow_map" /\ Works1(frame'[e], frame[e])
               /\ frame'[e].fault = frame[e].fault /\ frame'[e].back = frame[e].back
               /\ Only(e, UCOW, Map(NewPage(e, Fault(e)), {"D"}))
               /\ mem' = Filled(mem, NewPage(e, Fault(e)), mem[PageOf(e, Fault(e))])
<1>1. ~panic /\ UNCHANGED <<entry, view>> /\ frame[e].pc = "cow_copy"
  BY DEF cow_copy, At
<1>2. CowPerm(e) = {"D"}
  BY <1>1 DEF Basics, Places, PlacesOf, CowPerm, Fault
<1>3. CASE NoMemory
  BY <1>1, <1>3 DEF cow_copy
<1>4. CASE ~NoMemory
  <2>1. /\ pt' = [pt EXCEPT ![e][UCOW] = Map(NewPage(e, Fault(e)), {"D"})]
        /\ mem' = Filled(mem, NewPage(e, Fault(e)), mem[PageOf(e, Fault(e))])
        /\ Goto(e, "cow_map") /\ UNCHANGED panic
    BY <1>2, <1>4 DEF cow_copy
  <2> QED
    BY <1>1, <1>4, <2>1, GotoFields, OnlyCell, VaFacts DEF Basics
<1> QED
  BY <1>3, <1>4

\* cow_entry, second part: the page goes to its place.
LEMMA CowMapDoes ==
  ASSUME Basics, NEW e \in Env, cow_map(e)
  PROVE  /\ ~panic /\ UNCHANGED <<entry, view, panic>> /\ frame[e].pc = "cow_map" /\ Others(e)
         /\ frame'[e].pc = frame[e].back /\ Works1(frame'[e], frame[e])
         /\ pt' = [d \in Env |-> [w \in Va |->
              IF d = e /\ w = frame[e].fault THEN pt[e][UCOW]
              ELSE IF d = e /\ w = UCOW THEN Unmapped ELSE pt[d][w]]]
         /\ mem' = Kept(mem, pt')
<1>1. ~panic /\ UNCHANGED <<entry, view, panic>> /\ frame[e].pc = "cow_map" /\ mem' = Kept(mem, pt')
  BY DEF cow_map, At
<1>2. CowPerm(e) = {"D"}
  BY <1>1 DEF Basics, Places, PlacesOf, CowPerm, Fault
<1>3. pt[e][UCOW] = Map(PageOf(e, UCOW), {"D"})
  <2>1. pt[e][UCOW].page # {} /\ pt[e][UCOW].perm = {"D"}
    BY <1>1 DEF Basics, Temps, TempsOf
  <2>2. pt[e][UCOW] = Map(PageOf(e, UCOW), pt[e][UCOW].perm)
    BY <2>1, PageOfCell, VaFacts DEF Basics
  <2> QED
    BY <2>1, <2>2
<1>4. Fault(e) \in Own
  BY <1>1 DEF Basics, Frames, Sound, Fault
<1>5. pt' = [pt EXCEPT ![e][Fault(e)] = pt[e][UCOW], ![e][UCOW] = Unmapped]
  BY <1>2, <1>3 DEF cow_map
<1>6. pt' = [d \in Env |-> [w \in Va |->
              IF d = e /\ w = frame[e].fault THEN pt[e][UCOW]
              ELSE IF d = e /\ w = UCOW THEN Unmapped ELSE pt[d][w]]]
  <2>1. Tables /\ frame[e].fault \in Va /\ UCOW \in Va /\ frame[e].fault # UCOW
    BY <1>4, VaFacts DEF Fault, Basics
  <2>2. pt' = Written(e, frame[e].fault, pt[e][UCOW], e, UCOW, Unmapped)
    BY <1>5 DEF Fault, Written
  <2>3. pt' = Cells(e, frame[e].fault, pt[e][UCOW], e, UCOW, Unmapped)
    BY <2>1, <2>2, TwoCells
  <2> QED
    BY <2>3 DEF Cells
<1> DEFINE zero == 0
           g == [frame[e] EXCEPT !.pc = frame[e].back, !.back = "run", !.fault = zero]
<1>7. frame' = [frame EXCEPT ![e] = g]
  BY DEF cow_map
<1>8. frame[e] \in Frame
  BY DEF Basics, Frames
<1> HIDE DEF zero
<1>9. g.pc = frame[e].back /\ Works1(g, frame[e])
  BY <1>8 DEF Frame, Works1
<1> HIDE DEF g
<1> QED
  BY <1>1, <1>6, <1>7, <1>9 DEF Others, Basics, Frames

\* fork: the handler of the caller.
LEMMA CallForkDoes ==
  ASSUME Basics, NEW e \in Env, call_fork(e)
  PROVE  /\ ~panic /\ UNCHANGED <<mem, pt, view, panic>> /\ frame[e].pc = "run" /\ Others(e)
         /\ frame'[e].pc = "exofork" /\ Works1(frame'[e], frame[e])
         /\ entry' = [entry EXCEPT ![e] = TRUE]
  BY GotoFields DEF call_fork, At, Basics

\* fork goes on with the next page, or to its end.
Onward(e) ==
  /\ frame'[e].kid = frame[e].kid
  /\ \/ frame'[e].pc = "entry"
     \/ /\ frame'[e].pc = "dup" /\ frame'[e].va \in (Own \union Lib) \ {Fd}
        /\ pt[e][frame'[e].va].page # {}

\* fork goes on to its next page.
LEMMA OnwardStep ==
  ASSUME Basics, NEW e \in Env, NEW h \in Frame, frame[e].pc \in InFork,
         frame'[e] = NextPage(e, h)
  PROVE  frame'[e].kid = h.kid /\ (h.kid = frame[e].kid => Onward(e))
         /\ \/ frame'[e].pc = "entry"
            \/ /\ frame'[e].pc = "dup" /\ frame'[e].va \in (Own \union Lib) \ {Fd}
               /\ pt[e][frame'[e].va].page # {}
<1>1. pt[e][Fd].page = {}
  BY DEF Basics, Temps, TempsOf, Unmapped
<1> QED
  BY <1>1, NextPageFrame DEF Onward

\* syscall_exofork in fork.
LEMMA ExoforkDoes ==
  ASSUME Basics, NEW e \in Env, exofork(e)
  PROVE  /\ ~panic /\ UNCHANGED <<mem, pt, view, panic>> /\ frame[e].pc = "exofork" /\ frame[e].kid = {}
         /\ \/ frame'[e].pc = "entry"
            \/ /\ frame'[e].pc = "dup" /\ frame'[e].va \in (Own \union Lib) \ {Fd}
               /\ pt[e][frame'[e].va].page # {}
         /\ \/ Others(e) /\ frame'[e].kid = {} /\ UNCHANGED entry
            \/ \E k \in Env \ {e} :
                 /\ frame[k] = Free /\ frame'[k] = Embryo /\ OthersBut(e, {k}) /\ frame'[e].kid = {k}
                 /\ entry' = [entry EXCEPT ![k] = FALSE]
<1> DEFINE neg == -1
           h(K) == [frame[e] EXCEPT !.va = neg, !.kid = K]
<1>1. ~panic /\ UNCHANGED <<mem, pt, view, panic>> /\ frame[e].pc = "exofork"
  BY DEF exofork, At
<1>2. frame[e].kid = {} /\ frame[e] \in Frame
  BY <1>1 DEF Basics, Kids, Frames, Where, Place
<1>3. neg \in Int
  OBVIOUS
<1>4. \/ frame' = [frame EXCEPT ![e] = NextPage(e, h({}))] /\ UNCHANGED entry
      \/ \E k \in Env : /\ frame[k] = Free
                        /\ frame' = [frame EXCEPT ![k] = Embryo, ![e] = NextPage(e, h({k}))]
                        /\ entry' = [entry EXCEPT ![k] = FALSE]
  BY <1>1 DEF exofork, Basics, Frames
<1> HIDE DEF neg
<1>5. ASSUME NEW K \in SUBSET Env
      PROVE  h(K) \in Frame /\ h(K).kid = K
  BY <1>2, <1>3 DEF Frame
<1> HIDE DEF h
<1>6. CASE frame' = [frame EXCEPT ![e] = NextPage(e, h({}))] /\ UNCHANGED entry
  <2>1. frame'[e] = NextPage(e, h({})) /\ Others(e)
    BY <1>6 DEF Others, Basics, Frames
  <2>2. h({}) \in Frame /\ h({}).kid = {}
    BY <1>5
  <2> QED
    BY <1>1, <1>2, <1>6, <2>1, <2>2, OnwardStep
<1>7. ASSUME NEW k \in Env, frame[k] = Free, entry' = [entry EXCEPT ![k] = FALSE],
             frame' = [frame EXCEPT ![k] = Embryo, ![e] = NextPage(e, h({k}))]
      PROVE  /\ \/ frame'[e].pc = "entry"
                \/ /\ frame'[e].pc = "dup" /\ frame'[e].va \in (Own \union Lib) \ {Fd}
                   /\ pt[e][frame'[e].va].page # {}
             /\ k # e /\ frame'[k] = Embryo /\ OthersBut(e, {k}) /\ frame'[e].kid = {k}
  <2>1. k # e
    BY <1>1, <1>7, Starts
  <2>2. frame'[e] = NextPage(e, h({k})) /\ frame'[k] = Embryo /\ OthersBut(e, {k})
    BY <1>7, <2>1 DEF OthersBut, Basics, Frames
  <2>3. h({k}) \in Frame /\ h({k}).kid = {k}
    BY <1>5
  <2> QED
    BY <1>1, <2>1, <2>2, <2>3, OnwardStep
<1> QED
  BY <1>1, <1>2, <1>4, <1>6, <1>7

\* duppage reads the bits.
LEMMA DuppageDoes ==
  ASSUME Basics, NEW e \in Env, duppage(e)
  PROVE  /\ ~panic /\ UNCHANGED <<mem, pt, entry, view, panic>> /\ frame[e].pc = "dup" /\ Others(e)
         /\ frame[e].va = Stack => "D" \in pt[e][Stack].perm
         /\ frame'[e].pc = "dup_child" /\ frame'[e].kid = frame[e].kid /\ frame'[e].va = frame[e].va
         /\ frame'[e].perm = pt[e][frame[e].va].perm
<1> DEFINE p == pt[e][frame[e].va].perm
           g == [frame[e] EXCEPT !.pc = "dup_child", !.perm = p]
<1>1. /\ ~panic /\ UNCHANGED <<mem, pt, entry, view, panic>> /\ frame[e].pc = "dup"
      /\ frame[e].va = Stack => "D" \in pt[e][Stack].perm
  BY DEF duppage, At
<1>2. frame' = [frame EXCEPT ![e] = g]
  BY DEF duppage
<1>3. frame[e] \in Frame
  BY DEF Basics, Frames
<1>4. g.pc = "dup_child" /\ g.kid = frame[e].kid /\ g.va = frame[e].va /\ g.perm = p
  BY <1>3 DEF Frame
<1> HIDE DEF g
<1> QED
  BY <1>1, <1>2, <1>4 DEF Others, Basics, Frames

\* The child gets the page or not; duppage does not look.
LEMMA DuppageChildDoes ==
  ASSUME Basics, NEW e \in Env, duppage_child(e)
  PROVE  LET f == frame[e] IN
         /\ ~panic /\ UNCHANGED <<mem, entry, panic>> /\ f.pc = "dup_child" /\ Others(e)
         /\ f.va \in (Own \union Lib) \ {Fd} /\ pt[e][f.va].page # {} /\ f.perm = pt[e][f.va].perm
         /\ \/ f.perm = {"D"} /\ f.va \in Own /\ frame'[e].pc = "dup_parent" /\ Works1(frame'[e], f)
            \/ f.perm # {"D"} /\ Onward(e)
         /\ \/ UNCHANGED <<pt, view>>
            \/ /\ pt' = [d \in Env |-> [w \in Va |->
                    IF d \in f.kid /\ w = f.va
                    THEN Map(PageOf(e, f.va), IF f.perm = {"D"} THEN {"COW"} ELSE f.perm) ELSE pt[d][w]]]
               /\ view' = [k \in Env |-> IF k \in f.kid /\ f.va \in Own
                                  THEN [view[k] EXCEPT ![f.va] = view[e][f.va]] ELSE view[k]]
<1> DEFINE f == frame[e]
<1> HIDE DEF f
<1>1. ~panic /\ UNCHANGED <<mem, entry, panic>> /\ f.pc = "dup_child" /\ f \in Frame
  BY DEF duppage_child, At, f, Basics, Frames
<1>2. f.va \in (Own \union Lib) \ {Fd} /\ pt[e][f.va].page # {} /\ f.perm = pt[e][f.va].perm
  BY <1>1 DEF Basics, Places, PlacesOf, Where, Place, f
<1>3. f.va \in Own => f.perm \in {{}, {"D"}, {"COW"}}
  BY <1>2, VaFacts DEF Basics, Perms
<1>4. f.va \in Lib => f.perm = {"D", "LIB"}
  BY <1>2, VaFacts DEF Basics, Perms, Unmapped, Shared, Map
<1>5. Cow(f.perm) <=> f.perm = {"D"}
  BY <1>2, <1>3, <1>4 DEF Cow
<1>6. frame' = [frame EXCEPT ![e] = IF Cow(f.perm) THEN [f EXCEPT !.pc = "dup_parent"] ELSE NextPage(e, f)]
  BY DEF duppage_child, f
<1>7. Others(e)
  BY <1>6 DEF Others, Basics, Frames
<1>8. \/ f.perm = {"D"} /\ f.va \in Own /\ frame'[e].pc = "dup_parent" /\ Works1(frame'[e], f)
      \/ f.perm # {"D"} /\ Onward(e)
  <2>1. CASE f.perm = {"D"}
    <3> DEFINE g == [f EXCEPT !.pc = "dup_parent"]
    <3>1. frame'[e] = g
      BY <1>5, <1>6, <2>1 DEF Basics, Frames
    <3>2. g.pc = "dup_parent" /\ Works1(g, f)
      BY <1>1 DEF Frame, Works1
    <3> HIDE DEF g
    <3> QED
      BY <1>2, <1>4, <2>1, <3>1, <3>2
  <2>2. CASE f.perm # {"D"}
    <3>1. frame'[e] = NextPage(e, f)
      BY <1>5, <1>6, <2>2 DEF Basics, Frames
    <3> QED
      BY <1>1, <2>2, <3>1, OnwardStep DEF f
  <2> QED
    BY <2>1, <2>2
<1>9. \/ UNCHANGED <<pt, view>>
      \/ /\ pt' = [k \in Env |-> IF k \in f.kid
                                THEN [pt[k] EXCEPT ![f.va] = Map(PageOf(e, f.va), ChildPerm(f.perm))]
                                ELSE pt[k]]
         /\ view' = [k \in Env |-> IF k \in f.kid /\ f.va \in Own
                                  THEN [view[k] EXCEPT ![f.va] = view[e][f.va]] ELSE view[k]]
  BY DEF duppage_child, f
<1>10. ChildPerm(f.perm) = IF f.perm = {"D"} THEN {"COW"} ELSE f.perm
  BY <1>5 DEF ChildPerm
<1>11. ASSUME pt' = [k \in Env |-> IF k \in f.kid
                                THEN [pt[k] EXCEPT ![f.va] = Map(PageOf(e, f.va), ChildPerm(f.perm))]
                                ELSE pt[k]]
       PROVE  pt' = [d \in Env |-> [w \in Va |->
                    IF d \in f.kid /\ w = f.va
                    THEN Map(PageOf(e, f.va), ChildPerm(f.perm)) ELSE pt[d][w]]]
  <2> DEFINE m == Map(PageOf(e, f.va), ChildPerm(f.perm))
  <2>1. f.va \in Va
    BY <1>2, VaFacts
  <2>2. pt' = [k \in Env |-> IF k \in f.kid THEN [pt[k] EXCEPT ![f.va] = m] ELSE pt[k]]
    BY <1>11
  <2>3. \A k \in Env : pt[k] = [w \in Va |-> pt[k][w]]
    BY DEF Basics, Tables
  <2> HIDE DEF m
  <2>4. \A k \in Env : [pt[k] EXCEPT ![f.va] = m] = [w \in Va |-> IF w = f.va THEN m ELSE pt[k][w]]
    BY <2>1, <2>3
  <2>5. \A k \in Env : (IF k \in f.kid THEN [pt[k] EXCEPT ![f.va] = m] ELSE pt[k])
                     = [w \in Va |-> IF k \in f.kid /\ w = f.va THEN m ELSE pt[k][w]]
    BY <2>3, <2>4
  <2>6. pt' = [k \in Env |-> [w \in Va |-> IF k \in f.kid /\ w = f.va THEN m ELSE pt[k][w]]]
    BY <2>2, <2>5
  <2> QED
    BY <2>6 DEF m
<1>12. CASE UNCHANGED <<pt, view>>
  BY <1>1, <1>2, <1>7, <1>8, <1>12 DEF f
<1>13. CASE ~UNCHANGED <<pt, view>>
  <2>1. /\ pt' = [d \in Env |-> [w \in Va |->
                    IF d \in f.kid /\ w = f.va
                    THEN Map(PageOf(e, f.va), ChildPerm(f.perm)) ELSE pt[d][w]]]
        /\ view' = [k \in Env |-> IF k \in f.kid /\ f.va \in Own
                                  THEN [view[k] EXCEPT ![f.va] = view[e][f.va]] ELSE view[k]]
    BY <1>9, <1>11, <1>13, Zenon
  <2> QED
    BY <1>1, <1>2, <1>7, <1>8, <1>10, <2>1 DEF f
<1> QED
  BY <1>12, <1>13

\* duppage freezes the parent's page.
LEMMA DuppageParentDoes ==
  ASSUME Basics, NEW e \in Env, duppage_parent(e)
  PROVE  LET f == frame[e] IN
         /\ ~panic /\ UNCHANGED <<mem, entry, panic>> /\ f.pc = "dup_parent" /\ Others(e) /\ Onward(e)
         /\ f.va \in Own /\ pt[e][f.va].page # {} /\ pt[e][f.va].perm = {"D"}
         /\ Only(e, f.va, Map(PageOf(e, f.va), {"COW"}))
         /\ view' = [k \in Env |-> IF k \in f.kid /\ view[k][f.va] # <<>>
                            THEN [view[k] EXCEPT ![f.va] = view[e][f.va]] ELSE view[k]]
<1> DEFINE f == frame[e]
<1> HIDE DEF f
<1>1. ~panic /\ UNCHANGED <<mem, entry, panic>> /\ f.pc = "dup_parent" /\ f \in Frame
  BY DEF duppage_parent, At, f, Basics, Frames
<1>2. f.va \in Own /\ pt[e][f.va].page # {} /\ pt[e][f.va].perm = {"D"}
  BY <1>1 DEF Basics, Places, PlacesOf, Where, Place, f
<1>3. /\ pt' = [pt EXCEPT ![e][f.va] = Map(PageOf(e, f.va), {"COW"})]
      /\ view' = [k \in Env |-> IF k \in f.kid /\ view[k][f.va] # <<>>
                            THEN [view[k] EXCEPT ![f.va] = view[e][f.va]] ELSE view[k]]
      /\ frame' = [frame EXCEPT ![e] = NextPage(e, f)]
  BY DEF duppage_parent, f
<1>4. frame'[e] = NextPage(e, f) /\ Others(e)
  BY <1>3 DEF Others, Basics, Frames
<1>5. Onward(e)
  BY <1>1, <1>4, OnwardStep DEF f
<1>6. Only(e, f.va, Map(PageOf(e, f.va), {"COW"}))
  BY <1>2, <1>3, OnlyCell, VaFacts DEF Basics
<1> QED
  BY <1>1, <1>2, <1>3, <1>4, <1>5, <1>6 DEF f

\* fork registers the child's handler.
LEMMA SetEntryDoes ==
  ASSUME Basics, NEW e \in Env, set_entry(e)
  PROVE  /\ ~panic /\ UNCHANGED <<mem, pt, view, panic>> /\ frame[e].pc = "entry" /\ Others(e)
         /\ frame'[e].pc = "runnable" /\ Works1(frame'[e], frame[e])
         /\ entry' = [k \in Env |-> entry[k] \/ k \in frame[e].kid]
  BY GotoFields DEF set_entry, At, Basics

\* fork starts the child.
LEMMA SetRunnableDoes ==
  ASSUME Basics, NEW e \in Env, set_runnable(e)
  PROVE  /\ ~panic /\ UNCHANGED <<mem, pt, entry, view, panic>> /\ frame[e].pc = "runnable"
         /\ frame'[e] = Running /\ (\A k \in frame[e].kid : frame'[k] = Running)
         /\ OthersBut(e, frame[e].kid)
<1>1. frame[e] \in Frame
  BY DEF Basics, Frames
<1>2. frame[e].kid \subseteq Env /\ \A k \in frame[e].kid : frame[k] = Embryo
  BY <1>1 DEF Frame, Basics, Kids
<1> QED
  BY <1>2 DEF set_runnable, At, OthersBut

\* env_free: nothing of the process is left, and its unfinished child is an orphan.
LEMMA EnvFreeDoes ==
  ASSUME Basics, NEW e \in Env, env_free(e)
  PROVE  /\ ~panic /\ UNCHANGED panic /\ Alive(e)
         /\ frame'[e] = Free /\ (\A k \in frame[e].kid : frame'[k] = Orphan)
         /\ OthersBut(e, frame[e].kid) /\ e \notin frame[e].kid /\ frame[e].kid \subseteq Env
         /\ pt' = [d \in Env |-> [w \in Va |-> IF d = e THEN Unmapped ELSE pt[d][w]]]
         /\ pt'[e] = NoPages
         /\ mem' = Kept(mem, pt') /\ view' = [view EXCEPT ![e] = Given] /\ entry' = [entry EXCEPT ![e] = FALSE]
<1>1. frame[e] \in Frame
  BY DEF Basics, Frames
<1>2. frame[e].kid \subseteq Env /\ \A k \in frame[e].kid : frame[k] = Embryo
  BY <1>1 DEF Frame, Basics, Kids
<1>3. e \notin frame[e].kid
  BY <1>2, Starts DEF env_free, Alive
<1>4. pt' = [pt EXCEPT ![e] = NoPages]
  BY DEF env_free
<1>5. /\ pt' = [d \in Env |-> [w \in Va |-> IF d = e THEN Unmapped ELSE pt[d][w]]]
      /\ pt'[e] = NoPages
  BY <1>4 DEF NoPages, Basics, Tables
<1>6. /\ frame'[e] = Free /\ (\A k \in frame[e].kid : frame'[k] = Orphan)
      /\ OthersBut(e, frame[e].kid)
  BY <1>2, <1>3 DEF env_free, OthersBut
<1> QED
  BY <1>2, <1>3, <1>5, <1>6 DEF env_free

\* spawn opens the file.
LEMMA SpawnDoes ==
  ASSUME Basics, NEW e \in Env, NEW p \in Programs, spawn(e, p)
  PROVE  /\ ~panic /\ UNCHANGED <<entry, view, panic>> /\ frame[e].pc = "run" /\ ~NoMemory
         /\ Others(e) /\ frame'[e].pc = "header" /\ frame'[e].kid = frame[e].kid
         /\ Only(e, Fd, Map(NewPage(e, Fd), {"D", "LIB"}))
         /\ mem' = Filled(mem, NewPage(e, Fd), Zeros)
<1> DEFINE g == [frame[e] EXCEPT !.pc = "header", !.prog = p]
<1>1. /\ ~panic /\ UNCHANGED <<entry, view, panic>> /\ frame[e].pc = "run" /\ ~NoMemory
      /\ mem' = Filled(mem, NewPage(e, Fd), Zeros)
  BY DEF spawn, At
<1>2. Only(e, Fd, Map(NewPage(e, Fd), {"D", "LIB"}))
  BY OnlyCell, VaFacts DEF spawn, Basics
<1>3. frame[e] \in Frame
  BY DEF Basics, Frames
<1>4. frame' = [frame EXCEPT ![e] = g]
  BY DEF spawn, Step
<1>5. g.pc = "header" /\ g.kid = frame[e].kid
  BY <1>3 DEF Frame
<1> HIDE DEF g
<1> QED
  BY <1>1, <1>2, <1>4, <1>5 DEF Others, Basics, Frames

\* syscall_exofork in spawn.
LEMMA SpawnExoforkDoes ==
  ASSUME Basics, NEW e \in Env, spawn_exofork(e)
  PROVE  /\ ~panic /\ UNCHANGED <<mem, pt, entry, view, panic>> /\ frame[e].pc = "header"
         /\ frame[e].kid = {} /\ frame'[e].pc \in {"err", "stack"}
         /\ \/ Others(e) /\ frame'[e].kid = {}
            \/ \E k \in Env \ {e} :
                 frame[k] = Free /\ frame'[k] = Embryo /\ OthersBut(e, {k}) /\ frame'[e].kid = {k}
<1>1. ~panic /\ UNCHANGED <<mem, pt, entry, view, panic>> /\ frame[e].pc = "header"
  BY DEF spawn_exofork, At
<1>2. frame[e].kid = {} /\ frame[e] \in Frame
  BY <1>1 DEF Basics, Kids, Frames, Where, Place
<1>3. CASE To(e, "err") \/ To(e, "stack")
  BY <1>1, <1>2, <1>3, GotoFields DEF Basics, Works1
<1>4. ASSUME NEW k \in Env, frame[k] = Free,
             frame' = [frame EXCEPT ![k] = Embryo, ![e].pc = "stack", ![e].kid = {k}]
      PROVE  /\ k # e /\ frame'[k] = Embryo /\ OthersBut(e, {k}) /\ frame'[e].kid = {k}
             /\ frame'[e].pc = "stack"
  <2> DEFINE g == [frame[e] EXCEPT !.pc = "stack", !.kid = {k}]
  <2>1. k # e
    BY <1>1, <1>4, Starts
  <2>2. frame'[e] = g /\ frame'[k] = Embryo /\ OthersBut(e, {k})
    BY <1>4, <2>1 DEF OthersBut, Basics, Frames
  <2>3. g.pc = "stack" /\ g.kid = {k}
    BY <1>2 DEF Frame
  <2> HIDE DEF g
  <2> QED
    BY <2>1, <2>2, <2>3
<1> QED
  BY <1>1, <1>2, <1>3, <1>4 DEF spawn_exofork

\* init_stack fills a page at UTEMP.
LEMMA InitStackDoes ==
  ASSUME Basics, NEW e \in Env, init_stack(e)
  PROVE  /\ ~panic /\ UNCHANGED <<entry, view, panic>> /\ frame[e].pc = "stack"
         /\ Others(e) /\ Works1(frame'[e], frame[e])
         /\ \/ UNCHANGED <<mem, pt>> /\ frame'[e].pc = "err1"
            \/ /\ ~NoMemory /\ frame'[e].pc = "stack_map"
               /\ Only(e, UTEMP, Map(NewPage(e, UTEMP), {"D"}))
               /\ mem' = Filled(mem, NewPage(e, UTEMP), frame[e].prog.args)
<1>1. ~panic /\ UNCHANGED <<entry, view, panic>> /\ frame[e].pc = "stack"
  BY DEF init_stack, At
<1>2. CASE To(e, "err1") /\ UNCHANGED <<mem, pt>>
  BY <1>1, <1>2, GotoFields DEF Basics
<1>3. CASE /\ ~NoMemory /\ To(e, "stack_map")
           /\ pt' = [pt EXCEPT ![e][UTEMP] = Map(NewPage(e, UTEMP), {"D"})]
           /\ mem' = Filled(mem, NewPage(e, UTEMP), frame[e].prog.args)
  BY <1>1, <1>3, GotoFields, OnlyCell, VaFacts DEF Basics
<1> QED
  BY <1>2, <1>3 DEF init_stack

\* The child of a process that is loading a program.
LEMMA TheKid ==
  ASSUME Basics, NEW e \in Env, frame[e].kid # {}
  PROVE  Kid(e) \in Env /\ Kid(e) # e /\ frame[e].kid = {Kid(e)} /\ frame[Kid(e)] = Embryo
<1>1. frame[e] \in Frame
  BY DEF Basics, Frames
<1>2. frame[e].kid \subseteq Env /\ Kid(e) \in frame[e].kid
  BY <1>1 DEF Frame, Kid
<1>3. \A j, k \in Env : j \in frame[e].kid /\ k \in frame[e].kid => j = k
  BY DEF Basics, Kids
<1>4. frame[Kid(e)] = Embryo
  BY <1>2 DEF Basics, Kids
<1>5. Where(e) # "embryo"
  BY DEF Basics, Kids
<1>6. frame[e].pc # "embryo"
  BY <1>5 DEF Where, Place
<1> QED
  BY <1>2, <1>3, <1>4, <1>6, Starts

\* init_stack moves that page to the child.
LEMMA InitStackMapDoes ==
  ASSUME Basics, NEW e \in Env, init_stack_map(e)
  PROVE  /\ ~panic /\ UNCHANGED <<entry, view, panic>> /\ frame[e].pc = "stack_map"
         /\ mem' = Kept(mem, pt') /\ Others(e) /\ frame'[e].kid = frame[e].kid /\ frame'[e].prog = frame[e].prog
         /\ pt[e][UTEMP].page # {} /\ pt[e][UTEMP].perm = {"D"}
         /\ \/ frame'[e].pc = "err1" /\ Only(e, UTEMP, Unmapped)
            \/ /\ frame'[e].pc = "load" /\ frame'[e].todo = Calls(frame[e].prog) /\ frame[e].kid # {}
               /\ pt' = [d \in Env |-> [w \in Va |->
                    IF d = Kid(e) /\ w = Stack THEN pt[e][UTEMP]
                    ELSE IF d = e /\ w = UTEMP THEN Unmapped ELSE pt[d][w]]]
<1>1. ~panic /\ UNCHANGED <<entry, view, panic>> /\ frame[e].pc = "stack_map" /\ mem' = Kept(mem, pt')
  BY DEF init_stack_map, At
<1>2. pt[e][UTEMP].page # {} /\ pt[e][UTEMP].perm = {"D"}
  BY <1>1 DEF Basics, Temps, TempsOf
<1>3. CASE To(e, "err1") /\ pt' = [pt EXCEPT ![e][UTEMP] = Unmapped]
  BY <1>1, <1>2, <1>3, GotoFields, OnlyCell, VaFacts DEF Basics, Works1
<1>4. CASE /\ frame[e].kid # {} /\ Step(e, [frame[e] EXCEPT !.pc = "load", !.todo = Calls(frame[e].prog)])
           /\ pt' = [pt EXCEPT ![Kid(e)][Stack] = Map(PageOf(e, UTEMP), {"D"}), ![e][UTEMP] = Unmapped]
  <2> DEFINE calls == Calls(frame[e].prog)
             g == [frame[e] EXCEPT !.pc = "load", !.todo = calls]
  <2>1. frame[e] \in Frame
    BY DEF Basics, Frames
  <2>2. frame' = [frame EXCEPT ![e] = g]
    BY <1>4 DEF Step
  <2> HIDE DEF calls
  <2>3. g.pc = "load" /\ g.todo = calls /\ g.kid = frame[e].kid /\ g.prog = frame[e].prog
    BY <2>1 DEF Frame
  <2> HIDE DEF g
  <2>4. frame'[e] = g /\ Others(e)
    BY <2>2 DEF Others, Basics, Frames
  <2>5. Kid(e) \in Env /\ Kid(e) # e
    BY <1>4, TheKid
  <2>6. pt[e][UTEMP] = Map(PageOf(e, UTEMP), pt[e][UTEMP].perm)
    BY <1>2, PageOfCell, VaFacts DEF Basics
  <2>7. pt' = [pt EXCEPT ![Kid(e)][Stack] = pt[e][UTEMP], ![e][UTEMP] = Unmapped]
    BY <1>2, <1>4, <2>6
  <2>8. pt' = [d \in Env |-> [w \in Va |->
                    IF d = Kid(e) /\ w = Stack THEN pt[e][UTEMP]
                    ELSE IF d = e /\ w = UTEMP THEN Unmapped ELSE pt[d][w]]]
    <3>1. Tables /\ Stack \in Va /\ UTEMP \in Va
      BY VaFacts DEF Basics
    <3>2. pt' = Written(Kid(e), Stack, pt[e][UTEMP], e, UTEMP, Unmapped)
      BY <2>7 DEF Written
    <3>3. pt' = Cells(Kid(e), Stack, pt[e][UTEMP], e, UTEMP, Unmapped)
      BY <2>5, <3>1, <3>2, TwoCells
    <3> QED
      BY <3>3 DEF Cells
  <2> QED
    BY <1>1, <1>2, <1>4, <2>3, <2>4, <2>8 DEF calls
<1> QED
  BY <1>3, <1>4 DEF init_stack_map, Works

\* The next call of the mapper is for a private page below the stack.
LEMMA Next1Call ==
  ASSUME Basics, NEW e \in Env, frame[e].todo # <<>>
  PROVE  Next1(e).page \in Own \ {Stack} /\ Next1(e).page \in Va /\ Next1(e).perm \in SUBSET {"D"}
<1>1. frame[e] \in Frame
  BY DEF Basics, Frames
<1>2. frame[e].todo \in Seq(LoadCall)
  BY <1>1 DEF Frame
<1>3. Next1(e) \in LoadCall
  BY <1>2 DEF Next1
<1> QED
  BY <1>3, VaFacts DEF LoadCall

\* The mapper has returned.
LEMMA Done1Fields ==
  ASSUME Basics, NEW e \in Env, Step(e, Done1(e))
  PROVE  /\ Others(e) /\ frame'[e].pc = "load" /\ frame'[e].todo = Tail(frame[e].todo)
         /\ frame'[e].kid = frame[e].kid /\ frame'[e].prog = frame[e].prog
<1> DEFINE rest == Tail(frame[e].todo)
           g == [frame[e] EXCEPT !.pc = "load", !.todo = rest]
<1>1. frame[e] \in Frame
  BY DEF Basics, Frames
<1>2. frame' = [frame EXCEPT ![e] = g]
  BY <1>1 DEF Step, Done1
<1> HIDE DEF rest
<1>3. g.pc = "load" /\ g.todo = rest /\ g.kid = frame[e].kid /\ g.prog = frame[e].prog
  BY <1>1 DEF Frame
<1> HIDE DEF g
<1> QED
  BY <1>2, <1>3 DEF Others, Basics, Frames, rest

\* spawn_mapper: a fresh page of zeros for the child.
LEMMA SpawnMapperDoes ==
  ASSUME Basics, NEW e \in Env, spawn_mapper(e)
  PROVE  LET new == NewPage(Kid(e), Next1(e).page) IN
         /\ ~panic /\ UNCHANGED <<entry, view, panic>> /\ frame[e].pc = "load" /\ frame[e].todo # <<>>
         /\ frame[e].kid # {} /\ Others(e)
         /\ frame'[e].kid = frame[e].kid /\ frame'[e].prog = frame[e].prog
         /\ \/ frame'[e].pc = "err1" /\ UNCHANGED <<mem, pt>>
            \/ /\ ~NoMemory /\ Only(Kid(e), Next1(e).page, Map(new, Next1(e).perm))
               /\ mem' = Kept(Filled(mem, new, Zeros), pt')
               /\ \/ /\ Next1(e).bytes = <<>> /\ frame'[e].pc = "load"
                     /\ frame'[e].todo = Tail(frame[e].todo)
                  \/ /\ Next1(e).bytes # <<>> /\ frame'[e].pc = "load_map"
                     /\ frame'[e].todo = frame[e].todo
<1> DEFINE new == NewPage(Kid(e), Next1(e).page)
<1>1. ~panic /\ UNCHANGED <<entry, view, panic>> /\ frame[e].pc = "load" /\ frame[e].todo # <<>>
  BY DEF spawn_mapper, At
<1>2. frame[e].kid # {}
  BY <1>1 DEF Basics, Kids
<1>3. CASE To(e, "err1") /\ UNCHANGED <<mem, pt>>
  BY <1>1, <1>2, <1>3, GotoFields DEF Basics, Works1
<1>4. CASE /\ ~NoMemory
           /\ pt' = [pt EXCEPT ![Kid(e)][Next1(e).page] = Map(new, Next1(e).perm)]
           /\ mem' = Kept(Filled(mem, new, Zeros), pt')
           /\ Step(e, IF Next1(e).bytes = <<>> THEN Done1(e) ELSE [frame[e] EXCEPT !.pc = "load_map"])
  <2>1. Only(Kid(e), Next1(e).page, Map(new, Next1(e).perm))
    BY <1>1, <1>2, <1>4, OnlyCell, TheKid, Next1Call DEF Basics
  <2>2. CASE Next1(e).bytes = <<>>
    BY <1>1, <1>2, <1>4, <2>1, <2>2, Done1Fields
  <2>3. CASE Next1(e).bytes # <<>>
    <3>1. To(e, "load_map")
      BY <1>4, <2>3 DEF To
    <3> QED
      BY <1>1, <1>2, <1>4, <2>1, <2>3, <3>1, GotoFields DEF Basics, Works1
  <2> QED
    BY <2>2, <2>3
<1> QED
  BY <1>3, <1>4 DEF spawn_mapper

\* spawn_mapper: the page at UTEMP too.
LEMMA MapperMapDoes ==
  ASSUME Basics, NEW e \in Env, mapper_map(e)
  PROVE  /\ ~panic /\ UNCHANGED <<entry, view, panic>> /\ frame[e].pc = "load_map" /\ frame[e].todo # <<>>
         /\ frame[e].kid # {} /\ Others(e) /\ mem' = Kept(mem, pt') /\ Works1(frame'[e], frame[e])
         /\ \/ frame'[e].pc = "err1" /\ Only(Kid(e), Next1(e).page, Unmapped)
            \/ /\ frame'[e].pc = "load_copy"
               /\ Only(e, UTEMP, Map(PageOf(Kid(e), Next1(e).page), {"D"}))
<1>1. /\ ~panic /\ UNCHANGED <<entry, view, panic>> /\ frame[e].pc = "load_map"
      /\ mem' = Kept(mem, pt')
  BY DEF mapper_map, At
<1>2. frame[e].kid # {} /\ frame[e].todo # <<>>
  BY <1>1 DEF Basics, Kids, Frames, Sound
<1>3. Kid(e) \in Env /\ Next1(e).page \in Va /\ Next1(e).perm \union {"D"} = {"D"}
  BY <1>2, TheKid, Next1Call
<1>4. CASE To(e, "err1") /\ pt' = [pt EXCEPT ![Kid(e)][Next1(e).page] = Unmapped]
  BY <1>1, <1>2, <1>3, <1>4, GotoFields, OnlyCell DEF Basics
<1>5. CASE /\ To(e, "load_copy")
           /\ pt' = [pt EXCEPT ![e][UTEMP] =
                       Map(PageOf(Kid(e), Next1(e).page), Next1(e).perm \union {"D"})]
  BY <1>1, <1>2, <1>3, <1>5, GotoFields, OnlyCell, VaFacts DEF Basics
<1> QED
  BY <1>4, <1>5 DEF mapper_map

\* spawn_mapper: the bytes of the file, and UTEMP is unmapped.
LEMMA MapperCopyDoes ==
  ASSUME Basics, NEW e \in Env, mapper_copy(e)
  PROVE  LET c == Next1(e) IN
         /\ ~panic /\ UNCHANGED <<entry, view, panic>> /\ frame[e].pc = "load_copy" /\ frame[e].todo # <<>>
         /\ frame[e].kid # {} /\ Others(e) /\ frame'[e].pc = "load" /\ frame'[e].todo = Tail(frame[e].todo)
         /\ frame'[e].kid = frame[e].kid /\ frame'[e].prog = frame[e].prog
         /\ Only(e, UTEMP, Unmapped)
         /\ mem' = [mem EXCEPT ![PageOf(e, UTEMP)] =
               [i \in 1 .. PAGE_SIZE |->
                  IF i - c.offset \in DOMAIN c.bytes THEN c.bytes[i - c.offset] ELSE @[i]]]
<1>1. ~panic /\ UNCHANGED <<entry, view, panic>> /\ frame[e].pc = "load_copy"
  BY DEF mapper_copy, At
<1>2. frame[e].kid # {} /\ frame[e].todo # <<>>
  BY <1>1 DEF Basics, Kids, Frames, Sound
<1>3. Only(e, UTEMP, Unmapped)
  BY OnlyCell, VaFacts DEF mapper_copy, Basics
<1>4. /\ Others(e) /\ frame'[e].pc = "load" /\ frame'[e].todo = Tail(frame[e].todo)
      /\ frame'[e].kid = frame[e].kid /\ frame'[e].prog = frame[e].prog
  BY Done1Fields DEF mapper_copy
<1> QED
  BY <1>1, <1>2, <1>3, <1>4 DEF mapper_copy

\* spawn goes on with the next shared page after a, or to its end.
Sharing(e, a) ==
  /\ frame'[e].kid = frame[e].kid /\ frame'[e].prog = frame[e].prog /\ frame'[e].todo = frame[e].todo
  /\ \/ /\ frame'[e].pc = "start"
        /\ \A w \in Lib : w > a => "LIB" \notin pt'[e][w].perm
     \/ /\ frame'[e].pc = "share"
        /\ frame'[e].va \in Lib /\ frame'[e].va > a
        /\ "LIB" \in pt'[e][frame'[e].va].perm
        /\ \A w \in Lib : w > a /\ w < frame'[e].va => "LIB" \notin pt'[e][w].perm

\* spawn closes the file.
LEMMA SpawnCloseDoes ==
  ASSUME Basics, NEW e \in Env, spawn_close(e)
  PROVE  /\ ~panic /\ UNCHANGED <<entry, view, panic>> /\ frame[e].pc = "load" /\ frame[e].todo = <<>>
         /\ frame[e].kid # {} /\ Others(e) /\ mem' = Kept(mem, pt')
         /\ Only(e, Fd, Unmapped) /\ Sharing(e, -1)
<1> DEFINE neg == -1
           h == [frame[e] EXCEPT !.va = neg]
<1>1. /\ ~panic /\ UNCHANGED <<entry, view, panic>> /\ frame[e].pc = "load" /\ frame[e].todo = <<>>
      /\ mem' = Kept(mem, pt')
  BY DEF spawn_close, At
<1>2. frame[e].kid # {} /\ frame[e] \in Frame
  BY <1>1 DEF Basics, Kids, Frames
<1>3. Only(e, Fd, Unmapped)
  BY OnlyCell, VaFacts DEF spawn_close, Basics
<1>4. frame' = [frame EXCEPT ![e] = NextShared(h, pt'[e])]
  BY DEF spawn_close, Step
<1>5. neg \in Int /\ neg = -1
  OBVIOUS
<1> HIDE DEF neg
<1>6. h \in Frame /\ h.kid = frame[e].kid /\ h.prog = frame[e].prog /\ h.todo = frame[e].todo /\ h.va = neg
  BY <1>2, <1>5 DEF Frame
<1> HIDE DEF h
<1>7. frame'[e] = NextShared(h, pt'[e]) /\ Others(e)
  BY <1>4 DEF Others, Basics, Frames
<1>8. Sharing(e, neg)
  BY <1>6, <1>7, NextSharedFrame DEF Sharing
<1> QED
  BY <1>1, <1>2, <1>3, <1>5, <1>7, <1>8

\* spawn shares a page with PTE_LIBRARY.
LEMMA ShareDoes ==
  ASSUME Basics, NEW e \in Env, share(e)
  PROVE  /\ ~panic /\ UNCHANGED <<mem, entry, view, panic>> /\ frame[e].pc = "share"
         /\ frame[e].kid # {} /\ Others(e) /\ frame[e].va \in Lib \ {Fd}
         /\ \/ frame'[e].pc = "err2" /\ UNCHANGED pt /\ Works1(frame'[e], frame[e])
            \/ Only(Kid(e), frame[e].va, pt[e][frame[e].va]) /\ Sharing(e, frame[e].va)
<1>1. ~panic /\ UNCHANGED <<mem, entry, view, panic>> /\ frame[e].pc = "share"
  BY DEF share, At
<1>2. frame[e].kid # {} /\ frame[e] \in Frame /\ frame[e].va \in Lib \ {Fd}
  BY <1>1 DEF Basics, Kids, Frames, Places, PlacesOf
<1>3. CASE To(e, "err2") /\ UNCHANGED pt
  BY <1>1, <1>2, <1>3, GotoFields DEF Basics
<1>4. CASE /\ Step(e, NextShared(frame[e], pt[e]))
           /\ pt' = [pt EXCEPT ![Kid(e)][frame[e].va] = pt[e][frame[e].va]]
  <2>1. Only(Kid(e), frame[e].va, pt[e][frame[e].va])
    BY <1>2, <1>4, OnlyCell, TheKid, VaFacts DEF Basics
  <2>2. pt'[e] = pt[e]
    BY <1>2, <1>4, TheKid DEF Basics, Tables
  <2>3. frame'[e] = NextShared(frame[e], pt'[e]) /\ Others(e)
    BY <1>4, <2>2 DEF Others, Basics, Frames, Step
  <2>4. Sharing(e, frame[e].va)
    BY <1>2, <2>3, NextSharedFrame DEF Sharing
  <2> QED
    BY <1>1, <1>2, <2>1, <2>3, <2>4
<1> QED
  BY <1>3, <1>4 DEF share

\* spawn starts the child.
LEMMA StartDoes ==
  ASSUME Basics, NEW e \in Env, start(e)
  PROVE  /\ ~panic /\ UNCHANGED <<mem, pt, entry, panic>> /\ frame[e].pc = "start"
         /\ frame[e].kid # {} /\ frame'[e] = Running /\ frame'[Kid(e)] = Running
         /\ OthersBut(e, {Kid(e)})
         /\ view' = [view EXCEPT ![Kid(e)] = [v \in Own |-> Image(frame[e].prog, v)]]
<1>1. ~panic /\ UNCHANGED <<mem, pt, entry, panic>> /\ frame[e].pc = "start"
  BY DEF start, At
<1>2. frame[e].kid # {}
  BY <1>1 DEF Basics, Kids
<1>3. frame' = [frame EXCEPT ![e] = Running, ![Kid(e)] = Running]
  BY DEF start
<1>4. frame'[e] = Running /\ frame'[Kid(e)] = Running /\ OthersBut(e, {Kid(e)})
  BY <1>2, <1>3, TheKid DEF OthersBut, Basics, Frames
<1> QED
  BY <1>1, <1>2, <1>4 DEF start

\* err1, err2: the child is free again.
LEMMA DestroyDoes ==
  ASSUME Basics, NEW e \in Env, destroy(e)
  PROVE  /\ ~panic /\ UNCHANGED <<entry, view, panic>> /\ frame[e].pc \in {"err1", "err2"}
         /\ frame'[e].kid = {} /\ frame'[e].pc = IF frame[e].pc = "err1" THEN "err" ELSE "run"
         /\ (\A k \in frame[e].kid : frame'[k] = Free) /\ OthersBut(e, frame[e].kid)
         /\ e \notin frame[e].kid /\ frame[e].kid \subseteq Env
         /\ pt' = [d \in Env |-> [w \in Va |-> IF d \in frame[e].kid THEN Unmapped ELSE pt[d][w]]]
         /\ \A d \in frame[e].kid : pt'[d] = NoPages
         /\ mem' = Kept(mem, pt')
<1> DEFINE none == {}
           h == [frame[e] EXCEPT !.pc = "err", !.kid = none]
<1>1. ~panic /\ UNCHANGED <<entry, view, panic>> /\ frame[e].pc \in {"err1", "err2"} /\ mem' = Kept(mem, pt')
  BY DEF destroy, At
<1>2. frame[e] \in Frame
  BY DEF Basics, Frames
<1>3. frame[e].kid \subseteq Env /\ e \notin frame[e].kid
  BY <1>1, <1>2, Starts DEF Frame, Basics, Kids
<1>4. /\ pt' = [d \in Env |-> [w \in Va |-> IF d \in frame[e].kid THEN Unmapped ELSE pt[d][w]]]
      /\ \A d \in frame[e].kid : pt'[d] = NoPages
  BY <1>3 DEF destroy, KidGone, NoPages, Basics, Tables
<1>5. /\ frame'[e] = IF frame[e].pc = "err1" THEN h ELSE Running
      /\ \A k \in frame[e].kid : frame'[k] = Free
      /\ OthersBut(e, frame[e].kid)
  BY <1>3 DEF destroy, OthersBut
<1>6. none = {}
  OBVIOUS
<1> HIDE DEF none
<1>7. h.pc = "err" /\ h.kid = none
  BY <1>2 DEF Frame
<1> HIDE DEF h
<1> QED
  BY <1>1, <1>3, <1>4, <1>5, <1>6, <1>7, Starts

\* err: the file is closed.
LEMMA ErrDoes ==
  ASSUME Basics, NEW e \in Env, err(e)
  PROVE  /\ ~panic /\ UNCHANGED <<entry, view, panic>> /\ frame[e].pc = "err" /\ frame[e].kid = {}
         /\ Others(e) /\ frame'[e] = Running /\ Only(e, Fd, Unmapped) /\ mem' = Kept(mem, pt')
<1>1. ~panic /\ UNCHANGED <<entry, view, panic>> /\ frame[e].pc = "err" /\ mem' = Kept(mem, pt')
  BY DEF err, At
<1>2. frame[e].kid = {}
  BY <1>1 DEF Basics, Kids, Where, Place
<1>3. Only(e, Fd, Unmapped)
  BY OnlyCell, VaFacts DEF err, Basics
<1>4. Others(e) /\ frame'[e] = Running
  BY DEF err, Step, Others, Basics, Frames
<1> QED
  BY <1>1, <1>2, <1>3, <1>4

\* A write to a private page that has PTE_D.
LEMMA WriteDoes ==
  ASSUME Basics, NEW e \in Env, NEW v \in Own, NEW x, write(e, v, x)
  PROVE  /\ ~panic /\ UNCHANGED <<pt, entry, frame, panic>>
         /\ frame[e].pc = "run" \/ (frame[e].pc \in InFork /\ v = Stack)
         /\ "D" \in pt[e][v].perm /\ pt[e][v].page # {}
         /\ mem' = [mem EXCEPT ![PageOf(e, v)][1] = x]
         /\ view' = [view EXCEPT ![e][v][1] = x]
<1>1. /\ ~panic /\ UNCHANGED <<pt, entry, frame, panic>>
      /\ frame[e].pc = "run" \/ (frame[e].pc \in InFork /\ v = Stack)
      /\ "D" \in pt[e][v].perm
      /\ mem' = [mem EXCEPT ![PageOf(e, v)][1] = x]
      /\ view' = [view EXCEPT ![e][v][1] = x]
  BY DEF write, Writes
<1>2. pt[e][v] # Unmapped
  BY <1>1 DEF Unmapped
<1>3. pt[e][v].page # {}
  BY <1>2, VaFacts DEF Basics, Tables
<1> QED
  BY <1>1, <1>2, <1>3

------------------------------------------------------------------------------
(* The tables and the pages in use *)

\* There are finitely many names of pages.
LEMMA PageFinite == IsFiniteSet(Page)
<1>1. IsFiniteSet({UTEMP, UCOW})
  <2>1. {UTEMP, UCOW} = {UTEMP} \union {UCOW}
    OBVIOUS
  <2>2. IsFiniteSet({UTEMP}) /\ IsFiniteSet({UCOW})
    BY FS_Singleton
  <2>3. IsFiniteSet({UTEMP} \union {UCOW})
    BY <2>2, FS_Union
  <2> QED
    BY <2>1, <2>3
<1>2. IsFiniteSet(Va)
  BY <1>1, FS_Union, MemoryAssumption DEF Va
<1>3. IsFiniteSet(Env \X Va)
  BY <1>2, FS_Product, EnvAssumption
<1>4. IsFiniteSet(1 .. MaxPage)
  BY FS_Interval, MemoryAssumption
<1>5. IsFiniteSet((Env \X Va) \X (1 .. MaxPage))
  BY <1>3, <1>4, FS_Product
<1> DEFINE F == [q \in (Env \X Va) \X (1 .. MaxPage) |-> <<q[1][1], q[1][2], q[2]>>]
<1>6. F \in Surjection((Env \X Va) \X (1 .. MaxPage), Page)
  <2>1. F \in [(Env \X Va) \X (1 .. MaxPage) -> Page]
    BY DEF Page
  <2>2. ASSUME NEW p \in Page
        PROVE  \E q \in (Env \X Va) \X (1 .. MaxPage) : F[q] = p
    <3>1. PICK e \in Env, v \in Va, i \in 1 .. MaxPage : p = <<e, v, i>>
      BY DEF Page
    <3>2. <<<<e, v>>, i>> \in (Env \X Va) \X (1 .. MaxPage) /\ F[<<<<e, v>>, i>>] = p
      BY <3>1
    <3> QED
      BY <3>2
  <2> QED
    BY <2>1, <2>2 DEF Surjection
<1> QED
  BY <1>5, <1>6, FS_Surjection

\* So finitely many are in use.
LEMMA UsedPages ==
  ASSUME Tables
  PROVE  Used(pt) \subseteq Page /\ IsFiniteSet(Used(pt))
<1>1. Used(pt) \subseteq Page
  BY DEF Tables, Used
<1> QED
  BY <1>1, PageFinite, FS_Subset

\* While there is memory, a name that is not in use can be found for any place.
LEMMA NewPageFresh ==
  ASSUME Tables, Fits, ~NoMemory, NEW e \in Env, NEW v \in Va
  PROVE  NewPage(e, v) \in Page /\ NewPage(e, v) \notin Used(pt)
<1>1. \E i \in 1 .. MaxPage : <<e, v, i>> \notin Used(pt)
  <2> SUFFICES ASSUME \A i \in 1 .. MaxPage : <<e, v, i>> \in Used(pt)
               PROVE  FALSE
    OBVIOUS
  <2> DEFINE S == {<<e, v, i>> : i \in 1 .. MaxPage}
             F == [i \in 1 .. MaxPage |-> <<e, v, i>>]
  <2>1. F \in Bijection(1 .. MaxPage, S)
    <3>1. F \in [1 .. MaxPage -> S]
      OBVIOUS
    <3>2. \A i, j \in 1 .. MaxPage : F[i] = F[j] => i = j
      OBVIOUS
    <3>3. \A p \in S : \E i \in 1 .. MaxPage : F[i] = p
      OBVIOUS
    <3> QED
      BY <3>1, <3>2, <3>3 DEF Bijection, Injection, IsInjective, Surjection
  <2>2. IsFiniteSet(1 .. MaxPage) /\ Cardinality(1 .. MaxPage) = MaxPage
    BY FS_Interval, MemoryAssumption
  <2>3. Cardinality(S) = MaxPage
    BY <2>1, <2>2, FS_Bijection DEF ExistsBijection
  <2>4. S \subseteq Used(pt) /\ IsFiniteSet(Used(pt))
    BY UsedPages
  <2>5. Cardinality(S) <= Cardinality(Used(pt))
    BY <2>4, FS_Subset
  <2>6. Cardinality(Used(pt)) \in Nat
    BY <2>4, FS_CardinalityType
  <2> QED
    BY <2>3, <2>5, <2>6, MemoryAssumption DEF Fits, NoMemory
<1> QED
  BY <1>1 DEF NewPage, Page

\* A step that maps pages that are in use already, or one page more when there is memory.
LEMMA TableStep ==
  ASSUME Tables, Fits, pt' \in [Env -> [Va -> [page : SUBSET Page, perm : SUBSET Bits]]],
         NEW N, N = {} \/ (~NoMemory /\ \E p \in Page : N = {p}),
         \A d \in Env, w \in Va :
           \/ pt'[d][w] = Unmapped \/ pt'[d][w] = pt[d][w]
           \/ \E p \in Page : pt'[d][w].page = {p} /\ p \in Used(pt) \union N,
         Used(pt') \subseteq DOMAIN mem'
  PROVE  Tables' /\ Fits'
<1>1. Tables'
  <2>1. \A d \in Env, w \in Va : pt'[d][w] = Unmapped \/ \E p \in Page : pt'[d][w].page = {p}
    <3> SUFFICES ASSUME NEW d \in Env, NEW w \in Va
                 PROVE  pt'[d][w] = Unmapped \/ \E p \in Page : pt'[d][w].page = {p}
      OBVIOUS
    <3>1. pt[d][w] = Unmapped \/ \E p \in Page : pt[d][w].page = {p}
      BY DEF Tables
    <3> QED
      BY <3>1
  <2> QED
    BY <2>1 DEF Tables
<1>2. Used(pt') \subseteq Used(pt) \union N
  BY DEF Used, Unmapped
<1>3. IsFiniteSet(Used(pt)) /\ Cardinality(Used(pt)) \in Nat
  BY UsedPages, FS_CardinalityType
<1>4. IsFiniteSet(Used(pt) \union N) /\ Cardinality(Used(pt) \union N) <= MaxPage
  <2>1. CASE N = {}
    <3>1. Used(pt) \union N = Used(pt)
      BY <2>1
    <3> QED
      BY <1>3, <3>1 DEF Fits
  <2>2. CASE N # {}
    <3>1. PICK p \in Page : N = {p} /\ ~NoMemory
      BY <2>2
    <3>2. Cardinality(Used(pt)) < MaxPage
      BY <1>3, <3>1, MemoryAssumption DEF Fits, NoMemory
    <3> QED
      BY <1>3, <3>1, <3>2, FS_AddElement, MemoryAssumption
  <2> QED
    BY <2>1, <2>2
<1>5. Cardinality(Used(pt')) <= Cardinality(Used(pt) \union N) /\ Cardinality(Used(pt')) \in Nat
  BY <1>2, <1>4, FS_Subset, FS_CardinalityType
<1>6. Cardinality(Used(pt) \union N) \in Nat
  BY <1>4, FS_CardinalityType
<1> QED
  BY <1>1, <1>4, <1>5, <1>6, MemoryAssumption DEF Fits

Row == [page : SUBSET Page, perm : SUBSET Bits]

\* Entries of a page table.
LEMMA MapRow ==
  /\ Unmapped \in Row /\ Unmapped.page = {} /\ Unmapped.perm = {}
  /\ \A p \in Page, s \in SUBSET Bits : Map(p, s) \in Row /\ Map(p, s).page = {p} /\ Map(p, s).perm = s
  BY DEF Map, Unmapped, Row

\* A page that is mapped is in use.
LEMMA InUse ==
  ASSUME Tables, NEW e \in Env, NEW v \in Va, pt[e][v].page # {}
  PROVE  PageOf(e, v) \in Used(pt) /\ PageOf(e, v) \in Page
  BY PageOfCell DEF Used

\* A place without a page has no bits.
LEMMA EmptyCell ==
  ASSUME Tables, NEW e \in Env, NEW v \in Va, pt[e][v].page = {}
  PROVE  pt[e][v] = Unmapped
  BY DEF Tables

\* The pages that stay are those in use.
LEMMA KeptDomain == \A m, tables : DOMAIN Kept(m, tables) = Used(tables)
  BY DEF Kept

\* ... none more.
LEMMA TableStepInUse ==
  ASSUME Tables, Fits, pt' \in [Env -> [Va -> Row]],
         \A d \in Env, w \in Va :
           \/ pt'[d][w] = Unmapped \/ pt'[d][w] = pt[d][w]
           \/ \E p \in Used(pt) : pt'[d][w].page = {p},
         Used(pt') \subseteq DOMAIN mem'
  PROVE  Tables' /\ Fits'
<1> DEFINE N == {}
<1>1. N = {}
  OBVIOUS
<1> HIDE DEF N
<1>2. \A d \in Env, w \in Va :
           \/ pt'[d][w] = Unmapped \/ pt'[d][w] = pt[d][w]
           \/ \E p \in Page : pt'[d][w].page = {p} /\ p \in Used(pt) \union N
  BY UsedPages
<1>3. pt' \in [Env -> [Va -> [page : SUBSET Page, perm : SUBSET Bits]]]
  BY DEF Row
<1>4. N = {} \/ (~NoMemory /\ \E p \in Page : N = {p})
  BY <1>1
<1> QED
  BY <1>2, <1>3, <1>4, TableStep

\* Every step keeps the tables well formed and the pages in use within MaxPage.
LEMMA TablesNext ==
  ASSUME Basics, [Next]_vars
  PROVE  Tables' /\ Fits'
<1>u. ASSUME UNCHANGED pt, DOMAIN mem \subseteq DOMAIN mem'
      PROVE  Tables' /\ Fits'
  BY <1>u DEF Basics, Tables, Fits, Used
<1>0. CASE UNCHANGED vars
  BY <1>0, <1>u DEF vars
<1> SUFFICES ASSUME NEW e \in Env, ForkStep(e) \/ SpawnStep(e)
             PROVE  Tables' /\ Fits'
  BY <1>0 DEF Next
<1>b. Tables /\ Fits /\ \A d \in Env, w \in Va : pt[d][w] \in Row
  BY DEF Basics, Tables, Row
\* One place gets a page that is in use, or none.
<1>1. ASSUME NEW d \in Env, NEW w \in Va, NEW m \in Row, Only(d, w, m),
             m = Unmapped \/ \E p \in Used(pt) : m.page = {p}, Used(pt') \subseteq DOMAIN mem'
      PROVE  Tables' /\ Fits'
  <2>1. pt' \in [Env -> [Va -> Row]]
    BY <1>1, <1>b DEF Only
  <2>2. \A i \in Env, x \in Va :
           \/ pt'[i][x] = Unmapped \/ pt'[i][x] = pt[i][x]
           \/ \E p \in Used(pt) : pt'[i][x].page = {p}
    BY <1>1, <1>b DEF Only
  <2> QED
    BY <1>1, <1>b, <2>1, <2>2, TableStepInUse
\* One place gets a new page.
<1>2. ASSUME NEW d \in Env, NEW w \in Va, NEW i \in Env, NEW x \in Va, NEW s \in SUBSET Bits, ~NoMemory,
             Only(d, w, Map(NewPage(i, x), s)),
             \/ DOMAIN mem \union {NewPage(i, x)} \subseteq DOMAIN mem'
             \/ Used(pt') \subseteq DOMAIN mem'
      PROVE  Tables' /\ Fits'
  <2> DEFINE new == NewPage(i, x)
  <2>0. new \in Page
    BY <1>2, <1>b, NewPageFresh
  <2> HIDE DEF new
  <2>1. pt' = [j \in Env |-> [y \in Va |-> IF j = d /\ y = w THEN Map(new, s) ELSE pt[j][y]]]
    BY <1>2 DEF Only, new
  <2>2. Map(new, s) \in Row /\ Map(new, s).page = {new}
    BY <2>0, MapRow
  <2>3. pt' \in [Env -> [Va -> Row]]
    BY <1>b, <2>1, <2>2
  <2>4. \A j \in Env, y \in Va :
           \/ pt'[j][y] = Unmapped \/ pt'[j][y] = pt[j][y]
           \/ \E p \in Page : pt'[j][y].page = {p} /\ p \in Used(pt) \union {new}
    BY <2>0, <2>1, <2>2
  <2>5. Used(pt') \subseteq DOMAIN mem'
    <3>1. Used(pt') \subseteq Used(pt) \union {new}
      BY <2>1, <2>2 DEF Used
    <3> QED
      BY <1>2, <3>1 DEF Basics, Fits, new
  <2> QED
    BY <1>2, <1>b, <2>0, <2>3, <2>4, <2>5, TableStep DEF Row
<1>3. ASSUME NEW v \in Own, do_tlb_mod(e, v)
      PROVE  Tables' /\ Fits'
  BY <1>3, <1>u, DoTlbModDoes
<1>4. ASSUME NEW v \in Own, NEW x \in Values, write(e, v, x)
      PROVE  Tables' /\ Fits'
  BY <1>4, <1>u, WriteDoes
<1>5. CASE cow_copy(e)
  <2>1. CASE UNCHANGED <<mem, pt>>
    BY <2>1, <1>u
  <2>2. CASE /\ ~NoMemory /\ Only(e, UCOW, Map(NewPage(e, Fault(e)), {"D"}))
             /\ mem' = Filled(mem, NewPage(e, Fault(e)), mem[PageOf(e, Fault(e))])
    <3>1. Fault(e) \in Va
      BY <1>5, VaFacts DEF cow_copy, At, Fault, Basics, Frames, Sound
    <3>2. DOMAIN mem' = DOMAIN mem \union {NewPage(e, Fault(e))}
      BY <2>2 DEF Filled
    <3> QED
      BY <2>2, <3>1, <3>2, <1>2, VaFacts DEF Bits
  <2> QED
    BY <1>5, <2>1, <2>2, CowCopyDoes
<1>6. CASE cow_map(e)
  <2> DEFINE F(d, w) == IF d = e /\ w = frame[e].fault THEN pt[e][UCOW]
                        ELSE IF d = e /\ w = UCOW THEN Unmapped ELSE pt[d][w]
  <2>1. pt' = [d \in Env |-> [w \in Va |-> F(d, w)]] /\ mem' = Kept(mem, pt')
    BY <1>6, CowMapDoes
  <2>2. pt' \in [Env -> [Va -> Row]]
    BY <2>1, <1>b, MapRow, VaFacts
  <2>3. \A d \in Env, w \in Va : \/ pt'[d][w] = Unmapped \/ pt'[d][w] = pt[d][w]
           \/ \E p \in Used(pt) : pt'[d][w].page = {p}
    BY <2>1, <1>6, InUse, PageOfCell, VaFacts DEF Basics, Temps, TempsOf, cow_map, At
  <2> QED
    BY <1>b, <2>1, <2>2, <2>3, KeptDomain, TableStepInUse
<1>7. CASE call_fork(e)
  BY <1>7, <1>u, CallForkDoes
<1>8. CASE exofork(e)
  BY <1>8, <1>u, ExoforkDoes
<1>9. CASE duppage(e)
  BY <1>9, <1>u, DuppageDoes
<1>10. CASE duppage_child(e)
  <2> DEFINE f == frame[e]
             s == IF f.perm = {"D"} THEN {"COW"} ELSE f.perm
  <2>1. CASE UNCHANGED pt
    BY <1>10, <2>1, <1>u, DuppageChildDoes
  <2>2. CASE pt' = [d \in Env |-> [w \in Va |->
                      IF d \in f.kid /\ w = f.va THEN Map(PageOf(e, f.va), s) ELSE pt[d][w]]]
    <3>1. f.va \in Va /\ pt[e][f.va].page # {} /\ mem' = mem
      BY <1>10, DuppageChildDoes, VaFacts
    <3>2. s \in SUBSET Bits
      BY <1>10, <3>1, <1>b, DuppageChildDoes DEF Bits, Row
    <3> HIDE DEF s
    <3>3. PageOf(e, f.va) \in Used(pt) /\ PageOf(e, f.va) \in Page
      BY <3>1, <1>b, InUse
    <3>4. Map(PageOf(e, f.va), s) \in Row /\ Map(PageOf(e, f.va), s).page = {PageOf(e, f.va)}
      BY <3>2, <3>3, MapRow
    <3>5. pt' \in [Env -> [Va -> Row]]
      BY <2>2, <3>4, <1>b
    <3>6. \A d \in Env, w \in Va : \/ pt'[d][w] = Unmapped \/ pt'[d][w] = pt[d][w]
             \/ \E p \in Used(pt) : pt'[d][w].page = {p}
      BY <2>2, <3>3, <3>4
    <3>7. Used(pt') \subseteq DOMAIN mem'
      <4>1. Used(pt') \subseteq Used(pt)
        BY <2>2, <3>3, <3>4 DEF Used
      <4> QED
        BY <3>1, <4>1 DEF Basics, Fits
    <3> QED
      BY <1>b, <3>5, <3>6, <3>7, TableStepInUse
  <2> QED
    BY <1>10, <2>1, <2>2, DuppageChildDoes
<1>11. CASE duppage_parent(e)
  <2> DEFINE f == frame[e]
  <2>1. f.va \in Va /\ pt[e][f.va].page # {} /\ mem' = mem /\ Only(e, f.va, Map(PageOf(e, f.va), {"COW"}))
    BY <1>11, DuppageParentDoes, VaFacts
  <2>2. PageOf(e, f.va) \in Used(pt) /\ PageOf(e, f.va) \in Page
    BY <2>1, <1>b, InUse
  <2>3. /\ Map(PageOf(e, f.va), {"COW"}) \in Row
        /\ Map(PageOf(e, f.va), {"COW"}).page = {PageOf(e, f.va)}
    BY <2>2, MapRow DEF Bits
  <2>4. Used(pt') \subseteq Used(pt)
    BY <2>1, <2>2, <2>3 DEF Only, Used
  <2>5. Used(pt') \subseteq DOMAIN mem'
    BY <2>1, <2>4 DEF Basics, Fits
  <2> QED
    BY <2>1, <2>2, <2>3, <2>5, <1>1
<1>12. CASE set_entry(e)
  BY <1>12, <1>u, SetEntryDoes
<1>13. CASE set_runnable(e)
  BY <1>13, <1>u, SetRunnableDoes
<1>14. CASE env_free(e)
  <2>1. /\ pt' = [d \in Env |-> [w \in Va |-> IF d = e THEN Unmapped ELSE pt[d][w]]]
        /\ mem' = Kept(mem, pt')
    BY <1>14, EnvFreeDoes
  <2>2. pt' \in [Env -> [Va -> Row]]
    BY <2>1, <1>b, MapRow
  <2> QED
    BY <1>b, <2>1, <2>2, KeptDomain, TableStepInUse
<1>15. ASSUME NEW p \in Programs, spawn(e, p)
       PROVE  Tables' /\ Fits'
  <2>1. DOMAIN mem' = DOMAIN mem \union {NewPage(e, Fd)}
    BY <1>15, SpawnDoes DEF Filled
  <2> QED
    BY <1>15, <2>1, <1>2, SpawnDoes, VaFacts DEF Bits
<1>16. CASE spawn_exofork(e)
  BY <1>16, <1>u, SpawnExoforkDoes
<1>17. CASE init_stack(e)
  <2>1. CASE UNCHANGED <<mem, pt>>
    BY <2>1, <1>u
  <2>2. CASE /\ ~NoMemory /\ Only(e, UTEMP, Map(NewPage(e, UTEMP), {"D"}))
             /\ mem' = Filled(mem, NewPage(e, UTEMP), frame[e].prog.args)
    <3>1. DOMAIN mem' = DOMAIN mem \union {NewPage(e, UTEMP)}
      BY <2>2 DEF Filled
    <3> QED
      BY <2>2, <3>1, <1>2, VaFacts DEF Bits
  <2> QED
    BY <1>17, <2>1, <2>2, InitStackDoes
<1>18. CASE init_stack_map(e)
  <2>1. mem' = Kept(mem, pt') /\ pt[e][UTEMP].page # {}
    BY <1>18, InitStackMapDoes
  <2>2. CASE Only(e, UTEMP, Unmapped)
    BY <2>1, <2>2, <1>1, MapRow, KeptDomain, VaFacts
  <2> DEFINE F(d, w) == IF d = Kid(e) /\ w = Stack THEN pt[e][UTEMP]
                        ELSE IF d = e /\ w = UTEMP THEN Unmapped ELSE pt[d][w]
  <2>3. CASE pt' = [d \in Env |-> [w \in Va |-> F(d, w)]]
    <3>1. pt' \in [Env -> [Va -> Row]]
      BY <2>3, <1>b, MapRow, VaFacts
    <3>2. \A d \in Env, w \in Va : \/ pt'[d][w] = Unmapped \/ pt'[d][w] = pt[d][w]
             \/ \E p \in Used(pt) : pt'[d][w].page = {p}
      <4>1. \E p \in Used(pt) : pt[e][UTEMP].page = {p}
        BY <2>1, <1>b, InUse, PageOfCell, VaFacts
      <4> QED
        BY <2>3, <4>1
    <3> QED
      BY <1>b, <2>1, <3>1, <3>2, KeptDomain, TableStepInUse
  <2> QED
    BY <1>18, <2>2, <2>3, InitStackMapDoes
<1>19. CASE spawn_mapper(e)
  <2>1. CASE UNCHANGED <<mem, pt>>
    BY <2>1, <1>u
  <2> DEFINE new == NewPage(Kid(e), Next1(e).page)
  <2>2. CASE /\ ~NoMemory /\ Only(Kid(e), Next1(e).page, Map(new, Next1(e).perm))
             /\ mem' = Kept(Filled(mem, new, Zeros), pt')
    <3>1. Kid(e) \in Env /\ Next1(e).page \in Va /\ Next1(e).perm \in SUBSET Bits
      BY <1>19, SpawnMapperDoes, TheKid, Next1Call DEF Bits
    <3>2. DOMAIN mem' = Used(pt')
      BY <2>2, KeptDomain
    <3> QED
      BY <2>2, <3>1, <3>2, <1>2
  <2> QED
    BY <1>19, <2>1, <2>2, SpawnMapperDoes
<1>20. CASE mapper_map(e)
  <2>1. Kid(e) \in Env /\ Next1(e).page \in Va /\ mem' = Kept(mem, pt')
    BY <1>20, MapperMapDoes, TheKid, Next1Call
  <2>2. CASE Only(Kid(e), Next1(e).page, Unmapped)
    BY <2>1, <2>2, <1>1, MapRow, KeptDomain
  <2>3. CASE Only(e, UTEMP, Map(PageOf(Kid(e), Next1(e).page), {"D"}))
    <3>1. pt[Kid(e)][Next1(e).page].page # {}
      BY <1>20, MapperMapDoes, TheKid DEF Basics, Places, PlacesOf
    <3>2. PageOf(Kid(e), Next1(e).page) \in Used(pt) /\ PageOf(Kid(e), Next1(e).page) \in Page
      BY <2>1, <3>1, <1>b, InUse
    <3> DEFINE m == Map(PageOf(Kid(e), Next1(e).page), {"D"})
    <3>3. m \in Row /\ m.page = {PageOf(Kid(e), Next1(e).page)}
      BY <3>2, MapRow DEF Bits
    <3> QED
      BY <2>1, <2>3, <3>2, <3>3, <1>1, KeptDomain, VaFacts
  <2> QED
    BY <1>20, <2>2, <2>3, MapperMapDoes
<1>21. CASE mapper_copy(e)
  <2>1. Only(e, UTEMP, Unmapped) /\ DOMAIN mem' = DOMAIN mem
    BY <1>21, MapperCopyDoes
  <2>2. Used(pt') \subseteq Used(pt)
    BY <2>1, MapRow DEF Only, Used
  <2>3. Used(pt') \subseteq DOMAIN mem'
    BY <2>1, <2>2 DEF Basics, Fits
  <2> QED
    BY <2>1, <2>3, <1>1, MapRow, VaFacts
<1>22. CASE spawn_close(e)
  BY <1>22, SpawnCloseDoes, <1>1, MapRow, KeptDomain, VaFacts
<1>23. CASE share(e)
  <2>1. CASE UNCHANGED pt
    BY <1>23, <2>1, <1>u, ShareDoes
  <2>2. CASE Only(Kid(e), frame[e].va, pt[e][frame[e].va])
    <3>1. Kid(e) \in Env /\ frame[e].va \in Va /\ mem' = mem
      BY <1>23, ShareDoes, TheKid, VaFacts
    <3>2. pt[e][frame[e].va] = Unmapped \/ \E p \in Used(pt) : pt[e][frame[e].va].page = {p}
      <4>1. CASE pt[e][frame[e].va].page = {}
        BY <3>1, <4>1, <1>b, EmptyCell
      <4>2. CASE pt[e][frame[e].va].page # {}
        BY <3>1, <4>2, <1>b, InUse, PageOfCell
      <4> QED
        BY <4>1, <4>2
    <3>3. Used(pt') \subseteq Used(pt)
      BY <2>2, <3>1 DEF Only, Used
    <3>4. Used(pt') \subseteq DOMAIN mem'
      BY <3>1, <3>3 DEF Basics, Fits
    <3> QED
      BY <2>2, <3>1, <3>2, <3>4, <1>1, <1>b
  <2> QED
    BY <1>23, <2>1, <2>2, ShareDoes
<1>24. CASE start(e)
  BY <1>24, <1>u, StartDoes
<1>25. CASE destroy(e)
  <2>1. /\ pt' = [d \in Env |-> [w \in Va |-> IF d \in frame[e].kid THEN Unmapped ELSE pt[d][w]]]
        /\ mem' = Kept(mem, pt')
    BY <1>25, DestroyDoes
  <2>2. pt' \in [Env -> [Va -> Row]]
    BY <2>1, <1>b, MapRow
  <2> QED
    BY <1>b, <2>1, <2>2, KeptDomain, TableStepInUse
<1>26. CASE err(e)
  BY <1>26, ErrDoes, <1>1, MapRow, KeptDomain, VaFacts
<1> QED
  BY <1>3, <1>4, <1>5, <1>6, <1>7, <1>8, <1>9, <1>10, <1>11, <1>12, <1>13, <1>14, <1>15, <1>16, <1>17,
     <1>18, <1>19, <1>20, <1>21, <1>22, <1>23, <1>24, <1>25, <1>26 DEF ForkStep, SpawnStep

\* Every step keeps the permission bits: PTE_LIBRARY pages never become private.
LEMMA PermsNext ==
  ASSUME Basics, [Next]_vars
  PROVE  Perms'
<1>u. ASSUME UNCHANGED pt
      PROVE  Perms'
  BY <1>u DEF Basics, Perms
<1>0. CASE UNCHANGED vars
  BY <1>0, <1>u DEF vars
<1> SUFFICES ASSUME NEW e \in Env, ForkStep(e) \/ SpawnStep(e)
             PROVE  Perms'
  BY <1>0 DEF Next
<1>b. Tables /\ Fits /\ Perms /\ \A d \in Env, w \in Va : pt[d][w] \in Row
  BY DEF Basics, Tables, Row
<1>1. ASSUME NEW d \in Env, NEW w \in Va \ (Lib \ {Fd}), NEW p \in Page, NEW s \in {{}, {"D"}, {"COW"}},
             Only(d, w, Map(p, s))
      PROVE  Perms'
  BY <1>1, <1>b, MapRow, VaFacts DEF Only, Perms, Bits
<1>2. ASSUME NEW d \in Env, NEW w \in Va, Only(d, w, Unmapped)
      PROVE  Perms'
  BY <1>2, <1>b, MapRow, VaFacts DEF Only, Perms
<1>3. ASSUME NEW v \in Own, do_tlb_mod(e, v)
      PROVE  Perms'
  BY <1>3, <1>u, DoTlbModDoes
<1>4. ASSUME NEW v \in Own, NEW x \in Values, write(e, v, x)
      PROVE  Perms'
  BY <1>4, <1>u, WriteDoes
<1>5. CASE cow_copy(e)
  <2>1. CASE UNCHANGED pt
    BY <2>1, <1>u
  <2>2. CASE /\ ~NoMemory /\ Only(e, UCOW, Map(NewPage(e, Fault(e)), {"D"}))
    <3>1. Fault(e) \in Va
      BY <1>5, VaFacts DEF cow_copy, At, Fault, Basics, Frames, Sound
    <3>2. NewPage(e, Fault(e)) \in Page
      BY <2>2, <3>1, <1>b, NewPageFresh
    <3> QED
      BY <2>2, <3>2, <1>1, VaFacts
  <2> QED
    BY <1>5, <2>1, <2>2, CowCopyDoes
<1>6. CASE cow_map(e)
  <2>1. /\ pt' = [d \in Env |-> [w \in Va |->
                IF d = e /\ w = frame[e].fault THEN pt[e][UCOW]
                ELSE IF d = e /\ w = UCOW THEN Unmapped ELSE pt[d][w]]]
        /\ frame[e].pc = "cow_map"
    BY <1>6, CowMapDoes
  <2>2. frame[e].fault \in Own
    BY <2>1 DEF Basics, Frames, Sound
  <2> QED
    BY <1>b, <2>1, <2>2, MapRow, VaFacts DEF Perms
<1>7. CASE call_fork(e)
  BY <1>7, <1>u, CallForkDoes
<1>8. CASE exofork(e)
  BY <1>8, <1>u, ExoforkDoes
<1>9. CASE duppage(e)
  BY <1>9, <1>u, DuppageDoes
<1>10. CASE duppage_child(e)
  <2> DEFINE f == frame[e]
             s == IF f.perm = {"D"} THEN {"COW"} ELSE f.perm
  <2>1. CASE UNCHANGED pt
    BY <2>1, <1>u
  <2>2. CASE pt' = [d \in Env |-> [w \in Va |->
                      IF d \in f.kid /\ w = f.va THEN Map(PageOf(e, f.va), s) ELSE pt[d][w]]]
    <3>1. /\ f.va \in (Own \union Lib) \ {Fd} /\ f.va \in Va /\ pt[e][f.va].page # {}
          /\ f.perm = pt[e][f.va].perm
      BY <1>10, DuppageChildDoes, VaFacts
    <3>2. PageOf(e, f.va) \in Page /\ pt[e][f.va] = Map(PageOf(e, f.va), pt[e][f.va].perm)
      BY <3>1, <1>b, PageOfCell
    <3>3. CASE f.va \in Own
      <4>1. s \in {{}, {"D"}, {"COW"}}
        BY <3>1, <3>3, <1>b, VaFacts DEF Perms
      <4> HIDE DEF s
      <4>2. Map(PageOf(e, f.va), s).perm = s
        BY <3>2, <4>1, MapRow DEF Bits
      <4> QED
        BY <2>2, <3>3, <4>1, <4>2, <1>b, VaFacts DEF Perms
    <3>4. CASE f.va \in Lib \ {Fd}
      <4>1. pt[e][f.va] = Shared(f.va)
        BY <3>1, <3>4, <1>b, MapRow DEF Perms
      <4>2. f.perm = {"D", "LIB"}
        BY <3>1, <4>1 DEF Shared, Map
      <4>3. Map(PageOf(e, f.va), s) = Shared(f.va)
        BY <3>1, <3>2, <4>1, <4>2
      <4> HIDE DEF s
      <4> QED
        BY <2>2, <3>4, <4>3, <1>b, VaFacts DEF Perms
    <3> QED
      BY <3>1, <3>3, <3>4
  <2> QED
    BY <1>10, <2>1, <2>2, DuppageChildDoes
<1>11. CASE duppage_parent(e)
  <2> DEFINE f == frame[e]
  <2>1. f.va \in Own /\ pt[e][f.va].page # {} /\ Only(e, f.va, Map(PageOf(e, f.va), {"COW"}))
    BY <1>11, DuppageParentDoes
  <2>2. PageOf(e, f.va) \in Page
    BY <2>1, <1>b, InUse, VaFacts
  <2> QED
    BY <2>1, <2>2, <1>1, VaFacts
<1>12. CASE set_entry(e)
  BY <1>12, <1>u, SetEntryDoes
<1>13. CASE set_runnable(e)
  BY <1>13, <1>u, SetRunnableDoes
<1>14. CASE env_free(e)
  <2>1. pt' = [d \in Env |-> [w \in Va |-> IF d = e THEN Unmapped ELSE pt[d][w]]]
    BY <1>14, EnvFreeDoes
  <2> QED
    BY <2>1, <1>b, MapRow, VaFacts DEF Perms
<1>15. ASSUME NEW p \in Programs, spawn(e, p)
       PROVE  Perms'
  <2>1. Only(e, Fd, Map(NewPage(e, Fd), {"D", "LIB"}))
    BY <1>15, SpawnDoes
  <2> QED
    BY <2>1, <1>b, VaFacts DEF Only, Perms
<1>16. CASE spawn_exofork(e)
  BY <1>16, <1>u, SpawnExoforkDoes
<1>17. CASE init_stack(e)
  BY <1>17, <1>u, <1>b, <1>1, InitStackDoes, NewPageFresh, VaFacts
<1>18. CASE init_stack_map(e)
  <2>1. CASE Only(e, UTEMP, Unmapped)
    BY <2>1, <1>2, VaFacts
  <2>2. CASE pt' = [d \in Env |-> [w \in Va |->
                    IF d = Kid(e) /\ w = Stack THEN pt[e][UTEMP]
                    ELSE IF d = e /\ w = UTEMP THEN Unmapped ELSE pt[d][w]]]
    BY <2>2, <1>b, MapRow, VaFacts DEF Perms
  <2> QED
    BY <1>18, <2>1, <2>2, InitStackMapDoes
<1>19. CASE spawn_mapper(e)
  <2>1. CASE UNCHANGED pt
    BY <2>1, <1>u
  <2> DEFINE new == NewPage(Kid(e), Next1(e).page)
  <2>2. CASE ~NoMemory /\ Only(Kid(e), Next1(e).page, Map(new, Next1(e).perm))
    <3>1. Kid(e) \in Env /\ Next1(e).page \in Own /\ Next1(e).page \in Va /\ Next1(e).perm \in {{}, {"D"}}
      BY <1>19, SpawnMapperDoes, TheKid, Next1Call
    <3>2. new \in Page
      BY <2>2, <3>1, <1>b, NewPageFresh
    <3> QED
      BY <2>2, <3>1, <3>2, <1>1, VaFacts
  <2> QED
    BY <1>19, <2>1, <2>2, SpawnMapperDoes
<1>20. CASE mapper_map(e)
  <2>1. Kid(e) \in Env /\ Next1(e).page \in Va /\ pt[Kid(e)][Next1(e).page].page # {}
    BY <1>20, MapperMapDoes, TheKid, Next1Call DEF Basics, Places, PlacesOf
  <2>2. PageOf(Kid(e), Next1(e).page) \in Page
    BY <2>1, <1>b, InUse
  <2> QED
    BY <1>20, <2>1, <2>2, <1>1, <1>2, MapperMapDoes, VaFacts
<1>21. CASE mapper_copy(e)
  BY <1>21, <1>2, MapperCopyDoes, VaFacts
<1>22. CASE spawn_close(e)
  BY <1>22, <1>2, SpawnCloseDoes, VaFacts
<1>23. CASE share(e)
  <2>1. CASE UNCHANGED pt
    BY <2>1, <1>u
  <2>2. CASE Only(Kid(e), frame[e].va, pt[e][frame[e].va])
    <3>1. Kid(e) \in Env /\ frame[e].va \in Lib \ {Fd}
      BY <1>23, ShareDoes, TheKid
    <3> QED
      BY <2>2, <3>1, <1>b, VaFacts DEF Only, Perms
  <2> QED
    BY <1>23, <2>1, <2>2, ShareDoes
<1>24. CASE start(e)
  BY <1>24, <1>u, StartDoes
<1>25. CASE destroy(e)
  <2>1. pt' = [d \in Env |-> [w \in Va |-> IF d \in frame[e].kid THEN Unmapped ELSE pt[d][w]]]
    BY <1>25, DestroyDoes
  <2> QED
    BY <2>1, <1>b, MapRow, VaFacts DEF Perms
<1>26. CASE err(e)
  BY <1>26, <1>2, ErrDoes, VaFacts
<1> QED
  BY <1>3, <1>4, <1>5, <1>6, <1>7, <1>8, <1>9, <1>10, <1>11, <1>12, <1>13, <1>14, <1>15, <1>16, <1>17,
     <1>18, <1>19, <1>20, <1>21, <1>22, <1>23, <1>24, <1>25, <1>26 DEF ForkStep, SpawnStep

\* Every step keeps UTEMP, UCOW and Fd mapped only where they are used.
LEMMA TempsNext ==
  ASSUME Basics, [Next]_vars
  PROVE  Temps'
<1>0. CASE UNCHANGED vars
  BY <1>0 DEF vars, Basics, Temps
<1> SUFFICES ASSUME NEW e \in Env, ForkStep(e) \/ SpawnStep(e)
             PROVE  Temps'
  BY <1>0 DEF Next
<1>b. Tables /\ \A k \in Env : TempsOf(frame[k], pt[k])
  BY DEF Basics, Temps
<1>k. \A k \in Env : k \in frame[e].kid => frame[k] = Embryo /\ k # e
  BY Starts DEF Basics, Kids, Where, Place
\* Only e moves, and only its own table changes.
<1>o. ASSUME Others(e), TempsOf(frame'[e], pt'[e]), \A k \in Env \ {e} : pt'[k] = pt[k]
      PROVE  Temps'
  BY <1>o, <1>b DEF Others, Temps
<1>u. ASSUME Others(e), TempsOf(frame'[e], pt[e]), UNCHANGED pt
      PROVE  Temps'
  BY <1>u, <1>o
<1>w. ASSUME NEW v \in Va, NEW m, Only(e, v, m)
      PROVE  /\ \A k \in Env \ {e} : pt'[k] = pt[k]
             /\ pt'[e][v] = m /\ \A w \in Va \ {v} : pt'[e][w] = pt[e][w]
  BY <1>w, <1>b DEF Only, Tables
\* Only e moves, and its child gets or loses a page.
<1>c. ASSUME Others(e), TempsOf(frame'[e], pt[e]), NEW k \in Env, k \in frame[e].kid,
             NEW v \in (Own \union Lib) \ {Fd}, NEW m, Only(k, v, m)
      PROVE  Temps'
  <2>1. pt'[e] = pt[e] /\ (\A d \in Env \ {k} : pt'[d] = pt[d]) /\ \A w \in Va \ {v} : pt'[k][w] = pt[k][w]
    BY <1>c, <1>b, <1>k DEF Only, Tables
  <2>2. frame'[k] = Embryo /\ frame[k] = Embryo /\ Embryo.pc = "embryo"
    BY <1>c, <1>k, Starts DEF Others
  <2>3. TempsOf(frame'[k], pt'[k])
    BY <2>1, <2>2, <1>b, <1>c, VaFacts DEF TempsOf
  <2> QED
    BY <1>b, <1>c, <2>1, <2>3 DEF Temps, Others
<1>3. ASSUME NEW v \in Own, do_tlb_mod(e, v)
      PROVE  Temps'
  BY <1>3, <1>0, <1>b, <1>u, DoTlbModDoes DEF TempsOf, Temps
<1>4. ASSUME NEW v \in Own, NEW x \in Values, write(e, v, x)
      PROVE  Temps'
  BY <1>4, <1>b, WriteDoes DEF Temps
<1>5. CASE cow_copy(e)
  <2>1. CASE UNCHANGED <<frame, pt>>
    BY <2>1, <1>b DEF Temps
  <2>2. CASE /\ ~NoMemory /\ Only(e, UCOW, Map(NewPage(e, Fault(e)), {"D"}))
             /\ Others(e) /\ frame'[e].pc = "cow_map" /\ frame[e].pc = "cow_copy"
    <3>1. Fault(e) \in Va
      BY <2>2, VaFacts DEF Fault, Basics, Frames, Sound
    <3>2. NewPage(e, Fault(e)) \in Page
      BY <2>2, <3>1, NewPageFresh DEF Basics
    <3>3. pt'[e][UCOW].page # {} /\ pt'[e][UCOW].perm = {"D"}
      BY <2>2, <3>2, <1>w, MapRow, VaFacts DEF Bits
    <3>4. TempsOf(frame'[e], pt'[e])
      BY <2>2, <3>3, <1>w, <1>b, VaFacts DEF TempsOf
    <3> QED
      BY <2>2, <3>4, <1>o, <1>w, VaFacts
  <2> QED
    BY <1>5, <2>1, <2>2, CowCopyDoes
<1>6. CASE cow_map(e)
  <2>1. /\ pt' = [d \in Env |-> [w \in Va |->
                IF d = e /\ w = frame[e].fault THEN pt[e][UCOW]
                ELSE IF d = e /\ w = UCOW THEN Unmapped ELSE pt[d][w]]]
        /\ frame[e].pc = "cow_map" /\ Others(e) /\ frame'[e].pc = frame[e].back
    BY <1>6, CowMapDoes
  <2>2. frame[e].fault \in Own /\ frame[e].back \in {"run"} \union InFork
    BY <2>1 DEF Basics, Frames, Sound, Frame
  <2>3. TempsOf(frame'[e], pt'[e])
    BY <2>1, <2>2, <1>b, VaFacts DEF TempsOf
  <2>4. \A k \in Env \ {e} : pt'[k] = pt[k]
    BY <2>1, <1>b DEF Tables
  <2> QED
    BY <2>1, <2>3, <2>4, <1>o
<1>7. CASE call_fork(e)
  BY <1>7, <1>u, <1>b, CallForkDoes DEF TempsOf
<1>g. ASSUME NEW k \in Env \ {e}, frame[k] = Free, frame'[k] = Embryo, OthersBut(e, {k}), UNCHANGED pt,
             TempsOf(frame'[e], pt[e])
      PROVE  Temps'
  <2>1. TempsOf(frame'[k], pt'[k])
    BY <1>g, <1>b, Starts DEF TempsOf
  <2> QED
    BY <1>g, <2>1, <1>b DEF OthersBut, Temps
<1>8. CASE exofork(e)
  <2>1. TempsOf(frame'[e], pt[e])
    BY <1>8, <1>b, ExoforkDoes DEF TempsOf
  <2> QED
    BY <1>8, <2>1, <1>u, <1>g, ExoforkDoes
<1>9. CASE duppage(e)
  BY <1>9, <1>u, <1>b, DuppageDoes DEF TempsOf
<1>10. CASE duppage_child(e)
  <2> DEFINE f == frame[e]
             m == Map(PageOf(e, f.va), IF f.perm = {"D"} THEN {"COW"} ELSE f.perm)
  <2>0. /\ f.pc = "dup_child" /\ frame'[e].pc \in {"dup_parent", "dup", "entry"} /\ Others(e)
        /\ f.va \in (Own \union Lib) \ {Fd}
    BY <1>10, DuppageChildDoes DEF Onward
  <2>1. TempsOf(frame'[e], pt[e])
    BY <2>0, <1>b DEF TempsOf
  <2>2. CASE UNCHANGED pt
    BY <2>0, <2>1, <2>2, <1>u
  <2>3. CASE pt' = [d \in Env |-> [w \in Va |-> IF d \in f.kid /\ w = f.va THEN m ELSE pt[d][w]]]
    <3> HIDE DEF m
    <3>1. \A d \in Env \ f.kid : pt'[d] = pt[d]
      BY <2>3, <1>b DEF Tables
    <3>2. ASSUME NEW k \in Env, k \in f.kid
          PROVE  TempsOf(frame'[k], pt'[k])
      <4>1. frame'[k] = Embryo /\ frame[k] = Embryo /\ Embryo.pc = "embryo"
        BY <2>0, <3>2, <1>k, Starts DEF Others
      <4>2. \A w \in Va \ {f.va} : pt'[k][w] = pt[k][w]
        BY <2>3
      <4> QED
        BY <2>0, <4>1, <4>2, <1>b, VaFacts DEF TempsOf
    <3> QED
      BY <2>0, <2>1, <3>1, <3>2, <1>k, <1>b DEF Temps, Others
  <2> QED
    BY <1>10, <2>2, <2>3, DuppageChildDoes
<1>11. CASE duppage_parent(e)
  <2>1. /\ frame[e].va \in Own /\ frame[e].pc = "dup_parent" /\ frame'[e].pc \in {"dup", "entry"}
        /\ Others(e) /\ Only(e, frame[e].va, Map(PageOf(e, frame[e].va), {"COW"}))
    BY <1>11, DuppageParentDoes DEF Onward
  <2>2. TempsOf(frame'[e], pt'[e])
    BY <2>1, <1>w, <1>b, VaFacts DEF TempsOf
  <2> QED
    BY <2>1, <2>2, <1>w, <1>o, VaFacts
<1>12. CASE set_entry(e)
  BY <1>12, <1>u, <1>b, SetEntryDoes DEF TempsOf
<1>13. CASE set_runnable(e)
  <2>1. /\ frame[e].pc = "runnable" /\ frame'[e] = Running /\ (\A k \in frame[e].kid : frame'[k] = Running)
        /\ OthersBut(e, frame[e].kid) /\ UNCHANGED pt
    BY <1>13, SetRunnableDoes
  <2>2. \A k \in Env : TempsOf(frame'[k], pt[k])
    BY <2>1, <1>b, <1>k, Starts DEF TempsOf, OthersBut
  <2> QED
    BY <2>1, <2>2 DEF Temps
<1>14. CASE env_free(e)
  <2>1. /\ frame'[e] = Free /\ (\A k \in frame[e].kid : frame'[k] = Orphan) /\ OthersBut(e, frame[e].kid)
        /\ pt' = [d \in Env |-> [w \in Va |-> IF d = e THEN Unmapped ELSE pt[d][w]]]
        /\ pt'[e] = NoPages
    BY <1>14, EnvFreeDoes
  <2>2. \A k \in Env \ {e} : pt'[k] = pt[k]
    BY <2>1, <1>b DEF Tables
  <2>3. TempsOf(frame'[e], pt'[e])
    BY <2>1, Starts, VaFacts DEF TempsOf
  <2>4. \A k \in Env \ {e} : TempsOf(frame'[k], pt'[k])
    <3> SUFFICES ASSUME NEW k \in Env \ {e}
                 PROVE  TempsOf(frame'[k], pt[k])
      BY <2>2
    <3>1. CASE k \in frame[e].kid
      <4>1. frame[k].pc = "embryo" /\ frame'[k].pc = "orphan"
        BY <2>1, <3>1, <1>k, Starts
      <4> QED
        BY <4>1, <1>b DEF TempsOf
    <3>2. CASE k \notin frame[e].kid
      BY <2>1, <3>2, <1>b DEF OthersBut
    <3> QED
      BY <3>1, <3>2
  <2> QED
    BY <2>3, <2>4 DEF Temps
<1>15. ASSUME NEW p \in Programs, spawn(e, p)
       PROVE  Temps'
  <2>1. /\ Only(e, Fd, Map(NewPage(e, Fd), {"D", "LIB"})) /\ Others(e) /\ frame[e].pc = "run"
        /\ frame'[e].pc = "header"
    BY <1>15, SpawnDoes
  <2>2. TempsOf(frame'[e], pt'[e])
    BY <2>1, <1>w, <1>b, VaFacts DEF TempsOf
  <2> QED
    BY <2>1, <2>2, <1>w, <1>o, VaFacts
<1>16. CASE spawn_exofork(e)
  <2>1. TempsOf(frame'[e], pt[e])
    BY <1>16, <1>b, SpawnExoforkDoes DEF TempsOf
  <2> QED
    BY <1>16, <2>1, <1>u, <1>g, SpawnExoforkDoes
<1>17. CASE init_stack(e)
  <2>0. Others(e) /\ frame[e].pc = "stack"
    BY <1>17, InitStackDoes
  <2>1. CASE UNCHANGED pt /\ frame'[e].pc = "err1"
    BY <2>0, <2>1, <1>b, <1>u DEF TempsOf
  <2>2. CASE ~NoMemory /\ Only(e, UTEMP, Map(NewPage(e, UTEMP), {"D"})) /\ frame'[e].pc = "stack_map"
    <3>1. NewPage(e, UTEMP) \in Page
      BY <2>2, VaFacts, NewPageFresh DEF Basics
    <3>2. pt'[e][UTEMP].page # {} /\ pt'[e][UTEMP].perm = {"D"}
      BY <2>2, <3>1, <1>w, MapRow, VaFacts DEF Bits
    <3>3. TempsOf(frame'[e], pt'[e])
      BY <2>0, <2>2, <3>2, <1>w, <1>b, VaFacts DEF TempsOf
    <3> QED
      BY <2>0, <2>2, <3>3, <1>o, <1>w, VaFacts
  <2> QED
    BY <1>17, <2>1, <2>2, InitStackDoes
<1>18. CASE init_stack_map(e)
  <2>0. Others(e) /\ frame[e].pc = "stack_map"
    BY <1>18, InitStackMapDoes
  <2>1. CASE Only(e, UTEMP, Unmapped) /\ frame'[e].pc = "err1"
    <3>1. TempsOf(frame'[e], pt'[e])
      BY <2>0, <2>1, <1>w, <1>b, VaFacts DEF TempsOf
    <3> QED
      BY <2>0, <2>1, <3>1, <1>w, <1>o, VaFacts
  <2>2. CASE /\ pt' = [d \in Env |-> [w \in Va |->
                    IF d = Kid(e) /\ w = Stack THEN pt[e][UTEMP]
                    ELSE IF d = e /\ w = UTEMP THEN Unmapped ELSE pt[d][w]]]
             /\ frame[e].kid # {} /\ frame'[e].pc = "load"
    <3>1. Kid(e) \in Env /\ Kid(e) # e /\ frame[Kid(e)] = Embryo
      BY <2>2, TheKid
    <3>2. TempsOf(frame'[e], pt'[e])
      BY <2>0, <2>2, <3>1, <1>b, VaFacts DEF TempsOf
    <3>3. TempsOf(frame'[Kid(e)], pt'[Kid(e)])
      BY <2>0, <2>2, <3>1, <1>b, Starts, VaFacts DEF TempsOf, Others
    <3>4. \A k \in Env \ {e, Kid(e)} : pt'[k] = pt[k]
      BY <2>2, <1>b DEF Tables
    <3> QED
      BY <2>0, <3>2, <3>3, <3>4, <1>b DEF Temps, Others
  <2> QED
    BY <1>18, <2>1, <2>2, InitStackMapDoes
<1>19. CASE spawn_mapper(e)
  <2>0. /\ Others(e) /\ frame[e].pc = "load" /\ frame'[e].pc \in {"err1", "load", "load_map"}
        /\ frame[e].kid # {} /\ frame[e].todo # <<>>
    BY <1>19, SpawnMapperDoes
  <2>1. TempsOf(frame'[e], pt[e])
    BY <2>0, <1>b DEF TempsOf
  <2>2. Kid(e) \in Env /\ Kid(e) \in frame[e].kid /\ Next1(e).page \in (Own \union Lib) \ {Fd}
    BY <2>0, TheKid, Next1Call, VaFacts
  <2> QED
    BY <1>19, <2>0, <2>1, <2>2, <1>u, <1>c, SpawnMapperDoes
<1>20. CASE mapper_map(e)
  <2>0. Others(e) /\ frame[e].pc = "load_map" /\ frame[e].kid # {} /\ frame[e].todo # <<>>
    BY <1>20, MapperMapDoes
  <2>1. Kid(e) \in Env /\ Kid(e) \in frame[e].kid /\ Next1(e).page \in (Own \union Lib) \ {Fd}
    BY <2>0, TheKid, Next1Call, VaFacts
  <2>2. CASE Only(Kid(e), Next1(e).page, Unmapped) /\ frame'[e].pc = "err1"
    <3>1. TempsOf(frame'[e], pt[e])
      BY <2>0, <2>2, <1>b DEF TempsOf
    <3> QED
      BY <2>0, <2>1, <2>2, <3>1, <1>c
  <2>3. CASE Only(e, UTEMP, Map(PageOf(Kid(e), Next1(e).page), {"D"})) /\ frame'[e].pc = "load_copy"
    <3>0. Next1(e).page \in Va /\ pt[Kid(e)][Next1(e).page].page # {}
      BY <2>0, <2>1, VaFacts DEF Basics, Places
    <3>1. PageOf(Kid(e), Next1(e).page) \in Page
      BY <2>1, <3>0, <1>b, InUse
    <3>2. pt'[e][UTEMP].page # {} /\ pt'[e][UTEMP].perm = {"D"}
      BY <2>3, <3>1, <1>w, MapRow, VaFacts DEF Bits
    <3>3. TempsOf(frame'[e], pt'[e])
      BY <2>0, <2>3, <3>2, <1>w, <1>b, VaFacts DEF TempsOf
    <3> QED
      BY <2>0, <2>3, <3>3, <1>o, <1>w, VaFacts
  <2> QED
    BY <1>20, <2>2, <2>3, MapperMapDoes
<1>21. CASE mapper_copy(e)
  <2>1. Others(e) /\ frame[e].pc = "load_copy" /\ frame'[e].pc = "load" /\ Only(e, UTEMP, Unmapped)
    BY <1>21, MapperCopyDoes
  <2>2. TempsOf(frame'[e], pt'[e])
    BY <2>1, <1>w, <1>b, VaFacts DEF TempsOf
  <2> QED
    BY <2>1, <2>2, <1>w, <1>o, VaFacts
<1>22. CASE spawn_close(e)
  <2>1. /\ Others(e) /\ frame[e].pc = "load" /\ frame'[e].pc \in {"share", "start"}
        /\ Only(e, Fd, Unmapped)
    BY <1>22, SpawnCloseDoes DEF Sharing
  <2>2. TempsOf(frame'[e], pt'[e])
    BY <2>1, <1>w, <1>b, VaFacts DEF TempsOf
  <2> QED
    BY <2>1, <2>2, <1>w, <1>o, VaFacts
<1>23. CASE share(e)
  <2>0. /\ Others(e) /\ frame[e].pc = "share" /\ frame'[e].pc \in {"err2", "share", "start"}
        /\ frame[e].kid # {} /\ frame[e].va \in Lib \ {Fd}
    BY <1>23, ShareDoes DEF Sharing
  <2>1. TempsOf(frame'[e], pt[e])
    BY <2>0, <1>b DEF TempsOf
  <2>2. Kid(e) \in Env /\ Kid(e) \in frame[e].kid
    BY <2>0, TheKid
  <2> QED
    BY <1>23, <2>0, <2>1, <2>2, <1>u, <1>c, ShareDoes
<1>24. CASE start(e)
  <2>1. /\ frame[e].pc = "start" /\ frame'[e] = Running /\ frame'[Kid(e)] = Running
        /\ OthersBut(e, {Kid(e)}) /\ UNCHANGED pt /\ frame[Kid(e)] = Embryo
    BY <1>24, StartDoes, TheKid
  <2>2. \A k \in Env : TempsOf(frame'[k], pt[k])
    BY <2>1, <1>b, Starts DEF TempsOf, OthersBut
  <2> QED
    BY <2>1, <2>2 DEF Temps
<1>25. CASE destroy(e)
  <2>1. /\ frame[e].pc \in {"err1", "err2"} /\ frame'[e].pc = IF frame[e].pc = "err1" THEN "err" ELSE "run"
        /\ (\A k \in frame[e].kid : frame'[k] = Free) /\ OthersBut(e, frame[e].kid)
        /\ e \notin frame[e].kid
        /\ pt' = [d \in Env |-> [w \in Va |-> IF d \in frame[e].kid THEN Unmapped ELSE pt[d][w]]]
        /\ \A d \in frame[e].kid : pt'[d] = NoPages
    BY <1>25, DestroyDoes
  <2>2. \A k \in Env \ frame[e].kid : pt'[k] = pt[k]
    BY <2>1, <1>b DEF Tables
  <2>3. TempsOf(frame'[e], pt'[e])
    BY <2>1, <2>2, <1>b DEF TempsOf
  <2>4. \A k \in Env : k \in frame[e].kid => TempsOf(frame'[k], pt'[k])
    BY <2>1, Starts, VaFacts DEF TempsOf
  <2> QED
    BY <2>1, <2>2, <2>3, <2>4, <1>b DEF Temps, OthersBut
<1>26. CASE err(e)
  <2>1. Others(e) /\ frame[e].pc = "err" /\ frame'[e].pc = "run" /\ Only(e, Fd, Unmapped)
    BY <1>26, ErrDoes, Starts
  <2>2. TempsOf(frame'[e], pt'[e])
    BY <2>1, <1>w, <1>b, VaFacts DEF TempsOf
  <2> QED
    BY <2>1, <2>2, <1>w, <1>o, VaFacts
<1> QED
  BY <1>3, <1>4, <1>5, <1>6, <1>7, <1>8, <1>9, <1>10, <1>11, <1>12, <1>13, <1>14, <1>15, <1>16, <1>17,
     <1>18, <1>19, <1>20, <1>21, <1>22, <1>23, <1>24, <1>25, <1>26 DEF ForkStep, SpawnStep

\* A step is taken by a process that runs, in a kernel that has not stopped.
LEMMA Acting ==
  ASSUME NEW e \in Env, ForkStep(e) \/ SpawnStep(e)
  PROVE  ~panic /\ frame[e].pc \notin Idle
<1>1. CASE \E v \in Own : do_tlb_mod(e, v) \/ \E x \in Values : write(e, v, x)
  BY <1>1 DEF do_tlb_mod, write, Writes
<1>2. CASE \/ cow_copy(e) \/ cow_map(e) \/ call_fork(e) \/ exofork(e) \/ duppage(e) \/ duppage_child(e)
           \/ duppage_parent(e) \/ set_entry(e) \/ set_runnable(e) \/ env_free(e)
  BY <1>2 DEF cow_copy, cow_map, call_fork, exofork, duppage, duppage_child, duppage_parent, set_entry,
              set_runnable, env_free, At, Alive
<1>3. CASE (\E p \in Programs : spawn(e, p)) \/ spawn_exofork(e) \/ init_stack(e) \/ init_stack_map(e)
           \/ spawn_mapper(e) \/ mapper_map(e) \/ mapper_copy(e) \/ spawn_close(e)
           \/ share(e) \/ start(e) \/ destroy(e) \/ err(e)
  BY <1>3 DEF spawn, spawn_exofork, init_stack, init_stack_map, spawn_mapper, mapper_map, mapper_copy,
              spawn_close, share, start, destroy, err, At
<1> QED
  BY <1>1, <1>2, <1>3 DEF ForkStep, SpawnStep

\* Every step leaves the process at a page that is there, with the bits it has read.
LEMMA PlacesNext ==
  ASSUME Basics, [Next]_vars
  PROVE  Places'
<1>0. CASE UNCHANGED vars
  BY <1>0 DEF vars, Basics, Places, Next1
<1> SUFFICES ASSUME NEW e \in Env, ForkStep(e) \/ SpawnStep(e)
             PROVE  Places'
  BY <1>0 DEF Next
<1> DEFINE Fills(d, g) == g.pc \in {"load_map", "load_copy"} =>
             \A k \in g.kid : pt'[k][Head(g.todo).page].page # {}
<1>b. /\ Tables /\ \A k \in Env : PlacesOf(frame[k], pt[k])
      /\ \A d \in Env : frame[d].pc \in {"load_map", "load_copy"} =>
           \A k \in frame[d].kid : pt[k][Head(frame[d].todo).page].page # {}
  BY DEF Basics, Places, Next1
<1>k. /\ frame[e].kid \subseteq Env
      /\ \A k \in Env : k \in frame[e].kid => frame[k] = Embryo /\ k # e
      /\ \A d \in Env : frame[d].kid \subseteq Env /\ (\A k \in frame[d].kid : frame[k] = Embryo)
      /\ \A d \in Env : d # e => frame[d].kid \intersect frame[e].kid = {}
  <2>1. \A d \in Env : frame[d].kid \subseteq Env
    BY DEF Basics, Frames, Frame
  <2>2. \A d \in Env : \A k \in frame[d].kid : frame[k] = Embryo
    BY <2>1 DEF Basics, Kids
  <2>3. e \notin frame[e].kid
    BY <2>2, Acting, Starts DEF Idle
  <2>4. \A d \in Env : d # e => frame[d].kid \intersect frame[e].kid = {}
    BY <2>1 DEF Basics, Kids
  <2> QED
    BY <2>1, <2>2, <2>3, <2>4
<1>q. ASSUME \A d \in Env : PlacesOf(frame'[d], pt'[d]) /\ Fills(d, frame'[d])
      PROVE  Places'
  BY <1>q DEF Places, Next1
\* An idle frame is nowhere.
<1>i. \A f, t : f \in {Running, Free, Embryo, Orphan, Other} => PlacesOf(f, t) /\ \A d : Fills(d, f)
  BY Starts DEF PlacesOf, Place
\* The tables of other processes and of their children do not change.
<1>o. ASSUME Others(e), PlacesOf(frame'[e], pt'[e]), Fills(e, frame'[e]),
             \A k \in Env : k # e /\ k \notin frame[e].kid => pt'[k] = pt[k]
      PROVE  Places'
  <2>1. ASSUME NEW d \in Env, d # e
        PROVE  PlacesOf(frame'[d], pt'[d]) /\ Fills(d, frame'[d])
    <3>1. frame'[d] = frame[d]
      BY <1>o, <2>1 DEF Others
    <3>2. CASE d \in frame[e].kid
      BY <3>1, <3>2, <1>i, <1>k
    <3>3. CASE d \notin frame[e].kid
      <4>1. PlacesOf(frame'[d], pt'[d])
        BY <3>1, <3>3, <2>1, <1>o, <1>b
      <4>2. \A k \in frame[d].kid : k \in Env /\ k \notin frame[e].kid /\ frame[k] = Embryo
        BY <2>1, <1>k
      <4>3. CASE e \in frame[d].kid
        <5>1. frame[e] = Embryo
          BY <4>2, <4>3
        <5> QED
          BY <5>1, Starts, Acting
      <4>4. CASE e \notin frame[d].kid
        <5>1. \A k \in frame[d].kid : pt'[k] = pt[k]
          BY <4>2, <4>4, <1>o
        <5> QED
          BY <3>1, <4>1, <5>1, <1>b
      <4> QED
        BY <4>3, <4>4
    <3> QED
      BY <3>2, <3>3
  <2> QED
    BY <1>o, <2>1, <1>q
\* Only e moves, it is not at a page of spawn, and no table changes but its own at v.
<1>u. ASSUME Others(e), PlacesOf(frame'[e], pt[e]), Fills(e, frame'[e]), UNCHANGED pt
      PROVE  Places'
  BY <1>u, <1>o
<1>w. ASSUME NEW d \in Env, NEW v \in Va, NEW m, Only(d, v, m)
      PROVE  /\ \A k \in Env \ {d} : pt'[k] = pt[k]
             /\ pt'[d][v] = m /\ \A w \in Va \ {v} : pt'[d][w] = pt[d][w]
  BY <1>w, <1>b DEF Only, Tables
<1>m. ASSUME Others(e), frame'[e].pc \in {"header", "entry", "runnable", "err", "err1", "err2", "stack",
               "stack_map", "load", "start", "run", "exofork"},
             \A k \in Env : k # e /\ k \notin frame[e].kid => pt'[k] = pt[k]
      PROVE  Places'
  BY <1>m, <1>o DEF PlacesOf, Place
<1>3. ASSUME NEW v \in Own, do_tlb_mod(e, v)
      PROVE  Places'
  <2>1. CASE UNCHANGED <<frame, pt>>
    BY <2>1, <1>b, <1>q
  <2>2. CASE /\ Others(e) /\ UNCHANGED pt /\ frame'[e].pc = "cow_copy" /\ frame'[e].back = frame[e].pc
             /\ frame'[e].fault = v /\ Works1(frame'[e], frame[e]) /\ pt[e][v].perm = {"COW"}
             /\ frame[e].pc \in {"run"} \union InFork
    <3>1. Place(frame'[e]) = Place(frame[e])
      BY <2>2 DEF Place
    <3>2. PlacesOf(frame'[e], pt[e])
      BY <2>2, <3>1, <1>b DEF PlacesOf, Works1
    <3> QED
      BY <2>2, <3>2, <1>u
  <2> QED
    BY <1>3, <2>1, <2>2, DoTlbModDoes
<1>4. ASSUME NEW v \in Own, NEW x \in Values, write(e, v, x)
      PROVE  Places'
  BY <1>4, <1>b, <1>q, WriteDoes
<1>5. CASE cow_copy(e)
  <2>1. CASE UNCHANGED <<frame, pt>>
    BY <2>1, <1>b, <1>q
  <2>2. CASE /\ Only(e, UCOW, Map(NewPage(e, Fault(e)), {"D"}))
             /\ Others(e) /\ frame'[e].pc = "cow_map" /\ frame[e].pc = "cow_copy"
             /\ Works1(frame'[e], frame[e]) /\ frame'[e].fault = frame[e].fault
             /\ frame'[e].back = frame[e].back
    <3>1. frame[e].fault \in Own /\ Place(frame'[e]) = Place(frame[e])
      BY <2>2, VaFacts DEF Fault, Basics, Frames, Sound, Place
    <3>2. \A w \in Va \ {UCOW} : pt'[e][w] = pt[e][w]
      BY <2>2, <1>w, VaFacts
    <3>3. PlacesOf(frame'[e], pt'[e])
      <4>1. PICK w \in Va : w = frame[e].fault /\ pt'[e][w] = pt[e][w] /\ pt[e][w].perm = {"COW"}
        BY <2>2, <3>1, <3>2, <1>b, VaFacts DEF PlacesOf
      <4>2. frame[e].va \in Own \union Lib => pt'[e][frame[e].va] = pt[e][frame[e].va]
        BY <3>2, VaFacts
      <4> QED
        <5>1. PICK f, g, t, u : f = frame[e] /\ g = frame'[e] /\ t = pt[e] /\ u = pt'[e]
          OBVIOUS
        <5>2. /\ PlacesOf(f, t) /\ Place(g) = Place(f) /\ f.pc = "cow_copy" /\ g.pc = "cow_map"
              /\ g.va = f.va /\ g.perm = f.perm /\ u[g.fault].perm = {"COW"}
              /\ f.va \in Own \union Lib => u[f.va] = t[f.va]
          BY <5>1, <2>2, <3>1, <4>1, <4>2, <1>b DEF Works1
        <5>3. PlacesOf(g, u)
          BY <5>2 DEF PlacesOf
        <5> QED
          BY <5>1, <5>3
    <3> QED
      BY <2>2, <3>3, <1>o, <1>w, VaFacts
  <2> QED
    BY <1>5, <2>1, <2>2, CowCopyDoes
<1>6. CASE cow_map(e)
  <2>1. /\ pt' = [d \in Env |-> [w \in Va |->
                IF d = e /\ w = frame[e].fault THEN pt[e][UCOW]
                ELSE IF d = e /\ w = UCOW THEN Unmapped ELSE pt[d][w]]]
        /\ frame[e].pc = "cow_map" /\ Others(e) /\ frame'[e].pc = frame[e].back
        /\ Works1(frame'[e], frame[e])
    BY <1>6, CowMapDoes
  <2>2. /\ frame[e].fault \in Own /\ frame[e].back \in {"run"} \union InFork
        /\ frame[e].back # "run" => frame[e].fault = Stack
    BY <2>1 DEF Basics, Frames, Sound, Frame
  <2>3. Place(frame'[e]) = frame[e].back /\ Place(frame[e]) = frame[e].back
    BY <2>1, <2>2 DEF Place
  <2>4. pt[e][frame[e].fault].perm = {"COW"} /\ pt[e][UCOW].page # {}
    BY <2>1, <1>b DEF PlacesOf, Basics, Temps, TempsOf
  <2>5. Place(frame[e]) \in {"dup_child", "dup_parent"} => frame[e].va # frame[e].fault
    BY <2>2, <2>3, <2>4, <1>b DEF PlacesOf
  <2>6. PlacesOf(frame'[e], pt'[e])
    <3> DEFINE g == frame'[e]
    <3>1. \A w \in (Own \union Lib) \ {frame[e].fault} : pt'[e][w] = pt[e][w]
      BY <2>1, VaFacts
    <3>2. pt'[e][frame[e].fault].page # {}
      BY <2>1, <2>2, <2>4, VaFacts
    <3>w. g.va = frame[e].va /\ g.perm = frame[e].perm /\ Place(g) = Place(frame[e])
      BY <2>1, <2>3 DEF Works1
    <3>p. PlacesOf(frame[e], pt[e])
      BY <1>b
    <3> HIDE DEF g
    <3>3. Place(g) \in {"dup", "dup_child", "dup_parent"} =>
            g.va \in (Own \union Lib) \ {Fd} /\ pt'[e][g.va].page # {}
      <4>1. Place(g) \in {"dup", "dup_child", "dup_parent"} =>
              g.va \in (Own \union Lib) \ {Fd} /\ pt[e][g.va].page # {}
        BY <3>w, <3>p DEF PlacesOf
      <4> QED
        BY <4>1, <3>1, <3>2
    <3>4. Place(g) \in {"dup_child", "dup_parent"} =>
            g.perm = pt'[e][g.va].perm /\ (g.va = Stack => "D" \in g.perm)
      <4>1. Place(g) \in {"dup_child", "dup_parent"} =>
              /\ g.va \in Own \union Lib /\ g.va # frame[e].fault
              /\ g.perm = pt[e][g.va].perm /\ (g.va = Stack => "D" \in g.perm)
        BY <3>w, <3>p, <2>5 DEF PlacesOf
      <4> QED
        BY <4>1, <3>1
    <3>5. Place(g) = "dup_parent" => g.va \in Own /\ g.perm = {"D"}
      BY <3>w, <3>p DEF PlacesOf
    <3>6. g.pc \notin Handling /\ g.pc # "share"
      BY <2>1, <2>2 DEF g
    <3>7. PlacesOf(g, pt'[e])
      BY <3>3, <3>4, <3>5, <3>6 DEF PlacesOf
    <3> QED
      BY <3>7 DEF g
  <2>7. \A k \in Env \ {e} : pt'[k] = pt[k]
    BY <2>1, <1>b DEF Tables
  <2> QED
    BY <2>1, <2>2, <2>6, <2>7, <1>o
<1>7. CASE call_fork(e)
  BY <1>7, <1>m, CallForkDoes
<1>f. ASSUME frame'[e].pc = "entry" \/ (/\ frame'[e].pc = "dup" /\ frame'[e].va \in (Own \union Lib) \ {Fd}
                                        /\ pt'[e][frame'[e].va].page # {})
      PROVE  PlacesOf(frame'[e], pt'[e]) /\ Fills(e, frame'[e])
  BY <1>f DEF PlacesOf, Place
<1>g. ASSUME NEW k \in Env \ {e}, frame[k] = Free, frame'[k] = Embryo, OthersBut(e, {k}), UNCHANGED pt,
             PlacesOf(frame'[e], pt'[e]) /\ Fills(e, frame'[e])
      PROVE  Places'
  BY <1>g, <1>i, <1>b, <1>q DEF OthersBut
<1>8. CASE exofork(e)
  <2>1. PlacesOf(frame'[e], pt'[e]) /\ Fills(e, frame'[e])
    BY <1>8, <1>f, ExoforkDoes
  <2>2. CASE Others(e)
    BY <1>8, <2>1, <2>2, <1>o, ExoforkDoes
  <2>3. CASE \E k \in Env \ {e} : frame[k] = Free /\ frame'[k] = Embryo /\ OthersBut(e, {k})
    BY <1>8, <2>1, <2>3, <1>g, ExoforkDoes
  <2> QED
    BY <1>8, <2>2, <2>3, ExoforkDoes
<1>9. CASE duppage(e)
  <2>1. PlacesOf(frame'[e], pt[e])
    BY <1>9, <1>b, DuppageDoes DEF PlacesOf, Place
  <2> QED
    BY <1>9, <2>1, <1>u, DuppageDoes
<1>10. CASE duppage_child(e)
  <2> DEFINE f == frame[e]
             m == Map(PageOf(e, f.va), IF f.perm = {"D"} THEN {"COW"} ELSE f.perm)
  <2>0. /\ f.pc = "dup_child" /\ Others(e) /\ f.va \in (Own \union Lib) \ {Fd} /\ pt[e][f.va].page # {}
        /\ f.perm = pt[e][f.va].perm
        /\ \/ f.perm = {"D"} /\ f.va \in Own /\ frame'[e].pc = "dup_parent" /\ Works1(frame'[e], f)
           \/ f.perm # {"D"} /\ Onward(e)
    BY <1>10, DuppageChildDoes
  <2>1. pt'[e] = pt[e] /\ \A k \in Env : k \notin frame[e].kid => pt'[k] = pt[k]
    <3>1. CASE UNCHANGED pt
      BY <3>1
    <3>2. CASE pt' = [d \in Env |-> [w \in Va |-> IF d \in f.kid /\ w = f.va THEN m ELSE pt[d][w]]]
      <4> HIDE DEF m
      <4> QED
        BY <3>2, <1>k, <1>b DEF Tables
    <3> QED
      BY <1>10, <3>1, <3>2, DuppageChildDoes
  <2>2. PlacesOf(frame'[e], pt'[e]) /\ Fills(e, frame'[e])
    <3>1. CASE f.perm = {"D"} /\ f.va \in Own /\ frame'[e].pc = "dup_parent" /\ Works1(frame'[e], f)
      BY <2>0, <2>1, <3>1 DEF PlacesOf, Place, Works1
    <3>2. CASE Onward(e)
      BY <2>1, <3>2, <1>f DEF Onward
    <3> QED
      BY <2>0, <3>1, <3>2
  <2> QED
    BY <2>0, <2>1, <2>2, <1>o
<1>11. CASE duppage_parent(e)
  <2>1. /\ frame[e].va \in Own /\ pt[e][frame[e].va].page # {} /\ Onward(e)
        /\ Others(e) /\ Only(e, frame[e].va, Map(PageOf(e, frame[e].va), {"COW"}))
    BY <1>11, DuppageParentDoes
  <2>2. PageOf(e, frame[e].va) \in Page
    BY <2>1, <1>b, InUse, VaFacts
  <2>3. Map(PageOf(e, frame[e].va), {"COW"}).page # {}
    BY <2>2, MapRow DEF Bits
  <2>4. \A w \in Va : pt[e][w].page # {} => pt'[e][w].page # {}
    BY <2>1, <2>3, <1>w, VaFacts
  <2>5. PlacesOf(frame'[e], pt'[e]) /\ Fills(e, frame'[e])
    BY <2>1, <2>4, <1>f, VaFacts DEF Onward
  <2> QED
    BY <2>1, <2>5, <1>w, <1>o, VaFacts
<1>12. CASE set_entry(e)
  BY <1>12, <1>m, SetEntryDoes
<1>13. CASE set_runnable(e)
  BY <1>13, SetRunnableDoes, <1>i, <1>b, <1>q DEF OthersBut
<1>14. CASE env_free(e)
  <2>1. /\ frame'[e] = Free /\ (\A k \in frame[e].kid : frame'[k] = Orphan) /\ OthersBut(e, frame[e].kid)
        /\ pt' = [d \in Env |-> [w \in Va |-> IF d = e THEN Unmapped ELSE pt[d][w]]]
    BY <1>14, EnvFreeDoes
  <2>2. \A k \in Env \ {e} : pt'[k] = pt[k]
    BY <2>1, <1>b DEF Tables
  <2>3. \A d \in Env : e \notin frame[d].kid
    BY <1>k, Starts, Acting
  <2>4. \A d \in Env : \/ frame'[d] \in {Free, Orphan}
                       \/ d # e /\ frame'[d] = frame[d]
    BY <2>1 DEF OthersBut
  <2>5. \A d \in Env : Fills(d, frame'[d])
    <3> SUFFICES ASSUME NEW d \in Env
                 PROVE  Fills(d, frame'[d])
      OBVIOUS
    <3>1. CASE frame'[d] \in {Free, Orphan}
      BY <3>1, <1>i
    <3>2. CASE frame'[d] = frame[d]
      <4>1. \A k \in frame[d].kid : pt'[k] = pt[k]
        BY <2>2, <2>3, <1>k
      <4> QED
        BY <3>2, <4>1, <1>b
    <3> QED
      BY <2>4, <3>1, <3>2
  <2> QED
    BY <2>2, <2>4, <2>5, <1>b, <1>i, <1>q
<1>15. ASSUME NEW p \in Programs, spawn(e, p)
       PROVE  Places'
  BY <1>15, SpawnDoes, <1>w, <1>m, VaFacts
<1>16. CASE spawn_exofork(e)
  <2>1. PlacesOf(frame'[e], pt'[e]) /\ Fills(e, frame'[e])
    BY <1>16, SpawnExoforkDoes DEF PlacesOf, Place
  <2> QED
    BY <1>16, <2>1, <1>o, <1>g, SpawnExoforkDoes
<1>17. CASE init_stack(e)
  BY <1>17, <1>m, <1>w, InitStackDoes, VaFacts
<1>18. CASE init_stack_map(e)
  <2>1. CASE Only(e, UTEMP, Unmapped) /\ frame'[e].pc = "err1"
    BY <1>18, <2>1, <1>m, <1>w, InitStackMapDoes, VaFacts
  <2>2. CASE /\ pt' = [d \in Env |-> [w \in Va |->
                    IF d = Kid(e) /\ w = Stack THEN pt[e][UTEMP]
                    ELSE IF d = e /\ w = UTEMP THEN Unmapped ELSE pt[d][w]]]
             /\ frame[e].kid # {} /\ frame'[e].pc = "load"
    <3>1. \A k \in Env : k # e /\ k \notin frame[e].kid => pt'[k] = pt[k]
      BY <2>2, <1>b, TheKid DEF Tables
    <3> QED
      BY <1>18, <2>2, <3>1, <1>m, InitStackMapDoes
  <2> QED
    BY <1>18, <2>1, <2>2, InitStackMapDoes
<1>19. CASE spawn_mapper(e)
  <2>0. /\ Others(e) /\ frame[e].kid # {} /\ frame[e].todo # <<>>
        /\ frame'[e].kid = frame[e].kid
    BY <1>19, SpawnMapperDoes
  <2>1. Kid(e) \in Env /\ Next1(e).page \in Va /\ Next1(e).perm \in SUBSET Bits /\ frame[e].kid = {Kid(e)}
    BY <2>0, TheKid, Next1Call DEF Bits
  <2>2. CASE UNCHANGED pt /\ frame'[e].pc = "err1"
    BY <2>0, <2>2, <1>m
  <2> DEFINE new == NewPage(Kid(e), Next1(e).page)
  <2>3. CASE ~NoMemory /\ Only(Kid(e), Next1(e).page, Map(new, Next1(e).perm))
    <3>1. \A k \in Env : k # e /\ k \notin frame[e].kid => pt'[k] = pt[k]
      BY <2>1, <2>3, <1>w
    <3>2. CASE frame'[e].pc = "load"
      BY <2>0, <3>1, <3>2, <1>m
    <3>3. CASE frame'[e].pc = "load_map" /\ frame'[e].todo = frame[e].todo
      <4>1. new \in Page
        BY <2>1, <2>3, NewPageFresh DEF Basics
      <4>2. Map(new, Next1(e).perm).page # {}
        BY <2>1, <4>1, MapRow
      <4>3. pt'[Kid(e)][Next1(e).page].page # {}
        BY <2>1, <2>3, <4>2, <1>w
      <4>4. PlacesOf(frame'[e], pt'[e]) /\ Fills(e, frame'[e])
        BY <2>0, <2>1, <3>3, <4>3 DEF PlacesOf, Place, Next1
      <4> QED
        BY <2>0, <3>1, <4>4, <1>o
    <3> QED
      BY <1>19, <2>2, <3>2, <3>3, SpawnMapperDoes
  <2> QED
    BY <1>19, <2>2, <2>3, SpawnMapperDoes
<1>20. CASE mapper_map(e)
  <2>0. /\ Others(e) /\ frame[e].kid # {} /\ frame[e].todo # <<>> /\ frame[e].pc = "load_map"
        /\ Works1(frame'[e], frame[e])
    BY <1>20, MapperMapDoes
  <2>1. Kid(e) \in Env /\ Next1(e).page \in Va /\ frame[e].kid = {Kid(e)} /\ Kid(e) # e
    BY <2>0, TheKid, Next1Call
  <2>2. CASE Only(Kid(e), Next1(e).page, Unmapped) /\ frame'[e].pc = "err1"
    BY <2>0, <2>1, <2>2, <1>w, <1>m
  <2>3. CASE Only(e, UTEMP, Map(PageOf(Kid(e), Next1(e).page), {"D"})) /\ frame'[e].pc = "load_copy"
    <3>1. \A k \in Env \ {e} : pt'[k] = pt[k]
      BY <2>3, <1>w, VaFacts
    <3>2. PlacesOf(frame'[e], pt'[e]) /\ Fills(e, frame'[e])
      BY <2>0, <2>1, <2>3, <3>1, <1>b DEF PlacesOf, Place, Works1
    <3> QED
      BY <2>0, <3>1, <3>2, <1>o
  <2> QED
    BY <1>20, <2>2, <2>3, MapperMapDoes
<1>21. CASE mapper_copy(e)
  BY <1>21, <1>w, <1>m, MapperCopyDoes, VaFacts
\* The loop over the shared pages: Fd is not one of them, it is closed.
<1>s. ASSUME NEW a, Sharing(e, a), pt'[e][Fd] = Unmapped
      PROVE  PlacesOf(frame'[e], pt'[e]) /\ Fills(e, frame'[e])
  BY <1>s, MapRow DEF Sharing, PlacesOf, Place
<1>22. CASE spawn_close(e)
  BY <1>22, <1>w, <1>s, <1>o, SpawnCloseDoes, VaFacts
<1>23. CASE share(e)
  <2>0. /\ Others(e) /\ frame[e].pc = "share" /\ frame[e].kid # {} /\ frame[e].va \in Va
    BY <1>23, ShareDoes, VaFacts
  <2>1. Kid(e) \in Env /\ frame[e].kid = {Kid(e)} /\ Kid(e) # e
    BY <2>0, TheKid
  <2>2. CASE UNCHANGED pt /\ frame'[e].pc = "err2"
    BY <2>0, <2>2, <1>m
  <2>3. CASE Only(Kid(e), frame[e].va, pt[e][frame[e].va]) /\ Sharing(e, frame[e].va)
    <3>1. pt'[e] = pt[e] /\ \A k \in Env : k # e /\ k \notin frame[e].kid => pt'[k] = pt[k]
      BY <2>0, <2>1, <2>3, <1>w
    <3>2. pt[e][Fd] = Unmapped
      BY <2>0 DEF Basics, Temps, TempsOf
    <3> QED
      BY <2>0, <2>3, <3>1, <3>2, <1>s, <1>o
  <2> QED
    BY <1>23, <2>2, <2>3, ShareDoes
<1>24. CASE start(e)
  BY <1>24, StartDoes, <1>i, <1>b, <1>q DEF OthersBut
<1>25. CASE destroy(e)
  <2>1. /\ frame'[e].pc \in {"err", "run"}
        /\ (\A k \in frame[e].kid : frame'[k] = Free) /\ OthersBut(e, frame[e].kid)
        /\ pt' = [d \in Env |-> [w \in Va |-> IF d \in frame[e].kid THEN Unmapped ELSE pt[d][w]]]
    BY <1>25, DestroyDoes
  <2>2. \A k \in Env \ frame[e].kid : pt'[k] = pt[k]
    BY <2>1, <1>b DEF Tables
  <2>3. PlacesOf(frame'[e], pt'[e]) /\ Fills(e, frame'[e])
    BY <2>1 DEF PlacesOf, Place
  <2>4. ASSUME NEW d \in Env, d # e
        PROVE  PlacesOf(frame'[d], pt'[d]) /\ Fills(d, frame'[d])
    <3>1. CASE d \in frame[e].kid
      <4>1. frame'[d] = Free
        BY <2>1, <3>1
      <4>2. PlacesOf(Free, pt'[d]) /\ Fills(d, Free)
        BY <1>i
      <4> QED
        BY <4>1, <4>2
    <3>2. CASE d \notin frame[e].kid
      <4>1. frame'[d] = frame[d] /\ pt'[d] = pt[d]
        BY <2>1, <2>2, <2>4, <3>2 DEF OthersBut
      <4>2. \A k \in frame[d].kid : pt'[k] = pt[k]
        BY <2>2, <2>4, <1>k
      <4> QED
        BY <4>1, <4>2, <1>b
    <3> QED
      BY <3>1, <3>2
  <2> QED
    BY <2>3, <2>4, <1>q
<1>26. CASE err(e)
  BY <1>26, ErrDoes, <1>w, <1>m, Starts, VaFacts
<1> QED
  BY <1>3, <1>4, <1>5, <1>6, <1>7, <1>8, <1>9, <1>10, <1>11, <1>12, <1>13, <1>14, <1>15, <1>16, <1>17,
     <1>18, <1>19, <1>20, <1>21, <1>22, <1>23, <1>24, <1>25, <1>26 DEF ForkStep, SpawnStep

\* The initial states.
LEMMA BasicsInit == Init => Basics
<1> SUFFICES ASSUME Init
             PROVE  Basics
  OBVIOUS
<1> DEFINE cell(e, v) == IF e # First \/ v \notin Begin THEN Unmapped
                         ELSE Map(<<e, v, 1>>, IF v \in Lib THEN {"D", "LIB"} ELSE {"D"})
           P == {<<First, v, 1>> : v \in Begin}
<1>1. PICK taken \in SUBSET (Env \ {First}) :
        frame = [e \in Env |-> IF e = First THEN Running ELSE IF e \in taken THEN Other ELSE Free]
  BY DEF Init
<1>2. \A e \in Env : frame[e] \in {Running, Other, Free}
  BY <1>1
<1>3. /\ pt = [e \in Env |-> [v \in Va |-> cell(e, v)]]
      /\ mem = [p \in P |-> Zeros]
  BY DEF Init
<1> HIDE DEF cell
<1>4. Frames
  BY <1>1, <1>2, Starts DEF Frames
<1>5. Kids
  <2>1. \A e \in Env : frame[e].kid = {} /\ frame[e].pc \in {"run", "other", "free"}
    BY <1>2, Starts
  <2> QED
    BY <2>1 DEF Kids
<1>6. Begin \subseteq Va /\ IsFiniteSet(Begin) /\ Begin \subseteq Own \union (Lib \ {Fd})
  <2>1. IsFiniteSet(Own \union Lib)
    BY MemoryAssumption, FS_Union
  <2> QED
    BY <2>1, VaAssumption, FS_Subset DEF Va
<1>7. MaxPage >= 1 /\ MaxPage \in Nat
  <2>1. Begin # {} /\ Cardinality(Begin) \in Nat
    BY <1>6, FS_CardinalityType, VaAssumption
  <2>2. Cardinality(Begin) # 0
    BY <2>1, <1>6, FS_EmptySet
  <2> QED
    BY <2>1, <2>2, MemoryAssumption
<1>8. P \subseteq Page
  BY <1>6, <1>7, EnvAssumption DEF Page
<1>9. \A e \in Env, v \in Va :
        \/ cell(e, v) = Unmapped
        \/ e = First /\ v \in Begin /\ cell(e, v) = Map(<<First, v, 1>>, IF v \in Lib THEN {"D", "LIB"} ELSE {"D"})
  BY DEF cell
<1>10. Tables
  <2>1. \A e \in Env, v \in Va : cell(e, v) \in [page : SUBSET Page, perm : SUBSET Bits]
    BY <1>8, <1>9 DEF Unmapped, Map, Bits
  <2>2. \A e \in Env, v \in Va : cell(e, v) = Unmapped \/ \E p \in Page : cell(e, v).page = {p}
    <3> SUFFICES ASSUME NEW e \in Env, NEW v \in Va, cell(e, v) # Unmapped
                 PROVE  \E p \in Page : cell(e, v).page = {p}
      OBVIOUS
    <3>1. v \in Begin /\ cell(e, v).page = {<<First, v, 1>>}
      BY <1>9 DEF Map
    <3>2. <<First, v, 1>> \in Page
      BY <1>8, <3>1
    <3> QED
      BY <3>1, <3>2
  <2>3. \A e \in Env, v \in Va : pt[e][v] = cell(e, v)
    BY <1>3
  <2> QED
    BY <1>3, <2>1, <2>2, <2>3 DEF Tables
<1>11. \A e \in Env, v \in Va : pt[e][v] = cell(e, v)
  BY <1>3
<1>12. Perms
  <2>1. ASSUME NEW e \in Env, NEW v \in Va \ Lib
        PROVE  pt[e][v].perm \in {{}, {"D"}, {"COW"}}
    BY <1>9, <1>11 DEF Unmapped, Map
  <2>2. ASSUME NEW e \in Env, NEW v \in Lib \ {Fd}
        PROVE  pt[e][v] \in {Unmapped, Shared(v)}
    BY <1>9, <1>11, VaFacts DEF Shared
  <2> QED
    BY <2>1, <2>2 DEF Perms
<1>13. Temps
  <2>1. ASSUME NEW e \in Env
        PROVE  TempsOf(frame[e], pt[e])
    <3>1. pt[e][UTEMP] = Unmapped /\ pt[e][UCOW] = Unmapped /\ pt[e][Fd] = Unmapped
      <4>1. UTEMP \notin Begin /\ UCOW \notin Begin /\ Fd \notin Begin
        BY <1>6, VaFacts
      <4> QED
        BY <4>1, <1>9, <1>11, VaFacts
    <3>2. frame[e].pc \in {"run", "other", "free"} /\ (frame[e].pc \in {"free", "other"} => e # First)
      BY <1>1, Starts
    <3>3. e # First => pt[e] = NoPages
      BY <1>3 DEF cell, NoPages
    <3> QED
      BY <3>1, <3>2, <3>3 DEF TempsOf
  <2> QED
    BY <2>1 DEF Temps
<1>14. Places
  BY <1>2, Starts DEF Places, PlacesOf, Place
<1>15. Fits
  <2>1. Used(pt) \subseteq P
    BY <1>9, <1>11 DEF Used, Unmapped, Map
  <2>2. IsFiniteSet(P) /\ Cardinality(P) <= Cardinality(Begin)
    <3> DEFINE F == [v \in Begin |-> <<First, v, 1>>]
    <3>1. F \in Surjection(Begin, P)
      BY DEF Surjection
    <3> QED
      BY <3>1, <1>6, FS_Surjection
  <2>3. Cardinality(Used(pt)) <= Cardinality(P)
    BY <2>1, <2>2, FS_Subset
  <2>4. IsFiniteSet(Used(pt))
    BY <2>1, <2>2, FS_Subset
  <2>5. Cardinality(Used(pt)) \in Nat /\ Cardinality(P) \in Nat /\ Cardinality(Begin) \in Nat
    BY <2>2, <2>4, <1>6, FS_CardinalityType
  <2> QED
    BY <1>3, <2>1, <2>2, <2>3, <2>5, MemoryAssumption DEF Fits
<1> QED
  BY <1>4, <1>5, <1>10, <1>12, <1>13, <1>14, <1>15 DEF Basics

\* Where the processes are and what their page tables hold.
THEOREM ForkInvariance == Spec => []Basics
<1>1. Basics /\ [Next]_vars => Basics'
  BY FramesNext, TablesNext, PermsNext, TempsNext, PlacesNext DEF Basics
<1> QED
  BY <1>1, BasicsInit, PTL DEF Spec

\* A page with PTE_LIBRARY is one page for all processes that have it (duppage, the
\* sharing loop of spawn).
THEOREM SharedForGood == Spec => []SharedStaysShared
<1>1. Basics => SharedStaysShared
  BY VaFacts DEF Basics, Perms, SharedStaysShared, Unmapped
<1> QED
  BY <1>1, ForkInvariance, PTL

\* Whatever fails in fork or spawn, nothing is left behind (the error paths of
\* spawn, cow_entry).
THEOREM CleansUp == Spec => []NothingLeft
<1>1. Basics => NothingLeft
  <2> SUFFICES ASSUME Basics
               PROVE  NothingLeft
    OBVIOUS
  <2>1. ASSUME NEW e \in Env, frame[e].pc = "run"
        PROVE  \A v \in {UTEMP, UCOW, Fd} : pt[e][v] = Unmapped
    BY <2>1 DEF Basics, Temps, TempsOf
  <2>2. ASSUME NEW k \in Env, frame[k].pc = "embryo"
        PROVE  \E e \in Env : k \in frame[e].kid /\ Alive(e)
    <3>1. PICK e \in Env : k \in frame[e].kid
      BY <2>2 DEF Basics, Kids
    <3>2. Where(e) \in Copying \union Building
      BY <3>1 DEF Basics, Kids
    <3> QED
      BY <3>1, <3>2 DEF Alive, Where, Place
  <2> QED
    BY <2>1, <2>2 DEF NothingLeft
<1> QED
  BY <1>1, ForkInvariance, PTL
====
