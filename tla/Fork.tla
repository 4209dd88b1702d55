--------------------------------- MODULE Fork ---------------------------------
(***************************************************************************)
(* fork and copy-on-write (user/lib/fork.c), with the part of the kernel   *)
(* they rely on: do_tlb_mod (kern/tlbex.c) and the memory system calls.    *)
(*                                                                         *)
(* fork runs in user mode: the clock interrupt may come between any two of *)
(* its system calls, and the process keeps writing to its own stack while  *)
(* it shares it out.                                                       *)
(***************************************************************************)
EXTENDS Integers, Sequences, FiniteSets, SequencesExt

CONSTANTS
  Env,        \* slots of envs[]
  First,      \* the process there is at the start
  MaxPage,    \* physical pages
  PAGE_SIZE,
  Own,        \* private pages of a process, numbers in the order fork goes through
  Lib,        \* pages with PTE_LIBRARY, numbers of the same order
  Fd,         \* the one of Lib where a file can be opened
  Stack,      \* the page of Own a process writes to while it runs fork
  Begin,      \* the pages of Own and Lib the first process has at the start
  Values,     \* what a process may write
  MaxMade,    \* bound: calls of fork and spawn
  MaxFaults   \* bound: system calls that find no memory for a page table, and processes that end

ASSUME VaAssumption == Own \union Lib \subseteq Nat /\ Own \intersect Lib = {} /\ Fd \in Lib
                       /\ Begin \subseteq Own \union (Lib \ {Fd}) /\ Stack \in Own \intersect Begin
ASSUME EnvAssumption == First \in Env /\ IsFiniteSet(Env)
ASSUME MemoryAssumption == IsFiniteSet(Own) /\ IsFiniteSet(Lib) /\ PAGE_SIZE \in Nat \ {0}
                           /\ MaxPage \in Nat /\ Cardinality(Begin) <= MaxPage

Zeros == [i \in 1 .. PAGE_SIZE |-> 0]

UTEMP == -2
UCOW == -1
Va == {UTEMP, UCOW} \union Own \union Lib

\* A page is named for the env and the address it was allocated for; the number
\* tells it from one that was allocated there before and is still in use.
Page == Env \X Va \X (1 .. MaxPage)

VARIABLES
  mem,     \* what the pages in use hold
  pt,      \* page table of an env: the page and permission bits at an address
  entry,   \* env_user_tlb_mod_entry is set
  frame,   \* where an env is
  faults,  \* system calls that failed for want of memory, and processes ended
  made,    \* calls of fork and spawn so far
  panic,   \* do_tlb_mod found no handler, or passive_alloc no page
  view     \* history: what an env last wrote to a page of its own, or was given
           \* when it was made; <<>> if it was given none

vars == <<mem, pt, entry, frame, faults, made, panic, view>>

\* va: the page at work; kid: the env that is being made, {} when exofork failed;
\* perm: bits read; fault, back: the page of a TLB Mod and where it came from; prog,
\* todo: the program being loaded and what is left to do of it.
Running == [pc |-> "run", va |-> 0, kid |-> {}, perm |-> {}, fault |-> 0, back |-> "run",
            prog |-> <<>>, todo |-> <<>>]
Free == [Running EXCEPT !.pc = "free"]
Embryo == [Running EXCEPT !.pc = "embryo"]   \* ENV_NOT_RUNNABLE since exofork

Orphan == [Running EXCEPT !.pc = "orphan"]   \* one whose maker was killed
Other == [Running EXCEPT !.pc = "other"]     \* a process that has nothing to do with these
Alive(e) == frame[e].pc \notin {"free", "embryo", "orphan", "other"}

Unmapped == [page |-> {}, perm |-> {}]
Map(p, perm) == [page |-> {p}, perm |-> perm]
NoPages == [v \in Va |-> Unmapped]
PageOf(e, v) == CHOOSE p \in pt[e][v].page : TRUE

Given == [v \in Own |-> <<>>]

\* The first process, with pages of zeros; some slots are taken by others.
Init ==
  /\ mem = [p \in {<<First, v, 1>> : v \in Begin} |-> Zeros]
  /\ pt = [e \in Env |-> [v \in Va |->
             IF e # First \/ v \notin Begin THEN Unmapped
             ELSE Map(<<e, v, 1>>, IF v \in Lib THEN {"D", "LIB"} ELSE {"D"})]]
  /\ entry = [e \in Env |-> FALSE]
  /\ \E taken \in SUBSET (Env \ {First}) :
       frame = [e \in Env |-> IF e = First THEN Running ELSE IF e \in taken THEN Other ELSE Free]
  /\ faults = 0 /\ made = 0 /\ panic = FALSE
  /\ view = [e \in Env |-> [v \in Own |-> IF e = First /\ v \in Begin THEN Zeros ELSE <<>>]]

Used(tables) == UNION {tables[e][v].page : e \in Env, v \in Va}
NoMemory == Cardinality(Used(pt)) = MaxPage
NewPage(e, v) == <<e, v, CHOOSE i \in 1 .. MaxPage : <<e, v, i>> \notin Used(pt)>>

\* What the pages hold when the page tables are these: a page that is mapped nowhere
\* is free, and page_alloc clears it.
Filled(m, p, bytes) == [q \in DOMAIN m \union {p} |-> IF q = p THEN bytes ELSE m[q]]
Kept(m, tables) == [p \in Used(tables) |-> m[p]]

\* The system goes on only while the kernel has not stopped.
At(e, pc) == ~panic /\ frame[e].pc = pc
Goto(e, pc) == frame' = [frame EXCEPT ![e].pc = pc]

------------------------------------------------------------------------------
(* Writing, and the TLB Mod exception *)

\* The pages a process writes to where it is: any but its text, or its stack when it
\* is inside fork.
InFork == {"exofork", "dup", "dup_child", "dup_parent", "entry", "runnable"}
Writes(e) ==
  {v \in Own : /\ frame[e].pc = "run" \/ (frame[e].pc \in InFork /\ v = Stack)
               /\ pt[e][v].perm \intersect {"D", "COW"} # {}}

\* A process writes the first byte of a page.
write(e, v, x) ==
  /\ ~panic /\ v \in Writes(e) /\ "D" \in pt[e][v].perm
  /\ mem' = [mem EXCEPT ![PageOf(e, v)][1] = x]
  /\ view' = [view EXCEPT ![e][v][1] = x]
  /\ UNCHANGED <<pt, entry, frame, faults, made, panic>>

\* do_tlb_mod: a write to a page without PTE_D goes to the handler the process has
\* registered; the write is tried again when the handler is done.
do_tlb_mod(e, v) ==
  /\ ~panic /\ v \in Writes(e) /\ "D" \notin pt[e][v].perm
  /\ IF entry[e]
     THEN /\ frame' = [frame EXCEPT ![e].pc = "cow_copy", ![e].back = frame[e].pc,
                                    ![e].fault = v]
          /\ UNCHANGED panic
     ELSE panic' = TRUE /\ UNCHANGED frame
  /\ UNCHANGED <<mem, pt, entry, faults, made, view>>

\* cow_entry
Fault(e) == frame[e].fault
CowPerm(e) == (pt[e][Fault(e)].perm \ {"COW"}) \union {"D"}

\* A page at UCOW with the content of the faulting one.  The result of
\* syscall_mem_alloc is not looked at: without a page the copy makes passive_alloc
\* stop the kernel.
cow_copy(e) ==
  /\ At(e, "cow_copy") /\ "COW" \in pt[e][Fault(e)].perm
  /\ IF NoMemory THEN panic' = TRUE /\ UNCHANGED <<mem, pt, frame>>
     ELSE /\ pt' = [pt EXCEPT ![e][UCOW] = Map(NewPage(e, Fault(e)), CowPerm(e))]
          /\ mem' = Filled(mem, NewPage(e, Fault(e)), mem[PageOf(e, Fault(e))])
          /\ Goto(e, "cow_map") /\ UNCHANGED panic
  /\ UNCHANGED <<entry, faults, made, view>>

\* The page goes to its place; syscall_set_trapframe returns to the write.
cow_map(e) ==
  /\ At(e, "cow_map")
  /\ pt' = [pt EXCEPT ![e][Fault(e)] = Map(PageOf(e, UCOW), CowPerm(e)), ![e][UCOW] = Unmapped]
  /\ mem' = Kept(mem, pt')
  /\ frame' = [frame EXCEPT ![e].pc = frame[e].back, ![e].back = "run", ![e].fault = 0]
  /\ UNCHANGED <<entry, faults, made, panic, view>>

------------------------------------------------------------------------------
(* fork *)

Below(e, v) == {w \in Own \union Lib : w > v /\ pt[e][w].page # {}}
\* The next mapped page after v, or the end of the loop.
NextPage(e, f) ==
  IF Below(e, f.va) = {} THEN [f EXCEPT !.pc = "entry", !.va = 0, !.perm = {}]
  ELSE [f EXCEPT !.pc = "dup", !.perm = {},
                 !.va = CHOOSE w \in Below(e, f.va) : \A u \in Below(e, f.va) : w <= u]

\* Step 1: the handler of the caller.
call_fork(e) ==
  /\ At(e, "run") /\ made < MaxMade
  /\ made' = made + 1
  /\ entry' = [entry EXCEPT ![e] = TRUE]
  /\ Goto(e, "exofork")
  /\ UNCHANGED <<mem, pt, faults, panic, view>>

\* Step 2.  When there is no free env the negative result is taken for an env id,
\* and every system call for the child will fail.
exofork(e) ==
  /\ At(e, "exofork")
  /\ LET none == {k \in Env : frame[k] = Free} = {} IN
     \/ /\ none
        /\ frame' = [frame EXCEPT ![e] = NextPage(e, [@ EXCEPT !.va = -1, !.kid = {}])]
        /\ UNCHANGED entry
     \/ \E k \in Env :
          /\ frame[k] = Free
          /\ frame' = [frame EXCEPT ![k] = Embryo,
                                    ![e] = NextPage(e, [@ EXCEPT !.va = -1, !.kid = {k}])]
          /\ entry' = [entry EXCEPT ![k] = FALSE]
  /\ UNCHANGED <<mem, pt, faults, made, panic, view>>

\* duppage: the permission bits are read, and the page is mapped in the child.
\* perm & !PTE_D is 0: PTE_COW is all that is left.
Cow(perm) == "D" \in perm /\ "LIB" \notin perm /\ "COW" \notin perm

\* The call of duppage has itself written to the stack before the bits are read.
duppage(e) ==
  /\ At(e, "dup") /\ (frame[e].va = Stack => "D" \in pt[e][Stack].perm)
  /\ frame' = [frame EXCEPT ![e].pc = "dup_child", ![e].perm = pt[e][frame[e].va].perm]
  /\ UNCHANGED <<mem, pt, entry, faults, made, panic, view>>

\* Mutant: a shared page is copied on write like any other.
ChildPerm_Private(perm) == IF "D" \in perm THEN {"COW"} ELSE perm
ChildPerm(perm) == IF Cow(perm) THEN {"COW"} ELSE perm

\* The result of syscall_mem_map is not looked at.
duppage_child(e) ==
  LET f == frame[e] IN
  /\ At(e, "dup_child")
  /\ \/ /\ f.kid # {} /\ faults < MaxFaults
        /\ faults' = faults + 1
        /\ UNCHANGED <<pt, view>>
     \/ /\ pt' = [k \in Env |-> IF k \in f.kid
                                THEN [pt[k] EXCEPT ![f.va] = Map(PageOf(e, f.va), ChildPerm(f.perm))]
                                ELSE pt[k]]
        /\ view' = [k \in Env |-> IF k \in f.kid /\ f.va \in Own
                                  THEN [view[k] EXCEPT ![f.va] = view[e][f.va]] ELSE view[k]]
        /\ UNCHANGED faults
  /\ frame' = [frame EXCEPT ![e] = IF Cow(f.perm) THEN [@ EXCEPT !.pc = "dup_parent"]
                                   ELSE NextPage(e, f)]
  /\ UNCHANGED <<mem, entry, made, panic>>

\* Mutant: the parent keeps writing to the page it shares.
duppage_parent_Skip(e) ==
  /\ At(e, "dup_parent")
  /\ frame' = [frame EXCEPT ![e] = NextPage(e, @)]
  /\ UNCHANGED <<mem, pt, entry, faults, made, panic, view>>

\* Only now is the page frozen: the child has what the parent wrote until here.
duppage_parent(e) ==
  LET f == frame[e] IN
  /\ At(e, "dup_parent")
  /\ pt' = [pt EXCEPT ![e][f.va] = Map(PageOf(e, f.va), {"COW"})]
  /\ view' = [k \in Env |-> IF k \in f.kid /\ view[k][f.va] # <<>>
                            THEN [view[k] EXCEPT ![f.va] = view[e][f.va]] ELSE view[k]]
  /\ frame' = [frame EXCEPT ![e] = NextPage(e, f)]
  /\ UNCHANGED <<mem, entry, faults, made, panic>>

\* Mutant: the child's handler is not registered.
set_entry_Parent(e) ==
  /\ At(e, "entry") /\ Goto(e, "runnable")
  /\ UNCHANGED <<mem, pt, entry, faults, made, panic, view>>

\* Step 4
set_entry(e) ==
  /\ At(e, "entry")
  /\ entry' = [k \in Env |-> entry[k] \/ k \in frame[e].kid]
  /\ Goto(e, "runnable")
  /\ UNCHANGED <<mem, pt, faults, made, panic, view>>

set_runnable(e) ==
  /\ At(e, "runnable")
  /\ frame' = [k \in Env |-> IF k = e \/ (k \in frame[e].kid /\ frame[k] = Embryo) THEN Running
                             ELSE frame[k]]
  /\ UNCHANGED <<mem, pt, entry, faults, made, panic, view>>

\* A process ends, or another destroys it: env_free.  The env it was making stays as
\* it is, and nobody will ever start or destroy it.
env_free(e) ==
  /\ ~panic /\ Alive(e) /\ faults < MaxFaults
  /\ faults' = faults + 1
  /\ pt' = [pt EXCEPT ![e] = NoPages]
  /\ frame' = [k \in Env |-> IF k = e THEN Free ELSE IF k \in frame[e].kid THEN Orphan ELSE frame[k]]
  /\ mem' = Kept(mem, pt')
  /\ view' = [view EXCEPT ![e] = Given]
  /\ entry' = [entry EXCEPT ![e] = FALSE]
  /\ UNCHANGED <<made, panic>>

ForkStep(e) ==
  \/ \E v \in Own : do_tlb_mod(e, v) \/ \E x \in Values : write(e, v, x)
  \/ cow_copy(e) \/ cow_map(e)
  \/ call_fork(e) \/ exofork(e) \/ duppage(e) \/ duppage_child(e) \/ duppage_parent(e)
  \/ set_entry(e) \/ set_runnable(e) \/ env_free(e)

------------------------------------------------------------------------------
(* Properties *)

\* A process sees at its private addresses what it wrote itself, or what its parent
\* had there when fork shared the page, whatever its relatives write, share further
\* or end: PTE_COW, duppage's order and cow_entry.  (A page the child never got,
\* because duppage ignores an error, is left out.)
Isolation ==
  \A e \in Env, v \in Own :
    Alive(e) /\ view[e][v] # <<>> => pt[e][v].page # {} /\ mem[PageOf(e, v)] = view[e][v]

\* A page with PTE_LIBRARY stays one page for all the processes that come from one:
\* what any of them writes there all of them see.  (At Fd each process that runs spawn
\* has a file of its own open.)
SharedStaysShared ==
  \A d, e \in Env, v \in Lib \ {Fd} :
    Alive(d) /\ Alive(e) /\ pt[d][v].page # {} /\ pt[e][v].page # {} => pt[d][v] = pt[e][v]

\* A process that may meet a copy-on-write page has registered its handler, so the
\* kernel never has to stop in do_tlb_mod: it stops only for want of pages.
HandlerReady == panic => NoMemory
=============================================================================
