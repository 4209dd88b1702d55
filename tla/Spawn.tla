-------------------------------- MODULE Spawn --------------------------------
(***************************************************************************)
(* spawn (user/lib/spawn.c) and the ELF loader it uses (lib/elfloader.c):  *)
(* a process makes a child from a program file, one system call at a time, *)
(* and takes everything back when a call fails.  Composed with fork, which *)
(* the same processes call.                                                *)
(***************************************************************************)
EXTENDS Fork

CONSTANT
  Programs    \* what spawn may be asked to run: elf: the file has an ELF header; segs:
              \* its segments; fits: the arguments fit in a page; args: that page

\* A segment [va, memsz, writable, bytes]: bytes is what the file has of it.  The
\* first page is filled by the file, or is the last one (see elf_load_seg).
GoodSegment(s) ==
  \/ s.va % PAGE_SIZE = 0
  \/ Len(s.bytes) >= PAGE_SIZE - (s.va % PAGE_SIZE)
  \/ Len(s.bytes) = s.memsz
ASSUME ProgramAssumption ==
  \A p \in Programs, i \in 1 .. 2 :
    i \in DOMAIN p.segs => GoodSegment(p.segs[i]) /\ Len(p.segs[i].bytes) <= p.segs[i].memsz

------------------------------------------------------------------------------
(* lib/elfloader.c *)

RoundUp(n) == IF n <= 0 THEN 0 ELSE (n + PAGE_SIZE - 1) \div PAGE_SIZE
Least(m, n) == IF m <= n THEN m ELSE n

\* A call of the mapper: its page, where the bytes go in it, and the bytes (none
\* for a NULL source).
Call(s, i, offset, n) ==
  [page |-> (s.va + i) \div PAGE_SIZE, perm |-> IF s.writable THEN {"D"} ELSE {},
   offset |-> offset, bytes |-> SubSeq(s.bytes, i + 1, i + n)]

\* elf_load_seg: the calls of the mapper in their order: the rest of the first page
\* when va is not at its start, then the pages of the file, then pages of zeros.
elf_load_seg(s) ==
  LET size == Len(s.bytes)
      offset == s.va % PAGE_SIZE
      first == IF offset = 0 THEN 0 ELSE Least(size, PAGE_SIZE - offset)
      file == RoundUp(size - first)
      zero == RoundUp(s.memsz - first - file * PAGE_SIZE)
      At1(j) == first + (j - 1) * PAGE_SIZE
  IN (IF offset = 0 THEN <<>> ELSE <<Call(s, 0, offset, first)>>)
     \o [j \in 1 .. file |-> Call(s, At1(j), 0, Least(size - At1(j), PAGE_SIZE))]
     \o [j \in 1 .. zero |-> Call(s, At1(file + j), 0, 0)]

\* ELF_FOREACH_PHDR_OFF: the segments in the order of their headers.
Calls(prog) == FlattenSeq([i \in DOMAIN prog.segs |-> elf_load_seg(prog.segs[i])])

\* What the program's memory should be at v, <<>> where it has none: the definition
\* the loader is compared with.
Inside(s, a) == a >= s.va /\ a < s.va + s.memsz
Byte(prog, a) ==
  LET in == {i \in DOMAIN prog.segs : Inside(prog.segs[i], a) /\ a - prog.segs[i].va < Len(prog.segs[i].bytes)}
  IN IF in = {} THEN 0
     ELSE LET s == prog.segs[CHOOSE i \in in : TRUE] IN s.bytes[a - s.va + 1]
Image(prog, v) ==
  IF v = Stack THEN prog.args
  ELSE IF \E i \in DOMAIN prog.segs, b \in 0 .. PAGE_SIZE - 1 : Inside(prog.segs[i], v * PAGE_SIZE + b)
  THEN [b \in 1 .. PAGE_SIZE |-> Byte(prog, v * PAGE_SIZE + b - 1)]
  ELSE <<>>

\* What a call of the mapper leaves in its page.
Content(c) ==
  [i \in 1 .. PAGE_SIZE |-> IF i - c.offset \in DOMAIN c.bytes THEN c.bytes[i - c.offset] ELSE 0]

\* The segments lie in private pages below the stack, and the last call for a page
\* leaves what the segments describe there: what elf_load_seg has to get right for the
\* programs at hand.
LoadCall == [page : Own \ {Stack}, perm : SUBSET {"D"}, offset : Nat, bytes : Seq(Nat)]
LoadsImage(prog) ==
  LET calls == Calls(prog) IN
  /\ calls \in Seq(LoadCall)
  /\ \A j \in DOMAIN calls :
       (\A i \in j + 1 .. Len(calls) : calls[i].page # calls[j].page)
         => Image(prog, calls[j].page) = Content(calls[j])
  /\ \A v \in Own \ {Stack} : (\A j \in DOMAIN calls : calls[j].page # v) => Image(prog, v) = <<>>
ASSUME LoaderAssumption ==
  \A p \in Programs : LoadsImage(p) /\ p.args \in [1 .. PAGE_SIZE -> Nat]

------------------------------------------------------------------------------
(* spawn *)

Step(e, g) == frame' = [frame EXCEPT ![e] = g]
To(e, pc) == Step(e, [frame[e] EXCEPT !.pc = pc])

\* A system call for the child that finds no page for a page table, or no child.
Fails(e) ==
  /\ frame[e].kid = {} \/ faults < MaxFaults
  /\ faults' = IF frame[e].kid = {} THEN faults ELSE faults + 1
Works(e) == frame[e].kid # {} /\ UNCHANGED faults
Kid(e) == CHOOSE k \in frame[e].kid : TRUE
KidGone(e) == [k \in Env |-> IF k \in frame[e].kid THEN NoPages ELSE pt[k]]

\* The file is open: its descriptor and data are at Fd.  (An open that fails returns
\* with nothing changed.)
spawn(e, p) ==
  /\ At(e, "run") /\ made < MaxMade /\ ~NoMemory
  /\ made' = made + 1
  /\ pt' = [pt EXCEPT ![e][Fd] = Map(NewPage(e, Fd), {"D", "LIB"})]
  /\ mem' = Filled(mem, NewPage(e, Fd), Zeros)
  /\ Step(e, [frame[e] EXCEPT !.pc = "header", !.prog = p])
  /\ UNCHANGED <<entry, faults, panic, view>>

\* elf_from, and syscall_exofork: its result is unsigned, so "< 0" never holds.
spawn_exofork(e) ==
  /\ At(e, "header")
  /\ LET slots == {k \in Env : frame[k] = Free} IN
     \/ ~frame[e].prog.elf /\ To(e, "err")
     \/ frame[e].prog.elf /\ slots = {} /\ To(e, "stack")
     \/ /\ frame[e].prog.elf
        /\ \E k \in slots : frame' = [frame EXCEPT ![k] = Embryo, ![e].pc = "stack", ![e].kid = {k}]
  /\ UNCHANGED <<mem, pt, entry, faults, made, panic, view>>

\* init_stack: the arguments must fit in one page, which is filled at UTEMP ...
init_stack(e) ==
  /\ At(e, "stack")
  /\ IF ~frame[e].prog.fits \/ NoMemory
     THEN To(e, "err1") /\ UNCHANGED <<mem, pt>>
     ELSE /\ pt' = [pt EXCEPT ![e][UTEMP] = Map(NewPage(e, UTEMP), {"D"})]
          /\ mem' = Filled(mem, NewPage(e, UTEMP), frame[e].prog.args)
          /\ To(e, "stack_map")
  /\ UNCHANGED <<entry, faults, made, panic, view>>

\* Mutant: an error leaves the page at UTEMP.
init_stack_map_Keep(e) ==
  /\ At(e, "stack_map")
  /\ \/ Fails(e) /\ To(e, "err1") /\ UNCHANGED pt
     \/ /\ Works(e) /\ Step(e, [frame[e] EXCEPT !.pc = "load", !.todo = Calls(frame[e].prog)])
        /\ pt' = [pt EXCEPT ![Kid(e)][Stack] = Map(PageOf(e, UTEMP), {"D"}), ![e][UTEMP] = Unmapped]
  /\ UNCHANGED <<mem, entry, made, panic, view>>

\* ... becomes the child's stack, and is unmapped here either way.
init_stack_map(e) ==
  /\ At(e, "stack_map")
  /\ \/ /\ Fails(e) /\ To(e, "err1")
        /\ pt' = [pt EXCEPT ![e][UTEMP] = Unmapped]
     \/ /\ Works(e) /\ Step(e, [frame[e] EXCEPT !.pc = "load", !.todo = Calls(frame[e].prog)])
        /\ pt' = [pt EXCEPT ![Kid(e)][Stack] = Map(PageOf(e, UTEMP), {"D"}), ![e][UTEMP] = Unmapped]
  /\ mem' = Kept(mem, pt')
  /\ UNCHANGED <<entry, made, panic, view>>

\* spawn_mapper: a page of zeros for the child ...
Next1(e) == Head(frame[e].todo)
Done1(e) == [frame[e] EXCEPT !.pc = "load", !.todo = Tail(@)]

spawn_mapper(e) ==
  /\ At(e, "load") /\ frame[e].todo # <<>>
  /\ \/ /\ Fails(e) \/ (NoMemory /\ UNCHANGED faults)
        /\ To(e, "err1") /\ UNCHANGED <<mem, pt>>
     \/ /\ Works(e) /\ ~NoMemory
        /\ LET new == NewPage(Kid(e), Next1(e).page) IN
           /\ pt' = [pt EXCEPT ![Kid(e)][Next1(e).page] = Map(new, Next1(e).perm)]
           /\ mem' = Kept(Filled(mem, new, Zeros), pt')
        /\ Step(e, IF Next1(e).bytes = <<>> THEN Done1(e) ELSE [frame[e] EXCEPT !.pc = "load_map"])
  /\ UNCHANGED <<entry, made, panic, view>>

\* ... seen through UTEMP ...
mapper_map(e) ==
  /\ At(e, "load_map")
  /\ \/ /\ Fails(e) /\ To(e, "err1")
        /\ pt' = [pt EXCEPT ![Kid(e)][Next1(e).page] = Unmapped]
     \/ /\ Works(e) /\ To(e, "load_copy")
        /\ pt' = [pt EXCEPT ![e][UTEMP] =
                    Map(PageOf(Kid(e), Next1(e).page), Next1(e).perm \union {"D"})]
  /\ mem' = Kept(mem, pt')
  /\ UNCHANGED <<entry, made, panic, view>>

\* ... where the bytes of the file are copied.
mapper_copy(e) ==
  LET c == Next1(e) IN
  /\ At(e, "load_copy")
  /\ mem' = [mem EXCEPT ![PageOf(e, UTEMP)] =
               [i \in 1 .. PAGE_SIZE |->
                  IF i - c.offset \in DOMAIN c.bytes THEN c.bytes[i - c.offset] ELSE @[i]]]
  /\ pt' = [pt EXCEPT ![e][UTEMP] = Unmapped]
  /\ Step(e, Done1(e))
  /\ UNCHANGED <<entry, faults, made, panic, view>>

\* The next page with PTE_LIBRARY after f.va, or the end of that loop.
NextShared(f, tables) ==
  LET later == {w \in Lib : w > f.va /\ "LIB" \in tables[w].perm} IN
  IF later = {} THEN [f EXCEPT !.pc = "start", !.va = 0]
  ELSE [f EXCEPT !.pc = "share", !.va = CHOOSE w \in later : \A u \in later : w <= u]

\* Mutant: the program's file stays open until the pages are shared.
spawn_close_Late(e) ==
  /\ At(e, "load") /\ frame[e].todo = <<>>
  /\ Step(e, NextShared([frame[e] EXCEPT !.va = -1], pt[e]))
  /\ UNCHANGED <<mem, pt, entry, faults, made, panic, view>>

\* close, and the entry point and stack pointer in the child's trap frame.
spawn_close(e) ==
  /\ At(e, "load") /\ frame[e].todo = <<>>
  /\ pt' = [pt EXCEPT ![e][Fd] = Unmapped]
  /\ mem' = Kept(mem, pt')
  /\ Step(e, NextShared([frame[e] EXCEPT !.va = -1], pt'[e]))
  /\ UNCHANGED <<entry, faults, made, panic, view>>

share(e) ==
  LET f == frame[e] IN
  /\ At(e, "share")
  /\ \/ Fails(e) /\ To(e, "err2") /\ UNCHANGED pt
     \/ /\ Works(e) /\ Step(e, NextShared(f, pt[e]))
        /\ pt' = [pt EXCEPT ![Kid(e)][f.va] = pt[e][f.va]]
  /\ UNCHANGED <<mem, entry, made, panic, view>>

\* syscall_set_env_status
start(e) ==
  /\ At(e, "start")
  /\ frame' = [frame EXCEPT ![e] = Running, ![Kid(e)] = Running]
  /\ view' = [view EXCEPT ![Kid(e)] = [v \in Own |-> Image(frame[e].prog, v)]]
  /\ UNCHANGED <<mem, pt, entry, faults, made, panic>>

\* err1, err2: the child is destroyed; err1 goes on to close the file.
destroy(e) ==
  /\ At(e, "err1") \/ At(e, "err2")
  /\ pt' = KidGone(e)
  /\ mem' = Kept(mem, pt')
  /\ frame' = [k \in Env |->
       IF k = e THEN IF frame[e].pc = "err1" THEN [frame[e] EXCEPT !.pc = "err", !.kid = {}]
                     ELSE Running
       ELSE IF k \in frame[e].kid THEN Free ELSE frame[k]]
  /\ UNCHANGED <<entry, faults, made, panic, view>>

err(e) ==
  /\ At(e, "err")
  /\ pt' = [pt EXCEPT ![e][Fd] = Unmapped]
  /\ mem' = Kept(mem, pt')
  /\ Step(e, Running)
  /\ UNCHANGED <<entry, faults, made, panic, view>>

SpawnStep(e) ==
  \/ \E p \in Programs : spawn(e, p)
  \/ spawn_exofork(e) \/ init_stack(e) \/ init_stack_map(e)
  \/ spawn_mapper(e) \/ mapper_map(e) \/ mapper_copy(e) \/ spawn_close(e)
  \/ share(e) \/ start(e) \/ destroy(e) \/ err(e)

Next == \E e \in Env : ForkStep(e) \/ SpawnStep(e)
Spec == Init /\ [][Next]_vars

------------------------------------------------------------------------------
(* Properties *)

\* When spawn starts its child, the child's memory is exactly the image the segments
\* describe, with the arguments on its stack, and of the caller's pages it has those
\* with PTE_LIBRARY and no other: elf_load_seg, spawn_mapper and the loop after
\* close.
ChildComplete ==
  \A e \in Env : frame[e].pc = "start" =>
    /\ \A v \in Own : LET want == Image(frame[e].prog, v) IN
         IF want = <<>> THEN pt[Kid(e)][v] = Unmapped
         ELSE pt[Kid(e)][v] # Unmapped /\ mem[PageOf(Kid(e), v)] = want
    /\ \A v \in Lib : pt[Kid(e)][v] = pt[e][v]
    /\ pt[Kid(e)][Fd] = Unmapped

\* However fork and spawn end, they leave nothing behind: the file is closed, UTEMP
\* and UCOW are unmapped, and an env that is not runnable still has its maker at
\* work (unless that was killed).
NothingLeft ==
  /\ \A e \in Env : frame[e].pc = "run" => \A v \in {UTEMP, UCOW, Fd} : pt[e][v] = Unmapped
  /\ \A k \in Env : frame[k].pc = "embryo" => \E e \in Env : k \in frame[e].kid /\ Alive(e)
=============================================================================
