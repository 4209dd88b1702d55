--------------------------------- MODULE Pmap ---------------------------------
(***************************************************************************)
(* Physical pages, two-level page tables and the TLB (kern/pmap.c,         *)
(* kern/tlbex.c, kern/tlb_asm.S), under everything that changes them: the  *)
(* creation and the end of an address space (kern/env.c), the memory       *)
(* system calls (kern/syscall_all.c) and the accesses of user code.        *)
(*                                                                         *)
(* Tables live in physical pages, as in the machine: what a table says is  *)
(* the content 'mem' of its page, so a page that is freed too early, reused *)
(* without being cleared or written by user code corrupts a table.         *)
(*                                                                         *)
(* A page holds NSlot words.  A virtual page is a pair <<PDX, PTX>>; the   *)
(* last directory slot, VPT, maps the page directory onto itself (UVPT).   *)
(* The slots between UTOP and UVPT, which hold the same read-only kernel   *)
(* pages in every address space, are left out.                             *)
(***************************************************************************)
EXTENDS Integers, FiniteSets

CONSTANTS
  Page,     \* the physical pages page_init puts on the free list
  NoPage,   \* no page: a NULL pointer, or the address in an invalid entry
  NSlot,    \* words per page (1024)
  Asid,     \* the address space ids
  RefMod,   \* pp_ref is a u_short: 2^16
  Va,       \* the legal virtual pages user code names in calls and accesses
  BadVa,    \* virtual pages passive_alloc refuses (below UTEMP, stack guard)
  IpcDst    \* the env_ipc_dstva of receivers that are sent a page

ASSUME NoPageAssumption == NoPage \notin Page
ASSUME NSlotAssumption == NSlot \in Nat \ {0} /\ NSlot % 2 = 0
ASSUME RefModAssumption == RefMod \in Nat \ {0, 1}
ASSUME AsidAssumption == IsFiniteSet(Asid)

Slot == 0 .. NSlot - 1
VPT  == NSlot - 1                 \* PDX(UVPT)
UserSlot == 0 .. NSlot - 2        \* the directory slots below UTOP

ASSUME VaAssumption == Va \subseteq UserSlot \X Slot
ASSUME BadVaAssumption == BadVa \subseteq (UserSlot \X Slot) \ Va
ASSUME IpcDstAssumption == IpcDst \subseteq Va \cup BadVa

PDX(va) == va[1]
PTX(va) == va[2]
\* Mutant: the address is not rounded down to a pair of pages.
VPN2_OnePage(va) == <<PDX(va), PTX(va)>>

VPN2(va) == <<PDX(va), PTX(va) \div 2>>   \* a TLB entry maps two pages

(* A word of a page: zero, an entry (page, PTE_D) with PTE_V set, or data   *)
(* that user code wrote, whose bits are not looked at.                      *)
Zero == [page |-> NoPage, d |-> FALSE]
UserData == [page |-> NoPage, d |-> TRUE]
Pte(p, d) == [page |-> p, d |-> d]
Word == [page : Page \cup {NoPage}, d : BOOLEAN]
Valid(w) == w.page # NoPage
Cleared == [s \in Slot |-> Zero]

VARIABLES
  page_free_list,  \* as a set: no property depends on the order of allocation
  pp_ref,
  mem,             \* the words of every page
  env_pgdir,       \* the page directory of the env that owns an asid, or NoPage
  tlb,             \* a set of entries [asid, vpn2, lo]
  panicked,        \* "no", or why the kernel stopped
  lost             \* history: pages a failing call has dropped

vars == <<page_free_list, pp_ref, mem, env_pgdir, tlb, panicked, lost>>

\* What the functions of pmap.c read and write, as one value.  'fault' is set
\* when an assertion fails.
Memory == [free |-> page_free_list, ref |-> pp_ref, mem |-> mem, tlb |-> tlb, fault |-> FALSE]

------------------------------------------------------------------------------
(* kern/pmap.c and tlb_out *)

Init ==
  /\ page_free_list = Page
  /\ pp_ref = [p \in Page |-> 0]
  /\ mem = [p \in Page |-> Cleared]
  /\ env_pgdir = [a \in Asid |-> NoPage]
  /\ tlb = {}
  /\ panicked = "no"
  /\ lost = {}

\* The pages page_alloc may return from the list 'free'; NoPage for -E_NO_MEM.
page_alloc_choices(free) == IF free = {} THEN {NoPage} ELSE free

\* Mutant: the page stays on the free list.
page_alloc_NoRemove(M, p) == [M EXCEPT !.mem[p] = Cleared]

\* page_alloc returned p.
page_alloc(M, p) == [M EXCEPT !.free = @ \ {p}, !.mem[p] = Cleared]

page_free(M, p) == [M EXCEPT !.free = @ \cup {p}]

\* Mutant: the page is not freed with its last reference.
page_decref_NoFree(M, p) == [M EXCEPT !.fault = @ \/ M.ref[p] = 0, !.ref[p] = (@ - 1) % RefMod]

page_decref(M, p) ==
  LET N == [M EXCEPT !.fault = @ \/ M.ref[p] = 0, !.ref[p] = (@ - 1) % RefMod]
  IN  IF M.ref[p] = 1 THEN page_free(N, p) ELSE N

tlb_invalidate(M, asid, va) ==
  [M EXCEPT !.tlb = {t \in @ : ~(t.asid = asid /\ t.vpn2 = VPN2(va))}]

\* pgdir_walk without 'create': the entry's place, <<>> when there is no table.
pgdir_walk(M, pgdir, va) ==
  LET pde == M.mem[pgdir][PDX(va)]
  IN  IF Valid(pde) THEN <<pde.page, PTX(va)>> ELSE <<>>

\* Mutant: the new table is mapped writable.
pgdir_walk_create_Writable(M, pgdir, va, pt) ==
  [page_alloc(M, pt) EXCEPT !.ref[pt] = 1, !.mem[pgdir][PDX(va)] = Pte(pt, TRUE)]

\* pgdir_walk with 'create', which took page pt for the table.
pgdir_walk_create(M, pgdir, va, pt) ==
  [page_alloc(M, pt) EXCEPT !.ref[pt] = 1, !.mem[pgdir][PDX(va)] = Pte(pt, FALSE)]

page_lookup(M, pgdir, va) ==
  LET at == pgdir_walk(M, pgdir, va)
  IN  IF at = <<>> THEN Zero ELSE M.mem[at[1]][at[2]]

Store(M, at, w) == [M EXCEPT !.mem[at[1]][at[2]] = w]

\* Mutant: the TLB is not flushed.
page_remove_NoFlush(M, pgdir, asid, va) ==
  LET pte == page_lookup(M, pgdir, va)
  IN  IF Valid(pte)
      THEN Store(page_decref(M, pte.page), pgdir_walk(M, pgdir, va), Zero)
      ELSE M

page_remove(M, pgdir, asid, va) ==
  LET pte == page_lookup(M, pgdir, va)
  IN  IF Valid(pte)
      THEN tlb_invalidate(Store(page_decref(M, pte.page), pgdir_walk(M, pgdir, va), Zero), asid, va)
      ELSE M

\* page_insert needs a table that is not there, and finds no page for it.
page_insert_fails(M, pgdir, va, pt) == pgdir_walk(M, pgdir, va) = <<>> /\ pt = NoPage

\* page_insert; pt is the page taken if a table has to be created.
page_insert(M, pgdir, asid, p, va, perm, pt) ==
  LET old     == page_lookup(M, pgdir, va)
      removed == tlb_invalidate(page_remove(M, pgdir, asid, va), asid, va)
      walked  == IF pgdir_walk(M, pgdir, va) = <<>>
                 THEN pgdir_walk_create(removed, pgdir, va, pt) ELSE removed
  IN  IF old.page = p
      THEN Store(tlb_invalidate(M, asid, va), pgdir_walk(M, pgdir, va), Pte(p, perm))
      ELSE IF page_insert_fails(M, pgdir, va, pt)
      THEN removed
      ELSE [Store(walked, pgdir_walk(walked, pgdir, va), Pte(p, perm))
              EXCEPT !.ref[p] = (@ + 1) % RefMod]

\* A handler leaves the memory M.
Commit(M) ==
  /\ page_free_list' = M.free
  /\ pp_ref' = M.ref
  /\ mem' = M.mem
  /\ tlb' = M.tlb
  /\ panicked' = IF M.fault THEN "assertion failed" ELSE panicked

------------------------------------------------------------------------------
(* kern/env.c: address spaces *)

Up == panicked = "no"
LiveAsid == {a \in Asid : env_pgdir[a] # NoPage}

\* env_setup_vm took page p for the directory.
env_setup_vm(M, p) == [page_alloc(M, p) EXCEPT !.ref[p] = @ + 1, !.mem[p][VPT] = Pte(p, FALSE)]

env_alloc(a) ==
  /\ Up
  /\ env_pgdir[a] = NoPage
  /\ \E p \in page_free_list :
       /\ Commit(env_setup_vm(Memory, p))
       /\ env_pgdir' = [env_pgdir EXCEPT ![a] = p]
  /\ UNCHANGED lost

\* env_alloc finds no asid after env_setup_vm: the slot stays free, and its
\* directory is forgotten when the slot is tried again.
env_alloc_no_asid ==
  /\ Up
  /\ LiveAsid = Asid
  /\ \E p \in page_free_list :
       /\ Commit(env_setup_vm(Memory, p))
       /\ lost' = lost \cup {p}
  /\ UNCHANGED env_pgdir

\* The pairs of pages env_free invalidates, page_remove included.
env_free_flushed(mapped, tables) ==
  {VPN2(va) : va \in mapped} \cup {VPN2(<<VPT, s>>) : s \in tables \cup {VPT}}

\* env_free: every mapped page below UTOP is removed, then its table is
\* released, then the directory.  'drops' counts the page_decref of a page.
env_free(a) ==
  LET dir    == env_pgdir[a]
      mapped == {va \in UserSlot \X Slot : Valid(page_lookup(Memory, dir, va))}
      tables == {s \in UserSlot : Valid(mem[dir][s])}
      drops(p) == Cardinality({va \in mapped : page_lookup(Memory, dir, va).page = p})
                  + Cardinality({s \in tables : mem[dir][s].page = p})
                  + (IF p = dir THEN 1 ELSE 0)
  IN  Commit([free  |-> page_free_list \cup {p \in Page : drops(p) > 0 /\ pp_ref[p] = drops(p)},
              ref   |-> [p \in Page |-> (pp_ref[p] - drops(p)) % RefMod],
              mem   |-> [p \in Page |->
                           IF p = dir
                           THEN [s \in Slot |-> IF s = VPT THEN mem[p][s] ELSE Zero]
                           ELSE IF \E s \in tables : mem[dir][s].page = p
                           THEN [s \in Slot |-> IF Valid(mem[p][s]) THEN Zero ELSE mem[p][s]]
                           ELSE mem[p]],
              tlb   |-> {t \in tlb : ~(t.asid = a /\ t.vpn2 \in env_free_flushed(mapped, tables))},
              fault |-> \E p \in Page : drops(p) > pp_ref[p]])

env_destroy(a) ==
  /\ Up
  /\ env_pgdir[a] # NoPage
  /\ env_free(a)
  /\ env_pgdir' = [env_pgdir EXCEPT ![a] = NoPage]
  /\ UNCHANGED lost

------------------------------------------------------------------------------
(* kern/syscall_all.c.  A call names live envs that the caller may name; here *)
(* any.  Calls that change nothing (-E_INVAL, -E_BAD_ENV, no page at all) are *)
(* no steps.                                                                *)

\* Also load_icode_mapper.  When page_insert fails, the page just allocated is
\* neither mapped nor freed.
sys_mem_alloc(a, va, perm) ==
  /\ Up
  /\ \E p \in page_free_list : \E pt \in page_alloc_choices(page_free_list \ {p}) :
       LET M == page_alloc(Memory, p) IN
       /\ Commit(page_insert(M, env_pgdir[a], a, p, va, perm, pt))
       /\ lost' = IF page_insert_fails(M, env_pgdir[a], va, pt) THEN lost \cup {p} ELSE lost
  /\ UNCHANGED env_pgdir

sys_mem_map(a, srcva, b, dstva, perm) ==
  /\ Up
  /\ LET pte == page_lookup(Memory, env_pgdir[a], srcva) IN
     /\ Valid(pte)
     /\ \E pt \in page_alloc_choices(page_free_list) :
          Commit(page_insert(Memory, env_pgdir[b], b, pte.page, dstva, perm, pt))
  /\ UNCHANGED <<env_pgdir, lost>>

\* The page part of sys_ipc_try_send, once b is known to be receiving: dstva
\* was checked by sys_ipc_recv, which also lets 0 through.
sys_ipc_try_send(a, srcva, b, dstva, perm) ==
  /\ a # b /\ dstva \in IpcDst
  /\ sys_mem_map(a, srcva, b, dstva, perm)

sys_mem_unmap(a, va) ==
  /\ Up
  /\ Commit(page_remove(Memory, env_pgdir[a], a, va))
  /\ UNCHANGED <<env_pgdir, lost>>

------------------------------------------------------------------------------
(* kern/tlbex.c: user code of address space a accesses va. *)

\* Mutant: every address is served.
passive_alloc_refuses_None(va) == FALSE

passive_alloc_refuses(va) == va \in BadVa

\* The word the TLB holds for va: {} on a miss.
tlb_hit(a, va) == {t.lo[PTX(va) % 2] : t \in {x \in tlb : x.asid = a /\ x.vpn2 = VPN2(va)}}

\* do_tlb_refill: the pair of entries around va, into a random slot: tlbwr may
\* overwrite any one entry.
tlbwr(M, a, va) ==
  LET at   == pgdir_walk(M, env_pgdir[a], va)
      even == 2 * (at[2] \div 2)
      new  == [asid |-> a, vpn2 |-> VPN2(va),
               lo |-> [i \in 0 .. 1 |-> M.mem[at[1]][even + i]]]
  IN  \E victims \in {{}} \cup {{t} : t \in M.tlb} :
        Commit([M EXCEPT !.tlb = (@ \ victims) \cup {new}])

do_tlb_refill(a, va) ==
  LET M   == tlb_invalidate(Memory, a, va)
      dir == env_pgdir[a]
  IN
  /\ Up
  /\ \A w \in tlb_hit(a, va) : ~Valid(w)
  /\ \/ /\ Valid(page_lookup(M, dir, va))
        /\ tlbwr(M, a, va)
     \/ /\ ~Valid(page_lookup(M, dir, va))
        /\ ~passive_alloc_refuses(va)
        /\ \E p \in page_free_list : \E pt \in page_alloc_choices(page_free_list \ {p}) :
             /\ ~page_insert_fails(M, dir, va, pt)
             /\ tlbwr(page_insert(page_alloc(M, p), dir, a, p, va, PDX(va) # VPT, pt), a, va)
  /\ UNCHANGED <<env_pgdir, lost>>

\* passive_alloc panics: an address it refuses, or no page left.
passive_alloc_panics(a, va) ==
  /\ Up
  /\ \A w \in tlb_hit(a, va) : ~Valid(w)
  /\ ~Valid(page_lookup(Memory, env_pgdir[a], va))
  /\ \/ passive_alloc_refuses(va)
     \/ page_free_list = {}
     \/ pgdir_walk(Memory, env_pgdir[a], va) = <<>> /\ Cardinality(page_free_list) = 1
  /\ panicked' = IF passive_alloc_refuses(va) THEN "address refused" ELSE "out of memory"
  /\ UNCHANGED <<page_free_list, pp_ref, mem, env_pgdir, tlb, lost>>

\* A store that the TLB lets through: the page now holds user data.
user_store(a, va) ==
  /\ Up
  /\ \E w \in tlb_hit(a, va) :
       /\ Valid(w) /\ w.d
       /\ mem' = [mem EXCEPT ![w.page] = [s \in Slot |-> UserData]]
  /\ UNCHANGED <<page_free_list, pp_ref, env_pgdir, tlb, panicked, lost>>

\* The virtual pages user code reads or writes: its own and its page tables.
Touched == Va \cup BadVa \cup ({VPT} \X ({PDX(va) : va \in Va} \cup {VPT}))

\* The calls that end in page_insert.
Inserts ==
  \/ \E a \in LiveAsid, va \in Va, d \in BOOLEAN : sys_mem_alloc(a, va, d)
  \/ \E a, b \in LiveAsid, s, t \in Va, d \in BOOLEAN : sys_mem_map(a, s, b, t, d)
  \/ \E a, b \in LiveAsid, s \in Va, t \in IpcDst, d \in BOOLEAN : sys_ipc_try_send(a, s, b, t, d)

Next ==
  \/ \E a \in Asid : env_alloc(a)
  \/ env_alloc_no_asid
  \/ \E a \in Asid : env_destroy(a)
  \/ Inserts
  \/ \E a \in LiveAsid, va \in Va : sys_mem_unmap(a, va)
  \/ \E a \in LiveAsid, va \in Touched : \/ do_tlb_refill(a, va)
                                         \/ passive_alloc_panics(a, va)
                                         \/ user_store(a, va)

Spec == Init /\ [][Next]_vars

------------------------------------------------------------------------------
(* Properties *)

TypeOK ==
  /\ page_free_list \in SUBSET Page
  /\ pp_ref \in [Page -> 0 .. RefMod - 1]
  /\ mem \in [Page -> [Slot -> Word]]
  /\ env_pgdir \in [Asid -> Page \cup {NoPage}]
  /\ tlb \subseteq [asid : Asid, vpn2 : Slot \X (0 .. NSlot \div 2 - 1), lo : [0 .. 1 -> Word]]
  /\ panicked \in {"no", "address refused", "out of memory", "assertion failed"}
  /\ lost \in SUBSET Page

\* What refers to page p: directories, page tables and mapped user pages.
Dirs(p)   == {a \in LiveAsid : env_pgdir[a] = p}
Tables(p) == {x \in LiveAsid \X UserSlot : mem[env_pgdir[x[1]]][x[2]].page = p}
Maps(p)   == {x \in LiveAsid \X (UserSlot \X Slot) :
                page_lookup(Memory, env_pgdir[x[1]], x[2]).page = p}
Refs(p)   == Cardinality(Dirs(p)) + Cardinality(Tables(p)) + Cardinality(Maps(p))

\* include/pmap.h:17, "Ref is the count of pointers (usually in page table
\* entries) to this page": pp_ref is exact for every page in use, so a page is
\* on the free list when nothing refers to it and never before.  Pages a
\* failing call dropped are out of everyone's reach, and no assertion of
\* page_decref or page_free fails.
RefCountInv ==
  /\ \A p \in Page :
       IF p \in lost THEN Refs(p) = 0 /\ p \notin page_free_list
       ELSE /\ pp_ref[p] = Refs(p)
            /\ p \in page_free_list <=> Refs(p) = 0
  /\ panicked # "assertion failed"

\* A page is used in one way only, as one directory, as one table of one address
\* space, or as user pages; and no user code can write a page table: neither the
\* tables nor the TLB let a store reach a page that is a directory or a table, and
\* none holds user data.
TablesIntact ==
  /\ \A p \in Page :
       /\ Cardinality(Dirs(p)) + Cardinality(Tables(p)) <= 1
       /\ Dirs(p) \cup Tables(p) # {} => Maps(p) = {}
  /\ \A a \in LiveAsid :
       LET kernel == {env_pgdir[a]} \cup ({mem[env_pgdir[a]][s].page : s \in UserSlot} \ {NoPage})
       IN  /\ \A p \in kernel, s \in Slot : mem[p][s] # UserData
           /\ \A t \in tlb, i \in 0 .. 1 : t.lo[i].page \in kernel => ~t.lo[i].d

\* Whatever valid translation the TLB holds is the one in the page tables of the
\* env that owns the asid now, permission included: also after the page was
\* unmapped, remapped, shared read-only, freed, and after the asid was reused.  And
\* there is one entry for a pair of pages, although tlbwr is also reached when the
\* entry is there with its other half valid.
TlbCoherent ==
  /\ \A t \in tlb, i \in 0 .. 1 :
       Valid(t.lo[i]) =>
         /\ env_pgdir[t.asid] # NoPage
         /\ page_lookup(Memory, env_pgdir[t.asid], <<t.vpn2[1], 2 * t.vpn2[2] + i>>) = t.lo[i]
  /\ \A t, u \in tlb : t.asid = u.asid /\ t.vpn2 = u.vpn2 => t = u

\* The entry of address space a for va; Zero when there is no such space.
Entry(a, va) == IF env_pgdir[a] = NoPage THEN Zero ELSE page_lookup(Memory, env_pgdir[a], va)

\* include/mmu.h:118, below UTEMP is "invalid memory".  What a live env has there is what
\* messages put there (sys_ipc_recv takes 0 for an address, syscall_all.c:366, and a page
\* may be sent to it all the same, :449): no miss in the TLB, no page system call, and
\* nothing left of an earlier owner of the asid, maps a page there, replaces one or takes
\* one away.
InvalidMemoryOnlySent ==
  [][\A a \in Asid, va \in BadVa :
       env_pgdir'[a] # NoPage /\ Entry(a, va)' # Entry(a, va) =>
         \E b \in LiveAsid, s \in Va, d \in BOOLEAN : sys_ipc_try_send(b, s, a, va, d)]_vars

\* A mapping goes away only because its env ends or asks for it in sys_mem_unmap.  A call
\* that maps a page over another (syscall_all.c:162, :207, :449) is never the reason:
\* whether page_insert succeeds or finds no page for a table, every address that had a page
\* before the call, the one it replaces included, has a page after it.
MappingsKept ==
  [][\A a \in LiveAsid, va \in Va :
       Valid(page_lookup(Memory, env_pgdir[a], va)) =>
         \/ env_pgdir'[a] = NoPage
         \/ sys_mem_unmap(a, va) /\ ~Inserts
         \/ Valid(page_lookup(Memory', env_pgdir'[a], va))]_vars
==============================================================================
