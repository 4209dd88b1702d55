------------------------------ MODULE PmapProofs ------------------------------
(***************************************************************************)
(* Proofs about physical memory (Pmap): the reference counts are exact,    *)
(* page tables stay apart from user pages, the TLB is never stale, invalid *)
(* memory stays unmapped, and a mapping goes away only when its env asks   *)
(* for it or ends, for every number of pages, slots and address spaces.    *)
(*                                                                         *)
(* The invariant is stated on parameters (Good), so that it can be carried *)
(* through the calls a handler is made of: each function of pmap.c has a   *)
(* lemma on what it changes and one on what it preserves, a handler        *)
(* combines those, and only the last section speaks of the variables.      *)
(***************************************************************************)
EXTENDS Pmap, FiniteSetTheorems, TLAPS

(* The pieces of the state, as parameters: m for mem, D for env_pgdir, r for
   pp_ref, f for the free list, L for lost pages, b for the TLB. *)
User == UserSlot \X Slot
MemType == [Page -> [Slot -> Word]]
DirType == [Asid -> Page \cup {NoPage}]
TlbType == [asid : Asid, vpn2 : Slot \X (0 .. NSlot \div 2 - 1), lo : [0 .. 1 -> Word]]
Live(D) == {a \in Asid : D[a] # NoPage}

\* page_lookup in the memory m.
Look(m, dir, va) ==
  IF m[dir][va[1]].page = NoPage THEN Zero ELSE m[m[dir][va[1]].page][va[2]]
Table(m, D, a, s) == m[D[a]][s].page

\* Directories and tables.
Kernel(m, D, p) == \E a \in Live(D) : p = D[a] \/ \E s \in UserSlot : p = Table(m, D, a, s)

\* A page is one directory, one table of one address space, or a user page.
Roles(m, D) ==
  /\ \A a, b \in Live(D) : D[a] = D[b] => a = b
  /\ \A a, b \in Live(D), s \in UserSlot : Table(m, D, a, s) # D[b]
  /\ \A a, b \in Live(D), s, t \in UserSlot :
       Table(m, D, a, s) # NoPage /\ Table(m, D, a, s) = Table(m, D, b, t) => a = b /\ s = t
  /\ \A a \in Live(D), va \in User :
       Look(m, D[a], va).page # NoPage => ~Kernel(m, D, Look(m, D[a], va).page)
\* What directories and tables hold: the self-map, read-only tables, no user data.
Contents(m, D) ==
  /\ \A a \in Live(D) : m[D[a]][VPT].page = D[a] /\ m[D[a]][VPT].d = FALSE
  /\ \A a \in Live(D), s \in UserSlot : m[D[a]][s].d = FALSE
  /\ \A a \in Live(D), s \in UserSlot, i \in Slot :
       Table(m, D, a, s) # NoPage => m[Table(m, D, a, s)][i] # UserData
Struct(m, D) == m \in MemType /\ D \in DirType /\ Roles(m, D) /\ Contents(m, D)

\* The references to page p, and how pp_ref and the free list count them.
DirsOf(D, p) == {a \in Live(D) : D[a] = p}
TablesOf(m, D, p) == {x \in Live(D) \X UserSlot : Table(m, D, x[1], x[2]) = p}
MapsOf(m, D, p) == {x \in Live(D) \X User : Look(m, D[x[1]], x[2]).page = p}
RefsOf(m, D, p) == Cardinality(DirsOf(D, p)) + Cardinality(TablesOf(m, D, p)) + Cardinality(MapsOf(m, D, p))
Count(f, r, m, D, L) ==
  /\ f \subseteq Page /\ r \in [Page -> 0 .. RefMod - 1] /\ L \subseteq Page
  /\ \A p \in Page :
       IF p \in L THEN RefsOf(m, D, p) = 0 /\ p \notin f
       ELSE r[p] = RefsOf(m, D, p) /\ (p \in f <=> RefsOf(m, D, p) = 0)

\* The virtual page half i of a TLB entry translates; every valid half is what the
\* tables say.
Where(t, i) == <<t.vpn2[1], 2 * t.vpn2[2] + i>>
Coherent(b, m, D) ==
  /\ b \subseteq TlbType
  /\ \A t \in b, i \in 0 .. 1 : Valid(t.lo[i]) =>
       D[t.asid] # NoPage /\ Look(m, D[t.asid], Where(t, i)) = t.lo[i]
  /\ \A t, u \in b : t.asid = u.asid /\ t.vpn2 = u.vpn2 => t = u

\* The inductive invariant, of one value and of the state.
Good(M, D, L) ==
  /\ Struct(M.mem, D)
  /\ Count(M.free, M.ref, M.mem, D, L)
  /\ Coherent(M.tlb, M.mem, D)
  /\ M.fault = FALSE
Inv ==
  /\ Good(Memory, env_pgdir, lost)
  /\ panicked \in {"no", "address refused", "out of memory"}

------------------------------------------------------------------------------
(* Slots *)

\* The self-map slot is the last one; the others are below it.
LEMMA Slots ==
  /\ VPT \in Slot /\ VPT \notin UserSlot /\ UserSlot \subseteq Slot
  /\ \A s \in Slot : s = VPT \/ s \in UserSlot
  /\ Slot \subseteq Int /\ 0 \in Slot
<1>1. NSlot \in Nat /\ NSlot > 0
  BY NSlotAssumption
<1> QED
  BY <1>1 DEF Slot, UserSlot, VPT

\* A user virtual page is a pair of a directory slot below UTOP and a table slot.
LEMMA UserVa ==
  /\ \A va \in User : va = <<va[1], va[2]>> /\ va[1] \in UserSlot /\ va[2] \in Slot
  /\ \A s \in UserSlot, i \in Slot : <<s, i>> \in User
  BY DEF User

\* A memory whose directories and tables have the rows they had.
SameRows(n, m, D) ==
  \A a \in Live(D) :
    /\ n[D[a]] = m[D[a]]
    /\ \A s \in UserSlot : Table(m, D, a, s) # NoPage => n[Table(m, D, a, s)] = m[Table(m, D, a, s)]
SameLooks(n, m, D) == \A a \in Live(D), va \in Slot \X Slot : Look(n, D[a], va) = Look(m, D[a], va)

\* Through the self-map one sees the directory.
LEMMA SelfMap ==
  ASSUME NEW m, NEW D, Struct(m, D), NEW a \in Live(D), NEW s \in Slot
  PROVE  Look(m, D[a], <<VPT, s>>) = m[D[a]][s]
<1>1. m[D[a]][VPT].page = D[a] /\ D[a] # NoPage
  BY DEF Struct, Contents, Live
<1> QED
  BY <1>1 DEF Look

\* Where directories and tables are the same, page_lookup finds the same entries.
LEMMA RowsLooks ==
  ASSUME NEW m, NEW n, NEW D, Struct(m, D), SameRows(n, m, D)
  PROVE  SameLooks(n, m, D)
<1> SUFFICES ASSUME NEW a \in Live(D), NEW va \in Slot \X Slot
             PROVE  Look(n, D[a], va) = Look(m, D[a], va)
  BY DEF SameLooks
<1>1. n[D[a]] = m[D[a]]
  BY DEF SameRows
<1>2. CASE va[1] \in UserSlot
  BY <1>1, <1>2 DEF SameRows, Look, Table
<1>3. CASE va[1] = VPT
  <2>1. m[D[a]][VPT].page = D[a]
    BY DEF Struct, Contents
  <2> QED
    BY <1>1, <1>3, <2>1 DEF Look
<1> QED
  BY <1>2, <1>3, Slots

\* Where directories and tables are the same, the structure of memory is the same.
LEMMA RowsStruct ==
  ASSUME NEW m, NEW n \in MemType, NEW D, Struct(m, D), SameRows(n, m, D)
  PROVE  Struct(n, D)
<1>1. SameLooks(n, m, D)
  BY RowsLooks
<1>2. \A a \in Live(D) : n[D[a]] = m[D[a]]
  BY DEF SameRows
<1>3. \A a \in Live(D), s \in UserSlot : Table(n, D, a, s) = Table(m, D, a, s)
  BY <1>2 DEF Table
<1>4. \A p : Kernel(n, D, p) <=> Kernel(m, D, p)
  BY <1>3 DEF Kernel
<1>5. \A a \in Live(D), va \in User : Look(n, D[a], va) = Look(m, D[a], va)
  BY <1>1, UserVa, Slots DEF SameLooks
<1>6. Roles(n, D)
  <2>1. Roles(m, D)
    BY DEF Struct
  <2> QED
    BY <2>1, <1>3, <1>4, <1>5 DEF Roles
<1>7. Contents(n, D)
  <2>1. Contents(m, D)
    BY DEF Struct
  <2> QED
    BY <2>1, <1>2, <1>3 DEF Contents, SameRows
<1> QED
  BY <1>6, <1>7 DEF Struct

\* A page that is neither a directory nor a table may hold anything.
LEMMA WriteUser ==
  ASSUME NEW m, NEW D, Struct(m, D), NEW p \in Page, ~Kernel(m, D, p), NEW row \in [Slot -> Word]
  PROVE  LET n == [m EXCEPT ![p] = row] IN Struct(n, D) /\ SameRows(n, m, D)
<1> DEFINE n == [m EXCEPT ![p] = row]
<1>1. n \in MemType
  BY DEF Struct, MemType
<1>2. \A q : q # p => n[q] = m[q]
  BY DEF Struct, MemType
<1>3. SameRows(n, m, D)
  <2> SUFFICES ASSUME NEW a \in Live(D)
               PROVE  /\ n[D[a]] = m[D[a]]
                      /\ \A s \in UserSlot : Table(m, D, a, s) # NoPage =>
                           n[Table(m, D, a, s)] = m[Table(m, D, a, s)]
    BY DEF SameRows
  <2>1. D[a] # p /\ \A s \in UserSlot : Table(m, D, a, s) # p
    BY DEF Kernel
  <2> QED
    BY <2>1, <1>2
<1> QED
  BY <1>1, <1>3, RowsStruct

\* Words.
LEMMA Words ==
  /\ Zero \in Word /\ Zero.page = NoPage /\ Zero.d = FALSE
  /\ \A p \in Page \cup {NoPage}, d \in BOOLEAN : Pte(p, d) \in Word /\ Pte(p, d).page = p /\ Pte(p, d).d = d
  /\ UserData \in Word /\ UserData.page = NoPage /\ UserData.d = TRUE
  /\ Cleared \in [Slot -> Word] /\ \A i \in Slot : Cleared[i] = Zero
<1>1. Zero \in Word /\ Zero.page = NoPage /\ Zero.d = FALSE
  BY DEF Zero, Word
<1>2. \A p \in Page \cup {NoPage}, d \in BOOLEAN : Pte(p, d) \in Word /\ Pte(p, d).page = p /\ Pte(p, d).d = d
  BY DEF Pte, Word
<1>3. UserData \in Word /\ UserData.page = NoPage /\ UserData.d = TRUE
  BY DEF UserData, Word
<1> QED
  BY <1>1, <1>2, <1>3 DEF Cleared

\* n is m with the word w at place i of page t.
Wrote(n, m, t, i, w) ==
  /\ n \in MemType
  /\ \A q \in Page : q # t => n[q] = m[q]
  /\ \A j \in Slot : j # i => n[t][j] = m[t][j]
  /\ n[t][i] = w
\* No address space maps the page.
Unmapped(m, D, p) == \A b \in Live(D), vb \in User : Look(m, D[b], vb).page # p

\* In a well-formed memory directories and tables are pages, and entries are words.
LEMMA Types ==
  ASSUME NEW m, NEW D, Struct(m, D)
  PROVE  /\ m \in MemType /\ D \in DirType
         /\ \A a \in Live(D) : a \in Asid /\ D[a] \in Page
         /\ \A a \in Live(D), s \in Slot : m[D[a]][s] \in Word
         /\ \A a \in Live(D), s \in UserSlot :
              /\ Table(m, D, a, s) \in Page \cup {NoPage}
              /\ Table(m, D, a, s) # NoPage => Table(m, D, a, s) \in Page
         /\ \A a \in Live(D), va \in Slot \X Slot : Look(m, D[a], va) \in Word
<1>1. m \in MemType /\ D \in DirType
  BY DEF Struct
<1>2. \A a \in Live(D) : a \in Asid /\ D[a] \in Page
  BY <1>1 DEF Live, DirType
<1>3. \A a \in Live(D), s \in Slot : m[D[a]][s] \in Word
  BY <1>1, <1>2 DEF MemType
<1>4. \A w \in Word : w.page \in Page \cup {NoPage}
  BY DEF Word
<1>5. \A a \in Live(D), va \in Slot \X Slot : Look(m, D[a], va) \in Word
  <2> TAKE a \in Live(D), va \in Slot \X Slot
  <2>1. m[D[a]][va[1]].page \in Page \cup {NoPage}
    BY <1>3, <1>4
  <2> QED
    BY <2>1, <1>1, Words DEF Look, MemType
<1> QED
  BY <1>1, <1>2, <1>3, <1>4, <1>5, Slots DEF Table

\* A word of a table is written.
LEMMA WriteEntry ==
  ASSUME NEW m, NEW D, Struct(m, D), NEW a \in Live(D), NEW va \in User, NEW w \in Word,
         Table(m, D, a, va[1]) # NoPage, w # UserData, w.page # NoPage => ~Kernel(m, D, w.page),
         NEW n, Wrote(n, m, Table(m, D, a, va[1]), va[2], w)
  PROVE  /\ Struct(n, D)
         /\ \A b \in Live(D) : n[D[b]] = m[D[b]]
         /\ \A b \in Live(D), vb \in Slot \X Slot :
              Look(n, D[b], vb) = IF b = a /\ vb = va THEN w ELSE Look(m, D[b], vb)
<1>0. PICK t \in Page : t = Table(m, D, a, va[1])
  BY Types, UserVa
<1>1. \A b \in Live(D) : D[b] \in Page /\ D[b] # t
  BY <1>0, UserVa, Types DEF Struct, Roles
<1>2. \A b \in Live(D) : n[D[b]] = m[D[b]]
  BY <1>0, <1>1 DEF Wrote
<1>3. \A b \in Live(D), s \in UserSlot : Table(n, D, b, s) = Table(m, D, b, s)
  BY <1>2 DEF Table
<1>4. \A b \in Live(D), s \in UserSlot : Table(m, D, b, s) = t => b = a /\ s = va[1]
  BY <1>0, UserVa DEF Struct, Roles
<1>5. \A b \in Live(D), vb \in Slot \X Slot :
              Look(n, D[b], vb) = IF b = a /\ vb = va THEN w ELSE Look(m, D[b], vb)
  <2> TAKE b \in Live(D), vb \in Slot \X Slot
  <2>0. vb = <<vb[1], vb[2]>> /\ vb[1] \in Slot /\ vb[2] \in Slot
    OBVIOUS
  <2>1. CASE vb[1] = VPT
    <3>1. m[D[b]][VPT].page = D[b]
      BY DEF Struct, Contents
    <3>2. vb # va
      BY <2>1, UserVa, Slots
    <3> QED
      BY <2>1, <3>1, <3>2, <1>2 DEF Look
  <2>2. CASE vb[1] \in UserSlot
    <3>0. PICK u \in Page \cup {NoPage} : u = Table(m, D, b, vb[1])
      BY <2>2, Types
    <3>1. Look(n, D[b], vb) = IF u = NoPage THEN Zero ELSE n[u][vb[2]]
      BY <3>0, <1>2 DEF Look, Table
    <3>2. Look(m, D[b], vb) = IF u = NoPage THEN Zero ELSE m[u][vb[2]]
      BY <3>0 DEF Look, Table
    <3>3. CASE u = NoPage
      BY <3>0, <3>1, <3>2, <3>3, <2>0
    <3>4. CASE u # NoPage /\ u # t
      <4>1. ~(b = a /\ vb = va)
        BY <3>0, <3>4, <1>0
      <4>2. n[u] = m[u]
        BY <3>4, <1>0 DEF Wrote
      <4> QED
        BY <3>1, <3>2, <4>1, <4>2
    <3>5. CASE u # NoPage /\ u = t
      <4>1. b = a /\ vb[1] = va[1]
        BY <3>0, <3>5, <2>2, <1>4
      <4>2. vb = va <=> vb[2] = va[2]
        BY <4>1, <2>0, UserVa
      <4>3. n[t][vb[2]] = IF vb[2] = va[2] THEN w ELSE m[t][vb[2]]
        BY <2>0, <1>0 DEF Wrote
      <4> QED
        BY <3>1, <3>2, <3>5, <4>1, <4>2, <4>3
    <3> QED
      BY <3>3, <3>4, <3>5
  <2> QED
    BY <2>0, <2>1, <2>2, Slots
<1>6. \A p : Kernel(n, D, p) <=> Kernel(m, D, p)
  BY <1>3 DEF Kernel
<1>7. Roles(n, D)
  <2>1. \A b \in Live(D), vb \in User : Look(n, D[b], vb).page # NoPage => ~Kernel(n, D, Look(n, D[b], vb).page)
    <3> TAKE b \in Live(D), vb \in User
    <3>1. Look(n, D[b], vb) = IF b = a /\ vb = va THEN w ELSE Look(m, D[b], vb)
      BY <1>5, UserVa, Slots
    <3> QED
      BY <3>1, <1>6 DEF Struct, Roles
  <2> QED
    BY <2>1, <1>3 DEF Struct, Roles
<1>8. Contents(n, D)
  <2>1. \A b \in Live(D), s \in UserSlot, i \in Slot :
           Table(n, D, b, s) # NoPage => n[Table(n, D, b, s)][i] # UserData
    <3> TAKE b \in Live(D), s \in UserSlot, i \in Slot
    <3>0. PICK u \in Page \cup {NoPage} : u = Table(m, D, b, s) /\ u = Table(n, D, b, s)
      BY <1>3, Types
    <3>1. u # NoPage => m[u][i] # UserData
      BY <3>0 DEF Struct, Contents
    <3>2. u # NoPage => n[u][i] = m[u][i] \/ n[u][i] = w
      BY <1>0 DEF Wrote
    <3> QED
      BY <3>0, <3>1, <3>2
  <2> QED
    BY <2>1, <1>2 DEF Struct, Contents
<1> QED
  BY <1>2, <1>5, <1>7, <1>8 DEF Struct, Wrote

\* The entry of a table in a directory.
TablePte(p) == Pte(p, FALSE)
LEMMA TablePteIs ==
  ASSUME NEW p \in Page
  PROVE  TablePte(p) \in Word /\ TablePte(p).page = p /\ TablePte(p).d = FALSE
  BY Words DEF TablePte

\* A directory gets a cleared table.
LEMMA WriteTable ==
  ASSUME NEW m, NEW D, Struct(m, D), NEW a \in Live(D), NEW s \in UserSlot, Table(m, D, a, s) = NoPage,
         NEW p \in Page, ~Kernel(m, D, p), Unmapped(m, D, p), m[p] = Cleared,
         NEW w, w = TablePte(p), NEW n, Wrote(n, m, D[a], s, w)
  PROVE  /\ Struct(n, D)
         /\ \A b \in Live(D), t \in Slot : n[D[b]][t] = IF b = a /\ t = s THEN w ELSE m[D[b]][t]
         /\ \A b \in Live(D), vb \in User : Look(n, D[b], vb) = Look(m, D[b], vb)
<1>w. w \in Word /\ w.page = p /\ w.d = FALSE
  BY TablePteIs
<1>0. /\ \A b \in Live(D) : D[b] \in Page /\ D[b] # p
      /\ \A b \in Live(D), t \in UserSlot : Table(m, D, b, t) # p /\ Table(m, D, b, t) # D[a]
      /\ p # NoPage
  BY Types, NoPageAssumption DEF Kernel, Struct, Roles
<1>1. \A b \in Live(D), t \in Slot : n[D[b]][t] = IF b = a /\ t = s THEN w ELSE m[D[b]][t]
  <2> TAKE b \in Live(D), t \in Slot
  <2>1. CASE b = a
    BY <2>1 DEF Wrote
  <2>2. CASE b # a
    <3>1. D[b] # D[a]
      BY <2>2 DEF Struct, Roles
    <3> QED
      BY <2>2, <3>1, <1>0 DEF Wrote
  <2> QED
    BY <2>1, <2>2
<1>2. \A b \in Live(D), t \in UserSlot : Table(n, D, b, t) = IF b = a /\ t = s THEN p ELSE Table(m, D, b, t)
  BY <1>1, <1>w, Slots DEF Table
<1>3. \A q \in Page : q # D[a] => n[q] = m[q]
  BY DEF Wrote
<1>4. \A b \in Live(D), vb \in User : Look(n, D[b], vb) = Look(m, D[b], vb)
  <2> TAKE b \in Live(D), vb \in User
  <2>0. vb[1] \in UserSlot /\ vb[2] \in Slot
    BY UserVa
  <2>1. CASE b = a /\ vb[1] = s
    <3>1. Look(m, D[b], vb) = Zero
      BY <2>1 DEF Look, Table
    <3>2. Look(n, D[b], vb) = n[p][vb[2]]
      BY <2>0, <2>1, <1>0, <1>2 DEF Look, Table
    <3>3. n[p] = Cleared
      BY <1>0, <1>3
    <3> QED
      BY <3>1, <3>2, <3>3, <2>0, Words
  <2>2. CASE ~(b = a /\ vb[1] = s)
    <3>0. PICK u \in Page \cup {NoPage} : u = Table(m, D, b, vb[1]) /\ u = Table(n, D, b, vb[1])
      BY <2>0, <2>2, <1>2, Types
    <3>1. u # NoPage => n[u] = m[u]
      BY <3>0, <2>0, <1>0, <1>3
    <3> QED
      BY <3>0, <3>1 DEF Look, Table
  <2> QED
    BY <2>1, <2>2
<1>5. \A q : Kernel(n, D, q) => Kernel(m, D, q) \/ q = p
  BY <1>2 DEF Kernel
<1>6. Roles(n, D)
  <2>1. \A b \in Live(D), vb \in User : Look(n, D[b], vb).page # NoPage => ~Kernel(n, D, Look(n, D[b], vb).page)
    <3> TAKE b \in Live(D), vb \in User
    <3>1. Look(n, D[b], vb) = Look(m, D[b], vb) /\ Look(m, D[b], vb).page # p
      BY <1>4 DEF Unmapped
    <3> QED
      BY <3>1, <1>5 DEF Struct, Roles
  <2>2. \A b, c \in Live(D), t \in UserSlot : Table(n, D, b, t) # D[c]
    BY <1>0, <1>2 DEF Struct, Roles
  <2>3. \A b, c \in Live(D), t, u \in UserSlot :
          Table(n, D, b, t) # NoPage /\ Table(n, D, b, t) = Table(n, D, c, u) => b = c /\ t = u
    BY <1>0, <1>2 DEF Struct, Roles
  <2> QED
    BY <2>1, <2>2, <2>3 DEF Struct, Roles
<1>7. Contents(n, D)
  <2>1. \A b \in Live(D), t \in UserSlot, i \in Slot :
           Table(n, D, b, t) # NoPage => n[Table(n, D, b, t)][i] # UserData
    <3> TAKE b \in Live(D), t \in UserSlot, i \in Slot
    <3>1. CASE b = a /\ t = s
      <4>1. n[p][i] = Zero
        BY <1>0, <1>3, Words
      <4> QED
        BY <3>1, <4>1, <1>2, Words
    <3>2. CASE ~(b = a /\ t = s)
      <4>0. PICK u \in Page \cup {NoPage} : u = Table(m, D, b, t) /\ u = Table(n, D, b, t)
        BY <3>2, <1>2, Types
      <4>1. u # NoPage => n[u] = m[u]
        BY <4>0, <1>0, <1>3
      <4>2. u # NoPage => m[u][i] # UserData
        BY <4>0 DEF Struct, Contents
      <4> QED
        BY <4>0, <4>1, <4>2
    <3> QED
      BY <3>1, <3>2
  <2>2. \A b \in Live(D) : n[D[b]][VPT] = m[D[b]][VPT]
    BY <1>1, Slots
  <2>3. \A b \in Live(D), t \in UserSlot : n[D[b]][t].d = FALSE
    <3> TAKE b \in Live(D), t \in UserSlot
    <3>1. m[D[b]][t].d = FALSE
      BY DEF Struct, Contents
    <3>2. n[D[b]][t] = w \/ n[D[b]][t] = m[D[b]][t]
      BY <1>1, Slots
    <3> QED
      BY <3>1, <3>2, <1>w
  <2> QED
    BY <2>1, <2>2, <2>3 DEF Struct, Contents
<1> QED
  BY <1>1, <1>4, <1>6, <1>7 DEF Struct, Wrote

\* The directories when asid a owns p, and a directory that maps only itself.
Owned(D, a, p) == [D EXCEPT ![a] = p]
EmptyDir(n, p) == n[p][VPT].page = p /\ n[p][VPT].d = FALSE /\ \A s \in UserSlot : n[p][s] = Zero

\* An address space begins.
LEMMA WriteDir ==
  ASSUME NEW m, NEW D, Struct(m, D), NEW a \in Asid, D[a] = NoPage,
         NEW p \in Page, ~Kernel(m, D, p), Unmapped(m, D, p),
         NEW n \in MemType, \A q \in Page : q # p => n[q] = m[q],
         EmptyDir(n, p), NEW E, E = Owned(D, a, p)
  PROVE  /\ Struct(n, E) /\ Live(E) = Live(D) \cup {a} /\ E[a] = p
         /\ \A b \in Live(D) : b # a /\ E[b] = D[b]
         /\ SameRows(n, m, D) /\ SameLooks(n, m, D)
         /\ \A s \in UserSlot : Table(n, E, a, s) = NoPage
         /\ \A va \in User : Look(n, E[a], va) = Zero
<1>1. /\ \A b \in Live(D) : D[b] \in Page /\ D[b] # p
      /\ \A b \in Live(D), t \in UserSlot : Table(m, D, b, t) # p
      /\ p # NoPage /\ D \in DirType
  BY Types, NoPageAssumption DEF Kernel
<1>2. E \in DirType /\ Live(E) = Live(D) \cup {a} /\ E[a] = p /\ \A b \in Live(D) : b # a /\ E[b] = D[b]
  BY <1>1 DEF DirType, Live, Owned
<1>3. SameRows(n, m, D)
  <2>1. \A b \in Live(D), s \in UserSlot : Table(m, D, b, s) # NoPage => Table(m, D, b, s) \in Page
    BY Types
  <2> QED
    BY <2>1, <1>1 DEF SameRows
<1>4. Struct(n, D) /\ SameLooks(n, m, D)
  BY <1>3, RowsStruct, RowsLooks
<1>5. \A s \in UserSlot : n[E[a]][s] = Zero /\ Table(n, E, a, s) = NoPage
  BY <1>2, Words DEF Table, EmptyDir
<1>6. \A va \in User : Look(n, E[a], va) = Zero
  BY <1>5, <1>2, UserVa, Words DEF Look
<1>7. \A b \in Live(D), s \in UserSlot : Table(n, E, b, s) = Table(m, D, b, s) /\ Table(n, D, b, s) = Table(m, D, b, s)
  BY <1>2, <1>3 DEF SameRows, Table
<1>8. \A b \in Live(D), vb \in User : Look(n, E[b], vb) = Look(n, D[b], vb) /\ Look(n, D[b], vb) = Look(m, D[b], vb)
  BY <1>2, <1>4, UserVa, Slots DEF SameLooks
<1>9. \A q : Kernel(n, E, q) => Kernel(n, D, q) \/ q = p \/ q = NoPage
  <2> SUFFICES ASSUME NEW q, Kernel(n, E, q)
               PROVE  Kernel(n, D, q) \/ q = p \/ q = NoPage
    OBVIOUS
  <2>1. PICK b \in Live(E) : q = E[b] \/ \E s \in UserSlot : q = Table(n, E, b, s)
    BY DEF Kernel
  <2>2. CASE b = a
    BY <2>1, <2>2, <1>2, <1>5
  <2>3. CASE b # a
    <3>1. b \in Live(D)
      BY <2>3, <1>2
    <3> QED
      BY <2>1, <3>1, <1>2, <1>7 DEF Kernel
  <2> QED
    BY <2>2, <2>3
<1>10. Roles(n, E)
  <2>1. \A b \in Live(E), vb \in User : Look(n, E[b], vb).page # NoPage => ~Kernel(n, E, Look(n, E[b], vb).page)
    <3> TAKE b \in Live(E), vb \in User
    <3>1. CASE b = a
      BY <3>1, <1>6, Words
    <3>2. CASE b # a
      <4>1. b \in Live(D)
        BY <3>2, <1>2
      <4>2. Look(n, E[b], vb) = Look(n, D[b], vb) /\ Look(n, D[b], vb).page # p
        BY <4>1, <1>8 DEF Unmapped
      <4> QED
        BY <4>1, <4>2, <1>4, <1>9 DEF Struct, Roles
    <3> QED
      BY <3>1, <3>2
  <2>2. \A b, c \in Live(E) : E[b] = E[c] => b = c
    BY <1>1, <1>2 DEF Struct, Roles
  <2>3. \A b, c \in Live(E), t \in UserSlot : Table(n, E, b, t) # E[c]
    <3> TAKE b, c \in Live(E), t \in UserSlot
    <3>1. E[c] # NoPage
      BY DEF Live
    <3>2. CASE b = a
      BY <3>1, <3>2, <1>5
    <3>3. CASE b # a
      BY <3>3, <1>1, <1>2, <1>7 DEF Struct, Roles
    <3> QED
      BY <3>2, <3>3
  <2>4. \A b, c \in Live(E), t, u \in UserSlot :
          Table(n, E, b, t) # NoPage /\ Table(n, E, b, t) = Table(n, E, c, u) => b = c /\ t = u
    <3> SUFFICES ASSUME NEW b \in Live(E), NEW c \in Live(E), NEW t \in UserSlot, NEW u \in UserSlot,
                        Table(n, E, b, t) # NoPage, Table(n, E, b, t) = Table(n, E, c, u)
                 PROVE  b = c /\ t = u
      OBVIOUS
    <3>1. b # a /\ c # a
      BY <1>5
    <3>2. b \in Live(D) /\ c \in Live(D)
      BY <3>1, <1>2
    <3>3. Table(m, D, b, t) # NoPage /\ Table(m, D, b, t) = Table(m, D, c, u)
      BY <3>2, <1>7
    <3> QED
      BY <3>2, <3>3 DEF Struct, Roles
  <2> QED
    BY <2>1, <2>2, <2>3, <2>4 DEF Roles
<1>11. Contents(n, E)
  <2>1. \A b \in Live(E) : n[E[b]][VPT].page = E[b] /\ n[E[b]][VPT].d = FALSE
    <3> TAKE b \in Live(E)
    <3>1. CASE b = a
      BY <3>1, <1>2 DEF EmptyDir
    <3>2. CASE b # a
      BY <3>2, <1>2, <1>4 DEF Struct, Contents
    <3> QED
      BY <3>1, <3>2
  <2>2. \A b \in Live(E), s \in UserSlot : n[E[b]][s].d = FALSE
    <3> TAKE b \in Live(E), s \in UserSlot
    <3>1. CASE b = a
      BY <3>1, <1>5, Words
    <3>2. CASE b # a
      BY <3>2, <1>2, <1>4 DEF Struct, Contents
    <3> QED
      BY <3>1, <3>2
  <2>3. \A b \in Live(E), s \in UserSlot, i \in Slot :
       Table(n, E, b, s) # NoPage => n[Table(n, E, b, s)][i] # UserData
    <3> TAKE b \in Live(E), s \in UserSlot, i \in Slot
    <3>1. CASE b = a
      BY <3>1, <1>5
    <3>2. CASE b # a
      <4>1. b \in Live(D) /\ Table(n, E, b, s) = Table(n, D, b, s)
        BY <3>2, <1>2, <1>7
      <4> QED
        BY <4>1, <1>4 DEF Struct, Contents
    <3> QED
      BY <3>1, <3>2
  <2> QED
    BY <2>1, <2>2, <2>3 DEF Contents
<1>12. Struct(n, E)
  BY <1>2, <1>10, <1>11 DEF Struct
<1> QED
  BY <1>2, <1>3, <1>4, <1>5, <1>6, <1>12

\* An address space ends: nothing happens to the others.
LEMMA EndDir ==
  ASSUME NEW m, NEW D, Struct(m, D), NEW a \in Live(D), NEW n \in MemType,
         \A q \in Page : q # D[a] /\ (\A s \in UserSlot : q # Table(m, D, a, s)) => n[q] = m[q],
         NEW E, E = Owned(D, a, NoPage)
  PROVE  /\ Struct(n, E) /\ Live(E) = Live(D) \ {a}
         /\ \A b \in Live(E) : E[b] = D[b]
         /\ \A b \in Live(E), t \in Slot : n[E[b]][t] = m[D[b]][t]
         /\ \A b \in Live(E), vb \in Slot \X Slot : Look(n, E[b], vb) = Look(m, D[b], vb)
<1>1. E \in DirType /\ Live(E) = Live(D) \ {a} /\ \A b \in Live(E) : E[b] = D[b] /\ b \in Live(D) /\ b # a
  BY Types DEF DirType, Live, Owned
<1>2. \A b \in Live(E), s \in UserSlot : Table(m, E, b, s) = Table(m, D, b, s)
  BY <1>1 DEF Table
<1>3. \A b \in Live(E) : \A vb : Look(m, E[b], vb) = Look(m, D[b], vb)
  BY <1>1
<1>4. \A q : Kernel(m, E, q) => Kernel(m, D, q)
  BY <1>1, <1>2 DEF Kernel
<1>5. Struct(m, E)
  <2>1. Roles(m, E)
    <3>1. \A b \in Live(E), va \in User :
            Look(m, E[b], va).page # NoPage => ~Kernel(m, E, Look(m, E[b], va).page)
      BY <1>1, <1>4 DEF Struct, Roles
    <3>2. \A b, c \in Live(E), s, t \in UserSlot :
            Table(m, E, b, s) # NoPage /\ Table(m, E, b, s) = Table(m, E, c, t) => b = c /\ s = t
      BY <1>1, <1>2 DEF Struct, Roles
    <3>3. \A b, c \in Live(E) : /\ E[b] = E[c] => b = c
                                /\ \A s \in UserSlot : Table(m, E, b, s) # E[c]
      BY <1>1, <1>2 DEF Struct, Roles
    <3> QED
      BY <3>1, <3>2, <3>3 DEF Roles
  <2>2. Contents(m, E)
    BY <1>1, <1>2 DEF Struct, Contents
  <2> QED
    BY <1>1, <2>1, <2>2 DEF Struct
<1>6. SameRows(n, m, E)
  <2> SUFFICES ASSUME NEW b \in Live(E)
               PROVE  /\ n[E[b]] = m[E[b]]
                      /\ \A s \in UserSlot : Table(m, E, b, s) # NoPage => n[Table(m, E, b, s)] = m[Table(m, E, b, s)]
    BY DEF SameRows
  <2>1. E[b] \in Page /\ E[b] # D[a] /\ \A s \in UserSlot : E[b] # Table(m, D, a, s)
    BY <1>1, Types DEF Struct, Roles
  <2>2. ASSUME NEW s \in UserSlot, Table(m, E, b, s) # NoPage
        PROVE  n[Table(m, E, b, s)] = m[Table(m, E, b, s)]
    <3>0. PICK t \in Page : t = Table(m, D, b, s) /\ t = Table(m, E, b, s) /\ t # NoPage
      BY <2>2, <1>1, <1>2, Types
    <3>1. t # D[a] /\ \A u \in UserSlot : t # Table(m, D, a, u)
      <4>1. b \in Live(D) /\ b # a
        BY <1>1
      <4>2. t # D[a]
        <5>1. Table(m, D, b, s) # D[a]
          BY <4>1, <2>2 DEF Struct, Roles
        <5> QED
          BY <3>0, <5>1
      <4>3. ASSUME NEW u \in UserSlot PROVE t # Table(m, D, a, u)
        <5>1. Table(m, D, b, s) # NoPage /\ Table(m, D, b, s) = Table(m, D, a, u) => b = a
          BY <4>1, <2>2 DEF Struct, Roles
        <5> QED
          BY <3>0, <4>1, <5>1
      <4> QED
        BY <4>2, <4>3
    <3> QED
      BY <3>0, <3>1
  <2> QED
    BY <2>1, <2>2
<1>7. Struct(n, E) /\ SameLooks(n, m, E)
  BY <1>5, <1>6, RowsStruct, RowsLooks
<1>8. \A b \in Live(E), t \in Slot : n[E[b]][t] = m[D[b]][t]
  BY <1>1, <1>6 DEF SameRows
<1>9. \A b \in Live(E), vb \in Slot \X Slot : Look(n, E[b], vb) = Look(m, D[b], vb)
  BY <1>3, <1>7 DEF SameLooks
<1> QED
  BY <1>1, <1>7, <1>8, <1>9

------------------------------------------------------------------------------
(* Counting references *)

\* What refers to a page is finite, so it can be counted.
LEMMA FiniteRefs ==
  ASSUME NEW m, NEW D, NEW p
  PROVE  /\ IsFiniteSet(DirsOf(D, p)) /\ IsFiniteSet(TablesOf(m, D, p)) /\ IsFiniteSet(MapsOf(m, D, p))
         /\ Cardinality(DirsOf(D, p)) \in Nat /\ Cardinality(TablesOf(m, D, p)) \in Nat
         /\ Cardinality(MapsOf(m, D, p)) \in Nat /\ RefsOf(m, D, p) \in Nat
         /\ RefsOf(m, D, p) = 0 <=> DirsOf(D, p) = {} /\ TablesOf(m, D, p) = {} /\ MapsOf(m, D, p) = {}
<1>1. IsFiniteSet(Slot) /\ IsFiniteSet(UserSlot)
  <2>1. NSlot \in Int
    BY NSlotAssumption
  <2> QED
    BY <2>1, FS_Interval DEF Slot, UserSlot
<1>2. IsFiniteSet(Live(D))
  BY AsidAssumption, FS_Subset DEF Live
<1>3. IsFiniteSet(User)
  BY <1>1, FS_Product DEF User
<1>4. IsFiniteSet(Live(D) \X UserSlot) /\ IsFiniteSet(Live(D) \X User)
  BY <1>1, <1>2, <1>3, FS_Product
<1>5. DirsOf(D, p) \in SUBSET Live(D) /\ TablesOf(m, D, p) \in SUBSET (Live(D) \X UserSlot)
      /\ MapsOf(m, D, p) \in SUBSET (Live(D) \X User)
  BY DEF DirsOf, TablesOf, MapsOf
<1>6. IsFiniteSet(DirsOf(D, p)) /\ IsFiniteSet(TablesOf(m, D, p)) /\ IsFiniteSet(MapsOf(m, D, p))
  BY <1>2, <1>4, <1>5, FS_Subset
<1>7. PICK x \in Nat, y \in Nat, z \in Nat :
        /\ x = Cardinality(DirsOf(D, p)) /\ y = Cardinality(TablesOf(m, D, p))
        /\ z = Cardinality(MapsOf(m, D, p))
  BY <1>6, FS_CardinalityType
<1>8. /\ x = 0 <=> DirsOf(D, p) = {}
      /\ y = 0 <=> TablesOf(m, D, p) = {}
      /\ z = 0 <=> MapsOf(m, D, p) = {}
  BY <1>6, <1>7, FS_EmptySet
<1>9. RefsOf(m, D, p) = x + y + z
  BY <1>7 DEF RefsOf
<1> QED
  BY <1>6, <1>7, <1>8, <1>9

\* A page nothing refers to is no directory, no table and not mapped, and conversely.
LEMMA NoRefs ==
  ASSUME NEW m, NEW D, Struct(m, D), NEW p \in Page
  PROVE  RefsOf(m, D, p) = 0 <=> ~Kernel(m, D, p) /\ Unmapped(m, D, p)
<1>1. DirsOf(D, p) = {} <=> \A a \in Live(D) : D[a] # p
  BY DEF DirsOf
<1>2. TablesOf(m, D, p) = {} <=> \A a \in Live(D), s \in UserSlot : Table(m, D, a, s) # p
  <2>1. \A a \in Live(D), s \in UserSlot : Table(m, D, a, s) = p => <<a, s>> \in TablesOf(m, D, p)
    BY DEF TablesOf
  <2>2. \A x \in TablesOf(m, D, p) : x[1] \in Live(D) /\ x[2] \in UserSlot /\ Table(m, D, x[1], x[2]) = p
    BY DEF TablesOf
  <2> QED
    BY <2>1, <2>2
<1>3. MapsOf(m, D, p) = {} <=> \A a \in Live(D), va \in User : Look(m, D[a], va).page # p
  <2>1. \A a \in Live(D), va \in User : Look(m, D[a], va).page = p => <<a, va>> \in MapsOf(m, D, p)
    BY DEF MapsOf
  <2>2. \A x \in MapsOf(m, D, p) : x[1] \in Live(D) /\ x[2] \in User /\ Look(m, D[x[1]], x[2]).page = p
    BY DEF MapsOf
  <2> QED
    BY <2>1, <2>2
<1> QED
  BY <1>1, <1>2, <1>3, FiniteRefs DEF Kernel, Unmapped

\* Memories that agree on tables and mappings agree on the counts.
LEMMA SameRefs ==
  ASSUME NEW m, NEW n, NEW D, NEW p,
         \A b \in Live(D), s \in UserSlot : Table(n, D, b, s) = Table(m, D, b, s),
         \A b \in Live(D), vb \in User : Look(n, D[b], vb).page = Look(m, D[b], vb).page
  PROVE  RefsOf(n, D, p) = RefsOf(m, D, p)
<1>1. TablesOf(n, D, p) = TablesOf(m, D, p)
  BY DEF TablesOf
<1>2. MapsOf(n, D, p) = MapsOf(m, D, p)
  BY DEF MapsOf
<1> QED
  BY <1>1, <1>2 DEF RefsOf

\* One mapping replaces another.
OneEntry(n, m, D, a, va, w) ==
  /\ \A b \in Live(D), s \in UserSlot : Table(n, D, b, s) = Table(m, D, b, s)
  /\ \A b \in Live(D), vb \in User :
       Look(n, D[b], vb) = IF b = a /\ vb = va THEN w ELSE Look(m, D[b], vb)

\* Replacing one entry gives its new page a reference and takes one from its old page.
LEMMA EntryRefs ==
  ASSUME NEW m, NEW n, NEW D, NEW a \in Live(D), NEW va \in User, NEW w, NEW p \in Page,
         OneEntry(n, m, D, a, va, w), Look(m, D[a], va).page # w.page
  PROVE  RefsOf(n, D, p) = RefsOf(m, D, p) + (IF p = w.page THEN 1 ELSE 0)
                                           - (IF p = Look(m, D[a], va).page THEN 1 ELSE 0)
<1>0. PICK x \in Nat, y \in Nat, z \in Nat :
        /\ x = Cardinality(DirsOf(D, p)) /\ y = Cardinality(TablesOf(m, D, p))
        /\ z = Cardinality(MapsOf(m, D, p)) /\ RefsOf(m, D, p) = x + y + z
  BY FiniteRefs DEF RefsOf
<1>1. TablesOf(n, D, p) = TablesOf(m, D, p)
  BY DEF TablesOf, OneEntry
<1>2. RefsOf(n, D, p) = x + y + Cardinality(MapsOf(n, D, p))
  BY <1>0, <1>1 DEF RefsOf
<1>3. CASE p = w.page
  <2>1. MapsOf(n, D, p) = MapsOf(m, D, p) \cup {<<a, va>>} /\ <<a, va>> \notin MapsOf(m, D, p)
    BY <1>3 DEF MapsOf, OneEntry
  <2>2. Cardinality(MapsOf(n, D, p)) = z + 1
    <3>1. IsFiniteSet(MapsOf(m, D, p))
      BY FiniteRefs
    <3>2. Cardinality(MapsOf(m, D, p) \cup {<<a, va>>}) = IF <<a, va>> \in MapsOf(m, D, p) THEN Cardinality(MapsOf(m, D, p)) ELSE Cardinality(MapsOf(m, D, p)) + 1
      BY <3>1, FS_AddElement
    <3> QED
      BY <2>1, <1>0, <3>2
  <2> QED
    BY <1>0, <1>2, <1>3, <2>2
<1>4. CASE p = Look(m, D[a], va).page
  <2>1. MapsOf(n, D, p) = MapsOf(m, D, p) \ {<<a, va>>} /\ <<a, va>> \in MapsOf(m, D, p)
    BY <1>4 DEF MapsOf, OneEntry
  <2>2. Cardinality(MapsOf(n, D, p)) = z - 1
    <3>1. IsFiniteSet(MapsOf(m, D, p))
      BY FiniteRefs
    <3>2. Cardinality(MapsOf(m, D, p) \ {<<a, va>>}) = IF <<a, va>> \in MapsOf(m, D, p) THEN Cardinality(MapsOf(m, D, p)) - 1 ELSE Cardinality(MapsOf(m, D, p))
      BY <3>1, FS_RemoveElement
    <3> QED
      BY <2>1, <1>0, <3>2
  <2> QED
    BY <1>0, <1>2, <1>4, <2>2
<1>5. CASE p # w.page /\ p # Look(m, D[a], va).page
  <2>1. MapsOf(n, D, p) = MapsOf(m, D, p)
    BY <1>5 DEF MapsOf, OneEntry
  <2> QED
    BY <1>0, <1>2, <1>5, <2>1
<1> QED
  BY <1>3, <1>4, <1>5

\* A table more.
LEMMA TableRefs ==
  ASSUME NEW m, NEW n, NEW D, NEW a \in Live(D), NEW s \in UserSlot, NEW q \in Page, NEW p \in Page,
         Table(m, D, a, s) = NoPage,
         \A b \in Live(D), t \in UserSlot : Table(n, D, b, t) = IF b = a /\ t = s THEN q ELSE Table(m, D, b, t),
         \A b \in Live(D), vb \in User : Look(n, D[b], vb) = Look(m, D[b], vb)
  PROVE  RefsOf(n, D, p) = RefsOf(m, D, p) + (IF p = q THEN 1 ELSE 0)
<1>0. PICK x \in Nat, y \in Nat, z \in Nat :
        /\ x = Cardinality(DirsOf(D, p)) /\ y = Cardinality(TablesOf(m, D, p))
        /\ z = Cardinality(MapsOf(m, D, p)) /\ RefsOf(m, D, p) = x + y + z
  BY FiniteRefs DEF RefsOf
<1>1. MapsOf(n, D, p) = MapsOf(m, D, p)
  BY DEF MapsOf
<1>2. RefsOf(n, D, p) = x + Cardinality(TablesOf(n, D, p)) + z
  BY <1>0, <1>1 DEF RefsOf
<1>n. p # NoPage
  BY NoPageAssumption
<1>3. CASE p = q
  <2>1. TablesOf(n, D, p) = TablesOf(m, D, p) \cup {<<a, s>>} /\ <<a, s>> \notin TablesOf(m, D, p)
    BY <1>3, <1>n DEF TablesOf
  <2>2. Cardinality(TablesOf(n, D, p)) = y + 1
    <3>1. IsFiniteSet(TablesOf(m, D, p))
      BY FiniteRefs
    <3>2. Cardinality(TablesOf(m, D, p) \cup {<<a, s>>}) = IF <<a, s>> \in TablesOf(m, D, p) THEN Cardinality(TablesOf(m, D, p)) ELSE Cardinality(TablesOf(m, D, p)) + 1
      BY <3>1, FS_AddElement
    <3> QED
      BY <2>1, <1>0, <3>2
  <2> QED
    BY <1>0, <1>2, <1>3, <2>2
<1>4. CASE p # q
  <2>1. TablesOf(n, D, p) = TablesOf(m, D, p)
    BY <1>4, <1>n DEF TablesOf
  <2> QED
    BY <1>0, <1>2, <1>4, <2>1
<1> QED
  BY <1>3, <1>4

\* A directory more.
NewDir(n, m, E, D, a, q) ==
  /\ a \notin Live(D) /\ Live(E) = Live(D) \cup {a} /\ E[a] = q /\ \A b \in Live(D) : E[b] = D[b]
  /\ \A b \in Live(D), t \in UserSlot : Table(n, E, b, t) = Table(m, D, b, t)
  /\ \A b \in Live(D), vb \in User : Look(n, E[b], vb) = Look(m, D[b], vb)
  /\ \A t \in UserSlot : Table(n, E, a, t) = NoPage
  /\ \A va \in User : Look(n, E[a], va) = Zero

\* A new empty directory is one reference to its page, and to nothing else.
LEMMA DirRefs ==
  ASSUME NEW m, NEW n, NEW D, NEW E, NEW a, NEW q \in Page, NEW p \in Page, NewDir(n, m, E, D, a, q)
  PROVE  RefsOf(n, E, p) = RefsOf(m, D, p) + (IF p = q THEN 1 ELSE 0)
<1>0. PICK x \in Nat, y \in Nat, z \in Nat :
        /\ x = Cardinality(DirsOf(D, p)) /\ y = Cardinality(TablesOf(m, D, p))
        /\ z = Cardinality(MapsOf(m, D, p)) /\ RefsOf(m, D, p) = x + y + z
  BY FiniteRefs DEF NewDir, RefsOf
<1>n. p # NoPage
  BY NoPageAssumption
<1>1. TablesOf(n, E, p) = TablesOf(m, D, p)
  BY <1>n DEF NewDir, TablesOf
<1>2. MapsOf(n, E, p) = MapsOf(m, D, p)
  BY <1>n, Words DEF NewDir, MapsOf
<1>3. RefsOf(n, E, p) = Cardinality(DirsOf(E, p)) + y + z
  BY <1>0, <1>1, <1>2 DEF NewDir, RefsOf
<1>4. CASE p = q
  <2>1. DirsOf(E, p) = DirsOf(D, p) \cup {a} /\ a \notin DirsOf(D, p)
    BY <1>4 DEF NewDir, DirsOf
  <2>2. Cardinality(DirsOf(E, p)) = x + 1
    <3>1. IsFiniteSet(DirsOf(D, p))
      BY FiniteRefs
    <3>2. Cardinality(DirsOf(D, p) \cup {a}) = IF a \in DirsOf(D, p) THEN Cardinality(DirsOf(D, p)) ELSE Cardinality(DirsOf(D, p)) + 1
      BY <3>1, FS_AddElement
    <3> QED
      BY <2>1, <1>0, <3>2
  <2> QED
    BY <1>0, <1>3, <1>4, <2>2
<1>5. CASE p # q
  <2>1. DirsOf(E, p) = DirsOf(D, p)
    BY <1>5 DEF NewDir, DirsOf
  <2> QED
    BY <1>0, <1>3, <1>5, <2>1
<1> QED
  BY <1>4, <1>5

------------------------------------------------------------------------------
(* What the functions of pmap.c do to each field *)

MemoryType == [free : SUBSET Page, ref : [Page -> 0 .. RefMod - 1], mem : MemType,
               tlb : SUBSET TlbType, fault : BOOLEAN]

\* An invalid word that user code did not write is zero.
LEMMA WordEq ==
  /\ \A w \in Word : w.page = NoPage /\ w # UserData => w = Zero
  /\ \A w \in Word : w.page \in Page \cup {NoPage} /\ w.d \in BOOLEAN
<1>1. \A w \in Word : w = [page |-> w.page, d |-> w.d] /\ w.page \in Page \cup {NoPage} /\ w.d \in BOOLEAN
  BY DEF Word
<1> QED
  BY <1>1 DEF UserData, Zero

\* What pgdir_walk and page_lookup return, in terms of the contents of pages.
LEMMA LookupIs ==
  ASSUME NEW M, NEW dir, NEW va
  PROVE  /\ page_lookup(M, dir, va) = Look(M.mem, dir, va)
         /\ M.mem[dir][va[1]].page # NoPage => pgdir_walk(M, dir, va) = <<M.mem[dir][va[1]].page, va[2]>>
         /\ M.mem[dir][va[1]].page = NoPage <=> pgdir_walk(M, dir, va) = <<>>
<1>1. \A x, y : <<x, y>> # <<>>
  OBVIOUS
<1> QED
  BY <1>1 DEF page_lookup, pgdir_walk, Look, Valid, PDX, PTX

\* page_alloc takes a page off the free list and clears it.
LEMMA AllocFields ==
  ASSUME NEW M \in MemoryType, NEW p \in Page
  PROVE  LET N == page_alloc(M, p) IN
         /\ N \in MemoryType
         /\ N.free = M.free \ {p} /\ N.ref = M.ref /\ N.mem = [M.mem EXCEPT ![p] = Cleared]
         /\ N.tlb = M.tlb /\ N.fault = M.fault
<1> DEFINE free == M.free \ {p}
           mem2 == [M.mem EXCEPT ![p] = Cleared]
<1>1. page_alloc(M, p) = [M EXCEPT !.free = free, !.mem = mem2]
  BY DEF page_alloc
<1>2. free \in SUBSET Page /\ mem2 \in MemType
  BY Words DEF MemoryType, MemType
<1> HIDE DEF free, mem2
<1>3. LET N == page_alloc(M, p) IN
         /\ N \in MemoryType
         /\ N.free = free /\ N.ref = M.ref /\ N.mem = mem2
         /\ N.tlb = M.tlb /\ N.fault = M.fault
  BY <1>1, <1>2 DEF MemoryType
<1> QED
  BY <1>3 DEF free, mem2

\* The entries left when those for va of address space a are invalidated.
Flush(b, a, va) == {t \in b : ~(t.asid = a /\ t.vpn2 = VPN2(va))}

\* tlb_invalidate only removes entries from the TLB.
LEMMA InvalidateFields ==
  ASSUME NEW M \in MemoryType, NEW a, NEW va
  PROVE  LET N == tlb_invalidate(M, a, va) IN
         /\ N \in MemoryType
         /\ N.free = M.free /\ N.ref = M.ref /\ N.mem = M.mem /\ N.fault = M.fault
         /\ N.tlb = Flush(M.tlb, a, va)
<1> DEFINE b == {t \in M.tlb : ~(t.asid = a /\ t.vpn2 = VPN2(va))}
<1>1. tlb_invalidate(M, a, va) = [M EXCEPT !.tlb = b]
  BY DEF tlb_invalidate
<1>2. b \in SUBSET TlbType
  BY DEF MemoryType
<1> HIDE DEF b
<1>3. LET N == tlb_invalidate(M, a, va) IN
         /\ N \in MemoryType
         /\ N.free = M.free /\ N.ref = M.ref /\ N.mem = M.mem /\ N.fault = M.fault /\ N.tlb = b
  BY <1>1, <1>2 DEF MemoryType
<1> QED
  BY <1>3 DEF b, Flush

\* A word is written in a memory.
LEMMA Writes ==
  ASSUME NEW m \in MemType, NEW t \in Page, NEW i \in Slot, NEW w \in Word
  PROVE  Wrote([m EXCEPT ![t][i] = w], m, t, i, w)
<1> DEFINE row == [m[t] EXCEPT ![i] = w]
           n == [m EXCEPT ![t] = row]
<1>1. m[t] \in [Slot -> Word]
  BY DEF MemType
<1>2. row \in [Slot -> Word] /\ row[i] = w /\ \A j \in Slot : j # i => row[j] = m[t][j]
  BY <1>1
<1>3. [m EXCEPT ![t][i] = w] = n
  OBVIOUS
<1> HIDE DEF row
<1>4. n \in MemType /\ n[t] = row /\ \A q \in Page : q # t => n[q] = m[q]
  BY <1>2 DEF MemType
<1> QED
  BY <1>2, <1>3, <1>4 DEF Wrote

\* A store to a table entry changes this one word of memory.
LEMMA StoreFields ==
  ASSUME NEW M \in MemoryType, NEW t \in Page, NEW i \in Slot, NEW w \in Word
  PROVE  LET N == Store(M, <<t, i>>, w) IN
         /\ N \in MemoryType
         /\ N.free = M.free /\ N.ref = M.ref /\ N.tlb = M.tlb /\ N.fault = M.fault
         /\ Wrote(N.mem, M.mem, t, i, w)
<1> DEFINE n == [M.mem EXCEPT ![t][i] = w]
<1>1. Store(M, <<t, i>>, w) = [M EXCEPT !.mem = n]
  BY DEF Store
<1>2. Wrote(n, M.mem, t, i, w)
  BY Writes DEF MemoryType
<1>3. n \in MemType
  BY <1>2 DEF Wrote
<1> HIDE DEF n
<1> QED
  BY <1>1, <1>2, <1>3 DEF MemoryType

\* page_decref of a page that is referred to.
LEMMA DecrefFields ==
  ASSUME NEW M \in MemoryType, NEW p \in Page, M.ref[p] > 0, M.fault = FALSE
  PROVE  LET N == page_decref(M, p) IN
         /\ N \in MemoryType
         /\ N.free = IF M.ref[p] = 1 THEN M.free \cup {p} ELSE M.free
         /\ N.ref[p] = M.ref[p] - 1 /\ \A q \in Page : q # p => N.ref[q] = M.ref[q]
         /\ N.mem = M.mem /\ N.tlb = M.tlb /\ N.fault = FALSE
<1> DEFINE k == (M.ref[p] - 1) % RefMod
           ref2 == [M.ref EXCEPT ![p] = k]
           bad == M.fault \/ M.ref[p] = 0
           free2 == M.free \cup {p}
           B == [M EXCEPT !.fault = bad, !.ref = ref2]
<1>0. M.ref[p] \in 1 .. RefMod - 1 /\ RefMod \in Nat
  BY RefModAssumption DEF MemoryType
<1>1. k = M.ref[p] - 1 /\ k \in 0 .. RefMod - 1
  BY <1>0
<1>2. bad = FALSE
  BY <1>0
<1>3. /\ ref2 \in [Page -> 0 .. RefMod - 1] /\ ref2[p] = M.ref[p] - 1
      /\ \A q \in Page : q # p => ref2[q] = M.ref[q]
  BY <1>1 DEF MemoryType
<1>4. free2 \in SUBSET Page
  BY DEF MemoryType
<1>5. page_decref(M, p) = IF M.ref[p] = 1 THEN [B EXCEPT !.free = @ \cup {p}] ELSE B
  BY DEF page_decref, page_free
<1> HIDE DEF bad, ref2, k
<1>6. /\ B \in MemoryType /\ B.free = M.free /\ B.ref = ref2 /\ B.mem = M.mem /\ B.tlb = M.tlb /\ B.fault = FALSE
  BY <1>2, <1>3 DEF MemoryType
<1>7. [B EXCEPT !.free = @ \cup {p}] = [B EXCEPT !.free = free2]
  BY <1>6
<1> HIDE DEF B, free2
<1> DEFINE C == [B EXCEPT !.free = free2]
<1>8. C \in MemoryType /\ C.free = free2 /\ C.ref = ref2 /\ C.mem = M.mem /\ C.tlb = M.tlb /\ C.fault = FALSE
  BY <1>6, <1>4 DEF MemoryType
<1> HIDE DEF C
<1>9. CASE M.ref[p] = 1
  BY <1>3, <1>5, <1>7, <1>8, <1>9 DEF C, free2
<1>10. CASE M.ref[p] # 1
  BY <1>3, <1>5, <1>6, <1>10
<1> QED
  BY <1>9, <1>10

\* page_insert stores the entry and counts it.
LEMMA CountedFields ==
  ASSUME NEW M \in MemoryType, NEW p \in Page, M.ref[p] + 1 < RefMod
  PROVE  LET N == [M EXCEPT !.ref[p] = (@ + 1) % RefMod] IN
         /\ N \in MemoryType
         /\ N.free = M.free /\ N.mem = M.mem /\ N.tlb = M.tlb /\ N.fault = M.fault
         /\ N.ref[p] = M.ref[p] + 1 /\ \A q \in Page : q # p => N.ref[q] = M.ref[q]
<1> DEFINE k == (M.ref[p] + 1) % RefMod
           ref2 == [M.ref EXCEPT ![p] = k]
<1>0. M.ref[p] \in 0 .. RefMod - 1 /\ RefMod \in Nat
  BY RefModAssumption DEF MemoryType
<1>1. k = M.ref[p] + 1 /\ k \in 0 .. RefMod - 1
  BY <1>0
<1>3. /\ ref2 \in [Page -> 0 .. RefMod - 1] /\ ref2[p] = M.ref[p] + 1
      /\ \A q \in Page : q # p => ref2[q] = M.ref[q]
  BY <1>1 DEF MemoryType
<1>5. [M EXCEPT !.ref[p] = (@ + 1) % RefMod] = [M EXCEPT !.ref = ref2]
  OBVIOUS
<1> HIDE DEF ref2, k
<1> QED
  BY <1>3, <1>5 DEF MemoryType

\* pgdir_walk with 'create' takes a cleared page with one reference and enters it, read-only,
\* into the directory.
LEMMA CreateFields ==
  ASSUME NEW M \in MemoryType, NEW p \in Page, NEW dir \in Page, dir # p, NEW va \in User
  PROVE  LET N == pgdir_walk_create(M, dir, va, p) IN
         /\ N \in MemoryType
         /\ N.free = M.free \ {p} /\ N.tlb = M.tlb /\ N.fault = M.fault
         /\ N.ref[p] = 1 /\ \A q \in Page : q # p => N.ref[q] = M.ref[q]
         /\ Wrote(N.mem, [M.mem EXCEPT ![p] = Cleared], dir, va[1], TablePte(p))
<1> DEFINE A == page_alloc(M, p)
           w == TablePte(p)
           one == 1
           ref2 == [A.ref EXCEPT ![p] = one]
           mem2 == [A.mem EXCEPT ![dir][va[1]] = w]
<1>1. pgdir_walk_create(M, dir, va, p) = [A EXCEPT !.ref = ref2, !.mem = mem2]
  BY DEF pgdir_walk_create, PDX, TablePte
<1>2. /\ A \in MemoryType
      /\ A.free = M.free \ {p} /\ A.ref = M.ref /\ A.mem = [M.mem EXCEPT ![p] = Cleared]
      /\ A.tlb = M.tlb /\ A.fault = M.fault
  BY AllocFields
<1> HIDE DEF A
<1>3. w \in Word /\ va[1] \in Slot
  BY TablePteIs, UserVa, Slots
<1>4. Wrote(mem2, A.mem, dir, va[1], w)
  BY <1>2, <1>3, Writes DEF MemoryType
<1>5. mem2 \in MemType
  BY <1>4 DEF Wrote
<1>6. ref2 \in [Page -> 0 .. RefMod - 1] /\ ref2[p] = 1 /\ \A q \in Page : q # p => ref2[q] = M.ref[q]
  BY <1>2, RefModAssumption DEF MemoryType
<1> HIDE DEF mem2, ref2, w
<1> DEFINE N == pgdir_walk_create(M, dir, va, p)
<1>7. N \in MemoryType /\ N.free = A.free /\ N.tlb = A.tlb /\ N.fault = A.fault /\ N.ref = ref2 /\ N.mem = mem2
  BY <1>1, <1>2, <1>5, <1>6 DEF MemoryType
<1> HIDE DEF N
<1>8. Wrote(N.mem, [M.mem EXCEPT ![p] = Cleared], dir, va[1], TablePte(p))
  BY <1>2, <1>4, <1>7 DEF w
<1> QED
  BY <1>2, <1>6, <1>7, <1>8 DEF N

------------------------------------------------------------------------------
(* The TLB *)

\* The virtual pages of an entry.
LEMMA WhereIs ==
  ASSUME NEW t \in TlbType, NEW i \in 0 .. 1
  PROVE  Where(t, i) \in Slot \X Slot /\ VPN2(Where(t, i)) = t.vpn2
<1>1. t.vpn2 \in Slot \X (0 .. NSlot \div 2 - 1)
  BY DEF TlbType
<1>2. PICK s \in Slot, k \in 0 .. NSlot \div 2 - 1 : t.vpn2 = <<s, k>>
  BY <1>1
<1>3. NSlot \in Nat /\ NSlot % 2 = 0
  BY NSlotAssumption
<1>4. 2 * k + i \in 0 .. NSlot - 1 /\ (2 * k + i) \div 2 = k
  BY <1>3
<1> QED
  BY <1>2, <1>4 DEF Where, VPN2, PDX, PTX, Slot

\* A TLB with fewer entries stays coherent as long as what it translates is not moved.
LEMMA CoherentKept ==
  ASSUME NEW b, NEW m, NEW D, Coherent(b, m, D), NEW c, c \subseteq b, NEW n, NEW E,
         \A t \in c, i \in 0 .. 1 : Valid(t.lo[i]) =>
           E[t.asid] # NoPage /\ Look(n, E[t.asid], Where(t, i)) = Look(m, D[t.asid], Where(t, i))
  PROVE  Coherent(c, n, E)
  BY DEF Coherent

\* What the TLB holds is a page an address space that lives maps.
LEMMA Hits ==
  ASSUME NEW b, NEW m, NEW D, Coherent(b, m, D), NEW t \in b, NEW i \in 0 .. 1, Valid(t.lo[i])
  PROVE  t.asid \in Live(D) /\ Look(m, D[t.asid], Where(t, i)).page # NoPage
<1>1. t.asid \in Asid
  BY DEF Coherent, TlbType
<1> QED
  BY <1>1 DEF Coherent, Live, Valid

\* An entry of a table changes, and the TLB is flushed for it.
LEMMA Flushed ==
  ASSUME NEW b, NEW m, NEW D, Coherent(b, m, D), NEW a, NEW va, NEW n,
         \A x \in Live(D), vx \in Slot \X Slot :
           Look(m, D[x], vx).page # NoPage /\ ~(x = a /\ VPN2(vx) = VPN2(va))
             => Look(n, D[x], vx) = Look(m, D[x], vx)
  PROVE  Coherent(Flush(b, a, va), n, D)
<1> DEFINE c == {t \in b : ~(t.asid = a /\ t.vpn2 = VPN2(va))}
<1>1. ASSUME NEW t \in c, NEW i \in 0 .. 1, Valid(t.lo[i])
      PROVE  D[t.asid] # NoPage /\ Look(n, D[t.asid], Where(t, i)) = Look(m, D[t.asid], Where(t, i))
  <2>1. t \in TlbType
    BY DEF Coherent
  <2>2. t.asid \in Live(D) /\ Look(m, D[t.asid], Where(t, i)).page # NoPage
    BY <1>1, Hits
  <2>3. Where(t, i) \in Slot \X Slot /\ VPN2(Where(t, i)) = t.vpn2
    BY <2>1, WhereIs
  <2>4. ~(t.asid = a /\ VPN2(Where(t, i)) = VPN2(va))
    BY <2>3
  <2> QED
    BY <2>2, <2>3, <2>4 DEF Live
<1> QED
  BY <1>1, CoherentKept DEF Flush

\* Nothing that was mapped changes.
LEMMA Undisturbed ==
  ASSUME NEW b, NEW m, NEW D, Coherent(b, m, D), NEW n,
         \A x \in Live(D), vx \in Slot \X Slot :
           Look(m, D[x], vx).page # NoPage => Look(n, D[x], vx) = Look(m, D[x], vx)
  PROVE  Coherent(b, n, D)
<1>1. ASSUME NEW t \in b, NEW i \in 0 .. 1, Valid(t.lo[i])
      PROVE  D[t.asid] # NoPage /\ Look(n, D[t.asid], Where(t, i)) = Look(m, D[t.asid], Where(t, i))
  <2>1. t \in TlbType
    BY DEF Coherent
  <2>2. t.asid \in Live(D) /\ Look(m, D[t.asid], Where(t, i)).page # NoPage
    BY <1>1, Hits
  <2>3. Where(t, i) \in Slot \X Slot
    BY <2>1, WhereIs
  <2> QED
    BY <2>2, <2>3 DEF Live
<1> QED
  BY <1>1, CoherentKept

\* Flushing alone.
LEMMA FlushGood ==
  ASSUME NEW M \in MemoryType, NEW D, NEW L, Good(M, D, L), NEW a, NEW va
  PROVE  Good(tlb_invalidate(M, a, va), D, L)
<1>0. PICK N : N = tlb_invalidate(M, a, va)
  OBVIOUS
<1>1. /\ N.free = M.free /\ N.ref = M.ref /\ N.mem = M.mem /\ N.fault = M.fault
      /\ N.tlb = Flush(M.tlb, a, va)
  BY <1>0, InvalidateFields
<1>2. Coherent(N.tlb, M.mem, D)
  <2>1. Coherent(M.tlb, M.mem, D)
    BY DEF Good
  <2>2. Coherent(Flush(M.tlb, a, va), M.mem, D)
    BY <2>1, Flushed
  <2> QED
    BY <2>2, <1>1
<1> QED
  BY <1>0, <1>1, <1>2 DEF Good

------------------------------------------------------------------------------
(* The functions of pmap.c keep the memory good *)

\* The page counts after an entry or a table has changed, for one page.
LEMMA CountFor ==
  ASSUME NEW f, NEW r, NEW m, NEW D, NEW L, Count(f, r, m, D, L), NEW p \in Page
  PROVE  IF p \in L THEN RefsOf(m, D, p) = 0 /\ p \notin f
         ELSE r[p] = RefsOf(m, D, p) /\ (p \in f <=> RefsOf(m, D, p) = 0)
  BY DEF Count

\* A page dropped by everyone, and one taken up again.
With(L, p) == L \cup {p}
Without(L, p) == L \ {p}

\* page_alloc: the page is nobody's.
LEMMA AllocGood ==
  ASSUME NEW M \in MemoryType, NEW D, NEW L, Good(M, D, L), NEW p \in M.free,
         NEW N, N = page_alloc(M, p)
  PROVE  /\ N \in MemoryType /\ Good(N, D, With(L, p))
         /\ N.free = M.free \ {p} /\ N.ref = M.ref /\ N.tlb = M.tlb /\ N.ref[p] = 0
         /\ SameRows(N.mem, M.mem, D) /\ SameLooks(N.mem, M.mem, D) /\ N.mem[p] = Cleared
         /\ ~Kernel(N.mem, D, p) /\ Unmapped(N.mem, D, p)
         /\ \A q \in Page : RefsOf(N.mem, D, q) = RefsOf(M.mem, D, q)
<1>p. p \in Page /\ M.mem \in MemType
  BY DEF MemoryType
<1>1. /\ N \in MemoryType
      /\ N.free = M.free \ {p} /\ N.ref = M.ref /\ N.mem = [M.mem EXCEPT ![p] = Cleared]
      /\ N.tlb = M.tlb /\ N.fault = M.fault
  BY <1>p, AllocFields
<1>2. RefsOf(M.mem, D, p) = 0 /\ p \notin L /\ M.ref[p] = 0
  BY <1>p, CountFor DEF Good
<1>3. ~Kernel(M.mem, D, p) /\ Unmapped(M.mem, D, p)
  BY <1>p, <1>2, NoRefs DEF Good
<1>4. Struct(N.mem, D) /\ SameRows(N.mem, M.mem, D)
  BY <1>1, <1>3, <1>p, WriteUser, Words DEF Good
<1>5. SameLooks(N.mem, M.mem, D)
  BY <1>4, RowsLooks DEF Good
<1>6. /\ \A b \in Live(D), s \in UserSlot : Table(N.mem, D, b, s) = Table(M.mem, D, b, s)
      /\ \A b \in Live(D), vb \in User : Look(N.mem, D[b], vb) = Look(M.mem, D[b], vb)
  BY <1>4, <1>5, UserVa, Slots DEF SameRows, SameLooks, Table
<1>7. \A q \in Page : RefsOf(N.mem, D, q) = RefsOf(M.mem, D, q)
  BY <1>6, SameRefs
<1>8. Count(N.free, N.ref, N.mem, D, With(L, p))
  <2>1. N.free \subseteq Page /\ N.ref \in [Page -> 0 .. RefMod - 1] /\ With(L, p) \subseteq Page
    BY <1>1, <1>p DEF MemoryType, Good, Count, With
  <2>2. ASSUME NEW q \in Page
        PROVE  IF q \in With(L, p) THEN RefsOf(N.mem, D, q) = 0 /\ q \notin N.free
               ELSE N.ref[q] = RefsOf(N.mem, D, q) /\ (q \in N.free <=> RefsOf(N.mem, D, q) = 0)
    <3>1. IF q \in L THEN RefsOf(M.mem, D, q) = 0 /\ q \notin M.free
          ELSE M.ref[q] = RefsOf(M.mem, D, q) /\ (q \in M.free <=> RefsOf(M.mem, D, q) = 0)
      BY CountFor DEF Good
    <3> QED
      BY <3>1, <1>1, <1>2, <1>7 DEF With
  <2> QED
    BY <2>1, <2>2 DEF Count
<1>9. Coherent(N.tlb, N.mem, D)
  BY <1>1, <1>5, Undisturbed DEF Good, SameLooks
<1>10. ~Kernel(N.mem, D, p) /\ Unmapped(N.mem, D, p)
  BY <1>p, <1>2, <1>4, <1>7, NoRefs
<1>11. N.mem[p] = Cleared
  BY <1>1, <1>p DEF MemType
<1> QED
  BY <1>1, <1>2, <1>4, <1>5, <1>7, <1>8, <1>9, <1>10, <1>11 DEF Good

\* Entries of tables are zero or map a page, that is neither a directory nor a table.
LEMMA Entries ==
  ASSUME NEW m, NEW D, Struct(m, D), NEW a \in Live(D), NEW va \in User
  PROVE  /\ Look(m, D[a], va) \in Word /\ Look(m, D[a], va) # UserData
         /\ Look(m, D[a], va).page = NoPage => Look(m, D[a], va) = Zero
         /\ Look(m, D[a], va).page # NoPage =>
              /\ Table(m, D, a, va[1]) \in Page /\ Look(m, D[a], va).page \in Page
              /\ ~Kernel(m, D, Look(m, D[a], va).page)
              /\ RefsOf(m, D, Look(m, D[a], va).page) > 0
<1>1. va[1] \in UserSlot /\ va[2] \in Slot /\ va \in Slot \X Slot
  BY UserVa, Slots
<1>2. PICK w \in Word : w = Look(m, D[a], va)
  BY <1>1, Types
<1>3. w # UserData
  BY <1>1, <1>2, Words DEF Look, Table, Struct, Contents
<1>4. w.page \in Page \cup {NoPage}
  BY WordEq
<1>5. w.page # NoPage => Table(m, D, a, va[1]) # NoPage
  BY <1>2, Words DEF Look, Table
<1>6. w.page # NoPage => ~Kernel(m, D, w.page)
  BY <1>2 DEF Struct, Roles
<1>7. w.page # NoPage => RefsOf(m, D, w.page) # 0
  <2>1. w.page # NoPage => ~Unmapped(m, D, w.page)
    BY <1>2 DEF Unmapped
  <2> QED
    BY <2>1, <1>4, NoRefs
<1>8. RefsOf(m, D, w.page) \in Nat
  BY FiniteRefs
<1> QED
  BY <1>1, <1>2, <1>3, <1>4, <1>5, <1>6, <1>7, <1>8, WordEq, Types

\* page_remove: the mapping goes, and the page with its last mapping.
LEMMA RemoveGood ==
  ASSUME NEW M \in MemoryType, NEW D, NEW L, Good(M, D, L), NEW a \in Live(D), NEW va \in User
  PROVE  LET N == page_remove(M, D[a], a, va)
             old == Look(M.mem, D[a], va).page IN
         /\ N \in MemoryType /\ Good(N, D, L)
         /\ \A b \in Live(D) : N.mem[D[b]] = M.mem[D[b]]
         /\ \A b \in Live(D), vb \in Slot \X Slot :
              Look(N.mem, D[b], vb) = IF b = a /\ vb = va THEN Zero ELSE Look(M.mem, D[b], vb)
         /\ \A q \in Page : q # old => N.ref[q] = M.ref[q] /\ (q \in N.free <=> q \in M.free)
                                       /\ RefsOf(N.mem, D, q) = RefsOf(M.mem, D, q)
         /\ old = NoPage => N = M
<1>0. PICK N, m, n : N = page_remove(M, D[a], a, va) /\ m = M.mem /\ n = N.mem
  OBVIOUS
<1>1. PICK w \in Word : w = Look(m, D[a], va) /\ w = page_lookup(M, D[a], va)
  BY <1>0, Entries, LookupIs DEF Good
<1>2. CASE w.page = NoPage
  <2>1. N = M /\ w = Zero
    BY <1>0, <1>1, <1>2, Entries DEF page_remove, Valid, Good
  <2> QED
    BY <2>1, <1>0, <1>1, <1>2
<1>3. CASE w.page # NoPage
  <2>1. PICK t \in Page, old \in Page : t = Table(m, D, a, va[1]) /\ old = w.page /\ old # NoPage
                      /\ RefsOf(m, D, old) > 0 /\ va[2] \in Slot /\ t # NoPage
    <3>1. /\ Table(m, D, a, va[1]) \in Page /\ Look(m, D[a], va).page \in Page
          /\ RefsOf(m, D, Look(m, D[a], va).page) > 0
      BY <1>0, <1>1, <1>3, Entries DEF Good
    <3> QED
      BY <3>1, <1>1, <1>3, UserVa, NoPageAssumption
  <2>2. pgdir_walk(M, D[a], va) = <<t, va[2]>>
    BY <2>1, <1>0, LookupIs DEF Table
  <2>3. old \notin L /\ M.ref[old] = RefsOf(m, D, old) /\ old \notin M.free /\ M.fault = FALSE
    BY <2>1, <1>0, CountFor DEF Good
  <2> DEFINE A == page_decref(M, old)
             B == Store(A, <<t, va[2]>>, Zero)
  <2>4. N = tlb_invalidate(B, a, va)
    BY <1>0, <1>1, <1>3, <2>1, <2>2 DEF page_remove, Valid
  <2>5. /\ A \in MemoryType
        /\ A.free = IF M.ref[old] = 1 THEN M.free \cup {old} ELSE M.free
        /\ A.ref[old] = M.ref[old] - 1 /\ \A q \in Page : q # old => A.ref[q] = M.ref[q]
        /\ A.mem = m /\ A.tlb = M.tlb /\ A.fault = FALSE
    <3>1. M.ref[old] > 0
      BY <2>1, <2>3
    <3> QED
      BY <3>1, <2>3, <1>0, DecrefFields
  <2> HIDE DEF A
  <2>6. /\ B \in MemoryType
        /\ B.free = A.free /\ B.ref = A.ref /\ B.tlb = A.tlb /\ B.fault = A.fault
        /\ Wrote(B.mem, A.mem, t, va[2], Zero)
    BY <2>1, <2>5, StoreFields, Words
  <2> HIDE DEF B
  <2>7. /\ N \in MemoryType
        /\ N.free = B.free /\ N.ref = B.ref /\ N.mem = B.mem /\ N.fault = B.fault
        /\ N.tlb = Flush(B.tlb, a, va)
    BY <2>4, <2>6, InvalidateFields
  <2>8. Wrote(n, m, t, va[2], Zero)
    BY <1>0, <2>5, <2>6, <2>7
  <2>9. /\ Struct(n, D) /\ \A b \in Live(D) : n[D[b]] = m[D[b]]
        /\ \A b \in Live(D), vb \in Slot \X Slot :
              Look(n, D[b], vb) = IF b = a /\ vb = va THEN Zero ELSE Look(m, D[b], vb)
    BY <2>1, <2>8, <1>0, WriteEntry, Words DEF Good
  <2>10. \A b \in Live(D), s \in UserSlot : Table(n, D, b, s) = Table(m, D, b, s)
    BY <2>9 DEF Table
  <2>11. \A b \in Live(D), vb \in User :
              Look(n, D[b], vb) = IF b = a /\ vb = va THEN Zero ELSE Look(m, D[b], vb)
    BY <2>9, UserVa, Slots
  <2>e. OneEntry(n, m, D, a, va, Zero)
    BY <2>10, <2>11 DEF OneEntry
  <2>12. ASSUME NEW q \in Page
         PROVE  RefsOf(n, D, q) = RefsOf(m, D, q) - (IF q = old THEN 1 ELSE 0)
    <3>0. Look(m, D[a], va).page # Zero.page
      BY <2>1, <1>1, Words
    <3>1. RefsOf(n, D, q) = RefsOf(m, D, q) + (IF q = Zero.page THEN 1 ELSE 0)
                                            - (IF q = Look(m, D[a], va).page THEN 1 ELSE 0)
      BY <3>0, <2>e, EntryRefs
    <3>2. q # NoPage /\ RefsOf(m, D, q) \in Nat
      BY NoPageAssumption, FiniteRefs
    <3> QED
      BY <3>1, <3>2, <2>1, <1>1, Words
  <2>13. Count(N.free, N.ref, n, D, L)
    <3>1. N.free \subseteq Page /\ N.ref \in [Page -> 0 .. RefMod - 1] /\ L \subseteq Page
      BY <2>7 DEF MemoryType, Good, Count
    <3>2. ASSUME NEW q \in Page
          PROVE  IF q \in L THEN RefsOf(n, D, q) = 0 /\ q \notin N.free
                 ELSE N.ref[q] = RefsOf(n, D, q) /\ (q \in N.free <=> RefsOf(n, D, q) = 0)
      <4>1. IF q \in L THEN RefsOf(m, D, q) = 0 /\ q \notin M.free
            ELSE M.ref[q] = RefsOf(m, D, q) /\ (q \in M.free <=> RefsOf(m, D, q) = 0)
        BY <1>0, CountFor DEF Good
      <4>2. RefsOf(m, D, q) \in Nat
        BY FiniteRefs
      <4>3. CASE q = old
        BY <4>1, <4>2, <4>3, <2>1, <2>3, <2>5, <2>6, <2>7, <2>12
      <4>4. CASE q # old
        BY <4>1, <4>2, <4>4, <2>5, <2>6, <2>7, <2>12
      <4> QED
        BY <4>3, <4>4
    <3> QED
      BY <3>1, <3>2 DEF Count
  <2>14. Coherent(N.tlb, n, D)
    <3>1. Coherent(M.tlb, m, D) /\ N.tlb = Flush(M.tlb, a, va)
      BY <1>0, <2>5, <2>6, <2>7 DEF Good
    <3>2. \A x \in Live(D), vx \in Slot \X Slot :
           Look(m, D[x], vx).page # NoPage /\ ~(x = a /\ VPN2(vx) = VPN2(va))
             => Look(n, D[x], vx) = Look(m, D[x], vx)
      BY <2>9
    <3>3. Coherent(Flush(M.tlb, a, va), n, D)
      BY <3>1, <3>2, Flushed
    <3> QED
      BY <3>1, <3>3
  <2>15. Good(N, D, L)
    BY <1>0, <2>5, <2>6, <2>7, <2>9, <2>13, <2>14 DEF Good
  <2>16. ASSUME NEW q \in Page, q # old
         PROVE  N.ref[q] = M.ref[q] /\ (q \in N.free <=> q \in M.free) /\ RefsOf(n, D, q) = RefsOf(m, D, q)
    <3>1. RefsOf(m, D, q) \in Nat
      BY FiniteRefs
    <3> QED
      BY <3>1, <2>5, <2>6, <2>7, <2>12, <2>16
  <2> QED
    BY <1>0, <1>1, <2>1, <2>7, <2>9, <2>15, <2>16
<1> QED
  BY <1>2, <1>3

\* page_insert stores the entry of a page in a table that has none there.
Counted(M, at, p, perm) == [Store(M, at, Pte(p, perm)) EXCEPT !.ref[p] = (@ + 1) % RefMod]

\* The 16 bits of pp_ref are enough for one more reference.
Countable(N, M, D, p) == RefsOf(N.mem, D, p) < RefMod \/ M.ref[p] = 0

\* The second half of page_insert: the entry is empty, its table is there, and writing it with
\* one reference more keeps the counts exact, the tables apart and the TLB coherent.
LEMMA PutGood ==
  ASSUME NEW M \in MemoryType, NEW D, NEW L, Good(M, D, L), NEW a \in Live(D), NEW va \in User,
         NEW t, t = Table(M.mem, D, a, va[1]), t # NoPage, Look(M.mem, D[a], va) = Zero,
         NEW p \in Page, NEW perm \in BOOLEAN, p \notin M.free, M.ref[p] = RefsOf(M.mem, D, p),
         ~Kernel(M.mem, D, p), NEW N, N = Counted(M, <<t, va[2]>>, p, perm),
         Countable(N, M, D, p)
  PROVE  /\ N \in MemoryType /\ Good(N, D, Without(L, p))
         /\ N.tlb = M.tlb
         /\ \A b \in Live(D) : N.mem[D[b]] = M.mem[D[b]]
         /\ \A b \in Live(D), vb \in Slot \X Slot :
              Look(N.mem, D[b], vb) = IF b = a /\ vb = va THEN Pte(p, perm) ELSE Look(M.mem, D[b], vb)
<1>0. PICK m, n, w, A : m = M.mem /\ n = N.mem /\ w = Pte(p, perm) /\ A = Store(M, <<t, va[2]>>, w)
  OBVIOUS
<1>1. w \in Word /\ w.page = p /\ w # UserData /\ p # NoPage
  BY <1>0, Words, NoPageAssumption
<1>2. t \in Page /\ va[2] \in Slot
  BY UserVa, Types DEF Good
<1>3. /\ A \in MemoryType
      /\ A.free = M.free /\ A.ref = M.ref /\ A.tlb = M.tlb /\ A.fault = M.fault
      /\ Wrote(A.mem, M.mem, t, va[2], w)
  BY <1>0, <1>1, <1>2, StoreFields
<1>4. N = [A EXCEPT !.ref[p] = (@ + 1) % RefMod]
  BY <1>0 DEF Counted
<1>5. n = A.mem
  <2>1. [A EXCEPT !.ref[p] = (@ + 1) % RefMod].mem = A.mem
    BY <1>3 DEF MemoryType
  <2> QED
    BY <2>1, <1>0, <1>4
<1>6. /\ Struct(n, D) /\ \A b \in Live(D) : n[D[b]] = m[D[b]]
      /\ \A b \in Live(D), vb \in Slot \X Slot :
              Look(n, D[b], vb) = IF b = a /\ vb = va THEN w ELSE Look(m, D[b], vb)
  <2>1. Struct(m, D) /\ Wrote(n, m, Table(m, D, a, va[1]), va[2], w) /\ Table(m, D, a, va[1]) # NoPage
    BY <1>0, <1>3, <1>5 DEF Good
  <2>2. ~Kernel(m, D, w.page)
    BY <1>0, <1>1
  <2> QED
    BY <2>1, <2>2, <1>1, WriteEntry
<1>7. \A b \in Live(D), s \in UserSlot : Table(n, D, b, s) = Table(m, D, b, s)
  BY <1>6 DEF Table
<1>8. \A b \in Live(D), vb \in User :
              Look(n, D[b], vb) = IF b = a /\ vb = va THEN w ELSE Look(m, D[b], vb)
  BY <1>6, UserVa, Slots
<1>e. OneEntry(n, m, D, a, va, w)
  BY <1>7, <1>8 DEF OneEntry
<1>9. ASSUME NEW q \in Page
      PROVE  RefsOf(n, D, q) = RefsOf(m, D, q) + (IF q = p THEN 1 ELSE 0)
  <2>0. Look(m, D[a], va).page = NoPage /\ Look(m, D[a], va).page # w.page
    BY <1>0, <1>1, Words
  <2>1. RefsOf(n, D, q) = RefsOf(m, D, q) + (IF q = w.page THEN 1 ELSE 0)
                                            - (IF q = Look(m, D[a], va).page THEN 1 ELSE 0)
    BY <2>0, <1>e, EntryRefs
  <2>2. q # NoPage /\ RefsOf(m, D, q) \in Nat
    BY NoPageAssumption, FiniteRefs
  <2> QED
    BY <2>0, <2>1, <2>2, <1>1
<1>10. A.ref[p] + 1 < RefMod
  <2>1. RefsOf(m, D, p) \in Nat
    BY FiniteRefs
  <2> QED
    BY <2>1, <1>0, <1>3, <1>9, RefModAssumption DEF Countable
<1>11. /\ N \in MemoryType
       /\ N.free = M.free /\ N.tlb = M.tlb /\ N.fault = M.fault
       /\ N.ref[p] = M.ref[p] + 1 /\ \A q \in Page : q # p => N.ref[q] = M.ref[q]
  <2>1. LET B == [A EXCEPT !.ref[p] = (@ + 1) % RefMod] IN
        /\ B \in MemoryType
        /\ B.free = A.free /\ B.mem = A.mem /\ B.tlb = A.tlb /\ B.fault = A.fault
        /\ B.ref[p] = A.ref[p] + 1 /\ \A q \in Page : q # p => B.ref[q] = A.ref[q]
    BY <1>3, <1>10, CountedFields, ZenonT(20)
  <2>2. /\ N \in MemoryType
        /\ N.free = A.free /\ N.tlb = A.tlb /\ N.fault = A.fault
        /\ N.ref[p] = A.ref[p] + 1 /\ \A q \in Page : q # p => N.ref[q] = A.ref[q]
    BY <2>1, <1>4, ZenonT(20)
  <2> QED
    BY <2>2, <1>3
<1>12. Count(N.free, N.ref, n, D, Without(L, p))
  <2>1. N.free \subseteq Page /\ N.ref \in [Page -> 0 .. RefMod - 1] /\ Without(L, p) \subseteq Page
    BY <1>11 DEF MemoryType, Good, Count, Without
  <2>2. ASSUME NEW q \in Page
        PROVE  IF q \in Without(L, p) THEN RefsOf(n, D, q) = 0 /\ q \notin N.free
               ELSE N.ref[q] = RefsOf(n, D, q) /\ (q \in N.free <=> RefsOf(n, D, q) = 0)
    <3>1. IF q \in L THEN RefsOf(m, D, q) = 0 /\ q \notin M.free
          ELSE M.ref[q] = RefsOf(m, D, q) /\ (q \in M.free <=> RefsOf(m, D, q) = 0)
      BY <1>0, CountFor DEF Good
    <3>2. RefsOf(m, D, q) \in Nat
      BY FiniteRefs
    <3>3. CASE q = p
      BY <3>2, <3>3, <1>0, <1>9, <1>11 DEF Without
    <3>4. CASE q # p
      BY <3>1, <3>2, <3>4, <1>9, <1>11 DEF Without
    <3> QED
      BY <3>3, <3>4
  <2> QED
    BY <2>1, <2>2 DEF Count
<1>13. Coherent(N.tlb, n, D)
  <2>1. \A x \in Live(D), vx \in Slot \X Slot :
           Look(m, D[x], vx).page # NoPage => Look(n, D[x], vx) = Look(m, D[x], vx)
    BY <1>0, <1>6, Words
  <2>2. Coherent(M.tlb, m, D)
    BY <1>0 DEF Good
  <2> QED
    BY <2>1, <2>2, <1>11, Undisturbed
<1>14. Good(N, D, Without(L, p))
  BY <1>0, <1>6, <1>11, <1>12, <1>13 DEF Good
<1> QED
  BY <1>0, <1>6, <1>11, <1>14

\* N is A but for its words, and page p that has its first reference.
FirstRef(N, A, p) ==
  /\ N.free = A.free /\ N.tlb = A.tlb /\ N.fault = A.fault
  /\ N.ref[p] = 1 /\ \A q \in Page : q # p => N.ref[q] = A.ref[q]

\* A directory gets a table, which is counted: pgdir_walk, or passive_alloc at UVPT.
\* A is the memory before, p a page nobody has.
LEMMA TableGood ==
  ASSUME NEW A \in MemoryType, NEW D, NEW L, Good(A, D, L), NEW a \in Live(D), NEW s \in UserSlot,
         Table(A.mem, D, a, s) = NoPage,
         NEW p \in L, A.mem[p] = Cleared,
         NEW N \in MemoryType, FirstRef(N, A, p),
         Wrote(N.mem, A.mem, D[a], s, TablePte(p))
  PROVE  /\ Good(N, D, Without(L, p))
         /\ \A b \in Live(D), t \in Slot : N.mem[D[b]][t] = IF b = a /\ t = s THEN TablePte(p) ELSE A.mem[D[b]][t]
         /\ \A b \in Live(D), vb \in User : Look(N.mem, D[b], vb) = Look(A.mem, D[b], vb)
         /\ \A q \in Page : RefsOf(N.mem, D, q) = RefsOf(A.mem, D, q) + (IF q = p THEN 1 ELSE 0)
         /\ \A q \in Page : q # p /\ Kernel(N.mem, D, q) => Kernel(A.mem, D, q)
<1>0. PICK m, n, w : m = A.mem /\ n = N.mem /\ w = TablePte(p)
  OBVIOUS
<1>1. p \in Page /\ p # NoPage /\ w \in Word /\ w.page = p /\ w.d = FALSE
  BY <1>0, TablePteIs, NoPageAssumption DEF Good, Count
<1>2. RefsOf(m, D, p) = 0 /\ p \notin A.free
  BY <1>0, <1>1, CountFor DEF Good
<1>3. ~Kernel(m, D, p) /\ Unmapped(m, D, p) /\ Struct(m, D)
  BY <1>0, <1>1, <1>2, NoRefs DEF Good
<1>4. /\ Struct(n, D)
      /\ \A b \in Live(D), t \in Slot : n[D[b]][t] = IF b = a /\ t = s THEN w ELSE m[D[b]][t]
      /\ \A b \in Live(D), vb \in User : Look(n, D[b], vb) = Look(m, D[b], vb)
  <2>1. Table(m, D, a, s) = NoPage /\ m[p] = Cleared /\ Wrote(n, m, D[a], s, w) /\ w = TablePte(p)
    BY <1>0
  <2> QED
    BY <2>1, <1>1, <1>3, WriteTable
<1>5. \A b \in Live(D), t \in UserSlot : Table(n, D, b, t) = IF b = a /\ t = s THEN p ELSE Table(m, D, b, t)
  BY <1>1, <1>4, Slots DEF Table
<1>6. \A q \in Page : RefsOf(n, D, q) = RefsOf(m, D, q) + (IF q = p THEN 1 ELSE 0)
  <2> TAKE q \in Page
  <2>1. Table(m, D, a, s) = NoPage
    BY <1>0
  <2> QED
    BY <2>1, <1>1, <1>4, <1>5, TableRefs
<1>7. Count(N.free, N.ref, n, D, Without(L, p))
  <2>1. N.free \subseteq Page /\ N.ref \in [Page -> 0 .. RefMod - 1] /\ Without(L, p) \subseteq Page
    BY DEF MemoryType, Good, Count, Without, FirstRef
  <2>2. ASSUME NEW q \in Page
        PROVE  IF q \in Without(L, p) THEN RefsOf(n, D, q) = 0 /\ q \notin N.free
               ELSE N.ref[q] = RefsOf(n, D, q) /\ (q \in N.free <=> RefsOf(n, D, q) = 0)
    <3>1. IF q \in L THEN RefsOf(m, D, q) = 0 /\ q \notin A.free
          ELSE A.ref[q] = RefsOf(m, D, q) /\ (q \in A.free <=> RefsOf(m, D, q) = 0)
      BY <1>0, CountFor DEF Good
    <3>2. RefsOf(m, D, q) \in Nat
      BY FiniteRefs
    <3>3. CASE q = p
      BY <3>3, <1>2, <1>6 DEF Without, FirstRef
    <3>4. CASE q # p
      BY <3>1, <3>2, <3>4, <1>6 DEF Without, FirstRef
    <3> QED
      BY <3>3, <3>4
  <2> QED
    BY <2>1, <2>2 DEF Count
<1>8. Coherent(N.tlb, n, D)
  <2>1. ASSUME NEW x \in Live(D), NEW vx \in Slot \X Slot, Look(m, D[x], vx).page # NoPage
        PROVE  Look(n, D[x], vx) = Look(m, D[x], vx)
    <3>0. vx = <<vx[1], vx[2]>> /\ vx[1] \in Slot /\ vx[2] \in Slot
      OBVIOUS
    <3>1. CASE vx[1] \in UserSlot
      BY <3>0, <3>1, <1>4, UserVa
    <3>2. CASE vx[1] = VPT
      <4>1. Look(m, D[x], vx) = m[D[x]][vx[2]] /\ Look(n, D[x], vx) = n[D[x]][vx[2]]
        BY <3>0, <3>2, <1>3, <1>4, SelfMap
      <4>2. ~(x = a /\ vx[2] = s)
        BY <4>1, <2>1, <1>0 DEF Table
      <4> QED
        BY <4>1, <4>2, <3>0, <1>4
    <3> QED
      BY <3>0, <3>1, <3>2, Slots
  <2>2. Coherent(A.tlb, m, D)
    BY <1>0 DEF Good
  <2> QED
    BY <2>1, <2>2, Undisturbed DEF FirstRef
<1>9. Good(N, D, Without(L, p))
  BY <1>0, <1>4, <1>7, <1>8 DEF Good, FirstRef
<1>10. \A q \in Page : q # p /\ Kernel(n, D, q) => Kernel(m, D, q)
  BY <1>5 DEF Kernel
<1> QED
  BY <1>0, <1>4, <1>6, <1>9, <1>10

\* pgdir_walk creates a table.
LEMMA CreateGood ==
  ASSUME NEW M \in MemoryType, NEW D, NEW L, Good(M, D, L), NEW a \in Live(D), NEW va \in User,
         Table(M.mem, D, a, va[1]) = NoPage, NEW p \in M.free
  PROVE  LET N == pgdir_walk_create(M, D[a], va, p) IN
         /\ N \in MemoryType /\ Good(N, D, L)
         /\ N.free = M.free \ {p} /\ N.tlb = M.tlb
         /\ Table(N.mem, D, a, va[1]) = p
         /\ \A b \in Live(D), t \in Slot :
              ~(b = a /\ t = va[1]) => N.mem[D[b]][t] = M.mem[D[b]][t]
         /\ \A b \in Live(D), vb \in User : Look(N.mem, D[b], vb) = Look(M.mem, D[b], vb)
         /\ \A q \in Page : q # p => /\ N.ref[q] = M.ref[q] /\ RefsOf(N.mem, D, q) = RefsOf(M.mem, D, q)
                                     /\ Kernel(N.mem, D, q) => Kernel(M.mem, D, q)
<1>0. PICK N, A : N = pgdir_walk_create(M, D[a], va, p) /\ A = page_alloc(M, p)
  OBVIOUS
<1>p. p \in Page /\ p \notin L
  BY CountFor DEF MemoryType, Good
<1>1. /\ A \in MemoryType /\ Good(A, D, With(L, p))
      /\ A.free = M.free \ {p} /\ A.ref = M.ref /\ A.tlb = M.tlb /\ A.ref[p] = 0
      /\ SameRows(A.mem, M.mem, D) /\ SameLooks(A.mem, M.mem, D) /\ A.mem[p] = Cleared
      /\ ~Kernel(A.mem, D, p) /\ \A q \in Page : RefsOf(A.mem, D, q) = RefsOf(M.mem, D, q)
  BY <1>0, AllocGood
<1>2. A.mem = [M.mem EXCEPT ![p] = Cleared] /\ A.fault = M.fault
  BY <1>0, <1>p, AllocFields
<1>3. va[1] \in UserSlot /\ va[1] \in Slot /\ D[a] \in Page /\ D[a] # p
  BY <1>1, UserVa, Slots, Types DEF Good, Kernel
<1>4. /\ N \in MemoryType /\ N.free = M.free \ {p} /\ N.tlb = M.tlb /\ N.fault = M.fault
      /\ N.ref[p] = 1 /\ \A q \in Page : q # p => N.ref[q] = M.ref[q]
      /\ Wrote(N.mem, A.mem, D[a], va[1], TablePte(p))
  <2>1. LET K == pgdir_walk_create(M, D[a], va, p) IN
        /\ K \in MemoryType
        /\ K.free = M.free \ {p} /\ K.tlb = M.tlb /\ K.fault = M.fault
        /\ K.ref[p] = 1 /\ \A q \in Page : q # p => K.ref[q] = M.ref[q]
        /\ Wrote(K.mem, [M.mem EXCEPT ![p] = Cleared], D[a], va[1], TablePte(p))
    BY <1>3, <1>p, CreateFields, ZenonT(20)
  <2> QED
    BY <2>1, <1>0, <1>2, ZenonT(20)
<1>5. /\ \A b \in Live(D), s \in Slot : A.mem[D[b]][s] = M.mem[D[b]][s]
      /\ \A b \in Live(D), s \in UserSlot : Table(A.mem, D, b, s) = Table(M.mem, D, b, s)
      /\ \A b \in Live(D), vb \in User : Look(A.mem, D[b], vb) = Look(M.mem, D[b], vb)
  BY <1>1, UserVa, Slots DEF SameRows, SameLooks, Table
<1>6. /\ Good(N, D, Without(With(L, p), p))
      /\ \A b \in Live(D), t \in Slot :
           N.mem[D[b]][t] = IF b = a /\ t = va[1] THEN TablePte(p) ELSE A.mem[D[b]][t]
      /\ \A b \in Live(D), vb \in User : Look(N.mem, D[b], vb) = Look(A.mem, D[b], vb)
      /\ \A q \in Page : RefsOf(N.mem, D, q) = RefsOf(A.mem, D, q) + (IF q = p THEN 1 ELSE 0)
      /\ \A q \in Page : q # p /\ Kernel(N.mem, D, q) => Kernel(A.mem, D, q)
  <2>1. Table(A.mem, D, a, va[1]) = NoPage /\ p \in With(L, p) /\ FirstRef(N, A, p)
    BY <1>1, <1>2, <1>3, <1>4, <1>5 DEF With, FirstRef
  <2> QED
    BY <2>1, <1>1, <1>3, <1>4, TableGood
<1>7. Without(With(L, p), p) = L
  BY <1>p DEF With, Without
<1>8. Table(N.mem, D, a, va[1]) = p
  BY <1>3, <1>6, <1>p, TablePteIs DEF Table
<1>9. \A q \in Page : Kernel(A.mem, D, q) => Kernel(M.mem, D, q)
  BY <1>5 DEF Kernel
<1>10. \A q \in Page : q # p => RefsOf(N.mem, D, q) = RefsOf(M.mem, D, q)
  <2> TAKE q \in Page
  <2>1. RefsOf(M.mem, D, q) \in Nat
    BY FiniteRefs
  <2> QED
    BY <2>1, <1>1, <1>6
<1> QED
  <2>1. \A b \in Live(D), t \in Slot :
              ~(b = a /\ t = va[1]) => N.mem[D[b]][t] = M.mem[D[b]][t]
    BY <1>5, <1>6
  <2>2. \A b \in Live(D), vb \in User : Look(N.mem, D[b], vb) = Look(M.mem, D[b], vb)
    BY <1>5, <1>6
  <2>3. \A q \in Page : q # p => (Kernel(N.mem, D, q) => Kernel(M.mem, D, q))
    BY <1>6, <1>9
  <2>4. Good(N, D, L)
    BY <1>6, <1>7
  <2> QED
    BY <2>1, <2>2, <2>3, <2>4, <1>0, <1>4, <1>8, <1>10

\* The TLB has no entry for the pair of pages around va.
Absent(b, a, va) == \A t \in b : ~(t.asid = a /\ t.vpn2 = VPN2(va))
LEMMA FlushAbsent ==
  ASSUME NEW b, NEW a, NEW va
  PROVE  Absent(Flush(b, a, va), a, va)
  BY DEF Absent, Flush

\* page_insert of the page that is mapped there: only the permission changes.
LEMMA RemapGood ==
  ASSUME NEW M \in MemoryType, NEW D, NEW L, Good(M, D, L), NEW a \in Live(D), NEW va \in User,
         NEW p \in Page, Look(M.mem, D[a], va).page = p, NEW w \in Word, w.page = p,
         NEW N, N = Store(tlb_invalidate(M, a, va), pgdir_walk(M, D[a], va), w)
  PROVE  /\ N \in MemoryType /\ Good(N, D, L) /\ N.tlb = Flush(M.tlb, a, va)
         /\ \A b \in Live(D) : N.mem[D[b]] = M.mem[D[b]]
         /\ \A b \in Live(D), vb \in Slot \X Slot :
              Look(N.mem, D[b], vb) = IF b = a /\ vb = va THEN w ELSE Look(M.mem, D[b], vb)
<1>0. PICK m, n, A : m = M.mem /\ n = N.mem /\ A = tlb_invalidate(M, a, va)
  OBVIOUS
<1>1. p # NoPage /\ va[2] \in Slot /\ va[1] \in UserSlot /\ w # UserData
  BY NoPageAssumption, UserVa, Words
<1>2. PICK t \in Page : t = Table(m, D, a, va[1]) /\ t # NoPage
  BY <1>0, <1>1, Entries, NoPageAssumption DEF Good
<1>3. ~Kernel(m, D, w.page) /\ Struct(m, D)
  BY <1>0, <1>1, Entries DEF Good
<1>4. pgdir_walk(M, D[a], va) = <<t, va[2]>>
  BY <1>0, <1>2, LookupIs DEF Table
<1>5. /\ A \in MemoryType /\ A.free = M.free /\ A.ref = M.ref /\ A.mem = M.mem /\ A.fault = M.fault
      /\ A.tlb = Flush(M.tlb, a, va)
  BY <1>0, InvalidateFields
<1>6. N = Store(A, <<t, va[2]>>, w)
  BY <1>0, <1>4
<1>7. /\ N \in MemoryType
      /\ N.free = A.free /\ N.ref = A.ref /\ N.tlb = A.tlb /\ N.fault = A.fault
      /\ Wrote(N.mem, A.mem, t, va[2], w)
  BY <1>1, <1>5, <1>6, StoreFields
<1>8. /\ Struct(n, D) /\ \A b \in Live(D) : n[D[b]] = m[D[b]]
      /\ \A b \in Live(D), vb \in Slot \X Slot :
              Look(n, D[b], vb) = IF b = a /\ vb = va THEN w ELSE Look(m, D[b], vb)
  <2>1. Wrote(n, m, Table(m, D, a, va[1]), va[2], w) /\ Table(m, D, a, va[1]) # NoPage
    BY <1>0, <1>2, <1>5, <1>7
  <2> QED
    BY <2>1, <1>1, <1>3, WriteEntry
<1>9. \A q \in Page : RefsOf(n, D, q) = RefsOf(m, D, q)
  <2>1. \A b \in Live(D), s \in UserSlot : Table(n, D, b, s) = Table(m, D, b, s)
    BY <1>8 DEF Table
  <2>2. \A b \in Live(D), vb \in User : Look(n, D[b], vb).page = Look(m, D[b], vb).page
    BY <1>0, <1>8, UserVa, Slots
  <2> QED
    BY <2>1, <2>2, SameRefs
<1>10. Count(N.free, N.ref, n, D, L)
  BY <1>0, <1>5, <1>7, <1>9 DEF Good, Count
<1>11. Coherent(N.tlb, n, D)
  <2>1. \A x \in Live(D), vx \in Slot \X Slot :
           Look(m, D[x], vx).page # NoPage /\ ~(x = a /\ VPN2(vx) = VPN2(va))
             => Look(n, D[x], vx) = Look(m, D[x], vx)
    BY <1>8
  <2>2. Coherent(M.tlb, m, D) /\ N.tlb = Flush(M.tlb, a, va)
    BY <1>0, <1>5, <1>7 DEF Good
  <2>3. Coherent(Flush(M.tlb, a, va), n, D)
    BY <2>1, <2>2, Flushed
  <2> QED
    BY <2>2, <2>3
<1>12. Good(N, D, L)
  BY <1>0, <1>5, <1>7, <1>8, <1>10, <1>11 DEF Good
<1> QED
  BY <1>0, <1>5, <1>7, <1>8, <1>12

\* page_insert: either it finds no page for a table, and nothing has changed, or
\* the page is mapped, and no other virtual page has moved.
Inserted(N, M, D, L, a, va, p, perm, pt) ==
  /\ N \in MemoryType /\ Absent(N.tlb, a, va)
  /\ page_insert_fails(M, D[a], va, pt) =>
       /\ Good(N, D, L) /\ N.mem = M.mem /\ Look(M.mem, D[a], va).page = NoPage
  /\ ~page_insert_fails(M, D[a], va, pt) =>
       /\ Good(N, D, Without(L, p))
       /\ \A b \in Live(D), vb \in User :
            Look(N.mem, D[b], vb) = IF b = a /\ vb = va THEN Pte(p, perm) ELSE Look(M.mem, D[b], vb)

\* page_insert as a whole, with a table that is there or not, an old page or none, the same
\* page or another.
LEMMA InsertGood ==
  ASSUME NEW M \in MemoryType, NEW D, NEW L, Good(M, D, L), NEW a \in Live(D), NEW va \in User,
         NEW p \in Page, NEW perm \in BOOLEAN, p \notin M.free, M.ref[p] = RefsOf(M.mem, D, p),
         ~Kernel(M.mem, D, p), NEW pt \in page_alloc_choices(M.free),
         NEW N, N = page_insert(M, D[a], a, p, va, perm, pt),
         Countable(N, M, D, p)
  PROVE  Inserted(N, M, D, L, a, va, p, perm, pt)
<1>0. PICK m, w, R, K : /\ m = M.mem /\ w = Pte(p, perm)
                        /\ R = page_remove(M, D[a], a, va) /\ K = tlb_invalidate(R, a, va)
  OBVIOUS
<1>1. w \in Word /\ w.page = p /\ p # NoPage /\ Struct(m, D)
  BY <1>0, Words, NoPageAssumption DEF Good
<1>2. pgdir_walk(M, D[a], va) = <<>> <=> Table(m, D, a, va[1]) = NoPage
  BY <1>0, LookupIs DEF Table
<1>3. page_lookup(M, D[a], va) = Look(m, D[a], va)
  BY <1>0, LookupIs
<1>4. CASE Look(m, D[a], va).page = p
  <2>1. N = Store(tlb_invalidate(M, a, va), pgdir_walk(M, D[a], va), w)
    BY <1>0, <1>3, <1>4 DEF page_insert
  <2>2. /\ N \in MemoryType /\ Good(N, D, L) /\ N.tlb = Flush(M.tlb, a, va)
        /\ \A b \in Live(D), vb \in Slot \X Slot :
              Look(N.mem, D[b], vb) = IF b = a /\ vb = va THEN w ELSE Look(M.mem, D[b], vb)
    BY <2>1, <1>0, <1>1, <1>4, RemapGood
  <2>3. ~page_insert_fails(M, D[a], va, pt)
    <3>1. Table(m, D, a, va[1]) # NoPage
      BY <1>1, <1>4, Entries, NoPageAssumption
    <3> QED
      BY <3>1, <1>2 DEF page_insert_fails
  <2>4. Without(L, p) = L
    <3>1. RefsOf(m, D, p) > 0
      BY <1>1, <1>4, Entries
    <3>2. p \notin L
      BY <3>1, <1>0, CountFor DEF Good
    <3> QED
      BY <3>2 DEF Without
  <2>5. \A b \in Live(D), vb \in User :
              Look(N.mem, D[b], vb) = IF b = a /\ vb = va THEN w ELSE Look(M.mem, D[b], vb)
    BY <2>2, UserVa, Slots
  <2> QED
    BY <2>2, <2>3, <2>4, <2>5, <1>0, FlushAbsent DEF Inserted
<1>5. CASE Look(m, D[a], va).page # p
  <2>0. /\ R \in MemoryType /\ Good(R, D, L)
        /\ \A b \in Live(D) : R.mem[D[b]] = m[D[b]]
        /\ \A b \in Live(D), vb \in Slot \X Slot :
              Look(R.mem, D[b], vb) = IF b = a /\ vb = va THEN Zero ELSE Look(m, D[b], vb)
        /\ R.ref[p] = M.ref[p] /\ (p \in R.free <=> p \in M.free) /\ RefsOf(R.mem, D, p) = RefsOf(m, D, p)
        /\ Look(m, D[a], va).page = NoPage => R = M
    BY <1>0, <1>5, RemoveGood
  <2>1. /\ K \in MemoryType /\ K.free = R.free /\ K.ref = R.ref /\ K.mem = R.mem
        /\ Good(K, D, L) /\ Absent(K.tlb, a, va)
    BY <1>0, <2>0, InvalidateFields, FlushGood, FlushAbsent
  <2>2. \A b \in Live(D), s \in UserSlot : Table(K.mem, D, b, s) = Table(m, D, b, s)
    BY <2>0, <2>1 DEF Table
  <2>3. p \notin K.free /\ K.ref[p] = RefsOf(K.mem, D, p) /\ ~Kernel(K.mem, D, p)
    BY <2>0, <2>1, <2>2, <1>0 DEF Kernel
  <2>4. CASE page_insert_fails(M, D[a], va, pt)
    <3>1. Table(m, D, a, va[1]) = NoPage
      BY <2>4, <1>2 DEF page_insert_fails
    <3>2. Look(m, D[a], va).page = NoPage
      BY <3>1, Words DEF Look, Table
    <3>3. N = K
      BY <2>4, <1>0, <1>3, <1>5 DEF page_insert
    <3> QED
      BY <2>0, <2>1, <2>4, <3>2, <3>3, <1>0 DEF Inserted
  <2>5. CASE ~page_insert_fails(M, D[a], va, pt)
    <3>0. PICK W : W = IF pgdir_walk(M, D[a], va) = <<>> THEN pgdir_walk_create(K, D[a], va, pt) ELSE K
      OBVIOUS
    <3>1. N = Counted(W, pgdir_walk(W, D[a], va), p, perm)
      BY <3>0, <2>5, <1>0, <1>3, <1>5 DEF page_insert, Counted
    <3>2. /\ W \in MemoryType /\ Good(W, D, L) /\ W.tlb = K.tlb /\ Table(W.mem, D, a, va[1]) # NoPage
          /\ Look(W.mem, D[a], va) = Zero
          /\ p \notin W.free /\ W.ref[p] = RefsOf(W.mem, D, p) /\ ~Kernel(W.mem, D, p)
          /\ W.ref[p] = M.ref[p]
          /\ \A b \in Live(D), vb \in User : Look(W.mem, D[b], vb) = Look(K.mem, D[b], vb)
      <4>0. Look(K.mem, D[a], va) = Zero
        BY <2>0, <2>1, UserVa, Slots
      <4>1. CASE Table(m, D, a, va[1]) # NoPage
        <5>1. W = K /\ Table(K.mem, D, a, va[1]) # NoPage
          BY <4>1, <3>0, <2>2, <1>2, UserVa
        <5> QED
          BY <5>1, <4>0, <2>0, <2>1, <2>3
      <4>2. CASE Table(m, D, a, va[1]) = NoPage
        <5>1. Look(m, D[a], va).page = NoPage /\ pt # NoPage
          BY <4>2, <2>5, <1>2, Words DEF Look, Table, page_insert_fails
        <5>2. K.free = M.free /\ pt \in K.free /\ pt # p /\ pt \in Page
          <6>1. K.free = M.free
            BY <5>1, <2>0, <2>1
          <6>2. pt \in M.free
            BY <5>1 DEF page_alloc_choices
          <6> QED
            BY <6>1, <6>2 DEF MemoryType
        <5>3. W = pgdir_walk_create(K, D[a], va, pt) /\ Table(K.mem, D, a, va[1]) = NoPage
          BY <4>2, <3>0, <2>2, <1>2, UserVa
        <5>4. /\ W \in MemoryType /\ Good(W, D, L)
              /\ W.free = K.free \ {pt} /\ W.tlb = K.tlb /\ Table(W.mem, D, a, va[1]) = pt
              /\ \A b \in Live(D), vb \in User : Look(W.mem, D[b], vb) = Look(K.mem, D[b], vb)
              /\ \A q \in Page : q # pt => /\ W.ref[q] = K.ref[q] /\ RefsOf(W.mem, D, q) = RefsOf(K.mem, D, q)
                                           /\ Kernel(W.mem, D, q) => Kernel(K.mem, D, q)
          BY <5>2, <5>3, <2>1, CreateGood
        <5> QED
          BY <5>1, <5>2, <5>4, <4>0, <2>0, <2>1, <2>3
      <4> QED
        BY <4>1, <4>2
    <3>3. pgdir_walk(W, D[a], va) = <<Table(W.mem, D, a, va[1]), va[2]>>
      BY <3>2, LookupIs DEF Table
    <3>4. /\ N \in MemoryType /\ Good(N, D, Without(L, p)) /\ N.tlb = W.tlb
          /\ \A b \in Live(D), vb \in Slot \X Slot :
               Look(N.mem, D[b], vb) = IF b = a /\ vb = va THEN Pte(p, perm) ELSE Look(W.mem, D[b], vb)
      <4>1. PICK t : t = Table(W.mem, D, a, va[1])
        OBVIOUS
      <4>2. N = Counted(W, <<t, va[2]>>, p, perm) /\ t # NoPage
            /\ Countable(N, W, D, p)
        BY <4>1, <3>1, <3>2, <3>3 DEF Countable
      <4>3. /\ W \in MemoryType /\ Good(W, D, L) /\ Look(W.mem, D[a], va) = Zero
            /\ p \notin W.free /\ W.ref[p] = RefsOf(W.mem, D, p) /\ ~Kernel(W.mem, D, p)
        BY <3>2
      <4> QED
        BY <4>1, <4>2, <4>3, PutGood
    <3>5. ASSUME NEW b \in Live(D), NEW vb \in User
          PROVE  Look(N.mem, D[b], vb) = IF b = a /\ vb = va THEN Pte(p, perm) ELSE Look(M.mem, D[b], vb)
      <4>1. vb \in Slot \X Slot
        BY UserVa, Slots
      <4> QED
        BY <4>1, <3>2, <3>4, <2>0, <2>1, <1>0
    <3>6. Absent(N.tlb, a, va)
      BY <3>2, <3>4, <2>1
    <3> QED
      BY <2>5, <3>4, <3>5, <3>6 DEF Inserted
  <2> QED
    BY <2>4, <2>5
<1> QED
  BY <1>4, <1>5

------------------------------------------------------------------------------
(* The handlers: M, D and L are the memory, the directories and the lost pages *)
(* before, N, E and K after.                                                   *)

\* The entry of b for va; Zero without an address space.
EntryOf(m, D, b, va) == IF D[b] = NoPage THEN Zero ELSE Look(m, D[b], va)
\* Entries for invalid memory change, and pages disappear, only at the places X.
Barred(m, D, n, E, X) ==
  \A b \in Live(E), vb \in User :
    vb \in BadVa /\ <<b, vb>> \notin X => EntryOf(n, E, b, vb) = EntryOf(m, D, b, vb)
Kept(m, D, n, E, X) ==
  \A b \in Live(D), vb \in User :
    Look(m, D[b], vb).page # NoPage /\ <<b, vb>> \notin X => E[b] = NoPage \/ Look(n, E[b], vb).page # NoPage
Sound(M, D, N, E, K, X) ==
  N \in MemoryType /\ Good(N, E, K) /\ Barred(M.mem, D, N.mem, E, X) /\ Kept(M.mem, D, N.mem, E, X)

\* A handler that moves no mapping is sound.
LEMMA SameSound ==
  ASSUME NEW M, NEW D, NEW K, NEW X, NEW N \in MemoryType, Good(N, D, K),
         \A b \in Live(D), vb \in User : Look(N.mem, D[b], vb) = Look(M.mem, D[b], vb)
  PROVE  Sound(M, D, N, D, K, X)
  BY DEF Sound, Barred, Kept, EntryOf, Live

\* A handler that maps a page at one address, over an old one or not, is sound.
LEMMA EntrySound ==
  ASSUME NEW M, NEW D, NEW K, NEW X, NEW N \in MemoryType, Good(N, D, K),
         NEW a \in Live(D), NEW va \in User, va \notin BadVa \/ <<a, va>> \in X, NEW w, w.page # NoPage,
         \A b \in Live(D), vb \in User :
           Look(N.mem, D[b], vb) = IF b = a /\ vb = va THEN w ELSE Look(M.mem, D[b], vb)
  PROVE  Sound(M, D, N, D, K, X)
  BY DEF Sound, Barred, Kept, EntryOf, Live

\* In particular at a legal address.
LEMMA LegalSound ==
  ASSUME NEW M, NEW D, NEW K, NEW N \in MemoryType, Good(N, D, K),
         NEW a \in Live(D), NEW va \in User, va \notin BadVa, NEW w, w.page # NoPage,
         \A b \in Live(D), vb \in User :
           Look(N.mem, D[b], vb) = IF b = a /\ vb = va THEN w ELSE Look(M.mem, D[b], vb)
  PROVE  Sound(M, D, N, D, K, {})
  BY DEF Sound, Barred, Kept, EntryOf, Live

\* The page an allocation takes, as page_insert needs it.
LEMMA FreshPage ==
  ASSUME NEW M \in MemoryType, NEW D, NEW L, Good(M, D, L), NEW p \in M.free,
         NEW A, A = page_alloc(M, p)
  PROVE  /\ A \in MemoryType /\ Good(A, D, With(L, p)) /\ p \in Page /\ p \notin L
         /\ A.free = M.free \ {p} /\ p \notin A.free /\ A.tlb = M.tlb /\ A.mem[p] = Cleared
         /\ A.ref[p] = RefsOf(A.mem, D, p) /\ A.ref[p] = 0 /\ ~Kernel(A.mem, D, p)
         /\ \A b \in Live(D) : A.mem[D[b]] = M.mem[D[b]]
         /\ \A b \in Live(D), vb \in Slot \X Slot : Look(A.mem, D[b], vb) = Look(M.mem, D[b], vb)
         /\ Without(With(L, p), p) = L
<1>0. p \in Page /\ p \notin L
  BY CountFor DEF MemoryType, Good
<1>1. /\ A \in MemoryType /\ Good(A, D, With(L, p))
      /\ A.free = M.free \ {p} /\ A.ref = M.ref /\ A.tlb = M.tlb /\ A.ref[p] = 0
      /\ SameRows(A.mem, M.mem, D) /\ SameLooks(A.mem, M.mem, D) /\ A.mem[p] = Cleared
      /\ ~Kernel(A.mem, D, p) /\ Unmapped(A.mem, D, p)
  BY AllocGood
<1>2. RefsOf(A.mem, D, p) = 0
  BY <1>0, <1>1, NoRefs DEF Good
<1>3. Without(With(L, p), p) = L
  BY <1>0 DEF With, Without
<1> QED
  BY <1>0, <1>1, <1>2, <1>3 DEF SameRows, SameLooks

\* page_alloc and page_insert (sys_mem_alloc, passive_alloc): sound also when no page is left
\* for the table and the page is lost.
LEMMA AllocSound ==
  ASSUME NEW M \in MemoryType, NEW D, NEW L, Good(M, D, L), NEW a \in Live(D), NEW va \in User,
         va \notin BadVa, NEW perm \in BOOLEAN, NEW p \in M.free, NEW A, A = page_alloc(M, p),
         NEW pt \in page_alloc_choices(M.free \ {p}),
         NEW N, N = page_insert(A, D[a], a, p, va, perm, pt),
         NEW K, K = IF page_insert_fails(A, D[a], va, pt) THEN L \cup {p} ELSE L
  PROVE  Sound(M, D, N, D, K, {})
<1>1. /\ A \in MemoryType /\ Good(A, D, With(L, p)) /\ p \in Page
      /\ A.free = M.free \ {p} /\ p \notin A.free
      /\ A.ref[p] = RefsOf(A.mem, D, p) /\ A.ref[p] = 0 /\ ~Kernel(A.mem, D, p)
      /\ \A b \in Live(D), vb \in Slot \X Slot : Look(A.mem, D[b], vb) = Look(M.mem, D[b], vb)
      /\ Without(With(L, p), p) = L
  BY FreshPage
<1>2. pt \in page_alloc_choices(A.free)
  BY <1>1
<1>3. \A b \in Live(D), vb \in User : Look(A.mem, D[b], vb) = Look(M.mem, D[b], vb)
  BY <1>1, UserVa, Slots
<1>4. /\ N \in MemoryType
      /\ page_insert_fails(A, D[a], va, pt) => Good(N, D, With(L, p)) /\ N.mem = A.mem
      /\ ~page_insert_fails(A, D[a], va, pt) =>
              /\ Good(N, D, Without(With(L, p), p))
              /\ \A b \in Live(D), vb \in User :
                   Look(N.mem, D[b], vb) = IF b = a /\ vb = va THEN Pte(p, perm) ELSE Look(A.mem, D[b], vb)
  <2>0. PICK J : J = With(L, p)
    OBVIOUS
  <2>1. /\ A \in MemoryType /\ Good(A, D, J) /\ p \in Page
        /\ p \notin A.free /\ A.ref[p] = RefsOf(A.mem, D, p) /\ Countable(N, A, D, p) /\ ~Kernel(A.mem, D, p)
    BY <1>1, <2>0 DEF Countable
  <2>2. Inserted(N, A, D, J, a, va, p, perm, pt)
    BY <1>2, <2>1, InsertGood
  <2> QED
    BY <2>0, <2>2 DEF Inserted
<1>5. CASE page_insert_fails(A, D[a], va, pt)
  <2>1. K = With(L, p)
    BY <1>5 DEF With
  <2>2. Good(N, D, K) /\ \A b \in Live(D), vb \in User : Look(N.mem, D[b], vb) = Look(M.mem, D[b], vb)
    BY <2>1, <1>3, <1>4, <1>5
  <2> QED
    BY <2>2, <1>4, SameSound
<1>6. CASE ~page_insert_fails(A, D[a], va, pt)
  <2>1. K = L /\ Good(N, D, K)
    BY <1>1, <1>4, <1>6
  <2>2. PICK w : w = Pte(p, perm) /\ w.page # NoPage
    BY <1>1, Words, NoPageAssumption
  <2>3. \A b \in Live(D), vb \in User :
           Look(N.mem, D[b], vb) = IF b = a /\ vb = va THEN w ELSE Look(M.mem, D[b], vb)
    BY <1>3, <1>4, <1>6, <2>2
  <2> QED
    BY <2>1, <2>2, <2>3, <1>4, LegalSound
<1> QED
  BY <1>5, <1>6

\* A page that is mapped, as page_insert needs it.
LEMMA MappedPage ==
  ASSUME NEW M \in MemoryType, NEW D, NEW L, Good(M, D, L), NEW a \in Live(D), NEW va \in User,
         NEW p, p = Look(M.mem, D[a], va).page, p # NoPage
  PROVE  /\ p \in Page /\ p \notin M.free /\ p \notin L /\ M.ref[p] = RefsOf(M.mem, D, p)
         /\ ~Kernel(M.mem, D, p) /\ Without(L, p) = L
<1>1. p \in Page /\ ~Kernel(M.mem, D, p) /\ RefsOf(M.mem, D, p) > 0
  BY Entries DEF Good
<1>2. p \notin M.free /\ p \notin L /\ M.ref[p] = RefsOf(M.mem, D, p)
  BY <1>1, CountFor DEF Good
<1> QED
  BY <1>1, <1>2 DEF Without

\* page_insert of a page that is mapped elsewhere (sys_mem_map, sys_ipc_try_send).
LEMMA MapSound ==
  ASSUME NEW M \in MemoryType, NEW D, NEW L, Good(M, D, L), NEW a \in Live(D), NEW sa \in User,
         NEW b \in Live(D), NEW va \in User, NEW perm \in BOOLEAN, NEW X, va \notin BadVa \/ <<b, va>> \in X,
         NEW p, p = Look(M.mem, D[a], sa).page, p # NoPage, NEW pt \in page_alloc_choices(M.free),
         NEW N, N = page_insert(M, D[b], b, p, va, perm, pt), RefsOf(N.mem, D, p) < RefMod
  PROVE  Sound(M, D, N, D, L, X)
<1>1. /\ p \in Page /\ p \notin M.free /\ M.ref[p] = RefsOf(M.mem, D, p)
      /\ ~Kernel(M.mem, D, p) /\ Without(L, p) = L
  BY MappedPage
<1>2. /\ N \in MemoryType
      /\ page_insert_fails(M, D[b], va, pt) => Good(N, D, L) /\ N.mem = M.mem
      /\ ~page_insert_fails(M, D[b], va, pt) =>
              /\ Good(N, D, Without(L, p))
              /\ \A c \in Live(D), vc \in User :
                   Look(N.mem, D[c], vc) = IF c = b /\ vc = va THEN Pte(p, perm) ELSE Look(M.mem, D[c], vc)
  <2>1. Inserted(N, M, D, L, b, va, p, perm, pt)
    BY <1>1, InsertGood DEF Countable
  <2> QED
    BY <2>1 DEF Inserted
<1>3. CASE page_insert_fails(M, D[b], va, pt)
  BY <1>2, <1>3, SameSound
<1>4. CASE ~page_insert_fails(M, D[b], va, pt)
  <2>1. Good(N, D, L)
    BY <1>1, <1>2, <1>4
  <2>2. PICK w : w = Pte(p, perm) /\ w.page # NoPage
    BY <1>1, Words, NoPageAssumption
  <2>3. \A c \in Live(D), vc \in User :
           Look(N.mem, D[c], vc) = IF c = b /\ vc = va THEN w ELSE Look(M.mem, D[c], vc)
    BY <1>2, <1>4, <2>2
  <2> QED
    BY <2>1, <2>2, <2>3, <1>2, EntrySound
<1> QED
  BY <1>3, <1>4

\* page_remove (sys_mem_unmap): only the entry named goes away.
LEMMA UnmapSound ==
  ASSUME NEW M \in MemoryType, NEW D, NEW L, Good(M, D, L), NEW a \in Live(D), NEW va \in User,
         NEW N, N = page_remove(M, D[a], a, va)
  PROVE  Sound(M, D, N, D, L, {<<a, va>>})
<1>1. /\ N \in MemoryType /\ Good(N, D, L)
      /\ \A b \in Live(D), vb \in Slot \X Slot :
              Look(N.mem, D[b], vb) = IF b = a /\ vb = va THEN Zero ELSE Look(M.mem, D[b], vb)
  BY RemoveGood
<1>2. \A b \in Live(D), vb \in User :
              Look(N.mem, D[b], vb) = IF b = a /\ vb = va THEN Zero ELSE Look(M.mem, D[b], vb)
  BY <1>1, UserVa, Slots
<1> QED
  BY <1>1, <1>2, Words DEF Sound, Barred, Kept, EntryOf, Live

------------------------------------------------------------------------------
(* kern/tlbex.c *)

\* What tlbwr writes: the pair of entries around va.
Pair(M, dir, a, va) ==
  LET at   == pgdir_walk(M, dir, va)
      even == 2 * (at[2] \div 2)
  IN  [asid |-> a, vpn2 |-> VPN2(va), lo |-> [i \in 0 .. 1 |-> M.mem[at[1]][even + i]]]

\* Both halves of the new entry are what the page tables say.
LEMMA PairIs ==
  ASSUME NEW M \in MemoryType, NEW D, NEW L, Good(M, D, L), NEW a \in Live(D), NEW va \in Slot \X Slot,
         Look(M.mem, D[a], va).page # NoPage, NEW t, t = Pair(M, D[a], a, va)
  PROVE  /\ t \in TlbType /\ t.asid = a /\ t.vpn2 = VPN2(va)
         /\ \A i \in 0 .. 1 : Look(M.mem, D[a], Where(t, i)) = t.lo[i]
<1>0. PICK x \in Slot, y \in Slot : va = <<x, y>> /\ x = va[1] /\ y = va[2]
  OBVIOUS
<1>1. PICK g \in Page : g = M.mem[D[a]][x].page
  <2>1. M.mem[D[a]][x].page # NoPage
    BY <1>0, Words DEF Look
  <2>2. M.mem[D[a]][x] \in Word
    BY <1>0, Types DEF Good
  <2> QED
    BY <2>1, <2>2, WordEq
<1>2. g # NoPage /\ pgdir_walk(M, D[a], va) = <<g, y>>
  BY <1>0, <1>1, LookupIs, NoPageAssumption
<1>3. PICK h \in 0 .. NSlot \div 2 - 1 : h = y \div 2 /\ 2 * h \in Slot /\ 2 * h + 1 \in Slot
  <2>1. NSlot \in Nat /\ NSlot % 2 = 0 /\ y \in 0 .. NSlot - 1
    BY <1>0, NSlotAssumption DEF Slot
  <2> QED
    BY <2>1 DEF Slot
<1>4. VPN2(va) = <<x, h>> /\ VPN2(va) \in Slot \X (0 .. NSlot \div 2 - 1)
  BY <1>0, <1>3 DEF VPN2, PDX, PTX
<1> DEFINE lo == [i \in 0 .. 1 |-> M.mem[g][2 * h + i]]
<1>5. t = [asid |-> a, vpn2 |-> VPN2(va), lo |-> lo]
  BY <1>2, <1>3 DEF Pair
<1>6. \A i \in 0 .. 1 : 2 * h + i \in Slot /\ lo[i] = M.mem[g][2 * h + i]
  BY <1>3 DEF Slot
<1>7. lo \in [0 .. 1 -> Word]
  <2>1. M.mem[g] \in [Slot -> Word]
    BY DEF MemoryType, MemType
  <2> QED
    BY <2>1, <1>6
<1> HIDE DEF lo
<1>8. t \in TlbType /\ t.asid = a /\ t.vpn2 = VPN2(va) /\ t.lo = lo
  BY <1>4, <1>5, <1>7 DEF TlbType, Live
<1>9. ASSUME NEW i \in 0 .. 1
      PROVE  Look(M.mem, D[a], Where(t, i)) = t.lo[i]
  <2>1. PICK z : z = 2 * h + i
    OBVIOUS
  <2>2. Where(t, i) = <<x, z>>
    BY <2>1, <1>4, <1>8 DEF Where
  <2>3. Look(M.mem, D[a], <<x, z>>) = M.mem[g][z]
    BY <1>1, <1>2 DEF Look
  <2> QED
    BY <2>1, <2>2, <2>3, <1>6, <1>8
<1> QED
  BY <1>8, <1>9

Filled(M, V, t) == [M EXCEPT !.tlb = (@ \ V) \cup {t}]
LEMMA FilledFields ==
  ASSUME NEW M \in MemoryType, NEW V, NEW t \in TlbType
  PROVE  LET N == Filled(M, V, t) IN
         /\ N \in MemoryType
         /\ N.free = M.free /\ N.ref = M.ref /\ N.mem = M.mem /\ N.fault = M.fault
         /\ N.tlb \subseteq M.tlb \cup {t} /\ t \in N.tlb
<1> DEFINE b == (M.tlb \ V) \cup {t}
<1>1. Filled(M, V, t) = [M EXCEPT !.tlb = b]
  BY DEF Filled
<1>2. b \subseteq TlbType /\ b \subseteq M.tlb \cup {t} /\ t \in b
  BY DEF MemoryType
<1> HIDE DEF b
<1> QED
  BY <1>1, <1>2 DEF MemoryType

\* do_tlb_refill writes an entry.  It was invalidated before, so it is the only
\* one for its pair of pages.
LEMMA FillGood ==
  ASSUME NEW M \in MemoryType, NEW D, NEW L, Good(M, D, L), NEW a \in Live(D), NEW va \in Slot \X Slot,
         Look(M.mem, D[a], va).page # NoPage, Absent(M.tlb, a, va),
         NEW V, NEW N, N = Filled(M, V, Pair(M, D[a], a, va))
  PROVE  N \in MemoryType /\ Good(N, D, L) /\ N.mem = M.mem
<1>0. PICK t : t = Pair(M, D[a], a, va)
  OBVIOUS
<1>1. /\ t \in TlbType /\ t.asid = a /\ t.vpn2 = VPN2(va)
      /\ \A i \in 0 .. 1 : Look(M.mem, D[a], Where(t, i)) = t.lo[i]
  BY <1>0, PairIs
<1>2. N = Filled(M, V, t)
  BY <1>0
<1>3. /\ N \in MemoryType
      /\ N.free = M.free /\ N.ref = M.ref /\ N.mem = M.mem /\ N.fault = M.fault
      /\ N.tlb \subseteq M.tlb \cup {t}
  BY <1>1, <1>2, FilledFields
<1>4. Coherent(M.tlb, M.mem, D)
  BY DEF Good
<1>5. N.tlb \subseteq TlbType
  BY <1>1, <1>3, <1>4 DEF Coherent
<1>6. \A u \in N.tlb, i \in 0 .. 1 : Valid(u.lo[i]) =>
        D[u.asid] # NoPage /\ Look(M.mem, D[u.asid], Where(u, i)) = u.lo[i]
  <2> TAKE u \in N.tlb, i \in 0 .. 1
  <2>1. CASE u \in M.tlb
    BY <2>1, <1>4 DEF Coherent
  <2>2. CASE u = t
    BY <2>2, <1>1 DEF Live
  <2> QED
    BY <2>1, <2>2, <1>3
<1>7. \A u, v \in N.tlb : u.asid = v.asid /\ u.vpn2 = v.vpn2 => u = v
  <2>1. \A u, v \in M.tlb : u.asid = v.asid /\ u.vpn2 = v.vpn2 => u = v
    BY <1>4 DEF Coherent
  <2>2. \A u \in M.tlb : ~(u.asid = t.asid /\ u.vpn2 = t.vpn2)
    BY <1>1 DEF Absent
  <2> QED
    BY <2>1, <2>2, <1>3
<1>8. Coherent(N.tlb, N.mem, D)
  BY <1>3, <1>5, <1>6, <1>7 DEF Coherent
<1> QED
  BY <1>3, <1>8 DEF Good

\* passive_alloc maps a page where there was none.
LEMMA PassiveUser ==
  ASSUME NEW M \in MemoryType, NEW D, NEW L, Good(M, D, L), NEW a \in Live(D), NEW va \in User,
         va \notin BadVa, NEW perm \in BOOLEAN, NEW p \in M.free, NEW A, A = page_alloc(M, p),
         NEW pt \in page_alloc_choices(M.free \ {p}), ~page_insert_fails(M, D[a], va, pt),
         NEW N, N = page_insert(A, D[a], a, p, va, perm, pt)
  PROVE  /\ Sound(M, D, N, D, L, {}) /\ Absent(N.tlb, a, va)
         /\ Look(N.mem, D[a], va).page # NoPage
<1>1. /\ A \in MemoryType /\ Good(A, D, With(L, p)) /\ p \in Page
      /\ A.free = M.free \ {p} /\ p \notin A.free
      /\ A.ref[p] = RefsOf(A.mem, D, p) /\ A.ref[p] = 0 /\ ~Kernel(A.mem, D, p)
      /\ A.mem[D[a]] = M.mem[D[a]]
      /\ \A b \in Live(D), vb \in Slot \X Slot : Look(A.mem, D[b], vb) = Look(M.mem, D[b], vb)
      /\ Without(With(L, p), p) = L
  BY FreshPage
<1>2. pt \in page_alloc_choices(A.free)
  BY <1>1
<1>3. \A b \in Live(D), vb \in User : Look(A.mem, D[b], vb) = Look(M.mem, D[b], vb)
  BY <1>1, UserVa, Slots
<1>4. PICK J : J = With(L, p)
  OBVIOUS
<1>5. Inserted(N, A, D, J, a, va, p, perm, pt)
  <2>1. /\ A \in MemoryType /\ Good(A, D, J) /\ p \in Page
        /\ p \notin A.free /\ A.ref[p] = RefsOf(A.mem, D, p) /\ Countable(N, A, D, p) /\ ~Kernel(A.mem, D, p)
    BY <1>1, <1>4 DEF Countable
  <2> QED
    BY <1>2, <2>1, InsertGood
<1>6. ~page_insert_fails(A, D[a], va, pt)
  BY <1>1, NoPageAssumption DEF page_insert_fails, pgdir_walk
<1>7. N \in MemoryType /\ Absent(N.tlb, a, va) /\ Good(N, D, L)
  BY <1>1, <1>4, <1>5, <1>6 DEF Inserted
<1>8. PICK w : w = Pte(p, perm) /\ w.page # NoPage
  BY <1>1, Words, NoPageAssumption
<1>9. \A b \in Live(D), vb \in User :
         Look(N.mem, D[b], vb) = IF b = a /\ vb = va THEN w ELSE Look(M.mem, D[b], vb)
  BY <1>3, <1>5, <1>6, <1>8 DEF Inserted
<1>10. Sound(M, D, N, D, L, {})
  BY <1>7, <1>8, <1>9, LegalSound
<1> QED
  BY <1>7, <1>8, <1>9, <1>10

\* passive_alloc at UVPT: the page becomes an empty table.
page_insert_table(M, dir, a, p, va, pt) == page_insert(M, dir, a, p, va, FALSE, pt)
LEMMA PassiveTable ==
  ASSUME NEW M \in MemoryType, NEW D, NEW L, Good(M, D, L), NEW a \in Live(D), NEW s \in Slot,
         NEW va, va = <<VPT, s>>, Look(M.mem, D[a], va).page = NoPage,
         NEW p \in M.free, NEW A, A = page_alloc(M, p), NEW pt,
         NEW N, N = page_insert_table(A, D[a], a, p, va, pt)
  PROVE  /\ Sound(M, D, N, D, L, {}) /\ Absent(N.tlb, a, va)
         /\ Look(N.mem, D[a], va).page # NoPage
<1>1. /\ A \in MemoryType /\ Good(A, D, With(L, p)) /\ p \in Page /\ p \notin L
      /\ A.ref[p] = 0 /\ A.mem[p] = Cleared /\ A.mem[D[a]] = M.mem[D[a]]
      /\ \A b \in Live(D), vb \in Slot \X Slot : Look(A.mem, D[b], vb) = Look(M.mem, D[b], vb)
      /\ Without(With(L, p), p) = L
  BY FreshPage
<1>2. PICK dir \in Page : dir = D[a] /\ dir # NoPage
  BY Types, NoPageAssumption DEF Good
<1>3. A.mem[dir][VPT].page = dir
  BY <1>1, <1>2 DEF Good, Struct, Contents
<1>4. pgdir_walk(A, dir, va) = <<dir, s>> /\ va \in Slot \X Slot
  <2>1. A.mem[dir][va[1]].page # NoPage
    BY <1>2, <1>3
  <2> QED
    BY <2>1, <1>3, LookupIs, Slots
<1>5. page_lookup(A, dir, va).page = NoPage /\ M.mem[dir][s].page = NoPage /\ M.mem[dir][VPT].page = dir
  <2>1. page_lookup(A, dir, va) = Look(M.mem, D[a], va)
    BY <1>1, <1>2, <1>4, LookupIs
  <2>2. Look(M.mem, D[a], <<VPT, s>>) = M.mem[D[a]][s]
    BY SelfMap DEF Good
  <2> QED
    BY <2>1, <2>2, <1>1, <1>2, <1>3
<1>6. s \in UserSlot /\ Table(A.mem, D, a, s) = NoPage
  BY <1>1, <1>2, <1>5, Slots DEF Table
<1>7. PICK B : B = tlb_invalidate(A, a, va)
  OBVIOUS
<1>8. /\ B \in MemoryType /\ Good(B, D, With(L, p)) /\ B.ref = A.ref /\ B.mem = A.mem
      /\ B.tlb = Flush(A.tlb, a, va)
  BY <1>1, <1>7, InvalidateFields, FlushGood
<1>10. PICK w, C : w = TablePte(p) /\ w \in Word /\ w.page = p /\ C = Store(B, <<dir, s>>, w)
  BY <1>1, TablePteIs
<1>11. /\ C \in MemoryType
       /\ C.free = B.free /\ C.ref = B.ref /\ C.tlb = B.tlb /\ C.fault = B.fault
       /\ Wrote(C.mem, B.mem, dir, s, w)
  BY <1>8, <1>10, StoreFields
<1>12. N = [C EXCEPT !.ref[p] = (@ + 1) % RefMod]
  <2>1. page_remove(A, dir, a, va) = A
    BY <1>5 DEF page_remove, Valid
  <2>2. page_lookup(A, dir, va).page # p
    BY <1>1, <1>5, NoPageAssumption
  <2>3. pgdir_walk(B, dir, va) = <<dir, s>>
    BY <1>4, <1>8 DEF pgdir_walk
  <2>4. pgdir_walk(A, dir, va) # <<>> /\ ~page_insert_fails(A, dir, va, pt)
    BY <1>2, <1>3, LookupIs DEF page_insert_fails
  <2>5. N = [Store(B, <<dir, s>>, Pte(p, FALSE)) EXCEPT !.ref[p] = (@ + 1) % RefMod]
    BY <2>1, <2>2, <2>3, <2>4, <1>2, <1>7 DEF page_insert, page_insert_table
  <2> QED
    BY <2>5, <1>10 DEF TablePte
<1>13. /\ N \in MemoryType
       /\ N.free = C.free /\ N.mem = C.mem /\ N.tlb = C.tlb /\ N.fault = C.fault
       /\ N.ref[p] = C.ref[p] + 1 /\ \A q \in Page : q # p => N.ref[q] = C.ref[q]
  <2>1. C.ref[p] + 1 < RefMod
    BY <1>1, <1>8, <1>11, RefModAssumption
  <2>2. LET K == [C EXCEPT !.ref[p] = (@ + 1) % RefMod] IN
        /\ K \in MemoryType
        /\ K.free = C.free /\ K.mem = C.mem /\ K.tlb = C.tlb /\ K.fault = C.fault
        /\ K.ref[p] = C.ref[p] + 1 /\ \A q \in Page : q # p => K.ref[q] = C.ref[q]
    BY <2>1, <1>1, <1>11, CountedFields, ZenonT(20)
  <2> QED
    BY <2>2, <1>12, ZenonT(20)
<1>14. FirstRef(N, B, p)
  BY <1>1, <1>8, <1>11, <1>13 DEF FirstRef
<1>15. Wrote(N.mem, B.mem, D[a], s, TablePte(p))
  BY <1>2, <1>10, <1>11, <1>13
<1>16. PICK J : J = With(L, p)
  OBVIOUS
<1>17. Good(B, D, J) /\ Table(B.mem, D, a, s) = NoPage /\ p \in J /\ B.mem[p] = Cleared
  BY <1>1, <1>6, <1>8, <1>16 DEF With
<1>18. /\ Good(N, D, Without(J, p))
       /\ \A b \in Live(D), t \in Slot :
            N.mem[D[b]][t] = IF b = a /\ t = s THEN TablePte(p) ELSE B.mem[D[b]][t]
       /\ \A b \in Live(D), vb \in User : Look(N.mem, D[b], vb) = Look(B.mem, D[b], vb)
  BY <1>6, <1>8, <1>13, <1>14, <1>15, <1>17, TableGood
<1>19. Good(N, D, L) /\ \A b \in Live(D), vb \in User : Look(N.mem, D[b], vb) = Look(M.mem, D[b], vb)
  <2>1. \A b \in Live(D), vb \in User : Look(A.mem, D[b], vb) = Look(M.mem, D[b], vb)
    BY <1>1, UserVa, Slots
  <2> QED
    BY <2>1, <1>1, <1>8, <1>16, <1>18
<1>20. Sound(M, D, N, D, L, {})
  BY <1>13, <1>19, SameSound
<1>21. Absent(N.tlb, a, va)
  BY <1>8, <1>11, <1>13, FlushAbsent
<1>22. Look(N.mem, D[a], va).page # NoPage
  <2>1. Look(N.mem, D[a], va) = N.mem[D[a]][s]
    BY <1>19, SelfMap DEF Good
  <2> QED
    BY <2>1, <1>1, <1>10, <1>18, NoPageAssumption
<1> QED
  BY <1>20, <1>21, <1>22

\* A store through the TLB reaches neither a directory nor a table.
LEMMA HitUser ==
  ASSUME NEW M \in MemoryType, NEW D, NEW L, Good(M, D, L), NEW t \in M.tlb, NEW i \in 0 .. 1,
         Valid(t.lo[i]), t.lo[i].d
  PROVE  t.lo[i].page \in Page /\ ~Kernel(M.mem, D, t.lo[i].page)
<1>0. PICK b, m, va, w : b = t.asid /\ m = M.mem /\ va = Where(t, i) /\ w = t.lo[i]
  OBVIOUS
<1>1. Struct(m, D) /\ Coherent(M.tlb, m, D) /\ t \in TlbType
  BY <1>0 DEF Good, MemoryType
<1>2. b \in Live(D) /\ va \in Slot \X Slot /\ Look(m, D[b], va) = w /\ w.page # NoPage
  <2>1. b \in Live(D) /\ va \in Slot \X Slot
    BY <1>0, <1>1, Hits, WhereIs
  <2>2. Look(m, D[b], va) = w
    BY <1>0, <1>1 DEF Coherent
  <2> QED
    BY <2>1, <2>2, <1>0 DEF Valid
<1>3. PICK x \in Slot, y \in Slot : va = <<x, y>>
  BY <1>2
<1>4. CASE x \in UserSlot
  BY <1>0, <1>1, <1>2, <1>3, <1>4, Entries, UserVa
<1>5. CASE x = VPT
  <2>1. w = m[D[b]][y]
    BY <1>1, <1>2, <1>3, <1>5, SelfMap
  <2>2. m[D[b]][y].d = FALSE
    BY <1>1, <1>2, <1>3, Slots DEF Struct, Contents
  <2> QED
    BY <2>1, <2>2, <1>0
<1> QED
  BY <1>4, <1>5, Slots

\* The page a store reaches holds user data from then on.
LEMMA StoreSound ==
  ASSUME NEW M \in MemoryType, NEW D, NEW L, Good(M, D, L), NEW p \in Page, ~Kernel(M.mem, D, p),
         NEW row \in [Slot -> Word], NEW N, N = [M EXCEPT !.mem = [M.mem EXCEPT ![p] = row]]
  PROVE  Sound(M, D, N, D, L, {})
<1> DEFINE n == [M.mem EXCEPT ![p] = row]
<1>0. n \in MemType
  BY DEF MemoryType, MemType
<1>1. Struct(n, D) /\ SameRows(n, M.mem, D)
  BY WriteUser DEF Good
<1> HIDE DEF n
<1>2. N = [M EXCEPT !.mem = n]
  BY DEF n
<1>3. N \in MemoryType /\ N.free = M.free /\ N.ref = M.ref /\ N.mem = n /\ N.tlb = M.tlb /\ N.fault = M.fault
  BY <1>0, <1>2 DEF MemoryType
<1>4. SameLooks(n, M.mem, D)
  BY <1>1, RowsLooks DEF Good
<1>5. /\ \A b \in Live(D), s \in UserSlot : Table(n, D, b, s) = Table(M.mem, D, b, s)
      /\ \A b \in Live(D), vb \in User : Look(n, D[b], vb) = Look(M.mem, D[b], vb)
  BY <1>1, <1>4, UserVa, Slots DEF SameRows, SameLooks, Table
<1>6. \A q \in Page : RefsOf(n, D, q) = RefsOf(M.mem, D, q)
  BY <1>5, SameRefs
<1>7. Count(N.free, N.ref, N.mem, D, L)
  BY <1>3, <1>6 DEF Good, Count
<1>8. Coherent(N.tlb, N.mem, D)
  <2>1. Coherent(M.tlb, n, D)
    BY <1>4, Undisturbed DEF Good, SameLooks
  <2> QED
    BY <2>1, <1>3
<1>9. Good(N, D, L)
  BY <1>1, <1>3, <1>7, <1>8 DEF Good
<1> QED
  BY <1>3, <1>5, <1>9, SameSound

------------------------------------------------------------------------------
(* kern/env.c *)

SetUp(N, M, D, L, p) ==
  /\ N \in MemoryType /\ p \in Page /\ p \notin L
  /\ N.free = M.free \ {p} /\ N.tlb = M.tlb /\ N.fault = FALSE
  /\ N.ref[p] = 1 /\ \A q \in Page : q # p => N.ref[q] = M.ref[q]
  /\ \A q \in Page : q # p => N.mem[q] = M.mem[q]
  /\ EmptyDir(N.mem, p)
  /\ RefsOf(M.mem, D, p) = 0 /\ ~Kernel(M.mem, D, p) /\ Unmapped(M.mem, D, p)

\* env_setup_vm: a fresh page becomes a directory with nothing but itself.
LEMMA SetupFields ==
  ASSUME NEW M \in MemoryType, NEW D, NEW L, Good(M, D, L), NEW p \in M.free,
         NEW N, N = env_setup_vm(M, p)
  PROVE  SetUp(N, M, D, L, p)
<1>0. p \in Page /\ p \notin L /\ M.ref[p] = 0 /\ RefsOf(M.mem, D, p) = 0
  BY CountFor DEF MemoryType, Good
<1>r. ~Kernel(M.mem, D, p) /\ Unmapped(M.mem, D, p)
  BY <1>0, NoRefs DEF Good
<1>1. PICK A, w : A = page_alloc(M, p) /\ w = TablePte(p)
  OBVIOUS
<1>2. /\ A \in MemoryType
      /\ A.free = M.free \ {p} /\ A.ref = M.ref /\ A.mem = [M.mem EXCEPT ![p] = Cleared]
      /\ A.tlb = M.tlb /\ A.fault = M.fault
  BY <1>0, <1>1, AllocFields
<1>3. w \in Word /\ w.page = p /\ w.d = FALSE /\ VPT \in Slot
  BY <1>0, <1>1, TablePteIs, Slots
<1> DEFINE one == A.ref[p] + 1
           ref2 == [A.ref EXCEPT ![p] = one]
           mem2 == [A.mem EXCEPT ![p][VPT] = w]
<1>4. N = [A EXCEPT !.ref = ref2, !.mem = mem2]
  BY <1>1 DEF env_setup_vm, TablePte
<1>5. Wrote(mem2, A.mem, p, VPT, w)
  BY <1>0, <1>2, <1>3, Writes DEF MemoryType
<1>6. mem2 \in MemType
  BY <1>5 DEF Wrote
<1>7. one = 1
  BY <1>0, <1>2
<1> HIDE DEF one
<1>8. ref2 \in [Page -> 0 .. RefMod - 1] /\ ref2[p] = 1 /\ \A q \in Page : q # p => ref2[q] = M.ref[q]
  BY <1>0, <1>2, <1>7, RefModAssumption DEF MemoryType
<1> HIDE DEF mem2, ref2
<1>9. N \in MemoryType /\ N.free = A.free /\ N.tlb = A.tlb /\ N.fault = A.fault /\ N.ref = ref2 /\ N.mem = mem2
  BY <1>2, <1>4, <1>6, <1>8 DEF MemoryType
<1>10. \A q \in Page : q # p => mem2[q] = M.mem[q]
  <2>1. \A q \in Page : q # p => A.mem[q] = M.mem[q]
    BY <1>2 DEF MemoryType, MemType
  <2> QED
    BY <2>1, <1>5 DEF Wrote
<1>11. mem2[p][VPT] = w /\ \A s \in UserSlot : mem2[p][s] = Zero
  <2>1. A.mem[p] = Cleared
    BY <1>0, <1>2 DEF MemoryType, MemType
  <2> QED
    BY <2>1, <1>5, Words, Slots DEF Wrote
<1> QED
  <2>1. EmptyDir(N.mem, p)
    BY <1>3, <1>9, <1>11 DEF EmptyDir
  <2>2. N.fault = FALSE
    BY <1>2, <1>9 DEF Good
  <2> QED
    BY <2>1, <2>2, <1>0, <1>r, <1>2, <1>8, <1>9, <1>10 DEF SetUp

\* env_alloc: an address space begins, with nothing mapped.
LEMMA BeginSound ==
  ASSUME NEW M \in MemoryType, NEW D, NEW L, Good(M, D, L), NEW a \in Asid, D[a] = NoPage, NEW p \in M.free,
         NEW N, N = env_setup_vm(M, p), NEW E, E = Owned(D, a, p)
  PROVE  Sound(M, D, N, E, L, {})
<1>0. PICK m, n : m = M.mem /\ n = N.mem
  OBVIOUS
<1>1. /\ N \in MemoryType /\ p \in Page /\ p \notin L
      /\ N.free = M.free \ {p} /\ N.tlb = M.tlb /\ N.fault = FALSE
      /\ N.ref[p] = 1 /\ \A q \in Page : q # p => N.ref[q] = M.ref[q]
      /\ \A q \in Page : q # p => n[q] = m[q]
      /\ EmptyDir(n, p)
      /\ RefsOf(m, D, p) = 0 /\ ~Kernel(m, D, p) /\ Unmapped(m, D, p)
  <2>1. SetUp(N, M, D, L, p)
    BY SetupFields
  <2> QED
    BY <2>1, <1>0 DEF SetUp
<1>2. n \in MemType /\ Struct(m, D)
  BY <1>0, <1>1 DEF MemoryType, Good
<1>3. /\ Struct(n, E) /\ Live(E) = Live(D) \cup {a} /\ E[a] = p
      /\ \A b \in Live(D) : b # a /\ E[b] = D[b]
      /\ SameRows(n, m, D) /\ SameLooks(n, m, D)
      /\ \A s \in UserSlot : Table(n, E, a, s) = NoPage
      /\ \A va \in User : Look(n, E[a], va) = Zero
  BY <1>1, <1>2, WriteDir
<1>4. /\ \A b \in Live(D), s \in UserSlot : Table(n, E, b, s) = Table(m, D, b, s)
      /\ \A b \in Live(D), vb \in Slot \X Slot : Look(n, E[b], vb) = Look(m, D[b], vb)
      /\ \A b \in Live(D), vb \in User : Look(n, E[b], vb) = Look(m, D[b], vb)
  BY <1>3, UserVa, Slots DEF SameRows, SameLooks, Table
<1>5. \A q \in Page : RefsOf(n, E, q) = RefsOf(m, D, q) + (IF q = p THEN 1 ELSE 0)
  <2> TAKE q \in Page
  <2>1. NewDir(n, m, E, D, a, p)
    BY <1>3, <1>4 DEF NewDir
  <2> QED
    BY <2>1, <1>1, DirRefs
<1>6. Count(N.free, N.ref, n, E, L)
  <2>1. N.free \subseteq Page /\ N.ref \in [Page -> 0 .. RefMod - 1] /\ L \subseteq Page
    BY <1>1 DEF MemoryType, Good, Count
  <2>2. ASSUME NEW q \in Page
        PROVE  IF q \in L THEN RefsOf(n, E, q) = 0 /\ q \notin N.free
               ELSE N.ref[q] = RefsOf(n, E, q) /\ (q \in N.free <=> RefsOf(n, E, q) = 0)
    <3>1. IF q \in L THEN RefsOf(m, D, q) = 0 /\ q \notin M.free
          ELSE M.ref[q] = RefsOf(m, D, q) /\ (q \in M.free <=> RefsOf(m, D, q) = 0)
      BY <1>0, CountFor DEF Good
    <3>2. RefsOf(m, D, q) \in Nat
      BY FiniteRefs
    <3>3. CASE q = p
      BY <3>3, <1>1, <1>5
    <3>4. CASE q # p
      BY <3>1, <3>2, <3>4, <1>1, <1>5
    <3> QED
      BY <3>3, <3>4
  <2> QED
    BY <2>1, <2>2 DEF Count
<1>7. Coherent(N.tlb, n, E)
  <2>1. Coherent(M.tlb, m, D)
    BY <1>0 DEF Good
  <2>2. ASSUME NEW t \in M.tlb, NEW i \in 0 .. 1, Valid(t.lo[i])
        PROVE  E[t.asid] # NoPage /\ Look(n, E[t.asid], Where(t, i)) = Look(m, D[t.asid], Where(t, i))
    <3>1. t.asid \in Live(D) /\ Where(t, i) \in Slot \X Slot
      BY <2>1, <2>2, Hits, WhereIs DEF MemoryType
    <3>2. E[t.asid] = D[t.asid] /\ D[t.asid] # NoPage
      BY <3>1, <1>3 DEF Live
    <3> QED
      BY <3>1, <3>2, <1>4
  <2>3. Coherent(M.tlb, n, E)
    BY <2>1, <2>2, CoherentKept
  <2> QED
    BY <2>3, <1>1
<1>8. Good(N, E, L)
  BY <1>0, <1>1, <1>3, <1>6, <1>7 DEF Good
<1>9. Barred(m, D, n, E, {}) /\ Kept(m, D, n, E, {})
  BY <1>3, <1>4, Words DEF Barred, Kept, EntryOf, Live
<1> QED
  BY <1>0, <1>1, <1>8, <1>9 DEF Sound

\* env_alloc without an asid: the directory is lost.
LEMMA ForgottenSound ==
  ASSUME NEW M \in MemoryType, NEW D, NEW L, Good(M, D, L), NEW p \in M.free,
         NEW N, N = env_setup_vm(M, p), NEW K, K = L \cup {p}
  PROVE  Sound(M, D, N, D, K, {})
<1>0. PICK m, n : m = M.mem /\ n = N.mem
  OBVIOUS
<1>1. /\ N \in MemoryType /\ p \in Page /\ p \notin L
      /\ N.free = M.free \ {p} /\ N.tlb = M.tlb /\ N.fault = FALSE
      /\ N.ref[p] = 1 /\ \A q \in Page : q # p => N.ref[q] = M.ref[q]
      /\ \A q \in Page : q # p => n[q] = m[q]
      /\ RefsOf(m, D, p) = 0 /\ ~Kernel(m, D, p) /\ Unmapped(m, D, p)
  <2>1. SetUp(N, M, D, L, p)
    BY SetupFields
  <2> QED
    BY <2>1, <1>0 DEF SetUp
<1>2. n \in MemType /\ Struct(m, D)
  BY <1>0, <1>1 DEF MemoryType, Good
<1>3. SameRows(n, m, D)
  <2> SUFFICES ASSUME NEW a \in Live(D)
               PROVE  /\ n[D[a]] = m[D[a]]
                      /\ \A s \in UserSlot : Table(m, D, a, s) # NoPage =>
                           n[Table(m, D, a, s)] = m[Table(m, D, a, s)]
    BY DEF SameRows
  <2>1. D[a] # p /\ \A s \in UserSlot : Table(m, D, a, s) # p
    BY <1>1 DEF Kernel
  <2> QED
    BY <2>1, <1>1, <1>2, Types
<1>4. Struct(n, D) /\ SameLooks(n, m, D)
  BY <1>2, <1>3, RowsStruct, RowsLooks
<1>5. /\ \A b \in Live(D), s \in UserSlot : Table(n, D, b, s) = Table(m, D, b, s)
      /\ \A b \in Live(D), vb \in User : Look(n, D[b], vb) = Look(m, D[b], vb)
  BY <1>3, <1>4, UserVa, Slots DEF SameRows, SameLooks, Table
<1>6. \A q \in Page : RefsOf(n, D, q) = RefsOf(m, D, q)
  BY <1>5, SameRefs
<1>7. Count(N.free, N.ref, n, D, K)
  <2>1. N.free \subseteq Page /\ N.ref \in [Page -> 0 .. RefMod - 1] /\ K \subseteq Page
    BY <1>1 DEF MemoryType, Good, Count
  <2>2. ASSUME NEW q \in Page
        PROVE  IF q \in K THEN RefsOf(n, D, q) = 0 /\ q \notin N.free
               ELSE N.ref[q] = RefsOf(n, D, q) /\ (q \in N.free <=> RefsOf(n, D, q) = 0)
    <3>1. IF q \in L THEN RefsOf(m, D, q) = 0 /\ q \notin M.free
          ELSE M.ref[q] = RefsOf(m, D, q) /\ (q \in M.free <=> RefsOf(m, D, q) = 0)
      BY <1>0, CountFor DEF Good
    <3> QED
      BY <3>1, <1>1, <1>6
  <2> QED
    BY <2>1, <2>2 DEF Count
<1>8. Coherent(N.tlb, n, D)
  <2>1. Coherent(M.tlb, n, D)
    BY <1>0, <1>4, Undisturbed DEF Good, SameLooks
  <2> QED
    BY <2>1, <1>1
<1>9. Good(N, D, K)
  BY <1>0, <1>1, <1>4, <1>7, <1>8 DEF Good
<1> QED
  BY <1>0, <1>1, <1>5, <1>9, SameSound

\* What env_free drops: the mappings, the tables and the directory of dir.
MappedIn(M, dir) == {va \in UserSlot \X Slot : Valid(page_lookup(M, dir, va))}
TablesIn(M, dir) == {s \in UserSlot : Valid(M.mem[dir][s])}
MapsHere(M, dir, p) == {va \in MappedIn(M, dir) : page_lookup(M, dir, va).page = p}
TablesHere(M, dir, p) == {s \in TablesIn(M, dir) : M.mem[dir][s].page = p}
Drops(M, dir, p) ==
  Cardinality(MapsHere(M, dir, p)) + Cardinality(TablesHere(M, dir, p)) + (IF p = dir THEN 1 ELSE 0)
FreedTlb(M, dir, a) ==
  {t \in M.tlb : ~(t.asid = a /\ t.vpn2 \in env_free_flushed(MappedIn(M, dir), TablesIn(M, dir)))}
Freed(M, dir, a) ==
  [free  |-> M.free \cup {p \in Page : Drops(M, dir, p) > 0 /\ M.ref[p] = Drops(M, dir, p)},
   ref   |-> [p \in Page |-> (M.ref[p] - Drops(M, dir, p)) % RefMod],
   mem   |-> [p \in Page |->
                IF p = dir
                THEN [s \in Slot |-> IF s = VPT THEN M.mem[p][s] ELSE Zero]
                ELSE IF \E s \in TablesIn(M, dir) : M.mem[dir][s].page = p
                THEN [s \in Slot |-> IF Valid(M.mem[p][s]) THEN Zero ELSE M.mem[p][s]]
                ELSE M.mem[p]],
   tlb   |-> {t \in M.tlb : ~(t.asid = a /\ t.vpn2 \in env_free_flushed(MappedIn(M, dir), TablesIn(M, dir)))},
   fault |-> \E p \in Page : Drops(M, dir, p) > M.ref[p]]

\* A union of what others have and what a has.
Split(S, T, a, H) == T \subseteq S /\ (\A x \in T : x[1] # a) /\ S = T \cup ({a} \X H)
LEMMA CountOwn ==
  ASSUME NEW S, IsFiniteSet(S), NEW a, NEW T, NEW H, IsFiniteSet(H), Split(S, T, a, H)
  PROVE  Cardinality(S) = Cardinality(T) + Cardinality(H)
<1>1. IsFiniteSet(T) /\ IsFiniteSet({a}) /\ Cardinality({a}) = 1
  BY FS_Subset, FS_Singleton DEF Split
<1>2. PICK P : P = {a} \X H
  OBVIOUS
<1>3. IsFiniteSet(P) /\ Cardinality(P) = Cardinality({a}) * Cardinality(H)
  BY <1>1, <1>2, FS_Product
<1>4. T \cap P = {}
  BY <1>2 DEF Split
<1>5. Cardinality(S) = Cardinality(T) + Cardinality(P) - Cardinality(T \cap P)
  <2>1. S = T \cup P
    BY <1>2 DEF Split
  <2> QED
    BY <2>1, <1>1, <1>3, FS_Union
<1>6. Cardinality(T \cap P) = 0
  BY <1>4, FS_EmptySet
<1>7. Cardinality(T) \in Nat /\ Cardinality(P) \in Nat /\ Cardinality(H) \in Nat
  BY <1>1, <1>3, FS_CardinalityType
<1>8. PICK x \in Nat, y \in Nat, z \in Nat : x = Cardinality(T) /\ y = Cardinality(P) /\ z = Cardinality(H)
  BY <1>7
<1>9. y = z
  BY <1>1, <1>3, <1>8
<1> QED
  BY <1>5, <1>6, <1>8, <1>9

\* n and E are m and D without the address space a.
Ended(n, m, E, D, a) ==
  /\ Live(E) = Live(D) \ {a} /\ \A b \in Live(E) : E[b] = D[b]
  /\ \A b \in Live(E), t \in UserSlot : Table(n, E, b, t) = Table(m, D, b, t)
  /\ \A b \in Live(E), vb \in User : Look(n, E[b], vb) = Look(m, D[b], vb)

\* The pages and tables env_free walks over are those that the address space maps, finitely many.
LEMMA HereIs ==
  ASSUME NEW M, NEW D, NEW a \in Live(D), NEW p \in Page
  PROVE  /\ MapsHere(M, D[a], p) = {va \in User : Look(M.mem, D[a], va).page = p}
         /\ TablesHere(M, D[a], p) = {s \in UserSlot : Table(M.mem, D, a, s) = p}
         /\ IsFiniteSet(MapsHere(M, D[a], p)) /\ IsFiniteSet(TablesHere(M, D[a], p))
<1>0. p # NoPage
  BY NoPageAssumption
<1>1. \A va : page_lookup(M, D[a], va) = Look(M.mem, D[a], va)
  BY LookupIs
<1>2. MapsHere(M, D[a], p) = {va \in User : Look(M.mem, D[a], va).page = p}
  BY <1>0, <1>1 DEF MapsHere, MappedIn, User, Valid
<1>3. TablesHere(M, D[a], p) = {s \in UserSlot : Table(M.mem, D, a, s) = p}
  BY <1>0 DEF TablesHere, TablesIn, Valid, Table
<1>4. IsFiniteSet(Slot) /\ IsFiniteSet(UserSlot)
  <2>1. NSlot \in Int
    BY NSlotAssumption
  <2> QED
    BY <2>1, FS_Interval DEF Slot, UserSlot
<1>5. IsFiniteSet(User)
  BY <1>4, FS_Product DEF User
<1>6. MapsHere(M, D[a], p) \in SUBSET User /\ TablesHere(M, D[a], p) \in SUBSET UserSlot
  BY <1>2, <1>3
<1>7. IsFiniteSet(MapsHere(M, D[a], p)) /\ IsFiniteSet(TablesHere(M, D[a], p))
  BY <1>4, <1>5, <1>6, FS_Subset
<1> QED
  BY <1>2, <1>3, <1>7

\* What env_free drops is what the address space had.
LEMMA DropsRefs ==
  ASSUME NEW M, NEW D, Struct(M.mem, D), NEW a \in Live(D), NEW n, NEW E, Ended(n, M.mem, E, D, a), NEW p \in Page
  PROVE  /\ RefsOf(n, E, p) \in Nat /\ Drops(M, D[a], p) \in Nat
         /\ RefsOf(M.mem, D, p) = RefsOf(n, E, p) + Drops(M, D[a], p)
<1>0. PICK m, H, G : m = M.mem /\ H = MapsHere(M, D[a], p) /\ G = TablesHere(M, D[a], p)
  OBVIOUS
<1>1. /\ H = {va \in User : Look(m, D[a], va).page = p} /\ G = {s \in UserSlot : Table(m, D, a, s) = p}
      /\ IsFiniteSet(H) /\ IsFiniteSet(G)
  BY <1>0, HereIs
<1>2. Cardinality(MapsOf(m, D, p)) = Cardinality(MapsOf(n, E, p)) + Cardinality(H)
  <2>1. IsFiniteSet(MapsOf(m, D, p))
    BY FiniteRefs
  <2>2. MapsOf(n, E, p) \subseteq MapsOf(m, D, p) /\ \A x \in MapsOf(n, E, p) : x[1] # a
    BY <1>0 DEF MapsOf, Ended
  <2>3. MapsOf(m, D, p) = MapsOf(n, E, p) \cup ({a} \X H)
    <3>1. MapsOf(m, D, p) \subseteq MapsOf(n, E, p) \cup ({a} \X H)
      <4> SUFFICES ASSUME NEW x \in MapsOf(m, D, p) PROVE x \in MapsOf(n, E, p) \cup ({a} \X H)
        OBVIOUS
      <4>1. PICK b \in Live(D), vb \in User : x = <<b, vb>> /\ Look(m, D[b], vb).page = p
        BY DEF MapsOf
      <4>2. CASE b = a
        BY <4>1, <4>2, <1>1
      <4>3. CASE b # a
        <5>1. b \in Live(E) /\ Look(n, E[b], vb).page = p
          BY <4>1, <4>3, <1>0 DEF Ended
        <5> QED
          BY <4>1, <5>1 DEF MapsOf
      <4> QED
        BY <4>2, <4>3
    <3>2. {a} \X H \subseteq MapsOf(m, D, p)
      BY <1>1 DEF MapsOf
    <3> QED
      BY <2>2, <3>1, <3>2
  <2>4. Split(MapsOf(m, D, p), MapsOf(n, E, p), a, H)
    BY <2>2, <2>3 DEF Split
  <2> QED
    BY <2>1, <2>4, <1>1, CountOwn
<1>3. Cardinality(TablesOf(m, D, p)) = Cardinality(TablesOf(n, E, p)) + Cardinality(G)
  <2>1. IsFiniteSet(TablesOf(m, D, p))
    BY FiniteRefs
  <2>2. TablesOf(n, E, p) \subseteq TablesOf(m, D, p) /\ \A x \in TablesOf(n, E, p) : x[1] # a
    BY <1>0 DEF TablesOf, Ended
  <2>3. TablesOf(m, D, p) = TablesOf(n, E, p) \cup ({a} \X G)
    <3>1. TablesOf(m, D, p) \subseteq TablesOf(n, E, p) \cup ({a} \X G)
      <4> SUFFICES ASSUME NEW x \in TablesOf(m, D, p) PROVE x \in TablesOf(n, E, p) \cup ({a} \X G)
        OBVIOUS
      <4>1. PICK b \in Live(D), s \in UserSlot : x = <<b, s>> /\ Table(m, D, b, s) = p
        BY DEF TablesOf
      <4>2. CASE b = a
        BY <4>1, <4>2, <1>1
      <4>3. CASE b # a
        <5>1. b \in Live(E) /\ Table(n, E, b, s) = p
          BY <4>1, <4>3, <1>0 DEF Ended
        <5> QED
          BY <4>1, <5>1 DEF TablesOf
      <4> QED
        BY <4>2, <4>3
    <3>2. {a} \X G \subseteq TablesOf(m, D, p)
      BY <1>1 DEF TablesOf
    <3> QED
      BY <2>2, <3>1, <3>2
  <2>4. Split(TablesOf(m, D, p), TablesOf(n, E, p), a, G)
    BY <2>2, <2>3 DEF Split
  <2> QED
    BY <2>1, <2>4, <1>1, CountOwn
<1>4. Cardinality(DirsOf(D, p)) = Cardinality(DirsOf(E, p)) + (IF p = D[a] THEN 1 ELSE 0)
  <2>0. IsFiniteSet(DirsOf(E, p)) /\ Cardinality(DirsOf(E, p)) \in Nat
    BY FiniteRefs
  <2>1. CASE p = D[a]
    <3>1. DirsOf(D, p) = DirsOf(E, p) \cup {a} /\ a \notin DirsOf(E, p)
      BY <2>1 DEF DirsOf, Ended
    <3>2. Cardinality(DirsOf(E, p) \cup {a}) =
            IF a \in DirsOf(E, p) THEN Cardinality(DirsOf(E, p)) ELSE Cardinality(DirsOf(E, p)) + 1
      BY <2>0, FS_AddElement
    <3> QED
      BY <2>1, <3>1, <3>2
  <2>2. CASE p # D[a]
    <3>1. DirsOf(D, p) = DirsOf(E, p)
      BY <2>2 DEF DirsOf, Ended
    <3> QED
      BY <2>0, <2>2, <3>1
  <2> QED
    BY <2>1, <2>2
<1>5. PICK x \in Nat, y \in Nat, z \in Nat, h \in Nat, g \in Nat :
        /\ x = Cardinality(DirsOf(E, p)) /\ y = Cardinality(TablesOf(n, E, p)) /\ z = Cardinality(MapsOf(n, E, p))
        /\ h = Cardinality(H) /\ g = Cardinality(G)
  BY <1>1, FiniteRefs, FS_CardinalityType
<1>6. Drops(M, D[a], p) = h + g + (IF p = D[a] THEN 1 ELSE 0)
  BY <1>0, <1>5 DEF Drops
<1>7. RefsOf(n, E, p) = x + y + z
  BY <1>5 DEF RefsOf
<1>8. RefsOf(m, D, p) = (x + (IF p = D[a] THEN 1 ELSE 0)) + (y + g) + (z + h)
  BY <1>2, <1>3, <1>4, <1>5 DEF RefsOf
<1> QED
  BY <1>0, <1>6, <1>7, <1>8

\* env_free: the address space ends, and with it what only it had.
CanDrop(M, dir) == \A p \in Page : Drops(M, dir, p) \in Nat /\ Drops(M, dir, p) <= M.ref[p]
AfterFree(N, M, dir, a) ==
  /\ N \in MemoryType /\ N.fault = FALSE
  /\ \A p \in Page : N.ref[p] = M.ref[p] - Drops(M, dir, p)
  /\ \A p \in Page : p \in N.free <=> p \in M.free \/ (Drops(M, dir, p) > 0 /\ M.ref[p] = Drops(M, dir, p))
  /\ \A p \in Page : p # dir /\ (\A s \in UserSlot : M.mem[dir][s].page # p) => N.mem[p] = M.mem[p]
  /\ N.tlb = FreedTlb(M, dir, a)
LEMMA FreedIs ==
  ASSUME NEW M \in MemoryType, NEW dir, NEW a, NEW N, N = Freed(M, dir, a), CanDrop(M, dir)
  PROVE  AfterFree(N, M, dir, a)
<1> DEFINE fr == M.free \cup {p \in Page : Drops(M, dir, p) > 0 /\ M.ref[p] = Drops(M, dir, p)}
           rf == [p \in Page |-> (M.ref[p] - Drops(M, dir, p)) % RefMod]
           mm == [p \in Page |->
                    IF p = dir
                    THEN [s \in Slot |-> IF s = VPT THEN M.mem[p][s] ELSE Zero]
                    ELSE IF \E s \in TablesIn(M, dir) : M.mem[dir][s].page = p
                    THEN [s \in Slot |-> IF Valid(M.mem[p][s]) THEN Zero ELSE M.mem[p][s]]
                    ELSE M.mem[p]]
           tb == FreedTlb(M, dir, a)
           ft == \E p \in Page : Drops(M, dir, p) > M.ref[p]
<1>0. N = [free |-> fr, ref |-> rf, mem |-> mm, tlb |-> tb, fault |-> ft]
  BY DEF Freed, FreedTlb
<1>1. /\ fr \subseteq Page
      /\ \A p \in Page : p \in fr <=> p \in M.free \/ (Drops(M, dir, p) > 0 /\ M.ref[p] = Drops(M, dir, p))
  BY DEF MemoryType
<1>2. ASSUME NEW p \in Page
      PROVE  rf[p] = M.ref[p] - Drops(M, dir, p) /\ rf[p] \in 0 .. RefMod - 1
  <2>1. PICK r \in 0 .. RefMod - 1, d \in Nat : r = M.ref[p] /\ d = Drops(M, dir, p) /\ d <= r
    BY DEF MemoryType, CanDrop
  <2>2. RefMod \in Nat /\ RefMod > 0
    BY RefModAssumption
  <2>3. r - d \in 0 .. RefMod - 1
    BY <2>1, <2>2
  <2>4. (r - d) % RefMod = r - d
    BY <2>2, <2>3
  <2>5. rf[p] = (r - d) % RefMod
    BY <2>1
  <2> QED
    BY <2>1, <2>3, <2>4, <2>5
<1>3. rf \in [Page -> 0 .. RefMod - 1]
  BY <1>2
<1>4. mm \in MemType
  <2>1. \A p \in Page, s \in Slot : M.mem[p] \in [Slot -> Word] /\ M.mem[p][s] \in Word
    BY DEF MemoryType, MemType
  <2>2. ASSUME NEW p \in Page PROVE mm[p] \in [Slot -> Word]
    <3>1. CASE p = dir
      <4>1. mm[p] = [s \in Slot |-> IF s = VPT THEN M.mem[p][s] ELSE Zero]
        BY <3>1
      <4> QED
        BY <4>1, <2>1, Words
    <3>2. CASE p # dir /\ \E s \in TablesIn(M, dir) : M.mem[dir][s].page = p
      <4>1. mm[p] = [s \in Slot |-> IF Valid(M.mem[p][s]) THEN Zero ELSE M.mem[p][s]]
        BY <3>2
      <4> QED
        BY <4>1, <2>1, Words
    <3>3. CASE p # dir /\ ~\E s \in TablesIn(M, dir) : M.mem[dir][s].page = p
      <4>1. mm[p] = M.mem[p]
        BY <3>3
      <4>2. M.mem[p] \in [Slot -> Word]
        BY DEF MemoryType, MemType
      <4> HIDE DEF mm
      <4> QED
        BY <4>1, <4>2
    <3> QED
      BY <3>1, <3>2, <3>3
  <2>3. DOMAIN mm = Page /\ mm = [p \in DOMAIN mm |-> mm[p]]
    OBVIOUS
  <2> HIDE DEF mm
  <2> QED
    BY <2>2, <2>3 DEF MemType
<1>5. \A p \in Page : p # dir /\ (\A s \in UserSlot : M.mem[dir][s].page # p) => mm[p] = M.mem[p]
  BY DEF TablesIn
<1>6. tb \subseteq TlbType
  BY DEF MemoryType, FreedTlb
<1>7. ft = FALSE
  <2>1. ASSUME NEW p \in Page PROVE ~(Drops(M, dir, p) > M.ref[p])
    <3>1. PICK r \in 0 .. RefMod - 1, d \in Nat : r = M.ref[p] /\ d = Drops(M, dir, p) /\ d <= r
      BY DEF MemoryType, CanDrop
    <3> QED
      BY <3>1, RefModAssumption
  <2> QED
    BY <2>1
<1> HIDE DEF fr, rf, mm, tb, ft
<1>8. N \in MemoryType /\ N.free = fr /\ N.ref = rf /\ N.mem = mm /\ N.tlb = tb /\ N.fault = FALSE
  <2>1. PICK x \in BOOLEAN : x = ft /\ x = FALSE
    BY <1>7
  <2>2. N = [free |-> fr, ref |-> rf, mem |-> mm, tlb |-> tb, fault |-> x]
    BY <2>1, <1>0
  <2> QED
    BY <2>1, <2>2, <1>1, <1>3, <1>4, <1>6 DEF MemoryType
<1>9. N.tlb = FreedTlb(M, dir, a)
  BY <1>8 DEF tb
<1> QED
  BY <1>1, <1>2, <1>5, <1>8, <1>9 DEF AfterFree

\* Every valid TLB entry of the address space is invalidated: page_remove does it
\* for the mapped pages, env_free for the tables and the directory in the self-map.
LEMMA AllFlushed ==
  ASSUME NEW M \in MemoryType, NEW D, NEW L, Good(M, D, L), NEW a \in Live(D), NEW t \in M.tlb, t.asid = a,
         NEW i \in 0 .. 1, Valid(t.lo[i])
  PROVE  t.vpn2 \in env_free_flushed(MappedIn(M, D[a]), TablesIn(M, D[a]))
<1>0. PICK va : va = Where(t, i)
  OBVIOUS
<1>1. va \in Slot \X Slot /\ VPN2(va) = t.vpn2 /\ Look(M.mem, D[a], va).page # NoPage
  BY <1>0, WhereIs, Hits DEF Good, MemoryType
<1>2. PICK x \in Slot, y \in Slot : va = <<x, y>>
  BY <1>1
<1>3. CASE x \in UserSlot
  <2>1. va \in MappedIn(M, D[a])
    BY <1>1, <1>2, <1>3, LookupIs DEF MappedIn, Valid
  <2> QED
    BY <2>1, <1>1 DEF env_free_flushed
<1>4. CASE x = VPT
  <2>1. M.mem[D[a]][y].page # NoPage
    BY <1>1, <1>2, <1>4, SelfMap DEF Good
  <2>2. y \in TablesIn(M, D[a]) \cup {VPT}
    BY <2>1, Slots DEF TablesIn, Valid
  <2> QED
    BY <2>2, <1>1, <1>2, <1>4 DEF env_free_flushed
<1> QED
  BY <1>3, <1>4, Slots

\* env_free: after it nothing refers to the address space, every page it shared keeps the
\* references of the others, and no translation of its asid is left in the TLB.
LEMMA EndSound ==
  ASSUME NEW M \in MemoryType, NEW D, NEW L, Good(M, D, L), NEW a \in Live(D),
         NEW N, N = Freed(M, D[a], a), NEW E, E = Owned(D, a, NoPage)
  PROVE  Sound(M, D, N, E, L, {})
<1>0. PICK m, n : m = M.mem /\ n = N.mem
  OBVIOUS
<1>s. Struct(m, D)
  BY <1>0 DEF Good
<1>1. /\ Struct(m, E) /\ Live(E) = Live(D) \ {a} /\ \A b \in Live(E) : E[b] = D[b]
      /\ \A b \in Live(E), t \in Slot : m[E[b]][t] = m[D[b]][t]
      /\ \A b \in Live(E), vb \in Slot \X Slot : Look(m, E[b], vb) = Look(m, D[b], vb)
  BY <1>s, EndDir DEF Struct
<1>2. Ended(m, m, E, D, a)
  BY <1>1 DEF Ended, Table
<1>3. CanDrop(M, D[a])
  <2> SUFFICES ASSUME NEW p \in Page PROVE Drops(M, D[a], p) \in Nat /\ Drops(M, D[a], p) <= M.ref[p]
    BY DEF CanDrop
  <2>1. PICK x \in Nat, d \in Nat : x = RefsOf(m, E, p) /\ d = Drops(M, D[a], p) /\ RefsOf(m, D, p) = x + d
    BY <1>0, <1>s, <1>2, DropsRefs
  <2>2. IF p \in L THEN RefsOf(m, D, p) = 0 ELSE M.ref[p] = RefsOf(m, D, p)
    BY <1>0, CountFor DEF Good
  <2>3. M.ref[p] \in Nat
    BY RefModAssumption DEF MemoryType
  <2> QED
    BY <2>1, <2>2, <2>3
<1>4. /\ N \in MemoryType /\ N.fault = FALSE
      /\ \A p \in Page : N.ref[p] = M.ref[p] - Drops(M, D[a], p)
      /\ \A p \in Page : p \in N.free <=> p \in M.free \/ (Drops(M, D[a], p) > 0 /\ M.ref[p] = Drops(M, D[a], p))
      /\ \A p \in Page : p # D[a] /\ (\A s \in UserSlot : m[D[a]][s].page # p) => n[p] = m[p]
      /\ N.tlb = FreedTlb(M, D[a], a)
  <2>1. AfterFree(N, M, D[a], a)
    BY <1>3, FreedIs
  <2> QED
    BY <2>1, <1>0 DEF AfterFree
<1>5. n \in MemType /\ \A q \in Page : q # D[a] /\ (\A s \in UserSlot : q # Table(m, D, a, s)) => n[q] = m[q]
  BY <1>0, <1>4 DEF MemoryType, Table
<1>6. /\ Struct(n, E)
      /\ \A b \in Live(E), t \in Slot : n[E[b]][t] = m[D[b]][t]
      /\ \A b \in Live(E), vb \in Slot \X Slot : Look(n, E[b], vb) = Look(m, D[b], vb)
  BY <1>s, <1>5, EndDir
<1>7. Ended(n, m, E, D, a)
  BY <1>1, <1>6, UserVa, Slots DEF Ended, Table
<1>8. Count(N.free, N.ref, n, E, L)
  <2>1. N.free \subseteq Page /\ N.ref \in [Page -> 0 .. RefMod - 1] /\ L \subseteq Page
    BY <1>4 DEF MemoryType, Good, Count
  <2>2. ASSUME NEW q \in Page
        PROVE  IF q \in L THEN RefsOf(n, E, q) = 0 /\ q \notin N.free
               ELSE N.ref[q] = RefsOf(n, E, q) /\ (q \in N.free <=> RefsOf(n, E, q) = 0)
    <3>1. IF q \in L THEN RefsOf(m, D, q) = 0 /\ q \notin M.free
          ELSE M.ref[q] = RefsOf(m, D, q) /\ (q \in M.free <=> RefsOf(m, D, q) = 0)
      BY <1>0, CountFor DEF Good
    <3>2. PICK x \in Nat, d \in Nat : x = RefsOf(n, E, q) /\ d = Drops(M, D[a], q) /\ RefsOf(m, D, q) = x + d
      BY <1>0, <1>s, <1>7, DropsRefs
    <3>3. N.ref[q] = M.ref[q] - d /\ (q \in N.free <=> q \in M.free \/ (d > 0 /\ M.ref[q] = d))
      BY <3>2, <1>4
    <3>4. CASE q \in L
      <4>1. x + d = 0 /\ q \notin M.free
        BY <3>1, <3>2, <3>4
      <4>2. x = 0 /\ d = 0
        BY <4>1
      <4>3. q \notin N.free
        BY <4>1, <4>2, <3>3
      <4> QED
        BY <4>2, <4>3, <3>2, <3>4
    <3>5. CASE q \notin L
      <4>1. M.ref[q] = x + d /\ (q \in M.free <=> x + d = 0)
        BY <3>1, <3>2, <3>5
      <4>2. N.ref[q] = x
        BY <4>1, <3>2, <3>3
      <4>3. q \in N.free <=> x = 0
        <5>1. CASE x = 0
          BY <5>1, <4>1, <3>2, <3>3
        <5>2. CASE x # 0
          BY <5>2, <4>1, <3>2, <3>3
        <5> QED
          BY <5>1, <5>2
      <4> QED
        BY <4>2, <4>3, <3>2, <3>5
    <3> QED
      BY <3>4, <3>5
  <2> QED
    BY <2>1, <2>2 DEF Count
<1>9. Coherent(N.tlb, n, E)
  <2>1. Coherent(M.tlb, m, D) /\ N.tlb \subseteq M.tlb
    BY <1>0, <1>4 DEF Good, FreedTlb
  <2>2. ASSUME NEW t \in N.tlb, NEW i \in 0 .. 1, Valid(t.lo[i])
        PROVE  E[t.asid] # NoPage /\ Look(n, E[t.asid], Where(t, i)) = Look(m, D[t.asid], Where(t, i))
    <3>0. t \in M.tlb
      BY <2>1, <2>2
    <3>1. t.asid \in Live(D) /\ Where(t, i) \in Slot \X Slot
      BY <3>0, <2>1, <2>2, Hits, WhereIs DEF MemoryType
    <3>2. t.asid # a
      BY <3>0, <2>2, <1>4, AllFlushed DEF FreedTlb
    <3>3. t.asid \in Live(E) /\ E[t.asid] # NoPage
      BY <3>1, <3>2, <1>1 DEF Live
    <3> QED
      BY <3>1, <3>3, <1>6
  <2> QED
    BY <2>1, <2>2, CoherentKept
<1>10. Good(N, E, L)
  BY <1>0, <1>4, <1>6, <1>8, <1>9 DEF Good
<1>11. Barred(m, D, n, E, {})
  BY <1>1, <1>6, UserVa, Slots DEF Barred, EntryOf, Live
<1>12. Kept(m, D, n, E, {})
  <2> SUFFICES ASSUME NEW b \in Live(D), NEW vb \in User, Look(m, D[b], vb).page # NoPage
               PROVE  E[b] = NoPage \/ Look(n, E[b], vb).page # NoPage
    BY DEF Kept
  <2>1. CASE b = a
    BY <2>1, <1>s, Types DEF Owned, DirType
  <2>2. CASE b # a
    BY <2>2, <1>1, <1>6, UserVa, Slots
  <2> QED
    BY <2>1, <2>2
<1> QED
  BY <1>0, <1>4, <1>10, <1>11, <1>12 DEF Sound

------------------------------------------------------------------------------
(* The state machine *)

\* pp_ref is a u_short: no page has as many references as it can count.
RefsBounded == \A p \in Page : Refs(p) < RefMod

\* What a step does to the mappings.
Effects(X) == Barred(mem, env_pgdir, mem', env_pgdir', X) /\ Kept(mem, env_pgdir, mem', env_pgdir', X)

\* The state, as the one value the functions of pmap.c work on.
LEMMA MemoryIs ==
  /\ Memory.free = page_free_list /\ Memory.ref = pp_ref /\ Memory.mem = mem
  /\ Memory.tlb = tlb /\ Memory.fault = FALSE
  BY DEF Memory

\* That value has its type.
LEMMA MemoryTyped ==
  ASSUME Inv
  PROVE  /\ Memory \in MemoryType /\ Good(Memory, env_pgdir, lost) /\ LiveAsid = Live(env_pgdir)
         /\ env_pgdir \in DirType
<1>1. Good(Memory, env_pgdir, lost)
  BY DEF Inv
<1>2. /\ page_free_list \in SUBSET Page /\ pp_ref \in [Page -> 0 .. RefMod - 1]
      /\ mem \in MemType /\ tlb \in SUBSET TlbType /\ env_pgdir \in DirType
  BY <1>1, MemoryIs DEF Good, Count, Struct, Coherent
<1>3. Memory \in MemoryType
  BY <1>2 DEF Memory, MemoryType
<1> QED
  BY <1>1, <1>2, <1>3 DEF LiveAsid, Live

\* The references the properties count are those the invariant counts.
LEMMA RefsAre ==
  ASSUME NEW p
  PROVE  /\ Dirs(p) = DirsOf(env_pgdir, p) /\ Tables(p) = TablesOf(mem, env_pgdir, p)
         /\ Maps(p) = MapsOf(mem, env_pgdir, p) /\ Refs(p) = RefsOf(mem, env_pgdir, p)
<1>1. \A dir, va : page_lookup(Memory, dir, va) = Look(mem, dir, va)
  BY LookupIs, MemoryIs
<1>2. LiveAsid = Live(env_pgdir)
  BY DEF LiveAsid, Live
<1>3. Dirs(p) = DirsOf(env_pgdir, p) /\ Tables(p) = TablesOf(mem, env_pgdir, p)
  BY <1>2 DEF Dirs, DirsOf, Tables, TablesOf, Table
<1>4. Maps(p) = MapsOf(mem, env_pgdir, p)
  BY <1>1, <1>2 DEF Maps, MapsOf, User
<1> QED
  BY <1>3, <1>4 DEF Refs, RefsOf

\* The same after a step.
LEMMA RefsAfter ==
  ASSUME RefsBounded', NEW p \in Page
  PROVE  RefsOf(mem', env_pgdir', p) < RefMod
<1>0. Memory'.mem = mem'
  BY DEF Memory
<1>1. \A dir, va : page_lookup(Memory', dir, va) = Look(mem', dir, va)
  BY LookupIs, <1>0
<1>2. LiveAsid' = Live(env_pgdir')
  BY DEF LiveAsid, Live
<1>3. Dirs(p)' = DirsOf(env_pgdir', p) /\ Tables(p)' = TablesOf(mem', env_pgdir', p)
  BY <1>2 DEF Dirs, DirsOf, Tables, TablesOf, Table
<1>4. Maps(p)' = MapsOf(mem', env_pgdir', p)
  BY <1>1, <1>2 DEF Maps, MapsOf, User
<1>5. Refs(p)' = RefsOf(mem', env_pgdir', p)
  BY <1>3, <1>4 DEF Refs, RefsOf
<1> QED
  BY <1>5 DEF RefsBounded

\* A handler that leaves a sound memory.
LEMMA CommitInv ==
  ASSUME Inv, Up, NEW M, NEW D, NEW N, NEW E, NEW K, NEW X, Sound(M, D, N, E, K, X),
         M.mem = mem, D = env_pgdir, E = env_pgdir', K = lost', Commit(N)
  PROVE  Inv' /\ Effects(X)
<1>1. PICK R : R = Memory'
  OBVIOUS
<1>2. Good(N, E, K) /\ Barred(M.mem, D, N.mem, E, X) /\ Kept(M.mem, D, N.mem, E, X) /\ N.fault = FALSE
  BY DEF Sound, Good
<1>3. page_free_list' = N.free /\ pp_ref' = N.ref /\ mem' = N.mem /\ tlb' = N.tlb
  BY DEF Commit
<1>4. R.free = N.free /\ R.ref = N.ref /\ R.mem = N.mem /\ R.tlb = N.tlb /\ R.fault = FALSE
  BY <1>1, <1>3 DEF Memory
<1>5. Good(R, E, K)
  BY <1>2, <1>4 DEF Good
<1>6. panicked' \in {"no", "address refused", "out of memory"}
  BY <1>2 DEF Commit, Up
<1>7. Inv'
  <2>1. Good(Memory', env_pgdir', lost')
    BY <1>1, <1>5
  <2> QED
    BY <2>1, <1>6 DEF Inv
<1> QED
  BY <1>2, <1>3, <1>7 DEF Effects

\* The addresses of the calls are user pages, and the legal ones are not refused.
LEMMA VaUser == Va \subseteq User /\ BadVa \subseteq User /\ IpcDst \subseteq User /\ \A va \in Va : va \notin BadVa
  BY VaAssumption, BadVaAssumption, IpcDstAssumption DEF User

\* env_alloc.
LEMMA EnvAllocStep ==
  ASSUME Inv, NEW a \in Asid, env_alloc(a)
  PROVE  Inv' /\ Effects({})
<1>0. PICK M, D, L : M = Memory /\ D = env_pgdir /\ L = lost
  OBVIOUS
<1>1. M \in MemoryType /\ Good(M, D, L) /\ M.mem = mem /\ M.free = page_free_list
  BY <1>0, MemoryTyped, MemoryIs
<1>2. PICK p \in page_free_list : Commit(env_setup_vm(M, p)) /\ env_pgdir' = [D EXCEPT ![a] = p]
  BY <1>0 DEF env_alloc
<1>3. PICK N, E : N = env_setup_vm(M, p) /\ E = Owned(D, a, p)
  OBVIOUS
<1>4. D[a] = NoPage /\ Up /\ lost' = L /\ E = env_pgdir' /\ Commit(N)
  BY <1>0, <1>2, <1>3 DEF env_alloc, Owned
<1>5. Sound(M, D, N, E, L, {})
  BY <1>1, <1>2, <1>3, <1>4, BeginSound
<1> QED
  BY <1>0, <1>1, <1>4, <1>5, CommitInv

\* env_alloc finds no asid: the directory it has set up is lost, and nobody refers to it.
LEMMA NoAsidStep ==
  ASSUME Inv, env_alloc_no_asid
  PROVE  Inv' /\ Effects({})
<1>0. PICK M, D, L : M = Memory /\ D = env_pgdir /\ L = lost
  OBVIOUS
<1>1. M \in MemoryType /\ Good(M, D, L) /\ M.mem = mem /\ M.free = page_free_list
  BY <1>0, MemoryTyped, MemoryIs
<1>2. PICK p \in page_free_list : Commit(env_setup_vm(M, p)) /\ lost' = L \cup {p}
  BY <1>0 DEF env_alloc_no_asid
<1>3. PICK N, K : N = env_setup_vm(M, p) /\ K = L \cup {p}
  OBVIOUS
<1>4. Up /\ lost' = K /\ D = env_pgdir' /\ Commit(N)
  BY <1>0, <1>2, <1>3 DEF env_alloc_no_asid
<1>5. Sound(M, D, N, D, K, {})
  BY <1>1, <1>2, <1>3, <1>4, ForgottenSound
<1> QED
  BY <1>0, <1>1, <1>4, <1>5, CommitInv

\* env_free is Freed.
LEMMA EnvFreeIs ==
  ASSUME NEW a, env_free(a)
  PROVE  Commit(Freed(Memory, env_pgdir[a], a))
  BY ZenonT(60) DEF env_free, Freed, FreedTlb, Drops, MapsHere, TablesHere, MappedIn, TablesIn, Memory

\* env_destroy keeps the invariant, and no other env loses a mapping.
LEMMA DestroyStep ==
  ASSUME Inv, NEW a \in Asid, env_destroy(a)
  PROVE  Inv' /\ Effects({})
<1>0. PICK M, D, L : M = Memory /\ D = env_pgdir /\ L = lost
  OBVIOUS
<1>1. M \in MemoryType /\ Good(M, D, L) /\ M.mem = mem
  BY <1>0, MemoryTyped, MemoryIs
<1>2. Up /\ a \in Live(D) /\ lost' = L /\ env_pgdir' = [D EXCEPT ![a] = NoPage] /\ env_free(a)
  BY <1>0 DEF env_destroy, Live
<1>3. PICK N, E : N = Freed(M, D[a], a) /\ E = Owned(D, a, NoPage)
  OBVIOUS
<1>4. Commit(N)
  BY <1>0, <1>2, <1>3, EnvFreeIs
<1>5. E = env_pgdir'
  BY <1>2, <1>3 DEF Owned
<1>6. Sound(M, D, N, E, L, {})
  BY <1>1, <1>2, <1>3, EndSound
<1> QED
  BY <1>0, <1>1, <1>2, <1>4, <1>5, <1>6, CommitInv

\* sys_mem_alloc keeps the invariant.
LEMMA AllocStep ==
  ASSUME Inv, NEW a \in LiveAsid, NEW va \in Va, NEW d \in BOOLEAN, sys_mem_alloc(a, va, d)
  PROVE  Inv' /\ Effects({})
<1>0. PICK M, D, L : M = Memory /\ D = env_pgdir /\ L = lost
  OBVIOUS
<1>1. M \in MemoryType /\ Good(M, D, L) /\ M.mem = mem /\ M.free = page_free_list /\ a \in Live(D)
  BY <1>0, MemoryTyped, MemoryIs
<1>p. PICK p \in page_free_list : \E pt \in page_alloc_choices(page_free_list \ {p}) :
        /\ Commit(page_insert(page_alloc(M, p), D[a], a, p, va, d, pt))
        /\ lost' = IF page_insert_fails(page_alloc(M, p), D[a], va, pt) THEN L \cup {p} ELSE L
  BY <1>0 DEF sys_mem_alloc
<1>2. PICK pt \in page_alloc_choices(page_free_list \ {p}) :
        /\ Commit(page_insert(page_alloc(M, p), D[a], a, p, va, d, pt))
        /\ lost' = IF page_insert_fails(page_alloc(M, p), D[a], va, pt) THEN L \cup {p} ELSE L
  BY <1>p
<1>3. PICK A : A = page_alloc(M, p)
  OBVIOUS
<1>4. PICK N, K : /\ N = page_insert(A, D[a], a, p, va, d, pt)
                  /\ K = IF page_insert_fails(A, D[a], va, pt) THEN L \cup {p} ELSE L
  OBVIOUS
<1>5. Up /\ env_pgdir' = D /\ lost' = K /\ Commit(N)
  BY <1>0, <1>2, <1>3, <1>4 DEF sys_mem_alloc
<1>6. va \in User /\ va \notin BadVa /\ p \in M.free /\ pt \in page_alloc_choices(M.free \ {p})
  BY <1>1, <1>2, VaUser
<1>7. Sound(M, D, N, D, K, {})
  BY <1>1, <1>3, <1>4, <1>6, AllocSound
<1> QED
  BY <1>0, <1>1, <1>5, <1>7, CommitInv

\* sys_mem_map and the page part of sys_ipc_try_send keep the invariant as long as the counter
\* of the page does not overflow.
LEMMA MapStep ==
  ASSUME Inv, RefsBounded', NEW a \in LiveAsid, NEW b \in LiveAsid, NEW sa \in Va, NEW va \in Va \cup IpcDst,
         NEW d \in BOOLEAN, sys_mem_map(a, sa, b, va, d), NEW X, va \notin BadVa \/ <<b, va>> \in X
  PROVE  Inv' /\ Effects(X)
<1>0. PICK M, D, L : M = Memory /\ D = env_pgdir /\ L = lost
  OBVIOUS
<1>1. M \in MemoryType /\ Good(M, D, L) /\ M.mem = mem /\ M.free = page_free_list /\ a \in Live(D) /\ b \in Live(D)
  BY <1>0, MemoryTyped, MemoryIs
<1>2. PICK p : p = page_lookup(M, D[a], sa).page
  OBVIOUS
<1>3. p = Look(M.mem, D[a], sa).page /\ p # NoPage
  BY <1>0, <1>2, LookupIs DEF sys_mem_map, Valid
<1>4. PICK pt \in page_alloc_choices(page_free_list) : Commit(page_insert(M, D[b], b, p, va, d, pt))
  BY <1>0, <1>2 DEF sys_mem_map
<1>5. PICK N : N = page_insert(M, D[b], b, p, va, d, pt)
  OBVIOUS
<1>6. Up /\ env_pgdir' = D /\ lost' = L /\ Commit(N) /\ mem' = N.mem
  BY <1>0, <1>4, <1>5 DEF sys_mem_map, Commit
<1>7. sa \in User /\ va \in User /\ pt \in page_alloc_choices(M.free)
  BY <1>1, <1>4, VaUser
<1>8. p \in Page
  BY <1>1, <1>3, <1>7, MappedPage
<1>9. RefsOf(N.mem, D, p) < RefMod
  BY <1>6, <1>8, RefsAfter
<1>10. Sound(M, D, N, D, L, X)
  BY <1>1, <1>3, <1>5, <1>7, <1>9, MapSound
<1> QED
  BY <1>0, <1>1, <1>6, <1>10, CommitInv

\* sys_mem_unmap keeps the invariant and takes away one mapping.
LEMMA UnmapStep ==
  ASSUME Inv, NEW a \in LiveAsid, NEW va \in Va, sys_mem_unmap(a, va)
  PROVE  Inv' /\ Effects({<<a, va>>})
<1>0. PICK M, D, L : M = Memory /\ D = env_pgdir /\ L = lost
  OBVIOUS
<1>1. M \in MemoryType /\ Good(M, D, L) /\ M.mem = mem /\ a \in Live(D) /\ va \in User
  BY <1>0, MemoryTyped, MemoryIs, VaUser
<1>2. PICK N, X : N = page_remove(M, D[a], a, va) /\ X = {<<a, va>>}
  OBVIOUS
<1>3. Up /\ env_pgdir' = D /\ lost' = L /\ Commit(N)
  BY <1>0, <1>2 DEF sys_mem_unmap
<1>4. Sound(M, D, N, D, L, X)
  BY <1>1, <1>2, UnmapSound
<1>5. Inv' /\ Effects(X)
  BY <1>0, <1>1, <1>3, <1>4, CommitInv
<1> QED
  BY <1>2, <1>5

\* tlbwr adds the pair around va and drops at most one other entry.
LEMMA TlbwrIs ==
  ASSUME NEW M, NEW a, NEW va, tlbwr(M, a, va)
  PROVE  \E V : Commit(Filled(M, V, Pair(M, env_pgdir[a], a, va)))
  BY DEF tlbwr, Filled, Pair

\* user code touches its own pages and its tables in the self-map.
LEMMA TouchedIs ==
  ASSUME NEW va \in Touched
  PROVE  va \in Slot \X Slot /\ (va \in User \/ \E s \in Slot : va = <<VPT, s>>)
<1>1. CASE va \in Va \cup BadVa
  BY <1>1, VaUser, UserVa, Slots DEF User
<1>2. CASE va \in {VPT} \X ({PDX(x) : x \in Va} \cup {VPT})
  <2>1. PICK s \in {PDX(x) : x \in Va} \cup {VPT} : va = <<VPT, s>>
    BY <1>2
  <2>2. s \in Slot
    BY <2>1, VaUser, UserVa, Slots DEF PDX
  <2> QED
    BY <2>1, <2>2, Slots
<1> QED
  BY <1>1, <1>2 DEF Touched

\* The memory A, and its TLB then filled.
LEMMA FillSound ==
  ASSUME NEW M, NEW D, NEW L, NEW A, Sound(M, D, A, D, L, {}), NEW a \in Live(D), NEW va \in Slot \X Slot,
         Look(A.mem, D[a], va).page # NoPage, Absent(A.tlb, a, va),
         NEW V, NEW N, N = Filled(A, V, Pair(A, D[a], a, va))
  PROVE  Sound(M, D, N, D, L, {})
<1>1. A \in MemoryType /\ Good(A, D, L)
  BY DEF Sound
<1>2. N \in MemoryType /\ Good(N, D, L) /\ N.mem = A.mem
  BY <1>1, FillGood
<1> QED
  BY <1>2 DEF Sound

\* do_tlb_refill keeps the invariant, with the page passive_alloc maps and without.
LEMMA RefillStep ==
  ASSUME Inv, NEW a \in LiveAsid, NEW va \in Touched, do_tlb_refill(a, va)
  PROVE  Inv' /\ Effects({})
<1>0. PICK B, M, D, L : B = Memory /\ D = env_pgdir /\ L = lost /\ M = tlb_invalidate(B, a, va)
  OBVIOUS
<1>1. /\ B \in MemoryType /\ Good(B, D, L) /\ B.mem = mem /\ B.free = page_free_list
      /\ a \in Live(D)
  BY <1>0, MemoryTyped, MemoryIs
<1>2. /\ M \in MemoryType /\ Good(M, D, L) /\ M.mem = B.mem /\ M.free = B.free
      /\ Absent(M.tlb, a, va)
  BY <1>0, <1>1, InvalidateFields, FlushGood, FlushAbsent
<1>3. Up /\ env_pgdir' = D /\ lost' = L /\ va \in Slot \X Slot
  BY <1>0, TouchedIs DEF do_tlb_refill
<1>4. page_lookup(M, D[a], va) = Look(M.mem, D[a], va)
  BY LookupIs
<1>5. ASSUME NEW A, Sound(B, D, A, D, L, {}), Look(A.mem, D[a], va).page # NoPage, Absent(A.tlb, a, va),
             tlbwr(A, a, va)
      PROVE  Inv' /\ Effects({})
  <2>1. PICK V : Commit(Filled(A, V, Pair(A, D[a], a, va)))
    BY <1>0, <1>5, TlbwrIs
  <2>2. PICK N : N = Filled(A, V, Pair(A, D[a], a, va))
    OBVIOUS
  <2>3. Sound(B, D, N, D, L, {})
    BY <2>2, <1>1, <1>3, <1>5, FillSound
  <2> QED
    BY <2>1, <2>2, <2>3, <1>0, <1>1, <1>3, CommitInv
<1>6. CASE Look(M.mem, D[a], va).page # NoPage
  <2>1. tlbwr(M, a, va)
    BY <1>0, <1>4, <1>6 DEF do_tlb_refill, Valid
  <2>2. Sound(B, D, M, D, L, {})
    BY <1>2, SameSound
  <2> QED
    BY <2>1, <2>2, <1>2, <1>5, <1>6
<1>7. CASE Look(M.mem, D[a], va).page = NoPage
  <2>1. /\ ~passive_alloc_refuses(va)
        /\ \E p \in page_free_list : \E pt \in page_alloc_choices(page_free_list \ {p}) :
             /\ ~page_insert_fails(M, D[a], va, pt)
             /\ tlbwr(page_insert(page_alloc(M, p), D[a], a, p, va, PDX(va) # VPT, pt), a, va)
    BY <1>0, <1>4, <1>7 DEF do_tlb_refill, Valid
  <2>2. PICK p \in page_free_list : \E pt \in page_alloc_choices(page_free_list \ {p}) :
             /\ ~page_insert_fails(M, D[a], va, pt)
             /\ tlbwr(page_insert(page_alloc(M, p), D[a], a, p, va, PDX(va) # VPT, pt), a, va)
    BY <2>1
  <2>3. PICK pt \in page_alloc_choices(page_free_list \ {p}) :
             /\ ~page_insert_fails(M, D[a], va, pt)
             /\ tlbwr(page_insert(page_alloc(M, p), D[a], a, p, va, PDX(va) # VPT, pt), a, va)
    BY <2>2
  <2>4. PICK perm \in BOOLEAN : perm = (PDX(va) # VPT)
    OBVIOUS
  <2>a. PICK A : A = page_alloc(M, p)
    OBVIOUS
  <2>5. PICK N : N = page_insert(A, D[a], a, p, va, perm, pt)
    OBVIOUS
  <2>6. tlbwr(N, a, va) /\ p \in M.free /\ pt \in page_alloc_choices(M.free \ {p})
    BY <2>3, <2>4, <2>a, <2>5, <1>1, <1>2
  <2>7. Sound(M, D, N, D, L, {}) /\ Absent(N.tlb, a, va) /\ Look(N.mem, D[a], va).page # NoPage
    <3>1. CASE va \in User
      <4>1. va \notin BadVa
        BY <2>1 DEF passive_alloc_refuses
      <4>2. a \in Live(D) /\ M \in MemoryType /\ Good(M, D, L)
        BY <1>1, <1>2
      <4>3. A = page_alloc(M, p) /\ ~page_insert_fails(M, D[a], va, pt) /\ perm \in BOOLEAN
        BY <2>3, <2>4, <2>a
      <4> QED
        BY <4>1, <4>2, <4>3, <3>1, <2>5, <2>6, PassiveUser
    <3>2. CASE \E s \in Slot : va = <<VPT, s>>
      <4>1. PICK s \in Slot : va = <<VPT, s>>
        BY <3>2
      <4>2. perm = FALSE
        BY <4>1, <2>4 DEF PDX
      <4>3. N = page_insert_table(A, D[a], a, p, va, pt)
        BY <4>2, <2>5 DEF page_insert_table
      <4> QED
        BY <4>1, <4>3, <2>a, <2>6, <1>1, <1>2, <1>7, PassiveTable
    <3> QED
      BY <3>1, <3>2, TouchedIs
  <2>8. Sound(B, D, N, D, L, {})
    BY <2>7, <1>2 DEF Sound
  <2> QED
    BY <2>6, <2>7, <2>8, <1>5
<1> QED
  BY <1>6, <1>7

\* Nothing of the memory changes.
LEMMA SameStep ==
  ASSUME Inv, UNCHANGED <<page_free_list, pp_ref, mem, env_pgdir, tlb, lost>>,
         panicked' \in {"no", "address refused", "out of memory"}
  PROVE  Inv' /\ Effects({})
<1>1. Memory' = Memory
  BY DEF Memory
<1>2. Inv'
  <2>1. Good(Memory', env_pgdir', lost')
    BY <1>1 DEF Inv
  <2> QED
    BY <2>1 DEF Inv
<1>3. PICK m, D : m = mem /\ D = env_pgdir /\ m = mem' /\ D = env_pgdir'
  OBVIOUS
<1>4. Barred(m, D, m, D, {}) /\ Kept(m, D, m, D, {})
  BY DEF Barred, Kept
<1> QED
  BY <1>2, <1>3, <1>4 DEF Effects

\* A panic of passive_alloc leaves memory alone.
LEMMA PanicStep ==
  ASSUME Inv, NEW a, NEW va, passive_alloc_panics(a, va)
  PROVE  Inv' /\ Effects({})
<1>1. UNCHANGED <<page_free_list, pp_ref, mem, env_pgdir, tlb, lost>>
      /\ panicked' \in {"no", "address refused", "out of memory"}
  BY DEF passive_alloc_panics
<1> QED
  BY <1>1, SameStep

\* A store of user code changes a user page: the TLB does not let it reach a table.
LEMMA UserStoreStep ==
  ASSUME Inv, NEW a \in LiveAsid, NEW va \in Touched, user_store(a, va)
  PROVE  Inv' /\ Effects({})
<1>0. PICK M, D, L : M = Memory /\ D = env_pgdir /\ L = lost
  OBVIOUS
<1>1. /\ M \in MemoryType /\ Good(M, D, L) /\ M.mem = mem /\ M.tlb = tlb /\ M.free = page_free_list
      /\ M.ref = pp_ref /\ M.fault = FALSE
  BY <1>0, MemoryTyped, MemoryIs
<1>2. PICK w \in tlb_hit(a, va) : Valid(w) /\ w.d /\ mem' = [mem EXCEPT ![w.page] = [s \in Slot |-> UserData]]
  BY DEF user_store
<1>3. PICK t \in M.tlb, i \in 0 .. 1 : w = t.lo[i]
  <2>1. PICK t \in tlb : w = t.lo[PTX(va) % 2]
    BY DEF tlb_hit
  <2>2. PTX(va) % 2 \in 0 .. 1
    <3>1. PICK y \in Int : y = PTX(va)
      BY TouchedIs, Slots DEF PTX
    <3> QED
      BY <3>1
  <2> QED
    BY <2>1, <2>2, <1>1
<1>4. PICK p \in Page : p = w.page /\ ~Kernel(M.mem, D, p)
  BY <1>1, <1>2, <1>3, HitUser
<1>5. PICK row \in [Slot -> Word] : row = [s \in Slot |-> UserData]
  BY Words
<1>6. PICK N, n : n = [M.mem EXCEPT ![p] = row] /\ N = [M EXCEPT !.mem = n]
  OBVIOUS
<1>7. Sound(M, D, N, D, L, {})
  BY <1>1, <1>4, <1>5, <1>6, StoreSound
<1>8. N.free = M.free /\ N.ref = M.ref /\ N.mem = n /\ N.tlb = M.tlb /\ N.fault = FALSE
  BY <1>1, <1>6 DEF MemoryType
<1>9. mem' = n
  BY <1>1, <1>2, <1>4, <1>5, <1>6
<1>10. Up /\ env_pgdir' = D /\ lost' = L /\ UNCHANGED <<page_free_list, pp_ref, tlb, panicked>>
  BY <1>0 DEF user_store
<1>11. Commit(N)
  BY <1>1, <1>8, <1>9, <1>10 DEF Commit
<1> QED
  BY <1>0, <1>1, <1>7, <1>10, <1>11, CommitInv

\* page_init: every page is free and nothing refers to it.
LEMMA InitInv ==
  ASSUME Init
  PROVE  Inv
<1>0. PICK M, m, D : M = Memory /\ m = mem /\ D = env_pgdir
  OBVIOUS
<1>1. Live(D) = {} /\ D \in DirType /\ m \in MemType
  BY <1>0, Words DEF Init, Live, DirType, MemType
<1>2. Struct(m, D)
  BY <1>1 DEF Struct, Roles, Contents
<1>3. \A p \in Page : RefsOf(m, D, p) = 0
  <2> TAKE p \in Page
  <2>1. DirsOf(D, p) = {} /\ TablesOf(m, D, p) = {} /\ MapsOf(m, D, p) = {}
    BY <1>1 DEF DirsOf, TablesOf, MapsOf
  <2> QED
    BY <2>1, FiniteRefs
<1>4. page_free_list = Page /\ pp_ref \in [Page -> 0 .. RefMod - 1] /\ (\A p \in Page : pp_ref[p] = 0) /\ lost = {}
  BY RefModAssumption DEF Init
<1>5. Count(page_free_list, pp_ref, m, D, lost)
  BY <1>3, <1>4 DEF Count
<1>6. Coherent(tlb, m, D)
  BY DEF Init, Coherent
<1>7. Good(M, D, lost)
  BY <1>0, <1>2, <1>5, <1>6, MemoryIs DEF Good
<1> QED
  BY <1>0, <1>7 DEF Inv, Init

\* The calls that end in page_insert keep the invariant; they touch invalid memory only
\* where the receiver of a message asks for it.
LEMMA InsertsStep ==
  ASSUME Inv, RefsBounded', Inserts
  PROVE  /\ Inv'
         /\ \/ Effects({})
            \/ \E a, b \in LiveAsid, s \in Va, t \in BadVa, d \in BOOLEAN :
                 sys_ipc_try_send(a, s, b, t, d) /\ Effects({<<b, t>>})
<1>1. CASE \E a \in LiveAsid, va \in Va, d \in BOOLEAN : sys_mem_alloc(a, va, d)
  BY <1>1, AllocStep
<1>0. ASSUME NEW a \in LiveAsid, NEW b \in LiveAsid, NEW s \in Va, NEW t \in Va \cup IpcDst,
             NEW d \in BOOLEAN, sys_mem_map(a, s, b, t, d), t \notin BadVa
      PROVE  Inv' /\ Effects({})
  <2>1. PICK X : X = {}
    OBVIOUS
  <2>2. Inv' /\ Effects(X)
    BY <1>0, MapStep
  <2> QED
    BY <2>1, <2>2
<1>2. CASE \E a, b \in LiveAsid, s, t \in Va, d \in BOOLEAN : sys_mem_map(a, s, b, t, d)
  BY <1>0, <1>2, VaUser
<1>3. CASE \E a, b \in LiveAsid, s \in Va, t \in IpcDst, d \in BOOLEAN : sys_ipc_try_send(a, s, b, t, d)
  <2>1. PICK a \in LiveAsid, b \in LiveAsid, s \in Va, t \in IpcDst, d \in BOOLEAN :
               sys_ipc_try_send(a, s, b, t, d)
    BY <1>3
  <2>2. sys_mem_map(a, s, b, t, d) /\ t \in Va \cup IpcDst
    BY <2>1 DEF sys_ipc_try_send
  <2>3. CASE t \in BadVa
    <3>1. <<b, t>> \in {<<b, t>>}
      OBVIOUS
    <3>2. Inv' /\ Effects({<<b, t>>})
      BY <2>2, <3>1, MapStep
    <3> QED
      BY <2>1, <2>3, <3>2
  <2>4. CASE t \notin BadVa
    BY <2>2, <2>4, <1>0
  <2> QED
    BY <2>3, <2>4
<1> QED
  BY <1>1, <1>2, <1>3 DEF Inserts

\* Every step keeps the invariant; only sys_mem_unmap takes a mapping away.
LEMMA StepInv ==
  ASSUME Inv, RefsBounded', [Next]_vars
  PROVE  /\ Inv'
         /\ \/ Effects({})
            \/ \E a \in LiveAsid, va \in Va : sys_mem_unmap(a, va) /\ Effects({<<a, va>>})
            \/ \E a, b \in LiveAsid, s \in Va, t \in BadVa, d \in BOOLEAN :
                 sys_ipc_try_send(a, s, b, t, d) /\ Effects({<<b, t>>})
<1>1. CASE \E a \in Asid : env_alloc(a)
  BY <1>1, EnvAllocStep
<1>2. CASE env_alloc_no_asid
  BY <1>2, NoAsidStep
<1>3. CASE \E a \in Asid : env_destroy(a)
  BY <1>3, DestroyStep
<1>4. CASE Inserts
  BY <1>4, InsertsStep
<1>5. CASE \E a \in LiveAsid, va \in Va : sys_mem_unmap(a, va)
  BY <1>5, UnmapStep
<1>6. CASE \E a \in LiveAsid, va \in Touched : do_tlb_refill(a, va)
  BY <1>6, RefillStep
<1>7. CASE \E a \in LiveAsid, va \in Touched : passive_alloc_panics(a, va)
  BY <1>7, PanicStep
<1>8. CASE \E a \in LiveAsid, va \in Touched : user_store(a, va)
  BY <1>8, UserStoreStep
<1>9. CASE UNCHANGED vars
  <2>1. UNCHANGED <<page_free_list, pp_ref, mem, env_pgdir, tlb, lost>>
        /\ panicked' \in {"no", "address refused", "out of memory"}
    BY <1>9 DEF vars, Inv
  <2> QED
    BY <2>1, SameStep
<1>10. CASE Next
  BY <1>1, <1>2, <1>3, <1>4, <1>5, <1>6, <1>7, <1>8, <1>10 DEF Next
<1> QED
  BY <1>9, <1>10

\* The invariant of physical memory, for every number of pages, slots and asids.
LEMMA Always == Spec /\ []RefsBounded => []Inv
<1>1. Init => Inv
  BY InitInv
<1>2. Inv /\ RefsBounded' /\ [Next]_vars => Inv'
  BY StepInv
<1> QED
  BY <1>1, <1>2, PTL DEF Spec

\* The invariant gives every variable its type.
LEMMA InvType ==
  ASSUME Inv
  PROVE  TypeOK
<1>1. Good(Memory, env_pgdir, lost)
  BY DEF Inv
<1>2. Struct(mem, env_pgdir) /\ Count(page_free_list, pp_ref, mem, env_pgdir, lost) /\ Coherent(tlb, mem, env_pgdir)
  BY <1>1, MemoryIs DEF Good
<1>3. mem \in [Page -> [Slot -> Word]] /\ env_pgdir \in [Asid -> Page \cup {NoPage}]
  BY <1>2 DEF Struct, MemType, DirType
<1>4. page_free_list \in SUBSET Page /\ pp_ref \in [Page -> 0 .. RefMod - 1] /\ lost \in SUBSET Page
  BY <1>2 DEF Count
<1>5. tlb \subseteq [asid : Asid, vpn2 : Slot \X (0 .. NSlot \div 2 - 1), lo : [0 .. 1 -> Word]]
  BY <1>2 DEF Coherent, TlbType
<1>6. panicked \in {"no", "address refused", "out of memory", "assertion failed"}
  BY DEF Inv
<1> QED
  BY <1>3, <1>4, <1>5, <1>6 DEF TypeOK

\* The counts of the invariant are pp_ref and the free list.
LEMMA InvRefCount ==
  ASSUME Inv
  PROVE  RefCountInv
<1>1. Count(page_free_list, pp_ref, mem, env_pgdir, lost)
  BY MemoryIs DEF Inv, Good
<1>2. ASSUME NEW p \in Page
      PROVE  IF p \in lost THEN Refs(p) = 0 /\ p \notin page_free_list
             ELSE pp_ref[p] = Refs(p) /\ (p \in page_free_list <=> Refs(p) = 0)
  <2>1. Refs(p) = RefsOf(mem, env_pgdir, p)
    BY RefsAre
  <2> QED
    BY <2>1, <1>1, CountFor
<1>3. panicked # "assertion failed"
  BY DEF Inv
<1> QED
  BY <1>2, <1>3 DEF RefCountInv

\* The roles of pages in the invariant keep tables apart from user pages.
LEMMA InvTables ==
  ASSUME Inv
  PROVE  TablesIntact
<1>0. PICK M, m, D, L : M = Memory /\ m = mem /\ D = env_pgdir /\ L = lost
  OBVIOUS
<1>1. M \in MemoryType /\ Good(M, D, L) /\ M.mem = m /\ M.tlb = tlb /\ Struct(m, D) /\ LiveAsid = Live(D)
  BY <1>0, MemoryTyped, MemoryIs DEF Good
<1>2. ASSUME NEW p \in Page
      PROVE  /\ Cardinality(Dirs(p)) + Cardinality(Tables(p)) <= 1
             /\ Dirs(p) \cup Tables(p) # {} => Maps(p) = {}
  <2>0. p # NoPage
    BY NoPageAssumption
  <2>1. Dirs(p) = DirsOf(D, p) /\ Tables(p) = TablesOf(m, D, p) /\ Maps(p) = MapsOf(m, D, p)
    BY <1>0, RefsAre
  <2>2. Roles(m, D)
    BY <1>1 DEF Struct
  <2>3. DirsOf(D, p) = {} \/ \E a : DirsOf(D, p) = {a}
    BY <2>2 DEF DirsOf, Roles
  <2>4. TablesOf(m, D, p) = {} \/ \E x : TablesOf(m, D, p) = {x}
    <3> SUFFICES ASSUME NEW x \in TablesOf(m, D, p), NEW y \in TablesOf(m, D, p) PROVE x = y
      OBVIOUS
    <3>1. PICK a \in Live(D), s \in UserSlot : x = <<a, s>> /\ Table(m, D, a, s) = p
      BY DEF TablesOf
    <3>2. PICK b \in Live(D), t \in UserSlot : y = <<b, t>> /\ Table(m, D, b, t) = p
      BY DEF TablesOf
    <3>3. a = b /\ s = t
      BY <3>1, <3>2, <2>0, <2>2 DEF Roles
    <3> QED
      BY <3>1, <3>2, <3>3
  <2>5. DirsOf(D, p) = {} \/ TablesOf(m, D, p) = {}
    BY <2>2 DEF DirsOf, TablesOf, Roles
  <2>6. DirsOf(D, p) \cup TablesOf(m, D, p) # {} => MapsOf(m, D, p) = {}
    <3> SUFFICES ASSUME DirsOf(D, p) \cup TablesOf(m, D, p) # {}, NEW x \in MapsOf(m, D, p) PROVE FALSE
      OBVIOUS
    <3>1. Kernel(m, D, p)
      BY DEF DirsOf, TablesOf, Kernel
    <3>2. PICK a \in Live(D), va \in User : Look(m, D[a], va).page = p
      BY DEF MapsOf
    <3> QED
      BY <3>1, <3>2, <2>0, <2>2 DEF Roles
  <2>7. Cardinality({}) = 0 /\ \A x : Cardinality({x}) = 1
    BY FS_EmptySet, FS_Singleton
  <2>8. Cardinality(DirsOf(D, p)) + Cardinality(TablesOf(m, D, p)) <= 1
    <3>3. Cardinality(TablesOf(m, D, p)) = 0 \/ Cardinality(TablesOf(m, D, p)) = 1
      <4>1. CASE TablesOf(m, D, p) = {}
        BY <4>1, <2>7
      <4>2. CASE \E x : TablesOf(m, D, p) = {x}
        BY <4>2, <2>7
      <4> QED
        BY <4>1, <4>2, <2>4
    <3>1. CASE DirsOf(D, p) = {}
      <4>1. Cardinality(DirsOf(D, p)) = 0
        BY <3>1, <2>7
      <4> QED
        BY <4>1, <3>3
    <3>2. CASE TablesOf(m, D, p) = {}
      BY <3>2, <2>3, <2>7
    <3> QED
      BY <3>1, <3>2, <2>5
  <2> QED
    BY <2>1, <2>6, <2>8
<1>3. ASSUME NEW a \in Live(D), NEW p, p = D[a] \/ \E s \in UserSlot : p = m[D[a]][s].page, p # NoPage
      PROVE  /\ \A s \in Slot : m[p][s] # UserData
             /\ \A t \in tlb, i \in 0 .. 1 : t.lo[i].page = p => ~t.lo[i].d
  <2>1. Kernel(m, D, p)
    BY <1>3 DEF Kernel, Table
  <2>2. \A s \in Slot : m[p][s] # UserData
    <3>1. CASE p = D[a]
      <4>1. \A s \in Slot : m[D[a]][s].d = FALSE
        BY <1>1, Slots DEF Struct, Contents
      <4> QED
        BY <3>1, <4>1, Words
    <3>2. CASE \E s \in UserSlot : p = m[D[a]][s].page
      <4>1. PICK u \in UserSlot : p = Table(m, D, a, u)
        BY <3>2 DEF Table
      <4> QED
        BY <4>1, <1>1, <1>3 DEF Struct, Contents
    <3> QED
      BY <3>1, <3>2, <1>3
  <2>3. ASSUME NEW t \in tlb, NEW i \in 0 .. 1, t.lo[i].page = p, t.lo[i].d
        PROVE  FALSE
    <3>1. Valid(t.lo[i]) /\ t \in M.tlb
      BY <2>3, <1>1, <1>3 DEF Valid
    <3>2. ~Kernel(M.mem, D, t.lo[i].page)
      BY <3>1, <2>3, <1>1, HitUser
    <3> QED
      BY <3>2, <2>1, <2>3, <1>1
  <2> QED
    BY <2>2, <2>3
<1>4. ASSUME NEW a \in LiveAsid, NEW p \in {env_pgdir[a]} \cup ({mem[env_pgdir[a]][s].page : s \in UserSlot} \ {NoPage})
      PROVE  /\ \A s \in Slot : mem[p][s] # UserData
             /\ \A t \in tlb, i \in 0 .. 1 : t.lo[i].page = p => ~t.lo[i].d
  <2>1. a \in Live(D) /\ (p = D[a] \/ \E s \in UserSlot : p = m[D[a]][s].page) /\ p # NoPage
    BY <1>0, <1>1 DEF Live
  <2> QED
    BY <2>1, <1>0, <1>3
<1> QED
  BY <1>2, <1>4 DEF TablesIntact

\* The TLB of the invariant is coherent in the sense of the property.
LEMMA InvTlb ==
  ASSUME Inv
  PROVE  TlbCoherent
<1>1. Coherent(tlb, mem, env_pgdir)
  BY MemoryIs DEF Inv, Good
<1>2. \A dir, va : page_lookup(Memory, dir, va) = Look(mem, dir, va)
  BY LookupIs, MemoryIs
<1> QED
  BY <1>1, <1>2 DEF Coherent, TlbCoherent, Where

\* kern/pmap.c: pp_ref, the free list, the page tables and the TLB keep their types.
THEOREM TypeCorrect == Spec /\ []RefsBounded => []TypeOK
<1>1. Inv => TypeOK
  BY InvType
<1> QED
  BY <1>1, Always, PTL

\* pp_ref is exact, a page is free if and only if nothing refers to it, and the assertions of
\* page_decref and page_free hold: after every sequence of calls, misses, stores and
\* ends of envs, with any number of pages, slots and address spaces.
THEOREM RefCountExact == Spec /\ []RefsBounded => []RefCountInv
<1>1. Inv => RefCountInv
  BY InvRefCount
<1> QED
  BY <1>1, Always, PTL

\* No page is used in two ways, and user code never gets a writable translation of a directory
\* or a table, although both are visible to it in the self-map (UVPT).
THEOREM TablesNeverWritten == Spec /\ []RefsBounded => []TablesIntact
<1>1. Inv => TablesIntact
  BY InvTables
<1> QED
  BY <1>1, Always, PTL

\* The TLB never holds a translation the page tables of the asid's owner no longer have, whatever
\* was unmapped, remapped, freed or reused in between, and never two entries for one pair.
THEOREM TlbNeverStale == Spec /\ []RefsBounded => []TlbCoherent
<1>1. Inv => TlbCoherent
  BY InvTlb
<1> QED
  BY <1>1, Always, PTL

\* The mappings as the properties name them, before and after a step.
LEMMA LooksAre ==
  /\ LiveAsid = Live(env_pgdir) /\ LiveAsid' = Live(env_pgdir')
  /\ \A dir, va : page_lookup(Memory, dir, va) = Look(mem, dir, va)
  /\ \A dir, va : page_lookup(Memory', dir, va) = Look(mem', dir, va)
<1>0. Memory'.mem = mem'
  BY DEF Memory
<1>1. \A dir, va : page_lookup(Memory', dir, va) = Look(mem', dir, va)
  BY LookupIs, <1>0
<1>2. \A dir, va : page_lookup(Memory, dir, va) = Look(mem, dir, va)
  BY LookupIs, MemoryIs
<1>3. LiveAsid' = Live(env_pgdir') /\ LiveAsid = Live(env_pgdir)
  BY DEF LiveAsid, Live
<1> QED
  BY <1>1, <1>2, <1>3

\* A step changes an entry for invalid memory only by a message with a page.
LEMMA BarredStep ==
  ASSUME Inv, RefsBounded', [Next]_vars, NEW a \in Asid, NEW va \in BadVa,
         env_pgdir'[a] # NoPage, Entry(a, va)' # Entry(a, va)
  PROVE  \E b \in LiveAsid, s \in Va, d \in BOOLEAN : sys_ipc_try_send(b, s, a, va, d)
<1>1. a \in Live(env_pgdir') /\ va \in User
  BY VaUser DEF Live
<1>2. EntryOf(mem', env_pgdir', a, va) # EntryOf(mem, env_pgdir, a, va)
  <2>1. Entry(a, va) = EntryOf(mem, env_pgdir, a, va)
    BY LooksAre DEF Entry, EntryOf
  <2>2. Entry(a, va)' = EntryOf(mem', env_pgdir', a, va)
    BY LooksAre DEF Entry, EntryOf
  <2> QED
    BY <2>1, <2>2
<1>3. ASSUME NEW X, Effects(X)
      PROVE  <<a, va>> \in X
  BY <1>1, <1>2, <1>3 DEF Effects, Barred
<1>4. ~Effects({})
  BY <1>3
<1>5. ASSUME NEW b \in LiveAsid, NEW vb \in Va, Effects({<<b, vb>>})
      PROVE  FALSE
  <2>1. <<a, va>> = <<b, vb>>
    BY <1>3, <1>5
  <2> QED
    BY <2>1, VaUser
<1>6. PICK b \in LiveAsid, c \in LiveAsid, s \in Va, t \in BadVa, d \in BOOLEAN :
             sys_ipc_try_send(b, s, c, t, d) /\ Effects({<<c, t>>})
  BY <1>4, <1>5, StepInv
<1>7. <<a, va>> = <<c, t>>
  BY <1>3, <1>6
<1>8. a = c /\ va = t
  BY <1>7
<1> QED
  BY <1>6, <1>8

\* include/mmu.h:118, "invalid memory": whatever addresses receivers give, 0 included, what
\* a live env has there is what messages put there.  No TLB miss and no page system
\* call maps, replaces or removes a page below UTEMP or in the stack guard, and an env
\* begins with nothing there although its asid and its directory were used before.
THEOREM InvalidMemoryOnlyFromMessages == Spec /\ []RefsBounded => InvalidMemoryOnlySent
<1>1. Inv /\ RefsBounded' /\ [Next]_vars =>
        [\A a \in Asid, va \in BadVa :
           env_pgdir'[a] # NoPage /\ Entry(a, va)' # Entry(a, va) =>
             \E b \in LiveAsid, s \in Va, d \in BOOLEAN : sys_ipc_try_send(b, s, a, va, d)]_vars
  BY BarredStep
<1> QED
  BY <1>1, Always, PTL DEF Spec, InvalidMemoryOnlySent

\* A mapping is lost only by the end of its env or by its own sys_mem_unmap: no call that
\* ends in page_insert is the reason.
LEMMA KeptStep ==
  ASSUME Inv, RefsBounded', [Next]_vars, NEW a \in LiveAsid, NEW va \in Va,
         Valid(page_lookup(Memory, env_pgdir[a], va))
  PROVE  \/ env_pgdir'[a] = NoPage
         \/ sys_mem_unmap(a, va) /\ ~Inserts
         \/ Valid(page_lookup(Memory', env_pgdir'[a], va))
<1>1. a \in Live(env_pgdir) /\ va \in User /\ Look(mem, env_pgdir[a], va).page # NoPage
  BY LooksAre, VaUser DEF Valid
<1>2. ASSUME NEW X, Effects(X), <<a, va>> \notin X
      PROVE  env_pgdir'[a] = NoPage \/ Valid(page_lookup(Memory', env_pgdir'[a], va))
  <2>1. env_pgdir'[a] = NoPage \/ Look(mem', env_pgdir'[a], va).page # NoPage
    BY <1>1, <1>2 DEF Effects, Kept
  <2> QED
    BY <2>1, LooksAre DEF Valid
<1>3. CASE Effects({})
  BY <1>2, <1>3
<1>4. CASE \E b, c \in LiveAsid, s \in Va, t \in BadVa, d \in BOOLEAN :
             sys_ipc_try_send(b, s, c, t, d) /\ Effects({<<c, t>>})
  <2>1. PICK c \in LiveAsid, t \in BadVa : Effects({<<c, t>>})
    BY <1>4
  <2>2. <<a, va>> \notin {<<c, t>>}
    BY <2>1, VaUser
  <2> QED
    BY <2>1, <2>2, <1>2
<1>5. CASE Inserts
  BY <1>3, <1>4, <1>5, InsertsStep
<1>6. CASE ~Inserts /\ \E b \in LiveAsid, vb \in Va : sys_mem_unmap(b, vb) /\ Effects({<<b, vb>>})
  <2>1. PICK b \in LiveAsid, vb \in Va : sys_mem_unmap(b, vb) /\ Effects({<<b, vb>>})
    BY <1>6
  <2>2. CASE b = a /\ vb = va
    BY <2>1, <2>2, <1>6
  <2>3. CASE ~(b = a /\ vb = va)
    <3>1. <<a, va>> \notin {<<b, vb>>}
      BY <2>3
    <3> QED
      BY <3>1, <2>1, <1>2
  <2> QED
    BY <2>2, <2>3
<1> QED
  BY <1>3, <1>4, <1>5, <1>6, StepInv

\* A mapping goes away only because its env ends or unmaps it: a call that maps a page over
\* another leaves every address that had a page with one, also when memory runs out, and no
\* step of one env takes a page from another.
THEOREM MappingsAreKept == Spec /\ []RefsBounded => MappingsKept
<1>1. Inv /\ RefsBounded' /\ [Next]_vars =>
        [\A a \in LiveAsid, va \in Va :
           Valid(page_lookup(Memory, env_pgdir[a], va)) =>
             \/ env_pgdir'[a] = NoPage
             \/ sys_mem_unmap(a, va) /\ ~Inserts
             \/ Valid(page_lookup(Memory', env_pgdir'[a], va))]_vars
  BY KeptStep
<1> QED
  BY <1>1, Always, PTL DEF Spec, MappingsKept
==============================================================================
