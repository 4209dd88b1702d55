------------------------------- MODULE FileSys -------------------------------
(***************************************************************************)
(* The block cache and the file system operations of the file server       *)
(* (fs/fs.c, fs/ide.c), and the tool that writes the first disk image      *)
(* (tools/fsformat.c), as operators.                                       *)
(*                                                                         *)
(* An operator that changes the server's memory takes the working record s *)
(* of the request and returns it, with the C function's result in s.r.     *)
(* FileServer.tla turns requests into actions.                             *)
(***************************************************************************)
EXTENDS Integers, Sequences, FiniteSets, SequencesExt

CONSTANTS
  NBLOCK,     \* super->s_nblocks; one bitmap block, so NBLOCK <= BLOCK_SIZE_BIT
  NDIRECT,
  NINDIRECT,  \* bound on filebno, the direct ones included
  FILE2BLK    \* File structures in a block

ASSUME NBLOCKAssumption == NBLOCK \in Nat /\ NBLOCK > 3
ASSUME FileAssumption == NDIRECT \in Nat \ {0} /\ NINDIRECT \in Nat /\ NINDIRECT > NDIRECT
                         /\ FILE2BLK \in Nat \ {0}

E_INVAL == -3
E_NO_MEM == -4
E_NO_DISK == -8
E_MAX_OPEN == -9
E_NOT_FOUND == -10
E_FILE_EXISTS == -12

Block == 0 .. NBLOCK - 1
Slots == 0 .. FILE2BLK - 1

\* A File structure is named by its block and its place there.
FilePtr == Block \X Slots
NullFile == <<0, 0>>
Root == <<1, 0>>   \* &super->s_root

\* Sizes are in blocks.  A File with f_name "" is unused, whatever else it holds.
File(name, type) == [f_name |-> name, f_size |-> 0, f_type |-> type,
                     f_direct |-> [i \in 0 .. NDIRECT - 1 |-> 0], f_indirect |-> 0,
                     f_dir |-> NullFile]
NoFile == File("", "reg")

\* What a block holds: bytes nobody has written (zeros), a client's data, File
\* structures, block numbers, or one of the blocks 0 .. 2.  Not mapped: None.
None == [k |-> "none"]
Zero == [k |-> "zero"]
Data(v) == [k |-> "data", val |-> v]
Dir(fs) == [k |-> "dir", files |-> fs]
Index(ps) == [k |-> "ind", ptrs |-> ps]
Super(root) == [k |-> "super", root |-> root]
Oops == [k |-> "oops"]
Bitmap(free) == [k |-> "bitmap", free |-> free]

NoFiles == [j \in Slots |-> NoFile]
NoPtrs == [i \in NDIRECT .. NINDIRECT - 1 |-> 0]

\* Zeros read as unused File structures or as no block numbers; the other kinds
\* of bytes mean nothing when they are read as what they are not.
IsDir(c) == c.k \in {"dir", "zero"}
IsIndex(c) == c.k \in {"ind", "zero"}
Files(c) == IF c.k = "dir" THEN c.files ELSE NoFiles
Ptrs(c) == IF c.k = "ind" THEN c.ptrs ELSE NoPtrs

DirOf(fs) == IF fs = NoFiles THEN Zero ELSE Dir(fs)
IndexOf(ps) == IF ps = NoPtrs THEN Zero ELSE Index(ps)

------------------------------------------------------------------------------
(* The working record of a request: the disk as it was when the request     *)
(* came, the cache, the dirty blocks, the block writes issued so far, the   *)
(* pages the kernel can still give, the result, and what stopped the server.*)

Begin(disk, cache, dirty, mem) ==
  [disk |-> disk, cache |-> cache, dirty |-> dirty, out |-> <<>>, mem |-> mem,
   r |-> 0, why |-> "", at |-> <<>>, file |-> NullFile, dir |-> NullFile, id |-> -1]

Ok(s) == s.why = "" /\ s.r >= 0
Ret(s, r) == [s EXCEPT !.r = r]
Panic(s, why) == [s EXCEPT !.why = why, !.r = -1]

\* What follows a call that returned t: on success, and, for Try, on failure.
Then(t, OnOk(_)) == IF Ok(t) THEN OnOk(t) ELSE t
Try(t, OnOk(_), OnError(_)) ==
  IF Ok(t) THEN OnOk(t) ELSE IF t.why = "" THEN OnError(t) ELSE t

\* for (i = from; i < to; i++), left as soon as a step fails.
Loop(Step(_, _), s, from, to) ==
  FoldLeft(LAMBDA t, i : IF Ok(t) THEN Step(t, i) ELSE t,
           Ret(s, 0), [k \in 1 .. (to - from) |-> from + k - 1])

block_is_mapped(s, b) == s.cache[b] # None
block_is_free(s, b) == b \in s.cache[2].free
block_is_dirty(s, b) == b \in s.dirty

\* Mutant: a block that is not mapped is marked as well.
dirty_block_Unmapped(s, b) == Ret([s EXCEPT !.dirty = @ \union {b}], 0)

dirty_block(s, b) ==
  IF ~block_is_mapped(s, b) THEN Ret(s, E_NOT_FOUND)
  ELSE Ret([s EXCEPT !.dirty = @ \union {b}], 0)

\* ide_write takes its time: the write joins those under way, and reaches the
\* disk in a later step.
write_block(s, b) ==
  IF ~block_is_mapped(s, b) THEN Panic(s, "write unmapped block")
  ELSE [s EXCEPT !.out = Append(@, <<b, s.cache[b]>>)]

\* What ide_read finds: the writes under way are finished before it is called.
ide_read(s, b) ==
  LET ws == SelectSeq(s.out, LAMBDA w : w[1] = b)
  IN IF ws = <<>> THEN s.disk[b] ELSE Last(ws)[2]

MapPage(s, b, c) ==
  IF s.mem = 0 THEN Ret(s, E_NO_MEM)
  ELSE Ret([s EXCEPT !.mem = @ - 1, !.cache[b] = c], 0)

read_block(s, b) ==
  IF b >= NBLOCK THEN Panic(s, "reading non-existent block")
  ELSE IF block_is_free(s, b) THEN Panic(s, "reading free block")
  ELSE IF block_is_mapped(s, b) THEN Ret(s, 0)
  ELSE MapPage(s, b, ide_read(s, b))

\* A block that is still mapped from an earlier use keeps its old bytes.
map_block(s, b) ==
  IF block_is_mapped(s, b) THEN Ret(s, 0) ELSE MapPage(s, b, Zero)

\* Mutant: the block is left marked as used.
free_block_Forgotten(s, b) == s

\* Only the cached bitmap changes.
free_block(s, b) ==
  IF b = 0 THEN s ELSE [s EXCEPT !.cache[2] = Bitmap(@.free \union {b})]

\* Mutant: the bitmap is not written to the disk.
alloc_block_num_Lazy(s) ==
  LET free == {b \in s.cache[2].free : b >= 3}
      b == CHOOSE x \in free : \A y \in free : x <= y
  IN IF free = {} THEN Ret(s, E_NO_DISK)
     ELSE Ret([s EXCEPT !.cache[2] = Bitmap(@.free \ {b})], b)

alloc_block_num(s) ==
  LET free == {b \in s.cache[2].free : b >= 3}
      b == CHOOSE x \in free : \A y \in free : x <= y
  IN IF free = {} THEN Ret(s, E_NO_DISK)
     ELSE Ret(write_block([s EXCEPT !.cache[2] = Bitmap(@.free \ {b})], 2), b)

alloc_block(s) ==
  Then(alloc_block_num(s), LAMBDA a :
    Try(map_block(a, a.r), LAMBDA m : Ret(m, a.r), LAMBDA m : free_block(m, a.r)))

------------------------------------------------------------------------------
(* Files *)

FileAt(s, f) == IF f = Root THEN s.cache[1].root ELSE Files(s.cache[f[1]])[f[2]]
SetFile(s, f, v) ==
  IF f = Root THEN [s EXCEPT !.cache[1] = Super(v)]
  ELSE [s EXCEPT !.cache[f[1]] = DirOf([Files(@) EXCEPT ![f[2]] = v])]

\* A struct File * that points into bytes that are no File structures.
Wild(s, f) == f # Root /\ ~IsDir(s.cache[f[1]])
Misread(s) == Panic(s, "misread")

\* s.at: the word *ppdiskbno points at, in the File or in the indirect block.
PtrAt(s) == IF s.at[1] = "file" THEN FileAt(s, s.at[2]).f_direct[s.at[3]]
            ELSE Ptrs(s.cache[s.at[2]])[s.at[3]]
SetPtr(s, b) ==
  IF s.at[1] = "file"
  THEN SetFile(s, s.at[2], [FileAt(s, s.at[2]) EXCEPT !.f_direct[s.at[3]] = b])
  ELSE [s EXCEPT !.cache[s.at[2]] = IndexOf([Ptrs(@) EXCEPT ![s.at[3]] = b])]

\* f->f_indirect, allocated if need be.
IndirectBlock(s, f, alloc) ==
  IF FileAt(s, f).f_indirect # 0 THEN Ret(s, FileAt(s, f).f_indirect)
  ELSE IF ~alloc THEN Ret(s, E_NOT_FOUND)
  ELSE Then(alloc_block(s), LAMBDA a : SetFile(a, f, [FileAt(a, f) EXCEPT !.f_indirect = a.r]))

file_block_walk(s, f, n, alloc) ==
  IF Wild(s, f) THEN Misread(s)
  ELSE IF n < NDIRECT THEN Ret([s EXCEPT !.at = <<"file", f, n>>], 0)
  ELSE IF n >= NINDIRECT THEN Ret(s, E_INVAL)
  ELSE Then(IndirectBlock(s, f, alloc), LAMBDA a :
         Then(read_block(a, a.r), LAMBDA d :
           IF ~IsIndex(d.cache[a.r]) THEN Misread(d)
           ELSE Ret([d EXCEPT !.at = <<"ind", a.r, n>>], 0)))

\* Mutant: the number of the new block is not stored.
file_map_block_Unlinked(s, f, n, alloc) ==
  Then(file_block_walk(s, f, n, alloc), LAMBDA w :
    IF PtrAt(w) # 0 THEN Ret(w, PtrAt(w))
    ELSE IF ~alloc THEN Ret(w, E_NOT_FOUND) ELSE alloc_block(w))

\* The result is *diskbno, which is not 0.
file_map_block(s, f, n, alloc) ==
  Then(file_block_walk(s, f, n, alloc), LAMBDA w :
    IF PtrAt(w) # 0 THEN Ret(w, PtrAt(w))
    ELSE IF ~alloc THEN Ret(w, E_NOT_FOUND)
    ELSE Then(alloc_block(w), LAMBDA a : SetPtr(a, a.r)))

\* Mutant: the block number is not cleared.
file_clear_block_Keep(s, f, n) ==
  Then(file_block_walk(s, f, n, FALSE), LAMBDA w :
    IF PtrAt(w) = 0 THEN w ELSE free_block(w, PtrAt(w)))

file_clear_block(s, f, n) ==
  Then(file_block_walk(s, f, n, FALSE), LAMBDA w :
    IF PtrAt(w) = 0 THEN w ELSE SetPtr(free_block(w, PtrAt(w)), 0))

\* The result is the block whose page *blk points at.
file_get_block(s, f, n) ==
  Then(file_map_block(s, f, n, TRUE), LAMBDA m :
    Then(read_block(m, m.r), LAMBDA b : Ret(b, m.r)))

file_dirty(s, f, n) ==
  Then(file_map_block(s, f, n, FALSE), LAMBDA m : dirty_block(m, m.r))

\* One block of file_flush, which is void: an error of file_map_block is passed over.
FlushBlock(s, f, n) ==
  Try(file_map_block(s, f, n, FALSE),
      LAMBDA m : Ret(IF block_is_dirty(m, m.r) THEN write_block(m, m.r) ELSE m, 0),
      LAMBDA m : Ret(m, 0))

\* Mutant: the number of blocks is rounded down.
file_flush_RoundDown(s, f) ==
  IF Wild(s, f) THEN Misread(s)
  ELSE Loop(LAMBDA t, n : FlushBlock(t, f, n), s, 0, FileAt(s, f).f_size - 1)

file_flush(s, f) ==
  IF Wild(s, f) THEN Misread(s)
  ELSE Loop(LAMBDA t, n : FlushBlock(t, f, n), s, 0, FileAt(s, f).f_size)

FlushDir(s, f) ==
  IF Wild(s, f) \/ FileAt(s, f).f_dir = NullFile THEN s ELSE file_flush(s, FileAt(s, f).f_dir)

\* Blocks from .. f_size - 1; panic_on stops the server when one cannot be cleared: its
\* indirect block is not there, or cannot be read for want of memory.
ClearBlocks(s, f, from) ==
  Loop(LAMBDA t, n : Try(file_clear_block(t, f, n), LAMBDA u : u,
                         LAMBDA u : Panic(u, IF u.r = E_NOT_FOUND THEN "truncate"
                                             ELSE "truncate, no memory")),
       s, from, FileAt(s, f).f_size)

file_truncate(s, f, new) ==
  IF Wild(s, f) THEN Misread(s)
  ELSE Then(ClearBlocks(s, f, new), LAMBDA c :
         IF new > NDIRECT THEN SetFile(c, f, [FileAt(c, f) EXCEPT !.f_size = new])
         ELSE SetFile(free_block(c, FileAt(c, f).f_indirect), f,
                      [FileAt(c, f) EXCEPT !.f_size = new, !.f_indirect = 0]))

file_set_size(s, f, new) ==
  IF Wild(s, f) THEN Misread(s)
  ELSE Then(IF FileAt(s, f).f_size > new THEN file_truncate(s, f, new) ELSE Ret(s, 0), LAMBDA t :
         FlushDir(SetFile(t, f, [FileAt(t, f) EXCEPT !.f_size = new]), f))

file_close(s, f) == Then(file_flush(s, f), LAMBDA t : FlushDir(t, f))

fs_sync(s) ==
  Loop(LAMBDA t, b : IF block_is_dirty(t, b) THEN write_block(t, b) ELSE t, s, 0, NBLOCK)

------------------------------------------------------------------------------
(* Directories and paths.  A path is the sequence of its elements.           *)

FirstNamed(c, b, name) ==
  LET hits == {j \in Slots : Files(c)[j].f_name = name}
  IN IF hits = {} THEN NullFile ELSE <<b, CHOOSE j \in hits : \A k \in hits : j <= k>>

\* The first File of the directory with the name asked for, in s.file; reading a
\* block of the directory may allocate it.
FindSlot(s, dir, name) ==
  LET Look(t, n) ==
        IF t.file # NullFile THEN t
        ELSE Then(file_get_block(t, dir, n), LAMBDA b :
               IF ~IsDir(b.cache[b.r]) THEN Misread(b)
               ELSE [b EXCEPT !.file = FirstNamed(b.cache[b.r], b.r, name)])
  IN Loop(Look, [s EXCEPT !.file = NullFile], 0, FileAt(s, dir).f_size)

dir_lookup(s, dir, name) ==
  Then(FindSlot(s, dir, name), LAMBDA t :
    IF t.file = NullFile THEN Ret(t, E_NOT_FOUND)
    ELSE Ret(SetFile(t, t.file, [FileAt(t, t.file) EXCEPT !.f_dir = dir]), 0))

\* f_size has grown when file_get_block fails.  The first File of a new block is
\* taken as it is.
dir_alloc_file(s, dir) ==
  Then(FindSlot(s, dir, ""), LAMBDA t :
    IF t.file # NullFile THEN Ret(t, 0)
    ELSE Then(file_get_block(SetFile(t, dir, [FileAt(t, dir) EXCEPT !.f_size = @ + 1]),
                             dir, FileAt(t, dir).f_size), LAMBDA b :
           IF ~IsDir(b.cache[b.r]) THEN Misread(b) ELSE Ret([b EXCEPT !.file = <<b.r, 0>>], 0)))

\* s.file: the file; s.dir: its directory, also when only the last element is
\* missing, and NullFile after any other failure.
walk_path(s, path) ==
  LET Elem(t, i) ==
        IF Wild(t, t.file) THEN Misread(t)
        ELSE IF FileAt(t, t.file).f_type # "dir" THEN Ret([t EXCEPT !.dir = NullFile], E_NOT_FOUND)
        ELSE Try(dir_lookup(t, t.file, path[i]),
                 LAMBDA l : [l EXCEPT !.dir = t.file],
                 LAMBDA l : [l EXCEPT !.dir = IF l.r = E_NOT_FOUND /\ i = Len(path) THEN t.file
                                              ELSE NullFile])
  IN Loop(Elem, [s EXCEPT !.file = Root, !.dir = NullFile], 1, Len(path) + 1)

file_open(s, path) == walk_path(s, path)

\* Only the name of the File is set: the rest is what its last use left.
file_create(s, path) ==
  Try(walk_path(s, path),
      LAMBDA w : Ret(w, E_FILE_EXISTS),
      LAMBDA w : IF w.r # E_NOT_FOUND \/ w.dir = NullFile THEN w
                 ELSE Try(dir_alloc_file(w, w.dir),
                          LAMBDA a : SetFile(a, a.file, [FileAt(a, a.file) EXCEPT !.f_name = Last(path)]),
                          LAMBDA a : Ret(a, w.r)))

file_remove(s, path) ==
  Then(walk_path(s, path), LAMBDA w :
    Then(file_truncate(w, w.file, 0), LAMBDA t :
      file_close(SetFile(t, w.file, [FileAt(t, w.file) EXCEPT !.f_name = ""]), w.file)))
------------------------------------------------------------------------------
(* tools/fsformat.c.  d: the image under construction, with the super block  *)
(* already at its place, and nextbno in d.r.                                 *)

init_disk ==
  [cache |-> [b \in Block |-> IF b = 1 THEN Super(File("/", "dir"))
                              ELSE IF b = 2 THEN Bitmap(Block) ELSE Zero],
   r |-> 3, file |-> NullFile]

\* next_block and save_block_link: block n of file f is the next one, and so is
\* the index block when f needs its first.
save_block_link(d, f, n) ==
  LET v == FileAt(d, f)
      x == IF v.f_indirect = 0 THEN d.r + 1 ELSE v.f_indirect
  IN IF n < NDIRECT
     THEN [SetFile(d, f, [v EXCEPT !.f_direct[n] = d.r]) EXCEPT !.r = @ + 1]
     ELSE [SetFile(d, f, [v EXCEPT !.f_indirect = x])
             EXCEPT !.cache[x] = IndexOf([Ptrs(@) EXCEPT ![n] = d.r]),
                    !.r = @ + (IF v.f_indirect = 0 THEN 2 ELSE 1)]

make_link_block(d, dirf) ==
  LET n == FileAt(d, dirf).f_size
      e == save_block_link(d, dirf, n)
  IN [SetFile(e, dirf, [FileAt(e, dirf) EXCEPT !.f_size = n + 1]) EXCEPT !.file = <<d.r, 0>>]

\* The blocks of a file, in order.
BlocksOf(d, f) ==
  LET v == FileAt(d, f)
  IN [n \in 1 .. v.f_size |-> IF n <= NDIRECT THEN v.f_direct[n - 1]
                              ELSE Ptrs(d.cache[v.f_indirect])[n - 1]]

\* The first unused File of the directory, in d.file.
create_file(d, dirf) ==
  LET bs == BlocksOf(d, dirf)
      unused == {p \in (DOMAIN bs) \X Slots : Files(d.cache[bs[p[1]]])[p[2]].f_name = ""}
      first == CHOOSE p \in unused : \A q \in unused :
                 p[1] < q[1] \/ (p[1] = q[1] /\ p[2] <= q[2])
  IN IF unused = {} THEN make_link_block(d, dirf)
     ELSE [d EXCEPT !.file = <<bs[first[1]], first[2]>>]

\* n blocks of data that no client has written.
write_file(d, dirf, name, n) ==
  LET e == create_file(d, dirf)
      named == SetFile(e, e.file, [File(name, "reg") EXCEPT !.f_size = n])
      Read(t, i) == save_block_link([t EXCEPT !.cache[t.r] = Data("host")], e.file, i)
  IN FoldLeft(Read, named, [k \in 1 .. n |-> k - 1])

\* A host tree is a sequence of <<name, number of blocks, entries>>, where only a
\* directory has entries, and a directory has -1 blocks.
RECURSIVE write_directory(_, _, _)
write_directory(d, dirf, e) ==
  LET c == create_file(d, dirf)
      named == SetFile(c, c.file, File(e[1], "dir"))
  IN IF e[2] >= 0 THEN write_file(d, dirf, e[1], e[2])
     ELSE FoldLeft(LAMBDA t, x : write_directory(t, c.file, x), named, e[3])

flush_bitmap(d) == [d EXCEPT !.cache[2] = Bitmap({b \in Block : b >= d.r})]

\* main of fsformat: the disk image of a host tree.
fsformat(tree) ==
  flush_bitmap(FoldLeft(LAMBDA d, e : write_directory(d, Root, e), init_disk, tree)).cache
=============================================================================
