------------------------------ MODULE FileServer ------------------------------
(***************************************************************************)
(* The file server (fs/serv.c), the disk under it, and its clients         *)
(* (user/lib/file.c, user/lib/fsipc.c and the file half of user/lib/fd.c). *)
(*                                                                         *)
(* The server handles one request at a time: it receives it and computes   *)
(* (Serve), its block writes reach the disk one by one (ide_write), then   *)
(* it answers (Reply).  A client waits for its answer, other clients run;  *)
(* the pages of an open file are shared with the server's block cache.     *)
(* The machine may stop at any moment and boot again from its disk.        *)
(***************************************************************************)
EXTENDS FileSys

CONSTANTS
  Clients,    \* processes, with one descriptor each
  FileIds,    \* 0 .. MAXOPEN - 1
  Trees,      \* the host trees the image may have been made from
  OpenArgs,   \* the <<path, omode>> open is called with; omode is a set of flags
  Sizes,      \* the sizes ftruncate is called with
  RemoveArgs, \* the paths remove is called with
  MemLeft,    \* pages the kernel may be able to give during a request
  MaxCalls,   \* bound: library calls made
  MaxCrashes  \* bound: times the machine stops

NoFd == -1
FileBlocks == 0 .. NINDIRECT - 1

VARIABLES
  disk,     \* block -> contents
  cache,    \* the pages at DISKMAP, shared with the clients
  dirty,    \* blocks whose page has PTE_DIRTY
  opentab,  \* o_file of each entry, or NullFile
  ffpages,  \* entries whose o_ff page has been allocated
  out,      \* block writes of the current request that are still to be done
  srv,      \* what the server is doing: "off", "check", "run" or "panic", and why
  reply,    \* the answer to be sent: [whom, r, id, size]
  client,   \* what each process is doing
  calls, crashes,
  freed,    \* history: a block has been freed
  odd       \* history: what happened that the file system does not defend against

diskVars == <<disk, out>>
memVars == <<cache, dirty, opentab, ffpages>>
ghosts == <<freed, odd>>
vars == <<diskVars, memVars, srv, reply, client, calls, crashes, ghosts>>

NoReply == [whom |-> "nobody", r |-> 0, id |-> NoFd, size |-> 0]

\* fd: the f_fileid of the descriptor; size, off: f_size and fd_offset of its
\* Filefd page; map: the blocks mapped at fd2data, 0 none, -1 a page of its own;
\* path, omode: the arguments; n, old, i: size and oldsize of ftruncate, the loop
\* variable; wr: ftruncate was called by write.
Idle == [pc |-> "idle", fd |-> NoFd, size |-> 0, off |-> 0, map |-> [i \in FileBlocks |-> 0],
         path |-> <<>>, omode |-> {}, n |-> 0, old |-> 0, i |-> 0, wr |-> FALSE]
Gone == [Idle EXCEPT !.pc = "gone"]

Init ==
  /\ \E tree \in Trees : disk = fsformat(tree)
  /\ cache = [b \in Block |-> None] /\ dirty = {}
  /\ opentab = [id \in FileIds |-> NullFile] /\ ffpages = {}
  /\ out = <<>> /\ srv = [st |-> "off", why |-> ""] /\ reply = NoReply
  /\ client = [c \in Clients |-> Idle]
  /\ calls = 0 /\ crashes = 0 /\ freed = FALSE /\ odd = {}

------------------------------------------------------------------------------
(* Starting: main, fs_init *)

\* read_super and the first half of check_write_block, which smashes the super
\* block on the disk and keeps the copy only in the page of block 0.
read_super ==
  /\ srv.st = "off"
  /\ IF disk[1].k # "super"
     THEN srv' = [st |-> "panic", why |-> "bad magic"] /\ UNCHANGED <<disk, cache>>
     ELSE /\ srv' = [st |-> "check", why |-> ""]
          /\ cache' = [cache EXCEPT ![0] = disk[1], ![1] = Oops]
          /\ disk' = [disk EXCEPT ![1] = Oops]
  /\ UNCHANGED <<out, dirty, opentab, ffpages, reply, client, calls, crashes, ghosts>>

\* The second half of check_write_block, and read_bitmap.
check_write_block ==
  /\ srv.st = "check"
  /\ disk' = [disk EXCEPT ![1] = cache[0]]
  /\ cache' = [cache EXCEPT ![1] = cache[0], ![2] = disk[2]]
  /\ srv' = IF disk[2].free \intersect 0 .. 2 = {} THEN [st |-> "run", why |-> ""]
            ELSE [st |-> "panic", why |-> "bitmap"]
  /\ UNCHANGED <<out, dirty, opentab, ffpages, reply, client, calls, crashes, ghosts>>

------------------------------------------------------------------------------
(* The requests.  s as in FileSys; o: the open file table entry.             *)

\* pageref(o_ff) counts the server's mapping and the clients'.
Holds(c, id) == client[c].fd = id /\ id # NoFd
InUse(id) == \E c \in Clients : Holds(c, id)

open_alloc(s) ==
  LET unused == {id \in FileIds : ~InUse(id)}
      id == CHOOSE x \in unused : \A y \in unused : x <= y
  IN IF unused = {} THEN Ret(s, E_MAX_OPEN)
     ELSE IF id \notin ffpages /\ s.mem = 0 THEN Ret(s, E_NO_MEM)
     ELSE Ret([s EXCEPT !.mem = IF id \in ffpages THEN @ ELSE @ - 1], id)

open_lookup(s, id) == Ret(s, IF InUse(id) THEN 0 ELSE E_INVAL)

\* file_create for one of the flags O_MKDIR, O_CREAT.
Create(s, path, asked) ==
  IF ~asked THEN s
  ELSE Try(file_create(s, path), LAMBDA f : f,
           LAMBDA f : IF f.r = E_FILE_EXISTS THEN Ret(f, 0) ELSE f)

serve_open(s, path, omode) ==
  Then(Create(s, path, "mkdir" \in omode), LAMBDA m :
    Then(Create(m, path, "creat" \in omode), LAMBDA n :
      Then(file_open(n, path), LAMBDA f :
        LET g == IF "mkdir" \in omode
                 THEN SetFile(f, f.file, [FileAt(f, f.file) EXCEPT !.f_type = "dir"]) ELSE f
        IN IF "trunc" \in omode THEN file_set_size(g, g.file, 0) ELSE g)))

serve_map(s, f, n) == file_get_block(s, f, n)
serve_set_size(s, f, n) == file_set_size(s, f, n)
serve_close(s, f) == file_close(s, f)
serve_dirty(s, f, n) == file_dirty(s, f, n)
serve_remove(s, path) == file_remove(s, path)
serve_sync(s) == fs_sync(s)

\* The request a client sends, by where it is in the library: fsipc_open,
\* fsipc_map, fsipc_set_size, fsipc_dirty, fsipc_close, fsipc_remove, fsipc_sync.
Requests == {"open", "omap", "size", "map", "undo", "dirty", "close", "remove", "sync"}

\* serve_table.  An answer to "open" comes with the entry taken.
Handler(s, w) ==
  IF w.pc = "open" THEN Then(open_alloc(s), LAMBDA a :
                          [serve_open(a, w.path, w.omode) EXCEPT !.id = a.r])
  ELSE IF w.pc = "remove" THEN serve_remove(s, w.path)
  ELSE IF w.pc = "sync" THEN serve_sync(s)
  ELSE Then(open_lookup(s, w.fd), LAMBDA l :
         CASE w.pc \in {"omap", "map"} -> serve_map(l, opentab[w.fd], w.i)
           [] w.pc \in {"size", "undo"} ->
                serve_set_size(l, opentab[w.fd], IF w.pc = "size" THEN w.n ELSE w.old)
           [] w.pc = "dirty" -> serve_dirty(l, opentab[w.fd], w.i)
           [] w.pc = "close" -> serve_close(l, opentab[w.fd]))

(* History: what a request did that nothing in the file system guards against. *)

OpenBy(f, cs) == \E c \in cs : client[c].fd # NoFd /\ opentab[client[c].fd] = f
Oddities(c, s) ==
  LET w == client[c]
      target == IF w.pc \in {"open", "remove"} THEN s.file
                ELSE IF w.fd # NoFd THEN opentab[w.fd] ELSE NullFile
      before == FileAt([cache |-> cache], target)
      known == target # NullFile /\ cache[target[1]] # None
      shrinks == known /\ (w.pc = "remove" \/ FileAt(s, target).f_size < before.f_size)
      fresh == cache[2].free \ s.cache[2].free
  IN {x \in {"shrunk while open", "not empty", "retyped", "recycled", "undone"} :
        \/ x = "shrunk while open" /\ shrinks /\ OpenBy(target, Clients \ {c})
        \/ x = "shrunk while open" /\ w.pc = "remove" /\ OpenBy(target, {c})
        \/ x = "not empty" /\ shrinks /\ before.f_type = "dir" /\ before.f_size > 0
        \/ x = "retyped" /\ w.pc = "open" /\ target # NullFile
             /\ \/ "mkdir" \in w.omode /\ known /\ before.f_type = "reg" /\ before.f_name # ""
                \/ "mkdir" \notin w.omode /\ FileAt(s, target).f_type = "dir"
                   /\ ("wr" \in w.omode \/ (known /\ before.f_name = ""))
        \/ x = "undone" /\ w.pc = "undo"
        \/ x = "recycled" /\ \E b \in fresh : cache[b] \notin {None, Zero}}

\* The handler has computed s.  If it panicked there is no answer.
Answer(c, s) ==
  LET opened == client[c].pc = "open" /\ Ok(s) IN
  /\ cache' = s.cache /\ dirty' = s.dirty /\ out' = s.out
  /\ opentab' = IF opened THEN [opentab EXCEPT ![s.id] = s.file] ELSE opentab
  /\ ffpages' = IF s.id # NoFd THEN ffpages \union {s.id} ELSE ffpages
  /\ srv' = IF s.why = "" THEN srv ELSE [st |-> "panic", why |-> s.why]
  /\ reply' = IF s.why # "" THEN NoReply
              ELSE [whom |-> c, r |-> s.r, id |-> s.id,
                    size |-> IF opened THEN FileAt(s, s.file).f_size ELSE 0]
  /\ freed' = (freed \/ s.cache[2].free \ cache[2].free # {})
  /\ odd' = odd \union Oddities(c, s)

\* serve: ipc_recv and the handler.
Serve(c) ==
  /\ srv.st = "run" /\ reply = NoReply
  /\ client[c].pc \in Requests
  /\ \E mem \in MemLeft : Answer(c, Handler(Begin(disk, cache, dirty, mem), client[c]))
  /\ UNCHANGED <<disk, client, calls, crashes>>

\* One block reaches the disk: its bytes as they are in the page now, which a
\* client may have changed, if they are data.
ide_write ==
  /\ out # <<>>
  /\ LET b == Head(out)[1] IN
       disk' = [disk EXCEPT ![b] = IF cache[b].k = "data" THEN cache[b] ELSE Head(out)[2]]
  /\ out' = Tail(out)
  /\ UNCHANGED <<memVars, srv, reply, client, calls, crashes, ghosts>>

------------------------------------------------------------------------------
(* The clients *)

Return(w) == [w EXCEPT !.pc = "idle", !.path = <<>>, !.n = 0, !.old = 0, !.i = 0, !.wr = FALSE]
\* close: file_close's result, then fd_close.
Close(w) == [Return(w) EXCEPT !.fd = NoFd, !.size = 0, !.off = 0, !.omode = {}]
Unmap(w, from, to) == [w EXCEPT !.map = [i \in FileBlocks |-> IF i \in from .. to - 1 THEN 0 ELSE @[i]]]

\* What the process does with the answer a to the request it was waiting for.
OpenReply(w, a) ==
  IF a.r < 0 THEN Close(w)
  ELSE [w EXCEPT !.pc = IF a.size > 0 THEN "omap" ELSE "idle", !.path = <<>>,
                 !.fd = a.id, !.size = a.size,
                 !.off = IF "append" \in w.omode THEN a.size ELSE 0]

\* open returns at the first block it cannot map, with its descriptor left mapped:
\* the caller does not know its number, only exit will close it.
OmapReply(w, a) ==
  IF a.r < 0 THEN [Return(w) EXCEPT !.pc = "lost"]
  ELSE [w EXCEPT !.map[w.i] = a.r, !.i = IF w.i + 1 < w.size THEN w.i + 1 ELSE 0,
                 !.pc = IF w.i + 1 < w.size THEN "omap" ELSE "idle"]

\* ftruncate.  Its caller write copies its data when all went well.
Extended(w) == IF w.wr THEN [w EXCEPT !.pc = "copy"] ELSE Return(w)
SizeReply(w, a) ==
  IF a.r < 0 THEN Return(w)
  ELSE IF w.old < w.n THEN [w EXCEPT !.pc = "map", !.i = w.old]
  ELSE Extended(Unmap(w, w.n, w.old))

MapReply(w, a) ==
  IF a.r < 0 THEN [w EXCEPT !.pc = "undo"]
  ELSE LET v == [w EXCEPT !.map[w.i] = a.r, !.i = w.i + 1]
       IN IF v.i < w.n THEN v ELSE Extended(v)

DirtyReply(w, a) ==
  IF a.r < 0 THEN Close(w)
  ELSE IF w.i + 1 < w.size THEN [w EXCEPT !.i = w.i + 1] ELSE [w EXCEPT !.pc = "close"]

CloseReply(w, a) == IF a.r < 0 THEN Close(w) ELSE Close(Unmap(w, 0, w.size))

AfterReply(w, a) ==
  CASE w.pc = "open" -> OpenReply(w, a)
    [] w.pc = "omap" -> OmapReply(w, a)
    [] w.pc = "size" -> SizeReply(w, a)
    [] w.pc = "map" -> MapReply(w, a)
    [] w.pc = "dirty" -> DirtyReply(w, a)
    [] w.pc = "close" -> CloseReply(w, a)
    [] w.pc \in {"undo", "remove", "sync"} -> Return(w)

\* The answer comes with a page: the o_ff page of the entry opened, or a block.
WithPage(w, a) == w.pc \in {"open", "omap", "map"} /\ a.r >= 0

\* sys_ipc_try_send may find no page for the page table of the address the client gave.
\* A process with something at its data address has that table; whether it has the one
\* of its descriptors depends on what it has open besides, and is left open.
NoTable(w) == 0 \in MemLeft /\ \A i \in FileBlocks : w.map[i] = 0

\* The client was woken before page_insert failed, and takes the answer for a success:
\* where the page should be there is none, or a page of zeros of its own, no descriptor.
PageMissing(w, a) == IF w.pc = "open" THEN Close(w) ELSE AfterReply(w, [a EXCEPT !.r = 0])

\* ipc_send of the handler: its user_assert stops the server when the client has
\* been destroyed in the meantime, or the page of the answer could not be mapped.
Reply ==
  /\ reply # NoReply /\ out = <<>>
  /\ LET c == reply.whom
         w == client[c]
     IN \/ /\ w.pc = "gone"
           /\ srv' = [st |-> "panic", why |-> "client gone"]
           /\ UNCHANGED client
        \/ /\ w.pc # "gone"
           /\ client' = [client EXCEPT ![c] = AfterReply(w, reply)]
           /\ UNCHANGED srv
        \/ /\ WithPage(w, reply) /\ NoTable(w)
           /\ client' = [client EXCEPT ![c] = PageMissing(w, reply)]
           /\ srv' = [st |-> "panic", why |-> "no table for the page"]
  /\ reply' = NoReply
  /\ UNCHANGED <<diskVars, memVars, calls, crashes, ghosts>>

Call(c, w) ==
  /\ client[c].pc = "idle" /\ calls < MaxCalls
  /\ calls' = calls + 1
  /\ client' = [client EXCEPT ![c] = w]
  /\ UNCHANGED <<diskVars, memVars, srv, reply, crashes, ghosts>>

open(c, path, omode) ==
  /\ client[c].fd = NoFd
  /\ Call(c, [client[c] EXCEPT !.pc = "open", !.path = path, !.omode = omode])

ftruncate_(w, n, wr) == [w EXCEPT !.pc = "size", !.n = n, !.old = w.size, !.size = n, !.wr = wr]

ftruncate(c, n) ==
  /\ client[c].fd # NoFd
  /\ Call(c, ftruncate_(client[c], n, FALSE))

\* write of one block at fd_offset: file_write asks for more space first.
write(c) ==
  LET w == client[c] IN
  /\ w.fd # NoFd /\ "wr" \in w.omode /\ w.off < NINDIRECT
  /\ Call(c, IF w.off >= w.size THEN ftruncate_(w, w.off + 1, TRUE) ELSE [w EXCEPT !.pc = "copy"])

\* memcpy of file_write, into a page of the block cache; an address with no page
\* gets one of the process's own.
copy(c) ==
  LET w == client[c] IN
  /\ w.pc = "copy"
  /\ cache' = IF w.map[w.off] > 0 THEN [cache EXCEPT ![w.map[w.off]] = Data(c)] ELSE cache
  /\ client' = [client EXCEPT ![c] = [Return(w) EXCEPT !.off = w.off + 1,
                                        !.map[w.off] = IF @ = 0 THEN -1 ELSE @]]
  /\ UNCHANGED <<diskVars, dirty, opentab, ffpages, srv, reply, calls, crashes, ghosts>>

\* close, also from close_all when the process ends.
close(c) ==
  LET w == client[c] IN
  /\ w.fd # NoFd /\ w.pc \in {"idle", "lost"}
  /\ client' = [client EXCEPT ![c].pc = IF w.size > 0 THEN "dirty" ELSE "close"]
  /\ UNCHANGED <<diskVars, memVars, srv, reply, calls, crashes, ghosts>>

remove(c, path) == Call(c, [client[c] EXCEPT !.pc = "remove", !.path = path])
sync(c) == Call(c, [client[c] EXCEPT !.pc = "sync"])

\* env_destroy: all the pages of the process are unmapped.  Another process takes
\* its place, but the server will miss the one it owes an answer.
kill(c) ==
  /\ client[c].pc \in Requests \/ client[c].fd # NoFd
  /\ client' = [client EXCEPT ![c] = IF reply.whom = c THEN Gone ELSE Idle]
  /\ UNCHANGED <<diskVars, memVars, srv, reply, calls, crashes, ghosts>>

\* The machine stops.  A block being written has the first of its sectors new.
Torn(old, new) ==
  IF IsDir(old) /\ IsDir(new)
  THEN {DirOf([j \in Slots |-> IF j < k THEN Files(new)[j] ELSE Files(old)[j]]) : k \in 0 .. FILE2BLK}
  ELSE {old, new}

Crash ==
  /\ srv.st # "off" /\ crashes < MaxCrashes
  /\ IF out = <<>> THEN UNCHANGED disk
     ELSE \E v \in Torn(disk[Head(out)[1]], Head(out)[2]) : disk' = [disk EXCEPT ![Head(out)[1]] = v]
  /\ cache' = [b \in Block |-> None] /\ dirty' = {} /\ out' = <<>>
  /\ opentab' = [id \in FileIds |-> NullFile] /\ ffpages' = {}
  /\ srv' = [st |-> "off", why |-> ""] /\ reply' = NoReply
  /\ client' = [c \in Clients |-> Idle]
  /\ crashes' = crashes + 1
  /\ odd' = IF srv.st = "check" THEN odd \union {"smashed"} ELSE odd
  /\ UNCHANGED <<calls, freed>>

Next ==
  \/ read_super
  \/ check_write_block
  \/ ide_write
  \/ Reply
  \/ Crash
  \/ \E c \in Clients :
       \/ Serve(c) \/ write(c) \/ copy(c) \/ close(c) \/ sync(c) \/ kill(c)
       \/ \E a \in OpenArgs : open(c, a[1], a[2])
       \/ \E n \in Sizes : ftruncate(c, n)
       \/ \E path \in RemoveArgs : remove(c, path)

Spec == Init /\ [][Next]_vars

------------------------------------------------------------------------------
(* Properties *)

\* The block contents as the server sees them: the page, or what a read would
\* bring in.
Seen == [b \in Block |-> IF cache[b] # None THEN cache[b]
                         ELSE ide_read([out |-> out, disk |-> disk], b)]

\* The Files of an image from f down, and the block numbers they hold.
RECURSIVE Below(_, _)
Below(img, f) ==
  LET bs == BlocksOf([cache |-> img], f)
      kids == {p \in {<<bs[n], j>> : n \in DOMAIN bs, j \in Slots} :
                 p[1] # 0 /\ Files(img[p[1]])[p[2]].f_name # ""}
  IN {f} \union (IF FileAt([cache |-> img], f).f_type = "dir"
                 THEN UNION {Below(img, p) : p \in kids} ELSE {})

References(img) ==
  UNION {LET v == FileAt([cache |-> img], f) IN
           {<<v.f_direct[n], f, n>> : n \in DOMAIN v.f_direct}
           \union {<<v.f_indirect, f, -1>>}
           \union (IF v.f_indirect = 0 THEN {}
                   ELSE {<<Ptrs(img[v.f_indirect])[n], f, n>> : n \in NDIRECT .. NINDIRECT - 1})
         : f \in Below(img, Root)}
Referenced(img) == {x \in References(img) : x[1] # 0}
Distinct(refs) == \A x, y \in refs : x[1] = y[1] => x = y

Content ==
  {None, Zero, Oops} \union {Data(v) : v \in Clients \union {"host"}}

\* Types of the state; blocks by their kind.
TypeOK ==
  /\ \A b \in Block : disk[b].k \in {"zero", "data", "dir", "ind", "super", "oops", "bitmap"}
  /\ \A b \in Block : cache[b].k = "data" => cache[b] \in Content
  /\ dirty \subseteq {b \in Block : cache[b] # None}
  /\ opentab \in [FileIds -> FilePtr] /\ ffpages \subseteq FileIds
  /\ srv.st \in {"off", "check", "run", "panic"}
  /\ \A c \in Clients : client[c].size \in 0 .. NINDIRECT /\ client[c].fd \in FileIds \union {NoFd}

\* As long as nobody shrinks a file under another's feet, removes a directory that
\* is not empty or opens as a file what is a directory, every block in use belongs
\* to exactly one place of one file, and no block is lost: alloc_block,
\* file_truncate and the failure paths of file_get_block and dir_alloc_file.
BitmapExact ==
  srv.st = "run" /\ crashes = 0 /\ odd \subseteq {"recycled"} =>
    LET refs == Referenced(Seen) IN
    /\ Distinct(refs)
    /\ {x[1] : x \in refs} = {b \in Block : b >= 3 /\ b \notin cache[2].free}

\* As long as nothing has been freed, the disk can be booted from at every moment,
\* whatever writes are missing: its files share no block, and its bitmap has every
\* block they refer to marked as used (alloc_block_num writes the bitmap before any
\* reference to the block can reach the disk).
DiskConsistent ==
  ~freed /\ odd = {} /\ disk[1].k = "super" =>
    LET refs == Referenced(disk) IN
    /\ Distinct(refs)
    /\ \A x \in refs : x[1] \notin disk[2].free

\* A block was freed before the machine stopped: the disk may be inconsistent.
Damaged == freed /\ crashes > 0

\* A hole beyond the direct blocks: a size that needs an indirect block, and none there.
Hole(f) == LET v == FileAt([cache |-> cache], f) IN v.f_size > NDIRECT /\ v.f_indirect = 0

\* The server stops for no other reasons than these.  A file is truncated that has a hole
\* beyond the direct blocks, or whose indirect block cannot be read for want of memory
\* (panic_on of file_truncate); a client is destroyed during its request, or the kernel
\* has no page for the table its answer needs (user_assert of ipc_send); the machine
\* stopped during check_write_block; or, after one of the oddities or a stop of the
\* machine with a freed block, bytes are not what they are taken for.
ServerStops ==
  srv.st = "panic" =>
    \/ srv.why = "truncate" /\ \E f \in {Root} \union {p \in FilePtr : cache[p[1]].k = "dir"} : Hole(f)
    \/ srv.why \in {"truncate, no memory", "no table for the page"} /\ 0 \in MemLeft
    \/ srv.why = "client gone" /\ \E c \in Clients : client[c].pc = "gone"
    \/ srv.why = "bad magic" /\ "smashed" \in odd
    \/ srv.why \in {"misread", "reading free block"} /\ (odd # {} \/ Damaged)

\* The pages a process has at the data address of its descriptor are the blocks of
\* its file, so that what it reads and writes is the file, unless the file was
\* shrunk by another process or an ftruncate of its own had to be undone.
MappingsAgree ==
  srv.st = "run" /\ reply = NoReply /\ odd \subseteq {"recycled"} /\ ~Damaged =>
    \A c \in Clients :
      LET w == client[c]
          bs == BlocksOf([cache |-> cache], opentab[w.fd])
      IN w.fd # NoFd /\ w.pc = "idle" =>
           \A i \in 0 .. w.size - 1 : w.map[i] > 0 => i < Len(bs) /\ bs[i + 1] = w.map[i]

\* When close has succeeded, what the process wrote is on the disk: a block it had
\* mapped that still holds its data in the cache holds it on the disk as well.
CloseFlushes ==
  [][\A c \in Clients :
       (reply.whom = c /\ client[c].pc = "close" /\ reply.r = 0 /\ reply' = NoReply
        /\ srv'.st = "run" /\ odd = {} /\ ~Damaged) =>
         \A i \in 0 .. client[c].size - 1 :
           LET b == client[c].map[i] IN
           b > 0 /\ cache[b] = Data(c) => disk[b] = Data(c)]_vars

(* What a comment of the code says and the code does not do. *)

\* file_clear_block: "If it's not there, just silently succeed."  So truncating a
\* file never stops the server.
TruncateSucceeds == srv.why # "truncate"
=============================================================================
