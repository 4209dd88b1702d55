# A verification project for MOS

MOS is a small teaching operating system for MIPS: a kernel with preemptive
processes ("envs"), paging, a software-filled TLB and IPC, and on top of it, in
user mode, a C library with copy-on-write `fork`, pipes and descriptors, a file
server process and a shell with jobs. This directory models these parts in TLA+,
checks the models with TLC on small instances and proves the central invariants
with TLAPS for every size.

`PROJECT.json` lists components, runs, mutants, the source lines behind each
definition, findings, hazards and theorems.

## 1. Inventory

| Part | State | Operations | Hard because | Correct when |
|---|---|---|---|---|
| Env life cycle (`kern/env.c`) | `envs[]`, `env_free_list`, `asid_bitmap`, id counter | alloc, create, free, destroy, run | an allocation can fail half way; slots, ids and asids are reused | free list = free slots; asids unique and not leaked; a stale id is refused |
| Scheduler (`kern/sched.c`, TAILQ in `include/queue.h`) | `env_sched_list` (intrusive links), `curenv`, slice count | `schedule(yield)` from the clock and from four system calls | removal does not check membership, links of a removed env are stale | the list holds exactly the runnable envs; FIFO turns; nobody starves |
| Process and IPC calls (`kern/syscall_all.c`) | status, `env_ipc_*` of each env | yield, exofork, set status, destroy, recv, try_send | block, wake and suspend change the same list from both sides | a receiver is blocked; a message stays until the next receive |
| Pages and page tables (`kern/pmap.c`) | `pages[]`, free list, tables in memory | alloc, insert, lookup, remove, decref | counts against mappings, failure after a partial change | exact counts, no page with two uses, no mapping lost |
| TLB (`kern/tlbex.c`, `tlb_asm.S`) | hardware TLB, two pages per entry | refill, passive allocation, invalidate | cached copies of entries that change | TLB agrees with the tables, across reuse of an asid |
| Pipes (`user/lib/pipe.c`) | shared buffer page, positions | read, write, close, is_closed | preempted between any two memory accesses; end of file inferred from page counts | FIFO; closed is reported when and only when it is true |
| Descriptors (`user/lib/fd.c`) | descriptor pages shared between processes | alloc, close, dup, read, write | two pages per descriptor mapped one after the other | counts agree at rest |
| Fork, copy-on-write (`user/lib/fork.c`) | page permissions of parent and child | fork, duppage, cow_entry | runs in user mode while the parent's own pages change | private pages stay private |
| File server protocol (`fs/serv.c`, `user/lib/fsipc.c`, `file.c`) | `opentab`, one request page; a descriptor page and block mappings in each client | open, map, set size, dirty, close, remove, sync | clients share pages of the block cache, end in mid-request, and change files under each other | what a client maps is its file; close reaches the disk; one client cannot stop the server |
| File system (`fs/fs.c`, `fs/ide.c`, `tools/fsformat.c`) | bitmap, block cache, directories; the disk | alloc/free block, lookup, create, truncate, remove, flush, start-up check | write order, a stop of the machine, failure half way, stale cache | every block in use belongs to one place of one file; the disk can be booted |
| Loading (`spawn.c`, `elfloader.c`) | a child under construction | spawn, segment mapping | error paths; several address spaces | child complete or gone |
| Jobs and shell (`sys_*_job`, `user/sh.c`, `wait.c`, `libos.c`) | `jobs[]`; a tree of processes, each with a copy of the parser | run a line; add, kill, list, await jobs | results travel by IPC that anybody may receive; jobs end while they are named | a line runs as it says and in order; a job is done when its process is; the shell prompts again |

Interaction: every part above the kernel works through system calls, which run
with interrupts off and are therefore atomic; user code is interleaved at any
instruction by the clock (`handle_int` → `schedule(0)`). Memory is shared
between processes by pages marked `PTE_LIBRARY`. Pipes read the kernel's
reference counts directly through the read-only mappings `pages` and `envs`; the
file server reads its clients' page counts the same way to learn which open
files are in use. Results of processes and answers of the file server use the
same IPC, which has one mailbox per process.

## 2. Modules

| Module | Models |
|---|---|
| `TailQueue` | the TAILQ macros, pointer by pointer; when links represent a queue |
| `EnvSched` (uses `TailQueue`) | env life cycle, scheduler, process and IPC calls |
| `RunQueue` | what the scheduler promises: one FIFO of turns (abstract) |
| `Pmap` | pages, tables, TLB, memory calls, address spaces |
| `Pipe` | pipe library, `close`/`dup`, the page order of `fork` |
| `FileSys` | the file system and `fsformat` as operators on a record of the server's memory |
| `FileServer` (extends `FileSys`) | the server, the disk, clients, stops of the machine |
| `Fork` | `fork`, `duppage`, `cow_entry`, `do_tlb_mod` |
| `Spawn` (extends `Fork`) | `spawn`, `init_stack`, `elf_load_seg`, composed with `Fork` |
| `Shell` | `sh.c`, `libmain`, `exit`, `wait`, user IPC, the job table |
| `TailQueueProofs`, `EnvSchedProofs`, `RunQueueProofs` | theorems about the queue, the scheduler and the envs |
| `PmapProofs` | theorems about pages, tables and the TLB |
| `PipeProofs` | theorems about pipes |
| `ForkProofs`, `ForkMemoryProofs` | theorems about `fork`, copy-on-write and `spawn` |
| `ShellProofs` | theorems about results and jobs |
| `MCEnvSched`, `MCPmap`, `MCPipe`, `MCFileServer`, `MCSpawn`, `MCShell` | constants for TLC |

Definitions named `f_Something` next to a definition `f` are deliberate errors
("Mutant: ..."). Nothing uses them; putting one in the place of `f` must break
the property PROJECT.json pairs it with, which shows that the property looks at
that code.

### EnvSched

A step is a whole handler: a system call or the clock interrupt, including the
call of `schedule` it ends in. The user code of `curenv` decides which call
comes next, with any argument. `env_sched_list` is a record of the head's two
pointers and each env's two links; `TAILQ_REMOVE` reads the links of its
argument whether or not it is in the queue, as the macro does, and a store
through a NULL link is a kernel fault. `panicked` says why the kernel stopped.
Calls that return an error before they change anything are stutters.
`env_free_list` is a sequence, because only its head is used.

Three calls are accepted by the kernel although the scheduler cannot cope with
them: destroying an env that is not runnable, suspending oneself, and waking a
child that is blocked in `ipc_recv`. The constant `Liberties` says which of
them callers take. The empty set is the discipline under which the invariants
hold; `destroy_blocked` shows the invariant of `kern/env.c:14` broken by the first
liberty, the other two break it as well (section 5).

### Pmap

Page tables are the content (`mem`) of physical pages, so freeing a table too
early, handing out a page twice, not clearing it, or letting user code write it
shows up as a corrupted table. A page has `NSlot` words; the last directory
slot maps the directory onto itself, as UVPT does. The TLB is a set of entries
for pairs of pages; a refill may overwrite any one entry (`tlbwr` takes a
random slot). The functions of `pmap.c` are operators on a record of memory, a
handler composes them and commits the result. `env_free`, a loop of
`page_remove` and `page_decref`, is written in closed form: `drops` counts the
references each page loses. The free list is a set: which page is allocated is
arbitrary. Any live env may name any other in a call, which is more than
`envid2env` permits. `lost` records the pages two failing calls drop.

### Pipe

Each memory access of the library that another process can see, and each
system call, is a step. `env_runs`, which `_pipe_is_closed` compares to learn
whether it was interrupted, is the flag `undisturbed`: every step of another
process clears it, because on one processor a step of another process means a
switch away and back. The processes start after `pipe()` and the forks that
follow it, all with both ends open. Bytes are serial numbers, so loss,
repetition and overtaking are visible. `env_destroy` may take a process in the
middle of anything.

### FileSys and FileServer

A block holds one of a few kinds of contents (File structures, block numbers, a
client's data, the super block, the bitmap, zeros), sizes are counted in blocks,
a path is the sequence of its elements. An operator that stands for a C function
takes the record `s` of the request and returns it with the result in `s.r`;
`Then` and `Try` are "if it failed, return" and "if it failed, do this".
`s.mem` is how many pages the kernel can still give, so every allocation can
fail. Reading bytes as something they are not (a File structure in a block that
was recycled) stops the model with "misread", because what the program does then
is arbitrary.

`Serve` is one request with its whole handler; the block writes it issues are
queued in `out` and reach the disk one by one (`ide_write`) before the answer is
sent (`Reply`), so other processes write to the pages they share with the server
in between. An answer that carries a page may find no memory for the client's page
table: `sys_ipc_try_send` has woken the client by then, which goes on without the
page, and the assertion in `ipc_send` stops the server. A client is at a place in the library: what it asks for, and what
`AfterReply` does with the answer. `Crash` stops the machine at any step, with a
directory block written in part; `read_super` and `check_write_block` boot it
again. `freed` and `odd` are history variables: a block has been freed; something
happened that the file system does not guard against: a file shrunk while another
process has it open, a directory removed that is not empty, a directory opened as
a file or the reverse, a block given out with old contents, an `ftruncate` that
had to be undone, a stop during `check_write_block`. The properties say what holds
until then. `ServerStops` lists why the server may stop and, for each reason, what must
have been the case: memory out, a client gone, a hole in a file, and so on.

### Fork and Spawn

A page table maps an address to a page and permission bits; pages hold a few
bytes. Every system call of `fork` and `spawn` is a step, and so is a store, which
goes through `do_tlb_mod` and `cow_entry` when the page is copy-on-write. While a
process is in `fork` it keeps writing to its stack (`Stack`). `view` is a history
variable: what a process wrote, or was given when it was made, against which
`Isolation` compares its memory. A system call for the child may fail for want of
a page table (`MaxFaults`), `exofork` for want of an env, and either caller may be
destroyed. `elf_load_seg` is the sequence of calls of its callback, and
`ChildComplete` compares the memory that results with `Image`, which reads the
segments byte by byte. `LoaderAssumption` says the same of the sequence of calls
itself, for the programs at hand: TLC evaluates it in the run, and the proofs start
from it. `SharedStaysShared` leaves out `Fd`, where each process that is inside
`spawn` has a file of its own open. `do_tlb_mod`'s exception stack, and reading the program
file, are left out.

### Shell

A line is a sequence of tokens. A shell process is a position in the line with the
words read so far; `fork` copies it. A word is a program that returns 0 or 1 from
`main`, one that calls `exit`, a name that is no program, or `jobs`, `kill`, `fg`
(about job 1). Redirection stands for a few requests to the file server, `>` for
all kinds of it. IPC is modelled as it is: a sender waits until its addressee
receives, and a receiver takes what comes, so the file server's answer and a
child's result can be mistaken for each other. `sys_kill_job` does not look whether
`envid2env` found the process of the job; when it did not, because spawn had failed or
the process has ended and the job does not know, the pointer is uninitialised and any
process is destroyed. `Meaning` is what a line should do by
the usual reading of `;`, `&&`, `||`, `|`.

## 3. Runs

| Run | Instance | Shows |
|---|---|---|
| `envs` | 3 slots, 3 asids, 4 allocations, no liberties | run queue, receivers, ids and messages; the kernel does not fault |
| `envs_live` | 3 slots, 2 asids, priorities 1 and 2 | slots and asids exact although allocation fails half way; slices; no starvation; refinement of `RunQueue` |
| `destroy_blocked` | as `envs`, callers destroy blocked envs | **violated**: the run queue is corrupted |
| `memory` | 5 pages, 2 asids, two virtual pages of different tables, receivers that gave one of them or 0, which shares a TLB entry with the first | counts exact and no kernel assertion fails, one use per page, tables not writable, TLB coherent and without duplicates, no mapping lost when pages replace others, tables come and go and memory runs out, nothing but a message maps a page at 0 |
| `pipe` | reader, writer, buffer of 2, 3 bytes | FIFO without overrun, no false end of file report, reads and writes end |
| `pipe_share` | 2 processes and a child, dup over an open number | counts agree at rest; no false report of a closed pipe except during a fork (`user/testpiperace.c` is the dup case) |
| `pipe_eof_race` | as `pipe` | **violated**: read returns 0 with bytes in the buffer |
| `files` | 9 blocks, 1 direct and 2 indirect per file, 2 Files in a block, 2 clients, 3 calls, one stop | bitmap exact, clients map their file, the disk boots until something is freed, nothing else stops the server |
| `files_writers` | the same disk, 2 clients that open, write and close, 5 calls, no stop | close reaches the disk, also with two writers of one file |
| `files_hole` | the same | **violated**: truncating a file with a hole stops the server |
| `spawn` | 3 envs, 7 pages of two bytes, 2 calls of fork or spawn, one fault | isolation, sharing, handlers, complete children, nothing left behind |
| `shell` | 27 sessions of one or two lines | lines run as said and in order, results from the right process, a job done only when its process is and always then if its program returns from `main`, the prompt comes back |

Bounds. Three envs are enough for a queue with a head, a middle and a tail, for
a receiver and two rival senders, and for a parent with two children; four
allocations let a slot be used twice (`MaxAllocs`). `GenMod` is larger than
`MaxAllocs`, so ids do not repeat in the runs; `StaleIdRejected` says so in its
hypothesis. Five pages hold two directories, two tables and one page to share,
or one directory, one table and three pages, or one directory, two tables and
two pages; running out of memory happens in every shape. `RefMod` is larger
than the number of mappings the instance can make. Of the three addresses of `memory`,
two share a table and a TLB entry, and the two tables share one at `UVPT`.
Three bytes through a buffer of two make the writer wait and the buffer index
wrap; the positions themselves do not reach `PosMod`. (With `RefMod` or `PosMod`
within reach `RefCountInv` and `ReadReturns` fail: neither counter is guarded in
the code, see the hazards.) Pages and asids are interchangeable in `MCPmap`, and
the properties name none of them, so the symmetry is sound; likewise the clients
of `MCFileServer` and the envs other than the first in `MCSpawn`.

The host tree of `files` has a file with an indirect block and a directory with a
file, which leaves one block free: the disk is full when a file grows. Three
library calls are open, write or ftruncate, and a second process's open or remove;
`close` is not counted, so every file can be closed. `files_writers` gives up removal,
`ftruncate` and the stop of the machine for two calls more: both clients may open the same
file, write and close, in any order. A call during which the
kernel has no page at all (`MemLeft` 0) reaches the failure paths. In `spawn`,
seven pages let memory run out, three envs let slots run out (some start taken),
and the three programs have a segment that starts inside a page, some that end
inside a page and one with a whole page of zeros after the pages of the file. The lines of `shell` take every
branch of `parsecmd` and `runcmd`, with jobs that return, that cannot be spawned, and
that call `exit` inside `main`, before or after they are in the table; fourteen processes
are more than any of them makes.

The kernel may stop when all envs are blocked, which is not an error; the other
models stop when a panic is reached or all processes have ended. Hence
`CHECK_DEADLOCK FALSE`.

Fairness. `EnvSched`: only the clock interrupt is fair, the timer is
hardware; user code may do anything or loop. `Pipe`: a process inside a call
goes on (weak fairness: the scheduler's `NoStarvation`), and the counting loop
of `_pipe_is_closed` is not interrupted in every single turn (strong fairness:
a time slice is much longer than the two counts). No process is obliged to
call, close or end. `Shell`: every process that can go on does, and the file
server answers (weak fairness: round robin, and `ipc_send` tries again until it
succeeds); nobody has to type. The other models state no liveness.

## 4. Proofs

`TailQueueProofs` proves what the macros do to a queue given as pointers:
`TAILQ_INIT` represents the empty queue, insertion at either end adds one
element, removal takes out a member, and the addresses involved exist.
`RemoveTwice` is the fact `sys_ipc_recv` rests on: removing the same element
again, before anything else touches the queue, changes nothing.

`EnvSchedProofs` proves, for every `NENV`, `NASID`, `GenMod`, set of
priorities and values:

* `TypeCorrect`: `Spec => []TypeOK`, whatever liberties callers take;
* `Invariance`: `Spec => []IInv` under `Liberties = {}`, where
  `IInv` is the conjunction of `TypeOK`, `SchedListInv`, `CurenvIsHead`,
  `ReceiverIsBlocked`, `FreeListInv` and `NoKernelFault`. The parts need each
  other: `schedule` after `sys_ipc_recv` is harmless because `curenv` is a
  member of the queue (`CurenvIsHead`, `SchedListInv`); a wake-up inserts an env
  that is not in the queue because receivers are blocked
  (`ReceiverIsBlocked`); a new env is not in the queue because its slot was
  free (`FreeListInv`);
* `SchedListCorrect`, `CurenvHeads`, `ReceiversBlocked`, `FreeListCorrect`,
  `KernelFaultFree`: the single properties.

Its last section (resources, under `Liberties = {}`) adds to `IInv` that every id ever
made is at most as old as the counter of `mkenvid`, and that priorities are
positive: `StaleIdRejected` is not inductive without the first, `SlicesLeft`
not without the second. `AsidsExact`, `StaleIdsRejected`, `SlicesBelongToCurenv`
follow, and `MessagesKept`, an action property.

`RunQueueProofs` proves the refinement: the sequence read off the links
(`QueueSeq`) of a well-formed queue is the queue it represents (`ReachedIs`), each
handler changes it by a removal and an insertion, and every step of the kernel is
a step of `RunQueue` or leaves it alone (`TurnsInOrder`). This is the safety
part, `Turns`; its fairness is checked by TLC (`ImplementsRunQueue`).

`PmapProofs` proves the properties of `Pmap` for any number of pages, slots per table and
address spaces. The invariant `Inv` is stated on parameters, because a handler composes
several functions of `pmap.c` and the invariant has to be carried through each:

* `Struct`: every page is one directory, one table of one address space, or a user page
  (`Roles`); the self-map slot of a directory points at itself and is read-only, tables
  hold no user data (`Contents`). Without it nothing could be said about a count: a store
  through a mapping of a table would change mappings.
* `Count`: `pp_ref` is the cardinality of the set of references, and the free list is the
  set of pages without any; pages that a failing call dropped (`lost`) are in neither.
  One lemma each says that an entry set or cleared changes the set by one element.
* `Coherent`: each valid half of a TLB entry is what the tables of its asid say, and no two
  entries are for the same pair. That `tlb_invalidate` follows every change of an entry,
  and that `env_free` leaves no entry behind for the next owner of the asid, is what it needs.

`TypeCorrect`, `RefCountExact`, `TablesNeverWritten` and `TlbNeverStale` follow. For the
action property `MappingsAreKept` every function also has a lemma on which mappings it
keeps. `InvalidMemoryOnlyFromMessages` needs one on which entries it can change (`Barred`):
a message may map a page at address 0, which the code does not prevent (section 5), but
no fault, no other call and no reuse of an asid changes anything in invalid memory. All
are proved as long as no page has `RefMod` references (`RefsBounded`): `pp_ref` is a
`u_short` and nothing in the code guards it. In the runs the hypothesis holds, since
`TypeOK` and `RefCountInv` imply it.

`PipeProofs` proves `PInv`: the buffer is mapped behind every open descriptor and
elsewhere only at the number a close or dup is at work on; a child that is half
made has a prefix of its parent's pages; a count `_pipe_is_closed` has taken is
still right as long as nobody else has run. From this: the buffer is mapped once
per open descriptor at rest (`CountsAgree`), an answer "closed" is true unless a
child is half made (`ClosedTruthfully`), and without forks it stays true
(`ClosedForGood`, `Born = Proc`). `FirstInFirstOut` is `Fifo` for one reader and
one writer (the theorem's hypothesis; two writers of one pipe do lose bytes,
section 5). The invariant behind it reasons with positions that do not wrap: `R` and `W` exist
whose remainders are `p_rpos` and `p_wpos`, at most `PIPE_SIZE` apart, and the bytes
from `R + 1` on are in the buffer. It needs `PIPE_SIZE` to divide `PosMod`
(`SizeAssumption`), which 32 and 2^32 do.

`ForkProofs` proves `Basics` for any number of processes, pages and programs: where
a process can be and with what in hand (`Frames`), that a child has one maker
(`Kids`), what the tables hold (`Tables`, `Perms`), which places are used for a
time only (`Temps`), at which page `fork` or `spawn` is (`Places`) and that memory
suffices (`Fits`: `NewPage` finds a name because fewer than `MaxPage` are in use).
`SharedForGood` and `CleansUp` follow. `ForkMemoryProofs` adds three invariants:

* `Handlers`: a process with a copy-on-write page has its handler registered, the
  child of a `fork` before it is started. `HandlersReady` follows.
* `Sole`: a private page that somebody writes to is mapped once, except the one
  `duppage` is freezing and the one `spawn_mapper` is filling, which parent and
  child share for a moment. This is what makes the order of `duppage` (child first,
  then parent) correct: the child's page is settled only when the parent's is frozen.
* `Contents`: what pages hold. `Views`: a process finds its view, and a child of
  `fork` has its parent's view of the pages before the one at work; `Loaded`: the
  child of `spawn` has, page by page, what the last of the calls made so far left.

`Isolated` (`Isolation`) and `ChildAsDescribed` (`ChildComplete`) follow. What the
second takes from `elf_load_seg` is `LoaderAssumption`: the last call for a page
leaves what the segments say. That is a fact about data (a fold over the segments),
for which the prover has no induction; TLC evaluates it for the programs of the
run. The rest, that the steps of `spawn`, interleaved with everybody else, carry the
calls out, is proved.

`ShellProofs` proves `ResultsRight` (`ResultIsChilds`) and `JobsRight` (`JobsExact`) for any
sessions and any number of processes. The invariant says who may be in `ipc_send` to whom:
the child of a shell that runs a program is that program, with the same words (`Guests`); as
long as the program has not sent its result its shell is waiting for it, or was misled by an
answer of the file server, which only one with a file can be (`Hosts`, `Clients`); a shell
that owes its parent a result is the only one, and the parent waits (`Askers`). A result that
arrives is therefore the right one (`Results`). `kill` with an uninitialised pointer may
destroy any process, also the shell itself, and breaks none of this. The table of jobs
(`Table`) needs more: a job is in it once, the process of a job that is not done has not ended
unless its program calls `exit` inside `main`, and neither has the program of a shell that
has still to add its job. `JobsRight` is about all programs, also about those that leave
inside `main`; its one hypothesis, without which it is false, is that `kill` is not run while
job 1 is Running and its process cannot be found (`JobsFound`). In the run `shell` this is
so in all sessions but two, which have one job each: what `kill` then destroys is no other
job, and `JobsExact` holds there too.

The assumptions are those named in the modules: positive sizes, finite sets of
envs, processes and addresses, positive priorities, enough pages for the first
process, and the hypotheses given above. Every invariant was checked by TLC on the
instance of its run before it was proved.

Model-checked only:

* `FileServer`: `FileSys` and `FileServer` declare recursive operators, and the loops of the
  file system are folds, for which the prover has no induction.
* `PlainRunAsSaid` and `InOrder` of `Shell`: the first compares with `Meaning`, a recursive
  function over the line; the second is not true of every line (a job with a redirection
  before its `&` counts as a foreground command in it), so it is a statement about the lines
  of the run.
* `elf_load_seg` against `Image`, for want of induction over data.
* `NoStarvation`, `ReadReturns`, `WriteReturns`, `ReturnsToPrompt` and the fairness of
  `RunQueue`: liveness is out of the prover's reach.

A caution about `EXCEPT`: the proof system reads `@` in a second update as the value before
the first one, so the modules that are proved about use `@` only where the two agree
(`run_kill` in `Shell` is written as two nested updates for this reason).

## 5. Findings and known issues

Three runs show the code disagree with a comment of its own (`PROJECT.json` quotes
the lines): the run queue is corrupted when a blocked env is destroyed; `pipe_read` can report end of file with bytes left; truncating a file with a hole
stops the file server.

Other behaviour met while modelling. It follows from the models, with the instance
changed where that is said, but has no run of its own:

* Run queue: suspending oneself with `sys_set_env_status` (`Liberties <-
  SuspendsSelf`), and waking a child blocked in `ipc_recv` (`WakesReceivers`),
  break `SchedListInv` like `destroy_blocked`.
* A receiver that passed 0 for "no page" (`syscall_all.c:357`) is sent one all the same
  when the sender gives a page: it is mapped at address 0, where no system call of the
  receiver removes it. `memory` does this; the counts and the TLB stay right.
* `sys_ipc_try_send` has woken the receiver when the page part fails. For an answer of the
  file server this means a client without the page it was promised and a server that stops
  (`ServerStops`, "no table for the page").
* During a `fork` an open pipe looks closed to a third process: the child has the
  descriptor and not yet the buffer (`ClosedIsTrue` with the instance of
  `pipe_share`). Two writers of one pipe lose bytes.
* File server: a stop of the machine during `check_write_block`, which is run at
  every boot, loses the super block. After a block has been freed a stop can leave
  a file with a block the bitmap calls free, and reading it panics at the next
  boot. `sync` writes only blocks marked dirty, which directories and bitmap never
  are. A client that is destroyed during its request takes the server with it.
  An `open` that cannot map a block leaves its descriptor open. Removing or
  truncating a file that is open elsewhere, removing a directory that is not
  empty, and opening a directory for writing are all accepted.
* `fsformat` does not check that the image has room for the tree.
* `spawn`: the words before the strings end in a pointer where the comment says
  0 (`spawn.c:62`). A segment that starts inside a page and whose file part ends
  before that page while its memory does not would have the page mapped over;
  the linker script makes none. A maker that is destroyed leaves a child that is
  never runnable nor freed.
* Shell: after a failing left side `&&` skips one token and runs the left side
  again (`false && true` runs `false` twice); after a successful one `||` also
  skips what follows a `;`. A program that calls `exit`, or a left side that is no
  program, sends no result and the shell waits for ever. `a > f ; b` redirects `b`
  too. While a redirected file is closed its answer and the program's result can
  be swapped, so `false > f && true` may run `true`. `kill` leaves the shell copy
  that waits for the job's result blocked; `kill` of a job whose program could not
  be spawned, or ended before it was added, uses an uninitialised pointer. A job whose program
  calls `exit` inside `main` can end before it is added, and is then Running for ever. A process whose parent has ended never
  ends, because `user_panic` sends to the parent as well.

`ReadReturns` is not claimed for a process that dups without end: an answer taken
in the middle of each dup says "open", and the reader looks again.

## 6. Not modelled

* Exception entry and context switch: assembly, assumed to make handlers atomic
  and to resume the env it interrupted. Register contents generally.
* Boot-time memory setup and the kernel's self tests.
* The IDE port protocol (a transfer is a step), console I/O, text formatting and
  the string library, system call stubs: pure I/O, or no state that another part
  depends on.
* `fd_alloc`, `seek`, `readn`, `stat` and reading files: they change only an
  offset or a number private to a process.
* The page of a request to the file server that cannot be mapped for want of a page table:
  it can only be the first request of all, since the table of the request address stays.
* In the shell: quotes, backquotes, `echo`, history and line editing (text), a
  `fork` that fails, programs' own use of files, job numbers other than 1.
* User commands: straight-line programs over the file library. Host tools other
  than `fsformat`.

## 7. Plan

1. The history file of the shell as a client of `FileServer`; several job numbers, with
   `InOrder` restated for lines with redirections.
2. A `FileSys` in which each round of a loop is a step of its own, so that `BitmapExact`
   can be proved step by step, by the argument of `PmapProofs` (one role per block),
   instead of by induction over a fold.
