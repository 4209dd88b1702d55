------------------------------- MODULE MCSpawn -------------------------------
(* Instance of Spawn: two-byte pages, programs that take every path.        *)
EXTENDS Spawn

seg(va, memsz, writable, bytes) == [va |-> va, memsz |-> memsz, writable |-> writable, bytes |-> bytes]
program(elf, fits, segs) == [elf |-> elf, fits |-> fits, args |-> <<9, 9>>, segs |-> segs]

\* A text that starts inside a page; data of which the page is not full; data with a page
\* of zeros after those of the file; no program at all; too many arguments.
MCPrograms ==
  {program(TRUE, TRUE, <<seg(1, 3, FALSE, <<3, 4, 5>>)>>),
   program(TRUE, TRUE, <<seg(0, 1, FALSE, <<3>>), seg(2, 2, TRUE, <<4>>)>>),
   program(TRUE, TRUE, <<seg(0, 4, TRUE, <<3>>)>>),
   program(FALSE, TRUE, <<>>), program(TRUE, FALSE, <<>>)}
Symmetry == Permutations(Env \ {First})
=============================================================================
