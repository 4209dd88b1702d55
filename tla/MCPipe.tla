-------------------------------- MODULE MCPipe --------------------------------
(* A pipe between two or three processes. *)
EXTENDS Pipe

\* No dup, and a dup of descriptor 0 over descriptor 1, which closes the latter.
NoDup == {}
DupOver == {<<0, 1>>}
==============================================================================
