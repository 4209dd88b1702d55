-------------------------------- MODULE MCPmap --------------------------------
(* Memory management on a small instance. *)
EXTENDS Pmap, TLC

\* Address 0.
Bottom == {<<0, 0>>}

\* Two legal pages of different page tables, whose tables share a TLB entry at UVPT;
\* the first one shares its table and its TLB entry with address 0.
OnePerTable == {<<0, 1>>, <<1, 2>>}

\* The addresses receivers give, 0 included.
OnePerTableOr0 == OnePerTable \cup Bottom

Interchangeable == Permutations(Page) \cup Permutations(Asid)
==============================================================================
