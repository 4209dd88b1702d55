----------------------------- MODULE MCFileServer -----------------------------
(* A file server with a disk of a few blocks and one or two clients. *)
EXTENDS FileServer

Symmetry == Permutations(Clients)

\* A file with an indirect block, and a directory with an empty file.
HostTree == { << <<"a", 2, <<>>>>, <<"d", -1, << <<"b", 0, <<>>>> >>>> >> }

Opens == { <<<<"a">>, {"wr", "append"}>>,
           <<<<"n">>, {"wr", "creat"}>>,
           <<<<"d", "b">>, {"wr", "creat", "trunc"}>>,
           <<<<"d">>, {"mkdir"}>>,
           <<<<>>, {}>> }
\* The same file from its start, from its end, and a new one.
WriterOpens == { <<<<"a">>, {"wr"}>>,
                 <<<<"a">>, {"wr", "append"}>>,
                 <<<<"n">>, {"wr", "creat"}>> }
Removes == { <<"a">>, <<"d">>, <<"d", "b">> }
=============================================================================
