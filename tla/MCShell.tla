------------------------------- MODULE MCShell -------------------------------
(* Lines for the shell. *)
EXTENDS Shell

\* Lines that take every way through parsecmd and runcmd.
Alone ==
  {<<"true", ";", "false", ";", "true">>, <<"false", "||", "true", "&&", "false">>,
   <<"true", "||", "false", "&&", "true">>, <<"true", "&&", "false", "||", "true">>,
   <<"false", "&&", "||", "true">>, <<"false", "&&">>, <<"true", "||", "false">>,
   <<"false", "|", "true", "||", "true">>,
   <<"true", "&", "false", "||", "true">>, <<"true", ">", "none", "&&", "true">>,
   <<"true", ">", "none">>, <<"true", ">">>, <<"false", ">", "none", "&&">>,
   <<"false", "&&", "true">>, <<"none", "||", "true">>, <<"quit">>,
   <<"kill">>, <<"fg">>}

\* A job in the background, and what may be typed after it.
Job == <<"false", "&", "true">>
Other == {<<"jobs">>, <<"kill">>, <<"fg">>, <<"none", ";", "true">>}

\* A job that may end before it is in the table, and the commands about it.
Quits == <<"quit", "&">>

MCSessions ==
  {<<l>> : l \in Alone} \union {<<Job, l>> : l \in Other}
  \union {<<<<"none", "&">>, Job>>, <<<<"none", "&">>, <<"kill">>>>}
  \union {<<<<"quit", "&", "true">>>>} \union {<<Quits, l>> : l \in {<<"kill">>, <<"fg">>}}
=============================================================================
