------------------------------ MODULE MCEnvSched ------------------------------
(* The process core on small instances. *)
EXTENDS EnvSched

\* A caller that keeps the discipline, and callers that do not.
NoLiberties == {}
DestroysBlocked == {"destroyBlocked"}
SuspendsSelf == {"suspendSelf"}
WakesReceivers == {"wakeReceiver"}
==============================================================================
