------------------------------- MODULE RunQueue -------------------------------
(***************************************************************************)
(* What the scheduler promises: the runnable envs wait in one FIFO, the    *)
(* running env is at its front, it goes to the back when its turn ends,    *)
(* and an env that becomes runnable joins at the back.  Nothing else       *)
(* changes the order.                                                      *)
(***************************************************************************)
EXTENDS Sequences, Naturals

CONSTANTS Env, Nobody

VARIABLES ready,    \* the runnable envs, in the order of their turns
          running   \* the env on the processor, or Nobody

Init == ready = <<>> /\ running = Nobody

FrontOr(s) == IF s = <<>> THEN Nobody ELSE Head(s)

\* While nothing runs yet, a new env is put in front.
Create(e) ==
  /\ running = Nobody
  /\ ready' = <<e>> \o ready
  /\ UNCHANGED running

Start == running = Nobody /\ running' = FrontOr(ready) /\ UNCHANGED ready

Wake(e) ==
  /\ running # Nobody
  /\ \A i \in DOMAIN ready : ready[i] # e
  /\ ready' = Append(ready, e)
  /\ UNCHANGED running

\* Another env leaves the FIFO; the order of the rest is kept.
Leave(e) ==
  /\ running \notin {e, Nobody}
  /\ \E k \in 1 .. Len(ready) :
       /\ ready[k] = e
       /\ ready' = [i \in 1 .. Len(ready) - 1 |-> IF i < k THEN ready[i] ELSE ready[i + 1]]
  /\ UNCHANGED running

EndTurn ==
  /\ running # Nobody /\ ready # <<>>
  /\ ready' = Append(Tail(ready), running)
  /\ running' = Head(ready')

\* The running env blocks or ends.  It keeps the processor only to halt.
Stop ==
  /\ running # Nobody /\ ready # <<>>
  /\ ready' = Tail(ready)
  /\ \/ ready' # <<>> /\ running' = Head(ready')
     \/ ready' = <<>> /\ running' \in {running, Nobody}

Next ==
  \/ Start \/ EndTurn \/ Stop
  \/ \E e \in Env : Create(e) \/ Wake(e) \/ Leave(e)

Turns == Init /\ [][Next]_<<ready, running>>
Spec == Turns /\ WF_<<ready, running>>(EndTurn)
==============================================================================
