------------------------------ MODULE PipeProofs ------------------------------
(***************************************************************************)
(* What _pipe_is_closed and close, dup and fork promise about descriptors, *)
(* proved for any number of processes and descriptors, and that a pipe     *)
(* with one reader and one writer hands on its bytes in order.             *)
(***************************************************************************)
EXTENDS Pipe, TLAPS, FiniteSetTheorems

ReadPC  == {"read", "read_copy", "read_inc", "read_ask", "read_asked"}
WritePC == {"write", "write_copy", "write_inc", "write_ask", "write_asked"}
AskedPC == {"asked", "read_asked", "write_asked"}
DupPC   == {"dup_close", "dup_close_data", "dup", "dup_fd"}
ForkPC  == {"fork_fd", "fork_data"}
PC      == ReadPC \cup WritePC \cup AskedPC \cup DupPC \cup ForkPC
             \cup {"ask", "close_data", "idle", "unborn", "embryo", "gone"}

Frame == [pc : PC, fd : FdNum, to : FdNum, n : Nat, i : Nat, tmp : Nat, kid : SUBSET Proc]

\* The type of the state: pages, buffer, frames, flags.  A byte is its serial
\* number.
PageType ==
  /\ fdpage \in [Proc -> [FdNum -> End \cup {"none"}]]
  /\ data \in [Proc -> SUBSET FdNum]
BufType ==
  /\ p_rpos \in Nat /\ p_wpos \in Nat
  /\ p_buf \in [0 .. PIPE_SIZE - 1 -> Nat]
  /\ sent \in Seq(Nat) /\ got \in Seq(Nat)
FlagType == undisturbed \in [Proc -> BOOLEAN] /\ told \in [Proc -> BOOLEAN]
TypeOK == PageType /\ BufType /\ FlagType /\ frame \in [Proc -> Frame]

\* An open descriptor has the buffer mapped behind it, and the buffer is mapped
\* nowhere else but at the number a close or a dup is about to give up or open.
\* fork makes a child in this state, so only the child itself is excepted.
Backed(p) == \A x \in FdNum : fdpage[p][x] # "none" => x \in data[p]
AtRest(p) ==
  \A x \in data[p] : fdpage[p][x] = "none" =>
    \/ frame[p].pc = "close_data" /\ x = frame[p].fd
    \/ frame[p].pc \in {"dup_close_data", "dup_fd"} /\ x = frame[p].to
Mapped == \A p \in Proc : frame[p].pc # "embryo" => Backed(p) /\ AtRest(p)

\* The descriptor of a call stays open during the call, the one dup is to open
\* is closed until it does; nothing is mapped where nobody lives.
InCall(p) ==
  /\ frame[p].pc \in ReadPC \cup WritePC \cup AskedPC \cup DupPC \cup {"ask"}
       => fdpage[p][frame[p].fd] # "none"
  /\ frame[p].pc = "close_data" => fdpage[p][frame[p].fd] = "none"
  /\ frame[p].pc \in DupPC => frame[p].to # frame[p].fd
  /\ frame[p].pc \in {"dup_close_data", "dup", "dup_fd"} => fdpage[p][frame[p].to] = "none"
  /\ frame[p].pc = "dup_fd" => frame[p].to \in data[p]
  /\ frame[p].pc \in {"unborn", "gone"} => data[p] = {} /\ \A x \in FdNum : fdpage[p][x] = "none"
InCalls == \A p \in Proc : InCall(p)

\* A child is made by one parent, and not RUNNABLE until it is made.
Kids ==
  /\ \A p \in Proc : frame[p].kid # {} => frame[p].pc \in ForkPC
  /\ \A p \in Proc : frame[p].pc \in ForkPC =>
       /\ frame[p].i \in FdNum
       /\ \E q \in Proc : frame[p].kid = {q}
  /\ \A p, q \in Proc : q \in frame[p].kid => frame[q].pc = "embryo"
  /\ \A p, q \in Proc : p # q => frame[p].kid \cap frame[q].kid = {}

\* How much of the parent fork has copied.
Copied(p, q) ==
  /\ frame[p].pc = "fork_fd" =>
       /\ \A x \in FdNum : fdpage[q][x] = IF x < frame[p].i THEN fdpage[p][x] ELSE "none"
       /\ data[q] = {}
  /\ frame[p].pc = "fork_data" =>
       /\ fdpage[q] = fdpage[p]
       /\ data[q] = {x \in data[p] : x < frame[p].i}
Copying == \A p \in Proc : \A q \in frame[p].kid : Copied(p, q)

\* The first count is still right when nobody else has run since.
Counted ==
  \A p \in Proc : undisturbed[p] /\ frame[p].pc \in AskedPC =>
    frame[p].tmp = pageref_fd(fdpage[p][frame[p].fd])

\* The inductive invariant.
Shape == Kids /\ InCalls /\ Mapped /\ Copying
PInv == TypeOK /\ Shape /\ Counted

------------------------------------------------------------------------------
(* Frames and descriptor numbers *)

\* The frames of a process outside any call are frames.
LEMMA IdleIsFrame ==
  /\ Idle \in Frame /\ Unborn \in Frame /\ Embryo \in Frame /\ Gone \in Frame
  BY FdAssumption DEF Idle, Unborn, Embryo, Gone, Frame, PC

\* Their fields.
LEMMA IdleFields ==
  /\ Idle.pc = "idle" /\ Idle.kid = {} /\ Idle.i = 0
  /\ Gone.pc = "gone" /\ Gone.kid = {}
  /\ Embryo.pc = "embryo" /\ Embryo.kid = {}
  /\ Unborn.pc = "unborn" /\ Unborn.kid = {}
  BY DEF Idle, Unborn, Embryo, Gone

\* pageref counts a finite set.
LEMMA CountsAreNat ==
  ASSUME NEW x PROVE pageref_fd(x) \in Nat /\ pageref_pipe \in Nat
  <1>1. IsFiniteSet(Proc \X FdNum)
    BY ProcAssumption, FdAssumption, FS_Product
  <1>2. /\ IsFiniteSet({m \in Proc \X FdNum : fdpage[m[1]][m[2]] = x})
        /\ IsFiniteSet({m \in Proc \X FdNum : m[2] \in data[m[1]]})
    BY <1>1, FS_Subset
  <1> QED BY <1>2, FS_CardinalityType DEF pageref_fd, pageref_pipe

\* Where a process neither opens, closes nor forks.
QuietPC == ReadPC \cup WritePC \cup AskedPC \cup {"ask", "idle"}

\* The frames that calls and their steps make.
LEMMA CallFrame ==
  ASSUME NEW pc \in PC, NEW f \in FdNum, NEW to \in FdNum, NEW n \in Nat
  PROVE  /\ [Idle EXCEPT !.pc = pc, !.fd = f] \in Frame
         /\ [Idle EXCEPT !.pc = pc, !.fd = f, !.n = n] \in Frame
         /\ [Idle EXCEPT !.pc = pc, !.fd = f, !.to = to] \in Frame
  BY IdleIsFrame DEF Frame

\* The frames of a call that goes on.
LEMMA GoOnFrame ==
  ASSUME NEW g \in Frame, NEW pc \in PC, NEW t \in Nat
  PROVE  /\ [g EXCEPT !.pc = pc] \in Frame
         /\ [g EXCEPT !.pc = pc, !.tmp = t] \in Frame
         /\ [g EXCEPT !.tmp = t, !.pc = pc] \in Frame
         /\ [g EXCEPT !.pc = pc, !.i = @ + 1, !.tmp = t] \in Frame
  <1>1. g.i \in Nat /\ g.i + 1 \in Nat
    BY DEF Frame
  <1> DEFINE j == g.i + 1
  <1>2. [g EXCEPT !.pc = pc, !.i = j, !.tmp = t] \in Frame
    <2> HIDE DEF j
    <2> QED BY <1>1 DEF Frame, j
  <1> QED BY <1>2 DEF Frame

\* Descriptors are numbered from 0 to LastFd, and fork goes through them in order.
LEMMA FdOrder ==
  /\ 0 \in FdNum
  /\ \A f \in FdNum :
       /\ f \in Nat
       /\ f = LastFd => \A x \in FdNum : x < f \/ x = f
       /\ f # LastFd => f + 1 \in FdNum
       /\ \A x \in FdNum : x < f + 1 <=> x < f \/ x = f
       /\ ~(f < 0)
  <1> DEFINE n == Cardinality(FdNum) - 1
  <1>1. n \in Int /\ FdNum = 0 .. n /\ n = LastFd
    BY FdAssumption, FS_CardinalityType DEF LastFd
  <1>2. 0 \in FdNum
    BY FdAssumption
  <1> HIDE DEF n
  <1> QED BY <1>1, <1>2

\* The frames of fork.
LEMMA ForkFrame ==
  ASSUME NEW g \in Frame, NEW pc \in PC, NEW i \in Nat, NEW q \in Proc
  PROVE  /\ [g EXCEPT !.pc = pc, !.i = i] \in Frame
         /\ [g EXCEPT !.pc = pc, !.kid = {q}] \in Frame
  BY DEF Frame

------------------------------------------------------------------------------
(* A step that moves p to frame g and touches no other process.  The shape   *)
(* of the state is kept if it is kept at p.                                  *)

Own(p, g) ==
  /\ frame' = [frame EXCEPT ![p] = g]
  /\ g \in Frame /\ g.kid = {} /\ g.pc \notin ForkPC \cup {"embryo"}
  /\ frame[p].pc # "embryo"
  /\ \A q \in Proc \ {p} : fdpage'[q] = fdpage[q] /\ data'[q] = data[q]

\* A step of p alone keeps the shape of the state, if it does at p.
LEMMA OwnStep ==
  ASSUME TypeOK, Shape, NEW p \in Proc, NEW g, Own(p, g), (InCall(p) /\ Backed(p) /\ AtRest(p))'
  PROVE  frame' \in [Proc -> Frame] /\ Shape'
  <1>1. frame' \in [Proc -> Frame] /\ frame'[p] = g /\ \A q \in Proc \ {p} : frame'[q] = frame[q]
    BY DEF Own, TypeOK
  <1>2. \A q \in Proc : p \notin frame[q].kid
    BY DEF Own, Shape, Kids
  <1>3. Kids'
    <2>1. g.kid = {} /\ g.pc \notin ForkPC
      BY DEF Own
    <2> QED BY <1>1, <1>2, <2>1 DEF Shape, Kids
  <1>4. InCalls'
    <2>1. ASSUME NEW q \in Proc \ {p} PROVE InCall(q)'
      BY <1>1 DEF Own, Shape, InCalls, InCall
    <2> QED BY <2>1 DEF InCalls
  <1>5. Mapped'
    <2>1. ASSUME NEW q \in Proc \ {p}, frame'[q].pc # "embryo" PROVE (Backed(q) /\ AtRest(q))'
      BY <1>1, <2>1 DEF Own, Shape, Mapped, Backed, AtRest
    <2> QED BY <2>1 DEF Mapped
  <1>6. Copying'
    <2> SUFFICES ASSUME NEW r \in Proc, NEW s \in frame'[r].kid PROVE Copied(r, s)'
      BY DEF Copying
    <2>1. r # p /\ frame'[r] = frame[r] /\ s \in Proc /\ s # p
      BY <1>1, <1>2 DEF Own, Frame, TypeOK
    <2>2. Copied(r, s)
      BY <2>1 DEF Shape, Copying
    <2> QED BY <2>1, <2>2 DEF Own, Copied
  <1> QED BY <1>1, <1>3, <1>4, <1>5, <1>6 DEF Shape

------------------------------------------------------------------------------
(* Reading, writing and asking *)

\* Such a step of p.
Quiet(p, g) ==
  /\ UNCHANGED pageVars
  /\ frame' = [frame EXCEPT ![p] = g]
  /\ g \in Frame
  /\ frame[p].pc \in QuietPC
  /\ g.pc \in QuietPC \cup {"dup", "dup_close"}
  /\ g.kid = {}
  /\ g.pc # "idle" => fdpage[p][g.fd] # "none"
  /\ g.pc \in {"dup", "dup_close"} => g.to # g.fd
  /\ g.pc = "dup" => fdpage[p][g.to] = "none"

\* Such a step keeps the pages in shape.
LEMMA QuietStep ==
  ASSUME TypeOK, Shape, NEW p \in Proc, NEW g, Quiet(p, g)
  PROVE  frame' \in [Proc -> Frame] /\ PageType' /\ Shape'
  <1>1. Own(p, g)
    BY DEF Quiet, Own, pageVars, QuietPC, ReadPC, WritePC, AskedPC, ForkPC
  <1>2. frame'[p] = g /\ fdpage' = fdpage /\ data' = data
    BY DEF Quiet, TypeOK, pageVars
  <1>3. InCall(p)'
    BY <1>2 DEF Quiet, InCall, QuietPC, ReadPC, WritePC, AskedPC, DupPC
  <1>4. (Backed(p) /\ AtRest(p))'
    <2>1. frame[p].pc \notin {"embryo", "close_data", "dup_close_data", "dup_fd"}
      BY DEF Quiet, QuietPC, ReadPC, WritePC, AskedPC
    <2> QED BY <1>2, <2>1 DEF Shape, Mapped, Backed, AtRest
  <1> QED BY <1>1, <1>2, <1>3, <1>4, OwnStep DEF TypeOK, PageType

\* call_read leaves the pages alone.
LEMMA CallReadQuiet ==
  ASSUME TypeOK, Shape, NEW p \in Proc, NEW f \in FdNum, NEW n \in Nat, call_read(p, f, n)
  PROVE  \E g : Quiet(p, g)
  <1> DEFINE g == [Idle EXCEPT !.pc = "read", !.fd = f, !.n = n]
  <1>1. /\ frame \in [Proc -> Frame] /\ frame[p].pc \in QuietPC /\ frame[p].kid = {}
        /\ frame[p].pc # "idle" => fdpage[p][frame[p].fd] # "none"
    BY DEF TypeOK, call_read, At, Open, QuietPC, ReadPC, WritePC, AskedPC, ForkPC, DupPC,
           Shape, Kids, InCalls, InCall
  <1>2. g \in Frame
    BY <1>1, IdleIsFrame, CountsAreNat, CallFrame, GoOnFrame
       DEF PC, ReadPC, WritePC, DupPC, AskedPC, call_read, TypeOK, BufType
  <1>3. frame' = [frame EXCEPT ![p] = g]
    BY <1>1 DEF call_read, Goto, Return, NextByte, At
  <1>4. /\ g.kid = {} /\ g.pc \in {"read"}
        /\ g.pc # "idle" => g.fd = f
    BY <1>1, IdleIsFrame, IdleFields DEF call_read, At, Frame
  <1> HIDE DEF g
  <1>5. UNCHANGED pageVars /\ fdpage[p][f] # "none"
    BY DEF call_read, At, Open
  <1> QED BY <1>1, <1>2, <1>3, <1>4, <1>5 DEF Quiet, QuietPC, ReadPC, WritePC, AskedPC

\* call_write leaves the pages alone.
LEMMA CallWriteQuiet ==
  ASSUME TypeOK, Shape, NEW p \in Proc, NEW f \in FdNum, NEW n \in Nat, call_write(p, f, n)
  PROVE  \E g : Quiet(p, g)
  <1> DEFINE g == [Idle EXCEPT !.pc = "write", !.fd = f, !.n = n]
  <1>1. /\ frame \in [Proc -> Frame] /\ frame[p].pc \in QuietPC /\ frame[p].kid = {}
        /\ frame[p].pc # "idle" => fdpage[p][frame[p].fd] # "none"
    BY DEF TypeOK, call_write, At, Open, QuietPC, ReadPC, WritePC, AskedPC, ForkPC, DupPC,
           Shape, Kids, InCalls, InCall
  <1>2. g \in Frame
    BY <1>1, IdleIsFrame, CountsAreNat, CallFrame, GoOnFrame
       DEF PC, ReadPC, WritePC, DupPC, AskedPC, call_write, TypeOK, BufType
  <1>3. frame' = [frame EXCEPT ![p] = g]
    BY <1>1 DEF call_write, Goto, Return, NextByte, At
  <1>4. /\ g.kid = {} /\ g.pc \in {"write"}
        /\ g.pc # "idle" => g.fd = f
    BY <1>1, IdleIsFrame, IdleFields DEF call_write, At, Frame
  <1> HIDE DEF g
  <1>5. UNCHANGED pageVars /\ fdpage[p][f] # "none"
    BY DEF call_write, At, Open
  <1> QED BY <1>1, <1>2, <1>3, <1>4, <1>5 DEF Quiet, QuietPC, ReadPC, WritePC, AskedPC

\* call_is_closed leaves the pages alone.
LEMMA CallIsClosedQuiet ==
  ASSUME TypeOK, Shape, NEW p \in Proc, NEW f \in FdNum, call_is_closed(p, f)
  PROVE  \E g : Quiet(p, g)
  <1> DEFINE g == [Idle EXCEPT !.pc = "ask", !.fd = f]
  <1>1. /\ frame \in [Proc -> Frame] /\ frame[p].pc \in QuietPC /\ frame[p].kid = {}
        /\ frame[p].pc # "idle" => fdpage[p][frame[p].fd] # "none"
    BY DEF TypeOK, call_is_closed, At, Open, QuietPC, ReadPC, WritePC, AskedPC, ForkPC, DupPC,
           Shape, Kids, InCalls, InCall
  <1>2. g \in Frame
    BY <1>1, IdleIsFrame, CountsAreNat, CallFrame, GoOnFrame
       DEF PC, ReadPC, WritePC, DupPC, AskedPC, call_is_closed, TypeOK, BufType
  <1>3. frame' = [frame EXCEPT ![p] = g]
    BY <1>1 DEF call_is_closed, Goto, Return, NextByte, At
  <1>4. /\ g.kid = {} /\ g.pc \in {"ask"}
        /\ g.pc # "idle" => g.fd = f
    BY <1>1, IdleIsFrame, IdleFields DEF call_is_closed, At, Frame
  <1> HIDE DEF g
  <1>5. UNCHANGED pageVars /\ fdpage[p][f] # "none"
    BY DEF call_is_closed, At, Open
  <1> QED BY <1>1, <1>2, <1>3, <1>4, <1>5 DEF Quiet, QuietPC, ReadPC, WritePC, AskedPC

\* call_dup leaves the pages alone.
LEMMA CallDupQuiet ==
  ASSUME TypeOK, Shape, NEW p \in Proc, NEW f \in FdNum, NEW to \in FdNum, f # to, call_dup(p, f, to)
  PROVE  \E g : Quiet(p, g)
  <1> DEFINE g == [Idle EXCEPT !.pc = IF fdpage[p][to] = "none" THEN "dup" ELSE "dup_close",
                            !.fd = f, !.to = to]
  <1>1. /\ frame \in [Proc -> Frame] /\ frame[p].pc \in QuietPC /\ frame[p].kid = {}
        /\ frame[p].pc # "idle" => fdpage[p][frame[p].fd] # "none"
    BY DEF TypeOK, call_dup, At, Open, QuietPC, ReadPC, WritePC, AskedPC, ForkPC, DupPC,
           Shape, Kids, InCalls, InCall
  <1>2. g \in Frame
    BY <1>1, IdleIsFrame, CountsAreNat, CallFrame, GoOnFrame
       DEF PC, ReadPC, WritePC, DupPC, AskedPC, call_dup, TypeOK, BufType
  <1>3. frame' = [frame EXCEPT ![p] = g]
    BY <1>1 DEF call_dup, Goto, Return, NextByte, At
  <1>4. /\ g.kid = {} /\ g.pc \in {"dup", "dup_close"}
        /\ g.pc # "idle" => g.fd = f
        /\ g.to = to /\ (g.pc = "dup" => fdpage[p][to] = "none")
    BY <1>1, IdleIsFrame, IdleFields DEF call_dup, At, Frame
  <1> HIDE DEF g
  <1>5. UNCHANGED pageVars /\ fdpage[p][f] # "none"
    BY DEF call_dup, At, Open
  <1> QED BY <1>1, <1>2, <1>3, <1>4, <1>5 DEF Quiet, QuietPC, ReadPC, WritePC, AskedPC

\* read_test leaves the pages alone.
LEMMA ReadTestQuiet ==
  ASSUME TypeOK, Shape, NEW p \in Proc, read_test(p)
  PROVE  \E g : Quiet(p, g)
  <1> DEFINE g == IF ~empty THEN [frame[p] EXCEPT !.pc = "read_copy"]
                  ELSE IF frame[p].i > 0 THEN Idle
                  ELSE [frame[p] EXCEPT !.pc = "read_ask"]
  <1>1. /\ frame \in [Proc -> Frame] /\ frame[p].pc \in QuietPC /\ frame[p].kid = {}
        /\ frame[p].pc # "idle" => fdpage[p][frame[p].fd] # "none"
    BY DEF TypeOK, read_test, At, Open, QuietPC, ReadPC, WritePC, AskedPC, ForkPC, DupPC,
           Shape, Kids, InCalls, InCall
  <1>2. g \in Frame
    BY <1>1, IdleIsFrame, CountsAreNat, CallFrame, GoOnFrame
       DEF PC, ReadPC, WritePC, DupPC, AskedPC, read_test, TypeOK, BufType
  <1>3. frame' = [frame EXCEPT ![p] = g]
    BY <1>1 DEF read_test, Goto, Return, NextByte, At
  <1>4. /\ g.kid = {} /\ g.pc \in {"read_copy", "read_ask", "idle"}
        /\ g.pc # "idle" => g.fd = frame[p].fd
    BY <1>1, IdleIsFrame, IdleFields DEF read_test, At, Frame
  <1> HIDE DEF g
  <1>5. UNCHANGED pageVars /\ frame[p].pc # "idle"
    BY DEF read_test, At, Open
  <1> QED BY <1>1, <1>2, <1>3, <1>4, <1>5 DEF Quiet, QuietPC, ReadPC, WritePC, AskedPC

\* read_copy leaves the pages alone.
LEMMA ReadCopyQuiet ==
  ASSUME TypeOK, Shape, NEW p \in Proc, read_copy(p)
  PROVE  \E g : Quiet(p, g)
  <1> DEFINE g == [frame[p] EXCEPT !.pc = "read_inc", !.tmp = p_rpos]
  <1>1. /\ frame \in [Proc -> Frame] /\ frame[p].pc \in QuietPC /\ frame[p].kid = {}
        /\ frame[p].pc # "idle" => fdpage[p][frame[p].fd] # "none"
    BY DEF TypeOK, read_copy, At, Open, QuietPC, ReadPC, WritePC, AskedPC, ForkPC, DupPC,
           Shape, Kids, InCalls, InCall
  <1>2. g \in Frame
    BY <1>1, IdleIsFrame, CountsAreNat, CallFrame, GoOnFrame
       DEF PC, ReadPC, WritePC, DupPC, AskedPC, read_copy, TypeOK, BufType
  <1>3. frame' = [frame EXCEPT ![p] = g]
    BY <1>1 DEF read_copy, Goto, Return, NextByte, At
  <1>4. /\ g.kid = {} /\ g.pc \in {"read_inc"}
        /\ g.pc # "idle" => g.fd = frame[p].fd
    BY <1>1, IdleIsFrame, IdleFields DEF read_copy, At, Frame
  <1> HIDE DEF g
  <1>5. UNCHANGED pageVars /\ frame[p].pc # "idle"
    BY DEF read_copy, At, Open
  <1> QED BY <1>1, <1>2, <1>3, <1>4, <1>5 DEF Quiet, QuietPC, ReadPC, WritePC, AskedPC

\* read_inc leaves the pages alone.
LEMMA ReadIncQuiet ==
  ASSUME TypeOK, Shape, NEW p \in Proc, read_inc(p)
  PROVE  \E g : Quiet(p, g)
  <1> DEFINE g == IF frame[p].i + 1 = frame[p].n THEN Idle
                  ELSE [frame[p] EXCEPT !.pc = "read", !.i = @ + 1, !.tmp = 0]
  <1>1. /\ frame \in [Proc -> Frame] /\ frame[p].pc \in QuietPC /\ frame[p].kid = {}
        /\ frame[p].pc # "idle" => fdpage[p][frame[p].fd] # "none"
    BY DEF TypeOK, read_inc, At, Open, QuietPC, ReadPC, WritePC, AskedPC, ForkPC, DupPC,
           Shape, Kids, InCalls, InCall
  <1>2. g \in Frame
    BY <1>1, IdleIsFrame, CountsAreNat, CallFrame, GoOnFrame
       DEF PC, ReadPC, WritePC, DupPC, AskedPC, read_inc, TypeOK, BufType
  <1>3. frame' = [frame EXCEPT ![p] = g]
    BY <1>1 DEF read_inc, Goto, Return, NextByte, At
  <1>4. /\ g.kid = {} /\ g.pc \in {"read", "idle"}
        /\ g.pc # "idle" => g.fd = frame[p].fd
    BY <1>1, IdleIsFrame, IdleFields DEF read_inc, At, Frame
  <1> HIDE DEF g
  <1>5. UNCHANGED pageVars /\ frame[p].pc # "idle"
    BY DEF read_inc, At, Open
  <1> QED BY <1>1, <1>2, <1>3, <1>4, <1>5 DEF Quiet, QuietPC, ReadPC, WritePC, AskedPC

\* write_test leaves the pages alone.
LEMMA WriteTestQuiet ==
  ASSUME TypeOK, Shape, NEW p \in Proc, write_test(p)
  PROVE  \E g : Quiet(p, g)
  <1> DEFINE g == [frame[p] EXCEPT !.pc = IF full THEN "write_ask" ELSE "write_copy"]
  <1>1. /\ frame \in [Proc -> Frame] /\ frame[p].pc \in QuietPC /\ frame[p].kid = {}
        /\ frame[p].pc # "idle" => fdpage[p][frame[p].fd] # "none"
    BY DEF TypeOK, write_test, At, Open, QuietPC, ReadPC, WritePC, AskedPC, ForkPC, DupPC,
           Shape, Kids, InCalls, InCall
  <1>2. g \in Frame
    BY <1>1, IdleIsFrame, CountsAreNat, CallFrame, GoOnFrame
       DEF PC, ReadPC, WritePC, DupPC, AskedPC, write_test, TypeOK, BufType
  <1>3. frame' = [frame EXCEPT ![p] = g]
    BY <1>1 DEF write_test, Goto, Return, NextByte, At
  <1>4. /\ g.kid = {} /\ g.pc \in {"write_ask", "write_copy"}
        /\ g.pc # "idle" => g.fd = frame[p].fd
    BY <1>1, IdleIsFrame, IdleFields DEF write_test, At, Frame
  <1> HIDE DEF g
  <1>5. UNCHANGED pageVars /\ frame[p].pc # "idle"
    BY DEF write_test, At, Open
  <1> QED BY <1>1, <1>2, <1>3, <1>4, <1>5 DEF Quiet, QuietPC, ReadPC, WritePC, AskedPC

\* write_copy leaves the pages alone.
LEMMA WriteCopyQuiet ==
  ASSUME TypeOK, Shape, NEW p \in Proc, write_copy(p)
  PROVE  \E g : Quiet(p, g)
  <1> DEFINE g == [frame[p] EXCEPT !.pc = "write_inc", !.tmp = p_wpos]
  <1>1. /\ frame \in [Proc -> Frame] /\ frame[p].pc \in QuietPC /\ frame[p].kid = {}
        /\ frame[p].pc # "idle" => fdpage[p][frame[p].fd] # "none"
    BY DEF TypeOK, write_copy, At, Open, QuietPC, ReadPC, WritePC, AskedPC, ForkPC, DupPC,
           Shape, Kids, InCalls, InCall
  <1>2. g \in Frame
    BY <1>1, IdleIsFrame, CountsAreNat, CallFrame, GoOnFrame
       DEF PC, ReadPC, WritePC, DupPC, AskedPC, write_copy, TypeOK, BufType
  <1>3. frame' = [frame EXCEPT ![p] = g]
    BY <1>1 DEF write_copy, Goto, Return, NextByte, At
  <1>4. /\ g.kid = {} /\ g.pc \in {"write_inc"}
        /\ g.pc # "idle" => g.fd = frame[p].fd
    BY <1>1, IdleIsFrame, IdleFields DEF write_copy, At, Frame
  <1> HIDE DEF g
  <1>5. UNCHANGED pageVars /\ frame[p].pc # "idle"
    BY DEF write_copy, At, Open
  <1> QED BY <1>1, <1>2, <1>3, <1>4, <1>5 DEF Quiet, QuietPC, ReadPC, WritePC, AskedPC

\* write_inc leaves the pages alone.
LEMMA WriteIncQuiet ==
  ASSUME TypeOK, Shape, NEW p \in Proc, write_inc(p)
  PROVE  \E g : Quiet(p, g)
  <1> DEFINE g == IF frame[p].i + 1 = frame[p].n THEN Idle
                  ELSE [frame[p] EXCEPT !.pc = "write", !.i = @ + 1, !.tmp = 0]
  <1>1. /\ frame \in [Proc -> Frame] /\ frame[p].pc \in QuietPC /\ frame[p].kid = {}
        /\ frame[p].pc # "idle" => fdpage[p][frame[p].fd] # "none"
    BY DEF TypeOK, write_inc, At, Open, QuietPC, ReadPC, WritePC, AskedPC, ForkPC, DupPC,
           Shape, Kids, InCalls, InCall
  <1>2. g \in Frame
    BY <1>1, IdleIsFrame, CountsAreNat, CallFrame, GoOnFrame
       DEF PC, ReadPC, WritePC, DupPC, AskedPC, write_inc, TypeOK, BufType
  <1>3. frame' = [frame EXCEPT ![p] = g]
    BY <1>1 DEF write_inc, Goto, Return, NextByte, At
  <1>4. /\ g.kid = {} /\ g.pc \in {"write", "idle"}
        /\ g.pc # "idle" => g.fd = frame[p].fd
    BY <1>1, IdleIsFrame, IdleFields DEF write_inc, At, Frame
  <1> HIDE DEF g
  <1>5. UNCHANGED pageVars /\ frame[p].pc # "idle"
    BY DEF write_inc, At, Open
  <1> QED BY <1>1, <1>2, <1>3, <1>4, <1>5 DEF Quiet, QuietPC, ReadPC, WritePC, AskedPC

\* is_closed_fd_ref leaves the pages alone.
LEMMA IsClosedFdRefQuiet ==
  ASSUME TypeOK, Shape, NEW p \in Proc, is_closed_fd_ref(p)
  PROVE  \E g : Quiet(p, g)
  <1> DEFINE g == [frame[p] EXCEPT
               !.tmp = pageref_fd(fdpage[p][frame[p].fd]),
               !.pc = CASE frame[p].pc = "ask" -> "asked"
                                      [] frame[p].pc = "read_ask" -> "read_asked"
                                      [] frame[p].pc = "write_ask" -> "write_asked"]
  <1>1. /\ frame \in [Proc -> Frame] /\ frame[p].pc \in QuietPC /\ frame[p].kid = {}
        /\ frame[p].pc # "idle" => fdpage[p][frame[p].fd] # "none"
    BY DEF TypeOK, is_closed_fd_ref, At, Open, QuietPC, ReadPC, WritePC, AskedPC, ForkPC, DupPC,
           Shape, Kids, InCalls, InCall
  <1>2. g \in Frame
    BY <1>1, IdleIsFrame, CountsAreNat, CallFrame, GoOnFrame
       DEF PC, ReadPC, WritePC, DupPC, AskedPC, is_closed_fd_ref, TypeOK, BufType
  <1>3. frame' = [frame EXCEPT ![p] = g]
    BY <1>1 DEF is_closed_fd_ref, Goto, Return, NextByte, At
  <1>4. /\ g.kid = {} /\ g.pc \in {"asked", "read_asked", "write_asked"}
        /\ g.pc # "idle" => g.fd = frame[p].fd
    BY <1>1, IdleIsFrame, IdleFields DEF is_closed_fd_ref, At, Frame
  <1> HIDE DEF g
  <1>5. UNCHANGED pageVars /\ frame[p].pc # "idle"
    BY DEF is_closed_fd_ref, At, Open
  <1> QED BY <1>1, <1>2, <1>3, <1>4, <1>5 DEF Quiet, QuietPC, ReadPC, WritePC, AskedPC

\* is_closed_retry leaves the pages alone.
LEMMA IsClosedRetryQuiet ==
  ASSUME TypeOK, Shape, NEW p \in Proc, is_closed_retry(p)
  PROVE  \E g : Quiet(p, g)
  <1> DEFINE g == [frame[p] EXCEPT !.pc = CASE frame[p].pc = "asked" -> "ask"
                                      [] frame[p].pc = "read_asked" -> "read_ask"
                                      [] frame[p].pc = "write_asked" -> "write_ask"]
  <1>1. /\ frame \in [Proc -> Frame] /\ frame[p].pc \in QuietPC /\ frame[p].kid = {}
        /\ frame[p].pc # "idle" => fdpage[p][frame[p].fd] # "none"
    BY DEF TypeOK, is_closed_retry, At, Open, QuietPC, ReadPC, WritePC, AskedPC, ForkPC, DupPC,
           Shape, Kids, InCalls, InCall
  <1>2. g \in Frame
    BY <1>1, IdleIsFrame, CountsAreNat, CallFrame, GoOnFrame
       DEF PC, ReadPC, WritePC, DupPC, AskedPC, is_closed_retry, TypeOK, BufType
  <1>3. frame' = [frame EXCEPT ![p] = g]
    BY <1>1 DEF is_closed_retry, Goto, Return, NextByte, At
  <1>4. /\ g.kid = {} /\ g.pc \in {"ask", "read_ask", "write_ask"}
        /\ g.pc # "idle" => g.fd = frame[p].fd
    BY <1>1, IdleIsFrame, IdleFields DEF is_closed_retry, At, Frame
  <1> HIDE DEF g
  <1>5. UNCHANGED pageVars /\ frame[p].pc # "idle"
    BY DEF is_closed_retry, At, Open
  <1> QED BY <1>1, <1>2, <1>3, <1>4, <1>5 DEF Quiet, QuietPC, ReadPC, WritePC, AskedPC

\* is_closed_answer leaves the pages alone.
LEMMA IsClosedAnswerQuiet ==
  ASSUME TypeOK, Shape, NEW p \in Proc, is_closed_answer(p)
  PROVE  \E g : Quiet(p, g)
  <1> DEFINE g == IF frame[p].tmp = pageref_pipe \/ frame[p].pc = "asked" THEN Idle
                  ELSE [frame[p] EXCEPT !.tmp = 0,
                          !.pc = IF frame[p].pc = "read_asked" THEN "read" ELSE "write"]
  <1>1. /\ frame \in [Proc -> Frame] /\ frame[p].pc \in QuietPC /\ frame[p].kid = {}
        /\ frame[p].pc # "idle" => fdpage[p][frame[p].fd] # "none"
    BY DEF TypeOK, is_closed_answer, At, Open, QuietPC, ReadPC, WritePC, AskedPC, ForkPC, DupPC,
           Shape, Kids, InCalls, InCall
  <1>2. g \in Frame
    BY <1>1, IdleIsFrame, CountsAreNat, CallFrame, GoOnFrame
       DEF PC, ReadPC, WritePC, DupPC, AskedPC, is_closed_answer, TypeOK, BufType
  <1>3. frame' = [frame EXCEPT ![p] = g]
    BY <1>1 DEF is_closed_answer, Goto, Return, NextByte, At
  <1>4. /\ g.kid = {} /\ g.pc \in {"idle", "read", "write"}
        /\ g.pc # "idle" => g.fd = frame[p].fd
    BY <1>1, IdleIsFrame, IdleFields DEF is_closed_answer, At, Frame
  <1> HIDE DEF g
  <1>5. UNCHANGED pageVars /\ frame[p].pc # "idle"
    BY DEF is_closed_answer, At, Open
  <1> QED BY <1>1, <1>2, <1>3, <1>4, <1>5 DEF Quiet, QuietPC, ReadPC, WritePC, AskedPC
------------------------------------------------------------------------------
(* close, dup and the end of a process *)

\* close_fd keeps the pages in shape.
LEMMA CloseFdStep ==
  ASSUME TypeOK, Shape, NEW p \in Proc, NEW f \in FdNum, close_fd(p, f)
  PROVE  frame' \in [Proc -> Frame] /\ PageType' /\ Shape'
  <1> DEFINE g == [Idle EXCEPT !.pc = "close_data", !.fd = f]
  <1>1. frame[p] \in Frame /\ frame \in [Proc -> Frame] /\ PageType /\ frame[p].kid = {}
    BY DEF TypeOK, Shape, Kids, close_fd, At, ForkPC
  <1>2. g \in Frame
    BY <1>1, IdleIsFrame, CallFrame, GoOnFrame DEF PC, DupPC
  <1>3. frame' = [frame EXCEPT ![p] = g] /\ frame'[p] = g
    BY <1>1 DEF close_fd, Goto, Return, At
  <1>4. PageType' /\ \A q \in Proc \ {p} : fdpage'[q] = fdpage[q] /\ data'[q] = data[q]
    BY <1>1 DEF close_fd, Frame, PageType
  <1>5. g.kid = {} /\ g.pc \notin ForkPC \cup {"embryo"}
    BY <1>1, IdleIsFrame, IdleFields DEF Frame, ForkPC
  <1>6. Own(p, g)
    <2>1. frame[p].pc # "embryo"
      BY DEF close_fd, At
    <2> HIDE DEF g
    <2> QED BY <1>2, <1>3, <1>4, <1>5, <2>1 DEF Own
  <1>7. InCall(p)'
    BY <1>1, <1>3, IdleIsFrame, IdleFields
       DEF InCall, Shape, InCalls, close_fd, Frame, ReadPC, WritePC, AskedPC, DupPC, At, PageType
  <1>8. (Backed(p) /\ AtRest(p))'
    <2>1. Backed(p) /\ AtRest(p) /\ InCall(p)
      BY DEF Shape, Mapped, InCalls, close_fd, At
    <2>2. Backed(p)'
      BY <1>1, <2>1 DEF Backed, InCall, close_fd, Frame, DupPC, At, PageType
    <2>3. AtRest(p)'
      BY <1>1, <1>3, <2>1, IdleIsFrame, IdleFields
         DEF Backed, AtRest, InCall, close_fd, Frame, DupPC, At, PageType
    <2> QED BY <2>2, <2>3
  <1> HIDE DEF g
  <1> QED BY <1>4, <1>6, <1>7, <1>8, OwnStep

\* close_data keeps the pages in shape.
LEMMA CloseDataStep ==
  ASSUME TypeOK, Shape, NEW p \in Proc, close_data(p)
  PROVE  frame' \in [Proc -> Frame] /\ PageType' /\ Shape'
  <1> DEFINE g == Idle
  <1>1. frame[p] \in Frame /\ frame \in [Proc -> Frame] /\ PageType /\ frame[p].kid = {}
    BY DEF TypeOK, Shape, Kids, close_data, At, ForkPC
  <1>2. g \in Frame
    BY <1>1, IdleIsFrame, CallFrame, GoOnFrame DEF PC, DupPC
  <1>3. frame' = [frame EXCEPT ![p] = g] /\ frame'[p] = g
    BY <1>1 DEF close_data, Goto, Return, At
  <1>4. PageType' /\ \A q \in Proc \ {p} : fdpage'[q] = fdpage[q] /\ data'[q] = data[q]
    BY <1>1 DEF close_data, Frame, PageType
  <1>5. g.kid = {} /\ g.pc \notin ForkPC \cup {"embryo"}
    BY <1>1, IdleIsFrame, IdleFields DEF Frame, ForkPC
  <1>6. Own(p, g)
    <2>1. frame[p].pc # "embryo"
      BY DEF close_data, At
    <2> HIDE DEF g
    <2> QED BY <1>2, <1>3, <1>4, <1>5, <2>1 DEF Own
  <1>7. InCall(p)'
    BY <1>1, <1>3, IdleIsFrame, IdleFields
       DEF InCall, Shape, InCalls, close_data, Frame, ReadPC, WritePC, AskedPC, DupPC, At, PageType
  <1>8. (Backed(p) /\ AtRest(p))'
    <2>1. Backed(p) /\ AtRest(p) /\ InCall(p)
      BY DEF Shape, Mapped, InCalls, close_data, At
    <2>2. Backed(p)'
      BY <1>1, <2>1 DEF Backed, InCall, close_data, Frame, DupPC, At, PageType
    <2>3. AtRest(p)'
      BY <1>1, <1>3, <2>1, IdleIsFrame, IdleFields
         DEF Backed, AtRest, InCall, close_data, Frame, DupPC, At, PageType
    <2> QED BY <2>2, <2>3
  <1> HIDE DEF g
  <1> QED BY <1>4, <1>6, <1>7, <1>8, OwnStep

\* dup_close_fd keeps the pages in shape.
LEMMA DupCloseFdStep ==
  ASSUME TypeOK, Shape, NEW p \in Proc, dup_close_fd(p)
  PROVE  frame' \in [Proc -> Frame] /\ PageType' /\ Shape'
  <1> DEFINE g == [frame[p] EXCEPT !.pc = "dup_close_data"]
  <1>1. frame[p] \in Frame /\ frame \in [Proc -> Frame] /\ PageType /\ frame[p].kid = {}
    BY DEF TypeOK, Shape, Kids, dup_close_fd, At, ForkPC
  <1>2. g \in Frame
    BY <1>1, IdleIsFrame, CallFrame, GoOnFrame DEF PC, DupPC
  <1>3. frame' = [frame EXCEPT ![p] = g] /\ frame'[p] = g
    BY <1>1 DEF dup_close_fd, Goto, Return, At
  <1>4. PageType' /\ \A q \in Proc \ {p} : fdpage'[q] = fdpage[q] /\ data'[q] = data[q]
    BY <1>1 DEF dup_close_fd, Frame, PageType
  <1>5. g.kid = {} /\ g.pc \notin ForkPC \cup {"embryo"}
    BY <1>1, IdleIsFrame, IdleFields DEF Frame, ForkPC
  <1>6. Own(p, g)
    <2>1. frame[p].pc # "embryo"
      BY DEF dup_close_fd, At
    <2> HIDE DEF g
    <2> QED BY <1>2, <1>3, <1>4, <1>5, <2>1 DEF Own
  <1>7. InCall(p)'
    BY <1>1, <1>3, IdleIsFrame, IdleFields
       DEF InCall, Shape, InCalls, dup_close_fd, Frame, ReadPC, WritePC, AskedPC, DupPC, At,
           PageType
  <1>8. (Backed(p) /\ AtRest(p))'
    <2>1. Backed(p) /\ AtRest(p) /\ InCall(p)
      BY DEF Shape, Mapped, InCalls, dup_close_fd, At
    <2>2. Backed(p)'
      BY <1>1, <2>1 DEF Backed, InCall, dup_close_fd, Frame, DupPC, At, PageType
    <2>3. AtRest(p)'
      BY <1>1, <1>3, <2>1, IdleIsFrame, IdleFields
         DEF Backed, AtRest, InCall, dup_close_fd, Frame, DupPC, At, PageType
    <2> QED BY <2>2, <2>3
  <1> HIDE DEF g
  <1> QED BY <1>4, <1>6, <1>7, <1>8, OwnStep

\* dup_close_data keeps the pages in shape.
LEMMA DupCloseDataStep ==
  ASSUME TypeOK, Shape, NEW p \in Proc, dup_close_data(p)
  PROVE  frame' \in [Proc -> Frame] /\ PageType' /\ Shape'
  <1> DEFINE g == [frame[p] EXCEPT !.pc = "dup"]
  <1>1. frame[p] \in Frame /\ frame \in [Proc -> Frame] /\ PageType /\ frame[p].kid = {}
    BY DEF TypeOK, Shape, Kids, dup_close_data, At, ForkPC
  <1>2. g \in Frame
    BY <1>1, IdleIsFrame, CallFrame, GoOnFrame DEF PC, DupPC
  <1>3. frame' = [frame EXCEPT ![p] = g] /\ frame'[p] = g
    BY <1>1 DEF dup_close_data, Goto, Return, At
  <1>4. PageType' /\ \A q \in Proc \ {p} : fdpage'[q] = fdpage[q] /\ data'[q] = data[q]
    BY <1>1 DEF dup_close_data, Frame, PageType
  <1>5. g.kid = {} /\ g.pc \notin ForkPC \cup {"embryo"}
    BY <1>1, IdleIsFrame, IdleFields DEF Frame, ForkPC
  <1>6. Own(p, g)
    <2>1. frame[p].pc # "embryo"
      BY DEF dup_close_data, At
    <2> HIDE DEF g
    <2> QED BY <1>2, <1>3, <1>4, <1>5, <2>1 DEF Own
  <1>7. InCall(p)'
    BY <1>1, <1>3, IdleIsFrame, IdleFields
       DEF InCall, Shape, InCalls, dup_close_data, Frame, ReadPC, WritePC, AskedPC, DupPC, At,
           PageType
  <1>8. (Backed(p) /\ AtRest(p))'
    <2>1. Backed(p) /\ AtRest(p) /\ InCall(p)
      BY DEF Shape, Mapped, InCalls, dup_close_data, At
    <2>2. Backed(p)'
      BY <1>1, <2>1 DEF Backed, InCall, dup_close_data, Frame, DupPC, At, PageType
    <2>3. AtRest(p)'
      BY <1>1, <1>3, <2>1, IdleIsFrame, IdleFields
         DEF Backed, AtRest, InCall, dup_close_data, Frame, DupPC, At, PageType
    <2> QED BY <2>2, <2>3
  <1> HIDE DEF g
  <1> QED BY <1>4, <1>6, <1>7, <1>8, OwnStep

\* dup_data keeps the pages in shape.
LEMMA DupDataStep ==
  ASSUME TypeOK, Shape, NEW p \in Proc, dup_data(p)
  PROVE  frame' \in [Proc -> Frame] /\ PageType' /\ Shape'
  <1> DEFINE g == [frame[p] EXCEPT !.pc = "dup_fd"]
  <1>1. frame[p] \in Frame /\ frame \in [Proc -> Frame] /\ PageType /\ frame[p].kid = {}
    BY DEF TypeOK, Shape, Kids, dup_data, At, ForkPC
  <1>2. g \in Frame
    BY <1>1, IdleIsFrame, CallFrame, GoOnFrame DEF PC, DupPC
  <1>3. frame' = [frame EXCEPT ![p] = g] /\ frame'[p] = g
    BY <1>1 DEF dup_data, Goto, Return, At
  <1>4. PageType' /\ \A q \in Proc \ {p} : fdpage'[q] = fdpage[q] /\ data'[q] = data[q]
    BY <1>1 DEF dup_data, Frame, PageType
  <1>5. g.kid = {} /\ g.pc \notin ForkPC \cup {"embryo"}
    BY <1>1, IdleIsFrame, IdleFields DEF Frame, ForkPC
  <1>6. Own(p, g)
    <2>1. frame[p].pc # "embryo"
      BY DEF dup_data, At
    <2> HIDE DEF g
    <2> QED BY <1>2, <1>3, <1>4, <1>5, <2>1 DEF Own
  <1>7. InCall(p)'
    BY <1>1, <1>3, IdleIsFrame, IdleFields
       DEF InCall, Shape, InCalls, dup_data, Frame, ReadPC, WritePC, AskedPC, DupPC, At, PageType
  <1>8. (Backed(p) /\ AtRest(p))'
    <2>1. Backed(p) /\ AtRest(p) /\ InCall(p)
      BY DEF Shape, Mapped, InCalls, dup_data, At
    <2>2. Backed(p)'
      BY <1>1, <2>1 DEF Backed, InCall, dup_data, Frame, DupPC, At, PageType
    <2>3. AtRest(p)'
      BY <1>1, <1>3, <2>1, IdleIsFrame, IdleFields
         DEF Backed, AtRest, InCall, dup_data, Frame, DupPC, At, PageType
    <2> QED BY <2>2, <2>3
  <1> HIDE DEF g
  <1> QED BY <1>4, <1>6, <1>7, <1>8, OwnStep

\* dup_fd keeps the pages in shape.
LEMMA DupFdStep ==
  ASSUME TypeOK, Shape, NEW p \in Proc, dup_fd(p)
  PROVE  frame' \in [Proc -> Frame] /\ PageType' /\ Shape'
  <1> DEFINE g == Idle
  <1>1. frame[p] \in Frame /\ frame \in [Proc -> Frame] /\ PageType /\ frame[p].kid = {}
    BY DEF TypeOK, Shape, Kids, dup_fd, At, ForkPC
  <1>2. g \in Frame
    BY <1>1, IdleIsFrame, CallFrame, GoOnFrame DEF PC, DupPC
  <1>3. frame' = [frame EXCEPT ![p] = g] /\ frame'[p] = g
    BY <1>1 DEF dup_fd, Goto, Return, At
  <1>4. PageType' /\ \A q \in Proc \ {p} : fdpage'[q] = fdpage[q] /\ data'[q] = data[q]
    BY <1>1 DEF dup_fd, Frame, PageType
  <1>5. g.kid = {} /\ g.pc \notin ForkPC \cup {"embryo"}
    BY <1>1, IdleIsFrame, IdleFields DEF Frame, ForkPC
  <1>6. Own(p, g)
    <2>1. frame[p].pc # "embryo"
      BY DEF dup_fd, At
    <2> HIDE DEF g
    <2> QED BY <1>2, <1>3, <1>4, <1>5, <2>1 DEF Own
  <1>7. InCall(p)'
    BY <1>1, <1>3, IdleIsFrame, IdleFields
       DEF InCall, Shape, InCalls, dup_fd, Frame, ReadPC, WritePC, AskedPC, DupPC, At, PageType
  <1>8. (Backed(p) /\ AtRest(p))'
    <2>1. Backed(p) /\ AtRest(p) /\ InCall(p)
      BY DEF Shape, Mapped, InCalls, dup_fd, At
    <2>2. Backed(p)'
      BY <1>1, <2>1 DEF Backed, InCall, dup_fd, Frame, DupPC, At, PageType
    <2>3. AtRest(p)'
      BY <1>1, <1>3, <2>1, IdleIsFrame, IdleFields
         DEF Backed, AtRest, InCall, dup_fd, Frame, DupPC, At, PageType
    <2> QED BY <2>2, <2>3
  <1> HIDE DEF g
  <1> QED BY <1>4, <1>6, <1>7, <1>8, OwnStep

\* env_destroy keeps the pages in shape.
LEMMA EnvDestroyStep ==
  ASSUME TypeOK, Shape, NEW p \in Proc, env_destroy(p)
  PROVE  frame' \in [Proc -> Frame] /\ PageType' /\ Shape'
  <1>1. PageType' /\ frame'[p] = Gone /\ data'[p] = {} /\ \A x \in FdNum : fdpage'[p][x] = "none"
    BY DEF TypeOK, PageType, env_destroy
  <1>2. Own(p, Gone)
    BY IdleIsFrame, IdleFields DEF TypeOK, PageType, env_destroy, Own, ForkPC
  <1>3. (InCall(p) /\ Backed(p) /\ AtRest(p))'
    BY <1>1, IdleFields DEF InCall, Backed, AtRest, ReadPC, WritePC, AskedPC, DupPC
  <1> QED BY <1>1, <1>2, <1>3, OwnStep

------------------------------------------------------------------------------
(* fork *)

\* call_fork keeps the pages in shape.
LEMMA CallForkStep ==
  ASSUME TypeOK, Kids, InCalls, Mapped, Copying, NEW p \in Proc, NEW q \in Proc, call_fork(p, q)
  PROVE  frame' \in [Proc -> Frame] /\ PageType' /\ Shape'
  <1> DEFINE g == [Idle EXCEPT !.pc = "fork_fd", !.kid = {q}]
  <1>0. /\ frame \in [Proc -> Frame] /\ p # q
        /\ frame[p].pc = "idle" /\ frame[q].pc = "unborn"
        /\ frame[p].kid = {} /\ frame[q].kid = {}
        /\ data[q] = {} /\ \A x \in FdNum : fdpage[q][x] = "none"
        /\ fdpage' = fdpage /\ data' = data
    BY DEF TypeOK, PageType, call_fork, At, Kids, ForkPC, InCalls, InCall, pageVars
  <1>1. g \in Frame /\ g.pc = "fork_fd" /\ g.kid = {q} /\ g.i = 0
    BY IdleIsFrame, IdleFields, ForkFrame DEF PC, ForkPC, Frame
  <1>2. frame' = [frame EXCEPT ![p] = g, ![q] = Embryo]
    BY DEF call_fork
  <1> HIDE DEF g
  <1>3. /\ frame' \in [Proc -> Frame] /\ frame'[p] = g /\ frame'[q] = Embryo
        /\ \A r \in Proc \ {p, q} : frame'[r] = frame[r]
    BY <1>0, <1>1, <1>2, IdleIsFrame
  <1>4. \A r \in Proc : p \notin frame[r].kid /\ q \notin frame[r].kid
    BY <1>0 DEF Kids
  <1>5. 0 \in FdNum /\ \A x \in FdNum : ~(x < 0)
    BY FdOrder
  <1>6. Kids'
    <2>1. \A r \in Proc : frame'[r].kid # {} => frame'[r].pc \in ForkPC
      BY <1>0, <1>1, <1>3, IdleFields DEF Kids, ForkPC
    <2>2. \A r \in Proc : frame'[r].pc \in ForkPC =>
            frame'[r].i \in FdNum /\ \E s \in Proc : frame'[r].kid = {s}
      BY <1>0, <1>1, <1>3, <1>5, IdleFields DEF Kids, ForkPC
    <2>3. \A r, s \in Proc : s \in frame'[r].kid => frame'[s].pc = "embryo"
      BY <1>0, <1>1, <1>3, <1>4, IdleFields DEF Kids
    <2>4. \A r, s \in Proc : r # s => frame'[r].kid \cap frame'[s].kid = {}
      BY <1>0, <1>1, <1>3, <1>4, IdleFields DEF Kids
    <2> QED BY <2>1, <2>2, <2>3, <2>4 DEF Kids
  <1>7. InCalls'
    BY <1>0, <1>1, <1>3, IdleFields DEF InCalls, InCall, ReadPC, WritePC, AskedPC, DupPC
  <1>8. Mapped'
    BY <1>0, <1>1, <1>3, IdleFields DEF Mapped, Backed, AtRest
  <1>9. Copying'
    <2> SUFFICES ASSUME NEW r \in Proc, NEW s \in frame'[r].kid PROVE Copied(r, s)'
      BY DEF Copying
    <2>1. CASE r = p
      BY <1>0, <1>1, <1>3, <1>5, <2>1 DEF Copied
    <2>2. CASE r = q
      BY <1>0, <1>3, <2>2, IdleFields
    <2>3. CASE r \notin {p, q}
      BY <1>0, <1>3, <2>3 DEF Copying, Copied
    <2> QED BY <2>1, <2>2, <2>3
  <1> QED BY <1>0, <1>3, <1>6, <1>7, <1>8, <1>9 DEF Shape, TypeOK, PageType

\* fork_fd keeps the pages in shape.
LEMMA ForkFdStep ==
  ASSUME TypeOK, Kids, InCalls, Mapped, Copying, NEW p \in Proc, fork_fd(p)
  PROVE  frame' \in [Proc -> Frame] /\ PageType' /\ Shape'
  <1> DEFINE f == frame[p].i
             pc == IF f = LastFd THEN "fork_data" ELSE "fork_fd"
             i == IF f = LastFd THEN 0 ELSE f + 1
             g == [frame[p] EXCEPT !.pc = pc, !.i = i]
  <1>0. /\ frame \in [Proc -> Frame] /\ frame[p].pc = "fork_fd" /\ f \in FdNum
        /\ fdpage \in [Proc -> [FdNum -> End \cup {"none"}]] /\ data \in [Proc -> SUBSET FdNum]
        /\ data' = data
    BY DEF TypeOK, PageType, fork_fd, At, Kids, ForkPC
  <1>1. PICK q \in frame[p].kid : fdpage' = [fdpage EXCEPT ![q][f] = fdpage[p][f]]
    BY DEF fork_fd
  <1>2. /\ frame[p].kid = {q} /\ q \in Proc /\ q # p /\ frame[q].pc = "embryo" /\ frame[q].kid = {}
    <2>1. frame[p].kid = {q} /\ q \in Proc
      BY <1>0, <1>1 DEF Kids, ForkPC
    <2>2. frame[q].pc = "embryo"
      BY <2>1 DEF Kids
    <2>3. frame[q].kid = {}
      BY <2>1, <2>2 DEF Kids, ForkPC
    <2> QED BY <1>0, <2>1, <2>2, <2>3
  <1>3. i \in FdNum /\ pc \in PC /\ pc \in ForkPC /\ i \in Nat
    BY <1>0, FdOrder DEF PC, ForkPC
  <1>4. g \in Frame /\ g.pc = pc /\ g.i = i /\ g.kid = {q}
    <2>1. frame[p] \in Frame
      BY <1>0
    <2> HIDE DEF pc, i
    <2> QED BY <1>2, <1>3, <2>1, ForkFrame DEF Frame
  <1>5. frame' = [frame EXCEPT ![p] = g]
    BY <1>0 DEF fork_fd
  <1>6. frame' \in [Proc -> Frame] /\ frame'[p] = g /\ \A r \in Proc \ {p} : frame'[r] = frame[r]
    BY <1>0, <1>4, <1>5
  <1>7. /\ fdpage' \in [Proc -> [FdNum -> End \cup {"none"}]]
        /\ \A r \in Proc \ {q} : fdpage'[r] = fdpage[r]
        /\ fdpage'[q] = [fdpage[q] EXCEPT ![f] = fdpage[p][f]]
    BY <1>0, <1>1, <1>2
  <1>8. Kids'
    <2> HIDE DEF g, i, pc
    <2> QED BY <1>2, <1>3, <1>4, <1>6 DEF Kids, ForkPC
  <1>9. InCalls'
    <2> HIDE DEF g, i, pc
    <2>1. InCall(p)'
      BY <1>3, <1>4, <1>6 DEF InCall, ForkPC, ReadPC, WritePC, AskedPC, DupPC
    <2>2. InCall(q)'
      BY <1>2, <1>6 DEF InCall, ReadPC, WritePC, AskedPC, DupPC
    <2>3. ASSUME NEW r \in Proc \ {p, q} PROVE InCall(r)'
      BY <1>0, <1>6, <1>7 DEF InCalls, InCall
    <2> QED BY <2>1, <2>2, <2>3 DEF InCalls
  <1>10. Mapped'
    <2> HIDE DEF g, i, pc
    <2>1. (Backed(p) /\ AtRest(p))'
      BY <1>0, <1>2, <1>6, <1>7 DEF Mapped, Backed, AtRest
    <2>2. ASSUME NEW r \in Proc \ {p, q}, frame'[r].pc # "embryo" PROVE (Backed(r) /\ AtRest(r))'
      BY <1>0, <1>6, <1>7, <2>2 DEF Mapped, Backed, AtRest
    <2> QED BY <1>2, <1>6, <2>1, <2>2 DEF Mapped
  <1>11. Copying'
    <2> SUFFICES ASSUME NEW r \in Proc, NEW s \in frame'[r].kid PROVE Copied(r, s)'
      BY DEF Copying
    <2>1. CASE r = p
      <3>1. s = q /\ Copied(p, q)
        BY <1>2, <1>4, <1>6, <2>1 DEF Copying
      <3>2. /\ \A x \in FdNum : fdpage[q][x] = IF x < f THEN fdpage[p][x] ELSE "none"
            /\ data[q] = {}
        BY <1>0, <3>1 DEF Copied
      <3>3. CASE f = LastFd
        <4>1. \A x \in FdNum : x < f \/ x = f
          BY <3>3, <1>0, FdOrder
        <4>2. \A x \in FdNum : fdpage'[q][x] = fdpage[p][x]
          BY <4>1, <3>2, <1>0, <1>7, <1>2
        <4>3. fdpage'[q] = fdpage'[p]
          BY <4>2, <1>7, <1>2, <1>0
        <4>4. frame'[r].pc = "fork_data" /\ frame'[r].i = 0
          BY <1>4, <1>6, <2>1, <3>3
        <4>5. {x \in data[p] : x < 0} = {}
          BY <1>0, FdOrder
        <4> QED BY <4>3, <4>4, <4>5, <3>1, <3>2, <1>0, <2>1 DEF Copied
      <3>4. CASE f # LastFd
        <4>1. frame'[r].pc = "fork_fd" /\ frame'[r].i = f + 1
          BY <1>4, <1>6, <2>1, <3>4
        <4>2. \A x \in FdNum : x < f + 1 <=> x < f \/ x = f
          BY <1>0, FdOrder
        <4>3. \A x \in FdNum : fdpage'[q][x] = IF x < f + 1 THEN fdpage'[p][x] ELSE "none"
          BY <4>2, <3>2, <1>0, <1>7, <1>2
        <4> QED BY <4>1, <4>3, <3>1, <3>2, <1>0, <2>1 DEF Copied
      <3> QED BY <3>3, <3>4
    <2>2. CASE r # p
      <3>1. frame'[r] = frame[r] /\ s \in frame[r].kid /\ s # q /\ s # p /\ r # q
        BY <1>0, <1>2, <1>6, <2>2 DEF Kids
      <3>2. s \in Proc
        BY <3>1, <1>0 DEF Frame
      <3> QED BY <1>0, <1>7, <2>2, <3>1, <3>2 DEF Copying, Copied
    <2> QED BY <2>1, <2>2
  <1> QED BY <1>0, <1>6, <1>7, <1>8, <1>9, <1>10, <1>11 DEF Shape, PageType

\* fork_data keeps the pages in shape.
LEMMA ForkDataStep ==
  ASSUME TypeOK, Kids, InCalls, Mapped, Copying, NEW p \in Proc, fork_data(p)
  PROVE  frame' \in [Proc -> Frame] /\ PageType' /\ Shape'
  <1> DEFINE f == frame[p].i
             i == f + 1
             g == [frame[p] EXCEPT !.i = i]
  <1>0. /\ frame \in [Proc -> Frame] /\ frame[p].pc = "fork_data" /\ f \in FdNum
        /\ fdpage \in [Proc -> [FdNum -> End \cup {"none"}]] /\ data \in [Proc -> SUBSET FdNum]
        /\ fdpage' = fdpage
    BY DEF TypeOK, PageType, fork_data, At, Kids, ForkPC
  <1>1. PICK q \in frame[p].kid :
          /\ data' = [data EXCEPT ![q] = @ \cup ({f} \cap data[p])]
          /\ frame' = IF f = LastFd THEN [frame EXCEPT ![p] = Idle, ![q] = Idle]
                      ELSE [frame EXCEPT ![p].i = f + 1]
    BY DEF fork_data
  <1>2. /\ frame[p].kid = {q} /\ q \in Proc /\ q # p /\ frame[q].pc = "embryo" /\ frame[q].kid = {}
    BY <1>0, <1>1 DEF Kids, ForkPC, Frame
  <1>3. /\ data' \in [Proc -> SUBSET FdNum]
        /\ \A r \in Proc \ {q} : data'[r] = data[r]
        /\ data'[q] = data[q] \cup ({f} \cap data[p])
    BY <1>0, <1>1, <1>2
  <1>4. fdpage[q] = fdpage[p] /\ data[q] = {x \in data[p] : x < f}
    BY <1>0, <1>2 DEF Copying, Copied
  <1>5. \A r \in Proc : r # p => q \notin frame[r].kid /\ p \notin frame[r].kid
    BY <1>0, <1>2 DEF Kids
  <1>6. CASE f = LastFd
    <2>1. /\ frame' \in [Proc -> Frame] /\ frame'[p] = Idle /\ frame'[q] = Idle
          /\ \A r \in Proc \ {p, q} : frame'[r] = frame[r]
      BY <1>0, <1>1, <1>2, <1>6, IdleIsFrame
    <2>2. data'[q] = data[p]
      <3>1. \A x \in data[p] : x < f \/ x = f
        BY <1>0, <1>6, FdOrder
      <3> QED BY <3>1, <1>3, <1>4
    <2>3. Kids'
      <3>1. \A r \in Proc : r # p /\ r # q => p \notin frame[r].kid /\ q \notin frame[r].kid
        BY <1>5
      <3> QED BY <2>1, <3>1, IdleFields DEF Kids, ForkPC
    <2>4. InCalls'
      BY <1>0, <1>3, <2>1, IdleFields DEF InCalls, InCall, ReadPC, WritePC, AskedPC, DupPC
    <2>5. Mapped'
      <3>1. (Backed(p) /\ AtRest(p)) /\ frame[p].pc = "fork_data"
        BY <1>0 DEF Mapped
      <3>2. (Backed(p) /\ AtRest(p) /\ Backed(q) /\ AtRest(q))'
        BY <1>0, <1>2, <1>3, <1>4, <2>1, <2>2, <3>1 DEF Backed, AtRest
      <3>3. ASSUME NEW r \in Proc \ {p, q}, frame'[r].pc # "embryo" PROVE (Backed(r) /\ AtRest(r))'
        BY <1>0, <1>3, <2>1, <3>3 DEF Mapped, Backed, AtRest
      <3> QED BY <3>2, <3>3 DEF Mapped
    <2>6. Copying'
      <3> SUFFICES ASSUME NEW r \in Proc, NEW s \in frame'[r].kid PROVE Copied(r, s)'
        BY DEF Copying
      <3>1. r # p /\ r # q /\ frame'[r] = frame[r]
        BY <2>1, IdleFields
      <3>2. s \in Proc /\ s # q /\ s # p
        BY <3>1, <1>0, <1>5 DEF Frame
      <3> QED BY <1>0, <1>3, <3>1, <3>2 DEF Copying, Copied
    <2> QED BY <1>0, <1>3, <2>1, <2>3, <2>4, <2>5, <2>6 DEF Shape, PageType
  <1>7. CASE f # LastFd
    <2>0. f + 1 \in Nat /\ f + 1 \in FdNum /\ \A x \in FdNum : x < f + 1 <=> x < f \/ x = f
      BY <1>0, <1>7, FdOrder
    <2>1. g \in Frame /\ g.pc = "fork_data" /\ g.kid = {q} /\ g.i = f + 1
      <3>1. i \in Nat /\ frame[p] \in Frame
        BY <1>0, <2>0
      <3> HIDE DEF i
      <3>2. g \in Frame
        BY <3>1 DEF Frame
      <3>3. g.pc = "fork_data" /\ g.kid = {q} /\ g.i = i
        BY <1>0, <1>2, <3>1 DEF Frame
      <3> QED BY <3>2, <3>3 DEF i
    <2>2. frame' = [frame EXCEPT ![p] = g]
      BY <1>1, <1>7
    <2> HIDE DEF g
    <2>3. frame' \in [Proc -> Frame] /\ frame'[p] = g /\ \A r \in Proc \ {p} : frame'[r] = frame[r]
      BY <1>0, <2>1, <2>2
    <2>4. Kids'
      BY <1>2, <1>5, <2>0, <2>1, <2>3 DEF Kids, ForkPC
    <2>5. InCalls'
      BY <1>0, <1>2, <1>3, <2>1, <2>3 DEF InCalls, InCall, ReadPC, WritePC, AskedPC, DupPC
    <2>6. Mapped'
      BY <1>0, <1>2, <1>3, <2>1, <2>3 DEF Mapped, Backed, AtRest
    <2>7. Copying'
      <3> SUFFICES ASSUME NEW r \in Proc, NEW s \in frame'[r].kid PROVE Copied(r, s)'
        BY DEF Copying
      <3>1. CASE r = p
        <4>1. s = q
          BY <2>1, <2>3, <3>1
        <4>2. data'[q] = {x \in data'[p] : x < f + 1}
          BY <1>0, <1>2, <1>3, <1>4, <2>0
        <4> QED BY <4>1, <4>2, <1>0, <1>4, <2>1, <2>3, <3>1 DEF Copied
      <3>2. CASE r # p
        <4>1. frame'[r] = frame[r] /\ s \in Proc /\ s # q /\ s # p /\ r # q
          BY <1>0, <1>2, <1>5, <2>3, <3>2 DEF Frame
        <4> QED BY <1>0, <1>3, <4>1, <3>2 DEF Copying, Copied
      <3> QED BY <3>1, <3>2
    <2> QED BY <1>0, <1>3, <2>3, <2>4, <2>5, <2>6, <2>7 DEF Shape, PageType
  <1> QED BY <1>6, <1>7
------------------------------------------------------------------------------
(* Flags, buffer and counts *)

\* The index into the buffer, and a position moved on.
LEMMA Index ==
  ASSUME NEW k \in Nat
  PROVE  k % PIPE_SIZE \in 0 .. PIPE_SIZE - 1 /\ (k + 1) % PosMod \in Nat
  BY SizeAssumption

\* Only the process that ran is undisturbed.
LEMMA FlagStep ==
  ASSUME TypeOK, NEW p \in Proc, call(p) \/ step(p) \/ env_destroy(p)
  PROVE  FlagType' /\ \A q \in Proc : undisturbed'[q] => q = p
  <1>1. told' = told \/ is_closed_answer(p)
    BY DEF call, step, call_read, call_write, call_is_closed, call_dup, call_fork,
       read_test, read_copy, read_inc, write_test, write_copy, write_inc, is_closed_fd_ref,
       is_closed_retry, close_fd, close_data, dup_close_fd, dup_close_data, dup_data,
       dup_fd, fork_fd, fork_data, env_destroy
  <1>2. told' \in [Proc -> BOOLEAN]
    BY <1>1 DEF TypeOK, FlagType, is_closed_answer
  <1>3. \/ Disturb(p) \/ undisturbed' = [q \in Proc |-> q = p] \/ undisturbed' = [q \in Proc |-> FALSE]
    BY DEF call, step, call_read, call_write, call_is_closed, call_dup, call_fork,
       read_test, read_copy, read_inc, write_test, write_copy, write_inc, is_closed_fd_ref,
       is_closed_retry, close_fd, close_data, dup_close_fd, dup_close_data, dup_data,
       dup_fd, fork_fd, fork_data, env_destroy, is_closed_answer
  <1>4. \A q \in Proc : undisturbed[q] \in BOOLEAN
    BY DEF TypeOK, FlagType
  <1> QED BY <1>2, <1>3, <1>4 DEF Disturb, FlagType

\* Reading and writing keep the type of the buffer.
LEMMA BufferStep ==
  ASSUME TypeOK, NEW p \in Proc, call(p) \/ step(p) \/ env_destroy(p)
  PROVE  BufType'
  <1>0. frame[p].tmp \in Nat
    BY DEF TypeOK, Frame
  <1>1. CASE read_copy(p)
    BY <1>1, Index DEF TypeOK, BufType, read_copy
  <1>2. CASE read_inc(p)
    BY <1>0, <1>2, Index DEF TypeOK, BufType, read_inc
  <1>3. CASE write_copy(p)
    <2>0. sent \in Seq(Nat) /\ p_wpos \in Nat
      BY DEF TypeOK, BufType
    <2>1. Len(sent) + 1 \in Nat
      BY <2>0
    <2>2. p_wpos % PIPE_SIZE \in 0 .. PIPE_SIZE - 1
      BY <2>0, Index
    <2> QED BY <1>3, <2>1, <2>2 DEF TypeOK, BufType, write_copy
  <1>4. CASE write_inc(p)
    BY <1>0, <1>4, Index DEF TypeOK, BufType, write_inc
  <1>5. UNCHANGED bufVars \/ read_copy(p) \/ read_inc(p) \/ write_copy(p) \/ write_inc(p)
    BY DEF call, step, call_read, call_write, call_is_closed, call_dup, call_fork,
       read_test, write_test, is_closed_fd_ref, is_closed_retry, close_fd, close_data,
       dup_close_fd, dup_close_data, dup_data, dup_fd, fork_fd, fork_data, env_destroy,
       is_closed_answer
  <1> QED BY <1>1, <1>2, <1>3, <1>4, <1>5 DEF TypeOK, BufType, bufVars

\* Counted: whoever else runs disturbs the one that has counted.
LEMMA CountStep ==
  ASSUME TypeOK, Counted, frame' \in [Proc -> Frame], NEW p \in Proc, call(p) \/ step(p) \/ env_destroy(p)
  PROVE  Counted'
  <1>1. frame \in [Proc -> Frame] /\ \A q \in Proc : undisturbed'[q] => q = p
    BY FlagStep DEF TypeOK
  <1>2. CASE is_closed_fd_ref(p)
    <2>1. frame'[p].tmp = pageref_fd(fdpage[p][frame[p].fd]) /\ frame'[p].fd = frame[p].fd
      BY <1>1, <1>2 DEF is_closed_fd_ref, Frame
    <2>2. fdpage' = fdpage
      BY <1>2 DEF is_closed_fd_ref, pageVars
    <2>3. (pageref_fd(fdpage[p][frame[p].fd]))' = frame'[p].tmp
      BY <2>1, <2>2 DEF pageref_fd
    <2> QED BY <1>1, <2>3 DEF Counted
  <1>3. CASE ~is_closed_fd_ref(p)
    <2>1. frame'[p].pc \notin AskedPC
      <3>1. ASSUME NEW f \in FdNum, NEW n \in 1 .. 2, call_read(p, f, n) \/ call_write(p, f, n)
            PROVE  frame'[p].pc \notin AskedPC
        <4>1. CASE call_read(p, f, n)
          BY <1>1, <4>1, IdleIsFrame DEF call_read, AskedPC, Frame
        <4>2. CASE call_write(p, f, n)
          BY <1>1, <4>2, IdleIsFrame DEF call_write, AskedPC, Frame
        <4> QED BY <3>1, <4>1, <4>2
      <3>2. ASSUME NEW f \in FdNum, call_is_closed(p, f) \/ close_fd(p, f)
            PROVE  frame'[p].pc \notin AskedPC
        <4>1. CASE call_is_closed(p, f)
          BY <1>1, <4>1, IdleIsFrame DEF call_is_closed, AskedPC, Frame
        <4>2. CASE close_fd(p, f)
          BY <1>1, <4>2, IdleIsFrame DEF close_fd, AskedPC, Frame
        <4> QED BY <3>2, <4>1, <4>2
      <3>3. ASSUME NEW d \in Dups, call_dup(p, d[1], d[2]) PROVE frame'[p].pc \notin AskedPC
        BY <1>1, <3>3, IdleIsFrame DEF call_dup, AskedPC, Frame
      <3>4. ASSUME NEW q \in Proc, call_fork(p, q) PROVE frame'[p].pc \notin AskedPC
        <4>1. p # q
          BY <3>4 DEF call_fork, At
        <4> QED BY <1>1, <3>4, <4>1, IdleIsFrame DEF call_fork, AskedPC, Frame
      <3>5. CASE call(p)
        BY <3>1, <3>2, <3>3, <3>4, <3>5 DEF call
      <3>6. CASE env_destroy(p)
        BY <1>1, <3>6, IdleFields DEF env_destroy, AskedPC
      <3>7. CASE step(p)
        <4>1. CASE read_test(p)
          BY <1>1, <4>1, IdleFields DEF read_test, Goto, Return, NextByte, AskedPC, At, Frame
        <4>2. CASE read_copy(p)
          BY <1>1, <4>2, IdleFields DEF read_copy, Goto, Return, NextByte, AskedPC, At, Frame
        <4>3. CASE read_inc(p)
          BY <1>1, <4>3, IdleFields DEF read_inc, Goto, Return, NextByte, AskedPC, At, Frame
        <4>4. CASE write_test(p)
          BY <1>1, <4>4, IdleFields DEF write_test, Goto, Return, NextByte, AskedPC, At, Frame
        <4>5. CASE write_copy(p)
          BY <1>1, <4>5, IdleFields DEF write_copy, Goto, Return, NextByte, AskedPC, At, Frame
        <4>6. CASE write_inc(p)
          BY <1>1, <4>6, IdleFields DEF write_inc, Goto, Return, NextByte, AskedPC, At, Frame
        <4>7. CASE is_closed_retry(p)
          BY <1>1, <4>7, IdleFields DEF is_closed_retry, Goto, Return, NextByte, AskedPC, At, Frame
        <4>8. CASE close_data(p)
          BY <1>1, <4>8, IdleFields DEF close_data, Goto, Return, NextByte, AskedPC, At, Frame
        <4>9. CASE is_closed_answer(p)
          BY <1>1, <4>9, IdleFields DEF is_closed_answer, Goto, Return, NextByte, AskedPC, At, Frame
        <4>10. CASE dup_close_fd(p)
          BY <1>1, <4>10, IdleFields DEF dup_close_fd, Goto, Return, NextByte, AskedPC, At, Frame
        <4>11. CASE dup_close_data(p)
          BY <1>1, <4>11, IdleFields DEF dup_close_data, Goto, Return, NextByte, AskedPC, At, Frame
        <4>12. CASE dup_data(p)
          BY <1>1, <4>12, IdleFields DEF dup_data, Goto, Return, NextByte, AskedPC, At, Frame
        <4>13. CASE dup_fd(p)
          BY <1>1, <4>13, IdleFields DEF dup_fd, Goto, Return, NextByte, AskedPC, At, Frame
        <4>14. CASE fork_fd(p)
          BY <1>1, <4>14, IdleFields DEF fork_fd, Goto, Return, NextByte, AskedPC, At, Frame
        <4>15. CASE fork_data(p)
          BY <1>1, <4>15, IdleFields DEF fork_data, AskedPC, At, Frame
        <4> QED BY <1>3, <3>7, <4>1, <4>2, <4>3, <4>4, <4>5, <4>6, <4>7, <4>8, <4>9, <4>10, <4>11,
                   <4>12, <4>13, <4>14, <4>15 DEF step
      <3> QED BY <3>5, <3>6, <3>7
    <2> QED BY <1>1, <2>1 DEF Counted
  <1> QED BY <1>2, <1>3
------------------------------------------------------------------------------
(* Every step *)

\* A call that is neither a close nor a fork leaves the pages alone.
LEMMA QuietCalls ==
  ASSUME TypeOK, Shape, NEW p \in Proc, call(p)
  PROVE  \/ \E g : Quiet(p, g)
         \/ \E f \in FdNum : close_fd(p, f)
         \/ \E q \in Proc : call_fork(p, q)
  <1>1. ASSUME NEW f \in FdNum, NEW n \in 1 .. 2, call_read(p, f, n) \/ call_write(p, f, n)
        PROVE  \E g : Quiet(p, g)
    <2>1. n \in Nat
      OBVIOUS
    <2> QED BY <1>1, <2>1, CallReadQuiet, CallWriteQuiet
  <1>2. ASSUME NEW f \in FdNum, call_is_closed(p, f) PROVE \E g : Quiet(p, g)
    BY <1>2, CallIsClosedQuiet
  <1>3. ASSUME NEW d \in Dups, call_dup(p, d[1], d[2]) PROVE \E g : Quiet(p, g)
    <2>1. d[1] \in FdNum /\ d[2] \in FdNum /\ d[1] # d[2]
      BY DupsAssumption
    <2> QED BY <1>3, <2>1, CallDupQuiet
  <1> QED BY <1>1, <1>2, <1>3 DEF call

\* Every step of the library keeps the pages in shape.
LEMMA ShapeStep ==
  ASSUME TypeOK, Shape, NEW p \in Proc, call(p) \/ step(p) \/ env_destroy(p)
  PROVE  TypeOK' /\ Shape'
  <1>0. BufType' /\ FlagType'
    BY FlagStep, BufferStep
  <1>1. ASSUME NEW g, Quiet(p, g) PROVE TypeOK' /\ Shape'
    BY <1>0, <1>1, QuietStep DEF TypeOK
  <1>2. CASE call(p)
    <2>1. ASSUME NEW f \in FdNum, close_fd(p, f) PROVE TypeOK' /\ Shape'
      BY <1>0, <2>1, CloseFdStep DEF TypeOK
    <2>2. ASSUME NEW q \in Proc, call_fork(p, q) PROVE TypeOK' /\ Shape'
      BY <1>0, <2>2, CallForkStep DEF Shape, TypeOK
    <2> QED BY <1>1, <1>2, <2>1, <2>2, QuietCalls
  <1>3. CASE step(p)
    <2>1. CASE \/ read_test(p) \/ read_copy(p) \/ read_inc(p)
               \/ write_test(p) \/ write_copy(p) \/ write_inc(p)
      BY <1>1, <2>1, ReadTestQuiet, ReadCopyQuiet, ReadIncQuiet, WriteTestQuiet, WriteCopyQuiet,
         WriteIncQuiet
    <2>2. CASE is_closed_fd_ref(p) \/ is_closed_retry(p) \/ is_closed_answer(p)
      BY <1>1, <2>2, IsClosedFdRefQuiet, IsClosedRetryQuiet, IsClosedAnswerQuiet
    <2>3. CASE close_data(p) \/ dup_close_fd(p) \/ dup_close_data(p) \/ dup_data(p) \/ dup_fd(p)
      BY <1>0, <2>3, CloseDataStep, DupCloseFdStep, DupCloseDataStep, DupDataStep, DupFdStep DEF
         TypeOK
    <2>4. CASE fork_fd(p) \/ fork_data(p)
      BY <1>0, <2>4, ForkFdStep, ForkDataStep DEF Shape, TypeOK
    <2> QED BY <1>3, <2>1, <2>2, <2>3, <2>4 DEF step
  <1>4. CASE env_destroy(p)
    BY <1>0, <1>4, EnvDestroyStep DEF TypeOK
  <1> QED BY <1>2, <1>3, <1>4

\* PInv is inductive.
LEMMA PipeStep == PInv /\ [Next]_vars => PInv'
  <1> SUFFICES ASSUME PInv, [Next]_vars PROVE PInv'
    OBVIOUS
  <1>1. CASE UNCHANGED vars
    <2>1. /\ fdpage' = fdpage /\ data' = data /\ frame' = frame /\ undisturbed' = undisturbed
          /\ told' = told /\ p_rpos' = p_rpos /\ p_wpos' = p_wpos /\ p_buf' = p_buf
          /\ sent' = sent /\ got' = got
      BY <1>1 DEF vars, pageVars, bufVars
    <2>2. TypeOK' /\ Kids'
      BY <2>1 DEF PInv, TypeOK, PageType, BufType, FlagType, Shape, Kids
    <2>3. InCalls' /\ Mapped'
      BY <2>1 DEF PInv, Shape, InCalls, InCall, Mapped, Backed, AtRest
    <2>4. Copying'
      BY <2>1 DEF PInv, Shape, Copying, Copied
    <2>5. Counted'
      BY <2>1 DEF PInv, Counted, pageref_fd
    <2> QED BY <2>2, <2>3, <2>4, <2>5 DEF PInv, Shape
  <1>2. ASSUME NEW p \in Proc, call(p) \/ step(p) \/ env_destroy(p) PROVE PInv'
    <2>1. TypeOK' /\ Shape'
      BY <1>2, ShapeStep DEF PInv
    <2>2. Counted'
      BY <1>2, <2>1, CountStep DEF PInv, TypeOK
    <2> QED BY <2>1, <2>2 DEF PInv
  <1> QED BY <1>1, <1>2 DEF Next

\* PInv holds when pipe() has returned.
LEMMA PipeInit == Init => PInv
  <1> SUFFICES ASSUME Init PROVE PInv
    OBVIOUS
  <1>1. TypeOK
    <2>1. p_buf \in [0 .. PIPE_SIZE - 1 -> Nat] /\ sent \in Seq(Nat)
        /\ got \in Seq(Nat) /\ p_rpos \in Nat /\ p_wpos \in Nat
      BY DEF Init
    <2>2. fdpage \in [Proc -> [FdNum -> End \cup {"none"}]]
      BY DEF Init, End
    <2>3. data \in [Proc -> SUBSET FdNum]
      <3>1. {0, 1} \in SUBSET FdNum
        BY FdAssumption
      <3> QED BY <3>1 DEF Init
    <2>4. frame \in [Proc -> Frame]
      BY IdleIsFrame DEF Init
    <2>5. undisturbed \in [Proc -> BOOLEAN] /\ told \in [Proc -> BOOLEAN]
      BY DEF Init
    <2> QED BY <2>1, <2>2, <2>3, <2>4, <2>5 DEF TypeOK, PageType, BufType, FlagType
  <1>2. \A p \in Proc : IF p \in Born THEN frame[p] = Idle ELSE frame[p] = Unborn
    BY DEF Init
  <1>3. Kids
    BY <1>2, IdleFields DEF Kids, ForkPC
  <1>4. InCalls
    <2>1. ASSUME NEW p \in Proc, p \notin Born
          PROVE  data[p] = {} /\ \A x \in FdNum : fdpage[p][x] = "none"
      BY <2>1 DEF Init
    <2> QED BY <1>2, <2>1, IdleFields DEF InCalls, InCall, ReadPC, WritePC, AskedPC, DupPC
  <1>5. Mapped
    <2>1. ASSUME NEW p \in Proc, NEW x \in FdNum
          PROVE  fdpage[p][x] # "none" <=> x \in data[p]
      BY DEF Init
    <2>2. \A p \in Proc : data[p] \subseteq FdNum
      BY <1>1 DEF TypeOK, PageType
    <2> QED BY <2>1, <2>2 DEF Mapped, Backed, AtRest
  <1>6. Copying
    BY <1>2, IdleFields DEF Copying
  <1>7. Counted
    BY DEF Init, Counted
  <1> QED BY <1>1, <1>3, <1>4, <1>5, <1>6, <1>7 DEF PInv, Shape

\* close, dup, fork and the end of a process keep descriptors and buffer in step:
\* PInv is an invariant.
THEOREM PipeInvariance == Spec => []PInv
  BY PipeInit, PipeStep, PTL DEF Spec

------------------------------------------------------------------------------
(* The counts *)

\* The mappings that pageref counts.
Fds(x) == {m \in Proc \X FdNum : fdpage[m[1]][m[2]] = x}
Buffers == {m \in Proc \X FdNum : m[2] \in data[m[1]]}

\* pageref as the cardinality of a finite set.
LEMMA Counts ==
  ASSUME NEW x
  PROVE  /\ pageref_fd(x) = Cardinality(Fds(x)) /\ pageref_pipe = Cardinality(Buffers)
         /\ IsFiniteSet(Fds(x)) /\ IsFiniteSet(Buffers)
  <1>1. IsFiniteSet(Proc \X FdNum)
    BY ProcAssumption, FdAssumption, FS_Product
  <1>2. Fds(x) \subseteq Proc \X FdNum /\ Buffers \subseteq Proc \X FdNum
    BY DEF Fds, Buffers
  <1>3. IsFiniteSet(Fds(x)) /\ IsFiniteSet(Buffers)
    BY <1>1, <1>2, FS_Subset
  <1> QED BY <1>3 DEF pageref_fd, pageref_pipe, Fds, Buffers

\* Equal counts mean that every mapping of the buffer is behind that end.
LEMMA OneEndLeft ==
  ASSUME TypeOK, \A q \in Proc : Backed(q), NEW x \in End, pageref_fd(x) = pageref_pipe,
         NEW y \in End, y # x
  PROVE  Holders(y) = {}
  <1>1. Fds(x) \subseteq Buffers
    <2> SUFFICES ASSUME NEW m \in Fds(x) PROVE m \in Buffers
      OBVIOUS
    <2>1. m \in Proc \X FdNum /\ m[1] \in Proc /\ m[2] \in FdNum /\ fdpage[m[1]][m[2]] = x
      BY DEF Fds
    <2> QED BY <2>1 DEF Backed, Buffers, End
  <1>2. Fds(x) = Buffers
    BY <1>1, Counts, FS_Subset
  <1> SUFFICES ASSUME NEW q \in Proc, NEW f \in FdNum, fdpage[q][f] = y PROVE FALSE
    BY DEF Holders
  <1>3. f \in data[q]
    BY DEF Backed, End
  <1>4. <<q, f>> \in Buffers
    BY <1>3 DEF Buffers
  <1>5. <<q, f>> \in Fds(x)
    BY <1>2, <1>4
  <1> QED BY <1>5 DEF Fds

\* With no child half made, the comparison of the two counts tells the truth.
LEMMA AnswerRight ==
  ASSUME PInv, NEW p \in Proc, is_closed_answer(p), frame[p].tmp = pageref_pipe,
         \A q \in Proc : ~At(q, "embryo")
  PROVE  Holders("r") = {} \/ Holders("w") = {}
  <1> DEFINE x == fdpage[p][frame[p].fd]
  <1>1. x \in End
    <2>1. frame[p].pc \in AskedPC /\ frame[p] \in Frame /\ fdpage[p] \in [FdNum -> End \cup {"none"}]
      BY DEF is_closed_answer, AskedPC, PInv, TypeOK, PageType
    <2>2. x # "none"
      BY <2>1 DEF PInv, Shape, InCalls, InCall
    <2>3. frame[p].fd \in FdNum
      BY <2>1 DEF Frame
    <2> QED BY <2>1, <2>2, <2>3
  <1>2. pageref_fd(x) = pageref_pipe
    BY DEF is_closed_answer, AskedPC, PInv, Counted
  <1>3. TypeOK /\ \A q \in Proc : Backed(q)
    BY DEF PInv, Shape, Mapped, At
  <1> HIDE DEF x
  <1>4. \A y \in End : y # x => Holders(y) = {}
    BY <1>1, <1>2, <1>3, OneEndLeft
  <1> QED BY <1>1, <1>4 DEF End

\* Nothing else tells a process that the pipe is closed.
LEMMA OnlyAnswersTell ==
  ASSUME PInv, [Next]_vars, NEW p \in Proc, told'[p], ~told[p]
  PROVE  is_closed_answer(p) /\ frame[p].tmp = pageref_pipe
  <1>1. told' # told
    OBVIOUS
  <1>2. PICK q \in Proc : call(q) \/ step(q) \/ env_destroy(q)
    BY <1>1 DEF Next, vars
  <1>3. told' = told \/ is_closed_answer(q)
    BY <1>2 DEF call, step, call_read, call_write, call_is_closed, call_dup, call_fork,
       read_test, read_copy, read_inc, write_test, write_copy, write_inc, is_closed_fd_ref,
       is_closed_retry, close_fd, close_data, dup_close_fd, dup_close_data, dup_data,
       dup_fd, fork_fd, fork_data, env_destroy
  <1>4. is_closed_answer(q)
    BY <1>1, <1>3
  <1>5. told \in [Proc -> BOOLEAN] /\ told' = [told EXCEPT ![q] = @ \/ (frame[q].tmp = pageref_pipe)]
    BY <1>4 DEF is_closed_answer, PInv, TypeOK, FlagType
  <1> QED BY <1>4, <1>5

\* _pipe_is_closed says that the pipe is closed only when an end of it is open
\* nowhere, whatever other processes open, close, duplicate or kill between its
\* two calls of pageref, unless a child is only half made at that moment.
THEOREM ClosedTruthfully == Spec => ClosedUnlessForking
  <1>1. ASSUME PInv, [Next]_vars, NEW p \in Proc, told'[p] /\ ~told[p]
        PROVE  \/ Holders("r") = {} \/ Holders("w") = {}
               \/ \E q \in Proc : At(q, "embryo")
    BY <1>1, OnlyAnswersTell, AnswerRight
  <1>2. PInv /\ [Next]_vars =>
          [\A p \in Proc : told'[p] /\ ~told[p] =>
             \/ Holders("r") = {} \/ Holders("w") = {}
             \/ \E q \in Proc : At(q, "embryo")]_vars
    BY <1>1
  <1> QED BY <1>2, PipeInvariance, PTL DEF Spec, ClosedUnlessForking

\* Every process is there, and stays there until it ends.
NoForks == \A p \in Proc : frame[p].pc \notin {"unborn", "embryo"}

\* Without fork, an end spreads to no process that has not got it.
LEMMA NoNewHolders ==
  ASSUME PInv, NoForks, [Next]_vars, NEW x \in End
  PROVE  Holders(x)' \subseteq Holders(x)
  <1> SUFFICES ASSUME NEW q \in Proc, NEW f \in FdNum, fdpage'[q][f] = x PROVE q \in Holders(x)
    BY DEF Holders
  <1>0. fdpage \in [Proc -> [FdNum -> End \cup {"none"}]] /\ x # "none"
    BY DEF PInv, TypeOK, PageType, End
  <1>1. CASE fdpage' = fdpage
    BY <1>1 DEF Holders
  <1>2. ASSUME NEW p \in Proc, call(p) \/ step(p) \/ env_destroy(p), fdpage' # fdpage
        PROVE  q \in Holders(x)
    <2>1. \/ \E g \in FdNum : close_fd(p, g)
          \/ dup_close_fd(p) \/ dup_fd(p) \/ fork_fd(p) \/ env_destroy(p)
      BY <1>2 DEF call, step, call_read, call_write, call_is_closed, call_dup, call_fork,
         read_test, read_copy, read_inc, write_test, write_copy, write_inc,
         is_closed_fd_ref, is_closed_retry, is_closed_answer, close_data, dup_close_data,
         dup_data, fork_data, pageVars
    <2>2. ASSUME NEW g \in FdNum, close_fd(p, g) PROVE fdpage[q][f] = x
      BY <1>0, <2>2 DEF close_fd
    <2>3. CASE dup_close_fd(p)
      BY <1>0, <2>3 DEF dup_close_fd, Holders
    <2>4. CASE dup_fd(p)
      <3>1. frame[p].fd \in FdNum
        BY DEF PInv, TypeOK, Frame
      <3> QED BY <1>0, <2>4, <3>1 DEF dup_fd, Holders
    <2>5. CASE fork_fd(p)
      <3>1. \E k \in frame[p].kid : k \in Proc
        BY <2>5 DEF fork_fd, PInv, TypeOK, Frame
      <3> QED BY <3>1 DEF PInv, Shape, Kids, NoForks
    <2>6. CASE env_destroy(p)
      BY <1>0, <2>6 DEF env_destroy, Holders
    <2> QED BY <2>1, <2>2, <2>3, <2>4, <2>5, <2>6 DEF Holders
  <1> QED BY <1>1, <1>2 DEF Next, vars, pageVars

\* Where every process is there from the start, none is ever made.
LEMMA NoForksStep == PInv /\ NoForks /\ [Next]_vars => NoForks'
  <1> SUFFICES ASSUME PInv, NoForks, [Next]_vars PROVE NoForks'
    OBVIOUS
  <1>0. frame \in [Proc -> Frame]
    BY DEF PInv, TypeOK
  <1>1. CASE UNCHANGED vars
    BY <1>1 DEF vars, NoForks
  <1>2. ASSUME NEW p \in Proc, NEW g, Quiet(p, g) PROVE NoForks'
    BY <1>0, <1>2 DEF Quiet, NoForks, QuietPC, ReadPC, WritePC, AskedPC
  <1>3. ASSUME NEW p \in Proc, call(p) \/ step(p) \/ env_destroy(p) PROVE NoForks'
    <2>0. TypeOK /\ Shape
      BY DEF PInv
    <2>1. CASE call(p)
      <3>1. ASSUME NEW f \in FdNum, close_fd(p, f) PROVE NoForks'
        BY <1>0, <3>1, IdleIsFrame DEF close_fd, NoForks, Frame
      <3>2. ASSUME NEW q \in Proc, call_fork(p, q) PROVE NoForks'
        BY <3>2 DEF call_fork, At, NoForks
      <3> QED BY <1>2, <2>0, <2>1, <3>1, <3>2, QuietCalls
    <2>2. CASE step(p)
      <3>1. CASE read_test(p) \/ read_copy(p) \/ read_inc(p) \/ write_test(p) \/ write_copy(p) \/ write_inc(p)
        BY <1>2, <2>0, <3>1, ReadTestQuiet, ReadCopyQuiet, ReadIncQuiet, WriteTestQuiet,
           WriteCopyQuiet, WriteIncQuiet
      <3>2. CASE is_closed_fd_ref(p) \/ is_closed_retry(p) \/ is_closed_answer(p)
        BY <1>2, <2>0, <3>2, IsClosedFdRefQuiet, IsClosedRetryQuiet, IsClosedAnswerQuiet
      <3>3. CASE close_data(p) \/ dup_fd(p)
        BY <1>0, <3>3, IdleFields DEF close_data, dup_fd, Return, NoForks
      <3>4. CASE dup_close_fd(p) \/ dup_close_data(p) \/ dup_data(p)
        BY <1>0, <3>4 DEF dup_close_fd, dup_close_data, dup_data, Goto, NoForks, Frame
      <3>5. CASE fork_fd(p) \/ fork_data(p)
        <4>1. \E k \in frame[p].kid : k \in Proc
          BY <3>5 DEF fork_fd, fork_data, PInv, TypeOK, Frame
        <4> QED BY <4>1, <2>0 DEF Shape, Kids, NoForks
      <3> QED BY <2>2, <3>1, <3>2, <3>3, <3>4, <3>5 DEF step
    <2>3. CASE env_destroy(p)
      BY <1>0, <2>3, IdleFields DEF env_destroy, NoForks
    <2> QED BY <1>3, <2>1, <2>2, <2>3
  <1> QED BY <1>1, <1>3 DEF Next

\* Among processes that do not fork the answer is right, and stays right: an end
\* that nobody has open cannot be opened again.  dup is allowed.
THEOREM ClosedForGood == ASSUME Born = Proc PROVE Spec => []ClosedIsTrue
  <1>1. Init => NoForks /\ ClosedIsTrue
    BY IdleFields DEF Init, NoForks, ClosedIsTrue
  <1>2. ASSUME PInv, NoForks, ClosedIsTrue, [Next]_vars PROVE ClosedIsTrue'
    <2>1. CASE \E p \in Proc : told[p]
      <3>1. Holders("r") = {} \/ Holders("w") = {}
        BY <2>1, <1>2 DEF ClosedIsTrue
      <3>2. Holders("r")' \subseteq Holders("r") /\ Holders("w")' \subseteq Holders("w")
        BY <1>2, NoNewHolders DEF End
      <3> QED BY <3>1, <3>2 DEF ClosedIsTrue
    <2>2. CASE ~ \E p \in Proc : told[p]
      <3> SUFFICES ASSUME NEW p \in Proc, told'[p] PROVE (Holders("r") = {} \/ Holders("w") = {})'
        BY DEF ClosedIsTrue
      <3>1. is_closed_answer(p) /\ frame[p].tmp = pageref_pipe
        BY <1>2, <2>2, OnlyAnswersTell
      <3>2. Holders("r") = {} \/ Holders("w") = {}
        BY <1>2, <3>1, AnswerRight DEF NoForks, At
      <3>3. Holders("r")' \subseteq Holders("r") /\ Holders("w")' \subseteq Holders("w")
        BY <1>2, NoNewHolders DEF End
      <3> QED BY <3>2, <3>3
    <2> QED BY <2>1, <2>2
  <1> QED BY <1>1, <1>2, NoForksStep, PipeInvariance, PTL DEF Spec

\* At rest the mappings of the buffer are those behind the two ends.
LEMMA RestCounts == PInv => CountsAgreeAtRest
  <1> SUFFICES ASSUME PInv,
                 \A p \in Proc : frame[p].pc \notin {"close_data", "dup_close_data", "dup_fd", "embryo"}
               PROVE  pageref_pipe = pageref_fd("r") + pageref_fd("w")
    BY DEF CountsAgreeAtRest
  <1>0. /\ fdpage \in [Proc -> [FdNum -> End \cup {"none"}]] /\ data \in [Proc -> SUBSET FdNum]
        /\ \A p \in Proc : Backed(p) /\ AtRest(p)
    BY DEF PInv, TypeOK, PageType, Shape, Mapped
  <1>1. \A p \in Proc, f \in FdNum : f \in data[p] <=> fdpage[p][f] = "r" \/ fdpage[p][f] = "w"
    BY <1>0 DEF Backed, AtRest, End
  <1>2. Buffers = Fds("r") \cup Fds("w")
    BY <1>1 DEF Buffers, Fds
  <1>3. Fds("r") \cap Fds("w") = {}
    BY DEF Fds
  <1>4. Cardinality(Fds("r") \cup Fds("w")) =
          Cardinality(Fds("r")) + Cardinality(Fds("w")) - Cardinality(Fds("r") \cap Fds("w"))
    BY Counts, FS_Union
  <1>5. Cardinality({}) = 0 /\ Cardinality(Fds("r")) \in Nat /\ Cardinality(Fds("w")) \in Nat
    BY Counts, FS_EmptySet, FS_CardinalityType
  <1>6. Cardinality(Buffers) = Cardinality(Fds("r")) + Cardinality(Fds("w"))
    <2>1. Cardinality(Fds("r") \cap Fds("w")) = 0
      BY <1>3, <1>5
    <2>2. Cardinality(Fds("r") \cup Fds("w")) = Cardinality(Fds("r")) + Cardinality(Fds("w"))
      BY <2>1, <1>4, <1>5
    <2> QED BY <2>2, <1>2
  <1> QED BY <1>6, Counts

\* The premise of _pipe_is_closed, that the buffer is mapped once per open
\* descriptor, holds again after every close, dup, fork and kill.
THEOREM CountsAgree == Spec => []CountsAgreeAtRest
  BY RestCounts, PipeInvariance, PTL

------------------------------------------------------------------------------
(* The bytes of a pipe with one reader and one writer come out as they went   *)
(* in, for any size of the buffer, any width of the positions and any number  *)
(* of bytes, also when the positions wrap.                                    *)

\* R and W are the positions as they would be were they not kept as u_int.  A
\* byte is copied one step before its position moves on, and for ever if the
\* process is killed in between: Len(got) is R or R + 1, Len(sent) W or W + 1.
Positions(R, W) ==
  /\ p_rpos = R % PosMod /\ p_wpos = W % PosMod
  /\ R <= W /\ W <= R + PIPE_SIZE

Bytes(R, W) ==
  /\ Len(got) \in {R, R + 1} /\ Len(got) <= W
  /\ Len(sent) \in {W, W + 1} /\ Len(sent) <= R + PIPE_SIZE
  /\ \A k \in 1 .. Len(got) : got[k] = k
  /\ \A k \in R + 1 .. Len(sent) : p_buf[(k - 1) % PIPE_SIZE] = k

Reader(p, R, W) ==
  /\ frame[p].pc = "read_copy" => R < W
  /\ frame[p].pc = "read_inc" => frame[p].tmp = p_rpos /\ Len(got) = R + 1
  /\ frame[p].pc \notin {"read_inc", "gone"} => Len(got) = R

Writer(p, R, W) ==
  /\ frame[p].pc = "write_copy" => W < R + PIPE_SIZE
  /\ frame[p].pc = "write_inc" => frame[p].tmp = p_wpos /\ Len(sent) = W + 1
  /\ frame[p].pc \notin {"write_inc", "gone"} => Len(sent) = W

\* Only a reader reads, and only a writer writes.
Roles ==
  \A p \in Proc : /\ frame[p].pc \in ReadPC => p \in Readers
                  /\ frame[p].pc \in WritePC => p \in Writers

FInv(rd, wr) ==
  /\ Roles
  /\ \E R, W \in Nat : Positions(R, W) /\ Bytes(R, W) /\ Reader(rd, R, W) /\ Writer(wr, R, W)

------------------------------------------------------------------------------
(* Remainders *)

\* Quotient and remainder.
LEMMA DivMod == ASSUME NEW a \in Int, NEW S \in Nat \ {0}
  PROVE /\ a % S \in 0 .. S - 1
        /\ a \div S \in Int
        /\ a = S * (a \div S) + (a % S)
  OBVIOUS

\* A positive multiple is no smaller.
LEMMA MulPos ==
  ASSUME NEW S \in Nat \ {0}, NEW k \in Int, k >= 1
  PROVE  S * k >= S
  OBVIOUS

\* They are unique.
LEMMA Unique ==
  ASSUME NEW S \in Nat \ {0}, NEW j \in Int, NEW k \in Int,
         NEW x \in 0 .. S - 1, NEW y \in 0 .. S - 1, S * j + x = S * k + y
  PROVE  j = k /\ x = y
  <1>1. CASE j = k
    BY <1>1
  <1>2. CASE j < k
    <2>1. S * (k - j) >= S
      BY <1>2, MulPos
    <2>2. S * (k - j) = S * k - S * j
      OBVIOUS
    <2>3. QED BY <2>1, <2>2
  <1>3. CASE k < j
    <2>1. S * (j - k) >= S
      BY <1>3, MulPos
    <2>2. S * (j - k) = S * j - S * k
      OBVIOUS
    <2>3. QED BY <2>1, <2>2
  <1>4. QED BY <1>1, <1>2, <1>3

\* A number of the form S * k + x has the remainder x.
LEMMA ModUnique ==
  ASSUME NEW S \in Nat \ {0}, NEW k \in Int, NEW x \in 0 .. S - 1, NEW a \in Int, a = S * k + x
  PROVE  a % S = x
  <1>1. a % S \in 0 .. S - 1 /\ a \div S \in Int /\ a = S * (a \div S) + (a % S)
    BY DivMod
  <1> DEFINE j == a \div S
             y == a % S
  <1>2. j \in Int /\ y \in 0 .. S - 1 /\ S * k + x = S * j + y
    BY <1>1
  <1> HIDE DEF j, y
  <1>3. x = y
    BY <1>2, Unique
  <1>4. QED BY <1>3 DEF y

\* Multiples of S do not change the remainder.
LEMMA ModAdd ==
  ASSUME NEW S \in Nat \ {0}, NEW a \in Int, NEW k \in Int
  PROVE  (a + S * k) % S = a % S
  <1>1. a % S \in 0 .. S - 1 /\ a \div S \in Int /\ a = S * (a \div S) + (a % S)
    BY DivMod
  <1>2. S * (a \div S) + S * k = S * ((a \div S) + k)
    BY <1>1
  <1>3. a + S * k = S * ((a \div S) + k) + (a % S)
    BY <1>1, <1>2
  <1>4. a + S * k \in Int /\ (a \div S) + k \in Int
    BY <1>1
  <1> DEFINE b == a + S * k
             j == (a \div S) + k
             y == a % S
  <1>5. b \in Int /\ j \in Int /\ y \in 0 .. S - 1 /\ b = S * j + y
    BY <1>1, <1>3, <1>4
  <1> HIDE DEF b, j, y
  <1>6. b % S = y
    BY <1>5, ModUnique
  <1>7. QED BY <1>6 DEF b, y

\* A position kept modulo 2^32 gives the same place in the buffer.
LEMMA ModMod == ASSUME NEW S \in Nat \ {0}, NEW P \in Nat \ {0}, P % S = 0, NEW a \in Int
  PROVE (a % P) % S = a % S
  <1>1. a % P \in 0 .. P - 1 /\ a \div P \in Int /\ a = P * (a \div P) + (a % P)
    BY DivMod
  <1>2. P \div S \in Int /\ P = S * (P \div S)
    BY DivMod
  <1> DEFINE d == P \div S
             j == a \div P
  <1>3. P * j = S * (d * j)
    <2> HIDE DEF d, j
    <2>1. QED BY <1>1, <1>2 DEF d, j
  <1>4. a = (a % P) + S * (d * j)
    BY <1>1, <1>3
  <1>5. d * j \in Int /\ a % P \in Int
    BY <1>1, <1>2
  <1>6. PICK b \in Int, m \in Int : b = a % P /\ m = d * j
    BY <1>5
  <1>7. a = b + S * m
    BY <1>4, <1>6
  <1>8. (b + S * m) % S = b % S
    BY ModAdd
  <1>9. QED BY <1>6, <1>7, <1>8

\* Two bytes less than a buffer apart have different places in it.
LEMMA ModNear == ASSUME NEW S \in Nat \ {0}, NEW a \in Int, NEW b \in Int, a < b, b < a + S
  PROVE a % S # b % S
  <1> SUFFICES ASSUME a % S = b % S PROVE FALSE
    OBVIOUS
  <1>1. /\ a % S \in 0 .. S - 1 /\ a \div S \in Int /\ a = S * (a \div S) + (a % S)
        /\ b % S \in 0 .. S - 1 /\ b \div S \in Int /\ b = S * (b \div S) + (b % S)
    BY DivMod
  <1>2. b - a \in 0 .. S - 1 /\ b - a = S * ((b \div S) - (a \div S)) + 0
    BY <1>1
  <1>3. S * ((b \div S) - (a \div S)) + 0 = S * 0 + (b - a)
    BY <1>2
  <1> DEFINE j == (b \div S) - (a \div S)
             y == b - a
  <1>4. j \in Int /\ y \in 0 .. S - 1 /\ y # 0 /\ S * j + 0 = S * 0 + y /\ 0 \in 0 .. S - 1 /\ 0 \in Int
    BY <1>1, <1>2, <1>3
  <1> HIDE DEF j, y
  <1>5. 0 = y
    BY <1>4, Unique, Zenon
  <1>6. QED BY <1>4, <1>5

\* The distance of two positions does not depend on their wrapping.
LEMMA ModDiff == ASSUME NEW P \in Nat \ {0}, NEW a \in Int, NEW b \in Int
  PROVE ((b % P) - (a % P)) % P = (b - a) % P
  <1>1. /\ a % P \in 0 .. P - 1 /\ a \div P \in Int /\ a = P * (a \div P) + (a % P)
        /\ b % P \in 0 .. P - 1 /\ b \div P \in Int /\ b = P * (b \div P) + (b % P)
    BY DivMod
  <1> DEFINE x == (b % P) - (a % P)
             k == (b \div P) - (a \div P)
  <1>2. b - a = x + P * k /\ x \in Int /\ k \in Int
    BY <1>1
  <1> HIDE DEF x, k
  <1>3. (x + P * k) % P = x % P
    BY <1>2, ModAdd, Zenon
  <1>4. QED BY <1>2, <1>3 DEF x

\* Nor does the next position.
LEMMA ModSucc ==
  ASSUME NEW P \in Nat \ {0}, NEW a \in Int
  PROVE  ((a % P) + 1) % P = (a + 1) % P
  <1>1. a % P \in 0 .. P - 1 /\ a \div P \in Int /\ a = P * (a \div P) + (a % P)
    BY DivMod
  <1> DEFINE x == (a % P) + 1
             k == a \div P
  <1>2. a + 1 = x + P * k /\ x \in Int /\ k \in Int
    BY <1>1
  <1> HIDE DEF x, k
  <1>3. (x + P * k) % P = x % P
    BY <1>2, ModAdd, Zenon
  <1>4. QED BY <1>2, <1>3 DEF x

\* A small number is its own remainder.
LEMMA ModSmall ==
  ASSUME NEW P \in Nat \ {0}, NEW a \in 0 .. P - 1
  PROVE  a % P = a
  OBVIOUS

------------------------------------------------------------------------------
(* Steps that leave the buffer alone *)

\* PIPE_SIZE divides 2^32 and is smaller.
LEMMA Sizes ==
  /\ PIPE_SIZE \in Nat \ {0} /\ PosMod \in Nat \ {0} /\ PIPE_SIZE < PosMod /\ PosMod % PIPE_SIZE = 0
  BY SizeAssumption

\* What the code reads off the positions.
LEMMA Distance ==
  ASSUME NEW R \in Nat, NEW W \in Nat, Positions(R, W)
  PROVE  /\ (p_wpos - p_rpos) % PosMod = W - R
         /\ p_rpos % PIPE_SIZE = R % PIPE_SIZE
         /\ p_wpos % PIPE_SIZE = W % PIPE_SIZE
         /\ ~empty => R < W
  <1>1. (p_wpos - p_rpos) % PosMod = (W - R) % PosMod
    <2>1. PosMod \in Nat \ {0} /\ R \in Int /\ W \in Int
      BY Sizes
    <2>2. ((W % PosMod) - (R % PosMod)) % PosMod = (W - R) % PosMod
      BY <2>1, ModDiff, Zenon
    <2> QED BY <2>2 DEF Positions
  <1>2. W - R \in 0 .. PosMod - 1
    BY Sizes DEF Positions
  <1>3. (W - R) % PosMod = W - R
    BY <1>2, Sizes, ModSmall
  <1>4. (R % PosMod) % PIPE_SIZE = R % PIPE_SIZE /\ (W % PosMod) % PIPE_SIZE = W % PIPE_SIZE
    <2>1. /\ PosMod \in Nat \ {0} /\ PIPE_SIZE \in Nat \ {0} /\ PosMod % PIPE_SIZE = 0
          /\ R \in Int /\ W \in Int
      BY Sizes
    <2> QED BY <2>1, ModMod, Zenon
  <1>5. ~empty => R # W
    <2> SUFFICES ASSUME R = W PROVE empty
      OBVIOUS
    <2>1. p_rpos = p_wpos /\ p_rpos \in Int
      BY Sizes DEF Positions
    <2> QED BY <2>1 DEF empty
  <1>6. R <= W
    BY DEF Positions
  <1> QED BY <1>1, <1>3, <1>4, <1>5, <1>6 DEF Positions

CopyPC == {"read_copy", "read_inc", "write_copy", "write_inc"}

\* Nobody comes to copy a byte, and whoever is about to count one is killed if
\* anything.
Calm ==
  /\ UNCHANGED bufVars
  /\ \A s \in Proc :
       \/ frame'[s] = frame[s]
       \/ frame'[s].pc = "gone"
       \/ frame[s].pc \notin {"read_inc", "write_inc", "gone"} /\ frame'[s].pc \notin CopyPC

\* Such a step keeps the invariant.
LEMMA CalmStep ==
  ASSUME NEW rd \in Proc, NEW wr \in Proc, FInv(rd, wr), Calm, Roles'
  PROVE  FInv(rd, wr)'
  <1>1. PICK R, W \in Nat : Positions(R, W) /\ Bytes(R, W) /\ Reader(rd, R, W) /\ Writer(wr, R, W)
    BY DEF FInv
  <1>2. p_rpos' = p_rpos /\ p_wpos' = p_wpos /\ p_buf' = p_buf /\ sent' = sent /\ got' = got
    BY DEF Calm, bufVars
  <1>3. Positions(R, W)' /\ Bytes(R, W)'
    BY <1>1, <1>2 DEF Positions, Bytes
  <1>4. Reader(rd, R, W)' /\ Writer(wr, R, W)'
    BY <1>1, <1>2 DEF Reader, Writer, Calm, CopyPC
  <1> QED BY <1>3, <1>4 DEF FInv

\* All but the six steps of the two loops are calm.
LEMMA CalmSteps ==
  ASSUME TypeOK, Kids, Roles, NEW p \in Proc, call(p) \/ step(p) \/ env_destroy(p),
         ~read_test(p), ~read_copy(p), ~read_inc(p), ~write_test(p), ~write_copy(p), ~write_inc(p)
  PROVE  Calm /\ Roles'
  <1>0. frame \in [Proc -> Frame]
    BY DEF TypeOK
  <1>1. ASSUME NEW f \in FdNum, NEW n \in 1 .. 2, call_read(p, f, n) PROVE Calm /\ Roles'
    BY <1>0, <1>1, IdleIsFrame, IdleFields
       DEF call_read, Calm, bufVars, CopyPC, Roles, ReadPC, WritePC, AskedPC, At, Open, Goto,
           Return, Frame
  <1>2. ASSUME NEW f \in FdNum, NEW n \in 1 .. 2, call_write(p, f, n) PROVE Calm /\ Roles'
    BY <1>0, <1>2, IdleIsFrame, IdleFields
       DEF call_write, Calm, bufVars, CopyPC, Roles, ReadPC, WritePC, AskedPC, At, Open, Goto,
           Return, Frame
  <1>3. ASSUME NEW f \in FdNum, call_is_closed(p, f) PROVE Calm /\ Roles'
    BY <1>0, <1>3, IdleIsFrame, IdleFields
       DEF call_is_closed, Calm, bufVars, CopyPC, Roles, ReadPC, WritePC, AskedPC, At, Open, Goto,
           Return, Frame
  <1>4. ASSUME NEW f \in FdNum, close_fd(p, f) PROVE Calm /\ Roles'
    BY <1>0, <1>4, IdleIsFrame, IdleFields
       DEF close_fd, Calm, bufVars, CopyPC, Roles, ReadPC, WritePC, AskedPC, At, Open, Goto,
           Return, Frame
  <1>5. ASSUME NEW d \in Dups, call_dup(p, d[1], d[2]) PROVE Calm /\ Roles'
    BY <1>0, <1>5, IdleIsFrame, IdleFields
       DEF call_dup, Calm, bufVars, CopyPC, Roles, ReadPC, WritePC, AskedPC, At, Open, Goto,
           Return, Frame
  <1>6. ASSUME NEW q \in Proc, call_fork(p, q) PROVE Calm /\ Roles'
    BY <1>0, <1>6, IdleIsFrame, IdleFields
       DEF call_fork, Calm, bufVars, CopyPC, Roles, ReadPC, WritePC, AskedPC, At, Open, Goto,
           Return, Frame
  <1>7. ASSUME is_closed_fd_ref(p) PROVE Calm /\ Roles'
    BY <1>0, <1>7, IdleIsFrame, IdleFields
       DEF is_closed_fd_ref, Calm, bufVars, CopyPC, Roles, ReadPC, WritePC, AskedPC, At, Open,
           Goto, Return, Frame
  <1>8. ASSUME is_closed_retry(p) PROVE Calm /\ Roles'
    BY <1>0, <1>8, IdleIsFrame, IdleFields
       DEF is_closed_retry, Calm, bufVars, CopyPC, Roles, ReadPC, WritePC, AskedPC, At, Open, Goto,
           Return, Frame
  <1>9. ASSUME is_closed_answer(p) PROVE Calm /\ Roles'
    BY <1>0, <1>9, IdleIsFrame, IdleFields
       DEF is_closed_answer, Calm, bufVars, CopyPC, Roles, ReadPC, WritePC, AskedPC, At, Open,
           Goto, Return, Frame
  <1>10. ASSUME close_data(p) PROVE Calm /\ Roles'
    BY <1>0, <1>10, IdleIsFrame, IdleFields
       DEF close_data, Calm, bufVars, CopyPC, Roles, ReadPC, WritePC, AskedPC, At, Open, Goto,
           Return, Frame
  <1>11. ASSUME dup_close_fd(p) PROVE Calm /\ Roles'
    BY <1>0, <1>11, IdleIsFrame, IdleFields
       DEF dup_close_fd, Calm, bufVars, CopyPC, Roles, ReadPC, WritePC, AskedPC, At, Open, Goto,
           Return, Frame
  <1>12. ASSUME dup_close_data(p) PROVE Calm /\ Roles'
    BY <1>0, <1>12, IdleIsFrame, IdleFields
       DEF dup_close_data, Calm, bufVars, CopyPC, Roles, ReadPC, WritePC, AskedPC, At, Open, Goto,
           Return, Frame
  <1>13. ASSUME dup_data(p) PROVE Calm /\ Roles'
    BY <1>0, <1>13, IdleIsFrame, IdleFields
       DEF dup_data, Calm, bufVars, CopyPC, Roles, ReadPC, WritePC, AskedPC, At, Open, Goto,
           Return, Frame
  <1>14. ASSUME dup_fd(p) PROVE Calm /\ Roles'
    BY <1>0, <1>14, IdleIsFrame, IdleFields
       DEF dup_fd, Calm, bufVars, CopyPC, Roles, ReadPC, WritePC, AskedPC, At, Open, Goto, Return,
           Frame
  <1>15. ASSUME fork_fd(p) PROVE Calm /\ Roles'
    BY <1>0, <1>15, IdleIsFrame, IdleFields
       DEF fork_fd, Calm, bufVars, CopyPC, Roles, ReadPC, WritePC, AskedPC, At, Open, Goto, Return,
           Frame
  <1>16. ASSUME fork_data(p) PROVE Calm /\ Roles'
    <2>1. PICK q \in frame[p].kid :
            frame' = IF frame[p].i = LastFd THEN [frame EXCEPT ![p] = Idle, ![q] = Idle]
                     ELSE [frame EXCEPT ![p].i = frame[p].i + 1]
      BY <1>16 DEF fork_data
    <2>2. q \in Proc /\ frame[q].pc = "embryo" /\ frame[p].pc = "fork_data" /\ UNCHANGED bufVars
      BY <1>0, <1>16 DEF Kids, Frame, fork_data, At, bufVars
    <2>3. CASE frame[p].i = LastFd
      BY <1>0, <2>1, <2>2, <2>3, IdleFields DEF Calm, CopyPC, Roles, ReadPC, WritePC
    <2>4. CASE frame[p].i # LastFd
      BY <1>0, <2>1, <2>2, <2>4 DEF Calm, CopyPC, Roles, ReadPC, WritePC, Frame
    <2> QED BY <2>3, <2>4
  <1>17. ASSUME env_destroy(p) PROVE Calm /\ Roles'
    BY <1>0, <1>17, IdleIsFrame, IdleFields
       DEF env_destroy, Calm, bufVars, CopyPC, Roles, ReadPC, WritePC, AskedPC, At, Open, Goto,
           Return, Frame
  <1> QED BY <1>1, <1>2, <1>3, <1>4, <1>5, <1>6, <1>7, <1>8, <1>9, <1>10, <1>11, <1>12, <1>13,
             <1>14, <1>15, <1>16, <1>17 DEF call, step

------------------------------------------------------------------------------
(* The reader *)

\* read_test keeps the invariant.
LEMMA ReadTestFifo ==
  ASSUME TypeOK, NEW rd \in Proc, NEW wr \in Proc, Readers \subseteq {rd}, FInv(rd, wr),
         NEW p \in Proc, read_test(p)
  PROVE  FInv(rd, wr)'
  <1>0. frame \in [Proc -> Frame] /\ frame[p].pc = "read" /\ Roles /\ UNCHANGED bufVars
    BY DEF TypeOK, read_test, At, FInv
  <1>1. CASE ~empty
    <2>1. PICK R, W \in Nat : Positions(R, W) /\ Bytes(R, W) /\ Reader(rd, R, W) /\ Writer(wr, R, W)
      BY DEF FInv
    <2>2. R < W
      BY <1>1, <2>1, Distance
    <2>3. frame' = [frame EXCEPT ![p].pc = "read_copy"]
      BY <1>1 DEF read_test, Goto
    <2>4. Roles'
      BY <1>0, <2>3 DEF Roles, ReadPC, WritePC, Frame
    <2>5. Positions(R, W)' /\ Bytes(R, W)'
      BY <1>0, <2>1 DEF Positions, Bytes, bufVars
    <2>6. Reader(rd, R, W)' /\ Writer(wr, R, W)'
      BY <1>0, <2>1, <2>2, <2>3 DEF Reader, Writer, bufVars, Frame
    <2> QED BY <2>4, <2>5, <2>6 DEF FInv
  <1>2. CASE empty
    <2>1. \/ frame' = [frame EXCEPT ![p] = Idle]
          \/ frame' = [frame EXCEPT ![p].pc = "read_ask"]
      BY <1>2 DEF read_test, Goto, Return
    <2>2. Calm
      BY <1>0, <2>1, IdleFields DEF Calm, CopyPC, Frame
    <2>3. Roles'
      BY <1>0, <2>1, IdleFields DEF Roles, ReadPC, WritePC, Frame
    <2> QED BY <2>2, <2>3, CalmStep
  <1> QED BY <1>1, <1>2

\* read_copy keeps the invariant.
LEMMA ReadCopyFifo ==
  ASSUME TypeOK, NEW rd \in Proc, NEW wr \in Proc, Readers \subseteq {rd}, FInv(rd, wr),
         NEW p \in Proc, read_copy(p)
  PROVE  FInv(rd, wr)'
  <1>0. /\ frame \in [Proc -> Frame] /\ frame[p].pc = "read_copy" /\ Roles /\ got \in Seq(Nat)
        /\ p_rpos' = p_rpos /\ p_wpos' = p_wpos /\ p_buf' = p_buf /\ sent' = sent
        /\ got' = Append(got, p_buf[p_rpos % PIPE_SIZE])
    BY DEF TypeOK, BufType, read_copy, At, FInv
  <1>1. p = rd
    BY <1>0 DEF Roles, ReadPC
  <1>2. PICK R, W \in Nat : Positions(R, W) /\ Bytes(R, W) /\ Reader(rd, R, W) /\ Writer(wr, R, W)
    BY DEF FInv
  <1>3. frame' = [frame EXCEPT ![p] = [frame[p] EXCEPT !.pc = "read_inc", !.tmp = p_rpos]]
    BY <1>0 DEF read_copy
  <1>4. Roles'
    BY <1>0, <1>3 DEF Roles, ReadPC, WritePC, Frame
  <1>5. R < W /\ Len(got) = R
    BY <1>0, <1>1, <1>2 DEF Reader
  <1>6. p_buf[p_rpos % PIPE_SIZE] = R + 1
    <2>1. R + 1 \in R + 1 .. Len(sent) /\ (R + 1) - 1 = R
      BY <1>2, <1>5 DEF Bytes
    <2>2. p_buf[((R + 1) - 1) % PIPE_SIZE] = R + 1
      BY <1>2, <2>1 DEF Bytes
    <2> QED BY <1>2, <2>1, <2>2, Distance
  <1>7. got' = Append(got, R + 1) /\ Len(got') = R + 1
    BY <1>0, <1>5, <1>6
  <1>8. \A k \in 1 .. Len(got') : got'[k] = k
    BY <1>0, <1>2, <1>5, <1>7 DEF Bytes
  <1>9. Positions(R, W)' /\ Bytes(R, W)'
    <2>1. Len(got') \in {R, R + 1} /\ Len(got') <= W
      BY <1>5, <1>7
    <2> QED BY <1>0, <1>2, <1>8, <2>1 DEF Positions, Bytes
  <1>10. Reader(rd, R, W)' /\ Writer(wr, R, W)'
    <2>1. frame'[p].pc = "read_inc" /\ frame'[p].tmp = p_rpos
      BY <1>0, <1>3 DEF Frame
    <2>2. \A s \in Proc \ {p} : frame'[s] = frame[s]
      BY <1>0, <1>3
    <2> QED BY <1>0, <1>1, <1>2, <1>7, <2>1, <2>2 DEF Reader, Writer
  <1> QED BY <1>4, <1>9, <1>10 DEF FInv

\* read_inc keeps the invariant.
LEMMA ReadIncFifo ==
  ASSUME TypeOK, NEW rd \in Proc, NEW wr \in Proc, Readers \subseteq {rd}, FInv(rd, wr),
         NEW p \in Proc, read_inc(p)
  PROVE  FInv(rd, wr)'
  <1>0. /\ frame \in [Proc -> Frame] /\ frame[p].pc = "read_inc" /\ Roles
        /\ got \in Seq(Nat) /\ sent \in Seq(Nat)
        /\ p_rpos' = (frame[p].tmp + 1) % PosMod
        /\ p_wpos' = p_wpos /\ p_buf' = p_buf /\ sent' = sent /\ got' = got
    BY DEF TypeOK, BufType, read_inc, At, FInv
  <1>1. p = rd
    BY <1>0 DEF Roles, ReadPC
  <1>2. PICK R, W \in Nat : Positions(R, W) /\ Bytes(R, W) /\ Reader(rd, R, W) /\ Writer(wr, R, W)
    BY DEF FInv
  <1>3. (frame'[p].pc = "idle" \/ frame'[p].pc = "read") /\ \A s \in Proc \ {p} : frame'[s] = frame[s]
    BY <1>0, IdleFields DEF read_inc, NextByte, Frame
  <1>4. Roles'
    BY <1>0, <1>3 DEF Roles, ReadPC, WritePC
  <1>5. frame[p].tmp = p_rpos /\ Len(got) = R + 1
    BY <1>0, <1>1, <1>2 DEF Reader
  <1>6. p_rpos' = (R + 1) % PosMod
    <2>1. PosMod \in Nat \ {0} /\ R \in Int
      BY Sizes
    <2>2. ((R % PosMod) + 1) % PosMod = (R + 1) % PosMod
      BY <2>1, ModSucc, Zenon
    <2> QED BY <1>0, <1>2, <1>5, <2>2 DEF Positions
  <1>7. R + 1 \in Nat /\ R + 1 <= W /\ PIPE_SIZE \in Nat
    BY <1>2, <1>5, Sizes DEF Bytes
  <1>8. Positions(R + 1, W)'
    BY <1>0, <1>2, <1>6, <1>7 DEF Positions
  <1>9. Bytes(R + 1, W)'
    <2>1. Len(sent) \in Nat
      BY <1>0
    <2> QED BY <1>0, <1>2, <1>5, <1>7, <2>1 DEF Bytes
  <1>10. Reader(rd, R + 1, W)' /\ Writer(wr, R + 1, W)'
    <2>1. Reader(rd, R + 1, W)'
      BY <1>0, <1>1, <1>3, <1>5 DEF Reader
    <2>2. Writer(wr, R, W) /\ (frame'[wr].pc = "write_copy" => W < (R + 1) + PIPE_SIZE)
      <3>1. frame'[wr].pc = "write_copy" => frame[wr].pc = "write_copy"
        BY <1>3
      <3>2. W < R + PIPE_SIZE => W < (R + 1) + PIPE_SIZE
        BY <1>7
      <3> QED BY <1>2, <3>1, <3>2 DEF Writer
    <2>3. Writer(wr, R + 1, W)'
      BY <1>0, <1>1, <1>3, <2>2 DEF Writer
    <2> QED BY <2>1, <2>3
  <1> QED BY <1>4, <1>7, <1>8, <1>9, <1>10 DEF FInv

------------------------------------------------------------------------------
(* The writer *)

\* write_test keeps the invariant.
LEMMA WriteTestFifo ==
  ASSUME TypeOK, NEW rd \in Proc, NEW wr \in Proc, Writers \subseteq {wr}, FInv(rd, wr),
         NEW p \in Proc, write_test(p)
  PROVE  FInv(rd, wr)'
  <1>0. frame \in [Proc -> Frame] /\ frame[p].pc = "write" /\ Roles /\ UNCHANGED bufVars
    BY DEF TypeOK, write_test, At, FInv
  <1>1. CASE ~full
    <2>1. PICK R, W \in Nat : Positions(R, W) /\ Bytes(R, W) /\ Reader(rd, R, W) /\ Writer(wr, R, W)
      BY DEF FInv
    <2>2. W < R + PIPE_SIZE
      <3>1. (p_wpos - p_rpos) % PosMod = W - R
        BY <2>1, Distance
      <3> QED BY <1>1, <3>1, Sizes DEF full
    <2>3. frame' = [frame EXCEPT ![p].pc = "write_copy"]
      BY <1>1 DEF write_test, Goto
    <2>4. Roles'
      BY <1>0, <2>3 DEF Roles, ReadPC, WritePC, Frame
    <2>5. Positions(R, W)' /\ Bytes(R, W)'
      BY <1>0, <2>1 DEF Positions, Bytes, bufVars
    <2>6. Reader(rd, R, W)' /\ Writer(wr, R, W)'
      BY <1>0, <2>1, <2>2, <2>3 DEF Reader, Writer, bufVars, Frame
    <2> QED BY <2>4, <2>5, <2>6 DEF FInv
  <1>2. CASE full
    <2>1. frame' = [frame EXCEPT ![p].pc = "write_ask"]
      BY <1>2 DEF write_test, Goto
    <2>2. Calm
      BY <1>0, <2>1 DEF Calm, CopyPC, Frame
    <2>3. Roles'
      BY <1>0, <2>1 DEF Roles, ReadPC, WritePC, Frame
    <2> QED BY <2>2, <2>3, CalmStep
  <1> QED BY <1>1, <1>2

\* write_copy keeps the invariant.
LEMMA WriteCopyFifo ==
  ASSUME TypeOK, NEW rd \in Proc, NEW wr \in Proc, Writers \subseteq {wr}, FInv(rd, wr),
         NEW p \in Proc, write_copy(p)
  PROVE  FInv(rd, wr)'
  <1>0. /\ frame \in [Proc -> Frame] /\ frame[p].pc = "write_copy" /\ Roles /\ sent \in Seq(Nat)
        /\ p_buf \in [0 .. PIPE_SIZE - 1 -> Nat]
        /\ p_rpos' = p_rpos /\ p_wpos' = p_wpos /\ got' = got
        /\ p_buf' = [p_buf EXCEPT ![p_wpos % PIPE_SIZE] = Len(sent) + 1]
        /\ sent' = Append(sent, Len(sent) + 1)
    BY DEF TypeOK, BufType, write_copy, At, FInv
  <1>1. p = wr
    BY <1>0 DEF Roles, WritePC
  <1>2. PICK R, W \in Nat : Positions(R, W) /\ Bytes(R, W) /\ Reader(rd, R, W) /\ Writer(wr, R, W)
    BY DEF FInv
  <1>3. frame' = [frame EXCEPT ![p] = [frame[p] EXCEPT !.pc = "write_inc", !.tmp = p_wpos]]
    BY <1>0 DEF write_copy
  <1>4. Roles'
    BY <1>0, <1>3 DEF Roles, ReadPC, WritePC, Frame
  <1>5. W < R + PIPE_SIZE /\ Len(sent) = W
    BY <1>0, <1>1, <1>2 DEF Writer
  <1>6. Len(sent') = W + 1 /\ p_buf' = [p_buf EXCEPT ![W % PIPE_SIZE] = W + 1]
    <2>1. p_wpos % PIPE_SIZE = W % PIPE_SIZE
      BY <1>2, Distance
    <2>2. p_buf' = [p_buf EXCEPT ![W % PIPE_SIZE] = W + 1]
      BY <1>0, <1>5, <2>1
    <2>3. Len(sent') = W + 1
      BY <1>0, <1>5
    <2> QED BY <2>2, <2>3
  <1>7. W % PIPE_SIZE \in 0 .. PIPE_SIZE - 1
    BY Index
  <1>8. ASSUME NEW k \in R + 1 .. W + 1 PROVE p_buf'[(k - 1) % PIPE_SIZE] = k
    <2>1. (k - 1) % PIPE_SIZE \in 0 .. PIPE_SIZE - 1
      BY Index
    <2>2. CASE k = W + 1
      <3>1. k - 1 = W
        BY <2>2
      <3> QED BY <1>0, <1>6, <1>7, <2>2, <3>1
    <2>3. CASE k # W + 1
      <3>1. k \in R + 1 .. Len(sent) /\ k - 1 \in Int /\ W \in Int /\ k - 1 < W /\ W < (k - 1) + PIPE_SIZE
        BY <1>5, <2>3, Sizes
      <3>2. (k - 1) % PIPE_SIZE # W % PIPE_SIZE
        BY <3>1, Sizes, ModNear
      <3>3. p_buf[(k - 1) % PIPE_SIZE] = k
        BY <1>2, <3>1 DEF Bytes
      <3> QED BY <1>0, <1>6, <1>7, <2>1, <3>2, <3>3
    <2> QED BY <2>2, <2>3
  <1>9. Positions(R, W)' /\ Bytes(R, W)'
    <2>1. Len(sent') \in {W, W + 1} /\ Len(sent') <= R + PIPE_SIZE
      BY <1>5, <1>6, Sizes
    <2>2. \A k \in R + 1 .. Len(sent') : p_buf'[(k - 1) % PIPE_SIZE] = k
      BY <1>6, <1>8
    <2> QED BY <1>0, <1>2, <2>1, <2>2 DEF Positions, Bytes
  <1>10. Reader(rd, R, W)' /\ Writer(wr, R, W)'
    <2>1. frame'[p].pc = "write_inc" /\ frame'[p].tmp = p_wpos
      BY <1>0, <1>3 DEF Frame
    <2>2. \A s \in Proc \ {p} : frame'[s] = frame[s]
      BY <1>0, <1>3
    <2> QED BY <1>0, <1>1, <1>2, <1>6, <2>1, <2>2 DEF Reader, Writer
  <1> QED BY <1>4, <1>9, <1>10 DEF FInv

\* write_inc keeps the invariant.
LEMMA WriteIncFifo ==
  ASSUME TypeOK, NEW rd \in Proc, NEW wr \in Proc, Writers \subseteq {wr}, FInv(rd, wr),
         NEW p \in Proc, write_inc(p)
  PROVE  FInv(rd, wr)'
  <1>0. /\ frame \in [Proc -> Frame] /\ frame[p].pc = "write_inc" /\ Roles
        /\ got \in Seq(Nat) /\ sent \in Seq(Nat)
        /\ p_wpos' = (frame[p].tmp + 1) % PosMod
        /\ p_rpos' = p_rpos /\ p_buf' = p_buf /\ sent' = sent /\ got' = got
    BY DEF TypeOK, BufType, write_inc, At, FInv
  <1>1. p = wr
    BY <1>0 DEF Roles, WritePC
  <1>2. PICK R, W \in Nat : Positions(R, W) /\ Bytes(R, W) /\ Reader(rd, R, W) /\ Writer(wr, R, W)
    BY DEF FInv
  <1>3. (frame'[p].pc = "idle" \/ frame'[p].pc = "write") /\ \A s \in Proc \ {p} : frame'[s] = frame[s]
    BY <1>0, IdleFields DEF write_inc, NextByte, Frame
  <1>4. Roles'
    BY <1>0, <1>3 DEF Roles, ReadPC, WritePC
  <1>5. frame[p].tmp = p_wpos /\ Len(sent) = W + 1
    BY <1>0, <1>1, <1>2 DEF Writer
  <1>6. p_wpos' = (W + 1) % PosMod
    <2>1. PosMod \in Nat \ {0} /\ W \in Int
      BY Sizes
    <2>2. ((W % PosMod) + 1) % PosMod = (W + 1) % PosMod
      BY <2>1, ModSucc, Zenon
    <2> QED BY <1>0, <1>2, <1>5, <2>2 DEF Positions
  <1>7. W + 1 \in Nat /\ W + 1 <= R + PIPE_SIZE /\ PIPE_SIZE \in Nat
    BY <1>2, <1>5, Sizes DEF Bytes
  <1>8. Positions(R, W + 1)'
    BY <1>0, <1>2, <1>6, <1>7 DEF Positions
  <1>9. Bytes(R, W + 1)'
    <2>1. Len(got) \in Nat
      BY <1>0
    <2> QED BY <1>0, <1>2, <1>5, <1>7, <2>1 DEF Bytes
  <1>10. Reader(rd, R, W + 1)' /\ Writer(wr, R, W + 1)'
    <2>1. Writer(wr, R, W + 1)'
      BY <1>0, <1>1, <1>3, <1>5 DEF Writer
    <2>2. Reader(rd, R, W) /\ (frame'[rd].pc = "read_copy" => R < W + 1)
      <3>1. frame'[rd].pc = "read_copy" => frame[rd].pc = "read_copy"
        BY <1>3
      <3>2. R < W => R < W + 1
        BY <1>7
      <3> QED BY <1>2, <3>1, <3>2 DEF Reader
    <2>3. Reader(rd, R, W + 1)'
      BY <1>0, <1>1, <1>3, <2>2 DEF Reader
    <2> QED BY <2>1, <2>3
  <1> QED BY <1>4, <1>7, <1>8, <1>9, <1>10 DEF FInv

------------------------------------------------------------------------------
\* The invariant holds of the empty pipe.
LEMMA FifoInit ==
  ASSUME NEW rd \in Proc, NEW wr \in Proc, Init
  PROVE  FInv(rd, wr)
  <1>1. \A p \in Proc : frame[p].pc \in {"idle", "unborn"}
    BY IdleFields DEF Init
  <1>2. Roles
    BY <1>1 DEF Roles, ReadPC, WritePC
  <1>3. 0 % PosMod = 0
    BY Sizes, ModSmall
  <1>4. Positions(0, 0)
    BY <1>3, Sizes DEF Init, Positions
  <1>5. Len(sent) = 0 /\ Len(got) = 0
    BY DEF Init
  <1>6. Bytes(0, 0)
    BY <1>5, Sizes DEF Bytes
  <1>7. Reader(rd, 0, 0) /\ Writer(wr, 0, 0)
    BY <1>1, <1>5 DEF Reader, Writer
  <1> QED BY <1>2, <1>4, <1>6, <1>7 DEF FInv

\* It is inductive.
LEMMA FifoStep ==
  ASSUME NEW rd \in Proc, NEW wr \in Proc, Readers \subseteq {rd}, Writers \subseteq {wr},
         PInv, FInv(rd, wr), [Next]_vars
  PROVE  FInv(rd, wr)'
  <1>0. TypeOK /\ Kids /\ Roles
    BY DEF PInv, Shape, FInv
  <1>1. CASE UNCHANGED vars
    <2>1. Calm /\ Roles'
      BY <1>0, <1>1 DEF vars, bufVars, Calm, Roles
    <2> QED BY <2>1, CalmStep
  <1>2. ASSUME NEW p \in Proc, call(p) \/ step(p) \/ env_destroy(p) PROVE FInv(rd, wr)'
    <2>1. CASE read_test(p) \/ read_copy(p) \/ read_inc(p)
      BY <1>0, <2>1, ReadTestFifo, ReadCopyFifo, ReadIncFifo
    <2>2. CASE write_test(p) \/ write_copy(p) \/ write_inc(p)
      BY <1>0, <2>2, WriteTestFifo, WriteCopyFifo, WriteIncFifo
    <2>3. CASE ~(\/ read_test(p) \/ read_copy(p) \/ read_inc(p)
                 \/ write_test(p) \/ write_copy(p) \/ write_inc(p))
      BY <1>0, <1>2, <2>3, CalmSteps, CalmStep
    <2> QED BY <2>1, <2>2, <2>3
  <1> QED BY <1>1, <1>2 DEF Next

\* The invariant implies Fifo.
LEMMA FifoHolds ==
  ASSUME NEW rd, NEW wr, TypeOK, FInv(rd, wr)
  PROVE  Fifo
  <1>1. PICK R, W \in Nat : Positions(R, W) /\ Bytes(R, W) /\ Reader(rd, R, W) /\ Writer(wr, R, W)
    BY DEF FInv
  <1>2. got \in Seq(Nat) /\ sent \in Seq(Nat)
    BY DEF TypeOK, BufType
  <1>3. \A k \in DOMAIN got : got[k] = k /\ k <= Len(sent)
    <2>1. DOMAIN got = 1 .. Len(got) /\ Len(got) \in Nat /\ Len(sent) \in Nat
      BY <1>2
    <2>2. Len(got) <= Len(sent) /\ \A k \in 1 .. Len(got) : got[k] = k
      <3>1. Len(got) <= W /\ Len(sent) >= W
        BY <1>1 DEF Bytes
      <3>2. Len(got) <= Len(sent)
        BY <2>1, <3>1
      <3>3. \A k \in 1 .. Len(got) : got[k] = k
        BY <1>1 DEF Bytes
      <3> QED BY <3>2, <3>3
    <2> QED BY <2>1, <2>2
  <1>4. (p_wpos - p_rpos) % PosMod <= PIPE_SIZE
    <2>1. (p_wpos - p_rpos) % PosMod = W - R
      BY <1>1, Distance
    <2> QED BY <1>1, <2>1, Sizes DEF Positions
  <1> QED BY <1>3, <1>4 DEF Fifo

\* pipe_read gives one reader the bytes that one writer gave to pipe_write, in
\* their order, and pipe_write overwrites none that is still to be read, for any
\* buffer size, across the wrap of the positions and whoever is killed when.
THEOREM FirstInFirstOut ==
  ASSUME NEW rd \in Proc, NEW wr \in Proc, Readers \subseteq {rd}, Writers \subseteq {wr}
  PROVE  Spec => []Fifo
  <1>1. Init => FInv(rd, wr)
    BY FifoInit
  <1>2. PInv /\ FInv(rd, wr) /\ [Next]_vars => FInv(rd, wr)'
    BY FifoStep
  <1>3. PInv /\ FInv(rd, wr) => Fifo
    BY FifoHolds DEF PInv
  <1> QED BY <1>1, <1>2, <1>3, PipeInvariance, PTL DEF Spec
==============================================================================
