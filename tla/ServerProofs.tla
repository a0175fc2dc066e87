----------------------------- MODULE ServerProofs -----------------------------
(***************************************************************************)
(* Proofs about two workers on one backlog, for every pool, every set of   *)
(* descriptors and every set of peers.  All that a worker's step does to   *)
(* what they share is to take the first peer from the backlog: to the      *)
(* other worker that is OtherWorkerAccepts, or nothing.  Each worker is an *)
(* event loop therefore, and the theorems of EventLoopProofs hold of both. *)
(***************************************************************************)
EXTENDS Server, FiniteSetTheorems, TLAPS

OfA == INSTANCE EventLoopProofs WITH
         running <- aRunning, pc <- aPc, pending <- aPending, conns <- aConns,
         peer <- aPeer, interest <- aInterest, data <- aData, eof <- aEof,
         snapshot <- aSnapshot, raced <- aRaced
OfB == INSTANCE EventLoopProofs WITH
         running <- bRunning, pc <- bPc, pending <- bPending, conns <- bConns,
         peer <- bPeer, interest <- bInterest, data <- bData, eof <- bEof,
         snapshot <- bSnapshot, raced <- bRaced

\* What a step of a worker does to the backlog.
Takes ==
  \/ backlog' = backlog
  \/ backlog # <<>> /\ backlog' = Tail(backlog)

\* accept() takes the first peer, whatever becomes of it, and nothing else that
\* the first worker does is seen by the second one.
LEMMA StepsOfA == ASSUME StepOfA PROVE Takes
<1>1. CASE \/ A!LoopTest \/ A!EnterWait \/ A!WaitReturns \/ A!WaitFails
           \/ A!EndOfBatch \/ A!Terminate
  BY <1>1 DEF A!LoopTest, A!EnterWait, A!WaitReturns, A!WaitFails, A!EndOfBatch,
              A!Terminate, A!kernel, Takes
<1>2. CASE A!HandleAccept
  BY <1>2 DEF A!HandleAccept, A!AcceptFails, A!AcceptAbandoned, A!AcceptRefused,
              A!AcceptEstablished, A!kernel, Takes
<1>3. ASSUME NEW f \in Fds, A!HandleClient(f)
      PROVE  Takes
  BY <1>3 DEF A!HandleClient, A!ConnectionClosed, A!ConnectionReused,
              A!UnknownDescriptor, A!kernel, Takes
<1>4. CASE A!Sigint \/ \E f \in Fds : A!SendData(f) \/ A!HangUp(f)
  BY <1>4 DEF A!Sigint, A!SendData, A!HangUp, A!kernel, Takes
<1> QED
  BY <1>1, <1>2, <1>3, <1>4 DEF StepOfA, A!Worker

\* The same for the second worker.
LEMMA StepsOfB == ASSUME StepOfB PROVE Takes
<1>1. CASE \/ B!LoopTest \/ B!EnterWait \/ B!WaitReturns \/ B!WaitFails
           \/ B!EndOfBatch \/ B!Terminate
  BY <1>1 DEF B!LoopTest, B!EnterWait, B!WaitReturns, B!WaitFails, B!EndOfBatch,
              B!Terminate, B!kernel, Takes
<1>2. CASE B!HandleAccept
  BY <1>2 DEF B!HandleAccept, B!AcceptFails, B!AcceptAbandoned, B!AcceptRefused,
              B!AcceptEstablished, B!kernel, Takes
<1>3. ASSUME NEW f \in Fds, B!HandleClient(f)
      PROVE  Takes
  BY <1>3 DEF B!HandleClient, B!ConnectionClosed, B!ConnectionReused,
              B!UnknownDescriptor, B!kernel, Takes
<1>4. CASE B!Sigint \/ \E f \in Fds : B!SendData(f) \/ B!HangUp(f)
  BY <1>4 DEF B!Sigint, B!SendData, B!HangUp, B!kernel, Takes
<1> QED
  BY <1>1, <1>2, <1>3, <1>4 DEF StepOfB, B!Worker

Queue == backlog \in Seq(Clients)

\* The backlog stays a sequence of peers.
LEMMA BacklogIsQueue == Spec => []Queue
<1>1. Init => Queue
  BY DEF Init, A!Init, Queue
<1>2. Queue /\ [Next]_vars => Queue'
  <2> SUFFICES ASSUME Queue, [Next]_vars
               PROVE  backlog' \in Seq(Clients)
    BY DEF Queue
  <2>1. Takes => backlog' \in Seq(Clients)
    BY DEF Takes, Queue
  <2>2. ASSUME NEW c \in Clients, Connect(c)
        PROVE  backlog' \in Seq(Clients)
    BY <2>2 DEF Connect, Queue
  <2> QED
    BY <2>1, <2>2, StepsOfA, StepsOfB DEF Next, vars, Queue
<1> QED
  BY <1>1, <1>2, PTL DEF Spec

-----------------------------------------------------------------------------

\* Each worker is an event loop as EventLoop describes it, whatever the other
\* one does: to a worker a step of the other is OtherWorkerAccepts or nothing.
THEOREM Composition == Spec => BothAreEventLoops
<1>1. Init => A!Init /\ B!Init
  BY DEF Init
<1>2. ASSUME Queue, [Next]_vars
      PROVE  [A!Next]_(A!vars) /\ [B!Next]_(B!vars)
  <2>1. CASE StepOfA
    <3>1. A!Next
      BY <2>1 DEF StepOfA, A!Next, A!Environment
    <3>2. CASE backlog' = backlog
      BY <2>1, <3>1, <3>2 DEF StepOfA, bVars, B!vars
    <3>3. CASE backlog # <<>> /\ backlog' = Tail(backlog)
      BY <2>1, <3>1, <3>3 DEF StepOfA, bVars, B!Next, B!Environment, B!OtherWorkerAccepts
    <3> QED
      BY <2>1, <3>2, <3>3, StepsOfA DEF Takes
  <2>2. CASE StepOfB
    <3>1. B!Next
      BY <2>2 DEF StepOfB, B!Next, B!Environment
    <3>2. CASE backlog' = backlog
      BY <2>2, <3>1, <3>2 DEF StepOfB, aVars, A!vars
    <3>3. CASE backlog # <<>> /\ backlog' = Tail(backlog)
      BY <2>2, <3>1, <3>3 DEF StepOfB, aVars, A!Next, A!Environment, A!OtherWorkerAccepts
    <3> QED
      BY <2>2, <3>2, <3>3, StepsOfB DEF Takes
  <2>3. ASSUME NEW c \in Clients, Connect(c)
        PROVE  A!Connect(c) /\ B!Connect(c)
    <3>1. DOMAIN backlog = 1 .. Len(backlog)
      BY <1>2 DEF Queue
    <3> QED
      BY <2>3, <3>1
         DEF Connect, IsWaiting, IsServed, aVars, bVars, A!Connect, B!Connect
  <2>4. CASE UNCHANGED vars
    BY <2>4 DEF vars, aVars, bVars, A!vars, B!vars
  <2>5. CASE \E c \in Clients : Connect(c)
    BY <2>3, <2>5 DEF A!Next, A!Environment, B!Next, B!Environment
  <2> QED
    BY <1>2, <2>1, <2>2, <2>4, <2>5 DEF Next
<1> QED
  BY <1>1, <1>2, BacklogIsQueue, PTL DEF Spec, BothAreEventLoops, A!Spec, B!Spec

-----------------------------------------------------------------------------

\* The first worker is the event loop EventLoopProofs is about: the same
\* definitions, under two names.
LEMMA SameA == A!Spec => OfA!Spec
<1>0. \A S : A!Cardinality(S) = OfA!Cardinality(S)
  BY DEF A!Cardinality, OfA!Cardinality
<1>1. /\ A!Slots = OfA!Slots /\ A!Unused = OfA!Unused /\ A!Ready = OfA!Ready
      /\ A!Open = OfA!Open /\ \A f \in Fds : A!IsOpen(f) <=> OfA!IsOpen(f)
  BY DEF A!Slots, OfA!Slots, A!Unused, OfA!Unused, A!Ready, OfA!Ready, A!Open,
         OfA!Open, A!IsOpen, OfA!IsOpen
<1>2. /\ A!PoolIsFull <=> OfA!PoolIsFull
      /\ \A i \in A!Slots : A!FindsFree(i) <=> OfA!FindsFree(i)
      /\ \A i \in A!Slots, f \in Fds : A!FindsConnection(i, f) <=> OfA!FindsConnection(i, f)
  BY <1>1 DEF A!PoolIsFull, OfA!PoolIsFull, A!FindsFree, OfA!FindsFree,
         A!FindsConnection, OfA!FindsConnection
<1>3. \A f, c : A!Initialised(f, c) = OfA!Initialised(f, c)
  BY DEF A!Initialised, OfA!Initialised
<1>4. \A conn, f : A!AfterReading(conn, f) = OfA!AfterReading(conn, f)
  BY DEF A!AfterReading, OfA!AfterReading, A!Progressed, OfA!Progressed,
         A!RequestStates, OfA!RequestStates
<1>5. \A conn : A!MustClose(conn) <=> OfA!MustClose(conn)
  BY DEF A!MustClose, OfA!MustClose
<1>6. UNCHANGED A!vars => UNCHANGED OfA!vars
  BY DEF A!vars, OfA!vars, A!kernel, OfA!kernel
<1>7. A!Init => OfA!Init
  BY <1>1 DEF A!Init, OfA!Init
<1>8. ASSUME \/ A!LoopTest \/ A!EnterWait \/ A!WaitReturns \/ A!WaitFails
             \/ A!EndOfBatch \/ A!Terminate
      PROVE  OfA!Worker
  <2>1. A!LoopTest \/ A!EnterWait \/ A!WaitFails \/ A!EndOfBatch => OfA!Worker
    BY DEF OfA!Worker, A!LoopTest, OfA!LoopTest, A!EnterWait, OfA!EnterWait, A!WaitFails,
           OfA!WaitFails, A!EndOfBatch, OfA!EndOfBatch, A!kernel, OfA!kernel
  <2>2. A!WaitReturns => OfA!WaitReturns
    BY <1>1, <1>0 DEF A!WaitReturns, OfA!WaitReturns, A!kernel, OfA!kernel
  <2>3. A!Terminate => OfA!Terminate
    BY <1>1 DEF A!Terminate, OfA!Terminate
  <2> QED
    BY <1>8, <2>1, <2>2, <2>3 DEF OfA!Worker
<1>9. ASSUME A!HandleAccept
      PROVE  OfA!HandleAccept
  <2>1. A!AcceptFails \/ A!AcceptAbandoned \/ A!AcceptRefused => OfA!HandleAccept
    BY <1>1, <1>2
       DEF OfA!HandleAccept, A!AcceptFails, OfA!AcceptFails, A!AcceptAbandoned,
           OfA!AcceptAbandoned, A!AcceptRefused, OfA!AcceptRefused,
           A!TakeEvent, OfA!TakeEvent, A!kernel, OfA!kernel
  <2>2. A!AcceptEstablished => OfA!AcceptEstablished
    BY <1>1, <1>2, <1>3 DEF A!AcceptEstablished, OfA!AcceptEstablished, A!TakeEvent,
           OfA!TakeEvent
  <2> QED
    BY <1>9, <2>1, <2>2 DEF A!HandleAccept, OfA!HandleAccept
<1>10. ASSUME NEW f \in Fds, A!HandleClient(f)
       PROVE  OfA!Worker
  BY <1>1, <1>2, <1>3, <1>4, <1>5, <1>10
     DEF A!HandleClient, OfA!HandleClient, A!ConnectionClosed,
         OfA!ConnectionClosed, A!ConnectionReused, OfA!ConnectionReused,
         A!UnknownDescriptor, OfA!UnknownDescriptor, A!TakeEvent,
         OfA!TakeEvent, A!Close, OfA!Close, A!kernel, OfA!kernel, OfA!Worker
<1>11. A!Environment => OfA!Environment
  BY <1>1
     DEF A!Environment, OfA!Environment, A!Sigint, OfA!Sigint, A!Connect,
         OfA!Connect, A!SendData, OfA!SendData, A!HangUp, OfA!HangUp,
         A!OtherWorkerAccepts, OfA!OtherWorkerAccepts, A!kernel, OfA!kernel
<1>12. [A!Next]_(A!vars) => [OfA!Next]_(OfA!vars)
  BY <1>6, <1>8, <1>9, <1>10, <1>11 DEF A!Next, OfA!Next, A!Worker, OfA!Worker
<1> QED
  BY <1>7, <1>12, PTL DEF A!Spec, OfA!Spec

\* And so is the second one.
LEMMA SameB == B!Spec => OfB!Spec
<1>0. \A S : B!Cardinality(S) = OfB!Cardinality(S)
  BY DEF B!Cardinality, OfB!Cardinality
<1>1. /\ B!Slots = OfB!Slots /\ B!Unused = OfB!Unused /\ B!Ready = OfB!Ready
      /\ B!Open = OfB!Open /\ \A f \in Fds : B!IsOpen(f) <=> OfB!IsOpen(f)
  BY DEF B!Slots, OfB!Slots, B!Unused, OfB!Unused, B!Ready, OfB!Ready, B!Open,
         OfB!Open, B!IsOpen, OfB!IsOpen
<1>2. /\ B!PoolIsFull <=> OfB!PoolIsFull
      /\ \A i \in B!Slots : B!FindsFree(i) <=> OfB!FindsFree(i)
      /\ \A i \in B!Slots, f \in Fds : B!FindsConnection(i, f) <=> OfB!FindsConnection(i, f)
  BY <1>1 DEF B!PoolIsFull, OfB!PoolIsFull, B!FindsFree, OfB!FindsFree,
         B!FindsConnection, OfB!FindsConnection
<1>3. \A f, c : B!Initialised(f, c) = OfB!Initialised(f, c)
  BY DEF B!Initialised, OfB!Initialised
<1>4. \A conn, f : B!AfterReading(conn, f) = OfB!AfterReading(conn, f)
  BY DEF B!AfterReading, OfB!AfterReading, B!Progressed, OfB!Progressed,
         B!RequestStates, OfB!RequestStates
<1>5. \A conn : B!MustClose(conn) <=> OfB!MustClose(conn)
  BY DEF B!MustClose, OfB!MustClose
<1>6. UNCHANGED B!vars => UNCHANGED OfB!vars
  BY DEF B!vars, OfB!vars, B!kernel, OfB!kernel
<1>7. B!Init => OfB!Init
  BY <1>1 DEF B!Init, OfB!Init
<1>8. ASSUME \/ B!LoopTest \/ B!EnterWait \/ B!WaitReturns \/ B!WaitFails
             \/ B!EndOfBatch \/ B!Terminate
      PROVE  OfB!Worker
  <2>1. B!LoopTest \/ B!EnterWait \/ B!WaitFails \/ B!EndOfBatch => OfB!Worker
    BY DEF OfB!Worker, B!LoopTest, OfB!LoopTest, B!EnterWait, OfB!EnterWait, B!WaitFails,
           OfB!WaitFails, B!EndOfBatch, OfB!EndOfBatch, B!kernel, OfB!kernel
  <2>2. B!WaitReturns => OfB!WaitReturns
    BY <1>1, <1>0 DEF B!WaitReturns, OfB!WaitReturns, B!kernel, OfB!kernel
  <2>3. B!Terminate => OfB!Terminate
    BY <1>1 DEF B!Terminate, OfB!Terminate
  <2> QED
    BY <1>8, <2>1, <2>2, <2>3 DEF OfB!Worker
<1>9. ASSUME B!HandleAccept
      PROVE  OfB!HandleAccept
  <2>1. B!AcceptFails \/ B!AcceptAbandoned \/ B!AcceptRefused => OfB!HandleAccept
    BY <1>1, <1>2
       DEF OfB!HandleAccept, B!AcceptFails, OfB!AcceptFails, B!AcceptAbandoned,
           OfB!AcceptAbandoned, B!AcceptRefused, OfB!AcceptRefused,
           B!TakeEvent, OfB!TakeEvent, B!kernel, OfB!kernel
  <2>2. B!AcceptEstablished => OfB!AcceptEstablished
    BY <1>1, <1>2, <1>3 DEF B!AcceptEstablished, OfB!AcceptEstablished, B!TakeEvent,
           OfB!TakeEvent
  <2> QED
    BY <1>9, <2>1, <2>2 DEF B!HandleAccept, OfB!HandleAccept
<1>10. ASSUME NEW f \in Fds, B!HandleClient(f)
       PROVE  OfB!Worker
  BY <1>1, <1>2, <1>3, <1>4, <1>5, <1>10
     DEF B!HandleClient, OfB!HandleClient, B!ConnectionClosed,
         OfB!ConnectionClosed, B!ConnectionReused, OfB!ConnectionReused,
         B!UnknownDescriptor, OfB!UnknownDescriptor, B!TakeEvent,
         OfB!TakeEvent, B!Close, OfB!Close, B!kernel, OfB!kernel, OfB!Worker
<1>11. B!Environment => OfB!Environment
  BY <1>1
     DEF B!Environment, OfB!Environment, B!Sigint, OfB!Sigint, B!Connect,
         OfB!Connect, B!SendData, OfB!SendData, B!HangUp, OfB!HangUp,
         B!OtherWorkerAccepts, OfB!OtherWorkerAccepts, B!kernel, OfB!kernel
<1>12. [B!Next]_(B!vars) => [OfB!Next]_(OfB!vars)
  BY <1>6, <1>8, <1>9, <1>10, <1>11 DEF B!Next, OfB!Next, B!Worker, OfB!Worker
<1> QED
  BY <1>7, <1>12, PTL DEF B!Spec, OfB!Spec

Served == {c \in Clients : IsServed(c)}

\* The peers of the open descriptors are served, each at one descriptor.
LEMMA OpenAreServed ==
  ASSUME NEW S, IsFiniteSet(S), NEW D, IsFiniteSet(D), NEW p,
         \A f \in D : p[f] \in S,
         \A f, g \in D : p[f] = p[g] => f = g
  PROVE  Cardinality(D) <= Cardinality(S)
<1> DEFINE q == [f \in D |-> p[f]]
<1>1. q \in Injection(D, S)
  BY DEF Injection, IsInjective
<1> HIDE DEF q
<1> QED
  BY <1>1, FS_Injection

\* Finitely many descriptors have finitely many peers.
LEMMA PeersAreFinite ==
  ASSUME NEW D, IsFiniteSet(D), NEW p
  PROVE  IsFiniteSet({p[f] : f \in D})
<1> DEFINE q == [f \in D |-> p[f]]
           T == {p[f] : f \in D}
<1>1. q \in Surjection(D, T)
  BY DEF Surjection
<1> HIDE DEF q, T
<1>2. IsFiniteSet(T)
  BY <1>1, FS_Surjection
<1> QED
  BY <1>2 DEF T

\* What the invariant of EventLoopProofs says of the first worker's descriptors.
LEMMA OpenOfA ==
  ASSUME OfA!IInv, OfA!DistinctPeers
  PROVE  /\ IsFiniteSet(A!Open)
         /\ A!PoolIsFull => Cardinality(A!Open) = MaxConnections
         /\ \A f \in A!Open : f \in Fds /\ aPeer[f] \in Clients
         /\ \A f, g \in A!Open : aPeer[f] = aPeer[g] => f = g
<1>1. A!Open = OfA!Open
  BY DEF A!Open, OfA!Open, A!IsOpen, OfA!IsOpen
<1>2. \A S : OfA!Cardinality(S) = Cardinality(S) /\ (OfA!IsFiniteSet(S) <=> IsFiniteSet(S))
  BY DEF OfA!Cardinality, Cardinality, OfA!IsFiniteSet, IsFiniteSet
<1>3. /\ OfA!IsFiniteSet(OfA!Open)
      /\ OfA!Cardinality(OfA!Open) = OfA!Cardinality(OfA!Busy)
      /\ OfA!Cardinality(OfA!Slots) = MaxConnections
  BY OfA!OpenHasSizeOfBusy, ServerAssumption
<1>4. A!PoolIsFull => OfA!Busy = OfA!Slots
  BY DEF A!PoolIsFull, OfA!Busy, A!Slots, OfA!Slots
<1>5. aPeer \in [Fds -> Clients \cup {NoClient}]
  BY DEF OfA!IInv, OfA!TypeOK
<1>6. \A f \in OfA!Open : f \in Fds /\ aPeer[f] \in Clients
  BY <1>5 DEF OfA!Open, OfA!IsOpen
<1>7. \A f, g \in OfA!Open : aPeer[f] = aPeer[g] => f = g
  BY DEF OfA!DistinctPeers
<1> QED
  BY <1>1, <1>2, <1>3, <1>4, <1>6, <1>7

\* What the invariant of EventLoopProofs says of the second worker's descriptors.
LEMMA OpenOfB ==
  ASSUME OfB!IInv, OfB!DistinctPeers
  PROVE  /\ IsFiniteSet(B!Open)
         /\ B!PoolIsFull => Cardinality(B!Open) = MaxConnections
         /\ \A f \in B!Open : f \in Fds /\ bPeer[f] \in Clients
         /\ \A f, g \in B!Open : bPeer[f] = bPeer[g] => f = g
<1>1. B!Open = OfB!Open
  BY DEF B!Open, OfB!Open, B!IsOpen, OfB!IsOpen
<1>2. \A S : OfB!Cardinality(S) = Cardinality(S) /\ (OfB!IsFiniteSet(S) <=> IsFiniteSet(S))
  BY DEF OfB!Cardinality, Cardinality, OfB!IsFiniteSet, IsFiniteSet
<1>3. /\ OfB!IsFiniteSet(OfB!Open)
      /\ OfB!Cardinality(OfB!Open) = OfB!Cardinality(OfB!Busy)
      /\ OfB!Cardinality(OfB!Slots) = MaxConnections
  BY OfB!OpenHasSizeOfBusy, ServerAssumption
<1>4. B!PoolIsFull => OfB!Busy = OfB!Slots
  BY DEF B!PoolIsFull, OfB!Busy, B!Slots, OfB!Slots
<1>5. bPeer \in [Fds -> Clients \cup {NoClient}]
  BY DEF OfB!IInv, OfB!TypeOK
<1>6. \A f \in OfB!Open : f \in Fds /\ bPeer[f] \in Clients
  BY <1>5 DEF OfB!Open, OfB!IsOpen
<1>7. \A f, g \in OfB!Open : bPeer[f] = bPeer[g] => f = g
  BY DEF OfB!DistinctPeers
<1> QED
  BY <1>1, <1>2, <1>3, <1>4, <1>6, <1>7

Sound == OfA!IInv /\ OfA!DistinctPeers /\ OfB!IInv /\ OfB!DistinctPeers

\* The invariant of an event loop holds of both workers.
THEOREM BothAreSound == Spec => []Sound
<1>1. OfA!Spec => [](OfA!IInv /\ OfA!DistinctPeers)
  BY OfA!PeersAreDistinct, ServerAssumption, PTL
<1>2. OfB!Spec => [](OfB!IInv /\ OfB!DistinctPeers)
  BY OfB!PeersAreDistinct, ServerAssumption, PTL
<1> QED
  BY <1>1, <1>2, Composition, SameA, SameB, PTL DEF BothAreEventLoops, Sound

\* No sequence of connections, races and signals makes either worker follow the
\* NULL connection of main.c 315.
THEOREM NeitherCrashes == Spec => [](A!NeverCrashes /\ B!NeverCrashes)
<1>1. Sound => A!NeverCrashes /\ B!NeverCrashes
  BY DEF Sound, OfA!IInv, OfB!IInv, A!NeverCrashes, OfA!NeverCrashes,
         B!NeverCrashes, OfB!NeverCrashes
<1> QED
  BY <1>1, BothAreSound, PTL

\* A full worker has a peer of its own at each slot, so a refused connection
\* finds that many served.
THEOREM RefusalsAreJust == Spec => RefusedOnlyWhenOneIsFull
<1>1. ASSUME Sound, A!AcceptRefused \/ B!AcceptRefused
      PROVE  Cardinality(Served) >= MaxConnections
  <2>1. Served = {aPeer[f] : f \in A!Open} \cup {bPeer[f] : f \in B!Open}
    <3>1. \A f \in A!Open : f \in Fds /\ aPeer[f] \in Clients
      BY <1>1, OpenOfA DEF Sound
    <3>2. \A f \in B!Open : f \in Fds /\ bPeer[f] \in Clients
      BY <1>1, OpenOfB DEF Sound
    <3> QED
      BY <3>1, <3>2, ServerAssumption
         DEF Served, IsServed, A!Open, B!Open, A!IsOpen, B!IsOpen
  <2>2. IsFiniteSet(A!Open) /\ IsFiniteSet(B!Open)
    BY <1>1, OpenOfA, OpenOfB DEF Sound
  <2>3. IsFiniteSet(Served)
    <3>1. /\ IsFiniteSet({aPeer[f] : f \in A!Open})
          /\ IsFiniteSet({bPeer[f] : f \in B!Open})
      BY <2>2, PeersAreFinite
    <3> QED
      BY <2>1, <3>1, FS_Union
  <2>4. /\ Cardinality(A!Open) <= Cardinality(Served)
        /\ Cardinality(B!Open) <= Cardinality(Served)
    <3>1. /\ \A f \in A!Open : aPeer[f] \in Served
          /\ \A f, g \in A!Open : aPeer[f] = aPeer[g] => f = g
      BY <1>1, <2>1, OpenOfA DEF Sound
    <3>2. /\ \A f \in B!Open : bPeer[f] \in Served
          /\ \A f, g \in B!Open : bPeer[f] = bPeer[g] => f = g
      BY <1>1, <2>1, OpenOfB DEF Sound
    <3>3. Cardinality(A!Open) <= Cardinality(Served)
      BY <2>2, <2>3, <3>1, OpenAreServed
    <3>4. Cardinality(B!Open) <= Cardinality(Served)
      BY <2>2, <2>3, <3>2, OpenAreServed
    <3> QED
      BY <3>3, <3>4
  <2>5. \/ Cardinality(A!Open) = MaxConnections
        \/ Cardinality(B!Open) = MaxConnections
    BY <1>1, OpenOfA, OpenOfB DEF Sound, A!AcceptRefused, B!AcceptRefused
  <2> QED
    BY <2>3, <2>4, <2>5, FS_CardinalityType, ServerAssumption
<1>2. Sound /\ [Next]_vars =>
        [A!AcceptRefused \/ B!AcceptRefused =>
           Cardinality({c \in Clients : IsServed(c)}) >= MaxConnections]_vars
  BY <1>1 DEF Served
<1> QED
  BY <1>2, BothAreSound, PTL DEF Spec, RefusedOnlyWhenOneIsFull

=============================================================================
