--------------------------- MODULE EventLoopProofs ---------------------------
(***************************************************************************)
(* Proofs about EventLoop for every size of the pool and of a batch and    *)
(* every set of descriptors and of peers.                                  *)
(*                                                                         *)
(* The invariants the runs check are not inductive: that the scan of       *)
(* sl_net_find_connection ends in the right slot depends on what the slots *)
(* before it hold, freed ones included.  IInv adds that (NoShadow), and    *)
(* that the events of a batch are for descriptors that stay open until     *)
(* they are handled (PendingIsOpen).  The refinements of ConnectionTable   *)
(* and of WorkerLife follow at the end.                                    *)
(***************************************************************************)
EXTENDS EventLoop, FiniteSetTheorems, TLAPS

(***************************************************************************)
(* Type correctness.                                                       *)
(***************************************************************************)

\* sl_net_init_connection makes a connection.
LEMMA InitialisedType ==
  ASSUME NEW f \in Fds, NEW c \in Clients \cup {NoClient}
  PROVE  Initialised(f, c) \in Connection
BY DEF Initialised, Connection, RequestStates

\* What recv() and the parser do to a connection changes its request only.
LEMMA AfterReadingType ==
  ASSUME NEW conn \in Connection, NEW f, NEW new, new \in AfterReading(conn, f)
  PROVE  /\ new \in Connection
         /\ new.socket_fd = conn.socket_fd
         /\ new.address = conn.address
         /\ new.is_busy = conn.is_busy
<1>1. CASE new = conn
  BY <1>1
<1>2. ASSUME NEW s \in RequestStates, NEW k \in BOOLEAN,
             new = Progressed(conn, s, k)
      PROVE  /\ new \in Connection
             /\ new.socket_fd = conn.socket_fd
             /\ new.address = conn.address
             /\ new.is_busy = conn.is_busy
  BY <1>2 DEF Progressed, Connection
<1>3. \/ new = conn
      \/ \E s \in RequestStates, k \in BOOLEAN : new = Progressed(conn, s, k)
  BY SMT DEF AfterReading
<1>4. QED
  BY <1>1, <1>2, <1>3

\* sl_main_event_loop starts with zeroed slots and nothing open.
LEMMA InitTypeOK == Init => TypeOK
<1>1. Unused \in Connection
  BY DEF Unused, Connection, RequestStates
<1>2. <<>> \in Seq(Clients)
  OBVIOUS
<1>3. Init => snapshot = [f \in Fds |-> NoClient]
  BY DEF Init
<1>4. Init => peer \in [Fds -> Clients \cup {NoClient}] /\ conns \in [Slots -> Connection]
  BY <1>1 DEF Init
<1>5. QED
  BY <1>2, <1>3, <1>4 DEF Init, TypeOK

\* No step of the worker, of a peer or of a signal leaves the types.
LEMMA NextTypeOK == TypeOK /\ [Next]_vars => TypeOK'
<1> SUFFICES ASSUME TypeOK, [Next]_vars
             PROVE  TypeOK'
  OBVIOUS
<1> USE DEF TypeOK
<1>1. CASE LoopTest
  BY <1>1 DEF LoopTest, kernel
<1>2. CASE EnterWait
  BY <1>2 DEF EnterWait, kernel
<1>3. CASE WaitReturns
  <2>1. pending' \subseteq Ready
    BY <1>3 DEF WaitReturns
  <2>2. Ready \subseteq Fds \cup {ServerSocket}
    BY DEF Ready
  <2> QED
    BY <1>3, <2>1, <2>2 DEF WaitReturns, kernel
<1>4. CASE WaitFails
  BY <1>4 DEF WaitFails, kernel
<1>5. CASE EndOfBatch
  BY <1>5 DEF EndOfBatch, kernel
<1>6. CASE Terminate
  BY <1>6 DEF Terminate, Unused, Connection, RequestStates
<1>7. CASE AcceptFails
  BY <1>7 DEF AcceptFails, TakeEvent, kernel
<1>8. CASE AcceptAbandoned
  BY <1>8 DEF AcceptAbandoned, TakeEvent
<1>9. CASE AcceptRefused
  BY <1>9 DEF AcceptRefused, TakeEvent
<1>10. CASE AcceptEstablished
  <2>1. Head(backlog) \in Clients /\ Tail(backlog) \in Seq(Clients)
    BY <1>10 DEF AcceptEstablished
  <2>2. PICK f \in Fds, i \in Slots :
          /\ peer' = [peer EXCEPT ![f] = Head(backlog)]
          /\ interest' = interest \cup {f}
          /\ conns' = [conns EXCEPT ![i] = Initialised(f, Head(backlog))]
    BY <1>10 DEF AcceptEstablished
  <2>3. Initialised(f, Head(backlog)) \in Connection
    BY <2>1, InitialisedType
  <2>4. conns' \in [Slots -> Connection]
    BY <2>2, <2>3
  <2> QED
    BY <1>10, <2>1, <2>2, <2>4 DEF AcceptEstablished, TakeEvent
<1>11. ASSUME NEW f \in Fds, HandleClient(f)
       PROVE  TypeOK'
  <2>1. CASE ConnectionClosed(f)
    <3>0. PICK i \in Slots : \E conn \in AfterReading(conns[i], f) :
            conns' = [conns EXCEPT ![i] = [conn EXCEPT !.is_busy = FALSE]]
      BY <2>1 DEF ConnectionClosed
    <3>1. PICK conn \in AfterReading(conns[i], f) :
            conns' = [conns EXCEPT ![i] = [conn EXCEPT !.is_busy = FALSE]]
      BY <3>0
    <3>2. conn \in Connection
      BY <3>1, AfterReadingType
    <3>3. [conn EXCEPT !.is_busy = FALSE] \in Connection
      BY <3>2 DEF Connection
    <3>4. conns' \in [Slots -> Connection]
      BY <3>1, <3>3
    <3> QED
      BY <2>1, <3>4 DEF ConnectionClosed, TakeEvent, Close
  <2>2. CASE ConnectionReused(f)
    <3>0. PICK i \in Slots : \E conn \in AfterReading(conns[i], f) :
            conns' = [conns EXCEPT
                        ![i] = Initialised(conn.socket_fd, conn.address)]
      BY <2>2 DEF ConnectionReused
    <3>1. PICK conn \in AfterReading(conns[i], f) :
            conns' = [conns EXCEPT
                        ![i] = Initialised(conn.socket_fd, conn.address)]
      BY <3>0
    <3>2. conn \in Connection
      BY <3>1, AfterReadingType
    <3>3. Initialised(conn.socket_fd, conn.address) \in Connection
      BY <3>2 DEF Connection, Initialised, RequestStates
    <3>4. conns' \in [Slots -> Connection]
      BY <3>1, <3>3
    <3> QED
      BY <2>2, <3>4 DEF ConnectionReused, TakeEvent
  <2>3. CASE UnknownDescriptor(f)
    BY <2>3 DEF UnknownDescriptor, kernel
  <2> QED
    BY <1>11, <2>1, <2>2, <2>3 DEF HandleClient
<1>12. CASE Sigint
  BY <1>12 DEF Sigint, kernel
<1>13. CASE OtherWorkerAccepts
  BY <1>13 DEF OtherWorkerAccepts
<1>14. ASSUME NEW c \in Clients, Connect(c)
       PROVE  TypeOK'
  BY <1>14 DEF Connect
<1>15. ASSUME NEW f \in Fds, SendData(f)
       PROVE  TypeOK'
  BY <1>15 DEF SendData
<1>16. ASSUME NEW f \in Fds, HangUp(f)
       PROVE  TypeOK'
  BY <1>16 DEF HangUp
<1>17. CASE UNCHANGED vars
  BY <1>17 DEF vars
<1> QED
  BY <1>1, <1>2, <1>3, <1>4, <1>5, <1>6, <1>7, <1>8, <1>9, <1>10, <1>11,
     <1>12, <1>13, <1>14, <1>15, <1>16, <1>17
     DEF Next, Worker, Environment, HandleAccept

\* Type correctness: whatever the worker, its peers, the other worker and
\* signals do, the pool and the kernel's tables keep their types.
THEOREM TypeCorrectness == Spec => []TypeOK
<1>1. Init => TypeOK
  BY InitTypeOK
<1>2. TypeOK /\ [Next]_vars => TypeOK'
  BY NextTypeOK
<1> QED
  BY <1>1, <1>2, PTL DEF Spec

-----------------------------------------------------------------------------
(***************************************************************************)
(* The inductive invariant.                                                *)
(***************************************************************************)

BusyOwnsDescriptor ==
  \A i \in Slots : conns[i].is_busy =>
    /\ conns[i].socket_fd \in Open
    /\ conns[i].address = peer[conns[i].socket_fd]

\* No slot before a busy one, freed or not, holds its descriptor.
NoShadow ==
  \A i, j \in Slots :
    conns[i].is_busy /\ j < i => conns[j].socket_fd # conns[i].socket_fd

OpenHasSlot ==
  \A f \in Open : \E i \in Slots : conns[i].is_busy /\ conns[i].socket_fd = f

InterestIsOpen == interest \ {ServerSocket} = Open

PendingIsOpen ==
  pc = "handling" => \A f \in pending \ {ServerSocket} :
                       f \in Open /\ peer[f] = snapshot[f]

IInv ==
  /\ TypeOK
  /\ BusyOwnsDescriptor
  /\ NoShadow
  /\ OpenHasSlot
  /\ InterestIsOpen
  /\ PendingIsOpen
  /\ FreshBetweenEvents
  /\ NeverCrashes

\* What of the invariant speaks of the slots and the open descriptors.
PoolInv == BusyOwnsDescriptor /\ NoShadow /\ OpenHasSlot /\ FreshBetweenEvents

\* The scan for an open descriptor ends in the busy slot that owns it, and in
\* no other.
LEMMA LookupIsExact ==
  ASSUME IInv, NEW f \in Open
  PROVE  /\ \E i \in Slots : FindsConnection(i, f)
         /\ \A i \in Slots : FindsConnection(i, f) =>
              /\ conns[i].is_busy
              /\ conns[i].socket_fd = f
              /\ conns[i].address = peer[f]
<1>1. PICK k \in Slots : conns[k].is_busy /\ conns[k].socket_fd = f
  BY DEF IInv, OpenHasSlot
<1>2. \A j \in Slots : j < k => conns[j].socket_fd # f
  BY <1>1 DEF IInv, NoShadow
<1>3. FindsConnection(k, f)
  BY <1>1, <1>2 DEF FindsConnection
<1>4. ASSUME NEW i \in Slots, FindsConnection(i, f)
      PROVE  i = k
  <2>1. ~(i < k)
    BY <1>2, <1>4 DEF FindsConnection
  <2>2. ~(k < i)
    BY <1>1, <1>4 DEF FindsConnection
  <2> QED
    BY <2>1, <2>2 DEF Slots
<1>5. conns[k].address = peer[f]
  BY <1>1 DEF IInv, BusyOwnsDescriptor
<1> QED
  BY <1>1, <1>3, <1>4, <1>5

\* Nothing is open and no slot is busy when sl_main_event_loop starts.
LEMMA InitIInv == Init => IInv
<1> SUFFICES ASSUME Init
             PROVE  IInv
  OBVIOUS
<1>1. TypeOK
  BY InitTypeOK
<1>2. \A i \in Slots : ~conns[i].is_busy
  BY DEF Init, Unused
<1>3. Open = {}
  BY DEF Init, Open, IsOpen
<1>4. InterestIsOpen
  BY <1>3 DEF Init, InterestIsOpen
<1> QED
  BY <1>1, <1>2, <1>3, <1>4
     DEF Init, IInv, BusyOwnsDescriptor, NoShadow, OpenHasSlot, PendingIsOpen,
         FreshBetweenEvents, NeverCrashes

\* A new connection in the first free slot shadows no other one: every slot
\* before it is busy with another descriptor.
LEMMA EstablishedKeepsPool ==
  ASSUME IInv, AcceptEstablished
  PROVE  PoolInv' /\ InterestIsOpen' /\ PendingIsOpen'
<1>1. PICK f \in Fds, i \in Slots :
        /\ ~IsOpen(f)
        /\ FindsFree(i)
        /\ peer' = [peer EXCEPT ![f] = Head(backlog)]
        /\ interest' = interest \cup {f}
        /\ conns' = [conns EXCEPT ![i] = Initialised(f, Head(backlog))]
  BY DEF AcceptEstablished
<1>2. Head(backlog) \in Clients /\ Head(backlog) # NoClient
  BY NamesAssumption DEF IInv, TypeOK, AcceptEstablished
<1> DEFINE c == Head(backlog)
<1> HIDE DEF c
<1>3. f \notin Open
  BY <1>1 DEF Open, IsOpen
<1>4. Open' = Open \cup {f}
  BY <1>1, <1>2 DEF Open, IsOpen, IInv, TypeOK, c
<1>5. \A g \in Open : peer'[g] = peer[g]
  BY <1>1, <1>3 DEF IInv, TypeOK, Open
<1>6. peer'[f] = c
  BY <1>1 DEF IInv, TypeOK, c
<1>7. /\ conns'[i].socket_fd = f /\ conns'[i].address = c
      /\ conns'[i].is_busy /\ conns'[i].state = "BEGIN" /\ ~conns'[i].keep_conn
  BY <1>1 DEF IInv, TypeOK, Initialised, c
<1>8. \A j \in Slots \ {i} : conns'[j] = conns[j]
  BY <1>1 DEF IInv, TypeOK
<1>9. ~conns[i].is_busy /\ \A j \in Slots : j < i => conns[j].is_busy
  BY <1>1 DEF FindsFree
<1>10. BusyOwnsDescriptor'
  BY <1>4, <1>5, <1>6, <1>7, <1>8 DEF IInv, BusyOwnsDescriptor
<1>11. NoShadow'
  BY <1>3, <1>7, <1>8, <1>9 DEF IInv, BusyOwnsDescriptor, NoShadow, Slots
<1>12. OpenHasSlot'
  <2> SUFFICES ASSUME NEW g \in Open'
               PROVE  \E j \in Slots : conns'[j].is_busy /\ conns'[j].socket_fd = g
    BY DEF OpenHasSlot
  <2>1. CASE g = f
    BY <2>1, <1>7
  <2>2. CASE g \in Open
    BY <2>2, <1>8, <1>9 DEF IInv, OpenHasSlot
  <2> QED
    BY <1>4, <2>1, <2>2
<1>13. FreshBetweenEvents'
  BY <1>7, <1>8 DEF IInv, FreshBetweenEvents
<1>14. InterestIsOpen'
  BY <1>1, <1>4, NamesAssumption DEF IInv, InterestIsOpen
<1>15. PendingIsOpen'
  BY <1>4, <1>5 DEF IInv, PendingIsOpen, AcceptEstablished, TakeEvent
<1> QED
  BY <1>10, <1>11, <1>12, <1>13, <1>14, <1>15 DEF PoolInv

\* Closing a descriptor and freeing its slot leaves no other one without
\* owner.
LEMMA ClosedKeepsPool ==
  ASSUME IInv, NEW f \in Fds, ConnectionClosed(f), f # ServerSocket
  PROVE  PoolInv' /\ InterestIsOpen' /\ PendingIsOpen'
<1>1. f \in Open
  BY DEF IInv, PendingIsOpen, ConnectionClosed, TakeEvent
<1>2. PICK i \in Slots :
        /\ FindsConnection(i, f)
        /\ \E conn \in AfterReading(conns[i], f) :
             conns' = [conns EXCEPT ![i] = [conn EXCEPT !.is_busy = FALSE]]
  BY DEF ConnectionClosed
<1>3. PICK conn \in AfterReading(conns[i], f) :
        conns' = [conns EXCEPT ![i] = [conn EXCEPT !.is_busy = FALSE]]
  BY <1>2
<1>4. conns[i] \in Connection
  BY DEF IInv, TypeOK
<1>5. conn \in Connection /\ conn.socket_fd = conns[i].socket_fd
  BY <1>3, <1>4, AfterReadingType
<1>6. conns[i].is_busy /\ conns[i].socket_fd = f
  BY <1>1, <1>2, LookupIsExact
<1>7. ~conns'[i].is_busy /\ conns'[i].socket_fd = f
  BY <1>3, <1>5, <1>6 DEF IInv, TypeOK, Connection
<1>8. \A j \in Slots \ {i} : conns'[j] = conns[j]
  BY <1>3 DEF IInv, TypeOK
<1>9. peer' = [peer EXCEPT ![f] = NoClient] /\ interest' = interest \ {f}
  BY DEF ConnectionClosed, Close
<1>10. Open' = Open \ {f}
  BY <1>9 DEF IInv, TypeOK, Open, IsOpen
<1>11. \A g \in Open' : peer'[g] = peer[g]
  BY <1>9, <1>10 DEF IInv, TypeOK, Open
<1>12. \A j \in Slots \ {i} : conns[j].is_busy => conns[j].socket_fd # f
  BY <1>6 DEF IInv, NoShadow, Slots
<1>13. BusyOwnsDescriptor'
  BY <1>7, <1>8, <1>10, <1>11, <1>12 DEF IInv, BusyOwnsDescriptor
<1>14. NoShadow'
  BY <1>6, <1>7, <1>8 DEF IInv, NoShadow
<1>15. OpenHasSlot'
  BY <1>6, <1>8, <1>10 DEF IInv, OpenHasSlot
<1>16. FreshBetweenEvents'
  BY <1>7, <1>8 DEF IInv, FreshBetweenEvents
<1>17. InterestIsOpen'
  BY <1>9, <1>10 DEF IInv, InterestIsOpen
<1>18. PendingIsOpen'
  BY <1>10, <1>11 DEF IInv, PendingIsOpen, ConnectionClosed, TakeEvent
<1> QED
  BY <1>13, <1>14, <1>15, <1>16, <1>17, <1>18 DEF PoolInv

\* sl_net_init_connection in place keeps the descriptor and its peer.
LEMMA ReusedKeepsPool ==
  ASSUME IInv, NEW f \in Fds, ConnectionReused(f), f # ServerSocket
  PROVE  PoolInv' /\ InterestIsOpen' /\ PendingIsOpen'
<1>1. f \in Open
  BY DEF IInv, PendingIsOpen, ConnectionReused, TakeEvent
<1>2. PICK i \in Slots :
        /\ FindsConnection(i, f)
        /\ \E conn \in AfterReading(conns[i], f) :
             conns' = [conns EXCEPT
                         ![i] = Initialised(conn.socket_fd, conn.address)]
  BY DEF ConnectionReused
<1>3. PICK conn \in AfterReading(conns[i], f) :
        conns' = [conns EXCEPT
                    ![i] = Initialised(conn.socket_fd, conn.address)]
  BY <1>2
<1>4. conns[i] \in Connection
  BY DEF IInv, TypeOK
<1>5. /\ conn.socket_fd = conns[i].socket_fd
      /\ conn.address = conns[i].address
  BY <1>3, <1>4, AfterReadingType
<1>6. conns[i].is_busy
  BY <1>1, <1>2, LookupIsExact
<1>7. /\ conns'[i].socket_fd = conns[i].socket_fd
      /\ conns'[i].address = conns[i].address
      /\ conns'[i].is_busy /\ conns'[i].state = "BEGIN" /\ ~conns'[i].keep_conn
  BY <1>3, <1>5 DEF IInv, TypeOK, Initialised
<1>8. \A j \in Slots \ {i} : conns'[j] = conns[j]
  BY <1>3 DEF IInv, TypeOK
<1>9. peer' = peer /\ interest' = interest /\ Open' = Open
  BY DEF ConnectionReused, Open, IsOpen
<1>10. BusyOwnsDescriptor'
  BY <1>6, <1>7, <1>8, <1>9 DEF IInv, BusyOwnsDescriptor
<1>11. NoShadow'
  BY <1>6, <1>7, <1>8 DEF IInv, NoShadow
<1>12. OpenHasSlot'
  BY <1>6, <1>7, <1>8, <1>9 DEF IInv, OpenHasSlot
<1>13. FreshBetweenEvents'
  BY <1>7, <1>8 DEF IInv, FreshBetweenEvents
<1>14. InterestIsOpen'
  BY <1>9 DEF IInv, InterestIsOpen
<1>15. PendingIsOpen'
  BY <1>9 DEF IInv, PendingIsOpen, ConnectionReused, TakeEvent
<1> QED
  BY <1>10, <1>11, <1>12, <1>13, <1>14, <1>15 DEF PoolInv

\* Steps that touch neither the slots nor the open descriptors.
LEMMA UntouchedKeepsPool ==
  ASSUME IInv, UNCHANGED <<conns, peer, interest>>
  PROVE  PoolInv' /\ InterestIsOpen'
<1>1. Open' = Open
  BY DEF Open, IsOpen
<1>2. BusyOwnsDescriptor' /\ OpenHasSlot' /\ InterestIsOpen'
  BY <1>1 DEF IInv, BusyOwnsDescriptor, OpenHasSlot, InterestIsOpen
<1>3. NoShadow' /\ FreshBetweenEvents'
  BY DEF IInv, NoShadow, FreshBetweenEvents
<1> QED
  BY <1>2, <1>3 DEF PoolInv

\* Every step of the worker and of its environment keeps the invariant.
LEMMA NextIInv == IInv /\ [Next]_vars => IInv'
<1> SUFFICES ASSUME IInv, [Next]_vars
             PROVE  PoolInv' /\ InterestIsOpen' /\ PendingIsOpen' /\ NeverCrashes'
  BY NextTypeOK DEF IInv, PoolInv
<1>1. CASE LoopTest \/ EnterWait \/ WaitFails \/ EndOfBatch
  <2>1. UNCHANGED <<conns, peer, interest>> /\ pc' \notin {"handling", "crashed"}
    BY <1>1 DEF LoopTest, EnterWait, WaitFails, EndOfBatch, kernel
  <2> QED
    BY <2>1, UntouchedKeepsPool DEF PendingIsOpen, NeverCrashes
<1>2. CASE WaitReturns
  <2>1. UNCHANGED <<conns, peer, interest>> /\ pc' = "handling" /\ snapshot' = peer
    BY <1>2 DEF WaitReturns, kernel
  <2>2. pending' \subseteq interest
    BY <1>2 DEF WaitReturns, Ready
  <2>3. PendingIsOpen'
    BY <2>1, <2>2 DEF IInv, InterestIsOpen, PendingIsOpen, Open, IsOpen
  <2> QED
    BY <2>1, <2>3, UntouchedKeepsPool DEF NeverCrashes
<1>3. CASE Terminate
  <2>1. /\ \A i \in Slots : ~conns'[i].is_busy
        /\ \A f \in Fds : peer'[f] = NoClient
        /\ interest' = {} /\ pc' = "terminated"
    BY <1>3 DEF Terminate, Unused
  <2>2. Open' = {}
    BY <2>1 DEF Open, IsOpen
  <2> QED
    BY <2>1, <2>2
       DEF PoolInv, BusyOwnsDescriptor, NoShadow, OpenHasSlot, InterestIsOpen,
           FreshBetweenEvents, PendingIsOpen, NeverCrashes
<1>4. CASE AcceptFails \/ AcceptAbandoned \/ AcceptRefused
  <2>1. /\ UNCHANGED <<conns, peer, interest, snapshot, pc>>
        /\ pending' \subseteq pending
    BY <1>4 DEF AcceptFails, AcceptAbandoned, AcceptRefused, TakeEvent, kernel
  <2>2. PendingIsOpen'
    BY <2>1 DEF IInv, PendingIsOpen, Open, IsOpen
  <2> QED
    BY <2>1, <2>2, UntouchedKeepsPool DEF IInv, NeverCrashes
<1>5. CASE AcceptEstablished
  BY <1>5, EstablishedKeepsPool DEF IInv, NeverCrashes, AcceptEstablished, TakeEvent
<1>6. ASSUME NEW f \in Fds, HandleClient(f)
      PROVE  PoolInv' /\ InterestIsOpen' /\ PendingIsOpen' /\ NeverCrashes'
  <2>1. f \in Open /\ f # ServerSocket
    BY <1>6, NamesAssumption DEF HandleClient, IInv, PendingIsOpen
  <2>2. ConnectionClosed(f) \/ ConnectionReused(f)
    BY <1>6, <2>1, LookupIsExact DEF HandleClient
  <2>3. NeverCrashes'
    BY <2>2 DEF IInv, NeverCrashes, ConnectionClosed, ConnectionReused, TakeEvent
  <2> QED
    BY <2>1, <2>2, <2>3, ClosedKeepsPool, ReusedKeepsPool
<1>7. CASE Sigint
  <2>1. /\ UNCHANGED <<conns, peer, interest, snapshot, pending>>
        /\ pc' \in {pc, "test"}
    BY <1>7 DEF Sigint, kernel
  <2>2. PendingIsOpen'
    BY <2>1 DEF IInv, PendingIsOpen, Open, IsOpen
  <2> QED
    BY <2>1, <2>2, UntouchedKeepsPool DEF IInv, NeverCrashes
<1>8. CASE \/ OtherWorkerAccepts
           \/ \E c \in Clients : Connect(c)
           \/ \E f \in Fds : SendData(f) \/ HangUp(f)
           \/ UNCHANGED vars
  <2>1. UNCHANGED <<conns, peer, interest, snapshot, pending, pc>>
    BY <1>8 DEF OtherWorkerAccepts, Connect, SendData, HangUp, vars, kernel
  <2>2. PendingIsOpen'
    BY <2>1 DEF IInv, PendingIsOpen, Open, IsOpen
  <2> QED
    BY <2>1, <2>2, UntouchedKeepsPool DEF IInv, NeverCrashes
<1> QED
  BY <1>1, <1>2, <1>3, <1>4, <1>5, <1>6, <1>7, <1>8
     DEF Next, Worker, Environment, HandleAccept

\* The invariant holds in every state of every behaviour.
THEOREM Invariance == Spec => []IInv
<1> QED
  BY InitIInv, NextIInv, PTL DEF Spec

-----------------------------------------------------------------------------
(***************************************************************************)
(* What follows from it.                                                   *)
(***************************************************************************)

\* sl_net_find_connection, which ignores is_busy, always ends in the busy slot
\* of the peer at the other end of the descriptor.
THEOREM LookupCorrect == Spec => []LookupFindsOwner
<1>1. IInv => LookupFindsOwner
  BY LookupIsExact DEF LookupFindsOwner
<1> QED
  BY <1>1, Invariance, PTL

\* The error path of sl_main_event_loop that dereferences a NULL connection is
\* never taken.
THEOREM NoCrash == Spec => []NeverCrashes
<1>1. IInv => NeverCrashes
  BY DEF IInv
<1> QED
  BY <1>1, Invariance, PTL

\* No event of a batch is handled for another peer than the one it was for,
\* although descriptors are closed and reused while the batch is handled.
THEOREM EventsAreFresh == Spec => []NoStaleEvent
<1>1. IInv => NoStaleEvent
  BY DEF IInv, PendingIsOpen, NoStaleEvent, Open
<1> QED
  BY <1>1, Invariance, PTL

\* Descriptors and busy slots correspond one to one, and epoll watches just
\* these descriptors.
THEOREM NothingLeaks == Spec => []NoLeak
<1>1. IInv => NoLeak
  <2> SUFFICES ASSUME IInv
               PROVE  NoLeak
    OBVIOUS
  <2>1. ASSUME NEW i \in Slots, NEW j \in Slots,
               conns[i].is_busy, conns[j].is_busy, i # j
        PROVE  conns[i].socket_fd # conns[j].socket_fd
    <3>1. i < j \/ j < i
      BY <2>1 DEF Slots
    <3> QED
      BY <2>1, <3>1 DEF IInv, NoShadow
  <2> QED
    BY <2>1 DEF IInv, InterestIsOpen, BusyOwnsDescriptor, NoLeak
<1> QED
  BY <1>1, Invariance, PTL

\* Every connection in use starts its next event as sl_net_init_connection
\* made it: no request is carried from one event to another.
THEOREM ConnectionsAreFresh == Spec => []FreshBetweenEvents
<1>1. IInv => FreshBetweenEvents
  BY DEF IInv
<1> QED
  BY <1>1, Invariance, PTL

-----------------------------------------------------------------------------
(***************************************************************************)
(* The pool of slots implements the table of connections of                *)
(* ConnectionTable, for every size of the pool.  Two facts are needed      *)
(* besides IInv: a peer is at one place at a time, be it the backlog or a  *)
(* descriptor (DistinctPeers), and there are as many open descriptors as   *)
(* there are busy slots (OpenHasSizeOfBusy).                               *)
(***************************************************************************)

Busy == {i \in Slots : conns[i].is_busy}

\* The descriptors of the busy slots are a bijection onto the open ones.
LEMMA OpenHasSizeOfBusy ==
  ASSUME IInv
  PROVE  /\ IsFiniteSet(Busy) /\ IsFiniteSet(Slots)
         /\ Cardinality(Slots) = MaxConnections
         /\ IsFiniteSet(Open)
         /\ Cardinality(Open) = Cardinality(Busy)
<1>1. IsFiniteSet(Slots) /\ Cardinality(Slots) = MaxConnections
  <2>1. MaxConnections \in Nat /\ MaxConnections > 0
    BY PoolAssumption
  <2>2. 0 \in Int /\ MaxConnections - 1 \in Int
    BY <2>1
  <2> QED
    BY <2>1, <2>2, FS_Interval DEF Slots
<1>2. IsFiniteSet(Busy)
  BY <1>1, FS_Subset DEF Busy
<1> DEFINE owned == [i \in Busy |-> conns[i].socket_fd]
<1>3. owned \in [Busy -> Open]
  BY DEF IInv, BusyOwnsDescriptor, Busy
<1>4. \A i, j \in Busy : owned[i] = owned[j] => i = j
  <2> SUFFICES ASSUME NEW i \in Busy, NEW j \in Busy, i # j
               PROVE  owned[i] # owned[j]
    OBVIOUS
  <2>1. i < j \/ j < i
    BY DEF Busy, Slots
  <2> QED
    BY <2>1 DEF IInv, NoShadow, Busy
<1>5. \A f \in Open : \E i \in Busy : owned[i] = f
  BY DEF IInv, OpenHasSlot, Busy
<1>6. owned \in Bijection(Busy, Open)
  <2> HIDE DEF owned
  <2>1. owned \in Injection(Busy, Open)
    BY <1>3, <1>4 DEF Injection, IsInjective
  <2>2. owned \in Surjection(Busy, Open)
    BY <1>3, <1>5 DEF Surjection
  <2> QED
    BY <2>1, <2>2 DEF Bijection
<1>7. ExistsBijection(Busy, Open)
  BY <1>6 DEF ExistsBijection
<1> QED
  BY <1>1, <1>2, <1>7, FS_Bijection

\* "No free connections left in the pool" is said only when as many
\* connections are open as the pool has slots.
THEOREM RefusalsAreJust == Spec => RefusedOnlyWhenFull
<1>1. IInv /\ AcceptRefused => Cardinality(Open) = MaxConnections
  <2> SUFFICES ASSUME IInv, AcceptRefused
               PROVE  Cardinality(Open) = MaxConnections
    OBVIOUS
  <2>1. Busy = Slots
    BY DEF AcceptRefused, PoolIsFull, Busy
  <2> QED
    BY <2>1, OpenHasSizeOfBusy
<1>2. IInv /\ [Next]_vars => [AcceptRefused => Cardinality(Open) = MaxConnections]_vars
  BY <1>1
<1> QED
  BY <1>2, Invariance, PTL DEF Spec, RefusedOnlyWhenFull

-----------------------------------------------------------------------------

\* A peer waits in the backlog once or is at the end of one descriptor.
DistinctPeers ==
  /\ \A m, n \in 1 .. Len(backlog) : backlog[m] = backlog[n] => m = n
  /\ \A n \in 1 .. Len(backlog), f \in Fds : peer[f] # backlog[n]
  /\ \A f, g \in Open : peer[f] = peer[g] => f = g

\* accept() moves a peer from the backlog to a descriptor; only Connect adds
\* one.
LEMMA NextDistinctPeers ==
  ASSUME IInv, DistinctPeers, [Next]_vars
  PROVE  DistinctPeers'
<1>1. CASE UNCHANGED <<peer, backlog>>
  <2>1. Open' = Open
    BY <1>1 DEF Open, IsOpen
  <2> QED
    BY <1>1, <2>1 DEF DistinctPeers
<1>2. CASE backlog # <<>> /\ backlog' = Tail(backlog) /\ UNCHANGED peer
  <2>1. Open' = Open
    BY <1>2 DEF Open, IsOpen
  <2>2. /\ Len(backlog') = Len(backlog) - 1
        /\ \A n \in 1 .. Len(backlog') : backlog'[n] = backlog[n + 1]
    BY <1>2 DEF IInv, TypeOK
  <2>3. Len(backlog) \in Nat
    BY DEF IInv, TypeOK
  <2> QED
    BY <1>2, <2>1, <2>2, <2>3 DEF DistinctPeers
<1>3. CASE AcceptEstablished
  <2>1. PICK f \in Fds : ~IsOpen(f) /\ peer' = [peer EXCEPT ![f] = Head(backlog)]
    BY <1>3 DEF AcceptEstablished
  <2>2. /\ backlog # <<>>
        /\ Head(backlog) = backlog[1]
        /\ Len(backlog) \in Nat /\ Len(backlog) >= 1
        /\ Len(backlog') = Len(backlog) - 1
        /\ \A n \in 1 .. Len(backlog') : backlog'[n] = backlog[n + 1]
    BY <1>3 DEF AcceptEstablished, IInv, TypeOK
  <2>3. /\ peer'[f] = backlog[1]
        /\ \A g \in Fds \ {f} : peer'[g] = peer[g]
    BY <2>1, <2>2 DEF IInv, TypeOK
  <2>4. Open' \subseteq Open \cup {f}
    BY <2>3 DEF Open, IsOpen
  <2>5. \A m, n \in 1 .. Len(backlog') : backlog'[m] = backlog'[n] => m = n
    BY <2>2 DEF DistinctPeers
  <2>6. \A n \in 1 .. Len(backlog'), g \in Fds : peer'[g] # backlog'[n]
    BY <2>2, <2>3 DEF DistinctPeers
  <2>7. \A g, h \in Open' : peer'[g] = peer'[h] => g = h
    BY <2>2, <2>3, <2>4 DEF DistinctPeers, Open
  <2> QED
    BY <2>5, <2>6, <2>7 DEF DistinctPeers
<1>4. CASE /\ \A f \in Fds : peer'[f] \in {peer[f], NoClient}
           /\ UNCHANGED backlog
  <2>1. \A f \in Open' : f \in Open /\ peer'[f] = peer[f]
    BY <1>4 DEF Open, IsOpen
  <2>2. \A n \in 1 .. Len(backlog) : backlog[n] # NoClient
    BY NamesAssumption DEF IInv, TypeOK
  <2> QED
    BY <1>4, <2>1, <2>2 DEF DistinctPeers
<1>5. ASSUME NEW c \in Clients, Connect(c)
      PROVE  DistinctPeers'
  <2>1. /\ Len(backlog) \in Nat
        /\ Len(backlog') = Len(backlog) + 1
        /\ \A n \in 1 .. Len(backlog) : backlog'[n] = backlog[n] /\ backlog[n] # c
        /\ backlog'[Len(backlog) + 1] = c
        /\ \A f \in Fds : peer[f] # c
        /\ UNCHANGED peer
    BY <1>5 DEF Connect, IInv, TypeOK
  <2>2. Open' = Open
    BY <2>1 DEF Open, IsOpen
  <2>3. \A m, n \in 1 .. Len(backlog') : backlog'[m] = backlog'[n] => m = n
    BY <2>1 DEF DistinctPeers
  <2>4. \A n \in 1 .. Len(backlog'), f \in Fds : peer'[f] # backlog'[n]
    BY <2>1 DEF DistinctPeers
  <2> QED
    BY <2>1, <2>2, <2>3, <2>4 DEF DistinctPeers
<1>6. ASSUME NEW f \in Fds, HandleClient(f)
      PROVE  DistinctPeers'
  <2>1. CASE ConnectionClosed(f)
    <3>1. peer' = [peer EXCEPT ![f] = NoClient] /\ UNCHANGED backlog
      BY <2>1 DEF ConnectionClosed, Close
    <3>2. \A g \in Fds : peer'[g] \in {peer[g], NoClient}
      BY <3>1 DEF IInv, TypeOK
    <3> QED
      BY <1>4, <3>1, <3>2
  <2>2. CASE ConnectionReused(f)
    BY <1>1, <2>2 DEF ConnectionReused
  <2>3. CASE UnknownDescriptor(f)
    BY <1>1, <2>3 DEF UnknownDescriptor, kernel
  <2> QED
    BY <1>6, <2>1, <2>2, <2>3 DEF HandleClient
<1>7. Terminate => DistinctPeers'
  BY <1>4 DEF Terminate
<1> QED
  BY <1>1, <1>2, <1>3, <1>5, <1>6, <1>7
     DEF Next, Worker, Environment, HandleAccept, LoopTest, EnterWait,
         WaitReturns, WaitFails, EndOfBatch, AcceptFails, AcceptAbandoned,
         AcceptRefused, Sigint, OtherWorkerAccepts, SendData, HangUp, vars, kernel

\* No peer is known twice, in every state of every behaviour.
THEOREM PeersAreDistinct == Spec => [](IInv /\ DistinctPeers)
<1>1. Init => IInv /\ DistinctPeers
  <2>1. Init => IInv
    BY InitIInv
  <2>2. Init => DistinctPeers
    BY NamesAssumption DEF Init, DistinctPeers, Open, IsOpen
  <2> QED
    BY <2>1, <2>2
<1>2. IInv /\ DistinctPeers /\ [Next]_vars => (IInv /\ DistinctPeers)'
  BY NextIInv, NextDistinctPeers
<1> QED
  BY <1>1, <1>2, PTL DEF Spec

-----------------------------------------------------------------------------

\* What the scan finds is what the kernel has.
LEMMA LookupIsPeer == IInv => Lookup = peer
<1> SUFFICES ASSUME IInv, NEW f \in Fds
             PROVE  Lookup[f] = peer[f]
  BY DEF Lookup, IInv, TypeOK
<1>1. CASE f \in Open
  <2>1. \E i \in Slots : FindsConnection(i, f) /\ conns[i].is_busy
    BY <1>1, LookupIsExact
  <2> DEFINE found == CHOOSE i \in Slots : FindsConnection(i, f)
  <2>2. found \in Slots /\ FindsConnection(found, f)
    BY <2>1
  <2>3. conns[found].address = peer[f]
    <3> HIDE DEF found
    <3> QED
      BY <1>1, <2>2, LookupIsExact
  <2> QED
    BY <2>1, <2>3 DEF Lookup
<1>2. CASE f \notin Open
  <2>1. \A i \in Slots : conns[i].is_busy => conns[i].socket_fd # f
    BY <1>2 DEF IInv, BusyOwnsDescriptor
  <2>2. ~ \E i \in Slots : FindsConnection(i, f) /\ conns[i].is_busy
    BY <2>1 DEF FindsConnection
  <2>3. peer[f] = NoClient
    BY <1>2 DEF Open, IsOpen
  <2> QED
    BY <2>2, <2>3 DEF Lookup
<1> QED
  BY <1>1, <1>2

\* Each step of the worker is one of the table, or leaves it alone.
LEMMA StepIsTableStep ==
  ASSUME IInv, DistinctPeers, [Next]_vars, Lookup = peer, Lookup' = peer'
  PROVE  [Table!Next]_Lookup
<1>1. Lookup = peer
  OBVIOUS
<1>2. Lookup' = peer'
  OBVIOUS
<1>3. Table!Entries = Open
  BY <1>1 DEF Table!Entries, Open, IsOpen
<1>4. CASE AcceptEstablished
  <2>1. PICK f \in Fds, i \in Slots :
          ~IsOpen(f) /\ FindsFree(i) /\ peer' = [peer EXCEPT ![f] = Head(backlog)]
    BY <1>4 DEF AcceptEstablished
  <2>2. /\ Head(backlog) \in Clients
        /\ \A g \in Fds : peer[g] # Head(backlog)
    BY <1>4 DEF AcceptEstablished, IInv, TypeOK, DistinctPeers
  <2>3. Cardinality(Open) < MaxConnections
    <3>1. Busy # Slots /\ Busy \in SUBSET Slots
      BY <2>1 DEF FindsFree, Busy
    <3>2. Cardinality(Busy) \in Nat /\ Cardinality(Slots) \in Nat
      BY OpenHasSizeOfBusy, FS_CardinalityType
    <3>3. /\ Cardinality(Busy) <= Cardinality(Slots)
          /\ Cardinality(Slots) # Cardinality(Busy)
      BY <3>1, OpenHasSizeOfBusy, FS_Subset
    <3> QED
      BY <3>2, <3>3, OpenHasSizeOfBusy
  <2>4. f \notin Open
    BY <2>1 DEF Open
  <2>5. /\ f \notin Table!Entries
        /\ Table!Cardinality(Table!Entries) < MaxConnections
    BY <1>3, <2>3, <2>4 DEF Cardinality, Table!Cardinality
  <2>6. /\ \A g \in Fds : Lookup[g] # Head(backlog)
        /\ Lookup' = [Lookup EXCEPT ![f] = Head(backlog)]
    BY <1>1, <1>2, <2>1, <2>2
  <2>7. Table!Register(f, Head(backlog))
    BY <2>5, <2>6 DEF Table!Register
  <2> QED
    BY <2>2, <2>7 DEF Table!Next
<1>5. ASSUME NEW f \in Fds, HandleClient(f)
      PROVE  [Table!Next]_Lookup
  <2>1. CASE ConnectionClosed(f)
    <3>1. f \in Open
      BY <1>5, NamesAssumption DEF HandleClient, IInv, PendingIsOpen
    <3>2. peer' = [peer EXCEPT ![f] = NoClient]
      BY <2>1 DEF ConnectionClosed, Close
    <3>3. Table!Unregister(f)
      BY <1>1, <1>2, <1>3, <3>1, <3>2 DEF Table!Unregister
    <3> QED
      BY <3>3 DEF Table!Next
  <2>2. CASE peer' = peer
    BY <1>1, <1>2, <2>2
  <2> QED
    BY <1>5, <2>1, <2>2 DEF HandleClient, ConnectionReused, UnknownDescriptor, kernel
<1>6. CASE Terminate
  BY <1>2, <1>6 DEF Terminate, Table!Next, Table!Clear
<1>7. CASE peer' = peer
  BY <1>1, <1>2, <1>7
<1> QED
  BY <1>4, <1>5, <1>6, <1>7
     DEF Next, Worker, Environment, HandleAccept, LoopTest, EnterWait,
         WaitReturns, WaitFails, EndOfBatch, AcceptFails, AcceptAbandoned,
         AcceptRefused, Sigint, OtherWorkerAccepts, Connect, SendData, HangUp,
         vars, kernel

\* The pool of slots, searched by descriptor, implements the table: steps
\* add, remove or clear entries within the capacity and never disturb another.
THEOREM Refinement == Spec => ImplementsTable
<1>1. Init => Table!Init
  <2> SUFFICES ASSUME Init
               PROVE  Lookup = [f \in Fds |-> NoClient]
    BY DEF Table!Init
  <2>1. Lookup = peer
    BY InitIInv, LookupIsPeer
  <2> QED
    BY <2>1 DEF Init
<1>2. IInv => (Lookup = peer)
  BY LookupIsPeer
<1>3. /\ IInv /\ DistinctPeers
      /\ Lookup = peer /\ (Lookup = peer)'
      /\ [Next]_vars
      => [Table!Next]_Lookup
  BY StepIsTableStep
<1> QED
  BY <1>1, <1>2, <1>3, PeersAreDistinct, PTL DEF Spec, ImplementsTable, Table!Spec

-----------------------------------------------------------------------------
(***************************************************************************)
(* The life of a worker.                                                   *)
(***************************************************************************)

\* A worker whose flag is cleared enters epoll_wait() only if the signal came
\* after the test.
MissedOnlyByRace == pc \in {"entering", "waiting"} /\ ~running => raced

\* A worker waits after SIGINT only if the handler ran between the test of
\* sl_main_running and epoll_wait().
THEOREM DeafnessIsARace == Spec => []DeafOnlyByRace
<1>1. Init => MissedOnlyByRace
  BY DEF Init, MissedOnlyByRace
<1>2. MissedOnlyByRace /\ [Next]_vars => MissedOnlyByRace'
  <2> SUFFICES ASSUME MissedOnlyByRace, [Next]_vars
               PROVE  MissedOnlyByRace'
    OBVIOUS
  <2>1. CASE LoopTest
    BY <2>1 DEF LoopTest, MissedOnlyByRace
  <2>2. CASE EnterWait
    BY <2>2 DEF EnterWait, MissedOnlyByRace
  <2>3. CASE pc' \notin {"entering", "waiting"}
    BY <2>3 DEF MissedOnlyByRace
  <2>4. CASE Sigint
    <3>1. CASE pc = "entering"
      BY <2>4, <3>1, Zenon DEF Sigint, MissedOnlyByRace
    <3>2. CASE pc # "entering"
      BY <2>3, <2>4, <3>2 DEF Sigint
    <3> QED
      BY <3>1, <3>2
  <2>5. CASE UNCHANGED <<pc, running, raced>>
    BY <2>5 DEF MissedOnlyByRace
  <2> QED
    BY <2>1, <2>2, <2>3, <2>4, <2>5
       DEF Next, Worker, Environment, WaitReturns, WaitFails, EndOfBatch,
           Terminate, HandleAccept, AcceptFails, AcceptAbandoned, AcceptRefused,
           AcceptEstablished, TakeEvent, HandleClient, ConnectionClosed,
           ConnectionReused, UnknownDescriptor, OtherWorkerAccepts, Connect,
           SendData, HangUp, vars
<1>3. MissedOnlyByRace => DeafOnlyByRace
  BY DEF MissedOnlyByRace, DeafOnlyByRace
<1> QED
  BY <1>1, <1>2, <1>3, PTL DEF Spec

\* A client's event is never for an unknown descriptor.
LEMMA HandlersStay ==
  ASSUME IInv, NEW f \in Fds, HandleClient(f)
  PROVE  UNCHANGED <<pc, running, raced>>
<1>1. f \in Open
  BY NamesAssumption DEF HandleClient, IInv, PendingIsOpen
<1>2. ConnectionClosed(f) \/ ConnectionReused(f)
  BY <1>1, LookupIsExact DEF HandleClient
<1> QED
  BY <1>2 DEF ConnectionClosed, ConnectionReused, TakeEvent

\* The event loop, with all it does to connections, is to the master and to
\* signals the worker that Processes is built from.
THEOREM WorkerRefinement == Spec => LivesAsWorker
<1> DEFINE l == [pc |-> pc, running |-> running, raced |-> raced]
<1>1. Init => Life!Init
  BY DEF Init, Life!Init, Life!Born
<1>2. IInv /\ [Next]_vars => [Life!Step \/ Life!Sigint]_l
  <2> SUFFICES ASSUME IInv, [Next]_vars
               PROVE  [Life!Step \/ Life!Sigint]_l
    OBVIOUS
  <2>1. ASSUME NEW to \in Life!Places, Life!StepsTo(l, to), pc' = to,
               UNCHANGED <<running, raced>>
        PROVE  Life!Step
    BY <2>1 DEF Life!Step, Life!At
  <2>2. CASE LoopTest
    <3>1. CASE running
      BY <2>1, <2>2, <3>1 DEF LoopTest, Life!StepsTo, Life!Places
    <3>2. CASE ~running
      BY <2>1, <2>2, <3>2 DEF LoopTest, Life!StepsTo, Life!Places
    <3> QED
      BY <3>1, <3>2
  <2>3. CASE EnterWait \/ WaitReturns \/ WaitFails \/ EndOfBatch \/ Terminate
    BY <2>1, <2>3 DEF EnterWait, WaitReturns, WaitFails, EndOfBatch, Terminate,
                      Life!StepsTo, Life!Places
  <2>4. CASE Sigint
    <3>1. pc \notin {"leaving", "terminated"}
      BY <2>4 DEF Sigint
    <3>2. l' = [pc |-> IF pc = "waiting" THEN "test" ELSE pc,
                running |-> FALSE, raced |-> (pc = "entering")]
      BY <2>4, Zenon DEF Sigint
    <3>3. Life!Sigint
      BY <3>1, <3>2, Zenon DEF Life!Sigint, Life!Interrupted
    <3> QED
      BY <3>3
  <2>5. CASE UNCHANGED <<pc, running, raced>>
    BY <2>5
  <2> QED
    BY <2>2, <2>3, <2>4, <2>5, HandlersStay
       DEF Next, Worker, Environment, HandleAccept, AcceptFails, AcceptAbandoned,
           AcceptRefused, AcceptEstablished, TakeEvent, OtherWorkerAccepts,
           Connect, SendData, HangUp, vars
<1> QED
  BY <1>1, <1>2, Invariance, PTL DEF Spec, LivesAsWorker, Life!Spec

=============================================================================
