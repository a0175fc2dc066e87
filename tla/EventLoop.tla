------------------------------ MODULE EventLoop ------------------------------
(***************************************************************************)
(* One worker process: the loop of sl_main_event_loop (main.c), the fixed  *)
(* pool of connections it keeps (sl_net.c), and what the kernel does for   *)
(* it: the descriptors accept() hands out, the epoll instance, the backlog *)
(* shared with the other worker, and the delivery of SIGINT.               *)
(*                                                                         *)
(* The pool has no index.  A connection is found by scanning for its       *)
(* socket_fd without looking at is_busy, a slot keeps the socket_fd of its *)
(* last owner after it is freed, and the kernel reuses descriptors.  What  *)
(* keeps those three facts from clashing is that a new connection takes    *)
(* the first free slot; the invariants below make that argument.           *)
(*                                                                         *)
(* A handler runs to completion in the single thread of the worker, so it  *)
(* is one action; peers, the other worker and signals act between actions. *)
(* What a read makes of the request is left open here (any outcome of      *)
(* sl_main_parse_buffer).                                                  *)
(*                                                                         *)
(* An operator named X_Variant next to X is X with a plausible mistake; no *)
(* specification uses it, and the README says which property it breaks.    *)
(***************************************************************************)
EXTENDS Naturals, Sequences, FiniteSets

CONSTANTS
  MaxConnections,  \* SL_MAIN_MAX_CONNECTIONS
  MaxEvents,       \* SL_MAIN_MAX_EVENTS
  Fds,             \* the descriptors accept() may return in this worker
  ServerSocket,    \* the listening descriptor
  ZeroFd,          \* descriptor 0, the socket_fd of a zeroed slot
  Clients,         \* the peers, as told apart by their address
  NoClient

ASSUME PoolAssumption == MaxConnections \in Nat \ {0}
ASSUME EventsAssumption == MaxEvents \in Nat \ {0}
ASSUME NamesAssumption == ServerSocket \notin Fds /\ NoClient \notin Clients

Slots == 0 .. MaxConnections - 1

\* What the next handler can tell of connection->request.state and
\* connection->parser.state: ERROR is an error of either one.
RequestStates == {"BEGIN", "PARTIAL", "FINISHED", "ERROR"}

VARIABLES
  running,   \* sl_main_running
  pc,        \* where the worker is in its loop
  pending,   \* the events of the batch that are still to be handled
  conns,     \* connections[]
  peer,      \* kernel: the peer of each open descriptor, NoClient if closed
  interest,  \* kernel: the descriptors the epoll instance watches
  data,      \* kernel: the descriptors with unread octets
  eof,       \* kernel: the descriptors whose peer has closed its end
  backlog,   \* kernel: the connections waiting in the listening socket
  snapshot,  \* history: the peers when the batch was returned
  raced      \* history: SIGINT came between the loop test and epoll_wait()

kernel == <<peer, interest, data, eof, backlog>>
vars == <<running, pc, pending, conns, peer, interest, data, eof, backlog,
          snapshot, raced>>

-----------------------------------------------------------------------------

IsOpen(f) == peer[f] # NoClient

Open == {f \in Fds : IsOpen(f)}

\* The descriptors epoll_wait() has an event for: the listening socket is
\* readable while connections wait, a client's on data or end of file.
Ready ==
  {f \in interest : \/ f = ServerSocket /\ backlog # <<>>
                    \/ f \in data \cup eof}

\* sl_net_find_connection: the first slot with this socket_fd, busy or not.
FindsConnection(i, f) ==
  /\ conns[i].socket_fd = f
  /\ \A j \in Slots : j < i => conns[j].socket_fd # f

\* Variants: the search runs backwards, or does not look at is_busy.
FindsFree_Last(i) ==
  /\ ~conns[i].is_busy
  /\ \A j \in Slots : j > i => conns[j].is_busy

FindsFree_First(i) == \A j \in Slots : i <= j

\* sl_net_find_free_connection: the first slot that is not busy.
FindsFree(i) ==
  /\ ~conns[i].is_busy
  /\ \A j \in Slots : j < i => conns[j].is_busy

PoolIsFull == \A i \in Slots : conns[i].is_busy

\* sl_net_init_connection, with the is_busy = true both callers add.
Initialised(f, c) ==
  [socket_fd |-> f, address |-> c, is_busy |-> TRUE,
   state |-> "BEGIN", keep_conn |-> FALSE]

Unused ==
  [socket_fd |-> ZeroFd, address |-> NoClient, is_busy |-> FALSE,
   state |-> "BEGIN", keep_conn |-> FALSE]

\* Variant: EPOLL_CTL_DEL without close().
Close_NotClosed(f) ==
  /\ peer' = peer
  /\ interest' = interest \ {f}
  /\ data' = data \ {f}
  /\ eof' = eof \ {f}

\* close() of a client's descriptor, which also leaves the epoll instance.
Close(f) ==
  /\ peer' = [peer EXCEPT ![f] = NoClient]
  /\ interest' = interest \ {f}
  /\ data' = data \ {f}
  /\ eof' = eof \ {f}

-----------------------------------------------------------------------------

\* A worker inherits sl_main_running, which the master may have cleared.
Init ==
  /\ running \in BOOLEAN
  /\ pc = "test"
  /\ pending = {}
  /\ conns = [i \in Slots |-> Unused]
  /\ peer = [f \in Fds |-> NoClient]
  /\ interest = {ServerSocket}
  /\ data = {}
  /\ eof = {}
  /\ backlog = <<>>
  /\ snapshot = peer
  /\ raced = FALSE

(***************************************************************************)
(* The loop.                                                               *)
(***************************************************************************)

\* Variant: the loop does not test the flag.
LoopTest_Forever ==
  /\ pc = "test"
  /\ pc' = "entering"
  /\ UNCHANGED <<running, pending, conns, kernel, snapshot, raced>>

\* while (sl_main_running == true)
LoopTest ==
  /\ pc = "test"
  /\ pc' = IF running THEN "entering" ELSE "leaving"
  /\ UNCHANGED <<running, pending, conns, kernel, snapshot, raced>>

\* The call of epoll_wait(), after which a signal interrupts the wait.
EnterWait ==
  /\ pc = "entering"
  /\ pc' = "waiting"
  /\ UNCHANGED <<running, pending, conns, kernel, snapshot, raced>>

\* epoll_wait() returns one event per ready descriptor, MaxEvents at most.
WaitReturns ==
  /\ pc = "waiting"
  /\ Ready # {}
  /\ \E batch \in SUBSET Ready :
       /\ Cardinality(batch) = IF Cardinality(Ready) <= MaxEvents
                               THEN Cardinality(Ready) ELSE MaxEvents
       /\ pending' = batch
  /\ snapshot' = peer
  /\ pc' = "handling"
  /\ UNCHANGED <<running, conns, kernel, raced>>

\* epoll_wait() returns -1: EINTR falls through to a loop over no events,
\* anything else is logged; both test the flag again.
WaitFails ==
  /\ pc = "waiting"
  /\ pc' = "test"
  /\ UNCHANGED <<running, pending, conns, kernel, snapshot, raced>>

EndOfBatch ==
  /\ pc = "handling"
  /\ pending = {}
  /\ pc' = "test"
  /\ UNCHANGED <<running, pending, conns, kernel, snapshot, raced>>

\* sl_net_destroy_connections, then the process ends and the kernel closes
\* every descriptor it had.
Terminate ==
  /\ pc = "leaving"
  /\ pc' = "terminated"
  /\ conns' = [i \in Slots |-> Unused]
  /\ peer' = [f \in Fds |-> NoClient]
  /\ interest' = {}
  /\ data' = {}
  /\ eof' = {}
  /\ UNCHANGED <<running, pending, backlog, snapshot, raced>>

(***************************************************************************)
(* The event of the listening socket.                                      *)
(***************************************************************************)

TakeEvent(f) ==
  /\ pc = "handling"
  /\ f \in pending
  /\ pending' = pending \ {f}
  /\ UNCHANGED <<pc, running, snapshot, raced>>

\* accept() == -1: EAGAIN, as the other worker was faster, or an error.
AcceptFails ==
  /\ TakeEvent(ServerSocket)
  /\ UNCHANGED <<conns, kernel>>

\* accept() returns a descriptor, fcntl() or epoll_ctl() fails on it, and it
\* is closed before any slot is written.
AcceptAbandoned ==
  /\ TakeEvent(ServerSocket)
  /\ backlog # <<>>
  /\ Open # Fds
  /\ backlog' = Tail(backlog)
  /\ UNCHANGED <<conns, peer, interest, data, eof>>

\* Variants: a full pool closes a connection in use, or leaves the new one
\* in the backlog.
AcceptRefused_Evicts ==
  /\ TakeEvent(ServerSocket)
  /\ backlog # <<>>
  /\ Open # Fds
  /\ PoolIsFull
  /\ backlog' = Tail(backlog)
  /\ Close(conns[0].socket_fd)
  /\ UNCHANGED conns

AcceptRefused_Postponed ==
  /\ TakeEvent(ServerSocket)
  /\ backlog # <<>>
  /\ Open # Fds
  /\ PoolIsFull
  /\ UNCHANGED <<conns, kernel>>

\* "No free connections left in the pool": the descriptor is closed again.
AcceptRefused ==
  /\ TakeEvent(ServerSocket)
  /\ backlog # <<>>
  /\ Open # Fds
  /\ PoolIsFull
  /\ backlog' = Tail(backlog)
  /\ UNCHANGED <<conns, peer, interest, data, eof>>

AcceptEstablished ==
  /\ TakeEvent(ServerSocket)
  /\ backlog # <<>>
  /\ backlog' = Tail(backlog)
  /\ \E f \in Fds, i \in Slots :
       /\ ~IsOpen(f)
       /\ FindsFree(i)
       /\ peer' = [peer EXCEPT ![f] = Head(backlog)]
       /\ interest' = interest \cup {f}
       /\ conns' = [conns EXCEPT ![i] = Initialised(f, Head(backlog))]
  /\ UNCHANGED <<data, eof>>

(***************************************************************************)
(* The event of a client.                                                  *)
(***************************************************************************)

Progressed(conn, s, k) == [conn EXCEPT !.state = s, !.keep_conn = k]

\* What recv() and sl_main_parse_buffer make of a connection: nothing when
\* there is only the end of file to read, else any progress of the request.
AfterReading(conn, f) ==
  IF f \in data
  THEN {Progressed(conn, s, k) :
          s \in RequestStates \ {"BEGIN"}, k \in BOOLEAN} \cup {conn}
  ELSE {conn}

\* The two ways sl_main_process_connection ends.
MustClose(conn) ==
  \/ conn.state = "ERROR"
  \/ conn.state # "FINISHED" /\ ~conn.keep_conn

\* Variant: the slot stays busy.
ConnectionClosed_StaysBusy(f) ==
  /\ TakeEvent(f)
  /\ \E i \in Slots :
       /\ FindsConnection(i, f)
       /\ \E conn \in AfterReading(conns[i], f) :
            /\ MustClose(conn)
            /\ conns' = [conns EXCEPT ![i] = conn]
  /\ Close(f)
  /\ UNCHANGED backlog

\* sl_main_process_connection returned 0.
ConnectionClosed(f) ==
  /\ TakeEvent(f)
  /\ \E i \in Slots :
       /\ FindsConnection(i, f)
       /\ \E conn \in AfterReading(conns[i], f) :
            /\ MustClose(conn)
            /\ conns' = [conns EXCEPT ![i] = [conn EXCEPT !.is_busy = FALSE]]
  /\ Close(f)
  /\ UNCHANGED backlog

\* Variant: the connection is kept without sl_net_init_connection.
ConnectionReused_AsIs(f) ==
  /\ TakeEvent(f)
  /\ \E i \in Slots :
       /\ FindsConnection(i, f)
       /\ \E conn \in AfterReading(conns[i], f) :
            /\ ~MustClose(conn)
            /\ conns' = [conns EXCEPT ![i] = conn]
  /\ data' = data \ {f}
  /\ UNCHANGED <<peer, interest, eof, backlog>>

\* It returned 1: "Reusing connection", which starts it afresh.
ConnectionReused(f) ==
  /\ TakeEvent(f)
  /\ \E i \in Slots :
       /\ FindsConnection(i, f)
       /\ \E conn \in AfterReading(conns[i], f) :
            /\ ~MustClose(conn)
            /\ conns' = [conns EXCEPT
                           ![i] = Initialised(conn.socket_fd, conn.address)]
  /\ data' = data \ {f}
  /\ UNCHANGED <<peer, interest, eof, backlog>>

\* No slot has the descriptor: the error path logs through
\* &connection->arena with connection == NULL, and the process dies.
UnknownDescriptor(f) ==
  /\ pc' = "crashed"
  /\ pending' = pending \ {f}
  /\ UNCHANGED <<running, conns, kernel, snapshot, raced>>

HandleClient(f) ==
  /\ pc = "handling"
  /\ f \in pending \ {ServerSocket}
  /\ IF \E i \in Slots : FindsConnection(i, f)
     THEN ConnectionClosed(f) \/ ConnectionReused(f)
     ELSE UnknownDescriptor(f)

(***************************************************************************)
(* The environment: SIGINT, the peers and the other worker.                *)
(***************************************************************************)

\* Variant: the handler restarts epoll_wait().
Sigint_Restarts ==
  /\ pc \notin {"leaving", "terminated", "crashed"}
  /\ running' = FALSE
  /\ pc' = pc
  /\ raced' = (pc = "entering")
  /\ UNCHANGED <<pending, conns, kernel, snapshot>>

\* sl_main_signal_handler; epoll_wait() is never restarted after a handler.
Sigint ==
  /\ pc \notin {"leaving", "terminated", "crashed"}
  /\ running' = FALSE
  /\ pc' = IF pc = "waiting" THEN "test" ELSE pc
  /\ raced' = (pc = "entering")
  /\ UNCHANGED <<pending, conns, kernel, snapshot>>

Connect(c) ==
  /\ \A n \in 1 .. Len(backlog) : backlog[n] # c
  /\ \A f \in Fds : peer[f] # c
  /\ backlog' = Append(backlog, c)
  /\ UNCHANGED <<running, pc, pending, conns, peer, interest, data, eof,
                 snapshot, raced>>

SendData(f) ==
  /\ IsOpen(f)
  /\ f \notin data \cup eof
  /\ data' = data \cup {f}
  /\ UNCHANGED <<running, pc, pending, conns, peer, interest, eof, backlog,
                 snapshot, raced>>

HangUp(f) ==
  /\ IsOpen(f)
  /\ f \notin eof
  /\ eof' = eof \cup {f}
  /\ UNCHANGED <<running, pc, pending, conns, peer, interest, data, backlog,
                 snapshot, raced>>

OtherWorkerAccepts ==
  /\ backlog # <<>>
  /\ backlog' = Tail(backlog)
  /\ UNCHANGED <<running, pc, pending, conns, peer, interest, data, eof,
                 snapshot, raced>>

-----------------------------------------------------------------------------

HandleAccept ==
  \/ AcceptFails
  \/ AcceptAbandoned
  \/ AcceptRefused
  \/ AcceptEstablished

Worker ==
  \/ LoopTest
  \/ EnterWait
  \/ WaitReturns
  \/ WaitFails
  \/ EndOfBatch
  \/ Terminate
  \/ HandleAccept
  \/ \E f \in Fds : HandleClient(f)

Environment ==
  \/ Sigint
  \/ OtherWorkerAccepts
  \/ \E c \in Clients : Connect(c)
  \/ \E f \in Fds : SendData(f) \/ HangUp(f)

Next == Worker \/ Environment

Spec == Init /\ [][Next]_vars

(***************************************************************************)
(* Fairness.  The worker is a running process: a step of the loop that can *)
(* be taken is taken, and so is every event of a batch.  epoll_wait() is   *)
(* not interrupted for ever, and the kernel rotates its ready list, so a   *)
(* descriptor that keeps being ready is in some batch; accept() does not   *)
(* fail for ever.  Nothing is assumed of peers, signals or the other       *)
(* worker.                                                                 *)
(***************************************************************************)
Fairness ==
  /\ WF_vars(LoopTest \/ EnterWait \/ EndOfBatch \/ Terminate)
  /\ \A f \in Fds \cup {ServerSocket} : SF_vars(WaitReturns /\ f \in pending')
  /\ \A f \in Fds : WF_vars(HandleClient(f))
  /\ WF_vars(HandleAccept)
  /\ SF_vars(AcceptRefused \/ AcceptEstablished)

FairSpec == Spec /\ Fairness

-----------------------------------------------------------------------------
(***************************************************************************)
(* Properties.                                                             *)
(***************************************************************************)

Connection == [socket_fd : Fds \cup {ZeroFd}, address : Clients \cup {NoClient},
               is_busy : BOOLEAN, state : RequestStates, keep_conn : BOOLEAN]

TypeOK ==
  /\ running \in BOOLEAN
  /\ pc \in {"test", "entering", "waiting", "handling", "leaving",
             "terminated", "crashed"}
  /\ pending \subseteq Fds \cup {ServerSocket}
  /\ conns \in [Slots -> Connection]
  /\ peer \in [Fds -> Clients \cup {NoClient}]
  /\ interest \subseteq Fds \cup {ServerSocket}
  /\ data \subseteq Fds
  /\ eof \subseteq Fds
  /\ backlog \in Seq(Clients)
  /\ snapshot \in [Fds -> Clients \cup {NoClient}]
  /\ raced \in BOOLEAN

\* The linear search of sl_net_find_connection, which ignores is_busy, leads
\* from every open descriptor to a busy slot that holds this very peer.
LookupFindsOwner ==
  \A f \in Open : \E i \in Slots :
    /\ FindsConnection(i, f)
    /\ conns[i].is_busy
    /\ conns[i].address = peer[f]

\* The branch of main.c that logs through a NULL connection is unreachable.
NeverCrashes == pc # "crashed"

\* A descriptor closed and reused within a batch is never handed an event
\* that was meant for its former peer.
NoStaleEvent ==
  pc = "handling" =>
    \A f \in pending \ {ServerSocket} : IsOpen(f) /\ peer[f] = snapshot[f]

\* No descriptor leaks: an open one is watched and owned by one busy slot,
\* and a busy slot owns an open one.
NoLeak ==
  /\ interest \ {ServerSocket} = Open
  /\ \A i \in Slots : conns[i].is_busy => conns[i].socket_fd \in Open
  /\ \A i, j \in Slots :
       conns[i].is_busy /\ conns[j].is_busy /\ i # j
         => conns[i].socket_fd # conns[j].socket_fd

\* No part of a request survives the event that brought it: between events
\* every connection in use is as sl_net_init_connection leaves it.
FreshBetweenEvents ==
  \A i \in Slots : conns[i].is_busy =>
    conns[i].state = "BEGIN" /\ ~conns[i].keep_conn

\* A worker that sits in epoll_wait() although SIGINT has been handled got
\* the signal after its test of the flag and before the wait.
DeafOnlyByRace == pc = "waiting" /\ ~running => raced

\* A peer is refused for want of a slot only when as many connections are
\* open as the pool has slots.
RefusedOnlyWhenFull ==
  [][AcceptRefused => Cardinality(Open) = MaxConnections]_vars

\* The table a lookup by descriptor shows.
Lookup ==
  [f \in Fds |->
     IF \E i \in Slots : FindsConnection(i, f) /\ conns[i].is_busy
     THEN conns[CHOOSE i \in Slots : FindsConnection(i, f)].address
     ELSE NoClient]

Table == INSTANCE ConnectionTable
           WITH Capacity <- MaxConnections, table <- Lookup

\* The pool of slots implements the table of connections.
ImplementsTable == Table!Spec

Life == INSTANCE WorkerLife
          WITH life <- [pc |-> pc, running |-> running, raced |-> raced]

\* To the master and to signals, the event loop is a worker that tests, waits
\* and handles, whatever the connections do.
LivesAsWorker == Life!Spec

\* A descriptor whose peer has hung up is closed in the end, also when the
\* worker was told to stop and the signal was missed.
HangUpIsReclaimed == \A f \in Fds : f \in eof ~> f \notin eof

\* A peer that waits in the backlog is answered by a worker, or it outlives
\* this one.
BacklogIsServed ==
  \A c \in Clients :
    (\E n \in 1 .. Len(backlog) : backlog[n] = c)
      ~> (\A n \in 1 .. Len(backlog) : backlog[n] # c) \/ pc = "terminated"

\* After SIGINT the worker ends, or the signal was missed and it waits for an
\* event that may never come.
StopsUnlessRaced ==
  ~running ~> pc = "terminated" \/ (pc = "waiting" /\ raced /\ Ready = {})

=============================================================================
