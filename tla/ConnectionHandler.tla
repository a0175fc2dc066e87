-------------------------- MODULE ConnectionHandler --------------------------
(***************************************************************************)
(* Connection as the event loop sees it.  EventLoop takes a handler for    *)
(* one step that leaves any progress of a request behind (AfterReading);   *)
(* Connection makes several calls of recv() of it, with the peer sending   *)
(* and hanging up between them.  Here the slot and the descriptor of the   *)
(* connection are those of a worker with no others, and the end of every   *)
(* handler is a step HandleClient of that worker.                          *)
(***************************************************************************)
EXTENDS Connection

\* What EventLoop tells of the states of a parser and a request.
Told(p, r) ==
  IF HasFailed(p, r) THEN "ERROR"
  ELSE IF r.state \in {"BEGIN", "FINISHED"} THEN r.state ELSE "PARTIAL"

SlotOf(p, r) ==
  [socket_fd |-> "fd", address |-> "peer", is_busy |-> pc # "closed",
   state |-> Told(p, r), keep_conn |-> KeepsConn(r)]

\* While a handler runs nobody else looks at the slot: it still shows a new
\* connection.
slot ==
  IF pc \in {"idle", "closed"} THEN SlotOf(parser, request)
  ELSE SlotOf(ParserInit, RequestInit)

Worker == INSTANCE EventLoop WITH
  MaxConnections <- 1, MaxEvents <- 1, Fds <- {"fd"}, ServerSocket <- "server",
  ZeroFd <- "zero", Clients <- {"peer"}, NoClient <- "none",
  running <- TRUE,
  pc <- IF pc = "crashed" THEN "crashed" ELSE "handling",
  pending <- IF InHandler THEN {"fd"} ELSE {},
  conns <- [i \in {0} |-> slot],
  peer <- [f \in {"fd"} |-> IF pc = "closed" THEN "none" ELSE "peer"],
  interest <- IF pc = "closed" THEN {"server"} ELSE {"server", "fd"},
  data <- IF InHandler /\ start < received THEN {"fd"} ELSE {},
  eof <- IF hungup /\ pc # "closed" THEN {"fd"} ELSE {},
  backlog <- <<>>,
  snapshot <- [f \in {"fd"} |-> "peer"],
  raced <- FALSE

\* However many calls of recv() sl_main_process_connection makes and whatever the
\* peer does meanwhile, the handler ends as one step of EventLoop.  Without octets
\* to read the connection is closed; else it is closed or initialised anew, as the
\* progress of the request says.  Nothing but that end changes the slot.
HandlesAsEventLoop ==
  [][IF pc = "deciding" /\ pc' # pc THEN Worker!HandleClient("fd")
     ELSE UNCHANGED slot]_vars

=============================================================================
