------------------------------ MODULE Connection ------------------------------
(***************************************************************************)
(* One connection from the first octet to its close, at the level of the   *)
(* calls of recv(): sl_main_process_connection with sl_main_parse_buffer,  *)
(* sl_main_request_execute and what sl_main_event_loop does with the       *)
(* result.  The octets of the peer's requests go through the parser of     *)
(* FcgiParser and the request of FcgiRequest.                              *)
(*                                                                         *)
(* TCP is free to cut the octets anywhere, and more of them arrive between *)
(* two calls of recv().  An event ends when a recv() does not fill its     *)
(* buffer; whatever has been parsed of a request by then is thrown away    *)
(* with the connection, or, if the peer asked to keep it, without.         *)
(*                                                                         *)
(* An operator named X_Variant is X with a plausible mistake, for mutation *)
(* of the checked properties.                                              *)
(***************************************************************************)
EXTENDS FcgiRequest, FcgiMessages, FiniteSets

CONSTANTS
  RecvBuffer,  \* SL_NET_RECV_BUFFER_SIZE
  Scripts,     \* what peers may do: the requests they send, each a sequence of
               \* messages, and whether they wait for each answer
  Faults       \* the allocations that may fail: "parser" for the parser's
               \* and those FcgiRequest names

ASSUME BufferAssumption == RecvBuffer \in Nat \ {0}

\* A request as the protocol has it, of messages the parser can follow: first
\* BEGIN_REQUEST, then PARAMS and STDIN, each up to its empty message, one of
\* which is the last message.
IsWhole(messages) ==
  LET rest == 2 .. Len(messages)
      IsEnd(n) == Content(messages[n]) = <<>>
  IN  /\ \A n \in DOMAIN messages :
           Len(Content(messages[n])) \in Ids /\ IsSupported(messages[n])
      /\ messages # <<>> /\ "flags" \in DOMAIN messages[1]
      /\ \A n \in rest : messages[n].type \in {Params, Stdin}
      /\ \A type \in {Params, Stdin} :
           \E n \in rest : messages[n].type = type /\ IsEnd(n)
      /\ \A n, k \in rest : IsEnd(n) /\ n < k => messages[n].type # messages[k].type
      /\ IsEnd(Len(messages))

ASSUME ScriptsAssumption ==
  \A s \in Scripts :
    /\ s.requests \in Seq(Seq(Messages))
    /\ \A r \in DOMAIN s.requests : IsWhole(s.requests[r])

VARIABLES
  script,    \* what this peer does
  sent,      \* how many octets of its requests it has sent
  received,  \* how many recv() has returned
  hungup,    \* the peer has closed its end
  replies,   \* how many whole responses the peer got
  pc,        \* where the server is with this connection
  bytes_read, \* what the last recv() of the event returned, 0 for -1 as well
  parser,
  request,
  start,     \* history: received at the beginning of the event
  executed,  \* history: the request has been executed in this event
  unsent,    \* history: a response was not sent in full
  starved    \* history: an allocation has failed in this event

peerVars == <<script, sent, hungup>>
vars == <<script, sent, received, hungup, replies, pc, bytes_read,
          parser, request, start, executed, unsent, starved>>

-----------------------------------------------------------------------------

\* The octets of each script, and where its k-th request ends in them.
Wire == [s \in Scripts |-> EncodeAll(FlattenSeq(s.requests))]
Ends ==
  [s \in Scripts |->
     [k \in 0 .. Len(s.requests) |->
        Len(EncodeAll(FlattenSeq(SubSeq(s.requests, 1, k))))]]

stream == Wire[script]
EndOfRequest(k) == Ends[script][k]
Boundaries == {EndOfRequest(k) : k \in 0 .. Len(script.requests)}

\* The requests that have been sent in full.
Complete(octets) ==
  Cardinality({k \in 1 .. Len(script.requests) : EndOfRequest(k) <= octets})

\* A patient peer sends a request when it has the answers to all earlier ones.
SendLimit ==
  IF script.patient /\ replies < Len(script.requests)
  THEN EndOfRequest(replies + 1)
  ELSE Len(stream)

Init ==
  /\ script \in Scripts
  /\ sent = 0 /\ received = 0 /\ replies = 0
  /\ hungup = FALSE
  /\ pc = "idle"
  /\ bytes_read = 0
  /\ parser = ParserInit
  /\ request = RequestInit
  /\ start = 0
  /\ executed = FALSE /\ unsent = FALSE /\ starved = FALSE

(***************************************************************************)
(* The peer.                                                               *)
(***************************************************************************)

\* Octet by octet: more of them may come before the server looks.
Send ==
  /\ ~hungup
  /\ pc \notin {"closed", "crashed"}
  /\ sent < SendLimit
  /\ sent' = sent + 1
  /\ UNCHANGED <<script, received, hungup, replies, pc, bytes_read,
                 parser, request, start, executed, unsent, starved>>

HangUp ==
  /\ ~hungup
  /\ hungup' = TRUE
  /\ UNCHANGED <<script, sent, received, replies, pc, bytes_read,
                 parser, request, start, executed, unsent, starved>>

(***************************************************************************)
(* The server.                                                             *)
(***************************************************************************)

\* One octet of sl_main_parse_buffer while an allocation may fail.  s holds the
\* parser, the request and whether the loop has been left.  The octet that ends
\* a message without being part of it goes to the parser made anew.
ParseWith(s, octet, mem) ==
  LET ok == mem # "parser"
      p == ParseOctet(s.parser, octet, ok)
      r == ProcessMessage(s.request, p, mem)
      again == IF IsCounted(s.parser, octet, ok)
               THEN ParserInit
               ELSE ParseOctet(ParserInit, octet, TRUE)
  IN  CASE p.state \notin FinalStates -> [s EXCEPT !.parser = p]
        [] p.state = "ERROR" -> [s EXCEPT !.parser = p, !.left = TRUE]
        [] p.state = "FINISHED" ->
             IF r.crashed \/ r.state \in {"ERROR", "FINISHED"}
             THEN [s EXCEPT !.parser = p, !.request = r, !.left = TRUE]
             ELSE [s EXCEPT !.parser = again, !.request = r]

\* The allocations that may be made for an octet: those of the request when a
\* message is finished.
MayFail(s, octet) ==
  Faults \cap IF ParseOctet(s.parser, octet, TRUE).state = "FINISHED"
              THEN {"parser", "name", "value", "bucket", "stdin"}
              ELSE {"parser"}

\* All that can come of it.
ParseNext(s, octet) ==
  IF s.left
  THEN {s}
  ELSE LET good == ParseWith(s, octet, "none")
           bad == {ParseWith(s, octet, mem) : mem \in MayFail(s, octet)} \ {good}
       IN  {good} \cup {[b EXCEPT !.starved = TRUE] : b \in bad}

\* sl_main_parse_buffer on the octets of the stream from first to last; those
\* behind a complete request are dropped.
ParseBuffer(first, last) ==
  LET after[n \in first - 1 .. last] ==
        IF n < first
        THEN {[parser |-> parser, request |-> request, left |-> FALSE,
               starved |-> starved]}
        ELSE UNION {ParseNext(s, stream[n]) : s \in after[n - 1]}
  IN  after[last]

\* The event of epoll_wait() for this connection.
Event ==
  /\ pc = "idle"
  /\ received < sent \/ hungup
  /\ pc' = "reading"
  /\ start' = received
  /\ executed' = FALSE
  /\ starved' = FALSE
  /\ UNCHANGED <<peerVars, received, replies, bytes_read, parser, request, unsent>>

\* What recv() returns when so many octets are there.
BytesRead(available) == IF available < RecvBuffer THEN available ELSE RecvBuffer

\* bytes_read < SL_NET_RECV_BUFFER_SIZE
IsLastRead(n) == n < RecvBuffer

HasFailed(p, r) == p.state = "ERROR" \/ r.state = "ERROR"

\* The response: all of it is written, or writev() fails, stops short of the
\* end or is not reached for want of memory, which all look alike later on.
Respond(whole) ==
  /\ executed' = TRUE
  /\ replies' = replies + IF whole THEN 1 ELSE 0
  /\ unsent' = (unsent \/ ~whole)

\* recv() returns octets and the buffer is parsed.
Receive ==
  /\ pc = "reading"
  /\ received < sent
  /\ bytes_read' = BytesRead(sent - received)
  /\ received' = received + bytes_read'
  /\ \E after \in ParseBuffer(received + 1, received') :
       /\ parser' = after.parser
       /\ request' = after.request
       /\ starved' = after.starved
       /\ pc' = IF after.request.crashed THEN "crashed"
                ELSE IF HasFailed(after.parser, after.request) \/ IsLastRead(bytes_read')
                THEN "deciding"
                ELSE "reading"
       /\ IF after.left /\ after.request.state = "FINISHED" /\ ~after.request.crashed
          THEN Respond(TRUE) \/ Respond(FALSE)
          ELSE UNCHANGED <<executed, replies, unsent>>
  /\ UNCHANGED <<peerVars, start>>

\* recv() returns 0 at the end of the octets, -1 (EAGAIN) before.
ReceiveNothing ==
  /\ pc = "reading"
  /\ received = sent
  /\ bytes_read' = 0
  /\ pc' = "deciding"
  /\ UNCHANGED <<peerVars, received, replies, parser, request, start, executed,
                 unsent, starved>>

\* Variants: a connection with nothing left to read is closed; one is kept
\* until its request is complete; one is kept that brought no message.
MustClose_WhenDrained ==
  \/ HasFailed(parser, request)
  \/ bytes_read = 0
  \/ request.state # "FINISHED" /\ ~KeepsConn(request)

MustClose_OnErrorOnly ==
  HasFailed(parser, request) \/ (received = sent /\ bytes_read = 0)

MustClose_KeepsSilent ==
  \/ HasFailed(parser, request)
  \/ request.state \notin {"BEGIN", "FINISHED"} /\ ~KeepsConn(request)

\* sl_main_process_connection returns 0.
MustClose ==
  \/ HasFailed(parser, request)
  \/ request.state # "FINISHED" /\ ~KeepsConn(request)

Close ==
  /\ pc = "deciding"
  /\ MustClose
  /\ pc' = "closed"
  /\ UNCHANGED <<peerVars, received, replies, bytes_read, parser, request, start,
                 executed, unsent, starved>>

\* Variant: only the parser starts afresh.
Reuse_KeepsRequest ==
  /\ pc = "deciding"
  /\ ~MustClose
  /\ pc' = "idle"
  /\ parser' = ParserInit
  /\ UNCHANGED <<peerVars, received, replies, bytes_read, request, start, executed,
                 unsent, starved>>

\* "Reusing connection": sl_net_init_connection.
Reuse ==
  /\ pc = "deciding"
  /\ ~MustClose
  /\ pc' = "idle"
  /\ parser' = ParserInit
  /\ request' = RequestInit
  /\ UNCHANGED <<peerVars, received, replies, bytes_read, start, executed, unsent,
                 starved>>

Server ==
  \/ Event
  \/ Receive
  \/ ReceiveNothing
  \/ Close
  \/ Reuse

Next ==
  \/ Server
  \/ Send
  \/ HangUp

Spec == Init /\ [][Next]_vars

\* The worker handles every event there is, and runs each handler to its end.
FairSpec == Spec /\ WF_vars(Server)

-----------------------------------------------------------------------------
(***************************************************************************)
(* Properties.                                                             *)
(***************************************************************************)

InHandler == pc \in {"reading", "deciding"}

\* The request the event began with, when it began at one.
Current == script.requests[Complete(start) + 1]
BeganAtRequest == start \in Boundaries /\ Complete(start) < Len(script.requests)

\* What the messages of a request say, as the protocol means it.
PairsOf(messages) ==
  FlattenSeq([n \in DOMAIN messages |->
                IF "pairs" \in DOMAIN messages[n] THEN messages[n].pairs ELSE <<>>])
ParametersOf(messages) ==
  LET pairs == PairsOf(messages)
      Of(name) == {n \in DOMAIN pairs : pairs[n].name = name}
  IN  [name \in {pairs[n].name : n \in DOMAIN pairs} |->
         pairs[CHOOSE n \in Of(name) : \A k \in Of(name) : k <= n].value]
BodyOf(messages) ==
  FlattenSeq([n \in DOMAIN messages |->
                IF messages[n].type = Stdin THEN messages[n].octets ELSE <<>>])

\* sl_main_request_execute runs only when every octet of the request has been
\* read, for the id of that request and, if memory lasted, with its parameters
\* and its body, however its octets were cut and its messages ordered.
ExecutesWhatWasSent ==
  InHandler /\ executed /\ start \in Boundaries =>
    /\ BeganAtRequest
    /\ received >= EndOfRequest(Complete(start) + 1)
    /\ request.request_id = Current[1].id
    /\ ~starved => /\ request.parameters = ParametersOf(Current)
                   /\ request.stdin = BodyOf(Current)

\* An event that began at a request ends without executing it only when the
\* octets there were have been read and are too few; it is never an error,
\* unless memory ran out.
WholeRequestIsExecuted ==
  pc = "deciding" /\ BeganAtRequest /\ ~starved /\ ~executed =>
    /\ received < EndOfRequest(Complete(start) + 1)
    /\ ~HasFailed(parser, request)
    /\ IsLastRead(bytes_read)

\* The peer never gets more responses than it sent whole requests: what is left
\* behind a request, or of one that was not read in one event, is not answered.
\* That is so of peers that wait and do not keep the connection.  With others the
\* server may lose its place, and then it holds as long as no name, value or body
\* has octets that are themselves a request; those of the run have none.
RepliesAreEarned == replies <= Complete(received)

\* A peer that waits for its answers is not closed on after one, also when its
\* request filled the buffer and recv() is called again; unless the peer has the
\* answer by then and that call returns octets of its next request, which are
\* taken for a part of the finished one.
ServedPeerIsKept ==
  pc = "closed" /\ executed /\ script.patient /\ BeganAtRequest =>
    received > EndOfRequest(Complete(start) + 1)

AsksToKeep ==
  \E r \in DOMAIN script.requests : script.requests[r][1].flags % 2 = 1

\* Between events the server is at the first octet of a request, if the peer
\* waits for its answers and did not set KEEP_CONN.
StaysInStep ==
  pc = "idle" /\ script.patient /\ ~AsksToKeep => received \in Boundaries

\* Such a peer, once it has sent a request, is answered or closed on, or the
\* response could not be written.
PeerIsAnswered ==
  \A k \in 1 .. 2 :
    script.patient /\ ~AsksToKeep /\ k <= Len(script.requests)
      /\ sent >= EndOfRequest(k)
    ~> replies >= k \/ unsent \/ pc \in {"closed", "crashed"}

\* A peer that hangs up is closed on, whatever part of a request it leaves
\* behind.
HangUpCloses == hungup ~> pc \in {"closed", "crashed"}

=============================================================================
