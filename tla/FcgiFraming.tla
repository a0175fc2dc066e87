----------------------------- MODULE FcgiFraming -----------------------------
(***************************************************************************)
(* The parser of FcgiParser reading a stream of messages octet by octet,   *)
(* made anew after each message as sl_main_parse_buffer does.  Where the   *)
(* stream is cut into buffers does not show at this level: nothing but the *)
(* parser is kept from one octet to the next.                              *)
(***************************************************************************)
EXTENDS FcgiMessages

CONSTANT Streams  \* the sequences of messages the peer may send

ASSUME StreamsAssumption ==
  \A messages \in Streams :
    /\ messages \in Seq(Messages)
    /\ \A n \in DOMAIN messages : Len(Content(messages[n])) \in Ids

VARIABLES
  sent,      \* the messages of the peer
  stream,    \* their octets
  position,  \* how many octets have been counted as parsed
  parser,
  finished,  \* how many messages have been handed on
  starved    \* history: an allocation has failed

vars == <<sent, stream, position, parser, finished, starved>>

Init ==
  /\ sent \in Streams
  /\ stream = EncodeAll(sent)
  /\ position = 0
  /\ parser = ParserInit
  /\ finished = 0
  /\ starved = FALSE

\* One turn of sl_fcgi_parser_parse; ok is FALSE when the arena has no memory.
Parse(ok) ==
  /\ position < Len(stream)
  /\ parser.state \notin FinalStates
  /\ LET octet == stream[position + 1] IN
       /\ parser' = ParseOctet(parser, octet, ok)
       /\ position' = position + IF IsCounted(parser, octet, ok) THEN 1 ELSE 0
       /\ ok \/ ParseOctet(parser, octet, FALSE) # ParseOctet(parser, octet, TRUE)
  /\ starved' = ~ok
  /\ UNCHANGED <<sent, stream, finished>>

\* sl_main_parse_buffer hands the message on and calls sl_fcgi_parser_init.
HandOn ==
  /\ parser.state = "FINISHED"
  /\ finished' = finished + 1
  /\ parser' = ParserInit
  /\ UNCHANGED <<sent, stream, position, starved>>

Next == Parse(TRUE) \/ Parse(FALSE) \/ HandOn

Spec == Init /\ [][Next]_vars

\* The parser is run on every octet there is, and memory is not always out.
FairSpec == Spec /\ WF_vars(HandOn) /\ WF_vars(Parse(TRUE))

-----------------------------------------------------------------------------

\* All the messages up to the n-th one are.
SupportedTo(n) == \A k \in 1 .. n : k <= Len(sent) => IsSupported(sent[k])

\* Where the n-th message ends on the wire.
EndOf(n) == Len(EncodeAll(SubSeq(sent, 1, n)))

\* A supported message is finished exactly when all its octets, padding
\* included, and no octet of the next one have been counted, and the parser
\* then holds what the peer sent.
FinishedAtBoundary ==
  parser.state = "FINISHED" /\ SupportedTo(finished + 1) =>
    /\ position = EndOf(finished + 1)
    /\ Holds(parser, sent[finished + 1])

\* On supported messages the parser fails for want of memory only.
FailsOnlyStarved ==
  parser.state = "ERROR" /\ SupportedTo(finished + 1) => starved

\* What the parser writes through its pointers stays within what it allocated,
\* and no octet is skipped, whatever lengths the peer announces.
BuffersFilledInOrder ==
  /\ parser.state = "NAME_DATA" /\ LastParam(parser).name # Null =>
       Partial(LastParam(parser).name, parser.read_counter)
  /\ parser.state = "VALUE_DATA" /\ LastParam(parser).value # Null =>
       Partial(LastParam(parser).value, parser.read_counter)
  /\ parser.state = "STDIN_DATA" /\ parser.stdin # Null =>
       Partial(parser.stdin, parser.read_counter)
  /\ parser.state = "FINISHED" =>
       \A n \in DOMAIN parser.params :
         /\ Partial(parser.params[n].name, 0)
         /\ Partial(parser.params[n].value, 0)

\* A stream of supported messages is handed on up to the last one, which may
\* lack the octet that would finish it.
EveryMessageHandedOn ==
  SupportedTo(Len(sent)) =>
    <>(finished >= Len(sent) - 1 \/ parser.state = "ERROR")

\* sl_fcgi.c sets SL_FCGI_PARSER_STATE_FINISHED after the last octet of STDIN
\* content without padding: such a message should not end in an error.
UnpaddedStdinFinishes ==
  parser.state = "ERROR" /\ ~starved =>
    ~(parser.type = Stdin /\ parser.padding_length = 0)

=============================================================================
