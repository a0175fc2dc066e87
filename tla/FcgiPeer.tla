------------------------------- MODULE FcgiPeer -------------------------------
(***************************************************************************)
(* The response as the peer sees it: the messages it makes of the octets   *)
(* that have arrived, and what it may rely on.  How these octets come      *)
(* about is FcgiResponse.                                                  *)
(***************************************************************************)
EXTENDS FcgiWire

CONSTANT LengthLimit  \* 2 ^ 16, the first length a uint16_t does not hold

VARIABLES
  request_id,
  headers,     \* a function from the names set so far to their values
  raw,         \* what sl_fcgi_response_process returned
  wire,        \* the octets the socket took
  whole        \* history: the socket took all it was given

Stdout == 6
EndRequest == 3

NewLine == <<13, 10>>

\* "%S: %S\r\n"
HeaderLine(name, value) == name \o <<58, 32>> \o value \o NewLine

\* The messages that are complete.
Decoded ==
  LET Has(n) == n <= Len(wire)
      Length(i) == 256 * wire[i + 4] + wire[i + 5]
      from[i \in 1 .. Len(wire) + 1] ==
        IF ~Has(i + 7) \/ ~Has(i + 7 + Length(i) + wire[i + 6])
        THEN <<>>
        ELSE <<[type |-> wire[i + 1], id |-> 256 * wire[i + 2] + wire[i + 3],
                content |-> SubSeq(wire, i + 8, i + 7 + Length(i))]>>
               \o from[i + 8 + Length(i) + wire[i + 6]]
  IN  from[1]

HasEnded == \E n \in DOMAIN Decoded : Decoded[n].type = EndRequest

\* The peer sees the end of the request once the socket has taken everything,
\* and not before it has seen a response to its request, ended by an empty
\* message, and nothing else: however long the response is, its 16 bit length
\* does not put the peer out of step.
EndIsInStep ==
  /\ whole <=> HasEnded
  /\ HasEnded =>
       /\ Len(Decoded) = 3
       /\ \A n \in 1 .. 3 : Decoded[n].id = request_id
       /\ Decoded[1].type = Stdout
       /\ Decoded[2].type = Stdout /\ Decoded[2].content = <<>>

\* A response the length field can hold arrives whole: the peer is never told
\* of the end of a shorter one.
WholeIfItFits ==
  HasEnded /\ Len(raw) < LengthLimit =>
    /\ Decoded[1].content = raw
    /\ \A h \in DOMAIN headers :
         \E n \in 0 .. Len(raw) :
           LET line == HeaderLine(h, headers[h]) IN
             SubSeq(raw, n + 1, n + Len(line)) = line

=============================================================================
