---------------------------- MODULE MCFcgiFraming ----------------------------
(***************************************************************************)
(* Messages that meet the boundaries of the parser: lengths of zero, of    *)
(* one and of four octets, 127 and 128 octets of value, several pairs in a *)
(* message, padding, request ids and contents of two octets.               *)
(***************************************************************************)
EXTENDS FcgiFraming

Pair(name, value, long) == [name |-> name, value |-> value, long |-> long]
Octets(n) == [k \in 1 .. n |-> k]

\* Messages the parser is meant for.
WellFormed ==
  {Begin(1, 0), Begin(258, 1),
   ParamsOf(1, <<>>, 0), StdinOf(1, <<>>, 0),
   ParamsOf(1, <<Pair(<<7>>, <<8, 9>>, FALSE)>>, 0),
   ParamsOf(1, <<Pair(<<7>>, <<8, 9>>, TRUE)>>, 1),
   ParamsOf(1, <<Pair(<<>>, <<>>, FALSE)>>, 0),
   ParamsOf(1, <<Pair(<<>>, <<8>>, FALSE), Pair(<<7>>, <<>>, TRUE)>>, 2),
   StdinOf(1, <<5>>, 7),
   StdinOf(1, <<5, 6>>, 1)}

\* A long value, whose content_length needs both octets as well.
Long ==
  {ParamsOf(1, <<Pair(<<7>>, Octets(127), FALSE)>>, 0),
   ParamsOf(1, <<Pair(<<7>>, Octets(128), FALSE), Pair(<<7>>, Octets(124), FALSE)>>, 3)}

\* Messages that other peers may send and this parser does not follow.
Unsupported ==
  {[Begin(1, 0) EXCEPT !.padding = 1],
   ParamsOf(1, <<>>, 1),
   StdinOf(1, <<5, 6>>, 0),
   Plain(Params, 1, <<1, 4, 7, 8>>, 0),  \* a pair cut in two
   Plain(2, 1, <<>>, 0),                 \* ABORT_REQUEST
   Plain(9, 1, <<5>>, 0)}

\* Every message before every other one, and the usual request.  A long
\* message is not put after one the parser loses its place in: it would read
\* any octet as a length, and the buffers would be too large for TLC.
MCStreams ==
  UNION {[1 .. 2 -> WellFormed \cup Unsupported],
         [1 .. 2 -> Long \cup {StdinOf(1, <<5>>, 7)}],
         {<<l, m>> : l \in Long, m \in Unsupported},
         {<<Begin(1, 0), ParamsOf(1, <<Pair(<<7>>, <<8, 9>>, FALSE)>>, 0),
            ParamsOf(1, <<>>, 0), StdinOf(1, <<5>>, 7), StdinOf(1, <<>>, 0)>>}}

=============================================================================
