----------------------------- MODULE MCConnection -----------------------------
(***************************************************************************)
(* Connection with a receive buffer of 16 octets, so that a request takes  *)
(* several reads, one ends in the middle of a message, and the shortest    *)
(* request is exactly two of them.                                         *)
(***************************************************************************)
EXTENDS ConnectionHandler

Pair(name, value) == [name |-> name, value |-> value, long |-> FALSE]

\* 32 octets.
Shortest(id, flags) == <<Begin(id, flags), ParamsOf(id, <<>>, 0), StdinOf(id, <<>>, 0)>>

\* One parameter and a body.
Usual(id, flags) ==
  <<Begin(id, flags), ParamsOf(id, <<Pair(<<7>>, <<8, 9>>)>>, 0),
    ParamsOf(id, <<>>, 0), StdinOf(id, <<5>>, 2), StdinOf(id, <<>>, 0)>>

\* The body comes first, in two messages, and a parameter comes twice.
Mixed(id, flags) ==
  <<Begin(id, flags), StdinOf(id, <<5>>, 1), ParamsOf(id, <<Pair(<<7>>, <<8>>)>>, 0),
    StdinOf(id, <<6>>, 1), StdinOf(id, <<>>, 0),
    ParamsOf(id, <<Pair(<<7>>, <<9>>), Pair(<<6>>, <<>>)>>, 0), ParamsOf(id, <<>>, 0)>>

Script(requests, patient) == [requests |-> requests, patient |-> patient]

MCScripts ==
  {Script(<<Shortest(1, 0), Shortest(2, 0)>>, TRUE),
   Script(<<Shortest(1, 0), Shortest(2, 0)>>, FALSE),
   Script(<<Usual(1, 1), Shortest(2, 1)>>, TRUE),
   Script(<<Usual(1, 0)>>, TRUE),
   Script(<<Mixed(1, 0)>>, TRUE)}

=============================================================================
