------------------------------- MODULE FcgiWire -------------------------------
(***************************************************************************)
(* The peer's side of the protocol: the messages a web server sends and    *)
(* their octets on the wire.  A message says what its content is, be it    *)
(* the flags of BEGIN_REQUEST, the pairs of PARAMS or plain octets: those  *)
(* of STDIN, of a part of a longer PARAMS stream, of an unknown message.   *)
(***************************************************************************)
EXTENDS Naturals, Sequences, SequencesExt

Repeat(octet, n) == [k \in 1 .. n |-> octet]

TwoOctets(n) == <<n \div 256, n % 256>>

\* A length takes four octets when the peer chooses so or must.
EncodeLength(n, long) ==
  IF long \/ n > 127
  THEN <<128 + n \div 16777216, (n \div 65536) % 256>> \o TwoOctets(n % 65536)
  ELSE <<n>>

EncodePair(pair) ==
  EncodeLength(Len(pair.name), pair.long) \o EncodeLength(Len(pair.value), pair.long)
    \o pair.name \o pair.value

Begin(id, flags) ==
  [type |-> 1, id |-> id, flags |-> flags, padding |-> 0]
ParamsOf(id, pairs, padding) ==
  [type |-> 4, id |-> id, pairs |-> pairs, padding |-> padding]
Plain(type, id, octets, padding) ==
  [type |-> type, id |-> id, octets |-> octets, padding |-> padding]
StdinOf(id, octets, padding) == Plain(5, id, octets, padding)

Content(m) ==
  CASE "flags" \in DOMAIN m -> <<0, 1, m.flags>> \o Repeat(0, 5)
    [] "pairs" \in DOMAIN m ->
         FlattenSeq([n \in DOMAIN m.pairs |-> EncodePair(m.pairs[n])])
    [] "octets" \in DOMAIN m -> m.octets

EncodeHeader(m, length) ==
  <<1, m.type>> \o TwoOctets(m.id) \o TwoOctets(length) \o <<m.padding, 0>>

Encode(m) ==
  EncodeHeader(m, Len(Content(m))) \o Content(m) \o Repeat(0, m.padding)

EncodeAll(messages) == FlattenSeq([n \in DOMAIN messages |-> Encode(messages[n])])

=============================================================================
