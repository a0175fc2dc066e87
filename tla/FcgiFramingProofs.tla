-------------------------- MODULE FcgiFramingProofs ---------------------------
(***************************************************************************)
(* Proofs about FcgiFraming for every stream of messages, and about        *)
(* FcgiResponse for every response: the server finds the end of each       *)
(* message it gets, and its peer the end of each it is sent.               *)
(***************************************************************************)
EXTENDS FcgiFraming, FcgiPeer, FcgiMessageProofs, FiniteSetTheorems

-----------------------------------------------------------------------------
(***************************************************************************)
(* Buffers are filled in order: the parser has its type and is Filling.    *)
(***************************************************************************)

\* The parser has its type and its buffers are filled in order, whatever the
\* peer sends and wherever memory is out.
FramingInv ==
  /\ parser \in Parsers /\ Filling(parser)
  /\ stream \in Seq(Octet) /\ position \in Nat

\* FramingInv is inductive: each octet by FillingKept, HandOn by NewParser.
LEMMA FramingHolds == Spec => []FramingInv
<1>1. Init => FramingInv
  <2> SUFFICES ASSUME Init PROVE FramingInv
    OBVIOUS
  <2>1. sent \in Streams /\ stream = EncodeAll(sent) /\ position = 0 /\ parser = ParserInit
    BY DEF Init
  <2>2. EncodeAll(sent) \in Seq(Octet)
    BY <2>1, AllEncoded, StreamsAssumption
  <2> QED
    BY <2>1, <2>2, NewParser DEF FramingInv
<1>2. FramingInv /\ [Next]_vars => FramingInv'
  <2> SUFFICES ASSUME FramingInv, [Next]_vars
               PROVE  FramingInv'
    OBVIOUS
  <2>1. ASSUME NEW ok \in BOOLEAN, Parse(ok)
        PROVE  FramingInv'
    <3>1. stream[position + 1] \in Octet
      BY <2>1 DEF Parse, FramingInv
    <3>2. parser' = ParseOctet(parser, stream[position + 1], ok)
      BY <2>1 DEF Parse
    <3>3. parser' \in Parsers /\ Filling(parser')
      BY <3>1, <3>2, FillingKept DEF FramingInv
    <3>4. position' \in Nat /\ stream' = stream
      BY <2>1 DEF Parse, FramingInv
    <3> QED
      BY <3>3, <3>4 DEF FramingInv
  <2>2. CASE HandOn
    BY <2>2, NewParser DEF HandOn, FramingInv
  <2>3. CASE UNCHANGED vars
    BY <2>3 DEF vars, FramingInv
  <2> QED
    BY <2>1, <2>2, <2>3 DEF Next
<1> QED
  BY <1>1, <1>2, PTL DEF Spec

\* A Filling parser is what BuffersFilledInOrder asks for.
LEMMA FillingIsInOrder ==
  FramingInv => BuffersFilledInOrder
<1> SUFFICES ASSUME FramingInv PROVE BuffersFilledInOrder
  OBVIOUS
<1>1. Filling(parser) /\ parser \in Parsers
  BY DEF FramingInv
<1>2. parser.state = "FINISHED" =>
       \A n \in DOMAIN parser.params :
         /\ Partial(parser.params[n].name, 0)
         /\ Partial(parser.params[n].value, 0)
  BY <1>1 DEF Filling, AllWhole, Whole, Done, Parsers
<1> QED
  BY <1>1, <1>2 DEF Filling, BuffersFilledInOrder

\* The code stores the octets of names, values and STDIN through
\* length - read_counter: whatever the peer sends, they are stored from the start
\* of what was allocated, one after the other, and never outside it.
THEOREM FilledInOrder == Spec => []BuffersFilledInOrder
  BY FramingHolds, FillingIsInOrder, PTL

-----------------------------------------------------------------------------
(***************************************************************************)
(* The parser is in step with the stream: it follows a message up to the   *)
(* first one that is not supported, or until memory is out.                *)
(***************************************************************************)

\* Where the messages are on the wire.
LEMMA MessagePlaced ==
  ASSUME sent \in Streams, stream = EncodeAll(sent)
  PROVE  /\ sent \in Seq(Messages) /\ Len(sent) \in Nat
         /\ EndOf(0) = 0 /\ EndOf(Len(sent)) = Len(stream)
         /\ \A n \in 1 .. Len(sent) :
              /\ IsSent(sent[n]) /\ EndOf(n - 1) \in Nat
              /\ EndOf(n) = EndOf(n - 1) + Len(Encode(sent[n]))
              /\ EndOf(n) <= Len(stream)
              /\ \A i \in 1 .. Len(Encode(sent[n])) :
                   stream[EndOf(n - 1) + i] = Encode(sent[n])[i]
<1>1. /\ sent \in Seq(Messages)
      /\ \A n \in DOMAIN sent : Len(Content(sent[n])) \in Ids
  BY StreamsAssumption
<1>2. \A n : EndOf(n) = EndIn(sent, n)
  BY DEF EndOf, EndIn
<1> QED
  BY <1>1, <1>2, StreamPlaced

\* Some octets of the message after those handed on are parsed.
InMessage ==
  /\ ~starved /\ finished < Len(sent)
  /\ \E o \in Nat :
       /\ position = EndOf(finished) + o /\ o <= Len(Encode(sent[finished + 1]))
       /\ Follows(parser, sent[finished + 1], o)

\* Every message has been handed on.
AtEnd ==
  ~starved /\ finished = Len(sent) /\ parser = ParserInit /\ position = Len(stream)

\* As long as the messages are supported, the parser keeps in step with them.
InStep ==
  /\ sent \in Streams /\ stream = EncodeAll(sent) /\ finished \in Nat
  /\ SupportedTo(finished + 1) =>
       \/ parser.state = "ERROR" /\ starved
       \/ InMessage
       \/ AtEnd

\* A new parser where a message starts, or after the last one.
AtStart ==
  /\ sent \in Streams /\ stream = EncodeAll(sent) /\ finished \in 0 .. Len(sent)
  /\ ~starved /\ parser = ParserInit /\ position = EndOf(finished)

\* A new parser where a message starts follows it by no octet.
LEMMA StartsMessage == AtStart => InMessage \/ AtEnd
<1> SUFFICES ASSUME AtStart PROVE InMessage \/ AtEnd
  OBVIOUS
<1> USE DEF AtStart
<1>1. Len(sent) \in Nat /\ EndOf(Len(sent)) = Len(stream)
  BY MessagePlaced
<1>2. CASE finished = Len(sent)
  BY <1>1, <1>2 DEF AtEnd
<1>3. CASE finished < Len(sent)
  <2>1. finished + 1 \in 1 .. Len(sent) /\ (finished + 1) - 1 = finished
    BY <1>1, <1>3
  <2>2. EndOf(finished) \in Nat /\ IsSent(sent[finished + 1])
    BY <2>1, MessagePlaced
  <2>3. 0 <= Len(Encode(sent[finished + 1]))
    <3>1. Sends(Encode(sent[finished + 1]), sent[finished + 1])
      BY <2>2, EncodeFacts
    <3>2. Encode(sent[finished + 1]) \in Seq(Octet)
      BY <3>1, Zenon DEF Sends
    <3> QED
      BY <3>2
  <2>4. position = EndOf(finished) + 0 /\ Follows(parser, sent[finished + 1], 0)
    BY <2>2, InitFollows
  <2> QED
    BY <1>3, <2>3, <2>4 DEF InMessage
<1> QED
  BY <1>1, <1>2, <1>3

\* One octet is parsed.
LEMMA ParseInStep ==
  ASSUME InStep, FramingInv, SupportedTo(finished + 1),
         NEW ok \in BOOLEAN, ok, Parse(ok)
  PROVE  InMessage'
<1>1. /\ position < Len(stream) /\ parser.state \notin FinalStates
      /\ parser' = ParseOctet(parser, stream[position + 1], ok)
      /\ position' = position + IF IsCounted(parser, stream[position + 1], ok) THEN 1 ELSE 0
      /\ starved' = FALSE
      /\ sent' = sent /\ stream' = stream /\ finished' = finished
  BY DEF Parse
<1>2. /\ sent \in Streams /\ stream = EncodeAll(sent) /\ finished \in Nat
      /\ parser \in Parsers /\ position \in Nat /\ stream \in Seq(Octet)
      /\ InMessage
  BY <1>1 DEF InStep, FramingInv, AtEnd, FinalStates
<1>3. PICK o \in Nat :
        /\ position = EndOf(finished) + o /\ o <= Len(Encode(sent[finished + 1]))
        /\ Follows(parser, sent[finished + 1], o)
  BY <1>2 DEF InMessage
<1>4. PICK m, e, start, octet :
        /\ m = sent[finished + 1] /\ e = Encode(m) /\ start = EndOf(finished)
        /\ octet = stream[position + 1]
  OBVIOUS
<1>5. /\ finished + 1 \in 1 .. Len(sent) /\ (finished + 1) - 1 = finished
      /\ finished < Len(sent)
  BY <1>2, MessagePlaced DEF InMessage
<1>6. /\ IsSent(m) /\ IsSupported(m) /\ start \in Nat
      /\ \A i \in 1 .. Len(e) : stream[start + i] = e[i]
  <2>1. /\ IsSent(m) /\ start \in Nat
        /\ \A i \in 1 .. Len(e) : stream[start + i] = e[i]
    BY <1>2, <1>4, <1>5, MessagePlaced, SMTT(60)
  <2>2. finished + 1 \in 1 .. finished + 1 /\ finished + 1 <= Len(sent)
    BY <1>2, <1>5, MessagePlaced
  <2>3. IsSupported(m)
    BY <1>4, <2>2 DEF SupportedTo
  <2> QED
    BY <2>1, <2>3
<1>7. octet \in Octet
  BY <1>1, <1>2, <1>4
<1>8. /\ o < Len(e) /\ octet = e[o + 1] =>
           Follows(parser', m, o + 1) /\ IsCounted(parser, octet, ok)
      /\ o = Len(e) => FinishedAt(parser', m, o) /\ ~IsCounted(parser, octet, ok)
  <2>1. LET q == ParseOctet(parser, octet, ok) IN
          /\ o < Len(Encode(m)) /\ octet = Encode(m)[o + 1] =>
               Follows(q, m, o + 1) /\ IsCounted(parser, octet, ok)
          /\ o = Len(Encode(m)) => FinishedAt(q, m, o) /\ ~IsCounted(parser, octet, ok)
    <3>1. Follows(parser, m, o) /\ parser \in Parsers /\ parser.state \notin FinalStates
      BY <1>1, <1>2, <1>3, <1>4
    <3> QED
      BY <1>6, <1>7, <3>1, OctetFollows
  <2> QED
    BY <1>1, <1>4, <2>1, Zenon
<1>9. Len(e) \in Nat
  BY <1>4, <1>6, MessageNumbers
<1>10. CASE o < Len(e)
  <2>1. o + 1 \in 1 .. Len(e) /\ position + 1 = start + (o + 1)
    BY <1>3, <1>4, <1>6, <1>9, <1>10
  <2>2. octet = e[o + 1]
    BY <1>4, <1>6, <2>1
  <2>3. position' = start + (o + 1) /\ o + 1 <= Len(e) /\ o + 1 \in Nat
    BY <1>1, <1>4, <1>8, <1>10, <2>1, <2>2, <1>2
  <2>4. Follows(parser', m, o + 1)
    BY <1>8, <1>10, <2>2
  <2>5. /\ EndOf(finished)' = EndOf(finished)
        /\ sent'[finished' + 1] = m
    BY <1>1, <1>4 DEF EndOf
  <2> QED
    BY <1>1, <1>4, <1>5, <2>3, <2>4, <2>5 DEF InMessage
<1>11. CASE o = Len(e)
  <2>1. position' = start + o /\ FinishedAt(parser', m, o)
    <3>1. ~IsCounted(parser, octet, ok) /\ FinishedAt(parser', m, o)
      BY <1>8, <1>11
    <3>2. position' = position + 0
      BY <1>1, <1>4, <3>1
    <3> QED
      BY <1>2, <1>3, <1>4, <3>1, <3>2
  <2>2. Follows(parser', m, o)
    BY <2>1 DEF Follows
  <2>5. /\ EndOf(finished)' = EndOf(finished)
        /\ sent'[finished' + 1] = m
    BY <1>1, <1>4 DEF EndOf
  <2> QED
    BY <1>1, <1>3, <1>4, <1>5, <2>1, <2>2, <2>5 DEF InMessage
<1> QED
  BY <1>3, <1>4, <1>9, <1>10, <1>11

\* What a finished message says of the position.
LEMMA AtBoundary ==
  ASSUME InStep, SupportedTo(finished + 1), parser.state = "FINISHED"
  PROVE  /\ finished + 1 \in 1 .. Len(sent) /\ ~starved
         /\ position = EndOf(finished + 1) /\ Holds(parser, sent[finished + 1])
<1>1. InMessage /\ finished \in Nat /\ sent \in Streams /\ stream = EncodeAll(sent)
  BY DEF InStep, AtEnd, ParserInit
<1>2. PICK o \in Nat :
        /\ position = EndOf(finished) + o /\ o <= Len(Encode(sent[finished + 1]))
        /\ Follows(parser, sent[finished + 1], o)
  BY <1>1 DEF InMessage
<1>3. FinishedAt(parser, sent[finished + 1], o)
  BY <1>2, FollowsEnds
<1>4. /\ finished + 1 \in 1 .. Len(sent) /\ (finished + 1) - 1 = finished /\ ~starved
  BY <1>1, MessagePlaced, SMTT(60) DEF InMessage
<1>5. PICK m : m = sent[finished + 1]
  OBVIOUS
<1>6. IsSent(m) /\ EndOf(finished + 1) = EndOf(finished) + Len(Encode(m))
  BY <1>1, <1>4, <1>5, MessagePlaced
<1>7. Len(Encode(m)) = 8 + Len(Content(m)) + m.padding
  BY <1>6, EncodeFacts, Zenon DEF Sends
<1>8. o = 8 + Len(Content(m)) + m.padding /\ Holds(parser, m)
  BY <1>3, <1>5 DEF FinishedAt
<1> QED
  BY <1>2, <1>4, <1>5, <1>6, <1>7, <1>8

\* InStep is inductive: an octet by ParseInStep, memory out by OctetStarved, and
\* HandOn by AtBoundary, as a finished message ends where the next one starts.
LEMMA InStepHolds == Spec => []InStep
<1>1. Init => InStep
  <2> SUFFICES ASSUME Init PROVE InStep
    OBVIOUS
  <2>1. /\ sent \in Streams /\ stream = EncodeAll(sent) /\ position = 0
        /\ parser = ParserInit /\ finished = 0 /\ ~starved
    BY DEF Init
  <2>2. finished \in 0 .. Len(sent) /\ position = EndOf(finished)
    BY <2>1, MessagePlaced
  <2> QED
    BY <2>1, <2>2, StartsMessage DEF InStep, AtStart
<1>2. AtStart' => InMessage' \/ AtEnd'
  BY StartsMessage, PTL
<1>3. FramingInv /\ InStep /\ [Next]_vars => InStep'
  <2> SUFFICES ASSUME FramingInv, InStep, [Next]_vars
               PROVE  InStep'
    OBVIOUS
  <2>1. sent \in Streams /\ stream = EncodeAll(sent) /\ finished \in Nat
    BY DEF InStep
  <2>2. ASSUME NEW ok \in BOOLEAN, Parse(ok)
        PROVE  InStep'
    <3>1. sent' = sent /\ stream' = stream /\ finished' = finished /\ starved' = ~ok
      BY <2>2 DEF Parse
    <3>2. SupportedTo(finished + 1)' => SupportedTo(finished + 1)
      BY <3>1 DEF SupportedTo
    <3>3. CASE ok
      <4>1. SupportedTo(finished + 1) => InMessage'
        BY <2>2, <3>3, ParseInStep
      <4> QED
        BY <2>1, <3>1, <3>2, <4>1 DEF InStep
    <3>4. CASE ~ok
      <4>1. /\ parser' = ParseOctet(parser, stream[position + 1], ok)
            /\ ParseOctet(parser, stream[position + 1], FALSE)
                 # ParseOctet(parser, stream[position + 1], TRUE)
        BY <2>2, <3>4 DEF Parse
      <4>2. PICK in, out : in = TRUE /\ out = FALSE
        OBVIOUS
      <4>3. \/ ParseOctet(parser, stream[position + 1], out)
                 = ParseOctet(parser, stream[position + 1], in)
            \/ ParseOctet(parser, stream[position + 1], out).state = "ERROR"
        BY <4>2, OctetStarved DEF FramingInv
      <4>4. parser'.state = "ERROR"
        <5>1. ok = FALSE
          BY <3>4
        <5> QED
          BY <4>1, <4>2, <4>3, <5>1
      <4> QED
        BY <2>1, <3>1, <3>4, <4>4 DEF InStep
    <3> QED
      BY <3>3, <3>4
  <2>3. CASE HandOn
    <3>1. /\ parser.state = "FINISHED" /\ finished' = finished + 1 /\ parser' = ParserInit
          /\ sent' = sent /\ stream' = stream /\ position' = position /\ starved' = starved
      BY <2>3 DEF HandOn
    <3>2. ASSUME SupportedTo(finished + 1)'
          PROVE  InMessage' \/ AtEnd'
      <4>1. SupportedTo(finished + 1)
        BY <2>1, <3>1, <3>2 DEF SupportedTo
      <4>2. /\ finished + 1 \in 1 .. Len(sent) /\ ~starved
            /\ position = EndOf(finished + 1)
        BY <3>1, <4>1, AtBoundary
      <4>3. AtStart'
        BY <2>1, <3>1, <4>2, MessagePlaced DEF EndOf, AtStart
      <4> QED
        BY <1>2, <4>3
    <3> QED
      BY <2>1, <3>1, <3>2 DEF InStep
  <2>4. CASE UNCHANGED vars
    BY <2>4 DEF vars, InStep, InMessage, AtEnd, SupportedTo, EndOf
  <2> QED
    BY <2>2, <2>3, <2>4 DEF Next
<1> QED
  BY <1>1, <1>3, FramingHolds, PTL DEF Spec

\* However long the stream, its names, values and paddings are: when the parser
\* is FINISHED after supported messages only, total_parsed stands at the end of
\* the message, though it took the octet after it to finish, and the parser holds
\* what was sent.
THEOREM FinishesAtBoundary == Spec => []FinishedAtBoundary
<1>1. InStep => FinishedAtBoundary
  BY AtBoundary DEF FinishedAtBoundary
<1> QED
  BY <1>1, InStepHolds, PTL

\* In such a stream sl_fcgi_parser_parse ends in ERROR only for want of memory.
THEOREM FailsStarvedOnly == Spec => []FailsOnlyStarved
<1>1. InStep => FailsOnlyStarved
  <2> SUFFICES ASSUME InStep, parser.state = "ERROR", SupportedTo(finished + 1)
               PROVE  starved
    BY DEF FailsOnlyStarved
  <2>1. ~InMessage
    BY FollowsEnds DEF InMessage
  <2>2. ~AtEnd
    BY DEF AtEnd, ParserInit
  <2> QED
    BY <2>1, <2>2 DEF InStep
<1> QED
  BY <1>1, InStepHolds, PTL

-----------------------------------------------------------------------------
(***************************************************************************)
(* The other direction: the messages of a response, as the peer reads what *)
(* the socket took of them.                                                *)
(*                                                                         *)
(* Decoded walks through the octets with a recursive function.  That there *)
(* is one is proved from the last octet backwards, as a message ends       *)
(* behind its beginning; and on the start of a response it has the         *)
(* messages that are there to their last octet (StartIsSeen).              *)
(***************************************************************************)

CONSTANTS RequestIds, Names, HeaderValues, Outputs, MaxOutput
VARIABLES pc, stdout

Response == INSTANCE FcgiResponse

\* The message that begins at octet i: the length of its content, the place behind
\* it, whether all of it is there, and what it is.
LengthAt(w, i) == 256 * w[i + 4] + w[i + 5]
Behind(w, i) == i + 8 + LengthAt(w, i) + w[i + 6]
Lacks(w, i) == ~(i + 7 <= Len(w)) \/ ~(i + 7 + LengthAt(w, i) + w[i + 6] <= Len(w))
MessageAt(w, i) ==
  [type |-> w[i + 1], id |-> 256 * w[i + 2] + w[i + 3],
   content |-> SubSeq(w, i + 8, i + 7 + LengthAt(w, i))]
WithRest(w, i, rest) == <<MessageAt(w, i)>> \o rest

\* The recursive function of Decoded.
DecodedBy(g, w) ==
  g = [i \in 1 .. Len(w) + 1 |->
         IF Lacks(w, i) THEN <<>> ELSE WithRest(w, i, g[Behind(w, i)])]

\* Decoded is the value at the first octet of a function that satisfies it.
LEMMA DecodedIsChosen == Decoded = (CHOOSE g : DecodedBy(g, wire))[1]
  BY DEF Decoded, DecodedBy, Lacks, WithRest, MessageAt, Behind, LengthAt

\* A message that is there ends behind its beginning and within the octets.
LEMMA BehindIsLater ==
  ASSUME NEW w \in Seq(Octet), NEW i \in 1 .. Len(w) + 1, ~Lacks(w, i)
  PROVE  Behind(w, i) \in i + 1 .. Len(w) + 1
<1>1. i + 4 \in 1 .. Len(w) /\ i + 5 \in 1 .. Len(w) /\ i + 6 \in 1 .. Len(w)
  BY DEF Lacks
<1>2. w[i + 4] \in Octet /\ w[i + 5] \in Octet /\ w[i + 6] \in Octet
  BY <1>1
<1> DEFINE x == w[i + 4]
           y == w[i + 5]
           z == w[i + 6]
<1>3. LengthAt(w, i) = 256 * x + y /\ Behind(w, i) = i + 8 + LengthAt(w, i) + z
  BY DEF LengthAt, Behind
<1>4. i + 7 + LengthAt(w, i) + z <= Len(w)
  BY DEF Lacks
<1> HIDE DEF x, y, z
<1>5. x \in Nat /\ y \in Nat /\ z \in Nat
  BY <1>2, OctetIsNat, Zenon DEF x, y, z
<1>6. 256 * x + y \in Nat
  BY <1>5
<1>7. Len(w) \in Nat
  OBVIOUS
<1> QED
  BY <1>7, <1>3, <1>4, <1>5, <1>6

\* The equation from a place on.
DecodesFrom(g, w, n) ==
  \A i \in n .. Len(w) + 1 :
    g[i] = IF Lacks(w, i) THEN <<>> ELSE WithRest(w, i, g[Behind(w, i)])

\* Some function satisfies it.
LEMMA DecodingExists ==
  ASSUME NEW w \in Seq(Octet)
  PROVE  \E g : DecodedBy(g, w)
<1> DEFINE L == Len(w) + 1
           T == {n \in Nat : n < L => \E g : DecodesFrom(g, w, L - n)}
<1>0. L \in Nat /\ L >= 1
  OBVIOUS
<1>1. 0 \in T
  <2> DEFINE g == [i \in L .. L |-> <<>>]
  <2>1. ASSUME NEW i \in L .. L
        PROVE  g[i] = <<>> /\ Lacks(w, i)
    BY DEF Lacks
  <2>2. DecodesFrom(g, w, L)
    BY <2>1, <1>0, Zenon DEF DecodesFrom
  <2>3. L - 0 = L
    BY <1>0
  <2> QED
    BY <2>2, <2>3
<1>2. ASSUME NEW n \in Nat, n \in T
      PROVE  n + 1 \in T
  <2> SUFFICES ASSUME n + 1 < L
               PROVE  \E h : DecodesFrom(h, w, L - (n + 1))
    OBVIOUS
  <2> DEFINE a == L - (n + 1)
  <2>1. a \in 1 .. L /\ L - n = a + 1 /\ n < L
    BY <1>0
  <2>2. PICK g : DecodesFrom(g, w, a + 1)
    BY <1>2, <2>1
  <2> DEFINE first == IF Lacks(w, a) THEN <<>> ELSE WithRest(w, a, g[Behind(w, a)])
             h == [i \in a .. L |-> IF i = a THEN first ELSE g[i]]
  <2>3. ASSUME NEW i \in a .. L, ~Lacks(w, i)
        PROVE  h[Behind(w, i)] = g[Behind(w, i)]
    <3>1. i \in 1 .. Len(w) + 1
      BY <2>1, <1>0
    <3>2. Behind(w, i) \in i + 1 .. L
      BY <2>3, <3>1, BehindIsLater
    <3>3. Behind(w, i) \in a .. L /\ Behind(w, i) # a
      BY <3>2, <2>1, <1>0
    <3> HIDE DEF first
    <3> QED
      BY <3>3
  <2>4. ASSUME NEW i \in a .. L
        PROVE  h[i] = IF Lacks(w, i) THEN <<>> ELSE WithRest(w, i, h[Behind(w, i)])
    <3>1. CASE i = a
      <4>1. h[i] = first
        BY <3>1
      <4> HIDE DEF h
      <4> QED
        BY <4>1, <2>3, <3>1, Zenon
    <3>2. CASE i # a
      <4>1. i \in a + 1 .. Len(w) + 1
        <5>1. i \in Nat /\ i >= a /\ i <= L /\ a \in Nat
          BY <2>1, <1>0
        <5> HIDE DEF a
        <5> QED
          BY <5>1, <3>2
      <4>2. g[i] = IF Lacks(w, i) THEN <<>> ELSE WithRest(w, i, g[Behind(w, i)])
        BY <4>1, <2>2, Zenon DEF DecodesFrom
      <4>3. h[i] = g[i]
        BY <3>2
      <4> HIDE DEF h
      <4> QED
        BY <4>2, <4>3, <2>3, Zenon
    <3> QED
      BY <3>1, <3>2
  <2> HIDE DEF h
  <2>5. DecodesFrom(h, w, a)
    BY <2>4, Zenon DEF DecodesFrom
  <2> QED
    BY <2>5
<1> HIDE DEF T
<1>3. Len(w) \in T
  BY <1>1, <1>2, SetInduction
<1>4. PICK g : DecodesFrom(g, w, 1)
  <2>1. L - Len(w) = 1 /\ Len(w) < L /\ Len(w) \in Nat
    OBVIOUS
  <2> QED
    BY <1>3, <2>1 DEF T
<1> DEFINE f == [i \in 1 .. Len(w) + 1 |-> g[i]]
<1>5. \A i \in 1 .. Len(w) + 1 : ~Lacks(w, i) => f[Behind(w, i)] = g[Behind(w, i)]
  <2> TAKE i \in 1 .. Len(w) + 1
  <2> HAVE ~Lacks(w, i)
  <2>1. Behind(w, i) \in i + 1 .. Len(w) + 1
    BY BehindIsLater
  <2>2. Behind(w, i) \in 1 .. Len(w) + 1
    BY <2>1
  <2> QED
    BY <2>2
<1>6. \A i \in 1 .. Len(w) + 1 :
        g[i] = IF Lacks(w, i) THEN <<>> ELSE WithRest(w, i, f[Behind(w, i)])
  BY <1>4, <1>5, Zenon DEF DecodesFrom
<1>7. f = [i \in 1 .. Len(w) + 1 |->
             IF Lacks(w, i) THEN <<>> ELSE WithRest(w, i, f[Behind(w, i)])]
  <2>1. f = [i \in 1 .. Len(w) + 1 |-> g[i]]
    OBVIOUS
  <2> HIDE DEF f
  <2> QED
    BY <1>6, <2>1, Zenon
<1> HIDE DEF f
<1> QED
  BY <1>7 DEF DecodedBy

\* So Decoded is what that equation says.
Decoding(w) == CHOOSE g : DecodedBy(g, w)

\* It says so at every octet.
LEMMA DecodingSteps ==
  ASSUME NEW w \in Seq(Octet), NEW i \in 1 .. Len(w) + 1
  PROVE  Decoding(w)[i] = IF Lacks(w, i) THEN <<>>
                          ELSE WithRest(w, i, Decoding(w)[Behind(w, i)])
<1>1. DecodedBy(Decoding(w), w)
  BY DecodingExists DEF Decoding
<1> QED
  BY <1>1 DEF DecodedBy

\* The header of a message with this type, id and length of content.
IsHeader(h, type, id, length) ==
  /\ h \in Seq(Octet) /\ Len(h) = 8
  /\ h[2] = type /\ h[7] = 0
  /\ 256 * h[3] + h[4] = id /\ 256 * h[5] + h[6] = length

\* Record makes such a header.
LEMMA RecordIsHeader ==
  ASSUME NEW type \in Octet, NEW length \in Ids, request_id \in Ids
  PROVE  IsHeader(Response!Record(type, length), type, request_id, length)
<1>1. PICK h, i, j, k : /\ h = request_id \div 256 /\ i = request_id % 256
                        /\ j = length \div 256 /\ k = length % 256
  OBVIOUS
<1>2. /\ h \in Octet /\ i \in Octet /\ j \in Octet /\ k \in Octet
      /\ h * 256 + i = request_id /\ j * 256 + k = length
  BY <1>1, Halves
<1>3. PICK a : a = Response!Record(type, length)
  OBVIOUS
<1>4. a = <<1, type>> \o <<h, i>> \o <<j, k>> \o <<0, 0>>
  BY <1>1, <1>3, Zenon
     DEF Response!Record, Response!EncodeHeader, Response!TwoOctets
<1>5. 0 \in Octet /\ 1 \in Octet
  BY DEF Octet
<1>6. PICK x, y, v, w : /\ x = <<1, type>> /\ y = <<h, i>> /\ v = <<j, k>> /\ w = <<0, 0>>
  OBVIOUS
<1>7. /\ x \in Seq(Octet) /\ y \in Seq(Octet) /\ v \in Seq(Octet) /\ w \in Seq(Octet)
      /\ Len(x) = 2 /\ Len(y) = 2 /\ Len(v) = 2 /\ Len(w) = 2
      /\ x[2] = type /\ y[1] = h /\ y[2] = i /\ v[1] = j /\ v[2] = k /\ w[1] = 0
  BY <1>2, <1>5, <1>6
<1>8. a = x \o y \o v \o w
  BY <1>4, <1>6
<1>9. a \in Seq(Octet) /\ Parts(a, x, y, v, w)
  BY <1>7, <1>8, FourParts
<1>10. /\ a \in Seq(Octet) /\ Len(a) = 8
       /\ a[2] = type /\ a[3] = h /\ a[4] = i /\ a[5] = j /\ a[6] = k /\ a[7] = 0
  BY <1>7, <1>9 DEF Parts
<1>11. 256 * h + i = request_id /\ 256 * j + k = length
  BY <1>2, OctetIsNat
<1> QED
  BY <1>3, <1>10, <1>11 DEF IsHeader

\* w has the header of a message of this type and length at i.
HasHeader(w, i, type, length) ==
  /\ i + 7 <= Len(w)
  /\ \A k \in 1 .. 8 : w[i - 1 + k] = Response!Record(type, length)[k]

\* What such a header says.
Told(w, i, type, length) ==
  /\ Behind(w, i) = i + 8 + length
  /\ Lacks(w, i) <=> i + 7 + length > Len(w)
  /\ MessageAt(w, i).type = type /\ MessageAt(w, i).id = request_id
  /\ MessageAt(w, i).content = SubSeq(w, i + 8, i + 7 + length)

\* The peer reads there what the header says.
LEMMA HeaderIsRead ==
  ASSUME NEW w \in Seq(Octet), NEW i \in Nat \ {0}, NEW type \in Octet,
         NEW length \in Ids, request_id \in Ids, HasHeader(w, i, type, length)
  PROVE  Told(w, i, type, length)
<1>1. PICK h : h = Response!Record(type, length)
  OBVIOUS
<1>2. IsHeader(h, type, request_id, length)
  BY <1>1, RecordIsHeader
<1>3. \A k \in 1 .. 8 : w[i - 1 + k] = h[k]
  BY <1>1 DEF HasHeader
<1>4. w[i + 1] = h[2] /\ w[i + 2] = h[3] /\ w[i + 3] = h[4]
  BY <1>3, i - 1 + 2 = i + 1, i - 1 + 3 = i + 2, i - 1 + 4 = i + 3
<1>5. w[i + 4] = h[5] /\ w[i + 5] = h[6] /\ w[i + 6] = h[7]
  BY <1>3, i - 1 + 5 = i + 4, i - 1 + 6 = i + 5, i - 1 + 7 = i + 6
<1>6. LengthAt(w, i) = length /\ w[i + 6] = 0
  BY <1>2, <1>5, Zenon DEF LengthAt, IsHeader
<1>7. MessageAt(w, i) = [type |-> type, id |-> request_id,
                         content |-> SubSeq(w, i + 8, i + 7 + length)]
  BY <1>2, <1>4, <1>6, Zenon DEF MessageAt, IsHeader
<1>8. i + 7 <= Len(w) /\ Len(w) \in Nat /\ length \in Nat
  BY DEF HasHeader, Ids
<1>9. Behind(w, i) = i + 8 + length + 0
  BY <1>6, Zenon DEF Behind
<1>10. Lacks(w, i) <=> ~(i + 7 <= Len(w)) \/ ~(i + 7 + length + 0 <= Len(w))
  BY <1>6, Zenon DEF Lacks
<1>11. Behind(w, i) = i + 8 + length
  BY <1>8, <1>9
<1>12. Lacks(w, i) <=> i + 7 + length > Len(w)
  BY <1>8, <1>10
<1>13. /\ MessageAt(w, i).type = type /\ MessageAt(w, i).id = request_id
       /\ MessageAt(w, i).content = SubSeq(w, i + 8, i + 7 + length)
  <2>1. PICK r, part : r = MessageAt(w, i) /\ part = SubSeq(w, i + 8, i + 7 + length)
    OBVIOUS
  <2>2. r = [type |-> type, id |-> request_id, content |-> part]
    BY <1>7, <2>1, Zenon
  <2>3. r.type = type /\ r.id = request_id /\ r.content = part
    BY <2>2
  <2> QED
    BY <2>1, <2>3, Zenon
<1> QED
  BY <1>11, <1>12, <1>13, Zenon DEF Told

\* The five buffers of a response.
Buffers(t) ==
  Response!Record(6, Len(t)) \o t \o Response!Record(6, 0)
    \o Response!Record(3, 8) \o [n \in 1 .. 8 |-> 0]

\* They hold the text that the length stands for.
LEMMA MessageIsBuffers ==
  ASSUME NEW t
  PROVE  Response!Message(t) = Buffers(Response!Cut(t))
  BY Zenon DEF Response!Message, Buffers, Response!Stdout, Response!EndRequest

\* Where its three headers and its text are.
BufferPlaces(m, t) ==
  /\ m \in Seq(Octet) /\ Len(m) = Len(t) + 32
  /\ HasHeader(m, 1, 6, Len(t))
  /\ HasHeader(m, 9 + Len(t), 6, 0)
  /\ HasHeader(m, 17 + Len(t), 3, 8)
  /\ \A k \in 1 .. Len(t) : m[8 + k] = t[k]

\* All of it is there.
LEMMA BufferOctets ==
  ASSUME NEW t \in Seq(Octet), Len(t) \in Ids, request_id \in Ids
  PROVE  BufferPlaces(Buffers(t), t)
<1>1. PICK c, h, e, f, z :
        /\ c = Len(t) /\ h = Response!Record(6, c) /\ e = Response!Record(6, 0)
        /\ f = Response!Record(3, 8) /\ z = [n \in 1 .. 8 |-> 0]
  OBVIOUS
<1>2. 6 \in Octet /\ 3 \in Octet /\ 0 \in Octet /\ 0 \in Ids /\ 8 \in Ids
  BY SMT DEF Octet, Ids
<1>3. h \in Seq(Octet) /\ Len(h) = 8 /\ e \in Seq(Octet) /\ Len(e) = 8
      /\ f \in Seq(Octet) /\ Len(f) = 8
  BY <1>1, <1>2, RecordIsHeader DEF IsHeader
<1>4. z \in Seq(Octet) /\ Len(z) = 8
  BY <1>1, <1>2
<1>5. PICK u, v, m : u = h \o t /\ v = u \o e \o f \o z /\ m = Buffers(t)
  OBVIOUS
<1>6. m = v
  BY <1>1, <1>5, Zenon DEF Buffers
<1>7. u \in Seq(Octet) /\ Halved(u, h, t)
  BY <1>3, <1>5, TwoParts
<1>8. v \in Seq(Octet) /\ Parts(v, u, e, f, z)
  BY <1>3, <1>4, <1>5, <1>7, FourParts
<1>9. c \in Nat /\ Len(t) = c /\ Len(u) = 8 + c /\ Len(v) = c + 32
  BY <1>1, <1>3, <1>4, <1>7, <1>8 DEF Halved, Parts
<1>10. \A k \in 1 .. 8 : v[k] = h[k]
  <2>1. \A k \in 1 .. 8 : k \in 1 .. Len(h) /\ k \in 1 .. Len(u)
    BY <1>3, <1>9
  <2> QED
    BY <1>7, <1>8, <2>1 DEF Halved, Parts
<1>11. \A k \in 1 .. c : v[8 + k] = t[k]
  <2>1. \A k \in 1 .. c : k \in 1 .. Len(t) /\ 8 + k \in 1 .. Len(u)
    BY <1>9
  <2> QED
    BY <1>3, <1>7, <1>8, <2>1 DEF Halved, Parts
<1>12. \A k \in 1 .. 8 : v[(8 + c) + k] = e[k]
  BY <1>3, <1>8, <1>9 DEF Parts
<1>13. \A k \in 1 .. 8 : v[(8 + c) + 8 + k] = f[k]
  BY <1>3, <1>8, <1>9 DEF Parts
<1>14. \A k \in 1 .. 8 :
         /\ 1 - 1 + k = k /\ (9 + c) - 1 + k = (8 + c) + k
         /\ (17 + c) - 1 + k = (8 + c) + 8 + k
  BY <1>9
<1>15. HasHeader(v, 1, 6, c)
  <2>1. 1 + 7 <= Len(v)
    BY <1>9
  <2> QED
    BY <1>1, <1>10, <1>14, <2>1 DEF HasHeader
<1>16. HasHeader(v, 9 + c, 6, 0)
  <2>1. (9 + c) + 7 <= Len(v)
    BY <1>9
  <2> QED
    BY <1>1, <1>12, <1>14, <2>1 DEF HasHeader
<1>17. HasHeader(v, 17 + c, 3, 8)
  <2>1. (17 + c) + 7 <= Len(v)
    BY <1>9
  <2> QED
    BY <1>1, <1>13, <1>14, <2>1 DEF HasHeader
<1> QED
  BY <1>5, <1>6, <1>8, <1>9, <1>11, <1>15, <1>16, <1>17 DEF BufferPlaces

\* The start of a sequence has the headers that end in it.
LEMMA HeaderInStart ==
  ASSUME NEW m \in Seq(Octet), NEW n \in 0 .. Len(m), NEW i \in Nat \ {0}, NEW type,
         NEW length, HasHeader(m, i, type, length), i + 7 <= n
  PROVE  HasHeader(SubSeq(m, 1, n), i, type, length)
<1> DEFINE w == SubSeq(m, 1, n)
<1>1. Len(w) = n /\ \A k \in 1 .. n : w[k] = m[k]
  OBVIOUS
<1> HIDE DEF w
<1>2. \A k \in 1 .. 8 : w[i - 1 + k] = m[i - 1 + k]
  BY <1>1
<1>3. \A k \in 1 .. 8 : w[i - 1 + k] = Response!Record(type, length)[k]
  BY <1>2, Zenon DEF HasHeader
<1> QED
  BY <1>1, <1>3 DEF HasHeader, w

\* The elements of d are those of <<a, b, c>>.
AreTwo(d, a, b) == DOMAIN d = 1 .. 2 /\ Len(d) = 2 /\ d[1] = a /\ d[2] = b
AreThree(d, a, b, c) == DOMAIN d = 1 .. 3 /\ Len(d) = 3 /\ d[1] = a /\ d[2] = b /\ d[3] = c

\* Messages put in front of others.
LEMMA Joined ==
  ASSUME NEW a, NEW b, NEW c
  PROVE  /\ <<a>> \o <<>> = <<a>>
         /\ AreTwo(<<a>> \o (<<b>> \o <<>>), a, b)
         /\ AreThree(<<a>> \o (<<b>> \o (<<c>> \o <<>>)), a, b, c)
<1>1. <<a>> \o <<>> = <<a>> /\ <<b>> \o <<>> = <<b>> /\ <<c>> \o <<>> = <<c>>
  OBVIOUS
<1>2. PICK x, y, z : x = <<a>> /\ y = <<b>> /\ z = <<c>>
  OBVIOUS
<1>3. PICK S : S = {a, b, c}
  OBVIOUS
<1>4. /\ x \in Seq(S) /\ y \in Seq(S) /\ z \in Seq(S)
      /\ Len(x) = 1 /\ Len(y) = 1 /\ Len(z) = 1 /\ x[1] = a /\ y[1] = b /\ z[1] = c
  BY <1>2, <1>3
<1>5. PICK d, e, f : d = x \o y /\ e = y \o z /\ f = x \o e
  OBVIOUS
<1>6. Halved(d, x, y) /\ e \in Seq(S) /\ Halved(e, y, z)
  BY <1>4, <1>5, TwoParts
<1>7. Halved(f, x, e)
  BY <1>4, <1>5, <1>6, TwoParts
<1>8. AreTwo(d, a, b)
  <2>1. Len(d) = 2 /\ d[1] = a /\ d[2] = b
    BY <1>4, <1>6 DEF Halved
  <2>2. d \in Seq(S)
    BY <1>4, <1>5
  <2> QED
    BY <2>1, <2>2 DEF AreTwo
<1>9. AreThree(f, a, b, c)
  <2>1. Len(e) = 2 /\ e[1] = b /\ e[2] = c
    BY <1>4, <1>6 DEF Halved
  <2>2. Len(f) = 3 /\ f[1] = a /\ f[2] = b /\ f[3] = c
    BY <1>4, <1>7, <2>1 DEF Halved
  <2>3. f \in Seq(S)
    BY <1>4, <1>5, <1>6
  <2> QED
    BY <2>2, <2>3 DEF AreThree
<1> QED
  BY <1>1, <1>2, <1>5, <1>8, <1>9, Zenon

\* What the peer sees of the first n octets of a response: none, one, two or all
\* three of its messages.
Seen(d, w, c, n) ==
  LET first == MessageAt(w, 1)
      second == MessageAt(w, 9 + c)
      third == MessageAt(w, 17 + c)
      Says(m, type) == m.type = type /\ m.id = request_id
  IN  \/ n < 8 + c /\ d = <<>>
      \/ 8 + c <= n /\ Says(first, 6) /\ first.content = SubSeq(w, 9, 8 + c)
           /\ \/ n < 16 + c /\ d = <<first>>
              \/ 16 + c <= n /\ Says(second, 6) /\ second.content = <<>>
                   /\ \/ n < 32 + c /\ AreTwo(d, first, second)
                      \/ 32 + c = n /\ AreThree(d, first, second, third) /\ Says(third, 3)

\* Whatever the length of the text and wherever writev() stopped.
LEMMA StartIsSeen ==
  ASSUME NEW t \in Seq(Octet), Len(t) \in Ids, request_id \in Ids,
         NEW n \in 0 .. Len(t) + 32
  PROVE  LET w == SubSeq(Buffers(t), 1, n) IN
         w \in Seq(Octet) /\ Seen(Decoding(w)[1], w, Len(t), n)
<1> DEFINE c == Len(t)
           m == Buffers(t)
           w == SubSeq(m, 1, n)
           D == Decoding(w)
<1>1. /\ c \in Ids /\ c \in Nat /\ n \in Nat /\ n <= c + 32
      /\ 6 \in Octet /\ 3 \in Octet /\ 0 \in Ids /\ 8 \in Ids
  BY SMT DEF Octet, Ids
<1>2. /\ m \in Seq(Octet) /\ Len(m) = c + 32
      /\ HasHeader(m, 1, 6, c) /\ HasHeader(m, 9 + c, 6, 0) /\ HasHeader(m, 17 + c, 3, 8)
  BY BufferOctets DEF BufferPlaces
<1> HIDE DEF c, m
<1>3. w \in Seq(Octet) /\ Len(w) = n
  BY <1>1, <1>2
<1>4. n >= 8 => HasHeader(w, 1, 6, c)
  BY <1>1, <1>2, HeaderInStart
<1>5. n >= 16 + c => HasHeader(w, 9 + c, 6, 0)
  BY <1>1, <1>2, HeaderInStart
<1>6. n >= 24 + c => HasHeader(w, 17 + c, 3, 8)
  BY <1>1, <1>2, HeaderInStart
<1>7. \A i \in 1 .. n + 1 :
        D[i] = IF Lacks(w, i) THEN <<>> ELSE <<MessageAt(w, i)>> \o D[Behind(w, i)]
  BY <1>3, DecodingSteps, Zenon DEF WithRest
<1>20. 1 \in 1 .. n + 1
  BY <1>1
<1> HIDE DEF w, D
<1>8. ASSUME NEW i \in Nat \ {0}, n < i + 7
      PROVE  Lacks(w, i)
  BY <1>1, <1>3, <1>8 DEF Lacks
<1>9. CASE n < 8 + c
  <2>1. Lacks(w, 1)
    <3>1. CASE n < 8
      BY <1>8, <3>1
    <3>2. CASE n >= 8
      <4>1. Lacks(w, 1) <=> 1 + 7 + c > n
        BY <1>1, <1>3, <1>4, <3>2, HeaderIsRead DEF Told
      <4> QED
        BY <1>1, <1>9, <4>1
    <3> QED
      BY <1>1, <3>1, <3>2
  <2>2. D[1] = <<>>
    BY <1>7, <1>20, <2>1, Zenon
  <2> QED
    BY <1>9, <2>2, <1>3 DEF Seen, w, D, c, m
<1>10. CASE n >= 8 + c
  <2>1. /\ Behind(w, 1) = 9 + c /\ ~Lacks(w, 1)
        /\ MessageAt(w, 1).type = 6 /\ MessageAt(w, 1).id = request_id
        /\ MessageAt(w, 1).content = SubSeq(w, 9, 8 + c)
    <3>1. HasHeader(w, 1, 6, c)
      BY <1>1, <1>4, <1>10
    <3>2. /\ Behind(w, 1) = 1 + 8 + c
          /\ Lacks(w, 1) <=> 1 + 7 + c > Len(w)
          /\ MessageAt(w, 1).type = 6 /\ MessageAt(w, 1).id = request_id
          /\ MessageAt(w, 1).content = SubSeq(w, 1 + 8, 1 + 7 + c)
      BY <1>1, <1>3, <3>1, HeaderIsRead DEF Told
    <3>3. 1 + 8 + c = 9 + c /\ 1 + 7 + c = 8 + c /\ 1 + 8 = 9
      BY <1>1
    <3> QED
      BY <1>1, <1>3, <1>10, <3>2, <3>3
  <2>2. D[1] = <<MessageAt(w, 1)>> \o D[9 + c]
    BY <1>7, <1>20, <2>1, Zenon
  <2>3. 9 + c \in 1 .. n + 1
    BY <1>1, <1>10
  <2>4. CASE n < 16 + c
    <3>1. D[9 + c] = <<>>
      <4>1. Lacks(w, 9 + c)
        BY <1>1, <1>8, <2>4
      <4> QED
        BY <1>7, <2>3, <4>1
    <3>2. D[1] = <<MessageAt(w, 1)>>
      BY <2>2, <3>1
    <3> QED
      BY <1>10, <2>1, <2>4, <3>2, <1>3 DEF Seen, w, D, c, m
  <2>5. CASE n >= 16 + c
    <3>1. /\ Behind(w, 9 + c) = 17 + c /\ ~Lacks(w, 9 + c)
          /\ MessageAt(w, 9 + c).type = 6 /\ MessageAt(w, 9 + c).id = request_id
          /\ MessageAt(w, 9 + c).content = <<>>
      <4>1. HasHeader(w, 9 + c, 6, 0)
        BY <1>1, <1>5, <2>5
      <4>2. /\ Behind(w, 9 + c) = 9 + c + 8 + 0
            /\ Lacks(w, 9 + c) <=> 9 + c + 7 + 0 > Len(w)
            /\ MessageAt(w, 9 + c).type = 6 /\ MessageAt(w, 9 + c).id = request_id
            /\ MessageAt(w, 9 + c).content = SubSeq(w, 9 + c + 8, 9 + c + 7 + 0)
        BY <1>1, <1>3, <4>1, HeaderIsRead DEF Told
      <4>3. SubSeq(w, 9 + c + 8, 9 + c + 7 + 0) = <<>>
        BY <1>1, <1>3
      <4>4. 9 + c + 8 + 0 = 17 + c /\ ~(9 + c + 7 + 0 > n)
        BY <1>1, <2>5
      <4> QED
        BY <1>3, <4>2, <4>3, <4>4
    <3>2. D[9 + c] = <<MessageAt(w, 9 + c)>> \o D[17 + c]
      BY <1>7, <2>3, <3>1
    <3>3. 17 + c \in 1 .. n + 1
      BY <1>1, <2>5
    <3>4. CASE n < 32 + c
      <4>1. Lacks(w, 17 + c)
        <5>1. CASE n < 24 + c
          BY <1>1, <1>8, <5>1
        <5>2. CASE n >= 24 + c
          <6>1. HasHeader(w, 17 + c, 3, 8)
            BY <1>6, <5>2
          <6>2. Lacks(w, 17 + c) <=> 17 + c + 7 + 8 > Len(w)
            BY <1>1, <1>3, <6>1, HeaderIsRead DEF Told
          <6> QED
            BY <1>1, <1>3, <3>4, <6>2
        <5> QED
          BY <1>1, <5>1, <5>2
      <4>2. D[17 + c] = <<>>
        BY <1>7, <3>3, <4>1
      <4>3. AreTwo(D[1], MessageAt(w, 1), MessageAt(w, 9 + c))
        BY <2>2, <3>2, <4>2, Joined
      <4> QED
        BY <1>1, <1>10, <2>1, <2>5, <3>1, <3>4, <4>3, <1>3 DEF Seen, w, D, c, m
    <3>5. CASE n = 32 + c
      <4>1. HasHeader(w, 17 + c, 3, 8)
        BY <1>1, <1>6, <3>5
      <4>2. /\ Behind(w, 17 + c) = 17 + c + 8 + 8
            /\ Lacks(w, 17 + c) <=> 17 + c + 7 + 8 > Len(w)
            /\ MessageAt(w, 17 + c).type = 3 /\ MessageAt(w, 17 + c).id = request_id
        BY <1>1, <1>3, <4>1, HeaderIsRead DEF Told
      <4>3. 17 + c + 8 + 8 = 33 + c /\ ~(17 + c + 7 + 8 > n) /\ 33 + c \in 1 .. n + 1
        BY <1>1, <3>5
      <4>4. D[17 + c] = <<MessageAt(w, 17 + c)>> \o D[33 + c]
        BY <1>3, <1>7, <3>3, <4>2, <4>3
      <4>5. D[33 + c] = <<>>
        <5>1. Lacks(w, 33 + c)
          BY <1>1, <1>8, <3>5
        <5> QED
          BY <1>7, <4>3, <5>1
      <4>6. AreThree(D[1], MessageAt(w, 1), MessageAt(w, 9 + c), MessageAt(w, 17 + c))
        BY <2>2, <3>2, <4>4, <4>5, Joined
      <4> QED
        BY <1>1, <1>10, <2>1, <2>5, <3>1, <3>5, <4>2, <4>6, <1>3 DEF Seen, w, D, c, m
    <3> QED
      BY <1>1, <3>4, <3>5
  <2> QED
    BY <1>1, <2>4, <2>5
<1> QED
  BY <1>1, <1>9, <1>10

-----------------------------------------------------------------------------
\* What is assumed of the constants, with the sets named as for the parser.
LEMMA FitFacts ==
  ASSUME Response!FitInFields
  PROVE  /\ RequestIds \subseteq Ids /\ LengthLimit \in Nat \ {0} /\ LengthLimit <= 65536
         /\ Names \subseteq Seq(Octet) /\ HeaderValues \subseteq Seq(Octet)
         /\ Outputs \subseteq Seq(Octet)
<1>1. /\ \A id \in RequestIds : id \in Nat /\ id < 65536
      /\ LengthLimit \in Nat \ {0} /\ LengthLimit <= 65536
  BY DEF Response!FitInFields
<1>2. \A text \in Names \cup HeaderValues \cup Outputs : text \in Seq(Response!Octet)
  BY DEF Response!FitInFields
<1>3. RequestIds \subseteq Ids
  BY <1>1 DEF Ids
<1>5. Response!Octet = Octet
  BY DEF Octet, Response!Octet
<1> QED
  BY <1>1, <1>2, <1>3, <1>5

\* The text the length stands for is as long as the length says.
LEMMA CutFacts ==
  ASSUME Response!FitInFields, NEW text \in Seq(Octet)
  PROVE  /\ Response!Cut(text) \in Seq(Octet) /\ Len(Response!Cut(text)) \in Ids
         /\ Len(text) < LengthLimit => Response!Cut(text) = text
<1>1. PICK n, l : n = Len(text) /\ l = LengthLimit
  OBVIOUS
<1>2. n \in Nat /\ l \in Nat \ {0} /\ l <= 65536
  BY <1>1, FitFacts
<1>3. n % l \in 0 .. l - 1 /\ n % l <= n /\ (n < l => n % l = n)
  BY <1>2
<1>4. PICK k : k = n % l
  OBVIOUS
<1>5. Response!Cut(text) = SubSeq(text, 1, k)
  BY <1>1, <1>4, Zenon DEF Response!Cut
<1>6. k \in Nat /\ k <= n /\ k < 65536
  BY <1>2, <1>3, <1>4
<1>7. SubSeq(text, 1, k) \in Seq(Octet) /\ Len(SubSeq(text, 1, k)) = k
  BY <1>1, <1>6
<1>8. k = n => SubSeq(text, 1, k) = text
  BY <1>1
<1>9. k \in Ids
  BY <1>6 DEF Ids
<1> QED
  BY <1>1, <1>3, <1>4, <1>5, <1>7, <1>8, <1>9

-----------------------------------------------------------------------------

\* The line of every header is somewhere in the text.
LineIsIn(h, text) ==
  \E n \in 0 .. Len(text) :
    LET line == Response!HeaderLine(h, headers[h]) IN
      SubSeq(text, n + 1, n + Len(line)) = line

\* The socket took the start of the message, perhaps all of it.
StartIsSent ==
  \E n \in 0 .. Len(Response!Cut(raw)) + 32 :
    /\ wire = SubSeq(Response!Message(raw), 1, n)
    /\ whole = (n = Len(Response!Cut(raw)) + 32)

ResponseInv ==
  /\ request_id \in Ids
  /\ raw \in Seq(Octet) /\ stdout \in Seq(Octet)
  /\ IsFiniteSet(DOMAIN headers)
  /\ \A h \in DOMAIN headers : h \in Seq(Octet) /\ headers[h] \in Seq(Octet)
  /\ pc \in {"processed", "sent"} => \A h \in DOMAIN headers : LineIsIn(h, raw)
  /\ pc # "sent" => wire = <<>> /\ whole = FALSE
  /\ StartIsSent

\* How long a response is.
LEMMA MessageFacts ==
  ASSUME Response!FitInFields, request_id \in Ids, NEW text \in Seq(Octet)
  PROVE  /\ Len(Response!Message(text)) = Len(Response!Cut(text)) + 32
         /\ Len(Response!Cut(text)) \in Nat /\ Response!Message(text) \in Seq(Octet)
<1>1. PICK t : t = Response!Cut(text)
  OBVIOUS
<1>2. t \in Seq(Octet) /\ Len(t) \in Ids /\ Len(t) \in Nat
  BY <1>1, CutFacts
<1>3. Response!Message(text) = Buffers(t)
  BY <1>1, MessageIsBuffers
<1>4. Len(Buffers(t)) = Len(t) + 32 /\ Buffers(t) \in Seq(Octet)
  BY <1>2, BufferOctets DEF BufferPlaces
<1> QED
  BY <1>1, <1>2, <1>3, <1>4

\* Nothing sent is the start of any message.
LEMMA NothingIsStart ==
  ASSUME Response!FitInFields, request_id \in Ids, NEW text \in Seq(Octet)
  PROVE  \E n \in 0 .. Len(Response!Cut(text)) + 32 :
           /\ <<>> = SubSeq(Response!Message(text), 1, n)
           /\ FALSE = (n = Len(Response!Cut(text)) + 32)
<1>1. PICK c, m : c = Len(Response!Cut(text)) /\ m = Response!Message(text)
  OBVIOUS
<1>2. c \in Nat /\ m \in Seq(Octet)
  BY <1>1, MessageFacts
<1>3. 0 \in 0 .. c + 32 /\ SubSeq(m, 1, 0) = <<>> /\ 0 # c + 32
  BY <1>2
<1> QED
  BY <1>1, <1>3

\* The invariant says what the peer sees.
LEMMA WhatIsSeen ==
  ASSUME Response!FitInFields, ResponseInv
  PROVE  LET c == Len(Response!Cut(raw)) IN
         \E n \in 0 .. c + 32 :
           /\ c \in Nat /\ whole = (n = c + 32)
           /\ wire = SubSeq(Response!Message(raw), 1, n) /\ Len(wire) = n
           /\ Seen(Decoded, wire, c, n)
<1>1. PICK t, m : t = Response!Cut(raw) /\ m = Response!Message(raw)
  OBVIOUS
<1>2. PICK n \in 0 .. Len(t) + 32 : wire = SubSeq(m, 1, n) /\ whole = (n = Len(t) + 32)
  BY <1>1 DEF ResponseInv, StartIsSent
<1>3. /\ request_id \in Ids /\ t \in Seq(Octet) /\ Len(t) \in Ids /\ Len(t) \in Nat
      /\ m = Buffers(t) /\ m \in Seq(Octet) /\ Len(m) = Len(t) + 32
  BY <1>1, CutFacts, MessageFacts, MessageIsBuffers DEF ResponseInv
<1>4. Seen(Decoding(wire)[1], wire, Len(t), n)
  BY <1>2, <1>3, StartIsSeen
<1>5. Decoded = Decoding(wire)[1]
  BY DecodedIsChosen DEF Decoding
<1>6. Len(wire) = n
  BY <1>2, <1>3
<1> QED
  BY <1>1, <1>2, <1>3, <1>4, <1>5, <1>6

\* The peer sees the end of the request when everything is there.
LEMMA SeenToTheEnd ==
  ASSUME NEW d, NEW w, NEW c \in Nat, NEW n \in 0 .. c + 32, Seen(d, w, c, n)
  PROVE  /\ (\E k \in DOMAIN d : d[k].type = 3) <=> n = c + 32
         /\ n = c + 32 =>
              /\ Len(d) = 3 /\ \A k \in 1 .. 3 : d[k].id = request_id
              /\ d[1].type = 6 /\ d[2].type = 6 /\ d[2].content = <<>>
              /\ d[1].content = SubSeq(w, 9, 8 + c)
  BY DEF Seen, AreTwo, AreThree

-----------------------------------------------------------------------------

\* FlattenSeq is the same function in both modules.
LEMMA SameFlatten ==
  ASSUME NEW ss
  PROVE  Response!FlattenSeq(ss) = FlattenSeq(ss)
  BY DEF Response!FlattenSeq, FlattenSeq

\* So is Cardinality.
LEMMA SameCardinality ==
  ASSUME NEW S
  PROVE  Response!Cardinality(S) = Cardinality(S)
  BY Zenon DEF Response!Cardinality, Cardinality

\* An order of a finite set has all of it.
LEMMA OrderHasAll ==
  ASSUME NEW S, IsFiniteSet(S), NEW order \in Response!SetToSeqs(S)
  PROVE  /\ order \in Seq(S)
         /\ \A x \in S : \E n \in DOMAIN order : order[n] = x
<1>1. PICK D : D = 1 .. Cardinality(S)
  OBVIOUS
<1>2. Cardinality(S) \in Nat
  BY FS_CardinalityType
<1>3. order \in [D -> S] /\ \A i, j \in D : i # j => order[i] # order[j]
  <2>1. D = 1 .. Response!Cardinality(S)
    BY <1>1, SameCardinality
  <2>2. Response!SetToSeqs(S) = {f \in [D -> S] : \A i, j \in D : i # j => f[i] # f[j]}
    BY <2>1, Zenon DEF Response!SetToSeqs
  <2> QED
    BY <2>2
<1>4. order \in Injection(D, S)
  BY <1>3 DEF Injection, IsInjective
<1>5. Cardinality(D) = Cardinality(S)
  BY <1>1, <1>2, FS_Interval
<1>6. order \in Surjection(D, S)
  BY <1>4, <1>5, FS_Injection
<1>7. \A x \in S : \E n \in D : order[n] = x
  BY <1>6 DEF Surjection
<1>8. order \in Seq(S)
  BY <1>1, <1>2, <1>3
<1> QED
  BY <1>3, <1>7, <1>8

\* A line is made of octets.
LEMMA LineType ==
  ASSUME NEW name \in Seq(Octet), NEW value \in Seq(Octet)
  PROVE  Response!HeaderLine(name, value) \in Seq(Octet)
<1>1. 13 \in Octet /\ 10 \in Octet /\ 58 \in Octet /\ 32 \in Octet
  BY DEF Octet
<1>2. PICK a, b : a = <<58, 32>> /\ b = <<13, 10>>
  OBVIOUS
<1>3. a \in Seq(Octet) /\ b \in Seq(Octet)
  BY <1>1, <1>2
<1>4. name \o a \o value \o b \in Seq(Octet)
  BY <1>3
<1> QED
  BY <1>2, <1>4 DEF Response!HeaderLine, Response!NewLine

\* The lines put together contain each of them.
LEMMA LinesAreIn ==
  ASSUME NEW lines \in Seq(Seq(Octet)), NEW rest \in Seq(Octet), NEW n \in 1 .. Len(lines)
  PROVE  LET text == FlattenSeq(lines) \o rest IN
         /\ text \in Seq(Octet)
         /\ \E at \in 0 .. Len(text) : SubSeq(text, at + 1, at + Len(lines[n])) = lines[n]
<1>1. PICK f, line, at : f = FlattenSeq(lines) /\ line = lines[n] /\ at = Before(lines, n - 1)
  OBVIOUS
<1>2. /\ f \in Seq(Octet) /\ at \in Nat /\ line \in Seq(Octet)
      /\ at + Len(line) <= Len(f)
      /\ \A i \in 1 .. Len(line) : f[at + i] = line[i]
  BY <1>1, PartInWhole
<1>3. PICK text : text = f \o rest
  OBVIOUS
<1>4. text \in Seq(Octet) /\ Halved(text, f, rest)
  BY <1>2, <1>3, TwoParts
<1>5. Len(line) \in Nat /\ Len(text) \in Nat /\ at + Len(line) <= Len(text)
  BY <1>2, <1>4 DEF Halved
<1>6. \A i \in 1 .. Len(line) : text[at + i] = line[i]
  <2>1. \A i \in 1 .. Len(line) : at + i \in 1 .. Len(f)
    BY <1>2
  <2> QED
    BY <1>2, <1>4, <2>1 DEF Halved
<1>7. PICK part : part = SubSeq(text, at + 1, at + Len(line))
  OBVIOUS
<1>8. /\ part \in Seq(Octet) /\ Len(part) = Len(line)
      /\ \A i \in 1 .. Len(line) : part[i] = text[at + i]
  BY <1>2, <1>4, <1>5, <1>7
<1>9. part = line
  <2>1. PICK k : k = Len(line)
    OBVIOUS
  <2>2. part = [i \in 1 .. k |-> part[i]] /\ line = [i \in 1 .. k |-> line[i]]
    BY <1>2, <1>8, <2>1
  <2>3. \A i \in 1 .. k : part[i] = line[i]
    BY <1>6, <1>8, <2>1
  <2> QED
    BY <2>2, <2>3, Zenon
<1>10. at \in 0 .. Len(text)
  BY <1>2, <1>5
<1> QED
  BY <1>1, <1>3, <1>4, <1>7, <1>9, <1>10

-----------------------------------------------------------------------------

\* Nothing is sent at first.
LEMMA ResponseStarts ==
  ASSUME Response!FitInFields, Response!Init
  PROVE  ResponseInv
<1>1. /\ pc = "building" /\ request_id \in RequestIds
      /\ headers = <<>> /\ stdout = <<>> /\ raw = <<>> /\ wire = <<>> /\ whole = FALSE
  BY DEF Response!Init
<1>2. request_id \in Ids
  BY <1>1, FitFacts
<1>3. raw \in Seq(Octet) /\ stdout \in Seq(Octet) /\ DOMAIN headers = {}
  BY <1>1
<1>4. IsFiniteSet(DOMAIN headers)
  BY <1>3, FS_EmptySet
<1>5. StartIsSent
  BY <1>1, <1>2, <1>3, NothingIsStart DEF StartIsSent
<1> QED
  BY <1>1, <1>2, <1>3, <1>4, <1>5 DEF ResponseInv

\* What was sent stays sent.
LEMMA SentStays ==
  ASSUME StartIsSent, UNCHANGED <<request_id, raw, wire, whole>>
  PROVE  StartIsSent'
  BY DEF StartIsSent, Response!Message, Response!Record

\* A header more.
LEMMA HeaderKeeps ==
  ASSUME Response!FitInFields, ResponseInv, NEW name \in Names,
         NEW value \in HeaderValues, Response!AppendHeader(name, value)
  PROVE  ResponseInv'
<1>1. /\ pc = "building"
      /\ headers' = [h \in DOMAIN headers \cup {name} |->
                       IF h = name THEN value ELSE headers[h]]
      /\ pc' = pc /\ request_id' = request_id /\ stdout' = stdout /\ raw' = raw
      /\ wire' = wire /\ whole' = whole
  BY DEF Response!AppendHeader
<1>2. name \in Seq(Octet) /\ value \in Seq(Octet)
  BY FitFacts
<1>3. DOMAIN headers' = DOMAIN headers \cup {name}
  BY <1>1
<1>4. IsFiniteSet(DOMAIN headers')
  <2>1. IsFiniteSet(DOMAIN headers)
    BY DEF ResponseInv
  <2> QED
    BY <1>3, <2>1, FS_AddElement
<1>5. \A h \in DOMAIN headers' : h \in Seq(Octet) /\ headers'[h] \in Seq(Octet)
  BY <1>1, <1>2, <1>3 DEF ResponseInv
<1>6. StartIsSent'
  BY <1>1, SentStays DEF ResponseInv
<1> QED
  BY <1>1, <1>4, <1>5, <1>6 DEF ResponseInv

\* More output.
LEMMA OutputKeeps ==
  ASSUME Response!FitInFields, ResponseInv, NEW output \in Outputs,
         Response!AppendOutput(output)
  PROVE  ResponseInv'
<1>1. /\ pc = "building" /\ stdout' = stdout \o output
      /\ pc' = pc /\ request_id' = request_id /\ headers' = headers /\ raw' = raw
      /\ wire' = wire /\ whole' = whole
  BY DEF Response!AppendOutput
<1>2. output \in Seq(Octet) /\ stdout \in Seq(Octet)
  BY FitFacts DEF ResponseInv
<1>3. stdout' \in Seq(Octet)
  BY <1>1, <1>2
<1>4. StartIsSent'
  BY <1>1, SentStays DEF ResponseInv
<1> QED
  BY <1>1, <1>3, <1>4 DEF ResponseInv

\* Each line stands in the text that is made of all of them.
LEMMA ProcessKeeps ==
  ASSUME Response!FitInFields, ResponseInv, Response!Process
  PROVE  ResponseInv'
<1>1. /\ pc = "building" /\ pc' = "processed"
      /\ request_id' = request_id /\ headers' = headers /\ stdout' = stdout
      /\ wire' = wire /\ whole' = whole
  BY DEF Response!Process
<1>2. PICK order \in Response!SetToSeqs(DOMAIN headers) :
        raw' = Response!FlattenSeq([n \in DOMAIN order |->
                 Response!HeaderLine(order[n], headers[order[n]])])
                 \o Response!NewLine \o stdout
  BY DEF Response!Process
<1>3. PICK lines, rest, end, S :
        /\ lines = [n \in DOMAIN order |->
                      Response!HeaderLine(order[n], headers[order[n]])]
        /\ end = Response!NewLine /\ rest = end \o stdout /\ S = DOMAIN headers
  OBVIOUS
<1>4. order \in Seq(S) /\ \A h \in S : \E n \in DOMAIN order : order[n] = h
  BY <1>3, OrderHasAll DEF ResponseInv
<1>5. \A n \in DOMAIN order : lines[n] \in Seq(Octet)
  <2>1. \A n \in DOMAIN order : order[n] \in S
    BY <1>4
  <2>2. \A h \in S : h \in Seq(Octet) /\ headers[h] \in Seq(Octet)
    BY <1>3 DEF ResponseInv
  <2> QED
    BY <1>3, <2>1, <2>2, LineType
<1>6. lines \in Seq(Seq(Octet)) /\ DOMAIN order = 1 .. Len(lines)
  <2>1. PICK k, T : k = Len(order) /\ T = Seq(Octet)
    OBVIOUS
  <2>2. k \in Nat /\ DOMAIN order = 1 .. k
    BY <1>4, <2>1
  <2>3. DOMAIN lines = 1 .. k /\ lines = [n \in 1 .. k |-> lines[n]]
    BY <1>3, <2>2
  <2>4. \A n \in 1 .. k : lines[n] \in T
    BY <1>5, <2>1, <2>2
  <2>5. lines \in [1 .. k -> T]
    BY <2>3, <2>4
  <2>6. lines \in Seq(T) /\ Len(lines) = k
    BY <2>2, <2>5
  <2> QED
    BY <2>1, <2>2, <2>6
<1>7. end \in Seq(Octet) /\ stdout \in Seq(Octet) /\ rest \in Seq(Octet)
  <2>1. end = <<13, 10>> /\ 13 \in Octet /\ 10 \in Octet
    BY <1>3 DEF Octet, Response!NewLine
  <2>2. end \in Seq(Octet) /\ stdout \in Seq(Octet)
    BY <2>1 DEF ResponseInv
  <2> QED
    BY <1>3, <2>2
<1>8. PICK f : f = FlattenSeq(lines)
  OBVIOUS
<1>9. f \in Seq(Octet)
  BY <1>6, <1>8, WholeType
<1>10. raw' = f \o rest
  <2>1. raw' = f \o end \o stdout
    BY <1>2, <1>3, <1>8, SameFlatten, Zenon
  <2>2. f \o end \o stdout = f \o (end \o stdout)
    BY <1>7, <1>9
  <2> QED
    BY <1>3, <2>1, <2>2
<1>11. raw' \in Seq(Octet)
  BY <1>7, <1>9, <1>10
<1>12. \A h \in DOMAIN headers' : LineIsIn(h, raw)'
  <2> SUFFICES ASSUME NEW h \in S
               PROVE  LineIsIn(h, raw)'
    BY <1>1, <1>3
  <2>1. PICK n \in DOMAIN order : order[n] = h
    BY <1>4
  <2>2. PICK line : line = lines[n]
    OBVIOUS
  <2>3. \E at \in 0 .. Len(raw') : SubSeq(raw', at + 1, at + Len(line)) = line
    BY <1>6, <1>7, <1>8, <1>10, <2>2, LinesAreIn
  <2>4. line = Response!HeaderLine(h, headers'[h])
    BY <1>1, <1>3, <2>1, <2>2
  <2> QED
    BY <2>3, <2>4 DEF LineIsIn, Response!HeaderLine, Response!NewLine
<1>13. StartIsSent'
  <2>1. wire' = <<>> /\ whole' = FALSE /\ request_id \in Ids
    BY <1>1 DEF ResponseInv
  <2>2. PICK t : t = raw'
    OBVIOUS
  <2>3. \E n \in 0 .. Len(Response!Cut(t)) + 32 :
          /\ wire' = SubSeq(Response!Message(t), 1, n)
          /\ whole' = (n = Len(Response!Cut(t)) + 32)
    BY <1>11, <2>1, <2>2, NothingIsStart
  <2>4. (Response!Message(raw))' = Response!Message(t) /\ (Response!Cut(raw))' = Response!Cut(t)
    BY <1>1, <2>2, Zenon DEF Response!Message, Response!Record, Response!Cut
  <2> QED
    BY <2>3, <2>4 DEF StartIsSent
<1> QED
  BY <1>1, <1>11, <1>12, <1>13 DEF ResponseInv

\* The calls that give up.
LEMMA FailKeeps ==
  ASSUME ResponseInv, Response!Fail \/ Response!SendFails
  PROVE  ResponseInv'
<1>1. /\ pc' = "failed" /\ pc # "sent"
      /\ request_id' = request_id /\ headers' = headers /\ stdout' = stdout
      /\ raw' = raw /\ wire' = wire /\ whole' = whole
  BY DEF Response!Fail, Response!SendFails
<1>2. StartIsSent'
  BY <1>1, SentStays DEF ResponseInv
<1> QED
  BY <1>1, <1>2 DEF ResponseInv

\* The start of the message is sent, or all of it.
LEMMA SendKeeps ==
  ASSUME Response!FitInFields, ResponseInv, Response!Send
  PROVE  ResponseInv'
<1>1. /\ pc = "processed" /\ pc' = "sent"
      /\ request_id' = request_id /\ headers' = headers /\ stdout' = stdout
      /\ raw' = raw
  BY DEF Response!Send
<1>2. PICK n \in 1 .. Len(Response!Message(raw)) :
        /\ wire' = SubSeq(Response!Message(raw), 1, n)
        /\ whole' = (n = Len(Response!Message(raw)))
  BY DEF Response!Send
<1>3. PICK c : c = Len(Response!Cut(raw))
  OBVIOUS
<1>4. Len(Response!Message(raw)) = c + 32 /\ c \in Nat
  BY <1>3, MessageFacts DEF ResponseInv
<1>5. n \in 0 .. c + 32
  BY <1>4
<1>6. (Response!Message(raw))' = Response!Message(raw) /\ (Response!Cut(raw))' = Response!Cut(raw)
  BY <1>1, Zenon DEF Response!Message, Response!Record, Response!Cut
<1>7. StartIsSent'
  BY <1>2, <1>3, <1>4, <1>5, <1>6 DEF StartIsSent
<1>8. \A h \in DOMAIN headers' : LineIsIn(h, raw)'
  <2>1. \A h \in DOMAIN headers : LineIsIn(h, raw)
    BY <1>1 DEF ResponseInv
  <2> QED
    BY <1>1, <2>1 DEF LineIsIn, Response!HeaderLine, Response!NewLine
<1> QED
  BY <1>1, <1>7, <1>8 DEF ResponseInv

\* Nothing happens.
LEMMA ResponseStutters ==
  ASSUME ResponseInv, UNCHANGED Response!vars
  PROVE  ResponseInv'
<1>1. /\ pc' = pc /\ request_id' = request_id /\ headers' = headers /\ stdout' = stdout
      /\ raw' = raw /\ wire' = wire /\ whole' = whole
  BY DEF Response!vars
<1>2. StartIsSent'
  BY <1>1, SentStays DEF ResponseInv
<1>3. pc \in {"processed", "sent"} => \A h \in DOMAIN headers' : LineIsIn(h, raw)'
  <2>1. pc \in {"processed", "sent"} => \A h \in DOMAIN headers : LineIsIn(h, raw)
    BY DEF ResponseInv
  <2> QED
    BY <1>1, <2>1 DEF LineIsIn, Response!HeaderLine, Response!NewLine
<1> QED
  BY <1>1, <1>2, <1>3 DEF ResponseInv

\* The response at every moment: nothing of it or the start of the message of a
\* text that has the line of every header.
THEOREM ResponseInvariance ==
  ASSUME Response!FitInFields
  PROVE  Response!Spec => []ResponseInv
<1>1. Response!Init => ResponseInv
  BY ResponseStarts
<1>2. ResponseInv /\ [Response!Next]_(Response!vars) => ResponseInv'
  BY HeaderKeeps, OutputKeeps, ProcessKeeps, FailKeeps, SendKeeps, ResponseStutters
     DEF Response!Next
<1> QED
  BY <1>1, <1>2, PTL DEF Response!Spec

\* The peer sees the end of the request when the socket took everything, and then
\* three messages: however long the response is, the peer is in step.
THEOREM ResponseEndIsInStep ==
  ASSUME Response!FitInFields
  PROVE  Response!Spec => []EndIsInStep
<1>1. ResponseInv => EndIsInStep
  <2> SUFFICES ASSUME ResponseInv
               PROVE  EndIsInStep
    OBVIOUS
  <2>1. PICK c, d : c = Len(Response!Cut(raw)) /\ d = Decoded
    OBVIOUS
  <2>2. PICK n \in 0 .. c + 32 : c \in Nat /\ whole = (n = c + 32) /\ Seen(d, wire, c, n)
    BY <2>1, WhatIsSeen
  <2>3. /\ (\E k \in DOMAIN d : d[k].type = 3) <=> n = c + 32
        /\ n = c + 32 =>
             /\ Len(d) = 3 /\ \A k \in 1 .. 3 : d[k].id = request_id
             /\ d[1].type = 6 /\ d[2].type = 6 /\ d[2].content = <<>>
    BY <2>2, SeenToTheEnd
  <2>4. HasEnded <=> n = c + 32
    BY <2>1, <2>3, Zenon DEF HasEnded, EndRequest
  <2> QED
    BY <2>1, <2>2, <2>3, <2>4 DEF EndIsInStep, Stdout
<1> QED
  BY <1>1, ResponseInvariance, PTL

\* A response its length field can hold is told to be whole when it is, with the
\* line of every header in it.
THEOREM ResponseWholeIfItFits ==
  ASSUME Response!FitInFields
  PROVE  Response!Spec => []WholeIfItFits
<1>1. ResponseInv => WholeIfItFits
  <2> SUFFICES ASSUME ResponseInv, HasEnded, Len(raw) < LengthLimit
               PROVE  /\ Decoded[1].content = raw
                      /\ \A h \in DOMAIN headers : LineIsIn(h, raw)
    BY DEF WholeIfItFits, LineIsIn, HeaderLine, NewLine, Response!HeaderLine, Response!NewLine
  <2>1. PICK c, d : c = Len(Response!Cut(raw)) /\ d = Decoded
    OBVIOUS
  <2>2. PICK n \in 0 .. c + 32 :
          /\ c \in Nat /\ Len(wire) = n
          /\ wire = SubSeq(Response!Message(raw), 1, n) /\ Seen(d, wire, c, n)
    BY <2>1, WhatIsSeen
  <2>3. \E k \in DOMAIN d : d[k].type = 3
    BY <2>1 DEF HasEnded, EndRequest
  <2>4. n = c + 32 /\ d[1].content = SubSeq(wire, 9, 8 + c)
    BY <2>2, <2>3, SeenToTheEnd
  <2>5. /\ raw \in Seq(Octet) /\ request_id \in Ids /\ Response!Cut(raw) = raw
        /\ Len(raw) \in Ids
    BY CutFacts DEF ResponseInv
  <2>6. BufferPlaces(Response!Message(raw), raw)
    BY <2>5, BufferOctets, MessageIsBuffers
  <2>7. SubSeq(wire, 9, 8 + c) = raw
    <3>1. PICK m, s : m = Response!Message(raw) /\ s = SubSeq(wire, 9, 8 + c)
      OBVIOUS
    <3>2. /\ m \in Seq(Octet) /\ Len(m) = c + 32 /\ Len(raw) = c
          /\ \A k \in 1 .. c : m[8 + k] = raw[k]
      BY <2>1, <2>5, <2>6, <3>1 DEF BufferPlaces
    <3>3. wire \in Seq(Octet) /\ \A k \in 1 .. c + 32 : wire[k] = m[k]
      BY <2>2, <2>4, <3>1, <3>2
    <3>4. s \in Seq(Octet) /\ Len(s) = c /\ \A k \in 1 .. c : s[k] = wire[8 + k]
      BY <2>2, <2>4, <3>1, <3>3
    <3>5. \A k \in 1 .. c : s[k] = raw[k]
      <4>1. \A k \in 1 .. c : 8 + k \in 1 .. c + 32
        BY <2>2
      <4>2. \A k \in 1 .. c : wire[8 + k] = m[8 + k]
        BY <3>3, <4>1
      <4> QED
        BY <3>2, <3>4, <4>2
    <3>6. s = [k \in 1 .. c |-> s[k]] /\ raw = [k \in 1 .. c |-> raw[k]]
      BY <2>5, <3>2, <3>4
    <3> QED
      BY <3>1, <3>5, <3>6, Zenon
  <2>8. pc = "sent"
    <3>1. Len(wire) # 0
      BY <2>2, <2>4
    <3> QED
      BY <3>1 DEF ResponseInv
  <2> QED
    BY <2>1, <2>4, <2>7, <2>8 DEF ResponseInv
<1> QED
  BY <1>1, ResponseInvariance, PTL

=============================================================================
