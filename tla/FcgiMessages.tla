----------------------------- MODULE FcgiMessages -----------------------------
(***************************************************************************)
(* The messages of FcgiWire as the parser of FcgiParser should see them:   *)
(* which there are, which ones it can follow, and what it holds then.      *)
(***************************************************************************)
EXTENDS FcgiParser, FcgiWire

\* The pairs of PARAMS, and the messages of FcgiWire: the fields of a header are
\* of one or two octets.
Pairs == [name : Seq(Octet), value : Seq(Octet), long : BOOLEAN]
Ids == {n \in Nat : n < 65536}
Messages ==
  [type : {BeginRequest}, id : Ids, flags : Octet, padding : Octet]
  \cup [type : {Params}, id : Ids, pairs : Seq(Pairs), padding : Octet]
  \cup [type : Octet, id : Ids, octets : Seq(Octet), padding : Octet]

\* The messages the parser can follow: one without content, and
\* BEGIN_REQUEST, have no padding, PARAMS holds whole pairs, and STDIN with
\* content has padding.
IsSupported(m) ==
  IF Content(m) = <<>> \/ "flags" \in DOMAIN m
  THEN m.padding = 0
  ELSE "pairs" \in DOMAIN m \/ (m.type = Stdin /\ m.padding > 0)

\* What was sent is what the parser holds.
Holds(p, m) ==
  /\ p.type = m.type
  /\ p.request_id = m.id
  /\ p.content_length = Len(Content(m))
  /\ "flags" \in DOMAIN m => p.flags = m.flags
  /\ "pairs" \in DOMAIN m =>
       /\ Len(p.params) = Len(m.pairs)
       /\ \A n \in DOMAIN m.pairs :
            /\ p.params[n].name = m.pairs[n].name
            /\ p.params[n].value = m.pairs[n].value
  /\ m.type = Stdin /\ m.octets # <<>> => p.stdin = m.octets

\* A buffer being filled is written from its start, octet by octet, inside its
\* bounds: read_counter is what is left of it.
Partial(buffer, counter) ==
  /\ counter <= Len(buffer)
  /\ \A n \in DOMAIN buffer : (buffer[n] = Unset) <=> (n > Len(buffer) - counter)

===============================================================================
