-------------------------- MODULE FcgiMessageProofs ---------------------------
(***************************************************************************)
(* The parser, octet by octet, and against the octets of one message.      *)
(*                                                                         *)
(* First, what sl_fcgi_parser_parse makes of one octet, for every parser   *)
(* it can be in: the lemmas about ParseOctet that proofs about a stream of *)
(* octets rest on, and Filling, the part of their invariants that is about *)
(* buffers.                                                                *)
(*                                                                         *)
(* Then what the octets of a message are, where the pairs of PARAMS begin  *)
(* among them, and that a parser which has read so many of them knows all  *)
(* they say (Follows), whatever the message.                               *)
(*                                                                         *)
(* FlattenSeq of the community modules, which makes one sequence of the    *)
(* encoded pairs and of the encoded messages, is a recursive function,     *)
(* that is, a choice of one that satisfies an equation: that there is one  *)
(* is proved by an induction on sets of numbers.                           *)
(***************************************************************************)
EXTENDS FcgiMessages, WellFoundedInduction, TLAPS

Bytes == Seq(Octet \cup {Unset})

Parameters ==
  [name_length : Nat, value_length : Nat,
   name : Bytes \cup {Null}, value : Bytes \cup {Null}]

States == HeaderStates \cup BeginStates \cup LengthStates \cup DataStates \cup FinalStates

\* The struct sl_fcgi_parser, as far as it is modelled.
Parsers ==
  [state : States, read_counter : Nat, message_size : Nat,
   type : Octet, request_id : Nat, content_length : Nat, padding_length : Octet,
   role : Nat, flags : Octet,
   params : Seq(Parameters), stdin : Bytes \cup {Null}]

ParserFields ==
  {"state", "read_counter", "message_size", "type", "request_id", "content_length",
   "padding_length", "role", "flags", "params", "stdin"}

ParameterFields == {"name_length", "value_length", "name", "value"}

\* q is p but for these fields.
Keeps(p, q, fields) == \A f \in ParserFields \ fields : q[f] = p[f]

\* The parameter s is r but for one field.
KeepsParam(r, s, f) == \A g \in ParameterFields \ {f} : s[g] = r[g]

\* An assignment to a field along with one to the state.
Set(p, s, f, v) == [p EXCEPT !.state = s, ![f] = v]

\* What such assignments make of p: the state alone, or one more field.
Goes(p, q, s) == q \in Parsers /\ q.state = s /\ Keeps(p, q, {"state"})
Steps(p, q, s, f, v) ==
  q \in Parsers /\ q.state = s /\ q[f] = v /\ Keeps(p, q, {"state", f})

Typed(f, v) ==
  CASE f = "state" -> v \in States
    [] f \in {"type", "padding_length", "flags"} -> v \in Octet
    [] f \in {"read_counter", "message_size", "request_id", "content_length", "role"} ->
         v \in Nat
    [] f = "params" -> v \in Seq(Parameters)
    [] f = "stdin" -> v \in Bytes \cup {Null}

\* What sl_fcgi_parser_parse is given are numbers.
LEMMA OctetIsNat == Octet \subseteq Nat
  BY DEF Octet

\* A struct sl_fcgi_parser is its fields, each of its type.
LEMMA ParserType ==
  ASSUME NEW p
  PROVE  p \in Parsers <=> /\ p = [f \in ParserFields |-> p[f]]
                           /\ \A f \in ParserFields : Typed(f, p[f])
  BY DEF Parsers, ParserFields, Typed

\* Goto assigns the state and nothing else.
LEMMA GotoFacts ==
  ASSUME NEW p \in Parsers, NEW s \in States
  PROVE  Goto(p, s) \in Parsers /\ Goto(p, s).state = s /\ Keeps(p, Goto(p, s), {"state"})
  BY DEF Goto, Keeps, Parsers, ParserFields

\* Assigning the state and one field leaves a parser with only these changed.
LEMMA SetFacts ==
  ASSUME NEW p \in Parsers, NEW s \in States,
         NEW f \in ParserFields \ {"state"}, NEW v, Typed(f, v)
  PROVE  /\ Set(p, s, f, v) \in Parsers
         /\ Set(p, s, f, v).state = s /\ Set(p, s, f, v)[f] = v
         /\ Keeps(p, Set(p, s, f, v), {"state", f})
<1> DEFINE q == Set(p, s, f, v)
<1>1. q = [g \in ParserFields |-> IF g = "state" THEN s ELSE IF g = f THEN v ELSE p[g]]
  BY DEF Set, Parsers, ParserFields
<1> HIDE DEF q
<1>2. q.state = s /\ q[f] = v /\ Keeps(p, q, {"state", f})
  BY <1>1 DEF Keeps, ParserFields
<1>3. \A g \in ParserFields : Typed(g, q[g])
  <2>1. Typed("state", s)
    BY DEF Typed
  <2>2. \A g \in ParserFields : Typed(g, p[g])
    BY ParserType
  <2> QED
    BY <1>2, <2>1, <2>2 DEF Keeps
<1>4. q = [g \in ParserFields |-> q[g]]
  BY <1>1
<1> QED
  BY <1>2, <1>3, <1>4, ParserType DEF q

\* The same, said of the parser q that the assignments leave.
LEMMA SetSteps ==
  ASSUME NEW p \in Parsers, NEW s \in States,
         NEW f \in ParserFields \ {"state"}, NEW v, Typed(f, v),
         NEW q, q = Set(p, s, f, v)
  PROVE  Steps(p, q, s, f, v)
  BY SetFacts DEF Steps

-----------------------------------------------------------------------------

TypedParam(f, v) ==
  CASE f \in {"name_length", "value_length"} -> v \in Nat
    [] f \in {"name", "value"} -> v \in Bytes \cup {Null}

\* A struct sl_fcgi_param is its fields, each of its type.
LEMMA ParamType ==
  ASSUME NEW r
  PROVE  r \in Parameters <=> /\ r = [f \in ParameterFields |-> r[f]]
                              /\ \A f \in ParameterFields : TypedParam(f, r[f])
  BY DEF Parameters, ParameterFields, TypedParam

\* The list of parameters of q is that of p but for the last one.
KeepsFront(p, q) ==
  /\ Len(q.params) = Len(p.params)
  /\ \A n \in 1 .. Len(p.params) - 1 : q.params[n] = p.params[n]

\* last_param points to a parameter once there is one.
LEMMA LastIsParam ==
  ASSUME NEW p \in Parsers, p.params # <<>>
  PROVE  /\ p.params \in Seq(Parameters) /\ Len(p.params) \in Nat \ {0}
         /\ LastParam(p) \in Parameters
  BY DEF Parsers, LastParam

\* An assignment through last_param changes one field of the last parameter,
\* none of an earlier one.
LEMMA SetLastFacts ==
  ASSUME NEW p \in Parsers, p.params # <<>>,
         NEW f \in ParameterFields, NEW v, TypedParam(f, v)
  PROVE  LET q == SetLast(p, f, v) IN
           /\ q \in Parsers /\ Keeps(p, q, {"params"}) /\ KeepsFront(p, q)
           /\ q.params # <<>> /\ LastParam(q) \in Parameters
           /\ LastParam(q)[f] = v /\ KeepsParam(LastParam(p), LastParam(q), f)
<1> DEFINE last == [LastParam(p) EXCEPT ![f] = v]
           list == [p.params EXCEPT ![Len(p.params)] = last]
           q == SetLast(p, f, v)
<1>1. /\ p.params \in Seq(Parameters) /\ Len(p.params) \in Nat \ {0}
      /\ LastParam(p) \in Parameters
  BY LastIsParam
<1>2. /\ last = [g \in ParameterFields |-> IF g = f THEN v ELSE LastParam(p)[g]]
      /\ last[f] = v /\ KeepsParam(LastParam(p), last, f)
  BY <1>1 DEF Parameters, ParameterFields, KeepsParam
<1>3. last \in Parameters
  <2>1. \A g \in ParameterFields : TypedParam(g, last[g])
    BY <1>1, <1>2, ParamType DEF KeepsParam
  <2> HIDE DEF last
  <2>2. last = [g \in ParameterFields |-> last[g]]
    BY <1>2
  <2> QED
    BY <2>1, <2>2, ParamType
<1>4. q = [p EXCEPT !.params = list]
  BY DEF SetLast, LastParam, Parsers
<1> HIDE DEF last
<1>5. /\ list \in Seq(Parameters) /\ Len(list) = Len(p.params)
      /\ list[Len(list)] = last /\ list # <<>>
      /\ \A n \in 1 .. Len(p.params) - 1 : list[n] = p.params[n]
  BY <1>1, <1>3
<1> HIDE DEF list, q
<1>6. q \in Parsers /\ q.params = list /\ Keeps(p, q, {"params"})
  <2>1. q = [g \in ParserFields |-> IF g = "params" THEN list ELSE p[g]]
    BY <1>4 DEF Parsers, ParserFields
  <2>2. q.params = list /\ Keeps(p, q, {"params"})
    BY <2>1 DEF Keeps, ParserFields
  <2>3. Typed("params", list)
    BY <1>5 DEF Typed
  <2>4. \A g \in ParserFields : Typed(g, p[g])
    BY ParserType
  <2>5. \A g \in ParserFields : Typed(g, q[g])
    BY <2>2, <2>3, <2>4 DEF Keeps
  <2>6. q = [g \in ParserFields |-> q[g]]
    BY <2>1
  <2> QED
    BY <2>2, <2>5, <2>6, ParserType
<1>7. LastParam(q) = last
  BY <1>5, <1>6 DEF LastParam
<1> QED
  BY <1>2, <1>3, <1>5, <1>6, <1>7 DEF q, KeepsFront

-----------------------------------------------------------------------------

\* Assigning one field of the parser.
LEMMA PutFacts ==
  ASSUME NEW p \in Parsers, NEW f \in ParserFields, NEW v, Typed(f, v)
  PROVE  LET q == [p EXCEPT ![f] = v] IN
           q \in Parsers /\ q[f] = v /\ Keeps(p, q, {f})
<1> DEFINE q == [p EXCEPT ![f] = v]
<1>1. q = [g \in ParserFields |-> IF g = f THEN v ELSE p[g]]
  BY DEF Parsers, ParserFields
<1> HIDE DEF q
<1>2. q[f] = v /\ Keeps(p, q, {f})
  BY <1>1 DEF Keeps, ParserFields
<1>3. \A g \in ParserFields : Typed(g, q[g])
  BY <1>2, ParserType DEF Keeps
<1>4. q = [g \in ParserFields |-> q[g]]
  BY <1>1
<1> QED
  BY <1>2, <1>3, <1>4, ParserType DEF q

\* An octet of padding is counted down, and one more finishes the message.
LEMMA PaddingFacts ==
  ASSUME NEW p \in Parsers
  PROVE  LET q == ParsePadding(p) IN
           /\ q \in Parsers /\ Keeps(p, q, {"state", "read_counter"})
           /\ p.read_counter = 0 => q.state = "FINISHED"
           /\ p.read_counter # 0 => /\ q.state = p.state
                                    /\ q.read_counter = p.read_counter - 1
<1> DEFINE s == IF p.read_counter = 0 THEN "FINISHED" ELSE p.state
           n == Decremented(p.read_counter)
           q == ParsePadding(p)
<1>1. p.read_counter \in Nat /\ p.state \in States
  BY DEF Parsers
<1>2. s \in States /\ n \in Nat /\ (p.read_counter # 0 => n = p.read_counter - 1)
  BY <1>1, ParserAssumption DEF Decremented, States, FinalStates
<1>3. q = Set(p, s, "read_counter", n)
  BY DEF ParsePadding, Set, Parsers
<1> HIDE DEF n, q
<1>4. Typed("read_counter", n) /\ "read_counter" \in ParserFields \ {"state"}
  BY <1>2 DEF Typed, ParserFields
<1> HIDE DEF s
<1>5. q \in Parsers /\ q.state = s /\ q["read_counter"] = n
      /\ Keeps(p, q, {"state", "read_counter"})
  BY <1>2, <1>3, <1>4, SetFacts
<1> QED
  BY <1>2, <1>5 DEF s, q

\* A new buffer has the size asked for, and nothing written in it.
LEMMA BufferFacts ==
  ASSUME NEW length \in Nat
  PROVE  /\ Buffer(length) \in Bytes /\ Buffer(length) # Null
         /\ Len(Buffer(length)) = length
         /\ \A n \in 1 .. length : Buffer(length)[n] = Unset
<1>1. Buffer(length) \in Bytes
  BY DEF Buffer, Bytes
<1> QED
  BY <1>1, ParserAssumption DEF Buffer, Bytes

\* The buffer of a name or a value is allocated once, and its size is then added
\* to message_size.
LEMMA AllocatedFacts ==
  ASSUME NEW p \in Parsers, p.params # <<>>, NEW f \in {"name", "value"},
         NEW length \in Nat
  PROVE  LET q == Allocated(p, f, length) IN
           /\ q \in Parsers /\ q.params # <<>>
           /\ LastParam(p)[f] # Null => q = p
           /\ LastParam(p)[f] = Null =>
                /\ Keeps(p, q, {"params", "read_counter", "message_size"})
                /\ KeepsFront(p, q) /\ KeepsParam(LastParam(p), LastParam(q), f)
                /\ LastParam(q)[f] = Buffer(length)
                /\ q.read_counter = length /\ q.message_size = p.message_size + length
<1> DEFINE q == Allocated(p, f, length)
<1>1. CASE LastParam(p)[f] # Null
  BY <1>1 DEF Allocated
<1>2. CASE LastParam(p)[f] = Null
  <2> DEFINE r == SetLast(p, f, Buffer(length))
             r1 == [r EXCEPT !.read_counter = length]
             n == p.message_size + length
  <2>1. f \in ParameterFields /\ TypedParam(f, Buffer(length))
    BY BufferFacts DEF ParameterFields, TypedParam
  <2>2. /\ r \in Parsers /\ Keeps(p, r, {"params"}) /\ KeepsFront(p, r)
        /\ r.params # <<>>
        /\ LastParam(r)[f] = Buffer(length) /\ KeepsParam(LastParam(p), LastParam(r), f)
    BY <2>1, SetLastFacts
  <2> HIDE DEF r
  <2>3. r1 \in Parsers /\ r1["read_counter"] = length /\ Keeps(r, r1, {"read_counter"})
    <3>1. Typed("read_counter", length) /\ "read_counter" \in ParserFields
      BY DEF Typed, ParserFields
    <3> QED
      BY <2>2, <3>1, PutFacts
  <2>4. q = [r1 EXCEPT !.message_size = n]
    <3>1. r.message_size = p.message_size
      BY <2>2 DEF Keeps, ParserFields
    <3>2. q = [r EXCEPT !.read_counter = length, !.message_size = r.message_size + length]
      BY <1>2 DEF Allocated, r
    <3> QED
      BY <3>1, <3>2
  <2>5. n \in Nat
    BY DEF Parsers
  <2> HIDE DEF r1, q, n
  <2>6. q \in Parsers /\ q["message_size"] = n /\ Keeps(r1, q, {"message_size"})
    <3>1. Typed("message_size", n) /\ "message_size" \in ParserFields
      BY <2>5 DEF Typed, ParserFields
    <3> QED
      BY <2>3, <2>4, <3>1, PutFacts
  <2>7. /\ Keeps(p, q, {"params", "read_counter", "message_size"})
        /\ q.params = r.params /\ q.read_counter = length
    BY <2>2, <2>3, <2>6 DEF Keeps, ParserFields
  <2>8. KeepsFront(p, q) /\ LastParam(q) = LastParam(r)
    BY <2>2, <2>7 DEF KeepsFront, LastParam
  <2> QED
    BY <1>2, <2>2, <2>6, <2>7, <2>8 DEF q, n
<1> QED
  BY <1>1, <1>2

\* Replacing the buffer of a name or a value, and read_counter with it.
LEMMA SetBufferFacts ==
  ASSUME NEW p \in Parsers, p.params # <<>>, NEW f \in {"name", "value"},
         NEW v \in Bytes, NEW m \in Nat
  PROVE  LET q == [SetLast(p, f, v) EXCEPT !.read_counter = m] IN
           /\ q \in Parsers /\ q.params # <<>> /\ q.read_counter = m
           /\ Keeps(p, q, {"params", "read_counter"}) /\ KeepsFront(p, q)
           /\ LastParam(q)[f] = v /\ KeepsParam(LastParam(p), LastParam(q), f)
<1> DEFINE r == SetLast(p, f, v)
           q == [r EXCEPT !.read_counter = m]
<1>1. f \in ParameterFields /\ TypedParam(f, v)
  BY DEF ParameterFields, TypedParam
<1>2. /\ r \in Parsers /\ Keeps(p, r, {"params"}) /\ KeepsFront(p, r)
      /\ r.params # <<>>
      /\ LastParam(r)[f] = v /\ KeepsParam(LastParam(p), LastParam(r), f)
  BY <1>1, SetLastFacts
<1> HIDE DEF r
<1>3. q \in Parsers /\ q["read_counter"] = m /\ Keeps(r, q, {"read_counter"})
  <2>1. Typed("read_counter", m) /\ "read_counter" \in ParserFields
    BY DEF Typed, ParserFields
  <2> QED
    BY <1>2, <2>1, PutFacts
<1> HIDE DEF q
<1>4. Keeps(p, q, {"params", "read_counter"}) /\ q.params = r.params
  BY <1>2, <1>3 DEF Keeps, ParserFields
<1>5. KeepsFront(p, q) /\ LastParam(q) = LastParam(r)
  BY <1>2, <1>4 DEF KeepsFront, LastParam
<1> QED
  BY <1>2, <1>3, <1>4, <1>5 DEF q, r

\* Storing an octet in a name or a value writes exactly one place of the buffer.
LEMMA StoreLastFacts ==
  ASSUME NEW p \in Parsers, p.params # <<>>, NEW f \in {"name", "value"},
         NEW octet \in Octet, LastParam(p)[f] # Null,
         p.read_counter \in 1 .. Len(LastParam(p)[f])
  PROVE  LET q == StoreLast(p, f, octet)
             buffer == LastParam(p)[f]
             new == LastParam(q)[f]
         IN  /\ q \in Parsers /\ q.params # <<>>
             /\ Keeps(p, q, {"params", "read_counter"})
             /\ KeepsFront(p, q) /\ KeepsParam(LastParam(p), LastParam(q), f)
             /\ q.read_counter = p.read_counter - 1
             /\ new \in Bytes /\ Len(new) = Len(buffer)
             /\ \A n \in 1 .. Len(buffer) :
                  new[n] = IF n = Len(buffer) - p.read_counter + 1 THEN octet ELSE buffer[n]
<1> DEFINE q == StoreLast(p, f, octet)
           buffer == LastParam(p)[f]
           i == Len(buffer) - p.read_counter + 1
<1>1. /\ buffer \in Bytes /\ LastParam(p) \in Parameters /\ i \in 1 .. Len(buffer)
      /\ p.read_counter - 1 \in Nat
  <2>1. buffer \in Bytes /\ LastParam(p) \in Parameters
    BY LastIsParam DEF Parameters
  <2> QED
    BY <2>1, SMTT(60) DEF Bytes, Parsers
<1>2. PICK v : v = [buffer EXCEPT ![i] = octet]
  OBVIOUS
<1>3. /\ v \in Bytes /\ Len(v) = Len(buffer)
      /\ \A n \in 1 .. Len(buffer) : v[n] = IF n = i THEN octet ELSE buffer[n]
  BY <1>1, <1>2 DEF Bytes
<1>4. PICK m : m = p.read_counter - 1
  OBVIOUS
<1>5. q = [SetLast(p, f, v) EXCEPT !.read_counter = m]
  BY <1>2, <1>4 DEF StoreLast
<1> HIDE DEF q
<1>6. /\ q \in Parsers /\ q.params # <<>> /\ q.read_counter = m
      /\ Keeps(p, q, {"params", "read_counter"}) /\ KeepsFront(p, q)
      /\ LastParam(q)[f] = v /\ KeepsParam(LastParam(p), LastParam(q), f)
  <2>1. v \in Bytes /\ m \in Nat
    BY <1>1, <1>3, <1>4
  <2> QED
    BY <2>1, <1>5, SetBufferFacts
<1> QED
  BY <1>3, <1>4, <1>6 DEF q

-----------------------------------------------------------------------------
(***************************************************************************)
(* What sl_fcgi_parser_parse makes of an octet, state by state.            *)
(***************************************************************************)

\* The header.
LEMMA HeaderSteps ==
  ASSUME NEW p \in Parsers, NEW octet \in Octet, NEW ok \in BOOLEAN
  PROVE  LET q == ParseOctet(p, octet, ok) IN
    /\ p.state = "VERSION" => Goes(p, q, "TYPE")
    /\ p.state = "TYPE" => Steps(p, q, "REQUEST_ID_B1", "type", octet)
    /\ p.state = "REQUEST_ID_B1" =>
         Steps(p, q, "REQUEST_ID_B0", "request_id", octet * 256)
    /\ p.state = "REQUEST_ID_B0" =>
         Steps(p, q, "CONTENT_LENGTH_B1", "request_id", p.request_id + octet)
    /\ p.state = "CONTENT_LENGTH_B1" =>
         Steps(p, q, "CONTENT_LENGTH_B0", "content_length", octet * 256)
    /\ p.state = "CONTENT_LENGTH_B0" =>
         Steps(p, q, "PADDING_LENGTH", "content_length", p.content_length + octet)
    /\ p.state = "PADDING_LENGTH" =>
         Steps(p, q, "PADDING_RESERVED", "padding_length", octet)
    /\ p.state = "PADDING_RESERVED" => Goes(p, q, AfterHeader(p))
<1> DEFINE q == ParseOctet(p, octet, ok)
<1>0. /\ octet * 256 \in Nat
      /\ p.request_id + octet \in Nat /\ p.content_length + octet \in Nat
  <2>1. octet * 256 \in Nat
    BY DEF Octet
  <2> QED
    BY <2>1 DEF Octet, Parsers
<1> USE DEF HeaderStates, BeginStates, LengthStates, DataStates, FinalStates
<1>1. p.state = "VERSION" => Goes(p, q, "TYPE")
  BY GotoFacts DEF ParseOctet, ParseHeader, Goes, States
<1>2. p.state = "TYPE" => Steps(p, q, "REQUEST_ID_B1", "type", octet)
  <2> SUFFICES ASSUME p.state = "TYPE" PROVE Steps(p, q, "REQUEST_ID_B1", "type", octet)
    OBVIOUS
  <2>1. q = Set(p, "REQUEST_ID_B1", "type", octet)
    BY DEF ParseOctet, ParseHeader, Goto, Set
  <2>2. "REQUEST_ID_B1" \in States /\ "type" \in ParserFields \ {"state"}
      /\ Typed("type", octet)
    BY <1>0 DEF States, ParserFields, Typed
  <2> QED
    BY <2>1, <2>2, SetSteps, Zenon
<1>3. p.state = "REQUEST_ID_B1" => Steps(p, q, "REQUEST_ID_B0", "request_id", octet * 256)
  <2> SUFFICES ASSUME p.state = "REQUEST_ID_B1"
               PROVE  Steps(p, q, "REQUEST_ID_B0", "request_id", octet * 256)
    OBVIOUS
  <2>1. q = Set(p, "REQUEST_ID_B0", "request_id", octet * 256)
    BY DEF ParseOctet, ParseHeader, Goto, Set
  <2>2. "REQUEST_ID_B0" \in States /\ "request_id" \in ParserFields \ {"state"}
      /\ Typed("request_id", octet * 256)
    BY <1>0 DEF States, ParserFields, Typed
  <2> QED
    BY <2>1, <2>2, SetSteps, Zenon
<1>4. p.state = "REQUEST_ID_B0" =>
        Steps(p, q, "CONTENT_LENGTH_B1", "request_id", p.request_id + octet)
  <2> SUFFICES ASSUME p.state = "REQUEST_ID_B0"
               PROVE  Steps(p, q, "CONTENT_LENGTH_B1", "request_id", p.request_id + octet)
    OBVIOUS
  <2>1. q = Set(p, "CONTENT_LENGTH_B1", "request_id", p.request_id + octet)
    BY DEF ParseOctet, ParseHeader, Goto, Set
  <2>2. "CONTENT_LENGTH_B1" \in States /\ "request_id" \in ParserFields \ {"state"}
      /\ Typed("request_id", p.request_id + octet)
    BY <1>0 DEF States, ParserFields, Typed
  <2> QED
    BY <2>1, <2>2, SetSteps, Zenon
<1>5. p.state = "CONTENT_LENGTH_B1" =>
        Steps(p, q, "CONTENT_LENGTH_B0", "content_length", octet * 256)
  <2> SUFFICES ASSUME p.state = "CONTENT_LENGTH_B1"
               PROVE  Steps(p, q, "CONTENT_LENGTH_B0", "content_length", octet * 256)
    OBVIOUS
  <2>1. q = Set(p, "CONTENT_LENGTH_B0", "content_length", octet * 256)
    BY DEF ParseOctet, ParseHeader, Goto, Set
  <2>2. "CONTENT_LENGTH_B0" \in States /\ "content_length" \in ParserFields \ {"state"}
      /\ Typed("content_length", octet * 256)
    BY <1>0 DEF States, ParserFields, Typed
  <2> QED
    BY <2>1, <2>2, SetSteps, Zenon
<1>6. p.state = "CONTENT_LENGTH_B0" =>
        Steps(p, q, "PADDING_LENGTH", "content_length", p.content_length + octet)
  <2> SUFFICES ASSUME p.state = "CONTENT_LENGTH_B0"
               PROVE  Steps(p, q, "PADDING_LENGTH", "content_length", p.content_length + octet)
    OBVIOUS
  <2>1. q = Set(p, "PADDING_LENGTH", "content_length", p.content_length + octet)
    BY DEF ParseOctet, ParseHeader, Goto, Set
  <2>2. "PADDING_LENGTH" \in States /\ "content_length" \in ParserFields \ {"state"}
      /\ Typed("content_length", p.content_length + octet)
    BY <1>0 DEF States, ParserFields, Typed
  <2> QED
    BY <2>1, <2>2, SetSteps, Zenon
<1>7. p.state = "PADDING_LENGTH" =>
        Steps(p, q, "PADDING_RESERVED", "padding_length", octet)
  <2> SUFFICES ASSUME p.state = "PADDING_LENGTH"
               PROVE  Steps(p, q, "PADDING_RESERVED", "padding_length", octet)
    OBVIOUS
  <2>1. q = Set(p, "PADDING_RESERVED", "padding_length", octet)
    BY DEF ParseOctet, ParseHeader, Goto, Set
  <2>2. "PADDING_RESERVED" \in States /\ "padding_length" \in ParserFields \ {"state"}
      /\ Typed("padding_length", octet)
    BY <1>0 DEF States, ParserFields, Typed
  <2> QED
    BY <2>1, <2>2, SetSteps, Zenon
<1>8. p.state = "PADDING_RESERVED" => Goes(p, q, AfterHeader(p))
  <2>1. AfterHeader(p) \in States
    BY DEF AfterHeader, DispatchType, States
  <2> QED
    BY <2>1, GotoFacts DEF ParseOctet, ParseHeader, Goes
<1> HIDE DEF q
<1> QED
  BY <1>1, <1>2, <1>3, <1>4, <1>5, <1>6, <1>7, <1>8 DEF q

\* The body of BEGIN_REQUEST.
LEMMA BeginSteps ==
  ASSUME NEW p \in Parsers, NEW octet \in Octet, NEW ok \in BOOLEAN
  PROVE  LET q == ParseOctet(p, octet, ok) IN
    /\ p.state = "BEGIN_ROLE_B1" => Steps(p, q, "BEGIN_ROLE_B0", "role", octet * 256)
    /\ p.state = "BEGIN_ROLE_B0" => Steps(p, q, "BEGIN_FLAGS", "role", p.role + octet)
    /\ p.state = "BEGIN_FLAGS" => Steps(p, q, "BEGIN_SKIP5", "flags", octet)
    /\ p.state = "BEGIN_SKIP5" => Goes(p, q, "BEGIN_SKIP4")
    /\ p.state = "BEGIN_SKIP4" => Goes(p, q, "BEGIN_SKIP3")
    /\ p.state = "BEGIN_SKIP3" => Goes(p, q, "BEGIN_SKIP2")
    /\ p.state = "BEGIN_SKIP2" => Goes(p, q, "BEGIN_SKIP1")
    /\ p.state = "BEGIN_SKIP1" => Steps(p, q, "FINISHED", "message_size", 16)
<1> DEFINE q == ParseOctet(p, octet, ok)
<1>0. octet * 256 \in Nat /\ p.role + octet \in Nat
  <2>1. octet * 256 \in Nat
    BY DEF Octet
  <2> QED
    BY <2>1 DEF Octet, Parsers
<1> USE DEF HeaderStates, BeginStates, LengthStates, DataStates, FinalStates
<1>1. p.state = "BEGIN_ROLE_B1" => Steps(p, q, "BEGIN_ROLE_B0", "role", octet * 256)
  <2> SUFFICES ASSUME p.state = "BEGIN_ROLE_B1"
               PROVE  Steps(p, q, "BEGIN_ROLE_B0", "role", octet * 256)
    OBVIOUS
  <2>1. q = Set(p, "BEGIN_ROLE_B0", "role", octet * 256)
    BY DEF ParseOctet, ParseBeginRequest, Goto, Set
  <2>2. "BEGIN_ROLE_B0" \in States /\ "role" \in ParserFields \ {"state"}
      /\ Typed("role", octet * 256)
    BY <1>0 DEF States, ParserFields, Typed
  <2> QED
    BY <2>1, <2>2, SetSteps, Zenon
<1>2. p.state = "BEGIN_ROLE_B0" => Steps(p, q, "BEGIN_FLAGS", "role", p.role + octet)
  <2> SUFFICES ASSUME p.state = "BEGIN_ROLE_B0"
               PROVE  Steps(p, q, "BEGIN_FLAGS", "role", p.role + octet)
    OBVIOUS
  <2>1. q = Set(p, "BEGIN_FLAGS", "role", p.role + octet)
    BY DEF ParseOctet, ParseBeginRequest, Goto, Set
  <2>2. "BEGIN_FLAGS" \in States /\ "role" \in ParserFields \ {"state"}
      /\ Typed("role", p.role + octet)
    BY <1>0 DEF States, ParserFields, Typed
  <2> QED
    BY <2>1, <2>2, SetSteps, Zenon
<1>3. p.state = "BEGIN_FLAGS" => Steps(p, q, "BEGIN_SKIP5", "flags", octet)
  <2> SUFFICES ASSUME p.state = "BEGIN_FLAGS"
               PROVE  Steps(p, q, "BEGIN_SKIP5", "flags", octet)
    OBVIOUS
  <2>1. q = Set(p, "BEGIN_SKIP5", "flags", octet)
    BY DEF ParseOctet, ParseBeginRequest, Goto, Set
  <2>2. "BEGIN_SKIP5" \in States /\ "flags" \in ParserFields \ {"state"}
      /\ Typed("flags", octet)
    BY <1>0 DEF States, ParserFields, Typed
  <2> QED
    BY <2>1, <2>2, SetSteps, Zenon
<1>4. p.state = "BEGIN_SKIP5" => Goes(p, q, "BEGIN_SKIP4")
  BY GotoFacts DEF ParseOctet, ParseBeginRequest, Goes, States
<1>5. p.state = "BEGIN_SKIP4" => Goes(p, q, "BEGIN_SKIP3")
  BY GotoFacts DEF ParseOctet, ParseBeginRequest, Goes, States
<1>6. p.state = "BEGIN_SKIP3" => Goes(p, q, "BEGIN_SKIP2")
  BY GotoFacts DEF ParseOctet, ParseBeginRequest, Goes, States
<1>7. p.state = "BEGIN_SKIP2" => Goes(p, q, "BEGIN_SKIP1")
  BY GotoFacts DEF ParseOctet, ParseBeginRequest, Goes, States
<1>8. p.state = "BEGIN_SKIP1" => Steps(p, q, "FINISHED", "message_size", 16)
  <2> SUFFICES ASSUME p.state = "BEGIN_SKIP1"
               PROVE  Steps(p, q, "FINISHED", "message_size", 16)
    OBVIOUS
  <2>1. q = Set(p, "FINISHED", "message_size", 16)
    BY DEF ParseOctet, ParseBeginRequest, Goto, Set
  <2>2. "FINISHED" \in States /\ "message_size" \in ParserFields \ {"state"}
      /\ Typed("message_size", 16)
    BY <1>0 DEF States, ParserFields, Typed
  <2> QED
    BY <2>1, <2>2, SetSteps, Zenon
<1> HIDE DEF q
<1> QED
  BY <1>1, <1>2, <1>3, <1>4, <1>5, <1>6, <1>7, <1>8 DEF q

\* What one more octet of a length makes of p: q differs in a length of the
\* last parameter, besides the state and message_size.
StepsPair(p, q, s, size, f, v) ==
  /\ q \in Parsers /\ q.state = s /\ q.message_size = size
  /\ Keeps(p, q, {"state", "message_size", "params"})
  /\ KeepsFront(p, q) /\ q.params # <<>>
  /\ LastParam(q)[f] = v /\ KeepsParam(LastParam(p), LastParam(q), f)

\* Assigning the length of a name or a value, the state and message_size.
LEMMA SetPairSteps ==
  ASSUME NEW p \in Parsers, p.params # <<>>, NEW s \in States, NEW size \in Nat,
         NEW f \in {"name_length", "value_length"}, NEW v \in Nat, NEW q,
         \/ q = Goto(SetLast(p, f, v), s) /\ size = p.message_size
         \/ q = [Goto(SetLast(p, f, v), s) EXCEPT !.message_size = size]
  PROVE  StepsPair(p, q, s, size, f, v)
<1>1. PICK r : r = SetLast(p, f, v)
  OBVIOUS
<1>2. /\ r \in Parsers /\ Keeps(p, r, {"params"}) /\ KeepsFront(p, r)
      /\ r.params # <<>>
      /\ LastParam(r)[f] = v /\ KeepsParam(LastParam(p), LastParam(r), f)
  <2>1. f \in ParameterFields /\ TypedParam(f, v)
    BY DEF ParameterFields, TypedParam
  <2> QED
    BY <1>1, <2>1, SetLastFacts
<1>3. r.message_size = p.message_size
  BY <1>2 DEF Keeps, ParserFields
<1>4. q = Set(r, s, "message_size", size)
  BY <1>1, <1>2, <1>3 DEF Goto, Set, Parsers
<1>5. Steps(r, q, s, "message_size", size)
  <2>1. "message_size" \in ParserFields \ {"state"} /\ Typed("message_size", size)
    BY DEF ParserFields, Typed
  <2> QED
    BY <1>2, <1>4, <2>1, SetSteps
<1>6. Keeps(p, q, {"state", "message_size", "params"}) /\ q.params = r.params
  BY <1>2, <1>5 DEF Steps, Keeps, ParserFields
<1>7. KeepsFront(p, q) /\ LastParam(q) = LastParam(r)
  BY <1>2, <1>6 DEF KeepsFront, LastParam
<1> QED
  BY <1>2, <1>5, <1>6, <1>7 DEF Steps, StepsPair

\* The octets of the lengths of a pair after the first one: the next state s,
\* and how much is added to message_size and to the length f.
LengthStep(p, octet, s, size, f, n) ==
  \/ /\ f = "name_length" /\ size = 0
     /\ \/ p.state = "NAME_LENGTH_B2" /\ s = "NAME_LENGTH_B1" /\ n = octet * 65536
        \/ p.state = "NAME_LENGTH_B1" /\ s = "NAME_LENGTH_B0" /\ n = octet * 256
        \/ p.state = "NAME_LENGTH_B0" /\ s = "VALUE_LENGTH_B3" /\ n = octet
  \/ /\ f = "value_length" /\ size = 0
     /\ \/ p.state = "VALUE_LENGTH_B2" /\ s = "VALUE_LENGTH_B1" /\ n = octet * 65536
        \/ p.state = "VALUE_LENGTH_B1" /\ s = "VALUE_LENGTH_B0" /\ n = octet * 256
        \/ p.state = "VALUE_LENGTH_B0" /\ s = "NAME_DATA" /\ n = octet
  \/ /\ f = "value_length" /\ p.state = "VALUE_LENGTH_B3"
     /\ \/ octet >= 128 /\ s = "VALUE_LENGTH_B2" /\ size = 4
           /\ n = (octet % 128) * 16777216
        \/ octet < 128 /\ s = "NAME_DATA" /\ size = 1 /\ n = octet

\* One octet of a length: which field takes what, state by state.
LEMMA LengthSteps ==
  ASSUME NEW p \in Parsers, p.params # <<>>, NEW octet \in Octet, NEW ok \in BOOLEAN,
         NEW s, NEW size, NEW f, NEW n, LengthStep(p, octet, s, size, f, n)
  PROVE  StepsPair(p, ParseOctet(p, octet, ok), s, p.message_size + size,
                   f, LastParam(p)[f] + n)
<1> DEFINE q == ParseOctet(p, octet, ok)
<1>1. /\ LastParam(p).name_length \in Nat /\ LastParam(p).value_length \in Nat
      /\ p.message_size \in Nat /\ p.state \in States
  BY LastIsParam DEF Parameters, Parsers
<1>2. f \in {"name_length", "value_length"} /\ s \in States
  BY DEF LengthStep, States, LengthStates, DataStates
<1>3. PICK v, total : v = LastParam(p)[f] + n /\ total = p.message_size + size
  OBVIOUS
<1>4. v \in Nat /\ total \in Nat
  <2>1. octet \in Nat /\ octet * 65536 \in Nat /\ octet * 256 \in Nat
    <3>1. octet \in Nat
      BY OctetIsNat
    <3> QED
      BY <3>1, SMT
  <2>2. octet % 128 \in Nat /\ (octet % 128) * 16777216 \in Nat
    <3>1. PICK k : k = octet % 128
      OBVIOUS
    <3>2. k \in Nat
      BY <2>1, <3>1
    <3>3. k * 16777216 \in Nat
      BY <3>2, SMT
    <3> QED
      BY <3>1, <3>2, <3>3, SMT
  <2>3. n \in Nat /\ size \in {0, 1, 4}
    BY <2>1, <2>2 DEF LengthStep
  <2> QED
    BY <1>1, <1>2, <1>3, <2>3
<1>5. p.state \in LengthStates \ {"NAME_LENGTH_B3"}
  BY DEF LengthStep, LengthStates
<1>6. q = ParseLength(p, octet)
  <2>1. /\ p.state \notin HeaderStates /\ p.state \notin BeginStates
        /\ p.state \notin {"STDIN_DATA", "STDIN_PADDING"} /\ p.state \notin FinalStates
    BY <1>5 DEF HeaderStates, BeginStates, LengthStates, FinalStates
  <2>2. q = ParseParams(p, octet, ok)
    BY <1>5, <2>1 DEF ParseOctet
  <2>3. p.state \notin {"NAME_LENGTH_B3", "NAME_DATA", "VALUE_DATA", "PARAM_PADDING"}
    BY <1>5 DEF LengthStates
  <2> QED
    BY <1>5, <2>2, <2>3 DEF ParseParams
<1>7. CASE p.state # "VALUE_LENGTH_B3"
  <2>1. q = Goto(SetLast(p, f, v), s)
    BY <1>3, <1>6, <1>7 DEF LengthStep, ParseLength
  <2>2. total = p.message_size
    BY <1>1, <1>3, <1>7 DEF LengthStep
  <2> QED
    BY <1>2, <1>3, <1>4, <2>1, <2>2, SetPairSteps
<1>8. CASE p.state = "VALUE_LENGTH_B3"
  <2>1. PICK r : r = Goto(SetLast(p, f, v), s)
    OBVIOUS
  <2>2. r.message_size = p.message_size
    BY <2>1 DEF Goto, SetLast, Parsers
  <2>3. q = [r EXCEPT !.message_size = total]
    <3>1. CASE octet >= 128
      <4>1. /\ s = "VALUE_LENGTH_B2" /\ size = 4 /\ n = (octet % 128) * 16777216
            /\ f = "value_length"
        <5>1. ~(octet < 128)
          BY <3>1, OctetIsNat
        <5> QED
          BY <1>8, <5>1, SMT DEF LengthStep
      <4>2. q = [Goto(SetLast(p, f, LastParam(p).value_length + (octet % 128) * 16777216), s)
                  EXCEPT !.message_size = @ + 4]
        BY <1>6, <1>8, <3>1, <4>1 DEF ParseLength
      <4>3. q = [r EXCEPT !.message_size = @ + size]
        BY <1>3, <2>1, <4>1, <4>2
      <4> QED
        BY <1>3, <2>2, <4>3
    <3>2. CASE ~(octet >= 128)
      <4>1. /\ s = "NAME_DATA" /\ size = 1 /\ n = octet
            /\ f = "value_length"
        <5>1. ~(octet >= 128)
          BY <3>2
        <5> QED
          BY <1>8, <5>1, SMT DEF LengthStep
      <4>2. q = [Goto(SetLast(p, f, LastParam(p).value_length + octet), s)
                  EXCEPT !.message_size = @ + 1]
        BY <1>6, <1>8, <3>2, <4>1 DEF ParseLength
      <4>3. q = [r EXCEPT !.message_size = @ + size]
        BY <1>3, <2>1, <4>1, <4>2
      <4> QED
        BY <1>3, <2>2, <4>3
    <3> QED
      BY <3>1, <3>2
  <2> QED
    BY <1>2, <1>3, <1>4, <2>1, <2>3, SetPairSteps
<1> QED
  BY <1>7, <1>8

\* The parameter made for the first octet of a pair.
FreshLength(octet) == IF octet >= 128 THEN (octet % 128) * 16777216 ELSE octet
FreshParam(octet) ==
  [name_length |-> FreshLength(octet), value_length |-> 0, name |-> Null, value |-> Null]

\* q is p with that parameter.
StepsNew(p, q, octet) ==
  /\ q \in Parsers
  /\ q.state = IF octet >= 128 THEN "NAME_LENGTH_B2" ELSE "VALUE_LENGTH_B3"
  /\ q.message_size = (IF p.params = <<>> THEN 0 ELSE p.message_size)
                      + (IF octet >= 128 THEN 4 ELSE 1)
  /\ Keeps(p, q, {"state", "message_size", "params"})
  /\ FreshParam(octet) \in Parameters
  /\ q.params = Append(p.params, FreshParam(octet))

\* The first octet of a pair: a new last parameter, or ERROR without memory.
LEMMA NewParamSteps ==
  ASSUME NEW p \in Parsers, NEW octet \in Octet
  PROVE  /\ NewParam(p, octet, FALSE) = Goto(p, "ERROR")
         /\ StepsNew(p, NewParam(p, octet, TRUE), octet)
<1> DEFINE list == Append(p.params, FreshParam(octet))
           size == (IF p.params = <<>> THEN 0 ELSE p.message_size)
                   + (IF octet >= 128 THEN 4 ELSE 1)
           s == IF octet >= 128 THEN "NAME_LENGTH_B2" ELSE "VALUE_LENGTH_B3"
           q == NewParam(p, octet, TRUE)
<1>1. NewParam(p, octet, FALSE) = Goto(p, "ERROR")
  BY DEF NewParam
<1>2. q = [p EXCEPT !.params = list, !.message_size = size, !.state = s]
  BY SMT DEF NewParam, Parsers, FreshParam, FreshLength
<1>3. FreshParam(octet) \in Parameters
  <2>1. octet \in Nat /\ octet % 128 \in Nat /\ (octet % 128) * 16777216 \in Nat
    BY DEF Octet
  <2>2. FreshLength(octet) \in Nat
    BY <2>1 DEF FreshLength
  <2> QED
    BY <2>2 DEF FreshParam, Parameters
<1>4. size \in Nat
  BY DEF Parsers
<1>5. s \in States
  BY DEF States, LengthStates
<1>6. Typed("params", list) /\ "params" \in ParserFields \ {"state"}
  BY <1>3 DEF Typed, Parsers, ParserFields
<1> HIDE DEF list, size, s, q
<1>7. PICK r : r = Set(p, s, "params", list)
  OBVIOUS
<1>8. Steps(p, r, s, "params", list)
  BY <1>5, <1>6, <1>7, SetSteps
<1>9. q = [r EXCEPT !.message_size = size]
  BY <1>2, <1>7 DEF Set
<1>10. q \in Parsers /\ q["message_size"] = size /\ Keeps(r, q, {"message_size"})
  <2>1. Typed("message_size", size) /\ "message_size" \in ParserFields
    BY <1>4 DEF Typed, ParserFields
  <2>2. r \in Parsers
    BY <1>8 DEF Steps
  <2> QED
    BY <1>9, <2>1, <2>2, PutFacts
<1>11. /\ Keeps(p, q, {"state", "message_size", "params"})
       /\ q.state = s /\ q.params = list /\ q.message_size = size
  BY <1>8, <1>10 DEF Steps, Keeps, ParserFields
<1> QED
  BY <1>1, <1>3, <1>10, <1>11 DEF StepsNew, q, s, list, size

\* An assignment to the state and the fields of STDIN.
SetStdin(p, s, b, c, m) ==
  [f \in ParserFields |->
     CASE f = "state" -> s [] f = "stdin" -> b [] f = "read_counter" -> c
       [] f = "message_size" -> m [] OTHER -> p[f]]

StepsStdin(p, q, s, b, c, m) ==
  /\ q \in Parsers /\ q.state = s /\ q.stdin = b /\ q.read_counter = c
  /\ q.message_size = m
  /\ Keeps(p, q, {"state", "stdin", "read_counter", "message_size"})

\* The assignments of sl_fcgi_parser_parse_stdin.
LEMMA SetStdinSteps ==
  ASSUME NEW p \in Parsers, NEW s \in States, NEW b \in Bytes, NEW c \in Nat,
         NEW m \in Nat, NEW q, q = SetStdin(p, s, b, c, m)
  PROVE  StepsStdin(p, q, s, b, c, m)
<1>1. q = SetStdin(p, s, b, c, m)
  OBVIOUS
<1>2. /\ q.state = s /\ q.stdin = b /\ q.read_counter = c /\ q.message_size = m
      /\ Keeps(p, q, {"state", "stdin", "read_counter", "message_size"})
  BY <1>1 DEF SetStdin, Keeps, ParserFields
<1>3. \A f \in ParserFields : Typed(f, q[f])
  <2>1. \A f \in ParserFields : Typed(f, p[f])
    BY ParserType
  <2>2. /\ Typed("state", s) /\ Typed("stdin", b) /\ Typed("read_counter", c)
        /\ Typed("message_size", m)
    BY DEF Typed
  <2> QED
    BY <1>2, <2>1, <2>2 DEF Keeps
<1>4. q = [f \in ParserFields |-> q[f]]
  BY <1>1 DEF SetStdin
<1> QED
  BY <1>2, <1>3, <1>4, ParserType DEF StepsStdin

\* The content of STDIN, with the buffer and the counter as they are once the
\* buffer is allocated.
LEMMA StdinSteps ==
  ASSUME NEW p \in Parsers, p.state = "STDIN_DATA", NEW octet \in Octet, NEW ok \in BOOLEAN,
         NEW b \in Bytes, NEW c \in Nat, NEW size \in Nat,
         IF p.stdin = Null
         THEN /\ ok /\ b = Buffer(p.content_length) /\ c = p.content_length
              /\ size = p.message_size + p.content_length
         ELSE b = p.stdin /\ c = p.read_counter /\ size = p.message_size,
         c <= Len(b)
  PROVE  LET q == ParseOctet(p, octet, ok)
             stored == [b EXCEPT ![Len(b) - c + 1] = octet]
         IN  /\ c > 0 => StepsStdin(p, q, "STDIN_DATA", stored, c - 1, size)
             /\ c = 0 /\ p.padding_length = 0 => StepsStdin(p, q, "ERROR", b, c, size)
             /\ c = 0 /\ p.padding_length > 0 =>
                  StepsStdin(p, q, "STDIN_PADDING", b, p.padding_length - 1, size)
<1> DEFINE q == ParseOctet(p, octet, ok)
           stored == [b EXCEPT ![Len(b) - c + 1] = octet]
           r == [p EXCEPT !.stdin = b, !.read_counter = c, !.message_size = size]
<1>1. q = ParseStdin(p, octet, ok)
  BY DEF ParseOctet, HeaderStates, BeginStates, LengthStates, FinalStates
<1>2. /\ "STDIN_DATA" \in States /\ "STDIN_PADDING" \in States /\ "ERROR" \in States
      /\ p.padding_length \in Nat /\ p.message_size \in Nat
  <2> HIDE DEF q, stored, r
  <2>1. p.padding_length \in Octet /\ p.message_size \in Nat
    BY DEF Parsers
  <2>2. "STDIN_DATA" \in States /\ "STDIN_PADDING" \in States /\ "ERROR" \in States
    BY DEF States, DataStates, FinalStates
  <2>3. p.padding_length \in Nat
    BY <2>1, OctetIsNat
  <2> QED
    BY <2>1, <2>2, <2>3
<1>3. q = IF c > 0
          THEN [r EXCEPT !.stdin[Len(b) - c + 1] = octet, !.read_counter = c - 1]
          ELSE IF p.padding_length = 0
               THEN Goto(r, "ERROR")
               ELSE ParsePadding([Goto(r, "STDIN_PADDING")
                                    EXCEPT !.read_counter = p.padding_length])
  <2>1. CASE p.stdin = Null
    BY <1>1, <2>1 DEF ParseStdin
  <2>2. CASE p.stdin # Null
    <3>1. p.message_size + 0 = p.message_size
      BY <1>2
    <3> QED
      BY <1>1, <2>2, <3>1 DEF ParseStdin
  <2> QED
    BY <2>1, <2>2
<1> HIDE DEF q
<1>4. \A s : [r EXCEPT !.state = s] = SetStdin(p, s, b, c, size)
  BY DEF SetStdin, Parsers, ParserFields
<1>5. c > 0 => StepsStdin(p, q, "STDIN_DATA", stored, c - 1, size)
  <2> SUFFICES ASSUME c > 0 PROVE StepsStdin(p, q, "STDIN_DATA", stored, c - 1, size)
    OBVIOUS
  <2>1. stored \in Bytes /\ c - 1 \in Nat
    BY DEF Bytes
  <2> HIDE DEF stored
  <2>2. q = SetStdin(p, "STDIN_DATA", stored, c - 1, size)
    BY <1>3 DEF SetStdin, Parsers, ParserFields, stored
  <2> QED
    BY <1>2, <2>1, <2>2, SetStdinSteps
<1>6. c = 0 /\ p.padding_length = 0 => StepsStdin(p, q, "ERROR", b, c, size)
  <2> SUFFICES ASSUME c = 0, p.padding_length = 0
               PROVE  StepsStdin(p, q, "ERROR", b, c, size)
    OBVIOUS
  <2>1. q = SetStdin(p, "ERROR", b, c, size)
    <3> HIDE DEF r
    <3>1. q = Goto(r, "ERROR")
      BY <1>3
    <3> QED
      BY <1>4, <3>1 DEF Goto
  <2> QED
    BY <1>2, <2>1, SetStdinSteps
<1>7. c = 0 /\ p.padding_length > 0 =>
        StepsStdin(p, q, "STDIN_PADDING", b, p.padding_length - 1, size)
  <2> SUFFICES ASSUME c = 0, p.padding_length > 0
               PROVE  StepsStdin(p, q, "STDIN_PADDING", b, p.padding_length - 1, size)
    OBVIOUS
  <2>1. p.padding_length - 1 \in Nat /\ p.padding_length # 0
    BY <1>2
  <2>2. q = SetStdin(p, "STDIN_PADDING", b, p.padding_length - 1, size)
    <3> DEFINE t == SetStdin(p, "STDIN_PADDING", b, c, size)
    <3>1. Goto(r, "STDIN_PADDING") = t
      BY <1>4 DEF Goto
    <3>2. q = ParsePadding([t EXCEPT !.read_counter = p.padding_length])
      <4> HIDE DEF t, r
      <4> QED
        BY <1>3, <3>1
    <3>3. [t EXCEPT !.read_counter = p.padding_length]
            = SetStdin(p, "STDIN_PADDING", b, p.padding_length, size)
      BY DEF SetStdin, ParserFields
    <3>4. q = ParsePadding(SetStdin(p, "STDIN_PADDING", b, p.padding_length, size))
      BY <3>2, <3>3
    <3> QED
      BY <2>1, <3>4 DEF ParsePadding, Decremented, SetStdin, ParserFields
  <2> QED
    BY <1>2, <2>1, <2>2, SetStdinSteps
<1> QED
  BY <1>5, <1>6, <1>7 DEF q

-----------------------------------------------------------------------------
(***************************************************************************)
(* Buffers are filled in order.                                            *)
(***************************************************************************)

Done(buffer) == buffer # Null /\ Partial(buffer, 0)

Whole(r) == Done(r.name) /\ Done(r.value)

FrontWhole(p) == \A n \in 1 .. Len(p.params) - 1 : Whole(p.params[n])

AllWhole(p) == \A n \in 1 .. Len(p.params) : Whole(p.params[n])

NoParams == HeaderStates \cup BeginStates
            \cup {"NAME_LENGTH_B3", "STDIN_DATA", "STDIN_PADDING"}
InLengths == LengthStates \ {"NAME_LENGTH_B3"}

\* The inductive invariant: which buffers there are in each state, and how far
\* they are filled.
Filling(p) ==
  /\ p.state \in NoParams => p.params = <<>>
  /\ p.state \in HeaderStates => p.stdin = Null
  /\ p.state = "STDIN_DATA" /\ p.stdin # Null => Partial(p.stdin, p.read_counter)
  /\ p.state \in InLengths \cup {"NAME_DATA", "VALUE_DATA"} =>
       p.params # <<>> /\ FrontWhole(p)
  /\ p.state \in InLengths \cup {"NAME_DATA"} => LastParam(p).value = Null
  /\ p.state \in InLengths => LastParam(p).name = Null
  /\ p.state = "NAME_DATA" /\ LastParam(p).name # Null =>
       Partial(LastParam(p).name, p.read_counter)
  /\ p.state = "VALUE_DATA" => Done(LastParam(p).name)
  /\ p.state = "VALUE_DATA" /\ LastParam(p).value # Null =>
       Partial(LastParam(p).value, p.read_counter)
  /\ p.state \in {"PARAM_PADDING", "FINISHED"} => AllWhole(p)

\* One more octet in a buffer.
LEMMA PartialFacts ==
  ASSUME NEW b \in Bytes, NEW c \in 1 .. Len(b), Partial(b, c), NEW octet \in Octet,
         NEW d \in Bytes, Len(d) = Len(b),
         \A n \in 1 .. Len(b) : d[n] = IF n = Len(b) - c + 1 THEN octet ELSE b[n]
  PROVE  Partial(d, c - 1)
<1>1. DOMAIN b = 1 .. Len(b) /\ DOMAIN d = 1 .. Len(b) /\ Len(b) \in Nat
  BY DEF Bytes
<1>2. c - 1 <= Len(d)
  BY <1>1
<1>3. ASSUME NEW n \in 1 .. Len(b)
      PROVE  (d[n] = Unset) <=> (n > Len(d) - (c - 1))
  <2>1. (b[n] = Unset) <=> (n > Len(b) - c)
    BY <1>1 DEF Partial
  <2>2. CASE n = Len(b) - c + 1
    BY <1>1, <2>2, ParserAssumption
  <2>3. CASE n # Len(b) - c + 1
    BY <1>1, <2>1, <2>3
  <2> QED
    BY <2>2, <2>3
<1> QED
  BY <1>1, <1>2, <1>3 DEF Partial

\* A buffer just allocated is filled up to nothing.
LEMMA FreshPartial ==
  ASSUME NEW length \in Nat
  PROVE  Partial(Buffer(length), length)
<1>1. DOMAIN Buffer(length) = 1 .. length
  BY DEF Buffer
<1> QED
  BY <1>1, BufferFacts DEF Partial

\* No buffer is the null pointer.
LEMMA BytesAreNotNull == Null \notin Bytes
  BY ParserAssumption DEF Bytes

\* A buffer that is there is partly filled; this is so once it is allocated.
LEMMA AllocatedPartial ==
  ASSUME NEW p \in Parsers, p.params # <<>>, NEW f \in {"name", "value"},
         NEW length \in Nat,
         LastParam(p)[f] # Null => Partial(LastParam(p)[f], p.read_counter)
  PROVE  LET q == Allocated(p, f, length) IN
           /\ LastParam(q)[f] \in Bytes /\ LastParam(q)[f] # Null
           /\ Partial(LastParam(q)[f], q.read_counter)
<1>1. CASE LastParam(p)[f] # Null
  BY <1>1, AllocatedFacts, LastIsParam, ZenonT(60) DEF Parameters
<1>2. CASE LastParam(p)[f] = Null
  <2> DEFINE q == Allocated(p, f, length)
  <2>1. LastParam(q)[f] = Buffer(length) /\ q.read_counter = length
    BY <1>2, AllocatedFacts
  <2> QED
    BY <2>1, FreshPartial, BufferFacts
<1> QED
  BY <1>1, <1>2

\* An error holds nothing of interest.
LEMMA FillingError ==
  ASSUME NEW p \in Parsers
  PROVE  Goto(p, "ERROR") \in Parsers /\ Filling(Goto(p, "ERROR"))
<1>1. "ERROR" \in States
  BY DEF States, FinalStates
<1>2. Goto(p, "ERROR") \in Parsers /\ Goto(p, "ERROR").state = "ERROR"
  BY <1>1, GotoFacts
<1> QED
  BY <1>2 DEF Filling, NoParams, InLengths, HeaderStates, BeginStates, LengthStates

\* A new pair is begun only when the buffers of the earlier ones are whole.
LEMMA FillingNew ==
  ASSUME NEW p \in Parsers, AllWhole(p), NEW octet \in Octet, NEW ok \in BOOLEAN
  PROVE  NewParam(p, octet, ok) \in Parsers /\ Filling(NewParam(p, octet, ok))
<1> DEFINE q == NewParam(p, octet, TRUE)
<1>1. CASE ~ok
  BY <1>1, NewParamSteps, FillingError
<1>2. StepsNew(p, q, octet)
  BY NewParamSteps
<1> HIDE DEF q
<1>3. q \in Parsers /\ q.state \in InLengths
  BY <1>2 DEF StepsNew, InLengths, LengthStates
<1>4. /\ q.params # <<>> /\ Len(q.params) = Len(p.params) + 1
      /\ LastParam(q) = FreshParam(octet)
      /\ \A n \in 1 .. Len(p.params) : q.params[n] = p.params[n]
  BY <1>2, SMTT(60) DEF StepsNew, Parsers, LastParam
<1>5. FrontWhole(q)
  BY <1>4 DEF FrontWhole, AllWhole, Parsers
<1>6. LastParam(q).name = Null /\ LastParam(q).value = Null
  BY <1>4 DEF FreshParam
<1>7. Filling(q)
  BY <1>3, <1>4, <1>5, <1>6
  DEF Filling, NoParams, InLengths, HeaderStates, BeginStates, LengthStates
<1> QED
  BY <1>1, <1>3, <1>7 DEF q

\* At the end of PARAMS no buffer is being filled.
LEMMA FillingFinished ==
  ASSUME NEW p \in Parsers, p.state \in {"PARAM_PADDING", "FINISHED"}, AllWhole(p)
  PROVE  Filling(p)
BY DEF Filling, NoParams, InLengths, HeaderStates, BeginStates, LengthStates

\* Padding leaves the buffers alone.
LEMMA FillingPadding ==
  ASSUME NEW p \in Parsers, p.state = "PARAM_PADDING", AllWhole(p)
  PROVE  ParsePadding(p) \in Parsers /\ Filling(ParsePadding(p))
<1> DEFINE q == ParsePadding(p)
<1>1. /\ q \in Parsers /\ Keeps(p, q, {"state", "read_counter"})
      /\ q.state \in {"PARAM_PADDING", "FINISHED"}
  BY PaddingFacts
<1> HIDE DEF q
<1>2. AllWhole(q)
  BY <1>1 DEF Keeps, ParserFields, AllWhole
<1> QED
  BY <1>1, <1>2, FillingFinished DEF q

\* The octet after a value, whatever it begins, leaves the buffers in order.
LEMMA FillingEndOfPair ==
  ASSUME NEW p \in Parsers, AllWhole(p), NEW octet \in Octet, NEW ok \in BOOLEAN
  PROVE  EndOfPair(p, octet, ok) \in Parsers /\ Filling(EndOfPair(p, octet, ok))
<1>1. CASE p.message_size # p.content_length
  BY <1>1, FillingNew DEF EndOfPair
<1>2. CASE p.message_size = p.content_length /\ p.padding_length = 0
  <2> DEFINE q == Goto(p, "FINISHED")
  <2>1. "FINISHED" \in States
    BY DEF States, FinalStates
  <2>2. q \in Parsers /\ q.state = "FINISHED" /\ Keeps(p, q, {"state"})
    BY <2>1, GotoFacts
  <2> HIDE DEF q
  <2>3. AllWhole(q)
    BY <2>2 DEF Keeps, ParserFields, AllWhole
  <2> QED
    BY <1>2, <2>2, <2>3, FillingFinished DEF EndOfPair, q
<1>3. CASE p.message_size = p.content_length /\ p.padding_length # 0
  <2> DEFINE q == [Goto(p, "PARAM_PADDING") EXCEPT !.read_counter = p.padding_length]
  <2>1. q = Set(p, "PARAM_PADDING", "read_counter", p.padding_length)
    BY DEF Goto, Set
  <2>2. "PARAM_PADDING" \in States /\ "read_counter" \in ParserFields \ {"state"}
    BY DEF States, DataStates, ParserFields
  <2>3. Typed("read_counter", p.padding_length)
    BY OctetIsNat DEF Typed, Parsers
  <2> HIDE DEF q
  <2>4. Steps(p, q, "PARAM_PADDING", "read_counter", p.padding_length)
    BY <2>1, <2>2, <2>3, SetSteps
  <2>5. q \in Parsers /\ q.state = "PARAM_PADDING" /\ AllWhole(q)
    BY <2>4 DEF Steps, Keeps, ParserFields, AllWhole
  <2>6. EndOfPair(p, octet, ok) = ParsePadding(q)
    BY <1>3 DEF EndOfPair, q
  <2> QED
    BY <2>5, <2>6, FillingPadding
<1> QED
  BY <1>1, <1>2, <1>3

\* An octet of a name or a value is stored.
LEMMA StoredFacts ==
  ASSUME NEW p \in Parsers, p.params # <<>>, NEW f \in {"name", "value"},
         LastParam(p)[f] # Null, Partial(LastParam(p)[f], p.read_counter),
         p.read_counter # 0, NEW octet \in Octet
  PROVE  LET q == StoreLast(p, f, octet) IN
           /\ q \in Parsers /\ q.params # <<>>
           /\ Keeps(p, q, {"params", "read_counter"})
           /\ KeepsFront(p, q) /\ KeepsParam(LastParam(p), LastParam(q), f)
           /\ q.read_counter = p.read_counter - 1
           /\ LastParam(q)[f] # Null /\ Partial(LastParam(q)[f], q.read_counter)
<1> DEFINE q == StoreLast(p, f, octet)
           b == LastParam(p)[f]
<1>1. b \in Bytes
  BY LastIsParam DEF Parameters
<1>2. p.read_counter \in 1 .. Len(b)
  BY <1>1 DEF Parsers, Partial, Bytes
<1>3. PICK d : d = LastParam(q)[f]
  OBVIOUS
<1>4. /\ q \in Parsers /\ q.params # <<>>
      /\ Keeps(p, q, {"params", "read_counter"})
      /\ KeepsFront(p, q) /\ KeepsParam(LastParam(p), LastParam(q), f)
      /\ q.read_counter = p.read_counter - 1
      /\ d \in Bytes /\ Len(d) = Len(b)
      /\ \A n \in 1 .. Len(b) :
           d[n] = IF n = Len(b) - p.read_counter + 1 THEN octet ELSE b[n]
  BY <1>2, <1>3, StoreLastFacts
<1> HIDE DEF q
<1>5. Partial(d, p.read_counter - 1)
  BY <1>1, <1>2, <1>4, PartialFacts
<1> QED
  BY <1>3, <1>4, <1>5, BytesAreNotNull DEF q

\* Buffers of earlier parameters stay whole when only the last one changes.
LEMMA FrontFacts ==
  ASSUME NEW p \in Parsers, NEW q \in Parsers, KeepsFront(p, q), FrontWhole(p)
  PROVE  FrontWhole(q)
  BY DEF KeepsFront, FrontWhole

\* All the buffers are whole when the last parameter's are.
LEMMA FrontAndLast ==
  ASSUME NEW p \in Parsers, p.params # <<>>, FrontWhole(p), Whole(LastParam(p))
  PROVE  AllWhole(p)
<1>1. Len(p.params) \in Nat \ {0}
  BY LastIsParam
<1>2. \A n \in 1 .. Len(p.params) : n = Len(p.params) \/ n \in 1 .. Len(p.params) - 1
  BY <1>1
<1> QED
  BY <1>2 DEF FrontWhole, AllWhole, LastParam

\* An octet in VALUE_DATA leaves the buffers filled in order.
LEMMA FillingValue ==
  ASSUME NEW p \in Parsers, p.state = "VALUE_DATA", Filling(p),
         NEW octet \in Octet, NEW ok \in BOOLEAN
  PROVE  ValueData(p, octet, ok) \in Parsers /\ Filling(ValueData(p, octet, ok))
<1> DEFINE length == LastParam(p).value_length
           q == Allocated(p, "value", length)
<1>1. /\ p.params # <<>> /\ FrontWhole(p) /\ Done(LastParam(p).name)
      /\ LastParam(p).value # Null => Partial(LastParam(p).value, p.read_counter)
  BY DEF Filling
<1>2. length \in Nat
  BY <1>1, LastIsParam DEF Parameters
<1>3. /\ LastParam(q)["value"] \in Bytes /\ LastParam(q)["value"] # Null
      /\ Partial(LastParam(q)["value"], q.read_counter)
  <2> HIDE DEF length
  <2> QED
    BY <1>1, <1>2, AllocatedPartial
<1>4. /\ q \in Parsers /\ q.params # <<>> /\ q.state = "VALUE_DATA"
      /\ FrontWhole(q) /\ Done(LastParam(q).name)
  <2> HIDE DEF length
  <2>1. CASE LastParam(p).value # Null
    BY <1>1, <1>2, <2>1, AllocatedFacts
  <2>2. CASE LastParam(p).value = Null
    <3>1. /\ q \in Parsers /\ q.params # <<>>
          /\ Keeps(p, q, {"params", "read_counter", "message_size"})
          /\ KeepsFront(p, q) /\ KeepsParam(LastParam(p), LastParam(q), "value")
      BY <1>1, <1>2, <2>2, AllocatedFacts
    <3> HIDE DEF q
    <3> QED
      BY <1>1, <3>1, FrontFacts DEF Keeps, ParserFields, KeepsParam, ParameterFields
  <2> QED
    BY <2>1, <2>2
<1>5. CASE LastParam(p).value = Null /\ ~ok
  BY <1>5, FillingError DEF ValueData
<1>6. CASE ~(LastParam(p).value = Null /\ ~ok) /\ q.read_counter = 0
  <2>1. AllWhole(q)
    <3> HIDE DEF q
    <3> QED
      BY <1>3, <1>4, <1>6, FrontAndLast DEF Whole, Done
  <2>2. ValueData(p, octet, ok) = EndOfPair(q, octet, ok)
    BY <1>6 DEF ValueData
  <2> QED
    BY <1>4, <2>1, <2>2, FillingEndOfPair
<1>7. CASE ~(LastParam(p).value = Null /\ ~ok) /\ q.read_counter # 0
  <2> DEFINE r == StoreLast(q, "value", octet)
  <2>1. ValueData(p, octet, ok) = r
    BY <1>7 DEF ValueData
  <2> HIDE DEF q
  <2>2. /\ r \in Parsers /\ r.params # <<>>
        /\ Keeps(q, r, {"params", "read_counter"})
        /\ KeepsFront(q, r) /\ KeepsParam(LastParam(q), LastParam(r), "value")
        /\ LastParam(r)["value"] # Null /\ Partial(LastParam(r)["value"], r.read_counter)
    BY <1>3, <1>4, <1>7, StoredFacts
  <2> HIDE DEF r
  <2>3. r.state = "VALUE_DATA" /\ FrontWhole(r) /\ Done(LastParam(r).name)
    BY <1>4, <2>2, FrontFacts DEF Keeps, ParserFields, KeepsParam, ParameterFields
  <2>4. Filling(r)
    BY <2>2, <2>3
    DEF Filling, NoParams, InLengths, HeaderStates, BeginStates, LengthStates
  <2> QED
    BY <2>1, <2>2, <2>4
<1> QED
  BY <1>5, <1>6, <1>7

\* An octet in NAME_DATA leaves the buffers filled in order.
LEMMA FillingName ==
  ASSUME NEW p \in Parsers, p.state = "NAME_DATA", Filling(p),
         NEW octet \in Octet, NEW ok \in BOOLEAN
  PROVE  NameData(p, octet, ok) \in Parsers /\ Filling(NameData(p, octet, ok))
<1> DEFINE length == LastParam(p).name_length
           q == Allocated(p, "name", length)
<1>1. /\ p.params # <<>> /\ FrontWhole(p) /\ LastParam(p).value = Null
      /\ LastParam(p).name # Null => Partial(LastParam(p).name, p.read_counter)
  BY DEF Filling
<1>2. length \in Nat
  BY <1>1, LastIsParam DEF Parameters
<1>3. /\ LastParam(q)["name"] \in Bytes /\ LastParam(q)["name"] # Null
      /\ Partial(LastParam(q)["name"], q.read_counter)
  <2> HIDE DEF length
  <2> QED
    BY <1>1, <1>2, AllocatedPartial
<1>4. /\ q \in Parsers /\ q.params # <<>> /\ q.state = "NAME_DATA"
      /\ FrontWhole(q) /\ LastParam(q).value = Null
  <2> HIDE DEF length
  <2>1. CASE LastParam(p).name # Null
    BY <1>1, <1>2, <2>1, AllocatedFacts
  <2>2. CASE LastParam(p).name = Null
    <3>1. /\ q \in Parsers /\ q.params # <<>>
          /\ Keeps(p, q, {"params", "read_counter", "message_size"})
          /\ KeepsFront(p, q) /\ KeepsParam(LastParam(p), LastParam(q), "name")
      BY <1>1, <1>2, <2>2, AllocatedFacts
    <3> HIDE DEF q
    <3> QED
      BY <1>1, <3>1, FrontFacts DEF Keeps, ParserFields, KeepsParam, ParameterFields
  <2> QED
    BY <2>1, <2>2
<1>5. CASE LastParam(p).name = Null /\ ~ok
  BY <1>5, FillingError DEF NameData
<1>6. CASE ~(LastParam(p).name = Null /\ ~ok) /\ q.read_counter = 0
  <2> DEFINE r == Goto(q, "VALUE_DATA")
  <2>1. NameData(p, octet, ok) = ValueData(r, octet, ok)
    BY <1>6 DEF NameData
  <2> HIDE DEF q
  <2>2. r \in Parsers /\ r.state = "VALUE_DATA" /\ Keeps(q, r, {"state"})
    <3>1. "VALUE_DATA" \in States
      BY DEF States, DataStates
    <3> QED
      BY <1>4, <3>1, GotoFacts
  <2> HIDE DEF r
  <2>3. r.params = q.params
    BY <2>2 DEF Keeps, ParserFields
  <2>4. /\ r.params # <<>> /\ FrontWhole(r) /\ LastParam(r).value = Null
        /\ Done(LastParam(r).name)
    BY <1>3, <1>4, <1>6, <2>3 DEF FrontWhole, LastParam, Done
  <2>5. Filling(r)
    BY <2>2, <2>4
    DEF Filling, NoParams, InLengths, HeaderStates, BeginStates, LengthStates
  <2> QED
    BY <2>1, <2>2, <2>5, FillingValue
<1>7. CASE ~(LastParam(p).name = Null /\ ~ok) /\ q.read_counter # 0
  <2> DEFINE r == StoreLast(q, "name", octet)
  <2>1. NameData(p, octet, ok) = r
    BY <1>7 DEF NameData
  <2> HIDE DEF q
  <2>2. /\ r \in Parsers /\ r.params # <<>>
        /\ Keeps(q, r, {"params", "read_counter"})
        /\ KeepsFront(q, r) /\ KeepsParam(LastParam(q), LastParam(r), "name")
        /\ LastParam(r)["name"] # Null /\ Partial(LastParam(r)["name"], r.read_counter)
    BY <1>3, <1>4, <1>7, StoredFacts
  <2> HIDE DEF r
  <2>3. r.state = "NAME_DATA" /\ FrontWhole(r) /\ LastParam(r).value = Null
    BY <1>4, <2>2, FrontFacts DEF Keeps, ParserFields, KeepsParam, ParameterFields
  <2>4. Filling(r)
    BY <2>2, <2>3
    DEF Filling, NoParams, InLengths, HeaderStates, BeginStates, LengthStates
  <2> QED
    BY <2>1, <2>2, <2>4
<1> QED
  BY <1>5, <1>6, <1>7

\* An octet in STDIN_DATA leaves the buffers filled in order.
LEMMA FillingStdin ==
  ASSUME NEW p \in Parsers, p.state = "STDIN_DATA", Filling(p),
         NEW octet \in Octet, NEW ok \in BOOLEAN
  PROVE  ParseOctet(p, octet, ok) \in Parsers /\ Filling(ParseOctet(p, octet, ok))
<1> DEFINE q == ParseOctet(p, octet, ok)
<1>1. p.params = <<>> /\ (p.stdin # Null => Partial(p.stdin, p.read_counter))
  BY DEF Filling, NoParams
<1>2. CASE p.stdin = Null /\ ~ok
  <2>1. q = ParseStdin(p, octet, ok)
    BY DEF ParseOctet, HeaderStates, BeginStates, LengthStates, FinalStates
  <2>2. q = Goto(p, "ERROR")
    BY <1>2, <2>1 DEF ParseStdin
  <2> QED
    BY <2>2, FillingError
<1>3. CASE p.stdin # Null \/ ok
  <2>1. PICK b, c, size :
          IF p.stdin = Null
          THEN /\ ok /\ b = Buffer(p.content_length) /\ c = p.content_length
               /\ size = p.message_size + p.content_length
          ELSE b = p.stdin /\ c = p.read_counter /\ size = p.message_size
    BY <1>3
  <2>2. b \in Bytes /\ c \in Nat /\ size \in Nat /\ Partial(b, c) /\ c <= Len(b)
    <3>1. /\ p.content_length \in Nat /\ p.read_counter \in Nat /\ p.message_size \in Nat
          /\ p.stdin \in Bytes \cup {Null}
      BY DEF Parsers
    <3>2. p.message_size + p.content_length \in Nat
      BY <3>1
    <3>3. b \in Bytes /\ c \in Nat /\ size \in Nat /\ Partial(b, c)
      BY <1>1, <2>1, <3>1, <3>2, BufferFacts, FreshPartial
    <3> QED
      BY <3>3 DEF Partial
  <2> DEFINE stored == [b EXCEPT ![Len(b) - c + 1] = octet]
  <2>3. /\ c > 0 => StepsStdin(p, q, "STDIN_DATA", stored, c - 1, size)
        /\ c = 0 /\ p.padding_length = 0 => StepsStdin(p, q, "ERROR", b, c, size)
        /\ c = 0 /\ p.padding_length > 0 =>
             StepsStdin(p, q, "STDIN_PADDING", b, p.padding_length - 1, size)
    BY <2>1, <2>2, StdinSteps
  <2> HIDE DEF q
  <2>4. CASE c > 0
    <3>1. /\ stored \in Bytes /\ Len(stored) = Len(b) /\ c \in 1 .. Len(b)
          /\ \A n \in 1 .. Len(b) : stored[n] = IF n = Len(b) - c + 1 THEN octet ELSE b[n]
      BY <2>2, <2>4 DEF Bytes
    <3> HIDE DEF stored
    <3>2. Partial(stored, c - 1)
      BY <2>2, <3>1, PartialFacts
    <3>3. /\ q \in Parsers /\ q.state = "STDIN_DATA" /\ q.params = <<>>
          /\ Partial(q.stdin, q.read_counter)
      BY <1>1, <2>3, <2>4, <3>2 DEF StepsStdin, Keeps, ParserFields
    <3> QED
      BY <3>3 DEF Filling, InLengths, HeaderStates, LengthStates, q
  <2>5. CASE c = 0
    <3>1. p.padding_length = 0 \/ p.padding_length > 0
      <4>1. p.padding_length \in Nat
        BY OctetIsNat DEF Parsers
      <4> QED
        BY <4>1
    <3>2. /\ q \in Parsers /\ q.state \in {"ERROR", "STDIN_PADDING"} /\ q.params = <<>>
      BY <1>1, <2>3, <2>5, <3>1 DEF StepsStdin, Keeps, ParserFields
    <3> QED
      BY <3>2 DEF Filling, InLengths, HeaderStates, LengthStates, q
  <2> QED
    BY <2>2, <2>4, <2>5
<1> QED
  BY <1>2, <1>3

\* An octet of a length touches no buffer.
LEMMA FillingLength ==
  ASSUME NEW p \in Parsers, p.state \in InLengths, Filling(p),
         NEW octet \in Octet, NEW ok \in BOOLEAN
  PROVE  ParseOctet(p, octet, ok) \in Parsers /\ Filling(ParseOctet(p, octet, ok))
<1> DEFINE q == ParseOctet(p, octet, ok)
<1>1. /\ p.params # <<>> /\ FrontWhole(p)
      /\ LastParam(p).name = Null /\ LastParam(p).value = Null
  BY DEF Filling
<1>2. octet >= 128 \/ octet < 128
  BY DEF Octet
<1>3. PICK s, size, f, n : LengthStep(p, octet, s, size, f, n)
  <2>1. p.state = "NAME_LENGTH_B2" =>
         LengthStep(p, octet, "NAME_LENGTH_B1", 0, "name_length", octet * 65536)
    BY SMT DEF LengthStep
  <2>2. p.state = "NAME_LENGTH_B1" =>
         LengthStep(p, octet, "NAME_LENGTH_B0", 0, "name_length", octet * 256)
    BY SMT DEF LengthStep
  <2>3. p.state = "NAME_LENGTH_B0" =>
         LengthStep(p, octet, "VALUE_LENGTH_B3", 0, "name_length", octet)
    BY SMT DEF LengthStep
  <2>4. p.state = "VALUE_LENGTH_B2" =>
         LengthStep(p, octet, "VALUE_LENGTH_B1", 0, "value_length", octet * 65536)
    BY SMT DEF LengthStep
  <2>5. p.state = "VALUE_LENGTH_B1" =>
         LengthStep(p, octet, "VALUE_LENGTH_B0", 0, "value_length", octet * 256)
    BY SMT DEF LengthStep
  <2>6. p.state = "VALUE_LENGTH_B0" =>
         LengthStep(p, octet, "NAME_DATA", 0, "value_length", octet)
    BY SMT DEF LengthStep
  <2>7. p.state = "VALUE_LENGTH_B3" /\ octet >= 128 =>
         LengthStep(p, octet, "VALUE_LENGTH_B2", 4, "value_length", (octet % 128) * 16777216)
    BY SMT DEF LengthStep
  <2>8. p.state = "VALUE_LENGTH_B3" /\ octet < 128 =>
         LengthStep(p, octet, "NAME_DATA", 1, "value_length", octet)
    BY SMT DEF LengthStep
  <2> QED
    BY <1>2, <2>1, <2>2, <2>3, <2>4, <2>5, <2>6, <2>7, <2>8, SMT DEF InLengths, LengthStates
<1>4. StepsPair(p, q, s, p.message_size + size, f, LastParam(p)[f] + n)
  BY <1>1, <1>3, LengthSteps
<1>5. f \in {"name_length", "value_length"} /\ s \in InLengths \cup {"NAME_DATA"}
  BY <1>3 DEF LengthStep, InLengths, LengthStates
<1> HIDE DEF q
<1>6. /\ q \in Parsers /\ q.state = s /\ q.params # <<>> /\ FrontWhole(q)
      /\ LastParam(q).name = Null /\ LastParam(q).value = Null
  BY <1>1, <1>4, <1>5, FrontFacts DEF StepsPair, KeepsParam, ParameterFields
<1>7. Filling(q)
  BY <1>5, <1>6
  DEF Filling, NoParams, InLengths, HeaderStates, BeginStates, LengthStates
<1> QED
  BY <1>6, <1>7 DEF q

\* An octet of a header touches no buffer.
LEMMA FillingHeader ==
  ASSUME NEW p \in Parsers, p.state \in HeaderStates, Filling(p),
         NEW octet \in Octet, NEW ok \in BOOLEAN
  PROVE  ParseOctet(p, octet, ok) \in Parsers /\ Filling(ParseOctet(p, octet, ok))
<1> DEFINE q == ParseOctet(p, octet, ok)
<1>1. p.params = <<>> /\ p.stdin = Null
  BY DEF Filling, NoParams
<1>2. AfterHeader(p) \in {"FINISHED", "ERROR", "BEGIN_ROLE_B1", "NAME_LENGTH_B3", "STDIN_DATA"}
  BY DEF AfterHeader, DispatchType
<1>3. /\ q \in Parsers /\ q.params = p.params /\ q.stdin = p.stdin
      /\ q.state \in HeaderStates
           \cup {"FINISHED", "ERROR", "BEGIN_ROLE_B1", "NAME_LENGTH_B3", "STDIN_DATA"}
  <2> HIDE DEF q
  <2>1. /\ p.state = "VERSION" => Goes(p, q, "TYPE")
        /\ p.state = "TYPE" => Steps(p, q, "REQUEST_ID_B1", "type", octet)
        /\ p.state = "REQUEST_ID_B1" =>
             Steps(p, q, "REQUEST_ID_B0", "request_id", octet * 256)
        /\ p.state = "REQUEST_ID_B0" =>
             Steps(p, q, "CONTENT_LENGTH_B1", "request_id", p.request_id + octet)
        /\ p.state = "CONTENT_LENGTH_B1" =>
             Steps(p, q, "CONTENT_LENGTH_B0", "content_length", octet * 256)
        /\ p.state = "CONTENT_LENGTH_B0" =>
             Steps(p, q, "PADDING_LENGTH", "content_length", p.content_length + octet)
        /\ p.state = "PADDING_LENGTH" =>
             Steps(p, q, "PADDING_RESERVED", "padding_length", octet)
        /\ p.state = "PADDING_RESERVED" => Goes(p, q, AfterHeader(p))
    BY HeaderSteps DEF q
  <2> QED
    BY <1>2, <2>1 DEF Goes, Steps, Keeps, ParserFields, HeaderStates
<1> HIDE DEF q
<1>4. q.state \in {"FINISHED"} => AllWhole(q)
  BY <1>1, <1>3 DEF AllWhole
<1>5. Filling(q)
  BY <1>1, <1>3, <1>4
  DEF Filling, NoParams, InLengths, HeaderStates, BeginStates, LengthStates
<1> QED
  BY <1>3, <1>5 DEF q

\* An octet of the body of BEGIN_REQUEST touches no buffer.
LEMMA FillingBegin ==
  ASSUME NEW p \in Parsers, p.state \in BeginStates, Filling(p),
         NEW octet \in Octet, NEW ok \in BOOLEAN
  PROVE  ParseOctet(p, octet, ok) \in Parsers /\ Filling(ParseOctet(p, octet, ok))
<1> DEFINE q == ParseOctet(p, octet, ok)
<1>1. p.params = <<>>
  BY DEF Filling, NoParams
<1>2. /\ q \in Parsers /\ q.params = p.params
      /\ q.state \in BeginStates \cup {"FINISHED"}
  <2> HIDE DEF q
  <2>1. /\ p.state = "BEGIN_ROLE_B1" => Steps(p, q, "BEGIN_ROLE_B0", "role", octet * 256)
        /\ p.state = "BEGIN_ROLE_B0" => Steps(p, q, "BEGIN_FLAGS", "role", p.role + octet)
        /\ p.state = "BEGIN_FLAGS" => Steps(p, q, "BEGIN_SKIP5", "flags", octet)
        /\ p.state = "BEGIN_SKIP5" => Goes(p, q, "BEGIN_SKIP4")
        /\ p.state = "BEGIN_SKIP4" => Goes(p, q, "BEGIN_SKIP3")
        /\ p.state = "BEGIN_SKIP3" => Goes(p, q, "BEGIN_SKIP2")
        /\ p.state = "BEGIN_SKIP2" => Goes(p, q, "BEGIN_SKIP1")
        /\ p.state = "BEGIN_SKIP1" => Steps(p, q, "FINISHED", "message_size", 16)
    BY BeginSteps DEF q
  <2> QED
    BY <2>1 DEF Goes, Steps, Keeps, ParserFields, BeginStates
<1> HIDE DEF q
<1>3. AllWhole(q)
  BY <1>1, <1>2 DEF AllWhole
<1>4. Filling(q)
  BY <1>1, <1>2, <1>3
  DEF Filling, NoParams, InLengths, HeaderStates, BeginStates, LengthStates
<1> QED
  BY <1>2, <1>4 DEF q

\* Whatever octet comes, and whether or not there is memory for it.
LEMMA FillingKept ==
  ASSUME NEW p \in Parsers, Filling(p), NEW octet \in Octet, NEW ok \in BOOLEAN
  PROVE  ParseOctet(p, octet, ok) \in Parsers /\ Filling(ParseOctet(p, octet, ok))
<1> USE DEF HeaderStates, BeginStates, LengthStates, FinalStates
<1>1. CASE p.state \in HeaderStates
  BY <1>1, FillingHeader
<1>2. CASE p.state \in BeginStates
  BY <1>2, FillingBegin
<1>3. CASE p.state = "NAME_LENGTH_B3"
  <2>1. AllWhole(p)
    BY <1>3 DEF Filling, NoParams, AllWhole
  <2>2. ParseOctet(p, octet, ok) = NewParam(p, octet, ok)
    BY <1>3 DEF ParseOctet, ParseParams
  <2> QED
    BY <2>1, <2>2, FillingNew
<1>4. CASE p.state \in InLengths
  BY <1>4, FillingLength
<1>5. CASE p.state = "NAME_DATA"
  <2>1. ParseOctet(p, octet, ok) = NameData(p, octet, ok)
    BY <1>5 DEF ParseOctet, ParseParams
  <2> QED
    BY <1>5, <2>1, FillingName
<1>6. CASE p.state = "VALUE_DATA"
  <2>1. ParseOctet(p, octet, ok) = ValueData(p, octet, ok)
    BY <1>6 DEF ParseOctet, ParseParams
  <2> QED
    BY <1>6, <2>1, FillingValue
<1>7. CASE p.state = "PARAM_PADDING"
  <2>1. ParseOctet(p, octet, ok) = ParsePadding(p)
    BY <1>7 DEF ParseOctet, ParseParams
  <2> QED
    BY <1>7, <2>1, FillingPadding DEF Filling
<1>8. CASE p.state = "STDIN_DATA"
  BY <1>8, FillingStdin
<1>9. CASE p.state = "STDIN_PADDING"
  <2> DEFINE q == ParsePadding(p)
  <2>1. ParseOctet(p, octet, ok) = q
    BY <1>9 DEF ParseOctet, ParseStdin
  <2>2. /\ q \in Parsers /\ Keeps(p, q, {"state", "read_counter"})
        /\ q.state \in {"STDIN_PADDING", "FINISHED"}
    BY <1>9, PaddingFacts
  <2> HIDE DEF q
  <2>3. q.params = <<>>
    BY <1>9, <2>2 DEF Filling, NoParams, Keeps, ParserFields
  <2>4. AllWhole(q)
    BY <2>3 DEF AllWhole
  <2>5. Filling(q)
    BY <2>2, <2>3, <2>4 DEF Filling, NoParams, InLengths
  <2> QED
    BY <2>1, <2>2, <2>5
<1>10. CASE p.state \in FinalStates
  <2>1. ParseOctet(p, octet, ok) = p
    BY <1>10 DEF ParseOctet
  <2> QED
    BY <2>1
<1> QED
  BY <1>1, <1>2, <1>3, <1>4, <1>5, <1>6, <1>7, <1>8, <1>9, <1>10
  DEF Parsers, States, DataStates, InLengths

\* The parser sl_fcgi_parser_init makes has no buffer yet.
LEMMA NewParser == ParserInit \in Parsers /\ Filling(ParserInit)
<1>1. 0 \in Octet
  BY DEF Octet
<1>2. ParserInit \in Parsers
  BY <1>1 DEF ParserInit, Parsers, States, HeaderStates
<1>3. Filling(ParserInit)
  BY DEF ParserInit, Filling, InLengths, HeaderStates, LengthStates
<1> QED
  BY <1>2, <1>3

-----------------------------------------------------------------------------
(***************************************************************************)
(* Recursive functions over sequences.                                     *)
(***************************************************************************)

\* Induction over the natural numbers for a set.
LEMMA SetInduction ==
  ASSUME NEW S, 0 \in S, \A n \in Nat : n \in S => n + 1 \in S
  PROVE  Nat \subseteq S
<1> DEFINE T == {n \in Nat : n \notin S}
<1>1. ASSUME T # {}
      PROVE  FALSE
  <2>1. PICK x \in T : \A y \in T : ~(<<y, x>> \in OpToRel(<, Nat))
    BY <1>1, NatLessThanWellFounded, WFMin
  <2>2. x \in Nat /\ x # 0 /\ x - 1 \in Nat /\ x - 1 < x
    OBVIOUS
  <2>3. <<x - 1, x>> \in OpToRel(<, Nat)
    BY <2>2 DEF OpToRel
  <2>4. x - 1 \in S
    BY <2>1, <2>2, <2>3
  <2> QED
    BY <2>2, <2>4
<1> QED
  BY <1>1

-----------------------------------------------------------------------------

\* s \o t by a name of its own: what follows is about nothing more than these
\* facts.
Cat(s, t) == s \o t

\* Cat joins sequences over one set.
LEMMA CatType ==
  ASSUME NEW S, NEW s \in Seq(S), NEW t \in Seq(S)
  PROVE  Cat(s, t) \in Seq(S)
  BY DEF Cat

\* Where the elements of two joined sequences are.
LEMMA CatProperties ==
  ASSUME NEW S, NEW s \in Seq(S), NEW t \in Seq(S)
  PROVE  /\ Cat(s, t) \in Seq(S)
         /\ Len(s) \in Nat /\ Len(t) \in Nat
         /\ Len(Cat(s, t)) = Len(s) + Len(t)
         /\ \A i \in 1 .. Len(s) : Cat(s, t)[i] = s[i]
         /\ \A i \in 1 .. Len(t) : Cat(s, t)[Len(s) + i] = t[i]
  BY DEF Cat

\* The function that FlattenSeq chooses.
IsFlatten(g, ss) ==
  g = [i \in 1 .. Len(ss) |-> IF i = 1 THEN ss[i] ELSE Cat(g[i - 1], ss[i])]

Flatten(ss) == CHOOSE g : IsFlatten(g, ss)

\* FlattenSeq unfolded to the choice in its definition.
LEMMA FlattenIsChosen ==
  ASSUME NEW ss, Len(ss) # 0
  PROVE  FlattenSeq(ss) = Flatten(ss)[Len(ss)]
  BY DEF FlattenSeq, Flatten, IsFlatten, Cat

\* The equation up to a place.
Obeys(g, ss, n) ==
  \A i \in 1 .. n : g[i] = IF i = 1 THEN ss[i] ELSE Cat(g[i - 1], ss[i])

\* Some function satisfies it, up to any place.
LEMMA FlattenExistsTo ==
  ASSUME NEW S, NEW ss \in Seq(Seq(S))
  PROVE  \A n \in Nat : n <= Len(ss) => \E g \in [1 .. n -> Seq(S)] : Obeys(g, ss, n)
<1> DEFINE T == {n \in Nat :
                   n <= Len(ss) => \E g \in [1 .. n -> Seq(S)] : Obeys(g, ss, n)}
<1>1. 0 \in T
  <2> DEFINE g == [i \in 1 .. 0 |-> <<>>]
  <2>1. g \in [1 .. 0 -> Seq(S)] /\ Obeys(g, ss, 0)
    BY DEF Obeys
  <2> QED
    BY <2>1
<1>2. ASSUME NEW n \in Nat, n \in T
      PROVE  n + 1 \in T
  <2> SUFFICES ASSUME n + 1 <= Len(ss)
               PROVE  \E g \in [1 .. n + 1 -> Seq(S)] : Obeys(g, ss, n + 1)
    OBVIOUS
  <2>1. n <= Len(ss) /\ n + 1 \in 1 .. Len(ss)
    OBVIOUS
  <2>2. PICK g \in [1 .. n -> Seq(S)] : Obeys(g, ss, n)
    BY <1>2, <2>1
  <2> DEFINE last == IF n = 0 THEN ss[1] ELSE Cat(g[n], ss[n + 1])
             h == [i \in 1 .. n + 1 |-> IF i <= n THEN g[i] ELSE last]
  <2>3. ss[n + 1] \in Seq(S)
    BY <2>1
  <2>4. last \in Seq(S)
    <3>1. n # 0 => g[n] \in Seq(S)
      OBVIOUS
    <3>2. n # 0 => Cat(g[n], ss[n + 1]) \in Seq(S)
      BY <2>3, <3>1, CatType, Zenon
    <3> QED
      BY <2>3, <3>2
  <2>5. h \in [1 .. n + 1 -> Seq(S)]
    BY <2>4
  <2>6. ASSUME NEW i \in 1 .. n + 1
        PROVE  h[i] = IF i = 1 THEN ss[i] ELSE Cat(h[i - 1], ss[i])
    <3>1. CASE i <= n
      <4>1. h[i] = g[i] /\ (i # 1 => h[i - 1] = g[i - 1])
        BY <3>1
      <4>2. g[i] = IF i = 1 THEN ss[i] ELSE Cat(g[i - 1], ss[i])
        <5>1. i \in 1 .. n
          BY <3>1
        <5> QED
          BY <2>2, <5>1, Zenon DEF Obeys
      <4> HIDE DEF h
      <4> QED
        BY <4>1, <4>2
    <3>2. CASE i = n + 1
      BY <3>2
    <3> QED
      BY <3>1, <3>2
  <2>7. Obeys(h, ss, n + 1)
    BY <2>6 DEF Obeys
  <2> HIDE DEF h
  <2> QED
    BY <2>5, <2>7
<1> HIDE DEF T
<1>3. Nat \subseteq T
  BY <1>1, <1>2, SetInduction
<1> QED
  BY <1>3 DEF T

\* So the one that is chosen satisfies the equation.
LEMMA FlattenEquation ==
  ASSUME NEW S, NEW ss \in Seq(Seq(S))
  PROVE  /\ Flatten(ss) \in [1 .. Len(ss) -> Seq(S)]
         /\ Obeys(Flatten(ss), ss, Len(ss))
<1>1. Len(ss) \in Nat /\ Len(ss) <= Len(ss)
  OBVIOUS
<1>2. PICK g \in [1 .. Len(ss) -> Seq(S)] : Obeys(g, ss, Len(ss))
  BY <1>1, FlattenExistsTo
<1>3. IsFlatten(g, ss)
  BY <1>2 DEF IsFlatten, Obeys
<1>4. IsFlatten(Flatten(ss), ss)
  BY <1>3 DEF Flatten
<1> DEFINE f == Flatten(ss)
<1> HIDE DEF f
<1>5. Obeys(f, ss, Len(ss))
  BY <1>4 DEF IsFlatten, f, Obeys
<1>6. f = [i \in 1 .. Len(ss) |-> f[i]]
  BY <1>4 DEF IsFlatten, f
<1> DEFINE T == {n \in Nat : n \in 1 .. Len(ss) => f[n] \in Seq(S)}
<1>7. ASSUME NEW n \in Nat, n \in T
      PROVE  n + 1 \in T
  <2> SUFFICES ASSUME n + 1 \in 1 .. Len(ss)
               PROVE  f[n + 1] \in Seq(S)
    OBVIOUS
  <2>1. ss[n + 1] \in Seq(S)
    OBVIOUS
  <2>2. CASE n = 0
    BY <1>5, <2>1, <2>2 DEF Obeys
  <2>3. CASE n # 0
    <3>1. f[n] \in Seq(S)
      BY <1>7, <1>1, <2>3
    <3>2. f[n + 1] = Cat(f[(n + 1) - 1], ss[n + 1])
      <4>1. n + 1 \in 1 .. Len(ss) /\ n + 1 # 1
        BY <2>3
      <4> QED
        BY <1>5, <4>1, Zenon DEF Obeys
    <3>3. (n + 1) - 1 = n
      OBVIOUS
    <3>4. Cat(f[n], ss[n + 1]) \in Seq(S)
      BY <2>1, <3>1, CatType, Zenon
    <3> QED
      BY <3>2, <3>3, <3>4
  <2> QED
    BY <2>2, <2>3
<1>8. Nat \subseteq T
  <2>1. 0 \in T
    OBVIOUS
  <2> HIDE DEF T
  <2> QED
    BY <1>7, <2>1, SetInduction
<1>9. \A i \in 1 .. Len(ss) : f[i] \in Seq(S)
  BY <1>8
<1>10. f \in [1 .. Len(ss) -> Seq(S)]
  BY <1>6, <1>9
<1> QED
  BY <1>5, <1>10 DEF f

\* Without the IF.
LEMMA FlattenSteps ==
  ASSUME NEW S, NEW ss \in Seq(Seq(S))
  PROVE  /\ Len(ss) > 0 => Flatten(ss)[1] = ss[1]
         /\ \A n \in 1 .. Len(ss) - 1 : Flatten(ss)[n + 1] = Cat(Flatten(ss)[n], ss[n + 1])
<1> DEFINE f == Flatten(ss)
<1>1. Obeys(f, ss, Len(ss))
  BY FlattenEquation
<1> HIDE DEF f
<1>2. Len(ss) > 0 => f[1] = ss[1]
  <2>1. Len(ss) > 0 => 1 \in 1 .. Len(ss)
    OBVIOUS
  <2> QED
    BY <1>1, <2>1, Zenon DEF Obeys
<1>3. ASSUME NEW n \in 1 .. Len(ss) - 1
      PROVE  f[n + 1] = Cat(f[n], ss[n + 1])
  <2>1. n + 1 \in 1 .. Len(ss) /\ n + 1 # 1 /\ (n + 1) - 1 = n
    OBVIOUS
  <2>2. f[n + 1] = Cat(f[(n + 1) - 1], ss[n + 1])
    BY <1>1, <2>1, Zenon DEF Obeys
  <2> QED
    BY <2>1, <2>2
<1> QED
  BY <1>2, <1>3 DEF f

\* The start of a sequence of sequences flattens to the start of the result.
LEMMA FlattenStart ==
  ASSUME NEW S, NEW ss \in Seq(Seq(S)), NEW n \in 1 .. Len(ss)
  PROVE  FlattenSeq(SubSeq(ss, 1, n)) = Flatten(ss)[n]
<1> DEFINE ts == SubSeq(ss, 1, n)
           f == Flatten(ss)
           g == Flatten(ts)
<1>1. /\ ts \in Seq(Seq(S)) /\ Len(ts) = n /\ n \in Nat /\ n # 0 /\ n <= Len(ss)
      /\ \A i \in 1 .. n : ts[i] = ss[i]
  OBVIOUS
<1>2. FlattenSeq(ts) = g[n]
  BY <1>1, FlattenIsChosen
<1>3. f[1] = ss[1] /\ \A i \in 1 .. Len(ss) - 1 : f[i + 1] = Cat(f[i], ss[i + 1])
  BY FlattenSteps
<1>4. g[1] = ss[1] /\ \A i \in 1 .. n - 1 : g[i + 1] = Cat(g[i], ts[i + 1])
  <2>1. /\ Len(ts) > 0 => g[1] = ts[1]
        /\ \A i \in 1 .. Len(ts) - 1 : g[i + 1] = Cat(g[i], ts[i + 1])
    BY <1>1, FlattenSteps
  <2> HIDE DEF ts, g
  <2> QED
    BY <1>1, <2>1
<1> HIDE DEF f, g, ts
<1> DEFINE T == {i \in Nat : i \in 1 .. n => g[i] = f[i]}
<1>5. 0 \in T
  OBVIOUS
<1>6. ASSUME NEW i \in Nat, i \in T
      PROVE  i + 1 \in T
  <2>1. CASE i = 0
    BY <1>3, <1>4, <2>1
  <2>2. CASE i + 1 \in 1 .. n /\ i # 0
    <3>1. i \in 1 .. n - 1 /\ i \in 1 .. Len(ss) - 1 /\ i \in 1 .. n
          /\ i + 1 \in 1 .. n
      BY <1>1, <2>2
    <3>2. g[i + 1] = Cat(g[i], ts[i + 1]) /\ f[i + 1] = Cat(f[i], ss[i + 1])
      BY <1>3, <1>4, <3>1
    <3>3. g[i] = f[i] /\ ts[i + 1] = ss[i + 1]
      BY <1>1, <1>6, <3>1
    <3> QED
      BY <3>2, <3>3
  <2>3. CASE i + 1 \notin 1 .. n
    BY <2>3
  <2> QED
    BY <2>1, <2>2, <2>3
<1> HIDE DEF T
<1>7. n \in T
  BY <1>1, <1>5, <1>6, SetInduction
<1> QED
  BY <1>1, <1>2, <1>7 DEF T, ts, f

-----------------------------------------------------------------------------
(***************************************************************************)
(* Where the parts begin in the whole.                                     *)
(***************************************************************************)

\* The first n of the sequences, one after the other, and how long they are.
Upto(ss, n) == FlattenSeq(SubSeq(ss, 1, n))
Before(ss, n) == Len(Upto(ss, n))

\* The parts are put one after the other.
LEMMA UptoGrows ==
  ASSUME NEW S, NEW ss \in Seq(Seq(S))
  PROVE  /\ Upto(ss, 0) = <<>>
         /\ \A n \in 0 .. Len(ss) : Upto(ss, n) \in Seq(S)
         /\ \A n \in 1 .. Len(ss) : Upto(ss, n) = Cat(Upto(ss, n - 1), ss[n])
         /\ Upto(ss, Len(ss)) = FlattenSeq(ss)
<1>1. Upto(ss, 0) = <<>>
  BY DEF Upto, FlattenSeq
<1> DEFINE f == Flatten(ss)
<1>2. /\ Len(ss) > 0 => f[1] = ss[1]
      /\ \A n \in 1 .. Len(ss) - 1 : f[n + 1] = Cat(f[n], ss[n + 1])
  BY FlattenSteps
<1>3. f \in [1 .. Len(ss) -> Seq(S)]
  BY FlattenEquation
<1>4. \A n \in 1 .. Len(ss) : Upto(ss, n) = f[n]
  BY FlattenStart DEF Upto
<1> HIDE DEF f
<1>5. ASSUME NEW n \in 1 .. Len(ss)
      PROVE  Upto(ss, n) = Cat(Upto(ss, n - 1), ss[n])
  <2>1. ss[n] \in Seq(S)
    OBVIOUS
  <2>2. CASE n = 1
    <3>1. Upto(ss, n) = ss[n] /\ Upto(ss, n - 1) = <<>>
      BY <1>1, <1>2, <1>4, <2>2
    <3>2. Cat(<<>>, ss[n]) = ss[n]
      BY <2>1 DEF Cat
    <3> QED
      BY <3>1, <3>2
  <2>3. CASE n # 1
    <3>1. n - 1 \in 1 .. Len(ss) - 1 /\ n - 1 \in 1 .. Len(ss) /\ (n - 1) + 1 = n
      BY <2>3
    <3> QED
      BY <1>2, <1>4, <3>1
  <2> QED
    BY <2>2, <2>3
<1>6. ASSUME NEW n \in 0 .. Len(ss)
      PROVE  Upto(ss, n) \in Seq(S)
  <2>1. CASE n = 0
    <3>1. <<>> \in Seq(S)
      OBVIOUS
    <3> QED
      BY <1>1, <2>1, <3>1, Zenon
  <2>2. CASE n # 0
    <3>1. n \in 1 .. Len(ss)
      BY <2>2
    <3>2. f[n] \in Seq(S)
      BY <1>3, <3>1
    <3> QED
      BY <1>4, <3>1, <3>2
  <2> QED
    BY <2>1, <2>2
<1>7. Upto(ss, Len(ss)) = FlattenSeq(ss)
  <2>1. SubSeq(ss, 1, Len(ss)) = ss
    OBVIOUS
  <2> QED
    BY <2>1 DEF Upto
<1> QED
  BY <1>1, <1>5, <1>6, <1>7

\* The parts that follow change nothing in front of them.
LEMMA UptoIsStart ==
  ASSUME NEW S, NEW ss \in Seq(Seq(S)), NEW n \in 0 .. Len(ss), NEW k \in n .. Len(ss)
  PROVE  /\ Before(ss, n) <= Before(ss, k)
         /\ \A j \in 1 .. Before(ss, n) : Upto(ss, k)[j] = Upto(ss, n)[j]
<1> DEFINE P(m) == /\ Before(ss, n) <= Before(ss, m)
                   /\ \A j \in 1 .. Before(ss, n) : Upto(ss, m)[j] = Upto(ss, n)[j]
           T == {d \in Nat : n + d <= Len(ss) => P(n + d)}
<1> USE UptoGrows
<1>1. Upto(ss, n) \in Seq(S) /\ Before(ss, n) \in Nat
  BY DEF Before
<1>2. 0 \in T
  <2>1. n + 0 = n
    OBVIOUS
  <2>2. P(n)
    BY <1>1
  <2> QED
    BY <2>1, <2>2
<1>3. ASSUME NEW d \in Nat, d \in T
      PROVE  d + 1 \in T
  <2> SUFFICES ASSUME n + (d + 1) <= Len(ss)
               PROVE  P(n + (d + 1))
    OBVIOUS
  <2> DEFINE m == n + (d + 1)
  <2>1. m \in 1 .. Len(ss) /\ m - 1 = n + d /\ m - 1 \in 0 .. Len(ss) /\ n + d <= Len(ss)
    OBVIOUS
  <2>2. P(m - 1)
    BY <1>3, <2>1
  <2>3. /\ Upto(ss, m) = Cat(Upto(ss, m - 1), ss[m])
        /\ Upto(ss, m - 1) \in Seq(S) /\ ss[m] \in Seq(S)
    BY <2>1
  <2>4. /\ Before(ss, m) = Before(ss, m - 1) + Len(ss[m]) /\ Len(ss[m]) \in Nat
        /\ Before(ss, m - 1) \in Nat
        /\ \A j \in 1 .. Before(ss, m - 1) : Upto(ss, m)[j] = Upto(ss, m - 1)[j]
    <3> DEFINE u == Upto(ss, m - 1)
               v == ss[m]
    <3> HIDE DEF u, v
    <3>1. u \in Seq(S) /\ v \in Seq(S)
      BY <2>3 DEF u, v
    <3>2. /\ Len(u) \in Nat /\ Len(v) \in Nat /\ Len(Cat(u, v)) = Len(u) + Len(v)
          /\ \A j \in 1 .. Len(u) : Cat(u, v)[j] = u[j]
      BY <3>1, CatProperties
    <3>3. Upto(ss, m) = Cat(u, v)
      BY <2>3 DEF u, v
    <3> QED
      BY <3>2, <3>3 DEF Before, u, v
  <2> HIDE DEF m
  <2>5. P(m)
    BY <1>1, <2>2, <2>4, SMTT(60)
  <2> QED
    BY <2>5 DEF m
<1>4. Nat \subseteq T
  <2> HIDE DEF T
  <2> QED
    BY <1>2, <1>3, SetInduction
<1>5. k - n \in Nat /\ n + (k - n) = k /\ k <= Len(ss)
  OBVIOUS
<1> QED
  BY <1>4, <1>5

\* A part is found in the whole behind those before it.
LEMMA PartInWhole ==
  ASSUME NEW S, NEW ss \in Seq(Seq(S)), NEW n \in 1 .. Len(ss)
  PROVE  /\ FlattenSeq(ss) \in Seq(S)
         /\ Before(ss, n - 1) \in Nat /\ Before(ss, n) \in Nat
         /\ Before(ss, n) = Before(ss, n - 1) + Len(ss[n])
         /\ Before(ss, n) <= Len(FlattenSeq(ss))
         /\ \A i \in 1 .. Len(ss[n]) :
              FlattenSeq(ss)[Before(ss, n - 1) + i] = ss[n][i]
<1>1. n - 1 \in 0 .. Len(ss) /\ n \in 0 .. Len(ss) /\ Len(ss) \in n .. Len(ss)
      /\ Len(ss) \in 0 .. Len(ss) /\ ss[n] \in Seq(S)
  OBVIOUS
<1>2. /\ Upto(ss, n - 1) \in Seq(S) /\ Upto(ss, n) \in Seq(S)
      /\ Upto(ss, n) = Cat(Upto(ss, n - 1), ss[n])
      /\ Upto(ss, Len(ss)) = FlattenSeq(ss) /\ FlattenSeq(ss) \in Seq(S)
  BY <1>1, UptoGrows
<1>3. /\ Before(ss, n) <= Before(ss, Len(ss))
      /\ \A j \in 1 .. Before(ss, n) : Upto(ss, Len(ss))[j] = Upto(ss, n)[j]
  BY <1>1, UptoIsStart
<1>4. /\ Before(ss, n - 1) \in Nat /\ Before(ss, n) \in Nat
      /\ Before(ss, n) = Before(ss, n - 1) + Len(ss[n])
      /\ \A i \in 1 .. Len(ss[n]) : Upto(ss, n)[Before(ss, n - 1) + i] = ss[n][i]
  <2> DEFINE u == Upto(ss, n - 1)
             v == ss[n]
  <2> HIDE DEF u, v
  <2>1. u \in Seq(S) /\ v \in Seq(S)
    BY <1>1, <1>2 DEF u, v
  <2>2. /\ Len(u) \in Nat /\ Len(v) \in Nat /\ Len(Cat(u, v)) = Len(u) + Len(v)
        /\ \A j \in 1 .. Len(v) : Cat(u, v)[Len(u) + j] = v[j]
    BY <2>1, CatProperties
  <2>3. Upto(ss, n) = Cat(u, v) /\ ss[n] = v
    BY <1>2 DEF u, v
  <2>4. Before(ss, n - 1) = Len(u) /\ Before(ss, n) = Len(Cat(u, v))
    BY <2>3 DEF Before, u
  <2>5. \A i \in 1 .. Len(v) : Upto(ss, n)[Before(ss, n - 1) + i] = v[i]
    BY <2>2, <2>3, <2>4, Zenon
  <2>6. \A i \in 1 .. Len(ss[n]) : Upto(ss, n)[Before(ss, n - 1) + i] = ss[n][i]
    BY <2>3, <2>5, Zenon
  <2>7. /\ Before(ss, n - 1) \in Nat /\ Before(ss, n) \in Nat
        /\ Before(ss, n) = Before(ss, n - 1) + Len(ss[n])
    <3>1. Len(Cat(u, v)) \in Nat
      BY <2>2
    <3> QED
      BY <2>2, <2>3, <2>4, <3>1, Zenon
  <2> QED
    BY <2>6, <2>7, Zenon
<1>5. ASSUME NEW i \in 1 .. Len(ss[n])
      PROVE  FlattenSeq(ss)[Before(ss, n - 1) + i] = ss[n][i]
  <2>1. Before(ss, n - 1) + i \in 1 .. Before(ss, n)
    BY <1>1, <1>4, SMTT(60)
  <2> QED
    BY <1>2, <1>3, <1>4, <2>1
<1>6. Before(ss, n) <= Len(FlattenSeq(ss))
  BY <1>2, <1>3 DEF Before
<1> QED
  BY <1>2, <1>4, <1>5, <1>6

-----------------------------------------------------------------------------
(***************************************************************************)
(* The octets of a message.                                                *)
(***************************************************************************)

\* Octets are numbers, in a sequence too.
LEMMA OctetsAreNats ==
  ASSUME NEW s \in Seq(Octet)
  PROVE  s \in Seq(Nat)
<1>1. /\ Len(s) \in Nat /\ s = [i \in 1 .. Len(s) |-> s[i]]
      /\ \A i \in 1 .. Len(s) : s[i] \in Nat
  BY OctetIsNat
<1> QED
  BY <1>1

\* A message of the peer is of exactly one of the three kinds FcgiWire has.
LEMMA MessageKinds ==
  ASSUME NEW m \in Messages
  PROVE  /\ m.type \in Octet /\ m.id \in Ids /\ m.padding \in Octet
         /\ \/ /\ "flags" \in DOMAIN m /\ "pairs" \notin DOMAIN m /\ "octets" \notin DOMAIN m
               /\ m.type = BeginRequest /\ m.flags \in Octet
            \/ /\ "pairs" \in DOMAIN m /\ "flags" \notin DOMAIN m /\ "octets" \notin DOMAIN m
               /\ m.type = Params /\ m.pairs \in Seq(Pairs)
            \/ /\ "octets" \in DOMAIN m /\ "flags" \notin DOMAIN m /\ "pairs" \notin DOMAIN m
               /\ m.octets \in Seq(Octet)
<1>1. BeginRequest \in Octet /\ Params \in Octet
  BY DEF BeginRequest, Params, Octet
<1>2. CASE m \in [type : {BeginRequest}, id : Ids, flags : Octet, padding : Octet]
  <2>1. "flags" \in DOMAIN m /\ "pairs" \notin DOMAIN m /\ "octets" \notin DOMAIN m
    BY <1>2
  <2>2. /\ m.type = BeginRequest /\ m.flags \in Octet /\ m.id \in Ids /\ m.padding \in Octet
    BY <1>2
  <2> QED
    BY <1>1, <2>1, <2>2
<1>3. CASE m \in [type : {Params}, id : Ids, pairs : Seq(Pairs), padding : Octet]
  <2>1. "pairs" \in DOMAIN m /\ "flags" \notin DOMAIN m /\ "octets" \notin DOMAIN m
    BY <1>3
  <2>2. /\ m.type = Params /\ m.pairs \in Seq(Pairs) /\ m.id \in Ids /\ m.padding \in Octet
    BY <1>3
  <2> QED
    BY <1>1, <2>1, <2>2
<1>4. CASE m \in [type : Octet, id : Ids, octets : Seq(Octet), padding : Octet]
  <2>1. "octets" \in DOMAIN m /\ "flags" \notin DOMAIN m /\ "pairs" \notin DOMAIN m
    BY <1>4
  <2>2. /\ m.type \in Octet /\ m.octets \in Seq(Octet) /\ m.id \in Ids /\ m.padding \in Octet
    BY <1>4
  <2> QED
    BY <2>1, <2>2
<1> QED
  BY <1>2, <1>3, <1>4 DEF Messages

\* The numbers of two octets.
LEMMA IdsAreNats ==
  ASSUME NEW n \in Ids
  PROVE  n \in Nat /\ n < 65536
  BY SMT DEF Ids

\* What is smaller than a number of two octets is one.
LEMMA SmallerIds ==
  ASSUME NEW n \in Ids, NEW k \in Nat, k <= n
  PROVE  k \in Ids
  BY SMT DEF Ids

\* The halves of a number of two octets.
LEMMA Halves ==
  ASSUME NEW n \in Ids
  PROVE  /\ n \div 256 \in Octet /\ n % 256 \in Octet
         /\ (n \div 256) * 256 + (n % 256) = n
<1>0. n \in Nat /\ n < 65536
  BY SMT DEF Ids
<1>1. n \div 256 \in Nat /\ n \div 256 < 256
  BY <1>0, SMT
<1>2. n % 256 \in Nat /\ n % 256 < 256
  BY <1>0, SMT
<1>3. (n \div 256) * 256 + (n % 256) = n
  BY <1>0, SMT
<1>4. \A k \in Nat : k < 256 => k \in Octet
  BY SMT DEF Octet
<1> QED
  BY <1>1, <1>2, <1>3, <1>4, Zenon

\* A length on the wire.
LEMMA LengthOctets ==
  ASSUME NEW n \in Ids, NEW long \in BOOLEAN
  PROVE  LET e == EncodeLength(n, long) IN
           /\ e \in Seq(Octet) /\ Len(e) \in {1, 4}
           /\ Len(e) = 1 => e[1] = n /\ n < 128
           /\ Len(e) = 4 => e[1] = 128 /\ e[2] = 0 /\ e[3] = n \div 256 /\ e[4] = n % 256
<1> DEFINE e == EncodeLength(n, long)
<1>0. n \in Nat /\ n < 65536
  BY SMT DEF Ids
<1>1. n \div 256 \in Octet /\ n % 256 \in Octet
  BY Halves
<1>2. CASE long \/ n > 127
  <2>1. n \div 16777216 = 0
    BY <1>0, SMT
  <2>2. n \div 65536 = 0
    BY <1>0, SMT
  <2>3. n % 65536 = n
    BY <1>0, SMT
  <2>4. e = <<128 + 0, 0 % 256>> \o TwoOctets(n)
    BY <1>2, <2>1, <2>2, <2>3, SMT DEF EncodeLength
  <2>5. e = <<128, 0>> \o <<n \div 256, n % 256>>
    BY <2>4, SMT DEF TwoOctets
  <2> HIDE DEF e
  <2>6. PICK a, b : a = n \div 256 /\ b = n % 256
    OBVIOUS
  <2>7. 128 \in Octet /\ 0 \in Octet
    BY SMT DEF Octet
  <2> QED
    BY <1>1, <2>5, <2>6, <2>7, SMT DEF e
<1>3. CASE ~(long \/ n > 127)
  <2>1. e = <<n>> /\ n < 128
    BY <1>0, <1>3, SMT DEF EncodeLength
  <2>2. n \in Octet
    BY <1>0, <2>1, SMT DEF Octet
  <2> HIDE DEF e
  <2> QED
    BY <2>1, <2>2, SMT DEF e
<1> QED
  BY <1>2, <1>3, SMT

\* The sequence e is two others one after the other, or four of them.
Halved(e, a, b) ==
  /\ Len(a) \in Nat /\ Len(b) \in Nat /\ Len(e) = Len(a) + Len(b)
  /\ \A i \in 1 .. Len(a) : e[i] = a[i]
  /\ \A i \in 1 .. Len(b) : e[Len(a) + i] = b[i]

Parts(e, a, b, c, d) ==
  /\ Len(a) \in Nat /\ Len(b) \in Nat /\ Len(c) \in Nat /\ Len(d) \in Nat
  /\ Len(e) = Len(a) + Len(b) + Len(c) + Len(d)
  /\ \A i \in 1 .. Len(a) : e[i] = a[i]
  /\ \A i \in 1 .. Len(b) : e[Len(a) + i] = b[i]
  /\ \A i \in 1 .. Len(c) : e[Len(a) + Len(b) + i] = c[i]
  /\ \A i \in 1 .. Len(d) : e[Len(a) + Len(b) + Len(c) + i] = d[i]

\* Two parts joined are found at their places in the whole.
LEMMA TwoParts ==
  ASSUME NEW S, NEW a \in Seq(S), NEW b \in Seq(S), NEW e, e = a \o b
  PROVE  e \in Seq(S) /\ Halved(e, a, b)
  BY DEF Halved

\* Four parts joined, as those of a pair or of a header are.
LEMMA FourParts ==
  ASSUME NEW S, NEW a \in Seq(S), NEW b \in Seq(S), NEW c \in Seq(S), NEW d \in Seq(S),
         NEW e, e = a \o b \o c \o d
  PROVE  e \in Seq(S) /\ Parts(e, a, b, c, d)
<1>1. PICK u : u = a \o b
  OBVIOUS
<1>2. u \in Seq(S) /\ Halved(u, a, b)
  BY <1>1, TwoParts
<1>3. PICK v : v = u \o c
  OBVIOUS
<1>4. v \in Seq(S) /\ Halved(v, u, c)
  BY <1>2, <1>3, TwoParts
<1>5. e = v \o d
  BY <1>1, <1>3
<1>6. e \in Seq(S) /\ Halved(e, v, d)
  BY <1>4, <1>5, TwoParts
<1> USE DEF Halved
<1>7. \A i \in 1 .. Len(a) : i \in 1 .. Len(u) /\ i \in 1 .. Len(v)
  BY <1>2, <1>4
<1>8. \A i \in 1 .. Len(b) : Len(a) + i \in 1 .. Len(u) /\ Len(a) + i \in 1 .. Len(v)
  BY <1>2, <1>4
<1>9. \A i \in 1 .. Len(c) : Len(u) + i \in 1 .. Len(v)
  BY <1>2, <1>4
<1>10. Len(v) = Len(a) + Len(b) + Len(c)
  BY <1>2, <1>4
<1>11. \A i \in 1 .. Len(a) : e[i] = a[i]
  BY <1>2, <1>4, <1>6, <1>7
<1>12. \A i \in 1 .. Len(b) : e[Len(a) + i] = b[i]
  BY <1>2, <1>4, <1>6, <1>8
<1>13. \A i \in 1 .. Len(c) : e[Len(a) + Len(b) + i] = c[i]
  BY <1>2, <1>4, <1>6, <1>9
<1>14. \A i \in 1 .. Len(d) : e[Len(a) + Len(b) + Len(c) + i] = d[i]
  BY <1>6, <1>10
<1> QED
  BY <1>2, <1>4, <1>6, <1>10, <1>11, <1>12, <1>13, <1>14 DEF Parts

\* An encoded length is a sequence of numbers.
LEMMA LengthIsNat ==
  ASSUME NEW n \in Nat, NEW long \in BOOLEAN
  PROVE  EncodeLength(n, long) \in Seq(Nat)
<1>1. n \div 16777216 \in Nat /\ n \div 65536 \in Nat
  BY SMT
<1>2. (n \div 65536) % 256 \in Nat
  BY <1>1, SMT
<1>3. n % 65536 \in Nat
  BY SMT
<1>4. (n % 65536) \div 256 \in Nat /\ (n % 65536) % 256 \in Nat
  BY <1>3, SMT
<1> QED
  BY <1>1, <1>2, <1>4, SMT DEF EncodeLength, TwoOctets

\* An encoded pair is a sequence of numbers, no shorter than its name or value.
LEMMA PairIsNat ==
  ASSUME NEW pair \in Pairs
  PROVE  /\ EncodePair(pair) \in Seq(Nat)
         /\ Len(pair.name) \in Nat /\ Len(pair.value) \in Nat
         /\ Len(pair.name) <= Len(EncodePair(pair))
         /\ Len(pair.value) <= Len(EncodePair(pair))
<1>1. /\ pair.name \in Seq(Octet) /\ pair.value \in Seq(Octet) /\ pair.long \in BOOLEAN
      /\ Len(pair.name) \in Nat /\ Len(pair.value) \in Nat
  BY DEF Pairs
<1>2. pair.name \in Seq(Nat) /\ pair.value \in Seq(Nat)
  BY <1>1, OctetsAreNats
<1>3. PICK a, b : /\ a = EncodeLength(Len(pair.name), pair.long)
                  /\ b = EncodeLength(Len(pair.value), pair.long)
  OBVIOUS
<1>4. a \in Seq(Nat) /\ b \in Seq(Nat)
  BY <1>1, <1>3, LengthIsNat
<1>5. PICK e : e = EncodePair(pair)
  OBVIOUS
<1>6. e = a \o b \o pair.name \o pair.value
  BY <1>3, <1>5 DEF EncodePair
<1>7. e \in Seq(Nat) /\ Parts(e, a, b, pair.name, pair.value)
  BY <1>2, <1>4, <1>6, FourParts
<1>8. /\ Len(e) = Len(a) + Len(b) + Len(pair.name) + Len(pair.value)
      /\ Len(a) \in Nat /\ Len(b) \in Nat
  BY <1>7, Zenon DEF Parts
<1>9. Len(pair.name) <= Len(e) /\ Len(pair.value) <= Len(e)
  <2>1. PICK x, i, j, k, l : /\ x = Len(e) /\ i = Len(a) /\ j = Len(b)
                             /\ k = Len(pair.name) /\ l = Len(pair.value)
    OBVIOUS
  <2>2. x = i + j + k + l /\ i \in Nat /\ j \in Nat /\ k \in Nat /\ l \in Nat
    BY <1>1, <1>8, <2>1, Zenon
  <2>3. k <= x /\ l <= x
    BY <2>2, SMT
  <2> QED
    BY <2>1, <2>3, Zenon
<1> QED
  BY <1>1, <1>5, <1>7, <1>9

\* A pair on the wire: two lengths, a name, a value.
LEMMA PairOctets ==
  ASSUME NEW pair \in Pairs, Len(pair.name) \in Ids, Len(pair.value) \in Ids
  PROVE  LET a == EncodeLength(Len(pair.name), pair.long)
             b == EncodeLength(Len(pair.value), pair.long)
         IN  /\ EncodePair(pair) \in Seq(Octet)
             /\ Parts(EncodePair(pair), a, b, pair.name, pair.value)
<1>1. /\ pair.name \in Seq(Octet) /\ pair.value \in Seq(Octet) /\ pair.long \in BOOLEAN
      /\ Len(pair.name) \in Nat /\ Len(pair.value) \in Nat
  BY DEF Pairs
<1>2. /\ EncodeLength(Len(pair.name), pair.long) \in Seq(Octet)
      /\ EncodeLength(Len(pair.value), pair.long) \in Seq(Octet)
  BY <1>1, LengthOctets, ZenonT(60)
<1>3. PICK a, b, e : /\ a = EncodeLength(Len(pair.name), pair.long)
                     /\ b = EncodeLength(Len(pair.value), pair.long)
                     /\ e = EncodePair(pair)
  OBVIOUS
<1>4. e = a \o b \o pair.name \o pair.value
  BY <1>3 DEF EncodePair
<1>5. e \in Seq(Octet) /\ Parts(e, a, b, pair.name, pair.value)
  BY <1>1, <1>2, <1>3, <1>4, FourParts
<1> QED
  BY <1>3, <1>5

-----------------------------------------------------------------------------

Encoded(m) == [n \in DOMAIN m.pairs |-> EncodePair(m.pairs[n])]

\* The messages a stream may hold.
IsSent(m) == m \in Messages /\ Len(Content(m)) \in Ids

\* The pairs of a message whose content_length takes two octets: each has a name
\* and a value shorter than 64 KiB, and is encoded in octets.
LEMMA PairsFit ==
  ASSUME NEW m, IsSent(m), "pairs" \in DOMAIN m
  PROVE  /\ m.pairs \in Seq(Pairs) /\ Len(m.pairs) \in Nat
         /\ Content(m) = FlattenSeq(Encoded(m))
         /\ Encoded(m) \in Seq(Seq(Octet)) /\ Len(Encoded(m)) = Len(m.pairs)
         /\ \A n \in 1 .. Len(m.pairs) :
              /\ Encoded(m)[n] = EncodePair(m.pairs[n]) /\ m.pairs[n] \in Pairs
              /\ Len(m.pairs[n].name) \in Ids /\ Len(m.pairs[n].value) \in Ids
<1>1. m.pairs \in Seq(Pairs) /\ "flags" \notin DOMAIN m /\ "octets" \notin DOMAIN m
  BY MessageKinds DEF IsSent
<1>2. Content(m) = FlattenSeq(Encoded(m))
  BY <1>1 DEF Content, Encoded
<1>3. /\ Len(m.pairs) \in Nat /\ DOMAIN m.pairs = 1 .. Len(m.pairs)
      /\ \A n \in 1 .. Len(m.pairs) : m.pairs[n] \in Pairs
  BY <1>1
<1>4. /\ Encoded(m) \in Seq(Seq(Nat)) /\ Len(Encoded(m)) = Len(m.pairs)
      /\ \A n \in 1 .. Len(m.pairs) : Encoded(m)[n] = EncodePair(m.pairs[n])
  BY <1>3, PairIsNat DEF Encoded
<1>5. ASSUME NEW n \in 1 .. Len(m.pairs)
      PROVE  Len(m.pairs[n].name) \in Ids /\ Len(m.pairs[n].value) \in Ids
  <2>1. n \in 1 .. Len(Encoded(m))
    BY <1>4
  <2>2. /\ FlattenSeq(Encoded(m)) \in Seq(Nat)
        /\ Before(Encoded(m), n - 1) \in Nat /\ Before(Encoded(m), n) \in Nat
        /\ Before(Encoded(m), n) = Before(Encoded(m), n - 1) + Len(Encoded(m)[n])
        /\ Before(Encoded(m), n) <= Len(FlattenSeq(Encoded(m)))
    BY <1>4, <2>1, PartInWhole
  <2>3. PICK e : e = EncodePair(m.pairs[n])
    OBVIOUS
  <2>4. /\ e \in Seq(Nat) /\ Len(m.pairs[n].name) \in Nat /\ Len(m.pairs[n].value) \in Nat
        /\ Len(m.pairs[n].name) <= Len(e) /\ Len(m.pairs[n].value) <= Len(e)
    BY <1>3, <2>3, PairIsNat
  <2>5. PICK c : c = Len(Content(m))
    OBVIOUS
  <2>6. c \in Ids
    BY <2>5 DEF IsSent
  <2>7. c \in Nat /\ Len(e) <= c
    <3>1. Encoded(m)[n] = e /\ Len(e) \in Nat
      BY <1>4, <2>3, <2>4
    <3>2. Len(FlattenSeq(Encoded(m))) = c /\ c \in Nat
      BY <1>2, <2>2, <2>5
    <3>3. PICK i, j, l : /\ i = Before(Encoded(m), n - 1) /\ j = Before(Encoded(m), n)
                         /\ l = Len(e)
      OBVIOUS
    <3>4. i \in Nat /\ j = i + l /\ j <= c /\ l \in Nat
      <4>1. i \in Nat /\ l \in Nat
        BY <2>2, <3>1, <3>3
      <4>2. j = i + l
        BY <2>2, <3>1, <3>3
      <4>3. j <= c
        BY <2>2, <3>2, <3>3
      <4> QED
        BY <4>1, <4>2, <4>3
    <3>5. l <= c
      BY <3>2, <3>4, SMT
    <3> QED
      BY <3>2, <3>3, <3>5, Zenon
  <2>8. \A k \in Nat : k <= c => k \in Ids
    BY <2>6, SmallerIds
  <2>9. PICK i, j : i = Len(m.pairs[n].name) /\ j = Len(m.pairs[n].value)
    OBVIOUS
  <2>10. PICK l : l = Len(e)
    OBVIOUS
  <2>11. i \in Nat /\ j \in Nat /\ l \in Nat /\ i <= l /\ j <= l /\ l <= c
    <3>1. Len(e) \in Nat
      BY <2>4
    <3> QED
      BY <2>4, <2>7, <2>9, <2>10, <3>1, Zenon
  <2>12. i <= c /\ j <= c
    BY <2>7, <2>11, SMT
  <2> QED
    BY <2>8, <2>9, <2>11, <2>12, Zenon
<1>6. Encoded(m) \in Seq(Seq(Octet))
  <2>1. \A n \in 1 .. Len(m.pairs) : EncodePair(m.pairs[n]) \in Seq(Octet)
    <3> SUFFICES ASSUME NEW n \in 1 .. Len(m.pairs)
                 PROVE  EncodePair(m.pairs[n]) \in Seq(Octet)
      OBVIOUS
    <3>1. PICK pair : pair = m.pairs[n]
      OBVIOUS
    <3>2. pair \in Pairs /\ Len(pair.name) \in Ids /\ Len(pair.value) \in Ids
      BY <1>3, <1>5, <3>1
    <3>3. EncodePair(pair) \in Seq(Octet)
      BY <3>2, PairOctets
    <3> QED
      BY <3>1, <3>3
  <2> QED
    BY <1>3, <2>1 DEF Encoded
<1> QED
  BY <1>1, <1>2, <1>3, <1>4, <1>5, <1>6

\* Flattening sequences over a set gives one over that set.
LEMMA WholeType ==
  ASSUME NEW S, NEW ss \in Seq(Seq(S))
  PROVE  FlattenSeq(ss) \in Seq(S)
<1>1. Len(ss) \in 0 .. Len(ss)
  OBVIOUS
<1> QED
  BY <1>1, UptoGrows

\* Padding and reserved octets are octets.
LEMMA RepeatFacts ==
  ASSUME NEW n \in Nat
  PROVE  Repeat(0, n) \in Seq(Octet) /\ Len(Repeat(0, n)) = n
<1>1. 0 \in Octet
  BY DEF Octet
<1> QED
  BY <1>1 DEF Repeat

\* The content of a message is made of octets, its flags in the third place.
LEMMA ContentFacts ==
  ASSUME NEW m, IsSent(m)
  PROVE  /\ Content(m) \in Seq(Octet) /\ Len(Content(m)) \in Nat
         /\ "flags" \in DOMAIN m => Len(Content(m)) = 8 /\ Content(m)[3] = m.flags
         /\ "octets" \in DOMAIN m => Content(m) = m.octets
<1>1. CASE "flags" \in DOMAIN m
  <2>1. m.flags \in Octet /\ "octets" \notin DOMAIN m /\ "pairs" \notin DOMAIN m
    BY <1>1, MessageKinds DEF IsSent
  <2>2. Content(m) = <<0, 1, m.flags>> \o Repeat(0, 5)
    BY <1>1, <2>1 DEF Content
  <2>3. PICK z : z = Repeat(0, 5)
    OBVIOUS
  <2>4. z \in Seq(Octet) /\ Len(z) = 5
    BY <2>3, RepeatFacts
  <2>5. PICK f : f = m.flags
    OBVIOUS
  <2>6. <<0, 1, f>> \in Seq(Octet)
    BY <2>1, <2>5 DEF Octet
  <2>10. PICK h : h = <<0, 1, f>>
    OBVIOUS
  <2>11. h \in Seq(Octet) /\ Len(h) = 3 /\ h[3] = f
    BY <2>6, <2>10
  <2>7. PICK c : c = h \o z
    OBVIOUS
  <2>8. Content(m) = c
    BY <2>2, <2>3, <2>5, <2>7, <2>10
  <2>9. c \in Seq(Octet) /\ Len(c) = 8 /\ c[3] = f
    <3>1. c \in Seq(Octet) /\ Halved(c, h, z)
      BY <2>4, <2>7, <2>11, TwoParts
    <3> QED
      BY <2>4, <2>11, <3>1 DEF Halved
  <2> QED
    BY <2>1, <2>5, <2>8, <2>9
<1>2. CASE "pairs" \in DOMAIN m
  <2>1. "octets" \notin DOMAIN m /\ "flags" \notin DOMAIN m
    BY <1>2, MessageKinds DEF IsSent
  <2>2. /\ Content(m) = FlattenSeq(Encoded(m)) /\ Encoded(m) \in Seq(Seq(Octet))
        /\ Len(Encoded(m)) = Len(m.pairs) /\ Len(m.pairs) \in Nat
    BY <1>2, PairsFit
  <2>3. FlattenSeq(Encoded(m)) \in Seq(Octet)
    BY <2>2, WholeType
  <2> QED
    BY <2>1, <2>2, <2>3
<1>3. CASE "octets" \in DOMAIN m
  <2>1. m.octets \in Seq(Octet) /\ "flags" \notin DOMAIN m /\ "pairs" \notin DOMAIN m
    BY <1>3, MessageKinds DEF IsSent
  <2>2. Content(m) = m.octets
    BY <1>3, <2>1 DEF Content
  <2> QED
    BY <2>1, <2>2
<1> QED
  BY <1>1, <1>2, <1>3, MessageKinds DEF IsSent

\* The octets e say what the header and the content of m are.
Sends(e, m) ==
  /\ e \in Seq(Octet) /\ Len(e) = 8 + Len(Content(m)) + m.padding
  /\ e[2] = m.type /\ e[3] = m.id \div 256 /\ e[4] = m.id % 256
  /\ e[5] = Len(Content(m)) \div 256 /\ e[6] = Len(Content(m)) % 256
  /\ e[7] = m.padding
  /\ \A i \in 1 .. Len(Content(m)) : e[8 + i] = Content(m)[i]

\* Where sl_fcgi_parser_parse finds the fields of a header and the content.
LEMMA EncodeFacts ==
  ASSUME NEW m, IsSent(m)
  PROVE  Sends(Encode(m), m)
<1>1. /\ m.type \in Octet /\ m.id \in Ids /\ m.padding \in Octet /\ m.padding \in Nat
  BY MessageKinds, OctetIsNat DEF IsSent
<1>2. PICK e, a, b, d : /\ e = Encode(m) /\ a = EncodeHeader(m, Len(Content(m)))
                        /\ b = Content(m) /\ d = Repeat(0, m.padding)
  OBVIOUS
<1>3. /\ b \in Seq(Octet) /\ Len(b) \in Ids /\ d \in Seq(Octet) /\ Len(d) = m.padding
  BY <1>1, <1>2, ContentFacts, RepeatFacts DEF IsSent
<1>4. /\ a \in Seq(Octet) /\ Len(a) = 8 /\ a[2] = m.type
      /\ a[3] = m.id \div 256 /\ a[4] = m.id % 256
      /\ a[5] = Len(b) \div 256 /\ a[6] = Len(b) % 256 /\ a[7] = m.padding
  <2>1. PICK h, i, j, k, t, g : /\ h = m.id \div 256 /\ i = m.id % 256 /\ t = m.type
                             /\ j = Len(b) \div 256 /\ k = Len(b) % 256 /\ g = m.padding
    OBVIOUS
  <2>2. /\ h \in Octet /\ i \in Octet /\ j \in Octet /\ k \in Octet /\ t \in Octet /\ g \in Octet
    BY <1>1, <1>3, <2>1, Halves, ZenonT(60)
  <2>3. a = <<1, t>> \o <<h, i>> \o <<j, k>> \o <<g, 0>>
    BY <1>2, <2>1, ZenonT(60) DEF EncodeHeader, TwoOctets
  <2>4. 0 \in Octet /\ 1 \in Octet
    BY DEF Octet
  <2>5. PICK x, y, v, w : /\ x = <<1, t>> /\ y = <<h, i>> /\ v = <<j, k>> /\ w = <<g, 0>>
    OBVIOUS
  <2>8. /\ x \in Seq(Octet) /\ y \in Seq(Octet) /\ v \in Seq(Octet) /\ w \in Seq(Octet)
        /\ Len(x) = 2 /\ Len(y) = 2 /\ Len(v) = 2 /\ Len(w) = 2
        /\ x[2] = t /\ y[1] = h /\ y[2] = i /\ v[1] = j /\ v[2] = k /\ w[1] = g
    BY <2>2, <2>4, <2>5
  <2>9. a = x \o y \o v \o w
    BY <2>3, <2>5
  <2>10. a \in Seq(Octet) /\ Parts(a, x, y, v, w)
    BY <2>8, <2>9, FourParts
  <2>6. a \in Seq(Octet) /\ Len(a) = 8
    BY <2>8, <2>10 DEF Parts
  <2>7. /\ a[2] = t /\ a[3] = h /\ a[4] = i /\ a[5] = j /\ a[6] = k /\ a[7] = g
    BY <2>8, <2>10 DEF Parts
  <2> QED
    BY <2>1, <2>6, <2>7, Zenon
<1>5. e = (a \o b) \o d
  BY <1>2 DEF Encode
<1>6. PICK u : u = a \o b
  OBVIOUS
<1>7. u \in Seq(Octet) /\ Halved(u, a, b)
  BY <1>3, <1>4, <1>6, TwoParts
<1>8. e \in Seq(Octet) /\ Halved(e, u, d)
  BY <1>3, <1>5, <1>6, <1>7, TwoParts
<1>9. /\ Len(e) = 8 + Len(b) + m.padding /\ Len(u) = 8 + Len(b) /\ Len(b) \in Nat
  BY <1>3, <1>4, <1>7, <1>8 DEF Halved
<1>10. \A i \in 1 .. 8 : e[i] = a[i]
  <2>1. \A i \in 1 .. 8 : i \in 1 .. Len(a) /\ i \in 1 .. Len(u)
    BY <1>4, <1>9
  <2>2. /\ \A i \in 1 .. Len(a) : u[i] = a[i]
        /\ \A i \in 1 .. Len(u) : e[i] = u[i]
    BY <1>7, <1>8 DEF Halved
  <2> QED
    BY <2>1, <2>2, Zenon
<1>11. \A i \in 1 .. Len(b) : e[8 + i] = b[i]
  <2>1. \A i \in 1 .. Len(b) : 8 + i \in 1 .. Len(u)
    BY <1>9
  <2>2. /\ \A i \in 1 .. Len(b) : u[8 + i] = b[i]
        /\ \A i \in 1 .. Len(u) : e[i] = u[i]
    BY <1>4, <1>7, <1>8, ZenonT(60) DEF Halved
  <2> QED
    BY <2>1, <2>2, Zenon
<1>12. /\ e[2] = a[2] /\ e[3] = a[3] /\ e[4] = a[4] /\ e[5] = a[5] /\ e[6] = a[6]
       /\ e[7] = a[7]
  BY <1>10
<1>13. Sends(e, m)
  BY <1>2, <1>4, <1>8, <1>9, <1>11, <1>12, ZenonT(60) DEF Sends
<1> QED
  BY <1>2, <1>13

\* A stream of messages is made of octets, and each message says what it sends.
LEMMA AllEncoded ==
  ASSUME NEW messages \in Seq(Messages),
         \A n \in DOMAIN messages : Len(Content(messages[n])) \in Ids
  PROVE  LET es == [n \in DOMAIN messages |-> Encode(messages[n])] IN
           /\ es \in Seq(Seq(Octet)) /\ Len(es) = Len(messages) /\ Len(es) \in Nat
           /\ EncodeAll(messages) = FlattenSeq(es) /\ EncodeAll(messages) \in Seq(Octet)
           /\ \A n \in 1 .. Len(messages) :
                IsSent(messages[n]) /\ Sends(es[n], messages[n])
<1> DEFINE es == [n \in DOMAIN messages |-> Encode(messages[n])]
<1>1. /\ DOMAIN messages = 1 .. Len(messages) /\ Len(messages) \in Nat
      /\ \A n \in 1 .. Len(messages) : IsSent(messages[n])
  BY DEF IsSent
<1>2. \A n \in 1 .. Len(messages) : Sends(Encode(messages[n]), messages[n])
  BY <1>1, EncodeFacts
<1>3. \A n \in 1 .. Len(messages) : Encode(messages[n]) \in Seq(Octet)
  BY <1>2 DEF Sends
<1>4. /\ es \in Seq(Seq(Octet)) /\ Len(es) = Len(messages)
      /\ \A n \in 1 .. Len(messages) : es[n] = Encode(messages[n])
  BY <1>1, <1>3
<1>5. EncodeAll(messages) = FlattenSeq(es)
  BY DEF EncodeAll
<1> HIDE DEF es
<1>6. FlattenSeq(es) \in Seq(Octet)
  BY <1>4, WholeType
<1> QED
  BY <1>1, <1>2, <1>4, <1>5, <1>6 DEF es

-----------------------------------------------------------------------------
(***************************************************************************)
(* What a parser knows once it has read so many octets of a message.       *)
(***************************************************************************)

\* The order of the states of the header, and of the body of BEGIN_REQUEST.
HeaderOrder ==
  <<"VERSION", "TYPE", "REQUEST_ID_B1", "REQUEST_ID_B0", "CONTENT_LENGTH_B1",
    "CONTENT_LENGTH_B0", "PADDING_LENGTH", "PADDING_RESERVED">>
BeginOrder ==
  <<"BEGIN_ROLE_B1", "BEGIN_ROLE_B0", "BEGIN_FLAGS", "BEGIN_SKIP5", "BEGIN_SKIP4",
    "BEGIN_SKIP3", "BEGIN_SKIP2", "BEGIN_SKIP1">>

\* o octets of m are parsed, in each state of p.
HeaderAt(p, m, o) ==
  /\ o \in 0 .. 7 /\ p.state = HeaderOrder[o + 1]
  /\ p.params = <<>> /\ p.stdin = Null
  /\ o >= 2 => p.type = m.type
  /\ o = 3 => p.request_id = (m.id \div 256) * 256
  /\ o >= 4 => p.request_id = m.id
  /\ o = 5 => p.content_length = (Len(Content(m)) \div 256) * 256
  /\ o >= 6 => p.content_length = Len(Content(m))
  /\ o >= 7 => p.padding_length = m.padding

\* The parser knows the header of m.
Headed(p, m) ==
  /\ p.type = m.type /\ p.request_id = m.id
  /\ p.content_length = Len(Content(m)) /\ p.padding_length = m.padding

\* In the body of BEGIN_REQUEST.
BeginAt(p, m, o) ==
  /\ "flags" \in DOMAIN m
  /\ o \in 8 .. 15 /\ p.state = BeginOrder[o - 7]
  /\ o >= 11 => p.flags = m.flags

\* A buffer holds the octets but for the last ones.
Copied(buffer, octets, counter) ==
  /\ buffer # Null /\ Len(buffer) = Len(octets) /\ counter <= Len(octets)
  /\ \A i \in 1 .. Len(octets) - counter : buffer[i] = octets[i]

\* In the content or the padding of STDIN.
StdinAt(p, m, o) ==
  /\ "octets" \in DOMAIN m /\ m.octets # <<>> /\ m.padding > 0
  /\ \/ p.state = "STDIN_DATA" /\ p.stdin = Null /\ o = 8
     \/ /\ p.state = "STDIN_DATA" /\ Copied(p.stdin, m.octets, p.read_counter)
        /\ o + p.read_counter = 8 + Len(m.octets)
     \/ /\ p.state = "STDIN_PADDING" /\ p.stdin = m.octets
        /\ p.read_counter < m.padding
        /\ o + p.read_counter = 8 + Len(m.octets) + m.padding

\* The first so many parameters are those of m.
HoldsTo(p, m, n) ==
  \A i \in 1 .. n : p.params[i].name = m.pairs[i].name /\ p.params[i].value = m.pairs[i].value

\* The last parameter r of p is that of a pair that starts after so many octets
\* of the content, with lengths of a and b octets.
NameLengthAt(p, r, pair, start, a, o) ==
  /\ a = 4 /\ p.message_size = start + 4
  /\ r.value_length = 0 /\ r.name = Null /\ r.value = Null
  /\ \/ p.state = "NAME_LENGTH_B2" /\ o = 9 + start /\ r.name_length = 0
     \/ p.state = "NAME_LENGTH_B1" /\ o = 10 + start /\ r.name_length = 0
     \/ /\ p.state = "NAME_LENGTH_B0" /\ o = 11 + start
        /\ r.name_length = (Len(pair.name) \div 256) * 256

\* In the length of the value.
ValueLengthAt(p, r, pair, start, a, b, o) ==
  /\ r.name_length = Len(pair.name) /\ r.name = Null /\ r.value = Null
  /\ \/ /\ p.state = "VALUE_LENGTH_B3" /\ o = 8 + start + a /\ r.value_length = 0
        /\ p.message_size = start + a
     \/ /\ p.state \in {"VALUE_LENGTH_B2", "VALUE_LENGTH_B1", "VALUE_LENGTH_B0"}
        /\ b = 4 /\ p.message_size = start + a + 4
        /\ \/ p.state = "VALUE_LENGTH_B2" /\ o = 9 + start + a /\ r.value_length = 0
           \/ p.state = "VALUE_LENGTH_B1" /\ o = 10 + start + a /\ r.value_length = 0
           \/ /\ p.state = "VALUE_LENGTH_B0" /\ o = 11 + start + a
              /\ r.value_length = (Len(pair.value) \div 256) * 256

\* In the name: its buffer is not there yet, or lacks the octets to come.
NameAt(p, r, pair, start, a, b, o) ==
  /\ p.state = "NAME_DATA" /\ r.value = Null
  /\ r.name_length = Len(pair.name) /\ r.value_length = Len(pair.value)
  /\ \/ r.name = Null /\ p.message_size = start + a + b /\ o = 8 + start + a + b
     \/ /\ Copied(r.name, pair.name, p.read_counter)
        /\ p.message_size = start + a + b + Len(pair.name)
        /\ o + p.read_counter = 8 + start + a + b + Len(pair.name)

\* In the value, when its buffer is allocated.
ValueAt(p, r, pair, start, a, b, o) ==
  /\ p.state = "VALUE_DATA" /\ r.name = pair.name
  /\ Copied(r.value, pair.value, p.read_counter)
  /\ p.message_size = start + a + b + Len(pair.name) + Len(pair.value)
  /\ o + p.read_counter = 8 + start + a + b + Len(pair.name) + Len(pair.value)

\* How many octets a length takes.
LengthSize(n, long) == Len(EncodeLength(n, long))

\* Somewhere in a pair, the value's last octet included.
InPair(p, pair, start, o) ==
  LET r == LastParam(p)
      a == LengthSize(Len(pair.name), pair.long)
      b == LengthSize(Len(pair.value), pair.long)
  IN  \/ NameLengthAt(p, r, pair, start, a, o)
      \/ ValueLengthAt(p, r, pair, start, a, b, o)
      \/ NameAt(p, r, pair, start, a, b, o)
      \/ ValueAt(p, r, pair, start, a, b, o)

\* In the content or the padding of PARAMS.
ParamsAt(p, m, o) ==
  /\ "pairs" \in DOMAIN m /\ m.pairs # <<>>
  /\ \/ p.state = "NAME_LENGTH_B3" /\ p.params = <<>> /\ o = 8
     \/ /\ p.params # <<>> /\ Len(p.params) <= Len(m.pairs)
        /\ HoldsTo(p, m, Len(p.params) - 1)
        /\ InPair(p, m.pairs[Len(p.params)], Before(Encoded(m), Len(p.params) - 1), o)
     \/ /\ p.state = "PARAM_PADDING" /\ Holds(p, m)
        /\ p.read_counter < m.padding
        /\ o + p.read_counter = 8 + Len(Content(m)) + m.padding

\* All of m is read, and known.
FinishedAt(p, m, o) == 
  p.state = "FINISHED" /\ Holds(p, m) /\ o = 8 + Len(Content(m)) + m.padding

\* Having read o octets of m, and nothing else, the parser knows what they say.
Follows(p, m, o) ==
  \/ HeaderAt(p, m, o)
  \/ Headed(p, m) /\ (BeginAt(p, m, o) \/ StdinAt(p, m, o) \/ ParamsAt(p, m, o))
  \/ FinishedAt(p, m, o)

-----------------------------------------------------------------------------

\* A length takes one or four octets.
LEMMA LengthSizes ==
  ASSUME NEW n \in Ids, NEW long \in BOOLEAN
  PROVE  LengthSize(n, long) \in {1, 4}
  BY LengthOctets DEF LengthSize

\* How many octets a pair takes.
LEMMA PairSizes ==
  ASSUME NEW m, IsSent(m), "pairs" \in DOMAIN m, NEW k \in 1 .. Len(m.pairs)
  PROVE  LET pair == m.pairs[k] IN
           Len(Encoded(m)[k]) = LengthSize(Len(pair.name), pair.long)
             + LengthSize(Len(pair.value), pair.long) + Len(pair.name) + Len(pair.value)
<1>1. PICK pair : pair = m.pairs[k]
  OBVIOUS
<1>2. /\ pair \in Pairs /\ Len(pair.name) \in Ids /\ Len(pair.value) \in Ids
      /\ Encoded(m)[k] = EncodePair(pair)
  BY <1>1, PairsFit
<1>3. Parts(EncodePair(pair), EncodeLength(Len(pair.name), pair.long),
            EncodeLength(Len(pair.value), pair.long), pair.name, pair.value)
  BY <1>2, PairOctets
<1> QED
  BY <1>1, <1>2, <1>3, Zenon DEF Parts, LengthSize

\* A message with pairs has content.
LEMMA EmptyContent ==
  ASSUME NEW m, IsSent(m), "pairs" \in DOMAIN m, m.pairs # <<>>
  PROVE  Content(m) # <<>>
<1>1. /\ Len(m.pairs) \in Nat /\ 1 \in 1 .. Len(m.pairs)
  BY PairsFit
<1>2. PICK ps : ps = Encoded(m)
  OBVIOUS
<1>3. /\ ps \in Seq(Seq(Octet)) /\ Len(ps) = Len(m.pairs) /\ Content(m) = FlattenSeq(ps)
  BY <1>2, PairsFit
<1>4. /\ Before(ps, 1) <= Len(FlattenSeq(ps)) /\ Before(ps, 0) \in Nat
      /\ Before(ps, 1) = Before(ps, 0) + Len(ps[1])
  <2>1. 1 \in 1 .. Len(ps) /\ 1 - 1 = 0
    BY <1>1, <1>3
  <2> QED
    BY <1>3, <2>1, PartInWhole
<1>5. PICK pair : pair = m.pairs[1]
  OBVIOUS
<1>6. /\ pair \in Pairs /\ Len(pair.name) \in Ids /\ Len(pair.value) \in Ids
  BY <1>1, <1>5, PairsFit
<1>7. /\ LengthSize(Len(pair.name), pair.long) \in {1, 4}
      /\ LengthSize(Len(pair.value), pair.long) \in {1, 4}
      /\ Len(pair.name) \in Nat /\ Len(pair.value) \in Nat
  <2>1. pair.long \in BOOLEAN
    BY <1>6 DEF Pairs
  <2> QED
    BY <1>6, <2>1, LengthSizes, IdsAreNats
<1>8. Len(ps[1]) = LengthSize(Len(pair.name), pair.long)
             + LengthSize(Len(pair.value), pair.long) + Len(pair.name) + Len(pair.value)
  BY <1>1, <1>2, <1>5, PairSizes
<1>9. Len(ps[1]) > 0
  BY <1>7, <1>8
<1>10. Len(FlattenSeq(ps)) # 0
  BY <1>4, <1>7, <1>8, <1>9, SMTT(60)
<1> QED
  BY <1>3, <1>10

\* What a supported message may be.
Kinds(m) ==
  /\ Len(Content(m)) = 0 <=> Content(m) = <<>>
  /\ Content(m) = <<>> => m.padding = 0 /\ "flags" \notin DOMAIN m
  /\ "flags" \in DOMAIN m =>
       /\ m.type = BeginRequest /\ m.padding = 0 /\ "pairs" \notin DOMAIN m
       /\ Len(Content(m)) = 8 /\ Content(m)[3] = m.flags
       /\ "octets" \notin DOMAIN m
  /\ "pairs" \in DOMAIN m =>
       /\ m.type = Params /\ "octets" \notin DOMAIN m
       /\ Content(m) = <<>> <=> m.pairs = <<>>
  /\ "octets" \in DOMAIN m =>
       /\ Content(m) = m.octets
       /\ Content(m) # <<>> => m.type = Stdin /\ m.padding > 0
  /\ "flags" \in DOMAIN m \/ "pairs" \in DOMAIN m \/ "octets" \in DOMAIN m
  /\ m.type \in Octet /\ m.id \in Ids /\ m.padding \in Octet
  /\ Content(m) \in Seq(Octet) /\ Len(Content(m)) \in Ids

\* A supported message is of one of the kinds the parser can follow.
LEMMA SupportedKinds ==
  ASSUME NEW m, IsSent(m), IsSupported(m)
  PROVE  Kinds(m)
<1>1. /\ Content(m) \in Seq(Octet) /\ Len(Content(m)) \in Nat
      /\ "flags" \in DOMAIN m => Len(Content(m)) = 8 /\ Content(m)[3] = m.flags
      /\ "octets" \in DOMAIN m => Content(m) = m.octets
  BY ContentFacts
<1>2. Len(Content(m)) = 0 <=> Content(m) = <<>>
  BY <1>1
<1>3. Content(m) = <<>> => m.padding = 0 /\ "flags" \notin DOMAIN m
  BY <1>1, <1>2, SMT DEF IsSupported
<1>4. "flags" \in DOMAIN m => m.padding = 0
  BY DEF IsSupported
<1>5. "pairs" \in DOMAIN m => (Content(m) = <<>> <=> m.pairs = <<>>)
  <2> SUFFICES ASSUME "pairs" \in DOMAIN m, m.pairs = <<>> PROVE Content(m) = <<>>
    BY EmptyContent
  <2>1. /\ Encoded(m) \in Seq(Seq(Octet)) /\ Len(Encoded(m)) = 0
        /\ Content(m) = FlattenSeq(Encoded(m))
    BY PairsFit
  <2>2. /\ Upto(Encoded(m), 0) = <<>>
        /\ Upto(Encoded(m), Len(Encoded(m))) = FlattenSeq(Encoded(m))
    BY <2>1, UptoGrows
  <2> QED
    BY <2>1, <2>2
<1>6. "octets" \in DOMAIN m /\ Content(m) # <<>> => m.type = Stdin /\ m.padding > 0
  BY MessageKinds DEF IsSupported, IsSent
<1> QED
  BY <1>1, <1>2, <1>3, <1>4, <1>5, <1>6, MessageKinds DEF Kinds, IsSent

\* An octet of the header is understood: type, id, lengths, and what comes next.
LEMMA HeaderFollows ==
  ASSUME NEW m, IsSent(m), IsSupported(m), NEW p \in Parsers, NEW o, HeaderAt(p, m, o),
         NEW octet \in Octet, octet = Encode(m)[o + 1], NEW ok \in BOOLEAN
  PROVE  LET q == ParseOctet(p, octet, ok) IN
           p.state \in HeaderStates /\ Follows(q, m, o + 1)
<1> DEFINE q == ParseOctet(p, octet, ok)
<1>1. Kinds(m) /\ Sends(Encode(m), m)
  BY SupportedKinds, EncodeFacts
<1>2. /\ p.state = "VERSION" => Goes(p, q, "TYPE")
      /\ p.state = "TYPE" => Steps(p, q, "REQUEST_ID_B1", "type", octet)
      /\ p.state = "REQUEST_ID_B1" =>
           Steps(p, q, "REQUEST_ID_B0", "request_id", octet * 256)
      /\ p.state = "REQUEST_ID_B0" =>
           Steps(p, q, "CONTENT_LENGTH_B1", "request_id", p.request_id + octet)
      /\ p.state = "CONTENT_LENGTH_B1" =>
           Steps(p, q, "CONTENT_LENGTH_B0", "content_length", octet * 256)
      /\ p.state = "CONTENT_LENGTH_B0" =>
           Steps(p, q, "PADDING_LENGTH", "content_length", p.content_length + octet)
      /\ p.state = "PADDING_LENGTH" =>
           Steps(p, q, "PADDING_RESERVED", "padding_length", octet)
      /\ p.state = "PADDING_RESERVED" => Goes(p, q, AfterHeader(p))
  BY HeaderSteps
<1> HIDE DEF q
<1>3. p.state \in HeaderStates
  BY DEF HeaderAt, HeaderOrder, HeaderStates
<1>4. /\ (m.id \div 256) * 256 + (m.id % 256) = m.id
      /\ (Len(Content(m)) \div 256) * 256 + (Len(Content(m)) % 256) = Len(Content(m))
  BY <1>1, Halves DEF Kinds
<1>5. /\ p.params = <<>> /\ p.stdin = Null
  BY DEF HeaderAt
<1>6. PICK id, id1, id0, c, c1, c0 :
         /\ id = m.id /\ id1 = (m.id \div 256) /\ id0 = (m.id % 256)
         /\ c = Len(Content(m)) /\ c1 = c \div 256 /\ c0 = c % 256
  OBVIOUS
<1>7. id1 * 256 + id0 = id /\ c1 * 256 + c0 = c
  BY <1>4, <1>6
<1>8. o \in 0 .. 7 /\ o + 1 \in 1 .. 8
  BY DEF HeaderAt
<1>9. /\ o = 0 => p.state = "VERSION"
      /\ o = 1 => p.state = "TYPE" /\ octet = m.type
      /\ o = 2 => /\ p.state = "REQUEST_ID_B1" /\ octet = id1
                  /\ p.type = m.type
      /\ o = 3 => /\ p.state = "REQUEST_ID_B0" /\ octet = id0
                  /\ p.type = m.type /\ p.request_id = id1 * 256
      /\ o = 4 => /\ p.state = "CONTENT_LENGTH_B1" /\ octet = c1
                  /\ p.type = m.type /\ p.request_id = id
      /\ o = 5 => /\ p.state = "CONTENT_LENGTH_B0" /\ octet = c0
                  /\ p.type = m.type /\ p.request_id = id /\ p.content_length = c1 * 256
      /\ o = 6 => /\ p.state = "PADDING_LENGTH" /\ octet = m.padding
                  /\ p.type = m.type /\ p.request_id = id /\ p.content_length = c
      /\ o = 7 => /\ p.state = "PADDING_RESERVED" /\ p.padding_length = m.padding
                  /\ p.type = m.type /\ p.request_id = id /\ p.content_length = c
  <2>1. /\ o = 0 => p.state = "VERSION"
        /\ o = 1 => p.state = "TYPE"
        /\ o = 2 => p.state = "REQUEST_ID_B1"
        /\ o = 3 => p.state = "REQUEST_ID_B0"
        /\ o = 4 => p.state = "CONTENT_LENGTH_B1"
        /\ o = 5 => p.state = "CONTENT_LENGTH_B0"
        /\ o = 6 => p.state = "PADDING_LENGTH"
        /\ o = 7 => p.state = "PADDING_RESERVED"
    BY DEF HeaderAt, HeaderOrder
  <2>2. /\ o = 1 => octet = m.type
        /\ o = 2 => octet = id1
        /\ o = 3 => octet = id0
        /\ o = 4 => octet = c1
        /\ o = 5 => octet = c0
        /\ o = 6 => octet = m.padding
    BY <1>1, <1>6, SMTT(60) DEF Sends
  <2>3. /\ o >= 2 => p.type = m.type
        /\ o = 3 => p.request_id = id1 * 256
        /\ o >= 4 => p.request_id = id
        /\ o = 5 => p.content_length = c1 * 256
        /\ o >= 6 => p.content_length = c
        /\ o >= 7 => p.padding_length = m.padding
    BY <1>6, Zenon DEF HeaderAt
  <2> QED
    BY <1>8, <2>1, <2>2, <2>3
<1>10. CASE o # 7
  <2>1. /\ q.state = HeaderOrder[o + 1 + 1] /\ q.params = <<>> /\ q.stdin = Null
        /\ o + 1 >= 2 => q.type = m.type
        /\ o + 1 = 3 => q.request_id = id1 * 256
        /\ o + 1 >= 4 => q.request_id = id
        /\ o + 1 = 5 => q.content_length = c1 * 256
        /\ o + 1 >= 6 => q.content_length = c
        /\ o + 1 >= 7 => q.padding_length = m.padding
    BY <1>2, <1>5, <1>7, <1>8, <1>9, <1>10
    DEF Goes, Steps, Keeps, ParserFields, HeaderOrder
  <2>2. o + 1 \in 0 .. 7
    BY <1>8, <1>10
  <2>3. HeaderAt(q, m, o + 1)
    BY <1>6, <2>1, <2>2 DEF HeaderAt
  <2> QED
    BY <1>3, <2>3 DEF Follows, q
<1>11. CASE o = 7
  <2>1. Goes(p, q, AfterHeader(p))
    BY <1>2, <1>9, <1>11
  <2>2. /\ q.state = AfterHeader(p) /\ q.params = <<>> /\ q.stdin = Null /\ Headed(q, m)
    BY <1>5, <1>6, <1>9, <1>11, <2>1 DEF Goes, Keeps, ParserFields, Headed
  <2>3. p.type = m.type /\ p.content_length = Len(Content(m))
    BY <1>6, <1>9, <1>11
  <2>6. o + 1 = 8
    BY <1>11
  <2>4. CASE Content(m) = <<>>
    <3>1. q.state = "FINISHED" /\ m.padding = 0
      BY <1>1, <2>2, <2>3, <2>4 DEF AfterHeader, Kinds
    <3>2. Holds(q, m)
      BY <1>1, <2>2, <2>4 DEF Holds, Kinds, Headed, Stdin, Params, BeginRequest
    <3>3. o + 1 = 8 + Len(Content(m)) + m.padding
      BY <1>1, <1>11, <2>4, <3>1 DEF Kinds
    <3> QED
      BY <1>3, <3>1, <3>2, <3>3 DEF Follows, FinishedAt, q
  <2>5. CASE Content(m) # <<>>
    <3>1. q.state = DispatchType(m.type)
      BY <1>1, <2>2, <2>3, <2>5 DEF AfterHeader, Kinds
    <3>2. CASE "flags" \in DOMAIN m
      <4>1. q.state = "BEGIN_ROLE_B1"
        BY <1>1, <3>1, <3>2 DEF Kinds, DispatchType, BeginRequest, Params, Stdin
      <4>2. BeginAt(q, m, 8)
        BY <3>2, <4>1 DEF BeginAt, BeginOrder
      <4> QED
        BY <1>3, <2>2, <2>6, <4>2, Zenon DEF Follows, q
    <3>3. CASE "pairs" \in DOMAIN m
      <4>1. q.state = "NAME_LENGTH_B3" /\ m.pairs # <<>>
        BY <1>1, <2>5, <3>1, <3>3 DEF Kinds, DispatchType, BeginRequest, Params, Stdin
      <4>2. ParamsAt(q, m, 8)
        BY <2>2, <3>3, <4>1 DEF ParamsAt
      <4> QED
        BY <1>3, <2>2, <2>6, <4>2, Zenon DEF Follows, q
    <3>4. CASE "octets" \in DOMAIN m
      <4>1. q.state = "STDIN_DATA" /\ m.octets # <<>> /\ m.padding > 0
        BY <1>1, <2>5, <3>1, <3>4 DEF Kinds, DispatchType, BeginRequest, Params, Stdin
      <4>2. StdinAt(q, m, 8)
        BY <2>2, <3>4, <4>1 DEF StdinAt
      <4> QED
        BY <1>3, <2>2, <2>6, <4>2, Zenon DEF Follows, q
    <3> QED
      BY <1>1, <3>2, <3>3, <3>4 DEF Kinds
  <2> QED
    BY <2>4, <2>5
<1> QED
  BY <1>10, <1>11

\* An octet of the body of BEGIN_REQUEST is understood, up to the last one.
LEMMA BeginFollows ==
  ASSUME NEW m, IsSent(m), IsSupported(m), NEW p \in Parsers, NEW o,
         Headed(p, m), BeginAt(p, m, o),
         NEW octet \in Octet, octet = Encode(m)[o + 1], NEW ok \in BOOLEAN
  PROVE  LET q == ParseOctet(p, octet, ok) IN
           p.state \in BeginStates /\ Follows(q, m, o + 1)
<1> DEFINE q == ParseOctet(p, octet, ok)
<1>1. Kinds(m) /\ Sends(Encode(m), m) /\ "flags" \in DOMAIN m
  BY SupportedKinds, EncodeFacts DEF BeginAt
<1>2. /\ p.state = "BEGIN_ROLE_B1" => Steps(p, q, "BEGIN_ROLE_B0", "role", octet * 256)
      /\ p.state = "BEGIN_ROLE_B0" => Steps(p, q, "BEGIN_FLAGS", "role", p.role + octet)
      /\ p.state = "BEGIN_FLAGS" => Steps(p, q, "BEGIN_SKIP5", "flags", octet)
      /\ p.state = "BEGIN_SKIP5" => Goes(p, q, "BEGIN_SKIP4")
      /\ p.state = "BEGIN_SKIP4" => Goes(p, q, "BEGIN_SKIP3")
      /\ p.state = "BEGIN_SKIP3" => Goes(p, q, "BEGIN_SKIP2")
      /\ p.state = "BEGIN_SKIP2" => Goes(p, q, "BEGIN_SKIP1")
      /\ p.state = "BEGIN_SKIP1" => Steps(p, q, "FINISHED", "message_size", 16)
  BY BeginSteps
<1> HIDE DEF q
<1>3. p.state \in BeginStates
  BY DEF BeginAt, BeginOrder, BeginStates
<1>4. o = 10 => octet = m.flags
  <2>1. Content(m)[3] = m.flags /\ 3 \in 1 .. Len(Content(m)) /\ 8 + 3 = 10 + 1
    <3>1. Content(m)[3] = m.flags /\ Len(Content(m)) = 8
      BY <1>1, Zenon DEF Kinds
    <3> QED
      BY <3>1
  <2>2. Encode(m)[8 + 3] = Content(m)[3]
    BY <1>1, <2>1, Zenon DEF Sends
  <2> QED
    BY <2>1, <2>2
<1>5. /\ o \in 8 .. 15
      /\ o = 8 => p.state = "BEGIN_ROLE_B1"
      /\ o = 9 => p.state = "BEGIN_ROLE_B0"
      /\ o = 10 => p.state = "BEGIN_FLAGS"
      /\ o = 11 => p.state = "BEGIN_SKIP5"
      /\ o = 12 => p.state = "BEGIN_SKIP4"
      /\ o = 13 => p.state = "BEGIN_SKIP3"
      /\ o = 14 => p.state = "BEGIN_SKIP2"
      /\ o = 15 => p.state = "BEGIN_SKIP1"
      /\ o >= 11 => p.flags = m.flags
  BY DEF BeginAt, BeginOrder
<1>6. Headed(q, m)
  BY <1>2, <1>5 DEF Goes, Steps, Keeps, ParserFields, Headed
<1>7. CASE o # 15
  <2>1. /\ q.state = BeginOrder[o + 1 - 7]
        /\ o + 1 >= 11 => q.flags = m.flags
    BY <1>2, <1>4, <1>5, <1>7 DEF Goes, Steps, Keeps, ParserFields, BeginOrder
  <2>2. o + 1 \in 8 .. 15
    BY <1>5, <1>7
  <2>3. BeginAt(q, m, o + 1)
    BY <1>1, <2>1, <2>2 DEF BeginAt
  <2> QED
    BY <1>3, <1>6, <2>3 DEF Follows, q
<1>8. CASE o = 15
  <2>1. q.state = "FINISHED" /\ q.flags = m.flags
    BY <1>2, <1>5, <1>8 DEF Steps, Keeps, ParserFields
  <2>2. Holds(q, m)
    BY <1>1, <1>6, <2>1 DEF Kinds, Holds, Headed, BeginRequest, Stdin
  <2>3. o + 1 = 8 + Len(Content(m)) + m.padding
    <3>1. Len(Content(m)) = 8 /\ m.padding = 0
      BY <1>1, Zenon DEF Kinds
    <3> QED
      BY <1>8, <3>1
  <2> QED
    BY <1>3, <2>1, <2>2, <2>3 DEF Follows, FinishedAt, q
<1> QED
  BY <1>7, <1>8

\* A buffer that lacks no octet is what was sent.
LEMMA CopiedAll ==
  ASSUME NEW S, NEW T, NEW b \in Seq(S), NEW octets \in Seq(T), Copied(b, octets, 0)
  PROVE  b = octets
<1>1. /\ Len(b) = Len(octets) /\ Len(octets) \in Nat
      /\ \A i \in 1 .. Len(octets) : b[i] = octets[i]
  BY DEF Copied
<1>2. b = [i \in 1 .. Len(b) |-> b[i]] /\ octets = [i \in 1 .. Len(octets) |-> octets[i]]
  OBVIOUS
<1> QED
  BY <1>1, <1>2

\* The next octet, stored in its place.
LEMMA CopiedMore ==
  ASSUME NEW b \in Bytes, NEW octets \in Seq(Octet), NEW c \in 1 .. Len(octets),
         Copied(b, octets, c), NEW d \in Bytes, Len(d) = Len(b),
         \A i \in 1 .. Len(b) :
           d[i] = IF i = Len(b) - c + 1 THEN octets[Len(octets) - c + 1] ELSE b[i]
  PROVE  Copied(d, octets, c - 1)
<1>1. /\ Len(octets) \in Nat /\ Len(b) = Len(octets) /\ d # Null
      /\ \A i \in 1 .. Len(octets) - c : b[i] = octets[i]
  BY BytesAreNotNull DEF Copied
<1>2. ASSUME NEW i \in 1 .. Len(octets) - (c - 1)
      PROVE  d[i] = octets[i]
  <2>1. i \in 1 .. Len(b)
    BY <1>1
  <2>2. CASE i = Len(octets) - c + 1
    BY <1>1, <2>1, <2>2
  <2>3. CASE i # Len(octets) - c + 1
    <3>1. i \in 1 .. Len(octets) - c
      <4>1. PICK l : l = Len(octets)
        OBVIOUS
      <4>2. l \in Nat /\ c \in 1 .. l /\ i \in 1 .. l - (c - 1) /\ i # l - c + 1
        BY <1>1, <2>3, <4>1
      <4>3. i \in 1 .. l - c
        BY <4>2
      <4> QED
        BY <4>1, <4>3
    <3> QED
      BY <1>1, <2>1, <2>3, <3>1
  <2> QED
    BY <2>2, <2>3
<1> QED
  BY <1>1, <1>2 DEF Copied

\* A new buffer lacks all the octets.
LEMMA FreshCopied ==
  ASSUME NEW octets \in Seq(Octet)
  PROVE  Copied(Buffer(Len(octets)), octets, Len(octets))
  BY BufferFacts DEF Copied

\* What the parser does with the next octet of m, or with one after its end.
Advances(q, m, o, octet) ==
  /\ o < Len(Encode(m)) /\ octet = Encode(m)[o + 1] =>
       Follows(q, m, o + 1) /\ q.state \notin FinalStates
  /\ o = Len(Encode(m)) => FinishedAt(q, m, o)

\* An octet of STDIN is understood, and the one after its padding finishes it.
LEMMA StdinFollows ==
  ASSUME NEW m, IsSent(m), IsSupported(m), NEW p \in Parsers, NEW o \in Nat,
         Headed(p, m), StdinAt(p, m, o), NEW octet \in Octet, NEW ok \in BOOLEAN, ok
  PROVE  Advances(ParseOctet(p, octet, ok), m, o, octet)
<1> DEFINE q == ParseOctet(p, octet, ok)
<1>1. PICK n, pad : n = Len(m.octets) /\ pad = m.padding
  OBVIOUS
<1>2. /\ "octets" \in DOMAIN m /\ m.octets \in Seq(Octet) /\ n \in Nat /\ n # 0
      /\ Content(m) = m.octets /\ pad \in Nat /\ pad > 0 /\ m.type = Stdin
      /\ Len(Encode(m)) = 8 + n + pad
      /\ \A i \in 1 .. n : Encode(m)[8 + i] = m.octets[i]
      /\ p.content_length = n /\ p.padding_length = pad
      /\ "flags" \notin DOMAIN m /\ "pairs" \notin DOMAIN m
  <2>1. "octets" \in DOMAIN m /\ m.octets # <<>> /\ m.padding > 0
    BY DEF StdinAt
  <2>2. Kinds(m) /\ Sends(Encode(m), m)
    BY SupportedKinds, EncodeFacts
  <2>3. /\ Content(m) = m.octets /\ m.octets \in Seq(Octet)
        /\ m.padding \in Octet /\ m.type = Stdin
        /\ "flags" \notin DOMAIN m /\ "pairs" \notin DOMAIN m
    BY <2>1, <2>2, Zenon DEF Kinds
  <2>4. /\ Len(Encode(m)) = 8 + Len(Content(m)) + m.padding
        /\ \A i \in 1 .. Len(Content(m)) : Encode(m)[8 + i] = Content(m)[i]
    BY <2>2, Zenon DEF Sends
  <2>5. n \in Nat /\ n # 0
    BY <1>1, <2>1, <2>3
  <2>6. p.content_length = n /\ p.padding_length = pad
    BY <1>1, <2>3 DEF Headed
  <2>7. pad \in Nat /\ pad > 0
    BY <1>1, <2>1, <2>3, OctetIsNat
  <2>8. /\ Len(Encode(m)) = 8 + n + pad
        /\ \A i \in 1 .. n : Encode(m)[8 + i] = m.octets[i]
    BY <1>1, <2>3, <2>4
  <2> QED
    BY <2>1, <2>3, <2>5, <2>6, <2>7, <2>8
<1>3. CASE p.state = "STDIN_DATA"
  <2>1. PICK b, k, size :
          IF p.stdin = Null
          THEN /\ ok /\ b = Buffer(p.content_length) /\ k = p.content_length
               /\ size = p.message_size + p.content_length
          ELSE b = p.stdin /\ k = p.read_counter /\ size = p.message_size
    OBVIOUS
  <2>2. Copied(b, m.octets, k) /\ o + k = 8 + n
    <3>1. CASE p.stdin = Null
      <4>1. o = 8
        BY <1>3, <3>1 DEF StdinAt, Copied
      <4>2. b = Buffer(n) /\ k = n
        BY <1>2, <2>1, <3>1
      <4> QED
        BY <1>1, <1>2, <4>1, <4>2, FreshCopied
    <3>2. CASE p.stdin # Null
      BY <1>1, <1>3, <2>1, <3>2 DEF StdinAt
    <3> QED
      BY <3>1, <3>2
  <2>3. b \in Bytes /\ k \in Nat /\ size \in Nat /\ k <= Len(b) /\ Len(b) = n
    <3>1. /\ p.content_length \in Nat /\ p.read_counter \in Nat /\ p.message_size \in Nat
          /\ p.stdin \in Bytes \cup {Null}
      BY DEF Parsers
    <3>2. p.message_size + p.content_length \in Nat
      BY <3>1
    <3>3. b \in Bytes /\ k \in Nat /\ size \in Nat
      BY <2>1, <3>1, <3>2, BufferFacts
    <3> QED
      BY <1>1, <2>2, <3>3 DEF Copied
  <2> DEFINE stored == [b EXCEPT ![Len(b) - k + 1] = octet]
  <2>4. /\ k > 0 => StepsStdin(p, q, "STDIN_DATA", stored, k - 1, size)
        /\ k = 0 /\ p.padding_length > 0 =>
             StepsStdin(p, q, "STDIN_PADDING", b, p.padding_length - 1, size)
    BY <1>3, <2>1, <2>3, StdinSteps
  <2> HIDE DEF q
  <2>5. Headed(q, m)
    <3>1. Keeps(p, q, {"state", "stdin", "read_counter", "message_size"})
      BY <1>2, <2>3, <2>4 DEF StepsStdin
    <3> QED
      BY <3>1 DEF Headed, Keeps, ParserFields
  <2>6. o # Len(Encode(m))
    BY <1>2, <2>2, <2>3
  <2>7. CASE k > 0 /\ octet = Encode(m)[o + 1]
    <3>1. k \in 1 .. n /\ o + 1 = 8 + (n - k + 1) /\ n - k + 1 \in 1 .. n
      BY <1>2, <2>2, <2>3, <2>7, SMTT(60)
    <3>2. octet = m.octets[n - k + 1]
      BY <1>2, <2>7, <3>1
    <3>3. /\ stored \in Bytes /\ Len(stored) = Len(b)
          /\ \A i \in 1 .. Len(b) : stored[i] = IF i = Len(b) - k + 1 THEN octet ELSE b[i]
      <4>1. k \in 1 .. Len(b)
        BY <2>3, <3>1
      <4> QED
        BY <2>3, <4>1 DEF Bytes
    <3> HIDE DEF stored
    <3>4. Copied(stored, m.octets, k - 1)
      BY <1>1, <1>2, <2>2, <2>3, <3>1, <3>2, <3>3, CopiedMore
    <3>5. q.state = "STDIN_DATA" /\ q.stdin = stored /\ q.read_counter = k - 1
      BY <2>4, <2>7 DEF StepsStdin
    <3>6. (o + 1) + (k - 1) = 8 + n
      BY <2>2, <2>3
    <3>7. StdinAt(q, m, o + 1)
      BY <1>1, <1>2, <3>4, <3>5, <3>6 DEF StdinAt
    <3> QED
      BY <2>5, <2>6, <3>5, <3>7 DEF Advances, Follows, FinalStates, q
  <2>8. CASE k = 0
    <3>1. q.state = "STDIN_PADDING" /\ q.stdin = b /\ q.read_counter = pad - 1
      BY <1>2, <2>4, <2>8 DEF StepsStdin
    <3>2. b = m.octets
      <4>1. Copied(b, m.octets, 0)
        BY <2>2, <2>8
      <4> QED
        BY <1>2, <2>3, <4>1, CopiedAll DEF Bytes
    <3>3. (o + 1) + (pad - 1) = 8 + n + pad /\ pad - 1 < pad
      BY <1>2, <2>2, <2>8
    <3>4. StdinAt(q, m, o + 1)
      BY <1>1, <1>2, <3>1, <3>2, <3>3 DEF StdinAt
    <3> QED
      BY <2>5, <2>6, <3>1, <3>4 DEF Advances, Follows, FinalStates, q
  <2>9. k > 0 \/ k = 0
    BY <2>3
  <2>10. CASE octet # Encode(m)[o + 1]
    BY <2>6, <2>10 DEF Advances
  <2> QED
    BY <2>7, <2>8, <2>9, <2>10
<1>4. CASE p.state = "STDIN_PADDING"
  <2>1. q = ParsePadding(p)
    BY <1>4 DEF ParseOctet, ParseStdin, HeaderStates, BeginStates, LengthStates, FinalStates
  <2>2. /\ q \in Parsers /\ Keeps(p, q, {"state", "read_counter"})
        /\ p.read_counter = 0 => q.state = "FINISHED"
        /\ p.read_counter # 0 => q.state = p.state /\ q.read_counter = p.read_counter - 1
    BY <2>1, PaddingFacts
  <2> HIDE DEF q
  <2>3. /\ p.stdin = m.octets /\ p.read_counter < pad /\ p.read_counter \in Nat
        /\ o + p.read_counter = 8 + n + pad
    BY <1>1, <1>4 DEF StdinAt, Parsers
  <2>4. Headed(q, m) /\ q.stdin = m.octets
    BY <2>2, <2>3 DEF Headed, Keeps, ParserFields
  <2>5. CASE p.read_counter = 0
    <3>1. q.state = "FINISHED" /\ o = 8 + n + pad
      BY <2>2, <2>3, <2>5
    <3>2. Holds(q, m)
      BY <1>2, <2>4 DEF Holds, Headed
    <3>3. FinishedAt(q, m, o)
      BY <1>1, <1>2, <3>1, <3>2 DEF FinishedAt
    <3> QED
      <4>1. ~(o < Len(Encode(m)))
        BY <1>2, <3>1
      <4> QED
        BY <3>3, <4>1 DEF Advances, q
  <2>6. CASE p.read_counter # 0
    <3>1. q.state = "STDIN_PADDING" /\ q.read_counter = p.read_counter - 1
      BY <1>4, <2>2, <2>6
    <3>2. (o + 1) + q.read_counter = 8 + n + pad /\ q.read_counter < pad
      BY <1>2, <2>3, <2>6, <3>1
    <3>3. StdinAt(q, m, o + 1)
      BY <1>1, <1>2, <2>4, <3>1, <3>2 DEF StdinAt
    <3>4. o # Len(Encode(m))
      BY <1>2, <2>3, <2>6
    <3> QED
      BY <2>4, <3>1, <3>3, <3>4 DEF Advances, Follows, FinalStates, q
  <2> QED
    BY <2>5, <2>6
<1> QED
  BY <1>3, <1>4 DEF StdinAt

-----------------------------------------------------------------------------
(***************************************************************************)
(* Where the octets of a pair are.                                         *)
(***************************************************************************)

\* A length of so many octets after so many octets of e.
LengthOnWire(e, at, n, size) ==
  \/ size = 1 /\ e[at + 1] = n /\ n < 128
  \/ /\ size = 4 /\ e[at + 1] = 128 /\ e[at + 2] = 0
     /\ e[at + 3] = n \div 256 /\ e[at + 4] = n % 256

OctetsOnWire(e, at, octets) == \A i \in 1 .. Len(octets) : e[at + i] = octets[i]

PairOnWire(e, pair, start, a, b) ==
  /\ pair \in Pairs /\ Len(pair.name) \in Ids /\ Len(pair.value) \in Ids
  /\ a = LengthSize(Len(pair.name), pair.long) /\ a \in {1, 4}
  /\ b = LengthSize(Len(pair.value), pair.long) /\ b \in {1, 4}
  /\ start \in Nat
  /\ LengthOnWire(e, 8 + start, Len(pair.name), a)
  /\ LengthOnWire(e, 8 + start + a, Len(pair.value), b)
  /\ OctetsOnWire(e, 8 + start + a + b, pair.name)
  /\ OctetsOnWire(e, 8 + start + a + b + Len(pair.name), pair.value)

\* A length that is found on the wire is LengthOnWire there.
LEMMA LengthPlaced ==
  ASSUME NEW n \in Ids, NEW long \in BOOLEAN, NEW e, NEW at \in Nat,
         NEW d, d = EncodeLength(n, long), \A i \in 1 .. Len(d) : e[at + i] = d[i]
  PROVE  LengthOnWire(e, at, n, Len(d))
<1>1. /\ Len(d) \in {1, 4}
      /\ Len(d) = 1 => d[1] = n /\ n < 128
      /\ Len(d) = 4 => d[1] = 128 /\ d[2] = 0 /\ d[3] = n \div 256 /\ d[4] = n % 256
  BY LengthOctets
<1>2. CASE Len(d) = 1
  BY <1>1, <1>2 DEF LengthOnWire
<1>3. CASE Len(d) = 4
  <2>1. e[at + 1] = d[1] /\ e[at + 2] = d[2] /\ e[at + 3] = d[3] /\ e[at + 4] = d[4]
    BY <1>3
  <2> QED
    BY <1>1, <1>3, <2>1, Zenon DEF LengthOnWire
<1> QED
  BY <1>1, <1>2, <1>3

\* The k-th pair of a message is PairOnWire where the pairs before it end.
LEMMA PairPlaced ==
  ASSUME NEW m, IsSent(m), "pairs" \in DOMAIN m, NEW k \in 1 .. Len(m.pairs),
         NEW pair, pair = m.pairs[k], NEW start, start = Before(Encoded(m), k - 1),
         NEW a, a = LengthSize(Len(pair.name), pair.long),
         NEW b, b = LengthSize(Len(pair.value), pair.long)
  PROVE  /\ PairOnWire(Encode(m), pair, start, a, b)
         /\ Before(Encoded(m), k) = start + a + b + Len(pair.name) + Len(pair.value)
         /\ IF k = Len(m.pairs) THEN Before(Encoded(m), k) = Len(Content(m))
                                ELSE Before(Encoded(m), k) < Len(Content(m))
<1>1. PICK ps, e, d, c : /\ ps = Encoded(m) /\ e = Encode(m) /\ d = EncodePair(pair)
                         /\ c = Content(m)
  OBVIOUS
<1>2. /\ Len(m.pairs) \in Nat /\ ps \in Seq(Seq(Octet)) /\ Len(ps) = Len(m.pairs)
      /\ c = FlattenSeq(ps)
      /\ \A n \in 1 .. Len(ps) :
           /\ ps[n] = EncodePair(m.pairs[n]) /\ m.pairs[n] \in Pairs
           /\ Len(m.pairs[n].name) \in Ids /\ Len(m.pairs[n].value) \in Ids
  BY <1>1, PairsFit
<1>3. /\ ps[k] = d /\ pair \in Pairs /\ Len(pair.name) \in Ids /\ Len(pair.value) \in Ids
      /\ pair.long \in BOOLEAN /\ k \in 1 .. Len(ps)
      /\ Len(pair.name) \in Nat /\ Len(pair.value) \in Nat
  <2>1. /\ ps[k] = d /\ pair \in Pairs /\ Len(pair.name) \in Ids /\ Len(pair.value) \in Ids
    BY <1>1, <1>2
  <2> QED
    BY <1>2, <2>1, IdsAreNats DEF Pairs
<1>4. a \in {1, 4} /\ b \in {1, 4}
  BY <1>3, LengthSizes
<1>5. PICK x, y : /\ x = EncodeLength(Len(pair.name), pair.long)
                  /\ y = EncodeLength(Len(pair.value), pair.long)
  OBVIOUS
<1>6. d \in Seq(Octet) /\ Parts(d, x, y, pair.name, pair.value) /\ a = Len(x) /\ b = Len(y)
  BY <1>1, <1>3, <1>5, PairOctets DEF LengthSize
<1>7. /\ start \in Nat /\ Before(ps, k) = start + Len(d) /\ Before(ps, k) <= Len(c)
      /\ Before(ps, k) \in Nat
      /\ \A i \in 1 .. Len(d) : c[start + i] = d[i]
  BY <1>1, <1>2, <1>3, PartInWhole, SMTT(60)
<1>8. /\ c \in Seq(Octet) /\ Len(c) \in Nat
      /\ \A i \in 1 .. Len(c) : e[8 + i] = c[i]
  <2>1. c \in Seq(Octet) /\ Len(c) \in Nat /\ Sends(e, m)
    BY <1>1, ContentFacts, EncodeFacts
  <2> QED
    BY <1>1, <2>1, Zenon DEF Sends
<1>9. Len(d) = a + b + Len(pair.name) + Len(pair.value)
  BY <1>6, Zenon DEF Parts
<1>18. PICK nl, vl, ld, u, v, t : /\ nl = Len(pair.name) /\ vl = Len(pair.value) /\ ld = Len(d)
                                  /\ u = a /\ v = b /\ t = start
  OBVIOUS
<1>19. /\ u \in Nat /\ v \in Nat /\ nl \in Nat /\ vl \in Nat /\ t \in Nat
       /\ ld = u + v + nl + vl
  <2>1. u \in Nat /\ v \in Nat
    BY <1>4, <1>18
  <2>2. nl \in Nat /\ vl \in Nat /\ t \in Nat
    BY <1>3, <1>7, <1>18
  <2>3. ld = u + v + nl + vl
    BY <1>9, <1>18, Zenon
  <2> QED
    BY <2>1, <2>2, <2>3
<1>10. ASSUME NEW i \in 1 .. Len(d)
       PROVE  e[8 + start + i] = d[i]
  <2>1. PICK l, j : l = Len(d) /\ j = start + i
    OBVIOUS
  <2>2. l \in Nat
    BY <1>6, <2>1
  <2>3. PICK g, h : g = Before(ps, k) /\ h = Len(c)
    OBVIOUS
  <2>4. g = start + l /\ g <= h /\ h \in Nat /\ start \in Nat /\ i \in 1 .. l
    BY <1>7, <1>8, <2>1, <2>3
  <2>7. start \in Nat /\ i \in Nat /\ i >= 1 /\ i <= l
    BY <2>2, <2>4
  <2>5. j \in 1 .. h /\ 8 + j = 8 + start + i
    <3>1. j = start + i
      BY <2>1
    <3>2. j \in Nat /\ j >= 1 /\ j <= g
      BY <2>2, <2>4, <2>7, <3>1, SMTT(60)
    <3>3. 8 + j = 8 + start + i
      BY <2>7, <3>1
    <3>4. g \in Nat /\ g <= h /\ h \in Nat
      BY <2>2, <2>4, SMTT(60)
    <3> QED
      BY <3>2, <3>3, <3>4
  <2>6. e[8 + j] = c[j]
    BY <1>8, <2>3, <2>5
  <2> QED
    BY <1>7, <2>1, <2>5, <2>6
<1>20. \A i \in 1 .. Len(d) : e[8 + t + i] = d[i]
  BY <1>10, <1>18, Zenon
<1>21. u = Len(x) /\ v = Len(y)
  BY <1>6, <1>18, Zenon
<1>11. LengthOnWire(e, 8 + t, Len(pair.name), u)
  <2>1. \A i \in 1 .. Len(x) : i \in 1 .. Len(d) /\ d[i] = x[i]
    <3>1. \A i \in 1 .. u : i \in 1 .. ld
      BY <1>19
    <3> QED
      BY <1>6, <1>18, <1>21, <3>1, Zenon DEF Parts
  <2>2. \A i \in 1 .. Len(x) : e[8 + t + i] = x[i]
    BY <1>20, <2>1
  <2>3. 8 + t \in Nat
    BY <1>19
  <2> QED
    BY <1>3, <1>5, <1>21, <2>2, <2>3, LengthPlaced
<1>12. LengthOnWire(e, 8 + t + u, Len(pair.value), v)
  <2>1. \A i \in 1 .. Len(y) : u + i \in 1 .. Len(d) /\ d[u + i] = y[i]
    <3>1. \A i \in 1 .. v : u + i \in 1 .. ld
      BY <1>19
    <3> QED
      BY <1>6, <1>18, <1>21, <3>1, Zenon DEF Parts
  <2>2. \A i \in 1 .. Len(y) : e[8 + t + u + i] = y[i]
    <3> SUFFICES ASSUME NEW i \in 1 .. Len(y) PROVE e[8 + t + u + i] = y[i]
      OBVIOUS
    <3>1. e[8 + t + (u + i)] = d[u + i]
      BY <1>20, <2>1
    <3>2. 8 + t + (u + i) = 8 + t + u + i
      <4>1. i \in 1 .. v
        BY <1>21
      <4> QED
        BY <1>19, <4>1
    <3> QED
      BY <2>1, <3>1, <3>2
  <2>3. 8 + t + u \in Nat
    BY <1>19
  <2> QED
    BY <1>3, <1>5, <1>21, <2>2, <2>3, LengthPlaced, ZenonT(60)
<1>13. OctetsOnWire(e, 8 + t + u + v, pair.name)
  <2> SUFFICES ASSUME NEW i \in 1 .. Len(pair.name)
               PROVE  e[8 + t + u + v + i] = pair.name[i]
    BY DEF OctetsOnWire
  <2>0. i \in 1 .. nl
    BY <1>18
  <2>1. u + v + i \in 1 .. Len(d) /\ d[u + v + i] = pair.name[i]
    <3>1. u + v + i \in 1 .. ld
      BY <1>19, <2>0
    <3> QED
      BY <1>6, <1>18, <1>21, <3>1, Zenon DEF Parts
  <2>2. e[8 + t + (u + v + i)] = d[u + v + i]
    BY <1>20, <2>1
  <2>3. 8 + t + (u + v + i) = 8 + t + u + v + i
    BY <1>19, <2>0
  <2> QED
    BY <2>1, <2>2, <2>3
<1>14. OctetsOnWire(e, 8 + t + u + v + Len(pair.name), pair.value)
  <2> SUFFICES ASSUME NEW i \in 1 .. Len(pair.value)
               PROVE  e[8 + t + u + v + nl + i] = pair.value[i]
    BY <1>18 DEF OctetsOnWire
  <2>0. i \in 1 .. vl
    BY <1>18
  <2>1. u + v + nl + i \in 1 .. Len(d) /\ d[u + v + nl + i] = pair.value[i]
    <3>1. u + v + nl + i \in 1 .. ld
      BY <1>19, <2>0
    <3> QED
      BY <1>6, <1>18, <1>21, <3>1, Zenon DEF Parts
  <2>2. e[8 + t + (u + v + nl + i)] = d[u + v + nl + i]
    BY <1>20, <2>1
  <2>3. 8 + t + (u + v + nl + i) = 8 + t + u + v + nl + i
    BY <1>19, <2>0
  <2> QED
    BY <2>1, <2>2, <2>3
<1>15. k = Len(m.pairs) => Before(ps, k) = Len(c)
  <2>1. Upto(ps, Len(ps)) = FlattenSeq(ps)
    BY <1>2, UptoGrows
  <2> QED
    BY <1>2, <2>1 DEF Before
<1>16. k # Len(m.pairs) => Before(ps, k) < Len(c)
  <2> SUFFICES ASSUME k # Len(m.pairs) PROVE Before(ps, k) < Len(c)
    OBVIOUS
  <2>1. k + 1 \in 1 .. Len(ps) /\ (k + 1) - 1 = k
    BY <1>2, <1>3
  <2>2. /\ Before(ps, k + 1) = Before(ps, k) + Len(ps[k + 1])
        /\ Before(ps, k + 1) <= Len(c)
    BY <1>2, <2>1, PartInWhole, ZenonT(60)
  <2>3. PICK other : other = m.pairs[k + 1]
    OBVIOUS
  <2>4. /\ other \in Pairs /\ Len(other.name) \in Ids /\ Len(other.value) \in Ids
    BY <1>2, <2>1, <2>3
  <2>5. Len(ps[k + 1]) = LengthSize(Len(other.name), other.long)
           + LengthSize(Len(other.value), other.long) + Len(other.name) + Len(other.value)
    BY <1>1, <1>2, <2>1, <2>3, PairSizes
  <2>6. /\ LengthSize(Len(other.name), other.long) \in {1, 4}
        /\ LengthSize(Len(other.value), other.long) \in {1, 4}
        /\ Len(other.name) \in Nat /\ Len(other.value) \in Nat
    BY <2>4, LengthSizes, IdsAreNats DEF Pairs
  <2>7. PICK l : l = Len(ps[k + 1])
    OBVIOUS
  <2>8. l > 0 /\ l \in Nat
    <3>1. PICK i, j, g, h : /\ i = LengthSize(Len(other.name), other.long)
                            /\ j = LengthSize(Len(other.value), other.long)
                            /\ g = Len(other.name) /\ h = Len(other.value)
      OBVIOUS
    <3>2. /\ l = i + j + g + h /\ i \in {1, 4} /\ j \in {1, 4} /\ g \in Nat /\ h \in Nat
      BY <2>5, <2>6, <2>7, <3>1, Zenon
    <3> QED
      BY <3>2
  <2> QED
    BY <1>7, <1>8, <2>2, <2>7, <2>8
<1>17. Before(ps, k) = start + a + b + Len(pair.name) + Len(pair.value)
  <2>1. t + ld = t + u + v + nl + vl
    BY <1>19
  <2> QED
    BY <1>7, <1>18, <2>1, Zenon
<1> QED
  <2>1. PairOnWire(e, pair, start, a, b)
    BY <1>3, <1>4, <1>7, <1>11, <1>12, <1>13, <1>14, <1>18, Zenon DEF PairOnWire
  <2> QED
    BY <1>1, <1>15, <1>16, <1>17, <2>1, Zenon

-----------------------------------------------------------------------------
(***************************************************************************)
(* PARAMS: the lengths of a pair.                                          *)
(***************************************************************************)

\* The numbers of a pair are small enough for the parser's arithmetic.
LEMMA PairNumbers ==
  ASSUME NEW e, NEW pair, NEW start, NEW a, NEW b, PairOnWire(e, pair, start, a, b)
  PROVE  /\ start \in Nat /\ a \in {1, 4} /\ b \in {1, 4}
         /\ Len(pair.name) \in Nat /\ Len(pair.value) \in Nat
         /\ pair.name \in Seq(Octet) /\ pair.value \in Seq(Octet)
         /\ Len(pair.name) \in Ids /\ Len(pair.value) \in Ids
  BY DEF PairOnWire, Pairs

\* What it is to be in a pair, with the sizes of the lengths named.
LEMMA IntoPair ==
  ASSUME NEW e, NEW pair, NEW start, NEW a, NEW b, PairOnWire(e, pair, start, a, b),
         NEW p, NEW o,
         \/ NameLengthAt(p, LastParam(p), pair, start, a, o)
         \/ ValueLengthAt(p, LastParam(p), pair, start, a, b, o)
         \/ NameAt(p, LastParam(p), pair, start, a, b, o)
         \/ ValueAt(p, LastParam(p), pair, start, a, b, o)
  PROVE  InPair(p, pair, start, o) /\ p.state \notin FinalStates
<1>1. InPair(p, pair, start, o)
  BY Zenon DEF PairOnWire, InPair
<1>2. p.state \notin FinalStates
  BY DEF NameLengthAt, ValueLengthAt, NameAt, ValueAt, FinalStates
<1> QED
  BY <1>1, <1>2

\* The first octet of a pair puts the parser in it.
LEMMA NewFollows ==
  ASSUME NEW e, NEW pair, NEW start, NEW a, NEW b, PairOnWire(e, pair, start, a, b),
         NEW p \in Parsers, IF p.params = <<>> THEN start = 0 ELSE p.message_size = start,
         NEW o, o = 8 + start, NEW octet \in Octet, octet = e[o + 1],
         NEW q, StepsNew(p, q, octet)
  PROVE  InPair(q, pair, start, o + 1) /\ q.state \notin FinalStates
<1>1. /\ start \in Nat /\ a \in {1, 4} /\ b \in {1, 4}
      /\ Len(pair.name) \in Nat /\ Len(pair.value) \in Nat
  BY PairNumbers
<1>2. PICK r, nl : r = LastParam(q) /\ nl = Len(pair.name)
  OBVIOUS
<1>3. /\ r.name_length = FreshLength(octet) /\ r.value_length = 0
      /\ r.name = Null /\ r.value = Null
  <2>1. r = FreshParam(octet)
    BY <1>2 DEF StepsNew, LastParam, Parsers
  <2> QED
    BY <2>1, Zenon DEF FreshParam
<1>4. /\ q.state = IF octet >= 128 THEN "NAME_LENGTH_B2" ELSE "VALUE_LENGTH_B3"
      /\ q.message_size = start + (IF octet >= 128 THEN 4 ELSE 1)
  BY <1>1, SMT DEF StepsNew
<1>5. LengthOnWire(e, 8 + start, nl, a)
  BY <1>2, Zenon DEF PairOnWire
<1>6. CASE a = 1
  <2>1. octet = nl /\ nl < 128
    BY <1>5, <1>6 DEF LengthOnWire
  <2>2. FreshLength(octet) = octet /\ ~(octet >= 128)
    <3>1. octet \in Nat /\ octet < 128
      BY <2>1, OctetIsNat
    <3>2. ~(octet >= 128)
      BY <3>1, SMT
    <3> QED
      BY <3>2, SMT DEF FreshLength
  <2>3. ValueLengthAt(q, r, pair, start, a, b, o + 1)
    BY <1>1, <1>2, <1>3, <1>4, <1>6, <2>1, <2>2 DEF ValueLengthAt
  <2> QED
    BY <1>2, <2>3, IntoPair
<1>7. CASE a = 4
  <2>1. octet = 128
    BY <1>5, <1>7 DEF LengthOnWire
  <2>2. FreshLength(octet) = 0
    BY <2>1, SMT DEF FreshLength
  <2>3. NameLengthAt(q, r, pair, start, a, o + 1)
    BY <1>1, <1>3, <1>4, <1>7, <2>1, <2>2 DEF NameLengthAt
  <2> QED
    BY <1>2, <2>3, IntoPair
<1> QED
  BY <1>1, <1>6, <1>7

\* The octets of a length.
LEMMA OneOctet ==
  ASSUME NEW e, NEW at, NEW n, LengthOnWire(e, at, n, 1)
  PROVE  e[at + 1] = n /\ n < 128
  BY DEF LengthOnWire

\* A length of four octets, of which the pairs that fit a message use two.
LEMMA FourOctets ==
  ASSUME NEW e, NEW at, NEW n, LengthOnWire(e, at, n, 4)
  PROVE  /\ e[at + 1] = 128 /\ e[at + 2] = 0
         /\ e[at + 3] = n \div 256 /\ e[at + 4] = n % 256
<1>1. ~(4 = 1)
  OBVIOUS
<1> QED
  BY <1>1, Zenon DEF LengthOnWire

\* One more octet of the length f of r, which makes it t.
LengthTaken(p, q, r, t, s, size, f, v) ==
  /\ q.state = s /\ q.message_size = size /\ t[f] = v
  /\ t.name = r.name /\ t.value = r.value
  /\ f = "name_length" => t.value_length = r.value_length
  /\ f = "value_length" => t.name_length = r.name_length
  /\ q \in Parsers /\ q.params # <<>> /\ KeepsFront(p, q)
  /\ Keeps(p, q, {"state", "message_size", "params"})

\* LengthSteps, said of the fields an octet of a length changes.
LEMMA LengthIsTaken ==
  ASSUME NEW p \in Parsers, p.params # <<>>, NEW octet \in Octet, NEW ok \in BOOLEAN,
         NEW s, NEW size, NEW f, NEW n, LengthStep(p, octet, s, size, f, n),
         NEW q, q = ParseOctet(p, octet, ok),
         NEW r, r = LastParam(p), NEW t, t = LastParam(q),
         NEW total, total = p.message_size + size, NEW v, v = r[f] + n
  PROVE  LengthTaken(p, q, r, t, s, total, f, v)
<1>1. StepsPair(p, q, s, total, f, v)
  <2>1. StepsPair(p, ParseOctet(p, octet, ok), s, p.message_size + size, f, LastParam(p)[f] + n)
    BY LengthSteps
  <2> QED
    BY <2>1
<1>2. f \in {"name_length", "value_length"}
  BY DEF LengthStep
<1>3. KeepsParam(r, t, f)
  BY <1>1, Zenon DEF StepsPair
<1>4. /\ t.name = r.name /\ t.value = r.value
      /\ f = "name_length" => t.value_length = r.value_length
      /\ f = "value_length" => t.name_length = r.name_length
  BY <1>2, <1>3 DEF KeepsParam, ParameterFields
<1> QED
  BY <1>1, <1>4, Zenon DEF StepsPair, LengthTaken

\* Another octet of a length.
LEMMA LengthFollows ==
  ASSUME NEW e, NEW pair, NEW start, NEW a, NEW b, PairOnWire(e, pair, start, a, b),
         NEW p \in Parsers, p.params # <<>>, NEW o,
         \/ NameLengthAt(p, LastParam(p), pair, start, a, o)
         \/ ValueLengthAt(p, LastParam(p), pair, start, a, b, o),
         NEW octet \in Octet, octet = e[o + 1], NEW ok \in BOOLEAN
  PROVE  LET q == ParseOctet(p, octet, ok) IN
           /\ InPair(q, pair, start, o + 1) /\ q.state \notin FinalStates
           /\ q \in Parsers /\ q.params # <<>> /\ KeepsFront(p, q)
           /\ Keeps(p, q, {"state", "message_size", "params"})
<1>1. /\ start \in Nat /\ a \in {1, 4} /\ b \in {1, 4}
      /\ Len(pair.name) \in Nat /\ Len(pair.value) \in Nat
      /\ Len(pair.name) \in Ids /\ Len(pair.value) \in Ids
  BY PairNumbers
<1>2. PICK q, r, t, nl, vl : /\ q = ParseOctet(p, octet, ok) /\ r = LastParam(p)
                             /\ t = LastParam(q)
                             /\ nl = Len(pair.name) /\ vl = Len(pair.value)
  OBVIOUS
<1>3. PICK n1, n0, v1, v0 : /\ n1 = nl \div 256 /\ n0 = nl % 256
                            /\ v1 = vl \div 256 /\ v0 = vl % 256
  OBVIOUS
<1>4. /\ n1 \in Nat /\ n0 \in Nat /\ v1 \in Nat /\ v0 \in Nat /\ nl \in Nat /\ vl \in Nat
      /\ n1 * 256 + n0 = nl /\ v1 * 256 + v0 = vl
  <2>1. nl \in Ids /\ vl \in Ids /\ nl \in Nat /\ vl \in Nat
    BY <1>1, <1>2
  <2>2. /\ nl \div 256 \in Octet /\ nl % 256 \in Octet
        /\ (nl \div 256) * 256 + (nl % 256) = nl
    BY <2>1, Halves
  <2>3. /\ vl \div 256 \in Octet /\ vl % 256 \in Octet
        /\ (vl \div 256) * 256 + (vl % 256) = vl
    BY <2>1, Halves
  <2> QED
    BY <1>3, <2>1, <2>2, <2>3, OctetIsNat, ZenonT(60)
<1>5. /\ a = 4 => /\ e[8 + start + 1] = 128 /\ e[8 + start + 2] = 0
                  /\ e[8 + start + 3] = n1 /\ e[8 + start + 4] = n0
      /\ b = 4 => /\ e[8 + start + a + 1] = 128 /\ e[8 + start + a + 2] = 0
                  /\ e[8 + start + a + 3] = v1 /\ e[8 + start + a + 4] = v0
      /\ b = 1 => e[8 + start + a + 1] = vl /\ vl < 128
  <2>1. LengthOnWire(e, 8 + start, nl, a) /\ LengthOnWire(e, 8 + start + a, vl, b)
    BY <1>2, Zenon DEF PairOnWire
  <2>2. ASSUME a = 4
        PROVE  /\ e[8 + start + 1] = 128 /\ e[8 + start + 2] = 0
               /\ e[8 + start + 3] = n1 /\ e[8 + start + 4] = n0
    <3>1. LengthOnWire(e, 8 + start, nl, 4)
      BY <2>1, <2>2
    <3> QED
      BY <1>3, <3>1, FourOctets
  <2>3. ASSUME b = 4
        PROVE  /\ e[8 + start + a + 1] = 128 /\ e[8 + start + a + 2] = 0
               /\ e[8 + start + a + 3] = v1 /\ e[8 + start + a + 4] = v0
    <3>1. LengthOnWire(e, 8 + start + a, vl, 4)
      BY <2>1, <2>3
    <3> QED
      BY <1>3, <3>1, FourOctets
  <2>4. ASSUME b = 1
        PROVE  e[8 + start + a + 1] = vl /\ vl < 128
    <3>1. LengthOnWire(e, 8 + start + a, vl, 1)
      BY <2>1, <2>4
    <3> QED
      BY <3>1, OneOctet, Zenon
  <2> QED
    BY <2>2, <2>3, <2>4
<1>6. ASSUME NEW s, NEW size, NEW f, NEW v, LengthTaken(p, q, r, t, s, size, f, v),
             \/ NameLengthAt(q, t, pair, start, a, o + 1)
             \/ ValueLengthAt(q, t, pair, start, a, b, o + 1)
             \/ NameAt(q, t, pair, start, a, b, o + 1)
      PROVE  /\ InPair(q, pair, start, o + 1) /\ q.state \notin FinalStates
             /\ q \in Parsers /\ q.params # <<>> /\ KeepsFront(p, q)
             /\ Keeps(p, q, {"state", "message_size", "params"})
  <2>1. InPair(q, pair, start, o + 1) /\ q.state \notin FinalStates
    BY <1>2, <1>6, IntoPair
  <2> QED
    BY <1>6, <2>1, Zenon DEF LengthTaken
<1>7. CASE NameLengthAt(p, r, pair, start, a, o)
  <2>1. /\ a = 4 /\ p.message_size = start + 4
        /\ r.value_length = 0 /\ r.name = Null /\ r.value = Null
    BY <1>7, Zenon DEF NameLengthAt
  <2>2. CASE p.state = "NAME_LENGTH_B2"
    <3>1. o = 9 + start /\ r.name_length = 0
      BY <1>2, <1>3, <1>7, <2>2 DEF NameLengthAt
    <3>2. octet = 0
      <4>1. o + 1 = 8 + start + 2
        BY <1>1, <3>1
      <4> QED
        BY <1>5, <2>1, <2>2, <3>1, <4>1
    <3>3. LengthStep(p, octet, "NAME_LENGTH_B1", 0, "name_length", 0)
      BY <2>1, <2>2, <3>2, SMT DEF LengthStep
    <3>4. start + 4 = p.message_size + 0 /\ 0 = r["name_length"] + 0
      BY <1>1, <1>4, <3>1, <2>1, <2>2, SMT
    <3>5. LengthTaken(p, q, r, t, "NAME_LENGTH_B1", start + 4, "name_length", 0)
      BY <1>2, <3>3, <3>4, LengthIsTaken
    <3>6. o + 1 = 10 + start
      BY <1>1, <3>1, <2>1, <2>2
    <3>7. NameLengthAt(q, t, pair, start, a, o + 1)
      BY <1>2, <1>3, <3>1, <2>1, <2>2, <3>5, <3>6, Zenon DEF LengthTaken, NameLengthAt
    <3> QED
      BY <1>2, <1>6, <3>5, <3>7
  <2>3. CASE p.state = "NAME_LENGTH_B1"
    <3>1. o = 10 + start /\ r.name_length = 0
      BY <1>2, <1>3, <1>7, <2>3 DEF NameLengthAt
    <3>2. octet = n1
      <4>1. o + 1 = 8 + start + 3
        BY <1>1, <3>1
      <4> QED
        BY <1>5, <2>1, <2>3, <3>1, <4>1
    <3>3. LengthStep(p, octet, "NAME_LENGTH_B0", 0, "name_length", n1 * 256)
      BY <2>1, <2>3, <3>2, SMT DEF LengthStep
    <3>4. start + 4 = p.message_size + 0 /\ n1 * 256 = r["name_length"] + n1 * 256
      BY <1>1, <1>4, <3>1, <2>1, <2>3, SMT
    <3>5. LengthTaken(p, q, r, t, "NAME_LENGTH_B0", start + 4, "name_length", n1 * 256)
      BY <1>2, <3>3, <3>4, LengthIsTaken
    <3>6. o + 1 = 11 + start
      BY <1>1, <3>1, <2>1, <2>3
    <3>7. NameLengthAt(q, t, pair, start, a, o + 1)
      BY <1>2, <1>3, <3>1, <2>1, <2>3, <3>5, <3>6, ZenonT(60) DEF LengthTaken, NameLengthAt
    <3> QED
      BY <1>2, <1>6, <3>5, <3>7
  <2>4. CASE p.state = "NAME_LENGTH_B0"
    <3>1. o = 11 + start /\ r.name_length = n1 * 256
      BY <1>2, <1>3, <1>7, <2>4 DEF NameLengthAt
    <3>2. octet = n0
      <4>1. o + 1 = 8 + start + 4
        BY <1>1, <3>1
      <4> QED
        BY <1>5, <2>1, <2>4, <3>1, <4>1
    <3>3. LengthStep(p, octet, "VALUE_LENGTH_B3", 0, "name_length", n0)
      BY <2>1, <2>4, <3>2, SMT DEF LengthStep
    <3>4. start + a = p.message_size + 0 /\ nl = r["name_length"] + n0
      BY <1>1, <1>4, <3>1, <2>1, <2>4, SMTT(60)
    <3>5. LengthTaken(p, q, r, t, "VALUE_LENGTH_B3", start + a, "name_length", nl)
      BY <1>2, <3>3, <3>4, LengthIsTaken
    <3>6. o + 1 = 8 + start + a
      BY <1>1, <3>1, <2>1, <2>4
    <3>7. ValueLengthAt(q, t, pair, start, a, b, o + 1)
      <4>1. /\ q.state = "VALUE_LENGTH_B3" /\ q.message_size = start + a
            /\ t.name_length = nl /\ t.name = Null /\ t.value = Null
            /\ t.value_length = 0
        BY <2>1, <3>5, Zenon DEF LengthTaken
      <4> QED
        BY <1>2, <3>6, <4>1, Zenon DEF ValueLengthAt
    <3> QED
      BY <1>2, <1>6, <3>5, <3>7
  <2> QED
    BY <1>2, <1>7, <2>2, <2>3, <2>4 DEF NameLengthAt
<1>8. CASE ValueLengthAt(p, r, pair, start, a, b, o)
  <2>1. r.name_length = nl /\ r.name = Null /\ r.value = Null
    BY <1>2, <1>8, Zenon DEF ValueLengthAt
  <2>2. CASE p.state = "VALUE_LENGTH_B3"
    <3>1. o = 8 + start + a /\ r.value_length = 0 /\ p.message_size = start + a
      BY <1>8, <2>2 DEF ValueLengthAt
    <3>2. CASE b = 1
      <4>2. octet = vl
        <5>1. o + 1 = 8 + start + a + 1
          BY <1>1, <3>1
        <5> QED
          BY <1>5, <2>1, <2>2, <3>2, <3>1, <5>1
      <4>3. LengthStep(p, octet, "NAME_DATA", 1, "value_length", vl)
        BY <1>4, <1>5, <2>2, <3>2, <4>2, SMT DEF LengthStep
      <4>4. start + a + b = p.message_size + 1 /\ vl = r["value_length"] + vl
        BY <1>1, <1>4, <3>1, <2>1, <2>2, <3>2, SMTT(60)
      <4>5. LengthTaken(p, q, r, t, "NAME_DATA", start + a + b, "value_length", vl)
        BY <1>2, <4>3, <4>4, LengthIsTaken
      <4>6. o + 1 = 8 + start + a + b
        BY <1>1, <3>1, <2>1, <2>2, <3>2
      <4>7. NameAt(q, t, pair, start, a, b, o + 1)
        BY <1>2, <1>3, <3>1, <2>1, <2>2, <3>2, <4>5, <4>6, Zenon DEF LengthTaken, NameAt
      <4> QED
        BY <1>2, <1>6, <4>5, <4>7
    <3>3. CASE b = 4
      <4>2. octet = 128
        <5>1. o + 1 = 8 + start + a + 1
          BY <1>1, <3>1
        <5> QED
          BY <1>5, <2>1, <2>2, <3>3, <3>1, <5>1
      <4>3. LengthStep(p, octet, "VALUE_LENGTH_B2", 4, "value_length", 0)
        BY <2>1, <2>2, <3>3, <4>2, SMT DEF LengthStep
      <4>4. start + a + 4 = p.message_size + 4 /\ 0 = r["value_length"] + 0
        BY <1>1, <1>4, <3>1, <2>1, <2>2, <3>3, SMT
      <4>5. LengthTaken(p, q, r, t, "VALUE_LENGTH_B2", start + a + 4, "value_length", 0)
        BY <1>2, <4>3, <4>4, LengthIsTaken
      <4>6. o + 1 = 9 + start + a
        BY <1>1, <3>1, <2>1, <2>2, <3>3
      <4>7. ValueLengthAt(q, t, pair, start, a, b, o + 1)
        BY <1>2, <1>3, <3>1, <2>1, <2>2, <3>3, <4>5, <4>6, Zenon DEF LengthTaken, ValueLengthAt
      <4> QED
        BY <1>2, <1>6, <4>5, <4>7
    <3> QED
      BY <1>1, <3>2, <3>3
  <2>3. CASE p.state = "VALUE_LENGTH_B2"
    <3>1. /\ o = 9 + start + a /\ r.value_length = 0
          /\ b = 4 /\ p.message_size = start + a + 4
      BY <1>2, <1>3, <1>8, <2>3 DEF ValueLengthAt
    <3>2. octet = 0
      <4>1. o + 1 = 8 + start + a + 2
        BY <1>1, <3>1
      <4> QED
        BY <1>5, <2>1, <2>3, <3>1, <4>1
    <3>3. LengthStep(p, octet, "VALUE_LENGTH_B1", 0, "value_length", 0)
      BY <2>1, <2>3, <3>2, SMT DEF LengthStep
    <3>4. start + a + 4 = p.message_size + 0 /\ 0 = r["value_length"] + 0
      BY <1>1, <1>4, <3>1, <2>1, <2>3, SMT
    <3>5. LengthTaken(p, q, r, t, "VALUE_LENGTH_B1", start + a + 4, "value_length", 0)
      BY <1>2, <3>3, <3>4, LengthIsTaken
    <3>6. o + 1 = 10 + start + a
      BY <1>1, <3>1, <2>1, <2>3
    <3>7. ValueLengthAt(q, t, pair, start, a, b, o + 1)
      BY <1>2, <1>3, <3>1, <2>1, <2>3, <3>5, <3>6, Zenon DEF LengthTaken, ValueLengthAt
    <3> QED
      BY <1>2, <1>6, <3>5, <3>7
  <2>4. CASE p.state = "VALUE_LENGTH_B1"
    <3>1. /\ o = 10 + start + a /\ r.value_length = 0
          /\ b = 4 /\ p.message_size = start + a + 4
      BY <1>2, <1>3, <1>8, <2>4 DEF ValueLengthAt
    <3>2. octet = v1
      <4>1. o + 1 = 8 + start + a + 3
        BY <1>1, <3>1
      <4> QED
        BY <1>5, <2>1, <2>4, <3>1, <4>1
    <3>3. LengthStep(p, octet, "VALUE_LENGTH_B0", 0, "value_length", v1 * 256)
      BY <2>1, <2>4, <3>2, SMT DEF LengthStep
    <3>4. start + a + 4 = p.message_size + 0 /\ v1 * 256 = r["value_length"] + v1 * 256
      BY <1>1, <1>4, <3>1, <2>1, <2>4, SMT
    <3>5. LengthTaken(p, q, r, t, "VALUE_LENGTH_B0", start + a + 4, "value_length", v1 * 256)
      BY <1>2, <3>3, <3>4, LengthIsTaken
    <3>6. o + 1 = 11 + start + a
      BY <1>1, <3>1, <2>1, <2>4
    <3>7. ValueLengthAt(q, t, pair, start, a, b, o + 1)
      <4>1. /\ q.state = "VALUE_LENGTH_B0" /\ q.message_size = start + a + 4
            /\ t.name_length = nl /\ t.name = Null /\ t.value = Null
            /\ t.value_length = v1 * 256
        BY <2>1, <3>5, Zenon DEF LengthTaken
      <4>2. v1 * 256 = (Len(pair.value) \div 256) * 256
        BY <1>2, <1>3
      <4>4. t.value_length = (Len(pair.value) \div 256) * 256
        BY <4>1, <4>2
      <4>5. t.name_length = Len(pair.name)
        BY <1>2, <4>1
      <4>3. q.state \in {"VALUE_LENGTH_B2", "VALUE_LENGTH_B1", "VALUE_LENGTH_B0"}
        BY <4>1
      <4> QED
        BY <3>1, <3>6, <4>1, <4>3, <4>4, <4>5, Zenon DEF ValueLengthAt
    <3> QED
      BY <1>2, <1>6, <3>5, <3>7
  <2>5. CASE p.state = "VALUE_LENGTH_B0"
    <3>1. /\ o = 11 + start + a /\ r.value_length = v1 * 256
          /\ b = 4 /\ p.message_size = start + a + 4
      BY <1>2, <1>3, <1>8, <2>5 DEF ValueLengthAt
    <3>2. octet = v0
      <4>1. o + 1 = 8 + start + a + 4
        BY <1>1, <3>1
      <4> QED
        BY <1>5, <2>1, <2>5, <3>1, <4>1
    <3>3. LengthStep(p, octet, "NAME_DATA", 0, "value_length", v0)
      BY <2>1, <2>5, <3>2, SMT DEF LengthStep
    <3>4. start + a + b = p.message_size + 0 /\ vl = r["value_length"] + v0
      BY <1>1, <1>4, <3>1, <2>1, <2>5, SMTT(60)
    <3>5. LengthTaken(p, q, r, t, "NAME_DATA", start + a + b, "value_length", vl)
      BY <1>2, <3>3, <3>4, LengthIsTaken
    <3>6. o + 1 = 8 + start + a + b
      BY <1>1, <3>1, <2>1, <2>5
    <3>7. NameAt(q, t, pair, start, a, b, o + 1)
      BY <1>2, <1>3, <3>1, <2>1, <2>5, <3>5, <3>6, ZenonT(60) DEF LengthTaken, NameAt
    <3> QED
      BY <1>2, <1>6, <3>5, <3>7
  <2> QED
    BY <1>2, <1>8, <2>2, <2>3, <2>4, <2>5 DEF ValueLengthAt
<1> QED
  BY <1>2, <1>7, <1>8

-----------------------------------------------------------------------------
(***************************************************************************)
(* PARAMS: from one pair to the next, or to the padding.                   *)
(***************************************************************************)

\* p is among the pairs of m, and holds all before the last one.
InPairs(p, m) ==
  /\ Headed(p, m) /\ "pairs" \in DOMAIN m /\ m.pairs # <<>>
  /\ p.params # <<>> /\ Len(p.params) <= Len(m.pairs)
  /\ HoldsTo(p, m, Len(p.params) - 1)

\* The k-th pair of m and its place.
Placed(m, k, pair, start, a, b) ==
  /\ IsSent(m) /\ IsSupported(m) /\ "pairs" \in DOMAIN m /\ k \in 1 .. Len(m.pairs)
  /\ pair = m.pairs[k] /\ start = Before(Encoded(m), k - 1)
  /\ PairOnWire(Encode(m), pair, start, a, b)

\* How many octets a supported message has.
LEMMA MessageNumbers ==
  ASSUME NEW m, IsSent(m), IsSupported(m)
  PROVE  /\ Len(Content(m)) \in Nat /\ m.padding \in Nat /\ Len(Encode(m)) \in Nat
         /\ Len(Encode(m)) = 8 + Len(Content(m)) + m.padding
         /\ "pairs" \in DOMAIN m =>
              /\ Len(m.pairs) \in Nat /\ DOMAIN m.pairs = 1 .. Len(m.pairs)
              /\ m.type = Params /\ "flags" \notin DOMAIN m /\ "octets" \notin DOMAIN m
<1>1. Kinds(m) /\ Sends(Encode(m), m)
  BY SupportedKinds, EncodeFacts
<1>2. Len(Content(m)) \in Nat /\ m.padding \in Nat
  <2>1. m.padding \in Octet
    BY <1>1, Zenon DEF Kinds
  <2>2. Len(Content(m)) \in Nat
    BY ContentFacts
  <2> QED
    BY <2>1, <2>2, OctetIsNat
<1>3. Len(Encode(m)) = 8 + Len(Content(m)) + m.padding
  BY <1>1, Zenon DEF Sends
<1>4. Len(Encode(m)) \in Nat
  BY <1>2, <1>3
<1>5. "pairs" \in DOMAIN m => m.pairs \in Seq(Pairs)
  BY PairsFit
<1>6. "pairs" \in DOMAIN m =>
        m.type = Params /\ "flags" \notin DOMAIN m /\ "octets" \notin DOMAIN m
  BY <1>1, Zenon DEF Kinds
<1> QED
  BY <1>2, <1>3, <1>4, <1>5, <1>6

\* The places of a pair are numbers within the content.
LEMMA PlacedNumbers ==
  ASSUME NEW m, NEW k, NEW pair, NEW start, NEW a, NEW b, Placed(m, k, pair, start, a, b)
  PROVE  /\ PairOnWire(Encode(m), pair, start, a, b)
         /\ Before(Encoded(m), k) = start + a + b + Len(pair.name) + Len(pair.value)
         /\ Before(Encoded(m), k) \in Nat /\ Before(Encoded(m), k) <= Len(Content(m))
         /\ IF k = Len(m.pairs) THEN Before(Encoded(m), k) = Len(Content(m))
                                ELSE Before(Encoded(m), k) < Len(Content(m))
<1>1. /\ PairOnWire(Encode(m), pair, start, a, b)
      /\ a = LengthSize(Len(pair.name), pair.long)
      /\ b = LengthSize(Len(pair.value), pair.long)
  BY Zenon DEF Placed, PairOnWire
<1>2. /\ Before(Encoded(m), k) = start + a + b + Len(pair.name) + Len(pair.value)
      /\ IF k = Len(m.pairs) THEN Before(Encoded(m), k) = Len(Content(m))
                             ELSE Before(Encoded(m), k) < Len(Content(m))
  BY <1>1, PairPlaced DEF Placed
<1>3. PICK n, c : n = Before(Encoded(m), k) /\ c = Len(Content(m))
  OBVIOUS
<1>4. n \in Nat
  <2>1. /\ start \in Nat /\ a \in {1, 4} /\ b \in {1, 4}
        /\ Len(pair.name) \in Nat /\ Len(pair.value) \in Nat
    BY <1>1, PairNumbers
  <2>2. PICK u, v, t, i, j : /\ u = a /\ v = b /\ t = start
                             /\ i = Len(pair.name) /\ j = Len(pair.value)
    OBVIOUS
  <2>3. u \in Nat /\ v \in Nat /\ t \in Nat /\ i \in Nat /\ j \in Nat
    <3>1. u \in {1, 4} /\ v \in {1, 4}
      BY <2>1, <2>2, Zenon
    <3> QED
      BY <2>1, <2>2, <3>1
  <2>4. t + u + v + i + j \in Nat
    BY <2>3
  <2> QED
    BY <1>2, <1>3, <2>2, <2>4, Zenon
<1>5. c \in Nat
  BY <1>3, MessageNumbers DEF Placed
<1>6. n = c \/ n < c
  BY <1>2, <1>3, Zenon
<1>7. n <= c
  BY <1>4, <1>5, <1>6
<1> QED
  BY <1>1, <1>2, <1>3, <1>4, <1>7

\* Every pair of a message has its place.
LEMMA PlaceOf ==
  ASSUME NEW m, IsSent(m), IsSupported(m), "pairs" \in DOMAIN m, NEW k \in 1 .. Len(m.pairs)
  PROVE  LET pair == m.pairs[k] IN
           Placed(m, k, pair, Before(Encoded(m), k - 1),
                  LengthSize(Len(pair.name), pair.long),
                  LengthSize(Len(pair.value), pair.long))
<1>1. PICK pair, start, a, b : /\ pair = m.pairs[k] /\ start = Before(Encoded(m), k - 1)
                               /\ a = LengthSize(Len(pair.name), pair.long)
                               /\ b = LengthSize(Len(pair.value), pair.long)
  OBVIOUS
<1>2. PairOnWire(Encode(m), pair, start, a, b)
  BY <1>1, PairPlaced
<1>3. Placed(m, k, pair, start, a, b)
  BY <1>1, <1>2, Zenon DEF Placed
<1> QED
  BY <1>1, <1>3

\* A parser among the pairs of m and in one of them follows m.
LEMMA InPairsFollow ==
  ASSUME NEW m, NEW p, InPairs(p, m), NEW pair, NEW start, NEW a, NEW b,
         Placed(m, Len(p.params), pair, start, a, b),
         NEW o, InPair(p, pair, start, o)
  PROVE  Follows(p, m, o)
<1>1. ParamsAt(p, m, o)
  BY Zenon DEF Placed, InPairs, ParamsAt
<1> QED
  BY <1>1, Zenon DEF InPairs, Follows

\* A parser that keeps its header and its earlier pairs stays among those of m.
LEMMA InPairsKept ==
  ASSUME NEW m, NEW p \in Parsers, InPairs(p, m), NEW q \in Parsers, q.params # <<>>,
         KeepsFront(p, q), Keeps(p, q, {"state", "params", "read_counter", "message_size"})
  PROVE  InPairs(q, m) /\ Len(q.params) = Len(p.params)
<1>1. Headed(q, m)
  BY DEF InPairs, Headed, Keeps, ParserFields
<1>2. /\ Len(q.params) = Len(p.params)
      /\ \A n \in 1 .. Len(p.params) - 1 : q.params[n] = p.params[n]
  BY DEF KeepsFront
<1>3. HoldsTo(q, m, Len(q.params) - 1)
  BY <1>2 DEF HoldsTo, InPairs
<1> QED
  BY <1>1, <1>2, <1>3 DEF InPairs

\* To advance inside a message is to follow it by one octet more.
LEMMA AdvanceBy ==
  ASSUME NEW q, NEW m, IsSent(m), IsSupported(m), NEW o \in Nat, NEW octet,
         o < Len(Encode(m)),
         octet = Encode(m)[o + 1] => Follows(q, m, o + 1) /\ q.state \notin FinalStates
  PROVE  Advances(q, m, o, octet)
<1>1. o # Len(Encode(m))
  BY MessageNumbers
<1> QED
  BY <1>1 DEF Advances

\* All pairs are there.
LEMMA AllHeld ==
  ASSUME NEW p, NEW m, IsSent(m), IsSupported(m), Headed(p, m), "pairs" \in DOMAIN m,
         Len(p.params) = Len(m.pairs), HoldsTo(p, m, Len(m.pairs))
  PROVE  Holds(p, m)
  BY MessageNumbers, SMTT(60) DEF Holds, Headed, HoldsTo, Params, Stdin

\* The pair after the first k ones.
LEMMA NextFollows ==
  ASSUME NEW m, NEW p \in Parsers, IsSent(m), IsSupported(m), Headed(p, m),
         "pairs" \in DOMAIN m, NEW k, k = Len(p.params), k + 1 \in 1 .. Len(m.pairs),
         HoldsTo(p, m, k), NEW n \in Nat, n = Before(Encoded(m), k),
         IF p.params = <<>> THEN n = 0 ELSE p.message_size = n,
         NEW o \in Nat, o = 8 + n, o < Len(Encode(m)),
         NEW octet \in Octet, NEW ok \in BOOLEAN, ok
  PROVE  Advances(NewParam(p, octet, ok), m, o, octet)
<1>1. PICK q : q = NewParam(p, octet, ok)
  OBVIOUS
<1>2. StepsNew(p, q, octet)
  <2>1. NewParam(p, octet, ok) = NewParam(p, octet, TRUE)
    BY DEF NewParam
  <2> QED
    BY <1>1, <2>1, NewParamSteps
<1>3. p.params \in Seq(Parameters) /\ k \in Nat /\ (k + 1) - 1 = k
  BY DEF Parsers
<1>4. PICK pair, a, b : Placed(m, k + 1, pair, Before(Encoded(m), (k + 1) - 1), a, b)
  BY PlaceOf
<1>5. Placed(m, k + 1, pair, n, a, b)
  BY <1>3, <1>4
<1>6. /\ Len(q.params) = k + 1 /\ q.params # <<>>
      /\ \A i \in 1 .. k : q.params[i] = p.params[i]
      /\ Keeps(p, q, {"state", "message_size", "params"})
  <2>1. /\ FreshParam(octet) \in Parameters
        /\ q.params = Append(p.params, FreshParam(octet))
        /\ Keeps(p, q, {"state", "message_size", "params"})
    BY <1>2, Zenon DEF StepsNew
  <2>2. PICK new : new = FreshParam(octet)
    OBVIOUS
  <2>3. new \in Parameters /\ q.params = Append(p.params, new)
    BY <2>1, <2>2
  <2>4. /\ Len(q.params) = k + 1 /\ q.params # <<>>
        /\ \A i \in 1 .. k : q.params[i] = p.params[i]
    BY <1>3, <2>3
  <2> QED
    BY <2>1, <2>4
<1>7. InPairs(q, m)
  <2>1. Headed(q, m)
    BY <1>6 DEF Headed, Keeps, ParserFields
  <2>2. HoldsTo(q, m, k)
    BY <1>6 DEF HoldsTo
  <2>3. Len(q.params) - 1 = k /\ Len(q.params) <= Len(m.pairs) /\ m.pairs # <<>>
    BY <1>3, <1>6
  <2> QED
    BY <1>6, <2>1, <2>2, <2>3, Zenon DEF InPairs
<1>8. ASSUME octet = Encode(m)[o + 1]
      PROVE  Follows(q, m, o + 1) /\ q.state \notin FinalStates
  <2>1. PairOnWire(Encode(m), pair, n, a, b)
    BY <1>5, Zenon DEF Placed
  <2>2. InPair(q, pair, n, o + 1) /\ q.state \notin FinalStates
    BY <1>2, <1>8, <2>1, NewFollows
  <2> QED
    BY <1>5, <1>6, <1>7, <2>2, InPairsFollow
<1> QED
  BY <1>1, <1>8, AdvanceBy

\* After the value of the k-th pair.
LEMMA EndFollows ==
  ASSUME NEW m, NEW p \in Parsers, InPairs(p, m), NEW k, k = Len(p.params),
         NEW pair, NEW start, NEW a, NEW b, Placed(m, k, pair, start, a, b),
         HoldsTo(p, m, k), NEW o \in Nat,
         p.message_size = Before(Encoded(m), k), o = 8 + Before(Encoded(m), k),
         NEW octet \in Octet, NEW ok \in BOOLEAN, ok
  PROVE  Advances(EndOfPair(p, octet, ok), m, o, octet)
<1> DEFINE q == EndOfPair(p, octet, ok)
<1>1. /\ IsSent(m) /\ IsSupported(m) /\ "pairs" \in DOMAIN m /\ k \in 1 .. Len(m.pairs)
      /\ Headed(p, m) /\ p.params # <<>>
  BY DEF Placed, InPairs
<1>2. PICK c, pad, n, l : /\ c = Len(Content(m)) /\ pad = m.padding
                          /\ n = Before(Encoded(m), k) /\ l = Len(Encode(m))
  OBVIOUS
<1>3. /\ c \in Nat /\ pad \in Nat /\ n \in Nat /\ l = 8 + c + pad
      /\ IF k = Len(m.pairs) THEN n = c ELSE n < c
      /\ o = 8 + n /\ Len(m.pairs) \in Nat
  BY <1>1, <1>2, MessageNumbers, PlacedNumbers
<1>4. p.content_length = c /\ p.padding_length = pad /\ p.message_size = n
  BY <1>1, <1>2 DEF Headed
<1>5. CASE k = Len(m.pairs) /\ pad = 0
  <2>1. q = Goto(p, "FINISHED")
    BY <1>3, <1>4, <1>5 DEF EndOfPair
  <2>2. q.state = "FINISHED" /\ Keeps(p, q, {"state"})
    <3>1. "FINISHED" \in States
      BY DEF States, FinalStates
    <3> QED
      BY <2>1, <3>1, GotoFacts
  <2> HIDE DEF q
  <2>3. Headed(q, m) /\ q.params = p.params
    BY <1>1, <2>2 DEF Headed, Keeps, ParserFields
  <2>4. Holds(q, m)
    <3>1. HoldsTo(q, m, Len(m.pairs)) /\ Len(q.params) = Len(m.pairs)
      BY <1>5, <2>3 DEF HoldsTo
    <3> QED
      BY <1>1, <2>3, <3>1, AllHeld
  <2>5. o = l /\ ~(o < l)
    BY <1>3, <1>5
  <2>6. o = 8 + Len(Content(m)) + m.padding
    BY <1>2, <1>3, <2>5
  <2>7. FinishedAt(q, m, o)
    BY <2>2, <2>4, <2>6 DEF FinishedAt
  <2> QED
    BY <1>2, <2>5, <2>7 DEF Advances, q
<1>6. CASE k = Len(m.pairs) /\ pad # 0
  <2> DEFINE r == [Goto(p, "PARAM_PADDING") EXCEPT !.read_counter = p.padding_length]
  <2>1. q = ParsePadding(r)
    BY <1>3, <1>4, <1>6 DEF EndOfPair
  <2>2. r \in Parsers /\ r.state = "PARAM_PADDING" /\ r.read_counter = pad
        /\ Keeps(p, r, {"state", "read_counter"})
    <3>1. r = Set(p, "PARAM_PADDING", "read_counter", p.padding_length)
      BY DEF Goto, Set
    <3>2. "PARAM_PADDING" \in States /\ "read_counter" \in ParserFields \ {"state"}
      BY DEF States, DataStates, ParserFields
    <3>3. Typed("read_counter", p.padding_length)
      BY OctetIsNat DEF Typed, Parsers
    <3> HIDE DEF r
    <3>4. Steps(p, r, "PARAM_PADDING", "read_counter", p.padding_length)
      BY <3>1, <3>2, <3>3, SetSteps
    <3> QED
      BY <1>4, <3>4 DEF Steps
  <2> HIDE DEF r, q
  <2>3. /\ q.state = "PARAM_PADDING" /\ q.read_counter = pad - 1
        /\ Keeps(r, q, {"state", "read_counter"})
    BY <1>6, <2>1, <2>2, PaddingFacts
  <2>4. Headed(q, m) /\ q.params = p.params
    BY <1>1, <2>2, <2>3 DEF Headed, Keeps, ParserFields
  <2>5. Holds(q, m)
    <3>1. HoldsTo(q, m, Len(m.pairs)) /\ Len(q.params) = Len(m.pairs)
      BY <1>6, <2>4 DEF HoldsTo
    <3> QED
      BY <1>1, <2>4, <3>1, AllHeld
  <2>6. o < l /\ (o + 1) + (pad - 1) = 8 + c + pad /\ pad - 1 < pad
    BY <1>3, <1>6
  <2>7. ParamsAt(q, m, o + 1)
    BY <1>2, <2>3, <2>5, <2>6, Zenon DEF ParamsAt, InPairs
  <2>8. Follows(q, m, o + 1) /\ q.state \notin FinalStates
    BY <2>3, <2>4, <2>7 DEF Follows, FinalStates
  <2> QED
    BY <1>1, <1>2, <2>6, <2>8, AdvanceBy DEF q
<1>7. CASE k # Len(m.pairs)
  <2>1. n < c /\ n # c /\ o < l
    BY <1>3, <1>7
  <2>2. q = NewParam(p, octet, ok)
    BY <1>4, <2>1 DEF EndOfPair
  <2>3. k + 1 \in 1 .. Len(m.pairs)
    BY <1>1, <1>3, <1>7
  <2>4. Advances(NewParam(p, octet, ok), m, o, octet)
    BY <1>1, <1>2, <1>3, <1>4, <2>1, <2>3, NextFollows
  <2> QED
    BY <2>2, <2>4
<1> QED
  BY <1>5, <1>6, <1>7

-----------------------------------------------------------------------------
(***************************************************************************)
(* PARAMS: the name and the value of a pair.                               *)
(***************************************************************************)

\* q is p but for the buffer in the field f of the last parameter.
SameBut(p, q, f) ==
  /\ q \in Parsers /\ q.params # <<>> /\ KeepsFront(p, q)
  /\ Keeps(p, q, {"params", "read_counter", "message_size"})
  /\ KeepsParam(LastParam(p), LastParam(q), f)

\* The field f is to hold the octets that come after so many of the content.
Unbuffered(p, f, size, o) ==
  LastParam(p)[f] = Null /\ p.message_size = size /\ o = 8 + size
Buffered(p, f, octets, size, o) ==
  /\ Copied(LastParam(p)[f], octets, p.read_counter)
  /\ p.message_size = size + Len(octets) /\ o + p.read_counter = 8 + size + Len(octets)

\* The first octet of a name or a value allocates its buffer, a later one none.
LEMMA BufferedOnce ==
  ASSUME NEW p \in Parsers, p.params # <<>>, NEW f \in {"name", "value"},
         NEW octets \in Seq(Octet), NEW size, NEW o,
         Unbuffered(p, f, size, o) \/ Buffered(p, f, octets, size, o),
         NEW q, q = Allocated(p, f, Len(octets))
  PROVE  SameBut(p, q, f) /\ Buffered(q, f, octets, size, o)
<1>1. Len(octets) \in Nat
  OBVIOUS
<1>2. CASE Unbuffered(p, f, size, o)
  <2>1. LastParam(p)[f] = Null /\ p.message_size = size /\ o = 8 + size
    BY <1>2 DEF Unbuffered
  <2>2. /\ q \in Parsers /\ q.params # <<>>
        /\ Keeps(p, q, {"params", "read_counter", "message_size"})
        /\ KeepsFront(p, q) /\ KeepsParam(LastParam(p), LastParam(q), f)
        /\ LastParam(q)[f] = Buffer(Len(octets))
        /\ q.read_counter = Len(octets) /\ q.message_size = p.message_size + Len(octets)
    BY <1>1, <2>1, AllocatedFacts, ZenonT(60)
  <2>3. Copied(LastParam(q)[f], octets, q.read_counter)
    BY <2>2, FreshCopied
  <2>4. o + q.read_counter = 8 + size + Len(octets)
    BY <2>1, <2>2
  <2> QED
    BY <2>1, <2>2, <2>3, <2>4, Zenon DEF SameBut, Buffered
<1>3. CASE Buffered(p, f, octets, size, o)
  <2>1. LastParam(p)[f] # Null
    BY <1>3 DEF Buffered, Copied
  <2>2. q = p
    BY <1>1, <2>1, AllocatedFacts, ZenonT(60)
  <2>3. SameBut(p, p, f)
    BY DEF SameBut, Keeps, KeepsFront, KeepsParam
  <2> QED
    BY <1>3, <2>2, <2>3
<1> QED
  BY <1>2, <1>3

\* An octet of a name or a value is stored in its place.
LEMMA OctetStored ==
  ASSUME NEW p \in Parsers, p.params # <<>>, NEW f \in {"name", "value"},
         NEW octets \in Seq(Octet), NEW size \in Nat, NEW o \in Nat,
         Buffered(p, f, octets, size, o), p.read_counter # 0,
         NEW e, OctetsOnWire(e, 8 + size, octets),
         NEW octet \in Octet, octet = e[o + 1], NEW q, q = StoreLast(p, f, octet)
  PROVE  SameBut(p, q, f) /\ Buffered(q, f, octets, size, o + 1)
<1>1. PICK b, n, c, d : /\ b = LastParam(p)[f] /\ n = Len(octets)
                        /\ c = p.read_counter /\ d = LastParam(q)[f]
  OBVIOUS
<1>2. /\ Copied(b, octets, c) /\ b # Null /\ Len(b) = n
      /\ p.message_size = size + n /\ o + c = 8 + size + n /\ c <= n
  BY <1>1, Zenon DEF Buffered, Copied
<1>3. c \in Nat /\ n \in Nat /\ c # 0 /\ b \in Bytes
  <2>1. b \in Bytes \cup {Null}
    BY <1>1, LastIsParam DEF Parameters
  <2> QED
    BY <1>1, <1>2, <2>1, SMTT(60) DEF Parsers
<1>4. c \in 1 .. n /\ n - c + 1 \in 1 .. n /\ 8 + size + (n - c + 1) = o + 1
  BY <1>2, <1>3
<1>5. octet = octets[n - c + 1]
  BY <1>1, <1>4 DEF OctetsOnWire
<1>6. /\ q \in Parsers /\ q.params # <<>>
      /\ Keeps(p, q, {"params", "read_counter"})
      /\ KeepsFront(p, q) /\ KeepsParam(LastParam(p), LastParam(q), f)
      /\ q.read_counter = c - 1 /\ d \in Bytes /\ Len(d) = Len(b)
      /\ \A i \in 1 .. Len(b) : d[i] = IF i = Len(b) - c + 1 THEN octet ELSE b[i]
  <2> DEFINE r == StoreLast(p, f, octet)
  <2>1. LastParam(p)[f] # Null /\ p.read_counter \in 1 .. Len(LastParam(p)[f])
    BY <1>1, <1>2, <1>4
  <2>2. /\ r \in Parsers /\ r.params # <<>>
        /\ Keeps(p, r, {"params", "read_counter"})
        /\ KeepsFront(p, r) /\ KeepsParam(LastParam(p), LastParam(r), f)
        /\ r.read_counter = p.read_counter - 1
        /\ LastParam(r)[f] \in Bytes /\ Len(LastParam(r)[f]) = Len(LastParam(p)[f])
        /\ \A i \in 1 .. Len(LastParam(p)[f]) :
             LastParam(r)[f][i] = IF i = Len(LastParam(p)[f]) - p.read_counter + 1
                                  THEN octet ELSE LastParam(p)[f][i]
    BY <2>1, StoreLastFacts, ZenonT(60)
  <2> HIDE DEF r
  <2>3. q = r
    BY DEF r
  <2> QED
    BY <1>1, <2>2, <2>3
<1>7. Copied(d, octets, c - 1)
  <2>1. /\ b \in Bytes /\ c \in 1 .. Len(octets) /\ Copied(b, octets, c)
        /\ d \in Bytes /\ Len(d) = Len(b)
    BY <1>1, <1>2, <1>3, <1>4, <1>6
  <2>2. \A i \in 1 .. Len(b) :
          d[i] = IF i = Len(b) - c + 1 THEN octets[Len(octets) - c + 1] ELSE b[i]
    BY <1>1, <1>5, <1>6
  <2> QED
    BY <2>1, <2>2, CopiedMore
<1>8. /\ Keeps(p, q, {"params", "read_counter", "message_size"})
      /\ q.message_size = p.message_size
  BY <1>6 DEF Keeps, ParserFields
<1>9. (o + 1) + (c - 1) = 8 + size + n
  BY <1>2, <1>3
<1> QED
  <2>1. Buffered(q, f, octets, size, o + 1)
    BY <1>1, <1>2, <1>6, <1>7, <1>8, <1>9 DEF Buffered
  <2> QED
    BY <1>6, <1>8, <2>1, Zenon DEF SameBut

\* A change to the buffer of the last parameter leaves the parser in its pair.
LEMMA StillInPairs ==
  ASSUME NEW m, NEW p \in Parsers, InPairs(p, m), NEW q, NEW f, SameBut(p, q, f)
  PROVE  /\ q \in Parsers /\ q.params # <<>> /\ q.state = p.state
         /\ InPairs(q, m) /\ Len(q.params) = Len(p.params)
<1>1. /\ q \in Parsers /\ q.params # <<>> /\ KeepsFront(p, q)
      /\ Keeps(p, q, {"params", "read_counter", "message_size"})
  BY DEF SameBut
<1>2. Keeps(p, q, {"state", "params", "read_counter", "message_size"}) /\ q.state = p.state
  BY <1>1 DEF Keeps, ParserFields
<1> QED
  BY <1>1, <1>2, InPairsKept

\* A value, once the name before it is there.
ValueDue(p, pair, size, o) ==
  /\ p.state = "VALUE_DATA" /\ p.params # <<>> /\ LastParam(p).name = pair.name
  /\ \/ Unbuffered(p, "value", size, o) /\ LastParam(p).value_length = Len(pair.value)
     \/ Buffered(p, "value", pair.value, size, o)

\* An octet in VALUE_DATA is understood, be it one of the value, the first of the
\* next pair, of the padding or the one after the message.
LEMMA ValueFollows ==
  ASSUME NEW m, NEW p \in Parsers, InPairs(p, m), NEW k, k = Len(p.params),
         NEW pair, NEW start, NEW a, NEW b, Placed(m, k, pair, start, a, b),
         NEW size, size = start + a + b + Len(pair.name), NEW o \in Nat,
         ValueDue(p, pair, size, o), NEW octet \in Octet, NEW ok \in BOOLEAN, ok
  PROVE  Advances(ValueData(p, octet, ok), m, o, octet)
<1>1. /\ PairOnWire(Encode(m), pair, start, a, b)
      /\ Before(Encoded(m), k) = start + a + b + Len(pair.name) + Len(pair.value)
      /\ Before(Encoded(m), k) <= Len(Content(m))
      /\ IsSent(m) /\ IsSupported(m) /\ pair = m.pairs[k]
  <2>1. IsSent(m) /\ IsSupported(m) /\ pair = m.pairs[k]
    BY Zenon DEF Placed
  <2> QED
    BY <2>1, PlacedNumbers
<1>2. /\ start \in Nat /\ a \in {1, 4} /\ b \in {1, 4}
      /\ Len(pair.name) \in Nat /\ Len(pair.value) \in Nat
      /\ pair.value \in Seq(Octet)
  BY <1>1, PairNumbers
<1>3. PICK n, vl, c, l : /\ n = Before(Encoded(m), k) /\ vl = Len(pair.value)
                         /\ c = Len(Content(m)) /\ l = Len(Encode(m))
  OBVIOUS
<1>4. /\ size \in Nat /\ vl \in Nat /\ n = size + vl /\ n <= c /\ c \in Nat /\ l \in Nat
      /\ c + 8 <= l /\ 8 + size = 8 + start + a + b + Len(pair.name)
  <2>1. size \in Nat /\ vl \in Nat /\ 8 + size = 8 + start + a + b + Len(pair.name)
    <3>1. PICK u, v, t, i : u = a /\ v = b /\ t = start /\ i = Len(pair.name)
      OBVIOUS
    <3>2. u \in {1, 4} /\ v \in {1, 4} /\ t \in Nat /\ i \in Nat
      BY <1>2, <3>1, Zenon
    <3>3. t + u + v + i \in Nat /\ 8 + (t + u + v + i) = 8 + t + u + v + i
      BY <3>2
    <3> QED
      BY <1>2, <1>3, <3>1, <3>3, Zenon
  <2>2. n = size + vl /\ n <= c
    BY <1>1, <1>3, Zenon
  <2>3. /\ Len(Content(m)) \in Nat /\ m.padding \in Nat
        /\ Len(Encode(m)) = 8 + Len(Content(m)) + m.padding
    BY <1>1, MessageNumbers
  <2>4. c \in Nat /\ l \in Nat /\ c + 8 <= l
    BY <1>3, <2>3
  <2> QED
    BY <2>1, <2>2, <2>4
<1>5. OctetsOnWire(Encode(m), 8 + size, pair.value)
  <2>1. OctetsOnWire(Encode(m), 8 + start + a + b + Len(pair.name), pair.value)
    BY <1>1, Zenon DEF PairOnWire
  <2>2. 8 + size = 8 + start + a + b + Len(pair.name)
    BY <1>4
  <2> QED
    BY <2>1, <2>2
<1>6. PICK q : q = Allocated(p, "value", Len(pair.value))
  OBVIOUS
<1>7. SameBut(p, q, "value") /\ Buffered(q, "value", pair.value, size, o)
  BY <1>2, <1>6, BufferedOnce DEF ValueDue
<1>8. /\ q \in Parsers /\ q.params # <<>> /\ q.state = "VALUE_DATA"
      /\ InPairs(q, m) /\ Len(q.params) = k
  BY <1>7, StillInPairs DEF ValueDue
<1>9. LastParam(q).name = pair.name
  BY <1>7 DEF SameBut, KeepsParam, ParameterFields, ValueDue
<1>10. ValueData(p, octet, ok) = IF q.read_counter = 0 THEN EndOfPair(q, octet, ok)
                                 ELSE StoreLast(q, "value", octet)
  <2>1. CASE Unbuffered(p, "value", size, o) /\ LastParam(p).value_length = Len(pair.value)
    BY <1>6, <2>1 DEF ValueData
  <2>2. CASE Buffered(p, "value", pair.value, size, o)
    <3>1. LastParam(p).value # Null
      BY <2>2 DEF Buffered, Copied
    <3> QED
      BY <1>6, <3>1 DEF ValueData, Allocated
  <2> QED
    BY <2>1, <2>2 DEF ValueDue
<1>11. CASE q.read_counter = 0
  <2>1. Copied(LastParam(q).value, pair.value, 0) /\ q.message_size = size + vl
        /\ o + 0 = 8 + size + vl
    BY <1>3, <1>7, <1>11 DEF Buffered
  <2>2. LastParam(q).value = pair.value
    <3>1. LastParam(q).value \in Bytes
      BY <1>8, <2>1, LastIsParam DEF Parameters, Copied
    <3> QED
      BY <1>2, <2>1, <3>1, CopiedAll DEF Bytes
  <2>3. HoldsTo(q, m, k)
    <3>1. HoldsTo(q, m, k - 1) /\ LastParam(q) = q.params[k] /\ k \in Nat
      BY <1>8 DEF InPairs, LastParam, Parsers
    <3>2. \A i \in 1 .. k : i = k \/ i \in 1 .. k - 1
      BY <3>1
    <3> QED
      BY <1>1, <1>9, <2>2, <3>1, <3>2 DEF HoldsTo
  <2>4. q.message_size = n /\ o = 8 + n
    BY <1>4, <2>1
  <2>5. Advances(EndOfPair(q, octet, ok), m, o, octet)
    BY <1>3, <1>8, <2>3, <2>4, EndFollows
  <2> QED
    BY <1>10, <1>11, <2>5
<1>12. CASE q.read_counter # 0
  <2>1. PICK r : r = StoreLast(q, "value", octet)
    OBVIOUS
  <2>2. o < l
    <3>1. /\ o + q.read_counter = 8 + size + vl
      BY <1>3, <1>7 DEF Buffered
    <3>2. q.read_counter \in Nat
      BY <1>8 DEF Parsers
    <3> QED
      BY <1>4, <1>12, <3>1, <3>2, SMTT(60)
  <2>3. ASSUME octet = Encode(m)[o + 1]
        PROVE  Follows(r, m, o + 1) /\ r.state \notin FinalStates
    <3>1. SameBut(q, r, "value") /\ Buffered(r, "value", pair.value, size, o + 1)
      BY <1>2, <1>4, <1>5, <1>7, <1>8, <1>12, <2>1, <2>3, OctetStored
    <3>2. /\ r \in Parsers /\ r.params # <<>> /\ r.state = "VALUE_DATA"
          /\ InPairs(r, m) /\ Len(r.params) = k
      BY <1>8, <3>1, StillInPairs
    <3>3. LastParam(r).name = pair.name
      BY <1>9, <3>1 DEF SameBut, KeepsParam, ParameterFields
    <3>4. ValueAt(r, LastParam(r), pair, start, a, b, o + 1)
      <4>1. /\ Copied(LastParam(r).value, pair.value, r.read_counter)
            /\ r.message_size = size + Len(pair.value)
            /\ (o + 1) + r.read_counter = 8 + size + Len(pair.value)
        BY <3>1 DEF Buffered
      <4>2. 8 + size = 8 + start + a + b + Len(pair.name)
        BY <1>4
      <4> QED
        BY <3>2, <3>3, <4>1, <4>2, Zenon DEF ValueAt
    <3>5. InPair(r, pair, start, o + 1) /\ r.state \notin FinalStates
      BY <1>1, <3>4, IntoPair
    <3> QED
      BY <3>2, <3>5, InPairsFollow
  <2> QED
    BY <1>1, <1>3, <1>10, <1>12, <2>1, <2>2, <2>3, AdvanceBy
<1> QED
  BY <1>11, <1>12

\* The numbers of a pair: where its name and its value start.
LEMMA PlacedSizes ==
  ASSUME NEW m, NEW k, NEW pair, NEW start, NEW a, NEW b, Placed(m, k, pair, start, a, b)
  PROVE  /\ start + a + b \in Nat /\ 8 + (start + a + b) = 8 + start + a + b
         /\ start + a + b + Len(pair.name) \in Nat
         /\ 8 + (start + a + b + Len(pair.name)) = 8 + start + a + b + Len(pair.name)
         /\ (start + a + b) + Len(pair.name) = start + a + b + Len(pair.name)
         /\ 8 + (start + a + b) + Len(pair.name) <= Len(Encode(m))
         /\ Len(Encode(m)) \in Nat
         /\ pair.name \in Seq(Octet) /\ Len(pair.name) \in Nat
<1>1. /\ PairOnWire(Encode(m), pair, start, a, b)
      /\ Before(Encoded(m), k) = start + a + b + Len(pair.name) + Len(pair.value)
      /\ Before(Encoded(m), k) <= Len(Content(m))
      /\ IsSent(m) /\ IsSupported(m)
  <2>1. IsSent(m) /\ IsSupported(m)
    BY Zenon DEF Placed
  <2> QED
    BY <2>1, PlacedNumbers
<1>2. /\ start \in Nat /\ a \in {1, 4} /\ b \in {1, 4}
      /\ Len(pair.name) \in Nat /\ Len(pair.value) \in Nat
      /\ pair.name \in Seq(Octet)
  BY <1>1, PairNumbers
<1>3. /\ Len(Content(m)) \in Nat /\ m.padding \in Nat
      /\ Len(Encode(m)) = 8 + Len(Content(m)) + m.padding /\ Len(Encode(m)) \in Nat
  BY <1>1, MessageNumbers
<1>4. PICK u, v, t, i, j, n, c, d, l :
         /\ u = a /\ v = b /\ t = start /\ i = Len(pair.name) /\ j = Len(pair.value)
         /\ n = Before(Encoded(m), k) /\ c = Len(Content(m)) /\ d = m.padding
         /\ l = Len(Encode(m))
  OBVIOUS
<1>5. /\ u \in {1, 4} /\ v \in {1, 4} /\ t \in Nat /\ i \in Nat /\ j \in Nat
      /\ c \in Nat /\ d \in Nat
  BY <1>2, <1>3, <1>4, Zenon
<1>6. n = t + u + v + i + j /\ n <= c /\ l = 8 + c + d
  BY <1>1, <1>3, <1>4, Zenon
<1>7. /\ t + u + v \in Nat /\ 8 + (t + u + v) = 8 + t + u + v
      /\ t + u + v + i \in Nat /\ 8 + (t + u + v + i) = 8 + t + u + v + i
      /\ (t + u + v) + i = t + u + v + i
      /\ 8 + (t + u + v) + i <= l
  BY <1>5, <1>6
<1> QED
  BY <1>2, <1>3, <1>4, <1>7, Zenon

\* An octet in NAME_DATA is understood, also when the name has none.
LEMMA NameFollows ==
  ASSUME NEW m, NEW p \in Parsers, InPairs(p, m), NEW k, k = Len(p.params),
         NEW pair, NEW start, NEW a, NEW b, Placed(m, k, pair, start, a, b),
         NEW o \in Nat, NameAt(p, LastParam(p), pair, start, a, b, o),
         NEW octet \in Octet, NEW ok \in BOOLEAN, ok
  PROVE  Advances(NameData(p, octet, ok), m, o, octet)
<1>1. PairOnWire(Encode(m), pair, start, a, b) /\ IsSent(m) /\ IsSupported(m)
  BY Zenon DEF Placed
<1>2. PICK size, size2, l : /\ size = start + a + b
                            /\ size2 = start + a + b + Len(pair.name)
                            /\ l = Len(Encode(m))
  OBVIOUS
<1>3. /\ size \in Nat /\ size2 \in Nat /\ l \in Nat
      /\ 8 + size = 8 + start + a + b
      /\ size2 = size + Len(pair.name) /\ 8 + size + Len(pair.name) <= l
      /\ pair.name \in Seq(Octet) /\ Len(pair.name) \in Nat
  BY <1>2, PlacedSizes
<1>4. /\ p.state = "NAME_DATA" /\ LastParam(p).value = Null
      /\ LastParam(p).name_length = Len(pair.name)
      /\ LastParam(p).value_length = Len(pair.value)
      /\ p.params # <<>>
  BY DEF NameAt, InPairs
<1>5. Unbuffered(p, "name", size, o) \/ Buffered(p, "name", pair.name, size, o)
  <2>1. \/ /\ LastParam(p).name = Null /\ p.message_size = size /\ o = 8 + size
        \/ /\ Copied(LastParam(p).name, pair.name, p.read_counter)
           /\ p.message_size = size + Len(pair.name)
           /\ o + p.read_counter = 8 + size + Len(pair.name)
    BY <1>2, <1>3, Zenon DEF NameAt
  <2> QED
    BY <2>1 DEF Unbuffered, Buffered
<1>6. PICK q : q = Allocated(p, "name", Len(pair.name))
  OBVIOUS
<1>7. SameBut(p, q, "name") /\ Buffered(q, "name", pair.name, size, o)
  BY <1>3, <1>4, <1>5, <1>6, BufferedOnce
<1>8. /\ q \in Parsers /\ q.params # <<>> /\ q.state = "NAME_DATA"
      /\ InPairs(q, m) /\ Len(q.params) = k
  BY <1>4, <1>7, StillInPairs
<1>9. /\ LastParam(q).value = Null
      /\ LastParam(q).name_length = Len(pair.name)
      /\ LastParam(q).value_length = Len(pair.value)
  BY <1>4, <1>7 DEF SameBut, KeepsParam, ParameterFields
<1>10. NameData(p, octet, ok) = IF q.read_counter = 0
                                THEN ValueData(Goto(q, "VALUE_DATA"), octet, ok)
                                ELSE StoreLast(q, "name", octet)
  BY <1>4, <1>6 DEF NameData
<1>11. CASE q.read_counter = 0
  <2>1. PICK r : r = Goto(q, "VALUE_DATA")
    OBVIOUS
  <2>2. r \in Parsers /\ r.state = "VALUE_DATA" /\ Keeps(q, r, {"state"})
    <3>1. "VALUE_DATA" \in States
      BY DEF States, DataStates
    <3> QED
      BY <1>8, <2>1, <3>1, GotoFacts
  <2>3. /\ r.params = q.params /\ r.message_size = q.message_size
        /\ Keeps(q, r, {"state", "params", "read_counter", "message_size"})
    BY <2>2 DEF Keeps, ParserFields
  <2>4. KeepsFront(q, r) /\ LastParam(r) = LastParam(q)
    BY <2>3 DEF KeepsFront, LastParam
  <2>5. InPairs(r, m) /\ Len(r.params) = k
    BY <1>8, <2>2, <2>3, <2>4, InPairsKept
  <2>6. /\ Copied(LastParam(q).name, pair.name, 0)
        /\ q.message_size = size2 /\ o + 0 = 8 + size + Len(pair.name)
    BY <1>3, <1>7, <1>11 DEF Buffered
  <2>7. LastParam(q).name = pair.name
    <3>1. LastParam(q).name \in Bytes
      BY <1>8, <2>6, LastIsParam DEF Parameters, Copied
    <3> QED
      BY <1>3, <2>6, <3>1, CopiedAll DEF Bytes
  <2>8. o = 8 + size2
    BY <1>3, <2>6
  <2>9. ValueDue(r, pair, size2, o)
    BY <1>8, <1>9, <2>2, <2>3, <2>4, <2>6, <2>7, <2>8 DEF ValueDue, Unbuffered
  <2>10. Advances(ValueData(r, octet, ok), m, o, octet)
    BY <1>2, <2>2, <2>5, <2>9, ValueFollows
  <2> QED
    BY <1>10, <1>11, <2>1, <2>10
<1>12. CASE q.read_counter # 0
  <2>1. PICK r : r = StoreLast(q, "name", octet)
    OBVIOUS
  <2>2. o < l
    <3>1. /\ o + q.read_counter = 8 + size + Len(pair.name)
      BY <1>7 DEF Buffered
    <3>2. q.read_counter \in Nat
      BY <1>8 DEF Parsers
    <3>3. PICK c, n : c = q.read_counter /\ n = Len(pair.name)
      OBVIOUS
    <3>4. c \in Nat /\ c # 0 /\ n \in Nat
      BY <1>3, <1>12, <3>2, <3>3
    <3>5. o + c = 8 + size + n /\ 8 + size + n <= l
      BY <1>3, <3>1, <3>3, Zenon
    <3> QED
      BY <1>3, <3>4, <3>5
  <2>3. ASSUME octet = Encode(m)[o + 1]
        PROVE  Follows(r, m, o + 1) /\ r.state \notin FinalStates
    <3>0. OctetsOnWire(Encode(m), 8 + size, pair.name)
      <4>1. OctetsOnWire(Encode(m), 8 + start + a + b, pair.name)
        BY <1>1, Zenon DEF PairOnWire
      <4> QED
        BY <1>3, <4>1
    <3>1. SameBut(q, r, "name") /\ Buffered(r, "name", pair.name, size, o + 1)
      BY <1>3, <1>7, <1>8, <1>12, <2>1, <2>3, <3>0, OctetStored
    <3>2. /\ r \in Parsers /\ r.params # <<>> /\ r.state = "NAME_DATA"
          /\ InPairs(r, m) /\ Len(r.params) = k
      BY <1>8, <3>1, StillInPairs
    <3>3. /\ LastParam(r).value = Null
          /\ LastParam(r).name_length = Len(pair.name)
          /\ LastParam(r).value_length = Len(pair.value)
      BY <1>9, <3>1 DEF SameBut, KeepsParam, ParameterFields
    <3>4. NameAt(r, LastParam(r), pair, start, a, b, o + 1)
      <4>1. /\ Copied(LastParam(r).name, pair.name, r.read_counter)
            /\ r.message_size = size + Len(pair.name)
            /\ (o + 1) + r.read_counter = 8 + size + Len(pair.name)
        BY <3>1 DEF Buffered
      <4> QED
        BY <1>2, <1>3, <3>2, <3>3, <4>1, Zenon DEF NameAt
    <3>5. InPair(r, pair, start, o + 1) /\ r.state \notin FinalStates
      BY <1>1, <3>4, IntoPair
    <3> QED
      BY <3>2, <3>5, InPairsFollow
  <2> QED
    BY <1>1, <1>2, <1>10, <1>12, <2>1, <2>2, <2>3, AdvanceBy
<1> QED
  BY <1>11, <1>12

\* An octet of PARAMS is understood, and the one after it finishes the message.
LEMMA ParamsFollow ==
  ASSUME NEW m, IsSent(m), IsSupported(m), NEW p \in Parsers, NEW o \in Nat,
         Headed(p, m), ParamsAt(p, m, o), NEW octet \in Octet, NEW ok \in BOOLEAN, ok
  PROVE  Advances(ParseOctet(p, octet, ok), m, o, octet)
<1>1. PICK q : q = ParseOctet(p, octet, ok)
  OBVIOUS
<1>2. "pairs" \in DOMAIN m /\ m.pairs # <<>>
  BY DEF ParamsAt
<1>3. PICK c, pad, l, t : c = Len(Content(m)) /\ pad = m.padding /\ l = Len(Encode(m))
                          /\ t = Len(m.pairs)
  OBVIOUS
<1>4. c \in Nat /\ c # 0 /\ pad \in Nat /\ l = 8 + c + pad /\ t \in Nat /\ t # 0
  <2>1. /\ Len(Content(m)) \in Nat /\ m.padding \in Nat
        /\ Len(Encode(m)) = 8 + Len(Content(m)) + m.padding
        /\ Len(m.pairs) \in Nat
    BY <1>2, MessageNumbers
  <2>2. Len(Content(m)) # 0
    BY <1>2, SupportedKinds, Zenon DEF Kinds
  <2>3. Len(m.pairs) # 0
    BY <1>2, PairsFit
  <2> QED
    BY <1>3, <2>1, <2>2, <2>3
<1>5. CASE p.state = "NAME_LENGTH_B3" /\ p.params = <<>> /\ o = 8
  <2>1. q = NewParam(p, octet, ok)
    BY <1>1, <1>5 DEF ParseOctet, ParseParams, HeaderStates, BeginStates, LengthStates,
      FinalStates
  <2>2. Before(Encoded(m), 0) = 0
    <3>1. Encoded(m) \in Seq(Seq(Octet))
      BY <1>2, PairsFit
    <3>2. Upto(Encoded(m), 0) = <<>>
      BY <3>1, UptoGrows
    <3> QED
      BY <3>2 DEF Before
  <2>3. Len(p.params) = 0 /\ 0 + 1 \in 1 .. Len(m.pairs) /\ o = 8 + 0 /\ o < l
    BY <1>3, <1>4, <1>5
  <2>4. HoldsTo(p, m, 0)
    BY DEF HoldsTo
  <2>5. Advances(NewParam(p, octet, ok), m, o, octet)
    BY <1>2, <1>3, <1>5, <2>2, <2>3, <2>4, NextFollows
  <2> QED
    BY <1>1, <2>1, <2>5
<1>6. CASE /\ p.params # <<>> /\ Len(p.params) <= Len(m.pairs)
           /\ HoldsTo(p, m, Len(p.params) - 1)
           /\ InPair(p, m.pairs[Len(p.params)], Before(Encoded(m), Len(p.params) - 1), o)
  <2>1. InPairs(p, m)
    BY <1>2, <1>6 DEF InPairs
  <2>2. PICK k, pair, start, a, b :
          /\ k = Len(p.params) /\ pair = m.pairs[k] /\ start = Before(Encoded(m), k - 1)
          /\ a = LengthSize(Len(pair.name), pair.long)
          /\ b = LengthSize(Len(pair.value), pair.long)
    OBVIOUS
  <2>3. Placed(m, k, pair, start, a, b)
    <3>1. k \in 1 .. Len(m.pairs)
      <4>1. k \in Nat /\ k # 0
        BY <1>6, <2>2, LastIsParam
      <4> QED
        BY <1>3, <1>4, <1>6, <2>2, <4>1
    <3> QED
      BY <1>2, <2>2, <3>1, PlaceOf
  <2>4. PairOnWire(Encode(m), pair, start, a, b)
    BY <2>3, Zenon DEF Placed
  <2>5. \/ NameLengthAt(p, LastParam(p), pair, start, a, o)
        \/ ValueLengthAt(p, LastParam(p), pair, start, a, b, o)
        \/ NameAt(p, LastParam(p), pair, start, a, b, o)
        \/ ValueAt(p, LastParam(p), pair, start, a, b, o)
    BY <1>6, <2>2, Zenon DEF InPair
  <2>6. CASE \/ NameLengthAt(p, LastParam(p), pair, start, a, o)
             \/ ValueLengthAt(p, LastParam(p), pair, start, a, b, o)
    <3>1. o < l
      <4>1. PICK u, v, s, n : u = a /\ v = b /\ s = start /\ n = Len(pair.name)
        OBVIOUS
      <4>2. u \in {1, 4} /\ v \in {1, 4} /\ s \in Nat /\ n \in Nat
        BY <2>4, <4>1, PairNumbers, Zenon
      <4>3. \/ u = 4 /\ o \in {9 + s, 10 + s, 11 + s}
            \/ o = 8 + s + u
            \/ v = 4 /\ o \in {9 + s + u, 10 + s + u, 11 + s + u}
        BY <2>6, <4>1, Zenon DEF NameLengthAt, ValueLengthAt
      <4>4. 8 + (s + u + v) + n <= l
        BY <1>3, <2>3, <4>1, PlacedSizes, Zenon
      <4> QED
        BY <1>4, <4>2, <4>3, <4>4
    <3>2. ASSUME octet = Encode(m)[o + 1]
          PROVE  Follows(q, m, o + 1) /\ q.state \notin FinalStates
      <4>1. /\ InPair(q, pair, start, o + 1) /\ q.state \notin FinalStates
            /\ q \in Parsers /\ q.params # <<>> /\ KeepsFront(p, q)
            /\ Keeps(p, q, {"state", "message_size", "params"})
        <5>1. LET r == ParseOctet(p, octet, ok) IN
                /\ InPair(r, pair, start, o + 1) /\ r.state \notin FinalStates
                /\ r \in Parsers /\ r.params # <<>> /\ KeepsFront(p, r)
                /\ Keeps(p, r, {"state", "message_size", "params"})
          BY <1>6, <2>4, <2>6, <3>2, LengthFollows
        <5> QED
          BY <1>1, <5>1, Zenon
      <4>2. Keeps(p, q, {"state", "params", "read_counter", "message_size"})
        BY <4>1 DEF Keeps
      <4>3. InPairs(q, m) /\ Len(q.params) = k
        BY <2>1, <2>2, <4>1, <4>2, InPairsKept
      <4> QED
        BY <2>3, <4>1, <4>3, InPairsFollow
    <3> QED
      BY <1>1, <1>3, <3>1, <3>2, AdvanceBy
  <2>7. CASE NameAt(p, LastParam(p), pair, start, a, b, o)
    <3>1. p.state = "NAME_DATA"
      BY <2>7 DEF NameAt
    <3>2. q = NameData(p, octet, ok)
      BY <1>1, <3>1 DEF ParseOctet, ParseParams, HeaderStates, BeginStates, LengthStates,
      FinalStates
    <3> QED
      BY <1>1, <2>1, <2>2, <2>3, <2>7, <3>2, NameFollows, ZenonT(60)
  <2>8. CASE ValueAt(p, LastParam(p), pair, start, a, b, o)
    <3>1. p.state = "VALUE_DATA"
      BY <2>8 DEF ValueAt
    <3>2. q = ValueData(p, octet, ok)
      BY <1>1, <3>1 DEF ParseOctet, ParseParams, HeaderStates, BeginStates, LengthStates,
      FinalStates
    <3>3. PICK size : size = start + a + b + Len(pair.name)
      OBVIOUS
    <3>4. 8 + size = 8 + start + a + b + Len(pair.name)
      BY <2>3, <3>3, PlacedSizes
    <3>5. ValueDue(p, pair, size, o)
      <4>1. /\ LastParam(p).name = pair.name
            /\ Copied(LastParam(p).value, pair.value, p.read_counter)
            /\ p.message_size = size + Len(pair.value)
            /\ o + p.read_counter = 8 + size + Len(pair.value)
        BY <2>8, <3>3, <3>4, Zenon DEF ValueAt
      <4> QED
        BY <1>6, <3>1, <4>1 DEF ValueDue, Buffered
    <3>6. Advances(ValueData(p, octet, ok), m, o, octet)
      BY <2>1, <2>2, <2>3, <3>3, <3>5, ValueFollows
    <3> QED
      BY <1>1, <3>2, <3>6
  <2> QED
    BY <2>5, <2>6, <2>7, <2>8
<1>7. CASE /\ p.state = "PARAM_PADDING" /\ Holds(p, m)
           /\ p.read_counter < m.padding
           /\ o + p.read_counter = 8 + Len(Content(m)) + m.padding
  <2>1. q = ParsePadding(p)
    BY <1>1, <1>7 DEF ParseOctet, ParseParams, HeaderStates, BeginStates, LengthStates,
      FinalStates
  <2>2. /\ q \in Parsers /\ Keeps(p, q, {"state", "read_counter"})
        /\ p.read_counter = 0 => q.state = "FINISHED"
        /\ p.read_counter # 0 => q.state = p.state /\ q.read_counter = p.read_counter - 1
    BY <2>1, PaddingFacts
  <2>3. p.read_counter < pad /\ p.read_counter \in Nat /\ o + p.read_counter = 8 + c + pad
    BY <1>3, <1>7 DEF Parsers
  <2>4. Headed(q, m) /\ Holds(q, m)
    <3>1. Headed(q, m) /\ q.params = p.params
      BY <2>2 DEF Headed, Keeps, ParserFields
    <3>2. /\ m.type = Params /\ "flags" \notin DOMAIN m
      BY <1>2, MessageNumbers
    <3> QED
      BY <1>2, <1>7, <3>1, <3>2 DEF Holds, Headed, Params, Stdin
  <2>5. CASE p.read_counter = 0
    <3>1. q.state = "FINISHED" /\ o = 8 + c + pad /\ ~(o < l)
      BY <1>4, <2>2, <2>3, <2>5
    <3>2. FinishedAt(q, m, o)
      BY <1>3, <2>4, <3>1 DEF FinishedAt
    <3> QED
      BY <1>1, <1>3, <3>1, <3>2 DEF Advances
  <2>6. CASE p.read_counter # 0
    <3>1. q.state = "PARAM_PADDING" /\ q.read_counter = p.read_counter - 1
      BY <1>7, <2>2, <2>6
    <3>2. (o + 1) + q.read_counter = 8 + c + pad /\ q.read_counter < pad /\ o # l
      BY <1>4, <2>3, <2>6, <3>1
    <3>3. ParamsAt(q, m, o + 1)
      BY <1>2, <1>3, <2>4, <3>1, <3>2 DEF ParamsAt
    <3> QED
      BY <1>1, <1>3, <2>4, <3>1, <3>2, <3>3 DEF Advances, Follows, FinalStates
  <2> QED
    BY <2>5, <2>6
<1> QED
  BY <1>5, <1>6, <1>7 DEF ParamsAt

-----------------------------------------------------------------------------
(***************************************************************************)
(* Every octet, with and without memory.                                   *)
(***************************************************************************)

\* A parser that follows m is finished only at its end, and never fails.
LEMMA FollowsEnds ==
  ASSUME NEW p, NEW m, NEW o, Follows(p, m, o)
  PROVE  p.state # "ERROR" /\ (p.state = "FINISHED" => FinishedAt(p, m, o))
<1>1. ASSUME HeaderAt(p, m, o) PROVE p.state \in HeaderStates
  BY <1>1 DEF HeaderAt, HeaderOrder, HeaderStates
<1>2. ASSUME BeginAt(p, m, o) PROVE p.state \in BeginStates
  BY <1>2 DEF BeginAt, BeginOrder, BeginStates
<1>3. ASSUME StdinAt(p, m, o) PROVE p.state \in {"STDIN_DATA", "STDIN_PADDING"}
  BY <1>3 DEF StdinAt
<1>4. ASSUME ParamsAt(p, m, o) PROVE p.state \notin FinalStates
  BY <1>4 DEF ParamsAt, InPair, NameLengthAt, ValueLengthAt, NameAt, ValueAt, FinalStates
<1>5. ASSUME FinishedAt(p, m, o) PROVE p.state = "FINISHED"
  BY <1>5 DEF FinishedAt
<1> QED
  BY <1>1, <1>2, <1>3, <1>4, <1>5 DEF Follows, HeaderStates, BeginStates, FinalStates

\* A new parser is at the start of a message.
LEMMA InitFollows ==
  ASSUME NEW m
  PROVE  Follows(ParserInit, m, 0)
  BY DEF Follows, HeaderAt, HeaderOrder, ParserInit

\* What the parser makes of an octet, and whether it counts it.
LEMMA OctetFollows ==
  ASSUME NEW m, IsSent(m), IsSupported(m), NEW p \in Parsers, NEW o \in Nat,
         Follows(p, m, o), p.state \notin FinalStates,
         NEW octet \in Octet, NEW ok \in BOOLEAN, ok
  PROVE  LET q == ParseOctet(p, octet, ok) IN
           /\ o < Len(Encode(m)) /\ octet = Encode(m)[o + 1] =>
                Follows(q, m, o + 1) /\ IsCounted(p, octet, ok)
           /\ o = Len(Encode(m)) => FinishedAt(q, m, o) /\ ~IsCounted(p, octet, ok)
<1>1. PICK q : q = ParseOctet(p, octet, ok)
  OBVIOUS
<1>2. PICK c, pad, l : c = Len(Content(m)) /\ pad = m.padding /\ l = Len(Encode(m))
  OBVIOUS
<1>3. c \in Nat /\ pad \in Nat /\ l = 8 + c + pad
  BY <1>2, MessageNumbers
<1>4. CASE HeaderAt(p, m, o)
  <2>1. o < l
    <3>1. o \in 0 .. 7
      BY <1>4 DEF HeaderAt
    <3> QED
      BY <1>3, <3>1
  <2>2. octet = Encode(m)[o + 1] => p.state \in HeaderStates /\ Follows(q, m, o + 1)
    BY <1>1, <1>4, HeaderFollows
  <2>3. p.state \in HeaderStates => IsCounted(p, octet, ok)
    BY Zenon DEF IsCounted
  <2>4. o # l
    BY <1>3, <2>1
  <2> QED
    BY <1>1, <1>2, <2>2, <2>3, <2>4
<1>5. CASE Headed(p, m) /\ BeginAt(p, m, o)
  <2>1. o < l
    <3>1. o \in 8 .. 15 /\ "flags" \in DOMAIN m
      BY <1>5 DEF BeginAt
    <3>2. c = 8
      BY <1>2, <3>1, ContentFacts
    <3> QED
      BY <1>3, <3>1, <3>2
  <2>2. octet = Encode(m)[o + 1] => p.state \in BeginStates /\ Follows(q, m, o + 1)
    BY <1>1, <1>5, BeginFollows
  <2>3. p.state \in BeginStates => IsCounted(p, octet, ok)
    BY Zenon DEF IsCounted
  <2>4. o # l
    BY <1>3, <2>1
  <2> QED
    BY <1>1, <1>2, <2>2, <2>3, <2>4
<1>6. CASE Headed(p, m) /\ (StdinAt(p, m, o) \/ ParamsAt(p, m, o))
  <2>1. Advances(q, m, o, octet)
    BY <1>1, <1>6, StdinFollows, ParamsFollow
  <2>2. p.state \notin HeaderStates \cup BeginStates
    <3>1. ASSUME StdinAt(p, m, o) PROVE p.state \in {"STDIN_DATA", "STDIN_PADDING"}
      BY <3>1 DEF StdinAt
    <3>2. ASSUME ParamsAt(p, m, o)
          PROVE  p.state \in LengthStates \cup {"NAME_DATA", "VALUE_DATA", "PARAM_PADDING"}
      BY <3>2, Zenon DEF ParamsAt, InPair, NameLengthAt, ValueLengthAt, NameAt, ValueAt,
                         LengthStates
    <3> QED
      BY <1>6, <3>1, <3>2 DEF HeaderStates, BeginStates, LengthStates
  <2>3. IsCounted(p, octet, ok) <=> q.state \notin FinalStates
    BY <1>1, <2>2 DEF IsCounted
  <2>4. FinishedAt(q, m, o) => q.state \in FinalStates
    BY DEF FinishedAt, FinalStates
  <2> QED
    BY <1>1, <2>1, <2>3, <2>4, Zenon DEF Advances
<1>7. CASE FinishedAt(p, m, o)
  BY <1>7 DEF FinishedAt, FinalStates
<1> QED
  BY <1>4, <1>5, <1>6, <1>7 DEF Follows

\* Memory that is out makes a difference by an error only.
LEMMA EndStarved ==
  ASSUME NEW p \in Parsers, NEW octet, NEW ok \in BOOLEAN, ok, NEW out \in BOOLEAN, ~out
  PROVE  \/ EndOfPair(p, octet, out) = EndOfPair(p, octet, ok)
         \/ EndOfPair(p, octet, out).state = "ERROR"
<1>1. NewParam(p, octet, out) = Goto(p, "ERROR") /\ Goto(p, "ERROR").state = "ERROR"
  BY DEF NewParam, Goto, Parsers
<1> QED
  BY <1>1 DEF EndOfPair

\* Without memory an octet in VALUE_DATA does the same or fails.
LEMMA ValueStarved ==
  ASSUME NEW p \in Parsers, NEW octet, NEW ok \in BOOLEAN, ok, NEW out \in BOOLEAN, ~out
  PROVE  \/ ValueData(p, octet, out) = ValueData(p, octet, ok)
         \/ ValueData(p, octet, out).state = "ERROR"
<1>1. CASE LastParam(p).value = Null
  BY <1>1 DEF ValueData, Goto, Parsers
<1>2. CASE LastParam(p).value # Null
  <2>1. Allocated(p, "value", LastParam(p).value_length) = p
    BY <1>2 DEF Allocated
  <2>2. \A b \in BOOLEAN :
          ValueData(p, octet, b) = IF p.read_counter = 0 THEN EndOfPair(p, octet, b)
                                   ELSE StoreLast(p, "value", octet)
    BY <1>2, <2>1 DEF ValueData
  <2>3. \/ EndOfPair(p, octet, out) = EndOfPair(p, octet, ok)
        \/ EndOfPair(p, octet, out).state = "ERROR"
    BY EndStarved
  <2> QED
    BY <2>2, <2>3
<1> QED
  BY <1>1, <1>2

\* Without memory an octet in NAME_DATA does the same or fails.
LEMMA NameStarved ==
  ASSUME NEW p \in Parsers, NEW octet, NEW ok \in BOOLEAN, ok, NEW out \in BOOLEAN, ~out
  PROVE  \/ NameData(p, octet, out) = NameData(p, octet, ok)
         \/ NameData(p, octet, out).state = "ERROR"
<1>1. CASE LastParam(p).name = Null
  BY <1>1 DEF NameData, Goto, Parsers
<1>2. CASE LastParam(p).name # Null
  <2>1. Allocated(p, "name", LastParam(p).name_length) = p
    BY <1>2 DEF Allocated
  <2>2. PICK q : q = Goto(p, "VALUE_DATA")
    OBVIOUS
  <2>3. q \in Parsers
    <3>1. "VALUE_DATA" \in States
      BY DEF States, DataStates
    <3> QED
      BY <2>2, <3>1, GotoFacts
  <2>4. \A b \in BOOLEAN :
          NameData(p, octet, b) = IF p.read_counter = 0 THEN ValueData(q, octet, b)
                                  ELSE StoreLast(p, "name", octet)
    BY <1>2, <2>1, <2>2 DEF NameData
  <2>5. \/ ValueData(q, octet, out) = ValueData(q, octet, ok)
        \/ ValueData(q, octet, out).state = "ERROR"
    BY <2>3, ValueStarved
  <2> QED
    BY <2>4, <2>5
<1> QED
  BY <1>1, <1>2

\* Without memory sl_fcgi_parser_parse does the same or fails.
LEMMA OctetStarved ==
  ASSUME NEW p \in Parsers, NEW octet, NEW ok \in BOOLEAN, ok, NEW out \in BOOLEAN, ~out
  PROVE  \/ ParseOctet(p, octet, out) = ParseOctet(p, octet, ok)
         \/ ParseOctet(p, octet, out).state = "ERROR"
<1> USE DEF HeaderStates, BeginStates, LengthStates, FinalStates
<1>1. CASE p.state \in HeaderStates \cup BeginStates \cup FinalStates
  BY <1>1 DEF ParseOctet
<1>2. CASE p.state = "NAME_LENGTH_B3"
  <2>1. \A b \in BOOLEAN : ParseOctet(p, octet, b) = NewParam(p, octet, b)
    BY <1>2 DEF ParseOctet, ParseParams
  <2>2. NewParam(p, octet, out).state = "ERROR"
    BY DEF NewParam, Goto, Parsers
  <2> QED
    BY <2>1, <2>2
<1>3. CASE p.state \in LengthStates \ {"NAME_LENGTH_B3"}
  <2>1. \A b \in BOOLEAN : ParseOctet(p, octet, b) = ParseLength(p, octet)
    BY <1>3 DEF ParseOctet, ParseParams
  <2> QED
    BY <2>1
<1>4. CASE p.state = "NAME_DATA"
  <2>1. \A b \in BOOLEAN : ParseOctet(p, octet, b) = NameData(p, octet, b)
    BY <1>4 DEF ParseOctet, ParseParams
  <2> QED
    BY <2>1, NameStarved
<1>5. CASE p.state = "VALUE_DATA"
  <2>1. \A b \in BOOLEAN : ParseOctet(p, octet, b) = ValueData(p, octet, b)
    BY <1>5 DEF ParseOctet, ParseParams
  <2> QED
    BY <2>1, ValueStarved
<1>6. CASE p.state = "PARAM_PADDING"
  <2>1. \A b \in BOOLEAN : ParseOctet(p, octet, b) = ParsePadding(p)
    BY <1>6 DEF ParseOctet, ParseParams
  <2> QED
    BY <2>1
<1>7. CASE p.state = "STDIN_PADDING"
  <2>1. \A b \in BOOLEAN : ParseOctet(p, octet, b) = ParsePadding(p)
    BY <1>7 DEF ParseOctet, ParseStdin
  <2> QED
    BY <2>1
<1>8. CASE p.state = "STDIN_DATA"
  <2>1. \A b \in BOOLEAN : ParseOctet(p, octet, b) = ParseStdin(p, octet, b)
    BY <1>8 DEF ParseOctet
  <2>2. CASE p.stdin = Null
    <3>1. ParseStdin(p, octet, out) = Goto(p, "ERROR")
      BY <1>8, <2>2 DEF ParseStdin
    <3>2. Goto(p, "ERROR").state = "ERROR"
      BY DEF Goto, Parsers
    <3> QED
      BY <2>1, <3>1, <3>2
  <2>3. CASE p.stdin # Null
    <3>1. ParseStdin(p, octet, out) = ParseStdin(p, octet, ok)
      BY <1>8, <2>3 DEF ParseStdin
    <3> QED
      BY <2>1, <3>1
  <2> QED
    BY <2>2, <2>3
<1> QED
  BY <1>1, <1>2, <1>3, <1>4, <1>5, <1>6, <1>7, <1>8 DEF Parsers, States, DataStates

-----------------------------------------------------------------------------
(***************************************************************************)
(* Streams of messages.                                                    *)
(***************************************************************************)

\* Where the n-th message ends on the wire.
EndIn(messages, n) == Len(EncodeAll(SubSeq(messages, 1, n)))

\* Where the messages of a stream are.
LEMMA StreamPlaced ==
  ASSUME NEW messages \in Seq(Messages),
         \A n \in DOMAIN messages : Len(Content(messages[n])) \in Ids
  PROVE  /\ Len(messages) \in Nat /\ EncodeAll(messages) \in Seq(Octet)
         /\ EndIn(messages, 0) = 0 /\ EndIn(messages, Len(messages)) = Len(EncodeAll(messages))
         /\ \A n \in 1 .. Len(messages) :
              /\ IsSent(messages[n]) /\ EndIn(messages, n - 1) \in Nat
              /\ EndIn(messages, n) = EndIn(messages, n - 1) + Len(Encode(messages[n]))
              /\ EndIn(messages, n) <= Len(EncodeAll(messages))
              /\ \A i \in 1 .. Len(Encode(messages[n])) :
                   EncodeAll(messages)[EndIn(messages, n - 1) + i] = Encode(messages[n])[i]
<1>1. PICK es : es = [n \in DOMAIN messages |-> Encode(messages[n])]
  OBVIOUS
<1>2. /\ es \in Seq(Seq(Octet)) /\ Len(es) = Len(messages) /\ Len(es) \in Nat
      /\ EncodeAll(messages) = FlattenSeq(es)
      /\ EncodeAll(messages) \in Seq(Octet)
      /\ \A n \in 1 .. Len(messages) : IsSent(messages[n])
  BY <1>1, AllEncoded
<1>3. messages \in Seq(Messages) /\ DOMAIN messages = 1 .. Len(messages)
  OBVIOUS
<1>4. ASSUME NEW n \in 0 .. Len(messages)
      PROVE  EndIn(messages, n) = Before(es, n)
  <2>1. PICK s : s = SubSeq(messages, 1, n)
    OBVIOUS
  <2>2. DOMAIN s = 1 .. n /\ \A k \in 1 .. n : s[k] = messages[k] /\ k \in DOMAIN messages
    BY <1>2, <1>3, <2>1
  <2>3. [k \in DOMAIN s |-> Encode(s[k])] = SubSeq(es, 1, n)
    <3>1. SubSeq(es, 1, n) = [k \in 1 .. n |-> es[k]]
      BY <1>2
    <3>2. \A k \in 1 .. n : es[k] = Encode(s[k])
      BY <1>1, <2>2
    <3> QED
      BY <2>2, <3>1, <3>2
  <2>4. EncodeAll(s) = Upto(es, n)
    BY <2>3, Zenon DEF EncodeAll, Upto
  <2> QED
    BY <2>1, <2>4, Zenon DEF EndIn, Before
<1>5. EndIn(messages, 0) = 0
  <2>1. Upto(es, 0) = <<>>
    BY <1>2, UptoGrows
  <2>2. 0 \in 0 .. Len(messages)
    BY <1>2
  <2> QED
    BY <1>4, <2>1, <2>2 DEF Before
<1>6. EndIn(messages, Len(messages)) = Len(EncodeAll(messages))
  <2>1. Upto(es, Len(es)) = EncodeAll(messages)
    BY <1>2, UptoGrows
  <2>2. Len(messages) \in 0 .. Len(messages)
    BY <1>2
  <2> QED
    BY <1>2, <1>4, <2>1, <2>2 DEF Before
<1>7. ASSUME NEW n \in 1 .. Len(messages)
      PROVE  /\ IsSent(messages[n]) /\ EndIn(messages, n - 1) \in Nat
             /\ EndIn(messages, n) = EndIn(messages, n - 1) + Len(Encode(messages[n]))
             /\ EndIn(messages, n) <= Len(EncodeAll(messages))
             /\ \A i \in 1 .. Len(Encode(messages[n])) :
                  EncodeAll(messages)[EndIn(messages, n - 1) + i] = Encode(messages[n])[i]
  <2>1. n \in 1 .. Len(es) /\ n \in 0 .. Len(messages) /\ n - 1 \in 0 .. Len(messages)
    BY <1>2
  <2>2. EndIn(messages, n) = Before(es, n) /\ EndIn(messages, n - 1) = Before(es, n - 1)
    BY <1>4, <2>1
  <2>3. es[n] = Encode(messages[n])
    BY <1>1, <1>3
  <2>4. /\ Before(es, n - 1) \in Nat /\ Before(es, n) \in Nat
        /\ Before(es, n) = Before(es, n - 1) + Len(es[n])
        /\ Before(es, n) <= Len(FlattenSeq(es))
        /\ \A i \in 1 .. Len(es[n]) : FlattenSeq(es)[Before(es, n - 1) + i] = es[n][i]
    BY <1>2, <2>1, PartInWhole
  <2> QED
    BY <1>2, <2>2, <2>3, <2>4
<1> QED
  BY <1>2, <1>3, <1>5, <1>6, <1>7

===============================================================================
