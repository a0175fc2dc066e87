--------------------------- MODULE ConnectionProofs ---------------------------
(***************************************************************************)
(* Proofs about Connection for every receive buffer, every way the octets  *)
(* are cut, and every set of requests the parser can follow: what is       *)
(* executed is what was sent.  And proofs of ConnectionHandler: a handler  *)
(* is a step of EventLoop.                                                 *)
(*                                                                         *)
(* The octets parsed since an event began at a request are, at every       *)
(* moment, whole messages of that request and the start of the next one;   *)
(* the request of the server is what those messages make of it, and the    *)
(* parser follows the next one (Follows of FcgiMessageProofs).             *)
(***************************************************************************)
EXTENDS ConnectionHandler, FcgiMessageProofs, FiniteSetTheorems

-----------------------------------------------------------------------------
(***************************************************************************)
(* What the first messages of a request make of the server's.              *)
(***************************************************************************)

\* The fields of the struct sl_fcgi_request, as far as it is modelled.
RequestFields ==
  {"state", "request_id", "flags", "parameters", "stdin", "crashed"}

\* One of the first j messages ends the stream of this type.
Ended(req, type, j) ==
  \E n \in 2 .. j : req[n].type = type /\ Content(req[n]) = <<>>

\* sl_fcgi_request.state after j messages.
StateAfter(req, j) ==
  IF j = 0 THEN "BEGIN"
  ELSE IF Ended(req, Params, j)
       THEN IF Ended(req, Stdin, j) THEN "FINISHED" ELSE "STDIN"
       ELSE IF Ended(req, Stdin, j) THEN "PARAM" ELSE "PARAM_OR_STDIN"

\* What it knows by then, and what it has collected if memory lasted.
Knows(r, req, j, out) ==
  /\ r = [f \in RequestFields |-> r[f]] /\ r.crashed = FALSE
  /\ IF j = 0 THEN r.flags = 0
              ELSE r.flags = req[1].flags /\ r.request_id = req[1].id
  /\ ~out => /\ r.parameters = ParametersOf(SubSeq(req, 1, j))
             /\ r.stdin = BodyOf(SubSeq(req, 1, j))

RequestAfter(r, req, j, out) == Knows(r, req, j, out) /\ r.state = StateAfter(req, j)

-----------------------------------------------------------------------------
(***************************************************************************)
(* Where the server is in the k-th request when it has read n octets.      *)
(***************************************************************************)

\* The messages of all requests of a script.
AllMessages(s) == FlattenSeq(s.requests)

\* Where the j-th message of its k-th request ends on the wire.
MessageEnd(s, k, j) == EndIn(AllMessages(s), Before(s.requests, k - 1) + j)

\* After j messages and o octets of the next one.
ReadingAt(st, s, k, n, j, o) ==
  LET m == s.requests[k][j + 1] IN
  /\ n = MessageEnd(s, k, j) + o /\ o <= Len(Encode(m))
  /\ Follows(st.parser, m, o)
  /\ RequestAfter(st.request, s.requests[k], j, st.starved)

\* Within the request.
Reading(st, s, k, n) ==
  /\ st.left = FALSE
  /\ st.parser \in Parsers /\ Filling(st.parser) /\ st.parser.state \notin FinalStates
  /\ \E j \in 0 .. Len(s.requests[k]) - 1 :
       \E o \in 0 .. Len(Encode(s.requests[k][j + 1])) : ReadingAt(st, s, k, n, j, o)

\* An allocation has failed, and the loop of sl_main_parse_buffer is left.
Broken(st) ==
  /\ st.left = TRUE /\ st.starved = TRUE
  /\ \/ st.request.crashed = TRUE
     \/ /\ st.request.crashed = FALSE /\ st.request.state # "FINISHED"
        /\ HasFailed(st.parser, st.request)

\* The last message has been processed.
Served(st, s, k, n) ==
  /\ st.parser \in Parsers /\ st.parser.state = "FINISHED"
  /\ RequestAfter(st.request, s.requests[k], Len(s.requests[k]), st.starved)
  /\ MessageEnd(s, k, Len(s.requests[k])) <= n

\* And then an octet more has been, too.
Spoiled(st, s, k, n) ==
  /\ st.left = TRUE
  /\ st.request.state = "ERROR"
  /\ Knows(st.request, s.requests[k], Len(s.requests[k]), st.starved)
  /\ MessageEnd(s, k, Len(s.requests[k])) < n

\* The variables of sl_main_parse_buffer, as ParseWith has them.
ProgressFields == {"parser", "request", "left", "starved"}
IsProgress(st) ==
  /\ st = [f \in ProgressFields |-> st[f]]
  /\ st.left \in BOOLEAN /\ st.starved \in BOOLEAN

\* What may have come of an event that began at the request.
Underway(st, s, k, n) ==
  Reading(st, s, k, n) \/ Broken(st) \/ (st.left = TRUE /\ Served(st, s, k, n))

\* What sl_main_parse_buffer may have made of the octets up to n, the first
\* ones of which it was given from one on when the request had been executed,
\* or not.
Outcome(st, s, k, from, n, done) ==
  /\ IsProgress(st)
  /\ IF ~done
     THEN Underway(st, s, k, n)
     ELSE IF n = from THEN st.left = FALSE /\ Served(st, s, k, n)
                      ELSE Spoiled(st, s, k, n)

-----------------------------------------------------------------------------
(***************************************************************************)
(* The invariant.                                                          *)
(***************************************************************************)

\* What one call of sl_main_parse_buffer hands to the next one.
Now == [parser |-> parser, request |-> request, left |-> FALSE, starved |-> starved]
Gone == [Now EXCEPT !.left = TRUE]

\* The request the event began at, counted from one.
Serving == Complete(start) + 1

\* The handler in an event that began at a request.
Serves ==
  \/ /\ ~executed /\ Reading(Now, script, Serving, received)
     /\ pc = "deciding" => IsLastRead(bytes_read)
  \/ ~executed /\ pc = "deciding" /\ starved /\ HasFailed(parser, request)
  \/ executed /\ Served(Now, script, Serving, received)
  \/ executed /\ pc = "deciding" /\ Spoiled(Gone, script, Serving, received)

ConnTypeOK ==
  /\ script \in Scripts
  /\ sent \in Nat /\ received \in Nat /\ start \in Nat /\ replies \in Nat
  /\ start <= received /\ received <= sent /\ sent <= Len(stream)
  /\ executed \in BOOLEAN /\ starved \in BOOLEAN
  /\ pc \in {"idle", "reading", "deciding", "closed", "crashed"}

ServerInv ==
  /\ pc = "idle" => parser = ParserInit /\ request = RequestInit
  /\ InHandler /\ executed => start < received
  /\ InHandler /\ BeganAtRequest => Serves
  /\ pc = "closed" /\ executed /\ BeganAtRequest =>
       received > EndOfRequest(Serving)

\* A peer that waits for its answers and lets the connection be closed.
Modest == script.patient /\ ~AsksToKeep

ModestInv ==
  Modest =>
    /\ sent <= SendLimit
    /\ replies <= Complete(received)
    /\ pc = "idle" => received \in Boundaries
    /\ InHandler =>
         /\ start \in Boundaries
         /\ ~executed => replies <= Complete(start)
         /\ executed /\ request.state = "FINISHED" =>
              BeganAtRequest /\ received = EndOfRequest(Serving)

-----------------------------------------------------------------------------
(***************************************************************************)
(* sl_fcgi_request_append_param: the parameters are added in their order.  *)
(***************************************************************************)

\* sl_hashtable_set of one parameter.
AddOne(parameters, param, mem) ==
  IF mem = "bucket" /\ param.name \notin DOMAIN parameters
  THEN parameters
  ELSE Stored(parameters, param.name, IF mem = "value" THEN Null ELSE param.value)

\* The function FoldLeft of the community modules is defined by: it folds over
\* the set of the places, the last one first.
IsFold(g, base, params, mem) ==
  g = [s \in SUBSET (DOMAIN params) |->
         IF s = {} THEN base ELSE AddOne(g[s \ {Max(s)}], params[Max(s)], mem)]
Fold(base, params, mem) == CHOOSE g : IsFold(g, base, params, mem)

\* Where a name is copied, the parameters are what the fold makes of them.
LEMMA FoldIsChosen ==
  ASSUME NEW r, NEW p, NEW mem, mem # "name"
  PROVE  AppendParam(r, p, mem)
           = [r EXCEPT !.parameters = Fold(@, p.params, mem)[DOMAIN p.params]]
  BY DEF AppendParam, FoldLeft, MapThenFoldSet, Fold, IsFold, AddOne

\* The fold over the sets of places up to the n-th one.
FoldsTo(g, base, params, mem, n) ==
  /\ g = [s \in SUBSET (1 .. n) |-> g[s]]
  /\ \A s \in SUBSET (1 .. n) :
       g[s] = IF s = {} THEN base ELSE AddOne(g[s \ {Max(s)}], params[Max(s)], mem)

\* The largest place of a set.
LEMMA MaxIsLast ==
  ASSUME NEW n \in Nat, NEW s \in SUBSET (1 .. n + 1), n + 1 \in s
  PROVE  Max(s) = n + 1
<1>1. \A y \in s : n + 1 >= y
  OBVIOUS
<1>2. \A x \in s : (\A y \in s : x >= y) => x = n + 1
  BY <1>1
<1> QED
  BY <1>1, <1>2 DEF Max

\* Some function satisfies the equation of FoldLeft.
LEMMA FoldExistsTo ==
  ASSUME NEW base, NEW params, NEW mem
  PROVE  \A n \in Nat : \E g : FoldsTo(g, base, params, mem, n)
<1> DEFINE T == {n \in Nat : \E g : FoldsTo(g, base, params, mem, n)}
<1>1. 0 \in T
  <2> DEFINE g == [s \in SUBSET (1 .. 0) |-> base]
  <2>1. 1 .. 0 = {} /\ \A s \in SUBSET (1 .. 0) : s = {}
    OBVIOUS
  <2>2. FoldsTo(g, base, params, mem, 0)
    BY <2>1 DEF FoldsTo
  <2> QED
    BY <2>2
<1>2. ASSUME NEW n \in Nat, n \in T
      PROVE  n + 1 \in T
  <2>1. PICK g : FoldsTo(g, base, params, mem, n)
    BY <1>2
  <2> DEFINE h == [s \in SUBSET (1 .. n + 1) |->
                     IF n + 1 \in s THEN AddOne(g[s \ {n + 1}], params[n + 1], mem) ELSE g[s]]
  <2>2. ASSUME NEW s \in SUBSET (1 .. n + 1), n + 1 \notin s
        PROVE  s \in SUBSET (1 .. n) /\ h[s] = g[s]
    BY <2>2
  <2>3. ASSUME NEW s \in SUBSET (1 .. n + 1)
        PROVE  h[s] = IF s = {} THEN base ELSE AddOne(h[s \ {Max(s)}], params[Max(s)], mem)
    <3>1. CASE n + 1 \in s
      <4>1. Max(s) = n + 1 /\ s # {}
        BY <3>1, MaxIsLast
      <4>2. s \ {n + 1} \in SUBSET (1 .. n + 1) /\ n + 1 \notin s \ {n + 1}
        OBVIOUS
      <4>3. h[s \ {n + 1}] = g[s \ {n + 1}]
        BY <2>2, <4>2
      <4>4. h[s] = AddOne(g[s \ {n + 1}], params[n + 1], mem)
        BY <3>1
      <4> HIDE DEF h
      <4> QED
        BY <4>1, <4>3, <4>4
    <3>2. CASE n + 1 \notin s
      <4>1. s \in SUBSET (1 .. n) /\ h[s] = g[s]
        BY <2>2, <3>2
      <4>2. s \ {Max(s)} \in SUBSET (1 .. n + 1) /\ n + 1 \notin s \ {Max(s)}
        BY <3>2
      <4>3. h[s \ {Max(s)}] = g[s \ {Max(s)}]
        BY <2>2, <4>2
      <4>4. g[s] = IF s = {} THEN base ELSE AddOne(g[s \ {Max(s)}], params[Max(s)], mem)
        BY <2>1, <4>1 DEF FoldsTo
      <4> HIDE DEF h
      <4> QED
        BY <4>1, <4>3, <4>4
    <3> QED
      BY <3>1, <3>2
  <2>4. FoldsTo(h, base, params, mem, n + 1)
    <3>1. h = [s \in SUBSET (1 .. n + 1) |-> h[s]]
      OBVIOUS
    <3> HIDE DEF h
    <3> QED
      BY <2>3, <3>1 DEF FoldsTo
  <2> QED
    BY <2>4
<1> HIDE DEF T
<1>3. Nat \subseteq T
  BY <1>1, <1>2, SetInduction
<1> QED
  BY <1>3 DEF T

\* So FoldLeft adds the parameters one after the other.
LEMMA FoldGoesOn ==
  ASSUME NEW base, NEW S, NEW params \in Seq(S), NEW mem
  PROVE  /\ Fold(base, params, mem)[1 .. 0] = base
         /\ \A j \in 0 .. Len(params) - 1 :
              Fold(base, params, mem)[1 .. j + 1]
                = AddOne(Fold(base, params, mem)[1 .. j], params[j + 1], mem)
<1>1. DOMAIN params = 1 .. Len(params) /\ Len(params) \in Nat
  OBVIOUS
<1>2. PICK g : FoldsTo(g, base, params, mem, Len(params))
  BY <1>1, FoldExistsTo
<1>3. g = [s \in SUBSET (DOMAIN params) |-> g[s]]
  BY <1>1, <1>2 DEF FoldsTo
<1>4. \A s \in SUBSET (DOMAIN params) :
        g[s] = IF s = {} THEN base ELSE AddOne(g[s \ {Max(s)}], params[Max(s)], mem)
  BY <1>1, <1>2 DEF FoldsTo
<1>5. IsFold(g, base, params, mem)
  BY <1>3, <1>4, Zenon DEF IsFold
<1>6. PICK f : f = Fold(base, params, mem) /\ IsFold(f, base, params, mem)
  BY <1>5 DEF Fold
<1>7. \A s \in SUBSET (1 .. Len(params)) :
        f[s] = IF s = {} THEN base ELSE AddOne(f[s \ {Max(s)}], params[Max(s)], mem)
  BY <1>1, <1>6 DEF IsFold
<1>8. f[1 .. 0] = base
  <2>1. 1 .. 0 = {} /\ 1 .. 0 \in SUBSET (1 .. Len(params))
    BY <1>1
  <2> QED
    BY <1>7, <2>1
<1>9. ASSUME NEW j \in 0 .. Len(params) - 1
      PROVE  f[1 .. j + 1] = AddOne(f[1 .. j], params[j + 1], mem)
  <2>1. j \in Nat /\ j + 1 \in 1 .. j + 1
    BY <1>1
  <2>2. 1 .. j + 1 \in SUBSET (1 .. Len(params))
    BY <1>1
  <2>3. 1 .. j + 1 # {}
    BY <2>1
  <2>4. (1 .. j + 1) \ {j + 1} = 1 .. j
    BY <2>1
  <2>5. Max(1 .. j + 1) = j + 1
    BY <2>1, MaxIsLast
  <2> QED
    BY <1>7, <2>2, <2>3, <2>4, <2>5
<1> QED
  BY <1>6, <1>8, <1>9

-----------------------------------------------------------------------------
(***************************************************************************)
(* What a list of pairs says: of each name the last value.                 *)
(***************************************************************************)

\* What a list of pairs says.
Places(pairs, name) == {n \in DOMAIN pairs : pairs[n].name = name}
LastPlace(pairs, name) ==
  CHOOSE n \in Places(pairs, name) : \A k \in Places(pairs, name) : k <= n
NamesIn(pairs) == {pairs[n].name : n \in DOMAIN pairs}
Table(pairs) == [name \in NamesIn(pairs) |-> pairs[LastPlace(pairs, name)].value]

\* The parameters of messages are the table of their pairs.
LEMMA ParametersAreTable ==
  ASSUME NEW messages
  PROVE  ParametersOf(messages) = Table(PairsOf(messages))
  BY DEF ParametersOf, Table, NamesIn, LastPlace, Places

\* A place that none comes after is the last one.
LEMMA LastPlaceFacts ==
  ASSUME NEW S, NEW pairs \in Seq(S), NEW name, NEW n \in Places(pairs, name),
         \A k \in Places(pairs, name) : k <= n
  PROVE  LastPlace(pairs, name) = n
<1>1. \A k \in Places(pairs, name) : k \in Nat
  BY DEF Places
<1>2. \A x \in Places(pairs, name) :
        (\A k \in Places(pairs, name) : k <= x) => x = n
  BY <1>1
<1> QED
  BY <1>2 DEF LastPlace

\* A set of places up to the n-th one has a last one.
LEMMA LastOfSet ==
  ASSUME NEW n \in Nat, NEW T, T \subseteq 1 .. n, T # {}
  PROVE  \E x \in T : \A k \in T : k <= x
<1> DEFINE D == {d \in Nat : n - d \in T}
<1>1. \A k \in T : n - k \in D
  BY DEF D
<1>2. PICK d \in D : \A e \in D : ~(<<e, d>> \in OpToRel(<, Nat))
  BY <1>1, NatLessThanWellFounded, WFMin
<1>3. \A e \in D : ~(e < d)
  BY <1>2 DEF OpToRel
<1>4. n - d \in T /\ d \in Nat
  BY <1>2
<1>5. \A k \in T : k <= n - d
  BY <1>1, <1>3, <1>4
<1> QED
  BY <1>4, <1>5

\* The table of one pair more.
LEMMA TableGrows ==
  ASSUME NEW S, NEW pairs \in Seq(S), NEW pair \in S
  PROVE  Table(Append(pairs, pair)) = Stored(Table(pairs), pair.name, pair.value)
<1>1. PICK more, n : more = Append(pairs, pair) /\ n = Len(pairs)
  OBVIOUS
<1>2. /\ more \in Seq(S) /\ n \in Nat /\ Len(more) = n + 1
      /\ DOMAIN more = 1 .. n + 1 /\ DOMAIN pairs = 1 .. n
      /\ more[n + 1] = pair /\ \A k \in 1 .. n : more[k] = pairs[k]
  BY <1>1
<1>3. NamesIn(more) = NamesIn(pairs) \cup {pair.name}
  BY <1>2 DEF NamesIn
<1>4. LastPlace(more, pair.name) = n + 1
  <2>1. n + 1 \in Places(more, more[n + 1].name)
    BY <1>2 DEF Places
  <2>2. \A k \in Places(more, more[n + 1].name) : k <= n + 1
    BY <1>2 DEF Places
  <2>3. LastPlace(more, more[n + 1].name) = n + 1
    BY <1>2, <2>1, <2>2, LastPlaceFacts
  <2> QED
    BY <1>2, <2>3
<1>5. ASSUME NEW name \in NamesIn(pairs), name # pair.name
      PROVE  more[LastPlace(more, name)].value = pairs[LastPlace(pairs, name)].value
  <2>1. Places(more, name) = Places(pairs, name)
    <3>1. \A k \in 1 .. n + 1 : more[k].name = name => k \in 1 .. n
      BY <1>2, <1>5
    <3> QED
      BY <1>2, <3>1 DEF Places
  <2>2. LastPlace(more, name) = LastPlace(pairs, name)
    BY <2>1 DEF LastPlace
  <2>3. LastPlace(pairs, name) \in 1 .. n
    <3>1. PICK x \in Places(pairs, name) : TRUE
      BY DEF NamesIn, Places
    <3>2. \E y \in Places(pairs, name) : \A k \in Places(pairs, name) : k <= y
      <4>1. Places(pairs, name) \subseteq 1 .. n
        BY <1>2 DEF Places
      <4> QED
        BY <1>2, <3>1, <4>1, LastOfSet
    <3>3. LastPlace(pairs, name) \in Places(pairs, name)
      BY <3>2 DEF LastPlace
    <3> QED
      BY <1>2, <3>3 DEF Places
  <2> QED
    BY <1>2, <2>2, <2>3
<1>6. Table(more) = [name \in NamesIn(more) |-> more[LastPlace(more, name)].value]
  BY DEF Table
<1>7. Stored(Table(pairs), pair.name, pair.value)
        = [name \in NamesIn(pairs) \cup {pair.name} |->
             IF name = pair.name THEN pair.value ELSE pairs[LastPlace(pairs, name)].value]
  <2>1. DOMAIN Table(pairs) = NamesIn(pairs)
    BY DEF Table
  <2>2. \A name \in NamesIn(pairs) :
          Table(pairs)[name] = pairs[LastPlace(pairs, name)].value
    BY DEF Table
  <2> QED
    BY <2>1, <2>2 DEF Stored
<1>8. \A name \in NamesIn(pairs) \cup {pair.name} :
        more[LastPlace(more, name)].value
          = IF name = pair.name THEN pair.value ELSE pairs[LastPlace(pairs, name)].value
  BY <1>2, <1>4, <1>5
<1> QED
  BY <1>1, <1>3, <1>6, <1>7, <1>8

\* One element more.
LEMMA CatGrows ==
  ASSUME NEW S, NEW s \in Seq(S), NEW t \in Seq(S), NEW i \in 0 .. Len(t) - 1
  PROVE  /\ Cat(s, SubSeq(t, 1, 0)) = s
         /\ Cat(s, SubSeq(t, 1, i)) \in Seq(S) /\ t[i + 1] \in S
         /\ Cat(s, SubSeq(t, 1, i + 1)) = Append(Cat(s, SubSeq(t, 1, i)), t[i + 1])
<1>1. /\ SubSeq(t, 1, 0) = <<>> /\ SubSeq(t, 1, i) \in Seq(S) /\ t[i + 1] \in S
      /\ SubSeq(t, 1, i + 1) = Append(SubSeq(t, 1, i), t[i + 1])
  OBVIOUS
<1>2. PICK a : a = SubSeq(t, 1, i)
  OBVIOUS
<1>3. a \in Seq(S) /\ s \o Append(a, t[i + 1]) = Append(s \o a, t[i + 1])
  BY <1>1, <1>2
<1>4. s \o <<>> = s
  OBVIOUS
<1> QED
  BY <1>1, <1>2, <1>3, <1>4, SMTT(60) DEF Cat

\* All of it.
LEMMA CatAll ==
  ASSUME NEW S, NEW s \in Seq(S), NEW t \in Seq(S)
  PROVE  Cat(s, SubSeq(t, 1, Len(t))) = Cat(s, t) /\ Cat(s, SubSeq(t, 1, 0)) = s
<1>1. SubSeq(t, 1, Len(t)) = t /\ SubSeq(t, 1, 0) = <<>>
  OBVIOUS
<1>2. s \o <<>> = s
  OBVIOUS
<1> QED
  BY <1>1, <1>2 DEF Cat

\* One parameter more is one pair more.
LEMMA OneMorePair ==
  ASSUME NEW S, NEW pairs \in Seq(S), NEW more \in Seq(S), NEW i \in 0 .. Len(more) - 1,
         NEW param, param.name = more[i + 1].name, param.value = more[i + 1].value
  PROVE  AddOne(Table(Cat(pairs, SubSeq(more, 1, i))), param, "none")
           = Table(Cat(pairs, SubSeq(more, 1, i + 1)))
<1>1. Cat(pairs, SubSeq(more, 1, i)) \in Seq(S) /\ more[i + 1] \in S
  BY CatGrows
<1>2. Cat(pairs, SubSeq(more, 1, i + 1))
        = Append(Cat(pairs, SubSeq(more, 1, i)), more[i + 1])
  BY CatGrows, SMTT(60)
<1>3. PICK a : a = Cat(pairs, SubSeq(more, 1, i))
  OBVIOUS
<1>4. /\ a \in Seq(S) /\ more[i + 1] \in S
      /\ Cat(pairs, SubSeq(more, 1, i + 1)) = Append(a, more[i + 1])
  BY <1>1, <1>2, <1>3
<1>5. Table(Append(a, more[i + 1])) = Stored(Table(a), more[i + 1].name, more[i + 1].value)
  BY <1>4, TableGrows
<1>6. AddOne(Table(a), param, "none") = Stored(Table(a), param.name, param.value)
  BY DEF AddOne
<1> QED
  BY <1>3, <1>4, <1>5, <1>6

\* The table to which the parameters of a message have been added, memory
\* lasting.
Collected(parameters, params) == Fold(parameters, params, "none")[DOMAIN params]

\* Parameters with the names and values of pairs, stored one after the other
\* behind those of other pairs.
LEMMA FoldIsTable ==
  ASSUME NEW S, NEW pairs \in Seq(S), NEW more \in Seq(S),
         NEW P, NEW params \in Seq(P), Len(params) = Len(more),
         \A n \in 1 .. Len(more) :
           params[n].name = more[n].name /\ params[n].value = more[n].value
  PROVE  Collected(Table(pairs), params) = Table(Cat(pairs, more))
<1>1. Len(more) \in Nat /\ DOMAIN params = 1 .. Len(more)
  OBVIOUS
<1>2. PICK base, none : base = Table(pairs) /\ none = "none"
  OBVIOUS
<1>3. PICK F : F = Fold(base, params, none)
  OBVIOUS
<1>4. /\ F[1 .. 0] = base
      /\ \A i \in 0 .. Len(params) - 1 : F[1 .. i + 1] = AddOne(F[1 .. i], params[i + 1], none)
  <2>1. Fold(base, params, none)[1 .. 0] = base
    BY FoldGoesOn, ZenonT(60)
  <2>2. \A i \in 0 .. Len(params) - 1 :
          Fold(base, params, none)[1 .. i + 1]
            = AddOne(Fold(base, params, none)[1 .. i], params[i + 1], none)
    BY FoldGoesOn
  <2> QED
    BY <1>3, <2>1, <2>2
<1> DEFINE T == {i \in Nat : i <= Len(more) =>
                               F[1 .. i] = Table(Cat(pairs, SubSeq(more, 1, i)))}
<1>5. 0 \in T
  BY <1>1, <1>2, <1>4, CatAll
<1>6. ASSUME NEW i \in Nat, i \in T
      PROVE  i + 1 \in T
  <2> SUFFICES ASSUME i + 1 <= Len(more)
               PROVE  F[1 .. i + 1] = Table(Cat(pairs, SubSeq(more, 1, i + 1)))
    OBVIOUS
  <2>1. i \in 0 .. Len(more) - 1 /\ i + 1 \in 1 .. Len(more)
    BY <1>1
  <2>2. F[1 .. i] = Table(Cat(pairs, SubSeq(more, 1, i)))
    BY <1>1, <1>6, <2>1
  <2>3. F[1 .. i + 1] = AddOne(F[1 .. i], params[i + 1], "none")
    BY <1>1, <1>2, <1>4, <2>1
  <2>4. params[i + 1].name = more[i + 1].name /\ params[i + 1].value = more[i + 1].value
    BY <2>1
  <2>5. AddOne(Table(Cat(pairs, SubSeq(more, 1, i))), params[i + 1], "none")
           = Table(Cat(pairs, SubSeq(more, 1, i + 1)))
    BY <2>1, <2>4, OneMorePair
  <2> QED
    BY <2>2, <2>3, <2>5
<1> HIDE DEF T
<1>7. Nat \subseteq T
  BY <1>5, <1>6, SetInduction
<1>8. F[1 .. Len(more)] = Table(Cat(pairs, SubSeq(more, 1, Len(more))))
  BY <1>1, <1>7 DEF T
<1> QED
  BY <1>1, <1>2, <1>3, <1>8, CatAll DEF Collected

\* The pairs of a message, and its part of the body.
PairsIn(m) == IF "pairs" \in DOMAIN m THEN m.pairs ELSE <<>>
BodyIn(m) == IF m.type = Stdin THEN m.octets ELSE <<>>

\* They are pairs and octets.
LEMMA InMessages ==
  ASSUME NEW m, IsSent(m)
  PROVE  PairsIn(m) \in Seq(Pairs) /\ BodyIn(m) \in Seq(Octet)
  BY MessageKinds DEF IsSent, PairsIn, BodyIn, BeginRequest, Params, Stdin

\* One message more.
LEMMA MessagesGrow ==
  ASSUME NEW req, NEW j \in 0 .. Len(req) - 1, req \in Seq(Messages),
         \A n \in 1 .. Len(req) : IsSent(req[n])
  PROVE  /\ PairsOf(SubSeq(req, 1, 0)) = <<>> /\ BodyOf(SubSeq(req, 1, 0)) = <<>>
         /\ PairsOf(SubSeq(req, 1, j)) \in Seq(Pairs)
         /\ BodyOf(SubSeq(req, 1, j)) \in Seq(Octet)
         /\ PairsOf(SubSeq(req, 1, j + 1))
              = Cat(PairsOf(SubSeq(req, 1, j)), PairsIn(req[j + 1]))
         /\ BodyOf(SubSeq(req, 1, j + 1))
              = Cat(BodyOf(SubSeq(req, 1, j)), BodyIn(req[j + 1]))
<1>1. /\ Len(req) \in Nat /\ DOMAIN req = 1 .. Len(req) /\ j \in Nat /\ j + 1 \in 1 .. Len(req)
      /\ j \in 0 .. Len(req) /\ j + 1 \in 0 .. Len(req) /\ (j + 1) - 1 = j
      /\ 0 \in 0 .. Len(req)
  OBVIOUS
<1>2. PICK ps, bs : /\ ps = [n \in 1 .. Len(req) |-> PairsIn(req[n])]
                    /\ bs = [n \in 1 .. Len(req) |-> BodyIn(req[n])]
  OBVIOUS
<1>3. /\ ps \in Seq(Seq(Pairs)) /\ bs \in Seq(Seq(Octet))
      /\ Len(ps) = Len(req) /\ Len(bs) = Len(req)
      /\ ps[j + 1] = PairsIn(req[j + 1]) /\ bs[j + 1] = BodyIn(req[j + 1])
  <2>1. \A n \in 1 .. Len(req) : PairsIn(req[n]) \in Seq(Pairs) /\ BodyIn(req[n]) \in Seq(Octet)
    BY InMessages
  <2> QED
    BY <1>1, <1>2, <2>1
<1>4. ASSUME NEW n \in 0 .. Len(req)
      PROVE  /\ PairsOf(SubSeq(req, 1, n)) = Upto(ps, n)
             /\ BodyOf(SubSeq(req, 1, n)) = Upto(bs, n)
  <2>1. PICK s : s = SubSeq(req, 1, n)
    OBVIOUS
  <2>2. DOMAIN s = 1 .. n /\ \A k \in 1 .. n : s[k] = req[k]
    BY <1>1, <2>1
  <2>3. [k \in DOMAIN s |-> PairsIn(s[k])] = SubSeq(ps, 1, n)
    <3>1. SubSeq(ps, 1, n) = [k \in 1 .. n |-> ps[k]]
      BY <1>1, <1>3
    <3>2. \A k \in 1 .. n : ps[k] = PairsIn(s[k])
      BY <1>1, <1>2, <2>2
    <3> QED
      BY <2>2, <3>1, <3>2
  <2>4. [k \in DOMAIN s |-> BodyIn(s[k])] = SubSeq(bs, 1, n)
    <3>1. SubSeq(bs, 1, n) = [k \in 1 .. n |-> bs[k]]
      BY <1>1, <1>3
    <3>2. \A k \in 1 .. n : bs[k] = BodyIn(s[k])
      BY <1>1, <1>2, <2>2
    <3> QED
      BY <2>2, <3>1, <3>2
  <2> QED
    BY <2>1, <2>3, <2>4, Zenon DEF PairsOf, BodyOf, PairsIn, BodyIn, Upto
<1>5. /\ Upto(ps, 0) = <<>> /\ Upto(ps, j) \in Seq(Pairs)
      /\ Upto(ps, j + 1) = Cat(Upto(ps, j), ps[j + 1])
  <2>1. \A n \in 1 .. Len(ps) : Upto(ps, n) = Cat(Upto(ps, n - 1), ps[n])
    BY <1>3, UptoGrows
  <2>2. Upto(ps, j + 1) = Cat(Upto(ps, j), ps[j + 1])
    BY <1>1, <1>3, <2>1
  <2> QED
    BY <1>1, <1>3, <2>2, UptoGrows
<1>6. /\ Upto(bs, 0) = <<>> /\ Upto(bs, j) \in Seq(Octet)
      /\ Upto(bs, j + 1) = Cat(Upto(bs, j), bs[j + 1])
  <2>1. \A n \in 1 .. Len(bs) : Upto(bs, n) = Cat(Upto(bs, n - 1), bs[n])
    BY <1>3, UptoGrows
  <2>2. Upto(bs, j + 1) = Cat(Upto(bs, j), bs[j + 1])
    BY <1>1, <1>3, <2>1
  <2> QED
    BY <1>1, <1>3, <2>2, UptoGrows
<1> QED
  BY <1>1, <1>3, <1>4, <1>5, <1>6

-----------------------------------------------------------------------------
(***************************************************************************)
(* sl_fcgi_request_process takes the next message of a request.            *)
(***************************************************************************)

\* q is the request r but for these fields.
KeepsRequest(r, q, fields) ==
  /\ q = [f \in RequestFields |-> q[f]]
  /\ \A f \in RequestFields \ fields : q[f] = r[f]

\* An assignment to one field.
Assign(r, f, v) == [r EXCEPT ![f] = v]

\* It leaves the others alone.
LEMMA AssignFacts ==
  ASSUME NEW r, r = [f \in RequestFields |-> r[f]], NEW f \in RequestFields, NEW v
  PROVE  KeepsRequest(r, Assign(r, f, v), {f}) /\ Assign(r, f, v)[f] = v
<1>1. PICK q : q = [g \in RequestFields |-> IF g = f THEN v ELSE r[g]]
  OBVIOUS
<1>2. q = Assign(r, f, v)
  BY <1>1 DEF Assign
<1>3. KeepsRequest(r, q, {f}) /\ q[f] = v
  BY <1>1 DEF KeepsRequest
<1> QED
  BY <1>2, <1>3

\* BEGIN_REQUEST.
LEMMA BeginProcessed ==
  ASSUME NEW r, r = [f \in RequestFields |-> r[f]], r.state = "BEGIN",
         NEW p, p.type = BeginRequest, NEW mem, NEW q, q = ProcessMessage(r, p, mem)
  PROVE  /\ KeepsRequest(r, q, {"state", "flags", "request_id"})
         /\ q.state = "PARAM_OR_STDIN" /\ q.flags = p.flags /\ q.request_id = p.request_id
<1>1. q = [[r EXCEPT !.state = "PARAM_OR_STDIN"] EXCEPT !.flags = p.flags,
                                                          !.request_id = p.request_id]
  BY DEF ProcessMessage
<1>2. q = [f \in RequestFields |->
             CASE f = "state" -> "PARAM_OR_STDIN"
               [] f = "flags" -> p.flags
               [] f = "request_id" -> p.request_id
               [] OTHER -> r[f]]
  <2>1. PICK r1 : r1 = [r EXCEPT !.state = "PARAM_OR_STDIN"]
    OBVIOUS
  <2>2. r1 = [f \in RequestFields |-> IF f = "state" THEN "PARAM_OR_STDIN" ELSE r[f]]
    BY <2>1 DEF RequestFields
  <2>3. PICK r2 : r2 = [r1 EXCEPT !.flags = p.flags]
    OBVIOUS
  <2>4. r2 = [f \in RequestFields |-> IF f = "flags" THEN p.flags ELSE r1[f]]
    BY <2>2, <2>3 DEF RequestFields
  <2>5. q = [r2 EXCEPT !.request_id = p.request_id]
    BY <1>1, <2>1, <2>3
  <2>6. q = [f \in RequestFields |-> IF f = "request_id" THEN p.request_id ELSE r2[f]]
    BY <2>4, <2>5 DEF RequestFields
  <2> QED
    BY <2>2, <2>4, <2>6 DEF RequestFields
<1> QED
  BY <1>2 DEF KeepsRequest, RequestFields

\* The states in which messages of PARAMS, and of STDIN, are taken.
Takes(state, type) ==
  \/ state = "PARAM_OR_STDIN" /\ type \in {Params, Stdin}
  \/ state = "PARAM" /\ type = Params
  \/ state = "STDIN" /\ type = Stdin

\* An empty message.
LEMMA EndProcessed ==
  ASSUME NEW r, r = [f \in RequestFields |-> r[f]],
         NEW p, Takes(r.state, p.type), p.content_length = 0,
         NEW mem, NEW q, q = ProcessMessage(r, p, mem)
  PROVE  KeepsRequest(r, q, {"state"}) /\ q.state = Terminated(r, p)
<1>1. PICK s : s = Terminated(r, p)
  OBVIOUS
<1>2. q = Assign(r, "state", s)
  BY <1>1 DEF ProcessMessage, Assign, Takes, Params, Stdin
<1>3. "state" \in RequestFields
  BY DEF RequestFields
<1>4. KeepsRequest(r, q, {"state"}) /\ q["state"] = s
  BY <1>2, <1>3, AssignFacts
<1> QED
  BY <1>1, <1>4

\* A message of PARAMS with content.
LEMMA ParamsProcessed ==
  ASSUME NEW r, r = [f \in RequestFields |-> r[f]],
         NEW p, Takes(r.state, p.type), p.type = Params,
         p.content_length \in Nat, p.content_length # 0,
         NEW mem, NEW q, q = ProcessMessage(r, p, mem)
  PROVE  \/ mem = "name" /\ q.crashed = TRUE
         \/ /\ KeepsRequest(r, q, {"parameters"})
            /\ mem = "none" => q.parameters = Collected(r.parameters, p.params)
<1>1. q = AppendParam(r, p, mem)
  BY DEF ProcessMessage, Takes, Params, Stdin
<1>2. CASE mem = "name"
  <2>1. q = Assign(r, "crashed", TRUE) /\ "crashed" \in RequestFields
    BY <1>1, <1>2 DEF Assign, AppendParam, RequestFields
  <2>2. q["crashed"] = TRUE
    BY <2>1, AssignFacts
  <2> QED
    BY <1>2, <2>2
<1>3. CASE mem # "name"
  <2>1. PICK v : v = Fold(r.parameters, p.params, mem)[DOMAIN p.params]
    OBVIOUS
  <2>2. q = Assign(r, "parameters", v) /\ "parameters" \in RequestFields
    BY <1>1, <1>3, <2>1, FoldIsChosen DEF Assign, RequestFields
  <2>3. KeepsRequest(r, q, {"parameters"}) /\ q["parameters"] = v
    BY <2>2, AssignFacts
  <2> QED
    BY <2>1, <2>3 DEF Collected
<1> QED
  BY <1>2, <1>3

\* A message of STDIN with content.
LEMMA StdinProcessed ==
  ASSUME NEW r, r = [f \in RequestFields |-> r[f]],
         NEW p, Takes(r.state, p.type), p.type = Stdin,
         p.content_length \in Nat, p.content_length # 0,
         NEW mem, NEW q, q = ProcessMessage(r, p, mem)
  PROVE  \/ mem = "stdin" /\ q.state = "ERROR" /\ q.crashed = r.crashed
         \/ KeepsRequest(r, q, {"stdin"}) /\ q.stdin = Cat(r.stdin, p.stdin)
<1>1. q = AppendStdin(r, p, mem)
  BY DEF ProcessMessage, Takes, Params, Stdin
<1>2. CASE mem = "stdin"
  <2>1. PICK s : s = "ERROR"
    OBVIOUS
  <2>2. q = Assign(r, "state", s) /\ "state" \in RequestFields
    BY <1>1, <1>2, <2>1 DEF Assign, AppendStdin, RequestFields
  <2>3. KeepsRequest(r, q, {"state"}) /\ q["state"] = s
    BY <2>2, AssignFacts
  <2> QED
    BY <1>2, <2>1, <2>3 DEF KeepsRequest, RequestFields
<1>3. CASE mem # "stdin"
  <2>1. PICK v : v = Cat(r.stdin, p.stdin)
    OBVIOUS
  <2>2. q = Assign(r, "stdin", v) /\ "stdin" \in RequestFields
    BY <1>1, <1>3, <2>1 DEF Assign, AppendStdin, RequestFields, Cat
  <2>3. KeepsRequest(r, q, {"stdin"}) /\ q["stdin"] = v
    BY <2>2, AssignFacts
  <2> QED
    BY <2>1, <2>3
<1> QED
  BY <1>2, <1>3

\* What IsWhole says of the messages of a request.
WholeRequest(req) ==
  /\ req \in Seq(Messages) /\ Len(req) \in Nat \ {0}
  /\ \A n \in 1 .. Len(req) : IsSent(req[n]) /\ IsSupported(req[n])
  /\ "flags" \in DOMAIN req[1]
  /\ \A n \in 2 .. Len(req) : req[n].type \in {Params, Stdin}
  /\ \A type \in {Params, Stdin} : Ended(req, type, Len(req))
  /\ \A n, k \in 2 .. Len(req) :
       Content(req[n]) = <<>> /\ n < k => req[n].type # req[k].type
  /\ Content(req[Len(req)]) = <<>> /\ Len(req) >= 2

\* The requests of a script are whole.
LEMMA RequestsAreWhole ==
  ASSUME NEW s \in Scripts
  PROVE  /\ s.requests \in Seq(Seq(Messages)) /\ Len(s.requests) \in Nat
         /\ \A k \in 1 .. Len(s.requests) : WholeRequest(s.requests[k])
<1>1. /\ s.requests \in Seq(Seq(Messages)) /\ Len(s.requests) \in Nat
      /\ DOMAIN s.requests = 1 .. Len(s.requests)
  BY ScriptsAssumption
<1>2. ASSUME NEW k \in 1 .. Len(s.requests)
      PROVE  WholeRequest(s.requests[k])
  <2>1. PICK req : req = s.requests[k]
    OBVIOUS
  <2>2. req \in Seq(Messages) /\ IsWhole(req)
    BY <1>1, <2>1, ScriptsAssumption
  <2>3. /\ Len(req) \in Nat \ {0} /\ DOMAIN req = 1 .. Len(req)
        /\ \A n \in 1 .. Len(req) : req[n] \in Messages
    BY <2>2 DEF IsWhole
  <2>4. /\ \A n \in 1 .. Len(req) : IsSent(req[n]) /\ IsSupported(req[n])
        /\ "flags" \in DOMAIN req[1]
        /\ \A n \in 2 .. Len(req) : req[n].type \in {Params, Stdin}
        /\ \A n, i \in 2 .. Len(req) :
             Content(req[n]) = <<>> /\ n < i => req[n].type # req[i].type
        /\ Content(req[Len(req)]) = <<>>
    BY <2>2, <2>3 DEF IsWhole, IsSent
  <2>5. \A type \in {Params, Stdin} : Ended(req, type, Len(req))
    BY <2>2 DEF IsWhole, Ended
  <2>6. Len(req) >= 2
    <3>1. PICK n \in 2 .. Len(req) : TRUE
      BY <2>5 DEF Ended
    <3> QED
      BY <2>3, <3>1
  <2> QED
    BY <2>1, <2>2, <2>3, <2>4, <2>5, <2>6 DEF WholeRequest
<1> QED
  BY <1>1, <1>2

\* What the next message does to the streams that have ended.
LEMMA NextEnds ==
  ASSUME NEW req, WholeRequest(req), NEW j \in 1 .. Len(req) - 1
  PROVE  LET m == req[j + 1] IN
         /\ m.type \in {Params, Stdin} /\ ~Ended(req, m.type, j)
         /\ \A type : type # m.type => (Ended(req, type, j + 1) <=> Ended(req, type, j))
         /\ Ended(req, m.type, j + 1) <=> Content(m) = <<>>
<1>1. /\ Len(req) \in Nat /\ j \in Nat /\ j + 1 \in 2 .. Len(req) /\ j + 1 \in 2 .. j + 1
      /\ \A n \in 2 .. j : n \in 2 .. Len(req) /\ n < j + 1 /\ n \in 2 .. j + 1
      /\ \A n \in 2 .. j + 1 : n = j + 1 \/ n \in 2 .. j
  BY DEF WholeRequest
<1>2. PICK k : k = j + 1
  OBVIOUS
<1>3. req[k].type \in {Params, Stdin}
  BY <1>1, <1>2 DEF WholeRequest
<1>4. ~Ended(req, req[k].type, j)
  <2>1. \A n, i \in 2 .. Len(req) :
          Content(req[n]) = <<>> /\ n < i => req[n].type # req[i].type
    BY DEF WholeRequest
  <2> QED
    BY <1>1, <1>2, <2>1 DEF Ended
<1>5. \A type : type # req[k].type => (Ended(req, type, k) <=> Ended(req, type, j))
  BY <1>1, <1>2 DEF Ended
<1>6. Ended(req, req[k].type, k) <=> Content(req[k]) = <<>>
  BY <1>1, <1>2, <1>4 DEF Ended
<1> QED
  BY <1>2, <1>3, <1>4, <1>5, <1>6

\* The state after a message is the one in which the next one is taken.
LEMMA NextState ==
  ASSUME NEW req, WholeRequest(req), NEW j \in 1 .. Len(req) - 1,
         NEW r, r.state = StateAfter(req, j), NEW p, p.type = req[j + 1].type
  PROVE  /\ Takes(r.state, p.type)
         /\ StateAfter(req, j + 1)
              = IF Content(req[j + 1]) = <<>> THEN Terminated(r, p) ELSE r.state
<1>1. PICK k, t : k = j + 1 /\ t = p.type
  OBVIOUS
<1>2. /\ t \in {Params, Stdin} /\ ~Ended(req, t, j)
      /\ \A type : type # t => (Ended(req, type, k) <=> Ended(req, type, j))
      /\ Ended(req, t, k) <=> Content(req[k]) = <<>>
  BY <1>1, NextEnds
<1>3. j # 0 /\ k # 0 /\ Params # Stdin
  BY <1>1 DEF WholeRequest, Params, Stdin
<1>4. CASE t = Params
  BY <1>1, <1>2, <1>3, <1>4 DEF StateAfter, Takes, Terminated
<1>5. CASE t = Stdin
  BY <1>1, <1>2, <1>3, <1>5 DEF StateAfter, Takes, Terminated
<1> QED
  BY <1>2, <1>4, <1>5

\* What the request knows stays true when only its state changes, or what it has
\* collected no longer counts.
LEMMA KnowsNothingNew ==
  ASSUME NEW req, WholeRequest(req), NEW j \in 1 .. Len(req) - 1,
         NEW r, NEW out \in BOOLEAN, Knows(r, req, j, out),
         NEW q, q = [f \in RequestFields |-> q[f]],
         q.crashed = r.crashed, q.flags = r.flags, q.request_id = r.request_id,
         NEW lost \in BOOLEAN,
         ~lost => /\ ~out
                  /\ q.parameters = ParametersOf(SubSeq(req, 1, j + 1))
                  /\ q.stdin = BodyOf(SubSeq(req, 1, j + 1))
  PROVE  Knows(q, req, j + 1, lost)
<1>1. j # 0 /\ j + 1 # 0
  BY DEF WholeRequest
<1> QED
  BY <1>1 DEF Knows

\* The process has crashed, or the request is given up.
GivenUp(q) == q.crashed = TRUE \/ (q.crashed = FALSE /\ q.state = "ERROR")

\* A message is processed: if memory lasts, the request knows it; if not, it is
\* an error at worst, or the end of the process.
LEMMA MessageProcessed ==
  ASSUME NEW req, WholeRequest(req), NEW j \in 0 .. Len(req) - 1,
         NEW r, NEW out \in BOOLEAN, RequestAfter(r, req, j, out),
         NEW p \in Parsers, Holds(p, req[j + 1]),
         NEW mem, NEW q, q = ProcessMessage(r, p, mem),
         NEW lost \in BOOLEAN, out => lost, mem # "none" => lost,
         lost => out \/ mem # "none"
  PROVE  RequestAfter(q, req, j + 1, lost) \/ (mem # "none" /\ GivenUp(q))
<1>1. PICK m, k : m = req[j + 1] /\ k = j + 1
  OBVIOUS
<1>2. /\ k \in 1 .. Len(req) /\ IsSent(m) /\ IsSupported(m) /\ Len(req) \in Nat
      /\ req \in Seq(Messages) /\ \A n \in 1 .. Len(req) : IsSent(req[n])
  BY <1>1 DEF WholeRequest
<1>3. Kinds(m) /\ m \in Messages
  BY <1>2, SupportedKinds DEF IsSent
<1>4. /\ p.type = m.type /\ p.content_length = Len(Content(m)) /\ p.request_id = m.id
      /\ "flags" \in DOMAIN m => p.flags = m.flags
  BY <1>1 DEF Holds
<1>5. /\ r = [f \in RequestFields |-> r[f]] /\ r.crashed = FALSE
      /\ r.state = StateAfter(req, j) /\ Knows(r, req, j, out)
  BY DEF RequestAfter, Knows
<1>6. /\ ~out => /\ r.parameters = Table(PairsOf(SubSeq(req, 1, j)))
                 /\ r.stdin = BodyOf(SubSeq(req, 1, j))
      /\ PairsOf(SubSeq(req, 1, j)) \in Seq(Pairs) /\ BodyOf(SubSeq(req, 1, j)) \in Seq(Octet)
  BY <1>2, <1>5, ParametersAreTable, MessagesGrow DEF Knows
<1>7. /\ ParametersOf(SubSeq(req, 1, k))
           = Table(Cat(PairsOf(SubSeq(req, 1, j)), PairsIn(m)))
      /\ BodyOf(SubSeq(req, 1, k)) = Cat(BodyOf(SubSeq(req, 1, j)), BodyIn(m))
  BY <1>1, <1>2, ParametersAreTable, MessagesGrow
<1>8. PICK pairs, body : pairs = PairsOf(SubSeq(req, 1, j)) /\ body = BodyOf(SubSeq(req, 1, j))
  OBVIOUS
<1>9. Cat(pairs, <<>>) = pairs /\ Cat(body, <<>>) = body
  BY <1>6, <1>8 DEF Cat
<1>10. ~out => r.parameters = Table(pairs) /\ r.stdin = body
  BY <1>6, <1>8
<1>11. CASE j = 0
  <2>1. /\ "flags" \in DOMAIN m /\ m.type = BeginRequest /\ "pairs" \notin DOMAIN m
        /\ m = req[1] /\ k = 1
    BY <1>1, <1>3, <1>11 DEF WholeRequest, Kinds
  <2>2. PairsIn(m) = <<>> /\ BodyIn(m) = <<>>
    BY <2>1 DEF PairsIn, BodyIn, BeginRequest, Stdin
  <2>3. r.state = "BEGIN"
    BY <1>5, <1>11 DEF StateAfter
  <2>4. /\ KeepsRequest(r, q, {"state", "flags", "request_id"})
        /\ q.state = "PARAM_OR_STDIN" /\ q.flags = p.flags /\ q.request_id = p.request_id
    BY <1>4, <1>5, <2>1, <2>3, BeginProcessed
  <2>5. /\ q = [f \in RequestFields |-> q[f]] /\ q.crashed = FALSE
        /\ q.parameters = r.parameters /\ q.stdin = r.stdin
    BY <1>5, <2>4 DEF KeepsRequest, RequestFields
  <2>6. StateAfter(req, k) = "PARAM_OR_STDIN"
    <3>1. \A type : ~Ended(req, type, 1)
      BY DEF Ended
    <3> QED
      BY <2>1, <3>1 DEF StateAfter
  <2>7. ~lost => /\ q.parameters = ParametersOf(SubSeq(req, 1, k))
                 /\ q.stdin = BodyOf(SubSeq(req, 1, k))
    BY <1>7, <1>8, <1>9, <1>10, <2>2, <2>5
  <2>8. Knows(q, req, k, lost)
    BY <1>4, <2>1, <2>4, <2>5, <2>7 DEF Knows
  <2> QED
    BY <1>1, <2>4, <2>6, <2>8 DEF RequestAfter
<1>12. CASE j # 0
  <2>1. j \in 1 .. Len(req) - 1 /\ k \in 2 .. Len(req)
    BY <1>1, <1>2, <1>12
  <2>2. /\ Takes(r.state, p.type) /\ p.type \in {Params, Stdin}
        /\ StateAfter(req, k) = IF Content(m) = <<>> THEN Terminated(r, p) ELSE r.state
    BY <1>1, <1>4, <1>5, <2>1, NextState, NextEnds
  <2>3. p.content_length \in Nat /\ (p.content_length = 0 <=> Content(m) = <<>>)
    BY <1>3, <1>4 DEF Kinds, Parsers
  <2>4. "flags" \notin DOMAIN m
    BY <1>3, <1>4, <2>2 DEF Kinds, BeginRequest, Params, Stdin
  <2>5. CASE Content(m) = <<>>
    <3>1. KeepsRequest(r, q, {"state"}) /\ q.state = StateAfter(req, k)
      BY <1>5, <2>2, <2>3, <2>5, EndProcessed
    <3>2. /\ q = [f \in RequestFields |-> q[f]]
          /\ q.crashed = r.crashed /\ q.flags = r.flags /\ q.request_id = r.request_id
          /\ q.parameters = r.parameters /\ q.stdin = r.stdin
      BY <3>1 DEF KeepsRequest, RequestFields
    <3>3. PairsIn(m) = <<>> /\ BodyIn(m) = <<>>
      BY <1>3, <2>5, MessageKinds DEF Kinds, PairsIn, BodyIn, BeginRequest, Params, Stdin
    <3>4. ~lost => /\ q.parameters = ParametersOf(SubSeq(req, 1, k))
                   /\ q.stdin = BodyOf(SubSeq(req, 1, k))
      BY <1>7, <1>8, <1>9, <1>10, <3>2, <3>3
    <3>5. Knows(q, req, k, lost)
      BY <1>1, <1>5, <2>1, <3>2, <3>4, KnowsNothingNew
    <3> QED
      BY <1>1, <3>1, <3>5 DEF RequestAfter
  <2>6. CASE Content(m) # <<>> /\ p.type = Params
    <3>1. "pairs" \in DOMAIN m
      BY <1>2, <1>3, <1>4, <2>4, <2>6 DEF IsSupported, Params, Stdin
    <3>2. PairsIn(m) = m.pairs /\ BodyIn(m) = <<>> /\ m.pairs \in Seq(Pairs)
      BY <1>3, <1>4, <2>6, <3>1, MessageKinds DEF PairsIn, BodyIn, Params, Stdin
    <3>3. CASE mem = "name" /\ q.crashed = TRUE
      BY <3>3 DEF GivenUp
    <3>4. CASE /\ KeepsRequest(r, q, {"parameters"})
               /\ mem = "none" =>
                    q.parameters = Collected(r.parameters, p.params)
      <4>1. /\ q = [f \in RequestFields |-> q[f]] /\ q.state = r.state
            /\ q.crashed = r.crashed /\ q.flags = r.flags /\ q.request_id = r.request_id
            /\ q.stdin = r.stdin
        BY <3>4 DEF KeepsRequest, RequestFields
      <4>2. /\ p.params \in Seq(Parameters) /\ Len(p.params) = Len(m.pairs)
            /\ \A n \in 1 .. Len(m.pairs) : /\ p.params[n].name = m.pairs[n].name
                                            /\ p.params[n].value = m.pairs[n].value
        <5>1. DOMAIN m.pairs = 1 .. Len(m.pairs)
          BY <3>2
        <5> QED
          BY <1>1, <3>1, <5>1 DEF Holds, Parsers
      <4>3. Collected(Table(pairs), p.params) = Table(Cat(pairs, m.pairs))
        <5>1. pairs \in Seq(Pairs)
          BY <1>6, <1>8
        <5> QED
          BY <3>2, <4>2, <5>1, FoldIsTable
      <4>4. ~lost => /\ q.parameters = ParametersOf(SubSeq(req, 1, k))
                     /\ q.stdin = BodyOf(SubSeq(req, 1, k))
        BY <1>7, <1>8, <1>9, <1>10, <3>2, <3>4, <4>1, <4>3
      <4>5. Knows(q, req, k, lost)
        BY <1>1, <1>5, <2>1, <4>1, <4>4, KnowsNothingNew
      <4> QED
        BY <1>1, <2>2, <2>6, <4>1, <4>5 DEF RequestAfter
    <3>5. \/ mem = "name" /\ q.crashed = TRUE
          \/ /\ KeepsRequest(r, q, {"parameters"})
             /\ mem = "none" =>
                  q.parameters = Collected(r.parameters, p.params)
      BY <1>5, <2>2, <2>3, <2>6, ParamsProcessed
    <3> QED
      BY <3>3, <3>4, <3>5
  <2>7. CASE Content(m) # <<>> /\ p.type = Stdin
    <3>1. "octets" \in DOMAIN m /\ "pairs" \notin DOMAIN m /\ m.octets # <<>>
      BY <1>3, <1>4, <2>4, <2>7 DEF Kinds, Params, Stdin
    <3>2. PairsIn(m) = <<>> /\ BodyIn(m) = m.octets /\ p.stdin = m.octets
      BY <1>1, <1>4, <2>7, <3>1 DEF PairsIn, BodyIn, Holds
    <3>3. CASE mem = "stdin" /\ q.state = "ERROR" /\ q.crashed = r.crashed
      BY <1>5, <3>3 DEF GivenUp
    <3>4. CASE KeepsRequest(r, q, {"stdin"}) /\ q.stdin = Cat(r.stdin, p.stdin)
      <4>1. /\ q = [f \in RequestFields |-> q[f]] /\ q.state = r.state
            /\ q.crashed = r.crashed /\ q.flags = r.flags /\ q.request_id = r.request_id
            /\ q.parameters = r.parameters
        BY <3>4 DEF KeepsRequest, RequestFields
      <4>2. ~lost => /\ q.parameters = ParametersOf(SubSeq(req, 1, k))
                     /\ q.stdin = BodyOf(SubSeq(req, 1, k))
        BY <1>7, <1>8, <1>9, <1>10, <3>2, <3>4, <4>1
      <4>3. Knows(q, req, k, lost)
        BY <1>1, <1>5, <2>1, <4>1, <4>2, KnowsNothingNew
      <4> QED
        BY <1>1, <2>2, <2>7, <4>1, <4>3 DEF RequestAfter
    <3>5. \/ mem = "stdin" /\ q.state = "ERROR" /\ q.crashed = r.crashed
          \/ KeepsRequest(r, q, {"stdin"}) /\ q.stdin = Cat(r.stdin, p.stdin)
      BY <1>5, <2>2, <2>3, <2>7, StdinProcessed
    <3> QED
      BY <3>3, <3>4, <3>5
  <2> QED
    BY <2>2, <2>5, <2>6, <2>7
<1> QED
  BY <1>11, <1>12

-----------------------------------------------------------------------------
(***************************************************************************)
(* Where the messages and the requests are in the stream.                  *)
(***************************************************************************)

\* The messages that may be sent.
SentMessages == {m \in Messages : Len(Content(m)) \in Ids}

\* The octets of all requests are those of their messages.
LEMMA AllMessagesPlaced ==
  ASSUME NEW s \in Scripts
  PROVE  /\ s.requests \in Seq(Seq(SentMessages)) /\ AllMessages(s) \in Seq(SentMessages)
         /\ AllMessages(s) \in Seq(Messages)
         /\ \A n \in DOMAIN AllMessages(s) : Len(Content(AllMessages(s)[n])) \in Ids
         /\ Wire[s] = EncodeAll(AllMessages(s))
<1>1. /\ s.requests \in Seq(Seq(Messages)) /\ Len(s.requests) \in Nat
      /\ \A k \in 1 .. Len(s.requests) : WholeRequest(s.requests[k])
  BY RequestsAreWhole
<1>2. ASSUME NEW k \in 1 .. Len(s.requests)
      PROVE  s.requests[k] \in Seq(SentMessages)
  <2>1. PICK req : req = s.requests[k]
    OBVIOUS
  <2>2. req \in Seq(Messages) /\ Len(req) \in Nat /\ \A n \in 1 .. Len(req) : IsSent(req[n])
    BY <1>1, <2>1 DEF WholeRequest
  <2>3. \A n \in 1 .. Len(req) : req[n] \in SentMessages
    BY <2>2 DEF IsSent, SentMessages
  <2>4. req \in Seq(SentMessages)
    BY <2>2, <2>3
  <2> QED
    BY <2>1, <2>4
<1>3. s.requests \in Seq(Seq(SentMessages))
  BY <1>1, <1>2, SMTT(60)
<1>4. AllMessages(s) \in Seq(SentMessages)
  BY <1>3, WholeType DEF AllMessages
<1>5. /\ AllMessages(s) \in Seq(Messages)
      /\ \A n \in DOMAIN AllMessages(s) : Len(Content(AllMessages(s)[n])) \in Ids
  BY <1>4 DEF SentMessages
<1> QED
  BY <1>3, <1>4, <1>5 DEF Wire, AllMessages

\* The first k requests are the start of all.
LEMMA RequestsAreStart ==
  ASSUME NEW s \in Scripts, NEW k \in 0 .. Len(s.requests)
  PROVE  /\ Before(s.requests, k) \in Nat /\ Before(s.requests, k) <= Len(AllMessages(s))
         /\ Ends[s][k] = EndIn(AllMessages(s), Before(s.requests, k))
<1>1. PICK ss, n, a : ss = s.requests /\ n = Before(ss, k) /\ a = AllMessages(s)
  OBVIOUS
<1>2. /\ ss \in Seq(Seq(SentMessages)) /\ a \in Seq(SentMessages) /\ Len(ss) \in Nat
      /\ Upto(ss, Len(ss)) = a
  BY <1>1, AllMessagesPlaced, RequestsAreWhole, UptoGrows DEF AllMessages
<1>3. k \in 0 .. Len(ss) /\ Len(ss) \in k .. Len(ss) /\ Len(ss) \in 0 .. Len(ss)
  BY <1>1, <1>2
<1>4. /\ n <= Len(a) /\ Upto(ss, k) \in Seq(SentMessages)
      /\ \A j \in 1 .. n : a[j] = Upto(ss, k)[j]
  <2>1. /\ Before(ss, k) <= Before(ss, Len(ss))
        /\ \A j \in 1 .. Before(ss, k) : Upto(ss, Len(ss))[j] = Upto(ss, k)[j]
    BY <1>2, <1>3, UptoIsStart
  <2>2. Upto(ss, k) \in Seq(SentMessages)
    BY <1>2, <1>3, UptoGrows
  <2> QED
    BY <1>1, <1>2, <2>1, <2>2 DEF Before
<1>5. n \in Nat /\ n = Len(Upto(ss, k))
  BY <1>1, <1>4 DEF Before
<1>6. Upto(ss, k) = SubSeq(a, 1, n)
  <2>1. PICK u : u = Upto(ss, k)
    OBVIOUS
  <2>2. u \in Seq(SentMessages) /\ Len(u) = n /\ \A j \in 1 .. n : a[j] = u[j]
    BY <1>4, <1>5, <2>1
  <2>3. u = [j \in 1 .. n |-> u[j]]
    BY <2>2
  <2>4. SubSeq(a, 1, n) = [j \in 1 .. n |-> a[j]]
    BY <1>2, <1>4, <1>5
  <2> QED
    BY <2>1, <2>2, <2>3, <2>4
<1>7. Ends[s][k] = Len(EncodeAll(Upto(ss, k)))
  BY <1>1 DEF Ends, Upto
<1> QED
  BY <1>1, <1>4, <1>5, <1>6, <1>7 DEF EndIn

\* The octets e are on the wire behind the first ones.
OnWire(s, first, e) == \A i \in 1 .. Len(e) : Wire[s][first + i] = e[i]

\* Where the messages of a request are on the wire.
LEMMA RequestPlaced ==
  ASSUME NEW s \in Scripts, NEW k \in 1 .. Len(s.requests), NEW req, req = s.requests[k]
  PROVE  /\ Len(req) \in Nat \ {0} /\ Wire[s] \in Seq(Octet)
         /\ Ends[s][k - 1] = MessageEnd(s, k, 0) /\ Ends[s][k] = MessageEnd(s, k, Len(req))
         /\ MessageEnd(s, k, 0) \in Nat
         /\ \A j \in 1 .. Len(req) :
              /\ MessageEnd(s, k, j - 1) \in Nat /\ MessageEnd(s, k, j) \in Nat
              /\ Len(Encode(req[j])) \in Nat /\ Len(Encode(req[j])) >= 8
              /\ MessageEnd(s, k, j) = MessageEnd(s, k, j - 1) + Len(Encode(req[j]))
              /\ MessageEnd(s, k, j) <= Len(Wire[s])
              /\ OnWire(s, MessageEnd(s, k, j - 1), Encode(req[j]))
<1>1. PICK ss, a, b : ss = s.requests /\ a = AllMessages(s) /\ b = Before(ss, k - 1)
  OBVIOUS
<1>2. /\ ss \in Seq(Seq(SentMessages)) /\ Len(ss) \in Nat /\ WholeRequest(req)
      /\ a = FlattenSeq(ss) /\ Wire[s] = EncodeAll(a)
  BY <1>1, AllMessagesPlaced, RequestsAreWhole DEF AllMessages
<1>3. Len(req) \in Nat \ {0} /\ \A j \in 1 .. Len(req) : IsSent(req[j])
  BY <1>2 DEF WholeRequest
<1>4. /\ b \in Nat /\ Before(ss, k) = b + Len(req) /\ Before(ss, k) <= Len(a)
      /\ \A i \in 1 .. Len(req) : a[b + i] = req[i]
  <2>1. k \in 1 .. Len(ss)
    BY <1>1
  <2>2. /\ Before(ss, k - 1) \in Nat
        /\ Before(ss, k) = Before(ss, k - 1) + Len(ss[k])
        /\ Before(ss, k) <= Len(FlattenSeq(ss))
        /\ \A i \in 1 .. Len(ss[k]) : FlattenSeq(ss)[Before(ss, k - 1) + i] = ss[k][i]
    BY <1>2, <2>1, PartInWhole
  <2> QED
    BY <1>1, <1>2, <2>2
<1>5. /\ Len(a) \in Nat /\ EncodeAll(a) \in Seq(Octet) /\ EndIn(a, 0) = 0
      /\ \A n \in 1 .. Len(a) :
           /\ IsSent(a[n]) /\ EndIn(a, n - 1) \in Nat
           /\ EndIn(a, n) = EndIn(a, n - 1) + Len(Encode(a[n]))
           /\ EndIn(a, n) <= Len(EncodeAll(a))
           /\ \A i \in 1 .. Len(Encode(a[n])) :
                EncodeAll(a)[EndIn(a, n - 1) + i] = Encode(a[n])[i]
  <2>1. /\ a \in Seq(Messages)
        /\ \A n \in DOMAIN a : Len(Content(a[n])) \in Ids
    BY <1>1, AllMessagesPlaced
  <2> QED
    BY <2>1, StreamPlaced
<1>6. /\ \A j : MessageEnd(s, k, j) = EndIn(a, b + j)
      /\ Ends[s][k - 1] = EndIn(a, b) /\ Ends[s][k] = EndIn(a, b + Len(req))
  <2>1. k - 1 \in 0 .. Len(s.requests) /\ k \in 0 .. Len(s.requests)
    BY <1>1, <1>2
  <2>2. /\ Ends[s][k - 1] = EndIn(AllMessages(s), Before(s.requests, k - 1))
        /\ Ends[s][k] = EndIn(AllMessages(s), Before(s.requests, k))
    BY <2>1, RequestsAreStart
  <2> QED
    BY <1>1, <1>4, <2>2 DEF MessageEnd
<1>7. ASSUME NEW j \in 1 .. Len(req)
      PROVE  /\ MessageEnd(s, k, j - 1) \in Nat /\ MessageEnd(s, k, j) \in Nat
             /\ Len(Encode(req[j])) \in Nat /\ Len(Encode(req[j])) >= 8
             /\ MessageEnd(s, k, j) = MessageEnd(s, k, j - 1) + Len(Encode(req[j]))
             /\ MessageEnd(s, k, j) <= Len(Wire[s])
             /\ OnWire(s, MessageEnd(s, k, j - 1), Encode(req[j]))
  <2>1. PICK n : n = b + j
    OBVIOUS
  <2>2. /\ n \in 1 .. Len(a) /\ a[n] = req[j] /\ b + (j - 1) = n - 1
        /\ j \in Nat /\ b \in Nat
    BY <1>3, <1>4, <1>5, <2>1
  <2>3. MessageEnd(s, k, j) = EndIn(a, n) /\ MessageEnd(s, k, j - 1) = EndIn(a, n - 1)
    BY <1>6, <2>1, <2>2
  <2>4. Len(Encode(req[j])) \in Nat /\ Len(Encode(req[j])) >= 8
    <3>1. IsSent(req[j]) /\ IsSupported(req[j])
      BY <1>2 DEF WholeRequest
    <3>2. /\ Len(Content(req[j])) \in Nat /\ req[j].padding \in Nat
          /\ Len(Encode(req[j])) = 8 + Len(Content(req[j])) + req[j].padding
      BY <3>1, MessageNumbers, Zenon
    <3> QED
      BY <3>2, SMTT(60)
  <2>5. /\ EndIn(a, n - 1) \in Nat
        /\ EndIn(a, n) = EndIn(a, n - 1) + Len(Encode(req[j]))
        /\ EndIn(a, n) <= Len(EncodeAll(a))
        /\ \A i \in 1 .. Len(Encode(req[j])) :
             EncodeAll(a)[EndIn(a, n - 1) + i] = Encode(req[j])[i]
    BY <1>5, <2>2
  <2>6. EndIn(a, n) \in Nat
    BY <2>4, <2>5
  <2>7. OnWire(s, MessageEnd(s, k, j - 1), Encode(req[j]))
    BY <1>2, <2>3, <2>5 DEF OnWire
  <2> QED
    BY <1>2, <2>3, <2>4, <2>5, <2>6, <2>7
<1>8. b + 0 = b
  BY <1>4
<1>9. MessageEnd(s, k, 0) \in Nat
  <2>1. 1 \in 1 .. Len(req) /\ 1 - 1 = 0
    BY <1>3
  <2> QED
    BY <1>7, <2>1
<1> QED
  BY <1>2, <1>3, <1>5, <1>6, <1>7, <1>8, <1>9

\* The messages of a request, on the wire.
LEMMA MessagesPlaced ==
  ASSUME NEW s \in Scripts, NEW k \in 1 .. Len(s.requests), NEW req, req = s.requests[k]
  PROVE  \A j \in 1 .. Len(req) :
           /\ MessageEnd(s, k, j - 1) \in Nat /\ MessageEnd(s, k, j) \in Nat
           /\ Len(Encode(req[j])) \in Nat /\ Len(Encode(req[j])) >= 8
           /\ MessageEnd(s, k, j) = MessageEnd(s, k, j - 1) + Len(Encode(req[j]))
           /\ MessageEnd(s, k, j) <= Len(Wire[s])
  BY RequestPlaced, SMTT(60)

\* A sequence of numbers that grows at every step grows.
LEMMA Grows ==
  ASSUME NEW n \in Nat, NEW e, \A k \in 0 .. n : e[k] \in Nat,
         \A k \in 1 .. n : e[k - 1] < e[k],
         NEW i \in 0 .. n, NEW j \in 0 .. n, i < j
  PROVE  e[i] < e[j]
<1> DEFINE T == {d \in Nat : i + 1 + d <= n => e[i] < e[i + 1 + d]}
<1>1. 0 \in T
  <2>1. i + 1 <= n => i + 1 \in 1 .. n /\ (i + 1) - 1 = i /\ i + 1 + 0 = i + 1
    OBVIOUS
  <2> QED
    BY <2>1
<1>2. ASSUME NEW d \in Nat, d \in T
      PROVE  d + 1 \in T
  <2> SUFFICES ASSUME i + 1 + (d + 1) <= n
               PROVE  e[i] < e[i + 1 + (d + 1)]
    OBVIOUS
  <2>1. PICK a, b : a = i + 1 + d /\ b = i + 1 + (d + 1)
    OBVIOUS
  <2>2. a \in 0 .. n /\ b \in 1 .. n /\ b \in 0 .. n /\ b - 1 = a /\ i \in 0 .. n
    BY <2>1
  <2>3. e[i] < e[a]
    BY <1>2, <2>1, <2>2
  <2>4. e[a] < e[b]
    BY <2>2
  <2>5. e[i] \in Nat /\ e[a] \in Nat /\ e[b] \in Nat
    BY <2>2
  <2>6. e[i] < e[b]
    BY <2>3, <2>4, <2>5
  <2> QED
    BY <2>1, <2>6
<1> HIDE DEF T
<1>3. Nat \subseteq T
  BY <1>1, <1>2, SetInduction
<1>4. j - i - 1 \in Nat /\ i + 1 + (j - i - 1) = j /\ j <= n
  OBVIOUS
<1>5. PICK d : d = j - i - 1
  OBVIOUS
<1>6. d \in T /\ i + 1 + d = j /\ j <= n
  BY <1>3, <1>4, <1>5
<1> QED
  BY <1>6 DEF T

\* The requests of a script end one after the other.
LEMMA EndsGrow ==
  ASSUME NEW s \in Scripts
  PROVE  /\ Len(s.requests) \in Nat
         /\ \A k \in 0 .. Len(s.requests) : Ends[s][k] \in Nat /\ Ends[s][k] <= Len(Wire[s])
         /\ Ends[s][0] = 0 /\ Ends[s][Len(s.requests)] = Len(Wire[s])
         /\ \A i, j \in 0 .. Len(s.requests) : i < j => Ends[s][i] < Ends[s][j]
<1>1. Len(s.requests) \in Nat
  BY RequestsAreWhole
<1>2. PICK n, e, l : n = Len(s.requests) /\ e = Ends[s] /\ l = Len(Wire[s])
  OBVIOUS
<1>3. e[0] = 0 /\ e[n] = l /\ l \in Nat
  <2>1. PICK a : a = AllMessages(s)
    OBVIOUS
  <2>2. /\ Len(a) \in Nat /\ EncodeAll(a) \in Seq(Octet) /\ EndIn(a, 0) = 0
        /\ EndIn(a, Len(a)) = Len(EncodeAll(a)) /\ Wire[s] = EncodeAll(a)
    BY <2>1, AllMessagesPlaced, StreamPlaced
  <2>3. Before(s.requests, 0) = 0 /\ Before(s.requests, n) = Len(a)
    <3>1. s.requests \in Seq(Seq(SentMessages))
      BY AllMessagesPlaced
    <3>2. Upto(s.requests, 0) = <<>> /\ Upto(s.requests, n) = a
      BY <1>2, <2>1, <3>1, UptoGrows DEF AllMessages
    <3> QED
      BY <3>2 DEF Before
  <2>4. /\ Ends[s][0] = EndIn(AllMessages(s), Before(s.requests, 0))
        /\ Ends[s][n] = EndIn(AllMessages(s), Before(s.requests, n))
    BY <1>1, <1>2, RequestsAreStart
  <2> QED
    BY <1>2, <2>1, <2>2, <2>3, <2>4
<1>4. ASSUME NEW k \in 1 .. n
      PROVE  e[k] \in Nat /\ e[k - 1] < e[k] /\ e[k] <= l
  <2>1. PICK req : req = s.requests[k]
    OBVIOUS
  <2>2. /\ Len(req) \in Nat \ {0}
        /\ Ends[s][k - 1] = MessageEnd(s, k, 0) /\ Ends[s][k] = MessageEnd(s, k, Len(req))
        /\ MessageEnd(s, k, 0) \in Nat
    BY <1>2, <2>1, RequestPlaced
  <2>3. \A j \in 1 .. Len(req) :
          /\ MessageEnd(s, k, j - 1) \in Nat /\ MessageEnd(s, k, j) \in Nat
          /\ Len(Encode(req[j])) \in Nat /\ Len(Encode(req[j])) >= 8
          /\ MessageEnd(s, k, j) = MessageEnd(s, k, j - 1) + Len(Encode(req[j]))
          /\ MessageEnd(s, k, j) <= Len(Wire[s])
    BY <1>2, <2>1, MessagesPlaced
  <2>4. PICK f, last : f = [j \in 0 .. last |-> MessageEnd(s, k, j)] /\ last = Len(req)
    OBVIOUS
  <2>5. /\ last \in Nat \ {0} /\ f[0] = e[k - 1] /\ f[last] = e[k] /\ f[last] <= l
        /\ f[last] \in Nat
    BY <1>2, <2>2, <2>3, <2>4
  <2>6. /\ \A j \in 0 .. last : f[j] \in Nat
        /\ \A j \in 1 .. last : f[j - 1] < f[j]
    <3>1. \A j \in 1 .. last : j - 1 \in 0 .. last /\ j \in 0 .. last
      BY <2>5
    <3>2. \A j \in 1 .. last : f[j - 1] < f[j] /\ f[j] \in Nat
      BY <2>2, <2>3, <2>4, <3>1
    <3>3. f[0] \in Nat /\ \A j \in 0 .. last : j = 0 \/ j \in 1 .. last
      BY <2>2, <2>4, <2>5
    <3> QED
      BY <3>2, <3>3
  <2>7. f[0] < f[last]
    <3>1. last \in Nat /\ 0 \in 0 .. last /\ last \in 0 .. last /\ 0 < last
      BY <2>5
    <3> QED
      BY <2>6, <3>1, Grows
  <2> QED
    BY <2>5, <2>7
<1>5. \A k \in 0 .. n : e[k] \in Nat /\ e[k] <= l
  <2>1. \A k \in 0 .. n : k = 0 \/ k \in 1 .. n
    BY <1>1, <1>2
  <2> QED
    BY <1>3, <1>4, <2>1
<1>6. \A i, j \in 0 .. n : i < j => e[i] < e[j]
  BY <1>1, <1>2, <1>4, <1>5, Grows
<1> QED
  BY <1>1, <1>2, <1>3, <1>5, <1>6

\* What Complete says, as the ends of requests grow.
LEMMA CompleteFacts ==
  ASSUME script \in Scripts, NEW x \in Nat
  PROVE  /\ Len(script.requests) \in Nat
         /\ Complete(x) \in 0 .. Len(script.requests)
         /\ EndOfRequest(Complete(x)) <= x
         /\ Complete(x) < Len(script.requests) => x < EndOfRequest(Complete(x) + 1)
<1>1. PICK n, e : n = Len(script.requests) /\ e = Ends[script]
  OBVIOUS
<1>2. /\ n \in Nat /\ e[0] = 0 /\ \A k \in 0 .. n : e[k] \in Nat
      /\ \A i, j \in 0 .. n : i < j => e[i] < e[j]
  BY <1>1, EndsGrow
<1>3. PICK c \in 0 .. n : e[c] <= x /\ \A k \in 0 .. n : e[k] <= x => k <= c
  <2> DEFINE D == {d \in Nat : n - d \in 0 .. n /\ e[n - d] <= x}
  <2>1. n \in D
    <3>1. n - n = 0 /\ 0 \in 0 .. n
      BY <1>2
    <3> QED
      BY <1>2, <3>1
  <2>2. PICK d \in D : \A y \in D : ~(<<y, d>> \in OpToRel(<, Nat))
    BY <2>1, NatLessThanWellFounded, WFMin
  <2>3. \A y \in D : ~(y < d)
    BY <2>2 DEF OpToRel
  <2>4. ASSUME NEW k \in 0 .. n, e[k] <= x
        PROVE  k <= n - d
    <3>1. n - k \in Nat /\ n - (n - k) = k
      BY <1>2
    <3>2. n - k \in D
      BY <2>4, <3>1
    <3>3. ~(n - k < d) /\ d \in Nat
      BY <2>2, <2>3, <3>2
    <3> QED
      BY <1>2, <3>1, <3>3
  <2>5. n - d \in 0 .. n /\ e[n - d] <= x
    BY <2>2
  <2> QED
    BY <2>4, <2>5
<1>4. {k \in 1 .. n : e[k] <= x} = 1 .. c
  <2>1. ASSUME NEW k \in 1 .. n, e[k] <= x
        PROVE  k \in 1 .. c
    <3>1. k \in 0 .. n
      BY <1>2
    <3> QED
      BY <1>2, <1>3, <2>1, <3>1
  <2>2. ASSUME NEW k \in 1 .. c
        PROVE  k \in 1 .. n /\ e[k] <= x
    <3>1. k \in 1 .. n /\ k \in 0 .. n /\ (k = c \/ k < c)
      BY <1>2
    <3>2. e[k] <= e[c] /\ e[k] \in Nat /\ e[c] \in Nat
      BY <1>2, <1>3, <3>1
    <3> QED
      BY <1>3, <3>1, <3>2
  <2> QED
    BY <2>1, <2>2
<1>5. Complete(x) = Cardinality(1 .. c)
  BY <1>1, <1>4 DEF Complete, EndOfRequest
<1>6. Cardinality(1 .. c) = c
  BY <1>2, FS_Interval
<1>7. c < n => x < e[c + 1]
  <2> SUFFICES ASSUME c < n PROVE x < e[c + 1]
    OBVIOUS
  <2>1. c + 1 \in 0 .. n /\ ~(c + 1 <= c)
    BY <1>2
  <2>2. ~(e[c + 1] <= x) /\ e[c + 1] \in Nat
    BY <1>2, <1>3, <2>1
  <2> QED
    BY <2>2
<1> QED
  BY <1>1, <1>2, <1>3, <1>5, <1>6, <1>7 DEF EndOfRequest

\* At the end of a request, so many are complete.
LEMMA CompleteAtEnd ==
  ASSUME script \in Scripts, NEW k \in 0 .. Len(script.requests)
  PROVE  EndOfRequest(k) \in Nat /\ Complete(EndOfRequest(k)) = k
<1>1. PICK n, e : n = Len(script.requests) /\ e = Ends[script]
  OBVIOUS
<1>2. /\ n \in Nat /\ \A i \in 0 .. n : e[i] \in Nat
      /\ \A i, j \in 0 .. n : i < j => e[i] < e[j]
  BY <1>1, EndsGrow
<1>3. PICK x, c : x = e[k] /\ c = Complete(x)
  OBVIOUS
<1>4. x \in Nat /\ x = EndOfRequest(k)
  BY <1>1, <1>2, <1>3 DEF EndOfRequest
<1>5. c \in 0 .. n /\ e[c] <= x /\ (c < n => x < e[c + 1])
  BY <1>1, <1>3, <1>4, CompleteFacts DEF EndOfRequest
<1>6. ~(k < c)
  <2>1. k < c => e[k] < e[c]
    BY <1>1, <1>2, <1>5
  <2>2. e[k] \in Nat /\ e[c] \in Nat
    BY <1>1, <1>2, <1>5
  <2> QED
    BY <1>3, <1>5, <2>1, <2>2
<1>7. ~(c < k)
  <2> SUFFICES ASSUME c < k PROVE FALSE
    OBVIOUS
  <2>1. c + 1 \in 0 .. n /\ c < n /\ (c + 1 = k \/ c + 1 < k)
    BY <1>1, <1>2, <1>5
  <2>2. e[c + 1] <= e[k]
    BY <1>1, <1>2, <2>1
  <2>3. x < e[c + 1] /\ e[c + 1] \in Nat
    BY <1>2, <1>5, <2>1
  <2> QED
    BY <1>3, <1>4, <2>2, <2>3
<1>8. c = k
  BY <1>1, <1>2, <1>5, <1>6, <1>7
<1> QED
  BY <1>3, <1>4, <1>8

\* More octets complete no fewer requests.
LEMMA CompleteGrows ==
  ASSUME script \in Scripts, NEW x \in Nat, NEW y \in Nat, x <= y
  PROVE  Complete(x) <= Complete(y)
<1>1. PICK n, e, a, b : /\ n = Len(script.requests) /\ e = Ends[script]
                        /\ a = Complete(x) /\ b = Complete(y)
  OBVIOUS
<1>2. /\ n \in Nat /\ \A i \in 0 .. n : e[i] \in Nat
      /\ \A i, j \in 0 .. n : i < j => e[i] < e[j]
  BY <1>1, EndsGrow
<1>3. a \in 0 .. n /\ e[a] <= x /\ b \in 0 .. n /\ (b < n => y < e[b + 1])
  BY <1>1, CompleteFacts DEF EndOfRequest
<1>4. ~(b < a)
  <2> SUFFICES ASSUME b < a PROVE FALSE
    OBVIOUS
  <2>1. b + 1 \in 0 .. n /\ b < n /\ (b + 1 = a \/ b + 1 < a)
    BY <1>2, <1>3
  <2>2. e[b + 1] <= e[a] /\ e[a] \in Nat /\ e[b + 1] \in Nat
    BY <1>2, <1>3, <2>1
  <2> QED
    BY <1>3, <2>1, <2>2
<1> QED
  BY <1>1, <1>2, <1>3, <1>4

-----------------------------------------------------------------------------
(***************************************************************************)
(* One octet of sl_main_parse_buffer.                                      *)
(***************************************************************************)

\* t is s but for these fields.
KeepsProgress(s, t, fields) ==
  /\ t = [f \in ProgressFields |-> t[f]]
  /\ \A f \in ProgressFields \ fields : t[f] = s[f]

\* What a finished message p makes of s, with the request r it makes.
Finishes(s, t, p, r, again) ==
  IF r.crashed \/ r.state \in {"ERROR", "FINISHED"}
  THEN /\ KeepsProgress(s, t, {"parser", "request", "left"})
       /\ t.parser = p /\ t.request = r /\ t.left = TRUE
  ELSE /\ KeepsProgress(s, t, {"parser", "request"})
       /\ t.request = r /\ t.parser = again

\* The parser for the next message.
Again(p, octet, ok) ==
  IF IsCounted(p, octet, ok) THEN ParserInit ELSE ParseOctet(ParserInit, octet, TRUE)

\* What an octet makes of s while p is the parser after it and r the request
\* after the message of p.
Parses(s, t, p, r, again) ==
  /\ p.state \notin FinalStates => KeepsProgress(s, t, {"parser"}) /\ t.parser = p
  /\ p.state = "ERROR" =>
       KeepsProgress(s, t, {"parser", "left"}) /\ t.parser = p /\ t.left = TRUE
  /\ p.state = "FINISHED" => Finishes(s, t, p, r, again)

\* An octet of sl_main_parse_buffer: which fields it changes.
LEMMA ParseWithFacts ==
  ASSUME NEW s, IsProgress(s), NEW octet, NEW mem,
         NEW ok, ok = (mem # "parser"), NEW p, p = ParseOctet(s.parser, octet, ok),
         NEW r, r = ProcessMessage(s.request, p, mem), NEW t, t = ParseWith(s, octet, mem)
  PROVE  Parses(s, t, p, r, Again(s.parser, octet, ok))
<1>1. s = [f \in ProgressFields |-> s[f]]
  BY DEF IsProgress
<1>2. PICK again : again = Again(s.parser, octet, ok)
  OBVIOUS
<1>3. t = CASE p.state \notin FinalStates -> [s EXCEPT !.parser = p]
            [] p.state = "ERROR" -> [s EXCEPT !.parser = p, !.left = TRUE]
            [] p.state = "FINISHED" ->
                 IF r.crashed \/ r.state \in {"ERROR", "FINISHED"}
                 THEN [s EXCEPT !.parser = p, !.request = r, !.left = TRUE]
                 ELSE [s EXCEPT !.parser = again, !.request = r]
  BY <1>2 DEF ParseWith, Again
<1>4. ASSUME p.state \notin FinalStates
      PROVE  KeepsProgress(s, t, {"parser"}) /\ t.parser = p
  <2>1. t = [s EXCEPT !.parser = p]
    BY <1>3, <1>4 DEF FinalStates
  <2>2. t = [f \in ProgressFields |-> IF f = "parser" THEN p ELSE s[f]]
    BY <1>1, <2>1 DEF ProgressFields
  <2> QED
    BY <2>2 DEF KeepsProgress, ProgressFields
<1>5. ASSUME p.state = "ERROR"
      PROVE  KeepsProgress(s, t, {"parser", "left"}) /\ t.parser = p /\ t.left = TRUE
  <2>1. t = [s EXCEPT !.parser = p, !.left = TRUE]
    BY <1>3, <1>5 DEF FinalStates
  <2>2. t = [f \in ProgressFields |->
               IF f = "parser" THEN p ELSE IF f = "left" THEN TRUE ELSE s[f]]
    BY <1>1, <2>1 DEF ProgressFields
  <2> QED
    BY <2>2 DEF KeepsProgress, ProgressFields
<1>6. ASSUME p.state = "FINISHED", r.crashed \/ r.state \in {"ERROR", "FINISHED"}
      PROVE  /\ KeepsProgress(s, t, {"parser", "request", "left"})
             /\ t.parser = p /\ t.request = r /\ t.left = TRUE
  <2>1. t = [s EXCEPT !.parser = p, !.request = r, !.left = TRUE]
    BY <1>3, <1>6 DEF FinalStates
  <2>2. t = [f \in ProgressFields |->
               IF f = "parser" THEN p ELSE IF f = "request" THEN r
               ELSE IF f = "left" THEN TRUE ELSE s[f]]
    BY <1>1, <2>1 DEF ProgressFields
  <2> QED
    BY <2>2 DEF KeepsProgress, ProgressFields
<1>7. ASSUME p.state = "FINISHED", ~(r.crashed \/ r.state \in {"ERROR", "FINISHED"})
      PROVE  /\ KeepsProgress(s, t, {"parser", "request"})
             /\ t.request = r /\ t.parser = again
  <2>1. t = [s EXCEPT !.parser = again, !.request = r]
    BY <1>3, <1>7 DEF FinalStates
  <2>2. t = [f \in ProgressFields |->
               IF f = "parser" THEN again ELSE IF f = "request" THEN r ELSE s[f]]
    BY <1>1, <2>1 DEF ProgressFields
  <2> QED
    BY <2>2 DEF KeepsProgress, ProgressFields
<1>8. ASSUME p.state = "FINISHED"
      PROVE  Finishes(s, t, p, r, again)
  BY <1>6, <1>7, <1>8 DEF Finishes
<1> QED
  BY <1>2, <1>4, <1>5, <1>8 DEF Parses

\* What may come of an octet, with memory and without.
LEMMA ParseNextFacts ==
  ASSUME NEW s, NEW octet, NEW t \in ParseNext(s, octet)
  PROVE  \/ s.left /\ t = s
         \/ ~s.left /\ t = ParseWith(s, octet, "none")
         \/ \E mem : /\ ~s.left /\ mem # "none"
                     /\ t = [ParseWith(s, octet, mem) EXCEPT !.starved = TRUE]
<1>1. CASE s.left
  BY <1>1 DEF ParseNext
<1>2. CASE ~s.left
  <2>1. \/ t = ParseWith(s, octet, "none")
        \/ \E mem \in MayFail(s, octet) :
             t = [ParseWith(s, octet, mem) EXCEPT !.starved = TRUE]
    BY <1>2 DEF ParseNext
  <2>2. \A mem \in MayFail(s, octet) : mem # "none"
    BY DEF MayFail
  <2> QED
    BY <1>2, <2>1, <2>2
<1> QED
  BY <1>1, <1>2

\* The allocation that fails is noted.
LEMMA Starve ==
  ASSUME NEW b, b = [f \in ProgressFields |-> b[f]], NEW t, t = [b EXCEPT !.starved = TRUE]
  PROVE  KeepsProgress(b, t, {"starved"}) /\ t.starved = TRUE
<1>1. t = [f \in ProgressFields |-> IF f = "starved" THEN TRUE ELSE b[f]]
  BY DEF ProgressFields
<1> QED
  BY <1>1 DEF KeepsProgress, ProgressFields

\* What was said of a request with memory holds without.
LEMMA MoreStarved ==
  ASSUME NEW r, NEW req, NEW j, NEW out \in BOOLEAN, NEW lost \in BOOLEAN, out => lost
  PROVE  /\ Knows(r, req, j, out) => Knows(r, req, j, lost)
         /\ RequestAfter(r, req, j, out) => RequestAfter(r, req, j, lost)
  BY DEF RequestAfter, Knows

\* The request is finished by its last message, and by none before.
LEMMA FinishedByLast ==
  ASSUME NEW req, WholeRequest(req)
  PROVE  /\ StateAfter(req, Len(req)) = "FINISHED"
         /\ \A j \in 0 .. Len(req) - 1 : StateAfter(req, j) \notin {"ERROR", "FINISHED"}
<1>1. StateAfter(req, Len(req)) = "FINISHED"
  <2>1. Len(req) # 0 /\ Ended(req, Params, Len(req)) /\ Ended(req, Stdin, Len(req))
    BY DEF WholeRequest
  <2> QED
    BY <2>1 DEF StateAfter
<1>2. ASSUME NEW j \in 0 .. Len(req) - 1
      PROVE  StateAfter(req, j) \notin {"ERROR", "FINISHED"}
  <2>1. CASE j = 0
    BY <2>1 DEF StateAfter
  <2>2. CASE j # 0
    <3>1. j \in 1 .. Len(req) - 1
      BY <2>2 DEF WholeRequest
    <3>2. ~(Ended(req, Params, j) /\ Ended(req, Stdin, j))
      BY <3>1, NextEnds
    <3> QED
      BY <2>2, <3>2 DEF StateAfter
  <2> QED
    BY <2>1, <2>2
<1> QED
  BY <1>1, <1>2

\* What becomes of the parser with an octet of a message, or the one after it.
Advanced(p, q, m, o, octet, ok) ==
  \/ q.state = "ERROR" /\ ~ok
  \/ q.state \notin FinalStates /\ o + 1 <= Len(Encode(m)) /\ Follows(q, m, o + 1)
  \/ /\ q.state = "FINISHED" /\ Holds(q, m)
     /\ \/ o + 1 = Len(Encode(m)) /\ IsCounted(p, octet, ok)
        \/ o = Len(Encode(m)) /\ ~IsCounted(p, octet, ok)

\* It does, with memory or without.
LEMMA NextParsed ==
  ASSUME NEW m, IsSent(m), IsSupported(m), NEW p \in Parsers, Filling(p),
         p.state \notin FinalStates, NEW o \in Nat, o <= Len(Encode(m)), Follows(p, m, o),
         NEW octet \in Octet, o < Len(Encode(m)) => octet = Encode(m)[o + 1],
         NEW ok \in BOOLEAN, NEW q, q = ParseOctet(p, octet, ok)
  PROVE  q \in Parsers /\ Filling(q) /\ Advanced(p, q, m, o, octet, ok)
<1>1. q \in Parsers /\ Filling(q)
  BY FillingKept
<1>2. PICK in, out, l, g : /\ in = TRUE /\ out = FALSE /\ l = Len(Encode(m))
                           /\ g = ParseOctet(p, octet, in)
  OBVIOUS
<1>3. /\ l \in Nat /\ l = 8 + Len(Content(m)) + m.padding
  BY <1>2, MessageNumbers
<1>4. /\ o < l => Follows(g, m, o + 1) /\ IsCounted(p, octet, in)
      /\ o = l => FinishedAt(g, m, o) /\ ~IsCounted(p, octet, in)
  BY <1>2, OctetFollows
<1>5. \/ g.state \notin FinalStates /\ o + 1 <= l /\ Follows(g, m, o + 1)
      \/ g.state = "FINISHED" /\ Holds(g, m) /\ o + 1 = l /\ IsCounted(p, octet, in)
      \/ g.state = "FINISHED" /\ Holds(g, m) /\ o = l /\ ~IsCounted(p, octet, in)
  <2>1. CASE o < l
    <3>1. g.state # "ERROR" /\ (g.state = "FINISHED" => FinishedAt(g, m, o + 1))
      BY <1>4, <2>1, FollowsEnds
    <3>2. o + 1 <= l
      BY <1>3, <2>1
    <3>3. Follows(g, m, o + 1) /\ IsCounted(p, octet, in)
      BY <1>4, <2>1
    <3>4. CASE g.state = "FINISHED"
      <4>1. FinishedAt(g, m, o + 1)
        BY <3>1, <3>4
      <4>2. o + 1 = l
        BY <1>2, <1>3, <4>1 DEF FinishedAt
      <4> QED
        BY <3>3, <3>4, <4>1, <4>2 DEF FinishedAt
    <3> QED
      BY <3>1, <3>2, <3>3, <3>4 DEF FinalStates
  <2>2. CASE o = l
    BY <1>4, <2>2 DEF FinishedAt
  <2>3. o < l \/ o = l
    BY <1>2, <1>3
  <2> QED
    BY <2>1, <2>2, <2>3
<1>6. CASE q = g
  <2>1. IsCounted(p, octet, ok) <=> IsCounted(p, octet, in)
    BY <1>2, <1>6 DEF IsCounted
  <2> QED
    BY <1>1, <1>2, <1>5, <1>6, <2>1 DEF Advanced
<1>7. CASE q # g
  <2>1. ok = out /\ ~ok
    BY <1>2, <1>7
  <2>2. ParseOctet(p, octet, out) = g \/ ParseOctet(p, octet, out).state = "ERROR"
    BY <1>2, OctetStarved
  <2> QED
    BY <1>1, <1>7, <2>1, <2>2 DEF Advanced
<1> QED
  BY <1>6, <1>7

\* The message that is due, on the wire behind the first i octets.
Due(s, k, j, m, e, i) ==
  /\ IsSent(m) /\ IsSupported(m)
  /\ i \in Nat /\ Len(e) \in Nat /\ Len(e) >= 8
  /\ MessageEnd(s, k, j + 1) = i + Len(e) /\ i + Len(e) <= Len(Wire[s])
  /\ OnWire(s, i, e) /\ Wire[s] \in Seq(Octet)

\* It is.
LEMMA NextMessage ==
  ASSUME NEW s \in Scripts, NEW k \in 1 .. Len(s.requests), NEW req, req = s.requests[k],
         NEW j \in 0 .. Len(req) - 1, NEW m, m = req[j + 1], NEW e, e = Encode(m),
         NEW i, i = MessageEnd(s, k, j)
  PROVE  Due(s, k, j, m, e, i)
<1>1. WholeRequest(req)
  BY RequestsAreWhole
<1>2. PICK x : x = j + 1
  OBVIOUS
<1>3. x \in 1 .. Len(req) /\ x - 1 = j
  BY <1>1, <1>2 DEF WholeRequest
<1>4. IsSent(m) /\ IsSupported(m)
  BY <1>1, <1>2, <1>3 DEF WholeRequest
<1>5. /\ Wire[s] \in Seq(Octet)
      /\ \A y \in 1 .. Len(req) : OnWire(s, MessageEnd(s, k, y - 1), Encode(req[y]))
  BY RequestPlaced
<1>6. \A y \in 1 .. Len(req) :
        /\ MessageEnd(s, k, y - 1) \in Nat /\ MessageEnd(s, k, y) \in Nat
        /\ Len(Encode(req[y])) \in Nat /\ Len(Encode(req[y])) >= 8
        /\ MessageEnd(s, k, y) = MessageEnd(s, k, y - 1) + Len(Encode(req[y]))
        /\ MessageEnd(s, k, y) <= Len(Wire[s])
  BY MessagesPlaced
<1>7. /\ MessageEnd(s, k, x - 1) \in Nat /\ MessageEnd(s, k, x) \in Nat
      /\ Len(Encode(req[x])) \in Nat /\ Len(Encode(req[x])) >= 8
      /\ MessageEnd(s, k, x) = MessageEnd(s, k, x - 1) + Len(Encode(req[x]))
      /\ MessageEnd(s, k, x) <= Len(Wire[s])
      /\ OnWire(s, MessageEnd(s, k, x - 1), Encode(req[x]))
  BY <1>3, <1>5, <1>6
<1>8. /\ i \in Nat /\ Len(e) \in Nat /\ Len(e) >= 8
      /\ MessageEnd(s, k, x) = i + Len(e) /\ MessageEnd(s, k, x) <= Len(Wire[s])
      /\ OnWire(s, i, e)
  BY <1>2, <1>3, <1>7
<1> QED
  BY <1>2, <1>4, <1>5, <1>8 DEF Due

\* t is what an octet makes of st when the allocation mem fails, and it is noted.
ParsedWith(st, octet, t, mem, b) ==
  /\ b = ParseWith(st, octet, mem) /\ IsProgress(b)
  /\ KeepsProgress(b, t, {"starved"}) /\ b.starved = st.starved
  /\ t.starved = (st.starved \/ mem # "none") /\ IsProgress(t)

\* A message has been parsed, and the request goes on with the next one or is
\* finished.
LEMMA MessageFinished ==
  ASSUME NEW s \in Scripts, NEW k \in 1 .. Len(s.requests), NEW req, req = s.requests[k],
         NEW n \in Nat, n < Len(Wire[s]), NEW octet, octet = Wire[s][n + 1],
         NEW st, IsProgress(st), st.left = FALSE, NEW j \in 0 .. Len(req) - 1,
         RequestAfter(st.request, req, j, st.starved),
         NEW mem, NEW ok, ok = (mem # "parser"), NEW p, p = ParseOctet(st.parser, octet, ok),
         p \in Parsers, p.state = "FINISHED", Holds(p, req[j + 1]),
         \/ n + 1 = MessageEnd(s, k, j + 1) /\ IsCounted(st.parser, octet, ok)
         \/ n = MessageEnd(s, k, j + 1) /\ ~IsCounted(st.parser, octet, ok),
         NEW t, NEW b, ParsedWith(st, octet, t, mem, b)
  PROVE  Underway(t, s, k, n + 1)
<1>1. /\ b = ParseWith(st, octet, mem) /\ KeepsProgress(b, t, {"starved"})
      /\ t.starved = (st.starved \/ mem # "none")
  BY DEF ParsedWith
<1>2. PICK r : r = ProcessMessage(st.request, p, mem)
  OBVIOUS
<1>3. Finishes(st, b, p, r, Again(st.parser, octet, ok))
  <2>1. Parses(st, b, p, r, Again(st.parser, octet, ok))
    BY <1>1, <1>2, ParseWithFacts
  <2> QED
    BY <2>1 DEF Parses
<1>4. IF r.crashed \/ r.state \in {"ERROR", "FINISHED"}
      THEN t.parser = p /\ t.request = r /\ t.left = TRUE
      ELSE /\ t.request = r /\ t.left = FALSE
           /\ t.parser = Again(st.parser, octet, ok)
  <2>1. t.parser = b.parser /\ t.request = b.request /\ t.left = b.left
    BY <1>1 DEF KeepsProgress, ProgressFields
  <2>2. CASE r.crashed \/ r.state \in {"ERROR", "FINISHED"}
    BY <1>3, <2>1, <2>2 DEF Finishes
  <2>3. CASE ~(r.crashed \/ r.state \in {"ERROR", "FINISHED"})
    <3>1. b.left = st.left
      BY <1>3, <2>3 DEF Finishes, KeepsProgress, ProgressFields
    <3> QED
      BY <1>3, <2>1, <2>3, <3>1 DEF Finishes
  <2> QED
    BY <2>2, <2>3
<1>5. /\ WholeRequest(req) /\ st.starved \in BOOLEAN /\ t.starved \in BOOLEAN
  BY <1>1, RequestsAreWhole DEF IsProgress
<1>6. \/ RequestAfter(r, req, j + 1, t.starved)
      \/ mem # "none" /\ GivenUp(r)
  <2>1. PICK out, lost : out = st.starved /\ lost = t.starved
    OBVIOUS
  <2>2. out \in BOOLEAN /\ lost \in BOOLEAN /\ RequestAfter(st.request, req, j, out)
    BY <1>5, <2>1
  <2>3. (out => lost) /\ (mem # "none" => lost) /\ (lost => out \/ mem # "none")
    BY <1>1, <2>1
  <2>4. \/ RequestAfter(r, req, j + 1, lost)
        \/ mem # "none" /\ GivenUp(r)
    <3>1. PICK x : x = st.request
      OBVIOUS
    <3>2. RequestAfter(x, req, j, out) /\ r = ProcessMessage(x, p, mem)
      BY <1>2, <2>2, <3>1
    <3> QED
      BY <1>5, <2>2, <2>3, <3>2, MessageProcessed, SMTT(60)
  <2> QED
    BY <2>1, <2>4
<1>7. CASE mem # "none" /\ GivenUp(r)
  BY <1>1, <1>4, <1>7 DEF Underway, Broken, HasFailed, GivenUp
<1>8. CASE RequestAfter(r, req, j + 1, t.starved) /\ j + 1 = Len(req)
  <2>1. r.state = "FINISHED"
    BY <1>5, <1>8, FinishedByLast DEF RequestAfter
  <2>2. MessageEnd(s, k, Len(req)) \in Nat
    <3>1. PICK l : l = Len(req)
      OBVIOUS
    <3>2. l \in 1 .. Len(req)
      BY <1>5, <3>1 DEF WholeRequest
    <3>3. \A i \in 1 .. Len(req) : MessageEnd(s, k, i) \in Nat
      BY RequestPlaced
    <3> QED
      BY <3>1, <3>2, <3>3
  <2>3. MessageEnd(s, k, Len(req)) <= n + 1
    BY <1>8, <2>2
  <2> QED
    BY <1>4, <1>8, <2>1, <2>3 DEF Underway, Served
<1>9. CASE RequestAfter(r, req, j + 1, t.starved) /\ j + 1 # Len(req)
  <2>1. /\ j + 1 \in 0 .. Len(req) - 1 /\ j + 2 \in 1 .. Len(req) /\ (j + 1) + 1 = j + 2
        /\ (j + 2) - 1 = j + 1
    BY <1>5, <1>9, SMTT(60) DEF WholeRequest
  <2>2. r.state \notin {"ERROR", "FINISHED"} /\ r.crashed = FALSE
    BY <1>5, <1>9, <2>1, FinishedByLast DEF RequestAfter, Knows
  <2>3. /\ t.request = r /\ t.left = FALSE
        /\ t.parser = Again(st.parser, octet, ok)
    BY <1>4, <2>2
  <2>4. PICK m, e, i : m = req[(j + 1) + 1] /\ e = Encode(m) /\ i = MessageEnd(s, k, j + 1)
    OBVIOUS
  <2>5. /\ IsSent(m) /\ IsSupported(m)
        /\ i \in Nat /\ Len(e) \in Nat /\ Len(e) >= 8
        /\ OnWire(s, i, e)
    <3>1. Due(s, k, j + 1, m, e, i)
      BY <2>1, <2>4, NextMessage
    <3> QED
      BY <3>1 DEF Due
  <2>6. /\ ParserInit \in Parsers /\ Filling(ParserInit) /\ ParserInit.state = "VERSION"
        /\ Follows(ParserInit, m, 0)
    BY NewParser, InitFollows DEF ParserInit
  <2>7. CASE n + 1 = i /\ IsCounted(st.parser, octet, ok)
    <3>1. t.parser = ParserInit
      BY <2>3, <2>7 DEF Again
    <3>2. ReadingAt(t, s, k, n + 1, j + 1, 0)
      BY <1>9, <2>3, <2>4, <2>5, <2>6, <2>7, <3>1 DEF ReadingAt
    <3>3. 0 \in 0 .. Len(e)
      BY <2>5
    <3> QED
      BY <2>1, <2>3, <2>4, <2>6, <3>1, <3>2, <3>3 DEF Underway, Reading, FinalStates
  <2>8. CASE n = i /\ ~IsCounted(st.parser, octet, ok)
    <3>1. PICK q : q = ParseOctet(ParserInit, octet, TRUE)
      OBVIOUS
    <3>2. t.parser = q
      BY <2>3, <2>8, <3>1 DEF Again
    <3>3. octet = e[1] /\ octet \in Octet
      <4>1. 1 \in 1 .. Len(e)
        BY <2>5
      <4>2. octet = e[1]
        BY <2>5, <2>8, <4>1 DEF OnWire
      <4>3. PICK w : w = Wire[s]
        OBVIOUS
      <4>4. Wire[s] \in Seq(Octet)
        BY RequestPlaced
      <4>5. w \in Seq(Octet) /\ n + 1 \in 1 .. Len(w) /\ octet = w[n + 1]
        BY <4>3, <4>4
      <4>6. octet \in Octet
        BY ONLY <4>5
      <4> QED
        BY <4>2, <4>6
    <3>4. q \in Parsers /\ Filling(q)
      BY <2>6, <3>1, <3>3, FillingKept
    <3>5. q.state = "TYPE"
      BY <2>6, <3>1, <3>3, HeaderSteps, ZenonT(60) DEF Goes
    <3>6. Follows(q, m, 1)
      <4>1. PICK o : o = 0
        OBVIOUS
      <4>2. /\ o \in Nat /\ Follows(ParserInit, m, o) /\ ParserInit.state \notin FinalStates
            /\ o < Len(Encode(m)) /\ octet = Encode(m)[o + 1]
        BY <2>4, <2>5, <2>6, <3>3, <4>1 DEF FinalStates
      <4>3. Follows(q, m, o + 1)
        BY <2>5, <2>6, <3>1, <3>3, <4>2, OctetFollows
      <4> QED
        BY <4>1, <4>3
    <3>7. ReadingAt(t, s, k, n + 1, j + 1, 1)
      <4>1. 1 <= Len(e) /\ n + 1 = MessageEnd(s, k, j + 1) + 1
        BY <2>4, <2>5, <2>8
      <4> QED
        BY <1>9, <2>3, <2>4, <3>2, <3>6, <4>1 DEF ReadingAt
    <3>8. 1 \in 0 .. Len(e)
      BY <2>5
    <3> QED
      BY <2>1, <2>3, <2>4, <3>2, <3>4, <3>5, <3>7, <3>8 DEF Underway, Reading, FinalStates
  <2> QED
    BY <2>4, <2>7, <2>8
<1> QED
  BY <1>6, <1>7, <1>8, <1>9

\* ParseWith leaves the note alone.
LEMMA StarvedKept ==
  ASSUME NEW st, IsProgress(st), NEW octet, NEW mem, NEW b, b = ParseWith(st, octet, mem)
  PROVE  IsProgress(b) /\ b.starved = st.starved
<1>1. PICK ok, p, r : /\ ok = (mem # "parser") /\ p = ParseOctet(st.parser, octet, ok)
                      /\ r = ProcessMessage(st.request, p, mem)
  OBVIOUS
<1>2. Parses(st, b, p, r, Again(st.parser, octet, ok))
  BY <1>1, ParseWithFacts
<1>3. /\ p.state \notin FinalStates => KeepsProgress(st, b, {"parser"}) /\ b.parser = p
      /\ p.state = "ERROR" =>
           KeepsProgress(st, b, {"parser", "left"}) /\ b.parser = p /\ b.left = TRUE
      /\ p.state = "FINISHED" => Finishes(st, b, p, r, Again(st.parser, octet, ok))
  BY <1>2 DEF Parses
<1>4. p.state \notin FinalStates \/ p.state = "ERROR" \/ p.state = "FINISHED"
  BY DEF FinalStates
<1> QED
  BY <1>3, <1>4 DEF Finishes, KeepsProgress, ProgressFields, IsProgress

\* What may come of an octet, before the loop has been left.
LEMMA Parsed ==
  ASSUME NEW st, IsProgress(st), st.left = FALSE, NEW octet, NEW t \in ParseNext(st, octet)
  PROVE  \E mem, b : ParsedWith(st, octet, t, mem, b)
<1>1. \/ t = ParseWith(st, octet, "none")
      \/ \E mem : /\ mem # "none"
                  /\ t = [ParseWith(st, octet, mem) EXCEPT !.starved = TRUE]
  BY ParseNextFacts
<1>2. CASE t = ParseWith(st, octet, "none")
  <2>1. IsProgress(t) /\ t.starved = st.starved
    BY <1>2, StarvedKept
  <2>2. PICK mem : mem = "none"
    OBVIOUS
  <2>3. ParsedWith(st, octet, t, mem, t)
    BY <1>2, <2>1, <2>2 DEF ParsedWith, KeepsProgress, IsProgress
  <2> QED
    BY <2>3
<1>3. ASSUME NEW mem, mem # "none", t = [ParseWith(st, octet, mem) EXCEPT !.starved = TRUE]
      PROVE  \E b : ParsedWith(st, octet, t, mem, b)
  <2>1. PICK b : b = ParseWith(st, octet, mem)
    OBVIOUS
  <2>2. IsProgress(b) /\ b.starved = st.starved
    BY <2>1, StarvedKept
  <2>3. KeepsProgress(b, t, {"starved"}) /\ t.starved = TRUE
    BY <1>3, <2>1, <2>2, Starve DEF IsProgress
  <2>4. ParsedWith(st, octet, t, mem, b)
    BY <1>3, <2>1, <2>2, <2>3 DEF ParsedWith, KeepsProgress, ProgressFields, IsProgress
  <2> QED
    BY <2>4
<1> QED
  BY <1>1, <1>2, <1>3

\* An octet in a request.
LEMMA ReadingStep ==
  ASSUME NEW s \in Scripts, NEW k \in 1 .. Len(s.requests), NEW n \in Nat,
         n < Len(Wire[s]), NEW octet, octet = Wire[s][n + 1],
         NEW st, IsProgress(st), Reading(st, s, k, n), NEW t \in ParseNext(st, octet)
  PROVE  IsProgress(t) /\ Underway(t, s, k, n + 1)
<1>1. st.left = FALSE
  BY DEF Reading
<1>2. PICK mem, b : ParsedWith(st, octet, t, mem, b)
  BY <1>1, Parsed
<1>3. PICK ok, p, r : /\ ok = (mem # "parser") /\ p = ParseOctet(st.parser, octet, ok)
                      /\ r = ProcessMessage(st.request, p, mem)
  OBVIOUS
<1>4. IsProgress(t) /\ t.starved \in BOOLEAN /\ st.starved \in BOOLEAN
  BY <1>2 DEF ParsedWith, IsProgress
<1>5. PICK req : req = s.requests[k]
  OBVIOUS
<1>6. WholeRequest(req) /\ Len(req) \in Nat \ {0}
  <2>1. WholeRequest(s.requests[k])
    BY RequestsAreWhole
  <2> QED
    BY <1>5, <2>1 DEF WholeRequest
<1>7. PICK j \in 0 .. Len(req) - 1 :
        \E o \in 0 .. Len(Encode(req[j + 1])) : ReadingAt(st, s, k, n, j, o)
  BY <1>5 DEF Reading
<1>8. PICK m, e, i : m = req[j + 1] /\ e = Encode(m) /\ i = MessageEnd(s, k, j)
  OBVIOUS
<1>9. PICK o \in 0 .. Len(e) : ReadingAt(st, s, k, n, j, o)
  BY <1>7, <1>8
<1>10. /\ IsSent(m) /\ IsSupported(m) /\ i \in Nat /\ Len(e) \in Nat
       /\ MessageEnd(s, k, j + 1) = i + Len(e) /\ i + Len(e) <= Len(Wire[s])
       /\ OnWire(s, i, e) /\ Wire[s] \in Seq(Octet)
  <2>1. Due(s, k, j, m, e, i)
    BY <1>5, <1>8, NextMessage
  <2> QED
    BY <2>1 DEF Due
<1>11. /\ n = i + o /\ Follows(st.parser, m, o)
       /\ RequestAfter(st.request, req, j, st.starved)
  BY <1>5, <1>8, <1>9 DEF ReadingAt
<1>12. octet \in Octet
  <2>1. PICK w : w = Wire[s]
    OBVIOUS
  <2>2. w \in Seq(Octet) /\ n + 1 \in 1 .. Len(w) /\ octet = w[n + 1]
    BY <1>10, <2>1
  <2> QED
    BY ONLY <2>2
<1>13. o \in Nat /\ o <= Len(e) /\ (o < Len(e) => octet = e[o + 1])
  <2>1. o \in Nat /\ o <= Len(e)
    BY <1>10
  <2>2. ASSUME o < Len(e)
        PROVE  octet = e[o + 1]
    <3>1. o + 1 \in 1 .. Len(e) /\ n + 1 = i + (o + 1)
      BY <1>10, <1>11, <2>1, <2>2, SMTT(60)
    <3>2. Wire[s][i + (o + 1)] = e[o + 1]
      BY <1>10, <3>1 DEF OnWire
    <3> QED
      BY <3>1, <3>2
  <2> QED
    BY <2>1, <2>2
<1>14. /\ p \in Parsers /\ Filling(p)
       /\ \/ p.state = "ERROR" /\ ~ok
          \/ p.state \notin FinalStates /\ o + 1 <= Len(e) /\ Follows(p, m, o + 1)
          \/ /\ p.state = "FINISHED" /\ Holds(p, m) /\ o + 1 = Len(e)
             /\ IsCounted(st.parser, octet, ok)
          \/ /\ p.state = "FINISHED" /\ Holds(p, m) /\ o = Len(e)
             /\ ~IsCounted(st.parser, octet, ok)
  <2>1. st.parser \in Parsers /\ Filling(st.parser) /\ st.parser.state \notin FinalStates
    BY DEF Reading
  <2>2. ok \in BOOLEAN
    BY <1>3
  <2>3. PICK q : q = st.parser
    OBVIOUS
  <2>4. p \in Parsers /\ Filling(p) /\ Advanced(q, p, m, o, octet, ok)
    <3>1. /\ q \in Parsers /\ Filling(q) /\ q.state \notin FinalStates /\ Follows(q, m, o)
          /\ p = ParseOctet(q, octet, ok)
      BY <1>3, <1>11, <2>1, <2>3
    <3>2. o <= Len(Encode(m)) /\ (o < Len(Encode(m)) => octet = Encode(m)[o + 1])
      BY <1>8, <1>13
    <3> QED
      BY <1>10, <1>12, <1>13, <2>2, <3>1, <3>2, NextParsed
  <2> QED
    BY <1>8, <2>3, <2>4 DEF Advanced
<1>15. /\ p.state \notin FinalStates => KeepsProgress(st, b, {"parser"}) /\ b.parser = p
       /\ p.state = "ERROR" =>
            KeepsProgress(st, b, {"parser", "left"}) /\ b.parser = p /\ b.left = TRUE
       /\ p.state = "FINISHED" => Finishes(st, b, p, r, Again(st.parser, octet, ok))
  <2>1. b = ParseWith(st, octet, mem)
    BY <1>2 DEF ParsedWith
  <2>2. Parses(st, b, p, r, Again(st.parser, octet, ok))
    BY <1>3, <2>1, ParseWithFacts
  <2> QED
    BY <2>2 DEF Parses
<1>16. /\ t.parser = b.parser /\ t.request = b.request /\ t.left = b.left
       /\ t.starved = (st.starved \/ mem # "none")
  BY <1>2 DEF ParsedWith, KeepsProgress, ProgressFields
<1>17. RequestAfter(st.request, req, j, t.starved)
  BY <1>4, <1>11, <1>16, MoreStarved
<1>18. CASE p.state = "ERROR" /\ ~ok
  <2>1. mem # "none"
    BY <1>3, <1>18
  <2>2. t.left = TRUE /\ t.starved = TRUE /\ t.parser = p
    BY <1>15, <1>16, <1>18, <2>1
  <2>3. t.request = st.request
    BY <1>15, <1>16, <1>18 DEF KeepsProgress, ProgressFields
  <2>4. t.request.crashed = FALSE /\ t.request.state = StateAfter(req, j)
    BY <1>11, <2>3 DEF RequestAfter, Knows
  <2>5. t.request.state # "FINISHED"
    BY <1>6, <2>4, FinishedByLast
  <2>6. HasFailed(t.parser, t.request)
    BY <1>18, <2>2 DEF HasFailed
  <2> QED
    BY <1>4, <2>2, <2>4, <2>5, <2>6 DEF Underway, Broken
<1>19. CASE p.state \notin FinalStates /\ o + 1 <= Len(e) /\ Follows(p, m, o + 1)
  <2>1. t.parser = p /\ t.request = st.request /\ t.left = FALSE
    BY <1>1, <1>15, <1>16, <1>19 DEF KeepsProgress, ProgressFields
  <2>2. n + 1 = i + (o + 1) /\ o + 1 \in 0 .. Len(e)
    <3>1. PICK l : l = Len(e)
      OBVIOUS
    <3>2. l \in Nat /\ o + 1 <= l /\ o \in Nat /\ i \in Nat /\ n = i + o
      BY <1>10, <1>11, <1>13, <1>19, <3>1
    <3>3. n + 1 = i + (o + 1) /\ o + 1 \in 0 .. l
      BY ONLY <3>2
    <3> QED
      BY <3>1, <3>3
  <2>3. ReadingAt(t, s, k, n + 1, j, o + 1)
    BY <1>5, <1>8, <1>17, <1>19, <2>1, <2>2 DEF ReadingAt
  <2>4. Reading(t, s, k, n + 1)
    BY <1>5, <1>8, <1>14, <1>19, <2>1, <2>2, <2>3 DEF Reading
  <2> QED
    BY <1>4, <2>4 DEF Underway
<1>20. CASE /\ p.state = "FINISHED" /\ Holds(p, m)
            /\ \/ o + 1 = Len(e) /\ IsCounted(st.parser, octet, ok)
               \/ o = Len(e) /\ ~IsCounted(st.parser, octet, ok)
  <2>1. \/ n + 1 = MessageEnd(s, k, j + 1) /\ IsCounted(st.parser, octet, ok)
        \/ n = MessageEnd(s, k, j + 1) /\ ~IsCounted(st.parser, octet, ok)
    BY <1>10, <1>11, <1>13, <1>20
  <2>2. Holds(p, req[j + 1])
    BY <1>8, <1>20
  <2>3. Underway(t, s, k, n + 1)
    BY <1>1, <1>2, <1>3, <1>5, <1>11, <1>14, <1>20, <2>1, <2>2, MessageFinished
  <2> QED
    BY <1>4, <2>3
<1> QED
  BY <1>14, <1>18, <1>19, <1>20

-----------------------------------------------------------------------------
(***************************************************************************)
(* An octet of an unfinished request, of one that is left, and of one that *)
(* is finished.                                                            *)
(***************************************************************************)

\* In a message without content the parser is in the header.
LEMMA EmptyIsHeader ==
  ASSUME NEW m, IsSent(m), IsSupported(m), Content(m) = <<>>, NEW p, NEW o,
         Follows(p, m, o), p.state \notin FinalStates
  PROVE  o < 8 /\ Len(Encode(m)) = 8
<1>1. Kinds(m) /\ m.padding = 0 /\ Len(Content(m)) = 0
  BY SupportedKinds DEF Kinds
<1>2. /\ "flags" \notin DOMAIN m
      /\ "pairs" \in DOMAIN m => m.pairs = <<>>
      /\ "octets" \in DOMAIN m => m.octets = <<>>
  BY <1>1 DEF Kinds
<1>3. HeaderAt(p, m, o)
  BY <1>2 DEF Follows, BeginAt, StdinAt, ParamsAt, FinishedAt, FinalStates
<1>4. o < 8
  BY <1>3 DEF HeaderAt
<1>5. Len(Encode(m)) = 8 + Len(Content(m)) + m.padding
  BY MessageNumbers, Zenon
<1> QED
  BY <1>1, <1>4, <1>5

\* A request that is being read is not at its end.
LEMMA ReadingBefore ==
  ASSUME NEW s \in Scripts, NEW k \in 1 .. Len(s.requests), NEW req, req = s.requests[k],
         NEW st, NEW n, Reading(st, s, k, n)
  PROVE  n \in Nat /\ n < MessageEnd(s, k, Len(req)) /\ MessageEnd(s, k, Len(req)) \in Nat
<1>1. WholeRequest(req) /\ Len(req) \in Nat \ {0}
  <2>1. WholeRequest(s.requests[k])
    BY RequestsAreWhole
  <2> QED
    BY <2>1 DEF WholeRequest
<1>2. PICK j \in 0 .. Len(req) - 1 :
        \E o \in 0 .. Len(Encode(req[j + 1])) : ReadingAt(st, s, k, n, j, o)
  BY DEF Reading
<1>3. PICK m, e, i : m = req[j + 1] /\ e = Encode(m) /\ i = MessageEnd(s, k, j)
  OBVIOUS
<1>4. PICK o \in 0 .. Len(e) : ReadingAt(st, s, k, n, j, o)
  BY <1>2, <1>3
<1>5. /\ IsSent(m) /\ IsSupported(m) /\ i \in Nat /\ Len(e) \in Nat /\ Len(e) >= 8
      /\ MessageEnd(s, k, j + 1) = i + Len(e)
  <2>1. Due(s, k, j, m, e, i)
    BY <1>3, NextMessage
  <2> QED
    BY <2>1 DEF Due
<1>6. n = i + o /\ Follows(st.parser, m, o) /\ st.parser.state \notin FinalStates
  BY <1>3, <1>4 DEF ReadingAt, Reading
<1>7. PICK f, last : f = [x \in 0 .. last |-> MessageEnd(s, k, x)] /\ last = Len(req)
  OBVIOUS
<1>8. /\ \A x \in 0 .. last : f[x] \in Nat
      /\ \A x \in 1 .. last : f[x - 1] < f[x]
  <2>1. \A x \in 1 .. last : x - 1 \in 0 .. last /\ x \in 0 .. last
    BY <1>1, <1>7
  <2>2. \A x \in 1 .. Len(req) :
          /\ MessageEnd(s, k, x - 1) \in Nat /\ MessageEnd(s, k, x) \in Nat
          /\ Len(Encode(req[x])) \in Nat /\ Len(Encode(req[x])) >= 8
          /\ MessageEnd(s, k, x) = MessageEnd(s, k, x - 1) + Len(Encode(req[x]))
          /\ MessageEnd(s, k, x) <= Len(Wire[s])
    BY MessagesPlaced
  <2>3. \A x \in 1 .. last : f[x - 1] < f[x] /\ f[x] \in Nat
    <3>1. ASSUME NEW x \in 1 .. Len(req)
          PROVE  /\ MessageEnd(s, k, x - 1) < MessageEnd(s, k, x)
                 /\ MessageEnd(s, k, x) \in Nat
      <4>1. PICK a, b, c : /\ a = MessageEnd(s, k, x - 1) /\ b = MessageEnd(s, k, x)
                           /\ c = Len(Encode(req[x]))
        OBVIOUS
      <4>2. a \in Nat /\ b \in Nat /\ c \in Nat /\ c >= 8 /\ b = a + c
        BY <2>2, <4>1
      <4>3. a < b
        BY ONLY <4>2
      <4> QED
        BY <4>1, <4>2, <4>3
    <3> QED
      BY <1>7, <2>1, <3>1
  <2>4. MessageEnd(s, k, 0) \in Nat
    BY RequestPlaced
  <2>5. 0 \in 0 .. last /\ \A x \in 0 .. last : x = 0 \/ x \in 1 .. last
    BY <1>1, <1>7
  <2>6. f[0] \in Nat
    BY <1>7, <2>4, <2>5
  <2> QED
    BY <2>3, <2>5, <2>6
<1>9. /\ last \in Nat /\ last \in 0 .. last /\ j + 1 \in 0 .. last /\ j + 1 <= last
      /\ f[last] = MessageEnd(s, k, Len(req)) /\ f[j + 1] = i + Len(e) /\ f[last] \in Nat
  <2>1. last \in Nat /\ last \in 0 .. last /\ j + 1 \in 0 .. last /\ j + 1 <= last
    BY <1>1, <1>7
  <2> QED
    BY <1>5, <1>7, <1>8, <2>1
<1>10. PICK l : l = Len(e)
  OBVIOUS
<1>11. CASE j + 1 = last
  <2>1. Content(m) = <<>>
    BY <1>1, <1>3, <1>7, <1>11 DEF WholeRequest
  <2>2. o < 8 /\ l = 8
    BY <1>3, <1>5, <1>6, <1>10, <2>1, EmptyIsHeader
  <2>3. o \in Nat /\ i \in Nat
    BY <1>5, <1>10
  <2>4. f[last] = i + 8
    BY <1>9, <1>10, <1>11, <2>2
  <2> QED
    BY <1>6, <1>9, <2>2, <2>3, <2>4
<1>12. CASE j + 1 # last
  <2>1. j + 1 < last
    BY <1>9, <1>12
  <2>2. f[j + 1] < f[last]
    BY <1>8, <1>9, <2>1, Grows
  <2>3. l \in Nat /\ i \in Nat /\ o \in Nat /\ o <= l
    BY <1>5, <1>10
  <2>4. i + l < f[last]
    BY <1>9, <1>10, <2>2
  <2> QED
    BY <1>6, <1>9, <2>3, <2>4, SMTT(60)
<1> QED
  BY <1>11, <1>12

\* A finished request takes no message.
LEMMA FinishedRejects ==
  ASSUME NEW r, r = [f \in RequestFields |-> r[f]], r.state = "FINISHED",
         NEW p, NEW mem, NEW q, q = ProcessMessage(r, p, mem)
  PROVE  KeepsRequest(r, q, {"state"}) /\ q.state = "ERROR"
<1>1. PICK s : s = "ERROR"
  OBVIOUS
<1>2. q = Assign(r, "state", s)
  <2>1. /\ r.state # "BEGIN" /\ r.state # "PARAM_OR_STDIN"
        /\ r.state # "PARAM" /\ r.state # "STDIN"
    OBVIOUS
  <2>2. (CASE r.state = "BEGIN" -> {BeginRequest}
           [] r.state = "PARAM_OR_STDIN" -> {Params, Stdin}
           [] r.state = "PARAM" -> {Params}
           [] r.state = "STDIN" -> {Stdin}
           [] OTHER -> {}) = {}
    BY <2>1
  <2> QED
    BY <1>1, <2>2 DEF ProcessMessage, Assign
<1>3. "state" \in RequestFields
  BY DEF RequestFields
<1>4. KeepsRequest(r, q, {"state"}) /\ q["state"] = s
  BY <1>2, <1>3, AssignFacts
<1> QED
  BY <1>1, <1>4

\* An octet behind a finished request.
LEMMA ServedStep ==
  ASSUME NEW s \in Scripts, NEW k \in 1 .. Len(s.requests), NEW n \in Nat,
         NEW octet, NEW st, IsProgress(st), st.left = FALSE, Served(st, s, k, n),
         NEW t \in ParseNext(st, octet)
  PROVE  IsProgress(t) /\ Spoiled(t, s, k, n + 1)
<1>1. PICK mem, b : ParsedWith(st, octet, t, mem, b)
  BY Parsed
<1>2. PICK ok, p, r : /\ ok = (mem # "parser") /\ p = ParseOctet(st.parser, octet, ok)
                      /\ r = ProcessMessage(st.request, p, mem)
  OBVIOUS
<1>3. PICK req, last : req = s.requests[k] /\ last = Len(req)
  OBVIOUS
<1>4. WholeRequest(req) /\ last \in Nat \ {0}
  <2>1. WholeRequest(s.requests[k])
    BY RequestsAreWhole
  <2> QED
    BY <1>3, <2>1 DEF WholeRequest
<1>5. /\ st.parser.state = "FINISHED" /\ MessageEnd(s, k, last) <= n
      /\ RequestAfter(st.request, req, last, st.starved)
  BY <1>3 DEF Served
<1>6. p.state = "FINISHED"
  BY <1>2, <1>5 DEF ParseOctet, HeaderStates, BeginStates, LengthStates, FinalStates
<1>7. /\ st.request = [f \in RequestFields |-> st.request[f]]
      /\ st.request.state = "FINISHED" /\ Knows(st.request, req, last, st.starved)
  BY <1>3, <1>4, <1>5, FinishedByLast DEF RequestAfter, Knows
<1>8. KeepsRequest(st.request, r, {"state"}) /\ r.state = "ERROR"
  BY <1>2, <1>7, FinishedRejects
<1>9. Parses(st, b, p, r, Again(st.parser, octet, ok))
  <2>1. b = ParseWith(st, octet, mem)
    BY <1>1 DEF ParsedWith
  <2> QED
    BY <1>2, <2>1, ParseWithFacts
<1>10. b.request = r /\ b.left = TRUE
  BY <1>6, <1>8, <1>9 DEF Parses, Finishes
<1>11. /\ t.request = b.request /\ t.left = b.left /\ IsProgress(t)
       /\ t.starved = (st.starved \/ mem # "none")
  BY <1>1 DEF ParsedWith, KeepsProgress, ProgressFields
<1>12. Knows(r, req, last, st.starved)
  BY <1>7, <1>8 DEF Knows, KeepsRequest, RequestFields
<1>13. Knows(r, req, last, t.starved)
  <2>1. st.starved \in BOOLEAN /\ t.starved \in BOOLEAN
    BY <1>11 DEF IsProgress
  <2> QED
    BY <1>11, <1>12, <2>1, MoreStarved
<1>14. MessageEnd(s, k, last) < n + 1
  <2>1. last \in 1 .. Len(req)
    BY <1>3, <1>4
  <2>2. \A j \in 1 .. Len(req) :
          /\ MessageEnd(s, k, j - 1) \in Nat /\ MessageEnd(s, k, j) \in Nat
          /\ Len(Encode(req[j])) \in Nat /\ Len(Encode(req[j])) >= 8
          /\ MessageEnd(s, k, j) = MessageEnd(s, k, j - 1) + Len(Encode(req[j]))
          /\ MessageEnd(s, k, j) <= Len(Wire[s])
    BY <1>3, MessagesPlaced
  <2>3. MessageEnd(s, k, last) \in Nat
    BY <2>1, <2>2
  <2> QED
    BY <1>5, <2>3
<1> QED
  BY <1>3, <1>8, <1>10, <1>11, <1>13, <1>14 DEF Spoiled

\* sl_main_parse_buffer goes on to the next octet.
LEMMA OutcomeStep ==
  ASSUME NEW s \in Scripts, NEW k \in 1 .. Len(s.requests), NEW from \in Nat,
         NEW n \in Nat, from <= n, n < Len(Wire[s]), NEW octet, octet = Wire[s][n + 1],
         NEW done \in BOOLEAN, NEW st, Outcome(st, s, k, from, n, done),
         NEW t \in ParseNext(st, octet)
  PROVE  Outcome(t, s, k, from, n + 1, done)
<1>1. IsProgress(st) /\ n + 1 # from
  BY DEF Outcome
<1>2. st.left = TRUE => t = st
  <2>1. \/ st.left /\ t = st
        \/ ~st.left /\ t = ParseWith(st, octet, "none")
        \/ \E mem : /\ ~st.left /\ mem # "none"
                    /\ t = [ParseWith(st, octet, mem) EXCEPT !.starved = TRUE]
    BY ParseNextFacts
  <2> QED
    BY <2>1
<1>3. PICK last : last = Len(s.requests[k])
  OBVIOUS
<1>4. MessageEnd(s, k, last) \in Nat
  <2>1. PICK req : req = s.requests[k]
    OBVIOUS
  <2>2. WholeRequest(s.requests[k])
    BY RequestsAreWhole
  <2>3. last \in 1 .. Len(req)
    BY <1>3, <2>1, <2>2 DEF WholeRequest
  <2>4. \A j \in 1 .. Len(req) :
          /\ MessageEnd(s, k, j - 1) \in Nat /\ MessageEnd(s, k, j) \in Nat
          /\ Len(Encode(req[j])) \in Nat /\ Len(Encode(req[j])) >= 8
          /\ MessageEnd(s, k, j) = MessageEnd(s, k, j - 1) + Len(Encode(req[j]))
          /\ MessageEnd(s, k, j) <= Len(Wire[s])
    BY <2>1, MessagesPlaced
  <2> QED
    BY <2>3, <2>4
<1>5. CASE ~done /\ Reading(st, s, k, n)
  <2>1. IsProgress(t) /\ Underway(t, s, k, n + 1)
    BY <1>1, <1>5, ReadingStep
  <2> QED
    BY <1>5, <2>1 DEF Outcome
<1>6. CASE ~done /\ Broken(st)
  <2>1. t = st
    BY <1>2, <1>6 DEF Broken
  <2> QED
    BY <1>1, <1>6, <2>1 DEF Outcome, Underway
<1>7. CASE ~done /\ st.left = TRUE /\ Served(st, s, k, n)
  <2>1. t = st
    BY <1>2, <1>7
  <2>2. Served(st, s, k, n + 1)
    BY <1>3, <1>4, <1>7 DEF Served
  <2> QED
    BY <1>1, <1>7, <2>1, <2>2 DEF Outcome, Underway
<1>8. CASE done /\ n = from
  <2>1. st.left = FALSE /\ Served(st, s, k, n)
    BY <1>8 DEF Outcome
  <2>2. IsProgress(t) /\ Spoiled(t, s, k, n + 1)
    BY <1>1, <2>1, ServedStep
  <2> QED
    BY <1>1, <1>8, <2>2 DEF Outcome
<1>9. CASE done /\ n # from
  <2>1. Spoiled(st, s, k, n)
    BY <1>9 DEF Outcome
  <2>2. t = st
    BY <1>2, <2>1 DEF Spoiled
  <2>3. Spoiled(st, s, k, n + 1)
    BY <1>3, <1>4, <2>1 DEF Spoiled
  <2> QED
    BY <1>1, <1>9, <2>2, <2>3 DEF Outcome
<1> QED
  BY <1>5, <1>6, <1>7, <1>8, <1>9 DEF Outcome, Underway

-----------------------------------------------------------------------------
(***************************************************************************)
(* All octets of a buffer.                                                 *)
(***************************************************************************)

\* All that can come of an octet of the stream.
AfterOctet(S, n) == UNION {ParseNext(s, stream[n]) : s \in S}

\* The function of ParseBuffer.
IsParsing(g, first, last) ==
  g = [n \in first - 1 .. last |-> IF n < first THEN {Now} ELSE AfterOctet(g[n - 1], n)]

\* What it says of each place.
ParsesTo(g, first, last) ==
  /\ g = [n \in first - 1 .. last |-> g[n]]
  /\ \A n \in first - 1 .. last : g[n] = IF n < first THEN {Now} ELSE AfterOctet(g[n - 1], n)

\* sl_main_parse_buffer goes through the octets one after the other.
LEMMA ParsingIsChosen ==
  ASSUME NEW first, NEW last
  PROVE  ParseBuffer(first, last) = (CHOOSE g : IsParsing(g, first, last))[last]
  BY DEF ParseBuffer, IsParsing, AfterOctet, Now

\* The equation of ParseBuffer has a solution.
LEMMA ParsingExists ==
  ASSUME NEW first \in Nat \ {0}
  PROVE  \A d \in Nat : \E g : ParsesTo(g, first, first - 1 + d)
<1> DEFINE T == {d \in Nat : \E g : ParsesTo(g, first, first - 1 + d)}
<1>1. 0 \in T
  <2> DEFINE g == [n \in first - 1 .. first - 1 |-> {Now}]
  <2>1. /\ first - 1 + 0 = first - 1 /\ first - 1 \in first - 1 .. first - 1
        /\ \A n \in first - 1 .. first - 1 : n < first
    OBVIOUS
  <2>2. g = [n \in first - 1 .. first - 1 |-> g[n]]
    OBVIOUS
  <2>3. \A n \in first - 1 .. first - 1 : g[n] = {Now}
    OBVIOUS
  <2> HIDE DEF g
  <2>4. ParsesTo(g, first, first - 1)
    BY <2>1, <2>2, <2>3 DEF ParsesTo
  <2> QED
    BY <2>1, <2>4
<1>2. ASSUME NEW d \in Nat, d \in T
      PROVE  d + 1 \in T
  <2>1. PICK last : last = first - 1 + d
    OBVIOUS
  <2>2. PICK g : ParsesTo(g, first, last)
    BY <1>2, <2>1
  <2> DEFINE h == [n \in first - 1 .. last + 1 |->
                     IF n = last + 1 THEN AfterOctet(g[last], last + 1) ELSE g[n]]
  <2>3. /\ last \in Nat /\ last + 1 = first - 1 + (d + 1) /\ (last + 1) - 1 = last
        /\ last + 1 \in first - 1 .. last + 1 /\ ~(last + 1 < first) /\ last \in first - 1 .. last
        /\ \A n \in first - 1 .. last : n \in first - 1 .. last + 1 /\ n # last + 1
        /\ \A n \in first - 1 .. last + 1 : n = last + 1 \/ n \in first - 1 .. last
        /\ \A n \in first - 1 .. last : n < first \/ n - 1 \in first - 1 .. last
    BY <2>1
  <2>4. \A n \in first - 1 .. last : h[n] = g[n]
    BY <2>3
  <2>5. h[last + 1] = AfterOctet(g[last], last + 1)
    BY <2>3
  <2>6. h = [n \in first - 1 .. last + 1 |-> h[n]]
    OBVIOUS
  <2> HIDE DEF h
  <2>7. ASSUME NEW n \in first - 1 .. last + 1
        PROVE  h[n] = IF n < first THEN {Now} ELSE AfterOctet(h[n - 1], n)
    <3>1. CASE n = last + 1
      BY <2>3, <2>4, <2>5, <3>1
    <3>2. CASE n \in first - 1 .. last
      <4>1. g[n] = IF n < first THEN {Now} ELSE AfterOctet(g[n - 1], n)
        BY <2>2, <3>2 DEF ParsesTo
      <4> QED
        BY <2>3, <2>4, <3>2, <4>1
    <3> QED
      BY <2>3, <3>1, <3>2
  <2>8. ParsesTo(h, first, last + 1)
    BY <2>6, <2>7 DEF ParsesTo
  <2> QED
    BY <2>3, <2>8
<1> HIDE DEF T
<1>3. Nat \subseteq T
  BY <1>1, <1>2, SetInduction
<1> QED
  BY <1>3 DEF T

\* So it does what the equation says.
LEMMA BufferParsed ==
  ASSUME NEW first \in Nat \ {0}, NEW last \in Nat, first - 1 <= last
  PROVE  \E g : ParsesTo(g, first, last) /\ ParseBuffer(first, last) = g[last]
<1>1. last - (first - 1) \in Nat /\ first - 1 + (last - (first - 1)) = last
  OBVIOUS
<1>2. PICK h : ParsesTo(h, first, last)
  BY <1>1, ParsingExists
<1>3. IsParsing(h, first, last)
  BY <1>2, Zenon DEF ParsesTo, IsParsing
<1>4. PICK g : g = (CHOOSE x : IsParsing(x, first, last)) /\ IsParsing(g, first, last)
  BY <1>3
<1>5. ParsesTo(g, first, last)
  BY <1>4 DEF ParsesTo, IsParsing
<1> QED
  BY <1>4, <1>5, ParsingIsChosen

\* An octet leaves the types of the variables alone.
LEMMA ProgressStep ==
  ASSUME NEW st, IsProgress(st), NEW octet, NEW t \in ParseNext(st, octet)
  PROVE  IsProgress(t)
<1>1. CASE st.left = FALSE
  <2>1. PICK mem, b : ParsedWith(st, octet, t, mem, b)
    BY <1>1, Parsed
  <2> QED
    BY <2>1 DEF ParsedWith
<1>2. CASE st.left = TRUE
  <2>1. t = st
    BY <1>2, ParseNextFacts
  <2> QED
    BY <2>1
<1> QED
  BY <1>1, <1>2 DEF IsProgress

\* So do all of them.
LEMMA BufferProgress ==
  ASSUME starved \in BOOLEAN, NEW first \in Nat \ {0}, NEW last \in Nat, first - 1 <= last,
         NEW st \in ParseBuffer(first, last)
  PROVE  IsProgress(st)
<1>1. PICK g : ParsesTo(g, first, last) /\ ParseBuffer(first, last) = g[last]
  BY BufferParsed
<1> DEFINE T == {d \in Nat : first - 1 + d <= last =>
                               \A x \in g[first - 1 + d] : IsProgress(x)}
<1>2. \A n \in first - 1 .. last :
        g[n] = IF n < first THEN {Now} ELSE AfterOctet(g[n - 1], n)
  BY <1>1 DEF ParsesTo
<1>3. 0 \in T
  <2>1. first - 1 + 0 = first - 1 /\ first - 1 \in first - 1 .. last /\ first - 1 < first
    OBVIOUS
  <2>2. g[first - 1] = {Now}
    BY <1>2, <2>1
  <2>3. IsProgress(Now)
    BY DEF Now, IsProgress, ProgressFields
  <2> QED
    BY <2>1, <2>2, <2>3
<1>4. ASSUME NEW d \in Nat, d \in T
      PROVE  d + 1 \in T
  <2>1. PICK n : n = first - 1 + d
    OBVIOUS
  <2>2. n \in Nat /\ first - 1 + (d + 1) = n + 1 /\ (n + 1) - 1 = n /\ ~(n + 1 < first)
    BY <2>1
  <2>3. ASSUME n + 1 <= last, NEW x \in g[n + 1]
        PROVE  IsProgress(x)
    <3>1. n + 1 \in first - 1 .. last /\ n <= last
      BY <2>1, <2>2, <2>3
    <3>2. g[n + 1] = AfterOctet(g[n], n + 1)
      BY <1>2, <2>2, <3>1
    <3>3. PICK y \in g[n] : x \in ParseNext(y, stream[n + 1])
      BY <2>3, <3>2 DEF AfterOctet
    <3>4. IsProgress(y)
      BY <1>4, <2>1, <3>1, <3>3
    <3> QED
      BY <3>3, <3>4, ProgressStep
  <2> QED
    BY <2>2, <2>3
<1> HIDE DEF T
<1>5. Nat \subseteq T
  BY <1>3, <1>4, SetInduction
<1>6. last - (first - 1) \in Nat /\ first - 1 + (last - (first - 1)) = last
  OBVIOUS
<1> QED
  BY <1>1, <1>5, <1>6 DEF T

\* And of the octets of a request comes what Outcome says.
LEMMA BufferOutcome ==
  ASSUME script \in Scripts, NEW k \in 1 .. Len(script.requests), NEW from \in Nat,
         NEW first, first = from + 1, NEW last \in Nat, from <= last, last <= Len(stream),
         NEW done \in BOOLEAN, Outcome(Now, script, k, from, from, done),
         NEW st \in ParseBuffer(first, last)
  PROVE  Outcome(st, script, k, from, last, done)
<1>1. first \in Nat \ {0} /\ first - 1 = from
  OBVIOUS
<1>2. PICK g : ParsesTo(g, first, last) /\ ParseBuffer(first, last) = g[last]
  BY <1>1, BufferParsed
<1>3. PICK s : s = script
  OBVIOUS
<1> DEFINE T == {d \in Nat : from + d <= last =>
                               \A x \in g[from + d] : Outcome(x, s, k, from, from + d, done)}
<1>4. \A n \in from .. last : g[n] = IF n < first THEN {Now} ELSE AfterOctet(g[n - 1], n)
  BY <1>1, <1>2 DEF ParsesTo
<1>5. 0 \in T
  <2>1. from + 0 = from /\ from \in from .. last /\ from < first
    OBVIOUS
  <2>2. g[from] = {Now}
    BY <1>4, <2>1
  <2> QED
    BY <1>3, <2>1, <2>2
<1>6. ASSUME NEW d \in Nat, d \in T
      PROVE  d + 1 \in T
  <2>1. PICK n : n = from + d
    OBVIOUS
  <2>2. n \in Nat /\ from + (d + 1) = n + 1 /\ (n + 1) - 1 = n /\ ~(n + 1 < first) /\ from <= n
    BY <2>1
  <2>3. ASSUME n + 1 <= last, NEW x \in g[n + 1]
        PROVE  Outcome(x, s, k, from, n + 1, done)
    <3>1. n + 1 \in from .. last /\ n <= last
      BY <2>1, <2>2, <2>3
    <3>2. g[n + 1] = AfterOctet(g[n], n + 1)
      BY <1>4, <2>2, <3>1
    <3>3. PICK octet : octet = Wire[s][n + 1]
      OBVIOUS
    <3>4. PICK y \in g[n] : x \in ParseNext(y, octet)
      BY <1>3, <2>3, <3>2, <3>3 DEF AfterOctet, stream
    <3>5. Outcome(y, s, k, from, n, done)
      BY <1>6, <2>1, <3>1, <3>4
    <3>6. s \in Scripts /\ k \in 1 .. Len(s.requests) /\ n < Len(Wire[s])
      <4>1. PICK l : l = Len(Wire[s])
        OBVIOUS
      <4>2. l \in Nat
        BY <1>3, <4>1, EndsGrow
      <4>3. n < l
        BY <1>3, <2>2, <2>3, <4>1, <4>2 DEF stream
      <4> QED
        BY <1>3, <4>1, <4>3
    <3> QED
      BY <2>2, <3>3, <3>4, <3>5, <3>6, OutcomeStep
  <2> QED
    BY <2>2, <2>3
<1> HIDE DEF T
<1>7. Nat \subseteq T
  BY <1>5, <1>6, SetInduction
<1>8. PICK d \in Nat : from + d = last
  OBVIOUS
<1>9. \A x \in g[from + d] : Outcome(x, s, k, from, from + d, done)
  BY <1>7, <1>8 DEF T
<1>10. st \in g[last]
  BY <1>2
<1>11. Outcome(st, s, k, from, last, done)
  BY <1>8, <1>9, <1>10
<1> QED
  BY <1>3, <1>11

-----------------------------------------------------------------------------
(***************************************************************************)
(* Where a request begins, is read and is finished.                        *)
(***************************************************************************)

\* No pairs make an empty table.
LEMMA EmptyTable == Table(<<>>) = <<>>
<1>1. NamesIn(<<>>) = {}
  BY DEF NamesIn
<1>2. Table(<<>>) = [name \in {} |-> <<>>[LastPlace(<<>>, name)].value]
  BY <1>1 DEF Table
<1>3. DOMAIN [name \in {} |-> <<>>[LastPlace(<<>>, name)].value] = {}
  OBVIOUS
<1> QED
  BY <1>2, <1>3

\* A request begins with a new parser and a new request.
LEMMA ReadingBegins ==
  ASSUME NEW s \in Scripts, NEW k \in 1 .. Len(s.requests), NEW n, n = MessageEnd(s, k, 0),
         NEW st, st.parser = ParserInit, st.request = RequestInit, st.left = FALSE,
         st.starved = FALSE
  PROVE  Reading(st, s, k, n)
<1>1. PICK req : req = s.requests[k]
  OBVIOUS
<1>2. WholeRequest(req) /\ Len(req) \in Nat \ {0} /\ req \in Seq(Messages)
  <2>1. WholeRequest(s.requests[k])
    BY RequestsAreWhole
  <2> QED
    BY <1>1, <2>1 DEF WholeRequest
<1>3. PICK j, o : j = 0 /\ o = 0
  OBVIOUS
<1>4. PICK m, e, i : m = req[j + 1] /\ e = Encode(m) /\ i = MessageEnd(s, k, j)
  OBVIOUS
<1>5. j \in 0 .. Len(req) - 1
  BY <1>2, <1>3
<1>6. i \in Nat /\ Len(e) \in Nat
  <2>1. Due(s, k, j, m, e, i)
    BY <1>1, <1>4, <1>5, NextMessage
  <2> QED
    BY <2>1 DEF Due
<1>7. /\ ParserInit \in Parsers /\ Filling(ParserInit) /\ ParserInit.state = "VERSION"
      /\ Follows(ParserInit, m, o)
  BY <1>3, NewParser, InitFollows DEF ParserInit
<1>8. RequestAfter(RequestInit, req, j, FALSE)
  <2>1. PairsOf(SubSeq(req, 1, j)) = <<>> /\ BodyOf(SubSeq(req, 1, j)) = <<>>
    BY <1>2, <1>3, <1>5, MessagesGrow DEF WholeRequest
  <2>2. ParametersOf(SubSeq(req, 1, j)) = <<>>
    BY <2>1, ParametersAreTable, EmptyTable
  <2>3. /\ RequestInit = [f \in RequestFields |-> RequestInit[f]]
        /\ RequestInit.crashed = FALSE /\ RequestInit.flags = 0 /\ RequestInit.state = "BEGIN"
        /\ RequestInit.parameters = <<>> /\ RequestInit.stdin = <<>>
    BY DEF RequestInit, RequestFields
  <2> QED
    BY <1>3, <2>1, <2>2, <2>3 DEF RequestAfter, Knows, StateAfter
<1>9. ReadingAt(st, s, k, n, j, o)
  <2>1. n = MessageEnd(s, k, j) + o /\ o <= Len(e)
    BY <1>3, <1>4, <1>6
  <2>2. RequestAfter(st.request, req, j, st.starved)
    BY <1>8
  <2> QED
    BY <1>1, <1>4, <1>7, <2>1, <2>2 DEF ReadingAt
<1>10. o \in 0 .. Len(e)
  BY <1>3, <1>6
<1> QED
  BY <1>1, <1>4, <1>5, <1>7, <1>9, <1>10 DEF Reading, FinalStates

\* While a request is read nothing has failed, and it is not finished; its flags
\* are none or those of its first message.
LEMMA ReadingIsFine ==
  ASSUME NEW s \in Scripts, NEW k \in 1 .. Len(s.requests), NEW st, NEW n,
         Reading(st, s, k, n), NEW r, r = st.request, NEW p, p = st.parser
  PROVE  /\ ~HasFailed(p, r) /\ r.state # "FINISHED" /\ r.crashed = FALSE
         /\ r.flags = 0 \/ r.flags = s.requests[k][1].flags
<1>1. PICK req : req = s.requests[k]
  OBVIOUS
<1>2. WholeRequest(req)
  BY <1>1, RequestsAreWhole
<1>3. PICK j \in 0 .. Len(req) - 1 : RequestAfter(r, req, j, st.starved)
  BY <1>1 DEF Reading, ReadingAt
<1>4. r.state \notin {"ERROR", "FINISHED"}
  BY <1>2, <1>3, FinishedByLast DEF RequestAfter
<1>5. p.state # "ERROR"
  BY DEF Reading, FinalStates
<1>6. r.crashed = FALSE /\ (r.flags = 0 \/ r.flags = req[1].flags)
  BY <1>3 DEF RequestAfter, Knows
<1> QED
  BY <1>1, <1>4, <1>5, <1>6 DEF HasFailed

\* A served request is finished.
LEMMA ServedIsFinished ==
  ASSUME NEW s \in Scripts, NEW k \in 1 .. Len(s.requests), NEW st, NEW n,
         Served(st, s, k, n), NEW r, r = st.request, NEW p, p = st.parser
  PROVE  ~HasFailed(p, r) /\ r.state = "FINISHED" /\ r.crashed = FALSE
<1>1. PICK req : req = s.requests[k]
  OBVIOUS
<1>2. WholeRequest(req)
  BY <1>1, RequestsAreWhole
<1>3. RequestAfter(r, req, Len(req), st.starved) /\ p.state = "FINISHED"
  BY <1>1 DEF Served
<1>4. r.state = "FINISHED"
  BY <1>2, <1>3, FinishedByLast DEF RequestAfter
<1>5. r.crashed = FALSE
  BY <1>3 DEF RequestAfter, Knows
<1> QED
  BY <1>3, <1>4, <1>5 DEF HasFailed

-----------------------------------------------------------------------------
(***************************************************************************)
(* Where a request is in the stream.                                       *)
(***************************************************************************)

\* A boundary is the end of the requests that are complete there.
LEMMA BoundaryIsEnd ==
  ASSUME script \in Scripts, NEW x \in Boundaries
  PROVE  /\ x \in Nat /\ x <= Len(stream) /\ Complete(x) \in 0 .. Len(script.requests)
         /\ x = EndOfRequest(Complete(x))
<1>1. PICK k \in 0 .. Len(script.requests) : x = EndOfRequest(k)
  BY DEF Boundaries
<1>2. EndOfRequest(k) \in Nat /\ Complete(EndOfRequest(k)) = k
  BY <1>1, CompleteAtEnd
<1>3. EndOfRequest(k) <= Len(stream)
  BY EndsGrow DEF EndOfRequest, stream
<1> QED
  BY <1>1, <1>2, <1>3

\* The request that begins at a boundary.
LEMMA RequestAt ==
  ASSUME script \in Scripts, NEW x \in Boundaries, Complete(x) < Len(script.requests),
         NEW k, k = Complete(x) + 1, NEW req, req = script.requests[k]
  PROVE  /\ k \in 1 .. Len(script.requests) /\ Complete(x) \in Nat /\ x \in Nat
         /\ x = MessageEnd(script, k, 0)
         /\ EndOfRequest(k) = MessageEnd(script, k, Len(req))
         /\ EndOfRequest(k) \in Nat /\ EndOfRequest(k) <= Len(stream)
<1>1. Len(script.requests) \in Nat
  BY EndsGrow
<1>2. /\ x \in Nat /\ Complete(x) \in 0 .. Len(script.requests)
      /\ x = EndOfRequest(Complete(x))
  BY BoundaryIsEnd
<1>3. PICK c : c = Complete(x)
  OBVIOUS
<1>4. /\ k \in 1 .. Len(script.requests) /\ k = c + 1 /\ k - 1 = c /\ c \in Nat
      /\ k \in 0 .. Len(script.requests)
  BY <1>1, <1>2, <1>3
<1>5. /\ Ends[script][k - 1] = MessageEnd(script, k, 0)
      /\ Ends[script][k] = MessageEnd(script, k, Len(req))
  BY <1>4, RequestPlaced
<1>6. EndOfRequest(k) \in Nat /\ EndOfRequest(k) <= Len(stream)
  BY <1>4, EndsGrow DEF EndOfRequest, stream
<1>7. x = MessageEnd(script, k, 0) /\ EndOfRequest(k) = MessageEnd(script, k, Len(req))
  BY <1>2, <1>3, <1>4, <1>5 DEF EndOfRequest
<1> QED
  BY <1>2, <1>3, <1>4, <1>6, <1>7

\* The request an event began at.
LEMMA BeganWhere ==
  ASSUME script \in Scripts, BeganAtRequest
  PROVE  /\ Serving \in 1 .. Len(script.requests) /\ Complete(start) \in Nat
         /\ Serving = Complete(start) + 1 /\ Current = script.requests[Serving]
         /\ start = MessageEnd(script, Serving, 0) /\ start \in Nat
         /\ EndOfRequest(Serving) = MessageEnd(script, Serving, Len(Current))
         /\ EndOfRequest(Serving) \in Nat /\ EndOfRequest(Serving) <= Len(stream)
<1>1. start \in Boundaries /\ Complete(start) < Len(script.requests)
  BY DEF BeganAtRequest
<1>2. PICK k, x : k = Serving /\ x = start
  OBVIOUS
<1>3. k = Complete(x) + 1 /\ Current = script.requests[k]
  BY <1>2 DEF Serving, Current
<1>4. PICK req : req = Current
  OBVIOUS
<1>5. /\ k \in 1 .. Len(script.requests) /\ Complete(x) \in Nat /\ x \in Nat
      /\ x = MessageEnd(script, k, 0)
      /\ EndOfRequest(k) = MessageEnd(script, k, Len(req))
      /\ EndOfRequest(k) \in Nat /\ EndOfRequest(k) <= Len(stream)
  BY <1>1, <1>2, <1>3, <1>4, RequestAt
<1> QED
  BY <1>2, <1>3, <1>4, <1>5

-----------------------------------------------------------------------------
(***************************************************************************)
(* The peer, and the beginning of an event.                                *)
(***************************************************************************)

\* What the proofs of the properties rest on.
Inv == ConnTypeOK /\ ServerInv /\ ModestInv

\* What depends on the script alone, or on it and where the event began.
LEMMA ScriptKept ==
  ASSUME script' = script
  PROVE  /\ Boundaries' = Boundaries /\ stream' = stream /\ Modest' = Modest
         /\ \A k : EndOfRequest(k)' = EndOfRequest(k)
         /\ start' = start => /\ BeganAtRequest' = BeganAtRequest /\ Serving' = Serving
                              /\ Complete(start)' = Complete(start)
                              /\ EndOfRequest(Serving)' = EndOfRequest(Serving)
<1>1. Boundaries' = Boundaries /\ stream' = stream /\ \A k : EndOfRequest(k)' = EndOfRequest(k)
  BY DEF Boundaries, stream, EndOfRequest
<1>2. Modest' = Modest
  BY DEF Modest, AsksToKeep
<1>3. ASSUME start' = start
      PROVE  /\ BeganAtRequest' = BeganAtRequest /\ Serving' = Serving
             /\ Complete(start)' = Complete(start)
             /\ EndOfRequest(Serving)' = EndOfRequest(Serving)
  <2>1. Complete(start)' = Complete(start)
    BY <1>3 DEF Complete, EndOfRequest
  <2>2. Serving' = Serving
    BY <2>1 DEF Serving
  <2> QED
    BY <1>1, <1>3, <2>1, <2>2 DEF BeganAtRequest, EndOfRequest
<1> QED
  BY <1>1, <1>2, <1>3

\* What is allowed to be sent.
LEMMA LimitFacts ==
  ASSUME script \in Scripts, replies \in Nat
  PROVE  /\ SendLimit \in Nat /\ SendLimit <= Len(stream) /\ Len(stream) \in Nat
         /\ script.patient /\ replies < Len(script.requests) =>
              SendLimit = EndOfRequest(replies + 1)
<1>1. /\ Len(script.requests) \in Nat
      /\ \A k \in 0 .. Len(script.requests) :
           Ends[script][k] \in Nat /\ Ends[script][k] <= Len(Wire[script])
      /\ Ends[script][Len(script.requests)] = Len(Wire[script])
  BY EndsGrow
<1>2. Len(stream) \in Nat
  <2>1. Len(script.requests) \in 0 .. Len(script.requests)
    BY <1>1
  <2> QED
    BY <1>1, <2>1 DEF stream
<1>3. CASE script.patient /\ replies < Len(script.requests)
  <2>1. replies + 1 \in 0 .. Len(script.requests)
    BY <1>1, <1>3
  <2>2. SendLimit = Ends[script][replies + 1]
    BY <1>3 DEF SendLimit, EndOfRequest
  <2> QED
    BY <1>1, <1>2, <2>1, <2>2 DEF EndOfRequest, stream
<1>4. CASE ~(script.patient /\ replies < Len(script.requests))
  <2>1. SendLimit = Len(stream)
    BY <1>4 DEF SendLimit
  <2> QED
    BY <1>2, <1>4, <2>1
<1> QED
  BY <1>3, <1>4

\* The first state.
LEMMA InvInit == Init => Inv
<1> SUFFICES ASSUME Init
             PROVE  Inv
  OBVIOUS
<1>1. /\ script \in Scripts /\ sent = 0 /\ received = 0 /\ replies = 0 /\ pc = "idle"
      /\ parser = ParserInit /\ request = RequestInit /\ start = 0
      /\ executed = FALSE /\ starved = FALSE
  BY DEF Init
<1>2. SendLimit \in Nat /\ Len(stream) \in Nat
  BY <1>1, LimitFacts
<1>3. ConnTypeOK
  <2>1. start <= received /\ received <= sent /\ sent <= Len(stream)
    BY <1>1, <1>2
  <2> QED
    BY <1>1, <2>1 DEF ConnTypeOK
<1>4. ServerInv
  BY <1>1 DEF ServerInv, InHandler
<1>5. ModestInv
  <2>1. 0 \in 0 .. Len(script.requests) /\ EndOfRequest(0) = 0
    BY <1>1, EndsGrow DEF EndOfRequest
  <2>2. received \in Boundaries
    BY <1>1, <2>1 DEF Boundaries
  <2>3. Complete(received) \in 0 .. Len(script.requests)
    BY <1>1, CompleteFacts
  <2>4. replies <= Complete(received)
    BY <1>1, <2>3
  <2> QED
    BY <1>1, <1>2, <2>2, <2>4 DEF ModestInv, InHandler
<1> QED
  BY <1>3, <1>4, <1>5 DEF Inv

\* The peer sends an octet.
LEMMA SendInv ==
  ASSUME Inv, Send
  PROVE  Inv'
<1>1. /\ script' = script /\ sent' = sent + 1 /\ received' = received /\ replies' = replies
      /\ pc' = pc /\ bytes_read' = bytes_read /\ parser' = parser /\ request' = request
      /\ start' = start /\ executed' = executed /\ starved' = starved /\ sent < SendLimit
  BY DEF Send
<1>2. ConnTypeOK
  BY DEF Inv
<1>3. SendLimit \in Nat /\ SendLimit <= Len(stream) /\ Len(stream) \in Nat
  BY <1>2, LimitFacts DEF ConnTypeOK
<1>4. /\ Boundaries' = Boundaries /\ stream' = stream /\ Modest' = Modest
      /\ \A k : EndOfRequest(k)' = EndOfRequest(k)
      /\ BeganAtRequest' = BeganAtRequest /\ Serving' = Serving
      /\ Complete(start)' = Complete(start)
      /\ EndOfRequest(Serving)' = EndOfRequest(Serving)
  BY <1>1, ScriptKept
<1>5. ConnTypeOK'
  <2>1. sent + 1 \in Nat /\ received <= sent + 1 /\ sent + 1 <= Len(stream)
    BY <1>1, <1>2, <1>3 DEF ConnTypeOK
  <2> QED
    BY <1>1, <1>2, <1>4, <2>1 DEF ConnTypeOK
<1>6. Now' = Now /\ Gone' = Gone /\ InHandler' = InHandler
  BY <1>1 DEF Now, Gone, InHandler
<1>7. Serves' = Serves
  BY <1>1, <1>4, <1>6 DEF Serves
<1>8. ServerInv'
  BY <1>1, <1>4, <1>6, <1>7 DEF Inv, ServerInv
<1>9. SendLimit' = SendLimit /\ Complete(received)' = Complete(received)
  BY <1>1, <1>4 DEF SendLimit, Complete, EndOfRequest
<1>10. ModestInv'
  <2>1. sent' <= SendLimit
    BY <1>1, <1>2, <1>3 DEF ConnTypeOK
  <2> QED
    BY <1>1, <1>4, <1>6, <1>9, <2>1 DEF Inv, ModestInv
<1> QED
  BY <1>5, <1>8, <1>10 DEF Inv

\* The peer hangs up; or nothing happens.
LEMMA QuietInv ==
  ASSUME Inv, HangUp \/ UNCHANGED vars
  PROVE  Inv'
<1>1. /\ script' = script /\ sent' = sent /\ received' = received /\ replies' = replies
      /\ pc' = pc /\ bytes_read' = bytes_read /\ parser' = parser /\ request' = request
      /\ start' = start /\ executed' = executed /\ starved' = starved
  BY DEF HangUp, vars
<1>2. /\ Boundaries' = Boundaries /\ stream' = stream /\ Modest' = Modest
      /\ \A k : EndOfRequest(k)' = EndOfRequest(k)
      /\ BeganAtRequest' = BeganAtRequest /\ Serving' = Serving
      /\ Complete(start)' = Complete(start)
      /\ EndOfRequest(Serving)' = EndOfRequest(Serving)
  BY <1>1, ScriptKept
<1>3. ConnTypeOK'
  BY <1>1, <1>2 DEF Inv, ConnTypeOK
<1>4. Now' = Now /\ Gone' = Gone /\ InHandler' = InHandler
  BY <1>1 DEF Now, Gone, InHandler
<1>5. Serves' = Serves
  BY <1>1, <1>2, <1>4 DEF Serves
<1>6. ServerInv'
  BY <1>1, <1>2, <1>4, <1>5 DEF Inv, ServerInv
<1>7. SendLimit' = SendLimit /\ Complete(received)' = Complete(received)
  BY <1>1, <1>2 DEF SendLimit, Complete, EndOfRequest
<1>8. ModestInv'
  BY <1>1, <1>2, <1>4, <1>7 DEF Inv, ModestInv
<1> QED
  BY <1>3, <1>6, <1>8 DEF Inv

\* An event begins.
LEMMA EventInv ==
  ASSUME Inv, Event
  PROVE  Inv'
<1>1. /\ script' = script /\ sent' = sent /\ received' = received /\ replies' = replies
      /\ pc = "idle" /\ pc' = "reading" /\ parser' = parser /\ request' = request
      /\ start' = received /\ executed' = FALSE /\ starved' = FALSE
  BY DEF Event, peerVars
<1>2. ConnTypeOK /\ ServerInv /\ ModestInv
  BY DEF Inv
<1>3. /\ Boundaries' = Boundaries /\ stream' = stream /\ Modest' = Modest
  BY <1>1, ScriptKept
<1>4. ConnTypeOK'
  <2>1. start' <= received' /\ received' <= sent' /\ sent' <= Len(stream')
    BY <1>1, <1>2, <1>3 DEF ConnTypeOK
  <2> QED
    BY <1>1, <1>2, <2>1 DEF ConnTypeOK
<1>5. parser = ParserInit /\ request = RequestInit
  BY <1>1, <1>2 DEF ServerInv
<1>6. ASSUME BeganAtRequest'
      PROVE  Serves'
  <2>1. received \in Boundaries /\ Complete(received) < Len(script.requests)
    BY <1>1, <1>3, <1>6 DEF BeganAtRequest, Complete, EndOfRequest
  <2>2. PICK s, k, n : s = script /\ k = Complete(n) + 1 /\ n = received
    OBVIOUS
  <2>3. s \in Scripts /\ k \in 1 .. Len(s.requests) /\ n = MessageEnd(s, k, 0)
    BY <1>2, <2>1, <2>2, RequestAt DEF ConnTypeOK
  <2>4. PICK st : st = Now'
    OBVIOUS
  <2>5. /\ st.parser = ParserInit /\ st.request = RequestInit /\ st.left = FALSE
        /\ st.starved = FALSE
    BY <1>1, <1>5, <2>4 DEF Now
  <2>6. Reading(st, s, k, n)
    BY <2>3, <2>5, ReadingBegins
  <2>7. script' = s /\ Serving' = k /\ received' = n
    BY <1>1, <2>2 DEF Serving, Complete, EndOfRequest
  <2>8. Reading(Now, script, Serving, received)'
    BY <2>4, <2>6, <2>7
  <2> QED
    BY <1>1, <2>8 DEF Serves
<1>7. ServerInv'
  BY <1>1, <1>6 DEF ServerInv, InHandler
<1>8. ModestInv'
  <2>1. SendLimit' = SendLimit /\ Complete(received)' = Complete(received)
    BY <1>1 DEF SendLimit, Complete, EndOfRequest, stream
  <2>2. Complete(start)' = Complete(received)
    BY <1>1 DEF Complete, EndOfRequest
  <2> QED
    BY <1>1, <1>2, <1>3, <2>1, <2>2 DEF ModestInv
<1> QED
  BY <1>4, <1>7, <1>8 DEF Inv

-----------------------------------------------------------------------------
(***************************************************************************)
(* recv() returns octets.                                                  *)
(***************************************************************************)

\* The parser goes on within the request.
GoesOn ==
  /\ executed = FALSE /\ executed' = FALSE /\ replies' = replies
  /\ Reading(Now', script, Serving, received')
  /\ pc' \in {"reading", "deciding"}
  /\ pc' = "deciding" => IsLastRead(bytes_read')

\* An allocation fails.
Fails ==
  /\ executed = FALSE /\ executed' = FALSE /\ replies' = replies
  /\ pc' = "crashed" \/ (pc' = "deciding" /\ starved' = TRUE /\ HasFailed(parser', request'))

\* The request is executed.
Executes ==
  /\ executed = FALSE /\ executed' = TRUE /\ replies' \in {replies, replies + 1}
  /\ Served(Now', script, Serving, received')
  /\ pc' \in {"reading", "deciding"}

\* Octets follow that are taken for a part of it.
Loses ==
  /\ executed = TRUE /\ executed' = TRUE /\ replies' = replies
  /\ pc' = "deciding" /\ request'.state = "ERROR"
  /\ Spoiled(Gone', script, Serving, received')

\* What one call of recv() adds.
LEMMA BytesFacts ==
  ASSUME ConnTypeOK, Receive
  PROVE  /\ received' \in Nat /\ received < received' /\ received' <= sent
         /\ received + 1 \in Nat \ {0} /\ received' <= Len(stream) /\ Len(stream) \in Nat
<1>1. /\ received < sent /\ received' = received + bytes_read'
      /\ bytes_read' = IF sent - received < RecvBuffer THEN sent - received ELSE RecvBuffer
  BY DEF Receive, BytesRead
<1>2. received \in Nat /\ sent \in Nat /\ RecvBuffer \in Nat \ {0}
  BY BufferAssumption DEF ConnTypeOK
<1>3. Len(stream) \in Nat
  BY LimitFacts DEF ConnTypeOK
<1>4. bytes_read' \in Nat \ {0} /\ bytes_read' <= sent - received
  BY <1>1, <1>2
<1>5. received' \in Nat /\ received < received' /\ received' <= sent
  BY <1>1, <1>2, <1>4
<1> QED
  BY <1>2, <1>3, <1>5 DEF ConnTypeOK

\* What the server does with them in an event that began at a request.
LEMMA ReceiveOutcome ==
  ASSUME Inv, Receive, BeganAtRequest
  PROVE  GoesOn \/ Fails \/ Executes \/ Loses
<1>1. ConnTypeOK /\ ServerInv
  BY DEF Inv
<1>2. /\ received' \in Nat /\ received < received' /\ received' <= sent
      /\ received' <= Len(stream) /\ received \in Nat
  BY <1>1, BytesFacts DEF ConnTypeOK
<1>3. Serving \in 1 .. Len(script.requests) /\ script \in Scripts
  BY <1>1, BeganWhere DEF ConnTypeOK
<1>4. PICK s, k, n, last : s = script /\ k = Serving /\ n = received /\ last = received'
  OBVIOUS
<1>5. PICK after \in ParseBuffer(n + 1, last) :
        /\ parser' = after.parser /\ request' = after.request /\ starved' = after.starved
        /\ pc' = IF after.request.crashed THEN "crashed"
                 ELSE IF HasFailed(after.parser, after.request) \/ IsLastRead(bytes_read')
                      THEN "deciding" ELSE "reading"
        /\ IF after.left /\ after.request.state = "FINISHED" /\ ~after.request.crashed
           THEN Respond(TRUE) \/ Respond(FALSE)
           ELSE UNCHANGED <<executed, replies, unsent>>
  BY <1>4, Zenon DEF Receive
<1>6. pc = "reading" /\ executed \in BOOLEAN
  BY <1>1 DEF Receive, ConnTypeOK
<1>7. Serves
  BY <1>1, <1>6 DEF ServerInv, InHandler
<1>8. \/ executed = FALSE /\ Reading(Now, s, k, n)
      \/ executed = TRUE /\ Served(Now, s, k, n)
  BY <1>4, <1>6, <1>7 DEF Serves
<1>9. PICK done \in BOOLEAN : done = executed
  BY <1>6
<1>10. Outcome(Now, s, k, n, n, done)
  <2>1. IsProgress(Now) /\ Now.left = FALSE
    BY <1>1 DEF IsProgress, Now, ProgressFields, ConnTypeOK
  <2> QED
    BY <1>8, <1>9, <2>1 DEF Outcome, Underway
<1>11. Outcome(after, s, k, n, last, done)
  <2>1. PICK first : first = n + 1
    OBVIOUS
  <2> QED
    BY <1>2, <1>3, <1>4, <1>5, <1>10, <2>1, BufferOutcome
<1>12. IsProgress(after)
  BY <1>11 DEF Outcome
<1>13. /\ Now'.parser = after.parser /\ Now'.request = after.request
       /\ Now'.starved = after.starved
  BY <1>5 DEF Now
<1>14. CASE done = FALSE /\ Reading(after, s, k, last)
  <2>1. after.left = FALSE
    BY <1>14 DEF Reading
  <2>2. Now' = after
    <3>1. Now' = [parser |-> after.parser, request |-> after.request, left |-> FALSE,
                  starved |-> after.starved]
      BY <1>5 DEF Now
    <3>2. after = [f \in ProgressFields |-> after[f]]
      BY <1>12 DEF IsProgress
    <3> QED
      BY <2>1, <3>1, <3>2 DEF ProgressFields
  <2>3. ~HasFailed(after.parser, after.request) /\ after.request.crashed = FALSE
    BY <1>3, <1>4, <1>14, ReadingIsFine
  <2>4. executed' = executed /\ replies' = replies
    BY <1>5, <2>1
  <2>5. /\ pc' \in {"reading", "deciding"}
        /\ pc' = "deciding" => IsLastRead(bytes_read')
    BY <1>5, <2>3
  <2> QED
    BY <1>4, <1>9, <1>14, <2>2, <2>4, <2>5 DEF GoesOn
<1>15. CASE done = FALSE /\ Broken(after)
  <2>1. executed' = executed /\ replies' = replies
    BY <1>5, <1>15 DEF Broken
  <2>2. after.starved = TRUE
    BY <1>15 DEF Broken
  <2>3. pc' = "crashed" \/ (pc' = "deciding" /\ HasFailed(after.parser, after.request))
    BY <1>5, <1>15 DEF Broken
  <2> QED
    BY <1>5, <1>9, <1>15, <2>1, <2>2, <2>3 DEF Fails
<1>16. CASE done = FALSE /\ after.left = TRUE /\ Served(after, s, k, last)
  <2>1. after.request.state = "FINISHED" /\ after.request.crashed = FALSE
    BY <1>3, <1>4, <1>16, ServedIsFinished
  <2>2. Respond(TRUE) \/ Respond(FALSE)
    BY <1>5, <1>16, <2>1
  <2>3. replies \in Nat
    BY <1>1 DEF ConnTypeOK
  <2>4. executed' = TRUE /\ replies' \in {replies, replies + 1}
    BY <2>2, <2>3 DEF Respond
  <2>5. pc' \in {"reading", "deciding"}
    BY <1>5, <2>1
  <2>6. Served(Now', s, k, last)
    BY <1>13, <1>16 DEF Served
  <2> QED
    BY <1>4, <1>9, <1>16, <2>4, <2>5, <2>6 DEF Executes
<1>17. CASE done = TRUE
  <2>1. Spoiled(after, s, k, last)
    BY <1>2, <1>4, <1>11, <1>17 DEF Outcome
  <2>2. after.left = TRUE /\ after.request.state = "ERROR" /\ after.request.crashed = FALSE
    BY <2>1 DEF Spoiled, Knows
  <2>3. executed' = executed /\ replies' = replies
    BY <1>5, <2>2
  <2>4. pc' = "deciding"
    BY <1>5, <2>2 DEF HasFailed
  <2>5. Spoiled(Gone', s, k, last)
    <3>1. Gone'.left = TRUE /\ Gone'.request = after.request /\ Gone'.starved = after.starved
      BY <1>5 DEF Gone, Now
    <3> QED
      BY <2>1, <3>1 DEF Spoiled
  <2> QED
    BY <1>4, <1>5, <1>9, <1>17, <2>2, <2>3, <2>4, <2>5 DEF Loses
<1> QED
  BY <1>9, <1>11, <1>14, <1>15, <1>16, <1>17 DEF Outcome, Underway

\* One more answer never takes the right to send away.
LEMMA LimitGrows ==
  ASSUME script \in Scripts, script' = script, replies \in Nat,
         replies' \in {replies, replies + 1}
  PROVE  SendLimit <= SendLimit'
<1>1. PICK n, e, l : n = Len(script.requests) /\ e = Ends[script] /\ l = Len(stream)
  OBVIOUS
<1>2. /\ n \in Nat /\ l \in Nat /\ \A k \in 0 .. n : e[k] \in Nat /\ e[k] <= l
      /\ \A i, j \in 0 .. n : i < j => e[i] < e[j]
  BY <1>1, EndsGrow, LimitFacts DEF stream
<1>3. SendLimit = IF script.patient /\ replies < n THEN e[replies + 1] ELSE l
  BY <1>1 DEF SendLimit, EndOfRequest
<1>4. SendLimit' = IF script.patient /\ replies' < n THEN e[replies' + 1] ELSE l
  BY <1>1 DEF SendLimit, EndOfRequest, stream
<1>5. PICK a, b : a = replies /\ b = replies'
  OBVIOUS
<1>6. a \in Nat /\ b \in Nat /\ a <= b
  BY <1>5
<1>7. CASE ~script.patient \/ ~(a < n)
  BY <1>2, <1>3, <1>4, <1>5, <1>6, <1>7
<1>8. CASE script.patient /\ a < n
  <2>1. SendLimit = e[a + 1] /\ a + 1 \in 0 .. n
    BY <1>2, <1>3, <1>5, <1>6, <1>8
  <2>2. CASE b < n
    <3>1. SendLimit' = e[b + 1] /\ b + 1 \in 0 .. n
      <4>1. b + 1 \in 0 .. n
        BY <1>2, <1>6, <2>2
      <4> QED
        BY <1>4, <1>5, <1>8, <2>2, <4>1
    <3>2. a + 1 = b + 1 \/ a + 1 < b + 1
      BY <1>6
    <3>3. e[a + 1] <= e[b + 1]
      BY <1>2, <2>1, <3>1, <3>2
    <3> QED
      BY <2>1, <3>1, <3>3
  <2>3. CASE ~(b < n)
    BY <1>2, <1>4, <1>5, <2>1, <2>3
  <2> QED
    BY <2>2, <2>3
<1> QED
  BY <1>5, <1>7, <1>8

\* A request that a modest peer has sent is the last it has sent before it gets
\* the answer.
LEMMA ModestLimit ==
  ASSUME ConnTypeOK, BeganAtRequest, script.patient, sent <= SendLimit,
         replies <= Complete(start)
  PROVE  sent <= EndOfRequest(Serving)
<1>1. /\ script \in Scripts /\ replies \in Nat /\ sent \in Nat
  BY DEF ConnTypeOK
<1>2. PICK n, e, c : n = Len(script.requests) /\ e = Ends[script] /\ c = Complete(start)
  OBVIOUS
<1>3. /\ n \in Nat /\ \A k \in 0 .. n : e[k] \in Nat
      /\ \A i, j \in 0 .. n : i < j => e[i] < e[j]
  BY <1>1, <1>2, EndsGrow
<1>4. c \in Nat /\ Serving = c + 1 /\ c < n
  BY <1>1, <1>2, BeganWhere DEF BeganAtRequest
<1>5. SendLimit = e[replies + 1] /\ replies <= c
  BY <1>1, <1>2, <1>3, <1>4 DEF SendLimit, EndOfRequest
<1>6. PICK a : a = replies + 1
  OBVIOUS
<1>7. /\ a \in 0 .. n /\ c + 1 \in 0 .. n /\ (a = c + 1 \/ a < c + 1)
  BY <1>1, <1>3, <1>4, <1>5, <1>6
<1>8. e[a] <= e[c + 1] /\ e[a] \in Nat /\ e[c + 1] \in Nat
  BY <1>3, <1>7
<1>9. sent <= e[c + 1]
  BY <1>1, <1>5, <1>6, <1>8
<1> QED
  BY <1>2, <1>4, <1>9 DEF EndOfRequest

\* Where octets are left an event that began at a boundary began at a request.
LEMMA BoundaryIsRequest ==
  ASSUME ConnTypeOK, start \in Boundaries, start < sent
  PROVE  BeganAtRequest
<1>1. script \in Scripts /\ start \in Nat /\ sent \in Nat /\ sent <= Len(stream)
  BY DEF ConnTypeOK
<1>2. Complete(start) \in 0 .. Len(script.requests) /\ start = EndOfRequest(Complete(start))
  BY <1>1, BoundaryIsEnd
<1>3. Len(script.requests) \in Nat /\ Ends[script][Len(script.requests)] = Len(Wire[script])
  BY <1>1, EndsGrow
<1>4. CASE Complete(start) = Len(script.requests)
  <2>1. start = Len(stream)
    BY <1>2, <1>3, <1>4 DEF EndOfRequest, stream
  <2> QED
    BY <1>1, <2>1
<1>5. CASE Complete(start) # Len(script.requests)
  BY <1>2, <1>3, <1>5 DEF BeganAtRequest
<1> QED
  BY <1>4, <1>5

\* The octets of the buffer.
LEMMA ReceiveInv ==
  ASSUME Inv, Receive
  PROVE  Inv'
<1>1. /\ script' = script /\ sent' = sent /\ start' = start /\ pc = "reading"
      /\ received < sent
  BY DEF Receive, peerVars
<1>2. ConnTypeOK /\ ServerInv /\ ModestInv
  BY DEF Inv
<1>3. /\ received' \in Nat /\ received < received' /\ received' <= sent
      /\ received + 1 \in Nat \ {0}
  BY <1>2, BytesFacts
<1>4. /\ Boundaries' = Boundaries /\ stream' = stream /\ Modest' = Modest
      /\ BeganAtRequest' = BeganAtRequest /\ Serving' = Serving
      /\ Complete(start)' = Complete(start)
      /\ EndOfRequest(Serving)' = EndOfRequest(Serving)
  BY <1>1, ScriptKept
<1>5. PICK after \in ParseBuffer(received + 1, received') :
        /\ starved' = after.starved
        /\ pc' \in {"crashed", "deciding", "reading"}
        /\ \/ executed' = TRUE /\ replies' \in {replies, replies + 1}
           \/ executed' = executed /\ replies' = replies
  <2>1. PICK after \in ParseBuffer(received + 1, received') :
          /\ starved' = after.starved
          /\ pc' = IF after.request.crashed THEN "crashed"
                   ELSE IF HasFailed(after.parser, after.request) \/ IsLastRead(bytes_read')
                        THEN "deciding" ELSE "reading"
          /\ IF after.left /\ after.request.state = "FINISHED" /\ ~after.request.crashed
             THEN Respond(TRUE) \/ Respond(FALSE)
             ELSE UNCHANGED <<executed, replies, unsent>>
    BY Zenon DEF Receive
  <2>2. replies \in Nat
    BY <1>2 DEF ConnTypeOK
  <2>3. \/ executed' = TRUE /\ replies' \in {replies, replies + 1}
        \/ executed' = executed /\ replies' = replies
    BY <2>1, <2>2 DEF Respond
  <2> QED
    BY <2>1, <2>3
<1>6. starved' \in BOOLEAN
  <2>1. PICK first, last : first = received + 1 /\ last = received'
    OBVIOUS
  <2>2. /\ first \in Nat \ {0} /\ last \in Nat /\ first - 1 <= last
    BY <1>2, <1>3, <2>1 DEF ConnTypeOK
  <2>3. IsProgress(after)
    BY <1>2, <1>5, <2>1, <2>2, BufferProgress DEF ConnTypeOK
  <2> QED
    BY <1>5, <2>3 DEF IsProgress
<1>7. /\ executed \in BOOLEAN /\ replies \in Nat /\ start \in Nat /\ received \in Nat
      /\ sent \in Nat /\ start <= received
  BY <1>2 DEF ConnTypeOK
<1>8. ConnTypeOK'
  <2>1. start' <= received' /\ received' <= sent' /\ sent' <= Len(stream')
    BY <1>1, <1>2, <1>3, <1>4, <1>7 DEF ConnTypeOK
  <2>2. executed' \in BOOLEAN
    BY <1>5, <1>7
  <2>3. replies' \in Nat
    <3>1. replies' \in {replies, replies + 1}
      BY <1>5
    <3> QED
      BY <1>7, <3>1
  <2> QED
    BY <1>1, <1>2, <1>3, <1>5, <1>6, <2>1, <2>2, <2>3 DEF ConnTypeOK
<1>9. ASSUME BeganAtRequest
      PROVE  GoesOn \/ Fails \/ Executes \/ Loses
  BY <1>9, ReceiveOutcome
<1>10. ServerInv'
  <2>1. start' < received'
    BY <1>1, <1>3, <1>7
  <2>2. ASSUME InHandler', BeganAtRequest
        PROVE  Serves'
    <3>1. CASE GoesOn
      <4>1. Reading(Now, script, Serving, received)'
        BY <1>1, <1>4, <3>1 DEF GoesOn
      <4> QED
        BY <3>1, <4>1 DEF GoesOn, Serves
    <3>2. CASE Fails
      BY <2>2, <3>2 DEF Fails, Serves, InHandler
    <3>3. CASE Executes
      <4>1. Served(Now, script, Serving, received)'
        BY <1>1, <1>4, <3>3 DEF Executes
      <4> QED
        BY <3>3, <4>1 DEF Executes, Serves
    <3>4. CASE Loses
      <4>1. Spoiled(Gone, script, Serving, received)'
        BY <1>1, <1>4, <3>4 DEF Loses
      <4> QED
        BY <3>4, <4>1 DEF Loses, Serves
    <3> QED
      BY <1>9, <2>2, <3>1, <3>2, <3>3, <3>4
  <2> QED
    BY <1>4, <1>5, <2>1, <2>2 DEF ServerInv
<1>11. ModestInv'
  <2> SUFFICES ASSUME Modest
               PROVE  /\ sent' <= SendLimit'
                      /\ replies' <= Complete(received)'
                      /\ start' \in Boundaries'
                      /\ executed' = FALSE => replies' <= Complete(start)'
                      /\ executed' = TRUE /\ request'.state = "FINISHED" =>
                           BeganAtRequest' /\ received' = EndOfRequest(Serving)'
    BY <1>4, <1>5, <1>8 DEF ModestInv, ConnTypeOK
  <2>1. /\ script \in Scripts /\ script.patient /\ sent <= SendLimit
        /\ replies <= Complete(received) /\ start \in Boundaries
        /\ executed = FALSE => replies <= Complete(start)
    BY <1>1, <1>2 DEF Modest, ModestInv, InHandler, ConnTypeOK
  <2>2. BeganAtRequest
    BY <1>1, <1>2, <1>7, <2>1, BoundaryIsRequest
  <2>3. GoesOn \/ Fails \/ Executes \/ Loses
    BY <1>9, <2>2
  <2>4. sent' <= SendLimit'
    <3>1. SendLimit \in Nat /\ SendLimit <= SendLimit'
      BY <1>1, <1>5, <1>7, <2>1, LimitFacts, LimitGrows
    <3>2. SendLimit' \in Nat
      <4>1. SendLimit' = IF script.patient /\ replies' < Len(script.requests)
                         THEN EndOfRequest(replies' + 1) ELSE Len(stream)
        BY <1>1 DEF SendLimit, EndOfRequest, stream
      <4>2. /\ Len(script.requests) \in Nat /\ Len(stream) \in Nat
            /\ \A k \in 0 .. Len(script.requests) : EndOfRequest(k) \in Nat
        BY <1>7, <2>1, EndsGrow, LimitFacts DEF EndOfRequest
      <4>3. replies' \in Nat
        BY <1>8 DEF ConnTypeOK
      <4> QED
        BY <4>1, <4>2, <4>3
    <3> QED
      BY <1>1, <1>7, <2>1, <3>1, <3>2
  <2>5. Complete(received)' = Complete(received')
    BY <1>1 DEF Complete, EndOfRequest
  <2>6. PICK c, d, b : c = Complete(received) /\ d = Complete(received') /\ b = Complete(start)
    OBVIOUS
  <2>7. c \in Nat /\ d \in Nat /\ c <= d /\ b \in Nat
    <3>1. received <= received'
      BY <1>3, <1>7
    <3> QED
      BY <1>3, <1>7, <2>1, <2>6, <3>1, CompleteFacts, CompleteGrows
  <2>8. CASE /\ executed' = executed /\ replies' = replies
             /\ executed' = FALSE \/ request'.state = "ERROR"
    BY <1>1, <1>4, <1>7, <2>1, <2>4, <2>5, <2>6, <2>7, <2>8
  <2>9. CASE Executes
    <3>1. replies <= b /\ executed' = TRUE /\ replies' \in {replies, replies + 1}
      BY <2>1, <2>6, <2>9 DEF Executes
    <3>2. PICK l : l = EndOfRequest(Serving)
      OBVIOUS
    <3>3. sent <= l
      BY <1>2, <2>1, <2>2, <2>6, <3>1, <3>2, ModestLimit
    <3>4. l \in Nat /\ Serving = b + 1 /\ Serving \in 0 .. Len(script.requests)
          /\ l = MessageEnd(script, Serving, Len(script.requests[Serving]))
      <4>1. Len(script.requests) \in Nat
        BY <2>1, EndsGrow
      <4> QED
        BY <2>1, <2>2, <2>6, <3>2, <4>1, BeganWhere
    <3>5. l <= received'
      BY <2>9, <3>4 DEF Executes, Served
    <3>6. received' = l
      BY <1>3, <1>7, <3>3, <3>4, <3>5
    <3>7. d = b + 1
      BY <2>1, <2>6, <3>2, <3>4, <3>6, CompleteAtEnd
    <3>8. replies' <= d
      BY <1>7, <2>7, <3>1, <3>7
    <3> QED
      BY <1>1, <1>4, <2>1, <2>2, <2>4, <2>5, <2>6, <3>1, <3>2, <3>6, <3>8
  <2> QED
    BY <2>3, <2>8, <2>9 DEF GoesOn, Fails, Loses
<1> QED
  BY <1>8, <1>10, <1>11 DEF Inv

-----------------------------------------------------------------------------
(***************************************************************************)
(* recv() has nothing more, and the connection is closed or kept.          *)
(***************************************************************************)

\* recv() returns nothing.
LEMMA ReceiveNothingInv ==
  ASSUME Inv, ReceiveNothing
  PROVE  Inv'
<1>1. /\ script' = script /\ sent' = sent /\ received' = received /\ replies' = replies
      /\ pc = "reading" /\ pc' = "deciding" /\ bytes_read' = 0 /\ parser' = parser
      /\ request' = request /\ start' = start /\ executed' = executed /\ starved' = starved
  BY DEF ReceiveNothing, peerVars
<1>2. ConnTypeOK /\ ServerInv /\ ModestInv
  BY DEF Inv
<1>3. /\ Boundaries' = Boundaries /\ stream' = stream /\ Modest' = Modest
      /\ BeganAtRequest' = BeganAtRequest /\ Serving' = Serving
      /\ Complete(start)' = Complete(start)
      /\ EndOfRequest(Serving)' = EndOfRequest(Serving)
  BY <1>1, ScriptKept
<1>4. ConnTypeOK'
  BY <1>1, <1>2, <1>3 DEF ConnTypeOK
<1>5. Now' = Now /\ InHandler /\ InHandler'
  BY <1>1 DEF Now, InHandler
<1>6. IsLastRead(bytes_read')
  BY <1>1, BufferAssumption DEF IsLastRead
<1>7. ASSUME BeganAtRequest
      PROVE  Serves'
  <2>1. \/ ~executed /\ Reading(Now, script, Serving, received)
        \/ executed /\ Served(Now, script, Serving, received)
    BY <1>1, <1>2, <1>5, <1>7 DEF ServerInv, Serves
  <2>2. /\ Reading(Now, script, Serving, received)' <=> Reading(Now, script, Serving, received)
        /\ Served(Now, script, Serving, received)' <=> Served(Now, script, Serving, received)
    BY <1>1, <1>3, <1>5
  <2> QED
    BY <1>1, <1>6, <2>1, <2>2 DEF Serves
<1>8. ServerInv'
  BY <1>1, <1>2, <1>3, <1>5, <1>7 DEF ServerInv
<1>9. ModestInv'
  <2>1. SendLimit' = SendLimit /\ Complete(received)' = Complete(received)
    BY <1>1 DEF SendLimit, Complete, EndOfRequest, stream
  <2> QED
    BY <1>1, <1>2, <1>3, <1>5, <2>1 DEF ModestInv
<1> QED
  BY <1>4, <1>8, <1>9 DEF Inv

\* The connection is closed.
LEMMA CloseInv ==
  ASSUME Inv, Close
  PROVE  Inv'
<1>1. /\ script' = script /\ sent' = sent /\ received' = received /\ replies' = replies
      /\ pc = "deciding" /\ pc' = "closed" /\ MustClose
      /\ start' = start /\ executed' = executed /\ starved' = starved
  BY DEF Close, peerVars
<1>2. ConnTypeOK /\ ServerInv /\ ModestInv
  BY DEF Inv
<1>3. /\ Boundaries' = Boundaries /\ stream' = stream /\ Modest' = Modest
      /\ BeganAtRequest' = BeganAtRequest /\ Serving' = Serving
      /\ EndOfRequest(Serving)' = EndOfRequest(Serving)
  BY <1>1, ScriptKept
<1>4. ConnTypeOK'
  BY <1>1, <1>2, <1>3 DEF ConnTypeOK
<1>5. ASSUME executed = TRUE, BeganAtRequest
      PROVE  received > EndOfRequest(Serving)
  <2>1. PICK s, k, st : s = script /\ k = Serving /\ st = Now
    OBVIOUS
  <2>2. /\ s \in Scripts /\ k \in 1 .. Len(s.requests)
        /\ EndOfRequest(Serving) = MessageEnd(s, k, Len(s.requests[k]))
        /\ EndOfRequest(Serving) \in Nat
    BY <1>2, <1>5, <2>1, BeganWhere DEF ConnTypeOK
  <2>3. Serves
    BY <1>1, <1>2, <1>5 DEF ServerInv, InHandler
  <2>4. CASE Served(st, s, k, received)
    <3>1. st.parser = parser /\ st.request = request
      BY <2>1 DEF Now
    <3>2. ~HasFailed(parser, request) /\ request.state = "FINISHED"
      BY <2>2, <2>4, <3>1, ServedIsFinished
    <3> QED
      BY <1>1, <3>2 DEF MustClose
  <2>5. CASE Spoiled(Gone, s, k, received)
    <3>1. EndOfRequest(Serving) < received
      BY <2>2, <2>5 DEF Spoiled
    <3> QED
      BY <1>2, <2>2, <3>1 DEF ConnTypeOK
  <2> QED
    BY <1>5, <2>1, <2>3, <2>4, <2>5 DEF Serves
<1>6. ServerInv'
  BY <1>1, <1>2, <1>3, <1>5 DEF ServerInv, InHandler, ConnTypeOK
<1>7. ModestInv'
  <2>1. SendLimit' = SendLimit /\ Complete(received)' = Complete(received)
    BY <1>1 DEF SendLimit, Complete, EndOfRequest, stream
  <2> QED
    BY <1>1, <1>2, <1>3, <2>1 DEF ModestInv, InHandler
<1> QED
  BY <1>4, <1>6, <1>7 DEF Inv

\* The connection of a modest peer is kept at the end of a request only.
LEMMA KeptInStep ==
  ASSUME Inv, Modest, pc = "deciding", ~MustClose
  PROVE  received \in Boundaries
<1>1. ConnTypeOK /\ ServerInv /\ start \in Boundaries /\ script \in Scripts
      /\ executed \in BOOLEAN
  BY DEF Inv, ModestInv, InHandler, ConnTypeOK
<1>2. CASE ~BeganAtRequest
  <2>1. ~(start < sent)
    BY <1>1, <1>2, BoundaryIsRequest
  <2>2. start = received
    BY <1>1, <2>1 DEF ConnTypeOK
  <2> QED
    BY <1>1, <2>2
<1>3. CASE BeganAtRequest
  <2>1. PICK s, k, st : s = script /\ k = Serving /\ st = Now
    OBVIOUS
  <2>2. s \in Scripts /\ k \in 1 .. Len(s.requests) /\ Len(s.requests) \in Nat
    BY <1>1, <1>3, <2>1, BeganWhere, EndsGrow
  <2>3. st.parser = parser /\ st.request = request
    BY <2>1 DEF Now
  <2>4. ~HasFailed(parser, request) /\ (request.state = "FINISHED" \/ KeepsConn(request))
    BY DEF MustClose
  <2>5. Serves
    BY <1>1, <1>3 DEF ServerInv, InHandler
  <2>6. CASE Reading(st, s, k, received)
    <3>1. /\ request.state # "FINISHED"
          /\ request.flags = 0 \/ request.flags = s.requests[k][1].flags
      BY <2>2, <2>3, <2>6, ReadingIsFine
    <3>2. request.flags % 2 = 1
      BY <2>4, <3>1 DEF KeepsConn
    <3>3. s.requests[k][1].flags % 2 = 1
      BY <3>1, <3>2
    <3>4. k \in DOMAIN script.requests
      <4>1. s.requests \in Seq(Seq(Messages))
        BY <2>2, ScriptsAssumption
      <4> QED
        BY <2>1, <2>2, <4>1
    <3>5. AsksToKeep
      BY <2>1, <3>3, <3>4 DEF AsksToKeep
    <3> QED
      BY <3>5 DEF Modest
  <2>7. CASE executed /\ Served(st, s, k, received)
    <3>1. request.state = "FINISHED"
      BY <2>2, <2>3, <2>7, ServedIsFinished
    <3>2. received = EndOfRequest(k)
      BY <2>1, <2>7, <3>1 DEF Inv, ModestInv, InHandler
    <3>3. k \in 0 .. Len(script.requests)
      BY <2>1, <2>2
    <3> QED
      BY <3>2, <3>3 DEF Boundaries
  <2>8. CASE Spoiled(Gone, s, k, received)
    <3>1. Gone.request = request
      BY DEF Gone, Now
    <3> QED
      BY <2>4, <2>8, <3>1 DEF Spoiled, HasFailed
  <2> QED
    BY <2>1, <2>4, <2>5, <2>6, <2>7, <2>8 DEF Serves
<1> QED
  BY <1>2, <1>3

\* The connection is kept.
LEMMA ReuseInv ==
  ASSUME Inv, Reuse
  PROVE  Inv'
<1>1. /\ script' = script /\ sent' = sent /\ received' = received /\ replies' = replies
      /\ pc = "deciding" /\ pc' = "idle" /\ ~MustClose
      /\ parser' = ParserInit /\ request' = RequestInit
      /\ start' = start /\ executed' = executed /\ starved' = starved
  BY DEF Reuse, peerVars
<1>2. ConnTypeOK /\ ServerInv /\ ModestInv
  BY DEF Inv
<1>3. Boundaries' = Boundaries /\ stream' = stream /\ Modest' = Modest
  BY <1>1, ScriptKept
<1>4. ConnTypeOK'
  BY <1>1, <1>2, <1>3 DEF ConnTypeOK
<1>5. ServerInv'
  BY <1>1 DEF ServerInv, InHandler
<1>6. ModestInv'
  <2>1. SendLimit' = SendLimit /\ Complete(received)' = Complete(received)
    BY <1>1 DEF SendLimit, Complete, EndOfRequest, stream
  <2>2. Modest => received \in Boundaries
    BY <1>1, KeptInStep
  <2> QED
    BY <1>1, <1>2, <1>3, <2>1, <2>2 DEF ModestInv, InHandler
<1> QED
  BY <1>4, <1>5, <1>6 DEF Inv

-----------------------------------------------------------------------------
(***************************************************************************)
(* The properties.                                                         *)
(***************************************************************************)

\* However the octets are cut, whatever the peer does and whichever allocation
\* fails, the handler is where Inv says.
THEOREM ConnectionInv == Spec => []Inv
<1>1. Inv /\ [Next]_vars => Inv'
  BY SendInv, QuietInv, EventInv, ReceiveInv, ReceiveNothingInv, CloseInv, ReuseInv
     DEF Next, Server
<1> QED
  BY <1>1, InvInit, PTL DEF Spec

\* sl_main_request_execute runs for whole requests only, with their id and, if
\* memory lasted, their parameters and their body.
THEOREM ExecutesWhatWasSentTheorem == Spec => []ExecutesWhatWasSent
<1>1. Inv => ExecutesWhatWasSent
  <2> SUFFICES ASSUME Inv, InHandler, executed, start \in Boundaries
               PROVE  /\ BeganAtRequest
                      /\ received >= EndOfRequest(Serving)
                      /\ request.request_id = Current[1].id
                      /\ ~starved => /\ request.parameters = ParametersOf(Current)
                                     /\ request.stdin = BodyOf(Current)
    BY DEF ExecutesWhatWasSent, Serving
  <2>1. ConnTypeOK /\ ServerInv /\ script \in Scripts
    BY DEF Inv, ConnTypeOK
  <2>2. start < sent
    <3>1. start < received
      BY <2>1 DEF ServerInv
    <3> QED
      BY <2>1, <3>1 DEF ConnTypeOK
  <2>3. BeganAtRequest
    BY <2>1, <2>2, BoundaryIsRequest
  <2>4. PICK s, k, req : s = script /\ k = Serving /\ req = Current
    OBVIOUS
  <2>5. /\ s \in Scripts /\ k \in 1 .. Len(s.requests) /\ req = s.requests[k]
        /\ EndOfRequest(Serving) = MessageEnd(s, k, Len(req)) /\ EndOfRequest(Serving) \in Nat
    BY <2>1, <2>3, <2>4, BeganWhere
  <2>6. req \in Seq(Messages) /\ Len(req) \in Nat \ {0} /\ SubSeq(req, 1, Len(req)) = req
    <3>1. WholeRequest(s.requests[k])
      BY <2>5, RequestsAreWhole
    <3>2. req \in Seq(Messages) /\ Len(req) \in Nat \ {0}
      BY <2>5, <3>1 DEF WholeRequest
    <3> QED
      BY <3>2
  <2>7. \/ Served(Now, s, k, received)
        \/ Spoiled(Gone, s, k, received)
    BY <2>1, <2>3, <2>4 DEF ServerInv, Serves
  <2>8. /\ MessageEnd(s, k, Len(req)) <= received \/ MessageEnd(s, k, Len(req)) < received
        /\ Knows(request, req, Len(req), starved)
    BY <2>5, <2>7 DEF Served, Spoiled, RequestAfter, Now, Gone
  <2>9. received >= EndOfRequest(Serving)
    BY <2>1, <2>5, <2>8 DEF ConnTypeOK
  <2>10. request.request_id = req[1].id
    BY <2>6, <2>8 DEF Knows
  <2>11. ~starved => request.parameters = ParametersOf(req) /\ request.stdin = BodyOf(req)
    BY <2>6, <2>8 DEF Knows
  <2> QED
    BY <2>3, <2>4, <2>9, <2>10, <2>11
<1> QED
  BY <1>1, ConnectionInv, PTL

\* An event that began at a request and did not execute it has read less than the
\* request, and no error was found, unless memory ran out.
THEOREM WholeRequestIsExecutedTheorem == Spec => []WholeRequestIsExecuted
<1>1. Inv => WholeRequestIsExecuted
  <2> SUFFICES ASSUME Inv, pc = "deciding", BeganAtRequest, ~starved, ~executed
               PROVE  /\ received < EndOfRequest(Serving)
                      /\ ~HasFailed(parser, request)
                      /\ IsLastRead(bytes_read)
    BY DEF WholeRequestIsExecuted, Serving
  <2>1. script \in Scripts /\ Serves
    BY DEF Inv, ConnTypeOK, ServerInv, InHandler
  <2>2. PICK s, k, req, st : s = script /\ k = Serving /\ req = Current /\ st = Now
    OBVIOUS
  <2>3. /\ s \in Scripts /\ k \in 1 .. Len(s.requests) /\ req = s.requests[k]
        /\ EndOfRequest(Serving) = MessageEnd(s, k, Len(req))
    BY <2>1, <2>2, BeganWhere
  <2>4. Reading(st, s, k, received) /\ IsLastRead(bytes_read)
    BY <2>1, <2>2 DEF Serves
  <2>5. received < EndOfRequest(Serving)
    BY <2>3, <2>4, ReadingBefore
  <2>6. st.parser = parser /\ st.request = request
    BY <2>2 DEF Now
  <2>7. ~HasFailed(parser, request)
    BY <2>3, <2>4, <2>6, ReadingIsFine
  <2> QED
    BY <2>4, <2>5, <2>7
<1> QED
  BY <1>1, ConnectionInv, PTL

\* A peer that waits for its answers is closed on after one only when octets of
\* its next request came in the same event.
THEOREM ServedPeerIsKeptTheorem == Spec => []ServedPeerIsKept
<1>1. Inv => ServedPeerIsKept
  BY DEF Inv, ServerInv, ServedPeerIsKept, Serving
<1> QED
  BY <1>1, ConnectionInv, PTL

\* The server is in step with a peer that waits and did not set KEEP_CONN.
THEOREM StaysInStepTheorem == Spec => []StaysInStep
<1>1. Inv => StaysInStep
  BY DEF Inv, ModestInv, Modest, StaysInStep
<1> QED
  BY <1>1, ConnectionInv, PTL

\* And it answers such a peer once for each request at most.
THEOREM RepliesAreEarnedTheorem == Spec => [](Modest => RepliesAreEarned)
<1>1. Inv => (Modest => RepliesAreEarned)
  BY DEF Inv, ModestInv, RepliesAreEarned
<1> QED
  BY <1>1, ConnectionInv, PTL

-----------------------------------------------------------------------------
(***************************************************************************)
(* The handler is one step of EventLoop: what it knows of a request that   *)
(* has not begun is nothing, and it reads something or leaves all as it    *)
(* was.                                                                    *)
(***************************************************************************)

\* A request that waits for BEGIN_REQUEST has no flags.
IsRequest(r) ==
  /\ r = [f \in RequestFields |-> r[f]]
  /\ r.state = "BEGIN" => r.flags = 0

\* No message leads back there.
LEMMA ProcessedIsRequest ==
  ASSUME NEW r, IsRequest(r), NEW p, NEW mem, NEW q, q = ProcessMessage(r, p, mem)
  PROVE  IsRequest(q)
<1> DEFINE accepted == CASE r.state = "BEGIN" -> {BeginRequest}
                         [] r.state = "PARAM_OR_STDIN" -> {Params, Stdin}
                         [] r.state = "PARAM" -> {Params}
                         [] r.state = "STDIN" -> {Stdin}
                         [] OTHER -> {}
<1>1. r = [f \in RequestFields |-> r[f]]
  BY DEF IsRequest
<1>2. ASSUME NEW f \in RequestFields \ {"state"}, NEW v, q = Assign(r, f, v), r.state # "BEGIN"
      PROVE  IsRequest(q)
  <2>1. "state" \in RequestFields \ {f} /\ f \in RequestFields
    BY DEF RequestFields
  <2> HIDE DEF accepted
  <2>3. KeepsRequest(r, q, {f})
    BY <1>1, <1>2, <2>1, AssignFacts
  <2>2. q.state = r.state
    BY <2>1, <2>3 DEF KeepsRequest
  <2> QED
    BY <1>2, <2>2, <2>3 DEF KeepsRequest, IsRequest
<1>3. ASSUME NEW s, s # "BEGIN", q = Assign(r, "state", s)
      PROVE  IsRequest(q)
  <2>1. "state" \in RequestFields
    BY DEF RequestFields
  <2>2. KeepsRequest(r, q, {"state"}) /\ q["state"] = s
    BY <1>1, <1>3, <2>1, AssignFacts
  <2> QED
    BY <1>3, <2>2 DEF KeepsRequest, IsRequest
<1>4. CASE p.type \notin accepted
  <2>1. q = Assign(r, "state", "ERROR")
    BY <1>4 DEF ProcessMessage, Assign
  <2> QED
    BY <1>3, <2>1
<1>5. CASE p.type \in accepted /\ r.state = "BEGIN"
  <2>1. p.type = BeginRequest
    BY <1>5
  <2>2. KeepsRequest(r, q, {"state", "flags", "request_id"}) /\ q.state = "PARAM_OR_STDIN"
    BY <1>1, <1>5, <2>1, BeginProcessed
  <2> QED
    BY <2>2 DEF KeepsRequest, IsRequest
<1>6. CASE p.type \in accepted /\ r.state # "BEGIN" /\ p.content_length = 0
  <2>1. PICK s : s = Terminated(r, p)
    OBVIOUS
  <2>2. q = Assign(r, "state", s)
    BY <1>6, <2>1 DEF ProcessMessage, Assign
  <2>3. s # "BEGIN"
    BY <2>1 DEF Terminated
  <2> QED
    BY <1>3, <2>2, <2>3
<1>7. CASE p.type \in accepted /\ r.state # "BEGIN" /\ p.content_length # 0 /\ p.type = Params
  <2>1. q = AppendParam(r, p, mem)
    BY <1>7 DEF ProcessMessage
  <2>2. /\ "crashed" \in RequestFields \ {"state"}
        /\ "parameters" \in RequestFields \ {"state"}
    BY DEF RequestFields
  <2>3. CASE mem = "name"
    <3>1. q = Assign(r, "crashed", TRUE)
      BY <2>1, <2>3 DEF AppendParam, Assign
    <3> QED
      BY <1>2, <1>7, <2>2, <3>1
  <2>4. CASE mem # "name"
    <3>1. PICK v : v = Fold(r.parameters, p.params, mem)[DOMAIN p.params]
      OBVIOUS
    <3>2. q = Assign(r, "parameters", v)
      BY <2>1, <2>4, <3>1, <1>1, FoldIsChosen DEF Assign, RequestFields
    <3> QED
      BY <1>2, <1>7, <2>2, <3>2
  <2> QED
    BY <2>3, <2>4
<1>8. CASE p.type \in accepted /\ r.state # "BEGIN" /\ p.content_length # 0 /\ p.type # Params
  <2>1. q = AppendStdin(r, p, mem)
    BY <1>8 DEF ProcessMessage
  <2>2. "stdin" \in RequestFields \ {"state"}
    BY DEF RequestFields
  <2>3. CASE mem = "stdin"
    <3>1. q = Assign(r, "state", "ERROR")
      BY <2>1, <2>3 DEF AppendStdin, Assign
    <3> QED
      BY <1>3, <3>1
  <2>4. CASE mem # "stdin"
    <3>1. PICK v : v = Cat(r.stdin, p.stdin)
      OBVIOUS
    <3>2. q = Assign(r, "stdin", v)
      BY <2>1, <2>4, <3>1, <1>1 DEF Assign, AppendStdin, RequestFields, Cat
    <3> QED
      BY <1>2, <1>8, <2>2, <3>2
  <2> QED
    BY <2>3, <2>4
<1> QED
  BY <1>4, <1>5, <1>6, <1>7, <1>8

\* So no octet does.
LEMMA OctetIsRequest ==
  ASSUME NEW st, IsProgress(st), IsRequest(st.request), NEW octet,
         NEW t \in ParseNext(st, octet)
  PROVE  IsRequest(t.request)
<1>1. CASE st.left = TRUE
  <2>1. t = st
    BY <1>1, ParseNextFacts
  <2> QED
    BY <2>1
<1>2. CASE st.left = FALSE
  <2>1. PICK mem, b : ParsedWith(st, octet, t, mem, b)
    BY <1>2, Parsed
  <2>2. b = ParseWith(st, octet, mem) /\ t.request = b.request
    BY <2>1 DEF ParsedWith, KeepsProgress, ProgressFields
  <2>3. PICK ok : ok = (mem # "parser")
    OBVIOUS
  <2>4. PICK p : p = ParseOctet(st.parser, octet, ok)
    OBVIOUS
  <2>5. PICK r : r = ProcessMessage(st.request, p, mem)
    OBVIOUS
  <2>6. Parses(st, b, p, r, Again(st.parser, octet, ok))
    BY <2>2, <2>3, <2>4, <2>5, ParseWithFacts
  <2>7. b.request = st.request \/ b.request = r
    BY <2>6 DEF Parses, Finishes, KeepsProgress, ProgressFields, FinalStates
  <2>8. IsRequest(r)
    BY <2>5, ProcessedIsRequest
  <2> QED
    BY <2>2, <2>7, <2>8
<1> QED
  BY <1>1, <1>2 DEF IsProgress

\* Nor does a buffer of them.
LEMMA BufferIsRequest ==
  ASSUME starved \in BOOLEAN, IsRequest(request),
         NEW first \in Nat \ {0}, NEW last \in Nat, first - 1 <= last,
         NEW st \in ParseBuffer(first, last)
  PROVE  IsRequest(st.request)
<1>1. PICK g : ParsesTo(g, first, last) /\ ParseBuffer(first, last) = g[last]
  BY BufferParsed
<1> DEFINE T == {d \in Nat : first - 1 + d <= last =>
                   \A x \in g[first - 1 + d] : IsProgress(x) /\ IsRequest(x.request)}
<1>2. \A n \in first - 1 .. last :
        g[n] = IF n < first THEN {Now} ELSE AfterOctet(g[n - 1], n)
  BY <1>1 DEF ParsesTo
<1>3. 0 \in T
  <2>1. first - 1 + 0 = first - 1 /\ first - 1 \in first - 1 .. last /\ first - 1 < first
    OBVIOUS
  <2>2. g[first - 1] = {Now}
    BY <1>2, <2>1
  <2>3. IsProgress(Now) /\ IsRequest(Now.request)
    BY DEF Now, IsProgress, ProgressFields
  <2> QED
    BY <2>1, <2>2, <2>3
<1>4. ASSUME NEW d \in Nat, d \in T
      PROVE  d + 1 \in T
  <2>1. PICK n : n = first - 1 + d
    OBVIOUS
  <2>2. n \in Nat /\ first - 1 + (d + 1) = n + 1 /\ (n + 1) - 1 = n /\ ~(n + 1 < first)
    BY <2>1
  <2>3. ASSUME n + 1 <= last, NEW x \in g[n + 1]
        PROVE  IsProgress(x) /\ IsRequest(x.request)
    <3>1. n + 1 \in first - 1 .. last /\ n <= last
      BY <2>1, <2>2, <2>3
    <3>2. g[n + 1] = AfterOctet(g[n], n + 1)
      BY <1>2, <2>2, <3>1
    <3>3. PICK y \in g[n] : x \in ParseNext(y, stream[n + 1])
      BY <2>3, <3>2 DEF AfterOctet
    <3>4. IsProgress(y) /\ IsRequest(y.request)
      BY <1>4, <2>1, <3>1, <3>3
    <3> QED
      BY <3>3, <3>4, ProgressStep, OctetIsRequest
  <2> QED
    BY <2>2, <2>3
<1> HIDE DEF T
<1>5. Nat \subseteq T
  BY <1>3, <1>4, SetInduction
<1>6. last - (first - 1) \in Nat /\ first - 1 + (last - (first - 1)) = last
  OBVIOUS
<1> QED
  BY <1>1, <1>5, <1>6 DEF T

\* The request is one at any time, and as it was initialised until the event has
\* brought an octet.
HandlerInv ==
  /\ IsRequest(request)
  /\ InHandler /\ received = start => parser = ParserInit /\ request = RequestInit

\* That is kept by every step.
LEMMA HandlerHolds == Spec => [](Inv /\ HandlerInv)
<1>1. IsRequest(RequestInit)
  BY DEF IsRequest, RequestInit, RequestFields
<1>2. Init => HandlerInv
  BY <1>1 DEF Init, HandlerInv, InHandler
<1>3. Inv /\ HandlerInv /\ [Next]_vars => HandlerInv'
  <2> SUFFICES ASSUME Inv, HandlerInv, [Next]_vars
               PROVE  HandlerInv'
    OBVIOUS
  <2>1. ASSUME parser' = parser, request' = request, received' = received, start' = start,
               pc' = pc \/ pc' \notin {"reading", "deciding"} \/ pc = "reading"
        PROVE  HandlerInv'
    BY <2>1 DEF HandlerInv, InHandler
  <2>2. CASE Event
    <3>1. parser' = parser /\ request' = request /\ pc = "idle"
      BY <2>2 DEF Event
    <3>2. parser = ParserInit /\ request = RequestInit
      BY <3>1 DEF Inv, ServerInv
    <3> QED
      BY <1>1, <3>1, <3>2 DEF HandlerInv
  <2>3. CASE Receive
    <3>1. /\ starved \in BOOLEAN /\ start \in Nat /\ received \in Nat /\ start <= received
          /\ received' \in Nat /\ received < received' /\ received + 1 \in Nat \ {0}
      BY <2>3, BytesFacts DEF Inv, ConnTypeOK
    <3>2. start' = start
      BY <2>3 DEF Receive
    <3>3. PICK last : last = received'
      OBVIOUS
    <3>4. PICK after \in ParseBuffer(received + 1, last) : request' = after.request
      BY <2>3, <3>3 DEF Receive
    <3>5. IsRequest(after.request)
      BY <3>1, <3>3, <3>4, BufferIsRequest DEF HandlerInv
    <3>6. received' # start'
      BY <3>1, <3>2
    <3> QED
      BY <3>4, <3>5, <3>6 DEF HandlerInv, IsRequest
  <2>4. CASE ReceiveNothing
    BY <2>1, <2>4 DEF ReceiveNothing
  <2>5. CASE Close
    BY <2>1, <2>5 DEF Close
  <2>6. CASE Reuse
    BY <1>1, <2>6 DEF Reuse, HandlerInv, InHandler, IsRequest
  <2>7. CASE Send \/ HangUp \/ UNCHANGED vars
    BY <2>1, <2>7 DEF Send, HangUp, vars
  <2> QED
    BY <2>2, <2>3, <2>4, <2>5, <2>6, <2>7 DEF Next, Server
<1> QED
  BY <1>2, <1>3, ConnectionInv, PTL DEF Spec

\* The slot of a connection made anew.
LEMMA NewSlot ==
  ASSUME pc # "closed"
  PROVE  SlotOf(ParserInit, RequestInit) =
           [socket_fd |-> "fd", address |-> "peer", is_busy |-> TRUE,
            state |-> "BEGIN", keep_conn |-> FALSE]
<1>1. RequestInit.state = "BEGIN" /\ RequestInit.flags = 0 /\ ParserInit.state = "VERSION"
  BY DEF RequestInit, ParserInit
<1>2. Told(ParserInit, RequestInit) = "BEGIN"
  BY <1>1 DEF Told, HasFailed
<1>3. KeepsConn(RequestInit) = FALSE
  BY <1>1, 0 % 2 = 0 DEF KeepsConn
<1>4. (pc # "closed") = TRUE
  OBVIOUS
<1> QED
  BY <1>2, <1>3, <1>4, Zenon DEF SlotOf

\* What the handler leaves in the slot is among what EventLoop expects it to.
LEMMA LeftIsExpected ==
  ASSUME Inv, HandlerInv, pc = "deciding"
  PROVE  /\ SlotOf(parser, request) \in Worker!AfterReading(slot, "fd")
         /\ Worker!MustClose(SlotOf(parser, request)) <=> MustClose
<1>1. start \in Nat /\ received \in Nat /\ start <= received
  BY DEF Inv, ConnTypeOK
<1>2. slot = [socket_fd |-> "fd", address |-> "peer", is_busy |-> TRUE,
              state |-> "BEGIN", keep_conn |-> FALSE]
  BY NewSlot DEF slot
<1>3. PICK s, k : s = Told(parser, request) /\ k = KeepsConn(request)
  OBVIOUS
<1>4. SlotOf(parser, request) =
        [socket_fd |-> "fd", address |-> "peer", is_busy |-> TRUE, state |-> s, keep_conn |-> k]
  BY <1>3 DEF SlotOf
<1>5. /\ s \in {"BEGIN", "PARTIAL", "FINISHED", "ERROR"} /\ k \in BOOLEAN
      /\ s = "BEGIN" => request.state = "BEGIN" /\ ~HasFailed(parser, request) /\ k = FALSE
  <2>1. s \in {"BEGIN", "PARTIAL", "FINISHED", "ERROR"}
    BY <1>3, Zenon DEF Told
  <2>2. k \in BOOLEAN
    BY <1>3 DEF KeepsConn
  <2>3. ASSUME s = "BEGIN"
        PROVE  request.state = "BEGIN" /\ ~HasFailed(parser, request)
    BY <1>3, <2>3 DEF Told
  <2>4. ASSUME request.state = "BEGIN"
        PROVE  k = FALSE
    <3>1. request.flags = 0
      BY <2>4 DEF HandlerInv, IsRequest
    <3>2. ~(request.flags % 2 = 1)
      BY <3>1
    <3> QED
      BY <1>3, <3>2 DEF KeepsConn
  <2> QED
    BY <2>1, <2>2, <2>3, <2>4
<1>6. CASE s = "BEGIN"
  <2>1. SlotOf(parser, request) = slot
    BY <1>2, <1>4, <1>5, <1>6
  <2> QED
    BY <1>2, <1>3, <1>5, <1>6, <2>1 DEF Worker!AfterReading, Worker!MustClose, MustClose
<1>7. CASE s # "BEGIN"
  <2>1. start < received
    <3>1. CASE received = start
      <4>1. s = "BEGIN"
        BY <1>3, <3>1 DEF HandlerInv, InHandler, Told, HasFailed, ParserInit, RequestInit
      <4> QED
        BY <1>7, <4>1
    <3> QED
      BY <1>1, <3>1
  <2>2. SlotOf(parser, request) = Worker!Progressed(slot, s, k)
    <3>1. PICK t : t = [slot EXCEPT !.state = s, !.keep_conn = k]
      OBVIOUS
    <3>2. t = [socket_fd |-> "fd", address |-> "peer", is_busy |-> TRUE, state |-> s,
               keep_conn |-> k]
      BY <1>2, <3>1
    <3> QED
      BY <1>4, <3>1, <3>2 DEF Worker!Progressed
  <2>3. SlotOf(parser, request) \in Worker!AfterReading(slot, "fd")
    BY <1>5, <1>7, <2>1, <2>2 DEF Worker!AfterReading, Worker!RequestStates, InHandler
  <2>4. Worker!MustClose(SlotOf(parser, request)) <=> MustClose
    BY <1>3, <1>4, <1>7 DEF Worker!MustClose, MustClose, Told
  <2> QED
    BY <2>3, <2>4
<1> QED
  BY <1>6, <1>7

\* The worker finds the slot and is in the handler.
LEMMA InItsHandler ==
  ASSUME pc = "deciding", pc' \in {"idle", "closed"}
  PROVE  /\ 0 \in Worker!Slots /\ Worker!FindsConnection(0, "fd")
         /\ Worker!TakeEvent("fd")
<1>1. slot.socket_fd = "fd"
  BY DEF slot, SlotOf
<1>2. Worker!Slots = {0}
  BY DEF Worker!Slots
<1>3. Worker!FindsConnection(0, "fd")
  BY <1>1, <1>2 DEF Worker!FindsConnection
<1>4. Worker!TakeEvent("fd")
  BY DEF Worker!TakeEvent, InHandler
<1> QED
  BY <1>2, <1>3, <1>4

\* The connection is closed.
LEMMA CloseIsHandled ==
  ASSUME Inv, HandlerInv, Close
  PROVE  Worker!HandleClient("fd")
<1>1. /\ pc = "deciding" /\ pc' = "closed" /\ MustClose
      /\ parser' = parser /\ request' = request /\ hungup' = hungup
      /\ start' = start /\ received' = received
  BY DEF Close, peerVars
<1>2. PICK conn : conn = SlotOf(parser, request)
  OBVIOUS
<1>3. conn \in Worker!AfterReading(slot, "fd") /\ Worker!MustClose(conn)
  BY <1>1, <1>2, LeftIsExpected
<1>4. slot' = [conn EXCEPT !.is_busy = FALSE]
  <2>0. PICK s, k : s = Told(parser, request) /\ k = KeepsConn(request)
    OBVIOUS
  <2>1. slot' = [socket_fd |-> "fd", address |-> "peer", is_busy |-> FALSE,
                 state |-> s, keep_conn |-> k]
    BY <1>1, <2>0 DEF slot, SlotOf
  <2>2. conn = [socket_fd |-> "fd", address |-> "peer", is_busy |-> TRUE,
                state |-> s, keep_conn |-> k]
    BY <1>1, <1>2, <2>0 DEF SlotOf
  <2>3. PICK t : t = [conn EXCEPT !.is_busy = FALSE]
    OBVIOUS
  <2>4. t = [socket_fd |-> "fd", address |-> "peer", is_busy |-> FALSE,
             state |-> s, keep_conn |-> k]
    BY <2>2, <2>3
  <2> QED
    BY <2>1, <2>3, <2>4
<1>5. /\ 0 \in Worker!Slots /\ Worker!FindsConnection(0, "fd")
      /\ Worker!TakeEvent("fd")
  BY <1>1, InItsHandler
<1>6. Worker!Close("fd")
  BY <1>1 DEF Worker!Close, InHandler
<1>7. Worker!ConnectionClosed("fd")
  BY <1>3, <1>4, <1>5, <1>6 DEF Worker!ConnectionClosed
<1> QED
  BY <1>1, <1>5, <1>7 DEF Worker!HandleClient, InHandler

\* The connection is kept.
LEMMA ReuseIsHandled ==
  ASSUME Inv, HandlerInv, Reuse
  PROVE  Worker!HandleClient("fd")
<1>1. /\ pc = "deciding" /\ pc' = "idle" /\ ~MustClose
      /\ parser' = ParserInit /\ request' = RequestInit /\ hungup' = hungup
      /\ start' = start /\ received' = received
  BY DEF Reuse, peerVars
<1>2. PICK conn : conn = SlotOf(parser, request)
  OBVIOUS
<1>3. conn \in Worker!AfterReading(slot, "fd") /\ ~Worker!MustClose(conn)
  BY <1>1, <1>2, LeftIsExpected
<1>4. slot' = Worker!Initialised(conn.socket_fd, conn.address)
  BY <1>1, <1>2, NewSlot
     DEF slot, SlotOf, Worker!Initialised
<1>5. /\ 0 \in Worker!Slots /\ Worker!FindsConnection(0, "fd")
      /\ Worker!TakeEvent("fd")
  BY <1>1, InItsHandler
<1>6. Worker!ConnectionReused("fd")
  BY <1>1, <1>3, <1>4, <1>5 DEF Worker!ConnectionReused, InHandler
<1> QED
  BY <1>1, <1>5, <1>6 DEF Worker!HandleClient, InHandler

\* However the octets of a request are cut and whatever the peer does meanwhile,
\* a handler ends as one step HandleClient of EventLoop, and nothing but its end
\* changes the slot.
THEOREM HandlerRefinement == Spec => HandlesAsEventLoop
<1>1. Inv /\ HandlerInv /\ [Next]_vars
        => [IF pc = "deciding" /\ pc' # pc THEN Worker!HandleClient("fd")
            ELSE UNCHANGED slot]_vars
  <2> SUFFICES ASSUME Inv, HandlerInv, Next
               PROVE  IF pc = "deciding" /\ pc' # pc THEN Worker!HandleClient("fd")
                      ELSE UNCHANGED slot
    OBVIOUS
  <2>1. CASE Close
    BY <2>1, CloseIsHandled DEF Close
  <2>2. CASE Reuse
    BY <2>2, ReuseIsHandled DEF Reuse
  <2>3. CASE Event
    <3>1. pc = "idle" /\ pc' = "reading"
      BY <2>3 DEF Event
    <3>2. parser = ParserInit /\ request = RequestInit
      BY <3>1 DEF Inv, ServerInv
    <3>3. slot' = slot
      BY <3>1, <3>2 DEF slot, SlotOf
    <3> QED
      BY <3>1, <3>3
  <2>4. CASE Receive \/ ReceiveNothing
    <3>1. pc = "reading" /\ pc' \in {"reading", "deciding", "crashed"}
      BY <2>4 DEF Receive, ReceiveNothing
    <3>2. slot' = slot
      BY <3>1 DEF slot, SlotOf
    <3> QED
      BY <3>1, <3>2
  <2>5. CASE Send \/ HangUp
    <3>1. pc' = pc /\ parser' = parser /\ request' = request
      BY <2>5 DEF Send, HangUp
    <3>2. slot' = slot
      BY <3>1 DEF slot, SlotOf
    <3> QED
      BY <3>1, <3>2
  <2> QED
    BY <2>1, <2>2, <2>3, <2>4, <2>5 DEF Next, Server
<1> QED
  BY <1>1, HandlerHolds, PTL DEF Spec, HandlesAsEventLoop

=============================================================================
