------------------------------ MODULE FcgiParser ------------------------------
(***************************************************************************)
(* The FastCGI message parser of sl_fcgi.c: what sl_fcgi_parser_parse does *)
(* with one octet, as an operator on the struct sl_fcgi_parser.  The       *)
(* parser keeps all it knows in that struct, so a message may be cut       *)
(* anywhere between two calls.                                             *)
(*                                                                         *)
(* A message with content is only finished by the octet AFTER it, which is *)
(* then not counted as parsed: the caller presents it again to a parser    *)
(* made anew.  IsCounted says which octets are counted.                    *)
(*                                                                         *)
(* The buffers the parser fills are functions from the positions it        *)
(* allocated to octets.  The arena is not modelled here; ok says whether   *)
(* the allocations made on this octet succeed.                             *)
(*                                                                         *)
(* An operator named X_Variant is X with a plausible mistake, for mutation *)
(* of the checked properties.                                              *)
(***************************************************************************)
EXTENDS Naturals, Sequences

CONSTANTS
  SizeMax,  \* the largest size_t
  Null,     \* the null pointer
  Unset     \* an octet of arena memory nobody has written yet

BeginRequest == 1   \* SL_FCGI_TYPE_BEGIN_REQUEST
Params == 4         \* SL_FCGI_TYPE_PARAMS
Stdin == 5          \* SL_FCGI_TYPE_STDIN

Octet == 0 .. 255

ASSUME ParserAssumption ==
  SizeMax \in Nat /\ Unset \notin Octet /\ Null \notin Seq(Octet \cup {Unset})

HeaderStates ==
  {"VERSION", "TYPE", "REQUEST_ID_B1", "REQUEST_ID_B0", "CONTENT_LENGTH_B1",
   "CONTENT_LENGTH_B0", "PADDING_LENGTH", "PADDING_RESERVED"}
BeginStates ==
  {"BEGIN_ROLE_B1", "BEGIN_ROLE_B0", "BEGIN_FLAGS", "BEGIN_SKIP5",
   "BEGIN_SKIP4", "BEGIN_SKIP3", "BEGIN_SKIP2", "BEGIN_SKIP1"}
LengthStates ==
  {"NAME_LENGTH_B3", "NAME_LENGTH_B2", "NAME_LENGTH_B1", "NAME_LENGTH_B0",
   "VALUE_LENGTH_B3", "VALUE_LENGTH_B2", "VALUE_LENGTH_B1", "VALUE_LENGTH_B0"}
DataStates == {"NAME_DATA", "VALUE_DATA", "PARAM_PADDING",
               "STDIN_DATA", "STDIN_PADDING"}
FinalStates == {"FINISHED", "ERROR"}

\* sl_fcgi_parser_init.  The list from first_param to last_param is a
\* sequence.
ParserInit ==
  [state |-> "VERSION", read_counter |-> 0, message_size |-> 0,
   type |-> 0, request_id |-> 0, content_length |-> 0, padding_length |-> 0,
   role |-> 0, flags |-> 0,
   params |-> <<>>, stdin |-> Null]

\* A buffer of so many octets, as the arena returns it.
Buffer(length) == [n \in 1 .. length |-> Unset]

\* A size_t counter that is decremented.
Decremented(n) == IF n = 0 THEN SizeMax ELSE n - 1

Goto(p, s) == [p EXCEPT !.state = s]

LastParam(p) == p.params[Len(p.params)]

\* Assign to the parameter being parsed.
SetLast(p, field, x) ==
  [p EXCEPT !.params[Len(p.params)] = [@ EXCEPT ![field] = x]]

\* Variant: the buffer is filled from its end.
StoreLast_FromEnd(p, field, octet) ==
  [SetLast(p, field, [LastParam(p)[field] EXCEPT ![p.read_counter] = octet])
     EXCEPT !.read_counter = p.read_counter - 1]

\* Store an octet read_counter before the end of the buffer in this field of
\* the parameter.
StoreLast(p, field, octet) ==
  LET buffer == LastParam(p)[field] IN
  [SetLast(p, field,
           [buffer EXCEPT ![Len(buffer) - p.read_counter + 1] = octet])
     EXCEPT !.read_counter = p.read_counter - 1]

-----------------------------------------------------------------------------
(***************************************************************************)
(* The header and the body of BEGIN_REQUEST: one state per octet.          *)
(***************************************************************************)

\* sl_fcgi_parser_dispatch_type
DispatchType(type) ==
  CASE type = BeginRequest -> "BEGIN_ROLE_B1"
    [] type = Params -> "NAME_LENGTH_B3"
    [] type = Stdin -> "STDIN_DATA"
    [] OTHER -> "ERROR"

\* Variant: a message without content is not special.
AfterHeader_AlwaysBody(p) == DispatchType(p.type)

\* The state after the header: a message without content ends with it.
AfterHeader(p) ==
  IF p.content_length = 0 THEN "FINISHED" ELSE DispatchType(p.type)

ParseHeader(p, octet) ==
  CASE p.state = "VERSION" -> Goto(p, "TYPE")
    [] p.state = "TYPE" -> [Goto(p, "REQUEST_ID_B1") EXCEPT !.type = octet]
    [] p.state = "REQUEST_ID_B1" ->
         [Goto(p, "REQUEST_ID_B0") EXCEPT !.request_id = octet * 256]
    [] p.state = "REQUEST_ID_B0" ->
         [Goto(p, "CONTENT_LENGTH_B1") EXCEPT !.request_id = @ + octet]
    [] p.state = "CONTENT_LENGTH_B1" ->
         [Goto(p, "CONTENT_LENGTH_B0") EXCEPT !.content_length = octet * 256]
    [] p.state = "CONTENT_LENGTH_B0" ->
         [Goto(p, "PADDING_LENGTH") EXCEPT !.content_length = @ + octet]
    [] p.state = "PADDING_LENGTH" ->
         [Goto(p, "PADDING_RESERVED") EXCEPT !.padding_length = octet]
    [] p.state = "PADDING_RESERVED" -> Goto(p, AfterHeader(p))

\* sl_fcgi_parser_parse_begin_request; neither content_length nor
\* padding_length is looked at.
ParseBeginRequest(p, octet) ==
  CASE p.state = "BEGIN_ROLE_B1" ->
         [Goto(p, "BEGIN_ROLE_B0") EXCEPT !.role = octet * 256]
    [] p.state = "BEGIN_ROLE_B0" ->
         [Goto(p, "BEGIN_FLAGS") EXCEPT !.role = @ + octet]
    [] p.state = "BEGIN_FLAGS" ->
         [Goto(p, "BEGIN_SKIP5") EXCEPT !.flags = octet]
    [] p.state = "BEGIN_SKIP5" -> Goto(p, "BEGIN_SKIP4")
    [] p.state = "BEGIN_SKIP4" -> Goto(p, "BEGIN_SKIP3")
    [] p.state = "BEGIN_SKIP3" -> Goto(p, "BEGIN_SKIP2")
    [] p.state = "BEGIN_SKIP2" -> Goto(p, "BEGIN_SKIP1")
    [] p.state = "BEGIN_SKIP1" -> [Goto(p, "FINISHED") EXCEPT !.message_size = 16]

-----------------------------------------------------------------------------
(***************************************************************************)
(* sl_fcgi_parser_parse_params: pairs of a name and a value, each with a   *)
(* length of one octet or, when its top bit is set, of four.               *)
(***************************************************************************)

ParsePadding(p) ==
  [p EXCEPT !.state = IF p.read_counter = 0 THEN "FINISHED" ELSE @,
            !.read_counter = Decremented(@)]

\* Variant: a length of four octets is counted as one.
NewParam_CountsOne(p, octet, ok) ==
  LET long == octet >= 128
      param == [name_length |-> IF long THEN (octet % 128) * 16777216 ELSE octet,
                value_length |-> 0, name |-> Null, value |-> Null]
  IN  IF ~ok
      THEN Goto(p, "ERROR")
      ELSE [p EXCEPT
              !.params = Append(@, param),
              !.message_size = (IF p.params = <<>> THEN 0 ELSE @) + 1,
              !.state = IF long THEN "NAME_LENGTH_B2" ELSE "VALUE_LENGTH_B3"]

\* A new parameter.  message_size counts all the octets of a length at once.
NewParam(p, octet, ok) ==
  LET long == octet >= 128
      param == [name_length |-> IF long THEN (octet % 128) * 16777216 ELSE octet,
                value_length |-> 0, name |-> Null, value |-> Null]
  IN  IF ~ok
      THEN Goto(p, "ERROR")
      ELSE [p EXCEPT
              !.params = Append(@, param),
              !.message_size = (IF p.params = <<>> THEN 0 ELSE @)
                               + (IF long THEN 4 ELSE 1),
              !.state = IF long THEN "NAME_LENGTH_B2" ELSE "VALUE_LENGTH_B3"]

\* The further octets of a length and the first one of the value's.
ParseLength(p, octet) ==
  LET name_length == LastParam(p).name_length
      value_length == LastParam(p).value_length
      Name(s, n) == Goto(SetLast(p, "name_length", name_length + n), s)
      Value(s, n) == Goto(SetLast(p, "value_length", value_length + n), s)
  IN  CASE p.state = "NAME_LENGTH_B2" -> Name("NAME_LENGTH_B1", octet * 65536)
        [] p.state = "NAME_LENGTH_B1" -> Name("NAME_LENGTH_B0", octet * 256)
        [] p.state = "NAME_LENGTH_B0" -> Name("VALUE_LENGTH_B3", octet)
        [] p.state = "VALUE_LENGTH_B3" ->
             IF octet >= 128
             THEN [Value("VALUE_LENGTH_B2", (octet % 128) * 16777216)
                     EXCEPT !.message_size = @ + 4]
             ELSE [Value("NAME_DATA", octet) EXCEPT !.message_size = @ + 1]
        [] p.state = "VALUE_LENGTH_B2" -> Value("VALUE_LENGTH_B1", octet * 65536)
        [] p.state = "VALUE_LENGTH_B1" -> Value("VALUE_LENGTH_B0", octet * 256)
        [] p.state = "VALUE_LENGTH_B0" -> Value("NAME_DATA", octet)

\* Allocate the buffer of a field on the first octet that comes for it.
Allocated(p, field, length) ==
  IF LastParam(p)[field] # Null
  THEN p
  ELSE [SetLast(p, field, Buffer(length))
          EXCEPT !.read_counter = length, !.message_size = @ + length]

\* After the value: the end of the message, its padding or the next pair.
EndOfPair(p, octet, ok) ==
  IF p.message_size # p.content_length
  THEN NewParam(p, octet, ok)
  ELSE IF p.padding_length = 0
       THEN Goto(p, "FINISHED")
       ELSE ParsePadding([Goto(p, "PARAM_PADDING")
                            EXCEPT !.read_counter = p.padding_length])

ValueData(p, octet, ok) ==
  LET q == Allocated(p, "value", LastParam(p).value_length) IN
  IF LastParam(p).value = Null /\ ~ok THEN Goto(p, "ERROR")
  ELSE IF q.read_counter = 0 THEN EndOfPair(q, octet, ok)
  ELSE StoreLast(q, "value", octet)

NameData(p, octet, ok) ==
  LET q == Allocated(p, "name", LastParam(p).name_length) IN
  IF LastParam(p).name = Null /\ ~ok THEN Goto(p, "ERROR")
  ELSE IF q.read_counter = 0 THEN ValueData(Goto(q, "VALUE_DATA"), octet, ok)
  ELSE StoreLast(q, "name", octet)

ParseParams(p, octet, ok) ==
  CASE p.state = "NAME_LENGTH_B3" -> NewParam(p, octet, ok)
    [] p.state \in LengthStates \ {"NAME_LENGTH_B3"} -> ParseLength(p, octet)
    [] p.state = "NAME_DATA" -> NameData(p, octet, ok)
    [] p.state = "VALUE_DATA" -> ValueData(p, octet, ok)
    [] p.state = "PARAM_PADDING" -> ParsePadding(p)

-----------------------------------------------------------------------------
(***************************************************************************)
(* sl_fcgi_parser_parse_stdin.  Without padding the state is set to        *)
(* FINISHED, and the loop then runs once more and finds no case for it.    *)
(***************************************************************************)

ParseStdin(p, octet, ok) ==
  LET fresh == p.stdin = Null
      buffer == IF fresh THEN Buffer(p.content_length) ELSE p.stdin
      counter == IF fresh THEN p.content_length ELSE p.read_counter
      q == [p EXCEPT !.stdin = buffer, !.read_counter = counter,
                     !.message_size = @ + IF fresh THEN p.content_length ELSE 0]
  IN  CASE p.state = "STDIN_PADDING" -> ParsePadding(p)
        [] p.state = "STDIN_DATA" /\ fresh /\ ~ok -> Goto(p, "ERROR")
        [] p.state = "STDIN_DATA" /\ (ok \/ ~fresh) ->
             IF counter > 0
             THEN [q EXCEPT !.stdin[Len(buffer) - counter + 1] = octet,
                            !.read_counter = counter - 1]
             ELSE IF p.padding_length = 0
                  THEN Goto(q, "ERROR")
                  ELSE ParsePadding([Goto(q, "STDIN_PADDING")
                                       EXCEPT !.read_counter = p.padding_length])

-----------------------------------------------------------------------------
(***************************************************************************)
(* sl_fcgi_parser_parse: one turn of its loop.                             *)
(***************************************************************************)

ParseOctet(p, octet, ok) ==
  CASE p.state \in HeaderStates -> ParseHeader(p, octet)
    [] p.state \in BeginStates -> ParseBeginRequest(p, octet)
    [] p.state \in LengthStates \cup {"NAME_DATA", "VALUE_DATA", "PARAM_PADDING"} ->
         ParseParams(p, octet, ok)
    [] p.state \in {"STDIN_DATA", "STDIN_PADDING"} -> ParseStdin(p, octet, ok)
    [] p.state \in FinalStates -> p

\* Variant: the octet that ends a message is counted.
IsCounted_Always(p, octet, ok) == TRUE

\* Is total_parsed incremented for the octet?
IsCounted(p, octet, ok) ==
  \/ p.state \in HeaderStates \cup BeginStates
  \/ ParseOctet(p, octet, ok).state \notin FinalStates

=============================================================================
