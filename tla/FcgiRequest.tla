----------------------------- MODULE FcgiRequest -----------------------------
(***************************************************************************)
(* The request of sl_fcgi.c: what sl_fcgi_request_process makes of each    *)
(* finished message.  The table of parameters is a function from names to  *)
(* values here; a later value of a name replaces the earlier one.          *)
(*                                                                         *)
(* mem names the allocation that fails while the message is processed:     *)
(*   "none"    no one;                                                     *)
(*   "name"    the string made of a name: the table is given NULL as the   *)
(*             key and dereferences it;                                    *)
(*   "value"   the string made of a value: NULL is stored as the value;    *)
(*   "bucket"  the table's: sl_hashtable_set returns -1, which nobody      *)
(*             looks at;                                                   *)
(*   "stdin"   the one of the body.                                        *)
(***************************************************************************)
EXTENDS FcgiParser, SequencesExt

\* sl_fcgi_request_init.  crashed is not a field of the struct: the process
\* is gone.
RequestInit ==
  [state |-> "BEGIN", request_id |-> 0, flags |-> 0,
   parameters |-> <<>>, stdin |-> <<>>, crashed |-> FALSE]

KeepsConn(request) == request.flags % 2 = 1   \* SL_FCGI_FLAG_KEEP_CONN

-----------------------------------------------------------------------------

\* Variant: the first value of a name stays.
Stored_FirstWins(parameters, name, value) ==
  [n \in DOMAIN parameters \cup {name} |->
     IF n \in DOMAIN parameters THEN parameters[n] ELSE value]

\* sl_hashtable_set
Stored(parameters, name, value) ==
  [n \in DOMAIN parameters \cup {name} |->
     IF n = name THEN value ELSE parameters[n]]

\* sl_fcgi_request_append_param.  A name the table has already takes no
\* bucket.
AppendParam(request, parser, mem) ==
  LET Add(parameters, param) ==
        IF mem = "bucket" /\ param.name \notin DOMAIN parameters
        THEN parameters
        ELSE Stored(parameters, param.name,
                    IF mem = "value" THEN Null ELSE param.value)
  IN  IF mem = "name"
      THEN [request EXCEPT !.crashed = TRUE]
      ELSE [request EXCEPT !.parameters = FoldLeft(Add, @, parser.params)]

\* sl_fcgi_request_append_stdin
AppendStdin(request, parser, mem) ==
  IF mem = "stdin"
  THEN [request EXCEPT !.state = "ERROR"]
  ELSE [request EXCEPT !.stdin = @ \o parser.stdin]

\* Variant: the empty message of either stream ends the request.
Terminated_Either(request, parser) == "FINISHED"

\* The state after the empty message of a stream: the request is complete when
\* the other stream has ended before.
Terminated(request, parser) ==
  CASE request.state # "PARAM_OR_STDIN" -> "FINISHED"
    [] request.state = "PARAM_OR_STDIN" /\ parser.type = Params -> "STDIN"
    [] request.state = "PARAM_OR_STDIN" /\ parser.type # Params -> "PARAM"

\* sl_fcgi_request_process: BEGIN_REQUEST first, then PARAMS and STDIN in any
\* order; after the empty message of one of them only the other one, up to its
\* empty message.  Request ids are not compared.
ProcessMessage(request, parser, mem) ==
  LET Enter(s) == [request EXCEPT !.state = s]
      accepted ==
        CASE request.state = "BEGIN" -> {BeginRequest}
          [] request.state = "PARAM_OR_STDIN" -> {Params, Stdin}
          [] request.state = "PARAM" -> {Params}
          [] request.state = "STDIN" -> {Stdin}
          [] OTHER -> {}
  IN  IF parser.type \notin accepted
      THEN Enter("ERROR")
      ELSE IF request.state = "BEGIN"
      THEN [Enter("PARAM_OR_STDIN") EXCEPT !.flags = parser.flags,
                                           !.request_id = parser.request_id]
      ELSE IF parser.content_length = 0
      THEN Enter(Terminated(request, parser))
      ELSE IF parser.type = Params
      THEN AppendParam(request, parser, mem)
      ELSE AppendStdin(request, parser, mem)

=============================================================================
