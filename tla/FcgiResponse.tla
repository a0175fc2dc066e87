---------------------------- MODULE FcgiResponse ----------------------------
(***************************************************************************)
(* The response of sl_fcgi.c and its way to the peer: headers and output   *)
(* are collected, put together, and given to one writev() as the content   *)
(* of a STDOUT message, with an empty STDOUT message and END_REQUEST       *)
(* behind it.  The length of the content is passed as a uint16_t.          *)
(*                                                                         *)
(* The headers are a function from names to values, as sl_hashtable_set    *)
(* makes it (HashTable), and are written in any order.  A call that fails  *)
(* for want of memory gives up the response; that writev() may write less  *)
(* than it was given is not noticed.                                       *)
(*                                                                         *)
(* An operator named X_Variant is X with a plausible mistake.              *)
(***************************************************************************)
EXTENDS FcgiPeer, FiniteSetsExt

CONSTANTS
  RequestIds,
  Names, HeaderValues,  \* texts, as sequences of octets
  Outputs,              \* the texts appended to stdout
  MaxOutput             \* bound on the length of stdout

Octet == 0 .. 255

\* Ids have two octets as they come from a request, and so has a length field.
FitInFields ==
  /\ \A id \in RequestIds : id \in Nat /\ id < 65536
  /\ LengthLimit \in Nat \ {0} /\ LengthLimit <= 65536
  /\ \A text \in Names \cup HeaderValues \cup Outputs : text \in Seq(Octet)

ASSUME ResponseAssumption == FitInFields

VARIABLES
  pc,          \* "building", "processed", "sent" or "failed"
  stdout

vars == <<pc, request_id, headers, stdout, raw, wire, whole>>

\* Variant: the length is passed as an int16_t.
Cut_Signed(text) == SubSeq(text, 1, Len(text) % (LengthLimit \div 2))

\* The content the length stands for.
Cut(text) == SubSeq(text, 1, Len(text) % LengthLimit)

Record(type, length) ==
  EncodeHeader([type |-> type, id |-> request_id, padding |-> 0], length)

\* Variant: the length is cut where the header is filled in only.
Message_Uncut(text) ==
  Record(Stdout, Len(Cut(text))) \o text
    \o Record(Stdout, 0)
    \o Record(EndRequest, 8) \o [n \in 1 .. 8 |-> 0]

\* The five buffers of sl_main_request_send_response.
Message(text) ==
  Record(Stdout, Len(Cut(text))) \o Cut(text)
    \o Record(Stdout, 0)
    \o Record(EndRequest, 8) \o [n \in 1 .. 8 |-> 0]

-----------------------------------------------------------------------------

\* sl_fcgi_response_init
Init ==
  /\ pc = "building"
  /\ request_id \in RequestIds
  /\ headers = <<>> /\ stdout = <<>>
  /\ raw = <<>> /\ wire = <<>>
  /\ whole = FALSE

\* sl_fcgi_response_append_header
AppendHeader(name, value) ==
  /\ pc = "building"
  /\ headers' = [h \in DOMAIN headers \cup {name} |->
                   IF h = name THEN value ELSE headers[h]]
  /\ UNCHANGED <<pc, request_id, stdout, raw, wire, whole>>

\* sl_fcgi_response_append_output
AppendOutput(output) ==
  /\ pc = "building"
  /\ Len(stdout) + Len(output) <= MaxOutput
  /\ stdout' = stdout \o output
  /\ UNCHANGED <<pc, request_id, headers, raw, wire, whole>>

\* sl_fcgi_response_process
Process ==
  /\ pc = "building"
  /\ \E order \in SetToSeqs(DOMAIN headers) :
       raw' = FlattenSeq([n \in DOMAIN order |->
                            HeaderLine(order[n], headers[order[n]])])
                \o NewLine \o stdout
  /\ pc' = "processed"
  /\ UNCHANGED <<request_id, headers, stdout, wire, whole>>

\* An allocation fails in one of the calls above: sl_main_request_execute
\* returns -1.
Fail ==
  /\ pc = "building"
  /\ pc' = "failed"
  /\ UNCHANGED <<request_id, headers, stdout, raw, wire, whole>>

\* writev() writes the message or the start of it; either is a success.
Send ==
  /\ pc = "processed"
  /\ \E n \in 1 .. Len(Message(raw)) :
       /\ wire' = SubSeq(Message(raw), 1, n)
       /\ whole' = (n = Len(Message(raw)))
  /\ pc' = "sent"
  /\ UNCHANGED <<request_id, headers, stdout, raw>>

\* It returns -1: the peer is gone or its window is closed.
SendFails ==
  /\ pc = "processed"
  /\ pc' = "failed"
  /\ UNCHANGED <<request_id, headers, stdout, raw, wire, whole>>

Next ==
  \/ \E name \in Names, value \in HeaderValues : AppendHeader(name, value)
  \/ \E output \in Outputs : AppendOutput(output)
  \/ Process \/ Fail \/ Send \/ SendFails

Spec == Init /\ [][Next]_vars

=============================================================================
