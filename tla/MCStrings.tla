------------------------------ MODULE MCStrings ------------------------------
(***************************************************************************)
(* Strings with the formats of the program, and the log they are written   *)
(* for.  A literal octet is its place in the format, the octets of an      *)
(* argument are above all of these.                                        *)
(*                                                                         *)
(* A format is safe for some arguments and not for others.  The program    *)
(* sends one header, whose name and value have 12 and 10 octets; with      *)
(* names of 15 or 16 octets, or a value of 2, its format would store an    *)
(* octet too many.  The text of the body comes last in its format and may  *)
(* have any length: 20 octets fill the buffer, 21 make it grow.            *)
(*                                                                         *)
(* Numbers are those around every change of the number of digits, up to    *)
(* what an integer of TLC holds.  Lines of the log have room for 24 octets *)
(* and end inside every part, the newline included; the parts of a line    *)
(* have octets of their own.                                               *)
(***************************************************************************)
EXTENDS Log

CONSTANTS Name, Value, Text   \* the arguments

LOCAL Literals(from, to) == [n \in 1 .. to - from + 1 |-> from + n - 1]

MCOctets(n) == [k \in 1 .. n |-> 100 + k]

MCOctetsOf(lengths) == {MCOctets(n) : n \in lengths}

MCBuffers == MCOctetsOf({0, 10, 12, 20})

\* "%S: %S\r\n" of the headers.
HeaderFormat == <<Name>> \o Literals(3, 4) \o <<Value>> \o Literals(7, 8)

\* "FCGI stdin: %S"
StdinFormat == Literals(1, 12) \o <<Text>>

\* "Received %z bytes", "Parsed %z bytes" and "Sent %z bytes response"
ReceivedFormat == Literals(1, 9) \o <<Number>> \o Literals(12, 17)
ParsedFormat == Literals(1, 7) \o <<Number>> \o Literals(10, 15)
SentFormat == Literals(1, 5) \o <<Number>> \o Literals(8, 22)

ProgramFormats ==
  {HeaderFormat, StdinFormat, ReceivedFormat, ParsedFormat, SentFormat}

\* "Content-Type", "text/plain", and what a peer may send as a body.
ProgramArguments ==
  (Name :> MCOctetsOf({12})) @@ (Value :> MCOctetsOf({10}))
    @@ (Text :> MCOctetsOf({0, 19, 20, 21, 60}))

\* "FCGI parameter: %S=%S", of what a peer may send.
ParameterFormats == {Literals(1, 16) \o <<Name, 19, Value>>}

ParameterArguments ==
  (Name :> MCOctetsOf({1, 47, 48})) @@ (Value :> MCOctetsOf({1, 47, 48}))

-----------------------------------------------------------------------------

MCNumbers ==
  UNION {{10 ^ k - 1, 10 ^ k, 10 ^ k + 1, 3 * 10 ^ k + 12} : k \in 0 .. 8}
    \cup {1234567890, 2147483647}

MCDate == <<501, 502>>
MCLevelText == <<511>>
MCReason == <<521, 522>>

MCLogs ==
  LET new == LogInit(1) IN
  {new, SetPid(new, 12345), SetPid(new, 7),
   SetPeer(new, <<531, 532, 533>>, 65535), SetPeer(new, <<531>>, 9),
   SetPeer(SetPid(new, 7), <<531>>, 80), SetPeer(new, <<531>>, 0)}

=============================================================================
