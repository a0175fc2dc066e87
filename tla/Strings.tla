------------------------------- MODULE Strings -------------------------------
(***************************************************************************)
(* The life of one string of sl_string.c.  A string starts zeroed (the     *)
(* body of a request, the output of a response), as a view of memory it    *)
(* does not own, as a copy, or as the result of a format; it grows by      *)
(* appending, into a new buffer of the arena when the old one is too       *)
(* small.  The arena takes nothing back, so an old buffer is lost.         *)
(*                                                                         *)
(* The literal octets of a format are stored without a look at the size of *)
(* the buffer, so whether they fit depends on what the arguments are: the  *)
(* instance says what each one is given.  An octet stored past its end is there for others to        *)
(* overwrite: growing finds any octet in its place.                        *)
(*                                                                         *)
(* The zeros behind the content are never read and are left out.  A digit  *)
(* is its value.                                                           *)
(*                                                                         *)
(* An operator named X_Variant is X with a plausible mistake.              *)
(***************************************************************************)
EXTENDS Itoa, Pow2, FiniteSets

CONSTANTS
  Formats,    \* sequences of literal octets, names of arguments and Number
  Buffers,    \* the octets that are copied or appended
  Arguments,  \* what each %s or %S, by its name, may be given
  Number,     \* %z
  Numbers,    \* the numbers given, below 10 ^ 10
  Null,       \* no string
  AnyOctet,   \* what others have stored
  MaxLength   \* bound on the content

VARIABLES
  string,    \* [allocated, content], or Null when a call has returned NULL
  todo,      \* the rest of the format that is being worked off; Null for a
             \* string that is not the result of one
  wanted     \* history: the octets given so far, in order

vars == <<string, todo, wanted>>

Length(s) == Len(s.content)

Zeroed == [allocated |-> 0, content |-> <<>>]

\* sl_string_create_with_buffer, sl_string_init_with_buffer
View(buffer) == [allocated |-> Len(buffer), content |-> buffer]

\* sl_string_create_from_buffer
Copy(buffer, preallocate) ==
  [allocated |-> Pow2Size(IF Len(buffer) <= preallocate THEN preallocate
                          ELSE 2 * Len(buffer)),
   content |-> buffer]

IsArgument(item) == item \in DOMAIN Arguments

\* A directive takes two octets of the format.
FormatLength(format) ==
  Len(format) + Len(SelectSeq(format, LAMBDA item : IsArgument(item) \/ item = Number))

\* Variant: room for the format itself and not for twice as much.
FormatBuffer_Tight(format) == Copy(<<>>, FormatLength(format))

\* sl_string_format_buffer starts with an empty copy.
FormatBuffer(format) == Copy(<<>>, 2 * FormatLength(format))

Fits(s, n) == Length(s) + n <= s.allocated

GrownSize(s, n) == Pow2Size(2 * (Length(s) + n))

\* What memcpy() finds of the content: past the end of the buffer anything.
Found(s) ==
  IF Length(s) <= s.allocated
  THEN {s.content}
  ELSE {s.content,
        SubSeq(s.content, 1, s.allocated)
          \o [n \in 1 .. Length(s) - s.allocated |-> AnyOctet]}

\* Reference: the digits of a number, none for zero, by their weights.
Decimal(number) ==
  LET places == {k \in 0 .. 9 : 10 ^ k <= number}
      length == Cardinality(places)
  IN  [k \in 1 .. length |-> (number \div 10 ^ (length - k)) % 10]

-----------------------------------------------------------------------------

Init ==
  \/ string = Zeroed /\ todo = Null /\ wanted = <<>>
  \/ \E buffer \in Buffers :
       /\ \/ string = View(buffer)
          \/ \E n \in {0, Len(buffer)} : string = Copy(buffer, n)
       /\ todo = Null /\ wanted = buffer
  \/ \E format \in Formats :
       string = FormatBuffer(format) /\ todo = format /\ wanted = <<>>

\* sl_string_append_with_buffer, when there is room
AppendInPlace(buffer) ==
  /\ Fits(string, Len(buffer))
  /\ string' = [string EXCEPT !.content = @ \o buffer]

\* Variant: the octets that were there are not copied.
AppendAndGrow_Empty(buffer) ==
  /\ ~Fits(string, Len(buffer))
  /\ string' = [allocated |-> GrownSize(string, Len(buffer)), content |-> buffer]

\* and when there is none.
AppendAndGrow(buffer) ==
  /\ ~Fits(string, Len(buffer))
  /\ \E content \in Found(string) :
       string' = [allocated |-> GrownSize(string, Len(buffer)),
                  content |-> content \o buffer]

\* The new buffer cannot be allocated: -1, and a format gives up.
AppendFails(buffer) ==
  /\ ~Fits(string, Len(buffer))
  /\ string' = IF todo = Null THEN string ELSE Null

\* The octets stored, and those meant, which are others where buffer is the
\* result of a conversion.
AppendBuffer(buffer, meant) ==
  \/ (AppendInPlace(buffer) \/ AppendAndGrow(buffer)) /\ wanted' = wanted \o meant
  \/ AppendFails(buffer) /\ UNCHANGED wanted

\* The program appends to a string that is not the result of a format.
ProgramAppends(buffer) ==
  /\ todo = Null
  /\ Length(string) + Len(buffer) <= MaxLength
  /\ AppendBuffer(buffer, buffer)
  /\ UNCHANGED todo

IsFormat == todo # Null /\ todo # <<>>

\* A literal octet of the format: no test of allocated.
FormatLiteral ==
  /\ IsFormat /\ ~IsArgument(Head(todo)) /\ Head(todo) # Number
  /\ string' = [string EXCEPT !.content = Append(@, Head(todo))]
  /\ wanted' = Append(wanted, Head(todo))
  /\ todo' = Tail(todo)

FormatArgument ==
  /\ IsFormat /\ IsArgument(Head(todo))
  /\ \E buffer \in Arguments[Head(todo)] : AppendBuffer(buffer, buffer)
  /\ todo' = IF string' = Null THEN <<>> ELSE Tail(todo)

\* The digits of the number, from an array of 20 octets.
FormatNumber(number) ==
  /\ IsFormat /\ Head(todo) = Number
  /\ AppendBuffer(Itoa(number, 20), Decimal(number))
  /\ todo' = IF string' = Null THEN <<>> ELSE Tail(todo)

\* A NULL pointer is left out.
FormatNull ==
  /\ IsFormat /\ IsArgument(Head(todo))
  /\ todo' = Tail(todo)
  /\ UNCHANGED <<string, wanted>>

Next ==
  \/ \E buffer \in Buffers : ProgramAppends(buffer)
  \/ \E number \in Numbers : FormatNumber(number)
  \/ FormatLiteral \/ FormatArgument \/ FormatNull

Spec == Init /\ [][Next]_vars

-----------------------------------------------------------------------------

\* No octet is stored behind the end of the buffer, which for a view is memory
\* of others: not by appending, and not by the literal octets of a format,
\* which are stored whatever room the arguments before them have left.  For
\* some arguments they are.
StaysInBuffer == string # Null => Length(string) <= string.allocated

\* The string is what was put into it, in that order, whatever buffers it went
\* through and whichever appends failed; a number in it is its decimal digits.
ContentIsWanted == string # Null => string.content = wanted

=============================================================================
