-------------------------------- MODULE Itoa --------------------------------
(***************************************************************************)
(* sl_string_itoa and sl_log_itoa: the digits are stored from the end of   *)
(* the buffer and then moved to its start, over themselves.  Zero has no   *)
(* digits at all.                                                          *)
(*                                                                         *)
(* The callers give room for every value of the type: 20 octets for 64     *)
(* bits, 11 for 32 and 6 for a port, so the counter length, which wraps    *)
(* when it is tested at zero, is never tested there.                       *)
(***************************************************************************)
EXTENDS Integers, Sequences, SequencesExt

Unset == -1   \* an octet nothing was stored in yet

UpTo(n) == [k \in 1 .. n |-> k - 1]   \* 0, 1, ... n - 1

\* One turn of while (value > 0 && length-- > 0).
Divide(s) ==
  IF s.value = 0 \/ s.length = 0
  THEN s
  ELSE [value |-> s.value \div 10,
        length |-> s.length - 1,
        value_length |-> s.value_length + 1,
        buffer |-> [s.buffer EXCEPT ![s.length - 1] = s.value % 10]]

Divided(value, length) ==
  FoldLeft(LAMBDA s, turn : Divide(s),
           [value |-> value, length |-> length, value_length |-> 0,
            buffer |-> [k \in 0 .. length - 1 |-> Unset]],
           UpTo(length))

\* for (size_t n = 0; n < value_length; n ++)
Moved(s) ==
  FoldLeft(LAMBDA buffer, n : [buffer EXCEPT ![n] = buffer[n + s.length]],
           s.buffer, UpTo(s.value_length))

\* The value_length octets the callers take; sl_log_itoa stores a zero octet
\* behind them.
Itoa(value, length) ==
  LET s == Divided(value, length) IN
  [k \in 1 .. s.value_length |-> Moved(s)[k - 1]]

=============================================================================
