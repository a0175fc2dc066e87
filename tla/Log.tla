--------------------------------- MODULE Log ---------------------------------
(***************************************************************************)
(* The log of sl_log.c: a line is put together from its parts in a buffer  *)
(* of MaxLine octets, each part cut to the room left, and written at once; *)
(* an error line also tells what errno says, and clears it.                *)
(*                                                                         *)
(* A text is a sequence of octets; those of the date, the levels, the      *)
(* address and the reasons are left to the instance.                       *)
(*                                                                         *)
(* An operator named X_Variant is X with a plausible mistake.              *)
(***************************************************************************)
EXTENDS Strings

CONSTANTS
  MaxLine,   \* SL_LOG_MAX_MESSAGE_LENGTH
  Date, LevelText, Reason,  \* the texts of these parts
  Logs,      \* the logs and the values of errno that are looked at
  Errnos

Levels == 0 .. 2   \* SL_LOG_DEBUG, SL_LOG_INFO, SL_LOG_ERROR

Error == 2

\* sl_log_init
LogInit(min_level) ==
  [min_level |-> min_level, pid |-> <<>>, ip_address |-> <<>>, ip_port |-> <<>>]

\* sl_log_set_pid
SetPid(log, pid) == [log EXCEPT !.pid = Itoa(pid, 11)]

\* sl_log_set_ip_address_port; port zero leaves an empty text.
SetPeer(log, address, port) ==
  [log EXCEPT !.ip_address = address, !.ip_port = Itoa(port, 6)]

-----------------------------------------------------------------------------

Least(m, n) == IF m <= n THEN m ELSE n

\* Variant: the part is compared to the whole buffer.
Appended_WholeBuffer(buffer, part) == buffer \o SubSeq(part, 1, Least(Len(part), MaxLine))

\* sl_log_append
Appended(buffer, part) ==
  buffer \o SubSeq(part, 1, Least(Len(part), MaxLine - Len(buffer)))

Shown(condition, parts) == IF condition THEN parts ELSE <<>>

Reports(level, errno) == level = Error /\ errno > 0

Octet(n) == <<1000 + n>>   \* of the punctuation

\* A log without a pid or a peer has no such parts.
Parts(log, level, message, errno) ==
  <<Date, LevelText>>
    \o Shown(log.pid # <<>>, <<Octet(1), log.pid, Octet(2)>>)
    \o Shown(log.ip_address # <<>> /\ log.ip_port # <<>>,
             <<log.ip_address, Octet(3), log.ip_port, Octet(2)>>)
    \o <<message>>
    \o Shown(Reports(level, errno), <<Octet(3) \o Octet(2), Reason>>)
    \o <<Octet(4)>>

\* sl_log_write_buffer: the lines given to write(), which may fail unnoticed,
\* and errno before that call.
WriteBuffer(log, level, message, errno) ==
  IF level < log.min_level
  THEN [lines |-> <<>>, errno |-> errno]
  ELSE [lines |-> <<FoldLeft(Appended, <<>>, Parts(log, level, message, errno))>>,
        errno |-> IF Reports(level, errno) THEN 0 ELSE errno]

\* sl_log_write_format, when the format is worked off: it is the message
\* itself when there was no memory for the string.
MessageOf(format) == IF string = Null THEN format ELSE string.content

WriteFormat(log, level, format, errno) ==
  WriteBuffer(log, level, MessageOf(format), errno)

-----------------------------------------------------------------------------

\* Whatever its parts, and whether its message could be put together or not, a
\* line is the start of its text, as long as the buffer allows: no part passes
\* its end or comes after one that was cut.
LineIsStartOfText ==
  todo = <<>> =>
    \A log \in Logs, level \in Levels, format \in Formats, errno \in Errnos :
      LET lines == WriteFormat(log, level, format, errno).lines
          text == FlattenSeq(Parts(log, level, MessageOf(format), errno))
      IN  \A k \in DOMAIN lines :
            lines[k] = SubSeq(text, 1, Least(Len(text), MaxLine))

=============================================================================
