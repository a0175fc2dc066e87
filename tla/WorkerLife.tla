------------------------------ MODULE WorkerLife ------------------------------
(***************************************************************************)
(* What a worker process is to the rest of the program: a loop that tests  *)
(* sl_main_running, waits for events, handles them, and ends when the test *)
(* fails.  Everything EventLoop says of connections is left out; EventLoop *)
(* implements this module (LivesAsWorker), and Processes is built from its *)
(* operators.                                                              *)
(***************************************************************************)

VARIABLE life  \* [pc, running, raced] of a worker, as in EventLoop

\* Variant: the loop waits before it tests the flag.
Born_Untested(running) == [pc |-> "entering", running |-> running, raced |-> FALSE]

\* A child starts with its parent's copy of sl_main_running.
Born(running) == [pc |-> "test", running |-> running, raced |-> FALSE]

HasEnded(l) == l.pc = "terminated"

Places == {"test", "entering", "waiting", "handling", "leaving", "terminated"}

At(l, pc) == [pc |-> pc, running |-> l.running, raced |-> l.raced]

\* Where the loop leads a worker; epoll_wait() returns events or fails.
StepsTo(l, pc) ==
  \/ l.pc = "test" /\ l.running /\ pc = "entering"
  \/ l.pc = "test" /\ ~l.running /\ pc = "leaving"
  \/ l.pc = "entering" /\ pc = "waiting"
  \/ l.pc = "waiting" /\ pc \in {"handling", "test"}
  \/ l.pc = "handling" /\ pc = "test"
  \/ l.pc = "leaving" /\ pc = "terminated"

\* sl_main_signal_handler; a signal that comes after the test and before
\* epoll_wait() does not interrupt the wait.
Interrupted(l) ==
  [pc |-> IF l.pc = "waiting" THEN "test" ELSE l.pc,
   running |-> FALSE,
   raced |-> (l.pc = "entering")]

Init == \E running \in BOOLEAN : life = Born(running)

Step == \E pc \in Places : StepsTo(life, pc) /\ life' = At(life, pc)

Sigint ==
  /\ life.pc \notin {"leaving", "terminated"}
  /\ life' = Interrupted(life)

Spec == Init /\ [][Step \/ Sigint]_life

=============================================================================
