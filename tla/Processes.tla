------------------------------ MODULE Processes ------------------------------
(***************************************************************************)
(* The processes of main(): a master that forks the workers and waits for  *)
(* them, and how SIGINT reaches each of them.  The terminal sends SIGINT   *)
(* to the whole process group, kill sends it to one process; either way    *)
(* every process runs the handler on its own copy of sl_main_running, when *)
(* it is scheduled.                                                        *)
(*                                                                         *)
(* Of the system calls this module assumes what Linux and glibc do:        *)
(*   - signal() installs handlers that restart wait(), but epoll_wait() is *)
(*     never restarted;                                                    *)
(*   - fork() does not proceed while its caller has a signal to deliver,   *)
(*     and the child inherits memory but no pending signal;                *)
(*   - as SIGCHLD is ignored, no child is left to be reaped and wait()     *)
(*     blocks until the last one has ended.                                *)
(*                                                                         *)
(* An operator named X_Variant is X with a plausible mistake.              *)
(***************************************************************************)
EXTENDS Naturals

CONSTANT MaxProcesses  \* SL_MAIN_MAX_PROCESSES

ASSUME ProcessesAssumption == MaxProcesses \in Nat \ {0}

Workers == 1 .. MaxProcesses

Master == 0

VARIABLES
  master,      \* where the master is in main(), as "done" or "failed" in the end
  running,     \* sl_main_running in the master
  spawned,     \* n of the loop over fork(): the workers 1 .. spawned exist
  life,        \* what the workers do, see WorkerLife
  pending,     \* kernel: the processes with a SIGINT to be delivered
  interrupted  \* history: the whole group was sent SIGINT

vars == <<master, running, spawned, life, pending, interrupted>>

Worker == INSTANCE WorkerLife

MasterHasEnded == master \in {"done", "failed"}

Exists(w) == w <= spawned /\ ~Worker!HasEnded(life[w])

Alive ==
  {w \in Workers : Exists(w)} \cup IF MasterHasEnded THEN {} ELSE {Master}

Init ==
  /\ master = "starting"
  /\ running = TRUE
  /\ spawned = 0
  /\ life = [w \in Workers |-> Worker!Born(TRUE)]
  /\ pending = {}
  /\ interrupted = FALSE

-----------------------------------------------------------------------------
(***************************************************************************)
(* The master.                                                             *)
(***************************************************************************)

\* sl_main_init_signals: from here on SIGINT clears the flag.
InitSignals ==
  /\ master = "starting"
  /\ master' = "opening"
  /\ UNCHANGED <<running, spawned, life, pending, interrupted>>

\* The listening socket is made, non-blocking for all who inherit it.
OpenSocket ==
  /\ master = "opening"
  /\ master' = "spawning"
  /\ UNCHANGED <<running, spawned, life, pending, interrupted>>

\* signal(), socket(), bind(), listen() or fcntl() fails; the port may be held
\* by workers of a former master.
StartFails ==
  /\ master \in {"starting", "opening"}
  /\ master' = "failed"
  /\ UNCHANGED <<running, spawned, life, pending, interrupted>>

\* Variants: the child starts with the flag set; the master does not stop for
\* the signal that is pending.
Fork_Fresh ==
  /\ master = "spawning" /\ Master \notin pending
  /\ spawned < MaxProcesses
  /\ spawned' = spawned + 1
  /\ life' = [life EXCEPT ![spawned + 1] = Worker!Born(TRUE)]
  /\ UNCHANGED <<master, running, pending, interrupted>>

Fork_WhilePending ==
  /\ master = "spawning"
  /\ spawned < MaxProcesses
  /\ spawned' = spawned + 1
  /\ life' = [life EXCEPT ![spawned + 1] = Worker!Born(running)]
  /\ UNCHANGED <<master, running, pending, interrupted>>

Fork ==
  /\ master = "spawning" /\ Master \notin pending
  /\ spawned < MaxProcesses
  /\ spawned' = spawned + 1
  /\ life' = [life EXCEPT ![spawned + 1] = Worker!Born(running)]
  /\ UNCHANGED <<master, running, pending, interrupted>>

\* fork() == -1: the master exits, whatever workers there are.
ForkFails ==
  /\ master = "spawning" /\ Master \notin pending
  /\ spawned < MaxProcesses
  /\ master' = "failed"
  /\ UNCHANGED <<running, spawned, life, pending, interrupted>>

\* The loop ends; the master closes its server socket.
SpawnedAll ==
  /\ master = "spawning"
  /\ spawned = MaxProcesses
  /\ master' = "waiting"
  /\ UNCHANGED <<running, spawned, life, pending, interrupted>>

\* wait(NULL), whose result is not looked at, then the end of main().
WaitReturns ==
  /\ master = "waiting"
  /\ \A w \in Workers : ~Exists(w)
  /\ master' = "done"
  /\ UNCHANGED <<running, spawned, life, pending, interrupted>>

(***************************************************************************)
(* The workers.                                                            *)
(***************************************************************************)

WorkerStep(w) ==
  /\ Exists(w)
  /\ \E pc \in Worker!Places :
       /\ Worker!StepsTo(life[w], pc)
       /\ life' = [life EXCEPT ![w] = Worker!At(@, pc)]
  /\ UNCHANGED <<master, running, spawned, pending, interrupted>>

\* A worker ends before its time: epoll_create1() or the first epoll_ctl()
\* failed, or it was killed.  Nobody starts another one.
WorkerDies(w) ==
  /\ Exists(w)
  /\ life' = [life EXCEPT ![w] = Worker!At(@, "terminated")]
  /\ UNCHANGED <<master, running, spawned, pending, interrupted>>

(***************************************************************************)
(* SIGINT.                                                                 *)
(***************************************************************************)

\* Ctrl-C
Interrupt ==
  /\ Alive # {}
  /\ pending' = pending \cup Alive
  /\ interrupted' = TRUE
  /\ UNCHANGED <<master, running, spawned, life>>

\* kill -INT of one process.
Kill(p) ==
  /\ p \in Alive
  /\ pending' = pending \cup {p}
  /\ UNCHANGED <<master, running, spawned, life, interrupted>>

\* The handler in the master; wait() is restarted.  Before there is a handler
\* the signal ends the process.
DeliverToMaster ==
  /\ Master \in pending \cap Alive
  /\ pending' = pending \ {Master}
  /\ IF master = "starting"
     THEN master' = "failed" /\ running' = running
     ELSE master' = master /\ running' = FALSE
  /\ UNCHANGED <<spawned, life, interrupted>>

\* The handler in a worker.
DeliverToWorker(w) ==
  /\ w \in pending \cap Alive
  /\ pending' = pending \ {w}
  /\ life' = [life EXCEPT ![w] = Worker!Interrupted(@)]
  /\ UNCHANGED <<master, running, spawned, interrupted>>

-----------------------------------------------------------------------------

Next ==
  \/ InitSignals \/ OpenSocket \/ StartFails
  \/ Fork \/ ForkFails \/ SpawnedAll \/ WaitReturns
  \/ Interrupt \/ DeliverToMaster
  \/ \E p \in Workers \cup {Master} : Kill(p)
  \/ \E w \in Workers : WorkerStep(w) \/ WorkerDies(w) \/ DeliverToWorker(w)

Spec == Init /\ [][Next]_vars

(***************************************************************************)
(* Fairness: processes are scheduled and pending signals delivered, and    *)
(* signals do not come so fast that the master never gets through fork()   *)
(* (hence SF).  A worker in epoll_wait() may wait for ever.                *)
(***************************************************************************)
Fairness ==
  /\ SF_vars(Fork \/ ForkFails \/ SpawnedAll \/ WaitReturns)
  /\ WF_vars(InitSignals \/ OpenSocket \/ StartFails)
  /\ WF_vars(DeliverToMaster)
  /\ \A w \in Workers :
       /\ WF_vars(life[w].pc # "waiting" /\ WorkerStep(w))
       /\ WF_vars(DeliverToWorker(w))

FairSpec == Spec /\ Fairness

-----------------------------------------------------------------------------

TypeOK ==
  /\ master \in {"starting", "opening", "spawning", "waiting", "done", "failed"}
  /\ running \in BOOLEAN
  /\ spawned \in 0 .. MaxProcesses
  /\ life \in [Workers -> [pc : Worker!Places, running : BOOLEAN, raced : BOOLEAN]]
  /\ pending \subseteq Workers \cup {Master}
  /\ interrupted \in BOOLEAN

\* A SIGINT to the group stops the processes forked afterwards, too: each one
\* has the signal pending or the flag cleared, its own or its parent's.
InterruptIsKnown ==
  interrupted =>
    /\ master \in {"starting", "opening", "spawning"} =>
         Master \in pending \/ ~running
    /\ \A w \in Workers : Exists(w) => w \in pending \/ ~life[w].running

\* A worker that waits although its handler has run missed the signal.
IsDeaf(w) == Exists(w) /\ life[w].pc = "waiting" /\ life[w].raced

\* SIGINT to the group ends all processes, unless a worker got it between the
\* test of the flag and epoll_wait().
GroupStops == interrupted ~> Alive = {} \/ \E w \in Workers : IsDeaf(w)

\* A worker never waits for events once its flag is cleared, but for that
\* race; a worker that was forked with the flag cleared already, because SIGINT
\* came to the master while it was spawning, never waits at all.
WaitsOnlyWhileRunning ==
  \A w \in Workers :
    Exists(w) /\ life[w].pc = "waiting" /\ ~life[w].running => life[w].raced

=============================================================================
