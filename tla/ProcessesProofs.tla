--------------------------- MODULE ProcessesProofs ---------------------------
(***************************************************************************)
(* Proofs about Processes for every number of workers.  The argument is    *)
(* the same for all of the invariants: they hold of a worker when it is    *)
(* forked, and a worker changes by its own steps and signals only.         *)
(***************************************************************************)
EXTENDS Processes, TLAPS

Starting == InitSignals \/ OpenSocket \/ StartFails

Lives == [pc : Worker!Places, running : BOOLEAN, raced : BOOLEAN]

\* What fork(), the loop and the signal handler make of a worker.
LEMMA LivesAreClosed ==
  /\ \A r \in BOOLEAN : Worker!Born(r) \in Lives
  /\ \A l \in Lives : Worker!Interrupted(l) \in Lives
  /\ \A l \in Lives, p \in Worker!Places : Worker!At(l, p) \in Lives
BY DEF Worker!Born, Worker!Interrupted, Worker!At, Worker!Places, Lives

\* The master spawns MaxProcesses workers at most, and every process is in a
\* state its code has.
THEOREM TypeCorrectness == Spec => []TypeOK
<1>1. Init => TypeOK
  <2> SUFFICES ASSUME Init
               PROVE  TypeOK
    OBVIOUS
  <2>1. life \in [Workers -> Lives]
    BY LivesAreClosed DEF Init
  <2>2. spawned \in 0 .. MaxProcesses
    BY ProcessesAssumption DEF Init
  <2>3. pending \subseteq Workers \cup {Master}
    BY DEF Init
  <2> QED
    BY <2>1, <2>2, <2>3 DEF Init, TypeOK, Lives
<1>2. TypeOK /\ [Next]_vars => TypeOK'
  <2> SUFFICES ASSUME TypeOK, [Next]_vars
               PROVE  TypeOK'
    OBVIOUS
  <2> life \in [Workers -> Lives]
    BY DEF TypeOK, Lives
  <2>1. CASE Fork
    <3>1. spawned + 1 \in Workers /\ spawned' \in 0 .. MaxProcesses
      BY <2>1, ProcessesAssumption DEF Fork, TypeOK, Workers
    <3>2. life' \in [Workers -> Lives]
      BY <2>1, <3>1, LivesAreClosed DEF Fork, TypeOK
    <3> QED
      BY <2>1, <3>1, <3>2 DEF Fork, TypeOK, Lives
  <2>2. CASE Starting \/ ForkFails \/ SpawnedAll \/ WaitReturns
    BY <2>2 DEF Starting, InitSignals, OpenSocket, StartFails, ForkFails, SpawnedAll,
                WaitReturns, TypeOK
  <2>3. CASE Interrupt \/ DeliverToMaster \/ \E p \in Workers \cup {Master} : Kill(p)
    BY <2>3 DEF Interrupt, DeliverToMaster, Kill, TypeOK, Alive
  <2>4. ASSUME NEW w \in Workers, WorkerStep(w)
        PROVE  TypeOK'
    <3>1. life' \in [Workers -> Lives]
      BY <2>4, LivesAreClosed DEF WorkerStep
    <3> QED
      BY <2>4, <3>1 DEF WorkerStep, TypeOK, Lives
  <2>5. ASSUME NEW w \in Workers, WorkerDies(w)
        PROVE  TypeOK'
    <3>1. life' \in [Workers -> Lives]
      BY <2>5, LivesAreClosed DEF WorkerDies, Worker!Places
    <3> QED
      BY <2>5, <3>1 DEF WorkerDies, TypeOK, Lives
  <2>6. ASSUME NEW w \in Workers, DeliverToWorker(w)
        PROVE  TypeOK'
    <3>1. life' \in [Workers -> Lives]
      BY <2>6, LivesAreClosed DEF DeliverToWorker
    <3> QED
      BY <2>6, <3>1 DEF DeliverToWorker, TypeOK, Lives
  <2>7. CASE UNCHANGED vars
    BY <2>7 DEF vars, TypeOK
  <2> QED
    BY <2>1, <2>2, <2>3, <2>4, <2>5, <2>6, <2>7 DEF Next, Starting
<1> QED
  BY <1>1, <1>2, PTL DEF Spec

\* What a worker and its signals leave alone.
LEMMA OnlyWorkersStep ==
  ASSUME life \in [Workers -> Lives], NEW w \in Workers,
         WorkerStep(w) \/ WorkerDies(w) \/ DeliverToWorker(w)
  PROVE  /\ Exists(w) /\ UNCHANGED <<master, running, spawned, interrupted>>
         /\ \A v \in Workers \ {w} : life'[v] = life[v]
<1>1. w # Master
  BY DEF Workers, Master
<1>2. Exists(w)
  BY <1>1 DEF WorkerStep, WorkerDies, DeliverToWorker, Alive
<1> QED
  BY <1>2 DEF WorkerStep, WorkerDies, DeliverToWorker

-----------------------------------------------------------------------------
(***************************************************************************)
(* SIGINT.                                                                 *)
(***************************************************************************)

\* SIGINT to the group is never lost on a process, not on one forked later
\* either.
THEOREM InterruptReachesAll == Spec => []InterruptIsKnown
<1>1. Init => InterruptIsKnown
  BY DEF Init, InterruptIsKnown
<1>2. TypeOK /\ InterruptIsKnown /\ [Next]_vars => InterruptIsKnown'
  <2> SUFFICES ASSUME TypeOK, InterruptIsKnown, [Next]_vars
               PROVE  InterruptIsKnown'
    OBVIOUS
  <2> life \in [Workers -> Lives]
    BY DEF TypeOK, Lives
  <2>1. CASE Fork
    <3> SUFFICES ASSUME interrupted
                 PROVE  InterruptIsKnown'
      BY <2>1 DEF Fork, InterruptIsKnown
    <3>1. ~running
      BY <2>1 DEF Fork, InterruptIsKnown
    <3>2. /\ spawned \in Nat /\ spawned + 1 \in Workers
          /\ life'[spawned + 1] = Worker!Born(running)
      BY <2>1, ProcessesAssumption DEF Fork, TypeOK, Workers
    <3>4. ~life'[spawned + 1].running
      BY <3>1, <3>2 DEF Worker!Born
    <3>3. ASSUME NEW w \in Workers, w # spawned + 1, Exists(w)'
          PROVE  Exists(w) /\ life'[w] = life[w]
      BY <2>1, <3>2, <3>3 DEF Fork, Exists, TypeOK, Workers, Worker!HasEnded
    <3> QED
      BY <2>1, <3>1, <3>2, <3>3, <3>4 DEF Fork, InterruptIsKnown
  <2>2. CASE Starting \/ ForkFails \/ SpawnedAll \/ WaitReturns \/ UNCHANGED vars
    BY <2>2 DEF Starting, InitSignals, OpenSocket, StartFails, ForkFails, SpawnedAll,
                WaitReturns, vars, InterruptIsKnown, Exists, Worker!HasEnded
  <2>3. CASE Interrupt
    <3>1. \A w \in Workers : Exists(w)' => w \in pending'
      BY <2>3 DEF Interrupt, Alive, Exists, Worker!HasEnded
    <3>2. master' \in {"starting", "opening", "spawning"} => Master \in pending'
      BY <2>3 DEF Interrupt, Alive, MasterHasEnded
    <3> QED
      BY <3>1, <3>2 DEF InterruptIsKnown
  <2>4. CASE DeliverToMaster
    <3>1. \A w \in Workers : w # Master
      BY DEF Workers, Master
    <3>2. \A w \in Workers : Exists(w)' = Exists(w)
      BY <2>4 DEF DeliverToMaster, Exists, Worker!HasEnded
    <3> QED
      BY <2>4, <3>1, <3>2 DEF DeliverToMaster, InterruptIsKnown
  <2>5. ASSUME NEW p \in Workers \cup {Master}, Kill(p)
        PROVE  InterruptIsKnown'
    BY <2>5 DEF Kill, InterruptIsKnown, Exists, Worker!HasEnded
  <2>6. ASSUME NEW w \in Workers,
               WorkerStep(w) \/ WorkerDies(w) \/ DeliverToWorker(w)
        PROVE  InterruptIsKnown'
    <3>1. /\ Exists(w) /\ UNCHANGED <<master, running, spawned, interrupted>>
          /\ \A v \in Workers \ {w} : life'[v] = life[v]
      BY <2>6, OnlyWorkersStep
    <3>2. \A v \in Workers \ {w} : Exists(v)' = Exists(v)
      BY <3>1 DEF Exists, Worker!HasEnded
    <3>4. CASE WorkerStep(w) \/ WorkerDies(w)
      <4>1. pending' = pending /\ life'[w].running = life[w].running
        BY <3>4 DEF WorkerStep, WorkerDies, Worker!At
      <4> QED
        BY <3>1, <3>2, <4>1 DEF InterruptIsKnown
    <3>5. CASE DeliverToWorker(w)
      <4>1. pending' = pending \ {w} /\ life'[w] = Worker!Interrupted(life[w])
        BY <3>5 DEF DeliverToWorker
      <4>2. ~life'[w].running
        BY <4>1 DEF Worker!Interrupted
      <4>3. w # Master
        BY DEF Workers, Master
      <4> QED
        BY <3>1, <3>2, <4>1, <4>2, <4>3 DEF InterruptIsKnown
    <3> QED
      BY <2>6, <3>4, <3>5
  <2> QED
    BY <2>1, <2>2, <2>3, <2>4, <2>5, <2>6 DEF Next, Starting
<1> QED
  BY <1>1, <1>2, TypeCorrectness, PTL DEF Spec

\* A worker whose flag is cleared is on its way out, or missed the signal
\* between the test and epoll_wait().
StopsOrRaced(w) ==
  Exists(w) /\ life[w].pc \in {"entering", "waiting"} /\ ~life[w].running
    => life[w].raced

\* No worker waits for events after its flag was cleared, but for the race.
THEOREM WaitingIsRunning == Spec => []WaitsOnlyWhileRunning
<1> DEFINE Inv == \A w \in Workers : StopsOrRaced(w)
<1>1. Init => Inv
  BY DEF Init, Workers, StopsOrRaced, Exists
<1>2. TypeOK /\ Inv /\ [Next]_vars => Inv'
  <2> SUFFICES ASSUME TypeOK, Inv, [Next]_vars, NEW w \in Workers
               PROVE  StopsOrRaced(w)'
    OBVIOUS
  <2> life \in [Workers -> Lives]
    BY DEF TypeOK, Lives
  <2>1. CASE Exists(w) /\ \E pc \in Worker!Places :
               Worker!StepsTo(life[w], pc) /\ life'[w] = Worker!At(life[w], pc)
    BY <2>1 DEF Worker!StepsTo, Worker!At, StopsOrRaced, Lives, Worker!Places
  <2>2. CASE life'[w].pc \in {"test", "terminated"}
    BY <2>2 DEF StopsOrRaced
  <2>3. CASE life'[w] = Worker!Interrupted(life[w])
    <3>1. /\ life'[w].pc = "entering" => life[w].pc = "entering"
          /\ life'[w].pc # "waiting"
      BY <2>3, SMT DEF Worker!Interrupted
    <3>2. ASSUME life[w].pc = "entering"
          PROVE  life'[w].raced
      <4>1. Worker!Interrupted(life[w]) =
              [pc |-> "entering", running |-> FALSE, raced |-> TRUE]
        BY <3>2, Zenon DEF Worker!Interrupted
      <4> QED
        BY <2>3, <4>1
    <3> QED
      BY <3>1, <3>2 DEF StopsOrRaced
  <2>4. CASE life'[w] = life[w] /\ (Exists(w)' => Exists(w))
    BY <2>4 DEF StopsOrRaced
  <2>5. CASE Fork
    <3>1. spawned + 1 \in Workers /\ spawned \in Nat
      BY <2>5, ProcessesAssumption DEF Fork, TypeOK, Workers
    <3>2. CASE w = spawned + 1
      BY <2>2, <2>5, <3>1, <3>2 DEF Fork, Worker!Born
    <3>3. CASE w # spawned + 1
      BY <2>4, <2>5, <3>1, <3>3 DEF Fork, Exists, Workers, Worker!HasEnded
    <3> QED
      BY <3>2, <3>3
  <2>6. CASE \/ Starting \/ ForkFails \/ SpawnedAll \/ WaitReturns
             \/ UNCHANGED vars \/ Interrupt \/ DeliverToMaster
             \/ \E p \in Workers \cup {Master} : Kill(p)
    BY <2>4, <2>6 DEF Starting, InitSignals, OpenSocket, StartFails, ForkFails,
                      SpawnedAll, WaitReturns, vars, Interrupt, DeliverToMaster, Kill,
                      Exists, Worker!HasEnded
  <2>7. ASSUME NEW v \in Workers,
               WorkerStep(v) \/ WorkerDies(v) \/ DeliverToWorker(v)
        PROVE  StopsOrRaced(w)'
    <3>1. CASE v # w
      BY <2>4, <2>7, <3>1 DEF WorkerStep, WorkerDies, DeliverToWorker, Exists,
                              Worker!HasEnded
    <3>2. CASE v = w
      BY <2>1, <2>2, <2>3, <2>7, <3>2
         DEF WorkerStep, WorkerDies, DeliverToWorker, Worker!At
    <3> QED
      BY <3>1, <3>2
  <2> QED
    BY <2>5, <2>6, <2>7 DEF Next, Starting
<1>3. Inv => WaitsOnlyWhileRunning
  BY DEF StopsOrRaced, WaitsOnlyWhileRunning
<1> QED
  BY <1>1, <1>2, <1>3, TypeCorrectness, PTL DEF Spec

=============================================================================
