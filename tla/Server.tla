------------------------------- MODULE Server -------------------------------
(***************************************************************************)
(* The two workers of main() and the listening socket they share: two      *)
(* event loops with descriptors and connections of their own and one       *)
(* backlog.  epoll_wait() tells both of a waiting peer, and accept() gives *)
(* it to the faster one.                                                   *)
(*                                                                         *)
(* A step is a step of one worker, one of its peers or a signal to it; the *)
(* other worker notices the backlog only.  Each worker then is the one     *)
(* EventLoop describes, with the other in its environment.                 *)
(***************************************************************************)
EXTENDS Naturals, Sequences, FiniteSets

CONSTANTS
  MaxConnections, MaxEvents, Fds, ServerSocket, ZeroFd, Clients, NoClient

ASSUME ServerAssumption ==
  /\ MaxConnections \in Nat \ {0} /\ MaxEvents \in Nat \ {0}
  /\ ServerSocket \notin Fds /\ NoClient \notin Clients

VARIABLES
  backlog,
  aRunning, aPc, aPending, aConns, aPeer, aInterest, aData, aEof, aSnapshot, aRaced,
  bRunning, bPc, bPending, bConns, bPeer, bInterest, bData, bEof, bSnapshot, bRaced

aVars == <<aRunning, aPc, aPending, aConns, aPeer, aInterest, aData, aEof,
           aSnapshot, aRaced>>
bVars == <<bRunning, bPc, bPending, bConns, bPeer, bInterest, bData, bEof,
           bSnapshot, bRaced>>
vars == <<backlog, aVars, bVars>>

A == INSTANCE EventLoop WITH
       running <- aRunning, pc <- aPc, pending <- aPending, conns <- aConns,
       peer <- aPeer, interest <- aInterest, data <- aData, eof <- aEof,
       snapshot <- aSnapshot, raced <- aRaced
B == INSTANCE EventLoop WITH
       running <- bRunning, pc <- bPc, pending <- bPending, conns <- bConns,
       peer <- bPeer, interest <- bInterest, data <- bData, eof <- bEof,
       snapshot <- bSnapshot, raced <- bRaced

Init == A!Init /\ B!Init

IsWaiting(c) == \E n \in DOMAIN backlog : backlog[n] = c

IsServed(c) == \E f \in Fds : aPeer[f] = c \/ bPeer[f] = c

\* A peer is one connection: it connects when no worker has it.
Connect(c) ==
  /\ ~IsWaiting(c) /\ ~IsServed(c)
  /\ backlog' = Append(backlog, c)
  /\ UNCHANGED <<aVars, bVars>>

StepOfA ==
  /\ \/ A!Worker \/ A!Sigint
     \/ \E f \in Fds : A!SendData(f) \/ A!HangUp(f)
  /\ UNCHANGED bVars

StepOfB ==
  /\ \/ B!Worker \/ B!Sigint
     \/ \E f \in Fds : B!SendData(f) \/ B!HangUp(f)
  /\ UNCHANGED aVars

Next == StepOfA \/ StepOfB \/ \E c \in Clients : Connect(c)

Spec == Init /\ [][Next]_vars

-----------------------------------------------------------------------------

\* Each worker is an event loop whose environment has the other: what is
\* proved of EventLoop holds of both.
BothAreEventLoops == A!Spec /\ B!Spec

\* The server turns a peer away ("No free connections left in the pool") only
\* when it serves as many peers as one worker has slots, whichever worker it
\* is that was faster to accept.  That the other one may have room does not
\* help: the code promises SL_MAIN_MAX_CONNECTIONS, not twice as many.
RefusedOnlyWhenOneIsFull ==
  [][A!AcceptRefused \/ B!AcceptRefused =>
       Cardinality({c \in Clients : IsServed(c)}) >= MaxConnections]_vars

=============================================================================
