# A TLA+ verification of the FastCGI responder

The program in `src/` is a small FastCGI responder in C: a master process
forks two workers, each worker runs one thread with an epoll loop, accepts
connections on a shared listening socket, parses FastCGI messages octet by
octet and answers every complete request with a short text.  The repository has no tests and no documents, so its code is the
only reference.

This directory holds models of that code in TLA+, the configurations that
model-check them with TLC, and proofs checked by TLAPS.

- [Inventory](#inventory): the parts of the program and what makes each correct
- [Modules](#modules): which module models what, and how it reads against the code
- [Runs](#runs): what TLC checks, in which bounds
- [Fairness](#fairness)
- [Proofs](#proofs)
- [Variants](#variants): the mistakes the properties were tried against
- [What the models show about the code](#what-the-models-show-about-the-code)
- [What is not modelled](#what-is-not-modelled)
- [Plan](#plan)

## Inventory

| component | source | state it keeps | operations |
|---|---|---|---|
| master process | `main.c` 199-218, 343-399 | the flag `sl_main_running`, copied into each worker by `fork()` | set up signals and the socket, fork two workers, wait, exit |
| worker event loop | `main.c` 237-341 | the epoll instance, the array of events | wait, accept, dispatch an event, stop on SIGINT |
| connection pool | `sl_net.c` 54-103 | `connections[1024]`: socket, address, `is_busy`, parser, request, arena | find by socket, find a free one, initialise, destroy |
| connection handler | `main.c` 120-197 | none of its own | read until a short read, parse the buffer, execute, decide to keep or close |
| FastCGI parser | `sl_fcgi.c` 8-350 | `sl_fcgi_parser`: state, counters, the message so far | init, parse one octet |
| FastCGI request | `sl_fcgi.c` 352-450 | `sl_fcgi_request`: state, id, flags, parameters, body | init, process a finished message |
| FastCGI response | `sl_fcgi.c` 452-507, `main.c` 38-118 | `sl_fcgi_response`: headers, output | append a header or output, put together, `writev()` |
| hash table | `sl_hashtable.c` | buckets with chains, the number of keys | init, get, set (with resize) |
| arena | `sl_arena.c` | a list of blocks and how much of each is used | allocate, rewind, destroy |
| strings | `sl_string.c` | buffer, capacity, length | create as a view or a copy, append, format |
| log | `sl_log.c` | level, descriptor, texts of pid, address and port; `errno` | set pid or peer, write a line, write a formatted line |
| listening socket | `sl_net.c` | none | create, bind, listen, make non-blocking |

How they interact.  The master and the workers share only the listening
socket (its backlog) and signals: SIGINT goes to the process group, SIGCHLD is
ignored.  A worker is one thread, and everything below the event loop is a
plain call that runs to its end before the next event is looked at:
`epoll_wait` → `sl_net_find_connection` → `sl_main_process_connection` →
`recv` / `sl_main_parse_buffer` → `sl_fcgi_parser_parse` →
`sl_fcgi_request_process` → `sl_main_request_execute` → `writev`.  So the
interleavings that matter are those with the kernel, the peers, the other
worker and signals, between two handlers and, for octets that arrive, between
two calls of `recv()` within one.

What is hard, and what makes each part correct:

- **Event loop and pool.**  A connection is looked up by scanning for its
  descriptor, `is_busy` is not looked at, freed slots keep their old
  descriptor, and the kernel hands descriptors out again, even within one
  batch of events.  Correct means: an event of an open descriptor always reaches
  the slot of its present peer; none is lost or leaked; the pool is full only
  when it is; the branch that logs through a NULL connection is never reached;
  a hung-up peer's descriptor is closed; SIGINT ends the worker.
- **Connection handler.**  The octets of a request may be cut anywhere, may fill the
  receive buffer exactly, and more may arrive between two reads.  Correct means:
  what is executed is what was sent, whole and once; a peer that waits for its
  answers gets them or is closed on; the server never loses its place in the stream.
- **Parser.**  Counters are shared by several buffers, sums are compared with
  `==`, and a message with content is only finished by the octet after it.
  Correct means: a message ends at its last octet, with the content that was
  sent; buffers are filled in order and within bounds whatever the peer announces.
- **Request.**  PARAMS and STDIN may come in any order and in several messages.
  Correct means: the request ends with the second of the two empty messages, with every
  parameter (the last value of a name) and the body in order.
- **Response.**  Correct means: two STDOUT messages and END_REQUEST with right
  lengths (the length is 16 bits wide), written in full.
- **Hash table.**  Correct means: it is a map, through collisions, resizes and failed
  allocations.
- **Arena.**  Blocks are kept when it is rewound, and searched from the first.  Correct
  means: live allocations never overlap, also after a rewind, a new block always serves the
  request it was made for, and a connection that repeats its requests does not grow.
- **Strings and log.**  Correct means: nothing is written behind a capacity, a string
  keeps its octets while it grows, a line is cut where its buffer ends, digits survive being moved
  over themselves.
- **Master.**  SIGINT may come at every point of start, fork and wait, to the group or to
  one process, and each process has its own flag.  Correct means: on SIGINT to the group all processes
  end, and no worker, whenever it was forked, waits for events after that.
- **Two workers.**  Both wake for one connection and race for it, and a full one may be the faster.
  Correct means: each is the event loop it would be alone, whatever the other takes from it, and
  no peer is turned away as long as fewer are served than one worker has slots.

## Modules

| module | models |
|---|---|
| `EventLoop` | one worker: event loop, pool, and the kernel as it sees it |
| `ConnectionTable` | abstract: a table from open descriptors to peers |
| `WorkerLife` | abstract: a worker as the other processes see it |
| `Processes` | master and workers: start, `fork()`, `wait()`, SIGINT; built from `WorkerLife` |
| `Server` | two `EventLoop`s on one backlog |
| `FcgiParser` | `sl_fcgi_parser_parse` on one octet, as an operator |
| `FcgiWire` | the peer's encoding of messages (not code of `src/`) |
| `FcgiMessages` | which messages there are, which the parser can follow, and what it holds then |
| `FcgiFraming` | the parser over a stream of messages |
| `FcgiRequest` | `sl_fcgi_request_process`, as an operator |
| `Connection` | one connection: peer, `recv`, parser, request, keep or close; composes the three above |
| `ConnectionHandler` | that connection as the one slot of an `EventLoop` |
| `FcgiResponse` | a response from its headers to what the socket took of it |
| `FcgiPeer` | the messages the peer makes of that, and what it may rely on |
| `HashTable` | `sl_hashtable_set` and `_get`; `KeyHash` is `sl_hashtable_compute_hash` |
| `StringMap` | abstract: a map whose calls may report errors |
| `Arena` | `sl_arena_allocate`, `_rewind`, `_destroy` |
| `Allocator` | abstract: regions that are disjoint while in use |
| `Pow2`, `Pow2Bits` | what `sl_arena_pow2_size` returns, and how it computes it |
| `Strings` | the life of one string |
| `Itoa`, `Log` | `sl_string_itoa` and `sl_log_itoa`; the lines of the log; as operators |
| `EventLoopProofs`, `ServerProofs`, `ProcessesProofs`, `ArenaProofs`, `HashTableProofs` | the theorems of the modules they are named after |
| `FcgiMessageProofs` | lemmas: what one octet does to any parser, the octets of a message, and the parser that follows them |
| `FcgiFramingProofs` | the theorems about streams of messages, and about responses, which are one |
| `ConnectionProofs` | the theorems about requests, however their octets are cut |
| `MCEventLoop`, `MCServer`, `MCFcgiFraming`, `MCConnection`, `MCFcgiResponse`, `MCHashTable`, `MCArena`, `MCStrings` | the constants of the runs |

Five refinements tie them together: `EventLoop` implements `ConnectionTable`
and `WorkerLife`, `HashTable` implements `StringMap` (which is how `FcgiRequest` and
`FcgiResponse` use it), `Arena` implements `Allocator` (which is why the other modules only say
that allocations succeed or fail).  Each of the two workers of `Server` implements `EventLoop` (`Composition`, a theorem),
and `ConnectionHandler` that the many steps of a handler are the one step `EventLoop` takes it for.

### EventLoop

Each variable is either a variable of the code or a piece of the kernel:
`running` is `sl_main_running`, `conns` the array `connections`, `pending` what is
left of the array `events`; `peer`, `interest`, `data`, `eof`, `backlog` are the
kernel's open descriptors, epoll set, readability, ends of file and accept queue.
`pc` splits the loop where a signal can tell the difference: before the test
of the flag, between the test and `epoll_wait()` (`entering`), in it
(`waiting`), and in a batch (`handling`).  `snapshot` and `raced` are history
variables and no guard reads them.

A handler is one action per way it can end, because nothing else in the
worker runs meanwhile: an accept event ends in `AcceptFails` (-1),
`AcceptAbandoned` (`fcntl()` or `epoll_ctl()` fails), `AcceptRefused` (no free slot)
or `AcceptEstablished`; a client's in `ConnectionClosed`, `ConnectionReused` or
`UnknownDescriptor`.  The last one is the branch of `main.c` 314-323 that
dereferences a NULL connection; it is modelled as the crash it would be, and
proved unreachable.  What a read makes of a request is any outcome
(`AfterReading`): `Connection` says which ones there are, and `HandlesAsEventLoop` that they are among these.

The scan order is kept, as correctness hangs on it: `FindsConnection(i, f)` holds of
the first slot with the descriptor, `FindsFree(i)` of the first free one.

### FcgiParser, FcgiFraming

`ParseOctet(p, octet, ok)` is one turn of the loop of `sl_fcgi_parser_parse` on the struct
`p`; `ok` says whether the arena has memory.  States keep the names of the enum without the prefix.
Buffers are sequences of the allocated length whose octets are `Unset` until
they are written, so a write out of bounds is an error TLC reports and a gap is visible.
`read_counter` is a `size_t`: it wraps to `SizeMax` when decremented at zero,
as it does when padding ends.  `SizeMax` is 65535 in the runs; the code
never adds to the wrapped value, it overwrites it, so the width does not matter.
`IsCounted` says whether `total_parsed` moves: it does not for the octet that
finishes a message with content, which is read again by a new parser.

### FcgiRequest, Connection

`ProcessMessage` is `sl_fcgi_request_process` with every allocation it makes
as a named failure.  The hash table is a function.  In `Connection`, `Receive`
is one `recv()` with `sl_main_parse_buffer` behind it; what the peer sends and
whether it hangs up is interleaved with the `recv()` calls of one event.  `ParseBuffer`
folds `ParseNext` over the octets and yields every outcome failing allocations
allow.  `Respond` is the response: written in full or not.  `deciding`
is `main.c` 176-196, `Close` and `Reuse` what the loop does with its result.

`ConnectionHandler` maps this to the state of an `EventLoop` with one slot and one descriptor.  While
the handler runs nobody else looks at the slot, so it shows what was there before; its
descriptor has data when this handler reads some.  `HandlesAsEventLoop` is about
handlers only: that the loop waits and gets the event is `EventLoop`'s own matter.

### Processes, WorkerLife, Server

`WorkerLife` keeps of a worker what the master and signals can tell: where it is
in its loop, its flag, and whether the signal raced with the test of the
flag.  `EventLoop` implements it (`LivesAsWorker`), and `Processes` has one such
life per worker, made of the same operators, next to `master`, the place in `main()`.
SIGINT is sent (`Interrupt` to the group, `Kill` to one process) and delivered later, in any
order.  Before `sl_main_init_signals` it kills the master; `fork()` copies the master's
flag into the child (`Born(running)`).  `WorkerDies` is a worker's end before its time, for
which the code has no answer.

Of system calls `Processes` assumes what Linux with glibc does: `signal()`
installs handlers that restart `wait()`, `epoll_wait()` is never restarted, `fork()` does not proceed while
its caller has a signal to deliver and the child inherits no pending one,
and with SIGCHLD ignored `wait()` returns only when no child is left.

`Server` has two copies of the variables of `EventLoop` but for `backlog`, which they
share.  A step is a step of one worker, of one of its peers, or of a peer that
connects.  To the other worker that looks like `OtherWorkerAccepts` of `EventLoop`, so
each of them is an `EventLoop` (`BothAreEventLoops`, which is proved) and everything shown of one holds of both.
What neither can tell alone is how many peers the server serves when it turns one away.

### FcgiResponse

`AppendHeader`, `AppendOutput` and `Process` are the functions of the same names in
`sl_fcgi.c`; headers come out in any order, as the order of buckets is nobody's
promise.  `Message` is what the five buffers of `sl_main_request_send_response` hold together.
`Cut` is the conversion of the length from `size_t` to `uint16_t`; the
number of octets in the third buffer is the converted one as well.  `Send` writes any part of the
message, as `writev()` on a non-blocking socket may.  The properties look at the octets with the
eyes of the peer (`Decoded` of `FcgiPeer`).

### HashTable, Arena, Strings

`HashTable` has one action per way a call of `sl_hashtable_set` can end: which
allocation fails, and whether the key was there.  Chains are sets of nodes, as
`KeysAreUnique` makes their order unobservable.  `NeedsResize`, `Rehashed` and
`InsertButNotResize` are the resize; its failure returns -1 with the key stored.
`Hash` is a constant function, so that theorems hold for every hash; the run computes it with `KeyHash` from
octets, with two keys of the same hash and one with an octet above 127, which is negative as a `char`.

`Arena` keeps the list of blocks with their fill and, as ghosts, the regions in use (`live`) and the
sizes asked for since the last rewind and in the period before.  Sizes do not wrap: they are
bounded by a 31 bit length doubled twice, and a `size_t` has 64 bits.  `FirstFit` is the
search from the first block.  `Pow2Bits` computes `sl_arena_pow2_size` with the six shifts of the
code, `Pow2Size` says what it should be.

`Strings` follows one string.  A literal octet of a format is stored without a test
(`FormatLiteral`), so content can be longer than its buffer; the octets there belong to others, and
`Found` makes them arbitrary when the string grows.  Whether that happens depends on what the arguments of the
format are, so the instance gives each of them its own octets (`Arguments`).  The octets of a number are those `Itoa` makes, loop by
loop; `wanted` has the digits by their weights.  `Log` goes on from the finished string:
the settings of the log are a record, and a line is a function of its parts, one of which is the string or, when
there was no memory for it, the format.

## Runs

| run | question | instance | distinct states |
|---|---|---|---|
| `EventLoop_safety` | is a connection ever lost, mixed up, leaked or refused without need, and does the loop implement `ConnectionTable` and `WorkerLife`? | 2 slots, batches of 2, 3 descriptors, 3 peers; symmetric | 69k |
| `EventLoop_liveness` | are hung-up descriptors closed, is the backlog served, does SIGINT end the worker? | 1 slot, batches of 1, 2 descriptors, 2 peers | 3k |
| `Server` | is a peer turned away by one of two workers only while the server serves as many as a worker has slots? | 2 workers with 1 slot and 2 descriptors each, 2 peers; symmetric | 498k |
| `Processes` | does SIGINT to the group reach every process, whenever it comes, stop it, and keep every worker from waiting? | 2 workers | 12k |
| `FcgiFraming` | does the parser end each message at its last octet with what was sent, and stay in its buffers? | every pair of 16 kinds of messages, long ones, one whole request | 13k |
| `FcgiFraming_stdin` | is STDIN content without padding finished? (no) | as `FcgiFraming` | |
| `Connection` | is what is executed what was sent, however it was cut? is a waiting peer answered, a hung-up one closed on? is a handler a step of `EventLoop`? | 5 dialogues, buffer of 16 octets, all cuts, all failing allocations | 134k |
| `FcgiResponse` | does the peer see the end of a response only after all of it, whatever its length and wherever `writev()` stops? | 2 names, 2 values, outputs up to 11 octets, a length field of 4 bits | 138k |
| `HashTable` | is the table a map, with an exact count and short chains? | 4 keys, 2 of one hash, 2 values, sizes from 1 and 4, every failing allocation | 822 |
| `Arena` | are regions disjoint, new blocks large enough, repeated requests free of new memory? are sizes rounded up? | 3 sizes, 3 blocks, 4 allocations in a period; sizes of 28 bits around every power of two | 152k |
| `Strings` | is a string's content right and in its buffer? are the lines of the log cut at their end? | the program's one header, its formats for a body and for counts; bodies of 0 to 60 octets, numbers of 0 to 10 digits, appends of 0 to 20 octets, content up to 132; lines of 24 octets | 113k |
| `Strings_log` | is it with the format that logs a parameter? (no) | names and values of 1, 47 and 48 octets | |

`RoundsUp`, that the shifts of `sl_arena_pow2_size` round as `Pow2Size` says, is about a function; it
is an assumption of `Pow2Bits`, which TLC evaluates at the start of the run `Arena`.

Why the bounds are enough.

- *Slots, descriptors, batch.*  The lookup argument concerns a descriptor, the slot it
  is in and a slot before it: two slots, and three descriptors so that one
  can be reused while two are open and a third is refused.  A batch of two is the least in which
  one event's handler can affect the other; with three peers the backlog
  still holds one when the pool is full.  The theorems remove these bounds.  In the liveness run a batch
  of one makes every other descriptor wait for its turn.  `Connect` is bounded by the number of peers, each
  with one connection at a time; a peer may return for ever.
- *Receive buffer.*  16 octets for 10240: the shortest request is 32, exactly two
  buffers, which is the case where `recv()` is called once too often; others end in a message's middle.
- *Messages.*  The parser forgets everything between messages but its place,
  so pairs of messages show what one does to the next.  Lengths sit on the edges: 0, 1,
  127 and 128 octets, lengths of one and of four octets, content lengths below
  and above 255.  A long message is not placed after one that makes the parser lose its
  place, as arbitrary octets would then be taken for lengths of up to 2^31.
- *Dialogues.*  A patient peer with two requests, an impatient one that pipelines, one
  that sets KEEP_CONN, one with a body and a parameter, one with the streams in
  the unusual order and a name given twice.

- *Two workers.*  One slot and two descriptors each are enough for a full worker, a
  race for one peer and a refusal; more of each is the matter of one worker.
- *Processes.*  Two workers as in the code; the safety theorems remove the bound.
- *Response.*  A length field of four bits is overrun by responses of 25 octets, once with a rest
  that is short and once with none.
- *Table.*  From one bucket it doubles three times with four keys.
- *Arena.*  With a block of 4, sizes 2, 3 and 0 share a block, need one of their own that is larger, and take no room.
  Four allocations in three blocks leave a second period to repeat.  `malloc()` fails at the
  bound, as it may at any time.
- *Strings.*  132 octets take a string through three growths.  The run says something of the formats
  *with the arguments the program gives them*, not of formats in general.  The name and the value of the
  header have 12 and 10 octets, as the one header of `main.c` 96-97: 16 octets are allocated, the value makes
  the string grow, and the line end fits.  A name of 15 or 16 octets, or a name and a value of 13 or 14 together,
  would be stored past the end.  The body comes last in its format, so no length of it can do harm; 20 octets fill the
  buffer, 19 and 21 are the lengths around.  A count has a fixed number of literals around it, and the format
  with the least room (15 octets, "Parsed %z bytes") has room for 19 digits; counts are at most the size of the receive
  buffer or of a response.  Numbers are below 2^31, the largest TLC knows, so the 11th to 20th digit are not tried.

`CHECK_DEADLOCK FALSE` is used where a system really stops: the parser at
the end of its stream, a connection that was closed, a response that was sent, a string
or format at its bound, processes that have all ended, two workers that have.  In `EventLoop` the
terminated worker leaves an environment that goes on, so deadlock is checked there.

## Fairness

- `EventLoop`: the worker is a running process, so a step of the loop or of a batch that can be
  taken is taken (weak fairness).  `epoll_wait()` is interrupted only
  finitely often in a row, and the kernel rotates its ready list, so a descriptor that
  is ready again and again is in some batch (strong fairness per descriptor).
  `accept()` does not fail for ever although a connection waits and a descriptor is
  free (strong fairness); without that, nothing could be said about the backlog.
- `FcgiFraming`: the parser is run on the octets there are; memory is not always
  out.
- `Connection`: the server's handler runs to its end and the worker handles
  events that are there, which is what `EventLoop` shows.
- `Processes`: processes are scheduled and pending signals are delivered (weak fairness).  The
  master's `fork()` and `wait()` steps are disabled while a signal is pending on it, and signals do not come
  so fast that it never gets through (strong fairness).  A worker that waits for events may
  wait for ever.
- No fairness is assumed of peers, of signals or of the other worker: no peer
  has to send, to hang up or to wait.

## Proofs

All theorems are for every value of the constants that satisfies the assumptions of the
module: for `EventLoop` every `MaxConnections` and `MaxEvents` above zero, every
set of descriptors that does not contain the listening one, and every set of
peers; for `Processes` every number of workers above zero; for `Arena` every size of a block and all sizes
asked for; for `HashTable` every set of keys and values, every hash and every size that
rounding does not turn into zero; for `Server` every `MaxConnections` and `MaxEvents`
above zero, every set of descriptors without the listening one and every set of peers, of which `NoClient` is none
(`ServerAssumption`); for `FcgiFraming` every set of streams whose messages are what
a header can announce, that is, type, padding and flags of one octet, id and content length
of two (`StreamsAssumption`), and every `SizeMax` (`ParserAssumption`: `Null` is no buffer, `Unset` no octet); for
`Connection` every receive buffer that is not empty (`BufferAssumption`), every set of failing allocations and every
set of dialogues whose requests are whole: BEGIN_REQUEST, then PARAMS and STDIN in any order and in any number of
messages the parser can follow, each closed by its empty message (`ScriptsAssumption`); for `FcgiResponse` every set of
ids of two octets, every names, values and outputs made of octets, and every length limit up to 2^16
(`ResponseAssumption`).
Names, values and contents may have any length that fits in a message, a stream any number of messages and a
dialogue any number of requests.

| module | theorem | says |
|---|---|---|
| `EventLoopProofs` | `TypeCorrectness`, `Invariance` | `Spec => []TypeOK`, `Spec => []IInv` |
| | `LookupCorrect` | the scan by descriptor ends in the busy slot of the present peer |
| | `NoCrash` | the NULL branch of `main.c` 315 is unreachable |
| | `EventsAreFresh` | no event reaches a descriptor's later peer |
| | `NothingLeaks` | busy slots, open and watched descriptors correspond one to one |
| | `ConnectionsAreFresh` | nothing of a request outlives its event (`FreshBetweenEvents`, a part of `IInv`) |
| | `RefusalsAreJust` | a peer is refused only when as many descriptors are open as there are slots |
| | `Refinement` | `Spec => ImplementsTable` |
| | `DeafnessIsARace` | a worker waits with its flag cleared only after the race |
| | `WorkerRefinement` | `Spec => LivesAsWorker` |
| `ServerProofs` | `Composition` | `Spec => BothAreEventLoops`: each worker is an event loop, with the other in its environment |
| | `BothAreSound` | `IInv` and `DistinctPeers` of `EventLoopProofs` hold of both workers |
| | `NeitherCrashes` | the NULL branch is unreachable in both |
| | `RefusalsAreJust` | a peer is turned away only while as many are served as one worker has slots |
| `ProcessesProofs` | `TypeCorrectness` | no more workers than wanted |
| | `InterruptReachesAll` | SIGINT to the group is pending on or known to every process, those forked later included |
| | `WaitingIsRunning` | no worker waits with its flag cleared but after the race |
| `ArenaProofs` | `TypeCorrectness`, `RegionsInBounds` | blocks are not overfilled; regions lie in the used part of their blocks |
| | `Refinement` | `Spec => ImplementsAllocator`: regions in use share no octet |
| | `NewBlocksServe` | a new block serves its request and leaves half |
| | `PeriodsReplay`, `RepeatsAreFree` | a request like the one before needs no new block |
| `HashTableProofs` | `Invariance` | `Spec => []IInv` |
| | `NodesInPlace`, `UniqueKeys` | nodes are in the bucket of their hash; no key is there twice |
| | `ExactCount`, `BoundedLoad` | the count is the number of nodes; the table is doubled in time |
| | `Refinement` | `Spec => ImplementsMap` |
| `FcgiFramingProofs` | `FilledInOrder` | buffers are filled from their start and within bounds, whatever the peer sends |
| | `FinishesAtBoundary` | a message is finished at its last octet, with what was sent |
| | `FailsStarvedOnly` | on supported messages the parser fails for want of memory only |
| | `ResponseInvariance` | `Spec => []ResponseInv`, for `FcgiResponse` |
| | `ResponseEndIsInStep` | the peer sees the end of a response when all of it was sent, and is in step, however long it is |
| | `ResponseWholeIfItFits` | a response that fits in its length field arrives whole, with the line of every header |
| `ConnectionProofs` | `ConnectionInv` | `Spec => []Inv` |
| | `ExecutesWhatWasSentTheorem` | a request is executed when it has been read in full, with its id, parameters and body |
| | `WholeRequestIsExecutedTheorem` | a request that is there in full is executed |
| | `ServedPeerIsKeptTheorem` | a waiting peer is closed on after its answer only when its next request was quicker |
| | `StaysInStepTheorem` | events for a waiting peer without KEEP_CONN begin at a request |
| | `RepliesAreEarnedTheorem` | and it gets no answer it has not asked for |
| | `HandlerRefinement` | `Spec => HandlesAsEventLoop`, of `ConnectionHandler` |

**EventLoop.**  None of the checked invariants is inductive.  A freed slot
keeps its descriptor, and the lookup would stop there if the descriptor were open again in a
later slot.  `NoShadow` says that this does not occur: no slot before a busy one, free
or not, holds the same descriptor.  It is preserved when a connection is
established *because the first free slot is taken*: all slots before it are
busy, busy slots own open descriptors (`BusyOwnsDescriptor`), and the new descriptor was
closed.  It is preserved by closing, which changes no `socket_fd`.  `IInv` adds that every
open descriptor has a slot (`OpenHasSlot`), that the epoll set is the open
descriptors and the listening one (`InterestIsOpen`), and that the events left in a batch are for
descriptors that have been open since it was returned (`PendingIsOpen`): a handler closes
no descriptor but its own.  One lemma per kind of step (`EstablishedKeepsPool`,
`ClosedKeepsPool`, `ReusedKeepsPool`, `UntouchedKeepsPool`) carries the proof.

For the refinement, `LookupIsPeer` shows that the table the lookup yields is the kernel's
own, `peer`; then each step registers one entry, removes one, clears them or stutters.
That the capacity is kept needs a bijection between busy slots and open
descriptors (`OpenHasSizeOfBusy`).  `WorkerRefinement` maps each step of the loop to a step of
`WorkerLife`, and everything about connections to a stutter.

**Server.**  All that a step of a worker does to what both see is to leave the backlog alone or to take the first
peer from it (`StepsOfA`, `StepsOfB`).  To the other worker that is nothing, or its environment's step
`OtherWorkerAccepts`; hence `Composition`.  The theorems of `EventLoopProofs` then need no second proof: the module is
an `INSTANCE` for each worker, `SameA` and `SameB` say that its specification is that of the worker, and its
`IInv` and `DistinctPeers` hold of both (`BothAreSound`).  From these follow the rest.  When a worker finds no free
slot, every slot is busy and belongs to an open descriptor of its own, whose peers differ; so the peers it serves
are at least as many as its slots (`OpenOfA`, `OpenOfB`), and the server's include them.

**Processes.**  A worker that waits with its flag cleared has come from the test that way: `StopsOrRaced` extends
`WaitsOnlyWhileRunning` to `entering`, which only a set flag leads to, and in which a signal leaves its mark (`raced`).
`Fork` keeps it because a child begins at the test, not at the wait.  `InterruptIsKnown` is kept by `Fork` because of the two facts about
`fork()` above: the child has no signal pending, but its parent had none either,
so the flag it copies is cleared already.

**Arena.**  Regions of one block are handed out in order, so each ends where the used part
of its block ended then (`InBounds`), and a new one starts behind all of them; rewinding gives up all at once.

That a repeated request needs no block is about two periods between rewinds.  `Replayed` keeps, for
each, that its allocations can be made one after the other in the blocks there are now, by
first fit, and end where the arena is: a block added later stands behind the others, so it changes no earlier
choice.  While the second period repeats the first, its next size fits where it fitted before.

**HashTable.**  A search looks at one bucket.  That it finds every key needs `PlacedByHash`, which a
resize keeps as every node goes to the bucket of its hash in the new size;
uniqueness then follows across buckets.  The count is a cardinality, kept by `Insert` because the key was not
in the bucket, hence nowhere.

**Parser.**  `FcgiMessageProofs` says first, for every state, what one octet does to any parser: which fields
change, to what, and that the rest stays (`HeaderSteps`, `LengthSteps`, `NewParamSteps`, `StdinSteps` and so
on).  Two invariants rest on it.

`Filling` is about buffers and asks nothing of the peer.  While a name or a value is read, its buffer is
written up to `read_counter` before its end, the buffers of all earlier parameters are whole, and in a
length none is there yet.  It is needed because `read_counter` is shared: that it belongs to the buffer being
filled follows only from the order in which the states allocate.

`Follows(p, m, o)` says that `p` has read `o` octets of message `m` and knows what they say: in a
header which fields are there (`HeaderAt`), in PARAMS which pairs are held, in which one the parser
is, and that `message_size` is where that pair, its lengths, its name or its value end (`ParamsAt`).  That
is what makes the comparison `message_size == content_length` right: it holds at the end of the
last pair and of no earlier one, as every pair has octets.  One lemma per state
shows that the next octet of `m` leads to `Follows(q, m, o + 1)`, and that the octet after the last one finishes the
message (`OctetFollows`); without memory an octet does the same or fails (`OctetStarved`).
`InStep` is the invariant of the stream: as long as all messages so far are supported, the parser follows the
one after those handed on, from where that one begins.

Both need to know where things are on the wire.  Contents and streams are flattened with
`FlattenSeq`, whose definition is recursive.  That such a function exists is proved by induction on
the *set* of the lengths for which it does (`SetInduction`, from the least element of
its complement), after which `PartInWhole` gives each part its place.

**Response.**  `ResponseInv` says that the octets the socket took are the start of the message of some text, the whole
of it exactly when `whole` is set, and that the text has the line of every header.  The rest is about what the peer
makes of such a start.  `Decoded` walks through the octets with a recursive function; that there is one is
proved by induction from the last octet backwards, as a message ends behind its beginning (`DecodingExists`).
`BufferOctets` gives each of the five buffers its place, and `HeaderIsRead` says what the header of a message at a place
makes of the walk; so of the first `n` octets the peer sees none, one, two or all
three messages, depending on `n` alone (`StartIsSeen`): the length that is told was cut like the text was, and leads
exactly to the next header.  That no header is left out holds for any order in which the table yields them,
since an order of all of them without repetition reaches each one (`OrderHasAll`).
`FcgiResponse` is an `INSTANCE` in `FcgiFramingProofs` (it and `FcgiFraming` both have an `Init` and a `Next`), which is
why the theorems state its assumption themselves.

**Connection.**  The properties speak of the end of a handler, which comes after any number of `recv()` calls of any
size.  What is inductive is what one *octet* keeps.  `Reading(st, s, k, n)` says of the parser and the request that the
octets read since the event began are the first `j` messages of request `k` and `o` octets of the next one: the parser
follows that one (`Follows`), and the request knows what `j` messages say (`RequestAfter`).  Then there are the ends: an
allocation has failed (`Broken`), the last message has been processed (`Served`), or it had been and an octet
of the next request was processed as well (`Spoiled`).  `Outcome` is their disjunction, `OutcomeStep` the lemma that an
octet keeps it: either the parser goes on in its message (`OctetFollows`), or the message ends and the next one
begins, with the octet or after it, and the request is told of it.  For the latter, `ParametersOf` and
`BodyOf` of `j + 1` messages must be those of `j` with one message appended: parameters are a fold of the pairs into a table
(`Table`), in which the last value of a name stays.

`ParseBuffer` is a recursive function from places in the buffer to sets of outcomes.  That it exists, and that every
element of its last set is an `Outcome`, is again shown by induction on the set of places (`BufferOutcome`).
The rest of the invariant is about calls: `Serves` says where the handler is between two of them, in an event that began
at the first octet of a request.

Which events do begin there is `ModestInv`, for peers that wait for their answers and do not set KEEP_CONN: such a
peer has sent no octet of a request before the answer to the one before it, so when the request has been executed the buffer is used
up to its end exactly, and when it has not, the connection is closed.  `StaysInStep` and `RepliesAreEarned` follow.  For other
peers `RepliesAreEarned` is not true in general: a server that lost its place parses whatever follows, and octets of
a body may be a request.  The dialogues of the run have no such octets, and there TLC checks it for all of them.

`HandlerRefinement` needs two facts more (`HandlerInv`): a request that waits for BEGIN_REQUEST has no flags, as no message
leads back to that state (`ProcessedIsRequest`), so the loop's rule to close a connection without progress agrees with that of
the handler; and until a `recv()` has returned octets the parser and the request are as they were initialised.

Only model-checked: everything about liveness, which is out of the prover's reach; the invariants of strings
and of the log.  `Strings` and `Log` take numbers
apart with powers of ten and loops over digits: what those compute for every input is induction over data.
`StaysInBuffer` and `ContentIsWanted` are, besides, false for most formats with a literal behind an argument:
a theorem would be about the very lengths the run has.  `UnpaddedStdinFinishes` and the format that overruns its buffer are false,
and TLC shows how.
`Pow2Size` is proved about as an unknown function where a proof needs only that it does not return zero,
because powers are out of the prover's reach; that it is right is `RoundsUp`, on sizes of 28 bits.

## Variants

A definition named `X_Variant` next to `X` is `X` with a mistake that would be easy to
make in the code.  No specification uses one.  With `X` replaced by it, TLC
finds the property violated:

| property | definition | mistake |
|---|---|---|
| `LookupFindsOwner`, `ImplementsTable` | `FindsFree_Last` | the last free slot is taken |
| `NeverCrashes` | `FindsFree_First` | the search for a free slot ignores `is_busy` |
| `NoStaleEvent` | `AcceptRefused_Evicts` | a full pool closes a connection in use |
| `HangUpIsReclaimed` | `ConnectionReused_AsIs` | a kept connection is not initialised again |
| `NoLeak` | `Close_NotClosed` | EPOLL_CTL_DEL without `close()` |
| `DeafOnlyByRace` | `Sigint_Restarts` | `epoll_wait()` resumes after the signal |
| `RefusedOnlyWhenFull`, `RefusedOnlyWhenOneIsFull` | `ConnectionClosed_StaysBusy` | the slot is not freed |
| `LivesAsWorker`, `StopsUnlessRaced` | `LoopTest_Forever` | the flag is not tested |
| `BacklogIsServed` | `AcceptRefused_Postponed` | a full pool leaves the connection in the queue |
| `WaitsOnlyWhileRunning` | `Born_Untested` | the loop waits before it tests the flag |
| `InterruptIsKnown` | `Fork_WhilePending` | the master forks with the signal pending |
| `GroupStops` | `Fork_Fresh` | a child starts with its flag set |
| `FinishedAtBoundary` | `IsCounted_Always` | the octet after a message is counted |
| `FailsOnlyStarved` | `AfterHeader_AlwaysBody` | a message without content is not special |
| `BuffersFilledInOrder` | `StoreLast_FromEnd` | a buffer is filled from its end |
| `EveryMessageHandedOn` | `NewParam_CountsOne` | a long length is counted as one octet |
| `ExecutesWhatWasSent` | `Stored_FirstWins` | a repeated name keeps its first value |
| `WholeRequestIsExecuted` | `Reuse_KeepsRequest` | only the parser starts afresh |
| `RepliesAreEarned` | `Terminated_Either` | either empty message ends the request |
| `ServedPeerIsKept` | `MustClose_WhenDrained` | a late empty read closes |
| `StaysInStep`, `PeerIsAnswered` | `MustClose_OnErrorOnly` | an unfinished request is kept |
| `HangUpCloses`, `HandlesAsEventLoop` | `MustClose_KeepsSilent` | a connection without a message is kept |
| `EndIsInStep` | `Message_Uncut` | all of a text is written under its cut length |
| `WholeIfItFits` | `Cut_Signed` | the length is a signed number |
| `KeysAreUnique` | `Rehashed_OldMask` | chains are chosen with the mask of the old array |
| `CountIsExact` | `InsertButNotResize_Uncounted` | a key whose resize failed is not counted |
| `LoadIsBounded` | `NeedsResize_Above` | the table grows one key too late |
| `ImplementsMap` | `IsKey_ByHash` | hashes are compared, keys are not |
| `ImplementsAllocator` | `Advanced_Assigned` | the fill of a block is the last size |
| `RepeatNeedsNoMemory` | `Rewind_First` | only the first block is rewound |
| `NewBlocksHaveRoom` | `NewBlockSize_Exact` | a block is as large as its request |
| `StaysInBuffer` | `FormatBuffer_Tight` | the buffer of a format has its length, not twice its length |
| `ContentIsWanted` | `AppendAndGrow_Empty` | the old octets are not copied |
| `LineIsStartOfText` | `Appended_WholeBuffer` | a part is compared to the whole buffer |

## What the models show about the code

Found violated:

- **STDIN content without padding is an error** (`FcgiFraming_stdin`).  `sl_fcgi.c` 242 sets
  the state FINISHED and `continue`s; the loop's next turn finds no case for
  FINISHED, and its default (254-256) sets ERROR.  Any request whose body comes in an unpadded
  message is closed on.  The same place for PARAMS (185-186) returns.

- **A format may store an octet behind its buffer** (`Strings_log`).  `sl_string.c` 136 stores
  literal octets without the test of 59.  With "FCGI parameter: %S=%S" (`sl_fcgi.c` 181), whose
  buffer has 64 octets, a name of 48 octets fills it, and "=" is stored behind it.  The format of headers, "%S: %S\r\n", is no
  safer: 16 octets are allocated, and a name of 15 or 16 octets, or a name and a value of 13 or 14 together,
  makes a literal be stored past the end, as do longer ones that fill a grown buffer.  The program sends one
  header, "Content-Type: text/plain", for which there is room (`Strings`), as there is for the counts and
  the body it logs.

Seen while modelling, and stated in the models as conditions of the properties:

- A request that is not read to its end in one event is lost.  Without KEEP_CONN
  the connection is closed.  With it the connection is kept and initialised again: the
  rest of the request is taken for a new message and the peer waits for ever
  (`StaysInStep` and `PeerIsAnswered` are stated for peers without KEEP_CONN).
- What follows a complete request in the buffer is dropped, so a peer that
  pipelines loses requests (`RepliesAreEarned` says no answer is made up of the rest, unless
  its octets are themselves a request).
- A request that fills the buffer exactly leads to one more `recv()`.  If a quick peer has sent
  its next request by then, those octets are processed as part of the finished
  one and the connection is closed (the condition of `ServedPeerIsKept`).
- `writev()` may write a part or nothing; the connection is kept as if the
  answer had been sent (the disjunct `unsent` of `PeerIsAnswered`, `whole` of `EndIsInStep`).
- A response of 65536 octets or more is cut to the rest of its length (the condition
  of `WholeIfItFits`); the peer stays in step.
- SIGINT between the test of the flag and `epoll_wait()` is noticed with the next event only
  (`DeafOnlyByRace`, `StopsUnlessRaced`); the master then waits for that worker (`GroupStops`).
- A worker that ends before its time is not replaced, and after a failed `fork()` the master leaves
  the workers it has, which keep the port (`WorkerDies` and `ForkFails` of `Processes`; SIGINT to the group
  still ends them, `GroupStops`).
- A full worker that accepts a connection first refuses it, although the other may have room
  (`RefusedOnlyWhenOneIsFull` promises the slots of one worker, not of both).
- When descriptors run out before slots do, `accept()` fails, the listening socket stays ready, and the worker
  turns round without waiting (`BacklogIsServed` is checked with more descriptors than slots, and assumes an `accept()`
  that does not fail for ever).
- A short `writev()` on a kept connection is followed by the next response (`FcgiResponse` has one response per connection).
- The padding of an empty message and of BEGIN_REQUEST is not skipped, and a pair cut
  over two PARAMS messages makes the parser lose its place (`IsSupported` lists what it can follow).
- Allocation failures in `sl_fcgi_request_append_param` are not looked at: a failed name
  is dereferenced, a failed value is stored as NULL, a failed bucket drops the parameter.
- `sl_hashtable_set` reports an error when a resize fails although the key is stored
  (`Add` of `StringMap` allows it).
- Zero has no digits: `%z` prints nothing for it, and a log with port 0 shows no address.
- `errno` is read when a line is written, not when a call failed: a failure nobody logs, such as
  EAGAIN, is told with the next error line.

## What is not modelled

- *The process name* (`sl_main_set_process_name`), *the address and options of the listening
  socket*: straight-line calls that no other part depends on.  That they fail ends the process, which
  `StartFails` and `WorkerDies` are.
- *Counters of the structs that are never read* (blocks, resizes, wasted octets and the like).
- *Wording of logs, dates and of the response's text*: no property is about it.
- *What C leaves undefined after the two findings*: an octet stored behind a buffer is modelled as
  found changed by others, not by what it may do to them.

## Plan

Done: event loop and pool, two workers, processes, parser, request, connection, response, table, arena,
strings, log; the refinements between them; theorems about event loop, server, processes, arena, table,
parser, connection and response.  Left, in order:

1. Two responses on one kept connection, the first cut by `writev()`.
2. `Server` for any number of workers.
