# Verification of WireCommand

TLA+ models of WireCommand, the TLC runs that check them and TLAPS proofs about
them. `PROJECT.json` gives, for every definition, the source lines it stands
for, and lists the runs, hazards, findings and theorems.

## The system

WireCommand answers three commands (`LS`, `PWD`, `CAT`) over stream sockets.

| Part | Source | Modules | Status |
|---|---|---|---|
| Poll server, one thread, UNIX socket | `server_uds.c` | `ServerUds`, `SocketPath` and their proofs | modelled |
| Thread-per-client servers | `server_uds_threaded.c`, `server_tcp.c` | `WorkerPool`, `WorkerSession` and their proofs, `SocketPath` | modelled |
| Client program | `main_client.c` | `Client`, `ClientOptions`, `ClientSession`, `RemoteCall`, `ClientSessionProofs` | modelled |
| Commands | `commands.c` | `CommandQuote`, `CommandRun`, `CommandRunProofs` | modelled |
| Wire protocol | `protocol.c` | `Protocol`, `ProtocolBytes`, `ProtocolStream`, `ProtocolProofs` | modelled |
| Byte buffer | `buffer.c` | `ByteFifo`, `Buffer`, end of `WorkerSessionProofs` | modelled |
| Request queue | `queue.c` | `RequestFilter`, `RequestFifo`, `RequestQueue`, `RequestQueueProofs` | modelled |
| Socket helpers | `socket_utils.c` | `Client` | `wc_socket_write_all`; the others are single calls that may fail where they are called |
| Server programs | `main_uds.c`, `main_uds_threaded.c`, `main_tcp.c` | `Signal` in the servers' modules | signal handlers |
| Logging | `logging.c` | | not modelled |

All servers share protocol, buffer and commands. The poll server parses
requests of all clients into one shared queue and answers in its order; a
threaded server gives each client a worker with its own buffers. A client sends
one request, waits for one response and exits.

## Modules

**ServerUds** is `wc_server_uds_run`. `pc` says where the loop is; a helper that
loops (reading, parsing, writing, accepting, discarding a client's requests) is
one step each time round, so clients and signals interleave between system
calls. The kernel's part is explicit: descriptor numbers (`file`; the smallest
free one is handed out, as POSIX requires), the listen backlog, both socket
buffers of a connection. Byte streams are sequences of units, several to a
frame, so that frames are split and run together; a unit remembers its
connection and request, which the program does not see and the properties need.
`Fault` marks calls that fail; `MaxFaults` bounds how many. `accept()` that finds
no descriptor number, end of file, a full queue and malformed input are not
faults. Commands are one step and always yield a response that fits; their
inside is `CommandRun`.

**Protocol** has the encoders and parsers as operators over bytes. A byte has
`Radix` values; a `uint16_t` has `Radix * Radix`. Header sizes and types are the
code's. **ProtocolBytes** feeds the parsers any bytes, one at a time.
**ProtocolStream** composes an encoder, a stream and a parser, for requests and
for responses.

**Buffer** keeps the allocation as a function of offsets, longer than the
contents, and computes with `size_t` that wraps at `SizeMax`. Each turn of the
growth loop is a step. Bytes a `realloc` adds have one arbitrary value.
**ByteFifo** is what it promises; `IsByteFifo` is the refinement.

**RequestQueue** has nodes, `next` pointers, `head`, `tail` and `length`; the heap
is a function whose domain is what is allocated. The loops of discard and clear
are a step a turn. **RequestFifo** is the abstract queue, **RequestFilter** what a
discard leaves of it; under the mapping (`Items`) a discard or a clear happens
when it is called, and the turns of its loop are stuttering steps. The
properties find the list as a reader of the C code would, by following `next`
from the head (`Follow`).

**WorkerPool** is the life of the threads in both threaded servers, `Transport`
choosing between their differences: the TCP server reaps finished workers
before it starts one, the UNIX one has a path to unlink. A section under
`workers_lock` is one step, since nothing in one blocks. A worker's exchange with
its client is `WorkerServes`, which ends the session or goes round again; a
command is a process, from `CommandStarts` to `CommandEnds`, that has a copy of
every descriptor open when `popen()` made it (`inherited`). With `Reconnects`,
clients come back. The mutex, the table and the flag are members of a local
variable of `wc_server_*_run`, so they end with that call (`Return`), whether the
mutex was destroyed before (`DestroyMutex`) or kept because a join failed; a worker
that was not joined then reads anything. Left out: a failing restore of the signal mask (logged only)
and `wc_buffer_init`, which fails only on a null pointer.

**WorkerSession** is one worker with its client: the loop of `wc_tcp_worker_main`,
which is also that of `wc_threaded_uds_worker_main`, with parsing, the command,
short reads and sends, the output buffer, every way a session ends, and a client
that pipelines, half-closes, leaves or sends a malformed frame.

**ClientOptions** has the option loop of the client, one turn an operator, and,
independently of it, the lines it is meant to take (`WellFormed`) and those of the
usage text (`OfUsage`). The text offers less than the loop takes: `--port` without
`--host` and repeated options are accepted. **Client** has the program from
that loop to its exit status. **ClientSession** puts a `Client` and a `WorkerSession`
at the two ends of one connection (`INSTANCE` of both, sharing the kernel's
buffers) and adds how a connection begins: in the backlog, accepted, turned away
or left behind by a server that stops. **RemoteCall** is what it promises: the
command runs at most once and only if asked for, nothing is printed of an answer
that did not arrive whole, and exit status 0 means that all of it was printed. An
answer without data is shown in full as soon as it has arrived.

**CommandQuote** has the quoting of a path and the command line made of it, with
`size_t` arithmetic, and a POSIX shell's reading of such a line. The size of the
quoted form is checked before it is computed, the length of the line is not, and
wraps around in the model as it would in the code. `MaxPath` is the longest path a
request can carry. **CommandRun** is a
call of `wc_command_ls`, `_pwd` or `_cat` to its return, with the heap, the pipe and
the child. What the child prints is arbitrary, and it may print for ever.

**SocketPath** has several servers starting and stopping on one path, every call on
the path a step, and any of them killed anywhere.

The `MC...` modules hold the symmetry sets and input sets of the runs.
`SocketPath` and `Buffer` name their specifications `PathSpec` and `BufferSpec`, so
that their proofs can stand beside those of another component.

## Runs

| Run | Instance | States | Checks |
|---|---|---|---|
| `server_live` | 2 receiving clients, 2 slots, queue of 1, response larger than the socket buffer | 372k | `RequestAnswered`, `StopHeededAtNextEvent` |
| `server_reuse` | 2 clients at once, 2 slots and 2 descriptors used again, 2 requests each, queue of 2, split frames, short writes, 1 fault | 10.4M | `ResponsesInOrder`, `SleepsOnlyWhenBlocked` (no lost wake-up), `QueuedForSender`, `DescriptorsOwned`, `CleanShutdown`, `ClosedForCause` |
| `server_stop` | as `server_live` | | violates `StopReturns` |
| `server_stall` | one client that need not receive | | violates `RequestAnswered` |
| `protocol` | radix 3; 3 messages and 1 failing append; any stream of up to 9 bytes | 91k | `StreamDelivered`; parsers that take only encodings (`OnlyEncodings`), take nothing back (`DecisionsStable`) and never get stuck (`FullBufferDecides`) |
| `buffer` | `SIZE_MAX` 7, limits up to it | 2.5k | `GrowsWithinLimits`, `IsByteFifo` |
| `request_queue` | 4 nodes, 2 clients, 2 bodies | 96k | `PointersSound` (list, memory), `LoopsEnd`, `IsFifo` |
| `workers` | TCP, 3 connections, 2 slots, 1 fault, commands that need not end | 547k | `SlotPerWorker`, `DescriptorsOwned`, `MutexOutlivesWorkers`, `CleanReturn`, `AdmittedWhenRoom`, `ShutdownWaitsForCommands`, `OthersServed` |
| `worker_session` | up to 4 pipelined requests, an input buffer of 2 frames, 1 fault | 128k | `ResponsesInOrder`, `AnsweredBeforeClose`, `ClosedForCause`, `RequestAnswered`, `SessionEnds` |
| `client_session` | command lines of up to 5 words, 2 faults | 488k | `ReadsCommandLine`, `AcceptedSucceeds`, `IsRemoteCall`, `BothEndsFinish` |
| `commands` | arguments of up to 5 bytes of 8 kinds, results up to 4 bytes, 2 faults | 231k | `ArgumentQuoted` (against the shell), `OutputWhole`, `NothingLeaks`, `RunReturns` |
| `socket_path` | 3 servers started twice each, 1 fault | 98k | `PathHasOwner`, `AloneIsReachable` |

A property that is a conjunction of named parts is one promise seen from several
sides; each part has its own comment in its module.

Bounds. Two clients are the least that can disturb each other, and more
connections than slots make slots and descriptor numbers be reused. In
`server_reuse` a client has a neighbour to be confused with, the queue holds two
requests that can change places, its head can be blocked with the other client's
request behind it, and a client whose request meets the full queue can be told
from the one that filled it. `server_live` is smaller because liveness is checked
on it. A radix of
3 makes `UINT16_MAX` 8, so nine bytes go past the largest request and every
field can be out of range or wrap. Four nodes give a discard that unlinks the
first, the last, adjacent and separated nodes. `SIZE_MAX` equal to the largest
limit makes the doubling of the buffer wrap if it is done unguarded; 19 for the
commands makes an argument of five bytes too long to quote and one of four the
longest that fits, with a command line whose length can wrap; requests carry up
to three (`MaxPath`). A child may write more than the call takes in before it gives
up. Five words hold every option with its value, a repeated option and a command
too many. A third server lets one path be replaced under two others. The
cap on units, messages and faults bounds the length of a history, not its shape.

Deadlock is checked for the buffer and the queue, which always accept another
call. Elsewhere it is off: a server, a session and a call return, a server may
wait for clients that do nothing, and streams are of bounded length.

### Fairness

Where a run allows faults, fairness is of the steps in which no call fails, so
that no property holds because an error is bound to happen.

* The poll server takes its next step unless it is in `poll()`, and the kernel
  ends a `poll()` that has an event. Clients in `Readers` keep receiving; nothing
  else is assumed of clients.
* `WorkerPool`: each thread is scheduled; its `poll()` has a timeout. A command may
  run for ever, and the two properties say what then still happens:
  `OthersServed` (accepting, rejecting and reaping do not wait for it) and
  `ShutdownWaitsForCommands` (it is the only thing a shutdown can wait for).
* `WorkerSession`, `ClientSession`: the worker's steps, the end of a command, the
  client program's steps. `RequestAnswered` and `HalfClosedReleased` have the
  premise `ClientReads`, that the client goes on receiving; `LeaverReleased` and
  `StopEndsSession`, the other parts of `SessionEnds`, have none.
* `CommandRun`: the call's steps; the child, as long as it has not ended, writes
  when the pipe has room. A child that neither writes nor ends does block the
  call: the code has no timeout.
* The buffer and the queue finish a call they began.

### Findings

* `server_stop`: `server_uds.h` says "Run until stop_requested becomes nonzero".
  A signal handled between the loop test (`server_uds.c:485`) and `poll()` without
  timeout (`:494`) is not noticed until the next event. `StopHeededAtNextEvent` is
  what does hold. The threaded servers poll with a timeout and pass
  `ShutdownWaitsForCommands`.
* `server_stall`: the README says that a short operation "cannot stall the entire
  single-threaded UDS server". A client that stops receiving and has another
  request queued blocks the head of the shared queue (`server_uds.c:395`), and so
  every client behind it.

A third disagreement has no run of its own. The client's usage text
(`main_client.c:22`) offers `--port` only beside `--host` and every option once; the
option loop takes a `--port` alone, which selects TCP with the default host, and
repeated options, of which the last counts. `ReadsCommandLine` says both: lines of
the usage text are taken and each of their values is used, and of other lines
exactly the well-formed ones are taken.

Three behaviours contradict no document and are recorded as remarks. When a
join fails at shutdown, a threaded server keeps the mutex for the worker that may
still run, but the mutex is on the stack of the function that returns next: from
then on nothing is promised, and `MutexOutlivesWorkers`, `SlotPerWorker` and
`DescriptorsOwned` end there (`Outlived`). A process that runs one client's command has copies of the other
clients' descriptors, none being close-on-exec, so a client whose session is
over may see the end of file only when another client's command ends. The
accept loop does not test the stop flag: `ShutdownWaitsForCommands` is for
finitely many connections (`Reconnects = FALSE`).

## Proofs

Each holds for every value of the constants, under the named assumptions of the
modules (sizes are positive, an input buffer holds a frame, the radix is more
than 2, arguments consist of bytes, limits do not exceed `SIZE_MAX`, the heap is
finite, and a `size_t` counts the command line of any path a request can carry).

* `ServerUdsProofs` (with `ServerUdsInvariant`): `TypeOK`, `QueuedForSender`,
  `DescriptorsOwned`, `QueueBounded`, `CleanShutdown`, `SleepsOnlyWhenBlocked` and
  the action property `ClosedForCause`. That a queued request belongs to the
  connection on its descriptor is not inductive. `IInv` adds that the slot a call
  works on is in use, that the units in a socket come from its client, and that
  an input buffer holds units of its slot's connection; one lemma per action.
  The other three need what the loop has established where it is (`LoopInv`):
  how far start-up and shutdown have come (`Lifecycle`), which input buffers are
  parsed out (`Parsed`) and which client blocks the queue (`Blocked`) when `poll()`
  is entered, that a malformed message comes from a client that sent one
  (`WellFormed`), and that a hang-up is reported only of a client that left
  (`Reported`).
  `ResponsesInOrder` has an invariant of its own. `OrderInv` follows each client's
  units through all the places they may be in: a prefix of its requests has been
  answered, the next ones are in the shared queue in order, the rest is in its
  input buffer and then in the socket; what is answered is in its output buffer,
  in the socket or received. A slot or descriptor number that is used again
  starts a new account.
* `WorkerPoolProofs`: `SlotPerWorker`, `DescriptorsOwned`,
  `MutexOutlivesWorkers`, `CleanReturn`, for both transports, with clients that
  come back or not. `IInv` adds what the main thread has in hand (`Control`), that
  a connection has no thread before it is handed to one (`NotStarted`), that a
  thread that has yet to read its slot will find its own descriptor there
  (`SlotFilled`), what the shutdown has done so far (`Ending`: with no failed join,
  slots below `index` are free), and that only a process that runs holds copies
  of descriptors (`Copies`). One lemma per part of `IInv`, one step per action.
  `AdmittedWhenRoom` is proved of the TCP server, the one that reaps before each
  start; `Room` adds that while it reaps, a slot it has freed, or one it has yet
  to look at whose worker has finished, is left for the client in hand.
  The module ends with `SocketPath`: `PathHasOwner` and `AloneIsReachable`, for any
  number of servers. The second needs that beside a server alone since it started
  every other is off, and that it finds the path free when it binds (`AloneInv`).
* `WorkerSessionProofs`: `RoomToRead` (the `EMSGSIZE` branch of the read loop is
  never taken), `ClosedForCause`, `ResponsesInOrder` and `AnsweredBeforeClose`.
  `IInv` adds that a worker waiting for input or about to read holds less than a
  frame (`ShortInput`), that a malformed header comes from a client that sent one
  (`WellFormed`), that a hang-up or an error is reported of a client that is gone
  or by a fault (`Reported`), and `ClosedForCause` one step earlier (`Cause`). The
  last two rest on `InOrder`: some number of answers accounts for every unit sent
  and produced (`Account`).
  The module ends with `Buffer`, of which a session has two: its types and
  `CapacityBounded`, and that it implements `ByteFifo`. The invariant (`BufferInv`)
  adds what `wc_buffer_append` checked before it called `wc_buffer_grow`, which must
  still hold when `realloc` returns.
* `ProtocolProofs`: the round trip of both directions, `DecisionsStable`,
  `FullBufferDecides`, `OnlyEncodings`, and `StreamDelivered` for streams of any
  messages, cut anywhere. The arithmetic (two bytes and the number they make) is
  isolated in lemmas. The invariant of the stream (`StreamInv`) is that the
  unparsed input and the unsent output together are the encodings of the
  messages between the parsed and the encoded ones, laid end to end (`Laid`,
  which gives their offsets and so needs no induction); the header of a message
  whose argument is not written yet does not count.
* `RequestQueueProofs`: `PointersSound` and `IsFifo`, for any number of
  nodes, clients and bodies. Neither is inductive in its own words, which follow
  links. `QueueInv` says instead that there is a sequence `s` of distinct nodes
  such that `head` (while clearing, the cursor) is linked through `s` and nothing
  else, the nodes of `s` and the caller's are exactly the heap, `length` and `tail`
  are those of `s`, and a discard in progress has kept the first `k` nodes of `s`,
  with `previous` and `current` on either side. An action leaves `s` alone, appends
  a node or cuts one out (`Cut`), and the same happens to the requests its callers
  see; `FollowList` then shows that following the links gives `s`, and `WithoutCut`
  that a turn of the discard loop is invisible.
* `CommandRunProofs`: `ArgumentQuoted`, `OutputWhole` and `NothingLeaks`.
  `LineReads` is about the command line alone: the shell's state after each byte
  that the quoting loop wrote, and so the words it reads, for every path a request
  can carry; `LengthOfLine` that the length of such a line does not wrap, which the
  code does not check and the assumption on `SIZE_MAX` gives; `FitsInMemory` that
  the allocation of the quoted form neither wraps nor is too small, for an argument
  of any length. `RunInv` adds to
  the last two properties what is allocated at each step (`Allocations`), that
  buffer, chunk and pipe laid end to end are what the child has written
  (`Reading`), and what is known once the stream is being closed (`Closing`).
* `ClientSessionProofs`: `AcceptedSucceeds`, `ReadsCommandLine` and the refinement
  of `RemoteCall`. `SessionInv` follows the one request and the one response
  through both programs and the socket as runs of units that lie end to end
  (`Requested`, `Responded`), bounded by where the two programs are (`ClientPlace`,
  `ServerPlace`); `Undisturbed` keeps apart what only a fault or a stop can cause.
  `CommandLineInv` says what the option loop knows of the pairs it has read
  (`Parsed`), and that it stops only at one that is in no well-formed line.
  `UsageFromReading` draws from it what is said of the usage text.

What a loop over data computes (following links, filtering a queue, quoting,
the shell's reading) is a recursive function in the model. The library's
induction rules cannot be used by the provers at hand, but one fact can: a set of
naturals that is not empty has a least element (`LeastNumber`, from the
well-foundedness of `<`). Induction over a set of naturals (`SetInduction`) follows,
and the lemmas about such functions rest on it.

Only model-checked: all liveness, which is out of the prover's reach
(`RequestAnswered`, `StopHeededAtNextEvent`, `SessionEnds`, `OthersServed`,
`ShutdownWaitsForCommands`, `BothEndsFinish`, `RunReturns`, `LoopsEnd`, and
`GrowEnds`, the part of `GrowsWithinLimits` beyond its bounds). Every safety
property and every refinement of the runs has a theorem.

## Not modelled

* Logging: records are formatted and written to standard error, and nothing is
  read back.
* The option loops of the server programs: each fills one structure before
  anything else runs, with fewer options than the client's loop, which is
  modelled.
* `wc_socket_set_nonblocking` and `wc_socket_ignore_sigpipe` beyond being calls
  that may fail where they are called.
* Resets of a TCP connection, which may discard data already delivered: a
  client that leaves does end the session, but what was sent before stays
  readable. The copy of the listening descriptor in a child process.
* A worker's session inside `WorkerPool` and `ServerUds` over the real queue and
  buffer: the product of the state spaces is out of reach. The abstract queue
  and byte sequences they use instead are what `IsFifo` and `IsByteFifo` show the
  real ones to implement.
* The UNIX variant of `WorkerPool` in a run: the proofs cover its safety, and the
  run has the TCP variant, which has the extra reaping step. Its liveness
  (`OthersServed`, `ShutdownWaitsForCommands`) is therefore neither run nor proved.
