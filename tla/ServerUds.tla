------------------------------ MODULE ServerUds ------------------------------
(***************************************************************************)
(* The single-threaded poll() server of src/src/server_uds.c, with the     *)
(* kernel objects it works on (descriptor table, listen backlog, socket    *)
(* buffers) and the clients at the other end of its connections.           *)
(*                                                                         *)
(* Byte streams are sequences of units.  A request frame is FrameUnits     *)
(* units and a response ResponseUnits units, so a frame may be split over  *)
(* several reads and a response over several sends.  A unit records the    *)
(* connection it was written for, the number of the request on that        *)
(* connection and its place in the frame; part 0 is a malformed header.    *)
(* What the bytes of a frame are is the subject of module Protocol.        *)
(***************************************************************************)
EXTENDS Integers, Sequences

CONSTANTS
  Conns,          \* connections that clients may make, each used once
  NoConn,         \* "this descriptor is not open"
  Fds,            \* descriptor numbers the kernel may hand out for clients
  MaxClients,     \* WC_UDS_MAX_CLIENTS
  MaxQueued,      \* WC_UDS_MAX_QUEUED_REQUESTS
  FrameUnits,     \* units of a request frame
  InputUnits,     \* WC_UDS_INPUT_LIMIT
  ResponseUnits,  \* units of a response (= WC_UDS_OUTPUT_LIMIT)
  ReadUnits,      \* WC_UDS_READ_SIZE, the most one read() returns
  SocketUnits,    \* what the kernel buffers towards a client before EAGAIN
  MaxUnits,       \* bound on the units one client sends
  MaxFaults,      \* bound on failing allocations and system calls
  Readers         \* clients that keep receiving what they are sent

ASSUME ConnAssumption == NoConn \notin Conns
ASSUME FdAssumption == Fds \subseteq Nat
ASSUME SizeAssumption ==
  /\ MaxClients \in Nat \ {0} /\ MaxQueued \in Nat \ {0}
  /\ FrameUnits \in Nat \ {0} /\ ResponseUnits \in Nat \ {0}
  /\ ReadUnits \in Nat \ {0} /\ SocketUnits \in Nat \ {0}
  /\ MaxUnits \in Nat /\ MaxFaults \in Nat
  /\ InputUnits \in Nat /\ InputUnits >= FrameUnits
ASSUME ReaderAssumption == Readers \subseteq Conns

VARIABLES
  pc,             \* where wc_server_uds_run is
  caller,         \* the loop wc_uds_remove_client returns to
  at,             \* the client slot the current call works on
  stop_requested, \* the flag the signal handler sets
  result,         \* what wc_server_uds_run returns
  listener,       \* listener_fd: "none", "open" or "closed"
  path,           \* does the socket path name this server's listener
  client_fd,      \* clients[slot].fd, -1 when the slot is free
  input,          \* clients[slot].input
  output,         \* clients[slot].output
  queue,          \* the shared FIFO of parsed requests
  revents,        \* poll_descriptors[].revents not handled yet, by slot
  file,           \* kernel: the connection an open descriptor refers to
  sock,           \* kernel: life of the server's end of a connection
  backlog,        \* kernel: connections waiting in accept()'s queue
  tosrv,          \* kernel: units sent by a client and not read yet
  tocli,          \* kernel: units sent to a client and not received yet
  peer,           \* client: "open", "half" (no more sending) or "gone"
  sent,           \* client: units sent so far
  malformed,      \* client: has it sent a malformed header
  got,            \* client: units received so far
  faults          \* failures injected so far

table == <<client_fd, input, output>>
kernel == <<file, sock, backlog, tosrv, tocli>>
ends == <<peer, sent, malformed, got>>
life == <<stop_requested, result, listener, path>>
vars == <<pc, caller, at, life, table, queue, revents, kernel, ends, faults>>

Slots == 1..MaxClients

(* The units a client writes for its request number n, and the units the   *)
(* server answers with: unit number k of a stream of frames of the given   *)
(* size belongs to frame (k - 1) \div size + 1.                            *)
Unit(c, k, size) == [conn |-> c, req |-> ((k - 1) \div size) + 1,
                     part |-> ((k - 1) % size) + 1]
BadUnit(c) == [conn |-> c, req |-> 0, part |-> 0]
Response(r) ==
  [p \in 1..ResponseUnits |-> [conn |-> r.conn, req |-> r.req, part |-> p]]

Fault == faults < MaxFaults /\ faults' = faults + 1
NoFault == UNCHANGED faults

------------------------------------------------------------------------------
(* The client table. *)

HasFreeClientSlot == \E s \in Slots : client_fd[s] = -1

(* Mutant: any slot in use will do. *)
FindClient_in_use(f) == {s \in Slots : client_fd[s] /= -1}

FindClient(f) == {s \in Slots : client_fd[s] = f}

First(S) == {s \in S : \A t \in S : s <= t}

(* Mutant: everything is consumed. *)
Consume_all(buffer, n) == <<>>

(* wc_buffer_consume *)
Consume(buffer, n) == SubSeq(buffer, n + 1, Len(buffer))

(* wc_uds_remove_client is called: it discards the requests queued for the *)
(* descriptor, one node at a time, then empties the slot and closes.       *)
RemoveClient(s, from) ==
  /\ pc' = "remove" /\ caller' = from /\ at' = s
  /\ revents' = [revents EXCEPT ![s] = {}]

(* at and caller are locals of the call that ends: they lose their value. *)
EndCall == at' = 1 /\ caller' = "dispatch"

(* Mutant: the queue is not searched for the client's requests. *)
Discardable_never(i) == FALSE

(* The queue without its entry number i. *)
Unlink(q, i) == SubSeq(q, 1, i - 1) \o SubSeq(q, i + 1, Len(q))

Discardable(i) == queue[i].fd = client_fd[at]

DiscardRequest ==
  /\ pc = "remove"
  /\ \E i \in DOMAIN queue :
       /\ Discardable(i)
       /\ \A j \in 1..(i - 1) : ~Discardable(j)
       /\ queue' = Unlink(queue, i)
  /\ UNCHANGED <<pc, caller, at, life, table, revents, kernel, ends, faults>>

(* Mutant: the descriptor is not closed. *)
Closed_not(f) == file

Closed(f) == [file EXCEPT ![f] = NoConn]

CloseClient ==
  LET f == client_fd[at]
  IN  /\ pc = "remove"
      /\ \A i \in DOMAIN queue : ~Discardable(i)
      /\ client_fd' = [client_fd EXCEPT ![at] = -1]
      /\ input' = [input EXCEPT ![at] = <<>>]
      /\ output' = [output EXCEPT ![at] = <<>>]
      /\ file' = Closed(f)
      /\ sock' = [sock EXCEPT ![file[f]] = "closed"]
      /\ tosrv' = [tosrv EXCEPT ![file[f]] = <<>>]
      /\ pc' = caller
      /\ EndCall
      /\ UNCHANGED <<life, queue, revents, backlog, tocli, ends,
                     faults>>

------------------------------------------------------------------------------
(* wc_server_uds_run: start, the loop test, and the queue. *)

OpenListener ==
  /\ pc = "start"
  /\ \/ /\ listener' = "open" /\ path' = TRUE /\ pc' = "test"
        /\ NoFault /\ UNCHANGED result
     \/ /\ listener' = "closed" /\ result' = -1 /\ pc' = "returned"
        /\ Fault /\ UNCHANGED path
  /\ UNCHANGED <<caller, at, stop_requested, table, queue, revents, kernel,
                 ends>>

(* Mutant: the server waits for its clients to leave. *)
StopSeen_idle == stop_requested /\ \A s \in Slots : client_fd[s] = -1

StopSeen == stop_requested

TestStop ==
  /\ pc = "test"
  /\ pc' = IF StopSeen THEN "closing" ELSE "process"
  /\ UNCHANGED <<caller, at, life, table, queue, revents, kernel, ends, faults>>

(* Mutant: requests are processed although the last response is pending. *)
HeadBlocked_never == FALSE

(* The head of the queue belongs to a client whose last response has not   *)
(* drained: wc_uds_process_queue stops there.                              *)
HeadBlocked ==
  queue /= <<>> /\ \E s \in First(FindClient(Head(queue).fd)) : output[s] /= <<>>

HasRoom(s) == Len(output[s]) + ResponseUnits <= ResponseUnits

(* One turn of the loop of wc_uds_process_queue that dequeues. A command   *)
(* that fails is answered too; encoding its answer fails only when memory  *)
(* does or when the output buffer has no room left.                        *)
ProcessQueue ==
  /\ pc = "process" /\ queue /= <<>> /\ ~HeadBlocked
  /\ queue' = Tail(queue)
  /\ LET owner == First(FindClient(Head(queue).fd))
     IN IF owner = {}
        THEN NoFault /\ UNCHANGED <<pc, caller, at, revents, output>>
        ELSE \E s \in owner :
               \/ /\ HasRoom(s)
                  /\ output' = [output EXCEPT ![s] = @ \o Response(Head(queue))]
                  /\ NoFault /\ UNCHANGED <<pc, caller, at, revents>>
               \/ /\ IF HasRoom(s) THEN Fault ELSE NoFault
                  /\ RemoveClient(s, "process") /\ UNCHANGED output
  /\ UNCHANGED <<life, client_fd, input, kernel, ends>>

(* wc_uds_process_queue returns, the poll list is built, poll() is called. *)
EnterPoll ==
  /\ pc = "process" /\ (queue = <<>> \/ HeadBlocked)
  /\ pc' = "poll"
  /\ UNCHANGED <<caller, at, life, table, queue, revents, kernel, ends, faults>>

------------------------------------------------------------------------------
(* poll(): entry 0 is the listener, entry s the client in slot s. *)

(* Mutant: POLLOUT is never asked for. *)
Events_no_pollout(d) ==
  IF d = 0 THEN IF HasFreeClientSlot THEN {"IN"} ELSE {}
  ELSE IF client_fd[d] = -1 THEN {} ELSE {"IN"}

Events(d) ==
  IF d = 0 THEN IF HasFreeClientSlot THEN {"IN"} ELSE {}
  ELSE IF client_fd[d] = -1 THEN {}
  ELSE {"IN"} \cup (IF output[d] /= <<>> THEN {"OUT"} ELSE {})

(* What the kernel reports on a connection, asked for or not. *)
Condition(c) ==
  (IF tosrv[c] /= <<>> \/ peer[c] /= "open" THEN {"IN"} ELSE {})
  \cup (IF Len(tocli[c]) < SocketUnits \/ peer[c] = "gone" THEN {"OUT"} ELSE {})
  \cup (IF peer[c] = "gone" THEN {"HUP"} ELSE {})

Revents(d) ==
  IF d = 0 THEN IF backlog /= <<>> THEN Events(0) ELSE {}
  ELSE IF client_fd[d] = -1 THEN {}
  ELSE Condition(file[client_fd[d]]) \cap (Events(d) \cup {"HUP"})

PollReturns ==
  /\ pc = "poll"
  /\ \E d \in 0..MaxClients : Revents(d) /= {}
  /\ revents' = [d \in 0..MaxClients |-> Revents(d)]
  /\ pc' = "dispatch"
  /\ UNCHANGED <<caller, at, life, table, queue, kernel, ends, faults>>

(* poll() fails with something other than EINTR, or the listener reports   *)
(* an error: both leave the loop with result -1.                           *)
PollFails ==
  /\ pc = "poll" /\ Fault
  /\ result' = -1 /\ pc' = "closing"
  /\ UNCHANGED <<caller, at, stop_requested, listener, path, table, queue,
                 revents, kernel, ends>>

DispatchClient ==
  /\ pc = "dispatch"
  /\ \E s \in First({t \in Slots : client_fd[t] /= -1 /\ revents[t] /= {}}) :
       /\ at' = s
       /\ pc' = IF "IN" \in revents[s] THEN "read" ELSE "write"
  /\ UNCHANGED <<caller, life, table, queue, revents, kernel, ends, faults>>

DispatchEnds ==
  /\ pc = "dispatch"
  /\ \A s \in Slots : client_fd[s] = -1 \/ revents[s] = {}
  /\ pc' = IF revents[0] /= {} THEN "accept" ELSE "test"
  /\ UNCHANGED <<caller, at, life, table, queue, revents, kernel, ends, faults>>

------------------------------------------------------------------------------
(* wc_uds_read_client and wc_uds_enqueue_complete_requests. *)

Conn == file[client_fd[at]]

Available == InputUnits - Len(input[at])

Smallest(a, b) == IF a < b THEN a ELSE b

ReadClient ==
  LET n == Smallest(Len(tosrv[Conn]), Smallest(Available, ReadUnits))
  IN  /\ pc = "read" /\ n > 0
      /\ input' = [input EXCEPT ![at] = @ \o SubSeq(tosrv[Conn], 1, n)]
      /\ tosrv' = [tosrv EXCEPT
                     ![Conn] = SubSeq(@, n + 1, Len(@))]
      /\ pc' = "parse"
      /\ UNCHANGED <<caller, at, life, client_fd, output, queue, revents, file,
                     sock, backlog, tocli, ends, faults>>

ReadWouldBlock ==
  /\ pc = "read" /\ Available > 0
  /\ tosrv[Conn] = <<>> /\ peer[Conn] = "open"
  /\ pc' = "write"
  /\ UNCHANGED <<caller, at, life, table, queue, revents, kernel, ends, faults>>

(* No room in the input buffer, end of file, or a failing call. *)
ReadFails ==
  /\ pc = "read"
  /\ \/ NoFault /\ \/ Available = 0
                   \/ tosrv[Conn] = <<>> /\ peer[Conn] /= "open"
     \/ Fault
  /\ RemoveClient(at, "dispatch")
  /\ UNCHANGED <<life, table, queue, kernel, ends>>

(* wc_protocol_parse_request on the input buffer. *)
ParseResult(s) ==
  IF input[s] = <<>> THEN "NEED_MORE"
  ELSE IF Head(input[s]).part = 0 THEN "INVALID"
  ELSE IF Len(input[s]) < FrameUnits THEN "NEED_MORE"
  ELSE "COMPLETE"

QueueFull == Len(queue) >= MaxQueued

TakeRequest(next) ==
  /\ pc = "parse" /\ pc' = next /\ ParseResult(at) = "COMPLETE" /\ ~QueueFull
  /\ queue' = Append(queue, [fd |-> client_fd[at],
                             conn |-> Head(input[at]).conn,
                             req |-> Head(input[at]).req])
  /\ input' = [input EXCEPT ![at] = Consume(@, FrameUnits)]
  /\ UNCHANGED <<caller, at, life, client_fd, output, revents, kernel, ends,
                 faults>>

(* Mutant: at most one message is taken from the buffer after a read. *)
EnqueueRequest_one_per_read == TakeRequest("read")

EnqueueRequest == TakeRequest("parse")

ParseNeedsMore ==
  /\ pc = "parse" /\ ParseResult(at) = "NEED_MORE"
  /\ pc' = "read"
  /\ UNCHANGED <<caller, at, life, table, queue, revents, kernel, ends, faults>>

(* Mutant: a full queue costs the client of the oldest request its place. *)
EnqueueFails_evicts ==
  /\ pc = "parse" /\ ParseResult(at) = "COMPLETE" /\ QueueFull /\ NoFault
  /\ \E s \in First(FindClient(Head(queue).fd)) : RemoveClient(s, "dispatch")
  /\ UNCHANGED <<life, table, queue, kernel, ends>>

(* A malformed message, a full queue, or no memory for the queue entry. *)
EnqueueFails ==
  /\ pc = "parse"
  /\ \/ NoFault /\ \/ ParseResult(at) = "INVALID"
                   \/ ParseResult(at) = "COMPLETE" /\ QueueFull
     \/ ParseResult(at) = "COMPLETE" /\ Fault
  /\ RemoveClient(at, "dispatch")
  /\ UNCHANGED <<life, table, queue, kernel, ends>>

------------------------------------------------------------------------------
(* wc_uds_write_client, and the last test of the dispatch loop. *)

Writing == pc = "write" /\ "OUT" \in revents[at] /\ output[at] /= <<>>

Room == SocketUnits - Len(tocli[Conn])

WriteClient ==
  LET n == Smallest(Len(output[at]), Room)
  IN  /\ Writing /\ n > 0 /\ peer[Conn] /= "gone"
      /\ tocli' = [tocli EXCEPT ![Conn] = @ \o SubSeq(output[at], 1, n)]
      /\ output' = [output EXCEPT ![at] = Consume(@, n)]
      /\ UNCHANGED <<pc, caller, at, life, client_fd, input, queue, revents,
                     file, sock, backlog, tosrv, ends, faults>>

WriteFails ==
  /\ Writing
  /\ \/ peer[Conn] = "gone" /\ NoFault
     \/ Fault
  /\ RemoveClient(at, "dispatch")
  /\ UNCHANGED <<life, table, queue, kernel, ends>>

(* Nothing (more) to write, or EAGAIN: on to the error events. *)
WriteEnds ==
  /\ pc = "write"
  /\ Writing => Room = 0 /\ peer[Conn] /= "gone"
  /\ IF "HUP" \in revents[at]
     THEN RemoveClient(at, "dispatch")
     ELSE /\ pc' = "dispatch"
          /\ revents' = [revents EXCEPT ![at] = {}]
          /\ EndCall
  /\ UNCHANGED <<life, table, queue, kernel, ends, faults>>

------------------------------------------------------------------------------
(* wc_uds_accept_clients. *)

FreeFds == {f \in Fds : file[f] = NoConn}

AcceptClient ==
  /\ pc = "accept" /\ backlog /= <<>>
  /\ \E s \in First({t \in Slots : client_fd[t] = -1}), f \in First(FreeFds) :
       /\ client_fd' = [client_fd EXCEPT ![s] = f]
       /\ input' = [input EXCEPT ![s] = <<>>]
       /\ output' = [output EXCEPT ![s] = <<>>]
       /\ file' = [file EXCEPT ![f] = Head(backlog)]
       /\ sock' = [sock EXCEPT ![Head(backlog)] = "open"]
  /\ backlog' = Tail(backlog)
  /\ UNCHANGED <<pc, caller, at, life, queue, revents, tosrv, tocli, ends,
                 faults>>

(* Accepted, then closed again: fcntl() or a buffer failed. *)
AcceptRejected ==
  /\ pc = "accept" /\ backlog /= <<>> /\ HasFreeClientSlot /\ FreeFds /= {}
  /\ Fault
  /\ sock' = [sock EXCEPT ![Head(backlog)] = "closed"]
  /\ tosrv' = [tosrv EXCEPT ![Head(backlog)] = <<>>]
  /\ backlog' = Tail(backlog)
  /\ UNCHANGED <<pc, caller, at, life, table, queue, revents, file, tocli, ends>>

(* No slot is free, nobody waits, or accept() fails. *)
AcceptReturns ==
  /\ pc = "accept"
  /\ \/ NoFault /\ (~HasFreeClientSlot \/ backlog = <<>> \/ FreeFds = {})
     \/ Fault
  /\ pc' = "test"
  /\ revents' = [revents EXCEPT ![0] = {}]
  /\ UNCHANGED <<caller, at, life, table, queue, kernel, ends>>

------------------------------------------------------------------------------
(* The end of wc_server_uds_run. *)

(* Mutant: the clients are not waited for. *)
AllClosed_unchecked == TRUE

AllClosed == \A s \in Slots : client_fd[s] = -1

CloseAllClients ==
  /\ pc = "closing"
  /\ \E s \in First({t \in Slots : client_fd[t] /= -1}) : RemoveClient(s, "closing")
  /\ UNCHANGED <<life, table, queue, kernel, ends, faults>>

(* The queue is cleared, the listener closed (which resets the connections *)
(* that were never accepted) and the path unlinked; a failure is reported. *)
Shutdown ==
  /\ pc = "closing" /\ AllClosed
  /\ queue' = <<>>
  /\ listener' = "closed"
  /\ backlog' = <<>>
  /\ sock' = [c \in Conns |-> IF sock[c] = "backlog" THEN "closed" ELSE sock[c]]
  /\ tosrv' = [c \in Conns |-> IF sock[c] = "backlog" THEN <<>> ELSE tosrv[c]]
  /\ \/ path' = FALSE /\ NoFault /\ UNCHANGED result
     \/ path' \in BOOLEAN /\ Fault /\ result' = -1
  /\ pc' = "returned"
  /\ UNCHANGED <<caller, at, stop_requested, table, revents, file, tocli, ends>>

------------------------------------------------------------------------------
(* The clients and the signal handler. *)

Server == <<pc, caller, at, result, listener, path, table, queue, revents>>

Connect(c) ==
  /\ sock[c] = "none" /\ listener = "open"
  /\ sock' = [sock EXCEPT ![c] = "backlog"]
  /\ backlog' = Append(backlog, c)
  /\ UNCHANGED <<Server, stop_requested, file, tosrv, tocli, ends, faults>>

MaySend(c) == sock[c] \in {"backlog", "open"} /\ peer[c] = "open" /\ ~malformed[c]

Send(c) ==
  /\ MaySend(c) /\ sent[c] < MaxUnits
  /\ sent' = [sent EXCEPT ![c] = @ + 1]
  /\ tosrv' = [tosrv EXCEPT ![c] = Append(@, Unit(c, sent[c] + 1, FrameUnits))]
  /\ UNCHANGED <<Server, stop_requested, file, sock, backlog, tocli, peer,
                 malformed, got, faults>>

SendMalformed(c) ==
  /\ MaySend(c) /\ sent[c] % FrameUnits = 0
  /\ malformed' = [malformed EXCEPT ![c] = TRUE]
  /\ tosrv' = [tosrv EXCEPT ![c] = Append(@, BadUnit(c))]
  /\ UNCHANGED <<Server, stop_requested, file, sock, backlog, tocli, peer, sent,
                 got, faults>>

Receive(c) ==
  /\ peer[c] /= "gone" /\ tocli[c] /= <<>>
  /\ got' = [got EXCEPT ![c] = @ \o tocli[c]]
  /\ tocli' = [tocli EXCEPT ![c] = <<>>]
  /\ UNCHANGED <<Server, stop_requested, file, sock, backlog, tosrv, peer, sent,
                 malformed, faults>>

HangUp(c) ==
  /\ sock[c] \in {"backlog", "open"}
  /\ \/ peer[c] = "open" /\ peer' = [peer EXCEPT ![c] = "half"]
     \/ peer[c] /= "gone" /\ peer' = [peer EXCEPT ![c] = "gone"]
  /\ UNCHANGED <<Server, stop_requested, kernel, sent, malformed, got, faults>>

(* SIGINT or SIGTERM: the handler sets the flag. A poll() in progress      *)
(* returns EINTR, which continues with the loop test.                      *)
Signal ==
  /\ ~stop_requested
  /\ stop_requested' = TRUE
  /\ pc' = IF pc = "poll" THEN "test" ELSE pc
  /\ UNCHANGED <<caller, at, result, listener, path, table, queue, revents,
                 kernel, ends, faults>>

------------------------------------------------------------------------------
Init ==
  /\ pc = "start" /\ caller = "dispatch" /\ at = 1
  /\ stop_requested = FALSE /\ result = 0
  /\ listener = "none" /\ path = FALSE
  /\ client_fd = [s \in Slots |-> -1]
  /\ input = [s \in Slots |-> <<>>] /\ output = [s \in Slots |-> <<>>]
  /\ queue = <<>> /\ revents = [d \in 0..MaxClients |-> {}]
  /\ file = [f \in Fds |-> NoConn]
  /\ sock = [c \in Conns |-> "none"] /\ backlog = <<>>
  /\ tosrv = [c \in Conns |-> <<>>] /\ tocli = [c \in Conns |-> <<>>]
  /\ peer = [c \in Conns |-> "open"] /\ sent = [c \in Conns |-> 0]
  /\ malformed = [c \in Conns |-> FALSE] /\ got = [c \in Conns |-> <<>>]
  /\ faults = 0

ServerStep ==
  \/ OpenListener \/ TestStop \/ ProcessQueue \/ EnterPoll
  \/ PollReturns \/ PollFails \/ DispatchClient \/ DispatchEnds
  \/ ReadClient \/ ReadWouldBlock \/ ReadFails
  \/ EnqueueRequest \/ ParseNeedsMore \/ EnqueueFails
  \/ WriteClient \/ WriteFails \/ WriteEnds
  \/ AcceptClient \/ AcceptRejected \/ AcceptReturns
  \/ DiscardRequest \/ CloseClient \/ CloseAllClients \/ Shutdown

ClientStep(c) ==
  Connect(c) \/ Send(c) \/ SendMalformed(c) \/ Receive(c) \/ HangUp(c)

Next == ServerStep \/ (\E c \in Conns : ClientStep(c)) \/ Signal

Spec == Init /\ [][Next]_vars

(* The process keeps running: it takes its next step unless it sleeps in   *)
(* poll(), and the kernel ends that sleep when an event is pending.        *)
ServerFairness ==
  WF_vars(ServerStep /\ pc /= "poll") /\ WF_vars(PollReturns)

FairSpec ==
  Spec /\ ServerFairness /\ \A c \in Readers : WF_vars(Receive(c))

------------------------------------------------------------------------------
(* Properties. *)

Locations == {"start", "test", "process", "poll", "dispatch", "read", "parse",
              "write", "remove", "accept", "closing", "returned"}
UnitType == [conn : Conns, req : Nat, part : Nat]
RequestType == [fd : Fds, conn : Conns, req : Nat]

ControlTypes ==
  /\ pc \in Locations /\ caller \in {"process", "dispatch", "closing"}
  /\ at \in Slots /\ stop_requested \in BOOLEAN /\ result \in {0, -1}
  /\ listener \in {"none", "open", "closed"} /\ path \in BOOLEAN
  /\ revents \in [0..MaxClients -> SUBSET {"IN", "OUT", "HUP"}]
  /\ faults \in 0..MaxFaults

TableTypes ==
  /\ client_fd \in [Slots -> Fds \cup {-1}]
  /\ input \in [Slots -> Seq(UnitType)] /\ output \in [Slots -> Seq(UnitType)]
  /\ queue \in Seq(RequestType)

KernelTypes ==
  /\ file \in [Fds -> Conns \cup {NoConn}]
  /\ sock \in [Conns -> {"none", "backlog", "open", "closed"}]
  /\ backlog \in Seq(Conns)
  /\ tosrv \in [Conns -> Seq(UnitType)] /\ tocli \in [Conns -> Seq(UnitType)]

ClientTypes ==
  /\ peer \in [Conns -> {"open", "half", "gone"}] /\ sent \in [Conns -> Nat]
  /\ malformed \in [Conns -> BOOLEAN] /\ got \in [Conns -> Seq(UnitType)]

(* Every variable holds a value of its type in the program, in the kernel  *)
(* or at a client.                                                         *)
TypeOK == ControlTypes /\ TableTypes /\ KernelTypes /\ ClientTypes

(* A queued request is known by its descriptor number only, and the kernel *)
(* reuses numbers. Still, the descriptor of every queued request is in the *)
(* client table and refers to the connection that sent the request: no     *)
(* command is ever answered to a later client on the same number.          *)
QueuedForSender ==
  \A i \in DOMAIN queue :
    /\ FindClient(queue[i].fd) /= {}
    /\ file[queue[i].fd] = queue[i].conn

(* Every open client descriptor is owned by exactly one slot and every     *)
(* slot in use holds an open descriptor: nothing leaks, nothing is closed  *)
(* twice.                                                                  *)
DescriptorsOwned ==
  \A f \in Fds :
    IF file[f] = NoConn THEN FindClient(f) = {}
    ELSE \E s \in Slots : FindClient(f) = {s}

(* The server sleeps in poll() only when every parsed request waits for a  *)
(* client whose pending output has POLLOUT armed, and no complete message  *)
(* is left in an input buffer, which no event would ever announce.         *)
SleepsOnlyWhenBlocked ==
  pc = "poll" =>
    /\ queue /= <<>> => \E s \in FindClient(Head(queue).fd) : "OUT" \in Events(s)
    /\ \A s \in Slots : ParseResult(s) = "NEED_MORE"

(* A client receives the responses to its own requests, each once, in the  *)
(* order of the requests, and none to a request it has not fully sent.     *)
ResponsesInOrder ==
  \A c \in Conns :
    LET stream == got[c] \o tocli[c]
    IN  /\ \A k \in DOMAIN stream : stream[k] = Unit(c, k, ResponseUnits)
        /\ \A k \in DOMAIN stream : stream[k].req * FrameUnits <= sent[c]

(* The shared queue never holds more than WC_UDS_MAX_QUEUED_REQUESTS. *)
QueueBounded == Len(queue) <= MaxQueued

(* When wc_server_uds_run returns, no client descriptor, listener or       *)
(* queued request is left, and a result of 0 means the path is gone.       *)
CleanShutdown ==
  pc = "returned" =>
    /\ \A f \in Fds : file[f] = NoConn
    /\ listener = "closed" /\ queue = <<>>
    /\ result = 0 => ~path

(* The request of the client in slot s, about to be queued, meets a full   *)
(* queue.                                                                  *)
TurnedAway(s) ==
  pc = "parse" /\ at = s /\ ParseResult(s) = "COMPLETE" /\ QueueFull

(* Before shutdown, and if no call fails, a client is disconnected only    *)
(* for something it did itself: it hung up, it sent a malformed message,   *)
(* or its own request met a full queue.  A neighbour's error, and the full *)
(* queue a neighbour's request meets, never cost it its connection.        *)
ClosedForCause ==
  [][pc' = "remove" /\ pc /= "remove" /\ caller' /= "closing" /\ faults' = 0
       => LET c == file[client_fd[at']]
          IN  peer[c] /= "open" \/ malformed[c] \/ TurnedAway(at')]_vars

(* A request that reached the server from a client that keeps receiving is *)
(* answered completely, unless that client is disconnected or hangs up, or *)
(* the server stops.                                                       *)
RequestAnswered ==
  \A c \in Readers : \A n \in 1..(MaxUnits \div FrameUnits) :
    (sock[c] = "open" /\ sent[c] >= n * FrameUnits)
      ~> \/ Len(got[c]) >= n * ResponseUnits
         \/ sock[c] = "closed" \/ peer[c] /= "open" \/ pc = "closing"

(* "Run until stop_requested becomes nonzero": once the flag is set, the   *)
(* server returns.                                                         *)
StopReturns == stop_requested ~> pc = "returned"

(* Once the flag is set, the next event that ends a poll() also ends the   *)
(* server: at most one more round of the loop is dispatched.               *)
StopHeededAtNextEvent ==
  (stop_requested /\ pc = "poll" /\ \E d \in 0..MaxClients : Revents(d) /= {})
    ~> pc = "returned"
==============================================================================
