---------------------------- MODULE WorkerSession ----------------------------
(***************************************************************************)
(* The session of one worker thread with its client: the loop of           *)
(* wc_tcp_worker_main in src/src/server_tcp.c and of                       *)
(* wc_threaded_uds_worker_main in src/src/server_uds_threaded.c, which are *)
(* the same loop, with the connection's kernel buffers and the client at   *)
(* the other end.  Module WorkerPool models the life of the threads.       *)
(*                                                                         *)
(* As in ServerUds, a byte stream is a sequence of units: a request frame  *)
(* is FrameUnits units, a response ResponseUnits units, and a unit records *)
(* the request it belongs to and its place in the frame; part 0 is a       *)
(* malformed header.                                                       *)
(***************************************************************************)
EXTENDS Integers, Sequences

CONSTANTS
  FrameUnits,     \* units of a request frame
  InputUnits,     \* WC_TCP_INPUT_LIMIT, WC_THREADED_UDS_INPUT_LIMIT
  ResponseUnits,  \* units of a response
  ReadUnits,      \* WC_TCP_READ_SIZE, the most one read() returns
  SocketUnits,    \* what the kernel buffers in each direction
  MaxUnits,       \* bound on the units the client sends
  MaxFaults       \* bound on failing allocations and system calls

ASSUME SizeAssumption ==
  /\ FrameUnits \in Nat \ {0} /\ ResponseUnits \in Nat \ {0}
  /\ ReadUnits \in Nat \ {0} /\ SocketUnits \in Nat \ {0}
  /\ InputUnits \in Nat /\ InputUnits >= FrameUnits
  /\ MaxUnits \in Nat /\ MaxFaults \in Nat

VARIABLES
  pc,             \* where the worker's loop is
  input, output,  \* the worker's two buffers
  revents,        \* what poll() reported and the loop has not looked at
  stopping,       \* the server's flag under workers_lock
  tosrv, tocli,   \* kernel: units under way in each direction
  peer,           \* client: "open", "half" (no more sending) or "gone"
  sent,           \* client: units sent so far
  malformed,      \* client: has it sent a malformed header
  got,            \* client: units received so far
  faults          \* failures injected so far

wire == <<tosrv, tocli>>
client == <<peer, sent, malformed, got>>
vars == <<pc, input, output, revents, stopping, wire, client, faults>>

Unit(k, size) == [req |-> ((k - 1) \div size) + 1, part |-> ((k - 1) % size) + 1]
BadUnit == [req |-> 0, part |-> 0]
Response(n) == [p \in 1..ResponseUnits |-> [req |-> n, part |-> p]]

Fault == faults < MaxFaults /\ faults' = faults + 1
NoFault == UNCHANGED faults

Least(m, n) == IF m <= n THEN m ELSE n
Consume(buffer, n) == SubSeq(buffer, n + 1, Len(buffer))

------------------------------------------------------------------------------
(* The worker. *)

(* Mutant: the flag is not looked at. *)
StopSeen_never == FALSE

StopSeen == stopping

(* wc_*_is_stopping; a mutex that cannot be locked counts as stopping. *)
TestStop ==
  /\ pc = "test"
  /\ \/ pc' = (IF StopSeen THEN "close" ELSE "process") /\ NoFault
     \/ pc' = "close" /\ Fault
  /\ UNCHANGED <<input, output, revents, stopping, wire, client>>

(* Mutant: a frame is taken to arrive in one read(). *)
ParsedRequest_whole ==
  IF input = <<>> THEN "NEED_MORE"
  ELSE IF Len(input) >= FrameUnits /\ Head(input).part /= 0 THEN "COMPLETE" ELSE "INVALID"

ParsedRequest ==
  IF input /= <<>> /\ Head(input).part = 0 THEN "INVALID"
  ELSE IF Len(input) >= FrameUnits THEN "COMPLETE" ELSE "NEED_MORE"

(* Mutant: the next request does not wait for the last response to drain. *)
Drained_always == TRUE

Drained == output = <<>>

(* wc_*_process_request up to the command. *)
ProcessRequest ==
  /\ pc = "process"
  /\ pc' = IF ~Drained \/ ParsedRequest = "NEED_MORE" THEN "poll"
           ELSE IF ParsedRequest = "INVALID" THEN "close" ELSE "command"
  /\ UNCHANGED <<input, output, revents, stopping, wire, client, faults>>

(* Mutant: whatever was read with the request goes with it. *)
Consumed_all == <<>>

(* Mutant: the request is left in the buffer. *)
Consumed_none == input

Consumed == Consume(input, FrameUnits)

(* The command has ended; its result, or the text of its error, is encoded *)
(* as the response and the request is consumed.  Without memory for the    *)
(* response the request stays and the session ends.                        *)
CommandEnds ==
  /\ pc = "command"
  /\ \/ /\ output' = output \o Response(Head(input).req)
        /\ input' = Consumed
        /\ pc' = "poll" /\ NoFault
     \/ pc' = "close" /\ Fault /\ UNCHANGED <<input, output>>
  /\ UNCHANGED <<revents, stopping, wire, client>>

(* Mutant: reading is not held back while a response is pending. *)
Events_both == {"POLLIN"} \cup (IF output /= <<>> THEN {"POLLOUT"} ELSE {})

Events == IF output /= <<>> THEN {"POLLOUT"} ELSE {"POLLIN"}

Room == SocketUnits - Len(tocli)

(* poll(2): what the kernel has to report of the events asked for. *)
Condition ==
  {e \in Events : \/ e = "POLLIN" /\ (tosrv /= <<>> \/ peer /= "open")
                  \/ e = "POLLOUT" /\ (Room > 0 \/ peer = "gone")}

(* A client that is gone shows as a hang-up on a Unix socket, and on a TCP *)
(* one as an error once its reset has arrived, or not at all.              *)
Extra == IF peer = "gone" THEN SUBSET {"POLLHUP", "POLLERR"} ELSE {{}}

PollReturns ==
  /\ pc = "poll"
  /\ \/ revents' \in {Condition \cup e : e \in Extra} \ {{}} /\ NoFault
     \/ revents' = Condition \cup {"POLLERR"} /\ Fault
  /\ pc' = IF revents' \cap {"POLLIN", "POLLOUT"} = {} THEN "hangup" ELSE "dispatch"
  /\ UNCHANGED <<input, output, stopping, wire, client>>

(* The timeout, an interrupted call, or a failing one. *)
PollTimesOut ==
  /\ pc = "poll"
  /\ \/ Condition = {} /\ pc' = "test" /\ NoFault
     \/ pc' \in {"test", "close"} /\ Fault
  /\ UNCHANGED <<input, output, revents, stopping, wire, client>>

Available == InputUnits - Len(input)

(* wc_*_read_client: one read().  The buffer may fail to grow for it.      *)
ReadClient ==
  LET n == Least(Least(Available, ReadUnits), Len(tosrv))
  IN  /\ pc = "dispatch" /\ "POLLIN" \in revents /\ n > 0
      /\ tosrv' = Consume(tosrv, n)
      /\ \/ input' = input \o SubSeq(tosrv, 1, n) /\ pc' = "write" /\ NoFault
         \/ UNCHANGED input /\ pc' = "close" /\ Fault
      /\ UNCHANGED <<output, revents, stopping, tocli, client>>

(* Mutant: end of file is taken for "nothing to read yet". *)
AtEndOfFile_retry == "write"

AtEndOfFile == "close"

(* No room (EMSGSIZE), end of file, or an error ends the session; there    *)
(* may also be nothing to read after all.                                  *)
ReadFails ==
  /\ pc = "dispatch" /\ "POLLIN" \in revents
  /\ \/ Available = 0 /\ pc' = "close" /\ NoFault
     \/ tosrv = <<>> /\ peer /= "open" /\ pc' = AtEndOfFile /\ NoFault
     \/ peer = "gone" /\ pc' = "close" /\ NoFault
     \/ pc' \in {"write", "close"} /\ Fault
  /\ UNCHANGED <<input, output, revents, stopping, wire, client>>

(* Mutant: a short send() is taken for a whole one. *)
Unsent_none(n) == <<>>

Unsent(n) == Consume(output, n)

MayWrite ==
  \/ pc = "dispatch" /\ "POLLIN" \notin revents
  \/ pc = "write"

(* wc_*_write_client: one send().  What is sent to a client that is gone   *)
(* is lost.                                                                *)
WriteClient ==
  LET n == IF peer = "gone" THEN Len(output) ELSE Least(Room, Len(output))
  IN  /\ MayWrite /\ "POLLOUT" \in revents /\ n > 0
      /\ tocli' = IF peer = "gone" THEN <<>> ELSE tocli \o SubSeq(output, 1, n)
      /\ output' = Unsent(n)
      /\ pc' = "hangup"
      /\ UNCHANGED <<input, revents, stopping, tosrv, client, faults>>

WriteFails ==
  /\ MayWrite /\ "POLLOUT" \in revents
  /\ \/ peer = "gone" /\ pc' = "close" /\ NoFault
     \/ pc' \in {"hangup", "close"} /\ Fault
  /\ UNCHANGED <<input, output, revents, stopping, wire, client>>

NothingToWrite ==
  /\ MayWrite /\ "POLLOUT" \notin revents
  /\ pc' = "hangup"
  /\ UNCHANGED <<input, output, revents, stopping, wire, client, faults>>

(* The tests for POLLERR and POLLHUP at the end of the loop's body. *)
CheckHangup ==
  /\ pc = "hangup"
  /\ pc' = IF "POLLERR" \in revents \/ ("POLLHUP" \in revents /\ output = <<>>)
           THEN "close" ELSE "test"
  /\ revents' = {}
  /\ UNCHANGED <<input, output, stopping, wire, client, faults>>

(* Both buffers are freed and the descriptor closed. *)
Close ==
  /\ pc = "close"
  /\ pc' = "closed" /\ input' = <<>> /\ output' = <<>> /\ revents' = {}
  /\ tosrv' = <<>>
  /\ UNCHANGED <<stopping, tocli, client, faults>>

Worker ==
  \/ TestStop \/ ProcessRequest \/ PollReturns \/ PollTimesOut \/ ReadClient
  \/ ReadFails \/ WriteClient \/ WriteFails \/ NothingToWrite \/ CheckHangup \/ Close

------------------------------------------------------------------------------
(* The main thread sets the flag when the server is told to stop. *)
RequestStop ==
  /\ ~stopping /\ stopping' = TRUE
  /\ UNCHANGED <<pc, input, output, revents, wire, client, faults>>

(* A client at the other end: it sends frames in pieces, possibly several  *)
(* before it reads a response, may send a malformed header, may stop       *)
(* sending, may leave.                                                     *)
MaySend == pc /= "closed" /\ peer = "open" /\ ~malformed /\ Len(tosrv) < SocketUnits

ClientSends ==
  /\ MaySend /\ sent < MaxUnits
  /\ sent' = sent + 1 /\ tosrv' = Append(tosrv, Unit(sent + 1, FrameUnits))
  /\ UNCHANGED <<pc, input, output, revents, stopping, tocli, peer, malformed, got, faults>>

ClientSendsMalformed ==
  /\ MaySend /\ sent % FrameUnits = 0
  /\ malformed' = TRUE /\ tosrv' = Append(tosrv, BadUnit)
  /\ UNCHANGED <<pc, input, output, revents, stopping, tocli, peer, sent, got, faults>>

ClientHalfCloses ==
  /\ peer = "open" /\ pc /= "closed" /\ peer' = "half"
  /\ UNCHANGED <<pc, input, output, revents, stopping, wire, sent, malformed, got, faults>>

ClientLeaves ==
  /\ peer /= "gone" /\ peer' = "gone" /\ tocli' = <<>>
  /\ UNCHANGED <<pc, input, output, revents, stopping, tosrv, sent, malformed, got, faults>>

ClientReceives ==
  /\ peer /= "gone" /\ tocli /= <<>>
  /\ got' = Append(got, Head(tocli)) /\ tocli' = Tail(tocli)
  /\ UNCHANGED <<pc, input, output, revents, stopping, tosrv, peer, sent, malformed, faults>>

Init ==
  /\ pc = "test" /\ input = <<>> /\ output = <<>> /\ revents = {} /\ stopping = FALSE
  /\ tosrv = <<>> /\ tocli = <<>>
  /\ peer = "open" /\ sent = 0 /\ malformed = FALSE /\ got = <<>> /\ faults = 0

Next ==
  \/ Worker \/ CommandEnds \/ RequestStop
  \/ ClientSends \/ ClientSendsMalformed \/ ClientHalfCloses \/ ClientLeaves
  \/ ClientReceives

Spec == Init /\ [][Next]_vars

(* The worker is scheduled and the commands it runs end, and no call need  *)
(* ever fail.  Nothing is assumed of the client.                           *)
FairSpec == Spec /\ WF_vars(Worker /\ NoFault) /\ WF_vars(CommandEnds /\ NoFault)

(* The client keeps reading what it is sent. *)
ClientReads == WF_vars(ClientReceives)

------------------------------------------------------------------------------
UnitType == [req : Nat, part : Nat]

Delivered == got \o tocli

(* "Requests remain ordered within one connection": what reaches the       *)
(* client, with what is still in the worker's buffer, is the responses to  *)
(* its requests 1, 2, 3... with nothing lost, doubled or torn between      *)
(* short sends, and none to a request it has not completed.                *)
ResponsesInOrder ==
  peer /= "gone" =>
    LET stream == Delivered \o output
    IN  /\ \A k \in DOMAIN stream : stream[k] = Unit(k, ResponseUnits)
        /\ Len(stream) <= (sent \div FrameUnits) * ResponseUnits

(* test_tcp_half_closed_client_receives_response, for any number of        *)
(* requests in flight: when the worker ends a session of its own accord,   *)
(* because the client stopped sending or sent something malformed, it has  *)
(* answered every request that came before.                                *)
AnsweredBeforeClose ==
  pc = "closed" /\ peer /= "gone" /\ ~stopping /\ faults = 0 =>
    Len(Delivered) = (sent \div FrameUnits) * ResponseUnits

(* The input buffer always has room when the worker reads, although the    *)
(* client may send requests faster than they are answered: the limit of    *)
(* the buffer is never a reason to drop a client.                          *)
RoomToRead == pc = "dispatch" /\ "POLLIN" \in revents => Available > 0

(* The session of a client in good standing is ended only by the client,   *)
(* the server's stop or a failure.                                         *)
ClosedForCause ==
  pc = "closed" => peer /= "open" \/ malformed \/ stopping \/ faults > 0

(* When the server stops, the session ends although the client neither     *)
(* reads nor leaves: no wait of the worker is without a timeout.           *)
StopEndsSession == stopping ~> pc = "closed"

(* A client that is gone does not keep its worker. *)
LeaverReleased == peer = "gone" ~> pc = "closed"

(* A client that reads gets the answer to each request it has completed,   *)
(* unless the server stops, the client leaves or a call fails.             *)
RequestAnswered ==
  ClientReads =>
    \A n \in 1..(MaxUnits \div FrameUnits) :
      sent >= n * FrameUnits
        ~> Len(got) >= n * ResponseUnits \/ stopping \/ peer = "gone" \/ faults > 0

(* A client that stops sending and reads is let go, whatever fails. *)
HalfClosedReleased == ClientReads => (peer = "half" ~> pc = "closed")

(* Every way a session can come to its end lets the worker go: the stop of *)
(* the server, a client that left, a client that only stopped sending.     *)
SessionEnds == StopEndsSession /\ LeaverReleased /\ HalfClosedReleased
==============================================================================
