---------------------------- MODULE ClientSession ----------------------------
(***************************************************************************)
(* The command-line client (module Client) at one end of a connection and  *)
(* a worker of a thread-per-client server (module WorkerSession) at the    *)
(* other.  The two share the kernel's buffers and this end-to-end model    *)
(* adds only how a connection begins: connect() returns when the           *)
(* connection is in the listener's backlog, and the server later starts a  *)
(* worker for it, turns it away, or stops without having accepted it.      *)
(***************************************************************************)
EXTENDS Integers, Sequences

CONSTANTS
  FrameUnits, InputUnits, ResponseUnits, ReadUnits, SocketUnits, MaxFaults,
  MaxWords        \* bound on the words of the command line

ASSUME SizeAssumption ==
  /\ {FrameUnits, ResponseUnits, ReadUnits, SocketUnits} \subseteq Nat \ {0}
  /\ InputUnits \in Nat /\ InputUnits >= FrameUnits
  /\ MaxFaults \in Nat /\ MaxWords \in Nat

VARIABLES
  server,                         \* "absent", "backlog", "session", "rejected"
  pc, input, output, revents, stopping,       \* the worker
  arguments, options, client_pc, sent, response, printed, result, \* the client
  peer, tosrv, tocli,             \* the connection
  malformed,                      \* FALSE: the client encodes what it sends
  faults,
  runs                            \* history: commands started

(* What the client has received it keeps in its buffer, so that buffer is  *)
(* also the record of what reached it.                                     *)
Session == INSTANCE WorkerSession WITH
  MaxUnits <- FrameUnits, got <- response

(* How the other end looks to the client. *)
ServerEnd ==
  IF server = "absent" THEN "absent"
  ELSE IF server = "rejected" \/ pc = "closed" THEN "closed" ELSE "open"

Client == INSTANCE Client WITH
  pc <- client_pc, written <- sent, input <- response, server <- ServerEnd

worker == <<pc, input, output, revents>>
program == <<arguments, options, client_pc, sent, response, printed, result>>
connection == <<peer, tosrv, tocli, malformed>>
vars == <<server, worker, stopping, program, connection, faults, runs>>

ClientStep ==
  /\ UNCHANGED <<server, worker, stopping, malformed, runs>>
  /\ Client!Main

(* wc_*_accept_clients starts a worker, or closes the connection; closing  *)
(* the listener closes those in its backlog.                               *)
Accept ==
  /\ server = "backlog" /\ peer /= "none"
  /\ server' = "session"
  /\ UNCHANGED <<worker, stopping, program, connection, faults, runs>>

Reject ==
  /\ server = "backlog"
  /\ server' = "rejected" /\ tosrv' = <<>>
  /\ UNCHANGED <<worker, stopping, program, peer, tocli, malformed, faults, runs>>

WorkerStep ==
  /\ server = "session" /\ Session!Worker
  /\ runs' = IF pc' = "command" THEN runs + 1 ELSE runs
  /\ UNCHANGED <<server, arguments, options, client_pc, printed, result>>

CommandEnds ==
  /\ server = "session" /\ Session!CommandEnds
  /\ UNCHANGED <<server, arguments, options, client_pc, printed, result, runs>>

RequestStop ==
  /\ server /= "absent" /\ Session!RequestStop
  /\ UNCHANGED <<server, arguments, options, client_pc, printed, result, runs>>

Init ==
  /\ server \in {"absent", "backlog"}
  /\ pc = "test" /\ input = <<>> /\ output = <<>> /\ revents = {} /\ stopping = FALSE
  /\ \E n \in 0..MaxWords : arguments \in [1..n -> Client!Word]
  /\ options = Client!Defaults /\ client_pc = "options" /\ sent = 0
  /\ response = <<>> /\ printed = <<>> /\ result = 1
  /\ peer = "none" /\ tosrv = <<>> /\ tocli = <<>> /\ malformed = FALSE
  /\ faults = 0 /\ runs = 0

Next == ClientStep \/ Accept \/ Reject \/ WorkerStep \/ CommandEnds \/ RequestStop

Spec == Init /\ [][Next]_vars

(* Client and worker are scheduled, a connection in the backlog is         *)
(* accepted or rejected in the end, and commands end.  No call need fail.  *)
FairSpec ==
  /\ Spec /\ WF_vars(ClientStep /\ UNCHANGED faults) /\ WF_vars(Accept \/ Reject)
  /\ WF_vars(WorkerStep /\ UNCHANGED faults) /\ WF_vars(CommandEnds /\ UNCHANGED faults)

------------------------------------------------------------------------------
WholeResponse == [k \in 1..(ResponseUnits - 1) |-> [req |-> 1, part |-> k + 1]]
PartOfResponse == {SubSeq(WholeResponse, 1, n) : n \in 1..(ResponseUnits - 2)}

Arrived == Len(response) >= ResponseUnits

(* How much of the answer the user sees, or that it is something else.  Of *)
(* an answer without data there is nothing to see.                         *)
Shown ==
  IF printed = WholeResponse /\ Arrived THEN "all"
  ELSE IF printed = <<>> THEN "none"
  ELSE IF printed \in PartOfResponse THEN "part" ELSE "wrong"

Call == INSTANCE RemoteCall WITH
  asked <- sent = FrameUnits,
  arrived <- Arrived,
  shown <- Shown,
  status <- IF client_pc = "exit" THEN result ELSE -1

(* One run of the client against a threaded server is one remote call: the *)
(* command runs at most once whatever is cut short, stopped or fails, the  *)
(* client "waits for the complete response, and writes the response data", *)
(* so that nothing of a broken one is printed, and exit status 0 means     *)
(* that the command ran and that all of its answer, and nothing else, was  *)
(* printed.                                                                *)
IsRemoteCall == Call!Spec

(* The option loop, which reads from left to right and stops at the first  *)
(* word it cannot take, goes on for the well-formed lines and for no       *)
(* others: a value that looks like an option, an option without its value  *)
(* or a second transport lead nowhere else.                                *)
TakesWellFormed ==
  LET wellFormed == \E n \in 0..Len(arguments) : Client!WellFormed(arguments, n)
  IN  /\ client_pc = "prepare" => wellFormed
      /\ client_pc = "exit" /\ result = 2 => ~wellFormed

(* Of an option given twice the last value is the one used, and the client *)
(* speaks TCP exactly when an option of TCP was given, be it --port alone. *)
LastValueUsed ==
  client_pc = "prepare" =>
    \A n \in 0..Len(arguments) : Client!WellFormed(arguments, n) =>
      /\ options.socket_path = Client!Used(arguments, n, "--socket", "default")
      /\ options.tcp_host = Client!Used(arguments, n, "--host", "default")
      /\ options.tcp_port = Client!Used(arguments, n, "--port", "9090")
      /\ options.log_level = Client!Used(arguments, n, "--log-level", "info")
      /\ options.use_tcp <=> Client!Options(arguments, n) \cap {"--host", "--port"} /= {}

(* The variable an option sets. *)
SetTo(option) ==
  CASE option = "--socket"    -> options.socket_path
    [] option = "--host"      -> options.tcp_host
    [] option = "--port"      -> options.tcp_port
    [] option = "--log-level" -> options.log_level

(* No line the usage text offers is refused with that text, and each value *)
(* such a line gives is the one used.                                      *)
UsageHonoured ==
  \A n \in 0..Len(arguments) : Client!OfUsage(arguments, n) =>
    /\ ~(client_pc = "exit" /\ result = 2)
    /\ client_pc = "prepare" => \A i \in 1..n : SetTo(arguments[2 * i - 1]) = arguments[2 * i]

(* What the usage text offers is taken and heeded.  What is taken beyond   *)
(* it, a --port without --host and repeated options, is well-formed, and   *)
(* the last value counts.                                                  *)
ReadsCommandLine == TakesWellFormed /\ LastValueUsed /\ UsageHonoured

(* With no failure and no stop, a client that was accepted succeeds. *)
AcceptedSucceeds ==
  client_pc = "exit" /\ server = "session" /\ ~stopping /\ faults = 0 => result = 0

(* The client always comes to an end: neither end waits for the other for  *)
(* ever, whether the request or the response has to be sent in pieces,     *)
(* the connection is turned away, or the server stops in between.          *)
ClientReturns == <>(client_pc = "exit")

(* The worker is released as well. *)
WorkerReleased == server = "session" ~> pc = "closed"

(* The client program and the worker of its connection both finish: each   *)
(* of them waits only for what the other is bound to do.                   *)
BothEndsFinish == ClientReturns /\ WorkerReleased
==============================================================================
