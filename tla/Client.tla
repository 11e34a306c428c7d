-------------------------------- MODULE Client --------------------------------
(***************************************************************************)
(* The command-line client, src/src/main_client.c: it reads its options    *)
(* (module ClientOptions), encodes one request, connects, writes the       *)
(* request, reads until it has one whole response, prints the response's   *)
(* data and exits.  wc_socket_write_all of src/src/socket_utils.c is its   *)
(* writing loop, to the socket and to standard output.                     *)
(*                                                                         *)
(* A request is FrameUnits units and a response ResponseUnits, of which    *)
(* the first is the header.  Module ClientSession puts a server at the     *)
(* other end of the connection.                                            *)
(***************************************************************************)
EXTENDS Integers, Sequences, ClientOptions

CONSTANTS
  FrameUnits, ResponseUnits,
  ReadUnits,      \* the most one read() returns
  SocketUnits,    \* what the kernel buffers in each direction
  MaxFaults       \* bound on failing calls

VARIABLES
  arguments,      \* the command line, while main() needs it
  options,        \* the variables of main() that the options set
  pc,             \* where main() is
  written,        \* total_written of the request
  input,          \* the buffer of wc_client_receive_response
  printed,        \* what has been written to standard output
  result,         \* the exit status so far
  peer,           \* this end: "none", "open" or "gone"
  server,         \* the other end: "absent", "open" or "closed"
  tosrv, tocli,   \* kernel: units under way in each direction
  faults

RequestUnit(k) == [req |-> 1, part |-> k]

Fault == faults < MaxFaults /\ faults' = faults + 1
NoFault == UNCHANGED faults

Least(m, n) == IF m <= n THEN m ELSE n
Room == SocketUnits - Len(tosrv)

------------------------------------------------------------------------------
cmdline == <<arguments, options>>

(* An iteration of the option loop, or what follows it: main() returns 2   *)
(* unless a command is left.                                               *)
ReadOptions ==
  /\ pc = "options"
  /\ \/ /\ TakesOption(arguments, options)
        /\ options' = Iterate(arguments, options) /\ UNCHANGED <<pc, result>>
     \/ /\ ~TakesOption(arguments, options) /\ HasCommand(arguments, options)
        /\ pc' = "prepare" /\ UNCHANGED <<options, result>>
     \/ /\ ~TakesOption(arguments, options) /\ ~HasCommand(arguments, options)
        /\ pc' = "exit" /\ result' = 2 /\ UNCHANGED options
  /\ UNCHANGED <<arguments, written, input, printed, peer, server, tosrv, tocli, faults>>

(* The request is encoded and SIGPIPE ignored, or main() returns 1: the    *)
(* argument may be too long for a frame.                                   *)
Prepare ==
  /\ pc = "prepare"
  /\ pc' \in {"connect", "exit"} /\ arguments' = <<>> /\ options' = Defaults
  /\ UNCHANGED <<written, input, printed, result, peer, server, tosrv, tocli, faults>>

(* wc_client_connect_uds, wc_client_connect_tcp *)
Connect ==
  /\ pc = "connect"
  /\ \/ server = "open" /\ pc' = "send" /\ peer' = "open" /\ NoFault
     \/ server /= "open" /\ pc' = "exit" /\ UNCHANGED peer /\ NoFault
     \/ pc' = "exit" /\ UNCHANGED peer /\ Fault
  /\ UNCHANGED <<cmdline, written, input, printed, result, server, tosrv, tocli>>

(* Mutant: one write() is taken to write everything. *)
WrittenAll_once(n) == TRUE

WrittenAll(n) == n >= FrameUnits

(* size - total_written *)
Remaining == FrameUnits - written

(* A turn of wc_socket_write_all(socket_fd): write() blocks while there is *)
(* no room and fails with EPIPE once the other end is closed.              *)
Send ==
  /\ pc = "send"
  /\ \/ \E n \in 1..Least(Remaining, Room) :
          /\ server = "open"
          /\ tosrv' = tosrv \o [k \in 1..n |-> RequestUnit(written + k)]
          /\ written' = written + n
          /\ pc' = IF WrittenAll(written + n) THEN "receive" ELSE "send"
          /\ NoFault
     \/ server = "closed" /\ pc' = "close" /\ UNCHANGED <<written, tosrv>> /\ NoFault
     \/ pc' = "close" /\ UNCHANGED <<written, tosrv>> /\ Fault
  /\ UNCHANGED <<cmdline, input, printed, result, peer, server, tocli>>

(* Mutant: a response is complete once it has begun. *)
Complete_begun == Len(input) >= 1

Complete == Len(input) >= ResponseUnits

(* A turn of wc_client_receive_response without a whole response: one      *)
(* read().  End of file and errors end the wait; so would a full buffer,   *)
(* whose limit is the longest response.                                    *)
Receive ==
  /\ pc = "receive" /\ ~Complete
  /\ LET n == Least(ReadUnits, Len(tocli))
     IN  \/ /\ n > 0
            /\ input' = input \o SubSeq(tocli, 1, n)
            /\ tocli' = SubSeq(tocli, n + 1, Len(tocli))
            /\ UNCHANGED pc /\ NoFault
         \/ /\ tocli = <<>> /\ server = "closed"
            /\ pc' = "close" /\ UNCHANGED <<input, tocli>> /\ NoFault
         \/ pc' = "close" /\ UNCHANGED <<input, tocli>> /\ Fault
  /\ UNCHANGED <<cmdline, written, printed, result, peer, server, tosrv>>

Data == SubSeq(input, 2, Least(ResponseUnits, Len(input)))

(* Mutant: what a failing write() to standard output left out is ignored. *)
PrintFailure_ignored == 0

PrintFailure == 1

(* wc_socket_write_all(STDOUT_FILENO) of the response's data, in as many   *)
(* write() calls as it takes.                                              *)
PrintResponse ==
  /\ pc = "receive" /\ Complete
  /\ \/ \E n \in 1..(Len(Data) - Len(printed)) :
          /\ printed' = printed \o SubSeq(Data, Len(printed) + 1, Len(printed) + n)
          /\ UNCHANGED <<pc, result>> /\ NoFault
     \/ Len(printed) >= Len(Data) /\ pc' = "close" /\ result' = 0
        /\ UNCHANGED printed /\ NoFault
     \/ pc' = "close" /\ result' = PrintFailure /\ UNCHANGED printed /\ Fault
  /\ UNCHANGED <<cmdline, written, input, peer, server, tosrv, tocli>>

(* Mutant: the socket stays open when the request could not be sent. *)
AfterClose_kept == IF written < FrameUnits THEN peer ELSE "gone"

AfterClose == "gone"

(* The end of main(); a close() that fails is a failure. *)
Close ==
  /\ pc = "close"
  /\ pc' = "exit" /\ peer' = AfterClose /\ tocli' = <<>>
  /\ \/ UNCHANGED result /\ NoFault
     \/ result' = 1 /\ Fault
  /\ UNCHANGED <<cmdline, written, input, printed, server, tosrv>>

Main == ReadOptions \/ Prepare \/ Connect \/ Send \/ Receive \/ PrintResponse \/ Close
==============================================================================
