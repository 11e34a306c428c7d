------------------------ MODULE ClientSessionProofs -------------------------
(***************************************************************************)
(* Proofs about ClientSession: for any sizes of request, response, buffers *)
(* and read(), any number of failing calls and command lines of any        *)
(* length.                                                                 *)
(*                                                                         *)
(* The inductive invariant SessionInv follows the one request and the one  *)
(* response through client, connection and worker: what each of them holds *)
(* is a run of units, the runs lie end to end, and the place of each       *)
(* program counter bounds what can be where.  From it follow               *)
(* AcceptedSucceeds and, step by step, the refinement of RemoteCall.  A    *)
(* second invariant, CommandLineInv, ties the variables of the option loop *)
(* to what the pairs read so far say.                                      *)
(***************************************************************************)
EXTENDS ClientSession, SequenceTheorems, TLAPS

UnitType == [req : Nat, part : Nat]

(* Units of the client's only request. *)
Asks(s) == \A k \in 1..Len(s) : s[k].req = 1 /\ s[k].part /= 0

(* The units of its response that follow the i-th. *)
Piece(s, i) == \A k \in 1..Len(s) : s[k] = [req |-> 1, part |-> i + k]

Flags == {"POLLIN", "POLLOUT", "POLLERR", "POLLHUP"}

TypeOK ==
  /\ server \in {"absent", "backlog", "session", "rejected"}
  /\ pc \in {"test", "process", "command", "poll", "dispatch", "write", "hangup", "close", "closed"}
  /\ input \in Seq(UnitType) /\ output \in Seq(UnitType) /\ revents \subseteq Flags
  /\ stopping \in BOOLEAN
  /\ client_pc \in {"options", "prepare", "connect", "send", "receive", "close", "exit"}
  /\ sent \in 0..FrameUnits /\ response \in Seq(UnitType) /\ printed \in Seq(UnitType)
  /\ result \in {0, 1, 2} /\ peer \in {"none", "open", "gone"}
  /\ tosrv \in Seq(UnitType) /\ tocli \in Seq(UnitType) /\ malformed = FALSE
  /\ faults \in Nat /\ runs \in {0, 1}

(* Where main() is, and what it has done before. *)
ClientPlace ==
  /\ client_pc \in {"options", "prepare", "connect"} => peer = "none" /\ result = 1
  /\ client_pc \in {"send", "receive", "close"} => peer = "open"
  /\ client_pc = "exit" => peer /= "open"
  /\ client_pc = "send" => result = 1 /\ sent < FrameUnits /\ response = <<>>
  /\ client_pc = "receive" => result = 1 /\ sent = FrameUnits
  /\ result = 0 => Arrived /\ Len(printed) = ResponseUnits - 1
  /\ result = 2 => client_pc = "exit" /\ peer = "none"
  /\ peer = "none" => sent = 0 /\ server /= "session" /\ client_pc /= "close"
  /\ printed /= <<>> => Arrived

(* Before a worker is started nothing has happened at its end. *)
ServerPlace ==
  /\ server /= "session" =>
       pc = "test" /\ input = <<>> /\ output = <<>> /\ tocli = <<>> /\ runs = 0
  /\ server = "absent" => peer = "none"
  /\ revents \cap {"POLLERR", "POLLHUP"} /= {} => peer = "gone" \/ faults > 0

(* The one request. *)
Requested ==
  /\ Len(input) + Len(tosrv) <= sent
  /\ Asks(input) /\ Asks(tosrv)
  /\ runs = 0 => output = <<>> /\ tocli = <<>> /\ response = <<>> /\ pc /= "command"
  /\ runs = 1 => sent = FrameUnits /\ tosrv = <<>>
  /\ runs = 1 /\ pc \notin {"command", "close"} => input = <<>>
  /\ pc = "command" =>
       Len(input) >= FrameUnits /\ output = <<>> /\ tocli = <<>> /\ response = <<>>
  /\ pc \in {"poll", "dispatch"} /\ output = <<>> => Len(input) < FrameUnits
  /\ pc = "dispatch" /\ "POLLIN" \in revents => output = <<>>

(* The one response, on its way. *)
Responded ==
  /\ Piece(response, 0) /\ Len(response) <= ResponseUnits
  /\ peer = "gone" => tocli = <<>>
  /\ peer /= "gone" =>
       /\ Piece(tocli, Len(response)) /\ Piece(output, Len(response) + Len(tocli))
       /\ Len(response) + Len(tocli) + Len(output) <= ResponseUnits
  /\ Piece(printed, 1) /\ Len(printed) <= ResponseUnits - 1

(* Without failure and stop neither end gives up. *)
Undisturbed ==
  faults = 0 /\ ~stopping =>
    /\ pc \in {"close", "closed"} => peer = "gone"
    /\ server /= "rejected" /\ client_pc \in {"close", "exit"} /\ peer /= "none" => result = 0

SessionInv == TypeOK /\ ClientPlace /\ ServerPlace /\ Requested /\ Responded /\ Undisturbed

------------------------------------------------------------------------------
(* The two parts of a sequence that is cut after n units. *)
LEMMA SequenceParts ==
  ASSUME NEW s \in Seq(UnitType), NEW n \in 0..Len(s)
  PROVE  /\ SubSeq(s, 1, n) \in Seq(UnitType) /\ Len(SubSeq(s, 1, n)) = n
         /\ \A k \in 1..n : SubSeq(s, 1, n)[k] = s[k]
         /\ SubSeq(s, n + 1, Len(s)) \in Seq(UnitType)
         /\ Len(SubSeq(s, n + 1, Len(s))) = Len(s) - n
         /\ \A k \in 1..(Len(s) - n) : SubSeq(s, n + 1, Len(s))[k] = s[n + k]
  OBVIOUS

(* Parts of a request are parts of a request. *)
LEMMA AsksParts ==
  ASSUME NEW s \in Seq(UnitType), NEW n \in 0..Len(s), Asks(s)
  PROVE  Asks(SubSeq(s, 1, n)) /\ Asks(SubSeq(s, n + 1, Len(s)))
  BY SequenceParts DEF Asks

(* What has been read and what is read next are units of the request. *)
LEMMA AsksConcat ==
  ASSUME NEW s \in Seq(UnitType), NEW t \in Seq(UnitType), Asks(s), Asks(t)
  PROVE  Asks(s \o t)
  BY DEF Asks

(* A run of the response's units that is cut gives two runs. *)
LEMMA PieceParts ==
  ASSUME NEW s \in Seq(UnitType), NEW n \in 0..Len(s), NEW i \in Nat, Piece(s, i)
  PROVE  Piece(SubSeq(s, 1, n), i) /\ Piece(SubSeq(s, n + 1, Len(s)), i + n)
  BY SequenceParts DEF Piece

(* Two runs of which the second goes on where the first ends are one. *)
LEMMA PieceConcat ==
  ASSUME NEW s \in Seq(UnitType), NEW t \in Seq(UnitType), NEW i \in Nat,
         Piece(s, i), Piece(t, i + Len(s))
  PROVE  Piece(s \o t, i)
  BY DEF Piece

(* A run inside a run. *)
LEMMA PieceMiddle ==
  ASSUME NEW s \in Seq(UnitType), NEW m \in Nat, NEW n \in Nat, m + n <= Len(s),
         NEW i \in Nat, Piece(s, i)
  PROVE  /\ SubSeq(s, m + 1, m + n) \in Seq(UnitType) /\ Len(SubSeq(s, m + 1, m + n)) = n
         /\ Piece(SubSeq(s, m + 1, m + n), i + m)
<1> DEFINE a == SubSeq(s, m + 1, m + n)
<1>1. a \in Seq(UnitType) /\ Len(a) = n
  OBVIOUS
<1>2. ASSUME NEW k \in 1..n PROVE a[k] = [req |-> 1, part |-> (i + m) + k]
  <2>1. a[k] = s[m + k] /\ m + k \in 1..Len(s)
    OBVIOUS
  <2>2. s[m + k] = [req |-> 1, part |-> i + (m + k)]
    BY <2>1 DEF Piece
  <2>3. i + (m + k) = (i + m) + k
    OBVIOUS
  <2> QED
    BY <2>1, <2>2, <2>3, Zenon
<1> HIDE DEF a
<1> QED
  BY <1>1, <1>2, Zenon DEF Piece, a

(* Nothing has been sent when main() starts. *)
LEMMA SessionInit == Init => SessionInv
<1> SUFFICES ASSUME Init PROVE SessionInv
  OBVIOUS
<1>1. TypeOK
  <2>1. <<>> \in Seq(UnitType)
    BY EmptySeq
  <2>2. 0 \in 0..FrameUnits /\ {} \subseteq Flags
    BY SizeAssumption
  <2> QED
    BY <2>1, <2>2, Zenon DEF Init, TypeOK
<1>2. ClientPlace /\ ServerPlace /\ Undisturbed
  BY SizeAssumption DEF Init, ClientPlace, ServerPlace, Undisturbed, Arrived
<1>3. Asks(<<>>) /\ \A i \in Nat : Piece(<<>>, i)
  BY DEF Asks, Piece
<1>4. Requested /\ Responded
  BY SizeAssumption, <1>3 DEF Init, Requested, Responded
<1> QED
  BY <1>1, <1>2, <1>4 DEF SessionInv

(* The option loop touches neither the connection nor the output. *)
LEMMA ReadOptionsStep == SessionInv /\ ClientStep /\ Client!ReadOptions => SessionInv'
<1> SUFFICES ASSUME SessionInv, ClientStep, Client!ReadOptions PROVE SessionInv'
  OBVIOUS
<1> QED
  BY DEF ClientStep, Client!ReadOptions, worker, SessionInv, TypeOK, ClientPlace, ServerPlace,
     Requested, Responded, Undisturbed, Arrived

(* Encoding the request, or failing to. *)
LEMMA PrepareStep == SessionInv /\ ClientStep /\ Client!Prepare => SessionInv'
<1> SUFFICES ASSUME SessionInv, ClientStep, Client!Prepare PROVE SessionInv'
  OBVIOUS
<1> QED
  BY DEF ClientStep, Client!Prepare, worker, SessionInv, TypeOK, ClientPlace, ServerPlace,
     Requested, Responded, Undisturbed, Arrived

(* wc_client_connect_*: only now is there a connection, or exit status 1. *)
LEMMA ConnectStep == SessionInv /\ ClientStep /\ Client!Connect => SessionInv'
<1> SUFFICES ASSUME SessionInv, ClientStep, Client!Connect PROVE SessionInv'
  OBVIOUS
<1> USE DEF ClientStep, Client!Connect, Client!cmdline, Client!Fault, Client!NoFault, worker, SessionInv
<1>1. TypeOK'
  BY DEF TypeOK
<1>2. ClientPlace'
  BY SizeAssumption DEF TypeOK, ClientPlace, ServerPlace, Arrived, ServerEnd, Requested
<1>3. ServerPlace' 
  BY DEF TypeOK, ClientPlace, ServerPlace, ServerEnd
<1>4. Requested' /\ Responded'
  BY DEF TypeOK, ClientPlace, Requested, Responded
<1>5. Undisturbed'
  BY DEF TypeOK, ClientPlace, ServerPlace, ServerEnd, Undisturbed
<1> QED
  BY <1>1, <1>2, <1>3, <1>4, <1>5

(* The client goes to its close() without a response: something had        *)
(* failed, or the server had turned it away or stopped.                    *)
LEMMA GivesUp ==
  ASSUME SessionInv, ClientStep, client_pc \in {"send", "receive"}, client_pc' = "close",
         ServerEnd = "closed" \/ faults' > 0, faults' \in Nat, faults' = 0 => faults = 0,
         UNCHANGED <<sent, response, printed, result, peer, tosrv, tocli>>
  PROVE  SessionInv'
<1> USE DEF ClientStep, worker, SessionInv
<1>1. TypeOK'
  BY DEF TypeOK
<1>2. ClientPlace' /\ ServerPlace'
  BY DEF TypeOK, ClientPlace, ServerPlace, Arrived
<1>3. Requested' /\ Responded'
  BY DEF Requested, Responded
<1>4. Undisturbed'
  BY DEF TypeOK, ClientPlace, ServerPlace, ServerEnd, Undisturbed
<1> QED
  BY <1>1, <1>2, <1>3, <1>4

(* wc_socket_write_all on the socket: the units sent go on where the last  *)
(* ones ended.                                                             *)
LEMMA SendStep == SessionInv /\ ClientStep /\ Client!Send => SessionInv'
<1> SUFFICES ASSUME SessionInv, ClientStep, Client!Send PROVE SessionInv'
  OBVIOUS
<1>0. /\ client_pc = "send" /\ UNCHANGED <<response, printed, result, peer, tocli>>
      /\ UNCHANGED <<server, worker, stopping, malformed, runs>>
  BY DEF ClientStep, Client!Send
<1>1. CASE UNCHANGED <<sent, tosrv>> /\ client_pc' = "close"
  <2>1. (ServerEnd = "closed" /\ faults' = faults) \/ (faults' = faults + 1)
    BY <1>1 DEF Client!Send, Client!Fault, Client!NoFault
  <2>2. faults \in Nat
    BY DEF SessionInv, TypeOK
  <2>3. /\ ServerEnd = "closed" \/ faults' > 0
        /\ faults' \in Nat /\ (faults' = 0 => faults = 0)
    BY <2>1, <2>2
  <2>4. client_pc \in {"send", "receive"}
    BY <1>0
  <2> QED
    BY <1>0, <1>1, <2>3, <2>4, GivesUp, Zenon
<1>2. ASSUME NEW n \in 1..Client!Least(Client!Remaining, Client!Room),
             tosrv' = tosrv \o [k \in 1..n |-> Client!RequestUnit(sent + k)],
             sent' = sent + n,
             client_pc' = IF Client!WrittenAll(sent + n) THEN "receive" ELSE "send",
             faults' = faults
      PROVE  SessionInv'
  <2> DEFINE f == [k \in 1..n |-> Client!RequestUnit(sent + k)]
  <2>0. tosrv \in Seq(UnitType) /\ Len(tosrv) \in Nat /\ sent \in Nat /\ Asks(tosrv)
    BY DEF SessionInv, TypeOK, Requested
  <2>1. n \in Nat /\ n >= 1 /\ sent + n <= FrameUnits
    BY <1>2, <2>0, SizeAssumption DEF Client!Least, Client!Remaining, Client!Room
  <2>2. f \in Seq(UnitType) /\ Len(f) = n /\ Asks(f)
    BY <2>0, <2>1 DEF Client!RequestUnit, UnitType, Asks
  <2> HIDE DEF f
  <2>3. tosrv' \in Seq(UnitType) /\ Len(tosrv') = Len(tosrv) + n
    BY <1>2, <2>0, <2>2 DEF f
  <2>4. Asks(tosrv')
    BY <1>2, <2>0, <2>2, AsksConcat, Zenon DEF f
  <2>5. TypeOK'
    BY <1>0, <1>2, <2>1, <2>3, SizeAssumption DEF SessionInv, TypeOK, worker
  <2>6. ClientPlace' /\ ServerPlace' /\ Undisturbed'
    <3>1. \/ client_pc' = "send" /\ sent' < FrameUnits
          \/ client_pc' = "receive" /\ sent' = FrameUnits
      <4>1. /\ sent' = sent + n
            /\ client_pc' = IF sent + n >= FrameUnits THEN "receive" ELSE "send"
        BY <1>2, Zenon DEF Client!WrittenAll
      <4>2. FrameUnits \in Nat
        BY SizeAssumption
      <4> QED
        BY <2>0, <2>1, <4>1, <4>2
    <3>2. peer = "open" /\ response = <<>> /\ result = 1
      BY <1>0 DEF SessionInv, ClientPlace
    <3>3. ClientPlace'
      BY <1>0, <3>1, <3>2 DEF SessionInv, ClientPlace, Arrived
    <3> QED
      BY <1>0, <1>2, <3>1, <3>2, <3>3 DEF SessionInv, ServerPlace, Undisturbed, worker
  <2>7. Requested'
    <3>1. sent < FrameUnits /\ response = <<>> /\ runs = 0
      BY <1>0, <2>0, <2>1, SizeAssumption DEF SessionInv, TypeOK, ClientPlace, Requested
    <3>2. Len(input') + Len(tosrv') <= sent'
      BY <1>0, <1>2, <2>0, <2>1, <2>3 DEF SessionInv, TypeOK, Requested, worker
    <3> QED
      BY <1>0, <2>4, <3>1, <3>2 DEF SessionInv, Requested, worker
  <2>8. Responded'
    BY <1>0 DEF SessionInv, Responded, worker
  <2> QED
    BY <2>5, <2>6, <2>7, <2>8 DEF SessionInv
<1> QED
  BY <1>1, <1>2, Zenon DEF Client!Send, Client!NoFault

(* wc_client_receive_response: one read() moves units from the connection  *)
(* into the buffer, in order.                                              *)
LEMMA ReceiveStep == SessionInv /\ ClientStep /\ Client!Receive => SessionInv'
<1> SUFFICES ASSUME SessionInv, ClientStep, Client!Receive PROVE SessionInv'
  OBVIOUS
<1>0. /\ client_pc = "receive" /\ UNCHANGED <<sent, printed, result, peer, tosrv>>
      /\ UNCHANGED <<server, worker, stopping, malformed, runs>>
  BY DEF ClientStep, Client!Receive
<1>1. CASE UNCHANGED <<response, tocli>> /\ client_pc' = "close"
  <2>1. (ServerEnd = "closed" /\ faults' = faults) \/ (faults' = faults + 1)
    BY <1>0, <1>1 DEF Client!Receive, Client!Fault, Client!NoFault
  <2>2. faults \in Nat
    BY DEF SessionInv, TypeOK
  <2>3. /\ ServerEnd = "closed" \/ faults' > 0
        /\ faults' \in Nat /\ (faults' = 0 => faults = 0)
    BY <2>1, <2>2
  <2>4. client_pc \in {"send", "receive"}
    BY <1>0
  <2> QED
    BY <1>0, <1>1, <2>3, <2>4, GivesUp, Zenon
<1>2. CASE ~(UNCHANGED <<response, tocli>> /\ client_pc' = "close")
  <2> DEFINE n == Client!Least(ReadUnits, Len(tocli))
             a == SubSeq(tocli, 1, n)
             b == SubSeq(tocli, n + 1, Len(tocli))
  <2>1. n > 0 /\ response' = response \o a /\ tocli' = b /\ UNCHANGED <<client_pc, faults>>
    BY <1>2, Zenon DEF Client!Receive, Client!NoFault
  <2>2. /\ tocli \in Seq(UnitType) /\ response \in Seq(UnitType)
        /\ Len(tocli) \in Nat /\ Len(response) \in Nat
    BY DEF SessionInv, TypeOK
  <2>3. n \in 0..Len(tocli)
    BY <2>1, <2>2, SizeAssumption DEF Client!Least
  <2>4. peer = "open" /\ Piece(tocli, Len(response)) /\ Piece(response, 0)
    BY <1>0 DEF SessionInv, ClientPlace, Responded
  <2> HIDE DEF n
  <2>5. a \in Seq(UnitType) /\ Len(a) = n /\ b \in Seq(UnitType) /\ Len(b) = Len(tocli) - n
    BY <2>2, <2>3, SequenceParts
  <2>6. Piece(a, Len(response)) /\ Piece(b, Len(response) + n)
    BY <2>2, <2>3, <2>4, PieceParts
  <2> HIDE DEF a, b
  <2>7. response' \in Seq(UnitType) /\ Len(response') = Len(response) + n
    BY <2>1, <2>2, <2>5, ConcatProperties, Zenon
  <2>8. Piece(response', 0)
    <3>1. 0 + Len(response) = Len(response) /\ 0 \in Nat
      BY <2>2
    <3> QED
      BY <2>1, <2>2, <2>4, <2>5, <2>6, <3>1, PieceConcat, Zenon
  <2>9. TypeOK'
    BY <1>0, <2>1, <2>5, <2>7, SMTT(30) DEF SessionInv, TypeOK, worker
  <2>10. tocli /= <<>>
    BY <2>1, <2>2, <2>3, SMTT(30)
  <2>11. ClientPlace' /\ ServerPlace' /\ Undisturbed'
    <3>1. Arrived => Arrived'
      BY <2>2, <2>3, <2>7, SizeAssumption, SMTT(30) DEF Arrived
    <3> QED
      BY <1>0, <2>1, <2>10, <3>1, SMTT(30) DEF SessionInv, TypeOK, ClientPlace, ServerPlace, Undisturbed,
         worker
  <2>12. Requested'
    <3>1. runs = 1 /\ pc /= "command"
      BY <2>10 DEF SessionInv, TypeOK, Requested
    <3> QED
      BY <1>0, <3>1 DEF SessionInv, Requested, worker
  <2>13. Responded'
    <3>1. /\ Len(response') + Len(tocli') = Len(response) + Len(tocli)
          /\ Len(response') <= ResponseUnits
      BY <2>1, <2>2, <2>3, <2>4, <2>5, <2>7, SizeAssumption, SMTT(30) DEF SessionInv, TypeOK, Responded
    <3> QED
      BY <1>0, <2>1, <2>4, <2>6, <2>7, <2>8, <3>1, Zenon DEF SessionInv, Responded, worker
  <2> QED
    BY <2>9, <2>11, <2>12, <2>13 DEF SessionInv
<1> QED
  BY <1>1, <1>2

(* The data of the whole response. *)
LEMMA DataWhole ==
  ASSUME SessionInv, Client!Complete
  PROVE  /\ Client!Data \in Seq(UnitType) /\ Len(Client!Data) = ResponseUnits - 1
         /\ Piece(Client!Data, 1)
<1>1. Len(response) = ResponseUnits /\ response \in Seq(UnitType) /\ Piece(response, 0)
  BY SizeAssumption DEF SessionInv, TypeOK, Responded, Client!Complete
<1>2. Client!Data = SubSeq(response, 1 + 1, Len(response)) /\ 1 \in 0..Len(response)
  BY <1>1, SizeAssumption DEF Client!Data, Client!Least
<1>3. Client!Data \in Seq(UnitType) /\ Len(Client!Data) = ResponseUnits - 1
  BY <1>1, <1>2, SequenceParts, SMTT(30)
<1>4. Piece(Client!Data, 0 + 1)
  BY <1>1, <1>2, PieceParts, SMTT(30)
<1>5. 0 + 1 = 1
  OBVIOUS
<1> QED
  BY <1>3, <1>4, <1>5, Zenon

(* wc_socket_write_all on standard output: the data printed goes on where  *)
(* the last piece ended.                                                   *)
LEMMA PrintStep == SessionInv /\ ClientStep /\ Client!PrintResponse => SessionInv'
<1> SUFFICES ASSUME SessionInv, ClientStep, Client!PrintResponse PROVE SessionInv'
  OBVIOUS
<1>0. /\ Client!Complete /\ client_pc = "receive"
      /\ UNCHANGED <<sent, response, peer, tosrv, tocli>>
      /\ UNCHANGED <<server, worker, stopping, malformed, runs>>
  BY DEF ClientStep, Client!PrintResponse
<1>1. /\ Len(response) = ResponseUnits /\ peer = "open" /\ response \in Seq(UnitType)
      /\ printed \in Seq(UnitType) /\ Len(printed) \in Nat /\ Piece(response, 0)
      /\ Piece(printed, 1) /\ Arrived /\ result = 1
  BY <1>0, SizeAssumption, SMTT(30) DEF SessionInv, TypeOK, ClientPlace, Responded, Client!Complete, Arrived
<1> DEFINE d == Client!Data
<1>3. d \in Seq(UnitType) /\ Len(d) = ResponseUnits - 1 /\ Piece(d, 1)
  BY <1>0, DataWhole
<1>4. ASSUME NEW n \in 1..(Len(d) - Len(printed)),
             printed' = printed \o SubSeq(d, Len(printed) + 1, Len(printed) + n),
             UNCHANGED <<client_pc, result, faults>>
      PROVE  SessionInv'
  <2> HIDE DEF d
  <2> DEFINE a == SubSeq(d, Len(printed) + 1, Len(printed) + n)
  <2>1. n \in Nat /\ Len(printed) + n <= Len(d)
    BY <1>1, <1>3, <1>4, SizeAssumption, SMTT(30)
  <2>2. a \in Seq(UnitType) /\ Len(a) = n /\ Piece(a, 1 + Len(printed))
    BY <1>1, <1>3, <2>1, PieceMiddle, Zenon
  <2> HIDE DEF a
  <2>3. printed' \in Seq(UnitType) /\ Len(printed') = Len(printed) + n
    BY <1>1, <1>4, <2>1, <2>2 DEF a
  <2>4. Piece(printed', 1)
    BY <1>1, <1>4, <2>2, PieceConcat, Zenon DEF a
  <2>5. TypeOK'
    BY <1>0, <1>4, <2>3, SMTT(30) DEF SessionInv, TypeOK, worker
  <2>6. ClientPlace' /\ ServerPlace' /\ Undisturbed'
    BY <1>0, <1>1, <1>4, SMTT(30) DEF SessionInv, TypeOK, ClientPlace, ServerPlace, Undisturbed, Arrived,
       worker
  <2>7. Requested'
    BY <1>0, <1>4 DEF SessionInv, Requested, worker
  <2>8. Responded'
    BY <1>0, <1>1, <1>3, <2>1, <2>3, <2>4, SMTT(30) DEF SessionInv, Responded, worker
  <2> QED
    BY <2>5, <2>6, <2>7, <2>8, SMTT(30) DEF SessionInv
<1>5. ASSUME UNCHANGED printed, client_pc' = "close", result' = 0 => Len(printed) = ResponseUnits - 1,
             result' \in {0, 1}, result' = 0 \/ faults' > 0, faults' \in Nat, faults' = 0 => faults = 0,
             faults > 0 => faults' > 0
      PROVE  SessionInv'
  <2>1. TypeOK'
    BY <1>0, <1>5 DEF SessionInv, TypeOK, worker
  <2>2. ClientPlace' /\ ServerPlace' /\ Undisturbed'
    BY <1>0, <1>1, <1>5, SMTT(30) DEF SessionInv, TypeOK, ClientPlace, ServerPlace, Undisturbed, Arrived,
       worker
  <2>3. Requested' /\ Responded'
    BY <1>0, <1>5 DEF SessionInv, Requested, Responded, worker
  <2> QED
    BY <2>1, <2>2, <2>3, SMTT(30) DEF SessionInv
<1>6. faults \in Nat /\ Len(printed) <= ResponseUnits - 1
  BY DEF SessionInv, TypeOK, Responded
<1>7. CASE /\ Len(printed) >= Len(d) /\ client_pc' = "close" /\ result' = 0
           /\ UNCHANGED printed /\ faults' = faults
  BY <1>1, <1>3, <1>5, <1>6, <1>7, SizeAssumption, SMTT(30)
<1>8. CASE client_pc' = "close" /\ result' = 1 /\ UNCHANGED printed /\ faults' = faults + 1
  BY <1>5, <1>6, <1>8, SMTT(30)
<1> QED
  BY <1>4, <1>7, <1>8, Zenon DEF Client!PrintResponse, Client!PrintFailure, Client!Fault, Client!NoFault

(* The end of main(). *)
LEMMA CloseStep == SessionInv /\ ClientStep /\ Client!Close => SessionInv'
<1> SUFFICES ASSUME SessionInv, ClientStep, Client!Close PROVE SessionInv'
  OBVIOUS
<1>0. /\ client_pc = "close" /\ client_pc' = "exit" /\ peer' = "gone" /\ tocli' = <<>>
      /\ UNCHANGED <<sent, response, printed, tosrv>>
      /\ UNCHANGED <<server, worker, stopping, malformed, runs>>
      /\ \/ UNCHANGED <<result, faults>>
         \/ result' = 1 /\ faults' = faults + 1
  BY DEF ClientStep, Client!Close, Client!AfterClose, Client!Fault, Client!NoFault
<1>1. TypeOK'
  BY <1>0, EmptySeq, SMTT(30) DEF SessionInv, TypeOK, worker
<1>2. ClientPlace' /\ ServerPlace' /\ Undisturbed'
  BY <1>0 DEF SessionInv, TypeOK, ClientPlace, ServerPlace, Undisturbed, Arrived, worker
<1>3. Requested'
  BY <1>0 DEF SessionInv, Requested, worker
<1>4. Responded'
  BY <1>0 DEF SessionInv, Responded, worker
<1> QED
  BY <1>1, <1>2, <1>3, <1>4 DEF SessionInv

------------------------------------------------------------------------------
(* The server takes the connection from its backlog or turns it away. *)
LEMMA AcceptStep == SessionInv /\ (Accept \/ Reject) => SessionInv'
<1> SUFFICES ASSUME SessionInv, Accept \/ Reject PROVE SessionInv'
  OBVIOUS
<1>0. /\ server = "backlog" /\ server' \in {"session", "rejected"}
      /\ server' = "session" => peer /= "none" /\ tosrv' = tosrv
      /\ tosrv' = tosrv \/ tosrv' = <<>>
      /\ UNCHANGED <<worker, stopping, program, peer, tocli, malformed, faults, runs>>
  BY DEF Accept, Reject, connection
<1>1. TypeOK'
  <2>1. <<>> \in Seq(UnitType) /\ tosrv \in Seq(UnitType)
    BY EmptySeq DEF SessionInv, TypeOK
  <2>2. tosrv' \in Seq(UnitType)
    BY <1>0, <2>1, Zenon
  <2> QED
    BY <1>0, <2>2 DEF SessionInv, TypeOK, worker, program
<1>2. ClientPlace' /\ ServerPlace' /\ Undisturbed'
  BY <1>0 DEF SessionInv, ClientPlace, ServerPlace, Undisturbed, Arrived, worker, program
<1>3. Requested'
  <2>1. Asks(<<>>) /\ Len(<<>>) = 0
    BY DEF Asks
  <2>2. Asks(tosrv') /\ Len(tosrv') <= Len(tosrv) /\ Len(tosrv') \in Nat
    BY <1>0, <2>1 DEF SessionInv, TypeOK, Requested
  <2> QED
    BY <1>0, <2>2 DEF SessionInv, TypeOK, ServerPlace, Requested, worker, program
<1>4. Responded'
  BY <1>0 DEF SessionInv, Responded, worker, program
<1> QED
  BY <1>1, <1>2, <1>3, <1>4, SMTT(30) DEF SessionInv

(* The server's stop flag is set. *)
LEMMA StopStep == SessionInv /\ RequestStop => SessionInv'
<1> SUFFICES ASSUME SessionInv, RequestStop PROVE SessionInv'
  OBVIOUS
<1>0. /\ stopping' = TRUE
      /\ UNCHANGED <<server, worker, program, connection, faults, runs>>
  BY DEF RequestStop, Session!RequestStop, Session!wire, Session!client, worker, program,
     connection
<1>1. TypeOK'
  BY <1>0 DEF SessionInv, TypeOK, worker, program, connection
<1>2. ClientPlace' /\ ServerPlace' /\ Undisturbed'
  BY <1>0 DEF SessionInv, ClientPlace, ServerPlace, Undisturbed, Arrived, worker, program,
     connection
<1>3. Requested' /\ Responded'
  BY <1>0 DEF SessionInv, Requested, Responded, worker, program, connection
<1> QED
  BY <1>1, <1>2, <1>3, SMTT(30) DEF SessionInv

(* The steps of the worker that move no unit. *)
Moves ==
  /\ server = "session"
  /\ UNCHANGED <<server, input, output, stopping, program, connection>>
  /\ faults' \in Nat /\ faults' >= faults

(* A step of the worker that moves no unit preserves the invariant when it *)
(* comes to a place that the units it holds allow.                         *)
LEMMA MovesStep ==
  ASSUME SessionInv, Moves, runs' = runs,
         pc' \in {"test", "process", "poll", "dispatch", "write", "hangup", "close"},
         pc \notin {"command", "closed"}, pc = "close" => pc' = "close",
         pc' = "close" => peer = "gone" \/ stopping \/ faults' > 0,
         pc' \in {"poll", "dispatch"} /\ output = <<>> => Len(input) < FrameUnits,
         pc' = "dispatch" /\ "POLLIN" \in revents' => output = <<>>,
         revents' \subseteq Flags,
         revents' \cap {"POLLERR", "POLLHUP"} /= {} => peer = "gone" \/ faults' > 0
  PROVE  SessionInv'
<1> USE DEF Moves
<1>1. TypeOK'
  BY DEF SessionInv, TypeOK, program, connection
<1>2. ClientPlace' /\ ServerPlace'
  BY DEF SessionInv, TypeOK, ClientPlace, ServerPlace, Arrived, program, connection
<1>3. Undisturbed'
  BY DEF SessionInv, TypeOK, Undisturbed, program, connection
<1>4. Requested'
  BY DEF SessionInv, TypeOK, Requested, program, connection
<1>5. Responded'
  BY DEF SessionInv, Responded, program, connection
<1> QED
  BY <1>1, <1>2, <1>3, <1>4, <1>5, SMTT(30) DEF SessionInv

(* A step of the worker that moves no unit. *)
LEMMA WorkerMoves ==
  ASSUME SessionInv, WorkerStep, UNCHANGED <<input, output, stopping>>,
         UNCHANGED Session!wire, UNCHANGED Session!client,
         Session!Fault \/ Session!NoFault, pc' /= "command"
  PROVE  Moves /\ runs' = runs /\ (Session!Fault => faults' > 0)
<1>1. runs' = runs /\ UNCHANGED <<server, program, connection>> /\ server = "session"
  BY DEF WorkerStep, Session!wire, Session!client, program, connection
<1>2. faults \in Nat
  BY DEF SessionInv, TypeOK
<1> QED
  BY <1>1, <1>2, SMTT(30) DEF Moves, Session!Fault, Session!NoFault

(* The worker ends before it processes input only when it was told to stop *)
(* or a call failed.                                                       *)
LEMMA TestStopStep == SessionInv /\ WorkerStep /\ Session!TestStop => SessionInv'
<1> SUFFICES ASSUME SessionInv, WorkerStep, Session!TestStop PROVE SessionInv'
  OBVIOUS
<1>1. /\ pc = "test" /\ pc' \in {"process", "close"} /\ UNCHANGED <<input, output, stopping, revents>>
      /\ UNCHANGED Session!wire /\ UNCHANGED Session!client
      /\ Session!Fault \/ Session!NoFault
      /\ pc' = "close" => stopping \/ Session!Fault
  BY Zenon DEF Session!TestStop, Session!StopSeen
<1>2. Moves /\ runs' = runs /\ (Session!Fault => faults' > 0)
  BY <1>1, WorkerMoves, SMTT(30)
<1>3. revents' \subseteq Flags /\ (revents' \cap {"POLLERR", "POLLHUP"} /= {} => peer = "gone" \/ faults' > 0)
  BY <1>1, <1>2, SMTT(30) DEF SessionInv, TypeOK, ServerPlace, Moves
<1> QED
  BY <1>1, <1>2, <1>3, MovesStep, SMTT(30)

(* wc_*_process_request: the request is complete only when all of it has   *)
(* been sent, and it has not been run before.                              *)
LEMMA ProcessStep == SessionInv /\ WorkerStep /\ Session!ProcessRequest => SessionInv'
<1> SUFFICES ASSUME SessionInv, WorkerStep, Session!ProcessRequest PROVE SessionInv'
  OBVIOUS
<1>1. /\ pc = "process" /\ UNCHANGED <<input, output, stopping, revents, faults>>
      /\ UNCHANGED Session!wire /\ UNCHANGED Session!client
      /\ pc' = IF ~Session!Drained \/ Session!ParsedRequest = "NEED_MORE" THEN "poll"
               ELSE IF Session!ParsedRequest = "INVALID" THEN "close" ELSE "command"
  BY Zenon DEF Session!ProcessRequest
<1>2. input \in Seq(UnitType) /\ Len(input) \in Nat /\ FrameUnits \in Nat \ {0}
  BY SizeAssumption DEF SessionInv, TypeOK
<1>3. Session!ParsedRequest /= "INVALID"
  <2>1. input /= <<>> => Head(input) = input[1] /\ 1 \in 1..Len(input)
    BY <1>2
  <2> QED
    BY <1>2, <2>1 DEF Session!ParsedRequest, SessionInv, Requested, Asks
<1>4. CASE pc' = "poll"
  <2>1. output = <<>> => Len(input) < FrameUnits
    BY <1>1, <1>2, <1>4, SMTT(30) DEF Session!Drained, Session!ParsedRequest
  <2>2. Moves /\ runs' = runs
    BY <1>1, <1>4, WorkerMoves, SMTT(30) DEF Session!NoFault
  <2>3. /\ revents' \subseteq Flags
        /\ revents' \cap {"POLLERR", "POLLHUP"} /= {} => peer = "gone" \/ faults' > 0
    BY <1>1, SMTT(30) DEF SessionInv, TypeOK, ServerPlace
  <2> QED
    BY <1>1, <1>4, <2>1, <2>2, <2>3, MovesStep, SMTT(30)
<1>5. CASE pc' = "command"
  <2>1. output = <<>> /\ Len(input) >= FrameUnits
    BY <1>1, <1>2, <1>5, SMTT(30) DEF Session!Drained, Session!ParsedRequest
  <2>2. server = "session" /\ runs' = runs + 1 /\ UNCHANGED <<server, program, connection>>
    BY <1>1, <1>5, SMTT(30) DEF WorkerStep, Session!wire, Session!client, program, connection
  <2>3. runs = 0 /\ sent = FrameUnits /\ Len(tosrv) = 0 /\ tocli = <<>> /\ response = <<>>
    <3>1. input /= <<>>
      BY <1>2, <2>1, SMTT(30)
    <3>2. runs = 0
      BY <1>1, <3>1, SMTT(30) DEF SessionInv, TypeOK, Requested
    <3>3. sent \in 0..FrameUnits /\ Len(tosrv) \in Nat /\ Len(input) + Len(tosrv) <= sent
      BY DEF SessionInv, TypeOK, Requested
    <3> QED
      BY <1>2, <2>1, <3>2, <3>3, SMTT(30) DEF SessionInv, Requested
  <2>4. tosrv = <<>>
    BY <2>3, EmptySeq, SMTT(30) DEF SessionInv, TypeOK
  <2>5. TypeOK'
    BY <1>1, <1>5, <2>2, <2>3, SMTT(30) DEF SessionInv, TypeOK, program, connection
  <2>6. ClientPlace' /\ ServerPlace' /\ Undisturbed'
    BY <1>1, <1>5, <2>2, SMTT(30) DEF SessionInv, ClientPlace, ServerPlace, Undisturbed, Arrived,
       program, connection
  <2>7. Requested'
    BY <1>1, <1>5, <2>1, <2>2, <2>3, <2>4, SMTT(30) DEF SessionInv, Requested, program, connection
  <2>8. Responded'
    BY <1>1, <2>2 DEF SessionInv, Responded, program, connection
  <2> QED
    BY <2>5, <2>6, <2>7, <2>8 DEF SessionInv
<1> QED
  BY <1>1, <1>3, <1>4, <1>5, SMTT(30)

(* poll() reports room for output only while there is output. *)
LEMMA PollReturnsStep == SessionInv /\ WorkerStep /\ Session!PollReturns => SessionInv'
<1> SUFFICES ASSUME SessionInv, WorkerStep, Session!PollReturns PROVE SessionInv'
  OBVIOUS
<1>1. /\ pc = "poll" /\ pc' \in {"dispatch", "hangup"} /\ UNCHANGED <<input, output, stopping>>
      /\ UNCHANGED Session!wire /\ UNCHANGED Session!client
      /\ \/ revents' \in {Session!Condition \cup e : e \in Session!Extra} /\ Session!NoFault
         \/ revents' = Session!Condition \cup {"POLLERR"} /\ Session!Fault
  BY DEF Session!PollReturns
<1>2. Moves /\ runs' = runs /\ (Session!Fault => faults' > 0)
  BY <1>1, WorkerMoves
<1>3. /\ Session!Condition \subseteq {"POLLIN", "POLLOUT"}
      /\ "POLLIN" \in Session!Condition => output = <<>>
  BY DEF Session!Condition, Session!Events
<1>4. \A e \in Session!Extra : e \subseteq {"POLLHUP", "POLLERR"} /\ (peer = "gone" \/ e = {})
  BY DEF Session!Extra
<1>5. /\ revents' \subseteq Flags /\ ("POLLIN" \in revents' => output = <<>>)
      /\ revents' \cap {"POLLERR", "POLLHUP"} /= {} => peer = "gone" \/ faults' > 0
  BY <1>1, <1>2, <1>3, <1>4, Zenon DEF Flags
<1>6. output = <<>> => Len(input) < FrameUnits
  BY <1>1 DEF SessionInv, Requested
<1> QED
  BY <1>1, <1>2, <1>5, <1>6, MovesStep, SMTT(30)

(* poll() times out or fails. *)
LEMMA PollTimesOutStep == SessionInv /\ WorkerStep /\ Session!PollTimesOut => SessionInv'
<1> SUFFICES ASSUME SessionInv, WorkerStep, Session!PollTimesOut PROVE SessionInv'
  OBVIOUS
<1>1. /\ pc = "poll" /\ pc' \in {"test", "close"} /\ UNCHANGED <<input, output, stopping, revents>>
      /\ UNCHANGED Session!wire /\ UNCHANGED Session!client
      /\ Session!Fault \/ Session!NoFault
      /\ pc' = "close" => Session!Fault
  BY DEF Session!PollTimesOut
<1>2. Moves /\ runs' = runs /\ (Session!Fault => faults' > 0)
  BY <1>1, WorkerMoves
<1>3. revents' \subseteq Flags /\ (revents' \cap {"POLLERR", "POLLHUP"} /= {} => peer = "gone" \/ faults' > 0)
  BY <1>1, <1>2, SMTT(30) DEF SessionInv, TypeOK, ServerPlace, Moves
<1> QED
  BY <1>1, <1>2, <1>3, MovesStep, SMTT(30)

(* wc_*_read_client: one read() moves units of the request into the        *)
(* buffer.                                                                 *)
LEMMA ReadClientStep == SessionInv /\ WorkerStep /\ Session!ReadClient => SessionInv'
<1> SUFFICES ASSUME SessionInv, WorkerStep, Session!ReadClient PROVE SessionInv'
  OBVIOUS
<1> DEFINE n == Session!Least(Session!Least(Session!Available, ReadUnits), Len(tosrv))
           a == SubSeq(tosrv, 1, n)
           b == SubSeq(tosrv, n + 1, Len(tosrv))
<1>1. /\ pc = "dispatch" /\ "POLLIN" \in revents /\ n > 0 /\ tosrv' = b
      /\ \/ input' = input \o a /\ pc' = "write" /\ faults' = faults
         \/ input' = input /\ pc' = "close" /\ faults' = faults + 1
      /\ UNCHANGED <<output, revents, stopping, tocli, peer, sent, malformed, response>>
  BY Zenon DEF Session!ReadClient, Session!Consume, Session!client, Session!Fault, Session!NoFault
<1>2. /\ server = "session" /\ runs' = runs
      /\ UNCHANGED <<server, arguments, options, client_pc, printed, result>>
  BY <1>1 DEF WorkerStep
<1>3. /\ tosrv \in Seq(UnitType) /\ input \in Seq(UnitType) /\ faults \in Nat /\ sent \in Nat
      /\ Len(tosrv) \in Nat /\ Len(input) \in Nat
  BY SizeAssumption, SMTT(30) DEF SessionInv, TypeOK
<1>4. n \in 0..Len(tosrv)
  BY <1>1, <1>3, SizeAssumption, SMTT(30) DEF Session!Least, Session!Available
<1> HIDE DEF n
<1>5. a \in Seq(UnitType) /\ Len(a) = n /\ b \in Seq(UnitType) /\ Len(b) = Len(tosrv) - n
  BY <1>3, <1>4, SequenceParts, SMTT(30)
<1>6. Asks(a) /\ Asks(b) /\ Asks(input)
  BY <1>3, <1>4, AsksParts, SMTT(30) DEF SessionInv, Requested
<1> HIDE DEF a, b
<1>7. input \o a \in Seq(UnitType) /\ Len(input \o a) = Len(input) + n /\ Asks(input \o a)
  BY <1>3, <1>5, <1>6, ConcatProperties, AsksConcat, Zenon
<1>8. /\ input' \in Seq(UnitType) /\ Asks(input') /\ Len(input') <= Len(input) + n
      /\ Len(input') \in Nat
  <2>1. input' \in Seq(UnitType) /\ Asks(input')
    BY <1>1, <1>3, <1>6, <1>7, Zenon
  <2>2. Len(input') = Len(input) \/ Len(input') = Len(input) + n
    BY <1>1, <1>7, Zenon
  <2> QED
    BY <1>3, <1>4, <2>1, <2>2, SMTT(30)
<1>9. runs = 0
  <2>1. tosrv /= <<>>
    BY <1>1, <1>3, <1>4, SMTT(30)
  <2> QED
    BY <2>1 DEF SessionInv, TypeOK, Requested
<1>10. TypeOK'
  BY <1>1, <1>2, <1>3, <1>5, <1>8, SMTT(30) DEF SessionInv, TypeOK
<1>11. ClientPlace' /\ ServerPlace' /\ Undisturbed'
  <2>1. \/ pc' = "write" /\ faults' = faults
        \/ pc' = "close" /\ faults' > 0
    <3>1. faults + 1 > 0
      BY <1>3
    <3> QED
      BY <1>1, <3>1, Zenon
  <2> QED
    BY <1>1, <1>2, <2>1, SMTT(30) DEF SessionInv, ClientPlace, ServerPlace, Undisturbed, Arrived
<1>12. Requested'
  <2>1. Len(input') + Len(tosrv') <= sent'
    BY <1>1, <1>3, <1>4, <1>5, <1>8, SMTT(30) DEF SessionInv, Requested
  <2> QED
    BY <1>1, <1>2, <1>6, <1>8, <1>9, <2>1, SMTT(30) DEF SessionInv, Requested
<1>13. Responded'
  BY <1>1, <1>2 DEF SessionInv, Responded
<1> QED
  BY <1>10, <1>11, <1>12, <1>13 DEF SessionInv

(* A read() that gives nothing ends the session only for a client that is  *)
(* gone, or after a failure: there is always room for a request.           *)
LEMMA ReadFailsStep == SessionInv /\ WorkerStep /\ Session!ReadFails => SessionInv'
<1> SUFFICES ASSUME SessionInv, WorkerStep, Session!ReadFails PROVE SessionInv'
  OBVIOUS
<1>1. /\ pc = "dispatch" /\ "POLLIN" \in revents /\ pc' \in {"write", "close"}
      /\ UNCHANGED <<input, output, stopping, revents>>
      /\ UNCHANGED Session!wire /\ UNCHANGED Session!client
      /\ Session!Fault \/ Session!NoFault
      /\ Session!Fault \/ Session!Available = 0 \/ peer /= "open"
  BY DEF Session!ReadFails, Session!AtEndOfFile
<1>2. Moves /\ runs' = runs /\ (Session!Fault => faults' > 0)
  BY <1>1, WorkerMoves, SMTT(30)
<1>3. /\ revents' \subseteq Flags
      /\ revents' \cap {"POLLERR", "POLLHUP"} /= {} => peer = "gone" \/ faults' > 0
  BY <1>1, <1>2 DEF SessionInv, TypeOK, ServerPlace, Moves
<1>4. Session!Available /= 0
  <2>1. Len(input) < FrameUnits /\ Len(input) \in Nat
    BY <1>1 DEF SessionInv, TypeOK, Requested
  <2> QED
    BY <2>1, SizeAssumption, SMTT(30) DEF Session!Available
<1>5. peer /= "open" => peer = "gone"
  BY <1>2, SMTT(30) DEF SessionInv, TypeOK, ClientPlace, Moves
<1> QED
  BY <1>1, <1>2, <1>3, <1>4, <1>5, MovesStep, SMTT(30)

(* wc_*_write_client: one send() moves units of the response, in order. *)
LEMMA WriteClientStep == SessionInv /\ WorkerStep /\ Session!WriteClient => SessionInv'
<1> SUFFICES ASSUME SessionInv, WorkerStep, Session!WriteClient PROVE SessionInv'
  OBVIOUS
<1> DEFINE n == IF peer = "gone" THEN Len(output) ELSE Session!Least(Session!Room, Len(output))
           a == SubSeq(output, 1, n)
           b == SubSeq(output, n + 1, Len(output))
<1>1. /\ pc \in {"dispatch", "write"} /\ n > 0 /\ output' = b /\ pc' = "hangup"
      /\ tocli' = IF peer = "gone" THEN <<>> ELSE tocli \o a
      /\ UNCHANGED <<input, revents, stopping, tosrv, peer, sent, malformed, response, faults>>
  BY DEF Session!WriteClient, Session!MayWrite, Session!Unsent, Session!Consume, Session!client
<1>2. /\ server = "session" /\ runs' = runs
      /\ UNCHANGED <<server, arguments, options, client_pc, printed, result>>
  BY <1>1 DEF WorkerStep
<1>3. /\ tocli \in Seq(UnitType) /\ output \in Seq(UnitType) /\ response \in Seq(UnitType)
      /\ Len(tocli) \in Nat /\ Len(output) \in Nat /\ Len(response) \in Nat
  BY DEF SessionInv, TypeOK
<1>4. n \in 0..Len(output)
  BY <1>1, <1>3, SizeAssumption DEF Session!Least, Session!Room
<1> HIDE DEF n
<1>5. a \in Seq(UnitType) /\ Len(a) = n /\ b \in Seq(UnitType) /\ Len(b) = Len(output) - n
  BY <1>3, <1>4, SequenceParts, SMTT(30)
<1>6. runs = 1
  <2>1. output /= <<>>
    BY <1>1, <1>3, <1>4
  <2> QED
    BY <2>1 DEF SessionInv, TypeOK, Requested
<1>7. tocli \o a \in Seq(UnitType) /\ Len(tocli \o a) = Len(tocli) + n
  <2> HIDE DEF a
  <2> QED
    BY <1>3, <1>5, ConcatProperties, Zenon
<1>8. tocli' \in Seq(UnitType)
  BY <1>1, <1>7, EmptySeq, Zenon
<1>9. TypeOK'
  <2> HIDE DEF a, b
  <2> QED
    BY <1>1, <1>2, <1>5, <1>8, SMTT(30) DEF SessionInv, TypeOK
<1>10. ClientPlace' /\ ServerPlace' /\ Undisturbed'
  <2> HIDE DEF a, b
  <2> QED
    BY <1>1, <1>2, SMTT(30) DEF SessionInv, ClientPlace, ServerPlace, Undisturbed, Arrived
<1>11. Requested'
  <2> HIDE DEF a, b
  <2> QED
    BY <1>1, <1>2, <1>6, SMTT(30) DEF SessionInv, Requested
<1>12. Responded'
  <2>1. CASE peer = "gone"
    <3> HIDE DEF a, b
    <3> QED
      BY <1>1, <1>2, <2>1, SMTT(30) DEF SessionInv, Responded
  <2>2. CASE peer /= "gone"
    <3>1. /\ Piece(tocli, Len(response)) /\ Piece(output, Len(response) + Len(tocli))
          /\ Len(response) + Len(tocli) + Len(output) <= ResponseUnits
      BY <2>2 DEF SessionInv, Responded
    <3>2. Len(response) + Len(tocli) \in Nat
      BY <1>3
    <3>3. Piece(a, Len(response) + Len(tocli)) /\ Piece(b, (Len(response) + Len(tocli)) + n)
      BY <1>3, <1>4, <3>1, <3>2, PieceParts, Zenon
    <3> HIDE DEF a, b
    <3>4. Piece(tocli \o a, Len(response))
      BY <1>3, <1>5, <3>1, <3>3, PieceConcat, Zenon
    <3>5. tocli' = tocli \o a
      BY <1>1, <2>2, Zenon
    <3>6. (Len(response) + Len(tocli)) + n = Len(response) + Len(tocli')
      <4>1. Len(tocli') = Len(tocli) + n
        BY <1>7, <3>5, Zenon
      <4> QED
        BY <1>3, <1>4, <4>1
    <3>7. Len(response) + Len(tocli') + Len(output') <= ResponseUnits
      <4>1. Len(tocli') = Len(tocli) + n /\ Len(output') = Len(output) - n /\ n \in Nat
        BY <1>1, <1>4, <1>5, <1>7, <3>5, SMTT(30)
      <4> QED
        BY <1>3, <3>1, <4>1, SizeAssumption, SMTT(30)
    <3>8. Piece(output', Len(response') + Len(tocli')) /\ Piece(tocli', Len(response'))
      BY <1>1, <3>3, <3>4, <3>5, <3>6, Zenon
    <3> QED
      BY <1>1, <1>2, <2>2, <3>7, <3>8, Zenon DEF SessionInv, Responded
  <2> QED
    BY <2>1, <2>2, SMTT(30)
<1> QED
  BY <1>9, <1>10, <1>11, <1>12 DEF SessionInv

(* A send() that fails, or is not tried. *)
LEMMA WriteFailsStep ==
  SessionInv /\ WorkerStep /\ (Session!WriteFails \/ Session!NothingToWrite) => SessionInv'
<1> SUFFICES ASSUME SessionInv, WorkerStep, Session!WriteFails \/ Session!NothingToWrite
             PROVE  SessionInv'
  OBVIOUS
<1>1. /\ pc \in {"dispatch", "write"} /\ pc' \in {"hangup", "close"}
      /\ UNCHANGED <<input, output, stopping, revents>>
      /\ UNCHANGED Session!wire /\ UNCHANGED Session!client
      /\ Session!Fault \/ Session!NoFault
      /\ pc' = "close" => Session!Fault \/ peer = "gone"
  BY DEF Session!WriteFails, Session!NothingToWrite, Session!MayWrite, Session!NoFault
<1>2. Moves /\ runs' = runs /\ (Session!Fault => faults' > 0)
  BY <1>1, WorkerMoves, SMTT(30)
<1>3. /\ revents' \subseteq Flags
      /\ revents' \cap {"POLLERR", "POLLHUP"} /= {} => peer = "gone" \/ faults' > 0
  BY <1>1, <1>2 DEF SessionInv, TypeOK, ServerPlace, Moves
<1> QED
  BY <1>1, <1>2, <1>3, MovesStep

(* The tests for POLLERR and POLLHUP. *)
LEMMA CheckHangupStep == SessionInv /\ WorkerStep /\ Session!CheckHangup => SessionInv'
<1> SUFFICES ASSUME SessionInv, WorkerStep, Session!CheckHangup PROVE SessionInv'
  OBVIOUS
<1>1. /\ pc = "hangup" /\ pc' \in {"test", "close"} /\ revents' = {}
      /\ UNCHANGED <<input, output, stopping, faults>>
      /\ UNCHANGED Session!wire /\ UNCHANGED Session!client
      /\ pc' = "close" => "POLLERR" \in revents \/ "POLLHUP" \in revents
  BY DEF Session!CheckHangup
<1>2. Moves /\ runs' = runs
  BY <1>1, WorkerMoves DEF Session!NoFault
<1>3. pc' = "close" => peer = "gone" \/ faults' > 0
  BY <1>1, SMTT(30) DEF SessionInv, ServerPlace
<1> QED
  BY <1>1, <1>2, <1>3, MovesStep

(* The worker frees its buffers and closes the connection. *)
LEMMA WorkerCloseStep == SessionInv /\ WorkerStep /\ Session!Close => SessionInv'
<1> SUFFICES ASSUME SessionInv, WorkerStep, Session!Close PROVE SessionInv'
  OBVIOUS
<1>1. /\ pc = "close" /\ pc' = "closed" /\ input' = <<>> /\ output' = <<>> /\ revents' = {}
      /\ tosrv' = <<>> /\ UNCHANGED <<stopping, tocli, peer, sent, malformed, response, faults>>
      /\ server = "session" /\ runs' = runs
      /\ UNCHANGED <<server, arguments, options, client_pc, printed, result>>
  BY DEF Session!Close, Session!client, WorkerStep
<1>2. TypeOK'
  BY <1>1, EmptySeq DEF SessionInv, TypeOK
<1>3. ClientPlace' /\ ServerPlace' /\ Undisturbed'
  BY <1>1 DEF SessionInv, ClientPlace, ServerPlace, Undisturbed, Arrived
<1>4. Asks(<<>>) /\ Len(<<>>) = 0 /\ \A i : Piece(<<>>, i)
  BY DEF Asks, Piece
<1>5. Requested'
  BY <1>1, <1>4, SizeAssumption, SMTT(30) DEF SessionInv, TypeOK, Requested
<1>6. Responded'
  BY <1>1, <1>4, SizeAssumption, SMTT(30) DEF SessionInv, TypeOK, Responded
<1> QED
  BY <1>2, <1>3, <1>5, <1>6 DEF SessionInv

(* The command has run: the worker has the whole response to send and no   *)
(* request left.                                                           *)
LEMMA CommandEndsStep == SessionInv /\ CommandEnds => SessionInv'
<1> SUFFICES ASSUME SessionInv, CommandEnds PROVE SessionInv'
  OBVIOUS
<1>1. /\ pc = "command" /\ server = "session"
      /\ \/ /\ output' = output \o Session!Response(Head(input).req)
            /\ input' = SubSeq(input, FrameUnits + 1, Len(input))
            /\ pc' = "poll" /\ faults' = faults
         \/ pc' = "close" /\ faults' = faults + 1 /\ UNCHANGED <<input, output>>
      /\ UNCHANGED <<revents, stopping, tosrv, tocli, peer, sent, malformed, response>>
      /\ UNCHANGED <<server, arguments, options, client_pc, printed, result, runs>>
  BY DEF CommandEnds, Session!CommandEnds, Session!Consumed, Session!Consume, Session!Fault,
         Session!NoFault, Session!wire, Session!client
<1>2. /\ input \in Seq(UnitType) /\ Len(input) = FrameUnits /\ FrameUnits \in Nat \ {0}
      /\ output = <<>> /\ tocli = <<>> /\ response = <<>> /\ runs = 1
  BY <1>1, SizeAssumption DEF SessionInv, TypeOK, Requested
<1>3. /\ Session!Response(1) \in Seq(UnitType) /\ Len(Session!Response(1)) = ResponseUnits
      /\ Piece(Session!Response(1), 0)
  <2> DEFINE f == [p \in 1..ResponseUnits |-> [req |-> 1, part |-> p]]
  <2>1. Session!Response(1) = f /\ ResponseUnits \in Nat
    BY SizeAssumption DEF Session!Response
  <2>2. \A p \in 1..ResponseUnits : [req |-> 1, part |-> p] \in UnitType
    BY <2>1 DEF UnitType
  <2>3. f \in Seq(UnitType) /\ Len(f) = ResponseUnits
    BY <2>1, <2>2
  <2>4. \A k \in 1..ResponseUnits : f[k] = [req |-> 1, part |-> 0 + k]
    BY <2>1
  <2> HIDE DEF f
  <2> QED
    BY <2>1, <2>3, <2>4, Zenon DEF Piece
<1>4. Head(input).req = 1
  BY <1>2 DEF SessionInv, Requested, Asks
<1>5. CASE /\ output' = output \o Session!Response(Head(input).req)
           /\ input' = SubSeq(input, FrameUnits + 1, Len(input))
           /\ pc' = "poll" /\ faults' = faults
  <2> DEFINE o == Session!Response(1)
  <2> HIDE DEF o
  <2>1. output' = o
    BY <1>2, <1>3, <1>4, <1>5, ConcatEmptySeq, Zenon DEF o
  <2>2. input' = <<>>
    BY <1>2, <1>5
  <2>3. o \in Seq(UnitType) /\ Len(o) = ResponseUnits /\ Piece(o, 0)
    BY <1>3 DEF o
  <2>4. TypeOK'
    BY <1>1, <1>5, <2>1, <2>2, <2>3, EmptySeq, Zenon DEF SessionInv, TypeOK
  <2>5. ClientPlace' /\ ServerPlace' /\ Undisturbed'
    BY <1>1, <1>5 DEF SessionInv, ClientPlace, ServerPlace, Undisturbed, Arrived
  <2>6. Asks(<<>>) /\ Len(<<>>) = 0
    BY DEF Asks
  <2>7. Requested'
    <3>1. tosrv = <<>> /\ sent = FrameUnits
      BY <1>2 DEF SessionInv, Requested
    <3>2. output' /= <<>>
      BY <2>1, <2>3, <2>6, SizeAssumption, SMTT(30)
    <3>3. Len(input') + Len(tosrv') <= sent'
      BY <1>1, <1>2, <2>2, <2>6, <3>1, SMTT(30)
    <3> QED
      <4>1. pc' = "poll" /\ runs' = 1 /\ sent' = FrameUnits /\ tosrv' = <<>> /\ input' = <<>>
        BY <1>1, <1>2, <1>5, <2>2, <3>1, Zenon
      <4>2. Asks(input') /\ Asks(tosrv')
        BY <2>6, <4>1, Zenon
      <4> QED
        BY <3>2, <3>3, <4>1, <4>2, SMTT(30) DEF Requested
  <2>8. Responded'
    BY <1>1, <1>2, <2>1, <2>3, <2>6, SizeAssumption, SMTT(30) DEF SessionInv, Responded
  <2> QED
    BY <2>4, <2>5, <2>7, <2>8, SMTT(30) DEF SessionInv
<1>6. CASE pc' = "close" /\ faults' = faults + 1 /\ UNCHANGED <<input, output>>
  <2>1. faults \in Nat
    BY DEF SessionInv, TypeOK
  <2>2. TypeOK'
    BY <1>1, <1>6, <2>1, SMTT(30) DEF SessionInv, TypeOK
  <2>3. ClientPlace' /\ ServerPlace' /\ Undisturbed'
    BY <1>1, <1>6, <2>1, SMTT(30) DEF SessionInv, ClientPlace, ServerPlace, Undisturbed, Arrived
  <2>4. Requested' /\ Responded'
    BY <1>1, <1>2, <1>6, SMTT(30) DEF SessionInv, Requested, Responded
  <2> QED
    BY <2>2, <2>3, <2>4 DEF SessionInv
<1> QED
  BY <1>1, <1>5, <1>6, SMTT(30)

(* Every step of either end preserves the invariant. *)
LEMMA SessionStep == SessionInv /\ [Next]_vars => SessionInv'
<1> SUFFICES ASSUME SessionInv, [Next]_vars PROVE SessionInv'
  OBVIOUS
<1>1. CASE UNCHANGED vars
  <2>1. UNCHANGED <<server, worker, stopping, program, connection, faults, runs>>
    BY <1>1, SMTT(30) DEF vars
  <2>2. TypeOK' /\ ClientPlace' /\ ServerPlace'
    BY <2>1, SMTT(30) DEF SessionInv, TypeOK, ClientPlace, ServerPlace, Arrived, worker, program, connection
  <2>3. Requested' /\ Responded' /\ Undisturbed'
    BY <2>1 DEF SessionInv, Requested, Responded, Undisturbed, worker, program, connection
  <2> QED
    BY <2>2, <2>3, SMTT(30) DEF SessionInv
<1>2. CASE ClientStep
  BY <1>2, ReadOptionsStep, PrepareStep, ConnectStep, SendStep, ReceiveStep, PrintStep,
     CloseStep, Zenon
     DEF ClientStep, Client!Main
<1>3. CASE WorkerStep
  BY <1>3, TestStopStep, ProcessStep, PollReturnsStep, PollTimesOutStep, ReadClientStep,
     ReadFailsStep,
     WriteClientStep, WriteFailsStep, CheckHangupStep, WorkerCloseStep, Zenon
     DEF WorkerStep, Session!Worker
<1> QED
  BY <1>1, <1>2, <1>3, AcceptStep, StopStep, CommandEndsStep, Zenon DEF Next

(* The invariant of the two ends: client, worker and connection together   *)
(* hold one request at most, and the units of the one response in order.   *)
THEOREM SessionInvariant == Spec => []SessionInv
  BY SessionInit, SessionStep, PTL DEF Spec

(* A client that was accepted, with no failing call and no stop, exits     *)
(* with status 0, for any sizes of frame, response, buffers and read().    *)
THEOREM AcceptedSucceedsAlways == Spec => []AcceptedSucceeds
<1>1. SessionInv => AcceptedSucceeds
  BY DEF SessionInv, ClientPlace, Undisturbed, AcceptedSucceeds
<1> QED
  BY <1>1, SessionInvariant, PTL

------------------------------------------------------------------------------
(* A run that starts with the first unit of the data is the whole of the   *)
(* data when it is as long, and a proper prefix of it when it is shorter.  *)
LEMMA WholeOrPart ==
  ASSUME NEW p \in Seq(UnitType), Piece(p, 1), Len(p) <= ResponseUnits - 1
  PROVE  /\ p = WholeResponse <=> Len(p) = ResponseUnits - 1
         /\ 0 < Len(p) /\ Len(p) < ResponseUnits - 1 => p \in PartOfResponse
<1> DEFINE w == WholeResponse
           m == ResponseUnits - 1
<1>1. m \in Nat /\ Len(p) \in Nat /\ ResponseUnits \in Nat
  BY SizeAssumption
<1>2. \A k \in 1..m : [req |-> 1, part |-> k + 1] \in UnitType
  BY <1>1 DEF UnitType
<1>3. w \in Seq(UnitType) /\ Len(w) = m /\ \A k \in 1..m : w[k] = [req |-> 1, part |-> k + 1]
  BY <1>1, <1>2 DEF WholeResponse
<1>4. \A k \in 1..Len(p) : p[k] = [req |-> 1, part |-> k + 1]
  <2> SUFFICES ASSUME NEW k \in 1..Len(p) PROVE p[k] = [req |-> 1, part |-> k + 1]
    BY Zenon
  <2>1. 1 + k = k + 1
    BY <1>1
  <2> QED
    BY <2>1, Zenon DEF Piece
<1>5. \A k \in 1..Len(p) : p[k] = w[k]
  <2> HIDE DEF w
  <2>1. \A k \in 1..Len(p) : k \in 1..m
    BY <1>1
  <2> QED
    BY <1>3, <1>4, <2>1, Zenon
<1> HIDE DEF w
<1>6. Len(p) = m => p = w
  <2> SUFFICES ASSUME Len(p) = m PROVE p = w
    OBVIOUS
  <2>1. Len(p) = Len(w)
    BY <1>3
  <2> QED
    BY <1>3, <1>5, <2>1, SeqEqual, Zenon
<1>7. p = w => Len(p) = m
  BY <1>3, Zenon
<1>8. ASSUME 0 < Len(p), Len(p) < m PROVE p \in PartOfResponse
  <2>1. p = SubSeq(w, 1, Len(p))
    <3>1. Len(p) \in 0..Len(w)
      BY <1>1, <1>3, <1>8, SMTT(30)
    <3>2. /\ SubSeq(w, 1, Len(p)) \in Seq(UnitType) /\ Len(SubSeq(w, 1, Len(p))) = Len(p)
          /\ \A k \in 1..Len(p) : SubSeq(w, 1, Len(p))[k] = w[k]
      BY <1>3, <3>1, SequenceParts, SMTT(30)
    <3> DEFINE y == SubSeq(w, 1, Len(p))
    <3> HIDE DEF y
    <3>3. y \in Seq(UnitType) /\ Len(p) = Len(y)
      BY <3>2, Zenon DEF y
    <3>4. \A k \in 1..Len(p) : p[k] = y[k]
      BY <1>5, <3>2, Zenon DEF y
    <3>5. p = y
      BY <3>3, <3>4, SeqEqual, Zenon
    <3> QED
      BY <3>5, Zenon DEF y
  <2>2. Len(p) \in 1..(ResponseUnits - 2)
    BY <1>1, <1>8
  <2> QED
    BY <2>1, <2>2, Zenon DEF PartOfResponse, w
<1> QED
  BY <1>6, <1>7, <1>8, Zenon DEF w

(* What Shown says of the output, by its length. *)
ShownFits ==
  /\ Shown = "all" <=> Len(printed) = ResponseUnits - 1 /\ Arrived
  /\ printed = <<>> => Shown \in {"none", "all"}
  /\ printed /= <<>> => Shown \in {"part", "all"}

(* What is on standard output is never anything but a prefix of the data. *)
LEMMA ShownNow == SessionInv => ShownFits
<1> SUFFICES ASSUME SessionInv PROVE ShownFits
  OBVIOUS
<1>1. /\ printed \in Seq(UnitType) /\ Piece(printed, 1) /\ Len(printed) <= ResponseUnits - 1
      /\ Len(printed) \in Nat /\ ResponseUnits - 1 \in Nat
  BY SizeAssumption DEF SessionInv, TypeOK, Responded
<1>2. printed = WholeResponse <=> Len(printed) = ResponseUnits - 1
  BY <1>1, WholeOrPart, Zenon
<1>3. 0 < Len(printed) /\ Len(printed) < ResponseUnits - 1 => printed \in PartOfResponse
  BY <1>1, WholeOrPart, Zenon
<1>4. printed /= <<>> => Arrived
  BY DEF SessionInv, ClientPlace
<1>5. Len(printed) = ResponseUnits - 1 \/ Len(printed) < ResponseUnits - 1
  BY <1>1
<1>6. CASE printed = WholeResponse /\ Arrived
  <2>1. Shown = "all"
    BY <1>6 DEF Shown
  <2> QED
    BY <1>2, <1>6, <2>1, Zenon DEF ShownFits
<1>7. CASE ~(printed = WholeResponse /\ Arrived) /\ printed = <<>>
  <2>1. Shown = "none"
    BY <1>7 DEF Shown
  <2>2. Shown /= "all"
    BY <2>1
  <2> QED
    BY <1>2, <1>7, <2>1, <2>2, Zenon DEF ShownFits
<1>8. CASE ~(printed = WholeResponse /\ Arrived) /\ printed /= <<>>
  <2>0. printed \in PartOfResponse
    <3>1. 0 < Len(printed)
      BY <1>1, <1>8
    <3> QED
      BY <1>2, <1>3, <1>4, <1>5, <1>8, <3>1, Zenon
  <2>1. Shown = "part"
    BY <1>8, <2>0, SMTT(30) DEF Shown
  <2>2. Shown /= "all"
    BY <2>1
  <2> QED
    BY <1>2, <1>8, <2>1, <2>2, Zenon DEF ShownFits
<1> QED
  BY <1>6, <1>7, <1>8, Zenon

(* The same of the next state. *)
LEMMA ShownNext == SessionInv' => ShownFits'
  BY ShownNow, PTL

(* The exit status, once there is one. *)
Status == IF client_pc = "exit" THEN result ELSE -1

(* Steps that leave the request, the runs, the response, the output and    *)
(* the exit status alone do not show.                                      *)
LEMMA CallSame ==
  ASSUME UNCHANGED <<sent, runs, response, printed>>, UNCHANGED Status
  PROVE  UNCHANGED Call!vars
  BY DEF Call!vars, Arrived, Shown, Status

(* The command is started by the worker's step that finds the request      *)
(* complete; no other step of the worker shows.                            *)
LEMMA WorkerMaps ==
  ASSUME SessionInv, SessionInv', WorkerStep
  PROVE  [Call!Next]_(Call!vars)
<1>0. UNCHANGED Session!client
  BY Zenon DEF WorkerStep, Session!Worker, Session!TestStop, Session!ProcessRequest,
     Session!PollReturns, Session!PollTimesOut, Session!ReadClient, Session!ReadFails,
     Session!WriteClient, Session!WriteFails, Session!NothingToWrite, Session!CheckHangup,
     Session!Close
<1>1. UNCHANGED <<sent, response, client_pc, printed, result>>
  BY <1>0 DEF Session!client, WorkerStep
<1>2. UNCHANGED Status /\ UNCHANGED Shown /\ UNCHANGED Arrived
  BY <1>1 DEF Status, Shown, Arrived
<1>3. CASE runs' = runs
  BY <1>1, <1>2, <1>3, CallSame, SMTT(30)
<1>4. CASE runs' = runs + 1
  <2>1. runs = 0 /\ runs' = 1
    BY <1>4, SMTT(30) DEF SessionInv, TypeOK
  <2>2. sent = FrameUnits
    BY <1>1, <2>1, SMTT(30) DEF SessionInv, Requested
  <2>3. Call!Run
    BY <1>1, <1>2, <2>1, <2>2, SMTT(30) DEF Call!Run, Status
  <2> QED
    BY <2>3 DEF Call!Next
<1> QED
  BY <1>3, <1>4 DEF WorkerStep

(* The client ends before it has sent anything: a usage error, or a        *)
(* request that could not be encoded, or no connection.                    *)
LEMMA EarlyExitMaps ==
  ASSUME SessionInv, client_pc \in {"options", "prepare", "connect"},
         UNCHANGED <<sent, runs, response, printed>>,
         \/ client_pc' /= "exit"
         \/ client_pc' = "exit" /\ result' \in {1, 2}
  PROVE  [Call!Next]_(Call!vars)
<1>1. Status = -1 /\ sent = 0 /\ sent /= FrameUnits
  BY SizeAssumption DEF SessionInv, ClientPlace, Status
<1>2. UNCHANGED Shown /\ UNCHANGED Arrived
  BY DEF Shown, Arrived
<1>3. CASE client_pc' /= "exit"
  <2>1. UNCHANGED Status
    BY <1>1, <1>3, SMTT(30) DEF Status
  <2> QED
    BY <2>1, CallSame, SMTT(30)
<1>4. CASE client_pc' = "exit" /\ result' \in {1, 2}
  <2>1. Call!Exit
    BY <1>1, <1>2, <1>4, SMTT(30) DEF Call!Exit, Status
  <2> QED
    BY <2>1 DEF Call!Next
<1> QED
  BY <1>3, <1>4, SMTT(30)

(* The request has left the client with its last unit. *)
LEMMA SendMaps ==
  ASSUME SessionInv, SessionInv', ClientStep, Client!Send
  PROVE  [Call!Next]_(Call!vars)
<1>1. /\ client_pc = "send" /\ client_pc' \in {"send", "receive", "close"}
      /\ UNCHANGED <<runs, response, printed, result>>
  BY DEF ClientStep, Client!Send
<1>2. UNCHANGED Status /\ UNCHANGED Shown /\ UNCHANGED Arrived /\ Status = -1
  BY <1>1, SMTT(30) DEF Status, Shown, Arrived
<1>3. sent /= FrameUnits
  BY <1>1, SizeAssumption DEF SessionInv, TypeOK, ClientPlace
<1>4. CASE sent' = FrameUnits
  <2>1. Call!Ask
    BY <1>1, <1>2, <1>3, <1>4, SMTT(30) DEF Call!Ask, Status
  <2> QED
    BY <2>1 DEF Call!Next
<1>5. CASE sent' /= FrameUnits
  BY <1>1, <1>2, <1>3, <1>5, SMTT(30) DEF Call!vars, Status
<1> QED
  BY <1>4, <1>5, SMTT(30)

(* The answer has arrived with its last unit. *)
LEMMA ReceiveMaps ==
  ASSUME SessionInv, SessionInv', ClientStep, Client!Receive
  PROVE  [Call!Next]_(Call!vars)
<1>1. /\ client_pc = "receive" /\ client_pc' \in {"receive", "close"} /\ ~Arrived
      /\ UNCHANGED <<runs, sent, printed, result>>
  BY DEF ClientStep, Client!Receive, Client!Complete, Arrived
<1>2. UNCHANGED Status /\ Status = -1
  BY <1>1, SMTT(30) DEF Status
<1>3. printed = <<>>
  BY <1>1 DEF SessionInv, ClientPlace
<1>4. CASE Arrived'
  <2>1. Shown' \in {"none", "all"}
    BY <1>1, <1>3, ShownNext, SMTT(30) DEF ShownFits
  <2>2. runs = 1
    <3>1. response' /= <<>>
      BY <1>4, SizeAssumption DEF Arrived
    <3> QED
      BY <1>1, <3>1 DEF SessionInv, TypeOK, Requested
  <2>3. Call!Arrive
    BY <1>1, <1>2, <1>4, <2>1, <2>2, SMTT(30) DEF Call!Arrive, Status
  <2> QED
    BY <2>3 DEF Call!Next
<1>5. CASE ~Arrived'
  <2>1. UNCHANGED Shown
    BY <1>1, <1>5 DEF Shown
  <2>2. UNCHANGED Arrived
    BY <1>1, <1>5 DEF Arrived
  <2> QED
    BY <1>1, <1>2, <2>1, <2>2, SMTT(30) DEF Call!vars, Status
<1> QED
  BY <1>4, <1>5, SMTT(30)

(* What is printed is shown. *)
LEMMA PrintMaps ==
  ASSUME SessionInv, SessionInv', ClientStep, Client!PrintResponse
  PROVE  [Call!Next]_(Call!vars)
<1>1. /\ client_pc = "receive" /\ client_pc' \in {"receive", "close"} /\ Arrived
      /\ UNCHANGED <<runs, sent, response>>
  BY DEF ClientStep, Client!PrintResponse, Client!Complete, Arrived
<1>2. UNCHANGED Status /\ Status = -1 /\ UNCHANGED Arrived
  BY <1>1 DEF Status, Arrived
<1>3. CASE UNCHANGED printed
  BY <1>1, <1>2, <1>3, CallSame, SMTT(30)
<1>4. CASE printed' /= printed
  <2> DEFINE d == Client!Data
  <2>1. PICK n \in 1..(Len(d) - Len(printed)) :
          printed' = printed \o SubSeq(d, Len(printed) + 1, Len(printed) + n)
    BY <1>4, Zenon DEF Client!PrintResponse
  <2>2. d \in Seq(UnitType) /\ Len(d) = ResponseUnits - 1 /\ Piece(d, 1)
    BY DataWhole DEF Client!PrintResponse
  <2> HIDE DEF d
  <2>3. /\ printed \in Seq(UnitType) /\ Len(printed) \in Nat /\ n \in Nat
        /\ Len(printed) < ResponseUnits - 1 /\ Len(printed) + n <= Len(d) /\ n > 0
    <3>1. printed \in Seq(UnitType) /\ Len(printed) \in Nat
      BY DEF SessionInv, TypeOK
    <3>2. Len(d) \in Nat /\ n \in 1..(Len(d) - Len(printed))
      BY <2>1, <2>2
    <3> QED
      BY <2>2, <3>1, <3>2, SMTT(30)
  <2>4. Shown /= "all"
    <3>1. Len(printed) /= ResponseUnits - 1
      BY <2>2, <2>3
    <3> QED
      BY <3>1, ShownNow, Zenon DEF ShownFits
  <2>5. Shown' \in {"part", "all"}
    <3> DEFINE a == SubSeq(d, Len(printed) + 1, Len(printed) + n)
    <3>1. a \in Seq(UnitType) /\ Len(a) = n
      BY <2>2, <2>3, PieceMiddle, SMTT(30)
    <3> HIDE DEF a
    <3>2. Len(printed \o a) = Len(printed) + n
      BY <2>3, <3>1, ConcatProperties, Zenon
    <3>3. printed' /= <<>>
      <4>1. Len(printed') /= 0
        BY <2>1, <2>3, <3>2, SMTT(30) DEF a
      <4> QED
        BY <4>1
    <3> QED
      BY <3>3, ShownNext, Zenon DEF ShownFits
  <2>6. Call!Show
    BY <1>1, <1>2, <2>4, <2>5, SMTT(30) DEF Call!Show, Status
  <2> QED
    BY <2>6 DEF Call!Next
<1> QED
  BY <1>3, <1>4

(* Exit status 0 is reached with the whole answer printed. *)
LEMMA CloseMaps ==
  ASSUME SessionInv, SessionInv', ClientStep, Client!Close
  PROVE  [Call!Next]_(Call!vars)
<1>1. /\ client_pc = "close" /\ client_pc' = "exit"
      /\ UNCHANGED <<runs, sent, response, printed>> /\ result' \in {result, 1}
  BY DEF ClientStep, Client!Close
<1>2. Status = -1 /\ Status' = result' /\ UNCHANGED Arrived /\ UNCHANGED Shown
  BY <1>1, SMTT(30) DEF Status, Arrived, Shown
<1>3. result' \in {0, 1}
  BY <1>1, SMTT(30) DEF SessionInv, TypeOK, ClientPlace
<1>4. result' = 0 => Shown = "all"
  BY <1>1, ShownNow DEF SessionInv, ClientPlace, ShownFits
<1>5. Call!Exit
  BY <1>1, <1>2, <1>3, <1>4, SMTT(30) DEF Call!Exit, Status
<1> QED
  BY <1>5 DEF Call!Next

(* Before the client starts nothing was asked, run or shown. *)
LEMMA CallInit == Init => Call!Init
<1> SUFFICES ASSUME Init PROVE Call!Init
  OBVIOUS
<1>1. sent /= FrameUnits /\ runs = 0 /\ Status = -1 /\ ~Arrived /\ printed = <<>>
  BY SizeAssumption DEF Init, Status, Arrived
<1>2. Shown = "none"
  BY <1>1 DEF Shown
<1> QED
  BY <1>1, <1>2 DEF Call!Init, Status

(* Every step of client, worker and server is a step of the remote call or *)
(* does not show.                                                          *)
LEMMA CallStep == SessionInv /\ SessionInv' /\ [Next]_vars => [Call!Next]_(Call!vars)
<1> SUFFICES ASSUME SessionInv, SessionInv', [Next]_vars PROVE [Call!Next]_(Call!vars)
  OBVIOUS
<1>1. CASE UNCHANGED vars \/ Accept \/ Reject \/ CommandEnds \/ RequestStop
  <2>1. UNCHANGED <<sent, runs, response, printed, client_pc, result>>
    BY <1>1 DEF vars, program, Accept, Reject, CommandEnds, RequestStop, Session!CommandEnds,
       Session!RequestStop, Session!client
  <2> QED
    BY <2>1, CallSame, SMTT(30) DEF Status
<1>2. ASSUME ClientStep, Client!ReadOptions PROVE [Call!Next]_(Call!vars)
  <2>1. /\ client_pc = "options" /\ UNCHANGED <<sent, runs, response, printed>>
        /\ client_pc' /= "exit" \/ (client_pc' = "exit" /\ result' \in {1, 2})
    BY <1>2 DEF ClientStep, Client!ReadOptions
  <2> QED
    BY <2>1, EarlyExitMaps, SMTT(30)
<1>3. ASSUME ClientStep, Client!Prepare \/ Client!Connect PROVE [Call!Next]_(Call!vars)
  <2>1. /\ client_pc \in {"prepare", "connect"} /\ UNCHANGED <<sent, runs, response, printed>>
        /\ UNCHANGED result
    BY <1>3, SMTT(30) DEF ClientStep, Client!Prepare, Client!Connect
  <2>2. result = 1
    BY <2>1 DEF SessionInv, ClientPlace
  <2> QED
    BY <2>1, <2>2, EarlyExitMaps, SMTT(30)
<1>4. CASE ClientStep
  BY <1>2, <1>3, <1>4, SendMaps, ReceiveMaps, PrintMaps, CloseMaps, Zenon
     DEF ClientStep, Client!Main
<1> QED
  BY <1>1, <1>4, WorkerMaps, Zenon DEF Next

(* One run of the client against a threaded server is one remote call: the *)
(* command runs at most once, only after it was asked for, nothing is      *)
(* printed of a response that is not complete, and exit status 0 means     *)
(* that all of the answer, and nothing else, was printed.                  *)
THEOREM SessionIsRemoteCall == Spec => IsRemoteCall
  BY SessionInvariant, CallInit, CallStep, PTL DEF Spec, IsRemoteCall, Call!Spec

------------------------------------------------------------------------------
(* The words an option may be set to, and the defaults. *)
Value == Client!Word \cup {"default", "9090", "info"}

(* The variables of the option loop. *)
Setting ==
  [argument_index : Nat, socket_option_seen : BOOLEAN, use_tcp : BOOLEAN,
   socket_path : Value, tcp_host : Value, tcp_port : Value,
   log_level : Value, status : {0, 2}]

(* A pair of an option and its value that the option's parser refuses. *)
Bad(args, i) ==
  \/ args[2 * i - 1] = "--port" /\ args[2 * i] \notin Client!Port
  \/ args[2 * i - 1] = "--log-level" /\ args[2 * i] \notin Client!Level

(* --socket is not given together with an option of TCP. *)
OneTransport(args, n) ==
  "--socket" \in Client!Options(args, n) =>
    Client!Options(args, n) \cap {"--host", "--port"} = {}

(* What the option loop knows after k pairs. *)
Parsed(args, o, k) ==
  /\ o \in Setting /\ o.argument_index = 2 * k + 1 /\ 2 * k <= Len(args)
  /\ Client!Options(args, k) \subseteq Client!Option
  /\ o.status /= 0 => \E i \in 1..k : Bad(args, i)
  /\ o.status = 0 =>
       /\ \A i \in 1..k : ~Bad(args, i)
       /\ OneTransport(args, k)
       /\ o.socket_option_seen <=> "--socket" \in Client!Options(args, k)
       /\ o.use_tcp <=> Client!Options(args, k) \cap {"--host", "--port"} /= {}
       /\ o.socket_path = Client!Used(args, k, "--socket", "default")
       /\ o.tcp_host = Client!Used(args, k, "--host", "default")
       /\ o.tcp_port = Client!Used(args, k, "--port", "9090")
       /\ o.log_level = Client!Used(args, k, "--log-level", "info")

(* The option loop, and what it leaves to the rest of main(). *)
CommandLineInv ==
  /\ arguments \in Seq(Client!Word)
  /\ client_pc = "options" => \E k \in Nat : Parsed(arguments, options, k)
  /\ client_pc = "prepare" =>
       \E k \in Nat : /\ Parsed(arguments, options, k) /\ options.status = 0
                      /\ Client!WellFormed(arguments, k)
  /\ client_pc = "exit" /\ result = 2 =>
       \A n \in Nat : ~Client!WellFormed(arguments, n)

------------------------------------------------------------------------------
(* The options of one more pair. *)
LEMMA OptionsGrow ==
  ASSUME NEW args, NEW k \in Nat
  PROVE  Client!Options(args, k + 1) = Client!Options(args, k) \cup {args[2 * k + 1]}
<1>1. 1..(k + 1) = 1..k \cup {k + 1} /\ 2 * (k + 1) - 1 = 2 * k + 1
  OBVIOUS
<1> QED
  BY <1>1 DEF Client!Options

(* The options of fewer pairs are among those of more. *)
LEMMA OptionIn ==
  ASSUME NEW args, NEW k \in Nat, NEW n \in Nat, k < n
  PROVE  /\ args[2 * k + 1] \in Client!Options(args, n)
         /\ Client!Options(args, k) \subseteq Client!Options(args, n)
<1>1. k + 1 \in 1..n /\ 2 * (k + 1) - 1 = 2 * k + 1 /\ 1..k \subseteq 1..n
  OBVIOUS
<1> QED
  BY <1>1, Zenon DEF Client!Options

(* The last value given to an option, with one more pair. *)
LEMMA UsedGrows ==
  ASSUME NEW args, NEW k \in Nat, NEW option, NEW default
  PROVE  Client!Used(args, k + 1, option, default) =
           IF args[2 * k + 1] = option THEN args[2 * k + 2]
           ELSE Client!Used(args, k, option, default)
<1> DEFINE given(n) == {i \in 1..n : args[2 * i - 1] = option}
<1>1. 2 * (k + 1) - 1 = 2 * k + 1 /\ 2 * (k + 1) = 2 * k + 2
  OBVIOUS
<1>2. \A n : Client!Used(args, n, option, default) =
               IF given(n) = {} THEN default ELSE args[2 * Client!Max(given(n))]
  BY Zenon DEF Client!Used
<1>3. CASE args[2 * k + 1] /= option
  <2>1. given(k + 1) = given(k)
    BY <1>1, <1>3
  <2> QED
    BY <1>2, <1>3, <2>1, Zenon
<1>4. CASE args[2 * k + 1] = option
  <2>1. k + 1 \in given(k + 1) /\ \A j \in given(k + 1) : j \in Nat /\ k + 1 >= j
    BY <1>1, <1>4, SMTT(30)
  <2> DEFINE S == given(k + 1)
  <2> HIDE DEF given
  <2>2. Client!Max(S) \in S /\ \A j \in S : Client!Max(S) >= j
    BY <2>1, Zenon DEF Client!Max
  <2>3. Client!Max(S) = k + 1
    BY <2>1, <2>2, SMTT(30)
  <2> QED
    BY <1>1, <1>2, <1>4, <2>1, <2>3, Zenon
<1> QED
  BY <1>3, <1>4

(* What an iteration does to the variables of the loop. *)
Takes(p, o, option, value) ==
  LET bad == \/ option = "--port" /\ value \notin Client!Port
             \/ option = "--log-level" /\ value \notin Client!Level
  IN  /\ p \in Setting /\ p.argument_index = o.argument_index + 2
      /\ p.status = IF bad THEN 2 ELSE o.status
      /\ p.socket_path = IF option = "--socket" THEN value ELSE o.socket_path
      /\ p.tcp_host = IF option = "--host" THEN value ELSE o.tcp_host
      /\ ~bad => p.tcp_port = IF option = "--port" THEN value ELSE o.tcp_port
      /\ ~bad => p.log_level = IF option = "--log-level" THEN value ELSE o.log_level
      /\ p.socket_option_seen <=> o.socket_option_seen \/ option = "--socket"
      /\ ~bad => (p.use_tcp <=> o.use_tcp \/ option \in {"--host", "--port"})

(* The body of the option loop, field by field. *)
LEMMA IterateTakes ==
  ASSUME NEW args \in Seq(Client!Word), NEW o \in Setting,
         o.argument_index \in 1..(Len(args) - 1),
         args[o.argument_index] \in Client!Option
  PROVE  Takes(Client!Iterate(args, o), o, args[o.argument_index], args[o.argument_index + 1])
<1> DEFINE option == args[o.argument_index]
           value == args[o.argument_index + 1]
           t == Client!Taken(o, option, value)
           p == Client!Iterate(args, o)
<1>1. option \in {"--socket", "--host", "--port", "--log-level"} /\ value \in Value
  <2>1. o.argument_index + 1 \in 1..Len(args)
    BY DEF Setting
  <2> QED
    BY <2>1, ElementOfSeq, Zenon DEF Client!Option, Value
<1>2. p = [t EXCEPT !.argument_index = @ + 2]
  BY Zenon DEF Client!Iterate
<1> SUFFICES Takes(p, o, option, value)
  OBVIOUS
<1> HIDE DEF option, value, t, p
<1>3. CASE option = "--socket"
  <2>1. t = [o EXCEPT !.socket_path = value, !.socket_option_seen = TRUE]
    BY <1>3 DEF Client!Taken, t
  <2>2. t \in Setting /\ t.argument_index = o.argument_index
    BY <1>1, <2>1, Zenon DEF Setting
  <2>3. p \in Setting /\ p.argument_index = o.argument_index + 2
    BY <1>2, <2>2 DEF Setting
  <2>4. /\ p.socket_path = value /\ p.tcp_host = o.tcp_host /\ p.tcp_port = o.tcp_port
        /\ p.log_level = o.log_level
        /\ p.socket_option_seen /\ (p.use_tcp <=> o.use_tcp) /\ p.status = o.status
    BY <1>1, <1>2, <2>1, <2>2, SMTT(30) DEF Setting
  <2>5. option /= "--host" /\ option /= "--port" /\ option /= "--log-level"
    BY <1>3
  <2> QED
    BY <1>3, <2>3, <2>4, <2>5, Zenon DEF Takes
<1>4. CASE option = "--host"
  <2>1. t = [o EXCEPT !.tcp_host = value, !.use_tcp = TRUE]
    BY <1>4 DEF Client!Taken, t
  <2>2. t \in Setting /\ t.argument_index = o.argument_index
    BY <1>1, <2>1, Zenon DEF Setting
  <2>3. p \in Setting /\ p.argument_index = o.argument_index + 2
    BY <1>2, <2>2 DEF Setting
  <2>4. /\ p.socket_path = o.socket_path /\ p.tcp_host = value /\ p.tcp_port = o.tcp_port
        /\ p.log_level = o.log_level
        /\ (p.socket_option_seen <=> o.socket_option_seen) /\ p.use_tcp /\ p.status = o.status
    BY <1>1, <1>2, <2>1, <2>2 DEF Setting
  <2>5. option /= "--socket" /\ option /= "--port" /\ option /= "--log-level"
    BY <1>4
  <2> QED
    BY <1>4, <2>3, <2>4, <2>5, Zenon DEF Takes
<1>5. CASE option = "--port" /\ value \in Client!Port
  <2>1. t = [o EXCEPT !.tcp_port = value, !.use_tcp = TRUE]
    BY <1>5 DEF Client!Taken, t
  <2>2. t \in Setting /\ t.argument_index = o.argument_index
    BY <1>1, <2>1, Zenon DEF Setting
  <2>3. p \in Setting /\ p.argument_index = o.argument_index + 2
    BY <1>2, <2>2 DEF Setting
  <2>4. /\ p.socket_path = o.socket_path /\ p.tcp_host = o.tcp_host /\ p.tcp_port = value
        /\ p.log_level = o.log_level
        /\ (p.socket_option_seen <=> o.socket_option_seen) /\ p.use_tcp /\ p.status = o.status
    BY <1>1, <1>2, <2>1, <2>2 DEF Setting
  <2>5. option /= "--socket" /\ option /= "--host" /\ option /= "--log-level"
    BY <1>5
  <2> QED
    BY <1>5, <2>3, <2>4, <2>5, Zenon DEF Takes
<1>6. CASE option = "--log-level" /\ value \in Client!Level
  <2>1. t = [o EXCEPT !.log_level = value]
    BY <1>6 DEF Client!Taken, t
  <2>2. t \in Setting /\ t.argument_index = o.argument_index
    BY <1>1, <2>1, SMTT(30) DEF Setting
  <2>3. p \in Setting /\ p.argument_index = o.argument_index + 2
    BY <1>2, <2>2 DEF Setting
  <2>4. /\ p.socket_path = o.socket_path /\ p.tcp_host = o.tcp_host /\ p.tcp_port = o.tcp_port
        /\ p.log_level = value
        /\ (p.socket_option_seen <=> o.socket_option_seen) /\ (p.use_tcp <=> o.use_tcp) /\ p.status = o.status
    BY <1>1, <1>2, <2>1, <2>2, SMTT(30) DEF Setting
  <2>5. option /= "--socket" /\ option /= "--host" /\ option /= "--port"
    BY <1>6
  <2> QED
    BY <1>6, <2>3, <2>4, <2>5, Zenon DEF Takes
<1>7. CASE \/ option = "--port" /\ value \notin Client!Port
           \/ option = "--log-level" /\ value \notin Client!Level
  <2>1. t = [o EXCEPT !.status = 2]
    BY <1>7 DEF Client!Taken, t
  <2>2. t \in Setting /\ t.argument_index = o.argument_index
    BY <1>1, <2>1, SMTT(30) DEF Setting
  <2>3. p \in Setting /\ p.argument_index = o.argument_index + 2
    BY <1>2, <2>2 DEF Setting
  <2>4. /\ p.socket_path = o.socket_path /\ p.tcp_host = o.tcp_host /\ p.tcp_port = o.tcp_port
        /\ p.log_level = o.log_level
        /\ (p.socket_option_seen <=> o.socket_option_seen) /\ (p.use_tcp <=> o.use_tcp) /\ p.status = 2
    BY <1>1, <1>2, <2>1, <2>2, SMTT(30) DEF Setting
  <2>5. option /= "--socket" /\ option /= "--host"
    BY <1>7
  <2> QED
    BY <1>7, <2>3, <2>4, <2>5, Zenon DEF Takes
<1>8. CASE option \in {"--port", "--log-level"}
  BY <1>5, <1>6, <1>7, <1>8, SMTT(30)
<1> QED
  BY <1>1, <1>3, <1>4, <1>8, SMTT(30)

(* MayTake with the conditions spelt out. *)
LEMMA MayTakeParts ==
  ASSUME NEW o, NEW option
  PROVE  Client!MayTake(o, option) <=>
           \/ option = "--socket" /\ ~o.use_tcp
           \/ option \in {"--host", "--port"} /\ ~o.socket_option_seen
           \/ option = "--log-level"
<1>1. CASE option = "--socket"
  BY <1>1 DEF Client!MayTake
<1>2. CASE option \in {"--host", "--port"}
  BY <1>2 DEF Client!MayTake
<1>3. CASE option = "--log-level"
  BY <1>3 DEF Client!MayTake
<1>4. CASE option \notin {"--socket", "--host", "--port", "--log-level"}
  BY <1>4 DEF Client!MayTake
<1> QED
  BY <1>1, <1>2, <1>3, <1>4, SMTT(30)

(* An iteration of the loop takes one more pair. *)
LEMMA ParsedMore ==
  ASSUME NEW args \in Seq(Client!Word), NEW o, NEW k \in Nat, Parsed(args, o, k),
         Client!TakesOption(args, o)
  PROVE  Parsed(args, Client!Iterate(args, o), k + 1)
<1> DEFINE option == args[2 * k + 1]
           value == args[2 * k + 2]
           p == Client!Iterate(args, o)
<1>1. /\ o \in Setting /\ o.argument_index = 2 * k + 1 /\ o.status = 0
      /\ 2 * k + 2 <= Len(args) /\ Client!MayTake(o, option) /\ Len(args) \in Nat
  BY DEF Parsed, Client!TakesOption, Client!HasValue
<1>2. option \in Client!Option
  BY <1>1, MayTakeParts, SMTT(30) DEF Client!Option
<1>3. Takes(p, o, option, value)
  <2>1. o.argument_index \in 1..(Len(args) - 1) /\ o.argument_index + 1 = 2 * k + 2
    BY <1>1
  <2> QED
    BY <1>1, <1>2, <2>1, IterateTakes, Zenon
<1>4. Client!Options(args, k + 1) = Client!Options(args, k) \cup {option}
  BY OptionsGrow
<1> DEFINE bad == Bad(args, k + 1)
<1>5. bad <=> \/ option = "--port" /\ value \notin Client!Port
              \/ option = "--log-level" /\ value \notin Client!Level
  <2>1. 2 * (k + 1) - 1 = 2 * k + 1 /\ 2 * (k + 1) = 2 * k + 2
    BY SMTT(30)
  <2> QED
    BY <2>1, Zenon DEF Bad
<1> HIDE DEF option, value, p, bad
<1>6. p \in Setting /\ p.argument_index = 2 * (k + 1) + 1 /\ 2 * (k + 1) <= Len(args)
  BY <1>1, <1>3, SMTT(30) DEF Takes
<1>7. Client!Options(args, k + 1) \subseteq Client!Option
  BY <1>2, <1>4, SMTT(30) DEF Parsed
<1>8. p.status = IF bad THEN 2 ELSE 0
  BY <1>1, <1>3, <1>5, Zenon DEF Takes
<1>9. p.status /= 0 => \E i \in 1..(k + 1) : Bad(args, i)
  <2>1. k + 1 \in 1..(k + 1)
    BY SMTT(30)
  <2> QED
    BY <1>8, <2>1, Zenon DEF bad
<1>10. ASSUME p.status = 0
       PROVE  /\ \A i \in 1..(k + 1) : ~Bad(args, i)
              /\ OneTransport(args, k + 1)
              /\ p.socket_option_seen <=> "--socket" \in Client!Options(args, k + 1)
              /\ p.use_tcp <=> Client!Options(args, k + 1) \cap {"--host", "--port"} /= {}
              /\ p.socket_path = Client!Used(args, k + 1, "--socket", "default")
              /\ p.tcp_host = Client!Used(args, k + 1, "--host", "default")
              /\ p.tcp_port = Client!Used(args, k + 1, "--port", "9090")
              /\ p.log_level = Client!Used(args, k + 1, "--log-level", "info")
  <2>1. ~bad
    BY <1>8, <1>10
  <2>2. /\ \A i \in 1..k : ~Bad(args, i)
        /\ OneTransport(args, k)
        /\ o.socket_option_seen <=> "--socket" \in Client!Options(args, k)
        /\ o.use_tcp <=> Client!Options(args, k) \cap {"--host", "--port"} /= {}
        /\ o.socket_path = Client!Used(args, k, "--socket", "default")
        /\ o.tcp_host = Client!Used(args, k, "--host", "default")
        /\ o.tcp_port = Client!Used(args, k, "--port", "9090")
        /\ o.log_level = Client!Used(args, k, "--log-level", "info")
    BY <1>1, Zenon DEF Parsed
  <2>3. /\ p.socket_path = IF option = "--socket" THEN value ELSE o.socket_path
        /\ p.tcp_host = IF option = "--host" THEN value ELSE o.tcp_host
        /\ p.tcp_port = IF option = "--port" THEN value ELSE o.tcp_port
        /\ p.log_level = IF option = "--log-level" THEN value ELSE o.log_level
        /\ p.socket_option_seen <=> o.socket_option_seen \/ option = "--socket"
        /\ p.use_tcp <=> o.use_tcp \/ option \in {"--host", "--port"}
    BY <1>3, <1>5, <2>1, Zenon DEF Takes
  <2>4. \A i \in 1..(k + 1) : ~Bad(args, i)
    <3>1. \A i \in 1..(k + 1) : i \in 1..k \/ i = k + 1
      OBVIOUS
    <3> QED
      BY <2>1, <2>2, <3>1, Zenon DEF bad
  <2>5. p.socket_option_seen <=> "--socket" \in Client!Options(args, k + 1)
    BY <1>4, <2>2, <2>3, Zenon
  <2>6. p.use_tcp <=> Client!Options(args, k + 1) \cap {"--host", "--port"} /= {}
    BY <1>4, <2>2, <2>3, Zenon
  <2>7. OneTransport(args, k + 1)
    <3>1. \/ option = "--socket" /\ ~o.use_tcp
          \/ option \in {"--host", "--port"} /\ ~o.socket_option_seen
          \/ option = "--log-level"
      BY <1>1, MayTakeParts, Zenon DEF option
    <3> DEFINE S == Client!Options(args, k)
               T == Client!Options(args, k + 1)
    <3>2. T = S \cup {option} /\ ("--socket" \in S => S \cap {"--host", "--port"} = {})
      BY <1>4, <2>2, Zenon DEF OneTransport
    <3>3. \/ option = "--socket" /\ S \cap {"--host", "--port"} = {}
          \/ option \in {"--host", "--port"} /\ "--socket" \notin S
          \/ option = "--log-level"
      BY <2>2, <3>1, Zenon
    <3> HIDE DEF S, T
    <3>4. "--socket" \in T => T \cap {"--host", "--port"} = {}
      BY <3>2, <3>3, SMTT(30)
    <3> QED
      BY <3>4, Zenon DEF OneTransport, S, T
  <2>8. /\ p.socket_path = Client!Used(args, k + 1, "--socket", "default")
        /\ p.tcp_host = Client!Used(args, k + 1, "--host", "default")
        /\ p.tcp_port = Client!Used(args, k + 1, "--port", "9090")
        /\ p.log_level = Client!Used(args, k + 1, "--log-level", "info")
    <3>1. \A opt, d : Client!Used(args, k + 1, opt, d) =
                        IF option = opt THEN value ELSE Client!Used(args, k, opt, d)
      BY UsedGrows, Zenon DEF option, value
    <3>2. p.socket_path = Client!Used(args, k + 1, "--socket", "default")
      BY <2>2, <2>3, <3>1, Zenon
    <3>3. p.tcp_host = Client!Used(args, k + 1, "--host", "default")
      BY <2>2, <2>3, <3>1, Zenon
    <3>4. p.tcp_port = Client!Used(args, k + 1, "--port", "9090")
      BY <2>2, <2>3, <3>1, Zenon
    <3>5. p.log_level = Client!Used(args, k + 1, "--log-level", "info")
      BY <2>2, <2>3, <3>1, Zenon
    <3> QED
      BY <3>2, <3>3, <3>4, <3>5, SMTT(30)
  <2> QED
    BY <2>4, <2>5, <2>6, <2>7, <2>8, SMTT(30)
<1>11. Parsed(args, p, k + 1)
  BY <1>6, <1>7, <1>9, <1>10, Zenon DEF Parsed
<1> QED
  BY <1>11, SMTT(30) DEF p

(* A command is no option, so a line has at most one reading. *)
LEMMA CommandNoOption == Client!Command \cap Client!Option = {}
  BY DEF Client!Command, Client!Option

(* When a command is left after the loop, the line is well-formed. *)
LEMMA ParsedCommand ==
  ASSUME NEW args \in Seq(Client!Word), NEW o, NEW k \in Nat, Parsed(args, o, k),
         Client!HasCommand(args, o)
  PROVE  o.status = 0 /\ Client!WellFormed(args, k)
<1>1. /\ o.status = 0 /\ o.argument_index = 2 * k + 1 /\ 2 * k + 1 <= Len(args)
      /\ args[2 * k + 1] \in Client!Command
      /\ Len(args) = 2 * k + (IF args[2 * k + 1] = "PWD" THEN 1 ELSE 2)
      /\ Len(args) \in Nat
  <2>1. o.argument_index = 2 * k + 1 /\ Len(args) \in Nat
    BY DEF Parsed
  <2> QED
    BY <2>1, SMTT(30) DEF Client!HasCommand, Client!WordsOfCommand
<1>2. 2 * k < Len(args)
  BY <1>1
<1>3. /\ Client!Options(args, k) \subseteq Client!Option /\ OneTransport(args, k)
      /\ \A i \in 1..k : ~Bad(args, i)
  BY <1>1, Zenon DEF Parsed
<1> QED
  BY <1>1, <1>2, <1>3, Zenon DEF Client!WellFormed, OneTransport, Bad

(* There is one way at most to read a line: a command is no option. *)
LEMMA OneReading ==
  ASSUME NEW args, NEW k \in Nat, NEW n \in Nat, Client!WellFormed(args, n),
         Client!Options(args, k) \subseteq Client!Option,
         args[2 * k + 1] \in Client!Command
  PROVE  n = k
<1>1. CASE n < k
  <2>1. args[2 * n + 1] \in Client!Option
    BY <1>1, OptionIn, Zenon
  <2> QED
    BY <2>1, CommandNoOption, Zenon DEF Client!WellFormed
<1>2. CASE k < n
  <2>1. args[2 * k + 1] \in Client!Option
    BY <1>2, OptionIn, Zenon DEF Client!WellFormed
  <2> QED
    BY <2>1, CommandNoOption, Zenon
<1> QED
  BY <1>1, <1>2

(* A line that the loop and the checks after it refuse is not well-formed. *)
LEMMA ParsedRefused ==
  ASSUME NEW args \in Seq(Client!Word), NEW o, NEW k \in Nat, Parsed(args, o, k),
         ~Client!TakesOption(args, o), ~Client!HasCommand(args, o), NEW n \in Nat
  PROVE  ~Client!WellFormed(args, n)
<1> SUFFICES ASSUME Client!WellFormed(args, n) PROVE FALSE
  BY SMTT(30)
<1>1. /\ o.argument_index = 2 * k + 1 /\ 2 * k <= Len(args) /\ Len(args) \in Nat
      /\ Client!Options(args, k) \subseteq Client!Option
  BY DEF Parsed
<1>2. /\ 2 * n < Len(args) /\ args[2 * n + 1] \in Client!Command
      /\ Len(args) = 2 * n + (IF args[2 * n + 1] = "PWD" THEN 1 ELSE 2)
      /\ Client!Options(args, n) \subseteq Client!Option
      /\ \A i \in 1..n : ~Bad(args, i)
      /\ OneTransport(args, n)
  BY Zenon DEF Client!WellFormed, Bad, OneTransport
<1>3. n >= k
  <2>1. CASE n < k
    <3>1. args[2 * n + 1] \in Client!Option
      BY <1>1, <2>1, OptionIn, Zenon
    <3> QED
      BY <1>2, <3>1, CommandNoOption, Zenon
  <2> QED
    BY <2>1
<1>4. o.status = 0
  <2>1. SUFFICES ASSUME o.status /= 0 PROVE FALSE
    OBVIOUS
  <2>2. PICK i \in 1..k : Bad(args, i)
    BY <2>1, Zenon DEF Parsed
  <2>3. i \in 1..n
    BY <1>3
  <2> QED
    BY <1>2, <2>2, <2>3, Zenon
<1>5. CASE n = k
  BY <1>1, <1>2, <1>4, <1>5, SMTT(30) DEF Client!HasCommand, Client!WordsOfCommand
<1>6. CASE k < n
  <2> DEFINE option == args[2 * k + 1]
             S == Client!Options(args, k)
             T == Client!Options(args, n)
  <2>1. option \in T /\ S \subseteq T
    BY <1>6, OptionIn, Zenon
  <2>2. option \in Client!Option
    BY <1>2, <2>1, Zenon
  <2>3. ~Client!MayTake(o, option)
    <3>1. Client!HasValue(args, o)
      BY <1>1, <1>2, <1>6 DEF Client!HasValue
    <3> QED
      BY <1>1, <1>4, <3>1, Zenon DEF Client!TakesOption
  <2>4. /\ o.socket_option_seen <=> "--socket" \in S
        /\ o.use_tcp <=> S \cap {"--host", "--port"} /= {}
    BY <1>4, Zenon DEF Parsed
  <2>5. "--socket" \in T => T \cap {"--host", "--port"} = {}
    BY <1>2, Zenon DEF OneTransport
  <2> HIDE DEF option, S, T
  <2>6. \/ option = "--socket" /\ o.use_tcp
        \/ option \in {"--host", "--port"} /\ o.socket_option_seen
    <3>1. option \in {"--socket", "--host", "--port", "--log-level"}
      BY <2>2, Zenon DEF Client!Option
    <3> QED
      BY <2>3, <3>1, MayTakeParts, Zenon
  <2>7. CASE option = "--socket" /\ S \cap {"--host", "--port"} /= {}
    BY <2>1, <2>5, <2>7, SMTT(30)
  <2>8. CASE option \in {"--host", "--port"} /\ "--socket" \in S
    BY <2>1, <2>5, <2>8, SMTT(30)
  <2> QED
    BY <2>4, <2>6, <2>7, <2>8, Zenon
<1> QED
  BY <1>3, <1>5, <1>6

(* The variables of main() before the loop. *)
LEMMA CommandLineInit == Init => CommandLineInv
<1> SUFFICES ASSUME Init PROVE CommandLineInv
  OBVIOUS
<1>1. arguments \in Seq(Client!Word)
  <2>1. PICK n \in 0..MaxWords : arguments \in [1..n -> Client!Word]
    BY Zenon DEF Init
  <2> QED
    BY <2>1
<1>2. client_pc = "options" /\ options = Client!Defaults
  BY DEF Init
<1>3. Client!Options(arguments, 0) = {} /\ 1..0 = {}
  BY SMTT(30) DEF Client!Options
<1>4. /\ options \in Setting /\ options.argument_index = 1 /\ options.status = 0
      /\ ~options.socket_option_seen /\ ~options.use_tcp
      /\ options.socket_path = "default" /\ options.tcp_host = "default"
      /\ options.tcp_port = "9090" /\ options.log_level = "info"
  BY <1>2 DEF Client!Defaults, Setting, Value
<1>5. \A opt, d : Client!Used(arguments, 0, opt, d) = d
  BY <1>3, Zenon DEF Client!Used
<1>6. 2 * 0 + 1 = 1 /\ 2 * 0 <= Len(arguments) /\ 0 \in Nat
  BY <1>1, SMTT(30)
<1>7. OneTransport(arguments, 0) /\ ~("--socket" \in Client!Options(arguments, 0))
  BY <1>3 DEF OneTransport
<1>8. Client!Options(arguments, 0) \cap {"--host", "--port"} = {}
  BY <1>3
<1>9. Parsed(arguments, options, 0)
  BY <1>3, <1>4, <1>5, <1>6, <1>7, <1>8, Zenon DEF Parsed
<1>10. client_pc /= "prepare" /\ client_pc /= "exit"
  BY <1>2
<1> QED
  BY <1>1, <1>6, <1>9, <1>10, Zenon DEF CommandLineInv

(* Every iteration of the loop preserves what it knows of the pairs read   *)
(* so far; what follows the loop decides by it.                            *)
LEMMA CommandLineStep == SessionInv /\ CommandLineInv /\ [Next]_vars => CommandLineInv'
<1> SUFFICES ASSUME SessionInv, CommandLineInv, [Next]_vars PROVE CommandLineInv'
  OBVIOUS
<1>1. CASE UNCHANGED <<arguments, options, client_pc, result>>
  BY <1>1, Zenon DEF CommandLineInv
<1>2. ASSUME client_pc \notin {"options", "prepare", "exit"}, UNCHANGED arguments,
             client_pc' \notin {"options", "prepare"}, result' /= 2
      PROVE  CommandLineInv'
  BY <1>2 DEF CommandLineInv
<1>3. ASSUME ClientStep, Client!ReadOptions PROVE CommandLineInv'
  <2>1. PICK k \in Nat : Parsed(arguments, options, k)
    BY <1>3, SMTT(30) DEF Client!ReadOptions, CommandLineInv
  <2>2. arguments \in Seq(Client!Word) /\ UNCHANGED arguments /\ result = 1 /\ client_pc = "options"
    BY <1>3 DEF Client!ReadOptions, CommandLineInv, SessionInv, ClientPlace
  <2>3. CASE /\ Client!TakesOption(arguments, options)
             /\ options' = Client!Iterate(arguments, options) /\ UNCHANGED <<client_pc, result>>
    <3>1. Parsed(arguments', options', k + 1) /\ k + 1 \in Nat
      BY <2>1, <2>2, <2>3, ParsedMore, SMTT(30)
    <3>2. client_pc' = "options" /\ client_pc' /= "prepare" /\ client_pc' /= "exit"
      BY <2>2, <2>3
    <3> QED
      BY <2>2, <3>1, <3>2, Zenon DEF CommandLineInv
  <2>4. CASE /\ ~Client!TakesOption(arguments, options) /\ Client!HasCommand(arguments, options)
             /\ client_pc' = "prepare" /\ UNCHANGED <<options, result>>
    <3>1. options.status = 0 /\ Client!WellFormed(arguments, k)
      BY <2>1, <2>2, <2>4, ParsedCommand, SMTT(30)
    <3>2. client_pc' /= "options" /\ client_pc' /= "exit"
      BY <2>4
    <3> QED
      BY <2>1, <2>2, <2>4, <3>1, <3>2, Zenon DEF CommandLineInv
  <2>5. CASE /\ ~Client!TakesOption(arguments, options) /\ ~Client!HasCommand(arguments, options)
             /\ client_pc' = "exit"
    <3>1. \A n \in Nat : ~Client!WellFormed(arguments, n)
      BY <2>1, <2>2, <2>5, ParsedRefused, SMTT(30)
    <3>2. client_pc' /= "options" /\ client_pc' /= "prepare"
      BY <2>5
    <3> QED
      BY <2>2, <3>1, <3>2, Zenon DEF CommandLineInv
  <2> QED
    BY <1>3, <2>3, <2>4, <2>5, Zenon DEF Client!ReadOptions
<1>4. ASSUME ClientStep, Client!Prepare PROVE CommandLineInv'
  <2>1. client_pc' \in {"connect", "exit"} /\ arguments' = <<>> /\ result' = 1
    BY <1>4 DEF Client!Prepare, SessionInv, ClientPlace
  <2> QED
    BY <2>1 DEF CommandLineInv
<1>5. ASSUME ClientStep,
             Client!Connect \/ Client!Send \/ Client!Receive \/ Client!PrintResponse \/ Client!Close
      PROVE  CommandLineInv'
  <2>1. /\ client_pc \in {"connect", "send", "receive", "close"} /\ UNCHANGED arguments
        /\ client_pc' \in {"send", "receive", "close", "exit"}
        /\ result' \in {result, 0, 1}
    BY <1>5 DEF Client!Connect, Client!Send, Client!Receive, Client!PrintResponse, Client!Close,
       Client!PrintFailure, Client!cmdline
  <2>2. result /= 2
    BY <2>1 DEF SessionInv, ClientPlace
  <2> QED
    BY <1>2, <2>1, <2>2, SMTT(30)
<1>6. CASE ClientStep
  BY <1>3, <1>4, <1>5, <1>6, Zenon DEF ClientStep, Client!Main
<1>7. CASE UNCHANGED vars \/ Accept \/ Reject \/ WorkerStep \/ CommandEnds \/ RequestStop
  <2>1. UNCHANGED <<arguments, options, client_pc, result>>
    BY <1>7 DEF vars, program, Accept, Reject, WorkerStep, CommandEnds, RequestStop
  <2> QED
    BY <1>1, <2>1, SMTT(30)
<1> QED
  BY <1>6, <1>7, Zenon DEF Next

(* An option given once is used as given. *)
LEMMA UsedOnce ==
  ASSUME NEW args, NEW n \in Nat, NEW i \in 1..n, NEW default,
         \A j \in 1..n : args[2 * j - 1] = args[2 * i - 1] => j = i
  PROVE  Client!Used(args, n, args[2 * i - 1], default) = args[2 * i]
<1> DEFINE given == {j \in 1..n : args[2 * j - 1] = args[2 * i - 1]}
<1>1. given = {i} /\ i \in Nat
  BY SMTT(30)
<1>2. Client!Used(args, n, args[2 * i - 1], default) =
        IF given = {} THEN default ELSE args[2 * Client!Max(given)]
  BY Zenon DEF Client!Used
<1> HIDE DEF given
<1>3. i \in given /\ \A j \in given : i >= j
  BY <1>1
<1>4. Client!Max(given) \in given
  BY <1>3, Zenon DEF Client!Max
<1>5. Client!Max(given) = i
  BY <1>1, <1>4
<1> QED
  BY <1>2, <1>3, <1>5, Zenon

(* What the usage text offers, from what is said of well-formed lines. *)
LEMMA UsageFromReading ==
  ASSUME arguments \in Seq(Client!Word), TakesWellFormed, LastValueUsed
  PROVE  UsageHonoured
<1> SUFFICES ASSUME NEW n \in 0..Len(arguments), Client!OfUsage(arguments, n)
             PROVE  /\ ~(client_pc = "exit" /\ result = 2)
                    /\ client_pc = "prepare" =>
                         \A i \in 1..n : SetTo(arguments[2 * i - 1]) = arguments[2 * i]
  BY Zenon DEF UsageHonoured
<1>1. /\ Client!WellFormed(arguments, n) /\ Client!Options(arguments, n) \subseteq Client!Option
      /\ \A i, j \in 1..n : arguments[2 * i - 1] = arguments[2 * j - 1] => i = j
  BY Zenon DEF Client!OfUsage, Client!WellFormed
<1>2. ~(client_pc = "exit" /\ result = 2)
  BY <1>1, Zenon DEF TakesWellFormed
<1>3. ASSUME client_pc = "prepare", NEW i \in 1..n
      PROVE  SetTo(arguments[2 * i - 1]) = arguments[2 * i]
  <2> DEFINE option == arguments[2 * i - 1]
             value == arguments[2 * i]
  <2>1. option \in {"--socket", "--host", "--port", "--log-level"}
    BY <1>1, Zenon DEF Client!Options, Client!Option
  <2>2. n \in Nat
    OBVIOUS
  <2>3. \A d : Client!Used(arguments, n, option, d) = value
    BY <1>1, <2>2, UsedOnce, Zenon
  <2>4. /\ options.socket_path = Client!Used(arguments, n, "--socket", "default")
        /\ options.tcp_host = Client!Used(arguments, n, "--host", "default")
        /\ options.tcp_port = Client!Used(arguments, n, "--port", "9090")
        /\ options.log_level = Client!Used(arguments, n, "--log-level", "info")
    BY <1>1, <1>3, Zenon DEF LastValueUsed
  <2> HIDE DEF option, value
  <2>5. CASE option = "--socket"
    BY <2>3, <2>4, <2>5 DEF SetTo, option, value
  <2>6. CASE option = "--host"
    BY <2>3, <2>4, <2>6 DEF SetTo, option, value
  <2>7. CASE option = "--port"
    BY <2>3, <2>4, <2>7 DEF SetTo, option, value
  <2>8. CASE option = "--log-level"
    BY <2>3, <2>4, <2>8 DEF SetTo, option, value
  <2> QED
    BY <2>1, <2>5, <2>6, <2>7, <2>8, Zenon
<1> QED
  BY <1>2, <1>3, Zenon

(* The option loop goes on for the well-formed command lines, those of the *)
(* usage text among them, and for no others, and uses the last value of    *)
(* every option, for command lines of any length.                          *)
THEOREM ReadsCommandLineAlways == Spec => []ReadsCommandLine
<1>1. CommandLineInv => ReadsCommandLine
  <2> SUFFICES ASSUME CommandLineInv PROVE ReadsCommandLine
    OBVIOUS
  <2>1. arguments \in Seq(Client!Word) /\ Len(arguments) \in Nat
    BY DEF CommandLineInv
  <2>2. \A n \in 0..Len(arguments) : n \in Nat
    BY <2>1
  <2>3. client_pc = "exit" /\ result = 2 =>
          ~\E n \in 0..Len(arguments) : Client!WellFormed(arguments, n)
    BY <2>2, Zenon DEF CommandLineInv
  <2>4. ASSUME client_pc = "prepare"
        PROVE  /\ \E n \in 0..Len(arguments) : Client!WellFormed(arguments, n)
               /\ LastValueUsed
    <3>1. PICK k \in Nat : /\ Parsed(arguments, options, k) /\ options.status = 0
                           /\ Client!WellFormed(arguments, k)
      BY <2>4, Zenon DEF CommandLineInv
    <3>2. k \in 0..Len(arguments)
      BY <2>1, <3>1 DEF Client!WellFormed
    <3>3. \A n \in 0..Len(arguments) : Client!WellFormed(arguments, n) => n = k
      <4>1. /\ Client!Options(arguments, k) \subseteq Client!Option
            /\ arguments[2 * k + 1] \in Client!Command
        BY <3>1, Zenon DEF Client!WellFormed
      <4> QED
        BY <2>2, <4>1, OneReading, Zenon
    <3>4. /\ options.socket_path = Client!Used(arguments, k, "--socket", "default")
          /\ options.tcp_host = Client!Used(arguments, k, "--host", "default")
          /\ options.tcp_port = Client!Used(arguments, k, "--port", "9090")
          /\ options.log_level = Client!Used(arguments, k, "--log-level", "info")
          /\ options.use_tcp <=> Client!Options(arguments, k) \cap {"--host", "--port"} /= {}
      BY <3>1, Zenon DEF Parsed
    <3>5. LastValueUsed
      <4> SUFFICES ASSUME NEW n \in 0..Len(arguments), Client!WellFormed(arguments, n)
                   PROVE  /\ options.socket_path = Client!Used(arguments, n, "--socket", "default")
                          /\ options.tcp_host = Client!Used(arguments, n, "--host", "default")
                          /\ options.tcp_port = Client!Used(arguments, n, "--port", "9090")
                          /\ options.log_level = Client!Used(arguments, n, "--log-level", "info")
                          /\ options.use_tcp <=>
                               Client!Options(arguments, n) \cap {"--host", "--port"} /= {}
        BY Zenon DEF LastValueUsed
      <4>1. n = k
        BY <3>3, Zenon
      <4> QED
        BY <3>4, <4>1, Zenon
    <3> QED
      BY <3>1, <3>2, <3>5, Zenon
  <2>5. LastValueUsed
    BY <2>4, Zenon DEF LastValueUsed
  <2>6. TakesWellFormed
    BY <2>3, <2>4, Zenon DEF TakesWellFormed
  <2> QED
    BY <2>1, <2>5, <2>6, UsageFromReading, Zenon DEF ReadsCommandLine
<1> QED
  BY <1>1, SessionInvariant, CommandLineInit, CommandLineStep, PTL DEF Spec
==============================================================================
