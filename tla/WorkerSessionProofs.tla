------------------------- MODULE WorkerSessionProofs -------------------------
(***************************************************************************)
(* WorkerSession for every size of frames, responses, reads, input buffer  *)
(* and kernel buffers, and any number of requests and faults.              *)
(*                                                                         *)
(* That a client in good standing is never dropped is not inductive.  It   *)
(* rests on the order of the loop: poll() is asked for input only after    *)
(* process_request found the output drained and no whole request in the    *)
(* input buffer (ShortInput), so the read that follows has room.           *)
(*                                                                         *)
(* The order of the responses needs a second invariant (InOrder): some     *)
(* number of answers accounts at once for every unit in the five places it *)
(* may be, on the way to the worker, in its two buffers, on the way back   *)
(* and with the client (Account).                                          *)
(*                                                                         *)
(* The byte buffer of which a session has two, Buffer, follows.            *)
(***************************************************************************)
EXTENDS WorkerSession, Buffer, SequenceTheorems, TLAPS

Types ==
  /\ input \in Seq(UnitType) /\ output \in Seq(UnitType)
  /\ tosrv \in Seq(UnitType) /\ tocli \in Seq(UnitType)
  /\ sent \in Nat /\ faults \in Nat

(* While the worker waits for input, or is about to read, less than one    *)
(* request is in the buffer; while it runs a command, at least one.        *)
ShortInput ==
  /\ pc = "poll" /\ output = <<>> => Len(input) < FrameUnits
  /\ pc = "dispatch" /\ "POLLIN" \in revents => Len(input) < FrameUnits
  /\ pc = "command" => Len(input) >= FrameUnits

(* A malformed header comes from a client that sent one. *)
WellFormed ==
  ~malformed => /\ \A k \in DOMAIN input : input[k].part /= 0
                /\ \A k \in DOMAIN tosrv : tosrv[k].part /= 0

(* A hang-up or an error is reported of a client that is gone, or by a     *)
(* fault.                                                                  *)
Reported ==
  /\ "POLLERR" \in revents => peer = "gone" \/ faults > 0
  /\ "POLLHUP" \in revents => peer = "gone" \/ faults > 0

(* ClosedForCause one step earlier. *)
Cause ==
  pc \in {"close", "closed"} => peer /= "open" \/ malformed \/ stopping \/ faults > 0

IInv == Types /\ ShortInput /\ WellFormed /\ Reported /\ Cause

------------------------------------------------------------------------------
(* Consuming from a buffer leaves the rest of its units, in their order. *)
LEMMA ConsumePlaces ==
  ASSUME NEW q \in Seq(UnitType), NEW n \in 0..Len(q)
  PROVE  /\ Consume(q, n) \in Seq(UnitType)
         /\ Len(Consume(q, n)) = Len(q) - n
         /\ \A j \in 1..(Len(q) - n) : Consume(q, n)[j] = q[j + n]
  BY SubSeqProperties DEF Consume

(* They are some of the units it had. *)
LEMMA ConsumeProperties ==
  ASSUME NEW q \in Seq(UnitType), NEW n \in 0..Len(q)
  PROVE  /\ Consume(q, n) \in Seq(UnitType)
         /\ \A j \in DOMAIN Consume(q, n) : \E k \in DOMAIN q : Consume(q, n)[j] = q[k]
<1>1. /\ Consume(q, n) \in Seq(UnitType)
      /\ Len(Consume(q, n)) = Len(q) - n
      /\ \A j \in 1..(Len(q) - n) : Consume(q, n)[j] = q[j + n]
  BY ConsumePlaces, Zenon
<1>2. ASSUME NEW j \in DOMAIN Consume(q, n)
      PROVE  \E k \in DOMAIN q : Consume(q, n)[j] = q[k]
  <2>1. DOMAIN Consume(q, n) = 1..(Len(q) - n) /\ DOMAIN q = 1..Len(q)
    BY <1>1
  <2>2. j + n \in DOMAIN q /\ Consume(q, n)[j] = q[j + n]
    BY <1>1, <2>1
  <2> QED
    BY <2>2
<1> QED
  BY <1>1, <1>2

(* Reading appends units that were under way. *)
LEMMA ReadProperties ==
  ASSUME NEW p \in Seq(UnitType), NEW q \in Seq(UnitType), NEW n \in 0..Len(q)
  PROVE  /\ p \o SubSeq(q, 1, n) \in Seq(UnitType)
         /\ \A j \in DOMAIN (p \o SubSeq(q, 1, n)) :
              \/ \E k \in DOMAIN p : (p \o SubSeq(q, 1, n))[j] = p[k]
              \/ \E k \in DOMAIN q : (p \o SubSeq(q, 1, n))[j] = q[k]
<1> DEFINE r == SubSeq(q, 1, n)
<1>1. r \in Seq(UnitType) /\ Len(r) = n /\ \A j \in 1..n : r[j] = q[j]
  BY SubSeqProperties
<1> HIDE DEF r
<1>2. /\ p \o r \in Seq(UnitType) /\ Len(p \o r) = Len(p) + Len(r)
      /\ \A j \in 1..(Len(p) + Len(r)) :
           (p \o r)[j] = IF j <= Len(p) THEN p[j] ELSE r[j - Len(p)]
  BY <1>1, ConcatProperties, Zenon
<1>3. ASSUME NEW j \in DOMAIN (p \o r)
      PROVE  (\E k \in DOMAIN p : (p \o r)[j] = p[k]) \/ (\E k \in DOMAIN q : (p \o r)[j] = q[k])
  <2>1. /\ DOMAIN (p \o r) = 1..(Len(p) + n)
        /\ DOMAIN p = 1..Len(p) /\ DOMAIN q = 1..Len(q)
    BY <1>1, <1>2
  <2>2. CASE j <= Len(p)
    <3>1. j \in DOMAIN p /\ (p \o r)[j] = p[j]
      BY <1>1, <1>2, <2>1, <2>2
    <3> QED
      BY <3>1
  <2>3. CASE j > Len(p)
    <3>1. j - Len(p) \in 1..n
      BY <2>1, <2>3
    <3>2. (p \o r)[j] = q[j - Len(p)]
      BY <1>1, <1>2, <2>1, <2>3, <3>1
    <3>3. j - Len(p) \in DOMAIN q
      BY <2>1, <3>1
    <3> QED
      BY <3>2, <3>3
  <2> QED
    BY <2>1, <2>2, <2>3
<1> QED
  BY <1>2, <1>3 DEF r

(* They stand behind the units that were there, in their order. *)
LEMMA ReadPlaces ==
  ASSUME NEW p \in Seq(UnitType), NEW q \in Seq(UnitType), NEW n \in 0..Len(q)
  PROVE  /\ Len(p \o SubSeq(q, 1, n)) = Len(p) + n
         /\ \A j \in 1..Len(p) : (p \o SubSeq(q, 1, n))[j] = p[j]
         /\ \A j \in 1..n : (p \o SubSeq(q, 1, n))[Len(p) + j] = q[j]
<1> DEFINE r == SubSeq(q, 1, n)
<1>1. r \in Seq(UnitType) /\ Len(r) = n /\ \A j \in 1..n : r[j] = q[j]
  BY SubSeqProperties
<1> HIDE DEF r
<1>2. /\ Len(p \o r) = Len(p) + Len(r)
      /\ \A j \in 1..(Len(p) + Len(r)) :
           (p \o r)[j] = IF j <= Len(p) THEN p[j] ELSE r[j - Len(p)]
  BY <1>1, ConcatProperties, Zenon
<1>3. /\ Len(p \o r) = Len(p) + n
      /\ \A j \in 1..Len(p) : (p \o r)[j] = p[j]
      /\ \A j \in 1..n : (p \o r)[Len(p) + j] = q[j]
  BY <1>1, <1>2
<1> QED
  BY <1>3 DEF r

(* What the client sends is a unit, and only BadUnit has part 0. *)
LEMMA UnitProperties ==
  ASSUME NEW k \in Nat \ {0}
  PROVE  Unit(k, FrameUnits) \in UnitType /\ Unit(k, FrameUnits).part /= 0
<1>1. (k - 1) \div FrameUnits \in Nat /\ (k - 1) % FrameUnits \in Nat
  BY SizeAssumption
<1> QED
  BY <1>1 DEF Unit, UnitType

(* A response is a sequence of ResponseUnits units, and not empty. *)
LEMMA ResponseProperties ==
  ASSUME NEW n \in Nat
  PROVE  /\ Response(n) \in Seq(UnitType) /\ Len(Response(n)) > 0
         /\ Len(Response(n)) = ResponseUnits
         /\ \A p \in 1..ResponseUnits : Response(n)[p] = [req |-> n, part |-> p]
<1>1. Response(n) \in [1..ResponseUnits -> UnitType]
  BY SizeAssumption, SMTT(30) DEF Response, UnitType
<1>2. \A p \in 1..ResponseUnits : Response(n)[p] = [req |-> n, part |-> p]
  BY SMTT(30) DEF Response
<1> QED
  BY <1>1, <1>2, SizeAssumption

(* Every step keeps the invariant. *)
LEMMA Step == IInv /\ [Next]_vars => IInv'
<1> SUFFICES ASSUME IInv, [Next]_vars PROVE IInv'
  OBVIOUS
<1> USE SizeAssumption
    DEF IInv, Types, ShortInput, WellFormed, Reported, Cause, Fault, NoFault, wire, client
<1>0. CASE UNCHANGED vars
  BY <1>0 DEF vars
<1>1. CASE TestStop
  BY <1>1 DEF TestStop, StopSeen
<1>2. CASE ProcessRequest
  <2>1. ParsedRequest = "INVALID" => malformed
    BY DEF ParsedRequest
  <2>2. ParsedRequest = "NEED_MORE" => Len(input) < FrameUnits
    BY DEF ParsedRequest
  <2>3. ParsedRequest \in {"INVALID", "NEED_MORE"} \/ Len(input) >= FrameUnits
    BY DEF ParsedRequest
  <2> QED
    BY <1>2, <2>1, <2>2, <2>3 DEF ProcessRequest, Drained
<1>3. CASE CommandEnds
  <2> DEFINE left == Consume(input, FrameUnits)
             answer == output \o Response(Head(input).req)
  <2>1. Len(input) >= FrameUnits
    BY <1>3 DEF CommandEnds
  <2>2. Head(input) \in UnitType
    BY <2>1
  <2>3. Head(input).req \in Nat
    BY <2>2 DEF UnitType
  <2>4. /\ Response(Head(input).req) \in Seq(UnitType)
        /\ Len(Response(Head(input).req)) > 0
    BY <2>3, ResponseProperties, Zenon
  <2>5. answer \in Seq(UnitType) /\ answer /= <<>>
    BY <2>4, ConcatProperties
  <2>6. /\ left \in Seq(UnitType)
        /\ \A j \in DOMAIN left : \E k \in DOMAIN input : left[j] = input[k]
    BY <2>1, ConsumeProperties
  <2>7. /\ \/ output' = answer /\ input' = left /\ pc' = "poll" /\ NoFault
           \/ pc' = "close" /\ Fault /\ UNCHANGED <<input, output>>
        /\ UNCHANGED <<revents, stopping, wire, client>>
    BY <1>3 DEF CommandEnds, Consumed
  <2> HIDE DEF left, answer
  <2> QED
    BY <2>5, <2>6, <2>7
<1>4. CASE PollReturns
  <2>1. "POLLIN" \in Condition => output = <<>>
    BY DEF Condition, Events
  <2>2. Condition \subseteq {"POLLIN", "POLLOUT"}
    BY DEF Condition, Events
  <2>3. "POLLIN" \in revents' => "POLLIN" \in Condition
    BY <1>4 DEF PollReturns, Extra
  <2>4. /\ "POLLERR" \in revents' => peer = "gone" \/ faults' > 0
        /\ "POLLHUP" \in revents' => peer = "gone" \/ faults' > 0
    BY <1>4, <2>2, SMTT(30) DEF PollReturns, Extra
  <2>5. /\ pc = "poll" /\ pc' \in {"hangup", "dispatch"} /\ faults' \in Nat
        /\ UNCHANGED <<input, output, tosrv, tocli, sent, malformed, peer>>
    BY <1>4, SMTT(30) DEF PollReturns
  <2> QED
    BY <2>1, <2>3, <2>4, <2>5
<1>5. CASE PollTimesOut
  BY <1>5 DEF PollTimesOut
<1>6. CASE ReadClient
  <2> DEFINE n == Least(Least(Available, ReadUnits), Len(tosrv))
             left == Consume(tosrv, n)
             filled == input \o SubSeq(tosrv, 1, n)
  <2>1. n \in 0..Len(tosrv)
    BY <1>6 DEF ReadClient, Least, Available
  <2>2. /\ tosrv' = left
        /\ \/ input' = filled /\ pc' = "write" /\ NoFault
           \/ UNCHANGED input /\ pc' = "close" /\ Fault
        /\ UNCHANGED <<output, revents, stopping, tocli, client>>
    BY <1>6, Zenon DEF ReadClient
  <2> HIDE DEF n
  <2>3. /\ left \in Seq(UnitType)
        /\ \A j \in DOMAIN left : \E k \in DOMAIN tosrv : left[j] = tosrv[k]
    BY <2>1, ConsumeProperties
  <2>4. /\ filled \in Seq(UnitType)
        /\ \A j \in DOMAIN filled :
              \/ \E k \in DOMAIN input : filled[j] = input[k]
              \/ \E k \in DOMAIN tosrv : filled[j] = tosrv[k]
    BY <2>1, ReadProperties, Zenon
  <2> HIDE DEF left, filled
  <2>5. Types'
    BY <2>2, <2>3, <2>4
  <2>6. WellFormed'
    <3> SUFFICES ASSUME ~malformed
                 PROVE  /\ \A k \in DOMAIN input' : input'[k].part /= 0
                        /\ \A k \in DOMAIN tosrv' : tosrv'[k].part /= 0
      BY <2>2
    <3>1. /\ \A k \in DOMAIN input : input[k].part /= 0
          /\ \A k \in DOMAIN tosrv : tosrv[k].part /= 0
      OBVIOUS
    <3>2. \A k \in DOMAIN filled : filled[k].part /= 0
      BY <2>4, <3>1
    <3>3. \A k \in DOMAIN left : left[k].part /= 0
      BY <2>3, <3>1
    <3> QED
      BY <2>2, <3>1, <3>2, <3>3
  <2> QED
    BY <2>2, <2>5, <2>6
<1>7. CASE ReadFails
  <2>1. Available /= 0
    BY <1>7 DEF ReadFails, Available
  <2> QED
    BY <1>7, <2>1 DEF ReadFails, AtEndOfFile
<1>8. CASE WriteClient
  <2> DEFINE n == IF peer = "gone" THEN Len(output) ELSE Least(Room, Len(output))
  <2>1. n \in 0..Len(output)
    BY <1>8 DEF WriteClient, Least, Room
  <2>2. /\ tocli' = IF peer = "gone" THEN <<>> ELSE tocli \o SubSeq(output, 1, n)
        /\ output' = Consume(output, n)
        /\ pc' = "hangup"
        /\ UNCHANGED <<input, revents, stopping, tosrv, client, faults>>
    BY <1>8 DEF WriteClient, Unsent
  <2> HIDE DEF n
  <2>3. Consume(output, n) \in Seq(UnitType) /\ tocli \o SubSeq(output, 1, n) \in Seq(UnitType)
    BY <2>1, ConsumeProperties, ReadProperties
  <2> QED
    BY <2>2, <2>3
<1>9. CASE WriteFails
  BY <1>9 DEF WriteFails
<1>10. CASE NothingToWrite
  BY <1>10 DEF NothingToWrite
<1>11. CASE CheckHangup
  BY <1>11 DEF CheckHangup
<1>12. CASE Close
  BY <1>12 DEF Close
<1>13. CASE RequestStop
  BY <1>13 DEF RequestStop
<1>14. CASE ClientSends
  <2> DEFINE u == Unit(sent + 1, FrameUnits)
  <2>1. u \in UnitType /\ u.part /= 0
    BY UnitProperties
  <2>2. tosrv' = Append(tosrv, u) /\ sent' = sent + 1
    BY <1>14 DEF ClientSends
  <2> HIDE DEF u
  <2>3. /\ tosrv' \in Seq(UnitType)
        /\ \A k \in DOMAIN tosrv' : tosrv'[k] = u \/ (k \in DOMAIN tosrv /\ tosrv'[k] = tosrv[k])
    BY <2>1, <2>2, AppendProperties
  <2> QED
    BY <1>14, <2>1, <2>2, <2>3 DEF ClientSends
<1>15. CASE ClientSendsMalformed
  BY <1>15 DEF ClientSendsMalformed, BadUnit, UnitType
<1>16. CASE ClientHalfCloses
  BY <1>16 DEF ClientHalfCloses
<1>17. CASE ClientLeaves
  BY <1>17 DEF ClientLeaves
<1>18. CASE ClientReceives
  BY <1>18 DEF ClientReceives
<1> QED
  BY <1>0, <1>1, <1>2, <1>3, <1>4, <1>5, <1>6, <1>7, <1>8, <1>9, <1>10, <1>11,
     <1>12, <1>13, <1>14, <1>15, <1>16, <1>17, <1>18
  DEF Next, Worker

(* The inductive invariant. *)
LEMMA SessionInvariant == Spec => []IInv
<1>1. Init => IInv
  BY SizeAssumption DEF Init, IInv, Types, ShortInput, WellFormed, Reported, Cause
<1> QED
  BY <1>1, Step, PTL DEF Spec

(* Whatever the sizes, as long as the input buffer holds one request, the  *)
(* worker never reads without room: EMSGSIZE in wc_*_read_client is dead.  *)
THEOREM RoomToReadAlways == Spec => []RoomToRead
<1>1. IInv => RoomToRead
  BY SizeAssumption DEF IInv, Types, ShortInput, RoomToRead, Available
<1> QED
  BY <1>1, SessionInvariant, PTL

(* Whatever the sizes and however fast it sends, a client in good standing *)
(* is never dropped.                                                       *)
THEOREM ClosedForCauseAlways == Spec => []ClosedForCause
<1>1. IInv => ClosedForCause
  BY DEF IInv, Cause, ClosedForCause
<1> QED
  BY <1>1, SessionInvariant, PTL
(* The k-th unit of a client that has sent n units and a malformed header. *)
SentUnit(k, n) == IF k <= n THEN Unit(k, FrameUnits) ELSE BadUnit

(* Units of responses that are with the client, in the kernel or in the    *)
(* worker's output buffer.                                                 *)
Produced == Len(got) + Len(tocli) + Len(output)

(* The responses to requests 1..a follow one another from what the client  *)
(* has received to what the worker has yet to send.                        *)
Responses(a) ==
  /\ a * FrameUnits <= sent
  /\ Produced <= a * ResponseUnits
  /\ pc /= "closed" => Produced = a * ResponseUnits
  /\ \A k \in 1..Len(got) : got[k] = Unit(k, ResponseUnits)
  /\ \A k \in 1..Len(tocli) : tocli[k] = Unit(Len(got) + k, ResponseUnits)
  /\ \A k \in 1..Len(output) : output[k] = Unit(Len(got) + Len(tocli) + k, ResponseUnits)

(* What follows the first a requests is in the worker's input buffer, then *)
(* in the kernel, in the order it was sent.                                *)
Requests(a) ==
  /\ Len(input) + Len(tosrv) = (sent - a * FrameUnits) + (IF malformed THEN 1 ELSE 0)
  /\ \A k \in 1..Len(input) : input[k] = SentUnit(a * FrameUnits + k, sent)
  /\ \A k \in 1..Len(tosrv) : tosrv[k] = SentUnit(a * FrameUnits + Len(input) + k, sent)

(* A session the worker ends of its own accord has no request left, and    *)
(* its client sends no more.                                               *)
Finished(a) ==
  /\ output = <<>> /\ Produced = a * ResponseUnits /\ sent < (a + 1) * FrameUnits
  /\ malformed \/ peer /= "open"

Ending == pc \in {"close", "closed"}

Account(a) ==
  /\ Responses(a)
  /\ ~Ending => Requests(a)
  /\ Ending /\ ~stopping /\ faults = 0 => Finished(a)

(* The worker polls for input, and runs a command, with its output drained *)
(* and no malformed header next.                                           *)
Waiting ==
  \/ pc = "poll" /\ output = <<>>
  \/ pc = "dispatch" /\ "POLLIN" \in revents
  \/ pc = "command"

InOrder ==
  /\ got \in Seq(UnitType)
  /\ malformed => sent % FrameUnits = 0
  /\ Waiting => output = <<>> /\ (input /= <<>> => Head(input).part /= 0)
  /\ peer /= "gone" => \E a \in Nat : Account(a)
------------------------------------------------------------------------------
(* Products grow with their first factor. *)
LEMMA ProductMonotone ==
  ASSUME NEW a \in Nat, NEW b \in Nat, NEW n \in Nat, a <= b
  PROVE  a * n <= b * n
<1>1. b = a + (b - a) /\ b - a \in Nat
  OBVIOUS
<1>2. b * n = a * n + (b - a) * n /\ (b - a) * n >= 0
  BY <1>1
<1> QED
  BY <1>2

(* The quotient and the remainder of a number, and no other, give it back. *)
LEMMA Quotient ==
  ASSUME NEW x \in Nat, NEW n \in Nat \ {0}, NEW a \in Nat, a * n <= x
  PROVE  /\ a <= x \div n
         /\ x < (a + 1) * n => x \div n = a /\ x % n = x - a * n
<1> DEFINE q == x \div n
<1>1. q \in Nat /\ x = (q * n) + (x % n) /\ x % n \in 0..(n - 1)
  OBVIOUS
<1> HIDE DEF q
<1>2. (q + 1) * n = q * n + n
  BY <1>1
<1>3. ASSUME a > q PROVE FALSE
  BY <1>1, <1>2, <1>3, ProductMonotone, q + 1 <= a, q + 1 \in Nat
<1>4. ASSUME x < (a + 1) * n, a < q PROVE FALSE
  BY <1>1, <1>4, ProductMonotone, a + 1 <= q, a + 1 \in Nat
<1> QED
  BY <1>1, <1>3, <1>4 DEF q

(* The units of the request or response that follows a whole ones. *)
LEMMA UnitOfNext ==
  ASSUME NEW a \in Nat, NEW n \in Nat \ {0}, NEW p \in 1..n
  PROVE  Unit(a * n + p, n) = [req |-> a + 1, part |-> p]
<1>1. a * n \in Nat /\ (a + 1) * n = a * n + n
  OBVIOUS
<1>2. ((a * n + p) - 1) \div n = a /\ ((a * n + p) - 1) % n = p - 1
  BY <1>1, Quotient, (a * n + p) - 1 \in Nat
<1> QED
  BY <1>2 DEF Unit

(* Whole requests, more than a of them, are at least a + 1. *)
LEMMA OneMore ==
  ASSUME NEW x \in Nat, NEW n \in Nat \ {0}, NEW a \in Nat, x % n = 0, a * n < x
  PROVE  (a + 1) * n <= x
<1>1. a * n \in Nat /\ (a + 1) * n \in Nat
  OBVIOUS
<1>2. a * n <= x
  BY <1>1
<1>3. x < (a + 1) * n => x % n = x - a * n
  BY <1>2, Quotient, Zenon
<1> QED
  BY <1>1, <1>3


(* The head of the input buffer is the first unit of request a + 1, or a   *)
(* malformed header after which nothing is sent.                           *)
LEMMA HeadOfInput ==
  ASSUME IInv, InOrder, NEW a \in Nat, Account(a), ~Ending, input /= <<>>
  PROVE  /\ Head(input).part = 0 => malformed /\ sent = a * FrameUnits
         /\ Head(input).part /= 0 => /\ a * FrameUnits < sent
                                     /\ Head(input).req = a + 1
                                     /\ malformed => (a + 1) * FrameUnits <= sent
<1>1. /\ input \in Seq(UnitType) /\ tosrv \in Seq(UnitType) /\ Len(input) > 0 /\ sent \in Nat
      /\ FrameUnits \in Nat \ {0} /\ a * FrameUnits \in Nat /\ a * FrameUnits <= sent
      /\ malformed => sent % FrameUnits = 0
  BY SizeAssumption DEF IInv, Types, InOrder, Account, Responses
<1>2. Head(input) = SentUnit(a * FrameUnits + 1, sent)
  BY <1>1 DEF Account, Requests
<1>3. CASE a * FrameUnits < sent
  <2>1. Head(input) = Unit(a * FrameUnits + 1, FrameUnits)
    BY <1>1, <1>2, <1>3 DEF SentUnit
  <2>2. Head(input) = [req |-> a + 1, part |-> 1]
    BY <1>1, <2>1, UnitOfNext, 1 \in 1..FrameUnits, Zenon
  <2>3. malformed => (a + 1) * FrameUnits <= sent
    BY <1>1, <1>3, OneMore, Zenon
  <2> QED
    BY <1>3, <2>2, <2>3
<1>4. CASE a * FrameUnits = sent
  <2>1. Head(input) = BadUnit
    BY <1>1, <1>2, <1>4 DEF SentUnit
  <2>2. Head(input).part = 0
    BY <2>1 DEF BadUnit
  <2>3. Len(input) + Len(tosrv) = (sent - a * FrameUnits) + (IF malformed THEN 1 ELSE 0)
    BY DEF Account, Requests
  <2>4. malformed
    BY <1>1, <1>4, <2>3
  <2> QED
    BY <1>4, <2>2, <2>4
<1> QED
  BY <1>1, <1>3, <1>4

(* A step that moves no unit keeps the account. *)
LEMMA AccountSame ==
  ASSUME NEW a \in Nat, Account(a), ~Ending, pc' /= "closed",
         UNCHANGED <<input, output, wire, client>>,
         Ending' /\ ~stopping' /\ faults' = 0 => Finished(a)
  PROVE  Account(a)'
<1>1. Responses(a)'
  BY DEF Account, Responses, Produced, wire, client, Ending
<1>2. Requests(a)'
  BY DEF Account, Requests, SentUnit, wire, client
<1>3. Ending' /\ ~stopping' /\ faults' = 0 => Finished(a)'
  BY DEF Finished, Produced, wire, client
<1> QED
  BY <1>1, <1>2, <1>3 DEF Account

(* process_request ends the session at a malformed header only, and with   *)
(* the output drained.                                                     *)
LEMMA InvalidFinished ==
  ASSUME IInv, InOrder, NEW a \in Nat, Account(a), pc = "process",
         Drained, ParsedRequest = "INVALID"
  PROVE  Finished(a)
<1>1. input /= <<>> /\ Head(input).part = 0 /\ ~Ending
  BY DEF ParsedRequest, Ending
<1>2. malformed /\ sent = a * FrameUnits
  BY <1>1, HeadOfInput
<1>3. (a + 1) * FrameUnits = a * FrameUnits + FrameUnits /\ a * FrameUnits \in Nat
  BY SizeAssumption
<1>4. sent < (a + 1) * FrameUnits
  BY <1>2, <1>3, SizeAssumption
<1>5. Produced = a * ResponseUnits
  BY DEF Account, Responses
<1> QED
  BY <1>2, <1>4, <1>5 DEF Finished, Drained

(* At end of file less than a request is left. *)
LEMMA EndOfFileFinished ==
  ASSUME IInv, InOrder, NEW a \in Nat, Account(a), pc = "dispatch",
         "POLLIN" \in revents, tosrv = <<>>, peer /= "open"
  PROVE  Finished(a)
<1>1. /\ ~Ending /\ output = <<>> /\ Len(input) < FrameUnits
      /\ input /= <<>> => Head(input).part /= 0
  BY DEF Ending, InOrder, Waiting, IInv, ShortInput
<1>2. /\ Len(input) \in Nat /\ sent \in Nat /\ FrameUnits \in Nat /\ a * FrameUnits \in Nat
      /\ (a + 1) * FrameUnits = a * FrameUnits + FrameUnits
  BY SizeAssumption DEF IInv, Types
<1>3. Len(input) = (sent - a * FrameUnits) + (IF malformed THEN 1 ELSE 0)
  BY <1>1, <1>2 DEF Account, Requests
<1>4. sent < (a + 1) * FrameUnits
  <2>1. CASE ~malformed
    BY <1>1, <1>2, <1>3, <2>1
  <2>2. CASE malformed /\ input = <<>>
    BY <1>1, <1>2, <1>3, <2>2
  <2>3. CASE malformed /\ input /= <<>>
    BY <1>1, <1>2, <1>3, <2>3, HeadOfInput
  <2> QED
    BY <2>1, <2>2, <2>3
<1>5. Produced = a * ResponseUnits
  BY <1>1 DEF Account, Responses, Ending
<1> QED
  BY <1>1, <1>4, <1>5 DEF Finished

(* The response to request a + 1 takes its place behind the responses to   *)
(* the a before it, and its request leaves the input buffer.               *)
LEMMA CommandAccount ==
  ASSUME IInv, InOrder, NEW a \in Nat, Account(a), pc = "command", pc' = "poll",
         output' = output \o Response(Head(input).req), input' = Consumed,
         UNCHANGED <<wire, client>>
  PROVE  Account(a + 1)'
<1>1. /\ input \in Seq(UnitType) /\ tosrv \in Seq(UnitType) /\ tocli \in Seq(UnitType)
      /\ got \in Seq(UnitType) /\ sent \in Nat
      /\ Len(input) >= FrameUnits /\ Len(input) > 0 /\ output = <<>> /\ Head(input).part /= 0
  BY SizeAssumption DEF IInv, Types, ShortInput, InOrder, Waiting
<1>2. ~Ending /\ ~Ending' /\ pc' /= "closed"
  BY DEF Ending
<1>3. /\ a * FrameUnits < sent /\ Head(input).req = a + 1
      /\ malformed => (a + 1) * FrameUnits <= sent
  BY <1>1, <1>2, HeadOfInput
<1>4. /\ FrameUnits \in Nat \ {0} /\ ResponseUnits \in Nat \ {0}
      /\ a * FrameUnits \in Nat /\ a * ResponseUnits \in Nat /\ (a + 1) * FrameUnits \in Nat
      /\ (a + 1) * FrameUnits = a * FrameUnits + FrameUnits
      /\ (a + 1) * ResponseUnits = a * ResponseUnits + ResponseUnits
  BY SizeAssumption
<1>5. /\ Len(input) + Len(tosrv) = (sent - a * FrameUnits) + (IF malformed THEN 1 ELSE 0)
      /\ \A k \in 1..Len(input) : input[k] = SentUnit(a * FrameUnits + k, sent)
      /\ \A k \in 1..Len(tosrv) : tosrv[k] = SentUnit(a * FrameUnits + Len(input) + k, sent)
  BY <1>2 DEF Account, Requests
<1>6. (a + 1) * FrameUnits <= sent
  BY <1>1, <1>3, <1>4, <1>5
<1>7. /\ Len(input') = Len(input) - FrameUnits
      /\ \A j \in 1..(Len(input) - FrameUnits) : input'[j] = input[j + FrameUnits]
  <2>1. FrameUnits \in 0..Len(input)
    BY <1>1, <1>4
  <2> QED
    BY <1>1, <2>1, ConsumePlaces, Zenon DEF Consumed
<1>8. Requests(a + 1)'
  <2>1. ASSUME NEW k \in 1..Len(input')
        PROVE  input'[k] = SentUnit((a + 1) * FrameUnits + k, sent)
    <3>1. /\ k + FrameUnits \in 1..Len(input) /\ input'[k] = input[k + FrameUnits]
          /\ a * FrameUnits + (k + FrameUnits) = (a + 1) * FrameUnits + k
      BY <1>1, <1>4, <1>7
    <3>2. input[k + FrameUnits] = SentUnit(a * FrameUnits + (k + FrameUnits), sent)
      BY <1>5, <3>1
    <3> QED
      BY <3>1, <3>2
  <2>2. \A k \in 1..Len(tosrv) : tosrv[k] = SentUnit((a + 1) * FrameUnits + Len(input') + k, sent)
    <3>1. (a + 1) * FrameUnits + Len(input') = a * FrameUnits + Len(input)
      BY <1>1, <1>4, <1>7
    <3> QED
      BY <1>5, <3>1
  <2>3. Len(input') + Len(tosrv) = (sent - (a + 1) * FrameUnits) + (IF malformed THEN 1 ELSE 0)
    <3> DEFINE base == a * FrameUnits
               next == (a + 1) * FrameUnits
    <3>1. base \in Nat /\ next = base + FrameUnits /\ FrameUnits \in Nat /\ Len(input) \in Nat
      BY <1>1, <1>4
    <3>2. Len(input) + Len(tosrv) = (sent - base) + (IF malformed THEN 1 ELSE 0)
      BY <1>5
    <3> HIDE DEF base, next
    <3>3. Len(input') + Len(tosrv) = (sent - next) + (IF malformed THEN 1 ELSE 0)
      BY <1>1, <1>7, <3>1, <3>2
    <3> QED
      BY <3>3 DEF next
  <2> QED
    BY <2>1, <2>2, <2>3 DEF Requests, SentUnit, wire, client
<1>9. /\ Len(output') = ResponseUnits
      /\ \A k \in 1..ResponseUnits : output'[k] = [req |-> a + 1, part |-> k]
  <2>1. /\ Response(a + 1) \in Seq(UnitType) /\ Len(Response(a + 1)) = ResponseUnits
        /\ \A p \in 1..ResponseUnits : Response(a + 1)[p] = [req |-> a + 1, part |-> p]
    BY ResponseProperties, a + 1 \in Nat, Zenon
  <2>2. output' = Response(a + 1)
    BY <1>1, <1>3, <2>1
  <2> QED
    BY <2>1, <2>2, Zenon
<1>10. Len(got) + Len(tocli) = a * ResponseUnits
  BY <1>1, <1>2, <1>4 DEF Account, Responses, Ending, Produced
<1>11. Responses(a + 1)'
  <2>1. \A k \in 1..Len(output') :
          output'[k] = Unit(Len(got) + Len(tocli) + k, ResponseUnits)
    <3> SUFFICES ASSUME NEW k \in 1..ResponseUnits
                 PROVE  output'[k] = Unit(a * ResponseUnits + k, ResponseUnits)
      BY <1>9, <1>10
    <3>1. Unit(a * ResponseUnits + k, ResponseUnits) = [req |-> a + 1, part |-> k]
      BY <1>4, UnitOfNext, Zenon
    <3> QED
      BY <1>9, <3>1, Zenon
  <2>2. Produced' = (a + 1) * ResponseUnits
    BY <1>1, <1>4, <1>9, <1>10, Zenon DEF Produced, wire, client
  <2>3. /\ \A k \in 1..Len(got) : got[k] = Unit(k, ResponseUnits)
        /\ \A k \in 1..Len(tocli) : tocli[k] = Unit(Len(got) + k, ResponseUnits)
    BY DEF Account, Responses
  <2> QED
    BY <1>4, <1>6, <2>1, <2>2, <2>3 DEF Responses, wire, client
<1> QED
  BY <1>2, <1>8, <1>11 DEF Account

(* A read moves units from the kernel to the end of the input buffer. *)
LEMMA ReadAccount ==
  ASSUME IInv, NEW a \in Nat, Account(a), ~Ending, pc' = "write", NEW n \in 0..Len(tosrv),
         tosrv' = Consume(tosrv, n), input' = input \o SubSeq(tosrv, 1, n),
         UNCHANGED <<output, tocli, client>>
  PROVE  Account(a)'
<1>1. /\ input \in Seq(UnitType) /\ tosrv \in Seq(UnitType) /\ sent \in Nat
      /\ a * FrameUnits \in Nat
  BY SizeAssumption DEF IInv, Types
<1>2. /\ Len(input') = Len(input) + n
      /\ \A j \in 1..Len(input) : input'[j] = input[j]
      /\ \A j \in 1..n : input'[Len(input) + j] = tosrv[j]
  BY <1>1, ReadPlaces
<1>3. /\ Len(tosrv') = Len(tosrv) - n
      /\ \A j \in 1..(Len(tosrv) - n) : tosrv'[j] = tosrv[j + n]
  BY <1>1, ConsumePlaces, Zenon
<1>4. /\ Len(input) + Len(tosrv) = (sent - a * FrameUnits) + (IF malformed THEN 1 ELSE 0)
      /\ \A k \in 1..Len(input) : input[k] = SentUnit(a * FrameUnits + k, sent)
      /\ \A k \in 1..Len(tosrv) : tosrv[k] = SentUnit(a * FrameUnits + Len(input) + k, sent)
  BY DEF Account, Requests
<1>5. Requests(a)'
  <2>1. ASSUME NEW k \in 1..Len(input')
        PROVE  input'[k] = SentUnit(a * FrameUnits + k, sent)
    <3>1. CASE k <= Len(input)
      BY <1>1, <1>2, <1>4, <3>1
    <3>2. CASE k > Len(input)
      <4>1. k - Len(input) \in 1..n /\ k - Len(input) \in 1..Len(tosrv)
        BY <1>1, <1>2, <3>2
      <4>2. input'[Len(input) + (k - Len(input))] = tosrv[k - Len(input)]
        BY <1>2, <4>1
      <4>3. tosrv[k - Len(input)] = SentUnit(a * FrameUnits + Len(input) + (k - Len(input)), sent)
        BY <1>4, <4>1
      <4> QED
        BY <1>1, <4>1, <4>2, <4>3
    <3> QED
      BY <1>1, <1>2, <3>1, <3>2
  <2>2. \A k \in 1..Len(tosrv') : tosrv'[k] = SentUnit(a * FrameUnits + Len(input') + k, sent)
    <3> SUFFICES ASSUME NEW k \in 1..Len(tosrv')
                 PROVE  tosrv'[k] = SentUnit(a * FrameUnits + Len(input') + k, sent)
      OBVIOUS
    <3>1. k + n \in 1..Len(tosrv) /\ tosrv'[k] = tosrv[k + n]
      BY <1>1, <1>3
    <3>2. tosrv[k + n] = SentUnit(a * FrameUnits + Len(input) + (k + n), sent)
      BY <1>4, <3>1
    <3>3. a * FrameUnits + Len(input) + (k + n) = a * FrameUnits + Len(input') + k
      BY <1>1, <1>2, <1>3
    <3> QED
      BY <3>1, <3>2, <3>3
  <2>3. Len(input') + Len(tosrv') = Len(input) + Len(tosrv)
    <3>1. Len(input) \in Nat /\ Len(tosrv) \in Nat /\ n \in Nat
      BY <1>1
    <3>2. Len(input') = Len(input) + n /\ Len(tosrv') = Len(tosrv) - n
      BY <1>2, <1>3
    <3> QED
      BY <3>1, <3>2
  <2> QED
    BY <1>4, <2>1, <2>2, <2>3 DEF Requests, SentUnit, client
<1>6. Responses(a)'
  BY Zenon DEF Account, Responses, Produced, client, Ending
<1> QED
  BY <1>5, <1>6 DEF Account, Ending

(* A send moves units from the output buffer to the kernel, and a receive  *)
(* from the kernel to the client.                                          *)
LEMMA WriteAccount ==
  ASSUME IInv, InOrder, NEW a \in Nat, Account(a), ~Ending, pc' = "hangup",
         NEW n \in 0..Len(output),
         tocli' = tocli \o SubSeq(output, 1, n), output' = Consume(output, n),
         UNCHANGED <<input, tosrv, client>>
  PROVE  Account(a)'
<1>1. /\ output \in Seq(UnitType) /\ tocli \in Seq(UnitType)
      /\ Len(output) \in Nat /\ Len(tocli) \in Nat /\ Len(got) \in Nat
      /\ a * ResponseUnits \in Nat
  BY SizeAssumption DEF IInv, Types, InOrder
<1>2. /\ Len(tocli') = Len(tocli) + n
      /\ \A j \in 1..Len(tocli) : tocli'[j] = tocli[j]
      /\ \A j \in 1..n : tocli'[Len(tocli) + j] = output[j]
  BY <1>1, ReadPlaces, Zenon
<1>3. /\ Len(output') = Len(output) - n
      /\ \A j \in 1..(Len(output) - n) : output'[j] = output[j + n]
  BY <1>1, ConsumePlaces, Zenon
<1>4. /\ \A k \in 1..Len(got) : got[k] = Unit(k, ResponseUnits)
      /\ \A k \in 1..Len(tocli) : tocli[k] = Unit(Len(got) + k, ResponseUnits)
      /\ \A k \in 1..Len(output) : output[k] = Unit(Len(got) + Len(tocli) + k, ResponseUnits)
      /\ a * FrameUnits <= sent /\ Produced = a * ResponseUnits
  BY SMTT(30) DEF Account, Responses, Ending
<1>5. Responses(a)'
  <2>1. ASSUME NEW k \in 1..Len(tocli')
        PROVE  tocli'[k] = Unit(Len(got) + k, ResponseUnits)
    <3>1. CASE k <= Len(tocli)
      BY <1>1, <1>2, <1>4, <3>1
    <3>2. CASE k > Len(tocli)
      <4>1. k - Len(tocli) \in 1..n /\ k - Len(tocli) \in 1..Len(output)
        BY <1>1, <1>2, <3>2
      <4>2. tocli'[Len(tocli) + (k - Len(tocli))] = output[k - Len(tocli)]
        BY <1>2, <4>1
      <4>3. output[k - Len(tocli)] = Unit(Len(got) + Len(tocli) + (k - Len(tocli)), ResponseUnits)
        BY <1>4, <4>1
      <4>4. /\ Len(tocli) + (k - Len(tocli)) = k
            /\ Len(got) + Len(tocli) + (k - Len(tocli)) = Len(got) + k
        BY <1>1
      <4> QED
        BY <4>2, <4>3, <4>4
    <3> QED
      BY <1>1, <1>2, <3>1, <3>2
  <2>2. ASSUME NEW k \in 1..Len(output')
        PROVE  output'[k] = Unit(Len(got) + Len(tocli') + k, ResponseUnits)
    <3>1. k + n \in 1..Len(output) /\ output'[k] = output[k + n]
      BY <1>1, <1>3
    <3>2. output[k + n] = Unit(Len(got) + Len(tocli) + (k + n), ResponseUnits)
      BY <1>4, <3>1
    <3>3. Len(got) + Len(tocli) + (k + n) = Len(got) + Len(tocli') + k
      <4>1. k \in Nat /\ n \in Nat
        BY <1>1, <3>1
      <4>2. Len(tocli') = Len(tocli) + n /\ Len(got) \in Nat /\ Len(tocli) \in Nat
        BY <1>1, <1>2
      <4> QED
        BY <4>1, <4>2
    <3> QED
      BY <3>1, <3>2, <3>3
  <2>3. Produced' = Produced
    <3>1. Len(tocli') = Len(tocli) + n /\ Len(output') = Len(output) - n /\ got' = got
      BY <1>2, <1>3 DEF client
    <3>2. n \in Nat /\ Len(output) \in Nat /\ Len(tocli) \in Nat /\ Len(got) \in Nat
      BY <1>1
    <3> QED
      BY <3>1, <3>2 DEF Produced
  <2> QED
    BY <1>1, <1>4, <2>1, <2>2, <2>3 DEF Responses, client
<1>6. Requests(a)'
  BY DEF Account, Requests, SentUnit, client
<1> QED
  BY <1>5, <1>6 DEF Account, Ending

(* A unit the client receives moves from the connection to the client. *)
LEMMA ReceiveAccount ==
  ASSUME IInv, InOrder, NEW a \in Nat, Account(a), ClientReceives
  PROVE  Account(a)' /\ got' \in Seq(UnitType)
<1>1. /\ tocli \in Seq(UnitType) /\ got \in Seq(UnitType) /\ tocli /= <<>>
      /\ Len(output) \in Nat
  BY DEF IInv, Types, InOrder, ClientReceives
<1>2. got' = Append(got, Head(tocli)) /\ tocli' = Tail(tocli)
  BY DEF ClientReceives
<1>3. /\ got' \in Seq(UnitType) /\ Len(got') = Len(got) + 1
      /\ \A k \in 1..Len(got) : got'[k] = got[k]
      /\ got'[Len(got) + 1] = tocli[1]
      /\ Len(tocli') = Len(tocli) - 1
      /\ \A k \in 1..(Len(tocli) - 1) : tocli'[k] = tocli[k + 1]
  BY <1>1, <1>2, AppendProperties, HeadTailProperties
<1>4. /\ \A k \in 1..Len(got) : got[k] = Unit(k, ResponseUnits)
      /\ \A k \in 1..Len(tocli) : tocli[k] = Unit(Len(got) + k, ResponseUnits)
      /\ \A k \in 1..Len(output) : output[k] = Unit(Len(got) + Len(tocli) + k, ResponseUnits)
      /\ a * FrameUnits <= sent /\ Produced <= a * ResponseUnits
      /\ pc /= "closed" => Produced = a * ResponseUnits
  BY DEF Account, Responses
<1>5. Produced' = Produced /\ Len(got') + Len(tocli') = Len(got) + Len(tocli)
  BY <1>1, <1>3 DEF Produced, ClientReceives
<1>6. \A k \in 1..Len(got') : got'[k] = Unit(k, ResponseUnits)
  <2>1. tocli[1] = Unit(Len(got) + 1, ResponseUnits)
    BY <1>1, <1>4
  <2>2. ASSUME NEW k \in 1..Len(got')
        PROVE  got'[k] = Unit(k, ResponseUnits)
    <3>1. Len(got) \in Nat /\ (k \in 1..Len(got) \/ k = Len(got) + 1)
      BY <1>1, <1>3
    <3> QED
      BY <1>3, <1>4, <2>1, <3>1
  <2> QED
    BY <2>2
<1>7. ASSUME NEW k \in 1..Len(tocli')
      PROVE  tocli'[k] = Unit(Len(got') + k, ResponseUnits)
  <2>1. k + 1 \in 1..Len(tocli) /\ tocli'[k] = tocli[k + 1] /\ Len(got') + k = Len(got) + (k + 1)
    BY <1>1, <1>3
  <2> QED
    BY <1>4, <2>1
<1>8. Responses(a)'
  BY <1>4, <1>5, <1>6, <1>7 DEF Responses, ClientReceives
<1>9. /\ ~Ending' => Requests(a)'
      /\ Ending' /\ ~stopping' /\ faults' = 0 => Finished(a)'
  BY <1>5, Zenon DEF Account, Requests, SentUnit, Finished, Ending, ClientReceives
<1> QED
  BY <1>3, <1>8, <1>9 DEF Account

(* What the client sends goes behind all it has sent, and nothing is sent  *)
(* once the worker has ended the session of its own accord.                *)
LEMMA SendAccount ==
  ASSUME IInv, InOrder, NEW a \in Nat, Account(a), ClientSends \/ ClientSendsMalformed
  PROVE  Account(a)'
<1> DEFINE u == IF ClientSends THEN Unit(sent + 1, FrameUnits) ELSE BadUnit
<1>1. /\ tosrv' = Append(tosrv, u) /\ ~malformed /\ peer = "open"
      /\ sent' \in Nat /\ sent' >= sent
      /\ sent' = IF malformed' THEN sent ELSE sent + 1
      /\ UNCHANGED <<pc, input, output, stopping, tocli, peer, got, faults>>
  BY DEF IInv, Types, ClientSends, ClientSendsMalformed, MaySend
<1>2. /\ tosrv \in Seq(UnitType) /\ input \in Seq(UnitType) /\ sent \in Nat
      /\ a * FrameUnits \in Nat /\ a * FrameUnits <= sent
  BY SizeAssumption DEF IInv, Types, Account, Responses
<1>3. IF sent + 1 <= sent' THEN u = Unit(sent + 1, FrameUnits) ELSE u = BadUnit
  BY <1>2 DEF ClientSends, ClientSendsMalformed
<1>4. /\ Len(tosrv') = Len(tosrv) + 1 /\ tosrv'[Len(tosrv) + 1] = u
      /\ \A k \in 1..Len(tosrv) : tosrv'[k] = tosrv[k]
  BY <1>1, <1>2, AppendProperties
<1> HIDE DEF u
<1>5. Responses(a)'
  <2>1. /\ Responses(a) /\ output' = output /\ tocli' = tocli /\ got' = got /\ pc' = pc
        /\ a * FrameUnits <= sent'
    BY <1>1, <1>2, SMTT(30) DEF Account
  <2> QED
    BY <2>1, Zenon DEF Responses, Produced
<1>6. ASSUME ~Ending PROVE Requests(a)'
  <2>1. /\ Len(input) + Len(tosrv) = sent - a * FrameUnits
        /\ \A k \in 1..Len(input) : input[k] = SentUnit(a * FrameUnits + k, sent)
        /\ \A k \in 1..Len(tosrv) : tosrv[k] = SentUnit(a * FrameUnits + Len(input) + k, sent)
    <3>1. Requests(a) /\ ~malformed
      BY <1>1, <1>6, Zenon DEF Account
    <3>2. sent - a * FrameUnits \in Int
      BY <1>2
    <3> QED
      BY <3>1, <3>2 DEF Requests
  <2>2. /\ a * FrameUnits + Len(input) + (Len(tosrv) + 1) = sent + 1
        /\ Len(input) + Len(tosrv') = (sent' - a * FrameUnits) + (IF malformed' THEN 1 ELSE 0)
    <3> DEFINE base == a * FrameUnits
    <3>1. base \in Nat /\ Len(input) \in Nat /\ Len(tosrv) \in Nat
      BY <1>2
    <3>2. /\ Len(input) + Len(tosrv) = sent - base
          /\ sent \in Nat /\ sent' = IF malformed' THEN sent ELSE sent + 1
      BY <1>1, <1>2, <2>1, Zenon
    <3> HIDE DEF base
    <3>3. base + Len(input) + (Len(tosrv) + 1) = sent + 1
      BY <3>1, <3>2
    <3>4. Len(input) + (Len(tosrv) + 1) = (sent' - base) + (IF malformed' THEN 1 ELSE 0)
      <4>1. CASE malformed'
        BY <3>1, <3>2, <4>1
      <4>2. CASE ~malformed'
        BY <3>1, <3>2, <4>2
      <4> QED
        BY <4>1, <4>2
    <3> QED
      BY <1>4, <3>3, <3>4 DEF base
  <2>3. \A k \in 1..sent : SentUnit(k, sent) = SentUnit(k, sent')
    BY <1>1, <1>2 DEF SentUnit
  <2>4. u = SentUnit(sent + 1, sent')
    BY <1>1, <1>2, <1>3 DEF SentUnit
  <2>5. \A k \in 1..Len(input) : input[k] = SentUnit(a * FrameUnits + k, sent')
    BY <1>2, <2>1, <2>3
  <2>6. ASSUME NEW k \in 1..Len(tosrv')
        PROVE  tosrv'[k] = SentUnit(a * FrameUnits + Len(input) + k, sent')
    <3>1. CASE k <= Len(tosrv)
      <4>1. k \in 1..Len(tosrv) /\ a * FrameUnits + Len(input) + k \in 1..sent
        BY <1>2, <2>1, <3>1
      <4>2. tosrv'[k] = SentUnit(a * FrameUnits + Len(input) + k, sent)
        BY <1>4, <2>1, <4>1
      <4> QED
        BY <2>3, <4>1, <4>2
    <3>2. CASE k = Len(tosrv) + 1
      BY <1>4, <2>4, <2>2, <3>2, Zenon
    <3> QED
      BY <1>2, <1>4, <3>1, <3>2
  <2> QED
    BY <1>1, <2>5, <2>6, <2>2 DEF Requests
<1>7. Ending => stopping \/ faults /= 0
  BY <1>1 DEF Account, Finished
<1> QED
  BY <1>1, <1>5, <1>6, <1>7 DEF Account, Ending

(* The worker's steps that move no unit keep the account, provided that    *)
(* they end the session with nothing left to answer, or for a cause.       *)
LEMMA QuietStep ==
  ASSUME InOrder, ~Ending, pc' /= "closed", UNCHANGED <<input, output, wire, client>>,
         Waiting' => output = <<>> /\ (input /= <<>> => Head(input).part /= 0),
         \A a \in Nat : peer /= "gone" /\ Account(a) /\ Ending' /\ ~stopping' /\ faults' = 0
                          => Finished(a)
  PROVE  InOrder'
<1>1. ASSUME peer' /= "gone" PROVE \E a \in Nat : Account(a)'
  <2>1. peer /= "gone"
    BY <1>1 DEF client
  <2>2. PICK a \in Nat : Account(a)
    BY <2>1 DEF InOrder
  <2>3. Account(a)'
    BY <2>1, <2>2, AccountSame
  <2> QED
    BY <2>3
<1> QED
  BY <1>1 DEF InOrder, client

(* Every step keeps the account of the session. *)
LEMMA OrderStep == IInv /\ InOrder /\ [Next]_vars => InOrder'
<1> SUFFICES ASSUME IInv, InOrder, [Next]_vars PROVE InOrder'
  BY SMTT(30)
<1>0. CASE UNCHANGED vars
  BY <1>0, Zenon DEF vars, wire, client, InOrder, Waiting, Account, Responses, Requests, Finished,
              Ending, Produced
<1>1. CASE TestStop
  <2>1. /\ ~Ending /\ pc' /= "closed" /\ UNCHANGED <<input, output, wire, client>> /\ ~Waiting'
        /\ Ending' => stopping' \/ faults' /= 0
    BY <1>1 DEF TestStop, StopSeen, Ending, Waiting, Fault, IInv, Types
  <2> QED
    BY <2>1, QuietStep
<1>2. CASE ProcessRequest
  <2>1. /\ pc = "process" /\ ~Ending /\ pc' /= "closed"
        /\ UNCHANGED <<input, output, wire, client>>
        /\ Ending' => Drained /\ ParsedRequest = "INVALID"
    BY <1>2 DEF ProcessRequest, Ending
  <2>2. Waiting' => output = <<>> /\ (input /= <<>> => Head(input).part /= 0)
    BY <1>2 DEF ProcessRequest, Waiting, Drained, ParsedRequest
  <2>3. \A a \in Nat : Account(a) /\ Ending' => Finished(a)
    BY <2>1, InvalidFinished
  <2> QED
    BY <2>1, <2>2, <2>3, QuietStep
<1>3. CASE CommandEnds
  <2>1. pc = "command" /\ ~Ending /\ UNCHANGED <<wire, client>>
    BY <1>3 DEF CommandEnds, Ending
  <2>2. CASE pc' = "close" /\ Fault /\ UNCHANGED <<input, output>>
    <3>1. ~Waiting' /\ faults' /= 0
      BY <2>2 DEF Waiting, Fault, IInv, Types
    <3> QED
      BY <2>1, <2>2, <3>1, QuietStep
  <2>3. CASE /\ output' = output \o Response(Head(input).req)
             /\ input' = Consumed /\ pc' = "poll"
    <3>1. ASSUME peer' /= "gone" PROVE \E a \in Nat : Account(a)'
      <4>1. PICK a \in Nat : Account(a)
        BY <2>1, <3>1 DEF InOrder, client
      <4>2. Account(a + 1)'
        BY <2>1, <2>3, <4>1, CommandAccount
      <4> QED
        BY <4>2, a + 1 \in Nat
    <3>2. output' /= <<>>
      <4>1. input \in Seq(UnitType) /\ Len(input) > 0 /\ output \in Seq(UnitType)
        BY <2>1, SizeAssumption DEF IInv, Types, ShortInput
      <4>2. Head(input) \in UnitType
        BY <4>1
      <4>3. Head(input).req \in Nat
        BY <4>2 DEF UnitType
      <4>4. /\ Response(Head(input).req) \in Seq(UnitType)
            /\ Len(Response(Head(input).req)) > 0
        BY <4>3, ResponseProperties, Zenon
      <4> QED
        BY <2>3, <4>1, <4>4, ConcatProperties
    <3>3. ~Waiting'
      BY <2>3, <3>2 DEF Waiting
    <3> QED
      BY <2>1, <3>1, <3>3 DEF InOrder, client
  <2> QED
    BY <1>3, <2>2, <2>3 DEF CommandEnds
<1>4. CASE PollReturns
  <2>1. /\ pc = "poll" /\ pc' \in {"hangup", "dispatch"} /\ ~Ending /\ ~Ending'
        /\ UNCHANGED <<input, output, wire, client>>
    BY <1>4 DEF PollReturns, Ending
  <2>2. "POLLIN" \in revents' => output = <<>>
    BY <1>4 DEF PollReturns, Extra, Condition, Events
  <2>3. Waiting' => output = <<>> /\ (input /= <<>> => Head(input).part /= 0)
    BY <2>1, <2>2 DEF Waiting, InOrder
  <2> QED
    BY <2>1, <2>3, QuietStep
<1>5. CASE PollTimesOut
  <2>1. /\ ~Ending /\ pc' /= "closed" /\ UNCHANGED <<input, output, wire, client>> /\ ~Waiting'
        /\ Ending' => faults' /= 0
    BY <1>5 DEF PollTimesOut, Ending, Waiting, Fault, IInv, Types
  <2> QED
    BY <2>1, QuietStep
<1>6. CASE ReadClient
  <2> DEFINE n == Least(Least(Available, ReadUnits), Len(tosrv))
  <2>1. n \in 0..Len(tosrv)
    BY <1>6, SizeAssumption DEF ReadClient, Least, Available, IInv, Types
  <2>2. /\ pc = "dispatch" /\ tosrv' = Consume(tosrv, n)
        /\ \/ input' = input \o SubSeq(tosrv, 1, n) /\ pc' = "write" /\ NoFault
           \/ UNCHANGED input /\ pc' = "close" /\ Fault
        /\ UNCHANGED <<output, revents, stopping, tocli, client>>
    BY <1>6, Zenon DEF ReadClient
  <2> HIDE DEF n
  <2>3. ~Waiting' /\ ~Ending
    BY <2>2 DEF Waiting, Ending
  <2>4. ASSUME NEW a \in Nat, Account(a) PROVE Account(a)'
    <3>1. CASE input' = input \o SubSeq(tosrv, 1, n) /\ pc' = "write"
      BY <2>1, <2>2, <2>3, <2>4, <3>1, ReadAccount
    <3>2. CASE UNCHANGED input /\ pc' = "close" /\ Fault
      <4>1. Responses(a)'
        BY <2>2, <2>4, <3>2 DEF Account, Responses, Produced, client
      <4>2. Ending' /\ faults' /= 0
        BY <3>2 DEF Ending, Fault, IInv, Types
      <4> QED
        BY <4>1, <4>2 DEF Account
    <3> QED
      BY <2>2, <3>1, <3>2, Zenon
  <2> QED
    BY <2>2, <2>3, <2>4 DEF InOrder, client
<1>7. CASE ReadFails
  <2>1. /\ pc = "dispatch" /\ "POLLIN" \in revents /\ ~Ending /\ pc' /= "closed" /\ ~Waiting'
        /\ UNCHANGED <<input, output, wire, client>>
    BY <1>7 DEF ReadFails, AtEndOfFile, Ending, Waiting
  <2>2. Available /= 0
    BY <1>7, SizeAssumption DEF ReadFails, Available, IInv, Types, ShortInput
  <2>3. Ending' => \/ tosrv = <<>> /\ peer /= "open"
                   \/ peer = "gone" \/ faults' /= 0
    BY <1>7, <2>2 DEF ReadFails, Ending, Fault, IInv, Types
  <2>4. \A a \in Nat : peer /= "gone" /\ Account(a) /\ Ending' /\ faults' = 0 => Finished(a)
    BY <2>1, <2>3, EndOfFileFinished
  <2> QED
    BY <2>1, <2>4, QuietStep
<1>8. CASE WriteClient
  <2>1. CASE peer = "gone"
    BY <1>8, <2>1 DEF WriteClient, MayWrite, InOrder, Waiting, client
  <2>2. CASE peer /= "gone"
    <3> DEFINE n == Least(Room, Len(output))
    <3>1. n \in 0..Len(output)
      BY <1>8, <2>2, SizeAssumption DEF WriteClient, Least, Room, IInv, Types
    <3>2. /\ tocli' = tocli \o SubSeq(output, 1, n) /\ output' = Consume(output, n)
          /\ pc' = "hangup" /\ UNCHANGED <<input, tosrv, client>>
      BY <1>8, <2>2, Zenon DEF WriteClient, Unsent
    <3>3. ~Waiting' /\ ~Ending
      BY <1>8, <3>2 DEF Waiting, Ending, WriteClient, MayWrite
    <3> HIDE DEF n
    <3>4. ASSUME NEW a \in Nat, Account(a) PROVE Account(a)'
      BY <3>1, <3>2, <3>3, <3>4, WriteAccount
    <3> QED
      BY <2>2, <3>2, <3>3, <3>4 DEF InOrder, client
  <2> QED
    BY <2>1, <2>2
<1>9. CASE WriteFails
  <2>1. /\ ~Ending /\ pc' /= "closed" /\ UNCHANGED <<input, output, wire, client>> /\ ~Waiting'
        /\ Ending' => peer = "gone" \/ faults' /= 0
    BY <1>9 DEF WriteFails, MayWrite, Ending, Waiting, Fault, IInv, Types
  <2> QED
    BY <2>1, QuietStep
<1>10. CASE NothingToWrite
  <2>1. /\ ~Ending /\ UNCHANGED <<input, output, wire, client>> /\ ~Waiting'
        /\ ~Ending' /\ pc' /= "closed"
    BY <1>10 DEF NothingToWrite, MayWrite, Ending, Waiting
  <2> QED
    BY <2>1, QuietStep
<1>11. CASE CheckHangup
  <2>1. /\ ~Ending /\ pc' /= "closed" /\ UNCHANGED <<input, output, wire, client>> /\ ~Waiting'
        /\ Ending' => peer = "gone" \/ faults' /= 0
    BY <1>11 DEF CheckHangup, Ending, Waiting, IInv, Types, Reported
  <2> QED
    BY <2>1, QuietStep
<1>12. CASE Close
  <2>1. /\ pc = "close" /\ pc' = "closed" /\ output' = <<>>
        /\ UNCHANGED <<stopping, tocli, client, faults>>
    BY <1>12 DEF Close
  <2>2. Ending /\ Ending' /\ ~Waiting'
    BY <2>1 DEF Ending, Waiting
  <2>3. ASSUME NEW a \in Nat, Account(a) PROVE Account(a)'
    <3>1. Len(got) \in Nat /\ Len(tocli) \in Nat /\ Len(output) \in Nat /\ Len(output') = 0
      BY <2>1 DEF InOrder, IInv, Types
    <3>2. /\ Produced' <= Produced /\ (output = <<>> => Produced' = Produced)
          /\ Produced' \in Nat /\ Produced \in Nat
      BY <2>1, <3>1 DEF Produced, client
    <3>3. Responses(a)'
      <4>1. a * ResponseUnits \in Nat
        BY SizeAssumption
      <4>2. Produced' <= a * ResponseUnits
        BY <2>3, <3>2, <4>1 DEF Account, Responses
      <4> QED
        BY <2>1, <2>3, <3>1, <4>2 DEF Account, Responses, client
    <3>4. Ending' /\ ~stopping' /\ faults' = 0 => Finished(a)'
      BY <2>1, <2>2, <2>3, <3>2 DEF Account, Finished, client
    <3> QED
      BY <2>2, <3>3, <3>4 DEF Account
  <2> QED
    BY <2>1, <2>2, <2>3 DEF InOrder, client
<1>13. CASE RequestStop
  <2>1. ASSUME NEW a \in Nat, Account(a) PROVE Account(a)'
    BY <1>13, <2>1 DEF RequestStop, Account, Responses, Requests, Ending, Produced, wire, client
  <2> QED
    BY <1>13, <2>1 DEF RequestStop, InOrder, Waiting, client
<1>14. CASE ClientSends \/ ClientSendsMalformed
  <2>1. \A a \in Nat : Account(a) => Account(a)'
    BY <1>14, SendAccount
  <2>2. /\ UNCHANGED <<pc, input, output, revents, got, peer>>
        /\ malformed' => sent' % FrameUnits = 0
    BY <1>14 DEF ClientSends, ClientSendsMalformed, MaySend
  <2> QED
    BY <2>1, <2>2 DEF InOrder, Waiting
<1>15. CASE ClientHalfCloses
  <2>1. ASSUME NEW a \in Nat, Account(a) PROVE Account(a)'
    BY <1>15, <2>1 DEF ClientHalfCloses, Account, Responses, Requests, Finished, Ending, Produced,
                       wire
  <2> QED
    BY <1>15, <2>1 DEF ClientHalfCloses, InOrder, Waiting
<1>16. CASE ClientLeaves
  BY <1>16 DEF ClientLeaves, InOrder, Waiting
<1>17. CASE ClientReceives
  <2>1. peer /= "gone" /\ UNCHANGED <<pc, input, output, revents, sent, malformed>>
    BY <1>17 DEF ClientReceives
  <2>2. PICK a \in Nat : Account(a)
    BY <2>1 DEF InOrder
  <2>3. Account(a)' /\ got' \in Seq(UnitType)
    BY <1>17, <2>2, ReceiveAccount
  <2> QED
    BY <2>1, <2>3 DEF InOrder, Waiting
<1> QED
  BY <1>0, <1>1, <1>2, <1>3, <1>4, <1>5, <1>6, <1>7, <1>8, <1>9, <1>10, <1>11,
     <1>12, <1>13, <1>14, <1>15, <1>16, <1>17
  DEF Next, Worker

(* The account is kept throughout. *)
LEMMA OrderInvariant == Spec => []InOrder
<1>1. Init => InOrder
  <2> SUFFICES ASSUME Init PROVE InOrder
    OBVIOUS
  <2>1. Account(0)
    BY SizeAssumption DEF Init, Account, Responses, Requests, Ending, Produced
  <2> QED
    BY <2>1, SizeAssumption DEF Init, InOrder, Waiting
<1> QED
  BY <1>1, SessionInvariant, OrderStep, PTL DEF Spec

(* Whatever the sizes, with requests and responses cut anywhere by short   *)
(* reads and sends, the client gets the responses to its requests in       *)
(* order, whole and once.                                                  *)
THEOREM ResponsesInOrderAlways == Spec => []ResponsesInOrder
<1>1. ASSUME IInv, InOrder PROVE ResponsesInOrder
  <2> SUFFICES ASSUME peer /= "gone"
               PROVE  LET stream == Delivered \o output
                      IN  /\ \A k \in DOMAIN stream : stream[k] = Unit(k, ResponseUnits)
                          /\ Len(stream) <= (sent \div FrameUnits) * ResponseUnits
    BY DEF ResponsesInOrder
  <2>1. PICK a \in Nat : Account(a)
    BY <1>1 DEF InOrder
  <2>2. /\ got \in Seq(UnitType) /\ tocli \in Seq(UnitType) /\ output \in Seq(UnitType)
        /\ Len(got) \in Nat /\ Len(tocli) \in Nat /\ Len(output) \in Nat
    BY <1>1 DEF IInv, Types, InOrder
  <2>3. /\ Delivered \in Seq(UnitType) /\ Len(Delivered) = Len(got) + Len(tocli)
        /\ \A k \in 1..(Len(got) + Len(tocli)) :
             Delivered[k] = IF k <= Len(got) THEN got[k] ELSE tocli[k - Len(got)]
    BY <2>2, ConcatProperties, Zenon DEF Delivered
  <2> DEFINE stream == Delivered \o output
  <2>4. /\ stream \in Seq(UnitType) /\ Len(stream) = Len(Delivered) + Len(output)
        /\ \A k \in 1..(Len(Delivered) + Len(output)) :
             stream[k] = IF k <= Len(Delivered) THEN Delivered[k] ELSE output[k - Len(Delivered)]
    <3>1. Delivered \in Seq(UnitType)
      BY <2>3
    <3> QED
      BY <2>2, <3>1, ConcatProperties, Zenon
  <2> HIDE DEF stream
  <2>5. ASSUME NEW k \in DOMAIN stream PROVE stream[k] = Unit(k, ResponseUnits)
    <3>1. k \in 1..(Len(Delivered) + Len(output)) /\ k \in Nat
      BY <2>4
    <3>2. CASE k <= Len(got)
      <4>1. stream[k] = got[k] /\ k \in 1..Len(got)
        BY <2>2, <2>3, <2>4, <3>1, <3>2
      <4> QED
        BY <2>1, <4>1 DEF Account, Responses
    <3>3. CASE k > Len(got) /\ k <= Len(Delivered)
      <4>1. k - Len(got) \in 1..Len(tocli) /\ Len(got) + (k - Len(got)) = k
        BY <2>2, <2>3, <3>1, <3>3
      <4>2. stream[k] = tocli[k - Len(got)]
        BY <2>2, <2>3, <2>4, <3>1, <3>3
      <4>3. tocli[k - Len(got)] = Unit(Len(got) + (k - Len(got)), ResponseUnits)
        BY <2>1, <4>1 DEF Account, Responses
      <4> QED
        BY <4>1, <4>2, <4>3
    <3>4. CASE k > Len(Delivered)
      <4>1. /\ k - Len(Delivered) \in 1..Len(output)
            /\ Len(got) + Len(tocli) + (k - Len(Delivered)) = k
        BY <2>2, <2>3, <3>1, <3>4
      <4>2. stream[k] = output[k - Len(Delivered)]
        BY <2>2, <2>3, <2>4, <3>1, <3>4
      <4>3. output[k - Len(Delivered)]
              = Unit(Len(got) + Len(tocli) + (k - Len(Delivered)), ResponseUnits)
        BY <2>1, <4>1 DEF Account, Responses
      <4> QED
        BY <4>1, <4>2, <4>3
    <3> QED
      BY <2>2, <2>3, <3>1, <3>2, <3>3, <3>4
  <2>6. Len(stream) <= (sent \div FrameUnits) * ResponseUnits
    <3>1. Len(stream) = Produced
      BY <2>2, <2>3, <2>4 DEF Produced
    <3>2. Produced <= a * ResponseUnits /\ a * FrameUnits <= sent /\ Produced \in Nat
      BY <2>1, <2>2 DEF Account, Responses, Produced
    <3>3. a <= sent \div FrameUnits /\ sent \div FrameUnits \in Nat
      <4>1. sent \in Nat /\ FrameUnits \in Nat \ {0}
        BY <1>1, SizeAssumption DEF IInv, Types
      <4>2. a <= sent \div FrameUnits
        BY <3>2, <4>1, Quotient, Zenon
      <4>3. sent \div FrameUnits \in Nat
        BY <4>1
      <4> QED
        BY <4>2, <4>3
    <3>4. a * ResponseUnits <= (sent \div FrameUnits) * ResponseUnits
      BY <3>3, SizeAssumption, ProductMonotone
    <3>5. a * ResponseUnits \in Nat /\ (sent \div FrameUnits) * ResponseUnits \in Nat
      BY <3>3, SizeAssumption
    <3> QED
      BY <3>1, <3>2, <3>4, <3>5
  <2> QED
    BY <2>5, <2>6 DEF stream
<1> QED
  BY <1>1, SessionInvariant, OrderInvariant, PTL

(* Whatever the sizes and however many requests were in flight, a session  *)
(* that ends because its client stopped sending or sent something          *)
(* malformed has answered every request before that.                       *)
THEOREM AnsweredBeforeCloseAlways == Spec => []AnsweredBeforeClose
<1>1. ASSUME IInv, InOrder PROVE AnsweredBeforeClose
  <2> SUFFICES ASSUME pc = "closed", peer /= "gone", ~stopping, faults = 0
               PROVE  Len(Delivered) = (sent \div FrameUnits) * ResponseUnits
    BY DEF AnsweredBeforeClose
  <2>1. PICK a \in Nat : Account(a)
    BY <1>1 DEF InOrder
  <2>2. /\ output = <<>> /\ Produced = a * ResponseUnits /\ sent < (a + 1) * FrameUnits
        /\ a * FrameUnits <= sent
    BY <2>1 DEF Account, Ending, Finished, Responses
  <2>3. sent \div FrameUnits = a
    <3>1. sent \in Nat /\ FrameUnits \in Nat \ {0}
      BY <1>1, SizeAssumption DEF IInv, Types
    <3> QED
      BY <2>2, <3>1, Quotient, Zenon
  <2>4. Len(Delivered) = Produced
    <3>1. got \in Seq(UnitType) /\ tocli \in Seq(UnitType) /\ Len(output) = 0
      BY <1>1, <2>2 DEF IInv, Types, InOrder
    <3> QED
      BY <3>1, ConcatProperties DEF Delivered, Produced
  <2> QED
    BY <2>2, <2>3, <2>4
<1> QED
  BY <1>1, SessionInvariant, OrderInvariant, PTL

------------------------------------------------------------------------------
(***************************************************************************)
(* The byte buffer, of which a session has two: for every limit, every     *)
(* chunk and every SIZE_MAX it stays within its allocation and its limit   *)
(* and is the byte queue of buffer.h.                                      *)
(*                                                                         *)
(* TypeOK /\ CapacityBounded is not inductive: what wc_buffer_append       *)
(* checked before it called wc_buffer_grow must still hold when the        *)
(* reallocation returns, and the loop needs a capacity that is not 0.      *)
(***************************************************************************)
(* What wc_buffer_grow relies on: the check of its caller. *)
GrowInv ==
  call = "grow" =>
    /\ chunk \in Chunks
    /\ length + Len(chunk) <= max_size
    /\ new_capacity <= max_size

BufferInv == TypeOK /\ CapacityBounded /\ GrowInv

(* Arithmetic on size_t is exact up to SIZE_MAX. *)
LEMMA SizeTExact == ASSUME NEW n \in 0..SizeMax PROVE SizeT(n) = n
  BY CapacityAssumption DEF SizeT

(* The limit check of wc_buffer_append, and the sum it protects, do not    *)
(* wrap.                                                                   *)
LEMMA FitsExact ==
  ASSUME BufferInv, NEW bytes \in Seq(Byte)
  PROVE  /\ Fits(bytes) <=> length + Len(bytes) <= max_size
         /\ length + Len(bytes) <= max_size => Required(bytes) = length + Len(bytes)
  <1>1. /\ length \in Nat /\ max_size \in Nat /\ max_size <= SizeMax /\ length <= max_size
        /\ Len(bytes) \in Nat /\ SizeMax \in Nat /\ capacity \in Nat
    BY CapacityAssumption, LenProperties DEF BufferInv, TypeOK, CapacityBounded
  <1>2. SizeT(max_size - length) = max_size - length
    BY <1>1, SizeTExact
  <1>3. length + Len(bytes) <= max_size => SizeT(length + Len(bytes)) = length + Len(bytes)
    BY <1>1, SizeTExact
  <1> QED BY <1>1, <1>2, <1>3 DEF Fits, Required

(* What memcpy leaves in an allocation of the given size is bytes. *)
LEMMA CopiedType ==
  ASSUME NEW size \in Nat, NEW allocation \in [Offsets(size) -> Byte],
         NEW bytes \in Seq(Byte), length \in Nat, length + Len(bytes) <= size
  PROVE  Copied(allocation, size, bytes) \in [Offsets(size) -> Byte]
  <1>1. ASSUME NEW i \in Offsets(size)
        PROVE  (IF i < length \/ i >= length + Len(bytes) THEN allocation[i]
                ELSE bytes[i - length + 1]) \in Byte
    <2>1. i \in Int /\ Len(bytes) \in Nat
      BY LenProperties DEF Offsets
    <2>2. CASE i < length \/ i >= length + Len(bytes)
      BY <2>2
    <2>3. CASE ~(i < length \/ i >= length + Len(bytes))
      <3>1. i - length + 1 \in 1..Len(bytes)
        BY <2>1, <2>3
      <3>2. bytes[i - length + 1] \in Byte
        BY <3>1, ElementOfSeq
      <3> QED BY <2>3, <3>2
    <2> QED BY <2>2, <2>3
  <1> QED BY <1>1 DEF Copied

(* The capacity a doubling yields stays within the limit. *)
LEMMA DoubledBounded ==
  ASSUME max_size \in 0..SizeMax, new_capacity \in 0..SizeMax
  PROVE  Doubled \in 0..max_size
  <1>1. CASE new_capacity > max_size \div 2
    BY <1>1, CapacityAssumption DEF Doubled
  <1>2. CASE ~(new_capacity > max_size \div 2)
    <2>1. 2 * new_capacity \in 0..max_size
      BY <1>2, CapacityAssumption
    <2>2. SizeT(2 * new_capacity) = 2 * new_capacity
      BY <2>1, SizeTExact, CapacityAssumption
    <2> QED BY <1>2, <2>1, <2>2 DEF Doubled
  <1> QED BY <1>1, <1>2

(* A new buffer is within bounds. *)
LEMMA BufferStarts == BufferInit => BufferInv
  BY CapacityAssumption, ByteAssumption
  DEF BufferInit, BufferInv, TypeOK, CapacityBounded, GrowInv, NoAllocation, Offsets

(* An append that fits the allocation only raises the length. *)
LEMMA AppendInPlaceInv ==
  ASSUME BufferInv, NEW bytes \in Chunks, AppendInPlace(bytes) PROVE BufferInv'
  <1>0. bytes \in Seq(Byte) /\ Len(bytes) \in Nat
    BY ByteAssumption, LenProperties
  <1>1. Required(bytes) = length + Len(bytes) /\ length + Len(bytes) <= max_size
    BY <1>0, FitsExact DEF AppendInPlace
  <1>2. data' \in [Offsets(capacity) -> Byte]
    <2>1. capacity \in Nat /\ length \in Nat /\ data \in [Offsets(capacity) -> Byte]
      BY CapacityAssumption DEF BufferInv, TypeOK
    <2>2. length + Len(bytes) <= capacity
      BY <1>1 DEF AppendInPlace
    <2>3. Copied(data, capacity, bytes) \in [Offsets(capacity) -> Byte]
      BY <1>0, <2>1, <2>2, CopiedType
    <2> QED BY <2>3 DEF AppendInPlace
  <1>3. TypeOK'
    BY <1>0, <1>1, <1>2, CapacityAssumption DEF AppendInPlace, BufferInv, TypeOK
  <1>4. CapacityBounded'
    BY <1>1 DEF AppendInPlace, BufferInv, CapacityBounded
  <1>5. GrowInv'
    BY DEF AppendInPlace, GrowInv
  <1> QED BY <1>3, <1>4, <1>5 DEF BufferInv

(* An append that needs a larger allocation enters the growth loop with a  *)
(* capacity within the limit.                                              *)
LEMMA AppendGrowsInv ==
  ASSUME BufferInv, NEW bytes \in Chunks, AppendGrows(bytes) PROVE BufferInv'
  <1>0. bytes \in Seq(Byte) /\ Len(bytes) \in Nat
    BY ByteAssumption, LenProperties
  <1>1. length + Len(bytes) <= max_size
    BY <1>0, FitsExact DEF AppendGrows
  <1>2. new_capacity' \in 0..max_size
    BY CapacityAssumption DEF AppendGrows, FirstCapacity, BufferInv, TypeOK
  <1>3. TypeOK'
    BY <1>0, <1>2, CapacityAssumption DEF AppendGrows, buffer, BufferInv, TypeOK
  <1>4. CapacityBounded'
    BY DEF AppendGrows, buffer, BufferInv, CapacityBounded
  <1>5. GrowInv'
    BY <1>1, <1>2 DEF AppendGrows, buffer, GrowInv
  <1> QED BY <1>3, <1>4, <1>5 DEF BufferInv

(* A turn of the growth loop keeps the new capacity within the limit. *)
LEMMA GrowLoopInv == ASSUME BufferInv, GrowLoop PROVE BufferInv'
  <1>1. new_capacity' \in 0..max_size
    BY DoubledBounded DEF GrowLoop, BufferInv, TypeOK
  <1>2. TypeOK'
    BY <1>1, CapacityAssumption DEF GrowLoop, buffer, BufferInv, TypeOK
  <1>3. CapacityBounded'
    BY DEF GrowLoop, buffer, BufferInv, CapacityBounded
  <1>4. GrowInv'
    BY <1>1, CapacityAssumption DEF GrowLoop, buffer, BufferInv, TypeOK, GrowInv
  <1> QED BY <1>2, <1>3, <1>4 DEF BufferInv

(* The new allocation has the new capacity and holds the appended bytes. *)
LEMMA ReallocateInv == ASSUME BufferInv, Reallocate PROVE BufferInv'
  <1>0. chunk \in Seq(Byte) /\ Len(chunk) \in Nat
    BY LenProperties DEF BufferInv, TypeOK
  <1>1. Required(chunk) = length + Len(chunk) /\ length + Len(chunk) <= max_size
    BY <1>0, FitsExact DEF Reallocate, BufferInv, GrowInv
  <1>2. new_capacity \in Nat /\ capacity \in Nat /\ length \in Nat
    BY CapacityAssumption DEF BufferInv, TypeOK
  <1>3. data' \in [Offsets(new_capacity) -> Byte]
    <2>1. PICK junk \in Byte :
            data' = Copied([i \in Offsets(new_capacity) |->
                              IF i < capacity THEN data[i] ELSE junk],
                           new_capacity, chunk)
      BY DEF Reallocate
    <2>2. [i \in Offsets(new_capacity) |-> IF i < capacity THEN data[i] ELSE junk]
            \in [Offsets(new_capacity) -> Byte]
      BY <1>2 DEF Offsets, BufferInv, TypeOK
    <2>3. length + Len(chunk) <= new_capacity
      BY <1>1 DEF Reallocate
    <2> QED BY <1>0, <1>2, <2>1, <2>2, <2>3, CopiedType
  <1>4. TypeOK'
    BY <1>0, <1>1, <1>2, <1>3, CapacityAssumption DEF Reallocate, BufferInv, TypeOK
  <1>5. CapacityBounded'
    BY <1>1 DEF Reallocate, BufferInv, CapacityBounded, GrowInv
  <1>6. GrowInv'
    BY DEF Reallocate, GrowInv
  <1> QED BY <1>4, <1>5, <1>6 DEF BufferInv

(* Consuming lowers the length and leaves the capacity alone. *)
LEMMA ConsumeInv == ASSUME BufferInv, NEW n \in 1..length, ConsumeBytes(n) PROVE BufferInv'
  <1>1. capacity \in Nat /\ length \in Nat /\ n \in Nat
    BY CapacityAssumption DEF BufferInv, TypeOK
  <1>2. Moved(n) \in [Offsets(capacity) -> Byte]
    BY <1>1 DEF Moved, Offsets, BufferInv, TypeOK, CapacityBounded
  <1>3. TypeOK'
    BY <1>1, <1>2, CapacityAssumption DEF ConsumeBytes, BufferInv, TypeOK
  <1>4. CapacityBounded'
    BY <1>1 DEF ConsumeBytes, BufferInv, TypeOK, CapacityBounded
  <1>5. GrowInv'
    BY DEF ConsumeBytes, GrowInv
  <1> QED BY <1>3, <1>4, <1>5 DEF BufferInv

(* Every step preserves the invariant. *)
LEMMA BufferStep == ASSUME BufferInv, [BufferNext]_buffer_vars PROVE BufferInv'
  <1>1. CASE \E bytes \in Chunks : AppendInPlace(bytes)
    BY <1>1, AppendInPlaceInv
  <1>2. CASE \E bytes \in Chunks : AppendGrows(bytes)
    BY <1>2, AppendGrowsInv
  <1>3. CASE GrowLoop
    BY <1>3, GrowLoopInv
  <1>4. CASE Reallocate
    BY <1>4, ReallocateInv
  <1>5. CASE ReallocateFails
    BY <1>5, CapacityAssumption
    DEF ReallocateFails, buffer, BufferInv, TypeOK, CapacityBounded, GrowInv
  <1>6. CASE \E n \in 1..length : ConsumeBytes(n)
    BY <1>6, ConsumeInv
  <1>7. CASE Destroy \/ \E limit \in Limits : Initialize(limit)
    <2>1. NoAllocation \in [Offsets(0) -> Byte]
      BY DEF NoAllocation, Offsets
    <2>2. max_size' \in 0..SizeMax
      BY <1>7, CapacityAssumption DEF Destroy, Initialize
    <2>3. TypeOK'
      BY <1>7, <2>1, <2>2, CapacityAssumption DEF Destroy, Initialize, BufferInv, TypeOK
    <2>4. CapacityBounded'
      BY <1>7, <2>2, CapacityAssumption DEF Destroy, Initialize, CapacityBounded
    <2>5. GrowInv'
      BY <1>7 DEF Destroy, Initialize, GrowInv
    <2> QED BY <2>3, <2>4, <2>5 DEF BufferInv
  <1>8. CASE UNCHANGED buffer_vars
    BY <1>8 DEF buffer_vars, buffer, BufferInv, TypeOK, CapacityBounded, GrowInv, Offsets
  <1> QED
    BY <1>1, <1>2, <1>3, <1>4, <1>5, <1>6, <1>7, <1>8 DEF BufferNext, Grow

(* The inductive invariant holds throughout. *)
THEOREM BufferInvariant == BufferSpec => []BufferInv
  BY BufferStarts, BufferStep, PTL DEF BufferSpec

(* The allocation is as long as capacity says, the capacity never exceeds  *)
(* max_size and the length never the capacity, for every limit, whatever   *)
(* is appended and consumed: the safety part of GrowsWithinLimits.         *)
THEOREM BufferBounds == BufferSpec => [](TypeOK /\ CapacityBounded)
  BY BufferInvariant, PTL DEF BufferInv

------------------------------------------------------------------------------
(* The first bytes of an allocation are a sequence. *)
LEMMA AllocationPrefix ==
  ASSUME NEW cap \in Nat, NEW len \in Nat, len <= cap,
         NEW allocation \in [Offsets(cap) -> Byte]
  PROVE  /\ [i \in 1..len |-> allocation[i - 1]] \in Seq(Byte)
         /\ Len([i \in 1..len |-> allocation[i - 1]]) = len
  <1> DEFINE prefix == [i \in 1..len |-> allocation[i - 1]]
  <1>1. \A i \in 1..len : allocation[i - 1] \in Byte
    BY DEF Offsets
  <1>2. prefix \in [1..len -> Byte]
    BY <1>1
  <1> HIDE DEF prefix
  <1>3. prefix \in Seq(Byte) /\ Len(prefix) = len
    BY <1>2, LenProperties
  <1> QED BY <1>3 DEF prefix

(* What the buffer holds is a sequence of length bytes, before a step and  *)
(* after it.                                                               *)
LEMMA ContentsSeq ==
  ASSUME BufferInv
  PROVE  /\ Contents \in Seq(Byte) /\ Len(Contents) = length
         /\ \A i \in 1..length : Contents[i] = data[i - 1]
  <1>1. /\ length \in Nat /\ capacity \in Nat /\ length <= capacity
        /\ data \in [Offsets(capacity) -> Byte]
    BY CapacityAssumption DEF BufferInv, TypeOK, CapacityBounded
  <1>2. Contents \in Seq(Byte) /\ Len(Contents) = length
    BY <1>1, AllocationPrefix DEF Contents
  <1> QED BY <1>2, Zenon DEF Contents

(* The same of the state after a step. *)
LEMMA ContentsSeqNext ==
  ASSUME BufferInv'
  PROVE  Contents' \in Seq(Byte) /\ Len(Contents') = length'
  <1>0. TypeOK' /\ CapacityBounded'
    BY DEF BufferInv
  <1>1. /\ length' \in Nat /\ capacity' \in Nat /\ length' <= capacity'
        /\ data' \in [Offsets(capacity') -> Byte]
    <2>1. length' \in 0..SizeMax /\ capacity' \in 0..SizeMax
      BY <1>0 DEF TypeOK
    <2>2. data' \in [Offsets(capacity') -> Byte]
      BY <1>0 DEF TypeOK
    <2>3. length' <= capacity'
      BY <1>0 DEF CapacityBounded
    <2> QED BY <2>1, <2>2, <2>3, CapacityAssumption
  <1> DEFINE prefix == [i \in 1..length' |-> data'[i - 1]]
  <1>2. prefix \in Seq(Byte) /\ Len(prefix) = length'
    BY <1>1, AllocationPrefix, Zenon
  <1>3. Contents' = prefix
    BY DEF Contents
  <1> QED BY <1>2, <1>3, Zenon

(* memcpy behind the length appends, if the bytes before it are kept. *)
LEMMA CopiedAppends ==
  ASSUME BufferInv, BufferInv', NEW bytes \in Seq(Byte), NEW allocation,
         NEW size \in Nat, length + Len(bytes) <= size,
         \A i \in Offsets(length) : allocation[i] = data[i],
         data' = Copied(allocation, size, bytes), length' = length + Len(bytes)
  PROVE  Contents' = Contents \o bytes
  <1>1. length \in Nat /\ Len(bytes) \in Nat
    BY CapacityAssumption, LenProperties DEF BufferInv, TypeOK
  <1>2. /\ Contents \in Seq(Byte) /\ Len(Contents) = length
        /\ \A i \in 1..length : Contents[i] = data[i - 1]
    BY ContentsSeq
  <1>3. Contents' \in Seq(Byte) /\ Len(Contents') = length'
    BY ContentsSeqNext
  <1>4. ASSUME NEW i \in 1..(length + Len(bytes))
        PROVE  Contents'[i] = data'[i - 1]
    BY <1>4 DEF Contents
  <1>5. ASSUME NEW i \in 1..(length + Len(bytes))
        PROVE  Contents'[i] = (IF i <= length THEN Contents[i] ELSE bytes[i - length])
    <2>1. i - 1 \in Offsets(size) /\ i \in Nat
      BY <1>1 DEF Offsets
    <2>2. data'[i - 1] = (IF i - 1 < length \/ i - 1 >= length + Len(bytes)
                          THEN allocation[i - 1] ELSE bytes[i - 1 - length + 1])
      BY <2>1 DEF Copied
    <2>3. CASE i <= length
      <3>1. i - 1 \in Offsets(length)
        BY <1>1, <2>1, <2>3, SMTT(30) DEF Offsets
      <3> QED BY <1>1, <1>2, <1>4, <2>1, <2>2, <2>3, <3>1
    <2>4. CASE ~(i <= length)
      <3>1. i - 1 - length + 1 = i - length
        BY <1>1, <2>1
      <3> QED BY <1>1, <1>4, <2>1, <2>2, <2>4, <3>1
    <2> QED BY <2>3, <2>4
  <1>6. /\ Contents \o bytes \in Seq(Byte)
        /\ Len(Contents \o bytes) = length + Len(bytes)
        /\ \A i \in 1..(length + Len(bytes)) :
             (Contents \o bytes)[i] = (IF i <= length THEN Contents[i] ELSE bytes[i - length])
    BY <1>2, ConcatProperties, SMTT(30)
  <1> QED BY <1>1, <1>3, <1>5, <1>6, SeqEqual, SMTT(30)

(* memmove to the front drops the bytes that were consumed. *)
LEMMA MovedConsumes ==
  ASSUME BufferInv, BufferInv', NEW n \in 1..length, data' = Moved(n), length' = length - n
  PROVE  Contents' = SubSeq(Contents, n + 1, Len(Contents))
  <1>1. length \in Nat /\ n \in Nat /\ capacity \in Nat /\ length <= capacity
    BY CapacityAssumption DEF BufferInv, TypeOK, CapacityBounded
  <1>2. /\ Contents \in Seq(Byte) /\ Len(Contents) = length
        /\ \A i \in 1..length : Contents[i] = data[i - 1]
    BY ContentsSeq
  <1>3. Contents' \in Seq(Byte) /\ Len(Contents') = length - n
    BY ContentsSeqNext
  <1>4. ASSUME NEW i \in 1..(length - n)
        PROVE  Contents'[i] = Contents[n + i]
    <2>1. Contents'[i] = data'[i - 1]
      BY <1>4 DEF Contents
    <2>2. i - 1 \in Offsets(capacity) /\ i - 1 < length - n
      BY <1>1 DEF Offsets
    <2>3. data'[i - 1] = data[i - 1 + n]
      BY <2>2 DEF Moved
    <2>4. n + i \in 1..length /\ n + i - 1 = i - 1 + n
      BY <1>1
    <2> QED BY <1>2, <2>1, <2>3, <2>4
  <1> DEFINE rest == SubSeq(Contents, n + 1, length)
  <1>5. /\ rest \in Seq(Byte) /\ Len(rest) = length - n
        /\ \A i \in 1..(length - n) : rest[i] = Contents[n + i]
    BY <1>1, <1>2, SubSeqProperties
  <1> HIDE DEF rest
  <1>6. Contents' = rest
    BY <1>1, <1>3, <1>4, <1>5, SeqEqual
  <1> QED BY <1>2, <1>6 DEF rest

(* Every step of the buffer is a step of the byte queue, or changes        *)
(* nothing the caller sees.                                                *)
LEMMA BufferStepMaps ==
  ASSUME BufferInv, BufferInv', [BufferNext]_buffer_vars PROVE [Fifo!Next]_(Fifo!vars)
  <1>0. Len(Contents) = length /\ length \in Nat
    BY ContentsSeq, CapacityAssumption DEF BufferInv, TypeOK
  <1>1. ASSUME NEW bytes \in Chunks, AppendInPlace(bytes) PROVE Fifo!Put(bytes)
    <2>1. bytes \in Seq(Byte) /\ Len(bytes) \in Nat
      BY ByteAssumption, LenProperties
    <2>2. Required(bytes) = length + Len(bytes) /\ length + Len(bytes) <= max_size
      BY <1>1, <2>1, FitsExact DEF AppendInPlace
    <2>3. length + Len(bytes) <= capacity /\ capacity \in Nat
      BY <1>1, <2>2, CapacityAssumption DEF AppendInPlace, BufferInv, TypeOK
    <2>4. Contents' = Contents \o bytes
      BY <1>1, <2>1, <2>2, <2>3, CopiedAppends DEF AppendInPlace
    <2> QED BY <1>0, <1>1, <2>2, <2>4 DEF Fifo!Put, AppendInPlace
  <1>2. ASSUME Reallocate PROVE chunk \in Chunks /\ Fifo!Put(chunk)
    <2>1. chunk \in Seq(Byte) /\ Len(chunk) \in Nat /\ chunk \in Chunks
      BY <1>2, LenProperties DEF BufferInv, TypeOK, GrowInv, Reallocate
    <2>2. Required(chunk) = length + Len(chunk) /\ length + Len(chunk) <= max_size
      BY <1>2, <2>1, FitsExact DEF Reallocate, BufferInv, GrowInv
    <2>3. length + Len(chunk) <= new_capacity /\ new_capacity \in Nat
      BY <1>2, <2>2, CapacityAssumption DEF Reallocate, BufferInv, TypeOK
    <2>4. PICK junk \in Byte :
            data' = Copied([i \in Offsets(new_capacity) |->
                              IF i < capacity THEN data[i] ELSE junk],
                           new_capacity, chunk)
      BY <1>2 DEF Reallocate
    <2> DEFINE allocation == [i \in Offsets(new_capacity) |->
                                IF i < capacity THEN data[i] ELSE junk]
    <2>5. \A i \in Offsets(length) : allocation[i] = data[i]
      BY <1>0, <2>1, <2>3, CapacityAssumption DEF Offsets, BufferInv, TypeOK, CapacityBounded
    <2>6. data' = Copied(allocation, new_capacity, chunk)
      BY <2>4
    <2> HIDE DEF allocation
    <2>7. length' = length + Len(chunk)
      BY <1>2, <2>2, SMTT(30) DEF Reallocate
    <2>8. Contents' = Contents \o chunk
      BY <2>1, <2>3, <2>5, <2>6, <2>7, CopiedAppends
    <2> QED BY <1>0, <1>2, <2>1, <2>2, <2>8 DEF Fifo!Put, Reallocate
  <1>3. ASSUME NEW n \in 1..length, ConsumeBytes(n) PROVE Fifo!Consume(n)
    <2>1. Contents' = SubSeq(Contents, n + 1, Len(Contents))
      BY <1>3, MovedConsumes DEF ConsumeBytes
    <2> QED BY <1>0, <1>3, <2>1 DEF Fifo!Consume, ConsumeBytes
  <1>4. ASSUME Destroy \/ \E limit \in Limits : Initialize(limit) PROVE Fifo!Reset
    <2>1. Contents' \in Seq(Byte) /\ Len(Contents') = length' /\ length' = 0
      BY <1>4, ContentsSeqNext DEF Destroy, Initialize
    <2>2. Contents' = <<>>
      BY <2>1, EmptySeq
    <2> QED BY <1>4, <2>2 DEF Fifo!Reset, Destroy, Initialize
  <1>5. ASSUME UNCHANGED buffer PROVE UNCHANGED Fifo!vars
    BY <1>5 DEF buffer, Fifo!vars, Contents
  <1>6. CASE \E bytes \in Chunks : AppendInPlace(bytes)
    BY <1>1, <1>6 DEF Fifo!Next
  <1>7. CASE (\E bytes \in Chunks : AppendGrows(bytes)) \/ GrowLoop \/ ReallocateFails
                \/ UNCHANGED buffer_vars
    <2>1. UNCHANGED buffer
      BY <1>7 DEF AppendGrows, GrowLoop, ReallocateFails, buffer_vars
    <2> QED BY <1>5, <2>1
  <1>8. CASE Reallocate
    BY <1>2, <1>8 DEF Fifo!Next
  <1>9. CASE \E n \in 1..length : ConsumeBytes(n)
    BY <1>0, <1>3, <1>9 DEF Fifo!Next
  <1>10. CASE Destroy \/ \E limit \in Limits : Initialize(limit)
    BY <1>4, <1>10 DEF Fifo!Next
  <1> QED BY <1>6, <1>7, <1>8, <1>9, <1>10 DEF BufferNext, Grow

(* The buffer implements the byte queue of its header file: growing,       *)
(* moving and stale bytes never show, for every limit and every chunk.     *)
THEOREM BufferIsByteFifo == BufferSpec => IsByteFifo
  <1>1. BufferInit => Fifo!Init
    <2>1. ASSUME BufferInit PROVE Contents = <<>>
      <3>1. Contents \in Seq(Byte) /\ Len(Contents) = 0
        BY <2>1, BufferStarts, ContentsSeq DEF BufferInit
      <3> QED BY <3>1, EmptySeq
    <2> QED BY <2>1 DEF BufferInit, Fifo!Init
  <1>2. BufferInv /\ BufferInv' /\ [BufferNext]_buffer_vars => [Fifo!Next]_(Fifo!vars)
    BY BufferStepMaps
  <1> QED BY <1>1, <1>2, BufferInvariant, PTL DEF BufferSpec, IsByteFifo, Fifo!Spec
==============================================================================
