------------------------- MODULE ServerUdsInvariant --------------------------
(***************************************************************************)
(* The inductive invariant of ServerUds, what the proofs that it is        *)
(* inductive share (facts about sequences, what a step need not touch),    *)
(* and the steps that only move control, that move requests and responses  *)
(* and that admit a client. The last part is about the streams of one      *)
(* connection, for ServerUdsOrder.                                         *)
(*                                                                         *)
(* That a queued request is answered to the connection that sent it is not *)
(* inductive: it rests on who owns a descriptor (DescriptorsOwned), on     *)
(* what a socket and an input buffer contain (SentByPeer,                  *)
(* BufferedForSender), and on the slot that a call works on being in use   *)
(* (SlotInUse).                                                            *)
(***************************************************************************)
EXTENDS ServerUds, SequenceTheorems, TLAPS

(* A call that reads, parses, writes or removes works on a slot in use. *)
SlotInUse ==
  pc \in {"read", "parse", "write", "remove"} => client_fd[at] /= -1

(* The units in a socket were sent by the client at its other end. *)
SentByPeer == \A c \in Conns : \A i \in DOMAIN tosrv[c] : tosrv[c][i].conn = c

(* The input buffer of a slot holds units of the slot's connection only. *)
BufferedForSender ==
  \A s \in Slots : client_fd[s] /= -1 =>
    \A i \in DOMAIN input[s] : input[s][i].conn = file[client_fd[s]]

(* DescriptorsOwned in the three parts the provers work with. *)
Injective ==
  \A s, t \in Slots : client_fd[s] /= -1 /\ client_fd[s] = client_fd[t] => s = t
HeldOpen == \A s \in Slots : client_fd[s] /= -1 => file[client_fd[s]] /= NoConn
OpenHeld == \A f \in Fds : file[f] /= NoConn => \E s \in Slots : client_fd[s] = f
Owned == Injective /\ HeldOpen /\ OpenHeld

IInv ==
  TypeOK /\ Owned /\ SlotInUse /\ SentByPeer /\ BufferedForSender
  /\ QueuedForSender /\ QueueBounded

------------------------------------------------------------------------------
(* Lemmas about sequences. *)

(* Removing one queue entry keeps the others, in their order. *)
LEMMA UnlinkProperties ==
  ASSUME NEW S, NEW q \in Seq(S), NEW i \in DOMAIN q
  PROVE  /\ Unlink(q, i) \in Seq(S)
         /\ Len(Unlink(q, i)) = Len(q) - 1
         /\ \A j \in DOMAIN Unlink(q, i) :
              Unlink(q, i)[j] = IF j < i THEN q[j] ELSE q[j + 1]
<1> DEFINE a == SubSeq(q, 1, i - 1)
           b == SubSeq(q, i + 1, Len(q))
<1>1. a \in Seq(S) /\ Len(a) = i - 1 /\ \A j \in 1..(i - 1) : a[j] = q[j]
  BY SubSeqProperties
<1>2. /\ b \in Seq(S) /\ Len(b) = Len(q) - i
      /\ \A j \in 1..(Len(q) - i) : b[j] = q[j + i]
  BY SubSeqProperties
<1>3. Unlink(q, i) = a \o b
  BY DEF Unlink
<1> HIDE DEF a, b
<1>4. QED
  BY <1>1, <1>2, <1>3, ConcatProperties, SMTT(30)

(* wc_buffer_consume leaves the rest of the buffer. *)
LEMMA ConsumeProperties ==
  ASSUME NEW S, NEW q \in Seq(S), NEW n \in 0..Len(q)
  PROVE  /\ Consume(q, n) \in Seq(S)
         /\ Len(Consume(q, n)) = Len(q) - n
         /\ \A j \in 1..(Len(q) - n) : Consume(q, n)[j] = q[j + n]
  BY SubSeqProperties DEF Consume

(* A prefix of a sequence. *)
LEMMA PrefixProperties ==
  ASSUME NEW S, NEW q \in Seq(S), NEW n \in 0..Len(q)
  PROVE  /\ SubSeq(q, 1, n) \in Seq(S)
         /\ Len(SubSeq(q, 1, n)) = n
         /\ \A j \in 1..n : SubSeq(q, 1, n)[j] = q[j]
  BY SubSeqProperties

(* Appending adds one element and keeps the others. *)
LEMMA AppendElements ==
  ASSUME NEW S, NEW q \in Seq(S), NEW e \in S
  PROVE  /\ Append(q, e) \in Seq(S)
         /\ \A i \in DOMAIN Append(q, e) :
              \/ i \in DOMAIN q /\ Append(q, e)[i] = q[i]
              \/ Append(q, e)[i] = e
  BY AppendProperties

(* -1 is not a descriptor. *)
LEMMA DescriptorNumber == \A f \in Fds : f /= -1
  BY FdAssumption

(* A response is a sequence of units. *)
LEMMA ResponseType ==
  ASSUME NEW r \in RequestType
  PROVE  Response(r) \in Seq(UnitType) /\ Len(Response(r)) = ResponseUnits
<1>1. Response(r) \in [1..ResponseUnits -> UnitType]
  BY SizeAssumption DEF Response, RequestType, UnitType
<1>2. QED
  BY <1>1, SizeAssumption

(* The units a client sends are units. *)
LEMMA UnitIsUnit ==
  ASSUME NEW c \in Conns, NEW k \in Nat \ {0}, NEW size \in Nat \ {0}
  PROVE  Unit(c, k, size) \in UnitType /\ Unit(c, k, size).conn = c
<1>1. (k - 1) \div size \in Nat /\ (k - 1) % size \in Nat
  OBVIOUS
<1>2. QED
  BY <1>1 DEF Unit, UnitType

------------------------------------------------------------------------------
(* DescriptorsOwned says what its three parts say. *)
LEMMA OwnedEquivalent ==
  ASSUME TypeOK
  PROVE  Owned <=> DescriptorsOwned
<1>1. ASSUME Owned PROVE DescriptorsOwned
  <2> SUFFICES ASSUME NEW f \in Fds
               PROVE  IF file[f] = NoConn THEN FindClient(f) = {}
                      ELSE \E s \in Slots : FindClient(f) = {s}
    BY DEF DescriptorsOwned
  <2>1. f /= -1
    BY FdAssumption
  <2>2. QED
    BY <1>1, <2>1 DEF Owned, Injective, HeldOpen, OpenHeld, FindClient
<1>2. ASSUME DescriptorsOwned PROVE Owned
  <2>1. ASSUME NEW s \in Slots, NEW t \in Slots,
               client_fd[s] /= -1, client_fd[s] = client_fd[t]
        PROVE  s = t
    <3>1. s \in FindClient(client_fd[s]) /\ t \in FindClient(client_fd[s])
      BY <2>1 DEF FindClient
    <3>2. client_fd[s] \in Fds
      BY <2>1 DEF TypeOK, TableTypes
    <3>3. QED
      BY <1>2, <3>1, <3>2 DEF DescriptorsOwned
  <2>2. HeldOpen
    BY <1>2 DEF DescriptorsOwned, HeldOpen, FindClient, TypeOK, TableTypes
  <2>3. OpenHeld
    BY <1>2 DEF DescriptorsOwned, OpenHeld, FindClient
  <2>4. QED
    BY <2>1, <2>2, <2>3 DEF Owned, Injective
<1>3. QED
  BY <1>1, <1>2

------------------------------------------------------------------------------
(* What a step need not touch.                                             *)

(* Who owns a descriptor depends on the table and the open descriptors.    *)
LEMMA OwnedFrame ==
  ASSUME IInv, UNCHANGED <<client_fd, file>>
  PROVE  Owned'
  BY DEF IInv, Owned, Injective, HeldOpen, OpenHeld

(* What is queued for whom depends on these and the queue.                  *)
LEMMA QueueFrame ==
  ASSUME IInv, UNCHANGED <<client_fd, file, queue>>
  PROVE  QueuedForSender' /\ QueueBounded'
  BY DEF IInv, QueuedForSender, QueueBounded, FindClient

(* What is buffered for whom depends on these and the input buffers.       *)
LEMMA BufferFrame ==
  ASSUME IInv, UNCHANGED <<client_fd, file, input>>
  PROVE  BufferedForSender'
  BY DEF IInv, BufferedForSender

(* What a socket contains depends on nothing else.                         *)
LEMMA SocketFrame ==
  ASSUME IInv, UNCHANGED tosrv
  PROVE  SentByPeer'
  BY DEF IInv, SentByPeer

(* The slot a call works on stays in use while the call goes on.           *)
LEMMA SlotFrame ==
  ASSUME IInv, UNCHANGED <<pc, at, client_fd>>
  PROVE  SlotInUse'
  BY DEF IInv, SlotInUse

(* A step that leaves the table, the queue and what is to be read alone    *)
(* preserves everything but the types and the slot in use.                 *)
LEMMA Frame ==
  ASSUME IInv, TypeOK', SlotInUse',
         UNCHANGED <<client_fd, input, queue, file, tosrv>>
  PROVE  IInv'
  BY OwnedFrame, QueueFrame, BufferFrame, SocketFrame DEF IInv

(* Control keeps its types when a step leaves it alone. *)
LEMMA ControlSame ==
  ASSUME TypeOK, UNCHANGED <<pc, caller, at, life, revents, faults>>
  PROVE  ControlTypes'
  BY DEF TypeOK, ControlTypes, life

(* So do the client table and the queue. *)
LEMMA TableSame ==
  ASSUME TypeOK, UNCHANGED <<table, queue>>
  PROVE  TableTypes'
  BY DEF TypeOK, TableTypes, table

(* So do the descriptors and the sockets. *)
LEMMA KernelSame ==
  ASSUME TypeOK, UNCHANGED kernel
  PROVE  KernelTypes'
  BY DEF TypeOK, KernelTypes, kernel

(* So do the clients' ends. *)
LEMMA ClientSame ==
  ASSUME TypeOK, UNCHANGED ends
  PROVE  ClientTypes'
  BY DEF TypeOK, ClientTypes, ends

(* The same for a step that only changes control. *)
LEMMA ControlFrame ==
  ASSUME IInv, ControlTypes', SlotInUse', UNCHANGED <<table, queue, kernel, ends>>
  PROVE  IInv'
<1>1. TypeOK
  BY DEF IInv
<1>2. TableTypes'
  BY <1>1, TableSame
<1>3. KernelTypes' /\ ClientTypes'
  BY <1>1, KernelSame, ClientSame
<1>4. QED
  BY <1>2, <1>3, Frame DEF TypeOK, table, kernel

(* Handled events are cleared from revents. *)
LEMMA ClearRevents ==
  ASSUME TypeOK, NEW d \in 0..MaxClients
  PROVE  [revents EXCEPT ![d] = {}] \in [0..MaxClients -> SUBSET {"IN", "OUT", "HUP"}]
  BY DEF TypeOK, ControlTypes

(* Calling wc_uds_remove_client on a slot keeps the locals in their types. *)
LEMMA RemoveClientTypes ==
  ASSUME TypeOK, NEW s \in Slots, NEW from \in {"process", "dispatch", "closing"},
         RemoveClient(s, from)
  PROVE  /\ pc' = "remove" /\ caller' = from /\ at' \in Slots
         /\ revents' \in [0..MaxClients -> SUBSET {"IN", "OUT", "HUP"}]
<1>1. s \in 0..MaxClients
  BY SizeAssumption DEF Slots
<1>2. [revents EXCEPT ![s] = {}] \in [0..MaxClients -> SUBSET {"IN", "OUT", "HUP"}]
  BY <1>1, ClearRevents
<1>3. QED
  BY <1>2 DEF RemoveClient

(* The steps that only move the program counter and its locals. *)
ControlStep ==
  \/ TestStop \/ EnterPoll \/ PollReturns \/ PollFails
  \/ DispatchClient \/ DispatchEnds \/ ReadWouldBlock \/ ReadFails
  \/ ParseNeedsMore \/ EnqueueFails \/ WriteFails \/ WriteEnds
  \/ AcceptReturns \/ CloseAllClients \/ OpenListener \/ Signal

(* They preserve the invariant. *)
LEMMA ControlSteps ==
  ASSUME IInv, ControlStep
  PROVE  IInv'
<1> USE DEF life, table, kernel, ends, Fault, NoFault, Locations
<1>0. TypeOK /\ SlotInUse
  BY DEF IInv
<1>1. CASE TestStop
  <2>1. ControlTypes'
    BY <1>0, <1>1 DEF TypeOK, ControlTypes, TestStop
  <2>2. SlotInUse'
    BY <1>0, <1>1 DEF SlotInUse, TestStop
  <2>3. QED
    BY <1>1, <2>1, <2>2, ControlFrame DEF TestStop
<1>2. CASE EnterPoll
  <2>1. ControlTypes'
    BY <1>0, <1>2 DEF TypeOK, ControlTypes, EnterPoll
  <2>2. SlotInUse'
    BY <1>0, <1>2 DEF SlotInUse, EnterPoll
  <2>3. QED
    BY <1>2, <2>1, <2>2, ControlFrame DEF EnterPoll
<1>3. CASE PollReturns
  <2>1. ControlTypes'
    <3>1. ASSUME NEW d \in 0..MaxClients PROVE Revents(d) \subseteq {"IN", "OUT", "HUP"}
      BY DEF Revents, Events, Condition
    <3>2. QED
      BY <1>0, <1>3, <3>1 DEF TypeOK, ControlTypes, PollReturns
  <2>2. SlotInUse'
    BY <1>0, <1>3 DEF SlotInUse, PollReturns
  <2>3. QED
    BY <1>3, <2>1, <2>2, ControlFrame DEF PollReturns
<1>4. CASE PollFails
  <2>1. ControlTypes'
    BY <1>0, <1>4, SizeAssumption DEF TypeOK, ControlTypes, PollFails
  <2>2. SlotInUse'
    BY <1>0, <1>4 DEF SlotInUse, PollFails
  <2>3. QED
    BY <1>4, <2>1, <2>2, ControlFrame DEF PollFails
<1>5. CASE DispatchClient
  <2>1. ControlTypes'
    BY <1>0, <1>5 DEF TypeOK, ControlTypes, DispatchClient, First
  <2>2. SlotInUse'
    BY <1>0, <1>5 DEF SlotInUse, DispatchClient, First
  <2>3. QED
    BY <1>5, <2>1, <2>2, ControlFrame DEF DispatchClient
<1>6. CASE DispatchEnds
  <2>1. ControlTypes'
    BY <1>0, <1>6 DEF TypeOK, ControlTypes, DispatchEnds
  <2>2. SlotInUse'
    BY <1>0, <1>6 DEF SlotInUse, DispatchEnds
  <2>3. QED
    BY <1>6, <2>1, <2>2, ControlFrame DEF DispatchEnds
<1>7. CASE ReadWouldBlock
  <2>1. ControlTypes'
    BY <1>0, <1>7 DEF TypeOK, ControlTypes, ReadWouldBlock
  <2>2. SlotInUse'
    BY <1>0, <1>7 DEF SlotInUse, ReadWouldBlock
  <2>3. QED
    BY <1>7, <2>1, <2>2, ControlFrame DEF ReadWouldBlock
<1>8. CASE ReadFails
  <2>1. ControlTypes'
    BY <1>0, <1>8, RemoveClientTypes, SizeAssumption DEF TypeOK, ControlTypes, ReadFails
  <2>2. SlotInUse'
    BY <1>0, <1>8 DEF SlotInUse, ReadFails, RemoveClient
  <2>3. QED
    BY <1>8, <2>1, <2>2, ControlFrame DEF ReadFails
<1>9. CASE ParseNeedsMore
  <2>1. ControlTypes'
    BY <1>0, <1>9 DEF TypeOK, ControlTypes, ParseNeedsMore
  <2>2. SlotInUse'
    BY <1>0, <1>9 DEF SlotInUse, ParseNeedsMore
  <2>3. QED
    BY <1>9, <2>1, <2>2, ControlFrame DEF ParseNeedsMore
<1>10. CASE EnqueueFails
  <2>1. ControlTypes'
    BY <1>0, <1>10, RemoveClientTypes, SizeAssumption DEF TypeOK, ControlTypes, EnqueueFails
  <2>2. SlotInUse'
    BY <1>0, <1>10 DEF SlotInUse, EnqueueFails, RemoveClient
  <2>3. QED
    BY <1>10, <2>1, <2>2, ControlFrame DEF EnqueueFails
<1>11. CASE WriteFails
  <2>1. ControlTypes'
    BY <1>0, <1>11, RemoveClientTypes, SizeAssumption DEF TypeOK, ControlTypes, WriteFails
  <2>2. SlotInUse'
    BY <1>0, <1>11 DEF SlotInUse, WriteFails, Writing, RemoveClient
  <2>3. QED
    BY <1>11, <2>1, <2>2, ControlFrame DEF WriteFails
<1>12. CASE WriteEnds
  <2>1. ControlTypes'
    <3>1. CASE "HUP" \in revents[at]
      BY <1>0, <1>12, <3>1, RemoveClientTypes DEF TypeOK, ControlTypes, WriteEnds
    <3>2. CASE "HUP" \notin revents[at]
      <4>1. revents' \in [0..MaxClients -> SUBSET {"IN", "OUT", "HUP"}]
        BY <1>0, <1>12, <3>2, ClearRevents, SizeAssumption, Zenon
        DEF TypeOK, ControlTypes, WriteEnds, Slots
      <4>2. QED
        BY <1>0, <1>12, <3>2, <4>1, SizeAssumption
        DEF TypeOK, ControlTypes, WriteEnds, EndCall, Slots
    <3>3. QED
      BY <3>1, <3>2
  <2>2. SlotInUse'
    BY <1>0, <1>12 DEF SlotInUse, WriteEnds, RemoveClient, EndCall
  <2>3. QED
    BY <1>12, <2>1, <2>2, ControlFrame DEF WriteEnds
<1>13. CASE AcceptReturns
  <2>1. ControlTypes'
    <3>1. revents' \in [0..MaxClients -> SUBSET {"IN", "OUT", "HUP"}]
      BY <1>0, <1>13, ClearRevents, SizeAssumption DEF AcceptReturns
    <3>2. faults' \in 0..MaxFaults
      BY <1>0, <1>13, SizeAssumption DEF TypeOK, ControlTypes, AcceptReturns
    <3>3. QED
      BY <1>0, <1>13, <3>1, <3>2 DEF TypeOK, ControlTypes, AcceptReturns
  <2>2. SlotInUse'
    BY <1>0, <1>13 DEF SlotInUse, AcceptReturns
  <2>3. QED
    BY <1>13, <2>1, <2>2, ControlFrame DEF AcceptReturns
<1>14. CASE CloseAllClients
  <2>1. ControlTypes'
    BY <1>0, <1>14, RemoveClientTypes DEF TypeOK, ControlTypes, CloseAllClients, First
  <2>2. SlotInUse'
    BY <1>0, <1>14 DEF SlotInUse, CloseAllClients, RemoveClient, First
  <2>3. QED
    BY <1>14, <2>1, <2>2, ControlFrame DEF CloseAllClients
<1>15. CASE OpenListener
  <2>1. ControlTypes'
    <3>1. /\ pc' \in Locations /\ result' \in {0, -1} /\ path' \in BOOLEAN
          /\ listener' \in {"none", "open", "closed"} /\ faults' \in 0..MaxFaults
      <4>1. path' \in BOOLEAN
        BY <1>0, <1>15, Zenon DEF TypeOK, ControlTypes, OpenListener
      <4>2. pc' \in Locations /\ listener' \in {"none", "open", "closed"}
        BY <1>15 DEF OpenListener
      <4>3. result' \in {0, -1}
        BY <1>0, <1>15 DEF TypeOK, ControlTypes, OpenListener
      <4>4. faults' \in 0..MaxFaults
        BY <1>0, <1>15, SizeAssumption DEF TypeOK, ControlTypes, OpenListener
      <4>5. QED
        BY <4>1, <4>2, <4>3, <4>4
    <3>2. QED
      BY <1>0, <1>15, <3>1 DEF TypeOK, ControlTypes, OpenListener
  <2>2. SlotInUse'
    BY <1>0, <1>15 DEF SlotInUse, OpenListener
  <2>3. QED
    BY <1>15, <2>1, <2>2, ControlFrame DEF OpenListener
<1>16. CASE Signal
  <2>1. ControlTypes'
    BY <1>0, <1>16 DEF TypeOK, ControlTypes, Signal
  <2>2. SlotInUse'
    BY <1>0, <1>16 DEF SlotInUse, Signal
  <2>3. QED
    BY <1>16, <2>1, <2>2, ControlFrame DEF Signal
<1>17. QED
  BY <1>1, <1>2, <1>3, <1>4, <1>5, <1>6, <1>7, <1>8, <1>9, <1>10, <1>11,
     <1>12, <1>13, <1>14, <1>15, <1>16
  DEF ControlStep

(* What the step lemmas below take apart: the types of the variables. *)
LEMMA ConnInUse ==
  ASSUME IInv, pc \in {"read", "parse", "write", "remove"}
  PROVE  /\ at \in Slots /\ client_fd[at] \in Fds
         /\ file[client_fd[at]] \in Conns /\ Conn \in Conns
  BY DEF IInv, TypeOK, ControlTypes, TableTypes, KernelTypes, SlotInUse, Owned, HeldOpen, Conn

------------------------------------------------------------------------------
(* The steps that move requests and responses, and the one that admits a   *)
(* client, preserve the invariant.                                         *)

(* wc_uds_process_queue runs the head of the queue. *)
LEMMA ProcessQueueStep ==
  ASSUME IInv, ProcessQueue
  PROVE  IInv'
<1> USE DEF life, table, kernel, ends
<1>0. TypeOK
  BY DEF IInv
<1>1. /\ queue \in Seq(RequestType) /\ queue /= <<>>
      /\ queue' = Tail(queue) /\ Head(queue) \in RequestType
  BY <1>0 DEF TypeOK, TableTypes, ProcessQueue
<1>2. /\ queue' \in Seq(RequestType) /\ Len(queue') = Len(queue) - 1
      /\ \A i \in DOMAIN queue' : i + 1 \in DOMAIN queue /\ queue'[i] = queue[i + 1]
  BY <1>1, HeadTailProperties
<1>3. /\ TypeOK'
      /\ SlotInUse'
  <2>1. CASE First(FindClient(Head(queue).fd)) = {}
    <3>1. TypeOK'
      BY <1>0, <1>2, <2>1, ControlSame, KernelSame, ClientSame, SMTT(30)
      DEF TypeOK, TableTypes, ProcessQueue, NoFault
    <3>2. SlotInUse'
      BY <2>1, SlotFrame DEF ProcessQueue
    <3>3. QED
      BY <3>1, <3>2
  <2>2. CASE First(FindClient(Head(queue).fd)) /= {}
    <3>1. PICK s \in First(FindClient(Head(queue).fd)) :
            \/ /\ output' = [output EXCEPT ![s] = @ \o Response(Head(queue))]
               /\ NoFault /\ UNCHANGED <<pc, caller, at, revents>>
            \/ /\ IF HasRoom(s) THEN Fault ELSE NoFault
               /\ RemoveClient(s, "process") /\ UNCHANGED output
      BY <2>2, Zenon DEF ProcessQueue
    <3>2. s \in Slots /\ client_fd[s] = Head(queue).fd /\ client_fd[s] /= -1
      BY <1>1, FdAssumption DEF First, FindClient, RequestType
    <3>3. UNCHANGED <<life, client_fd, input, kernel, ends>>
      BY DEF ProcessQueue
    <3>4. CASE /\ output' = [output EXCEPT ![s] = @ \o Response(Head(queue))]
               /\ NoFault /\ UNCHANGED <<pc, caller, at, revents>>
      <4>1. output[s] \o Response(Head(queue)) \in Seq(UnitType)
        BY <1>0, <1>1, <3>2, ResponseType, ConcatProperties DEF TypeOK, TableTypes
      <4>2. output' \in [Slots -> Seq(UnitType)]
        BY <1>0, <3>2, <3>4, <4>1, SMTT(30) DEF TypeOK, TableTypes
      <4>3. TypeOK'
        BY <1>0, <1>2, <3>3, <3>4, <4>2, ControlSame, KernelSame, ClientSame, Zenon
        DEF TypeOK, TableTypes, NoFault
      <4>4. QED
        BY <3>3, <3>4, <4>3 DEF IInv, SlotInUse
    <3>5. CASE /\ IF HasRoom(s) THEN Fault ELSE NoFault
               /\ RemoveClient(s, "process") /\ UNCHANGED output
      <4>1. faults' \in 0..MaxFaults
        BY <1>0, <3>5, SizeAssumption DEF TypeOK, ControlTypes, Fault, NoFault
      <4>2. /\ pc' = "remove" /\ caller' = "process" /\ at' \in Slots
            /\ revents' \in [0..MaxClients -> SUBSET {"IN", "OUT", "HUP"}]
        BY <1>0, <3>2, <3>5, RemoveClientTypes
      <4>3. TypeOK'
        BY <1>0, <1>2, <3>3, <3>5, <4>1, <4>2, KernelSame, ClientSame
        DEF TypeOK, ControlTypes, TableTypes, Locations
      <4>4. SlotInUse'
        BY <3>2, <3>3, <3>5 DEF SlotInUse, RemoveClient
      <4>5. QED
        BY <4>3, <4>4
    <3>6. QED
      BY <3>1, <3>4, <3>5, Zenon
  <2>3. QED
    BY <2>1, <2>2
<1>4. UNCHANGED <<client_fd, input, file, tosrv>>
  BY DEF ProcessQueue
<1>5. Owned' /\ SentByPeer' /\ BufferedForSender'
  BY <1>4, OwnedFrame, SocketFrame, BufferFrame
<1>6. QueuedForSender' /\ QueueBounded'
  BY <1>1, <1>2, <1>4, SizeAssumption
  DEF IInv, QueuedForSender, QueueBounded, FindClient
<1>7. QED
  BY <1>3, <1>5, <1>6 DEF IInv

(* wc_uds_read_client reads and wc_buffer_append stores what was read. *)
LEMMA ReadClientStep ==
  ASSUME IInv, ReadClient
  PROVE  IInv'
<1> USE DEF life, table, kernel, ends
<1> DEFINE n == Smallest(Len(tosrv[Conn]), Smallest(Available, ReadUnits))
           c == Conn
<1>0. TypeOK /\ pc = "read"
  BY DEF IInv, ReadClient
<1>1. /\ at \in Slots /\ client_fd[at] \in Fds /\ c \in Conns
      /\ c = file[client_fd[at]] /\ client_fd[at] /= -1
  BY <1>0, ConnInUse, FdAssumption DEF Conn
<1>2. tosrv[c] \in Seq(UnitType) /\ input[at] \in Seq(UnitType)
  BY <1>0, <1>1 DEF TypeOK, TableTypes, KernelTypes
<1>3. n \in 1..Len(tosrv[c])
  BY <1>2, SizeAssumption DEF ReadClient, Smallest, Available
<1> HIDE DEF n
<1> DEFINE chunk == SubSeq(tosrv[c], 1, n)
           rest == SubSeq(tosrv[c], n + 1, Len(tosrv[c]))
<1>4. /\ chunk \in Seq(UnitType) /\ Len(chunk) = n
      /\ \A j \in 1..n : chunk[j] = tosrv[c][j]
  BY <1>2, <1>3, PrefixProperties
<1>5. /\ rest \in Seq(UnitType) /\ Len(rest) = Len(tosrv[c]) - n
      /\ \A j \in DOMAIN rest : rest[j] = tosrv[c][j + n]
  BY <1>2, <1>3, SubSeqProperties
<1>6. /\ input' = [input EXCEPT ![at] = @ \o chunk]
      /\ tosrv' = [tosrv EXCEPT ![c] = rest]
      /\ pc' = "parse"
      /\ UNCHANGED <<caller, at, life, client_fd, output, queue, revents, file,
                     sock, backlog, tocli, ends, faults>>
  BY DEF ReadClient, n
<1> HIDE DEF chunk, rest, c
<1>7. /\ input[at] \o chunk \in Seq(UnitType)
      /\ \A j \in DOMAIN (input[at] \o chunk) :
           \/ j \in DOMAIN input[at] /\ (input[at] \o chunk)[j] = input[at][j]
           \/ \E k \in 1..n : (input[at] \o chunk)[j] = chunk[k]
  BY <1>2, <1>4, ConcatProperties, SMTT(30)
<1>8. TypeOK'
  <2>1. input' \in [Slots -> Seq(UnitType)] /\ tosrv' \in [Conns -> Seq(UnitType)]
    BY <1>0, <1>1, <1>5, <1>6, <1>7 DEF TypeOK, TableTypes, KernelTypes
  <2>2. QED
    BY <1>0, <1>6, <2>1, ClientSame
    DEF TypeOK, ControlTypes, TableTypes, KernelTypes, Locations
<1>9. SentByPeer'
  <2> SUFFICES ASSUME NEW d \in Conns, NEW j \in DOMAIN tosrv'[d]
               PROVE  tosrv'[d][j].conn = d
    BY DEF SentByPeer
  <2>1. CASE d = c
    <3>1. tosrv'[d] = rest
      BY <1>0, <1>6, <2>1, SMTT(30) DEF TypeOK, KernelTypes
    <3>2. rest[j] = tosrv[c][j + n] /\ j + n \in DOMAIN tosrv[c]
      BY <1>2, <1>3, <1>5, <3>1, SMTT(30)
    <3>3. QED
      BY <1>1, <2>1, <3>1, <3>2 DEF IInv, SentByPeer
  <2>2. CASE d /= c
    BY <1>0, <1>6, <2>2, Zenon DEF IInv, SentByPeer, TypeOK, KernelTypes
  <2>3. QED
    BY <2>1, <2>2
<1>10. BufferedForSender'
  <2> SUFFICES ASSUME NEW s \in Slots, client_fd[s] /= -1, NEW j \in DOMAIN input'[s]
               PROVE  input'[s][j].conn = file[client_fd[s]]
    BY <1>6 DEF BufferedForSender
  <2>1. CASE s = at
    <3>1. input'[s] = input[at] \o chunk
      BY <1>0, <1>6, <2>1 DEF TypeOK, TableTypes
    <3>2. CASE j \in DOMAIN input[at] /\ input'[s][j] = input[at][j]
      BY <1>1, <2>1, <3>2 DEF IInv, BufferedForSender
    <3>3. ASSUME NEW k \in 1..n, input'[s][j] = chunk[k]
          PROVE  input'[s][j].conn = file[client_fd[s]]
      <4>1. k \in DOMAIN tosrv[c] /\ chunk[k] = tosrv[c][k]
        BY <1>2, <1>3, <1>4
      <4>2. QED
        BY <1>1, <2>1, <3>3, <4>1 DEF IInv, SentByPeer
    <3>4. QED
      BY <1>7, <3>1, <3>2, <3>3
  <2>2. CASE s /= at
    BY <1>0, <1>6, <2>2 DEF IInv, BufferedForSender, TypeOK, TableTypes
  <2>3. QED
    BY <2>1, <2>2
<1>11. Owned' /\ QueuedForSender' /\ QueueBounded' /\ SlotInUse'
  BY <1>1, <1>6, OwnedFrame, QueueFrame DEF SlotInUse
<1>12. QED
  BY <1>8, <1>9, <1>10, <1>11 DEF IInv

(* wc_uds_enqueue_complete_requests queues a complete message. *)
LEMMA EnqueueRequestStep ==
  ASSUME IInv, EnqueueRequest
  PROVE  IInv'
<1> USE DEF life, table, kernel, ends
<1> DEFINE r == [fd |-> client_fd[at], conn |-> Head(input[at]).conn,
                 req |-> Head(input[at]).req]
<1>0. TypeOK /\ pc = "parse"
  BY DEF IInv, EnqueueRequest, TakeRequest
<1>1. at \in Slots /\ client_fd[at] \in Fds /\ client_fd[at] /= -1
  BY <1>0, ConnInUse, FdAssumption
<1>2. /\ queue \in Seq(RequestType) /\ input[at] \in Seq(UnitType)
      /\ Len(input[at]) >= FrameUnits /\ input[at] /= <<>>
  BY <1>0, <1>1, SizeAssumption
  DEF TypeOK, TableTypes, EnqueueRequest, TakeRequest, ParseResult
<1>3. 1 \in DOMAIN input[at] /\ Head(input[at]) = input[at][1]
  BY <1>2
<1>4. Head(input[at]).conn = file[client_fd[at]]
  BY <1>1, <1>3 DEF IInv, BufferedForSender
<1>5. r \in RequestType
  <2>1. Head(input[at]) \in UnitType
    BY <1>2, <1>3
  <2>2. Head(input[at]).conn \in Conns /\ Head(input[at]).req \in Nat
    BY <2>1 DEF UnitType
  <2>3. QED
    BY <1>1, <2>2 DEF RequestType
<1>6. /\ queue' = Append(queue, r) /\ Len(queue) < MaxQueued
      /\ input' = [input EXCEPT ![at] = Consume(@, FrameUnits)]
      /\ pc' = "parse"
      /\ UNCHANGED <<caller, at, life, client_fd, output, revents, kernel, ends,
                     faults>>
  BY <1>2, SizeAssumption DEF EnqueueRequest, TakeRequest, QueueFull
<1>7. /\ Consume(input[at], FrameUnits) \in Seq(UnitType)
      /\ \A j \in DOMAIN Consume(input[at], FrameUnits) :
           /\ j + FrameUnits \in DOMAIN input[at]
           /\ Consume(input[at], FrameUnits)[j] = input[at][j + FrameUnits]
  <2>1. FrameUnits \in 0..Len(input[at])
    BY <1>2, SizeAssumption
  <2>2. /\ Consume(input[at], FrameUnits) \in Seq(UnitType)
        /\ Len(Consume(input[at], FrameUnits)) = Len(input[at]) - FrameUnits
        /\ \A j \in 1..(Len(input[at]) - FrameUnits) :
             Consume(input[at], FrameUnits)[j] = input[at][j + FrameUnits]
    BY <1>2, <2>1, ConsumeProperties, Zenon
  <2> DEFINE rest == Consume(input[at], FrameUnits)
  <2> HIDE DEF rest
  <2>3. rest \in Seq(UnitType) /\ Len(rest) = Len(input[at]) - FrameUnits
    BY <2>2 DEF rest
  <2>4. ASSUME NEW j \in DOMAIN rest
        PROVE  j + FrameUnits \in DOMAIN input[at] /\ j \in 1..(Len(input[at]) - FrameUnits)
    BY <1>2, <2>3, SizeAssumption
  <2>5. QED
    BY <2>2, <2>3, <2>4 DEF rest
<1>8. r.fd = client_fd[at] /\ r.conn = file[client_fd[at]]
  BY <1>4
<1> HIDE DEF r
<1>9. /\ queue' \in Seq(RequestType) /\ Len(queue') = Len(queue) + 1
      /\ \A i \in DOMAIN queue' :
           \/ i \in DOMAIN queue /\ queue'[i] = queue[i]
           \/ queue'[i] = r
  BY <1>2, <1>5, <1>6, AppendProperties, SMTT(30)
<1>10. TypeOK'
  <2>1. input' \in [Slots -> Seq(UnitType)]
    BY <1>0, <1>1, <1>6, <1>7 DEF TypeOK, TableTypes
  <2>2. QED
    BY <1>0, <1>6, <1>9, <2>1, KernelSame, ClientSame
    DEF TypeOK, ControlTypes, TableTypes, Locations
<1>11. BufferedForSender'
  <2> SUFFICES ASSUME NEW s \in Slots, client_fd[s] /= -1, NEW j \in DOMAIN input'[s]
               PROVE  input'[s][j].conn = file[client_fd[s]]
    BY <1>6, Zenon DEF BufferedForSender
  <2>1. CASE s = at
    <3>1. input'[s] = Consume(input[at], FrameUnits)
      BY <1>0, <1>6, <2>1, SMTT(30) DEF TypeOK, TableTypes
    <3>2. QED
      BY <1>1, <1>7, <2>1, <3>1, SMTT(30) DEF IInv, BufferedForSender
  <2>2. CASE s /= at
    BY <1>0, <1>6, <2>2 DEF IInv, BufferedForSender, TypeOK, TableTypes
  <2>3. QED
    BY <2>1, <2>2
<1>12. QueuedForSender'
  <2> SUFFICES ASSUME NEW i \in DOMAIN queue'
               PROVE  /\ FindClient(queue'[i].fd) /= {}
                      /\ file[queue'[i].fd] = queue'[i].conn
    BY <1>6 DEF QueuedForSender, FindClient
  <2>1. CASE i \in DOMAIN queue /\ queue'[i] = queue[i]
    BY <2>1 DEF IInv, QueuedForSender
  <2>2. CASE queue'[i] = r
    BY <1>1, <1>8, <2>2 DEF FindClient
  <2>3. QED
    BY <1>9, <2>1, <2>2
<1>13. QueueBounded'
  BY <1>2, <1>6, <1>9, SizeAssumption DEF QueueBounded
<1>14. Owned' /\ SentByPeer' /\ SlotInUse'
  BY <1>1, <1>6, OwnedFrame, SocketFrame DEF SlotInUse
<1>15. QED
  BY <1>10, <1>11, <1>12, <1>13, <1>14 DEF IInv

(* wc_uds_write_client sends a part of the pending output. *)
LEMMA WriteClientStep ==
  ASSUME IInv, WriteClient
  PROVE  IInv'
<1> USE DEF life, table, kernel, ends
<1> DEFINE n == Smallest(Len(output[at]), Room)
           c == Conn
<1>0. TypeOK /\ pc = "write"
  BY DEF IInv, WriteClient, Writing
<1>1. at \in Slots /\ c \in Conns /\ client_fd[at] /= -1
  BY <1>0, ConnInUse, FdAssumption
<1>2. output[at] \in Seq(UnitType) /\ tocli[c] \in Seq(UnitType)
  BY <1>0, <1>1 DEF TypeOK, TableTypes, KernelTypes
<1>3. n \in 1..Len(output[at])
  BY <1>2, SizeAssumption DEF WriteClient, Smallest, Room
<1> HIDE DEF n
<1>4. /\ SubSeq(output[at], 1, n) \in Seq(UnitType)
      /\ Consume(output[at], n) \in Seq(UnitType)
  <2>1. n \in 0..Len(output[at])
    BY <1>2, <1>3
  <2>2. QED
    BY <1>2, <2>1, PrefixProperties, ConsumeProperties, Zenon
<1>5. tocli[c] \o SubSeq(output[at], 1, n) \in Seq(UnitType)
  BY <1>2, <1>4, ConcatProperties
<1>6. /\ tocli' = [tocli EXCEPT ![c] = @ \o SubSeq(output[at], 1, n)]
      /\ output' = [output EXCEPT ![at] = Consume(@, n)]
      /\ UNCHANGED <<pc, caller, at, life, client_fd, input, queue, revents,
                     file, sock, backlog, tosrv, ends, faults>>
  BY DEF WriteClient, n
<1> HIDE DEF c
<1>7. TypeOK'
  <2>1. tocli' \in [Conns -> Seq(UnitType)] /\ output' \in [Slots -> Seq(UnitType)]
    BY <1>0, <1>1, <1>4, <1>5, <1>6 DEF TypeOK, TableTypes, KernelTypes
  <2>2. QED
    BY <1>0, <1>6, <2>1, ControlSame, ClientSame
    DEF TypeOK, TableTypes, KernelTypes
<1>8. SlotInUse'
  BY <1>1, <1>6 DEF SlotInUse
<1>9. QED
  BY <1>6, <1>7, <1>8, Frame

(* wc_uds_accept_clients puts a connection on an unused descriptor into a  *)
(* free slot, with empty buffers.                                          *)
LEMMA AcceptClientStep ==
  ASSUME IInv, AcceptClient
  PROVE  IInv'
<1> USE DEF life, table, kernel, ends
<1>0. TypeOK /\ pc = "accept"
  BY DEF IInv, AcceptClient
<1>1. PICK s \in First({t \in Slots : client_fd[t] = -1}), f \in First(FreeFds) :
        /\ client_fd' = [client_fd EXCEPT ![s] = f]
        /\ input' = [input EXCEPT ![s] = <<>>]
        /\ output' = [output EXCEPT ![s] = <<>>]
        /\ file' = [file EXCEPT ![f] = Head(backlog)]
        /\ sock' = [sock EXCEPT ![Head(backlog)] = "open"]
  BY Zenon DEF AcceptClient
<1>2. /\ backlog /= <<>> /\ backlog' = Tail(backlog)
      /\ UNCHANGED <<pc, caller, at, life, queue, revents, tosrv, tocli, ends,
                     faults>>
  BY DEF AcceptClient
<1>3. s \in Slots /\ client_fd[s] = -1 /\ f \in Fds /\ file[f] = NoConn /\ f /= -1
  BY FdAssumption DEF First, FreeFds
<1>4. Head(backlog) \in Conns /\ Tail(backlog) \in Seq(Conns)
  BY <1>0, <1>2, HeadTailProperties DEF TypeOK, KernelTypes
<1>5. \A t \in Slots : client_fd[t] /= f
  BY <1>3 DEF IInv, Owned, HeldOpen
<1>6. /\ client_fd' \in [Slots -> Fds \cup {-1}]
      /\ file' \in [Fds -> Conns \cup {NoConn}]
      /\ \A t \in Slots : client_fd'[t] = IF t = s THEN f ELSE client_fd[t]
      /\ \A g \in Fds : file'[g] = IF g = f THEN Head(backlog) ELSE file[g]
      /\ \A t \in Slots : input'[t] = IF t = s THEN <<>> ELSE input[t]
  BY <1>0, <1>1, <1>3, <1>4, Zenon DEF TypeOK, TableTypes, KernelTypes
<1>7. TypeOK'
  <2>1. /\ input' \in [Slots -> Seq(UnitType)] /\ output' \in [Slots -> Seq(UnitType)]
        /\ sock' \in [Conns -> {"none", "backlog", "open", "closed"}]
    BY <1>0, <1>1, <1>3, <1>4 DEF TypeOK, TableTypes, KernelTypes
  <2>2. QED
    BY <1>0, <1>2, <1>4, <1>6, <2>1, ControlSame, ClientSame, Zenon
    DEF TypeOK, TableTypes, KernelTypes
<1>8. Owned'
  <2>1. Injective'
    BY <1>5, <1>6 DEF IInv, Owned, Injective
  <2>2. HeldOpen'
    <3> SUFFICES ASSUME NEW t \in Slots, client_fd'[t] /= -1
                 PROVE  file'[client_fd'[t]] /= NoConn
      BY DEF HeldOpen
    <3>1. CASE t = s
      BY <1>3, <1>4, <1>6, <3>1, ConnAssumption
    <3>2. CASE t /= s
      <4>1. client_fd'[t] = client_fd[t] /\ client_fd[t] \in Fds /\ client_fd[t] /= f
        BY <1>0, <1>5, <1>6, <3>2 DEF TypeOK, TableTypes
      <4>2. QED
        BY <1>6, <4>1, FdAssumption DEF IInv, Owned, HeldOpen
    <3>3. QED
      BY <3>1, <3>2
  <2>3. OpenHeld'
    <3> SUFFICES ASSUME NEW g \in Fds, file'[g] /= NoConn
                 PROVE  \E t \in Slots : client_fd'[t] = g
      BY DEF OpenHeld
    <3>1. CASE g = f
      BY <1>3, <1>6, <3>1, Zenon
    <3>2. CASE g /= f
      <4>1. PICK t \in Slots : client_fd[t] = g
        BY <1>6, <3>2 DEF IInv, Owned, OpenHeld
      <4>2. t /= s
        BY <1>3, <4>1, FdAssumption
      <4>3. QED
        BY <1>6, <4>1, <4>2
    <3>3. QED
      BY <3>1, <3>2
  <2>4. QED
    BY <2>1, <2>2, <2>3, SMTT(30) DEF Owned
<1>9. SlotInUse' /\ SentByPeer' /\ QueueBounded'
  BY <1>0, <1>2, Zenon DEF IInv, SlotInUse, SentByPeer, QueueBounded
<1>10. BufferedForSender'
  <2> SUFFICES ASSUME NEW t \in Slots, client_fd'[t] /= -1, NEW j \in DOMAIN input'[t]
               PROVE  input'[t][j].conn = file'[client_fd'[t]]
    BY DEF BufferedForSender
  <2>1. t /= s
    BY <1>6
  <2>2. file'[client_fd'[t]] = file[client_fd[t]]
    BY <1>0, <1>5, <1>6, <2>1, SMTT(30) DEF TypeOK, TableTypes
  <2>3. QED
    BY <1>6, <2>1, <2>2 DEF IInv, BufferedForSender
<1>11. QueuedForSender'
  <2> SUFFICES ASSUME NEW i \in DOMAIN queue
               PROVE  /\ \E t \in Slots : client_fd'[t] = queue[i].fd
                      /\ file'[queue[i].fd] = queue[i].conn
    BY <1>2 DEF QueuedForSender, FindClient
  <2>1. PICK t \in Slots : client_fd[t] = queue[i].fd
    BY DEF IInv, QueuedForSender, FindClient
  <2>2. queue[i].fd \in Fds
    <3>1. queue[i] \in RequestType
      BY <1>0 DEF TypeOK, TableTypes
    <3>2. QED
      BY <3>1 DEF RequestType
  <2>3. t /= s /\ queue[i].fd /= f
    <3>1. queue[i].fd /= -1
      BY <2>2, DescriptorNumber, Zenon
    <3>2. QED
      BY <1>3, <1>5, <2>1, <3>1, Zenon
  <2>4. QED
    BY <1>6, <2>1, <2>2, <2>3, Zenon DEF IInv, QueuedForSender
<1>12. QED
  BY <1>7, <1>8, <1>9, <1>10, <1>11 DEF IInv

------------------------------------------------------------------------------
(* The streams of a connection are cut in pieces: the requests lie in the  *)
(* socket and in the input buffer, then as entries in the queue; the       *)
(* responses in the output buffer, in the socket and at the client.        *)

(* All the units client c writes when it has written n of them (and a      *)
(* malformed header after those, if it did), and all the units it may get. *)
RequestUnits(c, n) ==
  [k \in Nat |-> IF k <= n THEN Unit(c, k, FrameUnits) ELSE BadUnit(c)]
AnswerUnits(c) == [k \in Nat |-> Unit(c, k, ResponseUnits)]

(* q is what follows the first "from" elements of the stream f. *)
Piece(q, from, f) == \A k \in 1..Len(q) : q[k] = f[from + k]

(* a responses were produced for c; those not in g (at the client) or t    *)
(* (in the socket) are in the output buffer o.                             *)
Answered(c, g, t, o, a) ==
  /\ Piece(o, Len(g) + Len(t), AnswerUnits(c))
  /\ Len(g) + Len(t) + Len(o) = a * ResponseUnits

(* The queue q holds the requests a + 1 to b of c, each once, in order. *)
Pending(c, q, a, b) ==
  /\ a <= b
  /\ \A i \in 1..Len(q) : q[i].conn = c => q[i].req \in (a + 1)..b
  /\ \A i, j \in 1..Len(q) : i < j /\ q[i].conn = c /\ q[j].conn = c => q[i].req < q[j].req
  /\ \A r \in (a + 1)..b : \E i \in 1..Len(q) : q[i].conn = c /\ q[i].req = r

(* b requests of c were parsed; the rest of the n units it wrote, and its  *)
(* malformed header m, are in the input buffer i and in the socket t.      *)
Incoming(c, i, t, n, m, b) ==
  /\ b * FrameUnits <= n
  /\ Piece(i, b * FrameUnits, RequestUnits(c, n))
  /\ Piece(t, b * FrameUnits + Len(i), RequestUnits(c, n))
  /\ b * FrameUnits + Len(i) + Len(t) = IF m THEN n + 1 ELSE n
  /\ m => n % FrameUnits = 0

------------------------------------------------------------------------------
(* Arithmetic. *)

(* Products grow with their first factor. *)
LEMMA ProductMonotone ==
  ASSUME NEW a \in Nat, NEW b \in Nat, NEW n \in Nat, a <= b
  PROVE  a * n <= b * n
<1>1. b = a + (b - a) /\ b - a \in Nat
  OBVIOUS
<1>2. b * n = a * n + (b - a) * n /\ (b - a) * n >= 0
  BY <1>1
<1> QED
  BY <1>2

(* The quotient and the remainder of a number, and no other, give it back. *)
LEMMA Quotient ==
  ASSUME NEW x \in Nat, NEW n \in Nat \ {0}, NEW a \in Nat, a * n <= x
  PROVE  /\ a <= x \div n
         /\ x < (a + 1) * n => x \div n = a /\ x % n = x - a * n
<1> DEFINE q == x \div n
<1>1. q \in Nat /\ x = (q * n) + (x % n) /\ x % n \in 0..(n - 1)
  OBVIOUS
<1> HIDE DEF q
<1>2. (q + 1) * n = q * n + n
  BY <1>1
<1>3. ASSUME a > q PROVE FALSE
  BY <1>1, <1>2, <1>3, ProductMonotone, q + 1 <= a, q + 1 \in Nat
<1>4. ASSUME x < (a + 1) * n, a < q PROVE FALSE
  BY <1>1, <1>4, ProductMonotone, a + 1 <= q, a + 1 \in Nat
<1> QED
  BY <1>1, <1>3, <1>4 DEF q

(* The quotient of a number, multiplied back, does not exceed it. *)
LEMMA QuotientBelow ==
  ASSUME NEW x \in Nat, NEW n \in Nat \ {0}
  PROVE  x \div n \in Nat /\ (x \div n) * n <= x
<1> DEFINE q == x \div n
<1>1. q \in Nat /\ x = (q * n) + (x % n) /\ x % n \in 0..(n - 1)
  OBVIOUS
<1> HIDE DEF q
<1>2. q * n \in Nat
  BY <1>1
<1>3. q * n <= x
  BY <1>1, <1>2
<1> QED
  BY <1>1, <1>3 DEF q

(* The units of the request or response that follows a whole ones. *)
LEMMA UnitOfNext ==
  ASSUME NEW c, NEW a \in Nat, NEW n \in Nat \ {0}, NEW p \in 1..n
  PROVE  Unit(c, a * n + p, n) = [conn |-> c, req |-> a + 1, part |-> p]
<1>1. a * n \in Nat /\ (a + 1) * n = a * n + n
  OBVIOUS
<1>2. ((a * n + p) - 1) \div n = a /\ ((a * n + p) - 1) % n = p - 1
  BY <1>1, Quotient, (a * n + p) - 1 \in Nat
<1> QED
  BY <1>2 DEF Unit

(* Whole requests, more than a of them, are at least a + 1. *)
LEMMA OneMore ==
  ASSUME NEW x \in Nat, NEW n \in Nat \ {0}, NEW a \in Nat, x % n = 0, a * n < x
  PROVE  (a + 1) * n <= x
<1>1. a * n \in Nat /\ (a + 1) * n \in Nat
  OBVIOUS
<1>2. a * n <= x
  BY <1>1
<1>3. x < (a + 1) * n => x % n = x - a * n
  BY <1>2, Quotient, Zenon
<1> QED
  BY <1>1, <1>3

(* With a requests sent completely, a unit among those of the first a      *)
(* responses answers one of them.                                          *)
LEMMA AnswerToSent ==
  ASSUME NEW c, NEW a \in Nat, NEW n \in Nat, NEW length \in Nat, NEW k \in 1..length,
         length <= a * ResponseUnits, a * FrameUnits <= n
  PROVE  Unit(c, k, ResponseUnits).req * FrameUnits <= n
<1> DEFINE q == (k - 1) \div ResponseUnits
<1>1. ResponseUnits \in Nat \ {0} /\ a * ResponseUnits \in Nat /\ FrameUnits \in Nat
  BY SizeAssumption
<1>2. k - 1 \in Nat /\ k - 1 < a * ResponseUnits
  BY <1>1
<1>3. q \in Nat /\ q * ResponseUnits <= k - 1 /\ q * ResponseUnits \in Nat
  BY <1>1, <1>2, QuotientBelow
<1>4. Unit(c, k, ResponseUnits).req = q + 1
  BY DEF Unit
<1> HIDE DEF q
<1>5. ASSUME a <= q PROVE FALSE
  <2>1. a * ResponseUnits <= q * ResponseUnits
    BY <1>1, <1>3, <1>5, ProductMonotone
  <2> QED
    BY <1>1, <1>2, <1>3, <2>1
<1>6. q + 1 <= a /\ q + 1 \in Nat
  BY <1>3, <1>5
<1>7. (q + 1) * FrameUnits <= a * FrameUnits
  BY <1>1, <1>6, ProductMonotone
<1>8. (q + 1) * FrameUnits \in Nat /\ a * FrameUnits \in Nat
  BY <1>1, <1>6
<1>9. (q + 1) * FrameUnits <= n
  BY <1>7, <1>8
<1> QED
  BY <1>4, <1>9

------------------------------------------------------------------------------
(* Pieces of streams. *)

(* Two pieces that follow each other make a piece. *)
LEMMA PieceConcat ==
  ASSUME NEW p \in Seq(UnitType), NEW q \in Seq(UnitType), NEW from \in Nat, NEW f,
         Piece(p, from, f), Piece(q, from + Len(p), f)
  PROVE  /\ Piece(p \o q, from, f)
         /\ Len(p \o q) = Len(p) + Len(q) /\ p \o q \in Seq(UnitType)
<1>1. /\ Len(p \o q) = Len(p) + Len(q) /\ p \o q \in Seq(UnitType)
      /\ \A i \in 1..(Len(p) + Len(q)) :
           (p \o q)[i] = IF i <= Len(p) THEN p[i] ELSE q[i - Len(p)]
  BY ConcatProperties, Zenon
<1>2. Len(p) \in Nat /\ Len(q) \in Nat
  OBVIOUS
<1>3. ASSUME NEW k \in 1..(Len(p) + Len(q)) PROVE (p \o q)[k] = f[from + k]
  <2>1. CASE k <= Len(p)
    BY <1>1, <1>2, <2>1 DEF Piece
  <2>2. CASE k > Len(p)
    <3>1. k - Len(p) \in 1..Len(q) /\ (from + Len(p)) + (k - Len(p)) = from + k
      BY <1>2, <2>2
    <3>2. q[k - Len(p)] = f[(from + Len(p)) + (k - Len(p))]
      BY <3>1, Zenon DEF Piece
    <3>3. (p \o q)[k] = q[k - Len(p)]
      BY <1>1, <1>2, <2>2
    <3> QED
      BY <3>1, <3>2, <3>3, Zenon
  <2> QED
    BY <1>2, <2>1, <2>2
<1> QED
  BY <1>1, <1>3 DEF Piece

(* The first n elements of a piece, and the others, are pieces. *)
LEMMA PieceCut ==
  ASSUME NEW q \in Seq(UnitType), NEW from \in Nat, NEW f, Piece(q, from, f),
         NEW n \in 0..Len(q)
  PROVE  /\ Piece(SubSeq(q, 1, n), from, f)
         /\ Len(SubSeq(q, 1, n)) = n /\ SubSeq(q, 1, n) \in Seq(UnitType)
         /\ Piece(Consume(q, n), from + n, f)
         /\ Len(Consume(q, n)) = Len(q) - n /\ Consume(q, n) \in Seq(UnitType)
<1>1. /\ Len(SubSeq(q, 1, n)) = n /\ SubSeq(q, 1, n) \in Seq(UnitType)
      /\ \A j \in 1..n : SubSeq(q, 1, n)[j] = q[j]
  BY PrefixProperties, Zenon
<1>2. /\ Len(Consume(q, n)) = Len(q) - n /\ Consume(q, n) \in Seq(UnitType)
      /\ \A j \in 1..(Len(q) - n) : Consume(q, n)[j] = q[j + n]
  BY ConsumeProperties, Zenon
<1>3. Len(q) \in Nat
  OBVIOUS
<1>4. Piece(SubSeq(q, 1, n), from, f)
  BY <1>1, <1>3 DEF Piece
<1>5. ASSUME NEW j \in 1..(Len(q) - n) PROVE Consume(q, n)[j] = f[(from + n) + j]
  <2>1. j + n \in 1..Len(q) /\ from + (j + n) = (from + n) + j
    BY <1>3
  <2>2. q[j + n] = f[from + (j + n)]
    BY <2>1, Zenon DEF Piece
  <2> QED
    BY <1>2, <2>1, <2>2, Zenon
<1> QED
  BY <1>1, <1>2, <1>4, <1>5 DEF Piece

(* The next element of the stream makes a piece longer. *)
LEMMA PieceAppend ==
  ASSUME NEW q \in Seq(UnitType), NEW from \in Nat, NEW f, Piece(q, from, f),
         NEW u \in UnitType, u = f[from + (Len(q) + 1)]
  PROVE  /\ Piece(Append(q, u), from, f)
         /\ Len(Append(q, u)) = Len(q) + 1 /\ Append(q, u) \in Seq(UnitType)
<1>1. /\ Append(q, u) \in Seq(UnitType) /\ Len(Append(q, u)) = Len(q) + 1
      /\ \A i \in 1..Len(q) : Append(q, u)[i] = q[i]
      /\ Append(q, u)[Len(q) + 1] = u
  BY AppendProperties
<1>2. Len(q) \in Nat
  OBVIOUS
<1> QED
  BY <1>1, <1>2 DEF Piece

(* Streams that agree up to the end of the piece have it in common. *)
LEMMA PieceAgrees ==
  ASSUME NEW q \in Seq(UnitType), NEW from \in Nat, NEW f, NEW g, Piece(q, from, f),
         NEW n \in Nat, from + Len(q) <= n, \A k \in 1..n : f[k] = g[k]
  PROVE  Piece(q, from, g)
<1>1. Len(q) \in Nat
  OBVIOUS
<1>2. ASSUME NEW k \in 1..Len(q) PROVE from + k \in 1..n
  BY <1>1
<1> QED
  BY <1>2 DEF Piece

------------------------------------------------------------------------------
(* What the steps do to the account of a connection. *)

(* send() takes units from the output buffer to the socket. *)
LEMMA AnsweredWrite ==
  ASSUME NEW c, NEW g \in Seq(UnitType), NEW t \in Seq(UnitType), NEW o \in Seq(UnitType),
         NEW a \in Nat, NEW n \in 0..Len(o),
         Piece(t, Len(g), AnswerUnits(c)), Answered(c, g, t, o, a)
  PROVE  /\ Answered(c, g, t \o SubSeq(o, 1, n), Consume(o, n), a)
         /\ Piece(t \o SubSeq(o, 1, n), Len(g), AnswerUnits(c))
         /\ Len(g) + Len(t \o SubSeq(o, 1, n)) <= a * ResponseUnits
<1> DEFINE all == a * ResponseUnits
           p == SubSeq(o, 1, n)
           f == AnswerUnits(c)
<1>1. Len(g) \in Nat /\ Len(t) \in Nat /\ Len(o) \in Nat /\ Len(g) + Len(t) \in Nat
  OBVIOUS
<1>2. Piece(o, Len(g) + Len(t), f) /\ Len(g) + Len(t) + Len(o) = all
  BY DEF Answered
<1>3. /\ Piece(p, Len(g) + Len(t), f) /\ Len(p) = n /\ p \in Seq(UnitType)
      /\ Piece(Consume(o, n), (Len(g) + Len(t)) + n, f)
      /\ Len(Consume(o, n)) = Len(o) - n
  BY <1>1, <1>2, PieceCut
<1> HIDE DEF all, p, f
<1>4. Piece(t \o p, Len(g), f) /\ Len(t \o p) = Len(t) + Len(p)
  BY <1>1, <1>3, PieceConcat, Zenon DEF f
<1>5. Len(g) + Len(t \o p) = (Len(g) + Len(t)) + n
  BY <1>1, <1>3, <1>4
<1>6. Piece(Consume(o, n), Len(g) + Len(t \o p), f)
  BY <1>3, <1>5, Zenon
<1>7. Len(g) + Len(t \o p) + Len(Consume(o, n)) = all
  <2>1. ((Len(g) + Len(t)) + n) + (Len(o) - n) = (Len(g) + Len(t)) + Len(o)
    BY <1>1
  <2> QED
    BY <1>2, <1>3, <1>5, <2>1, Zenon
<1>8. Len(g) + Len(t \o p) <= all
  BY <1>1, <1>2, <1>5
<1> QED
  BY <1>4, <1>6, <1>7, <1>8, Zenon DEF Answered, all, p, f

(* The client takes what is in the socket. *)
LEMMA AnsweredReceive ==
  ASSUME NEW c, NEW g \in Seq(UnitType), NEW t \in Seq(UnitType)
  PROVE  /\ \A o, a : Answered(c, g, t, o, a) => Answered(c, g \o t, <<>>, o, a)
         /\ Len(g \o t) + Len(<<>>) = Len(g) + Len(t)
<1>1. Len(g \o t) = Len(g) + Len(t) /\ Len(g) \in Nat /\ Len(t) \in Nat /\ Len(<<>>) = 0
  OBVIOUS
<1>2. Len(g \o t) + Len(<<>>) = Len(g) + Len(t)
  BY <1>1
<1> QED
  BY <1>2 DEF Answered

(* The answer to request a + 1 follows a answers that were drained. *)
LEMMA AnsweredNext ==
  ASSUME NEW g \in Seq(UnitType), NEW t \in Seq(UnitType), NEW a \in Nat,
         NEW r \in RequestType, r.req = a + 1, Answered(r.conn, g, t, <<>>, a)
  PROVE  Answered(r.conn, g, t, Response(r), a + 1)
<1> DEFINE base == a * ResponseUnits
<1>1. /\ Len(Response(r)) = ResponseUnits /\ ResponseUnits \in Nat \ {0}
      /\ \A p \in 1..ResponseUnits : Response(r)[p] = [conn |-> r.conn, req |-> r.req, part |-> p]
  BY ResponseType, SizeAssumption DEF Response
<1>2. Len(g) \in Nat /\ Len(t) \in Nat /\ Len(<<>>) = 0
  OBVIOUS
<1>3. Len(g) + Len(t) + Len(<<>>) = base
  BY DEF Answered
<1>4. base \in Nat /\ (a + 1) * ResponseUnits = base + ResponseUnits
  BY SizeAssumption
<1>5. ASSUME NEW p \in 1..ResponseUnits
      PROVE  Response(r)[p] = AnswerUnits(r.conn)[base + p]
  <2>1. Unit(r.conn, base + p, ResponseUnits) = [conn |-> r.conn, req |-> a + 1, part |-> p]
    <3> DEFINE c == r.conn
    <3> HIDE DEF c
    <3>1. ResponseUnits \in Nat \ {0}
      BY SizeAssumption
    <3>2. Unit(c, a * ResponseUnits + p, ResponseUnits) = [conn |-> c, req |-> a + 1, part |-> p]
      BY <3>1, UnitOfNext, Zenon
    <3> QED
      BY <3>2, Zenon DEF c
  <2>2. base + p \in Nat
    BY <1>1, <1>4
  <2>3. AnswerUnits(r.conn)[base + p] = Unit(r.conn, base + p, ResponseUnits)
    BY <2>2, Zenon DEF AnswerUnits
  <2> QED
    BY <1>1, <2>1, <2>3, Zenon
<1> HIDE DEF base
<1>6. Len(g) + Len(t) = base
  BY <1>2, <1>3
<1>7. Len(g) + Len(t) + Len(Response(r)) = (a + 1) * ResponseUnits
  BY <1>1, <1>4, <1>6
<1> QED
  BY <1>1, <1>5, <1>6, <1>7 DEF Answered, Piece

(* Queue entries carry the number of a request. *)
LEMMA RequestNumbers ==
  ASSUME NEW q \in Seq(RequestType)
  PROVE  \A i \in 1..Len(q) : q[i].req \in Nat
<1>1. \A i \in 1..Len(q) : q[i] \in RequestType
  OBVIOUS
<1> QED
  BY <1>1 DEF RequestType

(* Dequeuing the head takes the first request pending for its client. *)
LEMMA PendingHead ==
  ASSUME NEW q \in Seq(RequestType), q /= <<>>, NEW a \in Nat, NEW b \in Nat,
         Pending(Head(q).conn, q, a, b)
  PROVE  Head(q).req = a + 1 /\ Pending(Head(q).conn, Tail(q), a + 1, b)
<1> DEFINE c == Head(q).conn
<1>1. /\ Len(q) \in Nat /\ Len(q) >= 1 /\ Head(q) = q[1] /\ Len(Tail(q)) = Len(q) - 1
      /\ \A i \in 1..(Len(q) - 1) : Tail(q)[i] = q[i + 1] /\ i + 1 \in 1..Len(q)
      /\ \A i \in 1..Len(q) : i = 1 \/ (i - 1 \in 1..(Len(q) - 1) /\ 1 < i)
  OBVIOUS
<1>0. \A i \in 1..Len(q) : q[i].req \in Nat
  BY RequestNumbers
<1>2. 1 \in 1..Len(q) /\ q[1].conn = c /\ q[1].req \in (a + 1)..b
  BY <1>1 DEF Pending
<1>3. PICK i \in 1..Len(q) : q[i].conn = c /\ q[i].req = a + 1
  BY <1>2 DEF Pending
<1>4. q[1].req = a + 1
  <2>1. i > 1 => q[1].req < a + 1
    BY <1>2, <1>3, Zenon DEF Pending
  <2> QED
    BY <1>2, <1>3, <2>1
<1> HIDE DEF c
<1>5. a + 1 <= b
  BY <1>2
<1>6. ASSUME NEW j \in 1..Len(Tail(q)), Tail(q)[j].conn = c
      PROVE  Tail(q)[j].req \in (a + 2)..b
  <2>1. j + 1 \in 1..Len(q) /\ Tail(q)[j] = q[j + 1] /\ 1 < j + 1
    BY <1>1
  <2>2. q[j + 1].req \in (a + 1)..b /\ q[1].req < q[j + 1].req
    BY <1>2, <1>6, <2>1, Zenon DEF Pending, c
  <2> QED
    BY <1>4, <2>1, <2>2
<1>7. ASSUME NEW j \in 1..Len(Tail(q)), NEW k \in 1..Len(Tail(q)), j < k,
             Tail(q)[j].conn = c, Tail(q)[k].conn = c
      PROVE  Tail(q)[j].req < Tail(q)[k].req
  <2>1. /\ j + 1 \in 1..Len(q) /\ Tail(q)[j] = q[j + 1]
        /\ k + 1 \in 1..Len(q) /\ Tail(q)[k] = q[k + 1] /\ j + 1 < k + 1
    BY <1>1, <1>7
  <2>2. q[j + 1].conn = c /\ q[k + 1].conn = c
    BY <1>7, <2>1, Zenon
  <2>3. q[j + 1].req < q[k + 1].req
    BY <2>1, <2>2, Zenon DEF Pending, c
  <2> QED
    BY <2>1, <2>3, Zenon
<1>8. ASSUME NEW r \in (a + 2)..b
      PROVE  \E j \in 1..Len(Tail(q)) : Tail(q)[j].conn = c /\ Tail(q)[j].req = r
  <2>1. PICK k \in 1..Len(q) : q[k].conn = c /\ q[k].req = r
    BY r \in (a + 1)..b DEF Pending, c
  <2>2. k /= 1
    BY <1>4, <2>1
  <2>3. k - 1 \in 1..Len(Tail(q)) /\ Tail(q)[k - 1] = q[k]
    BY <1>1, <2>2
  <2> QED
    BY <2>1, <2>3
<1>9. (a + 1) + 1 = a + 2
  OBVIOUS
<1> QED
  BY <1>1, <1>4, <1>5, <1>6, <1>7, <1>8, <1>9, Zenon DEF Pending, c

(* Taking an entry of another client out of the queue. *)
LEMMA PendingUnlink ==
  ASSUME NEW q \in Seq(RequestType), NEW c, NEW a \in Nat, NEW b \in Nat, Pending(c, q, a, b),
         NEW i \in DOMAIN q, q[i].conn /= c
  PROVE  Pending(c, Unlink(q, i), a, b)
<1> DEFINE u == Unlink(q, i)
<1>1. /\ Len(u) = Len(q) - 1
      /\ \A j \in 1..Len(u) : u[j] = IF j < i THEN q[j] ELSE q[j + 1]
      /\ Len(q) \in Nat /\ i \in 1..Len(q)
  BY UnlinkProperties
<1> HIDE DEF u
<1>2. ASSUME NEW j \in 1..Len(u) PROVE u[j] = q[IF j < i THEN j ELSE j + 1]
  BY <1>1
<1>3. \A j \in 1..Len(u) : (IF j < i THEN j ELSE j + 1) \in 1..Len(q)
  BY <1>1
<1>4. \A j \in 1..Len(u) : u[j].conn = c => u[j].req \in (a + 1)..b
  BY <1>2, <1>3 DEF Pending
<1>5. ASSUME NEW j \in 1..Len(u), NEW k \in 1..Len(u), j < k, u[j].conn = c, u[k].conn = c
      PROVE  u[j].req < u[k].req
  <2>1. (IF j < i THEN j ELSE j + 1) < (IF k < i THEN k ELSE k + 1)
    BY <1>1, <1>5
  <2>2. /\ u[j] = q[IF j < i THEN j ELSE j + 1] /\ (IF j < i THEN j ELSE j + 1) \in 1..Len(q)
        /\ u[k] = q[IF k < i THEN k ELSE k + 1] /\ (IF k < i THEN k ELSE k + 1) \in 1..Len(q)
    BY <1>2, <1>3, Zenon
  <2>3. \A x, y \in 1..Len(q) :
          x < y /\ q[x].conn = c /\ q[y].conn = c => q[x].req < q[y].req
    BY Zenon DEF Pending
  <2> QED
    BY <1>5, <2>1, <2>2, <2>3, Zenon
<1>6. ASSUME NEW r \in (a + 1)..b PROVE \E j \in 1..Len(u) : u[j].conn = c /\ u[j].req = r
  <2>1. PICK k \in 1..Len(q) : q[k].conn = c /\ q[k].req = r
    BY Zenon DEF Pending
  <2>2. CASE k < i
    <3>1. k \in 1..Len(u)
      BY <1>1, <2>2
    <3>2. u[k] = q[k]
      BY <1>1, <2>2, <3>1
    <3> QED
      BY <2>1, <3>1, <3>2, Zenon
  <2>3. CASE k > i
    <3>1. k - 1 \in 1..Len(u) /\ ~(k - 1 < i) /\ (k - 1) + 1 = k
      BY <1>1, <2>3
    <3>2. u[k - 1] = q[k]
      BY <1>1, <3>1
    <3> QED
      BY <2>1, <3>1, <3>2, Zenon
  <2>4. k /= i
    BY <2>1
  <2> QED
    BY <1>1, <2>2, <2>3, <2>4
<1>7. a <= b
  BY Zenon DEF Pending
<1> QED
  BY <1>4, <1>5, <1>6, <1>7, Zenon DEF Pending, u

(* Taking the head of the queue leaves the requests of another connection  *)
(* as they were.                                                           *)
LEMMA PendingTailOther ==
  ASSUME NEW q \in Seq(RequestType), q /= <<>>, NEW c, NEW a \in Nat, NEW b \in Nat,
         Pending(c, q, a, b), Head(q).conn /= c
  PROVE  Pending(c, Tail(q), a, b)
<1>1. 1 \in DOMAIN q /\ q[1] = Head(q)
  OBVIOUS
<1>2. Unlink(q, 1) = Tail(q)
  <2>1. /\ Unlink(q, 1) \in Seq(RequestType) /\ Len(Unlink(q, 1)) = Len(q) - 1
        /\ \A j \in DOMAIN Unlink(q, 1) :
             Unlink(q, 1)[j] = IF j < 1 THEN q[j] ELSE q[j + 1]
    BY <1>1, UnlinkProperties, Zenon
  <2>2. /\ Tail(q) \in Seq(RequestType) /\ Len(Tail(q)) = Len(q) - 1
        /\ \A j \in 1..(Len(q) - 1) : Tail(q)[j] = q[j + 1]
    OBVIOUS
  <2>3. \A j \in 1..(Len(q) - 1) : Unlink(q, 1)[j] = Tail(q)[j]
    BY <2>1, <2>2
  <2> QED
    BY <2>1, <2>2, <2>3, SeqEqual
<1> QED
  BY <1>1, <1>2, PendingUnlink, Zenon

(* A request goes to the end of the queue. *)
LEMMA PendingAppend ==
  ASSUME NEW q \in Seq(RequestType), NEW a \in Nat, NEW b \in Nat, NEW r \in RequestType, NEW c,
         Pending(c, q, a, b), r.conn = c => r.req = b + 1
  PROVE  Pending(c, Append(q, r), a, IF r.conn = c THEN b + 1 ELSE b)
<1> DEFINE p == Append(q, r)
           e == IF r.conn = c THEN b + 1 ELSE b
<1>1. /\ Len(q) \in Nat /\ Len(p) = Len(q) + 1 /\ p[Len(q) + 1] = r
      /\ \A i \in 1..Len(q) : p[i] = q[i]
  BY AppendProperties
<1>0. \A i \in 1..Len(q) : q[i].req \in Nat
  BY RequestNumbers
<1>2. a <= b /\ b <= e /\ e \in Nat
  BY DEF Pending
<1> HIDE DEF p
<1>6. /\ \A i \in 1..Len(p) : i \in 1..Len(q) \/ i = Len(q) + 1
      /\ \A i \in 1..Len(q) : i \in 1..Len(p)
      /\ Len(q) + 1 \in 1..Len(p)
  BY <1>1
<1>3. ASSUME NEW i \in 1..Len(p), p[i].conn = c PROVE p[i].req \in (a + 1)..e
  <2>1. CASE i \in 1..Len(q)
    <3>1. p[i].req \in (a + 1)..b
      BY <1>1, <1>3, <2>1, Zenon DEF Pending
    <3> QED
      BY <1>2, <3>1
  <2>2. CASE i = Len(q) + 1
    BY <1>1, <1>2, <1>3, <2>2
  <2> QED
    BY <1>6, <2>1, <2>2
<1>4. ASSUME NEW i \in 1..Len(p), NEW j \in 1..Len(p), i < j, p[i].conn = c, p[j].conn = c
      PROVE  p[i].req < p[j].req
  <2>1. i \in 1..Len(q) /\ p[i] = q[i]
    BY <1>1, <1>4
  <2>2. p[i].req \in (a + 1)..b
    BY <1>4, <2>1, Zenon DEF Pending
  <2>3. CASE j \in 1..Len(q)
    BY <1>1, <1>4, <2>1, <2>3, Zenon DEF Pending
  <2>4. CASE j = Len(q) + 1
    <3>1. p[j].req = b + 1
      BY <1>1, <1>4, <2>4, Zenon
    <3> QED
      BY <2>2, <3>1
  <2> QED
    BY <1>6, <2>3, <2>4
<1>5. ASSUME NEW n \in (a + 1)..e PROVE \E i \in 1..Len(p) : p[i].conn = c /\ p[i].req = n
  <2>1. CASE n \in (a + 1)..b
    <3>1. PICK i \in 1..Len(q) : q[i].conn = c /\ q[i].req = n
      BY <2>1, Zenon DEF Pending
    <3> QED
      BY <1>1, <1>6, <3>1, Zenon
  <2>2. CASE n = b + 1 /\ r.conn = c
    BY <1>1, <1>6, <2>2, Zenon
  <2> QED
    BY <2>1, <2>2
<1>7. a <= e
  BY <1>2
<1> QED
  BY <1>3, <1>4, <1>5, <1>7, Zenon DEF Pending, p

(* read() takes units from the socket to the input buffer. *)
LEMMA IncomingRead ==
  ASSUME NEW c, NEW i \in Seq(UnitType), NEW t \in Seq(UnitType), NEW n \in Nat,
         NEW m \in BOOLEAN, NEW b \in Nat, NEW k \in 0..Len(t), Incoming(c, i, t, n, m, b)
  PROVE  Incoming(c, i \o SubSeq(t, 1, k), Consume(t, k), n, m, b)
<1> DEFINE base == b * FrameUnits
           p == SubSeq(t, 1, k)
           f == RequestUnits(c, n)
           all == IF m THEN n + 1 ELSE n
<1>0. base \in Nat
  BY SizeAssumption
<1>1. /\ Piece(i, base, f) /\ Piece(t, base + Len(i), f)
      /\ base + Len(i) + Len(t) = all
      /\ base <= n /\ (m => n % FrameUnits = 0)
  BY Zenon DEF Incoming
<1> HIDE DEF base, p, f, all
<1>2. Len(i) \in Nat /\ Len(t) \in Nat /\ base + Len(i) \in Nat
  BY <1>0
<1>3. /\ Piece(p, base + Len(i), f) /\ Len(p) = k /\ p \in Seq(UnitType)
      /\ Piece(Consume(t, k), (base + Len(i)) + k, f)
      /\ Len(Consume(t, k)) = Len(t) - k
  BY <1>1, <1>2, PieceCut, Zenon DEF p
<1>4. Piece(i \o p, base, f) /\ Len(i \o p) = Len(i) + Len(p)
  BY <1>0, <1>1, <1>3, PieceConcat, Zenon
<1>5. base + Len(i \o p) = (base + Len(i)) + k
  BY <1>0, <1>2, <1>3, <1>4
<1>6. ((base + Len(i)) + k) + (Len(t) - k) = base + Len(i) + Len(t)
  BY <1>0, <1>2
<1>7. base + Len(i \o p) + Len(Consume(t, k)) = all
  BY <1>1, <1>3, <1>5, <1>6, Zenon
<1>8. Piece(Consume(t, k), base + Len(i \o p), f)
  BY <1>3, <1>5, Zenon
<1> QED
  BY <1>1, <1>4, <1>7, <1>8, Zenon DEF Incoming, base, p, f, all

(* A complete message at the head of the input buffer is request b + 1. *)
LEMMA IncomingTake ==
  ASSUME NEW c, NEW i \in Seq(UnitType), NEW t \in Seq(UnitType), NEW n \in Nat,
         NEW m \in BOOLEAN, NEW b \in Nat, Incoming(c, i, t, n, m, b),
         Len(i) >= FrameUnits, Head(i).part /= 0
  PROVE  /\ Head(i).req = b + 1
         /\ Incoming(c, Consume(i, FrameUnits), t, n, m, b + 1)
<1> DEFINE base == b * FrameUnits
           f == RequestUnits(c, n)
           all == IF m THEN n + 1 ELSE n
           next == (b + 1) * FrameUnits
<1>0. /\ base \in Nat /\ next = base + FrameUnits /\ FrameUnits \in Nat \ {0}
      /\ 1 \in 1..FrameUnits
  BY SizeAssumption
<1>1. /\ Piece(i, base, f) /\ Piece(t, base + Len(i), f)
      /\ base + Len(i) + Len(t) = all
      /\ base <= n /\ (m => n % FrameUnits = 0)
  BY Zenon DEF Incoming
<1>2. Unit(c, base + 1, FrameUnits) = [conn |-> c, req |-> b + 1, part |-> 1]
  BY <1>0, UnitOfNext, Zenon
<1>3. base < n /\ m => next <= n
  BY <1>0, <1>1, OneMore, Zenon
<1> HIDE DEF base, f, all, next
<1>4. Len(i) \in Nat /\ Len(t) \in Nat /\ base + 1 \in Nat /\ base + Len(i) \in Nat
  BY <1>0
<1>5. Head(i) = f[base + 1]
  <2>1. 1 \in 1..Len(i) /\ Head(i) = i[1]
    BY <1>0, <1>4
  <2> QED
    BY <1>1, <2>1, Zenon DEF Piece
<1>6. base < n /\ Head(i) = Unit(c, base + 1, FrameUnits)
  <2>1. f[base + 1] = IF base + 1 <= n THEN Unit(c, base + 1, FrameUnits) ELSE BadUnit(c)
    BY <1>4, Zenon DEF f, RequestUnits
  <2>2. BadUnit(c).part = 0
    BY DEF BadUnit
  <2>3. base + 1 <= n
    BY <1>5, <2>1, <2>2, Zenon
  <2> QED
    BY <1>0, <1>5, <2>1, <2>3
<1>7. Head(i).req = b + 1
  BY <1>2, <1>6
<1>8. next <= n
  <2>1. CASE m
    BY <1>3, <1>6, <2>1, Zenon
  <2>2. CASE ~m
    BY <1>0, <1>1, <1>4, <2>2 DEF all
  <2> QED
    BY <2>1, <2>2, Zenon
<1>9. FrameUnits \in 0..Len(i)
  BY <1>0, <1>4
<1>10. /\ Piece(Consume(i, FrameUnits), next, f)
       /\ Len(Consume(i, FrameUnits)) = Len(i) - FrameUnits
  BY <1>0, <1>1, <1>9, PieceCut, Zenon
<1>11. next + (Len(i) - FrameUnits) = base + Len(i)
  BY <1>0, <1>4
<1>12. /\ Piece(t, next + Len(Consume(i, FrameUnits)), f)
       /\ next + Len(Consume(i, FrameUnits)) + Len(t) = all
  BY <1>1, <1>10, <1>11, Zenon
<1> QED
  BY <1>1, <1>7, <1>8, <1>10, <1>12, Zenon DEF Incoming, f, all, next

(* The client writes the next unit. *)
LEMMA IncomingSend ==
  ASSUME NEW c \in Conns, NEW i \in Seq(UnitType), NEW t \in Seq(UnitType), NEW n \in Nat,
         NEW b \in Nat, Incoming(c, i, t, n, FALSE, b)
  PROVE  Incoming(c, i, Append(t, Unit(c, n + 1, FrameUnits)), n + 1, FALSE, b)
<1> DEFINE base == b * FrameUnits
           f == RequestUnits(c, n)
           g == RequestUnits(c, n + 1)
           u == Unit(c, n + 1, FrameUnits)
<1>0. base \in Nat
  BY SizeAssumption
<1>1. /\ Piece(i, base, f) /\ Piece(t, base + Len(i), f)
      /\ base + Len(i) + Len(t) = n /\ base <= n
  BY DEF Incoming
<1>2. u \in UnitType
  BY UnitIsUnit, SizeAssumption, n + 1 \in Nat \ {0}, Zenon
<1>3. \A k \in 1..n : f[k] = g[k]
  <2> SUFFICES ASSUME NEW k \in 1..n PROVE f[k] = g[k]
    OBVIOUS
  <2>1. k \in Nat /\ k <= n /\ k <= n + 1
    OBVIOUS
  <2> QED
    BY <2>1, Zenon DEF RequestUnits
<1>4. g[n + 1] = u
  <2>1. n + 1 \in Nat /\ n + 1 <= n + 1
    OBVIOUS
  <2> QED
    BY <2>1, Zenon DEF RequestUnits
<1> HIDE DEF base, f, g, u
<1>5. /\ Len(i) \in Nat /\ Len(t) \in Nat /\ base + Len(i) \in Nat
      /\ base + Len(i) <= n /\ (base + Len(i)) + Len(t) <= n
  BY <1>0, <1>1
<1>6. Piece(i, base, g) /\ Piece(t, base + Len(i), g)
  BY <1>0, <1>1, <1>3, <1>5, PieceAgrees, Zenon
<1>7. (base + Len(i)) + (Len(t) + 1) = n + 1 /\ base <= n + 1
  BY <1>0, <1>1, <1>5
<1>8. Piece(Append(t, u), base + Len(i), g) /\ Len(Append(t, u)) = Len(t) + 1
  BY <1>2, <1>4, <1>5, <1>6, <1>7, PieceAppend, Zenon
<1> QED
  BY <1>6, <1>7, <1>8, Zenon DEF Incoming, base, g, u

(* The client writes a malformed header, after complete requests. *)
LEMMA IncomingMalformed ==
  ASSUME NEW c \in Conns, NEW i \in Seq(UnitType), NEW t \in Seq(UnitType), NEW n \in Nat,
         NEW b \in Nat, Incoming(c, i, t, n, FALSE, b), n % FrameUnits = 0
  PROVE  Incoming(c, i, Append(t, BadUnit(c)), n, TRUE, b)
<1> DEFINE base == b * FrameUnits
           f == RequestUnits(c, n)
           u == BadUnit(c)
<1>0. base \in Nat
  BY SizeAssumption
<1>1. /\ Piece(i, base, f) /\ Piece(t, base + Len(i), f)
      /\ base + Len(i) + Len(t) = n /\ base <= n
  BY DEF Incoming
<1>2. u \in UnitType
  BY DEF BadUnit, UnitType
<1>3. f[n + 1] = u
  <2>1. n + 1 \in Nat /\ ~(n + 1 <= n)
    OBVIOUS
  <2> QED
    BY <2>1, Zenon DEF RequestUnits
<1> HIDE DEF base, f, u
<1>4. Len(i) \in Nat /\ Len(t) \in Nat /\ base + Len(i) \in Nat
  BY <1>0
<1>5. (base + Len(i)) + (Len(t) + 1) = n + 1
  BY <1>0, <1>1, <1>4
<1>6. Piece(Append(t, u), base + Len(i), f) /\ Len(Append(t, u)) = Len(t) + 1
  BY <1>1, <1>2, <1>3, <1>4, <1>5, PieceAppend, Zenon
<1> QED
  BY <1>1, <1>5, <1>6, Zenon DEF Incoming, base, f, u

==============================================================================
