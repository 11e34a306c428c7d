--------------------------- MODULE ServerUdsProofs ---------------------------
(***************************************************************************)
(* Proofs about ServerUds, for every number of connections, descriptors,   *)
(* client slots and queue entries and for every size of frames, reads and  *)
(* buffers: the steps that remove a client or a request, those of the      *)
(* clients, and the theorems that follow from the inductive invariant      *)
(* IInv.                                                                   *)
(*                                                                         *)
(* The second part is about the main loop. Its theorems need one more      *)
(* inductive invariant, LoopInv: what is left when wc_server_uds_run       *)
(* returns (Lifecycle), that every buffer was parsed as far as it can be   *)
(* (Parsed), when control gets to poll() (Blocked), and what a malformed   *)
(* header (WellFormed) and a pending event (Reported) say of the client    *)
(* they come from.                                                         *)
(*                                                                         *)
(* The third part proves that the server answers every request once, in    *)
(* order, to the connection it came from. ResponsesInOrder only speaks of  *)
(* what a client has received. The invariant says where everything else    *)
(* is: a slot in use accounts for every unit of its connection (Account),  *)
(* from the units the client has not received yet back to those the server *)
(* has not read yet; a connection in the backlog was not touched (Fresh),  *)
(* one that was removed got the first of its responses, the last perhaps   *)
(* in part (Delivered), and each is in the backlog once or behind one      *)
(* descriptor (OneEnd).                                                    *)
(***************************************************************************)
EXTENDS ServerUdsInvariant

(* A connection that is accepted and closed again leaves no trace but in   *)
(* the kernel.                                                             *)
LEMMA AcceptRejectedStep ==
  ASSUME IInv, AcceptRejected
  PROVE  IInv'
<1> USE DEF life, table, kernel, ends
<1>0. TypeOK
  BY DEF IInv
<1>1. Head(backlog) \in Conns /\ Tail(backlog) \in Seq(Conns)
  BY <1>0, HeadTailProperties DEF TypeOK, KernelTypes, AcceptRejected
<1>2. /\ tosrv' \in [Conns -> Seq(UnitType)]
      /\ \A c \in Conns : tosrv'[c] = tosrv[c] \/ tosrv'[c] = <<>>
      /\ sock' \in [Conns -> {"none", "backlog", "open", "closed"}]
  BY <1>0, <1>1 DEF TypeOK, KernelTypes, AcceptRejected
<1>3. faults' \in 0..MaxFaults
  BY <1>0, SizeAssumption DEF TypeOK, ControlTypes, AcceptRejected, Fault
<1>4. TypeOK'
  BY <1>0, <1>1, <1>2, <1>3, TableSame, ClientSame
  DEF TypeOK, ControlTypes, KernelTypes, AcceptRejected
<1>5. SentByPeer'
  BY <1>2 DEF IInv, SentByPeer
<1>6. UNCHANGED <<pc, at, client_fd, input, queue, file>>
  BY DEF AcceptRejected
<1>7. QED
  BY <1>4, <1>5, <1>6, OwnedFrame, QueueFrame, BufferFrame, SlotFrame DEF IInv

(* wc_request_queue_discard_client unlinks one entry. *)
LEMMA DiscardRequestStep ==
  ASSUME IInv, DiscardRequest
  PROVE  IInv'
<1> USE DEF life, table, kernel, ends
<1>0. TypeOK
  BY DEF IInv
<1>1. PICK i \in DOMAIN queue : queue' = Unlink(queue, i)
  BY DEF DiscardRequest
<1>2. UNCHANGED <<pc, caller, at, life, table, revents, kernel, ends, faults>>
  BY DEF DiscardRequest
<1>3. queue \in Seq(RequestType)
  BY <1>0 DEF TypeOK, TableTypes
<1>4. /\ queue' \in Seq(RequestType) /\ Len(queue') = Len(queue) - 1
      /\ \A j \in DOMAIN queue' :
           queue'[j] = IF j < i THEN queue[j] ELSE queue[j + 1]
  BY <1>1, <1>3, UnlinkProperties
<1>5. \A j \in DOMAIN queue' : \E k \in DOMAIN queue : queue'[j] = queue[k]
  <2> TAKE j \in DOMAIN queue'
  <2>1. j \in DOMAIN queue /\ j + 1 \in DOMAIN queue
    BY <1>3, <1>4, SMTT(30)
  <2>2. QED
    BY <1>4, <2>1
<1>6. TypeOK'
  BY <1>0, <1>2, <1>4, ControlSame, KernelSame, ClientSame, SMTT(30)
  DEF TypeOK, TableTypes
<1>7. QueuedForSender'
  <2> SUFFICES ASSUME NEW j \in DOMAIN queue'
               PROVE  /\ \E t \in Slots : client_fd'[t] = queue'[j].fd
                      /\ file'[queue'[j].fd] = queue'[j].conn
    BY DEF QueuedForSender, FindClient
  <2>1. PICK k \in DOMAIN queue : queue'[j] = queue[k]
    BY <1>5
  <2>2. FindClient(queue[k].fd) /= {} /\ file[queue[k].fd] = queue[k].conn
    BY DEF IInv, QueuedForSender
  <2>3. QED
    BY <1>2, <2>1, <2>2, Zenon DEF FindClient
<1>8. QueueBounded'
  BY <1>3, <1>4, SizeAssumption DEF IInv, QueueBounded
<1>9. QED
  BY <1>2, <1>6, <1>7, <1>8, OwnedFrame, SocketFrame, BufferFrame, SlotFrame
  DEF IInv

(* wc_uds_remove_client empties the slot and closes the descriptor, once   *)
(* no request of that descriptor is queued any more.                       *)
LEMMA CloseClientStep ==
  ASSUME IInv, CloseClient
  PROVE  IInv'
<1> USE DEF life, table, kernel, ends
<1> DEFINE f == client_fd[at]
           c == file[f]
<1>0. TypeOK /\ pc = "remove"
  BY DEF IInv, CloseClient
<1>1. at \in Slots /\ f \in Fds /\ c \in Conns /\ f /= -1
  BY <1>0, ConnInUse, FdAssumption
<1>2. \A i \in DOMAIN queue : queue[i].fd /= f
  BY DEF CloseClient, Discardable
<1>3. /\ client_fd' = [client_fd EXCEPT ![at] = -1]
      /\ input' = [input EXCEPT ![at] = <<>>]
      /\ output' = [output EXCEPT ![at] = <<>>]
      /\ file' = [file EXCEPT ![f] = NoConn]
      /\ sock' = [sock EXCEPT ![c] = "closed"]
      /\ tosrv' = [tosrv EXCEPT ![c] = <<>>]
      /\ pc' = caller /\ at' = 1 /\ caller' = "dispatch"
      /\ UNCHANGED <<life, queue, revents, backlog, tocli, ends, faults>>
  BY DEF CloseClient, Closed, EndCall
<1> HIDE DEF f, c
<1>4. /\ client_fd' \in [Slots -> Fds \cup {-1}]
      /\ file' \in [Fds -> Conns \cup {NoConn}]
      /\ input' \in [Slots -> Seq(UnitType)] /\ tosrv' \in [Conns -> Seq(UnitType)]
      /\ \A t \in Slots : client_fd'[t] = IF t = at THEN -1 ELSE client_fd[t]
      /\ \A g \in Fds : file'[g] = IF g = f THEN NoConn ELSE file[g]
      /\ \A t \in Slots : input'[t] = IF t = at THEN <<>> ELSE input[t]
      /\ \A d \in Conns : tosrv'[d] = IF d = c THEN <<>> ELSE tosrv[d]
  BY <1>0, <1>1, <1>3 DEF TypeOK, TableTypes, KernelTypes
<1>5. \A t \in Slots : client_fd[t] = f => t = at
  BY <1>1 DEF IInv, Owned, Injective, f
<1>6. TypeOK'
  <2>1. /\ output' \in [Slots -> Seq(UnitType)]
        /\ sock' \in [Conns -> {"none", "backlog", "open", "closed"}]
    BY <1>0, <1>1, <1>3 DEF TypeOK, TableTypes, KernelTypes
  <2>2. pc' \in Locations /\ caller' \in {"process", "dispatch", "closing"}
    BY <1>0, <1>3 DEF TypeOK, ControlTypes, Locations
  <2>3. at' \in Slots
    BY <1>3, SizeAssumption DEF Slots
  <2>4. ControlTypes'
    BY <1>0, <1>3, <1>4, <2>2, <2>3, SMTT(30) DEF TypeOK, ControlTypes
  <2>5. TableTypes'
    BY <1>0, <1>3, <1>4, <2>1, SMTT(30) DEF TypeOK, TableTypes
  <2>6. KernelTypes'
    BY <1>0, <1>3, <1>4, <2>1, SMTT(30) DEF TypeOK, KernelTypes
  <2>7. QED
    BY <1>0, <1>3, <2>4, <2>5, <2>6, ClientSame DEF TypeOK
<1>7. Owned'
  <2>1. Injective'
    BY <1>4 DEF IInv, Owned, Injective
  <2>2. HeldOpen'
    <3> SUFFICES ASSUME NEW t \in Slots, client_fd'[t] /= -1
                 PROVE  file'[client_fd'[t]] /= NoConn
      BY DEF HeldOpen
    <3>1. /\ client_fd'[t] = client_fd[t] /\ client_fd[t] \in Fds
          /\ client_fd[t] /= f /\ client_fd[t] /= -1
      BY <1>0, <1>4, <1>5 DEF TypeOK, TableTypes
    <3>2. QED
      BY <1>4, <3>1 DEF IInv, Owned, HeldOpen
  <2>3. OpenHeld'
    <3> SUFFICES ASSUME NEW g \in Fds, file'[g] /= NoConn
                 PROVE  \E t \in Slots : client_fd'[t] = g
      BY DEF OpenHeld
    <3>1. g /= f /\ file[g] /= NoConn
      BY <1>4
    <3>2. PICK t \in Slots : client_fd[t] = g
      BY <3>1 DEF IInv, Owned, OpenHeld
    <3>3. t /= at
      BY <3>1, <3>2 DEF f
    <3>4. QED
      BY <1>4, <3>2, <3>3
  <2>4. QED
    BY <2>1, <2>2, <2>3, SMTT(30) DEF Owned
<1>8. SlotInUse'
  BY <1>0, <1>3 DEF TypeOK, ControlTypes, SlotInUse
<1>9. SentByPeer'
  BY <1>4, SMTT(30) DEF IInv, SentByPeer
<1>10. BufferedForSender'
  <2> SUFFICES ASSUME NEW t \in Slots, client_fd'[t] /= -1, NEW j \in DOMAIN input'[t]
               PROVE  input'[t][j].conn = file'[client_fd'[t]]
    BY DEF BufferedForSender
  <2>1. /\ client_fd'[t] = client_fd[t] /\ client_fd[t] \in Fds
        /\ client_fd[t] /= f /\ input'[t] = input[t] /\ client_fd[t] /= -1
    BY <1>0, <1>4, <1>5 DEF TypeOK, TableTypes
  <2>2. file'[client_fd'[t]] = file[client_fd[t]]
    BY <1>4, <2>1
  <2>3. input[t][j].conn = file[client_fd[t]]
    BY <2>1, Zenon DEF IInv, BufferedForSender
  <2>4. QED
    BY <2>1, <2>2, <2>3
<1>11. QueuedForSender' /\ QueueBounded'
  <2> SUFFICES ASSUME NEW i \in DOMAIN queue
               PROVE  /\ \E t \in Slots : client_fd'[t] = queue[i].fd
                      /\ file'[queue[i].fd] = queue[i].conn
    BY <1>3, SMTT(30) DEF IInv, QueuedForSender, QueueBounded, FindClient
  <2>1. PICK t \in Slots : client_fd[t] = queue[i].fd
    BY DEF IInv, QueuedForSender, FindClient
  <2>2. queue[i].fd \in Fds
    <3>1. queue[i] \in RequestType
      BY <1>0 DEF TypeOK, TableTypes
    <3>2. QED
      BY <3>1 DEF RequestType
  <2>3. t /= at /\ queue[i].fd /= f
    BY <1>2, <2>1 DEF f
  <2>4. QED
    BY <1>4, <2>1, <2>2, <2>3, Zenon DEF IInv, QueuedForSender
<1>12. QED
  BY <1>6, <1>7, <1>8, <1>9, <1>10, <1>11 DEF IInv

(* The end of wc_server_uds_run clears the queue and drops the backlog. *)
LEMMA ShutdownStep ==
  ASSUME IInv, Shutdown
  PROVE  IInv'
<1> USE DEF life, table, kernel, ends
<1>0. TypeOK
  BY DEF IInv
<1>1. /\ queue' = <<>> /\ listener' = "closed" /\ backlog' = <<>>
      /\ pc' = "returned"
      /\ UNCHANGED <<caller, at, stop_requested, table, revents, file, tocli, ends>>
  BY Zenon DEF Shutdown
<1>2. /\ tosrv' \in [Conns -> Seq(UnitType)]
      /\ \A c \in Conns : tosrv'[c] = tosrv[c] \/ tosrv'[c] = <<>>
      /\ sock' \in [Conns -> {"none", "backlog", "open", "closed"}]
  BY <1>0 DEF TypeOK, KernelTypes, Shutdown
<1>3. path' \in BOOLEAN
  BY Zenon DEF Shutdown
<1>4. faults' \in 0..MaxFaults /\ result' \in {0, -1}
  BY <1>0, SizeAssumption, SMTT(30) DEF TypeOK, ControlTypes, Shutdown, Fault, NoFault
<1>5. TypeOK'
  BY <1>0, <1>1, <1>2, <1>3, <1>4, ClientSame, SMTT(30)
  DEF TypeOK, ControlTypes, TableTypes, KernelTypes, Locations
<1>6. SentByPeer'
  BY <1>2 DEF IInv, SentByPeer
<1>7. QueuedForSender' /\ QueueBounded' /\ SlotInUse'
  <2>1. QueuedForSender' /\ QueueBounded'
    <3> HIDE DEF life, table, kernel, ends
    <3>1. queue' = <<>>
      BY <1>1
    <3>2. QED
      BY <3>1, SizeAssumption DEF QueuedForSender, QueueBounded
  <2>2. pc' = "returned"
    BY <1>1
  <2>3. QED
    BY <2>1, <2>2 DEF SlotInUse
<1>8. Owned'
  BY <1>1, OwnedFrame
<1>9. BufferedForSender'
  BY <1>1, BufferFrame
<1>10. QED
  BY <1>5, <1>6, <1>7, <1>8, <1>9 DEF IInv

(* What the clients do reaches the server only through its sockets. *)
LEMMA ClientSteps ==
  ASSUME IInv, NEW c \in Conns, ClientStep(c)
  PROVE  IInv'
<1> USE DEF life, table, kernel, ends, Server
<1>0. TypeOK /\ SlotInUse
  BY DEF IInv
<1>1. CASE Connect(c)
  <2>1. TypeOK'
    <3>1. backlog' \in Seq(Conns)
      BY <1>0, <1>1, AppendProperties, Zenon DEF TypeOK, KernelTypes, Connect
    <3>2. QED
      BY <1>0, <1>1, <3>1, ControlSame, TableSame, ClientSame
      DEF TypeOK, KernelTypes, Connect
  <2>2. SlotInUse'
    BY <1>0, <1>1 DEF SlotInUse, Connect
  <2>3. QED
    BY <1>1, <2>1, <2>2, Frame DEF Connect
<1>2. ASSUME NEW u \in UnitType, u.conn = c,
             tosrv' = [tosrv EXCEPT ![c] = Append(@, u)],
             sent' \in [Conns -> Nat], malformed' \in [Conns -> BOOLEAN],
             UNCHANGED <<Server, stop_requested, file, sock, backlog, tocli,
                         peer, got, faults>>
      PROVE  IInv'
  <2>1. tosrv[c] \in Seq(UnitType)
    BY <1>0 DEF TypeOK, KernelTypes
  <2>2. /\ Append(tosrv[c], u) \in Seq(UnitType)
        /\ \A i \in DOMAIN Append(tosrv[c], u) :
             \/ i \in DOMAIN tosrv[c] /\ Append(tosrv[c], u)[i] = tosrv[c][i]
             \/ Append(tosrv[c], u)[i] = u
    BY <2>1, AppendElements
  <2>3. /\ tosrv' \in [Conns -> Seq(UnitType)]
        /\ \A d \in Conns :
             tosrv'[d] = IF d = c THEN Append(tosrv[c], u) ELSE tosrv[d]
    BY <1>0, <1>2, <2>2, Zenon DEF TypeOK, KernelTypes
  <2>4. TypeOK'
    BY <1>0, <1>2, <2>3, ControlSame, TableSame, Zenon
    DEF TypeOK, KernelTypes, ClientTypes
  <2>5. SentByPeer'
    <3> SUFFICES ASSUME NEW d \in Conns, NEW i \in DOMAIN tosrv'[d]
                 PROVE  tosrv'[d][i].conn = d
      BY DEF SentByPeer
    <3>1. CASE d = c
      <4>1. tosrv'[d] = Append(tosrv[c], u)
        BY <2>3, <3>1, SMTT(30)
      <4>2. CASE i \in DOMAIN tosrv[c] /\ Append(tosrv[c], u)[i] = tosrv[c][i]
        BY <3>1, <4>1, <4>2, Zenon DEF IInv, SentByPeer
      <4>3. CASE Append(tosrv[c], u)[i] = u
        BY <1>2, <3>1, <4>1, <4>3, Zenon
      <4>4. QED
        BY <2>2, <4>1, <4>2, <4>3, Zenon
    <3>2. CASE d /= c
      BY <2>3, <3>2 DEF IInv, SentByPeer
    <3>3. QED
      BY <3>1, <3>2
  <2>6. QED
    BY <1>2, <2>4, <2>5, OwnedFrame, QueueFrame, BufferFrame, SlotFrame DEF IInv
<1>3. CASE Send(c)
  <2>1. sent[c] \in Nat
    BY <1>0 DEF TypeOK, ClientTypes
  <2>2. /\ Unit(c, sent[c] + 1, FrameUnits) \in UnitType
        /\ Unit(c, sent[c] + 1, FrameUnits).conn = c
    BY <2>1, UnitIsUnit, SizeAssumption, SMTT(30)
  <2>3. sent' \in [Conns -> Nat] /\ malformed' \in [Conns -> BOOLEAN]
    BY <1>0, <1>3, <2>1 DEF TypeOK, ClientTypes, Send
  <2>4. QED
    BY <1>2, <1>3, <2>2, <2>3, Zenon DEF Send
<1>4. CASE SendMalformed(c)
  <2>1. BadUnit(c) \in UnitType /\ BadUnit(c).conn = c
    BY DEF BadUnit, UnitType
  <2>2. sent' \in [Conns -> Nat] /\ malformed' \in [Conns -> BOOLEAN]
    BY <1>0, <1>4 DEF TypeOK, ClientTypes, SendMalformed
  <2>3. QED
    BY <1>2, <1>4, <2>1, <2>2, Zenon DEF SendMalformed
<1>5. CASE Receive(c)
  <2>1. TypeOK'
    <3>1. got[c] \o tocli[c] \in Seq(UnitType)
      BY <1>0, ConcatProperties, Zenon DEF TypeOK, KernelTypes, ClientTypes
    <3>2. got' \in [Conns -> Seq(UnitType)] /\ tocli' \in [Conns -> Seq(UnitType)]
      BY <1>0, <1>5, <3>1 DEF TypeOK, KernelTypes, ClientTypes, Receive
    <3>3. QED
      BY <1>0, <1>5, <3>2, ControlSame, TableSame
      DEF TypeOK, KernelTypes, ClientTypes, Receive
  <2>2. SlotInUse'
    BY <1>0, <1>5 DEF SlotInUse, Receive
  <2>3. QED
    BY <1>5, <2>1, <2>2, Frame, SMTT(30) DEF Receive
<1>6. CASE HangUp(c)
  <2>1. TypeOK'
    <3>1. peer' \in [Conns -> {"open", "half", "gone"}]
      BY <1>0, <1>6, Zenon DEF TypeOK, ClientTypes, HangUp
    <3>2. QED
      BY <1>0, <1>6, <3>1, ControlSame, TableSame, KernelSame
      DEF TypeOK, ClientTypes, HangUp
  <2>2. SlotInUse'
    BY <1>0, <1>6 DEF SlotInUse, HangUp
  <2>3. QED
    BY <1>6, <2>1, <2>2, Frame, SMTT(30) DEF HangUp
<1>7. QED
  BY <1>1, <1>3, <1>4, <1>5, <1>6 DEF ClientStep

------------------------------------------------------------------------------
(* The server starts with an empty table and an empty queue. *)
LEMMA InitIInv == Init => IInv
<1> SUFFICES ASSUME Init PROVE IInv
  OBVIOUS
<1>1. TypeOK
  <2>1. /\ pc \in Locations /\ caller \in {"process", "dispatch", "closing"}
        /\ at \in Slots /\ result \in {0, -1}
        /\ listener \in {"none", "open", "closed"} /\ faults \in 0..MaxFaults
    BY SizeAssumption DEF Init, Locations, Slots
  <2>2. stop_requested \in BOOLEAN /\ path \in BOOLEAN
    BY Zenon DEF Init
  <2>3. /\ client_fd \in [Slots -> Fds \cup {-1}]
        /\ input \in [Slots -> Seq(UnitType)] /\ output \in [Slots -> Seq(UnitType)]
        /\ queue \in Seq(RequestType)
        /\ revents \in [0..MaxClients -> SUBSET {"IN", "OUT", "HUP"}]
    BY DEF Init
  <2>4. /\ file \in [Fds -> Conns \cup {NoConn}]
        /\ sock \in [Conns -> {"none", "backlog", "open", "closed"}]
        /\ backlog \in Seq(Conns)
        /\ tosrv \in [Conns -> Seq(UnitType)] /\ tocli \in [Conns -> Seq(UnitType)]
    BY DEF Init
  <2>5. /\ peer \in [Conns -> {"open", "half", "gone"}] /\ sent \in [Conns -> Nat]
        /\ malformed \in [Conns -> BOOLEAN] /\ got \in [Conns -> Seq(UnitType)]
    BY DEF Init
  <2>6. QED
    BY <2>1, <2>2, <2>3, <2>4, <2>5 DEF TypeOK, ControlTypes, TableTypes, KernelTypes, ClientTypes
<1>2. Owned
  BY FdAssumption DEF Init, Owned, Injective, HeldOpen, OpenHeld
<1>3. SlotInUse /\ SentByPeer /\ BufferedForSender
  BY DEF Init, SlotInUse, SentByPeer, BufferedForSender
<1>4. QueuedForSender /\ QueueBounded
  BY SizeAssumption DEF Init, QueuedForSender, QueueBounded
<1>5. QED
  BY <1>1, <1>2, <1>3, <1>4 DEF IInv

(* Every step of the server and of its clients preserves the invariant. *)
LEMMA NextIInv == IInv /\ [Next]_vars => IInv'
<1> SUFFICES ASSUME IInv, [Next]_vars PROVE IInv'
  OBVIOUS
<1>1. CASE ServerStep
  BY <1>1, ControlSteps, ProcessQueueStep, ReadClientStep, EnqueueRequestStep,
     WriteClientStep, AcceptClientStep, AcceptRejectedStep, DiscardRequestStep,
     CloseClientStep, ShutdownStep
  DEF ServerStep, ControlStep
<1>2. CASE \E c \in Conns : ClientStep(c)
  BY <1>2, ClientSteps
<1>3. CASE Signal
  BY <1>3, ControlSteps DEF ControlStep
<1>4. CASE UNCHANGED vars
  <2>1. TypeOK'
    BY <1>4, ControlSame, TableSame, KernelSame, ClientSame
    DEF vars, life, table, kernel, ends, IInv, TypeOK
  <2>2. SlotInUse'
    BY <1>4, SlotFrame DEF vars, table
  <2>3. QED
    BY <1>4, <2>1, <2>2, Frame, SMTT(30) DEF vars, table, kernel
<1>5. QED
  BY <1>1, <1>2, <1>3, <1>4 DEF Next

(* The inductive invariant holds in every reachable state. *)
THEOREM Invariance == Spec => []IInv
  BY InitIInv, NextIInv, PTL DEF Spec

(* Every variable of the server keeps its type. *)
THEOREM TypeCorrect == Spec => []TypeOK
<1>1. IInv => TypeOK
  BY DEF IInv
<1>2. QED
  BY <1>1, Invariance, PTL

(* Every queued request belongs to the connection now on its descriptor. *)
THEOREM RequestsBelongToSender == Spec => []QueuedForSender
<1>1. IInv => QueuedForSender
  BY DEF IInv
<1>2. QED
  BY <1>1, Invariance, PTL

(* Descriptors and client slots correspond one to one. *)
THEOREM NoDescriptorLeak == Spec => []DescriptorsOwned
<1>1. IInv => DescriptorsOwned
  BY OwnedEquivalent DEF IInv
<1>2. QED
  BY <1>1, Invariance, PTL

(* The queue stays within its limit. *)
THEOREM QueueLimit == Spec => []QueueBounded
<1>1. IInv => QueueBounded
  BY DEF IInv
<1>2. QED
  BY <1>1, Invariance, PTL

------------------------------------------------------------------------------
(* The main loop. *)

(* Before the listener is open and after wc_server_uds_run has returned    *)
(* the server holds nothing.                                               *)
Lifecycle ==
  /\ pc = "start" => AllClosed /\ queue = <<>> /\ ~path
  /\ pc = "returned" => /\ AllClosed /\ queue = <<>> /\ listener = "closed"
                        /\ result = 0 => ~path

(* Only the buffer that is being parsed, or whose client is being removed, *)
(* may hold a complete or a malformed message.                             *)
Parsed ==
  \A s \in Slots : (pc \in {"parse", "remove"} /\ s = at) \/ ParseResult(s) = "NEED_MORE"

(* poll() is called when the queue is empty or its head has to wait. *)
Blocked == pc = "poll" => queue = <<>> \/ HeadBlocked

(* A malformed header comes from a client that sent one. *)
WellFormed ==
  /\ \A c \in Conns : \A i \in DOMAIN tosrv[c] : tosrv[c][i].part = 0 => malformed[c]
  /\ \A s \in Slots : \A i \in DOMAIN input[s] :
       input[s][i].part = 0 => malformed[input[s][i].conn]

(* Events are pending for clients in the table only, and a hang-up is      *)
(* reported of a client that hung up.                                      *)
Reported ==
  /\ pc = "remove" => revents[at] = {}
  /\ \A s \in Slots : client_fd[s] = -1 => revents[s] = {}
  /\ \A s \in Slots : client_fd[s] /= -1 /\ "HUP" \in revents[s]
                        => peer[file[client_fd[s]]] /= "open"

LoopInv == Lifecycle /\ Parsed /\ Blocked /\ WellFormed /\ Reported

------------------------------------------------------------------------------
(* The steps that only move control leave the rest alone. *)
LEMMA ControlLeaves ==
  ASSUME ControlStep
  PROVE  UNCHANGED <<table, queue, kernel, ends>>
<1>1. CASE TestStop \/ EnterPoll \/ PollReturns \/ PollFails
  BY <1>1 DEF TestStop, EnterPoll, PollReturns, PollFails
<1>2. CASE DispatchClient \/ DispatchEnds \/ ReadWouldBlock \/ ReadFails
  BY <1>2 DEF DispatchClient, DispatchEnds, ReadWouldBlock, ReadFails
<1>3. CASE ParseNeedsMore \/ EnqueueFails \/ WriteFails \/ WriteEnds
  BY <1>3 DEF ParseNeedsMore, EnqueueFails, WriteFails, WriteEnds
<1>4. CASE AcceptReturns \/ CloseAllClients \/ OpenListener \/ Signal
  BY <1>4 DEF AcceptReturns, CloseAllClients, OpenListener, Signal
<1> QED
  BY <1>1, <1>2, <1>3, <1>4 DEF ControlStep

(* Clients do not reach into the server. *)
LEMMA ClientsLeave ==
  ASSUME NEW c \in Conns, ClientStep(c)
  PROVE  UNCHANGED <<Server, stop_requested, file, faults>>
  BY Zenon DEF ClientStep, Connect, Send, SendMalformed, Receive, HangUp, kernel

(* The steps that move data. *)
LEMMA Steps ==
  ASSUME [Next]_vars
  PROVE  \/ UNCHANGED vars \/ ControlStep
         \/ ProcessQueue \/ ReadClient \/ EnqueueRequest \/ WriteClient
         \/ AcceptClient \/ AcceptRejected \/ DiscardRequest \/ CloseClient \/ Shutdown
         \/ \E c \in Conns : ClientStep(c)
  BY DEF Next, ServerStep, ControlStep

------------------------------------------------------------------------------
(* Lifecycle. *)

(* Control arrives at "returned" by two steps, and at "start" by none. *)
LEMMA ControlNotOver ==
  ASSUME ControlStep, ~OpenListener, ~Signal
  PROVE  pc' \notin {"start", "returned"}
<1>1. CASE TestStop \/ EnterPoll \/ PollReturns \/ PollFails
  BY <1>1 DEF TestStop, EnterPoll, PollReturns, PollFails
<1>2. CASE DispatchClient \/ DispatchEnds \/ ReadWouldBlock \/ ReadFails
  BY <1>2, Zenon DEF DispatchClient, DispatchEnds, ReadWouldBlock, ReadFails, RemoveClient
<1>3. CASE ParseNeedsMore \/ EnqueueFails \/ WriteFails \/ WriteEnds
  BY <1>3 DEF ParseNeedsMore, EnqueueFails, WriteFails, WriteEnds, RemoveClient
<1>4. CASE AcceptReturns \/ CloseAllClients
  BY <1>4, Zenon DEF AcceptReturns, CloseAllClients, RemoveClient
<1> QED
  BY <1>1, <1>2, <1>3, <1>4 DEF ControlStep

(* Only wc_server_uds_run's own steps open the listener or return. *)
LEMMA LifecycleStep == IInv /\ Lifecycle /\ [Next]_vars => Lifecycle'
<1> SUFFICES ASSUME IInv, Lifecycle, [Next]_vars PROVE Lifecycle'
  OBVIOUS
<1>1. CASE UNCHANGED vars
  BY <1>1 DEF vars, life, table, Lifecycle, AllClosed
<1>2. CASE OpenListener
  BY <1>2 DEF OpenListener, table, Lifecycle, AllClosed
<1>3. CASE Signal
  BY <1>3 DEF Signal, table, Lifecycle, AllClosed
<1>4. CASE Shutdown
  <2>1. result' = 0 => ~path'
    BY <1>4 DEF Shutdown
  <2> QED
    BY <1>4, <2>1 DEF Shutdown, table, Lifecycle, AllClosed
<1>5. CASE ControlStep /\ ~OpenListener /\ ~Signal
  BY <1>5, ControlNotOver DEF Lifecycle
<1>6. CASE ProcessQueue \/ ReadClient \/ EnqueueRequest \/ WriteClient
  <2>1. pc' \notin {"start", "returned"}
    BY <1>6, Zenon DEF ProcessQueue, ReadClient, EnqueueRequest, TakeRequest, WriteClient, Writing,
                RemoveClient
  <2> QED
    BY <2>1 DEF Lifecycle
<1>7. CASE AcceptClient \/ AcceptRejected \/ DiscardRequest
  <2>1. pc' \notin {"start", "returned"}
    BY <1>7 DEF AcceptClient, AcceptRejected, DiscardRequest
  <2> QED
    BY <2>1 DEF Lifecycle
<1>8. CASE CloseClient
  <2>1. pc' \notin {"start", "returned"}
    BY <1>8 DEF CloseClient, IInv, TypeOK, ControlTypes
  <2> QED
    BY <2>1 DEF Lifecycle
<1>9. CASE \E c \in Conns : ClientStep(c)
  BY <1>9, ClientsLeave DEF Server, table, Lifecycle, AllClosed
<1> QED
  BY <1>1, <1>2, <1>3, <1>4, <1>5, <1>6, <1>7, <1>8, <1>9, Steps

------------------------------------------------------------------------------
(* Parsed. *)

(* What a buffer parses to depends on the buffer only. *)
LEMMA SameParse ==
  ASSUME NEW s \in Slots, input'[s] = input[s]
  PROVE  ParseResult(s)' = ParseResult(s)
  BY DEF ParseResult

(* The steps that only move control leave "parse" with nothing left to     *)
(* parse, or to remove the client, and "remove" not at all.                *)
LEMMA ControlParses ==
  ASSUME ControlStep
  PROVE  \/ pc \notin {"parse", "remove"}
         \/ pc = "parse" /\ ParseResult(at) = "NEED_MORE"
         \/ pc' \in {"parse", "remove"} /\ at' = at
<1>1. CASE TestStop \/ EnterPoll \/ PollReturns \/ PollFails
  BY <1>1 DEF TestStop, EnterPoll, PollReturns, PollFails
<1>2. CASE DispatchClient \/ DispatchEnds \/ ReadWouldBlock \/ ReadFails
  BY <1>2 DEF DispatchClient, DispatchEnds, ReadWouldBlock, ReadFails
<1>3. CASE ParseNeedsMore \/ EnqueueFails
  BY <1>3 DEF ParseNeedsMore, EnqueueFails, RemoveClient
<1>4. CASE WriteFails \/ WriteEnds \/ AcceptReturns \/ CloseAllClients
  BY <1>4 DEF WriteFails, Writing, WriteEnds, AcceptReturns, CloseAllClients
<1>5. CASE OpenListener \/ Signal
  BY <1>5 DEF OpenListener, Signal
<1> QED
  BY <1>1, <1>2, <1>3, <1>4, <1>5 DEF ControlStep

(* A buffer that grows is parsed before control gets anywhere else. *)
LEMMA ParsedStep == IInv /\ Parsed /\ [Next]_vars => Parsed'
<1> SUFFICES ASSUME IInv, Parsed, [Next]_vars, NEW s \in Slots
             PROVE  (pc' \in {"parse", "remove"} /\ s = at') \/ ParseResult(s)' = "NEED_MORE"
  BY DEF Parsed
<1>0. /\ (pc \in {"parse", "remove"} /\ s = at) \/ ParseResult(s) = "NEED_MORE"
      /\ input \in [Slots -> Seq(UnitType)] /\ at \in Slots
  BY DEF Parsed, IInv, TypeOK, TableTypes, ControlTypes
<1>1. ASSUME UNCHANGED <<pc, at, input>>
      PROVE  (pc' \in {"parse", "remove"} /\ s = at') \/ ParseResult(s)' = "NEED_MORE"
  BY <1>0, <1>1, SameParse
<1>2. CASE UNCHANGED vars
  BY <1>1, <1>2 DEF vars, table
<1>3. CASE ControlStep
  <2>1. ParseResult(s)' = ParseResult(s)
    BY <1>3, ControlLeaves, SameParse DEF table
  <2> QED
    BY <1>0, <1>3, <2>1, ControlParses
<1>4. CASE ProcessQueue
  <2>1. input' = input /\ pc = "process"
    BY <1>4 DEF ProcessQueue
  <2>2. ParseResult(s)' = ParseResult(s)
    BY <2>1, SameParse
  <2> QED
    BY <1>0, <2>1, <2>2
<1>5. CASE ReadClient \/ EnqueueRequest
  <2>1. /\ pc' = "parse" /\ at' = at /\ pc \in {"read", "parse"}
        /\ s /= at => input'[s] = input[s]
    BY <1>0, <1>5 DEF ReadClient, EnqueueRequest, TakeRequest
  <2>2. CASE s = at
    BY <2>1, <2>2
  <2>3. CASE s /= at
    BY <1>0, <2>1, <2>3, SameParse, SMTT(30)
  <2> QED
    BY <2>2, <2>3
<1>6. CASE WriteClient \/ AcceptRejected \/ DiscardRequest
  BY <1>1, <1>6 DEF WriteClient, AcceptRejected, DiscardRequest, table
<1>7. CASE AcceptClient \/ CloseClient
  <2>1. /\ input'[s] = <<>> \/ (input'[s] = input[s] /\ (pc = "remove" => s /= at))
        /\ pc \in {"accept", "remove"}
    BY <1>0, <1>7, Zenon DEF AcceptClient, CloseClient
  <2>2. CASE input'[s] = <<>>
    BY <2>2 DEF ParseResult
  <2>3. CASE input'[s] = input[s] /\ (pc = "remove" => s /= at)
    BY <1>0, <2>1, <2>3, SameParse
  <2> QED
    BY <2>1, <2>2, <2>3
<1>8. CASE Shutdown
  <2>1. input' = input /\ pc = "closing"
    BY <1>8 DEF Shutdown, table
  <2> QED
    BY <1>0, <2>1, SameParse
<1>9. CASE \E c \in Conns : ClientStep(c)
  BY <1>1, <1>9, ClientsLeave DEF Server, table
<1> QED
  BY <1>2, <1>3, <1>4, <1>5, <1>6, <1>7, <1>8, <1>9, Steps

------------------------------------------------------------------------------
(* Blocked. *)

(* Control gets to poll() by way of wc_uds_process_queue only. *)
LEMMA BlockedStep == IInv /\ Blocked /\ [Next]_vars => Blocked'
<1> SUFFICES ASSUME IInv, Blocked, [Next]_vars PROVE Blocked'
  OBVIOUS
<1>1. ASSUME UNCHANGED <<pc, client_fd, output, queue>> PROVE Blocked'
  BY <1>1 DEF Blocked, HeadBlocked, FindClient, First
<1>2. CASE UNCHANGED vars
  BY <1>1, <1>2 DEF vars, table
<1>3. CASE EnterPoll
  BY <1>3 DEF EnterPoll, table, Blocked, HeadBlocked, FindClient, First
<1>4. CASE ControlStep /\ ~EnterPoll
  <2>1. pc' /= "poll"
    <3>1. CASE TestStop \/ PollReturns \/ PollFails
      BY <3>1 DEF TestStop, PollReturns, PollFails
    <3>2. CASE DispatchClient \/ DispatchEnds \/ ReadWouldBlock \/ ReadFails
      BY <3>2, Zenon DEF DispatchClient, DispatchEnds, ReadWouldBlock, ReadFails, RemoveClient
    <3>3. CASE ParseNeedsMore \/ EnqueueFails \/ WriteFails \/ WriteEnds
      BY <3>3 DEF ParseNeedsMore, EnqueueFails, WriteFails, WriteEnds, RemoveClient
    <3>4. CASE AcceptReturns \/ CloseAllClients \/ OpenListener \/ Signal
      BY <3>4, Zenon DEF AcceptReturns, CloseAllClients, OpenListener, Signal, RemoveClient
    <3> QED
      BY <1>4, <3>1, <3>2, <3>3, <3>4 DEF ControlStep
  <2> QED
    BY <2>1 DEF Blocked
<1>5. CASE ProcessQueue \/ ReadClient \/ EnqueueRequest \/ WriteClient
  <2>1. pc' /= "poll"
    BY <1>5, Zenon DEF ProcessQueue, ReadClient, EnqueueRequest, TakeRequest, WriteClient, Writing,
                RemoveClient
  <2> QED
    BY <2>1 DEF Blocked
<1>6. CASE AcceptClient \/ AcceptRejected \/ DiscardRequest \/ Shutdown
  <2>1. pc' /= "poll"
    BY <1>6 DEF AcceptClient, AcceptRejected, DiscardRequest, Shutdown
  <2> QED
    BY <2>1 DEF Blocked
<1>7. CASE CloseClient
  <2>1. pc' /= "poll"
    BY <1>7 DEF CloseClient, IInv, TypeOK, ControlTypes
  <2> QED
    BY <2>1 DEF Blocked
<1>8. CASE \E c \in Conns : ClientStep(c)
  BY <1>1, <1>8, ClientsLeave DEF Server, table
<1> QED
  BY <1>2, <1>3, <1>4, <1>5, <1>6, <1>7, <1>8, Steps

------------------------------------------------------------------------------
(* WellFormed. *)

(* A buffer with units appended holds its own units and the appended ones. *)
LEMMA ConcatElements ==
  ASSUME NEW p \in Seq(UnitType), NEW q \in Seq(UnitType), NEW j \in DOMAIN (p \o q)
  PROVE  (\E k \in DOMAIN p : (p \o q)[j] = p[k]) \/ (\E k \in DOMAIN q : (p \o q)[j] = q[k])
<1>1. /\ Len(p \o q) = Len(p) + Len(q) /\ p \o q \in Seq(UnitType)
      /\ \A i \in 1..(Len(p) + Len(q)) :
           (p \o q)[i] = IF i <= Len(p) THEN p[i] ELSE q[i - Len(p)]
  BY ConcatProperties, Zenon
<1>2. j \in 1..(Len(p) + Len(q)) /\ Len(p) \in Nat /\ Len(q) \in Nat
  BY <1>1, SMTT(30)
<1>3. CASE j <= Len(p)
  BY <1>1, <1>2, <1>3, j \in DOMAIN p
<1>4. CASE j > Len(p)
  <2>1. j - Len(p) \in DOMAIN q
    BY <1>2, <1>4
  <2>2. (p \o q)[j] = q[j - Len(p)]
    BY <1>1, <1>2, <1>4
  <2> QED
    BY <2>1, <2>2
<1> QED
  BY <1>2, <1>3, <1>4

(* A piece of a sequence holds units of the sequence. *)
LEMMA SubSeqElements ==
  ASSUME NEW q \in Seq(UnitType), NEW m \in 1..(Len(q) + 1), NEW n \in 0..Len(q),
         NEW j \in DOMAIN SubSeq(q, m, n)
  PROVE  \E k \in DOMAIN q : SubSeq(q, m, n)[j] = q[k]
  BY SubSeqProperties

(* Units move from the client to the buffer unaltered, and a client that   *)
(* sent a malformed header stays one that did.                             *)
LEMMA WellFormedStep == IInv /\ WellFormed /\ [Next]_vars => WellFormed'
<1> SUFFICES ASSUME IInv, WellFormed, [Next]_vars PROVE WellFormed'
  OBVIOUS
<1>0. /\ tosrv \in [Conns -> Seq(UnitType)] /\ input \in [Slots -> Seq(UnitType)]
      /\ at \in Slots
      /\ \A c \in Conns : \A i \in DOMAIN tosrv[c] : tosrv[c][i].conn = c
  BY DEF IInv, TypeOK, ControlTypes, TableTypes, KernelTypes, SentByPeer
<1>1. ASSUME UNCHANGED <<input, tosrv, malformed>> PROVE WellFormed'
  BY <1>1 DEF WellFormed
<1>2. CASE UNCHANGED vars
  BY <1>1, <1>2 DEF vars, table, kernel, ends
<1>3. CASE ControlStep
  BY <1>1, <1>3, ControlLeaves DEF table, kernel, ends
<1>4. CASE ProcessQueue \/ WriteClient \/ DiscardRequest
  BY <1>1, <1>4, Zenon DEF ProcessQueue, WriteClient, DiscardRequest, table, kernel, ends
<1>5. CASE ReadClient
  <2> DEFINE n == Smallest(Len(tosrv[Conn]), Smallest(Available, ReadUnits))
             taken == SubSeq(tosrv[Conn], 1, n)
             left == SubSeq(tosrv[Conn], n + 1, Len(tosrv[Conn]))
  <2>1. Conn \in Conns
    BY <1>5, ConnInUse DEF ReadClient
  <2>2. n \in 0..Len(tosrv[Conn])
    BY <1>0, <1>5, <2>1, SizeAssumption DEF ReadClient, Smallest, Available
  <2>3. /\ input' = [input EXCEPT ![at] = @ \o taken]
        /\ tosrv' = [tosrv EXCEPT ![Conn] = left] /\ malformed' = malformed
    BY <1>5, Zenon DEF ReadClient, ends
  <2> HIDE DEF n
  <2>4. tosrv[Conn] \in Seq(UnitType) /\ taken \in Seq(UnitType) /\ left \in Seq(UnitType)
    BY <1>0, <2>1, <2>2, SubSeqProperties
  <2>5. /\ \A j \in DOMAIN taken : taken[j].part = 0 => malformed[taken[j].conn]
        /\ \A j \in DOMAIN left : left[j].part = 0 => malformed[Conn]
    <3>1. \A k \in DOMAIN tosrv[Conn] : /\ tosrv[Conn][k].part = 0 => malformed[Conn]
                                        /\ tosrv[Conn][k].conn = Conn
      BY <1>0, <2>1 DEF WellFormed
    <3>2. \A j \in DOMAIN taken : \E k \in DOMAIN tosrv[Conn] : taken[j] = tosrv[Conn][k]
      BY <2>2, <2>4, SubSeqElements
    <3>3. \A j \in DOMAIN left : \E k \in DOMAIN tosrv[Conn] : left[j] = tosrv[Conn][k]
      BY <2>2, <2>4, SubSeqElements
    <3> QED
      BY <3>1, <3>2, <3>3, Zenon
  <2> HIDE DEF taken, left
  <2>6. ASSUME NEW c \in Conns, NEW i \in DOMAIN tosrv'[c], tosrv'[c][i].part = 0
        PROVE  malformed'[c]
    BY <1>0, <2>1, <2>3, <2>5, <2>6 DEF WellFormed
  <2>7. ASSUME NEW s \in Slots, NEW i \in DOMAIN input'[s], input'[s][i].part = 0
        PROVE  malformed'[input'[s][i].conn]
    <3>1. CASE s = at
      <4>1. input'[s] = input[s] \o taken
        BY <1>0, <2>3, <3>1
      <4>2. \/ \E k \in DOMAIN input[s] : input'[s][i] = input[s][k]
            \/ \E k \in DOMAIN taken : input'[s][i] = taken[k]
        <5>1. input[s] \in Seq(UnitType) /\ i \in DOMAIN (input[s] \o taken)
          BY <1>0, <2>7, <4>1
        <5>2. \/ \E k \in DOMAIN input[s] : (input[s] \o taken)[i] = input[s][k]
              \/ \E k \in DOMAIN taken : (input[s] \o taken)[i] = taken[k]
          BY <2>4, <5>1, ConcatElements, Zenon
        <5> QED
          BY <4>1, <5>2, Zenon
      <4> QED
        BY <2>3, <2>5, <2>7, <4>2 DEF WellFormed
    <3>2. CASE s /= at
      BY <1>0, <2>3, <2>7, <3>2 DEF WellFormed
    <3> QED
      BY <3>1, <3>2
  <2> QED
    BY <2>6, <2>7, SMTT(30) DEF WellFormed
<1>6. CASE EnqueueRequest
  <2>1. /\ input' = [input EXCEPT ![at] = Consume(input[at], FrameUnits)]
        /\ UNCHANGED <<tosrv, malformed>> /\ FrameUnits \in 0..Len(input[at])
    BY <1>0, <1>6, SizeAssumption DEF EnqueueRequest, TakeRequest, ParseResult, kernel, ends
  <2>2. ASSUME NEW s \in Slots, NEW i \in DOMAIN input'[s]
        PROVE  \E k \in DOMAIN input[s] : input'[s][i] = input[s][k]
    <3>1. CASE s = at
      <4>1. input'[s] = SubSeq(input[s], FrameUnits + 1, Len(input[s]))
        BY <1>0, <2>1, <3>1 DEF Consume
      <4>2. FrameUnits + 1 \in 1..(Len(input[s]) + 1) /\ Len(input[s]) \in 0..Len(input[s])
        BY <1>0, <2>1, <3>1
      <4>3. /\ input[s] \in Seq(UnitType)
            /\ i \in DOMAIN SubSeq(input[s], FrameUnits + 1, Len(input[s]))
        BY <1>0, <2>2, <4>1
      <4>4. \E k \in DOMAIN input[s] :
              SubSeq(input[s], FrameUnits + 1, Len(input[s]))[i] = input[s][k]
        BY <4>2, <4>3, SubSeqElements, Zenon
      <4> QED
        BY <4>1, <4>4, Zenon
    <3>2. CASE s /= at
      BY <1>0, <2>1, <3>2
    <3> QED
      BY <3>1, <3>2
  <2> QED
    BY <2>1, <2>2 DEF WellFormed
<1>7. CASE AcceptClient
  <2>1. /\ UNCHANGED <<tosrv, malformed>>
        /\ \A s \in Slots : input'[s] = <<>> \/ input'[s] = input[s]
    BY <1>0, <1>7 DEF AcceptClient, ends
  <2> QED
    BY <2>1 DEF WellFormed
<1>8. CASE AcceptRejected \/ CloseClient \/ Shutdown
  <2>1. /\ malformed' = malformed
        /\ \A s \in Slots : input'[s] = <<>> \/ input'[s] = input[s]
    BY <1>0, <1>8 DEF AcceptRejected, CloseClient, Shutdown, ends, table
  <2>2. \A c \in Conns : tosrv'[c] = <<>> \/ tosrv'[c] = tosrv[c]
    BY <1>0, <1>8, Zenon DEF AcceptRejected, CloseClient, Shutdown
  <2> QED
    BY <2>1, <2>2, SMTT(30) DEF WellFormed
<1>9. ASSUME NEW c \in Conns, ClientStep(c) PROVE WellFormed'
  <2>0. UNCHANGED input
    BY <1>9, ClientsLeave DEF Server, table
  <2>1. CASE Connect(c) \/ Receive(c) \/ HangUp(c)
    BY <1>1, <2>0, <2>1, Zenon DEF Connect, Receive, HangUp, ends, kernel
  <2>2. ASSUME NEW u \in UnitType, tosrv' = [tosrv EXCEPT ![c] = Append(@, u)],
               u.part = 0 => malformed'[c],
               \A d \in Conns : malformed[d] => malformed'[d]
        PROVE  WellFormed'
    <3>1. /\ Append(tosrv[c], u) \in Seq(UnitType)
          /\ \A i \in DOMAIN Append(tosrv[c], u) :
               \/ i \in DOMAIN tosrv[c] /\ Append(tosrv[c], u)[i] = tosrv[c][i]
               \/ Append(tosrv[c], u)[i] = u
      BY <1>0, AppendElements
    <3>2. ASSUME NEW d \in Conns, NEW i \in DOMAIN tosrv'[d], tosrv'[d][i].part = 0
          PROVE  malformed'[d]
      <4>1. CASE d = c
        <5>1. tosrv'[d] = Append(tosrv[c], u)
          BY <1>0, <2>2, <4>1
        <5> QED
          BY <2>2, <3>1, <3>2, <4>1, <5>1, Zenon DEF WellFormed
      <4>2. CASE d /= c
        BY <1>0, <2>2, <3>2, <4>2 DEF WellFormed
      <4> QED
        BY <4>1, <4>2
    <3>3. ASSUME NEW s \in Slots, NEW i \in DOMAIN input[s], input[s][i].part = 0
          PROVE  malformed'[input[s][i].conn]
      <4>1. malformed[input[s][i].conn]
        BY <3>3 DEF WellFormed
      <4>2. input[s][i] \in UnitType
        BY <1>0, <3>3
      <4>3. input[s][i].conn \in Conns
        BY <4>2 DEF UnitType
      <4> QED
        BY <2>2, <4>1, <4>3
    <3> QED
      BY <2>0, <3>2, <3>3, Zenon DEF WellFormed
  <2>3. CASE Send(c)
    <3>1. sent[c] \in Nat
      BY DEF IInv, TypeOK, ClientTypes
    <3>2. Unit(c, sent[c] + 1, FrameUnits) \in UnitType
      BY <3>1, UnitIsUnit, SizeAssumption, SMTT(30)
    <3>3. Unit(c, sent[c] + 1, FrameUnits).part /= 0
      BY <3>1, SizeAssumption DEF Unit
    <3> QED
      BY <2>2, <2>3, <3>2, <3>3, Zenon DEF Send
  <2>4. CASE SendMalformed(c)
    <3>1. BadUnit(c) \in UnitType
      BY DEF BadUnit, UnitType
    <3>2. malformed'[c] /\ \A d \in Conns : malformed[d] => malformed'[d]
      BY <2>4 DEF SendMalformed, IInv, TypeOK, ClientTypes
    <3> QED
      BY <2>2, <2>4, <3>1, <3>2, Zenon DEF SendMalformed
  <2> QED
    BY <1>9, <2>1, <2>3, <2>4 DEF ClientStep
<1> QED
  BY <1>2, <1>3, <1>4, <1>5, <1>6, <1>7, <1>8, <1>9, Steps

------------------------------------------------------------------------------
(* Reported. *)

(* Entering wc_uds_remove_client, or the end of a turn, clears the events  *)
(* of one entry.                                                           *)
LEMMA ClearedReported ==
  ASSUME IInv, Reported, UNCHANGED <<client_fd, file, peer>>, NEW d \in 0..MaxClients,
         revents' = [revents EXCEPT ![d] = {}],
         pc' = "remove" => at' = d
  PROVE  Reported'
<1>1. /\ \A e \in 0..MaxClients : revents'[e] = IF e = d THEN {} ELSE revents[e]
      /\ \A s \in Slots : s \in 0..MaxClients
  BY SizeAssumption DEF IInv, TypeOK, ControlTypes, Slots
<1>2. pc' = "remove" => revents'[at'] = {}
  BY <1>1
<1>3. \A s \in Slots : revents'[s] = {} \/ revents'[s] = revents[s]
  BY <1>1
<1> QED
  BY <1>2, <1>3 DEF Reported

(* The steps that only move control set, keep or clear the pending events. *)
LEMMA ControlReports ==
  ASSUME IInv, ControlStep
  PROVE  \/ PollReturns
         \/ /\ revents' = revents
            /\ pc' = "remove" => pc = "remove" /\ at' = at
         \/ \E d \in 0..MaxClients : /\ revents' = [revents EXCEPT ![d] = {}]
                                     /\ pc' = "remove" => at' = d
<1>0. at \in 0..MaxClients /\ 0 \in 0..MaxClients /\ \A s \in Slots : s \in 0..MaxClients
  BY SizeAssumption DEF IInv, TypeOK, ControlTypes, Slots
<1>1. CASE TestStop \/ EnterPoll \/ PollFails \/ OpenListener
  BY <1>1 DEF TestStop, EnterPoll, PollFails, OpenListener
<1>2. CASE DispatchClient \/ DispatchEnds \/ ReadWouldBlock \/ ParseNeedsMore
  BY <1>2, Zenon DEF DispatchClient, DispatchEnds, ReadWouldBlock, ParseNeedsMore
<1>3. CASE ReadFails \/ EnqueueFails \/ WriteFails
  BY <1>0, <1>3, Zenon DEF ReadFails, EnqueueFails, WriteFails, RemoveClient
<1>4. CASE WriteEnds
  BY <1>0, <1>4, Zenon DEF WriteEnds, RemoveClient
<1>5. CASE AcceptReturns
  <2>1. revents' = [revents EXCEPT ![0] = {}] /\ pc' /= "remove"
    BY <1>5 DEF AcceptReturns
  <2> QED
    BY <1>0, <2>1, Zenon
<1>6. CASE CloseAllClients
  BY <1>0, <1>6, Zenon DEF CloseAllClients, RemoveClient, First
<1>7. CASE Signal
  BY <1>7 DEF Signal
<1> QED
  BY <1>1, <1>2, <1>3, <1>4, <1>5, <1>6, <1>7 DEF ControlStep

(* An event that is pending stays true: a slot is emptied with its events, *)
(* a peer that hung up stays hung up, and a descriptor that is handed out  *)
(* again goes to an entry poll() did not report.                           *)
LEMMA ReportedStep == IInv /\ IInv' /\ Reported /\ [Next]_vars => Reported'
<1> SUFFICES ASSUME IInv, IInv', Reported, [Next]_vars PROVE Reported'
  OBVIOUS
<1>0. /\ client_fd \in [Slots -> Fds \cup {-1}] /\ at \in Slots
      /\ file \in [Fds -> Conns \cup {NoConn}]
      /\ peer \in [Conns -> {"open", "half", "gone"}]
      /\ \A f \in Fds : f /= -1
  BY DescriptorNumber, SMTT(30) DEF IInv, TypeOK, ControlTypes, TableTypes, KernelTypes, ClientTypes
<1>1. ASSUME UNCHANGED <<revents, client_fd, file, peer>>,
             pc' = "remove" => pc = "remove" /\ at' = at
      PROVE  Reported'
  BY <1>1 DEF Reported
<1>2. CASE UNCHANGED vars
  BY <1>1, <1>2 DEF vars, table, kernel, ends
<1>3. CASE PollReturns
  <2>1. /\ pc' /= "remove" /\ UNCHANGED <<client_fd, file, peer>>
        /\ \A s \in Slots : revents'[s] = Revents(s) /\ s /= 0
    BY <1>3, SizeAssumption DEF PollReturns, table, kernel, ends, Slots
  <2>2. ASSUME NEW s \in Slots
        PROVE  /\ client_fd[s] = -1 => Revents(s) = {}
               /\ client_fd[s] /= -1 /\ "HUP" \in Revents(s) => peer[file[client_fd[s]]] = "gone"
    BY <2>1, Zenon DEF Revents, Condition, Events
  <2> QED
    BY <2>1, <2>2 DEF Reported
<1>4. CASE ControlStep /\ ~PollReturns
  <2>1. UNCHANGED <<client_fd, file, peer>>
    BY <1>4, ControlLeaves DEF table, kernel, ends
  <2> QED
    BY <1>1, <1>4, <2>1, ControlReports, ClearedReported, Zenon
<1>5. CASE ProcessQueue
  <2>1. UNCHANGED <<client_fd, file, peer>> /\ pc = "process"
    BY <1>5 DEF ProcessQueue, kernel, ends
  <2>2. \/ UNCHANGED <<pc, revents>>
        \/ \E s \in Slots : revents' = [revents EXCEPT ![s] = {}] /\ at' = s
    BY <1>5, Zenon DEF ProcessQueue, RemoveClient, First, FindClient
  <2>3. \A s \in Slots : s \in 0..MaxClients
    BY SizeAssumption DEF Slots
  <2> QED
    BY <1>1, <2>1, <2>2, <2>3, ClearedReported, SMTT(30)
<1>6. CASE ReadClient \/ EnqueueRequest \/ WriteClient \/ AcceptRejected
  <2>1. UNCHANGED <<revents, client_fd, file, peer>> /\ pc' /= "remove"
    BY <1>6, Zenon DEF ReadClient, EnqueueRequest, TakeRequest, WriteClient, Writing, AcceptRejected,
                table, kernel, ends
  <2> QED
    BY <1>1, <2>1, SMTT(30)
<1>7. CASE DiscardRequest \/ Shutdown
  BY <1>1, <1>7 DEF DiscardRequest, Shutdown, table, kernel, ends
<1>8. CASE AcceptClient
  <2>1. PICK s \in First({t \in Slots : client_fd[t] = -1}), f \in First(FreeFds) :
          /\ client_fd' = [client_fd EXCEPT ![s] = f]
          /\ file' = [file EXCEPT ![f] = Head(backlog)]
    BY <1>8, Zenon DEF AcceptClient
  <2>2. /\ s \in Slots /\ client_fd[s] = -1 /\ f \in Fds /\ file[f] = NoConn
        /\ revents[s] = {}
    BY Zenon DEF First, FreeFds, Reported
  <2>3. UNCHANGED <<revents, peer>> /\ pc' /= "remove"
    BY <1>8 DEF AcceptClient, ends
  <2>4. ASSUME NEW t \in Slots
        PROVE  /\ client_fd'[t] = -1 => revents'[t] = {}
               /\ client_fd'[t] /= -1 /\ "HUP" \in revents'[t]
                    => peer'[file'[client_fd'[t]]] /= "open"
    <3>1. CASE t = s
      BY <1>0, <2>1, <2>2, <2>3, <3>1, SMTT(30)
    <3>2. CASE t /= s
      <4>1. client_fd'[t] = client_fd[t]
        BY <1>0, <2>1, <3>2
      <4>2. ASSUME client_fd[t] /= -1 PROVE file'[client_fd[t]] = file[client_fd[t]]
        <5>1. file[client_fd[t]] /= NoConn /\ client_fd[t] \in Fds
          BY <1>0, <4>2 DEF IInv, Owned, HeldOpen
        <5> QED
          BY <1>0, <2>1, <2>2, <5>1
      <4> QED
        BY <2>3, <4>1, <4>2 DEF Reported
    <3> QED
      BY <3>1, <3>2, Zenon
  <2> QED
    BY <2>3, <2>4, Zenon DEF Reported
<1>9. CASE CloseClient
  <2>1. /\ client_fd' = [client_fd EXCEPT ![at] = -1]
        /\ file' = [file EXCEPT ![client_fd[at]] = NoConn]
        /\ UNCHANGED <<revents, peer>> /\ revents[at] = {} /\ pc' /= "remove"
        /\ client_fd[at] /= -1
    BY <1>9 DEF CloseClient, Closed, ends, Reported, IInv, TypeOK, ControlTypes, SlotInUse
  <2>2. ASSUME NEW t \in Slots
        PROVE  /\ client_fd'[t] = -1 => revents'[t] = {}
               /\ client_fd'[t] /= -1 /\ "HUP" \in revents'[t]
                    => peer'[file'[client_fd'[t]]] /= "open"
    <3>1. CASE t = at
      BY <1>0, <2>1, <3>1
    <3>2. CASE t /= at
      <4>1. client_fd'[t] = client_fd[t]
        BY <1>0, <2>1, <3>2
      <4>2. ASSUME client_fd[t] /= -1 PROVE file'[client_fd[t]] = file[client_fd[t]]
        <5>1. client_fd[t] /= client_fd[at] /\ client_fd[t] \in Fds
          BY <1>0, <2>1, <3>2, <4>2, SMTT(30) DEF IInv, Owned, Injective
        <5> QED
          BY <1>0, <2>1, <5>1
      <4> QED
        BY <2>1, <4>1, <4>2 DEF Reported
    <3> QED
      BY <3>1, <3>2
  <2> QED
    BY <2>1, <2>2 DEF Reported
<1>10. ASSUME NEW c \in Conns, ClientStep(c) PROVE Reported'
  <2>1. UNCHANGED <<pc, at, revents, client_fd, file>>
    BY <1>10, ClientsLeave DEF Server, table
  <2>2. \A d \in Conns : peer[d] /= "open" => peer'[d] /= "open"
    BY <1>0, <1>10, Zenon DEF ClientStep, Connect, Send, SendMalformed, Receive, HangUp, ends
  <2>3. ASSUME NEW s \in Slots, client_fd[s] /= -1 PROVE file[client_fd[s]] \in Conns
    BY <1>0, <2>3 DEF IInv, Owned, HeldOpen
  <2> QED
    BY <2>1, <2>2, <2>3 DEF Reported
<1> QED
  BY <1>2, <1>3, <1>4, <1>5, <1>6, <1>7, <1>8, <1>9, <1>10, Steps

------------------------------------------------------------------------------
(* The invariant of the main loop. *)
LEMMA LoopInvariance == Spec => []LoopInv
<1>1. Init => LoopInv
  <2> SUFFICES ASSUME Init PROVE LoopInv
    OBVIOUS
  <2>1. Lifecycle /\ Blocked
    BY DEF Init, Lifecycle, AllClosed, Blocked
  <2>2. Parsed /\ WellFormed
    BY DEF Init, Parsed, ParseResult, WellFormed
  <2>3. Reported
    BY SizeAssumption DEF Init, Reported, Slots
  <2> QED
    BY <2>1, <2>2, <2>3 DEF LoopInv
<1>2. IInv /\ IInv' /\ LoopInv /\ [Next]_vars => LoopInv'
  BY LifecycleStep, ParsedStep, BlockedStep, WellFormedStep, ReportedStep DEF LoopInv
<1> QED
  BY <1>1, <1>2, Invariance, PTL DEF Spec

(* Whatever fails on the way, wc_server_uds_run returns with every client  *)
(* descriptor and the listener closed and the queue freed, and reports a   *)
(* path it could not unlink.                                               *)
THEOREM ReturnsClean == Spec => []CleanShutdown
<1>1. ASSUME IInv, LoopInv PROVE CleanShutdown
  <2> SUFFICES ASSUME pc = "returned", NEW f \in Fds PROVE file[f] = NoConn
    BY <1>1 DEF CleanShutdown, LoopInv, Lifecycle
  <2>1. \A s \in Slots : client_fd[s] /= f
    BY <1>1, DescriptorNumber DEF LoopInv, Lifecycle, AllClosed
  <2> QED
    BY <1>1, <2>1 DEF IInv, Owned, OpenHeld
<1> QED
  BY <1>1, Invariance, LoopInvariance, PTL

(* The server goes to sleep only when some event it asked for will wake it *)
(* for every request it holds.                                             *)
THEOREM SleepsOnlyWhenBlockedAlways == Spec => []SleepsOnlyWhenBlocked
<1>1. ASSUME IInv, LoopInv PROVE SleepsOnlyWhenBlocked
  <2> SUFFICES ASSUME pc = "poll"
               PROVE  /\ queue /= <<>> => \E s \in FindClient(Head(queue).fd) : "OUT" \in Events(s)
                      /\ \A s \in Slots : ParseResult(s) = "NEED_MORE"
    BY DEF SleepsOnlyWhenBlocked
  <2>1. \A s \in Slots : ParseResult(s) = "NEED_MORE"
    BY <1>1 DEF LoopInv, Parsed
  <2>2. ASSUME queue /= <<>> PROVE \E s \in FindClient(Head(queue).fd) : "OUT" \in Events(s)
    <3>1. PICK s \in First(FindClient(Head(queue).fd)) : output[s] /= <<>>
      BY <1>1, <2>2 DEF LoopInv, Blocked, HeadBlocked
    <3>2. Head(queue) \in RequestType
      BY <1>1, <2>2 DEF IInv, TypeOK, TableTypes
    <3>3. s \in FindClient(Head(queue).fd) /\ s \in Slots /\ client_fd[s] /= -1 /\ s /= 0
      BY <3>2, DescriptorNumber, SizeAssumption DEF First, FindClient, RequestType, Slots
    <3>4. "OUT" \in Events(s)
      BY <3>1, <3>3 DEF Events
    <3> QED
      BY <3>3, <3>4
  <2> QED
    BY <2>1, <2>2
<1> QED
  BY <1>1, Invariance, LoopInvariance, PTL

(* Whatever its neighbours do and however fast it sends, a client is       *)
(* disconnected only for something it did itself, for a request of its own *)
(* that met a full queue, or for a failing call.                           *)
THEOREM ClosedForCauseAlways == Spec => ClosedForCause
<1> DEFINE Cause == pc' = "remove" /\ pc /= "remove" /\ caller' /= "closing" /\ faults' = 0
                      => LET c == file[client_fd[at']]
                         IN  peer[c] /= "open" \/ malformed[c] \/ TurnedAway(at')
<1>1. ASSUME IInv, LoopInv, [Next]_vars PROVE [Cause]_vars
  <2> SUFFICES ASSUME pc' = "remove", pc /= "remove", caller' /= "closing", faults' = 0
               PROVE  LET c == file[client_fd[at']]
                      IN  peer[c] /= "open" \/ malformed[c] \/ TurnedAway(at')
    OBVIOUS
  <2>0. /\ faults \in Nat /\ at \in Slots /\ input \in [Slots -> Seq(UnitType)]
        /\ output \in [Slots -> Seq(UnitType)]
    BY <1>1, SizeAssumption DEF IInv, TypeOK, ControlTypes, TableTypes
  <2>1. ProcessQueue \/ ReadFails \/ EnqueueFails \/ WriteFails \/ WriteEnds
    <3>1. ~(UNCHANGED vars) /\ ~Signal /\ ~\E c \in Conns : ClientStep(c)
      BY <1>1, ClientsLeave DEF vars, Signal, Server
    <3>2. ~TestStop /\ ~EnterPoll /\ ~PollReturns /\ ~PollFails /\ ~OpenListener
      BY DEF TestStop, EnterPoll, PollReturns, PollFails, OpenListener
    <3>3. /\ ~DispatchClient /\ ~DispatchEnds /\ ~ReadWouldBlock /\ ~ParseNeedsMore
          /\ ~AcceptReturns /\ ~CloseAllClients
      BY Zenon DEF DispatchClient, DispatchEnds, ReadWouldBlock, ParseNeedsMore, AcceptReturns,
             CloseAllClients, RemoveClient
    <3>4. /\ ~ReadClient /\ ~EnqueueRequest /\ ~WriteClient /\ ~AcceptClient /\ ~AcceptRejected
          /\ ~DiscardRequest /\ ~CloseClient /\ ~Shutdown
      BY Zenon DEF ReadClient, EnqueueRequest, TakeRequest, WriteClient, AcceptClient,
             AcceptRejected, DiscardRequest, CloseClient, Shutdown
    <3> QED
      BY <1>1, <3>1, <3>2, <3>3, <3>4, Steps, Zenon DEF ControlStep
  <2>2. CASE ProcessQueue
    <3>1. PICK s \in First(FindClient(Head(queue).fd)) : IF HasRoom(s) THEN Fault ELSE NoFault
      BY <2>2 DEF ProcessQueue
    <3>2. output[s] = <<>> /\ s \in Slots
      BY <2>2 DEF ProcessQueue, HeadBlocked, First, FindClient
    <3>3. HasRoom(s)
      BY <3>2, SizeAssumption DEF HasRoom
    <3> QED
      BY <2>0, <3>1, <3>3, SMTT(30) DEF Fault
  <2>3. CASE ReadFails
    <3>1. at' = at /\ pc = "read" /\ faults' = faults
      <4>1. pc = "read" /\ at' = at /\ (NoFault \/ Fault)
        BY <2>3, Zenon DEF ReadFails, RemoveClient
      <4>2. ~Fault
        BY <2>0 DEF Fault
      <4> QED
        BY <4>1, <4>2, Zenon DEF NoFault
    <3>2. ParseResult(at) = "NEED_MORE"
      BY <1>1, <2>0, <3>1 DEF LoopInv, Parsed
    <3>3. Available /= 0
      BY <1>1, <2>0, <3>1, <3>2, SizeAssumption DEF ParseResult, Available, LoopInv, WellFormed
    <3>4. peer[Conn] /= "open"
      BY <2>0, <2>3, <3>3 DEF ReadFails, Fault
    <3> QED
      BY <3>1, <3>4, SMTT(30) DEF Conn
  <2>4. CASE EnqueueFails
    <3>1. at' = at /\ (ParseResult(at) = "INVALID" \/ TurnedAway(at)) /\ pc = "parse"
      BY <2>0, <2>4 DEF EnqueueFails, RemoveClient, Fault, TurnedAway
    <3>2. ASSUME ParseResult(at) = "INVALID" PROVE malformed[file[client_fd[at]]]
      <4>1. input[at] /= <<>> /\ Head(input[at]).part = 0
        BY <3>2 DEF ParseResult
      <4>2. 1 \in DOMAIN input[at] /\ Head(input[at]) = input[at][1]
        BY <2>0, <4>1
      <4>3. malformed[input[at][1].conn]
        BY <1>1, <2>0, <4>1, <4>2 DEF LoopInv, WellFormed
      <4>4. input[at][1].conn = file[client_fd[at]]
        BY <1>1, <2>0, <3>1, <4>2 DEF IInv, SlotInUse, BufferedForSender
      <4> QED
        BY <4>3, <4>4
    <3> QED
      BY <3>1, <3>2
  <2>5. CASE WriteFails
    <3>1. at' = at /\ peer[Conn] = "gone"
      BY <2>0, <2>5 DEF WriteFails, RemoveClient, Fault
    <3> QED
      BY <3>1 DEF Conn
  <2>6. CASE WriteEnds
    <3>1. at' = at /\ "HUP" \in revents[at] /\ pc = "write"
      BY <2>6 DEF WriteEnds, RemoveClient
    <3>2. client_fd[at] /= -1
      BY <1>1, <3>1 DEF IInv, SlotInUse
    <3> QED
      BY <1>1, <2>0, <3>1, <3>2 DEF LoopInv, Reported
  <2> QED
    BY <2>1, <2>2, <2>3, <2>4, <2>5, <2>6
<1> QED
  BY <1>1, Invariance, LoopInvariance, PTL DEF Spec, ClosedForCause

(* Slot s serves connection c: its client is not being removed. *)
Served(s, c) ==
  client_fd[s] /= -1 /\ file[client_fd[s]] = c /\ ~(pc = "remove" /\ at = s)

(* With slot s serving it, a requests of connection c were answered, those *)
(* up to b wait in the queue, and the rest was not parsed yet.             *)
Account(s, c) ==
  \E a, b \in Nat :
    /\ Answered(c, got[c], tocli[c], output[s], a)
    /\ Pending(c, queue, a, b)
    /\ Incoming(c, input[s], tosrv[c], sent[c], malformed[c], b)

(* A slot accounts for the connection it serves. *)
Accounted == \A s \in Slots, c \in Conns : Served(s, c) => Account(s, c)

(* A connection that was not accepted yet has only been written to. *)
Fresh ==
  \A c \in Conns : sock[c] \in {"none", "backlog"} =>
    /\ got[c] = <<>> /\ tocli[c] = <<>>
    /\ Incoming(c, <<>>, tosrv[c], sent[c], malformed[c], 0)

(* What left the server are the first responses, to requests that were     *)
(* sent completely.                                                        *)
Delivered ==
  \A c \in Conns :
    /\ Piece(got[c], 0, AnswerUnits(c))
    /\ Piece(tocli[c], Len(got[c]), AnswerUnits(c))
    /\ \E a \in Nat : /\ Len(got[c]) + Len(tocli[c]) <= a * ResponseUnits
                      /\ a * FrameUnits <= sent[c]

(* A connection waits in the backlog once, or is referred to by one        *)
(* descriptor.                                                             *)
OneEnd ==
  /\ \A f \in Fds : file[f] /= NoConn => sock[file[f]] = "open"
  /\ \A f, g \in Fds : file[f] /= NoConn /\ file[f] = file[g] => f = g
  /\ \A i \in DOMAIN backlog : sock[backlog[i]] = "backlog"
  /\ \A i, j \in DOMAIN backlog : backlog[i] = backlog[j] => i = j

OrderInv == OneEnd /\ Fresh /\ Delivered /\ Accounted

------------------------------------------------------------------------------
(* The steps, by what they do to the account of a connection. *)

(* The types of what an account speaks of. *)
LEMMA AccountTypes ==
  ASSUME IInv, NEW s \in Slots, NEW c \in Conns
  PROVE  /\ got[c] \in Seq(UnitType) /\ tocli[c] \in Seq(UnitType)
         /\ tosrv[c] \in Seq(UnitType) /\ sent[c] \in Nat /\ malformed[c] \in BOOLEAN
         /\ input[s] \in Seq(UnitType) /\ output[s] \in Seq(UnitType)
         /\ queue \in Seq(RequestType)
  BY DEF IInv, TypeOK, TableTypes, KernelTypes, ClientTypes

(* A slot in use serves an open connection, and no other slot serves it. *)
LEMMA OneSlot ==
  ASSUME IInv, OneEnd, NEW s \in Slots, client_fd[s] /= -1
  PROVE  /\ client_fd[s] \in Fds /\ file[client_fd[s]] \in Conns
         /\ sock[file[client_fd[s]]] = "open"
         /\ \A f \in Fds : file[f] = file[client_fd[s]] => f = client_fd[s]
         /\ \A t \in Slots : client_fd[t] /= -1 /\ t /= s
                               => file[client_fd[t]] /= file[client_fd[s]]
<1>1. client_fd \in [Slots -> Fds \cup {-1}] /\ file \in [Fds -> Conns \cup {NoConn}]
  BY DEF IInv, TypeOK, TableTypes, KernelTypes
<1>2. /\ client_fd[s] \in Fds /\ file[client_fd[s]] \in Conns
      /\ file[client_fd[s]] /= NoConn
  BY <1>1 DEF IInv, Owned, HeldOpen
<1>3. \A f \in Fds : file[f] = file[client_fd[s]] => f = client_fd[s]
  BY <1>2 DEF OneEnd
<1>4. ASSUME NEW t \in Slots, client_fd[t] /= -1, t /= s
      PROVE  file[client_fd[t]] /= file[client_fd[s]]
  <2>1. client_fd[t] \in Fds /\ client_fd[t] /= client_fd[s]
    BY <1>1, <1>4 DEF IInv, Owned, Injective
  <2> QED
    BY <1>3, <2>1
<1> QED
  BY <1>2, <1>3, <1>4 DEF OneEnd

(* The head of the backlog is a fresh connection; the others stay behind. *)
LEMMA HeadOfBacklog ==
  ASSUME IInv, OneEnd, backlog /= <<>>
  PROVE  /\ Head(backlog) \in Conns /\ sock[Head(backlog)] = "backlog"
         /\ \A i \in DOMAIN Tail(backlog) : /\ i + 1 \in DOMAIN backlog
                                            /\ Tail(backlog)[i] = backlog[i + 1]
                                            /\ Tail(backlog)[i] /= Head(backlog)
<1>1. backlog \in Seq(Conns)
  BY DEF IInv, TypeOK, KernelTypes
<1>2. /\ 1 \in DOMAIN backlog /\ Head(backlog) = backlog[1] /\ Head(backlog) \in Conns
      /\ \A i \in DOMAIN Tail(backlog) : /\ i + 1 \in DOMAIN backlog /\ i + 1 /= 1
                                         /\ Tail(backlog)[i] = backlog[i + 1]
  BY <1>1
<1> QED
  BY <1>2 DEF OneEnd

(* accept() moves a connection from the backlog to a free descriptor, and  *)
(* close() ends it.                                                        *)
LEMMA OneEndStep == IInv /\ OneEnd /\ [Next]_vars => OneEnd'
<1> SUFFICES ASSUME IInv, OneEnd, [Next]_vars PROVE OneEnd'
  OBVIOUS
<1>0. /\ client_fd \in [Slots -> Fds \cup {-1}] /\ at \in Slots
      /\ file \in [Fds -> Conns \cup {NoConn}] /\ backlog \in Seq(Conns)
      /\ sock \in [Conns -> {"none", "backlog", "open", "closed"}]
      /\ NoConn \notin Conns
  BY ConnAssumption DEF IInv, TypeOK, ControlTypes, TableTypes, KernelTypes
<1>1. ASSUME UNCHANGED <<file, sock, backlog>> PROVE OneEnd'
  BY <1>1 DEF OneEnd
<1>2. CASE UNCHANGED vars \/ ControlStep
  <2>1. UNCHANGED <<file, sock, backlog>>
    BY <1>2, ControlLeaves DEF vars, kernel
  <2> QED
    BY <1>1, <2>1
<1>3. CASE ProcessQueue \/ ReadClient \/ EnqueueRequest \/ WriteClient \/ DiscardRequest
  <2>1. UNCHANGED <<file, sock, backlog>>
    BY <1>3, Zenon DEF ProcessQueue, ReadClient, EnqueueRequest, TakeRequest, WriteClient,
                DiscardRequest, kernel
  <2> QED
    BY <1>1, <2>1
<1>4. CASE AcceptClient
  <2>1. PICK f \in First(FreeFds) :
          /\ file' = [file EXCEPT ![f] = Head(backlog)]
          /\ sock' = [sock EXCEPT ![Head(backlog)] = "open"]
    BY <1>4, Zenon DEF AcceptClient
  <2>2. f \in Fds /\ file[f] = NoConn /\ backlog /= <<>> /\ backlog' = Tail(backlog)
    BY <1>4 DEF AcceptClient, First, FreeFds
  <2>3. \A g \in Fds : file[g] /= Head(backlog)
    BY <1>0, <2>2, HeadOfBacklog DEF OneEnd
  <2>4. \A g \in Fds : file'[g] /= NoConn => sock'[file'[g]] = "open"
    BY <1>0, <2>1, <2>2, <2>3, HeadOfBacklog DEF OneEnd
  <2>5. \A g, h \in Fds : file'[g] /= NoConn /\ file'[g] = file'[h] => g = h
    BY <1>0, <2>1, <2>2, <2>3 DEF OneEnd
  <2>6. /\ \A i \in DOMAIN backlog' : sock'[backlog'[i]] = "backlog"
        /\ \A i, j \in DOMAIN backlog' : backlog'[i] = backlog'[j] => i = j
    BY <1>0, <2>1, <2>2, HeadOfBacklog DEF OneEnd
  <2> QED
    BY <2>4, <2>5, <2>6 DEF OneEnd
<1>5. CASE AcceptRejected
  <2>1. /\ sock' = [sock EXCEPT ![Head(backlog)] = "closed"] /\ file' = file
        /\ backlog /= <<>> /\ backlog' = Tail(backlog)
    BY <1>5 DEF AcceptRejected
  <2>2. \A g \in Fds : file[g] /= Head(backlog)
    BY <1>0, <2>1, HeadOfBacklog DEF OneEnd
  <2>3. /\ \A i \in DOMAIN backlog' : sock'[backlog'[i]] = "backlog"
        /\ \A i, j \in DOMAIN backlog' : backlog'[i] = backlog'[j] => i = j
    BY <1>0, <2>1, HeadOfBacklog DEF OneEnd
  <2>4. \A g \in Fds : file'[g] /= NoConn => sock'[file'[g]] = "open"
    BY <1>0, <2>1, <2>2, HeadOfBacklog DEF OneEnd
  <2> QED
    BY <2>1, <2>3, <2>4 DEF OneEnd
<1>6. CASE CloseClient
  <2>1. /\ file' = [file EXCEPT ![client_fd[at]] = NoConn]
        /\ sock' = [sock EXCEPT ![file[client_fd[at]]] = "closed"]
        /\ backlog' = backlog /\ client_fd[at] /= -1
    BY <1>6 DEF CloseClient, Closed, IInv, SlotInUse
  <2>2. /\ client_fd[at] \in Fds /\ sock[file[client_fd[at]]] = "open"
        /\ \A f \in Fds : file[f] = file[client_fd[at]] => f = client_fd[at]
        /\ file[client_fd[at]] \in Conns
    BY <1>0, <2>1, OneSlot
  <2>3. \A g \in Fds : file'[g] /= NoConn => sock'[file'[g]] = "open"
    BY <1>0, <2>1, <2>2 DEF OneEnd
  <2>4. \A g, h \in Fds : file'[g] /= NoConn /\ file'[g] = file'[h] => g = h
    BY <1>0, <2>1, <2>2 DEF OneEnd
  <2>5. \A i \in DOMAIN backlog' : sock'[backlog'[i]] = "backlog"
    BY <1>0, <2>1, <2>2 DEF OneEnd
  <2> QED
    BY <2>1, <2>3, <2>4, <2>5 DEF OneEnd
<1>7. CASE Shutdown
  BY <1>0, <1>7 DEF Shutdown, OneEnd
<1>8. ASSUME NEW d \in Conns, Connect(d) PROVE OneEnd'
  <2>1. /\ sock[d] = "none" /\ sock' = [sock EXCEPT ![d] = "backlog"]
        /\ backlog' = Append(backlog, d) /\ file' = file
    BY <1>8 DEF Connect
  <2>2. \A g \in Fds : file'[g] /= NoConn => sock'[file'[g]] = "open"
    BY <1>0, <2>1 DEF OneEnd
  <2>3. \A i \in DOMAIN backlog : backlog[i] /= d /\ backlog[i] \in Conns
    BY <1>0, <2>1 DEF OneEnd
  <2>4. /\ Len(backlog) \in Nat /\ DOMAIN backlog' = 1..(Len(backlog) + 1)
        /\ DOMAIN backlog = 1..Len(backlog)
        /\ \A i \in 1..Len(backlog) : backlog'[i] = backlog[i]
        /\ backlog'[Len(backlog) + 1] = d
        /\ \A i \in 1..(Len(backlog) + 1) : i \in 1..Len(backlog) \/ i = Len(backlog) + 1
    BY <1>0, <2>1
  <2>5. \A i \in DOMAIN backlog' : sock'[backlog'[i]] = "backlog"
    BY <1>0, <2>1, <2>3, <2>4 DEF OneEnd
  <2>6. \A i, j \in DOMAIN backlog' : backlog'[i] = backlog'[j] => i = j
    BY <2>3, <2>4 DEF OneEnd
  <2> QED
    BY <2>1, <2>2, <2>5, <2>6 DEF OneEnd
<1>9. ASSUME NEW d \in Conns, Send(d) \/ SendMalformed(d) \/ Receive(d) \/ HangUp(d)
      PROVE  OneEnd'
  <2>1. UNCHANGED <<file, sock, backlog>>
    BY <1>9, Zenon DEF Send, SendMalformed, Receive, HangUp, kernel
  <2> QED
    BY <1>1, <2>1
<1> QED
  BY <1>2, <1>3, <1>4, <1>5, <1>6, <1>7, <1>8, <1>9, Steps, Zenon DEF ClientStep

(* The account of a connection that a step does not touch. *)
LEMMA FreshSame ==
  ASSUME NEW c \in Conns, sock'[c] \in {"none", "backlog"} => sock[c] \in {"none", "backlog"},
         sock'[c] \in {"none", "backlog"} =>
           /\ got'[c] = got[c] /\ tocli'[c] = tocli[c] /\ tosrv'[c] = tosrv[c]
           /\ sent'[c] = sent[c] /\ malformed'[c] = malformed[c],
         Fresh
  PROVE  sock'[c] \in {"none", "backlog"} =>
           /\ got'[c] = <<>> /\ tocli'[c] = <<>>
           /\ Incoming(c, <<>>, tosrv'[c], sent'[c], malformed'[c], 0)
  BY DEF Fresh

(* A client may send while it waits to be accepted; the server does not    *)
(* read it before.                                                         *)
LEMMA FreshStep == IInv /\ OneEnd /\ Fresh /\ [Next]_vars => Fresh'
<1> SUFFICES ASSUME IInv, OneEnd, Fresh, [Next]_vars, NEW c \in Conns
             PROVE  sock'[c] \in {"none", "backlog"} =>
                      /\ got'[c] = <<>> /\ tocli'[c] = <<>>
                      /\ Incoming(c, <<>>, tosrv'[c], sent'[c], malformed'[c], 0)
  BY DEF Fresh
<1>0. /\ at \in Slots /\ backlog \in Seq(Conns)
      /\ sock \in [Conns -> {"none", "backlog", "open", "closed"}]
      /\ tosrv \in [Conns -> Seq(UnitType)] /\ tocli \in [Conns -> Seq(UnitType)]
      /\ got \in [Conns -> Seq(UnitType)] /\ sent \in [Conns -> Nat]
      /\ malformed \in [Conns -> BOOLEAN]
  BY DEF IInv, TypeOK, ControlTypes, KernelTypes, ClientTypes
<1>1. CASE UNCHANGED vars \/ ControlStep
  <2>1. UNCHANGED <<kernel, ends>>
    BY <1>1, ControlLeaves DEF vars
  <2> QED
    BY <2>1, FreshSame, Zenon DEF kernel, ends
<1>2. CASE ProcessQueue \/ EnqueueRequest \/ DiscardRequest
  <2>1. UNCHANGED <<kernel, ends>>
    BY <1>2, Zenon DEF ProcessQueue, EnqueueRequest, TakeRequest, DiscardRequest
  <2> QED
    BY <2>1, FreshSame DEF kernel, ends
<1>3. CASE ReadClient \/ WriteClient
  <2>1. client_fd[at] /= -1
    BY <1>3 DEF ReadClient, WriteClient, Writing, IInv, SlotInUse
  <2>2. sock[Conn] = "open" /\ Conn \in Conns
    BY <1>0, <2>1, OneSlot DEF Conn
  <2>3. /\ sock' = sock /\ UNCHANGED ends
        /\ c /= Conn => tosrv'[c] = tosrv[c] /\ tocli'[c] = tocli[c]
    BY <1>0, <1>3, Zenon DEF ReadClient, WriteClient
  <2> QED
    BY <2>2, <2>3, FreshSame DEF ends
<1>4. CASE AcceptClient
  <2>1. /\ sock' = [sock EXCEPT ![Head(backlog)] = "open"]
        /\ UNCHANGED <<tosrv, tocli, ends>>
    BY <1>4 DEF AcceptClient
  <2>2. sock'[c] = sock[c] \/ sock'[c] = "open"
    BY <1>0, <2>1
  <2> QED
    BY <2>1, <2>2, FreshSame DEF ends
<1>5. CASE AcceptRejected
  <2>1. /\ sock' = [sock EXCEPT ![Head(backlog)] = "closed"]
        /\ tosrv' = [tosrv EXCEPT ![Head(backlog)] = <<>>]
        /\ UNCHANGED <<tocli, ends>>
    BY <1>5 DEF AcceptRejected
  <2>2. (sock'[c] = sock[c] /\ tosrv'[c] = tosrv[c]) \/ sock'[c] = "closed"
    BY <1>0, <2>1
  <2> QED
    BY <2>1, <2>2, FreshSame, Zenon DEF ends
<1>6. CASE CloseClient
  <2>1. /\ sock' = [sock EXCEPT ![file[client_fd[at]]] = "closed"]
        /\ tosrv' = [tosrv EXCEPT ![file[client_fd[at]]] = <<>>]
        /\ UNCHANGED <<tocli, ends>>
    BY <1>6 DEF CloseClient
  <2>2. (sock'[c] = sock[c] /\ tosrv'[c] = tosrv[c]) \/ sock'[c] = "closed"
    BY <1>0, <2>1
  <2> QED
    BY <2>1, <2>2, FreshSame DEF ends
<1>7. CASE Shutdown
  <2>1. /\ sock'[c] = IF sock[c] = "backlog" THEN "closed" ELSE sock[c]
        /\ tosrv'[c] = IF sock[c] = "backlog" THEN <<>> ELSE tosrv[c]
        /\ UNCHANGED <<tocli, ends>>
    BY <1>7, Zenon DEF Shutdown
  <2> QED
    BY <2>1, FreshSame DEF ends
<1>8. ASSUME NEW d \in Conns, Connect(d) \/ HangUp(d) PROVE Fresh'
  <2>1. /\ UNCHANGED <<tosrv, tocli, sent, malformed, got>>
        /\ sock' = sock \/ (sock[d] = "none" /\ sock' = [sock EXCEPT ![d] = "backlog"])
    BY <1>8 DEF Connect, HangUp, kernel, ends
  <2>2. \A e \in Conns : sock'[e] = sock[e] \/ sock[e] = "none"
    BY <1>0, <2>1
  <2> QED
    BY <2>1, <2>2 DEF Fresh
<1>9. ASSUME NEW d \in Conns, Receive(d) PROVE Fresh'
  <2>1. /\ UNCHANGED <<sock, tosrv, sent, malformed>> /\ sock[d] \notin {"none", "backlog"}
        /\ \A e \in Conns : e = d \/ (got'[e] = got[e] /\ tocli'[e] = tocli[e])
    BY <1>0, <1>9 DEF Receive, Fresh
  <2> QED
    BY <2>1 DEF Fresh
<1>10. ASSUME NEW d \in Conns, Send(d) PROVE Fresh'
  <2>1. /\ UNCHANGED <<sock, tocli, malformed, got>> /\ malformed[d] = FALSE
        /\ tosrv'[d] = Append(tosrv[d], Unit(d, sent[d] + 1, FrameUnits))
        /\ sent'[d] = sent[d] + 1
        /\ \A e \in Conns : e = d \/ (tosrv'[e] = tosrv[e] /\ sent'[e] = sent[e])
    BY <1>0, <1>10 DEF Send, MaySend
  <2>2. ASSUME sock[d] \in {"none", "backlog"}
        PROVE  Incoming(d, <<>>, tosrv'[d], sent'[d], malformed'[d], 0)
    <3>1. Incoming(d, <<>>, tosrv[d], sent[d], FALSE, 0)
      BY <2>1, <2>2, Zenon DEF Fresh
    <3>2. <<>> \in Seq(UnitType) /\ 0 \in Nat /\ tosrv[d] \in Seq(UnitType) /\ sent[d] \in Nat
      BY <1>0
    <3> QED
      BY <2>1, <3>1, <3>2, IncomingSend, Zenon
  <2> QED
    BY <2>1, <2>2, Zenon DEF Fresh
<1>11. ASSUME NEW d \in Conns, SendMalformed(d) PROVE Fresh'
  <2>1. /\ UNCHANGED <<sock, tocli, sent, got>> /\ malformed[d] = FALSE
        /\ tosrv'[d] = Append(tosrv[d], BadUnit(d)) /\ malformed'[d] = TRUE
        /\ sent[d] % FrameUnits = 0
        /\ \A e \in Conns : e = d \/ (tosrv'[e] = tosrv[e] /\ malformed'[e] = malformed[e])
    BY <1>0, <1>11, Zenon DEF SendMalformed, MaySend
  <2>2. ASSUME sock[d] \in {"none", "backlog"}
        PROVE  Incoming(d, <<>>, tosrv'[d], sent'[d], malformed'[d], 0)
    <3>1. Incoming(d, <<>>, tosrv[d], sent[d], FALSE, 0)
      BY <2>1, <2>2, Zenon DEF Fresh
    <3>2. <<>> \in Seq(UnitType) /\ 0 \in Nat /\ tosrv[d] \in Seq(UnitType) /\ sent[d] \in Nat
      BY <1>0
    <3> QED
      BY <2>1, <3>1, <3>2, IncomingMalformed, Zenon
  <2> QED
    BY <2>1, <2>2, Zenon DEF Fresh
<1>12. ASSUME Fresh'
       PROVE  sock'[c] \in {"none", "backlog"} =>
                /\ got'[c] = <<>> /\ tocli'[c] = <<>>
                /\ Incoming(c, <<>>, tosrv'[c], sent'[c], malformed'[c], 0)
  BY <1>12, Zenon DEF Fresh
<1> QED
  BY <1>1, <1>2, <1>3, <1>4, <1>5, <1>6, <1>7, <1>8, <1>9, <1>10, <1>11, <1>12, Steps, Zenon
  DEF ClientStep

(* Only send() adds to what left the server, from the output buffer of a   *)
(* slot that accounts for its connection.                                  *)
LEMMA DeliveredStep ==
  IInv /\ OneEnd /\ Delivered /\ Accounted /\ [Next]_vars => Delivered'
<1> SUFFICES ASSUME IInv, OneEnd, Delivered, Accounted, [Next]_vars PROVE Delivered'
  OBVIOUS
<1>0. /\ at \in Slots /\ tocli \in [Conns -> Seq(UnitType)]
      /\ got \in [Conns -> Seq(UnitType)] /\ sent \in [Conns -> Nat]
  BY DEF IInv, TypeOK, ControlTypes, KernelTypes, ClientTypes
<1>1. ASSUME UNCHANGED <<got, tocli, sent>> PROVE Delivered'
  BY <1>1, Zenon DEF Delivered
<1>2. CASE UNCHANGED vars \/ ControlStep
  <2>1. UNCHANGED <<got, tocli, sent>>
    BY <1>2, ControlLeaves DEF vars, kernel, ends
  <2> QED
    BY <1>1, <2>1
<1>3. CASE ProcessQueue \/ ReadClient \/ EnqueueRequest \/ DiscardRequest
  <2>1. UNCHANGED <<got, tocli, sent>>
    BY <1>3, Zenon DEF ProcessQueue, ReadClient, EnqueueRequest, TakeRequest, DiscardRequest,
                kernel, ends
  <2> QED
    BY <1>1, <2>1
<1>4. CASE AcceptClient \/ AcceptRejected \/ CloseClient \/ Shutdown
  <2>1. UNCHANGED <<got, tocli, sent>>
    BY <1>4 DEF AcceptClient, AcceptRejected, CloseClient, Shutdown, ends
  <2> QED
    BY <1>1, <2>1
<1>5. CASE WriteClient
  <2> DEFINE c == Conn
             n == Smallest(Len(output[at]), Room)
  <2>1. /\ pc = "write" /\ n > 0 /\ UNCHANGED <<got, sent>>
        /\ tocli' = [tocli EXCEPT ![c] = @ \o SubSeq(output[at], 1, n)]
    BY <1>5 DEF WriteClient, Writing, ends
  <2>2. client_fd[at] /= -1
    BY <2>1 DEF IInv, SlotInUse
  <2>3. c \in Conns /\ Served(at, c)
    BY <1>0, <2>1, <2>2, OneSlot DEF Conn, Served
  <2>4. PICK a \in Nat, b \in Nat :
          /\ Answered(c, got[c], tocli[c], output[at], a) /\ Pending(c, queue, a, b)
          /\ Incoming(c, input[at], tosrv[c], sent[c], malformed[c], b)
    BY <1>0, <2>3, Zenon DEF Accounted, Account
  <2>5. /\ n \in 0..Len(output[at])
        /\ output[at] \in Seq(UnitType) /\ tocli[c] \in Seq(UnitType)
        /\ got[c] \in Seq(UnitType) /\ sent[c] \in Nat
    <3>1. output[at] \in Seq(UnitType) /\ tocli[c] \in Seq(UnitType) /\ SocketUnits \in Nat
      BY <1>0, <2>3, SizeAssumption DEF IInv, TypeOK, TableTypes
    <3>2. Len(output[at]) \in Nat /\ Room \in Int
      BY <3>1 DEF Room
    <3> QED
      BY <1>0, <2>1, <2>3, <3>1, <3>2 DEF Smallest
  <2> HIDE DEF c, n
  <2>6. Piece(tocli[c], Len(got[c]), AnswerUnits(c))
    BY <2>3, Zenon DEF Delivered
  <2>7. /\ Piece(tocli[c] \o SubSeq(output[at], 1, n), Len(got[c]), AnswerUnits(c))
        /\ Len(got[c]) + Len(tocli[c] \o SubSeq(output[at], 1, n)) <= a * ResponseUnits
    BY <2>4, <2>5, <2>6, AnsweredWrite, Zenon
  <2>8. a * FrameUnits <= sent[c]
    <3>1. a <= b /\ b * FrameUnits <= sent[c]
      BY <2>4, Zenon DEF Pending, Incoming
    <3>2. FrameUnits \in Nat
      BY SizeAssumption
    <3>3. a * FrameUnits <= b * FrameUnits
      BY <3>1, <3>2, ProductMonotone, Zenon
    <3>4. a * FrameUnits \in Nat /\ b * FrameUnits \in Nat
      BY <3>2
    <3> QED
      BY <2>5, <3>1, <3>3, <3>4
  <2>9. /\ tocli'[c] = tocli[c] \o SubSeq(output[at], 1, n)
        /\ \A d \in Conns : d /= c => tocli'[d] = tocli[d]
    BY <1>0, <2>1, <2>3, Zenon
  <2>10. /\ Piece(tocli'[c], Len(got'[c]), AnswerUnits(c))
         /\ \E e \in Nat : /\ Len(got'[c]) + Len(tocli'[c]) <= e * ResponseUnits
                           /\ e * FrameUnits <= sent'[c]
    BY <2>1, <2>7, <2>8, <2>9, Zenon
  <2> QED
    BY <2>1, <2>9, <2>10, Zenon DEF Delivered
<1>6. ASSUME NEW d \in Conns, Connect(d) \/ SendMalformed(d) \/ HangUp(d) PROVE Delivered'
  <2>1. UNCHANGED <<got, tocli, sent>>
    BY <1>6 DEF Connect, SendMalformed, HangUp, kernel, ends
  <2> QED
    BY <1>1, <2>1
<1>7. ASSUME NEW d \in Conns, Send(d) PROVE Delivered'
  <2>1. UNCHANGED <<got, tocli>> /\ \A c \in Conns : sent'[c] \in Nat /\ sent[c] <= sent'[c]
    BY <1>0, <1>7 DEF Send
  <2>2. ASSUME NEW c \in Conns, NEW a \in Nat, a * FrameUnits <= sent[c]
        PROVE  a * FrameUnits <= sent'[c]
    <3>1. a * FrameUnits \in Nat
      BY SizeAssumption
    <3> QED
      BY <1>0, <2>1, <2>2, <3>1
  <2> QED
    BY <2>1, <2>2, Zenon DEF Delivered
<1>8. ASSUME NEW d \in Conns, Receive(d) PROVE Delivered'
  <2>1. /\ got'[d] = got[d] \o tocli[d] /\ tocli'[d] = <<>> /\ sent' = sent
        /\ \A c \in Conns : c /= d => got'[c] = got[c] /\ tocli'[c] = tocli[c]
    BY <1>0, <1>8 DEF Receive
  <2>2. /\ got[d] \in Seq(UnitType) /\ tocli[d] \in Seq(UnitType) /\ 0 \in Nat
        /\ Piece(got[d], 0, AnswerUnits(d)) /\ Piece(tocli[d], Len(got[d]), AnswerUnits(d))
    BY <1>0 DEF Delivered
  <2>3. Piece(tocli[d], 0 + Len(got[d]), AnswerUnits(d))
    <3>1. 0 + Len(got[d]) = Len(got[d])
      BY <2>2
    <3> QED
      BY <2>2, <3>1, Zenon
  <2>4. Piece(got'[d], 0, AnswerUnits(d))
    <3>1. Piece(got[d] \o tocli[d], 0, AnswerUnits(d))
      BY <2>2, <2>3, PieceConcat, Zenon
    <3> QED
      BY <2>1, <3>1, Zenon
  <2>5. Piece(<<>>, Len(got'[d]), AnswerUnits(d))
    BY DEF Piece
  <2>6. Len(got'[d]) + Len(tocli'[d]) = Len(got[d]) + Len(tocli[d])
    BY <2>1, <2>2, AnsweredReceive, Zenon
  <2> QED
    BY <2>1, <2>4, <2>5, <2>6, Zenon DEF Delivered
<1> QED
  BY <1>2, <1>3, <1>4, <1>5, <1>6, <1>7, <1>8, Steps, Zenon DEF ClientStep

(* A step that touches nothing of a connection keeps its account. *)
LEMMA AccountSame ==
  ASSUME NEW s \in Slots, NEW c \in Conns, Account(s, c),
         got'[c] = got[c], tocli'[c] = tocli[c], tosrv'[c] = tosrv[c],
         sent'[c] = sent[c], malformed'[c] = malformed[c],
         input'[s] = input[s], output'[s] = output[s], queue' = queue
  PROVE  Account(s, c)'
  BY Zenon DEF Account

(* The steps that only move control do not end a removal. *)
LEMMA ControlServes ==
  ASSUME ControlStep, pc = "remove"
  PROVE  pc' = "remove" /\ at' = at
<1>1. ~TestStop /\ ~EnterPoll /\ ~PollReturns /\ ~PollFails
  BY DEF TestStop, EnterPoll, PollReturns, PollFails
<1>2. ~DispatchClient /\ ~DispatchEnds /\ ~ReadWouldBlock /\ ~ReadFails
  BY DEF DispatchClient, DispatchEnds, ReadWouldBlock, ReadFails
<1>3. ~ParseNeedsMore /\ ~EnqueueFails /\ ~WriteFails /\ ~WriteEnds
  BY DEF ParseNeedsMore, EnqueueFails, WriteFails, Writing, WriteEnds
<1>4. ~AcceptReturns /\ ~CloseAllClients /\ ~OpenListener
  BY DEF AcceptReturns, CloseAllClients, OpenListener
<1>5. Signal
  BY <1>1, <1>2, <1>3, <1>4 DEF ControlStep
<1> QED
  BY <1>5 DEF Signal

(* wc_uds_process_queue: the head of the queue is the next request of its  *)
(* client, whose last response has drained.                                *)
LEMMA ProcessAccount ==
  ASSUME IInv, OneEnd, Accounted, ProcessQueue, NEW s \in Slots, NEW c \in Conns, Served(s, c)'
  PROVE  Account(s, c)'
<1> DEFINE r == Head(queue)
<1>1. /\ pc = "process" /\ queue /= <<>> /\ queue' = Tail(queue)
      /\ UNCHANGED <<client_fd, input, kernel, ends>>
  BY DEF ProcessQueue
<1>2. Served(s, c) /\ client_fd[s] /= -1 /\ file[client_fd[s]] = c
  BY <1>1 DEF Served, kernel
<1>3. PICK a \in Nat, b \in Nat :
        /\ Answered(c, got[c], tocli[c], output[s], a) /\ Pending(c, queue, a, b)
        /\ Incoming(c, input[s], tosrv[c], sent[c], malformed[c], b)
  BY <1>2, Zenon DEF Accounted, Account
<1>4. /\ queue \in Seq(RequestType) /\ r \in RequestType /\ r = queue[1] /\ 1 \in DOMAIN queue
      /\ output \in [Slots -> Seq(UnitType)]
      /\ got[c] \in Seq(UnitType) /\ tocli[c] \in Seq(UnitType)
  BY <1>1 DEF IInv, TypeOK, TableTypes, KernelTypes, ClientTypes
<1>5. file[r.fd] = r.conn /\ r.fd \in Fds
  BY <1>4 DEF IInv, QueuedForSender, RequestType
<1>6. /\ got'[c] = got[c] /\ tocli'[c] = tocli[c] /\ tosrv'[c] = tosrv[c]
      /\ sent'[c] = sent[c] /\ malformed'[c] = malformed[c] /\ input'[s] = input[s]
  BY <1>1 DEF kernel, ends
<1>7. CASE r.conn /= c
  <2>1. client_fd[s] /= r.fd
    BY <1>2, <1>5, <1>7, SMTT(30)
  <2>2. output'[s] = output[s]
    BY <1>4, <2>1, Zenon DEF ProcessQueue, First, FindClient
  <2>3. Pending(c, queue', a, b)
    BY <1>1, <1>3, <1>4, <1>7, PendingTailOther, Zenon
  <2> QED
    BY <1>3, <1>6, <2>2, <2>3, Zenon DEF Account
<1>8. CASE r.conn = c
  <2>1. client_fd[s] = r.fd
    BY <1>2, <1>5, <1>8, OneSlot
  <2>2. First(FindClient(r.fd)) = {s}
    <3>1. \A t \in FindClient(r.fd) : t = s
      BY <1>2, <2>1 DEF FindClient, IInv, Owned, Injective
    <3>2. s \in FindClient(r.fd) /\ s <= s
      BY <2>1 DEF FindClient, Slots
    <3> QED
      BY <3>1, <3>2 DEF First
  <2>3. output[s] = <<>>
    BY <1>1, <2>2, Zenon DEF ProcessQueue, HeadBlocked
  <2>4. output' = [output EXCEPT ![s] = @ \o Response(r)]
    <3>1. ~(pc' = "remove" /\ at' = s)
      BY DEF Served
    <3> QED
      BY <2>2, <3>1, Zenon DEF ProcessQueue, RemoveClient
  <2>5. output'[s] = Response(r)
    <3>1. Response(r) \in Seq(UnitType)
      BY <1>4, ResponseType, Zenon
    <3> QED
      BY <1>4, <2>3, <2>4, <3>1, SMTT(30)
  <2>6. r.req = a + 1 /\ Pending(c, queue', a + 1, b)
    BY <1>1, <1>3, <1>4, <1>8, PendingHead, Zenon
  <2>7. Answered(c, got[c], tocli[c], Response(r), a + 1)
    BY <1>3, <1>4, <1>8, <2>3, <2>6, AnsweredNext, Zenon
  <2>8. a + 1 \in Nat
    OBVIOUS
  <2> QED
    BY <1>3, <1>6, <2>5, <2>6, <2>7, <2>8, Zenon DEF Account
<1> QED
  BY <1>7, <1>8

(* wc_uds_read_client. *)
LEMMA ReadAccount ==
  ASSUME IInv, OneEnd, Accounted, ReadClient, NEW s \in Slots, NEW c \in Conns, Served(s, c)'
  PROVE  Account(s, c)'
<1> DEFINE n == Smallest(Len(tosrv[Conn]), Smallest(Available, ReadUnits))
<1>1. /\ pc = "read" /\ n > 0
      /\ input' = [input EXCEPT ![at] = @ \o SubSeq(tosrv[Conn], 1, n)]
      /\ tosrv' = [tosrv EXCEPT ![Conn] = SubSeq(@, n + 1, Len(@))]
      /\ UNCHANGED <<client_fd, output, queue, file, tocli, ends>>
  BY DEF ReadClient
<1>2. Served(s, c) /\ client_fd[s] /= -1 /\ file[client_fd[s]] = c
  BY <1>1 DEF Served
<1>3. /\ at \in Slots /\ client_fd[at] /= -1
      /\ input \in [Slots -> Seq(UnitType)] /\ tosrv \in [Conns -> Seq(UnitType)]
      /\ tosrv[c] \in Seq(UnitType) /\ input[s] \in Seq(UnitType)
      /\ sent[c] \in Nat /\ malformed[c] \in BOOLEAN
  BY <1>1, SMTT(30) DEF IInv, TypeOK, ControlTypes, TableTypes, KernelTypes, ClientTypes, SlotInUse
<1>4. CASE s /= at
  <2>1. Conn /= c
    BY <1>2, <1>3, <1>4, OneSlot, Zenon DEF Conn
  <2>2. input'[s] = input[s] /\ tosrv'[c] = tosrv[c]
    BY <1>1, <1>3, <1>4, <2>1, Zenon
  <2>3. Account(s, c)
    BY <1>2 DEF Accounted
  <2> QED
    BY <1>1, <2>2, <2>3, AccountSame, Zenon DEF ends
<1>5. CASE s = at
  <2>1. Conn = c
    BY <1>2, <1>5 DEF Conn
  <2>2. n \in 0..Len(tosrv[c])
    <3>1. Len(tosrv[c]) \in Nat /\ Available \in Int /\ ReadUnits \in Nat
      BY <1>3, SizeAssumption DEF Available
    <3> QED
      BY <1>1, <2>1, <3>1 DEF Smallest
  <2> HIDE DEF n
  <2>3. /\ input'[s] = input[s] \o SubSeq(tosrv[c], 1, n)
        /\ tosrv'[c] = Consume(tosrv[c], n)
    BY <1>1, <1>3, <1>5, <2>1, Zenon DEF Consume
  <2>4. PICK a \in Nat, b \in Nat :
          /\ Answered(c, got[c], tocli[c], output[s], a) /\ Pending(c, queue, a, b)
          /\ Incoming(c, input[s], tosrv[c], sent[c], malformed[c], b)
    BY <1>2, Zenon DEF Accounted, Account
  <2>5. Incoming(c, input[s] \o SubSeq(tosrv[c], 1, n), Consume(tosrv[c], n),
                 sent[c], malformed[c], b)
    BY <1>3, <2>2, <2>4, IncomingRead, Zenon
  <2>6. /\ got'[c] = got[c] /\ tocli'[c] = tocli[c] /\ output'[s] = output[s]
        /\ sent'[c] = sent[c] /\ malformed'[c] = malformed[c] /\ queue' = queue
    BY <1>1 DEF ends
  <2> QED
    BY <2>3, <2>4, <2>5, <2>6, Zenon DEF Account
<1> QED
  BY <1>4, <1>5

(* wc_uds_enqueue_complete_requests: what is parsed is the next request. *)
LEMMA EnqueueAccount ==
  ASSUME IInv, OneEnd, Accounted, EnqueueRequest, NEW s \in Slots, NEW c \in Conns,
         Served(s, c)'
  PROVE  Account(s, c)'
<1> DEFINE r == [fd |-> client_fd[at], conn |-> Head(input[at]).conn, req |-> Head(input[at]).req]
<1>1. /\ pc = "parse" /\ ParseResult(at) = "COMPLETE" /\ queue' = Append(queue, r)
      /\ input' = [input EXCEPT ![at] = Consume(@, FrameUnits)]
      /\ UNCHANGED <<client_fd, output, kernel, ends>>
  BY DEF EnqueueRequest, TakeRequest
<1>2. Served(s, c) /\ client_fd[s] /= -1 /\ file[client_fd[s]] = c
  BY <1>1 DEF Served, kernel
<1>3. /\ at \in Slots /\ client_fd[at] /= -1 /\ queue \in Seq(RequestType)
      /\ input \in [Slots -> Seq(UnitType)] /\ input[at] \in Seq(UnitType)
      /\ tosrv[c] \in Seq(UnitType)
      /\ sent[c] \in Nat /\ malformed[c] \in BOOLEAN
  BY <1>1 DEF IInv, TypeOK, ControlTypes, TableTypes, KernelTypes, ClientTypes, SlotInUse
<1>4. input[at] /= <<>> /\ Head(input[at]).part /= 0 /\ Len(input[at]) >= FrameUnits
  <2>1. /\ input[at] /= <<>> => Head(input[at]).part /= 0
        /\ input[at] /= <<>> /\ ~(Len(input[at]) < FrameUnits)
    <3>1. ParseResult(at) = "COMPLETE"
      BY <1>1, Zenon
    <3> QED
      BY <3>1 DEF ParseResult
  <2>2. Len(input[at]) \in Nat /\ FrameUnits \in Nat
    BY <1>3, LenProperties, SizeAssumption
  <2> QED
    BY <2>1, <2>2
<1>5. Head(input[at]) \in UnitType /\ Head(input[at]) = input[at][1] /\ 1 \in DOMAIN input[at]
  BY <1>3, <1>4
<1>6. Head(input[at]).conn = file[client_fd[at]]
  BY <1>3, <1>5 DEF IInv, BufferedForSender
<1>7. r \in RequestType /\ r.conn = file[client_fd[at]] /\ r.req = Head(input[at]).req
  <2>1. client_fd[at] \in Fds
    BY <1>3, OneSlot
  <2> QED
    BY <1>5, <1>6, <2>1, Zenon DEF UnitType, RequestType
<1>8. PICK a \in Nat, b \in Nat :
        /\ Answered(c, got[c], tocli[c], output[s], a) /\ Pending(c, queue, a, b)
        /\ Incoming(c, input[s], tosrv[c], sent[c], malformed[c], b)
  BY <1>2, Zenon DEF Accounted, Account
<1>9. /\ got'[c] = got[c] /\ tocli'[c] = tocli[c] /\ tosrv'[c] = tosrv[c]
      /\ sent'[c] = sent[c] /\ malformed'[c] = malformed[c] /\ output'[s] = output[s]
  BY <1>1, Zenon DEF kernel, ends
<1> HIDE DEF r
<1>10. CASE s /= at
  <2>1. r.conn /= c
    BY <1>2, <1>3, <1>7, <1>10, OneSlot, Zenon
  <2>2. input'[s] = input[s]
    BY <1>1, <1>3, <1>10, Zenon
  <2>3. Pending(c, Append(queue, r), a, IF r.conn = c THEN b + 1 ELSE b)
    BY <1>3, <1>7, <1>8, <2>1, PendingAppend, Zenon
  <2>4. Pending(c, queue', a, b)
    BY <1>1, <2>1, <2>3, Zenon
  <2> QED
    BY <1>8, <1>9, <2>2, <2>4, Zenon DEF Account
<1>11. CASE s = at
  <2>1. r.conn = c
    BY <1>2, <1>7, <1>11
  <2>2. input'[s] = Consume(input[s], FrameUnits)
    BY <1>1, <1>3, <1>11
  <2>3. /\ Head(input[s]).req = b + 1
        /\ Incoming(c, Consume(input[s], FrameUnits), tosrv[c], sent[c], malformed[c], b + 1)
    <3>1. /\ input[s] \in Seq(UnitType) /\ Head(input[s]).part /= 0
          /\ Len(input[s]) >= FrameUnits
      BY <1>3, <1>4, <1>11, Zenon
    <3> DEFINE i == input[s]
               t == tosrv[c]
               n == sent[c]
               m == malformed[c]
    <3>2. /\ i \in Seq(UnitType) /\ t \in Seq(UnitType) /\ n \in Nat /\ m \in BOOLEAN
          /\ Incoming(c, i, t, n, m, b) /\ Len(i) >= FrameUnits /\ Head(i).part /= 0
      BY <1>3, <1>8, <3>1, Zenon
    <3> HIDE DEF i, t, n, m
    <3>3. Head(i).req = b + 1 /\ Incoming(c, Consume(i, FrameUnits), t, n, m, b + 1)
      BY <3>2, IncomingTake
    <3> QED
      BY <3>3, Zenon DEF i, t, n, m
  <2>4. Pending(c, Append(queue, r), a, IF r.conn = c THEN b + 1 ELSE b)
    BY <1>3, <1>7, <1>8, <1>11, <2>3, PendingAppend, Zenon
  <2>5. Pending(c, queue', a, b + 1)
    BY <1>1, <2>1, <2>4, Zenon
  <2>6. b + 1 \in Nat
    OBVIOUS
  <2> QED
    BY <1>8, <1>9, <2>2, <2>3, <2>5, <2>6, Zenon DEF Account
<1> QED
  BY <1>10, <1>11

(* wc_uds_write_client. *)
LEMMA WriteAccount ==
  ASSUME IInv, OneEnd, Delivered, Accounted, WriteClient, NEW s \in Slots, NEW c \in Conns,
         Served(s, c)'
  PROVE  Account(s, c)'
<1> DEFINE n == Smallest(Len(output[at]), Room)
<1>1. /\ pc = "write" /\ n > 0
      /\ tocli' = [tocli EXCEPT ![Conn] = @ \o SubSeq(output[at], 1, n)]
      /\ output' = [output EXCEPT ![at] = Consume(@, n)]
      /\ UNCHANGED <<client_fd, input, queue, file, tosrv, ends>>
  BY Zenon DEF WriteClient, Writing
<1>2. Served(s, c) /\ client_fd[s] /= -1 /\ file[client_fd[s]] = c
  BY <1>1, Zenon DEF Served
<1>3. /\ at \in Slots /\ client_fd[at] /= -1
      /\ output \in [Slots -> Seq(UnitType)] /\ tocli \in [Conns -> Seq(UnitType)]
      /\ tocli[c] \in Seq(UnitType) /\ output[s] \in Seq(UnitType) /\ got[c] \in Seq(UnitType)
  BY <1>1, SMTT(30) DEF IInv, TypeOK, ControlTypes, TableTypes, KernelTypes, ClientTypes, SlotInUse
<1>4. CASE s /= at
  <2>1. Conn /= c
    BY <1>2, <1>3, <1>4, OneSlot, Zenon DEF Conn
  <2>2. output'[s] = output[s] /\ tocli'[c] = tocli[c]
    BY <1>1, <1>3, <1>4, <2>1
  <2>3. Account(s, c)
    BY <1>2, Zenon DEF Accounted
  <2>4. /\ got'[c] = got[c] /\ tosrv'[c] = tosrv[c] /\ sent'[c] = sent[c]
        /\ malformed'[c] = malformed[c] /\ input'[s] = input[s] /\ queue' = queue
    BY <1>1, Zenon DEF ends
  <2> QED
    BY <2>2, <2>3, <2>4, AccountSame, Zenon
<1>5. CASE s = at
  <2>1. Conn = c
    BY <1>2, <1>5 DEF Conn
  <2>2. n \in 0..Len(output[s])
    <3>1. Len(output[s]) \in Nat /\ Room \in Int
      BY <1>3, <2>1, SizeAssumption DEF Room
    <3> QED
      BY <1>1, <1>5, <3>1 DEF Smallest
  <2> HIDE DEF n
  <2>3. /\ tocli'[c] = tocli[c] \o SubSeq(output[s], 1, n)
        /\ output'[s] = Consume(output[s], n)
    BY <1>1, <1>3, <1>5, <2>1, Zenon
  <2>4. PICK a \in Nat, b \in Nat :
          /\ Answered(c, got[c], tocli[c], output[s], a) /\ Pending(c, queue, a, b)
          /\ Incoming(c, input[s], tosrv[c], sent[c], malformed[c], b)
    BY <1>2, Zenon DEF Accounted, Account
  <2>5. Piece(tocli[c], Len(got[c]), AnswerUnits(c))
    BY Zenon DEF Delivered
  <2>6. Answered(c, got[c], tocli[c] \o SubSeq(output[s], 1, n), Consume(output[s], n), a)
    BY <1>3, <2>2, <2>4, <2>5, AnsweredWrite, Zenon
  <2>7. /\ got'[c] = got[c] /\ tosrv'[c] = tosrv[c] /\ input'[s] = input[s]
        /\ sent'[c] = sent[c] /\ malformed'[c] = malformed[c] /\ queue' = queue
    BY <1>1 DEF ends
  <2> QED
    BY <2>3, <2>4, <2>6, <2>7, Zenon DEF Account
<1> QED
  BY <1>4, <1>5, SMTT(30)

(* wc_uds_accept_clients: nothing of the new connection was handled yet,   *)
(* and no request of it is in the queue.                                   *)
LEMMA AcceptAccount ==
  ASSUME IInv, OneEnd, Fresh, Accounted, AcceptClient, NEW s \in Slots, NEW c \in Conns,
         Served(s, c)'
  PROVE  Account(s, c)'
<1>1. PICK t \in First({u \in Slots : client_fd[u] = -1}), f \in First(FreeFds) :
        /\ client_fd' = [client_fd EXCEPT ![t] = f]
        /\ input' = [input EXCEPT ![t] = <<>>] /\ output' = [output EXCEPT ![t] = <<>>]
        /\ file' = [file EXCEPT ![f] = Head(backlog)]
  BY Zenon DEF AcceptClient
<1>2. /\ t \in Slots /\ client_fd[t] = -1 /\ f \in Fds /\ file[f] = NoConn /\ f /= -1
      /\ backlog /= <<>> /\ pc = "accept" /\ UNCHANGED <<queue, tosrv, tocli, ends>>
  BY DescriptorNumber DEF AcceptClient, First, FreeFds
<1>3. /\ client_fd \in [Slots -> Fds \cup {-1}] /\ file \in [Fds -> Conns \cup {NoConn}]
      /\ input \in [Slots -> Seq(UnitType)] /\ output \in [Slots -> Seq(UnitType)]
      /\ queue \in Seq(RequestType)
  BY DEF IInv, TypeOK, TableTypes, KernelTypes
<1>4. Head(backlog) \in Conns /\ sock[Head(backlog)] = "backlog"
  BY <1>2, HeadOfBacklog
<1>5. /\ got'[c] = got[c] /\ tocli'[c] = tocli[c] /\ tosrv'[c] = tosrv[c]
      /\ sent'[c] = sent[c] /\ malformed'[c] = malformed[c] /\ queue' = queue
  BY <1>2 DEF ends
<1>6. client_fd'[s] /= -1 /\ file'[client_fd'[s]] = c
  BY DEF Served
<1>7. CASE s /= t
  <2>1. client_fd'[s] = client_fd[s] /\ input'[s] = input[s] /\ output'[s] = output[s]
    BY <1>1, <1>2, <1>3, <1>7, SMTT(30)
  <2>2. client_fd[s] /= -1
    BY <1>6, <2>1
  <2>3. client_fd[s] /= f
    BY <1>2, <2>2 DEF IInv, Owned, HeldOpen
  <2>4. file'[client_fd[s]] = file[client_fd[s]]
    BY <1>1, <1>2, <1>3, <2>2, <2>3
  <2>5. Served(s, c)
    BY <1>2, <1>6, <2>1, <2>2, <2>4 DEF Served
  <2>6. Account(s, c)
    BY <2>5, Zenon DEF Accounted
  <2> QED
    BY <1>5, <2>1, <2>6, AccountSame, Zenon
<1>8. CASE s = t
  <2>1. c = Head(backlog) /\ input'[s] = <<>> /\ output'[s] = <<>>
    BY <1>1, <1>2, <1>3, <1>6, <1>8
  <2>2. /\ got[c] = <<>> /\ tocli[c] = <<>>
        /\ Incoming(c, <<>>, tosrv[c], sent[c], malformed[c], 0)
    BY <1>4, <2>1, Zenon DEF Fresh
  <2>3. Answered(c, <<>>, <<>>, <<>>, 0)
    BY SizeAssumption DEF Answered, Piece
  <2>4. \A i \in 1..Len(queue) : queue[i].conn /= c
    <3>1. ASSUME NEW i \in 1..Len(queue) PROVE queue[i].conn /= c
      <4>1. queue[i] \in RequestType /\ i \in DOMAIN queue
        BY <1>3
      <4>2. queue[i].fd \in Fds /\ file[queue[i].fd] = queue[i].conn /\ queue[i].conn \in Conns
        <5>1. file[queue[i].fd] = queue[i].conn
          BY <4>1, Zenon DEF IInv, QueuedForSender
        <5>2. queue[i].fd \in Fds /\ queue[i].conn \in Conns
          BY <4>1 DEF RequestType
        <5> QED
          BY <5>1, <5>2, Zenon
      <4> QED
        BY <1>4, <2>1, <4>2, ConnAssumption DEF OneEnd
    <3> QED
      BY <3>1
  <2>5. Pending(c, queue, 0, 0)
    <3>1. 0 <= 0 /\ (0 + 1)..0 = {}
      OBVIOUS
    <3> QED
      BY <2>4, <3>1, Zenon DEF Pending
  <2>6. 0 \in Nat
    OBVIOUS
  <2> QED
    BY <1>5, <2>1, <2>2, <2>3, <2>5, <2>6, Zenon DEF Account
<1> QED
  BY <1>7, <1>8

(* wc_uds_remove_client: requests of other clients stay in the queue. *)
LEMMA DiscardAccount ==
  ASSUME IInv, OneEnd, Accounted, DiscardRequest, NEW s \in Slots, NEW c \in Conns,
         Served(s, c)'
  PROVE  Account(s, c)'
<1>1. PICK i \in DOMAIN queue : queue[i].fd = client_fd[at] /\ queue' = Unlink(queue, i)
  BY DEF DiscardRequest, Discardable
<1>2. pc = "remove" /\ UNCHANGED <<pc, at, table, kernel, ends>>
  BY DEF DiscardRequest
<1>3. Served(s, c) /\ client_fd[s] /= -1 /\ file[client_fd[s]] = c /\ s /= at
  BY <1>2 DEF Served, table, kernel
<1>4. at \in Slots /\ client_fd[at] /= -1 /\ queue \in Seq(RequestType)
  BY <1>2 DEF IInv, TypeOK, ControlTypes, TableTypes, SlotInUse
<1>5. queue[i].conn /= c
  <2>1. file[client_fd[at]] = queue[i].conn
    BY <1>1, Zenon DEF IInv, QueuedForSender
  <2>2. file[client_fd[at]] /= file[client_fd[s]]
    BY <1>3, <1>4, OneSlot, Zenon
  <2> QED
    BY <1>3, <2>1, <2>2, Zenon
<1>6. PICK a \in Nat, b \in Nat :
        /\ Answered(c, got[c], tocli[c], output[s], a) /\ Pending(c, queue, a, b)
        /\ Incoming(c, input[s], tosrv[c], sent[c], malformed[c], b)
  BY <1>3, Zenon DEF Accounted, Account
<1>7. Pending(c, queue', a, b)
  BY <1>1, <1>4, <1>5, <1>6, PendingUnlink, Zenon
<1>8. UNCHANGED <<got, tocli, output, input, tosrv, sent, malformed>>
  BY <1>2 DEF table, kernel, ends
<1> QED
  BY <1>6, <1>7, <1>8, Zenon DEF Account

(* A client sends, or receives. *)
LEMMA ClientAccount ==
  ASSUME IInv, Delivered, Accounted, NEW d \in Conns, ClientStep(d), NEW s \in Slots,
         NEW c \in Conns, Served(s, c)'
  PROVE  Account(s, c)'
<1>1. Served(s, c) /\ UNCHANGED <<input, output, queue>>
  BY ClientsLeave, Zenon DEF Server, table, Served
<1>2. Account(s, c)
  BY <1>1, Zenon DEF Accounted
<1>3. /\ got \in [Conns -> Seq(UnitType)] /\ tocli \in [Conns -> Seq(UnitType)]
      /\ tosrv \in [Conns -> Seq(UnitType)] /\ sent \in [Conns -> Nat]
      /\ malformed \in [Conns -> BOOLEAN]
      /\ got[c] \in Seq(UnitType) /\ tocli[c] \in Seq(UnitType) /\ input[s] \in Seq(UnitType)
      /\ tosrv[c] \in Seq(UnitType) /\ sent[c] \in Nat
  BY DEF IInv, TypeOK, TableTypes, KernelTypes, ClientTypes
<1>4. ASSUME UNCHANGED <<got[c], tocli[c], tosrv[c], sent[c], malformed[c]>>
      PROVE  Account(s, c)'
  BY <1>1, <1>2, <1>4, AccountSame, Zenon
<1>5. PICK a \in Nat, b \in Nat :
        /\ Answered(c, got[c], tocli[c], output[s], a) /\ Pending(c, queue, a, b)
        /\ Incoming(c, input[s], tosrv[c], sent[c], malformed[c], b)
  BY <1>2, Zenon DEF Account
<1>6. CASE d /= c \/ Connect(d) \/ HangUp(d)
  <2>1. UNCHANGED <<got[c], tocli[c], tosrv[c], sent[c], malformed[c]>>
    BY <1>3, <1>6, Zenon DEF ClientStep, Connect, Send, SendMalformed, Receive, HangUp, kernel, ends
  <2> QED
    BY <1>4, <2>1, Zenon
<1>7. CASE d = c /\ Receive(d)
  <2>1. /\ got'[c] = got[c] \o tocli[c] /\ tocli'[c] = <<>>
        /\ tosrv'[c] = tosrv[c] /\ sent'[c] = sent[c] /\ malformed'[c] = malformed[c]
    BY <1>3, <1>7 DEF Receive
  <2>2. Answered(c, got[c] \o tocli[c], <<>>, output[s], a)
    BY <1>3, <1>5, AnsweredReceive, Zenon
  <2> QED
    BY <1>1, <1>5, <2>1, <2>2, Zenon DEF Account
<1>8. CASE d = c /\ Send(d)
  <2>1. /\ got'[c] = got[c] /\ tocli'[c] = tocli[c] /\ malformed[c] = FALSE
        /\ tosrv'[c] = Append(tosrv[c], Unit(c, sent[c] + 1, FrameUnits))
        /\ sent'[c] = sent[c] + 1 /\ malformed'[c] = FALSE
    BY <1>3, <1>8, Zenon DEF Send, MaySend
  <2>2. Incoming(c, input[s], tosrv'[c], sent'[c], FALSE, b)
    <3>1. Incoming(c, input[s], tosrv[c], sent[c], FALSE, b)
      BY <1>5, <2>1, Zenon
    <3>2. Incoming(c, input[s], Append(tosrv[c], Unit(c, sent[c] + 1, FrameUnits)),
                   sent[c] + 1, FALSE, b)
      BY <1>3, <3>1, IncomingSend, Zenon
    <3> QED
      BY <2>1, <3>2, Zenon
  <2> QED
    BY <1>1, <1>5, <2>1, <2>2, Zenon DEF Account
<1>9. CASE d = c /\ SendMalformed(d)
  <2>1. /\ got'[c] = got[c] /\ tocli'[c] = tocli[c] /\ malformed[c] = FALSE
        /\ tosrv'[c] = Append(tosrv[c], BadUnit(c)) /\ sent[c] % FrameUnits = 0
        /\ sent'[c] = sent[c] /\ malformed'[c] = TRUE
    BY <1>3, <1>9, Zenon DEF SendMalformed, MaySend
  <2>2. Incoming(c, input[s], tosrv'[c], sent'[c], TRUE, b)
    <3>1. Incoming(c, input[s], tosrv[c], sent[c], FALSE, b)
      BY <1>5, <2>1, Zenon
    <3>2. Incoming(c, input[s], Append(tosrv[c], BadUnit(c)), sent[c], TRUE, b)
      BY <1>3, <2>1, <3>1, IncomingMalformed, Zenon
    <3> QED
      BY <2>1, <3>2, Zenon
  <2> QED
    BY <1>1, <1>5, <2>1, <2>2, Zenon DEF Account
<1> QED
  BY <1>6, <1>7, <1>8, <1>9, Zenon DEF ClientStep

(* Every step keeps the account of every connection that is served after   *)
(* it.                                                                     *)
LEMMA AccountedStep ==
  IInv /\ OneEnd /\ Fresh /\ Delivered /\ Accounted /\ [Next]_vars => Accounted'
<1> SUFFICES ASSUME IInv, OneEnd, Fresh, Delivered, Accounted, [Next]_vars,
                    NEW s \in Slots, NEW c \in Conns, Served(s, c)'
             PROVE  Account(s, c)'
  BY Zenon DEF Accounted
<1>1. ASSUME Served(s, c), UNCHANGED <<input, output, queue, ends>>,
             tocli'[c] = tocli[c], tosrv'[c] = tosrv[c]
      PROVE  Account(s, c)'
  <2>1. Account(s, c)
    BY <1>1, Zenon DEF Accounted
  <2> QED
    BY <1>1, <2>1, AccountSame, Zenon DEF ends
<1>2. CASE UNCHANGED vars \/ ControlStep
  <2>1. UNCHANGED <<table, queue, kernel, ends>>
    BY <1>2, ControlLeaves DEF vars
  <2>2. pc = "remove" => pc' = "remove" /\ at' = at
    BY <1>2, ControlServes DEF vars
  <2>3. Served(s, c)
    BY <2>1, <2>2 DEF Served, table, kernel
  <2> QED
    BY <1>1, <2>1, <2>3, Zenon DEF table, kernel
<1>3. CASE ProcessQueue \/ ReadClient \/ EnqueueRequest
  BY <1>3, ProcessAccount, ReadAccount, EnqueueAccount, Zenon
<1>4. CASE WriteClient \/ AcceptClient \/ DiscardRequest
  BY <1>4, WriteAccount, AcceptAccount, DiscardAccount, Zenon
<1>5. CASE AcceptRejected
  <2>1. /\ pc = "accept" /\ backlog /= <<>> /\ tosrv' = [tosrv EXCEPT ![Head(backlog)] = <<>>]
        /\ UNCHANGED <<table, queue, file, tocli, ends>>
    BY <1>5 DEF AcceptRejected
  <2>2. Served(s, c)
    BY <2>1, SMTT(30) DEF Served, table
  <2>3. sock[c] = "open" /\ sock[Head(backlog)] = "backlog" /\ Head(backlog) \in Conns
    BY <2>1, <2>2, OneSlot, HeadOfBacklog, Zenon DEF Served
  <2>4. tosrv'[c] = tosrv[c]
    BY <2>1, <2>3 DEF IInv, TypeOK, KernelTypes
  <2> QED
    BY <1>1, <2>1, <2>2, <2>4 DEF table
<1>6. CASE CloseClient
  <2>1. /\ pc = "remove" /\ client_fd' = [client_fd EXCEPT ![at] = -1]
        /\ input' = [input EXCEPT ![at] = <<>>] /\ output' = [output EXCEPT ![at] = <<>>]
        /\ file' = [file EXCEPT ![client_fd[at]] = NoConn]
        /\ tosrv' = [tosrv EXCEPT ![file[client_fd[at]]] = <<>>]
        /\ UNCHANGED <<queue, tocli, ends>>
    BY <1>6 DEF CloseClient, Closed
  <2>2. /\ at \in Slots /\ client_fd[at] /= -1 /\ client_fd \in [Slots -> Fds \cup {-1}]
        /\ file \in [Fds -> Conns \cup {NoConn}] /\ tosrv \in [Conns -> Seq(UnitType)]
        /\ input \in [Slots -> Seq(UnitType)] /\ output \in [Slots -> Seq(UnitType)]
    BY <2>1 DEF IInv, TypeOK, ControlTypes, TableTypes, KernelTypes, SlotInUse
  <2>3. client_fd'[s] /= -1 /\ file'[client_fd'[s]] = c
    BY DEF Served
  <2>4. s /= at
    BY <2>1, <2>2, <2>3
  <2>5. client_fd'[s] = client_fd[s] /\ input'[s] = input[s] /\ output'[s] = output[s]
    BY <2>1, <2>2, <2>4, SMTT(30)
  <2>6. client_fd[s] /= client_fd[at] /\ client_fd[s] \in Fds
    BY <2>2, <2>3, <2>4, <2>5, Zenon DEF IInv, Owned, Injective
  <2>7. file[client_fd[s]] = c
    BY <2>1, <2>2, <2>3, <2>5, <2>6
  <2>8. file[client_fd[at]] /= c
    BY <2>2, <2>3, <2>4, <2>5, <2>7, OneSlot, Zenon
  <2>9. tosrv'[c] = tosrv[c]
    BY <2>1, <2>2, <2>8
  <2>10. Served(s, c)
    BY <2>3, <2>4, <2>5, <2>7 DEF Served
  <2>11. Account(s, c)
    BY <2>10, Zenon DEF Accounted
  <2> QED
    BY <2>1, <2>5, <2>9, <2>11, AccountSame, Zenon DEF ends
<1>7. CASE Shutdown
  <2>1. client_fd' = client_fd /\ client_fd[s] = -1
    BY <1>7 DEF Shutdown, AllClosed, table
  <2> QED
    BY <2>1 DEF Served
<1>8. ASSUME NEW d \in Conns, ClientStep(d) PROVE Account(s, c)'
  BY <1>8, ClientAccount, Zenon
<1> QED
  BY <1>2, <1>3, <1>4, <1>5, <1>6, <1>7, <1>8, Steps, Zenon

(* The invariant of the streams. *)
LEMMA OrderInvariance == Spec => []OrderInv
<1>1. Init => OrderInv
  <2> SUFFICES ASSUME Init PROVE OrderInv
    OBVIOUS
  <2>1. OneEnd /\ Accounted
    BY DEF Init, OneEnd, Accounted, Served
  <2>2. Fresh
    BY SizeAssumption DEF Init, Fresh, Incoming, Piece
  <2>3. ASSUME NEW c \in Conns
        PROVE  /\ Piece(got[c], 0, AnswerUnits(c))
               /\ Piece(tocli[c], Len(got[c]), AnswerUnits(c))
               /\ Len(got[c]) + Len(tocli[c]) <= 0 * ResponseUnits
               /\ 0 * FrameUnits <= sent[c]
    BY SizeAssumption DEF Init, Piece
  <2>4. Delivered
    BY <2>3, 0 \in Nat, Zenon DEF Delivered
  <2> QED
    BY <2>1, <2>2, <2>4 DEF OrderInv
<1>2. IInv /\ OrderInv /\ [Next]_vars => OrderInv'
  BY OneEndStep, FreshStep, DeliveredStep, AccountedStep, Zenon DEF OrderInv
<1> QED
  BY <1>1, <1>2, Invariance, PTL DEF Spec

(* Whatever the numbers of clients, slots and requests and the sizes of    *)
(* frames and buffers, a client gets the responses to its own requests,    *)
(* each once, in order, and none to a request it has not sent completely.  *)
THEOREM ResponsesInOrderAlways == Spec => []ResponsesInOrder
<1>1. ASSUME IInv, OrderInv, NEW c \in Conns
      PROVE  \A k \in DOMAIN (got[c] \o tocli[c]) :
               /\ (got[c] \o tocli[c])[k] = Unit(c, k, ResponseUnits)
               /\ (got[c] \o tocli[c])[k].req * FrameUnits <= sent[c]
  <2> DEFINE stream == got[c] \o tocli[c]
             length == Len(got[c]) + Len(tocli[c])
  <2>1. got[c] \in Seq(UnitType) /\ tocli[c] \in Seq(UnitType) /\ sent[c] \in Nat
    BY <1>1 DEF IInv, TypeOK, KernelTypes, ClientTypes
  <2>2. /\ Piece(got[c], 0, AnswerUnits(c))
        /\ Piece(tocli[c], Len(got[c]), AnswerUnits(c))
    BY <1>1, Zenon DEF OrderInv, Delivered
  <2>3. Piece(tocli[c], 0 + Len(got[c]), AnswerUnits(c)) /\ length \in Nat
    <3>1. Len(got[c]) \in Nat /\ Len(tocli[c]) \in Nat
      BY <2>1, LenProperties, Zenon
    <3> DEFINE g == Len(got[c])
               t == Len(tocli[c])
    <3> HIDE DEF g, t
    <3>2. g \in Nat /\ t \in Nat
      BY <3>1 DEF g, t
    <3>3. 0 + g = g /\ g + t \in Nat
      BY <3>2
    <3>4. 0 + Len(got[c]) = Len(got[c]) /\ length \in Nat
      BY <3>3, Zenon DEF g, t
    <3> QED
      BY <2>2, <3>4, Zenon
  <2>4. Piece(stream, 0, AnswerUnits(c)) /\ Len(stream) = length /\ stream \in Seq(UnitType)
    BY <2>1, <2>2, <2>3, PieceConcat, 0 \in Nat, Zenon
  <2>5. PICK a \in Nat : length <= a * ResponseUnits /\ a * FrameUnits <= sent[c]
    BY <1>1, Zenon DEF OrderInv, Delivered
  <2> HIDE DEF stream, length
  <2>6. DOMAIN stream = 1..length
    BY <2>4
  <2>7. ASSUME NEW k \in 1..length
        PROVE  /\ stream[k] = Unit(c, k, ResponseUnits)
               /\ stream[k].req * FrameUnits <= sent[c]
    <3>1. 0 + k = k /\ k \in Nat
      BY <2>3
    <3>2. stream[k] = Unit(c, k, ResponseUnits)
      BY <2>4, <3>1, Zenon DEF Piece, AnswerUnits
    <3>3. Unit(c, k, ResponseUnits).req * FrameUnits <= sent[c]
      BY <2>1, <2>3, <2>5, AnswerToSent, Zenon
    <3> QED
      BY <3>2, <3>3, Zenon
  <2> QED
    BY <2>6, <2>7, Zenon DEF stream
<1>2. IInv /\ OrderInv => ResponsesInOrder
  BY <1>1, Zenon DEF ResponsesInOrder
<1> QED
  BY <1>2, Invariance, OrderInvariance, PTL
====
