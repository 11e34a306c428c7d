--------------------------- MODULE WorkerPoolProofs ---------------------------
(***************************************************************************)
(* WorkerPool for any set of connections, any size of the worker table,    *)
(* both transports and any number of faults.                               *)
(*                                                                         *)
(* SocketPath follows: the path that Unix-domain servers share, for any    *)
(* number of servers and of starts.                                        *)
(***************************************************************************)
EXTENDS WorkerPool, SocketPath, TLAPS

(* The types the argument needs. *)
PoolTypes ==
  /\ backlog \subseteq Conn /\ open \subseteq Conn
  /\ slots \in [Slots -> [client_fd : Conn \cup {None}, in_use : BOOLEAN,
                          finished : BOOLEAN, thread : Conn \cup {None}]]
  /\ thread \in [Conn -> [state : {"none", "start", "test", "serve", "command", "poll", "close",
                                   "mark", "return", "exited", "joined"},
                          slot : Slots, client_fd : Conn \cup {None}]]
  /\ index \in 1..(MaxClients + 1) /\ client_fd \in Conn \cup {None}
  /\ workers_joined \in {-1, 0}

(* Where the main thread can have a client in hand, and a slot to join. *)
Control ==
  /\ client_fd /= None => main \in {"reap", "reap_join", "start"}
  /\ main = "start" => client_fd /= None
  /\ main = "reap_join" => index \in Slots /\ slots[index].in_use

(* A connection has no thread before it is handed to one. *)
NotStarted ==
  /\ \A c \in backlog : c \notin open /\ ~Unjoined(c)
  /\ client_fd /= None => ~Unjoined(client_fd)

(* A slot in use has a thread, and one that has yet to read its slot will  *)
(* find its own descriptor there.                                          *)
SlotFilled ==
  /\ \A i \in Slots : slots[i].in_use => slots[i].thread \in Conn
  /\ \A c \in Conn : State(c) = "start" => slots[thread[c].slot].client_fd = c

(* What the end of wc_server_*_run has done so far. *)
Ending ==
  /\ main = "open" => ~listener /\ \A c \in Conn : ~Unjoined(c)
  /\ main = "join" /\ workers_joined = 0 =>
       \A i \in Slots : i < index => ~slots[i].in_use
  /\ main \in {"join", "return", "done"} => ~listener /\ (result = 0 => ~path)
  /\ main \in {"return", "done"} =>
       /\ workers_joined = 0 => \A c \in Conn : ~Unjoined(c)
       /\ result = 0 => workers_joined = 0
  /\ main = "done" => ~mutex
  /\ ~mutex => main = "done" \/ (main = "return" /\ workers_joined = 0)

(* Only a process that runs a worker's command has copies of descriptors. *)
Copies ==
  /\ inherited \in [Conn -> SUBSET Conn]
  /\ \A c \in Conn : inherited[c] /= {} => State(c) = "command"

IInv ==
  /\ PoolTypes /\ Control /\ NotStarted /\ SlotFilled /\ SlotsHoldWorkers
  /\ DescriptorsOwned /\ Ending /\ Copies

(* Setting finished in an entry of the table keeps the table's type. *)
LEMMA FinishedTyped ==
  ASSUME NEW S, NEW D, NEW k \in S,
         NEW f \in [S -> [client_fd : D, in_use : BOOLEAN, finished : BOOLEAN, thread : D]]
  PROVE  [f EXCEPT ![k].finished = TRUE]
           \in [S -> [client_fd : D, in_use : BOOLEAN, finished : BOOLEAN, thread : D]]
BY Zenon

(* Moving one thread on keeps the type of the threads. *)
LEMMA StateTyped ==
  ASSUME NEW S, NEW L, NEW K, NEW D, NEW c \in S, NEW l \in L,
         NEW f \in [S -> [state : L, slot : K, client_fd : D]]
  PROVE  [f EXCEPT ![c].state = l] \in [S -> [state : L, slot : K, client_fd : D]]
OBVIOUS

(* The steps of a worker that leave the table alone. *)
SessionStep(c) ==
  WorkerTests(c) \/ WorkerServes(c) \/ CommandStarts(c) \/ CommandEnds(c)

(* A worker's own steps keep the types, and what the main thread has. *)
LEMMA WorkerKeepsControl ==
  ASSUME PoolTypes, Control, NEW c \in Conn,
         SessionStep(c) \/ WorkerCloses(c) \/ WorkerReturns(c)
  PROVE  (PoolTypes /\ Control)'
<1> DEFINE States == {"none", "start", "test", "serve", "command", "poll", "close",
                      "mark", "return", "exited", "joined"}
<1>1. PICK l \in States : thread' = [thread EXCEPT ![c].state = l]
  BY DEF SessionStep, WorkerTests, WorkerServes, CommandStarts, CommandEnds,
         WorkerCloses, WorkerReturns, Goto
<1>2. /\ UNCHANGED <<backlog, slots, index, client_fd, workers_joined, main>>
      /\ open' \subseteq open
  BY DEF SessionStep, WorkerTests, WorkerServes, CommandStarts, CommandEnds,
         WorkerCloses, WorkerReturns, net, locals
<1>3. thread' \in [Conn -> [state : States, slot : Slots, client_fd : Conn \cup {None}]]
  <2>1. thread \in [Conn -> [state : States, slot : Slots, client_fd : Conn \cup {None}]]
    BY DEF PoolTypes
  <2> HIDE DEF States
  <2> QED
    BY ONLY <1>1, <2>1, StateTyped, c \in Conn, SMTT(30)
<1>4. PoolTypes'
  BY <1>2, <1>3 DEF PoolTypes
<1>5. Control'
  BY <1>2, SMTT(30) DEF Control
<1> QED
  BY <1>4, <1>5

(* Every step keeps the types and what the main thread has in hand. *)
LEMMA ControlStep == PoolTypes /\ Control /\ [Next]_vars => (PoolTypes /\ Control)'
<1> SUFFICES ASSUME PoolTypes, Control, [Next]_vars PROVE (PoolTypes /\ Control)'
  OBVIOUS
<1> USE ConnAssumption, MaxClientsAssumption
    DEF PoolTypes, Control, Slots, Fault
<1>0. CASE UNCHANGED vars
  BY <1>0 DEF vars, stop, net, locals
<1>1. CASE OpenListener
  BY <1>1 DEF OpenListener, stop, net, locals
<1>2. CASE TestStop
  BY <1>2 DEF TestStop, stop, net, locals
<1>3. CASE Reap
  BY <1>3 DEF Reap, AfterReap, ShouldJoin, stop, net, locals
<1>4. CASE ReapJoin
  BY <1>4 DEF ReapJoin, Join, Vacated, Goto, State, stop, net, locals
<1>5. CASE Poll
  BY <1>5 DEF Poll, stop, net, locals
<1>6. ASSUME NEW c \in Conn, Accept(c)
       PROVE (PoolTypes /\ Control)'
  BY <1>6 DEF Accept, ReapsOnAccept, stop, net, locals
<1>7. CASE AcceptReturns
  BY <1>7 DEF AcceptReturns, stop, net, locals
<1>8. CASE StartWorker
  BY <1>8 DEF StartWorker, FirstFree, FreeSlots, stop, net, locals
<1>9. CASE StartFails
  <2>1. CASE UNCHANGED slots
    BY <1>9, <2>1 DEF StartFails, stop, net, locals
  <2>2. ASSUME NEW i \in Slots,
               slots' = [slots EXCEPT ![i].client_fd = None, ![i].finished = FALSE]
        PROVE  (PoolTypes /\ Control)'
    BY <1>9, <2>2 DEF StartFails, stop, net, locals
  <2> QED
    BY <1>9, <2>1, <2>2, Zenon DEF StartFails
<1>10. CASE RequestStop
  BY <1>10 DEF RequestStop, stop, net, locals
<1>11. CASE CloseListener
  BY <1>11 DEF CloseListener, stop, net, locals
<1>12. CASE JoinAll
  BY <1>12 DEF JoinAll, MustJoin, Join, Vacated, Goto, State, stop, net, locals
<1>13. CASE DestroyMutex
  BY <1>13 DEF DestroyMutex, KeepsMutex, stop, net, locals
<1>24. CASE Return
  BY <1>24 DEF Return, stop, net, locals
<1>14. ASSUME NEW c \in Conn, WorkerStarts(c)
       PROVE (PoolTypes /\ Control)'
  <2> DEFINE States == {"none", "start", "test", "serve", "command", "poll", "close",
                        "mark", "return", "exited", "joined"}
  <2>1. PICK fd \in Conn \cup {None} :
             thread' = [thread EXCEPT ![c].state = "test", ![c].client_fd = fd]
    <3>1. ReadFd(c) \subseteq Conn \cup {None}
      BY DEF ReadFd
    <3> QED
      BY <1>14, <3>1, Zenon DEF WorkerStarts
  <2>2. /\ UNCHANGED <<backlog, open, slots, index, client_fd, workers_joined, main>>
        /\ "test" \in States
    BY <1>14 DEF WorkerStarts, net, locals
  <2>3. thread \in [Conn -> [state : States, slot : Slots, client_fd : Conn \cup {None}]]
    OBVIOUS
  <2>4. thread' \in [Conn -> [state : States, slot : Slots, client_fd : Conn \cup {None}]]
    <3> HIDE DEF States
    <3> QED
      BY ONLY <2>1, <2>2, <2>3, c \in Conn, fd \in Conn \cup {None}, Zenon
  <2>5. PoolTypes'
    BY <2>2, <2>4
  <2> QED
    BY <2>2, <2>5
<1>15. ASSUME NEW c \in Conn, SessionStep(c) \/ WorkerCloses(c) \/ WorkerReturns(c)
       PROVE (PoolTypes /\ Control)'
  <2> HIDE DEF PoolTypes, Control
  <2> QED
    BY <1>15, WorkerKeepsControl
<1>20. ASSUME NEW c \in Conn, WorkerMarks(c)
       PROVE (PoolTypes /\ Control)'
  <2>1. thread' = [thread EXCEPT ![c].state = "return"]
    BY <1>20 DEF WorkerMarks, Goto
  <2>2. PICK k \in Slots : \/ UNCHANGED slots
                           \/ slots' = [slots EXCEPT ![k].finished = TRUE]
    BY <1>20 DEF WorkerMarks
  <2>3. UNCHANGED <<backlog, open, index, client_fd, workers_joined, main>>
    BY <1>20 DEF WorkerMarks, net, locals
  <2>4. slots' \in [Slots -> [client_fd : Conn \cup {None}, in_use : BOOLEAN,
                              finished : BOOLEAN, thread : Conn \cup {None}]]
    <3>1. CASE UNCHANGED slots
      BY <3>1
    <3>2. CASE slots' = [slots EXCEPT ![k].finished = TRUE]
      BY <3>2, FinishedTyped, Zenon
    <3> QED
      BY <2>2, <3>1, <3>2
  <2>5. \A i \in Slots : slots'[i].in_use = slots[i].in_use
    BY <2>2
  <2>6. thread' \in [Conn -> [state : {"none", "start", "test", "serve", "command", "poll",
                                       "close", "mark", "return", "exited", "joined"},
                              slot : Slots, client_fd : Conn \cup {None}]]
    <3> DEFINE States == {"none", "start", "test", "serve", "command", "poll",
                          "close", "mark", "return", "exited", "joined"}
    <3>1. /\ thread \in [Conn -> [state : States, slot : Slots, client_fd : Conn \cup {None}]]
          /\ "return" \in States
      OBVIOUS
    <3>2. thread' \in [Conn -> [state : States, slot : Slots, client_fd : Conn \cup {None}]]
      <4> HIDE DEF States
      <4> QED
        BY ONLY <2>1, <3>1, StateTyped, c \in Conn
    <3> QED
      BY <3>2
  <2>7. PoolTypes'
    BY <2>3, <2>4, <2>6
  <2>8. Control'
    BY <2>3, <2>5
  <2> QED
    BY <2>7, <2>8
<1>22. ASSUME NEW c \in Conn, Connect(c)
       PROVE (PoolTypes /\ Control)'
  BY <1>22 DEF Connect, Unused, stop, net, locals
<1>23. CASE Signal
  BY <1>23 DEF Signal, stop, net, locals
<1> QED
  BY <1>0, <1>1, <1>2, <1>3, <1>4, <1>5, <1>6, <1>7, <1>8, <1>9, <1>10, <1>11,
     <1>12, <1>13, <1>14, <1>15, <1>20, <1>22, <1>23, <1>24
  DEF Next, Main, Worker, SessionStep

(* A worker that goes on, and is not joined yet, leaves the table as it    *)
(* is.                                                                     *)
LEMMA TableFrame ==
  ASSUME PoolTypes, NotStarted, SlotFilled, SlotsHoldWorkers,
         UNCHANGED <<slots, backlog, client_fd>>, open' \subseteq open,
         \A d \in Conn : /\ thread'[d].slot = thread[d].slot
                         /\ thread'[d].state \in {"none", "joined"}
                              <=> thread[d].state \in {"none", "joined"}
                         /\ thread'[d].state = "start" => thread[d].state = "start"
  PROVE  (NotStarted /\ SlotFilled /\ SlotsHoldWorkers)'
<1> USE DEF Unjoined, State
<1>1. backlog \subseteq Conn /\ client_fd \in Conn \cup {None}
  BY DEF PoolTypes
<1>2. NotStarted'
  BY <1>1 DEF NotStarted
<1>3. SlotFilled'
  <2>1. \A d \in Conn : State(d)' = "start" => slots'[thread'[d].slot].client_fd = d
    BY DEF SlotFilled
  <2>2. \A i \in Slots : slots'[i].in_use => slots'[i].thread \in Conn
    BY DEF SlotFilled
  <2> QED
    BY <2>1, <2>2 DEF SlotFilled
<1>4. SlotsHoldWorkers'
  <2>1. \A d \in Conn : Unjoined(d)' =>
          slots'[thread'[d].slot].in_use /\ slots'[thread'[d].slot].thread = d
    BY DEF SlotsHoldWorkers
  <2>2. ASSUME NEW i \in Slots, slots'[i].in_use
        PROVE  Unjoined(slots[i].thread)' /\ thread'[slots'[i].thread].slot = i
    <3>1. slots[i].thread \in Conn /\ slots[i].in_use
      BY <2>2 DEF SlotFilled
    <3>2. Unjoined(slots[i].thread) /\ thread[slots[i].thread].slot = i
      BY <3>1 DEF SlotsHoldWorkers
    <3> QED
      BY <3>1, <3>2 DEF Unjoined, State
  <2> QED
    BY <2>1, <2>2 DEF SlotsHoldWorkers
<1> QED
  BY <1>2, <1>3, <1>4

(* A worker leaves the table alone until it marks itself finished. *)
LEMMA SessionKeepsTable ==
  ASSUME PoolTypes, NotStarted, SlotFilled, SlotsHoldWorkers, NEW c \in Conn,
         SessionStep(c) \/ WorkerStarts(c) \/ WorkerCloses(c) \/ WorkerReturns(c)
  PROVE  (NotStarted /\ SlotFilled /\ SlotsHoldWorkers)'
<1>1. /\ UNCHANGED <<slots, backlog, client_fd>> /\ open' \subseteq open
      /\ State(c) \in {"start", "test", "serve", "command", "poll", "close", "return"}
  BY DEF SessionStep, WorkerTests, WorkerServes, CommandStarts, CommandEnds,
         WorkerStarts, WorkerCloses, WorkerReturns, net, locals
<1>2. PICK l \in {"test", "serve", "command", "poll", "close", "mark", "exited"} :
        /\ thread'[c].state = l /\ thread'[c].slot = thread[c].slot
        /\ \A d \in Conn : d /= c => thread'[d] = thread[d]
  <2>0. thread \in [Conn -> [state : {"none", "start", "test", "serve", "command", "poll",
                                      "close", "mark", "return", "exited", "joined"},
                             slot : Slots, client_fd : Conn \cup {None}]]
    BY DEF PoolTypes
  <2>1. CASE WorkerStarts(c)
    <3>1. PICK fd : thread' = [thread EXCEPT ![c].state = "test", ![c].client_fd = fd]
      BY <2>1, Zenon DEF WorkerStarts
    <3>2. /\ thread'[c].state = "test" /\ thread'[c].slot = thread[c].slot
          /\ \A d \in Conn : d /= c => thread'[d] = thread[d]
      BY ONLY <2>0, <3>1, c \in Conn, SMTT(30)
    <3> QED
      BY <3>2
  <2>2. CASE ~WorkerStarts(c)
    <3>1. PICK l \in {"test", "serve", "command", "poll", "close", "mark", "exited"} :
            thread' = [thread EXCEPT ![c].state = l]
      BY <2>2 DEF SessionStep, WorkerTests, WorkerServes, CommandStarts, CommandEnds,
                  WorkerCloses, WorkerReturns, Goto
    <3>2. /\ thread'[c].state = l /\ thread'[c].slot = thread[c].slot
          /\ \A d \in Conn : d /= c => thread'[d] = thread[d]
      BY ONLY <2>0, <3>1, c \in Conn, SMTT(30)
    <3> QED
      BY <3>2
  <2> QED
    BY <2>1, <2>2
<1>3. \A d \in Conn : /\ thread'[d].slot = thread[d].slot
                      /\ thread'[d].state \in {"none", "joined"}
                           <=> thread[d].state \in {"none", "joined"}
                      /\ thread'[d].state = "start" => thread[d].state = "start"
  BY <1>1, <1>2 DEF State
<1> QED
  BY <1>1, <1>3, TableFrame

(* Every step keeps the worker table: only the main thread fills a slot,   *)
(* when it is free, and empties it, after the join.                        *)
LEMMA SlotStep ==
  /\ PoolTypes /\ Control /\ NotStarted /\ SlotFilled /\ SlotsHoldWorkers
  /\ DescriptorsOwned /\ [Next]_vars
  => (NotStarted /\ SlotFilled /\ SlotsHoldWorkers)'
<1> SUFFICES ASSUME PoolTypes, Control, NotStarted, SlotFilled, SlotsHoldWorkers,
                    DescriptorsOwned, [Next]_vars
             PROVE  (NotStarted /\ SlotFilled /\ SlotsHoldWorkers)'
  OBVIOUS
<1> USE ConnAssumption, MaxClientsAssumption
    DEF PoolTypes, Control, NotStarted, SlotFilled, SlotsHoldWorkers, DescriptorsOwned, DescriptorsHeld,
        Outlived, Unjoined, State
<1>0. CASE UNCHANGED vars
  BY <1>0 DEF vars, stop, net, locals
<1>1. CASE OpenListener
  BY <1>1 DEF OpenListener, stop, net, locals
<1>2. CASE TestStop
  BY <1>2 DEF TestStop, stop, net, locals
<1>3. CASE Reap
  BY <1>3 DEF Reap, AfterReap, ShouldJoin, stop, net, locals
<1>4. CASE ReapJoin
  BY <1>4 DEF ReapJoin, Join, Vacated, Goto, stop, net, locals
<1>5. CASE Poll
  BY <1>5 DEF Poll, stop, net, locals
<1>6. ASSUME NEW c \in Conn, Accept(c)
       PROVE (NotStarted /\ SlotFilled /\ SlotsHoldWorkers)'
  BY <1>6 DEF Accept, ReapsOnAccept, stop, net, locals
<1>7. CASE AcceptReturns
  BY <1>7 DEF AcceptReturns, stop, net, locals
<1>8. CASE StartWorker
  BY <1>8 DEF StartWorker, FirstFree, FreeSlots, stop, net, locals
<1>9. CASE StartFails
  <2>1. UNCHANGED <<thread, backlog>> /\ open' \subseteq open /\ client_fd' = None
    BY <1>9 DEF StartFails, net
  <2>2. CASE UNCHANGED slots
    BY <2>1, <2>2
  <2>3. ASSUME NEW i \in Slots, FirstFree(i),
               slots' = [slots EXCEPT ![i].client_fd = None, ![i].finished = FALSE]
        PROVE  (NotStarted /\ SlotFilled /\ SlotsHoldWorkers)'
    <3>1. ~slots[i].in_use
      BY <2>3 DEF FirstFree, FreeSlots
    <3>2. \A j \in Slots : /\ slots'[j].in_use = slots[j].in_use
                           /\ slots'[j].thread = slots[j].thread
                           /\ j /= i => slots'[j] = slots[j]
      BY <2>3
    <3>3. NotStarted'
      BY <2>1
    <3>4. SlotsHoldWorkers'
      BY <2>1, <3>2
    <3>5. SlotFilled'
      BY <2>1, <3>1, <3>2
    <3> QED
      BY <3>3, <3>4, <3>5
  <2> QED
    BY <1>9, <2>2, <2>3, Zenon DEF StartFails
<1>10. CASE RequestStop
  BY <1>10 DEF RequestStop, stop, net, locals
<1>11. CASE CloseListener
  BY <1>11 DEF CloseListener, stop, net, locals
<1>12. CASE JoinAll
  BY <1>12 DEF JoinAll, MustJoin, Join, Vacated, Goto, stop, net, locals
<1>13. CASE DestroyMutex
  BY <1>13 DEF DestroyMutex, KeepsMutex, stop, net, locals
<1>24. CASE Return
  BY <1>24 DEF Return, stop, net, locals
<1>15. ASSUME NEW c \in Conn,
              SessionStep(c) \/ WorkerStarts(c) \/ WorkerCloses(c) \/ WorkerReturns(c)
       PROVE (NotStarted /\ SlotFilled /\ SlotsHoldWorkers)'
  <2> HIDE DEF PoolTypes, NotStarted, SlotFilled, SlotsHoldWorkers
  <2> QED
    BY <1>15, SessionKeepsTable
<1>20. ASSUME NEW c \in Conn, WorkerMarks(c)
       PROVE (NotStarted /\ SlotFilled /\ SlotsHoldWorkers)'
  <2>1. thread' = [thread EXCEPT ![c].state = "return"] /\ State(c) = "mark"
    BY <1>20 DEF WorkerMarks, Goto
  <2>2. \A i \in Slots : /\ slots'[i].in_use = slots[i].in_use
                         /\ slots'[i].thread = slots[i].thread
                         /\ slots'[i].client_fd = slots[i].client_fd
    BY <1>20 DEF WorkerMarks
  <2>3. UNCHANGED <<backlog, open, client_fd>>
    BY <1>20 DEF WorkerMarks, net, locals
  <2>4. \A d \in Conn : /\ thread'[d].slot = thread[d].slot
                        /\ Unjoined(d)' <=> Unjoined(d)
                        /\ State(d)' = "start" => State(d) = "start"
    BY <2>1
  <2>5. NotStarted'
    BY <2>3, <2>4
  <2>6. SlotFilled'
    BY <2>2, <2>4
  <2>7. SlotsHoldWorkers'
    BY <2>2, <2>4
  <2> QED
    BY <2>5, <2>6, <2>7
<1>22. ASSUME NEW c \in Conn, Connect(c)
       PROVE (NotStarted /\ SlotFilled /\ SlotsHoldWorkers)'
  BY <1>22 DEF Connect, Unused, stop, net, locals
<1>23. CASE Signal
  BY <1>23 DEF Signal, stop, net, locals
<1> QED
  BY <1>0, <1>1, <1>2, <1>3, <1>4, <1>5, <1>6, <1>7, <1>8, <1>9, <1>10, <1>11,
     <1>12, <1>13, <1>15, <1>20, <1>22, <1>23, <1>24, Zenon
  DEF Next, Main, Worker, SessionStep

(* A worker that goes on with its session keeps its descriptor. *)
LEMMA SessionKeepsDescriptor ==
  ASSUME PoolTypes, DescriptorsHeld, NEW c \in Conn, SessionStep(c)
  PROVE  DescriptorsHeld'
<1>1. PICK l \in Serving : Goto(c, l)
  BY DEF SessionStep, WorkerTests, WorkerServes, CommandStarts, CommandEnds, Serving
<1>2. /\ \A d \in Conn : thread'[d].client_fd = thread[d].client_fd
      /\ \A d \in Conn : d /= c => thread'[d] = thread[d]
      /\ thread'[c].state = l
  BY <1>1 DEF Goto, PoolTypes
<1>3. State(c) \in Serving /\ UNCHANGED <<open, client_fd>>
  BY DEF SessionStep, WorkerTests, WorkerServes, CommandStarts, CommandEnds, Serving,
         net, locals
<1> DEFINE Held == Serving \cup {"start"}
<1>4. \A d \in Conn : thread'[d].state \in Held <=> thread[d].state \in Held
  BY <1>2, <1>3 DEF State
<1>5. {d \in Conn : thread'[d].state \in Held} = {d \in Conn : thread[d].state \in Held}
  <2> HIDE DEF Held
  <2> QED
    BY ONLY <1>4
<1>6. open' = ({client_fd'} \ {None}) \cup {d \in Conn : thread'[d].state \in Held}
  BY <1>5, <1>3 DEF DescriptorsHeld, State
<1>7. \A d \in Conn : thread'[d].state \in Serving => thread'[d].client_fd = d
  BY <1>2, <1>3 DEF DescriptorsHeld, State
<1> QED
  BY <1>6, <1>7 DEF DescriptorsHeld, State

(* A descriptor passes from the accept loop to its worker and is closed by *)
(* the one that has it, if the worker that starts finds its slot.          *)
LEMMA HeldStep ==
  /\ PoolTypes /\ Control /\ NotStarted /\ SlotFilled /\ DescriptorsHeld
  /\ (\E c \in Conn : WorkerStarts(c)) => Stored
  /\ [Next]_vars
  => DescriptorsHeld'
<1> SUFFICES ASSUME PoolTypes, Control, NotStarted, SlotFilled, DescriptorsHeld,
                    (\E c \in Conn : WorkerStarts(c)) => Stored, [Next]_vars
             PROVE  DescriptorsHeld'
  OBVIOUS
<1> USE ConnAssumption, MaxClientsAssumption
    DEF PoolTypes, Control, NotStarted, SlotFilled, DescriptorsHeld, Unjoined, State, Serving
<1>0. CASE UNCHANGED vars
  BY <1>0 DEF vars, stop, net, locals
<1>1. CASE OpenListener
  BY <1>1 DEF OpenListener, stop, net, locals
<1>2. CASE TestStop
  BY <1>2 DEF TestStop, stop, net, locals
<1>3. CASE Reap
  BY <1>3 DEF Reap, AfterReap, ShouldJoin, stop, net, locals
<1>4. CASE ReapJoin
  BY <1>4 DEF ReapJoin, Join, Vacated, Goto, stop, net, locals
<1>5. CASE Poll
  BY <1>5 DEF Poll, stop, net, locals
<1>6. ASSUME NEW c \in Conn, Accept(c)
       PROVE DescriptorsHeld'
  BY <1>6 DEF Accept, ReapsOnAccept, stop, net, locals
<1>7. CASE AcceptReturns
  BY <1>7 DEF AcceptReturns, stop, net, locals
<1>8. CASE StartWorker
  BY <1>8 DEF StartWorker, FirstFree, FreeSlots, stop, net, locals
<1>9. CASE StartFails
  BY <1>9 DEF StartFails, FirstFree, FreeSlots, ClosedOnReject, stop, net, locals
<1>10. CASE RequestStop
  BY <1>10 DEF RequestStop, stop, net, locals
<1>11. CASE CloseListener
  BY <1>11 DEF CloseListener, stop, net, locals
<1>12. CASE JoinAll
  BY <1>12 DEF JoinAll, MustJoin, Join, Vacated, Goto, stop, net, locals
<1>13. CASE DestroyMutex
  BY <1>13 DEF DestroyMutex, KeepsMutex, stop, net, locals
<1>24. CASE Return
  BY <1>24 DEF Return, stop, net, locals
<1>14. ASSUME NEW c \in Conn, WorkerStarts(c)
       PROVE DescriptorsHeld'
  <2>1. thread' = [thread EXCEPT ![c].state = "test",
                                 ![c].client_fd = slots[thread[c].slot].client_fd]
    BY <1>14, Zenon DEF WorkerStarts, ReadFd
  <2> QED
    BY <1>14, <2>1 DEF WorkerStarts, stop, net, locals
<1>15. ASSUME NEW c \in Conn, SessionStep(c)
       PROVE DescriptorsHeld'
  <2> HIDE DEF PoolTypes, DescriptorsHeld
  <2> QED
    BY <1>15, SessionKeepsDescriptor
<1>19. ASSUME NEW c \in Conn, WorkerCloses(c)
       PROVE DescriptorsHeld'
  BY <1>19 DEF WorkerCloses, Goto, stop, net, locals
<1>20. ASSUME NEW c \in Conn, WorkerMarks(c)
       PROVE DescriptorsHeld'
  BY <1>20 DEF WorkerMarks, Goto, stop, net, locals
<1>21. ASSUME NEW c \in Conn, WorkerReturns(c)
       PROVE DescriptorsHeld'
  BY <1>21 DEF WorkerReturns, Goto, stop, net, locals
<1>22. ASSUME NEW c \in Conn, Connect(c)
       PROVE DescriptorsHeld'
  BY <1>22 DEF Connect, Unused, stop, net, locals
<1>23. CASE Signal
  BY <1>23 DEF Signal, stop, net, locals
<1> QED
  BY <1>0, <1>1, <1>2, <1>3, <1>4, <1>5, <1>6, <1>7, <1>8, <1>9, <1>10, <1>11,
     <1>12, <1>13, <1>14, <1>15, <1>19, <1>20, <1>21, <1>22, <1>23, <1>24, Zenon
  DEF Next, Main, Worker, SessionStep

(* Descriptors are where they belong until a worker outlives the server's  *)
(* variables; a worker that has yet to start is not joined.                *)
LEMMA DescriptorStep ==
  /\ PoolTypes /\ Control /\ NotStarted /\ SlotFilled /\ Ending /\ DescriptorsOwned
  /\ [Next]_vars
  => DescriptorsOwned'
<1> SUFFICES ASSUME PoolTypes, Control, NotStarted, SlotFilled, Ending, DescriptorsOwned,
                    [Next]_vars, ~Outlived'
             PROVE  DescriptorsHeld'
  BY DEF DescriptorsOwned
<1>1. main = "done" => UNCHANGED <<main, workers_joined>>
  BY Zenon DEF Next, vars, Main, OpenListener, TestStop, Reap, ReapJoin, Poll, Accept,
     AcceptReturns, StartWorker, StartFails, RequestStop, CloseListener, JoinAll,
     DestroyMutex, Return, Worker, WorkerStarts, WorkerTests, WorkerServes, CommandStarts,
     WorkerCloses, WorkerMarks, WorkerReturns, CommandEnds, Connect, Signal, locals
<1>2. ~Outlived
  BY <1>1, Zenon DEF Outlived
<1>3. (\E c \in Conn : WorkerStarts(c)) => Stored
  BY <1>2 DEF WorkerStarts, Stored, Outlived, Ending, Unjoined, PoolTypes
<1> QED
  BY <1>2, <1>3, HeldStep DEF DescriptorsOwned

(* The end of the server: after the join loop with no failure no slot is   *)
(* in use, so by SlotsHoldWorkers no thread is left.                       *)
LEMMA EndingStep == IInv /\ [Next]_vars => Ending'
<1> SUFFICES ASSUME IInv, [Next]_vars PROVE Ending'
  OBVIOUS
<1> USE ConnAssumption, MaxClientsAssumption
    DEF IInv, PoolTypes, Control, SlotsHoldWorkers, SlotFilled, Ending, Unjoined, State, Slots
<1>0. CASE UNCHANGED vars
  BY <1>0 DEF vars, stop, net, locals
<1>1. CASE OpenListener
  <2>1. main = "open" /\ UNCHANGED <<thread, slots, workers_joined>>
    BY <1>1, Zenon DEF OpenListener
  <2>2. mutex /\ ~listener /\ \A c \in Conn : ~Unjoined(c)
    BY <2>1
  <2>3. \/ main' = "test" /\ mutex' = mutex
        \/ main' = "done" /\ ~mutex' /\ result' = -1 /\ listener' = listener
    BY <1>1, Zenon DEF OpenListener
  <2>4. \A c \in Conn : ~Unjoined(c)'
    BY <2>1, <2>2
  <2>5. main' = "test" => mutex'
    BY <2>2, <2>3, Zenon
  <2>6. main' = "done" => ~mutex' /\ result' /= 0 /\ ~listener'
    <3>1. -1 /= 0
      OBVIOUS
    <3> QED
      BY <2>2, <2>3, <3>1, Zenon
  <2>7. main' \in {"test", "done"}
    BY <2>3, Zenon
  <2> HIDE DEF IInv, PoolTypes, Control, SlotsHoldWorkers, SlotFilled, Unjoined
  <2> QED
    BY <2>4, <2>5, <2>6, <2>7
<1>2. CASE TestStop
  BY <1>2 DEF TestStop, stop, net, locals
<1>3. CASE Reap
  BY <1>3 DEF Reap, AfterReap, ShouldJoin, stop, net, locals
<1>4. CASE ReapJoin
  BY <1>4 DEF ReapJoin, Join, Vacated, Goto, stop, net, locals
<1>5. CASE Poll
  BY <1>5 DEF Poll, stop, net, locals
<1>6. ASSUME NEW c \in Conn, Accept(c)
       PROVE Ending'
  BY <1>6 DEF Accept, ReapsOnAccept, stop, net, locals
<1>7. CASE AcceptReturns
  BY <1>7, SMTT(30) DEF AcceptReturns, stop, net, locals
<1>8. CASE StartWorker
  BY <1>8 DEF StartWorker, FirstFree, FreeSlots, stop, net, locals
<1>9. CASE StartFails
  BY <1>9 DEF StartFails, FirstFree, FreeSlots, ClosedOnReject, stop, net, locals
<1>10. CASE RequestStop
  BY <1>10 DEF RequestStop, stop, net, locals
<1>11. CASE CloseListener
  <2>1. /\ main' = "join" /\ index' = 1 /\ listener' = FALSE
        /\ UNCHANGED <<mutex, thread, slots>> /\ main = "close"
    BY <1>11, SMTT(30) DEF CloseListener
  <2>2. result' = 0 => ~path'
    BY <1>11 DEF CloseListener
  <2>3. mutex
    BY <2>1
  <2> QED
    BY <2>1, <2>2, <2>3
<1>12. CASE JoinAll
  <2>1. /\ main = "join" /\ index \in Slots /\ index' = index + 1
        /\ UNCHANGED <<mutex, main, listener, path, result>>
    BY <1>12 DEF JoinAll, net
  <2>2. mutex
    BY <2>1
  <2>3. ASSUME workers_joined' = 0 PROVE ~slots'[index].in_use
    BY <1>12, <2>1, <2>3 DEF JoinAll, MustJoin, Join, Vacated
  <2>4. \A i \in Slots \ {index} : slots'[i] = slots[i]
    BY <1>12, <2>1 DEF JoinAll, Join, Vacated
  <2>5. workers_joined' = 0 => workers_joined = 0
    BY <1>12 DEF JoinAll
  <2>6. ASSUME workers_joined' = 0, NEW i \in Slots, i < index'
        PROVE  ~slots'[i].in_use
    BY <2>1, <2>3, <2>4, <2>5, <2>6
  <2> QED
    BY <2>1, <2>2, <2>6
<1>13. CASE DestroyMutex
  <2>1. /\ main = "join" /\ index \notin Slots /\ main' = "return"
        /\ UNCHANGED <<thread, slots, workers_joined, listener, path>>
        /\ mutex' = (workers_joined = -1)
    BY <1>13, Zenon DEF DestroyMutex, KeepsMutex, net
  <2>2. result' = 0 => result = 0 /\ workers_joined = 0
    BY <1>13 DEF DestroyMutex
  <2>3. index = MaxClients + 1
    BY <2>1
  <2>4. ASSUME workers_joined = 0, NEW c \in Conn PROVE ~Unjoined(c)
    <3>1. thread[c].slot \in Slots /\ \A i \in Slots : ~slots[i].in_use
      BY <2>1, <2>3, <2>4
    <3> QED
      BY <3>1
  <2> QED
    BY <2>1, <2>2, <2>4, Zenon
<1>24. CASE Return
  <2>1. /\ main = "return" /\ main' = "done" /\ ~mutex'
        /\ UNCHANGED <<thread, slots, workers_joined, listener, path, result>>
    BY <1>24, Zenon DEF Return, net, locals
  <2>2. /\ ~listener /\ (result = 0 => ~path /\ workers_joined = 0)
        /\ workers_joined = 0 => \A c \in Conn : ~Unjoined(c)
    BY <2>1
  <2>3. workers_joined' = 0 => \A c \in Conn : ~Unjoined(c)'
    BY <2>1, <2>2
  <2> HIDE DEF IInv, PoolTypes, Control, SlotsHoldWorkers, SlotFilled, Unjoined
  <2> QED
    BY <2>1, <2>2, <2>3
<1>14. ASSUME NEW c \in Conn, WorkerStarts(c)
       PROVE Ending'
  BY <1>14 DEF WorkerStarts, stop, net, locals
<1>15. ASSUME NEW c \in Conn, WorkerTests(c)
       PROVE Ending'
  BY <1>15, SMTT(30) DEF WorkerTests, Goto, stop, net, locals
<1>16. ASSUME NEW c \in Conn, WorkerServes(c)
       PROVE Ending'
  BY <1>16 DEF WorkerServes, Goto, stop, net, locals
<1>17. ASSUME NEW c \in Conn, CommandStarts(c)
       PROVE Ending'
  BY <1>17 DEF CommandStarts, Goto, stop, net, locals
<1>18. ASSUME NEW c \in Conn, CommandEnds(c)
       PROVE Ending'
  BY <1>18 DEF CommandEnds, Goto, stop, net, locals
<1>19. ASSUME NEW c \in Conn, WorkerCloses(c)
       PROVE Ending'
  BY <1>19 DEF WorkerCloses, Goto, stop, net, locals
<1>20. ASSUME NEW c \in Conn, WorkerMarks(c)
       PROVE Ending'
  <2>1. thread' = [thread EXCEPT ![c].state = "return"]
    BY <1>20 DEF WorkerMarks, Goto
  <2>2. \A i \in Slots : slots'[i].in_use = slots[i].in_use
    BY <1>20 DEF WorkerMarks
  <2>3. UNCHANGED <<mutex, main, listener, path, result, index, workers_joined>>
    BY <1>20 DEF WorkerMarks, net, locals
  <2>4. Unjoined(c)
    BY <1>20 DEF WorkerMarks
  <2>5. \A d \in Conn : Unjoined(d)' <=> Unjoined(d)
    BY <2>1, <2>4
  <2> QED
    BY <2>2, <2>3, <2>5
<1>21. ASSUME NEW c \in Conn, WorkerReturns(c)
       PROVE Ending'
  BY <1>21 DEF WorkerReturns, Goto, stop, net, locals
<1>22. ASSUME NEW c \in Conn, Connect(c)
       PROVE Ending'
  BY <1>22 DEF Connect, Unused, stop, net, locals
<1>23. CASE Signal
  BY <1>23 DEF Signal, stop, net, locals
<1> QED
  BY <1>0, <1>1, <1>2, <1>3, <1>4, <1>5, <1>6, <1>7, <1>8, <1>9, <1>10, <1>11,
     <1>12, <1>13, <1>14, <1>15, <1>16, <1>17, <1>18, <1>19, <1>20, <1>21, <1>22, <1>23, <1>24, Zenon
  DEF Next, Main, Worker

(* The process is waited for before its worker goes on. *)
LEMMA CopiesStep == IInv /\ [Next]_vars => Copies'
<1> SUFFICES ASSUME IInv, [Next]_vars PROVE Copies'
  OBVIOUS
<1>0. PoolTypes /\ Control /\ NotStarted /\ SlotFilled /\ SlotsHoldWorkers /\ Copies
  BY DEF IInv
<1> USE DEF PoolTypes, Copies, State
<1>1. ASSUME UNCHANGED <<inherited, thread>> PROVE Copies'
  BY <1>0, <1>1
<1>2. ASSUME NEW c \in Conn, NEW l \in {"test", "serve", "poll", "close", "mark", "return",
                                       "exited", "joined"},
             Goto(c, l), State(c) /= "command", UNCHANGED inherited
      PROVE  Copies'
  <2>1. \A d \in Conn : State(d) = "command" => State(d)' = "command"
    BY <1>0, <1>2, SMTT(30) DEF Goto
  <2> QED
    BY <1>0, <1>2, <2>1
<1>3. CASE ReapJoin
  BY <1>0, <1>1, <1>2, <1>3, SMTT(30) DEF Control, SlotFilled, SlotsHoldWorkers, Unjoined, ReapJoin, Join
<1>4. CASE JoinAll
  BY <1>0, <1>1, <1>2, <1>4, SMTT(30) DEF SlotFilled, SlotsHoldWorkers, Unjoined, JoinAll, MustJoin, Join
<1>5. CASE StartWorker
  BY <1>0, <1>5, ConnAssumption DEF Control, NotStarted, Unjoined, StartWorker
<1>6. ASSUME NEW c \in Conn, WorkerStarts(c) PROVE Copies'
  BY <1>0, <1>6, SMTT(30) DEF WorkerStarts
<1>7. ASSUME NEW c \in Conn, WorkerTests(c) PROVE Copies'
  BY <1>2, <1>7 DEF WorkerTests
<1>8. ASSUME NEW c \in Conn, WorkerServes(c) PROVE Copies'
  BY <1>2, <1>8 DEF WorkerServes
<1>9. ASSUME NEW c \in Conn, CommandStarts(c) PROVE Copies'
  BY <1>0, <1>9 DEF CommandStarts, Goto
<1>10. ASSUME NEW c \in Conn, CommandEnds(c) PROVE Copies'
  BY <1>0, <1>10 DEF CommandEnds, Goto
<1>11. ASSUME NEW c \in Conn, WorkerCloses(c) PROVE Copies'
  BY <1>2, <1>11 DEF WorkerCloses
<1>12. ASSUME NEW c \in Conn, WorkerMarks(c) PROVE Copies'
  BY <1>2, <1>12 DEF WorkerMarks
<1>13. ASSUME NEW c \in Conn, WorkerReturns(c) PROVE Copies'
  BY <1>2, <1>13 DEF WorkerReturns
<1>14. ASSUME \/ UNCHANGED vars \/ OpenListener \/ TestStop \/ Reap \/ Poll
              \/ (\E c \in Conn : Accept(c) \/ Connect(c)) \/ AcceptReturns
              \/ StartFails \/ RequestStop \/ CloseListener \/ DestroyMutex \/ Return \/ Signal
       PROVE  Copies'
  <2>1. UNCHANGED <<inherited, thread>>
    BY <1>14, Zenon DEF vars, OpenListener, TestStop, Reap, Poll, Accept, Connect, AcceptReturns,
                 StartFails, RequestStop, CloseListener, DestroyMutex, Return, Signal
  <2> QED
    BY <1>1, <2>1
<1> QED
  BY <1>3, <1>4, <1>5, <1>6, <1>7, <1>8, <1>9, <1>10, <1>11, <1>12, <1>13, <1>14, Zenon
  DEF Next, Main, Worker

(* The inductive invariant. *)
LEMMA PoolInvariant == Spec => []IInv
<1>1. Init => IInv
  <2> SUFFICES ASSUME Init PROVE IInv
    OBVIOUS
  <2> USE ConnAssumption, MaxClientsAssumption DEF Init, Slots, FreeSlot, NoThread
  <2>1. PoolTypes
    BY DEF PoolTypes
  <2>2. \A c \in Conn : ~Unjoined(c) /\ State(c) = "none"
    BY DEF Unjoined, State
  <2>3. Control /\ NotStarted
    BY <2>2 DEF Control, NotStarted
  <2>4. SlotFilled /\ SlotsHoldWorkers
    BY <2>2 DEF SlotFilled, SlotsHoldWorkers
  <2>5. DescriptorsOwned
    BY <2>2 DEF DescriptorsOwned, DescriptorsHeld, Serving
  <2>6. Ending /\ Copies
    BY <2>2 DEF Ending, Copies
  <2> QED
    BY <2>1, <2>3, <2>4, <2>5, <2>6 DEF IInv
<1>2. IInv /\ [Next]_vars => IInv'
  BY ControlStep, SlotStep, DescriptorStep, EndingStep, CopiesStep DEF IInv
<1> QED
  BY <1>1, <1>2, PTL DEF Spec

(* Of any number of workers in a table of any size, each has one slot      *)
(* until it is joined, and no slot is used again before that.              *)
THEOREM SlotPerWorkerAlways == Spec => []SlotPerWorker
<1>1. IInv => SlotPerWorker
  BY DEF IInv, SlotPerWorker
<1> QED
  BY <1>1, PoolInvariant, PTL

(* No descriptor is lost or closed by a thread it does not belong to.      *)
THEOREM DescriptorsOwnedAlways == Spec => []DescriptorsOwned
<1>1. IInv => DescriptorsOwned
  BY DEF IInv
<1> QED
  BY <1>1, PoolInvariant, PTL

(* The mutex is not destroyed under a worker, whichever joins failed, and  *)
(* unless one did no worker is left when its storage ends.                 *)
THEOREM MutexOutlivesWorkersAlways == Spec => []MutexOutlivesWorkers
<1>1. IInv => MutexOutlivesWorkers
  BY DEF IInv, PoolTypes, Ending, MutexOutlivesWorkers, Outlived, Unjoined
<1> QED
  BY <1>1, PoolInvariant, PTL

(* A server that returns success has joined every worker, and left no      *)
(* descriptor, listener, path or mutex, in itself or in a command.         *)
THEOREM CleanReturnAlways == Spec => []CleanReturn
<1>1. IInv => CleanReturn
  BY ConnAssumption
  DEF IInv, Ending, Control, DescriptorsOwned, DescriptorsHeld, Outlived, Copies, CleanReturn,
      Unjoined, Serving
<1> QED
  BY <1>1, PoolInvariant, PTL

------------------------------------------------------------------------------
(* Room for a client. *)

(* While the TCP server looks for workers to join, a slot that was free or *)
(* finished when the client in hand was accepted is free, or the search    *)
(* has yet to come to it; at the end of the search one is free.            *)
Room ==
  /\ faults \in Nat
  /\ Transport = "tcp" /\ faults = 0 /\ room /\ client_fd /= None =>
       \E i \in Slots : \/ ~slots[i].in_use
                        \/ main \in {"reap", "reap_join"} /\ index <= i /\ slots[i].finished

(* A worker may finish meanwhile, which is one more slot to find. *)
LEMMA RoomKept ==
  ASSUME Room, UNCHANGED <<room, client_fd, index>>, faults' \in Nat, faults' = 0 => faults = 0,
         main' = main,
         \A i \in Slots : /\ slots'[i].in_use = slots[i].in_use
                          /\ slots[i].finished => slots'[i].finished
  PROVE  Room'
BY DEF Room

(* The search passes over no slot it could have emptied. *)
LEMMA RoomStep == IInv /\ Room /\ [Next]_vars => Room'
<1> SUFFICES ASSUME IInv, Room, [Next]_vars PROVE Room'
  OBVIOUS
<1>0. PoolTypes /\ Control /\ faults \in Nat
  BY DEF IInv, Room
<1>1. faults' \in Nat /\ (faults' = 0 => faults' = faults)
  <2>1. ASSUME Fault PROVE faults' \in Nat /\ faults' /= 0
    BY <1>0, <2>1 DEF Fault
  <2>2. Fault \/ UNCHANGED faults
    BY Zenon DEF Next, vars, Main, OpenListener, TestStop, Reap, ReapJoin, Poll, Accept,
       AcceptReturns, StartWorker, StartFails, RequestStop, CloseListener, JoinAll, DestroyMutex, Return,
       Worker, WorkerStarts, WorkerTests, WorkerServes, CommandStarts, WorkerCloses,
       WorkerMarks, WorkerReturns, CommandEnds, Connect, Signal
  <2> QED
    BY <1>0, <2>1, <2>2
<1>2. CASE StartWorker \/ StartFails
  <2>1. ~room'
    BY <1>2, Zenon DEF StartWorker, StartFails
  <2> QED
    BY <1>1, <2>1, Zenon DEF Room
<1>3. CASE \/ OpenListener \/ TestStop \/ Poll \/ AcceptReturns \/ RequestStop
           \/ CloseListener \/ JoinAll \/ DestroyMutex \/ Return
  <2>1. main \notin {"reap", "reap_join", "start"} /\ client_fd' = client_fd
    BY <1>3, Zenon DEF OpenListener, TestStop, Poll, AcceptReturns, RequestStop,
                CloseListener, JoinAll, DestroyMutex, Return, locals
  <2>2. client_fd' = None
    BY <1>0, <2>1, Zenon DEF Control
  <2> QED
    BY <1>1, <2>2, Zenon DEF Room
<1>4. ASSUME NEW c \in Conn, Accept(c) PROVE Room'
  <2>1. /\ Transport = "tcp" => main' = "reap"
        /\ index' = 1 /\ UNCHANGED slots
        /\ room' => \E i \in Slots : ~slots[i].in_use \/ slots[i].finished
    BY <1>4 DEF Accept, ReapsOnAccept
  <2>2. \A i \in Slots : 1 <= i
    BY DEF Slots
  <2> QED
    BY <1>1, <2>1, <2>2 DEF Room
<1>5. CASE Reap
  <2>1. /\ UNCHANGED <<slots, client_fd, room>> /\ main = "reap"
        /\ faults' = 0 => \/ main' \in {"reap", "reap_join"} /\ index' = index
                          \/ /\ main' = "reap" /\ index' = index + 1
                             /\ ~(slots[index].in_use /\ slots[index].finished)
                          \/ index \notin Slots
    BY <1>0, <1>5 DEF Reap, ShouldJoin, Fault
  <2> SUFFICES ASSUME Transport = "tcp", faults' = 0, room, client_fd /= None
               PROVE  \E i \in Slots :
                        \/ ~slots[i].in_use
                        \/ main' \in {"reap", "reap_join"} /\ index' <= i /\ slots[i].finished
    BY <1>1, <2>1, Zenon DEF Room
  <2>2. PICK i \in Slots : ~slots[i].in_use \/ (index <= i /\ slots[i].finished)
    BY <1>1, <2>1, Zenon DEF Room
  <2>3. index \in 1..(MaxClients + 1) /\ MaxClients \in Nat
    BY <1>0, MaxClientsAssumption DEF PoolTypes
  <2>4. CASE ~slots[i].in_use
    BY <2>4
  <2>5. CASE slots[i].in_use /\ index <= i /\ slots[i].finished
    <3>1. index \in Slots
      BY <2>3, <2>5 DEF Slots
    <3>2. index' = index \/ (index' = index + 1 /\ i /= index)
      BY <2>1, <2>5, <3>1
    <3>3. index' <= i
      BY <2>3, <2>5, <3>2 DEF Slots
    <3> QED
      BY <2>1, <2>5, <3>1, <3>3
  <2> QED
    BY <2>2, <2>4, <2>5
<1>6. CASE ReapJoin
  <2> SUFFICES ASSUME faults' = 0, Transport = "tcp", room', client_fd' /= None
               PROVE  \E i \in Slots :
                        ~slots'[i].in_use \/ (index' <= i /\ slots'[i].finished)
    BY <1>1, <1>6, Zenon DEF Room, ReapJoin
  <2>1. /\ main = "reap_join" /\ index' = index + 1 /\ slots' = Vacated(index)
    BY <1>0, <1>6 DEF ReapJoin, Join, Fault
  <2>2. index \in Slots /\ ~slots'[index].in_use
    BY <1>0, <2>1 DEF PoolTypes, Control, Vacated
  <2> QED
    BY <2>2
<1>7. ASSUME \/ UNCHANGED vars \/ Signal
             \/ \E c \in Conn : Worker(c) \/ CommandEnds(c) \/ Connect(c)
      PROVE  Room'
  <2>1. UNCHANGED <<room, client_fd, index, main>>
    BY <1>7, Zenon DEF vars, Signal, Worker, WorkerStarts, WorkerTests, WorkerServes, CommandStarts,
                WorkerCloses, WorkerMarks, WorkerReturns, CommandEnds, Connect, locals
  <2>2. \A i \in Slots : /\ slots'[i].in_use = slots[i].in_use
                         /\ slots[i].finished => slots'[i].finished
    <3>1. CASE UNCHANGED slots
      BY <3>1
    <3>2. ASSUME NEW c \in Conn, slots' = [slots EXCEPT ![thread[c].slot].finished = TRUE]
          PROVE  \A i \in Slots : /\ slots'[i].in_use = slots[i].in_use
                                  /\ slots[i].finished => slots'[i].finished
      BY <1>0, <3>2 DEF PoolTypes
    <3>3. UNCHANGED slots \/ \E c \in Conn : slots' = [slots EXCEPT ![thread[c].slot].finished = TRUE]
      BY <1>7, Zenon DEF vars, Signal, Worker, WorkerStarts, WorkerTests, WorkerServes, CommandStarts,
                WorkerCloses, WorkerMarks, WorkerReturns, CommandEnds, Connect
    <3> QED
      BY <3>1, <3>2, <3>3, Zenon
  <2> QED
    BY <1>1, <2>1, <2>2, RoomKept
<1> QED
  BY <1>2, <1>3, <1>4, <1>5, <1>6, <1>7, Zenon DEF Next, Main

(* With any number of clients, a table of any size and workers finishing   *)
(* at any moment, the TCP server turns nobody away while there is room or  *)
(* a finished worker to make some.                                         *)
THEOREM AdmittedWhenRoomAlways ==
  ASSUME Transport = "tcp"
  PROVE  Spec => []AdmittedWhenRoom
<1>1. Init => Room
  BY DEF Init, Room
<1>2. IInv /\ Room /\ [Next]_vars => Room'
  BY RoomStep
<1>3. IInv /\ Room => AdmittedWhenRoom
  BY DEF IInv, Control, Room, AdmittedWhenRoom, FreeSlots
<1> QED
  BY <1>1, <1>2, <1>3, PoolInvariant, PTL DEF Spec

------------------------------------------------------------------------------
(***************************************************************************)
(* The socket path that the Unix-domain servers bind and unlink, for any   *)
(* set of servers, any number of starts and faults: the theorems of        *)
(* SocketPath, which shares no state with the workers.                     *)
(***************************************************************************)

(* A server that is alone has no other one beside it, and finds the path   *)
(* free after its first unlink().                                          *)
AloneInv ==
  \A s \in Server : alone[s] =>
    /\ \A u \in Server \ {s} : at[u] = "off"
    /\ at[s] = "bind" => socket_path = NoSocket

PathInv == TypeOK /\ PathHasOwner /\ AloneInv /\ AloneIsReachable

(* TypeOK holds of every step of SocketPath. *)
LEMMA PathTypeStep == TypeOK /\ [PathNext]_path_vars => TypeOK'
<1> SUFFICES ASSUME TypeOK, [PathNext]_path_vars PROVE TypeOK'
  OBVIOUS
<1> USE DEF TypeOK, Socket, MoveTo, CallFails, NoCallFails
<1>1. CASE UNCHANGED path_vars
  BY <1>1 DEF path_vars
<1>2. CASE PathNext
  <2> PICK s \in Server :
        \/ Start(s) \/ UnlinkOld(s) \/ Bind(s) \/ Listen(s)
        \/ Stop(s) \/ UnlinkOwn(s) \/ Crash(s)
    BY <1>2 DEF PathNext
  <2>1. CASE Start(s)
    BY <2>1 DEF Start
  <2>2. CASE UnlinkOld(s)
    BY <2>2 DEF UnlinkOld, PathAfterUnlink
  <2>3. CASE Bind(s)
    BY <2>3 DEF Bind
  <2>4. CASE Listen(s)
    BY <2>4 DEF Listen
  <2>5. CASE Stop(s)
    BY <2>5 DEF Stop
  <2>6. CASE UnlinkOwn(s)
    BY <2>6 DEF UnlinkOwn, PathAfterReturn
  <2>7. CASE Crash(s)
    BY <2>7 DEF Crash
  <2> QED
    BY <2>1, <2>2, <2>3, <2>4, <2>5, <2>6, <2>7
<1> QED
  BY <1>1, <1>2

(* No step lets the path name the socket of a server that has returned: a  *)
(* server leaves the states in which it owns the path by unlinking it, or  *)
(* its socket is abandoned.                                                *)
LEMMA OwnerStep ==
  TypeOK /\ PathHasOwner /\ [PathNext]_path_vars => PathHasOwner'
<1> SUFFICES ASSUME TypeOK, PathHasOwner, [PathNext]_path_vars
             PROVE  PathHasOwner'
  OBVIOUS
<1> USE DEF TypeOK, PathHasOwner, Socket, MoveTo
<1>1. CASE UNCHANGED path_vars
  BY <1>1 DEF path_vars
<1>2. CASE PathNext
  <2> PICK s \in Server :
        \/ Start(s) \/ UnlinkOld(s) \/ Bind(s) \/ Listen(s)
        \/ Stop(s) \/ UnlinkOwn(s) \/ Crash(s)
    BY <1>2 DEF PathNext
  <2>1. CASE Start(s)
    BY <2>1 DEF Start
  <2>2. CASE UnlinkOld(s)
    BY <2>2 DEF UnlinkOld, PathAfterUnlink
  <2>3. CASE Bind(s)
    BY <2>3 DEF Bind
  <2>4. CASE Listen(s)
    BY <2>4 DEF Listen
  <2>5. CASE Stop(s)
    BY <2>5 DEF Stop
  <2>6. CASE UnlinkOwn(s)
    BY <2>6 DEF UnlinkOwn, PathAfterReturn
  <2>7. CASE Crash(s)
    BY <2>7 DEF Crash
  <2> QED
    BY <2>1, <2>2, <2>3, <2>4, <2>5, <2>6, <2>7
<1> QED
  BY <1>1, <1>2

(* A server that is alone stays so until another starts, and meanwhile     *)
(* only it touches the path.                                               *)
LEMMA AloneStep ==
  TypeOK /\ AloneInv /\ AloneIsReachable /\ [PathNext]_path_vars =>
    AloneInv' /\ AloneIsReachable'
<1> SUFFICES ASSUME TypeOK, AloneInv, AloneIsReachable, [PathNext]_path_vars
             PROVE  AloneInv' /\ AloneIsReachable'
  OBVIOUS
<1> USE DEF TypeOK, AloneInv, AloneIsReachable, Socket, MoveTo, CallFails,
            NoCallFails
<1>1. CASE UNCHANGED path_vars
  BY <1>1, SMTT(30) DEF path_vars
<1>2. CASE PathNext
  <2> PICK s \in Server :
        \/ Start(s) \/ UnlinkOld(s) \/ Bind(s) \/ Listen(s)
        \/ Stop(s) \/ UnlinkOwn(s) \/ Crash(s)
    BY <1>2 DEF PathNext
  <2>1. CASE Start(s)
    BY <2>1, Zenon DEF Start
  <2>2. CASE UnlinkOld(s)
    BY <2>2 DEF UnlinkOld, PathAfterUnlink
  <2>3. CASE Bind(s)
    BY <2>3 DEF Bind
  <2>4. CASE Listen(s)
    BY <2>4 DEF Listen
  <2>5. CASE Stop(s)
    BY <2>5 DEF Stop
  <2>6. CASE UnlinkOwn(s)
    BY <2>6 DEF UnlinkOwn, PathAfterReturn
  <2>7. CASE Crash(s)
    BY <2>7 DEF Crash
  <2> QED
    BY <2>1, <2>2, <2>3, <2>4, <2>5, <2>6, <2>7
<1> QED
  BY <1>1, <1>2

(* The inductive invariant. *)
LEMMA PathInvariant == PathSpec => []PathInv
<1>1. PathInit => PathInv
  BY DEF PathInit, PathInv, TypeOK, PathHasOwner, AloneInv, AloneIsReachable
<1>2. PathInv /\ [PathNext]_path_vars => PathInv'
  BY PathTypeStep, OwnerStep, AloneStep DEF PathInv
<1> QED
  BY <1>1, <1>2, PTL DEF PathSpec

(* The path never outlives the return of the server it leads to, however   *)
(* many servers share it and whichever of them are killed.                 *)
THEOREM PathHasOwnerAlways == PathSpec => []PathHasOwner
<1>1. PathInv => PathHasOwner
  BY DEF PathInv
<1> QED
  BY <1>1, PathInvariant, PTL

(* A server started while no other is up is reached by its path, whatever  *)
(* earlier ones have left there, until it stops or another one starts.     *)
THEOREM AloneIsReachableAlways == PathSpec => []AloneIsReachable
<1>1. PathInv => AloneIsReachable
  BY DEF PathInv
<1> QED
  BY <1>1, PathInvariant, PTL
==============================================================================
