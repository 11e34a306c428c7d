------------------------------ MODULE WorkerPool ------------------------------
(***************************************************************************)
(* The life of the worker threads of the thread-per-client servers,        *)
(* src/src/server_uds_threaded.c and src/src/server_tcp.c: a main thread   *)
(* that accepts clients, starts a worker for each in a table of slots,     *)
(* joins the ones that finished and, on a stop signal, all of them.  The   *)
(* two files differ in that wc_tcp_accept_clients reaps before it starts a *)
(* worker and that there is a socket path to unlink for the Unix one.      *)
(*                                                                         *)
(* A worker's session with its client, the subject of WorkerSession, is    *)
(* two kinds of step here: WorkerServes, that ends it or does not, and the *)
(* start and end of a command, because popen() makes a process that other  *)
(* threads can feel.  A section under workers_lock is one step: nothing in *)
(* one blocks.  The descriptor accept() returned for a connection, and the *)
(* thread started for it, go by the connection's name.                     *)
(***************************************************************************)
EXTENDS Integers, FiniteSets

CONSTANTS
  Conn,         \* connections clients make
  None,         \* -1 for a descriptor; no thread
  MaxClients,   \* WC_THREADED_UDS_MAX_CLIENTS, WC_TCP_MAX_CLIENTS
  Transport,    \* "uds-threaded" or "tcp"
  Reconnects,   \* clients that were turned away or served come back
  MaxFaults     \* system calls that fail

ASSUME ConnAssumption == None \notin Conn
ASSUME MaxClientsAssumption == MaxClients \in Nat \ {0}
ASSUME TransportAssumption == Transport \in {"uds-threaded", "tcp"}
ASSUME ReconnectsAssumption == Reconnects \in BOOLEAN
ASSUME FaultsAssumption == MaxFaults \in Nat

Slots == 1..MaxClients

VARIABLES
  stop_requested,   \* the flag of the signal handler
  stopping,         \* the flag under workers_lock
  mutex,            \* workers_lock exists and has not been destroyed
  listener, path,   \* the listening socket is open; its name exists
  backlog,          \* connections not accepted yet
  arrived,          \* connections made so far
  open,             \* connections whose accepted descriptor is open
  slots,            \* the worker table
  thread,           \* connection -> the state and locals of its thread
  inherited,        \* connection -> the client descriptors that the process
                    \* its worker's command runs in has copies of
  main,             \* where the main thread is
  index,            \* cursor of wc_*_reap_finished and wc_*_join_all
  client_fd,        \* the descriptor the accept loop has in hand
  revents,          \* what poll() reported of the listener
  result, workers_joined,
  faults,
  room              \* history: the table had a free or finished slot
                    \* when client_fd was accepted

stop == <<stop_requested, stopping>>
net == <<listener, path, backlog, arrived>>
locals == <<index, client_fd, revents, result, workers_joined, room>>
vars == <<stop, mutex, net, open, slots, thread, inherited, main, locals, faults>>

FreeSlot == [client_fd |-> None, in_use |-> FALSE, finished |-> FALSE, thread |-> None]
NoThread == [state |-> "none", slot |-> 1, client_fd |-> None]

Fault == faults < MaxFaults /\ faults' = faults + 1

------------------------------------------------------------------------------
State(c) == thread[c].state
Goto(c, s) == thread' = [thread EXCEPT ![c].state = s]

(* The clients and the signal handler. *)

(* No connection is known by this name: it was never made, or the server   *)
(* and every process it started have closed it and its thread was joined.  *)
Unused(c) ==
  /\ c \notin backlog \cup open /\ State(c) \in {"none", "joined"}
  /\ \A d \in Conn : c \notin inherited[d]

Connect(c) ==
  /\ listener /\ Unused(c) /\ (c \in arrived => Reconnects)
  /\ backlog' = backlog \cup {c} /\ arrived' = arrived \cup {c}
  /\ UNCHANGED <<inherited, stop, mutex, listener, path, open, slots, thread, main, locals, faults>>

(* Workers are created with the stop signals blocked: only the main thread *)
(* runs the handler.                                                       *)
Signal ==
  /\ ~stop_requested /\ main /= "done"
  /\ stop_requested' = TRUE
  /\ UNCHANGED <<inherited, stopping, mutex, net, open, slots, thread, main, locals, faults>>

------------------------------------------------------------------------------
(* Worker threads: wc_*_worker_main. *)

(* The mutex, the table and the flag are members of "server", a local      *)
(* variable of wc_server_*_run: its storage ends with that call.  A worker *)
(* that was not joined then may find anything there.                       *)
Stored == main /= "done"

(* What a worker reads as the descriptor in its slot. *)
ReadFd(c) == IF Stored THEN {slots[thread[c].slot].client_fd} ELSE Conn \cup {None}

(* The worker copies its descriptor out of its slot.  wc_buffer_init does  *)
(* not fail on the addresses of locals.                                    *)
WorkerStarts(c) ==
  /\ State(c) = "start"
  /\ \E fd \in ReadFd(c) :
       thread' = [thread EXCEPT ![c].state = "test", ![c].client_fd = fd]
  /\ UNCHANGED <<inherited, stop, mutex, net, open, slots, main, locals, faults>>

(* Mutant: the flag is only looked at on the way out. *)
SeesStop_never == FALSE

SeesStop == stopping

(* wc_*_is_stopping; a mutex that cannot be locked counts as stopping. *)
WorkerTests(c) ==
  /\ State(c) = "test"
  /\ \/ Goto(c, IF SeesStop THEN "close" ELSE "serve") /\ UNCHANGED faults
     \/ Goto(c, "close") /\ Fault
     \/ ~Stored /\ (Goto(c, "serve") \/ Goto(c, "close")) /\ UNCHANGED faults
  /\ UNCHANGED <<inherited, stop, mutex, net, open, slots, main, locals>>

(* The rest of a turn of the loop, after a command or without one: one     *)
(* poll() with its timeout, one read or write.                             *)
WorkerServes(c) ==
  /\ State(c) \in {"serve", "poll"}
  /\ Goto(c, "test") \/ Goto(c, "close")
  /\ UNCHANGED <<stop, mutex, net, open, slots, inherited, main, locals, faults>>

(* popen(): the process gets a copy of every descriptor that is open, for  *)
(* none is marked close-on-exec.                                           *)
CommandStarts(c) ==
  /\ State(c) = "serve"
  /\ Goto(c, "command")
  /\ inherited' = [inherited EXCEPT ![c] = open]
  /\ UNCHANGED <<stop, mutex, net, open, slots, main, locals, faults>>

(* pclose() has waited for the process; the worker goes on to poll(). *)
CommandEnds(c) ==
  /\ State(c) = "command"
  /\ Goto(c, "poll")
  /\ inherited' = [inherited EXCEPT ![c] = {}]
  /\ UNCHANGED <<stop, mutex, net, open, slots, main, locals, faults>>

WorkerCloses(c) ==
  /\ State(c) = "close"
  /\ open' = open \ {thread[c].client_fd}
  /\ Goto(c, "mark")
  /\ UNCHANGED <<inherited, stop, mutex, net, slots, main, locals, faults>>

(* wc_*_mark_finished *)
WorkerMarks(c) ==
  /\ State(c) = "mark"
  /\ Goto(c, "return")
  /\ \/ slots' = [slots EXCEPT ![thread[c].slot].finished = TRUE] /\ UNCHANGED faults
     \/ Fault /\ UNCHANGED slots
     \/ ~Stored /\ UNCHANGED <<slots, faults>>
  /\ UNCHANGED <<inherited, stop, mutex, net, open, main, locals>>

WorkerReturns(c) ==
  /\ State(c) = "return"
  /\ Goto(c, "exited")
  /\ UNCHANGED <<inherited, stop, mutex, net, open, slots, main, locals, faults>>

Worker(c) ==
  \/ WorkerStarts(c) \/ WorkerTests(c) \/ WorkerServes(c) \/ CommandStarts(c)
  \/ WorkerCloses(c) \/ WorkerMarks(c) \/ WorkerReturns(c)

------------------------------------------------------------------------------
(* The main thread: wc_server_*_run. *)

(* pthread_mutex_init and wc_*_open_listener, and the early returns when   *)
(* one of them fails.                                                      *)
OpenListener ==
  /\ main = "open"
  /\ \/ /\ main' = "test" /\ listener' = TRUE
        /\ path' = (Transport = "uds-threaded")
        /\ UNCHANGED <<mutex, result, faults>>
     \/ /\ main' = "done" /\ mutex' = FALSE /\ result' = -1 /\ Fault
        /\ UNCHANGED <<listener, path>>
  /\ UNCHANGED <<inherited, stop, backlog, arrived, open, slots, thread, index, client_fd,
                 revents, workers_joined, room>>

TestStop ==
  /\ main = "test"
  /\ main' = IF stop_requested THEN "stop" ELSE "reap"
  /\ index' = 1
  /\ UNCHANGED <<inherited, stop, mutex, net, open, slots, thread, client_fd, revents, result,
                 workers_joined, room, faults>>

(* Where wc_*_reap_finished returns to: the accept loop of the TCP server, *)
(* with a client in hand, or the main loop.                                *)
AfterReap == IF client_fd /= None THEN "start" ELSE "poll"

(* Mutant: the main thread joins workers that have not finished. *)
ShouldJoin_running(i) == slots[i].in_use

ShouldJoin(i) == slots[i].in_use /\ slots[i].finished

(* A turn of wc_*_reap_finished up to the unlock, or its return. *)
Reap ==
  /\ main = "reap"
  /\ \/ /\ index \in Slots /\ ShouldJoin(index)
        /\ main' = "reap_join" /\ UNCHANGED <<index, faults>>
     \/ /\ index \in Slots /\ ~ShouldJoin(index)
        /\ index' = index + 1 /\ UNCHANGED <<main, faults>>
     \/ index \notin Slots /\ main' = AfterReap /\ UNCHANGED <<index, faults>>
     \/ index \in Slots /\ main' = AfterReap /\ Fault /\ UNCHANGED index
  /\ UNCHANGED <<inherited, stop, mutex, net, open, slots, thread, client_fd, revents, result,
                 workers_joined, room>>

(* Mutant: the slot stays in use. *)
Vacated_not(i) == [slots EXCEPT ![i].client_fd = None]

Vacated(i) == [slots EXCEPT ![i].client_fd = None, ![i].in_use = FALSE]

(* pthread_join of the thread in a slot, which waits for it to end. *)
Join(i) ==
  /\ State(slots[i].thread) = "exited"
  /\ Goto(slots[i].thread, "joined")
  /\ slots' = Vacated(i)

ReapJoin ==
  /\ main = "reap_join"
  /\ \/ Join(index) /\ UNCHANGED faults
     \/ Fault /\ UNCHANGED <<slots, thread>>
  /\ main' = "reap" /\ index' = index + 1
  /\ UNCHANGED <<inherited, stop, mutex, net, open, client_fd, revents, result, workers_joined, room>>

(* poll() on the listener: readiness, a timeout, or a signal. *)
Poll ==
  /\ main = "poll"
  /\ \/ /\ backlog /= {}
        /\ main' = "accept" /\ revents' = {"POLLIN"} /\ UNCHANGED <<result, faults>>
     \/ /\ backlog = {} \/ stop_requested
        /\ main' = "test" /\ revents' = {} /\ UNCHANGED <<result, faults>>
     \/ /\ revents' \in {{"POLLERR"}} \cup (IF backlog = {} THEN {} ELSE {{"POLLIN", "POLLERR"}})
        /\ main' = IF "POLLIN" \in revents' THEN "accept" ELSE "stop"
        /\ result' = IF "POLLIN" \in revents' THEN result ELSE -1
        /\ Fault
     \/ main' = "stop" /\ result' = -1 /\ Fault /\ UNCHANGED revents
  /\ UNCHANGED <<inherited, stop, mutex, net, open, slots, thread, index, client_fd,
                 workers_joined, room>>

(* Mutant: the TCP server reaps only once a round of its main loop. *)
ReapsOnAccept_never == FALSE

ReapsOnAccept == Transport = "tcp"

(* accept() in wc_*_accept_clients returns a descriptor. *)
Accept(c) ==
  /\ main = "accept" /\ c \in backlog
  /\ backlog' = backlog \ {c} /\ open' = open \cup {c} /\ client_fd' = c
  /\ main' = IF ReapsOnAccept THEN "reap" ELSE "start"
  /\ index' = 1
  /\ room' = \E i \in Slots : ~slots[i].in_use \/ slots[i].finished
  /\ UNCHANGED <<inherited, stop, mutex, listener, path, arrived, slots, thread, revents, result,
                 workers_joined, faults>>

(* accept() fails, and the main loop looks at the other events. *)
AcceptReturns ==
  /\ main = "accept"
  /\ \/ backlog = {} /\ UNCHANGED faults
     \/ Fault
  /\ main' = IF "POLLERR" \in revents THEN "stop" ELSE "test"
  /\ result' = IF "POLLERR" \in revents THEN -1 ELSE result
  /\ UNCHANGED <<inherited, stop, mutex, net, open, slots, thread, index, client_fd, revents,
                 workers_joined, room>>

(* Mutant: a slot is free once its worker said it finished. *)
FreeSlots_finished == {i \in Slots : ~slots[i].in_use \/ slots[i].finished}

FreeSlots == {i \in Slots : ~slots[i].in_use}

FirstFree(i) == i \in FreeSlots /\ \A j \in FreeSlots : i <= j

(* wc_*_start_worker with pthread_create succeeding. *)
StartWorker ==
  /\ main = "start"
  /\ \E i \in Slots :
       /\ FirstFree(i)
       /\ slots' = [slots EXCEPT ![i] = [client_fd |-> client_fd, in_use |-> TRUE,
                                         finished |-> FALSE, thread |-> client_fd]]
       /\ thread' = [thread EXCEPT ![client_fd] =
                       [state |-> "start", slot |-> i, client_fd |-> None]]
  /\ main' = "accept" /\ client_fd' = None /\ room' = FALSE
  /\ UNCHANGED <<inherited, stop, mutex, net, open, index, revents, result, workers_joined, faults>>

(* Mutant: the accept loop forgets the descriptor. *)
ClosedOnReject_none == {}

ClosedOnReject == {client_fd}

(* No slot, or fcntl, pthread_sigmask or pthread_create failed: the client *)
(* is turned away.                                                         *)
StartFails ==
  /\ main = "start"
  /\ \/ FreeSlots = {} /\ UNCHANGED <<slots, faults>>
     \/ UNCHANGED slots /\ Fault
     \/ \E i \in Slots :
          /\ FirstFree(i) /\ Fault
          /\ slots' = [slots EXCEPT ![i].client_fd = None, ![i].finished = FALSE]
  /\ open' = open \ ClosedOnReject
  /\ main' = "accept" /\ client_fd' = None /\ room' = FALSE
  /\ UNCHANGED <<inherited, stop, mutex, net, thread, index, revents, result, workers_joined>>

(* wc_*_request_stop; locking may fail, or the unlocking after the flag.   *)
RequestStop ==
  /\ main = "stop"
  /\ \/ stopping' = TRUE /\ UNCHANGED <<result, faults>>
     \/ stopping' \in {stopping, TRUE} /\ result' = -1 /\ Fault
  /\ main' = "close"
  /\ UNCHANGED <<inherited, stop_requested, mutex, net, open, slots, thread, index, client_fd,
                 revents, workers_joined, room>>

(* close() of the listener and unlink() of its path; connections not       *)
(* accepted are lost with it.                                              *)
CloseListener ==
  /\ main = "close"
  /\ listener' = FALSE /\ backlog' = {}
  /\ \/ path' = FALSE /\ UNCHANGED <<result, faults>>
     \/ path' \in {FALSE, path} /\ result' = -1 /\ Fault
  /\ main' = "join" /\ index' = 1
  /\ UNCHANGED <<inherited, stop, mutex, arrived, open, slots, thread, client_fd, revents,
                 workers_joined, room>>

(* Mutant: workers that are still running are left alone. *)
MustJoin_finished(i) == slots[i].in_use /\ slots[i].finished

MustJoin(i) == slots[i].in_use

(* A turn of wc_*_join_all. *)
JoinAll ==
  /\ main = "join" /\ index \in Slots
  /\ \/ MustJoin(index) /\ Join(index) /\ UNCHANGED <<workers_joined, faults>>
     \/ ~MustJoin(index) /\ UNCHANGED <<slots, thread, workers_joined, faults>>
     \/ MustJoin(index) /\ workers_joined' = -1 /\ Fault /\ UNCHANGED <<slots, thread>>
  /\ index' = index + 1
  /\ UNCHANGED <<inherited, stop, mutex, net, open, main, client_fd, revents, result, room>>

(* Mutant: the mutex is destroyed whatever became of the workers. *)
KeepsMutex_never == FALSE

KeepsMutex == workers_joined = -1

(* After wc_*_join_all. *)
DestroyMutex ==
  /\ main = "join" /\ index \notin Slots
  /\ mutex' = KeepsMutex
  /\ \/ result' = (IF workers_joined = -1 THEN -1 ELSE result) /\ UNCHANGED faults
     \/ ~KeepsMutex /\ result' = -1 /\ Fault
  /\ main' = "return"
  /\ UNCHANGED <<inherited, stop, net, open, slots, thread, index, client_fd, revents,
                 workers_joined, room>>

(* wc_server_*_run returns, and workers_lock is gone with its variables,   *)
(* destroyed or not.                                                       *)
Return ==
  /\ main = "return"
  /\ main' = "done" /\ mutex' = FALSE
  /\ UNCHANGED <<inherited, stop, net, open, slots, thread, locals, faults>>

Main ==
  \/ OpenListener \/ TestStop \/ Reap \/ ReapJoin \/ Poll
  \/ (\E c \in Conn : Accept(c)) \/ AcceptReturns \/ StartWorker \/ StartFails
  \/ RequestStop \/ CloseListener \/ JoinAll \/ DestroyMutex \/ Return

Init ==
  /\ stop_requested = FALSE /\ stopping = FALSE /\ mutex = TRUE
  /\ listener = FALSE /\ path = FALSE /\ backlog = {} /\ arrived = {}
  /\ open = {} /\ slots = [i \in Slots |-> FreeSlot]
  /\ thread = [c \in Conn |-> NoThread] /\ inherited = [c \in Conn |-> {}]
  /\ main = "open" /\ index = 1 /\ client_fd = None /\ revents = {}
  /\ result = 0 /\ workers_joined = 0 /\ faults = 0 /\ room = FALSE

Next ==
  \/ Main
  \/ \E c \in Conn : Worker(c) \/ CommandEnds(c) \/ Connect(c)
  \/ Signal

Spec == Init /\ [][Next]_vars

(* Threads are scheduled and the system calls they wait in end: poll() has *)
(* a timeout.  A command may run for ever, and no call need ever fail.     *)
ScheduledSpec ==
  /\ Spec /\ WF_vars(Main /\ UNCHANGED faults)
  /\ \A c \in Conn : WF_vars(Worker(c) /\ UNCHANGED faults)

------------------------------------------------------------------------------
(* A thread that has not been joined. *)
Unjoined(c) == State(c) \notin {"none", "joined"}

(* The server has returned although a join failed: a worker may have       *)
(* outlived the table and the mutex it goes on using, and what it does     *)
(* then is undefined.                                                      *)
Outlived == main = "done" /\ workers_joined = -1

SlotsHoldWorkers ==
  /\ \A c \in Conn : Unjoined(c) =>
       slots[thread[c].slot].in_use /\ slots[thread[c].slot].thread = c
  /\ \A i \in Slots : slots[i].in_use =>
       Unjoined(slots[i].thread) /\ thread[slots[i].thread].slot = i

(* "Completed workers are joined before their fixed table slots are        *)
(* reused": a slot in use holds one thread not joined yet, which points    *)
(* back at it, and no such thread is without its slot.  So no thread is    *)
(* joined twice or forgotten, and the fields the main thread writes        *)
(* without the lock are of no other thread's slot.                         *)
SlotPerWorker == ~Outlived => SlotsHoldWorkers

(* The states in which a worker has its client's descriptor in hand. *)
Serving == {"test", "serve", "command", "poll", "close"}

DescriptorsHeld ==
  /\ open = ({client_fd} \ {None})
              \cup {c \in Conn : State(c) \in Serving \cup {"start"}}
  /\ \A c \in Conn : State(c) \in Serving => thread[c].client_fd = c

(* A descriptor is open exactly as long as someone has to close it: the    *)
(* accept loop before there is a worker, then the worker it was accepted   *)
(* for, and none is closed by another thread.                              *)
DescriptorsOwned == ~Outlived => DescriptorsHeld

(* "joins every worker, and removes the UDS path": when the server returns *)
(* success, all its threads have been joined and nothing is left open,     *)
(* not even a client's descriptor in a process that runs a command.        *)
CleanReturn ==
  main = "done" /\ result = 0 =>
    /\ \A c \in Conn : ~Unjoined(c) /\ inherited[c] = {}
    /\ open = {} /\ ~listener /\ ~path /\ ~mutex

(* As long as a worker may use workers_lock it is there: it is not         *)
(* destroyed under a worker, not even when joining fails, and it goes out  *)
(* of scope under a worker only if a join failed.                          *)
MutexOutlivesWorkers ==
  ~mutex /\ ~Outlived => \A c \in Conn : State(c) \in {"none", "exited", "joined"}

(* The TCP server turns nobody away for want of a slot that was free, or   *)
(* whose worker had finished, when the client was accepted.                *)
AdmittedWhenRoom == faults = 0 /\ main = "start" /\ room => FreeSlots /= {}

(* A stop signal ends the server, wherever it comes and whatever the       *)
(* clients do: the main thread waits for no lost wake-up and no client,    *)
(* but only for a worker whose command never ends.                         *)
ShutdownWaitsForCommands ==
  stop_requested ~> \/ main = "done" \/ faults > 0
                    \/ \E c \in Conn : [](State(c) = "command")

(* "different clients can run commands concurrently": although some        *)
(* commands never end, the clients that connect are accepted, and the      *)
(* workers that ended are joined, until the server is told to stop.        *)
OthersServed ==
  /\ backlog /= {} ~> backlog = {}
  /\ (\E c \in Conn : State(c) = "exited")
       ~> (\A c \in Conn : State(c) /= "exited") \/ stop_requested \/ faults > 0
==============================================================================
