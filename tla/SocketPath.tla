------------------------------ MODULE SocketPath ------------------------------
(***************************************************************************)
(* The socket path in the file system as servers come and go: start-up and *)
(* shutdown of the two Unix-domain servers (wc_uds_open_listener and the   *)
(* end of wc_server_uds_run in src/src/server_uds.c, the same in           *)
(* src/src/server_uds_threaded.c), each system call on the path a step.    *)
(* Several servers may be given one path, a server may be killed at any    *)
(* point and started again, and nothing but these calls coordinates them.  *)
(***************************************************************************)
EXTENDS Integers

CONSTANTS
  Server,     \* server processes given the same path
  NoSocket,   \* the path does not exist
  MaxStarts,  \* times each is started
  MaxFailures \* system calls that fail

ASSUME StartsAssumption == MaxStarts \in Nat
ASSUME FailuresAssumption == MaxFailures \in Nat
ASSUME NoSocketAssumption == NoSocket \notin Server \X Nat

VARIABLES
  at,          \* where each server is between starting and having returned
  starts,      \* times each has been started
  socket_path, \* the socket that the path names
  failures,
  abandoned,   \* history: sockets whose server was killed, or could not unlink
  alone        \* history: no other server has been up since this one started

path_vars == <<at, starts, socket_path, failures, abandoned, alone>>

(* The listening socket of a server's current start. *)
Socket(s) == <<s, starts[s]>>

CallFails == failures < MaxFailures /\ failures' = failures + 1
NoCallFails == UNCHANGED failures
MoveTo(s, l) == at' = [at EXCEPT ![s] = l]

(* socket() and wc_socket_set_nonblocking, which leave no trace when they  *)
(* fail.                                                                   *)
Start(s) ==
  /\ at[s] = "off" /\ starts[s] < MaxStarts
  /\ MoveTo(s, "unlink") /\ starts' = [starts EXCEPT ![s] = @ + 1]
  /\ alone' = [t \in Server |-> t = s /\ \A u \in Server \ {s} : at[u] = "off"]
  /\ UNCHANGED <<socket_path, failures, abandoned>>

(* Mutant: a path left by an earlier server is not removed. *)
PathAfterUnlink_kept(s) == socket_path

PathAfterUnlink(s) == NoSocket

(* unlink() before bind(); ENOENT is no failure. *)
UnlinkOld(s) ==
  /\ at[s] = "unlink"
  /\ \/ socket_path' = PathAfterUnlink(s) /\ MoveTo(s, "bind") /\ NoCallFails
     \/ UNCHANGED socket_path /\ MoveTo(s, "off") /\ CallFails
  /\ UNCHANGED <<starts, abandoned, alone>>

(* bind() creates the path, and fails when there is one. *)
Bind(s) ==
  /\ at[s] = "bind"
  /\ \/ socket_path = NoSocket /\ socket_path' = Socket(s) /\ MoveTo(s, "listen") /\ NoCallFails
     \/ socket_path /= NoSocket /\ UNCHANGED socket_path /\ MoveTo(s, "failed") /\ NoCallFails
     \/ UNCHANGED socket_path /\ MoveTo(s, "failed") /\ CallFails
  /\ UNCHANGED <<starts, abandoned, alone>>

Listen(s) ==
  /\ at[s] = "listen"
  /\ \/ MoveTo(s, "run") /\ NoCallFails
     \/ MoveTo(s, "failed") /\ CallFails
  /\ UNCHANGED <<starts, socket_path, abandoned, alone>>

(* The event loop has ended, and the listening socket is closed. *)
Stop(s) ==
  /\ at[s] = "run" /\ MoveTo(s, "stop")
  /\ UNCHANGED <<starts, socket_path, failures, abandoned, alone>>

(* Mutant: a listen() that failed leaves the path. *)
PathAfterReturn_kept(s) == IF at[s] = "failed" THEN socket_path ELSE NoSocket

PathAfterReturn(s) == NoSocket

(* The last step, after a failure in wc_uds_open_listener and at the end   *)
(* of wc_server_uds_run: the path is unlinked, whatever it names by now.   *)
UnlinkOwn(s) ==
  /\ at[s] \in {"failed", "stop"} /\ MoveTo(s, "off")
  /\ \/ socket_path' = PathAfterReturn(s) /\ UNCHANGED abandoned /\ NoCallFails
     \/ UNCHANGED socket_path /\ abandoned' = abandoned \cup {Socket(s)} /\ CallFails
  /\ UNCHANGED <<starts, alone>>

(* SIGKILL: the sockets are closed by the kernel, the path stays. *)
Crash(s) ==
  /\ at[s] /= "off" /\ MoveTo(s, "off")
  /\ abandoned' = abandoned \cup {Socket(s)}
  /\ UNCHANGED <<starts, socket_path, failures, alone>>

PathInit ==
  /\ at = [s \in Server |-> "off"] /\ starts = [s \in Server |-> 0]
  /\ socket_path = NoSocket /\ failures = 0 /\ abandoned = {}
  /\ alone = [s \in Server |-> FALSE]

PathNext ==
  \E s \in Server :
    \/ Start(s) \/ UnlinkOld(s) \/ Bind(s) \/ Listen(s) \/ Stop(s) \/ UnlinkOwn(s)
    \/ Crash(s)

PathSpec == PathInit /\ [][PathNext]_path_vars

------------------------------------------------------------------------------
(* Types. *)
TypeOK ==
  /\ at \in [Server -> {"off", "unlink", "bind", "listen", "run", "failed", "stop"}]
  /\ starts \in [Server -> Nat]
  /\ socket_path \in (Server \X Nat) \cup {NoSocket}
  /\ failures \in Nat /\ abandoned \subseteq Server \X Nat
  /\ alone \in [Server -> BOOLEAN]

(* "removes the socket path before returning": whatever the servers do to  *)
(* each other's path, it never names a socket whose server has returned,   *)
(* only one whose server has yet to unlink it, was killed, or failed to.   *)
PathHasOwner ==
  socket_path /= NoSocket =>
    \/ socket_path \in abandoned
    \/ \E s \in Server : socket_path = Socket(s) /\ at[s] \in {"listen", "run", "failed", "stop"}

(* A server that has the path to itself starts, whatever servers that were *)
(* killed or failed have left there, and can be reached by its path until  *)
(* it stops.  (Of servers that overlap on one path nothing of the kind is  *)
(* true: a later start, a stop and even a failed start unlink the path of  *)
(* the one that runs.)                                                     *)
AloneIsReachable ==
  \A s \in Server : alone[s] =>
    /\ at[s] = "failed" => failures > 0
    /\ at[s] \in {"listen", "run"} => socket_path = Socket(s)
==============================================================================
