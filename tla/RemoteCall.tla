------------------------------ MODULE RemoteCall ------------------------------
(***************************************************************************)
(* What one run of the client promises its user: the command is run at     *)
(* most once, only after it was asked for; nothing is shown of an answer   *)
(* that did not arrive whole; and exit status 0 means that the command was *)
(* run and that the whole of its answer is on standard output.  With exit  *)
(* status 1 the command may or may not have been run, or may run yet; with *)
(* 2, a usage error, it never is.                                          *)
(***************************************************************************)
EXTENDS Integers

VARIABLES
  asked,    \* the request has left the client
  runs,     \* times the command has been started
  arrived,  \* the whole answer has reached the client
  shown,    \* "none", "part" or "all" of the answer is on standard output
  status    \* exit status, -1 while the client runs

vars == <<asked, runs, arrived, shown, status>>

Init ==
  /\ asked = FALSE /\ runs = 0 /\ arrived = FALSE /\ shown = "none" /\ status = -1

Ask ==
  /\ ~asked /\ status = -1
  /\ asked' = TRUE /\ UNCHANGED <<runs, arrived, shown, status>>

Run ==
  /\ asked /\ runs = 0
  /\ runs' = 1 /\ UNCHANGED <<asked, arrived, shown, status>>

(* An answer without data is shown as soon as it is there. *)
Arrive ==
  /\ runs = 1 /\ ~arrived /\ status = -1
  /\ arrived' = TRUE /\ shown' \in {"none", "all"} /\ UNCHANGED <<asked, runs, status>>

Show ==
  /\ arrived /\ status = -1 /\ shown /= "all"
  /\ shown' \in {"part", "all"} /\ UNCHANGED <<asked, runs, arrived, status>>

Exit ==
  /\ status = -1 /\ status' \in {0, 1, 2}
  /\ status' = 0 => shown = "all"
  /\ status' = 2 => ~asked
  /\ UNCHANGED <<asked, runs, arrived, shown>>

Next == Ask \/ Run \/ Arrive \/ Show \/ Exit

Spec == Init /\ [][Next]_vars
==============================================================================
