----------------------------- MODULE RequestFifo -----------------------------
(***************************************************************************)
(* What include/wirecommand/queue.h promises of a request queue: first in, *)
(* first out, a client's requests can all be withdrawn at once, and a      *)
(* dequeued request belongs to the caller.                                 *)
(***************************************************************************)
EXTENDS Integers, Sequences, RequestFilter

CONSTANTS Client, Body

VARIABLES
  items,    \* the queued requests, oldest first
  taken     \* the request the caller dequeued last and has not destroyed

vars == <<items, taken>>

Request == [client : Client, body : Body]
NoRequest == <<>>

Init == items = <<>> /\ taken = NoRequest

Enqueue(r) == items' = Append(items, r) /\ UNCHANGED taken

Dequeue ==
  /\ items /= <<>> /\ taken = NoRequest
  /\ taken' = Head(items) /\ items' = Tail(items)

Destroy == taken /= NoRequest /\ taken' = NoRequest /\ UNCHANGED items

Discard(c) == items' = Without(items, c) /\ UNCHANGED taken

Clear == items' = <<>> /\ UNCHANGED taken

Next ==
  \/ \E r \in Request : Enqueue(r)
  \/ \E c \in Client : Discard(c)
  \/ Dequeue \/ Destroy \/ Clear

Spec == Init /\ [][Next]_vars
==============================================================================
