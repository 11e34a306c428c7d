----------------------------- MODULE RequestQueue -----------------------------
(***************************************************************************)
(* The linked list of src/src/queue.c, with its nodes on a heap.  The      *)
(* loops of wc_request_queue_discard_client and wc_request_queue_clear are *)
(* a step each time round.                                                 *)
(***************************************************************************)
EXTENDS Integers, Sequences, FiniteSets, Functions, RequestFilter

CONSTANTS
  Node,     \* heap addresses malloc can return
  NULL,
  Client,   \* client descriptors
  Body      \* type and argument of a request

NodesFinite == NULL \notin Node /\ IsFiniteSet(Node)

ASSUME NodeAssumption == NodesFinite
ASSUME ClientAssumption == Client /= {} /\ Body /= {}

Request == [client : Client, body : Body]
Pointer == Node \cup {NULL}

VARIABLES
  heap,        \* allocated node -> [request, next]
  head, tail, length,
  held,        \* the dequeued request the caller owns
  pc,          \* "idle", "discard" or "clear": the call in progress
  client_fd,   \* argument of the discard in progress
  current, previous

queue == <<head, tail, length>>
loop == <<pc, client_fd, current, previous>>
vars == <<heap, queue, held, loop>>

(* The heap after malloc of n, and after free of the nodes in S. *)
Malloc(n, r) == [m \in DOMAIN heap \cup {n} |->
                   IF m = n THEN [request |-> r, next |-> NULL] ELSE heap[m]]
Free(h, S) == Restrict(h, DOMAIN h \ S)

(* wc_request_queue_enqueue.  A failed malloc changes nothing. *)
Enqueue(r) ==
  /\ pc = "idle"
  /\ \E n \in Node \ DOMAIN heap :
       /\ heap' = IF tail = NULL THEN Malloc(n, r)
                  ELSE [Malloc(n, r) EXCEPT ![tail].next = n]
       /\ head' = IF tail = NULL THEN n ELSE head
       /\ tail' = n
       /\ length' = length + 1
  /\ UNCHANGED <<held, loop>>

(* Mutant: the tail is left on the node that was dequeued. *)
TailAfterDequeue_kept == tail

TailAfterDequeue == IF heap[head].next = NULL THEN NULL ELSE tail

(* wc_request_queue_dequeue *)
Dequeue ==
  /\ pc = "idle" /\ head /= NULL /\ held = NULL
  /\ held' = head
  /\ head' = heap[head].next
  /\ heap' = [heap EXCEPT ![head].next = NULL]
  /\ length' = length - 1
  /\ tail' = TailAfterDequeue
  /\ UNCHANGED loop

(* wc_queued_request_destroy *)
Destroy ==
  /\ pc = "idle" /\ held /= NULL
  /\ heap' = Free(heap, {held})
  /\ held' = NULL
  /\ UNCHANGED <<queue, loop>>

(* wc_request_queue_discard_client, up to its loop. *)
Discard(c) ==
  /\ pc = "idle"
  /\ pc' = "discard" /\ client_fd' = c
  /\ current' = head /\ previous' = NULL
  /\ UNCHANGED <<heap, queue, held>>

(* Mutant: the tail is left on the node that was freed. *)
TailAfterUnlink_kept == tail

TailAfterUnlink == IF tail = current THEN previous ELSE tail

DiscardUnlinks ==
  /\ pc = "discard" /\ current /= NULL
  /\ heap[current].request.client = client_fd
  /\ LET next == heap[current].next IN
       /\ head' = IF previous = NULL THEN next ELSE head
       /\ heap' = Free(IF previous = NULL THEN heap
                       ELSE [heap EXCEPT ![previous].next = next], {current})
       /\ tail' = TailAfterUnlink
       /\ current' = next
  /\ length' = length - 1
  /\ UNCHANGED <<held, pc, client_fd, previous>>

(* Mutants: the loop stops, or stays, at a node that is kept. *)
AfterKeep_stops == NULL
AfterKeep_stays == current

AfterKeep == heap[current].next

DiscardKeeps ==
  /\ pc = "discard" /\ current /= NULL
  /\ heap[current].request.client /= client_fd
  /\ previous' = current
  /\ current' = AfterKeep
  /\ UNCHANGED <<heap, queue, held, pc, client_fd>>

DiscardReturns ==
  /\ pc = "discard" /\ current = NULL
  /\ pc' = "idle" /\ client_fd' = NULL /\ previous' = NULL
  /\ UNCHANGED <<heap, queue, held, current>>

(* wc_request_queue_clear, up to its loop. *)
Clear ==
  /\ pc = "idle"
  /\ pc' = "clear" /\ current' = head
  /\ UNCHANGED <<heap, queue, held, client_fd, previous>>

(* Mutant: the node after the freed one is skipped. *)
AfterFree_skips(n) ==
  IF n = NULL \/ heap[n].next = NULL THEN NULL ELSE heap[heap[n].next].next

AfterFree(n) == heap[n].next

ClearFrees ==
  /\ pc = "clear" /\ current /= NULL
  /\ current' = AfterFree(current)
  /\ heap' = Free(heap, {current})
  /\ UNCHANGED <<queue, held, pc, client_fd, previous>>

(* Mutant: the counter survives a clear. *)
LengthAfterClear_kept == length

LengthAfterClear == 0

ClearReturns ==
  /\ pc = "clear" /\ current = NULL
  /\ head' = NULL /\ tail' = NULL /\ length' = LengthAfterClear
  /\ pc' = "idle"
  /\ UNCHANGED <<heap, held, client_fd, current, previous>>

(* wc_request_queue_init *)
Init ==
  /\ heap = <<>> /\ held = NULL
  /\ head = NULL /\ tail = NULL /\ length = 0
  /\ pc = "idle" /\ client_fd = NULL
  /\ current = NULL /\ previous = NULL

DiscardStep == DiscardUnlinks \/ DiscardKeeps \/ DiscardReturns
ClearStep == ClearFrees \/ ClearReturns

Next ==
  \/ \E r \in Request : Enqueue(r)
  \/ Dequeue \/ Destroy \/ Clear
  \/ \E c \in Client : Discard(c)
  \/ DiscardStep \/ ClearStep

Spec == Init /\ [][Next]_vars

(* A call that was made goes on: its loop does nothing that blocks. *)
FairSpec == Spec /\ WF_vars(DiscardStep \/ ClearStep)

------------------------------------------------------------------------------
(* The first m nodes met from n on, following next.                        *)
Follow(n, m) ==
  LET node[i \in 1..m] ==
        IF i = 1 THEN n
        ELSE IF node[i - 1] \in DOMAIN heap THEN heap[node[i - 1]].next ELSE NULL
  IN  [i \in 1..m |-> node[i]]

(* s is a whole list, starting at n: live nodes, none of them twice, each  *)
(* linked to the next and the last to nothing.                             *)
Chain(n, s) ==
  /\ IsInjective(s)
  /\ n = IF s = <<>> THEN NULL ELSE s[1]
  /\ \A i \in 1..Len(s) :
       /\ s[i] \in DOMAIN heap
       /\ heap[s[i]].next = IF i = Len(s) THEN NULL ELSE s[i + 1]

List == Follow(head, length)

(* Types; the queue never counts more nodes than there are.                *)
TypeOK ==
  /\ DOMAIN heap \subseteq Node
  /\ heap \in [DOMAIN heap -> [request : Request, next : Pointer]]
  /\ head \in Pointer /\ tail \in Pointer /\ held \in Pointer
  /\ length \in 0..Cardinality(Node)
  /\ pc \in {"idle", "discard", "clear"} /\ client_fd \in Client \cup {NULL}
  /\ current \in Pointer /\ previous \in Pointer

(* Between calls, and at each turn of the discard loop, length counts the  *)
(* nodes and tail is the last of them (NULL for an empty list): the next   *)
(* enqueue links behind the right node.                                    *)
WellFormed ==
  pc /= "clear" =>
    Chain(head, List) /\ tail = IF length = 0 THEN NULL ELSE List[length]

(* Nothing is freed twice or used after it was freed: the loops' cursors,  *)
(* the caller's request and, except while they are all being freed, the    *)
(* head, the tail and the links of the nodes never reach a freed one.      *)
NoUseAfterFree ==
  /\ {current, previous, held} \subseteq DOMAIN heap \cup {NULL}
  /\ pc /= "clear" =>
       {head, tail} \cup {heap[n].next : n \in DOMAIN heap}
         \subseteq DOMAIN heap \cup {NULL}

(* Nothing leaks: an allocated node is in the list, or yet to be freed by  *)
(* the clear in progress, or the caller's.                                 *)
NoLeak ==
  LET first == IF pc = "clear" THEN current ELSE head
      live == DOMAIN heap \ {held}
      rest == Follow(first, Cardinality(live))
  IN  Chain(first, rest) /\ Range(rest) = live

(* Through every turn of the loops the list stays a list of live nodes     *)
(* that ends at tail, counted by length, with no node lost from it.        *)
PointersSound == TypeOK /\ WellFormed /\ NoUseAfterFree /\ NoLeak

(* Discarding and clearing end.                                            *)
LoopsEnd == pc /= "idle" ~> pc = "idle"

(* The queue as its callers see it: while a client is discarded, its       *)
(* requests are gone already.                                              *)
Items ==
  LET list == List
      requests == [i \in 1..length |-> heap[list[i]].request]
  IN  CASE pc = "idle"    -> requests
        [] pc = "discard" -> Without(requests, client_fd)
        [] pc = "clear"   -> <<>>

Fifo == INSTANCE RequestFifo
          WITH items <- Items,
               taken <- IF held = NULL THEN <<>> ELSE heap[held].request

(* The list with its loops is the queue of queue.h: what is enqueued comes *)
(* out once, in order, and a discard takes out one client's requests and   *)
(* no others, wherever in the list they are.                               *)
IsFifo == Fifo!Spec
==============================================================================
