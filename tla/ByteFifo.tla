------------------------------- MODULE ByteFifo -------------------------------
(***************************************************************************)
(* What include/wirecommand/buffer.h promises of a buffer: a queue of      *)
(* bytes that never holds more than limit of them, takes a chunk whole or  *)
(* not at all, and gives its bytes back in order from the front.           *)
(***************************************************************************)
EXTENDS Integers, Sequences

CONSTANTS
  Chunks,   \* byte sequences that may be appended
  Limits    \* limits a buffer may be given

VARIABLES contents, limit

vars == <<contents, limit>>

Put(chunk) ==
  /\ Len(contents) + Len(chunk) <= limit
  /\ contents' = contents \o chunk
  /\ UNCHANGED limit

Consume(n) ==
  /\ n <= Len(contents)
  /\ contents' = SubSeq(contents, n + 1, Len(contents))
  /\ UNCHANGED limit

Reset == contents' = <<>> /\ limit' \in Limits \cup {0}

Init == contents = <<>> /\ limit \in Limits

Next ==
  \/ \E chunk \in Chunks : Put(chunk)
  \/ \E n \in 1..Len(contents) : Consume(n)
  \/ Reset

Spec == Init /\ [][Next]_vars
==============================================================================
