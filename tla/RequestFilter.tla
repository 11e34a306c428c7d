---------------------------- MODULE RequestFilter ----------------------------
(***************************************************************************)
(* What is left of a sequence of requests without those of one client.     *)
(***************************************************************************)
EXTENDS Integers, Sequences

Without(requests, client) ==
  LET upto[i \in 0..Len(requests)] ==
        IF i = 0 THEN <<>>
        ELSE IF requests[i].client = client THEN upto[i - 1]
        ELSE Append(upto[i - 1], requests[i])
  IN  upto[Len(requests)]
==============================================================================
