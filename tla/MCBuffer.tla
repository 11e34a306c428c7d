------------------------------- MODULE MCBuffer -------------------------------
(***************************************************************************)
(* SIZE_MAX is 7 and WC_BUFFER_INITIAL_CAPACITY is 2, so that limits below *)
(* the initial capacity, limits that are no power of two times it, and the *)
(* largest limit there is (where doubling 4 would wrap) all occur.         *)
(***************************************************************************)
EXTENDS Buffer

MCLimits == {0, 1, 5, 7}
MCChunks ==
  {<<>>} \cup (UNION {[1..n -> Byte] : n \in 1..2})
    \cup {[i \in 1..n |-> i % 2] : n \in {3, 5, 7}}
==============================================================================
