--------------------------- MODULE MCProtocolStream ---------------------------
(***************************************************************************)
(* With Radix = 3, UINT16_MAX is 8: request arguments of 2 bytes are the   *)
(* longest that fit and 3 are too many; responses of 8 bytes fit and 9 do  *)
(* not.  A type of 0 is not valid in a request.                            *)
(***************************************************************************)
EXTENDS ProtocolStream

Zeros(n) == [i \in 1..n |-> 0]

MCRequests ==
  [type : 0..3, argument : {<<>>, <<1>>, <<2, 0>>, Zeros(3)}]

MCResponses ==
  [type : {0}, argument : {<<>>, <<2>>, <<0, 1>>, Zeros(8), Zeros(9)}]
==============================================================================
