---------------------------- MODULE ProtocolBytes ----------------------------
(***************************************************************************)
(* The parsers of Protocol on every byte string, as it arrives: a peer may *)
(* send anything, and a read() may end after any byte.                     *)
(***************************************************************************)
EXTENDS Protocol

CONSTANT MaxBytes  \* bound on the length of the string

ASSUME BytesAssumption == MaxBytes \in Nat

VARIABLE data      \* what has arrived and was not consumed

BytesInit == data = <<>>

Arrive(b) == Len(data) < MaxBytes /\ data' = Append(data, b)

BytesNext == \E b \in Byte : Arrive(b)

BytesSpec == BytesInit /\ [][BytesNext]_data

BytesTypeOK == data \in Seq(Byte)

(* How a stream is cut into reads never changes what a request is: once    *)
(* wc_protocol_parse_request has accepted or rejected the front of the     *)
(* buffer, more bytes leave its answer, type and argument as they are.     *)
RequestDecisionStable ==
  [][ParseRequest(data).result /= "NEED_MORE"
       => ParseRequest(data') = ParseRequest(data)]_data

(* The same for wc_protocol_parse_response. *)
ResponseDecisionStable ==
  [][ParseResponse(data).result /= "NEED_MORE"
       => ParseResponse(data') = ParseResponse(data)]_data

(* The bytes of an accepted request are exactly those the encoder writes   *)
(* for its type and argument: there is one encoding of a request.          *)
RequestCanonical ==
  LET r == ParseRequest(data)
  IN  r.result = "COMPLETE" =>
        /\ RequestEncodable(r.type, r.argument)
        /\ SubSeq(data, 1, r.consumed) = RequestBytes(r.type, r.argument)

(* The same for a response. *)
ResponseCanonical ==
  LET r == ParseResponse(data)
  IN  r.result = "COMPLETE" =>
        SubSeq(data, 1, r.consumed) = ResponseBytes(r.argument)

(* A header is judged as soon as it is there: the parser only goes on      *)
(* waiting for a request whose header it would accept.                     *)
WaitsForValidOnly ==
  ParseRequest(data).result = "NEED_MORE" /\ Len(data) >= RequestHeaderSize
    => \E type \in RequestTypes :
         \E n \in (Len(data) - RequestHeaderSize + 1)..(UINT16_MAX - RequestHeaderSize) :
           SubSeq(data, 1, RequestHeaderSize) =
             RequestHeader(type, [i \in 1..n |-> 0])

(* An input buffer of UINT16_MAX bytes, the limit of every server, is      *)
(* never full of an unfinished request: a reader with no room left (the    *)
(* EMSGSIZE path of read_client) has always had a decision before.         *)
FullBufferDecides ==
  Len(data) >= UINT16_MAX => ParseRequest(data).result /= "NEED_MORE"

(* The parsers take, and the request parser waits for, nothing that an     *)
(* encoder would not write.                                                *)
OnlyEncodings == RequestCanonical /\ ResponseCanonical /\ WaitsForValidOnly

(* Neither parser takes back a decision when more bytes arrive. *)
DecisionsStable == RequestDecisionStable /\ ResponseDecisionStable
==============================================================================
