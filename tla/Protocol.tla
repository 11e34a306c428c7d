------------------------------ MODULE Protocol ------------------------------
(***************************************************************************)
(* The wire format of src/src/protocol.c: encoders and incremental parsers *)
(* of requests and responses, over sequences of bytes.                     *)
(*                                                                         *)
(* A byte has Radix values, 256 in the code.  Two bytes make a uint16_t in *)
(* network order, so UINT16_MAX follows from Radix and a small Radix keeps *)
(* every boundary (the largest argument, a length that would wrap) within  *)
(* reach.  The header sizes and the request types are the code's own.      *)
(***************************************************************************)
EXTENDS Integers, Sequences

CONSTANT Radix

(* The request types fit in a byte pair and a request header in a length. *)
ASSUME RadixAssumption == Radix \in Nat /\ Radix > 2

Byte == 0..(Radix - 1)
UINT16_MAX == Radix * Radix - 1

RequestHeaderSize == 6
ResponseHeaderSize == 2

(* LS, PWD and CAT; wc_protocol_request_type_valid. *)
RequestTypes == 1..3

(* The two low bytes of v, the casts to uint16_t and unsigned char. *)
EncodeU16(v) == <<(v \div Radix) % Radix, v % Radix>>

DecodeU16(data, offset) == data[offset + 1] * Radix + data[offset + 2]

Drop(data, n) == SubSeq(data, n + 1, Len(data))

NeedMore == [result |-> "NEED_MORE", consumed |-> 0]
Invalid == [result |-> "INVALID", consumed |-> 0]

(* Mutant: all that has arrived is taken for the message. *)
Complete_all(type, data, header, size) ==
  [result |-> "COMPLETE", consumed |-> Len(data), type |-> type,
   argument |-> SubSeq(data, header + 1, Len(data))]

(* The argument is a view of the buffer behind the header. *)
Complete(type, data, header, size) ==
  [result |-> "COMPLETE", consumed |-> size, type |-> type,
   argument |-> SubSeq(data, header + 1, size)]

------------------------------------------------------------------------------
(* Requests. *)

(* Mutant: the header is left out of the bound. *)
RequestEncodable_no_header(type, argument) ==
  type \in RequestTypes /\ Len(argument) <= UINT16_MAX

(* What wc_protocol_encode_request checks before it writes. *)
RequestEncodable(type, argument) ==
  /\ type \in RequestTypes
  /\ Len(argument) <= UINT16_MAX - RequestHeaderSize

RequestHeader(type, argument) ==
  EncodeU16(RequestHeaderSize + Len(argument)) \o EncodeU16(type)
    \o EncodeU16(Len(argument))

RequestBytes(type, argument) == RequestHeader(type, argument) \o argument

(* Mutant: the two lengths are not compared. *)
HeaderValid_no_length(data) ==
  DecodeU16(data, 2) \in RequestTypes /\ DecodeU16(data, 0) >= RequestHeaderSize

HeaderValid(data) ==
  /\ DecodeU16(data, 2) \in RequestTypes
  /\ DecodeU16(data, 0) >= RequestHeaderSize
  /\ DecodeU16(data, 0) = RequestHeaderSize + DecodeU16(data, 4)

(* Mutant: off by one. *)
RequestArrived_late(data) == Len(data) > DecodeU16(data, 0)

RequestArrived(data) == Len(data) >= DecodeU16(data, 0)

(* Mutant: the whole frame is waited for before its header is judged. *)
ParseRequest_lazy(data) ==
  IF Len(data) < RequestHeaderSize \/ ~RequestArrived(data) THEN NeedMore
  ELSE IF ~HeaderValid(data) THEN Invalid
  ELSE Complete(DecodeU16(data, 2), data, RequestHeaderSize, DecodeU16(data, 0))

ParseRequest(data) ==
  IF Len(data) < RequestHeaderSize THEN NeedMore
  ELSE IF ~HeaderValid(data) THEN Invalid
  ELSE IF ~RequestArrived(data) THEN NeedMore
  ELSE Complete(DecodeU16(data, 2), data, RequestHeaderSize, DecodeU16(data, 0))

------------------------------------------------------------------------------
(* Responses. They have no type; 0 stands in its place. *)

ResponseEncodable(argument) == Len(argument) <= UINT16_MAX

ResponseHeader(argument) == EncodeU16(Len(argument))

ResponseBytes(argument) == ResponseHeader(argument) \o argument

(* Mutant: the length is taken to count the header. *)
ResponseSize_total(data) == DecodeU16(data, 0)

ResponseSize(data) == ResponseHeaderSize + DecodeU16(data, 0)

ParseResponse(data) ==
  IF Len(data) < ResponseHeaderSize \/ Len(data) < ResponseSize(data) THEN NeedMore
  ELSE Complete(0, data, ResponseHeaderSize, ResponseSize(data))
==============================================================================
