---------------------------- MODULE ProtocolStream ----------------------------
(***************************************************************************)
(* One direction of a connection: wc_protocol_encode_request or            *)
(* wc_protocol_encode_response into the output buffer of one side, the     *)
(* bytes carried over in pieces of any size, and the matching parser on    *)
(* the input buffer of the other side.  An encoder appends twice, header   *)
(* then argument, and takes the header back when the second append fails.  *)
(* The other side may also be one that writes whatever it likes, module    *)
(* ProtocolBytes.                                                          *)
(***************************************************************************)
EXTENDS ProtocolBytes

CONSTANTS
  Requests,      \* requests a client may try to encode
  Responses,     \* responses a server may try to encode
  OutputLimit,   \* max_size of the sender's buffer
  MaxMessages,   \* bound on the messages encoded
  MaxFaults      \* bound on failing allocations

ASSUME StreamAssumption ==
  /\ OutputLimit \in Nat
  /\ MaxMessages \in Nat /\ MaxFaults \in Nat
ASSUME MessageAssumption ==
  /\ Requests \subseteq [type : Int, argument : Seq(Byte)]
  /\ Responses \subseteq [type : {0}, argument : Seq(Byte)]

VARIABLES
  direction,       \* "request", "response", or "any" bytes without an encoder
  output,          \* the sender's buffer
  encoding,        \* messages whose header is written and argument is not
  original_length, \* what the encoder restores
  input,           \* the receiver's buffer
  encoded,         \* messages the encoder reported as encoded
  parsed,          \* messages the parser returned
  rejected,        \* has the parser returned WC_PARSE_INVALID
  faults

stream == <<output, encoding, original_length, input, encoded, parsed, rejected, faults>>
vars == <<data, direction, stream>>

Messages == IF direction = "request" THEN Requests ELSE Responses

(* Mutant: a response buffer without room for the header. *)
InputLimit_short == UINT16_MAX

(* max_size of the receiver's buffer: WC_UDS_INPUT_LIMIT and its like in   *)
(* the servers, and the client's response buffer.                          *)
InputLimit ==
  IF direction = "request" THEN UINT16_MAX ELSE UINT16_MAX + ResponseHeaderSize

Encodable(m) ==
  IF direction = "request" THEN RequestEncodable(m.type, m.argument)
  ELSE ResponseEncodable(m.argument)

Header(m) ==
  IF direction = "request" THEN RequestHeader(m.type, m.argument)
  ELSE ResponseHeader(m.argument)

Parsed(bytes) ==
  IF direction = "request" THEN ParseRequest(bytes) ELSE ParseResponse(bytes)

EncodeHeader(m) ==
  /\ encoding = {} /\ Len(encoded) < MaxMessages
  /\ Encodable(m)
  /\ Len(Header(m)) + Len(m.argument) <= OutputLimit - Len(output)
  /\ output' = output \o Header(m)
  /\ encoding' = {m}
  /\ original_length' = Len(output)
  /\ UNCHANGED <<direction, input, encoded, parsed, rejected, faults>>

EncodeArgument(m) ==
  /\ m \in encoding
  /\ output' = output \o m.argument
  /\ encoded' = Append(encoded, m)
  /\ encoding' = {} /\ original_length' = 0
  /\ UNCHANGED <<direction, input, parsed, rejected, faults>>

(* Mutant: the header stays in the buffer. *)
Restored_not == output

Restored == SubSeq(output, 1, original_length)

(* No memory for the argument: the buffer gets its old length back. *)
EncodeFails(m) ==
  /\ m \in encoding /\ m.argument /= <<>>
  /\ faults < MaxFaults /\ faults' = faults + 1
  /\ output' = Restored
  /\ encoding' = {} /\ original_length' = 0
  /\ UNCHANGED <<direction, input, encoded, parsed, rejected>>

(* One send() and one read(), of any size. *)
Transfer(n) ==
  /\ encoding = {} /\ n <= Len(output) /\ n <= InputLimit - Len(input)
  /\ input' = input \o SubSeq(output, 1, n)
  /\ output' = Drop(output, n)
  /\ UNCHANGED <<direction, encoding, original_length, encoded, parsed, rejected,
                 faults>>

Parse ==
  LET r == Parsed(input)
  IN  /\ r.result /= "NEED_MORE" /\ ~rejected
      /\ IF r.result = "COMPLETE"
         THEN /\ parsed' = Append(parsed, [type |-> r.type, argument |-> r.argument])
              /\ input' = Drop(input, r.consumed) /\ UNCHANGED rejected
         ELSE rejected' = TRUE /\ UNCHANGED <<parsed, input>>
      /\ UNCHANGED <<direction, output, encoding, original_length, encoded, faults>>

Init ==
  /\ direction \in {"request", "response", "any"} /\ BytesInit
  /\ output = <<>> /\ encoding = {} /\ original_length = 0
  /\ input = <<>> /\ encoded = <<>> /\ parsed = <<>>
  /\ rejected = FALSE /\ faults = 0

Next ==
  \/ /\ direction /= "any" /\ UNCHANGED data
     /\ \/ \E m \in Messages : EncodeHeader(m) \/ EncodeArgument(m) \/ EncodeFails(m)
        \/ \E n \in 1..InputLimit : Transfer(n)
        \/ Parse
  \/ direction = "any" /\ BytesNext /\ UNCHANGED <<direction, stream>>

Spec == Init /\ [][Next]_vars

------------------------------------------------------------------------------
(* The receiver gets the messages the sender encoded, unchanged, in order  *)
(* and whole, however the bytes are cut and coalesced, and never rejects   *)
(* what an encoder wrote.                                                  *)
StreamPreserved ==
  /\ ~rejected
  /\ Len(parsed) <= Len(encoded) /\ parsed = SubSeq(encoded, 1, Len(parsed))

(* When every byte was carried over and the parser asks for more, nothing  *)
(* is left half-read: all messages were parsed. A failed encoding leaves   *)
(* no byte behind that the parser would wait on.                           *)
StreamDrained ==
  output = <<>> /\ encoding = {} /\ Parsed(input).result = "NEED_MORE"
    => input = <<>> /\ parsed = encoded

(* An input buffer never fills up with a message the parser still wants    *)
(* more of: there is always room to read the rest.                         *)
RoomToFinish ==
  Parsed(input).result = "NEED_MORE" => Len(input) < InputLimit

(* Messages arrive as they were encoded, all of them, and no buffer jams.  *)
StreamDelivered == StreamPreserved /\ StreamDrained /\ RoomToFinish
==============================================================================
