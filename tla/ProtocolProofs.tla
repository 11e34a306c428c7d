---------------------------- MODULE ProtocolProofs ----------------------------
(***************************************************************************)
(* Proofs about the wire format of src/src/protocol.c, for every radix     *)
(* (256 in the program) and every sequence of bytes: the parsers undo the  *)
(* encoders, decide a message once and for all, and accept nothing but     *)
(* what an encoder writes.  The last part is about a stream of messages,   *)
(* from the encoder on one side to the parser on the other: in whatever    *)
(* pieces it is carried over, the messages arrive whole and in order.      *)
(***************************************************************************)
EXTENDS ProtocolStream, SequenceTheorems, TLAPS

(* Division of a two-byte number by the radix gives back its bytes. *)
LEMMA BytesOfNumber ==
  ASSUME NEW a \in Byte, NEW b \in Byte
  PROVE  /\ a * Radix + b \in 0..UINT16_MAX
         /\ (a * Radix + b) \div Radix = a
         /\ (a * Radix + b) % Radix = b
  BY RadixAssumption DEF Byte, UINT16_MAX

(* The number two bytes stand for. *)
Word(a, b) == a * Radix + b

(* A quotient and a remainder of a two-byte number are bytes. *)
LEMMA DivisionBytes ==
  ASSUME NEW v \in 0..UINT16_MAX, NEW q \in Int, NEW r \in Int,
         0 <= r, r < Radix, v = Radix * q + r
  PROVE  q \in Byte /\ r \in Byte /\ Word(q, r) = v
<1>1. v \in Int /\ v >= 0 /\ v < Radix * Radix
  BY RadixAssumption DEF UINT16_MAX
<1>2. q >= 0
  BY <1>1, RadixAssumption
<1>3. q < Radix
  BY <1>1, RadixAssumption
<1>4. Radix * q = q * Radix
  BY RadixAssumption
<1>5. QED
  BY <1>2, <1>3, <1>4, RadixAssumption DEF Byte, Word

(* A two-byte number is made of two bytes. *)
LEMMA NumberOfBytes ==
  ASSUME NEW v \in 0..UINT16_MAX
  PROVE  /\ v \div Radix \in Byte /\ v % Radix \in Byte
         /\ Word(v \div Radix, v % Radix) = v
<1> DEFINE q == v \div Radix
           r == v % Radix
<1>1. v \in Int /\ v >= 0
  BY RadixAssumption DEF UINT16_MAX
<1>2. q \in Int /\ r \in Int /\ 0 <= r /\ r < Radix /\ v = Radix * q + r
  BY <1>1, RadixAssumption
<1> HIDE DEF q, r
<1>3. q \in Byte /\ r \in Byte /\ Word(q, r) = v
  BY <1>2, DivisionBytes
<1>4. QED
  BY <1>3, Zenon DEF q, r

(* wc_protocol_decode_u16 undoes wc_protocol_encode_u16. *)
LEMMA EncodedU16 ==
  ASSUME NEW v \in 0..UINT16_MAX
  PROVE  /\ EncodeU16(v) \in Seq(Byte) /\ Len(EncodeU16(v)) = 2
         /\ Word(EncodeU16(v)[1], EncodeU16(v)[2]) = v
<1>1. /\ v \div Radix \in Byte /\ v % Radix \in Byte
      /\ Word(v \div Radix, v % Radix) = v
  BY NumberOfBytes
<1>2. (v \div Radix) % Radix = v \div Radix
  BY <1>1, RadixAssumption DEF Byte
<1>3. \A a, b \in Byte : /\ <<a, b>> \in Seq(Byte) /\ Len(<<a, b>>) = 2
                         /\ <<a, b>>[1] = a /\ <<a, b>>[2] = b
  OBVIOUS
<1>4. EncodeU16(v) = <<v \div Radix, v % Radix>>
  BY <1>2, Zenon DEF EncodeU16
<1> DEFINE q == v \div Radix
           m == v % Radix
<1>5. q \in Byte /\ m \in Byte /\ Word(q, m) = v /\ EncodeU16(v) = <<q, m>>
  BY <1>1, <1>4, Zenon
<1> HIDE DEF q, m
<1>6. QED
  BY <1>3, <1>5

(* The two parts of a concatenation. *)
LEMMA ConcatParts ==
  \A a, b \in Seq(Byte) :
    /\ a \o b \in Seq(Byte) /\ Len(a \o b) = Len(a) + Len(b)
    /\ \A i \in 1..Len(a) : (a \o b)[i] = a[i]
    /\ \A i \in 1..Len(b) : (a \o b)[Len(a) + i] = b[i]
  OBVIOUS

(* Three two-byte fields and an argument, in a row. *)
InARow(l, t, n, argument) == ((l \o t) \o n) \o argument

(* Where each of them is. *)
FieldsOf(d, l, t, n, argument) ==
  /\ Len(d) = 6 + Len(argument)
  /\ d[1] = l[1] /\ d[2] = l[2] /\ d[3] = t[1] /\ d[4] = t[2]
  /\ d[5] = n[1] /\ d[6] = n[2]
  /\ \A i \in 1..Len(argument) : d[6 + i] = argument[i]

(* They are where they were put. *)
LEMMA Fields ==
  ASSUME NEW l \in Seq(Byte), NEW t \in Seq(Byte), NEW n \in Seq(Byte),
         NEW argument \in Seq(Byte)
  PROVE  /\ InARow(l, t, n, argument) \in Seq(Byte)
         /\ Len(l) = 2 /\ Len(t) = 2 /\ Len(n) = 2 =>
              FieldsOf(InARow(l, t, n, argument), l, t, n, argument)
<1> DEFINE lt == l \o t
           h == lt \o n
           d == h \o argument
<1>1. /\ lt \in Seq(Byte) /\ Len(lt) = Len(l) + Len(t)
      /\ \A i \in 1..Len(l) : lt[i] = l[i]
      /\ \A i \in 1..Len(t) : lt[Len(l) + i] = t[i]
  BY ConcatParts
<1> HIDE DEF lt
<1>2. /\ h \in Seq(Byte) /\ Len(h) = Len(lt) + Len(n)
      /\ \A i \in 1..Len(lt) : h[i] = lt[i]
      /\ \A i \in 1..Len(n) : h[Len(lt) + i] = n[i]
  BY <1>1, ConcatParts, Zenon
<1> HIDE DEF h
<1>3. /\ d \in Seq(Byte) /\ Len(d) = Len(h) + Len(argument)
      /\ \A i \in 1..Len(h) : d[i] = h[i]
      /\ \A i \in 1..Len(argument) : d[Len(h) + i] = argument[i]
  BY <1>2, ConcatParts, Zenon
<1>4. InARow(l, t, n, argument) = d
  BY DEF InARow, h, lt
<1> HIDE DEF d
<1>5. ASSUME Len(l) = 2, Len(t) = 2, Len(n) = 2
      PROVE  FieldsOf(d, l, t, n, argument)
  <2>1. lt[1] = l[1] /\ lt[2] = l[2] /\ lt[3] = t[1] /\ lt[4] = t[2] /\ Len(lt) = 4
    BY <1>1, <1>5
  <2>2. (\A i \in 1..4 : h[i] = lt[i]) /\ h[5] = n[1] /\ h[6] = n[2] /\ Len(h) = 6
    BY <1>2, <1>5, <2>1
  <2>3. \A i \in 1..6 : d[i] = h[i]
    BY <1>3, <2>2
  <2>4. d[1] = h[1] /\ d[2] = h[2] /\ d[3] = h[3] /\ d[4] = h[4]
        /\ d[5] = h[5] /\ d[6] = h[6]
    BY <2>3
  <2>5. h[1] = lt[1] /\ h[2] = lt[2] /\ h[3] = lt[3] /\ h[4] = lt[4]
    BY <2>2
  <2>6. Len(d) = 6 + Len(argument)
    BY <1>3, <2>2
  <2>7. \A i \in 1..Len(argument) : d[6 + i] = argument[i]
    BY <1>3, <2>2
  <2>8. QED
    BY <2>1, <2>2, <2>4, <2>5, <2>6, <2>7, Zenon DEF FieldsOf
<1>6. QED
  BY <1>3, <1>4, <1>5, Zenon

(* A decoded number in terms of its bytes. *)
LEMMA DecodedWord ==
  ASSUME NEW d
  PROVE  /\ DecodeU16(d, 0) = Word(d[1], d[2])
         /\ DecodeU16(d, 2) = Word(d[3], d[4])
         /\ DecodeU16(d, 4) = Word(d[5], d[6])
  BY DEF DecodeU16, Word

(* A buffer with a request at its front. *)
Buffered(type, argument, rest) == RequestBytes(type, argument) \o rest

(* Where the parts of the request are. *)
LEMMA RequestLayout ==
  ASSUME NEW type, NEW argument \in Seq(Byte), RequestEncodable(type, argument),
         NEW rest \in Seq(Byte)
  PROVE  /\ RequestBytes(type, argument) \in Seq(Byte)
         /\ Len(RequestBytes(type, argument)) = 6 + Len(argument)
         /\ Buffered(type, argument, rest) \in Seq(Byte)
         /\ Len(Buffered(type, argument, rest)) = 6 + Len(argument) + Len(rest)
         /\ DecodeU16(Buffered(type, argument, rest), 0) = 6 + Len(argument)
         /\ DecodeU16(Buffered(type, argument, rest), 2) = type
         /\ DecodeU16(Buffered(type, argument, rest), 4) = Len(argument)
         /\ \A i \in 1..Len(argument) :
              Buffered(type, argument, rest)[6 + i] = argument[i]
<1> DEFINE l == EncodeU16(6 + Len(argument))
           t == EncodeU16(type)
           n == EncodeU16(Len(argument))
           f == RequestBytes(type, argument)
           d == f \o rest
<1>1. UINT16_MAX \in Nat /\ UINT16_MAX > 7
  BY RadixAssumption DEF UINT16_MAX
<1>2. /\ type \in 0..UINT16_MAX /\ Len(argument) \in 0..UINT16_MAX
      /\ 6 + Len(argument) \in 0..UINT16_MAX
  BY <1>1 DEF RequestEncodable, RequestTypes, RequestHeaderSize
<1>3. /\ l \in Seq(Byte) /\ Len(l) = 2 /\ Word(l[1], l[2]) = 6 + Len(argument)
      /\ t \in Seq(Byte) /\ Len(t) = 2 /\ Word(t[1], t[2]) = type
      /\ n \in Seq(Byte) /\ Len(n) = 2 /\ Word(n[1], n[2]) = Len(argument)
  BY <1>2, EncodedU16
<1>4. f = InARow(l, t, n, argument)
  BY Zenon DEF RequestBytes, RequestHeader, RequestHeaderSize, InARow
<1> HIDE DEF l, t, n, f
<1>5. f \in Seq(Byte) /\ FieldsOf(f, l, t, n, argument)
  BY <1>3, <1>4, Fields, Zenon
<1>6. f \in Seq(Byte)
  BY <1>5
<1>7. /\ d \in Seq(Byte) /\ Len(d) = Len(f) + Len(rest)
      /\ \A i \in 1..Len(f) : d[i] = f[i]
  BY <1>6, ConcatParts
<1> HIDE DEF d
<1>8. d[1] = l[1] /\ d[2] = l[2] /\ d[3] = t[1] /\ d[4] = t[2]
      /\ d[5] = n[1] /\ d[6] = n[2]
  BY <1>5, <1>7 DEF FieldsOf
<1>9. \A i \in 1..Len(argument) : d[6 + i] = argument[i]
  BY <1>5, <1>7 DEF FieldsOf
<1>10. /\ DecodeU16(d, 0) = 6 + Len(argument)
       /\ DecodeU16(d, 2) = type /\ DecodeU16(d, 4) = Len(argument)
  BY <1>3, <1>8, DecodedWord, Zenon
<1>11. Len(d) = 6 + Len(argument) + Len(rest)
  BY <1>5, <1>7 DEF FieldsOf
<1>12. QED
  BY <1>5, <1>7, <1>9, <1>10, <1>11, Zenon DEF FieldsOf, d, f, Buffered

------------------------------------------------------------------------------
(* What the parsers look at. *)

(* Two sequences with the same elements are the same. *)
LEMMA SameElements ==
  ASSUME NEW a \in Seq(Byte), NEW b \in Seq(Byte), Len(a) = Len(b),
         \A i \in 1..Len(a) : a[i] = b[i]
  PROVE  a = b
  OBVIOUS

(* A part of a sequence of bytes. *)
LEMMA PartOf ==
  ASSUME NEW d \in Seq(Byte), NEW m \in Nat, NEW n \in Nat, m <= n, n <= Len(d)
  PROVE  /\ SubSeq(d, m + 1, n) \in Seq(Byte)
         /\ Len(SubSeq(d, m + 1, n)) = n - m
         /\ \A i \in 1..(n - m) : SubSeq(d, m + 1, n)[i] = d[m + i]
  BY SubSeqProperties

(* A part depends on its own elements only. *)
LEMMA SamePart ==
  ASSUME NEW d \in Seq(Byte), NEW e \in Seq(Byte),
         NEW m \in Nat, NEW n \in Nat, m <= n, n <= Len(d), n <= Len(e),
         \A i \in 1..n : d[i] = e[i]
  PROVE  SubSeq(d, m + 1, n) = SubSeq(e, m + 1, n)
<1> DEFINE a == SubSeq(d, m + 1, n)
           b == SubSeq(e, m + 1, n)
<1>1. /\ a \in Seq(Byte) /\ Len(a) = n - m /\ \A i \in 1..(n - m) : a[i] = d[m + i]
      /\ b \in Seq(Byte) /\ Len(b) = n - m /\ \A i \in 1..(n - m) : b[i] = e[m + i]
  BY PartOf
<1> HIDE DEF a, b
<1>2. \A i \in 1..(n - m) : m + i \in 1..n
  OBVIOUS
<1>3. \A i \in 1..Len(a) : a[i] = b[i]
  BY <1>1, <1>2, Zenon
<1>4. a = b
  BY <1>1, <1>3, SameElements
<1>5. QED
  BY <1>4 DEF a, b

(* A decoded number is a uint16_t. *)
LEMMA DecodedRange ==
  ASSUME NEW d \in Seq(Byte), NEW k \in {0, 2, 4}, k + 2 <= Len(d)
  PROVE  DecodeU16(d, k) \in 0..UINT16_MAX
<1>1. d[k + 1] \in Byte /\ d[k + 2] \in Byte
  OBVIOUS
<1>2. QED
  BY <1>1, BytesOfNumber, Zenon DEF DecodeU16

(* The header decides from its own six bytes. *)
LEMMA SameHeader ==
  ASSUME NEW d, NEW e, \A i \in 1..6 : d[i] = e[i]
  PROVE  /\ DecodeU16(d, 0) = DecodeU16(e, 0)
         /\ DecodeU16(d, 2) = DecodeU16(e, 2)
         /\ DecodeU16(d, 4) = DecodeU16(e, 4)
         /\ HeaderValid(d) <=> HeaderValid(e)
<1>1. d[1] = e[1] /\ d[2] = e[2] /\ d[3] = e[3] /\ d[4] = e[4] /\ d[5] = e[5]
      /\ d[6] = e[6]
  OBVIOUS
<1>2. /\ DecodeU16(d, 0) = DecodeU16(e, 0)
      /\ DecodeU16(d, 2) = DecodeU16(e, 2)
      /\ DecodeU16(d, 4) = DecodeU16(e, 4)
  BY <1>1 DEF DecodeU16
<1>3. QED
  BY <1>2, Zenon DEF HeaderValid

------------------------------------------------------------------------------
(* Parsing an encoded request gives the request back, whatever follows it  *)
(* in the buffer: wc_protocol_parse_request undoes                         *)
(* wc_protocol_encode_request.                                             *)
THEOREM RequestRoundTrip ==
  ASSUME NEW type, NEW argument \in Seq(Byte), RequestEncodable(type, argument),
         NEW rest \in Seq(Byte)
  PROVE  ParseRequest(RequestBytes(type, argument) \o rest) =
           [result |-> "COMPLETE", consumed |-> RequestHeaderSize + Len(argument),
            type |-> type, argument |-> argument]
<1> DEFINE size == RequestHeaderSize + Len(argument)
           d == Buffered(type, argument, rest)
<1>1. /\ d \in Seq(Byte) /\ Len(d) = size + Len(rest)
      /\ DecodeU16(d, 0) = size /\ DecodeU16(d, 2) = type
      /\ DecodeU16(d, 4) = Len(argument)
      /\ \A i \in 1..Len(argument) : d[RequestHeaderSize + i] = argument[i]
  BY RequestLayout DEF RequestHeaderSize, size
<1> HIDE DEF d
<1>2. size \in Nat /\ RequestHeaderSize \in Nat /\ RequestHeaderSize <= size
      /\ size <= Len(d) /\ RequestHeaderSize <= Len(d)
      /\ size - RequestHeaderSize = Len(argument)
  BY <1>1 DEF RequestHeaderSize
<1>3. HeaderValid(d) /\ RequestArrived(d)
  BY <1>1, <1>2 DEF HeaderValid, RequestArrived, RequestEncodable
<1> HIDE DEF size
<1>4. SubSeq(d, RequestHeaderSize + 1, size) = argument
  <2> DEFINE a == SubSeq(d, RequestHeaderSize + 1, size)
  <2>1. /\ a \in Seq(Byte) /\ Len(a) = size - RequestHeaderSize
        /\ \A i \in 1..(size - RequestHeaderSize) : a[i] = d[RequestHeaderSize + i]
    BY <1>1, <1>2, PartOf, Zenon
  <2> HIDE DEF a
  <2>2. a = argument
    BY <1>1, <1>2, <2>1, SameElements, Zenon
  <2>3. QED
    BY <2>2 DEF a
<1>5. ~(Len(d) < RequestHeaderSize)
  BY <1>1, <1>2
<1>6. ParseRequest(d) = Complete(type, d, RequestHeaderSize, size)
  BY <1>1, <1>3, <1>5, Zenon DEF ParseRequest
<1>7. QED
  BY <1>4, <1>6, Zenon DEF Complete, d, size, Buffered

(* Everything the parsers answer is about bytes. *)
LEMMA Typing == BytesSpec => []BytesTypeOK
<1>1. BytesInit => BytesTypeOK
  BY DEF BytesInit, BytesTypeOK
<1>2. BytesTypeOK /\ [BytesNext]_data => BytesTypeOK'
  BY DEF BytesTypeOK, BytesNext, Arrive
<1>3. QED
  BY <1>1, <1>2, PTL DEF BytesSpec

(* More bytes leave the answer, type and argument of a decided request. *)
LEMMA RequestExtends ==
  ASSUME NEW d \in Seq(Byte), NEW e \in Seq(Byte), Len(d) <= Len(e),
         \A i \in 1..Len(d) : e[i] = d[i], ParseRequest(d).result /= "NEED_MORE"
  PROVE  ParseRequest(e) = ParseRequest(d)
<1>1. ~(Len(d) < RequestHeaderSize) /\ (HeaderValid(d) => RequestArrived(d))
  BY Zenon DEF ParseRequest, NeedMore
<1>2. \A i \in 1..6 : e[i] = d[i]
  BY <1>1 DEF RequestHeaderSize
<1>3. ~(Len(e) < RequestHeaderSize)
  BY <1>1 DEF RequestHeaderSize
<1>4. CASE ~HeaderValid(d)
  BY <1>1, <1>2, <1>3, <1>4, SameHeader, Zenon DEF ParseRequest
<1>5. CASE HeaderValid(d)
  <2> DEFINE size == DecodeU16(d, 0)
  <2>1. DecodeU16(e, 0) = size /\ DecodeU16(e, 2) = DecodeU16(d, 2) /\ HeaderValid(e)
    BY <1>2, <1>5, SameHeader, Zenon
  <2>2. size \in Nat /\ RequestHeaderSize <= size /\ size <= Len(d) /\ size <= Len(e)
    <3>1. size \in 0..UINT16_MAX
      BY <1>1, DecodedRange DEF RequestHeaderSize
    <3>2. UINT16_MAX \in Nat
      BY RadixAssumption DEF UINT16_MAX
    <3>3. QED
      BY <1>1, <1>5, <3>1, <3>2 DEF HeaderValid, RequestArrived
  <2>3. RequestArrived(e)
    BY <2>1, <2>2 DEF RequestArrived
  <2>4. \A i \in 1..size : e[i] = d[i]
    BY <2>2
  <2>5. SubSeq(e, RequestHeaderSize + 1, size) = SubSeq(d, RequestHeaderSize + 1, size)
    BY <2>2, <2>4, SamePart DEF RequestHeaderSize
  <2>6. QED
    BY <1>1, <1>3, <1>5, <2>1, <2>3, <2>5, Zenon DEF ParseRequest, Complete
<1>6. QED
  BY <1>4, <1>5

(* The same for a response. *)
LEMMA ResponseExtends ==
  ASSUME NEW d \in Seq(Byte), NEW e \in Seq(Byte), Len(d) <= Len(e),
         \A i \in 1..Len(d) : e[i] = d[i], ParseResponse(d).result /= "NEED_MORE"
  PROVE  ParseResponse(e) = ParseResponse(d)
<1>1. ~(Len(d) < ResponseHeaderSize) /\ ~(Len(d) < ResponseSize(d))
  BY Zenon DEF ParseResponse, NeedMore
<1>2. e[1] = d[1] /\ e[2] = d[2]
  BY <1>1 DEF ResponseHeaderSize
<1>3. ResponseSize(e) = ResponseSize(d)
  BY <1>2, DecodedWord, Zenon DEF ResponseSize
<1>4. DecodeU16(d, 0) \in Nat
  BY <1>1, DecodedRange, RadixAssumption DEF ResponseHeaderSize, UINT16_MAX
<1>5. ResponseSize(d) \in Nat /\ ResponseHeaderSize <= ResponseSize(d)
  BY <1>4 DEF ResponseSize, ResponseHeaderSize
<1>6. ResponseSize(d) <= Len(d) /\ ResponseSize(d) <= Len(e)
  BY <1>1, <1>5
<1>7. \A i \in 1..ResponseSize(d) : e[i] = d[i]
  BY <1>5, <1>6
<1>8. SubSeq(e, ResponseHeaderSize + 1, ResponseSize(d)) =
        SubSeq(d, ResponseHeaderSize + 1, ResponseSize(d))
  BY <1>5, <1>6, <1>7, SamePart DEF ResponseHeaderSize
<1>9. ~(Len(e) < ResponseHeaderSize) /\ ~(Len(e) < ResponseSize(e))
  BY <1>1, <1>3, <1>5, <1>6 DEF ResponseHeaderSize
<1>10. QED
  BY <1>1, <1>3, <1>8, <1>9, Zenon DEF ParseResponse, Complete

(* One more byte extends the buffer. *)
LEMMA ArriveExtends ==
  ASSUME BytesTypeOK, BytesNext
  PROVE  /\ data \in Seq(Byte) /\ data' \in Seq(Byte) /\ Len(data) <= Len(data')
         /\ \A i \in 1..Len(data) : data'[i] = data[i]
<1> PICK b \in Byte : data' = Append(data, b)
  BY DEF BytesNext, Arrive
<1> QED
  BY DEF BytesTypeOK

(* How a stream is cut into reads never changes what a request is. *)
THEOREM RequestStable == BytesSpec => RequestDecisionStable
<1>1. BytesTypeOK /\ [BytesNext]_data
        => [ParseRequest(data).result /= "NEED_MORE"
              => ParseRequest(data') = ParseRequest(data)]_data
  BY ArriveExtends, RequestExtends
<1>2. QED
  BY <1>1, Typing, PTL DEF BytesSpec, RequestDecisionStable

(* The same for a response. *)
THEOREM ResponseStable == BytesSpec => ResponseDecisionStable
<1>1. BytesTypeOK /\ [BytesNext]_data
        => [ParseResponse(data).result /= "NEED_MORE"
              => ParseResponse(data') = ParseResponse(data)]_data
  BY ArriveExtends, ResponseExtends
<1>2. QED
  BY <1>1, Typing, PTL DEF BytesSpec, ResponseDecisionStable

(* However a stream is cut into reads, neither parser takes back what it   *)
(* has decided.                                                            *)
THEOREM NoDecisionTakenBack == BytesSpec => DecisionsStable
BY RequestStable, ResponseStable DEF DecisionsStable

(* A buffer as long as the longest message leaves nothing to wait for. *)
LEMMA LongEnough ==
  ASSUME NEW d \in Seq(Byte)
  PROVE  /\ Len(d) >= UINT16_MAX => ParseRequest(d).result /= "NEED_MORE"
         /\ Len(d) >= UINT16_MAX + ResponseHeaderSize => ParseResponse(d).result /= "NEED_MORE"
<1>1. UINT16_MAX \in Nat /\ UINT16_MAX > 7 /\ Len(d) \in Nat
  BY RadixAssumption DEF UINT16_MAX
<1>2. ASSUME Len(d) >= UINT16_MAX
      PROVE  /\ ~(Len(d) < RequestHeaderSize) /\ ~(Len(d) < ResponseHeaderSize)
             /\ DecodeU16(d, 0) \in 0..UINT16_MAX
  BY <1>1, <1>2, DecodedRange DEF RequestHeaderSize, ResponseHeaderSize
<1>3. ASSUME Len(d) >= UINT16_MAX PROVE ParseRequest(d).result /= "NEED_MORE"
  <2>1. RequestArrived(d)
    BY <1>1, <1>2, <1>3 DEF RequestArrived
  <2> QED
    BY <1>2, <1>3, <2>1 DEF ParseRequest, Invalid, Complete
<1>4. ASSUME Len(d) >= UINT16_MAX + ResponseHeaderSize
      PROVE  ParseResponse(d).result /= "NEED_MORE"
  <2>1. Len(d) >= UINT16_MAX
    BY <1>1, <1>4 DEF ResponseHeaderSize
  <2>2. ~(Len(d) < ResponseSize(d))
    BY <1>1, <1>2, <1>4, <2>1 DEF ResponseSize, ResponseHeaderSize
  <2> QED
    BY <1>2, <2>1, <2>2 DEF ParseResponse, Complete
<1> QED
  BY <1>3, <1>4

(* A full input buffer always holds a decided request: read_client never   *)
(* runs out of room for the rest of one.                                   *)
THEOREM FullBuffer == BytesSpec => []FullBufferDecides
<1>1. BytesTypeOK => FullBufferDecides
  BY LongEnough DEF BytesTypeOK, FullBufferDecides
<1>2. QED
  BY <1>1, Typing, PTL

(* Encoding a decoded number gives its two bytes back. *)
LEMMA ReEncoded ==
  ASSUME NEW a \in Byte, NEW b \in Byte
  PROVE  EncodeU16(Word(a, b)) = <<a, b>>
<1>1. Word(a, b) \div Radix = a /\ Word(a, b) % Radix = b
  BY BytesOfNumber DEF Word
<1>2. a % Radix = a
  BY RadixAssumption DEF Byte
<1>3. QED
  BY <1>1, <1>2, Zenon DEF EncodeU16

(* An accepted request is encoded in the one way the encoder knows. *)
THEOREM RequestUnique == BytesSpec => []RequestCanonical
<1>1. BytesTypeOK => RequestCanonical
  <2> DEFINE size == DecodeU16(data, 0)
             type == DecodeU16(data, 2)
             argument == SubSeq(data, RequestHeaderSize + 1, size)
  <2> SUFFICES ASSUME BytesTypeOK, ParseRequest(data).result = "COMPLETE"
               PROVE  /\ RequestEncodable(ParseRequest(data).type,
                                          ParseRequest(data).argument)
                      /\ SubSeq(data, 1, ParseRequest(data).consumed) =
                           RequestBytes(ParseRequest(data).type,
                                        ParseRequest(data).argument)
    BY Zenon DEF RequestCanonical
  <2>1. data \in Seq(Byte)
    BY DEF BytesTypeOK
  <2>2. /\ ~(Len(data) < RequestHeaderSize) /\ HeaderValid(data)
        /\ RequestArrived(data)
    BY Zenon DEF ParseRequest, NeedMore, Invalid
  <2>3. ParseRequest(data) = Complete(type, data, RequestHeaderSize, size)
    BY <2>2, Zenon DEF ParseRequest
  <2> HIDE DEF size, type, argument
  <2>4. /\ ParseRequest(data).type = type /\ ParseRequest(data).argument = argument
        /\ ParseRequest(data).consumed = size
    <3>1. ParseRequest(data) = [result |-> "COMPLETE", consumed |-> size,
                                type |-> type, argument |-> argument]
      BY <2>3, Zenon DEF Complete, argument
    <3>2. QED
      BY <3>1
  <2>5. /\ size \in 0..UINT16_MAX /\ UINT16_MAX \in Nat
        /\ DecodeU16(data, 4) \in 0..UINT16_MAX
    BY <2>1, <2>2, DecodedRange, RadixAssumption DEF size, RequestHeaderSize, UINT16_MAX
  <2>6. /\ type \in RequestTypes /\ 6 <= size /\ size = 6 + DecodeU16(data, 4)
        /\ size <= Len(data)
    BY <2>2, <2>5 DEF HeaderValid, RequestArrived, RequestHeaderSize, size, type
  <2>7. /\ argument \in Seq(Byte) /\ Len(argument) = size - 6
        /\ \A i \in 1..(size - 6) : argument[i] = data[6 + i]
    BY <2>1, <2>5, <2>6, PartOf DEF argument, RequestHeaderSize
  <2>8. RequestEncodable(type, argument)
    BY <2>5, <2>6, <2>7 DEF RequestEncodable, RequestHeaderSize
  <2>9. SubSeq(data, 1, size) = RequestBytes(type, argument)
    <3> DEFINE l == <<data[1], data[2]>>
               t == <<data[3], data[4]>>
               n == <<data[5], data[6]>>
               f == RequestBytes(type, argument)
               p == SubSeq(data, 1, size)
    <3>1. data[1] \in Byte /\ data[2] \in Byte /\ data[3] \in Byte
          /\ data[4] \in Byte /\ data[5] \in Byte /\ data[6] \in Byte
      BY <2>1, <2>5, <2>6
    <3>2. size = Word(data[1], data[2]) /\ type = Word(data[3], data[4])
          /\ DecodeU16(data, 4) = Word(data[5], data[6])
      BY DecodedWord, Zenon DEF size, type
    <3>3. RequestHeaderSize + Len(argument) = size
          /\ Len(argument) = DecodeU16(data, 4)
      BY <2>5, <2>6, <2>7 DEF RequestHeaderSize
    <3>4. EncodeU16(size) = l /\ EncodeU16(type) = t
          /\ EncodeU16(DecodeU16(data, 4)) = n
      BY <3>1, <3>2, ReEncoded, Zenon
    <3>5. f = InARow(l, t, n, argument)
      BY <3>3, <3>4, Zenon DEF RequestBytes, RequestHeader, InARow
    <3>6. /\ l \in Seq(Byte) /\ Len(l) = 2 /\ l[1] = data[1] /\ l[2] = data[2]
          /\ t \in Seq(Byte) /\ Len(t) = 2 /\ t[1] = data[3] /\ t[2] = data[4]
          /\ n \in Seq(Byte) /\ Len(n) = 2 /\ n[1] = data[5] /\ n[2] = data[6]
      BY <3>1
    <3> HIDE DEF l, t, n, f, p
    <3>7. f \in Seq(Byte) /\ FieldsOf(f, l, t, n, argument)
      BY <2>7, <3>5, <3>6, Fields, Zenon
    <3>8. p \in Seq(Byte) /\ Len(p) = size /\ \A i \in 1..size : p[i] = data[i]
      BY <2>1, <2>5, <2>6, SubSeqProperties DEF p
    <3>9. Len(f) = size
      BY <2>5, <2>6, <2>7, <3>7 DEF FieldsOf
    <3>10. \A i \in 1..6 : f[i] = data[i]
      BY <3>6, <3>7 DEF FieldsOf
    <3>11. ASSUME NEW i \in 1..size, i > 6
           PROVE  f[i] = data[i]
      <4>1. i - 6 \in 1..Len(argument) /\ 6 + (i - 6) = i
        BY <2>5, <2>6, <2>7, <3>11
      <4>2. f[6 + (i - 6)] = argument[i - 6] /\ argument[i - 6] = data[6 + (i - 6)]
        BY <2>5, <2>6, <2>7, <3>7, <4>1 DEF FieldsOf
      <4>3. QED
        BY <4>1, <4>2
    <3>12. \A i \in 1..size : f[i] = data[i]
      BY <2>5, <3>10, <3>11
    <3>13. p = f
      BY <3>7, <3>8, <3>9, <3>12, SameElements
    <3>14. QED
      BY <3>13 DEF p, f
  <2>10. QED
    BY <2>4, <2>8, <2>9
<1>2. QED
  BY <1>1, Typing, PTL

(* A two-byte field and an argument, in a row. *)
LEMMA TwoParts ==
  ASSUME NEW n \in Seq(Byte), Len(n) = 2, NEW argument \in Seq(Byte)
  PROVE  /\ n \o argument \in Seq(Byte) /\ Len(n \o argument) = 2 + Len(argument)
         /\ (n \o argument)[1] = n[1] /\ (n \o argument)[2] = n[2]
         /\ \A i \in 1..Len(argument) : (n \o argument)[2 + i] = argument[i]
<1>1. /\ n \o argument \in Seq(Byte) /\ Len(n \o argument) = Len(n) + Len(argument)
      /\ \A i \in 1..Len(n) : (n \o argument)[i] = n[i]
      /\ \A i \in 1..Len(argument) : (n \o argument)[Len(n) + i] = argument[i]
  BY ConcatParts, Zenon
<1>2. 1 \in 1..Len(n) /\ 2 \in 1..Len(n)
  OBVIOUS
<1> QED
  BY <1>1, <1>2

(* Parsing an encoded response gives its data back, whatever follows:      *)
(* wc_protocol_parse_response undoes wc_protocol_encode_response.          *)
THEOREM ResponseRoundTrip ==
  ASSUME NEW argument \in Seq(Byte), ResponseEncodable(argument), NEW rest \in Seq(Byte)
  PROVE  ParseResponse(ResponseBytes(argument) \o rest) =
           [result |-> "COMPLETE", consumed |-> ResponseHeaderSize + Len(argument),
            type |-> 0, argument |-> argument]
<1> DEFINE n == EncodeU16(Len(argument))
           f == n \o argument
           d == f \o rest
           size == 2 + Len(argument)
<1>1. Len(argument) \in 0..UINT16_MAX
  BY RadixAssumption DEF ResponseEncodable, UINT16_MAX
<1>2. n \in Seq(Byte) /\ Len(n) = 2 /\ Word(n[1], n[2]) = Len(argument)
  BY <1>1, EncodedU16
<1> HIDE DEF n
<1>3. /\ f \in Seq(Byte) /\ Len(f) = size /\ f[1] = n[1] /\ f[2] = n[2]
      /\ \A i \in 1..Len(argument) : f[2 + i] = argument[i]
  BY <1>2, TwoParts
<1>4. ResponseBytes(argument) = f
  BY Zenon DEF ResponseBytes, ResponseHeader, n
<1> HIDE DEF f
<1>5. /\ d \in Seq(Byte) /\ Len(d) = Len(f) + Len(rest) /\ \A i \in 1..Len(f) : d[i] = f[i]
  BY <1>3, ConcatParts, Zenon
<1>6. ResponseBytes(argument) \o rest = d
  BY <1>4
<1> HIDE DEF d
<1>7. /\ d[1] = n[1] /\ d[2] = n[2]
      /\ \A i \in 1..Len(argument) : d[2 + i] = argument[i]
  <2>1. /\ 1 \in 1..Len(f) /\ 2 \in 1..Len(f)
        /\ \A i \in 1..Len(argument) : 2 + i \in 1..Len(f)
    BY <1>3
  <2> QED
    BY <1>3, <1>5, <2>1, Zenon
<1>8. ResponseSize(d) = size
  BY <1>2, <1>7, DecodedWord, Zenon DEF ResponseSize, ResponseHeaderSize
<1>9. size \in Nat /\ 2 <= size /\ size <= Len(d) /\ size - 2 = Len(argument)
  BY <1>3, <1>5
<1> HIDE DEF size
<1>10. SubSeq(d, ResponseHeaderSize + 1, size) = argument
  <2> DEFINE a == SubSeq(d, 2 + 1, size)
  <2>1. a \in Seq(Byte) /\ Len(a) = size - 2 /\ \A i \in 1..(size - 2) : a[i] = d[2 + i]
    BY <1>5, <1>9, PartOf
  <2> HIDE DEF a
  <2>2. a = argument
    BY <1>7, <1>9, <2>1, SameElements
  <2> QED
    BY <2>2, Zenon DEF a, ResponseHeaderSize
<1>11. ~(Len(d) < ResponseHeaderSize) /\ ~(Len(d) < size)
  BY <1>5, <1>9 DEF ResponseHeaderSize
<1>12. ParseResponse(d) = Complete(0, d, ResponseHeaderSize, size)
  BY <1>8, <1>11, Zenon DEF ParseResponse
<1> QED
  BY <1>6, <1>10, <1>12, Zenon DEF Complete, size, ResponseHeaderSize

(* An accepted response is encoded in the one way the encoder knows. *)
LEMMA ResponseAccepted == BytesTypeOK => ResponseCanonical
<1> DEFINE size == ResponseSize(data)
           argument == SubSeq(data, ResponseHeaderSize + 1, size)
<1> SUFFICES ASSUME BytesTypeOK, ParseResponse(data).result = "COMPLETE"
             PROVE  SubSeq(data, 1, ParseResponse(data).consumed) =
                      ResponseBytes(ParseResponse(data).argument)
  BY Zenon DEF ResponseCanonical
<1>1. data \in Seq(Byte)
  BY DEF BytesTypeOK
<1>2. ~(Len(data) < ResponseHeaderSize) /\ ~(Len(data) < size)
  BY Zenon DEF ParseResponse, NeedMore
<1>3. ParseResponse(data) = [result |-> "COMPLETE", consumed |-> size,
                             type |-> 0, argument |-> argument]
  BY <1>2, Zenon DEF ParseResponse, Complete
<1>4. ParseResponse(data).argument = argument /\ ParseResponse(data).consumed = size
  <2> HIDE DEF size, argument
  <2> QED
    BY <1>3
<1>5. data[1] \in Byte /\ data[2] \in Byte
  BY <1>1, <1>2 DEF ResponseHeaderSize
<1>6. DecodeU16(data, 0) \in Nat
  BY <1>1, <1>2, DecodedRange, RadixAssumption DEF ResponseHeaderSize, UINT16_MAX
<1>7. /\ size = 2 + DecodeU16(data, 0) /\ DecodeU16(data, 0) = Word(data[1], data[2])
  BY DecodedWord, Zenon DEF ResponseSize, ResponseHeaderSize
<1> HIDE DEF size
<1>8. size \in Nat /\ 2 <= size /\ size <= Len(data)
  BY <1>1, <1>2, <1>6, <1>7
<1>9. /\ argument \in Seq(Byte) /\ Len(argument) = size - 2
      /\ \A i \in 1..(size - 2) : argument[i] = data[2 + i]
  BY <1>1, <1>8, PartOf DEF ResponseHeaderSize
<1> HIDE DEF argument
<1> DEFINE n == <<data[1], data[2]>>
           f == n \o argument
           p == SubSeq(data, 1, size)
<1>10. EncodeU16(Len(argument)) = n
  <2>1. Len(argument) = DecodeU16(data, 0)
    BY <1>6, <1>7, <1>9
  <2> QED
    BY <1>5, <1>7, <2>1, ReEncoded, Zenon
<1>11. n \in Seq(Byte) /\ Len(n) = 2 /\ n[1] = data[1] /\ n[2] = data[2]
  BY <1>5
<1> HIDE DEF n
<1>12. /\ f \in Seq(Byte) /\ Len(f) = 2 + Len(argument) /\ f[1] = n[1] /\ f[2] = n[2]
       /\ \A i \in 1..Len(argument) : f[2 + i] = argument[i]
  BY <1>9, <1>11, TwoParts
<1>13. ResponseBytes(argument) = f
  BY <1>10, Zenon DEF ResponseBytes, ResponseHeader
<1>14. p \in Seq(Byte) /\ Len(p) = size /\ \A i \in 1..size : p[i] = data[i]
  BY <1>1, <1>8, SubSeqProperties
<1> HIDE DEF f, p
<1>15. ASSUME NEW i \in 1..size PROVE f[i] = data[i]
  <2>1. CASE i > 2
    <3>1. i - 2 \in 1..Len(argument) /\ 2 + (i - 2) = i
      BY <1>8, <1>9, <2>1
    <3>2. f[2 + (i - 2)] = argument[i - 2] /\ argument[i - 2] = data[2 + (i - 2)]
      BY <1>8, <1>9, <1>12, <3>1
    <3> QED
      BY <3>1, <3>2
  <2>2. CASE i = 1 \/ i = 2
    BY <1>11, <1>12, <2>2
  <2> QED
    BY <1>8, <2>1, <2>2
<1>16. p = f
  BY <1>8, <1>9, <1>12, <1>14, <1>15, SameElements
<1> QED
  BY <1>4, <1>13, <1>16, Zenon DEF p

(* A header that is waited for is one the encoder writes. *)
LEMMA WaitsForEncoding == BytesTypeOK => WaitsForValidOnly
<1> DEFINE type == DecodeU16(data, 2)
           n == DecodeU16(data, 4)
           zeros == [i \in 1..n |-> 0]
<1> SUFFICES ASSUME BytesTypeOK, ParseRequest(data).result = "NEED_MORE",
                    Len(data) >= RequestHeaderSize
             PROVE  /\ type \in RequestTypes
                    /\ n \in (Len(data) - RequestHeaderSize + 1)..(UINT16_MAX - RequestHeaderSize)
                    /\ SubSeq(data, 1, RequestHeaderSize) = RequestHeader(type, zeros)
  BY Zenon DEF WaitsForValidOnly
<1>1. data \in Seq(Byte) /\ Len(data) \in Nat /\ Len(data) >= 6
  BY DEF BytesTypeOK, RequestHeaderSize
<1>2. ~(Len(data) < RequestHeaderSize)
  BY <1>1 DEF RequestHeaderSize
<1>3. HeaderValid(data) /\ ~RequestArrived(data)
  BY <1>2, Zenon DEF ParseRequest, Invalid, Complete
<1>4. /\ DecodeU16(data, 0) \in 0..UINT16_MAX /\ type \in 0..UINT16_MAX /\ n \in 0..UINT16_MAX
      /\ UINT16_MAX \in Nat
  BY <1>1, DecodedRange, RadixAssumption DEF UINT16_MAX
<1>5. /\ type \in RequestTypes /\ DecodeU16(data, 0) = 6 + n
      /\ Len(data) < DecodeU16(data, 0)
  BY <1>1, <1>3, <1>4 DEF HeaderValid, RequestArrived, RequestHeaderSize
<1>6. n \in (Len(data) - RequestHeaderSize + 1)..(UINT16_MAX - RequestHeaderSize)
  BY <1>1, <1>4, <1>5 DEF RequestHeaderSize
<1>7. Len(zeros) = n
  <2>1. n \in Nat
    BY <1>4
  <2> HIDE DEF n
  <2> QED
    BY <2>1
<1>8. data[1] \in Byte /\ data[2] \in Byte /\ data[3] \in Byte
      /\ data[4] \in Byte /\ data[5] \in Byte /\ data[6] \in Byte
  BY <1>1
<1> DEFINE l == <<data[1], data[2]>>
           t == <<data[3], data[4]>>
           m == <<data[5], data[6]>>
<1>9. EncodeU16(6 + n) = l /\ EncodeU16(type) = t /\ EncodeU16(n) = m
  BY <1>5, <1>8, DecodedWord, ReEncoded, Zenon
<1>10. RequestHeader(type, zeros) = (l \o t) \o m
  BY <1>7, <1>9, Zenon DEF RequestHeader, RequestHeaderSize
<1>11. /\ l \in Seq(Byte) /\ Len(l) = 2 /\ l[1] = data[1] /\ l[2] = data[2]
       /\ t \in Seq(Byte) /\ Len(t) = 2 /\ t[1] = data[3] /\ t[2] = data[4]
       /\ m \in Seq(Byte) /\ Len(m) = 2 /\ m[1] = data[5] /\ m[2] = data[6]
  BY <1>8
<1> DEFINE h == (l \o t) \o m
           p == SubSeq(data, 1, 6)
<1> HIDE DEF l, t, m
<1>12. h \in Seq(Byte) /\ Len(h) = 6 /\ \A i \in 1..6 : h[i] = data[i]
  <2> DEFINE lt == l \o t
  <2>1. /\ lt \in Seq(Byte) /\ Len(lt) = 2 + Len(t) /\ lt[1] = l[1] /\ lt[2] = l[2]
        /\ \A i \in 1..Len(t) : lt[2 + i] = t[i]
    BY <1>11, TwoParts, Zenon
  <2> HIDE DEF lt
  <2>2. Len(lt) = 4 /\ \A i \in 1..4 : lt[i] = data[i]
    <3>1. lt[3] = t[1] /\ lt[4] = t[2] /\ Len(lt) = 4
      BY <1>11, <2>1
    <3> QED
      BY <1>11, <2>1, <3>1
  <2>3. /\ lt \o m \in Seq(Byte) /\ Len(lt \o m) = Len(lt) + Len(m)
        /\ \A i \in 1..Len(lt) : (lt \o m)[i] = lt[i]
        /\ \A i \in 1..Len(m) : (lt \o m)[Len(lt) + i] = m[i]
    BY <1>11, <2>1, ConcatParts, Zenon
  <2>4. h = lt \o m
    BY DEF lt
  <2> HIDE DEF h
  <2>5. \A i \in 1..4 : h[i] = data[i]
    BY <2>2, <2>3, <2>4, Zenon
  <2>6. Len(h) = 6 /\ h[4 + 1] = m[1] /\ h[4 + 2] = m[2]
    <3>1. 1 \in 1..Len(m) /\ 2 \in 1..Len(m) /\ 4 + 2 = 6
      BY <1>11
    <3> QED
      BY <1>11, <2>2, <2>3, <2>4, <3>1, Zenon
  <2> QED
    BY <1>11, <2>3, <2>4, <2>5, <2>6
<1>13. p \in Seq(Byte) /\ Len(p) = 6 /\ \A i \in 1..6 : p[i] = data[i]
  BY <1>1, SubSeqProperties
<1> HIDE DEF h, p
<1>14. p = h
  BY <1>12, <1>13, SameElements, SMTT(30)
<1> QED
  BY <1>5, <1>6, <1>10, <1>14, Zenon DEF p, h, RequestHeaderSize

(* On any byte string, however long, the parsers take, and the request     *)
(* parser waits for, nothing that an encoder would not write: the format   *)
(* has one encoding of each message and the parsers know no other.         *)
THEOREM NothingButEncodings == BytesSpec => []OnlyEncodings
<1>1. RequestCanonical /\ ResponseCanonical /\ WaitsForValidOnly => OnlyEncodings
  BY DEF OnlyEncodings
<1> QED
  BY <1>1, RequestUnique, ResponseAccepted, WaitsForEncoding, Typing, PTL

------------------------------------------------------------------------------
(* The stream between an encoder and a parser. *)

(* What the encoder of direction d writes for m. *)
Wire(d, m) ==
  IF d = "request" THEN RequestBytes(m.type, m.argument) ELSE ResponseBytes(m.argument)

(* The output without the header of a message that is only begun. *)
Sent == IF encoding = {} THEN output ELSE SubSeq(output, 1, original_length)

(* What was written for each message. *)
Frames == [i \in 1..Len(encoded) |-> Wire(direction, encoded[i])]

(* The bytes s are the frames number p + 1 to n of w, each from where the  *)
(* one before it ends.                                                     *)
Laid(s, p, n, w) ==
  \E off \in [p..n -> 0..Len(s)] :
    /\ off[p] = 0 /\ off[n] = Len(s)
    /\ \A i, j \in p..n : i <= j => off[i] <= off[j]
    /\ \A i \in (p + 1)..n :
         /\ off[i] = off[i - 1] + Len(w[i])
         /\ \A k \in 1..Len(w[i]) : s[off[i - 1] + k] = w[i][k]

(* Nothing is laid out when every frame was taken. *)
LEMMA LaidNone ==
  ASSUME NEW s \in Seq(Byte), NEW n \in Nat, NEW w
  PROVE  Laid(s, n, n, w) <=> s = <<>>
<1>1. ASSUME Laid(s, n, n, w) PROVE s = <<>>
  BY <1>1 DEF Laid
<1>2. ASSUME s = <<>> PROVE Laid(s, n, n, w)
  <2> DEFINE off == [i \in n..n |-> 0]
  <2>1. off \in [n..n -> 0..Len(s)] /\ off[n] = 0 /\ Len(s) = 0
    BY <1>2
  <2>2. /\ \A i, j \in n..n : i <= j => off[i] <= off[j]
        /\ \A i \in (n + 1)..n : FALSE
    BY <2>1
  <2> HIDE DEF off
  <2> QED
    BY <2>1, <2>2, Zenon DEF Laid
<1> QED
  BY <1>1, <1>2

(* The first frame that was not taken is at the front. *)
LEMMA LaidFront ==
  ASSUME NEW s \in Seq(Byte), NEW p \in Nat, NEW n \in Nat, p < n,
         NEW w \in [1..n -> Seq(Byte)], Laid(s, p, n, w)
  PROVE  /\ Len(w[p + 1]) <= Len(s) /\ \A k \in 1..Len(w[p + 1]) : s[k] = w[p + 1][k]
         /\ s = w[p + 1] \o Drop(s, Len(w[p + 1])) /\ Drop(s, Len(w[p + 1])) \in Seq(Byte)
<1> DEFINE f == w[p + 1]
           t == Drop(s, Len(f))
<1>1. f \in Seq(Byte) /\ Len(f) \in Nat /\ Len(s) \in Nat
  OBVIOUS
<1>2. Len(f) <= Len(s) /\ \A k \in 1..Len(f) : s[k] = f[k]
  <2> PICK off \in [p..n -> 0..Len(s)] :
        /\ off[p] = 0
        /\ \A i \in (p + 1)..n :
             /\ off[i] = off[i - 1] + Len(w[i])
             /\ \A k \in 1..Len(w[i]) : s[off[i - 1] + k] = w[i][k]
    BY Zenon DEF Laid
  <2>1. p + 1 \in (p + 1)..n /\ p + 1 \in p..n /\ (p + 1) - 1 = p
    OBVIOUS
  <2>2. off[p + 1] = 0 + Len(f) /\ \A k \in 1..Len(f) : s[0 + k] = f[k]
    BY <2>1
  <2> HIDE DEF f
  <2> QED
    BY <1>1, <2>1, <2>2
<1> HIDE DEF f
<1>3. t \in Seq(Byte) /\ Len(t) = Len(s) - Len(f) /\ \A k \in 1..Len(t) : t[k] = s[Len(f) + k]
  BY <1>1, <1>2, PartOf DEF Drop
<1> HIDE DEF t
<1> DEFINE g == f \o t
<1>4. /\ g \in Seq(Byte) /\ Len(g) = Len(f) + Len(t)
      /\ \A i \in 1..Len(f) : g[i] = f[i]
      /\ \A i \in 1..Len(t) : g[Len(f) + i] = t[i]
  BY <1>1, <1>3, ConcatParts, Zenon
<1> HIDE DEF g
<1>5. ASSUME NEW k \in 1..Len(s) PROVE s[k] = g[k]
  <2>1. CASE k <= Len(f)
    BY <1>1, <1>2, <1>4, <2>1
  <2>2. CASE k > Len(f)
    <3>1. k - Len(f) \in 1..Len(t) /\ Len(f) + (k - Len(f)) = k
      BY <1>1, <1>3, <2>2
    <3> QED
      BY <1>3, <1>4, <3>1, Zenon
  <2> QED
    BY <1>1, <2>1, <2>2
<1>6. Len(s) = Len(g)
  BY <1>1, <1>2, <1>3, <1>4
<1>7. s = g
  BY <1>4, <1>5, <1>6, SameElements
<1> QED
  BY <1>2, <1>3, <1>7, Zenon DEF f, t, g

(* Taking it leaves the others. *)
LEMMA LaidTake ==
  ASSUME NEW s \in Seq(Byte), NEW p \in Nat, NEW n \in Nat, p < n,
         NEW w \in [1..n -> Seq(Byte)], Laid(s, p, n, w)
  PROVE  Laid(Drop(s, Len(w[p + 1])), p + 1, n, w)
<1> DEFINE size == Len(w[p + 1])
           t == Drop(s, size)
<1>1. PICK off \in [p..n -> 0..Len(s)] :
        /\ off[p] = 0 /\ off[n] = Len(s)
        /\ \A i, j \in p..n : i <= j => off[i] <= off[j]
        /\ \A i \in (p + 1)..n :
             /\ off[i] = off[i - 1] + Len(w[i])
             /\ \A k \in 1..Len(w[i]) : s[off[i - 1] + k] = w[i][k]
  BY Zenon DEF Laid
<1>2. size \in Nat /\ size <= Len(s) /\ Len(s) \in Nat
  <2>1. size \in Nat /\ Len(s) \in Nat
    OBVIOUS
  <2> QED
    BY <2>1, LaidFront, Zenon
<1>3. off[p + 1] = size
  <2>1. p + 1 \in (p + 1)..n /\ (p + 1) - 1 = p
    OBVIOUS
  <2>2. off[p + 1] = 0 + size
    BY <1>1, <2>1
  <2> QED
    BY <1>2, <2>2
<1> HIDE DEF size
<1>4. t \in Seq(Byte) /\ Len(t) = Len(s) - size /\ \A k \in 1..(Len(s) - size) : t[k] = s[size + k]
  BY <1>2, PartOf DEF Drop
<1> HIDE DEF t
<1> DEFINE new == [i \in (p + 1)..n |-> off[i] - size]
<1>5. ASSUME NEW i \in (p + 1)..n PROVE off[i] \in Nat /\ size <= off[i] /\ off[i] <= Len(s)
  BY <1>1, <1>2, <1>3
<1>6. new \in [(p + 1)..n -> 0..Len(t)]
  BY <1>2, <1>4, <1>5
<1>7. new[p + 1] = 0 /\ new[n] = Len(t)
  <2>1. new[p + 1] = off[p + 1] - size /\ new[n] = off[n] - size
    OBVIOUS
  <2> HIDE DEF new
  <2> QED
    BY <1>1, <1>2, <1>3, <1>4, <2>1
<1>8. \A i, j \in (p + 1)..n : i <= j => new[i] <= new[j]
  <2> SUFFICES ASSUME NEW i \in (p + 1)..n, NEW j \in (p + 1)..n, i <= j
               PROVE  off[i] - size <= off[j] - size
    OBVIOUS
  <2>1. off[i] <= off[j]
    BY <1>1
  <2> QED
    BY <1>2, <1>5, <2>1
<1>9. ASSUME NEW i \in (p + 2)..n
      PROVE  /\ new[i] = new[i - 1] + Len(w[i])
             /\ \A k \in 1..Len(w[i]) : t[new[i - 1] + k] = w[i][k]
  <2>1. i \in (p + 1)..n /\ i - 1 \in (p + 1)..n /\ Len(w[i]) \in Nat
    OBVIOUS
  <2>2. /\ off[i] = off[i - 1] + Len(w[i])
        /\ \A k \in 1..Len(w[i]) : s[off[i - 1] + k] = w[i][k]
    BY <1>1, <2>1, Zenon
  <2>3. /\ new[i] = off[i] - size /\ new[i - 1] = off[i - 1] - size
        /\ off[i] \in Nat /\ size <= off[i] /\ off[i] <= Len(s)
        /\ off[i - 1] \in Nat /\ size <= off[i - 1]
    BY <1>5, <2>1
  <2> HIDE DEF new
  <2>4. new[i] = new[i - 1] + Len(w[i])
    BY <1>2, <2>1, <2>2, <2>3
  <2>5. ASSUME NEW k \in 1..Len(w[i]) PROVE t[new[i - 1] + k] = w[i][k]
    <3> DEFINE a == new[i - 1]
               b == off[i - 1]
               length == Len(w[i])
               total == Len(s)
    <3>1. /\ a = b - size /\ b + length <= total /\ b \in Nat /\ size <= b /\ length \in Nat
          /\ size \in Nat /\ total \in Nat /\ k \in 1..length
      BY <1>2, <2>1, <2>2, <2>3
    <3> HIDE DEF a, b, length, total
    <3>2. a + k \in 1..(total - size) /\ size + (a + k) = b + k
      BY <3>1
    <3> QED
      BY <1>4, <2>2, <3>2, Zenon DEF a, b, total
  <2> QED
    BY <2>4, <2>5
<1> HIDE DEF new
<1>10. (p + 1) + 1 = p + 2
  OBVIOUS
<1> QED
  BY <1>6, <1>7, <1>8, <1>9, <1>10, Zenon DEF Laid, t, size

(* One more frame is laid out behind the others. *)
LEMMA LaidAppend ==
  ASSUME NEW s \in Seq(Byte), NEW p \in Nat, NEW n \in Nat, p <= n,
         NEW w \in [1..n -> Seq(Byte)], NEW w2 \in [1..(n + 1) -> Seq(Byte)],
         \A i \in 1..n : w2[i] = w[i], Laid(s, p, n, w)
  PROVE  Laid(s \o w2[n + 1], p, n + 1, w2)
<1> DEFINE x == w2[n + 1]
           g == s \o x
           total == Len(s)
           size == Len(x)
<1>1. PICK off \in [p..n -> 0..total] :
        /\ off[p] = 0 /\ off[n] = total
        /\ \A i, j \in p..n : i <= j => off[i] <= off[j]
        /\ \A i \in (p + 1)..n :
             /\ off[i] = off[i - 1] + Len(w[i])
             /\ \A k \in 1..Len(w[i]) : s[off[i - 1] + k] = w[i][k]
  BY Zenon DEF Laid
<1>2. x \in Seq(Byte) /\ size \in Nat /\ total \in Nat
  OBVIOUS
<1> HIDE DEF x
<1>3. /\ g \in Seq(Byte) /\ Len(g) = total + size
      /\ \A i \in 1..total : g[i] = s[i]
      /\ \A i \in 1..size : g[total + i] = x[i]
  BY <1>2, ConcatParts, Zenon
<1> HIDE DEF g, total, size
<1> DEFINE new == [i \in p..(n + 1) |-> IF i = n + 1 THEN total + size ELSE off[i]]
<1>4. new \in [p..(n + 1) -> 0..Len(g)]
  BY <1>1, <1>2, <1>3
<1>5. /\ new[n + 1] = Len(g) /\ \A i \in p..n : new[i] = off[i]
  BY <1>2, <1>3
<1> HIDE DEF new
<1>6. new[p] = 0
  BY <1>1, <1>5
<1>7. \A i, j \in p..(n + 1) : i <= j => new[i] <= new[j]
  <2> SUFFICES ASSUME NEW i \in p..(n + 1), NEW j \in p..(n + 1), i <= j
               PROVE  new[i] <= new[j]
    OBVIOUS
  <2>1. CASE j = n + 1
    BY <1>2, <1>3, <1>4, <1>5, <2>1
  <2>2. CASE j /= n + 1
    <3>1. i \in p..n /\ j \in p..n
      BY <2>2
    <3> QED
      BY <1>1, <1>5, <3>1, Zenon
  <2> QED
    BY <2>1, <2>2
<1>8. ASSUME NEW i \in (p + 1)..(n + 1)
      PROVE  /\ new[i] = new[i - 1] + Len(w2[i])
             /\ \A k \in 1..Len(w2[i]) : g[new[i - 1] + k] = w2[i][k]
  <2>1. CASE i = n + 1
    <3>1. new[i - 1] = total /\ w2[i] = x
      BY <1>1, <1>5, <2>1 DEF x
    <3> QED
      BY <1>2, <1>3, <1>5, <2>1, <3>1 DEF size
  <2>2. CASE i /= n + 1
    <3>1. i \in (p + 1)..n /\ i \in p..n /\ i - 1 \in p..n /\ i \in 1..n
      BY <2>2
    <3>2. /\ new[i] = off[i] /\ new[i - 1] = off[i - 1] /\ w2[i] = w[i]
          /\ off[i] = off[i - 1] + Len(w[i])
          /\ \A k \in 1..Len(w[i]) : s[off[i - 1] + k] = w[i][k]
      BY <1>1, <1>5, <3>1, Zenon
    <3>3. off[i] \in 0..total /\ off[i - 1] \in 0..total /\ Len(w[i]) \in Nat
      BY <1>1, <3>1
    <3> DEFINE a == off[i - 1]
               b == off[i]
               length == Len(w[i])
    <3>4. a \in 0..total /\ b \in 0..total /\ length \in Nat /\ b = a + length
      BY <3>2, <3>3
    <3> HIDE DEF a, b, length
    <3>5. \A k \in 1..length : a + k \in 1..total
      BY <1>2, <3>4
    <3>6. \A k \in 1..Len(w[i]) : off[i - 1] + k \in 1..total
      BY <3>5 DEF a, length
    <3> QED
      BY <1>3, <3>2, <3>6, Zenon
  <2> QED
    BY <2>1, <2>2
<1> QED
  BY <1>4, <1>5, <1>6, <1>7, <1>8, Zenon DEF Laid, g, x

(* Concatenation is associative. *)
LEMMA Associative == \A a, b, c \in Seq(Byte) : (a \o b) \o c = a \o (b \o c)
  BY ConcatAssociative

(* Cutting a sequence and putting it together again. *)
LEMMA Cut ==
  ASSUME NEW a \in Seq(Byte), NEW n \in 0..Len(a)
  PROVE  /\ SubSeq(a, 1, n) \in Seq(Byte) /\ Drop(a, n) \in Seq(Byte)
         /\ SubSeq(a, 1, n) \o Drop(a, n) = a
<1>1. n \in Nat /\ Len(a) \in Nat /\ 0 \in Nat /\ 0 <= n /\ n <= Len(a) /\ 0 + 1 = 1
  OBVIOUS
<1>2. SubSeq(a, 0 + 1, n) \in Seq(Byte) /\ Drop(a, n) \in Seq(Byte)
  BY <1>1, PartOf DEF Drop
<1>3. 1 \in 1..(Len(a) + 1) /\ n \in (1 - 1)..Len(a) /\ Len(a) \in n..Len(a)
  BY <1>1
<1>4. SubSeq(a, 1, n) \o SubSeq(a, n + 1, Len(a)) = SubSeq(a, 1, Len(a))
  BY <1>3, ConcatAdjacentSubSeq, Zenon
<1>5. SubSeq(a, 1, Len(a)) = a
  BY SubSeqFull
<1> QED
  BY <1>1, <1>2, <1>4, <1>5, Zenon DEF Drop

(* The front of a concatenation, and the rest of it behind a part. *)
LEMMA CutConcat ==
  ASSUME NEW a \in Seq(Byte), NEW b \in Seq(Byte)
  PROVE  /\ SubSeq(a \o b, 1, Len(a)) = a
         /\ \A n \in 0..Len(a) : Drop(a, n) \o b = Drop(a \o b, n)
<1> DEFINE g == a \o b
<1>1. /\ g \in Seq(Byte) /\ Len(g) = Len(a) + Len(b)
      /\ \A i \in 1..Len(a) : g[i] = a[i]
      /\ \A i \in 1..Len(b) : g[Len(a) + i] = b[i]
  BY ConcatParts, Zenon
<1>2. Len(a) \in Nat /\ Len(b) \in Nat
  OBVIOUS
<1> HIDE DEF g
<1>3. SubSeq(g, 1, Len(a)) = a
  <2> DEFINE c == SubSeq(g, 0 + 1, Len(a))
  <2>1. c \in Seq(Byte) /\ Len(c) = Len(a) - 0 /\ \A i \in 1..(Len(a) - 0) : c[i] = g[0 + i]
    BY <1>1, <1>2, PartOf
  <2>2. c = SubSeq(g, 1, Len(a))
    OBVIOUS
  <2> HIDE DEF c
  <2>3. c = a
    BY <1>1, <1>2, <2>1, SameElements
  <2> QED
    BY <2>2, <2>3
<1>4. ASSUME NEW n \in 0..Len(a) PROVE Drop(a, n) \o b = Drop(g, n)
  <2> DEFINE c == Drop(a, n)
             d == Drop(g, n)
             h == c \o b
  <2>1. /\ c \in Seq(Byte) /\ Len(c) = Len(a) - n
        /\ \A i \in 1..(Len(a) - n) : c[i] = a[n + i]
    BY <1>2, PartOf DEF Drop
  <2>2. /\ d \in Seq(Byte) /\ Len(d) = Len(g) - n
        /\ \A i \in 1..(Len(g) - n) : d[i] = g[n + i]
    BY <1>1, <1>2, PartOf DEF Drop
  <2> HIDE DEF c, d
  <2>3. /\ h \in Seq(Byte) /\ Len(h) = Len(c) + Len(b)
        /\ \A i \in 1..Len(c) : h[i] = c[i]
        /\ \A i \in 1..Len(b) : h[Len(c) + i] = b[i]
    BY <2>1, ConcatParts, Zenon
  <2> HIDE DEF h
  <2>4. Len(h) = Len(d)
    BY <1>1, <1>2, <2>1, <2>2, <2>3
  <2>5. ASSUME NEW i \in 1..Len(h) PROVE h[i] = d[i]
    <3>1. i \in 1..(Len(g) - n) /\ d[i] = g[n + i]
      BY <1>1, <1>2, <2>1, <2>2, <2>3
    <3>2. CASE i <= Len(a) - n
      <4>1. i \in 1..Len(c) /\ i \in 1..(Len(a) - n) /\ n + i \in 1..Len(a)
        BY <1>2, <2>1, <3>2
      <4> QED
        BY <1>1, <2>1, <2>3, <3>1, <4>1, Zenon
    <3>3. CASE i > Len(a) - n
      <4> DEFINE j == i - (Len(a) - n)
      <4>1. j \in 1..Len(b) /\ Len(c) + j = i /\ Len(a) + j = n + i
        BY <1>1, <1>2, <2>1, <2>3, <3>3
      <4> HIDE DEF j
      <4> QED
        BY <1>1, <2>3, <3>1, <4>1
    <3> QED
      BY <1>2, <3>2, <3>3
  <2>6. h = d
    BY <2>2, <2>3, <2>4, <2>5, SameElements
  <2> QED
    BY <2>6 DEF h, c, d
<1> QED
  BY <1>3, <1>4 DEF g

(* What an encoder writes for a message it accepts is a header and the     *)
(* argument, and the parser of the same direction gives the message back.  *)
LEMMA WireFacts ==
  ASSUME NEW m \in Messages, Encodable(m)
  PROVE  /\ Header(m) \in Seq(Byte) /\ m.argument \in Seq(Byte)
         /\ Wire(direction, m) \in Seq(Byte)
         /\ Wire(direction, m) = Header(m) \o m.argument
         /\ m = [type |-> m.type, argument |-> m.argument]
         /\ \A rest \in Seq(Byte) :
              Parsed(Wire(direction, m) \o rest) =
                [result |-> "COMPLETE", consumed |-> Len(Wire(direction, m)),
                 type |-> m.type, argument |-> m.argument]
<1>1. UINT16_MAX \in Nat /\ UINT16_MAX > 7
  BY RadixAssumption DEF UINT16_MAX
<1>2. CASE direction = "request"
  <2>1. /\ m \in [type : Int, argument : Seq(Byte)] /\ RequestEncodable(m.type, m.argument)
        /\ Header(m) = RequestHeader(m.type, m.argument)
        /\ Wire(direction, m) = RequestBytes(m.type, m.argument)
    BY <1>2, MessageAssumption DEF Messages, Encodable, Header, Wire
  <2>2. m.argument \in Seq(Byte) /\ m = [type |-> m.type, argument |-> m.argument]
    BY <2>1
  <2>3. /\ RequestBytes(m.type, m.argument) \in Seq(Byte)
        /\ Len(RequestBytes(m.type, m.argument)) = 6 + Len(m.argument)
    BY <2>1, <2>2, RequestLayout, EmptySeq
  <2>4. RequestHeader(m.type, m.argument) \in Seq(Byte)
    <3>1. /\ 6 + Len(m.argument) \in 0..UINT16_MAX /\ m.type \in 0..UINT16_MAX
          /\ Len(m.argument) \in 0..UINT16_MAX
      BY <1>1, <2>1, <2>2 DEF RequestEncodable, RequestTypes, RequestHeaderSize
    <3>2. /\ EncodeU16(6 + Len(m.argument)) \in Seq(Byte) /\ EncodeU16(m.type) \in Seq(Byte)
          /\ EncodeU16(Len(m.argument)) \in Seq(Byte)
      BY <3>1, EncodedU16
    <3> QED
      BY <3>2, ConcatParts, Zenon DEF RequestHeader, RequestHeaderSize
  <2>5. ASSUME NEW rest \in Seq(Byte)
        PROVE  Parsed(Wire(direction, m) \o rest) =
                 [result |-> "COMPLETE", consumed |-> Len(Wire(direction, m)),
                  type |-> m.type, argument |-> m.argument]
    BY <1>2, <2>1, <2>2, <2>3, RequestRoundTrip, Zenon DEF Parsed, RequestHeaderSize
  <2> QED
    BY <2>1, <2>2, <2>3, <2>4, <2>5, Zenon DEF RequestBytes
<1>3. CASE direction /= "request"
  <2>1. /\ m \in [type : {0}, argument : Seq(Byte)] /\ ResponseEncodable(m.argument)
        /\ Header(m) = ResponseHeader(m.argument)
        /\ Wire(direction, m) = ResponseBytes(m.argument)
    BY <1>3, MessageAssumption DEF Messages, Encodable, Header, Wire
  <2>2. /\ m.argument \in Seq(Byte) /\ m = [type |-> m.type, argument |-> m.argument]
        /\ m.type = 0
    BY <2>1
  <2>3. ResponseHeader(m.argument) \in Seq(Byte) /\ Len(ResponseHeader(m.argument)) = 2
    <3>1. Len(m.argument) \in 0..UINT16_MAX
      BY <1>1, <2>1, <2>2 DEF ResponseEncodable
    <3> QED
      BY <3>1, EncodedU16, Zenon DEF ResponseHeader
  <2>4. /\ ResponseBytes(m.argument) \in Seq(Byte)
        /\ Len(ResponseBytes(m.argument)) = 2 + Len(m.argument)
    BY <2>2, <2>3, TwoParts, Zenon DEF ResponseBytes
  <2>5. ASSUME NEW rest \in Seq(Byte)
        PROVE  Parsed(Wire(direction, m) \o rest) =
                 [result |-> "COMPLETE", consumed |-> Len(Wire(direction, m)),
                  type |-> m.type, argument |-> m.argument]
    BY <1>3, <2>1, <2>2, <2>4, ResponseRoundTrip, Zenon DEF Parsed, ResponseHeaderSize
  <2> QED
    BY <2>1, <2>2, <2>3, <2>4, <2>5, Zenon DEF ResponseBytes
<1> QED
  BY <1>2, <1>3

(* What is known of one message that is being encoded. *)
Begun ==
  \/ encoding = {} /\ original_length = 0
  \/ \E m \in Messages :
       /\ encoding = {m} /\ Encodable(m) /\ original_length \in 0..Len(output)
       /\ output = SubSeq(output, 1, original_length) \o Header(m)

(* What was parsed is the beginning of what was encoded. *)
InStep ==
  /\ encoded \in Seq(Messages) /\ \A i \in 1..Len(encoded) : Encodable(encoded[i])
  /\ parsed \in Seq(Messages) /\ Len(parsed) <= Len(encoded)
  /\ \A i \in 1..Len(parsed) : parsed[i] = encoded[i]

(* The inductive invariant of the stream: the bytes the receiver has not   *)
(* parsed and those the sender has not sent are, put together, what was    *)
(* written for the messages that were encoded and not parsed yet.          *)
StreamInv ==
  /\ input \in Seq(Byte) /\ output \in Seq(Byte) /\ ~rejected
  /\ Begun /\ InStep
  /\ Laid(input \o Sent, Len(parsed), Len(encoded), Frames)

(* Nothing is known of the stream but its bytes and its messages. *)
LEMMA StreamTypes ==
  ASSUME StreamInv
  PROVE  /\ Sent \in Seq(Byte) /\ input \o Sent \in Seq(Byte)
         /\ Len(parsed) \in Nat /\ Len(encoded) \in Nat
         /\ Frames \in [1..Len(encoded) -> Seq(Byte)]
<1>1. Sent \in Seq(Byte)
  <2>1. CASE encoding = {}
    BY <2>1 DEF StreamInv, Sent
  <2>2. CASE encoding /= {}
    <3>1. original_length \in 0..Len(output) /\ output \in Seq(Byte)
      BY <2>2, Zenon DEF StreamInv, Begun
    <3> QED
      BY <2>2, <3>1, Cut, Zenon DEF Sent
  <2> QED
    BY <2>1, <2>2
<1>2. input \o Sent \in Seq(Byte)
  BY <1>1, ConcatParts, Zenon DEF StreamInv
<1>3. Len(parsed) \in Nat /\ Len(encoded) \in Nat
  BY DEF StreamInv, InStep
<1>4. ASSUME NEW i \in 1..Len(encoded) PROVE Wire(direction, encoded[i]) \in Seq(Byte)
  <2>1. encoded[i] \in Messages /\ Encodable(encoded[i])
    BY DEF StreamInv, InStep
  <2> QED
    BY <2>1, WireFacts
<1>5. Frames \in [1..Len(encoded) -> Seq(Byte)]
  BY <1>4, Zenon DEF Frames
<1> QED
  BY <1>1, <1>2, <1>3, <1>5

(* A step that leaves the messages and the bytes on the way alone. *)
LEMMA SameStream ==
  ASSUME StreamInv, direction' = direction, encoded' = encoded, parsed' = parsed,
         rejected' = rejected, input' \in Seq(Byte), output' \in Seq(Byte), Begun',
         (input \o Sent)' = input \o Sent
  PROVE  StreamInv'
<1>1. InStep' /\ Frames' = Frames
  BY Zenon DEF StreamInv, InStep, Frames, Messages, Encodable
<1>2. ~rejected /\ Laid(input \o Sent, Len(parsed), Len(encoded), Frames)
  BY DEF StreamInv
<1>3. Laid((input \o Sent)', Len(parsed'), Len(encoded'), Frames')
  BY <1>1, <1>2, Zenon
<1> QED
  BY <1>1, <1>2, <1>3, Zenon DEF StreamInv

(* The header of a message is not sent before its argument is there. *)
LEMMA HeaderStep ==
  ASSUME StreamInv, NEW m \in Messages, EncodeHeader(m)
  PROVE  StreamInv'
<1>1. /\ encoding = {} /\ Encodable(m) /\ output' = output \o Header(m) /\ encoding' = {m}
      /\ original_length' = Len(output)
      /\ UNCHANGED <<direction, input, encoded, parsed, rejected>>
      /\ output \in Seq(Byte) /\ input \in Seq(Byte) /\ Len(output) \in Nat
  BY DEF EncodeHeader, StreamInv
<1>2. Header(m) \in Seq(Byte)
  BY <1>1, WireFacts
<1>3. /\ output' \in Seq(Byte) /\ Len(output') = Len(output) + Len(Header(m))
      /\ SubSeq(output', 1, Len(output)) = output
  BY <1>1, <1>2, ConcatParts, CutConcat, Zenon
<1>4. Sent = output /\ Sent' = output
  BY <1>1, <1>3, Zenon DEF Sent
<1>5. Header(m)' = Header(m) /\ Encodable(m)' /\ m \in Messages'
  BY <1>1, Zenon DEF Header, Encodable, Messages
<1>6. original_length' \in 0..Len(output')
  BY <1>1, <1>2, <1>3
<1>7. Begun'
  BY <1>1, <1>3, <1>5, <1>6, Zenon DEF Begun
<1> QED
  BY <1>1, <1>3, <1>4, <1>7, SameStream, Zenon

(* An encoding that fails leaves the output as it was before. *)
LEMMA FailsStep ==
  ASSUME StreamInv, NEW m \in Messages, EncodeFails(m)
  PROVE  StreamInv'
<1>1. /\ encoding /= {} /\ output' = SubSeq(output, 1, original_length)
      /\ encoding' = {} /\ original_length' = 0
      /\ UNCHANGED <<direction, input, encoded, parsed, rejected>>
      /\ input \in Seq(Byte)
  BY DEF EncodeFails, Restored, StreamInv
<1>2. Sent = output' /\ Sent' = output'
  BY <1>1, Zenon DEF Sent
<1>3. output' \in Seq(Byte)
  BY <1>2, StreamTypes
<1>4. Begun'
  BY <1>1 DEF Begun
<1> QED
  BY <1>1, <1>2, <1>3, <1>4, SameStream, Zenon

(* Bytes that are carried over stay in their order. *)
LEMMA TransferStep ==
  ASSUME StreamInv, NEW n \in Nat, Transfer(n)
  PROVE  StreamInv'
<1> DEFINE a == SubSeq(output, 1, n)
           b == Drop(output, n)
<1>1. /\ encoding = {} /\ original_length = 0 /\ n <= Len(output)
      /\ input' = input \o a /\ output' = b
      /\ UNCHANGED <<direction, encoding, original_length, encoded, parsed, rejected>>
      /\ input \in Seq(Byte) /\ output \in Seq(Byte)
  BY DEF Transfer, StreamInv, Begun
<1>2. n \in 0..Len(output)
  BY <1>1
<1>3. a \in Seq(Byte) /\ b \in Seq(Byte) /\ a \o b = output
  BY <1>1, <1>2, Cut, Zenon
<1> HIDE DEF a, b
<1>4. input' \in Seq(Byte) /\ output' \in Seq(Byte)
  BY <1>1, <1>3, ConcatParts, Zenon
<1>5. (input \o a) \o b = input \o (a \o b)
  BY <1>1, <1>3, Associative, Zenon
<1>6. Sent = output /\ Sent' = b
  BY <1>1, Zenon DEF Sent
<1>7. (input \o Sent)' = input \o Sent
  BY <1>1, <1>3, <1>5, <1>6, Zenon
<1>8. Begun'
  BY <1>1 DEF Begun
<1> QED
  BY <1>1, <1>4, <1>7, <1>8, SameStream, Zenon

(* An encoded message is on the way whole, behind the others. *)
LEMMA ArgumentStep ==
  ASSUME StreamInv, NEW m \in Messages, EncodeArgument(m)
  PROVE  StreamInv'
<1> DEFINE h == Header(m)
           x == Wire(direction, m)
           n == Len(encoded)
<1>1. /\ encoding = {m} /\ Encodable(m) /\ output = SubSeq(output, 1, original_length) \o h
      /\ output' = output \o m.argument /\ encoded' = Append(encoded, m)
      /\ encoding' = {} /\ original_length' = 0
      /\ UNCHANGED <<direction, input, parsed, rejected>>
      /\ input \in Seq(Byte) /\ output \in Seq(Byte) /\ ~rejected
  BY Zenon DEF EncodeArgument, StreamInv, Begun
<1>2. /\ h \in Seq(Byte) /\ m.argument \in Seq(Byte) /\ x \in Seq(Byte)
      /\ x = h \o m.argument
  BY <1>1, WireFacts, Zenon
<1>3. /\ Sent \in Seq(Byte) /\ input \o Sent \in Seq(Byte)
      /\ Len(parsed) \in Nat /\ n \in Nat /\ Frames \in [1..n -> Seq(Byte)]
  BY StreamTypes, Zenon
<1>4. Sent = SubSeq(output, 1, original_length) /\ Sent' = output \o m.argument
  BY <1>1, Zenon DEF Sent
<1> HIDE DEF h, x
<1>5. Sent' = Sent \o x
  <2>1. Sent \in Seq(Byte) /\ h \in Seq(Byte) /\ m.argument \in Seq(Byte)
    BY <1>2, <1>3
  <2>2. (Sent \o h) \o m.argument = Sent \o (h \o m.argument)
    BY <2>1, Associative, Zenon
  <2> QED
    BY <1>1, <1>2, <1>4, <2>2, Zenon
<1>6. (input \o Sent)' = (input \o Sent) \o x
  <2>1. input \in Seq(Byte) /\ Sent \in Seq(Byte) /\ x \in Seq(Byte)
    BY <1>1, <1>2, <1>3
  <2>2. (input \o Sent) \o x = input \o (Sent \o x)
    BY <2>1, Associative, Zenon
  <2> QED
    BY <1>1, <1>5, <2>2, Zenon
<1>7. /\ encoded \in Seq(Messages) /\ \A i \in 1..n : Encodable(encoded[i])
      /\ parsed \in Seq(Messages) /\ Len(parsed) <= n
      /\ \A i \in 1..Len(parsed) : parsed[i] = encoded[i]
  BY DEF StreamInv, InStep
<1>8. /\ encoded' \in Seq(Messages) /\ Len(encoded') = n + 1 /\ encoded'[n + 1] = m
      /\ \A i \in 1..n : encoded'[i] = encoded[i]
  BY <1>1, <1>7
<1>9. Messages' = Messages /\ \A e : Encodable(e)' = Encodable(e)
  BY <1>1, Zenon DEF Messages, Encodable
<1> HIDE DEF n
<1>10. InStep'
  <2>1. \A i \in 1..(n + 1) : Encodable(encoded'[i])
    BY <1>1, <1>3, <1>7, <1>8
  <2>2. Len(parsed) <= n + 1 /\ \A i \in 1..Len(parsed) : parsed[i] = encoded'[i]
    BY <1>3, <1>7, <1>8
  <2> QED
    BY <1>1, <1>7, <1>8, <1>9, <2>1, <2>2, Zenon DEF InStep
<1>11. /\ Frames' = [i \in 1..(n + 1) |-> Wire(direction, encoded'[i])]
       /\ Frames = [i \in 1..n |-> Wire(direction, encoded[i])]
  BY <1>1, <1>8, Zenon DEF Frames, n
<1>12. /\ Frames' \in [1..(n + 1) -> Seq(Byte)] /\ Frames'[n + 1] = x
       /\ \A i \in 1..n : Frames'[i] = Frames[i]
  <2>1. n + 1 \in 1..(n + 1) /\ \A i \in 1..n : i \in 1..(n + 1)
    BY <1>3
  <2>2. Frames'[n + 1] = x /\ \A i \in 1..n : Frames'[i] = Frames[i]
    BY <1>8, <1>11, <2>1, Zenon DEF x
  <2>3. ASSUME NEW i \in 1..(n + 1) PROVE Wire(direction, encoded'[i]) \in Seq(Byte)
    <3>1. encoded'[i] \in Messages /\ Encodable(encoded'[i])
      BY <1>1, <1>3, <1>7, <1>8
    <3> QED
      BY <3>1, WireFacts
  <2> QED
    BY <1>11, <2>2, <2>3, Zenon
<1>13. Laid((input \o Sent) \o Frames'[n + 1], Len(parsed), n + 1, Frames')
  BY <1>3, <1>7, <1>12, LaidAppend, Zenon DEF StreamInv, n
<1>14. Begun' /\ output' \in Seq(Byte)
  BY <1>1, <1>2, ConcatParts, Zenon DEF Begun
<1> QED
  BY <1>1, <1>6, <1>8, <1>10, <1>12, <1>13, <1>14, Zenon DEF StreamInv

(* As long as not all messages were parsed, the parser finds the next one  *)
(* at the front of the stream.                                             *)
LEMMA NextUnparsed ==
  ASSUME StreamInv, Len(parsed) < Len(encoded)
  PROVE  LET m == encoded[Len(parsed) + 1]
         IN  /\ m \in Messages /\ m = [type |-> m.type, argument |-> m.argument]
             /\ Parsed(input \o Sent) =
                  [result |-> "COMPLETE", consumed |-> Len(Frames[Len(parsed) + 1]),
                   type |-> m.type, argument |-> m.argument]
<1> DEFINE p == Len(parsed)
           n == Len(encoded)
           s == input \o Sent
           m == encoded[p + 1]
<1>1. /\ s \in Seq(Byte) /\ p \in Nat /\ n \in Nat /\ Frames \in [1..n -> Seq(Byte)]
      /\ Laid(s, p, n, Frames) /\ p < n
  BY StreamTypes, Zenon DEF StreamInv
<1>2. p + 1 \in 1..n
  BY <1>1
<1>3. m \in Messages /\ Encodable(m) /\ Frames[p + 1] = Wire(direction, m)
  BY <1>2 DEF StreamInv, InStep, Frames
<1> HIDE DEF p, n, s, m
<1> DEFINE f == Frames[p + 1]
           rest == Drop(s, Len(f))
<1>4. s = f \o rest /\ rest \in Seq(Byte)
  BY <1>1, LaidFront, Zenon
<1> HIDE DEF f, rest
<1>5. /\ m = [type |-> m.type, argument |-> m.argument]
      /\ Parsed(f \o rest) = [result |-> "COMPLETE", consumed |-> Len(f),
                              type |-> m.type, argument |-> m.argument]
  <2>1. f = Wire(direction, m)
    BY <1>3 DEF f
  <2>2. /\ m = [type |-> m.type, argument |-> m.argument]
        /\ \A r \in Seq(Byte) :
             Parsed(Wire(direction, m) \o r) =
               [result |-> "COMPLETE", consumed |-> Len(Wire(direction, m)),
                type |-> m.type, argument |-> m.argument]
    BY <1>3, WireFacts, Zenon
  <2> QED
    BY <1>4, <2>1, <2>2, Zenon
<1> QED
  BY <1>3, <1>4, <1>5, Zenon DEF p, n, s, m, f

(* Nothing is parsed that was not encoded. *)
LEMMA NothingMore ==
  ASSUME StreamInv, Parsed(input \o Sent).result /= "NEED_MORE"
  PROVE  Len(parsed) < Len(encoded)
<1> DEFINE p == Len(parsed)
           n == Len(encoded)
           s == input \o Sent
<1>1. /\ s \in Seq(Byte) /\ p \in Nat /\ n \in Nat /\ Laid(s, p, n, Frames) /\ p <= n
  BY StreamTypes, Zenon DEF StreamInv, InStep
<1>2. ASSUME p = n PROVE FALSE
  <2>1. s = <<>>
    BY <1>1, <1>2, LaidNone, Zenon
  <2>2. Parsed(<<>>) = NeedMore
    BY DEF Parsed, ParseRequest, ParseResponse, RequestHeaderSize, ResponseHeaderSize
  <2>3. NeedMore.result = "NEED_MORE"
    BY DEF NeedMore
  <2> QED
    BY <2>1, <2>2, <2>3, Zenon
<1> QED
  BY <1>1, <1>2

(* A parser decides about the front of the stream, and takes no more than  *)
(* there is.                                                               *)
LEMMA DecidedFront ==
  ASSUME NEW a \in Seq(Byte), NEW b \in Seq(Byte), Parsed(a).result /= "NEED_MORE"
  PROVE  Parsed(a \o b) = Parsed(a)
<1> DEFINE g == a \o b
<1>1. /\ g \in Seq(Byte) /\ Len(g) = Len(a) + Len(b) /\ \A i \in 1..Len(a) : g[i] = a[i]
  BY ConcatParts, Zenon
<1> HIDE DEF g
<1>2. Len(a) <= Len(g)
  BY <1>1
<1>3. Parsed(g) = Parsed(a)
  BY <1>1, <1>2, RequestExtends, ResponseExtends, Zenon DEF Parsed
<1> QED
  BY <1>3 DEF g

(* No parser takes more than there is. *)
LEMMA Consumed ==
  ASSUME NEW a \in Seq(Byte), Parsed(a).result = "COMPLETE"
  PROVE  Parsed(a).consumed \in 0..Len(a)
<1>1. UINT16_MAX \in Nat /\ Len(a) \in Nat
  BY RadixAssumption DEF UINT16_MAX
<1>2. CASE direction = "request"
  <2>1. Parsed(a) = ParseRequest(a)
    BY <1>2 DEF Parsed
  <2>2. ~(Len(a) < RequestHeaderSize) /\ RequestArrived(a)
    <3>1. NeedMore.result /= "COMPLETE" /\ Invalid.result /= "COMPLETE"
      BY DEF NeedMore, Invalid
    <3> QED
      BY <2>1, <3>1, Zenon DEF ParseRequest
  <2>3. Parsed(a).consumed = DecodeU16(a, 0)
    BY <2>1, <2>2 DEF ParseRequest, Complete, Invalid
  <2>4. DecodeU16(a, 0) \in 0..UINT16_MAX
    BY <1>1, <2>2, DecodedRange DEF RequestHeaderSize
  <2> QED
    BY <1>1, <2>2, <2>3, <2>4 DEF RequestArrived
<1>3. CASE direction /= "request"
  <2>1. Parsed(a) = ParseResponse(a)
    BY <1>3 DEF Parsed
  <2>2. ~(Len(a) < ResponseHeaderSize) /\ ~(Len(a) < ResponseSize(a))
    <3>1. NeedMore.result /= "COMPLETE"
      BY DEF NeedMore
    <3> QED
      BY <2>1, <3>1, Zenon DEF ParseResponse
  <2>3. Parsed(a).consumed = ResponseSize(a)
    BY <2>1, <2>2 DEF ParseResponse, Complete
  <2>4. DecodeU16(a, 0) \in 0..UINT16_MAX
    BY <1>1, <2>2, DecodedRange DEF ResponseHeaderSize
  <2>5. ResponseSize(a) \in Nat
    BY <1>1, <2>4 DEF ResponseSize, ResponseHeaderSize
  <2> QED
    BY <1>1, <2>2, <2>3, <2>5
<1> QED
  BY <1>2, <1>3

(* The parser takes the next message from the stream, and the others stay. *)
LEMMA ParseStep ==
  ASSUME StreamInv, Parse
  PROVE  StreamInv'
<1> DEFINE s == input \o Sent
           p == Len(parsed)
           n == Len(encoded)
           f == Frames[p + 1]
           size == Len(f)
           m == encoded[p + 1]
<1>1. /\ input \in Seq(Byte) /\ output \in Seq(Byte) /\ ~rejected /\ Begun
      /\ Parsed(input).result /= "NEED_MORE"
      /\ UNCHANGED <<direction, output, encoding, original_length, encoded>>
  BY DEF StreamInv, Parse
<1>2. /\ Sent \in Seq(Byte) /\ s \in Seq(Byte) /\ p \in Nat /\ n \in Nat
      /\ Frames \in [1..n -> Seq(Byte)] /\ Laid(s, p, n, Frames)
  BY StreamTypes, Zenon DEF StreamInv
<1>3. Parsed(input \o Sent) = Parsed(input) /\ Parsed(input \o Sent).result /= "NEED_MORE"
  BY <1>1, <1>2, DecidedFront, Zenon
<1>4. /\ p < n /\ m \in Messages
      /\ m = [type |-> m.type, argument |-> m.argument]
      /\ Parsed(input) = [result |-> "COMPLETE", consumed |-> size,
                          type |-> m.type, argument |-> m.argument]
  <2>1. p < n
    BY <1>3, NothingMore, Zenon
  <2> QED
    BY <1>3, <2>1, NextUnparsed, Zenon
<1>5. /\ Parsed(input).result = "COMPLETE" /\ Parsed(input).consumed = size
      /\ [type |-> Parsed(input).type, argument |-> Parsed(input).argument] = m
  <2> HIDE DEF m, size
  <2> QED
    BY <1>4
<1>6. size \in 0..Len(input)
  BY <1>1, <1>5, Consumed
<1>7. parsed' = Append(parsed, m) /\ input' = Drop(input, size) /\ rejected' = rejected
  BY <1>5, Zenon DEF Parse
<1>8. Sent' = Sent
  BY <1>1, Zenon DEF Sent
<1> HIDE DEF size, m
<1>9. input' \in Seq(Byte)
  BY <1>1, <1>6, <1>7, Cut
<1>10. (input \o Sent)' = Drop(s, size)
  BY <1>1, <1>2, <1>6, <1>7, <1>8, CutConcat, Zenon
<1>11. Laid(Drop(s, size), p + 1, n, Frames)
  <2> HIDE DEF s, p, n
  <2> QED
    BY <1>2, <1>4, LaidTake, Zenon DEF size
<1>12. /\ encoded \in Seq(Messages) /\ \A i \in 1..n : Encodable(encoded[i])
       /\ parsed \in Seq(Messages) /\ \A i \in 1..p : parsed[i] = encoded[i]
  BY DEF StreamInv, InStep
<1>13. /\ parsed' \in Seq(Messages) /\ Len(parsed') = p + 1
       /\ parsed'[p + 1] = m /\ \A i \in 1..p : parsed'[i] = parsed[i]
  BY <1>4, <1>7, <1>12
<1>14. Messages' = Messages /\ Frames' = Frames /\ \A e : Encodable(e)' = Encodable(e)
  BY <1>1, Zenon DEF Messages, Encodable, Frames
<1>15. InStep'
  <2>1. p + 1 <= n /\ \A i \in 1..(p + 1) : parsed'[i] = encoded[i]
    BY <1>2, <1>4, <1>12, <1>13 DEF m
  <2> QED
    BY <1>1, <1>12, <1>13, <1>14, <2>1, Zenon DEF InStep
<1>16. Begun'
  BY <1>1, Zenon DEF Begun, Messages, Encodable, Header
<1>17. Laid((input \o Sent)', Len(parsed'), Len(encoded'), Frames')
  BY <1>1, <1>10, <1>11, <1>13, <1>14, Zenon
<1> QED
  BY <1>1, <1>7, <1>9, <1>15, <1>16, <1>17, Zenon DEF StreamInv

(* The stream keeps its invariant. *)
LEMMA StreamInvariant == Spec => []StreamInv
<1>1. ASSUME Init PROVE StreamInv
  <2>1. /\ output = <<>> /\ input = <<>> /\ encoding = {} /\ original_length = 0 /\ ~rejected
        /\ encoded = <<>> /\ parsed = <<>>
    BY <1>1 DEF Init
  <2>2. Begun /\ InStep
    BY <2>1 DEF Begun, InStep
  <2>3. /\ input \o Sent = <<>> /\ Len(parsed) = 0 /\ Len(encoded) = 0
        /\ <<>> \in Seq(Byte) /\ 0 \in Nat
    BY <2>1 DEF Sent
  <2>4. Laid(<<>>, 0, 0, Frames)
    BY <2>3, LaidNone, Zenon
  <2> QED
    BY <2>1, <2>2, <2>3, <2>4, Zenon DEF StreamInv
<1>2. ASSUME StreamInv, [Next]_vars PROVE StreamInv'
  <2>1. CASE UNCHANGED <<direction, stream>>
    <3>1. Begun' /\ Sent' = Sent
      BY <1>2, <2>1, Zenon DEF StreamInv, stream, Begun, Messages, Encodable, Header, Sent
    <3> QED
      BY <1>2, <2>1, <3>1, SameStream, Zenon DEF StreamInv, stream
  <2>2. ASSUME NEW m \in Messages, EncodeHeader(m) \/ EncodeArgument(m) \/ EncodeFails(m)
        PROVE  StreamInv'
    BY <1>2, <2>2, HeaderStep, ArgumentStep, FailsStep, Zenon
  <2>3. ASSUME NEW k \in 1..InputLimit, Transfer(k) PROVE StreamInv'
    <3>1. k \in Nat
      BY RadixAssumption DEF InputLimit, UINT16_MAX, ResponseHeaderSize
    <3> QED
      BY <1>2, <2>3, <3>1, TransferStep, Zenon
  <2>4. CASE Parse
    BY <1>2, <2>4, ParseStep, Zenon
  <2> QED
    BY <1>2, <2>1, <2>2, <2>3, <2>4, Zenon DEF Next, vars
<1> QED
  BY <1>1, <1>2, PTL DEF Spec

(* Bytes that come from no encoder are the bytes of BytesSpec, so what is  *)
(* proved of BytesSpec above also holds of Spec.                           *)
LEMMA BytesOfStream == Spec => BytesSpec
<1>1. Init => BytesInit
  BY DEF Init
<1>2. [Next]_vars => [BytesNext]_data
  BY Zenon DEF Next, vars
<1> QED
  BY <1>1, <1>2, PTL DEF Spec, BytesSpec

(* Whatever is encoded, however the bytes are cut and coalesced on their   *)
(* way and whichever allocation fails, the receiver parses the messages    *)
(* unchanged and in order, rejects none, is left with nothing half-read    *)
(* when all bytes have come, and has room for the rest of a message it     *)
(* waits for.                                                              *)
THEOREM StreamDeliveredAlways == Spec => []StreamDelivered
<1>1. ASSUME StreamInv PROVE StreamDelivered
  <2> DEFINE p == Len(parsed)
             n == Len(encoded)
  <2>1. /\ input \in Seq(Byte) /\ ~rejected /\ p <= n
        /\ encoded \in Seq(Messages) /\ parsed \in Seq(Messages)
        /\ \A i \in 1..p : parsed[i] = encoded[i]
    BY <1>1 DEF StreamInv, InStep
  <2>2. p \in Nat /\ n \in Nat
    BY <2>1
  <2>3. parsed = SubSeq(encoded, 1, p)
    <3> DEFINE b == SubSeq(encoded, 1, p)
    <3>1. \A i \in 1..p : encoded[i] \in Messages
      BY <2>1, <2>2
    <3>2. b \in Seq(Messages) /\ Len(b) = p /\ \A i \in 1..p : b[i] = encoded[i]
      BY <2>2, <3>1, SubSeqProperties
    <3> HIDE DEF b
    <3>3. parsed = b
      BY <2>1, <3>2, SeqEqual
    <3> QED
      BY <3>3 DEF b
  <2>4. StreamPreserved
    BY <2>1, <2>3, Zenon DEF StreamPreserved
  <2>5. ASSUME output = <<>>, encoding = {}, Parsed(input).result = "NEED_MORE"
        PROVE  input = <<>> /\ parsed = encoded
    <3>1. input \o Sent = input
      BY <2>1, <2>5 DEF Sent
    <3>2. Laid(input, p, n, Frames) /\ Frames \in [1..n -> Seq(Byte)]
      BY <1>1, <3>1, StreamTypes, Zenon DEF StreamInv
    <3>3. ASSUME p < n PROVE FALSE
      BY <1>1, <2>5, <3>1, <3>2, <3>3, NextUnparsed
    <3>4. p = n
      BY <2>1, <2>2, <3>3
    <3>5. input = <<>>
      BY <2>1, <2>2, <3>2, <3>4, LaidNone
    <3>6. parsed = encoded
      BY <2>1, <3>4, SeqEqual
    <3> QED
      BY <3>5, <3>6
  <2>6. RoomToFinish
    <3>1. UINT16_MAX \in Nat
      BY RadixAssumption DEF UINT16_MAX
    <3>2. CASE direction = "request"
      BY <2>1, <3>1, <3>2, LongEnough DEF RoomToFinish, Parsed, InputLimit
    <3>3. CASE direction /= "request"
      BY <2>1, <3>1, <3>3, LongEnough DEF RoomToFinish, Parsed, InputLimit, ResponseHeaderSize
    <3> QED
      BY <3>2, <3>3
  <2> QED
    BY <2>4, <2>5, <2>6, Zenon DEF StreamDelivered, StreamDrained
<1> QED
  BY <1>1, StreamInvariant, PTL
==============================================================================
