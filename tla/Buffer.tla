-------------------------------- MODULE Buffer --------------------------------
(***************************************************************************)
(* The bounded byte buffer of src/src/buffer.c.  The allocation is a       *)
(* function from offsets to bytes, longer than what the buffer holds, so   *)
(* that bytes beyond length are what earlier calls left there.  The loop   *)
(* of wc_buffer_grow is a step each time round, over size_t numbers that   *)
(* wrap at SizeMax.                                                        *)
(***************************************************************************)
EXTENDS Integers, Sequences

CONSTANTS
  Byte,             \* values of a byte
  SizeMax,          \* SIZE_MAX
  InitialCapacity,  \* WC_BUFFER_INITIAL_CAPACITY
  Limits,           \* values of max_size passed to wc_buffer_init
  Chunks            \* byte sequences passed to wc_buffer_append

ASSUME CapacityAssumption ==
  /\ SizeMax \in Nat /\ InitialCapacity \in 1..SizeMax /\ Limits \subseteq 0..SizeMax
ASSUME ByteAssumption == Byte /= {} /\ Chunks \subseteq Seq(Byte)

VARIABLES
  data,          \* the allocation: offset -> byte
  length,
  capacity,
  max_size,
  call,          \* "idle" or "grow": between calls, or in wc_buffer_grow
  chunk,         \* the argument of the append in progress
  new_capacity   \* local of wc_buffer_grow

buffer == <<data, length, capacity, max_size>>
buffer_vars == <<buffer, call, chunk, new_capacity>>

(* Arithmetic on size_t. *)
SizeT(n) == n % (SizeMax + 1)

Offsets(size) == 0..(size - 1)
NoAllocation == [i \in Offsets(0) |-> 0]

(* What a buffer holds: the first length bytes of its allocation. *)
Contents == [i \in 1..length |-> data[i - 1]]

(* Mutant: the allocation has the required size, not the new capacity. *)
Copied_exact(allocation, size, bytes) ==
  [i \in Offsets(length + Len(bytes)) |->
     IF i < length THEN allocation[i] ELSE bytes[i - length + 1]]

(* memcpy behind the length: the rest of the allocation keeps its bytes. *)
Copied(allocation, size, bytes) ==
  [i \in Offsets(size) |->
     IF i < length \/ i >= length + Len(bytes) THEN allocation[i]
     ELSE bytes[i - length + 1]]

Fits(bytes) == Len(bytes) <= SizeT(max_size - length)

Required(bytes) == SizeT(length + Len(bytes))

(* wc_buffer_append with room in the allocation. *)
AppendInPlace(bytes) ==
  /\ call = "idle" /\ Len(bytes) > 0 /\ Fits(bytes)
  /\ Required(bytes) <= capacity
  /\ data' = Copied(data, capacity, bytes)
  /\ length' = Required(bytes)
  /\ UNCHANGED <<capacity, max_size, call, chunk, new_capacity>>

(* Mutant: the initial capacity is not cut to the limit. *)
FirstCapacity_uncut == IF capacity = 0 THEN InitialCapacity ELSE capacity

FirstCapacity ==
  LET c == IF capacity = 0 THEN InitialCapacity ELSE capacity
  IN  IF c > max_size THEN max_size ELSE c

(* wc_buffer_append calls wc_buffer_grow, up to its loop. *)
AppendGrows(bytes) ==
  /\ call = "idle" /\ Len(bytes) > 0 /\ Fits(bytes)
  /\ Required(bytes) > capacity
  /\ call' = "grow" /\ chunk' = bytes
  /\ new_capacity' = FirstCapacity
  /\ UNCHANGED buffer

(* Mutant: the capacity is doubled whatever the limit. *)
Doubled_always == SizeT(2 * new_capacity)

Doubled ==
  IF new_capacity > max_size \div 2 THEN max_size
  ELSE SizeT(2 * new_capacity)

GrowLoop ==
  /\ call = "grow" /\ new_capacity < Required(chunk)
  /\ new_capacity' = Doubled
  /\ UNCHANGED <<buffer, call, chunk>>

(* realloc keeps the old bytes; the new ones can be anything. *)
Reallocate ==
  /\ call = "grow" /\ new_capacity >= Required(chunk)
  /\ \E junk \in Byte :
       data' = Copied([i \in Offsets(new_capacity) |->
                         IF i < capacity THEN data[i] ELSE junk],
                      new_capacity, chunk)
  /\ capacity' = new_capacity
  /\ length' = Required(chunk)
  /\ call' = "idle" /\ chunk' = <<>> /\ new_capacity' = 0
  /\ UNCHANGED max_size

ReallocateFails ==
  /\ call = "grow" /\ new_capacity >= Required(chunk)
  /\ call' = "idle" /\ chunk' = <<>> /\ new_capacity' = 0
  /\ UNCHANGED buffer

(* Mutant: what is moved is what was consumed. *)
Moved_size(n) ==
  [i \in Offsets(capacity) |-> IF i < n THEN data[(i + n) % capacity] ELSE data[i]]

(* memmove to the front. *)
Moved(n) ==
  [i \in Offsets(capacity) |-> IF i < length - n THEN data[i + n] ELSE data[i]]

(* wc_buffer_consume *)
ConsumeBytes(n) ==
  /\ call = "idle" /\ n <= length
  /\ data' = Moved(n)
  /\ length' = length - n
  /\ UNCHANGED <<capacity, max_size, call, chunk, new_capacity>>

(* wc_buffer_destroy *)
Destroy ==
  /\ call = "idle"
  /\ data' = NoAllocation /\ length' = 0 /\ capacity' = 0 /\ max_size' = 0
  /\ UNCHANGED <<call, chunk, new_capacity>>

(* wc_buffer_init, on a buffer that holds no allocation. *)
Initialize(limit) ==
  /\ call = "idle" /\ capacity = 0
  /\ data' = NoAllocation /\ length' = 0 /\ capacity' = 0 /\ max_size' = limit
  /\ UNCHANGED <<call, chunk, new_capacity>>

BufferInit ==
  /\ data = NoAllocation /\ length = 0 /\ capacity = 0 /\ max_size \in Limits
  /\ call = "idle" /\ chunk = <<>> /\ new_capacity = 0

Grow == GrowLoop \/ Reallocate \/ ReallocateFails

BufferNext ==
  \/ \E bytes \in Chunks : AppendInPlace(bytes) \/ AppendGrows(bytes)
  \/ Grow
  \/ \E n \in 1..length : ConsumeBytes(n)
  \/ Destroy
  \/ \E limit \in Limits : Initialize(limit)

BufferSpec == BufferInit /\ [][BufferNext]_buffer_vars

(* A call that was made goes on: nothing in wc_buffer_grow blocks. *)
FairBufferSpec == BufferSpec /\ WF_buffer_vars(Grow)

------------------------------------------------------------------------------
(* Every field is a number of its width and the allocation is as long as   *)
(* capacity says.                                                          *)
TypeOK ==
  /\ length \in 0..SizeMax /\ capacity \in 0..SizeMax /\ max_size \in 0..SizeMax
  /\ data \in [Offsets(capacity) -> Byte]
  /\ call \in {"idle", "grow"} /\ chunk \in Seq(Byte) /\ new_capacity \in 0..SizeMax

(* "Capacity doubles [...] but never exceeds max_size", and the buffer     *)
(* never claims more bytes than it has memory for.                         *)
CapacityBounded == length <= capacity /\ capacity <= max_size

(* The loop of wc_buffer_grow ends: doubling neither overflows nor stops   *)
(* growing below what is required.                                         *)
GrowEnds == call = "grow" ~> call = "idle"

(* wc_buffer_grow comes to an end, and within the limits.                  *)
GrowsWithinLimits == [](TypeOK /\ CapacityBounded) /\ GrowEnds

Fifo == INSTANCE ByteFifo WITH contents <- Contents, limit <- max_size

(* Growing, moving and stale bytes are invisible: the buffer is the byte   *)
(* queue of its header file, and a failed append leaves it as it was.      *)
IsByteFifo == Fifo!Spec
==============================================================================
