------------------------------- MODULE RingBuf -------------------------------
(***************************************************************************)
(* src/core/ringbuf.c: the byte ring that carries decoded PCM from the     *)
(* receive/reader thread to the audio worker (always under g_audio_mu, so  *)
(* each call is one step here).                                            *)
(*                                                                         *)
(* head and tail are free-running size_t offsets: they are masked only     *)
(* when the storage is indexed and they wrap at SizeMod = 2^w.             *)
(***************************************************************************)
EXTENDS Integers, Sequences

CONSTANTS Bytes,     \* the byte values told apart
          Capacity,  \* a power of two (vmc_ringbuf_init rejects others)
          SizeMod,   \* size_t arithmetic is modulo SizeMod
          MaxLen     \* longest request of the callers considered

\* vmc_ringbuf_init's is_pow2_or_zero check on the capacity makes it divide
\* the size_t modulus, the fact the masking of wrapped offsets rests on.
ASSUME CapacityAssumption ==
  /\ Capacity \in Nat \ {0} /\ SizeMod \in Nat \ {0} /\ MaxLen \in Nat
  /\ SizeMod % Capacity = 0 /\ Capacity < SizeMod

VARIABLES data, head, tail, count,
          out,  \* bytes the last call copied to its caller
          ret   \* return value of the last call

ringVars == <<data, head, tail, count, out, ret>>

Requests == UNION {[1..n -> Bytes] : n \in 0..MaxLen}

rb_mask(idx) == idx % Capacity

AtMost(n, m) == IF n < m THEN n ELSE m

rb_free == Capacity - count

\* memcpy(&d[at], s, Len(s)) and memcpy(out, &data[at], n)
CopyIn(d, at, s) ==
  [i \in DOMAIN d |->
     IF at <= i /\ i < at + Len(s) THEN s[i - at + 1] ELSE d[i]]
CopyOut(at, n) == [i \in 1..n |-> data[at + i - 1]]

\* The one or two memcpys of a transfer of len bytes at offset off: n1 bytes
\* up to the end of the storage, the rest from its start.
FirstPart(off, len) == AtMost(len, Capacity - rb_mask(off))

WriteData(s, len) ==
  LET n1 == FirstPart(head, len)
  IN  CopyIn(CopyIn(data, rb_mask(head), SubSeq(s, 1, n1)),
             0, SubSeq(s, n1 + 1, len))

ReadData(len) ==
  LET n1 == FirstPart(tail, len)
  IN  CopyOut(rb_mask(tail), n1) \o CopyOut(0, len - n1)

RingTypeOK ==
  /\ data \in [0..Capacity-1 -> Bytes]
  /\ head \in 0..SizeMod-1 /\ tail \in 0..SizeMod-1
  /\ count \in 0..Capacity
  /\ out \in Seq(Bytes) /\ ret \in 0..MaxLen

\* The storage is the caller's memory: any contents.
vmc_ringbuf_init ==
  /\ data \in [0..Capacity-1 -> Bytes]
  /\ head = 0 /\ tail = 0 /\ count = 0
  /\ out = <<>> /\ ret = 0

UnclampedWrite(s) ==
  /\ data' = WriteData(s, Len(s))
  /\ head' = (head + Len(s)) % SizeMod
  /\ count' = count + Len(s)
  /\ out' = <<>> /\ ret' = Len(s)
  /\ UNCHANGED tail

vmc_ringbuf_write(s) ==
  LET len == AtMost(Len(s), rb_free)
  IN  /\ data' = WriteData(s, len)
      /\ head' = (head + len) % SizeMod
      /\ count' = count + len
      /\ out' = <<>> /\ ret' = len
      /\ UNCHANGED tail

UnwrappedRead(n) ==
  LET len == AtMost(n, count)
      n1  == FirstPart(tail, len)
  IN  /\ out' = CopyOut(rb_mask(tail), n1) \o CopyOut(rb_mask(tail), len - n1)
      /\ tail' = (tail + len) % SizeMod
      /\ count' = count - len
      /\ ret' = len
      /\ UNCHANGED <<data, head>>

vmc_ringbuf_read(n) ==
  LET len == AtMost(n, count)
  IN  /\ out' = ReadData(len)
      /\ tail' = (tail + len) % SizeMod
      /\ count' = count - len
      /\ ret' = len
      /\ UNCHANGED <<data, head>>

vmc_ringbuf_peek(n) ==
  LET len == AtMost(n, count)
  IN  /\ out' = ReadData(len)
      /\ ret' = len
      /\ UNCHANGED <<data, head, tail, count>>

vmc_ringbuf_discard(n) ==
  LET len == AtMost(n, count)
  IN  /\ tail' = (tail + len) % SizeMod
      /\ count' = count - len
      /\ out' = <<>> /\ ret' = len
      /\ UNCHANGED <<data, head>>

vmc_ringbuf_reset ==
  /\ head' = 0 /\ tail' = 0 /\ count' = 0
  /\ out' = <<>> /\ ret' = 0
  /\ UNCHANGED data

RingNext ==
  \/ \E s \in Requests : vmc_ringbuf_write(s)
  \/ \E n \in 0..MaxLen : vmc_ringbuf_read(n)
  \/ \E n \in 0..MaxLen : vmc_ringbuf_peek(n)
  \/ \E n \in 0..MaxLen : vmc_ringbuf_discard(n)
  \/ vmc_ringbuf_reset

RingSpec == vmc_ringbuf_init /\ [][RingNext]_ringVars

-----------------------------------------------------------------------------
\* The redundant state of the ring agrees: `count`, which every bound check
\* uses, is the distance from tail to head even after the size_t offsets
\* have wrapped at SizeMod (ringbuf.c adds to the three independently).
CountIsDistance == (head - tail) % SizeMod = count

\* The bytes in the ring, oldest first.
Contents == [i \in 1..count |-> data[rb_mask(tail + i - 1)]]

Fifo == INSTANCE ByteFifo WITH q <- Contents

\* The masked, wrapping, two-memcpy ring implements the bounded FIFO of
\* ringbuf.h: no byte is lost, duplicated, reordered or invented, in any
\* sequence of writes, reads, peeks, discards and resets.
ImplementsFifo == Fifo!Spec
=============================================================================
