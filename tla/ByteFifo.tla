------------------------------ MODULE ByteFifo ------------------------------
(***************************************************************************)
(* What include/vmc/core/ringbuf.h promises of the ring buffer: a bounded  *)
(* first-in first-out queue of bytes.  A write keeps the prefix that fits, *)
(* a read, a peek or a discard takes at most what is stored, and every     *)
(* call returns the number of bytes it moved.                              *)
(***************************************************************************)
EXTENDS Naturals, Sequences

CONSTANTS Bytes,     \* the byte values told apart
          Capacity,  \* bytes the queue can hold
          MaxLen     \* longest request of the callers considered

VARIABLES q,    \* the stored bytes, oldest first
          out,  \* bytes handed out by the last call (<<>> if none)
          ret   \* return value of the last call

vars == <<q, out, ret>>

Requests == UNION {[1..n -> Bytes] : n \in 0..MaxLen}

AtMost(n, m) == IF n < m THEN n ELSE m

Init == q = <<>> /\ out = <<>> /\ ret = 0

Write(s) ==
  LET n == AtMost(Len(s), Capacity - Len(q))
  IN  /\ q' = q \o SubSeq(s, 1, n)
      /\ out' = <<>>
      /\ ret' = n

Read(len) ==
  LET n == AtMost(len, Len(q))
  IN  /\ q' = SubSeq(q, n + 1, Len(q))
      /\ out' = SubSeq(q, 1, n)
      /\ ret' = n

Peek(len) ==
  LET n == AtMost(len, Len(q))
  IN  /\ UNCHANGED q
      /\ out' = SubSeq(q, 1, n)
      /\ ret' = n

Discard(len) ==
  LET n == AtMost(len, Len(q))
  IN  /\ q' = SubSeq(q, n + 1, Len(q))
      /\ out' = <<>>
      /\ ret' = n

Reset == q' = <<>> /\ out' = <<>> /\ ret' = 0

Next ==
  \/ \E s \in Requests : Write(s)
  \/ \E len \in 0..MaxLen : Read(len) \/ Peek(len) \/ Discard(len)
  \/ Reset

Spec == Init /\ [][Next]_vars
=============================================================================
