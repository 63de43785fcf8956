------------------------------ MODULE Fragment ------------------------------
(***************************************************************************)
(* src/video/fragment.c: the access-unit assembler.  A chunk is identified *)
(* by the datagram that carried it; the buffer is the sequence of chunks   *)
(* appended so far and its capacity is counted in chunks.                  *)
(***************************************************************************)
EXTENDS Naturals, Sequences

CONSTANT AuCap  \* chunks that fit the access-unit buffer (VMC_VIDEO_AU_MAX)

VARIABLES asm,  \* [started, frame_id, next_index, buf]
          au    \* the access unit completed last, as its chunks

fragVars == <<asm, au>>

vmc_frag_init ==
  /\ asm = [started |-> FALSE, frame_id |-> 0, next_index |-> 0, buf |-> <<>>]
  /\ au = <<>>

\* The assembly a chunk of frame fid belongs to: the current one, or a new one.
Assembly(fid) ==
  IF ~asm.started \/ fid # asm.frame_id
    THEN [started |-> TRUE, frame_id |-> fid, next_index |-> 0, buf |-> <<>>]
    ELSE asm

FeedUnchecked(fid, index, last, chunk) ==
  LET a    == Assembly(fid)
      next == [started |-> ~last, frame_id |-> a.frame_id, next_index |-> index + 1,
               buf |-> Append(a.buf, chunk)]
  IN  IF Len(a.buf) >= AuCap
        THEN asm' = [a EXCEPT !.started = FALSE] /\ UNCHANGED au
        ELSE asm' = next /\ au' = IF last THEN next.buf ELSE au

\* vmc_frag_feed: a wrong index or a full buffer abandons the frame.
vmc_frag_feed(fid, index, last, chunk) ==
  LET a    == Assembly(fid)
      next == [started |-> ~last, frame_id |-> a.frame_id, next_index |-> index + 1,
               buf |-> Append(a.buf, chunk)]
  IN  IF index # a.next_index \/ Len(a.buf) >= AuCap
        THEN asm' = [a EXCEPT !.started = FALSE] /\ UNCHANGED au
        ELSE asm' = next /\ au' = IF last THEN next.buf ELSE au
=============================================================================
