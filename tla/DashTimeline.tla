---------------------------- MODULE DashTimeline ----------------------------
(***************************************************************************)
(* The presentation timeline of the DASH client (apps/thinclient/main.c):  *)
(* the anchor (g_anchor_wall_us, g_anchor_seg) that the reader sets on the *)
(* first segment, the audio worker moves when playback starts and the main *)
(* thread's reader watchdog overwrites; the deadlines computed from it;    *)
(* and the shift of the deadlines already handed out.  Uses the slot pool  *)
(* of FrameSlots.                                                          *)
(*                                                                         *)
(* Time is counted in frame periods and only the instants at which it is   *)
(* read matter.  The live updates of the ALSA delay after the start and a  *)
(* server restart's reset of the audio clock are not modelled.             *)
(***************************************************************************)
EXTENDS FrameSlots, Sequences

CONSTANTS MaxFrames, SegLen,  \* frames of the stream, frames per segment
          FirstSeg,           \* number of the first segment fetched
          Playout,            \* g_playout_latency_us
          Margin,             \* the 500000 us of g_eos_end_wall_us
          Prefill,            \* VMC_AUDIO_PREFILL_US
          Delays,             \* ALSA delays at the start of playback
          Origin,             \* wall clock at the start, far from 0
          MaxTicks,           \* periods the model runs for (bound)
          MaxRestarts         \* reader restarts by the watchdog (bound)

ASSUME TimelineAssumption ==
  /\ SegLen \in Nat \ {0} /\ MaxFrames \in Nat /\ MaxFrames % SegLen = 0
  /\ FirstSeg \in Nat \ {0}
  /\ Playout \in Nat /\ Margin \in Nat /\ Prefill \in Nat /\ Playout < Prefill
  /\ Origin \in Nat /\ Origin > Prefill
  /\ Delays \subseteq Nat \ {0} /\ MaxTicks \in Nat /\ MaxRestarts \in Nat

VARIABLES now,
          anchor,   \* [wall, seg], g_anchor_wall_us and g_anchor_seg
          astart,   \* g_audio_start_wall_us
          adelay,   \* g_audio_delay_us
          ready,    \* g_first_video_ready
          rd,       \* reader: [pc, frame, deadline, slot]
          rs,       \* dash_resync in each of its callers:
                    \* [pc, next, old, delta]
          dw,       \* decode worker: [slot, deadline], slot -1 when idle
          pend,     \* the picture being converted: [frame, deadline], or none
          pq,       \* present queue: [frame, deadline]
          history,  \* frame -> the clock and the anchor segment its deadline was
                    \* computed from, how often it was shifted, and whether
                    \* a shift was cut off at 0
          restarts,
          eos       \* g_eos_end_wall_us, 0 while g_eos_reached is false

vars == <<slotVars, now, anchor, astart, adelay, ready, rd, rs, dw, pend, pq, history, restarts, eos>>

NoAnchor == [wall |-> 0, seg |-> 0]
NoFrame == [frame |-> 0, deadline |-> 0]
Idle == [slot |-> -1, deadline |-> 0]
Resyncers == {"reader", "audio", "main"}
Frames == 1..MaxFrames

Init ==
  /\ SlotsInit
  /\ now = Origin /\ anchor = NoAnchor
  /\ astart = 0 /\ adelay = 0 /\ ready = FALSE
  /\ rd = [pc |-> "open", frame |-> 1, deadline |-> 0, slot |-> -1]
  /\ rs = [p \in Resyncers |-> [pc |-> "idle", next |-> 0, old |-> NoAnchor, delta |-> 0]]
  /\ dw = Idle /\ pend = NoFrame /\ pq = <<>>
  /\ history = [f \in Frames |-> [clock |-> 0, seg |-> 0, shifts |-> 0, clamped |-> FALSE]]
  /\ restarts = 0 /\ eos = 0

Tick ==
  /\ now < Origin + MaxTicks /\ now' = now + 1
  /\ UNCHANGED <<slotVars, anchor, astart, adelay, ready, rd, rs, dw, pend, pq, history, restarts, eos>>

-----------------------------------------------------------------------------
(* dash_resync, under g_anchor_mu *)
ResyncWall ==
  IF astart # 0 THEN astart + (IF adelay # 0 THEN adelay ELSE Prefill) - Playout
                ELSE now + Prefill - Playout

\* dash_au_deadline
SegOf(f) == FirstSeg + (f - 1) \div SegLen

Offset(f) ==
  LET segs == SegOf(f) - anchor.seg
  IN  (IF segs < 0 THEN 0 ELSE segs * SegLen) + ((f - 1) % SegLen)

ClockBase ==
  IF astart = 0 THEN anchor.wall + Playout ELSE astart + adelay - Playout

dash_au_deadline(f) ==
  LET d == ClockBase + Offset(f) IN IF d < 0 THEN 0 ELSE d

(* The reader *)
OpenSession ==
  /\ rd.pc = "open"
  /\ anchor' = NoAnchor
  /\ rd' = [rd EXCEPT !.pc = "segment"]
  /\ UNCHANGED <<slotVars, now, astart, adelay, ready, rs, dw, pend, pq, history, restarts, eos>>

\* A fetched segment: dash_resync(vn, ..., "jump") if there is no anchor.
StartSegment ==
  /\ rd.pc = "segment" /\ rd.frame <= MaxFrames
  /\ IF anchor.wall = 0
       THEN /\ rd' = [rd EXCEPT !.pc = "resync"]
            /\ rs' = [rs EXCEPT !["reader"].pc = "old",
                                !["reader"].next = SegOf(rd.frame)]
       ELSE /\ rd' = [rd EXCEPT !.pc = "deadline"]
            /\ UNCHANGED rs
  /\ UNCHANGED <<slotVars, now, anchor, astart, adelay, ready, dw, pend, pq, history, restarts, eos>>

Anchored ==
  /\ rd.pc = "resync" /\ rs["reader"].pc = "done"
  /\ rd' = [rd EXCEPT !.pc = "deadline"]
  /\ UNCHANGED <<slotVars, now, anchor, astart, adelay, ready, rs, dw, pend, pq, history, restarts, eos>>

ComputeDeadline ==
  /\ rd.pc = "deadline"
  /\ rd' = [rd EXCEPT !.pc = "take", !.deadline = dash_au_deadline(rd.frame)]
  /\ history' = [history EXCEPT ![rd.frame].clock = ClockBase,
                                ![rd.frame].seg = anchor.seg]
  /\ UNCHANGED <<slotVars, now, anchor, astart, adelay, ready, rs, dw, pend, pq, restarts, eos>>

Take(i) ==
  /\ rd.pc = "take"
  /\ TakeWrite(i)
  /\ rd' = [rd EXCEPT !.pc = "publish", !.slot = i]
  /\ UNCHANGED <<now, anchor, astart, adelay, ready, rs, dw, pend, pq, history, restarts, eos>>

WaitForSlot ==
  /\ rd.pc = "take" /\ TakeWait
  /\ UNCHANGED <<now, anchor, astart, adelay, ready, rd, rs, dw, pend, pq, history, restarts, eos>>

Publish ==
  /\ rd.pc = "publish"
  /\ slot_publish(rd.slot, rd.frame, rd.deadline)
  /\ rd' = [pc |-> IF rd.frame % SegLen = 0 THEN "segment" ELSE "deadline",
            frame |-> rd.frame + 1, deadline |-> 0, slot |-> -1]
  /\ UNCHANGED <<now, anchor, astart, adelay, ready, rs, dw, pend, pq, history, restarts, eos>>

\* The last segment of a static manifest has been published: the end of the
\* run is fixed, counted from segment 1.
EndOfContent ==
  /\ rd.pc = "segment" /\ rd.frame > MaxFrames
  /\ eos' = anchor.wall + SegOf(MaxFrames) * SegLen + Playout + Margin
  /\ rd' = [rd EXCEPT !.pc = "eos"]
  /\ UNCHANGED <<slotVars, now, anchor, astart, adelay, ready, rs, dw, pend, pq, history, restarts>>

-----------------------------------------------------------------------------
(* The other callers of dash_resync *)
\* The audio worker after its first write to the sink.
AudioStart ==
  /\ ready /\ astart = 0 /\ rs["audio"].pc = "idle"
  /\ astart' = now
  /\ adelay' \in Delays
  /\ rs' = [rs EXCEPT !["audio"].pc = "seg"]
  /\ UNCHANGED <<slotVars, now, anchor, ready, rd, dw, pend, pq, history, restarts, eos>>

IgnoreAnchor ==
  /\ rs["audio"].pc = "seg"
  /\ rs' = [rs EXCEPT !["audio"].next = anchor.seg, !["audio"].pc = "done"]
  /\ UNCHANGED <<slotVars, now, anchor, astart, adelay, ready, rd, dw, pend, pq, history, restarts, eos>>

\* It reads g_anchor_seg and resyncs unless nothing is anchored yet.
AudioReadSeg ==
  /\ rs["audio"].pc = "seg"
  /\ rs' = [rs EXCEPT !["audio"].next = anchor.seg,
                      !["audio"].pc = IF anchor.seg = 0 THEN "done" ELSE "old"]
  /\ UNCHANGED <<slotVars, now, anchor, astart, adelay, ready, rd, dw, pend, pq, history, restarts, eos>>

\* The watchdog restarts a reader stuck in a fetch, then calls
\* dash_resync(0, 0, "shutdown").
RestartReader ==
  /\ rd.pc = "segment" /\ rd.frame <= MaxFrames
  /\ rs["main"].pc \in {"idle", "done"}
  /\ restarts < MaxRestarts /\ restarts' = restarts + 1
  /\ rd' = [rd EXCEPT !.pc = "open"]
  /\ rs' = [rs EXCEPT !["main"].pc = "old", !["main"].next = 0]
  /\ UNCHANGED <<slotVars, now, anchor, astart, adelay, ready, dw, pend, pq, history, eos>>

\* dash_resync, first step: the old anchor, read without the mutex.
ResyncRead(p) ==
  /\ rs[p].pc = "old"
  /\ rs' = [rs EXCEPT ![p].pc = "anchor", ![p].old = anchor]
  /\ UNCHANGED <<slotVars, now, anchor, astart, adelay, ready, rd, dw, pend, pq, history, restarts, eos>>

\* The new anchor, under the mutex.
ResyncAnchor(p) ==
  /\ rs[p].pc = "anchor"
  /\ anchor' = [wall |-> ResyncWall, seg |-> rs[p].next]
  /\ rs' = [rs EXCEPT ![p].pc =
              IF rs[p].old.wall # 0 /\ rs[p].old.seg = rs[p].next THEN "delta" ELSE "done"]
  /\ UNCHANGED <<slotVars, now, astart, adelay, ready, rd, dw, pend, pq, history, restarts, eos>>

\* By how much to shift: the anchor is read again after the mutex.
ResyncDelta(p) ==
  /\ rs[p].pc = "delta"
  /\ LET delta == anchor.wall - rs[p].old.wall
     IN  rs' = [rs EXCEPT ![p].delta = delta,
                          ![p].pc = IF delta = 0 THEN "done" ELSE "slots"]
  /\ UNCHANGED <<slotVars, now, anchor, astart, adelay, ready, rd, dw, pend, pq, history, restarts, eos>>

ShiftedUnclamped(d, p) == d + rs[p].delta

Shifted(d, p) ==
  LET e == d + rs[p].delta IN IF e < 0 THEN 0 ELSE e

InUse == {i \in Slots : slots[i].state # "FREE"}

AllButLastSlot == InUse \ {NSlots - 1}

\* The slots whose deadline the shift moves.
ShiftSet == InUse

\* The slots that hold a frame, and the frames the shift of p moves or cuts off.
Filled == InState("READY") \cup InState("DECODING")
Moved == {slots[i].frame : i \in Filled}
CutOff(p) == {slots[i].frame : i \in {k \in Filled : slots[k].deadline + rs[p].delta < 0}}

\* The deadlines in the slots move, under g_fmu; then those in the queue.
ShiftSlots(p) ==
  /\ rs[p].pc = "slots" /\ fmu = "free"
  /\ slots' = [i \in Slots |->
                 IF i \in ShiftSet
                   THEN [slots[i] EXCEPT !.deadline = Shifted(@, p)] ELSE slots[i]]
  /\ history' = [f \in Frames |->
                   IF f \in Moved
                     THEN [history[f] EXCEPT !.shifts = @ + 1,
                                             !.clamped = @ \/ f \in CutOff(p)]
                     ELSE history[f]]
  /\ rs' = [rs EXCEPT ![p].pc = "queue"]
  /\ UNCHANGED <<fmu, asleep, now, anchor, astart, adelay, ready, rd, dw, pend, pq, restarts, eos>>

ShiftQueue(p) ==
  /\ rs[p].pc = "queue"
  /\ pq' = [k \in DOMAIN pq |-> [pq[k] EXCEPT !.deadline =
                                          IF @ = 0 THEN 0 ELSE Shifted(@, p)]]
  /\ rs' = [rs EXCEPT ![p].pc = "done"]
  /\ UNCHANGED <<slotVars, now, anchor, astart, adelay, ready, rd, dw, pend, history, restarts, eos>>

-----------------------------------------------------------------------------
(* The decode worker and the present worker, as far as deadlines go *)
\* The deadline is copied when the slot is picked.
DecodePick(i) ==
  /\ dw = Idle /\ PickAwake /\ Earliest(i)
  /\ MarkDecoding(i)
  /\ dw' = [slot |-> i, deadline |-> slots[i].deadline]
  /\ UNCHANGED <<now, anchor, astart, adelay, ready, rd, rs, pend, pq, history, restarts, eos>>

DecodeWait ==
  /\ dw = Idle /\ PickWait
  /\ UNCHANGED <<now, anchor, astart, adelay, ready, rd, rs, dw, pend, pq, history, restarts, eos>>

\* The picture goes to the conversion stage, the one before it to the queue;
\* the first one keeps its slot.
DecodeDone ==
  /\ dw # Idle
  /\ pend' = [frame |-> slots[dw.slot].frame, deadline |-> dw.deadline]
  /\ IF pend = NoFrame
       THEN UNCHANGED <<slotVars, pq, ready>>
       ELSE slot_release(dw.slot) /\ pq' = Append(pq, pend) /\ ready' = TRUE
  /\ dw' = Idle
  /\ UNCHANGED <<now, anchor, astart, adelay, rd, rs, history, restarts, eos>>

Present ==
  /\ pq # <<>> /\ pq' = Tail(pq)
  /\ UNCHANGED <<slotVars, now, anchor, astart, adelay, ready, rd, rs, dw, pend, history, restarts, eos>>

Next ==
  \/ Tick \/ OpenSession \/ StartSegment \/ Anchored \/ ComputeDeadline
  \/ \E i \in Slots : Take(i) \/ DecodePick(i)
  \/ WaitForSlot \/ Publish \/ EndOfContent
  \/ AudioStart \/ AudioReadSeg \/ RestartReader
  \/ \E p \in Resyncers : ResyncRead(p) \/ ResyncAnchor(p) \/ ResyncDelta(p)
                          \/ ShiftSlots(p) \/ ShiftQueue(p)
  \/ DecodeWait \/ DecodeDone \/ Present

Spec == Init /\ [][Next]_vars

-----------------------------------------------------------------------------
\* Types.  Deadlines are uint64_t: a shift, also one by a delta taken against
\* an anchor that was just dropped, never takes one below 0.
TypeOK ==
  /\ SlotsTypeOK
  /\ now \in Origin..Origin+MaxTicks /\ anchor \in [wall : Nat, seg : Nat]
  /\ astart \in {0} \cup (Origin..Origin+MaxTicks) /\ adelay \in Delays \cup {0}
  /\ ready \in BOOLEAN
  /\ rd \in [pc : {"open", "segment", "resync", "deadline", "take", "publish", "eos"},
             frame : 1..MaxFrames+1, deadline : Nat, slot : Slots \cup {-1}]
  /\ rs \in [Resyncers ->
             [pc : {"idle", "seg", "old", "anchor", "delta", "slots", "queue", "done"},
              next : Nat, old : [wall : Nat, seg : Nat], delta : Int]]
  /\ dw \in [slot : Slots \cup {-1}, deadline : Nat]
  /\ pend \in [frame : 0..MaxFrames, deadline : Nat]
  /\ pq \in Seq([frame : Frames, deadline : Nat])
  /\ history \in [Frames -> [clock : Nat, seg : Nat, shifts : Nat, clamped : BOOLEAN]]
  /\ restarts \in 0..MaxRestarts /\ eos \in Nat

\* Whoever comes first, the reader anchoring the first segment or the audio
\* worker starting playback, the anchor ends on the audio clock: once the
\* start has been handled, a timeline anchored on a segment is audio start +
\* delay - playout latency.  (A reader restart may leave the timeline anchored
\* on no segment: the watchdog's dash_resync(0, ...) can come last.)
AnchorOnAudio ==
  rs["audio"].pc = "done" /\ anchor.seg # 0 => anchor.wall = astart + adelay - Playout

\* Two frames waiting to be decoded whose deadlines were computed from the
\* same clock and anchor and shifted equally often have deadlines in stream
\* order, whatever shifts were interleaved with their computation and
\* publication; they tie only where a shift was cut off at 0.
OrderWithinClock ==
  \A i, j \in InState("READY") :
    LET a == history[slots[i].frame]
        b == history[slots[j].frame]
    IN  /\ slots[i].frame < slots[j].frame
        /\ a.clock = b.clock /\ a.seg = b.seg /\ a.shifts = b.shifts
        => \/ slots[i].deadline < slots[j].deadline
           \/ slots[i].deadline = slots[j].deadline /\ a.clamped

-----------------------------------------------------------------------------
(* What comments say, where the code does otherwise.                       *)

\* dash_resync: "shift any already-scheduled frame deadlines by the same delta
\* so the first queued frame still hits the new audio-start wall time".  A
\* frame that waits for a slot is not shifted, and one whose deadline is
\* computed between the anchor update and the shift is shifted as well.
ShiftedTogether ==
  rs["audio"].pc = "queue" =>
    \A i \in InState("READY") :
      history[slots[i].frame].clock # ClockBase <=> history[slots[i].frame].shifts = 1

\* Deadlines of the frames that are not shown yet.
Scheduled ==
  {slots[i].deadline : i \in Filled}
    \cup {pq[k].deadline : k \in DOMAIN pq} \cup {pend.deadline}

\* g_eos_end_wall_us: "wall time when all content has played".  When the
\* audio start moves the anchor back, frames whose deadlines are not shifted
\* yet, or are missed by the shift, lie beyond the end computed from it.
AllPlayedByEos == eos # 0 => \A d \in Scheduled : d <= eos

\* dash_reader_direct: "Drop the anchor so the first segment of this session
\* re-anchors the timeline": the watchdog's dash_resync(0, ...) can undo the
\* drop.
SessionReanchors ==
  [][ rd.pc \in {"segment", "resync"} /\ rd'.pc = "deadline" => anchor'.seg # 0 ]_vars
=============================================================================
