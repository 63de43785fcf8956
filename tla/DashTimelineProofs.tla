------------------------- MODULE DashTimelineProofs -------------------------
(***************************************************************************)
(* Proofs about the presentation timeline of DashTimeline, for every       *)
(* number of slots, frames and segments and every delay: its types (no     *)
(* deadline ever goes below 0), that the anchor ends on the audio clock,   *)
(* and that deadlines computed on one clock keep the order of the stream   *)
(* through every interleaving of the shifts of dash_resync.                *)
(***************************************************************************)
EXTENDS DashTimeline, TLAPS

\* How far frame f lies behind the start of segment s, in frame periods:
\* what dash_au_deadline adds to the clock when f is not before s.
Place(f, s) == f - 1 + (FirstSeg - s) * SegLen

\* Who holds what: the reader has a frame left to schedule, its slot and the
\* decode worker's are in the states they left them in, and only frames that
\* were published are in the slots and behind them.
Holding ==
  /\ rd.pc \in {"resync", "deadline", "take", "publish"} => rd.frame \in Frames
  /\ rd.pc = "publish" => rd.slot \in Slots /\ slots[rd.slot].state = "WRITING"
  /\ dw = Idle \/ (dw.slot \in Slots /\ slots[dw.slot].state = "DECODING")
  /\ pend = NoFrame \/ pend.frame \in Frames
  /\ \A i \in Filled : slots[i].frame \in 1..rd.frame - 1

\* The audio start: once the audio worker has anchored the timeline, or found
\* nothing to anchor, every later anchor on a segment is on the audio clock.
AudioSide ==
  /\ astart = 0 <=> rs["audio"].pc = "idle"
  /\ astart # 0 => adelay \in Delays
  /\ rs["audio"].pc \in {"delta", "slots", "queue", "done"} /\ anchor.seg # 0
       => anchor.wall = astart + adelay - Playout

\* No anchor, set or about to be set, lies ahead of the segment being read:
\* dash_au_deadline never clamps a segment offset.
SegsBehind ==
  /\ anchor.seg <= SegOf(rd.frame)
  /\ \A p \in Resyncers : rs[p].next <= SegOf(rd.frame)

\* A deadline is the clock and the place it was computed from until a shift
\* moves it, and no shift has touched a frame that is not published.
Computed ==
  /\ \A f \in Frames : f >= rd.frame => history[f].shifts = 0
  /\ rd.pc \in {"take", "publish"} =>
       rd.deadline = history[rd.frame].clock + Place(rd.frame, history[rd.frame].seg)
  /\ \A i \in Filled :
       history[slots[i].frame].shifts = 0 =>
         slots[i].deadline = history[slots[i].frame].clock
                               + Place(slots[i].frame, history[slots[i].frame].seg)

TimelineInv ==
  TypeOK /\ Holding /\ AudioSide /\ SegsBehind /\ Computed /\ OrderWithinClock

-----------------------------------------------------------------------------
(* Constants and segments                                                  *)

LEMMA Consts ==
  /\ SegLen \in Nat /\ SegLen > 0 /\ MaxFrames \in Nat /\ MaxFrames % SegLen = 0
  /\ FirstSeg \in Nat /\ FirstSeg > 0 /\ Playout \in Nat /\ Margin \in Nat
  /\ Prefill \in Nat /\ Playout < Prefill /\ Origin \in Nat /\ Prefill < Origin
  /\ MaxTicks \in Nat /\ MaxRestarts \in Nat /\ NSlots \in Nat
  BY TimelineAssumption, SlotAssumption

LEMMA DelaysFact ==
  ASSUME NEW d \in Delays
  PROVE  d \in Nat /\ d # 0
  BY TimelineAssumption

\* Division with remainder.
LEMMA DivMod ==
  ASSUME NEW n \in Nat, n > 0, NEW a \in Int
  PROVE  a \div n \in Int /\ a = n * (a \div n) + (a % n) /\ a % n \in 0..n-1
  OBVIOUS

\* The quotient of a number that is at least -1 is at least -1, and rises.
LEMMA QuotientLow ==
  ASSUME NEW n \in Nat, n > 0, NEW a \in Int, a >= -1
  PROVE  a \div n >= -1 /\ a \div n <= (a + 1) \div n
<1> DEFINE q == a \div n
           r == a % n
           p == (a + 1) \div n
           s == (a + 1) % n
<1>1. q \in Int /\ a = n * q + r /\ r \in 0..n-1
  BY DivMod
<1>2. p \in Int /\ a + 1 = n * p + s /\ s \in 0..n-1
  BY DivMod
<1> HIDE DEF q, r, p, s
<1>3. q <= -2 => n * q <= -2 * n
  BY <1>1
<1>4. q >= -1
  BY <1>1, <1>3
<1>5. p <= q - 1 => n * p <= n * q - n
  <2>1. n * (q - 1) = n * q - n
    BY <1>1
  <2>2. p <= q - 1 => n * p <= n * (q - 1)
    BY <1>1, <1>2
  <2> QED BY <2>1, <2>2
<1>6. q <= p
  BY <1>1, <1>2, <1>5
<1> QED BY <1>4, <1>6 DEF q, p

LEMMA SegFact ==
  ASSUME NEW f \in Nat
  PROVE  SegOf(f) \in Nat /\ SegOf(f) <= SegOf(f + 1)
<1> DEFINE q == (f - 1) \div SegLen
           p == f \div SegLen
<1>1. f - 1 \in Int /\ f - 1 >= -1 /\ (f - 1) + 1 = f
  OBVIOUS
<1>2. q \in Int /\ p \in Int
  BY <1>1, Consts, DivMod
<1>3. q >= -1 /\ q <= p
  BY <1>1, Consts, QuotientLow
<1>4. SegOf(f) = FirstSeg + q /\ SegOf(f + 1) = FirstSeg + p
  <2>1. (f + 1) - 1 = f
    OBVIOUS
  <2> QED BY <2>1 DEF SegOf
<1> HIDE DEF q, p
<1> QED BY <1>2, <1>3, <1>4, Consts

\* Where the anchor is not ahead, the offset of dash_au_deadline is the place.
LEMMA OffsetFact ==
  ASSUME NEW f \in Nat, anchor.seg \in Nat, anchor.seg <= SegOf(f)
  PROVE  Offset(f) \in Nat /\ Offset(f) = Place(f, anchor.seg)
<1> DEFINE q == (f - 1) \div SegLen
           r == (f - 1) % SegLen
           s == anchor.seg
           g == SegOf(f) - s
<1>1. q \in Int /\ f - 1 = SegLen * q + r /\ r \in 0..SegLen-1 /\ r \in Nat
  BY Consts, DivMod
<1>2. SegOf(f) \in Nat /\ SegOf(f) = FirstSeg + q /\ s \in Nat
  BY SegFact DEF SegOf
<1>3. g \in Nat /\ g = FirstSeg + q - s
  BY <1>2, Consts
<1>4. Offset(f) = g * SegLen + r
  BY <1>3 DEF Offset
<1>5. Place(f, anchor.seg) = f - 1 + (FirstSeg - s) * SegLen
  BY DEF Place
<1> HIDE DEF q, r, s, g
<1>6. g * SegLen \in Nat
  BY <1>3, Consts
<1>7. g * SegLen = (FirstSeg - s) * SegLen + SegLen * q
  <2>1. g = (FirstSeg - s) + q /\ FirstSeg - s \in Int
    BY <1>1, <1>2, <1>3, Consts
  <2>2. \A a, b, c \in Int : (a + b) * c = a * c + c * b
    OBVIOUS
  <2> QED BY <1>1, <2>1, <2>2, Consts
<1>8. (FirstSeg - s) * SegLen \in Int /\ SegLen * q \in Int
  BY <1>1, <1>2, Consts
<1> QED BY <1>1, <1>4, <1>5, <1>6, <1>7, <1>8

LEMMA PlaceFact ==
  ASSUME NEW f \in Nat, NEW g \in Nat, NEW s \in Nat
  PROVE  Place(f, s) \in Int /\ (f < g => Place(f, s) < Place(g, s))
<1> DEFINE x == (FirstSeg - s) * SegLen
<1>1. x \in Int
  BY Consts
<1>2. Place(f, s) = f - 1 + x /\ Place(g, s) = g - 1 + x
  BY DEF Place
<1> HIDE DEF x
<1> QED BY <1>1, <1>2

\* The clock a deadline is computed on, and the anchor of dash_resync, are
\* times: the origin is far enough from 0.
LEMMA ClockFact ==
  ASSUME TypeOK, AudioSide
  PROVE  ClockBase \in Nat /\ ResyncWall \in Nat
         /\ (astart # 0 => ResyncWall = astart + adelay - Playout)
<1>1. /\ astart \in {0} \cup (Origin..Origin+MaxTicks) /\ anchor.wall \in Nat
      /\ now \in Origin..Origin+MaxTicks
  BY DEF TypeOK
<1>2. astart # 0 => adelay \in Nat /\ adelay # 0
  BY DelaysFact DEF AudioSide
<1>3. astart # 0 => astart \in Nat /\ astart >= Origin
  BY <1>1, Consts
<1>4. astart # 0 => ResyncWall = astart + adelay - Playout
  BY <1>2 DEF ResyncWall
<1>5. ClockBase \in Nat
  BY <1>1, <1>2, <1>3, Consts DEF ClockBase
<1>6. now + Prefill - Playout \in Nat
  BY <1>1, Consts
<1>7. ResyncWall \in Nat
  BY <1>2, <1>3, <1>4, <1>6, Consts DEF ResyncWall
<1> QED BY <1>4, <1>5, <1>7

-----------------------------------------------------------------------------
(* What the steps change                                                   *)

RdPcs == {"open", "segment", "resync", "deadline", "take", "publish", "eos"}
RsPcs == {"idle", "seg", "old", "anchor", "delta", "slots", "queue", "done"}
Anchors == [wall : Nat, seg : Nat]
RdShape == [pc : RdPcs, frame : 1..MaxFrames+1, deadline : Nat, slot : Slots \cup {-1}]
RsShape == [pc : RsPcs, next : Nat, old : Anchors, delta : Int]
SlotShape == [state : SlotStates, frame : Nat, deadline : Nat]
HistShape == [clock : Nat, seg : Nat, shifts : Nat, clamped : BOOLEAN]
QueueShape == [frame : Frames, deadline : Nat]

LEMMA Shapes ==
  ASSUME TypeOK
  PROVE  /\ rd \in RdShape /\ rs \in [Resyncers -> RsShape]
         /\ slots \in [Slots -> SlotShape] /\ anchor \in Anchors
         /\ history \in [Frames -> HistShape] /\ pq \in Seq(QueueShape)
  BY DEF TypeOK, SlotsTypeOK, RdPcs, RsPcs, Anchors, RdShape, RsShape, SlotShape,
         HistShape, QueueShape

\* One more step of dash_resync in caller p.
LEMMA RsMoves ==
  ASSUME rs \in [Resyncers -> RsShape], NEW p \in Resyncers, NEW r \in RsShape,
         rs' = [rs EXCEPT ![p] = r]
  PROVE  rs' \in [Resyncers -> RsShape] /\ rs'[p] = r
         /\ \A q \in Resyncers : q # p => rs'[q] = rs[q]
  OBVIOUS

\* The steps that only dash_resync takes.
LEMMA RsStep ==
  ASSUME TypeOK, NEW p \in Resyncers,
         ResyncRead(p) \/ ResyncAnchor(p) \/ ResyncDelta(p) \/ ShiftSlots(p) \/ ShiftQueue(p)
  PROVE  /\ rs' \in [Resyncers -> RsShape]
         /\ \A q \in Resyncers : rs'[q].next = rs[q].next
         /\ \A q \in Resyncers : q # p => rs'[q] = rs[q]
         /\ rs[p].pc \in {"old", "anchor", "delta", "slots", "queue"}
         /\ rs'[p].pc \in {"anchor", "delta", "slots", "queue", "done"}
         /\ rs'[p].pc = "anchor" => rs[p].pc = "old"
         /\ rs'[p].pc # "anchor" /\ ~ResyncAnchor(p) => rs[p].pc \in {"delta", "slots", "queue"}
<1>0. rs \in [Resyncers -> RsShape] /\ anchor \in Anchors
  BY Shapes
<1>1. CASE ResyncRead(p)
  <2> DEFINE r == [rs[p] EXCEPT !.pc = "anchor", !.old = anchor]
  <2>1. rs' = [rs EXCEPT ![p] = r] /\ rs[p].pc = "old"
    BY <1>0, <1>1 DEF ResyncRead, RsShape
  <2>2. r \in RsShape /\ r.next = rs[p].next /\ r.pc = "anchor"
    BY <1>0 DEF RsShape, RsPcs
  <2> HIDE DEF r
  <2> QED BY <1>0, <1>1, <2>1, <2>2, RsMoves
<1>2. CASE ResyncAnchor(p)
  <2> DEFINE r == [rs[p] EXCEPT !.pc =
                     IF rs[p].old.wall # 0 /\ rs[p].old.seg = rs[p].next THEN "delta" ELSE "done"]
  <2>1. rs' = [rs EXCEPT ![p] = r] /\ rs[p].pc = "anchor"
    BY <1>0, <1>2 DEF ResyncAnchor, RsShape
  <2>2. r \in RsShape /\ r.next = rs[p].next /\ r.pc \in {"delta", "done"}
    BY <1>0 DEF RsShape, RsPcs
  <2> HIDE DEF r
  <2> QED BY <1>0, <1>2, <2>1, <2>2, RsMoves
<1>3. CASE ResyncDelta(p)
  <2> DEFINE e == anchor.wall - rs[p].old.wall
             r == [rs[p] EXCEPT !.delta = e, !.pc = IF e = 0 THEN "done" ELSE "slots"]
  <2>1. rs' = [rs EXCEPT ![p] = r] /\ rs[p].pc = "delta"
    BY <1>0, <1>3 DEF ResyncDelta, RsShape
  <2>2. e \in Int
    BY <1>0 DEF RsShape, Anchors
  <2> HIDE DEF e
  <2>3. r \in RsShape /\ r.next = rs[p].next /\ r.pc \in {"slots", "done"}
    BY <1>0, <2>2 DEF RsShape, RsPcs
  <2> HIDE DEF r
  <2> QED BY <1>0, <1>3, <2>1, <2>3, RsMoves
<1>4. CASE ShiftSlots(p)
  <2> DEFINE r == [rs[p] EXCEPT !.pc = "queue"]
  <2>1. rs' = [rs EXCEPT ![p] = r] /\ rs[p].pc = "slots"
    BY <1>0, <1>4 DEF ShiftSlots, RsShape
  <2>2. r \in RsShape /\ r.next = rs[p].next /\ r.pc = "queue"
    BY <1>0 DEF RsShape, RsPcs
  <2> HIDE DEF r
  <2> QED BY <1>0, <1>4, <2>1, <2>2, RsMoves
<1>5. CASE ShiftQueue(p)
  <2> DEFINE r == [rs[p] EXCEPT !.pc = "done"]
  <2>1. rs' = [rs EXCEPT ![p] = r] /\ rs[p].pc = "queue"
    BY <1>0, <1>5 DEF ShiftQueue, RsShape
  <2>2. r \in RsShape /\ r.next = rs[p].next /\ r.pc = "done"
    BY <1>0 DEF RsShape, RsPcs
  <2> HIDE DEF r
  <2> QED BY <1>0, <1>5, <2>1, <2>2, RsMoves
<1> QED BY <1>1, <1>2, <1>3, <1>4, <1>5

\* A shifted deadline is a time again, and shifts keep the order of deadlines.
LEMMA ShiftedFact ==
  ASSUME TypeOK, NEW p \in Resyncers, NEW d \in Nat, NEW e \in Nat
  PROVE  /\ Shifted(d, p) \in Nat
         /\ d < e => \/ Shifted(d, p) < Shifted(e, p)
                     \/ Shifted(d, p) = Shifted(e, p) /\ d + rs[p].delta < 0
<1>1. rs[p].delta \in Int
  BY Shapes DEF RsShape
<1> QED BY <1>1 DEF Shifted

-----------------------------------------------------------------------------
(* The slots                                                               *)

IsFilled(r) == r.state \in {"READY", "DECODING"}

LEMMA FilledFact ==
  /\ Filled = {i \in Slots : IsFilled(slots[i])}
  /\ Filled' = {i \in Slots : IsFilled(slots'[i])}
  /\ InState("READY")' = {i \in Slots : slots'[i].state = "READY"}
<1>1. Filled = {i \in Slots : IsFilled(slots[i])}
  BY DEF Filled, InState, IsFilled
<1>2. Filled' = {i \in Slots : IsFilled(slots'[i])}
  BY DEF Filled, InState, IsFilled
<1>3. InState("READY")' = {i \in Slots : slots'[i].state = "READY"}
  BY DEF InState
<1> QED BY <1>1, <1>2, <1>3

\* No slot is filled, made READY or given another deadline.
SlotsQuiet ==
  /\ slots' \in [Slots -> SlotShape]
  /\ \A i \in Slots :
       /\ IsFilled(slots'[i]) => /\ IsFilled(slots[i])
                                 /\ slots'[i].frame = slots[i].frame
                                 /\ slots'[i].deadline = slots[i].deadline
       /\ slots'[i].state = "READY" => slots[i].state = "READY"

\* A change of state of one slot, with what it means for the others.
LEMMA SetStateFact ==
  ASSUME slots \in [Slots -> SlotShape], NEW i \in Slots, NEW st \in SlotStates,
         SetState(i, st)
  PROVE  /\ slots' \in [Slots -> SlotShape]
         /\ slots'[i] = [state |-> st, frame |-> slots[i].frame, deadline |-> slots[i].deadline]
         /\ \A j \in Slots : j # i => slots'[j] = slots[j]
<1> DEFINE r == [state |-> st, frame |-> slots[i].frame, deadline |-> slots[i].deadline]
<1>1. slots[i] \in SlotShape
  OBVIOUS
<1>2. [slots[i] EXCEPT !.state = st] = r /\ r \in SlotShape
  BY <1>1 DEF SlotShape
<1>3. slots' = [slots EXCEPT ![i] = [slots[i] EXCEPT !.state = st]]
  BY DEF SetState
<1>4. slots' = [slots EXCEPT ![i] = r]
  BY <1>2, <1>3
<1> HIDE DEF r
<1>5. slots' \in [Slots -> SlotShape] /\ slots'[i] = r
      /\ \A j \in Slots : j # i => slots'[j] = slots[j]
  BY <1>2, <1>4
<1> QED BY <1>5 DEF r

LEMMA TakeQuiet ==
  ASSUME TypeOK, NEW i \in Slots, Take(i)
  PROVE  SlotsQuiet /\ slots[i].state = "FREE" /\ slots'[i].state = "WRITING"
         /\ \A j \in Slots : j # i => slots'[j] = slots[j]
<1>1. slots \in [Slots -> SlotShape]
  BY Shapes
<1>2. SetState(i, "WRITING") /\ slots[i].state = "FREE" /\ "WRITING" \in SlotStates
  BY DEF Take, TakeWrite, InState, SlotStates
<1>3. /\ slots' \in [Slots -> SlotShape]
      /\ slots'[i] = [state |-> "WRITING", frame |-> slots[i].frame, deadline |-> slots[i].deadline]
      /\ \A j \in Slots : j # i => slots'[j] = slots[j]
  BY <1>1, <1>2, SetStateFact
<1>4. slots'[i].state = "WRITING"
  BY <1>3
<1> QED BY <1>2, <1>3, <1>4 DEF SlotsQuiet, IsFilled

LEMMA PickQuiet ==
  ASSUME TypeOK, NEW i \in Slots, DecodePick(i)
  PROVE  SlotsQuiet /\ slots[i].state = "READY" /\ slots'[i].state = "DECODING"
         /\ \A j \in Slots : j # i => slots'[j] = slots[j]
<1>1. slots \in [Slots -> SlotShape]
  BY Shapes
<1>2. SetState(i, "DECODING") /\ slots[i].state = "READY" /\ "DECODING" \in SlotStates
  BY DEF DecodePick, MarkDecoding, Earliest, InState, SlotStates
<1>3. /\ slots' \in [Slots -> SlotShape]
      /\ slots'[i] = [state |-> "DECODING", frame |-> slots[i].frame, deadline |-> slots[i].deadline]
      /\ \A j \in Slots : j # i => slots'[j] = slots[j]
  BY <1>1, <1>2, SetStateFact
<1>4. slots'[i].state = "DECODING" /\ slots'[i].frame = slots[i].frame
      /\ slots'[i].deadline = slots[i].deadline
  BY <1>3
<1> QED BY <1>2, <1>3, <1>4 DEF SlotsQuiet, IsFilled

LEMMA DoneQuiet ==
  ASSUME TypeOK, Holding, DecodeDone
  PROVE  SlotsQuiet /\ \A j \in Slots : j # dw.slot => slots'[j] = slots[j]
<1>1. slots \in [Slots -> SlotShape] /\ dw.slot \in Slots
  BY Shapes DEF DecodeDone, Holding
<1>2. CASE UNCHANGED slotVars
  BY <1>1, <1>2 DEF slotVars, SlotsQuiet
<1>3. CASE slot_release(dw.slot)
  <2>1. SetState(dw.slot, "FREE") /\ "FREE" \in SlotStates
    BY <1>3 DEF slot_release, SlotStates
  <2>2. /\ slots' \in [Slots -> SlotShape]
        /\ slots'[dw.slot] = [state |-> "FREE", frame |-> slots[dw.slot].frame,
                              deadline |-> slots[dw.slot].deadline]
        /\ \A j \in Slots : j # dw.slot => slots'[j] = slots[j]
    BY <1>1, <2>1, SetStateFact
  <2>3. slots'[dw.slot].state = "FREE"
    BY <2>2
  <2> QED BY <2>2, <2>3 DEF SlotsQuiet, IsFilled
<1> QED BY <1>2, <1>3 DEF DecodeDone

LEMMA PublishFact ==
  ASSUME TypeOK, Holding, Publish
  PROVE  /\ slots' \in [Slots -> SlotShape] /\ rd.slot \in Slots
         /\ slots'[rd.slot] = [state |-> "READY", frame |-> rd.frame, deadline |-> rd.deadline]
         /\ slots[rd.slot].state = "WRITING"
         /\ \A j \in Slots : j # rd.slot => slots'[j] = slots[j]
<1> DEFINE r == [state |-> "READY", frame |-> rd.frame, deadline |-> rd.deadline]
<1>1. slots \in [Slots -> SlotShape] /\ rd.slot \in Slots /\ rd.frame \in Nat /\ rd.deadline \in Nat
      /\ slots[rd.slot].state = "WRITING"
  BY Shapes, Consts DEF Publish, Holding, RdShape
<1>2. r \in SlotShape
  BY <1>1 DEF SlotShape, SlotStates
<1>3. slots' = [slots EXCEPT ![rd.slot] = r]
  BY DEF Publish, slot_publish
<1> HIDE DEF r
<1>4. slots' \in [Slots -> SlotShape] /\ slots'[rd.slot] = r
      /\ \A j \in Slots : j # rd.slot => slots'[j] = slots[j]
  BY <1>1, <1>2, <1>3
<1> QED BY <1>1, <1>4 DEF r

LEMMA ShiftFact ==
  ASSUME TypeOK, NEW p \in Resyncers, ShiftSlots(p)
  PROVE  /\ slots' \in [Slots -> SlotShape]
         /\ \A i \in Slots : /\ slots'[i].state = slots[i].state
                             /\ slots'[i].frame = slots[i].frame
         /\ \A i \in Filled : slots'[i].deadline = Shifted(slots[i].deadline, p)
<1>1. slots \in [Slots -> SlotShape]
  BY Shapes
<1> DEFINE new(i) == IF i \in ShiftSet
                       THEN [slots[i] EXCEPT !.deadline = Shifted(slots[i].deadline, p)]
                       ELSE slots[i]
<1>2. slots' = [i \in Slots |-> new(i)]
  BY DEF ShiftSlots
<1>3. ASSUME NEW i \in Slots
      PROVE  new(i) \in SlotShape /\ new(i).state = slots[i].state /\ new(i).frame = slots[i].frame
             /\ (i \in Filled => new(i).deadline = Shifted(slots[i].deadline, p))
  <2>1. slots[i] \in SlotShape /\ slots[i].deadline \in Nat
    BY <1>1 DEF SlotShape
  <2>2. Shifted(slots[i].deadline, p) \in Nat
    BY <2>1, ShiftedFact
  <2>3. CASE i \in ShiftSet
    BY <2>1, <2>2, <2>3 DEF SlotShape
  <2>4. CASE i \notin ShiftSet
    <3>1. i \notin Filled
      BY <2>4 DEF ShiftSet, InUse, Filled, InState
    <3> QED BY <2>1, <2>4, <3>1
  <2> QED BY <2>3, <2>4
<1> HIDE DEF new
<1>4. \A i \in Slots : slots'[i] = new(i)
  BY <1>2
<1>5. \A i \in Filled : i \in Slots
  BY DEF Filled, InState
<1> QED BY <1>2, <1>3, <1>4, <1>5

\* The steps that neither schedule, publish nor shift a frame.
Elsewhere ==
  \/ Tick \/ OpenSession \/ StartSegment \/ Anchored
  \/ \E i \in Slots : Take(i) \/ DecodePick(i)
  \/ WaitForSlot \/ EndOfContent \/ AudioStart \/ AudioReadSeg \/ RestartReader
  \/ \E p \in Resyncers : ResyncRead(p) \/ ResyncAnchor(p) \/ ResyncDelta(p) \/ ShiftQueue(p)
  \/ DecodeWait \/ DecodeDone \/ Present \/ UNCHANGED vars

LEMMA StepSplit ==
  ASSUME [Next]_vars
  PROVE  Elsewhere \/ ComputeDeadline \/ Publish \/ \E p \in Resyncers : ShiftSlots(p)
  BY DEF Next, Elsewhere

\* They leave the pool and the history alone.
LEMMA ElsewhereSlots ==
  ASSUME TypeOK, Holding, Elsewhere
  PROVE  SlotsQuiet /\ history' = history
<1>1. CASE UNCHANGED <<slots, history>>
  BY <1>1, Shapes DEF SlotsQuiet
<1>2. Tick \/ OpenSession \/ StartSegment \/ Anchored \/ EndOfContent => UNCHANGED <<slots, history>>
  BY DEF Tick, OpenSession, StartSegment, Anchored, EndOfContent, slotVars
<1>3. AudioStart \/ AudioReadSeg \/ RestartReader \/ Present => UNCHANGED <<slots, history>>
  BY DEF AudioStart, AudioReadSeg, RestartReader, Present, slotVars
<1>4. WaitForSlot \/ DecodeWait \/ UNCHANGED vars => UNCHANGED <<slots, history>>
  BY DEF WaitForSlot, TakeWait, DecodeWait, PickWait, vars, slotVars
<1>5. ASSUME NEW p \in Resyncers,
             ResyncRead(p) \/ ResyncAnchor(p) \/ ResyncDelta(p) \/ ShiftQueue(p)
      PROVE  UNCHANGED <<slots, history>>
  BY <1>5 DEF ResyncRead, ResyncAnchor, ResyncDelta, ShiftQueue, slotVars
<1>6. ASSUME NEW i \in Slots, Take(i)
      PROVE  SlotsQuiet /\ history' = history
  BY <1>6, TakeQuiet DEF Take
<1>7. ASSUME NEW i \in Slots, DecodePick(i)
      PROVE  SlotsQuiet /\ history' = history
  BY <1>7, PickQuiet DEF DecodePick
<1>8. CASE DecodeDone
  BY <1>8, DoneQuiet DEF DecodeDone
<1> QED BY <1>1, <1>2, <1>3, <1>4, <1>5, <1>6, <1>7, <1>8 DEF Elsewhere

\* The reader in these steps: it stays at its frame, and only Take moves it
\* on with a deadline in hand.
LEMMA ElsewhereReader ==
  ASSUME TypeOK, Holding, Elsewhere
  PROVE  /\ rd' \in RdShape /\ rd'.frame = rd.frame
         /\ rd'.pc \in {"resync", "deadline", "take", "publish"} => rd'.frame \in Frames
         /\ rd'.pc \in {"take", "publish"} =>
              rd.pc \in {"take", "publish"} /\ rd'.deadline = rd.deadline
         /\ rd'.pc = "publish" => \/ rd' = rd
                                  \/ \E i \in Slots : Take(i) /\ rd'.slot = i
<1>0. rd \in RdShape
  BY Shapes
<1>1. CASE rd' = rd
  BY <1>0, <1>1 DEF Holding
<1>2. CASE OpenSession \/ EndOfContent \/ RestartReader
  <2>1. rd' = [rd EXCEPT !.pc = "segment"] \/ rd' = [rd EXCEPT !.pc = "eos"]
        \/ rd' = [rd EXCEPT !.pc = "open"]
    BY <1>2 DEF OpenSession, EndOfContent, RestartReader
  <2> QED BY <1>0, <2>1 DEF RdShape, RdPcs
<1>3. CASE StartSegment
  <2>1. rd' = [rd EXCEPT !.pc = "resync"] \/ rd' = [rd EXCEPT !.pc = "deadline"]
    BY <1>3 DEF StartSegment
  <2>2. rd.frame \in Frames
    BY <1>0, <1>3, Consts DEF StartSegment, RdShape, Frames
  <2> QED BY <1>0, <2>1, <2>2 DEF RdShape, RdPcs
<1>4. CASE Anchored
  <2>1. rd' = [rd EXCEPT !.pc = "deadline"] /\ rd.frame \in Frames
    BY <1>4 DEF Anchored, Holding
  <2> QED BY <1>0, <2>1 DEF RdShape, RdPcs
<1>5. ASSUME NEW i \in Slots, Take(i)
      PROVE  /\ rd' \in RdShape /\ rd'.frame = rd.frame /\ rd.frame \in Frames
             /\ rd.pc = "take" /\ rd'.deadline = rd.deadline /\ rd'.slot = i
  <2>1. rd' = [rd EXCEPT !.pc = "publish", !.slot = i] /\ rd.pc = "take" /\ rd.frame \in Frames
    BY <1>5 DEF Take, Holding
  <2> QED BY <1>0, <2>1 DEF RdShape, RdPcs
<1>6. Tick \/ WaitForSlot \/ AudioStart \/ AudioReadSeg \/ DecodeWait \/ DecodeDone \/ Present
      \/ UNCHANGED vars => rd' = rd
  BY DEF Tick, WaitForSlot, AudioStart, AudioReadSeg, DecodeWait, DecodeDone, Present, vars
<1>7. ASSUME NEW i \in Slots, DecodePick(i)
      PROVE  rd' = rd
  BY <1>7 DEF DecodePick
<1>8. ASSUME NEW p \in Resyncers,
             ResyncRead(p) \/ ResyncAnchor(p) \/ ResyncDelta(p) \/ ShiftQueue(p)
      PROVE  rd' = rd
  BY <1>8 DEF ResyncRead, ResyncAnchor, ResyncDelta, ShiftQueue
<1> QED BY <1>1, <1>2, <1>3, <1>4, <1>5, <1>6, <1>7, <1>8 DEF Elsewhere

\* Computing a deadline: it is the clock plus the place of the frame.
LEMMA ComputeFact ==
  ASSUME TypeOK, Holding, AudioSide, SegsBehind, ComputeDeadline
  PROVE  /\ rd.frame \in Frames /\ rd' \in RdShape /\ rd'.frame = rd.frame /\ rd'.pc = "take"
         /\ rd'.deadline = ClockBase + Place(rd.frame, anchor.seg)
         /\ history' \in [Frames -> HistShape]
         /\ history'[rd.frame].clock = ClockBase /\ history'[rd.frame].seg = anchor.seg
         /\ history'[rd.frame].shifts = history[rd.frame].shifts
         /\ \A f \in Frames : f # rd.frame => history'[f] = history[f]
<1>0. rd \in RdShape /\ rd.frame \in Frames /\ rd.frame \in Nat /\ history \in [Frames -> HistShape]
      /\ anchor.seg \in Nat
  <2>1. rd \in RdShape /\ history \in [Frames -> HistShape] /\ anchor.seg \in Nat
    BY Shapes DEF Anchors
  <2>2. rd.frame \in Frames
    BY DEF ComputeDeadline, Holding
  <2>3. rd.frame \in Nat
    BY <2>2, Consts DEF Frames
  <2> QED BY <2>1, <2>2, <2>3
<1>1. ClockBase \in Nat
  BY ClockFact
<1>2. Offset(rd.frame) \in Nat /\ Offset(rd.frame) = Place(rd.frame, anchor.seg)
  BY <1>0, OffsetFact DEF SegsBehind
<1>3. dash_au_deadline(rd.frame) = ClockBase + Place(rd.frame, anchor.seg)
      /\ dash_au_deadline(rd.frame) \in Nat
  BY <1>1, <1>2 DEF dash_au_deadline
<1>4. rd' = [rd EXCEPT !.pc = "take", !.deadline = dash_au_deadline(rd.frame)]
  BY DEF ComputeDeadline
<1>5. rd' \in RdShape /\ rd'.frame = rd.frame /\ rd'.pc = "take"
      /\ rd'.deadline = dash_au_deadline(rd.frame)
  BY <1>0, <1>3, <1>4 DEF RdShape, RdPcs
<1> DEFINE h == [history[rd.frame] EXCEPT !.clock = ClockBase, !.seg = anchor.seg]
<1>6. history' = [history EXCEPT ![rd.frame] = h]
  BY <1>0 DEF ComputeDeadline
<1>7. h \in HistShape /\ h.clock = ClockBase /\ h.seg = anchor.seg
      /\ h.shifts = history[rd.frame].shifts
  <2>1. history[rd.frame] \in HistShape
    BY <1>0
  <2> QED BY <1>0, <1>1, <2>1 DEF HistShape
<1> HIDE DEF h
<1>8. history' \in [Frames -> HistShape] /\ history'[rd.frame] = h
      /\ \A f \in Frames : f # rd.frame => history'[f] = history[f]
  BY <1>0, <1>6, <1>7
<1> QED BY <1>0, <1>3, <1>5, <1>7, <1>8

\* Publishing moves the reader to the next frame of its segment, or to the
\* next segment.
LEMMA PublishReader ==
  ASSUME TypeOK, Holding, Publish
  PROVE  /\ rd' \in RdShape /\ rd.frame \in Frames /\ rd'.frame = rd.frame + 1
         /\ rd'.pc \in {"segment", "deadline"}
         /\ rd'.pc = "deadline" => rd'.frame \in Frames
<1>0. rd.frame \in Frames /\ rd.frame \in Nat
  BY Consts DEF Publish, Holding, Frames
<1> DEFINE pc == IF rd.frame % SegLen = 0 THEN "segment" ELSE "deadline"
<1>1. rd' = [pc |-> pc, frame |-> rd.frame + 1, deadline |-> 0, slot |-> -1]
  BY DEF Publish
<1>2. rd.frame + 1 \in 1..MaxFrames+1
  BY <1>0, Consts DEF Frames
<1>3. pc \in RdPcs /\ pc \in {"segment", "deadline"}
  BY DEF RdPcs
<1>4. pc = "deadline" => rd.frame # MaxFrames
  BY Consts
<1>5. pc = "deadline" => rd.frame + 1 \in Frames
  BY <1>0, <1>4, Consts DEF Frames
<1> HIDE DEF pc
<1>6. rd' \in RdShape
  BY <1>1, <1>2, <1>3 DEF RdShape
<1> QED BY <1>0, <1>1, <1>3, <1>5, <1>6

-----------------------------------------------------------------------------
(* Who holds what                                                          *)

LEMMA HoldingStep ==
  ASSUME TypeOK, Holding, AudioSide, SegsBehind, [Next]_vars
  PROVE  Holding'
<1>0. rd \in RdShape /\ rd.frame \in Nat
  BY Shapes, Consts DEF RdShape
<1>1. rd'.frame \in Nat /\ rd.frame <= rd'.frame
      /\ (rd'.pc \in {"resync", "deadline", "take", "publish"} => rd'.frame \in Frames)
  <2>1. CASE Elsewhere
    BY <1>0, <2>1, ElsewhereReader
  <2>2. CASE ComputeDeadline
    BY <1>0, <2>2, ComputeFact
  <2>3. CASE Publish
    <3>1. rd'.frame = rd.frame + 1 /\ rd'.pc \in {"segment", "deadline"}
          /\ (rd'.pc = "deadline" => rd'.frame \in Frames)
      BY <2>3, PublishReader
    <3> QED BY <1>0, <3>1
  <2>4. ASSUME NEW p \in Resyncers, ShiftSlots(p)
        PROVE  rd' = rd
    BY <2>4 DEF ShiftSlots
  <2> QED BY <1>0, <2>1, <2>2, <2>3, <2>4, StepSplit DEF Holding
<1>2. rd'.pc = "publish" => rd'.slot \in Slots /\ slots'[rd'.slot].state = "WRITING"
  <2> SUFFICES ASSUME rd'.pc = "publish"
               PROVE  rd'.slot \in Slots /\ slots'[rd'.slot].state = "WRITING"
    OBVIOUS
  <2>1. ASSUME NEW i \in Slots, Take(i), rd'.slot = i
        PROVE  rd'.slot \in Slots /\ slots'[rd'.slot].state = "WRITING"
    BY <2>1, TakeQuiet
  <2>2. CASE rd' = rd /\ Elsewhere
    <3>1. rd.slot \in Slots /\ slots[rd.slot].state = "WRITING"
      BY <2>2 DEF Holding
    <3>2. ASSUME NEW i \in Slots, Take(i)
          PROVE  FALSE
      BY <1>0, <2>2, <3>2 DEF Take, RdShape
    <3>3. ASSUME NEW i \in Slots, DecodePick(i)
          PROVE  slots'[rd.slot] = slots[rd.slot]
      <4>1. slots[i].state = "READY" /\ \A j \in Slots : j # i => slots'[j] = slots[j]
        BY <3>3, PickQuiet
      <4> QED BY <3>1, <4>1
    <3>4. CASE DecodeDone
      <4>1. slots[dw.slot].state = "DECODING" /\ \A j \in Slots : j # dw.slot => slots'[j] = slots[j]
        BY <3>4, DoneQuiet DEF DecodeDone, Holding
      <4> QED BY <2>2, <3>1, <4>1
    <3>5. Tick \/ OpenSession \/ StartSegment \/ Anchored \/ EndOfContent => UNCHANGED slots
      BY DEF Tick, OpenSession, StartSegment, Anchored, EndOfContent, slotVars
    <3>6. AudioStart \/ AudioReadSeg \/ RestartReader \/ Present => UNCHANGED slots
      BY DEF AudioStart, AudioReadSeg, RestartReader, Present, slotVars
    <3>7. WaitForSlot \/ DecodeWait \/ UNCHANGED vars => UNCHANGED slots
      BY DEF WaitForSlot, TakeWait, DecodeWait, PickWait, vars, slotVars
    <3>8. ASSUME NEW p \in Resyncers,
                 ResyncRead(p) \/ ResyncAnchor(p) \/ ResyncDelta(p) \/ ShiftQueue(p)
          PROVE  UNCHANGED slots
      BY <3>8 DEF ResyncRead, ResyncAnchor, ResyncDelta, ShiftQueue, slotVars
    <3>9. slots'[rd.slot] = slots[rd.slot] \/ DecodeDone
      BY <2>2, <3>2, <3>3, <3>5, <3>6, <3>7, <3>8 DEF Elsewhere
    <3> QED BY <2>2, <3>1, <3>4, <3>9
  <2>3. ComputeDeadline \/ Publish => rd'.pc # "publish"
    BY ComputeFact, PublishReader
  <2>4. ASSUME NEW p \in Resyncers, ShiftSlots(p)
        PROVE  rd'.slot \in Slots /\ slots'[rd'.slot].state = "WRITING"
    <3>1. rd' = rd
      BY <2>4 DEF ShiftSlots
    <3>2. rd.slot \in Slots /\ slots[rd.slot].state = "WRITING"
      BY <3>1 DEF Holding
    <3>3. slots'[rd.slot].state = slots[rd.slot].state
      BY <2>4, <3>2, ShiftFact
    <3> QED BY <3>1, <3>2, <3>3
  <2> QED BY <2>1, <2>2, <2>3, <2>4, StepSplit, ElsewhereReader
<1>3. dw' = Idle \/ (dw'.slot \in Slots /\ slots'[dw'.slot].state = "DECODING")
  <2>1. CASE DecodeDone
    BY <2>1 DEF DecodeDone
  <2>2. ASSUME NEW i \in Slots, DecodePick(i)
        PROVE  dw'.slot \in Slots /\ slots'[dw'.slot].state = "DECODING"
    <3>1. dw' = [slot |-> i, deadline |-> slots[i].deadline]
      BY <2>2 DEF DecodePick
    <3> QED BY <2>2, <3>1, PickQuiet
  <2>3. CASE dw' = dw /\ dw # Idle
    <3>1. dw.slot \in Slots /\ slots[dw.slot].state = "DECODING"
      BY <2>3 DEF Holding
    <3>2. ASSUME NEW i \in Slots, Take(i)
          PROVE  slots'[dw.slot] = slots[dw.slot]
      <4>1. slots[i].state = "FREE" /\ \A j \in Slots : j # i => slots'[j] = slots[j]
        BY <3>2, TakeQuiet
      <4> QED BY <3>1, <4>1
    <3>3. CASE Publish
      <4>1. slots[rd.slot].state = "WRITING" /\ \A j \in Slots : j # rd.slot => slots'[j] = slots[j]
        BY <3>3, PublishFact
      <4> QED BY <2>3, <3>1, <4>1
    <3>4. ASSUME NEW p \in Resyncers, ShiftSlots(p)
          PROVE  slots'[dw.slot].state = slots[dw.slot].state
      BY <3>1, <3>4, ShiftFact
    <3>5. ASSUME NEW i \in Slots, DecodePick(i)
          PROVE  FALSE
      BY <2>3, <3>5 DEF DecodePick
    <3>6. Tick \/ OpenSession \/ StartSegment \/ Anchored \/ EndOfContent \/ ComputeDeadline
          => UNCHANGED slots
      BY DEF Tick, OpenSession, StartSegment, Anchored, EndOfContent, ComputeDeadline, slotVars
    <3>7. AudioStart \/ AudioReadSeg \/ RestartReader \/ Present => UNCHANGED slots
      BY DEF AudioStart, AudioReadSeg, RestartReader, Present, slotVars
    <3>8. WaitForSlot \/ DecodeWait \/ UNCHANGED vars => UNCHANGED slots
      BY DEF WaitForSlot, TakeWait, DecodeWait, PickWait, vars, slotVars
    <3>9. ASSUME NEW p \in Resyncers,
                 ResyncRead(p) \/ ResyncAnchor(p) \/ ResyncDelta(p) \/ ShiftQueue(p)
          PROVE  UNCHANGED slots
      BY <3>9 DEF ResyncRead, ResyncAnchor, ResyncDelta, ShiftQueue, slotVars
    <3>10. DecodeDone => dw' = Idle
      BY DEF DecodeDone
    <3>11. slots'[dw.slot].state = slots[dw.slot].state \/ Publish
      BY <2>3, <3>2, <3>4, <3>5, <3>6, <3>7, <3>8, <3>9, <3>10, StepSplit DEF Elsewhere
    <3> QED BY <2>3, <3>1, <3>3, <3>11
  <2>4. dw' = dw \/ DecodeDone \/ \E i \in Slots : DecodePick(i)
    <3>1. ASSUME NEW i \in Slots, Take(i)
          PROVE  dw' = dw
      BY <3>1 DEF Take
    <3>2. Publish \/ Tick \/ OpenSession \/ StartSegment \/ Anchored \/ EndOfContent
          \/ ComputeDeadline => dw' = dw
      BY DEF Publish, Tick, OpenSession, StartSegment, Anchored, EndOfContent, ComputeDeadline
    <3>3. AudioStart \/ AudioReadSeg \/ RestartReader \/ Present \/ WaitForSlot \/ DecodeWait
          \/ UNCHANGED vars => dw' = dw
      BY DEF AudioStart, AudioReadSeg, RestartReader, Present, WaitForSlot, DecodeWait, vars
    <3>4. ASSUME NEW p \in Resyncers,
                 ResyncRead(p) \/ ResyncAnchor(p) \/ ResyncDelta(p) \/ ShiftQueue(p)
                 \/ ShiftSlots(p)
          PROVE  dw' = dw
      BY <3>4 DEF ResyncRead, ResyncAnchor, ResyncDelta, ShiftQueue, ShiftSlots
    <3> QED BY <3>1, <3>2, <3>3, <3>4, StepSplit DEF Elsewhere
  <2> QED BY <2>1, <2>2, <2>3, <2>4
<1>4. pend' = NoFrame \/ pend'.frame \in Frames
  <2>1. CASE DecodeDone
    <3>1. dw.slot \in Slots /\ slots[dw.slot].state = "DECODING"
      BY <2>1 DEF DecodeDone, Holding
    <3>2. dw.slot \in Filled
      BY <3>1 DEF Filled, InState
    <3>3. slots[dw.slot].frame \in 1..rd.frame - 1
      BY <3>2 DEF Holding
    <3>4. slots[dw.slot].frame \in Frames
      BY <1>0, <3>3, Consts DEF Frames, RdShape
    <3>5. pend' = [frame |-> slots[dw.slot].frame, deadline |-> dw.deadline]
      BY <2>1 DEF DecodeDone
    <3> QED BY <3>4, <3>5
  <2>2. ~DecodeDone => pend' = pend
    <3>1. ASSUME NEW i \in Slots, Take(i) \/ DecodePick(i)
          PROVE  pend' = pend
      BY <3>1 DEF Take, DecodePick
    <3>2. Publish \/ Tick \/ OpenSession \/ StartSegment \/ Anchored \/ EndOfContent
          \/ ComputeDeadline => pend' = pend
      BY DEF Publish, Tick, OpenSession, StartSegment, Anchored, EndOfContent, ComputeDeadline
    <3>3. AudioStart \/ AudioReadSeg \/ RestartReader \/ Present \/ WaitForSlot \/ DecodeWait
          \/ UNCHANGED vars => pend' = pend
      BY DEF AudioStart, AudioReadSeg, RestartReader, Present, WaitForSlot, DecodeWait, vars
    <3>4. ASSUME NEW p \in Resyncers,
                 ResyncRead(p) \/ ResyncAnchor(p) \/ ResyncDelta(p) \/ ShiftQueue(p)
                 \/ ShiftSlots(p)
          PROVE  pend' = pend
      BY <3>4 DEF ResyncRead, ResyncAnchor, ResyncDelta, ShiftQueue, ShiftSlots
    <3> QED BY <3>1, <3>2, <3>3, <3>4, StepSplit DEF Elsewhere
  <2> QED BY <2>1, <2>2 DEF Holding
<1>5. ASSUME NEW i \in Filled'
      PROVE  slots'[i].frame \in 1..rd'.frame - 1
  <2>1. i \in Slots /\ IsFilled(slots'[i])
    BY FilledFact
  <2>2. ASSUME IsFilled(slots[i]), slots'[i].frame = slots[i].frame
        PROVE  slots'[i].frame \in 1..rd'.frame - 1
    <3>1. i \in Filled
      BY <2>1, <2>2, FilledFact
    <3>2. slots[i].frame \in 1..rd.frame - 1
      BY <3>1 DEF Holding
    <3> QED BY <1>0, <1>1, <2>2, <3>2
  <2>3. CASE Elsewhere
    BY <2>1, <2>2, <2>3, ElsewhereSlots DEF SlotsQuiet
  <2>4. CASE ComputeDeadline
    <3>1. slots' = slots
      BY <2>4 DEF ComputeDeadline, slotVars
    <3> QED BY <2>1, <2>2, <3>1
  <2>5. CASE Publish
    <3>1. CASE i = rd.slot
      <4>1. slots'[i].frame = rd.frame /\ rd'.frame = rd.frame + 1 /\ rd.frame \in Frames
        BY <2>5, <3>1, PublishFact, PublishReader
      <4> QED BY <1>0, <4>1, Consts DEF Frames
    <3>2. CASE i # rd.slot
      BY <2>1, <2>2, <2>5, <3>2, PublishFact
    <3> QED BY <3>1, <3>2
  <2>6. ASSUME NEW p \in Resyncers, ShiftSlots(p)
        PROVE  slots'[i].frame \in 1..rd'.frame - 1
    BY <2>1, <2>2, <2>6, ShiftFact DEF IsFilled
  <2> QED BY <2>3, <2>4, <2>5, <2>6, StepSplit
<1> QED BY <1>1, <1>2, <1>3, <1>4, <1>5 DEF Holding

-----------------------------------------------------------------------------
(* The anchor                                                              *)

\* What a step may do to the anchor, to the audio start and to the callers of
\* dash_resync.
LEMMA AnchorMoves ==
  ASSUME [Next]_vars
  PROVE  \/ UNCHANGED <<anchor, astart, adelay, rs>>
         \/ OpenSession \/ StartSegment \/ AudioStart \/ AudioReadSeg \/ RestartReader
         \/ \E p \in Resyncers : ResyncRead(p) \/ ResyncAnchor(p) \/ ResyncDelta(p)
                                 \/ ShiftSlots(p) \/ ShiftQueue(p)
<1>1. Tick \/ Anchored \/ ComputeDeadline \/ WaitForSlot
      => UNCHANGED <<anchor, astart, adelay, rs>>
  BY DEF Tick, Anchored, ComputeDeadline, WaitForSlot
<1>2. Publish \/ EndOfContent \/ DecodeWait \/ DecodeDone \/ Present \/ UNCHANGED vars
      => UNCHANGED <<anchor, astart, adelay, rs>>
  BY DEF Publish, EndOfContent, DecodeWait, DecodeDone, Present, vars
<1>3. ASSUME NEW i \in Slots, Take(i) \/ DecodePick(i)
      PROVE  UNCHANGED <<anchor, astart, adelay, rs>>
  BY <1>3 DEF Take, DecodePick
<1> QED BY <1>1, <1>2, <1>3 DEF Next

LEMMA RsShifts ==
  ASSUME NEW p \in Resyncers,
         ResyncRead(p) \/ ResyncAnchor(p) \/ ResyncDelta(p) \/ ShiftSlots(p) \/ ShiftQueue(p)
  PROVE  /\ UNCHANGED <<astart, adelay>>
         /\ anchor' = anchor \/ ResyncAnchor(p)
  BY DEF ResyncRead, ResyncAnchor, ResyncDelta, ShiftSlots, ShiftQueue

\* The four steps with which a caller enters dash_resync, or the audio worker
\* approaches it.
LEMMA RsEnter ==
  ASSUME TypeOK, Holding, StartSegment \/ AudioStart \/ AudioReadSeg \/ RestartReader
  PROVE  /\ rs' \in [Resyncers -> RsShape]
         /\ StartSegment \/ RestartReader => rs'["audio"] = rs["audio"]
         /\ AudioStart => rs'["audio"].pc = "seg"
         /\ AudioReadSeg => rs'["audio"].pc = IF anchor.seg = 0 THEN "done" ELSE "old"
         /\ \A q \in Resyncers : \/ rs'[q].next = rs[q].next
                                 \/ rs'[q].next \in {0, SegOf(rd.frame), anchor.seg}
<1>0. rs \in [Resyncers -> RsShape] /\ anchor.seg \in Nat
      /\ rd.frame \in Nat /\ SegOf(rd.frame) \in Nat
  <2>1. rd.frame \in Nat
    BY Shapes, Consts DEF RdShape
  <2> QED BY <2>1, Shapes, SegFact DEF Anchors
<1>01. "audio" \in Resyncers /\ "reader" \in Resyncers /\ "main" \in Resyncers
  BY DEF Resyncers
<1>1. CASE StartSegment
  <2>0. ~AudioStart /\ ~AudioReadSeg
    <3>1. rd \in RdShape
      BY Shapes
    <3>2. rd' # rd
      BY <1>1, <3>1 DEF StartSegment, RdShape
    <3> QED BY <3>2 DEF AudioStart, AudioReadSeg
  <2>1. CASE UNCHANGED rs
    BY <1>0, <2>0, <2>1
  <2>2. CASE rs' = [rs EXCEPT !["reader"].pc = "old", !["reader"].next = SegOf(rd.frame)]
    <3> DEFINE r == [rs["reader"] EXCEPT !.pc = "old", !.next = SegOf(rd.frame)]
    <3>1. rs' = [rs EXCEPT !["reader"] = r]
      BY <1>0, <1>01, <2>2 DEF RsShape
    <3>2. r \in RsShape /\ r.next = SegOf(rd.frame)
      BY <1>0, <1>01 DEF RsShape, RsPcs
    <3> HIDE DEF r
    <3>3. rs' \in [Resyncers -> RsShape] /\ rs'["reader"] = r
          /\ \A q \in Resyncers : q # "reader" => rs'[q] = rs[q]
      BY <1>0, <1>01, <3>1, <3>2, RsMoves
    <3> QED BY <1>01, <2>0, <3>2, <3>3
  <2> QED BY <1>1, <2>1, <2>2 DEF StartSegment
<1>2. CASE AudioStart
  <2> DEFINE r == [rs["audio"] EXCEPT !.pc = "seg"]
  <2>1. rs' = [rs EXCEPT !["audio"] = r]
    BY <1>0, <1>01, <1>2 DEF AudioStart, RsShape
  <2>2. r \in RsShape /\ r.next = rs["audio"].next /\ r.pc = "seg"
    BY <1>0, <1>01 DEF RsShape, RsPcs
  <2> HIDE DEF r
  <2>3. rs' \in [Resyncers -> RsShape] /\ rs'["audio"] = r
        /\ \A q \in Resyncers : q # "audio" => rs'[q] = rs[q]
    BY <1>0, <1>01, <2>1, <2>2, RsMoves
  <2>4. rs["audio"].pc = "idle" /\ rd' = rd
    BY <1>2 DEF AudioStart
  <2>5. ~AudioReadSeg /\ ~StartSegment /\ ~RestartReader
    <3>1. ~AudioReadSeg
      BY <2>4 DEF AudioReadSeg
    <3>2. rd \in RdShape
      BY Shapes
    <3>3. ~StartSegment /\ ~RestartReader
      BY <2>4, <3>2 DEF StartSegment, RestartReader, RdShape
    <3> QED BY <3>1, <3>3
  <2> QED BY <2>2, <2>3, <2>5
<1>3. CASE AudioReadSeg
  <2> DEFINE c == IF anchor.seg = 0 THEN "done" ELSE "old"
             r == [rs["audio"] EXCEPT !.next = anchor.seg, !.pc = c]
  <2>1. rs' = [rs EXCEPT !["audio"] = r]
    BY <1>0, <1>01, <1>3 DEF AudioReadSeg, RsShape
  <2>2. r \in RsShape /\ r.next = anchor.seg /\ r.pc = c
    BY <1>0, <1>01 DEF RsShape, RsPcs
  <2> HIDE DEF r, c
  <2>3. rs' \in [Resyncers -> RsShape] /\ rs'["audio"] = r
        /\ \A q \in Resyncers : q # "audio" => rs'[q] = rs[q]
    BY <1>0, <1>01, <2>1, <2>2, RsMoves
  <2>4. rs["audio"].pc = "seg" /\ rd' = rd
    BY <1>3 DEF AudioReadSeg
  <2>5. ~AudioStart /\ ~StartSegment /\ ~RestartReader
    <3>1. ~AudioStart
      BY <2>4 DEF AudioStart
    <3>2. rd \in RdShape
      BY Shapes
    <3>3. ~StartSegment /\ ~RestartReader
      BY <2>4, <3>2 DEF StartSegment, RestartReader, RdShape
    <3> QED BY <3>1, <3>3
  <2> QED BY <2>2, <2>3, <2>5 DEF c
<1>4. CASE RestartReader
  <2> DEFINE r == [rs["main"] EXCEPT !.pc = "old", !.next = 0]
  <2>1. rs' = [rs EXCEPT !["main"] = r]
    BY <1>0, <1>01, <1>4 DEF RestartReader, RsShape
  <2>2. r \in RsShape /\ r.next = 0
    BY <1>0, <1>01 DEF RsShape, RsPcs
  <2> HIDE DEF r
  <2>3. rs' \in [Resyncers -> RsShape] /\ rs'["main"] = r
        /\ \A q \in Resyncers : q # "main" => rs'[q] = rs[q]
    BY <1>0, <1>01, <2>1, <2>2, RsMoves
  <2>4. rs'["audio"] = rs["audio"] /\ rd' # rd
    <3>1. rd \in RdShape
      BY Shapes
    <3> QED BY <1>01, <1>4, <2>3, <3>1 DEF RestartReader, RdShape
  <2>5. ~AudioStart /\ ~AudioReadSeg
    BY <2>4 DEF AudioStart, AudioReadSeg
  <2> QED BY <2>2, <2>3, <2>4, <2>5
<1> QED BY <1>1, <1>2, <1>3, <1>4

LEMMA AudioSideStep ==
  ASSUME TypeOK, Holding, AudioSide, [Next]_vars
  PROVE  AudioSide'
<1>0. "audio" \in Resyncers /\ rs \in [Resyncers -> RsShape]
  BY Shapes DEF Resyncers
<1>1. CASE UNCHANGED <<anchor, astart, adelay, rs>>
  BY <1>1 DEF AudioSide
<1>2. CASE OpenSession
  BY <1>2 DEF OpenSession, NoAnchor, AudioSide
<1>3. CASE StartSegment \/ RestartReader
  <2>1. UNCHANGED <<anchor, astart, adelay>>
    BY <1>3 DEF StartSegment, RestartReader
  <2>2. rs'["audio"] = rs["audio"]
    BY <1>3, RsEnter
  <2> QED BY <2>1, <2>2 DEF AudioSide
<1>4. CASE AudioStart
  <2>1. astart' = now /\ adelay' \in Delays /\ anchor' = anchor
    BY <1>4 DEF AudioStart
  <2>2. rs'["audio"].pc = "seg"
    BY <1>4, RsEnter
  <2>3. now # 0
    BY Consts DEF TypeOK
  <2> QED BY <2>1, <2>2, <2>3 DEF AudioSide
<1>5. CASE AudioReadSeg
  <2>1. UNCHANGED <<anchor, astart, adelay>> /\ rs["audio"].pc = "seg"
    BY <1>5 DEF AudioReadSeg
  <2>2. rs'["audio"].pc = IF anchor.seg = 0 THEN "done" ELSE "old"
    BY <1>5, RsEnter
  <2> QED BY <2>1, <2>2 DEF AudioSide
<1>6. ASSUME NEW p \in Resyncers,
             ResyncRead(p) \/ ResyncAnchor(p) \/ ResyncDelta(p) \/ ShiftSlots(p) \/ ShiftQueue(p)
      PROVE  AudioSide'
  <2>1. UNCHANGED <<astart, adelay>> /\ (anchor' = anchor \/ ResyncAnchor(p))
    BY <1>6, RsShifts
  <2>2. /\ \A q \in Resyncers : q # p => rs'[q] = rs[q]
        /\ rs[p].pc \in {"old", "anchor", "delta", "slots", "queue"}
        /\ rs'[p].pc \in {"anchor", "delta", "slots", "queue", "done"}
        /\ rs'[p].pc # "anchor" /\ ~ResyncAnchor(p) => rs[p].pc \in {"delta", "slots", "queue"}
    BY <1>6, RsStep
  <2>3. rs'["audio"].pc = "idle" <=> rs["audio"].pc = "idle"
    BY <1>0, <2>2
  <2>4. astart' # 0 => adelay' \in Delays
    BY <2>1 DEF AudioSide
  <2>5. rs'["audio"].pc \in {"delta", "slots", "queue", "done"} /\ anchor'.seg # 0
          => anchor'.wall = astart' + adelay' - Playout
    <3>1. CASE ResyncAnchor(p)
      <4>1. anchor'.wall = ResyncWall
        BY <3>1 DEF ResyncAnchor
      <4>2. rs'["audio"].pc \in {"delta", "slots", "queue", "done"} => astart # 0
        BY <2>3 DEF AudioSide
      <4>3. astart # 0 => ResyncWall = astart + adelay - Playout
        BY ClockFact
      <4> QED BY <2>1, <4>1, <4>2, <4>3
    <3>2. CASE ~ResyncAnchor(p)
      <4>1. rs'["audio"].pc \in {"delta", "slots", "queue", "done"}
              => rs["audio"].pc \in {"delta", "slots", "queue", "done"}
        BY <1>0, <2>2, <3>2
      <4> QED BY <2>1, <3>2, <4>1 DEF AudioSide
    <3> QED BY <3>1, <3>2
  <2> QED BY <2>1, <2>3, <2>4, <2>5 DEF AudioSide
<1> QED BY <1>1, <1>2, <1>3, <1>4, <1>5, <1>6, AnchorMoves

LEMMA SegsBehindStep ==
  ASSUME TypeOK, Holding, AudioSide, SegsBehind, [Next]_vars
  PROVE  SegsBehind'
<1>0. rs \in [Resyncers -> RsShape] /\ rd.frame \in Nat /\ SegOf(rd.frame) \in Nat
      /\ anchor.seg \in Nat /\ \A q \in Resyncers : rs[q].next \in Nat
  <2>1. rd.frame \in Nat
    BY Shapes, Consts DEF RdShape
  <2> QED BY <2>1, Shapes, SegFact DEF Anchors, RsShape
<1>1. SegOf(rd'.frame) \in Nat /\ SegOf(rd.frame) <= SegOf(rd'.frame)
  <2>1. rd'.frame = rd.frame \/ rd'.frame = rd.frame + 1
    <3>1. ASSUME NEW p \in Resyncers, ShiftSlots(p)
          PROVE  rd' = rd
      BY <3>1 DEF ShiftSlots
    <3> QED BY <3>1, StepSplit, ElsewhereReader, ComputeFact, PublishReader
  <2>2. SegOf(rd.frame + 1) \in Nat /\ SegOf(rd.frame) <= SegOf(rd.frame + 1)
    BY <1>0, SegFact
  <2> QED BY <1>0, <2>1, <2>2
<1>2. anchor'.seg \in Nat /\ anchor'.seg <= SegOf(rd.frame)
      /\ \A q \in Resyncers : rs'[q].next \in Nat /\ rs'[q].next <= SegOf(rd.frame)
  <2>0. anchor.seg <= SegOf(rd.frame) /\ \A q \in Resyncers : rs[q].next <= SegOf(rd.frame)
    BY DEF SegsBehind
  <2>1. CASE UNCHANGED <<anchor, astart, adelay, rs>>
    BY <1>0, <2>0, <2>1
  <2>2. CASE OpenSession
    <3>1. anchor'.seg = 0 /\ rs' = rs
      BY <2>2 DEF OpenSession, NoAnchor
    <3> QED BY <1>0, <2>0, <3>1
  <2>3. CASE StartSegment \/ AudioStart \/ AudioReadSeg \/ RestartReader
    <3>1. anchor' = anchor
      BY <2>3 DEF StartSegment, AudioStart, AudioReadSeg, RestartReader
    <3>2. \A q \in Resyncers : \/ rs'[q].next = rs[q].next
                               \/ rs'[q].next \in {0, SegOf(rd.frame), anchor.seg}
      BY <2>3, RsEnter
    <3> QED BY <1>0, <2>0, <3>1, <3>2
  <2>4. ASSUME NEW p \in Resyncers,
               ResyncRead(p) \/ ResyncAnchor(p) \/ ResyncDelta(p) \/ ShiftSlots(p)
               \/ ShiftQueue(p)
        PROVE  /\ anchor'.seg \in Nat /\ anchor'.seg <= SegOf(rd.frame)
               /\ \A q \in Resyncers : rs'[q].next = rs[q].next
    <3>1. \A q \in Resyncers : rs'[q].next = rs[q].next
      BY <2>4, RsStep
    <3>2. anchor' = anchor \/ ResyncAnchor(p)
      BY <2>4, RsShifts
    <3>3. ResyncAnchor(p) => anchor'.seg = rs[p].next
      BY DEF ResyncAnchor
    <3> QED BY <1>0, <2>0, <3>1, <3>2, <3>3
  <2> QED BY <1>0, <2>0, <2>1, <2>2, <2>3, <2>4, AnchorMoves
<1> QED BY <1>0, <1>1, <1>2 DEF SegsBehind

-----------------------------------------------------------------------------
(* Deadlines                                                               *)

\* A shift moves or cuts off every frame in the slots.
LEMMA ShiftHistory ==
  ASSUME TypeOK, Holding, NEW p \in Resyncers, ShiftSlots(p)
  PROVE  /\ history' \in [Frames -> HistShape]
         /\ \A f \in Frames : /\ history'[f].clock = history[f].clock
                              /\ history'[f].seg = history[f].seg
                              /\ f \notin Moved => history'[f] = history[f]
                              /\ f \in Moved => history'[f].shifts = history[f].shifts + 1
                              /\ f \in Moved /\ (history[f].clamped \/ f \in CutOff(p))
                                   => history'[f].clamped
<1>0. history \in [Frames -> HistShape]
  BY Shapes
<1> DEFINE c(f) == history[f].clamped \/ f \in CutOff(p)
           new(f) == IF f \in Moved
                       THEN [history[f] EXCEPT !.shifts = history[f].shifts + 1, !.clamped = c(f)]
                       ELSE history[f]
<1>1. history' = [f \in Frames |-> new(f)]
  BY DEF ShiftSlots
<1>2. ASSUME NEW f \in Frames
      PROVE  /\ new(f) \in HistShape
             /\ new(f).clock = history[f].clock /\ new(f).seg = history[f].seg
             /\ f \notin Moved => new(f) = history[f]
             /\ f \in Moved => new(f).shifts = history[f].shifts + 1 /\ (c(f) => new(f).clamped)
  <2>1. history[f] \in HistShape /\ history[f].shifts + 1 \in Nat
    BY <1>0 DEF HistShape
  <2>2. c(f) \in BOOLEAN
    BY <2>1 DEF HistShape
  <2> HIDE DEF c
  <2>3. CASE f \in Moved
    BY <2>1, <2>2, <2>3 DEF HistShape
  <2>4. CASE f \notin Moved
    BY <2>1, <2>4
  <2> QED BY <2>3, <2>4
<1>3. \A f \in Frames : history'[f] = new(f)
  BY <1>1
<1> HIDE DEF new
<1>4. history' \in [Frames -> HistShape]
  BY <1>1, <1>2
<1> QED BY <1>2, <1>3, <1>4

\* Frames in the slots are frames of the stream that the reader is past.
LEMMA FilledFrame ==
  ASSUME TypeOK, Holding, NEW i \in Filled
  PROVE  /\ i \in Slots /\ slots[i].frame \in Frames /\ slots[i].frame < rd.frame
         /\ slots[i].frame \in Nat /\ slots[i].deadline \in Nat /\ rd.frame \in Nat
         /\ history[slots[i].frame] \in HistShape
<1>1. i \in Slots
  BY FilledFact
<1>2. slots[i] \in SlotShape /\ rd.frame \in 1..MaxFrames+1
  BY <1>1, Shapes DEF RdShape
<1>3. slots[i].frame \in 1..rd.frame - 1
  BY DEF Holding
<1>4. slots[i].frame \in Frames /\ slots[i].frame < rd.frame /\ slots[i].frame \in Nat
      /\ rd.frame \in Nat
  BY <1>2, <1>3, Consts DEF Frames
<1>5. slots[i].deadline \in Nat /\ history[slots[i].frame] \in HistShape
  BY <1>2, <1>4, Shapes DEF SlotShape
<1> QED BY <1>1, <1>4, <1>5

LEMMA ComputedStep ==
  ASSUME TypeOK, Holding, AudioSide, SegsBehind, Computed, [Next]_vars
  PROVE  Computed'
<1>0. rd \in RdShape /\ rd.frame \in Nat /\ history \in [Frames -> HistShape]
  BY Shapes, Consts DEF RdShape
<1>1. CASE Elsewhere
  <2>1. SlotsQuiet /\ history' = history
    BY <1>1, ElsewhereSlots
  <2>2. /\ rd'.frame = rd.frame
        /\ rd'.pc \in {"take", "publish"} =>
             rd.pc \in {"take", "publish"} /\ rd'.deadline = rd.deadline
    BY <1>1, ElsewhereReader
  <2>3. ASSUME NEW i \in Filled'
        PROVE  i \in Filled /\ slots'[i].frame = slots[i].frame
               /\ slots'[i].deadline = slots[i].deadline
    BY <2>1, FilledFact DEF SlotsQuiet
  <2> QED BY <2>1, <2>2, <2>3 DEF Computed, Place
<1>2. CASE ComputeDeadline
  <2>1. /\ rd.frame \in Frames /\ rd'.frame = rd.frame /\ rd'.pc = "take"
        /\ rd'.deadline = ClockBase + Place(rd.frame, anchor.seg)
        /\ history'[rd.frame].clock = ClockBase /\ history'[rd.frame].seg = anchor.seg
        /\ history'[rd.frame].shifts = history[rd.frame].shifts
        /\ \A f \in Frames : f # rd.frame => history'[f] = history[f]
    BY <1>2, ComputeFact
  <2>2. slots' = slots
    BY <1>2 DEF ComputeDeadline, slotVars
  <2>3. Filled' = Filled
    BY <2>2 DEF Filled, InState
  <2>4. \A f \in Frames : f >= rd'.frame => history'[f].shifts = 0
    BY <2>1 DEF Computed
  <2>5. ASSUME NEW i \in Filled
        PROVE  history'[slots[i].frame] = history[slots[i].frame]
    <3>1. slots[i].frame \in Frames /\ slots[i].frame # rd.frame
      BY FilledFrame
    <3> QED BY <2>1, <3>1
  <2> QED BY <2>1, <2>2, <2>3, <2>4, <2>5 DEF Computed, Place
<1>3. CASE Publish
  <2>1. /\ slots' \in [Slots -> SlotShape] /\ rd.slot \in Slots
        /\ slots'[rd.slot] = [state |-> "READY", frame |-> rd.frame, deadline |-> rd.deadline]
        /\ \A j \in Slots : j # rd.slot => slots'[j] = slots[j]
    BY <1>3, PublishFact
  <2>2. rd'.frame = rd.frame + 1 /\ rd'.pc \in {"segment", "deadline"}
    BY <1>3, PublishReader
  <2>3. history' = history /\ rd.pc = "publish"
    BY <1>3 DEF Publish
  <2>4. \A f \in Frames : f >= rd'.frame => history'[f].shifts = 0
    <3>1. \A f \in Frames : f >= rd.frame + 1 => f >= rd.frame
      BY <1>0, Consts DEF Frames
    <3> QED BY <2>2, <2>3, <3>1 DEF Computed
  <2>5. ASSUME NEW i \in Filled', history[slots'[i].frame].shifts = 0
        PROVE  slots'[i].deadline = history[slots'[i].frame].clock
                                      + Place(slots'[i].frame, history[slots'[i].frame].seg)
    <3>1. CASE i = rd.slot
      <4>1. slots'[i].frame = rd.frame /\ slots'[i].deadline = rd.deadline
        BY <2>1, <3>1
      <4> QED BY <2>3, <4>1 DEF Computed
    <3>2. CASE i # rd.slot
      <4>1. i \in Slots /\ slots'[i] = slots[i]
        BY <2>1, <3>2, FilledFact
      <4>2. i \in Filled
        BY <4>1, FilledFact
      <4> QED BY <2>5, <4>1, <4>2 DEF Computed
    <3> QED BY <3>1, <3>2
  <2> QED BY <2>2, <2>3, <2>4, <2>5 DEF Computed, Place
<1>4. ASSUME NEW p \in Resyncers, ShiftSlots(p)
      PROVE  Computed'
  <2>1. rd' = rd
    BY <1>4 DEF ShiftSlots
  <2>2. \A f \in Frames : /\ history'[f].clock = history[f].clock
                          /\ history'[f].seg = history[f].seg
                          /\ f \notin Moved => history'[f] = history[f]
                          /\ f \in Moved => history'[f].shifts = history[f].shifts + 1
    BY <1>4, ShiftHistory
  <2>3. ASSUME NEW f \in Frames, f >= rd.frame
        PROVE  history'[f].shifts = 0
    <3>1. f \notin Moved
      <4>1. ASSUME NEW i \in Filled, slots[i].frame = f
            PROVE  FALSE
        BY <1>0, <2>3, <4>1, FilledFrame
      <4> QED BY <4>1 DEF Moved
    <3> QED BY <2>2, <2>3, <3>1 DEF Computed
  <2>4. rd.pc \in {"take", "publish"} =>
          rd.deadline = history'[rd.frame].clock + Place(rd.frame, history'[rd.frame].seg)
    BY <2>2 DEF Computed, Holding
  <2>5. ASSUME NEW i \in Filled'
        PROVE  history'[slots'[i].frame].shifts # 0
    <3>1. i \in Slots /\ i \in Filled /\ slots'[i].frame = slots[i].frame
      BY <1>4, FilledFact, ShiftFact DEF IsFilled
    <3>2. slots[i].frame \in Frames /\ slots[i].frame \in Moved
          /\ history[slots[i].frame].shifts \in Nat
      BY <3>1, FilledFrame DEF Moved, HistShape
    <3> QED BY <2>2, <3>1, <3>2
  <2> QED BY <2>1, <2>3, <2>4, <2>5 DEF Computed, Place
<1> QED BY <1>1, <1>2, <1>3, <1>4, StepSplit

\* Deadlines on one clock keep the order of the stream.
LEMMA OrderStep ==
  ASSUME TypeOK, Holding, AudioSide, SegsBehind, Computed, OrderWithinClock, [Next]_vars
  PROVE  OrderWithinClock'
<1> DEFINE a(i) == history[slots[i].frame]
           b(i) == history'[slots'[i].frame]
<1>0. SUFFICES ASSUME NEW i \in Slots, NEW j \in Slots,
                      slots'[i].state = "READY", slots'[j].state = "READY",
                      slots'[i].frame < slots'[j].frame,
                      b(i).clock = b(j).clock, b(i).seg = b(j).seg, b(i).shifts = b(j).shifts
               PROVE  \/ slots'[i].deadline < slots'[j].deadline
                      \/ slots'[i].deadline = slots'[j].deadline /\ b(i).clamped
  BY FilledFact DEF OrderWithinClock
<1>1. ASSUME slots[i].state = "READY", slots[j].state = "READY",
             slots[i].frame < slots[j].frame,
             a(i).clock = a(j).clock, a(i).seg = a(j).seg, a(i).shifts = a(j).shifts
      PROVE  \/ slots[i].deadline < slots[j].deadline
             \/ slots[i].deadline = slots[j].deadline /\ a(i).clamped
  BY <1>1 DEF OrderWithinClock, InState
<1>2. \A k \in Slots : slots[k].state = "READY" => k \in Filled
  BY DEF Filled, InState
<1>3. CASE Elsewhere
  <2>1. /\ slots[i].state = "READY" /\ slots[j].state = "READY" /\ history' = history
        /\ slots'[i].frame = slots[i].frame /\ slots'[i].deadline = slots[i].deadline
        /\ slots'[j].frame = slots[j].frame /\ slots'[j].deadline = slots[j].deadline
    BY <1>0, <1>3, ElsewhereSlots DEF SlotsQuiet, IsFilled
  <2> QED BY <1>0, <1>1, <2>1
<1>4. CASE ComputeDeadline
  <2>1. slots' = slots
    BY <1>4 DEF ComputeDeadline, slotVars
  <2>2. \A k \in Filled : history'[slots[k].frame] = history[slots[k].frame]
    <3> TAKE k \in Filled
    <3>1. slots[k].frame \in Frames /\ slots[k].frame # rd.frame
      BY FilledFrame
    <3> QED BY <1>4, <3>1, ComputeFact
  <2>3. i \in Filled /\ j \in Filled
    BY <1>0, <1>2, <2>1
  <2> QED BY <1>0, <1>1, <2>1, <2>2, <2>3
<1>5. CASE Publish
  <2>1. /\ slots'[rd.slot] = [state |-> "READY", frame |-> rd.frame, deadline |-> rd.deadline]
        /\ \A k \in Slots : k # rd.slot => slots'[k] = slots[k]
    BY <1>5, PublishFact
  <2>2. history' = history /\ rd.pc = "publish" /\ rd.frame \in Frames /\ rd.frame \in Nat
    BY <1>5, PublishReader, Consts DEF Publish, Frames
  <2>3. \A k \in Slots : k # rd.slot /\ slots'[k].state = "READY" =>
                           slots'[k] = slots[k] /\ k \in Filled /\ slots[k].state = "READY"
    BY <1>2, <2>1
  <2>4. CASE i # rd.slot /\ j # rd.slot
    BY <1>0, <1>1, <2>2, <2>3, <2>4
  <2>5. CASE i = rd.slot
    <3>1. slots'[i].frame < slots'[j].frame /\ slots'[j].state = "READY"
      BY <1>0
    <3> HIDE DEF a, b
    <3>2. slots'[i].frame = rd.frame
      BY <2>1, <2>5
    <3>3. j # rd.slot
      BY <2>2, <2>5, <3>1, <3>2
    <3>4. j \in Filled /\ slots'[j] = slots[j]
      BY <2>3, <3>1, <3>3
    <3>5. slots'[j].frame < rd.frame /\ slots'[j].frame \in Nat
      BY <3>4, FilledFrame
    <3> QED BY <2>2, <3>1, <3>2, <3>5
  <2>6. CASE j = rd.slot /\ i # rd.slot
    <3>1. i \in Filled /\ slots'[i] = slots[i] /\ slots'[j].frame = rd.frame
          /\ slots'[j].deadline = rd.deadline
      <4>1. slots'[j].frame = rd.frame /\ slots'[j].deadline = rd.deadline
        BY <2>1, <2>6
      <4>2. slots'[i].state = "READY" /\ i # rd.slot
        BY <1>0, <2>6
      <4>3. i \in Filled /\ slots'[i] = slots[i]
        BY <2>3, <4>2
      <4> QED BY <4>1, <4>3
    <3>2. b(j) = history[rd.frame] /\ b(i) = a(i)
      BY <2>2, <3>1
    <3>3. a(i).shifts = 0
      <4>1. history[rd.frame].shifts = 0
        BY <2>2 DEF Computed
      <4> QED BY <1>0, <3>2, <4>1
    <3>4. slots[i].deadline = a(i).clock + Place(slots[i].frame, a(i).seg)
      BY <3>1, <3>3 DEF Computed
    <3>5. rd.deadline = history[rd.frame].clock + Place(rd.frame, history[rd.frame].seg)
      BY <2>2 DEF Computed
    <3>6. a(i).clock = history[rd.frame].clock /\ a(i).seg = history[rd.frame].seg
      BY <1>0, <3>2
    <3>7. slots[i].frame \in Nat /\ slots[i].frame < rd.frame /\ a(i).clock \in Nat
          /\ a(i).seg \in Nat
      BY <3>1, FilledFrame DEF HistShape
    <3>8. /\ Place(slots[i].frame, a(i).seg) \in Int /\ Place(rd.frame, a(i).seg) \in Int
          /\ Place(slots[i].frame, a(i).seg) < Place(rd.frame, a(i).seg)
      BY <2>2, <3>7, PlaceFact
    <3> HIDE DEF a, b
    <3>9. slots[i].deadline < rd.deadline
      <4> DEFINE c == a(i).clock
                 u == Place(slots[i].frame, a(i).seg)
                 v == Place(rd.frame, a(i).seg)
      <4>1. slots[i].deadline = c + u
        BY <3>4
      <4>2. rd.deadline = c + v
        BY <3>5, <3>6
      <4>3. c \in Int /\ u \in Int /\ v \in Int /\ u < v
        BY <3>7, <3>8
      <4> HIDE DEF c, u, v
      <4> QED BY <4>1, <4>2, <4>3
    <3> QED BY <3>1, <3>9
  <2> QED BY <2>4, <2>5, <2>6
<1>6. ASSUME NEW p \in Resyncers, ShiftSlots(p)
      PROVE  \/ slots'[i].deadline < slots'[j].deadline
             \/ slots'[i].deadline = slots'[j].deadline /\ b(i).clamped
  <2>1. /\ slots[i].state = "READY" /\ slots'[i].frame = slots[i].frame
        /\ slots[j].state = "READY" /\ slots'[j].frame = slots[j].frame
    BY <1>0, <1>6, ShiftFact
  <2>2. i \in Filled /\ j \in Filled
    BY <1>2, <2>1
  <2>3. /\ slots'[i].deadline = Shifted(slots[i].deadline, p)
        /\ slots'[j].deadline = Shifted(slots[j].deadline, p)
    BY <1>6, <2>2, ShiftFact
  <2>4. /\ slots[i].frame \in Frames /\ slots[i].deadline \in Nat /\ a(i) \in HistShape
        /\ slots[j].frame \in Frames /\ slots[j].deadline \in Nat /\ a(j) \in HistShape
    BY <2>2, FilledFrame
  <2>5. slots[i].frame \in Moved /\ slots[j].frame \in Moved
    BY <2>2 DEF Moved
  <2>6. /\ b(i).clock = a(i).clock /\ b(i).seg = a(i).seg /\ b(i).shifts = a(i).shifts + 1
        /\ b(j).clock = a(j).clock /\ b(j).seg = a(j).seg /\ b(j).shifts = a(j).shifts + 1
        /\ a(i).clamped \/ slots[i].frame \in CutOff(p) => b(i).clamped
    <3>1. ASSUME NEW f \in Frames, f \in Moved
          PROVE  /\ history'[f].clock = history[f].clock /\ history'[f].seg = history[f].seg
                 /\ history'[f].shifts = history[f].shifts + 1
                 /\ history[f].clamped \/ f \in CutOff(p) => history'[f].clamped
      BY <1>6, <3>1, ShiftHistory
    <3>2. b(i) = history'[slots[i].frame] /\ b(j) = history'[slots[j].frame]
      BY <2>1
    <3> HIDE DEF b
    <3>3. /\ b(i).clock = a(i).clock /\ b(i).seg = a(i).seg /\ b(i).shifts = a(i).shifts + 1
          /\ a(i).clamped \/ slots[i].frame \in CutOff(p) => b(i).clamped
      BY <2>4, <2>5, <3>1, <3>2
    <3>4. b(j).clock = a(j).clock /\ b(j).seg = a(j).seg /\ b(j).shifts = a(j).shifts + 1
      BY <2>4, <2>5, <3>1, <3>2
    <3> QED BY <3>3, <3>4
  <2>7. a(i).shifts \in Nat /\ a(j).shifts \in Nat
    BY <2>4 DEF HistShape
  <2>8. a(i).clock = a(j).clock /\ a(i).seg = a(j).seg
    BY <1>0, <2>6
  <2>9. a(i).shifts = a(j).shifts
    <3>1. a(i).shifts + 1 = a(j).shifts + 1
      BY <1>0, <2>6
    <3> HIDE DEF a
    <3> QED BY <2>7, <3>1
  <2>10. \/ slots[i].deadline < slots[j].deadline
         \/ slots[i].deadline = slots[j].deadline /\ a(i).clamped
    BY <1>0, <1>1, <2>1, <2>8, <2>9
  <2>11. slots[i].deadline + rs[p].delta < 0 => slots[i].frame \in CutOff(p)
    BY <2>2 DEF CutOff
  <2>12. CASE slots[i].deadline < slots[j].deadline
    <3>1. \/ Shifted(slots[i].deadline, p) < Shifted(slots[j].deadline, p)
          \/ /\ Shifted(slots[i].deadline, p) = Shifted(slots[j].deadline, p)
             /\ slots[i].deadline + rs[p].delta < 0
      BY <2>4, <2>12, ShiftedFact
    <3> QED BY <2>3, <2>6, <2>11, <3>1
  <2>13. CASE slots[i].deadline = slots[j].deadline /\ a(i).clamped
    BY <2>3, <2>6, <2>13
  <2> QED BY <2>10, <2>12, <2>13
<1> QED BY <1>3, <1>4, <1>5, <1>6, StepSplit

-----------------------------------------------------------------------------
(* Types                                                                   *)

\* The mutex and the sleepers of the pool.
LEMMA PoolTyped ==
  ASSUME TypeOK, [Next]_vars
  PROVE  fmu' \in {"free", "orphaned"} /\ asleep' \in SUBSET {"taker", "picker"}
<1>0. fmu \in {"free", "orphaned"} /\ asleep \in SUBSET {"taker", "picker"}
  BY DEF TypeOK, SlotsTypeOK
<1>1. CASE /\ fmu' = fmu
           /\ asleep' \in {asleep, asleep \cup {"taker"}, asleep \cup {"picker"},
                           asleep \ {"taker"}, asleep \ {"picker"}}
  BY <1>0, <1>1
<1>2. Tick \/ OpenSession \/ StartSegment \/ Anchored \/ ComputeDeadline => UNCHANGED <<fmu, asleep>>
  BY DEF Tick, OpenSession, StartSegment, Anchored, ComputeDeadline, slotVars
<1>3. EndOfContent \/ AudioStart \/ AudioReadSeg \/ RestartReader => UNCHANGED <<fmu, asleep>>
  BY DEF EndOfContent, AudioStart, AudioReadSeg, RestartReader, slotVars
<1>4. Present \/ UNCHANGED vars => UNCHANGED <<fmu, asleep>>
  BY DEF Present, vars, slotVars
<1>5. ASSUME NEW p \in Resyncers,
             ResyncRead(p) \/ ResyncAnchor(p) \/ ResyncDelta(p) \/ ShiftSlots(p) \/ ShiftQueue(p)
      PROVE  UNCHANGED <<fmu, asleep>>
  BY <1>5 DEF ResyncRead, ResyncAnchor, ResyncDelta, ShiftSlots, ShiftQueue, slotVars
<1>6. ASSUME NEW i \in Slots, Take(i) \/ DecodePick(i)
      PROVE  UNCHANGED <<fmu, asleep>>
  BY <1>6 DEF Take, TakeWrite, DecodePick, MarkDecoding
<1>7. WaitForSlot => fmu' = fmu /\ asleep' = asleep \cup {"taker"}
  BY DEF WaitForSlot, TakeWait
<1>8. DecodeWait => fmu' = fmu /\ asleep' = asleep \cup {"picker"}
  BY DEF DecodeWait, PickWait
<1>9. Publish => fmu' = fmu /\ asleep' = asleep \ {"picker"}
  BY DEF Publish, slot_publish
<1>10. DecodeDone => fmu' = fmu /\ (asleep' = asleep \/ asleep' = asleep \ {"taker"})
  BY DEF DecodeDone, slot_release, slotVars
<1> QED BY <1>1, <1>2, <1>3, <1>4, <1>5, <1>6, <1>7, <1>8, <1>9, <1>10 DEF Next

\* The clock, the anchor and the counters.
LEMMA ClockTyped ==
  ASSUME TypeOK, Holding, AudioSide, [Next]_vars
  PROVE  /\ now' \in Origin..Origin+MaxTicks /\ anchor' \in Anchors
         /\ astart' \in {0} \cup (Origin..Origin+MaxTicks) /\ adelay' \in Delays \cup {0}
         /\ restarts' \in 0..MaxRestarts /\ eos' \in Nat
<1>0. /\ now \in Origin..Origin+MaxTicks /\ anchor \in Anchors
      /\ astart \in {0} \cup (Origin..Origin+MaxTicks) /\ adelay \in Delays \cup {0}
      /\ restarts \in 0..MaxRestarts /\ eos \in Nat
  BY DEF TypeOK, Anchors
<1>1. CASE UNCHANGED <<now, anchor, astart, adelay, restarts, eos>>
  BY <1>0, <1>1
<1>2. StartSegment \/ Anchored \/ ComputeDeadline \/ WaitForSlot \/ Publish \/ AudioReadSeg
      => UNCHANGED <<now, anchor, astart, adelay, restarts, eos>>
  BY DEF StartSegment, Anchored, ComputeDeadline, WaitForSlot, Publish, AudioReadSeg
<1>3. DecodeWait \/ DecodeDone \/ Present \/ UNCHANGED vars
      => UNCHANGED <<now, anchor, astart, adelay, restarts, eos>>
  BY DEF DecodeWait, DecodeDone, Present, vars
<1>4. ASSUME NEW i \in Slots, Take(i) \/ DecodePick(i)
      PROVE  UNCHANGED <<now, anchor, astart, adelay, restarts, eos>>
  BY <1>4 DEF Take, DecodePick
<1>5. ASSUME NEW p \in Resyncers,
             ResyncRead(p) \/ ResyncDelta(p) \/ ShiftSlots(p) \/ ShiftQueue(p)
      PROVE  UNCHANGED <<now, anchor, astart, adelay, restarts, eos>>
  BY <1>5 DEF ResyncRead, ResyncDelta, ShiftSlots, ShiftQueue
<1>6. CASE Tick
  <2>1. now' = now + 1 /\ now < Origin + MaxTicks
        /\ UNCHANGED <<anchor, astart, adelay, restarts, eos>>
    BY <1>6 DEF Tick
  <2>2. now' \in Origin..Origin+MaxTicks
    BY <1>0, <2>1, Consts
  <2> QED BY <1>0, <2>1, <2>2
<1>7. CASE OpenSession
  <2>1. anchor' = NoAnchor /\ UNCHANGED <<now, astart, adelay, restarts, eos>>
    BY <1>7 DEF OpenSession
  <2>2. NoAnchor \in Anchors
    BY DEF NoAnchor, Anchors
  <2> QED BY <1>0, <2>1, <2>2
<1>8. CASE EndOfContent
  <2>1. eos' = anchor.wall + SegOf(MaxFrames) * SegLen + Playout + Margin
        /\ UNCHANGED <<now, anchor, astart, adelay, restarts>>
    BY <1>8 DEF EndOfContent
  <2>2. SegOf(MaxFrames) \in Nat /\ anchor.wall \in Nat
    BY <1>0, Consts, SegFact DEF Anchors
  <2>3. SegOf(MaxFrames) * SegLen \in Nat
    BY <2>2, Consts
  <2>4. eos' \in Nat
    BY <2>1, <2>2, <2>3, Consts
  <2> QED BY <1>0, <2>1, <2>4
<1>9. CASE AudioStart
  <2>1. astart' = now /\ adelay' \in Delays /\ UNCHANGED <<now, anchor, restarts, eos>>
    BY <1>9 DEF AudioStart
  <2> QED BY <1>0, <2>1
<1>10. CASE RestartReader
  <2>1. restarts < MaxRestarts /\ restarts' = restarts + 1
        /\ UNCHANGED <<now, anchor, astart, adelay, eos>>
    BY <1>10 DEF RestartReader
  <2>2. restarts' \in 0..MaxRestarts
    BY <1>0, <2>1, Consts
  <2> QED BY <1>0, <2>1, <2>2
<1>11. ASSUME NEW p \in Resyncers, ResyncAnchor(p)
       PROVE  anchor' \in Anchors /\ UNCHANGED <<now, astart, adelay, restarts, eos>>
  <2>1. anchor' = [wall |-> ResyncWall, seg |-> rs[p].next]
        /\ UNCHANGED <<now, astart, adelay, restarts, eos>>
    BY <1>11 DEF ResyncAnchor
  <2>2. ResyncWall \in Nat /\ rs[p].next \in Nat
    BY ClockFact, Shapes DEF RsShape
  <2> QED BY <2>1, <2>2 DEF Anchors
<1>12. CASE \E p \in Resyncers : ResyncAnchor(p)
  BY <1>0, <1>11, <1>12
<1> QED BY <1>1, <1>2, <1>3, <1>4, <1>5, <1>6, <1>7, <1>8, <1>9, <1>10, <1>12 DEF Next

\* A shift of the present queue leaves deadlines in it.
LEMMA QueueShift ==
  ASSUME TypeOK, NEW p \in Resyncers, ShiftQueue(p)
  PROVE  pq' \in Seq(QueueShape)
<1>1. pq \in Seq(QueueShape)
  BY Shapes
<1> DEFINE new(k) == [pq[k] EXCEPT !.deadline =
                        IF pq[k].deadline = 0 THEN 0 ELSE Shifted(pq[k].deadline, p)]
<1>2. pq' = [k \in DOMAIN pq |-> new(k)]
  BY DEF ShiftQueue
<1>3. ASSUME NEW k \in DOMAIN pq
      PROVE  new(k) \in QueueShape
  <2>1. pq[k] \in QueueShape
    BY <1>1
  <2>2. pq[k].deadline \in Nat
    BY <2>1 DEF QueueShape
  <2>3. Shifted(pq[k].deadline, p) \in Nat
    BY <2>2, ShiftedFact
  <2> QED BY <2>1, <2>3 DEF QueueShape
<1> HIDE DEF new
<1>4. DOMAIN pq = 1..Len(pq) /\ Len(pq) \in Nat
  BY <1>1
<1>5. pq' \in [1..Len(pq) -> QueueShape]
  BY <1>2, <1>3, <1>4
<1> QED BY <1>4, <1>5

\* The decode worker, the conversion stage and the present queue.
LEMMA QueueTyped ==
  ASSUME TypeOK, Holding, [Next]_vars
  PROVE  /\ dw' \in [slot : Slots \cup {-1}, deadline : Nat]
         /\ pend' \in [frame : 0..MaxFrames, deadline : Nat]
         /\ pq' \in Seq(QueueShape) /\ ready' \in BOOLEAN
<1>0. /\ dw \in [slot : Slots \cup {-1}, deadline : Nat]
      /\ pend \in [frame : 0..MaxFrames, deadline : Nat]
      /\ pq \in Seq(QueueShape) /\ ready \in BOOLEAN
  BY DEF TypeOK, QueueShape
<1>1. CASE UNCHANGED <<dw, pend, pq, ready>>
  BY <1>0, <1>1
<1>2. Tick \/ OpenSession \/ StartSegment \/ Anchored \/ ComputeDeadline \/ WaitForSlot
      => UNCHANGED <<dw, pend, pq, ready>>
  BY DEF Tick, OpenSession, StartSegment, Anchored, ComputeDeadline, WaitForSlot
<1>3. Publish \/ EndOfContent \/ AudioStart \/ AudioReadSeg \/ RestartReader
      => UNCHANGED <<dw, pend, pq, ready>>
  BY DEF Publish, EndOfContent, AudioStart, AudioReadSeg, RestartReader
<1>4. DecodeWait \/ UNCHANGED vars => UNCHANGED <<dw, pend, pq, ready>>
  BY DEF DecodeWait, vars
<1>5. ASSUME NEW p \in Resyncers,
             ResyncRead(p) \/ ResyncAnchor(p) \/ ResyncDelta(p) \/ ShiftSlots(p)
      PROVE  UNCHANGED <<dw, pend, pq, ready>>
  BY <1>5 DEF ResyncRead, ResyncAnchor, ResyncDelta, ShiftSlots
<1>6. ASSUME NEW i \in Slots, Take(i)
      PROVE  UNCHANGED <<dw, pend, pq, ready>>
  BY <1>6 DEF Take
<1>7. ASSUME NEW p \in Resyncers, ShiftQueue(p)
      PROVE  pq' \in Seq(QueueShape) /\ UNCHANGED <<dw, pend, ready>>
  BY <1>7, QueueShift DEF ShiftQueue
<1>8. ASSUME NEW i \in Slots, DecodePick(i)
      PROVE  dw' \in [slot : Slots \cup {-1}, deadline : Nat] /\ UNCHANGED <<pend, pq, ready>>
  <2>1. dw' = [slot |-> i, deadline |-> slots[i].deadline] /\ UNCHANGED <<pend, pq, ready>>
    BY <1>8 DEF DecodePick
  <2>2. slots[i].deadline \in Nat
    BY Shapes DEF SlotShape
  <2> QED BY <2>1, <2>2
<1>9. CASE Present
  <2>1. pq' = Tail(pq) /\ pq # <<>> /\ UNCHANGED <<dw, pend, ready>>
    BY <1>9 DEF Present
  <2> QED BY <1>0, <2>1
<1>10. CASE DecodeDone
  <2>1. dw' = Idle /\ pend' = [frame |-> slots[dw.slot].frame, deadline |-> dw.deadline]
        /\ dw # Idle
    BY <1>10 DEF DecodeDone
  <2>2. dw.slot \in Filled
    BY <2>1 DEF Holding, Filled, InState
  <2>3. slots[dw.slot].frame \in Frames /\ dw.deadline \in Nat
    BY <1>0, <2>2, FilledFrame
  <2>4. slots[dw.slot].frame \in 0..MaxFrames
    BY <2>3, Consts DEF Frames
  <2>5. pend' \in [frame : 0..MaxFrames, deadline : Nat]
    BY <2>1, <2>3, <2>4
  <2>6. dw' \in [slot : Slots \cup {-1}, deadline : Nat]
    BY <2>1 DEF Idle
  <2>7. CASE pend = NoFrame
    BY <1>0, <1>10, <2>5, <2>6, <2>7 DEF DecodeDone
  <2>8. CASE pend # NoFrame
    <3>1. pq' = Append(pq, pend) /\ ready' = TRUE
      BY <1>10, <2>8 DEF DecodeDone
    <3>2. pend \in QueueShape
      BY <1>0, <2>8 DEF Holding, QueueShape
    <3>3. pq' \in Seq(QueueShape)
      BY <1>0, <3>1, <3>2
    <3> QED BY <2>5, <2>6, <3>1, <3>3
  <2> QED BY <2>7, <2>8
<1>11. CASE \E i \in Slots : DecodePick(i)
  BY <1>0, <1>8, <1>11
<1>12. CASE \E p \in Resyncers : ShiftQueue(p)
  BY <1>0, <1>7, <1>12
<1> QED BY <1>1, <1>2, <1>3, <1>4, <1>5, <1>6, <1>9, <1>10, <1>11, <1>12 DEF Next

LEMMA TypedStep ==
  ASSUME TypeOK, Holding, AudioSide, SegsBehind, [Next]_vars
  PROVE  TypeOK'
<1>1. rd' \in RdShape
  <2>1. ASSUME NEW p \in Resyncers, ShiftSlots(p)
        PROVE  rd' = rd
    BY <2>1 DEF ShiftSlots
  <2> QED BY <2>1, StepSplit, ElsewhereReader, ComputeFact, PublishReader, Shapes
<1>2. rs' \in [Resyncers -> RsShape]
  <2>1. CASE UNCHANGED rs
    BY <2>1, Shapes
  <2>2. OpenSession => UNCHANGED rs
    BY DEF OpenSession
  <2>3. CASE StartSegment \/ AudioStart \/ AudioReadSeg \/ RestartReader
    BY <2>3, RsEnter
  <2>4. ASSUME NEW p \in Resyncers,
               ResyncRead(p) \/ ResyncAnchor(p) \/ ResyncDelta(p) \/ ShiftSlots(p)
               \/ ShiftQueue(p)
        PROVE  rs' \in [Resyncers -> RsShape]
    BY <2>4, RsStep
  <2> QED BY <2>1, <2>2, <2>3, <2>4, AnchorMoves
<1>3. slots' \in [Slots -> SlotShape]
  <2>1. ComputeDeadline => slots' = slots
    BY DEF ComputeDeadline, slotVars
  <2>2. Elsewhere => slots' \in [Slots -> SlotShape]
    BY ElsewhereSlots DEF SlotsQuiet
  <2>3. Publish => slots' \in [Slots -> SlotShape]
    BY PublishFact
  <2>4. ASSUME NEW p \in Resyncers, ShiftSlots(p)
        PROVE  slots' \in [Slots -> SlotShape]
    BY <2>4, ShiftFact
  <2> QED BY <2>1, <2>2, <2>3, <2>4, StepSplit, Shapes
<1>4. history' \in [Frames -> HistShape]
  <2>1. Elsewhere \/ Publish => history' = history
    BY ElsewhereSlots DEF Publish
  <2>2. ComputeDeadline => history' \in [Frames -> HistShape]
    BY ComputeFact
  <2>3. ASSUME NEW p \in Resyncers, ShiftSlots(p)
        PROVE  history' \in [Frames -> HistShape]
    BY <2>3, ShiftHistory
  <2> QED BY <2>1, <2>2, <2>3, StepSplit, Shapes
<1>5. SlotsTypeOK'
  BY <1>3, PoolTyped DEF SlotsTypeOK, SlotShape
<1>6. /\ now' \in Origin..Origin+MaxTicks /\ anchor' \in Anchors
      /\ astart' \in {0} \cup (Origin..Origin+MaxTicks) /\ adelay' \in Delays \cup {0}
      /\ restarts' \in 0..MaxRestarts /\ eos' \in Nat
  BY ClockTyped
<1>7. /\ dw' \in [slot : Slots \cup {-1}, deadline : Nat]
      /\ pend' \in [frame : 0..MaxFrames, deadline : Nat]
      /\ pq' \in Seq(QueueShape) /\ ready' \in BOOLEAN
  BY QueueTyped
<1> QED BY <1>1, <1>2, <1>4, <1>5, <1>6, <1>7
        DEF TypeOK, RdShape, RdPcs, RsShape, RsPcs, Anchors, HistShape, QueueShape

-----------------------------------------------------------------------------
(* The theorems                                                            *)

LEMMA TimelineStart ==
  ASSUME Init
  PROVE  TimelineInv
<1>1. Filled = {} /\ InState("READY") = {}
  BY DEF Init, SlotsInit, Filled, InState
<1>2. SlotsTypeOK
  BY DEF Init, SlotsInit, SlotsTypeOK, SlotStates
<1>3. rd \in RdShape /\ rd.frame = 1 /\ rd.pc = "open"
  <2>1. 1 \in 1..MaxFrames+1
    BY Consts
  <2> QED BY <2>1 DEF Init, RdShape, RdPcs
<1>4. rs \in [Resyncers -> RsShape] /\ \A p \in Resyncers : rs[p].pc = "idle" /\ rs[p].next = 0
  BY DEF Init, RsShape, RsPcs, Anchors, NoAnchor
<1>5. history \in [Frames -> HistShape] /\ \A f \in Frames : history[f].shifts = 0
  BY DEF Init, HistShape
<1>6. /\ now \in Origin..Origin+MaxTicks /\ anchor \in Anchors /\ astart = 0 /\ adelay = 0
      /\ anchor.seg = 0 /\ restarts \in 0..MaxRestarts /\ eos \in Nat
  <2>1. /\ now = Origin /\ anchor = NoAnchor /\ astart = 0 /\ adelay = 0
        /\ restarts = 0 /\ eos = 0
    BY Zenon DEF Init
  <2>2. NoAnchor \in Anchors /\ NoAnchor.seg = 0
    BY DEF Anchors, NoAnchor
  <2>3. Origin \in Origin..Origin+MaxTicks /\ 0 \in 0..MaxRestarts
    BY Consts
  <2> QED BY <2>1, <2>2, <2>3
<1>7. /\ dw = Idle /\ pend = NoFrame /\ pq = <<>> /\ ready = FALSE
  BY DEF Init
<1>8. /\ dw \in [slot : Slots \cup {-1}, deadline : Nat]
      /\ pend \in [frame : 0..MaxFrames, deadline : Nat]
      /\ pq \in Seq(QueueShape) /\ ready \in BOOLEAN
  <2>1. 0 \in 0..MaxFrames
    BY Consts
  <2>2. dw \in [slot : Slots \cup {-1}, deadline : Nat]
    BY <1>7 DEF Idle
  <2>3. pend \in [frame : 0..MaxFrames, deadline : Nat]
    <3> DEFINE F == 0..MaxFrames
    <3>1. 0 \in F
      BY <2>1
    <3> HIDE DEF F
    <3>2. NoFrame \in [frame : F, deadline : Nat]
      BY <3>1 DEF NoFrame
    <3>3. pend \in [frame : F, deadline : Nat]
      BY <1>7, <3>2
    <3> QED BY <3>3 DEF F
  <2>4. pq \in Seq(QueueShape)
    BY <1>7
  <2>5. ready \in BOOLEAN
    BY <1>7
  <2> QED BY <2>2, <2>3, <2>4, <2>5
<1>9. TypeOK
  BY <1>2, <1>3, <1>4, <1>5, <1>6, <1>8
     DEF TypeOK, RdShape, RdPcs, RsShape, RsPcs, Anchors, HistShape, QueueShape
<1>10. Holding
  BY <1>1, <1>3, <1>7 DEF Holding
<1>11. AudioSide
  BY <1>4, <1>6 DEF AudioSide, Resyncers
<1>12. SegsBehind
  <2>1. SegOf(rd.frame) \in Nat
    BY <1>3, SegFact
  <2> QED BY <1>4, <1>6, <2>1 DEF SegsBehind
<1>13. Computed
  BY <1>1, <1>3, <1>5 DEF Computed
<1>14. OrderWithinClock
  BY <1>1 DEF OrderWithinClock
<1> QED BY <1>9, <1>10, <1>11, <1>12, <1>13, <1>14 DEF TimelineInv

\* Every step of the reader, the workers and the watchdog preserves the
\* inductive invariant.
LEMMA TimelineStep ==
  ASSUME TimelineInv, [Next]_vars
  PROVE  TimelineInv'
<1>1. TypeOK /\ Holding /\ AudioSide /\ SegsBehind /\ Computed /\ OrderWithinClock
  BY DEF TimelineInv
<1>2. TypeOK' /\ Holding' /\ AudioSide'
  BY <1>1, TypedStep, HoldingStep, AudioSideStep
<1>3. SegsBehind' /\ Computed' /\ OrderWithinClock'
  BY <1>1, SegsBehindStep, ComputedStep, OrderStep
<1> QED BY <1>2, <1>3 DEF TimelineInv

LEMMA TimelineInvariant == Spec => []TimelineInv
<1>1. Init => TimelineInv
  BY TimelineStart
<1>2. TimelineInv /\ [Next]_vars => TimelineInv'
  BY TimelineStep
<1> QED BY <1>1, <1>2, PTL DEF Spec

\* Types of the timeline: whatever dash_resync's unlocked reads of the anchor
\* see, neither dash_au_deadline nor a shift leaves a deadline, in a slot, in
\* the present queue or in a worker's hand, that is below 0.
THEOREM TimelineTyped == Spec => []TypeOK
<1>1. TimelineInv => TypeOK
  BY DEF TimelineInv
<1> QED BY <1>1, TimelineInvariant, PTL

\* Once the audio worker's dash_resync has run, or has found no anchor to
\* move, a timeline anchored on a segment is on the audio clock, whichever of
\* the reader, the audio worker and the watchdog wrote the anchor last.
THEOREM AnchorEndsOnAudio == Spec => []AnchorOnAudio
<1>1. TimelineInv => AnchorOnAudio
  BY DEF TimelineInv, AudioSide, AnchorOnAudio
<1> QED BY <1>1, TimelineInvariant, PTL

\* Frames that wait in the slots with deadlines of one clock and anchor,
\* shifted equally often by dash_resync, are picked in stream order.
THEOREM TimelineOrder == Spec => []OrderWithinClock
<1>1. TimelineInv => OrderWithinClock
  BY DEF TimelineInv
<1> QED BY <1>1, TimelineInvariant, PTL
=============================================================================
