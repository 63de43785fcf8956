------------------------- MODULE PipelineOrderProofs -------------------------
(***************************************************************************)
(* Proofs about the order of pictures in VideoPipeline, for the DASH path, *)
(* where deadlines grow with the frame number: access units are decoded,   *)
(* copied to the framebuffer and shown by the display in stream order,     *)
(* for any number of slots, buffers and frames and any choice of faults.   *)
(***************************************************************************)
EXTENDS VideoPipelineProofs

\* The decode worker works on the slot it has marked DECODING.
Working == {"decode", "acquire", "conv", "copy", "free", "fbcheck", "fbcopy",
            "release"}

\* A slot in a thread's hands is in the state that keeps others off it.
SlotHeld ==
  /\ rd.pc = "fill" => slots[rd.slot].state = "WRITING"
  /\ dw.pc = "mark" => slots[dw.slot].state = "READY"
  /\ dw.pc \in Working => slots[dw.slot].state = "DECODING"

\* The thread states and slots as records of their fields.
LEMMA Records ==
  ASSUME Typed
  PROVE  /\ dw = [pc |-> dw.pc, slot |-> dw.slot, frame |-> dw.frame,
                  buf |-> dw.buf, tries |-> dw.tries, ev |-> dw.ev]
         /\ rd = [pc |-> rd.pc, slot |-> rd.slot, frame |-> rd.frame]
         /\ rd.slot \in Slots /\ dw.slot \in Slots
         /\ rd.frame \in Nat /\ dw.frame \in Nat
         /\ slots \in [Slots -> [state : SlotStates, frame : Nat, deadline : Nat]]
  BY DEF Typed, TypeOK, DecodeTypeOK, SlotsTypeOK

LEMMA HeldInit == Init => SlotHeld
  BY DEF Init, IdleDw, SlotHeld, Working

LEMMA HeldNext == Typed /\ SlotHeld /\ [Next]_vars => SlotHeld'
<1> SUFFICES ASSUME Typed, SlotHeld, [Next]_vars PROVE SlotHeld'
  OBVIOUS
<1> USE DEF SlotHeld, Working
<1>0. /\ dw = [pc |-> dw.pc, slot |-> dw.slot, frame |-> dw.frame,
               buf |-> dw.buf, tries |-> dw.tries, ev |-> dw.ev]
      /\ rd = [pc |-> rd.pc, slot |-> rd.slot, frame |-> rd.frame]
      /\ rd.slot \in Slots /\ dw.slot \in Slots
      /\ slots \in [Slots -> [state : SlotStates, frame : Nat, deadline : Nat]]
  BY Records
<1>1. ASSUME NEW i \in Slots, ProducerTake(i) PROVE SlotHeld'
  <2>1. /\ slots[i].state = "FREE" /\ slots' = [slots EXCEPT ![i].state = "WRITING"]
        /\ rd'.slot = i /\ dw' = dw
    BY <1>1 DEF ProducerTake, TakeWrite, SetState, InState
  <2>2. slots'[i].state = "WRITING" /\ \A j \in Slots : j # i => slots'[j] = slots[j]
    BY <1>0, <2>1
  <2> QED
    BY <1>0, <2>1, <2>2
<1>2. CASE ProducerPublish
  <2>1. rd.pc = "fill" /\ rd'.pc = "take" /\ dw' = dw
    BY <1>0, <1>2 DEF ProducerPublish
  <2>2. \A j \in Slots : j # rd.slot => slots'[j] = slots[j]
    BY <1>0, <1>2 DEF ProducerPublish, slot_publish, slot_release, SetState
  <2> QED
    BY <1>0, <2>1, <2>2
<1>3. CASE DecodeMark
  <2>1. dw.pc = "mark" /\ dw'.pc = "decode" /\ dw'.slot = dw.slot /\ rd' = rd
    BY <1>0, <1>3 DEF DecodeMark, dwRest
  <2>2. /\ slots'[dw.slot].state = "DECODING"
        /\ \A j \in Slots : j # dw.slot => slots'[j] = slots[j]
    BY <1>0, <1>3 DEF DecodeMark, MarkDecoding, SetState
  <2> QED
    BY <1>0, <2>1, <2>2
<1>4. CASE FreeBeforePush \/ Release
  <2>1. /\ dw.pc \in {"free", "release"} /\ dw'.pc \in {"push", "top"} /\ rd' = rd
    BY <1>0, <1>4 DEF FreeBeforePush, Release, dwRest
  <2>2. \A j \in Slots : j # dw.slot => slots'[j] = slots[j]
    BY <1>0, <1>4 DEF FreeBeforePush, Release, slot_release, SetState
  <2> QED
    BY <1>0, <2>1, <2>2
<1>5. CASE UNCHANGED slots /\ ~ProducerPublish /\ ~DecodeMark /\ ~FreeBeforePush /\ ~Release
            /\ ~(\E i \in Slots : ProducerTake(i))
  <2>1. CASE UNCHANGED decodeVars \/ JoinReader \/ CloseDisplay
    BY <1>0, <1>5, <2>1 DEF decodeVars, JoinReader, CloseDisplay
  <2>2. CASE DecodeTop \/ DecodeStop \/ Decode
    BY <1>0, <1>5, <2>2 DEF DecodeTop, DecodeStop, Decode, dwRest
  <2>3. CASE \E i \in Slots : DecodePick(i)
    BY <1>0, <1>5, <2>3 DEF DecodePick, Earliest, InState, dwRest
  <2>4. CASE (\E b \in Bufs : Acquire(b)) \/ AcquireBusy \/ FbCheck \/ FbCopy
    BY <1>0, <1>5, <2>4 DEF Acquire, AcquireBusy, FbCheck, FbCopy, dwRest
  <2>5. CASE Convert
    <3>1. dw.pc = "conv" /\ dw'.pc \in {"copy", "top"} /\ dw'.slot = dw.slot /\ rd' = rd
      BY <1>0, <2>5 DEF Convert
    <3> QED
      BY <1>5, <3>1
  <2>6. CASE CopyPending \/ PushPending
    BY <1>0, <1>5, <2>6 DEF CopyPending, PushPending
  <2> QED
    BY <1>5, <2>1, <2>2, <2>3, <2>4, <2>5, <2>6, DecodeSteps
<1> QED
  BY <1>1, <1>2, <1>3, <1>4, <1>5, SlotMoves

-----------------------------------------------------------------------------
(* Decoding.                                                               *)

Ready(i) == slots[i].state = "READY"

\* What the reader has published and the worker has not taken is newer than
\* what the worker has and no newer than what the reader has; the slot the
\* worker has picked holds the oldest of it.
StreamOrder ==
  /\ dw.frame <= rd.frame /\ (rd.pc = "fill" => dw.frame < rd.frame)
  /\ \A i \in Slots : Ready(i) =>
       /\ slots[i].deadline = slots[i].frame
       /\ dw.frame < slots[i].frame /\ slots[i].frame <= rd.frame
       /\ rd.pc = "fill" => slots[i].frame < rd.frame
  /\ \A i, j \in Slots :
       Ready(i) /\ Ready(j) /\ slots[i].frame = slots[j].frame => i = j
  /\ dw.pc = "mark" =>
       \A i \in Slots : Ready(i) => slots[dw.slot].frame <= slots[i].frame

LEMMA StreamInit == Init => StreamOrder
  BY DEF Init, SlotsInit, IdleDw, StreamOrder, Ready

LEMMA StreamNext ==
  Typed /\ SlotHeld /\ StreamOrder /\ ~Udp /\ [Next]_vars => StreamOrder'
<1> SUFFICES ASSUME Typed, SlotHeld, StreamOrder, ~Udp, [Next]_vars
             PROVE  StreamOrder'
  OBVIOUS
<1>0. /\ dw = [pc |-> dw.pc, slot |-> dw.slot, frame |-> dw.frame,
               buf |-> dw.buf, tries |-> dw.tries, ev |-> dw.ev]
      /\ rd = [pc |-> rd.pc, slot |-> rd.slot, frame |-> rd.frame]
      /\ rd.slot \in Slots /\ dw.slot \in Slots
      /\ rd.frame \in Nat /\ dw.frame \in Nat
      /\ slots \in [Slots -> [state : SlotStates, frame : Nat, deadline : Nat]]
  BY Records
<1>00. \A i \in Slots : slots[i].frame \in Nat
  BY <1>0
<1>1. ASSUME NEW i \in Slots, ProducerTake(i) PROVE StreamOrder'
  <2>1. /\ slots[i].state = "FREE" /\ slots' = [slots EXCEPT ![i].state = "WRITING"]
        /\ rd'.frame = rd.frame + 1 /\ dw' = dw
    BY <1>1 DEF ProducerTake, TakeWrite, SetState, InState
  <2>2. ~Ready(i)' /\ ~Ready(i) /\ \A j \in Slots : j # i => slots'[j] = slots[j]
    BY <1>0, <2>1 DEF Ready
  <2>3. \A j \in Slots : Ready(j)' => Ready(j) /\ slots'[j] = slots[j]
    BY <2>2 DEF Ready
  <2>4. dw.pc = "mark" => slots'[dw.slot] = slots[dw.slot]
    BY <1>0, <2>2 DEF SlotHeld, Ready
  <2> QED
    BY <1>0, <1>00, <2>1, <2>3, <2>4 DEF StreamOrder
<1>2. CASE ProducerPublish
  <2>1. /\ rd.pc = "fill" /\ rd'.pc = "take" /\ rd'.frame = rd.frame /\ dw' = dw
        /\ ~Ready(rd.slot)
    BY <1>0, <1>2 DEF ProducerPublish, SlotHeld, Ready
  <2>2. /\ \A j \in Slots : j # rd.slot => slots'[j] = slots[j]
        /\ \/ slots'[rd.slot].frame = rd.frame /\ slots'[rd.slot].deadline = rd.frame
           \/ slots'[rd.slot].state = "FREE"
    BY <1>0, <1>2 DEF ProducerPublish, slot_publish, slot_release, SetState, Deadline
  <2>3. \A j \in Slots : Ready(j)' =>
          \/ Ready(j) /\ slots'[j] = slots[j]
          \/ j = rd.slot /\ slots'[j].frame = rd.frame /\ slots'[j].deadline = rd.frame
    BY <2>2 DEF Ready
  <2>4. dw.pc = "mark" => slots'[dw.slot] = slots[dw.slot] /\ Ready(dw.slot)
    BY <1>0, <2>1, <2>2 DEF SlotHeld, Ready
  <2> QED
    BY <1>0, <1>00, <2>1, <2>3, <2>4 DEF StreamOrder
<1>3. CASE DecodeMark
  <2>1. /\ dw.pc = "mark" /\ dw'.pc = "decode" /\ rd' = rd
        /\ dw'.frame = slots[dw.slot].frame
    BY <1>0, <1>3 DEF DecodeMark, dwRest
  <2>2. /\ slots'[dw.slot].state = "DECODING" /\ Ready(dw.slot)
        /\ \A j \in Slots : j # dw.slot => slots'[j] = slots[j]
    BY <1>0, <1>3, <2>1 DEF DecodeMark, MarkDecoding, SetState, SlotHeld, Ready
  <2>3. \A j \in Slots : Ready(j)' => j # dw.slot /\ Ready(j) /\ slots'[j] = slots[j]
    BY <2>2 DEF Ready
  <2>4. \A j \in Slots : Ready(j)' => slots[dw.slot].frame < slots[j].frame
    BY <1>0, <1>00, <2>1, <2>2, <2>3 DEF StreamOrder
  <2> QED
    BY <1>0, <1>00, <2>1, <2>2, <2>3, <2>4 DEF StreamOrder
<1>4. CASE FreeBeforePush \/ Release
  <2>1. dw'.pc \in {"push", "top"} /\ dw'.frame = dw.frame /\ rd' = rd
    BY <1>0, <1>4 DEF FreeBeforePush, Release, dwRest
  <2>2. /\ slots'[dw.slot].state = "FREE"
        /\ \A j \in Slots : j # dw.slot => slots'[j] = slots[j]
    BY <1>0, <1>4 DEF FreeBeforePush, Release, slot_release, SetState
  <2>3. \A j \in Slots : Ready(j)' => Ready(j) /\ slots'[j] = slots[j]
    BY <2>2 DEF Ready
  <2> QED
    BY <1>0, <2>1, <2>3 DEF StreamOrder
<1>5. ASSUME NEW i \in Slots, DecodePick(i) PROVE StreamOrder'
  <2>1. /\ Ready(i) /\ dw'.slot = i /\ dw'.frame = dw.frame
        /\ UNCHANGED <<slots, rd>>
        /\ \A j \in Slots : Ready(j) => slots[i].deadline <= slots[j].deadline
    BY <1>0, <1>5 DEF DecodePick, Earliest, InState, Ready, slotVars, dwRest
  <2> QED
    BY <1>0, <2>1 DEF StreamOrder, Ready
<1>6. CASE /\ UNCHANGED slots
           /\ ~ProducerPublish /\ ~DecodeMark /\ ~FreeBeforePush /\ ~Release
           /\ ~(\E i \in Slots : ProducerTake(i)) /\ ~(\E i \in Slots : DecodePick(i))
  <2>1. /\ rd' = rd \/ (rd'.frame = rd.frame /\ rd'.pc = "dead")
        /\ dw'.frame = dw.frame
        /\ dw'.pc = "mark" => dw' = dw
    <3>1. CASE UNCHANGED decodeVars \/ JoinReader \/ CloseDisplay
      BY <1>0, <3>1 DEF decodeVars, JoinReader, CloseDisplay
    <3>2. CASE DecodeTop \/ DecodeStop \/ Decode
      BY <1>0, <3>2 DEF DecodeTop, DecodeStop, Decode, dwRest
    <3>3. CASE (\E b \in Bufs : Acquire(b)) \/ AcquireBusy \/ FbCheck \/ FbCopy
      BY <1>0, <3>3 DEF Acquire, AcquireBusy, FbCheck, FbCopy, dwRest
    <3>4. CASE Convert
      <4>1. rd' = rd /\ dw'.frame = dw.frame /\ dw'.pc \in {"copy", "top"}
        BY <1>0, <3>4 DEF Convert
      <4> QED
        BY <4>1
    <3>5. CASE CopyPending \/ PushPending
      BY <1>0, <3>5 DEF CopyPending, PushPending
    <3> QED
      BY <1>6, <3>1, <3>2, <3>3, <3>4, <3>5, DecodeSteps
  <2> QED
    BY <1>6, <2>1 DEF StreamOrder, Ready
<1> QED
  BY <1>1, <1>2, <1>3, <1>4, <1>5, <1>6, SlotMoves

Stream == Typed /\ SlotHeld /\ (~Udp => StreamOrder)

LEMMA AlwaysStream == Spec => []Stream
<1>1. Spec => []SlotHeld
  BY AlwaysTyped, HeldInit, HeldNext, PTL DEF Spec
<1>2. Spec => [](~Udp => StreamOrder)
  <2>1. Init => (~Udp => StreamOrder)
    BY StreamInit
  <2>2. Typed /\ SlotHeld /\ (~Udp => StreamOrder) /\ [Next]_vars
          => (~Udp => StreamOrder)'
    BY StreamNext
  <2> QED
    BY <1>1, <2>1, <2>2, AlwaysTyped, PTL DEF Spec
<1> QED
  BY <1>1, <1>2, AlwaysTyped, PTL DEF Stream

\* Only DecodeMark gives the worker another access unit.
LEMMA FrameMoves ==
  Typed /\ [Next]_vars => DecodeMark \/ dw'.frame = dw.frame
<1> SUFFICES ASSUME Typed, [Next]_vars, ~DecodeMark PROVE dw'.frame = dw.frame
  OBVIOUS
<1>0. dw = [pc |-> dw.pc, slot |-> dw.slot, frame |-> dw.frame,
            buf |-> dw.buf, tries |-> dw.tries, ev |-> dw.ev]
  BY Records
<1>1. CASE \/ UNCHANGED decodeVars \/ (\E i \in Slots : ProducerTake(i))
           \/ ProducerPublish \/ JoinReader \/ CloseDisplay
  BY <1>1 DEF decodeVars, ProducerTake, ProducerPublish, JoinReader, CloseDisplay
<1>2. CASE DecodeTop \/ DecodeStop \/ Decode \/ (\E i \in Slots : DecodePick(i))
  BY <1>0, <1>2 DEF DecodeTop, DecodeStop, Decode, DecodePick
<1>3. CASE (\E b \in Bufs : Acquire(b)) \/ AcquireBusy \/ FbCheck \/ FbCopy \/ Release
  BY <1>0, <1>3 DEF Acquire, AcquireBusy, FbCheck, FbCopy, Release
<1>4. CASE Convert
  BY <1>0, <1>4 DEF Convert
<1>5. CASE CopyPending \/ FreeBeforePush \/ PushPending
  BY <1>0, <1>5 DEF CopyPending, FreeBeforePush, PushPending
<1> QED
  BY <1>1, <1>2, <1>3, <1>4, <1>5, DecodeSteps

\* The worker takes a strictly newer access unit.
LEMMA MarkForward == Stream /\ ~Udp /\ DecodeMark => dw'.frame > dw.frame
<1> SUFFICES ASSUME Stream, ~Udp, DecodeMark PROVE dw'.frame > dw.frame
  OBVIOUS
<1>1. dw'.frame = slots[dw.slot].frame /\ dw.slot \in Slots /\ dw.pc = "mark"
  BY Records DEF Stream, DecodeMark
<1>2. dw.frame < slots[dw.slot].frame /\ slots[dw.slot].frame \in Nat /\ dw.frame \in Nat
  BY <1>1, Records DEF Stream, SlotHeld, StreamOrder, Ready
<1> QED
  BY <1>1, <1>2

\* In DASH mode the decode worker takes access units in the order the reader
\* published them, whatever slots they landed in.
THEOREM DecodedInOrder == ~Udp => (Spec => DecodeInOrder)
<1> SUFFICES ASSUME ~Udp PROVE Spec => DecodeInOrder
  OBVIOUS
<1>1. Stream /\ [Next]_vars => [dw'.frame >= dw.frame]_dw
  <2> SUFFICES ASSUME Stream, [Next]_vars PROVE dw'.frame >= dw.frame
    OBVIOUS
  <2>1. Typed /\ Typed'
    BY TypedNext DEF Stream
  <2>2. dw.frame \in Nat /\ dw'.frame \in Nat
    BY <2>1 DEF Typed, TypeOK, DecodeTypeOK
  <2> QED
    BY <2>1, <2>2, FrameMoves, MarkForward
<1> QED
  BY <1>1, AlwaysStream, PTL DEF Spec, DecodeInOrder

-----------------------------------------------------------------------------
(* The framebuffer.                                                        *)

CopiedBehind == fbpic <= dw.frame

LEMMA CopiedNext ==
  Stream /\ ~Udp /\ CopiedBehind /\ [Next]_vars => CopiedBehind' /\ fbpic' >= fbpic
<1> SUFFICES ASSUME Stream, ~Udp, CopiedBehind, [Next]_vars
             PROVE  CopiedBehind' /\ fbpic' >= fbpic
  OBVIOUS
<1>1. Typed /\ Typed'
  BY TypedNext DEF Stream
<1>2. fbpic \in Nat /\ dw.frame \in Nat /\ dw'.frame \in Nat
  BY <1>1 DEF Typed, TypeOK, DecodeTypeOK, MainTypeOK
<1>3. dw'.frame >= dw.frame
  BY <1>1, <1>2, FrameMoves, MarkForward
<1>4. fbpic' = fbpic \/ fbpic' = dw.frame
  BY MainSteps DEF mainVars, FbCopy, Stop, RestartReader, Main, LeaveLoop,
     JoinReader, CloseDisplay, StopDecode, WakeDecode, WakePresent, JoinWorkers,
     mwRest
<1> QED
  BY <1>2, <1>3, <1>4 DEF CopiedBehind

\* In DASH mode the framebuffer never goes back to an earlier picture.
THEOREM CopiedInOrder == ~Udp => (Spec => FbInOrder)
<1> SUFFICES ASSUME ~Udp PROVE Spec => FbInOrder
  OBVIOUS
<1>1. Init => CopiedBehind
  BY DEF Init, IdleDw, CopiedBehind
<1>2. Spec => []CopiedBehind
  BY <1>1, CopiedNext, AlwaysStream, PTL DEF Spec
<1>3. Stream /\ CopiedBehind /\ [Next]_vars => [fbpic' >= fbpic]_fbpic
  BY CopiedNext
<1> QED
  BY <1>2, <1>3, AlwaysStream, PTL DEF Spec, FbInOrder

-----------------------------------------------------------------------------
(* The display.                                                            *)

\* The picture in the conversion stage is newer than all that went before it
\* and older than the one the decode worker is at; a failed conversion makes
\* way for the next frame.
StageOrder ==
  /\ pend.stage <= dw.frame
  /\ dw.pc \in Working \cup {"push"} => pend.stage < dw.frame
  /\ dw.pc \in {"free", "push"} => pic[pend.buf] = pend.stage
  /\ \A b \in Bufs : Elsewhere(b) =>
       pic[b] <= pend.stage /\ (pend.ev => pic[b] < pend.stage)

\* A buffer joins the way to the display only through present_push.
LEMMA ElsewhereMoves ==
  ASSUME Typed, Flips, [Next]_vars, NEW b \in Bufs, Elsewhere(b)'
  PROVE  Elsewhere(b) \/ (PushPending /\ b = pend.buf)
<1>0. /\ flip_history \in Seq(Bufs) /\ pq \in Seq(Entries) /\ NoBuf \notin Bufs
  BY DEF Typed, TypeOK, ScanoutTypeOK, PresentTypeOK, Bufs, NoBuf
<1> USE DEF Elsewhere
<1>1. CASE UNCHANGED claimVars
  BY <1>1 DEF claimVars, Queued, HeldByPresent, Submitted, Completing, OnScreen
<1>2. CASE (\E c \in Bufs : Acquire(c)) \/ Convert
  <2>1. UNCHANGED <<pq, pw, flip_history, handler, on_screen>>
    BY <1>2 DEF Acquire, next_idx, dwRest, Convert, scanoutVars
  <2> QED
    BY <2>1 DEF Queued, HeldByPresent, Submitted, Completing, OnScreen
<1>3. CASE PushPending
  <2>1. UNCHANGED <<pw.ent, flip_history, handler, on_screen>>
    BY <1>3 DEF PushPending, scanoutVars, WakePresenter, Typed, TypeOK, PresentTypeOK
  <2>2. /\ [buf |-> pend.buf, pts |-> pend.fidx] \in Entries
        /\ pq' = Append(pq, [buf |-> pend.buf, pts |-> pend.fidx])
    BY <1>3 DEF PushPending, Entries, Typed, TypeOK, Control, DecodeTypeOK
  <2>3. /\ Len(pq') = Len(pq) + 1 /\ Len(pq) \in Nat
        /\ pq'[Len(pq) + 1].buf = pend.buf
        /\ \A i \in 1..Len(pq) : pq'[i] = pq[i]
    BY <1>0, <2>2
  <2>4. Queued(b)' => Queued(b) \/ b = pend.buf
    BY <2>3 DEF Queued
  <2> QED
    BY <1>3, <2>1, <2>4 DEF HeldByPresent, Submitted, Completing, OnScreen
<1>4. CASE PresentPop
  <2>1. UNCHANGED <<flip_history, handler, on_screen>>
    BY <1>4 DEF PresentPop, scanoutVars
  <2>2. pq # <<>> /\ pq' = Tail(pq) /\ pw'.ent = Head(pq)
    BY <1>4 DEF PresentPop
  <2>3. /\ Len(pq) \in Nat /\ Len(pq) > 0 /\ pw'.ent = pq[1]
        /\ Len(pq') = Len(pq) - 1
        /\ \A i \in 1..Len(pq') : pq'[i] = pq[i + 1]
    BY <1>0, <2>2
  <2>4. Queued(b)' \/ HeldByPresent(b)' => Queued(b)
    BY <2>3 DEF Queued, HeldByPresent
  <2> QED
    BY <2>1, <2>4 DEF Submitted, Completing, OnScreen
<1>5. CASE PresentFlip
  <2>1. UNCHANGED <<pq, handler, on_screen>>
    BY <1>5 DEF PresentFlip, SubmitFlip
  <2>2. pw.ent.buf \in Bufs /\ pw'.ent.buf = NoBuf
    BY <1>5 DEF PresentFlip, Leave, NoEntry, Typed, Control
  <2>3. flip_history' = Append(flip_history, pw.ent.buf)
    BY <1>5, FlipAppends
  <2>4. Submitted(b)' => Submitted(b) \/ HeldByPresent(b)
    BY <1>0, <2>2, <2>3 DEF Submitted, HeldByPresent
  <2> QED
    BY <1>0, <2>1, <2>2, <2>4 DEF Queued, HeldByPresent, Completing, OnScreen
<1>6. CASE PresentGiveUp
  BY <1>0, <1>6 DEF PresentGiveUp, scanoutVars, Leave, NoEntry, Queued,
     HeldByPresent, Submitted, Completing, OnScreen
<1>7. CASE PresentHandle /\ HandlerStep
  <2>0. UNCHANGED <<pq, pw.ent>>
    BY <1>7 DEF PresentHandle, pwRest, Typed, TypeOK, PresentTypeOK
  <2>1. CASE flip_handler
    <3>1. /\ Len(flip_history) \in Nat /\ Len(flip_history) > 0
          /\ flip_history' = Tail(flip_history)
          /\ handler' = [at |-> "busy", rec |-> flip_history[1]]
          /\ on_screen' = on_screen
      BY <2>1, HandlerTakes DEF flip_handler
    <3>2. Submitted(b)' => Submitted(b)
      <4>1. /\ Len(flip_history') = Len(flip_history) - 1
            /\ \A i \in 1..Len(flip_history') : flip_history'[i] = flip_history[i + 1]
        BY <1>0, <3>1
      <4>2. \A i \in 1..Len(flip_history') : i + 1 \in 1..Len(flip_history)
        BY <3>1, <4>1
      <4> QED
        BY <4>1, <4>2 DEF Submitted
    <3>3. Completing(b)' => Submitted(b)
      <4>1. 1 \in 1..Len(flip_history)
        BY <3>1
      <4>2. Completing(b)' => flip_history[1] = b
        BY <3>1 DEF Completing
      <4> QED
        BY <4>1, <4>2 DEF Submitted
    <3> QED
      BY <2>0, <3>1, <3>2, <3>3 DEF Queued, HeldByPresent, OnScreen
  <2>2. CASE StoreBusy \/ StoreOnScreen \/ StoreFlipPending
    BY <2>0, <2>2 DEF StoreBusy, StoreOnScreen, StoreFlipPending, NoHandler, Typed,
       TypeOK, ScanoutTypeOK, Queued, HeldByPresent, Submitted, Completing, OnScreen
  <2> QED
    BY <1>7, <2>1, <2>2 DEF HandlerStep
<1> QED
  BY <1>1, <1>2, <1>3, <1>4, <1>5, <1>6, <1>7, ClaimSteps

\* The decode worker's copy leaves the buffers on the way to the display
\* alone.
LEMMA PicKept ==
  ASSUME Typed, Hands, [Next]_vars, NEW b \in Bufs, Elsewhere(b)
  PROVE  pic'[b] = pic[b]
<1>1. CASE CopyPending
  <2>1. pend.ev /\ pend.buf \in Bufs /\ pic \in [Bufs -> Nat]
    BY <1>1 DEF CopyPending, Typed, Control, TypeOK, DecodeTypeOK
  <2>2. b # pend.buf
    BY <2>1 DEF Hands, OneOwner, Pending, Elsewhere
  <2> QED
    BY <1>1, <2>1, <2>2 DEF CopyPending
<1>2. CASE ~CopyPending
  BY <1>2, DecodeSteps DEF decodeVars, ProducerTake, ProducerPublish, DecodeTop,
     DecodeStop, DecodeMark, Decode, DecodePick, Acquire, AcquireBusy, Convert,
     FreeBeforePush, PushPending, FbCheck, FbCopy, Release, JoinReader,
     CloseDisplay, dwRest
<1> QED
  BY <1>1, <1>2

LEMMA StageNext ==
  Stream /\ ~Udp /\ Flips /\ Hands /\ StageOrder /\ [Next]_vars => StageOrder'
<1> SUFFICES ASSUME Stream, ~Udp, Flips, Hands, StageOrder, [Next]_vars
             PROVE  StageOrder'
  OBVIOUS
<1>0. /\ Typed /\ Typed'
      /\ dw = [pc |-> dw.pc, slot |-> dw.slot, frame |-> dw.frame,
               buf |-> dw.buf, tries |-> dw.tries, ev |-> dw.ev]
      /\ pend = [ev |-> pend.ev, buf |-> pend.buf, stage |-> pend.stage,
                 fidx |-> pend.fidx]
      /\ pic \in [Bufs -> Nat]
  BY TypedNext DEF Stream, Typed, TypeOK, DecodeTypeOK
<1>00. /\ dw.frame \in Nat /\ dw'.frame \in Nat /\ pend.stage \in Nat
       /\ pend.ev \in BOOLEAN /\ \A b \in Bufs : pic[b] \in Nat
  BY <1>0 DEF Typed, TypeOK, DecodeTypeOK
<1>1. CASE Convert /\ ~pend.ev
  <2>1. /\ dw.pc = "conv" /\ dw'.pc = "top" /\ dw'.frame = dw.frame
        /\ pend'.stage = dw.frame /\ pic' = pic
    BY <1>0, <1>1 DEF Convert
  <2>2. pend.stage < dw.frame /\ dw'.pc \notin Working \cup {"push"}
    BY <2>1 DEF StageOrder, Working
  <2>3. \A b \in Bufs : Elsewhere(b)' => Elsewhere(b)
    BY <1>0, <1>1, ElsewhereMoves DEF Convert, PushPending
  <2>4. \A b \in Bufs : Elsewhere(b)' => pic'[b] < pend'.stage
    BY <1>00, <2>1, <2>2, <2>3 DEF StageOrder
  <2>5. pend'.stage <= dw'.frame
    BY <1>00, <2>1
  <2>6. dw'.pc \notin {"free", "push"}
    BY <2>1
  <2>7. \A b \in Bufs : Elsewhere(b)' =>
          pic'[b] <= pend'.stage /\ (pend'.ev => pic'[b] < pend'.stage)
    BY <1>00, <2>1, <2>4
  <2> QED
    BY <2>2, <2>5, <2>6, <2>7 DEF StageOrder
<1>2. CASE PushPending
  <2>1. /\ dw.pc = "push" /\ dw'.pc = "top" /\ dw'.frame = dw.frame
        /\ pend'.stage = dw.frame /\ pic' = pic /\ pend.buf \in Bufs
    BY <1>0, <1>2 DEF PushPending, Typed, Control
  <2>2. /\ pend.stage < dw.frame /\ dw'.pc \notin Working \cup {"push"}
        /\ pic[pend.buf] = pend.stage
    BY <2>1 DEF StageOrder, Working
  <2>3. \A b \in Bufs : Elsewhere(b)' => Elsewhere(b) \/ b = pend.buf
    BY <1>0, ElsewhereMoves
  <2>4. \A b \in Bufs : Elsewhere(b)' => pic'[b] < pend'.stage
    BY <1>00, <2>1, <2>2, <2>3 DEF StageOrder
  <2>5. pend'.stage <= dw'.frame
    BY <1>00, <2>1
  <2>6. dw'.pc \notin {"free", "push"}
    BY <2>1
  <2>7. \A b \in Bufs : Elsewhere(b)' =>
          pic'[b] <= pend'.stage /\ (pend'.ev => pic'[b] < pend'.stage)
    BY <1>00, <2>1, <2>4
  <2> QED
    BY <2>2, <2>5, <2>6, <2>7 DEF StageOrder
<1>3. CASE ~(Convert /\ ~pend.ev) /\ ~PushPending
  <2>1. pend'.stage = pend.stage /\ pend'.ev = pend.ev /\ pend'.buf = pend.buf
    BY <1>0, <1>3, DecodeSteps DEF decodeVars, ProducerTake, ProducerPublish,
       DecodeTop, DecodeStop, DecodeMark, Decode, DecodePick, Acquire,
       AcquireBusy, Convert, CopyPending, FreeBeforePush, FbCheck, FbCopy,
       Release, JoinReader, CloseDisplay, dwRest
  <2>2. \A b \in Bufs : Elsewhere(b)' => Elsewhere(b) /\ pic'[b] = pic[b]
    BY <1>0, <1>3, ElsewhereMoves, PicKept
  <2>3. dw'.frame >= dw.frame
    BY <1>0, <1>00, FrameMoves, MarkForward
  <2>4. dw'.pc \in Working \cup {"push"} =>
          DecodeMark \/ dw.pc \in Working \cup {"push"}
    <3>1. CASE \/ UNCHANGED decodeVars \/ (\E i \in Slots : ProducerTake(i))
               \/ ProducerPublish \/ JoinReader \/ CloseDisplay
      BY <3>1 DEF decodeVars, ProducerTake, ProducerPublish, JoinReader, CloseDisplay
    <3>2. CASE DecodeTop \/ DecodeStop \/ Decode \/ (\E i \in Slots : DecodePick(i))
      BY <1>0, <3>2 DEF DecodeTop, DecodeStop, Decode, DecodePick, Working
    <3>3. CASE \/ (\E b \in Bufs : Acquire(b)) \/ AcquireBusy \/ Convert \/ FbCheck
               \/ FbCopy \/ Release \/ CopyPending \/ FreeBeforePush
      BY <3>3 DEF Acquire, AcquireBusy, Convert, FbCheck, FbCopy, Release,
         CopyPending, FreeBeforePush, Working
    <3> QED
      BY <1>3, <3>1, <3>2, <3>3, DecodeSteps
  <2>5. dw'.pc \in Working \cup {"push"} => pend'.stage < dw'.frame
    BY <1>0, <1>00, <2>1, <2>3, <2>4, MarkForward DEF StageOrder
  <2>6. dw'.pc \in {"free", "push"} => pic'[pend.buf] = pend.stage
    <3>1. CASE CopyPending
      BY <1>0, <3>1 DEF CopyPending, Typed, Control
    <3>2. CASE ~CopyPending
      <4>1. pic' = pic
        BY <3>2, DecodeSteps DEF decodeVars, ProducerTake, ProducerPublish,
           DecodeTop, DecodeStop, DecodeMark, Decode, DecodePick, Acquire,
           AcquireBusy, Convert, FreeBeforePush, PushPending, FbCheck, FbCopy,
           Release, JoinReader, CloseDisplay, dwRest
      <4>2. dw'.pc \in {"free", "push"} => dw.pc \in {"free", "push"}
        <5>1. CASE \/ UNCHANGED decodeVars \/ (\E i \in Slots : ProducerTake(i))
                   \/ ProducerPublish \/ JoinReader \/ CloseDisplay
          BY <5>1 DEF decodeVars, ProducerTake, ProducerPublish, JoinReader,
             CloseDisplay
        <5>2. CASE \/ DecodeTop \/ DecodeStop \/ DecodeMark \/ Decode
                   \/ (\E i \in Slots : DecodePick(i))
          BY <1>0, <5>2 DEF DecodeTop, DecodeStop, DecodeMark, Decode, DecodePick
        <5>3. CASE \/ (\E b \in Bufs : Acquire(b)) \/ AcquireBusy \/ FbCheck
                   \/ FbCopy \/ Release \/ FreeBeforePush
          BY <1>0, <5>3 DEF Acquire, AcquireBusy, FbCheck, FbCopy, Release,
             FreeBeforePush
        <5>4. CASE Convert
          <6>1. dw'.pc \in {"copy", "top"}
            BY <1>0, <5>4 DEF Convert
          <6> QED
            BY <6>1
        <5> QED
          BY <1>3, <3>2, <5>1, <5>2, <5>3, <5>4, DecodeSteps
      <4> QED
        BY <4>1, <4>2 DEF StageOrder
    <3> QED
      BY <3>1, <3>2
  <2> QED
    BY <1>00, <2>1, <2>2, <2>3, <2>5, <2>6 DEF StageOrder
<1> QED
  BY <1>1, <1>2, <1>3

\* The buffers on the way to the display, oldest picture first: on screen,
\* completing, submitted, held by the present worker, queued.
DisplayOrder ==
  /\ \A b, c \in Bufs :
       /\ OnScreen(b) /\ (Completing(c) \/ Submitted(c) \/ HeldByPresent(c) \/ Queued(c))
            => pic[b] < pic[c]
       /\ Completing(b) /\ (Submitted(c) \/ HeldByPresent(c) \/ Queued(c))
            => pic[b] < pic[c]
       /\ Submitted(b) /\ (HeldByPresent(c) \/ Queued(c)) => pic[b] < pic[c]
       /\ HeldByPresent(b) /\ Queued(c) => pic[b] < pic[c]
  /\ \A i, j \in 1..Len(pq) : i < j => pic[pq[i].buf] < pic[pq[j].buf]
  /\ \A i, j \in 1..Len(flip_history) :
       i < j => pic[flip_history[i]] < pic[flip_history[j]]

LEMMA DisplayInit == Init => DisplayOrder /\ StageOrder
<1> SUFFICES ASSUME Init PROVE DisplayOrder /\ StageOrder
  OBVIOUS
<1>1. /\ pq = <<>> /\ flip_history = <<>> /\ pw.ent.buf = NoBuf
      /\ handler.at = "idle" /\ NoBuf \notin Bufs
      /\ Len(pq) = 0 /\ Len(flip_history) = 0
  BY DEF Init, vmc_drm_scanout_init, NoEntry, NoHandler, NoBuf, Bufs
<1>2. \A b \in Bufs : /\ ~HeldByPresent(b) /\ ~Completing(b)
                      /\ ~Queued(b) /\ ~Submitted(b)
  BY <1>1 DEF HeldByPresent, Completing, Queued, Submitted
<1>3. DisplayOrder
  <2>1. 1..Len(pq) = {} /\ 1..Len(flip_history) = {}
    BY <1>1
  <2> QED BY <1>2, <2>1, Zenon DEF DisplayOrder
<1>4. StageOrder
  BY DEF Init, IdleDw, StageOrder, Working
<1> QED
  BY <1>3, <1>4

LEMMA DisplayNext ==
  Typed /\ Flips /\ Hands /\ StageOrder /\ DisplayOrder /\ [Next]_vars => DisplayOrder'
<1> SUFFICES ASSUME Typed, Flips, Hands, StageOrder, DisplayOrder, [Next]_vars
             PROVE  DisplayOrder'
  OBVIOUS
<1>0. /\ flip_history \in Seq(Bufs) /\ pq \in Seq(Entries) /\ NoBuf \notin Bufs
      /\ Len(pq) \in Nat /\ Len(flip_history) \in Nat
      /\ \A i \in 1..Len(pq) : pq[i].buf \in Bufs
      /\ \A i \in 1..Len(flip_history) : flip_history[i] \in Bufs
  <2>1. flip_history \in Seq(Bufs) /\ pq \in Seq(Entries) /\ NoBuf \notin Bufs
    BY DEF Typed, TypeOK, ScanoutTypeOK, PresentTypeOK, Bufs, NoBuf
  <2>2. \A i \in 1..Len(pq) : pq[i] \in Entries
    BY <2>1
  <2>3. \A i \in 1..Len(pq) : pq[i].buf \in Bufs
    BY <2>2 DEF Entries
  <2> QED
    BY <2>1, <2>3
<1>1. CASE UNCHANGED claimVars
  <2>1. \A b \in Bufs : /\ OnScreen(b)' <=> OnScreen(b)
                        /\ Completing(b)' <=> Completing(b)
                        /\ Submitted(b)' <=> Submitted(b)
                        /\ HeldByPresent(b)' <=> HeldByPresent(b)
                        /\ Queued(b)' <=> Queued(b)
    BY <1>1 DEF claimVars, Queued, HeldByPresent, Submitted, Completing, OnScreen
  <2>2. \A b \in Bufs : Elsewhere(b) => pic'[b] = pic[b]
    BY PicKept
  <2>3. /\ \A i \in 1..Len(pq) : pic'[pq[i].buf] = pic[pq[i].buf]
        /\ \A i \in 1..Len(flip_history) : pic'[flip_history[i]] = pic[flip_history[i]]
    BY <1>0, <2>2 DEF Elsewhere, Queued, Submitted
  <2>4. pq' = pq /\ flip_history' = flip_history
    BY <1>1 DEF claimVars
  <2> QED
    BY <2>1, <2>2, <2>3, <2>4 DEF DisplayOrder, Elsewhere
<1>2. CASE (\E c \in Bufs : Acquire(c)) \/ Convert
  <2>1. UNCHANGED <<pq, pw, flip_history, handler, on_screen, pic>>
    BY <1>2 DEF Acquire, next_idx, dwRest, Convert, scanoutVars
  <2> QED
    BY <2>1 DEF DisplayOrder, Queued, HeldByPresent, Submitted, Completing, OnScreen
<1>3. CASE PushPending
  <2>1. UNCHANGED <<pw.ent, flip_history, handler, on_screen, pic>>
    BY <1>3 DEF PushPending, scanoutVars, WakePresenter, Typed, TypeOK, PresentTypeOK
  <2>2. /\ [buf |-> pend.buf, pts |-> pend.fidx] \in Entries /\ pend.buf \in Bufs
        /\ pq' = Append(pq, [buf |-> pend.buf, pts |-> pend.fidx])
        /\ pend.ev /\ dw.pc = "push"
    BY <1>3 DEF PushPending, Entries, Typed, TypeOK, Control, DecodeTypeOK
  <2>3. /\ Len(pq') = Len(pq) + 1
        /\ pq'[Len(pq) + 1].buf = pend.buf
        /\ \A i \in 1..Len(pq) : pq'[i] = pq[i]
    BY <1>0, <2>2
  <2>4. \A b \in Bufs : Elsewhere(b) => pic[b] < pic[pend.buf]
    BY <2>2 DEF StageOrder
  <2>5. \A b \in Bufs : Queued(b)' => Queued(b) \/ b = pend.buf
    BY <2>3 DEF Queued
  <2>6. \A i \in 1..Len(pq) : pic[pq[i].buf] < pic[pend.buf]
    BY <1>0, <2>4 DEF Elsewhere, Queued
  <2>7. \A i, j \in 1..Len(pq') : i < j => pic[pq'[i].buf] < pic[pq'[j].buf]
    BY <1>0, <2>3, <2>6 DEF DisplayOrder
  <2>8. \A b \in Bufs : /\ OnScreen(b)' <=> OnScreen(b)
                        /\ Completing(b)' <=> Completing(b)
                        /\ Submitted(b)' <=> Submitted(b)
                        /\ HeldByPresent(b)' <=> HeldByPresent(b)
    BY <2>1 DEF HeldByPresent, Submitted, Completing, OnScreen
  <2> QED
    BY <2>1, <2>4, <2>5, <2>7, <2>8 DEF DisplayOrder, Elsewhere
<1>4. CASE PresentPop
  <2>1. UNCHANGED <<flip_history, handler, on_screen, pic>>
    BY <1>4 DEF PresentPop, scanoutVars, pwRest
  <2>2. pq # <<>> /\ pq' = Tail(pq) /\ pw'.ent = Head(pq)
    BY <1>4 DEF PresentPop
  <2>3. /\ Len(pq) > 0 /\ pw'.ent = pq[1] /\ Len(pq') = Len(pq) - 1
        /\ \A i \in 1..Len(pq') : pq'[i] = pq[i + 1]
    BY <1>0, <2>2
  <2>4. \A b \in Bufs : Queued(b)' \/ HeldByPresent(b)' => Queued(b)
    BY <1>0, <2>3 DEF Queued, HeldByPresent
  <2>5. \A b, c \in Bufs : HeldByPresent(b)' /\ Queued(c)' => pic[b] < pic[c]
    BY <1>0, <2>3 DEF DisplayOrder, Queued, HeldByPresent
  <2>6. \A i, j \in 1..Len(pq') : i < j => pic[pq'[i].buf] < pic[pq'[j].buf]
    <3> SUFFICES ASSUME NEW i \in 1..Len(pq'), NEW j \in 1..Len(pq'), i < j
                 PROVE  pic[pq'[i].buf] < pic[pq'[j].buf]
      OBVIOUS
    <3>1. i + 1 \in 1..Len(pq) /\ j + 1 \in 1..Len(pq) /\ i + 1 < j + 1
      BY <1>0, <2>3
    <3>2. pq'[i] = pq[i + 1] /\ pq'[j] = pq[j + 1]
      BY <2>3
    <3> QED
      BY <3>1, <3>2 DEF DisplayOrder
  <2>7. \A b \in Bufs : /\ OnScreen(b)' <=> OnScreen(b)
                        /\ Completing(b)' <=> Completing(b)
                        /\ Submitted(b)' <=> Submitted(b)
    BY <2>1 DEF Submitted, Completing, OnScreen
  <2> QED
    BY <2>1, <2>4, <2>5, <2>6, <2>7 DEF DisplayOrder
<1>5. CASE PresentFlip
  <2> DEFINE d == pw.ent.buf
  <2>1. UNCHANGED <<pq, handler, on_screen, pic>>
    BY <1>5 DEF PresentFlip, SubmitFlip, pwRest
  <2>2. d \in Bufs /\ pw'.ent.buf = NoBuf
    BY <1>5 DEF PresentFlip, Leave, NoEntry, Typed, Control
  <2>3. flip_history' = Append(flip_history, d)
    BY <1>5, FlipAppends
  <2>4. /\ Len(flip_history') = Len(flip_history) + 1
        /\ flip_history'[Len(flip_history) + 1] = d
        /\ \A i \in 1..Len(flip_history) : flip_history'[i] = flip_history[i]
    BY <1>0, <2>2, <2>3
  <2>5. \A b \in Bufs : /\ Submitted(b)' => Submitted(b) \/ HeldByPresent(b)
                        /\ ~HeldByPresent(b)'
    BY <1>0, <2>2, <2>4 DEF Submitted, HeldByPresent
  <2>6. \A i \in 1..Len(flip_history) : pic[flip_history[i]] < pic[d]
    BY <1>0, <2>2 DEF DisplayOrder, Submitted, HeldByPresent
  <2> HIDE DEF d
  <2>7. \A i, j \in 1..Len(flip_history') :
          i < j => pic[flip_history'[i]] < pic[flip_history'[j]]
    <3> SUFFICES ASSUME NEW i \in 1..Len(flip_history'),
                        NEW j \in 1..Len(flip_history'), i < j
                 PROVE  pic[flip_history'[i]] < pic[flip_history'[j]]
      OBVIOUS
    <3>1. /\ i \in 1..Len(flip_history)
          /\ j \in 1..Len(flip_history) \/ j = Len(flip_history) + 1
      BY <1>0, <2>4
    <3>2. CASE j \in 1..Len(flip_history)
      BY <2>4, <3>1, <3>2 DEF DisplayOrder
    <3>3. CASE j = Len(flip_history) + 1
      BY <2>4, <2>6, <3>1, <3>3
    <3> QED
      BY <3>1, <3>2, <3>3
  <2>8. \A b \in Bufs : /\ OnScreen(b)' <=> OnScreen(b)
                        /\ Completing(b)' <=> Completing(b)
                        /\ Queued(b)' <=> Queued(b)
    BY <2>1 DEF Queued, Completing, OnScreen
  <2> QED
    BY <2>1, <2>5, <2>7, <2>8 DEF DisplayOrder
<1>6. CASE PresentGiveUp
  <2>1. UNCHANGED <<pq, flip_history, handler, on_screen, pic>>
    BY <1>6 DEF PresentGiveUp, scanoutVars
  <2>2. \A b \in Bufs : ~HeldByPresent(b)'
    BY <1>0, <1>6 DEF PresentGiveUp, Leave, NoEntry, HeldByPresent
  <2> QED
    BY <2>1, <2>2 DEF DisplayOrder, Queued, Submitted, Completing, OnScreen
<1>7. CASE PresentHandle /\ HandlerStep
  <2>0. UNCHANGED <<pq, pw.ent, pic>>
    BY <1>7 DEF PresentHandle, pwRest, Typed, TypeOK, PresentTypeOK
  <2>00. \A b \in Bufs : /\ Queued(b)' <=> Queued(b)
                         /\ HeldByPresent(b)' <=> HeldByPresent(b)
    BY <2>0 DEF Queued, HeldByPresent
  <2>1. CASE flip_handler
    <3>1. /\ Len(flip_history) > 0 /\ flip_history' = Tail(flip_history)
          /\ handler' = [at |-> "busy", rec |-> flip_history[1]]
          /\ on_screen' = on_screen
      BY <2>1, HandlerTakes DEF flip_handler
    <3>2. /\ Len(flip_history') = Len(flip_history) - 1
          /\ \A i \in 1..Len(flip_history') : flip_history'[i] = flip_history[i + 1]
      BY <1>0, <3>1
    <3>3. \A b \in Bufs : Submitted(b)' \/ Completing(b)' => Submitted(b)
      <4>1. Len(flip_history) \in Nat /\ 1 \in 1..Len(flip_history)
        BY <1>0, <3>1
      <4>2. \A i \in 1..Len(flip_history') : i + 1 \in 1..Len(flip_history)
        BY <3>2, <4>1
      <4>3. ASSUME NEW b \in Bufs, Submitted(b)'
            PROVE  Submitted(b)
        BY <3>2, <4>2, <4>3 DEF Submitted
      <4>4. ASSUME NEW b \in Bufs, Completing(b)'
            PROVE  Submitted(b)
        BY <3>1, <4>1, <4>4 DEF Submitted, Completing
      <4> QED BY <4>3, <4>4
    <3>4. ASSUME NEW b \in Bufs, NEW c \in Bufs, Completing(b)', Submitted(c)'
          PROVE  pic[b] < pic[c]
      <4>1. b = flip_history[1]
        BY <3>1, <3>4 DEF Completing
      <4>2. PICK i \in 1..Len(flip_history') : flip_history'[i] = c
        BY <3>4 DEF Submitted
      <4>3. c = flip_history[i + 1]
        BY <3>2, <4>2
      <4>4. Len(flip_history) \in Nat
        BY <1>0
      <4>5. 1 \in 1..Len(flip_history) /\ i + 1 \in 1..Len(flip_history) /\ 1 < i + 1
        BY <3>1, <3>2, <4>2, <4>4
      <4> QED BY <4>1, <4>3, <4>5 DEF DisplayOrder
    <3>5. \A i, j \in 1..Len(flip_history') :
            i < j => pic[flip_history'[i]] < pic[flip_history'[j]]
      <4> SUFFICES ASSUME NEW i \in 1..Len(flip_history'),
                          NEW j \in 1..Len(flip_history'), i < j
                   PROVE  pic[flip_history'[i]] < pic[flip_history'[j]]
        OBVIOUS
      <4>1. /\ i + 1 \in 1..Len(flip_history) /\ j + 1 \in 1..Len(flip_history)
            /\ i + 1 < j + 1
        BY <1>0, <3>2
      <4>2. /\ flip_history'[i] = flip_history[i + 1]
            /\ flip_history'[j] = flip_history[j + 1]
        BY <3>2
      <4> QED
        BY <4>1, <4>2 DEF DisplayOrder
    <3>6. \A b \in Bufs : OnScreen(b)' <=> OnScreen(b)
      BY <3>1 DEF OnScreen
    <3> QED
      BY <2>0, <2>00, <3>3, <3>4, <3>5, <3>6 DEF DisplayOrder
  <2>2. CASE StoreBusy
    <3>1. /\ UNCHANGED <<flip_history, on_screen, handler.rec>>
          /\ handler.at = "busy" /\ handler'.at = "on_screen"
      BY <2>2 DEF StoreBusy, Typed, TypeOK, ScanoutTypeOK
    <3> QED
      BY <2>0, <2>00, <3>1 DEF DisplayOrder, Submitted, Completing, OnScreen
  <2>3. CASE StoreOnScreen
    <3>1. /\ flip_history' = flip_history /\ on_screen' = handler.rec
          /\ handler.at = "on_screen" /\ handler'.at = "flip_pending"
      BY <2>3 DEF StoreOnScreen, Typed, TypeOK, ScanoutTypeOK
    <3>2. \A b \in Bufs : ~Completing(b)' /\ (OnScreen(b)' => Completing(b))
                          /\ (Submitted(b)' <=> Submitted(b))
      BY <3>1 DEF Submitted, Completing, OnScreen
    <3> QED
      BY <2>0, <2>00, <3>1, <3>2 DEF DisplayOrder
  <2>4. CASE StoreFlipPending
    BY <2>0, <2>00, <2>4 DEF StoreFlipPending, NoHandler, DisplayOrder, Submitted,
       Completing, OnScreen
  <2> QED
    BY <1>7, <2>1, <2>2, <2>3, <2>4 DEF HandlerStep
<1> QED
  BY <1>1, <1>2, <1>3, <1>4, <1>5, <1>6, <1>7, ClaimSteps

\* A vblank replaces the picture on the display by the next of that order.
LEMMA VblankForward ==
  Typed /\ KernelView /\ DisplayOrder /\ Vblank => pic[kscan'] > pic[kscan]
<1> SUFFICES ASSUME Typed, KernelView, DisplayOrder, Vblank
             PROVE  pic[kscan] < pic[kflip]
  BY DEF Vblank, Typed, TypeOK, ScanoutTypeOK, DecodeTypeOK
<1> DEFINE n == Len(flip_history)
<1>0. /\ flip_history \in Seq(Bufs) /\ n \in Nat /\ Unseen \in Nat
      /\ on_screen \in Bufs /\ kflip # NoBuf
  BY DEF Typed, TypeOK, ScanoutTypeOK, Unseen, Vblank
<1>1. n = Unseen + 1 /\ flip_history[n] = kflip
  BY <1>0 DEF KernelView
<1>2. n \in 1..n /\ kflip \in Bufs /\ Submitted(kflip)
  BY <1>0, <1>1 DEF Submitted
<1>3. CASE Unseen > 0
  <2>1. kscan = flip_history[Unseen]
    BY <1>3 DEF KernelView
  <2>2. Unseen \in 1..n /\ Unseen < n
    BY <1>0, <1>1, <1>3
  <2>3. \A i, j \in 1..n : i < j => pic[flip_history[i]] < pic[flip_history[j]]
    BY DEF DisplayOrder
  <2> QED
    BY <1>1, <1>2, <2>1, <2>2, <2>3
<1>4. CASE ~(Unseen > 0) /\ handler.at \in {"busy", "on_screen"}
  <2>1. kscan = handler.rec /\ handler.rec \in Bufs
    BY <1>0, <1>4 DEF KernelView, Typed, Control, HandlerIdle
  <2> QED
    BY <1>2, <1>4, <2>1 DEF DisplayOrder, Completing
<1>5. CASE ~(Unseen > 0) /\ handler.at \notin {"busy", "on_screen"}
  BY <1>0, <1>2, <1>5 DEF KernelView, DisplayOrder, OnScreen
<1> QED
  BY <1>3, <1>4, <1>5

\* In DASH mode the display only ever moves forward: each vblank that changes
\* the picture shows a later one, through the conversion stage, the present
\* queue, refused flips, lost pictures and out-of-step flip events.
THEOREM DisplayedInOrder == ~Udp => (Spec => ShownInOrder)
<1> SUFFICES ASSUME ~Udp PROVE Spec => ShownInOrder
  OBVIOUS
<1>1. Spec => [](StageOrder /\ DisplayOrder)
  <2>1. Stream /\ Flips /\ Hands /\ StageOrder /\ DisplayOrder /\ [Next]_vars
          => (StageOrder /\ DisplayOrder)'
    BY StageNext, DisplayNext DEF Stream
  <2> QED
    BY <2>1, AlwaysStream, AlwaysPool, DisplayInit, PTL DEF Spec
<1>2. Typed /\ Flips /\ DisplayOrder /\ Hands /\ [Next]_vars
        => [kscan' # kscan => pic[kscan'] > pic[kscan]]_vars
  <2> SUFFICES ASSUME Typed, Flips, DisplayOrder, [Next]_vars, kscan' # kscan
               PROVE  pic[kscan'] > pic[kscan]
    OBVIOUS
  <2>1. Vblank
    BY ScanoutSteps DEF scanoutVars, Acquire, next_idx, PresentFlip, SubmitFlip,
       ReadEvents, HandlerStep, flip_handler, StoreBusy, StoreOnScreen,
       StoreFlipPending, ClearCompleted
  <2> QED
    BY <2>1, VblankForward DEF Flips
<1> QED
  BY <1>1, <1>2, AlwaysPool, PTL DEF Spec, ShownInOrder
=============================================================================
