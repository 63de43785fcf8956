------------------------- MODULE VideoPipelineProofs -------------------------
(***************************************************************************)
(* Proofs about VideoPipeline, for any number of slots, buffers and frames *)
(* and any choice of faults.  Three invariants, each inductive relative to *)
(* the ones before it: Typed (types and which fields a program counter     *)
(* gives meaning to), Flips (the driver's view of the kernel) and Hands    *)
(* (who may touch a scanout buffer).  On top of them: what a failed        *)
(* conversion or flip can cost in slots and buffers, the room in the       *)
(* present queue, and the life of the framebuffer mapping.                 *)
(***************************************************************************)
EXTENDS VideoPipeline, FiniteSetTheorems, TLAPS

\* What the program counters say about the other fields of the two workers.
Control ==
  /\ dw.pc \in {"copy", "free", "push"} => pend.ev
  /\ dw.pc \in {"conv", "copy", "free", "push"} => dw.buf \in Bufs
  /\ pend.ev => pend.buf \in Bufs
  /\ pw.pc = "flip" \/ (pw.pc \in {"drain", "handle"} /\ pw.ret = "flip")
       => pw.ent.buf \in Bufs
  /\ pw.pc # "handle" => Drained
  /\ HandlerIdle \/ handler.rec \in Bufs

Typed == TypeOK /\ Control

\* At most one flip is outstanding except between a submission and the
\* handling of the events that preceded it.
FlipRoom ==
  \/ Len(flip_history) <= 1
  \/ pw.pc = "drain" /\ pw.ret = "report"
  \/ pw.pc = "handle" /\ unhandled > 0

Flips == KernelView /\ FlipRoom

\* A buffer in anybody's hands is marked busy, so next_idx passes it over;
\* the one on screen it recognises by on_screen.
ClaimedBusy ==
  \A b \in Bufs :
    HeldByDecode(b) \/ Pending(b) \/ Queued(b) \/ HeldByPresent(b)
      \/ Submitted(b) \/ Completing(b) => busy[b]

Hands == ClaimedBusy /\ OneOwner

-----------------------------------------------------------------------------
(* What a step of the whole pipeline does to each part of the state.       *)

decodeVars  == <<rd, dw, pend, vmeta, pic>>
presentVars == <<pq, pw, vrenders, drops>>
mainVars    == <<fbpic, fbmap, run, run_decode, mw>>

\* The slot pool changes only through its own operations.
LEMMA SlotSteps ==
  [Next]_vars =>
    \/ UNCHANGED slotVars
    \/ (\E i \in Slots : TakeWrite(i)) \/ TakeWait
    \/ slot_publish(rd.slot, rd.frame, Deadline(rd.frame))
    \/ slot_release(rd.slot) \/ slot_release(dw.slot)
    \/ PickWait \/ MarkDecoding(dw.slot) \/ BroadcastReady
    \/ CancelWaitingTaker
  BY DEF Next, vars, pipeVars, Producer, DecodeWorker, PresentWorker, Main,
         ProducerTake, ProducerWait, ProducerPublish, DecodeTop, DecodePick,
         DecodeStop, DecodeSleep, DecodeMark, Decode, Acquire, AcquireBusy,
         Convert, CopyPending, FreeBeforePush, PushPending, FbCheck, FbCopy,
         Release, PresentTop, PresentPop, PresentPopEmpty, PresentDrain,
         PresentHandle, PresentFlip, PresentBusy, PresentGiveUp,
         PresentReport, VblankTick, Stop, RestartReader, LeaveLoop,
         JoinReader, CloseDisplay, StopDecode, WakeDecode, WakePresent,
         JoinWorkers, CancelReader, dwRest, pwRest, mwRest

\* The scanout state changes only through the driver's operations, the
\* handler and the vblank.
LEMMA ScanoutSteps ==
  [Next]_vars =>
    \/ UNCHANGED scanoutVars
    \/ (\E b \in Bufs : Acquire(b)) \/ PresentFlip
    \/ Vblank \/ ReadEvents \/ (PresentHandle /\ HandlerStep) \/ ClearCompleted
  BY DEF Next, vars, pipeVars, Producer, DecodeWorker, PresentWorker, Main,
         ProducerTake, ProducerWait, ProducerPublish, DecodeTop, DecodePick,
         DecodeStop, DecodeSleep, DecodeMark, Decode, Acquire, AcquireBusy,
         Convert, CopyPending, FreeBeforePush, PushPending, FbCheck, FbCopy,
         Release, PresentTop, PresentPop, PresentPopEmpty, PresentDrain,
         PresentHandle, PresentFlip, PresentBusy, PresentGiveUp,
         PresentReport, VblankTick, Stop, RestartReader, LeaveLoop,
         JoinReader, CloseDisplay, StopDecode, WakeDecode, WakePresent,
         JoinWorkers, CancelReader, dwRest, pwRest, mwRest

\* Who changes the state of the producer and the decode worker.
LEMMA DecodeSteps ==
  [Next]_vars =>
    \/ UNCHANGED decodeVars
    \/ (\E i \in Slots : ProducerTake(i)) \/ ProducerPublish
    \/ DecodeTop \/ DecodeStop \/ DecodeMark \/ Decode
    \/ (\E i \in Slots : DecodePick(i)) \/ (\E b \in Bufs : Acquire(b))
    \/ AcquireBusy \/ Convert \/ CopyPending \/ FreeBeforePush
    \/ PushPending \/ FbCheck \/ FbCopy \/ Release
    \/ JoinReader \/ CloseDisplay
  BY DEF decodeVars, Next, vars, pipeVars, Producer, DecodeWorker, PresentWorker, Main,
         ProducerTake, ProducerWait, ProducerPublish, DecodeTop, DecodePick,
         DecodeStop, DecodeSleep, DecodeMark, Decode, Acquire, AcquireBusy,
         Convert, CopyPending, FreeBeforePush, PushPending, FbCheck, FbCopy,
         Release, PresentTop, PresentPop, PresentPopEmpty, PresentDrain,
         PresentHandle, PresentFlip, PresentBusy, PresentGiveUp,
         PresentReport, VblankTick, Stop, RestartReader, LeaveLoop,
         JoinReader, CloseDisplay, StopDecode, WakeDecode, WakePresent,
         JoinWorkers, CancelReader, dwRest, pwRest, mwRest

\* Who changes the present queue, the present worker and the counters.
LEMMA PresentSteps ==
  [Next]_vars =>
    \/ UNCHANGED presentVars
    \/ Convert \/ PushPending \/ PresentTop \/ PresentPop
    \/ PresentPopEmpty \/ PresentDrain \/ PresentHandle \/ PresentFlip
    \/ PresentBusy \/ PresentGiveUp \/ PresentReport \/ WakePresent
  BY DEF presentVars, Next, vars, pipeVars, Producer, DecodeWorker, PresentWorker, Main,
         ProducerTake, ProducerWait, ProducerPublish, DecodeTop, DecodePick,
         DecodeStop, DecodeSleep, DecodeMark, Decode, Acquire, AcquireBusy,
         Convert, CopyPending, FreeBeforePush, PushPending, FbCheck, FbCopy,
         Release, PresentTop, PresentPop, PresentPopEmpty, PresentDrain,
         PresentHandle, PresentFlip, PresentBusy, PresentGiveUp,
         PresentReport, VblankTick, Stop, RestartReader, LeaveLoop,
         JoinReader, CloseDisplay, StopDecode, WakeDecode, WakePresent,
         JoinWorkers, CancelReader, dwRest, pwRest, mwRest

\* Who changes the framebuffer and the main thread's state.
LEMMA MainSteps ==
  [Next]_vars =>
    \/ UNCHANGED mainVars
    \/ FbCopy \/ Stop \/ RestartReader \/ Main
  BY DEF mainVars, Next, vars, pipeVars, Producer, DecodeWorker, PresentWorker, Main,
         ProducerTake, ProducerWait, ProducerPublish, DecodeTop, DecodePick,
         DecodeStop, DecodeSleep, DecodeMark, Decode, Acquire, AcquireBusy,
         Convert, CopyPending, FreeBeforePush, PushPending, FbCheck, FbCopy,
         Release, PresentTop, PresentPop, PresentPopEmpty, PresentDrain,
         PresentHandle, PresentFlip, PresentBusy, PresentGiveUp,
         PresentReport, VblankTick, Stop, RestartReader, LeaveLoop,
         JoinReader, CloseDisplay, StopDecode, WakeDecode, WakePresent,
         JoinWorkers, CancelReader, dwRest, pwRest, mwRest

\* Who changes anything the display path depends on.
LEMMA BufferSteps ==
  [Next]_vars =>
    \/ UNCHANGED <<scanoutVars, presentVars>>
    \/ (\E b \in Bufs : Acquire(b)) \/ Convert \/ PushPending
    \/ PresentTop \/ PresentPop \/ PresentPopEmpty \/ PresentDrain
    \/ PresentHandle \/ PresentFlip \/ PresentBusy \/ PresentGiveUp
    \/ PresentReport \/ VblankTick \/ WakePresent
  BY DEF presentVars, Next, vars, pipeVars, Producer, DecodeWorker, PresentWorker, Main,
         ProducerTake, ProducerWait, ProducerPublish, DecodeTop, DecodePick,
         DecodeStop, DecodeSleep, DecodeMark, Decode, Acquire, AcquireBusy,
         Convert, CopyPending, FreeBeforePush, PushPending, FbCheck, FbCopy,
         Release, PresentTop, PresentPop, PresentPopEmpty, PresentDrain,
         PresentHandle, PresentFlip, PresentBusy, PresentGiveUp,
         PresentReport, VblankTick, Stop, RestartReader, LeaveLoop,
         JoinReader, CloseDisplay, StopDecode, WakeDecode, WakePresent,
         JoinWorkers, CancelReader, dwRest, pwRest, mwRest

\* The parts of the initial state, and the buffer number that is none.
LEMMA InitFacts ==
  Init =>
    /\ vmc_drm_scanout_init
    /\ dw = IdleDw /\ drops = 0 /\ pq = <<>>
    /\ pend = [ev |-> FALSE, buf |-> NoBuf, stage |-> 0, fidx |-> 0]
    /\ pw = [pc |-> IF UseDrm THEN "top" ELSE "off", ent |-> NoEntry,
             tries |-> 0, ret |-> "top"]
    /\ mw = [pc |-> "loop", restarts |-> 0]
  BY Zenon DEF Init

\* What is left of a queue when its first element is taken.
LEMMA TailFact ==
  ASSUME NEW S, NEW s \in Seq(S), Len(s) > 0
  PROVE  /\ Len(Tail(s)) = Len(s) - 1
         /\ \A i \in 1..Len(s) - 1 : Tail(s)[i] = s[i + 1]
  OBVIOUS

LEMMA NoBufFact == NoBuf \notin Bufs
  BY ScanoutAssumption DEF NoBuf, Bufs

-----------------------------------------------------------------------------
(* Type correctness.                                                       *)

LEMMA TypedInit == Init => Typed
<1> SUFFICES ASSUME Init PROVE Typed
  OBVIOUS
<1> USE SlotAssumption, ScanoutAssumption, PipelineAssumption
        DEF Init, SlotsInit, vmc_drm_scanout_init, Slots, Bufs, NoBuf
<1>1. SlotsTypeOK
  BY DEF SlotsTypeOK, SlotStates
<1>2. ScanoutTypeOK
  BY DEF ScanoutTypeOK, NoHandler, HandlerStores
<1>3. DecodeTypeOK
  BY DEF DecodeTypeOK, IdleDw, DwPcs
<1>4. PresentTypeOK
  BY DEF PresentTypeOK, PwPcs, NoEntry
<1>5. MainTypeOK
  BY DEF MainTypeOK, MwPcs
<1>6. Control
  BY DEF Control, IdleDw, NoEntry, Drained, HandlerIdle, NoHandler
<1> QED
  BY <1>1, <1>2, <1>3, <1>4, <1>5, <1>6 DEF Typed, TypeOK

\* The slot pool keeps its type.
LEMMA SlotsTyped == Typed /\ [Next]_vars => SlotsTypeOK'
<1> SUFFICES ASSUME Typed, [Next]_vars PROVE SlotsTypeOK'
  OBVIOUS
<1> USE DEF Typed, TypeOK, Control, SlotsTypeOK
<1>1. CASE \E i \in Slots : TakeWrite(i)
  BY <1>1 DEF TakeWrite, SetState, SlotStates
<1>2. CASE TakeWait
  BY <1>2 DEF TakeWait
<1>3. CASE slot_publish(rd.slot, rd.frame, Deadline(rd.frame))
  BY <1>3 DEF slot_publish, Deadline, SlotStates, DecodeTypeOK
<1>4. CASE slot_release(rd.slot)
  BY <1>4 DEF slot_release, SetState, SlotStates
<1>5. CASE slot_release(dw.slot)
  BY <1>5 DEF slot_release, SetState, SlotStates
<1>6. CASE PickWait
  BY <1>6 DEF PickWait
<1>7. CASE MarkDecoding(dw.slot)
  BY <1>7 DEF MarkDecoding, SetState, SlotStates
<1>8. CASE BroadcastReady
  BY <1>8 DEF BroadcastReady
<1>9. CASE CancelWaitingTaker
  BY <1>9 DEF CancelWaitingTaker
<1>10. CASE UNCHANGED slotVars
  BY <1>10 DEF slotVars
<1> QED
  BY <1>1, <1>2, <1>3, <1>4, <1>5, <1>6, <1>7, <1>8, <1>9, <1>10, SlotSteps

\* The scanout state keeps its type.
LEMMA ScanoutTyped == Typed /\ [Next]_vars => ScanoutTypeOK'
<1> SUFFICES ASSUME Typed, [Next]_vars PROVE ScanoutTypeOK'
  OBVIOUS
<1> USE DEF Typed, TypeOK, Control, ScanoutTypeOK
<1>1. CASE \E b \in Bufs : Acquire(b)
  BY <1>1, ScanoutAssumption DEF Acquire, next_idx, Bufs
<1>2. CASE PresentFlip
  <2>1. pw.ent.buf \in Bufs
    BY <1>2 DEF PresentFlip
  <2>2. PushHistory(pw.ent.buf) \in Seq(Bufs)
    <3>1. CASE Len(flip_history) = FlipHistory - 1
      <4>1. flip_history # <<>>
        BY <3>1, ScanoutAssumption
      <4>2. Tail(flip_history) \in Seq(Bufs)
        BY <4>1
      <4> QED
        BY <2>1, <3>1, <4>2 DEF PushHistory
    <3>2. CASE Len(flip_history) # FlipHistory - 1
      BY <2>1, <3>2 DEF PushHistory
    <3> QED
      BY <3>1, <3>2
  <2> QED
    BY <1>2, <2>1, <2>2 DEF PresentFlip, SubmitFlip
<1>3. CASE Vblank
  BY <1>3 DEF Vblank
<1>4. CASE ReadEvents
  BY <1>4 DEF ReadEvents
<1>5. CASE flip_handler
  BY <1>5 DEF flip_handler, HandlerStores, NoHandler, HandlerIdle
<1>6. CASE StoreBusy
  BY <1>6 DEF StoreBusy, HandlerStores, NoHandler, HandlerIdle
<1>7. CASE StoreOnScreen
  BY <1>7 DEF StoreOnScreen, HandlerStores, NoHandler, HandlerIdle
<1>8. CASE StoreFlipPending
  BY <1>8 DEF StoreFlipPending, HandlerStores, NoHandler, HandlerIdle
<1>9. CASE ClearCompleted
  BY <1>9 DEF ClearCompleted
<1>10. CASE UNCHANGED scanoutVars
  BY <1>10 DEF scanoutVars
<1> QED
  BY <1>1, <1>2, <1>3, <1>4, <1>5, <1>6, <1>7, <1>8, <1>9, <1>10, ScanoutSteps DEF HandlerStep

\* The producer and the decode worker keep their types.
LEMMA DecodeTyped == Typed /\ [Next]_vars => DecodeTypeOK'
<1> SUFFICES ASSUME Typed, [Next]_vars PROVE DecodeTypeOK'
  OBVIOUS
<1> USE DEF Typed, TypeOK, Control, DecodeTypeOK
<1>1. CASE \E i \in Slots : ProducerTake(i)
  BY <1>1 DEF ProducerTake
<1>2. CASE ProducerPublish
  <2>1. 0 \in Slots
    BY SlotAssumption DEF Slots
  <2> QED
    BY <1>2, <2>1 DEF ProducerPublish
<1>3. CASE DecodeTop
  BY <1>3 DEF DecodeTop, dwRest, DwPcs
<1>4. CASE DecodeStop
  BY <1>4 DEF DecodeStop, dwRest, DwPcs
<1>5. CASE DecodeMark
  BY <1>5 DEF DecodeMark, dwRest, DwPcs, SlotsTypeOK
<1>6. CASE Decode
  BY <1>6 DEF Decode, dwRest, DwPcs
<1>7. CASE \E i \in Slots : DecodePick(i)
  BY <1>7 DEF DecodePick, dwRest, DwPcs
<1>8. CASE \E b \in Bufs : Acquire(b)
  <2>1. 0 \in 0..AcquireTries
    BY PipelineAssumption
  <2> QED
    BY ZenonT(60), <1>8, <2>1 DEF Acquire, dwRest, DwPcs
<1>9. CASE AcquireBusy
  <2>1. /\ 0 \in 0..AcquireTries
        /\ dw.tries < AcquireTries => dw.tries + 1 \in 0..AcquireTries
    BY PipelineAssumption
  <2>2. dw' \in [pc : DwPcs, slot : Slots, frame : Nat, buf : Bufs \cup {NoBuf},
                tries : 0..AcquireTries, ev : BOOLEAN]
    <3>1. CASE run_decode /\ dw.tries < AcquireTries
      BY <1>9, <2>1, <3>1 DEF AcquireBusy
    <3>2. CASE ~(run_decode /\ dw.tries < AcquireTries)
      BY <1>9, <2>1, <3>2 DEF AcquireBusy, DwPcs
    <3> QED
      BY <3>1, <3>2
  <2> QED
    BY <1>9, <2>2 DEF AcquireBusy, dwRest
<1>10. CASE Convert
  <2>1. PICK ev \in BOOLEAN :
          IF pend.ev
            THEN dw' = [dw EXCEPT !.pc = "copy", !.ev = ev] /\ UNCHANGED pend
            ELSE /\ dw' = [dw EXCEPT !.pc = "top", !.buf = NoBuf]
                 /\ pend' = [pend EXCEPT !.ev = ev, !.buf = dw.buf, !.stage = dw.frame]
    BY <1>10 DEF Convert
  <2>2. UNCHANGED <<rd, vmeta, pic>>
    BY <1>10 DEF Convert
  <2>3. CASE pend.ev
    BY <2>1, <2>2, <2>3 DEF DwPcs
  <2>4. CASE ~pend.ev
    <3>1. dw' \in [pc : DwPcs, slot : Slots, frame : Nat, buf : Bufs \cup {NoBuf},
                  tries : 0..AcquireTries, ev : BOOLEAN]
      BY ZenonT(60), <2>1, <2>4 DEF DwPcs
    <3>2. pend' \in [ev : BOOLEAN, buf : Bufs \cup {NoBuf}, stage : Nat, fidx : Nat]
      BY <2>1, <2>4
    <3> QED
      BY <2>2, <3>1, <3>2
  <2> QED
    BY <2>3, <2>4
<1>11. CASE CopyPending
  BY <1>11 DEF CopyPending, DwPcs
<1>12. CASE FreeBeforePush
  BY <1>12 DEF FreeBeforePush, dwRest, DwPcs
<1>13. CASE PushPending
  BY <1>13 DEF PushPending, DwPcs, NoBuf
<1>14. CASE FbCheck
  BY <1>14 DEF FbCheck, dwRest, DwPcs
<1>15. CASE FbCopy
  BY <1>15 DEF FbCopy, DwPcs
<1>16. CASE Release
  BY <1>16 DEF Release, dwRest, DwPcs
<1>17. CASE JoinReader
  BY <1>17 DEF JoinReader
<1>18. CASE CloseDisplay
  BY <1>18 DEF CloseDisplay
<1>19. CASE UNCHANGED decodeVars
  BY <1>19 DEF decodeVars
<1> QED
  BY <1>1, <1>2, <1>3, <1>4, <1>5, <1>6, <1>7, <1>8, <1>9, <1>10, <1>11, <1>12, <1>13, <1>14, <1>15, <1>16, <1>17, <1>18, <1>19, DecodeSteps

\* The present queue and the present worker keep their types.
LEMMA PresentTyped == Typed /\ [Next]_vars => PresentTypeOK'
<1> SUFFICES ASSUME Typed, [Next]_vars PROVE PresentTypeOK'
  OBVIOUS
<1> USE DEF Typed, TypeOK, Control, PresentTypeOK
<1>1. CASE Convert
  BY <1>1 DEF Convert
<1>2. CASE PushPending
  <2>1. [buf |-> pend.buf, pts |-> pend.fidx] \in Entries
    BY <1>2 DEF PushPending, Entries, DecodeTypeOK
  <2>2. pq' \in Seq(Entries)
    BY <1>2, <2>1 DEF PushPending
  <2>3. pw' \in [pc : PwPcs, ent : Entries \cup {NoEntry}, tries : 0..FlipTries,
                ret : {"top", "flip", "report"}]
    BY <1>2 DEF PushPending, WakePresenter, PwPcs
  <2> QED
    BY <1>2, <2>2, <2>3 DEF PushPending
<1>3. CASE PresentTop
  BY <1>3 DEF PresentTop, pwRest, PwPcs
<1>4. CASE PresentPop
  BY <1>4, PipelineAssumption DEF PresentPop, pwRest, PwPcs
<1>5. CASE PresentPopEmpty
  BY <1>5 DEF PresentPopEmpty, pwRest, PwPcs
<1>6. CASE PresentDrain
  BY <1>6 DEF PresentDrain, pwRest, PwPcs
<1>7. CASE PresentHandle
  BY <1>7 DEF PresentHandle, pwRest, PwPcs
<1>8. CASE PresentFlip
  BY <1>8, PipelineAssumption DEF PresentFlip, Leave, pwRest, PwPcs
<1>9. CASE PresentBusy
  <2>1. pw.tries + 1 \in 0..FlipTries
    BY <1>9, PipelineAssumption DEF PresentBusy, MayTry
  <2> QED
    BY <1>9, <2>1 DEF PresentBusy, pwRest, PwPcs
<1>10. CASE PresentGiveUp
  BY <1>10, PipelineAssumption DEF PresentGiveUp, Leave, PwPcs
<1>11. CASE PresentReport
  <2>1. pw' \in [pc : PwPcs, ent : Entries \cup {NoEntry}, tries : 0..FlipTries,
                ret : {"top", "flip", "report"}]
    BY <1>11 DEF PresentReport, PwPcs
  <2>2. vrenders' \in Nat
    BY <1>11 DEF PresentReport
  <2> QED
    BY <1>11, <2>1, <2>2 DEF PresentReport, pwRest
<1>12. CASE WakePresent
  BY <1>12 DEF WakePresent, WakePresenter, PwPcs
<1>13. CASE UNCHANGED presentVars
  BY <1>13 DEF presentVars
<1> QED
  BY <1>1, <1>2, <1>3, <1>4, <1>5, <1>6, <1>7, <1>8, <1>9, <1>10, <1>11, <1>12, <1>13, PresentSteps

\* The framebuffer and the main thread keep their types.
LEMMA MainTyped == Typed /\ [Next]_vars => MainTypeOK'
<1> SUFFICES ASSUME Typed, [Next]_vars PROVE MainTypeOK'
  OBVIOUS
<1> USE DEF Typed, TypeOK, Control, MainTypeOK
<1>1. CASE FbCopy
  BY <1>1 DEF FbCopy, DecodeTypeOK
<1>2. CASE Stop
  BY <1>2 DEF Stop, mwRest
<1>3. CASE RestartReader
  BY <1>3, PipelineAssumption DEF RestartReader, mwRest
<1>4. CASE LeaveLoop
  BY <1>4 DEF LeaveLoop, mwRest, Goto, MwPcs
<1>5. CASE JoinReader
  BY <1>5 DEF JoinReader, mwRest, Goto, MwPcs
<1>6. CASE CloseDisplay
  BY <1>6 DEF CloseDisplay, mwRest, Goto, MwPcs
<1>7. CASE StopDecode
  BY <1>7 DEF StopDecode, mwRest, Goto, MwPcs
<1>8. CASE WakeDecode
  BY <1>8 DEF WakeDecode, mwRest, Goto, MwPcs
<1>9. CASE WakePresent
  BY <1>9 DEF WakePresent, mwRest, Goto, MwPcs
<1>10. CASE JoinWorkers
  BY <1>10 DEF JoinWorkers, mwRest, Goto, MwPcs
<1>11. CASE UNCHANGED mainVars
  BY <1>11 DEF mainVars
<1> QED
  BY <1>1, <1>2, <1>3, <1>4, <1>5, <1>6, <1>7, <1>8, <1>9, <1>10, <1>11, MainSteps DEF Main

\* The decode worker's half of Control.
LEMMA DecodeControlled ==
  Typed /\ [Next]_vars =>
    (/\ dw.pc \in {"copy", "free", "push"} => pend.ev
     /\ dw.pc \in {"conv", "copy", "free", "push"} => dw.buf \in Bufs
     /\ pend.ev => pend.buf \in Bufs)'
<1> DEFINE DC == /\ dw.pc \in {"copy", "free", "push"} => pend.ev
                 /\ dw.pc \in {"conv", "copy", "free", "push"} => dw.buf \in Bufs
                 /\ pend.ev => pend.buf \in Bufs
<1> SUFFICES ASSUME Typed, [Next]_vars PROVE DC'
  OBVIOUS
<1> USE DEF Typed, TypeOK, Control, DecodeTypeOK
<1>1. CASE \E i \in Slots : ProducerTake(i)
  BY <1>1 DEF ProducerTake
<1>2. CASE ProducerPublish
  BY <1>2 DEF ProducerPublish
<1>3. CASE DecodeTop
  BY <1>3 DEF DecodeTop, dwRest
<1>4. CASE DecodeStop
  BY <1>4 DEF DecodeStop, dwRest
<1>5. CASE DecodeMark
  BY <1>5 DEF DecodeMark, dwRest
<1>6. CASE Decode
  BY <1>6 DEF Decode, dwRest
<1>7. CASE \E i \in Slots : DecodePick(i)
  BY <1>7 DEF DecodePick, dwRest
<1>8. CASE \E b \in Bufs : Acquire(b)
  BY <1>8 DEF Acquire, dwRest
<1>9. CASE AcquireBusy
  BY <1>9 DEF AcquireBusy, dwRest
<1>10. CASE Convert
  BY ZenonT(60), <1>10 DEF Convert
<1>11. CASE CopyPending
  BY <1>11 DEF CopyPending
<1>12. CASE FreeBeforePush
  BY <1>12 DEF FreeBeforePush, dwRest
<1>13. CASE PushPending
  BY <1>13 DEF PushPending
<1>14. CASE FbCheck
  BY <1>14 DEF FbCheck, dwRest
<1>15. CASE FbCopy
  BY <1>15 DEF FbCopy
<1>16. CASE Release
  BY <1>16 DEF Release, dwRest
<1>17. CASE JoinReader
  BY <1>17 DEF JoinReader
<1>18. CASE CloseDisplay
  BY <1>18 DEF CloseDisplay
<1>19. CASE UNCHANGED decodeVars
  BY <1>19 DEF decodeVars
<1> QED
  BY <1>1, <1>2, <1>3, <1>4, <1>5, <1>6, <1>7, <1>8, <1>9, <1>10, <1>11, <1>12, <1>13, <1>14, <1>15, <1>16, <1>17, <1>18, <1>19, DecodeSteps

\* The present worker's half of Control: the handler runs only while the
\* worker is in "handle".
LEMMA PresentControlled ==
  Typed /\ [Next]_vars =>
    (/\ pw.pc = "flip" \/ (pw.pc \in {"drain", "handle"} /\ pw.ret = "flip")
          => pw.ent.buf \in Bufs
     /\ pw.pc # "handle" => Drained
     /\ HandlerIdle \/ handler.rec \in Bufs)'
<1> DEFINE PC == /\ pw.pc = "flip" \/ (pw.pc \in {"drain", "handle"} /\ pw.ret = "flip")
                      => pw.ent.buf \in Bufs
                 /\ pw.pc # "handle" => Drained
                 /\ HandlerIdle \/ handler.rec \in Bufs
<1> SUFFICES ASSUME Typed, [Next]_vars PROVE PC'
  OBVIOUS
<1> USE DEF Typed, TypeOK, Control, PresentTypeOK, ScanoutTypeOK, Drained,
            HandlerIdle, HandlerStores
<1>1. CASE PresentTop
  BY <1>1 DEF PresentTop, scanoutVars
<1>2. CASE PresentPop
  <2>1. Head(pq) \in Entries
    BY <1>2 DEF PresentPop
  <2>2. Head(pq).buf \in Bufs
    BY <2>1 DEF Entries
  <2> QED
    BY <1>2, <2>2 DEF PresentPop, scanoutVars
<1>3. CASE PresentPopEmpty
  BY <1>3 DEF PresentPopEmpty, scanoutVars
<1>4. CASE PresentDrain
  BY <1>4 DEF PresentDrain, ReadEvents, scanoutVars
<1>5. CASE PresentHandle
  <2>0. pw.pc = "handle"
    BY <1>5 DEF PresentHandle
  <2>1. CASE flip_handler /\ UNCHANGED pw
    BY <2>0, <2>1 DEF flip_handler, NoHandler, NoBuf
  <2>2. CASE StoreBusy /\ UNCHANGED pw
    BY <2>0, <2>2 DEF StoreBusy
  <2>3. CASE StoreOnScreen /\ UNCHANGED pw
    BY <2>0, <2>3 DEF StoreOnScreen
  <2>4. CASE StoreFlipPending /\ UNCHANGED pw
    BY <2>0, <2>4 DEF StoreFlipPending, NoHandler
  <2>5. CASE Drained /\ pw' = [pw EXCEPT !.pc = pw.ret] /\ UNCHANGED scanoutVars
    BY <2>0, <2>5 DEF scanoutVars
  <2> QED
    BY <1>5, <2>1, <2>2, <2>3, <2>4, <2>5 DEF PresentHandle, HandlerStep
<1>6. CASE PresentFlip
  BY <1>6 DEF PresentFlip, SubmitFlip, Leave
<1>7. CASE PresentBusy
  BY <1>7 DEF PresentBusy, scanoutVars
<1>8. CASE PresentGiveUp
  BY <1>8 DEF PresentGiveUp, Leave, scanoutVars
<1>9. CASE PresentReport
  BY <1>9 DEF PresentReport, ClearCompleted, scanoutVars
<1>10. CASE WakePresent
  BY <1>10 DEF WakePresent, WakePresenter, scanoutVars
<1>11. CASE PushPending
  BY <1>11 DEF PushPending, WakePresenter, scanoutVars
<1>12. CASE Convert
  BY <1>12 DEF Convert, scanoutVars
<1>13. CASE \E b \in Bufs : Acquire(b)
  BY <1>13 DEF Acquire, next_idx, dwRest
<1>14. CASE VblankTick
  BY <1>14 DEF VblankTick, Vblank, pipeVars
<1>15. CASE UNCHANGED <<scanoutVars, presentVars>>
  BY <1>15 DEF scanoutVars, presentVars
<1> QED
  BY <1>1, <1>2, <1>3, <1>4, <1>5, <1>6, <1>7, <1>8, <1>9, <1>10, <1>11, <1>12, <1>13, <1>14, <1>15, BufferSteps

LEMMA TypedNext == Typed /\ [Next]_vars => Typed'
<1> SUFFICES ASSUME Typed, [Next]_vars PROVE Typed'
  OBVIOUS
<1>1. TypeOK'
  BY SlotsTyped, ScanoutTyped, DecodeTyped, PresentTyped, MainTyped DEF TypeOK
<1>2. Control'
  BY DecodeControlled, PresentControlled DEF Control
<1> QED
  BY <1>1, <1>2 DEF Typed

\* Every behaviour of the pipeline keeps its variables in their types, and
\* the program counters keep their meaning (Control).
THEOREM AlwaysTyped == Spec => []Typed
  BY TypedInit, TypedNext, PTL DEF Spec

\* TypeOK, which the runs check.
THEOREM TypeCorrect == Spec => []TypeOK
<1>1. Typed => TypeOK
  BY DEF Typed
<1> QED
  BY <1>1, AlwaysTyped, PTL

-----------------------------------------------------------------------------
(* The driver and the kernel.                                              *)

LEMMA FlipsInit == Init => Flips
  BY DEF Init, Flips, KernelView, FlipRoom, Unseen, vmc_drm_scanout_init,
         NoHandler, NoBuf

\* flip_handler takes the oldest record: afterwards the books describe the
\* kernel again, with the record in the handler's hands.
LEMMA HandlerBooks ==
  ASSUME ScanoutTypeOK, KernelView, flip_handler
  PROVE  KernelView' /\ Len(flip_history') <= 1
<1> DEFINE n == Len(flip_history)
           u == kevents + unhandled
<1>1. n \in Nat /\ u \in Nat /\ u > 0 /\ n \in {u, u + 1} /\ n <= 2
  BY DEF ScanoutTypeOK, KernelView, Unseen, flip_handler
<1>2. (kflip = NoBuf => n = u) /\ (kflip # NoBuf => n = u + 1 /\ flip_history[n] = kflip)
  BY <1>1 DEF KernelView, Unseen
<1>3. kscan = flip_history[u]
  BY <1>1 DEF KernelView, Unseen
<1>4. kevents' + unhandled' = u - 1 /\ UNCHANGED <<kflip, kscan, on_screen>>
  BY DEF flip_handler, ScanoutTypeOK
<1>5. /\ flip_history # <<>> /\ Head(flip_history) = flip_history[1]
      /\ flip_history[1] \in Bufs
  BY <1>1 DEF ScanoutTypeOK
<1>6. /\ flip_history' = Tail(flip_history)
      /\ handler' = [at |-> "busy", rec |-> flip_history[1]]
  BY <1>5 DEF flip_handler, Bufs, NoBuf
<1>7. /\ Len(flip_history') = n - 1
      /\ \A i \in 1..n-1 : flip_history'[i] = flip_history[i + 1]
  BY <1>1, <1>6 DEF ScanoutTypeOK
<1> HIDE DEF n, u
<1>8. CASE u = 1
  BY <1>1, <1>2, <1>3, <1>4, <1>6, <1>7, <1>8 DEF KernelView, Unseen
<1>9. CASE u = 2
  BY <1>1, <1>2, <1>3, <1>4, <1>7, <1>9 DEF KernelView, Unseen
<1> QED
  BY <1>1, <1>8, <1>9

LEMMA FlipsNext == Typed /\ Flips /\ [Next]_vars => Flips'
<1> SUFFICES ASSUME Typed, Flips, [Next]_vars PROVE Flips'
  OBVIOUS
<1>0. kevents \in Nat /\ unhandled \in Nat /\ Len(flip_history) \in Nat
  BY DEF Typed, TypeOK, ScanoutTypeOK
<1> USE DEF Typed, TypeOK, Control, ScanoutTypeOK, Flips, KernelView, FlipRoom,
            Unseen
<1>1. CASE UNCHANGED <<scanoutVars, presentVars>>
  BY <1>1 DEF scanoutVars, presentVars
<1>2. CASE \E b \in Bufs : Acquire(b)
  BY <1>2 DEF Acquire, next_idx, dwRest
<1>3. CASE Convert
  BY <1>3 DEF Convert, scanoutVars
<1>4. CASE PushPending
  BY <1>4 DEF PushPending, WakePresenter, scanoutVars, PresentTypeOK
<1>5. CASE PresentTop
  BY <1>5 DEF PresentTop, scanoutVars, PresentTypeOK
<1>6. CASE PresentPop
  BY <1>6 DEF PresentPop, scanoutVars, PresentTypeOK
<1>7. CASE PresentPopEmpty
  BY <1>7 DEF PresentPopEmpty, scanoutVars, PresentTypeOK
<1>8. CASE PresentDrain
  BY <1>8 DEF PresentDrain, ReadEvents, scanoutVars, PresentTypeOK, Drained, HandlerIdle
<1>9. CASE PresentHandle
  <2>0. pw.pc = "handle"
    BY <1>9 DEF PresentHandle
  <2>1. CASE flip_handler /\ UNCHANGED pw
    BY <2>1, HandlerBooks
  <2>2. CASE StoreBusy /\ UNCHANGED pw
    BY <2>2 DEF StoreBusy
  <2>3. CASE StoreOnScreen /\ UNCHANGED pw
    BY <2>3 DEF StoreOnScreen
  <2>4. CASE StoreFlipPending /\ UNCHANGED pw
    BY <2>4 DEF StoreFlipPending, NoHandler
  <2>5. CASE Drained /\ pw' = [pw EXCEPT !.pc = pw.ret] /\ UNCHANGED scanoutVars
    BY <2>0, <2>5 DEF scanoutVars, Drained
  <2> QED
    BY <1>9, <2>1, <2>2, <2>3, <2>4, <2>5 DEF PresentHandle, HandlerStep
<1>10. CASE PresentFlip
  <2> DEFINE b == pw.ent.buf
  <2>1. b \in Bufs /\ b # NoBuf /\ kflip = NoBuf /\ unhandled = 0 /\ HandlerIdle
    BY <1>10 DEF PresentFlip, SubmitFlip, FlipAccepted, Drained, Bufs, NoBuf
  <2>2. Len(flip_history) = kevents /\ kevents <= 1
    <3>1. pw.pc = "flip"
      BY <1>10 DEF PresentFlip
    <3> HIDE DEF Typed, TypeOK, Control, ScanoutTypeOK
    <3>2. Len(flip_history) = kevents
      BY <1>0, <2>1
    <3>3. Len(flip_history) <= 1
      BY <3>1
    <3> QED BY <3>2, <3>3
  <2>3. flip_history' = Append(flip_history, b)
    BY <1>10, <2>2, ScanoutAssumption DEF PresentFlip, SubmitFlip, PushHistory
  <2>4. /\ Len(flip_history') = kevents + 1
        /\ flip_history'[kevents + 1] = b
        /\ \A i \in 1..kevents : flip_history'[i] = flip_history[i]
    BY <2>1, <2>2, <2>3
  <2>5. kflip' = b /\ UNCHANGED <<kevents, unhandled, handler, on_screen, kscan>>
    BY <1>10 DEF PresentFlip, SubmitFlip
  <2>6. KernelView'
    BY <2>1, <2>2, <2>4, <2>5
  <2>7. FlipRoom'
    BY <1>10 DEF PresentFlip, Leave
  <2> QED
    BY <2>6, <2>7
<1>11. CASE PresentBusy
  BY <1>11 DEF PresentBusy, scanoutVars, PresentTypeOK
<1>12. CASE PresentGiveUp
  BY <1>12 DEF PresentGiveUp, Leave, scanoutVars, PresentTypeOK
<1>13. CASE PresentReport
  BY <1>13 DEF PresentReport, ClearCompleted, scanoutVars, PresentTypeOK
<1>14. CASE VblankTick
  <2>1. /\ kflip # NoBuf /\ kscan' = kflip /\ kflip' = NoBuf /\ kevents' = kevents + 1
        /\ UNCHANGED <<flip_history, handler, on_screen, unhandled, pw>>
    BY <1>14 DEF VblankTick, Vblank, pipeVars
  <2> HIDE DEF Typed, TypeOK, Control, ScanoutTypeOK
  <2>2. KernelView'
    BY <1>0, <2>1
  <2>3. FlipRoom'
    BY <2>1
  <2> QED
    BY <2>2, <2>3
<1>15. CASE WakePresent
  BY <1>15 DEF WakePresent, WakePresenter, scanoutVars, PresentTypeOK
<1> QED
  BY <1>1, <1>2, <1>3, <1>4, <1>5, <1>6, <1>7, <1>8, <1>9, <1>10, <1>11, <1>12, <1>13, <1>14, <1>15, BufferSteps

\* The driver's books agree with the kernel in every reachable state.
THEOREM BooksMatchKernel == Spec => []KernelView
<1>1. Spec => []Flips
  BY AlwaysTyped, FlipsInit, FlipsNext, PTL DEF Spec
<1>2. Flips => KernelView
  BY DEF Flips
<1> QED
  BY <1>1, <1>2, PTL

-----------------------------------------------------------------------------
(* Who may touch a scanout buffer.                                         *)

\* All that the claims on buffers depend on.
claimVars == <<dw.buf, pend.ev, pend.buf, pq, pw.ent, flip_history, handler,
               on_screen, busy>>

LEMMA HandsInit == Init => Hands
<1> SUFFICES ASSUME Init PROVE Hands
  OBVIOUS
<1>1. /\ dw.buf = NoBuf /\ ~pend.ev /\ pw.ent.buf = NoBuf /\ handler.at = "idle"
      /\ pq = <<>> /\ flip_history = <<>> /\ NoBuf \notin Bufs
  BY DEF Init, vmc_drm_scanout_init, IdleDw, NoEntry, NoHandler, NoBuf, Bufs
<1>2. \A b \in Bufs : /\ ~HeldByDecode(b) /\ ~Pending(b) /\ ~HeldByPresent(b)
                       /\ ~Completing(b)
  BY <1>1 DEF HeldByDecode, Pending, HeldByPresent, Completing
<1>3. \A b \in Bufs : ~Queued(b) /\ ~Submitted(b)
  BY <1>1 DEF Queued, Submitted
<1>4. Len(pq) = 0 /\ Len(flip_history) = 0
  BY <1>1
<1> QED
  BY <1>2, <1>3, <1>4 DEF Hands, ClaimedBusy, OneOwner

\* The steps that move a buffer from one hand to another.
LEMMA ClaimSteps ==
  Typed /\ [Next]_vars =>
    \/ UNCHANGED claimVars
    \/ (\E b \in Bufs : Acquire(b)) \/ Convert \/ PushPending
    \/ PresentPop \/ PresentFlip \/ PresentGiveUp
    \/ (PresentHandle /\ HandlerStep)
<1> SUFFICES ASSUME Typed, [Next]_vars,
                    ~(\E b \in Bufs : Acquire(b)), ~Convert, ~PushPending,
                    ~PresentPop, ~PresentFlip, ~PresentGiveUp,
                    ~(PresentHandle /\ HandlerStep)
             PROVE  UNCHANGED claimVars
  OBVIOUS
<1>1. UNCHANGED <<flip_history, handler, on_screen, busy>>
  BY ScanoutSteps DEF scanoutVars, Vblank, ReadEvents, ClearCompleted
<1>2. UNCHANGED <<dw.buf, pend.ev, pend.buf>>
  BY DecodeSteps DEF decodeVars, ProducerTake, ProducerPublish, DecodeTop,
     DecodeStop, DecodeMark, Decode, DecodePick, AcquireBusy, CopyPending,
     FreeBeforePush, FbCheck, FbCopy, Release, JoinReader, CloseDisplay,
     dwRest, Typed, TypeOK, DecodeTypeOK
<1>3. UNCHANGED <<pq, pw.ent>>
  BY PresentSteps DEF presentVars, PresentTop, PresentPopEmpty, PresentDrain,
     PresentHandle, PresentBusy, PresentReport, WakePresent, WakePresenter,
     Typed, TypeOK, PresentTypeOK
<1> QED
  BY <1>1, <1>2, <1>3 DEF claimVars

\* A flip goes on the end of the history, which is never full.
LEMMA FlipAppends ==
  Typed /\ Flips /\ PresentFlip => flip_history' = Append(flip_history, pw.ent.buf)
<1> SUFFICES ASSUME Typed, Flips, PresentFlip
             PROVE  flip_history' = Append(flip_history, pw.ent.buf)
  OBVIOUS
<1>1. Len(flip_history) <= 1 /\ Len(flip_history) \in Nat
  BY DEF PresentFlip, Flips, FlipRoom, Typed, TypeOK, ScanoutTypeOK
<1> QED
  BY <1>1, ScanoutAssumption DEF PresentFlip, SubmitFlip, PushHistory

\* The handler takes the head of the history.
LEMMA HandlerTakes ==
  Typed /\ Flips /\ flip_handler =>
    /\ Len(flip_history) \in Nat /\ Len(flip_history) > 0
    /\ flip_history' = Tail(flip_history)
    /\ handler' = [at |-> "busy", rec |-> flip_history[1]]
<1> SUFFICES ASSUME Typed, Flips, flip_handler
             PROVE  /\ Len(flip_history) \in Nat /\ Len(flip_history) > 0
                    /\ flip_history' = Tail(flip_history)
                    /\ handler' = [at |-> "busy", rec |-> flip_history[1]]
  OBVIOUS
<1>1. Len(flip_history) \in Nat /\ Len(flip_history) > 0
  BY DEF flip_handler, Flips, KernelView, Unseen, Typed, TypeOK, ScanoutTypeOK
<1>2. /\ flip_history # <<>> /\ Head(flip_history) = flip_history[1]
      /\ flip_history[1] \in Bufs
  BY <1>1 DEF Typed, TypeOK, ScanoutTypeOK
<1> QED
  BY <1>1, <1>2 DEF flip_handler, Bufs, NoBuf

LEMMA HandsNext == Typed /\ Flips /\ Hands /\ [Next]_vars => Hands'
<1> SUFFICES ASSUME Typed, Flips, Hands, [Next]_vars PROVE Hands'
  OBVIOUS
<1>0. /\ busy \in [Bufs -> BOOLEAN] /\ on_screen \in Bufs
      /\ flip_history \in Seq(Bufs) /\ pq \in Seq(Entries)
      /\ NoBuf \notin Bufs
  BY DEF Typed, TypeOK, ScanoutTypeOK, PresentTypeOK, Bufs, NoBuf
<1>1. CASE UNCHANGED claimVars
  BY <1>1 DEF claimVars, Hands, ClaimedBusy, OneOwner, HeldByDecode, Pending,
     Queued, HeldByPresent, Submitted, Completing, OnScreen
<1>2. ASSUME NEW c \in Bufs, Acquire(c) PROVE Hands'
  <2>1. ~busy[c] /\ c # on_screen /\ busy' = [busy EXCEPT ![c] = TRUE]
    BY <1>2 DEF Acquire, next_idx, Takeable
  <2>2. dw'.buf = c /\ UNCHANGED <<pend, pq, pw, flip_history, handler, on_screen>>
    BY <1>2 DEF Acquire, next_idx, dwRest, Typed, TypeOK, DecodeTypeOK
  <2> QED
    BY <1>0, <2>1, <2>2 DEF Hands, ClaimedBusy, OneOwner, HeldByDecode, Pending,
       Queued, HeldByPresent, Submitted, Completing, OnScreen
<1>3. CASE Convert
  <2>1. UNCHANGED <<pq, pw, flip_history, handler, on_screen, busy>>
    BY <1>3 DEF Convert, scanoutVars
  <2>2. CASE pend.ev
    <3>1. UNCHANGED <<dw.buf, pend>>
      BY <1>3, <2>2 DEF Convert, Typed, TypeOK, DecodeTypeOK
    <3> QED
      BY <2>1, <3>1 DEF Hands, ClaimedBusy, OneOwner, HeldByDecode, Pending,
         Queued, HeldByPresent, Submitted, Completing, OnScreen
  <2>3. CASE ~pend.ev
    <3>1. dw'.buf = NoBuf /\ pend'.buf = dw.buf
      BY <1>3, <2>3 DEF Convert, Typed, TypeOK, DecodeTypeOK
    <3> QED
      BY <1>0, <2>1, <2>3, <3>1 DEF Hands, ClaimedBusy, OneOwner, HeldByDecode,
         Pending, Queued, HeldByPresent, Submitted, Completing, OnScreen
  <2> QED
    BY <2>2, <2>3
<1>4. CASE PushPending
  <2>1. UNCHANGED <<pw.ent, flip_history, handler, on_screen, busy>>
    BY <1>4 DEF PushPending, scanoutVars, WakePresenter, Typed, TypeOK, PresentTypeOK
  <2>2. pend.ev /\ dw'.buf = NoBuf /\ pend'.buf = dw.buf
    BY <1>4 DEF PushPending, Typed, TypeOK, DecodeTypeOK, Control
  <2>3. /\ [buf |-> pend.buf, pts |-> pend.fidx] \in Entries
        /\ pend.buf \in Bufs
    BY <1>4 DEF PushPending, Entries, Typed, TypeOK, Control, DecodeTypeOK
  <2>4. pq' = Append(pq, [buf |-> pend.buf, pts |-> pend.fidx])
    BY <1>4 DEF PushPending
  <2>5. /\ Len(pq') = Len(pq) + 1 /\ Len(pq) \in Nat
        /\ pq'[Len(pq) + 1].buf = pend.buf
        /\ \A i \in 1..Len(pq) : pq'[i] = pq[i]
    BY <1>0, <2>3, <2>4
  <2>6. \A c \in Bufs : Queued(c)' <=> Queued(c) \/ c = pend.buf
    BY <2>5 DEF Queued
  <2>7. \A i, j \in 1..Len(pq') : pq'[i].buf = pq'[j].buf => i = j
    <3>1. \A i \in 1..Len(pq) : pq[i].buf # pend.buf
      BY <2>2, <2>3 DEF Hands, OneOwner, Pending, Queued
    <3>2. \A i, j \in 1..Len(pq) : pq[i].buf = pq[j].buf => i = j
      BY DEF Hands, OneOwner
    <3> QED
      BY <2>5, <3>1, <3>2
  <2> QED
    BY <1>0, <2>1, <2>2, <2>6, <2>7 DEF Hands, ClaimedBusy, OneOwner,
       HeldByDecode, Pending, HeldByPresent, Submitted, Completing, OnScreen
<1>5. CASE PresentPop
  <2>1. UNCHANGED <<dw, pend, flip_history, handler, on_screen, busy>>
    BY <1>5 DEF PresentPop, scanoutVars, pwRest
  <2>2. pq # <<>> /\ pq' = Tail(pq) /\ pw'.ent = Head(pq)
    BY <1>5 DEF PresentPop, Typed, TypeOK, PresentTypeOK
  <2>3. /\ Len(pq) \in Nat /\ Len(pq) > 0 /\ pw'.ent = pq[1]
        /\ Len(pq') = Len(pq) - 1
        /\ \A i \in 1..Len(pq') : pq'[i] = pq[i + 1]
    BY <1>0, <2>2
  <2>4. \A b \in Bufs : Queued(b)' \/ HeldByPresent(b)' => Queued(b)
    BY <2>3 DEF Queued, HeldByPresent
  <2>5. \A i, j \in 1..Len(pq) : pq[i].buf = pq[j].buf => i = j
    BY DEF Hands, OneOwner
  <2>6. /\ \A b \in Bufs : Queued(b)' => ~HeldByPresent(b)'
        /\ \A i, j \in 1..Len(pq') : pq'[i].buf = pq'[j].buf => i = j
    <3>1. \A i \in 1..Len(pq') : i + 1 \in 1..Len(pq) /\ i + 1 # 1 /\ 1 \in 1..Len(pq)
      BY <2>3
    <3>2. \A i \in 1..Len(pq') : pq'[i].buf # pq[1].buf
      BY <2>3, <2>5, <3>1
    <3>3. \A i, j \in 1..Len(pq') : pq'[i].buf = pq'[j].buf => i = j
      BY <2>3, <2>5, <3>1
    <3> QED
      BY <2>3, <3>2, <3>3 DEF Queued, HeldByPresent
  <2> QED
    BY <1>0, <2>1, <2>4, <2>6 DEF Hands, ClaimedBusy, OneOwner,
       HeldByDecode, Pending, Submitted, Completing, OnScreen
<1>6. CASE PresentFlip
  <2> DEFINE c == pw.ent.buf
  <2>1. UNCHANGED <<dw, pend, pq, handler, on_screen>>
    BY <1>6 DEF PresentFlip, SubmitFlip, pwRest
  <2>2. c \in Bufs /\ pw'.ent.buf = NoBuf /\ busy' = [busy EXCEPT ![c] = TRUE]
    BY <1>6 DEF PresentFlip, SubmitFlip, Leave, NoEntry, Typed, Control
  <2>3. flip_history' = Append(flip_history, c)
    BY <1>6, FlipAppends
  <2>4. /\ Len(flip_history') = Len(flip_history) + 1
        /\ Len(flip_history) \in Nat
        /\ flip_history'[Len(flip_history) + 1] = c
        /\ \A i \in 1..Len(flip_history) : flip_history'[i] = flip_history[i]
    BY <1>0, <2>2, <2>3
  <2>5. \A d \in Bufs : Submitted(d)' <=> Submitted(d) \/ d = c
    BY <2>4 DEF Submitted
  <2>6. \A i, j \in 1..Len(flip_history') :
          flip_history'[i] = flip_history'[j] => i = j
    <3>1. \A i \in 1..Len(flip_history) : flip_history[i] # c
      BY <2>2 DEF Hands, OneOwner, HeldByPresent, Submitted
    <3>2. \A i, j \in 1..Len(flip_history) :
            flip_history[i] = flip_history[j] => i = j
      BY DEF Hands, OneOwner
    <3> QED
      BY <2>4, <3>1, <3>2
  <2>7. HeldByPresent(c) /\ \A d \in Bufs : ~HeldByPresent(d)'
    BY <1>0, <2>2 DEF HeldByPresent
  <2> HIDE DEF c
  <2> QED
    BY <1>0, <2>1, <2>2, <2>5, <2>6, <2>7 DEF Hands, ClaimedBusy, OneOwner,
       HeldByDecode, Pending, Queued, Completing, OnScreen
<1>7. CASE PresentGiveUp
  <2>1. UNCHANGED <<dw, pend, pq, flip_history, handler, on_screen, busy>>
    BY <1>7 DEF PresentGiveUp, scanoutVars
  <2>2. pw'.ent.buf = NoBuf
    BY <1>7 DEF PresentGiveUp, Leave, NoEntry
  <2> QED
    BY <1>0, <2>1, <2>2 DEF Hands, ClaimedBusy, OneOwner, HeldByDecode, Pending,
       Queued, HeldByPresent, Submitted, Completing, OnScreen
<1>8. CASE PresentHandle /\ HandlerStep
  <2>0. UNCHANGED <<dw, pend, pq, pw.ent>>
    BY <1>8 DEF PresentHandle, pwRest, Typed, TypeOK, PresentTypeOK
  <2>1. CASE flip_handler
    <3>1. handler.at = "idle" /\ UNCHANGED <<on_screen, busy>>
      BY <2>1 DEF flip_handler, HandlerIdle
    <3>2. /\ Len(flip_history) \in Nat /\ Len(flip_history) > 0
          /\ flip_history' = Tail(flip_history)
          /\ handler' = [at |-> "busy", rec |-> flip_history[1]]
      BY <2>1, HandlerTakes
    <3>3. /\ Len(flip_history') = Len(flip_history) - 1
          /\ \A i \in 1..Len(flip_history') : flip_history'[i] = flip_history[i + 1]
      BY <1>0, <3>2
    <3>4. \A b \in Bufs : Submitted(b)' \/ Completing(b)' => Submitted(b)
      BY <3>2, <3>3 DEF Submitted, Completing
    <3>5. \A i, j \in 1..Len(flip_history) :
            flip_history[i] = flip_history[j] => i = j
      BY DEF Hands, OneOwner
    <3>6. /\ \A b \in Bufs : Submitted(b)' => ~Completing(b)'
          /\ \A i, j \in 1..Len(flip_history') :
               flip_history'[i] = flip_history'[j] => i = j
      BY <3>2, <3>3, <3>5 DEF Submitted, Completing
    <3> QED
      BY <1>0, <2>0, <3>1, <3>4, <3>6 DEF Hands, ClaimedBusy, OneOwner,
         HeldByDecode, Pending, Queued, HeldByPresent, OnScreen
  <2>2. CASE StoreBusy
    BY <1>0, <2>0, <2>2 DEF StoreBusy, Typed, TypeOK, ScanoutTypeOK, Hands,
       ClaimedBusy, OneOwner, HeldByDecode, Pending, Queued, HeldByPresent,
       Submitted, Completing, OnScreen
  <2>3. CASE StoreOnScreen
    BY <1>0, <2>0, <2>3 DEF StoreOnScreen, Typed, TypeOK, ScanoutTypeOK, Hands,
       ClaimedBusy, OneOwner, HeldByDecode, Pending, Queued, HeldByPresent,
       Submitted, Completing, OnScreen
  <2>4. CASE StoreFlipPending
    BY <1>0, <2>0, <2>4 DEF StoreFlipPending, NoHandler, Hands, ClaimedBusy,
       OneOwner, HeldByDecode, Pending, Queued, HeldByPresent, Submitted,
       Completing, OnScreen
  <2> QED
    BY <1>8, <2>1, <2>2, <2>3, <2>4 DEF HandlerStep
<1> QED
  BY <1>1, <1>2, <1>3, <1>4, <1>5, <1>6, <1>7, <1>8, ClaimSteps

\* No buffer is ever in two hands: neither two threads, nor a thread and the
\* display, nor two places of a queue, although next_idx, present_push and
\* present_pop, PageFlip and flip_handler share no lock.
THEOREM BuffersHaveOneOwner == Spec => []OneOwner
<1>1. Spec => []Flips
  BY AlwaysTyped, FlipsInit, FlipsNext, PTL DEF Spec
<1>2. Spec => []Hands
  BY <1>1, AlwaysTyped, HandsInit, HandsNext, PTL DEF Spec
<1>3. Hands => OneOwner
  BY DEF Hands
<1> QED
  BY <1>2, <1>3, PTL

\* The buffer on the display and the one about to be are among the claimed
\* ones, so the decode worker's pending buffer is neither.
LEMMA OwnersDoNotTear == Typed /\ KernelView /\ OneOwner => NoTear
<1> SUFFICES ASSUME Typed, KernelView, OneOwner, dw.pc = "copy"
             PROVE  pend.buf # kscan /\ pend.buf # kflip
  BY DEF NoTear
<1>1. pend.buf \in Bufs /\ Pending(pend.buf) /\ pend.buf # NoBuf
  BY DEF Typed, Control, Pending, Bufs, NoBuf
<1>2. /\ ~Submitted(pend.buf) /\ ~Completing(pend.buf)
      /\ ~OnScreen(pend.buf)
  BY <1>1 DEF OneOwner
<1>3. /\ flip_history \in Seq(Bufs) /\ Unseen \in Nat
      /\ Len(flip_history) \in Nat
  BY DEF Typed, TypeOK, ScanoutTypeOK, Unseen
<1>4. pend.buf # kflip
  BY <1>1, <1>2, <1>3 DEF KernelView, Submitted
<1>5. pend.buf # kscan
  BY <1>2, <1>3 DEF KernelView, Submitted, Completing, OnScreen
<1> QED
  BY <1>4, <1>5

\* The copy of decode_worker into a scanout buffer never touches the picture
\* the display shows or is about to show.
THEOREM NoTearing == Spec => []NoTear
  BY AlwaysTyped, BooksMatchKernel, BuffersHaveOneOwner, OwnersDoNotTear, PTL

-----------------------------------------------------------------------------
(* The framebuffer mapping.                                                *)

\* Once the DASH shutdown has joined the workers, the decode worker is gone.
JoinedFirst ==
  ~Udp => /\ NoWriteAfterUnmap
          /\ mw.pc \in {"closefb", "done"} => dw.pc = "exit"

LEMMA JoinedInit == Init => JoinedFirst
<1>1. IdleDw.pc = "top"
  BY DEF IdleDw
<1>2. Init => mw.pc = "loop"
  BY InitFacts
<1> QED
  BY <1>1, <1>2, InitFacts DEF JoinedFirst, NoWriteAfterUnmap

LEMMA JoinedNext == Typed /\ JoinedFirst /\ [Next]_vars => JoinedFirst'
<1> SUFFICES ASSUME Typed, JoinedFirst, [Next]_vars, ~Udp
             PROVE  /\ NoWriteAfterUnmap'
                    /\ mw'.pc \in {"closefb", "done"} => dw'.pc = "exit"
  BY DEF JoinedFirst
<1>1. dw.pc = "exit" => dw'.pc = "exit"
  BY DecodeSteps DEF decodeVars, ProducerTake, ProducerPublish, DecodeTop,
     DecodeStop, DecodeMark, Decode, DecodePick, Acquire, AcquireBusy, Convert,
     CopyPending, FreeBeforePush, PushPending, FbCheck, FbCopy, Release,
     JoinReader, CloseDisplay, dwRest
<1>2. mw'.pc \in {"closefb", "done"} => dw'.pc = "exit"
  <2>1. CASE UNCHANGED mw
    BY <1>1, <2>1 DEF JoinedFirst
  <2>2. CASE Main
    BY <1>1, <2>2 DEF JoinedFirst, Main, LeaveLoop, JoinReader, CloseDisplay,
       StopDecode, WakeDecode, WakePresent, JoinWorkers, Goto, mwRest, Typed,
       TypeOK, MainTypeOK
  <2>3. CASE RestartReader
    BY <1>1, <2>3 DEF JoinedFirst, RestartReader, Typed, TypeOK, MainTypeOK
  <2> QED
    BY <2>1, <2>2, <2>3, MainSteps DEF mainVars, FbCopy, Stop
<1>3. dw'.pc = "fbcopy" => dw.pc = "fbcopy" \/ fbmap
  BY DecodeSteps DEF decodeVars, ProducerTake, ProducerPublish, DecodeTop,
     DecodeStop, DecodeMark, Decode, DecodePick, Acquire, AcquireBusy, Convert,
     CopyPending, FreeBeforePush, PushPending, FbCheck, FbCopy, Release,
     JoinReader, CloseDisplay, dwRest, Typed, TypeOK, DecodeTypeOK
<1>4. UNCHANGED fbmap \/ dw'.pc = "exit"
  <2>1. CASE CloseDisplay
    BY <1>1, <2>1 DEF JoinedFirst, CloseDisplay
  <2>2. CASE UNCHANGED mainVars
    BY <2>2 DEF mainVars
  <2>3. CASE FbCopy \/ Stop \/ RestartReader \/ (Main /\ ~CloseDisplay)
    BY <2>3 DEF FbCopy, Stop, RestartReader, Main, LeaveLoop, JoinReader,
       StopDecode, WakeDecode, WakePresent, JoinWorkers
  <2> QED
    BY <2>1, <2>2, <2>3, MainSteps
<1>5. NoWriteAfterUnmap'
  BY <1>3, <1>4 DEF JoinedFirst, NoWriteAfterUnmap
<1> QED
  BY <1>2, <1>5

\* run_dash closes the display only after it has joined the decode worker:
\* in DASH mode no picture is copied into an unmapped framebuffer.  (The UDP
\* shutdown closes it first; run UdpFbUnmap shows the consequence.)
THEOREM MappedWhileCopying == Spec => [](~Udp => NoWriteAfterUnmap)
<1>1. Spec => []JoinedFirst
  BY AlwaysTyped, JoinedInit, JoinedNext, PTL DEF Spec
<1>2. JoinedFirst => (~Udp => NoWriteAfterUnmap)
  BY DEF JoinedFirst
<1> QED
  BY <1>1, <1>2, PTL

-----------------------------------------------------------------------------
(* Slots that nobody works on.                                             *)

Leaked == InState("DECODING") \ WorkerHolds

\* The first conversion, and the first one after a failed conversion, leaves
\* its slot behind: as long as an event is pending there is no further one.
LeakBound ==
  /\ IsFiniteSet(Leaked)
  /\ Cardinality(Leaked) <= drops + (IF pend.ev THEN 1 ELSE 0)

LEMMA LeakInit == Init => LeakBound
<1> SUFFICES ASSUME Init PROVE LeakBound
  OBVIOUS
<1>1. Leaked = {}
  BY DEF Leaked, InState, Init, SlotsInit
<1>2. drops = 0 /\ pend = [ev |-> FALSE, buf |-> NoBuf, stage |-> 0, fidx |-> 0]
  BY InitFacts
<1>3. drops = 0 /\ ~pend.ev
  BY <1>2
<1>4. IsFiniteSet(Leaked) /\ Cardinality(Leaked) = 0
  BY <1>1, FS_EmptySet, Zenon
<1> QED
  BY <1>3, <1>4 DEF LeakBound

\* Who changes the slots, and how.
LEMMA SlotMoves ==
  [Next]_vars =>
    \/ UNCHANGED slots
    \/ (\E i \in Slots : ProducerTake(i)) \/ ProducerPublish
    \/ DecodeMark \/ FreeBeforePush \/ Release
  BY DEF Next, vars, pipeVars, slotVars, Producer, DecodeWorker, PresentWorker, Main,
         ProducerWait, DecodeTop, DecodePick,
         DecodeStop, DecodeSleep, Decode, Acquire, AcquireBusy,
         Convert, CopyPending, PushPending, FbCheck, FbCopy,
         PresentTop, PresentPop, PresentPopEmpty, PresentDrain,
         PresentHandle, PresentFlip, PresentBusy, PresentGiveUp,
         PresentReport, VblankTick, Stop, RestartReader, LeaveLoop,
         JoinReader, CloseDisplay, StopDecode, WakeDecode, WakePresent,
         JoinWorkers, CancelReader, TakeWait, PickWait, BroadcastReady,
         CancelWaitingTaker

\* Only a conversion that finds no event pending adds to the leaked slots.
LEMMA LeakSteps ==
  Typed /\ [Next]_vars =>
    Leaked' \subseteq Leaked \/ (Convert /\ ~pend.ev /\ Leaked' \subseteq Leaked \cup {dw.slot})
<1> SUFFICES ASSUME Typed, [Next]_vars
             PROVE  \/ Leaked' \subseteq Leaked
                    \/ Convert /\ ~pend.ev /\ Leaked' \subseteq Leaked \cup {dw.slot}
  OBVIOUS
<1>1. CASE Convert
  <2>1. InState("DECODING")' = InState("DECODING") /\ dw.pc = "conv"
    BY <1>1 DEF Convert, InState, slotVars
  <2>2. CASE pend.ev
    <3>1. dw'.slot = dw.slot /\ dw'.pc = "copy"
      BY <1>1, <2>2 DEF Convert, Typed, TypeOK, DecodeTypeOK
    <3> QED
      BY <2>1, <3>1 DEF Leaked, WorkerHolds
  <2>3. CASE ~pend.ev
    BY <1>1, <2>1, <2>3 DEF Leaked, WorkerHolds
  <2> QED
    BY <2>2, <2>3
<1>2. CASE MarkDecoding(dw.slot) /\ DecodeMark
  BY <1>2 DEF DecodeMark, MarkDecoding, SetState, Leaked, WorkerHolds, InState,
     Typed, TypeOK, DecodeTypeOK, SlotsTypeOK
<1>3. CASE slot_release(dw.slot) /\ (FreeBeforePush \/ Release)
  BY <1>3 DEF slot_release, FreeBeforePush, Release, SetState, Leaked, WorkerHolds,
     InState, Typed, TypeOK, DecodeTypeOK, SlotsTypeOK
<1>4. ASSUME InState("DECODING")' \subseteq InState("DECODING"),
             ~Convert, ~DecodeMark, ~FreeBeforePush, ~Release
      PROVE  Leaked' \subseteq Leaked
  <2>1. WorkerHolds \subseteq WorkerHolds'
    BY ZenonT(60), <1>4, DecodeSteps DEF WorkerHolds, decodeVars, ProducerTake,
       ProducerPublish, DecodeTop, DecodeStop, Decode, DecodePick, Acquire,
       AcquireBusy, CopyPending, PushPending, FbCheck, FbCopy, JoinReader,
       CloseDisplay, dwRest, Typed, TypeOK, DecodeTypeOK
  <2> QED
    BY <1>4, <2>1 DEF Leaked
<1>5. ASSUME ~DecodeMark, ~FreeBeforePush, ~Release
      PROVE  InState("DECODING")' \subseteq InState("DECODING")
  <2>1. CASE UNCHANGED slots
    BY <2>1 DEF InState
  <2>2. CASE \E i \in Slots : ProducerTake(i)
    BY <2>2 DEF ProducerTake, TakeWrite, SetState, InState, Typed, TypeOK, SlotsTypeOK
  <2>3. CASE ProducerPublish
    BY <2>3 DEF ProducerPublish, slot_publish, slot_release, SetState, InState,
       Typed, TypeOK, SlotsTypeOK
  <2> QED
    BY <1>5, <2>1, <2>2, <2>3, SlotMoves
<1> QED
  BY <1>1, <1>2, <1>3, <1>4, <1>5 DEF DecodeMark, FreeBeforePush, Release

\* Monotonicity of addition, for the solver.
LEMMA AddSame ==
  \A a, b, c \in Nat : a >= b => a + c >= b + c
  OBVIOUS

\* drops never shrinks, and a conversion or a push that leaves no event
\* pending has counted it.
LEMMA DropSteps ==
  Typed /\ [Next]_vars =>
    /\ drops' + (IF pend'.ev THEN 1 ELSE 0) >= drops + (IF pend.ev THEN 1 ELSE 0)
    /\ Convert /\ ~pend.ev =>
         drops' + (IF pend'.ev THEN 1 ELSE 0) = drops + 1
<1> SUFFICES ASSUME Typed, [Next]_vars
             PROVE  /\ drops' + (IF pend'.ev THEN 1 ELSE 0) >= drops + (IF pend.ev THEN 1 ELSE 0)
                    /\ Convert /\ ~pend.ev =>
                         drops' + (IF pend'.ev THEN 1 ELSE 0) = drops + 1
  OBVIOUS
<1>0. drops \in Nat /\ pend.ev \in BOOLEAN /\ dw.ev \in BOOLEAN
  BY DEF Typed, TypeOK, PresentTypeOK, DecodeTypeOK
<1>1. CASE Convert
  <2>1. CASE pend.ev
    BY <1>0, <1>1, <2>1 DEF Convert
  <2>2. CASE ~pend.ev
    <3>1. PICK ev \in BOOLEAN : /\ pend'.ev = ev
                                /\ drops' = IF ev THEN drops ELSE drops + 1
      BY <1>1, <2>2 DEF Convert, Typed, TypeOK, DecodeTypeOK
    <3> QED
      BY <1>0, <2>2, <3>1
  <2> QED
    BY <2>1, <2>2
<1>2. CASE PushPending
  <2>1. pend'.ev = dw.ev /\ drops' = IF dw.ev THEN drops ELSE drops + 1
    BY <1>2 DEF PushPending, Typed, TypeOK, DecodeTypeOK
  <2>2. ~Convert
    BY <1>2 DEF PushPending, Convert
  <2> QED
    BY <1>0, <2>1, <2>2
<1>3. CASE ~Convert /\ ~PushPending
  <2>1. pend'.ev = pend.ev
    BY <1>3, DecodeSteps DEF decodeVars, ProducerTake, ProducerPublish,
       DecodeTop, DecodeStop, DecodeMark, Decode, DecodePick, Acquire,
       AcquireBusy, CopyPending, FreeBeforePush, FbCheck, FbCopy, Release,
       JoinReader, CloseDisplay, dwRest, Typed, TypeOK, DecodeTypeOK
  <2>2. drops' \in {drops, drops + 1}
    BY <1>3, PresentSteps DEF presentVars, PresentTop, PresentPop,
       PresentPopEmpty, PresentDrain, PresentHandle, PresentFlip, PresentBusy,
       PresentGiveUp, PresentReport, WakePresent, pwRest
  <2>3. drops' >= drops /\ drops' \in Nat
    BY <1>0, <2>2
  <2>4. (IF pend'.ev THEN 1 ELSE 0) = (IF pend.ev THEN 1 ELSE 0)
    BY <2>1, Zenon
  <2> DEFINE k == IF pend.ev THEN 1 ELSE 0
  <2>5. k \in Nat
    OBVIOUS
  <2> HIDE DEF k
  <2>6. drops' + k >= drops + k
    BY <1>0, <2>3, <2>5, AddSame
  <2> QED
    BY <1>3, <2>4, <2>6, Zenon DEF k
<1> QED
  BY <1>1, <1>2, <1>3

LEMMA LeakNext == Typed /\ LeakBound /\ [Next]_vars => LeakBound'
<1> SUFFICES ASSUME Typed, LeakBound, [Next]_vars PROVE LeakBound'
  OBVIOUS
<1> DEFINE bound == drops + (IF pend.ev THEN 1 ELSE 0)
           S == Leaked
           T == Leaked'
<1>1. bound \in Nat /\ bound' \in Nat /\ drops \in Nat
  BY TypedNext DEF Typed, TypeOK, PresentTypeOK
<1>2. IsFiniteSet(S) /\ Cardinality(S) <= bound /\ Cardinality(S) \in Nat
  BY FS_CardinalityType DEF LeakBound
<1>3. CASE T \subseteq S
  <2>1. bound' >= bound
    BY DropSteps
  <2> HIDE DEF S, T, bound
  <2>2. IsFiniteSet(T) /\ Cardinality(T) <= Cardinality(S) /\ Cardinality(T) \in Nat
    BY <1>2, <1>3, FS_Subset, FS_CardinalityType
  <2>3. IsFiniteSet(T) /\ Cardinality(T) <= bound'
    BY <1>1, <1>2, <2>1, <2>2
  <2> QED
    BY <2>3 DEF LeakBound, T, bound
<1>4. CASE Convert /\ ~pend.ev /\ T \subseteq S \cup {dw.slot}
  <2>1. bound = drops /\ bound' = drops + 1
    BY <1>1, <1>4, DropSteps
  <2> HIDE DEF S, T, bound
  <2>2. IsFiniteSet(S \cup {dw.slot}) /\ Cardinality(S \cup {dw.slot}) <= Cardinality(S) + 1
    BY <1>2, FS_AddElement
  <2>3. IsFiniteSet(T) /\ Cardinality(T) <= Cardinality(S \cup {dw.slot})
    BY <1>4, <2>2, FS_Subset
  <2>4. Cardinality(T) \in Nat /\ Cardinality(S \cup {dw.slot}) \in Nat
    BY <2>2, <2>3, FS_CardinalityType
  <2>5. IsFiniteSet(T) /\ Cardinality(T) <= bound'
    BY <1>1, <1>2, <2>1, <2>2, <2>3, <2>4
  <2> QED
    BY <2>5 DEF LeakBound, T, bound
<1> QED
  BY <1>3, <1>4, LeakSteps

\* However conversions and flips fail, at most one slot of the pool plus one
\* per failure is left in state DECODING with nobody working on it.
THEOREM SlotsAccounted == Spec => []SlotAccounting
<1>1. Spec => []LeakBound
  BY AlwaysTyped, LeakInit, LeakNext, PTL DEF Spec
<1>2. Typed /\ LeakBound => SlotAccounting
  <2> SUFFICES ASSUME Typed, LeakBound PROVE Cardinality(Leaked) <= drops + 1
    BY DEF SlotAccounting, Leaked
  <2>1. drops \in Nat /\ Cardinality(Leaked) \in Nat
    BY FS_CardinalityType DEF LeakBound, Typed, TypeOK, PresentTypeOK
  <2> QED
    BY <2>1 DEF LeakBound
<1> QED
  BY <1>1, <1>2, AlwaysTyped, PTL
-----------------------------------------------------------------------------
(* Buffers that nobody holds.                                              *)

\* Between its first two stores the flip handler has already given up the
\* buffer that on_screen still names.
OldFreed == handler.at = "on_screen" => ~busy[on_screen]

LEMMA OldFreedInit == Init => OldFreed
<1>1. vmc_drm_scanout_init => handler.at = "idle"
  BY DEF vmc_drm_scanout_init, NoHandler
<1> QED
  BY <1>1, InitFacts DEF OldFreed

LEMMA OldFreedNext == Typed /\ OldFreed /\ [Next]_vars => OldFreed'
<1> SUFFICES ASSUME Typed, OldFreed, [Next]_vars, handler'.at = "on_screen"
             PROVE  ~busy'[on_screen']
  BY DEF OldFreed
<1> USE DEF OldFreed
<1>0. busy \in [Bufs -> BOOLEAN] /\ on_screen \in Bufs
  BY DEF Typed, TypeOK, ScanoutTypeOK
<1>1. ASSUME NEW b \in Bufs, Acquire(b) PROVE ~busy'[on_screen']
  BY <1>0, <1>1 DEF Acquire, next_idx, Takeable
<1>2. CASE PresentFlip
  BY <1>2 DEF PresentFlip, SubmitFlip, Typed, Control, Drained, HandlerIdle
<1>3. CASE HandlerStep
  BY <1>0, <1>3 DEF HandlerStep, flip_handler, StoreBusy, StoreOnScreen,
     StoreFlipPending, NoHandler, Typed, TypeOK, ScanoutTypeOK
<1>4. CASE UNCHANGED scanoutVars \/ Vblank \/ ReadEvents \/ ClearCompleted
  BY <1>4 DEF scanoutVars, Vblank, ReadEvents, ClearCompleted
<1> QED
  BY <1>1, <1>2, <1>3, <1>4, ScanoutSteps

\* The present worker holds an entry only until its flip.
EntryUntilFlip ==
  pw.ent.buf \in Bufs =>
    pw.pc = "flip" \/ (pw.pc \in {"drain", "handle"} /\ pw.ret = "flip")

LEMMA EntryInit == Init => EntryUntilFlip
<1>1. Init => pw.ent = NoEntry
  BY InitFacts
<1>2. NoEntry.buf = NoBuf
  BY DEF NoEntry
<1> QED BY <1>1, <1>2, NoBufFact DEF EntryUntilFlip

LEMMA EntryNext == Typed /\ EntryUntilFlip /\ [Next]_vars => EntryUntilFlip'
<1> SUFFICES ASSUME Typed, EntryUntilFlip, [Next]_vars PROVE EntryUntilFlip'
  OBVIOUS
<1> USE DEF EntryUntilFlip
<1>0. pw = [pc |-> pw.pc, ent |-> pw.ent, tries |-> pw.tries, ret |-> pw.ret]
  <2>1. pw \in [pc : PwPcs, ent : Entries \cup {NoEntry}, tries : 0..FlipTries,
               ret : {"top", "flip", "report"}]
    BY DEF Typed, TypeOK, PresentTypeOK
  <2> QED BY <2>1
<1>1. CASE UNCHANGED presentVars \/ Convert
  BY <1>1 DEF presentVars, Convert
<1>2. CASE PushPending \/ WakePresent
  BY <1>0, <1>2 DEF PushPending, WakePresent, WakePresenter
<1>3. CASE PresentTop \/ PresentPopEmpty \/ PresentReport
  BY <1>0, <1>3 DEF PresentTop, PresentPopEmpty, PresentReport
<1>4. CASE PresentPop
  BY <1>4 DEF PresentPop
<1>5. CASE PresentDrain \/ PresentHandle \/ PresentBusy
  <2>1. /\ PresentDrain => /\ pw.pc = "drain"
                           /\ \/ pw' = [pw EXCEPT !.pc = pw.ret]
                              \/ pw' = [pw EXCEPT !.pc = "handle"]
        /\ PresentHandle => /\ pw.pc = "handle"
                            /\ pw' = pw \/ pw' = [pw EXCEPT !.pc = pw.ret]
    BY DEF PresentDrain, PresentHandle
  <2>2. PresentBusy => pw'.pc = "drain" /\ pw'.ret = "flip"
    BY <1>0 DEF PresentBusy
  <2>3. PresentDrain \/ PresentHandle =>
          /\ pw.pc \in {"drain", "handle"}
          /\ pw'.ent = pw.ent /\ pw'.ret = pw.ret
          /\ pw'.pc \in {"handle", pw.ret}
    BY <1>0, <2>1
  <2> QED
    BY <1>5, <2>2, <2>3
<1>6. CASE PresentFlip \/ PresentGiveUp
  <2>1. pw' = Leave(NoEntry)
    BY <1>6, Zenon DEF PresentFlip, PresentGiveUp
  <2>2. pw'.ent.buf = NoBuf
    BY <2>1 DEF Leave, NoEntry
  <2> QED
    BY <2>2, NoBufFact
<1> QED
  BY <1>1, <1>2, <1>3, <1>4, <1>5, <1>6, PresentSteps

\* The decode worker holds a buffer only from next_idx to present_push.
BufferUntilPush == dw.buf \in Bufs => dw.pc \in {"conv", "copy", "free", "push"}

LEMMA BufferInit == Init => BufferUntilPush
<1>1. IdleDw.buf = NoBuf
  BY DEF IdleDw
<1> QED BY <1>1, InitFacts, NoBufFact DEF BufferUntilPush

LEMMA BufferNext == Typed /\ BufferUntilPush /\ [Next]_vars => BufferUntilPush'
<1> SUFFICES ASSUME Typed, BufferUntilPush, [Next]_vars PROVE BufferUntilPush'
  OBVIOUS
<1> USE DEF BufferUntilPush
<1>0. /\ dw = [pc |-> dw.pc, slot |-> dw.slot, frame |-> dw.frame,
               buf |-> dw.buf, tries |-> dw.tries, ev |-> dw.ev]
      /\ NoBuf \notin Bufs
  BY DEF Typed, TypeOK, DecodeTypeOK, Bufs, NoBuf
<1>1. CASE \/ UNCHANGED decodeVars \/ (\E i \in Slots : ProducerTake(i))
           \/ ProducerPublish \/ JoinReader \/ CloseDisplay
  BY <1>1 DEF decodeVars, ProducerTake, ProducerPublish, JoinReader, CloseDisplay
<1>2. CASE \/ DecodeTop \/ DecodeStop \/ DecodeMark \/ Decode
           \/ (\E i \in Slots : DecodePick(i))
  BY <1>0, <1>2 DEF DecodeTop, DecodeStop, DecodeMark, Decode, DecodePick
<1>3. CASE (\E b \in Bufs : Acquire(b)) \/ AcquireBusy
  BY <1>0, <1>3 DEF Acquire, AcquireBusy
<1>4. CASE Convert
  <2>1. dw'.pc = "copy" \/ dw'.buf = NoBuf
    BY <1>0, <1>4 DEF Convert
  <2> QED
    BY <1>0, <2>1
<1>5. CASE CopyPending \/ FreeBeforePush \/ PushPending
  BY <1>0, <1>5 DEF CopyPending, FreeBeforePush, PushPending
<1>6. CASE FbCheck \/ FbCopy \/ Release
  BY <1>0, <1>6 DEF FbCheck, FbCopy, Release
<1> QED
  BY <1>1, <1>2, <1>3, <1>4, <1>5, <1>6, DecodeSteps

\* A pending buffer without an event is one of the lost ones, and before
\* anything is queued there is a pending buffer.
SpareKept ==
  /\ pend.buf \in Bufs /\ ~pend.ev => pend.buf \in Lost
  /\ pq # <<>> => pend.buf \in Bufs

Pool == OldFreed /\ EntryUntilFlip /\ BufferUntilPush /\ SpareKept /\ PoolAccounting

LEMMA BufsFinite == IsFiniteSet(Bufs) /\ Cardinality(Bufs) = NBufs
  BY FS_Interval, ScanoutAssumption DEF Bufs

LEMMA PoolInit == Init => Pool
<1> SUFFICES ASSUME Init PROVE Pool
  OBVIOUS
<1>1. Lost = {}
  BY DEF Lost, Init, vmc_drm_scanout_init
<1>2. PoolAccounting
  BY <1>1, FS_EmptySet, InitFacts DEF PoolAccounting
<1>3. SpareKept
  <2>1. /\ pend = [ev |-> FALSE, buf |-> NoBuf, stage |-> 0, fidx |-> 0]
        /\ pq = <<>>
    BY InitFacts, Zenon
  <2>2. pend.buf = NoBuf
    BY <2>1
  <2> QED BY <2>1, <2>2, NoBufFact, Zenon DEF SpareKept
<1> QED
  BY <1>2, <1>3, OldFreedInit, EntryInit, BufferInit DEF Pool

\* What a step does to the set of lost buffers: nothing, or it adds one and
\* counts it in drops.
LostSame == Lost' = Lost /\ drops' = drops
LostOne(b) == b \in Bufs \ Lost /\ Lost' = Lost \cup {b} /\ drops' = drops + 1

\* The ways a buffer is claimed, all but by the decode worker and the
\* conversion stage.
Elsewhere(b) ==
  Queued(b) \/ HeldByPresent(b) \/ Submitted(b) \/ Completing(b) \/ OnScreen(b)

LEMMA LostConvert ==
  Typed /\ Hands /\ Convert => (LostSame /\ (pend.ev \/ pend'.ev)) \/ (LostOne(dw.buf) /\ ~pend'.ev)
<1> SUFFICES ASSUME Typed, Hands, Convert
             PROVE  (LostSame /\ (pend.ev \/ pend'.ev)) \/ (LostOne(dw.buf) /\ ~pend'.ev)
  OBVIOUS
<1>0. dw.buf \in Bufs /\ NoBuf \notin Bufs
  BY DEF Convert, Typed, Control, Bufs, NoBuf
<1>1. UNCHANGED <<pq, pw, flip_history, handler, on_screen, busy>>
  BY DEF Convert, scanoutVars
<1>2. \A b \in Bufs : Elsewhere(b)' <=> Elsewhere(b)
  BY <1>1 DEF Elsewhere, Queued, HeldByPresent, Submitted, Completing, OnScreen
<1>3. busy[dw.buf] /\ ~Elsewhere(dw.buf) /\ HeldByDecode(dw.buf)
  BY <1>0 DEF Hands, ClaimedBusy, OneOwner, HeldByDecode, Elsewhere
<1>4. CASE pend.ev
  <2>1. dw'.buf = dw.buf /\ UNCHANGED <<pend, drops>>
    BY <1>4 DEF Convert, Typed, TypeOK, DecodeTypeOK
  <2>2. \A b \in Bufs : (HeldByDecode(b)' <=> HeldByDecode(b)) /\ (Pending(b)' <=> Pending(b))
    BY <2>1 DEF HeldByDecode, Pending
  <2>3. Lost' = Lost
    BY <1>1, <1>2, <2>2 DEF Lost, Owned, Elsewhere
  <2> QED
    BY <1>4, <2>1, <2>3 DEF LostSame
<1>5. CASE ~pend.ev
  <2>1. dw'.buf = NoBuf /\ pend'.buf = dw.buf
    BY <1>5 DEF Convert, Typed, TypeOK, DecodeTypeOK
  <2>2. \A b \in Bufs : ~HeldByDecode(b)' /\ ~Pending(b)
    BY <1>0, <1>5, <2>1 DEF HeldByDecode, Pending
  <2>3. CASE pend'.ev
    <3>1. drops' = drops
      BY <1>5, <2>3 DEF Convert, Typed, TypeOK, DecodeTypeOK
    <3>2. \A b \in Bufs : Pending(b)' <=> HeldByDecode(b)
      BY <2>1, <2>3 DEF Pending, HeldByDecode
    <3>3. Lost' = Lost
      BY <1>1, <1>2, <2>2, <3>2 DEF Lost, Owned, Elsewhere
    <3> QED
      BY <2>3, <3>1, <3>3 DEF LostSame
  <2>4. CASE ~pend'.ev
    <3>1. drops' = drops + 1
      BY <1>5, <2>4 DEF Convert, Typed, TypeOK, DecodeTypeOK
    <3>2. \A b \in Bufs : ~Pending(b)' /\ (HeldByDecode(b) <=> b = dw.buf)
      BY <2>4 DEF Pending, HeldByDecode
    <3>3. Lost' = Lost \cup {dw.buf} /\ dw.buf \notin Lost
      BY <1>0, <1>1, <1>2, <1>3, <2>2, <3>2 DEF Lost, Owned, Elsewhere
    <3> QED
      BY <1>0, <2>4, <3>1, <3>3 DEF LostOne
  <2> QED
    BY <2>3, <2>4
<1> QED
  BY <1>4, <1>5

LEMMA LostPush ==
  Typed /\ Hands /\ PushPending => (LostSame /\ pend'.ev) \/ (LostOne(dw.buf) /\ ~pend'.ev)
<1> SUFFICES ASSUME Typed, Hands, PushPending
             PROVE  (LostSame /\ pend'.ev) \/ (LostOne(dw.buf) /\ ~pend'.ev)
  OBVIOUS
<1>0. /\ dw.buf \in Bufs /\ pend.buf \in Bufs /\ pend.ev /\ NoBuf \notin Bufs
      /\ pq \in Seq(Entries) /\ [buf |-> pend.buf, pts |-> pend.fidx] \in Entries
  BY DEF PushPending, Typed, Control, TypeOK, DecodeTypeOK, PresentTypeOK,
     Entries, Bufs, NoBuf
<1>1. UNCHANGED <<pw.ent, flip_history, handler, on_screen, busy>>
  BY DEF PushPending, scanoutVars, WakePresenter, Typed, TypeOK, PresentTypeOK
<1>2. /\ dw'.buf = NoBuf /\ pend'.buf = dw.buf /\ pend'.ev = dw.ev
      /\ pq' = Append(pq, [buf |-> pend.buf, pts |-> pend.fidx])
      /\ drops' = IF dw.ev THEN drops ELSE drops + 1
  BY DEF PushPending, Typed, TypeOK, DecodeTypeOK
<1>3. /\ Len(pq') = Len(pq) + 1 /\ Len(pq) \in Nat
      /\ pq'[Len(pq) + 1].buf = pend.buf
      /\ \A i \in 1..Len(pq) : pq'[i] = pq[i]
  BY <1>0, <1>2
<1>4. \A b \in Bufs : Queued(b)' <=> Queued(b) \/ Pending(b)
  <2> SUFFICES ASSUME NEW b \in Bufs
               PROVE  Queued(b)' <=> Queued(b) \/ Pending(b)
    OBVIOUS
  <2>1. Pending(b) <=> pend.buf = b
    BY <1>0 DEF Pending
  <2>2. 1..Len(pq') = 1..Len(pq) \cup {Len(pq) + 1}
    BY <1>3
  <2>3. Queued(b)' <=> (\E i \in 1..Len(pq) : pq[i].buf = b) \/ pend.buf = b
    BY <1>3, <2>2 DEF Queued
  <2> QED
    BY <2>1, <2>3 DEF Queued
<1>5. \A b \in Bufs : Elsewhere(b)' <=> Elsewhere(b) \/ Pending(b)
  BY <1>1, <1>4 DEF Elsewhere, HeldByPresent, Submitted, Completing, OnScreen
<1>6. \A b \in Bufs : ~HeldByDecode(b)' /\ (HeldByDecode(b) <=> b = dw.buf)
  BY <1>0, <1>2 DEF HeldByDecode
<1>7. busy[dw.buf] /\ ~Elsewhere(dw.buf) /\ ~Pending(dw.buf)
  BY <1>0, <1>6 DEF Hands, ClaimedBusy, OneOwner, Elsewhere
<1>8. CASE dw.ev
  <2>1. \A b \in Bufs : Pending(b)' <=> HeldByDecode(b)
    BY <1>2, <1>8 DEF Pending, HeldByDecode
  <2>2. Lost' = Lost
    BY <1>1, <1>5, <1>6, <2>1 DEF Lost, Owned, Elsewhere
  <2> QED
    BY <1>2, <1>8, <2>2 DEF LostSame
<1>9. CASE ~dw.ev
  <2>1. \A b \in Bufs : ~Pending(b)'
    BY <1>2, <1>9 DEF Pending
  <2>2. Lost' = Lost \cup {dw.buf} /\ dw.buf \notin Lost
    BY <1>0, <1>1, <1>5, <1>6, <1>7, <2>1 DEF Lost, Owned, Elsewhere
  <2> QED
    BY <1>0, <1>2, <1>9, <2>2 DEF LostOne
<1> QED
  BY <1>8, <1>9

\* The present worker passes a buffer on, or gives it up.
LEMMA LostPresent ==
  /\ Typed /\ EntryUntilFlip /\ PresentPop => LostSame
  /\ Typed /\ Flips /\ Hands /\ PresentFlip => LostSame
  /\ Typed /\ Hands /\ PresentGiveUp => LostOne(pw.ent.buf)
<1>0. ASSUME Typed
      PROVE  /\ busy \in [Bufs -> BOOLEAN] /\ NoBuf \notin Bufs
             /\ flip_history \in Seq(Bufs) /\ pq \in Seq(Entries)
  BY <1>0 DEF Typed, TypeOK, ScanoutTypeOK, PresentTypeOK, Bufs, NoBuf
<1>1. ASSUME Typed, EntryUntilFlip, PresentPop PROVE LostSame
  <2>1. UNCHANGED <<dw, pend, flip_history, handler, on_screen, busy, drops>>
    BY <1>1 DEF PresentPop, scanoutVars, pwRest
  <2>2. pq # <<>> /\ pq' = Tail(pq) /\ pw'.ent = Head(pq) /\ pw.pc = "pop"
    BY <1>1 DEF PresentPop, Typed, TypeOK, PresentTypeOK
  <2>3. /\ Len(pq) \in Nat /\ Len(pq) > 0 /\ pw'.ent = pq[1]
        /\ Len(pq') = Len(pq) - 1
        /\ \A i \in 1..Len(pq') : pq'[i] = pq[i + 1]
    BY <1>0, <1>1, <2>2
  <2>4. \A b \in Bufs : Queued(b) <=> Queued(b)' \/ HeldByPresent(b)'
    <3> SUFFICES ASSUME NEW b \in Bufs
                 PROVE  Queued(b) <=> Queued(b)' \/ pq[1].buf = b
      BY <2>3 DEF HeldByPresent
    <3>1. Queued(b) => Queued(b)' \/ pq[1].buf = b
      <4> SUFFICES ASSUME NEW i \in 1..Len(pq), pq[i].buf = b, i # 1
                   PROVE  \E j \in 1..Len(pq') : pq'[j].buf = b
        BY DEF Queued
      <4>1. i - 1 \in 1..Len(pq') /\ pq'[i - 1] = pq[i]
        BY <2>3
      <4> QED
        BY <4>1
    <3>2. Queued(b)' \/ pq[1].buf = b => Queued(b)
      BY <2>3 DEF Queued
    <3> QED
      BY <3>1, <3>2
  <2>5. \A b \in Bufs : ~HeldByPresent(b)
    BY <1>1, <2>2 DEF EntryUntilFlip, HeldByPresent
  <2>6. \A b \in Bufs : Owned(b)' <=> Owned(b)
    BY <2>1, <2>4, <2>5 DEF Owned, HeldByDecode, Pending, Submitted,
       Completing, OnScreen
  <2>7. Lost' = Lost
    BY <2>1, <2>6 DEF Lost
  <2> QED
    BY <2>1, <2>7 DEF LostSame
<1>2. ASSUME Typed, Flips, Hands, PresentFlip PROVE LostSame
  <2> DEFINE c == pw.ent.buf
  <2>1. UNCHANGED <<dw, pend, pq, handler, on_screen, drops>>
    BY <1>2 DEF PresentFlip, SubmitFlip, pwRest
  <2>2. c \in Bufs /\ pw'.ent.buf = NoBuf /\ busy' = [busy EXCEPT ![c] = TRUE]
    BY <1>2 DEF PresentFlip, SubmitFlip, Leave, NoEntry, Typed, Control
  <2>3. flip_history' = Append(flip_history, c)
    BY <1>2, FlipAppends
  <2>4. /\ Len(flip_history') = Len(flip_history) + 1
        /\ Len(flip_history) \in Nat
        /\ flip_history'[Len(flip_history) + 1] = c
        /\ \A i \in 1..Len(flip_history) : flip_history'[i] = flip_history[i]
    BY <1>0, <1>2, <2>2, <2>3
  <2>5. \A d \in Bufs : /\ Submitted(d)' <=> Submitted(d) \/ d = c
                        /\ ~HeldByPresent(d)' /\ (HeldByPresent(d) <=> d = c)
    <3>1. \A d \in Bufs : Submitted(d)' <=> Submitted(d) \/ d = c
      BY <2>4 DEF Submitted
    <3>2. NoBuf \notin Bufs
      BY DEF NoBuf, Bufs
    <3>3. \A d \in Bufs : ~HeldByPresent(d)' /\ (HeldByPresent(d) <=> d = c)
      BY <2>2, <3>2 DEF HeldByPresent
    <3> QED
      BY <3>1, <3>3
  <2>6. busy[c]
    BY <1>2, <2>2, <2>5 DEF Hands, ClaimedBusy
  <2> HIDE DEF c
  <2>7. busy' = busy
    BY <1>0, <1>2, <2>2, <2>6
  <2>8. \A d \in Bufs : Owned(d)' <=> Owned(d)
    BY <2>1, <2>5 DEF Owned, HeldByDecode, Pending, Queued, Completing, OnScreen
  <2>9. Lost' = Lost
    BY <2>7, <2>8 DEF Lost
  <2> QED
    BY <2>1, <2>9 DEF LostSame
<1>3. ASSUME Typed, Hands, PresentGiveUp PROVE LostOne(pw.ent.buf)
  <2> DEFINE c == pw.ent.buf
  <2>1. UNCHANGED <<dw, pend, pq, flip_history, handler, on_screen, busy>>
    BY <1>3 DEF PresentGiveUp, scanoutVars
  <2>2. c \in Bufs /\ pw'.ent.buf = NoBuf /\ drops' = drops + 1
    BY <1>3 DEF PresentGiveUp, Leave, NoEntry, Typed, Control
  <2>3. \A d \in Bufs : ~HeldByPresent(d)' /\ (HeldByPresent(d) <=> d = c)
    BY <1>0, <1>3, <2>2 DEF HeldByPresent
  <2> HIDE DEF c
  <2>4. /\ busy[c] /\ ~HeldByDecode(c) /\ ~Pending(c) /\ ~Queued(c)
        /\ ~Submitted(c) /\ ~Completing(c) /\ ~OnScreen(c)
    BY <1>3, <2>2, <2>3 DEF Hands, ClaimedBusy, OneOwner
  <2>5. \A d \in Bufs : Owned(d) <=> Owned(d)' \/ d = c
    BY <2>1, <2>3 DEF Owned, HeldByDecode, Pending, Queued, Submitted,
       Completing, OnScreen
  <2>6. \A d \in Bufs : d = c => ~Owned(d)'
    BY <2>1, <2>2, <2>3, <2>4 DEF Owned, HeldByDecode, Pending, Queued,
       Submitted, Completing, OnScreen
  <2>7. Lost' = Lost \cup {c} /\ c \notin Lost
    BY <2>1, <2>2, <2>4, <2>5, <2>6 DEF Lost
  <2> QED
    BY <2>2, <2>7 DEF LostOne, c
<1> QED
  BY <1>1, <1>2, <1>3

\* The handler frees the buffer that leaves the screen, and no other.
LEMMA LostHandler ==
  Typed /\ Flips /\ Hands /\ OldFreed /\ PresentHandle /\ HandlerStep => LostSame
<1> SUFFICES ASSUME Typed, Flips, Hands, OldFreed, PresentHandle, HandlerStep
             PROVE  LostSame
  OBVIOUS
<1>0. /\ busy \in [Bufs -> BOOLEAN] /\ on_screen \in Bufs
      /\ flip_history \in Seq(Bufs)
  BY DEF Typed, TypeOK, ScanoutTypeOK
<1>1. UNCHANGED <<dw, pend, pq, pw.ent, drops>>
  BY DEF PresentHandle, pwRest, Typed, TypeOK, PresentTypeOK
<1>2. \A b \in Bufs :
        /\ HeldByDecode(b)' <=> HeldByDecode(b)
        /\ Pending(b)' <=> Pending(b)
        /\ Queued(b)' <=> Queued(b)
        /\ HeldByPresent(b)' <=> HeldByPresent(b)
  BY <1>1 DEF HeldByDecode, Pending, Queued, HeldByPresent
<1>3. CASE flip_handler
  <2>1. handler.at = "idle" /\ UNCHANGED <<on_screen, busy>>
    BY <1>3 DEF flip_handler, HandlerIdle
  <2>2. /\ Len(flip_history) \in Nat /\ Len(flip_history) > 0
        /\ flip_history' = Tail(flip_history)
        /\ handler' = [at |-> "busy", rec |-> flip_history[1]]
    BY <1>3, HandlerTakes
  <2>3. /\ Len(flip_history') = Len(flip_history) - 1
        /\ \A i \in 1..Len(flip_history') : flip_history'[i] = flip_history[i + 1]
    BY <1>0, <2>2, TailFact
  <2>4. \A b \in Bufs : Submitted(b) => Submitted(b)' \/ Completing(b)'
    <3> SUFFICES ASSUME NEW b \in Bufs, NEW i \in 1..Len(flip_history),
                        flip_history[i] = b, i # 1
                 PROVE  \E j \in 1..Len(flip_history') : flip_history'[j] = b
      BY <2>2 DEF Submitted, Completing
    <3>1. i - 1 \in 1..Len(flip_history') /\ flip_history'[i - 1] = flip_history[i]
      BY <2>2, <2>3
    <3> QED
      BY <3>1
  <2>5. \A b \in Bufs : ~Completing(b) /\ (Submitted(b)' \/ Completing(b)' => Submitted(b))
    <3>1. /\ 1 \in 1..Len(flip_history)
          /\ \A i \in 1..Len(flip_history') : i + 1 \in 1..Len(flip_history)
      BY <2>2, <2>3
    <3>2. ASSUME NEW b \in Bufs
          PROVE  ~Completing(b)
      BY <2>1 DEF Completing
    <3>3. ASSUME NEW b \in Bufs, Submitted(b)'
          PROVE  Submitted(b)
      BY <2>3, <3>1, <3>3 DEF Submitted
    <3>4. ASSUME NEW b \in Bufs, Completing(b)'
          PROVE  Submitted(b)
      BY <2>2, <3>1, <3>4 DEF Submitted, Completing
    <3> QED BY <3>2, <3>3, <3>4
  <2>6. \A b \in Bufs : OnScreen(b)' <=> OnScreen(b)
    BY <2>1 DEF OnScreen
  <2>7. \A b \in Bufs : Owned(b)' <=> Owned(b)
    BY <1>2, <2>4, <2>5, <2>6 DEF Owned
  <2> QED
    BY <1>1, <2>1, <2>7 DEF Lost, LostSame
<1>4. CASE StoreBusy
  <2>1. /\ busy' = [busy EXCEPT ![on_screen] = FALSE]
        /\ UNCHANGED <<on_screen, flip_history, handler.rec>>
        /\ handler.at = "busy" /\ handler'.at = "on_screen"
    BY <1>4 DEF StoreBusy, Typed, TypeOK, ScanoutTypeOK
  <2>2. \A b \in Bufs : Owned(b)' <=> Owned(b)
    BY <1>2, <2>1 DEF Owned, Submitted, Completing, OnScreen
  <2>3. \A b \in Bufs : b \in Lost' <=> b \in Lost
    BY <1>0, <2>1, <2>2 DEF Lost, Owned, OnScreen
  <2>4. Lost' = Lost
    BY <2>3 DEF Lost
  <2> QED
    BY <1>1, <2>4 DEF LostSame
<1>5. CASE StoreOnScreen
  <2>1. /\ UNCHANGED <<busy, flip_history>> /\ on_screen' = handler.rec
        /\ handler.at = "on_screen" /\ handler'.at = "flip_pending"
    BY <1>5 DEF StoreOnScreen, Typed, TypeOK, ScanoutTypeOK
  <2>2. ~busy[on_screen]
    BY <2>1 DEF OldFreed
  <2>3. \A b \in Bufs : b # on_screen => (Owned(b)' <=> Owned(b))
    BY <1>2, <2>1 DEF Owned, Submitted, Completing, OnScreen
  <2> QED
    BY <1>1, <2>1, <2>2, <2>3 DEF Lost, LostSame
<1>6. CASE StoreFlipPending
  <2>1. \A b \in Bufs : Owned(b)' <=> Owned(b)
    BY <1>2, <1>6 DEF StoreFlipPending, NoHandler, Owned, Submitted, Completing,
       OnScreen
  <2> QED
    BY <1>1, <1>6, <2>1 DEF StoreFlipPending, Lost, LostSame
<1> QED
  BY <1>3, <1>4, <1>5, <1>6 DEF HandlerStep

\* Whatever happens, a buffer is lost by a conversion or push that leaves no
\* event pending, or by giving up an entry; and never found again.
LEMMA LostSteps ==
  Typed /\ Flips /\ Hands /\ OldFreed /\ EntryUntilFlip /\ BufferUntilPush /\ [Next]_vars =>
    \/ LostSame
    \/ (Convert \/ PushPending) /\ LostOne(dw.buf) /\ ~pend'.ev
    \/ PresentGiveUp /\ LostOne(pw.ent.buf)
<1> SUFFICES ASSUME Typed, Flips, Hands, OldFreed, EntryUntilFlip,
                    BufferUntilPush, [Next]_vars,
                    ~Convert, ~PushPending, ~PresentGiveUp
             PROVE  LostSame
  BY LostConvert, LostPush, LostPresent
<1>0. drops' = drops
  BY PresentSteps DEF presentVars, PresentTop, PresentPop, PresentPopEmpty,
     PresentDrain, PresentHandle, PresentFlip, PresentBusy, PresentReport,
     WakePresent, pwRest
<1>1. CASE UNCHANGED claimVars
  <2>1. \A b \in Bufs : Owned(b)' <=> Owned(b)
    BY <1>1 DEF claimVars, Owned, HeldByDecode, Pending, Queued, HeldByPresent,
       Submitted, Completing, OnScreen
  <2> QED
    BY <1>0, <1>1, <2>1 DEF claimVars, Lost, LostSame
<1>2. ASSUME NEW c \in Bufs, Acquire(c) PROVE LostSame
  <2>1. ~busy[c] /\ c # on_screen /\ busy' = [busy EXCEPT ![c] = TRUE]
    BY <1>2 DEF Acquire, next_idx, Takeable
  <2>2. dw'.buf = c /\ UNCHANGED <<pend, pq, pw, flip_history, handler, on_screen>>
    BY <1>2 DEF Acquire, next_idx, dwRest, Typed, TypeOK, DecodeTypeOK
  <2>3. \A b \in Bufs : ~HeldByDecode(b) /\ (HeldByDecode(b)' <=> b = c)
    BY <1>2, <2>2 DEF Acquire, BufferUntilPush, HeldByDecode
  <2>4. \A b \in Bufs : Owned(b)' <=> Owned(b) \/ b = c
    BY <2>2, <2>3 DEF Owned, Pending, Queued, HeldByPresent, Submitted,
       Completing, OnScreen
  <2>5. busy \in [Bufs -> BOOLEAN]
    BY DEF Typed, TypeOK, ScanoutTypeOK
  <2>6. \A b \in Bufs : busy'[b] /\ ~Owned(b)' <=> busy[b] /\ ~Owned(b)
    BY <2>1, <2>4, <2>5
  <2> QED
    BY <1>0, <2>6 DEF Lost, LostSame
<1> QED
  BY <1>1, <1>2, ClaimSteps, LostPresent, LostHandler

LEMMA PoolNext == Typed /\ Flips /\ Hands /\ Pool /\ [Next]_vars => Pool'
<1> SUFFICES ASSUME Typed, Flips, Hands, Pool, [Next]_vars PROVE Pool'
  OBVIOUS
<1>0. OldFreed' /\ EntryUntilFlip' /\ BufferUntilPush'
  BY OldFreedNext, EntryNext, BufferNext DEF Pool
<1>1. \/ LostSame
      \/ (Convert \/ PushPending) /\ LostOne(dw.buf) /\ ~pend'.ev
      \/ PresentGiveUp /\ LostOne(pw.ent.buf)
  BY LostSteps DEF Pool
<1>2. Lost \subseteq Lost'
  BY <1>1 DEF LostSame, LostOne
<1>3. PoolAccounting'
  <2>1. CASE LostSame
    BY <2>1 DEF LostSame, Pool, PoolAccounting
  <2>2. ASSUME NEW b, LostOne(b) PROVE PoolAccounting'
    <3>1. IsFiniteSet(Lost)
      BY BufsFinite, FS_Subset DEF Lost
    <3>2. Cardinality(Lost') = Cardinality(Lost) + 1
      BY <2>2, <3>1, FS_AddElement DEF LostOne
    <3> QED
      BY <2>2, <3>2 DEF LostOne, Pool, PoolAccounting
  <2> QED
    BY <1>1, <2>1, <2>2
<1>4. SpareKept'
  <2>1. CASE Convert
    <3>1. CASE pend.ev
      BY <1>2, <2>1, <3>1 DEF Convert, Pool, SpareKept
    <3>2. CASE ~pend.ev
      <4>1. pend'.buf = dw.buf /\ dw.buf \in Bufs
        BY <2>1, <3>2 DEF Convert, Typed, TypeOK, DecodeTypeOK, Control
      <4>2. ~pend'.ev => LostOne(dw.buf)
        BY <2>1, <3>2, LostConvert
      <4> QED
        BY <4>1, <4>2 DEF SpareKept, LostOne
    <3> QED
      BY <3>1, <3>2
  <2>2. CASE PushPending
    <3>1. pend'.buf = dw.buf /\ dw.buf \in Bufs
      BY <2>2 DEF PushPending, Typed, TypeOK, DecodeTypeOK, Control
    <3>2. ~pend'.ev => LostOne(dw.buf)
      BY <2>2, LostPush
    <3> QED
      BY <3>1, <3>2 DEF SpareKept, LostOne
  <2>3. CASE ~Convert /\ ~PushPending
    <3>1. pend'.ev = pend.ev /\ pend'.buf = pend.buf
      BY <2>3, DecodeSteps DEF decodeVars, ProducerTake, ProducerPublish,
         DecodeTop, DecodeStop, DecodeMark, Decode, DecodePick, Acquire,
         AcquireBusy, CopyPending, FreeBeforePush, FbCheck, FbCopy, Release,
         JoinReader, CloseDisplay, dwRest, Typed, TypeOK, DecodeTypeOK
    <3>2. pq' # <<>> => pq # <<>>
      BY <2>3, PresentSteps DEF presentVars, PresentTop, PresentPop,
         PresentPopEmpty, PresentDrain, PresentHandle, PresentFlip, PresentBusy,
         PresentGiveUp, PresentReport, WakePresent
    <3> QED
      BY <1>2, <3>1, <3>2 DEF Pool, SpareKept
  <2> QED
    BY <2>1, <2>2, <2>3
<1> QED
  BY <1>0, <1>3, <1>4 DEF Pool

LEMMA AlwaysPool == Spec => [](Typed /\ Flips /\ Hands /\ Pool)
<1>1. Spec => []Flips
  BY AlwaysTyped, FlipsInit, FlipsNext, PTL DEF Spec
<1>2. Spec => []Hands
  BY <1>1, AlwaysTyped, HandsInit, HandsNext, PTL DEF Spec
<1>3. Spec => []Pool
  BY <1>1, <1>2, AlwaysTyped, PoolInit, PoolNext, PTL DEF Spec
<1> QED
  BY <1>1, <1>2, <1>3, AlwaysTyped, PTL

\* Every buffer that is busy and in nobody's hands was given up by a failed
\* conversion or flip and counted then: the hand-overs between decode worker,
\* queue, present worker, kernel and flip handler leak none, and free none
\* twice, however many buffers there are.
THEOREM BuffersAccounted == Spec => []PoolAccounting
<1>1. Pool => PoolAccounting
  BY DEF Pool
<1> QED
  BY <1>1, AlwaysPool, PTL

-----------------------------------------------------------------------------
(* The present queue.                                                      *)

\* The queue names distinct buffers, none of which is on screen or pending.
LEMMA QueueFits ==
  ASSUME Typed, Hands, Pool, NBufs >= 2
  PROVE  QueueNeverFull
<1> DEFINE n == Len(pq)
           f == [i \in 1..n |-> pq[i].buf]
           S == Bufs \ {on_screen}
           T == S \ {pend.buf}
<1>0. n \in Nat /\ pq \in Seq(Entries) /\ on_screen \in Bufs
  BY DEF Typed, TypeOK, PresentTypeOK, ScanoutTypeOK
<1>1. CASE pq = <<>>
  BY <1>1, ScanoutAssumption DEF QueueNeverFull
<1>2. CASE pq # <<>>
  <2>1. pend.buf \in Bufs
    BY <1>2 DEF Pool, SpareKept
  <2>2. pend.buf # on_screen /\ ~Queued(pend.buf)
    <3>1. CASE pend.ev
      BY <2>1, <3>1 DEF Hands, OneOwner, Pending, OnScreen
    <3>2. CASE ~pend.ev
      BY <2>1, <3>2 DEF Pool, SpareKept, Lost, Owned, OnScreen
    <3> QED
      BY <3>1, <3>2
  <2>3. /\ IsFiniteSet(S) /\ Cardinality(S) = NBufs - 1
        /\ IsFiniteSet(T) /\ Cardinality(T) = NBufs - 2
    <3>1. IsFiniteSet(S) /\ Cardinality(S) = NBufs - 1
      BY <1>0, BufsFinite, FS_RemoveElement
    <3>2. pend.buf \in S
      BY <2>1, <2>2
    <3>3. IsFiniteSet(T) /\ Cardinality(T) = NBufs - 1 - 1
      BY <3>1, <3>2, FS_RemoveElement
    <3> QED
      BY <3>1, <3>3, ScanoutAssumption
  <2>4. \A i \in 1..n : pq[i].buf \in T
    <3> SUFFICES ASSUME NEW i \in 1..n PROVE pq[i].buf \in T
      OBVIOUS
    <3>0. pq[i] \in Entries
      BY <1>0
    <3>1. pq[i].buf \in Bufs /\ Queued(pq[i].buf)
      BY <3>0 DEF Entries, Queued
    <3>2. pq[i].buf # on_screen
      BY <3>1 DEF Hands, OneOwner, OnScreen
    <3> QED
      BY <2>2, <3>1, <3>2
  <2>5. \A i, j \in 1..n : pq[i].buf = pq[j].buf => i = j
    BY DEF Hands, OneOwner
  <2>6. f \in Injection(1..n, T)
    <3> HIDE DEF T, n
    <3> QED
      BY <2>4, <2>5, Zenon DEF Injection, IsInjective
  <2>7. Cardinality(1..n) <= Cardinality(T)
    <3> HIDE DEF f, T
    <3> QED
      BY <2>3, <2>6, FS_Injection
  <2>8. Cardinality(1..n) = n
    <3> HIDE DEF n
    <3> QED
      BY <1>0, FS_Interval
  <2> QED
    BY <1>0, <2>3, <2>7, <2>8 DEF QueueNeverFull
<1> QED
  BY <1>1, <1>2

\* With two buffers or more present_push never waits for space: the queue,
\* sized for all buffers, is at least two short of full whenever it is used.
THEOREM PushNeverWaits == NBufs >= 2 => (Spec => []QueueNeverFull)
<1> SUFFICES ASSUME NBufs >= 2 PROVE Spec => []QueueNeverFull
  OBVIOUS
<1>1. Typed /\ Hands /\ Pool => QueueNeverFull
  BY QueueFits
<1> QED
  BY <1>1, AlwaysPool, PTL
=============================================================================
