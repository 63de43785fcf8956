--------------------------- MODULE VideoPipeline ---------------------------
(***************************************************************************)
(* The video half of apps/thinclient/main.c: the producer of access units  *)
(* (the DASH reader thread, or the UDP main loop), the decode worker, the  *)
(* present worker (DRM mode), the main thread's shutdown sequence and the  *)
(* display.  Composes FrameSlots and DrmScanout.                           *)
(*                                                                         *)
(* Frame n is the n-th access unit; "the picture n" is what the decoder    *)
(* returned for it.  The audio-clock gates before a presentation are       *)
(* bounded waits, so a presentation may happen at any time.                *)
(***************************************************************************)
EXTENDS FrameSlots, DrmScanout, FiniteSets

CONSTANTS MaxFrames,     \* access units the stream delivers (bound)
          PQSize,        \* VMC_PRESENT_QUEUE_SIZE
          FlipTries,     \* drmModePageFlip calls per entry (50 x 3)
          TriesPerCall,  \* of which per vmc_drm_scanout_present (3)
          AcquireTries,  \* retries of next_idx when all are busy (1000)
          Udp,           \* TRUE: UDP receive loop; FALSE: DASH reader
          UseDrm,        \* TRUE: DRM present worker; FALSE: fb0
          Faults,        \* which of "oversize", "decode", "conv", "flip",
                         \* "timeout" (retries run out before a vblank),
                         \* "cancel" (reader watchdog) and "stop" can happen
          MaxRestarts    \* reader restarts by the watchdog (bound)

ASSUME PipelineAssumption ==
  /\ MaxFrames \in Nat /\ FlipTries \in Nat /\ AcquireTries \in Nat
  /\ MaxRestarts \in Nat /\ TriesPerCall \in Nat \ {0}
  /\ PQSize \in Nat /\ NBufs <= PQSize
  /\ Udp \in BOOLEAN /\ UseDrm \in BOOLEAN

VARIABLES rd,    \* producer: [pc, slot, frame]
          dw,    \* decode worker: [pc, slot, frame, buf, tries, ev]
          pend,  \* g_pending_*: [ev, buf, stage, fidx]
          vmeta, \* g_vmeta: identity attached to each scanout buffer
          pic,   \* pixels of each scanout buffer: which picture
          pq,    \* present queue of [buf, pts]
          pw,    \* present worker: [pc, ent, tries, ret]
          vrenders,   \* vrender events emitted for DRM flips
          drops,      \* frames lost to failed flips and conversions
          fbpic,      \* fb0: the picture on the framebuffer
          fbmap,      \* fb0: the framebuffer is mapped
          run, run_decode,
          mw          \* main thread: [pc, restarts]

pipeVars == <<rd, dw, pend, vmeta, pic, pq, pw, vrenders, drops,
              fbpic, fbmap, run, run_decode, mw>>
vars == <<slotVars, scanoutVars, pipeVars>>

NoEntry  == [buf |-> NoBuf, pts |-> 0]
IdleDw   == [pc |-> "top", slot |-> 0, frame |-> 0, buf |-> NoBuf,
             tries |-> 0, ev |-> FALSE]

Init ==
  /\ SlotsInit
  /\ vmc_drm_scanout_init
  /\ rd = [pc |-> "take", slot |-> 0, frame |-> 0]
  /\ dw = IdleDw
  /\ pend = [ev |-> FALSE, buf |-> NoBuf, stage |-> 0, fidx |-> 0]
  /\ vmeta = [b \in Bufs |-> 0]
  /\ pic = [b \in Bufs |-> 0]
  /\ pq = <<>>
  /\ pw = [pc |-> IF UseDrm THEN "top" ELSE "off", ent |-> NoEntry,
           tries |-> 0, ret |-> "top"]
  /\ vrenders = 0 /\ drops = 0
  /\ fbpic = 0 /\ fbmap = ~UseDrm
  /\ run = TRUE /\ run_decode = TRUE
  /\ mw = [pc |-> "loop", restarts |-> 0]

-----------------------------------------------------------------------------
(* The producer: dash_publish_au per access unit of the reader, or the UDP *)
(* loop, which publishes the assembled slot and takes the next one.        *)
\* On a fixed DASH anchor deadlines grow with the frame number; what a move
\* of the anchor does to them is DashTimeline.
Deadline(f) == IF Udp THEN 0 ELSE f

\* After the last access unit the UDP loop still holds a slot to assemble in.
LastTake == IF Udp THEN MaxFrames + 1 ELSE MaxFrames

ProducerTake(i) ==
  /\ rd.pc = "take" /\ rd.frame < LastTake
  /\ TakeWrite(i)
  /\ rd' = [pc |-> "fill", slot |-> i, frame |-> rd.frame + 1]
  /\ UNCHANGED <<scanoutVars, dw, pend, vmeta, pic, pq, pw, vrenders, drops,
                 fbpic, fbmap, run, run_decode, mw>>

ProducerWait ==
  /\ rd.pc = "take" /\ rd.frame < LastTake
  /\ TakeWait
  /\ UNCHANGED <<scanoutVars, pipeVars>>

ProducerPublish ==
  /\ rd.pc = "fill" /\ rd.frame <= MaxFrames
  /\ \/ slot_publish(rd.slot, rd.frame, Deadline(rd.frame))
     \/ "oversize" \in Faults /\ slot_release(rd.slot)
  /\ rd' = [rd EXCEPT !.pc = "take", !.slot = 0]
  /\ UNCHANGED <<scanoutVars, dw, pend, vmeta, pic, pq, pw, vrenders, drops,
                 fbpic, fbmap, run, run_decode, mw>>

-----------------------------------------------------------------------------
(* decode_worker *)
dwRest == <<rd, pend, vmeta, pic, pq, pw, vrenders, drops, fbpic, fbmap,
            run, run_decode, mw>>

DecodeTop ==
  /\ dw.pc = "top"
  /\ dw' = [dw EXCEPT !.pc = IF run_decode THEN "pick" ELSE "exit"]
  /\ UNCHANGED <<slotVars, scanoutVars, dwRest>>

\* Under g_fmu: stop, take the earliest READY slot, or sleep on g_fready.
DecodePick(i) ==
  /\ dw.pc = "pick" /\ PickAwake
  /\ run_decode /\ Earliest(i)
  /\ dw' = [dw EXCEPT !.pc = "mark", !.slot = i]
  /\ UNCHANGED <<slotVars, scanoutVars, dwRest>>

DecodeStop ==
  /\ dw.pc = "pick" /\ PickAwake
  /\ ~run_decode
  /\ dw' = [dw EXCEPT !.pc = "exit"]
  /\ UNCHANGED <<slotVars, scanoutVars, dwRest>>

DecodeSleep ==
  /\ dw.pc = "pick" /\ run_decode
  /\ PickWait
  /\ UNCHANGED <<scanoutVars, pipeVars>>

DecodeMark ==
  /\ dw.pc = "mark"
  /\ MarkDecoding(dw.slot)
  /\ dw' = [dw EXCEPT !.pc = "decode", !.frame = slots[dw.slot].frame]
  /\ UNCHANGED <<scanoutVars, dwRest>>

\* vmc_decoder_decode: a picture, or an error / no output yet.
Decode ==
  /\ dw.pc = "decode"
  /\ \/ dw' = [dw EXCEPT !.pc = IF UseDrm THEN "acquire" ELSE "fbcheck"]
     \/ "decode" \in Faults /\ dw' = [dw EXCEPT !.pc = "release"]
  /\ UNCHANGED <<slotVars, scanoutVars, dwRest>>

\* next_idx, then up to AcquireTries retries while all buffers are busy.  The
\* retries last 3 s: they run out only where the display stops refreshing.
Acquire(b) ==
  /\ dw.pc = "acquire"
  /\ next_idx(b)
  /\ dw' = [dw EXCEPT !.pc = "conv", !.buf = b, !.tries = 0]
  /\ UNCHANGED <<slotVars, dwRest>>

AcquireBusy ==
  /\ dw.pc = "acquire" /\ AllBusy
  /\ "timeout" \in Faults \/ ~run_decode
  /\ dw' = IF run_decode /\ dw.tries < AcquireTries
             THEN [dw EXCEPT !.tries = @ + 1]
             ELSE [dw EXCEPT !.pc = "release", !.tries = 0]
  /\ UNCHANGED <<slotVars, scanoutVars, dwRest>>

\* g_conv_async for this frame.  With no event pending the pending fields are
\* overwritten at once and the worker continues; the slot is not released.
\* An overwritten reserved buffer (a failed conversion) is counted in drops.
Convert ==
  /\ dw.pc = "conv"
  /\ \E ev \in {TRUE} \cup (IF "conv" \in Faults THEN {FALSE} ELSE {}) :
       IF pend.ev
         THEN /\ dw' = [dw EXCEPT !.pc = "copy", !.ev = ev]
              /\ UNCHANGED <<pend, drops>>
         ELSE /\ dw' = [dw EXCEPT !.pc = "top", !.buf = NoBuf]
              /\ pend' = [pend EXCEPT !.ev = ev, !.buf = dw.buf,
                                      !.stage = dw.frame]
              /\ drops' = IF ev THEN drops ELSE drops + 1
  /\ UNCHANGED <<slotVars, scanoutVars, rd, vmeta, pic, pq, pw, vrenders,
                 fbpic, fbmap, run, run_decode, mw>>

\* The previous picture is copied into the buffer reserved for it and given
\* the identity saved for it; then this frame's identity is saved.
CopyPending ==
  /\ dw.pc = "copy"
  /\ pic' = [pic EXCEPT ![pend.buf] = pend.stage]
  /\ vmeta' = [vmeta EXCEPT ![pend.buf] = pend.fidx]
  /\ pend' = [pend EXCEPT !.fidx = dw.frame]
  /\ dw' = [dw EXCEPT !.pc = "free"]
  /\ UNCHANGED <<slotVars, scanoutVars, rd, pq, pw, vrenders, drops,
                 fbpic, fbmap, run, run_decode, mw>>

KeepSlot ==
  /\ dw.pc = "free"
  /\ dw' = [dw EXCEPT !.pc = "push"]
  /\ UNCHANGED <<slotVars, scanoutVars, dwRest>>

FreeBeforePush ==
  /\ dw.pc = "free"
  /\ slot_release(dw.slot)
  /\ dw' = [dw EXCEPT !.pc = "push"]
  /\ UNCHANGED <<scanoutVars, dwRest>>

\* A signal or broadcast on g_present_qready.
WakePresenter == pw' = IF pw.pc = "sleep" THEN [pw EXCEPT !.pc = "pop"] ELSE pw

\* present_push of the previous picture, then the pending fields (private to
\* this thread) take over the current one.
PushPending ==
  /\ dw.pc = "push"
  /\ Len(pq) < PQSize \/ ~run
  /\ pq' = Append(pq, [buf |-> pend.buf, pts |-> pend.fidx])
  /\ pend' = [pend EXCEPT !.ev = dw.ev, !.buf = dw.buf, !.stage = dw.frame]
  /\ drops' = IF dw.ev THEN drops ELSE drops + 1
  /\ dw' = [dw EXCEPT !.pc = "top", !.buf = NoBuf, !.ev = FALSE]
  /\ WakePresenter
  /\ UNCHANGED <<slotVars, scanoutVars, rd, vmeta, pic, vrenders,
                 fbpic, fbmap, run, run_decode, mw>>

\* fb0: vmc_display_present checks the mapping, then copies the picture.
FbCheck ==
  /\ dw.pc = "fbcheck"
  /\ dw' = [dw EXCEPT !.pc = IF fbmap THEN "fbcopy" ELSE "release"]
  /\ UNCHANGED <<slotVars, scanoutVars, dwRest>>

FbCopy ==
  /\ dw.pc = "fbcopy"
  /\ fbpic' = dw.frame
  /\ dw' = [dw EXCEPT !.pc = "release"]
  /\ UNCHANGED <<slotVars, scanoutVars, rd, pend, vmeta, pic, pq, pw,
                 vrenders, drops, fbmap, run, run_decode, mw>>

Release ==
  /\ dw.pc = "release"
  /\ slot_release(dw.slot)
  /\ dw' = [dw EXCEPT !.pc = "top"]
  /\ UNCHANGED <<scanoutVars, dwRest>>

DecodeWorker ==
  \/ DecodeTop \/ DecodeStop \/ DecodeSleep \/ DecodeMark \/ Decode
  \/ \E i \in Slots : DecodePick(i)
  \/ \E b \in Bufs : Acquire(b)
  \/ AcquireBusy \/ Convert \/ CopyPending \/ FreeBeforePush \/ PushPending
  \/ FbCheck \/ FbCopy \/ Release

-----------------------------------------------------------------------------
(* present_worker *)
pwRest == <<rd, dw, pend, vmeta, pic, drops, fbpic, fbmap,
            run, run_decode, mw>>

PresentTop ==
  /\ pw.pc = "top"
  /\ pw' = [pw EXCEPT !.pc = IF run THEN "pop" ELSE "exit"]
  /\ UNCHANGED <<slotVars, scanoutVars, pq, vrenders, pwRest>>

PopNewest ==
  /\ pw.pc = "pop" /\ pq # <<>>
  /\ pq' = SubSeq(pq, 1, Len(pq) - 1)
  /\ pw' = [pc |-> "drain", ent |-> pq[Len(pq)], tries |-> 0, ret |-> "flip"]
  /\ UNCHANGED <<slotVars, scanoutVars, vrenders, pwRest>>

\* present_pop: the head of the queue; without one, exit or sleep.
PresentPop ==
  /\ pw.pc = "pop" /\ pq # <<>>
  /\ pq' = Tail(pq)
  /\ pw' = [pc |-> "drain", ent |-> Head(pq), tries |-> 0, ret |-> "flip"]
  /\ UNCHANGED <<slotVars, scanoutVars, vrenders, pwRest>>

PresentPopEmpty ==
  /\ pw.pc = "pop" /\ pq = <<>>
  /\ pw' = [pw EXCEPT !.pc = IF run THEN "sleep" ELSE "exit"]
  /\ UNCHANGED <<slotVars, scanoutVars, pq, vrenders, pwRest>>

\* vmc_drm_scanout_drain / wait_flip: with no event queued it returns (at
\* once, or on its timeout); otherwise every queued event is handled.
PresentDrain ==
  /\ pw.pc = "drain"
  /\ \/ /\ kevents = 0
        /\ pw' = [pw EXCEPT !.pc = pw.ret]
        /\ UNCHANGED scanoutVars
     \/ /\ ReadEvents
        /\ pw' = [pw EXCEPT !.pc = "handle"]
  /\ UNCHANGED <<slotVars, pq, vrenders, pwRest>>

PresentHandle ==
  /\ pw.pc = "handle"
  /\ \/ HandlerStep /\ UNCHANGED pw
     \/ Drained /\ pw' = [pw EXCEPT !.pc = pw.ret] /\ UNCHANGED scanoutVars
  /\ UNCHANGED <<slotVars, pq, vrenders, pwRest>>

\* The flip loop: run is tested before each vmc_drm_scanout_present, which
\* itself retries an EBUSY; any other errno gives the entry up.
MayTry == pw.tries < FlipTries /\ (pw.tries % TriesPerCall = 0 => run)

Leave(e) == [pc |-> "drain", ent |-> e, tries |-> 0, ret |-> "report"]

PresentFlip ==
  /\ pw.pc = "flip" /\ MayTry
  /\ SubmitFlip(pw.ent.buf)
  /\ pw' = Leave(NoEntry)
  /\ UNCHANGED <<slotVars, pq, vrenders, pwRest>>

PresentBusy ==
  /\ pw.pc = "flip" /\ MayTry
  /\ ~FlipAccepted
  /\ pw' = [pw EXCEPT !.pc = "drain", !.ret = "flip",
                      !.tries = IF "timeout" \in Faults THEN @ + 1 ELSE @]
  /\ UNCHANGED <<slotVars, scanoutVars, pq, vrenders, pwRest>>

\* The entry is given up: its buffer stays busy and is never flipped.
PresentGiveUp ==
  /\ pw.pc = "flip"
  /\ ~MayTry \/ "flip" \in Faults
  /\ pw' = Leave(NoEntry)
  /\ drops' = drops + 1
  /\ UNCHANGED <<slotVars, scanoutVars, pq, vrenders, rd, dw, pend, vmeta,
                 pic, fbpic, fbmap, run, run_decode, mw>>

\* A vrender for the buffer in last_completed, if any.
PresentReport ==
  /\ pw.pc = "report"
  /\ pw' = [pw EXCEPT !.pc = "top", !.ret = "top"]
  /\ IF last_completed = NoBuf
       THEN UNCHANGED <<scanoutVars, vrenders>>
       ELSE ClearCompleted /\ vrenders' = vrenders + 1
  /\ UNCHANGED <<slotVars, pq, pwRest>>

PresentWorker ==
  \/ PresentTop \/ PresentPop \/ PresentPopEmpty \/ PresentDrain
  \/ PresentHandle \/ PresentFlip \/ PresentBusy \/ PresentGiveUp
  \/ PresentReport

VblankTick == Vblank /\ UNCHANGED <<slotVars, pipeVars>>

-----------------------------------------------------------------------------
(* The main thread: the reader watchdog and the shutdown of run_dash, and  *)
(* the shutdown of the UDP main loop.                                      *)
mwRest == <<rd, dw, pend, vmeta, pic, pq, pw, vrenders, drops, fbpic>>

Goto(label) == mw' = [mw EXCEPT !.pc = label]

\* SIGINT/SIGTERM, or the end-of-stream test of run_dash.
Stop ==
  /\ "stop" \in Faults /\ run
  /\ run' = FALSE
  /\ UNCHANGED <<slotVars, scanoutVars, mwRest, fbmap, run_decode, mw>>

\* The reader can be cancelled at its I/O (between access units) or inside
\* slot_take_write's pthread_cond_wait; not while it fills or publishes.
CancelReader ==
  \/ rd.pc = "take" /\ "taker" \notin asleep /\ UNCHANGED slotVars
  \/ rd.pc = "take" /\ CancelWaitingTaker

\* No packet for 20 s: cancel, join and re-create the reader thread.  (The
\* dash_resync that follows is an action of DashTimeline.)
RestartReader ==
  /\ ~Udp /\ "cancel" \in Faults
  /\ mw.pc = "loop" /\ run /\ mw.restarts < MaxRestarts
  /\ CancelReader
  /\ mw' = [mw EXCEPT !.restarts = @ + 1]
  /\ UNCHANGED <<scanoutVars, mwRest, fbmap, run, run_decode>>

\* The loop sees g_run = 0; in the UDP loop only between slot operations.
LeaveLoop ==
  /\ mw.pc = "loop" /\ ~run
  /\ Udp => rd.pc = "fill"
  /\ Goto(IF Udp THEN "closefb" ELSE "cancel")
  /\ UNCHANGED <<slotVars, scanoutVars, mwRest, fbmap, run, run_decode>>

JoinReader ==
  /\ mw.pc = "cancel"
  /\ CancelReader
  /\ rd' = [rd EXCEPT !.pc = "dead"]
  /\ Goto("stopdecode")
  /\ UNCHANGED <<scanoutVars, dw, pend, vmeta, pic, pq, pw, vrenders, drops,
                 fbpic, fbmap, run, run_decode>>

\* vmc_display_close: before the workers are joined in the UDP shutdown,
\* after them in the DASH one.
CloseDisplay ==
  /\ mw.pc = "closefb"
  /\ fbmap' = FALSE
  /\ rd' = [rd EXCEPT !.pc = "dead"]
  /\ Goto(IF Udp THEN "stopdecode" ELSE "done")
  /\ UNCHANGED <<slotVars, scanoutVars, dw, pend, vmeta, pic, pq, pw,
                 vrenders, drops, fbpic, run, run_decode>>

StopDecode ==
  /\ mw.pc = "stopdecode"
  /\ run_decode' = FALSE
  /\ Goto("wakedecode")
  /\ UNCHANGED <<slotVars, scanoutVars, mwRest, fbmap, run>>

SkipWakeDecode ==
  /\ mw.pc = "wakedecode"
  /\ fmu = "free"
  /\ Goto("wakepresent")
  /\ UNCHANGED <<slotVars, scanoutVars, mwRest, fbmap, run, run_decode>>

WakeDecode ==
  /\ mw.pc = "wakedecode"
  /\ BroadcastReady
  /\ Goto("wakepresent")
  /\ UNCHANGED <<scanoutVars, mwRest, fbmap, run, run_decode>>

SkipWakePresent ==
  /\ mw.pc = "wakepresent"
  /\ Goto("join")
  /\ UNCHANGED <<slotVars, scanoutVars, mwRest, fbmap, run, run_decode>>

WakePresent ==
  /\ mw.pc = "wakepresent"
  /\ WakePresenter
  /\ Goto("join")
  /\ UNCHANGED <<slotVars, scanoutVars, rd, dw, pend, vmeta, pic, pq,
                 vrenders, drops, fbpic, fbmap, run, run_decode>>

JoinPresenterOnly ==
  /\ mw.pc = "join"
  /\ pw.pc \in {"exit", "off"}
  /\ Goto(IF Udp THEN "done" ELSE "closefb")
  /\ UNCHANGED <<slotVars, scanoutVars, mwRest, fbmap, run, run_decode>>

JoinWorkers ==
  /\ mw.pc = "join"
  /\ pw.pc \in {"exit", "off"} /\ dw.pc = "exit"
  /\ Goto(IF Udp THEN "done" ELSE "closefb")
  /\ UNCHANGED <<slotVars, scanoutVars, mwRest, fbmap, run, run_decode>>

Main ==
  \/ LeaveLoop \/ JoinReader \/ CloseDisplay \/ StopDecode \/ WakeDecode
  \/ WakePresent \/ JoinWorkers

Producer ==
  \/ \E i \in Slots : ProducerTake(i)
  \/ ProducerWait \/ ProducerPublish

Next ==
  \/ Producer \/ DecodeWorker \/ PresentWorker \/ VblankTick
  \/ Stop \/ RestartReader \/ Main

Spec == Init /\ [][Next]_vars

\* Every thread that can run gets to run, and the display refreshes.  Signals
\* and watchdog restarts are never owed.
Fairness ==
  /\ WF_vars(Producer) /\ WF_vars(DecodeWorker) /\ WF_vars(PresentWorker)
  /\ WF_vars(VblankTick) /\ WF_vars(Main)

FairSpec == Spec /\ Fairness

-----------------------------------------------------------------------------
DwPcs == {"top", "pick", "mark", "decode", "acquire", "conv", "copy", "free",
          "push", "fbcheck", "fbcopy", "release", "exit"}
PwPcs == {"top", "pop", "sleep", "drain", "handle", "flip", "report", "exit",
          "off"}
MwPcs == {"loop", "cancel", "closefb", "stopdecode", "wakedecode",
          "wakepresent", "join", "done"}
Entries == [buf : Bufs, pts : Nat]

DecodeTypeOK ==
  /\ rd \in [pc : {"take", "fill", "dead"}, slot : Slots, frame : Nat]
  /\ dw \in [pc : DwPcs, slot : Slots, frame : Nat, buf : Bufs \cup {NoBuf},
             tries : 0..AcquireTries, ev : BOOLEAN]
  /\ pend \in [ev : BOOLEAN, buf : Bufs \cup {NoBuf}, stage : Nat, fidx : Nat]
  /\ vmeta \in [Bufs -> Nat]
  /\ pic \in [Bufs -> Nat]

PresentTypeOK ==
  /\ pq \in Seq(Entries)
  /\ pw \in [pc : PwPcs, ent : Entries \cup {NoEntry}, tries : 0..FlipTries,
             ret : {"top", "flip", "report"}]
  /\ vrenders \in Nat /\ drops \in Nat

MainTypeOK ==
  /\ fbpic \in Nat /\ fbmap \in BOOLEAN
  /\ run \in BOOLEAN /\ run_decode \in BOOLEAN
  /\ mw \in [pc : MwPcs, restarts : 0..MaxRestarts]

\* Every variable has its type: counters and indices stay in range, queue
\* entries and flip records name real buffers, program counters are labels.
TypeOK ==
  SlotsTypeOK /\ ScanoutTypeOK /\ DecodeTypeOK /\ PresentTypeOK /\ MainTypeOK

\* The claims on a scanout buffer b.
HeldByDecode(b)  == dw.buf = b                   \* acquired for this frame
Pending(b)       == pend.ev /\ pend.buf = b      \* reserved for the previous
Queued(b)        == \E i \in 1..Len(pq) : pq[i].buf = b
HeldByPresent(b) == pw.ent.buf = b
Submitted(b)     == \E i \in 1..Len(flip_history) : flip_history[i] = b
Completing(b)    == handler.at \in {"busy", "on_screen"} /\ handler.rec = b
OnScreen(b)      == on_screen = b

Owned(b) ==
  \/ HeldByDecode(b) \/ Pending(b) \/ Queued(b) \/ HeldByPresent(b)
  \/ Submitted(b) \/ Completing(b) \/ OnScreen(b)

\* Buffers move from hand to hand between two threads and the kernel without
\* a lock (next_idx, present_push/pop, PageFlip, flip_handler), yet no buffer
\* is ever in two hands, and no queue holds one twice.
OneOwner ==
  /\ \A b \in Bufs :
       /\ HeldByDecode(b) => ~(Pending(b) \/ Queued(b) \/ HeldByPresent(b)
                               \/ Submitted(b) \/ Completing(b) \/ OnScreen(b))
       /\ Pending(b) => ~(Queued(b) \/ HeldByPresent(b) \/ Submitted(b)
                          \/ Completing(b) \/ OnScreen(b))
       /\ Queued(b) => ~(HeldByPresent(b) \/ Submitted(b) \/ Completing(b)
                         \/ OnScreen(b))
       /\ HeldByPresent(b) => ~(Submitted(b) \/ Completing(b) \/ OnScreen(b))
       /\ Submitted(b) => ~(Completing(b) \/ OnScreen(b))
       /\ Completing(b) => ~OnScreen(b)
  /\ \A i, j \in 1..Len(pq) : pq[i].buf = pq[j].buf => i = j
  /\ \A i, j \in 1..Len(flip_history) :
       flip_history[i] = flip_history[j] => i = j

\* The driver's books and the kernel agree, however vblanks, event reads and
\* the steps of flip_handler interleave: the flip history names exactly the
\* flips whose completion has not been handled, never more than two, the last
\* being the one that waits for the vblank; and the buffer on the display is
\* the latest completed one of them, or else the one the handler is putting
\* in on_screen, or else on_screen.
Unseen == kevents + unhandled
KernelView ==
  /\ Len(flip_history) = Unseen + (IF kflip = NoBuf THEN 0 ELSE 1)
  /\ Len(flip_history) <= 2
  /\ kflip # NoBuf => flip_history[Len(flip_history)] = kflip
  /\ kscan = IF Unseen > 0 THEN flip_history[Unseen]
             ELSE IF handler.at \in {"busy", "on_screen"} THEN handler.rec
             ELSE on_screen

\* The decode worker's copy into a scanout buffer never touches the buffer
\* the display is scanning out or is about to (no tearing), although on_screen
\* and flip_pending, which next_idx consults, lag behind the kernel.
NoTear == dw.pc = "copy" => pend.buf \notin {kscan, kflip}

\* present_push never finds the present queue full: its wait on
\* g_present_qspace, for which the frame slot is released early, is dead code.
\* The buffer on screen and the one in the conversion stage are not in the
\* queue, and there are fewer buffers than queue entries.
QueueNeverFull == Len(pq) <= NBufs - 2

\* A busy buffer nobody owns is one given up after a failed flip or a failed
\* conversion: nothing else leaks from the pool, and none of those returns.
Lost == {b \in Bufs : busy[b] /\ ~Owned(b)}
PoolAccounting == Cardinality(Lost) = drops

\* A slot in state DECODING that the worker no longer works on was leaked by
\* the very first conversion or by one after a failed conversion, never by
\* any other path through the worker.
WorkerHolds == {i \in Slots : i = dw.slot /\ dw.pc \notin
                               {"top", "pick", "mark", "push", "exit"}}
SlotAccounting ==
  Cardinality(InState("DECODING") \ WorkerHolds) <= drops + 1

\* While the anchor is fixed, access units are decoded in the order the DASH
\* reader published them, whatever slots they landed in.
DecodeInOrder == [][dw'.frame >= dw.frame]_dw

\* Every vblank that changes the picture on screen moves it forward: no
\* picture is shown again or after a later one.
ShownInOrder == [][kscan' # kscan => pic[kscan'] > pic[kscan]]_vars

\* A request to stop always ends the program: main leaves its loop, wakes and
\* joins both workers and finishes, wherever each of them was blocked; the
\* one exception is a reader cancelled inside slot_take_write's wait, which
\* leaves g_fmu locked for good.
StopHonoured == ~run ~> (mw.pc = "done" \/ fmu = "orphaned")

\* vmc_display_present tests the mapping before it copies, and the DASH
\* shutdown unmaps only after joining the worker: no copy into unmapped
\* memory.
NoWriteAfterUnmap == dw.pc = "fbcopy" => fbmap

\* fb0: the picture on the framebuffer only ever moves forward.
FbInOrder == [][fbpic' >= fbpic]_fbpic

\* Every access unit but the last reaches the screen, unless a stop is
\* requested or a conversion or flip fails: the pipeline never wedges on its
\* own slots, buffers and queues.
AllButLastShown ==
  \A f \in 1..MaxFrames-1 : <>(pic[kscan] = f \/ ~run \/ drops > 0)

-----------------------------------------------------------------------------
(* What comments and documents say, where the code does otherwise.         *)

\* main.c, present_entry: pts_us is the "content PTS of the frame (for the
\* audio-content gate)".  The queue entry carries the PTS of the next frame.
PtsOfPicture == \A i \in 1..Len(pq) : pq[i].pts = pic[pq[i].buf]

\* main.c, decode_worker: "Attach the previous frame's content identity to
\* the DRM buffer we are about to hand to the present worker".  The first
\* picture, and the first after a failed conversion, get another identity.
IdentityOfPicture == \A i \in 1..Len(pq) : vmeta[pq[i].buf] = pic[pq[i].buf]

\* main.c, decode_worker: "the decode worker must not hold its slot while
\* blocked, or the free-slot pool shrinks".  When no conversion is pending
\* the worker goes back to waiting with the slot still DECODING.
NoSlotHeldWhenIdle ==
  dw.pc \in {"top", "pick", "push"} => InState("DECODING") = {}

\* AV_TELEMETRY_SPEC 4.2: a vrender is "emitted immediately after the
\* DRM_EVENT_FLIP_COMPLETE handler runs".  last_completed starts at 0, not
\* -1, so a vrender for buffer 0 is emitted before any flip completes.
VrenderNeedsFlip == vrenders <= flips_done

\* AV_TELEMETRY_SPEC 4.2: "one per presented video frame".  Two completions
\* between two reports leave only the later one in last_completed.
VrenderPerFlip == pw.pc = "top" => vrenders >= flips_done

\* AV_TELEMETRY_SPEC 4.8: at the end of the stream the client "presents the
\* remaining frames".  The last picture stays in the conversion stage.
LastFrameShown == <>(pic[kscan] = MaxFrames)
=============================================================================
