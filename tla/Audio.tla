-------------------------------- MODULE Audio --------------------------------
(***************************************************************************)
(* The audio path of apps/thinclient/main.c and the clock it gives video:  *)
(* the reader writes PCM into g_audio_rb, the audio worker renders it to   *)
(* the ALSA sink (src/audio/) and publishes the audio-master clock, and    *)
(* the present worker gates its first frames on that clock.                *)
(*                                                                         *)
(* A "byte" of the ring is one unit of PCM content, identified by its      *)
(* place in the stream; a 5 ms period is Period units, the least that lets *)
(* a read find part of a period.  0 is silence.  Every critical section    *)
(* of g_audio_mu is one step; a wait on g_audio_cv splits it.              *)
(***************************************************************************)
EXTENDS RingBuf, FiniteSets, TLC

CONSTANTS Period,     \* units in one period (VMC_AUDIO_FRAME_BYTES)
          Prefill,    \* units buffered before playback (VMC_AUDIO_PREFILL_TARGET)
          MaxWaits,   \* timed waits for a full period (40 of 5 ms)
          MaxGate,    \* sleeps of the present worker's start gate (1000 of 3 ms)
          Stall,      \* ticks after which the audio clock is stale (1 s)
          Window,     \* units the live window reaches back (audio_oldest)
          MaxUnits,   \* bound: content units delivered
          MaxFlushes, \* bound: flushes, edge resets and reader restarts
          Faults      \* the sink and reader faults that may happen

AllFaults == {"silent", "xrun", "fatal", "restart"}

ASSUME AudioAssumption ==
  /\ Period \in 1..MaxLen /\ Prefill \in 0..Capacity
  /\ MaxWaits \in Nat /\ MaxGate \in Nat /\ Stall \in Nat /\ Window \in Nat
  /\ MaxUnits \in Nat /\ MaxFlushes \in Nat
  /\ Bytes = 0..MaxUnits
  /\ Faults \subseteq AllFaults

VARIABLES
  wk,       \* audio_worker: pc, timed waits, content of the period in hand
  woken,    \* the worker, asleep on g_audio_cv, has been signalled
  sink,     \* "open", or "closed" (pcm == NULL: the sink is silent)
  clk,      \* the audio clock globals, as ages (see InitClock)
  rd,       \* the reader: pc, next content unit, units delivered in all,
            \* last_anum >= 0
  flushes,  \* flushes, edge resets and reader restarts so far
  pw,       \* present_worker: pc, sleeps in the start gate
  mw,       \* the main thread's place in the shutdown
  g_first_video_ready, g_run_audio,
  heard,    \* history: content written to the device, [last, n]
  gone      \* history: units delivered by the reader and dropped since

audioVars == <<wk, woken, sink, clk, rd, flushes, pw, mw,
               g_first_video_ready, g_run_audio, heard, gone>>
vars == <<ringVars, audioVars>>

Units == 1..MaxUnits
g_run == mw = "run"

MaxAge == Stall + 1
Older(n) == AtMost(n + 1, MaxAge)

\* active: g_audio_active.  started: g_audio_start_wall_us # 0.
\* lag: wall time minus g_audio_pos_us (None while that is 0).
\* adv: age of g_audio_last_advance_wall.  All ages stop at MaxAge.
None == -1
InitClock == [active |-> FALSE, started |-> FALSE,
              lag |-> None, adv |-> MaxAge]

\* vmc_alsa_sink_init never fails: a device that cannot be opened, configured
\* or prepared leaves a silent sink.
vmc_alsa_sink_init ==
  sink \in IF "silent" \in Faults THEN {"open", "closed"} ELSE {"open"}

Init ==
  /\ vmc_ringbuf_init /\ data = [i \in 0..Capacity-1 |-> 0]
  /\ vmc_alsa_sink_init
  /\ wk = [pc |-> "prefill", waited |-> 0, pcm |-> <<>>]
  /\ woken = FALSE /\ clk = InitClock
  /\ rd = [pc |-> "run", next |-> 1, made |-> 0, some |-> FALSE] /\ flushes = 0
  /\ pw = [pc |-> "gate", waits |-> 0] /\ mw = "run"
  /\ g_first_video_ready = FALSE /\ g_run_audio = TRUE
  /\ heard = [last |-> 0, n |-> 0] /\ gone = 0

-----------------------------------------------------------------------------
(* The reader thread                                                       *)

\* pthread_cond_signal(&g_audio_cv): the worker is the only waiter.
Signal == woken' = (woken \/ wk.pc = "asleep")

WriteUnsignalled(s) ==
  /\ vmc_ringbuf_write(s)
  /\ gone' = gone + Len(s) - ret'
  /\ UNCHANGED woken

\* What does not fit is dropped (and reported as a telemetry overflow).
audio_fifo_write_raw(s) ==
  /\ vmc_ringbuf_write(s)
  /\ gone' = gone + Len(s) - ret'
  /\ Signal

\* One decoded frame of n units reaches the FIFO.
dash_audio_write_frame(n) ==
  /\ g_run /\ rd.pc = "run"
  /\ rd.made + n <= MaxUnits
  /\ audio_fifo_write_raw([i \in 1..n |-> rd.next + i - 1])
  /\ rd' = [rd EXCEPT !.next = rd.next + n, !.made = rd.made + n,
                      !.some = TRUE]
  /\ UNCHANGED <<wk, sink, clk, flushes, pw, mw, g_first_video_ready,
                 g_run_audio, heard>>

FlushFifo ==
  /\ vmc_ringbuf_reset
  /\ gone' = gone + count
  /\ Signal

\* The audio fell behind the server's window after something was delivered.
FellBehind ==
  /\ g_run /\ rd.pc = "run" /\ rd.some /\ flushes < MaxFlushes
  /\ FlushFifo
  /\ flushes' = flushes + 1
  /\ UNCHANGED <<wk, sink, clk, rd, pw, mw, g_first_video_ready,
                 g_run_audio, heard>>

\* The live edge was reset: flush under the lock, then, outside it, zero the
\* audio clock so that the worker starts it anew.
LiveEdgeReset ==
  /\ g_run /\ rd.pc = "run" /\ flushes < MaxFlushes
  /\ FlushFifo
  /\ flushes' = flushes + 1
  /\ rd' = [rd EXCEPT !.pc = "zero"]
  /\ UNCHANGED <<wk, sink, clk, pw, mw, g_first_video_ready, g_run_audio, heard>>

ZeroAudioClock ==
  /\ rd.pc = "zero"
  /\ clk' = [clk EXCEPT !.started = FALSE]
  /\ rd' = [rd EXCEPT !.pc = "run", !.some = FALSE]
  /\ UNCHANGED <<ringVars, wk, woken, sink, flushes, pw, mw,
                 g_first_video_ready, g_run_audio, heard, gone>>

\* The watchdog cancels and re-creates the reader: the new one delivers from
\* the oldest segment of its window, which the old one may have delivered.
RestartReader ==
  /\ "restart" \in Faults
  /\ g_run /\ rd.pc = "run" /\ flushes < MaxFlushes
  /\ flushes' = flushes + 1
  /\ rd' = [rd EXCEPT !.next = IF @ > Window THEN @ - Window ELSE 1,
                      !.some = FALSE]
  /\ UNCHANGED <<ringVars, wk, woken, sink, clk, pw, mw,
                 g_first_video_ready, g_run_audio, heard, gone>>

\* The decode worker hands over its first frame.
FirstVideoReady ==
  /\ g_run /\ ~g_first_video_ready
  /\ g_first_video_ready' = TRUE
  /\ UNCHANGED <<ringVars, wk, woken, sink, clk, rd, flushes, pw, mw,
                 g_run_audio, heard, gone>>

-----------------------------------------------------------------------------
(* audio_worker and the sink                                               *)

WkGoto(pc) == wk' = [wk EXCEPT !.pc = pc]
wkRest == <<rd, flushes, pw, mw, g_first_video_ready, g_run_audio>>

PrefillCheck ==
  /\ wk.pc = "prefill"
  /\ WkGoto(IF g_run_audio /\ count < Prefill THEN "asleep" ELSE "loop")
  /\ woken' = FALSE
  /\ UNCHANGED <<ringVars, sink, clk, heard, gone, wkRest>>

PrefillWake ==
  /\ wk.pc = "asleep" /\ woken
  /\ WkGoto("prefill")
  /\ UNCHANGED <<ringVars, woken, sink, clk, heard, gone, wkRest>>

\* vmc_alsa_sink_playing
vmc_alsa_sink_playing == sink = "open"

\* The top of the loop: leave, idle (silent sink), hold audio back until the
\* first picture exists, or go on to take a period.
LoopTop ==
  /\ wk.pc = "loop"
  /\ \/ ~g_run_audio /\ WkGoto("exit")
     \/ /\ g_run_audio /\ vmc_alsa_sink_playing
        /\ clk.started \/ g_first_video_ready
        /\ wk' = [wk EXCEPT !.pc = "take", !.waited = 0]
  /\ UNCHANGED <<ringVars, woken, sink, clk, heard, gone, wkRest>>

\* pthread_cond_timedwait: back after a signal or 5 ms, counted either way.
TimedWait ==
  /\ wk.pc = "take" /\ count < Period /\ g_run_audio /\ wk.waited < MaxWaits
  /\ wk' = [wk EXCEPT !.waited = wk.waited + 1]
  /\ UNCHANGED <<ringVars, woken, sink, clk, heard, gone, wkRest>>

PadDropsPartial ==
  /\ wk.pc = "take"
  /\ count >= Period \/ ~g_run_audio \/ wk.waited = MaxWaits
  /\ \/ /\ count > 0
        /\ vmc_ringbuf_read(AtMost(count, Period))
        /\ wk' = [wk EXCEPT !.pc = "render",
                           !.pcm = IF count < Period THEN <<>> ELSE out']
     \/ /\ count = 0
        /\ wk' = [wk EXCEPT !.pc = "render", !.pcm = <<>>]
        /\ UNCHANGED ringVars
  /\ UNCHANGED <<woken, sink, clk, heard, gone, wkRest>>

SilenceNotCleared ==
  /\ wk.pc = "take"
  /\ count >= Period \/ ~g_run_audio \/ wk.waited = MaxWaits
  /\ \/ /\ count > 0
        /\ vmc_ringbuf_read(AtMost(count, Period))
        /\ wk' = [wk EXCEPT !.pc = "render", !.pcm = out']
     \/ /\ count = 0
        /\ wk' = [wk EXCEPT !.pc = "render", !.pcm = out]
        /\ UNCHANGED ringVars
  /\ UNCHANGED <<woken, sink, clk, heard, gone, wkRest>>

\* A full period, or what there is padded with silence, or silence.
TakePeriod ==
  /\ wk.pc = "take"
  /\ count >= Period \/ ~g_run_audio \/ wk.waited = MaxWaits
  /\ \/ /\ count > 0
        /\ vmc_ringbuf_read(AtMost(count, Period))
        /\ wk' = [wk EXCEPT !.pc = "render", !.pcm = out']
     \/ /\ count = 0
        /\ wk' = [wk EXCEPT !.pc = "render", !.pcm = <<>>]
        /\ UNCHANGED ringVars
  /\ UNCHANGED <<woken, sink, clk, heard, gone, wkRest>>

\* frames_played, and the content it ends with
Played(s) == IF s = <<>> THEN heard
             ELSE [last |-> s[Len(s)], n |-> heard.n + Len(s)]

\* snd_pcm_writei takes the period; or fails and snd_pcm_recover succeeds, and
\* the period is lost; or that fails too and the sink goes silent.
alsa_play ==
  \/ /\ heard' = Played(wk.pcm)
     /\ UNCHANGED <<sink, gone>>
  \/ /\ "xrun" \in Faults
     /\ gone' = gone + Len(wk.pcm)
     /\ UNCHANGED <<sink, heard>>
  \/ /\ "fatal" \in Faults
     /\ sink' = "closed"
     /\ gone' = gone + Len(wk.pcm)
     /\ UNCHANGED heard

\* vmc_audio_pipeline_render
Render ==
  /\ wk.pc = "render"
  /\ alsa_play
  /\ WkGoto("clock")
  /\ UNCHANGED <<ringVars, woken, clk, wkRest>>

\* The audio-master clock after a period.  The position an open sink reports
\* is the wall time.  A sink lost during this period leaves an estimate: the
\* start time plus this period's length (bytes are counted in this branch
\* only).  The age of the start is not kept: it is anything.
ClockAfter ==
  IF vmc_alsa_sink_playing
    THEN {[clk EXCEPT !.active = TRUE, !.lag = 0, !.adv = 0]}
  ELSE IF wk.pcm # <<>>
    THEN {[clk EXCEPT !.active = TRUE, !.adv = 0, !.lag = age] :
            age \in IF clk.started THEN 0..MaxAge ELSE {clk.lag}}
  ELSE {clk}

\* Publish the clock; the first period after it was zeroed starts it.
PublishClock ==
  /\ wk.pc = "clock"
  /\ \E c \in ClockAfter : clk' = [c EXCEPT !.started = c.started \/ c.active]
  /\ wk' = [wk EXCEPT !.pc = "loop", !.pcm = <<>>]
  /\ UNCHANGED <<ringVars, woken, sink, heard, gone, wkRest>>

-----------------------------------------------------------------------------
(* The present worker, the main thread and time                            *)

pwRest == <<ringVars, wk, woken, sink, clk, rd, flushes, mw,
            g_first_video_ready, g_run_audio, heard, gone>>

\* One 3 ms sleep of the wait for audio to start.
GateSleep ==
  /\ pw.pc = "gate" /\ g_run /\ ~clk.started /\ pw.waits < MaxGate
  /\ pw' = [pw EXCEPT !.waits = pw.waits + 1]
  /\ UNCHANGED pwRest

GateNeedsAudio ==
  /\ pw.pc = "gate" /\ g_run
  /\ clk.started
  /\ pw' = [pw EXCEPT !.pc = "present"]
  /\ UNCHANGED pwRest

\* Past the gate: pop a frame, pace it and present it.
GateOpen ==
  /\ pw.pc = "gate" /\ g_run
  /\ clk.started \/ pw.waits = MaxGate
  /\ pw' = [pw EXCEPT !.pc = "present"]
  /\ UNCHANGED pwRest

PresentLeave ==
  /\ pw.pc # "exit" /\ ~g_run
  /\ pw' = [pw EXCEPT !.pc = "exit"]
  /\ UNCHANGED pwRest

\* The frame is out; `waits` is local to an iteration.
Presented ==
  /\ pw.pc = "present" /\ g_run
  /\ pw' = [pc |-> "gate", waits |-> 0]
  /\ UNCHANGED pwRest

mwRest == <<ringVars, wk, sink, clk, flushes, pw, g_first_video_ready,
            heard, gone>>

\* SIGTERM, a key or the end of the content.
StopRequest ==
  /\ mw = "run"
  /\ mw' = "cancel"
  /\ UNCHANGED <<rd, woken, g_run_audio, mwRest>>

\* pthread_cancel and join of the reader: it is at its I/O.
CancelReader ==
  /\ mw = "cancel" /\ rd.pc = "run"
  /\ rd' = [rd EXCEPT !.pc = "gone"]
  /\ mw' = "joinpresent"
  /\ UNCHANGED <<woken, g_run_audio, mwRest>>

\* Both video workers are joined before audio is told to stop.
JoinPresent ==
  /\ mw = "joinpresent" /\ pw.pc = "exit"
  /\ g_run_audio' = FALSE
  /\ mw' = "wake"
  /\ UNCHANGED <<rd, woken, mwRest>>

SkipBroadcast ==
  /\ mw = "wake"
  /\ mw' = "join"
  /\ UNCHANGED <<rd, woken, g_run_audio, mwRest>>

WakeAudio ==
  /\ mw = "wake"
  /\ Signal
  /\ mw' = "join"
  /\ UNCHANGED <<rd, g_run_audio, mwRest>>

\* pthread_join, then vmc_alsa_sink_close.
JoinAudio ==
  /\ mw = "join" /\ wk.pc = "exit"
  /\ sink' = "closed"
  /\ mw' = "done"
  /\ UNCHANGED <<ringVars, wk, woken, clk, rd, flushes, pw,
                 g_first_video_ready, g_run_audio, heard, gone>>

Tick ==
  /\ mw # "done"
  /\ clk' = [clk EXCEPT !.lag = IF @ = None THEN @ ELSE Older(@),
                        !.adv = Older(@)]
  /\ UNCHANGED <<ringVars, wk, woken, sink, rd, flushes, pw, mw,
                 g_first_video_ready, g_run_audio, heard, gone>>

Worker == PrefillCheck \/ PrefillWake \/ LoopTop \/ TimedWait \/ TakePeriod
          \/ Render \/ PublishClock
Presenter == GateSleep \/ GateOpen \/ Presented \/ PresentLeave
MainStop == CancelReader \/ JoinPresent \/ WakeAudio \/ JoinAudio
Reader == (\E n \in 1..MaxLen : dash_audio_write_frame(n))
          \/ FellBehind \/ LiveEdgeReset \/ RestartReader

\* The client has exited.
Terminated == mw = "done" /\ UNCHANGED vars

Next == Reader \/ ZeroAudioClock \/ FirstVideoReady \/ Worker \/ Presenter
        \/ StopRequest \/ MainStop \/ Tick \/ Terminated

Spec == Init /\ [][Next]_vars

\* The threads are scheduled and time passes.  Nothing is assumed of the
\* network, of the decoder or of the user.
FairSpec == Spec /\ WF_vars(Worker) /\ WF_vars(Presenter) /\ WF_vars(MainStop)
                 /\ WF_vars(ZeroAudioClock) /\ WF_vars(Tick)

-----------------------------------------------------------------------------
TypeOK ==
  /\ RingTypeOK
  /\ wk \in [pc : {"prefill", "asleep", "loop", "take", "render", "clock",
                   "exit"},
             waited : 0..MaxWaits, pcm : Seq(Units)]
  /\ Len(wk.pcm) <= Period
  /\ woken \in BOOLEAN /\ sink \in {"open", "closed"}
  /\ clk \in [active : BOOLEAN, started : BOOLEAN, lag : None..MaxAge,
              adv : 0..MaxAge]
  /\ rd \in [pc : {"run", "zero", "gone"}, next : 1..MaxUnits + 1,
             made : 0..MaxUnits, some : BOOLEAN]
  /\ flushes \in 0..MaxFlushes
  /\ pw \in [pc : {"gate", "present", "exit"}, waits : 0..MaxGate]
  /\ mw \in {"run", "cancel", "joinpresent", "wake", "join", "done"}
  /\ g_first_video_ready \in BOOLEAN /\ g_run_audio \in BOOLEAN
  /\ heard \in [last : 0..MaxUnits, n : Nat] /\ gone \in Nat

\* What dash_pres_clock returns, as its distance behind the wall clock.
dash_pres_clock_nostall ==
  IF clk.active /\ clk.lag # None THEN clk.lag ELSE 0
dash_pres_clock ==
  IF clk.active /\ clk.lag # None /\ clk.adv <= Stall THEN clk.lag ELSE 0

\* Between the ring's wrap, overflow, flushes, partial periods, xruns and a
\* dying sink, every unit the reader delivered is accounted for exactly once:
\* heard, dropped, still in the FIFO, or in the worker's hand.
InHand == IF wk.pc = "render" THEN Len(wk.pcm) ELSE 0
AudioAccounted == rd.made = heard.n + gone + count + InHand

\* As long as the reader has not been restarted, what is heard is in content
\* order and nothing is heard twice, through flushes, resets and starvation.
InContentOrder == /\ wk.pcm[1] > heard.last
                  /\ \A i, j \in DOMAIN wk.pcm : i < j => wk.pcm[i] < wk.pcm[j]
HeardInOrder ==
  [][heard'.n > heard.n /\ rd.made = rd.next - 1 => InContentOrder]_vars

\* Whenever the feed pauses, what is in the FIFO is played out: the worker is
\* not left asleep on data, and a rest shorter than a period is not held back.
\* Excused: a stop, a silent sink, no picture yet, less than the prefill.
Excused == ~g_run \/ ~vmc_alsa_sink_playing \/ ~(g_first_video_ready \/ clk.started)
           \/ (wk.pc = "asleep" /\ count < Prefill)
FifoDrains == []<>(count = 0 \/ Excused)

\* A stop request ends the audio worker wherever it is (asleep in the prefill
\* wait, waiting for a period, idle on a silent sink) and closes the sink.
AudioStops == (mw = "cancel") ~> (mw = "done")

\* "a dead audio feed can never freeze video" (main.c:589-590): whatever
\* happens to the sink, the presentation clock returns to within Stall of the
\* wall clock.
ClockRecovers == []<>(dash_pres_clock <= Stall \/ ~g_run)

\* "never gate video permanently on audio" (main.c:734-737): with or without
\* sound, the present worker keeps getting past its start gate.
VideoNotGated == []<>(pw.pc = "present" \/ ~g_run)

\* "Never fetch a segment older than one already delivered - inserting old PCM
\* after newer would replay audio out of order" (main.c:2994-2995).  (Refuted:
\* a reader the watchdog restarts has forgotten what was delivered.)
NeverReplayed == [][heard'.n > heard.n => InContentOrder]_vars

\* The stronger reading of "never gate video permanently on audio": the wait
\* for audio happens once, after which a silent sink no longer delays frames.  (Refuted: `waits` is
\* local to the iteration, so each frame waits again.)
GateOnce == [][Presented /\ pw.waits = MaxGate => pw'.waits = MaxGate]_vars

\* The presentation clock never runs backwards except as time passes in a
\* stall.  (Refuted: the fallback estimate after a fatal ALSA error counts
\* bytes only from then on, so the clock leaps back to the start of playback.)
ClockNeverBack == [][dash_pres_clock' > dash_pres_clock => Tick]_vars

\* Playback starts on content, so that the anchor set from it is the time the
\* first content is heard.  (Refuted: after a live-edge reset the clock starts
\* on the silence that pads the flushed FIFO.)
StartOnContent ==
  [][~clk.started /\ clk'.started => wk.pcm # <<>>]_vars
=============================================================================
