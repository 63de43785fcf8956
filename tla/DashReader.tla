----------------------------- MODULE DashReader -----------------------------
(***************************************************************************)
(* The low-latency DASH reader thread (dash_reader_direct of               *)
(* apps/thinclient/main.c) against the live server (tools/vmc-dash-sim):   *)
(* which segments are asked for, which are delivered, when the timeline is *)
(* re-anchored and when the reader decides that the content is over.       *)
(*                                                                         *)
(* Time is counted in segments.  Segment n of a server session spans       *)
(* [avail + n - 1, avail + n) and is complete at avail + n.  A fetch takes *)
(* any time, so the server may move between any two reader steps.  The     *)
(* end-of-loop sleeps only pace the loop and are left out.  What is done   *)
(* with the frames of a segment is DashTimeline and VideoPipeline.         *)
(***************************************************************************)
EXTENDS Integers

CONSTANTS ClipLen,      \* segments of one encoder session (bound)
          Window,       \* segments the manifest advertises (-window_size)
          Extra,        \* older ones still on disk (-extra_window_size)
          BufTarget,    \* VMC_VIDEO_TARGET_US = VMC_AUDIO_TARGET_US
          BufMax,       \* VMC_VIDEO_MAX_US = VMC_AUDIO_MAX_US
          MaxRestarts,  \* encoder crashes or stalls (bound)
          MaxLives,     \* threads the main loop's watchdog starts (bound)
          Stall,        \* silence after which it does, 20 s in the code
          MaxClock,     \* last instant at which the encoder may be down
          Faults        \* of "fetch" and "mpd": requests that fail

ASSUME ReaderAssumption ==
  /\ ClipLen \in Nat \ {0} /\ Window \in Nat \ {0} /\ Extra \in Nat
  /\ BufTarget \in Nat /\ BufMax \in Nat /\ BufTarget <= BufMax
  /\ MaxRestarts \in Nat /\ MaxClock \in Nat
  /\ MaxLives \in Nat \ {0} /\ Stall \in Nat \ {0}

VARIABLES clock,
          srv,      \* server: [st, sess, avail, last]
          m,        \* the manifest in use: [avail, start, total]
          rd,       \* reader: [pc, edge, target, hi, n]
          last_vnum, last_anum,
          buf,      \* live buffer in segments, the same for audio and video
          anchor,   \* g_anchor_seg, 0 when g_anchor_wall_us is 0
          vseg,     \* last video segment this thread delivered: [sess, n]
          aseg,     \* last audio segment, none after a reset has flushed the
                    \* audio FIFO
          wd        \* main loop: [life, quiet], which thread runs and for how
                    \* long g_dash_pkts has not moved

vars == <<clock, srv, m, rd, last_vnum, last_anum, buf, anchor, vseg, aseg, wd>>
srvVars == <<clock, srv>>
seen == <<vseg, aseg>>

MaxOf(a, b) == IF a >= b THEN a ELSE b
MinOf(a, b) == IF a <= b THEN a ELSE b

NoSeg == [sess |-> 0, n |-> 0]

NoManifest == [avail |-> 0, start |-> 1, total |-> 0]

\* The reader at a place where its loop variables are dead.
At(pc) == [pc |-> pc, edge |-> 0, target |-> 0, hi |-> 0, n |-> 0]

Init ==
  /\ clock = 0
  /\ srv = [st |-> "live", sess |-> 1, avail |-> 0, last |-> 0]
  /\ m = NoManifest
  /\ rd = At("open")
  /\ last_vnum = -1 /\ last_anum = -1
  /\ buf = BufTarget
  /\ anchor = 0
  /\ vseg = NoSeg /\ aseg = NoSeg
  /\ wd = [life |-> 1, quiet |-> 0]

-----------------------------------------------------------------------------
(* The server. *)

\* The encoder completes a segment per unit of time until the clip ends.
\* Once it has, only the watchdog of the main loop still counts time.
Tick ==
  /\ \/ /\ srv.st = "live" /\ srv.last < ClipLen
        /\ srv' = [srv EXCEPT !.last = clock + 1 - srv.avail]
        /\ clock' = clock + 1
     \/ /\ srv.st \in {"down", "ended"} /\ clock < MaxClock
        /\ clock' = clock + 1 /\ UNCHANGED srv
     \/ srv.st = "static" /\ wd.quiet < Stall /\ UNCHANGED srvVars
  /\ wd' = [wd EXCEPT !.quiet = MinOf(@ + 1, Stall)]
  /\ UNCHANGED <<m, rd, last_vnum, last_anum, buf, anchor, seen>>

\* The encoder reaches the end of its input, or crashes or stalls.
EncoderStops ==
  /\ srv.st = "live"
  /\ \/ srv.last = ClipLen /\ srv' = [srv EXCEPT !.st = "ended"]
     \/ srv.sess <= MaxRestarts /\ srv' = [srv EXCEPT !.st = "down"]
  /\ UNCHANGED <<clock, m, rd, last_vnum, last_anum, buf, anchor, seen, wd>>

\* The watchdog: a clean end under --play-once leaves a static manifest,
\* anything else respawns the encoder, which numbers its segments from 1.
Watchdog ==
  /\ \/ srv.st = "ended" /\ srv' = [srv EXCEPT !.st = "static"]
     \/ /\ srv.st = "down"
        /\ srv' = [st |-> "live", sess |-> srv.sess + 1, avail |-> clock, last |-> 0]
  /\ UNCHANGED <<clock, m, rd, last_vnum, last_anum, buf, anchor, seen, wd>>

\* The manifest on disk.  A static one has no availabilityStartTime and gives
\* the duration instead.
Manifest ==
  [avail |-> IF srv.st = "static" THEN 0 ELSE srv.avail,
   start |-> MaxOf(1, srv.last - Window + 1),
   total |-> IF srv.st = "static" THEN srv.last ELSE 0]

OnDisk(n) == n \in MaxOf(1, srv.last - Window - Extra + 1)..srv.last

\* conn_handler holds the request for a missing segment for 15 s.  That is
\* longer than the segment being written needs to complete; it expires for
\* one that will not be written soon.
HoldExpires(n) == ~OnDisk(n) /\ ~(srv.st = "live" /\ n = srv.last + 1)

FetchFails(n) == HoldExpires(n) \/ "fetch" \in Faults

-----------------------------------------------------------------------------
(* The reader. *)

\* Manifest and init segments loaded: a fresh session.
OpenSession ==
  /\ rd.pc = "open" /\ srv.last >= 1
  /\ m' = Manifest
  /\ rd' = At("load")
  /\ last_vnum' = -1 /\ last_anum' = -1
  /\ buf' = BufTarget
  /\ anchor' = 0
  /\ UNCHANGED <<srvVars, seen, wd>>

\* Newest complete segment according to a manifest.
LiveEdge(mf) ==
  IF mf.total > 0 THEN mf.total ELSE MaxOf(mf.start, clock - mf.avail)

WindowBottom(mf) == MaxOf(mf.start, LiveEdge(mf) - 1 - buf)

\* Where audio continues, and the high-water mark after the window guard.
AudioFrom(mf, edge) ==
  LET at == IF last_anum < 0 THEN WindowBottom(mf) ELSE last_anum + 1
  IN  IF at < mf.start THEN <<MinOf(mf.start, edge), mf.start - 1>>
                       ELSE <<MinOf(at, edge), last_anum>>

\* Top of the loop: reload the manifest (or keep the stale one), compute the
\* window, and place the audio cursor.
LoadManifest ==
  /\ rd.pc = "load"
  /\ m' \in {Manifest} \cup (IF "mpd" \in Faults THEN {m} ELSE {})
  /\ LET edge == LiveEdge(m')
         from == AudioFrom(m', edge)
     IN  /\ rd' = [pc |-> "audio", edge |-> edge, target |-> WindowBottom(m'),
                   hi |-> IF m'.total > 0 THEN m'.total ELSE edge + 1,
                   n |-> from[1]]
         /\ last_anum' = from[2]
  /\ UNCHANGED <<srvVars, last_vnum, buf, anchor, seen, wd>>

WantsAudio == rd.n <= rd.edge /\ rd.n > last_anum

FetchAudio ==
  /\ rd.pc = "audio" /\ WantsAudio
  /\ OnDisk(rd.n)
  /\ last_anum' = rd.n
  /\ aseg' = [sess |-> srv.sess, n |-> rd.n]
  /\ rd' = [rd EXCEPT !.n = rd.n + 1]
  /\ UNCHANGED <<srvVars, m, last_vnum, buf, anchor, vseg, wd>>

EagerReset == last_vnum >= 0 /\ rd.hi <= last_vnum

\* Server restart: the edge is behind what was already fetched.
EdgeReset == last_vnum >= 0 /\ rd.hi < last_vnum

NoVideoGuard ==
  IF EdgeReset \/ last_vnum < 0 THEN <<rd.target, -1>>
  ELSE <<last_vnum + 1, last_vnum>>

\* Where video continues and the high-water mark, after the window guard and
\* the restart check.
VideoFrom ==
  IF EdgeReset \/ last_vnum < 0 THEN <<rd.target, -1>>
  ELSE LET n == MaxOf(last_vnum + 1, m.start) IN <<n, n - 1>>

\* Audio is done, caught up or failed: the guards before the video loop.  A
\* restart drops both high-water marks, the anchor and the audio FIFO.
StartVideo ==
  /\ rd.pc = "audio"
  /\ ~WantsAudio \/ FetchFails(rd.n)
  /\ rd' = [rd EXCEPT !.pc = "video", !.n = VideoFrom[1]]
  /\ last_vnum' = VideoFrom[2]
  /\ IF EdgeReset
       THEN last_anum' = -1 /\ anchor' = 0 /\ aseg' = NoSeg
       ELSE UNCHANGED <<last_anum, anchor, aseg>>
  /\ UNCHANGED <<srvVars, m, buf, vseg, wd>>

WantsVideo == rd.n <= rd.hi

\* dash_resync(vn, ..., "jump") when there is no anchor or the number is not
\* the successor of the last one.
AnchorFor(n) ==
  IF anchor = 0 \/ (last_vnum >= 0 /\ n # last_vnum + 1) THEN n ELSE anchor

\* dash_update_live_buffer: what the fetch latencies can make of the buffer.
\* With equal targets and maxima the audio and the video rule agree.
LiveBuffer == BufTarget..BufMax

FetchVideo ==
  /\ rd.pc = "video" /\ WantsVideo
  /\ OnDisk(rd.n)
  /\ buf' \in LiveBuffer
  /\ anchor' = AnchorFor(rd.n)
  /\ last_vnum' = rd.n
  /\ vseg' = [sess |-> srv.sess, n |-> rd.n]
  /\ rd' = [rd EXCEPT !.n = rd.n + 1]
  /\ wd' = [wd EXCEPT !.quiet = 0]
  /\ UNCHANGED <<srvVars, m, last_anum, aseg>>

ContentOver == m.total > 0 /\ last_vnum >= m.total - 1

GiveUpSegment ==
  /\ rd.pc = "video"
  /\ ~WantsVideo \/ FetchFails(rd.n)
  /\ rd' = At(IF ContentOver THEN "eos" ELSE "load")
  /\ last_vnum' = IF WantsVideo THEN rd.n ELSE last_vnum
  /\ UNCHANGED <<srvVars, m, last_anum, buf, anchor, seen, wd>>

\* Video is done, caught up or failed: the end-of-content check.
EndLoop ==
  /\ rd.pc = "video"
  /\ ~WantsVideo \/ FetchFails(rd.n)
  /\ rd' = At(IF ContentOver THEN "eos" ELSE "load")
  /\ UNCHANGED <<srvVars, m, last_vnum, last_anum, buf, anchor, seen, wd>>

\* The main loop cancels a reader that has delivered no video for too long
\* and starts another, which knows nothing of what the first one delivered.
\* (The resync that follows is in DashTimeline: the new thread's OpenSession
\* drops the anchor it sets.)
RestartReader ==
  /\ wd.quiet = Stall /\ wd.life < MaxLives
  /\ rd.pc # "eos"
  /\ wd' = [life |-> wd.life + 1, quiet |-> 0]
  /\ rd' = At("open") /\ m' = NoManifest
  /\ last_vnum' = -1 /\ last_anum' = -1
  /\ vseg' = NoSeg /\ aseg' = NoSeg
  /\ UNCHANGED <<srvVars, buf, anchor>>

Next ==
  \/ Tick \/ EncoderStops \/ Watchdog
  \/ OpenSession \/ LoadManifest
  \/ FetchAudio \/ StartVideo
  \/ FetchVideo \/ EndLoop
  \/ RestartReader

Spec == Init /\ [][Next]_vars

\* The reader and the encoder are threads and processes that keep running;
\* that a fetch ends, one way or the other, is http_get's timeout.  Requests
\* that the server can answer do not fail for ever.
FairSpec ==
  /\ Spec
  /\ SF_vars(LoadManifest /\ m' = Manifest) /\ SF_vars(FetchVideo)
  /\ WF_vars(Tick) /\ WF_vars(EncoderStops) /\ WF_vars(Watchdog)
  /\ WF_vars(OpenSession \/ LoadManifest)
  /\ WF_vars(FetchAudio \/ StartVideo)
  /\ WF_vars(FetchVideo \/ EndLoop)

-----------------------------------------------------------------------------
Segs == 0..ClipLen+1

ReaderPcs == {"open", "load", "audio", "video", "eos"}

\* Types.
TypeOK ==
  /\ clock \in Nat /\ buf \in Nat
  /\ srv \in [st : {"live", "down", "ended", "static"}, sess : Nat, avail : Nat,
              last : Nat]
  /\ m \in [avail : Nat, start : Nat, total : Nat]
  /\ rd \in [pc : ReaderPcs, edge : Nat, target : Nat, hi : Nat, n : Nat]
  /\ last_vnum \in Nat \cup {-1} /\ last_anum \in Nat \cup {-1}
  /\ vseg \in [sess : Nat, n : Nat] /\ aseg \in [sess : Nat, n : Nat]

Follows(s, t) == s.sess > t.sess \/ (s.sess = t.sess /\ s.n > t.n)

\* "Never fetch a segment older than one already delivered": for video and
\* audio, across window rolls, failed requests, stale manifests and encoder
\* restarts that reuse the numbers, no segment is delivered twice by one
\* reader thread and none is delivered after a newer one of its session.
DeliveredInOrder ==
  [][ /\ vseg' \notin {vseg, NoSeg} => Follows(vseg', vseg)
      /\ aseg' \notin {aseg, NoSeg} => Follows(aseg', aseg) ]_vars

Skipped(new, old) == {k \in Segs : old.n < k /\ k < new.n}

\* Within a session nothing is skipped that the manifest in use still lists:
\* a failed request is retried, and a gap in the numbers is only ever the
\* part that rolled out of the server's window.
OnlyRolledSkipped ==
  [][ /\ vseg'.sess = vseg.sess => \A k \in Skipped(vseg', vseg) : k < m.start
      /\ aseg'.sess = aseg.sess => \A k \in Skipped(aseg', aseg) : k < m.start ]_vars

\* "Drain and end the run cleanly instead of sitting in a retry loop against
\* the (deleted) rolling window": once the clip is over the reader reaches
\* the end of content, however far behind the window it was and whatever
\* thread is reading, and stays there: a reader that has ended is not taken
\* for a stalled one.
EndReached == (srv.st = "static") ~> [](rd.pc = "eos")

-----------------------------------------------------------------------------
(* What comments say, where the code does otherwise.                       *)

\* "the static MPD says the clip is over and we have fetched the final
\* segment": the end is declared one segment early when the last request
\* failed, because segments are numbered from 1.
EndComplete == rd.pc = "eos" => last_vnum = m.total

\* "Jump to the current window start; the discontinuity re-anchors the
\* timeline (resync "jump")": the guard also moves last_vnum, so the number
\* fetched next is its successor and nothing is re-anchored.
JumpReanchors ==
  [][ vseg.sess # 0 /\ vseg'.sess = vseg.sess /\ Skipped(vseg', vseg) # {}
      => anchor' = vseg'.n ]_vars

\* README: "should the watchdog ever restart a crashed/stalled encoder, the
\* client detects the timeline reset": not when the new edge has come back to
\* the old high-water mark by the next manifest.
RestartDetected ==
  [][ vseg.sess # 0 /\ vseg'.sess > vseg.sess => anchor' = vseg'.n ]_vars
=============================================================================
