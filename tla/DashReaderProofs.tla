-------------------------- MODULE DashReaderProofs --------------------------
(***************************************************************************)
(* Proofs about DashReader, for any clip length, window, live buffer,      *)
(* number of encoder restarts and of reader threads: what one reader       *)
(* thread delivers is in order, and it skips only what left the window.    *)
(***************************************************************************)
EXTENDS DashReader, TLAPS

\* The encoder is never ahead of the clock, sessions begin in order, and a
\* manifest is one the server has had: a static one is the last.
Served ==
  /\ srv.sess >= 1 /\ srv.avail + srv.last <= clock
  /\ srv.st = "live" => srv.avail + srv.last = clock
  /\ srv.st \in {"ended", "static"} => srv.last >= 1
  /\ m.start >= 1
  /\ m.total = 0 => m.avail <= srv.avail
  /\ m.total > 0 => srv.st = "static" /\ m.total = srv.last /\ m.start <= m.total

\* Where the high-water mark of a stream stands against the last segment
\* delivered, when that is of the session the server is in: at it, or, after
\* the window guard, just below the window of the manifest in use.  An older
\* manifest is no further than the server's or the segment.
Track(seg, last) ==
  /\ seg.sess <= srv.sess
  /\ seg.sess = srv.sess =>
       /\ 1 <= seg.n /\ seg.n <= last /\ last <= srv.last /\ m.start <= srv.last
       /\ last = seg.n \/ last + 1 <= m.start
       /\ m.start <= seg.n \/ m.start <= Manifest.start

\* The cursor of the loops against the marks.
Cursor ==
  /\ rd.pc = "open" => vseg = NoSeg /\ aseg = NoSeg
  /\ rd.pc \in {"audio", "video"} => rd.n >= m.start
  /\ rd.pc = "audio" => rd.target >= m.start
  /\ rd.pc = "audio" /\ aseg.sess = srv.sess => rd.n <= last_anum + 1 \/ rd.n <= m.start
  /\ rd.pc = "audio" /\ vseg.sess = srv.sess => rd.hi >= last_vnum
  /\ rd.pc = "video" /\ vseg.sess = srv.sess => rd.n = last_vnum + 1

Inv == TypeOK /\ Served /\ Track(vseg, last_vnum) /\ Track(aseg, last_anum) /\ Cursor

-----------------------------------------------------------------------------
LEMMA InvInit == Init => Inv
<1> SUFFICES ASSUME Init PROVE Inv
  OBVIOUS
<1>1. TypeOK
  BY ReaderAssumption DEF Init, TypeOK, NoManifest, At, NoSeg, ReaderPcs
<1>2. Served /\ Track(vseg, last_vnum) /\ Track(aseg, last_anum)
  BY DEF Init, Served, Track, NoManifest, NoSeg
<1>3. Cursor
  BY DEF Init, Cursor, At
<1> QED
  BY <1>1, <1>2, <1>3 DEF Inv

\* The first segment that the server lists.
LEMMA ManifestStart ==
  ASSUME TypeOK
  PROVE  /\ Manifest.start \in Nat /\ Manifest.start >= 1
         /\ srv.last >= 1 => Manifest.start <= srv.last
         /\ Manifest \in [avail : Nat, start : Nat, total : Nat]
         /\ Manifest.total = IF srv.st = "static" THEN srv.last ELSE 0
         /\ Manifest.avail = IF srv.st = "static" THEN 0 ELSE srv.avail
<1> DEFINE s == MaxOf(1, srv.last - Window + 1)
<1>1. srv.last \in Nat /\ srv.avail \in Nat /\ Window \in Nat /\ Window >= 1
  BY ReaderAssumption DEF TypeOK
<1>2. s \in Nat /\ s >= 1 /\ (srv.last >= 1 => s <= srv.last)
  BY <1>1 DEF MaxOf
<1>3. Manifest.start = s
  BY DEF Manifest
<1> HIDE DEF s
<1>4. Manifest \in [avail : Nat, start : Nat, total : Nat]
  BY <1>1, <1>2 DEF Manifest, s
<1> QED
  BY <1>2, <1>3, <1>4 DEF Manifest

\* The steps of the server leave the reader's state alone.
LEMMA ServerNext == Inv /\ (Tick \/ EncoderStops \/ Watchdog) => Inv'
<1> SUFFICES ASSUME Inv, Tick \/ EncoderStops \/ Watchdog PROVE Inv'
  OBVIOUS
<1>0. UNCHANGED <<m, rd, last_vnum, last_anum, buf, vseg, aseg>>
  BY DEF Tick, EncoderStops, Watchdog, seen
<1>1. /\ srv = [st |-> srv.st, sess |-> srv.sess, avail |-> srv.avail,
                last |-> srv.last]
      /\ srv.sess \in Nat /\ srv.avail \in Nat /\ srv.last \in Nat /\ clock \in Nat
      /\ m.start \in Nat /\ m.avail \in Nat /\ m.total \in Nat
      /\ vseg.sess \in Nat /\ aseg.sess \in Nat
      /\ ClipLen \in Nat /\ ClipLen >= 1
  BY ReaderAssumption DEF Inv, TypeOK
<1>2. TypeOK' /\ Served'
  <2>1. CASE Tick
    <3>1. \/ /\ srv.st = "live" /\ clock' = clock + 1
             /\ srv' = [st |-> "live", sess |-> srv.sess, avail |-> srv.avail,
                        last |-> clock + 1 - srv.avail]
          \/ /\ srv.st # "live" /\ clock' = clock + 1 /\ srv' = srv
          \/ UNCHANGED <<clock, srv>>
      BY <1>1, <2>1 DEF Tick, srvVars
    <3> QED
      BY <1>0, <1>1, <3>1 DEF Inv, TypeOK, Served
  <2>2. CASE EncoderStops
    <3>1. /\ clock' = clock /\ srv.st = "live"
          /\ \/ srv' = [st |-> "ended", sess |-> srv.sess, avail |-> srv.avail,
                        last |-> srv.last] /\ srv.last = ClipLen
             \/ srv' = [st |-> "down", sess |-> srv.sess, avail |-> srv.avail,
                        last |-> srv.last]
      BY <1>1, <2>2 DEF EncoderStops
    <3> QED
      BY <1>0, <1>1, <3>1 DEF Inv, TypeOK, Served
  <2>3. CASE Watchdog
    <3>1. /\ clock' = clock
          /\ \/ srv' = [st |-> "static", sess |-> srv.sess, avail |-> srv.avail,
                        last |-> srv.last] /\ srv.st = "ended"
             \/ srv' = [st |-> "live", sess |-> srv.sess + 1, avail |-> clock,
                        last |-> 0] /\ srv.st = "down"
      BY <1>1, <2>3 DEF Watchdog
    <3> QED
      BY <1>0, <1>1, <3>1 DEF Inv, TypeOK, Served
  <2> QED
    BY <2>1, <2>2, <2>3
<1>3. \/ srv'.sess > srv.sess
      \/ srv'.sess = srv.sess /\ srv'.last >= srv.last
  <2>1. CASE Tick
    BY <1>1, <2>1 DEF Tick, srvVars, Inv, Served
  <2>2. CASE EncoderStops \/ Watchdog
    BY <1>1, <2>2 DEF EncoderStops, Watchdog
  <2> QED
    BY <2>1, <2>2
<1>4. srv'.sess \in Nat /\ srv'.last \in Nat
  BY <1>2 DEF TypeOK
<1>5. srv'.last >= srv.last => Manifest'.start >= Manifest.start
  <2>1. Window \in Nat
    BY ReaderAssumption
  <2>2. /\ Manifest.start = MaxOf(1, srv.last - Window + 1)
        /\ Manifest'.start = MaxOf(1, srv'.last - Window + 1)
    BY DEF Manifest
  <2> QED
    BY <1>1, <1>4, <2>1, <2>2 DEF MaxOf
<1>6. Manifest.start \in Nat /\ Manifest'.start \in Nat
  <2>1. /\ Manifest.start = MaxOf(1, srv.last - Window + 1)
        /\ Manifest'.start = MaxOf(1, srv'.last - Window + 1)
    BY DEF Manifest
  <2> QED
    BY <1>1, <1>4, <2>1, ReaderAssumption DEF MaxOf
<1>7. ASSUME NEW seg \in [sess : Nat, n : Nat], NEW last \in Nat \cup {-1},
             seg.sess <= srv.sess,
             seg.sess = srv.sess =>
               /\ 1 <= seg.n /\ seg.n <= last /\ last <= srv.last /\ m.start <= srv.last
               /\ last = seg.n \/ last + 1 <= m.start
               /\ m.start <= seg.n \/ m.start <= Manifest.start
      PROVE  /\ seg.sess <= srv'.sess
             /\ seg.sess = srv'.sess =>
                  /\ 1 <= seg.n /\ seg.n <= last /\ last <= srv'.last
                  /\ m.start <= srv'.last
                  /\ last = seg.n \/ last + 1 <= m.start
                  /\ m.start <= seg.n \/ m.start <= Manifest'.start
  <2>1. seg.sess \in Nat /\ seg.n \in Nat
    OBVIOUS
  <2> QED
    BY <1>1, <1>3, <1>4, <1>5, <1>6, <1>7, <2>1
<1>8. Track(vseg, last_vnum)' /\ Track(aseg, last_anum)'
  BY <1>0, <1>7 DEF Inv, TypeOK, Track
<1>9. \A k \in Nat : k <= srv.sess /\ k = srv'.sess => k = srv.sess
  BY <1>1, <1>3, <1>4
<1>10. Cursor'
  BY <1>0, <1>1, <1>9 DEF Inv, Cursor, Track
<1> QED
  BY <1>2, <1>8, <1>10 DEF Inv

-----------------------------------------------------------------------------
(* The reader. *)

\* What is known of the parts of the state, for the solver.
LEMMA Parts ==
  ASSUME Inv
  PROVE  /\ srv.sess \in Nat /\ srv.avail \in Nat /\ srv.last \in Nat /\ clock \in Nat
         /\ m.start \in Nat /\ m.avail \in Nat /\ m.total \in Nat /\ buf \in Nat
         /\ rd.n \in Nat /\ rd.hi \in Nat /\ rd.edge \in Nat /\ rd.target \in Nat
         /\ vseg.sess \in Nat /\ vseg.n \in Nat /\ aseg.sess \in Nat /\ aseg.n \in Nat
         /\ last_vnum \in Int /\ last_anum \in Int
         /\ last_vnum >= -1 /\ last_anum >= -1
         /\ Manifest.start \in Nat /\ Manifest.start >= 1
         /\ rd = [pc |-> rd.pc, edge |-> rd.edge, target |-> rd.target,
                  hi |-> rd.hi, n |-> rd.n]
<1>1. TypeOK
  BY DEF Inv
<1>2. Manifest.start \in Nat /\ Manifest.start >= 1
  BY <1>1, ManifestStart
<1> QED
  BY <1>1, <1>2 DEF TypeOK

\* The manifest in use after a reload, or after a reload that failed.
LEMMA Reloaded ==
  ASSUME Inv, srvVars' = srvVars, m' = Manifest \/ m' = m
  PROVE  /\ m' \in [avail : Nat, start : Nat, total : Nat]
         /\ Served'
         /\ srv.last >= 1 /\ m.start <= srv.last => m'.start <= srv.last
         /\ m' = m \/ m'.start = Manifest.start
<1>1. TypeOK /\ Served
  BY DEF Inv
<1>2. UNCHANGED <<clock, srv>>
  BY DEF srvVars
<1>3. CASE m' = m
  BY <1>1, <1>2, <1>3 DEF TypeOK, Served
<1>4. CASE m' = Manifest
  <2>1. /\ m'.start \in Nat /\ m'.start >= 1 /\ (srv.last >= 1 => m'.start <= srv.last)
        /\ m' \in [avail : Nat, start : Nat, total : Nat]
        /\ m'.total = IF srv.st = "static" THEN srv.last ELSE 0
        /\ m'.avail = IF srv.st = "static" THEN 0 ELSE srv.avail
    BY <1>1, <1>4, ManifestStart
  <2>2. srv.last \in Nat /\ srv.avail \in Nat
    BY <1>1 DEF TypeOK
  <2>3. Served'
    BY <1>1, <1>2, <2>1, <2>2 DEF Served
  <2> QED
    BY <1>4, <2>1, <2>3
<1> QED
  BY <1>3, <1>4

LEMMA OpenNext == Inv /\ OpenSession => Inv'
<1> SUFFICES ASSUME Inv, OpenSession PROVE Inv'
  OBVIOUS
<1>1. /\ srvVars' = srvVars /\ m' = Manifest /\ UNCHANGED <<clock, srv, vseg, aseg>>
      /\ last_vnum' = -1 /\ last_anum' = -1 /\ buf' = BufTarget /\ rd' = At("load")
      /\ vseg = NoSeg /\ aseg = NoSeg
  BY DEF OpenSession, srvVars, seen, Inv, Cursor
<1>2. m' \in [avail : Nat, start : Nat, total : Nat] /\ Served'
  BY <1>1, Reloaded
<1>3. TypeOK'
  BY <1>1, <1>2, ReaderAssumption DEF Inv, TypeOK, At, ReaderPcs
<1>4. Track(vseg, last_vnum)' /\ Track(aseg, last_anum)'
  BY <1>1, <1>2 DEF Track, NoSeg, Inv, Served, TypeOK
<1>5. Cursor'
  BY <1>1 DEF Cursor, At
<1> QED
  BY <1>2, <1>3, <1>4, <1>5 DEF Inv

LEMMA RestartNext == Inv /\ RestartReader => Inv'
<1> SUFFICES ASSUME Inv, RestartReader PROVE Inv'
  OBVIOUS
<1>1. /\ UNCHANGED <<clock, srv, buf>> /\ m' = [avail |-> 0, start |-> 1, total |-> 0]
      /\ last_vnum' = -1 /\ last_anum' = -1 /\ rd' = At("open")
      /\ vseg' = NoSeg /\ aseg' = NoSeg
  BY DEF RestartReader, srvVars, NoManifest
<1>2. TypeOK' /\ Served'
  BY <1>1 DEF Inv, TypeOK, Served, At, ReaderPcs, NoSeg
<1>3. Track(vseg, last_vnum)' /\ Track(aseg, last_anum)'
  BY <1>1 DEF Track, NoSeg, Inv, Served, TypeOK
<1>4. Cursor'
  BY <1>1 DEF Cursor, At
<1> QED
  BY <1>2, <1>3, <1>4 DEF Inv

LEMMA EndNext == Inv /\ EndLoop => Inv'
<1> SUFFICES ASSUME Inv, EndLoop PROVE Inv'
  OBVIOUS
<1>1. /\ UNCHANGED <<clock, srv, m, last_vnum, last_anum, buf, vseg, aseg>>
      /\ rd' = At("eos") \/ rd' = At("load")
  BY DEF EndLoop, srvVars, seen
<1>2. TypeOK' /\ Cursor'
  BY <1>1 DEF Inv, TypeOK, Cursor, At, ReaderPcs
<1>3. Served' /\ Track(vseg, last_vnum)' /\ Track(aseg, last_anum)'
  BY <1>1 DEF Inv, Served, Track, Manifest
<1> QED
  BY <1>2, <1>3 DEF Inv

LEMMA FetchAudioNext == Inv /\ FetchAudio => Inv'
<1> SUFFICES ASSUME Inv, FetchAudio PROVE Inv'
  OBVIOUS
<1>0. /\ srv.sess \in Nat /\ srv.last \in Nat /\ m.start \in Nat /\ rd.n \in Nat
      /\ Manifest.start \in Nat /\ last_anum \in Int
      /\ rd = [pc |-> rd.pc, edge |-> rd.edge, target |-> rd.target,
               hi |-> rd.hi, n |-> rd.n]
  BY Parts
<1>1. /\ UNCHANGED <<clock, srv, m, last_vnum, buf, vseg>>
      /\ rd.pc = "audio" /\ rd.n >= m.start
      /\ last_anum' = rd.n /\ aseg' = [sess |-> srv.sess, n |-> rd.n]
      /\ rd' = [pc |-> rd.pc, edge |-> rd.edge, target |-> rd.target,
                hi |-> rd.hi, n |-> rd.n + 1]
  BY <1>0 DEF FetchAudio, srvVars, Inv, Cursor
<1>2. 1 <= rd.n /\ rd.n <= srv.last
  BY <1>0, ReaderAssumption DEF FetchAudio, OnDisk, MaxOf
<1>3. TypeOK' /\ Served'
  BY <1>0, <1>1 DEF Inv, TypeOK, Served
<1>4. Track(vseg, last_vnum)'
  BY <1>1 DEF Inv, Track, Manifest
<1>5. Manifest'.start = Manifest.start
  BY <1>1 DEF Manifest
<1>6. Track(aseg, last_anum)'
  BY <1>0, <1>1, <1>2, <1>5 DEF Track
<1>7. Cursor'
  BY <1>0, <1>1 DEF Inv, Cursor
<1> QED
  BY <1>3, <1>4, <1>6, <1>7 DEF Inv

LEMMA FetchVideoNext == Inv /\ FetchVideo => Inv'
<1> SUFFICES ASSUME Inv, FetchVideo PROVE Inv'
  OBVIOUS
<1>0. /\ srv.sess \in Nat /\ srv.last \in Nat /\ m.start \in Nat /\ rd.n \in Nat
      /\ Manifest.start \in Nat /\ last_vnum \in Int
      /\ rd = [pc |-> rd.pc, edge |-> rd.edge, target |-> rd.target,
               hi |-> rd.hi, n |-> rd.n]
  BY Parts
<1>1. /\ UNCHANGED <<clock, srv, m, last_anum, aseg>>
      /\ rd.pc = "video" /\ rd.n >= m.start /\ buf' \in BufTarget..BufMax
      /\ last_vnum' = rd.n /\ vseg' = [sess |-> srv.sess, n |-> rd.n]
      /\ rd' = [pc |-> rd.pc, edge |-> rd.edge, target |-> rd.target,
                hi |-> rd.hi, n |-> rd.n + 1]
  BY <1>0 DEF FetchVideo, srvVars, LiveBuffer, Inv, Cursor
<1>2. 1 <= rd.n /\ rd.n <= srv.last /\ buf' \in Nat
  BY <1>0, <1>1, ReaderAssumption DEF FetchVideo, OnDisk, MaxOf
<1>3. TypeOK' /\ Served'
  BY <1>0, <1>1, <1>2 DEF Inv, TypeOK, Served
<1>4. Track(aseg, last_anum)'
  BY <1>1 DEF Inv, Track, Manifest
<1>5. Manifest'.start = Manifest.start
  BY <1>1 DEF Manifest
<1>6. Track(vseg, last_vnum)'
  BY <1>0, <1>1, <1>2, <1>5 DEF Track
<1>7. Cursor'
  BY <1>0, <1>1 DEF Inv, Cursor
<1> QED
  BY <1>3, <1>4, <1>6, <1>7 DEF Inv

\* Where a reload places the cursors.
LEMMA Placement ==
  ASSUME Inv, NEW mf \in [avail : Nat, start : Nat, total : Nat],
         mf.total > 0 => mf.start <= mf.total
  PROVE  LET edge == LiveEdge(mf)
             from == AudioFrom(mf, edge)
         IN  /\ edge \in Nat /\ edge >= mf.start
             /\ mf.total = 0 => edge >= clock - mf.avail
             /\ WindowBottom(mf) \in Nat /\ WindowBottom(mf) >= mf.start
             /\ from[1] \in Nat /\ from[1] >= mf.start
             /\ from[2] \in Int /\ from[2] >= last_anum
             /\ from[2] = last_anum \/ from[2] = mf.start - 1
             /\ last_anum >= 0 => from[1] <= from[2] + 1
<1> DEFINE edge == LiveEdge(mf)
           bot == WindowBottom(mf)
           at == IF last_anum < 0 THEN bot ELSE last_anum + 1
<1>0. /\ mf.avail \in Nat /\ mf.start \in Nat /\ mf.total \in Nat /\ clock \in Nat
      /\ last_anum \in Int /\ last_anum >= -1 /\ buf \in Nat
  BY Parts
<1>1. edge \in Nat /\ edge >= mf.start /\ (mf.total = 0 => edge >= clock - mf.avail)
  BY <1>0 DEF LiveEdge, MaxOf
<1>2. bot \in Nat /\ bot >= mf.start
  <2>1. bot = MaxOf(mf.start, edge - 1 - buf)
    BY DEF WindowBottom
  <2> HIDE DEF edge, bot
  <2> QED
    BY <1>0, <1>1, <2>1 DEF MaxOf
<1> HIDE DEF edge, bot
<1>3. at \in Nat /\ (last_anum < 0 => at >= mf.start)
  BY <1>0, <1>2
<1>4. AudioFrom(mf, edge) = IF at < mf.start
                              THEN <<MinOf(mf.start, edge), mf.start - 1>>
                              ELSE <<MinOf(at, edge), last_anum>>
  BY DEF AudioFrom, bot
<1>5. CASE at < mf.start
  <2>1. AudioFrom(mf, edge)[1] = mf.start /\ AudioFrom(mf, edge)[2] = mf.start - 1
    BY <1>0, <1>1, <1>4, <1>5 DEF MinOf
  <2>2. last_anum >= 0 /\ last_anum + 1 < mf.start
    BY <1>0, <1>3, <1>5
  <2>3. mf.start - 1 >= last_anum /\ mf.start <= mf.start - 1 + 1 /\ mf.start - 1 \in Int
    BY <1>0, <2>2
  <2> QED
    BY <1>0, <1>1, <1>2, <2>1, <2>3 DEF edge, bot
<1>6. CASE ~(at < mf.start)
  <2>1. AudioFrom(mf, edge)[1] = MinOf(at, edge) /\ AudioFrom(mf, edge)[2] = last_anum
    BY <1>4, <1>6
  <2>2. /\ MinOf(at, edge) \in Nat /\ MinOf(at, edge) >= mf.start
        /\ MinOf(at, edge) <= at
    <3> HIDE DEF at
    <3> QED
      BY <1>0, <1>1, <1>3, <1>6 DEF MinOf
  <2>3. last_anum >= 0 => MinOf(at, edge) <= last_anum + 1
    BY <1>0, <2>2
  <2> HIDE DEF at
  <2> QED
    BY <1>0, <1>1, <1>2, <2>1, <2>2, <2>3 DEF edge, bot
<1> QED
  BY <1>5, <1>6

LEMMA LoadNext == Inv /\ LoadManifest => Inv'
<1> SUFFICES ASSUME Inv, LoadManifest PROVE Inv'
  OBVIOUS
<1> DEFINE edge == LiveEdge(m')
           bot == WindowBottom(m')
           from == AudioFrom(m', edge)
<1>1. /\ UNCHANGED <<clock, srv, last_vnum, buf, vseg, aseg>> /\ srvVars' = srvVars
      /\ m' = Manifest \/ m' = m
  BY DEF LoadManifest, srvVars, seen
<1>2. /\ rd' = [pc |-> "audio", edge |-> edge, target |-> bot,
                hi |-> IF m'.total > 0 THEN m'.total ELSE edge + 1, n |-> from[1]]
      /\ last_anum' = from[2]
  BY DEF LoadManifest
<1>3. /\ m' \in [avail : Nat, start : Nat, total : Nat] /\ Served'
      /\ srv.last >= 1 /\ m.start <= srv.last => m'.start <= srv.last
      /\ m' = m \/ m'.start = Manifest.start
  BY <1>1, Reloaded
<1>4. /\ edge \in Nat /\ edge >= m'.start
      /\ m'.total = 0 => edge >= clock - m'.avail
      /\ bot \in Nat /\ bot >= m'.start
      /\ from[1] \in Nat /\ from[1] >= m'.start
      /\ from[2] \in Int /\ from[2] >= last_anum
      /\ from[2] = last_anum \/ from[2] = m'.start - 1
      /\ last_anum >= 0 => from[1] <= from[2] + 1
  BY <1>3, Placement DEF Served
<1>5. /\ srv.sess \in Nat /\ srv.last \in Nat /\ m.start \in Nat /\ clock \in Nat
      /\ srv.avail \in Nat
      /\ Manifest.start \in Nat /\ last_anum \in Int /\ last_vnum \in Int
      /\ last_anum >= -1
      /\ vseg.n \in Nat /\ aseg.n \in Nat /\ vseg.sess \in Nat /\ aseg.sess \in Nat
      /\ m'.start \in Nat /\ m'.total \in Nat /\ m'.avail \in Nat
  BY <1>3, Parts
<1> HIDE DEF edge, bot, from
<1>6. TypeOK'
  <2>1. from[2] \in Nat \cup {-1}
    BY <1>4, <1>5
  <2>2. rd' \in [pc : ReaderPcs, edge : Nat, target : Nat, hi : Nat, n : Nat]
    BY <1>2, <1>4, <1>5 DEF ReaderPcs
  <2> QED
    BY <1>1, <1>2, <1>3, <2>1, <2>2 DEF Inv, TypeOK
<1>7. Manifest'.start = Manifest.start
  BY <1>1 DEF Manifest
<1>8. Track(vseg, last_vnum)'
  BY <1>1, <1>3, <1>5, <1>7 DEF Inv, Track
<1>9. Track(aseg, last_anum)'
  BY <1>1, <1>2, <1>3, <1>4, <1>5, <1>7 DEF Inv, Track
<1>10. Cursor'
  <2>1. aseg.sess = srv.sess => from[1] <= from[2] + 1
    BY <1>4, <1>5 DEF Inv, Track
  <2>2. vseg.sess = srv.sess => rd'.hi >= last_vnum
    <3>1. CASE m'.total > 0
      BY <1>1, <1>2, <1>3, <1>5, <3>1 DEF Inv, Track, Served
    <3>2. CASE m'.total = 0
      <4>1. srv.avail + srv.last <= clock /\ m'.avail <= srv.avail
        BY <1>1, <1>3, <3>2 DEF Inv, Served
      <4>2. rd'.hi = edge + 1
        BY <1>2, <3>2
      <4> QED
        BY <1>4, <1>5, <3>2, <4>1, <4>2 DEF Inv, Track
    <3> QED
      BY <1>5, <3>1, <3>2
  <2>3. /\ rd'.pc = "audio" /\ rd'.n = from[1] /\ rd'.target = bot
    BY <1>2
  <2> QED
    BY <1>1, <1>2, <1>4, <2>1, <2>2, <2>3 DEF Cursor
<1> QED
  BY <1>3, <1>6, <1>8, <1>9, <1>10 DEF Inv

LEMMA StartVideoNext == Inv /\ StartVideo => Inv'
<1> SUFFICES ASSUME Inv, StartVideo PROVE Inv'
  OBVIOUS
<1>0. /\ srv.sess \in Nat /\ srv.last \in Nat /\ m.start \in Nat /\ rd.n \in Nat
      /\ rd.target \in Nat /\ rd.hi \in Nat
      /\ Manifest.start \in Nat /\ last_vnum \in Int /\ last_vnum >= -1
      /\ vseg.sess \in Nat /\ vseg.n \in Nat
      /\ rd = [pc |-> rd.pc, edge |-> rd.edge, target |-> rd.target,
               hi |-> rd.hi, n |-> rd.n]
  BY Parts
<1>1. /\ UNCHANGED <<clock, srv, m, buf, vseg>> /\ rd.pc = "audio"
      /\ rd' = [pc |-> "video", edge |-> rd.edge, target |-> rd.target,
                hi |-> rd.hi, n |-> VideoFrom[1]]
      /\ last_vnum' = VideoFrom[2]
      /\ \/ last_anum' = -1 /\ aseg' = NoSeg
         \/ UNCHANGED <<last_anum, aseg>>
  BY <1>0 DEF StartVideo, srvVars
<1>2. m.start >= 1 /\ srv.sess >= 1
  BY DEF Inv, Served
<1>3. Manifest'.start = Manifest.start
  BY <1>1 DEF Manifest
<1>4. Served'
  BY <1>1 DEF Inv, Served
<1>5. Track(aseg, last_anum)'
  <2>1. CASE last_anum' = -1 /\ aseg' = NoSeg
    BY <1>0, <1>1, <1>2, <2>1 DEF Track, NoSeg
  <2>2. CASE UNCHANGED <<last_anum, aseg>>
    BY <1>1, <1>3, <2>2 DEF Inv, Track
  <2> QED
    BY <1>1, <2>1, <2>2
<1>6. CASE EdgeReset \/ last_vnum < 0
  <2>1. VideoFrom[1] = rd.target /\ VideoFrom[2] = -1
    BY <1>6 DEF VideoFrom
  <2>2. vseg.sess # srv.sess
    BY <1>0, <1>1, <1>6 DEF EdgeReset, Inv, Cursor, Track
  <2>3. TypeOK'
    BY <1>0, <1>1, <2>1 DEF Inv, TypeOK, ReaderPcs, NoSeg
  <2>4. Track(vseg, last_vnum)'
    BY <1>1, <2>2 DEF Inv, Track
  <2>5. Cursor'
    BY <1>1, <2>1, <2>2 DEF Inv, Cursor
  <2> QED
    BY <1>4, <1>5, <2>3, <2>4, <2>5 DEF Inv
<1>7. CASE ~(EdgeReset \/ last_vnum < 0)
  <2> DEFINE n == MaxOf(last_vnum + 1, m.start)
  <2>1. VideoFrom[1] = n /\ VideoFrom[2] = n - 1
    BY <1>7 DEF VideoFrom
  <2>2. /\ n \in Nat /\ n >= m.start /\ n >= last_vnum + 1 /\ n - 1 \in Nat
        /\ n = last_vnum + 1 \/ n = m.start
    BY <1>0, <1>2, <1>7 DEF MaxOf
  <2> HIDE DEF n
  <2>3. TypeOK'
    BY <1>0, <1>1, <2>1, <2>2 DEF Inv, TypeOK, ReaderPcs, NoSeg
  <2>4. Track(vseg, last_vnum)'
    BY <1>0, <1>1, <1>3, <2>1, <2>2 DEF Inv, Track
  <2>5. Cursor'
    BY <1>0, <1>1, <2>1, <2>2 DEF Inv, Cursor
  <2> QED
    BY <1>4, <1>5, <2>3, <2>4, <2>5 DEF Inv
<1> QED
  BY <1>6, <1>7

LEMMA InvNext == Inv /\ [Next]_vars => Inv'
<1> SUFFICES ASSUME Inv, [Next]_vars PROVE Inv'
  OBVIOUS
<1>1. CASE UNCHANGED vars
  BY <1>1 DEF vars, Inv, TypeOK, Served, Track, Cursor, Manifest
<1>2. CASE Next
  BY <1>2, ServerNext, OpenNext, LoadNext, FetchAudioNext, StartVideoNext,
     FetchVideoNext, EndNext, RestartNext DEF Next
<1> QED
  BY <1>1, <1>2

\* The inductive invariant of the proofs below.
LEMMA AlwaysInv == Spec => []Inv
  BY InvInit, InvNext, PTL DEF Spec

-----------------------------------------------------------------------------
\* Every step of the server and of dash_reader_direct keeps the types: no
\* cursor drops below the first segment number.
THEOREM ReaderTyped == Spec => []TypeOK
<1>1. Inv => TypeOK
  BY DEF Inv
<1> QED
  BY <1>1, AlwaysInv, PTL

\* What a step does to the last segments delivered.
LEMMA Deliveries ==
  [Next]_vars =>
    /\ vseg' = vseg \/ vseg' = NoSeg \/ FetchVideo
    /\ aseg' = aseg \/ aseg' = NoSeg \/ FetchAudio
<1> SUFFICES ASSUME [Next]_vars
             PROVE  /\ vseg' = vseg \/ vseg' = NoSeg \/ FetchVideo
                    /\ aseg' = aseg \/ aseg' = NoSeg \/ FetchAudio
  OBVIOUS
<1> QED
  BY DEF Next, vars, seen, Tick, EncoderStops, Watchdog, OpenSession, LoadManifest,
     FetchAudio, StartVideo, FetchVideo, EndLoop, RestartReader

\* The next video segment is of a later session, or later in the session and
\* next after the last one or first of the window.
LEMMA VideoStep ==
  ASSUME Inv, FetchVideo
  PROVE  /\ vseg'.sess = srv.sess /\ vseg'.n = rd.n /\ vseg.sess <= srv.sess
         /\ vseg.sess = srv.sess => rd.n > vseg.n /\ (rd.n = vseg.n + 1 \/ rd.n <= m.start)
<1>0. /\ srv.sess \in Nat /\ m.start \in Nat /\ rd.n \in Nat /\ last_vnum \in Int
      /\ vseg.sess \in Nat /\ vseg.n \in Nat
  BY Parts
<1>1. vseg'.sess = srv.sess /\ vseg'.n = rd.n /\ rd.pc = "video"
  BY DEF FetchVideo
<1> QED
  BY <1>0, <1>1 DEF Inv, Track, Cursor

LEMMA AudioStep ==
  ASSUME Inv, FetchAudio
  PROVE  /\ aseg'.sess = srv.sess /\ aseg'.n = rd.n /\ aseg.sess <= srv.sess
         /\ aseg.sess = srv.sess => rd.n > aseg.n /\ (rd.n = aseg.n + 1 \/ rd.n <= m.start)
<1>0. /\ srv.sess \in Nat /\ m.start \in Nat /\ rd.n \in Nat /\ last_anum \in Int
      /\ aseg.sess \in Nat /\ aseg.n \in Nat
  BY Parts
<1>1. aseg'.sess = srv.sess /\ aseg'.n = rd.n /\ rd.pc = "audio" /\ rd.n > last_anum
  BY DEF FetchAudio, WantsAudio
<1> QED
  BY <1>0, <1>1 DEF Inv, Track, Cursor

\* For any clip length, window, number of encoder restarts and of reader
\* threads: one dash_reader_direct never delivers a segment twice, nor one older
\* than it has delivered before, whether its manifests are fresh or stale.
THEOREM InOrderPerThread == Spec => DeliveredInOrder
<1>1. Inv /\ [Next]_vars =>
        [ /\ vseg' \notin {vseg, NoSeg} => Follows(vseg', vseg)
          /\ aseg' \notin {aseg, NoSeg} => Follows(aseg', aseg) ]_vars
  <2> SUFFICES ASSUME Inv, [Next]_vars
               PROVE  /\ vseg' \notin {vseg, NoSeg} => Follows(vseg', vseg)
                      /\ aseg' \notin {aseg, NoSeg} => Follows(aseg', aseg)
    OBVIOUS
  <2>0. /\ srv.sess \in Nat /\ rd.n \in Nat /\ vseg.sess \in Nat /\ vseg.n \in Nat
        /\ aseg.sess \in Nat /\ aseg.n \in Nat
    BY Parts
  <2>1. FetchVideo => Follows(vseg', vseg)
    BY <2>0, VideoStep DEF Follows
  <2>2. FetchAudio => Follows(aseg', aseg)
    BY <2>0, AudioStep DEF Follows
  <2> QED
    BY <2>1, <2>2, Deliveries
<1> QED
  BY <1>1, AlwaysInv, PTL DEF Spec, DeliveredInOrder

\* And it passes over no segment of a session but those below the window of
\* the manifest it works from.
THEOREM SkipsOnlyRolled == Spec => OnlyRolledSkipped
<1>1. Inv /\ [Next]_vars =>
        [ /\ vseg'.sess = vseg.sess => \A k \in Skipped(vseg', vseg) : k < m.start
          /\ aseg'.sess = aseg.sess => \A k \in Skipped(aseg', aseg) : k < m.start ]_vars
  <2> SUFFICES ASSUME Inv, [Next]_vars
               PROVE  /\ \A k \in Skipped(vseg', vseg) :
                           vseg'.sess = vseg.sess => k < m.start
                      /\ \A k \in Skipped(aseg', aseg) :
                           aseg'.sess = aseg.sess => k < m.start
    OBVIOUS
  <2>0. /\ srv.sess \in Nat /\ rd.n \in Nat /\ vseg.sess \in Nat /\ vseg.n \in Nat
        /\ aseg.sess \in Nat /\ aseg.n \in Nat /\ m.start \in Nat /\ ClipLen \in Nat
    BY Parts, ReaderAssumption
  <2>1. /\ Skipped(vseg, vseg) = {} /\ Skipped(NoSeg, vseg) = {}
        /\ Skipped(aseg, aseg) = {} /\ Skipped(NoSeg, aseg) = {}
    BY <2>0 DEF Skipped, NoSeg, Segs
  <2>2. ASSUME FetchVideo, NEW k \in Skipped(vseg', vseg), vseg'.sess = vseg.sess
        PROVE  k < m.start
    <3>1. k \in Int /\ vseg.n < k /\ k < rd.n
      BY <2>0, <2>2, VideoStep DEF Skipped, Segs
    <3> QED
      BY <2>0, <2>2, <3>1, VideoStep
  <2>3. ASSUME FetchAudio, NEW k \in Skipped(aseg', aseg), aseg'.sess = aseg.sess
        PROVE  k < m.start
    <3>1. k \in Int /\ aseg.n < k /\ k < rd.n
      BY <2>0, <2>3, AudioStep DEF Skipped, Segs
    <3> QED
      BY <2>0, <2>3, <3>1, AudioStep
  <2> QED
    BY <2>1, <2>2, <2>3, Deliveries
<1> QED
  BY <1>1, AlwaysInv, PTL DEF Spec, OnlyRolledSkipped
=============================================================================
