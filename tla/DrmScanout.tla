----------------------------- MODULE DrmScanout -----------------------------
(***************************************************************************)
(* src/video/drm_scanout.c: the pool of scanout buffers, and the kernel it *)
(* talks to.  The decode worker calls next_idx; the present worker calls   *)
(* present and drain and runs the flip handler.  No lock protects the      *)
(* bookkeeping they share, so the three stores of the handler that         *)
(* next_idx reads are steps of their own, in program order (the client     *)
(* runs on x86-64, whose stores become visible in order).  next_idx itself *)
(* takes effect at its last load: a buffer it has seen idle stays so.      *)
(***************************************************************************)
EXTENDS Integers, Sequences

CONSTANTS NBufs,       \* nbufs given to vmc_drm_scanout_init (8 in the client)
          FlipHistory  \* VMC_DRM_FLIP_HISTORY

ASSUME ScanoutAssumption ==
  /\ NBufs \in Nat \ {0}
  /\ FlipHistory \in Nat /\ FlipHistory > 2

Bufs  == 0..NBufs-1
NoBuf == -1

VARIABLES busy, on_screen, flip_pending, flip_history, last_completed,
          cursor,      \* s->next, the round-robin cursor
          flips_done,
          handler,     \* flip_handler in progress: [at, rec]
          unhandled,   \* events read by drmHandleEvent, handler not yet run
          kscan,       \* kernel: the buffer the CRTC scans out
          kflip,       \* kernel: the flip waiting for the vblank, or NoBuf
          kevents      \* kernel: flip-complete events queued on the fd

scanoutVars == <<busy, on_screen, flip_pending, flip_history, last_completed,
                 cursor, flips_done, handler, unhandled,
                 kscan, kflip, kevents>>

\* The handler's next store to state shared with the decode worker.
HandlerStores == {"busy", "on_screen", "flip_pending"}
NoHandler == [at |-> "idle", rec |-> NoBuf]

ScanoutTypeOK ==
  /\ busy \in [Bufs -> BOOLEAN]
  /\ on_screen \in Bufs
  /\ flip_pending \in Bufs \cup {NoBuf}
  /\ flip_history \in Seq(Bufs)
  /\ last_completed \in Bufs \cup {NoBuf}
  /\ cursor \in 0..NBufs
  /\ flips_done \in Nat
  /\ handler \in [at : HandlerStores \cup {"idle"},
                  rec : Bufs \cup {NoBuf}]
  /\ unhandled \in Nat
  /\ kscan \in Bufs
  /\ kflip \in Bufs \cup {NoBuf}
  /\ kevents \in Nat

\* memset, SetCrtc on buffer 0.  last_completed keeps the memset's 0, and
\* buffer 0 is on screen without being marked busy.
vmc_drm_scanout_init ==
  /\ busy = [b \in Bufs |-> FALSE]
  /\ on_screen = 0
  /\ flip_pending = NoBuf
  /\ flip_history = <<>>
  /\ last_completed = 0
  /\ cursor = 1
  /\ flips_done = 0
  /\ handler = NoHandler
  /\ unhandled = 0
  /\ kscan = 0 /\ kflip = NoBuf /\ kevents = 0

-----------------------------------------------------------------------------
(* vmc_drm_scanout_next_idx: the first free buffer from the cursor on.     *)
TakeableIgnoringScreen(b) == ~busy[b] /\ b # flip_pending
Takeable(b) == ~busy[b] /\ b # on_screen /\ b # flip_pending

FromCursor(b) == (b - cursor) % NBufs

NextIdxUnmarked(b) ==
  /\ Takeable(b)
  /\ \A c \in Bufs : Takeable(c) => FromCursor(b) <= FromCursor(c)
  /\ cursor' = (b + 1) % NBufs
  /\ UNCHANGED <<busy, on_screen, flip_pending, flip_history, last_completed,
                 flips_done, handler, unhandled, kscan, kflip, kevents>>

next_idx(b) ==
  /\ Takeable(b)
  /\ \A c \in Bufs : Takeable(c) => FromCursor(b) <= FromCursor(c)
  /\ busy' = [busy EXCEPT ![b] = TRUE]
  /\ cursor' = (b + 1) % NBufs
  /\ UNCHANGED <<on_screen, flip_pending, flip_history, last_completed,
                 flips_done, handler, unhandled, kscan, kflip, kevents>>

AllBusy == \A b \in Bufs : ~Takeable(b)

-----------------------------------------------------------------------------
(* drmModePageFlip as vmc_drm_scanout_present uses it: accepted only when  *)
(* no flip waits for the vblank (EBUSY otherwise).                         *)
FlipAccepted == kflip = NoBuf

ReplaceHistory(b) == <<b>>

PushHistory(b) ==
  Append(IF Len(flip_history) = FlipHistory - 1
           THEN Tail(flip_history) ELSE flip_history, b)

SubmitFlip(b) ==
  /\ FlipAccepted
  /\ kflip' = b
  /\ busy' = [busy EXCEPT ![b] = TRUE]
  /\ flip_pending' = b
  /\ flip_history' = PushHistory(b)
  /\ UNCHANGED <<on_screen, last_completed, cursor, flips_done, handler,
                 unhandled, kscan, kevents>>

\* The vblank: the pending flip becomes the scanned-out buffer.
Vblank ==
  /\ kflip # NoBuf
  /\ kscan' = kflip
  /\ kflip' = NoBuf
  /\ kevents' = kevents + 1
  /\ UNCHANGED <<busy, on_screen, flip_pending, flip_history, last_completed,
                 cursor, flips_done, handler, unhandled>>

-----------------------------------------------------------------------------
(* drain_events: drmHandleEvent reads every queued event and runs          *)
(* flip_handler once per event.                                            *)
ReadEvents ==
  /\ kevents > 0
  /\ unhandled' = unhandled + kevents
  /\ kevents' = 0
  /\ UNCHANGED <<busy, on_screen, flip_pending, flip_history, last_completed,
                 cursor, flips_done, handler, kscan, kflip>>

HandlerIdle == handler.at = "idle"
Drained == unhandled = 0 /\ HandlerIdle

\* flip_handler, up to its first shared store.  An event without a record
\* falls back on flip_pending; without either it is only counted.
flip_handler ==
  LET rec == IF flip_history # <<>> THEN Head(flip_history) ELSE flip_pending
  IN  /\ unhandled > 0 /\ HandlerIdle
      /\ unhandled' = unhandled - 1
      /\ flips_done' = flips_done + 1
      /\ flip_history' = IF flip_history # <<>> THEN Tail(flip_history)
                         ELSE flip_history
      /\ last_completed' = IF rec = NoBuf THEN last_completed ELSE rec
      /\ handler' = IF rec = NoBuf THEN NoHandler
                    ELSE [at |-> "busy", rec |-> rec]
      /\ UNCHANGED <<busy, on_screen, flip_pending, cursor,
                     kscan, kflip, kevents>>

\* The old buffer's busy flag is cleared, then on_screen and flip_pending
\* are set.
FreeSubmitted ==
  /\ handler.at = "busy"
  /\ busy' = [busy EXCEPT ![handler.rec] = FALSE]
  /\ handler' = [handler EXCEPT !.at = "on_screen"]
  /\ UNCHANGED <<on_screen, flip_pending, flip_history, last_completed,
                 cursor, flips_done, unhandled, kscan, kflip, kevents>>

KeepOldBusy ==
  /\ handler.at = "busy"
  /\ handler' = [handler EXCEPT !.at = "on_screen"]
  /\ UNCHANGED <<busy, on_screen, flip_pending, flip_history, last_completed,
                 cursor, flips_done, unhandled, kscan, kflip, kevents>>

StoreBusy ==
  /\ handler.at = "busy"
  /\ busy' = [busy EXCEPT ![on_screen] = FALSE]
  /\ handler' = [handler EXCEPT !.at = "on_screen"]
  /\ UNCHANGED <<on_screen, flip_pending, flip_history, last_completed,
                 cursor, flips_done, unhandled, kscan, kflip, kevents>>

StoreOnScreen ==
  /\ handler.at = "on_screen"
  /\ on_screen' = handler.rec
  /\ handler' = [handler EXCEPT !.at = "flip_pending"]
  /\ UNCHANGED <<busy, flip_pending, flip_history, last_completed,
                 cursor, flips_done, unhandled, kscan, kflip, kevents>>

StoreFlipPending ==
  /\ handler.at = "flip_pending"
  /\ flip_pending' = NoBuf
  /\ handler' = NoHandler
  /\ UNCHANGED <<busy, on_screen, flip_history, last_completed,
                 cursor, flips_done, unhandled, kscan, kflip, kevents>>

HandlerStep == flip_handler \/ StoreBusy \/ StoreOnScreen \/ StoreFlipPending

\* The present worker consumes the report of the last completed flip.
ClearCompleted ==
  /\ last_completed' = NoBuf
  /\ UNCHANGED <<busy, on_screen, flip_pending, flip_history, cursor,
                 flips_done, handler, unhandled, kscan, kflip, kevents>>
=============================================================================
