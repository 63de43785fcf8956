----------------------------- MODULE Telemetry -----------------------------
(***************************************************************************)
(* src/core/telemetry.c: threads that call vmc_tlm_emit, the writer thread *)
(* that drains the ring of slots they fill, and the main thread's shutdown *)
(* of both.  Every access to a shared atomic is a step.  An event line is  *)
(* its seq; line also records the reservation (the value of g_head) it was *)
(* put in the ring with.  Threads may still be emitting when the ring is   *)
(* shut down: vmc-dash-sim detaches its connection handlers.               *)
(***************************************************************************)
EXTENDS Integers, FiniteSets

CONSTANTS Producers,  \* threads that emit
          RingSlots,  \* TLM_RING_SLOTS
          HeadMod,    \* g_head and g_tail are u32: modulo HeadMod
          MaxSeq      \* no event starts once g_seq is this far (a bound)

ASSUME TelemetryAssumption ==
  /\ RingSlots \in Nat \ {0} /\ HeadMod \in Nat \ {0} /\ MaxSeq \in Nat
  /\ HeadMod % RingSlots = 0
  /\ Producers # {}

VARIABLES g_slots,    \* [0..RingSlots-1 -> [state, line]]
          g_head, g_tail, g_seq, g_dropped,
          emit,       \* per producer: [pc, seq, h]
          writer,     \* [pc, head, dropped]
          main,       \* "run", then vmc_tlm_shutdown: "join", "reset", "down"
          written,    \* seqs of the lines written to the sinks
          lines,      \* how many lines were written
          reported,   \* sum of the tlm_overflow lines' dropped fields
          lost        \* seqs of the events that were dropped

ringVars == <<g_slots, g_head, g_tail>>
sinkVars == <<written, lines>>
vars == <<ringVars, g_seq, g_dropped, emit, writer, main, sinkVars,
          reported, lost>>

NoLine == [seq |-> 0, h |-> 0]
Empty  == [state |-> "EMPTY", line |-> NoLine]
Idle   == [pc |-> "idle", seq |-> 0, h |-> 0]
Top    == [pc |-> "top", head |-> 0, dropped |-> 0]
Slots  == 0..RingSlots-1

\* vmc_tlm_init, once a sink is open and the writer thread runs.
Init ==
  /\ g_slots = [i \in Slots |-> Empty]
  /\ g_head = 0 /\ g_tail = 0 /\ g_seq = 0 /\ g_dropped = 0
  /\ emit = [p \in Producers |-> Idle]
  /\ writer = Top
  /\ main = "run"
  /\ written = {} /\ lines = 0
  /\ reported = 0 /\ lost = {}

SlotOf(h) == h % RingSlots

g_enabled == main \in {"run", "join"}
g_stop    == main = "join"

-----------------------------------------------------------------------------
(* vmc_tlm_emit.                                                           *)

\* The enabled check, before the fields are formatted.
Enter(p) ==
  /\ emit[p].pc = "idle" /\ g_enabled /\ g_seq < MaxSeq
  /\ emit' = [emit EXCEPT ![p].pc = "seq"]
  /\ UNCHANGED <<ringVars, g_seq, g_dropped, writer, main, sinkVars, reported, lost>>

\* __atomic_fetch_add(&g_seq, 1).
TakeSeq(p) ==
  /\ emit[p].pc = "seq"
  /\ g_seq' = g_seq + 1
  /\ emit' = [emit EXCEPT ![p] = [pc |-> "reserve", seq |-> g_seq + 1, h |-> 0]]
  /\ UNCHANGED <<ringVars, g_dropped, writer, main, sinkVars, reported, lost>>

\* __atomic_fetch_add(&g_head, 1).
Reserve(p) ==
  /\ emit[p].pc = "reserve"
  /\ g_head' = (g_head + 1) % HeadMod
  /\ emit' = [emit EXCEPT ![p].pc = "load", ![p].h = g_head]
  /\ UNCHANGED <<g_slots, g_tail, g_seq, g_dropped, writer, main, sinkVars,
                 reported, lost>>

\* The event is counted as dropped and the emitter returns.
CountDrop(p) ==
  /\ g_dropped' = g_dropped + 1
  /\ lost' = lost \cup {emit[p].seq}
  /\ emit' = [emit EXCEPT ![p] = Idle]
  /\ UNCHANGED g_slots

\* Load the slot's state: drop the event unless it is EMPTY.
LoadState(p) ==
  /\ emit[p].pc = "load"
  /\ IF g_slots[SlotOf(emit[p].h)].state # "EMPTY"
       THEN CountDrop(p)
       ELSE /\ emit' = [emit EXCEPT ![p].pc = "claim"]
            /\ UNCHANGED <<g_slots, g_dropped, lost>>
  /\ UNCHANGED <<g_head, g_tail, g_seq, writer, main, sinkVars, reported>>

ClaimBlind(p) ==
  /\ emit[p].pc = "claim"
  /\ g_slots' = [g_slots EXCEPT ![SlotOf(emit[p].h)].state = "CLAIMED"]
  /\ emit' = [emit EXCEPT ![p].pc = "fill"]
  /\ UNCHANGED <<g_head, g_tail, g_seq, g_dropped, writer, main, sinkVars,
                 reported, lost>>

\* Compare-exchange EMPTY -> CLAIMED.
Claim(p) ==
  /\ emit[p].pc = "claim"
  /\ LET i == SlotOf(emit[p].h)
     IN  IF g_slots[i].state # "EMPTY"
           THEN CountDrop(p)
           ELSE /\ g_slots' = [g_slots EXCEPT ![i].state = "CLAIMED"]
                /\ emit' = [emit EXCEPT ![p].pc = "fill"]
                /\ UNCHANGED <<g_dropped, lost>>
  /\ UNCHANGED <<g_head, g_tail, g_seq, writer, main, sinkVars, reported>>

\* Copy the line and store FILLED with release order.
Fill(p) ==
  /\ emit[p].pc = "fill"
  /\ g_slots' = [g_slots EXCEPT ![SlotOf(emit[p].h)] =
                  [state |-> "FILLED", line |-> [seq |-> emit[p].seq, h |-> emit[p].h]]]
  /\ emit' = [emit EXCEPT ![p] = Idle]
  /\ UNCHANGED <<g_head, g_tail, g_seq, g_dropped, writer, main, sinkVars,
                 reported, lost>>

Emit(p) == \/ Enter(p) \/ TakeSeq(p) \/ Reserve(p)
           \/ LoadState(p) \/ Claim(p) \/ Fill(p)

-----------------------------------------------------------------------------
(* tlm_writer.                                                             *)

\* tlm_write_sinks.
WriteLine(seq) ==
  /\ written' = written \cup {seq}
  /\ lines' = lines + 1

WriterDeaf ==
  /\ writer.pc = "top"
  /\ writer' = [writer EXCEPT !.pc = "drain", !.head = g_head]
  /\ UNCHANGED <<ringVars, g_seq, g_dropped, emit, main, sinkVars, reported, lost>>

\* while (!g_stop): start a pass with the head of this moment, or leave.
WriterTop ==
  /\ writer.pc = "top"
  /\ writer' = IF g_stop THEN [writer EXCEPT !.pc = "leave"]
                         ELSE [writer EXCEPT !.pc = "drain", !.head = g_head]
  /\ UNCHANGED <<ringVars, g_seq, g_dropped, emit, main, sinkVars, reported, lost>>

AtTail == g_slots[SlotOf(g_tail)]

DrainableBelow == g_tail < writer.head /\ AtTail.state = "FILLED"

Drainable == g_tail # writer.head /\ AtTail.state = "FILLED"

DrainSlot ==
  /\ writer.pc = "drain" /\ Drainable
  /\ WriteLine(AtTail.line.seq)
  /\ writer' = [writer EXCEPT !.pc = "free"]
  /\ UNCHANGED <<ringVars, g_seq, g_dropped, emit, main, reported, lost>>

FreeNothing ==
  /\ writer.pc = "free"
  /\ g_tail' = (g_tail + 1) % HeadMod
  /\ writer' = [writer EXCEPT !.pc = "drain"]
  /\ UNCHANGED <<g_slots, g_head, g_seq, g_dropped, emit, main, sinkVars,
                 reported, lost>>

\* Store EMPTY with release order, advance g_tail (the writer's own).  What
\* the buffer of an EMPTY slot holds is not read again.
FreeSlot ==
  /\ writer.pc = "free"
  /\ g_slots' = [g_slots EXCEPT ![SlotOf(g_tail)] = Empty]
  /\ g_tail' = (g_tail + 1) % HeadMod
  /\ writer' = [writer EXCEPT !.pc = "drain"]
  /\ UNCHANGED <<g_head, g_seq, g_dropped, emit, main, sinkVars, reported, lost>>

\* The pass over the ring ends and a clock_sync line is due (tlm_emit_sync).
ClockSync ==
  /\ writer.pc = "drain" /\ ~Drainable /\ g_seq < MaxSeq
  /\ g_seq' = g_seq + 1
  /\ WriteLine(g_seq + 1)
  /\ writer' = [Top EXCEPT !.pc = "drops"]
  /\ UNCHANGED <<ringVars, g_dropped, emit, main, reported, lost>>

\* After the pass, with or without a clock_sync: load the drop counter.
LoadDropped ==
  /\ writer.pc = "drops" \/ (writer.pc = "drain" /\ ~Drainable)
  /\ writer' = [Top EXCEPT !.pc = IF g_dropped > 0 THEN "overflow" ELSE "top",
                           !.dropped = g_dropped]
  /\ UNCHANGED <<ringVars, g_seq, g_dropped, emit, main, sinkVars, reported, lost>>

ZeroDropped ==
  /\ writer.pc = "overflow"
  /\ g_dropped' = 0
  /\ writer' = [writer EXCEPT !.pc = "notice"]
  /\ UNCHANGED <<ringVars, g_seq, emit, main, sinkVars, reported, lost>>

\* Compare-exchange the counter to 0, or leave it for the next pass when a
\* producer counted another drop in between.
TakeDropped ==
  /\ writer.pc = "overflow"
  /\ IF g_dropped = writer.dropped
       THEN /\ g_dropped' = 0
            /\ writer' = [writer EXCEPT !.pc = "notice"]
       ELSE /\ writer' = Top
            /\ UNCHANGED g_dropped
  /\ UNCHANGED <<ringVars, g_seq, emit, main, sinkVars, reported, lost>>

\* Write the tlm_overflow line, with a seq of its own.
Overflow(next) ==
  /\ g_seq' = g_seq + 1
  /\ WriteLine(g_seq + 1)
  /\ reported' = reported + writer.dropped
  /\ writer' = next
  /\ UNCHANGED <<ringVars, g_dropped, emit, main, lost>>

Notice == writer.pc = "notice" /\ Overflow(Top)

\* After the loop, when one of the sinks is a file (g_file): load the counter,
\* which stays as it is.
LastDropped == \E g_file \in BOOLEAN :
  /\ writer.pc = "leave"
  /\ writer' = IF g_file /\ g_dropped > 0
                 THEN [writer EXCEPT !.pc = "last", !.dropped = g_dropped]
                 ELSE [writer EXCEPT !.pc = "gone"]
  /\ UNCHANGED <<ringVars, g_seq, g_dropped, emit, main, sinkVars, reported, lost>>

LastNotice == writer.pc = "last" /\ Overflow([writer EXCEPT !.pc = "gone"])

Writer == \/ WriterTop \/ DrainSlot \/ FreeSlot \/ ClockSync \/ LoadDropped
          \/ TakeDropped \/ Notice \/ LastDropped \/ LastNotice

-----------------------------------------------------------------------------
(* vmc_tlm_shutdown.                                                       *)

Shutdown ==
  /\ main = "run"
  /\ main' = "join"
  /\ UNCHANGED <<ringVars, g_seq, g_dropped, emit, writer, sinkVars, reported, lost>>

\* The join returns; the sinks are closed and g_enabled is cleared.
CloseSinks ==
  /\ main = "join" /\ writer.pc = "gone"
  /\ main' = "reset"
  /\ UNCHANGED <<ringVars, g_seq, g_dropped, emit, writer, sinkVars, reported, lost>>

\* The ring is cleared, under a late emitter if there is one; g_dropped is not.
ResetRing ==
  /\ main = "reset"
  /\ main' = "down"
  /\ g_head' = 0 /\ g_tail' = 0 /\ g_seq' = 0
  /\ g_slots' = [i \in Slots |-> Empty]
  /\ UNCHANGED <<g_dropped, emit, writer, sinkVars, reported, lost>>

Main == Shutdown \/ CloseSinks \/ ResetRing

\* The process exits once the ring is down and every emitter has returned.
Terminated ==
  /\ main = "down" /\ \A p \in Producers : emit[p].pc = "idle"
  /\ UNCHANGED vars

Next == (\E p \in Producers : Emit(p)) \/ Writer \/ Main \/ Terminated

Spec == Init /\ [][Next]_vars

\* The writer is a thread of its own that never blocks (it sleeps 1 ms when
\* idle), an emitter never waits, and the main thread goes on once joined.
FairSpec ==
  /\ Spec /\ WF_vars(Writer) /\ WF_vars(CloseSinks) /\ WF_vars(ResetRing)
  /\ \A p \in Producers : WF_vars(emit[p].pc # "idle" /\ Emit(p))

-----------------------------------------------------------------------------
Lines == [seq : Nat, h : 0..HeadMod-1]

\* Types.
TypeOK ==
  /\ g_slots \in [Slots -> [state : {"EMPTY", "CLAIMED", "FILLED"}, line : Lines]]
  /\ g_head \in 0..HeadMod-1 /\ g_tail \in 0..HeadMod-1
  /\ g_seq \in Nat /\ g_dropped \in Nat
  /\ emit \in [Producers -> [pc  : {"idle", "seq", "reserve", "load", "claim", "fill"},
                             seq : Nat, h : 0..HeadMod-1]]
  /\ writer \in [pc : {"top", "drain", "free", "drops", "overflow", "notice",
                       "leave", "last", "gone"},
                 head : 0..HeadMod-1, dropped : Nat]
  /\ main \in {"run", "join", "reset", "down"}
  /\ written \subseteq Nat /\ lines \in Nat
  /\ reported \in Nat /\ lost \subseteq Nat

\* A claimed slot belongs to exactly one emitter, and only a claimed slot is
\* being filled: no line is overwritten or torn, even when g_head laps the
\* ring while an emitter sits between its claim and its fill.
OneFiller ==
  main # "down" =>
    /\ \A p \in Producers :
         emit[p].pc = "fill" => g_slots[SlotOf(emit[p].h)].state = "CLAIMED"
    /\ \A p, q \in Producers :
         /\ emit[p].pc = "fill" /\ emit[q].pc = "fill"
         /\ SlotOf(emit[p].h) = SlotOf(emit[q].h)
         => p = q
    /\ \A i \in Slots : g_slots[i].state = "CLAIMED" =>
         \E p \in Producers : emit[p].pc = "fill" /\ SlotOf(emit[p].h) = i

Filled   == {i \in Slots : g_slots[i].state = "FILLED"}
InRing   == {g_slots[i].line.seq : i \in Filled}
InFlight == {emit[p].seq : p \in Producers} \ {0}

\* Every seq handed out, the writer's own lines included, is in exactly one
\* place: written once, waiting in the ring, with its emitter, or dropped.
\* (Between DrainSlot and FreeSlot the line written is still in its slot.)
EachOnce ==
  main # "down" =>
    /\ written \cup InRing \cup InFlight \cup lost = 1..g_seq
    /\ Cardinality(written) = lines
    /\ lost \cap written = {}
    /\ (lost \cup written) \cap InFlight = {}
    /\ InRing \cap (InFlight \cup lost) = {}
    /\ writer.pc # "free" => written \cap InRing = {}

\* Drops the writer has taken from g_dropped and not yet reported, and those
\* that the last report (which leaves g_dropped alone) covered.
Taken   == IF writer.pc = "notice" THEN writer.dropped ELSE 0
Covered == IF writer.pc = "gone" THEN writer.dropped ELSE 0

\* Every drop is counted exactly once: in g_dropped, with the writer, or in
\* a tlm_overflow line; the line written at shutdown counts none twice.
DropsCounted ==
  main # "down" => Cardinality(lost) = (g_dropped - Covered) + Taken + reported

\* As long as nothing was dropped, an event in the ring gets written however
\* the emitters filled their slots, until the writer is told to stop.
Delivered ==
  \A s \in 1..MaxSeq :
    (s \in InRing /\ lost = {}) ~> (s \in written \/ lost # {} \/ main # "run")

\* vmc_tlm_shutdown returns although emitters go on emitting: a pass of the
\* writer is bounded by the head it started with.
ShutdownReturns == main = "join" ~> main = "down"

-----------------------------------------------------------------------------
(* What comments, docs and tests say, where the code does otherwise.       *)

\* telemetry.c: the writer "drains the ring in order".  A dropped reservation
\* leaves its slot EMPTY under g_tail; the writer stops there, and goes on
\* only when g_head has lapped the ring and a later event fills that slot,
\* which it then writes before the events reserved in between.
DrainsInOrder ==
  writer.pc = "free" => \A i \in Filled : AtTail.line.h <= g_slots[i].line.h

\* test_telemetry.c: "envelope seq must be strictly monotonic".  Two emitters
\* may reserve in the other order than they took their seqs, and a clock_sync
\* is written past the events that wait in the ring.
SeqMonotonic == [][\A s \in written' \ written : \A t \in written : s > t]_vars

\* AV_TELEMETRY_SPEC.md: a seq "gap => ring overflow".  The writer leaves its
\* loop without a last pass, so events may stay in the ring at shutdown, with
\* the clock_sync written past them.
GapMeansOverflow == main = "down" /\ lost = {} => written = 1..lines

\* The same guarantee as Delivered after a drop.
DeliveredAfterDrop ==
  \A s \in 1..MaxSeq : s \in InRing ~> (s \in written \/ main # "run")
=============================================================================
