--------------------------- MODULE TelemetryProofs ---------------------------
(***************************************************************************)
(* The telemetry ring with any number of emitting threads, slots and       *)
(* counter width: no slot has two fillers, every seq is in one place, and  *)
(* every drop is counted once.                                             *)
(***************************************************************************)
EXTENDS Telemetry, FiniteSetTheorems, TLAPS

LEMMA SlotRange ==
  ASSUME NEW h \in 0..HeadMod-1
  PROVE  SlotOf(h) \in Slots
<1>1. h \in Int /\ RingSlots \in Nat \ {0}
  BY TelemetryAssumption
<1> QED BY <1>1 DEF SlotOf, Slots

LEMMA NextHead ==
  ASSUME NEW h \in 0..HeadMod-1
  PROVE  (h + 1) % HeadMod \in 0..HeadMod-1
<1>1. h + 1 \in Int /\ HeadMod \in Nat \ {0}
  BY TelemetryAssumption
<1> QED BY <1>1

EmitterStates ==
  [pc : {"idle", "seq", "reserve", "load", "claim", "fill"}, seq : Nat, h : 0..HeadMod-1]

LEMMA InitType == Init => TypeOK
<1>1. 0 \in 0..HeadMod-1
  BY TelemetryAssumption
<1> QED BY <1>1 DEF Init, TypeOK, Empty, NoLine, Idle, Top, Lines

\* Types, one step per thread.
LEMMA EmitType ==
  ASSUME TypeOK, NEW p \in Producers, Emit(p)
  PROVE  TypeOK'
<1> USE DEF TypeOK, Lines
<1>1. emit \in [Producers -> EmitterStates] /\ emit[p] \in EmitterStates
  BY DEF EmitterStates
<1>2. CASE Enter(p)
  BY <1>2 DEF Enter, ringVars, sinkVars
<1>3. CASE TakeSeq(p)
  <2> DEFINE e == [pc |-> "reserve", seq |-> g_seq + 1, h |-> 0]
  <2>1. emit' = [emit EXCEPT ![p] = e] /\ g_seq' = g_seq + 1
    BY <1>3 DEF TakeSeq
  <2>2. e \in EmitterStates
    BY TelemetryAssumption DEF EmitterStates
  <2>3. emit' \in [Producers -> EmitterStates] /\ g_seq' \in Nat
    <3> HIDE DEF e
    <3> QED BY <1>1, <2>1, <2>2
  <2> QED BY <1>3, <2>3 DEF TakeSeq, ringVars, sinkVars, EmitterStates
<1>4. CASE Reserve(p)
  BY ZenonT(60), <1>4, NextHead DEF Reserve, sinkVars
<1>5. ASSUME CountDrop(p)
      PROVE  /\ g_dropped' \in Nat /\ lost' \subseteq Nat /\ g_slots' = g_slots
             /\ emit' \in [Producers -> EmitterStates]
  <2>1. Idle \in EmitterStates
    BY TelemetryAssumption DEF Idle, EmitterStates
  <2>2. emit[p].seq \in Nat
    BY <1>1 DEF EmitterStates
  <2>3. lost' \subseteq Nat
    BY <1>5, <2>2 DEF CountDrop
  <2>4. emit' \in [Producers -> EmitterStates]
    BY <1>1, <1>5, <2>1 DEF CountDrop
  <2> QED BY <1>5, <2>3, <2>4 DEF CountDrop
<1>6. CASE LoadState(p)
  <2>1. CASE CountDrop(p)
    BY <1>5, <1>6, <2>1 DEF LoadState, sinkVars, EmitterStates
  <2>2. CASE ~CountDrop(p)
    BY <1>6, <2>2 DEF LoadState, sinkVars
  <2> QED BY <2>1, <2>2
<1>7. CASE Claim(p)
  <2>1. CASE CountDrop(p)
    BY <1>5, <1>7, <2>1 DEF Claim, sinkVars, EmitterStates
  <2>2. CASE ~CountDrop(p)
    <3>1. SlotOf(emit[p].h) \in Slots
      BY SlotRange
    <3> QED BY <1>7, <2>2, <3>1 DEF Claim, sinkVars
  <2> QED BY <2>1, <2>2
<1>8. CASE Fill(p)
  <2>1. 0 \in 0..HeadMod-1 /\ SlotOf(emit[p].h) \in Slots
    BY TelemetryAssumption, SlotRange
  <2> QED BY <1>8, <2>1 DEF Fill, sinkVars, Idle
<1> QED BY <1>2, <1>3, <1>4, <1>6, <1>7, <1>8 DEF Emit

LEMMA WriterType ==
  ASSUME TypeOK, Writer
  PROVE  TypeOK'
<1> USE DEF TypeOK, Lines
<1>1. SlotOf(g_tail) \in Slots /\ 0 \in 0..HeadMod-1
  BY SlotRange, TelemetryAssumption
<1>2. CASE WriterTop
  BY <1>2 DEF WriterTop, ringVars, sinkVars
<1>3. CASE DrainSlot
  BY <1>1, <1>3 DEF DrainSlot, WriteLine, AtTail, ringVars
<1>4. CASE FreeSlot
  BY <1>1, <1>4, NextHead DEF FreeSlot, Empty, NoLine, sinkVars
<1>5. CASE ClockSync
  BY <1>1, <1>5 DEF ClockSync, WriteLine, Top, ringVars
<1>6. CASE LoadDropped
  BY <1>1, <1>6 DEF LoadDropped, Top, ringVars, sinkVars
<1>7. CASE TakeDropped
  BY <1>1, <1>7 DEF TakeDropped, Top, ringVars, sinkVars
<1>8. CASE Notice
  BY <1>1, <1>8 DEF Notice, Overflow, WriteLine, Top, ringVars
<1>9. CASE LastDropped
  BY <1>1, <1>9 DEF LastDropped, ringVars, sinkVars
<1>10. CASE LastNotice
  BY <1>1, <1>10 DEF LastNotice, Overflow, WriteLine, ringVars
<1> QED BY <1>2, <1>3, <1>4, <1>5, <1>6, <1>7, <1>8, <1>9, <1>10 DEF Writer

LEMMA MainType ==
  ASSUME TypeOK, Main
  PROVE  TypeOK'
<1>1. 0 \in 0..HeadMod-1
  BY TelemetryAssumption
<1>2. CASE Shutdown
  BY <1>2 DEF Shutdown, TypeOK, ringVars, sinkVars
<1>3. CASE CloseSinks
  BY <1>3 DEF CloseSinks, TypeOK, ringVars, sinkVars
<1>4. CASE ResetRing
  BY <1>1, <1>4 DEF ResetRing, TypeOK, Empty, NoLine, Lines, sinkVars
<1> QED BY <1>2, <1>3, <1>4 DEF Main

LEMMA TypeStep ==
  ASSUME TypeOK, [Next]_vars
  PROVE  TypeOK'
<1>1. CASE UNCHANGED vars
  BY <1>1 DEF vars, ringVars, sinkVars, TypeOK
<1> QED BY <1>1, EmitType, WriterType, MainType DEF Next, Terminated

\* Every step of every thread keeps the telemetry state well typed; g_tail
\* and g_head stay u32 values.
THEOREM TelemetryTyped == Spec => []TypeOK
  BY InitType, TypeStep, PTL DEF Spec

-----------------------------------------------------------------------------
(* One filler per slot.                                                    *)

LEMMA EmitFiller ==
  ASSUME TypeOK, OneFiller, main # "down", NEW p \in Producers, Emit(p)
  PROVE  OneFiller'
<1> DEFINE i == SlotOf(emit[p].h)
<1>1. /\ emit \in [Producers -> EmitterStates] /\ i \in Slots
      /\ g_slots \in [Slots -> [state : {"EMPTY", "CLAIMED", "FILLED"}, line : Lines]]
  BY SlotRange DEF TypeOK, EmitterStates
<1>2. ASSUME emit[p].pc # "fill", emit'[p].pc # "fill", g_slots' = g_slots,
             \A q \in Producers \ {p} : emit'[q] = emit[q]
      PROVE  OneFiller'
  BY <1>2 DEF OneFiller, SlotOf
<1>3. CASE Enter(p)
  BY <1>1, <1>2, <1>3 DEF Enter, ringVars, EmitterStates
<1>4. CASE TakeSeq(p)
  BY <1>1, <1>2, <1>4 DEF TakeSeq, ringVars
<1>5. CASE Reserve(p)
  BY <1>1, <1>2, <1>5 DEF Reserve, EmitterStates
<1>6. CASE CountDrop(p) /\ emit[p].pc # "fill"
  BY <1>1, <1>2, <1>6 DEF CountDrop, Idle
<1>7. CASE LoadState(p)
  <2>1. CASE CountDrop(p)
    BY <1>6, <1>7, <2>1 DEF LoadState
  <2>2. CASE ~CountDrop(p)
    BY <1>1, <1>2, <1>7, <2>2 DEF LoadState, EmitterStates
  <2> QED BY <2>1, <2>2
<1>8. CASE Claim(p)
  <2>1. CASE CountDrop(p)
    BY <1>6, <1>8, <2>1 DEF Claim
  <2>2. CASE ~CountDrop(p)
    <3>1. /\ g_slots[i].state = "EMPTY" /\ g_slots'[i].state = "CLAIMED"
          /\ \A j \in Slots \ {i} : g_slots'[j] = g_slots[j]
          /\ emit'[p].pc = "fill" /\ emit'[p].h = emit[p].h
          /\ \A q \in Producers \ {p} : emit'[q] = emit[q]
      BY <1>1, <1>8, <2>2 DEF Claim, EmitterStates
    <3>2. \A q \in Producers : SlotOf(emit[q].h) \in Slots
      BY SlotRange DEF TypeOK
    <3> QED BY <1>1, <3>1, <3>2 DEF OneFiller, SlotOf
  <2> QED BY <2>1, <2>2
<1>9. CASE Fill(p)
  <2>1. /\ emit[p].pc = "fill" /\ emit'[p].pc = "idle" /\ g_slots'[i].state = "FILLED"
        /\ \A j \in Slots \ {i} : g_slots'[j] = g_slots[j]
        /\ \A q \in Producers \ {p} : emit'[q] = emit[q]
    BY <1>1, <1>9 DEF Fill, Idle
  <2>2. \A q \in Producers : SlotOf(emit[q].h) \in Slots
    BY SlotRange DEF TypeOK
  <2> QED BY <1>1, <2>1, <2>2 DEF OneFiller, SlotOf
<1> QED BY <1>3, <1>4, <1>5, <1>7, <1>8, <1>9 DEF Emit

\* The writer's line is still in its slot while it frees it.
WriterSlot == writer.pc = "free" => AtTail.state = "FILLED"

LEMMA WriterFiller ==
  ASSUME TypeOK, OneFiller, WriterSlot, main # "down", Writer
  PROVE  OneFiller'
<1> DEFINE i == SlotOf(g_tail)
<1>1. /\ i \in Slots
      /\ g_slots \in [Slots -> [state : {"EMPTY", "CLAIMED", "FILLED"}, line : Lines]]
  BY SlotRange DEF TypeOK
<1>2. CASE UNCHANGED <<g_slots, emit>>
  BY <1>2 DEF OneFiller, SlotOf
<1>3. CASE FreeSlot
  <2>1. /\ g_slots[i].state = "FILLED" /\ g_slots'[i].state = "EMPTY" /\ emit' = emit
        /\ \A j \in Slots \ {i} : g_slots'[j] = g_slots[j]
    BY <1>1, <1>3 DEF FreeSlot, WriterSlot, AtTail, Empty
  <2>2. \A q \in Producers : SlotOf(emit[q].h) \in Slots
    BY SlotRange DEF TypeOK
  <2> QED BY <1>1, <2>1, <2>2 DEF OneFiller, SlotOf
<1>4. CASE ~FreeSlot
  BY <1>2, <1>4 DEF Writer, WriterTop, DrainSlot, ClockSync, LoadDropped, TakeDropped,
     Notice, LastDropped, LastNotice, Overflow, ringVars
<1> QED BY <1>3, <1>4

LEMMA MainFiller ==
  ASSUME OneFiller, Main
  PROVE  OneFiller'
<1>1. CASE Shutdown
  BY <1>1 DEF Shutdown, OneFiller, SlotOf, ringVars
<1>2. CASE CloseSinks
  BY <1>2 DEF CloseSinks, OneFiller, SlotOf, ringVars
<1>3. CASE ResetRing
  BY <1>3 DEF ResetRing, OneFiller
<1> QED BY <1>1, <1>2, <1>3 DEF Main

-----------------------------------------------------------------------------
(* Where a seq is.                                                         *)

\* An emitter's seq is its own.
EmitSeqs == \A p \in Producers :
  /\ emit[p].seq = 0 <=> emit[p].pc \in {"idle", "seq"}
  /\ emit[p].seq <= g_seq
  /\ emit[p].seq \notin written /\ emit[p].seq \notin lost
  /\ \A q \in Producers : q # p /\ emit[p].seq # 0 => emit[q].seq # emit[p].seq

\* So is a filled slot's, but for the writer freeing it.
SlotSeqs == \A i \in Slots : g_slots[i].state = "FILLED" =>
  /\ g_slots[i].line.seq \in 1..g_seq /\ g_slots[i].line.seq \notin lost
  /\ \A p \in Producers : emit[p].seq # g_slots[i].line.seq
  /\ \A j \in Slots : j # i /\ g_slots[j].state = "FILLED" =>
       g_slots[j].line.seq # g_slots[i].line.seq
  /\ g_slots[i].line.seq \in written <=> (writer.pc = "free" /\ i = SlotOf(g_tail))

Apart == written \subseteq 1..g_seq /\ lost \subseteq 1..g_seq /\ written \cap lost = {}

Cover == \A s \in 1..g_seq :
  \/ s \in written \/ s \in lost
  \/ \E i \in Slots : g_slots[i].state = "FILLED" /\ g_slots[i].line.seq = s
  \/ \E p \in Producers : emit[p].seq = s

Places == EmitSeqs /\ SlotSeqs /\ WriterSlot /\ Apart /\ Cover

LEMMA EmitPlaces ==
  ASSUME TypeOK, OneFiller, Places, main # "down", NEW p \in Producers, Emit(p)
  PROVE  Places'
<1> DEFINE i == SlotOf(emit[p].h)
<1>1. /\ emit \in [Producers -> EmitterStates] /\ i \in Slots /\ SlotOf(g_tail) \in Slots
      /\ g_slots \in [Slots -> [state : {"EMPTY", "CLAIMED", "FILLED"}, line : Lines]]
      /\ g_seq \in Nat
  BY SlotRange DEF TypeOK, EmitterStates
<1>2. \A q \in Producers : emit[q] \in EmitterStates /\ emit[q].seq \in Nat
  BY <1>1 DEF EmitterStates
<1>3. ASSUME g_slots' = g_slots, g_seq' = g_seq, g_tail' = g_tail,
             UNCHANGED <<writer, written, lost>>,
             emit'[p].seq = emit[p].seq,
             emit[p].pc \in {"idle", "seq"} <=> emit'[p].pc \in {"idle", "seq"},
             \A q \in Producers \ {p} : emit'[q] = emit[q]
      PROVE  Places'
  <2>1. EmitSeqs'
    BY <1>2, <1>3 DEF Places, EmitSeqs
  <2>2. SlotSeqs'
    BY <1>3 DEF Places, SlotSeqs, SlotOf
  <2>3. WriterSlot' /\ Apart'
    BY <1>3 DEF Places, WriterSlot, AtTail, SlotOf, Apart
  <2>4. Cover'
    BY <1>3 DEF Places, Cover
  <2> QED BY <2>1, <2>2, <2>3, <2>4 DEF Places
<1>4. CASE Enter(p)
  BY <1>1, <1>3, <1>4 DEF Enter, ringVars, sinkVars, EmitterStates
<1>5. CASE TakeSeq(p)
  <2>1. /\ g_slots' = g_slots /\ g_seq' = g_seq + 1 /\ g_tail' = g_tail
        /\ UNCHANGED <<writer, written, lost>>
        /\ emit[p].pc = "seq" /\ emit'[p].seq = g_seq + 1 /\ emit'[p].pc = "reserve"
        /\ \A q \in Producers \ {p} : emit'[q] = emit[q]
    BY <1>1, <1>5 DEF TakeSeq, ringVars, sinkVars
  <2>2. \A n \in Nat : n <= g_seq => n # g_seq + 1 /\ n <= g_seq + 1
    BY <1>1
  <2>3. g_seq + 1 \notin written /\ g_seq + 1 \notin lost
    BY <1>1 DEF Places, Apart
  <2>4. EmitSeqs'
    BY <1>1, <1>2, <2>1, <2>2, <2>3 DEF Places, EmitSeqs
  <2>5. SlotSeqs'
    BY <1>1, <2>1 DEF Places, SlotSeqs, SlotOf
  <2>6. WriterSlot' /\ Apart'
    BY <1>1, <2>1 DEF Places, WriterSlot, AtTail, SlotOf, Apart
  <2>7. Cover'
    <3> SUFFICES ASSUME NEW s \in 1..g_seq+1
                 PROVE  \/ s \in written \/ s \in lost
                        \/ \E j \in Slots : g_slots[j].state = "FILLED" /\ g_slots[j].line.seq = s
                        \/ \E q \in Producers : emit'[q].seq = s
      BY <2>1 DEF Cover
    <3>1. CASE s = g_seq + 1
      BY <2>1, <3>1
    <3>2. CASE s # g_seq + 1
      <4>1. s \in 1..g_seq
        BY <1>1, <3>2
      <4>2. emit[p].seq = 0 /\ s # 0
        BY <1>1, <2>1 DEF Places, EmitSeqs
      <4> QED BY <2>1, <4>1, <4>2 DEF Places, Cover
    <3> QED BY <3>1, <3>2
  <2> QED BY <2>4, <2>5, <2>6, <2>7 DEF Places
<1>6. CASE Reserve(p)
  BY <1>1, <1>3, <1>6 DEF Reserve, sinkVars, EmitterStates
<1>7. ASSUME CountDrop(p), emit[p].pc \in {"load", "claim"},
             g_seq' = g_seq, g_tail' = g_tail, UNCHANGED <<writer, written>>
      PROVE  Places'
  <2>1. /\ g_slots' = g_slots /\ lost' = lost \cup {emit[p].seq}
        /\ emit'[p].seq = 0 /\ emit'[p].pc = "idle"
        /\ \A q \in Producers \ {p} : emit'[q] = emit[q]
    BY <1>1, <1>7 DEF CountDrop, Idle
  <2>2. emit[p].seq # 0 /\ emit[p].seq \in 1..g_seq /\ emit[p].seq \notin written
    BY <1>1, <1>2, <1>7 DEF Places, EmitSeqs
  <2>3. 0 \notin written /\ 0 \notin lost' /\ 0 <= g_seq
    BY <1>1, <2>1, <2>2 DEF Places, Apart
  <2>4. EmitSeqs'
    BY <1>1, <1>2, <1>7, <2>1, <2>2, <2>3 DEF Places, EmitSeqs
  <2>5. SlotSeqs'
    BY <1>7, <2>1, <1>1 DEF Places, SlotSeqs, SlotOf
  <2>6. WriterSlot' /\ Apart'
    BY <1>7, <2>1, <2>2 DEF Places, WriterSlot, AtTail, SlotOf, Apart
  <2>7. Cover'
    BY <1>7, <2>1 DEF Places, Cover
  <2> QED BY <2>4, <2>5, <2>6, <2>7 DEF Places
<1>8. CASE LoadState(p)
  <2>1. CASE CountDrop(p)
    BY <1>7, <1>8, <2>1 DEF LoadState, sinkVars
  <2>2. CASE ~CountDrop(p)
    BY <1>1, <1>3, <1>8, <2>2 DEF LoadState, sinkVars, EmitterStates
  <2> QED BY <2>1, <2>2
<1>9. CASE Claim(p)
  <2>1. CASE CountDrop(p)
    BY <1>7, <1>9, <2>1 DEF Claim, sinkVars
  <2>2. CASE ~CountDrop(p)
    <3>1. /\ g_slots[i].state = "EMPTY" /\ g_slots'[i].state = "CLAIMED"
          /\ \A j \in Slots \ {i} : g_slots'[j] = g_slots[j]
          /\ emit[p].pc = "claim" /\ emit'[p].pc = "fill" /\ emit'[p].seq = emit[p].seq
          /\ \A q \in Producers \ {p} : emit'[q] = emit[q]
          /\ g_seq' = g_seq /\ g_tail' = g_tail /\ UNCHANGED <<writer, written, lost>>
      BY <1>1, <1>9, <2>2 DEF Claim, EmitterStates, sinkVars
    <3>2. EmitSeqs'
      BY <1>2, <3>1 DEF Places, EmitSeqs
    <3>3. SlotSeqs'
      BY <1>1, <3>1 DEF Places, SlotSeqs, SlotOf
    <3>4. WriterSlot' /\ Apart'
      BY <1>1, <3>1 DEF Places, WriterSlot, AtTail, SlotOf, Apart
    <3>5. Cover'
      BY <1>1, <3>1 DEF Places, Cover
    <3> QED BY <3>2, <3>3, <3>4, <3>5 DEF Places
  <2> QED BY <2>1, <2>2
<1>10. CASE Fill(p)
  <2>1. /\ g_slots'[i].state = "FILLED" /\ g_slots'[i].line.seq = emit[p].seq
        /\ \A j \in Slots \ {i} : g_slots'[j] = g_slots[j]
        /\ emit[p].pc = "fill" /\ emit'[p].pc = "idle" /\ emit'[p].seq = 0
        /\ \A q \in Producers \ {p} : emit'[q] = emit[q]
        /\ g_seq' = g_seq /\ g_tail' = g_tail /\ UNCHANGED <<writer, written, lost>>
    BY <1>1, <1>10 DEF Fill, Idle, sinkVars
  <2>2. g_slots[i].state = "CLAIMED"
    BY <2>1 DEF OneFiller
  <2>3. /\ emit[p].seq \in 1..g_seq /\ emit[p].seq \notin written /\ emit[p].seq \notin lost
        /\ \A q \in Producers \ {p} : emit[q].seq # emit[p].seq
    BY <1>1, <1>2, <2>1 DEF Places, EmitSeqs
  <2>4. 0 \notin written /\ 0 \notin lost /\ 0 <= g_seq
    BY <1>1 DEF Places, Apart
  <2>5. EmitSeqs'
    BY <1>1, <1>2, <2>1, <2>4 DEF Places, EmitSeqs
  <2>6. writer.pc = "free" => i # SlotOf(g_tail)
    BY <2>2 DEF Places, WriterSlot, AtTail
  <2>7. SlotSeqs'
    <3> SUFFICES ASSUME NEW j \in Slots, g_slots'[j].state = "FILLED"
                 PROVE  /\ g_slots'[j].line.seq \in 1..g_seq /\ g_slots'[j].line.seq \notin lost
                        /\ \A q \in Producers : emit'[q].seq # g_slots'[j].line.seq
                        /\ \A k \in Slots : k # j /\ g_slots'[k].state = "FILLED" =>
                             g_slots'[k].line.seq # g_slots'[j].line.seq
                        /\ g_slots'[j].line.seq \in written
                             <=> (writer.pc = "free" /\ j = SlotOf(g_tail))
      BY <2>1 DEF SlotSeqs, SlotOf
    <3>1. CASE j = i
      <4>1. g_slots'[j].line.seq = emit[p].seq
        BY <2>1, <3>1
      <4>2. \A q \in Producers : emit'[q].seq # emit[p].seq
        BY <2>1, <2>3
      <4>3. ASSUME NEW k \in Slots, k # j, g_slots'[k].state = "FILLED"
            PROVE  g_slots'[k].line.seq # emit[p].seq
        BY <2>1, <3>1, <4>3 DEF Places, SlotSeqs
      <4> QED BY <2>3, <2>6, <3>1, <4>1, <4>2, <4>3
    <3>2. CASE j # i
      <4>1. g_slots'[j] = g_slots[j] /\ g_slots[j].line.seq # 0
        BY <1>1, <2>1, <3>2 DEF Places, SlotSeqs
      <4> QED BY <1>1, <2>1, <3>2, <4>1 DEF Places, SlotSeqs
    <3> QED BY <3>1, <3>2
  <2>8. WriterSlot' /\ Apart'
    BY <1>1, <2>1 DEF Places, WriterSlot, AtTail, SlotOf, Apart
  <2>9. Cover'
    <3> SUFFICES ASSUME NEW s \in 1..g_seq
                 PROVE  \/ s \in written \/ s \in lost
                        \/ \E j \in Slots : g_slots'[j].state = "FILLED" /\ g_slots'[j].line.seq = s
                        \/ \E q \in Producers : emit'[q].seq = s
      BY <2>1 DEF Cover
    <3>1. CASE s = emit[p].seq
      BY <1>1, <2>1, <3>1
    <3>2. CASE s # emit[p].seq
      BY <1>1, <2>1, <2>2, <3>2 DEF Places, Cover
    <3> QED BY <3>1, <3>2
  <2> QED BY <2>5, <2>7, <2>8, <2>9 DEF Places
<1> QED BY <1>4, <1>5, <1>6, <1>8, <1>9, <1>10 DEF Emit

LEMMA WriterPlaces ==
  ASSUME TypeOK, Places, Writer
  PROVE  Places'
<1> DEFINE i == SlotOf(g_tail)
<1>1. /\ i \in Slots /\ g_seq \in Nat
      /\ g_slots \in [Slots -> [state : {"EMPTY", "CLAIMED", "FILLED"}, line : Lines]]
      /\ emit \in [Producers -> EmitterStates]
      /\ writer \in [pc : {"top", "drain", "free", "drops", "overflow", "notice",
                           "leave", "last", "gone"},
                     head : 0..HeadMod-1, dropped : Nat]
  BY SlotRange DEF TypeOK, EmitterStates
<1>2. \A q \in Producers : emit[q].seq \in Nat
  BY <1>1 DEF EmitterStates
<1>3. ASSUME UNCHANGED <<ringVars, emit, g_seq, written, lost>>,
             writer.pc # "free", writer'.pc # "free"
      PROVE  Places'
  BY <1>3 DEF Places, EmitSeqs, SlotSeqs, WriterSlot, AtTail, SlotOf, Apart, Cover, ringVars
<1>4. CASE WriterTop
  BY <1>1, <1>3, <1>4 DEF WriterTop, sinkVars
<1>5. CASE DrainSlot
  <2>1. /\ UNCHANGED <<g_slots, g_tail, emit, g_seq, lost>> /\ g_slots[i].state = "FILLED"
        /\ written' = written \cup {g_slots[i].line.seq}
        /\ writer.pc = "drain" /\ writer'.pc = "free"
    BY <1>1, <1>5 DEF DrainSlot, Drainable, AtTail, WriteLine, ringVars
  <2>2. /\ g_slots[i].line.seq \in 1..g_seq /\ g_slots[i].line.seq \notin lost
        /\ \A p \in Producers : emit[p].seq # g_slots[i].line.seq
    BY <1>1, <2>1 DEF Places, SlotSeqs
  <2>3. EmitSeqs'
    BY <2>1, <2>2 DEF Places, EmitSeqs
  <2>4. SlotSeqs'
    BY <1>1, <2>1 DEF Places, SlotSeqs, SlotOf
  <2>5. WriterSlot' /\ Apart'
    BY <2>1, <2>2 DEF Places, WriterSlot, AtTail, SlotOf, Apart
  <2>6. Cover'
    BY <2>1 DEF Places, Cover
  <2> QED BY <2>3, <2>4, <2>5, <2>6 DEF Places
<1>6. CASE FreeSlot
  <2>1. /\ UNCHANGED <<emit, g_seq, written, lost>> /\ writer.pc = "free" /\ writer'.pc = "drain"
        /\ g_slots'[i].state = "EMPTY" /\ \A j \in Slots \ {i} : g_slots'[j] = g_slots[j]
    BY <1>1, <1>6 DEF FreeSlot, Empty, sinkVars
  <2>2. g_slots[i].state = "FILLED" /\ g_slots[i].line.seq \in written
    BY <1>1, <2>1 DEF Places, WriterSlot, AtTail, SlotSeqs
  <2>3. EmitSeqs'
    BY <2>1 DEF Places, EmitSeqs
  <2>4. SlotSeqs'
    BY <1>1, <2>1 DEF Places, SlotSeqs
  <2>5. WriterSlot' /\ Apart'
    BY <2>1 DEF Places, WriterSlot, Apart
  <2>6. Cover'
    BY <1>1, <2>1, <2>2 DEF Places, Cover
  <2> QED BY <2>3, <2>4, <2>5, <2>6 DEF Places
<1>7. ASSUME UNCHANGED <<ringVars, emit, lost>>, g_seq' = g_seq + 1,
             written' = written \cup {g_seq + 1}, writer.pc # "free", writer'.pc # "free"
      PROVE  Places'
  <2>1. g_seq + 1 \notin lost
    BY <1>1 DEF Places, Apart
  <2>2. \A q \in Producers : emit[q].seq <= g_seq + 1 /\ emit[q].seq # g_seq + 1
    BY <1>1, <1>2 DEF Places, EmitSeqs
  <2>3. EmitSeqs'
    BY <1>1, <1>2, <1>7, <2>2 DEF Places, EmitSeqs
  <2>4. SlotSeqs'
    BY <1>1, <1>7 DEF Places, SlotSeqs, SlotOf, ringVars
  <2>5. WriterSlot' /\ Apart'
    BY <1>1, <1>7, <2>1 DEF Places, WriterSlot, Apart
  <2>6. Cover'
    <3> SUFFICES ASSUME NEW s \in 1..g_seq+1, s # g_seq + 1
                 PROVE  \/ s \in written \/ s \in lost
                        \/ \E j \in Slots : g_slots[j].state = "FILLED" /\ g_slots[j].line.seq = s
                        \/ \E q \in Producers : emit[q].seq = s
      BY <1>7 DEF Cover, ringVars
    <3>1. s \in 1..g_seq
      BY <1>1
    <3> QED BY <3>1 DEF Places, Cover
  <2> QED BY <2>3, <2>4, <2>5, <2>6 DEF Places
<1>8. CASE ClockSync
  BY <1>1, <1>7, <1>8 DEF ClockSync, WriteLine, Top
<1>9. CASE LoadDropped
  BY <1>1, <1>3, <1>9 DEF LoadDropped, Top, sinkVars
<1>10. CASE TakeDropped
  BY <1>1, <1>3, <1>10 DEF TakeDropped, Top, sinkVars
<1>11. CASE Notice
  BY <1>1, <1>7, <1>11 DEF Notice, Overflow, WriteLine, Top
<1>12. CASE LastDropped
  BY <1>1, <1>3, <1>12 DEF LastDropped, sinkVars
<1>13. CASE LastNotice
  BY <1>1, <1>7, <1>13 DEF LastNotice, Overflow, WriteLine
<1> QED BY <1>4, <1>5, <1>6, <1>8, <1>9, <1>10, <1>11, <1>12, <1>13 DEF Writer

LEMMA MainPlaces ==
  ASSUME Places, Main, main' # "down"
  PROVE  Places'
<1>1. UNCHANGED <<ringVars, g_seq, emit, writer, sinkVars, lost>>
  BY DEF Main, Shutdown, CloseSinks, ResetRing
<1> QED BY <1>1 DEF Places, EmitSeqs, SlotSeqs, WriterSlot, AtTail, SlotOf, Apart, Cover,
        ringVars, sinkVars

\* The invariant about places says what EachOnce says of the sets.
LEMMA PlacesGive ==
  ASSUME TypeOK, Places
  PROVE  /\ written \cup InRing \cup InFlight \cup lost = 1..g_seq
         /\ lost \cap written = {}
         /\ (lost \cup written) \cap InFlight = {}
         /\ InRing \cap (InFlight \cup lost) = {}
         /\ writer.pc # "free" => written \cap InRing = {}
<1>1. emit \in [Producers -> EmitterStates] /\ g_seq \in Nat
  BY DEF TypeOK, EmitterStates
<1>2. \A q \in Producers : emit[q].seq \in Nat
  BY <1>1 DEF EmitterStates
<1>3. InFlight \subseteq 1..g_seq
  BY <1>1, <1>2 DEF InFlight, Places, EmitSeqs
<1>4. InRing \subseteq 1..g_seq
  BY DEF InRing, Filled, Places, SlotSeqs
<1>5. written \subseteq 1..g_seq /\ lost \subseteq 1..g_seq /\ lost \cap written = {}
  BY DEF Places, Apart
<1>6. 1..g_seq \subseteq written \cup InRing \cup InFlight \cup lost
  <2> SUFFICES ASSUME NEW s \in 1..g_seq
               PROVE  s \in written \cup InRing \cup InFlight \cup lost
    OBVIOUS
  <2>1. s # 0
    OBVIOUS
  <2>2. (\E i \in Slots : g_slots[i].state = "FILLED" /\ g_slots[i].line.seq = s) => s \in InRing
    BY DEF InRing, Filled
  <2>3. (\E p \in Producers : emit[p].seq = s) => s \in InFlight
    BY <2>1 DEF InFlight
  <2> QED BY <2>2, <2>3 DEF Places, Cover
<1>7. (lost \cup written) \cap InFlight = {}
  BY DEF InFlight, Places, EmitSeqs
<1>8. InRing \cap (InFlight \cup lost) = {}
  BY DEF InFlight, InRing, Filled, Places, SlotSeqs
<1>9. writer.pc # "free" => written \cap InRing = {}
  BY DEF InRing, Filled, Places, SlotSeqs
<1> QED BY <1>3, <1>4, <1>5, <1>6, <1>7, <1>8, <1>9

-----------------------------------------------------------------------------
(* How many lines and drops there were.                                    *)

LineCount == IsFiniteSet(written) /\ Cardinality(written) = lines

DropCount ==
  /\ IsFiniteSet(lost)
  /\ Cardinality(lost) = (g_dropped - Covered) + Taken + reported
  /\ writer.pc \in {"top", "drain", "free", "drops", "leave"} => writer.dropped = 0

LEMMA EmitCounts ==
  ASSUME TypeOK, Places, LineCount, DropCount, NEW p \in Producers, Emit(p)
  PROVE  LineCount' /\ DropCount'
<1>1. LineCount'
  BY DEF LineCount, Emit, Enter, TakeSeq, Reserve, LoadState, Claim, Fill, sinkVars
<1>2. writer' = writer /\ reported' = reported
  BY DEF Emit, Enter, TakeSeq, Reserve, LoadState, Claim, Fill
<1>3. CASE UNCHANGED <<lost, g_dropped>>
  BY <1>1, <1>2, <1>3 DEF DropCount, Covered, Taken
<1>4. CASE CountDrop(p) /\ emit[p].pc \in {"load", "claim"}
  <2>1. emit[p].seq \notin lost
    BY DEF Places, EmitSeqs
  <2>2. lost' = lost \cup {emit[p].seq} /\ g_dropped' = g_dropped + 1
    BY <1>4 DEF CountDrop
  <2>3. IsFiniteSet(lost') /\ Cardinality(lost') = Cardinality(lost) + 1
    BY <2>1, <2>2, FS_AddElement DEF DropCount
  <2>4. /\ g_dropped \in Nat /\ reported \in Nat /\ writer.dropped \in Nat
    BY DEF TypeOK
  <2>5. Covered \in Nat /\ Taken \in Nat /\ Covered' = Covered /\ Taken' = Taken
    BY <1>2, <2>4 DEF Covered, Taken
  <2>6. (g_dropped' - Covered) + Taken + reported = ((g_dropped - Covered) + Taken + reported) + 1
    BY <2>2, <2>4, <2>5
  <2>7. Cardinality(lost') = (g_dropped' - Covered') + Taken' + reported'
    BY <1>2, <2>3, <2>5, <2>6 DEF DropCount
  <2> QED BY <1>1, <1>2, <2>3, <2>7 DEF DropCount
<1>5. UNCHANGED <<lost, g_dropped>> \/ (CountDrop(p) /\ emit[p].pc \in {"load", "claim"})
  BY DEF Emit, Enter, TakeSeq, Reserve, LoadState, Claim, Fill
<1> QED BY <1>3, <1>4, <1>5

LEMMA WriterCounts ==
  ASSUME TypeOK, Places, LineCount, DropCount, Writer
  PROVE  LineCount' /\ DropCount'
<1>1. /\ g_dropped \in Nat /\ reported \in Nat /\ lines \in Nat /\ g_seq \in Nat
      /\ writer \in [pc : {"top", "drain", "free", "drops", "overflow", "notice",
                           "leave", "last", "gone"},
                     head : 0..HeadMod-1, dropped : Nat]
  BY DEF TypeOK
<1>2. ASSUME NEW n, n \notin written, WriteLine(n)
      PROVE  LineCount'
  BY <1>2, FS_AddElement DEF LineCount, WriteLine
<1>3. g_seq + 1 \notin written
  BY <1>1 DEF Places, Apart
<1>4. ASSUME UNCHANGED <<lost, g_dropped, reported>>, Covered' = Covered, Taken' = Taken,
             writer'.pc \in {"top", "drain", "free", "drops", "leave"} => writer'.dropped = 0
      PROVE  DropCount'
  BY <1>4 DEF DropCount
<1>5. CASE WriterTop
  BY <1>1, <1>4, <1>5 DEF WriterTop, LineCount, DropCount, Covered, Taken, sinkVars
<1>6. CASE DrainSlot
  <2>1. SlotOf(g_tail) \in Slots
    BY SlotRange DEF TypeOK
  <2>2. AtTail.line.seq \notin written
    BY <1>6, <2>1 DEF DrainSlot, Drainable, AtTail, Places, SlotSeqs
  <2>3. LineCount'
    BY <1>2, <1>6, <2>2 DEF DrainSlot
  <2> QED BY <1>1, <1>4, <1>6, <2>3 DEF DrainSlot, DropCount, Covered, Taken
<1>7. CASE FreeSlot
  BY <1>1, <1>4, <1>7 DEF FreeSlot, LineCount, DropCount, Covered, Taken, sinkVars
<1>8. CASE ClockSync
  <2>1. LineCount'
    BY <1>2, <1>3, <1>8 DEF ClockSync
  <2> QED BY <1>1, <1>4, <1>8, <2>1 DEF ClockSync, DropCount, Covered, Taken, Top
<1>9. CASE LoadDropped
  BY <1>1, <1>4, <1>9 DEF LoadDropped, LineCount, Covered, Taken, Top, sinkVars
<1>10. CASE TakeDropped
  <2>1. LineCount'
    BY <1>10 DEF TakeDropped, LineCount, sinkVars
  <2>2. CASE g_dropped = writer.dropped
    BY <1>1, <1>10, <2>1, <2>2 DEF TakeDropped, DropCount, Covered, Taken
  <2>3. CASE g_dropped # writer.dropped
    BY <1>1, <1>4, <1>10, <2>1, <2>3 DEF TakeDropped, Covered, Taken, Top
  <2> QED BY <2>2, <2>3
<1>11. CASE Notice
  <2>1. LineCount'
    BY <1>2, <1>3, <1>11 DEF Notice, Overflow
  <2>2. /\ writer.pc = "notice" /\ writer' = Top /\ reported' = reported + writer.dropped
        /\ UNCHANGED <<lost, g_dropped>>
    BY <1>11 DEF Notice, Overflow
  <2>3. DropCount'
    BY <1>1, <2>2 DEF DropCount, Covered, Taken, Top
  <2> QED BY <2>1, <2>3
<1>12. CASE LastDropped
  BY <1>1, <1>4, <1>12 DEF LastDropped, LineCount, DropCount, Covered, Taken, sinkVars
<1>13. CASE LastNotice
  <2>1. LineCount'
    BY <1>2, <1>3, <1>13 DEF LastNotice, Overflow
  <2>2. /\ writer.pc = "last" /\ writer'.pc = "gone" /\ writer'.dropped = writer.dropped
        /\ reported' = reported + writer.dropped /\ UNCHANGED <<lost, g_dropped>>
    BY <1>1, <1>13 DEF LastNotice, Overflow
  <2>3. DropCount'
    BY <1>1, <2>2 DEF DropCount, Covered, Taken
  <2> QED BY <2>1, <2>3
<1> QED BY <1>5, <1>6, <1>7, <1>8, <1>9, <1>10, <1>11, <1>12, <1>13 DEF Writer

LEMMA MainCounts ==
  ASSUME LineCount, DropCount, Main
  PROVE  LineCount' /\ DropCount'
  BY DEF Main, Shutdown, CloseSinks, ResetRing, LineCount, DropCount, Covered, Taken, sinkVars

-----------------------------------------------------------------------------
\* The inductive invariant.  Once the ring is cleared, a late emitter works on
\* a ring nobody reads.
TlmInv ==
  TypeOK /\ (main # "down" => OneFiller /\ Places /\ LineCount /\ DropCount)

LEMMA TlmInit == Init => TlmInv
<1> SUFFICES ASSUME Init
             PROVE  TlmInv
  OBVIOUS
<1>1. TypeOK
  BY InitType
<1>2. OneFiller
  BY DEF Init, OneFiller, Idle, Empty
<1>3. Places
  BY DEF Init, Places, EmitSeqs, SlotSeqs, WriterSlot, AtTail, Apart, Cover, Idle, Empty, Top,
     Slots
<1>4. LineCount /\ DropCount
  BY FS_EmptySet DEF Init, LineCount, DropCount, Covered, Taken, Top
<1> QED BY <1>1, <1>2, <1>3, <1>4 DEF TlmInv

LEMMA TlmStep ==
  ASSUME TlmInv, [Next]_vars
  PROVE  TlmInv'
<1>1. TypeOK /\ TypeOK'
  BY TypeStep DEF TlmInv
<1> SUFFICES ASSUME main' # "down"
             PROVE  OneFiller' /\ Places' /\ LineCount' /\ DropCount'
  BY <1>1 DEF TlmInv
<1>2. CASE UNCHANGED vars
  <2>1. /\ g_slots' = g_slots /\ g_tail' = g_tail /\ g_seq' = g_seq /\ g_dropped' = g_dropped
        /\ emit' = emit /\ writer' = writer /\ main' = main /\ written' = written
        /\ lines' = lines /\ reported' = reported /\ lost' = lost
    BY <1>2 DEF vars, ringVars, sinkVars
  <2>2. OneFiller /\ Places /\ LineCount /\ DropCount
    BY <2>1 DEF TlmInv
  <2>3. OneFiller'
    BY <2>1, <2>2 DEF OneFiller, SlotOf
  <2>4. EmitSeqs'
    BY <2>1, <2>2 DEF Places, EmitSeqs
  <2>5. SlotSeqs'
    BY <2>1, <2>2 DEF Places, SlotSeqs, SlotOf
  <2>6. WriterSlot' /\ Apart'
    BY <2>1, <2>2 DEF Places, WriterSlot, AtTail, SlotOf, Apart
  <2>7. Cover'
    BY <2>1, <2>2 DEF Places, Cover
  <2>8. LineCount' /\ DropCount'
    BY <2>1, <2>2 DEF LineCount, DropCount, Covered, Taken
  <2> QED
    BY <2>3, <2>4, <2>5, <2>6, <2>7, <2>8 DEF Places
<1>3. ASSUME NEW p \in Producers, Emit(p)
      PROVE  OneFiller' /\ Places' /\ LineCount' /\ DropCount'
  <2>1. main # "down"
    BY <1>3 DEF Emit, Enter, TakeSeq, Reserve, LoadState, Claim, Fill
  <2> QED BY <1>1, <1>3, <2>1, EmitFiller, EmitPlaces, EmitCounts DEF TlmInv
<1>4. CASE Writer
  <2>1. main # "down"
    BY <1>4 DEF Writer, WriterTop, DrainSlot, FreeSlot, ClockSync, LoadDropped, TakeDropped,
       Notice, LastDropped, LastNotice, Overflow
  <2> QED BY <1>1, <1>4, <2>1, WriterFiller, WriterPlaces, WriterCounts DEF TlmInv, Places
<1>5. CASE Main
  <2>1. main # "down"
    BY <1>5 DEF Main, Shutdown, CloseSinks, ResetRing
  <2> QED BY <1>5, <2>1, MainFiller, MainPlaces, MainCounts DEF TlmInv
<1> QED BY <1>2, <1>3, <1>4, <1>5 DEF Next, Terminated

LEMMA TlmInvariant == Spec => []TlmInv
  BY TlmInit, TlmStep, PTL DEF Spec

\* For any number of emitting threads, any ring size and any number of events:
\* no slot of g_slots is filled by two emitters at a time, also when g_head
\* and g_tail wrap around.
THEOREM OneFillerPerSlot == Spec => []OneFiller
<1>1. TlmInv => OneFiller
  BY DEF TlmInv, OneFiller
<1> QED BY <1>1, TlmInvariant, PTL

\* Every seq handed out by g_seq is in exactly one place, with its emitter, in
\* the ring, written or dropped, until vmc_tlm_shutdown clears the ring.
THEOREM SeqInOnePlace == Spec => []EachOnce
<1>1. TlmInv => EachOnce
  BY PlacesGive DEF TlmInv, EachOnce, LineCount
<1> QED BY <1>1, TlmInvariant, PTL

\* Every event that found the ring full is counted exactly once: in g_dropped,
\* with the writer, or in a tlm_overflow line.
THEOREM DropsCountedOnce == Spec => []DropsCounted
<1>1. TlmInv => DropsCounted
  BY DEF TlmInv, DropsCounted, DropCount
<1> QED BY <1>1, TlmInvariant, PTL
=============================================================================
