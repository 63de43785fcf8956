---------------------------- MODULE JitterBuffer ----------------------------
(***************************************************************************)
(* src/transport/jitter_buffer.c: the reorder window of the UDP client.    *)
(* A slot carries its age instead of its receive time: the code only ever  *)
(* compares now - recv_us with the target delay and picks the latest       *)
(* recv_us, so ages up to the delay decide everything.  Counters that are  *)
(* only reported (gaps, late, duplicates) are left out.                    *)
(***************************************************************************)
EXTENDS Integers, FiniteSets

CONSTANTS MaxSlots,  \* VMC_JB_MAX_SLOTS
          SeqMod,    \* u32 sequence numbers are modulo SeqMod
          Delay      \* target_delay_us given to vmc_jb_init, in ticks

ASSUME JitterAssumption ==
  /\ MaxSlots \in Nat \ {0} /\ SeqMod \in Nat /\ Delay \in Nat
  /\ SeqMod % 2 = 0 /\ 2 * MaxSlots < SeqMod

VARIABLES jslots,    \* the valid slots: a set of [seq, age, pkt]
          next_seq,
          target,    \* target_delay_us
          stats_pushed, stats_played

jbVars == <<jslots, next_seq, target, stats_pushed, stats_played>>

Seqs == 0..SeqMod-1

PlainCmp(a, b) == a - b

\* (i32)(a - b)
seq_cmp(a, b) ==
  LET d == (a - b) % SeqMod IN IF d < SeqMod \div 2 THEN d ELSE d - SeqMod

vmc_jb_init ==
  /\ jslots = {} /\ next_seq = 0 /\ target = Delay
  /\ stats_pushed = 0 /\ stats_played = 0

\* What vmc_jb_push returns for seq, given the base it would use.
Base(seq) == IF stats_pushed = 0 THEN seq ELSE next_seq

InWindow(seq) ==
  LET fwd == seq_cmp(seq, Base(seq)) IN fwd < MaxSlots /\ fwd > -MaxSlots

PushStatus(seq) ==
  IF \E s \in jslots : s.seq = seq THEN "AGAIN"
  ELSE IF ~InWindow(seq) THEN "OUT_OF_SYNC"
  ELSE IF Cardinality(jslots) = MaxSlots THEN "OVERRUN" ELSE "OK"

NewSlot(seq, pkt) == [seq |-> seq, age |-> 0, pkt |-> pkt]

\* vmc_jb_push.
vmc_jb_push(seq, pkt) ==
  LET st == PushStatus(seq)
  IN  /\ next_seq' = Base(seq)
      /\ jslots' = IF st = "OK" THEN jslots \cup {NewSlot(seq, pkt)} ELSE jslots
      /\ stats_pushed' = stats_pushed + (IF st = "OK" THEN 1 ELSE 0)
      /\ UNCHANGED <<target, stats_played>>

ResetKeepStats(seq, pkt) ==
  /\ next_seq' = seq
  /\ jslots' = {NewSlot(seq, pkt)}
  /\ stats_pushed' = stats_pushed + 1
  /\ UNCHANGED <<target, stats_played>>

\* vmc_jb_reset(seq) followed by vmc_jb_push(seq): the memset also clears
\* the target delay and the statistics.
ResetAndPush(seq, pkt) ==
  /\ next_seq' = seq
  /\ jslots' = {NewSlot(seq, pkt)}
  /\ target' = 0
  /\ stats_pushed' = 1 /\ stats_played' = 0

-----------------------------------------------------------------------------
(* vmc_jb_peek: the lowest sequence number, if it may be played now.       *)
IsMin(s) == \A r \in jslots : seq_cmp(s.seq, r.seq) <= 0
NewestAge == CHOOSE a \in {s.age : s \in jslots} :
               \A s \in jslots : a <= s.age

GapNever(s) == FALSE

\* The gap before s is declared lost: even the newest arrival is old enough.
GapExpired(s) == seq_cmp(s.seq, next_seq) > 0 /\ NewestAge >= target

Playable(s) ==
  /\ s \in jslots /\ IsMin(s)
  /\ s.age >= target
  /\ seq_cmp(s.seq, next_seq) <= 0 \/ GapExpired(s)

NothingPlayable == \A s \in jslots : ~Playable(s)

\* peek moves next_seq to the slot it returns (forward over a gap, backward
\* for a late arrival) and vmc_jb_consume then takes it.
PeekAndConsume(s) ==
  /\ Playable(s)
  /\ jslots' = jslots \ {s}
  /\ next_seq' = (s.seq + 1) % SeqMod
  /\ stats_played' = stats_played + 1
  /\ UNCHANGED <<target, stats_pushed>>

\* Time passes.
Age ==
  /\ jslots' = {[s EXCEPT !.age = IF @ < Delay THEN @ + 1 ELSE @] : s \in jslots}
  /\ UNCHANGED <<next_seq, target, stats_pushed, stats_played>>
=============================================================================
