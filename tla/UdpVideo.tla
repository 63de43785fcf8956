------------------------------ MODULE UdpVideo ------------------------------
(***************************************************************************)
(* The UDP video path: the simulator's send_au splits each access unit     *)
(* into datagrams (tools/vmc_sim/main.c), the network delays, reorders,    *)
(* loses and duplicates them, and the client's main loop pushes them into  *)
(* the jitter buffer and drains it into the assembler (the loop of         *)
(* apps/thinclient/main.c).  Composes JitterBuffer and Fragment.           *)
(***************************************************************************)
EXTENDS JitterBuffer, Fragment

CONSTANTS Start,      \* the first datagram of each access unit, and an end
          KeyFrames,  \* which of them are keyframes
          FirstSeq,   \* sequence number of the first datagram
          FidMod,     \* frame ids are the first seq modulo FidMod (2^16)
          NetDelay,   \* longest transit time of a datagram, in ticks
          MayLose,    \* datagrams the network may lose
          MayDup      \* datagrams it may deliver twice

VARIABLES sent,   \* datagrams sent so far
          net,    \* datagrams in flight: set of [pkt, copy, age]
          phase,  \* main loop: "recv" or "drain"
          played, \* the datagram taken from the jitter buffer last (0: none)
          lost    \* history: the datagrams the network lost

vars == <<jbVars, fragVars, sent, net, phase, played, lost>>

NFrames     == Len(Start) - 1
FrameLen(f) == Start[f+1] - Start[f]
Packets     == 1 .. Start[NFrames+1] - 1

\* The datagram's header and fragment header, as send_au fills them in.
FrameOf(p) == CHOOSE f \in 1..NFrames : Start[f] <= p /\ p < Start[f+1]
SeqOf(p)   == (FirstSeq + p - 1) % SeqMod
Fid(f)     == SeqOf(Start[f]) % FidMod
FidOf(p)   == Fid(FrameOf(p))
IndexOf(p) == p - Start[FrameOf(p)]
IsLast(p)  == p + 1 = Start[FrameOf(p) + 1]
IsKey(p)   == FrameOf(p) \in KeyFrames
Chunks(f)  == [i \in 1..FrameLen(f) |-> Start[f] + i - 1]

\* Access units follow one another, and no two of them share a 16-bit id: the
\* client is never behind by as many datagrams as there are ids.
ASSUME StreamAssumption ==
  /\ Start \in Seq(Nat) /\ Len(Start) \in Nat \ {0} /\ Start[1] = 1
  /\ \A f, g \in 1..Len(Start) : f < g => Start[f] < Start[g]
  /\ \A p \in Packets : \E f \in 1..NFrames : Start[f] <= p /\ p < Start[f+1]
  /\ \A f, g \in 1..NFrames : Fid(f) = Fid(g) => f = g
  /\ FirstSeq \in Nat /\ FidMod \in Nat \ {0} /\ NetDelay \in Nat

Init ==
  /\ vmc_jb_init
  /\ vmc_frag_init
  /\ sent = 0 /\ net = {} /\ phase = "recv" /\ played = 0 /\ lost = {}

\* send_au, one datagram; the network may drop it or carry it twice.
Send ==
  /\ sent + 1 \in Packets
  /\ sent' = sent + 1
  /\ LET pkt(c) == [pkt |-> sent + 1, copy |-> c, age |-> 0]
     IN  \/ net' = net \cup {pkt(1)} /\ UNCHANGED lost
         \/ sent + 1 \in MayLose /\ lost' = lost \cup {sent + 1} /\ UNCHANGED net
         \/ sent + 1 \in MayDup /\ net' = net \cup {pkt(1), pkt(2)} /\ UNCHANGED lost
  /\ UNCHANGED <<jbVars, fragVars, phase, played>>

\* The receive loop takes one video datagram: push, and rebase on a keyframe
\* that was not accepted.
Receive(d) ==
  /\ phase = "recv" /\ d \in net
  /\ net' = net \ {d}
  /\ IF PushStatus(SeqOf(d.pkt)) # "OK" /\ IsKey(d.pkt)
       THEN ResetAndPush(SeqOf(d.pkt), d.pkt)
       ELSE vmc_jb_push(SeqOf(d.pkt), d.pkt)
  /\ UNCHANGED <<fragVars, sent, phase, played, lost>>

\* The socket has nothing more: go and drain.
ReceiveDone ==
  /\ phase = "recv"
  /\ phase' = "drain"
  /\ UNCHANGED <<jbVars, fragVars, sent, net, played, lost>>

\* One playable datagram: fragments go to the assembler, a single-datagram
\* access unit is decoded at once (its completion is recorded like theirs).
DrainOne(s) ==
  /\ phase = "drain"
  /\ PeekAndConsume(s)
  /\ played' = s.pkt
  /\ IF FrameLen(FrameOf(s.pkt)) = 1
       THEN au' = <<s.pkt>> /\ UNCHANGED asm
       ELSE vmc_frag_feed(FidOf(s.pkt), IndexOf(s.pkt), IsLast(s.pkt), s.pkt)
  /\ UNCHANGED <<sent, net, phase, lost>>

DrainDone ==
  /\ phase = "drain" /\ NothingPlayable
  /\ phase' = "recv"
  /\ UNCHANGED <<jbVars, fragVars, sent, net, played, lost>>

\* A datagram spends at most NetDelay ticks in the network.
Tick ==
  /\ \A d \in net : d.age < NetDelay
  /\ Age
  /\ net' = {[d EXCEPT !.age = @ + 1] : d \in net}
  /\ UNCHANGED <<fragVars, sent, phase, played, lost>>

Drain == \E s \in jslots : DrainOne(s)
ReceiveAny == \E d \in net : Receive(d)

Next == Send \/ ReceiveAny \/ ReceiveDone \/ Drain \/ DrainDone \/ Tick

Spec == Init /\ [][Next]_vars

\* The sender keeps sending, the loop keeps receiving and draining, time
\* passes.
FairSpec ==
  /\ Spec
  /\ WF_vars(Send) /\ SF_vars(ReceiveAny) /\ WF_vars(ReceiveDone)
  /\ WF_vars(Drain) /\ WF_vars(DrainDone) /\ WF_vars(Tick)

-----------------------------------------------------------------------------
\* Types of the composed state; in particular every buffered datagram keeps
\* the sequence number it was sent with, and slots are never over-committed.
TypeOK ==
  /\ jslots \subseteq [seq : Seqs, age : 0..Delay, pkt : Packets]
  /\ \A s \in jslots : s.seq = SeqOf(s.pkt)
  /\ Cardinality(jslots) <= MaxSlots
  /\ next_seq \in Seqs /\ target \in {0, Delay}
  /\ stats_pushed \in Nat /\ stats_played \in Nat
  /\ asm \in [started : BOOLEAN, frame_id : 0..FidMod-1,
              next_index : Nat, buf : Seq(Packets)]
  /\ sent \in 0..Start[NFrames+1]-1 /\ phase \in {"recv", "drain"}
  /\ net \subseteq [pkt : Packets, copy : {1, 2}, age : 0..NetDelay]

\* A datagram counted as pushed is either still buffered or has been played
\* (push, consume and the rebase of the main loop keep the books together):
\* none vanishes from a slot and none is taken twice.
JbAccounting == stats_pushed = stats_played + Cardinality(jslots)

\* Whatever the network does, an access unit handed to the decoder is exactly
\* the chunks of one frame, in order: vmc_frag_feed never joins chunks of two
\* frames, skips one or repeats one.
AuIntegrity == au = <<>> \/ \E f \in 1..NFrames : au = Chunks(f)

\* A buffered datagram does not stay: it is played, or flushed by a rebase.
NothingStuck == \A p \in Packets :
  (\E s \in jslots : s.pkt = p) ~> ~(\E s \in jslots : s.pkt = p)

\* When no datagram is delayed by as much as the playout delay, reordering
\* and duplication never reach the decoder: datagrams are played in the order
\* they were sent, each once, around lost ones and across the wrap of the
\* sequence numbers.
PlayedInOrder == [][stats_played' > stats_played => played' > played]_vars

\* ... and every access unit that fits the assembler is delivered to the
\* decoder unless one of its own datagrams was lost: the loss of another
\* one's, a duplicate or the wrap never costs it.
AllDelivered == \A f \in 1..NFrames : FrameLen(f) <= AuCap =>
  <>(au = Chunks(f) \/ \E i \in 1..FrameLen(f) : Chunks(f)[i] \in lost)

-----------------------------------------------------------------------------
(* What comments say, where the code does otherwise.                       *)

\* jitter_buffer.h: "Push with seq; pull in seq order".  That is PlayedInOrder
\* again: a datagram that arrives after its successor was played, or a second
\* copy of one already played, is buffered, next_seq moves back for it and it
\* is played out of order.

\* jitter_buffer.h: the buffer "holds them for a target playout delay".  The
\* rebase's vmc_jb_reset clears the delay for the rest of the session.
HeldForDelay == [][\A s \in jslots : Drain /\ s \notin jslots'
                     => s.age >= Delay]_vars

\* main.c: the rebase is for an "Out-of-window keyframe".  It is also taken
\* for a duplicate of a keyframe datagram that is waiting in the buffer.
Buffered == {s.pkt : s \in jslots}
RebaseOnlyOutOfWindow ==
  [][\A d \in net : d \notin net' /\ IsKey(d.pkt)
        /\ PushStatus(SeqOf(d.pkt)) = "AGAIN" => Buffered \subseteq Buffered']_vars
=============================================================================
