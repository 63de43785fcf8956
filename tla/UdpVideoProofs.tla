--------------------------- MODULE UdpVideoProofs ---------------------------
(***************************************************************************)
(* For every stream, every window and every width of the sequence numbers, *)
(* and whatever the network does: the jitter buffer keeps its books, and   *)
(* an access unit given to the decoder is exactly one frame.  While the    *)
(* network is faster than the playout delay, datagrams are played in the   *)
(* order in which they were sent, up to the first rebase.                  *)
(***************************************************************************)
EXTENDS UdpVideo, FiniteSetTheorems, SequenceTheorems, TLAPS

Slots == [seq : Seqs, age : 0..Delay, pkt : Packets]
Assemblies == [started : BOOLEAN, frame_id : 0..FidMod-1, next_index : Nat, buf : Seq(Packets)]

\* b holds the first chunks of frame f.
Partial(f, b) == b \in Seq(Packets) /\ \A i \in 1..Len(b) : b[i] = Start[f] + i - 1

\* What an assembly in progress has gathered.
Gathered(a) == \E f \in 1..NFrames :
  a.frame_id = Fid(f) /\ a.next_index = Len(a.buf) /\ Partial(f, a.buf)

UInv ==
  /\ TypeOK /\ IsFiniteSet(jslots)
  /\ \A s, r \in jslots : s.seq = r.seq => s = r
  /\ JbAccounting
  /\ asm.started => Gathered(asm)
  /\ AuIntegrity

-----------------------------------------------------------------------------
(* Headers.                                                                *)

\* A remainder lies below its divisor.
LEMMA ModRange == ASSUME NEW n \in Nat \ {0}, NEW a \in Int PROVE a % n \in 0..n-1
  OBVIOUS

\* The widths and bounds the assumptions give.
LEMMA Widths ==
    /\ SeqMod \in Nat \ {0} /\ FidMod \in Nat \ {0} /\ MaxSlots \in Nat \ {0} /\ Delay \in Nat
    /\ NFrames \in Nat /\ Len(Start) = NFrames + 1
    /\ \A f \in 1..NFrames+1 : Start[f] \in Nat
  BY JitterAssumption, StreamAssumption DEF NFrames

\* Sequence numbers and frame ids are within their widths.
LEMMA HeaderRange ==
    /\ \A p \in Nat : SeqOf(p) \in Seqs
    /\ \A f \in 1..NFrames : Fid(f) \in 0..FidMod-1
  <1>1. ASSUME NEW p \in Nat PROVE SeqOf(p) \in Seqs
    <2> DEFINE a == FirstSeq + p - 1
    <2>1. a \in Int
      BY StreamAssumption
    <2> HIDE DEF a
    <2>2. a % SeqMod \in 0..SeqMod-1
      BY <2>1, Widths, ModRange
    <2> QED  BY <2>2 DEF SeqOf, Seqs, a
  <1>2. ASSUME NEW f \in 1..NFrames PROVE Fid(f) \in 0..FidMod-1
    <2> DEFINE a == SeqOf(Start[f])
    <2>1. a \in Int
      BY <1>1, Widths DEF Seqs
    <2> HIDE DEF a
    <2>2. a % FidMod \in 0..FidMod-1
      BY <2>1, Widths, ModRange
    <2> QED  BY <2>2 DEF Fid, a
  <1> QED  BY <1>1, <1>2

\* Every datagram belongs to a frame.
LEMMA PacketFrame ==
    ASSUME NEW p \in Packets
    PROVE  /\ p \in Nat /\ FrameOf(p) \in 1..NFrames
           /\ Start[FrameOf(p)] <= p /\ p < Start[FrameOf(p) + 1]
  <1>1. \E f \in 1..NFrames : Start[f] <= p /\ p < Start[f+1]
    BY StreamAssumption
  <1> QED  BY <1>1 DEF FrameOf, Packets

-----------------------------------------------------------------------------
(* The assembler.                                                          *)

\* The assembly a datagram is added to holds the beginning of its frame.
LEMMA AssemblyOf ==
    ASSUME UInv, NEW p \in Packets
    PROVE  LET a == Assembly(FidOf(p))
           IN  /\ a \in Assemblies /\ a.started /\ a.frame_id = Fid(FrameOf(p))
               /\ a.next_index = Len(a.buf) /\ Partial(FrameOf(p), a.buf)
  <1> DEFINE fid == FidOf(p)
             a   == Assembly(fid)
             f   == FrameOf(p)
             new == [started |-> TRUE, frame_id |-> fid, next_index |-> 0, buf |-> <<>>]
  <1>1. f \in 1..NFrames /\ fid = Fid(f) /\ fid \in 0..FidMod-1
    BY PacketFrame, HeaderRange DEF FidOf
  <1>2. asm \in Assemblies
    BY DEF UInv, TypeOK, Assemblies
  <1>3. CASE ~asm.started \/ fid # asm.frame_id
    <2>1. a = new
      BY <1>3 DEF Assembly
    <2>2. new \in Assemblies
      BY <1>1 DEF Assemblies
    <2>3. Partial(f, <<>>) /\ Len(<<>>) = 0
      BY DEF Partial
    <2> QED  BY <1>1, <2>1, <2>2, <2>3
  <1>4. CASE ~(~asm.started \/ fid # asm.frame_id)
    <2>1. a = asm /\ asm.started /\ asm.frame_id = fid
      BY <1>4 DEF Assembly
    <2>2. PICK g \in 1..NFrames :
            asm.frame_id = Fid(g) /\ asm.next_index = Len(asm.buf) /\ Partial(g, asm.buf)
      BY <2>1 DEF UInv, Gathered
    <2>3. g = f
      BY <1>1, <2>1, <2>2, StreamAssumption
    <2> QED  BY <1>1, <1>2, <2>1, <2>2, <2>3
  <1> QED  BY <1>3, <1>4

\* A chunk with the right index extends the beginning of its frame.
LEMMA Extends ==
    ASSUME NEW p \in Packets, NEW b, Partial(FrameOf(p), b), IndexOf(p) = Len(b)
    PROVE  /\ Partial(FrameOf(p), Append(b, p)) /\ Len(Append(b, p)) = IndexOf(p) + 1
           /\ IsLast(p) => Append(b, p) = Chunks(FrameOf(p))
  <1> DEFINE f == FrameOf(p)
             c == Append(b, p)
  <1>1. f \in 1..NFrames /\ Start[f] \in Nat /\ Start[f+1] \in Nat /\ p \in Nat
    BY PacketFrame, Widths
  <1>2. b \in Seq(Packets) /\ Len(b) \in Nat /\ p = Start[f] + Len(b)
    BY <1>1 DEF Partial, IndexOf
  <1>3. c \in Seq(Packets) /\ Len(c) = Len(b) + 1
    BY <1>2
  <1>4. \A i \in 1..Len(c) : c[i] = Start[f] + i - 1
    BY <1>1, <1>2 DEF Partial
  <1>5. Partial(f, c)
    BY <1>3, <1>4 DEF Partial
  <1>6. ASSUME IsLast(p) PROVE c = Chunks(f)
    <2>1. Len(c) = FrameLen(f)
      BY <1>1, <1>2, <1>3, <1>6 DEF IsLast, FrameLen
    <2> HIDE DEF c, f
    <2>2. c \in [1..Len(c) -> Packets]
      BY <1>3, LenProperties
    <2> QED  BY <1>4, <2>1, <2>2 DEF Chunks
  <1> QED  BY <1>2, <1>3, <1>5, <1>6

\* vmc_frag_feed keeps an assembly the beginning of one frame, and completes
\* nothing but whole frames.
LEMMA FeedKeeps ==
    ASSUME UInv, NEW p \in Packets, vmc_frag_feed(FidOf(p), IndexOf(p), IsLast(p), p)
    PROVE  asm' \in Assemblies /\ (asm'.started => Gathered(asm')) /\ AuIntegrity'
  <1> DEFINE f == FrameOf(p)
             a == Assembly(FidOf(p))
             n == [started |-> ~IsLast(p), frame_id |-> a.frame_id,
                   next_index |-> IndexOf(p) + 1, buf |-> Append(a.buf, p)]
  <1>1. /\ a \in Assemblies /\ a.frame_id = Fid(f)
        /\ a.next_index = Len(a.buf) /\ Partial(f, a.buf)
    BY AssemblyOf
  <1>2. f \in 1..NFrames
    BY PacketFrame
  <1>3. CASE IndexOf(p) # a.next_index \/ Len(a.buf) >= AuCap
    <2>1. asm' = [a EXCEPT !.started = FALSE] /\ au' = au
      BY <1>3 DEF vmc_frag_feed
    <2> HIDE DEF a
    <2>2. asm' \in Assemblies /\ asm'.started = FALSE
      BY <1>1, <2>1 DEF Assemblies
    <2> QED  BY <2>1, <2>2 DEF AuIntegrity, UInv
  <1>4. CASE ~(IndexOf(p) # a.next_index \/ Len(a.buf) >= AuCap)
    <2>1. asm' = n /\ au' = IF IsLast(p) THEN n.buf ELSE au
      BY <1>4 DEF vmc_frag_feed
    <2>2. /\ Partial(f, Append(a.buf, p)) /\ Len(Append(a.buf, p)) = IndexOf(p) + 1
          /\ IsLast(p) => Append(a.buf, p) = Chunks(f)
      BY <1>1, <1>4, Extends
    <2>3. IsLast(p) \in BOOLEAN
      BY DEF IsLast
    <2> HIDE DEF a
    <2> DEFINE b == Append(a.buf, p)
               i == IndexOf(p) + 1
    <2>4. b \in Seq(Packets) /\ i \in Nat
      BY <2>2 DEF Partial
    <2> HIDE DEF b, i, f
    <2>5. n = [started |-> ~IsLast(p), frame_id |-> a.frame_id, next_index |-> i, buf |-> b]
      BY DEF b, i
    <2>6. n \in Assemblies
      <3>1. a.frame_id \in 0..FidMod-1
        BY <1>1 DEF Assemblies
      <3> HIDE DEF n
      <3> QED  BY <2>3, <2>4, <2>5, <3>1 DEF Assemblies
    <2>7. n.frame_id = Fid(f) /\ n.next_index = Len(n.buf) /\ Partial(f, n.buf) /\ n.buf = b
      <3> HIDE DEF n
      <3> QED  BY <1>1, <2>2, <2>5 DEF b, i
    <2> HIDE DEF n
    <2>8. Gathered(asm')
      BY <1>2, <2>1, <2>7 DEF Gathered
    <2>9. AuIntegrity'
      BY <1>2, <2>1, <2>2, <2>7 DEF AuIntegrity, UInv, b
    <2> QED  BY <2>1, <2>6, <2>8, <2>9
  <1> QED  BY <1>3, <1>4

-----------------------------------------------------------------------------
(* The jitter buffer.                                                      *)

\* What the jitter buffer's part of the invariant says.
JbInv ==
  /\ jslots \subseteq Slots /\ IsFiniteSet(jslots)
  /\ \A s \in jslots : s.seq = SeqOf(s.pkt)
  /\ \A s, r \in jslots : s.seq = r.seq => s = r
  /\ Cardinality(jslots) <= MaxSlots
  /\ next_seq \in Seqs /\ target \in {0, Delay}
  /\ stats_pushed \in Nat /\ stats_played \in Nat
  /\ JbAccounting

\* A new slot is well formed.
LEMMA NewSlotOK ==
    ASSUME NEW p \in Packets
    PROVE  /\ NewSlot(SeqOf(p), p) \in Slots /\ SeqOf(p) \in Seqs
           /\ NewSlot(SeqOf(p), p).seq = SeqOf(p) /\ NewSlot(SeqOf(p), p).pkt = p
  <1>1. SeqOf(p) \in Seqs
    BY PacketFrame, HeaderRange
  <1> QED  BY <1>1, Widths DEF NewSlot, Slots

\* vmc_jb_push adds the datagram, or leaves the slots alone.
LEMMA PushKeeps ==
    ASSUME JbInv, NEW p \in Packets, vmc_jb_push(SeqOf(p), p) PROVE JbInv'
  <1> DEFINE q == SeqOf(p)
             w == NewSlot(q, p)
  <1>1. w \in Slots /\ q \in Seqs /\ w.seq = q /\ w.pkt = p
    BY NewSlotOK
  <1>2. next_seq' \in Seqs /\ target' = target /\ stats_played' = stats_played
    BY <1>1 DEF vmc_jb_push, Base, JbInv
  <1>3. Cardinality(jslots) \in Nat
    BY FS_CardinalityType DEF JbInv
  <1>4. CASE PushStatus(q) = "OK"
    <2>1. jslots' = jslots \cup {w} /\ stats_pushed' = stats_pushed + 1
      BY <1>4 DEF vmc_jb_push
    <2>2. (\A s \in jslots : s.seq # q) /\ Cardinality(jslots) # MaxSlots
      BY <1>4 DEF PushStatus
    <2>3. w \notin jslots
      BY <1>1, <2>2
    <2> HIDE DEF w, q
    <2>4. IsFiniteSet(jslots') /\ Cardinality(jslots') = Cardinality(jslots) + 1
      BY <2>1, <2>3, FS_AddElement DEF JbInv
    <2>5. /\ Cardinality(jslots') <= MaxSlots /\ stats_pushed' \in Nat
          /\ stats_pushed' = stats_played' + Cardinality(jslots')
      BY <1>2, <1>3, <2>1, <2>2, <2>4, Widths DEF JbInv, JbAccounting
    <2>6. /\ jslots' \subseteq Slots /\ \A s \in jslots' : s.seq = SeqOf(s.pkt)
          /\ \A s, r \in jslots' : s.seq = r.seq => s = r
      BY <1>1, <2>1, <2>2 DEF JbInv, q
    <2> QED  BY <1>2, <2>4, <2>5, <2>6 DEF JbInv, JbAccounting
  <1>5. CASE PushStatus(q) # "OK"
    <2>1. jslots' = jslots /\ stats_pushed' = stats_pushed
      BY <1>5 DEF vmc_jb_push, JbInv
    <2> QED  BY <1>2, <2>1 DEF JbInv, JbAccounting
  <1> QED  BY <1>4, <1>5

\* The rebase leaves the buffer with one datagram.
LEMMA RebaseKeeps ==
    ASSUME JbInv, NEW p \in Packets, ResetAndPush(SeqOf(p), p) PROVE JbInv'
  <1> DEFINE w == NewSlot(SeqOf(p), p)
  <1>1. w \in Slots /\ SeqOf(p) \in Seqs /\ w.seq = SeqOf(p) /\ w.pkt = p
    BY NewSlotOK
  <1>2. jslots' = {w} /\ next_seq' = SeqOf(p) /\ target' = 0 /\ stats_pushed' = 1
        /\ stats_played' = 0
    BY DEF ResetAndPush
  <1> HIDE DEF w
  <1>3. IsFiniteSet(jslots') /\ Cardinality(jslots') = 1
    BY <1>2, FS_Singleton
  <1> QED  BY <1>1, <1>2, <1>3, Widths DEF JbInv, JbAccounting

\* peek and consume take one datagram.
LEMMA ConsumeKeeps ==
    ASSUME JbInv, NEW s \in jslots, PeekAndConsume(s) PROVE JbInv'
  <1>1. jslots' = jslots \ {s} /\ next_seq' = (s.seq + 1) % SeqMod /\ target' = target
        /\ stats_played' = stats_played + 1 /\ stats_pushed' = stats_pushed
    BY DEF PeekAndConsume
  <1>2. next_seq' \in Seqs
    <2> DEFINE a == s.seq + 1
    <2>1. a \in Int
      BY Widths DEF JbInv, Slots, Seqs
    <2> HIDE DEF a
    <2>2. a % SeqMod \in 0..SeqMod-1
      BY <2>1, Widths, ModRange
    <2> QED  BY <1>1, <2>2 DEF Seqs, a
  <1>3. IsFiniteSet(jslots') /\ Cardinality(jslots') = Cardinality(jslots) - 1
    BY <1>1, FS_RemoveElement DEF JbInv
  <1>4. Cardinality(jslots) \in Nat
    BY FS_CardinalityType DEF JbInv
  <1>5. /\ Cardinality(jslots') <= MaxSlots /\ stats_played' \in Nat
        /\ stats_pushed' = stats_played' + Cardinality(jslots')
    BY <1>1, <1>3, <1>4, Widths DEF JbInv, JbAccounting
  <1> QED  BY <1>1, <1>2, <1>3, <1>5 DEF JbInv, JbAccounting

\* Time changes neither the number of slots nor what they hold.
LEMMA AgeKeeps == ASSUME JbInv, Age PROVE JbInv'
  <1> DEFINE o(s) == [s EXCEPT !.age = IF s.age < Delay THEN s.age + 1 ELSE s.age]
             h    == [s \in jslots |-> o(s)]
  <1>1. jslots' = {o(s) : s \in jslots}
        /\ UNCHANGED <<next_seq, target, stats_pushed, stats_played>>
    BY DEF Age
  <1>2. \A s \in jslots : o(s) \in Slots /\ o(s).seq = s.seq /\ o(s).pkt = s.pkt
    BY Widths DEF JbInv, Slots
  <1> HIDE DEF o
  <1>3. h \in [jslots -> jslots']
    BY <1>1
  <1>4. \A s, r \in jslots : h[s] = h[r] => s = r
    BY <1>2 DEF JbInv
  <1>5. \A t \in jslots' : \E s \in jslots : h[s] = t
    BY <1>1
  <1> HIDE DEF h
  <1>6. h \in Bijection(jslots, jslots')
    BY <1>3, <1>4, <1>5 DEF Bijection, Injection, Surjection, IsInjective
  <1>7. IsFiniteSet(jslots') /\ Cardinality(jslots') = Cardinality(jslots)
    BY <1>6, FS_Bijection DEF ExistsBijection, JbInv
  <1>8. /\ jslots' \subseteq Slots /\ \A s \in jslots' : s.seq = SeqOf(s.pkt)
        /\ \A s, r \in jslots' : s.seq = r.seq => s = r
    BY <1>1, <1>2 DEF JbInv
  <1> QED  BY <1>1, <1>7, <1>8 DEF JbInv, JbAccounting

-----------------------------------------------------------------------------
(* The two together.                                                       *)

\* The invariant without the jitter buffer.
RestInv ==
  /\ asm \in Assemblies /\ (asm.started => Gathered(asm)) /\ AuIntegrity
  /\ sent \in 0..Start[NFrames+1]-1 /\ phase \in {"recv", "drain"}
  /\ net \subseteq [pkt : Packets, copy : {1, 2}, age : 0..NetDelay]

\* The invariant is the conjunction of the two parts.
LEMMA Parts == UInv <=> JbInv /\ RestInv
  BY DEF UInv, TypeOK, JbInv, RestInv, Slots, Assemblies

\* Initially nothing is buffered, assembled or sent.
LEMMA UInvInit == Init => UInv
  <1> SUFFICES ASSUME Init PROVE UInv
    OBVIOUS
  <1>1. JbInv
    <2>1. jslots = {} /\ next_seq = 0 /\ target = Delay /\ stats_pushed = 0 /\ stats_played = 0
      BY DEF Init, vmc_jb_init
    <2>2. IsFiniteSet({}) /\ Cardinality({}) = 0
      BY FS_EmptySet
    <2> QED  BY <2>1, <2>2, Widths DEF JbInv, JbAccounting, Seqs
  <1>2. RestInv
    <2>1. asm \in Assemblies /\ asm.started = FALSE /\ au = <<>>
      BY Widths DEF Init, vmc_frag_init, Assemblies
    <2>2. Start[NFrames+1] \in Nat /\ Start[NFrames+1] >= 1
      <3>1. CASE NFrames = 0
        BY <3>1, StreamAssumption, Widths
      <3>2. CASE NFrames # 0
        BY <3>2, StreamAssumption, Widths
      <3> QED  BY <3>1, <3>2
    <2> QED  BY <2>1, <2>2 DEF Init, RestInv, AuIntegrity
  <1> QED  BY <1>1, <1>2, Parts

\* Every step keeps the invariant.
LEMMA UInvStep == ASSUME UInv, [Next]_vars PROVE UInv'
  <1> USE DEF jbVars, fragVars
  <1>j. JbInv /\ RestInv
    BY Parts
  <1>q. JbInv' /\ RestInv' => UInv'
    BY DEF UInv, TypeOK, JbInv, RestInv, Slots, Assemblies
  <1>p. Start[NFrames+1] \in Nat /\ NetDelay \in Nat
    BY Widths, StreamAssumption
  <1>k. ASSUME UNCHANGED jbVars PROVE JbInv'
    BY <1>j, <1>k DEF JbInv, JbAccounting
  <1>r. ASSUME UNCHANGED fragVars PROVE asm' \in Assemblies /\ (asm'.started => Gathered(asm'))
                                        /\ AuIntegrity'
    BY <1>j, <1>r DEF RestInv, AuIntegrity
  <1>1. CASE Send
    <2>1. sent' = sent + 1 /\ sent + 1 \in Packets /\ UNCHANGED <<jbVars, fragVars, phase>>
      BY <1>1 DEF Send
    <2>2. sent' \in 0..Start[NFrames+1]-1
      BY <1>p, <2>1 DEF Packets
    <2>3. net' \subseteq [pkt : Packets, copy : {1, 2}, age : 0..NetDelay]
      <3> DEFINE k(c) == [pkt |-> sent + 1, copy |-> c, age |-> 0]
      <3>1. net' \subseteq net \cup {k(1), k(2)}
        BY <1>1 DEF Send
      <3>2. k(1) \in [pkt : Packets, copy : {1, 2}, age : 0..NetDelay]
            /\ k(2) \in [pkt : Packets, copy : {1, 2}, age : 0..NetDelay]
        BY <1>p, <2>1
      <3> HIDE DEF k
      <3> QED  BY <1>j, <3>1, <3>2 DEF RestInv
    <2>4. RestInv'
      BY <1>j, <1>r, <2>1, <2>2, <2>3 DEF RestInv
    <2> QED  BY <1>k, <2>1, <2>4, <1>q
  <1>2. ASSUME NEW d \in net, Receive(d) PROVE UInv'
    <2>1. d.pkt \in Packets
      BY <1>j DEF RestInv
    <2>2. JbInv'
      <3>1. ResetAndPush(SeqOf(d.pkt), d.pkt) \/ vmc_jb_push(SeqOf(d.pkt), d.pkt)
        BY <1>2 DEF Receive
      <3> QED  BY <1>j, <2>1, <3>1, RebaseKeeps, PushKeeps
    <2>3. net' \subseteq net /\ UNCHANGED <<fragVars, sent, phase>>
      BY <1>2 DEF Receive
    <2>4. RestInv'
      BY <1>j, <1>r, <2>3 DEF RestInv
    <2> QED  BY <2>2, <2>4, <1>q
  <1>3. CASE ReceiveDone
    <2>1. UNCHANGED <<jbVars, fragVars, sent, net>> /\ phase' \in {"recv", "drain"}
      BY <1>3 DEF ReceiveDone
    <2>2. RestInv'
      BY <1>j, <1>r, <2>1 DEF RestInv
    <2> QED  BY <1>k, <2>1, <2>2, <1>q
  <1>4. ASSUME NEW s \in jslots, DrainOne(s) PROVE UInv'
    <2>1. JbInv'
      BY <1>4, <1>j, ConsumeKeeps DEF DrainOne
    <2>2. s.pkt \in Packets
      BY <1>j DEF JbInv, Slots
    <2>3. UNCHANGED <<sent, net, phase>>
      BY <1>4 DEF DrainOne
    <2>4. asm' \in Assemblies /\ (asm'.started => Gathered(asm')) /\ AuIntegrity'
      <3> DEFINE f == FrameOf(s.pkt)
      <3>1. CASE FrameLen(f) = 1
        <4>1. au' = <<s.pkt>> /\ asm' = asm
          BY <1>4, <3>1 DEF DrainOne
        <4>2. f \in 1..NFrames /\ s.pkt = Start[f]
          BY <2>2, <3>1, PacketFrame, Widths DEF FrameLen
        <4> HIDE DEF f
        <4>3. Chunks(f) = <<Start[f]>>
          BY <3>1, <4>2, Widths DEF Chunks
        <4> QED  BY <1>j, <4>1, <4>2, <4>3 DEF RestInv, AuIntegrity
      <3>2. CASE FrameLen(f) # 1
        <4>1. vmc_frag_feed(FidOf(s.pkt), IndexOf(s.pkt), IsLast(s.pkt), s.pkt)
          BY <1>4, <3>2 DEF DrainOne
        <4> QED  BY <2>2, <4>1, FeedKeeps
      <3> QED  BY <3>1, <3>2
    <2>5. RestInv'
      BY <1>j, <2>3, <2>4 DEF RestInv
    <2> QED  BY <2>1, <2>5, <1>q
  <1>5. CASE DrainDone
    <2>1. UNCHANGED <<jbVars, fragVars, sent, net>> /\ phase' \in {"recv", "drain"}
      BY <1>5 DEF DrainDone
    <2>2. RestInv'
      BY <1>j, <1>r, <2>1 DEF RestInv
    <2> QED  BY <1>k, <2>1, <2>2, <1>q
  <1>6. CASE Tick
    <2>1. JbInv'
      BY <1>6, <1>j, AgeKeeps DEF Tick
    <2>2. net' \subseteq [pkt : Packets, copy : {1, 2}, age : 0..NetDelay]
      BY <1>6, <1>j, <1>p DEF Tick, RestInv
    <2>3. UNCHANGED <<fragVars, sent, phase>>
      BY <1>6 DEF Tick
    <2>4. RestInv'
      BY <1>j, <1>r, <2>2, <2>3 DEF RestInv
    <2> QED  BY <2>1, <2>4, <1>q
  <1>7. CASE UNCHANGED vars
    <2>1. UNCHANGED <<jbVars, fragVars, sent, net, phase>>
      BY <1>7 DEF vars
    <2>2. RestInv'
      BY <1>j, <1>r, <2>1 DEF RestInv
    <2> QED  BY <1>k, <2>1, <2>2, <1>q
  <1> QED  BY <1>1, <1>2, <1>3, <1>4, <1>5, <1>6, <1>7 DEF Next, ReceiveAny, Drain

\* send_au, vmc_jb_push, vmc_jb_peek and vmc_frag_feed keep their types, and
\* the window is never over-committed.
THEOREM UdpTyped == Spec => []TypeOK
  <1>1. UInv => TypeOK
    BY DEF UInv
  <1>2. UInv /\ [Next]_vars => UInv'
    BY UInvStep
  <1> QED  BY UInvInit, <1>1, <1>2, PTL DEF Spec

\* Whatever the network loses, repeats and reorders, what vmc_jb_push accepted
\* is buffered or was consumed, once, rebases included.
THEOREM JitterBooks == Spec => []JbAccounting
  <1>1. UInv => JbAccounting
    BY DEF UInv
  <1>2. UInv /\ [Next]_vars => UInv'
    BY UInvStep
  <1> QED  BY UInvInit, <1>1, <1>2, PTL DEF Spec

\* ... and what vmc_frag_feed hands to the decoder is all chunks of one frame
\* in order, for every stream whose frame ids do not repeat.
THEOREM WholeFrames == Spec => []AuIntegrity
  <1>1. UInv => AuIntegrity
    BY DEF UInv
  <1>2. UInv /\ [Next]_vars => UInv'
    BY UInvStep
  <1> QED  BY UInvInit, <1>1, <1>2, PTL DEF Spec

-----------------------------------------------------------------------------
(* The order of play.                                                      *)

\* The stream is shorter than half the sequence space, and the network is
\* faster than the playout delay.
Timely == NetDelay < Delay /\ 2 * Start[NFrames+1] <= SeqMod

\* What was played, is buffered or is in the network was sent.  As long as no
\* rebase has cleared the target delay, what is buffered or in the network
\* comes after what was played, and a datagram that was sent no later than a
\* buffered one is on its way for at least as long as that one waits.
OrderInv ==
  /\ played \in 0..sent
  /\ \A s \in jslots : s.pkt <= sent
  /\ \A d \in net : d.pkt <= sent
  /\ target = Delay =>
       /\ \A s \in jslots : played < s.pkt
       /\ \A d \in net : played < d.pkt
       /\ \A s \in jslots, d \in net : d.pkt <= s.pkt => s.age <= d.age

\* The stream fits the window and no keyframe datagram is duplicated.
NoCauseToRebase ==
  Start[NFrames+1] <= MaxSlots /\ \A p \in Packets : IsKey(p) => p \notin MayDup

\* No rebase has happened: next_seq is the number of a datagram of the stream
\* or of the one after it, and only duplicates are in two places.
Steady ==
  /\ target = Delay
  /\ stats_pushed # 0 => \E k \in 1..Start[NFrames+1] : next_seq = SeqOf(k)
  /\ \A d \in net, s \in jslots : d.pkt = s.pkt => d.pkt \in MayDup
  /\ \A d, e \in net : d.pkt = e.pkt /\ d # e => d.pkt \in MayDup

\* A multiple of n smaller than n is zero.
LEMMA SmallMultiple ==
    ASSUME NEW n \in Nat \ {0}, NEW d \in Int, NEW r \in Int, -n < r, r < n, n * d = r
    PROVE  d = 0
  <1>1. d >= 1 => n * d >= n
    OBVIOUS
  <1>2. d <= -1 => n * d <= -n
    OBVIOUS
  <1> QED  BY <1>1, <1>2

\* There is only one remainder.
LEMMA ModUnique ==
    ASSUME NEW n \in Nat \ {0}, NEW a \in Int, NEW q \in Int, NEW r \in 0..n-1, a = n * q + r
    PROVE  a % n = r
  <1> DEFINE p == a \div n
             t == a % n
  <1>1. p \in Int /\ t \in 0..n-1 /\ a = n * p + t
    OBVIOUS
  <1> HIDE DEF p, t
  <1>2. n * (p - q) = r - t
    BY <1>1
  <1>3. p - q = 0
    BY <1>1, <1>2, SmallMultiple
  <1>4. p = q
    BY <1>1, <1>3
  <1>5. t = r
    BY <1>1, <1>4
  <1> QED  BY <1>5 DEF t

\* seq_cmp gives the distance of two datagrams of a stream that is shorter
\* than half the sequence space, also when their numbers wrap in between.
LEMMA SeqDistance ==
    ASSUME NEW p \in Nat, NEW q \in Nat, 2 * (p - q) < SeqMod, 2 * (q - p) < SeqMod
    PROVE  seq_cmp(SeqOf(p), SeqOf(q)) = p - q
  <1> DEFINE x == FirstSeq + p - 1
             y == FirstSeq + q - 1
             i == x \div SeqMod
             j == y \div SeqMod
             a == x % SeqMod
             b == y % SeqMod
             h == SeqMod \div 2
             e == (a - b) % SeqMod
  <1>1. SeqMod \in Nat \ {0} /\ h \in Int /\ SeqMod = 2 * h
    BY JitterAssumption, Widths
  <1>2. x \in Int /\ y \in Int /\ x - y = p - q
    BY StreamAssumption
  <1>3. i \in Int /\ a \in Int /\ x = SeqMod * i + a
    <2> HIDE DEF x
    <2> QED  BY <1>1, <1>2
  <1>4. j \in Int /\ b \in Int /\ y = SeqMod * j + b
    <2> HIDE DEF y
    <2> QED  BY <1>1, <1>2
  <1>5. seq_cmp(SeqOf(p), SeqOf(q)) = IF e < h THEN e ELSE e - SeqMod
    BY DEF seq_cmp, SeqOf
  <1> HIDE DEF x, y, i, j, a, b, h
  <1>6. a - b \in Int /\ a - b = SeqMod * (j - i) + (p - q) /\ j - i \in Int
    BY <1>1, <1>2, <1>3, <1>4
  <1>7. CASE p - q >= 0
    <2>1. p - q \in 0..SeqMod-1 /\ p - q < h
      BY <1>1, <1>7
    <2>2. e = p - q
      <3> DEFINE c == a - b
                 k == j - i
                 d == p - q
      <3>1. c \in Int /\ k \in Int /\ d \in 0..SeqMod-1 /\ c = SeqMod * k + d
        BY <1>6, <2>1
      <3>2. e = c % SeqMod
        OBVIOUS
      <3> HIDE DEF c, k, d, e
      <3>3. c % SeqMod = d
        BY <1>1, <3>1, ModUnique, Zenon
      <3> QED  BY <3>2, <3>3 DEF d
    <2> HIDE DEF e
    <2> QED  BY <1>5, <2>1, <2>2
  <1>8. CASE p - q < 0
    <2>1. p - q + SeqMod \in 0..SeqMod-1 /\ ~(p - q + SeqMod < h)
      BY <1>1, <1>8
    <2>2. a - b = SeqMod * (j - i - 1) + (p - q + SeqMod) /\ j - i - 1 \in Int
      BY <1>1, <1>3, <1>4, <1>6
    <2>3. e = p - q + SeqMod
      <3> DEFINE c == a - b
                 k == j - i - 1
                 d == p - q + SeqMod
      <3>1. c \in Int /\ k \in Int /\ d \in 0..SeqMod-1 /\ c = SeqMod * k + d
        BY <1>6, <2>1, <2>2
      <3>2. e = c % SeqMod
        OBVIOUS
      <3> HIDE DEF c, k, d, e
      <3>3. c % SeqMod = d
        BY <1>1, <3>1, ModUnique, Zenon
      <3> QED  BY <3>2, <3>3 DEF d
    <2> HIDE DEF e
    <2>4. ~(e < h)
      BY <2>1, <2>3
    <2>5. e - SeqMod = p - q
      BY <1>1, <2>3
    <2> QED  BY <1>5, <2>4, <2>5
  <1> QED  BY <1>7, <1>8

\* The datagrams of the stream.
LEMMA StreamBounds ==
    /\ Start[NFrames+1] \in Nat /\ NetDelay \in Nat /\ Delay \in Nat
    /\ \A p \in Packets : p \in Nat /\ p >= 1 /\ p < Start[NFrames+1]
  BY Widths, StreamAssumption DEF Packets

\* What the invariant says of a buffered datagram, and of one on its way.
LEMMA SlotFacts ==
    ASSUME UInv, NEW s \in jslots
    PROVE  s \in Slots /\ s.pkt \in Packets /\ s.age \in Nat /\ s.seq = SeqOf(s.pkt)
           /\ s.age <= Delay
  BY Widths DEF UInv, TypeOK, Slots

LEMMA NetFacts ==
    ASSUME UInv, NEW d \in net
    PROVE  d \in [pkt : Packets, copy : {1, 2}, age : 0..NetDelay] /\ d.pkt \in Packets
           /\ d.age \in Nat /\ d.age <= NetDelay
  BY StreamBounds DEF UInv, TypeOK

\* vmc_jb_peek returns the datagram sent first of those in the buffer.
LEMMA PlayedFirst ==
    ASSUME UInv, 2 * Start[NFrames+1] <= SeqMod, NEW s \in jslots, Playable(s),
           NEW r \in jslots, r # s
    PROVE  s.pkt < r.pkt
  <1> DEFINE p == s.pkt
             q == r.pkt
             n == Start[NFrames+1]
  <1>1. p \in Nat /\ q \in Nat /\ p >= 1 /\ q >= 1 /\ p < n /\ q < n /\ n \in Nat
    BY SlotFacts, StreamBounds
  <1>2. seq_cmp(s.seq, r.seq) <= 0
    BY DEF Playable, IsMin
  <1>3. s.seq = SeqOf(p) /\ r.seq = SeqOf(q) /\ s.seq # r.seq
    BY SlotFacts DEF UInv
  <1>4. p # q
    BY <1>3
  <1> HIDE DEF p, q, n
  <1>5. 2 * (p - q) < SeqMod /\ 2 * (q - p) < SeqMod
    <2>1. 2 * n <= SeqMod /\ SeqMod \in Nat
      BY Widths DEF n
    <2> QED  BY <1>1, <2>1
  <1>6. p - q <= 0
    BY <1>1, <1>2, <1>3, <1>5, SeqDistance
  <1>7. p < q
    BY <1>1, <1>4, <1>6
  <1> QED  BY <1>7 DEF p, q

\* A step before the first rebase keeps the order.
LEMMA OrderStep ==
    ASSUME UInv, Timely, OrderInv, [Next]_vars
    PROVE  OrderInv'
  <1>0. /\ sent \in Nat /\ played \in Nat /\ played <= sent /\ target \in {0, Delay}
        /\ NetDelay < Delay /\ NetDelay \in Nat /\ Delay \in Nat
    BY StreamBounds DEF UInv, TypeOK, OrderInv, Timely
  <1>1. CASE UNCHANGED <<jslots, target, sent, net, played>>
    BY <1>1 DEF OrderInv
  <1>2. ReceiveDone \/ DrainDone \/ UNCHANGED vars => UNCHANGED <<jslots, target, sent, net, played>>
    BY DEF ReceiveDone, DrainDone, vars, jbVars
  <1>3. CASE Send
    <2> DEFINE k(c) == [pkt |-> sent + 1, copy |-> c, age |-> 0]
    <2>1. sent' = sent + 1 /\ jslots' = jslots /\ target' = target /\ played' = played
      BY <1>3 DEF Send, jbVars
    <2>2. net' \subseteq net \cup {k(1), k(2)}
      BY <1>3 DEF Send
    <2>3. ASSUME NEW d \in net'
          PROVE  d \in net \/ d.pkt = sent + 1
      BY <2>2
    <2> HIDE DEF k
    <2>4. played' \in 0..sent'
      BY <1>0, <2>1
    <2>5. /\ \A s \in jslots : s.pkt <= sent + 1
          /\ \A d \in net' : d.pkt <= sent + 1
          /\ target = Delay => \A d \in net' : played < d.pkt
      <3>1. \A s \in jslots : s.pkt <= sent /\ s.pkt \in Nat
        BY SlotFacts, StreamBounds DEF OrderInv
      <3>2. \A d \in net : d.pkt <= sent /\ d.pkt \in Nat
        BY NetFacts, StreamBounds DEF OrderInv
      <3>3. target = Delay => \A d \in net : played < d.pkt
        BY DEF OrderInv
      <3> QED  BY <1>0, <2>3, <3>1, <3>2, <3>3
    <2>6. ASSUME target = Delay, NEW s \in jslots, NEW d \in net', d.pkt <= s.pkt
          PROVE  s.age <= d.age
      <3>1. s.pkt <= sent /\ s.pkt \in Nat
        BY <2>6, SlotFacts, StreamBounds DEF OrderInv
      <3>2. d.pkt # sent + 1
        BY <1>0, <2>6, <3>1
      <3>3. d \in net
        BY <2>3, <2>6, <3>2
      <3> QED  BY <2>6, <3>3 DEF OrderInv
    <2> QED  BY <2>1, <2>4, <2>5, <2>6 DEF OrderInv
  <1>4. ASSUME NEW d \in net, Receive(d)
        PROVE  OrderInv'
    <2>1. net' = net \ {d} /\ sent' = sent /\ played' = played
      BY <1>4 DEF Receive
    <2>2. CASE ResetAndPush(SeqOf(d.pkt), d.pkt)
      <3>1. target' # Delay
        BY <1>0, <2>2 DEF ResetAndPush
      <3>2. \A s \in jslots' : s.pkt = d.pkt
        BY <2>2 DEF ResetAndPush, NewSlot
      <3> QED  BY <2>1, <3>1, <3>2 DEF OrderInv
    <2>3. CASE vmc_jb_push(SeqOf(d.pkt), d.pkt)
      <3> DEFINE w == NewSlot(SeqOf(d.pkt), d.pkt)
      <3>1. jslots' \subseteq jslots \cup {w} /\ target' = target
        BY <2>3 DEF vmc_jb_push
      <3>2. w.pkt = d.pkt /\ w.age = 0
        BY DEF NewSlot
      <3> HIDE DEF w
      <3>3. ASSUME NEW s \in jslots'
            PROVE  /\ s.pkt <= sent
                   /\ target = Delay =>
                        played < s.pkt /\ \A e \in net : e.pkt <= s.pkt => s.age <= e.age
        <4>1. CASE s \in jslots
          BY <4>1 DEF OrderInv
        <4>2. CASE s = w
          <5>1. d.pkt <= sent /\ (target = Delay => played < d.pkt)
            BY DEF OrderInv
          <5>2. \A e \in net : 0 <= e.age
            BY NetFacts
          <5> QED  BY <3>2, <4>2, <5>1, <5>2
        <4> QED  BY <3>1, <4>1, <4>2
      <3>4. \A e \in net' : e \in net /\ e.pkt <= sent /\ (target = Delay => played < e.pkt)
        BY <2>1 DEF OrderInv
      <3> QED  BY <2>1, <3>1, <3>3, <3>4 DEF OrderInv
    <2> QED  BY <1>4, <2>2, <2>3 DEF Receive
  <1>5. ASSUME NEW s \in jslots, DrainOne(s)
        PROVE  OrderInv'
    <2>1. /\ Playable(s) /\ jslots' = jslots \ {s} /\ target' = target
          /\ sent' = sent /\ net' = net /\ played' = s.pkt
      BY <1>5 DEF DrainOne, PeekAndConsume
    <2>2. s.pkt \in Nat /\ s.pkt >= 1 /\ s.age \in Nat /\ s.age >= target
      BY <2>1, SlotFacts, StreamBounds DEF Playable
    <2>3. played' \in 0..sent'
      BY <1>0, <2>1, <2>2 DEF OrderInv
    <2>4. ASSUME target = Delay
          PROVE  (\A r \in jslots' : s.pkt < r.pkt) /\ (\A d \in net : s.pkt < d.pkt)
      <3>1. \A r \in jslots' : s.pkt < r.pkt
        BY <2>1, PlayedFirst DEF Timely
      <3>2. ASSUME NEW d \in net
            PROVE  s.pkt < d.pkt
        <4>1. d.age \in Nat /\ d.age <= NetDelay /\ d.pkt \in Nat
          BY NetFacts, StreamBounds
        <4>2. ~(s.age <= d.age)
          BY <1>0, <2>2, <2>4, <4>1
        <4>3. ~(d.pkt <= s.pkt)
          BY <2>4, <4>2 DEF OrderInv
        <4> QED  BY <2>2, <4>1, <4>3
      <3> QED  BY <3>1, <3>2
    <2> QED  BY <2>1, <2>3, <2>4 DEF OrderInv
  <1>6. CASE Tick
    <2> DEFINE old(s) == [s EXCEPT !.age = IF s.age < Delay THEN s.age + 1 ELSE s.age]
               more(d) == [d EXCEPT !.age = d.age + 1]
    <2>1. /\ jslots' = {old(s) : s \in jslots} /\ net' = {more(d) : d \in net}
          /\ target' = target /\ sent' = sent /\ played' = played
      BY <1>6 DEF Tick, Age
    <2>2. ASSUME NEW s \in jslots
          PROVE  old(s).pkt = s.pkt /\ old(s).age <= s.age + 1 /\ old(s).age \in Nat
      BY SlotFacts, StreamBounds DEF Slots
    <2>3. ASSUME NEW d \in net
          PROVE  more(d).pkt = d.pkt /\ more(d).age = d.age + 1
      BY NetFacts, StreamBounds
    <2> HIDE DEF old, more
    <2>4. ASSUME target = Delay, NEW s \in jslots, NEW d \in net, more(d).pkt <= old(s).pkt
          PROVE  old(s).age <= more(d).age
      <3>1. s.age <= d.age /\ s.age \in Nat /\ d.age \in Nat
        BY <2>2, <2>3, <2>4, SlotFacts, NetFacts DEF OrderInv
      <3> QED  BY <2>2, <2>3, <3>1
    <2>5. /\ \A s \in jslots' : s.pkt <= sent /\ (target = Delay => played < s.pkt)
          /\ \A d \in net' : d.pkt <= sent /\ (target = Delay => played < d.pkt)
      BY <2>1, <2>2, <2>3 DEF OrderInv
    <2>6. target = Delay => \A s \in jslots', d \in net' : d.pkt <= s.pkt => s.age <= d.age
      BY <2>1, <2>4
    <2> QED  BY <2>1, <2>5, <2>6 DEF OrderInv
  <1> QED  BY <1>1, <1>2, <1>3, <1>4, <1>5, <1>6 DEF Next, ReceiveAny, Drain

\* Only the drain plays, and it plays a datagram sent after the one before.
LEMMA PlayStep ==
    ASSUME UInv, OrderInv, [Next]_vars, target = Delay, stats_played' > stats_played
    PROVE  played' > played
  <1>0. stats_played \in Nat
    BY DEF UInv, TypeOK
  <1>1. stats_played' # stats_played
    BY <1>0
  <1>2. ~(Send \/ ReceiveDone \/ DrainDone \/ Tick \/ UNCHANGED vars)
    BY <1>1 DEF Send, ReceiveDone, DrainDone, Tick, Age, vars, jbVars
  <1>3. ASSUME NEW d \in net, Receive(d)
        PROVE  FALSE
    BY <1>0, <1>3 DEF Receive, vmc_jb_push, ResetAndPush
  <1>4. ASSUME NEW s \in jslots, DrainOne(s)
        PROVE  played' > played
    <2>1. played' = s.pkt /\ played < s.pkt
      BY <1>4 DEF DrainOne, OrderInv
    <2>2. played \in Nat /\ s.pkt \in Nat
      BY SlotFacts, StreamBounds DEF OrderInv, UInv, TypeOK
    <2> QED  BY <2>1, <2>2
  <1> QED  BY <1>2, <1>3, <1>4 DEF Next, ReceiveAny, Drain

LEMMA OrderInit == Init => OrderInv
  BY DEF Init, vmc_jb_init, OrderInv

\* Up to the first rebase of the main loop, vmc_jb_peek plays datagrams in the
\* order in which they were sent and none twice, through loss, duplication,
\* reordering and the wrap of the sequence numbers, if the network delays them
\* for less than the playout delay.
THEOREM InOrderUntilRebase ==
    Timely => (Spec => [][target = Delay /\ stats_played' > stats_played => played' > played]_vars)
  <1> SUFFICES ASSUME Timely
               PROVE  Spec => [][target = Delay /\ stats_played' > stats_played
                                   => played' > played]_vars
    OBVIOUS
  <1>1. Init => UInv /\ OrderInv
    BY UInvInit, OrderInit
  <1>2. UInv /\ OrderInv /\ [Next]_vars => (UInv /\ OrderInv)'
    BY UInvStep, OrderStep
  <1>3. UInv /\ OrderInv /\ [Next]_vars
          => [target = Delay /\ stats_played' > stats_played => played' > played]_vars
    BY PlayStep
  <1> QED  BY <1>1, <1>2, <1>3, PTL DEF Spec

\* The datagram after p has the next sequence number.
LEMMA SeqNext ==
    ASSUME NEW p \in Nat
    PROVE  (SeqOf(p) + 1) % SeqMod = SeqOf(p + 1)
  <1> DEFINE x == FirstSeq + p - 1
             i == x \div SeqMod
             a == x % SeqMod
             j == (a + 1) \div SeqMod
             b == (a + 1) % SeqMod
  <1>0. SeqMod \in Nat \ {0} /\ x \in Int
    BY Widths, StreamAssumption
  <1>1. FirstSeq + (p + 1) - 1 = x + 1
    BY StreamAssumption
  <1>2. SeqOf(p) = a /\ SeqOf(p + 1) = (x + 1) % SeqMod
    BY <1>1 DEF SeqOf
  <1> HIDE DEF x
  <1>3. i \in Int /\ a \in Int /\ x = SeqMod * i + a
    BY <1>0
  <1> HIDE DEF i, a
  <1>4. j \in Int /\ b \in 0..SeqMod-1 /\ a + 1 = SeqMod * j + b
    BY <1>0, <1>3
  <1>5. (a + 1) % SeqMod = b
    OBVIOUS
  <1> HIDE DEF j, b
  <1>6. x + 1 = SeqMod * (i + j) + b /\ i + j \in Int /\ x + 1 \in Int
    BY <1>0, <1>3, <1>4
  <1>7. (x + 1) % SeqMod = b
    BY <1>0, <1>4, <1>6, ModUnique
  <1> QED  BY <1>2, <1>5, <1>7

\* In a stream that fits the window, sequence numbers tell datagrams apart
\* and are all within the window of one another.
LEMMA InOneWindow ==
    ASSUME NoCauseToRebase, NEW p \in 1..Start[NFrames+1], NEW q \in 1..Start[NFrames+1]
    PROVE  /\ seq_cmp(SeqOf(p), SeqOf(q)) < MaxSlots /\ seq_cmp(SeqOf(p), SeqOf(q)) > -MaxSlots
           /\ SeqOf(p) = SeqOf(q) => p = q
  <1> DEFINE n == Start[NFrames+1]
  <1>1. n \in Nat /\ n <= MaxSlots /\ MaxSlots \in Nat /\ 2 * MaxSlots < SeqMod /\ SeqMod \in Nat
    BY StreamBounds, Widths, JitterAssumption DEF NoCauseToRebase
  <1> HIDE DEF n
  <1>2. p \in Nat /\ q \in Nat /\ p >= 1 /\ q >= 1 /\ p <= n /\ q <= n
    BY <1>1 DEF n
  <1>3. p - q < MaxSlots /\ p - q > -MaxSlots /\ 2 * (p - q) < SeqMod /\ 2 * (q - p) < SeqMod
    BY <1>1, <1>2
  <1>4. seq_cmp(SeqOf(p), SeqOf(q)) = p - q
    BY <1>2, <1>3, SeqDistance
  <1>5. SeqOf(p) = SeqOf(q) => p = q
    <2> SUFFICES ASSUME SeqOf(p) = SeqOf(q)
                 PROVE  p = q
      OBVIOUS
    <2>1. 2 * (p - p) < SeqMod
      BY <1>1, <1>2, <1>3
    <2>2. seq_cmp(SeqOf(p), SeqOf(p)) = p - p
      BY <1>2, <2>1, SeqDistance
    <2>3. p - p = p - q
      BY <1>4, <2>2
    <2> QED  BY <1>2, <2>3
  <1> QED  BY <1>3, <1>4, <1>5

\* ... and they leave a slot free.
LEMMA SlotLeft ==
    ASSUME UInv, NoCauseToRebase
    PROVE  Cardinality(jslots) # MaxSlots
  <1> DEFINE n == Start[NFrames+1]
             h == [s \in jslots |-> s.pkt]
  <1>1. n \in Nat /\ n <= MaxSlots /\ MaxSlots \in Nat /\ MaxSlots # 0
    BY StreamBounds, Widths DEF NoCauseToRebase
  <1>2. h \in [jslots -> 1..n-1]
    BY SlotFacts DEF Packets
  <1>3. \A s, r \in jslots : h[s] = h[r] => s = r
    BY SlotFacts DEF UInv
  <1> HIDE DEF h, n
  <1>4. h \in Injection(jslots, 1..n-1)
    BY <1>2, <1>3 DEF Injection, IsInjective
  <1>5. IsFiniteSet(1..n-1)
        /\ Cardinality(1..n-1) = IF 1 > n-1 THEN 0 ELSE n-1 - 1 + 1
    <2>1. 1 \in Int /\ n - 1 \in Int
      BY <1>1
    <2> QED  BY <2>1, FS_Interval
  <1>6. Cardinality(jslots) <= Cardinality(1..n-1)
    BY <1>4, <1>5, FS_Injection DEF ExistsInjection
  <1>7. Cardinality(1..n-1) < MaxSlots /\ Cardinality(1..n-1) \in Nat
    BY <1>1, <1>5
  <1>8. Cardinality(jslots) \in Nat
    BY FS_CardinalityType DEF UInv
  <1> QED  BY <1>1, <1>6, <1>7, <1>8

\* So no keyframe datagram is refused.
LEMMA NoRebase ==
    ASSUME UInv, NoCauseToRebase, Steady, NEW d \in net, Receive(d)
    PROVE  vmc_jb_push(SeqOf(d.pkt), d.pkt)
  <1> DEFINE n == Start[NFrames+1]
             q == SeqOf(d.pkt)
  <1>1. d.pkt \in Packets /\ d.pkt \in 1..n
    BY NetFacts, StreamBounds
  <1>2. CASE ~IsKey(d.pkt)
    BY <1>2 DEF Receive
  <1>3. CASE IsKey(d.pkt)
    <2>1. \A s \in jslots : s.seq # q
      <3> SUFFICES ASSUME NEW s \in jslots, s.seq = q
                   PROVE  FALSE
        OBVIOUS
      <3>1. s.pkt \in 1..n /\ s.seq = SeqOf(s.pkt)
        BY SlotFacts, StreamBounds
      <3>2. s.pkt = d.pkt
        BY <1>1, <3>1, InOneWindow
      <3> QED  BY <1>1, <1>3, <3>2 DEF Steady, NoCauseToRebase
    <2>2. InWindow(q)
      <3>1. PICK k \in 1..n : Base(q) = SeqOf(k)
        BY <1>1 DEF Base, Steady
      <3> HIDE DEF n, q
      <3>2. seq_cmp(q, Base(q)) < MaxSlots /\ seq_cmp(q, Base(q)) > -MaxSlots
        BY <1>1, <3>1, InOneWindow DEF n, q
      <3> QED  BY <3>2 DEF InWindow
    <2>3. PushStatus(q) = "OK"
      BY <2>1, <2>2, SlotLeft DEF PushStatus
    <2> QED  BY <2>3 DEF Receive
  <1> QED  BY <1>2, <1>3

\* No step leaves the steady state.
LEMMA SteadyStep ==
    ASSUME UInv, OrderInv, NoCauseToRebase, Steady, [Next]_vars
    PROVE  Steady'
  <1> DEFINE n == Start[NFrames+1]
  <1>0. sent \in Nat /\ stats_pushed \in Nat /\ n \in Nat
    BY StreamBounds DEF UInv, TypeOK
  <1>1. CASE UNCHANGED <<jslots, next_seq, target, stats_pushed, net>>
    BY <1>1 DEF Steady
  <1>2. ReceiveDone \/ DrainDone \/ UNCHANGED vars
        => UNCHANGED <<jslots, next_seq, target, stats_pushed, net>>
    BY DEF ReceiveDone, DrainDone, vars, jbVars
  <1>3. CASE Send
    <2> DEFINE k(c) == [pkt |-> sent + 1, copy |-> c, age |-> 0]
    <2>1. UNCHANGED <<jslots, next_seq, target, stats_pushed>>
      BY <1>3 DEF Send, jbVars
    <2>2. \/ net' \subseteq net \cup {k(1)}
          \/ net' \subseteq net \cup {k(1), k(2)} /\ sent + 1 \in MayDup
      BY <1>3 DEF Send
    <2>3. k(1).pkt = sent + 1 /\ k(2).pkt = sent + 1
      OBVIOUS
    <2> HIDE DEF k
    <2>4. \A s \in jslots : s.pkt # sent + 1
      BY <1>0, SlotFacts, StreamBounds DEF OrderInv
    <2>5. \A d \in net : d.pkt # sent + 1
      BY <1>0, NetFacts, StreamBounds DEF OrderInv
    <2>6. ASSUME NEW d \in net', NEW s \in jslots, d.pkt = s.pkt
          PROVE  d.pkt \in MayDup
      BY <2>2, <2>3, <2>4, <2>6 DEF Steady
    <2>7. ASSUME NEW d \in net', NEW e \in net', d.pkt = e.pkt, d # e
          PROVE  d.pkt \in MayDup
      BY <2>2, <2>3, <2>5, <2>7 DEF Steady
    <2> QED  BY <2>1, <2>6, <2>7 DEF Steady
  <1>4. ASSUME NEW d \in net, Receive(d)
        PROVE  Steady'
    <2> DEFINE q == SeqOf(d.pkt)
               w == NewSlot(q, d.pkt)
    <2>1. net' = net \ {d}
      BY <1>4 DEF Receive
    <2>2. vmc_jb_push(q, d.pkt)
      BY <1>4, NoRebase
    <2>3. next_seq' = Base(q) /\ target' = target /\ jslots' \subseteq jslots \cup {w}
      BY <2>2 DEF vmc_jb_push
    <2>4. w.pkt = d.pkt
      BY DEF NewSlot
    <2>5. d.pkt \in 1..n
      BY NetFacts, StreamBounds
    <2>6. \E k \in 1..n : next_seq' = SeqOf(k)
      BY <2>3, <2>5 DEF Base, Steady
    <2> HIDE DEF w
    <2>7. ASSUME NEW e \in net', NEW s \in jslots', e.pkt = s.pkt
          PROVE  e.pkt \in MayDup
      BY <2>1, <2>3, <2>4, <2>7 DEF Steady
    <2>8. ASSUME NEW e \in net', NEW f \in net', e.pkt = f.pkt, e # f
          PROVE  e.pkt \in MayDup
      BY <2>1, <2>8 DEF Steady
    <2> QED  BY <2>3, <2>6, <2>7, <2>8 DEF Steady
  <1>5. ASSUME NEW s \in jslots, DrainOne(s)
        PROVE  Steady'
    <2>1. /\ jslots' = jslots \ {s} /\ target' = target /\ net' = net
          /\ next_seq' = (s.seq + 1) % SeqMod
      BY <1>5 DEF DrainOne, PeekAndConsume
    <2>2. s.pkt \in Nat /\ s.pkt + 1 \in 1..n /\ s.seq = SeqOf(s.pkt)
      BY SlotFacts, StreamBounds
    <2>3. next_seq' = SeqOf(s.pkt + 1)
      BY <2>1, <2>2, SeqNext
    <2> QED  BY <2>1, <2>2, <2>3 DEF Steady
  <1>6. CASE Tick
    <2> DEFINE old(s) == [s EXCEPT !.age = IF s.age < Delay THEN s.age + 1 ELSE s.age]
               more(d) == [d EXCEPT !.age = d.age + 1]
    <2>1. /\ jslots' = {old(s) : s \in jslots} /\ net' = {more(d) : d \in net}
          /\ UNCHANGED <<next_seq, target, stats_pushed>>
      BY <1>6 DEF Tick, Age
    <2>2. \A s \in jslots : old(s).pkt = s.pkt
      BY SlotFacts DEF Slots
    <2>3. \A d \in net : more(d).pkt = d.pkt
      BY NetFacts
    <2> HIDE DEF old, more
    <2>4. \A d \in net', s \in jslots' : d.pkt = s.pkt => d.pkt \in MayDup
      BY <2>1, <2>2, <2>3 DEF Steady
    <2>5. \A d, e \in net' : d.pkt = e.pkt /\ d # e => d.pkt \in MayDup
      BY <2>1, <2>3 DEF Steady
    <2> QED  BY <2>1, <2>4, <2>5 DEF Steady
  <1> QED  BY <1>1, <1>2, <1>3, <1>4, <1>5, <1>6 DEF Next, ReceiveAny, Drain

LEMMA SteadyInit == Init => Steady
  BY DEF Init, vmc_jb_init, Steady

\* In a stream that fits the window of vmc_jb_push and whose keyframe datagrams
\* are not duplicated the main loop never rebases: everything is played in
\* the order in which it was sent.
THEOREM PlayedAsSent == Timely /\ NoCauseToRebase => (Spec => PlayedInOrder)
  <1> SUFFICES ASSUME Timely, NoCauseToRebase
               PROVE  Spec => PlayedInOrder
    OBVIOUS
  <1> DEFINE I == UInv /\ OrderInv /\ Steady
  <1>1. Init => I
    BY UInvInit, OrderInit, SteadyInit
  <1>2. I /\ [Next]_vars => I'
    BY UInvStep, OrderStep, SteadyStep
  <1>3. I /\ [Next]_vars => [stats_played' > stats_played => played' > played]_vars
    BY PlayStep DEF Steady
  <1> QED  BY <1>1, <1>2, <1>3, PTL DEF Spec, PlayedInOrder
=============================================================================
