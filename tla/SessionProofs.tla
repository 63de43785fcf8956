--------------------------- MODULE SessionProofs ---------------------------
(***************************************************************************)
(* For every keepalive interval, timeout, retry count and delay that meets *)
(* TimingAssumption, a client whose network loses nothing finds its route  *)
(* with the first request and never declares its link lost.                *)
(***************************************************************************)
EXTENDS Session, TLAPS

\* The longest time until m, or the answer to it, is received.
Rem(m) == IF m.to \in {"resolver", "client"} THEN NetDelay - m.age
                                             ELSE 2 * NetDelay - m.age

\* An answer will arrive before recv times out.
RouteDue == \E m \in net : m.stream = "ROUTE" /\ iter + Rem(m) <= 2 * NetDelay

\* The next echo will arrive in time, or the next keepalive is not due yet.
EchoDue ==
  \/ \E m \in net : m.stream = "CONTROL" /\ rx_age + Rem(m) <= KeepaliveGap + 2 * NetDelay
  \/ rx_age <= ka_age

\* How far last_keepalive_ms lags behind, by the place of main.
KeepaliveOnTime ==
  /\ at = "setup" => iter <= MaxSetup /\ ka_age <= iter
  /\ at = "step"  => /\ iter <= MaxIteration
                     /\ ka_age <= KeepaliveMs + MaxIteration + iter \/ ka_age <= MaxSetup + iter
  /\ at = "rx"    => iter <= MaxIteration /\ ka_age <= KeepaliveMs + iter

InSession == at \in {"setup", "step", "rx"}

Undisturbed ==
  /\ up /\ running /\ ~refused /\ tries = 0 /\ at # "failed"
  /\ \A m \in net : /\ m.stream # "JUNK"
                    /\ m.to \in {"mapper", "resolver"} <=> m.stream = "ROUTE"
  /\ at = "ask" => iter = 0
  /\ at = "answer" => RouteDue
  /\ InSession => state = "ACTIVE" /\ EchoDue
  /\ KeepaliveOnTime

SInv == TypeOK /\ (clean => Undisturbed)

-----------------------------------------------------------------------------
\* vmc_session_dispatch stays within the states.
LEMMA DispatchStates == ASSUME NEW s \in States, NEW ev PROVE dispatch(s, ev) \in States
  <1>1. CASE \E e \in Edges : e[1] = s /\ e[2] = ev
    <2> DEFINE e == CHOOSE e \in Edges : e[1] = s /\ e[2] = ev
    <2>1. e \in Edges
      BY <1>1
    <2>2. \A d \in Edges : d[3] \in States
      BY DEF Edges, States
    <2> QED  BY <1>1, <2>1, <2>2 DEF dispatch
  <1>2. CASE ~\E e \in Edges : e[1] = s /\ e[2] = ev
    BY <1>2 DEF dispatch
  <1> QED  BY <1>1, <1>2

\* The three dispatches of main lead from OFFLINE to ACTIVE.
LEMMA ThreeDispatches ==
    dispatch(dispatch(dispatch("OFFLINE", "BOOT"), "MAPPER_RESP"), "TRANSPORT_UP") = "ACTIVE"
  <1>1. dispatch("OFFLINE", "BOOT") = "DISCOVER"
    <2> DEFINE P(e) == e[1] = "OFFLINE" /\ e[2] = "BOOT"
    <2>1. \E e \in Edges : P(e)
      <3>1. <<"OFFLINE", "BOOT", "DISCOVER">> \in Edges
        BY DEF Edges
      <3> QED  BY <3>1
    <2>2. \A e \in Edges : P(e) => e[3] = "DISCOVER"
      BY DEF Edges
    <2> QED  BY <2>1, <2>2 DEF dispatch
  <1>2. dispatch("DISCOVER", "MAPPER_RESP") = "CONNECTING"
    <2> DEFINE P(e) == e[1] = "DISCOVER" /\ e[2] = "MAPPER_RESP"
    <2>1. \E e \in Edges : P(e)
      <3>1. <<"DISCOVER", "MAPPER_RESP", "CONNECTING">> \in Edges
        BY DEF Edges
      <3> QED  BY <3>1
    <2>2. \A e \in Edges : P(e) => e[3] = "CONNECTING"
      BY DEF Edges
    <2> QED  BY <2>1, <2>2 DEF dispatch
  <1>3. dispatch("CONNECTING", "TRANSPORT_UP") = "ACTIVE"
    <2> DEFINE P(e) == e[1] = "CONNECTING" /\ e[2] = "TRANSPORT_UP"
    <2>1. \E e \in Edges : P(e)
      <3>1. <<"CONNECTING", "TRANSPORT_UP", "ACTIVE">> \in Edges
        BY DEF Edges
      <3> QED  BY <3>1
    <2>2. \A e \in Edges : P(e) => e[3] = "ACTIVE"
      BY DEF Edges
    <2> QED  BY <2>1, <2>2 DEF dispatch
  <1> QED  BY <1>1, <1>2, <1>3

\* The longest gap between two keepalives covers both ways it can come about.
LEMMA GapBounds ==
    /\ KeepaliveGap \in Nat
    /\ KeepaliveMs + 2 * MaxIteration <= KeepaliveGap
    /\ MaxSetup + MaxIteration <= KeepaliveGap
  BY SessionAssumption DEF KeepaliveGap

\* Ages stay within their caps.
LEMMA CappedRange == ASSUME NEW cap \in Nat, NEW a \in 0..cap PROVE Capped(a, cap) \in 0..cap
  BY DEF Capped

\* What Transmit does to the network and to the history.
LEMMA Transmits ==
    ASSUME TypeOK, NEW rest \in SUBSET net, NEW to \in {"mapper", "resolver", "sim", "client"},
           NEW stream \in {"ROUTE", "JUNK", "CONTROL", "VIDEO"}, Transmit(rest, to, stream)
    PROVE  /\ net' \subseteq Datagrams /\ clean' \in BOOLEAN
           /\ clean' => /\ clean
                        /\ net' = rest \cup {[to |-> to, stream |-> stream, age |-> 0]}
  <1>1. [to |-> to, stream |-> stream, age |-> 0] \in Datagrams
    BY SessionAssumption DEF Datagrams
  <1>2. rest \subseteq Datagrams
    BY DEF TypeOK
  <1>3. clean \in BOOLEAN
    BY DEF TypeOK
  <1>4. CASE net' = rest \cup {[to |-> to, stream |-> stream, age |-> 0]} /\ clean' = clean
    BY <1>1, <1>2, <1>3, <1>4
  <1>5. CASE net' = rest /\ clean' = FALSE
    BY <1>2, <1>5
  <1> QED  BY <1>4, <1>5 DEF Transmit

\* The remaining time of a datagram.
LEMMA RemRange == ASSUME NEW m \in Datagrams
                  PROVE  /\ m.age \in 0..NetDelay /\ Rem(m) \in 0..2*NetDelay
                         /\ m.to \in {"sim", "mapper"} => Rem(m) >= NetDelay
  BY SessionAssumption DEF Datagrams, Rem

-----------------------------------------------------------------------------
\* Every step keeps the types.
LEMMA TypeStep == ASSUME TypeOK, [Next]_vars PROVE TypeOK'
  <1> USE DEF session, world
  <1>g. KeepaliveGap \in Nat
    BY GapBounds
  <1>n. /\ KeepaliveMs \in Nat /\ LinkTimeout \in Nat /\ MapperTimeout \in Nat
        /\ MaxRetries \in Nat /\ NetDelay \in Nat /\ LinkTimeout + 1 \in Nat
    BY SessionAssumption
  <1>t. /\ state \in States /\ at \in Places /\ tries \in 0..MaxRetries
        /\ refused \in BOOLEAN /\ rx_age \in 0..LinkTimeout+1
        /\ ka_age \in 0..KeepaliveGap /\ iter \in Nat /\ net \subseteq Datagrams
        /\ up \in BOOLEAN /\ running \in BOOLEAN /\ have_client \in BOOLEAN
        /\ clean \in BOOLEAN
    BY DEF TypeOK
  <1>0. ASSUME Again PROVE at' \in Places /\ tries' \in 0..MaxRetries
    BY <1>0, <1>n, <1>t DEF Again, Places
  <1>1. CASE SendRequest
    <2>1. net' \subseteq Datagrams /\ clean' \in BOOLEAN
      <3>1. CASE refused
        BY <1>1, <1>t, <3>1 DEF SendRequest
      <3>2. CASE ~refused
        <4>1. Transmit(net, "mapper", "ROUTE")
          BY <1>1, <3>2 DEF SendRequest
        <4> QED  BY <4>1, Transmits
      <3> QED  BY <3>1, <3>2
    <2>2. at' \in Places
      BY <1>1 DEF SendRequest, Places
    <2> QED  BY <1>1, <1>t, <2>1, <2>2 DEF SendRequest, TypeOK
  <1>2. CASE NoAnswer
    BY <1>0, <1>2, <1>t DEF NoAnswer, TypeOK
  <1>3. ASSUME NEW m \in net, Answer(m) PROVE TypeOK'
    <2>1. CASE m.stream = "ROUTE"
      <3>1. SessionUp /\ net' = {n \in net : n.to # "resolver"} /\ refused' = FALSE
            /\ tries' = tries /\ iter' = 0 /\ UNCHANGED <<world, clean>>
        BY <1>3, <2>1 DEF Answer
      <3>2. state' \in States /\ at' \in Places /\ rx_age' = 0 /\ ka_age' = 0
        BY <3>1, ThreeDispatches DEF SessionUp, vmc_session_ctx_init, States, Places
      <3>3. net' \subseteq Datagrams
        BY <1>t, <3>1
      <3>4. 0 \in 0..LinkTimeout+1 /\ 0 \in 0..KeepaliveGap
        BY <1>n, <1>g
      <3> QED  BY <1>t, <3>1, <3>2, <3>3, <3>4 DEF TypeOK
    <2>2. CASE m.stream # "ROUTE"
      <3>1. Again /\ net' \subseteq net /\ iter' = 0 /\ UNCHANGED <<session, refused, world, clean>>
        BY <1>3, <2>2 DEF Answer
      <3>2. at' \in Places /\ tries' \in 0..MaxRetries
        BY <1>0, <3>1
      <3>3. net' \subseteq Datagrams
        BY <1>t, <3>1
      <3> QED  BY <1>t, <3>1, <3>2, <3>3 DEF TypeOK
    <2> QED  BY <2>1, <2>2
  <1>4. CASE SetupDone
    BY <1>4, <1>t DEF SetupDone, TypeOK, Places
  <1>5. ASSUME NEW m \in net, MapperReply(m) PROVE TypeOK'
    <2>1. net' \subseteq Datagrams /\ clean' \in BOOLEAN /\ refused' \in BOOLEAN
      <3>1. CASE Transmit(net \ {m}, "resolver", "ROUTE") /\ UNCHANGED refused
        <4>1. net' \subseteq Datagrams /\ clean' \in BOOLEAN
          BY <3>1, Transmits
        <4> QED  BY <1>t, <3>1, <4>1
      <3>2. CASE net' = (net \ {m}) \cup {[to |-> "resolver", stream |-> "JUNK", age |-> 0]}
                 /\ clean' = FALSE /\ UNCHANGED refused
        <4>1. [to |-> "resolver", stream |-> "JUNK", age |-> 0] \in Datagrams
          BY <1>n DEF Datagrams
        <4> QED  BY <1>t, <3>2, <4>1
      <3>3. CASE net' = net \ {m} /\ refused' = Resolving /\ UNCHANGED clean
        BY <1>t, <3>3 DEF Resolving
      <3> QED  BY <1>5, <3>1, <3>2, <3>3 DEF MapperReply
    <2> QED  BY <1>5, <1>t, <2>1 DEF MapperReply, TypeOK
  <1>6. CASE SimStarts
    BY <1>6, <1>t DEF SimStarts, TypeOK
  <1>7. CASE vmc_session_step
    <2>1. net' \subseteq Datagrams /\ clean' \in BOOLEAN /\ ka_age' \in 0..KeepaliveGap
      <3>1. CASE KeepaliveDue
        <4>1. Transmit(net, "sim", "CONTROL") /\ ka_age' = 0
          BY <1>7, <3>1 DEF vmc_session_step
        <4> QED  BY <4>1, <1>g, Transmits
      <3>2. CASE ~KeepaliveDue
        BY <1>7, <1>t, <3>2 DEF vmc_session_step
      <3> QED  BY <3>1, <3>2
    <2>2. state' \in States
      BY <1>7, <1>t, DispatchStates DEF vmc_session_step
    <2> QED  BY <1>7, <1>t, <2>1, <2>2 DEF vmc_session_step, TypeOK, Places
  <1>8. ASSUME NEW m \in net, vmc_session_on_rx(m) PROVE TypeOK'
    BY <1>8, <1>t, <1>n DEF vmc_session_on_rx, TypeOK
  <1>9. CASE NextIteration
    BY <1>9, <1>t DEF NextIteration, TypeOK, Places
  <1>10. CASE vmc_session_stop
    BY <1>10, <1>t, DispatchStates DEF vmc_session_stop, TypeOK, Places
  <1>11. ASSUME NEW ev, Embedder(ev) PROVE TypeOK'
    BY <1>11, <1>t, DispatchStates DEF Embedder, TypeOK
  <1>12. ASSUME NEW m \in net, SimEcho(m) PROVE TypeOK'
    <2>1. net' \subseteq Datagrams /\ clean' \in BOOLEAN
      BY <1>12, Transmits DEF SimEcho
    <2> QED  BY <1>12, <1>t, <2>1 DEF SimEcho, TypeOK
  <1>13. CASE SimVideo
    <2>1. net' \subseteq Datagrams /\ clean' \in BOOLEAN
      BY <1>13, Transmits DEF SimVideo
    <2> QED  BY <1>13, <1>t, <2>1 DEF SimVideo, TypeOK
  <1>14. CASE LinkDown
    BY <1>14, <1>t DEF LinkDown, TypeOK
  <1>15. CASE LinkUp
    BY <1>15, <1>t DEF LinkUp, TypeOK
  <1>16. CASE Tick
    <2>1. net' \subseteq Datagrams
      BY <1>16, <1>t, <1>n DEF Tick, Datagrams
    <2>2. rx_age' \in 0..LinkTimeout+1 /\ ka_age' \in 0..KeepaliveGap
      BY <1>16, <1>t, <1>n, <1>g, CappedRange DEF Tick
    <2>3. iter' \in Nat
      BY <1>16, <1>t DEF Tick
    <2> QED  BY <1>16, <1>t, <2>1, <2>2, <2>3 DEF Tick, TypeOK
  <1>17. CASE UNCHANGED vars
    BY <1>17, <1>t DEF vars, TypeOK
  <1> QED
    BY <1>1, <1>2, <1>3, <1>4, <1>5, <1>6, <1>7, <1>8, <1>9, <1>10, <1>11, <1>12, <1>13,
       <1>14, <1>15, <1>16, <1>17 DEF Next, GetRoute, Reply, OnRx, Echo, Embed

-----------------------------------------------------------------------------
\* A keepalive is never overdue by more than the longest gap.
LEMMA KeepaliveBound == ASSUME TypeOK, KeepaliveOnTime, InSession PROVE ka_age <= KeepaliveGap
  BY GapBounds, SessionAssumption DEF TypeOK, KeepaliveOnTime, InSession

\* With the next echo due, vmc_session_step does not find the link lost.
LEMMA NotLost ==
    ASSUME TypeOK, KeepaliveOnTime, InSession, EchoDue PROVE rx_age <= LinkTimeout
  <1>1. rx_age \in Nat /\ ka_age \in Nat /\ KeepaliveGap \in Nat /\ NetDelay \in Nat
        /\ LinkTimeout \in Nat /\ KeepaliveGap + 2 * NetDelay <= LinkTimeout
    BY GapBounds, SessionAssumption, TimingAssumption DEF TypeOK
  <1>2. CASE rx_age <= ka_age
    BY <1>1, <1>2, KeepaliveBound
  <1>3. CASE \E m \in net : m.stream = "CONTROL"
                            /\ rx_age + Rem(m) <= KeepaliveGap + 2 * NetDelay
    <2>1. PICK m \in net : rx_age + Rem(m) <= KeepaliveGap + 2 * NetDelay
      BY <1>3
    <2>2. Rem(m) \in Nat
      BY <1>1, RemRange DEF TypeOK
    <2> QED  BY <1>1, <2>1, <2>2
  <1> QED  BY <1>2, <1>3 DEF EchoDue

\* Time leaves a datagram as it is, but older.
LEMMA Older ==
    ASSUME TypeOK, Tick, NEW m \in net
    PROVE  \E n \in net' : n.stream = m.stream /\ n.to = m.to /\ Rem(n) = Rem(m) - 1
  <1> DEFINE n == [m EXCEPT !.age = m.age + 1]
  <1>1. n \in net'
    BY DEF Tick
  <1>2. m \in Datagrams /\ m.age \in Nat /\ NetDelay \in Nat
    BY SessionAssumption, RemRange DEF TypeOK
  <1>3. n.stream = m.stream /\ n.to = m.to /\ n.age = m.age + 1
    BY <1>2 DEF Datagrams
  <1>4. Rem(n) = Rem(m) - 1
    BY <1>2, <1>3 DEF Rem
  <1> QED  BY <1>1, <1>3, <1>4

\* Every datagram was there before time passed.
LEMMA Younger ==
    ASSUME TypeOK, Tick, NEW n \in net'
    PROVE  \E m \in net : n.stream = m.stream /\ n.to = m.to
  <1>1. PICK m \in net : n = [m EXCEPT !.age = m.age + 1]
    BY DEF Tick
  <1>2. m \in Datagrams
    BY DEF TypeOK
  <1> QED  BY <1>1, <1>2 DEF Datagrams

-----------------------------------------------------------------------------
\* A step that leaves the history clean leaves the client undisturbed.
LEMMA UndisturbedStep == ASSUME SInv, [Next]_vars, clean' PROVE Undisturbed'
  <1> USE DEF session, world
  <1> DEFINE Route(m) == m.to \in {"mapper", "resolver"} <=> m.stream = "ROUTE"
             Plain(m) == m.stream # "JUNK" /\ Route(m)
  <1>n. /\ KeepaliveMs \in Nat /\ LinkTimeout \in Nat /\ MapperTimeout \in Nat
        /\ NetDelay \in Nat /\ MaxSetup \in Nat /\ MaxIteration \in Nat
    BY SessionAssumption
  <1>t. TypeOK /\ iter \in Nat /\ rx_age \in Nat /\ ka_age \in Nat /\ net \subseteq Datagrams
    BY GapBounds, SessionAssumption DEF SInv, TypeOK
  <1>u. ASSUME clean
        PROVE  /\ up /\ running /\ ~refused /\ tries = 0 /\ at # "failed"
               /\ \A m \in net : Plain(m)
               /\ at = "ask" => iter = 0
               /\ at = "answer" => RouteDue
               /\ InSession => state = "ACTIVE" /\ EchoDue
               /\ KeepaliveOnTime
    BY <1>u DEF SInv, Undisturbed
  <1>1. CASE SendRequest
    <2>1. clean /\ at' = "answer" /\ Transmit(net, "mapper", "ROUTE")
      <3>1. CASE refused
        BY <1>1, <1>u, <3>1 DEF SendRequest
      <3>2. CASE ~refused
        <4>1. at' = "answer" /\ Transmit(net, "mapper", "ROUTE")
          BY <1>1, <3>2 DEF SendRequest
        <4> QED  BY <4>1, <1>t, Transmits
      <3> QED  BY <3>1, <3>2
    <2> DEFINE r == [to |-> "mapper", stream |-> "ROUTE", age |-> 0]
    <2>2. net' = net \cup {r}
      BY <1>t, <2>1, Transmits
    <2>3. \A m \in net' : Plain(m)
      BY <1>u, <2>1, <2>2
    <2>4. Rem(r) = 2 * NetDelay
      BY <1>n DEF Rem
    <2>5. RouteDue'
      <3>1. iter' = 0
        BY <1>1, <1>u, <2>1 DEF SendRequest
      <3>2. r \in net' /\ r.stream = "ROUTE" /\ iter' + Rem(r) <= 2 * NetDelay
        BY <1>n, <2>2, <2>4, <3>1
      <3> QED  BY <3>2 DEF RouteDue
    <2> QED  BY <1>1, <1>u, <2>1, <2>3, <2>5
             DEF SendRequest, Undisturbed, InSession, KeepaliveOnTime
  <1>2. CASE NoAnswer
    <2>1. clean /\ at = "answer" /\ iter = MapperTimeout
      BY <1>2, <1>u DEF NoAnswer
    <2>2. PICK m \in net : iter + Rem(m) <= 2 * NetDelay
      BY <1>u, <2>1 DEF RouteDue
    <2>3. Rem(m) \in Nat
      BY <1>n, <1>t, RemRange
    <2> QED  BY <1>n, <1>t, <2>1, <2>2, <2>3, TimingAssumption
  <1>3. ASSUME NEW m \in net, Answer(m) PROVE Undisturbed'
    <2>1. clean /\ m.stream = "ROUTE"
      BY <1>3, <1>u DEF Answer
    <2>2. SessionUp /\ net' \subseteq net /\ refused' = FALSE /\ tries' = tries
          /\ iter' = 0 /\ UNCHANGED <<up, running>>
      BY <1>3, <2>1 DEF Answer
    <2>3. state' = "ACTIVE" /\ at' = "setup" /\ rx_age' = 0 /\ ka_age' = 0
      BY <2>2, ThreeDispatches DEF SessionUp, vmc_session_ctx_init
    <2>4. EchoDue' /\ KeepaliveOnTime'
      BY <1>n, <2>2, <2>3 DEF EchoDue, KeepaliveOnTime
    <2>5. \A n \in net' : Plain(n)
      BY <1>u, <2>1, <2>2
    <2> QED  BY <1>u, <2>1, <2>2, <2>3, <2>4, <2>5 DEF Undisturbed
  <1>4. CASE SetupDone
    <2>1. clean /\ at = "setup" /\ at' = "step" /\ iter' = 0
          /\ UNCHANGED <<state, rx_age, ka_age, tries, refused, net, up, running>>
      BY <1>4 DEF SetupDone
    <2>2. EchoDue'
      BY <1>u, <2>1 DEF EchoDue, InSession
    <2>3. KeepaliveOnTime'
      BY <1>n, <1>t, <1>u, <2>1 DEF KeepaliveOnTime
    <2> QED  BY <1>u, <2>1, <2>2, <2>3 DEF Undisturbed, InSession
  <1>5. ASSUME NEW m \in net, MapperReply(m) PROVE Undisturbed'
    <2> DEFINE r == [to |-> "resolver", stream |-> "ROUTE", age |-> 0]
    <2>1. /\ clean
          /\ \/ Resolving /\ net' = (net \ {m}) \cup {r} /\ refused' = refused
             \/ ~Resolving /\ net' = net \ {m} /\ ~refused'
      <3>1. CASE Resolving /\ Transmit(net \ {m}, "resolver", "ROUTE") /\ UNCHANGED refused
        <4>1. clean /\ net' = (net \ {m}) \cup {r}
          BY <1>t, <3>1, Transmits
        <4> QED  BY <3>1, <4>1
      <3>2. CASE clean' = FALSE
        BY <3>2
      <3>3. CASE /\ ~running \/ ~Resolving
                 /\ net' = net \ {m} /\ refused' = Resolving /\ UNCHANGED clean
        <4>1. clean /\ ~Resolving
          BY <1>u, <3>3
        <4>2. ~refused'
          BY <3>3, <4>1
        <4> QED  BY <3>3, <4>1, <4>2
      <3> QED  BY <1>5, <3>1, <3>2, <3>3 DEF MapperReply
    <2>2. m.to = "mapper" /\ UNCHANGED <<state, rx_age, ka_age, at, tries, iter, up, running>>
      BY <1>5 DEF MapperReply
    <2>3. \A n \in net' : Plain(n)
      BY <1>u, <2>1
    <2>4. ASSUME at = "answer" PROVE RouteDue'
      <3>1. PICK w \in net : w.stream = "ROUTE" /\ iter + Rem(w) <= 2 * NetDelay
        BY <1>u, <2>1, <2>4 DEF RouteDue
      <3>2. r \in net' /\ net \ {m} \subseteq net'
        BY <2>1, <2>4 DEF Resolving
      <3>3. CASE w = m
        <4>1. Rem(r) = NetDelay /\ NetDelay <= Rem(m) /\ Rem(m) \in Nat
          BY <1>n, <1>t, <2>2, RemRange DEF Rem
        <4>2. iter' + Rem(r) <= 2 * NetDelay
          BY <1>n, <1>t, <2>2, <3>1, <3>3, <4>1
        <4>3. r.stream = "ROUTE"
          OBVIOUS
        <4> QED  BY <3>2, <4>2, <4>3 DEF RouteDue
      <3>4. CASE w # m
        BY <2>2, <3>1, <3>2, <3>4 DEF RouteDue
      <3> QED  BY <3>3, <3>4
    <2>5. ASSUME InSession PROVE EchoDue'
      <3>1. CASE rx_age <= ka_age
        BY <2>2, <3>1 DEF EchoDue
      <3>2. CASE \E w \in net : w.stream = "CONTROL"
                                /\ rx_age + Rem(w) <= KeepaliveGap + 2 * NetDelay
        <4>1. PICK w \in net : w.stream = "CONTROL"
                               /\ rx_age + Rem(w) <= KeepaliveGap + 2 * NetDelay
          BY <3>2
        <4>2. w # m
          BY <1>u, <2>1, <2>2, <4>1
        <4>3. w \in net'
          BY <2>1, <4>2
        <4> QED  BY <2>2, <4>1, <4>3 DEF EchoDue
      <3> QED  BY <1>u, <2>1, <2>5, <3>1, <3>2 DEF EchoDue
    <2>6. KeepaliveOnTime'
      BY <1>u, <2>1, <2>2 DEF KeepaliveOnTime
    <2>7. ~refused'
      BY <1>u, <2>1
    <2> QED  BY <1>u, <2>1, <2>2, <2>3, <2>4, <2>5, <2>6, <2>7 DEF Undisturbed, InSession
  <1>6. CASE SimStarts
    BY <1>6, <1>u DEF SimStarts
  <1>7. CASE vmc_session_step
    <2> DEFINE r == [to |-> "sim", stream |-> "CONTROL", age |-> 0]
    <2>1. /\ clean /\ at = "step"
          /\ \/ KeepaliveDue /\ ka_age' = 0 /\ net' = net \cup {r}
             \/ ~KeepaliveDue /\ ka_age' = ka_age /\ net' = net
      <3>1. CASE KeepaliveDue
        <4>1. at = "step" /\ ka_age' = 0 /\ Transmit(net, "sim", "CONTROL")
          BY <1>7, <3>1 DEF vmc_session_step
        <4>2. clean /\ net' = net \cup {r}
          BY <1>t, <4>1, Transmits
        <4> QED  BY <3>1, <4>1, <4>2
      <3>2. CASE ~KeepaliveDue
        BY <1>7, <3>2 DEF vmc_session_step
      <3> QED  BY <3>1, <3>2
    <2>2. state = "ACTIVE" /\ EchoDue /\ KeepaliveOnTime /\ InSession
      BY <1>u, <2>1 DEF InSession
    <2>3. rx_age <= LinkTimeout /\ ka_age <= KeepaliveGap
      BY <1>t, <2>2, NotLost, KeepaliveBound
    <2>4. ~LinkLost
      BY <1>n, <1>t, <2>3 DEF LinkLost
    <2>5. at' = "rx" /\ state' = state /\ UNCHANGED <<rx_age, tries, refused, iter, up, running>>
      BY <1>7, <2>4 DEF vmc_session_step
    <2>6. EchoDue'
      <3>1. CASE KeepaliveDue
        <4>1. net' = net \cup {r} /\ KeepaliveGap \in Nat
          BY <2>1, <3>1, GapBounds
        <4>2. Rem(r) = 2 * NetDelay
          BY <1>n DEF Rem
        <4>3. CASE rx_age <= ka_age
          <5>1. rx_age' + Rem(r) <= KeepaliveGap + 2 * NetDelay
            BY <1>n, <1>t, <2>3, <2>5, <4>1, <4>2, <4>3
          <5> QED  BY <4>1, <5>1 DEF EchoDue
        <4>4. CASE \E w \in net : w.stream = "CONTROL"
                                  /\ rx_age + Rem(w) <= KeepaliveGap + 2 * NetDelay
          BY <2>5, <4>1, <4>4 DEF EchoDue
        <4> QED  BY <2>2, <4>3, <4>4 DEF EchoDue
      <3>2. CASE ~KeepaliveDue
        BY <2>1, <2>2, <2>5, <3>2 DEF EchoDue
      <3> QED  BY <3>1, <3>2
    <2>7. KeepaliveOnTime'
      <3>1. ka_age' \in Nat /\ ka_age' <= KeepaliveMs
        BY <1>n, <1>t, <2>1, <2>2 DEF KeepaliveDue, Streaming
      <3>2. iter' <= MaxIteration /\ iter' \in Nat
        BY <1>t, <2>1, <2>2, <2>5 DEF KeepaliveOnTime
      <3> QED  BY <1>n, <2>5, <3>1, <3>2 DEF KeepaliveOnTime
    <2>8. \A n \in net' : Plain(n)
      BY <1>u, <2>1
    <2> QED  BY <1>u, <2>1, <2>2, <2>5, <2>6, <2>7, <2>8 DEF Undisturbed
  <1>8. ASSUME NEW m \in net, vmc_session_on_rx(m) PROVE Undisturbed'
    <2>1. /\ clean /\ at = "rx" /\ net' = net \ {m}
          /\ rx_age' = IF m.stream = "CONTROL" THEN 0 ELSE rx_age
          /\ UNCHANGED <<state, ka_age, at, tries, refused, iter, up, running>>
      BY <1>8 DEF vmc_session_on_rx
    <2>2. EchoDue'
      <3>1. CASE m.stream = "CONTROL"
        BY <1>t, <2>1, <3>1 DEF EchoDue
      <3>2. CASE m.stream # "CONTROL"
        <4>1. EchoDue
          BY <1>u, <2>1 DEF InSession
        <4>2. \A w \in net : w.stream = "CONTROL" => w \in net'
          BY <2>1, <3>2
        <4> QED  BY <2>1, <3>2, <4>1, <4>2 DEF EchoDue
      <3> QED  BY <3>1, <3>2
    <2>3. KeepaliveOnTime'
      BY <1>u, <2>1 DEF KeepaliveOnTime
    <2>4. \A n \in net' : Plain(n)
      BY <1>u, <2>1
    <2> QED  BY <1>u, <2>1, <2>2, <2>3, <2>4 DEF Undisturbed, InSession
  <1>9. CASE NextIteration
    <2>1. clean /\ at = "rx" /\ at' = "step" /\ iter' = 0
          /\ UNCHANGED <<state, rx_age, ka_age, tries, refused, net, up, running>>
      BY <1>9 DEF NextIteration
    <2>2. EchoDue'
      BY <1>u, <2>1 DEF EchoDue, InSession
    <2>3. KeepaliveOnTime'
      BY <1>n, <1>t, <1>u, <2>1 DEF KeepaliveOnTime
    <2> QED  BY <1>u, <2>1, <2>2, <2>3 DEF Undisturbed, InSession
  <1>10. CASE vmc_session_stop
    <2>1. clean /\ at' = "done" /\ UNCHANGED <<tries, refused, net, up, running>>
      BY <1>10 DEF vmc_session_stop
    <2> QED  BY <1>u, <2>1 DEF Undisturbed, InSession, KeepaliveOnTime
  <1>11. ASSUME NEW ev, Embedder(ev) PROVE Undisturbed'
    BY <1>11 DEF Embedder
  <1>12. ASSUME NEW m \in net, SimEcho(m) PROVE Undisturbed'
    <2> DEFINE r == [to |-> "client", stream |-> "CONTROL", age |-> 0]
    <2>1. m.to = "sim" /\ UNCHANGED <<state, rx_age, ka_age, at, tries, refused, iter, up, running>>
      BY <1>12 DEF SimEcho
    <2>2. clean /\ net' = (net \ {m}) \cup {r}
      <3>1. Transmit(net \ {m}, "client", "CONTROL")
        BY <1>12 DEF SimEcho
      <3> QED  BY <1>t, <3>1, Transmits
    <2>3. \A n \in net' : Plain(n)
      BY <1>u, <2>2
    <2>4. ASSUME at = "answer" PROVE RouteDue'
      <3>1. PICK w \in net : w.stream = "ROUTE" /\ iter + Rem(w) <= 2 * NetDelay
        BY <1>u, <2>2, <2>4 DEF RouteDue
      <3>2. w \in net'
        BY <1>u, <2>1, <2>2, <3>1
      <3> QED  BY <2>1, <3>1, <3>2 DEF RouteDue
    <2>5. ASSUME InSession PROVE EchoDue'
      <3>1. CASE rx_age <= ka_age
        BY <2>1, <3>1 DEF EchoDue
      <3>2. CASE \E w \in net : w.stream = "CONTROL"
                                /\ rx_age + Rem(w) <= KeepaliveGap + 2 * NetDelay
        <4>1. PICK w \in net : w.stream = "CONTROL"
                               /\ rx_age + Rem(w) <= KeepaliveGap + 2 * NetDelay
          BY <3>2
        <4>2. CASE w = m
          <5>1. Rem(r) = NetDelay /\ NetDelay <= Rem(m) /\ Rem(m) \in Nat
            BY <1>n, <1>t, <2>1, RemRange DEF Rem
          <5>2. rx_age' + Rem(r) <= KeepaliveGap + 2 * NetDelay
            BY <1>n, <1>t, <2>1, <4>1, <4>2, <5>1, GapBounds
          <5>3. r \in net' /\ r.stream = "CONTROL"
            BY <2>2
          <5> QED  BY <5>2, <5>3 DEF EchoDue
        <4>3. CASE w # m
          BY <2>1, <2>2, <4>1, <4>3 DEF EchoDue
        <4> QED  BY <4>2, <4>3
      <3> QED  BY <1>u, <2>2, <2>5, <3>1, <3>2 DEF EchoDue
    <2>6. KeepaliveOnTime'
      BY <1>u, <2>1, <2>2 DEF KeepaliveOnTime
    <2> QED  BY <1>u, <2>1, <2>2, <2>3, <2>4, <2>5, <2>6 DEF Undisturbed, InSession
  <1>13. CASE SimVideo
    <2> DEFINE r == [to |-> "client", stream |-> "VIDEO", age |-> 0]
    <2>1. UNCHANGED <<state, rx_age, ka_age, at, tries, refused, iter, up, running>>
      BY <1>13 DEF SimVideo
    <2>2. clean /\ net' = net \cup {r}
      <3>1. Transmit(net, "client", "VIDEO")
        BY <1>13 DEF SimVideo
      <3> QED  BY <1>t, <3>1, Transmits
    <2>3. \A n \in net' : Plain(n)
      BY <1>u, <2>2
    <2>4. RouteDue => RouteDue'
      BY <2>1, <2>2 DEF RouteDue
    <2>5. EchoDue => EchoDue'
      BY <2>1, <2>2 DEF EchoDue
    <2>6. KeepaliveOnTime'
      BY <1>u, <2>1, <2>2 DEF KeepaliveOnTime
    <2> QED  BY <1>u, <2>1, <2>2, <2>3, <2>4, <2>5, <2>6 DEF Undisturbed, InSession
  <1>14. CASE LinkDown
    BY <1>14 DEF LinkDown
  <1>15. CASE LinkUp
    BY <1>15, <1>u DEF LinkUp
  <1>16. CASE Tick
    <2>1. /\ clean /\ iter < Patience
          /\ UNCHANGED <<state, at, tries, refused, up, running>>
          /\ at \notin {"done", "failed"} => iter' = iter + 1
          /\ rx_age' = Capped(rx_age, LinkTimeout + 1)
          /\ ka_age' = Capped(ka_age, KeepaliveGap)
      BY <1>16 DEF Tick
    <2>2. at # "ask"
      BY <1>t, <2>1 DEF Patience
    <2>3. \A n \in net' : Plain(n)
      <3>1. ASSUME NEW n \in net' PROVE Plain(n)
        <4>1. PICK m \in net : n.stream = m.stream /\ n.to = m.to
          BY <1>16, <1>t, Younger
        <4> QED  BY <1>u, <2>1, <4>1
      <3> QED  BY <3>1
    <2>4. ASSUME at = "answer" PROVE RouteDue'
      <3>1. PICK w \in net : w.stream = "ROUTE" /\ iter + Rem(w) <= 2 * NetDelay
        BY <1>u, <2>1, <2>4 DEF RouteDue
      <3>2. PICK n \in net' : n.stream = w.stream /\ Rem(n) = Rem(w) - 1
        BY <1>16, <1>t, Older
      <3>3. Rem(w) \in Nat
        BY <1>n, <1>t, RemRange
      <3>4. iter' + Rem(n) <= 2 * NetDelay
        BY <1>n, <1>t, <2>1, <2>4, <3>1, <3>2, <3>3
      <3> QED  BY <3>1, <3>2, <3>4 DEF RouteDue
    <2>5. ASSUME InSession
          PROVE  /\ ka_age < KeepaliveGap /\ ka_age' = ka_age + 1 /\ iter' = iter + 1
                 /\ rx_age' \in Nat /\ rx_age' <= rx_age + 1
      <3>1. iter < IF at = "setup" THEN MaxSetup ELSE MaxIteration
        BY <2>1, <2>5 DEF Patience, InSession
      <3>2. ka_age < KeepaliveGap
        BY <1>n, <1>t, <1>u, <2>1, <2>5, <3>1, GapBounds DEF KeepaliveOnTime, InSession
      <3>3. ka_age' = ka_age + 1
        BY <2>1, <3>2 DEF Capped
      <3>4. rx_age' \in Nat /\ rx_age' <= rx_age + 1
        <4>1. rx_age \in 0..LinkTimeout+1
          BY <1>t DEF TypeOK
        <4> QED  BY <1>n, <2>1, <4>1 DEF Capped
      <3>5. iter' = iter + 1
        BY <2>1, <2>5 DEF InSession
      <3> QED  BY <3>2, <3>3, <3>4, <3>5
    <2>6. ASSUME InSession PROVE EchoDue'
      <3>1. CASE rx_age <= ka_age
        BY <1>t, <2>5, <2>6, <3>1 DEF EchoDue
      <3>2. CASE \E w \in net : w.stream = "CONTROL"
                                /\ rx_age + Rem(w) <= KeepaliveGap + 2 * NetDelay
        <4>1. PICK w \in net : w.stream = "CONTROL"
                               /\ rx_age + Rem(w) <= KeepaliveGap + 2 * NetDelay
          BY <3>2
        <4>2. PICK n \in net' : n.stream = w.stream /\ Rem(n) = Rem(w) - 1
          BY <1>16, <1>t, Older
        <4>3. Rem(w) \in Nat
          BY <1>n, <1>t, RemRange
        <4>4. rx_age' + Rem(n) <= KeepaliveGap + 2 * NetDelay
          BY <1>n, <1>t, <2>5, <2>6, <4>1, <4>2, <4>3, GapBounds
        <4> QED  BY <4>1, <4>2, <4>4 DEF EchoDue
      <3> QED  BY <1>u, <2>1, <2>6, <3>1, <3>2 DEF EchoDue
    <2>7. KeepaliveOnTime'
      <3>1. CASE InSession
        <4>1. iter < IF at = "setup" THEN MaxSetup ELSE MaxIteration
          BY <2>1, <3>1 DEF Patience, InSession
        <4> QED  BY <1>n, <1>t, <1>u, <2>1, <2>5, <3>1, <4>1 DEF KeepaliveOnTime
      <3>2. CASE ~InSession
        BY <2>1, <3>2 DEF KeepaliveOnTime, InSession
      <3> QED  BY <3>1, <3>2
    <2> QED  BY <1>u, <2>1, <2>2, <2>3, <2>4, <2>6, <2>7 DEF Undisturbed, InSession
  <1>17. CASE UNCHANGED vars
    <2>1. clean /\ UNCHANGED <<state, rx_age, ka_age, at, tries, refused, iter, net, up, running>>
      BY <1>17 DEF vars
    <2>2. (RouteDue => RouteDue') /\ (EchoDue => EchoDue')
      BY <2>1 DEF RouteDue, EchoDue
    <2>3. KeepaliveOnTime'
      BY <1>u, <2>1 DEF KeepaliveOnTime
    <2> QED  BY <1>u, <2>1, <2>2, <2>3 DEF Undisturbed, InSession
  <1> QED
    BY <1>1, <1>2, <1>3, <1>4, <1>5, <1>6, <1>7, <1>8, <1>9, <1>10, <1>11, <1>12, <1>13,
       <1>14, <1>15, <1>16, <1>17 DEF Next, GetRoute, Reply, OnRx, Echo, Embed

-----------------------------------------------------------------------------
\* The initial state satisfies the invariant: nothing is in flight yet.
LEMMA SInvInit == Init => SInv
  <1> SUFFICES ASSUME Init PROVE SInv
    OBVIOUS
  <1>1. running \in BOOLEAN
    BY DEF Init
  <1>2. TypeOK
    <2>1. clean \in BOOLEAN /\ up \in BOOLEAN /\ refused \in BOOLEAN /\ have_client \in BOOLEAN
      BY <1>1 DEF Init
    <2>2. tries \in 0..MaxRetries /\ rx_age \in 0..LinkTimeout+1 /\ ka_age \in 0..KeepaliveGap
      BY SessionAssumption, GapBounds DEF Init
    <2>3. state \in States /\ at \in Places /\ iter \in Nat /\ net \subseteq Datagrams
      BY DEF Init, States, Places
    <2> QED  BY <1>1, <2>1, <2>2, <2>3 DEF TypeOK
  <1>3. clean => Undisturbed
    BY DEF Init, Undisturbed, InSession, KeepaliveOnTime
  <1> QED  BY <1>2, <1>3 DEF SInv

\* vmc_session_step, vmc_mapper_resolve and the network keep the types.
THEOREM SessionTyped == Spec => []TypeOK
  <1>1. Init => TypeOK
    BY SInvInit DEF SInv
  <1>2. TypeOK /\ [Next]_vars => TypeOK'
    BY TypeStep
  <1> QED  BY <1>1, <1>2, PTL DEF Spec

\* As long as nothing was lost and nobody interfered, vmc_mapper_resolve
\* succeeds at its first attempt and vmc_session_step never declares the link
\* lost, for every timing that meets TimingAssumption.
THEOREM LinkKept == Spec => []NoFalseLoss
  <1>1. SInv /\ [Next]_vars => SInv'
    <2> SUFFICES ASSUME SInv, [Next]_vars PROVE SInv'
      OBVIOUS
    <2>1. TypeOK'
      BY TypeStep DEF SInv
    <2>2. clean' => Undisturbed'
      BY UndisturbedStep
    <2> QED  BY <2>1, <2>2 DEF SInv
  <1>2. SInv => NoFalseLoss
    BY DEF SInv, Undisturbed, NoFalseLoss, InSession
  <1> QED  BY SInvInit, <1>1, <1>2, PTL DEF Spec
=============================================================================
