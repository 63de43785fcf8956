------------------------------ MODULE Session ------------------------------
(***************************************************************************)
(* The session of the UDP client: discovery (src/session/mapper.c), the    *)
(* state machine (src/session/state.c), keepalive and link-loss detection  *)
(* (src/session/session.c), the main function that drives them             *)
(* (apps/thinclient/main.c) and the simulator that answers requests and    *)
(* echoes keepalives (tools/vmc_sim/main.c), over a network that can fail. *)
(* Times are kept as ages, capped where the code's comparisons stop        *)
(* telling them apart.  The retries counter of the state machine, which    *)
(* nothing reads, is left out.                                             *)
(***************************************************************************)
EXTENDS Naturals

CONSTANTS KeepaliveMs,    \* keepalive_interval_ms, in ticks
          LinkTimeout,    \* cfg.link_timeout_ms
          MapperTimeout,  \* timeout_ms of vmc_mapper_resolve
          MaxRetries,     \* and its max_retries
          NetDelay,       \* longest time from a send to the receiver's loop
          MaxSetup,       \* longest time from vmc_session_ctx_init to the loop
          MaxIteration,   \* longest iteration of the main loop
          Faults          \* subset of {"loss", "outage", "late", "junk",
                          \*            "events", "stop"}

ASSUME SessionAssumption ==
  /\ KeepaliveMs \in Nat /\ LinkTimeout \in Nat /\ MapperTimeout \in Nat
  /\ MaxRetries \in Nat /\ NetDelay \in Nat
  /\ MaxSetup \in Nat /\ MaxIteration \in Nat

\* The longest time between two keepalives.
KeepaliveGap ==
  IF KeepaliveMs + 2 * MaxIteration > MaxSetup + MaxIteration
    THEN KeepaliveMs + 2 * MaxIteration ELSE MaxSetup + MaxIteration

\* What the two timeouts presuppose of the network and of the client's speed:
\* an answer arrives within the mapper's timeout, and a keepalive and its echo
\* within the link's.
ASSUME TimingAssumption ==
  /\ 2 * NetDelay < MapperTimeout
  /\ KeepaliveGap + 2 * NetDelay <= LinkTimeout

VARIABLES state,        \* sm.state
          at,           \* main: "ask" and "answer" in vmc_mapper_resolve,
                        \* "setup", "step" and "rx" in the loop, "done", "failed"
          tries,        \* attempt, in vmc_mapper_resolve
          refused,      \* the mapper socket has a pending ECONNREFUSED
          rx_age,       \* now - last_rx_ms
          ka_age,       \* now - last_keepalive_ms
          iter,         \* time spent in this wait, set-up or iteration
          net,          \* datagrams in flight: [to, stream, age]
          up,           \* the network carries datagrams
          running,      \* the simulator has bound its ports
          have_client,  \* and has learned the client's address
          clean         \* history: nothing lost, late, malformed or from outside

session == <<state, rx_age, ka_age>>
world   == <<up, running, have_client>>
vars    == <<session, at, tries, refused, iter, net, world, clean>>

States == {"OFFLINE", "DISCOVER", "CONNECTING", "ACTIVE", "DEGRADED",
           "RECONNECTING", "TERMINATING"}

\* The transitions of vmc_session_dispatch; any other event is refused with
\* VMC_ERR_INVALID_STATE (or ignored, in TERMINATING).
Edges ==
  { <<"OFFLINE", "BOOT", "DISCOVER">>,
    <<"DISCOVER", "MAPPER_RESP", "CONNECTING">>,
    <<"DISCOVER", "LINK_LOST", "OFFLINE">>,
    <<"CONNECTING", "TRANSPORT_UP", "ACTIVE">>,
    <<"CONNECTING", "TIMEOUT", "DISCOVER">>,
    <<"CONNECTING", "LINK_LOST", "OFFLINE">>,
    <<"RECONNECTING", "TRANSPORT_UP", "ACTIVE">>,
    <<"RECONNECTING", "LINK_OK", "DISCOVER">>,
    <<"RECONNECTING", "TIMEOUT", "OFFLINE">>,
    <<"ACTIVE", "LINK_DEGRADED", "DEGRADED">>,
    <<"DEGRADED", "LINK_OK", "ACTIVE">> }
  \cup { <<s, "LINK_LOST", "RECONNECTING">> : s \in {"ACTIVE", "DEGRADED"} }
  \cup { <<s, e, "TERMINATING">> : s \in {"ACTIVE", "DEGRADED"},
                                   e \in {"USER_TERMINATE", "SECURITY_TERM"} }

Events == {e[2] : e \in Edges}

dispatch(s, ev) ==
  IF \E e \in Edges : e[1] = s /\ e[2] = ev
    THEN (CHOOSE e \in Edges : e[1] = s /\ e[2] = ev)[3] ELSE s

Init ==
  /\ state = "OFFLINE" /\ at = "ask" /\ tries = 0 /\ refused = FALSE
  /\ rx_age = 0 /\ ka_age = 0 /\ iter = 0
  /\ net = {} /\ up = TRUE /\ have_client = FALSE
  /\ running \in {TRUE} \cup {FALSE : f \in Faults \cap {"late"}}
  /\ clean = running

Capped(a, cap) == IF a < cap THEN a + 1 ELSE cap

\* A datagram enters the network, unless it is down or loses it.
Transmit(rest, to, stream) ==
  \/ /\ up /\ net' = rest \cup {[to |-> to, stream |-> stream, age |-> 0]}
     /\ UNCHANGED clean
  \/ /\ ~up \/ "loss" \in Faults
     /\ net' = rest /\ clean' = FALSE

-----------------------------------------------------------------------------
(* vmc_mapper_resolve, and main up to its loop.                            *)

Resolving == at \in {"ask", "answer"}

\* One attempt.  A send that reports the refusal of an earlier request ends
\* the discovery, and with it main.
SendRequest ==
  /\ at = "ask"
  /\ IF refused THEN at' = "failed" /\ UNCHANGED <<net, clean>>
                ELSE at' = "answer" /\ Transmit(net, "mapper", "ROUTE")
  /\ refused' = FALSE
  /\ UNCHANGED <<session, tries, iter, world>>

AgainForever == at' = "ask" /\ UNCHANGED tries

\* The head of the for loop.
Again ==
  IF tries < MaxRetries THEN at' = "ask" /\ tries' = tries + 1
                        ELSE at' = "failed" /\ UNCHANGED tries

\* recv fails, after timeout_ms or at once with the refusal.
NoAnswer ==
  /\ at = "answer" /\ (iter = MapperTimeout \/ refused)
  /\ Again
  /\ refused' = FALSE /\ iter' = 0
  /\ UNCHANGED <<session, net, world, clean>>

vmc_session_ctx_init == rx_age' = 0 /\ ka_age' = 0

\* main opens the media socket; three dispatches bring the session up.
SessionUp ==
  /\ vmc_session_ctx_init
  /\ state' = dispatch(dispatch(dispatch("OFFLINE", "BOOT"), "MAPPER_RESP"),
                       "TRANSPORT_UP")
  /\ at' = "setup"

\* recv delivers an answer, to this attempt or to an earlier one; with a route
\* the socket is closed and the session starts.
Answer(m) ==
  /\ at = "answer" /\ m \in net /\ m.to = "resolver"
  /\ IF m.stream = "ROUTE"
       THEN /\ SessionUp /\ net' = {n \in net : n.to # "resolver"}
            /\ refused' = FALSE /\ UNCHANGED tries
       ELSE /\ Again /\ net' = net \ {m}
            /\ UNCHANGED <<session, refused>>
  /\ iter' = 0
  /\ UNCHANGED <<world, clean>>

\* Display, decoder, audio and input are open: main enters its loop.
SetupDone ==
  /\ at = "setup"
  /\ at' = "step" /\ iter' = 0
  /\ UNCHANGED <<session, tries, refused, net, world, clean>>

\* A request reaches the mapper's port.  drain_mapper answers every one; an
\* answer to a socket that is closed by then goes nowhere, and a port that is
\* not bound refuses the request.
MapperReply(m) ==
  /\ m \in net /\ m.to = "mapper"
  /\ \/ /\ running /\ Resolving
        /\ Transmit(net \ {m}, "resolver", "ROUTE")
        /\ UNCHANGED refused
     \/ /\ running /\ Resolving /\ "junk" \in Faults
        /\ net' = (net \ {m}) \cup {[to |-> "resolver", stream |-> "JUNK", age |-> 0]}
        /\ clean' = FALSE /\ UNCHANGED refused
     \/ /\ ~running \/ ~Resolving
        /\ net' = net \ {m}
        /\ refused' = Resolving /\ UNCHANGED clean
  /\ UNCHANGED <<session, at, tries, iter, world>>

SimStarts ==
  /\ ~running /\ running' = TRUE
  /\ UNCHANGED <<session, at, tries, refused, iter, net, up, have_client, clean>>

-----------------------------------------------------------------------------
(* The main loop.                                                          *)

Streaming == state \in {"ACTIVE", "DEGRADED"}

\* The two checks of vmc_session_step, on the state before it.
KeepaliveDue == Streaming /\ ka_age >= KeepaliveMs

LostWhenDegraded == state = "DEGRADED" /\ LinkTimeout > 0 /\ rx_age > LinkTimeout

LinkLost == Streaming /\ LinkTimeout > 0 /\ rx_age > LinkTimeout

vmc_session_step ==
  /\ at = "step"
  /\ IF KeepaliveDue THEN ka_age' = 0 /\ Transmit(net, "sim", "CONTROL")
                     ELSE UNCHANGED <<ka_age, net, clean>>
  /\ state' = IF LinkLost THEN dispatch(state, "LINK_LOST") ELSE state
  /\ at' = "rx"
  /\ UNCHANGED <<rx_age, tries, refused, iter, world>>

\* The receive loop, one datagram: vmc_session_on_rx.
OnRxDeaf(m) ==
  /\ at = "rx" /\ m \in net /\ m.to = "client"
  /\ net' = net \ {m}
  /\ UNCHANGED <<session, at, tries, refused, iter, world, clean>>

vmc_session_on_rx(m) ==
  /\ at = "rx" /\ m \in net /\ m.to = "client"
  /\ net' = net \ {m}
  /\ rx_age' = IF m.stream = "CONTROL" THEN 0 ELSE rx_age
  /\ UNCHANGED <<state, ka_age, at, tries, refused, iter, world, clean>>

\* Nothing more to receive: the rest of the iteration.
NextIteration ==
  /\ at = "rx"
  /\ at' = "step" /\ iter' = 0
  /\ UNCHANGED <<session, tries, refused, net, world, clean>>

\* g_run is cleared: main leaves the loop and calls vmc_session_stop.
vmc_session_stop ==
  /\ "stop" \in Faults /\ at = "step"
  /\ state' = dispatch(state, "USER_TERMINATE")
  /\ at' = "done"
  /\ UNCHANGED <<rx_age, ka_age, tries, refused, iter, net, world, clean>>

\* An embedder of the library dispatches events of its own; the thin client
\* dispatches none after start-up.
Embedder(ev) ==
  /\ "events" \in Faults /\ at = "step"
  /\ state' = dispatch(state, ev) /\ clean' = FALSE
  /\ UNCHANGED <<rx_age, ka_age, at, tries, refused, iter, net, world>>

-----------------------------------------------------------------------------
(* The simulator's media port, the network and time.                       *)

\* drain_media learns the client from a datagram, and echoes a keepalive.
SimEcho(m) ==
  /\ m \in net /\ m.to = "sim"
  /\ Transmit(net \ {m}, "client", "CONTROL")
  /\ have_client' = TRUE
  /\ UNCHANGED <<session, at, tries, refused, iter, up, running>>

\* send_au, send_audio: to the client, once it is known, whatever it does.
SimVideo ==
  /\ have_client
  /\ ~\E m \in net : m.stream = "VIDEO"
  /\ Transmit(net, "client", "VIDEO")
  /\ UNCHANGED <<session, at, tries, refused, iter, world>>

LinkDown ==
  /\ "outage" \in Faults /\ up
  /\ up' = FALSE /\ net' = {} /\ clean' = FALSE
  /\ UNCHANGED <<session, at, tries, refused, iter, running, have_client>>

LinkUp ==
  /\ ~up /\ up' = TRUE
  /\ UNCHANGED <<session, at, tries, refused, iter, net, running, have_client, clean>>

\* How long main may stay where it is.
Patience ==
  CASE at = "ask"            -> 0
    [] at = "answer"         -> IF refused THEN 0 ELSE MapperTimeout
    [] at = "setup"          -> MaxSetup
    [] at \in {"step", "rx"} -> MaxIteration
    [] OTHER                 -> iter + 1

\* Time passes; nothing stays in the network, and main does not stay in one
\* place, for longer than its bound.
Tick ==
  /\ \A m \in net : m.age < NetDelay
  /\ iter < Patience
  /\ iter' = IF at \in {"done", "failed"} THEN iter ELSE iter + 1
  /\ rx_age' = Capped(rx_age, LinkTimeout + 1)
  /\ ka_age' = Capped(ka_age, KeepaliveGap)
  /\ net' = {[m EXCEPT !.age = @ + 1] : m \in net}
  /\ UNCHANGED <<state, at, tries, refused, world, clean>>

Reply    == \E m \in net : MapperReply(m)
GetRoute == \E m \in net : Answer(m)
OnRx     == \E m \in net : vmc_session_on_rx(m)
Echo     == \E m \in net : SimEcho(m)
Embed    == \E ev \in Events : Embedder(ev)

Next ==
  \/ SendRequest \/ NoAnswer \/ GetRoute \/ SetupDone \/ Reply \/ SimStarts
  \/ vmc_session_step \/ OnRx \/ NextIteration \/ vmc_session_stop \/ Embed
  \/ Echo \/ SimVideo \/ LinkDown \/ LinkUp \/ Tick

Spec == Init /\ [][Next]_vars

\* main runs, time passes, the simulator takes what reaches it.
FairSpec ==
  /\ Spec
  /\ WF_vars(SendRequest) /\ WF_vars(NoAnswer) /\ WF_vars(GetRoute) /\ WF_vars(SetupDone)
  /\ WF_vars(vmc_session_step) /\ SF_vars(OnRx) /\ WF_vars(NextIteration)
  /\ WF_vars(Reply) /\ WF_vars(Echo) /\ WF_vars(Tick)

-----------------------------------------------------------------------------
Places == {"ask", "answer", "setup", "step", "rx", "done", "failed"}

Datagrams == [to : {"mapper", "resolver", "sim", "client"},
              stream : {"ROUTE", "JUNK", "CONTROL", "VIDEO"}, age : 0..NetDelay]

\* Types.
TypeOK ==
  /\ state \in States /\ at \in Places
  /\ tries \in 0..MaxRetries /\ refused \in BOOLEAN
  /\ rx_age \in 0..LinkTimeout+1 /\ ka_age \in 0..KeepaliveGap
  /\ iter \in Nat /\ net \subseteq Datagrams
  /\ up \in BOOLEAN /\ running \in BOOLEAN /\ have_client \in BOOLEAN
  /\ clean \in BOOLEAN

\* As long as nothing was lost and nobody interfered, the client finds its
\* route with the first request, and keepalive interval, set-up, round trip
\* and loop time together stay within link_timeout_ms: vmc_session_step never
\* declares a working link lost, from which the client would not come back.
NoFalseLoss ==
  clean => /\ at # "failed" /\ tries = 0
           /\ at \in {"setup", "step", "rx"} => state = "ACTIVE"

\* vmc_mapper_resolve returns whatever the mapper and the network do: lost,
\* malformed and late answers and refused requests use up the retries.
DiscoveryEnds == <>~Resolving

\* When the network goes down for good, vmc_session_step notices, and does
\* so again whenever an embedder declares the dead transport up: the session
\* never streams into the void for good.
LossDetected == <>[](~up) => []<>(~Streaming \/ at = "done")

-----------------------------------------------------------------------------
(* What comments say, where the code does otherwise.                       *)

\* state.h describes RECONNECTING as "transport lost; re-establishing".  Once
\* there, nothing in the client dispatches an event that leads out of it, and
\* vmc_session_step no longer sends keepalives.
Reconnects == state = "RECONNECTING" ~> state # "RECONNECTING"

\* mapper.c calls a failed recv "timeout, retry".  A refused request fails it
\* at once, so a simulator that starts a moment later finds the client gone:
\* the retries do not wait for it.
RetriesAfterTimeout ==
  [][at = "answer" /\ tries' # tries => iter = MapperTimeout]_vars
=============================================================================
