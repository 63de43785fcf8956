----------------------------- MODULE InputBatch -----------------------------
(***************************************************************************)
(* The input section of the client's main loop (apps/thinclient/main.c)    *)
(* and the batch it fills (src/input/batch.c).  Events are numbered in the *)
(* order the device reports them; the clock is kept as the time since the  *)
(* last flush, which is all the loop compares.                             *)
(***************************************************************************)
EXTENDS Naturals, Sequences

CONSTANTS BatchMax,   \* VMC_INPUT_BATCH_MAX_EVENTS
          FlushMs,    \* input_flush_ms
          NEvents,    \* events the device reports
          LoopMs      \* possible durations of one loop iteration

VARIABLES reported,  \* events the device has reported
          polled,    \* events vmc_input_poll has returned
          batch,     \* vmc_input_batch: events pushed in this iteration
          at,        \* "poll" or "flush"
          since,     \* now_ms - last_input_flush_ms, up to FlushMs
          wire       \* events of every datagram handed to the transport

vars == <<reported, polled, batch, at, since, wire>>

Init ==
  /\ reported = 0 /\ polled = 0 /\ batch = <<>>
  /\ at = "poll" /\ since = FlushMs /\ wire = <<>>

\* The touch panel reports an event, whatever the loop is doing.
Touch ==
  /\ reported < NEvents
  /\ reported' = reported + 1
  /\ UNCHANGED <<polled, batch, at, since, wire>>

vmc_input_batch_full(b) == Len(b) >= BatchMax

\* while (vmc_input_poll(...) == VMC_OK): push, or stop at VMC_ERR_OVERRUN
\* with the polled event in hand.
PollOne ==
  /\ at = "poll" /\ polled < reported
  /\ polled' = polled + 1
  /\ IF vmc_input_batch_full(batch)
       THEN at' = "flush" /\ UNCHANGED batch
       ELSE batch' = Append(batch, polled + 1) /\ UNCHANGED at
  /\ UNCHANGED <<reported, since, wire>>

PollEmpty ==
  /\ at = "poll" /\ polled = reported
  /\ at' = "flush"
  /\ UNCHANGED <<reported, polled, batch, since, wire>>

FlushDue == since >= FlushMs /\ batch # <<>>

\* Serialise and send the batch when the cadence allows, then the rest of the
\* iteration; the next one starts with vmc_input_batch_reset.
EndIteration(ms) ==
  /\ at = "flush"
  /\ at' = "poll" /\ batch' = <<>>
  /\ wire' = IF FlushDue THEN wire \o batch ELSE wire
  /\ LET t == (IF FlushDue THEN 0 ELSE since) + ms
     IN  since' = IF t < FlushMs THEN t ELSE FlushMs
  /\ UNCHANGED <<reported, polled>>

Next == Touch \/ PollOne \/ PollEmpty \/ \E ms \in LoopMs : EndIteration(ms)

Spec == Init /\ [][Next]_vars

-----------------------------------------------------------------------------
\* main.c: "Input: accumulate and flush on cadence."  The batch is a local
\* that every iteration resets, so what was polled in an iteration that does
\* not flush, and the event that overran a batch, are never sent.
EveryEventKept ==
  at = "poll" => \A e \in 1..polled : \E i \in 1..Len(wire \o batch) : (wire \o batch)[i] = e
=============================================================================
