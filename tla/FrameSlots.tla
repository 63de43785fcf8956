----------------------------- MODULE FrameSlots -----------------------------
(***************************************************************************)
(* The access-unit slot pool of apps/thinclient/main.c (g_frames), its     *)
(* mutex g_fmu and its two condition variables: a taker (the DASH reader,  *)
(* or the UDP main loop) waits on g_ffree for a FREE slot, the decode      *)
(* worker waits on g_fready for a READY one.  A critical section is one    *)
(* step; a thread in pthread_cond_wait is asleep until signalled.          *)
(***************************************************************************)
EXTENDS Integers

CONSTANTS NSlots  \* VMC_FRAME_SLOTS

ASSUME SlotAssumption == NSlots \in Nat \ {0}

Slots == 0..NSlots-1

VARIABLES slots,  \* slot -> [state, frame, deadline]
          fmu,    \* "free", or "orphaned": locked by a thread that is gone
          asleep  \* who is in pthread_cond_wait: "taker", "picker"

slotVars == <<slots, fmu, asleep>>

SlotStates == {"FREE", "READY", "DECODING", "WRITING"}

InState(st) == {i \in Slots : slots[i].state = st}

SlotsTypeOK ==
  /\ slots \in [Slots -> [state : SlotStates, frame : Nat, deadline : Nat]]
  /\ fmu \in {"free", "orphaned"}
  /\ asleep \in SUBSET {"taker", "picker"}

SlotsInit ==
  /\ slots = [i \in Slots |-> [state |-> "FREE", frame |-> 0, deadline |-> 0]]
  /\ fmu = "free"
  /\ asleep = {}

SetState(i, st) == slots' = [slots EXCEPT ![i].state = st]

\* slot_take_write: the first FREE slot, or a wait on g_ffree.
TakeWrite(i) ==
  /\ fmu = "free" /\ "taker" \notin asleep
  /\ i \in InState("FREE")
  /\ \A j \in InState("FREE") : i <= j
  /\ SetState(i, "WRITING")
  /\ UNCHANGED <<fmu, asleep>>

TakeWait ==
  /\ fmu = "free" /\ "taker" \notin asleep
  /\ InState("FREE") = {}
  /\ asleep' = asleep \cup {"taker"}
  /\ UNCHANGED <<slots, fmu>>

\* slot_publish: fill in the identity, READY, signal g_fready.
SilentPublish(i, f, d) ==
  /\ fmu = "free"
  /\ slots' = [slots EXCEPT
                 ![i] = [state |-> "READY", frame |-> f, deadline |-> d]]
  /\ UNCHANGED <<fmu, asleep>>

slot_publish(i, f, d) ==
  /\ fmu = "free"
  /\ slots' = [slots EXCEPT
                 ![i] = [state |-> "READY", frame |-> f, deadline |-> d]]
  /\ asleep' = asleep \ {"picker"}
  /\ UNCHANGED fmu

\* slot_release, and the oversize branch of dash_publish_au: FREE, signal
\* g_ffree.
slot_release(i) ==
  /\ fmu = "free"
  /\ SetState(i, "FREE")
  /\ asleep' = asleep \ {"taker"}
  /\ UNCHANGED fmu

\* The decode worker's scan: the READY slot with the smallest deadline, the
\* lowest index among equals; or a wait on g_fready.
FirstReady(i) ==
  /\ i \in InState("READY")
  /\ \A j \in InState("READY") : i <= j

Earliest(i) ==
  /\ i \in InState("READY")
  /\ \A j \in InState("READY") :
       \/ slots[i].deadline < slots[j].deadline
       \/ slots[i].deadline = slots[j].deadline /\ i <= j

PickAwake == fmu = "free" /\ "picker" \notin asleep

PickWait ==
  /\ PickAwake
  /\ InState("READY") = {}
  /\ asleep' = asleep \cup {"picker"}
  /\ UNCHANGED <<slots, fmu>>

MarkDecoding(i) ==
  /\ fmu = "free"
  /\ SetState(i, "DECODING")
  /\ UNCHANGED <<fmu, asleep>>

\* pthread_cond_broadcast(&g_fready) of the shutdown sequences.
BroadcastReady ==
  /\ fmu = "free"
  /\ asleep' = asleep \ {"picker"}
  /\ UNCHANGED <<slots, fmu>>

\* pthread_cancel of a taker inside pthread_cond_wait: the mutex is
\* reacquired before the thread unwinds and no cleanup handler unlocks it.
CancelWaitingTaker ==
  /\ fmu = "free" /\ "taker" \in asleep
  /\ fmu' = "orphaned"
  /\ asleep' = asleep \ {"taker"}
  /\ UNCHANGED slots
=============================================================================
