------------------------- MODULE EventDeduplicator -------------------------
(***************************************************************************)
(* The per-slot event deduplicator                                         *)
(* (components/honeywell_activlink/event_deduplicator.cpp).                *)
(*                                                                         *)
(* It remembers, separately for ring and secret presses, when the last     *)
(* event was recorded.  Time is relative here: a memory holds the time     *)
(* since that event.  From Horizon on neither window can suppress          *)
(* anything, so the ages from Horizon up and "never seen" are one value,   *)
(* Forgotten.  The code computes the age from a clock that wraps at 2^32   *)
(* ms; that is in module LoopTimers.                                       *)
(***************************************************************************)
EXTENDS Integers

CONSTANTS
    RepeatWindow,   \* deduplication_ms
    RelayWindow     \* relay_deduplication_ms

ASSUME WindowAssumption == RepeatWindow \in Nat /\ RelayWindow \in Nat

Horizon == IF RepeatWindow > RelayWindow THEN RepeatWindow ELSE RelayWindow

Forgotten == Horizon

Memory == [BOOLEAN -> 0 .. Horizon]   \* indexed by secret_press

ResetMemory == [secret \in BOOLEAN |-> Forgotten]

\* A bug to rule out: relayed copies are held to the short window only.
ShouldPublishRepeatOnly(m, secret, relay) == m[secret] >= RepeatWindow

ShouldPublish(m, secret, relay) ==
    /\ m[secret] >= RepeatWindow
    /\ relay => m[secret] >= RelayWindow

Record(m, secret) == [m EXCEPT ![secret] = 0]

Older(m) == [secret \in BOOLEAN |-> IF m[secret] < Horizon THEN m[secret] + 1 ELSE Horizon]
=============================================================================
