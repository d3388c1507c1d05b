------------------------------ MODULE Reception ------------------------------
(***************************************************************************)
(* How a press of a paired button becomes an event: the burst decoder and  *)
(* the deduplicator of the button's slot, one after the other in           *)
(* ActivLinkComponent::on_receive.                                         *)
(*                                                                         *)
(* A press is a direct broadcast and, some time later, a relay-marked copy *)
(* of it.  The two differ in the relay bit, so they are two frames to the  *)
(* decoder.  Each may reach the gateway whole, as one capture of enough    *)
(* rows, or only in part.                                                  *)
(***************************************************************************)
EXTENDS BurstDecoder, EventDeduplicator

CONSTANTS
    Direct, Relayed,   \* the two frames of the button
    RelayFirst,        \* least and greatest age of a press when its relayed
    RelayLast,         \*   copy comes
    Spacing            \* least time between two presses

ASSUME ReceptionAssumption ==
    /\ Frames = {Direct, Relayed}
    /\ Direct # Relayed
    /\ {RelayFirst, RelayLast, Spacing} \subseteq Nat
    /\ RelayFirst <= RelayLast
    /\ RelayLast < RelayWindow

VARIABLES
    memory,     \* event_deduplicator of the slot
    sincePress, \* ticks since the last press
    relayDue,   \* the relayed copy of that press may still come
    rang,       \* the last press triggered events: 0, 1 or 2 and more
    whole       \* the direct broadcast of the last press was heard whole

receptionVars == <<decoderVars, memory, sincePress, relayDue, rang, whole>>

Long == IF Spacing > RelayLast THEN Spacing ELSE RelayLast

Whole(frame) == [i \in 1 .. MinimumRepeats |-> frame]

Parts(frame) == {capture \in Captures : \A i \in DOMAIN capture : capture[i] = frame}

-----------------------------------------------------------------------------
\* A new press: the decoder gets its direct broadcast, or a part of it.
PressButton(capture) ==
    /\ sincePress >= Spacing
    /\ capture \in Parts(Direct)
    /\ Decode(capture)
    /\ sincePress' = 0
    /\ relayDue' = TRUE
    /\ rang' = 0
    /\ whole' = (Len(capture) >= MinimumRepeats)
    /\ UNCHANGED memory

HearRelayedCopy(capture) ==
    /\ relayDue
    /\ sincePress \in RelayFirst .. RelayLast
    /\ capture \in Parts(Relayed)
    /\ Decode(capture)
    /\ relayDue' = FALSE
    /\ UNCHANGED <<memory, sincePress, rang, whole>>

\* The rest of on_receive runs as soon as decode() returns a frame.
DecodeRow ==
    LET publishes == /\ result' # NoFrame
                     /\ ShouldPublish(memory, FALSE, result' = Relayed)
    IN  /\ ConsiderRow
        /\ memory' = IF publishes THEN Record(memory, FALSE) ELSE memory
        /\ rang' = IF publishes /\ rang < 2 THEN rang + 1 ELSE rang
        /\ UNCHANGED <<sincePress, relayDue, whole>>

PassTime ==
    /\ Elapse
    /\ memory' = Older(memory)
    /\ sincePress' = IF sincePress < Long THEN sincePress + 1 ELSE Long
    /\ UNCHANGED <<relayDue, rang, whole>>

ReceptionInit ==
    /\ DecoderInit
    /\ memory = ResetMemory
    /\ sincePress = Long
    /\ relayDue = FALSE
    /\ rang = 0
    /\ whole = FALSE

ReceptionNext ==
    \/ \E capture \in Captures : PressButton(capture) \/ HearRelayedCopy(capture)
    \/ DecodeRow
    \/ PassTime

ReceptionSpec == ReceptionInit /\ [][ReceptionNext]_receptionVars

-----------------------------------------------------------------------------
\* A press whose direct broadcast was heard whole has rung by the time its
\* capture is decoded, and its relayed copy has not made it ring again: the
\* decoder's burst and the deduplicator's two windows together neither hide a
\* press nor double it.  README.md: "retaining the shorter 250 ms repeat-frame
\* filter, so genuine rapid presses are not hidden."
EveryPressRingsOnce ==
    /\ whole /\ rows = <<>> => rang > 0
    /\ rang < 2
=============================================================================
