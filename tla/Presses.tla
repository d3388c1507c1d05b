------------------------------- MODULE Presses -------------------------------
(***************************************************************************)
(* The gateway with the buttons around it.                                 *)
(*                                                                         *)
(* Pressing a button sends one broadcast.  The gateway may decode it       *)
(* directly, while it lasts, and later decode relay-marked copies that     *)
(* other receivers send (event_deduplicator.h).  Every copy may be lost,   *)
(* decoded more than once, or overtaken by copies of another press.  The   *)
(* module pairs each physical press with what the gateway made of it,      *)
(* which no single call of the code can see.                               *)
(***************************************************************************)
EXTENDS ActivLink

CONSTANTS
    Secrets,     \* the kinds of press the buttons can send: secret_press()
    RelayDelay,  \* least age of a broadcast when a relayed copy arrives
    MaxAir,      \* bound: broadcasts in flight at a time
    PowerFails   \* whether the gateway may lose power

Broadcast == [id : Ids, secret : Secrets, age : 0 .. Horizon - 1,
              fate : {"unheard", "rang", "identified", "rang_twice", "rang_after"},
              cleared : BOOLEAN]

\* A relayed copy comes after the direct broadcast has ended and before the
\* relay window, which is sized to outlast it, has passed.  A configuration
\* with a relay window of zero, or shorter than the other, has no such window.
ASSUME PressesAssumption ==
    /\ Secrets \subseteq BOOLEAN
    /\ RelayDelay \in Nat
    /\ MaxAir \in Nat
    /\ PowerFails \in BOOLEAN
    /\ RepeatWindow <= RelayWindow /\ RelayWindow > 0

VARIABLE air   \* the broadcasts of which a copy may still arrive

allVars == <<vars, air>>

Copy(b, relay) ==
    [id |-> b.id, type |-> "doorbell", secret |-> b.secret, relay |-> relay, low |-> FALSE]

Arrives(b, relay) ==
    IF relay THEN b.age >= RelayDelay ELSE b.age < RepeatWindow

(***************************************************************************)
(* The press with which the pairing mode found its button and that ended   *)
(* it.  One whose change could not be saved has not: the gateway takes the *)
(* change back, and the press may still ring.                              *)
(***************************************************************************)
Identifies(f) ==
    /\ Consumes(f)
    /\ \/ mode = "pair" /\ IsPaired(table', f.id)
       \/ mode = "remove" /\ IsPaired(table, f.id) /\ ~IsPaired(table', f.id)

Fate(b, f) ==
    IF Rings(f) THEN
        CASE b.fate = "unheard"    -> "rang"
          [] b.fate = "identified" -> "rang_after"
          [] OTHER                 -> "rang_twice"
    ELSE IF Identifies(f) /\ b.fate \in {"unheard", "rang"} THEN "identified"
    ELSE b.fate

(***************************************************************************)
(* Whether this step discards what the gateway remembered of the press:    *)
(* RAM is lost, or the button loses its slot.                              *)
(***************************************************************************)
Discards(b) ==
    \/ up /\ ~up'
    \/ IsPaired(table, b.id) /\ ~IsPaired(table', b.id)

Marked(broadcasts) == {[b EXCEPT !.cleared = @ \/ Discards(b)] : b \in broadcasts}

-----------------------------------------------------------------------------
\* A button cannot be pressed again within the repeat window of its press.
Press(id, secret) ==
    /\ Cardinality(air) < MaxAir
    /\ \A b \in air : b.id = id => b.age >= RepeatWindow
    /\ air' = air \cup {[id |-> id, secret |-> secret, age |-> 0,
                         fate |-> "unheard", cleared |-> FALSE]}
    /\ UNCHANGED vars

Hear(b, relay, outcome) ==
    /\ Arrives(b, relay)
    /\ OnReceive(Copy(b, relay), outcome)
    /\ air' = Marked((air \ {b}) \cup {[b EXCEPT !.fate = Fate(b, Copy(b, relay))]})

\* Time passes; of a broadcast older than both windows no copy arrives.
Pass ==
    /\ Tick
    /\ air' = {[b EXCEPT !.age = @ + 1] : b \in {c \in air : c.age + 1 < Horizon}}

Gateway ==
    /\ \/ Controls
       \/ LoopKeyNotSaved
       \/ Loop
       \/ Boot
       \/ Reboot
       \/ PowerFails /\ Crash
       \/ BackgroundSync
    /\ air' = Marked(air)

PressesInit == Init /\ air = {}

PressesNext ==
    \/ \E id \in Ids, secret \in Secrets : Press(id, secret)
    \/ \E b \in air, relay \in BOOLEAN, outcome \in SaveOutcomes : Hear(b, relay, outcome)
    \/ Pass
    \/ Gateway

PressesSpec == PressesInit /\ [][PressesNext]_allVars

-----------------------------------------------------------------------------
\* One press of a paired button triggers at most one event, in whatever order
\* and number its direct and relayed copies are decoded and however they
\* interleave with other presses and with the pairing modes, as long as the
\* gateway keeps its memory of the slot.
PressRingsOnce ==
    \A b \in air : ~b.cleared => b.fate # "rang_twice"

\* The press that identified a button to pairing or removal mode does not ring
\* as well, as long as the gateway keeps its memory of the slot.
IdentifyingPressIsSilent ==
    \A b \in air : ~b.cleared => b.fate # "rang_after"

\* README.md: "Pairing and removal consume the identifying RF press rather
\* than emitting a doorbell event."
IdentifyingPressNeverRings ==
    \A b \in air : b.fate # "rang_after"
=============================================================================
