--------------------------- MODULE PairingRegistry ---------------------------
(***************************************************************************)
(* What the gateway promises about its pairings, without slots, flash or   *)
(* modes: it knows a bounded set of buttons, each with the last battery    *)
(* state heard from it.  One button at a time is paired, is removed or     *)
(* reports its battery; nothing else ever changes, and a battery state     *)
(* once known is not forgotten while the button stays paired.              *)
(***************************************************************************)
EXTENDS Integers, FiniteSets

CONSTANTS Buttons, Capacity

VARIABLE battery   \* for each paired button, its battery state

Heard == {"low", "ok"}

\* "unknown" comes only from a record that stored no battery states.
Init ==
    \E paired \in SUBSET Buttons :
        /\ Cardinality(paired) <= Capacity
        /\ battery \in [paired -> Heard \cup {"unknown"}]

With(id, state) ==
    [i \in DOMAIN battery \cup {id} |-> IF i = id THEN state ELSE battery[i]]

Pair(id) ==
    /\ id \notin DOMAIN battery
    /\ Cardinality(DOMAIN battery) < Capacity
    /\ \E state \in Heard : battery' = With(id, state)

Unpair(id) ==
    /\ id \in DOMAIN battery
    /\ battery' = [i \in DOMAIN battery \ {id} |-> battery[i]]

Learn(id) ==
    /\ id \in DOMAIN battery
    /\ \E state \in Heard : battery' = With(id, state)

Next == \E id \in Buttons : Pair(id) \/ Unpair(id) \/ Learn(id)

Spec == Init /\ [][Next]_battery
=============================================================================
