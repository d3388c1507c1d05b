----------------------------- MODULE MCPresses ------------------------------
(***************************************************************************)
(* Small instances of the gateway and its buttons for TLC.                 *)
(***************************************************************************)
EXTENDS Presses, TLC

CONSTANTS a, b

NewGateway == {NoRecord}

Symmetry == Permutations(Ids)
=============================================================================
