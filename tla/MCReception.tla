---------------------------- MODULE MCReception -----------------------------
(***************************************************************************)
(* One button and its relay for TLC.  A tick is 250 ms.                    *)
(***************************************************************************)
EXTENDS Reception

\* Noise in which no row is found, single rows, and a whole broadcast.
Broadcasts == {<<>>} \cup {<<f>> : f \in Frames} \cup {Whole(f) : f \in Frames}
=============================================================================
