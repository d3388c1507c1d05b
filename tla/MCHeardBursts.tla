---------------------------- MODULE MCHeardBursts ----------------------------
(***************************************************************************)
(* A small instance of the burst decoder, and of what was on the air, for  *)
(* TLC.                                                                    *)
(***************************************************************************)
EXTENDS HeardBursts, TLC

\* Bound: a third row only behind two equal ones, of which the second may be the
\* one that emits.  Other sequences come about as captures of the same tick.
MixedCaptures ==
    UNION {[1 .. n -> Frames] : n \in 0 .. 2}
        \cup {<<frame, frame, next>> : frame, next \in Frames}

\* Nothing tells the frames apart.
Symmetry == Permutations(Frames)
=============================================================================
