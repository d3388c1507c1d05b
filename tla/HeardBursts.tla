----------------------------- MODULE HeardBursts -----------------------------
(***************************************************************************)
(* What was on the air, beside what decode() made of it.                   *)
(*                                                                         *)
(* decode() ends at its first emission and drops the rows behind it: they  *)
(* are neither counted nor do they keep their frame's candidate young.     *)
(* `heard` is a history variable that an observer of the captures would    *)
(* keep, who counts every row of a capture when the capture arrives.  It   *)
(* says what the decoder promises, where it does not keep it, and that it  *)
(* is only there.                                                          *)
(***************************************************************************)
EXTENDS BurstDecoder

VARIABLE heard

hearingVars == <<decoderVars, heard>>

\* The rows of a frame that followed one another without a gap, up to the
\* number that matters; how often the frame was emitted meanwhile; whether a row
\* of it came behind the emission of another frame; and whether its candidate
\* was given to another frame.
Hearing == [rows : 0 .. MinimumRepeats, emissions : 0 .. 2, cut : BOOLEAN, evicted : BOOLEAN,
            silence : Ages]

NotHeard == [rows |-> 0, emissions |-> 0, cut |-> FALSE, evicted |-> FALSE, silence |-> 0]

Occurrences(s, f) == Cardinality({i \in DOMAIN s : s[i] = f})

Saturated(n) == IF n > MinimumRepeats THEN MinimumRepeats ELSE n

\* A long gap between sightings of a frame starts a new burst of it.
Continued(f) == IF heard[f].silence > BurstGap THEN NotHeard ELSE heard[f]

Heard(f, n) ==
    IF n = 0 THEN Continued(f)
    ELSE [Continued(f) EXCEPT !.rows = Saturated(@ + n), !.silence = 0]

HearCapture(capture) ==
    /\ Decode(capture)
    /\ heard' = [f \in Frames |-> Heard(f, Occurrences(capture, f))]

\* The row's frame is emitted, or other rows are dropped behind an emission.
Answered(f) ==
    IF f = result'
    THEN [heard[f] EXCEPT !.emissions = IF @ < 2 THEN @ + 1 ELSE @]
    ELSE IF result' # NoFrame /\ Occurrences(Tail(rows), f) > 0
    THEN [heard[f] EXCEPT !.cut = TRUE]
    ELSE heard[f]

\* The row's frame gets the candidate of this one.
Evicts(f) ==
    LET c == candidates[PlaceOf(Head(rows))] IN
    f # Head(rows) /\ c.count # 0 /\ c.frame = f

HearRow ==
    /\ ConsiderRow
    /\ heard' = [f \in Frames |->
                     [Answered(f) EXCEPT !.evicted = @ \/ Evicts(f)]]

HearNothing ==
    /\ Elapse
    /\ heard' = [f \in Frames |-> [heard[f] EXCEPT !.silence = Aged(@)]]

HearingInit ==
    /\ DecoderInit
    /\ heard = [f \in Frames |-> NotHeard]

HearingNext ==
    \/ \E capture \in Captures : HearCapture(capture)
    \/ HearRow
    \/ HearNothing

HearingSpec == HearingInit /\ [][HearingNext]_hearingVars

-----------------------------------------------------------------------------
\* A frame is emitted exactly once in each burst that has enough rows of it, and
\* never in one that has not: however the rows are split over captures, in
\* whatever order the frames come, and beside captures without rows.  There are
\* two exceptions.  A burst whose candidate was given to another frame starts
\* to count anew; a burst of which a row came behind the emission of another
\* frame may be emitted late, not at all or, its candidate expired too early,
\* twice (the early return of decode()).
ExactConsensus ==
    rows = <<>> =>
        \A f \in Frames :
            \/ heard[f].cut \/ heard[f].evicted
            \/ heard[f].emissions = IF heard[f].rows >= MinimumRepeats THEN 1 ELSE 0

\* The first exception takes more frames than candidates.
NoneEvicted == \A f \in Frames : ~heard[f].evicted
=============================================================================
