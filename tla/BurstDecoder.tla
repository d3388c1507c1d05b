---------------------------- MODULE BurstDecoder ----------------------------
(***************************************************************************)
(* Row consensus across captures (ActivLinkBurstDecoder of                 *)
(* components/honeywell_activlink/protocol.cpp).                           *)
(*                                                                         *)
(* A broadcast repeats one frame many times and reaches decode() split     *)
(* over several captures.  A frame is emitted when enough equal rows were  *)
(* seen; the sightings are kept in a fixed number of candidates.           *)
(*                                                                         *)
(* A call of decode() is the action Decode, which expires candidates,      *)
(* followed by one ConsiderRow for each row.  Time stands still meanwhile: *)
(* the code reads the clock once per call.  `burst` is a history variable: *)
(* what decode() considered of each frame, however few candidates there    *)
(* are.  The rows that it drops after an emission are not in it; module    *)
(* HeardBursts sets what was on the air against what was emitted.          *)
(***************************************************************************)
EXTENDS Integers, Sequences, FiniteSetsExt

CONSTANTS
    Frames,           \* the parity-valid rows that may be received
    NoFrame,          \* decode() returned false
    Captures,         \* the sequences of rows one capture may hold
    MaxCandidates,    \* MAX_CANDIDATES
    BurstGap,         \* BURST_GAP_MS
    MinimumRepeats,   \* MINIMUM_REPEATS
    CountLimit        \* the largest uint8_t

ASSUME BurstAssumption ==
    /\ NoFrame \notin Frames
    /\ Captures \subseteq Seq(Frames)
    /\ MaxCandidates \in Nat \ {0}
    /\ BurstGap \in Nat
    /\ MinimumRepeats \in Nat \ {0, 1}
    /\ CountLimit \in Nat /\ CountLimit >= MinimumRepeats

VARIABLES
    candidates,   \* candidates_
    rows,         \* the rows the current call of decode() has still to consider
    result,       \* the frame of the last call that emitted one, or NoFrame
    burst         \* history: the considered rows of each frame's current burst

decoderVars == <<candidates, rows, result, burst>>

Places == 1 .. MaxCandidates

\* Ages from BurstGap + 1 up are one value: all of them are expired.
Ages == 0 .. BurstGap + 1

Candidate == [frame : Frames \cup {NoFrame}, count : 0 .. CountLimit,
              emitted : BOOLEAN, age : Ages]

Free == [frame |-> NoFrame, count |-> 0, emitted |-> FALSE, age |-> 0]

\* The rows of a frame that decode() considered without a gap between them, up
\* to the number that matters, and how often they made it emit the frame.
Burst == [rows : 0 .. MinimumRepeats, emissions : 0 .. 2, silence : Ages]

Silent == [rows |-> 0, emissions |-> 0, silence |-> 0]

Aged(age) == IF age > BurstGap THEN age ELSE age + 1

-----------------------------------------------------------------------------
MatchesOf(frame) ==
    {i \in Places : candidates[i].count # 0 /\ candidates[i].frame = frame}

(***************************************************************************)
(* The candidate that makes room for a new frame.  The loop prefers each   *)
(* free candidate to the ones before it, and a candidate in use only when  *)
(* its count is smaller: the last free one, or the first of least count.   *)
(***************************************************************************)
FreePlaces == {i \in Places : candidates[i].count = 0}

LeastCounted ==
    {i \in Places : \A j \in Places : candidates[i].count <= candidates[j].count}

Replacement == IF FreePlaces # {} THEN Max(FreePlaces) ELSE Min(LeastCounted)

PlaceOf(frame) ==
    IF MatchesOf(frame) # {} THEN Min(MatchesOf(frame)) ELSE Replacement

\* A bug to rule out: nothing holds the count at the largest uint8_t.
SightedUnbounded(frame) ==
    IF MatchesOf(frame) = {}
    THEN [frame |-> frame, count |-> 1, emitted |-> FALSE, age |-> 0]
    ELSE [candidates[PlaceOf(frame)] EXCEPT !.count = @ + 1, !.age = 0]

\* A bug to rule out: a frame that takes over a candidate takes over its count.
SightedOnTop(frame) ==
    [candidates[PlaceOf(frame)] EXCEPT
        !.frame = frame,
        !.count = IF @ < CountLimit THEN @ + 1 ELSE @,
        !.emitted = IF MatchesOf(frame) = {} THEN FALSE ELSE @,
        !.age = 0]

\* A bug to rule out: a further sighting does not renew the candidate.
SightedNotRenewed(frame) ==
    IF MatchesOf(frame) = {}
    THEN [frame |-> frame, count |-> 1, emitted |-> FALSE, age |-> 0]
    ELSE [candidates[PlaceOf(frame)] EXCEPT
             !.count = IF @ < CountLimit THEN @ + 1 ELSE @]

\* The candidate of a frame after one more sighting of it.
Sighted(frame) ==
    IF MatchesOf(frame) = {}
    THEN [frame |-> frame, count |-> 1, emitted |-> FALSE, age |-> 0]
    ELSE [candidates[PlaceOf(frame)] EXCEPT
             !.count = IF @ < CountLimit THEN @ + 1 ELSE @,
             !.age = 0]

Emits(c) == c.count >= MinimumRepeats /\ ~c.emitted

-----------------------------------------------------------------------------
Considered(b, emission) ==
    [rows      |-> IF b.rows < MinimumRepeats THEN b.rows + 1 ELSE b.rows,
     emissions |-> IF emission /\ b.emissions < 2 THEN b.emissions + 1 ELSE b.emissions,
     silence   |-> 0]

\* A bug to rule out: a candidate that was emitted never expires.
ExpiredUnlessEmitted(c) ==
    IF c.count # 0 /\ c.age > BurstGap /\ ~c.emitted THEN Free ELSE c

Expired(c) == IF c.count # 0 /\ c.age > BurstGap THEN Free ELSE c

Decode(capture) ==
    /\ rows = <<>>
    /\ candidates' = [i \in Places |-> Expired(candidates[i])]
    /\ rows' = capture
    /\ result' = NoFrame
    /\ burst' = [f \in Frames |-> IF burst[f].silence > BurstGap THEN Silent ELSE burst[f]]

(***************************************************************************)
(* The first emission ends the call: the rows after it are not considered. *)
(***************************************************************************)
ConsiderRow ==
    LET frame == Head(rows)
        c     == Sighted(frame)
    IN  /\ rows # <<>>
        /\ candidates' = [candidates EXCEPT ![PlaceOf(frame)] =
                             IF Emits(c) THEN [c EXCEPT !.emitted = TRUE] ELSE c]
        /\ rows' = IF Emits(c) THEN <<>> ELSE Tail(rows)
        /\ result' = IF Emits(c) THEN frame ELSE NoFrame
        /\ burst' = [burst EXCEPT ![frame] = Considered(@, Emits(c))]

Elapse ==
    /\ rows = <<>>
    /\ candidates' = [i \in Places |->
                         IF candidates[i].count = 0 THEN candidates[i]
                         ELSE [candidates[i] EXCEPT !.age = Aged(@)]]
    /\ burst' = [f \in Frames |-> [burst[f] EXCEPT !.silence = Aged(@)]]
    /\ UNCHANGED <<rows, result>>

DecoderInit ==
    /\ candidates = [i \in Places |-> Free]
    /\ rows = <<>>
    /\ result = NoFrame
    /\ burst = [f \in Frames |-> Silent]

DecoderNext ==
    \/ \E capture \in Captures : Decode(capture)
    \/ ConsiderRow
    \/ Elapse

DecoderSpec == DecoderInit /\ [][DecoderNext]_decoderVars

-----------------------------------------------------------------------------
\* Every variable has its type; the counts fit in a uint8_t.
DecoderTypeOK ==
    /\ candidates \in [Places -> Candidate]
    /\ rows \in Seq(Frames)
    /\ result \in Frames \cup {NoFrame}
    /\ burst \in [Frames -> Burst]

\* A frame is emitted only after enough considered rows of it in one burst,
\* however many other frames compete for the candidates and whatever candidate
\* it reuses.
EmittedOnlyHeard ==
    \A f \in Frames : burst[f].emissions > 0 => burst[f].rows >= MinimumRepeats

-----------------------------------------------------------------------------
(***************************************************************************)
(* What makes them inductive.                                              *)
(***************************************************************************)
InUse == {i \in Places : candidates[i].count # 0}

\* A candidate in use belongs to one frame, is as old as that frame's silence
\* and counts at most the rows of its burst.  It may count fewer: a frame that
\* was evicted starts again from one.
CandidatesHeard ==
    /\ \A i \in InUse :
          LET c == candidates[i] IN
          /\ c.frame \in Frames
          /\ c.age = burst[c.frame].silence
          /\ c.count <= burst[c.frame].rows \/ burst[c.frame].rows = MinimumRepeats
    /\ \A i, j \in InUse : candidates[i].frame = candidates[j].frame => i = j

\* With candidates enough, a frame is emitted once in each burst of it of which
\* enough rows were considered: every burst then has its candidate, ...
ConsideredExactly ==
    \A f \in Frames :
        burst[f].emissions = IF burst[f].rows >= MinimumRepeats THEN 1 ELSE 0

\* ... which counts exactly.
NothingEvicted ==
    /\ \A f \in Frames : burst[f].rows > 0 => MatchesOf(f) # {}
    /\ \A i \in InUse :
          LET c == candidates[i] IN
          /\ c.emitted <=> burst[c.frame].emissions > 0
          /\ burst[c.frame].rows =
                 IF c.count < MinimumRepeats THEN c.count ELSE MinimumRepeats
=============================================================================
