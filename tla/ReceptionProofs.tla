-------------------------- MODULE ReceptionProofs ---------------------------
(***************************************************************************)
(* Proofs about the burst decoder, for any number of candidates, any       *)
(* frames, any split of the broadcasts into captures and any gap, and      *)
(* about the decoder and the deduplicator together.                        *)
(***************************************************************************)
EXTENDS Reception, HeardBursts, Extrema, FiniteSetTheorems

-----------------------------------------------------------------------------
(***************************************************************************)
(* The search for a candidate.                                             *)
(***************************************************************************)

\* Some candidate has the least count.
LEMMA SomeLeastCounted ==
    ASSUME DecoderTypeOK
    PROVE  LeastCounted # {}
<1> DEFINE counts == {candidates[i].count : i \in Places}
<1>1. \A i \in Places : candidates[i].count \in Nat
    BY BurstAssumption DEF DecoderTypeOK, Candidate
<1>2. 1 \in Places
    BY BurstAssumption DEF Places
<1>3. counts \in SUBSET Nat /\ counts # {}
    BY <1>1, <1>2
<1>4. Min(counts) \in counts /\ \A y \in counts : Min(counts) <= y
    BY <1>3, MinInSet
<1>5. PICK i \in Places : candidates[i].count = Min(counts)
    BY <1>4
<1>6. \A j \in Places : candidates[i].count <= candidates[j].count
    BY <1>4, <1>5
<1>7. QED
    BY <1>6 DEF LeastCounted

\* decode() finds the candidate of a frame that has one, else a free one if
\* there is one, else one in use.
LEMMA PlaceFound ==
    ASSUME DecoderTypeOK, NEW frame \in Frames
    PROVE  /\ PlaceOf(frame) \in Places
           /\ MatchesOf(frame) # {} => PlaceOf(frame) \in MatchesOf(frame)
           /\ MatchesOf(frame) = {} /\ FreePlaces # {} => PlaceOf(frame) \in FreePlaces
<1>1. Places \in SUBSET Nat /\ Places \in SUBSET (0 .. MaxCandidates)
    BY BurstAssumption DEF Places
<1>2. CASE MatchesOf(frame) # {}
    <2>1. MatchesOf(frame) \in SUBSET Nat
        BY <1>1 DEF MatchesOf
    <2>2. Min(MatchesOf(frame)) \in MatchesOf(frame)
        BY <1>2, <2>1, MinInSet
    <2>3. QED
        BY <1>2, <2>2 DEF PlaceOf, MatchesOf
<1>3. CASE MatchesOf(frame) = {} /\ FreePlaces # {}
    <2>1. FreePlaces \in SUBSET (0 .. MaxCandidates)
        BY <1>1 DEF FreePlaces
    <2>2. Max(FreePlaces) \in FreePlaces
        BY <1>3, <2>1, MaxInSet, BurstAssumption
    <2>3. QED
        BY <1>3, <2>2 DEF PlaceOf, Replacement, FreePlaces
<1>4. CASE MatchesOf(frame) = {} /\ FreePlaces = {}
    <2>1. LeastCounted \in SUBSET Nat
        BY <1>1 DEF LeastCounted
    <2>2. Min(LeastCounted) \in LeastCounted
        BY <2>1, SomeLeastCounted, MinInSet
    <2>3. QED
        BY <1>4, <2>2 DEF PlaceOf, Replacement, LeastCounted
<1>5. QED
    BY <1>2, <1>3, <1>4

(***************************************************************************)
(* What considering a row does to the candidates and to the burst.         *)
(***************************************************************************)
Row == Head(rows)

Place == PlaceOf(Row)

\* What considering a row does to its frame's burst and to the result.
LEMMA RowEffect ==
    ASSUME DecoderTypeOK, ConsiderRow
    PROVE  /\ Row \in Frames
           /\ Place \in Places
           /\ Sighted(Row) \in Candidate
           /\ Sighted(Row).frame = Row
           /\ Sighted(Row).age = 0
           /\ candidates' \in [Places -> Candidate]
           /\ \A i \in Places \ {Place} : candidates'[i] = candidates[i]
           /\ candidates'[Place].frame = Row
           /\ candidates'[Place].age = 0
           /\ candidates'[Place].count = Sighted(Row).count
           /\ candidates'[Place].emitted = (Sighted(Row).emitted \/ Emits(Sighted(Row)))
           /\ burst' = [burst EXCEPT ![Row] = Considered(@, Emits(Sighted(Row)))]
<1> DEFINE c == Sighted(Row)
           d == IF Emits(c) THEN [c EXCEPT !.emitted = TRUE] ELSE c
<1>1. Row \in Frames
    BY DEF DecoderTypeOK, ConsiderRow, Row
<1>2. Place \in Places /\ (MatchesOf(Row) # {} => Place \in MatchesOf(Row))
    BY <1>1, PlaceFound DEF Place
<1>3. candidates[Place] \in Candidate
    BY <1>2 DEF DecoderTypeOK
<1>4. c \in Candidate /\ c.frame = Row /\ c.age = 0
    <2>1. CASE MatchesOf(Row) = {}
        BY <1>1, <2>1, BurstAssumption DEF Sighted, Candidate, Ages
    <2>2. CASE MatchesOf(Row) # {}
        <3>1. candidates[Place].frame = Row
            BY <1>2, <2>2 DEF MatchesOf
        <3>2. c = [candidates[Place] EXCEPT
                      !.count = IF @ < CountLimit THEN @ + 1 ELSE @,
                      !.age = 0]
            BY <2>2 DEF Sighted, Place
        <3>3. /\ candidates[Place].count \in 0 .. CountLimit
              /\ CountLimit \in Nat
              /\ 0 \in Ages
            BY <1>3, BurstAssumption DEF Candidate, Ages
        <3>4. (IF candidates[Place].count < CountLimit
               THEN candidates[Place].count + 1 ELSE candidates[Place].count)
              \in 0 .. CountLimit
            BY <3>3
        <3>5. QED
            BY <1>3, <3>1, <3>2, <3>3, <3>4 DEF Candidate
    <2>3. QED
        BY <2>1, <2>2
<1>5. candidates' = [candidates EXCEPT ![Place] = d]
    BY DEF ConsiderRow, Row, Place
<1>6. /\ d \in Candidate
      /\ d.frame = Row
      /\ d.age = 0
      /\ d.count = c.count
      /\ d.emitted = (c.emitted \/ Emits(c))
    BY <1>4 DEF Candidate
<1>7. candidates \in [Places -> Candidate]
    BY DEF DecoderTypeOK
<1>8. burst' = [burst EXCEPT ![Row] = Considered(@, Emits(c))]
    BY DEF ConsiderRow, Row
<1> HIDE DEF c, d
<1>9. /\ candidates' \in [Places -> Candidate]
      /\ \A i \in Places \ {Place} : candidates'[i] = candidates[i]
      /\ candidates'[Place] = d
    BY <1>2, <1>5, <1>6, <1>7
<1>10. QED
    BY <1>1, <1>2, <1>4, <1>6, <1>8, <1>9 DEF c

\* A row heard leaves a burst a burst, ...
LEMMA ConsideredType ==
    ASSUME NEW b \in Burst, NEW emission \in BOOLEAN
    PROVE  Considered(b, emission) \in Burst
BY BurstAssumption DEF Considered, Burst, Ages

\* ... and so does time.
LEMMA AgedType ==
    ASSUME NEW age \in Ages
    PROVE  Aged(age) \in Ages
BY BurstAssumption DEF Aged, Ages

-----------------------------------------------------------------------------
(***************************************************************************)
(* Type correctness.                                                       *)
(***************************************************************************)
LEMMA DecoderInitType == DecoderInit => DecoderTypeOK
<1>1. Free \in Candidate
    BY BurstAssumption DEF Free, Candidate, Ages
<1>2. Silent \in Burst
    BY BurstAssumption DEF Silent, Burst, Ages
<1>3. <<>> \in Seq(Frames)
    OBVIOUS
<1>4. QED
    BY <1>1, <1>2, <1>3 DEF DecoderInit, DecoderTypeOK

\* Every step keeps the types.
LEMMA DecoderStepType ==
    ASSUME DecoderTypeOK, [DecoderNext]_decoderVars
    PROVE  DecoderTypeOK'
<1>1. ASSUME NEW capture \in Captures, Decode(capture)
      PROVE  DecoderTypeOK'
    <2>1. Free \in Candidate /\ Silent \in Burst
        BY BurstAssumption DEF Free, Candidate, Ages, Silent, Burst
    <2>2. candidates' \in [Places -> Candidate]
        BY <1>1, <2>1 DEF Decode, Expired, DecoderTypeOK
    <2>3. burst' \in [Frames -> Burst]
        BY <1>1, <2>1 DEF Decode, DecoderTypeOK
    <2>4. QED
        BY <1>1, <2>2, <2>3, BurstAssumption DEF Decode, DecoderTypeOK
<1>2. ASSUME ConsiderRow
      PROVE  DecoderTypeOK'
    <2>1. candidates' \in [Places -> Candidate] /\ Row \in Frames
        BY <1>2, RowEffect
    <2>2. rows' \in Seq(Frames)
        BY <1>2 DEF ConsiderRow, DecoderTypeOK
    <2>3. result' \in Frames \cup {NoFrame}
        BY <1>2, <2>1 DEF ConsiderRow, Row
    <2>4. Emits(Sighted(Row)) \in BOOLEAN
        BY DEF Emits
    <2>5. Considered(burst[Row], Emits(Sighted(Row))) \in Burst
        BY <2>1, <2>4, ConsideredType DEF DecoderTypeOK
    <2>6. burst' \in [Frames -> Burst]
        BY <1>2, <2>1, <2>5, RowEffect DEF DecoderTypeOK
    <2>7. QED
        BY <2>1, <2>2, <2>3, <2>6 DEF DecoderTypeOK
<1>3. ASSUME Elapse
      PROVE  DecoderTypeOK'
    <2>1. \A i \in Places : [candidates[i] EXCEPT !.age = Aged(@)] \in Candidate
        BY AgedType DEF DecoderTypeOK, Candidate
    <2>2. \A f \in Frames : [burst[f] EXCEPT !.silence = Aged(@)] \in Burst
        BY AgedType DEF DecoderTypeOK, Burst
    <2>3. QED
        BY <1>3, <2>1, <2>2 DEF Elapse, DecoderTypeOK
<1>4. CASE UNCHANGED decoderVars
    BY <1>4 DEF decoderVars, DecoderTypeOK
<1>5. QED
    BY <1>1, <1>2, <1>3, <1>4 DEF DecoderNext

\* The variables of the decoder keep their types; no count outgrows a uint8_t.
THEOREM DecoderTypeCorrect == DecoderSpec => []DecoderTypeOK
<1>1. DecoderInit => DecoderTypeOK
    BY DecoderInitType
<1>2. DecoderTypeOK /\ [DecoderNext]_decoderVars => DecoderTypeOK'
    BY DecoderStepType
<1>3. QED
    BY <1>1, <1>2, PTL DEF DecoderSpec

-----------------------------------------------------------------------------
(***************************************************************************)
(* Nothing is emitted that was not heard.  A candidate counts at most the  *)
(* rows of its frame's burst, also after evictions.                        *)
(***************************************************************************)
HeardInv == DecoderTypeOK /\ CandidatesHeard /\ EmittedOnlyHeard

\* The row that makes decode() emit completes a burst of enough rows.
LEMMA EmissionHeard ==
    ASSUME DecoderTypeOK, CandidatesHeard, ConsiderRow, Emits(Sighted(Row))
    PROVE  burst'[Row].rows >= MinimumRepeats
<1>1. Row \in Frames /\ burst[Row] \in Burst
    BY RowEffect DEF DecoderTypeOK
<1>2. burst'[Row] = Considered(burst[Row], TRUE)
    BY <1>1, RowEffect DEF DecoderTypeOK
<1>3. MatchesOf(Row) # {}
    BY BurstAssumption DEF Sighted, Emits
<1>4. Place \in MatchesOf(Row)
    BY <1>1, <1>3, PlaceFound DEF Place
<1>5. /\ candidates[Place] \in Candidate
      /\ candidates[Place].count # 0
      /\ candidates[Place].frame = Row
      /\ Place \in InUse
    BY <1>4 DEF MatchesOf, InUse, DecoderTypeOK
<1>6. \/ candidates[Place].count <= burst[Row].rows
      \/ burst[Row].rows = MinimumRepeats
    BY <1>5 DEF CandidatesHeard
<1>7. Sighted(Row).count <= candidates[Place].count + 1
    BY <1>3, <1>5 DEF Sighted, Place, Candidate
<1>8. Sighted(Row).count >= MinimumRepeats
    BY DEF Emits
<1>9. QED
    <2>1. /\ burst[Row].rows \in 0 .. MinimumRepeats
          /\ candidates[Place].count \in Nat
          /\ Sighted(Row).count \in Nat
          /\ MinimumRepeats \in Nat
        BY <1>1, <1>5, RowEffect, BurstAssumption DEF Burst, Candidate
    <2>2. burst'[Row].rows = IF burst[Row].rows < MinimumRepeats
                             THEN burst[Row].rows + 1 ELSE burst[Row].rows
        BY <1>2 DEF Considered
    <2>3. QED
        BY <1>6, <1>7, <1>8, <2>1, <2>2

\* A candidate that decode() does not expire belongs to a burst that goes on.
LEMMA DecodeKeepsInUse ==
    ASSUME HeardInv, NEW capture \in Captures, Decode(capture), NEW i \in InUse'
    PROVE  /\ i \in InUse
           /\ candidates'[i] = candidates[i]
           /\ candidates[i].frame \in Frames
           /\ burst'[candidates[i].frame] = burst[candidates[i].frame]
<1>1. /\ i \in Places
      /\ Expired(candidates[i]).count # 0
      /\ candidates'[i] = Expired(candidates[i])
    BY DEF Decode, InUse, Places
<1>2. /\ candidates'[i] = candidates[i]
      /\ candidates[i].count # 0
      /\ ~(candidates[i].age > BurstGap)
    BY <1>1 DEF Expired, Free
<1>3. QED
    BY <1>1, <1>2 DEF Decode, HeardInv, CandidatesHeard, InUse

\* Each step keeps what the candidates say of the bursts: a capture, ...
LEMMA DecodeKeepsHeard ==
    ASSUME HeardInv, NEW capture \in Captures, Decode(capture)
    PROVE  (CandidatesHeard /\ EmittedOnlyHeard)'
<1>1. \A i \in Places : candidates'[i] = Expired(candidates[i])
    BY DEF Decode
<1>2. \A f \in Frames :
          burst'[f] = IF burst[f].silence > BurstGap THEN Silent ELSE burst[f]
    BY DEF Decode
<1>3. \A i \in InUse' :
          /\ i \in InUse
          /\ candidates'[i] = candidates[i]
          /\ candidates[i].frame \in Frames
          /\ burst'[candidates[i].frame] = burst[candidates[i].frame]
    BY DecodeKeepsInUse
<1>4. CandidatesHeard'
    BY <1>3 DEF HeardInv, CandidatesHeard, InUse
<1>5. EmittedOnlyHeard'
    BY <1>2 DEF HeardInv, EmittedOnlyHeard, Silent
<1>6. QED
    BY <1>4, <1>5

\* The other candidates stay, and none of them belongs to the row's frame.
LEMMA RowKeepsOthers ==
    ASSUME HeardInv, ConsiderRow, NEW i \in InUse' \ {Place}
    PROVE  /\ i \in InUse
           /\ candidates'[i] = candidates[i]
           /\ candidates[i].frame # Row
<1>1. DecoderTypeOK /\ CandidatesHeard /\ Row \in Frames
    BY RowEffect DEF HeardInv
<1>2. i \in Places /\ candidates'[i] = candidates[i]
    BY <1>1, RowEffect DEF InUse, Places
<1>3. i \in InUse
    BY <1>2 DEF InUse
<1>4. ASSUME candidates[i].frame = Row PROVE FALSE
    <2>1. i \in MatchesOf(Row)
        BY <1>2, <1>3, <1>4 DEF MatchesOf, InUse
    <2>2. Place \in MatchesOf(Row)
        BY <1>1, <2>1, PlaceFound DEF Place
    <2>3. Place \in InUse /\ candidates[Place].frame = Row
        BY <2>2 DEF MatchesOf, InUse
    <2>4. QED
        BY <1>1, <1>3, <1>4, <2>3 DEF CandidatesHeard
<1>5. QED
    BY <1>2, <1>3, <1>4

\* ... a row, ...
LEMMA RowKeepsHeard ==
    ASSUME HeardInv, ConsiderRow
    PROVE  (CandidatesHeard /\ EmittedOnlyHeard)'
<1> DEFINE e == Emits(Sighted(Row))
<1>1. DecoderTypeOK /\ CandidatesHeard /\ EmittedOnlyHeard
    BY DEF HeardInv
<1>2. Row \in Frames /\ Place \in Places
    BY <1>1, RowEffect
<1>3. /\ burst[Row] \in Burst
      /\ burst'[Row] = Considered(burst[Row], e)
      /\ \A f \in Frames \ {Row} : burst'[f] = burst[f]
    BY <1>1, <1>2, RowEffect DEF DecoderTypeOK
<1>4. \A i \in InUse' \ {Place} :
          /\ i \in InUse
          /\ candidates'[i] = candidates[i]
          /\ candidates[i].frame # Row
    BY RowKeepsOthers
<1>5. /\ candidates'[Place].frame = Row
      /\ candidates'[Place].age = 0
      /\ candidates'[Place].count = Sighted(Row).count
    BY <1>1, RowEffect
<1>6. burst'[Row].silence = 0
    BY <1>3 DEF Considered
<1>7. \/ Sighted(Row).count <= burst'[Row].rows
      \/ burst'[Row].rows = MinimumRepeats
    <2>1. /\ burst[Row].rows \in 0 .. MinimumRepeats
          /\ MinimumRepeats \in Nat \ {0, 1}
          /\ burst'[Row].rows = IF burst[Row].rows < MinimumRepeats
                                 THEN burst[Row].rows + 1 ELSE burst[Row].rows
        BY <1>3, BurstAssumption DEF Considered, Burst
    <2>2. CASE MatchesOf(Row) = {}
        <3>1. Sighted(Row).count = 1
            BY <2>2 DEF Sighted
        <3>2. QED
            BY <2>1, <3>1
    <2>3. CASE MatchesOf(Row) # {}
        <3>1. Place \in MatchesOf(Row)
            BY <1>1, <1>2, <2>3, PlaceFound DEF Place
        <3>2. /\ candidates[Place] \in Candidate
              /\ Place \in InUse
              /\ candidates[Place].frame = Row
            BY <1>1, <3>1 DEF MatchesOf, InUse, DecoderTypeOK
        <3>3. \/ candidates[Place].count <= burst[Row].rows
              \/ burst[Row].rows = MinimumRepeats
            BY <1>1, <3>2 DEF CandidatesHeard
        <3>4. /\ Sighted(Row).count \in Nat
              /\ candidates[Place].count \in Nat
              /\ Sighted(Row).count <= candidates[Place].count + 1
            BY <2>3, <3>2 DEF Sighted, Place, Candidate
        <3>5. QED
            BY <2>1, <3>3, <3>4
    <2>4. QED
        BY <2>2, <2>3
<1>8. CandidatesHeard'
    <2>1. ASSUME NEW i \in InUse'
          PROVE  /\ candidates'[i].frame \in Frames
                 /\ candidates'[i].age = burst'[candidates'[i].frame].silence
                 /\ \/ candidates'[i].count <= burst'[candidates'[i].frame].rows
                    \/ burst'[candidates'[i].frame].rows = MinimumRepeats
        <3>1. CASE i = Place
            BY <1>2, <1>5, <1>6, <1>7, <3>1
        <3>2. CASE i # Place
            BY <1>1, <1>3, <1>4, <3>2 DEF CandidatesHeard
        <3>3. QED
            BY <3>1, <3>2
    <2>2. ASSUME NEW i \in InUse', NEW j \in InUse',
                 candidates'[i].frame = candidates'[j].frame
          PROVE  i = j
        BY <1>1, <1>4, <1>5, <2>2 DEF CandidatesHeard
    <2>3. QED
        BY <2>1, <2>2 DEF CandidatesHeard
<1>9. EmittedOnlyHeard'
    <2>1. ASSUME NEW f \in Frames, burst'[f].emissions > 0
          PROVE  burst'[f].rows >= MinimumRepeats
        <3>1. CASE f # Row
            BY <1>1, <1>3, <2>1, <3>1 DEF EmittedOnlyHeard
        <3>2. CASE f = Row /\ e
            BY <1>1, <3>2, EmissionHeard
        <3>3. CASE f = Row /\ ~e
            BY <1>1, <1>3, <2>1, <3>3, BurstAssumption DEF EmittedOnlyHeard, Considered, Burst
        <3>4. QED
            BY <3>1, <3>2, <3>3
    <2>2. QED
        BY <2>1 DEF EmittedOnlyHeard
<1>10. QED
    BY <1>8, <1>9

\* ... and time.
LEMMA ElapseKeepsHeard ==
    ASSUME HeardInv, Elapse
    PROVE  (CandidatesHeard /\ EmittedOnlyHeard)'
<1>1. DecoderTypeOK /\ CandidatesHeard /\ EmittedOnlyHeard
    BY DEF HeardInv
<1>2. \A i \in Places :
          /\ candidates'[i].count = candidates[i].count
          /\ candidates'[i].frame = candidates[i].frame
          /\ candidates[i].count # 0 => candidates'[i].age = Aged(candidates[i].age)
    BY <1>1 DEF Elapse, DecoderTypeOK, Candidate
<1>3. \A f \in Frames :
          /\ burst'[f].rows = burst[f].rows
          /\ burst'[f].emissions = burst[f].emissions
          /\ burst'[f].silence = Aged(burst[f].silence)
    BY <1>1 DEF Elapse, DecoderTypeOK, Burst
<1>4. InUse' = InUse
    BY <1>2 DEF InUse, Places
<1>5. CandidatesHeard'
    BY <1>1, <1>2, <1>3, <1>4 DEF CandidatesHeard, InUse
<1>6. EmittedOnlyHeard'
    BY <1>1, <1>3 DEF EmittedOnlyHeard
<1>7. QED
    BY <1>5, <1>6

\* The weaker invariant, which holds however few the candidates are, ...
LEMMA HeardInit == DecoderInit => HeardInv
<1>1. DecoderInit => CandidatesHeard /\ EmittedOnlyHeard
    BY DEF DecoderInit, CandidatesHeard, EmittedOnlyHeard, InUse, Free, Silent
<1>2. QED
    BY <1>1, DecoderInitType DEF HeardInv

\* ... is inductive.
LEMMA HeardStep ==
    ASSUME HeardInv, [DecoderNext]_decoderVars
    PROVE  HeardInv'
<1>1. DecoderTypeOK'
    BY DecoderStepType DEF HeardInv
<1>2. CASE UNCHANGED decoderVars
    BY <1>2 DEF decoderVars, HeardInv, CandidatesHeard, EmittedOnlyHeard, DecoderTypeOK, InUse
<1>3. CASE DecoderNext
    BY <1>1, <1>3, DecodeKeepsHeard, RowKeepsHeard, ElapseKeepsHeard DEF DecoderNext, HeardInv
<1>4. QED
    BY <1>2, <1>3

\* However many frames compete for however few candidates, a frame is emitted
\* only after MINIMUM_REPEATS rows of it in one burst.
THEOREM OnlyHeardIsEmitted == DecoderSpec => []EmittedOnlyHeard
<1>1. HeardInv => EmittedOnlyHeard
    BY DEF HeardInv
<1>2. HeardInv /\ [DecoderNext]_decoderVars => HeardInv'
    BY HeardStep
<1>3. QED
    BY <1>1, <1>2, HeardInit, PTL DEF DecoderSpec

-----------------------------------------------------------------------------
(***************************************************************************)
(* With as many candidates as frames, nothing is ever evicted, and the     *)
(* decoder emits exactly what was heard.                                   *)
(***************************************************************************)
EnoughCandidates == IsFiniteSet(Frames) /\ Cardinality(Frames) <= MaxCandidates

ExactInv == HeardInv /\ NothingEvicted /\ ConsideredExactly

\* A function into a smaller set takes some value twice.
LEMMA TwoShare ==
    ASSUME NEW S, IsFiniteSet(S), NEW T, IsFiniteSet(T),
           Cardinality(T) < Cardinality(S), NEW h \in [S -> T]
    PROVE  \E i, j \in S : i # j /\ h[i] = h[j]
BY FS_PigeonHole

\* A frame without a candidate finds a free one: the candidates in use belong
\* to distinct frames, and there are fewer others than candidates.
LEMMA FreeCandidate ==
    ASSUME HeardInv, EnoughCandidates, NEW frame \in Frames, MatchesOf(frame) = {}
    PROVE  FreePlaces # {}
<1> SUFFICES ASSUME FreePlaces = {} PROVE FALSE
    OBVIOUS
<1> DEFINE Others == Frames \ {frame}
           g == [i \in Places |-> candidates[i].frame]
<1>1. \A i \in Places : i \in InUse /\ candidates[i].frame \in Others
    <2> SUFFICES ASSUME NEW i \in Places
                 PROVE  i \in InUse /\ candidates[i].frame \in Others
        OBVIOUS
    <2>1. i \in InUse
        BY DEF FreePlaces, InUse
    <2>2. candidates[i].frame \in Frames
        BY <2>1 DEF HeardInv, CandidatesHeard
    <2>3. candidates[i].frame # frame
        BY <2>1 DEF MatchesOf, InUse
    <2>4. QED
        BY <2>1, <2>2, <2>3
<1>2. IsFiniteSet(Others) /\ Cardinality(Others) = Cardinality(Frames) - 1
    BY FS_RemoveElement DEF EnoughCandidates
<1>3. IsFiniteSet(Places) /\ Cardinality(Places) = MaxCandidates
    BY FS_Interval, BurstAssumption DEF Places
<1>4. Cardinality(Others) < Cardinality(Places)
    BY <1>2, <1>3, FS_CardinalityType, BurstAssumption DEF EnoughCandidates
<1>5. g \in [Places -> Others]
    BY <1>1
<1> HIDE DEF Others, g
<1>6. \E i, j \in Places : i # j /\ g[i] = g[j]
    <2>1. IsFiniteSet(Places)
        BY <1>3
    <2>2. IsFiniteSet(Others)
        BY <1>2
    <2>3. PICK h \in [Places -> Others] : h = g
        BY <1>5
    <2>4. \E i, j \in Places : i # j /\ h[i] = h[j]
        BY <2>1, <2>2, <1>4, TwoShare
    <2>5. QED
        BY <2>3, <2>4
<1>7. QED
    BY <1>1, <1>6 DEF HeardInv, CandidatesHeard, g

\* With a candidate for every frame the counts are exact: after a capture, ...
LEMMA DecodeKeepsExact ==
    ASSUME ExactInv, NEW capture \in Captures, Decode(capture)
    PROVE  (NothingEvicted /\ ConsideredExactly)'
<1>1. DecoderTypeOK /\ CandidatesHeard /\ HeardInv
    BY DEF ExactInv, HeardInv
<1>2. \A f \in Frames :
          burst'[f] = IF burst[f].silence > BurstGap THEN Silent ELSE burst[f]
    BY DEF Decode
<1>3. ASSUME NEW f \in Frames, burst'[f].rows > 0
      PROVE  MatchesOf(f)' # {}
    <2>1. burst'[f] = burst[f] /\ ~(burst[f].silence > BurstGap)
        BY <1>2, <1>3 DEF Silent
    <2>2. PICK i \in Places : candidates[i].count # 0 /\ candidates[i].frame = f
        BY <1>3, <2>1 DEF ExactInv, NothingEvicted, MatchesOf
    <2>3. candidates[i].age = burst[f].silence
        BY <1>1, <2>2 DEF CandidatesHeard, InUse
    <2>4. candidates'[i] = candidates[i]
        BY <2>1, <2>3 DEF Decode, Expired
    <2>5. QED
        BY <2>2, <2>4 DEF MatchesOf, Places
<1>4. \A i \in InUse' :
          /\ i \in InUse
          /\ candidates'[i] = candidates[i]
          /\ candidates[i].frame \in Frames
          /\ burst'[candidates[i].frame] = burst[candidates[i].frame]
    BY <1>1, DecodeKeepsInUse
<1>5. NothingEvicted'
    BY <1>3, <1>4 DEF ExactInv, NothingEvicted
<1>6. ConsideredExactly'
    BY <1>2, BurstAssumption DEF ExactInv, ConsideredExactly, Silent
<1>7. QED
    BY <1>5, <1>6

\* The candidate of the row's frame, and its burst, before and after.
LEMMA RowCountsExactly ==
    ASSUME ExactInv, EnoughCandidates, ConsiderRow
    PROVE  /\ Place \notin InUse \/ candidates[Place].frame = Row
           /\ candidates'[Place].count # 0
           /\ candidates'[Place].emitted <=> burst'[Row].emissions > 0
           /\ burst'[Row].rows = IF candidates'[Place].count < MinimumRepeats
                                 THEN candidates'[Place].count ELSE MinimumRepeats
           /\ burst'[Row].emissions =
                 IF burst'[Row].rows >= MinimumRepeats THEN 1 ELSE 0
<1> DEFINE c == Sighted(Row)
           b == burst[Row]
<1>1. DecoderTypeOK /\ CandidatesHeard /\ HeardInv
    BY DEF ExactInv, HeardInv
<1>2. Row \in Frames /\ Place \in Places /\ b \in Burst
    BY <1>1, RowEffect DEF DecoderTypeOK
<1>3. /\ candidates'[Place].count = c.count
      /\ candidates'[Place].emitted = (c.emitted \/ Emits(c))
      /\ burst'[Row] = Considered(b, Emits(c))
      /\ c.count \in Nat /\ c.emitted \in BOOLEAN
    BY <1>1, <1>2, RowEffect, BurstAssumption DEF DecoderTypeOK, Candidate
<1>4. /\ b.rows \in Nat /\ b.rows <= MinimumRepeats
      /\ b.emissions = IF b.rows >= MinimumRepeats THEN 1 ELSE 0
      /\ MinimumRepeats \in Nat \ {0, 1}
      /\ CountLimit \in Nat /\ CountLimit >= MinimumRepeats
    BY <1>2, BurstAssumption DEF Burst, ExactInv, ConsideredExactly
<1>5. CASE MatchesOf(Row) = {}
    <2>1. Place \notin InUse
        BY <1>1, <1>2, <1>5, FreeCandidate, PlaceFound DEF Place, FreePlaces, InUse
    <2>2. b.rows = 0
        BY <1>2, <1>4, <1>5 DEF ExactInv, NothingEvicted
    <2>3. c.count = 1 /\ c.emitted = FALSE /\ ~Emits(c)
        BY <1>4, <1>5 DEF Sighted, Emits
    <2>4. burst'[Row].rows = 1 /\ burst'[Row].emissions = 0
        BY <1>3, <1>4, <2>2, <2>3 DEF Considered
    <2>5. QED
        BY <1>3, <1>4, <2>1, <2>3, <2>4
<1>6. CASE MatchesOf(Row) # {}
    <2> DEFINE d == candidates[Place]
    <2>1. Place \in InUse /\ d.frame = Row /\ d \in Candidate /\ d.count # 0
        BY <1>1, <1>2, <1>6, PlaceFound DEF Place, MatchesOf, InUse, DecoderTypeOK
    <2>2. /\ d.emitted <=> b.emissions > 0
          /\ b.rows = IF d.count < MinimumRepeats THEN d.count ELSE MinimumRepeats
        BY <2>1 DEF ExactInv, NothingEvicted
    <2>3. /\ d.count \in Nat /\ d.count <= CountLimit
          /\ c.count = IF d.count < CountLimit THEN d.count + 1 ELSE d.count
          /\ c.emitted = d.emitted
        <3>1. c = [d EXCEPT !.count = IF @ < CountLimit THEN @ + 1 ELSE @, !.age = 0]
            BY <1>6 DEF Sighted, Place
        <3>2. d.count \in 0 .. CountLimit
            BY <2>1 DEF Candidate
        <3>3. /\ c.count = IF d.count < CountLimit THEN d.count + 1 ELSE d.count
              /\ c.emitted = d.emitted
            BY <2>1, <3>1 DEF Candidate
        <3>4. QED
            BY <1>4, <3>2, <3>3
    <2>4. Emits(c) <=> c.count >= MinimumRepeats /\ b.rows < MinimumRepeats
        BY <1>4, <2>2, <2>3 DEF Emits
    <2>5. /\ burst'[Row].rows = IF b.rows < MinimumRepeats THEN b.rows + 1 ELSE b.rows
          /\ burst'[Row].emissions =
                IF Emits(c) /\ b.emissions < 2 THEN b.emissions + 1 ELSE b.emissions
        BY <1>3 DEF Considered
    <2>6. c.count # 0
        BY <2>1, <2>3
    <2>7. burst'[Row].rows = IF c.count < MinimumRepeats THEN c.count ELSE MinimumRepeats
        BY <1>4, <2>2, <2>3, <2>5
    <2>8. burst'[Row].emissions = IF burst'[Row].rows >= MinimumRepeats THEN 1 ELSE 0
        BY <1>3, <1>4, <2>2, <2>3, <2>4, <2>5, <2>7
    <2>9. (c.emitted \/ Emits(c)) <=> burst'[Row].emissions > 0
        <3>1. CASE Emits(c)
            BY <1>4, <3>1, <2>5
        <3>2. CASE ~Emits(c)
            BY <1>4, <3>2, <2>2, <2>3, <2>5
        <3>3. QED
            BY <3>1, <3>2
    <2>10. QED
        BY <1>3, <2>1, <2>6, <2>7, <2>8, <2>9
<1>7. QED
    BY <1>5, <1>6

\* ... a row, ...
LEMMA RowKeepsExact ==
    ASSUME ExactInv, EnoughCandidates, ConsiderRow
    PROVE  (NothingEvicted /\ ConsideredExactly)'
<1>1. DecoderTypeOK /\ CandidatesHeard /\ HeardInv
    BY DEF ExactInv, HeardInv
<1>2. /\ Row \in Frames /\ Place \in Places
      /\ candidates'[Place].frame = Row
      /\ \A i \in Places \ {Place} : candidates'[i] = candidates[i]
    BY <1>1, RowEffect
<1>3. \A f \in Frames \ {Row} : burst'[f] = burst[f]
    BY <1>1, <1>2, RowEffect DEF DecoderTypeOK
<1>4. ASSUME NEW f \in Frames, burst'[f].rows > 0
      PROVE  MatchesOf(f)' # {}
    <2>1. CASE f = Row
        BY <1>2, <2>1, RowCountsExactly DEF MatchesOf, Places
    <2>2. CASE f # Row
        <3>1. PICK i \in Places : candidates[i].count # 0 /\ candidates[i].frame = f
            BY <1>3, <1>4, <2>2 DEF ExactInv, NothingEvicted, MatchesOf
        <3>2. i # Place
            BY <2>2, <3>1, RowCountsExactly DEF InUse
        <3>3. QED
            BY <1>2, <3>1, <3>2 DEF MatchesOf, Places
    <2>3. QED
        BY <2>1, <2>2
<1>5. ASSUME NEW i \in InUse'
      PROVE  /\ candidates'[i].emitted <=> burst'[candidates'[i].frame].emissions > 0
             /\ burst'[candidates'[i].frame].rows =
                   IF candidates'[i].count < MinimumRepeats
                   THEN candidates'[i].count ELSE MinimumRepeats
    <2>1. CASE i = Place
        BY <1>2, <2>1, RowCountsExactly
    <2>2. CASE i # Place
        <3>1. /\ i \in InUse
              /\ candidates'[i] = candidates[i]
              /\ candidates[i].frame \in Frames \ {Row}
            BY <1>1, <2>2, RowKeepsOthers DEF CandidatesHeard
        <3>2. QED
            BY <1>3, <3>1 DEF ExactInv, NothingEvicted
    <2>3. QED
        BY <2>1, <2>2
<1>6. NothingEvicted'
    BY <1>4, <1>5 DEF NothingEvicted
<1>7. ConsideredExactly'
    BY <1>2, <1>3, RowCountsExactly DEF ExactInv, ConsideredExactly
<1>8. QED
    BY <1>6, <1>7

\* ... and time.
LEMMA ElapseKeepsExact ==
    ASSUME ExactInv, Elapse
    PROVE  (NothingEvicted /\ ConsideredExactly)'
<1>1. DecoderTypeOK /\ CandidatesHeard
    BY DEF ExactInv, HeardInv
<1>2. \A i \in Places :
          /\ candidates'[i].count = candidates[i].count
          /\ candidates'[i].frame = candidates[i].frame
          /\ candidates'[i].emitted = candidates[i].emitted
    BY <1>1 DEF Elapse, DecoderTypeOK, Candidate
<1>3. \A f \in Frames :
          /\ burst'[f].rows = burst[f].rows
          /\ burst'[f].emissions = burst[f].emissions
    BY <1>1 DEF Elapse, DecoderTypeOK, Burst
<1>4. InUse' = InUse
    BY <1>2 DEF InUse, Places
<1>5. \A f \in Frames : MatchesOf(f)' = MatchesOf(f)
    BY <1>2 DEF MatchesOf, Places
<1>6. NothingEvicted'
    BY <1>1, <1>2, <1>3, <1>4, <1>5
    DEF ExactInv, NothingEvicted, CandidatesHeard, InUse
<1>7. ConsideredExactly'
    BY <1>3 DEF ExactInv, ConsideredExactly
<1>8. QED
    BY <1>6, <1>7

\* The exact invariant ...
LEMMA ExactInit == DecoderInit => ExactInv
<1>1. DecoderInit => NothingEvicted /\ ConsideredExactly
    BY BurstAssumption DEF DecoderInit, NothingEvicted, ConsideredExactly, InUse, Free, Silent
<1>2. QED
    BY <1>1, HeardInit DEF ExactInv

\* ... is inductive too.
LEMMA ExactStep ==
    ASSUME EnoughCandidates, ExactInv, [DecoderNext]_decoderVars
    PROVE  ExactInv'
<1>1. HeardInv'
    BY HeardStep DEF ExactInv
<1>2. CASE UNCHANGED decoderVars
    BY <1>1, <1>2 DEF decoderVars, ExactInv, NothingEvicted, ConsideredExactly, InUse, MatchesOf
<1>3. CASE DecoderNext
    BY <1>1, <1>3, DecodeKeepsExact, RowKeepsExact, ElapseKeepsExact DEF DecoderNext, ExactInv
<1>4. QED
    BY <1>2, <1>3

-----------------------------------------------------------------------------
(***************************************************************************)
(* What was on the air.  First, how often a frame occurs in a capture, and *)
(* in what is left of it when its first row has been taken.                *)
(***************************************************************************)
LEMMA PositionsFinite ==
    ASSUME NEW s \in Seq(Frames), NEW f
    PROVE  /\ IsFiniteSet({i \in DOMAIN s : s[i] = f})
           /\ Occurrences(s, f) \in Nat
<1> DEFINE A == {i \in DOMAIN s : s[i] = f}
<1>1. DOMAIN s = 1 .. Len(s) /\ Len(s) \in Nat
    OBVIOUS
<1>2. IsFiniteSet(DOMAIN s)
    BY <1>1, FS_Interval
<1>3. A \in SUBSET (DOMAIN s)
    OBVIOUS
<1> HIDE DEF A
<1>4. IsFiniteSet(A) /\ Cardinality(A) \in Nat
    BY <1>2, <1>3, FS_Subset, FS_CardinalityType
<1>5. QED
    BY <1>4 DEF A, Occurrences

LEMMA NoneInNothing ==
    ASSUME NEW f
    PROVE  Occurrences(<<>>, f) = 0
BY FS_EmptySet DEF Occurrences

LEMMA OneFewer ==
    ASSUME NEW s \in Seq(Frames), s # <<>>, NEW f
    PROVE  Occurrences(s, f) = Occurrences(Tail(s), f) + (IF f = Head(s) THEN 1 ELSE 0)
<1> DEFINE A == {i \in DOMAIN s : s[i] = f}
           B == {i \in DOMAIN Tail(s) : Tail(s)[i] = f}
           A1 == A \ {1}
           h == [i \in B |-> i + 1]
<1>1. /\ DOMAIN s = 1 .. Len(s) /\ Len(s) \in Nat \ {0}
      /\ Tail(s) \in Seq(Frames)
      /\ DOMAIN Tail(s) = 1 .. Len(s) - 1
      /\ \A i \in 1 .. Len(s) - 1 : Tail(s)[i] = s[i + 1]
      /\ Head(s) = s[1]
    OBVIOUS
<1>2. /\ A = {i \in 1 .. Len(s) : s[i] = f}
      /\ B = {i \in 1 .. Len(s) - 1 : s[i + 1] = f}
    BY <1>1
<1>3. h \in [B -> A1]
    BY <1>1, <1>2
<1>4. \A i, j \in B : h[i] = h[j] => i = j
    BY <1>1, <1>2
<1>5. \A j \in A1 : \E i \in B : h[i] = j
    <2> SUFFICES ASSUME NEW j \in A1 PROVE \E i \in B : h[i] = j
        OBVIOUS
    <2>1. j \in 2 .. Len(s) /\ s[j] = f
        BY <1>1, <1>2
    <2>2. j - 1 \in 1 .. Len(s) - 1 /\ (j - 1) + 1 = j
        BY <1>1, <2>1
    <2>3. j - 1 \in B
        BY <1>2, <2>1, <2>2
    <2>4. QED
        BY <2>2, <2>3
<1>6. ExistsBijection(B, A1)
    <2> HIDE DEF A, B, A1, h
    <2>1. h \in Bijection(B, A1)
        BY <1>3, <1>4, <1>5 DEF Bijection, Injection, Surjection, IsInjective
    <2>2. QED
        BY <2>1 DEF ExistsBijection
<1>7. IsFiniteSet(A) /\ Cardinality(A) \in Nat /\ IsFiniteSet(B) /\ Cardinality(B) \in Nat
    BY <1>1, PositionsFinite, FS_CardinalityType
<1>8. 1 \in A <=> f = Head(s)
    BY <1>1
<1> HIDE DEF A, B, A1, h
<1>9. Cardinality(A1) = Cardinality(B)
    BY <1>6, <1>7, FS_Bijection
<1>10. Cardinality(A1) = IF 1 \in A THEN Cardinality(A) - 1 ELSE Cardinality(A)
    BY <1>7, FS_RemoveElement DEF A1
<1>11. Cardinality(A) = Cardinality(B) + (IF f = Head(s) THEN 1 ELSE 0)
    BY <1>7, <1>8, <1>9, <1>10
<1>12. QED
    BY <1>11 DEF A, B, Occurrences

(***************************************************************************)
(* The link between what was on the air and what decode() considered.  A   *)
(* row still to be considered has just been heard.  The burst that decode()*)
(* counts is as old as the one on the air, or older when rows of it were   *)
(* dropped; unless some were, the two agree.                               *)
(***************************************************************************)
Linked(f) ==
    LET h == heard[f]
        b == burst[f]
        k == Occurrences(rows, f)
    IN  /\ k > 0 => h.silence = 0
        /\ k = 0 /\ b.rows > 0 => h.silence <= b.silence
        /\ ~h.cut => /\ h.emissions = b.emissions
                     /\ h.rows = Saturated(b.rows + k)
                     /\ k = 0 /\ b.rows > 0 => h.silence = b.silence

HearingInv ==
    /\ ExactInv
    /\ heard \in [Frames -> Hearing]
    /\ \A f \in Frames : Linked(f)
    /\ NoneEvicted

LEMMA HearingInitially == HearingInit => HearingInv
<1> SUFFICES ASSUME HearingInit PROVE HearingInv
    OBVIOUS
<1>1. ExactInv
    BY ExactInit DEF HearingInit
<1>2. NotHeard \in Hearing
    BY BurstAssumption DEF NotHeard, Hearing, Ages
<1>3. \A f \in Frames : Linked(f)
    BY NoneInNothing, BurstAssumption
    DEF HearingInit, DecoderInit, Linked, NotHeard, Silent, Saturated
<1>4. NoneEvicted
    BY DEF HearingInit, NoneEvicted, NotHeard
<1>5. QED
    BY <1>1, <1>2, <1>3, <1>4 DEF HearingInit, HearingInv

\* What the invariant gives of one frame.
LEMMA LinkedFields ==
    ASSUME HearingInv, NEW f \in Frames
    PROVE  /\ burst[f] \in Burst /\ heard[f] \in Hearing
           /\ burst[f].rows \in 0 .. MinimumRepeats
           /\ burst[f].emissions = IF burst[f].rows >= MinimumRepeats THEN 1 ELSE 0
           /\ heard[f].rows \in 0 .. MinimumRepeats
           /\ heard[f].silence \in Nat /\ burst[f].silence \in Nat
           /\ heard[f].cut \in BOOLEAN /\ ~heard[f].evicted
           /\ rows \in Seq(Frames)
           /\ Linked(f)
           /\ MinimumRepeats \in Nat \ {0, 1} /\ BurstGap \in Nat
BY BurstAssumption DEF HearingInv, ExactInv, HeardInv, ConsideredExactly, DecoderTypeOK,
   NoneEvicted, Burst, Hearing, Ages

LEMMA CaptureLinks ==
    ASSUME HearingInv, NEW capture \in Captures, HearCapture(capture), NEW f \in Frames
    PROVE  heard'[f] \in Hearing /\ Linked(f)' /\ ~heard'[f].evicted
<1> DEFINE h == heard[f]
           b == burst[f]
           n == Occurrences(capture, f)
<1>1. rows = <<>> /\ rows' = capture /\ capture \in Seq(Frames)
    BY BurstAssumption DEF HearCapture, Decode
<1>2. Occurrences(rows, f) = 0 /\ n \in Nat /\ Occurrences(rows, f)' = n
    BY <1>1, NoneInNothing, PositionsFinite
<1>3. burst'[f] = IF b.silence > BurstGap THEN Silent ELSE b
    BY DEF HearCapture, Decode
<1>4. heard'[f] = Heard(f, n)
    BY DEF HearCapture
<1>5. /\ b \in Burst /\ h \in Hearing
      /\ b.rows \in 0 .. MinimumRepeats
      /\ b.emissions = IF b.rows >= MinimumRepeats THEN 1 ELSE 0
      /\ h.rows \in 0 .. MinimumRepeats
      /\ h.silence \in Nat /\ b.silence \in Nat
      /\ h.cut \in BOOLEAN /\ ~h.evicted
      /\ MinimumRepeats \in Nat \ {0, 1} /\ BurstGap \in Nat
    BY LinkedFields
<1>6. /\ b.rows > 0 => h.silence <= b.silence
      /\ ~h.cut => /\ h.emissions = b.emissions
                   /\ h.rows = b.rows
                   /\ b.rows > 0 => h.silence = b.silence
    <2>1. Linked(f)
        BY LinkedFields
    <2>2. Saturated(b.rows + 0) = b.rows
        BY <1>5 DEF Saturated
    <2>3. QED
        BY <1>2, <2>1, <2>2 DEF Linked
<1> DEFINE g == Continued(f)
           c == burst'[f]
<1>7. /\ g \in Hearing /\ c \in Burst /\ ~g.evicted
      /\ g.rows \in 0 .. MinimumRepeats /\ c.rows \in 0 .. MinimumRepeats
      /\ c.rows > 0 => g.silence <= c.silence
      /\ ~g.cut => /\ g.emissions = c.emissions
                   /\ g.rows = c.rows
                   /\ c.rows > 0 => g.silence = c.silence
    <2>1. NotHeard \in Hearing /\ Silent \in Burst
        BY BurstAssumption DEF NotHeard, Hearing, Silent, Burst, Ages
    <2>2. CASE h.silence > BurstGap
        <3>1. g = NotHeard
            BY <2>2 DEF Continued
        <3>2. c.rows = 0 /\ c.emissions = 0
            BY <1>3, <1>5, <1>6, <2>2 DEF Silent
        <3>3. QED
            BY <1>3, <1>5, <2>1, <3>1, <3>2 DEF NotHeard
    <2>3. CASE ~(h.silence > BurstGap)
        <3>1. g = h
            BY <2>3 DEF Continued
        <3>2. CASE b.silence > BurstGap
            <4>1. c = Silent
                BY <1>3, <3>2
            <4>2. ~h.cut => b.rows = 0
                BY <1>5, <1>6, <2>3, <3>2
            <4>3. QED
                BY <1>5, <1>6, <2>1, <3>1, <4>1, <4>2 DEF Silent
        <3>3. CASE ~(b.silence > BurstGap)
            BY <1>3, <1>5, <1>6, <3>1, <3>3
        <3>4. QED
            BY <3>2, <3>3
    <2>4. QED
        BY <2>2, <2>3
<1> HIDE DEF g, c
<1>8. CASE n = 0
    <2>1. heard'[f] = g /\ Saturated(c.rows + 0) = c.rows
        BY <1>4, <1>5, <1>7, <1>8 DEF Heard, g, Saturated
    <2>2. QED
        BY <1>2, <1>7, <1>8, <2>1 DEF Linked, c
<1>9. CASE n > 0
    <2>1. heard'[f] = [g EXCEPT !.rows = Saturated(g.rows + n), !.silence = 0]
        BY <1>2, <1>4, <1>9 DEF Heard, g
    <2>2. Saturated(g.rows + n) \in 0 .. MinimumRepeats /\ 0 \in Ages
        BY <1>2, <1>5, <1>7, BurstAssumption DEF Saturated, Ages
    <2>3. /\ heard'[f] \in Hearing
          /\ heard'[f].rows = Saturated(g.rows + n)
          /\ heard'[f].silence = 0
          /\ heard'[f].cut = g.cut /\ ~heard'[f].evicted
          /\ heard'[f].emissions = g.emissions
        BY <1>7, <2>1, <2>2 DEF Hearing
    <2>4. QED
        BY <1>2, <1>7, <1>9, <2>3 DEF Linked, c
<1>10. QED
    BY <1>2, <1>8, <1>9

LEMMA RowLinks ==
    ASSUME EnoughCandidates, HearingInv, HearRow, NEW f \in Frames
    PROVE  heard'[f] \in Hearing /\ Linked(f)' /\ ~heard'[f].evicted
<1> DEFINE h == heard[f]
           b == burst[f]
           k == Occurrences(rows, f)
           t == Occurrences(Tail(rows), f)
           e == Emits(Sighted(Row))
<1>1. ConsiderRow /\ DecoderTypeOK /\ CandidatesHeard
    BY DEF HearRow, HearingInv, ExactInv, HeardInv
<1>2. rows # <<>> /\ rows \in Seq(Frames) /\ Row \in Frames /\ Tail(rows) \in Seq(Frames)
    <2>1. rows # <<>> /\ rows \in Seq(Frames)
        BY <1>1 DEF ConsiderRow, DecoderTypeOK
    <2>2. QED
        BY <1>1, <2>1, RowEffect
<1>3. k \in Nat /\ t \in Nat /\ k = t + (IF f = Row THEN 1 ELSE 0)
    BY <1>2, PositionsFinite, OneFewer DEF Row
<1>4. /\ result' = IF e THEN Row ELSE NoFrame
      /\ rows' = IF e THEN <<>> ELSE Tail(rows)
    BY <1>1 DEF ConsiderRow, Row
<1>5. Occurrences(rows, f)' = IF e THEN 0 ELSE t
    BY <1>4, NoneInNothing
<1>13. heard[f] \in Hearing /\ ~heard[f].evicted
    BY LinkedFields
<1>14. Answered(f) \in Hearing /\ ~Answered(f).evicted
    <2>1. PICK g \in Hearing : g = heard[f]
        BY <1>13
    <2>2. g.emissions \in 0 .. 2
        BY DEF Hearing
    <2>3. [g EXCEPT !.cut = TRUE] \in Hearing /\ [g EXCEPT !.cut = TRUE].evicted = g.evicted
        BY DEF Hearing
    <2>4. \A n \in 0 .. 2 : /\ [g EXCEPT !.emissions = n] \in Hearing
                            /\ [g EXCEPT !.emissions = n].evicted = g.evicted
        BY DEF Hearing
    <2>5. (IF g.emissions < 2 THEN g.emissions + 1 ELSE g.emissions) \in 0 .. 2
        BY <2>2
    <2>6. QED
        BY <1>13, <2>1, <2>3, <2>4, <2>5 DEF Answered
<1>15. ~Evicts(f)
    <2>1. Place \notin InUse \/ candidates[Place].frame = Row
        BY <1>1, RowCountsExactly DEF HearingInv
    <2>2. Place \in Places
        BY <1>1, RowEffect
    <2>3. QED
        BY <2>1, <2>2 DEF Evicts, InUse, Place, Row
<1>6. heard'[f] = Answered(f)
    <2>1. heard'[f] = [Answered(f) EXCEPT !.evicted = @ \/ Evicts(f)]
        BY DEF HearRow
    <2>2. PICK g \in Hearing : g = Answered(f)
        BY <1>14
    <2>3. ~g.evicted /\ g.evicted \in BOOLEAN
        BY <1>14, <2>2 DEF Hearing
    <2>4. (g.evicted \/ Evicts(f)) = g.evicted
        BY <1>15, <2>3, Zenon
    <2>5. [g EXCEPT !.evicted = g.evicted] = g
        BY DEF Hearing
    <2>6. QED
        BY <2>1, <2>2, <2>4, <2>5
<1>7. /\ b \in Burst /\ h \in Hearing
      /\ b.rows \in 0 .. MinimumRepeats
      /\ b.emissions = IF b.rows >= MinimumRepeats THEN 1 ELSE 0
      /\ h.rows \in 0 .. MinimumRepeats
      /\ h.silence \in Nat /\ b.silence \in Nat
      /\ h.cut \in BOOLEAN
      /\ MinimumRepeats \in Nat \ {0, 1}
    BY LinkedFields
<1>8. /\ k > 0 => h.silence = 0
      /\ k = 0 /\ b.rows > 0 => h.silence <= b.silence
      /\ ~h.cut => /\ h.emissions = b.emissions
                   /\ h.rows = Saturated(b.rows + k)
                   /\ k = 0 /\ b.rows > 0 => h.silence = b.silence
    BY LinkedFields DEF Linked
<1>9. NoFrame \notin Frames
    BY BurstAssumption
<1>10. ASSUME f # Row PROVE heard'[f] \in Hearing /\ Linked(f)'
    <2>1. burst'[f] = b
        BY <1>1, <1>2, <1>10, RowEffect DEF DecoderTypeOK
    <2>2. f # result' /\ (result' # NoFrame <=> e)
        BY <1>2, <1>4, <1>9, <1>10
    <2>3. CASE e /\ t > 0
        <3>1. heard'[f] = [h EXCEPT !.cut = TRUE]
            BY <1>6, <2>2, <2>3 DEF Answered
        <3>2. heard'[f] \in Hearing /\ heard'[f].cut = TRUE /\ heard'[f].silence = h.silence
            BY <1>7, <3>1 DEF Hearing
        <3>3. h.silence = 0
            BY <1>3, <1>8, <1>10, <2>3
        <3>4. QED
            BY <1>5, <1>7, <2>1, <2>3, <3>2, <3>3 DEF Linked
    <2>4. CASE ~(e /\ t > 0)
        <3>1. heard'[f] = h
            BY <1>6, <2>2, <2>4 DEF Answered
        <3>2. Occurrences(rows, f)' = k
            BY <1>3, <1>5, <1>10, <2>4
        <3>3. QED
            BY <1>7, <1>8, <2>1, <3>1, <3>2 DEF Linked
    <2>5. QED
        BY <2>3, <2>4
<1>11. ASSUME f = Row PROVE heard'[f] \in Hearing /\ Linked(f)'
    <2>1. burst'[f] = Considered(b, e)
        BY <1>1, <1>2, <1>11, RowEffect DEF DecoderTypeOK
    <2>2. h.silence = 0 /\ k = t + 1
        BY <1>3, <1>8, <1>11
    <2>3. /\ burst'[f].rows = IF b.rows < MinimumRepeats THEN b.rows + 1 ELSE b.rows
          /\ burst'[f].silence = 0
        BY <2>1 DEF Considered
    <2>4. CASE e
        <3>1. heard'[f] = [h EXCEPT !.emissions = IF @ < 2 THEN @ + 1 ELSE @]
            BY <1>4, <1>6, <1>11, <2>4 DEF Answered
        <3>2. h.emissions \in 0 .. 2
            BY <1>7 DEF Hearing
        <3>3. /\ heard'[f].emissions = IF h.emissions < 2 THEN h.emissions + 1 ELSE h.emissions
              /\ heard'[f].rows = h.rows /\ heard'[f].cut = h.cut /\ heard'[f].silence = 0
              /\ heard'[f] \in Hearing
            BY <1>7, <2>2, <3>1, <3>2 DEF Hearing
        <3>4. burst'[f].emissions = IF b.emissions < 2 THEN b.emissions + 1 ELSE b.emissions
            BY <2>1, <2>4 DEF Considered
        <3>5. burst'[f].rows = MinimumRepeats
            BY <1>1, <1>7, <1>11, <2>3, <2>4, EmissionHeard
        <3>6. ~h.cut => h.rows = MinimumRepeats
            <4>1. b.rows + 1 >= MinimumRepeats
                BY <1>7, <2>3, <3>5
            <4>2. b.rows + k >= MinimumRepeats
                BY <1>3, <1>7, <2>2, <4>1
            <4>3. Saturated(b.rows + k) = MinimumRepeats
                BY <1>3, <1>7, <4>2 DEF Saturated
            <4>4. QED
                BY <1>8, <4>3
        <3>7. Saturated(MinimumRepeats + 0) = MinimumRepeats
            BY <1>7 DEF Saturated
        <3>8. QED
            BY <1>5, <1>7, <1>8, <2>3, <2>4, <3>3, <3>4, <3>5, <3>6, <3>7 DEF Linked
    <2>5. CASE ~e
        <3>1. heard'[f] = h
            BY <1>4, <1>6, <1>9, <2>5 DEF Answered
        <3>2. burst'[f].emissions = b.emissions
            BY <2>1, <2>5 DEF Considered
        <3>3. Saturated(b.rows + k) = Saturated(burst'[f].rows + t)
            BY <1>3, <1>7, <2>2, <2>3 DEF Saturated
        <3>4. QED
            BY <1>5, <1>7, <1>8, <2>2, <2>3, <2>5, <3>1, <3>2, <3>3 DEF Linked
    <2>6. QED
        BY <2>4, <2>5
<1>12. QED
    BY <1>6, <1>10, <1>11, <1>14

LEMMA NothingLinks ==
    ASSUME HearingInv, HearNothing, NEW f \in Frames
    PROVE  heard'[f] \in Hearing /\ Linked(f)' /\ ~heard'[f].evicted
<1> DEFINE h == heard[f]
           b == burst[f]
<1>1. rows = <<>> /\ rows' = rows
    BY DEF HearNothing, Elapse
<1>2. Occurrences(rows, f) = 0 /\ Occurrences(rows, f)' = 0
    BY <1>1, NoneInNothing
<1>3. b \in Burst /\ h \in Hearing /\ Linked(f) /\ ~h.evicted
    BY LinkedFields
<1>4. /\ heard'[f] = [h EXCEPT !.silence = Aged(@)]
      /\ burst'[f] = [b EXCEPT !.silence = Aged(@)]
    BY DEF HearNothing, Elapse
<1>5. /\ heard'[f] \in Hearing
      /\ heard'[f].silence = Aged(h.silence) /\ burst'[f].silence = Aged(b.silence)
      /\ heard'[f].rows = h.rows /\ heard'[f].cut = h.cut /\ heard'[f].emissions = h.emissions
      /\ ~heard'[f].evicted
      /\ burst'[f].rows = b.rows /\ burst'[f].emissions = b.emissions
    BY <1>3, <1>4, AgedType DEF Hearing, Burst
<1>6. h.silence <= b.silence => Aged(h.silence) <= Aged(b.silence)
    BY <1>3, BurstAssumption DEF Aged, Hearing, Burst, Ages
<1>7. QED
    BY <1>2, <1>3, <1>5, <1>6 DEF Linked

LEMMA HearingStep ==
    ASSUME EnoughCandidates, HearingInv, [HearingNext]_hearingVars
    PROVE  HearingInv'
<1>1. ExactInv'
    BY ExactStep
    DEF HearingInv, HearingNext, HearCapture, HearRow, HearNothing, hearingVars, DecoderNext
<1>2. CASE UNCHANGED hearingVars
    BY <1>1, <1>2 DEF hearingVars, decoderVars, HearingInv, Linked, NoneEvicted
<1>3. CASE HearingNext
    <2>1. heard' = [f \in Frames |-> heard'[f]]
        BY <1>3 DEF HearingNext, HearCapture, HearRow, HearNothing
    <2>2. \A f \in Frames : heard'[f] \in Hearing /\ Linked(f)' /\ ~heard'[f].evicted
        BY <1>3, CaptureLinks, RowLinks, NothingLinks DEF HearingNext
    <2>3. QED
        BY <1>1, <2>1, <2>2 DEF HearingInv, NoneEvicted
<1>4. QED
    BY <1>2, <1>3

LEMMA HearingIsExact == HearingInv => ExactConsensus /\ NoneEvicted
<1> SUFFICES ASSUME HearingInv, rows = <<>>, NEW f \in Frames, ~heard[f].cut
             PROVE  heard[f].emissions = IF heard[f].rows >= MinimumRepeats THEN 1 ELSE 0
    BY DEF ExactConsensus, HearingInv
<1>1. Occurrences(rows, f) = 0
    BY NoneInNothing
<1>2. burst[f].rows \in 0 .. MinimumRepeats /\ Linked(f) /\ MinimumRepeats \in Nat
    BY LinkedFields
<1>3. Saturated(burst[f].rows + 0) = burst[f].rows
    BY <1>2 DEF Saturated
<1>4. QED
    BY <1>1, <1>2, <1>3, LinkedFields DEF Linked

(***************************************************************************)
(* With at least as many candidates as frames, and for any captures: a     *)
(* frame is emitted exactly once in each burst with enough rows of it on   *)
(* the air, and never in one without, unless a row of the burst came in a  *)
(* capture behind the emission of another frame; and no candidate is taken *)
(* from its frame, so that this is the only exception.                     *)
(***************************************************************************)
THEOREM EnoughCandidatesAreExact ==
    ASSUME EnoughCandidates
    PROVE  HearingSpec => [](ExactConsensus /\ NoneEvicted)
<1>1. HearingInv /\ [HearingNext]_hearingVars => HearingInv'
    BY HearingStep
<1>2. QED
    BY <1>1, HearingInitially, HearingIsExact, PTL DEF HearingSpec

-----------------------------------------------------------------------------
(***************************************************************************)
(* A press of one button and its relayed copy.  With two candidates the    *)
(* decoder is exact, so what it emits can be read off the bursts.  A press *)
(* finds the burst of the press before it over and the short window gone   *)
(* by; its relayed copy finds the long window open.                        *)
(***************************************************************************)
\* All rows that are left are of one frame.
Considers(frame) == rows # <<>> /\ \A i \in DOMAIN rows : rows[i] = frame

ReceptionTypeOK ==
    /\ memory \in Memory
    /\ sincePress \in 0 .. Long
    /\ rang \in {0, 1}
    /\ relayDue \in BOOLEAN /\ whole \in BOOLEAN

\* The direct frame was last heard no later than the last press.
BurstEnds ==
    \/ burst[Direct].rows = 0
    \/ burst[Direct].silence > BurstGap
    \/ burst[Direct].silence >= sincePress

RingAge == memory[FALSE]

\* An event was recorded at the last press or at a relayed copy.
WindowEnds == RingAge >= RepeatWindow \/ RingAge + RelayLast >= sincePress

\* And not before that press if that press rang.
WindowOpen == rang = 1 => RingAge <= sincePress \/ sincePress = Long

DirectPart ==
    Considers(Direct) =>
        /\ sincePress = 0 /\ rang = 0
        /\ RingAge >= RepeatWindow
        /\ burst[Direct].rows < MinimumRepeats
        /\ whole => burst[Direct].rows + Len(rows) >= MinimumRepeats

RelayedPart ==
    Considers(Relayed) => sincePress <= RelayLast

ReceptionInv ==
    /\ ExactInv
    /\ ReceptionTypeOK
    /\ rows = <<>> \/ Considers(Direct) \/ Considers(Relayed)
    /\ BurstEnds /\ WindowEnds /\ WindowOpen
    /\ DirectPart /\ RelayedPart
    /\ whole /\ ~Considers(Direct) => rang = 1

PressesSpaced ==
    /\ Spacing > BurstGap
    /\ Spacing > RelayLast
    /\ Spacing >= RelayLast + RepeatWindow

\* The two frames of one button fit into two candidates.
LEMMA TwoFramesFit == MaxCandidates >= 2 => EnoughCandidates
<1>1. IsFiniteSet({Direct}) /\ Cardinality({Direct}) = 1
    BY FS_Singleton
<1>2. Frames = {Direct} \cup {Relayed} /\ Relayed \notin {Direct}
    BY ReceptionAssumption
<1>3. IsFiniteSet(Frames) /\ Cardinality(Frames) = 2
    BY <1>1, <1>2, FS_AddElement
<1>4. QED
    BY <1>3, BurstAssumption DEF EnoughCandidates

\* The row that completes a burst makes decode() emit, and no other does.
LEMMA CompletingRowEmits ==
    ASSUME ExactInv, ExactInv', ConsiderRow
    PROVE  /\ Row \in Frames
           /\ Emits(Sighted(Row)) <=> burst[Row].rows = MinimumRepeats - 1
           /\ burst[Row].rows \in 0 .. MinimumRepeats
           /\ burst'[Row].rows =
                 IF burst[Row].rows < MinimumRepeats THEN burst[Row].rows + 1 ELSE MinimumRepeats
           /\ burst'[Row].silence = 0
           /\ \A f \in Frames \ {Row} : burst'[f] = burst[f]
<1>1. DecoderTypeOK
    BY DEF ExactInv, HeardInv
<1>2. Row \in Frames /\ burst' = [burst EXCEPT ![Row] = Considered(@, Emits(Sighted(Row)))]
    BY <1>1, RowEffect
<1>3. burst[Row] \in Burst
    BY <1>1, <1>2 DEF DecoderTypeOK
<1>4. /\ burst'[Row] = Considered(burst[Row], Emits(Sighted(Row)))
      /\ \A f \in Frames \ {Row} : burst'[f] = burst[f]
    BY <1>1, <1>2 DEF DecoderTypeOK
<1>5. /\ burst[Row].emissions = IF burst[Row].rows >= MinimumRepeats THEN 1 ELSE 0
      /\ burst'[Row].emissions = IF burst'[Row].rows >= MinimumRepeats THEN 1 ELSE 0
    BY <1>2 DEF ExactInv, ConsideredExactly
<1>6. PICK e \in BOOLEAN : e = Emits(Sighted(Row))
    BY DEF Emits
<1>7. burst'[Row] = Considered(burst[Row], e)
    BY <1>4, <1>6
<1>8. e <=> burst[Row].rows = MinimumRepeats - 1
    BY <1>3, <1>5, <1>7, BurstAssumption DEF Considered, Burst
<1>9. QED
    BY <1>2, <1>3, <1>4, <1>6, <1>7, <1>8, BurstAssumption DEF Considered, Burst

\* What is remembered of presses, ...
LEMMA MemoryAges ==
    ASSUME memory \in Memory, NEW secret \in BOOLEAN
    PROVE  /\ memory[secret] \in 0 .. Horizon
           /\ Record(memory, secret) \in Memory /\ Record(memory, secret)[secret] = 0
           /\ Older(memory) \in Memory
           /\ Older(memory)[secret] =
                 IF memory[secret] < Horizon THEN memory[secret] + 1 ELSE Horizon
<1>1. Horizon \in Nat
    BY WindowAssumption DEF Horizon
<1>2. \A s \in BOOLEAN : memory[s] \in 0 .. Horizon
    BY DEF Memory
<1>3. QED
    BY <1>1, <1>2 DEF Memory, Record, Older

\* ... of ring presses above all.
LEMMA RingAges ==
    ASSUME memory \in Memory
    PROVE  /\ RingAge \in 0 .. Horizon
           /\ Record(memory, FALSE) \in Memory /\ Older(memory) \in Memory
           /\ memory' = memory => RingAge' = RingAge
           /\ memory' = Record(memory, FALSE) => RingAge' = 0
           /\ memory' = Older(memory) =>
                 RingAge' = IF RingAge < Horizon THEN RingAge + 1 ELSE Horizon
<1>1. FALSE \in BOOLEAN
    BY Zenon
<1>2. /\ memory[FALSE] \in 0 .. Horizon
      /\ Record(memory, FALSE) \in Memory /\ Record(memory, FALSE)[FALSE] = 0
      /\ Older(memory) \in Memory
      /\ Older(memory)[FALSE] = IF memory[FALSE] < Horizon THEN memory[FALSE] + 1 ELSE Horizon
    BY <1>1, MemoryAges, Zenon
<1>3. QED
    BY <1>2, Zenon DEF RingAge

\* The windows, and the age at which an event is forgotten, ...
LEMMA WindowsAreNatural ==
    Horizon \in Nat /\ Horizon >= RepeatWindow /\ RepeatWindow \in Nat /\ RelayWindow \in Nat
BY WindowAssumption DEF Horizon

\* ... and the other times and frames of the model.
LEMMA TimesAreNatural ==
    /\ Spacing \in Nat /\ RelayLast \in Nat /\ RelayLast < RelayWindow
    /\ BurstGap \in Nat /\ MinimumRepeats \in Nat \ {0, 1}
    /\ Long \in Nat /\ Long >= Spacing /\ Long >= RelayLast
    /\ Direct \in Frames /\ Relayed \in Frames /\ Direct # Relayed
    /\ \A f \in Frames : f = Direct \/ f = Relayed
    /\ NoFrame \notin Frames
BY ReceptionAssumption, BurstAssumption DEF Long

\* The burst of the direct frame is a burst.
LEMMA BurstsAreTyped ==
    ASSUME ExactInv
    PROVE  /\ burst[Direct].rows \in 0 .. MinimumRepeats
           /\ burst[Direct].silence \in 0 .. BurstGap + 1
BY TimesAreNatural DEF ExactInv, HeardInv, DecoderTypeOK, Burst, Ages

\* Another call of decode().
LEMMA DecodeEffect ==
    ASSUME ExactInv, NEW capture \in Captures, Decode(capture)
    PROVE  /\ rows = <<>> /\ rows' = capture /\ capture \in Seq(Frames)
           /\ burst'[Direct] = IF burst[Direct].silence > BurstGap THEN Silent ELSE burst[Direct]
BY TimesAreNatural, BurstAssumption DEF Decode

\* A press finds the burst and the window of the one before it over.
LEMMA PressKeepsInv ==
    ASSUME EnoughCandidates, PressesSpaced, ReceptionInv, NEW capture \in Captures, PressButton(capture)
    PROVE  ReceptionInv'
<1>1. /\ Decode(capture) /\ sincePress >= Spacing /\ sincePress' = 0 /\ relayDue' = TRUE
      /\ rang' = 0 /\ whole' = (Len(capture) >= MinimumRepeats) /\ memory' = memory
      /\ \A i \in DOMAIN capture : capture[i] = Direct
    BY DEF PressButton, Parts
<1>2. ExactInv /\ ExactInv'
    BY <1>1, ExactStep DEF ReceptionInv, DecoderNext
<1>3. /\ rows' = capture /\ capture \in Seq(Frames)
      /\ burst'[Direct] = IF burst[Direct].silence > BurstGap THEN Silent ELSE burst[Direct]
    BY <1>1, <1>2, DecodeEffect
<1>4. sincePress \in Nat /\ memory \in Memory
    BY TimesAreNatural DEF ReceptionInv, ReceptionTypeOK
<1>5. burst'[Direct].rows = 0
    <2>1. Silent.rows = 0
        BY DEF Silent
    <2>2. burst[Direct].rows = 0 \/ burst[Direct].silence > BurstGap
        BY <1>1, <1>2, <1>4, BurstsAreTyped, TimesAreNatural
        DEF ReceptionInv, BurstEnds, PressesSpaced
    <2>3. QED
        BY <1>3, <2>1, <2>2
<1>6. RingAge' = RingAge /\ RingAge \in Nat /\ RingAge >= RepeatWindow
    BY <1>1, <1>4, RingAges, WindowsAreNatural, TimesAreNatural DEF ReceptionInv, WindowEnds, PressesSpaced
<1>7. rows' = <<>> \/ Considers(Direct)'
    BY <1>1, <1>3 DEF Considers
<1>8. Len(capture) \in Nat /\ (Len(capture) >= MinimumRepeats => rows' # <<>>)
    BY <1>3, TimesAreNatural
<1>9. DirectPart'
    <2>1. whole' => Len(rows') >= MinimumRepeats
        BY <1>3, Zenon DEF PressButton
    <2>2. QED
        BY <1>1, <1>3, <1>5, <1>6, <1>8, <2>1, TimesAreNatural DEF DirectPart
<1>10. BurstEnds' /\ WindowEnds' /\ WindowOpen' /\ RelayedPart'
    BY <1>1, <1>5, <1>6, TimesAreNatural DEF BurstEnds, WindowEnds, WindowOpen, RelayedPart
<1>11. ReceptionTypeOK'
    BY <1>1, <1>4, TimesAreNatural DEF ReceptionTypeOK
<1>12. QED
    BY <1>1, <1>2, <1>7, <1>8, <1>9, <1>10, <1>11 DEF ReceptionInv

\* The relayed copy comes while the last press is recent.
LEMMA RelayKeepsInv ==
    ASSUME EnoughCandidates, ReceptionInv, NEW capture \in Captures, HearRelayedCopy(capture)
    PROVE  ReceptionInv'
<1>1. /\ Decode(capture) /\ sincePress \in RelayFirst .. RelayLast /\ relayDue' = FALSE
      /\ memory' = memory /\ sincePress' = sincePress /\ rang' = rang /\ whole' = whole
      /\ \A i \in DOMAIN capture : capture[i] = Relayed
    BY DEF HearRelayedCopy, Parts
<1>2. ExactInv /\ ExactInv'
    BY <1>1, ExactStep DEF ReceptionInv, DecoderNext
<1>3. /\ rows = <<>> /\ rows' = capture /\ capture \in Seq(Frames)
      /\ burst'[Direct] = IF burst[Direct].silence > BurstGap THEN Silent ELSE burst[Direct]
    BY <1>1, <1>2, DecodeEffect
<1>4. rows' = <<>> \/ Considers(Relayed)'
    BY <1>1, <1>3 DEF Considers
<1>5. ~Considers(Direct) /\ ~Considers(Direct)'
    <2>1. capture # <<>> => 1 \in DOMAIN capture
        BY <1>3
    <2>2. QED
        BY <1>1, <1>3, <2>1, TimesAreNatural DEF Considers
<1>6. BurstEnds'
    BY <1>1, <1>3 DEF ReceptionInv, BurstEnds, Silent
<1>7. RelayedPart' /\ DirectPart'
    <2>1. sincePress <= RelayLast
        BY <1>1, ReceptionAssumption
    <2>2. QED
        BY <1>1, <1>5, <2>1 DEF RelayedPart, DirectPart
<1>8. ReceptionTypeOK' /\ WindowEnds' /\ WindowOpen' /\ (whole' => rang' = 1)
    <2>1. RingAge' = RingAge
        BY <1>1, RingAges DEF ReceptionInv, ReceptionTypeOK
    <2>2. QED
      BY <1>1, <1>5, <2>1 DEF ReceptionInv, ReceptionTypeOK, WindowEnds, WindowOpen
<1>9. QED
    BY <1>2, <1>4, <1>6, <1>7, <1>8 DEF ReceptionInv

\* Time closes bursts and windows, and never opens one.
LEMMA TimeKeepsInv ==
    ASSUME EnoughCandidates, PressesSpaced, ReceptionInv, PassTime
    PROVE  ReceptionInv'
<1>1. /\ Elapse /\ memory' = Older(memory) /\ relayDue' = relayDue /\ rang' = rang /\ whole' = whole
      /\ sincePress' = IF sincePress < Long THEN sincePress + 1 ELSE Long
    BY DEF PassTime
<1>2. ExactInv /\ ExactInv'
    BY <1>1, ExactStep DEF ReceptionInv, DecoderNext
<1>3. rows = <<>> /\ rows' = <<>>
    BY <1>1 DEF Elapse
<1>4. ~Considers(Direct) /\ ~Considers(Direct)' /\ ~Considers(Relayed)'
    BY <1>3 DEF Considers
<1>5. sincePress \in 0 .. Long /\ memory \in Memory /\ sincePress' \in 0 .. Long
    BY <1>1, TimesAreNatural DEF ReceptionInv, ReceptionTypeOK
<1>6. BurstEnds'
    <2>1. burst'[Direct] = [burst[Direct] EXCEPT !.silence = Aged(@)]
        BY <1>1, TimesAreNatural DEF Elapse
    <2>2. burst[Direct] \in Burst
        BY <1>2, TimesAreNatural DEF ExactInv, HeardInv, DecoderTypeOK
    <2>3. /\ burst'[Direct].rows = burst[Direct].rows
          /\ burst'[Direct].silence = Aged(burst[Direct].silence)
        BY <2>1, <2>2 DEF Burst
    <2>4. QED
        BY <1>1, <1>2, <1>5, <2>3, BurstsAreTyped, TimesAreNatural DEF ReceptionInv, BurstEnds, Aged
<1>7. memory' \in Memory /\ WindowEnds' /\ WindowOpen'
    BY <1>1, <1>5, RingAges, WindowsAreNatural, TimesAreNatural DEF ReceptionInv, WindowEnds, WindowOpen
<1>8. ReceptionTypeOK' /\ (whole' => rang' = 1)
    BY <1>1, <1>4, <1>5, <1>7 DEF ReceptionInv, ReceptionTypeOK
<1>9. QED
    BY <1>2, <1>3, <1>4, <1>6, <1>7, <1>8 DEF ReceptionInv, DirectPart, RelayedPart

\* What becomes of the rows that are left.
LEMMA RowsShrink ==
    ASSUME ExactInv, NEW frame, Considers(frame), ConsiderRow
    PROVE  /\ Row = frame
           /\ rows' = IF Emits(Sighted(Row)) THEN <<>> ELSE Tail(rows)
           /\ result' = IF Emits(Sighted(Row)) THEN Row ELSE NoFrame
           /\ rows' = <<>> \/ Considers(frame)'
           /\ Len(rows) \in Nat /\ Len(Tail(rows)) = Len(rows) - 1
           /\ rows' = <<>> => Emits(Sighted(Row)) \/ Len(rows) = 1
<1>1. rows \in Seq(Frames) /\ rows # <<>> /\ \A i \in DOMAIN rows : rows[i] = frame
    BY DEF ExactInv, HeardInv, DecoderTypeOK, Considers
<1>2. Row = frame
    BY <1>1 DEF Row
<1>3. /\ rows' = IF Emits(Sighted(Row)) THEN <<>> ELSE Tail(rows)
      /\ result' = IF Emits(Sighted(Row)) THEN Row ELSE NoFrame
    BY DEF ConsiderRow, Row
<1>4. Len(rows) \in Nat /\ Len(Tail(rows)) = Len(rows) - 1
    BY <1>1
<1>5. Tail(rows) = <<>> => Len(rows) = 1
    <2>1. Len(<<>>) = 0
        OBVIOUS
    <2>2. Tail(rows) = <<>> => Len(Tail(rows)) = 0
        BY <2>1, Zenon
    <2>3. PICK n \in Nat : n = Len(rows)
        BY <1>4
    <2>4. Len(Tail(rows)) = n - 1
        BY <1>4, <2>3
    <2>5. \A k \in Nat : k - 1 = 0 => k = 1
        OBVIOUS
    <2>6. QED
        BY <2>2, <2>3, <2>4, <2>5, Zenon
<1>6. \A i \in DOMAIN Tail(rows) : Tail(rows)[i] = frame
    BY <1>1
<1>7. QED
    BY <1>2, <1>3, <1>4, <1>5, <1>6 DEF Considers

\* A frame that decode() emits rings if the windows let it.
Publishing ==
    /\ result' # NoFrame
    /\ RingAge >= RepeatWindow
    /\ result' = Relayed => RingAge >= RelayWindow

\* What on_receive does with what decode() returns.
LEMMA RowRings ==
    ASSUME ReceptionTypeOK, DecodeRow
    PROVE  /\ memory' \in Memory
           /\ Publishing => RingAge' = 0 /\ rang' = rang + 1
           /\ ~Publishing => RingAge' = RingAge /\ rang' = rang
<1>1. /\ memory' = IF Publishing THEN Record(memory, FALSE) ELSE memory
      /\ rang' = IF Publishing /\ rang < 2 THEN rang + 1 ELSE rang
    BY Zenon DEF DecodeRow, ShouldPublish, RingAge, Publishing
<1>2. memory \in Memory /\ rang \in {0, 1}
    BY DEF ReceptionTypeOK
<1>3. CASE Publishing
    <2>1. memory' = Record(memory, FALSE) /\ rang' = rang + 1
        BY <1>1, <1>2, <1>3
    <2>2. QED
        BY <1>2, <1>3, <2>1, RingAges
<1>4. CASE ~Publishing
    <2>1. memory' = memory /\ rang' = rang
        BY <1>1, <1>4
    <2>2. QED
        BY <1>2, <1>4, <2>1, RingAges
<1>5. QED
    BY <1>3, <1>4

\* A row of the direct frame rings when it completes the burst; one of the
\* relayed frame rings only if no row of the press did.
LEMMA RowKeepsReception ==
    ASSUME EnoughCandidates, PressesSpaced, ReceptionInv, DecodeRow
    PROVE  ReceptionInv'
<1>1. /\ ConsiderRow /\ sincePress' = sincePress /\ relayDue' = relayDue /\ whole' = whole
    BY DEF DecodeRow
<1>0. whole' => whole
    BY Zenon DEF DecodeRow
<1>2. ExactInv /\ ExactInv'
    BY <1>1, ExactStep DEF ReceptionInv, DecoderNext
<1>5. /\ sincePress \in 0 .. Long /\ rang \in {0, 1} /\ relayDue \in BOOLEAN /\ whole \in BOOLEAN
      /\ ReceptionTypeOK
    BY DEF ReceptionInv, ReceptionTypeOK
<1>6. /\ memory' \in Memory /\ RingAge \in Nat
      /\ Publishing => RingAge' = 0 /\ rang' = rang + 1
      /\ ~Publishing => RingAge' = RingAge /\ rang' = rang
    BY <1>5, RowRings, RingAges, WindowsAreNatural DEF ReceptionTypeOK
<1> DEFINE e == Emits(Sighted(Row))
<1>7. CASE Considers(Direct)
    <2>1. /\ Row = Direct
          /\ rows' = <<>> \/ Considers(Direct)'
          /\ rows' = IF e THEN <<>> ELSE Tail(rows)
          /\ result' = IF e THEN Direct ELSE NoFrame
          /\ Len(rows) \in Nat /\ Len(Tail(rows)) = Len(rows) - 1
          /\ rows' = <<>> => e \/ Len(rows) = 1
        BY <1>1, <1>2, <1>7, RowsShrink
    <2>2. /\ e <=> burst[Direct].rows = MinimumRepeats - 1
          /\ burst[Direct].rows \in 0 .. MinimumRepeats
          /\ burst'[Direct].rows = IF burst[Direct].rows < MinimumRepeats
                                   THEN burst[Direct].rows + 1 ELSE MinimumRepeats
          /\ burst'[Direct].silence = 0
        BY <1>1, <1>2, <2>1, CompletingRowEmits
    <2>3. /\ sincePress = 0 /\ rang = 0 /\ RingAge >= RepeatWindow
          /\ burst[Direct].rows < MinimumRepeats
          /\ whole => burst[Direct].rows + Len(rows) >= MinimumRepeats
        BY <1>7 DEF ReceptionInv, DirectPart
    <2>4. Publishing <=> e
        BY <2>1, <2>3, TimesAreNatural DEF Publishing
    <2>5. rang' = IF e THEN 1 ELSE 0
        BY <1>6, <2>3, <2>4
    <2>6. BurstEnds' /\ WindowEnds' /\ WindowOpen'
        BY <1>1, <1>6, <2>2, <2>3, <2>4, <2>5, TimesAreNatural
        DEF BurstEnds, WindowEnds, WindowOpen
    <2>7. ~Considers(Relayed)'
        BY <2>1, TimesAreNatural, <1>2 DEF Considers, ExactInv, HeardInv, DecoderTypeOK
    <2>8. Considers(Direct)' => ~e
        BY <2>1 DEF Considers
    <2>9. DirectPart'
        <3> SUFFICES ASSUME Considers(Direct)' PROVE DirectPart'
            BY DEF DirectPart
        <3>1. rows' = Tail(rows) /\ ~e
            BY <2>1, <2>8
        <3>2. burst'[Direct].rows = burst[Direct].rows + 1 /\ burst'[Direct].rows < MinimumRepeats
            BY <2>2, <2>3, <3>1, TimesAreNatural
        <3>3. whole' => burst'[Direct].rows + Len(rows') >= MinimumRepeats
            <4>1. burst[Direct].rows + Len(rows) = burst'[Direct].rows + Len(rows')
                <5>1. PICK n \in Nat : n = Len(rows)
                    BY <2>1
                <5>2. Len(rows') = n - 1
                    BY <2>1, <3>1, <5>1, Zenon
                <5>3. PICK k \in Nat : k = burst[Direct].rows
                    BY <2>2, TimesAreNatural
                <5>4. burst'[Direct].rows = k + 1
                    BY <3>2, <5>3
                <5>5. k + n = (k + 1) + (n - 1)
                    BY <5>1, <5>3
                <5>6. QED
                    BY <5>1, <5>2, <5>3, <5>4, <5>5, Zenon
            <4>2. QED
                BY <1>0, <2>3, <4>1, Zenon
        <3>4. sincePress' = 0 /\ rang' = 0 /\ RingAge' >= RepeatWindow
            BY <1>1, <1>6, <2>3, <2>4, <3>1
        <3>5. QED
            BY <3>2, <3>3, <3>4, Zenon DEF DirectPart
    <2>10. whole' /\ ~Considers(Direct)' => rang' = 1
        <3>1. ASSUME burst[Direct].rows + Len(rows) >= MinimumRepeats, Len(rows) = 1
              PROVE  e
            BY <2>2, <2>3, <3>1, TimesAreNatural
        <3>2. whole /\ rows' = <<>> => e
            BY <2>1, <2>3, <3>1, Zenon
        <3>3. e => rang' = 1
            BY <2>5, Zenon
        <3>4. QED
            BY <1>0, <2>1, <3>2, <3>3, Zenon
    <2>11. ReceptionTypeOK'
        BY <1>1, <1>5, <1>6, <2>5 DEF ReceptionTypeOK
    <2>12. QED
        BY <1>2, <2>1, <2>6, <2>7, <2>9, <2>10, <2>11 DEF ReceptionInv, RelayedPart
<1>8. CASE Considers(Relayed)
    <2>1. /\ Row = Relayed
          /\ rows' = <<>> \/ Considers(Relayed)'
          /\ result' = IF e THEN Relayed ELSE NoFrame
        BY <1>1, <1>2, <1>8, RowsShrink
    <2>2. burst'[Direct] = burst[Direct]
        BY <1>1, <1>2, <2>1, CompletingRowEmits, TimesAreNatural
    <2>3. ~Considers(Direct) /\ ~Considers(Direct)'
        BY <1>2, <1>8, <2>1, TimesAreNatural DEF Considers, ExactInv, HeardInv, DecoderTypeOK
    <2>4. sincePress <= RelayLast
        BY <1>8 DEF ReceptionInv, RelayedPart
    <2>5. Publishing => rang = 0
        <3>1. Publishing => RingAge >= RelayWindow
            BY <2>1, TimesAreNatural DEF Publishing
        <3>2. rang = 1 => RingAge <= sincePress
            BY <2>4, TimesAreNatural DEF ReceptionInv, WindowOpen, PressesSpaced
        <3>3. QED
            BY <1>5, <1>6, <2>4, <3>1, <3>2, TimesAreNatural, RingAges, WindowsAreNatural
    <2>6. rang' = IF Publishing THEN 1 ELSE rang
        BY <1>5, <1>6, <2>5
    <2>7. BurstEnds' /\ WindowEnds' /\ WindowOpen'
        BY <1>1, <1>5, <1>6, <2>2, <2>4, <2>6, TimesAreNatural
        DEF ReceptionInv, BurstEnds, WindowEnds, WindowOpen
    <2>8. whole' => rang' = 1
        BY <1>1, <2>3, <2>6 DEF ReceptionInv
    <2>9. ReceptionTypeOK'
        BY <1>1, <1>5, <1>6, <2>6 DEF ReceptionTypeOK
    <2>10. QED
        BY <1>1, <1>2, <2>1, <2>3, <2>4, <2>7, <2>8, <2>9 DEF ReceptionInv, DirectPart, RelayedPart
<1>9. QED
    BY <1>1, <1>7, <1>8 DEF ReceptionInv, ConsiderRow

\* At the start nothing has been heard, and the last press is long past.
LEMMA ReceptionInvInit ==
    ASSUME ReceptionInit
    PROVE  ReceptionInv
<1>1. ExactInv /\ rows = <<>> /\ burst[Direct].rows = 0
    BY ExactInit, TimesAreNatural DEF ReceptionInit, DecoderInit, Silent
<1>2. memory \in Memory /\ RingAge >= RepeatWindow
    <2>1. memory = [secret \in BOOLEAN |-> Horizon]
        BY Zenon DEF ReceptionInit, ResetMemory, Forgotten
    <2>2. FALSE \in BOOLEAN
        BY Zenon
    <2>3. RingAge = Horizon
        BY <2>1, <2>2, Zenon DEF RingAge
    <2>4. memory \in Memory
        BY <2>1, WindowsAreNatural DEF Memory
    <2>5. QED
        BY <2>3, <2>4, WindowsAreNatural
<1>3. sincePress = Long /\ ~relayDue /\ rang = 0 /\ ~whole
    BY DEF ReceptionInit
<1>4. ReceptionTypeOK
    <2>1. relayDue \in BOOLEAN /\ whole \in BOOLEAN
        BY Zenon DEF ReceptionInit
    <2>2. QED
        BY <1>2, <1>3, <2>1, TimesAreNatural DEF ReceptionTypeOK
<1>5. ~Considers(Direct) /\ ~Considers(Relayed)
    BY <1>1 DEF Considers
<1>6. QED
    BY <1>1, <1>2, <1>3, <1>4, <1>5
    DEF ReceptionInv, BurstEnds, WindowEnds, WindowOpen, DirectPart, RelayedPart

\* Every step keeps the invariant.
LEMMA ReceptionInvStep ==
    ASSUME EnoughCandidates, PressesSpaced, ReceptionInv, [ReceptionNext]_receptionVars
    PROVE  ReceptionInv'
<1>1. ASSUME NEW capture \in Captures, PressButton(capture) PROVE ReceptionInv'
    BY <1>1, PressKeepsInv
<1>2. ASSUME NEW capture \in Captures, HearRelayedCopy(capture) PROVE ReceptionInv'
    BY <1>2, RelayKeepsInv
<1>3. ASSUME DecodeRow PROVE ReceptionInv'
    BY <1>3, RowKeepsReception
<1>4. ASSUME PassTime PROVE ReceptionInv'
    BY <1>4, TimeKeepsInv
<1>5. ASSUME UNCHANGED receptionVars PROVE ReceptionInv'
    <2>1. UNCHANGED <<decoderVars, memory, sincePress, relayDue, rang, whole>>
        BY <1>5 DEF receptionVars
    <2>2. ExactInv'
        BY <2>1, ExactStep DEF ReceptionInv
    <2>3. rows' = rows /\ burst' = burst /\ RingAge' = RingAge
        BY <2>1 DEF decoderVars, RingAge
    <2>4. QED
        BY <2>1, <2>2, <2>3
        DEF ReceptionInv, ReceptionTypeOK, BurstEnds, WindowEnds, WindowOpen,
            DirectPart, RelayedPart, Considers
<1>6. QED
    BY <1>1, <1>2, <1>3, <1>4, <1>5 DEF ReceptionNext

\* A press that was heard whole rings once its rows are considered, and its
\* relayed copy does not ring again, wherever two candidates fit and presses
\* are further apart than a burst and than the window after the last copy:
\* decode() and should_publish() together neither hide a press nor double it.
THEOREM PressesAreHeardOnce ==
    ASSUME MaxCandidates >= 2, PressesSpaced
    PROVE  ReceptionSpec => []EveryPressRingsOnce
<1>1. EnoughCandidates
    BY TwoFramesFit
<1>2. ReceptionInit => ReceptionInv
    BY ReceptionInvInit
<1>3. ReceptionInv /\ [ReceptionNext]_receptionVars => ReceptionInv'
    BY <1>1, ReceptionInvStep
<1>4. ReceptionInv => EveryPressRingsOnce
    <2> SUFFICES ASSUME ReceptionInv PROVE EveryPressRingsOnce
        OBVIOUS
    <2>1. rang \in {0, 1}
        BY DEF ReceptionInv, ReceptionTypeOK
    <2>2. rows = <<>> => ~Considers(Direct)
        BY DEF Considers
    <2>3. whole /\ rows = <<>> => rang = 1
        BY <2>2, Zenon DEF ReceptionInv
    <2>4. rang < 2 /\ (rang = 1 => rang > 0)
        BY <2>1
    <2>5. QED
        BY <2>3, <2>4, Zenon DEF EveryPressRingsOnce
<1>5. QED
    BY <1>2, <1>3, <1>4, PTL DEF ReceptionSpec
=============================================================================
