----------------------------- MODULE Beam_proofs -----------------------------
(* Theorems about Beam, for any number of candidates, slots and re-measurements *)
(* and any set of scores: types; what accept_best accepts; whom it looks at, in *)
(* which order and at what charge; what the failure memory holds.               *)
EXTENDS Beam, FiniteSetTheorems, SequenceTheorems, TLAPS

-----------------------------------------------------------------------------
(* Nothing is ranked before accept_best, and a candidate that is measured or   *)
(* sanitized is one of the ranking.                                            *)
InRanking ==
    /\ step \in {"prescreen", "evaluate"} =>
          /\ scored = <<>> /\ idx = 1 /\ remeasured = {} /\ rebench_budget = 0
          /\ accepted = 0
    /\ step \in {"paired", "full", "sanitize"} => idx <= Len(scored)

(* No candidate is listed twice.                                               *)
Distinct(s) == \A p, q \in DOMAIN s : s[p] = s[q] => p = q

(* Only candidates with a score are ranked.                                    *)
AllScored == \A p \in DOMAIN scored : value[scored[p]] \in Scores

ListInv == TypeOK /\ InRanking /\ Distinct(candidates) /\ Distinct(scored) /\ AllScored

-----------------------------------------------------------------------------
(* A subset of the candidates is finite.                                       *)
LEMMA FinitelyMany ==
    ASSUME NEW S \in SUBSET Candidates
    PROVE  IsFiniteSet(S) /\ Cardinality(S) \in Nat
<1>1. IsFiniteSet(Candidates)
  BY BeamAssumption, FS_Interval DEF Candidates
<1> QED BY <1>1, FS_Subset, FS_CardinalityType

(* Scores are numbers, and so is the absence of one.                           *)
LEMMA ScoreNat ==
    ASSUME TypeOK, NEW c \in Candidates
    PROVE  value[c] \in Scores \cup {NoValue} /\ value[c] \in Nat
<1>1. value \in [Candidates -> Scores \cup {NoValue}]
  BY DEF TypeOK, ScoreTypes
<1>2. Scores \cup {NoValue} \subseteq Nat
  BY BeamAssumption DEF NoValue
<1> QED BY <1>1, <1>2

(* A listing is a sequence without repetitions.                                *)
LEMMA ListingSeq ==
    ASSUME NEW S \in SUBSET Candidates, NEW f \in Listings(S)
    PROVE  f \in Seq(Candidates) /\ Distinct(f)
<1>1. /\ f \in [1 .. Cardinality(S) -> S] /\ Cardinality(S) \in Nat
      /\ DOMAIN f = 1 .. Cardinality(S)
  BY FinitelyMany DEF Listings
<1>2. f \in Seq(S)
  BY <1>1, SeqDef
<1>3. f \in Seq(Candidates)
  BY <1>2, SeqMonotonic
<1>4. ASSUME NEW p \in DOMAIN f, NEW q \in DOMAIN f, f[p] = f[q], p # q PROVE FALSE
  <2>1. p \in Nat /\ q \in Nat
    BY <1>1
  <2> DEFINE c == f[p]
  <2>2. c \in Nat
    <3>1. c \in Candidates
      BY <1>1
    <3> QED BY <3>1, BeamAssumption DEF Candidates
  <2>3. p < q \/ q < p
    BY <2>1, <1>4
  <2>4. c < c
    BY <1>4, <2>3 DEF Listings, ComesBefore
  <2> QED BY <2>2, <2>4
<1> QED BY <1>3, <1>4 DEF Distinct

(* A ranking holds every candidate with a score, once.                         *)
LEMMA RankingSeq ==
    ASSUME TypeOK, Distinct(candidates), NEW r \in Rankings
    PROVE  /\ r \in Seq(Candidates) /\ Distinct(r)
           /\ \A c \in Listed : value[c] # NoValue => \E p \in DOMAIN r : r[p] = c
           /\ \A p \in DOMAIN r : value[r[p]] \in Scores
<1> DEFINE k == Cardinality(HasScore)
<1>1. PICK place \in Placings :
         /\ \A p, q \in DOMAIN place : p < q => Precedes(place[p], place[q])
         /\ r = [p \in DOMAIN place |-> candidates[place[p]]]
  BY DEF Rankings
<1>2. candidates \in [1 .. Len(candidates) -> Candidates] /\ Len(candidates) \in Nat
  BY LenProperties DEF TypeOK, BeamTypes
<1>3. HasScore \subseteq 1 .. Len(candidates)
  BY <1>2 DEF HasScore
<1>4. IsFiniteSet(HasScore) /\ k \in Nat
  <2>1. IsFiniteSet(1 .. Len(candidates))
    BY <1>2, FS_Interval
  <2> QED BY <1>3, <2>1, FS_Subset, FS_CardinalityType
<1>5. place \in [1 .. k -> HasScore]
  BY DEF Placings
<1>6. ASSUME NEW p \in 1 .. k, NEW q \in 1 .. k, place[p] = place[q] PROVE p = q
  <2>1. \A i \in HasScore : ~Precedes(i, i)
    <3> SUFFICES ASSUME NEW i \in HasScore PROVE ~Precedes(i, i)
      OBVIOUS
    <3>1. i \in Nat /\ candidates[i] \in Candidates
      BY <1>2, <1>3
    <3>2. value[candidates[i]] \in Nat
      BY <3>1, ScoreNat
    <3> QED BY <3>1, <3>2 DEF Precedes
  <2>2. place[p] \in HasScore
    BY <1>5
  <2> QED BY <1>1, <1>4, <1>5, <1>6, <2>1, <2>2
<1>7. r \in [1 .. k -> Candidates]
  BY <1>1, <1>2, <1>3, <1>5
<1>8. r \in Seq(Candidates)
  BY <1>4, <1>7, SeqDef
<1>9. Distinct(r)
  BY <1>1, <1>2, <1>3, <1>5, <1>6, <1>7 DEF Distinct
<1>10. \A i \in HasScore : \E p \in 1 .. k : place[p] = i
  <2>1. place \in Injection(1 .. k, HasScore)
    BY <1>5, <1>6 DEF Injection, IsInjective
  <2>2. IsFiniteSet(1 .. k) /\ Cardinality(1 .. k) = Cardinality(HasScore)
    BY <1>4, FS_Interval
  <2>3. place \in Surjection(1 .. k, HasScore)
    BY <1>4, <2>1, <2>2, FS_Injection
  <2> QED BY <2>3 DEF Surjection
<1>11. ASSUME NEW c \in Listed, value[c] # NoValue PROVE \E p \in DOMAIN r : r[p] = c
  <2>1. PICK i \in DOMAIN candidates : candidates[i] = c
    BY DEF Listed
  <2>2. i \in HasScore
    BY <1>11, <2>1 DEF HasScore
  <2> QED BY <1>1, <1>5, <1>10, <2>1, <2>2
<1>12. ASSUME NEW p \in DOMAIN r PROVE value[r[p]] \in Scores
  <2>1. r[p] \in Candidates /\ value[r[p]] # NoValue
    BY <1>1, <1>2, <1>3, <1>5, <1>12 DEF HasScore
  <2> QED BY <2>1, ScoreNat
<1> QED BY <1>8, <1>9, <1>11, <1>12

-----------------------------------------------------------------------------
(* The invariant holds at the start.                                           *)
LEMMA ListInit == ASSUME Init PROVE ListInv
<1>1. PoolTypes /\ BeamTypes
  BY EmptySeq DEF Init, PoolTypes, BeamTypes
<1>2. ScoreTypes
  BY DEF Init, ScoreTypes
<1>3. RankTypes
  <2>1. scored \in Seq(Candidates) /\ Len(scored) = 0 /\ idx = 1
    BY EmptySeq DEF Init
  <2>2. rebench_budget = 0 /\ remeasured = {} /\ incumbent \in Scores
    BY BeamAssumption DEF Init
  <2>3. reject_reasons \in [Candidates -> Reasons \cup {"none"}]
    BY DEF Init
  <2> QED BY <2>1, <2>2, <2>3 DEF RankTypes
<1>4. OutcomeTypes
  <2>1. best_value \in Scores /\ accepted = 0 /\ failure_memory = {}
    BY BeamAssumption DEF Init
  <2> QED BY <2>1 DEF OutcomeTypes
<1>5. InRanking /\ Distinct(candidates) /\ Distinct(scored) /\ AllScored
  BY DEF Init, InRanking, Distinct, AllScored
<1> QED BY <1>1, <1>2, <1>3, <1>4, <1>5 DEF Init, ListInv, TypeOK

(* The prescreen: its results are the first of the list.                       *)
LEMMA ListKeptByPrescreen ==
    ASSUME ListInv,
           \/ \E c \in Candidates : WorkerStarts(c) \/ WorkerEnds(c)
           \/ CollectPrescreen
    PROVE  ListInv'
<1> USE DEF ListInv
<1>1. /\ ScoreTypes' /\ RankTypes' /\ OutcomeTypes' /\ AllScored'
      /\ UNCHANGED <<config, crash, rankVars>>
  BY DEF AllScored, TypeOK, ScoreTypes, RankTypes, OutcomeTypes, WorkerStarts, WorkerEnds,
         CollectPrescreen, scoreVars, rankVars, outcomeVars
<1>2. ASSUME NEW c \in Candidates, WorkerStarts(c) PROVE ListInv'
  <2>1. PoolTypes' /\ BeamTypes'
    BY <1>2 DEF TypeOK, PoolTypes, BeamTypes, WorkerStarts, beamVars
  <2>2. InRanking' /\ Distinct(candidates)' /\ Distinct(scored)'
    BY <1>2 DEF WorkerStarts, InRanking, Distinct, beamVars, rankVars, outcomeVars
  <2> QED BY <1>1, <1>2, <2>1, <2>2 DEF TypeOK, WorkerStarts
<1>3. ASSUME NEW c \in Candidates, WorkerEnds(c) PROVE ListInv'
  <2>1. PoolTypes' /\ BeamTypes'
    BY <1>3, AppendProperties DEF TypeOK, PoolTypes, BeamTypes, WorkerEnds, beamVars
  <2>2. InRanking' /\ Distinct(candidates)' /\ Distinct(scored)'
    BY <1>3 DEF WorkerEnds, InRanking, Distinct, beamVars, rankVars, outcomeVars
  <2> QED BY <1>1, <1>3, <2>1, <2>2 DEF TypeOK, WorkerEnds
<1>4. ASSUME CollectPrescreen PROVE ListInv'
  <2>1. candidates' \in Seq(Candidates) /\ Distinct(candidates)'
    BY <1>4, ListingSeq DEF CollectPrescreen, Distinct
  <2>2. iteration_errors' \in Seq([of : Candidates, names : Nat])
    <3>1. /\ DOMAIN candidates' = 1 .. Len(candidates') /\ Len(candidates') \in Nat
          /\ \A i \in DOMAIN candidates' : candidates'[i] \in Candidates
      BY <2>1, LenProperties, ElementOfSeq
    <3>2. \A c \in Candidates : PrescreenError(c) \in [of : Candidates, names : Nat]
      BY DEF PrescreenError
    <3>3. iteration_errors' = [i \in 1 .. Len(candidates') |-> PrescreenError(candidates'[i])]
      BY <1>4, <3>1 DEF CollectPrescreen
    <3>4. iteration_errors' \in
             [1 .. Len(candidates') -> [of : Candidates, names : Nat]]
      BY <3>1, <3>2, <3>3
    <3> QED BY <3>1, <3>4, SeqDef
  <2>3. PoolTypes' /\ BeamTypes'
    BY <1>4, <2>1, <2>2, EmptySeq DEF TypeOK, PoolTypes, BeamTypes, CollectPrescreen
  <2>4. InRanking' /\ Distinct(scored)'
    BY <1>4 DEF CollectPrescreen, InRanking, Distinct, rankVars, outcomeVars
  <2> QED BY <1>1, <1>4, <2>1, <2>3, <2>4 DEF TypeOK, CollectPrescreen
<1> QED BY <1>2, <1>3, <1>4

(* The evaluation adds one candidate after another to the list.                *)
LEMMA ListKeptByEvaluation ==
    ASSUME ListInv,
           \/ \E c \in Candidates : CandidateScores(c) \/ CandidateRejected(c)
                                       \/ CandidateInvalid(c)
           \/ EvaluationRaises
    PROVE  ListInv'
<1> USE DEF ListInv
<1>1. /\ PoolTypes' /\ RankTypes' /\ OutcomeTypes' /\ InRanking' /\ Distinct(scored)'
      /\ UNCHANGED config /\ step = "evaluate" /\ step' \in {"evaluate", "raised"}
      /\ crash' \in {crash, "evaluation"} /\ scored' = <<>>
  BY DEF TypeOK, PoolTypes, RankTypes, OutcomeTypes, InRanking, Distinct, CandidateScores,
         CandidateRejected, CandidateInvalid, Evaluated, EvaluationRaises,
         poolVars, rankVars, outcomeVars
<1>0. AllScored'
  BY <1>1 DEF AllScored
<1>2. ASSUME NEW c \in Candidates, Evaluated(c)
      PROVE  candidates' \in Seq(Candidates) /\ Distinct(candidates)'
  <2>1. /\ candidates \in Seq(Candidates) /\ candidates' = Append(candidates, c)
        /\ \A p \in DOMAIN candidates : candidates[p] # c
    BY <1>2 DEF Evaluated, ToEvaluate, Listed, TypeOK, BeamTypes
  <2>2. /\ candidates' \in Seq(Candidates)
        /\ \A p \in DOMAIN candidates' :
              \/ p \in DOMAIN candidates /\ candidates'[p] = candidates[p]
              \/ p = Len(candidates) + 1 /\ candidates'[p] = c
    BY <2>1, AppendProperties, LenProperties
  <2> QED BY <2>1, <2>2 DEF Distinct
<1>3. ASSUME NEW c \in Candidates, CandidateScores(c) PROVE ListInv'
  <2>1. ScoreTypes'
    BY <1>3 DEF CandidateScores, TypeOK, ScoreTypes
  <2>2. BeamTypes' /\ Distinct(candidates)'
    BY <1>2, <1>3 DEF CandidateScores, TypeOK, BeamTypes
  <2> QED BY <1>0, <1>1, <2>1, <2>2 DEF TypeOK
<1>4. ASSUME NEW c \in Candidates, CandidateRejected(c) PROVE ListInv'
  <2>1. [of |-> c, names |-> c] \in [of : Candidates, names : Nat]
    BY BeamAssumption DEF Candidates
  <2>2. iteration_errors' \in Seq([of : Candidates, names : Nat])
    BY <1>4, <2>1, AppendProperties DEF CandidateRejected, TypeOK, BeamTypes
  <2>3. BeamTypes' /\ Distinct(candidates)' /\ ScoreTypes'
    BY <1>2, <1>4, <2>2 DEF CandidateRejected, TypeOK, BeamTypes, ScoreTypes, scoreVars
  <2> QED BY <1>0, <1>1, <2>3 DEF TypeOK
<1>5. ASSUME NEW c \in Candidates, CandidateInvalid(c) PROVE ListInv'
  <2>1. BeamTypes' /\ Distinct(candidates)' /\ ScoreTypes'
    BY <1>2, <1>5 DEF CandidateInvalid, TypeOK, BeamTypes, ScoreTypes, scoreVars
  <2> QED BY <1>0, <1>1, <2>1 DEF TypeOK
<1>6. ASSUME EvaluationRaises PROVE ListInv'
  <2>1. BeamTypes' /\ Distinct(candidates)' /\ ScoreTypes'
    BY <1>6 DEF EvaluationRaises, TypeOK, BeamTypes, Distinct, ScoreTypes, beamVars, scoreVars
  <2> QED BY <1>0, <1>1, <2>1 DEF TypeOK
<1> QED BY <1>3, <1>4, <1>5, <1>6

-----------------------------------------------------------------------------
(* accept_best, in three groups: what looks at the next candidate, what        *)
(* measures it, and what ends the search.                                      *)
Look == ScreenedOut \/ JudgedAtOnce \/ BudgetExhausted \/ EnterRemeasure

Measure == PairedMeasured \/ PairedUnavailable \/ FullMeasured \/ FullRejected \/ FullRaises

Conclude == SanitizerRejects \/ Accept \/ AcceptRaises \/ RankingExhausted

AtCandidate == idx <= Len(scored)

(* The candidate at hand is a candidate.                                       *)
LEMMA CandidateListed ==
    ASSUME RankTypes, AtCandidate
    PROVE  /\ idx \in DOMAIN scored /\ Candidate \in Candidates
           /\ idx \in Nat /\ Len(scored) \in Nat
<1>1. DOMAIN scored = 1 .. Len(scored) /\ Len(scored) \in Nat
  BY LenProperties DEF RankTypes
<1>2. idx \in 1 .. Len(scored)
  BY <1>1 DEF RankTypes, AtCandidate
<1> QED BY <1>1, <1>2, ElementOfSeq DEF RankTypes, Candidate

(* A candidate is rejected and the next one is due.                            *)
LEMMA RejectedTypes ==
    ASSUME RankTypes, AtCandidate, NEW reason \in Reasons, Rejected(reason),
           UNCHANGED <<config, scored, rebench_budget, remeasured>>, incumbent' \in Scores
    PROVE  RankTypes'
<1>1. idx' \in 1 .. Len(scored') + 1
  BY CandidateListed DEF Rejected
<1>2. reject_reasons' \in [Candidates -> Reasons \cup {"none"}]
  BY DEF Rejected, RankTypes
<1> QED BY <1>1, <1>2 DEF RankTypes

(* A verdict rejects the candidate or sends it to the sanitizer.               *)
LEMMA JudgedTypes ==
    ASSUME RankTypes, AtCandidate, NEW v, NEW w \in Scores, Judged(v, w),
           UNCHANGED <<config, scored, rebench_budget, remeasured>>
    PROVE  /\ RankTypes' /\ step' \in {"choose", "sanitize"}
           /\ step' = "sanitize" => UNCHANGED idx
<1>1. PICK improved \in Assess(v, w) :
         IF improved
           THEN step' = "sanitize" /\ UNCHANGED <<idx, reject_reasons>>
           ELSE Rejected("no improvement")
  BY DEF Judged
<1>2. incumbent' \in Scores
  BY DEF Judged
<1>3. CASE improved
  BY <1>1, <1>2, <1>3 DEF RankTypes
<1>4. CASE ~improved
  BY <1>1, <1>2, <1>4, RejectedTypes DEF Rejected, Reasons
<1> QED BY <1>3, <1>4

(* The ranking is fixed when accept_best begins.                               *)
LEMMA ListKeptByBegin == ASSUME ListInv, BeginAccept PROVE ListInv'
<1> USE DEF ListInv
<1>1. PoolTypes' /\ BeamTypes' /\ ScoreTypes' /\ OutcomeTypes' /\ Distinct(candidates)'
  BY DEF BeginAccept, TypeOK, PoolTypes, BeamTypes, ScoreTypes, OutcomeTypes, Distinct,
         poolVars, beamVars, scoreVars, outcomeVars
<1>2. scored' \in Seq(Candidates) /\ Distinct(scored)' /\ AllScored'
  BY RankingSeq DEF BeginAccept, Distinct, AllScored, scoreVars
<1>3. idx' = 1 /\ Len(scored') \in Nat
  BY <1>2, LenProperties DEF BeginAccept, InRanking
<1>4. rebench_budget' \in Nat
  BY BeamAssumption DEF BeginAccept, TypeOK, Config
<1>5. RankTypes'
  BY <1>2, <1>3, <1>4 DEF BeginAccept, TypeOK, RankTypes
<1>6. InRanking'
  BY DEF BeginAccept, InRanking
<1> QED BY <1>1, <1>2, <1>5, <1>6 DEF BeginAccept, TypeOK

(* Looking at a candidate leaves the list and the scores alone.                *)
LEMMA ListKeptByLook == ASSUME ListInv, Look PROVE ListInv'
<1> USE DEF ListInv
<1>1. /\ PoolTypes' /\ BeamTypes' /\ ScoreTypes' /\ OutcomeTypes' /\ Distinct(candidates)'
      /\ Distinct(scored)' /\ AllScored' /\ UNCHANGED <<config, scored, crash>>
  BY DEF AllScored, Look, ScreenedOut, JudgedAtOnce, BudgetExhausted, EnterRemeasure, rankVars,
         TypeOK, PoolTypes, BeamTypes, ScoreTypes, OutcomeTypes, Distinct,
         poolVars, beamVars, scoreVars, outcomeVars
<1>2. step = "choose" /\ AtCandidate /\ RankTypes
  BY DEF Look, ScreenedOut, JudgedAtOnce, BudgetExhausted, EnterRemeasure, NeedsBudget,
         Choosing, AtCandidate, TypeOK
<1>3. CASE ScreenedOut
  <2>1. RankTypes' /\ step' = "choose"
    BY <1>1, <1>2, <1>3, RejectedTypes DEF ScreenedOut, Reasons, Rejected, RankTypes
  <2> QED BY <1>1, <2>1 DEF TypeOK, InRanking
<1>4. CASE JudgedAtOnce
  <2>1. best_value \in Scores
    BY DEF TypeOK, OutcomeTypes
  <2>2. UNCHANGED <<config, scored, rebench_budget, remeasured>>
    BY <1>4 DEF JudgedAtOnce
  <2>3. /\ RankTypes' /\ step' \in {"choose", "sanitize"}
        /\ step' = "sanitize" => UNCHANGED idx
    BY <1>2, <1>4, <2>1, <2>2, JudgedTypes DEF JudgedAtOnce
  <2>4. InRanking'
    BY <1>1, <1>2, <2>3 DEF InRanking, AtCandidate
  <2> QED BY <1>1, <2>3, <2>4 DEF TypeOK
<1>5. CASE BudgetExhausted
  BY <1>1, <1>2, <1>5 DEF BudgetExhausted, TypeOK, RankTypes, InRanking, rankVars
<1>6. CASE EnterRemeasure
  <2>1. Candidate \in Candidates /\ config.top_k \in Nat
    BY <1>2, CandidateListed, BeamAssumption DEF TypeOK, Config
  <2>2. RankTypes'
    BY <1>1, <1>2, <1>6, <2>1 DEF EnterRemeasure, RankTypes
  <2>3. InRanking' /\ step' \in {"paired", "full"}
    BY <1>1, <1>2, <1>6 DEF EnterRemeasure, InRanking, AtCandidate
  <2> QED BY <1>1, <2>2, <2>3 DEF TypeOK
<1> QED BY <1>3, <1>4, <1>5, <1>6 DEF Look

(* A measurement replaces the score of the candidate at hand.                  *)
LEMMA ListKeptByMeasure == ASSUME ListInv, Measure PROVE ListInv'
<1> USE DEF ListInv
<1>1. /\ PoolTypes' /\ BeamTypes' /\ OutcomeTypes' /\ Distinct(candidates)'
      /\ Distinct(scored)' /\ UNCHANGED <<config, scored, rebench_budget, remeasured>>
  BY DEF Measure, PairedMeasured, PairedUnavailable, FullMeasured, FullRejected, FullRaises,
         rankVars, Rejected, TypeOK, PoolTypes, BeamTypes, OutcomeTypes, Distinct,
         poolVars, beamVars, outcomeVars
<1>2. /\ step \in {"paired", "full"} /\ AtCandidate /\ RankTypes
      /\ Candidate \in Candidates /\ best_value \in Scores
  <2>1. step \in {"paired", "full"} /\ RankTypes /\ best_value \in Scores
    BY DEF Measure, PairedMeasured, PairedUnavailable, FullMeasured, FullRejected,
           FullRaises, TypeOK, OutcomeTypes
  <2>2. AtCandidate
    BY <2>1 DEF InRanking, AtCandidate
  <2> QED BY <2>1, <2>2, CandidateListed
<1>3. crash' \in {crash, "benchmark"}
  BY DEF Measure, PairedMeasured, PairedUnavailable, FullMeasured, FullRejected, FullRaises
<1>4. ScoreTypes'
  BY <1>2 DEF Measure, PairedMeasured, PairedUnavailable, FullMeasured, FullRejected,
              FullRaises, scoreVars, TypeOK, ScoreTypes
<1>7. AllScored'
  <2>1. /\ value \in [Candidates -> Scores \cup {NoValue}]
        /\ \A p \in DOMAIN scored : scored[p] \in Candidates
    BY <1>2, LenProperties, ElementOfSeq DEF TypeOK, ScoreTypes, RankTypes
  <2>2. UNCHANGED value \/ \E v \in Scores : value' = [value EXCEPT ![Candidate] = v]
    BY DEF Measure, PairedMeasured, PairedUnavailable, FullMeasured, FullRejected,
           FullRaises, scoreVars
  <2> QED BY <1>1, <1>2, <2>1, <2>2 DEF AllScored
<1>5. /\ RankTypes' /\ step' \in {"choose", "sanitize", "full", "raised"}
      /\ step' \in {"sanitize", "full"} => UNCHANGED idx
  <2>1. CASE PairedMeasured \/ FullMeasured
    <3>1. PICK v \in Scores, w \in Scores : Judged(v, w)
      BY <1>2, <2>1 DEF PairedMeasured, FullMeasured
    <3> QED BY <1>1, <1>2, <3>1, JudgedTypes
  <2>2. CASE FullRejected
    <3>1. incumbent' \in Scores
      BY <2>2, <1>2 DEF FullRejected, RankTypes
    <3> QED BY <1>1, <1>2, <2>2, <3>1, RejectedTypes DEF FullRejected, Reasons, Rejected
  <2>3. CASE PairedUnavailable \/ FullRaises
    BY <1>2, <2>3 DEF PairedUnavailable, FullRaises, rankVars, RankTypes
  <2> QED BY <2>1, <2>2, <2>3 DEF Measure
<1>6. InRanking'
  BY <1>1, <1>2, <1>5 DEF InRanking, AtCandidate
<1> QED BY <1>1, <1>3, <1>4, <1>5, <1>6, <1>7 DEF TypeOK

(* The last steps for a candidate, or for all of them.                         *)
LEMMA ListKeptByConclude == ASSUME ListInv, Conclude PROVE ListInv'
<1> USE DEF ListInv
<1>1. /\ PoolTypes' /\ BeamTypes' /\ ScoreTypes' /\ Distinct(candidates)'
      /\ Distinct(scored)' /\ UNCHANGED <<config, scored, rebench_budget, remeasured>>
      /\ crash' \in {crash, "accept"} /\ AllScored'
  BY DEF AllScored, Conclude, SanitizerRejects, Accept, AcceptRaises, RankingExhausted, rankVars,
         TypeOK, PoolTypes, BeamTypes, ScoreTypes, Distinct, poolVars, beamVars, scoreVars
<1>2. RankTypes /\ step \in {"sanitize", "choose"}
  BY DEF Conclude, SanitizerRejects, Accept, AcceptRaises, RankingExhausted, TypeOK
<1>3. CASE SanitizerRejects
  <2>1. AtCandidate /\ incumbent' \in Scores
    BY <1>2, <1>3 DEF SanitizerRejects, InRanking, AtCandidate, RankTypes
  <2>2. RankTypes' /\ step' = "choose" /\ OutcomeTypes'
    BY <1>1, <1>2, <1>3, <2>1, RejectedTypes
    DEF SanitizerRejects, Reasons, Rejected, TypeOK, OutcomeTypes, outcomeVars
  <2> QED BY <1>1, <2>2 DEF TypeOK, InRanking
<1>4. CASE Accept
  <2>1. AtCandidate
    BY <1>4 DEF Accept, InRanking, AtCandidate
  <2>2. Candidate \in Candidates
    BY <1>2, <2>1, CandidateListed
  <2>3. RankTypes' /\ step' = "decided"
    BY <1>2, <1>4 DEF Accept, RankTypes, rankVars
  <2>4. value[Candidate] \in Scores
    BY <1>2, <2>1, CandidateListed DEF AllScored, Candidate
  <2>5. OutcomeTypes'
    BY <1>4, <2>2, <2>4 DEF Accept, TypeOK, OutcomeTypes
  <2> QED BY <1>1, <2>3, <2>5 DEF TypeOK, InRanking
<1>5. CASE AcceptRaises \/ RankingExhausted
  <2>1. RankTypes' /\ OutcomeTypes' /\ step' \in {"raised", "decided"}
    BY <1>2, <1>5 DEF AcceptRaises, RankingExhausted, rankVars, outcomeVars, RankTypes,
                      TypeOK, OutcomeTypes
  <2> QED BY <1>1, <2>1 DEF TypeOK, InRanking
<1> QED BY <1>3, <1>4, <1>5 DEF Conclude

(* The failure memory pairs candidates with candidates.                        *)
LEMMA ListKeptBySettle == ASSUME ListInv, Settle PROVE ListInv'
<1> USE DEF ListInv
<1>1. /\ PoolTypes' /\ BeamTypes' /\ ScoreTypes' /\ RankTypes' /\ Distinct(candidates)'
      /\ Distinct(scored)' /\ AllScored' /\ UNCHANGED <<config, crash>> /\ step' = "settled"
  BY DEF Settle, TypeOK, PoolTypes, BeamTypes, ScoreTypes, RankTypes, Distinct, AllScored,
         poolVars, beamVars, scoreVars, rankVars
<1>2. Remembered \subseteq [strategy : Candidates, failure : Candidates]
  <2>1. /\ \A i \in DOMAIN candidates : candidates[i] \in Candidates
        /\ \A e \in DOMAIN iteration_errors :
              iteration_errors[e] \in [of : Candidates, names : Nat]
    BY LenProperties, ElementOfSeq DEF TypeOK, BeamTypes
  <2>2. ASSUME NEW i \in DOMAIN candidates
        PROVE  Memories(i) \subseteq [strategy : Candidates, failure : Candidates]
    BY <2>1 DEF Memories, FirstNaming, Naming
  <2> QED BY <2>2 DEF Remembered
<1>3. OutcomeTypes'
  BY <1>2 DEF Settle, TypeOK, OutcomeTypes
<1>4. InRanking'
  BY <1>1 DEF InRanking
<1> QED BY <1>1, <1>3, <1>4 DEF TypeOK

(* The invariant holds of every reachable state.                               *)
THEOREM ListInvariant == Spec => []ListInv
<1>1. Init => ListInv
  BY ListInit
<1>2. ListInv /\ [Next]_vars => ListInv'
  <2>1. CASE ListInv /\ UNCHANGED vars
    BY <2>1 DEF vars, poolVars, beamVars, scoreVars, rankVars, outcomeVars, ListInv, TypeOK,
           PoolTypes, BeamTypes, ScoreTypes, RankTypes, OutcomeTypes, InRanking, Distinct,
           AllScored
  <2> QED BY <2>1, ListKeptByPrescreen, ListKeptByEvaluation, ListKeptByBegin,
             ListKeptByLook, ListKeptByMeasure, ListKeptByConclude, ListKeptBySettle
          DEF Next, Look, Measure, Conclude, Ended
<1> QED BY <1>1, <1>2, PTL DEF Spec

(* Every variable keeps its type, however many candidates there are.           *)
THEOREM TypeCorrect == Spec => []TypeOK
<1>1. ListInv => TypeOK
  BY DEF ListInv
<1> QED BY <1>1, ListInvariant, PTL

-----------------------------------------------------------------------------
(* AcceptedOnEvidence speaks of the end.  On the way there every score knows   *)
(* what kind of measurement it is, pairs are only measured under a paired      *)
(* rule, and a candidate at the sanitizer has already won its comparison.      *)
ScoresKnown ==
    \A c \in Candidates : value[c] # NoValue =>
        /\ basis[c] # "none"
        /\ basis[c] = "screen" => use_fast
        /\ basis[c] = "paired" => Paired

PairedStep == step = "paired" => Paired

Winning ==
    step = "sanitize" =>
        /\ basis[Candidate] \in {"full", "paired"}
        /\ BeatsTolerance(value[Candidate], incumbent)
        /\ basis[Candidate] = "full" => incumbent = OnRecord

OnRecordOrAccepted ==
    /\ accepted = 0 => best_value = OnRecord
    /\ accepted # 0 => AcceptedOnEvidence /\ step \in {"decided", "settled"}

EvidenceInv == ListInv /\ ScoresKnown /\ PairedStep /\ Winning /\ OnRecordOrAccepted

-----------------------------------------------------------------------------
(* A rule says yes only to a score that beats the other by the tolerance.      *)
LEMMA YesBeatsTolerance ==
    ASSUME BeamAssumption, TypeOK, NEW v \in Nat, NEW w \in Nat, NEW improved \in Assess(v, w),
           improved
    PROVE  BeatsTolerance(v, w)
<1>1. config.rule \in Rules
  BY DEF TypeOK, Config, BeamAssumption
<1>2. improved \in {BeatsTolerance(v, w)} \cup {BeatsTolerance(v, w) /\ b : b \in BOOLEAN}
  BY <1>1 DEF Assess, ToleranceOnly, NonOverlappingCI, PairedDifference, Rules
<1> QED BY <1>2

(* A verdict: the winner goes on to the sanitizer, anybody else gets a reason. *)
LEMMA JudgedOutcome ==
    ASSUME TypeOK, NEW v \in Nat, NEW w \in Scores, Judged(v, w)
    PROVE  /\ incumbent' = w
           /\ \/ step' = "sanitize" /\ UNCHANGED <<idx, reject_reasons>> /\ BeatsTolerance(v, w)
              \/ Rejected("no improvement")
<1>1. PICK improved \in Assess(v, w) :
         IF improved
           THEN step' = "sanitize" /\ UNCHANGED <<idx, reject_reasons>>
           ELSE Rejected("no improvement")
  BY DEF Judged
<1>2. w \in Nat
  BY BeamAssumption
<1>3. CASE improved
  BY <1>1, <1>2, <1>3, YesBeatsTolerance, BeamAssumption DEF Judged
<1>4. CASE ~improved
  BY <1>1, <1>4 DEF Judged
<1> QED BY <1>3, <1>4

(* Before accept_best nobody is accepted; scores are of the first benchmark.   *)
LEMMA EvidenceKeptBefore ==
    ASSUME EvidenceInv, ListInv',
           \/ \E c \in Candidates : WorkerStarts(c) \/ WorkerEnds(c)
           \/ CollectPrescreen
           \/ \E c \in Candidates : CandidateScores(c) \/ CandidateRejected(c)
                                       \/ CandidateInvalid(c)
           \/ EvaluationRaises
           \/ BeginAccept
    PROVE  EvidenceInv'
<1> USE DEF EvidenceInv
<1>1. /\ step \in {"prescreen", "evaluate"} /\ step' \notin {"sanitize", "paired"}
      /\ UNCHANGED <<config, best_value, accepted>>
  BY DEF WorkerStarts, WorkerEnds, CollectPrescreen, CandidateScores, CandidateRejected,
         CandidateInvalid, Evaluated, EvaluationRaises, BeginAccept, outcomeVars
<1>2. ScoresKnown'
  <2>1. CASE UNCHANGED scoreVars
    BY <1>1, <2>1 DEF ScoresKnown, use_fast, Paired, scoreVars
  <2>2. ASSUME NEW c \in Candidates, CandidateScores(c) PROVE ScoresKnown'
    <3>1. basis'[c] \in {"screen", "full"} /\ (basis'[c] = "screen" => use_fast)
      BY <2>2 DEF CandidateScores, ListInv, TypeOK, ScoreTypes
    <3>2. \A d \in Candidates \ {c} : value'[d] = value[d] /\ basis'[d] = basis[d]
      BY <2>2 DEF CandidateScores, ListInv, TypeOK, ScoreTypes
    <3> QED BY <1>1, <3>1, <3>2 DEF ScoresKnown, use_fast, Paired
  <2> QED BY <2>1, <2>2 DEF WorkerStarts, WorkerEnds, CollectPrescreen, CandidateRejected,
                            CandidateInvalid, EvaluationRaises, BeginAccept
<1>3. accepted = 0
  BY <1>1 DEF ListInv, InRanking
<1> QED BY <1>1, <1>2, <1>3 DEF PairedStep, Winning, OnRecordOrAccepted

(* Looking at a candidate: the first benchmark decides only if it was full.    *)
LEMMA EvidenceKeptByLook == ASSUME EvidenceInv, ListInv', Look PROVE EvidenceInv'
<1> USE DEF EvidenceInv
<1>1. /\ step = "choose" /\ AtCandidate /\ UNCHANGED <<config, value, basis, scored>>
      /\ UNCHANGED <<best_value, accepted>>
  BY DEF Look, ScreenedOut, JudgedAtOnce, BudgetExhausted, EnterRemeasure, NeedsBudget,
         Choosing, AtCandidate, scoreVars, outcomeVars, rankVars
<1>2. ScoresKnown'
  BY <1>1 DEF ScoresKnown, use_fast, Paired
<1>3. accepted = 0 /\ best_value = OnRecord
  BY <1>1 DEF OnRecordOrAccepted
<1>4. Winning'
  <2>1. CASE ScreenedOut \/ BudgetExhausted \/ EnterRemeasure
    BY <2>1 DEF ScreenedOut, BudgetExhausted, EnterRemeasure, Rejected, Winning
  <2>2. CASE JudgedAtOnce
    <3>1. Candidate \in Candidates /\ best_value \in Scores
      BY <1>1, CandidateListed DEF ListInv, TypeOK, OutcomeTypes
    <3>2. value[Candidate] \in Nat /\ value[Candidate] # NoValue
      BY <1>1, <3>1, CandidateListed, BeamAssumption
      DEF ListInv, TypeOK, AllScored, Candidate, NoValue
    <3>3. basis[Candidate] = "full"
      <4>1. basis[Candidate] \in {"none", "screen", "full", "paired"}
        BY <3>1 DEF ListInv, TypeOK, ScoreTypes
      <4> QED BY <2>2, <3>1, <3>2, <4>1 DEF JudgedAtOnce, ScoresKnown, needs_remeasure
    <3>4. /\ incumbent' = best_value
          /\ \/ /\ step' = "sanitize" /\ UNCHANGED <<idx, reject_reasons>>
                /\ BeatsTolerance(value[Candidate], best_value)
             \/ Rejected("no improvement")
      BY <2>2, <3>1, <3>2, JudgedOutcome DEF JudgedAtOnce, ListInv
    <3> QED BY <1>1, <1>3, <3>3, <3>4 DEF Winning, Rejected, Candidate, BeatsTolerance
  <2> QED BY <2>1, <2>2 DEF Look
<1>5. PairedStep'
  BY <1>1 DEF Look, ScreenedOut, JudgedAtOnce, BudgetExhausted, EnterRemeasure, Judged,
              Rejected, PairedStep, Paired
<1> QED BY <1>1, <1>2, <1>3, <1>4, <1>5 DEF OnRecordOrAccepted

(* A measurement brings a new score with its basis, and its own incumbent.     *)
LEMMA EvidenceKeptByMeasure == ASSUME EvidenceInv, ListInv', Measure PROVE EvidenceInv'
<1> USE DEF EvidenceInv
<1>1. /\ step \in {"paired", "full"} /\ UNCHANGED <<config, scored>>
      /\ UNCHANGED <<best_value, accepted>>
  BY DEF Measure, PairedMeasured, PairedUnavailable, FullMeasured, FullRejected, FullRaises,
         outcomeVars, rankVars
<1>2. AtCandidate /\ Candidate \in Candidates /\ best_value \in Scores
  BY <1>1, CandidateListed DEF ListInv, TypeOK, InRanking, AtCandidate, OutcomeTypes
<1>3. accepted = 0 /\ best_value = OnRecord
  BY <1>1 DEF OnRecordOrAccepted
<1>4. CASE PairedUnavailable \/ FullRejected \/ FullRaises
  <2>1. UNCHANGED scoreVars /\ step' \notin {"sanitize", "paired"}
    BY <1>4 DEF PairedUnavailable, FullRejected, FullRaises, Rejected
  <2> QED BY <1>1, <1>3, <2>1 DEF scoreVars, ScoresKnown, PairedStep, Winning,
                                  OnRecordOrAccepted, use_fast, Paired
<1>5. ASSUME NEW v \in Scores, NEW w \in Scores, NEW b \in {"full", "paired"},
             value' = [value EXCEPT ![Candidate] = v],
             basis' = [basis EXCEPT ![Candidate] = b],
             Judged(v, w), b = "full" => w = OnRecord, b = "paired" => Paired
      PROVE  EvidenceInv'
  <2>1. /\ value'[Candidate] = v /\ basis'[Candidate] = b
        /\ \A c \in Candidates \ {Candidate} : value'[c] = value[c] /\ basis'[c] = basis[c]
    BY <1>2, <1>5 DEF ListInv, TypeOK, ScoreTypes
  <2>2. ScoresKnown'
    BY <1>1, <1>5, <2>1 DEF ScoresKnown, use_fast, Paired
  <2>3. v \in Nat
    BY BeamAssumption
  <2>4. /\ incumbent' = w
        /\ \/ /\ step' = "sanitize" /\ UNCHANGED <<idx, reject_reasons>>
              /\ BeatsTolerance(v, w)
           \/ Rejected("no improvement")
    BY <1>5, <2>3, JudgedOutcome DEF ListInv
  <2>5. Winning' /\ PairedStep'
    BY <1>1, <1>5, <2>1, <2>4 DEF PairedStep, Winning, Rejected, Candidate, BeatsTolerance
  <2> QED BY <1>1, <1>3, <2>2, <2>5 DEF OnRecordOrAccepted
<1>6. CASE PairedMeasured
  <2>1. Paired
    BY <1>6 DEF PairedMeasured, PairedStep
  <2> QED BY <1>5, <1>6, <2>1 DEF PairedMeasured
<1>7. CASE FullMeasured
  BY <1>2, <1>3, <1>5, <1>7 DEF FullMeasured
<1> QED BY <1>4, <1>6, <1>7 DEF Measure

(* The winner's score becomes the one on record.                               *)
LEMMA EvidenceKeptByEnd ==
    ASSUME EvidenceInv, ListInv', Conclude \/ Settle
    PROVE  EvidenceInv'
<1> USE DEF EvidenceInv
<1>1. UNCHANGED <<config, value, basis, scored>>
  BY DEF Conclude, SanitizerRejects, Accept, AcceptRaises, RankingExhausted, Settle,
         scoreVars, rankVars
<1>2. ScoresKnown' /\ PairedStep' /\ Winning'
  <2>1. step' \notin {"sanitize", "paired"}
    BY DEF Conclude, SanitizerRejects, Accept, AcceptRaises, RankingExhausted, Settle, Rejected
  <2> QED BY <1>1, <2>1 DEF ScoresKnown, PairedStep, use_fast, Paired, Winning
<1>3. CASE SanitizerRejects \/ AcceptRaises \/ RankingExhausted \/ Settle
  <2>1. /\ UNCHANGED <<best_value, accepted>>
        /\ \/ step \in {"sanitize", "choose"}
           \/ step = "decided" /\ step' = "settled" /\ UNCHANGED incumbent
    BY <1>3 DEF SanitizerRejects, AcceptRaises, RankingExhausted, Settle, outcomeVars, rankVars
  <2>2. \/ accepted = 0
        \/ step = "decided" /\ step' = "settled" /\ UNCHANGED incumbent
    BY <2>1 DEF OnRecordOrAccepted
  <2> QED BY <1>1, <1>2, <2>1, <2>2 DEF OnRecordOrAccepted, AcceptedOnEvidence, Paired,
                                        BeatsTolerance
<1>4. CASE Accept
  <2>1. /\ step = "sanitize" /\ accepted' = Candidate /\ best_value' = value[Candidate]
        /\ step' = "decided" /\ UNCHANGED incumbent
    BY <1>4 DEF Accept, rankVars
  <2>2. /\ Candidate \in Candidates /\ value[Candidate] # NoValue
    <3>1. AtCandidate
      BY <2>1 DEF ListInv, InRanking, AtCandidate
    <3>2. Candidate \in Candidates /\ idx \in DOMAIN scored
      BY <3>1, CandidateListed DEF ListInv, TypeOK
    <3> QED BY <3>2, BeamAssumption DEF ListInv, AllScored, Candidate, NoValue
  <2>3. AcceptedOnEvidence'
    BY <1>1, <2>1, <2>2 DEF AcceptedOnEvidence, Winning, ScoresKnown, Paired, BeatsTolerance
  <2>4. accepted' # 0
    BY <2>1, <2>2 DEF Candidates
  <2> QED BY <1>2, <2>1, <2>3, <2>4 DEF OnRecordOrAccepted
<1> QED BY <1>3, <1>4 DEF Conclude

(* The invariant holds of every reachable state.                               *)
THEOREM EvidenceInvariant == Spec => []EvidenceInv
<1>1. ASSUME Init PROVE EvidenceInv
  BY <1>1, ListInit DEF Init, EvidenceInv, ScoresKnown, PairedStep, Winning, OnRecordOrAccepted
<1>2. ASSUME EvidenceInv, ListInv', [Next]_vars PROVE EvidenceInv'
  <2>1. CASE UNCHANGED vars
    BY <1>2, <2>1 DEF vars, scoreVars, rankVars, outcomeVars, EvidenceInv, ScoresKnown,
           PairedStep, Winning, OnRecordOrAccepted, AcceptedOnEvidence, use_fast, Paired, Candidate,
           BeatsTolerance
  <2> QED BY <1>2, <2>1, EvidenceKeptBefore, EvidenceKeptByLook, EvidenceKeptByMeasure,
             EvidenceKeptByEnd
          DEF Next, Look, Measure, Conclude, Ended
<1> QED BY <1>1, <1>2, ListInvariant, PTL DEF Spec

(* However many candidates there are, whichever rule is set: who goes in was   *)
(* measured in full or in pairs, and this measurement won.                     *)
THEOREM AcceptsOnEvidence == Spec => []AcceptedOnEvidence
<1>1. EvidenceInv => AcceptedOnEvidence
  BY DEF EvidenceInv, OnRecordOrAccepted, AcceptedOnEvidence
<1> QED BY <1>1, EvidenceInvariant, PTL

(* Only an accept moves the score on record, and it does what AgentLoop has it *)
(* do in one step.                                                             *)
THEOREM OutcomesAllowed == Spec => OutcomeAllowed
<1>1. ASSUME EvidenceInv, EvidenceInv', Next, best_value' # best_value
      PROVE  /\ accepted = 0 /\ accepted' # 0
             /\ BeatsTolerance(best_value', best_value) \/ Paired
  <2>1. Accept
    BY <1>1 DEF Next, WorkerStarts, WorkerEnds, CollectPrescreen, CandidateScores,
       CandidateRejected, CandidateInvalid, Evaluated, EvaluationRaises, BeginAccept,
       ScreenedOut, JudgedAtOnce, BudgetExhausted, EnterRemeasure, PairedMeasured,
       PairedUnavailable, FullMeasured, FullRejected, FullRaises, SanitizerRejects,
       AcceptRaises, RankingExhausted, Settle, Ended, vars, outcomeVars
  <2>2. /\ accepted = 0 /\ best_value = OnRecord /\ Winning
        /\ accepted' = Candidate /\ best_value' = value[Candidate]
    BY <1>1, <2>1 DEF Accept, EvidenceInv, OnRecordOrAccepted
  <2>3. Candidate \in Candidates /\ value[Candidate] # NoValue
    <3>1. AtCandidate
      BY <1>1, <2>1 DEF Accept, EvidenceInv, ListInv, InRanking, AtCandidate
    <3>2. Candidate \in Candidates /\ idx \in DOMAIN scored
      BY <1>1, <3>1, CandidateListed DEF EvidenceInv, ListInv, TypeOK
    <3> QED BY <1>1, <3>2, BeamAssumption DEF EvidenceInv, ListInv, AllScored, Candidate, NoValue
  <2>4. accepted' # 0
    BY <2>2, <2>3 DEF Candidates
  <2>5. CASE basis[Candidate] = "full"
    BY <2>1, <2>2, <2>4, <2>5 DEF Accept, Winning
  <2>6. CASE basis[Candidate] = "paired"
    BY <1>1, <2>2, <2>3, <2>4, <2>6 DEF EvidenceInv, ScoresKnown
  <2> QED BY <2>1, <2>2, <2>5, <2>6 DEF Accept, Winning
<1>2. ASSUME EvidenceInv, EvidenceInv', [Next]_vars
      PROVE  [best_value' # best_value =>
                /\ accepted = 0 /\ accepted' # 0
                /\ BeatsTolerance(best_value', best_value) \/ Paired]_vars
  BY <1>1, <1>2
<1> QED BY <1>2, EvidenceInvariant, PTL DEF Spec, OutcomeAllowed

-----------------------------------------------------------------------------
(* Whoever is behind idx has a reason; the budget cannot be used up before the *)
(* first candidate was looked at.                                              *)
ReasonsBehind == \A p \in DOMAIN scored : p < idx => reject_reasons[scored[p]] \in Reasons

FreshBudget ==
    /\ step = "choose" /\ idx = 1 => rebench_budget = config.top_k
    /\ step = "decided" /\ accepted = 0 /\ scored # <<>> => idx > 1

(* What is charged to top_k are the candidates re-measured, each once.         *)
Charged ==
    /\ step \notin {"prescreen", "evaluate", "raised"} =>
          rebench_budget = config.top_k - Cardinality(remeasured)
    /\ config.top_k > 0 => Cardinality(remeasured) <= config.top_k
    /\ \A c \in remeasured : \E p \in DOMAIN scored :
          /\ scored[p] = c /\ p <= idx
          /\ step = "choose" => p < idx

(* Every candidate with a score is in the ranking.                             *)
Covered ==
    /\ step = "prescreen" => \A c \in Candidates : value[c] = NoValue
    /\ step = "evaluate" => \A c \in Candidates : value[c] # NoValue => c \in Listed
    /\ step \notin {"prescreen", "evaluate", "raised"} =>
          \A c \in Candidates : value[c] # NoValue => \E p \in DOMAIN scored : scored[p] = c

(* Until somebody is accepted, whoever is behind idx was measured again or did *)
(* not clear the screen, and who is being measured or sanitized is among the   *)
(* re-measured.                                                                *)
Examined ==
    needs_remeasure =>
        /\ step \in {"paired", "full", "sanitize"} => Candidate \in remeasured
        /\ accepted = 0 =>
              \A p \in DOMAIN scored : p < idx =>
                 scored[p] \in remeasured \/ ~Screen(scored[p])
        /\ (step \in {"decided", "settled"} /\ accepted = 0) =>
              \/ idx > Len(scored)
              \/ config.top_k > 0 /\ Cardinality(remeasured) = config.top_k

BudgetInv == ListInv /\ ReasonsBehind /\ FreshBudget /\ Charged /\ Covered /\ Examined

-----------------------------------------------------------------------------
(* Before accept_best there is no ranking.                                     *)
LEMMA BudgetKeptBefore ==
    ASSUME BudgetInv, ListInv',
           \/ \E c \in Candidates : WorkerStarts(c) \/ WorkerEnds(c)
           \/ CollectPrescreen
           \/ \E c \in Candidates : CandidateScores(c) \/ CandidateRejected(c)
                                       \/ CandidateInvalid(c)
           \/ EvaluationRaises
    PROVE  BudgetInv'
<1> USE DEF BudgetInv
<1>1. /\ step \in {"prescreen", "evaluate"} /\ step' \in {"prescreen", "evaluate", "raised"}
      /\ UNCHANGED <<config, rankVars, outcomeVars>>
  BY DEF WorkerStarts, WorkerEnds, CollectPrescreen, CandidateScores, CandidateRejected,
         CandidateInvalid, Evaluated, EvaluationRaises
<1>2. scored' = <<>> /\ remeasured' = {} /\ accepted' = 0 /\ idx' = 1
  BY <1>1 DEF ListInv, InRanking, rankVars, outcomeVars
<1>3. ReasonsBehind' /\ FreshBudget' /\ Examined'
  BY <1>1, <1>2 DEF ReasonsBehind, FreshBudget, Examined
<1>4. Charged'
  <2>1. Cardinality(remeasured') = 0 /\ config'.top_k \in Nat
    BY <1>1, <1>2, FS_EmptySet, BeamAssumption DEF ListInv, TypeOK, Config
  <2> QED BY <1>1, <1>2, <2>1 DEF Charged
<1>5. Covered'
  <2>1. CASE UNCHANGED <<value, candidates, step>>
    BY <1>1, <2>1 DEF Covered, Listed
  <2>2. CASE CollectPrescreen
    BY <2>2 DEF CollectPrescreen, Covered, scoreVars
  <2>3. ASSUME NEW c \in Candidates, Evaluated(c),
               \A d \in Candidates \ {c} : value'[d] = value[d]
        PROVE  Covered'
    <3>1. Listed' = Listed \cup {c}
      <4>1. /\ candidates \in Seq(Candidates) /\ candidates' = Append(candidates, c)
        BY <2>3 DEF Evaluated, ListInv, TypeOK, BeamTypes
      <4> QED BY <4>1, AppendProperties, LenProperties DEF Listed
    <3> QED BY <1>1, <2>3, <3>1 DEF Covered, Evaluated
  <2>4. ASSUME NEW c \in Candidates, CandidateScores(c) PROVE Covered'
    BY <2>3, <2>4 DEF CandidateScores, ListInv, TypeOK, ScoreTypes
  <2>5. ASSUME NEW c \in Candidates, CandidateRejected(c) \/ CandidateInvalid(c) PROVE Covered'
    BY <2>3, <2>5 DEF CandidateRejected, CandidateInvalid, scoreVars
  <2>6. ASSUME NEW c \in Candidates, WorkerStarts(c) \/ WorkerEnds(c) PROVE Covered'
    BY <2>1, <2>6 DEF WorkerStarts, WorkerEnds, scoreVars, beamVars
  <2>7. CASE EvaluationRaises
    BY <2>7 DEF EvaluationRaises, Covered
  <2> QED BY <2>2, <2>4, <2>5, <2>6, <2>7
<1> QED BY <1>3, <1>4, <1>5

(* The search begins with the whole ranking and the whole budget.              *)
LEMMA BudgetKeptByBegin == ASSUME BudgetInv, ListInv', BeginAccept PROVE BudgetInv'
<1> USE DEF BudgetInv
<1>1. /\ step = "evaluate" /\ step' = "choose" /\ idx' = 1 /\ remeasured' = {}
      /\ rebench_budget' = config.top_k /\ UNCHANGED <<config, candidates, value>>
  BY DEF BeginAccept, ListInv, InRanking, beamVars, scoreVars
<1>2. config.top_k \in Nat /\ Cardinality(remeasured') = 0
  BY <1>1, FS_EmptySet, BeamAssumption DEF ListInv, TypeOK, Config
<1>3. Charged' /\ FreshBudget'
  BY <1>1, <1>2 DEF Charged, FreshBudget
<1>4. \A p \in DOMAIN scored' : ~(p < idx')
  <2>1. scored' \in Seq(Candidates)
    BY DEF ListInv, TypeOK, RankTypes
  <2> QED BY <1>1, <2>1, LenProperties
<1>5. ReasonsBehind' /\ Examined'
  BY <1>1, <1>4 DEF ReasonsBehind, Examined
<1>6. Covered'
  BY <1>1, RankingSeq DEF BeginAccept, Covered, ListInv
<1> QED BY <1>3, <1>5, <1>6

-----------------------------------------------------------------------------
(* A rejection gives its candidate a reason and steps over it.                 *)
LEMMA SteppedOver ==
    ASSUME RankTypes, ReasonsBehind, AtCandidate, NEW reason \in Reasons, Rejected(reason),
           UNCHANGED scored
    PROVE  /\ ReasonsBehind' /\ step' = "choose" /\ idx' = idx + 1
           /\ idx \in Nat /\ idx >= 1
           /\ \A p \in DOMAIN scored : p < idx' => p < idx \/ p = idx
<1>1. /\ idx \in DOMAIN scored /\ Candidate \in Candidates /\ DOMAIN scored = 1 .. Len(scored)
      /\ Len(scored) \in Nat
  BY CandidateListed, LenProperties DEF RankTypes
<1>2. /\ reject_reasons'[Candidate] = reason
      /\ \A c \in Candidates \ {Candidate} : reject_reasons'[c] = reject_reasons[c]
  BY <1>1 DEF Rejected, RankTypes
<1>3. \A p \in DOMAIN scored : scored[p] \in Candidates
  BY LenProperties, ElementOfSeq DEF RankTypes
<1>4. idx' = idx + 1 /\ step' = "choose"
  BY DEF Rejected
<1>5. \A p \in DOMAIN scored : p < idx' => p < idx \/ p = idx
  BY <1>1, <1>4
<1>6. ReasonsBehind'
  BY <1>2, <1>3, <1>5 DEF ReasonsBehind, Candidate
<1> QED BY <1>1, <1>4, <1>5, <1>6

(* Stepping over a candidate who was measured again, or did not clear the      *)
(* screen, or in a run without re-measurements.                                *)
LEMMA BudgetKeptByRejection ==
    ASSUME BudgetInv, ListInv', AtCandidate, NEW reason \in Reasons, Rejected(reason),
           step \in {"choose", "paired", "full", "sanitize"},
           UNCHANGED <<config, scored, rebench_budget, remeasured, best_value, accepted>>,
           \A c \in Candidates : value'[c] # value[c] => c = Candidate,
           needs_remeasure =>
              \/ Candidate \in remeasured
              \/ ~Screen(Candidate) /\ UNCHANGED value
    PROVE  BudgetInv'
<1> USE DEF BudgetInv
<1>1. /\ ReasonsBehind' /\ step' = "choose" /\ idx' = idx + 1 /\ idx \in Nat /\ idx >= 1
      /\ \A p \in DOMAIN scored : p < idx' => p < idx \/ p = idx
  BY SteppedOver DEF ListInv, TypeOK
<1>2. FreshBudget'
  BY <1>1 DEF FreshBudget
<1>3. Charged'
  <2>1. \A p \in DOMAIN scored : p <= idx => p < idx'
    BY <1>1, LenProperties DEF ListInv, TypeOK, RankTypes
  <2>2. \A p \in DOMAIN scored : p < idx' => p <= idx'
    BY <1>1, LenProperties DEF ListInv, TypeOK, RankTypes
  <2> QED BY <1>1, <2>1, <2>2 DEF Charged
<1>4. Covered'
  <2>1. Candidate = scored[idx] /\ idx \in DOMAIN scored
    BY CandidateListed DEF Candidate, ListInv, TypeOK
  <2> QED BY <1>1, <2>1 DEF Covered
<1>5. Examined'
  <2>1. ASSUME needs_remeasure, accepted = 0, NEW p \in DOMAIN scored, p < idx'
        PROVE  scored[p] \in remeasured \/ ~Screen(scored[p])'
    <3>1. scored[p] \in Candidates
      BY LenProperties, ElementOfSeq DEF ListInv, TypeOK, RankTypes
    <3>2. CASE scored[p] = Candidate
      BY <2>1, <3>2 DEF Screen, BeatsTolerance
    <3>3. CASE scored[p] # Candidate
      <4>1. p < idx /\ value'[scored[p]] = value[scored[p]]
        BY <1>1, <2>1, <3>1, <3>3 DEF Candidate
      <4> QED BY <2>1, <4>1 DEF Examined, Screen, BeatsTolerance
    <3> QED BY <3>2, <3>3
  <2> QED BY <1>1, <2>1 DEF Examined, needs_remeasure, use_fast, Paired
<1> QED BY <1>1, <1>2, <1>3, <1>4, <1>5

-----------------------------------------------------------------------------
(* Looking at a candidate charges the budget exactly when it is re-measured.   *)
LEMMA BudgetKeptByLook == ASSUME BudgetInv, ListInv', Look PROVE BudgetInv'
<1> USE DEF BudgetInv
<1>1. /\ step = "choose" /\ AtCandidate /\ UNCHANGED <<config, value, scored>>
      /\ UNCHANGED <<best_value, accepted>>
  BY DEF Look, ScreenedOut, JudgedAtOnce, BudgetExhausted, EnterRemeasure, NeedsBudget,
         Choosing, AtCandidate, scoreVars, outcomeVars, rankVars
<1>2. /\ idx \in DOMAIN scored /\ Candidate \in Candidates /\ idx \in Nat
      /\ DOMAIN scored = 1 .. Len(scored) /\ Len(scored) \in Nat
      /\ Candidate = scored[idx]
  BY <1>1, CandidateListed, LenProperties DEF ListInv, TypeOK, RankTypes, Candidate
<1>3. Covered'
  BY <1>1, <1>2 DEF Covered, Look, ScreenedOut, JudgedAtOnce, BudgetExhausted,
                    EnterRemeasure, Rejected, Judged
<1>4. CASE ScreenedOut
  BY <1>1, <1>4, BudgetKeptByRejection DEF ScreenedOut, Reasons
<1>5. CASE JudgedAtOnce
  <2>1. PICK improved \in Assess(value[Candidate], best_value) :
           IF improved
             THEN step' = "sanitize" /\ UNCHANGED <<idx, reject_reasons>>
             ELSE Rejected("no improvement")
    BY <1>5 DEF JudgedAtOnce, Judged
  <2>2. ~needs_remeasure /\ UNCHANGED <<rebench_budget, remeasured>>
    BY <1>5 DEF JudgedAtOnce
  <2>3. CASE ~improved
    BY <1>1, <2>1, <2>2, <2>3, BudgetKeptByRejection DEF Reasons
  <2>4. CASE improved
    <3>1. step' = "sanitize" /\ UNCHANGED <<idx, reject_reasons>>
      BY <2>1, <2>4
    <3> QED BY <1>1, <1>3, <2>2, <3>1 DEF ReasonsBehind, FreshBudget, Charged, Examined,
                                          needs_remeasure, use_fast, Paired
  <2> QED BY <2>3, <2>4
<1>6. CASE BudgetExhausted
  <2>1. /\ step' = "decided" /\ config.top_k > 0 /\ rebench_budget <= 0
        /\ UNCHANGED <<rankVars, config>>
    BY <1>6 DEF BudgetExhausted
  <2>2. /\ config.top_k \in Nat /\ rebench_budget = 0 /\ Cardinality(remeasured) = config.top_k
    <3>1. config.top_k \in Nat /\ rebench_budget \in Int /\ rebench_budget >= 0
      BY <2>1, BeamAssumption DEF ListInv, TypeOK, Config, RankTypes
    <3>2. Cardinality(remeasured) \in Nat
      BY FinitelyMany DEF ListInv, TypeOK, RankTypes
    <3> QED BY <1>1, <2>1, <3>1, <3>2 DEF Charged
  <2>3. idx > 1
    BY <1>1, <1>2, <2>1, <2>2 DEF FreshBudget
  <2> QED BY <1>1, <1>3, <2>1, <2>2, <2>3
          DEF rankVars, ReasonsBehind, FreshBudget, Charged, Examined, Screen, BeatsTolerance,
              needs_remeasure, use_fast, Paired
<1>7. CASE EnterRemeasure
  <2>1. /\ step' \in {"paired", "full"} /\ rebench_budget' = rebench_budget - 1
        /\ remeasured' = remeasured \cup {Candidate} /\ UNCHANGED <<idx, reject_reasons>>
    BY <1>7 DEF EnterRemeasure
  <2>2. Candidate \notin remeasured
    BY <1>1, <1>2 DEF Charged, ListInv, Distinct
  <2>3. /\ Cardinality(remeasured') = Cardinality(remeasured) + 1
        /\ Cardinality(remeasured) \in Nat
    BY <2>1, <2>2, FinitelyMany, FS_AddElement DEF ListInv, TypeOK, RankTypes
  <2>4. config.top_k \in Nat
    BY BeamAssumption DEF ListInv, TypeOK, Config
  <2>5. rebench_budget' = config.top_k - Cardinality(remeasured')
    BY <1>1, <2>1, <2>3, <2>4 DEF Charged
  <2>6. config.top_k > 0 => Cardinality(remeasured') <= config.top_k
    BY <1>1, <2>3, <2>4, <2>5 DEF ListInv, TypeOK, RankTypes
  <2>7. Charged'
    BY <1>1, <1>2, <2>1, <2>5, <2>6 DEF Charged
  <2>8. ReasonsBehind' /\ FreshBudget'
    BY <1>1, <2>1 DEF ReasonsBehind, FreshBudget
  <2>9. Examined'
    BY <1>1, <2>1 DEF Examined, Candidate, Screen, BeatsTolerance, needs_remeasure, use_fast,
                      Paired
  <2> QED BY <1>3, <2>7, <2>8, <2>9
<1> QED BY <1>4, <1>5, <1>6, <1>7 DEF Look

(* A measurement changes the score of a candidate the budget was charged for.  *)
LEMMA BudgetKeptByMeasure == ASSUME BudgetInv, ListInv', Measure PROVE BudgetInv'
<1> USE DEF BudgetInv
<1>1. /\ step \in {"paired", "full"}
      /\ UNCHANGED <<config, scored, rebench_budget, remeasured, best_value, accepted>>
  BY DEF Measure, PairedMeasured, PairedUnavailable, FullMeasured, FullRejected, FullRaises,
         outcomeVars, rankVars
<1>2. /\ AtCandidate /\ idx \in DOMAIN scored /\ Candidate \in Candidates
      /\ Candidate = scored[idx]
  <2>1. AtCandidate
    BY <1>1 DEF ListInv, InRanking, AtCandidate
  <2> QED BY <2>1, CandidateListed DEF ListInv, TypeOK, Candidate
<1>3. needs_remeasure => Candidate \in remeasured
  BY <1>1 DEF Examined
<1>4. \A c \in Candidates : value'[c] # value[c] => c = Candidate
  BY <1>2 DEF Measure, PairedMeasured, PairedUnavailable, FullMeasured, FullRejected,
              FullRaises, scoreVars, ListInv, TypeOK, ScoreTypes
<1>5. ASSUME NEW reason \in Reasons, Rejected(reason) PROVE BudgetInv'
  BY <1>1, <1>2, <1>3, <1>4, <1>5, BudgetKeptByRejection
<1>6. ASSUME step' \in {"full", "sanitize", "raised"}, UNCHANGED <<idx, reject_reasons>>
      PROVE  BudgetInv'
  <2>1. ReasonsBehind' /\ FreshBudget' /\ Charged'
    BY <1>1, <1>6 DEF ReasonsBehind, FreshBudget, Charged
  <2>2. Covered'
    BY <1>1, <1>2, <1>4, <1>6 DEF Covered
  <2>3. Examined'
    <3>1. ASSUME needs_remeasure, accepted = 0, NEW p \in DOMAIN scored, p < idx
          PROVE  scored[p] \in remeasured \/ ~Screen(scored[p])'
      <4>1. scored[p] \in Candidates
        BY LenProperties, ElementOfSeq DEF ListInv, TypeOK, RankTypes
      <4> QED BY <1>1, <1>3, <1>4, <3>1, <4>1 DEF Examined, Screen, BeatsTolerance
    <3> QED BY <1>1, <1>3, <1>6, <3>1 DEF Examined, Candidate, needs_remeasure, use_fast, Paired
  <2> QED BY <2>1, <2>2, <2>3
<1>7. CASE PairedMeasured \/ FullMeasured
  <2>1. PICK v \in Scores, w \in Scores : Judged(v, w)
    BY <1>1, <1>7 DEF PairedMeasured, FullMeasured, ListInv, TypeOK, OutcomeTypes
  <2>2. \/ step' = "sanitize" /\ UNCHANGED <<idx, reject_reasons>>
        \/ Rejected("no improvement")
    BY <2>1 DEF Judged
  <2> QED BY <1>5, <1>6, <2>2 DEF Reasons
<1>8. CASE FullRejected
  BY <1>5, <1>8 DEF FullRejected, Reasons
<1>9. CASE PairedUnavailable \/ FullRaises
  BY <1>6, <1>9 DEF PairedUnavailable, FullRaises, rankVars
<1> QED BY <1>7, <1>8, <1>9 DEF Measure

(* The search ends with an accept, or with nobody left to look at.             *)
LEMMA BudgetKeptByEnd == ASSUME BudgetInv, ListInv', Conclude \/ Settle PROVE BudgetInv'
<1> USE DEF BudgetInv
<1>1. UNCHANGED <<config, value, scored, rebench_budget, remeasured>>
  BY DEF Conclude, SanitizerRejects, Accept, AcceptRaises, RankingExhausted, Settle,
         scoreVars, rankVars
<1>2. CASE SanitizerRejects
  <2>1. /\ step = "sanitize" /\ Rejected("not clean") /\ UNCHANGED <<best_value, accepted>>
    BY <1>2 DEF SanitizerRejects, outcomeVars
  <2>2. AtCandidate /\ (needs_remeasure => Candidate \in remeasured)
    BY <2>1 DEF ListInv, InRanking, AtCandidate, Examined
  <2> QED BY <1>1, <2>1, <2>2, BudgetKeptByRejection DEF Reasons
<1>3. ASSUME step \in {"sanitize", "choose", "decided"},
             step' \in {"decided", "settled", "raised"}, UNCHANGED rankVars,
             Examined', FreshBudget'
      PROVE  BudgetInv'
  BY <1>1, <1>3 DEF rankVars, ReasonsBehind, Charged, Covered
<1>4. CASE Accept
  <2>1. /\ step = "sanitize" /\ step' = "decided" /\ UNCHANGED rankVars
        /\ accepted' = Candidate
    BY <1>4 DEF Accept
  <2>2. Candidate \in Candidates
    BY <2>1, CandidateListed DEF ListInv, TypeOK, InRanking, AtCandidate
  <2>3. accepted' # 0
    BY <2>1, <2>2 DEF Candidates
  <2> QED BY <1>3, <2>1, <2>3 DEF Examined, FreshBudget
<1>5. CASE RankingExhausted
  <2>1. /\ step = "choose" /\ step' = "decided" /\ idx > Len(scored)
        /\ UNCHANGED <<rankVars, best_value, accepted>>
    BY <1>5 DEF RankingExhausted, outcomeVars
  <2>2. scored # <<>> => idx > 1
    <3>1. scored # <<>> => Len(scored) >= 1
      BY LenProperties, EmptySeq DEF ListInv, TypeOK, RankTypes
    <3>2. Len(scored) \in Nat /\ idx \in Int
      BY LenProperties DEF ListInv, TypeOK, RankTypes
    <3> QED BY <2>1, <3>1, <3>2
  <2>3. Examined' /\ FreshBudget'
    BY <1>1, <2>1, <2>2 DEF Examined, FreshBudget, rankVars, Screen, BeatsTolerance,
                            needs_remeasure, use_fast, Paired
  <2> QED BY <1>3, <2>1, <2>3
<1>6. CASE AcceptRaises \/ Settle
  <2>1. /\ UNCHANGED <<rankVars, best_value, accepted>>
        /\ \/ step = "sanitize" /\ step' = "raised"
           \/ step = "decided" /\ step' = "settled"
    BY <1>6 DEF AcceptRaises, Settle, outcomeVars
  <2>2. Examined' /\ FreshBudget'
    BY <1>1, <2>1 DEF Examined, FreshBudget, rankVars, Screen, BeatsTolerance,
                      needs_remeasure, use_fast, Paired
  <2> QED BY <1>3, <2>1, <2>2
<1> QED BY <1>2, <1>4, <1>5, <1>6 DEF Conclude

(* The invariant holds of every reachable state.                               *)
THEOREM BudgetInvariant == Spec => []BudgetInv
<1>1. ASSUME Init PROVE BudgetInv
  <2>1. /\ ListInv /\ DOMAIN scored = {} /\ config.top_k \in Nat
        /\ Cardinality(remeasured) = 0
    BY <1>1, ListInit, FS_EmptySet, BeamAssumption DEF Init, Config
  <2> QED BY <1>1, <2>1 DEF Init, BudgetInv, ReasonsBehind, FreshBudget, Charged, Covered,
                            Examined, NoValue
<1>2. ASSUME BudgetInv, ListInv', [Next]_vars PROVE BudgetInv'
  <2>1. CASE UNCHANGED vars
    BY <1>2, <2>1 DEF vars, beamVars, scoreVars, rankVars, outcomeVars, BudgetInv,
           ReasonsBehind, FreshBudget, Charged, Covered, Listed, Examined, needs_remeasure,
           use_fast, Paired, Candidate, Screen, BeatsTolerance
  <2> QED BY <1>2, <2>1, BudgetKeptBefore, BudgetKeptByBegin, BudgetKeptByLook,
             BudgetKeptByMeasure, BudgetKeptByEnd
          DEF Next, Look, Measure, Conclude, Ended
<1> QED BY <1>1, <1>2, ListInvariant, PTL DEF Spec

(* Whoever was looked at and not taken has a reason on file; in particular the *)
(* history entry of an idle iteration can name the top candidate's.            *)
RejectionsExplained ==
    /\ \A p \in DOMAIN scored : p < idx => reject_reasons[scored[p]] \in Reasons
    /\ step = "decided" /\ accepted = 0 /\ scored # <<>> => reject_reasons[scored[1]] \in Reasons

(* However many candidates there are: each way out of the accept loop's body   *)
(* leaves the reason the history entry is made of.                             *)
THEOREM ReasonsGiven == Spec => []RejectionsExplained
<1>1. ASSUME BudgetInv PROVE RejectionsExplained
  <2>1. scored # <<>> => 1 \in DOMAIN scored
    BY <1>1, LenProperties, EmptySeq DEF BudgetInv, ListInv, TypeOK, RankTypes
  <2> QED BY <1>1, <2>1 DEF BudgetInv, ReasonsBehind, FreshBudget, RejectionsExplained
<1> QED BY <1>1, BudgetInvariant, PTL

(* However many candidates there are and whatever top_k is: a candidate that   *)
(* cleared the screen goes unexamined only when top_k others were re-measured. *)
THEOREM NobodyMissed == Spec => []NoContenderMissed
<1>1. ASSUME BudgetInv PROVE NoContenderMissed
  <2>1. ASSUME step \in {"decided", "settled"}, accepted = 0, needs_remeasure,
               NEW c \in Candidates \ remeasured, value[c] # NoValue, Screen(c)
        PROVE  config.top_k > 0 /\ Cardinality(remeasured) = config.top_k
    <3>1. PICK p \in DOMAIN scored : scored[p] = c
      BY <1>1, <2>1 DEF BudgetInv, Covered
    <3>2. ~(p < idx)
      BY <1>1, <2>1, <3>1 DEF BudgetInv, Examined
    <3>3. ~(idx > Len(scored))
      BY <1>1, <3>1, <3>2, LenProperties DEF BudgetInv, ListInv, TypeOK, RankTypes
    <3> QED BY <1>1, <2>1, <3>3 DEF BudgetInv, Examined
  <2> QED BY <1>1, <2>1 DEF BudgetInv, Charged, NoContenderMissed
<1> QED BY <1>1, BudgetInvariant, PTL

-----------------------------------------------------------------------------
(* The ranking.  Survivors are listed by their numbers, whichever thread was   *)
(* faster, and only survivors have a score.                                    *)
SurvivorsInOrder ==
    /\ step = "prescreen" => candidates = <<>>
    /\ \A c \in Candidates : value[c] # NoValue => Passed(c)
    /\ \A i, j \in DOMAIN candidates :
          i < j /\ Passed(candidates[i]) /\ Passed(candidates[j]) => candidates[i] < candidates[j]
    /\ step = "evaluate" => \A d \in Listed : \A e \in ToEvaluate : Passed(d) => d < e

OrderInv == ListInv /\ SurvivorsInOrder /\ RankingIgnoresTiming

(* The prescreen lists failures only, so it does not matter when they came.    *)
LEMMA OrderKeptByPrescreen ==
    ASSUME OrderInv, ListInv',
           \/ \E c \in Candidates : WorkerStarts(c) \/ WorkerEnds(c)
           \/ CollectPrescreen
    PROVE  OrderInv'
<1> USE DEF OrderInv
<1>1. /\ step = "prescreen" /\ step' \in {"prescreen", "evaluate"} /\ UNCHANGED value
      /\ candidates = <<>>
  BY DEF WorkerStarts, WorkerEnds, CollectPrescreen, scoreVars, SurvivorsInOrder
<1>2. RankingIgnoresTiming'
  BY <1>1 DEF RankingIgnoresTiming
<1>3. ASSUME NEW c \in Candidates, WorkerStarts(c) \/ WorkerEnds(c) PROVE SurvivorsInOrder'
  <2>1. candidates' = <<>> /\ step' = "prescreen"
    BY <1>1, <1>3 DEF WorkerStarts, WorkerEnds, beamVars
  <2>2. \A d \in Candidates : Passed(d) => Passed(d)'
    BY <1>3 DEF WorkerStarts, WorkerEnds, Passed, ListInv, TypeOK, PoolTypes
  <2> QED BY <1>1, <2>1, <2>2 DEF SurvivorsInOrder
<1>4. CASE CollectPrescreen
  <2>1. UNCHANGED prescreened
    BY <1>4 DEF CollectPrescreen
  <2>2. \A i \in DOMAIN candidates' : ~Passed(candidates'[i])
    <3>1. candidates' \in Listings({c \in Candidates : Failed(c)})
      BY <1>4 DEF CollectPrescreen
    <3> QED BY <3>1 DEF Listings, Failed, Passed
  <2>3. \A c : Passed(c)' = Passed(c)
    BY <2>1 DEF Passed
  <2>4. step' = "evaluate"
    BY <1>4 DEF CollectPrescreen
  <2>5. \A d \in Listed' : ~Passed(d)'
    BY <2>2, <2>3 DEF Listed
  <2>6. SurvivorsInOrder'
    BY <1>1, <2>2, <2>3, <2>4, <2>5 DEF SurvivorsInOrder
  <2> QED BY <1>2, <2>6
<1> QED BY <1>2, <1>3, <1>4

(* The survivors are evaluated in order.                                       *)
LEMMA OrderKeptByEvaluation ==
    ASSUME OrderInv, ListInv',
           \/ \E c \in Candidates : CandidateScores(c) \/ CandidateRejected(c)
                                       \/ CandidateInvalid(c)
           \/ EvaluationRaises
    PROVE  OrderInv'
<1> USE DEF OrderInv
<1>1. /\ step = "evaluate" /\ step' \in {"evaluate", "raised"} /\ UNCHANGED prescreened
  BY DEF CandidateScores, CandidateRejected, CandidateInvalid, Evaluated, EvaluationRaises,
         poolVars
<1>2. RankingIgnoresTiming'
  BY <1>1 DEF RankingIgnoresTiming
<1>3. CASE EvaluationRaises
  BY <1>1, <1>2, <1>3 DEF EvaluationRaises, beamVars, scoreVars, SurvivorsInOrder, Passed
<1>4. ASSUME NEW c \in Candidates, Evaluated(c),
             \A d \in Candidates \ {c} : value'[d] = value[d]
      PROVE  SurvivorsInOrder'
  <2>1. /\ candidates \in Seq(Candidates) /\ candidates' = Append(candidates, c)
        /\ c \in ToEvaluate /\ Passed(c)
    BY <1>4 DEF Evaluated, ToEvaluate, ListInv, TypeOK, BeamTypes
  <2>2. /\ DOMAIN candidates = 1 .. Len(candidates) /\ Len(candidates) \in Nat
        /\ DOMAIN candidates' = 1 .. Len(candidates) + 1
        /\ candidates'[Len(candidates) + 1] = c
        /\ \A i \in DOMAIN candidates : candidates'[i] = candidates[i]
    BY <2>1, AppendProperties, LenProperties
  <2>3. Listed' = Listed \cup {c} /\ ToEvaluate' = ToEvaluate \ {c}
    BY <1>1, <2>2 DEF Listed, ToEvaluate, Passed
  <2>4. \A d \in Listed : Passed(d) => d < c
    BY <1>1, <2>1 DEF SurvivorsInOrder
  <2>5. \A e \in ToEvaluate \ {c} : c < e
    <3>1. \A e \in ToEvaluate : e \in Int /\ c \in Int
      BY BeamAssumption DEF ToEvaluate, Candidates
    <3> QED BY <1>4, <3>1 DEF Evaluated, ComesBefore
  <2>6. \A i, j \in DOMAIN candidates' :
           i < j /\ Passed(candidates'[i]) /\ Passed(candidates'[j])
              => candidates'[i] < candidates'[j]
    <3> SUFFICES ASSUME NEW i \in DOMAIN candidates', NEW j \in DOMAIN candidates', i < j,
                        Passed(candidates'[i]), Passed(candidates'[j])
                 PROVE  candidates'[i] < candidates'[j]
      OBVIOUS
    <3>1. i \in DOMAIN candidates
      BY <2>2
    <3>2. CASE j \in DOMAIN candidates
      BY <2>2, <3>1, <3>2 DEF SurvivorsInOrder
    <3>3. CASE j = Len(candidates) + 1
      BY <2>2, <2>4, <3>1, <3>3 DEF Listed
    <3> QED BY <2>2, <3>2, <3>3
  <2> QED BY <1>1, <1>4, <2>1, <2>3, <2>4, <2>5, <2>6 DEF SurvivorsInOrder, Passed
<1>5. ASSUME NEW c \in Candidates,
             CandidateScores(c) \/ CandidateRejected(c) \/ CandidateInvalid(c)
      PROVE  SurvivorsInOrder'
  BY <1>4, <1>5 DEF CandidateScores, CandidateRejected, CandidateInvalid, scoreVars,
                    ListInv, TypeOK, ScoreTypes
<1> QED BY <1>2, <1>3, <1>5

(* The sort keeps the order of the list among equal scores.                    *)
LEMMA OrderKeptByBegin == ASSUME OrderInv, ListInv', BeginAccept PROVE OrderInv'
<1> USE DEF OrderInv
<1>1. /\ step' = "choose" /\ UNCHANGED <<prescreened, candidates, value>>
      /\ scored' \in Rankings
  BY DEF BeginAccept, poolVars, beamVars, scoreVars
<1>2. SurvivorsInOrder'
  BY <1>1 DEF SurvivorsInOrder, Passed
<1>3. PICK place \in Placings :
         /\ \A p, q \in DOMAIN place : p < q => Precedes(place[p], place[q])
         /\ scored' = [p \in DOMAIN place |-> candidates[place[p]]]
  BY <1>1 DEF Rankings
<1>4. ASSUME NEW p \in DOMAIN place, NEW q \in DOMAIN place, p < q
      PROVE  LET c == candidates[place[p]] d == candidates[place[q]]
             IN  value[c] > value[d] \/ (value[c] = value[d] /\ c < d)
  <2>1. place[p] \in HasScore /\ place[q] \in HasScore
    BY DEF Placings
  <2>2. /\ place[p] \in DOMAIN candidates /\ Passed(candidates[place[p]])
        /\ place[q] \in DOMAIN candidates /\ Passed(candidates[place[q]])
    <3>1. \A i \in DOMAIN candidates : candidates[i] \in Candidates
      BY LenProperties, ElementOfSeq DEF ListInv, TypeOK, BeamTypes
    <3> QED BY <2>1, <3>1 DEF HasScore, SurvivorsInOrder
  <2>3. Precedes(place[p], place[q])
    BY <1>3, <1>4
  <2> QED BY <2>2, <2>3 DEF Precedes, SurvivorsInOrder
<1>5. RankingIgnoresTiming'
  BY <1>1, <1>3, <1>4 DEF RankingIgnoresTiming
<1> QED BY <1>2, <1>5

(* Once a candidate was looked at, the ranking says no more.                   *)
LEMMA OrderKeptByAccept ==
    ASSUME OrderInv, ListInv', Look \/ Measure \/ Conclude \/ Settle
    PROVE  OrderInv'
<1> USE DEF OrderInv
<1>1. UNCHANGED <<prescreened, candidates>>
  BY DEF Look, ScreenedOut, JudgedAtOnce, BudgetExhausted, EnterRemeasure, Measure,
         PairedMeasured, PairedUnavailable, FullMeasured, FullRejected, FullRaises,
         Conclude, SanitizerRejects, Accept, AcceptRaises, RankingExhausted, Settle,
         poolVars, beamVars
<1>2. /\ step \in {"choose", "paired", "full", "sanitize", "decided"}
      /\ step' \notin {"prescreen", "evaluate"}
      /\ step' = "choose" => idx' = idx + 1
  <2>1. ASSUME NEW v, NEW w, Judged(v, w)
        PROVE  \/ step' = "sanitize"
               \/ step' = "choose" /\ idx' = idx + 1
    BY <2>1 DEF Judged, Rejected
  <2>2. CASE ScreenedOut \/ BudgetExhausted \/ EnterRemeasure
    BY <2>2 DEF ScreenedOut, BudgetExhausted, EnterRemeasure, NeedsBudget, Choosing, Rejected
  <2>3. CASE JudgedAtOnce
    BY <2>1, <2>3 DEF JudgedAtOnce, Choosing
  <2>4. CASE PairedMeasured \/ FullMeasured
    BY <2>1, <2>4 DEF PairedMeasured, FullMeasured
  <2>5. CASE PairedUnavailable \/ FullRejected \/ FullRaises
    BY <2>5 DEF PairedUnavailable, FullRejected, FullRaises, Rejected
  <2>6. CASE Conclude \/ Settle
    BY <2>6 DEF Conclude, SanitizerRejects, Accept, AcceptRaises, RankingExhausted, Settle,
                Rejected
  <2> QED BY <2>2, <2>3, <2>4, <2>5, <2>6 DEF Look, Measure
<1>3. RankingIgnoresTiming'
  <2>1. idx \in Nat /\ idx >= 1
    BY LenProperties DEF ListInv, TypeOK, RankTypes
  <2> QED BY <1>2, <2>1 DEF RankingIgnoresTiming
<1>4. ASSUME NEW c \in Candidates, value'[c] # NoValue PROVE Passed(c)
  <2>1. CASE Measure
    <3>1. step \in {"paired", "full"}
      BY <2>1 DEF Measure, PairedMeasured, PairedUnavailable, FullMeasured, FullRejected,
                  FullRaises
    <3>2. /\ Candidate \in Candidates /\ idx \in DOMAIN scored
      BY <3>1, CandidateListed DEF ListInv, TypeOK, InRanking, AtCandidate
    <3>3. value[Candidate] # NoValue
      BY <3>2, BeamAssumption DEF ListInv, AllScored, Candidate, NoValue
    <3>4. UNCHANGED value \/ \E v \in Scores : value' = [value EXCEPT ![Candidate] = v]
      BY <2>1 DEF Measure, PairedMeasured, PairedUnavailable, FullMeasured, FullRejected,
                  FullRaises, scoreVars
    <3> QED BY <1>4, <3>2, <3>3, <3>4 DEF SurvivorsInOrder, ListInv, TypeOK, ScoreTypes
  <2>2. CASE Look \/ Conclude \/ Settle
    <3>1. UNCHANGED value
      BY <2>2 DEF Look, ScreenedOut, JudgedAtOnce, BudgetExhausted, EnterRemeasure, Conclude,
                  SanitizerRejects, Accept, AcceptRaises, RankingExhausted, Settle, scoreVars
    <3> QED BY <1>4, <3>1 DEF SurvivorsInOrder
  <2> QED BY <2>1, <2>2
<1>5. SurvivorsInOrder'
  BY <1>1, <1>2, <1>4 DEF SurvivorsInOrder, Passed
<1> QED BY <1>3, <1>5

(* The invariant holds of every reachable state.                               *)
THEOREM OrderInvariant == Spec => []OrderInv
<1>1. ASSUME Init PROVE OrderInv
  BY <1>1, ListInit DEF Init, OrderInv, SurvivorsInOrder, RankingIgnoresTiming, NoValue
<1>2. ASSUME OrderInv, ListInv', [Next]_vars PROVE OrderInv'
  <2>1. CASE UNCHANGED vars
    BY <1>2, <2>1 DEF vars, poolVars, beamVars, scoreVars, rankVars, OrderInv,
           SurvivorsInOrder, RankingIgnoresTiming, Passed, Listed, ToEvaluate
  <2> QED BY <1>2, <2>1, OrderKeptByPrescreen, OrderKeptByEvaluation, OrderKeptByBegin,
             OrderKeptByAccept
          DEF Next, Look, Measure, Conclude, Ended
<1> QED BY <1>1, <1>2, ListInvariant, PTL DEF Spec

(* However many threads there are and in whichever order they end: the ranking *)
(* goes by score and, among equals, by number.                                 *)
THEOREM RankingDeterministic == Spec => []RankingIgnoresTiming
<1>1. OrderInv => RankingIgnoresTiming
  BY DEF OrderInv
<1> QED BY <1>1, OrderInvariant, PTL

-----------------------------------------------------------------------------
(* The failure memory.  Without a failed prescreen a candidate's place in the  *)
(* list is its number, and each error names the candidate it is about, which   *)
(* has no score and no other error.                                            *)
AllPass == \A c \in Candidates : Passed(c)

PlacedByNumber == \A i \in DOMAIN candidates : candidates[i] = i

ErrorsNameTheirOwn ==
    /\ \A e \in DOMAIN iteration_errors :
          /\ iteration_errors[e].names = iteration_errors[e].of
          /\ iteration_errors[e].of \in Listed
          /\ value[iteration_errors[e].of] = NoValue
    /\ \A d, e \in DOMAIN iteration_errors :
          iteration_errors[d].of = iteration_errors[e].of => d = e

MemoryInv ==
    /\ BudgetInv
    /\ step # "prescreen" /\ AllPass => PlacedByNumber /\ ErrorsNameTheirOwn
    /\ MemoryRightIfAllPass

(* Every error is about a candidate.                                           *)
LEMMA ErrorsAboutCandidates ==
    ASSUME TypeOK
    PROVE  \A e \in DOMAIN iteration_errors : iteration_errors[e].of \in Candidates
<1> SUFFICES ASSUME NEW e \in DOMAIN iteration_errors PROVE iteration_errors[e].of \in Candidates
  OBVIOUS
<1>1. iteration_errors \in Seq([of : Candidates, names : Nat])
  BY DEF TypeOK, BeamTypes
<1>2. e \in 1 .. Len(iteration_errors)
  BY <1>1, LenProperties
<1>3. iteration_errors[e] \in [of : Candidates, names : Nat]
  BY <1>1, <1>2, ElementOfSeq
<1> QED BY <1>3

(* If every candidate passes, the evaluation begins with empty lists.          *)
LEMMA MemoryKeptByPrescreen ==
    ASSUME MemoryInv, BudgetInv',
           \/ \E c \in Candidates : WorkerStarts(c) \/ WorkerEnds(c)
           \/ CollectPrescreen
    PROVE  MemoryInv'
<1>1. CASE \E c \in Candidates : WorkerStarts(c) \/ WorkerEnds(c)
  BY <1>1 DEF WorkerStarts, WorkerEnds, MemoryInv, MemoryRightIfAllPass
<1>2. CASE CollectPrescreen
  <2>1. step' = "evaluate" /\ AllPass' = AllPass
    BY <1>2 DEF CollectPrescreen, AllPass, Passed
  <2>2. ASSUME AllPass PROVE PlacedByNumber' /\ ErrorsNameTheirOwn'
    <3>1. {c \in Candidates : Failed(c)} = {}
      BY <2>2 DEF AllPass, Passed, Failed
    <3>2. candidates' \in [1 .. 0 -> {}]
      BY <1>2, <3>1, FS_EmptySet DEF CollectPrescreen, Listings
    <3>3. DOMAIN candidates' = {}
      BY <3>2
    <3>4. DOMAIN iteration_errors' = {}
      BY <1>2, <3>3 DEF CollectPrescreen
    <3> QED BY <3>3, <3>4 DEF PlacedByNumber, ErrorsNameTheirOwn
  <2> QED BY <2>1, <2>2 DEF MemoryInv, MemoryRightIfAllPass
<1> QED BY <1>1, <1>2

(* The next survivor is the one with the next number, and a rejection names    *)
(* it for the first time.                                                      *)
LEMMA MemoryKeptByEvaluation ==
    ASSUME MemoryInv, BudgetInv',
           \E c \in Candidates : CandidateScores(c) \/ CandidateRejected(c) \/ CandidateInvalid(c)
    PROVE  MemoryInv'
<1>1. PICK c \in Candidates : CandidateScores(c) \/ CandidateRejected(c) \/ CandidateInvalid(c)
  OBVIOUS
<1>2. /\ step = "evaluate" /\ step' = "evaluate" /\ UNCHANGED prescreened
      /\ c \in ToEvaluate /\ \A d \in ToEvaluate : ~(d < c)
      /\ candidates' = Append(candidates, c)
  BY <1>1 DEF CandidateScores, CandidateRejected, CandidateInvalid, Evaluated, ComesBefore,
              poolVars
<1>3. /\ candidates \in Seq(Candidates)
      /\ iteration_errors \in Seq([of : Candidates, names : Nat])
      /\ value \in [Candidates -> Scores \cup {NoValue}]
  BY DEF MemoryInv, BudgetInv, ListInv, TypeOK, BeamTypes, ScoreTypes
<1>4. /\ DOMAIN candidates = 1 .. Len(candidates) /\ Len(candidates) \in Nat
      /\ DOMAIN candidates' = 1 .. Len(candidates) + 1
      /\ candidates'[Len(candidates) + 1] = c
      /\ \A i \in DOMAIN candidates : candidates'[i] = candidates[i]
  BY <1>2, <1>3, AppendProperties, LenProperties
<1>5. Listed' = Listed \cup {c} /\ c \notin Listed
  BY <1>2, <1>4 DEF Listed, ToEvaluate
<1>6. MemoryRightIfAllPass'
  BY <1>2 DEF MemoryRightIfAllPass
<1>7. ASSUME AllPass PROVE PlacedByNumber' /\ ErrorsNameTheirOwn'
  <2>1. PlacedByNumber /\ ErrorsNameTheirOwn
    BY <1>2, <1>7 DEF MemoryInv
  <2>2. Listed = 1 .. Len(candidates)
    BY <1>4, <2>1 DEF PlacedByNumber, Listed
  <2>3. ToEvaluate = Candidates \ Listed
    BY <1>7 DEF ToEvaluate, AllPass
  <2>4. c \in 1 .. N /\ N \in Nat /\ c \notin 1 .. Len(candidates)
    BY <1>5, <2>2, BeamAssumption DEF Candidates
  <2>5. c = Len(candidates) + 1
    <3>1. CASE Len(candidates) + 1 < c
      <4>1. Len(candidates) + 1 \in ToEvaluate
        BY <1>4, <2>2, <2>3, <2>4, <3>1 DEF Candidates
      <4> QED BY <1>2, <3>1, <4>1
    <3> QED BY <1>4, <2>4, <3>1
  <2>6. PlacedByNumber'
    BY <1>4, <2>1, <2>5 DEF PlacedByNumber
  <2>7. value[c] = NoValue
    BY <1>2, <1>5 DEF MemoryInv, BudgetInv, Covered
  <2>8. \A d \in Candidates \ {c} : value'[d] = value[d]
    BY <1>1, <1>3 DEF CandidateScores, CandidateRejected, CandidateInvalid, scoreVars
  <2>9. \A e \in DOMAIN iteration_errors : iteration_errors[e].of \in Candidates \ {c}
    BY <1>5, <2>1, ErrorsAboutCandidates DEF ErrorsNameTheirOwn, MemoryInv, BudgetInv, ListInv
  <2>10. CASE UNCHANGED iteration_errors
    BY <1>5, <2>1, <2>6, <2>8, <2>9, <2>10 DEF ErrorsNameTheirOwn
  <2>11. CASE CandidateRejected(c)
    <3> DEFINE new == [of |-> c, names |-> c]
               k == Len(iteration_errors)
    <3>1. iteration_errors' = Append(iteration_errors, new) /\ UNCHANGED value
      BY <2>11 DEF CandidateRejected, scoreVars
    <3>2. new \in [of : Candidates, names : Nat] /\ new.of = c /\ new.names = c
      BY BeamAssumption DEF Candidates
    <3> HIDE DEF new
    <3>3. /\ DOMAIN iteration_errors = 1 .. k /\ k \in Nat
          /\ DOMAIN iteration_errors' = 1 .. k + 1
          /\ iteration_errors'[k + 1] = new
          /\ \A e \in DOMAIN iteration_errors : iteration_errors'[e] = iteration_errors[e]
      BY <1>3, <3>1, <3>2, AppendProperties, LenProperties
    <3>4. \A e \in DOMAIN iteration_errors' :
            \/ e = k + 1 /\ iteration_errors'[e] = new
            \/ /\ e \in DOMAIN iteration_errors
               /\ iteration_errors'[e] = iteration_errors[e]
               /\ iteration_errors[e].of # c
      BY <2>9, <3>3
    <3>5. \A e \in DOMAIN iteration_errors' :
             /\ iteration_errors'[e].names = iteration_errors'[e].of
             /\ iteration_errors'[e].of \in Listed'
             /\ value'[iteration_errors'[e].of] = NoValue
      BY <1>5, <2>1, <2>7, <3>1, <3>2, <3>4 DEF ErrorsNameTheirOwn
    <3>6. \A d, e \in DOMAIN iteration_errors' :
             iteration_errors'[d].of = iteration_errors'[e].of => d = e
      BY <2>1, <3>2, <3>4 DEF ErrorsNameTheirOwn
    <3> QED BY <2>6, <3>5, <3>6 DEF ErrorsNameTheirOwn
  <2>12. UNCHANGED iteration_errors \/ CandidateRejected(c)
    BY <1>1 DEF CandidateScores, CandidateInvalid
  <2> QED BY <2>6, <2>10, <2>11, <2>12
<1>8. AllPass' = AllPass
  BY <1>2 DEF AllPass, Passed
<1> QED BY <1>6, <1>7, <1>8 DEF MemoryInv

(* accept_best gives no score to a candidate that has none, and leaves the     *)
(* lists alone.                                                                *)
LEMMA MemoryKeptByAccept ==
    ASSUME MemoryInv, BudgetInv',
           EvaluationRaises \/ BeginAccept \/ Look \/ Measure \/ Conclude
    PROVE  MemoryInv'
<1>1. /\ UNCHANGED <<prescreened, candidates, iteration_errors>>
      /\ step \notin {"prescreen", "settled"} /\ step' \notin {"prescreen", "settled"}
  <2>1. ASSUME NEW v, NEW w, Judged(v, w) PROVE step' \in {"sanitize", "choose"}
    BY <2>1 DEF Judged, Rejected
  <2>2. CASE EvaluationRaises \/ BeginAccept
    BY <2>2 DEF EvaluationRaises, BeginAccept, poolVars, beamVars
  <2>3. CASE ScreenedOut \/ BudgetExhausted \/ EnterRemeasure
    BY <2>3 DEF ScreenedOut, BudgetExhausted, EnterRemeasure, NeedsBudget, Choosing, Rejected,
                poolVars, beamVars
  <2>4. CASE JudgedAtOnce
    BY <2>1, <2>4 DEF JudgedAtOnce, Choosing, poolVars, beamVars
  <2>5. CASE PairedMeasured \/ FullMeasured
    BY <2>1, <2>5 DEF PairedMeasured, FullMeasured, poolVars, beamVars
  <2>6. CASE PairedUnavailable \/ FullRejected \/ FullRaises \/ Conclude
    BY <2>6 DEF PairedUnavailable, FullRejected, FullRaises, Conclude, SanitizerRejects, Accept,
                AcceptRaises, RankingExhausted, Rejected, poolVars, beamVars
  <2> QED BY <2>2, <2>3, <2>4, <2>5, <2>6 DEF Look, Measure
<1>2. ASSUME NEW c \in Candidates, value[c] = NoValue PROVE value'[c] = NoValue
  <2>1. CASE Measure
    <3>1. step \in {"paired", "full"}
      BY <2>1 DEF Measure, PairedMeasured, PairedUnavailable, FullMeasured, FullRejected,
                  FullRaises
    <3>2. ListInv
      BY DEF MemoryInv, BudgetInv
    <3>3. Candidate \in Candidates /\ idx \in DOMAIN scored
      BY <3>1, <3>2, CandidateListed DEF ListInv, TypeOK, InRanking, AtCandidate
    <3>4. value[Candidate] # NoValue
      BY <3>2, <3>3, BeamAssumption DEF ListInv, AllScored, Candidate, NoValue
    <3>5. UNCHANGED value \/ \E v \in Scores : value' = [value EXCEPT ![Candidate] = v]
      BY <2>1 DEF Measure, PairedMeasured, PairedUnavailable, FullMeasured, FullRejected,
                  FullRaises, scoreVars
    <3>6. value \in [Candidates -> Scores \cup {NoValue}]
      BY <3>2 DEF ListInv, TypeOK, ScoreTypes
    <3> QED BY <1>2, <3>3, <3>4, <3>5, <3>6
  <2>2. CASE EvaluationRaises \/ BeginAccept \/ Look \/ Conclude
    <3>1. UNCHANGED value
      BY <2>2 DEF EvaluationRaises, BeginAccept, Look, ScreenedOut, JudgedAtOnce,
                  BudgetExhausted, EnterRemeasure, Conclude, SanitizerRejects, Accept,
                  AcceptRaises, RankingExhausted, scoreVars
    <3> QED BY <1>2, <3>1
  <2> QED BY <2>1, <2>2
<1>3. ASSUME PlacedByNumber, ErrorsNameTheirOwn PROVE PlacedByNumber' /\ ErrorsNameTheirOwn'
  <2>1. \A e \in DOMAIN iteration_errors : iteration_errors[e].of \in Candidates
    BY ErrorsAboutCandidates DEF MemoryInv, BudgetInv, ListInv
  <2> QED BY <1>1, <1>2, <1>3, <2>1 DEF PlacedByNumber, ErrorsNameTheirOwn, Listed
<1>4. AllPass' = AllPass
  BY <1>1 DEF AllPass, Passed
<1>5. MemoryRightIfAllPass'
  BY <1>1 DEF MemoryRightIfAllPass
<1> QED BY <1>1, <1>3, <1>4, <1>5 DEF MemoryInv

(* With places and numbers the same, the look-up finds each error's own        *)
(* candidate, and finds every error.                                           *)
LEMMA MemoryFiled ==
    ASSUME TypeOK, PlacedByNumber, ErrorsNameTheirOwn
    PROVE  Remembered = {[strategy |-> iteration_errors[e].of, failure |-> iteration_errors[e].of] :
                            e \in DOMAIN iteration_errors}
<1> DEFINE of(e) == iteration_errors[e].of
           entry(c) == [strategy |-> c, failure |-> c]
<1>1. /\ candidates \in Seq(Candidates)
      /\ DOMAIN candidates = 1 .. Len(candidates) /\ Len(candidates) \in Nat
      /\ DOMAIN iteration_errors = 1 .. Len(iteration_errors) /\ Len(iteration_errors) \in Nat
  BY LenProperties DEF TypeOK, BeamTypes
<1>2. \A e \in DOMAIN iteration_errors : of(e) \in DOMAIN candidates /\ value[of(e)] = NoValue
  BY DEF ErrorsNameTheirOwn, PlacedByNumber, Listed
<1>3. \A i : FirstNaming(i) = {e \in DOMAIN iteration_errors : of(e) = i}
  <2>1. \A i : Naming(i) = {e \in DOMAIN iteration_errors : of(e) = i}
    BY DEF Naming, ErrorsNameTheirOwn
  <2>2. \A i : \A d, e \in Naming(i) : d = e
    BY <2>1 DEF ErrorsNameTheirOwn
  <2>3. \A i : \A e \in Naming(i) : e <= e
    BY <1>1, <2>1
  <2> QED BY <2>1, <2>2, <2>3 DEF FirstNaming
<1>4. ASSUME NEW i \in DOMAIN candidates
      PROVE  Memories(i) = {entry(of(e)) : e \in {d \in DOMAIN iteration_errors : of(d) = i}}
  <2>1. candidates[i] = i
    BY DEF PlacedByNumber
  <2>2. Memories(i) = {[strategy |-> candidates[i], failure |-> of(e)] :
                          e \in {d \in DOMAIN iteration_errors : of(d) = i}}
    BY <1>3 DEF Memories
  <2> QED BY <2>1, <2>2
<1>5. ASSUME NEW m PROVE m \in Remembered <=> \E e \in DOMAIN iteration_errors : m = entry(of(e))
  <2>1. m \in Remembered <=>
          \E i \in DOMAIN candidates : value[candidates[i]] = NoValue /\ m \in Memories(i)
    BY DEF Remembered
  <2>2. \A i \in DOMAIN candidates :
          m \in Memories(i) <=> \E e \in DOMAIN iteration_errors : of(e) = i /\ m = entry(of(e))
    BY <1>4
  <2>3. \A i \in DOMAIN candidates : candidates[i] = i
    BY DEF PlacedByNumber
  <2> QED BY <1>2, <2>1, <2>2, <2>3
<1> QED BY <1>5

(* The invariant holds of every reachable state.                               *)
THEOREM MemoryInvariant == Spec => []MemoryInv
<1>1. ASSUME Init, BudgetInv PROVE MemoryInv
  BY <1>1 DEF Init, MemoryInv, MemoryRightIfAllPass
<1>2. ASSUME MemoryInv, BudgetInv', [Next]_vars PROVE MemoryInv'
  <2>1. CASE UNCHANGED vars
    BY <1>2, <2>1 DEF vars, poolVars, beamVars, scoreVars, rankVars, outcomeVars, MemoryInv,
           AllPass, Passed, PlacedByNumber, ErrorsNameTheirOwn, Listed, MemoryRightIfAllPass
  <2>2. CASE Settle
    <3>1. /\ step = "decided" /\ step' = "settled" /\ failure_memory' = Remembered
          /\ UNCHANGED <<prescreened, candidates, iteration_errors, value>>
      BY <2>2 DEF Settle, poolVars, beamVars, scoreVars
    <3>2. AllPass' = AllPass
      BY <3>1 DEF AllPass, Passed
    <3>3. ASSUME AllPass PROVE PlacedByNumber /\ ErrorsNameTheirOwn
      BY <1>2, <3>1, <3>3 DEF MemoryInv
    <3>4. TypeOK
      BY <1>2 DEF MemoryInv, BudgetInv, ListInv
    <3>5. MemoryRightIfAllPass'
      BY <3>1, <3>2, <3>3, <3>4, MemoryFiled DEF MemoryRightIfAllPass, AllPass
    <3>6. AllPass => PlacedByNumber' /\ ErrorsNameTheirOwn'
      BY <3>1, <3>3 DEF PlacedByNumber, ErrorsNameTheirOwn, Listed
    <3> QED BY <1>2, <3>2, <3>5, <3>6 DEF MemoryInv
  <2> QED BY <1>2, <2>1, <2>2, MemoryKeptByPrescreen, MemoryKeptByEvaluation, MemoryKeptByAccept
          DEF Next, Look, Measure, Conclude, Ended
<1> QED BY <1>1, <1>2, BudgetInvariant, PTL DEF Spec

(* However many candidates there are: if all of them pass the prescreen, the   *)
(* failure memory holds each reported failure under the strategy it belongs to.*)
THEOREM FailuresFiledRight == Spec => []MemoryRightIfAllPass
<1>1. MemoryInv => MemoryRightIfAllPass
  BY DEF MemoryInv
<1> QED BY <1>1, MemoryInvariant, PTL

-----------------------------------------------------------------------------
(* An iteration comes to an end.  That fair steps are taken is what the run    *)
(* with BeamEnds assumes; that there are never more than a known number of     *)
(* them is proved here, by counting down.                                      *)

Unstarted == {c \in Candidates : prescreened[c] = "queued"}

Unfinished == {c \in Candidates : prescreened[c] \in {"queued", "running"}}

(* What accept_best may still do with the candidate at hand.                   *)
Places == {"choose", "paired", "full", "sanitize"}

StepsLeft == [choose |-> 3, paired |-> 2, full |-> 1, sanitize |-> 0]

(* The steps that are left at most: every thread starts and ends, every        *)
(* survivor is evaluated, and each of the ranking costs four at most.          *)
Remaining ==
    CASE step = "prescreen" -> Cardinality(Unstarted) + Cardinality(Unfinished) + 5 * N + 7
      [] step = "evaluate"  -> Cardinality(ToEvaluate) + 4 * N + 6
      [] step \in Places -> 4 * (Len(scored) + 1 - idx) + StepsLeft[step] + 2
      [] step = "decided"   -> 1
      [] step \in {"settled", "raised"} -> 0

(* A list without repetitions is no longer than there are candidates.          *)
LEMMA ShortList ==
    ASSUME NEW s \in Seq(Candidates), Distinct(s)
    PROVE  Len(s) \in 0 .. N
<1> DEFINE n == Len(s)
<1>1. s \in [1 .. n -> Candidates] /\ n \in Nat /\ DOMAIN s = 1 .. n
  BY LenProperties
<1>2. s \in Injection(1 .. n, Candidates)
  BY <1>1 DEF Distinct, Injection, IsInjective
<1>3. IsFiniteSet(Candidates) /\ Cardinality(Candidates) = N
  BY BeamAssumption, FS_Interval DEF Candidates
<1>4. Cardinality(1 .. n) = n
  <2>1. n \in Nat
    BY <1>1
  <2> HIDE DEF n
  <2> QED BY <2>1, FS_Interval
<1>5. Cardinality(1 .. n) <= Cardinality(Candidates)
  BY <1>2, <1>3, FS_Injection
<1> QED BY <1>1, <1>3, <1>4, <1>5, BeamAssumption

(* A set of candidates has no more than N of them, and fewer once one is gone. *)
LEMMA CountedCandidates ==
    ASSUME NEW S \in SUBSET Candidates
    PROVE  /\ Cardinality(S) \in 0 .. N
           /\ \A T \in SUBSET S : T # S => Cardinality(T) < Cardinality(S)
<1>1. IsFiniteSet(Candidates) /\ Cardinality(Candidates) = N
  BY BeamAssumption, FS_Interval DEF Candidates
<1>2. IsFiniteSet(S) /\ Cardinality(S) \in Nat /\ Cardinality(S) <= Cardinality(Candidates)
  BY <1>1, FS_Subset, FS_CardinalityType
<1>3. ASSUME NEW T \in SUBSET S, T # S PROVE Cardinality(T) < Cardinality(S)
  <2>1. /\ Cardinality(T) <= Cardinality(S) /\ Cardinality(T) # Cardinality(S)
        /\ IsFiniteSet(T)
    BY <1>2, <1>3, FS_Subset
  <2>2. Cardinality(T) \in Nat
    BY <2>1, FS_CardinalityType
  <2> QED BY <1>2, <2>1, <2>2
<1> QED BY <1>1, <1>2, <1>3, BeamAssumption

(* What is left at each step.                                                  *)
LeftAtStep ==
    /\ step = "prescreen" =>
          Remaining = Cardinality(Unstarted) + Cardinality(Unfinished) + 5 * N + 7
    /\ step = "evaluate" => Remaining = Cardinality(ToEvaluate) + 4 * N + 6
    /\ step \in Places => Remaining = 4 * (Len(scored) + 1 - idx) + StepsLeft[step] + 2
    /\ step = "decided" => Remaining = 1
    /\ step \in {"settled", "raised"} => Remaining = 0

LEMMA RemainingAt == LeftAtStep /\ LeftAtStep'
<1>1. LeftAtStep
  BY DEF LeftAtStep, Remaining, Places
<1>2. LeftAtStep'
  BY DEF LeftAtStep, Remaining, Places
<1> QED BY <1>1, <1>2

(* What is left is a number, and never more than 7N + 7.                       *)
LEMMA RemainingCounted == ASSUME ListInv PROVE Remaining \in 0 .. 7 * N + 7
<1>1. Unstarted \in SUBSET Candidates /\ Unfinished \in SUBSET Candidates
      /\ ToEvaluate \in SUBSET Candidates
  BY DEF Unstarted, Unfinished, ToEvaluate
<1> DEFINE a == Cardinality(Unstarted)
           b == Cardinality(Unfinished)
           c == Cardinality(ToEvaluate)
           n == Len(scored)
<1>2. a \in 0 .. N /\ b \in 0 .. N /\ c \in 0 .. N
  BY <1>1, CountedCandidates
<1>3. n \in 0 .. N /\ idx \in 1 .. n + 1
  BY ShortList DEF ListInv, TypeOK, RankTypes
<1>4. step \in Places => StepsLeft[step] \in 0 .. 3
  BY DEF Places, StepsLeft
<1>5. step \in Places \cup {"prescreen", "evaluate", "decided", "settled", "raised"}
  BY DEF ListInv, TypeOK, Places
<1>6. /\ step = "prescreen" => Remaining = a + b + 5 * N + 7
      /\ step = "evaluate" => Remaining = c + 4 * N + 6
      /\ step \in Places => Remaining = 4 * (n + 1 - idx) + StepsLeft[step] + 2
      /\ step = "decided" => Remaining = 1
      /\ step \in {"settled", "raised"} => Remaining = 0
  BY RemainingAt DEF LeftAtStep
<1>7. N \in Nat
  BY BeamAssumption
<1> HIDE DEF a, b, c, n
<1> QED BY <1>2, <1>3, <1>4, <1>5, <1>6, <1>7

(* The pool counts down.                                                       *)
LEMMA PoolCountsDown ==
    ASSUME ListInv, ListInv',
           \/ \E c \in Candidates : WorkerStarts(c) \/ WorkerEnds(c)
           \/ CollectPrescreen
    PROVE  Remaining' < Remaining
<1> DEFINE a == Cardinality(Unstarted) b == Cardinality(Unfinished)
<1>1. /\ Unstarted \in SUBSET Candidates /\ Unfinished \in SUBSET Candidates
      /\ ToEvaluate' \in SUBSET Candidates
  BY DEF Unstarted, Unfinished, ToEvaluate
<1>2. /\ a \in 0 .. N /\ b \in 0 .. N /\ N \in Nat
      /\ Remaining = a + b + 5 * N + 7
  BY <1>1, CountedCandidates, RemainingAt, BeamAssumption
  DEF LeftAtStep, WorkerStarts, WorkerEnds, CollectPrescreen
<1>6. step = "prescreen"
  BY DEF WorkerStarts, WorkerEnds, CollectPrescreen
<1> HIDE DEF a, b
<1>3. ASSUME NEW c \in Candidates, WorkerStarts(c) PROVE Remaining' < Remaining
  <2>1. /\ prescreened[c] = "queued" /\ prescreened' = [prescreened EXCEPT ![c] = "running"]
        /\ prescreened \in [Candidates -> {"queued", "running", "passed", "failed"}]
        /\ step' = "prescreen"
    BY <1>6, <1>3 DEF WorkerStarts, ListInv, TypeOK, PoolTypes
  <2>2. Unstarted' \in SUBSET Unstarted /\ Unstarted' # Unstarted /\ Unfinished' = Unfinished
    BY <2>1 DEF Unstarted, Unfinished
  <2>3. a' < a /\ b' = b /\ a' \in 0 .. N
    <3>1. Unstarted' \in SUBSET Candidates
      BY <1>1, <2>2
    <3> QED BY <1>1, <2>2, <3>1, CountedCandidates DEF a, b
  <2>4. Remaining' = a' + b' + 5 * N + 7
    BY <2>1, RemainingAt DEF LeftAtStep, a, b
  <2>5. \A x, y \in 0 .. N : x < y => x + b + 5 * N + 7 < y + b + 5 * N + 7
    BY <1>2
  <2> QED BY <1>2, <2>3, <2>4, <2>5
<1>4. ASSUME NEW c \in Candidates, WorkerEnds(c) PROVE Remaining' < Remaining
  <2>1. PICK verdict \in {"passed", "failed"} :
           prescreened' = [prescreened EXCEPT ![c] = verdict]
    BY <1>4 DEF WorkerEnds
  <2>2. /\ prescreened[c] = "running" /\ step' = "prescreen"
        /\ prescreened \in [Candidates -> {"queued", "running", "passed", "failed"}]
    BY <1>6, <1>4 DEF WorkerEnds, ListInv, TypeOK, PoolTypes
  <2>3. Unfinished' \in SUBSET Unfinished /\ Unfinished' # Unfinished /\ Unstarted' = Unstarted
    BY <2>1, <2>2 DEF Unstarted, Unfinished
  <2>4. b' < b /\ a' = a /\ b' \in 0 .. N
    <3>1. Unfinished' \in SUBSET Candidates
      BY <1>1, <2>3
    <3> QED BY <1>1, <2>3, <3>1, CountedCandidates DEF a, b
  <2>5. Remaining' = a' + b' + 5 * N + 7
    BY <2>2, RemainingAt DEF LeftAtStep, a, b
  <2>6. \A x, y \in 0 .. N : x < y => a + x + 5 * N + 7 < a + y + 5 * N + 7
    BY <1>2
  <2> QED BY <1>2, <2>4, <2>5, <2>6
<1>5. ASSUME CollectPrescreen PROVE Remaining' < Remaining
  <2> DEFINE c == Cardinality(ToEvaluate)
  <2>1. Remaining' = c' + 4 * N + 6
    BY <1>5, RemainingAt DEF LeftAtStep, CollectPrescreen
  <2>2. c' \in 0 .. N
    BY <1>1, CountedCandidates
  <2> HIDE DEF c
  <2>3. \A x \in 0 .. N : x + 4 * N + 6 < a + b + 5 * N + 7
    BY <1>2
  <2> QED BY <1>2, <2>1, <2>2, <2>3
<1> QED BY <1>3, <1>4, <1>5

(* So does the evaluation of the survivors.                                    *)
LEMMA EvaluationCountsDown ==
    ASSUME ListInv, ListInv',
           \/ \E c \in Candidates : Evaluated(c)
           \/ EvaluationRaises \/ BeginAccept
    PROVE  Remaining' < Remaining
<1> DEFINE a == Cardinality(ToEvaluate) n == Len(scored)
<1>1. ToEvaluate \in SUBSET Candidates
  BY DEF ToEvaluate
<1>2. /\ a \in 0 .. N /\ N \in Nat /\ Remaining = a + 4 * N + 6
  BY <1>1, CountedCandidates, RemainingAt, BeamAssumption
  DEF LeftAtStep, Evaluated, EvaluationRaises, BeginAccept
<1>6. step = "evaluate"
  BY DEF Evaluated, EvaluationRaises, BeginAccept
<1> HIDE DEF a, n
<1>3. ASSUME NEW c \in Candidates, Evaluated(c) PROVE Remaining' < Remaining
  <2>1. /\ candidates \in Seq(Candidates) /\ candidates' = Append(candidates, c)
        /\ c \in ToEvaluate /\ UNCHANGED <<step, prescreened>>
    BY <1>3 DEF Evaluated, ListInv, TypeOK, BeamTypes, poolVars
  <2>2. Listed' = Listed \cup {c}
    <3>1. /\ DOMAIN candidates' = DOMAIN candidates \cup {Len(candidates) + 1}
          /\ \A i \in DOMAIN candidates : candidates'[i] = candidates[i]
          /\ candidates'[Len(candidates) + 1] = c
      BY <2>1, AppendProperties, LenProperties
    <3> QED BY <3>1 DEF Listed
  <2>3. ToEvaluate' \in SUBSET ToEvaluate /\ ToEvaluate' # ToEvaluate
    BY <2>1, <2>2 DEF ToEvaluate, Passed
  <2>4. a' < a /\ a' \in 0 .. N
    <3>1. ToEvaluate' \in SUBSET Candidates
      BY <1>1, <2>3
    <3> QED BY <1>1, <2>3, <3>1, CountedCandidates DEF a
  <2>5. Remaining' = a' + 4 * N + 6
    BY <1>6, <2>1, RemainingAt DEF LeftAtStep, a
  <2>6. \A x, y \in 0 .. N : x < y => x + 4 * N + 6 < y + 4 * N + 6
    BY <1>2
  <2> QED BY <1>2, <2>4, <2>5, <2>6
<1>4. ASSUME EvaluationRaises PROVE Remaining' < Remaining
  <2>1. Remaining' = 0
    BY <1>4, RemainingAt DEF LeftAtStep, EvaluationRaises
  <2> QED BY <1>2, <2>1
<1>5. ASSUME BeginAccept PROVE Remaining' < Remaining
  <2>1. step' = "choose" /\ idx' = 1
    BY <1>5 DEF BeginAccept, ListInv, InRanking
  <2>2. n' \in 0 .. N
    BY ShortList DEF ListInv, TypeOK, RankTypes, n
  <2>3. Remaining' = 4 * (n' + 1 - idx') + 3 + 2
    BY <2>1, RemainingAt DEF LeftAtStep, Places, StepsLeft, n
  <2>4. \A x \in 0 .. N : 4 * (x + 1 - 1) + 3 + 2 < a + 4 * N + 6
    BY <1>2
  <2> QED BY <1>2, <2>1, <2>2, <2>3, <2>4
<1> QED BY <1>3, <1>4, <1>5

(* accept_best goes on to the next candidate or a step further with this one.  *)
LEMMA AcceptCountsDown ==
    ASSUME ListInv, ListInv', Look \/ Measure \/ Conclude \/ Settle
    PROVE  Remaining' < Remaining
<1> DEFINE n == Len(scored)
<1>1. n \in Nat /\ idx \in 1 .. n + 1 /\ idx' \in 1 .. n' + 1
  BY LenProperties DEF ListInv, TypeOK, RankTypes
<1>2. step \in Places => StepsLeft[step] \in 0 .. 3
  BY DEF Places, StepsLeft
<1>3. UNCHANGED n
  BY DEF Look, ScreenedOut, JudgedAtOnce, BudgetExhausted, EnterRemeasure,
         Measure, PairedMeasured, PairedUnavailable, FullMeasured, FullRejected, FullRaises,
         Conclude, SanitizerRejects, Accept, AcceptRaises, RankingExhausted, Settle, rankVars
<1>4. \/ step \in Places /\ step' = "choose" /\ idx' = idx + 1
      \/ step \in Places /\ step' \in Places /\ idx' = idx /\ StepsLeft[step'] < StepsLeft[step]
      \/ step \in Places /\ step' \in {"decided", "settled", "raised"}
      \/ step = "decided" /\ step' = "settled"
  <2> USE DEF Places, StepsLeft
  <2>1. ASSUME NEW v, NEW w, Judged(v, w)
        PROVE  \/ step' = "choose" /\ idx' = idx + 1
               \/ step' = "sanitize" /\ idx' = idx
    BY <2>1 DEF Judged, Rejected
  <2>2. CASE Look
    <3>1. CASE ScreenedOut
      BY <3>1 DEF ScreenedOut, Choosing, Rejected
    <3>3. CASE BudgetExhausted
      BY <3>3 DEF BudgetExhausted, NeedsBudget, Choosing
    <3>4. CASE EnterRemeasure
      <4>1. step = "choose" /\ step' \in {"paired", "full"} /\ idx' = idx
        BY <3>4 DEF EnterRemeasure, NeedsBudget, Choosing
      <4> QED BY <4>1
    <3>2. CASE JudgedAtOnce
      BY <2>1, <3>2 DEF JudgedAtOnce, Choosing
    <3> QED BY <2>2, <3>1, <3>2, <3>3, <3>4 DEF Look
  <2>3. CASE Measure
    <3>1. CASE PairedMeasured \/ FullMeasured
      BY <2>1, <3>1 DEF PairedMeasured, FullMeasured
    <3>2. CASE PairedUnavailable
      <4>1. step = "paired" /\ step' = "full" /\ idx' = idx
        BY <3>2 DEF PairedUnavailable, rankVars
      <4> QED BY <4>1
    <3>3. CASE FullRejected \/ FullRaises
      BY <3>3 DEF FullRejected, FullRaises, Rejected
    <3> QED BY <2>3, <3>1, <3>2, <3>3 DEF Measure
  <2>4. CASE Conclude
    BY <2>4 DEF Conclude, SanitizerRejects, Accept, AcceptRaises, RankingExhausted, Rejected,
           rankVars
  <2>5. CASE Settle
    BY <2>5 DEF Settle
  <2> QED BY <2>2, <2>3, <2>4, <2>5
<1>5. /\ step \in Places => Remaining = 4 * (n + 1 - idx) + StepsLeft[step] + 2
      /\ step = "decided" => Remaining = 1
      /\ step' \in Places => Remaining' = 4 * (n' + 1 - idx') + StepsLeft[step'] + 2
      /\ step' = "choose" => Remaining' = 4 * (n' + 1 - idx') + 3 + 2
      /\ step' = "decided" => Remaining' = 1
      /\ step' \in {"settled", "raised"} => Remaining' = 0
  BY RemainingAt DEF LeftAtStep, Places, StepsLeft
<1>6. step' \in Places => StepsLeft[step'] \in 0 .. 3
  BY DEF Places, StepsLeft
<1> HIDE DEF n
<1> QED BY <1>1, <1>2, <1>3, <1>4, <1>5, <1>6

(* However many candidates there are: no iteration takes more than 7N + 7      *)
(* steps.                                                                      *)
THEOREM IterationIsBounded == Spec => [](Remaining \in 0 .. 7 * N + 7)
<1>1. ListInv => Remaining \in 0 .. 7 * N + 7
  BY RemainingCounted
<1> QED BY <1>1, ListInvariant, PTL

(* Every step of the pool, of the evaluation and of the accept loop is one of  *)
(* those: none is taken back, whatever is rejected, re-measured or raised.     *)
THEOREM EveryStepCounts == Spec => [][Remaining' < Remaining]_vars
<1>1. ASSUME ListInv, ListInv', Next, vars' # vars PROVE Remaining' < Remaining
  BY <1>1, PoolCountsDown, EvaluationCountsDown, AcceptCountsDown
  DEF Next, CandidateScores, CandidateRejected, CandidateInvalid, Look, Measure, Conclude, Ended
<1>2. ASSUME ListInv, ListInv', [Next]_vars PROVE [Remaining' < Remaining]_vars
  BY <1>1, <1>2
<1> QED BY <1>2, ListInvariant, PTL DEF Spec
=============================================================================
