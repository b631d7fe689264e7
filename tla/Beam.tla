-------------------------------- MODULE Beam --------------------------------
(* The beam of one iteration: the part of _run_iteration_loop between the      *)
(* parsed candidates and the failure memory.  Candidates are prescreened by a  *)
(* pool of threads, the survivors benchmarked one after another, and           *)
(* accept_best looks for one that beats the program on record.  AgentLoop has  *)
(* all of this as one step, by its outcome.                                    *)
(*                                                                             *)
(* A candidate is the number the messages of the code give it, ci + 1.  The    *)
(* metric is one to maximise; to minimise is the mirror image.  Every          *)
(* candidate runs in a workspace copy of its own, so only the score on record  *)
(* is shared.                                                                  *)
EXTENDS Integers, Sequences, FiniteSets

CONSTANTS
    N,                      \* candidates parsed from the LLM's answer
    Slots,                  \* prescreen.run(max_workers)
    Scores,                 \* metric values
    OnRecord,               \* ctx.best_value when the iteration starts
    Tolerance,              \* constraints.regression_tolerance (%)
    Configs                 \* the settings a run may have

Rules == {"tolerance_only", "non_overlapping_ci", "paired_difference"}

(* top_k = 0 stands for every top_k <= 0: unlimited.  cuda: the task builds    *)
(* with nvcc, the gate is on and compute-sanitizer is installed.               *)
Config == [fast_screen : BOOLEAN, rule : Rules, top_k : Nat, cuda : BOOLEAN]

ASSUME BeamAssumption ==
    /\ N \in Nat \ {0} /\ Slots \in Nat \ {0}
    /\ Scores \subseteq Nat \ {0} /\ Scores # {}
    /\ OnRecord \in Scores
    /\ Tolerance \in Nat
    /\ Configs \subseteq Config

VARIABLES
    config,
    step,                   \* where the iteration is
    prescreened,            \* what the pool knows of each candidate
    finished,               \* the order in which the futures complete
    candidates,             \* the list of BeamCandidates
    iteration_errors,       \* the error dicts: whose, and the number in the text
    value,                  \* BeamCandidate.value
    basis,                  \* what kind of measurement that value is (history variable)
    scored, idx,            \* accept_best: the ranking, and the place in it
    rebench_budget,
    remeasured,             \* candidates that entered a re-measurement (history variable)
    incumbent,              \* the incumbent's score in the last comparison
    reject_reasons,
    best_value,
    accepted,               \* the accepted candidate, or 0
    failure_memory,
    crash                   \* what raised, if something did

poolVars == <<prescreened, finished>>
beamVars == <<candidates, iteration_errors>>
scoreVars == <<value, basis>>
rankVars == <<scored, idx, rebench_budget, remeasured, incumbent, reject_reasons>>
outcomeVars == <<best_value, accepted, failure_memory>>

vars == <<config, step, poolVars, beamVars, scoreVars, rankVars, outcomeVars, crash>>

Candidates == 1 .. N

NoValue == 0

use_fast == config.fast_screen /\ N > 1

Paired == config.rule = "paired_difference"

needs_remeasure == use_fast \/ Paired

Reasons == {"screened out", "no improvement", "re-bench failed", "not clean"}

-----------------------------------------------------------------------------
(* The decision rules, as the set of verdicts each can give on two scores: the *)
(* spread of the samples is not modelled, so the second bar of a statistical   *)
(* rule may turn down any candidate that clears the first.                     *)

BeatsTolerance(v, w) == v * 100 > w * (100 + Tolerance)

ToleranceOnly(v, w) == {BeatsTolerance(v, w)}

(* Mutant: the interval test alone, without the materiality floor.             *)
NonOverlappingCIAlone(v, w) == {v > w /\ separated : separated \in BOOLEAN}

NonOverlappingCI(v, w) == {BeatsTolerance(v, w) /\ separated : separated \in BOOLEAN}

(* With fewer than min_pairs pairs the paired rule delegates to the interval   *)
(* rule.                                                                       *)
PairedDifference(v, w) ==
    {BeatsTolerance(v, w) /\ significant : significant \in BOOLEAN}
        \cup NonOverlappingCI(v, w)

Assess(v, w) ==
    CASE config.rule = "tolerance_only"     -> ToleranceOnly(v, w)
      [] config.rule = "non_overlapping_ci" -> NonOverlappingCI(v, w)
      [] config.rule = "paired_difference"  -> PairedDifference(v, w)

Screen(c) == BeatsTolerance(value[c], best_value)

-----------------------------------------------------------------------------
Init ==
    /\ config \in Configs
    /\ step = "prescreen"
    /\ prescreened = [c \in Candidates |-> "queued"] /\ finished = <<>>
    /\ candidates = <<>> /\ iteration_errors = <<>>
    /\ value = [c \in Candidates |-> NoValue] /\ basis = [c \in Candidates |-> "none"]
    /\ scored = <<>> /\ idx = 1 /\ rebench_budget = 0 /\ remeasured = {}
    /\ incumbent = OnRecord /\ reject_reasons = [c \in Candidates |-> "none"]
    /\ best_value = OnRecord /\ accepted = 0 /\ failure_memory = {}
    /\ crash = "none"

-----------------------------------------------------------------------------
(* The pool.  Futures are started in the order they were submitted.            *)

Running == {c \in Candidates : prescreened[c] = "running"}

WorkerStarts(c) ==
    /\ step = "prescreen"
    /\ prescreened[c] = "queued"
    /\ \A d \in 1 .. (c - 1) : prescreened[d] # "queued"
    /\ Cardinality(Running) < Slots
    /\ prescreened' = [prescreened EXCEPT ![c] = "running"]
    /\ UNCHANGED <<config, step, finished, beamVars, scoreVars, rankVars, outcomeVars, crash>>

(* Passed, or rejected by the validation, the build, the tests or any          *)
(* exception.                                                                  *)
WorkerEnds(c) ==
    /\ step = "prescreen"
    /\ prescreened[c] = "running"
    /\ \E verdict \in {"passed", "failed"} :
         prescreened' = [prescreened EXCEPT ![c] = verdict]
    /\ finished' = Append(finished, c)
    /\ UNCHANGED <<config, step, beamVars, scoreVars, rankVars, outcomeVars, crash>>

(* Mutant: the results are kept in the order in which they come in.            *)
FinishedBefore(c, d) ==
    \E p, q \in DOMAIN finished : p < q /\ finished[p] = c /\ finished[q] = d

(* The list of results is allocated beforehand: a result goes where its        *)
(* candidate is, whenever it comes in.                                         *)
ComesBefore(c, d) == c < d

Passed(c) == prescreened[c] = "passed"

Failed(c) == prescreened[c] = "failed"

(* A set of candidates in the order of the results.                            *)
Listings(S) ==
    {f \in [1 .. Cardinality(S) -> S] : \A p, q \in DOMAIN f : p < q => ComesBefore(f[p], f[q])}

(* An error of the prescreen does not say which candidate it is about.         *)
PrescreenError(c) == [of |-> c, names |-> 0]

(* Once the pool is done, the failures open the list.                          *)
CollectPrescreen ==
    /\ step = "prescreen"
    /\ \A c \in Candidates : Passed(c) \/ Failed(c)
    /\ candidates' \in Listings({c \in Candidates : Failed(c)})
    /\ iteration_errors' = [i \in DOMAIN candidates' |-> PrescreenError(candidates'[i])]
    /\ finished' = <<>>
    /\ step' = "evaluate"
    /\ UNCHANGED <<config, prescreened, scoreVars, rankVars, outcomeVars, crash>>

-----------------------------------------------------------------------------
(* evaluate_single_candidate, one survivor after another: validate again,      *)
(* build, test, benchmark, check the contract.                                 *)

Listed == {candidates[i] : i \in DOMAIN candidates}

ToEvaluate == {c \in Candidates : Passed(c)} \ Listed

Evaluated(c) ==
    /\ step = "evaluate"
    /\ c \in ToEvaluate
    /\ \A d \in ToEvaluate : ~ComesBefore(d, c)
    /\ candidates' = Append(candidates, c)
    /\ UNCHANGED <<config, step, poolVars, rankVars, outcomeVars, crash>>

CandidateScores(c) ==
    /\ Evaluated(c)
    /\ \E v \in Scores : value' = [value EXCEPT ![c] = v]
    /\ basis' = [basis EXCEPT ![c] = IF use_fast THEN "screen" ELSE "full"]
    /\ UNCHANGED iteration_errors

(* _reject, whose text begins with the candidate's number.                     *)
CandidateRejected(c) ==
    /\ Evaluated(c)
    /\ iteration_errors' = Append(iteration_errors, [of |-> c, names |-> c])
    /\ UNCHANGED scoreVars

(* A SEARCH text corrected by the prescreen is validated as if the model had   *)
(* written it, and may now be refused.  This is reported to nobody.            *)
CandidateInvalid(c) ==
    /\ Evaluated(c)
    /\ UNCHANGED <<iteration_errors, scoreVars>>

(* The copy of the workspace and the metric are outside every handler.         *)
EvaluationRaises ==
    /\ step = "evaluate"
    /\ ToEvaluate # {}
    /\ step' = "raised" /\ crash' = "evaluation"
    /\ UNCHANGED <<config, poolVars, beamVars, scoreVars, rankVars, outcomeVars>>

-----------------------------------------------------------------------------
(* accept_best.                                                                *)

(* list.sort is stable: of two equal scores the one that comes first in the    *)
(* list stays first.                                                           *)
Precedes(i, j) ==
    LET v == value[candidates[i]] w == value[candidates[j]]
    IN  v > w \/ (v = w /\ i < j)

HasScore == {i \in DOMAIN candidates : value[candidates[i]] # NoValue}

Placings == [1 .. Cardinality(HasScore) -> HasScore]

(* The candidates with a score, best first.  There is one such sequence.       *)
Rankings ==
    {[p \in DOMAIN place |-> candidates[place[p]]] :
        place \in {f \in Placings : \A p, q \in DOMAIN f : p < q => Precedes(f[p], f[q])}}

BeginAccept ==
    /\ step = "evaluate"
    /\ ToEvaluate = {}
    /\ scored' \in Rankings
    /\ rebench_budget' = config.top_k
    /\ step' = "choose"
    /\ UNCHANGED <<config, poolVars, beamVars, scoreVars, idx, remeasured, incumbent,
                   reject_reasons, outcomeVars, crash>>

Candidate == scored[idx]

Choosing == step = "choose" /\ idx <= Len(scored)

(* Mutant: the loop looks at the same candidate again.                         *)
RejectedInPlace(reason) ==
    /\ reject_reasons' = [reject_reasons EXCEPT ![Candidate] = reason]
    /\ step' = "choose"
    /\ UNCHANGED idx

(* The candidate at hand is out; the loop goes on with the next one.           *)
Rejected(reason) ==
    /\ reject_reasons' = [reject_reasons EXCEPT ![Candidate] = reason]
    /\ idx' = idx + 1
    /\ step' = "choose"

ScreenedOut ==
    /\ Choosing
    /\ needs_remeasure
    /\ ~Screen(Candidate)
    /\ Rejected("screened out")
    /\ UNCHANGED <<config, poolVars, beamVars, scoreVars, scored, rebench_budget, remeasured,
                   incumbent, outcomeVars, crash>>

(* The verdict on the authoritative score v of the candidate, against w.       *)
Judged(v, w) ==
    /\ incumbent' = w
    /\ \E improved \in Assess(v, w) :
         IF improved
           THEN step' = "sanitize" /\ UNCHANGED <<idx, reject_reasons>>
           ELSE Rejected("no improvement")

(* Without fast screening or pairing the first benchmark decides.              *)
JudgedAtOnce ==
    /\ Choosing
    /\ ~needs_remeasure
    /\ Judged(value[Candidate], best_value)
    /\ UNCHANGED <<config, poolVars, beamVars, scoreVars, scored, rebench_budget, remeasured,
                   outcomeVars, crash>>

NeedsBudget == Choosing /\ needs_remeasure /\ Screen(Candidate)

(* The loop breaks: the rest of the ranking is not looked at.                  *)
BudgetExhausted ==
    /\ NeedsBudget
    /\ config.top_k > 0 /\ rebench_budget <= 0
    /\ step' = "decided"
    /\ UNCHANGED <<config, poolVars, beamVars, scoreVars, rankVars, outcomeVars, crash>>

(* Mutant: one re-measurement too many.                                        *)
EnterRemeasureOffByOne ==
    /\ NeedsBudget
    /\ config.top_k = 0 \/ rebench_budget >= 0
    /\ rebench_budget' = rebench_budget - 1
    /\ remeasured' = remeasured \cup {Candidate}
    /\ step' = IF Paired THEN "paired" ELSE "full"
    /\ UNCHANGED <<config, poolVars, beamVars, scoreVars, scored, idx, incumbent,
                   reject_reasons, outcomeVars, crash>>

EnterRemeasure ==
    /\ NeedsBudget
    /\ config.top_k = 0 \/ rebench_budget > 0
    /\ rebench_budget' = rebench_budget - 1
    /\ remeasured' = remeasured \cup {Candidate}
    /\ step' = IF Paired THEN "paired" ELSE "full"
    /\ UNCHANGED <<config, poolVars, beamVars, scoreVars, scored, idx, incumbent,
                   reject_reasons, outcomeVars, crash>>

(* _remeasure_paired: candidate and incumbent are measured in turn, and the    *)
(* comparison is between these two scores.                                     *)
PairedMeasured ==
    /\ step = "paired"
    /\ \E v, w \in Scores :
         /\ value' = [value EXCEPT ![Candidate] = v]
         /\ Judged(v, w)
    /\ basis' = [basis EXCEPT ![Candidate] = "paired"]
    /\ UNCHANGED <<config, poolVars, beamVars, scored, rebench_budget, remeasured,
                   outcomeVars, crash>>

(* Mutant: the fallback is charged as another re-measurement.                  *)
PairedUnavailableCharged ==
    /\ step = "paired"
    /\ step' = "full"
    /\ rebench_budget' = rebench_budget - 1
    /\ UNCHANGED <<config, poolVars, beamVars, scoreVars, scored, idx, remeasured, incumbent,
                   reject_reasons, outcomeVars, crash>>

(* A build, a benchmark or a contract failed in either arm: fall back.         *)
PairedUnavailable ==
    /\ step = "paired"
    /\ step' = "full"
    /\ UNCHANGED <<config, poolVars, beamVars, scoreVars, rankVars, outcomeVars, crash>>

(* Mutant: the screen's verdict stands.                                        *)
FullMeasuredUnjudged ==
    /\ step = "full"
    /\ \E v \in Scores : value' = [value EXCEPT ![Candidate] = v]
    /\ incumbent' = best_value
    /\ step' = "sanitize"
    /\ basis' = [basis EXCEPT ![Candidate] = "full"]
    /\ UNCHANGED <<config, poolVars, beamVars, scored, idx, rebench_budget, remeasured,
                   reject_reasons, outcomeVars, crash>>

(* _remeasure_full.                                                            *)
FullMeasured ==
    /\ step = "full"
    /\ \E v \in Scores :
         /\ value' = [value EXCEPT ![Candidate] = v]
         /\ Judged(v, best_value)
    /\ basis' = [basis EXCEPT ![Candidate] = "full"]
    /\ UNCHANGED <<config, poolVars, beamVars, scored, rebench_budget, remeasured,
                   outcomeVars, crash>>

(* Its build fails, or its benchmark breaks the contract.                      *)
FullRejected ==
    /\ step = "full"
    /\ Rejected("re-bench failed")
    /\ UNCHANGED <<config, poolVars, beamVars, scoreVars, scored, rebench_budget, remeasured,
                   incumbent, outcomeVars, crash>>

(* run_benchmark raises when the benchmark fails: a nonzero exit, the timeout, *)
(* no bench.json.  Nothing here catches it.                                    *)
FullRaises ==
    /\ step = "full"
    /\ step' = "raised" /\ crash' = "benchmark"
    /\ UNCHANGED <<config, poolVars, beamVars, scoreVars, rankVars, outcomeVars>>

(* _cuda_sanitizer_gate: a build that fails, a hazard, or no clear answer.     *)
SanitizerRejects ==
    /\ step = "sanitize"
    /\ config.cuda
    /\ Rejected("not clean")
    /\ UNCHANGED <<config, poolVars, beamVars, scoreVars, scored, rebench_budget, remeasured,
                   incumbent, outcomeVars, crash>>

(* No gate, or a clean report: the patch goes into the live workspace.         *)
Accept ==
    /\ step = "sanitize"
    /\ accepted' = Candidate
    /\ best_value' = value[Candidate]
    /\ step' = "decided"
    /\ UNCHANGED <<config, poolVars, beamVars, scoreVars, rankVars, failure_memory, crash>>

(* Copying the workspace or applying the patch fails.  What may raise once the *)
(* score has moved is AcceptInterrupted of AgentLoop.                          *)
AcceptRaises ==
    /\ step = "sanitize"
    /\ step' = "raised" /\ crash' = "accept"
    /\ UNCHANGED <<config, poolVars, beamVars, scoreVars, rankVars, outcomeVars>>

RankingExhausted ==
    /\ step = "choose"
    /\ idx > Len(scored)
    /\ step' = "decided"
    /\ UNCHANGED <<config, poolVars, beamVars, scoreVars, rankVars, outcomeVars, crash>>

-----------------------------------------------------------------------------
(* The failure memory.  A failed candidate at place i of the list is paired    *)
(* with the first error whose text names candidate i.  No number here is part  *)
(* of another one, and errors of the generation name nobody.  What the loop    *)
(* does between an accept and this, the sweep and the re-profile, is           *)
(* AgentLoop's.                                                                *)

(* Mutant: the number in the text is taken for the index.                      *)
NamingByIndex(i) == {e \in DOMAIN iteration_errors : iteration_errors[e].names = i - 1}

Naming(i) == {e \in DOMAIN iteration_errors : iteration_errors[e].names = i}

FirstNaming(i) == {e \in Naming(i) : \A d \in Naming(i) : e <= d}

Memories(i) ==
    {[strategy |-> candidates[i], failure |-> iteration_errors[e].of] : e \in FirstNaming(i)}

Remembered ==
    UNION {Memories(i) : i \in {j \in DOMAIN candidates : value[candidates[j]] = NoValue}}

Settle ==
    /\ step = "decided"
    /\ failure_memory' = Remembered
    /\ step' = "settled"
    /\ UNCHANGED <<config, poolVars, beamVars, scoreVars, rankVars, best_value, accepted, crash>>

Ended ==
    /\ step \in {"settled", "raised"}
    /\ UNCHANGED vars

Next ==
    \/ \E c \in Candidates : WorkerStarts(c) \/ WorkerEnds(c)
    \/ CollectPrescreen
    \/ \E c \in Candidates : CandidateScores(c) \/ CandidateRejected(c) \/ CandidateInvalid(c)
    \/ EvaluationRaises
    \/ BeginAccept
    \/ ScreenedOut \/ JudgedAtOnce \/ BudgetExhausted \/ EnterRemeasure
    \/ PairedMeasured \/ PairedUnavailable
    \/ FullMeasured \/ FullRejected \/ FullRaises
    \/ SanitizerRejects \/ Accept \/ AcceptRaises
    \/ RankingExhausted
    \/ Settle
    \/ Ended

(* Each subprocess has a timeout, so every step of the iteration ends.         *)
Spec == Init /\ [][Next]_vars /\ WF_vars(Next)

-----------------------------------------------------------------------------
(* Properties.                                                                 *)

PoolTypes ==
    /\ prescreened \in [Candidates -> {"queued", "running", "passed", "failed"}]
    /\ finished \in Seq(Candidates)

BeamTypes ==
    /\ candidates \in Seq(Candidates)
    /\ iteration_errors \in Seq([of : Candidates, names : Nat])

ScoreTypes ==
    /\ value \in [Candidates -> Scores \cup {NoValue}]
    /\ basis \in [Candidates -> {"none", "screen", "full", "paired"}]

RankTypes ==
    /\ scored \in Seq(Candidates) /\ idx \in 1 .. Len(scored) + 1
    /\ rebench_budget \in Int /\ (config.top_k > 0 => rebench_budget >= 0)
    /\ remeasured \subseteq Candidates
    /\ incumbent \in Scores
    /\ reject_reasons \in [Candidates -> Reasons \cup {"none"}]

OutcomeTypes ==
    /\ best_value \in Scores
    /\ accepted \in Candidates \cup {0}
    /\ failure_memory \subseteq [strategy : Candidates, failure : Candidates]

(* Every variable has its type: accept_best never counts its budget below zero *)
(* while top_k limits it, and never runs past the end of the ranking.          *)
TypeOK ==
    /\ config \in Configs
    /\ step \in {"prescreen", "evaluate", "choose", "paired", "full", "sanitize",
                 "decided", "settled", "raised"}
    /\ crash \in {"none", "evaluation", "benchmark", "accept"}
    /\ PoolTypes /\ BeamTypes /\ ScoreTypes /\ RankTypes /\ OutcomeTypes

(* A candidate that goes in was measured with full precision, or interleaved   *)
(* with the incumbent under a paired rule, and this very measurement, which is *)
(* the score then on record, beat the incumbent it was compared with by the    *)
(* tolerance.  The fast screen alone accepts nobody.                           *)
AcceptedOnEvidence ==
    accepted # 0 =>
        /\ basis[accepted] = "full" \/ (Paired /\ basis[accepted] = "paired")
        /\ best_value = value[accepted]
        /\ BeatsTolerance(best_value, incumbent)
        /\ basis[accepted] = "full" => incumbent = OnRecord

(* The score on record only moves when a candidate is accepted, and then to    *)
(* one AgentLoop allows: better by the tolerance, unless the rule is paired.   *)
OutcomeAllowed ==
    [][best_value' # best_value =>
         /\ accepted = 0 /\ accepted' # 0
         /\ BeatsTolerance(best_value', best_value) \/ Paired]_vars

(* top_k bounds the re-measurements, and nothing else is charged to it: a      *)
(* candidate that cleared the screen goes unexamined only when top_k others    *)
(* were re-measured.                                                           *)
NoContenderMissed ==
    /\ config.top_k > 0 => Cardinality(remeasured) <= config.top_k
    /\ (step \in {"decided", "settled"} /\ accepted = 0 /\ needs_remeasure) =>
          \A c \in Candidates \ remeasured :
             (value[c] # NoValue /\ Screen(c)) =>
                config.top_k > 0 /\ Cardinality(remeasured) = config.top_k

(* The ranking does not depend on which prescreen thread was faster: better    *)
(* scores first, and among equals the lower number.                            *)
RankingIgnoresTiming ==
    step = "choose" /\ idx = 1 =>
        \A p, q \in DOMAIN scored : p < q =>
            LET c == scored[p] d == scored[q]
            IN  value[c] > value[d] \/ (value[c] = value[d] /\ c < d)

(* When every candidate passes the prescreen the failure memory is right:      *)
(* each failure that was reported, under the strategy it belongs to.           *)
MemoryRightIfAllPass ==
    (step = "settled" /\ \A c \in Candidates : Passed(c)) =>
        failure_memory =
            {[strategy |-> iteration_errors[e].of, failure |-> iteration_errors[e].of] :
                e \in DOMAIN iteration_errors}

(* The iteration comes to an end: threads, benchmarks and the accept loop.     *)
BeamEnds == <>(step \in {"settled", "raised"})

(* What docs/ARCHITECTURE.md says of a failure record: it holds the strategy   *)
(* that failed and why it failed.  The code looks the error up by the          *)
(* candidate's place in the list, which the failed prescreens have shifted.    *)
MemoryNamesCulprit == \A m \in failure_memory : m.strategy = m.failure

(* What docs/SAFETY_CHECKS.md says of a patch that does not apply, or fails    *)
(* the tests: its diagnostic is added to the failure memory.                   *)
PrescreenFailuresRemembered ==
    step = "settled" =>
        \A c \in Candidates : Failed(c) => \E m \in failure_memory : m.failure = c

(* What docs/SAFETY_CHECKS.md says of a benchmark that fails: the candidate is *)
(* rejected.  In the full re-benchmark it ends the run.                        *)
FailedBenchmarkOnlyRejects == crash # "benchmark"

=============================================================================
