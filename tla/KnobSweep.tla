----------------------------- MODULE KnobSweep -----------------------------
(* perflab optimize: perflab.orchestrator.optimize searches the knobs of       *)
(* tuning.yaml without a model.  Every trial rewrites the user's file and runs *)
(* perflab.runners.pipeline.run_pipeline, which raises for a failed build,     *)
(* test, benchmark or contract.                                                *)
(*                                                                             *)
(* A score is a metric value oriented so that larger is better; a program is   *)
(* named by the flat knob setting it runs with, since nothing else changes.    *)
EXTENDS Integers, Sequences, FiniteSets

CONSTANTS
    Settings,               \* flat knob settings
    Original,               \* the one the user's tuning.yaml holds
    Scores,                 \* metric values, larger is better
    Profilers,              \* the profilers picked for the task and installed
    MaxTrials,              \* --max-trials
    MaxIters,               \* constraints.max_iters
    Tolerance,              \* constraints.regression_tolerance (%)
    Configs                 \* the tasks a run may start with

(* What the user's tuning.yaml is, whether the decision rule may turn down a   *)
(* gain over the tolerance, and whether writes to disk may fail.               *)
Kinds == {"grid", "malformed grid", "legacy", "missing", "unreadable"}

Config == [kind : Kinds, gated : BOOLEAN, disk_faults : BOOLEAN]

Torn == "torn"              \* the knobs of a file whose rewriting failed
Failed == "failed"          \* the summary of a profiler that raised
NoRun == "no run"

ASSUME SweepAssumption ==
    /\ Original \in Settings
    /\ Scores # {} /\ Scores \subseteq Nat \ {0}
    /\ MaxTrials \in Nat \ {0} /\ MaxIters \in Nat \ {0} /\ Tolerance \in Nat
    /\ Configs \subseteq Config
    /\ {Torn, Failed, NoRun} \cap Settings = {}

VARIABLES
    config,                 \* the task of this run
    pc,                     \* the place optimize is at
    tuning,                 \* tuning.yaml: its knobs, and whether it has the sweep section
    local,                  \* the locals of optimize
    rows,                   \* the iteration rows the report is made of
    run_dir,                \* bench.json and the profiler summaries, by the program they describe
    evidence                \* the setting best_value was measured on (history variable)

vars == <<config, pc, tuning, local, rows, run_dir, evidence>>

File == [knobs : Settings \cup {Torn}, sweep : BOOLEAN]

HasSweep(c) == c.kind \in {"grid", "malformed grid"}

Flat(s) == [knobs |-> s, sweep |-> FALSE]

(* write_text truncates before it writes.                                      *)
TornFile == Flat(Torn)

Beats(new, old) == new * 100 > old * (100 + Tolerance)

(* Mutant: the interval test alone decides.                                    *)
VerdictsUnfloored(new, old) == {TRUE, FALSE}

(* _judge: the floor is necessary; an interval test may still say no.          *)
Verdicts(new, old) ==
    IF ~Beats(new, old) THEN {FALSE}
    ELSE IF config.gated THEN {TRUE, FALSE} ELSE {TRUE}

Row(i, v, accepted) == [iter |-> i, value |-> v, accepted |-> accepted]

(* Mutant: a trial without a result is reported as zero.                       *)
NoValue == 0

LastValue == rows[Len(rows)].value

Report(i, v, accepted) == rows' = Append(rows, Row(i, v, accepted))

-----------------------------------------------------------------------------
(* run_pipeline.  It stops at the first step that fails; bench.json is copied  *)
(* to the run directory before the contract is looked at.                      *)

Stops == {"build", "correctness", "benchmark", "contract"}

Benched(stop) ==
    IF stop = "contract" THEN [run_dir EXCEPT !.bench = tuning.knobs] ELSE run_dir

(* A profiler that raises writes its error over its summary.                   *)
Profiled ==
    {[bench |-> tuning.knobs, summaries |-> s] :
        s \in [Profilers -> {tuning.knobs, Failed}]}

PipelineRaises == \E stop \in Stops : run_dir' = Benched(stop)

PipelineReturns == run_dir' = [run_dir EXCEPT !.bench = tuning.knobs]

PipelineProfiles == run_dir' \in Profiled

(* Ctrl-C in a pipeline run: at any step, in the profilers too.                *)
PipelineCut ==
    \/ run_dir' = run_dir
    \/ PipelineReturns
    \/ \E s \in Profiled, done \in SUBSET Profilers :
          run_dir' = [s EXCEPT !.summaries =
                         [p \in Profilers |-> IF p \in done THEN @[p]
                                              ELSE run_dir.summaries[p]]]

-----------------------------------------------------------------------------
(* The proposals: propose_knob_sweep and sample_candidates.                    *)

(* Combinations of the grid, which may hold the current setting, or one toggle *)
(* away from it; in any order, sampled down to --max-trials.                   *)
GridProposals == {T \in SUBSET Settings : T # {} /\ Cardinality(T) <= MaxTrials}

ToggleProposals(s) == {T \in SUBSET (Settings \ {s}) : T # {}}

(* A sweep section that is no grid yields toggles, which keep it.              *)
TrialFile(s) == [knobs |-> s, sweep |-> config.kind = "malformed grid"]

FirstProposals ==
    IF config.kind = "grid" THEN GridProposals
    ELSE {T \in ToggleProposals(tuning.knobs) : Cardinality(T) <= MaxTrials}

Locals == [current : File, best_knobs : Settings, best_value : Scores \cup {0},
           baseline : Scores \cup {0}, best_iter : Nat, iter : Nat,
           todo : SUBSET Settings, cand : Settings]

Init ==
    /\ config \in Configs
    /\ pc = "baseline"
    /\ tuning = [knobs |-> Original, sweep |-> HasSweep(config)]
    /\ local = [current |-> Flat(Original), best_knobs |-> Original,
                best_value |-> 0, baseline |-> 0, best_iter |-> 0, iter |-> 0,
                todo |-> {}, cand |-> Original]
    /\ rows = <<>>
    /\ run_dir = [bench |-> NoRun, summaries |-> [p \in Profilers |-> NoRun]]
    /\ evidence = Original

Go(place) == pc' = place

-----------------------------------------------------------------------------
(* The baseline, and what is to be tried.                                      *)

MeasureBaseline ==
    /\ pc = "baseline"
    /\ PipelineProfiles
    /\ \E v \in Scores :
          /\ local' = [local EXCEPT !.best_value = v, !.baseline = v]
          /\ Report(0, v, TRUE)
    /\ evidence' = tuning.knobs
    /\ Go("plan")
    /\ UNCHANGED <<config, tuning>>

(* Neither the baseline nor the last profile is caught.                        *)
PipelineEndsRun ==
    /\ pc \in {"baseline", "final"}
    /\ PipelineRaises
    /\ Go("raised")
    /\ UNCHANGED <<config, tuning, local, rows, evidence>>

Unplannable ==
    /\ pc = "plan"
    /\ config.kind = "unreadable" \/ config.disk_faults
    /\ Go("raised")
    /\ UNCHANGED <<config, tuning, local, rows, run_dir, evidence>>

NothingToTune ==
    /\ pc = "plan"
    /\ config.kind = "missing"
    /\ Report(1, local.best_value, FALSE)
    /\ Go("final")
    /\ UNCHANGED <<config, tuning, local, run_dir, evidence>>

Plan ==
    /\ pc = "plan"
    /\ config.kind \notin {"missing", "unreadable"}
    /\ \E T \in FirstProposals :
          local' = [local EXCEPT !.current = tuning, !.best_knobs = tuning.knobs,
                                 !.todo = T,
                                 !.iter = IF HasSweep(config) THEN 0 ELSE 1]
    /\ Go("pick")
    /\ UNCHANGED <<config, tuning, rows, run_dir, evidence>>

-----------------------------------------------------------------------------
(* Mutant: a trial stays on the list.                                          *)
BeginTrialAgain ==
    /\ pc = "pick"
    /\ \E s \in local.todo :
          /\ tuning' = TrialFile(s)
          /\ local' = [local EXCEPT !.cand = s]
    /\ Go("trial")
    /\ UNCHANGED <<config, rows, run_dir, evidence>>

(* A trial.  The grid counts trials, the toggles their rounds.                 *)
BeginTrial ==
    /\ pc = "pick"
    /\ \E s \in local.todo :
          /\ tuning' = TrialFile(s)
          /\ local' = [local EXCEPT !.cand = s, !.todo = @ \ {s},
                                    !.iter = IF HasSweep(config) THEN @ + 1 ELSE @]
    /\ Go("trial")
    /\ UNCHANGED <<config, rows, run_dir, evidence>>

(* Between trials the grid leaves the user's knobs without their sweep section.*)
Reverted == IF HasSweep(config) THEN Flat(local.current.knobs) ELSE local.current

(* Mutant: a failed trial is reported and its knobs are left in place.         *)
TrialRaisesNoRevert ==
    /\ pc = "trial"
    /\ PipelineRaises
    /\ Report(local.iter, LastValue, FALSE)
    /\ Go("pick")
    /\ UNCHANGED <<config, tuning, local, evidence>>

TrialRaises ==
    /\ pc = "trial"
    /\ PipelineRaises
    /\ Report(local.iter, LastValue, FALSE)
    /\ tuning' = Reverted
    /\ Go("pick")
    /\ UNCHANGED <<config, local, evidence>>

Won(v) == [local EXCEPT !.best_value = v, !.best_iter = local.iter,
                        !.best_knobs = IF HasSweep(config) THEN local.cand ELSE @]

TrialWinsGrid ==
    /\ pc = "trial"
    /\ HasSweep(config)
    /\ PipelineReturns
    /\ \E v \in Scores :
          /\ TRUE \in Verdicts(v, local.best_value)
          /\ local' = Won(v)
          /\ Report(local.iter, v, TRUE)
    /\ evidence' = tuning.knobs
    /\ tuning' = Reverted
    /\ Go("pick")
    /\ UNCHANGED config

(* A toggle that wins stays in the file, and the next round starts from it.    *)
TrialWinsToggle ==
    /\ pc = "trial"
    /\ ~HasSweep(config)
    /\ PipelineReturns
    /\ \E v \in Scores, T \in ToggleProposals(tuning.knobs) :
          /\ TRUE \in Verdicts(v, local.best_value)
          /\ Report(local.iter, v, TRUE)
          /\ IF local.iter = MaxIters
               THEN local' = Won(v) /\ Go("final")
               ELSE /\ local' = [Won(v) EXCEPT !.current = tuning, !.todo = T,
                                               !.iter = @ + 1]
                    /\ Go("pick")
    /\ evidence' = tuning.knobs
    /\ UNCHANGED <<config, tuning>>

(* Toggles that lose get no row of their own.                                  *)
TrialLoses ==
    /\ pc = "trial"
    /\ PipelineReturns
    /\ \E v \in Scores :
          /\ FALSE \in Verdicts(v, local.best_value)
          /\ IF HasSweep(config) THEN Report(local.iter, v, FALSE) ELSE UNCHANGED rows
    /\ tuning' = Reverted
    /\ Go("pick")
    /\ UNCHANGED <<config, local, evidence>>

NoImprovement ==
    /\ pc = "pick" /\ local.todo = {}
    /\ ~HasSweep(config)
    /\ Report(local.iter, LastValue, FALSE)
    /\ Go("final")
    /\ UNCHANGED <<config, tuning, local, run_dir, evidence>>

-----------------------------------------------------------------------------
(* The grid's winner is written, then has to beat the baseline once more.      *)

WriteWinner ==
    /\ pc = "pick" /\ local.todo = {}
    /\ HasSweep(config)
    /\ tuning' = [knobs |-> local.best_knobs, sweep |-> TRUE]
    /\ Go(IF local.best_iter > 0 THEN "confirm" ELSE "final")
    /\ UNCHANGED <<config, local, rows, run_dir, evidence>>

Confirmed ==
    /\ pc = "confirm"
    /\ PipelineReturns
    /\ \E v \in Scores :
          /\ TRUE \in Verdicts(v, local.baseline)
          /\ local' = [local EXCEPT !.best_value = v]
          /\ Report(local.best_iter, v, TRUE)
    /\ Go("final")
    /\ UNCHANGED <<config, tuning, evidence>>

(* Mutant: the file goes back to the user's knobs, the reported best does not. *)
NotConfirmedKeepsBest ==
    /\ pc = "confirm"
    /\ PipelineReturns
    /\ \E v \in Scores :
          /\ FALSE \in Verdicts(v, local.baseline)
          /\ Report(0, v, FALSE)
    /\ tuning' = local.current
    /\ local' = [local EXCEPT !.best_iter = 0]
    /\ evidence' = local.current.knobs
    /\ Go("final")
    /\ UNCHANGED config

NotConfirmed ==
    /\ pc = "confirm"
    /\ PipelineReturns
    /\ \E v \in Scores :
          /\ FALSE \in Verdicts(v, local.baseline)
          /\ Report(0, v, FALSE)
    /\ tuning' = local.current
    /\ local' = [local EXCEPT !.best_value = local.baseline, !.best_iter = 0,
                              !.best_knobs = local.current.knobs]
    /\ evidence' = local.current.knobs
    /\ Go("final")
    /\ UNCHANGED config

ConfirmRaises ==
    /\ pc = "confirm"
    /\ PipelineRaises
    /\ Go("final")
    /\ UNCHANGED <<config, tuning, local, rows, evidence>>

(* Putting the user's knobs back fails where every Exception is caught.        *)
RevertFails ==
    /\ pc = "confirm"
    /\ config.disk_faults
    /\ PipelineReturns
    /\ \E v \in Scores : FALSE \in Verdicts(v, local.baseline)
    /\ tuning' \in {tuning, TornFile}
    /\ Go("final")
    /\ UNCHANGED <<config, local, rows, evidence>>

-----------------------------------------------------------------------------
(* The last profile, the report, and the ways out.                             *)

(* Mutant: the end state is benchmarked and not profiled.                      *)
FinalProfileSkipped ==
    /\ pc = "final"
    /\ PipelineReturns
    /\ Go("report")
    /\ UNCHANGED <<config, tuning, local, rows, evidence>>

FinalProfile ==
    /\ pc = "final"
    /\ PipelineProfiles
    /\ Go("report")
    /\ UNCHANGED <<config, tuning, local, rows, evidence>>

WriteReport ==
    /\ pc = "report"
    /\ \E end \in {"done", "raised"} : Go(end)
    /\ UNCHANGED <<config, tuning, local, rows, run_dir, evidence>>

(* A save or the copy of a winner fails outside the handlers; nothing reads the*)
(* rows and locals of a run that ends so.                                      *)
DiskFails ==
    /\ config.disk_faults
    /\ \/ pc = "pick" /\ UNCHANGED run_dir
       \/ pc = "trial" /\ (PipelineRaises \/ PipelineReturns)
    /\ tuning' \in {tuning, TornFile}
    /\ Go("failed")
    /\ UNCHANGED <<config, local, rows, evidence>>

(* Ctrl-C is no Exception, and optimize has no handler of its own.             *)
Interrupted ==
    /\ pc \in {"baseline", "plan", "pick", "trial", "confirm", "final", "report"}
    /\ IF pc \in {"baseline", "trial", "confirm", "final"} THEN PipelineCut
       ELSE UNCHANGED run_dir
    /\ tuning' \in IF pc \in {"pick", "trial", "confirm"} THEN {tuning, TornFile}
                   ELSE {tuning}
    /\ Go("interrupted")
    /\ UNCHANGED <<config, local, rows, evidence>>

Over == {"done", "raised", "failed", "interrupted"}

Ended == pc \in Over /\ UNCHANGED vars

Work ==
    \/ MeasureBaseline \/ PipelineEndsRun \/ Unplannable \/ NothingToTune \/ Plan
    \/ BeginTrial \/ TrialRaises \/ TrialWinsGrid \/ TrialWinsToggle \/ TrialLoses
    \/ NoImprovement \/ WriteWinner
    \/ Confirmed \/ NotConfirmed \/ ConfirmRaises \/ RevertFails
    \/ FinalProfile \/ WriteReport \/ DiskFails

Next == Work \/ Interrupted \/ Ended

Spec == Init /\ [][Next]_vars

(* One thread; every build, test, benchmark and profiler is a subprocess with  *)
(* a timeout.                                                                  *)
FairSpec == Spec /\ WF_vars(Work)

-----------------------------------------------------------------------------
(* Properties.                                                                 *)

TypeOK ==
    /\ config \in Configs
    /\ pc \in Over \cup {"baseline", "plan", "pick", "trial", "confirm", "final", "report"}
    /\ tuning \in File
    /\ local \in Locals
    /\ rows \in Seq([iter : Nat, value : Scores, accepted : BOOLEAN])
    /\ run_dir.bench \in Settings \cup {NoRun, Torn}
    /\ run_dir.summaries \in [Profilers -> Settings \cup {NoRun, Torn, Failed}]
    /\ evidence \in Settings

Settled == pc \in {"final", "report", "done", "raised"} /\ tuning.knobs # Torn

(* However the search went, tuning.yaml ends up holding the setting the        *)
(* reported best value was measured on, and its sweep section if it had one;   *)
(* also when the last profile or the report raises.                            *)
HandedOverAsReported ==
    Settled => tuning = [knobs |-> evidence, sweep |-> HasSweep(config)]

(* A reader of the rows finds the reported best: it is the last accepted row,  *)
(* unless the last row of all says that the confirmation failed, in which case *)
(* the run reports the baseline.                                               *)
RowsTellTheOutcome ==
    pc \in {"final", "report", "done"} =>
        \/ \E i \in 1 .. Len(rows) :
              /\ rows[i] = Row(local.best_iter, local.best_value, TRUE)
              /\ \A k \in i + 1 .. Len(rows) : ~rows[k].accepted
        \/ /\ ~rows[Len(rows)].accepted /\ rows[Len(rows)].iter = 0
           /\ local.best_iter = 0 /\ local.best_value = local.baseline

(* bench.json and the profiles left for the report, the prompt of a later run  *)
(* and the tools are those of the setting handed over, not of a trial's.       *)
ArtifactsDescribeHandover ==
    pc \in {"report", "done"} =>
        /\ run_dir.bench = tuning.knobs
        /\ \A p \in Profilers : run_dir.summaries[p] \in {tuning.knobs, Failed}

(* The search comes to an end, whatever fails.                                 *)
SweepEnds == <>(pc \in Over)

(* While the grid is searched the run still stands by the user's own knobs: its*)
(* winner takes over when the confirmation has been decided.  A toggle takes   *)
(* over at once.                                                               *)
Searching == pc \in {"pick", "trial", "confirm"}

PromisePhase ==
    IF pc \in {"interrupted", "failed"} \/ tuning.knobs = Torn THEN "failed"
    ELSE CASE pc = "baseline" -> "new"
           [] pc \in {"plan", "pick", "trial", "confirm", "final", "report"} -> "open"
           [] pc \in {"done", "raised"} -> "closed"

Promise == INSTANCE Incumbent WITH
    Programs <- Settings \cup {Torn},
    paired <- FALSE,
    incumbent <- IF Searching THEN local.current.knobs ELSE tuning.knobs,
    evidence <- IF Searching THEN local.current.knobs ELSE evidence,
    score <- IF Searching /\ HasSweep(config) THEN local.baseline ELSE local.best_value,
    phase <- PromisePhase

(* The search implements the abstract incumbent: no setting is handed over     *)
(* that did not beat the one before it, and no score that was measured on      *)
(* another setting.                                                            *)
SweepKeepsPromise == Promise!Spec
=============================================================================
