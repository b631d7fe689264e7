------------------------------ MODULE AgentLoop ------------------------------
(* One optimizer run: perflab.optimizers.agent.run_agent, with its baseline,   *)
(* autotune, drift-check and finalize phases.  The candidates of an iteration  *)
(* are judged in disposable workspace copies, so their evaluation is one step  *)
(* here whose outcome is the one accept_best reports.                          *)
(*                                                                             *)
(* A score is a metric value oriented so that larger is better; a program is   *)
(* the code left by the last accepted patch together with the values in        *)
(* tuning.yaml.                                                                *)
EXTENDS Integers, Sequences, FiniteSets

CONSTANTS
    MaxIters,               \* AgentConfig.max_iters
    Scores,                 \* metric values, larger is better
    Tunings,                \* flat knob settings of tuning.yaml
    InitialTuning,          \* the settings the task ships with
    MaxTrials,              \* autotune.run(max_trials): trials of one sweep
    MaxTurns,               \* tool_loop.DEFAULT_MAX_TURNS
    MaxCallCost,            \* bound: the dearest single provider call
    MaxFailures,            \* ConvergenceDetector.max_consecutive_failures
    TinyGain,               \* ConvergenceDetector.min_relative_improvement (%)
    Tolerance,              \* constraints.regression_tolerance (%)
    DriftPeriod,            \* accepts between two drift checks
    DriftLimit,             \* drift that triggers a re-measure (%)
    Configs                 \* the task and agent settings a run may start with

(* Settings fixed for the run.  max_cost = 0 stands for "no --max-cost, or no  *)
(* price known for the model"; tools is what the provider's supports_tools     *)
(* says, and disk_faults whether best-effort writes may fail.                  *)
Config == [paired : BOOLEAN, early_stop : BOOLEAN, max_cost : Nat, tools : BOOLEAN,
           tuning_editable : BOOLEAN, sweep : BOOLEAN, disk_faults : BOOLEAN]

ASSUME LoopAssumption ==
    /\ MaxIters \in Nat
    /\ MaxTrials \in Nat \ {0}
    /\ MaxTurns \in Nat
    /\ MaxCallCost \in Nat
    /\ MaxFailures \in Nat \ {0}
    /\ DriftPeriod \in Nat \ {0}
    /\ Tolerance \in Nat /\ TinyGain \in Nat /\ DriftLimit \in Nat
    /\ Scores # {} /\ Scores \subseteq Nat \ {0}
    /\ InitialTuning \in Tunings
    /\ Configs \subseteq Config

VARIABLES
    config,                 \* the settings of this run
    pc,                     \* the phase run_agent is in
    ctx,                    \* the AgentContext fields that survive a phase
    ws,                     \* the live workspace
    reply,                  \* what generate.run made of the LLM's answer
    round,                  \* what accept_best returned this iteration
    trial,                  \* the locals of _auto_tune_sweep
    run_dir,                \* state.json and the status in meta.json
    ghost                   \* what was really measured, and whether a crash
                            \* caught the run between two records (history variable)

vars == <<config, pc, ctx, ws, reply, round, trial, run_dir, ghost>>

-----------------------------------------------------------------------------
(* Scores and programs.                                                        *)

Gap(a, b) == IF a >= b THEN a - b ELSE b - a

Beats(new, old) == new * 100 > old * (100 + Tolerance)

GainOf(new, old) == IF Gap(new, old) * 100 < TinyGain * old THEN "tiny" ELSE "clear"

Drifted(measured, expected) == Gap(measured, expected) * 100 > DriftLimit * expected

Unknown == -1               \* code nobody recorded: a half-applied patch, or no build yet

Program == [code : Int, tuning : Tunings]

ProgramIn(w) == [code |-> w.code, tuning |-> w.tuning]

BaselineProgram == [code |-> 0, tuning |-> InitialTuning]

-----------------------------------------------------------------------------
(* History entries, the convergence detector, state.json.                      *)

Kinds == {"baseline", "accepted", "tuned", "rejected", "no candidates", "early stop"}

Entry == [iteration : Nat, kind : Kinds]

(* Mutant: the history keeps one entry per iteration, the latest.              *)
LoggedOncePerIteration(c, kind) ==
    [c EXCEPT !.history =
        Append(SelectSeq(@, LAMBDA e : e.iteration # c.iteration),
               [iteration |-> c.iteration, kind |-> kind])]

Logged(c, kind) ==
    [c EXCEPT !.history = Append(@, [iteration |-> c.iteration, kind |-> kind])]

RecordFailure(c) == IF config.early_stop THEN [c EXCEPT !.failures = @ + 1] ELSE c

(* Only the last two gains are ever read, so only they are kept.               *)
RecordImprovement(c, gain) ==
    IF ~config.early_stop THEN c
    ELSE [c EXCEPT !.failures = 0,
                   !.recent = IF Len(@) < 2 THEN Append(@, gain) ELSE <<@[2], gain>>]

(* Mutant: off by one, one idle iteration too many.                            *)
ShouldStopLate(c) ==
    /\ config.early_stop
    /\ \/ c.failures > MaxFailures
       \/ c.recent = <<"tiny", "tiny">>

ShouldStop(c) ==
    /\ config.early_stop
    /\ \/ c.failures >= MaxFailures
       \/ c.recent = <<"tiny", "tiny">>

Snapshot(c) == [iteration |-> c.iteration, best_value |-> c.best_value,
                best_iter |-> c.best_iter, accepted_count |-> c.accepted_count,
                entries |-> Len(c.history), stop |-> c.stop]

NoSnapshot == [iteration |-> 0, best_value |-> 0, best_iter |-> 0,
               accepted_count |-> 0, entries |-> 0, stop |-> "none"]

(* _write_state_snapshot: best effort, so a faulty disk keeps the old file.    *)
StateWrites(c) ==
    {[run_dir EXCEPT !.state = Snapshot(c)]}
        \cup (IF config.disk_faults THEN {run_dir} ELSE {})

(* The reason a run that crashed gives, unless it has given one already.       *)
Crashed(c) == [c EXCEPT !.stop = IF @ = "none" THEN "crashed" ELSE @]

(* The end of an iteration: state.json, then the early-stop decision, whose    *)
(* reason is set before the event log and the history have it.  An exception   *)
(* or a Ctrl-C may come before state.json, after it, or once the reason is set.*)
CloseIteration(c) ==
    LET stopped == [c EXCEPT !.stop = "converged"]
    IN  \/ /\ ~ShouldStop(c)
           /\ run_dir' \in StateWrites(c)
           /\ ctx' = c
           /\ pc' = "top"
        \/ /\ ShouldStop(c)
           /\ run_dir' \in StateWrites(c)
           /\ ctx' = Logged(stopped, "early stop")
           /\ pc' = "finalize"
        \/ /\ run_dir' \in {run_dir} \cup StateWrites(c)
           /\ ctx' \in {Crashed(c)} \cup (IF ShouldStop(c) THEN {stopped} ELSE {})
           /\ pc' = "abort"

-----------------------------------------------------------------------------
(* The protected files.  Programs run in the live workspace may rewrite them;  *)
(* verify_protected_files puts the originals back, best effort.                *)

Executed(w) == {w, [w EXCEPT !.tests = "rewritten"]}

(* Mutant: modified files are reported and left as they are.                   *)
VerifiedReportOnly(w) == {w}

Verified(w) ==
    {[w EXCEPT !.tests = "original"]} \cup (IF config.disk_faults THEN {w} ELSE {})

(* The run_profiler tool: while the LLM composes its answer it may have the    *)
(* incumbent's benchmark run in the live workspace.                            *)
Diagnosed(w) == IF config.tools /\ w.code # 0 THEN Executed(w) ELSE {w}

NoRound == [accepted |-> FALSE, value |-> 0, gain |-> "clear"]

NoTrial == [todo |-> {}, best |-> 0, winner |-> {}, measured |-> BaselineProgram,
            original |-> InitialTuning, vetted |-> TRUE]

Replies == {"none", "unparsable", "candidates", "failed"}

Gains == {"tiny", "clear"}

Stops == {"none", "cost", "converged", "crashed"}

Context == [iteration : 0 .. MaxIters, best_value : Nat, best_iter : 0 .. MaxIters,
            baseline_val : Nat, accepted_count : Nat, history : Seq(Entry),
            failures : Nat, recent : Seq(Gains), stop : Stops, spend : Nat]

Workspace == [code : Int, tuning : Tunings, sweep : BOOLEAN, built : Program,
              tests : {"original", "rewritten"}]

Round == [accepted : BOOLEAN, value : Nat, gain : Gains]

Trial == [todo : SUBSET Tunings, best : Nat, winner : SUBSET Tunings,
          measured : Program, original : Tunings, vetted : BOOLEAN]

RunDir == [state : [iteration : Nat, best_value : Nat, best_iter : Nat,
                    accepted_count : Nat, entries : Nat, stop : Stops],
           status : {"unset", "completed", "failed"}]

Ghost == [best_of : Program, base_of : Program, sweep : BOOLEAN, derailed : BOOLEAN]

LoopPhases == {"top", "generate", "cost", "judge", "protect", "autotune",
               "sweeping", "reprofile", "drift", "verify"}

Phases == LoopPhases \cup {"baseline", "finalize", "abort", "returned", "raised"}

Init ==
    /\ config \in Configs
    /\ pc = "baseline"
    /\ ctx = [iteration |-> 0, best_value |-> 0, best_iter |-> 0, baseline_val |-> 0,
              accepted_count |-> 0, history |-> <<>>, failures |-> 0, recent |-> <<>>,
              stop |-> "none", spend |-> 0]
    /\ ws = [code |-> 0, tuning |-> InitialTuning, sweep |-> config.sweep,
             built |-> [code |-> Unknown, tuning |-> InitialTuning], tests |-> "original"]
    /\ reply = "none"
    /\ round = NoRound
    /\ trial = NoTrial
    /\ run_dir = [state |-> NoSnapshot, status |-> "unset"]
    /\ ghost = [best_of |-> BaselineProgram, base_of |-> BaselineProgram,
                sweep |-> config.sweep, derailed |-> FALSE]

-----------------------------------------------------------------------------
(* baseline.run: build, check and measure the program as given.  An error here *)
(* is outside run_agent's try, so it propagates with no report.                *)

MeasureBaseline ==
    /\ pc = "baseline"
    /\ \E v \in Scores :
         ctx' = Logged([ctx EXCEPT !.best_value = v, !.baseline_val = v], "baseline")
    /\ ws' = [ws EXCEPT !.built = ProgramIn(ws)]
    /\ pc' = "top"
    /\ UNCHANGED <<config, reply, round, trial, run_dir, ghost>>

BaselineFails ==
    /\ pc = "baseline"
    /\ pc' = "raised"
    /\ UNCHANGED <<config, ctx, ws, reply, round, trial, run_dir, ghost>>

-----------------------------------------------------------------------------
(* The head of the loop and the wall-clock budget.                             *)

IterationsExhausted ==
    /\ pc = "top"
    /\ ctx.iteration = MaxIters
    /\ pc' = "finalize"
    /\ UNCHANGED <<config, ctx, ws, reply, round, trial, run_dir, ghost>>

(* Mutant: off by one, one iteration too many.                                 *)
StartIterationOffByOne ==
    /\ pc = "top"
    /\ ctx.iteration <= MaxIters
    /\ ctx' = [ctx EXCEPT !.iteration = @ + 1]
    /\ round' = NoRound
    /\ pc' = "generate"
    /\ UNCHANGED <<config, ws, reply, trial, run_dir, ghost>>

StartIteration ==
    /\ pc = "top"
    /\ ctx.iteration < MaxIters
    /\ ctx' = [ctx EXCEPT !.iteration = @ + 1]
    /\ round' = NoRound
    /\ pc' = "generate"
    /\ UNCHANGED <<config, ws, reply, trial, run_dir, ghost>>

(* Leaves early_stop_reason unset, and leaves the loop without a state.json.   *)
WallClockExceeded ==
    /\ pc = "top"
    /\ ctx.iteration < MaxIters
    /\ ctx' = Logged([ctx EXCEPT !.iteration = @ + 1], "early stop")
    /\ pc' = "finalize"
    /\ UNCHANGED <<config, ws, reply, round, trial, run_dir, ghost>>

-----------------------------------------------------------------------------
(* generate.run, then _update_and_check_cost_limit.                            *)

(* run_tool_loop: one plain call, or with tools as many turns as the model asks*)
(* for and a last call without them.                                           *)
CallsPerAnswer == IF config.tools THEN MaxTurns + 1 ELSE 1

AnswerCost == CallsPerAnswer * MaxCallCost

(* The tool loop answers; the tokens of all its calls are charged whether or   *)
(* not an edit block could be parsed from the answer.                          *)
LLMAnswers ==
    /\ pc = "generate"
    /\ reply' \in {"unparsable", "candidates"}
    /\ \E cost \in 0 .. AnswerCost : ctx' = [ctx EXCEPT !.spend = @ + cost]
    /\ ws' \in Diagnosed(ws)
    /\ pc' = "cost"
    /\ UNCHANGED <<config, round, trial, run_dir, ghost>>

(* Context overflow, and the retry with a trimmed prompt failed as well.       *)
LLMFails ==
    /\ pc = "generate"
    /\ reply' = "failed"
    /\ ws' \in Diagnosed(ws)
    /\ pc' = "cost"
    /\ UNCHANGED <<config, ctx, round, trial, run_dir, ghost>>

(* Mutant: the limit must be exceeded, not reached.                            *)
OverBudgetStrictly == config.max_cost > 0 /\ ctx.spend > config.max_cost

OverBudget == config.max_cost > 0 /\ ctx.spend >= config.max_cost

(* Here too the reason is set before the event log and the history have it.    *)
CostLimitReached ==
    /\ pc = "cost"
    /\ OverBudget
    /\ LET stopped == [ctx EXCEPT !.stop = "cost"]
       IN  \/ ctx' = Logged(stopped, "early stop") /\ pc' = "finalize"
           \/ ctx' = stopped /\ pc' = "abort"
    /\ UNCHANGED <<config, ws, reply, round, trial, run_dir, ghost>>

(* Mutant: `continue` before state.json is written.                            *)
SkipIterationSilently ==
    /\ pc = "cost"
    /\ ~OverBudget
    /\ reply = "failed"
    /\ pc' = "top"
    /\ UNCHANGED <<config, ctx, ws, reply, round, trial, run_dir, ghost>>

(* Mutant: a failed call is tried again in the same iteration.                 *)
SkipIterationRetries ==
    /\ pc = "cost"
    /\ ~OverBudget
    /\ reply = "failed"
    /\ run_dir' \in StateWrites(ctx)
    /\ ctx' = [ctx EXCEPT !.iteration = @ - 1]
    /\ pc' = "top"
    /\ UNCHANGED <<config, ws, reply, round, trial, ghost>>

(* A failed call writes state.json but is not a failure to the detector.       *)
SkipIteration ==
    /\ pc = "cost"
    /\ ~OverBudget
    /\ reply = "failed"
    /\ run_dir' \in StateWrites(ctx)
    /\ pc' = "top"
    /\ UNCHANGED <<config, ctx, ws, reply, round, trial, ghost>>

NoCandidates ==
    /\ pc = "cost"
    /\ ~OverBudget
    /\ reply = "unparsable"
    /\ CloseIteration(RecordFailure(Logged(ctx, "no candidates")))
    /\ UNCHANGED <<config, ws, reply, round, trial, ghost>>

HasCandidates ==
    /\ pc = "cost"
    /\ ~OverBudget
    /\ reply = "candidates"
    /\ pc' = "judge"
    /\ UNCHANGED <<config, ctx, ws, reply, round, trial, run_dir, ghost>>

-----------------------------------------------------------------------------
(* Prescreening, evaluation and accept_best, by outcome.  With a paired rule   *)
(* the candidate is compared with a fresh measurement of the incumbent, so its *)
(* value need not beat the score on record.                                    *)

Patched(tuning, sweep) ==
    [ws EXCEPT !.code = ctx.iteration, !.tuning = tuning, !.sweep = sweep]

(* Mutant: candidates are compared with the baseline, not with the incumbent.  *)
PromotableOverBaseline(v, tuning, sweep) ==
    /\ Beats(v, ctx.baseline_val) \/ config.paired
    /\ config.tuning_editable \/ (tuning = ws.tuning /\ sweep = ws.sweep)

Promotable(v, tuning, sweep) ==
    /\ Beats(v, ctx.best_value) \/ config.paired
    /\ config.tuning_editable \/ (tuning = ws.tuning /\ sweep = ws.sweep)

Scored(v) == [ctx EXCEPT !.best_value = v, !.best_iter = ctx.iteration]

Recorded(v) == [Logged(Scored(v), "accepted") EXCEPT !.accepted_count = @ + 1]

Promoted(tuning, sweep) ==
    [ghost EXCEPT !.sweep = sweep, !.best_of = [code |-> ctx.iteration, tuning |-> tuning]]

AcceptBest ==
    /\ pc = "judge"
    /\ \E v \in Scores, tuning \in Tunings, sweep \in BOOLEAN :
         /\ Promotable(v, tuning, sweep)
         /\ ws' = Patched(tuning, sweep)
         /\ ctx' = Recorded(v)
         /\ round' = [accepted |-> TRUE, value |-> v, gain |-> GainOf(v, ctx.best_value)]
         /\ ghost' = Promoted(tuning, sweep)
    /\ pc' = "protect"
    /\ UNCHANGED <<config, reply, trial, run_dir>>

RejectAll ==
    /\ pc = "judge"
    /\ ctx' = Logged(ctx, "rejected")
    /\ pc' = "verify"
    /\ UNCHANGED <<config, ws, reply, round, trial, run_dir, ghost>>

(* The check between the accept and the sweep.                                 *)
ProtectBeforeSweep ==
    /\ pc = "protect"
    /\ ws' \in Verified(ws)
    /\ pc' = "autotune"
    /\ UNCHANGED <<config, ctx, reply, round, trial, run_dir, ghost>>

-----------------------------------------------------------------------------
(* autotune.run: try the knob settings of tuning.yaml's sweep section in the   *)
(* live workspace.  A trial file has no sweep section.                         *)

(* No tuning.yaml, no sweep section in it, or a malformed one.                 *)
NothingToSweep ==
    /\ pc = "autotune"
    /\ ~ws.sweep
    /\ pc' = "reprofile"
    /\ UNCHANGED <<config, ctx, ws, reply, round, trial, run_dir, ghost>>

StartSweep ==
    /\ pc = "autotune"
    /\ ws.sweep
    /\ \E todo \in SUBSET Tunings :
         /\ IsFiniteSet(todo) /\ Cardinality(todo) \in 1 .. MaxTrials
         /\ trial' = [NoTrial EXCEPT !.todo = todo, !.best = ctx.best_value,
                                     !.original = ws.tuning]
    /\ pc' = "sweeping"
    /\ UNCHANGED <<config, ctx, ws, reply, round, run_dir, ghost>>

TrialFile(t) == [ws EXCEPT !.tuning = t, !.sweep = FALSE]

Tuned(t) == [ws EXCEPT !.tuning = t, !.sweep = TRUE]

Rebuilt(w) == [w EXCEPT !.built = ProgramIn(w)]

(* The build fails, or the tests do: the setting is skipped.                   *)
TrialRejected(t) ==
    /\ pc = "sweeping"
    /\ ws' \in {TrialFile(t)} \cup Executed(Rebuilt(TrialFile(t)))
    /\ trial' = [trial EXCEPT !.todo = @ \ {t}]
    /\ UNCHANGED <<config, pc, ctx, reply, round, run_dir, ghost>>

(* Mutant: a tie wins.                                                         *)
TrialMeasuredTiesWin(t) ==
    /\ pc = "sweeping"
    /\ ws' \in Executed(Rebuilt(TrialFile(t)))
    /\ \E v \in Scores, met \in BOOLEAN :
         trial' = IF v >= trial.best
                    THEN [trial EXCEPT !.todo = @ \ {t}, !.best = v, !.winner = {t},
                                       !.measured = ws'.built, !.vetted = met]
                    ELSE [trial EXCEPT !.todo = @ \ {t}]
    /\ UNCHANGED <<config, pc, ctx, reply, round, run_dir, ghost>>

(* Any gain at all wins.  The contract is not consulted: met says whether this *)
(* benchmark honoured it.                                                      *)
TrialMeasured(t) ==
    /\ pc = "sweeping"
    /\ ws' \in Executed(Rebuilt(TrialFile(t)))
    /\ \E v \in Scores, met \in BOOLEAN :
         trial' = IF v > trial.best
                    THEN [trial EXCEPT !.todo = @ \ {t}, !.best = v, !.winner = {t},
                                       !.measured = ws'.built, !.vetted = met]
                    ELSE [trial EXCEPT !.todo = @ \ {t}]
    /\ UNCHANGED <<config, pc, ctx, reply, round, run_dir, ghost>>

(* Mutant: the values are written back, the sweep section is not.              *)
RestoreValuesOnly(w) ==
    /\ ws' = [w EXCEPT !.tuning = trial.original]
    /\ UNCHANGED ghost

RestoreTuning(w) ==
    \/ /\ ws' = [w EXCEPT !.tuning = trial.original, !.sweep = TRUE]
       /\ UNCHANGED ghost
    \/ /\ config.disk_faults
       /\ ws' = w
       /\ ghost' = [ghost EXCEPT !.derailed = TRUE]

(* An exception in a trial ends the sweep; tuning.yaml is put back.            *)
SweepAborts(t) ==
    /\ pc = "sweeping"
    /\ \E w \in {ws, TrialFile(t)} \cup Executed(Rebuilt(TrialFile(t))) : RestoreTuning(w)
    /\ trial' = NoTrial
    /\ pc' = "reprofile"
    /\ UNCHANGED <<config, ctx, reply, round, run_dir>>

(* Mutant: the file of the last trial is taken for the winner's.               *)
SweepKeepsLastTrial ==
    /\ pc = "sweeping"
    /\ trial.todo = {}
    /\ trial.winner # {}
    /\ ws' = [ws EXCEPT !.sweep = TRUE]
    /\ ctx' = Logged([ctx EXCEPT !.best_value = trial.best], "tuned")
    /\ ghost' = [ghost EXCEPT !.best_of = trial.measured]
    /\ trial' = NoTrial
    /\ pc' = "reprofile"
    /\ UNCHANGED <<config, reply, round, run_dir>>

SweepFindsBetter ==
    /\ pc = "sweeping"
    /\ trial.todo = {}
    /\ \E t \in trial.winner : ws' = Tuned(t)
    /\ ctx' = Logged([ctx EXCEPT !.best_value = trial.best], "tuned")
    /\ ghost' = [ghost EXCEPT !.best_of = trial.measured]
    /\ trial' = NoTrial
    /\ pc' = "reprofile"
    /\ UNCHANGED <<config, reply, round, run_dir>>

(* No winner, or saving or logging the winner failed.                          *)
SweepKeepsOriginal ==
    /\ pc = "sweeping"
    /\ trial.todo = {}
    /\ trial.winner = {} \/ config.disk_faults
    /\ \E w \in {ws} \cup {Tuned(t) : t \in trial.winner} : RestoreTuning(w)
    /\ trial' = NoTrial
    /\ pc' = "reprofile"
    /\ UNCHANGED <<config, ctx, reply, round, run_dir>>

-----------------------------------------------------------------------------
(* reprofile_after_accept: rebuild, check and profile the incumbent, and every *)
(* DriftPeriod accepts measure it again.                                       *)

(* Mutant: what is built is profiled as it is.                                 *)
ReprofileWithoutBuild ==
    /\ pc = "reprofile"
    /\ ws' \in Executed(ws)
    /\ pc' = IF ctx.accepted_count % DriftPeriod = 0 THEN "drift" ELSE "verify"
    /\ UNCHANGED <<config, ctx, reply, round, trial, run_dir, ghost>>

Reprofile ==
    /\ pc = "reprofile"
    /\ ws' \in Executed(Rebuilt(ws))
    /\ pc' = IF ctx.accepted_count % DriftPeriod = 0 THEN "drift" ELSE "verify"
    /\ UNCHANGED <<config, ctx, reply, round, trial, run_dir, ghost>>

(* The measurement fails, is within the limit, or the baseline cannot be       *)
(* measured again: everything is kept.                                         *)
DriftIgnored ==
    /\ pc = "drift"
    /\ ws' \in Executed(ws)
    /\ pc' = "verify"
    /\ UNCHANGED <<config, ctx, reply, round, trial, run_dir, ghost>>

(* remeasure_baseline: baseline.zip, unpacked over a copy of the live          *)
(* workspace, restores the files the edit policy lets patches touch.           *)
BaselineRemeasured ==
    /\ pc = "drift"
    /\ ws' \in Executed(ws)
    /\ \E now \in Scores, then \in Scores :
         /\ Drifted(now, round.value)
         /\ ctx' = [ctx EXCEPT !.best_value = now, !.baseline_val = then]
    /\ ghost' = [ghost EXCEPT
                   !.best_of = ws.built,
                   !.base_of = [code |-> 0,
                                tuning |-> IF config.tuning_editable THEN InitialTuning
                                                                     ELSE ws.tuning]]
    /\ pc' = "verify"
    /\ UNCHANGED <<config, reply, round, trial, run_dir>>

(* The rest of the iteration: verify the protected files, tell the detector,   *)
(* write state.json, decide on an early stop.                                  *)
EndIteration ==
    /\ pc = "verify"
    /\ ws' \in Verified(ws)
    /\ CloseIteration(IF round.accepted THEN RecordImprovement(ctx, round.gain)
                                        ELSE RecordFailure(ctx))
    /\ UNCHANGED <<config, reply, round, trial, ghost>>

-----------------------------------------------------------------------------
(* Exceptions and Ctrl-C inside the loop, and finalize.run.                    *)

Abort(c) ==
    /\ pc' = "abort"
    /\ ctx' = Crashed(c)
    /\ UNCHANGED <<config, reply, round, trial, run_dir>>

(* A Ctrl-C anywhere, or an error that is not a candidate's own: the LLM call, *)
(* prescreening, a re-benchmark, a metric missing from bench.json.             *)
LoopRaises ==
    /\ pc \in LoopPhases \ {"sweeping"}
    /\ Abort(ctx)
    /\ ws' \in CASE pc \in {"reprofile", "drift"} -> Executed(ws)
                [] pc = "generate" -> Diagnosed(ws)
                [] pc \notin {"reprofile", "drift", "generate"} -> {ws}
    /\ UNCHANGED ghost

(* The tokens are charged, and the event log or the parser raises.             *)
AnswerLost ==
    /\ pc = "generate"
    /\ \E cost \in 0 .. AnswerCost : Abort([ctx EXCEPT !.spend = @ + cost])
    /\ ws' \in Diagnosed(ws)
    /\ UNCHANGED ghost

(* apply_patch stops half way.                                                 *)
ApplyInterrupted ==
    /\ pc = "judge"
    /\ Abort(ctx)
    /\ ws' = [ws EXCEPT !.code = Unknown]
    /\ ghost' = [ghost EXCEPT !.derailed = TRUE]

(* The patch is applied, and accept_best raises before it returns: with the    *)
(* accept not recorded, partly recorded, or recorded but not yet zipped.       *)
AcceptInterrupted ==
    /\ pc = "judge"
    /\ \E v \in Scores, tuning \in Tunings, sweep \in BOOLEAN :
         /\ Promotable(v, tuning, sweep)
         /\ ws' = Patched(tuning, sweep)
         /\ \/ /\ \E c \in {ctx, Scored(v), Logged(Scored(v), "accepted")} : Abort(c)
               /\ ghost' = [Promoted(tuning, sweep) EXCEPT !.derailed = TRUE]
            \/ /\ Abort(Recorded(v))
               /\ ghost' = Promoted(tuning, sweep)

(* Ctrl-C during the sweep: not an Exception, so tuning.yaml is not put back.  *)
SweepInterrupted ==
    /\ pc = "sweeping"
    /\ Abort(ctx)
    /\ ws' \in {ws} \cup {TrialFile(t) : t \in trial.todo} \cup {Tuned(t) : t \in trial.winner}
    /\ ghost' = [ghost EXCEPT !.derailed = TRUE]

(* The accepted code fails its own re-profile.                                 *)
ReprofileFails ==
    /\ pc = "reprofile"
    /\ Abort(ctx)
    /\ ws' \in Executed(Rebuilt(ws))
    /\ UNCHANGED ghost

(* The summary call runs after the loop, over budget or not; best effort.      *)
Summarised(c) ==
    IF c.best_value # c.baseline_val /\ c.accepted_count > 0
      THEN {[c EXCEPT !.spend = @ + cost] : cost \in 0 .. MaxCallCost}
      ELSE {c}

(* Only user_actions.json is written after the status.                         *)
Finalize ==
    /\ pc = "finalize"
    /\ ctx' \in Summarised(ctx)
    /\ run_dir' = [run_dir EXCEPT !.status = "completed"]
    /\ pc' \in {"returned"} \cup (IF config.disk_faults THEN {"raised"} ELSE {})
    /\ UNCHANGED <<config, ws, reply, round, trial, ghost>>

(* Writing the reports or the meta file raises.                                *)
FinalizeRaises ==
    /\ pc = "finalize"
    /\ ctx' \in Summarised(ctx)
    /\ pc' = "raised"
    /\ UNCHANGED <<config, ws, reply, round, trial, run_dir, ghost>>

(* Mutant: finalize is not told that the loop crashed.                         *)
FinalizeAsCompleted ==
    /\ pc = "abort"
    /\ ctx' \in Summarised(ctx)
    /\ run_dir' \in {run_dir, [run_dir EXCEPT !.status = "completed"]}
    /\ pc' = "raised"
    /\ UNCHANGED <<config, ws, reply, round, trial, ghost>>

FinalizeAfterCrash ==
    /\ pc = "abort"
    /\ ctx' \in Summarised(ctx)
    /\ run_dir' \in {run_dir, [run_dir EXCEPT !.status = "failed"]}
    /\ pc' = "raised"
    /\ UNCHANGED <<config, ws, reply, round, trial, ghost>>

Ended ==
    /\ pc \in {"returned", "raised"}
    /\ UNCHANGED vars

-----------------------------------------------------------------------------
Iterate ==
    \/ IterationsExhausted \/ StartIteration \/ WallClockExceeded
    \/ LLMAnswers \/ LLMFails
    \/ CostLimitReached \/ SkipIteration \/ NoCandidates \/ HasCandidates
    \/ AcceptBest \/ RejectAll \/ ProtectBeforeSweep
    \/ Reprofile \/ DriftIgnored \/ BaselineRemeasured \/ EndIteration

Sweep ==
    \/ NothingToSweep \/ StartSweep
    \/ \E t \in trial.todo : TrialRejected(t) \/ TrialMeasured(t) \/ SweepAborts(t)
    \/ SweepFindsBetter \/ SweepKeepsOriginal

Fault ==
    \/ LoopRaises \/ AnswerLost \/ ReprofileFails
    \/ ApplyInterrupted \/ AcceptInterrupted \/ SweepInterrupted

Conclude ==
    \/ MeasureBaseline \/ BaselineFails
    \/ Finalize \/ FinalizeRaises \/ FinalizeAfterCrash

Next == Iterate \/ Sweep \/ Fault \/ Conclude \/ Ended

Spec == Init /\ [][Next]_vars

(* The loop is one thread and every command and LLM call it waits for has a    *)
(* timeout, so a run that can take a step takes one.                           *)
FairSpec == Spec /\ WF_vars(Iterate \/ Sweep \/ Conclude)

-----------------------------------------------------------------------------
(* Properties.                                                                 *)

(* Every field holds a value the code can store in it.                         *)
TypeOK ==
    /\ config \in Configs
    /\ pc \in Phases
    /\ ctx \in Context
    /\ ws \in Workspace
    /\ reply \in Replies
    /\ round \in Round
    /\ trial \in Trial
    /\ run_dir \in RunDir
    /\ ghost \in Ghost

(* The program the run would hand back: during a sweep, the one the pre-sweep  *)
(* knobs describe.                                                             *)
IncumbentProgram ==
    IF pc = "sweeping" THEN [code |-> ws.code, tuning |-> trial.original]
                       ELSE ProgramIn(ws)

(* best_value was measured on the program the live workspace holds, through    *)
(* accepts, sweeps that win, lose or blow up, drift re-anchoring and crashes   *)
(* outside an apply or a sweep.  The final report and speedup rest on this.    *)
BestDescribesWorkspace ==
    ~ghost.derailed => ghost.best_of = IncumbentProgram

(* When the drift check measures, and when the next iteration copies the       *)
(* workspace, the binary in it was built from the sources and knobs in it: the *)
(* sweep leaves its last trial's build behind and relies on the re-profile.    *)
BinaryIsCurrent ==
    pc \in {"top", "generate", "cost", "judge", "drift", "verify", "finalize"}
        => ws.built = ProgramIn(ws)

(* A sweep never costs the task its sweep section: outside a sweep tuning.yaml *)
(* has one exactly when the last accepted patch (or the task) gave it one.     *)
SweepSectionSurvives ==
    pc # "sweeping" /\ ~ghost.derailed => ws.sweep = ghost.sweep

(* The three records of progress agree: accepted_count counts the accepted     *)
(* entries of the history, best_iter is the last one's iteration, and the live *)
(* workspace holds that iteration's code, sweeps, drift checks and crashes     *)
(* outside an accept notwithstanding.                                          *)
RecordsAgree ==
    LET Accepts == {i \in DOMAIN ctx.history : ctx.history[i].kind = "accepted"}
        Iterations == {ctx.history[i].iteration : i \in Accepts}
    IN  ~ghost.derailed =>
            /\ ctx.accepted_count = Cardinality(Accepts)
            /\ Cardinality(Iterations) = Cardinality(Accepts)
            /\ \A it \in Iterations : it <= ctx.best_iter
            /\ ctx.best_iter \in Iterations \cup {0}
            /\ ctx.best_iter = 0 => Accepts = {}
            /\ ws.code = ctx.best_iter

Idle == {"rejected", "no candidates"}

(* The detector is honest and obeyed: with early stopping on, no iteration     *)
(* starts once the history ends in MaxFailures entries without an improvement; *)
(* a run that says it converged ended that way or with two tiny gains; and the *)
(* history says so too, unless an exception came in between.                   *)
EarlyStopHonoured ==
    LET h == ctx.history
        n == Len(h)
        IdleTail(last) == /\ last >= MaxFailures
                          /\ \A i \in last - MaxFailures + 1 .. last : h[i].kind \in Idle
    IN  /\ pc \in {"top", "generate", "cost"} /\ config.early_stop => ~IdleTail(n)
        /\ ctx.stop = "converged" =>
              /\ h[n].kind = "early stop" \/ pc \in {"abort", "raised"}
              /\ \/ IdleTail(IF h[n].kind = "early stop" THEN n - 1 ELSE n)
                 \/ ctx.recent = <<"tiny", "tiny">>

(* Between iterations state.json is exactly the current context, whichever of  *)
(* the loop's branches the finished iteration took (on a healthy disk).        *)
StateJsonCurrent ==
    pc = "top" /\ ctx.iteration > 0 /\ ~config.disk_faults
        => run_dir.state = Snapshot(ctx)

(* Candidates are copied from, and so judged by, a workspace whose protected   *)
(* files are the original ones, although accepted code has run in it since.    *)
(* Only for a provider without tools: nothing verifies the files between a     *)
(* run_profiler call and the copies, nor on the branches without candidates.   *)
JudgedOnOriginalTests ==
    pc \in {"generate", "cost", "judge"} /\ ~config.disk_faults /\ ~config.tools
        => ws.tests = "original"

(* --max-cost: nothing is evaluated once the estimate has reached the limit,   *)
(* and the whole run overshoots it by less than the calls of one iteration,    *)
(* MaxTurns + 1 with tools since the loop over them never looks at the limit,  *)
(* and the closing summary.  The estimate is what is bounded: the tokens of    *)
(* calls that failed are in no estimate (see Candidate).                       *)
SpendBounded ==
    config.max_cost > 0 =>
        /\ pc \in {"top", "generate", "judge"} => ctx.spend < config.max_cost
        /\ ctx.spend < config.max_cost + AnswerCost + MaxCallCost

(* Whatever a crash leaves behind is called failed: a run whose meta.json says *)
(* completed ends with the program its score was measured on, built from those *)
(* sources and knobs, its sweep section and, for a provider without tools, its *)
(* protected files in place (on a healthy disk).                               *)
CompletedIsIntact ==
    run_dir.status = "completed" /\ ~config.disk_faults =>
        /\ ghost.best_of = ProgramIn(ws)
        /\ ws.built = ProgramIn(ws)
        /\ ws.sweep = ghost.sweep
        /\ ~config.tools => ws.tests = "original"

(* Without a paired rule the score on record only ever rises, except where the *)
(* drift check replaces it by a fresh measurement of the same program.         *)
IncumbentOnlyImproves ==
    [][ctx'.best_value < ctx.best_value
         => \/ config.paired
            \/ /\ pc = "drift"
               /\ ghost.derailed \/ ghost'.best_of = ghost.best_of]_vars

(* "Every sweep configuration is contract-validated": the setting a sweep is   *)
(* about to adopt was measured by a benchmark that honoured the contract.      *)
SweepWinnersMeetContract == trial.winner # {} => trial.vetted

(* "Extracting the zip over a temp copy of the current workspace reconstructs  *)
(* the baseline program": what the drift check re-measures as the baseline is  *)
(* the program of the baseline run, knobs included.                            *)
BaselineReconstructed == ghost.base_of = BaselineProgram

(* A run that is not abandoned by its environment ends.                        *)
RunEnds == <>(pc \in {"returned", "raised"})

(* The phases of module Incumbent that those of the run stand for.             *)
PromisePhase ==
    CASE ghost.derailed -> "failed"
      [] ~ghost.derailed /\ pc = "baseline" -> "new"
      [] ~ghost.derailed /\ pc \in LoopPhases \cup {"finalize", "abort"} -> "open"
      [] ~ghost.derailed /\ pc \in {"returned", "raised"} -> "closed"

Promise == INSTANCE Incumbent WITH
    Programs <- Program,
    paired <- config.paired,
    incumbent <- IncumbentProgram,
    evidence <- ghost.best_of,
    score <- ctx.best_value,
    phase <- PromisePhase

(* Phases, sweeps, drift checks and crashes together implement the abstract    *)
(* incumbent: it changes only to a measured program, and its score is always   *)
(* one measured on it.                                                         *)
KeepsPromise == Promise!Spec

=============================================================================
