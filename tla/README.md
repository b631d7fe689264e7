# Formal models of the PerfLab optimizer

TLA+ modules, TLC configurations and TLAPS proofs kept beside the `perflab`
package. They cover the part of the program whose correctness is about order
and failure: an optimizer run (`perflab agent`), the choice among its candidates
and the life of one of them, the knob search without a model (`perflab
optimize`), the store their results go to, and the MCP server's handling of
several runs.

Check a module with `tlc -config X.cfg M`, its proofs with `tlapm M.tla`.

## The system

| Part | State | Operations | Talks to |
| --- | --- | --- | --- |
| Agent run (`optimizers/agent.py`) | `AgentContext`, `state.json` | `run_agent`, one iteration after another | every phase, through the context |
| Baseline phase | baseline value, `baseline.zip` | measure the program as given | pipeline, run store |
| Generation (`phases/generate.py`, `tool_loop.py`, `tools.py`) | token totals | prompt, tool turns, trimmed retry, parse | LLM provider; `run_profiler` runs the live workspace |
| Prescreen (`phases/prescreen.py`) | a pool of workspace copies | patch, build and test each candidate | runners |
| Evaluation and accept (`phases/evaluate.py`) | best value, history, live workspace | benchmark, re-measure, decide, apply, drift check | runners, decision rules |
| Autotune (`phases/autotune.py`) | `tuning.yaml` in the live workspace | one trial per knob setting, then keep or restore | runners |
| Finalize (`phases/finalize.py`) | status in `meta.json` | summary call, reports | LLM provider, run store |
| Convergence detector | failures in a row, gains | record, ask | agent run |
| Patches (`patch.py`) | protected files and their copies | parse, validate, apply, verify | live workspace |
| Decision rules (`analyzers/decision.py`) | none | tolerance, intervals, pairs | accept phase, `ci-check`, knob sweep |
| Paired runner (`runners/paired.py`) | two workspace copies | interleaved blocks | accept phase |
| Knob sweep (`orchestrator.py`) | `tuning.yaml`, rows | grid or legacy search, confirmation | runners, decision rules |
| Run store (`memory/run_store.py`) | `index.jsonl`, `meta.json` per run | new, list, get, update | all of the above |
| Job manager (`server/agent_tools.py`) | agent lock, job registry | `start_agent`, `optimize_task`, poll | agent run, in other threads |
| Providers, profilers, analyzers, reports, harness, CLI | none that another part decides on | | |

What is hard here:

* **Accepted code runs in the live workspace.** The sweep, the re-profile and
  the drift check build and execute it there; each leaves files behind (a
  binary, a `tuning.yaml` without its sweep section, a rewritten `tests.py`)
  that a later step must put right.
* **Several records of one fact.** The score, the program it was measured on,
  the history, `accepted_count`, `best_iter`, `state.json` and the detector are
  updated by different functions, on a dozen paths through an iteration.
* **Failure part way.** Best-effort handlers catch `Exception`; Ctrl-C is none.
  Writes to disk may fail where the code only logs.
* **Machine drift.** A score may be replaced by a later measurement, of what has
  to be the same program.
* **A choice among many.** Candidates are prescreened in parallel, ranked by a
  cheap measurement, re-measured within a budget in one of three ways, and judged
  by one of three rules; what is accepted has to deserve it on every path.
* **Edits that shift each other.** Blocks are validated against a file and applied
  to what earlier blocks made of it, several times over, in several copies.
* **Readers beside writers.** The files of the run store are appended to, or
  truncated and rewritten, without a lock.
* **Cancellation.** The lock of the job manager is taken in one thread, released
  in another, and outlives neither a cancelled coroutine's thread nor a leak.

What makes each part correct is listed below with the module that states it; the
full list of hazards, with their lines, is in `PROJECT.json`.

## Modules

| Module | Models |
| --- | --- |
| `AgentLoop` | one run: baseline, loop, accept by outcome, sweep, drift check, finalize, crashes |
| `Incumbent` | the promise of a run, without phases or files |
| `MCAgentLoop` | the instance of `AgentLoop` for TLC |
| `AgentLoop_proofs`, `AgentLoop_records`, `AgentLoop_refinement` | theorems about `AgentLoop`: score and workspace; budget, history and detector; that it implements `Incumbent` |
| `Beam` | one iteration between the parsed candidates and the failure memory: prescreen pool, evaluation, `accept_best` |
| `MCBeam`, `Beam_proofs` | its instance for TLC, and theorems |
| `Candidate` | one candidate: the dialogue it comes from, the validation of its blocks, the copies it is judged in, the live file |
| `MCCandidate`, `Candidate_proofs` | its instance for TLC, and theorems |
| `KnobSweep` | `perflab optimize`: grid or toggles, confirmation, final profile; implements `Incumbent` as well |
| `MCKnobSweep`, `KnobSweep_proofs` | its instance for TLC, and theorems |
| `RunStore` | `index.jsonl`, `meta.json` and `report.json` of several runs, and a client that reads them |
| `MCRunStore`, `RunStore_proofs` | its instance for TLC, and theorems |
| `AgentJobs`, `AgentJobs_proofs` | the job manager, and theorems about its lock and registry |

The modules meet at the places they abstract from each other. `AcceptBest` of
`AgentLoop` is an iteration of `Beam`, held together by `OutcomeAllowed`. A
candidate of `Beam` is one of `Candidate`, whose `Accept` is the `apply_patch` of
`AgentLoop`. `AgentJobs` takes an agent run that ends for granted, which is
`RunEnds`. `AgentLoop` and `KnobSweep` rewrite the same `tuning.yaml` and refine one
abstract specification. They all register their runs in `RunStore`.

### AgentLoop

A score is a metric value oriented so that larger is better; a program is the
code of the last accepted patch (named by its iteration) with the knob values of
`tuning.yaml`. The variables:

* `pc` is the phase `run_agent` is in; one action takes the run from one phase to
  the next, or goes on with the sweep.
* `ctx` is the `AgentContext` cut down to what survives a phase. `spend` is
  `total_estimated_cost_usd`, `failures` and `recent` are the detector's fields
  (only the last two gains are ever read), `stop` is `early_stop_reason`.
* `ws` is the live workspace: code, knobs, whether `tuning.yaml` has a sweep
  section, the program the binary was built from, and whether the protected
  files are the original ones.
* `reply` and `round` are what `generate.run` and `accept_best` returned; `trial`
  holds the locals of `_auto_tune_sweep`.
* `run_dir` is `state.json` and the status in `meta.json`.
* `ghost` is a history variable: the program the score was measured on, the
  program the baseline was last measured on, whether the task has a sweep
  section, and `derailed`: a fault hit the run between two writes that belong
  together.

Candidates are evaluated in disposable copies, so prescreening, evaluation and
the choice are one step with the outcomes `accept_best` can report: `AcceptBest`
with any measured score that beats the one on record (any score at all with a
paired rule, which compares with a fresh measurement) or `RejectAll`. A patch may
change `tuning.yaml` only when `edit_policy.allowed_paths` holds it.

An iteration asks the model once, or with tools up to `MaxTurns + 1` times
(`CallsPerAnswer`, the loop of `run_tool_loop`), and charges all of it at once;
only then is the limit looked at. Where the code sets `early_stop_reason` before it
writes the event log and the history (`CostLimitReached`, `CloseIteration`), an
exception may come in between, so the reason can stand without its entry.

Faults: an exception or Ctrl-C in any phase (`LoopRaises`), after the tokens of an
answer are charged and before anything is made of it (`AnswerLost`), at the end of
an iteration (in `CloseIteration`), half way through `apply_patch` (`ApplyInterrupted`), after it but before `accept_best` returns
(`AcceptInterrupted`), inside a sweep (`SweepAborts` for exceptions, which are
caught, `SweepInterrupted` for Ctrl-C, which is not), in the re-profile, in
finalize and in the finalize of the crash path. With `disk_faults` each
best-effort write may silently fail.

`TrialRejected`, `TrialMeasured` and `SweepAborts` take the settings of a sweep in
any order, which includes the list order of the code. Nobody else is assumed to edit the
workspace while a run is on.

What a run must keep, and why it is not obvious:

* `BestDescribesWorkspace`: the score was measured on the program in the
  workspace, after sweeps that win, lose or blow up, and after a drift check that
  compares with the score before the sweep.
* `BinaryIsCurrent`: the binary next candidates are copied with, and the drift
  check measures, is built from the sources beside it.
* `SweepSectionSurvives`: trial files have no sweep section, so every exit of the
  sweep must write it back.
* `RecordsAgree`: history, `accepted_count`, `best_iter` and the workspace's code.
* `EarlyStopHonoured`, `StateJsonCurrent`: every branch of an iteration feeds the
  detector and writes `state.json` before the next one starts; a run that says it
  converged has the idle tail or the tiny gains, and the entry, unless it crashed
  in between.
* `JudgedOnOriginalTests`: candidates are judged in copies with the original
  tests although accepted code has run in the workspace. It is stated for
  providers without tools: with them (`config.tools`) a model may call
  `run_profiler`, which executes the accepted program in the live workspace
  (`Diagnosed`) after the last verification and before the candidates' copies are
  made. `docs/DESIGN.md:21` does not reckon with that; it is listed as a hazard.
* `SpendBounded`: nothing is evaluated at or over `--max-cost`; a run overshoots by
  less than the calls of one iteration (one, or `MaxTurns + 1` with tools, since the
  check comes after the whole dialogue) and the closing summary, which is not
  checked.
* `CompletedIsIntact`: the faults that leave the workspace, its binary, its tests or
  the records in disorder end in a run called failed; on a healthy disk one called
  completed ends with the program of its score, built as it stands, its sweep
  section and, without tools, its tests. The invariants above excuse derailed
  runs; this one says that nobody is told such a run is complete.
* `IncumbentOnlyImproves`: an action property; without pairing only a drift
  check of the same program lowers the score.
* `KeepsPromise`: all of it implements `Incumbent`, under the mapping "program
  with the knobs before the sweep".
* `RunEnds`: no branch of an iteration can repeat for ever.

`ghost.derailed` excuses exactly the faults after which the code itself cannot know
what the workspace holds; in the abstract run those are the `Fail` step.

### Beam

`AgentLoop` has an iteration's choice as one step with the outcomes `AcceptBest` and
`RejectAll`; `Beam` is what that step stands for. `config` holds the settings
that matter (`fast_screen`, the rule `rule_for_constraints` resolves, `top_k`,
whether the sanitizer gate applies). The steps are

* `prescreen`: `WorkerStarts` and `WorkerEnds` of a pool with `Slots` threads, then
  `CollectPrescreen`, which puts the failures at the head of `candidates`;
* `evaluate`: one survivor after another scores, is rejected with an error that
  carries its number, or is found invalid after all (`CandidateInvalid`);
* `choose`, `paired`, `full`, `sanitize`: `accept_best`. `scored` is its ranking and
  `idx` the place of its loop; `paired` may give up (`PairedUnavailable`) and go on
  to `full`; `full` may reject or raise;
* `decided`: `Settle` writes the failure memory; `settled` and `raised` are final.

Candidates are named by the number `ci + 1` of the code's messages. An error is the
candidate it is about (`of`) and the number its text names (`names`, 0 for
none), which is all the failure memory reads of it. The statistical rules are sets
of possible verdicts on two scores: with the spread of the samples left out, a
test may turn down any candidate that clears the floor. `basis` (what a value
is a measurement of) and `remeasured` are history variables, `incumbent` the
other side of the last comparison. Left out: more than nine candidates (where
one number is part of another), errors of the generation (they name nobody),
Ctrl-C (in `AgentLoop`), and what the code prints.

* `AcceptedOnEvidence`: the fast screen accepts nobody. Whoever goes in was measured in
  full or interleaved, and that measurement, the one on record afterwards, beat
  the incumbent it was compared with.
* `OutcomeAllowed`: an action property; the score moves as `Promotable` of
  `AgentLoop` allows, which ties the two modules together.
* `NoContenderMissed`: `top_k` bounds the re-measurements exactly; fallbacks and
  failures are not charged.
* `RankingIgnoresTiming`: the order in which threads finish decides nothing.
* (That each way through the loop's body leaves a reason is proved, as
  `ReasonsGiven`, and checked by no run.)
* `MemoryRightIfAllPass`: with no failed prescreen the failure memory is complete
  and right. With one it is neither (see the findings).
* `BeamEnds`: threads, measurements and the accept loop come to an end.

### AgentJobs

One action per step of `start_agent` in the caller's thread, of `_run` in the
executor's only worker, of the `optimize_task` coroutine up to its awaits, and of
the thread it starts. `threading.Lock` has no owner, so `agent_lock` is a boolean.
`_active_runs` is a function from a job to its place in the insertion order, 0
for one that is not a key; `status` is `"unknown"` for a job that is not listed.
`CancelledInRun` is the client's
cancellation at the await: the `finally` clause releases the lock, a thread that
has begun goes on. `LockHasOneOwner` and `OneAttendedRun` say what the lock still
guarantees, `InFlightListed` that the worker's writes to its entry cannot fail,
`RegistryBounded` and `StatusOnlyAdvances` what eviction may do, `JobsSettle` that
every admitted job reaches a terminal status and the lock comes back.

### Candidate

`dialogue` is the loop of `run_tool_loop`: which attempt (the second has half the
prompt), which turn, and the usage summed up so far; `charged` is what the context
gets. `blocks` are the candidate's SEARCH/REPLACE blocks, `live` the file in the
workspace; `copies` records the file as it was and the text in each copy that was
judged. A text is a sequence of symbols, and there is one file, since blocks of
different files do not touch. The operators are the string functions the code
uses: `Sites` finds a text wherever it is, `Unique` is `str.count(..) == 1`, which
steps over overlaps, `Replaced` is `str.replace(.., 1)`. The fuzzy match may
correct a SEARCH that is not there to any region of the file (which is nearest,
and whether it is near enough, is left open), in place, for every later reader
of the blocks. `Prescreen` and `Evaluate` validate and apply to a copy, `Remeasure`
and `Accept` only apply. An accept may also be cut short, by Ctrl-C or by the disk,
before or in the write of any block (`AcceptInterrupted`), and leaves the file as
far as it got, the block in writing perhaps torn (`Torn`). The answer may be lost
once its tokens are charged (`AnswerLost`). The policy checks, the build and the tests are the
outcomes `PrescreenFails` and `EvaluateFails`.

* `ChargedForAnswer`: the run is charged for all turns of the attempt that answered,
  also when its answer is then lost, and, this being what the code does, for
  nothing of one that overflowed or raised; the number of calls is bounded.
* `EditsAsMeant`: all sites of an accepted SEARCH overlap; and if the blocks' sites
  are apart and no SEARCH can overlap itself, applying them one after another
  is the edit they describe together, although a replacement may create another
  block's text.
* `LiveIsWhatWasJudged`: a finished accept writes the text that was tested and
  measured and never stops at a SEARCH it cannot apply; whatever else ends an
  iteration leaves the file alone. An accept that is cut short is excepted: what it
  leaves is `ApplyInterrupted` of `AgentLoop`, whose run is then called failed.

### KnobSweep

`tuning` is the user's `tuning.yaml`: its knobs (or `Torn`, when writing it failed) and
whether it has its sweep section. `local` holds the locals of `optimize`, `rows` the
rows of its report, `run_dir` which program `bench.json` and each profiler summary
describe. One action per way through the loop body: a trial's pipeline raises,
wins or loses; then the winner is written, confirmed, refused or left
unconfirmed. `run_pipeline` raises at its build, its tests, its benchmark or its
contract check, the last after `bench.json` has been copied. `Interrupted` is
Ctrl-C anywhere, `DiskFails` a failing write.

* `HandedOverAsReported`: when the search is over, `tuning.yaml` holds the setting the
  best value was measured on, with its sweep section, also on the way of an
  exception.
* `RowsTellTheOutcome`: the last accepted row is the reported best, unless a last row
  says that the confirmation failed.
* `ArtifactsDescribeHandover`: `bench.json` and the summaries of the report are those
  of the setting handed over.
* `SweepKeepsPromise`: the search implements `Incumbent`; while a grid is searched
  the run stands by the user's own knobs. `SweepEnds` is its liveness.

### RunStore

Each run goes through `new_run` (directories, a line in the index, `meta.json`), its
report and `update_meta`, one action for each write that a reader or a crash may
come in front of; `Dies` is the end of its process at any point. A line of the
index may be torn by a full disk (`AppendTorn`), and what is appended behind a torn
line is lost with it. `query` is a client that lists the runs, row by row, and
opens one. `ghost` is history: who was registered when a run or a listing began,
and whose status was recorded.

* `ListingComplete`: a listing with room left misses no run that was registered
  when it was asked for, save one for each torn line, and is in order.
* `RecordedIsSeen`: a status once recorded is shown and answered from then on,
  with the run's identity and report; a run that is listed can be opened.

## Runs

| Run | Bounds | Shows |
| --- | --- | --- |
| `agent_loop` | 3 iterations, 3 scores, 2 settings, sweeps of up to 2 trials, calls costing 0 or 1, 1 tool turn, limit 2, 2 failures, drift check every 2nd accept | all properties above hold |
| `agent_loop_contract` | 1 iteration | a sweep can adopt a setting that breaks the contract |
| `agent_loop_baseline` | 2 iterations | the re-measured baseline can carry tuned knobs |
| `beam` | 3 candidates, 2 threads, 4 scores, `top_k` 0 to 2, all modes and rules | all properties of `Beam` hold |
| `beam_culprit` | 2 candidates | a reason is filed under another candidate |
| `beam_forgotten` | 2 candidates | a failed prescreen is not remembered |
| `beam_crash` | 2 candidates | a benchmark that fails in full raises |
| `candidate` | files of up to 4 symbols, 18 blocks, patches of up to 2, 1 tool turn | all properties of `Candidate` hold |
| `knob_sweep` | 3 settings, 4 scores, 1 profiler, 3 trials, 2 rounds, every kind of `tuning.yaml` | all properties of `KnobSweep` hold |
| `run_store` | 3 runs (one per command), a listing of 2, 1 torn line | all properties of `RunStore` hold |
| `agent_jobs` | 3 jobs, 2 calls, 1 terminal job kept | all properties above hold |
| `agent_jobs_one_run` | 1 job, 1 call | a cancelled call lets a second run start |

The bounds are enough for the cases to meet: scores 1000, 1025 and 1100 make
pairs that are a tiny gain, a clear gain, a loss and a drift; three iterations
hold two accepts (so a drift check after a sweep) and another accept, two idle
iterations and a third that must not start, and two tiny gains in a row; two
settings let the last trial differ from the winner; one tool turn makes an answer of
two calls, which can take an iteration from below the limit past it. `MCConfigs` holds the default
task and one departure from it per setting (pairing, an editable `tuning.yaml`
without early stopping, a cost limit with tools, a faulty disk). Smaller numbers replace
the defaults of the code: 5 failures, a check every 3 accepts, 15 trials, 6
tool turns, 50 terminal jobs; the percentages are the code's own. With three jobs and one terminal job kept a
registration must evict while another job is in flight. In `beam` the score on record is
1030 with a tolerance of 2 %: 1000 is a loss, 1040 a gain below the floor and
1100 one above it, so a screen can pass what a full measurement refuses and two
candidates can tie; three candidates and `top_k` 2 leave one behind, and two
threads let the third finish before the first. In `candidate` a file of four symbols
has room for two blocks with something between them, for a text that overlaps
itself and for a replacement that makes another block's text; one SEARCH is in
no file, so that it has to be corrected. In `knob_sweep` 1010 is a gain over 1000
below the floor, so a confirmation can refuse a winner, and two rounds let a
toggle be proposed from a file that a toggle has changed. In `run_store` a listing
of two leaves one of three runs out, and a torn line can be hit by the next
append. No symmetry is used: the agent loop, the job manager, the beam and the
sweep have liveness properties, and the runs of the store differ in kind.

Deadlock is checked everywhere but in `AgentJobs`. `AgentLoop`, `Beam`, `Candidate` and
`KnobSweep` rest in their final places only (`Ended`); a client can always list
the runs of `RunStore` again. `AgentJobs`
may stop: when every call is answered nobody has to
make another.

Fairness. `AgentLoop` assumes weak fairness of the run's own steps, not of faults:
the loop is one thread, every subprocess goes through `run_cmd`, whose default
timeout is 600 s (benchmarks and tests pass shorter ones), and provider calls time
out. `Beam` assumes weak fairness of the iteration as a whole (`WF_vars(Next)`) for
the same reason: each step of it is a subprocess with a timeout or plain code, and
it has no cycle but its rest. `KnobSweep` assumes it of the search's own work
(`WF_vars(Work)`), not of Ctrl-C, again because every pipeline step is a subprocess
with a timeout. `RunStore` and `Candidate` assume none. `AgentJobs` assumes it of each admitted job and each
call separately
(their threads are scheduled by the operating system, their agent runs end
by `RunEnds`), not of making or cancelling calls.

## What the runs found

* `autotune.py:86`: sweep trials are not contract-validated, which
  `docs/ARCHITECTURE.md:1583` says they are.
* `evaluate.py:1067`: the program re-measured as the baseline keeps the tuned
  `tuning.yaml` unless that file is in `allowed_paths`, against the docstring of
  `remeasure_baseline`.
* `agent.py:498`: a failed prescreen shifts the places of the candidates behind
  it, and the failure memory files their errors under other strategies, against
  `docs/ARCHITECTURE.md:1039`.
* `prescreen.py:88`: no error of the prescreen names its candidate, so none
  enters the failure memory, against `docs/SAFETY_CHECKS.md:101` and `:205`.
* `evaluate.py:500`: a benchmark that fails in the full re-measurement ends the run,
  against `docs/SAFETY_CHECKS.md:213-217`.
* `agent_tools.py:268`: cancelling `optimize_task` frees the lock while its run
  goes on, against `docs/ARCHITECTURE.md:2512`.

## What is proved

For all values of the constants that meet `LoopAssumption`, `BeamAssumption`,
`CandidateAssumption`, `SweepAssumption`, `StoreAssumption` and `JobsAssumption` (types,
mostly; also that a torn line is no run's and that texts are sequences of symbols):

* `AgentLoop_proofs`: `TypeCorrect`, and from the invariant `IncumbentInv` the
  theorems `ScoreDescribesWorkspace`, `NoStaleBinary` and `TaskKeepsSweepSection`.
  `BestDescribesWorkspace` is not inductive: a sweep that finds a better setting makes
  the pair (score, program) from its locals, so `SweepInv` says what the winner
  was measured on and that the code did not move meanwhile; and the drift check
  takes the binary for the program, so `BinaryIsCurrent` is part of the
  invariant too. Each group of actions has a lemma.
* `AgentLoop_records`: `LedgerInv` follows cost, `state.json` and tests through
  the phases of an iteration (where they may be out of step, and by how much);
  `BudgetKept`, `StateJsonKept` and `TestsRestored` follow. `IntactInv` adds that on
  a healthy disk a derailed run is on its way out and that only finalize, which
  it finds with a current binary and verified tests, calls a run completed;
  `CompletedRunsAreIntact` follows. `DetectorInv` says
  that the detector's streak is the length of the history's idle tail, which
  lemmas about appending to a sequence carry from one iteration to the next;
  `StopsWhenIdle` follows. `RecordsInv` relates the history, the counters and
  the code in the workspace in the middle of an accept as well; `ProgressIsConsistent`
  follows.
* `AgentLoop_refinement`: `ScoreInv` adds that every score on record was measured
  and that a sweep's best beats it. Every step is then one of five kinds (keeps,
  derails, improves, re-measures, opens), from which `ScoreOnlyImproves` and
  `RunKeepsPromise` (`Spec => Promise!Spec`) follow.
* `Beam_proofs`: `ListInv` (types, the ranking holds listed candidates with a
  score and none twice) gives `TypeCorrect`: that `rebench_budget` stays above zero
  while limited needs the guard of `EnterRemeasure`, that `idx` stays within
  the ranking the guard `Choosing`. `EvidenceInv` says of every candidate at the
  sanitizer gate what `AcceptedOnEvidence` says of an accepted one, and that the score
  on record is still the one of the start; `AcceptsOnEvidence` and `OutcomesAllowed`
  follow. `BudgetInv` counts (budget + re-measured candidates = `top_k`, by
  cardinality, as no candidate is ranked twice) and says that whoever stands before
  `idx` has a reason and was screened out or re-measured; `NobodyMissed` and
  `ReasonsGiven` follow. `OrderInv` keeps the list sorted by number within
  failures and survivors; the sort is stable, hence `RankingDeterministic`.
  `MemoryInv` adds that with no failure in front a candidate's place is its number;
  `FailuresFiledRight` follows.
* `Candidate_proofs`: `CandidateInv` has a bill (while a model is asked, the summed
  usage is what the attempt has cost) and the copies: after the first validation
  every SEARCH is in the live file once, so the second changes nothing, and all
  copies are the same function of the same blocks and file. `AnswersAreCharged`
  and `AcceptsWhatWasJudged` follow. `EditInv` says that what was tested is the
  original with its settled blocks applied. For `EditsAreAsMeant` the file is cut
  into pieces at the sites, and after k blocks the text is the pieces with the
  first k replaced (a stage). A block's SEARCH is unique in the file, and its
  site in a stage, found by stepping over what is in front, is its own piece
  again because no SEARCH overlaps itself (`OneSite`); hence the last stage is the
  edit that was meant. `UniqueOverlap` says that sites of a text counted once overlap.
* `KnobSweep_proofs`: what the file, the rows and the locals have to do with each
  other at each place of `optimize` (`FileInv`, `RowsInv`, `ScoreInv`) gives
  `HandsOverWhatItReports`, `RowsAreHonest`, `ArtifactsAreCurrent` and, step by step, the
  refinement `SweepImplementsIncumbent`.
* `RunStore_proofs`: `StoreInv` says for each stage of a run what its files hold, that
  the index names only runs with a directory, and what a query in progress may
  have read; `RecordedAnswers` follows.
* `AgentJobs_proofs`: `LockInv` adds to `LockHasOneOwner` that a thread at work
  belongs to a call which awaits it or has returned; `LockNeverLeaks` and
  `AttendedRunsAlone` follow. `EntryInv` relates a job's stage to its entry; `WorkerFindsItsEntry`, `RegistryStaysBounded` (eviction
  brings the terminal entries down to the limit, by cardinality) and
  `PollsOnlyAdvance` follow.

Only model-checked: the liveness properties `RunEnds`, `BeamEnds`, `SweepEnds` and
`JobsSettle`, since the prover does not reason about fairness or ENABLED. What is
proved of them is the safety half, with a count (`Remaining`, or `JobLeft` and
`CallLeft`) of the steps that are left on the longest way to the end:

* `AgentLoop_records`: `RunIsBounded` and `EveryStepCounts`. At most
  `MaxIters * (MaxTrials + 10) + 3` steps are left, and every step, a fault too,
  lowers the number.
* `Beam_proofs`: `IterationIsBounded` (`7 * N + 7`) and `EveryStepCounts`, whichever
  thread takes the step.
* `KnobSweep_proofs`: `SearchIsBounded` and `EveryStepCounts`, if there are finitely many
  settings: two steps per trial for a grid, two per setting and round for toggles,
  and six around them.
* `AgentJobs_proofs`: `EveryStepCounts` per job (nine) and call (23), and
  `HoldersNeverWait`: a queued job finds the worker free and an awaited thread exists.

With them a run that is not at its end can only fail to get there by not taking
a step it could take. That it can take one is the deadlock check of `AgentLoop`,
`Beam` and `KnobSweep` and `HoldersNeverWait`, and that it then does is the fairness.

Induction over data: the library's induction theorems cannot be instantiated here,
so `Candidate_proofs` derives what it needs of the numbers. `SetInduction` (a set that
has 0 and with each number the next holds all numbers) follows from
the finite-set facts, `FromTo` does it up to a bound, and `Recursion` says what a
recursive function is at each place. This takes the operators to be functions:
`AfterBlocks` is a recursive function for it. The modules declare no
`RECURSIVE` operator, of which nothing could be proved.

## Not modelled

* Text: prompts, cross-run context, reports, plots, the event log, templates and
  tables of advice. Nothing another part decides on is read from them.
* Numeric code: profiler parsers, bottleneck and compiler analysis, the roofline,
  the interval and paired tests, the harness. They are functions of floating-point
  measurements; `Beam` and `KnobSweep` let each test give any verdict its floor allows.
* The providers' network clients and what a model or a tool says; the operating
  system behind `run_cmd`, isolation and CPU pinning; argument handling of the CLI
  and the MCP server's stateless handlers; the demo tasks and scripts. They keep no
  state of their own, with one exception: the cached CPU plan of `tools/shell.py` is
  shared by every run of a process, and loading another task resets it. It decides how
  a program is placed on the cores, hence its timings; it is listed as a hazard.
* Of the modelled parts: the wording of errors (which enters only as the candidate
  an error names), the policy checks on paths and constructs (an outcome of
  validation), `last_errors` and `promising_alternatives` (which feed the next prompt),
  the secondary metric (shown, never decided on), the incumbent's samples (either
  verdict is possible with or without them), the zips of accepted iterations
  (never read back), the cache of profiler summaries, the user actions.
  `backup_files` and `restore_files` of `patch.py` have no caller.

Times appear only as budgets that may run out at any moment.
