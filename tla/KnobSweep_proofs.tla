--------------------------- MODULE KnobSweep_proofs ---------------------------
(* Theorems about KnobSweep, for every set of settings and scores, every task, *)
(* any tolerance and any number of trials and rounds.                          *)
EXTENDS KnobSweep, FiniteSetTheorems, TLAPS

-----------------------------------------------------------------------------
(* Types.  The files of the run directory are two, and between the baseline    *)
(* and a failed write tuning.yaml can be read.                                 *)

RunDir == [bench : Settings \cup {NoRun, Torn},
           summaries : [Profilers -> Settings \cup {NoRun, Torn, Failed}]]

Trying == {"pick", "trial", "confirm"}

Measured == {"plan", "pick", "trial", "confirm", "final", "report", "done"}

(* The file a trial started from is a readable one.                            *)
Types ==
    /\ TypeOK
    /\ pc \in Trying => local.current.knobs \in Settings
    /\ run_dir \in RunDir
    /\ pc \in {"baseline", "plan", "pick", "trial", "confirm"} => tuning.knobs \in Settings
    /\ pc \in Measured => /\ local.best_value \in Scores /\ local.baseline \in Scores
                          /\ rows # <<>>

(* Whatever a pipeline run does to the run directory is typed.                 *)
LEMMA PipelineType ==
    ASSUME Types,
           PipelineRaises \/ PipelineReturns \/ PipelineProfiles \/ PipelineCut
    PROVE  run_dir' \in RunDir
<1> USE DEF Types, TypeOK, File, RunDir
<1>1. \A s \in Profiled : s \in RunDir
  BY DEF Profiled
<1>2. CASE PipelineRaises
  BY <1>2 DEF PipelineRaises, Benched
<1>3. CASE PipelineReturns
  BY <1>3 DEF PipelineReturns
<1>4. CASE PipelineProfiles
  BY <1>1, <1>4 DEF PipelineProfiles
<1>5. CASE PipelineCut
  <2>1. ASSUME NEW s \in Profiled, NEW done \in SUBSET Profilers,
               run_dir' = [s EXCEPT !.summaries =
                             [p \in Profilers |-> IF p \in done THEN @[p]
                                                  ELSE run_dir.summaries[p]]]
        PROVE  run_dir' \in RunDir
    BY <1>1, <2>1
  <2>2. CASE run_dir' = run_dir \/ PipelineReturns
    BY <2>2, <1>3
  <2> QED BY <1>5, <2>1, <2>2 DEF PipelineCut
<1> QED BY <1>2, <1>3, <1>4, <1>5

(* A row reported is a row of the report.                                      *)
LEMMA ReportType ==
    ASSUME Types, NEW i \in Nat, NEW v \in Scores, NEW b \in BOOLEAN, Report(i, v, b)
    PROVE  /\ rows' \in Seq([iter : Nat, value : Scores, accepted : BOOLEAN])
           /\ rows' # <<>>
BY DEF Types, TypeOK, Report, Row

(* The row a failed trial repeats has a value.                                 *)
LEMMA LastOfSequence ==
    ASSUME NEW R, NEW s \in Seq(R), s # <<>> PROVE s[Len(s)] \in R
OBVIOUS

LEMMA LastValueType ==
    ASSUME Types, pc \in Measured PROVE LastValue \in Scores
<1> DEFINE R == [iter : Nat, value : Scores, accepted : BOOLEAN]
<1>1. rows \in Seq(R) /\ rows # <<>>
  BY DEF Types, TypeOK
<1>2. rows[Len(rows)] \in R
  BY ONLY <1>1, LastOfSequence
<1> QED BY <1>2 DEF LastValue

LEMMA InitType == ASSUME SweepAssumption, Init PROVE Types
<1>1. tuning \in File /\ tuning.knobs \in Settings
  <2>1. HasSweep(config) \in BOOLEAN
    BY DEF HasSweep
  <2> QED BY <2>1 DEF Init, File, SweepAssumption
<1>2. local \in Locals
  BY DEF Init, Locals, File, Flat, SweepAssumption
<1> QED BY <1>1, <1>2 DEF Init, Types, TypeOK, RunDir, SweepAssumption, Measured, Trying, Over

(* The baseline and the plan.                                                  *)
PlanSteps == MeasureBaseline \/ PipelineEndsRun \/ Unplannable \/ NothingToTune \/ Plan

LEMMA PlanType == ASSUME SweepAssumption, Types, PlanSteps PROVE Types'
<1> USE DEF Go, Measured, Trying, Over
<1>1. CASE MeasureBaseline
  <2>1. PICK v \in Scores : /\ local' = [local EXCEPT !.best_value = v, !.baseline = v]
                            /\ Report(0, v, TRUE)
    BY <1>1 DEF MeasureBaseline
  <2>2. local' \in Locals /\ local'.best_value \in Scores /\ local'.baseline \in Scores
    BY <2>1 DEF Types, TypeOK, Locals
  <2>3. run_dir' \in RunDir
    BY <1>1, PipelineType DEF MeasureBaseline
  <2>4. rows' \in Seq([iter : Nat, value : Scores, accepted : BOOLEAN]) /\ rows' # <<>>
    BY <2>1, ReportType
  <2> QED BY <1>1, <2>2, <2>3, <2>4 DEF MeasureBaseline, Types, TypeOK, RunDir
<1>2. CASE PipelineEndsRun
  <2>1. run_dir' \in RunDir
    BY <1>2, PipelineType DEF PipelineEndsRun
  <2> QED BY <1>2, <2>1 DEF PipelineEndsRun, Types, TypeOK, RunDir
<1>3. CASE Unplannable
  BY <1>3 DEF Unplannable, Types, TypeOK
<1>4. CASE NothingToTune
  <2>1. rows' \in Seq([iter : Nat, value : Scores, accepted : BOOLEAN]) /\ rows' # <<>>
    BY <1>4, ReportType DEF NothingToTune, Types
  <2> QED BY <1>4, <2>1 DEF NothingToTune, Types, TypeOK
<1>5. CASE Plan
  <2>1. PICK T \in FirstProposals :
           local' = [local EXCEPT !.current = tuning, !.best_knobs = tuning.knobs,
                                  !.todo = T, !.iter = IF HasSweep(config) THEN 0 ELSE 1]
    BY <1>5 DEF Plan
  <2>2. T \in SUBSET Settings
    BY DEF FirstProposals, GridProposals, ToggleProposals
  <2>3. local' \in Locals /\ UNCHANGED <<local.best_value, local.baseline>>
    BY <1>5, <2>1, <2>2 DEF Plan, Types, TypeOK, Locals
  <2> QED BY <1>5, <2>3 DEF Plan, Types, TypeOK
<1> QED BY <1>1, <1>2, <1>3, <1>4, <1>5 DEF PlanSteps

(* The locals of a win.                                                        *)
LEMMA WonType ==
    ASSUME Types, NEW v \in Scores
    PROVE  /\ Won(v) \in Locals
           /\ Won(v).best_value = v /\ Won(v).baseline = local.baseline
           /\ Won(v).best_iter = local.iter /\ Won(v).iter = local.iter
           /\ Won(v).current = local.current
           /\ Won(v).best_knobs = IF HasSweep(config) THEN local.cand ELSE local.best_knobs
BY DEF Types, TypeOK, Locals, Won


(* A torn file is a file, and so is what the search writes between trials,     *)
(* which is readable as well.                                                  *)
LEMMA TornType == TornFile \in File
BY DEF TornFile, Flat, File

LEMMA RevertedType ==
    ASSUME Types, pc \in Trying PROVE Reverted \in File /\ Reverted.knobs \in Settings
BY DEF Types, TypeOK, Locals, Reverted, Flat, File

(* The trials.                                                                 *)
TrialSteps ==
    \/ BeginTrial \/ TrialRaises \/ TrialWinsGrid \/ TrialWinsToggle \/ TrialLoses
    \/ NoImprovement

LEMMA TrialType == ASSUME SweepAssumption, Types, TrialSteps PROVE Types'
<1> USE DEF Go, Measured, Trying, Over
<1> DEFINE R == [iter : Nat, value : Scores, accepted : BOOLEAN]
<1>1. CASE BeginTrial
  <2>1. PICK s \in local.todo :
           /\ tuning' = TrialFile(s)
           /\ local' = [local EXCEPT !.cand = s, !.todo = @ \ {s},
                                     !.iter = IF HasSweep(config) THEN @ + 1 ELSE @]
    BY <1>1 DEF BeginTrial
  <2>2. s \in Settings
    BY <2>1 DEF Types, TypeOK, Locals
  <2>3. tuning' \in File /\ tuning'.knobs \in Settings
    BY <2>1, <2>2 DEF TrialFile, File
  <2>4. local' \in Locals /\ UNCHANGED <<local.best_value, local.baseline, local.current>>
    <3>1. local.iter \in Nat /\ local.iter + 1 \in Nat /\ local.todo \ {s} \in SUBSET Settings
      BY DEF Types, TypeOK, Locals
    <3>2. local \in Locals
      BY DEF Types, TypeOK
    <3> QED BY <2>1, <2>2, <3>1, <3>2 DEF Locals
  <2> QED BY <1>1, <2>3, <2>4 DEF BeginTrial, Types, TypeOK
<1>2. CASE TrialRaises
  <2>1. run_dir' \in RunDir
    BY <1>2, PipelineType DEF TrialRaises
  <2>2. local.iter \in Nat
    BY DEF Types, TypeOK, Locals
  <2>3. rows' \in Seq(R) /\ rows' # <<>>
    BY <1>2, <2>2, LastValueType, ReportType DEF TrialRaises
  <2>4. tuning' \in File /\ tuning'.knobs \in Settings
    BY <1>2, RevertedType DEF TrialRaises
  <2> QED BY <1>2, <2>1, <2>3, <2>4 DEF TrialRaises, Types, TypeOK, RunDir
<1>3. CASE TrialWinsGrid
  <2>1. PICK v \in Scores : local' = Won(v) /\ Report(local.iter, v, TRUE)
    BY <1>3 DEF TrialWinsGrid
  <2>2. /\ local' \in Locals /\ local'.best_value \in Scores
        /\ UNCHANGED <<local.baseline, local.current>>
    BY <2>1, WonType
  <2>3. run_dir' \in RunDir
    BY <1>3, PipelineType DEF TrialWinsGrid
  <2>4. rows' \in Seq(R) /\ rows' # <<>>
    BY <2>1, ReportType DEF Types, TypeOK, Locals
  <2>5. tuning' \in File /\ tuning'.knobs \in Settings
    BY <1>3, RevertedType DEF TrialWinsGrid
  <2> QED BY <1>3, <2>2, <2>3, <2>4, <2>5 DEF TrialWinsGrid, Types, TypeOK, RunDir
<1>4. CASE TrialWinsToggle
  <2>1. PICK v \in Scores, T \in ToggleProposals(tuning.knobs) :
           /\ Report(local.iter, v, TRUE)
           /\ IF local.iter = MaxIters
                THEN local' = Won(v) /\ Go("final")
                ELSE /\ local' = [Won(v) EXCEPT !.current = tuning, !.todo = T,
                                                !.iter = @ + 1]
                     /\ Go("pick")
    BY <1>4 DEF TrialWinsToggle
  <2>2. Won(v) \in Locals /\ Won(v).best_value \in Scores /\ Won(v).baseline = local.baseline
    BY WonType
  <2>3. /\ local' \in Locals /\ local'.best_value \in Scores
        /\ UNCHANGED local.baseline
        /\ local'.current \in {local.current, tuning}
    <3>1. T \in SUBSET Settings /\ tuning \in File
      BY DEF ToggleProposals, Types, TypeOK
    <3>2. Won(v).iter + 1 \in Nat
      BY <2>2 DEF Locals
    <3> DEFINE w == Won(v)
    <3>3. w \in Locals /\ w.best_value \in Scores /\ w.baseline = local.baseline
            /\ w.current = local.current /\ w.iter + 1 \in Nat
      BY <2>2, <3>2, WonType
    <3>4. local' \in {w, [w EXCEPT !.current = tuning, !.todo = T, !.iter = @ + 1]}
      BY <2>1
    <3> HIDE DEF w
    <3> QED BY <3>1, <3>3, <3>4 DEF Locals
  <2>4. run_dir' \in RunDir
    BY <1>4, PipelineType DEF TrialWinsToggle
  <2>5. rows' \in Seq(R) /\ rows' # <<>>
    BY <2>1, ReportType DEF Types, TypeOK, Locals
  <2>6. pc' \in {"pick", "final"}
    BY <2>1
  <2> QED BY <1>4, <2>3, <2>4, <2>5, <2>6 DEF TrialWinsToggle, Types, TypeOK, RunDir
<1>5. CASE TrialLoses
  <2>1. run_dir' \in RunDir
    BY <1>5, PipelineType DEF TrialLoses
  <2>2. rows' \in Seq(R) /\ rows' # <<>>
    <3>1. CASE UNCHANGED rows
      BY <1>5, <3>1 DEF TrialLoses, Types, TypeOK
    <3>2. CASE \E v \in Scores : Report(local.iter, v, FALSE)
      BY <3>2, ReportType DEF Types, TypeOK, Locals
    <3> QED BY <1>5, <3>1, <3>2 DEF TrialLoses
  <2>3. tuning' \in File /\ tuning'.knobs \in Settings
    BY <1>5, RevertedType DEF TrialLoses
  <2> QED BY <1>5, <2>1, <2>2, <2>3 DEF TrialLoses, Types, TypeOK, RunDir
<1>6. CASE NoImprovement
  <2>1. rows' \in Seq(R) /\ rows' # <<>>
    <3>1. local.iter \in Nat
      BY DEF Types, TypeOK, Locals
    <3> QED BY <1>6, <3>1, LastValueType, ReportType DEF NoImprovement
  <2> QED BY <1>6, <2>1 DEF NoImprovement, Types, TypeOK
<1> QED BY <1>1, <1>2, <1>3, <1>4, <1>5, <1>6 DEF TrialSteps

(* The winner, its confirmation, and the end.                                  *)
EndSteps ==
    \/ WriteWinner \/ Confirmed \/ NotConfirmed \/ ConfirmRaises \/ RevertFails
    \/ FinalProfile \/ WriteReport \/ DiskFails

LEMMA EndType == ASSUME SweepAssumption, Types, EndSteps PROVE Types'
<1> USE DEF Go, Measured, Trying, Over
<1> DEFINE R == [iter : Nat, value : Scores, accepted : BOOLEAN]
<1>1. CASE WriteWinner
  BY <1>1 DEF WriteWinner, Types, TypeOK, Locals, File
<1>2. CASE Confirmed
  <2>1. PICK v \in Scores : /\ local' = [local EXCEPT !.best_value = v]
                            /\ Report(local.best_iter, v, TRUE)
    BY <1>2 DEF Confirmed
  <2>2. local' \in Locals /\ local'.best_value \in Scores /\ local'.baseline = local.baseline
    BY <2>1 DEF Types, TypeOK, Locals
  <2>3. rows' \in Seq(R) /\ rows' # <<>>
    BY <2>1, ReportType DEF Types, TypeOK, Locals
  <2>4. run_dir' \in RunDir
    BY <1>2, PipelineType DEF Confirmed
  <2> QED BY <1>2, <2>2, <2>3, <2>4 DEF Confirmed, Types, TypeOK, RunDir
<1>3. CASE NotConfirmed
  <2>1. rows' \in Seq(R) /\ rows' # <<>>
    BY <1>3, ReportType DEF NotConfirmed
  <2>2. run_dir' \in RunDir
    BY <1>3, PipelineType DEF NotConfirmed
  <2>3. local' \in Locals /\ local'.best_value \in Scores /\ local'.baseline \in Scores
    <3>1. local.current.knobs \in Settings
      BY <1>3 DEF NotConfirmed, Types
    <3> QED BY <1>3, <3>1 DEF NotConfirmed, Types, TypeOK, Locals
  <2> QED BY <1>3, <2>1, <2>2, <2>3 DEF NotConfirmed, Types, TypeOK, RunDir, Locals
<1>4. CASE ConfirmRaises \/ RevertFails \/ FinalProfile
  <2>1. run_dir' \in RunDir
    BY <1>4, PipelineType DEF ConfirmRaises, RevertFails, FinalProfile
  <2>2. tuning' \in File
    BY <1>4, TornType DEF ConfirmRaises, RevertFails, FinalProfile, Types, TypeOK
  <2> QED BY <1>4, <2>1, <2>2 DEF ConfirmRaises, RevertFails, FinalProfile, Types, TypeOK, RunDir
<1>5. CASE WriteReport
  BY <1>5 DEF WriteReport, Types, TypeOK
<1>6. CASE DiskFails
  <2>1. run_dir' \in RunDir
    BY <1>6, PipelineType DEF DiskFails, Types
  <2>2. tuning' \in File
    BY <1>6, TornType DEF DiskFails, Types, TypeOK
  <2> QED BY <1>6, <2>1, <2>2 DEF DiskFails, Types, TypeOK, RunDir
<1> QED BY <1>1, <1>2, <1>3, <1>4, <1>5, <1>6 DEF EndSteps

LEMMA StepType == ASSUME SweepAssumption, Types, [Next]_vars PROVE Types'
<1>1. CASE Work
  BY <1>1, PlanType, TrialType, EndType DEF Work, PlanSteps, TrialSteps, EndSteps
<1>2. CASE Interrupted
  <2>1. run_dir' \in RunDir
    BY <1>2, PipelineType DEF Interrupted, Types
  <2>2. tuning' \in File
    BY <1>2, TornType DEF Interrupted, Types, TypeOK
  <2> QED BY <1>2, <2>1, <2>2 DEF Interrupted, Types, TypeOK, RunDir, Go, Measured, Trying, Over
<1>3. CASE Ended \/ UNCHANGED vars
  BY <1>3 DEF Ended, vars, Types, TypeOK
<1> QED BY <1>1, <1>2, <1>3 DEF Next

LEMMA TypesInvariant == Spec => []Types
<1> USE SweepAssumption
<1> QED BY InitType, StepType, PTL DEF Spec

(* Every variable of the sweep keeps its type, for every set of settings and   *)
(* scores and any number of trials: rows are only read once there are some, and*)
(* nothing is reported that was not measured.                                  *)
THEOREM TypeCorrect == Spec => []TypeOK
<1> QED BY TypesInvariant, PTL DEF Types

-----------------------------------------------------------------------------
(* The file.  What the locals say of it between trials, in a trial, and while  *)
(* the winner awaits its confirmation.                                         *)

FileInv ==
    /\ pc \in {"baseline", "plan"} => tuning = [knobs |-> evidence, sweep |-> HasSweep(config)]
    /\ pc \in Trying => local.current.sweep = HasSweep(config)
    /\ pc \in Trying /\ HasSweep(config) => evidence = local.best_knobs
    /\ pc \in Trying /\ ~HasSweep(config) =>
          evidence = local.current.knobs /\ config.kind = "legacy"
    /\ pc = "pick" /\ ~HasSweep(config) => tuning = local.current
    /\ pc = "trial" => tuning = TrialFile(local.cand)
    /\ pc = "confirm" => HasSweep(config) /\ tuning = [knobs |-> evidence, sweep |-> TRUE]
    /\ HandedOverAsReported

LEMMA InitFile == ASSUME Init PROVE FileInv
BY DEF Init, FileInv, Trying, HandedOverAsReported, Settled

LEMMA PlanFile == ASSUME SweepAssumption, Types, FileInv, PlanSteps PROVE FileInv'
<1> USE DEF FileInv, Trying, HandedOverAsReported, Settled, Go
<1>1. CASE MeasureBaseline
  <2>1. tuning.knobs = evidence /\ tuning = [knobs |-> evidence, sweep |-> HasSweep(config)]
    BY <1>1 DEF MeasureBaseline
  <2>2. pc' = "plan" /\ evidence' = evidence /\ UNCHANGED <<config, tuning>>
    BY <1>1, <2>1 DEF MeasureBaseline
  <2> QED BY <2>1, <2>2
<1>2. CASE PipelineEndsRun
  BY <1>2 DEF PipelineEndsRun, HasSweep
<1>3. CASE Unplannable
  BY <1>3 DEF Unplannable, HasSweep
<1>4. CASE NothingToTune
  BY <1>4 DEF NothingToTune, HasSweep
<1>5. CASE Plan
  <2>1. /\ local'.current = tuning /\ local'.best_knobs = tuning.knobs
        /\ pc' = "pick" /\ UNCHANGED <<config, tuning, evidence>>
    BY <1>5 DEF Plan, Types, TypeOK, Locals
  <2>2. tuning = [knobs |-> evidence, sweep |-> HasSweep(config)]
    BY <1>5 DEF Plan
  <2>3. ~HasSweep(config) => config.kind = "legacy"
    BY <1>5, SweepAssumption DEF Plan, HasSweep, Types, TypeOK, Config, Kinds, SweepAssumption
  <2>4. tuning.knobs = evidence /\ tuning.sweep = HasSweep(config)
    BY <2>2
  <2>5. HasSweep(config)' = HasSweep(config)
    BY <2>1 DEF HasSweep
  <2> QED BY <2>1, <2>3, <2>4, <2>5
<1> QED BY <1>1, <1>2, <1>3, <1>4, <1>5 DEF PlanSteps

(* The knobs of a trial are the candidate's.                                   *)
LEMMA TrialFileIs ==
    ASSUME NEW s
    PROVE  TrialFile(s).knobs = s /\ (config.kind = "legacy" => TrialFile(s) = Flat(s))
BY DEF TrialFile, Flat

(* In a trial the user's own file is known, and what is put back is it, or it  *)
(* without its sweep section.                                                  *)
LEMMA TrialFileInv ==
    ASSUME SweepAssumption, Types, FileInv, TrialSteps
    PROVE  FileInv'
<1> USE DEF FileInv, Trying, HandedOverAsReported, Settled, Go
<1>1. CASE BeginTrial
  <2>1. PICK s \in local.todo :
           /\ tuning' = TrialFile(s)
           /\ local' = [local EXCEPT !.cand = s, !.todo = @ \ {s},
                                     !.iter = IF HasSweep(config) THEN @ + 1 ELSE @]
    BY <1>1 DEF BeginTrial
  <2>2. local'.cand = s /\ UNCHANGED <<local.current, local.best_knobs>>
    BY <2>1 DEF Types, TypeOK, Locals
  <2> QED BY <1>1, <2>1, <2>2 DEF BeginTrial, HasSweep, TrialFile
<1>2. CASE TrialRaises
  BY <1>2 DEF TrialRaises, HasSweep, Reverted
<1>3. CASE TrialWinsGrid
  <2>1. PICK v \in Scores : local' = Won(v)
    BY <1>3 DEF TrialWinsGrid
  <2>2. local'.current = local.current /\ local'.best_knobs = local.cand
    BY <1>3, <2>1, WonType DEF TrialWinsGrid
  <2>3. evidence' = local.cand
    BY <1>3, TrialFileIs DEF TrialWinsGrid
  <2> QED BY <1>3, <2>2, <2>3 DEF TrialWinsGrid, HasSweep, Reverted
<1>4. CASE TrialWinsToggle
  <2>1. PICK v \in Scores, T \in ToggleProposals(tuning.knobs) :
           IF local.iter = MaxIters
             THEN local' = Won(v) /\ Go("final")
             ELSE /\ local' = [Won(v) EXCEPT !.current = tuning, !.todo = T, !.iter = @ + 1]
                  /\ Go("pick")
    BY <1>4 DEF TrialWinsToggle
  <2> DEFINE w == Won(v)
  <2>2. w \in Locals
    BY WonType
  <2> DEFINE next == [w EXCEPT !.current = tuning, !.todo = T, !.iter = @ + 1]
  <2>3. \/ local' = w /\ pc' = "final"
        \/ local' = next /\ pc' = "pick"
    BY <2>1
  <2>4. pc' = "final" \/ (local'.current = tuning /\ pc' = "pick")
    <3>1. ASSUME NEW l \in Locals
          PROVE  [l EXCEPT !.current = tuning, !.todo = T, !.iter = @ + 1].current = tuning
      BY DEF Locals
    <3>2. next.current = tuning
      BY <2>2, <3>1
    <3> HIDE DEF w, next
    <3> QED BY <2>3, <3>2
  <2>5. /\ tuning' = tuning /\ evidence' = tuning.knobs /\ config' = config
        /\ ~HasSweep(config) /\ config.kind = "legacy" /\ tuning = Flat(local.cand)
    BY <1>4, TrialFileIs DEF TrialWinsToggle
  <2>6. tuning = [knobs |-> evidence', sweep |-> FALSE] /\ tuning.sweep = FALSE
    BY <2>5 DEF Flat
  <2>7. HasSweep(config) = FALSE /\ HasSweep(config)' = FALSE
    BY <2>5 DEF HasSweep
  <2> QED BY <2>4, <2>5, <2>6, <2>7
<1>5. CASE TrialLoses
  BY <1>5 DEF TrialLoses, HasSweep, Reverted
<1>6. CASE NoImprovement
  BY <1>6 DEF NoImprovement, HasSweep, Types, TypeOK, Locals, File
<1> QED BY <1>1, <1>2, <1>3, <1>4, <1>5, <1>6 DEF TrialSteps

LEMMA EndFile == ASSUME SweepAssumption, Types, FileInv, EndSteps PROVE FileInv'
<1> USE DEF FileInv, Trying, HandedOverAsReported, Settled, Go
<1>1. CASE WriteWinner
  BY <1>1 DEF WriteWinner, HasSweep
<1>2. CASE Confirmed
  BY <1>2 DEF Confirmed, HasSweep
<1>3. CASE NotConfirmed
  <2>1. local.current = [knobs |-> local.current.knobs, sweep |-> HasSweep(config)]
    BY <1>3 DEF NotConfirmed, Types, TypeOK, Locals, File
  <2> QED BY <1>3, <2>1 DEF NotConfirmed, HasSweep
<1>4. CASE ConfirmRaises
  BY <1>4 DEF ConfirmRaises, HasSweep
<1>5. CASE RevertFails
  <2>1. tuning' = tuning \/ tuning'.knobs = Torn
    BY <1>5 DEF RevertFails, TornFile, Flat
  <2> QED BY <1>5, <2>1 DEF RevertFails, HasSweep
<1>6. CASE FinalProfile
  BY <1>6 DEF FinalProfile, HasSweep
<1>7. CASE WriteReport
  BY <1>7 DEF WriteReport, HasSweep
<1>8. CASE DiskFails
  BY <1>8 DEF DiskFails
<1> QED BY <1>1, <1>2, <1>3, <1>4, <1>5, <1>6, <1>7, <1>8 DEF EndSteps

LEMMA StepFile == ASSUME SweepAssumption, Types, FileInv, [Next]_vars PROVE FileInv'
<1>1. CASE Work
  BY <1>1, PlanFile, TrialFileInv, EndFile DEF Work, PlanSteps, TrialSteps, EndSteps
<1>2. CASE Interrupted
  BY <1>2 DEF Interrupted, Go, FileInv, Trying, HandedOverAsReported, Settled
<1>3. CASE Ended \/ UNCHANGED vars
  BY <1>3 DEF Ended, vars, FileInv, HandedOverAsReported, Settled, HasSweep, TrialFile
<1> QED BY <1>1, <1>2, <1>3 DEF Next

LEMMA FileInvariant == Spec => [](Types /\ FileInv)
<1> USE SweepAssumption
<1>1. Init => Types /\ FileInv
  BY InitType, InitFile
<1>2. Types /\ FileInv /\ [Next]_vars => (Types /\ FileInv)'
  BY StepType, StepFile
<1> QED BY <1>1, <1>2, PTL DEF Spec

(* For any grid, any number of toggles and every way the search can go,        *)
(* tuning.yaml is left with the setting the reported best was measured on.     *)
THEOREM HandsOverWhatItReports == Spec => []HandedOverAsReported
<1> QED BY FileInvariant, PTL DEF FileInv

-----------------------------------------------------------------------------
(* The artifacts: only the last profile leads to the report.                   *)

LEMMA StepArtifacts ==
    ASSUME ArtifactsDescribeHandover, [Next]_vars PROVE ArtifactsDescribeHandover'
<1> USE DEF ArtifactsDescribeHandover, Go
<1>1. CASE PlanSteps
  BY <1>1 DEF PlanSteps, MeasureBaseline, PipelineEndsRun, Unplannable, NothingToTune, Plan
<1>2. CASE TrialSteps
  BY <1>2 DEF TrialSteps, BeginTrial, TrialRaises, TrialWinsGrid, TrialWinsToggle, TrialLoses,
              NoImprovement
<1>3. CASE WriteWinner \/ Confirmed \/ NotConfirmed \/ ConfirmRaises \/ RevertFails \/ DiskFails
  BY <1>3 DEF WriteWinner, Confirmed, NotConfirmed, ConfirmRaises, RevertFails, DiskFails
<1>4. CASE FinalProfile
  BY <1>4 DEF FinalProfile, PipelineProfiles, Profiled
<1>5. CASE WriteReport
  BY <1>5 DEF WriteReport
<1>6. CASE Interrupted
  BY <1>6 DEF Interrupted
<1>7. CASE Ended \/ UNCHANGED vars
  BY <1>7 DEF Ended, vars
<1> QED BY <1>1, <1>2, <1>3, <1>4, <1>5, <1>6, <1>7
        DEF Next, Work, PlanSteps, TrialSteps

(* For any set of profilers, what the report, the prompt of a later run and    *)
(* the tools read was measured with the setting that is handed over.           *)
THEOREM ArtifactsAreCurrent == Spec => []ArtifactsDescribeHandover
<1>1. Init => ArtifactsDescribeHandover
  BY DEF Init, ArtifactsDescribeHandover
<1> QED BY <1>1, StepArtifacts, PTL DEF Spec

-----------------------------------------------------------------------------
(* The rows.  From the baseline to the confirmation the last accepted row is   *)
(* the best there is.                                                          *)

Stands(rs, i, v) ==
    \E n \in 1 .. Len(rs) :
        /\ rs[n] = Row(i, v, TRUE)
        /\ \A k \in n + 1 .. Len(rs) : ~rs[k].accepted

(* What appending does, whatever the row.                                      *)
LEMMA AppendFacts ==
    ASSUME NEW R, NEW rs \in Seq(R), NEW row
    PROVE  /\ Len(rs) \in Nat /\ Len(Append(rs, row)) = Len(rs) + 1
           /\ Append(rs, row)[Len(rs) + 1] = row
           /\ \A k \in 1 .. Len(rs) : Append(rs, row)[k] = rs[k]
<1> DEFINE S == R \cup {row}
<1>1. rs \in Seq(S) /\ row \in S
  OBVIOUS
<1> HIDE DEF S
<1> QED BY <1>1

(* An accepted row at the end stands; one that is not lets the others stand.   *)
LEMMA AcceptedStands ==
    ASSUME NEW R, NEW rs \in Seq(R), NEW i, NEW v
    PROVE  Stands(Append(rs, Row(i, v, TRUE)), i, v)
<1> DEFINE row == Row(i, v, TRUE)
           longer == Append(rs, row)
<1> HIDE DEF row
<1>1. Len(rs) \in Nat /\ Len(longer) = Len(rs) + 1 /\ longer[Len(rs) + 1] = row
  BY AppendFacts
<1> HIDE DEF longer
<1>2. Len(rs) + 1 \in 1 .. Len(longer)
  BY <1>1
<1>3. \A k \in (Len(rs) + 1) + 1 .. Len(longer) : FALSE
  BY <1>1
<1>4. Stands(longer, i, v)
  BY <1>1, <1>2, <1>3 DEF Stands, row
<1> QED BY <1>4 DEF longer, row

LEMMA RejectedLeavesStanding ==
    ASSUME NEW R, NEW rs \in Seq(R), NEW i, NEW v, NEW j, NEW w, Stands(rs, i, v)
    PROVE  Stands(Append(rs, Row(j, w, FALSE)), i, v)
<1> DEFINE row == Row(j, w, FALSE)
           longer == Append(rs, row)
<1> HIDE DEF row
<1>1. PICK n \in 1 .. Len(rs) :
         /\ rs[n] = Row(i, v, TRUE)
         /\ \A k \in n + 1 .. Len(rs) : ~rs[k].accepted
  BY DEF Stands
<1>2. /\ Len(longer) = Len(rs) + 1 /\ Len(rs) \in Nat
      /\ longer[Len(rs) + 1] = row
      /\ \A k \in 1 .. Len(rs) : longer[k] = rs[k]
  BY AppendFacts
<1>3. ~row.accepted
  BY DEF Row, row
<1> HIDE DEF longer
<1>4. n \in 1 .. Len(longer) /\ longer[n] = Row(i, v, TRUE)
  <2>1. n \in 1 .. Len(longer)
    BY <1>2
  <2>2. longer[n] = rs[n]
    BY <1>2
  <2> QED BY <1>1, <2>1, <2>2
<1>5. ASSUME NEW k \in n + 1 .. Len(longer) PROVE ~longer[k].accepted
  <2>1. CASE k = Len(rs) + 1
    BY <1>2, <1>3, <2>1
  <2>2. CASE k # Len(rs) + 1
    <3>1. k \in n + 1 .. Len(rs) /\ k \in 1 .. Len(rs)
      BY <1>2, <2>2
    <3> QED BY <1>1, <1>2, <3>1
  <2> QED BY <2>1, <2>2
<1>6. Stands(longer, i, v)
  BY <1>4, <1>5 DEF Stands
<1> QED BY <1>6 DEF longer, row

(* Once the search is over the row of the best stands, or the last of all says *)
(* that it was not confirmed.                                                  *)
RowsInv ==
    /\ pc = "baseline" => local.best_iter = 0
    /\ pc \in {"plan", "pick", "trial", "confirm"} =>
          Stands(rows, local.best_iter, local.best_value)
    /\ RowsTellTheOutcome

LEMMA RowsTellIf ==
    ASSUME Stands(rows, local.best_iter, local.best_value) PROVE RowsTellTheOutcome
BY DEF Stands, RowsTellTheOutcome

LEMMA PlanRows == ASSUME SweepAssumption, Types, RowsInv, PlanSteps PROVE RowsInv'
<1> USE DEF Go
<1>1. CASE MeasureBaseline
  <2>1. PICK v \in Scores : /\ local' = [local EXCEPT !.best_value = v, !.baseline = v]
                            /\ Report(0, v, TRUE)
    BY <1>1 DEF MeasureBaseline
  <2>2. local'.best_iter = 0 /\ local'.best_value = v
    BY <1>1, <2>1 DEF MeasureBaseline, Types, TypeOK, Locals, RowsInv
  <2>3. Stands(rows', 0, v)
    BY <2>1, AcceptedStands DEF Report, Types, TypeOK
  <2> QED BY <1>1, <2>2, <2>3 DEF MeasureBaseline, RowsInv, RowsTellTheOutcome
<1>2. CASE PipelineEndsRun
  BY <1>2 DEF PipelineEndsRun, RowsInv, RowsTellTheOutcome
<1>3. CASE Unplannable
  BY <1>3 DEF Unplannable, RowsInv, RowsTellTheOutcome
<1>4. CASE NothingToTune
  <2>1. Stands(rows', local.best_iter, local.best_value)
    BY <1>4, RejectedLeavesStanding DEF NothingToTune, RowsInv, Report, Types, TypeOK
  <2> QED BY <1>4, <2>1, RowsTellIf DEF NothingToTune, RowsInv, RowsTellTheOutcome, Stands
<1>5. CASE Plan
  <2>1. /\ UNCHANGED <<rows, local.best_iter, local.best_value>>
        /\ pc = "plan" /\ pc' = "pick"
    BY <1>5 DEF Plan, Types, TypeOK, Locals
  <2> QED BY <2>1 DEF RowsInv, RowsTellTheOutcome
<1> QED BY <1>1, <1>2, <1>3, <1>4, <1>5 DEF PlanSteps

LEMMA TrialRows == ASSUME SweepAssumption, Types, RowsInv, TrialSteps PROVE RowsInv'
<1> USE DEF Go
<1>1. CASE BeginTrial
  <2>1. /\ UNCHANGED <<rows, local.best_iter, local.best_value>>
        /\ pc = "pick" /\ pc' = "trial"
    BY <1>1 DEF BeginTrial, Types, TypeOK, Locals
  <2> QED BY <2>1 DEF RowsInv, RowsTellTheOutcome
<1>2. CASE TrialRaises \/ TrialLoses
  <2>1. Stands(rows, local.best_iter, local.best_value)
    BY <1>2 DEF TrialRaises, TrialLoses, RowsInv
  <2>2. UNCHANGED rows \/ \E v : Report(local.iter, v, FALSE)
    BY <1>2 DEF TrialRaises, TrialLoses
  <2>3. Stands(rows', local.best_iter, local.best_value)
    <3>1. CASE UNCHANGED rows
      BY <2>1, <3>1
    <3>2. ASSUME NEW v, Report(local.iter, v, FALSE)
          PROVE  Stands(rows', local.best_iter, local.best_value)
      BY <2>1, <3>2, RejectedLeavesStanding DEF Report, Types, TypeOK
    <3> QED BY <2>2, <3>1, <3>2
  <2> QED BY <1>2, <2>3 DEF TrialRaises, TrialLoses, RowsInv, RowsTellTheOutcome
<1>3. CASE TrialWinsGrid \/ TrialWinsToggle
  <2>1. PICK v \in Scores, l \in Locals :
           /\ l.best_value = v /\ l.best_iter = local.iter
           /\ local' = l
           /\ Report(local.iter, v, TRUE)
    <3>1. CASE TrialWinsGrid
      BY <3>1, WonType DEF TrialWinsGrid
    <3>2. CASE TrialWinsToggle
      <4>1. PICK v \in Scores, T \in ToggleProposals(tuning.knobs) :
               /\ Report(local.iter, v, TRUE)
               /\ \/ local' = Won(v)
                  \/ local' = [Won(v) EXCEPT !.current = tuning, !.todo = T, !.iter = @ + 1]
        BY <3>2 DEF TrialWinsToggle
      <4> DEFINE w == Won(v)
                 next == [w EXCEPT !.current = tuning, !.todo = T, !.iter = @ + 1]
      <4>2. w \in Locals /\ w.best_value = v /\ w.best_iter = local.iter
        BY WonType
      <4>3. T \in SUBSET Settings /\ tuning \in File
        BY DEF ToggleProposals, Types, TypeOK
      <4>4. ASSUME NEW l \in Locals
            PROVE  LET n == [l EXCEPT !.current = tuning, !.todo = T, !.iter = @ + 1]
                   IN  n \in Locals /\ n.best_value = l.best_value /\ n.best_iter = l.best_iter
        <5>1. l.iter + 1 \in Nat
          BY DEF Locals
        <5> QED BY <4>3, <5>1 DEF Locals
      <4>5. next \in Locals /\ next.best_value = v /\ next.best_iter = local.iter
        BY <4>2, <4>4
      <4>6. local' = w \/ local' = next
        BY <4>1
      <4> HIDE DEF w, next
      <4> QED BY <4>1, <4>2, <4>5, <4>6
    <3> QED BY <1>3, <3>1, <3>2
  <2>2. Stands(rows', local'.best_iter, local'.best_value)
    BY <2>1, AcceptedStands DEF Report, Types, TypeOK
  <2>3. pc' # "baseline"
    BY <1>3 DEF TrialWinsGrid, TrialWinsToggle
  <2> QED BY <2>2, <2>3 DEF RowsInv, RowsTellTheOutcome, Stands
<1>4. CASE NoImprovement
  <2>1. Stands(rows', local.best_iter, local.best_value)
    BY <1>4, RejectedLeavesStanding DEF NoImprovement, RowsInv, Report, Types, TypeOK
  <2> QED BY <1>4, <2>1 DEF NoImprovement, RowsInv, RowsTellTheOutcome, Stands
<1> QED BY <1>1, <1>2, <1>3, <1>4 DEF TrialSteps

LEMMA EndRows == ASSUME SweepAssumption, Types, RowsInv, EndSteps PROVE RowsInv'
<1> USE DEF Go
<1>1. CASE WriteWinner \/ ConfirmRaises \/ RevertFails
  BY <1>1 DEF WriteWinner, ConfirmRaises, RevertFails, RowsInv, RowsTellTheOutcome, Stands
<1>2. CASE Confirmed
  <2>1. PICK v \in Scores : /\ local' = [local EXCEPT !.best_value = v]
                            /\ Report(local.best_iter, v, TRUE)
    BY <1>2 DEF Confirmed
  <2>2. local'.best_iter = local.best_iter /\ local'.best_value = v
    BY <2>1 DEF Types, TypeOK, Locals
  <2>3. Stands(rows', local.best_iter, v)
    BY <2>1, AcceptedStands DEF Report, Types, TypeOK
  <2> QED BY <1>2, <2>2, <2>3 DEF Confirmed, RowsInv, RowsTellTheOutcome, Stands
<1>3. CASE NotConfirmed
  <2>1. PICK v \in Scores : Report(0, v, FALSE)
    BY <1>3 DEF NotConfirmed
  <2>2. rows'[Len(rows')] = Row(0, v, FALSE)
    <3> DEFINE R == [iter : Nat, value : Scores, accepted : BOOLEAN]
               row == Row(0, v, FALSE)
    <3>1. rows \in Seq(R) /\ rows' = Append(rows, row)
      BY <2>1 DEF Report, Types, TypeOK
    <3> HIDE DEF R, row
    <3>2. Len(rows') = Len(rows) + 1 /\ rows'[Len(rows) + 1] = row
      BY <3>1, AppendFacts
    <3> QED BY <3>2 DEF row
  <2>3. ~rows'[Len(rows')].accepted /\ rows'[Len(rows')].iter = 0
    BY <2>2 DEF Row
  <2>4. local'.best_iter = 0 /\ local'.best_value = local'.baseline
    BY <1>3 DEF NotConfirmed, Types, TypeOK, Locals
  <2> QED BY <1>3, <2>3, <2>4 DEF NotConfirmed, RowsInv, RowsTellTheOutcome
<1>4. CASE FinalProfile
  BY <1>4 DEF FinalProfile, RowsInv, RowsTellTheOutcome
<1>5. CASE WriteReport
  BY <1>5 DEF WriteReport, RowsInv, RowsTellTheOutcome
<1>6. CASE DiskFails
  BY <1>6 DEF DiskFails, RowsInv, RowsTellTheOutcome
<1> QED BY <1>1, <1>2, <1>3, <1>4, <1>5, <1>6 DEF EndSteps

LEMMA StepRows == ASSUME SweepAssumption, Types, RowsInv, [Next]_vars PROVE RowsInv'
<1>1. CASE Work
  BY <1>1, PlanRows, TrialRows, EndRows DEF Work, PlanSteps, TrialSteps, EndSteps
<1>2. CASE Interrupted
  BY <1>2 DEF Interrupted, Go, RowsInv, RowsTellTheOutcome
<1>3. CASE Ended \/ UNCHANGED vars
  BY <1>3 DEF Ended, vars, RowsInv, RowsTellTheOutcome
<1> QED BY <1>1, <1>2, <1>3 DEF Next

(* However many rows there are, a reader of them finds the best that was       *)
(* reported, or learns that it was not confirmed.                              *)
THEOREM RowsAreHonest == Spec => []RowsTellTheOutcome
<1> USE SweepAssumption
<1>1. Init => RowsInv
  BY DEF Init, RowsInv, RowsTellTheOutcome
<1>2. Types /\ RowsInv /\ [Next]_vars => RowsInv'
  BY StepRows
<1>3. RowsInv => RowsTellTheOutcome
  BY DEF RowsInv
<1> QED BY <1>1, <1>2, <1>3, TypesInvariant, PTL DEF Spec

-----------------------------------------------------------------------------
(* The refinement.  A best found in the grid is a best over the baseline; while*)
(* there is none, the locals stand for the user's own knobs.                   *)

ScoreInv ==
    /\ pc = "baseline" => local.best_value = 0
    /\ pc = "plan" => local.best_value = local.baseline
    /\ pc \in {"baseline", "plan"} => local.best_iter = 0
    /\ pc \in Trying /\ HasSweep(config) =>
          /\ local.best_iter = 0 => /\ local.best_value = local.baseline
                                    /\ local.best_knobs = local.current.knobs
          /\ local.best_iter # 0 => local.best_value > local.baseline
    /\ pc = "trial" /\ HasSweep(config) => local.iter # 0
    /\ pc = "confirm" => local.best_iter # 0

(* A verdict for the new value is one for a larger value, for any tolerance.   *)
LEMMA VerdictIsGain ==
    ASSUME SweepAssumption, NEW v \in Nat, NEW w \in Nat, TRUE \in Verdicts(v, w)
    PROVE  v > w
<1>1. v * 100 > w * (100 + Tolerance)
  BY DEF Verdicts, Beats
<1>2. Tolerance \in Nat
  BY DEF SweepAssumption
<1> DEFINE x == w * Tolerance
<1>3. x \in Nat /\ w * (100 + Tolerance) = w * 100 + x
  BY <1>2
<1> HIDE DEF x
<1> QED BY <1>1, <1>3

LEMMA InitScore == ASSUME Init PROVE ScoreInv
BY DEF Init, ScoreInv, Trying

LEMMA ScoresAreNumbers ==
    ASSUME SweepAssumption, Types
    PROVE  /\ Scores \subseteq Nat
           /\ local.best_value \in Nat
           /\ local.baseline \in Nat
<1>1. /\ local.best_value = 0 \/ local.best_value \in Scores
      /\ local.baseline = 0 \/ local.baseline \in Scores
  BY DEF Types, TypeOK, Locals
<1>2. \A v \in Scores : v \in Nat
  BY DEF SweepAssumption
<1>3. 0 \in Nat
  OBVIOUS
<1>4. local.best_value \in Nat
  BY <1>1, <1>2, <1>3, Zenon
<1>5. local.baseline \in Nat
  BY <1>1, <1>2, <1>3, Zenon
<1> QED BY <1>2, <1>4, <1>5, Zenon

LEMMA StepScore ==
    ASSUME SweepAssumption, Types, FileInv, ScoreInv, [Next]_vars
    PROVE  ScoreInv'
<1> USE DEF Go, ScoreInv, Trying
<1> SUFFICES ASSUME ~UNCHANGED vars PROVE ScoreInv'
  BY DEF vars, HasSweep
<1>1. CASE MeasureBaseline
  BY <1>1 DEF MeasureBaseline, Types, TypeOK, Locals
<1>2. CASE Plan
  <2>1. /\ pc = "plan" /\ pc' = "pick"
        /\ UNCHANGED <<local.best_value, local.baseline, local.best_iter>>
        /\ local'.current = tuning /\ local'.best_knobs = tuning.knobs
    BY <1>2 DEF Plan, Types, TypeOK, Locals
  <2> QED BY <2>1
<1>3. CASE BeginTrial
  <2>1. PICK s \in local.todo :
           local' = [local EXCEPT !.cand = s, !.todo = @ \ {s},
                                  !.iter = IF HasSweep(config) THEN @ + 1 ELSE @]
    BY <1>3 DEF BeginTrial
  <2>2. /\ UNCHANGED <<local.best_value, local.baseline, local.best_iter,
                       local.best_knobs, local.current>>
        /\ HasSweep(config) => local'.iter = local.iter + 1
    BY <2>1 DEF Types, TypeOK, Locals
  <2>3. local.iter + 1 # 0
    BY DEF Types, TypeOK, Locals
  <2> QED BY <1>3, <2>2, <2>3 DEF BeginTrial, HasSweep
<1>4. CASE TrialWinsGrid
  <2>1. PICK v \in Scores : TRUE \in Verdicts(v, local.best_value) /\ local' = Won(v)
    BY <1>4 DEF TrialWinsGrid
  <2>2. /\ local'.best_value = v /\ UNCHANGED local.baseline
        /\ local'.best_iter = local.iter /\ local.iter # 0
    BY <1>4, <2>1, WonType DEF TrialWinsGrid
  <2>3. v > local.baseline
    <3>1. v \in Nat /\ local.best_value \in Nat /\ local.baseline \in Nat
      BY ScoresAreNumbers
    <3>2. local.best_value >= local.baseline
      BY <1>4, <3>1 DEF TrialWinsGrid
    <3>3. v > local.best_value
      BY <2>1, <3>1, VerdictIsGain
    <3> QED BY <3>1, <3>2, <3>3
  <2> QED BY <1>4, <2>2, <2>3 DEF TrialWinsGrid
<1>5. CASE TrialWinsToggle
  <2>1. pc' \in {"pick", "final"} /\ ~HasSweep(config) /\ config' = config
    BY <1>5 DEF TrialWinsToggle
  <2> QED BY <2>1 DEF HasSweep
<1>6. CASE TrialRaises \/ TrialLoses
  BY <1>6 DEF TrialRaises, TrialLoses, HasSweep
<1>7. CASE WriteWinner
  <2>1. local.best_iter \in Nat
    BY DEF Types, TypeOK, Locals
  <2>2. /\ HasSweep(config) /\ HasSweep(config') /\ pc \in Trying
        /\ UNCHANGED <<config, local>>
        /\ pc' = IF local.best_iter > 0 THEN "confirm" ELSE "final"
    BY <1>7 DEF WriteWinner, HasSweep
  <2> QED BY <2>1, <2>2
<1>8. CASE PipelineEndsRun \/ Unplannable \/ NothingToTune \/ NoImprovement
  BY <1>8 DEF PipelineEndsRun, Unplannable, NothingToTune, NoImprovement
<1>9. CASE Confirmed \/ NotConfirmed \/ ConfirmRaises \/ RevertFails
  BY <1>9 DEF Confirmed, NotConfirmed, ConfirmRaises, RevertFails
<1>10. CASE FinalProfile \/ WriteReport \/ DiskFails \/ Interrupted
  BY <1>10 DEF FinalProfile, WriteReport, DiskFails, Interrupted
<1>11. CASE Ended
  BY <1>11 DEF Ended
<1> QED BY <1>1, <1>2, <1>3, <1>4, <1>5, <1>6, <1>7, <1>8, <1>9, <1>10, <1>11 DEF Next, Work

PromiseInv == Types /\ FileInv /\ ScoreInv

LEMMA PromiseInvariant == Spec => []PromiseInv
<1> USE SweepAssumption
<1>1. Init => PromiseInv
  BY InitType, InitFile, InitScore DEF PromiseInv
<1>2. PromiseInv /\ [Next]_vars => PromiseInv'
  BY StepType, StepFile, StepScore DEF PromiseInv
<1> QED BY <1>1, <1>2, PTL DEF Spec

(* What the run stands by, as the refinement mapping names it.                 *)
Inc == IF Searching THEN local.current.knobs ELSE tuning.knobs

Ev == IF Searching THEN local.current.knobs ELSE evidence

Sc == IF Searching /\ HasSweep(config) THEN local.baseline ELSE local.best_value

(* The kinds a step can be of, seen from module Incumbent.                     *)
Same == Inc' = Inc /\ Ev' = Ev /\ Sc' = Sc

Opens ==
    /\ PromisePhase = "new" /\ PromisePhase' = "open"
    /\ Inc' = Inc /\ Ev' = Ev /\ Sc' \in Scores

TakesOver ==
    /\ PromisePhase = "open" /\ PromisePhase' = "open"
    /\ Inc' \in Settings /\ Ev' = Inc'
    /\ Sc' \in Scores /\ Sc' > Sc

StepKind ==
    \/ PromisePhase' = "failed"
    \/ Same /\ PromisePhase' = PromisePhase
    \/ Same /\ PromisePhase \in {"new", "open"} /\ PromisePhase' = "closed"
    \/ Opens
    \/ TakesOver

LEMMA PhaseFacts ==
    ASSUME SweepAssumption, Types
    PROVE  /\ Torn \notin Settings
           /\ pc = "baseline" => PromisePhase = "new"
           /\ pc = "plan" \/ Searching => PromisePhase = "open"
           /\ pc \in {"final", "report"} =>
                 PromisePhase = IF tuning.knobs = Torn THEN "failed" ELSE "open"
           /\ pc \in {"done", "raised"} =>
                 PromisePhase = IF tuning.knobs = Torn THEN "failed" ELSE "closed"
           /\ pc \in {"interrupted", "failed"} => PromisePhase = "failed"
<1>1. Torn \notin Settings
  BY DEF SweepAssumption
<1>2. pc = "baseline" \/ pc = "plan" \/ Searching => tuning.knobs # Torn
  BY <1>1 DEF Searching, Types
<1>3. pc = "baseline" => PromisePhase = "new"
  BY <1>2 DEF PromisePhase
<1>4. pc = "plan" \/ Searching => PromisePhase = "open"
  BY <1>2 DEF PromisePhase, Searching
<1>5. pc \in {"final", "report"} =>
         PromisePhase = IF tuning.knobs = Torn THEN "failed" ELSE "open"
  BY DEF PromisePhase
<1>6. pc \in {"done", "raised"} =>
         PromisePhase = IF tuning.knobs = Torn THEN "failed" ELSE "closed"
  BY DEF PromisePhase
<1>7. pc \in {"interrupted", "failed"} => PromisePhase = "failed"
  BY DEF PromisePhase
<1> QED BY <1>1, <1>3, <1>4, <1>5, <1>6, <1>7

LEMMA PlanKind ==
    ASSUME SweepAssumption, PromiseInv, PromiseInv', PlanSteps
    PROVE  StepKind
<1> USE DEF Go, Inc, Ev, Sc, Same, Searching
<1>0. Types /\ Types'
  BY DEF PromiseInv
<1>1. CASE MeasureBaseline
  <2>1. pc = "baseline" /\ pc' = "plan" /\ UNCHANGED tuning /\ evidence' = tuning.knobs
    BY <1>1 DEF MeasureBaseline
  <2>2. tuning.knobs = evidence
    BY <2>1 DEF PromiseInv, FileInv
  <2>3. local'.best_value \in Scores
    BY <1>0, <2>1 DEF Types, Measured
  <2>4. PromisePhase = "new" /\ PromisePhase' = "open"
    BY <1>0, <2>1, PhaseFacts DEF PromisePhase, Types
  <2> QED BY <2>1, <2>2, <2>3, <2>4 DEF StepKind, Opens
<1>2. CASE PipelineEndsRun
  <2>1. /\ pc \in {"baseline", "final"} /\ pc' = "raised"
        /\ UNCHANGED <<config, tuning, local, evidence>>
    BY <1>2 DEF PipelineEndsRun
  <2>2. Same
    BY <2>1
  <2>3. CASE tuning.knobs = Torn
    BY <2>1, <2>3 DEF PromisePhase, StepKind
  <2>4. CASE tuning.knobs # Torn
    BY <2>1, <2>2, <2>4 DEF PromisePhase, StepKind
  <2> QED BY <2>3, <2>4
<1>3. CASE Unplannable
  <2>1. pc = "plan" /\ pc' = "raised" /\ UNCHANGED <<config, tuning, local, evidence>>
    BY <1>3 DEF Unplannable
  <2>2. Same
    BY <2>1
  <2> QED BY <1>0, <2>1, <2>2, PhaseFacts DEF StepKind, PromisePhase, Types
<1>4. CASE NothingToTune
  <2>1. pc = "plan" /\ pc' = "final" /\ UNCHANGED <<config, tuning, local, evidence>>
    BY <1>4 DEF NothingToTune
  <2>2. Same
    BY <2>1
  <2> QED BY <1>0, <2>1, <2>2 DEF StepKind, PromisePhase
<1>5. CASE Plan
  <2>1. /\ pc = "plan" /\ pc' = "pick" /\ UNCHANGED <<config, tuning, evidence>>
        /\ local'.current = tuning
        /\ UNCHANGED <<local.best_value, local.baseline>>
    BY <1>0, <1>5 DEF Plan, Types, TypeOK, Locals
  <2>2. tuning.knobs = evidence /\ local.best_value = local.baseline
    BY <2>1 DEF PromiseInv, FileInv, ScoreInv
  <2>3. Same
    BY <2>1, <2>2 DEF HasSweep
  <2> QED BY <1>0, <2>1, <2>3 DEF StepKind, PromisePhase
<1> QED BY <1>1, <1>2, <1>3, <1>4, <1>5 DEF PlanSteps

LEMMA TrialKind ==
    ASSUME SweepAssumption, PromiseInv, PromiseInv', TrialSteps
    PROVE  StepKind
<1> USE DEF Go, Inc, Ev, Sc, Same
<1>0. /\ Types /\ Types' /\ Torn \notin Settings
      /\ Searching => PromisePhase = "open"
      /\ Searching' => PromisePhase' = "open"
  BY PhaseFacts DEF PromiseInv, Searching, PromisePhase, Types
<1>1. CASE BeginTrial
  <2>1. PICK s \in local.todo :
           local' = [local EXCEPT !.cand = s, !.todo = @ \ {s},
                                  !.iter = IF HasSweep(config) THEN @ + 1 ELSE @]
    BY <1>1 DEF BeginTrial
  <2>2. UNCHANGED <<local.best_value, local.baseline, local.current>>
    BY <1>0, <2>1 DEF Types, TypeOK, Locals
  <2>3. Searching /\ Searching' /\ UNCHANGED <<config, evidence>>
    BY <1>1 DEF BeginTrial, Searching
  <2> QED BY <1>0, <2>2, <2>3 DEF StepKind, HasSweep
<1>2. CASE TrialRaises \/ TrialLoses
  <2>1. Searching /\ Searching' /\ UNCHANGED <<config, evidence, local>>
    BY <1>2 DEF TrialRaises, TrialLoses, Searching
  <2> QED BY <1>0, <2>1 DEF StepKind, HasSweep
<1>3. CASE TrialWinsGrid
  <2>1. PICK v \in Scores : local' = Won(v)
    BY <1>3 DEF TrialWinsGrid
  <2>2. UNCHANGED <<local.baseline, local.current>>
    BY <1>0, <2>1, WonType
  <2>3. Searching /\ Searching' /\ HasSweep(config) /\ UNCHANGED config
    BY <1>3 DEF TrialWinsGrid, Searching
  <2> QED BY <1>0, <2>2, <2>3 DEF StepKind, HasSweep
<1>4. CASE TrialWinsToggle
  <2>1. PICK v \in Scores, T \in ToggleProposals(tuning.knobs) :
           /\ TRUE \in Verdicts(v, local.best_value)
           /\ \/ local' = Won(v) /\ pc' = "final"
              \/ /\ local' = [Won(v) EXCEPT !.current = tuning, !.todo = T, !.iter = @ + 1]
                 /\ pc' = "pick"
    BY <1>4 DEF TrialWinsToggle
  <2> DEFINE w == Won(v)
             next == [w EXCEPT !.current = tuning, !.todo = T, !.iter = @ + 1]
  <2>2. w \in Locals /\ w.best_value = v
    BY <1>0, WonType
  <2>3. ASSUME NEW l \in Locals
        PROVE  LET n == [l EXCEPT !.current = tuning, !.todo = T, !.iter = @ + 1]
               IN  n.best_value = l.best_value /\ n.current = tuning
    BY DEF Locals
  <2>4. next.best_value = v /\ next.current = tuning
    BY <2>2, <2>3
  <2>5. (local' = w /\ pc' = "final") \/ (local' = next /\ pc' = "pick")
    BY <2>1
  <2>6. /\ local'.best_value = v
        /\ pc' = "final" \/ (pc' = "pick" /\ local'.current = tuning)
    <3> HIDE DEF w, next
    <3> QED BY <2>2, <2>4, <2>5
  <2>7. /\ pc = "trial" /\ ~HasSweep(config) /\ UNCHANGED <<config, tuning>>
        /\ evidence' = tuning.knobs /\ tuning.knobs \in Settings
    BY <1>0, <1>4 DEF TrialWinsToggle, Types
  <2>8. Sc = local.best_value /\ Sc' = v /\ Inc' = tuning.knobs /\ Ev' = tuning.knobs
    BY <2>6, <2>7 DEF Searching, HasSweep
  <2>9. v > local.best_value
    BY <1>0, <2>1, ScoresAreNumbers, VerdictIsGain
  <2>10. PromisePhase = "open" /\ PromisePhase' = "open"
    BY <1>0, <2>6, <2>7 DEF PromisePhase, Searching
  <2> QED BY <2>7, <2>8, <2>9, <2>10 DEF StepKind, TakesOver
<1>5. CASE NoImprovement
  <2>1. /\ pc = "pick" /\ pc' = "final" /\ ~HasSweep(config)
        /\ UNCHANGED <<config, tuning, local, evidence>>
    BY <1>5 DEF NoImprovement
  <2>2. tuning = local.current /\ evidence = local.current.knobs /\ tuning.knobs \in Settings
    BY <1>0, <2>1 DEF PromiseInv, FileInv, Trying, Types
  <2>3. Same
    BY <2>1, <2>2 DEF Searching, HasSweep
  <2>4. PromisePhase = "open" /\ PromisePhase' = "open"
    BY <1>0, <2>1, <2>2 DEF PromisePhase, Searching
  <2> QED BY <2>3, <2>4 DEF StepKind
<1> QED BY <1>1, <1>2, <1>3, <1>4, <1>5 DEF TrialSteps

LEMMA EndKind ==
    ASSUME SweepAssumption, PromiseInv, PromiseInv', EndSteps
    PROVE  StepKind
<1> USE DEF Go, Inc, Ev, Sc, Same
<1>0. /\ Types /\ Types' /\ Torn \notin Settings
      /\ Searching => PromisePhase = "open"
      /\ Searching' => PromisePhase' = "open"
  BY PhaseFacts DEF PromiseInv, Searching, PromisePhase, Types
<1>1. CASE WriteWinner
  <2>1. /\ pc = "pick" /\ HasSweep(config) /\ UNCHANGED <<config, local, evidence>>
        /\ tuning'.knobs = local.best_knobs
        /\ pc' = IF local.best_iter > 0 THEN "confirm" ELSE "final"
    BY <1>1 DEF WriteWinner
  <2>2. CASE pc' = "confirm"
    <3>1. Searching /\ Searching'
      BY <2>1, <2>2 DEF Searching
    <3> QED BY <1>0, <2>1, <3>1 DEF StepKind, HasSweep
  <2>3. CASE pc' = "final"
    <3>1. local.best_iter = 0
      BY <1>0, <2>1, <2>3 DEF Types, TypeOK, Locals
    <3>2. /\ local.best_value = local.baseline /\ local.best_knobs = local.current.knobs
          /\ evidence = local.best_knobs /\ local.current.knobs \in Settings
      BY <1>0, <2>1, <3>1 DEF PromiseInv, ScoreInv, FileInv, Trying, Types
    <3>3. Same
      BY <2>1, <2>3, <3>2 DEF Searching, HasSweep
    <3>4. PromisePhase = "open" /\ PromisePhase' = "open"
      BY <1>0, <2>1, <2>3, <3>2 DEF PromisePhase, Searching
    <3> QED BY <3>3, <3>4 DEF StepKind
  <2> QED BY <2>1, <2>2, <2>3
<1>2. CASE Confirmed
  <2>1. PICK v \in Scores : /\ TRUE \in Verdicts(v, local.baseline)
                            /\ local' = [local EXCEPT !.best_value = v]
    BY <1>2 DEF Confirmed
  <2>2. local'.best_value = v
    BY <1>0, <2>1 DEF Types, TypeOK, Locals
  <2>3. /\ pc = "confirm" /\ pc' = "final" /\ UNCHANGED <<config, tuning, evidence>>
    BY <1>2 DEF Confirmed
  <2>4. HasSweep(config) /\ tuning.knobs = evidence /\ tuning.knobs \in Settings
    BY <1>0, <2>3 DEF PromiseInv, FileInv, Types
  <2>5. Sc = local.baseline /\ Sc' = v /\ Inc' = tuning.knobs /\ Ev' = tuning.knobs
    BY <2>2, <2>3, <2>4 DEF Searching, HasSweep
  <2>6. v > local.baseline
    BY <1>0, <2>1, ScoresAreNumbers, VerdictIsGain
  <2>7. PromisePhase = "open" /\ PromisePhase' = "open"
    BY <1>0, <2>3, <2>4 DEF PromisePhase, Searching
  <2> QED BY <2>4, <2>5, <2>6, <2>7 DEF StepKind, TakesOver
<1>3. CASE NotConfirmed
  <2>1. /\ pc = "confirm" /\ pc' = "final" /\ UNCHANGED config
        /\ tuning' = local.current /\ evidence' = local.current.knobs
        /\ local'.best_value = local.baseline
    BY <1>0, <1>3 DEF NotConfirmed, Types, TypeOK, Locals
  <2>2. HasSweep(config) /\ local.current.knobs \in Settings
    BY <1>0, <2>1 DEF PromiseInv, FileInv, Types, Trying
  <2>3. Same
    BY <2>1, <2>2 DEF Searching, HasSweep
  <2>4. PromisePhase = "open" /\ PromisePhase' = "open"
    BY <1>0, <2>1, <2>2 DEF PromisePhase, Searching
  <2> QED BY <2>3, <2>4 DEF StepKind
<1>4. CASE ConfirmRaises \/ RevertFails
  <2>1. /\ pc = "confirm" /\ pc' = "final" /\ UNCHANGED <<config, local, evidence>>
        /\ (tuning' = tuning) \/ (tuning' = TornFile)
    BY <1>4 DEF ConfirmRaises, RevertFails
  <2>2. CASE tuning' = TornFile
    <3>1. tuning'.knobs = Torn
      BY <2>2 DEF TornFile, Flat
    <3>2. PromisePhase' = "failed"
      BY <3>1 DEF PromisePhase
    <3> QED BY <3>2 DEF StepKind
  <2>3. CASE tuning' = tuning
    <3>1. HasSweep(config) /\ tuning.knobs = evidence /\ tuning.knobs \in Settings
      BY <1>0, <2>1 DEF PromiseInv, FileInv, Types
    <3>2. local.best_value > local.baseline /\ local.best_value \in Scores
      BY <1>0, <2>1, <3>1 DEF PromiseInv, ScoreInv, Types, Trying, Measured
    <3>3. Sc = local.baseline /\ Sc' = local.best_value
            /\ Inc' = tuning.knobs /\ Ev' = tuning.knobs
      BY <2>1, <2>3, <3>1 DEF Searching, HasSweep
    <3>4. PromisePhase = "open" /\ PromisePhase' = "open"
      BY <1>0, <2>1, <2>3, <3>1 DEF PromisePhase, Searching
    <3> QED BY <3>1, <3>2, <3>3, <3>4 DEF StepKind, TakesOver
  <2> QED BY <2>1, <2>2, <2>3
<1>5. CASE FinalProfile
  <2>1. pc = "final" /\ pc' = "report" /\ UNCHANGED <<config, tuning, local, evidence>>
    BY <1>5 DEF FinalProfile
  <2>2. Same /\ PromisePhase' = PromisePhase
    BY <2>1 DEF Searching, PromisePhase
  <2> QED BY <2>2 DEF StepKind
<1>6. CASE WriteReport
  <2>1. /\ pc = "report" /\ pc' \in {"done", "raised"}
        /\ UNCHANGED <<config, tuning, local, evidence>>
    BY <1>6 DEF WriteReport
  <2>2. Same
    BY <2>1 DEF Searching
  <2>3. CASE tuning.knobs = Torn
    BY <2>1, <2>3 DEF PromisePhase, StepKind
  <2>4. CASE tuning.knobs # Torn
    <3>1. PromisePhase = "open" /\ PromisePhase' = "closed"
      BY <2>1, <2>4 DEF PromisePhase
    <3> QED BY <2>2, <3>1 DEF StepKind
  <2> QED BY <2>3, <2>4
<1>7. CASE DiskFails
  BY <1>7 DEF DiskFails, StepKind, PromisePhase
<1> QED BY <1>1, <1>2, <1>3, <1>4, <1>5, <1>6, <1>7 DEF EndSteps

(* Every kind of step is one Incumbent allows.                                 *)
LEMMA StepRefines ==
    ASSUME SweepAssumption, PromiseInv, PromiseInv', [Next]_vars
    PROVE  [Promise!Next]_Promise!vars
<1>1. CASE StepKind
  <2>1. /\ Inc' \in Settings \cup {Torn} /\ Ev' \in Settings \cup {Torn}
        /\ Sc' \in Scores \cup {0}
    BY DEF PromiseInv, Types, TypeOK, Locals, File, Inc, Ev, Sc
  <2>2. CASE PromisePhase' = "failed"
    <3>1. Promise!Fail
      BY <2>1, <2>2 DEF Promise!Fail, Inc, Ev, Sc
    <3> QED BY <3>1 DEF Promise!Next
  <2>3. CASE Same /\ PromisePhase' = PromisePhase
    BY <2>3 DEF Same, Promise!vars, Inc, Ev, Sc
  <2>4. CASE Same /\ PromisePhase \in {"new", "open"} /\ PromisePhase' = "closed"
    <3>1. Promise!Close
      BY <2>4 DEF Same, Promise!Close, Inc, Ev, Sc
    <3> QED BY <3>1 DEF Promise!Next
  <2>5. CASE Opens
    <3>1. Promise!Open
      BY <2>5 DEF Opens, Promise!Open, Inc, Ev, Sc
    <3> QED BY <3>1 DEF Promise!Next
  <2>6. CASE TakesOver
    <3>1. Promise!Promote
      BY <2>6 DEF TakesOver, Promise!Promote, Inc, Ev, Sc
    <3> QED BY <3>1 DEF Promise!Next
  <2> QED BY <1>1, <2>2, <2>3, <2>4, <2>5, <2>6 DEF StepKind
<1>2. CASE Work
  BY <1>1, <1>2, PlanKind, TrialKind, EndKind DEF Work, PlanSteps, TrialSteps, EndSteps
<1>3. CASE Interrupted
  BY <1>1, <1>3 DEF Interrupted, Go, StepKind, PromisePhase
<1>4. CASE Ended \/ UNCHANGED vars
  <2>1. UNCHANGED <<config, pc, tuning, local, evidence>>
    BY <1>4 DEF Ended, vars
  <2>2. Same
    BY <2>1 DEF Same, Inc, Ev, Sc, Searching, HasSweep
  <2>3. PromisePhase' = PromisePhase
    BY <2>1 DEF PromisePhase
  <2> QED BY <1>1, <2>2, <2>3 DEF StepKind
<1> QED BY <1>2, <1>3, <1>4 DEF Next

(* For any grid and any tolerance the search is a behaviour of Incumbent: a    *)
(* setting takes over only with a score above that of the one before it, and   *)
(* the score quoted was measured on the setting handed over.                   *)
THEOREM SweepImplementsIncumbent == Spec => SweepKeepsPromise
<1> USE SweepAssumption
<1>1. Init => Promise!Init
  <2>1. ASSUME Init PROVE Promise!Init
    <3>1. /\ pc = "baseline" /\ tuning.knobs = Original /\ evidence = Original
          /\ local.best_value = 0 /\ Original \in Settings /\ Torn \notin Settings
      BY <2>1 DEF Init, SweepAssumption
    <3>2. PromisePhase = "new" /\ ~Searching
      BY <3>1 DEF PromisePhase, Searching
    <3> QED BY <3>1, <3>2 DEF Promise!Init
  <2> QED BY <2>1
<1>2. PromiseInv /\ PromiseInv' /\ [Next]_vars => [Promise!Next]_Promise!vars
  BY StepRefines
<1> QED BY <1>1, <1>2, PromiseInvariant, PTL DEF Spec, SweepKeepsPromise, Promise!Spec

-----------------------------------------------------------------------------
(* The search comes to an end.  A grid is tried once; every round of toggles   *)
(* is one of at most MaxIters, and tries each setting once at most.            *)

TrialsLeft == Cardinality(local.todo)

(* The trials of the rounds to come, two steps each.                           *)
RoundsLeft ==
    IF HasSweep(config) THEN 0 ELSE 2 * Cardinality(Settings) * (MaxIters - local.iter)

Longest ==
    IF HasSweep(config) THEN 2 * MaxTrials ELSE 2 * Cardinality(Settings) * MaxIters

(* The steps that are left at most.                                            *)
Remaining ==
    CASE pc = "baseline" -> Longest + 6
      [] pc = "plan"     -> Longest + 5
      [] pc = "pick"     -> 2 * TrialsLeft + RoundsLeft + 4
      [] pc = "trial"    -> 2 * TrialsLeft + RoundsLeft + 5
      [] pc = "confirm"  -> 3
      [] pc = "final"    -> 2
      [] pc = "report"   -> 1
      [] pc \in Over     -> 0

Counting == {"pick", "trial"}

(* The trials still to be made are bounded by what the search may take.        *)
CountInv ==
    /\ Types
    /\ pc \in Counting => local.todo \in SUBSET Settings /\ IsFiniteSet(local.todo)
    /\ pc \in Counting /\ HasSweep(config) => TrialsLeft \in 0 .. MaxTrials
    /\ pc \in Counting /\ ~HasSweep(config) => local.iter \in 1 .. MaxIters

LEMMA FiniteChoice ==
    ASSUME IsFiniteSet(Settings), NEW T \in SUBSET Settings
    PROVE  IsFiniteSet(T) /\ Cardinality(T) \in 0 .. Cardinality(Settings)
BY FS_Subset, FS_CardinalityType

LEMMA OneFewer ==
    ASSUME NEW T, IsFiniteSet(T), NEW t \in T
    PROVE  /\ IsFiniteSet(T \ {t}) /\ Cardinality(T) \in Nat
           /\ Cardinality(T \ {t}) = Cardinality(T) - 1
BY FS_RemoveElement, FS_CardinalityType

(* A round less.                                                               *)
LEMMA RoundsArithmetic ==
    ASSUME NEW m \in Nat, NEW k \in Nat, NEW i \in 1 .. k
    PROVE  /\ 2 * m * (k - i) \in Nat /\ 2 * m * k \in Nat
           /\ 2 * m * (k - i) + 2 * m <= 2 * m * k
           /\ i < k => 2 * m * (k - (i + 1)) = 2 * m * (k - i) - 2 * m
OBVIOUS

(* What the locals are typed as.                                               *)
LEMMA SearchTypes ==
    ASSUME Types
    PROVE  local.iter \in Nat /\ local.todo \in SUBSET Settings
BY DEF Types, TypeOK, Locals

(* Counting is undisturbed by a step that leaves the locals it reads alone.    *)
LEMMA CountUndisturbed ==
    ASSUME CountInv, Types', UNCHANGED config,
           pc' \notin Counting \/ (pc \in Counting /\ UNCHANGED <<local.todo, local.iter>>)
    PROVE  CountInv'
BY DEF CountInv, TrialsLeft

LEMMA CountKept ==
    ASSUME SweepAssumption, IsFiniteSet(Settings), CountInv, [Next]_vars, Types'
    PROVE  CountInv'
<1> USE SweepAssumption
<1>1. UNCHANGED config
  BY DEF Next, Work, MeasureBaseline, PipelineEndsRun, Unplannable, NothingToTune, Plan,
         BeginTrial, TrialRaises, TrialWinsGrid, TrialWinsToggle, TrialLoses, NoImprovement,
         WriteWinner, Confirmed, NotConfirmed, ConfirmRaises, RevertFails, FinalProfile,
         WriteReport, DiskFails, Interrupted, Ended, vars
<1>2. CASE Plan
  <2>1. PICK T \in FirstProposals :
           local' = [local EXCEPT !.current = tuning, !.best_knobs = tuning.knobs,
                                  !.todo = T, !.iter = IF HasSweep(config) THEN 0 ELSE 1]
    BY <1>2 DEF Plan
  <2>2. T \in SUBSET Settings /\ Cardinality(T) <= MaxTrials
    BY DEF FirstProposals, GridProposals, ToggleProposals
  <2>3. local'.todo = T /\ local'.iter = IF HasSweep(config) THEN 0 ELSE 1
    BY <2>1 DEF CountInv, Types, TypeOK, Locals
  <2>4. IsFiniteSet(T) /\ Cardinality(T) \in 0 .. MaxTrials
    BY <2>2, FiniteChoice
  <2> QED BY <1>1, <2>2, <2>3, <2>4 DEF CountInv, TrialsLeft
<1>3. CASE BeginTrial
  <2>1. PICK s \in local.todo :
           local' = [local EXCEPT !.cand = s, !.todo = @ \ {s},
                                  !.iter = IF HasSweep(config) THEN @ + 1 ELSE @]
    BY <1>3 DEF BeginTrial
  <2>2. /\ local'.todo = local.todo \ {s} /\ (~HasSweep(config) => UNCHANGED local.iter)
        /\ pc \in Counting
    BY <1>3, <2>1 DEF CountInv, Types, TypeOK, Locals, BeginTrial, Counting
  <2>3. /\ IsFiniteSet(local'.todo) /\ TrialsLeft \in Nat
        /\ Cardinality(local'.todo) = TrialsLeft - 1
    BY <2>2, OneFewer DEF CountInv, TrialsLeft
  <2>4. HasSweep(config) => TrialsLeft' \in 0 .. MaxTrials
    <3>1. Cardinality(local'.todo) \in Nat
      BY <2>3, FS_CardinalityType
    <3> QED BY <2>2, <2>3, <3>1 DEF CountInv, TrialsLeft
  <2> QED BY <1>1, <2>2, <2>3, <2>4 DEF CountInv
<1>4. CASE TrialWinsToggle
  <2>1. /\ ~HasSweep(config) /\ pc = "trial"
        /\ \/ pc' = "final"
           \/ /\ local.iter # MaxIters
              /\ \E v \in Scores, T \in ToggleProposals(tuning.knobs) :
                    local' = [Won(v) EXCEPT !.current = tuning, !.todo = T, !.iter = @ + 1]
    BY <1>4 DEF TrialWinsToggle, Go
  <2>2. CASE pc' = "final"
    BY <1>1, <2>2, CountUndisturbed DEF Counting
  <2>3. ASSUME NEW v \in Scores, NEW T \in ToggleProposals(tuning.knobs),
               local.iter # MaxIters,
               local' = [Won(v) EXCEPT !.current = tuning, !.todo = T, !.iter = @ + 1]
        PROVE  CountInv'
    <3>1. Won(v) \in Locals /\ Won(v).iter = local.iter
      BY WonType DEF CountInv
    <3>2. local'.todo = T /\ local'.iter = local.iter + 1
      BY <2>3, <3>1 DEF Locals
    <3>3. T \in SUBSET Settings /\ IsFiniteSet(T)
      BY FiniteChoice DEF ToggleProposals
    <3>4. local.iter + 1 \in 1 .. MaxIters
      <4>1. local.iter \in 1 .. MaxIters /\ MaxIters \in Nat
        BY <2>1 DEF CountInv, Counting, SweepAssumption
      <4> QED BY <2>3, <4>1
    <3> QED BY <1>1, <2>1, <3>2, <3>3, <3>4 DEF CountInv
  <2> QED BY <2>1, <2>2, <2>3
<1>5. CASE TrialRaises \/ TrialWinsGrid \/ TrialLoses
  <2>1. pc \in Counting
    BY <1>5 DEF TrialRaises, TrialWinsGrid, TrialLoses, Counting
  <2>2. UNCHANGED <<local.todo, local.iter>>
    <3>1. CASE TrialWinsGrid
      BY <3>1 DEF TrialWinsGrid, Won, CountInv, Types, TypeOK, Locals
    <3> QED BY <1>5, <3>1 DEF TrialRaises, TrialLoses
  <2> QED BY <1>1, <2>1, <2>2, CountUndisturbed
<1>6. CASE \/ MeasureBaseline \/ PipelineEndsRun \/ Unplannable \/ NothingToTune
           \/ NoImprovement \/ WriteWinner \/ Confirmed \/ NotConfirmed \/ ConfirmRaises
           \/ RevertFails \/ FinalProfile \/ WriteReport \/ DiskFails \/ Interrupted
  <2>1. pc' \notin Counting
    BY <1>6 DEF MeasureBaseline, PipelineEndsRun, Unplannable, NothingToTune, NoImprovement,
           WriteWinner, Confirmed, NotConfirmed, ConfirmRaises, RevertFails, FinalProfile,
           WriteReport, DiskFails, Interrupted, Go, Counting
  <2> QED BY <1>1, <2>1, CountUndisturbed
<1>7. CASE Ended \/ UNCHANGED vars
  BY <1>7, <1>1 DEF Ended, vars, CountInv, TrialsLeft
<1> QED BY <1>2, <1>3, <1>4, <1>5, <1>6, <1>7 DEF Next, Work

(* What is left at each place.                                                 *)
LeftAt ==
    /\ pc = "baseline" => Remaining = Longest + 6
    /\ pc = "plan" => Remaining = Longest + 5
    /\ pc = "pick" => Remaining = 2 * TrialsLeft + RoundsLeft + 4
    /\ pc = "trial" => Remaining = 2 * TrialsLeft + RoundsLeft + 5
    /\ pc = "confirm" => Remaining = 3
    /\ pc = "final" => Remaining = 2
    /\ pc = "report" => Remaining = 1
    /\ pc \in Over => Remaining = 0

LEMMA RemainingAt == LeftAt /\ LeftAt'
<1>1. LeftAt
  BY DEF LeftAt, Remaining, Over
<1>2. LeftAt'
  BY DEF LeftAt, Remaining, Over
<1> QED BY <1>1, <1>2

(* The counts, and how much may be left while the search goes on.              *)
CountFacts ==
    /\ Longest \in Nat
    /\ pc \in Counting =>
          /\ TrialsLeft \in Nat /\ RoundsLeft \in Nat
          /\ 2 * TrialsLeft + RoundsLeft <= Longest

LEMMA Counts ==
    ASSUME SweepAssumption, IsFiniteSet(Settings), CountInv
    PROVE  CountFacts
<1> DEFINE m == Cardinality(Settings)
<1>1. m \in Nat /\ MaxIters \in Nat /\ MaxTrials \in Nat
  BY FS_CardinalityType DEF SweepAssumption
<1>2. Longest \in Nat
  BY <1>1, RoundsArithmetic DEF Longest
<1>3. ASSUME pc \in Counting, HasSweep(config)
      PROVE  TrialsLeft \in Nat /\ RoundsLeft \in Nat /\ 2 * TrialsLeft + RoundsLeft <= Longest
  <2>1. TrialsLeft \in 0 .. MaxTrials /\ RoundsLeft = 0 /\ Longest = 2 * MaxTrials
    BY <1>3 DEF CountInv, RoundsLeft, Longest
  <2> QED BY <1>1, <2>1
<1>4. ASSUME pc \in Counting, ~HasSweep(config)
      PROVE  TrialsLeft \in Nat /\ RoundsLeft \in Nat /\ 2 * TrialsLeft + RoundsLeft <= Longest
  <2>1. /\ TrialsLeft \in 0 .. m /\ local.iter \in 1 .. MaxIters
        /\ RoundsLeft = 2 * m * (MaxIters - local.iter) /\ Longest = 2 * m * MaxIters
    BY <1>4, FiniteChoice DEF CountInv, RoundsLeft, Longest, TrialsLeft
  <2>2. RoundsLeft \in Nat /\ RoundsLeft + 2 * m <= Longest
    BY <1>1, <2>1, RoundsArithmetic
  <2> HIDE DEF m
  <2> QED BY <1>1, <1>2, <2>1, <2>2
<1> QED BY <1>2, <1>3, <1>4 DEF CountFacts

LEMMA RemainingCounted ==
    ASSUME SweepAssumption, IsFiniteSet(Settings), CountInv
    PROVE  Remaining \in 0 .. Longest + 6
<1>1. /\ Longest \in Nat
      /\ pc \in Counting =>
            /\ TrialsLeft \in Nat /\ RoundsLeft \in Nat
            /\ 2 * TrialsLeft + RoundsLeft <= Longest
  BY Counts DEF CountFacts
<1>2. pc \in Over \cup {"baseline", "plan", "pick", "trial", "confirm", "final", "report"}
  BY DEF CountInv, Types, TypeOK
<1> QED BY <1>1, <1>2, RemainingAt DEF LeftAt, Counting

(* The ways through the places, and what happens to the counts on them.        *)
Advance ==
    \/ pc = "baseline" /\ pc' = "plan"
    \/ pc = "plan" /\ pc' = "pick"
    \/ /\ pc = "pick" /\ pc' = "trial"
       /\ TrialsLeft' = TrialsLeft - 1 /\ RoundsLeft' = RoundsLeft
    \/ /\ pc = "trial" /\ pc' = "pick"
       /\ \/ TrialsLeft' = TrialsLeft /\ RoundsLeft' = RoundsLeft
          \/ 2 * TrialsLeft' + RoundsLeft' <= RoundsLeft
    \/ pc \in {"baseline", "plan", "pick", "trial"} /\ pc' \in {"confirm", "final"} \cup Over
    \/ pc = "confirm" /\ pc' \in {"final"} \cup Over
    \/ pc = "final" /\ pc' \in {"report"} \cup Over
    \/ pc = "report" /\ pc' \in Over

LEMMA AdvanceCountsDown ==
    ASSUME CountFacts, CountFacts', UNCHANGED config, Advance
    PROVE  Remaining' < Remaining
<1> USE RemainingAt DEF LeftAt, CountFacts, Counting
<1>1. Longest' = Longest /\ Longest \in Nat
  BY DEF Longest
<1>2. CASE pc = "baseline" /\ pc' = "plan"
  BY <1>1, <1>2
<1>3. CASE pc = "plan" /\ pc' = "pick"
  BY <1>1, <1>3
<1>4. CASE /\ pc = "pick" /\ pc' = "trial"
           /\ TrialsLeft' = TrialsLeft - 1 /\ RoundsLeft' = RoundsLeft
  <2>1. TrialsLeft \in Nat /\ RoundsLeft \in Nat
    BY <1>4
  <2>2. /\ Remaining = 2 * TrialsLeft + RoundsLeft + 4
        /\ Remaining' = 2 * (TrialsLeft - 1) + RoundsLeft + 5
    BY <1>4
  <2> QED BY <2>1, <2>2
<1>5. CASE /\ pc = "trial" /\ pc' = "pick"
           /\ \/ TrialsLeft' = TrialsLeft /\ RoundsLeft' = RoundsLeft
              \/ 2 * TrialsLeft' + RoundsLeft' <= RoundsLeft
  <2> DEFINE n == 2 * TrialsLeft' + RoundsLeft'
  <2>1. /\ TrialsLeft \in Nat /\ RoundsLeft \in Nat /\ n \in Nat
        /\ n <= 2 * TrialsLeft + RoundsLeft
    BY <1>5
  <2>2. /\ Remaining = 2 * TrialsLeft + RoundsLeft + 5
        /\ Remaining' = n + 4
    BY <1>5
  <2> HIDE DEF n
  <2> QED BY <2>1, <2>2
<1>6. CASE /\ pc \in {"baseline", "plan", "pick", "trial"}
           /\ pc' \in {"confirm", "final"} \cup Over
  <2>1. Remaining \in Nat /\ Remaining > 3
    BY <1>1, <1>6
  <2>2. Remaining' \in 0 .. 3
    BY <1>6
  <2> QED BY <2>1, <2>2
<1>7. CASE pc = "confirm" /\ pc' \in {"final"} \cup Over
  BY <1>7
<1>8. CASE pc = "final" /\ pc' \in {"report"} \cup Over
  BY <1>8
<1>9. CASE pc = "report" /\ pc' \in Over
  BY <1>9
<1> QED BY <1>2, <1>3, <1>4, <1>5, <1>6, <1>7, <1>8, <1>9 DEF Advance

(* Every step is one of these ways.                                            *)
LEMMA StepsAdvance ==
    ASSUME SweepAssumption, IsFiniteSet(Settings), CountInv, CountInv', Work \/ Interrupted
    PROVE  UNCHANGED config /\ Advance
<1>1. UNCHANGED config
  BY DEF Work, MeasureBaseline, PipelineEndsRun, Unplannable, NothingToTune, Plan,
         BeginTrial, TrialRaises, TrialWinsGrid, TrialWinsToggle, TrialLoses, NoImprovement,
         WriteWinner, Confirmed, NotConfirmed, ConfirmRaises, RevertFails, FinalProfile,
         WriteReport, DiskFails, Interrupted
<1>2. CASE BeginTrial
  <2>1. PICK s \in local.todo :
           local' = [local EXCEPT !.cand = s, !.todo = @ \ {s},
                                  !.iter = IF HasSweep(config) THEN @ + 1 ELSE @]
    BY <1>2 DEF BeginTrial
  <2>2. /\ local'.todo = local.todo \ {s} /\ (~HasSweep(config) => UNCHANGED local.iter)
        /\ pc = "pick" /\ pc' = "trial"
    BY <1>2, <2>1 DEF CountInv, Types, TypeOK, Locals, BeginTrial, Go
  <2>3. TrialsLeft' = TrialsLeft - 1
    BY <2>2, OneFewer DEF CountInv, TrialsLeft, Counting
  <2>4. RoundsLeft' = RoundsLeft
    BY <1>1, <2>2 DEF RoundsLeft
  <2> QED BY <1>1, <2>2, <2>3, <2>4 DEF Advance
<1>3. CASE TrialRaises \/ TrialWinsGrid \/ TrialLoses
  <2>1. UNCHANGED <<local.todo, local.iter>>
    <3>1. CASE TrialWinsGrid
      BY <3>1 DEF TrialWinsGrid, Won, CountInv, Types, TypeOK, Locals
    <3> QED BY <1>3, <3>1 DEF TrialRaises, TrialLoses
  <2>2. pc = "trial" /\ pc' = "pick"
    BY <1>3 DEF TrialRaises, TrialWinsGrid, TrialLoses, Go
  <2>3. TrialsLeft' = TrialsLeft /\ RoundsLeft' = RoundsLeft
    BY <1>1, <2>1 DEF TrialsLeft, RoundsLeft
  <2> QED BY <1>1, <2>2, <2>3 DEF Advance
<1>4. CASE TrialWinsToggle
  <2>1. /\ ~HasSweep(config) /\ pc = "trial"
        /\ \/ pc' = "final"
           \/ /\ local.iter # MaxIters /\ pc' = "pick"
              /\ \E v \in Scores, T \in ToggleProposals(tuning.knobs) :
                    local' = [Won(v) EXCEPT !.current = tuning, !.todo = T, !.iter = @ + 1]
    BY <1>4 DEF TrialWinsToggle, Go
  <2>2. CASE pc' = "final"
    BY <1>1, <2>1, <2>2 DEF Advance
  <2>3. ASSUME NEW v \in Scores, NEW T \in ToggleProposals(tuning.knobs),
               local.iter # MaxIters, pc' = "pick",
               local' = [Won(v) EXCEPT !.current = tuning, !.todo = T, !.iter = @ + 1]
        PROVE  Advance
    <3> DEFINE m == Cardinality(Settings)
    <3>1. Won(v) \in Locals /\ Won(v).iter = local.iter
      BY WonType DEF CountInv
    <3>2. local'.todo = T /\ local'.iter = local.iter + 1
      BY <2>3, <3>1 DEF Locals
    <3>3. m \in Nat /\ TrialsLeft' \in 0 .. m
      BY <3>2, FiniteChoice, FS_CardinalityType DEF ToggleProposals, TrialsLeft
    <3>4. local.iter \in 1 .. MaxIters /\ MaxIters \in Nat /\ local.iter < MaxIters
      <4>1. local.iter \in 1 .. MaxIters /\ MaxIters \in Nat
        BY <2>1 DEF CountInv, Counting, SweepAssumption
      <4> QED BY <2>3, <4>1
    <3>5. /\ RoundsLeft = 2 * m * (MaxIters - local.iter)
          /\ RoundsLeft' = 2 * m * (MaxIters - (local.iter + 1))
      BY <1>1, <2>1, <3>2 DEF RoundsLeft
    <3>6. RoundsLeft \in Nat /\ RoundsLeft' = RoundsLeft - 2 * m
      BY <3>3, <3>4, <3>5, RoundsArithmetic
    <3>7. \A t \in 0 .. m : 2 * t + (RoundsLeft - 2 * m) <= RoundsLeft
      <4> HIDE DEF m
      <4> QED BY <3>3, <3>6
    <3> QED BY <2>1, <2>3, <3>3, <3>6, <3>7 DEF Advance
  <2> QED BY <1>1, <2>1, <2>2, <2>3
<1>5. CASE MeasureBaseline \/ Plan
  BY <1>1, <1>5 DEF MeasureBaseline, Plan, Go, Advance
<1>6. CASE \/ PipelineEndsRun \/ Unplannable \/ NothingToTune \/ NoImprovement \/ WriteWinner
           \/ Confirmed \/ NotConfirmed \/ ConfirmRaises \/ RevertFails \/ FinalProfile
           \/ WriteReport \/ DiskFails \/ Interrupted
  BY <1>1, <1>6 DEF PipelineEndsRun, Unplannable, NothingToTune, NoImprovement, WriteWinner,
         Confirmed, NotConfirmed, ConfirmRaises, RevertFails, FinalProfile, WriteReport,
         DiskFails, Interrupted, Go, Advance, Over
<1> QED BY <1>2, <1>3, <1>4, <1>5, <1>6 DEF Work

LEMMA CountInvariant ==
    ASSUME IsFiniteSet(Settings)
    PROVE  Spec => [](CountInv /\ CountFacts)
<1> USE SweepAssumption
<1>1. Init /\ Types => CountInv
  BY DEF Init, CountInv, Counting
<1>2. CountInv /\ Types' /\ [Next]_vars => CountInv'
  BY CountKept
<1>3. CountInv => CountFacts
  BY Counts
<1> QED BY <1>1, <1>2, <1>3, TypesInvariant, PTL DEF Spec

(* However many knobs there are to turn, a search is bounded: a grid costs two *)
(* steps per trial and at most MaxTrials trials, toggles at most MaxIters      *)
(* rounds of every setting, and six steps come before and after.               *)
THEOREM SearchIsBounded ==
    ASSUME IsFiniteSet(Settings)
    PROVE  Spec => [](Remaining \in 0 .. Longest + 6)
<1> USE SweepAssumption
<1>1. CountInv => Remaining \in 0 .. Longest + 6
  BY RemainingCounted
<1> QED BY <1>1, CountInvariant, PTL

(* No step gives a trial or a round back, whether the pipeline raises, a       *)
(* toggle wins, the confirmation fails or Ctrl-C comes in between.             *)
THEOREM EveryStepCounts ==
    ASSUME IsFiniteSet(Settings)
    PROVE  Spec => [][Remaining' < Remaining]_vars
<1> USE SweepAssumption
<1>1. ASSUME CountInv, CountInv', CountFacts, CountFacts', [Next]_vars
      PROVE  [Remaining' < Remaining]_vars
  <2>1. CASE Work \/ Interrupted
    BY <1>1, <2>1, StepsAdvance, AdvanceCountsDown
  <2>2. CASE Ended \/ UNCHANGED vars
    BY <2>2 DEF Ended
  <2> QED BY <1>1, <2>1, <2>2 DEF Next
<1> QED BY <1>1, CountInvariant, PTL DEF Spec
=============================================================================
