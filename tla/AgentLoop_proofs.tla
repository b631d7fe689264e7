-------------------------- MODULE AgentLoop_proofs --------------------------
(* Theorems about AgentLoop, for every iteration budget, every set of scores,  *)
(* tunings and settings.                                                       *)
EXTENDS AgentLoop, TLAPS

-----------------------------------------------------------------------------
(* The helpers keep their types.                                               *)

(* Appending an entry for the current iteration keeps a context a context.     *)
LEMMA LoggedType ==
    ASSUME NEW c \in Context, NEW kind \in Kinds, LoopAssumption
    PROVE  Logged(c, kind) \in Context
<1> DEFINE entry == [iteration |-> c.iteration, kind |-> kind]
<1>1. entry \in Entry
  BY DEF Context, Entry, LoopAssumption
<1>2. Append(c.history, entry) \in Seq(Entry)
  BY <1>1 DEF Context
<1>3. Logged(c, kind) = [c EXCEPT !.history = Append(c.history, entry)]
  BY DEF Logged
<1> HIDE DEF entry
<1> QED BY <1>2, <1>3 DEF Context

(* A failure recorded with the detector keeps a context a context.             *)
LEMMA RecordFailureType ==
    ASSUME NEW c \in Context
    PROVE  RecordFailure(c) \in Context
BY DEF RecordFailure, Context

(* So does an improvement: the detector keeps at most its last two gains.      *)
LEMMA RecordImprovementType ==
    ASSUME NEW c \in Context, NEW gain \in Gains
    PROVE  RecordImprovement(c, gain) \in Context
<1> DEFINE recent == IF Len(c.recent) < 2 THEN Append(c.recent, gain)
                                          ELSE <<c.recent[2], gain>>
<1>1. recent \in Seq(Gains)
  <2>1. CASE Len(c.recent) < 2
    BY <2>1 DEF Context
  <2>2. CASE Len(c.recent) >= 2
    <3>1. c.recent[2] \in Gains
      BY <2>2 DEF Context
    <3> QED BY <2>2, <3>1 DEF Context
  <2> QED BY <2>1, <2>2 DEF Context
<1>2. RecordImprovement(c, gain) \in {c, [c EXCEPT !.failures = 0, !.recent = recent]}
  BY DEF RecordImprovement
<1> HIDE DEF recent
<1>3. [c EXCEPT !.failures = 0, !.recent = recent] \in Context
  BY <1>1 DEF Context
<1> QED BY <1>2, <1>3

(* What goes into state.json is a snapshot.                                    *)
LEMMA SnapshotType ==
    ASSUME NEW c \in Context, LoopAssumption
    PROVE  Snapshot(c) \in [iteration : Nat, best_value : Nat, best_iter : Nat,
                            accepted_count : Nat, entries : Nat, stop : Stops]
BY DEF Snapshot, Context, LoopAssumption

(* The end of an iteration keeps the types, whatever the context it ends with. *)
LEMMA CloseIterationType ==
    ASSUME TypeOK, LoopAssumption, NEW c \in Context, CloseIteration(c)
    PROVE  ctx' \in Context /\ run_dir' \in RunDir /\ pc' \in {"top", "finalize", "abort"}
<1>1. run_dir' \in RunDir
  BY SnapshotType DEF CloseIteration, StateWrites, TypeOK, RunDir
<1>2. [c EXCEPT !.stop = "converged"] \in Context /\ Crashed(c) \in Context
  BY DEF Context, Stops, Crashed
<1>3. Logged([c EXCEPT !.stop = "converged"], "early stop") \in Context
  BY <1>2, LoggedType DEF Kinds
<1> QED BY <1>1, <1>2, <1>3 DEF CloseIteration

(* What an answer may cost is bounded: it is a known number of calls.          *)
LEMMA AnswerCostType == ASSUME LoopAssumption PROVE AnswerCost \in Nat
<1>1. CallsPerAnswer \in Nat /\ MaxCallCost \in Nat
  BY DEF LoopAssumption, CallsPerAnswer
<1>2. \A m, n \in Nat : m * n \in Nat
  OBVIOUS
<1> QED BY <1>1, <1>2 DEF AnswerCost

(* A workspace keeps its type when programs run in it, when its protected      *)
(* files are verified, and when a sweep writes or restores tuning.yaml.        *)
LEMMA WorkspaceType ==
    ASSUME NEW w \in Workspace
    PROVE  /\ Executed(w) \subseteq Workspace
           /\ Verified(w) \subseteq Workspace
           /\ Diagnosed(w) \subseteq Workspace
           /\ Rebuilt(w) \in Workspace
           /\ \A t \in Tunings, s \in BOOLEAN :
                 [w EXCEPT !.tuning = t, !.sweep = s] \in Workspace
BY DEF Executed, Verified, Diagnosed, Rebuilt, ProgramIn, Program, Workspace

(* The sweep's locals start out typed.                                         *)
LEMMA NoTrialType == ASSUME LoopAssumption PROVE NoTrial \in Trial
BY DEF NoTrial, Trial, BaselineProgram, Program, LoopAssumption

(* What an accept writes is typed, and so is every prefix of its records.      *)
LEMMA AcceptType ==
    ASSUME LoopAssumption, TypeOK,
           NEW v \in Scores, NEW tuning \in Tunings, NEW sweep \in BOOLEAN
    PROVE  /\ Patched(tuning, sweep) \in Workspace
           /\ Scored(v) \in Context
           /\ Logged(Scored(v), "accepted") \in Context
           /\ Recorded(v) \in Context
           /\ Promoted(tuning, sweep) \in Ghost
<1>1. v \in Nat /\ ctx.iteration \in Int /\ ctx.iteration \in 0 .. MaxIters
  BY DEF TypeOK, Context, LoopAssumption
<1>2. Patched(tuning, sweep) \in Workspace
  BY <1>1 DEF TypeOK, Workspace, Patched
<1>3. Scored(v) \in Context
  BY <1>1 DEF TypeOK, Context, Scored
<1>4. Logged(Scored(v), "accepted") \in Context
  BY <1>3, LoggedType DEF Kinds
<1>5. Recorded(v) \in Context
  <2>1. ASSUME NEW c \in Context PROVE [c EXCEPT !.accepted_count = @ + 1] \in Context
    <3>1. c.accepted_count + 1 \in Nat
      BY DEF Context
    <3> QED BY <3>1 DEF Context
  <2> QED BY <1>4, <2>1 DEF Recorded
<1>6. Promoted(tuning, sweep) \in Ghost
  BY <1>1 DEF TypeOK, Ghost, Promoted, Program
<1> QED BY <1>2, <1>3, <1>4, <1>5, <1>6

-----------------------------------------------------------------------------
(* Type correctness, phase by phase.                                           *)

(* The initial state is typed.                                                 *)

LEMMA InitType == ASSUME LoopAssumption, Init PROVE TypeOK
<1> USE DEF Init
<1>1. ctx \in Context
  BY DEF Context, Stops, LoopAssumption
<1>2. ws \in Workspace /\ trial \in Trial /\ ghost \in Ghost
  BY DEF Workspace, Trial, Ghost, NoTrial, Program, BaselineProgram, Unknown,
         LoopAssumption, Config
<1>3. run_dir \in RunDir /\ round \in Round /\ reply \in Replies /\ pc \in Phases
  BY DEF RunDir, NoSnapshot, Stops, Round, NoRound, Gains, Replies, Phases
<1> QED BY <1>1, <1>2, <1>3 DEF TypeOK

(* The loop's own steps.                                                       *)
LEMMA IterateType == ASSUME LoopAssumption, TypeOK, Iterate PROVE TypeOK'
<1> USE DEF TypeOK
<1>1. CASE IterationsExhausted
  BY <1>1 DEF IterationsExhausted, Phases
<1>2. CASE StartIteration
  <2>1. ctx.iteration + 1 \in 0 .. MaxIters
    <3>1. ctx.iteration \in 0 .. MaxIters /\ ctx.iteration < MaxIters
      BY <1>2 DEF StartIteration, Context
    <3> QED BY <3>1 DEF LoopAssumption
  <2>2. ctx' \in Context
    BY <1>2, <2>1 DEF StartIteration, Context
  <2> QED BY <1>2, <2>2 DEF StartIteration, Phases, LoopPhases, NoRound, Round, Gains
<1>3. CASE WallClockExceeded
  <2>1. ctx.iteration + 1 \in 0 .. MaxIters
    <3>1. ctx.iteration \in 0 .. MaxIters /\ ctx.iteration < MaxIters
      BY <1>3 DEF WallClockExceeded, Context
    <3> QED BY <3>1 DEF LoopAssumption
  <2>2. [ctx EXCEPT !.iteration = @ + 1] \in Context
    BY <2>1 DEF Context
  <2> QED BY <1>3, <2>2, LoggedType DEF WallClockExceeded, Phases, Kinds
<1>4. CASE LLMAnswers
  <2>1. PICK cost \in 0 .. AnswerCost : ctx' = [ctx EXCEPT !.spend = @ + cost]
    BY <1>4 DEF LLMAnswers
  <2>2. ctx.spend + cost \in Nat
    BY AnswerCostType DEF Context
  <2>3. ctx' \in Context
    BY <2>1, <2>2 DEF Context
  <2> QED BY <1>4, <2>3, WorkspaceType DEF LLMAnswers, Phases, LoopPhases, Replies
<1>5. CASE LLMFails
  BY <1>5, WorkspaceType DEF LLMFails, Phases, LoopPhases, Replies
<1>6. CASE CostLimitReached
  <2>1. [ctx EXCEPT !.stop = "cost"] \in Context
    BY DEF Context, Stops
  <2> QED BY <1>6, <2>1, LoggedType DEF CostLimitReached, Phases, Kinds
<1>7. CASE SkipIteration
  BY <1>7, SnapshotType DEF SkipIteration, StateWrites, RunDir, Phases, LoopPhases
<1>8. CASE NoCandidates
  <2>1. RecordFailure(Logged(ctx, "no candidates")) \in Context
    BY LoggedType, RecordFailureType DEF Kinds
  <2> QED BY <1>8, <2>1, CloseIterationType DEF NoCandidates, Phases, LoopPhases
<1>9. CASE HasCandidates
  BY <1>9 DEF HasCandidates, Phases, LoopPhases
<1>10. CASE AcceptBest
  <2>1. PICK v \in Scores, tuning \in Tunings, sweep \in BOOLEAN :
          /\ ws' = Patched(tuning, sweep) /\ ctx' = Recorded(v)
          /\ ghost' = Promoted(tuning, sweep)
          /\ round' = [accepted |-> TRUE, value |-> v, gain |-> GainOf(v, ctx.best_value)]
    BY <1>10 DEF AcceptBest
  <2>2. v \in Nat
    BY DEF LoopAssumption
  <2>3. round' \in Round
    BY <2>1, <2>2 DEF Round, GainOf, Gains
  <2> QED BY <1>10, <2>1, <2>3, AcceptType DEF AcceptBest, Phases, LoopPhases
<1>11. CASE RejectAll
  BY <1>11, LoggedType DEF RejectAll, Phases, LoopPhases, Kinds
<1>12. CASE ProtectBeforeSweep
  BY <1>12, WorkspaceType DEF ProtectBeforeSweep, Phases, LoopPhases
<1>13. CASE Reprofile
  BY <1>13, WorkspaceType DEF Reprofile, Phases, LoopPhases
<1>14. CASE DriftIgnored
  BY <1>14, WorkspaceType DEF DriftIgnored, Phases, LoopPhases
<1>15. CASE BaselineRemeasured
  <2>1. ctx' \in Context
    BY <1>15 DEF BaselineRemeasured, Context, LoopAssumption
  <2>2. /\ ws.built \in Program
        /\ [code |-> 0, tuning |-> IF config.tuning_editable THEN InitialTuning
                                                             ELSE ws.tuning] \in Program
    BY DEF Workspace, Program, LoopAssumption
  <2>3. ghost' \in Ghost
    BY <1>15, <2>2 DEF BaselineRemeasured, Ghost
  <2> QED BY <1>15, <2>1, <2>3, WorkspaceType DEF BaselineRemeasured, Phases, LoopPhases
<1>16. CASE EndIteration
  <2>1. RecordImprovement(ctx, round.gain) \in Context /\ RecordFailure(ctx) \in Context
    BY RecordImprovementType, RecordFailureType DEF Round
  <2> DEFINE ended == IF round.accepted THEN RecordImprovement(ctx, round.gain)
                                        ELSE RecordFailure(ctx)
  <2>2. ended \in Context /\ CloseIteration(ended)
    BY <1>16, <2>1 DEF EndIteration
  <2> HIDE DEF ended
  <2> QED BY <1>16, <2>2, CloseIterationType, WorkspaceType DEF EndIteration, Phases, LoopPhases
<1> QED BY <1>1, <1>2, <1>3, <1>4, <1>5, <1>6, <1>7, <1>8, <1>9, <1>10, <1>11, <1>12,
           <1>13, <1>14, <1>15, <1>16 DEF Iterate

(* The sweep.                                                                  *)
LEMMA SweepType == ASSUME LoopAssumption, TypeOK, Sweep PROVE TypeOK'
<1> USE DEF TypeOK
<1>1. CASE NothingToSweep
  BY <1>1 DEF NothingToSweep, Phases, LoopPhases
<1>2. CASE StartSweep
  <2>1. PICK todo \in SUBSET Tunings :
          trial' = [NoTrial EXCEPT !.todo = todo, !.best = ctx.best_value,
                                   !.original = ws.tuning]
    BY <1>2 DEF StartSweep
  <2>2. trial' \in Trial
    BY <2>1, NoTrialType DEF Trial, Context, Workspace
  <2> QED BY <1>2, <2>2 DEF StartSweep, Phases, LoopPhases
<1>3. ASSUME NEW t \in trial.todo, TrialRejected(t) \/ TrialMeasured(t) \/ SweepAborts(t)
      PROVE  TypeOK'
  <2>1. t \in Tunings
    BY DEF Trial
  <2>2. TrialFile(t) \in Workspace
    BY <2>1, WorkspaceType DEF TrialFile
  <2>3. {TrialFile(t)} \cup Executed(Rebuilt(TrialFile(t))) \subseteq Workspace
    <3>1. Rebuilt(TrialFile(t)) \in Workspace
      BY <2>2, WorkspaceType
    <3> QED BY <2>2, <3>1, WorkspaceType
  <2>4. CASE TrialRejected(t)
    <3>1. trial.todo \ {t} \in SUBSET Tunings
      BY DEF Trial
    <3>2. trial' \in Trial
      BY <2>4, <3>1 DEF TrialRejected, Trial
    <3> QED BY <2>3, <2>4, <3>2 DEF TrialRejected
  <2>5. CASE TrialMeasured(t)
    <3>1. ws' \in Workspace
      BY <2>3, <2>5 DEF TrialMeasured
    <3>2. ws'.built \in Program
      BY <3>1 DEF Workspace
    <3>3. /\ trial.todo \ {t} \in SUBSET Tunings
          /\ {t} \in SUBSET Tunings
          /\ Scores \subseteq Nat
      BY <2>1 DEF Trial, LoopAssumption
    <3>4. PICK v \in Scores, met \in BOOLEAN :
            trial' = IF v > trial.best
                       THEN [trial EXCEPT !.todo = @ \ {t}, !.best = v, !.winner = {t},
                                          !.measured = ws'.built, !.vetted = met]
                       ELSE [trial EXCEPT !.todo = @ \ {t}]
      BY <2>5 DEF TrialMeasured
    <3>5. trial' \in Trial
      BY <3>2, <3>3, <3>4 DEF Trial
    <3> QED BY <2>5, <3>1, <3>5 DEF TrialMeasured
  <2>6. CASE SweepAborts(t)
    <3>1. PICK w \in Workspace : RestoreTuning(w)
      BY <2>3, <2>6 DEF SweepAborts
    <3>2. ws' \in Workspace /\ ghost' \in Ghost
      BY <3>1, WorkspaceType DEF RestoreTuning, Ghost, Trial
    <3> QED BY <2>6, <3>2, NoTrialType DEF SweepAborts, Phases, LoopPhases
  <2> QED BY <1>3, <2>4, <2>5, <2>6
<1>4. CASE SweepFindsBetter
  <2>1. [ctx EXCEPT !.best_value = trial.best] \in Context
    BY DEF Context, Trial
  <2>2. ctx' \in Context
    BY <1>4, <2>1, LoggedType DEF SweepFindsBetter, Kinds
  <2>3. ghost' \in Ghost
    BY <1>4 DEF SweepFindsBetter, Ghost, Trial
  <2>4. ws' \in Workspace
    BY <1>4, WorkspaceType DEF SweepFindsBetter, Tuned, Trial
  <2>5. trial' \in Trial
    BY <1>4, NoTrialType DEF SweepFindsBetter
  <2> QED BY <1>4, <2>2, <2>3, <2>4, <2>5 DEF SweepFindsBetter, Phases, LoopPhases
<1>5. CASE SweepKeepsOriginal
  <2>1. ws' \in Workspace /\ ghost' \in Ghost
    <3>1. PICK w \in {ws} \cup {Tuned(t) : t \in trial.winner} : RestoreTuning(w)
      BY <1>5 DEF SweepKeepsOriginal
    <3>2. w \in Workspace
      BY WorkspaceType DEF Tuned, Trial
    <3> QED BY <3>1, <3>2, WorkspaceType DEF RestoreTuning, Ghost, Trial
  <2>2. trial' \in Trial
    BY <1>5, NoTrialType DEF SweepKeepsOriginal
  <2> QED BY <1>5, <2>1, <2>2 DEF SweepKeepsOriginal, Phases, LoopPhases
<1> QED BY <1>1, <1>2, <1>3, <1>4, <1>5 DEF Sweep

(* Exceptions and Ctrl-C.                                                      *)
LEMMA FaultType == ASSUME LoopAssumption, TypeOK, Fault PROVE TypeOK'
<1> USE DEF TypeOK
<1>1. ASSUME NEW c \in Context, Abort(c)
      PROVE  /\ ctx' \in Context /\ pc' \in Phases
             /\ UNCHANGED <<config, reply, round, trial, run_dir>>
  BY <1>1 DEF Abort, Crashed, Context, Stops, Phases
<1>2. CASE LoopRaises
  <2>1. ws' \in {ws} \cup Executed(ws) \cup Diagnosed(ws)
    BY <1>2 DEF LoopRaises
  <2> QED BY <1>1, <1>2, <2>1, WorkspaceType DEF LoopRaises
<1>7. CASE AnswerLost
  <2>1. PICK cost \in 0 .. AnswerCost : Abort([ctx EXCEPT !.spend = @ + cost])
    BY <1>7 DEF AnswerLost
  <2>2. ctx.spend + cost \in Nat
    BY AnswerCostType DEF Context
  <2>3. [ctx EXCEPT !.spend = @ + cost] \in Context
    BY <2>2 DEF Context
  <2> QED BY <1>1, <1>7, <2>1, <2>3, WorkspaceType DEF AnswerLost
<1>3. CASE ApplyInterrupted
  <2>1. ws' \in Workspace
    BY <1>3 DEF ApplyInterrupted, Workspace, Unknown
  <2>2. ghost' \in Ghost
    BY <1>3 DEF ApplyInterrupted, Ghost
  <2> QED BY <1>1, <1>3, <2>1, <2>2 DEF ApplyInterrupted
<1>4. CASE AcceptInterrupted
  <2>1. PICK v \in Scores, tuning \in Tunings, sweep \in BOOLEAN :
          /\ ws' = Patched(tuning, sweep)
          /\ \E c \in {ctx, Scored(v), Logged(Scored(v), "accepted"), Recorded(v)} : Abort(c)
          /\ ghost' \in {Promoted(tuning, sweep),
                         [Promoted(tuning, sweep) EXCEPT !.derailed = TRUE]}
    BY <1>4 DEF AcceptInterrupted
  <2>2. ghost' \in Ghost
    <3>1. Promoted(tuning, sweep) \in Ghost
      BY AcceptType
    <3>2. [Promoted(tuning, sweep) EXCEPT !.derailed = TRUE] \in Ghost
      BY <3>1 DEF Ghost
    <3> QED BY <2>1, <3>1, <3>2
  <2> QED BY <1>1, <2>1, <2>2, AcceptType
<1>5. CASE SweepInterrupted
  <2>1. trial.todo \subseteq Tunings /\ trial.winner \subseteq Tunings
    BY DEF Trial
  <2>2. ws' \in Workspace
    BY <1>5, <2>1, WorkspaceType DEF SweepInterrupted, TrialFile, Tuned
  <2> QED BY <1>1, <1>5, <2>2 DEF SweepInterrupted, Ghost
<1>6. CASE ReprofileFails
  <2>1. Rebuilt(ws) \in Workspace
    BY WorkspaceType
  <2> QED BY <1>1, <1>6, <2>1, WorkspaceType DEF ReprofileFails
<1> QED BY <1>2, <1>3, <1>4, <1>5, <1>6, <1>7 DEF Fault

(* The baseline and finalize.                                                  *)
LEMMA ConcludeType == ASSUME LoopAssumption, TypeOK, Conclude PROVE TypeOK'
<1> USE DEF TypeOK
<1>1. Summarised(ctx) \subseteq Context
  <2>1. ASSUME NEW cost \in 0 .. MaxCallCost
        PROVE  [ctx EXCEPT !.spend = @ + cost] \in Context
    <3>1. ctx.spend + cost \in Nat
      BY DEF Context, LoopAssumption
    <3> QED BY <3>1 DEF Context
  <2> QED BY <2>1 DEF Summarised
<1>2. CASE MeasureBaseline
  <2>1. ASSUME NEW v \in Scores
        PROVE  [ctx EXCEPT !.best_value = v, !.baseline_val = v] \in Context
    BY DEF Context, LoopAssumption
  <2>2. ctx' \in Context
    BY <1>2, <2>1, LoggedType DEF MeasureBaseline, Kinds
  <2>3. ws' \in Workspace
    BY <1>2, WorkspaceType DEF MeasureBaseline, Rebuilt
  <2> QED BY <1>2, <2>2, <2>3 DEF MeasureBaseline, Phases, LoopPhases
<1>3. CASE BaselineFails
  BY <1>3 DEF BaselineFails, Phases
<1>4. CASE Finalize
  BY <1>1, <1>4 DEF Finalize, RunDir, Phases
<1>5. CASE FinalizeRaises
  BY <1>1, <1>5 DEF FinalizeRaises, Phases
<1>6. CASE FinalizeAfterCrash
  BY <1>1, <1>6 DEF FinalizeAfterCrash, RunDir, Phases
<1> QED BY <1>2, <1>3, <1>4, <1>5, <1>6 DEF Conclude

(* Every field of the run's state always holds a value of its type.            *)
THEOREM TypeCorrect == Spec => []TypeOK
<1> USE LoopAssumption
<1>1. Init => TypeOK
  BY InitType
<1>2. TypeOK /\ [Next]_vars => TypeOK'
  <2>1. CASE Ended
    BY <2>1 DEF Ended, vars, TypeOK
  <2>2. CASE UNCHANGED vars
    BY <2>2 DEF vars, TypeOK
  <2> QED BY <2>1, <2>2, IterateType, SweepType, FaultType, ConcludeType DEF Next
<1> QED BY <1>1, <1>2, PTL DEF Spec

-----------------------------------------------------------------------------
(* The quoted score describes the workspace.  Neither invariant below is       *)
(* inductive alone: a sweep that ends well needs to know that its winner was   *)
(* measured on the code at hand, one that ends badly that the section it       *)
(* restores was there before, and a re-anchored score that the binary was      *)
(* rebuilt after the sweep.                                                    *)

SweepInv ==
    pc = "sweeping" =>
        /\ \A t \in trial.winner : trial.measured = [code |-> ws.code, tuning |-> t]
        /\ ~ghost.derailed => ghost.sweep = TRUE

IncumbentInv ==
    /\ TypeOK
    /\ BestDescribesWorkspace
    /\ BinaryIsCurrent
    /\ SweepSectionSurvives
    /\ SweepInv

(* Running programs and verifying the protected files leave the program, its   *)
(* knobs, the sweep section and the binary alone; a rebuild only changes the   *)
(* binary.                                                                     *)
LEMMA WorkspaceFields ==
    ASSUME NEW w \in Workspace
    PROVE  /\ \A x \in Executed(w) \cup Verified(w) \cup Diagnosed(w) :
                 /\ ProgramIn(x) = ProgramIn(w) /\ x.code = w.code /\ x.tuning = w.tuning
                 /\ x.sweep = w.sweep /\ x.built = w.built
           /\ ProgramIn(Rebuilt(w)) = ProgramIn(w)
           /\ Rebuilt(w).code = w.code /\ Rebuilt(w).tuning = w.tuning
           /\ Rebuilt(w).sweep = w.sweep /\ Rebuilt(w).built = ProgramIn(w)
BY DEF Executed, Verified, Diagnosed, Rebuilt, ProgramIn, Workspace

(* The same facts about what is executed right after a rebuild.                *)
LEMMA RebuiltFields ==
    ASSUME NEW w \in Workspace, NEW x \in Executed(Rebuilt(w))
    PROVE  /\ ProgramIn(x) = ProgramIn(w) /\ x.code = w.code /\ x.tuning = w.tuning
           /\ x.sweep = w.sweep /\ x.built = ProgramIn(w)
<1>1. Rebuilt(w) \in Workspace
  BY WorkspaceType
<1> QED BY <1>1, WorkspaceFields

(* A step that keeps the program and the ghost, and neither enters nor leaves  *)
(* a sweep, keeps the invariant as long as the binary is still accounted for.  *)
LEMMA QuietStep ==
    ASSUME LoopAssumption, IncumbentInv, TypeOK',
           pc # "sweeping", pc' # "sweeping", UNCHANGED ghost,
           ProgramIn(ws') = ProgramIn(ws), ws'.sweep = ws.sweep,
           BinaryIsCurrent'
    PROVE  IncumbentInv'
BY DEF IncumbentInv, BestDescribesWorkspace, SweepSectionSurvives, SweepInv,
       IncumbentProgram, ProgramIn

(* An accepted patch, recorded before or after a crash, is the new incumbent.  *)
LEMMA AcceptedProgram ==
    ASSUME LoopAssumption, IncumbentInv, TypeOK', pc = "judge", pc' \in {"protect", "abort"},
           NEW tuning \in Tunings, NEW sweep \in BOOLEAN,
           ws' = Patched(tuning, sweep), ghost' = Promoted(tuning, sweep)
    PROVE  IncumbentInv'
<1>1. ws'.code = ctx.iteration /\ ws'.tuning = tuning /\ ws'.sweep = sweep
  BY DEF IncumbentInv, TypeOK, Workspace, Patched
<1>2. ghost'.best_of = [code |-> ctx.iteration, tuning |-> tuning] /\ ghost'.sweep = sweep
  BY DEF IncumbentInv, TypeOK, Ghost, Promoted
<1> QED BY <1>1, <1>2 DEF IncumbentInv, BestDescribesWorkspace, BinaryIsCurrent,
           SweepSectionSurvives, SweepInv, IncumbentProgram, ProgramIn

(* The run starts with the program, and the sweep section, it was given.       *)
LEMMA IncumbentInit == ASSUME LoopAssumption, Init PROVE IncumbentInv
<1>1. TypeOK
  BY InitType
<1> QED BY <1>1 DEF Init, IncumbentInv, BestDescribesWorkspace, BinaryIsCurrent,
                    SweepSectionSurvives, SweepInv, IncumbentProgram, ProgramIn,
                    BaselineProgram

(* The loop's own steps keep the invariant.                                    *)
LEMMA IncumbentIterate ==
    ASSUME LoopAssumption, IncumbentInv, Iterate PROVE IncumbentInv'
<1>1. TypeOK' /\ TypeOK
  BY IterateType DEF IncumbentInv
<1>2. ASSUME UNCHANGED <<ws, ghost>>, pc # "sweeping", pc' # "sweeping",
             \/ pc \in {"top", "generate", "cost", "judge", "drift", "verify", "finalize"}
             \/ pc' \in {"protect", "autotune", "reprofile", "abort"}
      PROVE  IncumbentInv'
  <2>1. BinaryIsCurrent'
    BY <1>2 DEF IncumbentInv, BinaryIsCurrent, ProgramIn
  <2> QED BY <1>1, <1>2, <2>1, QuietStep DEF ProgramIn
<1>3. CASE IterationsExhausted \/ StartIteration \/ WallClockExceeded
           \/ CostLimitReached \/ SkipIteration \/ HasCandidates \/ RejectAll
  BY <1>2, <1>3 DEF IterationsExhausted, StartIteration, WallClockExceeded,
                    CostLimitReached, SkipIteration, HasCandidates, RejectAll
<1>11. CASE LLMAnswers \/ LLMFails
  <2>1. ws' \in Diagnosed(ws) /\ pc = "generate" /\ pc' = "cost" /\ UNCHANGED ghost
    BY <1>11 DEF LLMAnswers, LLMFails
  <2>2. ProgramIn(ws') = ProgramIn(ws) /\ ws'.sweep = ws.sweep /\ ws'.built = ws.built
    BY <1>1, <2>1, WorkspaceFields DEF TypeOK
  <2>3. BinaryIsCurrent'
    BY <2>1, <2>2 DEF IncumbentInv, BinaryIsCurrent, ProgramIn
  <2> QED BY <1>1, <2>1, <2>2, <2>3, QuietStep
<1>4. CASE NoCandidates
  <2>1. pc = "cost" /\ UNCHANGED <<ws, ghost>> /\ pc' \in {"top", "finalize", "abort"}
    BY <1>4 DEF NoCandidates, CloseIteration
  <2> QED BY <1>2, <2>1
<1>5. CASE AcceptBest
  <2>1. PICK tuning \in Tunings, sweep \in BOOLEAN :
          ws' = Patched(tuning, sweep) /\ ghost' = Promoted(tuning, sweep)
    BY <1>5 DEF AcceptBest
  <2>2. pc = "judge" /\ pc' = "protect"
    BY <1>5 DEF AcceptBest
  <2> QED BY <1>1, <2>1, <2>2, AcceptedProgram
<1>6. CASE ProtectBeforeSweep
  <2>1. ws' \in Verified(ws) /\ pc = "protect" /\ pc' = "autotune" /\ UNCHANGED ghost
    BY <1>6 DEF ProtectBeforeSweep
  <2>2. ProgramIn(ws') = ProgramIn(ws) /\ ws'.sweep = ws.sweep
    BY <1>1, <2>1, WorkspaceFields DEF TypeOK
  <2>3. BinaryIsCurrent'
    BY <2>1 DEF BinaryIsCurrent
  <2> QED BY <1>1, <2>1, <2>2, <2>3, QuietStep
<1>7. CASE Reprofile
  <2>1. ws' \in Executed(Rebuilt(ws)) /\ pc = "reprofile" /\ pc' \in {"drift", "verify"}
        /\ UNCHANGED ghost
    BY <1>7 DEF Reprofile
  <2>2. ProgramIn(ws') = ProgramIn(ws) /\ ws'.sweep = ws.sweep /\ ws'.built = ProgramIn(ws)
    BY <1>1, <2>1, RebuiltFields DEF TypeOK
  <2>3. BinaryIsCurrent'
    BY <2>2 DEF BinaryIsCurrent, ProgramIn
  <2> QED BY <1>1, <2>1, <2>2, <2>3, QuietStep
<1>8. CASE DriftIgnored
  <2>1. ws' \in Executed(ws) /\ pc = "drift" /\ pc' = "verify" /\ UNCHANGED ghost
    BY <1>8 DEF DriftIgnored
  <2>2. ProgramIn(ws') = ProgramIn(ws) /\ ws'.sweep = ws.sweep /\ ws'.built = ws.built
    BY <1>1, <2>1, WorkspaceFields DEF TypeOK
  <2>3. BinaryIsCurrent'
    BY <2>1, <2>2 DEF IncumbentInv, BinaryIsCurrent, ProgramIn
  <2> QED BY <1>1, <2>1, <2>2, <2>3, QuietStep
<1>9. CASE BaselineRemeasured
  <2>1. ws' \in Executed(ws) /\ pc = "drift" /\ pc' = "verify"
    BY <1>9 DEF BaselineRemeasured
  <2>2. ProgramIn(ws') = ProgramIn(ws) /\ ws'.sweep = ws.sweep /\ ws'.built = ws.built
    BY <1>1, <2>1, WorkspaceFields DEF TypeOK
  <2>3. ws.built = ProgramIn(ws)
    BY <2>1 DEF IncumbentInv, BinaryIsCurrent
  <2>4. ghost'.best_of = ws.built /\ ghost'.sweep = ghost.sweep
        /\ ghost'.derailed = ghost.derailed
    BY <1>1, <1>9 DEF BaselineRemeasured, TypeOK, Ghost
  <2> QED BY <1>1, <2>1, <2>2, <2>3, <2>4 DEF IncumbentInv, BestDescribesWorkspace,
             BinaryIsCurrent, SweepSectionSurvives, SweepInv, IncumbentProgram, ProgramIn
<1>10. CASE EndIteration
  <2>1. ws' \in Verified(ws) /\ pc = "verify" /\ pc' \in {"top", "finalize", "abort"}
        /\ UNCHANGED ghost
    BY <1>10 DEF EndIteration, CloseIteration
  <2>2. ProgramIn(ws') = ProgramIn(ws) /\ ws'.sweep = ws.sweep /\ ws'.built = ws.built
    BY <1>1, <2>1, WorkspaceFields DEF TypeOK
  <2>3. BinaryIsCurrent'
    BY <2>1, <2>2 DEF IncumbentInv, BinaryIsCurrent, ProgramIn
  <2> QED BY <1>1, <2>1, <2>2, <2>3, QuietStep
<1> QED BY <1>3, <1>4, <1>5, <1>6, <1>7, <1>8, <1>9, <1>10, <1>11 DEF Iterate

(* However a sweep ends, tuning.yaml is the winner's or the pre-sweep one.     *)
LEMMA IncumbentSweep ==
    ASSUME LoopAssumption, IncumbentInv, Sweep PROVE IncumbentInv'
<1>1. TypeOK' /\ TypeOK
  BY SweepType DEF IncumbentInv
<1>2. CASE NothingToSweep
  <2>1. BinaryIsCurrent'
    BY <1>2 DEF NothingToSweep, BinaryIsCurrent
  <2> QED BY <1>1, <1>2, <2>1, QuietStep DEF NothingToSweep
<1>3. CASE StartSweep
  <2>1. /\ pc = "autotune" /\ ws.sweep /\ pc' = "sweeping" /\ UNCHANGED <<ws, ghost>>
        /\ trial'.winner = {} /\ trial'.original = ws.tuning
    BY <1>3 DEF StartSweep, NoTrial
  <2>2. ~ghost.derailed => ghost.sweep = TRUE
    BY <1>1, <2>1 DEF IncumbentInv, SweepSectionSurvives, TypeOK, Ghost, Workspace
  <2> QED BY <1>1, <2>1, <2>2 DEF IncumbentInv, BestDescribesWorkspace,
             BinaryIsCurrent, SweepSectionSurvives, SweepInv, IncumbentProgram, ProgramIn
<1>4. ASSUME NEW t \in trial.todo, TrialRejected(t) \/ TrialMeasured(t)
      PROVE  IncumbentInv'
  <2>1. pc = "sweeping" /\ pc' = "sweeping" /\ UNCHANGED <<ghost, ctx>>
    BY <1>4 DEF TrialRejected, TrialMeasured
  <2>2. TrialFile(t) \in Workspace
    BY <1>1, WorkspaceType DEF TrialFile, TypeOK, Trial
  <2>3. ws'.code = ws.code
    BY <1>1, <1>4, <2>2, RebuiltFields DEF TrialRejected, TrialMeasured, TrialFile, TypeOK,
                                           Workspace
  <2>4. trial'.original = trial.original
    BY <1>1, <1>4 DEF TrialRejected, TrialMeasured, TypeOK, Trial
  <2>5. \A x \in trial'.winner : trial'.measured = [code |-> ws'.code, tuning |-> x]
    <3>1. CASE TrialRejected(t)
      BY <1>1, <2>1, <2>3, <3>1 DEF TrialRejected, TypeOK, Trial, IncumbentInv, SweepInv
    <3>2. CASE TrialMeasured(t)
      <4>1. ws'.built = [code |-> ws'.code, tuning |-> t]
        <5>1. ws' \in Executed(Rebuilt(TrialFile(t)))
          BY <3>2 DEF TrialMeasured
        <5>2. ws'.built = ProgramIn(TrialFile(t)) /\ ws'.code = TrialFile(t).code
          BY <2>2, <5>1, RebuiltFields
        <5>3. TrialFile(t).tuning = t
          BY <1>1 DEF TrialFile, TypeOK, Workspace
        <5> QED BY <5>2, <5>3 DEF ProgramIn
      <4>2. \/ trial'.winner = {t} /\ trial'.measured = ws'.built
            \/ trial'.winner = trial.winner /\ trial'.measured = trial.measured
        BY <1>1, <3>2 DEF TrialMeasured, TypeOK, Trial
      <4> QED BY <2>1, <2>3, <4>1, <4>2 DEF IncumbentInv, SweepInv
    <3> QED BY <1>4, <3>1, <3>2
  <2> QED BY <1>1, <2>1, <2>3, <2>4, <2>5 DEF IncumbentInv, BestDescribesWorkspace,
             BinaryIsCurrent, SweepSectionSurvives, SweepInv, IncumbentProgram
<1>5. ASSUME NEW w \in Workspace, w.code = ws.code, RestoreTuning(w),
             pc = "sweeping", pc' = "reprofile"
      PROVE  IncumbentInv'
  <2>1. CASE /\ ws' = [w EXCEPT !.tuning = trial.original, !.sweep = TRUE]
             /\ UNCHANGED ghost
    <3>1. ws'.code = ws.code /\ ws'.tuning = trial.original /\ ws'.sweep = TRUE
      BY <1>5, <2>1 DEF Workspace
    <3> QED BY <1>1, <1>5, <2>1, <3>1 DEF IncumbentInv, BestDescribesWorkspace,
               BinaryIsCurrent, SweepSectionSurvives, SweepInv, IncumbentProgram, ProgramIn
  <2>2. CASE ghost' = [ghost EXCEPT !.derailed = TRUE]
    <3>1. ghost'.derailed
      BY <1>1, <2>2 DEF TypeOK, Ghost
    <3> QED BY <1>1, <1>5, <3>1 DEF IncumbentInv, BestDescribesWorkspace,
               BinaryIsCurrent, SweepSectionSurvives, SweepInv
  <2> QED BY <1>5, <2>1, <2>2 DEF RestoreTuning
<1>6. ASSUME NEW t \in trial.todo, SweepAborts(t)
      PROVE  IncumbentInv'
  <2>1. TrialFile(t) \in Workspace /\ TrialFile(t).code = ws.code
    BY <1>1, WorkspaceType DEF TrialFile, TypeOK, Trial, Workspace
  <2>2. PICK w \in {ws, TrialFile(t)} \cup Executed(Rebuilt(TrialFile(t))) : RestoreTuning(w)
    BY <1>6 DEF SweepAborts
  <2>3. Rebuilt(TrialFile(t)) \in Workspace
    BY <2>1, WorkspaceType
  <2>4. w \in Workspace /\ w.code = ws.code
    BY <1>1, <2>1, <2>2, <2>3, WorkspaceType, RebuiltFields DEF TypeOK
  <2> QED BY <1>5, <1>6, <2>2, <2>4 DEF SweepAborts
<1>7. CASE SweepFindsBetter
  <2>1. PICK t \in trial.winner : ws' = [ws EXCEPT !.tuning = t, !.sweep = TRUE]
    BY <1>7 DEF SweepFindsBetter, Tuned
  <2>2. ws'.code = ws.code /\ ws'.tuning = t /\ ws'.sweep = TRUE
    BY <1>1, <2>1 DEF TypeOK, Workspace
  <2>3. /\ ghost'.best_of = trial.measured /\ ghost'.sweep = ghost.sweep
        /\ ghost'.derailed = ghost.derailed
    BY <1>1, <1>7 DEF SweepFindsBetter, TypeOK, Ghost
  <2>4. pc = "sweeping" /\ pc' = "reprofile"
    BY <1>7 DEF SweepFindsBetter
  <2>5. trial.measured = [code |-> ws.code, tuning |-> t]
    BY <2>4 DEF IncumbentInv, SweepInv
  <2> QED BY <1>1, <2>2, <2>3, <2>4, <2>5 DEF IncumbentInv, BestDescribesWorkspace,
             BinaryIsCurrent, SweepSectionSurvives, SweepInv, IncumbentProgram, ProgramIn
<1>8. CASE SweepKeepsOriginal
  <2>1. PICK w \in {ws} \cup {Tuned(t) : t \in trial.winner} : RestoreTuning(w)
    BY <1>8 DEF SweepKeepsOriginal
  <2>2. \A t \in trial.winner : Tuned(t) \in Workspace /\ Tuned(t).code = ws.code
    BY <1>1 DEF Tuned, TypeOK, Trial, Workspace
  <2>3. w \in Workspace /\ w.code = ws.code
    BY <1>1, <2>1, <2>2 DEF TypeOK
  <2> QED BY <1>5, <1>8, <2>1, <2>3 DEF SweepKeepsOriginal
<1> QED BY <1>2, <1>3, <1>4, <1>6, <1>7, <1>8 DEF Sweep

(* A crash that catches the run between two records says so in the ghost; any  *)
(* other leaves the incumbent as it is.                                        *)
LEMMA IncumbentFault ==
    ASSUME LoopAssumption, IncumbentInv, Fault PROVE IncumbentInv'
<1>1. TypeOK' /\ TypeOK
  BY FaultType DEF IncumbentInv
<1>2. ASSUME pc' = "abort", ghost'.derailed
      PROVE  IncumbentInv'
  BY <1>1, <1>2 DEF IncumbentInv, BestDescribesWorkspace, BinaryIsCurrent,
                    SweepSectionSurvives, SweepInv
<1>3. CASE LoopRaises \/ AnswerLost
  <2>1. pc # "sweeping" /\ pc' = "abort" /\ UNCHANGED ghost
        /\ ws' \in {ws} \cup Executed(ws) \cup Diagnosed(ws)
    BY <1>3 DEF LoopRaises, AnswerLost, Abort
  <2>2. ProgramIn(ws') = ProgramIn(ws) /\ ws'.sweep = ws.sweep
    BY <1>1, <2>1, WorkspaceFields DEF TypeOK
  <2>3. BinaryIsCurrent'
    BY <2>1 DEF BinaryIsCurrent
  <2> QED BY <1>1, <2>1, <2>2, <2>3, QuietStep
<1>4. CASE ApplyInterrupted \/ SweepInterrupted
  <2>1. ghost'.derailed /\ pc' = "abort"
    BY <1>1, <1>4 DEF ApplyInterrupted, SweepInterrupted, Abort, TypeOK, Ghost
  <2> QED BY <1>2, <2>1
<1>6. CASE AcceptInterrupted
  <2>1. PICK tuning \in Tunings, sweep \in BOOLEAN :
          /\ ws' = Patched(tuning, sweep)
          /\ \/ ghost' = Promoted(tuning, sweep)
             \/ ghost' = [Promoted(tuning, sweep) EXCEPT !.derailed = TRUE]
    BY <1>6 DEF AcceptInterrupted
  <2>2. pc = "judge" /\ pc' = "abort"
    BY <1>6 DEF AcceptInterrupted, Abort
  <2>3. CASE ghost' = [Promoted(tuning, sweep) EXCEPT !.derailed = TRUE]
    <3>1. ghost'.derailed
      BY <1>1, <2>3 DEF TypeOK, Ghost, Promoted
    <3> QED BY <1>2, <2>2, <3>1
  <2> QED BY <1>1, <2>1, <2>2, <2>3, AcceptedProgram
<1>5. CASE ReprofileFails
  <2>1. pc = "reprofile" /\ pc' = "abort" /\ UNCHANGED ghost /\ ws' \in Executed(Rebuilt(ws))
    BY <1>5 DEF ReprofileFails, Abort
  <2>2. ProgramIn(ws') = ProgramIn(ws) /\ ws'.sweep = ws.sweep
    BY <1>1, <2>1, RebuiltFields DEF TypeOK
  <2>3. BinaryIsCurrent'
    BY <2>1 DEF BinaryIsCurrent
  <2> QED BY <1>1, <2>1, <2>2, <2>3, QuietStep
<1> QED BY <1>3, <1>4, <1>5, <1>6 DEF Fault

(* The baseline is built as given, and finalize touches no workspace.          *)
LEMMA IncumbentConclude ==
    ASSUME LoopAssumption, IncumbentInv, Conclude PROVE IncumbentInv'
<1>1. TypeOK' /\ TypeOK
  BY ConcludeType DEF IncumbentInv
<1>2. CASE MeasureBaseline
  <2>1. pc = "baseline" /\ pc' = "top" /\ UNCHANGED ghost /\ ws' = Rebuilt(ws)
    BY <1>2 DEF MeasureBaseline, Rebuilt
  <2>2. ProgramIn(ws') = ProgramIn(ws) /\ ws'.sweep = ws.sweep /\ ws'.built = ProgramIn(ws)
    BY <1>1, <2>1, WorkspaceFields DEF TypeOK
  <2>3. BinaryIsCurrent'
    BY <2>2 DEF BinaryIsCurrent, ProgramIn
  <2> QED BY <1>1, <2>1, <2>2, <2>3, QuietStep
<1>3. CASE BaselineFails \/ Finalize \/ FinalizeRaises \/ FinalizeAfterCrash
  <2>1. /\ pc \in {"baseline", "finalize", "abort"} /\ pc' \in {"returned", "raised"}
        /\ UNCHANGED <<ws, ghost>>
    BY <1>3 DEF BaselineFails, Finalize, FinalizeRaises, FinalizeAfterCrash
  <2>2. BinaryIsCurrent'
    BY <2>1 DEF BinaryIsCurrent
  <2> QED BY <1>1, <2>1, <2>2, QuietStep
<1> QED BY <1>2, <1>3 DEF Conclude

(* The invariant holds of every reachable state.                               *)
THEOREM IncumbentInvariant == Spec => []IncumbentInv
<1> USE LoopAssumption
<1>1. Init => IncumbentInv
  BY IncumbentInit
<1>2. IncumbentInv /\ [Next]_vars => IncumbentInv'
  <2>1. CASE IncumbentInv /\ (Ended \/ UNCHANGED vars)
    BY <2>1 DEF Ended, vars, IncumbentInv, TypeOK, BestDescribesWorkspace, BinaryIsCurrent,
                SweepSectionSurvives, SweepInv, IncumbentProgram, ProgramIn
  <2> QED BY <2>1, IncumbentIterate, IncumbentSweep, IncumbentFault, IncumbentConclude
          DEF Next
<1> QED BY <1>1, <1>2, PTL DEF Spec

(* In every run, whatever its budget, scores and settings, best_value was      *)
(* measured on the program in the live workspace, until a half-applied patch,  *)
(* an interrupted sweep or a failed restore loses track of it.                 *)
THEOREM ScoreDescribesWorkspace == Spec => []BestDescribesWorkspace
<1>1. IncumbentInv => BestDescribesWorkspace
  BY DEF IncumbentInv
<1> QED BY <1>1, IncumbentInvariant, PTL

(* No measurement of the live workspace, and no copy made of it for the next   *)
(* candidates, finds a binary left behind by a sweep trial.                    *)
THEOREM NoStaleBinary == Spec => []BinaryIsCurrent
<1>1. IncumbentInv => BinaryIsCurrent
  BY DEF IncumbentInv
<1> QED BY <1>1, IncumbentInvariant, PTL

(* However its sweeps end, a task keeps the sweep section it was left with.    *)
THEOREM TaskKeepsSweepSection == Spec => []SweepSectionSurvives
<1>1. IncumbentInv => SweepSectionSurvives
  BY DEF IncumbentInv
<1> QED BY <1>1, IncumbentInvariant, PTL

=============================================================================
