------------------------- MODULE AgentLoop_refinement -------------------------
(* AgentLoop implements Incumbent, and what follows from the same invariant:   *)
(* how the score on record moves.                                              *)
EXTENDS AgentLoop_proofs

-----------------------------------------------------------------------------
(* A win of the sweep is a win over the score on record, and every score on    *)
(* record was measured.  Without the first, adopting the winner would not be   *)
(* an improvement; without the second, a failed run could quote anything.      *)
ScoreInv ==
    /\ ctx.best_value \in Scores \cup {0}
    /\ pc = "baseline" => ctx.best_value = 0
    /\ pc = "sweeping" =>
          /\ trial.best >= ctx.best_value
          /\ trial.winner # {} => trial.best \in Scores /\ trial.best > ctx.best_value

PromiseInv == IncumbentInv /\ ScoreInv

(* Beating the incumbent by the tolerance is beating it, for any tolerance.    *)
LEMMA BeatsIsMore ==
    ASSUME LoopAssumption, NEW v \in Nat, NEW b \in Nat, Beats(v, b)
    PROVE  v > b
<1>1. v * 100 > b * (100 + Tolerance)
  BY DEF Beats
<1>2. Tolerance \in Nat
  BY DEF LoopAssumption
<1>3. b * (100 + Tolerance) = b * 100 + b * Tolerance
  BY <1>2
<1>4. b * Tolerance >= 0
  BY <1>2
<1>5. b * Tolerance \in Int
  BY <1>2
<1> DEFINE x == b * Tolerance
<1>6. x \in Int /\ x >= 0 /\ v * 100 > b * 100 + x
  BY <1>1, <1>3, <1>4, <1>5
<1> HIDE DEF x
<1> QED BY <1>6

(* Recording an entry leaves the score alone.                                  *)
LEMMA RecordsKeepScore ==
    ASSUME NEW c \in Context, NEW kind \in Kinds, NEW gain \in Gains
    PROVE  /\ Logged(c, kind).best_value = c.best_value
           /\ RecordFailure(c).best_value = c.best_value
           /\ RecordImprovement(c, gain).best_value = c.best_value
BY DEF Context, Logged, RecordFailure, RecordImprovement

(* An iteration is closed with the score it has.                               *)
LEMMA CloseKeepsScore ==
    ASSUME NEW c \in Context, CloseIteration(c)
    PROVE  ctx'.best_value = c.best_value
<1>1. [c EXCEPT !.stop = "converged"] \in Context
  BY DEF Context, Stops
<1>2. [c EXCEPT !.stop = "converged"].best_value = c.best_value
  BY DEF Context
<1>3. Crashed(c).best_value = c.best_value
  BY DEF Crashed, Context
<1>4. Logged([c EXCEPT !.stop = "converged"], "early stop").best_value = c.best_value
  BY <1>1, <1>2, RecordsKeepScore DEF Kinds, Gains
<1> QED BY <1>2, <1>3, <1>4 DEF CloseIteration

(* What an accept records as the score is the candidate's value.               *)
LEMMA AcceptScores ==
    ASSUME LoopAssumption, TypeOK,
           NEW v \in Scores, NEW tuning \in Tunings, NEW sweep \in BOOLEAN
    PROVE  /\ Recorded(v).best_value = v /\ Scored(v).best_value = v
           /\ Logged(Scored(v), "accepted").best_value = v
           /\ Promoted(tuning, sweep).best_of = [code |-> ctx.iteration, tuning |-> tuning]
           /\ Promoted(tuning, sweep).derailed = ghost.derailed
           /\ ProgramIn(Patched(tuning, sweep)) = [code |-> ctx.iteration, tuning |-> tuning]
<1>1. Scored(v) \in Context /\ Logged(Scored(v), "accepted") \in Context
  BY AcceptType
<1>2. Scored(v).best_value = v
  BY DEF Scored, TypeOK, Context
<1>3. Logged(Scored(v), "accepted").best_value = v
  BY <1>1, <1>2, RecordsKeepScore DEF Kinds, Gains
<1>4. Recorded(v).best_value = v
  BY <1>1, <1>3 DEF Recorded, Context
<1>5. /\ Promoted(tuning, sweep).best_of = [code |-> ctx.iteration, tuning |-> tuning]
      /\ Promoted(tuning, sweep).derailed = ghost.derailed
  BY DEF TypeOK, Ghost, Promoted
<1>6. ProgramIn(Patched(tuning, sweep)) = [code |-> ctx.iteration, tuning |-> tuning]
  BY DEF TypeOK, Workspace, Patched, ProgramIn
<1> QED BY <1>2, <1>3, <1>4, <1>5, <1>6

-----------------------------------------------------------------------------
(* How a step may move the score, the incumbent and its evidence.  Each kind   *)
(* is one action of Incumbent, or none.                                        *)

Open == LoopPhases \cup {"finalize", "abort"}

Closed == {"returned", "raised"}

Keeps ==
    /\ UNCHANGED ghost
    /\ IncumbentProgram' = IncumbentProgram
    /\ ctx'.best_value = ctx.best_value
    /\ \/ pc \in Open /\ pc' \in Open
       \/ pc \in Open \cup {"baseline"} /\ pc' \in Closed

Derails ==
    /\ ghost'.derailed
    /\ ctx'.best_value \in Scores \cup {0}
    /\ ctx'.best_value >= ctx.best_value \/ config.paired

Improves ==
    /\ pc \in Open /\ pc' \in Open
    /\ ghost'.derailed = ghost.derailed
    /\ ghost'.best_of = IncumbentProgram'
    /\ ctx'.best_value \in Scores
    /\ ctx'.best_value > ctx.best_value \/ config.paired

Remeasures ==
    /\ pc = "drift" /\ pc' \in Open
    /\ ghost'.derailed = ghost.derailed
    /\ ~ghost.derailed => ghost'.best_of = ghost.best_of
    /\ IncumbentProgram' = IncumbentProgram
    /\ ctx'.best_value \in Scores

Opens ==
    /\ pc = "baseline" /\ pc' \in Open
    /\ UNCHANGED ghost
    /\ IncumbentProgram' = IncumbentProgram
    /\ ctx'.best_value \in Scores

StepKind == Keeps \/ Derails \/ Improves \/ Remeasures \/ Opens

(* A step between phases outside the sweep that keeps program, ghost and score.*)
LEMMA KeepsOutsideSweep ==
    ASSUME UNCHANGED ghost, ctx'.best_value = ctx.best_value,
           ProgramIn(ws') = ProgramIn(ws), pc # "sweeping", pc' # "sweeping",
           \/ pc \in Open /\ pc' \in Open
           \/ pc \in Open \cup {"baseline"} /\ pc' \in Closed
    PROVE  Keeps
BY DEF Keeps, IncumbentProgram, ProgramIn

(* The loop's steps: accepts improve, the drift check re-measures, the rest    *)
(* keep everything.                                                            *)
LEMMA IterateKinds ==
    ASSUME LoopAssumption, PromiseInv, TypeOK', Iterate
    PROVE  StepKind /\ pc' \notin {"sweeping", "baseline"}
<1>1. TypeOK /\ pc # "sweeping"
  BY DEF PromiseInv, IncumbentInv, Iterate, IterationsExhausted, StartIteration,
         WallClockExceeded, LLMAnswers, LLMFails, CostLimitReached, SkipIteration,
         NoCandidates, HasCandidates, AcceptBest, RejectAll, ProtectBeforeSweep,
         Reprofile, DriftIgnored, BaselineRemeasured, EndIteration
<1> USE DEF StepKind
<1>2. CASE IterationsExhausted \/ SkipIteration \/ HasCandidates
  <2>1. /\ UNCHANGED <<ws, ctx, ghost>> /\ pc \in Open /\ pc' \in Open
        /\ pc' \notin {"sweeping", "baseline"}
    BY <1>2 DEF IterationsExhausted, SkipIteration, HasCandidates, Open, LoopPhases
  <2> QED BY <1>1, <2>1, KeepsOutsideSweep
<1>3. CASE StartIteration \/ WallClockExceeded \/ CostLimitReached \/ RejectAll
  <2>1. /\ UNCHANGED <<ws, ghost>> /\ pc \in Open /\ pc' \in Open
        /\ pc' \notin {"sweeping", "baseline"}
    BY <1>3 DEF StartIteration, WallClockExceeded, CostLimitReached, RejectAll,
                Open, LoopPhases
  <2>2. ctx'.best_value = ctx.best_value
    BY <1>1, <1>3 DEF StartIteration, WallClockExceeded, CostLimitReached,
                      RejectAll, Logged, TypeOK, Context
  <2> QED BY <1>1, <2>1, <2>2, KeepsOutsideSweep
<1>9. CASE LLMAnswers \/ LLMFails
  <2>1. ws' \in Diagnosed(ws) /\ pc = "generate" /\ pc' = "cost" /\ UNCHANGED ghost
    BY <1>9 DEF LLMAnswers, LLMFails
  <2>2. ProgramIn(ws') = ProgramIn(ws)
    BY <1>1, <2>1, WorkspaceFields DEF TypeOK
  <2>3. ctx'.best_value = ctx.best_value
    BY <1>1, <1>9 DEF LLMAnswers, LLMFails, TypeOK, Context
  <2> QED BY <1>1, <2>1, <2>2, <2>3, KeepsOutsideSweep DEF Open, LoopPhases
<1>4. CASE NoCandidates
  <2>1. Logged(ctx, "no candidates") \in Context
    BY <1>1, LoggedType DEF TypeOK, Kinds
  <2>2. RecordFailure(Logged(ctx, "no candidates")) \in Context
    BY <2>1, RecordFailureType
  <2>3. ctx'.best_value = ctx.best_value
    BY <1>1, <1>4, <2>1, <2>2, RecordsKeepScore, CloseKeepsScore
       DEF NoCandidates, TypeOK, Kinds, Gains
  <2>4. /\ UNCHANGED <<ws, ghost>> /\ pc \in Open /\ pc' \in Open
        /\ pc' \notin {"sweeping", "baseline"}
    BY <1>4 DEF NoCandidates, CloseIteration, Open, LoopPhases
  <2> QED BY <1>1, <2>3, <2>4, KeepsOutsideSweep
<1>5. CASE AcceptBest
  <2>1. PICK v \in Scores, tuning \in Tunings, sweep \in BOOLEAN :
          /\ Promotable(v, tuning, sweep)
          /\ ws' = Patched(tuning, sweep) /\ ctx' = Recorded(v)
          /\ ghost' = Promoted(tuning, sweep)
    BY <1>5 DEF AcceptBest
  <2>2. pc = "judge" /\ pc' = "protect"
    BY <1>5 DEF AcceptBest
  <2>3. v > ctx.best_value \/ config.paired
    BY <1>1, <2>1, BeatsIsMore DEF Promotable, TypeOK, Context, LoopAssumption
  <2>4. /\ ctx'.best_value = v /\ ghost'.derailed = ghost.derailed
        /\ ghost'.best_of = ProgramIn(ws')
    BY <1>1, <2>1, AcceptScores
  <2>5. Improves
    <3>1. pc \in Open /\ pc' \in Open /\ pc # "sweeping" /\ pc' # "sweeping"
      BY <2>2 DEF Open, LoopPhases
    <3>2. IncumbentProgram' = ProgramIn(ws')
      BY <3>1 DEF IncumbentProgram, ProgramIn
    <3> QED BY <2>3, <2>4, <3>1, <3>2 DEF Improves
  <2> QED BY <2>2, <2>5
<1>6. CASE ProtectBeforeSweep \/ Reprofile \/ DriftIgnored
  <2>1. ws' \in Verified(ws) \cup Executed(Rebuilt(ws)) \cup Executed(ws)
    BY <1>6 DEF ProtectBeforeSweep, Reprofile, DriftIgnored
  <2>2. /\ UNCHANGED <<ctx, ghost>> /\ pc \in Open /\ pc' \in Open
        /\ pc' \notin {"sweeping", "baseline"}
    BY <1>6 DEF ProtectBeforeSweep, Reprofile, DriftIgnored, Open, LoopPhases
  <2>3. ProgramIn(ws') = ProgramIn(ws)
    BY <1>1, <2>1, WorkspaceFields, RebuiltFields DEF TypeOK
  <2> QED BY <1>1, <2>2, <2>3, KeepsOutsideSweep
<1>7. CASE BaselineRemeasured
  <2>1. pc = "drift" /\ pc' = "verify" /\ ws' \in Executed(ws)
    BY <1>7 DEF BaselineRemeasured
  <2>2. ctx'.best_value \in Scores
    BY <1>1, <1>7 DEF BaselineRemeasured, TypeOK, Context
  <2>3. ghost'.best_of = ws.built /\ ghost'.derailed = ghost.derailed
    BY <1>1, <1>7 DEF BaselineRemeasured, TypeOK, Ghost
  <2>4. ws.built = ProgramIn(ws) /\ (~ghost.derailed => ghost.best_of = ProgramIn(ws))
    BY <2>1 DEF PromiseInv, IncumbentInv, BinaryIsCurrent, BestDescribesWorkspace,
                IncumbentProgram
  <2>5. ProgramIn(ws') = ProgramIn(ws)
    BY <1>1, <2>1, WorkspaceFields DEF TypeOK
  <2>6. Remeasures
    BY <2>1, <2>2, <2>3, <2>4, <2>5 DEF Remeasures, Open, LoopPhases, IncumbentProgram,
                                        ProgramIn
  <2> QED BY <2>1, <2>6
<1>8. CASE EndIteration
  <2> DEFINE ended == IF round.accepted THEN RecordImprovement(ctx, round.gain)
                                        ELSE RecordFailure(ctx)
  <2>1. ended \in Context /\ ended.best_value = ctx.best_value
    BY <1>1, RecordImprovementType, RecordFailureType, RecordsKeepScore
       DEF TypeOK, Round, Kinds
  <2>2. CloseIteration(ended)
    BY <1>8 DEF EndIteration
  <2> HIDE DEF ended
  <2>3. ctx'.best_value = ctx.best_value
    BY <2>1, <2>2, CloseKeepsScore
  <2>4. /\ ws' \in Verified(ws) /\ UNCHANGED ghost /\ pc \in Open /\ pc' \in Open
        /\ pc' \notin {"sweeping", "baseline"}
    BY <1>8 DEF EndIteration, CloseIteration, Open, LoopPhases
  <2>5. ProgramIn(ws') = ProgramIn(ws)
    BY <1>1, <2>4, WorkspaceFields DEF TypeOK
  <2> QED BY <1>1, <2>3, <2>4, <2>5, KeepsOutsideSweep
<1> QED BY <1>2, <1>3, <1>4, <1>5, <1>6, <1>7, <1>8, <1>9 DEF Iterate

(* The sweep: adopting the winner improves, giving up keeps, and a tuning.yaml *)
(* that cannot be put back derails.                                            *)
LEMMA SweepKinds ==
    ASSUME LoopAssumption, PromiseInv, TypeOK', Sweep
    PROVE  /\ StepKind /\ pc' # "baseline"
           /\ pc' = "sweeping" =>
                /\ trial'.best >= ctx'.best_value
                /\ trial'.winner # {} => /\ trial'.best \in Scores
                                         /\ trial'.best > ctx'.best_value
<1>1. TypeOK /\ ctx.best_value \in Nat
  BY DEF PromiseInv, IncumbentInv, TypeOK, Context
<1> USE DEF StepKind
<1>2. CASE NothingToSweep
  <2>1. /\ UNCHANGED <<ws, ctx, ghost>> /\ pc \in Open /\ pc' = "reprofile" /\ pc' \in Open
        /\ pc # "sweeping"
    BY <1>2 DEF NothingToSweep, Open, LoopPhases
  <2> QED BY <2>1, KeepsOutsideSweep
<1>3. CASE StartSweep
  <2>1. /\ UNCHANGED <<ws, ctx, ghost>> /\ pc = "autotune" /\ pc' = "sweeping"
        /\ trial'.winner = {} /\ trial'.best = ctx.best_value /\ trial'.original = ws.tuning
    BY <1>3 DEF StartSweep, NoTrial
  <2>2. Keeps
    BY <2>1 DEF Keeps, Open, LoopPhases, IncumbentProgram, ProgramIn
  <2> QED BY <1>1, <2>1, <2>2
<1>4. ASSUME NEW t \in trial.todo, TrialRejected(t) \/ TrialMeasured(t)
      PROVE  /\ Keeps
             /\ trial'.best >= ctx'.best_value
             /\ trial'.winner # {} => trial'.best \in Scores /\ trial'.best > ctx'.best_value
  <2>1. pc = "sweeping" /\ pc' = "sweeping" /\ UNCHANGED <<ghost, ctx>>
    BY <1>4 DEF TrialRejected, TrialMeasured
  <2>2. TrialFile(t) \in Workspace /\ TrialFile(t).code = ws.code
    BY <1>1, WorkspaceType DEF TrialFile, TypeOK, Trial, Workspace
  <2>3. ws'.code = ws.code
    BY <1>1, <1>4, <2>2, RebuiltFields DEF TrialRejected, TrialMeasured
  <2>4. trial'.original = trial.original
    BY <1>1, <1>4 DEF TrialRejected, TrialMeasured, TypeOK, Trial
  <2>5. \/ trial'.best = trial.best /\ trial'.winner = trial.winner
        \/ trial'.best \in Scores /\ trial'.best > trial.best
    BY <1>1, <1>4 DEF TrialRejected, TrialMeasured, TypeOK, Trial
  <2>6. trial.best \in Nat /\ trial'.best \in Nat /\ ctx'.best_value \in Nat
    BY <1>1 DEF TypeOK, Trial, Context
  <2>7. Keeps
    BY <2>1, <2>3, <2>4 DEF Keeps, Open, LoopPhases, IncumbentProgram
  <2>8. /\ trial.best >= ctx.best_value
        /\ trial.winner # {} => trial.best \in Scores /\ trial.best > ctx.best_value
    BY <2>1 DEF PromiseInv, ScoreInv
  <2>9. ctx'.best_value = ctx.best_value
    BY <2>1
  <2>10. trial'.best >= ctx'.best_value
    BY <2>5, <2>6, <2>8, <2>9
  <2>11. trial'.winner # {} => trial'.best \in Scores /\ trial'.best > ctx'.best_value
    <3>1. CASE trial'.best = trial.best /\ trial'.winner = trial.winner
      BY <3>1, <2>8, <2>9
    <3>2. CASE trial'.best \in Scores /\ trial'.best > trial.best
      BY <3>2, <2>6, <2>8, <2>9
    <3> QED BY <3>1, <3>2, <2>5
  <2> QED BY <2>7, <2>10, <2>11
<1>5. ASSUME NEW w \in Workspace, w.code = ws.code, RestoreTuning(w),
             pc = "sweeping", pc' = "reprofile", UNCHANGED ctx
      PROVE  StepKind
  <2>1. CASE /\ ws' = [w EXCEPT !.tuning = trial.original, !.sweep = TRUE]
             /\ UNCHANGED ghost
    <3>1. ws'.code = ws.code /\ ws'.tuning = trial.original
      BY <1>5, <2>1 DEF Workspace
    <3>2. Keeps
      BY <1>5, <2>1, <3>1 DEF Keeps, Open, LoopPhases, IncumbentProgram, ProgramIn
    <3> QED BY <3>2
  <2>2. CASE ghost' = [ghost EXCEPT !.derailed = TRUE]
    <3>1. ghost'.derailed
      BY <1>1, <2>2 DEF TypeOK, Ghost
    <3>2. Derails
      BY <1>1, <1>5, <3>1 DEF Derails, PromiseInv, ScoreInv
    <3> QED BY <3>2
  <2> QED BY <1>5, <2>1, <2>2 DEF RestoreTuning
<1>6. ASSUME NEW t \in trial.todo, SweepAborts(t)
      PROVE  StepKind /\ pc' = "reprofile"
  <2>1. TrialFile(t) \in Workspace /\ TrialFile(t).code = ws.code
    BY <1>1, WorkspaceType DEF TrialFile, TypeOK, Trial, Workspace
  <2>2. PICK w \in {ws, TrialFile(t)} \cup Executed(Rebuilt(TrialFile(t))) : RestoreTuning(w)
    BY <1>6 DEF SweepAborts
  <2>3. Rebuilt(TrialFile(t)) \in Workspace
    BY <2>1, WorkspaceType
  <2>4. w \in Workspace /\ w.code = ws.code
    BY <1>1, <2>1, <2>2, <2>3, WorkspaceType, RebuiltFields DEF TypeOK
  <2> QED BY <1>5, <1>6, <2>2, <2>4 DEF SweepAborts
<1>7. CASE SweepFindsBetter
  <2>1. PICK t \in trial.winner : ws' = [ws EXCEPT !.tuning = t, !.sweep = TRUE]
    BY <1>7 DEF SweepFindsBetter, Tuned
  <2>2. ws'.code = ws.code /\ ws'.tuning = t /\ pc = "sweeping" /\ pc' = "reprofile"
    BY <1>1, <1>7, <2>1 DEF SweepFindsBetter, TypeOK, Workspace
  <2>3. ghost'.best_of = trial.measured /\ ghost'.derailed = ghost.derailed
    BY <1>1, <1>7 DEF SweepFindsBetter, TypeOK, Ghost
  <2>4. trial.measured = [code |-> ws.code, tuning |-> t]
    BY <2>2 DEF PromiseInv, IncumbentInv, SweepInv
  <2>5. [ctx EXCEPT !.best_value = trial.best] \in Context
    BY <1>1 DEF TypeOK, Context, Trial
  <2>6. ctx'.best_value = trial.best
    BY <1>1, <1>7, <2>5 DEF SweepFindsBetter, Logged, TypeOK, Context
  <2>7. trial.best \in Scores /\ trial.best > ctx.best_value
    BY <2>1, <2>2 DEF PromiseInv, ScoreInv
  <2>8. Improves
    BY <2>2, <2>3, <2>4, <2>6, <2>7 DEF Improves, Open, LoopPhases, IncumbentProgram,
                                        ProgramIn
  <2> QED BY <2>2, <2>8
<1>8. CASE SweepKeepsOriginal
  <2>1. PICK w \in {ws} \cup {Tuned(t) : t \in trial.winner} : RestoreTuning(w)
    BY <1>8 DEF SweepKeepsOriginal
  <2>2. \A t \in trial.winner : Tuned(t) \in Workspace /\ Tuned(t).code = ws.code
    BY <1>1 DEF Tuned, TypeOK, Trial, Workspace
  <2>3. w \in Workspace /\ w.code = ws.code
    BY <1>1, <2>1, <2>2 DEF TypeOK
  <2>4. StepKind /\ pc' = "reprofile"
    BY <1>5, <1>8, <2>1, <2>3 DEF SweepKeepsOriginal
  <2> QED BY <2>4
<1>9. ASSUME NEW t \in trial.todo, TrialRejected(t) \/ TrialMeasured(t)
      PROVE  pc' = "sweeping"
  BY <1>9 DEF TrialRejected, TrialMeasured
<1> QED BY <1>2, <1>3, <1>4, <1>6, <1>7, <1>8, <1>9 DEF Sweep

(* A crash keeps everything, derails, or records an accept.                    *)
LEMMA FaultKinds ==
    ASSUME LoopAssumption, PromiseInv, TypeOK', Fault
    PROVE  StepKind /\ pc' = "abort"
<1>1. TypeOK /\ ctx.best_value \in Nat
  BY DEF PromiseInv, IncumbentInv, TypeOK, Context
<1>2. ASSUME NEW c \in Context, Abort(c)
      PROVE  ctx'.best_value = c.best_value /\ pc' = "abort" /\ UNCHANGED trial
  BY <1>2 DEF Abort, Crashed, Context
<1>3. ctx.best_value \in Scores \cup {0} /\ ctx \in Context
  BY <1>1 DEF PromiseInv, ScoreInv, TypeOK
<1> USE DEF StepKind
<1>4. CASE LoopRaises \/ ReprofileFails
  <2>1. /\ Abort(ctx) /\ UNCHANGED ghost /\ pc \in LoopPhases \ {"sweeping"}
        /\ ws' \in {ws} \cup Executed(ws) \cup Diagnosed(ws) \cup Executed(Rebuilt(ws))
    BY <1>4 DEF LoopRaises, ReprofileFails, LoopPhases
  <2>2. ProgramIn(ws') = ProgramIn(ws)
    BY <1>1, <2>1, WorkspaceFields, RebuiltFields DEF TypeOK
  <2>3. ctx'.best_value = ctx.best_value /\ pc' = "abort"
    BY <1>2, <1>3, <2>1
  <2>4. pc # "sweeping" /\ pc \in Open /\ pc' \in Open /\ pc' # "sweeping"
    BY <2>1, <2>3 DEF Open
  <2> QED BY <2>1, <2>2, <2>3, <2>4, KeepsOutsideSweep
<1>7. CASE AnswerLost
  <2>1. PICK cost \in 0 .. AnswerCost : Abort([ctx EXCEPT !.spend = @ + cost])
    BY <1>7 DEF AnswerLost
  <2>2. ws' \in Diagnosed(ws) /\ UNCHANGED ghost /\ pc = "generate"
    BY <1>7 DEF AnswerLost
  <2>3. cost \in Nat
    BY AnswerCostType
  <2> DEFINE paid == [ctx EXCEPT !.spend = @ + cost]
  <2>9. ctx.spend + cost \in Nat
    BY <1>3, <2>3 DEF Context
  <2>4. paid \in Context /\ paid.best_value = ctx.best_value
    BY <1>3, <2>9 DEF Context
  <2>5. Abort(paid)
    BY <2>1
  <2> HIDE DEF paid
  <2>6. ctx'.best_value = ctx.best_value /\ pc' = "abort"
    BY <1>2, <2>4, <2>5
  <2>7. ProgramIn(ws') = ProgramIn(ws)
    BY <1>1, <2>2, WorkspaceFields DEF TypeOK
  <2>8. pc # "sweeping" /\ pc \in Open /\ pc' \in Open /\ pc' # "sweeping"
    BY <2>2, <2>6 DEF Open, LoopPhases
  <2> QED BY <2>2, <2>6, <2>7, <2>8, KeepsOutsideSweep
<1>5. CASE ApplyInterrupted \/ SweepInterrupted
  <2>1. Abort(ctx) /\ ghost' = [ghost EXCEPT !.derailed = TRUE]
    BY <1>5 DEF ApplyInterrupted, SweepInterrupted
  <2>2. ghost'.derailed
    BY <1>1, <2>1 DEF TypeOK, Ghost
  <2>3. ctx'.best_value = ctx.best_value /\ pc' = "abort"
    BY <1>2, <1>3, <2>1
  <2> QED BY <1>1, <1>3, <2>2, <2>3 DEF Derails
<1>6. CASE AcceptInterrupted
  <2>1. PICK v \in Scores, tuning \in Tunings, sweep \in BOOLEAN :
          /\ Promotable(v, tuning, sweep)
          /\ ws' = Patched(tuning, sweep)
          /\ \/ /\ \E c \in {ctx, Scored(v), Logged(Scored(v), "accepted")} : Abort(c)
                /\ ghost' = [Promoted(tuning, sweep) EXCEPT !.derailed = TRUE]
             \/ /\ Abort(Recorded(v))
                /\ ghost' = Promoted(tuning, sweep)
    BY <1>6 DEF AcceptInterrupted
  <2>2. v > ctx.best_value \/ config.paired
    BY <1>1, <2>1, BeatsIsMore DEF Promotable, TypeOK, Context, LoopAssumption
  <2>3. CASE /\ \E c \in {ctx, Scored(v), Logged(Scored(v), "accepted")} : Abort(c)
             /\ ghost' = [Promoted(tuning, sweep) EXCEPT !.derailed = TRUE]
    <3>1. ghost'.derailed
      BY <1>1, <2>3 DEF TypeOK, Ghost, Promoted
    <3>2. PICK c \in {ctx, Scored(v), Logged(Scored(v), "accepted")} : Abort(c)
      BY <2>3
    <3>3. c \in Context
      BY <1>1, <1>3, AcceptType
    <3>4. c.best_value \in {ctx.best_value, v}
      BY <1>1, AcceptScores
    <3>5. ctx'.best_value \in {ctx.best_value, v} /\ pc' = "abort"
      BY <1>2, <3>2, <3>3, <3>4
    <3> QED BY <1>1, <1>3, <2>2, <3>1, <3>5 DEF Derails
  <2>4. CASE Abort(Recorded(v)) /\ ghost' = Promoted(tuning, sweep)
    <3>1. ctx'.best_value = v /\ pc' = "abort"
      <4>1. Recorded(v) \in Context /\ Recorded(v).best_value = v
        BY <1>1, AcceptType, AcceptScores
      <4> QED BY <1>2, <2>4, <4>1
    <3>2. /\ ghost'.derailed = ghost.derailed
          /\ ghost'.best_of = [code |-> ctx.iteration, tuning |-> tuning]
      BY <1>1, <2>4, AcceptScores
    <3>3. ProgramIn(ws') = [code |-> ctx.iteration, tuning |-> tuning]
      BY <1>1, <2>1, AcceptScores DEF ProgramIn
    <3>4. pc = "judge"
      BY <1>6 DEF AcceptInterrupted
    <3>5. Improves
      BY <2>2, <3>1, <3>2, <3>3, <3>4 DEF Improves, Open, LoopPhases, IncumbentProgram,
                                          ProgramIn
    <3> QED BY <3>1, <3>5
  <2> QED BY <2>1, <2>3, <2>4
<1> QED BY <1>4, <1>5, <1>6, <1>7 DEF Fault

(* The baseline opens the promise, and finalize or a failed baseline closes it.*)
LEMMA ConcludeKinds ==
    ASSUME LoopAssumption, PromiseInv, TypeOK', Conclude
    PROVE  StepKind /\ pc' \notin {"sweeping", "baseline"}
<1>1. TypeOK
  BY DEF PromiseInv, IncumbentInv
<1> USE DEF StepKind
<1>2. CASE MeasureBaseline
  <2>1. PICK v \in Scores :
          ctx' = Logged([ctx EXCEPT !.best_value = v, !.baseline_val = v], "baseline")
    BY <1>2 DEF MeasureBaseline
  <2>2. ctx'.best_value = v
    BY <1>1, <2>1 DEF Logged, TypeOK, Context
  <2>3. /\ pc = "baseline" /\ pc' = "top" /\ UNCHANGED ghost
        /\ ws' = [ws EXCEPT !.built = ProgramIn(ws)]
    BY <1>2 DEF MeasureBaseline
  <2>4. ProgramIn(ws') = ProgramIn(ws)
    BY <1>1, <2>3 DEF TypeOK, Workspace, ProgramIn
  <2>5. Opens
    BY <2>2, <2>3, <2>4 DEF Opens, Open, LoopPhases, IncumbentProgram, ProgramIn
  <2> QED BY <2>3, <2>5
<1>3. CASE BaselineFails \/ Finalize \/ FinalizeRaises \/ FinalizeAfterCrash
  <2>1. /\ UNCHANGED <<ws, ghost>> /\ pc \in Open \cup {"baseline"} /\ pc # "sweeping"
        /\ pc' \in Closed /\ pc' \notin {"sweeping", "baseline"}
    BY <1>3 DEF BaselineFails, Finalize, FinalizeRaises, FinalizeAfterCrash, Open, Closed
  <2>2. ctx' \in {ctx} \cup Summarised(ctx)
    BY <1>3 DEF BaselineFails, Finalize, FinalizeRaises, FinalizeAfterCrash
  <2>3. ctx'.best_value = ctx.best_value
    BY <1>1, <2>2 DEF Summarised, TypeOK, Context
  <2> QED BY <2>1, <2>3, KeepsOutsideSweep
<1> QED BY <1>2, <1>3 DEF Conclude

-----------------------------------------------------------------------------
(* The invariant.                                                              *)

(* Every step of a run that has not ended is of one of the kinds, and leaves   *)
(* the sweep's score ahead of the score on record.                             *)
LEMMA StepKinds ==
    ASSUME LoopAssumption, PromiseInv, TypeOK', Iterate \/ Sweep \/ Fault \/ Conclude
    PROVE  /\ StepKind /\ pc' # "baseline"
           /\ pc' = "sweeping" =>
                /\ trial'.best >= ctx'.best_value
                /\ trial'.winner # {} => /\ trial'.best \in Scores
                                         /\ trial'.best > ctx'.best_value
BY IterateKinds, SweepKinds, FaultKinds, ConcludeKinds

(* The settings of the run are fixed, and once derailed a run stays derailed.  *)
LEMMA Fixed ==
    ASSUME TypeOK, Next
    PROVE  UNCHANGED config /\ (ghost.derailed => ghost'.derailed)
<1> USE DEF TypeOK, Ghost
<1>1. CASE Iterate
  BY <1>1 DEF Iterate, IterationsExhausted, StartIteration, WallClockExceeded, LLMAnswers,
              LLMFails, CostLimitReached, SkipIteration, NoCandidates, HasCandidates,
              AcceptBest, RejectAll, ProtectBeforeSweep, Reprofile, DriftIgnored,
              BaselineRemeasured, EndIteration, Promoted
<1>2. CASE Sweep
  BY <1>2 DEF Sweep, NothingToSweep, StartSweep, TrialRejected, TrialMeasured, SweepAborts,
              SweepFindsBetter, SweepKeepsOriginal, RestoreTuning
<1>3. CASE Fault
  BY <1>3 DEF Fault, LoopRaises, AnswerLost, ReprofileFails, ApplyInterrupted,
              AcceptInterrupted, SweepInterrupted, Abort, Promoted
<1>4. CASE Conclude \/ Ended
  BY <1>4 DEF Conclude, MeasureBaseline, BaselineFails, Finalize, FinalizeRaises,
              FinalizeAfterCrash, Ended, vars
<1> QED BY <1>1, <1>2, <1>3, <1>4 DEF Next

(* Whatever a run does, its score was measured, and a sweep's winner beats it. *)
THEOREM PromiseInvariant == Spec => []PromiseInv
<1> USE LoopAssumption
<1>1. Init => ScoreInv
  BY DEF Init, ScoreInv
<1>2. TypeOK' /\ PromiseInv /\ [Next]_vars => ScoreInv'
  <2>1. CASE PromiseInv /\ (Ended \/ UNCHANGED vars)
    BY <2>1 DEF Ended, vars, PromiseInv, ScoreInv
  <2>2. ASSUME TypeOK', PromiseInv, Iterate \/ Sweep \/ Fault \/ Conclude
        PROVE  ScoreInv'
    <3>1. StepKind
      BY <2>2, StepKinds
    <3>2. ctx'.best_value \in Scores \cup {0}
      BY <2>2, <3>1 DEF StepKind, Keeps, Derails, Improves, Remeasures, Opens, PromiseInv,
                        ScoreInv
    <3> QED BY <2>2, <3>2, StepKinds DEF ScoreInv
  <2> QED BY <2>1, <2>2 DEF Next
<1>3. IncumbentInv => TypeOK
  BY DEF IncumbentInv
<1>4. IncumbentInv /\ ScoreInv <=> PromiseInv
  BY DEF PromiseInv
<1> QED BY <1>1, <1>2, <1>3, <1>4, IncumbentInvariant, PTL DEF Spec

(* Without a paired rule the score on record never falls, in an accept, a      *)
(* sweep or a crash; only the drift check may replace it, and then by a        *)
(* measurement of the program it was already the score of.                     *)
THEOREM ScoreOnlyImproves == Spec => IncumbentOnlyImproves
<1> USE LoopAssumption
<1> DEFINE Fair == ctx'.best_value < ctx.best_value
                     => \/ config.paired
                        \/ /\ pc = "drift"
                           /\ ghost.derailed \/ ghost'.best_of = ghost.best_of
<1>1. PromiseInv /\ PromiseInv' /\ [Next]_vars => [Fair]_vars
  <2>1. CASE Ended \/ UNCHANGED vars
    BY <2>1 DEF Ended
  <2>2. ASSUME PromiseInv, PromiseInv', Iterate \/ Sweep \/ Fault \/ Conclude
        PROVE  Fair
    <3>1. TypeOK /\ TypeOK'
      BY <2>2 DEF PromiseInv, IncumbentInv
    <3>2. ctx.best_value \in Nat /\ ctx'.best_value \in Nat
      BY <3>1 DEF TypeOK, Context
    <3>3. CASE Keeps
      BY <3>2, <3>3 DEF Keeps
    <3>4. CASE Derails
      BY <3>2, <3>4 DEF Derails
    <3>5. CASE Improves
      BY <3>2, <3>5 DEF Improves
    <3>6. CASE Remeasures
      BY <3>6 DEF Remeasures
    <3>7. CASE Opens
      <4>1. ctx.best_value = 0
        BY <2>2, <3>7 DEF Opens, PromiseInv, ScoreInv
      <4> QED BY <3>2, <4>1
    <3> QED BY <2>2, <3>1, <3>3, <3>4, <3>5, <3>6, <3>7, StepKinds DEF StepKind
  <2> QED BY <2>1, <2>2 DEF Next
<1>2. [][Fair]_vars => IncumbentOnlyImproves
  BY PTL DEF IncumbentOnlyImproves
<1> QED BY <1>1, <1>2, PromiseInvariant, PTL DEF Spec

-----------------------------------------------------------------------------
(* Refinement.                                                                 *)

(* A step of the run is a step of the abstract incumbent, or none.             *)
LEMMA StepRefines ==
    ASSUME LoopAssumption, PromiseInv, PromiseInv', Next
    PROVE  [Promise!Next]_Promise!vars
<1>1. TypeOK /\ TypeOK'
  BY DEF PromiseInv, IncumbentInv
<1>2. UNCHANGED config /\ (ghost.derailed => ghost'.derailed)
  BY <1>1, Fixed
<1>3. IncumbentProgram' \in Program /\ ghost'.best_of \in Program
  BY <1>1 DEF TypeOK, IncumbentProgram, ProgramIn, Workspace, Trial, Program, Ghost
<1>4. ctx'.best_value \in Scores \cup {0}
  BY DEF PromiseInv, ScoreInv
<1>5. CASE ghost'.derailed
  <2>1. PromisePhase' = "failed"
    BY <1>5 DEF PromisePhase
  <2>2. Promise!Fail
    BY <1>2, <1>3, <1>4, <2>1 DEF Promise!Fail
  <2> QED BY <2>2 DEF Promise!Next
<1>6. CASE ~ghost'.derailed /\ Ended
  BY <1>6 DEF Ended, vars, Promise!vars, IncumbentProgram, ProgramIn, PromisePhase
<1>7. CASE ~ghost'.derailed /\ ~Ended
  <2>1. StepKind /\ ~ghost.derailed
    BY <1>1, <1>2, <1>7, StepKinds DEF Next
  <2>2. /\ pc \in Open => PromisePhase = "open"
        /\ pc = "baseline" => PromisePhase = "new"
        /\ pc' \in Open => PromisePhase' = "open"
        /\ pc' \in Closed => PromisePhase' = "closed"
    BY <1>7, <2>1 DEF PromisePhase, Open, Closed, LoopPhases
  <2>3. CASE Keeps /\ pc \in Open /\ pc' \in Open
    BY <1>2, <2>2, <2>3 DEF Keeps, Promise!vars
  <2>4. CASE Keeps /\ pc \in Open \cup {"baseline"} /\ pc' \in Closed
    BY <1>2, <2>2, <2>4 DEF Keeps, Promise!Close, Promise!Next
  <2>5. CASE Improves
    BY <1>2, <1>3, <2>2, <2>5 DEF Improves, Promise!Promote, Promise!Next
  <2>6. CASE Remeasures
    <3>1. pc \in Open
      BY <2>6 DEF Remeasures, Open, LoopPhases
    <3> QED BY <1>2, <2>1, <2>2, <2>6, <3>1 DEF Remeasures, Promise!Recalibrate, Promise!Next
  <2>7. CASE Opens
    BY <1>2, <2>2, <2>7 DEF Opens, Promise!Open, Promise!Next
  <2> QED BY <1>7, <2>1, <2>3, <2>4, <2>5, <2>6, <2>7 DEF StepKind, Derails, Keeps
<1> QED BY <1>5, <1>6, <1>7

(* A run of the optimizer, with its sweeps, drift checks, crashes and faulty   *)
(* disk, is a behaviour of module Incumbent: the program it would hand back    *)
(* changes only to a measured one, and the score it quotes is that program's.  *)
THEOREM RunKeepsPromise == Spec => KeepsPromise
<1> USE LoopAssumption
<1>1. Init => Promise!Init
  <2>1. ASSUME Init PROVE Promise!Init
    <3>1. TypeOK
      BY <2>1, InitType
    <3>2. config.paired \in BOOLEAN
      BY <3>1 DEF TypeOK, LoopAssumption, Config
    <3>3. IncumbentProgram = BaselineProgram /\ IncumbentProgram \in Program
      BY <2>1 DEF Init, IncumbentProgram, ProgramIn, BaselineProgram, Program, LoopAssumption
    <3>4. PromisePhase = "new"
      BY <2>1 DEF Init, PromisePhase, LoopPhases
    <3> QED BY <2>1, <3>2, <3>3, <3>4 DEF Init, Promise!Init
  <2> QED BY <2>1
<1>2. PromiseInv /\ PromiseInv' /\ [Next]_vars => [Promise!Next]_Promise!vars
  <2>1. CASE UNCHANGED vars
    BY <2>1 DEF vars, Promise!vars, IncumbentProgram, ProgramIn, PromisePhase
  <2> QED BY <2>1, StepRefines
<1> QED BY <1>1, <1>2, PromiseInvariant, PTL DEF Spec, KeepsPromise, Promise!Spec

=============================================================================
