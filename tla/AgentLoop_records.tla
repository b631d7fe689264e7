-------------------------- MODULE AgentLoop_records --------------------------
(* Theorems about what AgentLoop keeps on record: the money spent, state.json, *)
(* the protected files, the history and the detector that reads it.            *)
EXTENDS AgentLoop_proofs, FiniteSetTheorems

-----------------------------------------------------------------------------
(* What the helpers leave alone.                                               *)

(* Appending an entry or telling the detector costs nothing and keeps the      *)
(* iteration and the stop reason.                                              *)
LEMMA RecordsKeep ==
    ASSUME NEW c \in Context, NEW kind \in Kinds, NEW gain \in Gains
    PROVE  /\ Logged(c, kind).spend = c.spend
           /\ Logged(c, kind).iteration = c.iteration
           /\ Logged(c, kind).stop = c.stop
           /\ RecordFailure(c).spend = c.spend
           /\ RecordFailure(c).iteration = c.iteration
           /\ RecordFailure(c).stop = c.stop
           /\ RecordImprovement(c, gain).spend = c.spend
           /\ RecordImprovement(c, gain).iteration = c.iteration
           /\ RecordImprovement(c, gain).stop = c.stop
BY DEF Context, Logged, RecordFailure, RecordImprovement

(* An accept costs nothing either.                                             *)
LEMMA AcceptKeeps ==
    ASSUME LoopAssumption, TypeOK, NEW v \in Scores
    PROVE  /\ Scored(v).spend = ctx.spend /\ Scored(v).stop = ctx.stop
           /\ Logged(Scored(v), "accepted").spend = ctx.spend
           /\ Logged(Scored(v), "accepted").stop = ctx.stop
           /\ Recorded(v).spend = ctx.spend
           /\ Recorded(v).stop = ctx.stop
<1>1. Scored(v) \in Context /\ Logged(Scored(v), "accepted") \in Context
  BY AcceptType DEF TypeOK, Workspace
<1>2. Scored(v).spend = ctx.spend /\ Scored(v).stop = ctx.stop
  BY DEF Scored, TypeOK, Context
<1>3. /\ Logged(Scored(v), "accepted").spend = ctx.spend
      /\ Logged(Scored(v), "accepted").stop = ctx.stop
  BY <1>1, <1>2, RecordsKeep DEF Kinds, Gains
<1> QED BY <1>1, <1>2, <1>3 DEF Recorded, Context

(* The end of an iteration costs nothing, and an iteration that is not the     *)
(* last goes on with what state.json says (on a healthy disk).                 *)
LEMMA CloseKeeps ==
    ASSUME LoopAssumption, TypeOK, UNCHANGED config, NEW c \in Context, CloseIteration(c)
    PROVE  /\ ctx'.spend = c.spend
           /\ pc' \in {"top", "finalize", "abort"}
           /\ pc' = "top" => ctx' = c
           /\ StateJsonCurrent'
<1>1. [c EXCEPT !.stop = "converged"] \in Context
  BY DEF Context, Stops
<1>2. [c EXCEPT !.stop = "converged"].spend = c.spend
  BY DEF Context
<1>3. ctx'.spend = c.spend
  <2> DEFINE stopped == [c EXCEPT !.stop = "converged"]
  <2>1. ctx' = Logged(stopped, "early stop") \/ ctx' \in {c, stopped, Crashed(c)}
    BY DEF CloseIteration
  <2>2. "early stop" \in Kinds /\ "clear" \in Gains
    BY DEF Kinds, Gains
  <2>3. stopped \in Context /\ stopped.spend = c.spend
    BY <1>1, <1>2
  <2>5. Crashed(c).spend = c.spend
    BY DEF Crashed, Context
  <2> HIDE DEF stopped
  <2>4. Logged(stopped, "early stop").spend = stopped.spend
    BY <2>2, <2>3, RecordsKeep
  <2> QED BY <2>1, <2>3, <2>4, <2>5
<1>4. pc' \in {"top", "finalize", "abort"} /\ (pc' = "top" => ctx' = c)
  BY DEF CloseIteration
<1>5. ~config.disk_faults /\ pc' = "top" => run_dir'.state = Snapshot(c)
  BY DEF CloseIteration, StateWrites, TypeOK, RunDir
<1> QED BY <1>3, <1>4, <1>5 DEF StateJsonCurrent, Snapshot

-----------------------------------------------------------------------------
(* The ledger.  None of the three properties is inductive: the budget holds    *)
(* between calls because it was checked after the last one, state.json is      *)
(* current at the top of the loop because no branch skips the write, and the   *)
(* copies are taken from original tests because the loop ends with a check.    *)

Frugal == (LoopPhases \ {"cost"}) \cup {"baseline"}

Closed == {"returned", "raised"}

Lost == {"abort", "raised"}

SpendInv ==
    config.max_cost > 0 =>
        /\ pc \in Frugal => ctx.spend < config.max_cost
        /\ pc \notin Closed => ctx.spend < config.max_cost + AnswerCost
        /\ ctx.spend < config.max_cost + AnswerCost + MaxCallCost

(* Where candidates are copied from, and where the run may end.                *)
Checked == {"top", "generate", "cost", "judge", "finalize"}

TestsInv ==
    ~config.disk_faults /\ ~config.tools /\ pc \in Checked \cup {"baseline"}
        => ws.tests = "original"

LedgerInv ==
    /\ TypeOK
    /\ SpendInv
    /\ TestsInv
    /\ StateJsonCurrent
    /\ pc = "baseline" => ctx.iteration = 0 /\ ctx.spend = 0

(* A step that spends nothing keeps the budget if it was checked before it, or *)
(* if it leaves the loop.                                                      *)
LEMMA FrugalStep ==
    ASSUME LoopAssumption, TypeOK, SpendInv, UNCHANGED config, ctx'.spend = ctx.spend,
           \/ pc \in Frugal \/ ~OverBudget
           \/ pc \notin Closed /\ pc' \notin Frugal
    PROVE  SpendInv'
<1>1. /\ ctx.spend \in Nat /\ MaxCallCost \in Nat /\ config.max_cost \in Nat
      /\ AnswerCost \in Nat /\ AnswerCost' = AnswerCost
  BY AnswerCostType DEF TypeOK, Context, LoopAssumption, Config, AnswerCost, CallsPerAnswer
<1>2. config.max_cost > 0 /\ ctx.spend < config.max_cost =>
          /\ ctx.spend < config.max_cost + AnswerCost
          /\ ctx.spend < config.max_cost + AnswerCost + MaxCallCost
  BY <1>1
<1> QED BY <1>1, <1>2 DEF SpendInv, OverBudget

(* Most steps spend nothing, write no state.json, and do not bring the run to  *)
(* where candidates are copied.                                                *)
LEMMA LedgerStep ==
    ASSUME LoopAssumption, LedgerInv, TypeOK', UNCHANGED config, ctx'.spend = ctx.spend,
           \/ pc \in Frugal \/ ~OverBudget
           \/ pc \notin Closed /\ pc' \notin Frugal,
           \/ pc' \notin Checked
           \/ pc \in {"top", "generate", "cost"} /\ pc' # "top" /\ UNCHANGED ws,
           pc' # "baseline"
    PROVE  LedgerInv'
<1>1. SpendInv'
  BY FrugalStep DEF LedgerInv
<1>2. TestsInv' /\ StateJsonCurrent'
  BY DEF LedgerInv, TestsInv, StateJsonCurrent, Checked
<1> QED BY <1>1, <1>2 DEF LedgerInv

(* The calls of an answer are made within the budget, and leave the phase they *)
(* were made in.                                                               *)
LEMMA AnswerPaid ==
    ASSUME LoopAssumption, LedgerInv, UNCHANGED config, pc = "generate",
           pc' \in {"cost", "abort"},
           NEW cost \in 0 .. AnswerCost, ctx'.spend = ctx.spend + cost
    PROVE  SpendInv'
<1>1. /\ ctx.spend \in Nat /\ cost \in Nat /\ cost <= AnswerCost
      /\ MaxCallCost \in Nat /\ config.max_cost \in Nat
      /\ AnswerCost \in Nat /\ AnswerCost' = AnswerCost
  BY AnswerCostType
     DEF LedgerInv, TypeOK, Context, LoopAssumption, Config, AnswerCost, CallsPerAnswer
<1>2. config.max_cost > 0 => ctx.spend < config.max_cost
  BY DEF LedgerInv, SpendInv, Frugal, LoopPhases
<1>3. \A spent, paid, limit, most, call \in Nat : spent < limit /\ paid <= most =>
          spent + paid < limit + most /\ spent + paid < limit + most + call
  OBVIOUS
<1>4. config'.max_cost > 0 =>
          /\ ctx'.spend < config'.max_cost + AnswerCost'
          /\ ctx'.spend < config'.max_cost + AnswerCost' + MaxCallCost
  BY <1>1, <1>2, <1>3
<1> QED BY <1>4 DEF SpendInv, Frugal, LoopPhases

(* The loop's own steps.                                                       *)
LEMMA LedgerIterate ==
    ASSUME LoopAssumption, LedgerInv, Iterate PROVE LedgerInv'
<1>1. TypeOK /\ TypeOK' /\ ctx \in Context
  BY IterateType DEF LedgerInv, TypeOK
<1>2. CASE IterationsExhausted \/ HasCandidates \/ ProtectBeforeSweep \/ Reprofile
           \/ DriftIgnored
  <2>1. /\ UNCHANGED <<config, ctx>> /\ pc' # "baseline"
        /\ pc \in Frugal \/ ~OverBudget
    BY <1>2 DEF IterationsExhausted, HasCandidates, ProtectBeforeSweep, Reprofile,
                DriftIgnored, Frugal, LoopPhases
  <2>2. \/ pc' \notin Checked
        \/ pc \in {"top", "generate", "cost"} /\ pc' # "top" /\ UNCHANGED ws
    BY <1>2 DEF IterationsExhausted, HasCandidates, ProtectBeforeSweep, Reprofile,
                DriftIgnored, Checked
  <2> QED BY <1>1, <2>1, <2>2, LedgerStep
<1>3. CASE StartIteration \/ WallClockExceeded \/ BaselineRemeasured
  <2>1. [ctx EXCEPT !.iteration = @ + 1].spend = ctx.spend
    BY <1>1 DEF Context
  <2>2. ctx'.spend = ctx.spend
    BY <1>1, <1>3, <2>1 DEF StartIteration, WallClockExceeded, BaselineRemeasured, Logged,
                            Context
  <2>3. /\ UNCHANGED config /\ pc' # "baseline" /\ pc \in Frugal
        /\ \/ pc' \notin Checked
           \/ pc \in {"top", "generate", "cost"} /\ pc' # "top" /\ UNCHANGED ws
    BY <1>3 DEF StartIteration, WallClockExceeded, BaselineRemeasured, Frugal, LoopPhases,
                Checked
  <2> QED BY <1>1, <2>2, <2>3, LedgerStep
<1>4. CASE LLMAnswers \/ LLMFails
  <2>1. /\ pc = "generate" /\ pc' = "cost" /\ UNCHANGED config
        /\ ws' \in Diagnosed(ws)
    BY <1>4 DEF LLMAnswers, LLMFails
  <2>2. PICK cost \in 0 .. AnswerCost : ctx'.spend = ctx.spend + cost
    <3>1. ctx.spend \in Nat /\ 0 \in 0 .. AnswerCost
      BY <1>1, AnswerCostType DEF Context
    <3>2. CASE LLMFails
      BY <3>1, <3>2 DEF LLMFails
    <3>3. CASE LLMAnswers
      BY <1>1, <3>3 DEF LLMAnswers, Context
    <3> QED BY <1>4, <3>2, <3>3
  <2>3. SpendInv'
    BY <1>1, <2>1, <2>2, AnswerPaid
  <2>4. TestsInv'
    BY <2>1 DEF LedgerInv, TestsInv, Diagnosed, Checked
  <2> QED BY <1>1, <2>1, <2>3, <2>4 DEF LedgerInv, StateJsonCurrent
<1>5. CASE CostLimitReached
  <2>1. [ctx EXCEPT !.stop = "cost"] \in Context /\ [ctx EXCEPT !.stop = "cost"].spend = ctx.spend
    BY <1>1 DEF Context, Stops
  <2>2. ctx'.spend = ctx.spend
    BY <1>5, <2>1, RecordsKeep DEF CostLimitReached, Kinds, Gains
  <2>3. UNCHANGED <<config, ws>> /\ pc = "cost" /\ pc' \in {"finalize", "abort"}
    BY <1>5 DEF CostLimitReached
  <2> QED BY <1>1, <2>2, <2>3, LedgerStep DEF Frugal, LoopPhases, Closed
<1>6. CASE SkipIteration
  <2>1. /\ UNCHANGED <<config, ctx, ws>> /\ ~OverBudget /\ pc = "cost" /\ pc' = "top"
        /\ run_dir' \in StateWrites(ctx)
    BY <1>6 DEF SkipIteration
  <2>2. ~config.disk_faults => run_dir'.state = Snapshot(ctx)
    BY <1>1, <2>1 DEF StateWrites, TypeOK, RunDir
  <2>3. StateJsonCurrent' /\ TestsInv'
    BY <2>1, <2>2 DEF LedgerInv, TestsInv, StateJsonCurrent, Snapshot, Checked
  <2>4. SpendInv'
    BY <1>1, <2>1, FrugalStep DEF LedgerInv
  <2> QED BY <1>1, <2>1, <2>3, <2>4 DEF LedgerInv
<1>7. CASE NoCandidates
  <2> DEFINE c == RecordFailure(Logged(ctx, "no candidates"))
  <2>1. Logged(ctx, "no candidates") \in Context
    BY <1>1, LoggedType DEF Kinds
  <2>2. c \in Context /\ c.spend = ctx.spend
    BY <1>1, <2>1, RecordFailureType, RecordsKeep DEF Kinds, Gains
  <2>3. CloseIteration(c) /\ UNCHANGED <<config, ws>> /\ pc = "cost" /\ ~OverBudget
    BY <1>7 DEF NoCandidates
  <2> HIDE DEF c
  <2>4. ctx'.spend = ctx.spend /\ pc' \in {"top", "finalize", "abort"} /\ StateJsonCurrent'
    BY <1>1, <2>2, <2>3, CloseKeeps
  <2>5. SpendInv'
    BY <1>1, <2>3, <2>4, FrugalStep DEF LedgerInv
  <2>6. TestsInv'
    BY <2>3, <2>4 DEF LedgerInv, TestsInv, Checked
  <2> QED BY <1>1, <2>4, <2>5, <2>6 DEF LedgerInv
<1>8. CASE AcceptBest \/ RejectAll
  <2>1. ctx'.spend = ctx.spend
    <3>1. CASE AcceptBest
      <4>1. PICK v \in Scores : ctx' = Recorded(v)
        BY <3>1 DEF AcceptBest
      <4> QED BY <1>1, <4>1, AcceptKeeps
    <3>2. CASE RejectAll
      BY <1>1, <3>2, RecordsKeep DEF RejectAll, Kinds, Gains
    <3> QED BY <1>8, <3>1, <3>2
  <2>2. UNCHANGED config /\ pc = "judge" /\ pc' \in {"protect", "verify"}
    BY <1>8 DEF AcceptBest, RejectAll
  <2> QED BY <1>1, <2>1, <2>2, LedgerStep DEF Frugal, LoopPhases, Checked
<1>9. CASE EndIteration
  <2> DEFINE c == IF round.accepted THEN RecordImprovement(ctx, round.gain)
                                    ELSE RecordFailure(ctx)
  <2>1. c \in Context /\ c.spend = ctx.spend
    BY <1>1, RecordFailureType, RecordImprovementType, RecordsKeep
       DEF TypeOK, Round, Kinds
  <2>2. /\ CloseIteration(c) /\ UNCHANGED config /\ pc = "verify" /\ ws' \in Verified(ws)
    BY <1>9 DEF EndIteration
  <2> HIDE DEF c
  <2>3. ctx'.spend = ctx.spend /\ pc' \in {"top", "finalize", "abort"} /\ StateJsonCurrent'
    BY <1>1, <2>1, <2>2, CloseKeeps
  <2>4. SpendInv'
    BY <1>1, <2>2, <2>3, FrugalStep DEF LedgerInv, Frugal, LoopPhases
  <2>5. TestsInv'
    <3>1. ~config.disk_faults => ws' = [ws EXCEPT !.tests = "original"]
      BY <2>2 DEF Verified
    <3>2. ~config.disk_faults => ws'.tests = "original"
      BY <1>1, <3>1 DEF TypeOK, Workspace
    <3> QED BY <2>2, <3>2 DEF TestsInv
  <2> QED BY <1>1, <2>3, <2>4, <2>5 DEF LedgerInv
<1> QED BY <1>2, <1>3, <1>4, <1>5, <1>6, <1>7, <1>8, <1>9 DEF Iterate

(* The sweep spends nothing and ends before the check of the protected files.  *)
LEMMA LedgerSweep ==
    ASSUME LoopAssumption, LedgerInv, Sweep PROVE LedgerInv'
<1>1. TypeOK /\ TypeOK' /\ ctx \in Context
  BY SweepType DEF LedgerInv, TypeOK
<1>2. /\ UNCHANGED config /\ pc \in {"autotune", "sweeping"}
      /\ pc' \in {"sweeping", "reprofile"}
  BY DEF Sweep, NothingToSweep, StartSweep, TrialRejected, TrialMeasured, SweepAborts,
         SweepFindsBetter, SweepKeepsOriginal
<1>3. ctx'.spend = ctx.spend
  <2>1. CASE SweepFindsBetter
    <3>1. [ctx EXCEPT !.best_value = trial.best].spend = ctx.spend
      BY <1>1 DEF Context
    <3> QED BY <2>1, <3>1 DEF SweepFindsBetter, Logged
  <2>2. CASE ~SweepFindsBetter
    BY <2>2 DEF Sweep, NothingToSweep, StartSweep, TrialRejected, TrialMeasured, SweepAborts,
                SweepKeepsOriginal
  <2> QED BY <2>1, <2>2
<1> QED BY <1>1, <1>2, <1>3, LedgerStep DEF Frugal, LoopPhases, Checked

(* A crash leaves the loop, and spends no more than the answer it lost.        *)
LEMMA LedgerFault ==
    ASSUME LoopAssumption, LedgerInv, Fault PROVE LedgerInv'
<1>1. TypeOK /\ TypeOK' /\ ctx \in Context
  BY FaultType DEF LedgerInv, TypeOK
<1>2. ASSUME NEW c \in Context, Abort(c)
      PROVE  ctx'.spend = c.spend /\ pc' = "abort" /\ UNCHANGED config
  BY <1>2 DEF Abort, Crashed, Context
<1>3. pc \in LoopPhases
  BY DEF Fault, LoopRaises, AnswerLost, ReprofileFails, ApplyInterrupted, AcceptInterrupted,
         SweepInterrupted, LoopPhases
<1>5. CASE AnswerLost
  <2>1. PICK cost \in 0 .. AnswerCost : Abort([ctx EXCEPT !.spend = @ + cost])
    BY <1>5 DEF AnswerLost
  <2>2. ctx.spend + cost \in Nat
    BY <1>1, AnswerCostType DEF Context
  <2>3. [ctx EXCEPT !.spend = @ + cost] \in Context
        /\ [ctx EXCEPT !.spend = @ + cost].spend = ctx.spend + cost
    BY <1>1, <2>2 DEF Context
  <2>4. ctx'.spend = ctx.spend + cost /\ pc' = "abort" /\ UNCHANGED config
    BY <1>2, <2>1, <2>3
  <2>5. pc = "generate"
    BY <1>5 DEF AnswerLost
  <2>6. SpendInv'
    BY <2>4, <2>5, AnswerPaid
  <2>7. TestsInv' /\ StateJsonCurrent'
    BY <2>4 DEF TestsInv, StateJsonCurrent, Checked
  <2> QED BY <1>1, <2>4, <2>6, <2>7 DEF LedgerInv
<1>4. CASE ~AnswerLost
  <2>1. ASSUME AcceptInterrupted
        PROVE  ctx'.spend = ctx.spend /\ pc' = "abort" /\ UNCHANGED config
    <3>1. PICK v \in Scores, tuning \in Tunings, sweep \in BOOLEAN :
            \E c \in {ctx, Scored(v), Logged(Scored(v), "accepted"), Recorded(v)} : Abort(c)
      BY <2>1 DEF AcceptInterrupted
    <3>2. PICK c \in {ctx, Scored(v), Logged(Scored(v), "accepted"), Recorded(v)} : Abort(c)
      BY <3>1
    <3>3. c \in Context /\ c.spend = ctx.spend
      BY <1>1, AcceptType, AcceptKeeps
    <3> QED BY <1>2, <3>2, <3>3
  <2>2. ASSUME LoopRaises \/ ReprofileFails \/ ApplyInterrupted \/ SweepInterrupted
        PROVE  ctx'.spend = ctx.spend /\ pc' = "abort" /\ UNCHANGED config
    <3>1. Abort(ctx)
      BY <2>2 DEF LoopRaises, ReprofileFails, ApplyInterrupted, SweepInterrupted
    <3> QED BY <1>1, <1>2, <3>1
  <2>3. ctx'.spend = ctx.spend /\ pc' = "abort" /\ UNCHANGED config
    BY <1>4, <2>1, <2>2 DEF Fault
  <2> QED BY <1>1, <1>3, <2>3, LedgerStep DEF Frugal, LoopPhases, Closed, Checked
<1> QED BY <1>4, <1>5

(* The baseline costs nothing; the closing summary is one more call.           *)
LEMMA LedgerConclude ==
    ASSUME LoopAssumption, LedgerInv, Conclude PROVE LedgerInv'
<1>1. TypeOK /\ TypeOK' /\ ctx \in Context
  BY ConcludeType DEF LedgerInv, TypeOK
<1>2. CASE MeasureBaseline
  <2>1. PICK v \in Scores :
          ctx' = Logged([ctx EXCEPT !.best_value = v, !.baseline_val = v], "baseline")
    BY <1>2 DEF MeasureBaseline
  <2>2. ctx'.spend = ctx.spend /\ ctx'.iteration = ctx.iteration
    BY <1>1, <2>1 DEF Logged, Context
  <2>3. /\ pc = "baseline" /\ pc' = "top" /\ UNCHANGED config
        /\ ws' = [ws EXCEPT !.built = ProgramIn(ws)]
    BY <1>2 DEF MeasureBaseline
  <2>4. ws'.tests = ws.tests
    BY <1>1, <2>3 DEF TypeOK, Workspace
  <2>5. TestsInv' /\ StateJsonCurrent'
    BY <2>2, <2>3, <2>4 DEF LedgerInv, TestsInv, StateJsonCurrent, Checked
  <2>6. SpendInv'
    BY <1>1, <2>2, <2>3, FrugalStep DEF LedgerInv, Frugal
  <2> QED BY <1>1, <2>3, <2>5, <2>6 DEF LedgerInv
<1>3. CASE BaselineFails
  <2>1. UNCHANGED <<config, ctx>> /\ pc = "baseline" /\ pc' = "raised"
    BY <1>3 DEF BaselineFails
  <2> QED BY <1>1, <2>1, LedgerStep DEF Frugal, Checked
<1>4. CASE Finalize \/ FinalizeRaises \/ FinalizeAfterCrash
  <2>1. /\ UNCHANGED config /\ pc \in {"finalize", "abort"} /\ pc' \in Closed
        /\ ctx' \in Summarised(ctx)
    BY <1>4 DEF Finalize, FinalizeRaises, FinalizeAfterCrash, Closed
  <2>2. PICK cost \in 0 .. MaxCallCost : ctx'.spend = ctx.spend + cost
    <3>1. ctx.spend \in Nat /\ 0 \in 0 .. MaxCallCost
      BY <1>1 DEF Context, LoopAssumption
    <3>2. CASE ctx' = ctx
      BY <3>1, <3>2
    <3>3. CASE \E cost \in 0 .. MaxCallCost : ctx' = [ctx EXCEPT !.spend = @ + cost]
      BY <1>1, <3>3 DEF Context
    <3> QED BY <2>1, <3>2, <3>3 DEF Summarised
  <2>3. SpendInv'
    <3>1. /\ ctx.spend \in Nat /\ cost \in Nat /\ cost <= MaxCallCost
          /\ MaxCallCost \in Nat /\ config.max_cost \in Nat
      BY <1>1 DEF TypeOK, Context, LoopAssumption, Config
    <3>2. config.max_cost > 0 => ctx.spend < config.max_cost + AnswerCost
      BY <2>1 DEF LedgerInv, SpendInv, Closed
    <3>3. AnswerCost \in Nat /\ AnswerCost' = AnswerCost
      BY <2>1, AnswerCostType DEF AnswerCost, CallsPerAnswer
    <3>4. \A spent, paid, limit, most, call \in Nat :
              spent < limit + most /\ paid <= call => spent + paid < limit + most + call
      OBVIOUS
    <3>5. config'.max_cost > 0 => ctx'.spend < config'.max_cost + AnswerCost' + MaxCallCost
      BY <2>1, <2>2, <3>1, <3>2, <3>3, <3>4
    <3> QED BY <2>1, <3>5 DEF SpendInv, Frugal, Closed, LoopPhases
  <2>4. TestsInv' /\ StateJsonCurrent' /\ pc' # "baseline"
    BY <2>1 DEF TestsInv, StateJsonCurrent, Closed, Checked
  <2> QED BY <1>1, <2>3, <2>4 DEF LedgerInv
<1> QED BY <1>2, <1>3, <1>4 DEF Conclude

(* The ledger holds of every reachable state.                                  *)
THEOREM LedgerInvariant == Spec => []LedgerInv
<1> USE LoopAssumption
<1>1. Init => LedgerInv
  <2> SUFFICES ASSUME Init PROVE LedgerInv
    OBVIOUS
  <2>1. TypeOK
    BY InitType
  <2>2. config.max_cost \in Nat /\ MaxCallCost \in Nat /\ AnswerCost \in Nat
    BY <2>1, AnswerCostType DEF TypeOK, LoopAssumption, Config
  <2> QED BY <2>1, <2>2 DEF Init, LedgerInv, SpendInv, TestsInv, StateJsonCurrent, Frugal
<1>2. LedgerInv /\ [Next]_vars => LedgerInv'
  <2>1. CASE LedgerInv /\ (Ended \/ UNCHANGED vars)
    BY <2>1 DEF Ended, vars, LedgerInv, TypeOK, SpendInv, TestsInv, StateJsonCurrent,
                OverBudget, Snapshot, AnswerCost, CallsPerAnswer
  <2> QED BY <2>1, LedgerIterate, LedgerSweep, LedgerFault, LedgerConclude DEF Next
<1> QED BY <1>1, <1>2, PTL DEF Spec

(* Whatever the limit, the prices, the turns and the iterations: no candidate  *)
(* is judged over budget, and the run overshoots it by less than the calls of  *)
(* one iteration (run_tool_loop) and the closing summary.                      *)
THEOREM BudgetKept == Spec => []SpendBounded
<1>1. LedgerInv => SpendBounded
  BY DEF LedgerInv, SpendInv, SpendBounded, Frugal, LoopPhases
<1> QED BY <1>1, LedgerInvariant, PTL

(* No branch of the loop starts the next iteration with an old state.json.     *)
THEOREM StateJsonKept == Spec => []StateJsonCurrent
<1>1. LedgerInv => StateJsonCurrent
  BY DEF LedgerInv
<1> QED BY <1>1, LedgerInvariant, PTL

(* Without tools, no candidate is ever judged by tests the accepted code has   *)
(* rewritten, wherever in the iteration before it ran.                         *)
THEOREM TestsRestored == Spec => []JudgedOnOriginalTests
<1>1. LedgerInv => JudgedOnOriginalTests
  BY DEF LedgerInv, TestsInv, JudgedOnOriginalTests, Checked
<1> QED BY <1>1, LedgerInvariant, PTL

-----------------------------------------------------------------------------
(* What a run says of itself.  A healthy run that was derailed is on its way   *)
(* out, and only finalize calls a run completed, with the workspace as the     *)
(* last iteration left it.                                                     *)

Sealed ==
    /\ pc \in Closed
    /\ ws.built = ProgramIn(ws)
    /\ ~config.disk_faults => ~ghost.derailed
    /\ ~config.disk_faults /\ ~config.tools => ws.tests = "original"

IntactInv ==
    /\ ~config.disk_faults /\ ghost.derailed => pc \in Lost
    /\ run_dir.status = "completed" => Sealed

(* Inside the loop nobody writes the status, and on a healthy disk the only    *)
(* way to be derailed there is to crash.                                       *)
LEMMA IntactInside ==
    ASSUME LoopAssumption, TypeOK, IntactInv, Iterate \/ Sweep \/ Fault
    PROVE  IntactInv'
<1> USE DEF TypeOK
<1>1. /\ UNCHANGED config /\ run_dir'.status = run_dir.status
      /\ ghost'.derailed = ghost.derailed \/ config.disk_faults \/ pc' \in Lost
      /\ pc \in LoopPhases
  <2>1. CASE Iterate
    <3>1. \A c \in Context : CloseIteration(c) => run_dir'.status = run_dir.status
      BY DEF CloseIteration, StateWrites, RunDir
    <3>2. EndIteration => run_dir'.status = run_dir.status
      BY <3>1, RecordImprovementType, RecordFailureType DEF EndIteration, Round
    <3>3. NoCandidates => run_dir'.status = run_dir.status
      <4>1. Logged(ctx, "no candidates") \in Context
        BY LoggedType DEF Kinds
      <4>2. RecordFailure(Logged(ctx, "no candidates")) \in Context
        BY <4>1, RecordFailureType
      <4> QED BY <3>1, <4>2 DEF NoCandidates
    <3>4. ghost'.derailed = ghost.derailed
      BY <2>1 DEF Iterate, IterationsExhausted, StartIteration, WallClockExceeded,
                  LLMAnswers, LLMFails, CostLimitReached, SkipIteration, NoCandidates,
                  HasCandidates, AcceptBest, RejectAll, ProtectBeforeSweep, Reprofile,
                  DriftIgnored, BaselineRemeasured, EndIteration, Promoted, Ghost
    <3>5. UNCHANGED config /\ pc \in LoopPhases
      BY <2>1 DEF Iterate, IterationsExhausted, StartIteration, WallClockExceeded,
                  LLMAnswers, LLMFails, CostLimitReached, SkipIteration, NoCandidates,
                  HasCandidates, AcceptBest, RejectAll, ProtectBeforeSweep, Reprofile,
                  DriftIgnored, BaselineRemeasured, EndIteration, LoopPhases
    <3>6. run_dir'.status = run_dir.status
      BY <2>1, <3>2, <3>3
         DEF Iterate, IterationsExhausted, StartIteration, WallClockExceeded, LLMAnswers,
             LLMFails, CostLimitReached, SkipIteration, HasCandidates, AcceptBest,
             RejectAll, ProtectBeforeSweep, Reprofile, DriftIgnored, BaselineRemeasured,
             StateWrites, RunDir
    <3> QED BY <3>4, <3>5, <3>6
  <2>2. CASE Sweep
    BY <2>2 DEF Sweep, NothingToSweep, StartSweep, TrialRejected, TrialMeasured,
                SweepAborts, SweepFindsBetter, SweepKeepsOriginal, RestoreTuning,
                LoopPhases, Ghost
  <2>3. CASE Fault
    BY <2>3 DEF Fault, LoopRaises, AnswerLost, ReprofileFails, ApplyInterrupted,
                AcceptInterrupted, SweepInterrupted, Abort, Lost, LoopPhases
  <2> QED BY <2>1, <2>2, <2>3
<1>2. run_dir.status # "completed"
  BY <1>1 DEF IntactInv, Sealed, Closed, LoopPhases
<1>3. ~config.disk_faults => ~ghost.derailed
  BY <1>1 DEF IntactInv, Lost, LoopPhases
<1> QED BY <1>1, <1>2, <1>3 DEF IntactInv

(* finalize finds the binary current and the protected files verified.         *)
LEMMA IntactConclude ==
    ASSUME IncumbentInv, LedgerInv, IntactInv, Conclude
    PROVE  IntactInv'
<1> USE DEF IntactInv
<1>1. TypeOK /\ run_dir.status # "completed"
  BY DEF LedgerInv, Sealed, Closed, Conclude, MeasureBaseline, BaselineFails, Finalize,
         FinalizeRaises, FinalizeAfterCrash
<1>2. CASE MeasureBaseline \/ BaselineFails \/ FinalizeRaises
  <2>1. UNCHANGED <<config, run_dir, ghost>> /\ pc \in {"baseline", "finalize"}
    BY <1>2 DEF MeasureBaseline, BaselineFails, FinalizeRaises
  <2> QED BY <1>1, <2>1 DEF Lost
<1>3. CASE Finalize
  <2>1. UNCHANGED <<config, ws, ghost>> /\ pc = "finalize" /\ pc' \in Closed
    BY <1>3 DEF Finalize, Closed
  <2>2. ws.built = ProgramIn(ws)
    BY <2>1 DEF IncumbentInv, BinaryIsCurrent
  <2>3. ~config.disk_faults => ~ghost.derailed
    BY <2>1 DEF Lost
  <2>4. ~config.disk_faults /\ ~config.tools => ws.tests = "original"
    BY <2>1 DEF LedgerInv, TestsInv, Checked
  <2> QED BY <2>1, <2>2, <2>3, <2>4 DEF Sealed, ProgramIn
<1>4. CASE FinalizeAfterCrash
  <2>1. run_dir'.status # "completed" /\ pc' \in Lost
    BY <1>1, <1>4 DEF FinalizeAfterCrash, TypeOK, RunDir, Lost
  <2> QED BY <2>1
<1> QED BY <1>2, <1>3, <1>4 DEF Conclude

(* Whatever the faults short of a failing disk: a run that says completed ends *)
(* with the program of its score, its binary, its sweep section and, without   *)
(* tools, its tests.                                                           *)
THEOREM CompletedRunsAreIntact == Spec => []CompletedIsIntact
<1> USE LoopAssumption
<1>1. Init => IntactInv
  BY DEF Init, IntactInv
<1>2. IncumbentInv /\ LedgerInv /\ IntactInv /\ [Next]_vars => IntactInv'
  <2>1. CASE IntactInv /\ (Ended \/ UNCHANGED vars)
    BY <2>1 DEF Ended, vars, IntactInv, Sealed, ProgramIn
  <2>2. LedgerInv => TypeOK
    BY DEF LedgerInv
  <2> QED BY <2>1, <2>2, IntactInside, IntactConclude DEF Next
<1>3. IncumbentInv /\ IntactInv => CompletedIsIntact
  BY DEF IncumbentInv, BestDescribesWorkspace, SweepSectionSurvives, IncumbentProgram,
         IntactInv, Sealed, Closed, CompletedIsIntact
<1> QED BY <1>1, <1>2, <1>3, IncumbentInvariant, LedgerInvariant, PTL DEF Spec

-----------------------------------------------------------------------------
(* The history and the convergence detector.                                   *)

(* Appending to the history changes nothing else.                              *)
LEMMA LoggedFields ==
    ASSUME LoopAssumption, NEW c \in Context, NEW kind \in Kinds
    PROVE  /\ Logged(c, kind).history =
                Append(c.history, [iteration |-> c.iteration, kind |-> kind])
           /\ [iteration |-> c.iteration, kind |-> kind] \in Entry
           /\ Logged(c, kind).failures = c.failures
           /\ Logged(c, kind).recent = c.recent
           /\ Logged(c, kind).stop = c.stop
           /\ Logged(c, kind).iteration = c.iteration
           /\ Logged(c, kind).best_iter = c.best_iter
           /\ Logged(c, kind).accepted_count = c.accepted_count
BY DEF Logged, Context, Entry, LoopAssumption

(* The detector counts a failure, and forgets them all at an improvement.      *)
LEMMA DetectorFields ==
    ASSUME NEW c \in Context, NEW gain \in Gains
    PROVE  /\ RecordFailure(c).history = c.history
           /\ RecordFailure(c).stop = c.stop
           /\ RecordFailure(c).iteration = c.iteration
           /\ RecordFailure(c).best_iter = c.best_iter
           /\ RecordFailure(c).accepted_count = c.accepted_count
           /\ config.early_stop => RecordFailure(c).failures = c.failures + 1
           /\ RecordImprovement(c, gain).history = c.history
           /\ RecordImprovement(c, gain).stop = c.stop
           /\ RecordImprovement(c, gain).iteration = c.iteration
           /\ RecordImprovement(c, gain).best_iter = c.best_iter
           /\ RecordImprovement(c, gain).accepted_count = c.accepted_count
           /\ config.early_stop => RecordImprovement(c, gain).failures = 0
BY DEF Context, RecordFailure, RecordImprovement

(* The end of an iteration either goes on, or says why it does not, or is lost *)
(* to an exception.                                                            *)
LEMMA CloseFields ==
    ASSUME LoopAssumption, NEW c \in Context, CloseIteration(c)
    PROVE  \/ pc' = "top" /\ ctx' = c /\ ~ShouldStop(c)
           \/ /\ pc' = "finalize" /\ ShouldStop(c) /\ ctx'.stop = "converged"
              /\ ctx'.history =
                   Append(c.history, [iteration |-> c.iteration, kind |-> "early stop"])
              /\ ctx'.recent = c.recent /\ ctx'.iteration = c.iteration
              /\ ctx'.best_iter = c.best_iter /\ ctx'.accepted_count = c.accepted_count
           \/ /\ pc' = "abort" /\ ctx'.history = c.history
              /\ ctx'.recent = c.recent /\ ctx'.iteration = c.iteration
              /\ ctx'.best_iter = c.best_iter /\ ctx'.accepted_count = c.accepted_count
              /\ \/ c.stop = "none" => ctx'.stop = "crashed"
                 \/ ShouldStop(c) /\ ctx'.stop = "converged"
<1> DEFINE d == [c EXCEPT !.stop = "converged"]
<1>1. /\ d \in Context /\ d.stop = "converged" /\ d.history = c.history
      /\ d.recent = c.recent /\ d.iteration = c.iteration
      /\ d.best_iter = c.best_iter /\ d.accepted_count = c.accepted_count
  BY DEF Context, Stops
<1>2. \/ pc' = "top" /\ ctx' = c /\ ~ShouldStop(c)
      \/ pc' = "finalize" /\ ShouldStop(c) /\ ctx' = Logged(d, "early stop")
      \/ pc' = "abort" /\ ShouldStop(c) /\ ctx' = d
      \/ pc' = "abort" /\ ctx' = Crashed(c)
  BY DEF CloseIteration
<1>5. /\ Crashed(c).history = c.history /\ Crashed(c).recent = c.recent
      /\ Crashed(c).iteration = c.iteration /\ Crashed(c).best_iter = c.best_iter
      /\ Crashed(c).accepted_count = c.accepted_count
      /\ c.stop = "none" => Crashed(c).stop = "crashed"
  BY DEF Crashed, Context
<1>3. "early stop" \in Kinds
  BY DEF Kinds
<1> HIDE DEF d
<1>4. /\ Logged(d, "early stop").history =
           Append(d.history, [iteration |-> d.iteration, kind |-> "early stop"])
      /\ Logged(d, "early stop").stop = d.stop
      /\ Logged(d, "early stop").recent = d.recent
      /\ Logged(d, "early stop").iteration = d.iteration
      /\ Logged(d, "early stop").best_iter = d.best_iter
      /\ Logged(d, "early stop").accepted_count = d.accepted_count
  BY <1>1, <1>3, LoggedFields
<1> QED BY <1>1, <1>2, <1>4, <1>5

(* Appending adds the entry at the end.                                        *)
LEMMA AppendFacts ==
    ASSUME NEW h \in Seq(Entry), NEW e \in Entry
    PROVE  /\ Append(h, e) \in Seq(Entry)
           /\ Len(Append(h, e)) = Len(h) + 1 /\ Len(h) \in Nat
           /\ DOMAIN Append(h, e) = 1 .. Len(h) + 1 /\ DOMAIN h = 1 .. Len(h)
           /\ Append(h, e)[Len(h) + 1] = e
           /\ \A i \in 1 .. Len(h) : Append(h, e)[i] = h[i]
OBVIOUS

(* The last k entries of a history are idle, and the one before them is not.   *)
TailIs(h, k) ==
    /\ k \in Nat /\ k < Len(h)
    /\ h[Len(h) - k].kind \notin Idle
    /\ \A i \in Len(h) - k + 1 .. Len(h) : h[i].kind \in Idle

(* An idle entry lengthens the tail.                                           *)
LEMMA TailGrows ==
    ASSUME NEW h \in Seq(Entry), NEW k, TailIs(h, k), NEW e \in Entry, e.kind \in Idle
    PROVE  TailIs(Append(h, e), k + 1)
<1> DEFINE g == Append(h, e)
<1>1. /\ Len(g) = Len(h) + 1 /\ Len(h) \in Nat /\ g[Len(h) + 1] = e
      /\ \A i \in 1 .. Len(h) : g[i] = h[i]
  BY AppendFacts
<1> DEFINE n == Len(h)
<1> HIDE DEF g
<1>2. n \in Nat /\ k \in Nat /\ k < n /\ n - k \in 1 .. n /\ Len(g) = n + 1
  BY <1>1 DEF TailIs
<1>3. g[n - k].kind \notin Idle
  BY <1>1, <1>2 DEF TailIs
<1>4. \A i \in n - k + 1 .. n + 1 : g[i].kind \in Idle
  <2> TAKE i \in n - k + 1 .. n + 1
  <2>1. CASE i = n + 1
    BY <1>1, <2>1
  <2>2. CASE i # n + 1
    <3>1. i \in 1 .. n /\ i \in n - k + 1 .. n
      BY <1>2, <2>2
    <3> QED BY <1>1, <3>1 DEF TailIs
  <2> QED BY <2>1, <2>2
<1>5. TailIs(g, k + 1)
  <2>1. k + 1 \in Nat /\ k + 1 < n + 1 /\ n + 1 - (k + 1) = n - k
    BY <1>2
  <2> HIDE DEF n
  <2> QED BY <1>2, <1>3, <1>4, <2>1 DEF TailIs
<1> QED BY <1>5 DEF g

(* Any other entry starts a new one.                                           *)
LEMMA TailStarts ==
    ASSUME NEW h \in Seq(Entry), NEW e \in Entry, e.kind \notin Idle
    PROVE  TailIs(Append(h, e), 0)
BY AppendFacts DEF TailIs

(* What early stopping rests on: the detector's counter is the length of the   *)
(* idle tail, up to the entry of the iteration being closed.                   *)
Working == {"top", "generate", "cost", "judge"}

Tuning == {"protect", "autotune", "sweeping", "reprofile", "drift"}

IdleTail(h, last) ==
    /\ last >= MaxFailures
    /\ \A i \in last - MaxFailures + 1 .. last : h[i].kind \in Idle

SaysWhy ==
    LET n == Len(ctx.history)
        stopped == ctx.history[n].kind = "early stop"
    IN  ctx.stop = "converged" =>
            /\ n > 0
            /\ stopped \/ pc \in Lost
            /\ \/ ctx.recent = <<"tiny", "tiny">>
               \/ stopped /\ IdleTail(ctx.history, n - 1)
               \/ ~stopped /\ IdleTail(ctx.history, n)

Counts ==
    config.early_stop =>
        /\ pc \in Working => TailIs(ctx.history, ctx.failures) /\ ctx.failures < MaxFailures
        /\ pc \in Tuning \/ (pc = "verify" /\ round.accepted) => TailIs(ctx.history, 0)
        /\ pc = "verify" /\ ~round.accepted =>
              TailIs(ctx.history, ctx.failures + 1) /\ ctx.failures < MaxFailures

DetectorInv ==
    /\ TypeOK
    /\ pc = "baseline" => ctx.history = <<>> /\ ctx.failures = 0
    /\ pc \in LoopPhases \cup {"baseline"} => ctx.stop = "none"
    /\ pc \in {"generate", "cost", "judge"} => ~round.accepted
    /\ pc \in Tuning => round.accepted
    /\ Counts
    /\ SaysWhy

(* The detector stops a run exactly when the tail is that long.                *)
LEMMA CountsStop ==
    ASSUME LoopAssumption, NEW h \in Seq(Entry), NEW f \in Nat, TailIs(h, f)
    PROVE  /\ f < MaxFailures => ~IdleTail(h, Len(h))
           /\ f >= MaxFailures => IdleTail(h, Len(h))
<1>1. MaxFailures \in Nat \ {0} /\ Len(h) \in Nat
  BY DEF LoopAssumption
<1>2. ASSUME f < MaxFailures, IdleTail(h, Len(h)) PROVE FALSE
  <2>1. Len(h) - f \in Len(h) - MaxFailures + 1 .. Len(h)
    BY <1>1, <1>2
  <2> QED BY <1>2, <2>1 DEF IdleTail, TailIs
<1>3. ASSUME f >= MaxFailures PROVE IdleTail(h, Len(h))
  BY <1>1, <1>3 DEF IdleTail, TailIs
<1> QED BY <1>2, <1>3

(* Closing an iteration with a truthful counter leaves it truthful.            *)
LEMMA CloseCounts ==
    ASSUME LoopAssumption, TypeOK, TypeOK', UNCHANGED <<config, round>>,
           NEW c \in Context, CloseIteration(c), c.stop = "none",
           config.early_stop => TailIs(c.history, c.failures)
    PROVE  DetectorInv'
<1>1. /\ c.history \in Seq(Entry) /\ c.failures \in Nat /\ MaxFailures \in Nat \ {0}
  BY DEF Context, LoopAssumption
<1>2. CASE pc' = "top" /\ ctx' = c /\ ~ShouldStop(c)
  <2>1. config.early_stop => c.failures < MaxFailures
    BY <1>1, <1>2 DEF ShouldStop
  <2>2. Counts' /\ SaysWhy'
    BY <1>2, <2>1 DEF Counts, SaysWhy, Working, Tuning
  <2> QED BY <1>2, <2>2 DEF DetectorInv, Tuning
<1>3. CASE /\ pc' = "finalize" /\ ShouldStop(c) /\ ctx'.stop = "converged"
           /\ ctx'.history =
                Append(c.history, [iteration |-> c.iteration, kind |-> "early stop"])
           /\ ctx'.recent = c.recent
  <2> DEFINE e == [iteration |-> c.iteration, kind |-> "early stop"]
             h == c.history
  <2>1. /\ e.kind = "early stop" /\ ctx'.history = Append(h, e) /\ h \in Seq(Entry)
        /\ e \in Entry
    BY <1>1, <1>3, LoggedFields DEF Kinds
  <2>2. \/ IdleTail(h, Len(h))
        \/ c.recent = <<"tiny", "tiny">>
    BY <1>1, <1>3, CountsStop DEF ShouldStop
  <2> HIDE DEF e, h
  <2>3. /\ Len(ctx'.history) = Len(h) + 1 /\ ctx'.history[Len(h) + 1] = e
        /\ Len(h) \in Nat /\ \A i \in 1 .. Len(h) : ctx'.history[i] = h[i]
    <3>1. Append(h, e)[Len(h) + 1] = e /\ Len(Append(h, e)) = Len(h) + 1
      BY <2>1, AppendFacts
    <3>2. Len(h) \in Nat /\ \A i \in 1 .. Len(h) : Append(h, e)[i] = h[i]
      BY <2>1, AppendFacts
    <3> QED BY <2>1, <3>1, <3>2
  <2>4. IdleTail(h, Len(h)) => IdleTail(ctx'.history, Len(h))
    BY <1>1, <2>3 DEF IdleTail
  <2>5. SaysWhy'
    <3> DEFINE g == ctx'.history
               n == Len(h)
    <3>1. Len(g) = n + 1 /\ g[n + 1] = e /\ n \in Nat
      BY <2>3
    <3>2. e.kind = "early stop"
      BY <2>1
    <3> HIDE DEF g, n
    <3>3. g[Len(g)].kind = "early stop"
      BY <3>1, <3>2, Zenon
    <3>4. Len(g) > 0 /\ Len(g) - 1 = n
      BY <3>1
    <3>5. Len(g) > 0 /\ Len(g) - 1 = n /\ g[Len(g)].kind = "early stop"
      BY <3>3, <3>4
    <3>6. /\ Len(ctx'.history) > 0 /\ Len(ctx'.history) - 1 = Len(h)
          /\ ctx'.history[Len(ctx'.history)].kind = "early stop"
      BY <3>5 DEF g, n
    <3>7. \/ IdleTail(ctx'.history, Len(ctx'.history) - 1)
          \/ ctx'.recent = <<"tiny", "tiny">>
      BY <1>3, <2>2, <2>4, <3>6
    <3> QED BY <3>6, <3>7 DEF SaysWhy, IdleTail
  <2>6. Counts'
    BY <1>3 DEF Counts, Working, Tuning
  <2> QED BY <1>3, <2>5, <2>6 DEF DetectorInv, LoopPhases, Tuning
<1>4. CASE /\ pc' = "abort" /\ ctx'.history = c.history /\ ctx'.recent = c.recent
           /\ ctx'.stop = "crashed" \/ (ShouldStop(c) /\ ctx'.stop = "converged")
  <2>1. SaysWhy'
    <3>1. CASE ctx'.stop = "crashed"
      BY <3>1 DEF SaysWhy
    <3>2. CASE ShouldStop(c)
      <4>1. Len(c.history) > 0 /\ TailIs(c.history, c.failures)
        BY <1>1, <3>2 DEF ShouldStop, TailIs
      <4>2. CASE c.recent = <<"tiny", "tiny">>
        BY <1>4, <4>1, <4>2 DEF SaysWhy, Lost
      <4>3. CASE c.failures >= MaxFailures
        <5>1. IdleTail(c.history, Len(c.history))
          BY <1>1, <4>1, <4>3, CountsStop
        <5>2. c.history[Len(c.history)].kind \in Idle
          BY <1>1, <4>1, <5>1 DEF IdleTail
        <5>3. c.history[Len(c.history)].kind # "early stop"
          BY <5>2 DEF Idle
        <5>4. IdleTail(ctx'.history, Len(ctx'.history)) /\ pc' \in Lost
          BY <1>4, <5>1 DEF IdleTail, Lost
        <5> QED BY <1>4, <4>1, <5>1, <5>3, <5>4 DEF SaysWhy, IdleTail
      <4> QED BY <3>2, <4>2, <4>3 DEF ShouldStop
    <3> QED BY <1>4, <3>1, <3>2
  <2>2. Counts'
    BY <1>4 DEF Counts, Working, Tuning
  <2> QED BY <1>4, <2>1, <2>2 DEF DetectorInv, LoopPhases, Tuning
<1> QED BY <1>2, <1>3, <1>4, CloseFields

(* Steps that write neither history nor detector, within the part of the loop  *)
(* before the accept or within the part after it.                              *)
LEMMA DetectorQuiet ==
    ASSUME LoopAssumption, DetectorInv, TypeOK', UNCHANGED config,
           ctx'.history = ctx.history, ctx'.failures = ctx.failures, ctx'.stop = ctx.stop,
           \/ pc \in Working /\ pc' \in Working /\ (~round'.accepted \/ pc' = "top")
           \/ pc \in Tuning /\ pc' \in Tuning \cup {"verify"} /\ UNCHANGED round
    PROVE  DetectorInv'
<1>1. ctx.stop = "none"
  BY DEF DetectorInv, Working, Tuning, LoopPhases
<1>2. Counts'
  BY DEF DetectorInv, Counts, Working, Tuning
<1> QED BY <1>1, <1>2 DEF DetectorInv, SaysWhy, Working, Tuning, LoopPhases

(* Steps that leave the loop, and steps outside it.                            *)
LEMMA DetectorLeft ==
    ASSUME LoopAssumption, DetectorInv, TypeOK', pc' \notin LoopPhases \cup {"baseline"},
           \/ ctx'.stop # "converged"
           \/ /\ ctx'.history = ctx.history /\ ctx'.recent = ctx.recent
              /\ ctx'.stop = ctx.stop
              /\ pc \in Lost => pc' \in Lost
    PROVE  DetectorInv'
<1>1. SaysWhy'
  BY DEF DetectorInv, SaysWhy, IdleTail
<1>2. Counts'
  BY DEF Counts, Working, Tuning, LoopPhases
<1> QED BY <1>1, <1>2 DEF DetectorInv, Tuning, LoopPhases

(* The loop's own steps.                                                       *)
LEMMA DetectorIterate ==
    ASSUME LoopAssumption, DetectorInv, Iterate PROVE DetectorInv'
<1>1. TypeOK /\ TypeOK' /\ ctx \in Context /\ round \in Round
  BY IterateType DEF DetectorInv, TypeOK
<1>2. /\ ctx.history \in Seq(Entry) /\ ctx.failures \in Nat /\ MaxFailures \in Nat \ {0}
  BY <1>1 DEF Context, LoopAssumption
<1>3. CASE IterationsExhausted \/ WallClockExceeded \/ CostLimitReached
  <2>1. pc' \in {"finalize", "abort"} /\ pc \in {"top", "cost"}
    BY <1>3 DEF IterationsExhausted, WallClockExceeded, CostLimitReached
  <2>2. ctx.stop = "none"
    BY <2>1 DEF DetectorInv, LoopPhases
  <2>3. ctx'.stop # "converged"
    <3>1. CASE IterationsExhausted
      BY <2>2, <3>1 DEF IterationsExhausted
    <3>2. CASE WallClockExceeded
      BY <1>1, <2>2, <3>2 DEF WallClockExceeded, Logged, Context
    <3>3. CASE CostLimitReached
      BY <1>1, <3>3 DEF CostLimitReached, Logged, Context
    <3> QED BY <1>3, <3>1, <3>2, <3>3
  <2> QED BY <1>1, <2>1, <2>3, DetectorLeft DEF LoopPhases
<1>4. CASE StartIteration \/ LLMAnswers \/ LLMFails \/ SkipIteration \/ HasCandidates
  <2>1. /\ ctx'.history = ctx.history /\ ctx'.failures = ctx.failures
        /\ ctx'.stop = ctx.stop /\ UNCHANGED config
    BY <1>1, <1>4 DEF StartIteration, LLMAnswers, LLMFails, SkipIteration, HasCandidates,
                      Context
  <2>2. pc \in Working /\ pc' \in Working /\ (~round'.accepted \/ pc' = "top")
    BY <1>4 DEF StartIteration, LLMAnswers, LLMFails, SkipIteration, HasCandidates, Working,
                NoRound, DetectorInv
  <2> QED BY <1>1, <2>1, <2>2, DetectorQuiet
<1>5. CASE NoCandidates
  <2> DEFINE e == [iteration |-> ctx.iteration, kind |-> "no candidates"]
             c == RecordFailure(Logged(ctx, "no candidates"))
  <2>1. Logged(ctx, "no candidates") \in Context /\ "no candidates" \in Kinds
    BY <1>1, LoggedType DEF Kinds
  <2>2. /\ c \in Context /\ c.history = Append(ctx.history, e) /\ e \in Entry
        /\ c.stop = ctx.stop
        /\ config.early_stop => c.failures = ctx.failures + 1
    <3> DEFINE d == Logged(ctx, "no candidates")
    <3>1. /\ d \in Context /\ d.history = Append(ctx.history, e) /\ e \in Entry
          /\ d.stop = ctx.stop /\ d.failures = ctx.failures
      BY <1>1, <2>1, LoggedFields
    <3> HIDE DEF d
    <3>2. /\ RecordFailure(d) \in Context /\ RecordFailure(d).history = d.history
          /\ RecordFailure(d).stop = d.stop
          /\ config.early_stop => RecordFailure(d).failures = d.failures + 1
      BY <3>1, RecordFailureType, DetectorFields DEF Gains
    <3>3. c = RecordFailure(d)
      BY DEF d
    <3> HIDE DEF c, e
    <3> QED BY <3>1, <3>2, <3>3
  <2>3. CloseIteration(c) /\ UNCHANGED <<config, round>> /\ pc = "cost"
    BY <1>5 DEF NoCandidates
  <2>4. e.kind \in Idle
    BY DEF Idle
  <2> HIDE DEF c, e
  <2>5. c.stop = "none"
    BY <2>2, <2>3 DEF DetectorInv, LoopPhases
  <2>6. config.early_stop => TailIs(c.history, c.failures)
    BY <1>2, <2>2, <2>3, <2>4, TailGrows DEF DetectorInv, Counts, Working
  <2> QED BY <1>1, <2>2, <2>3, <2>5, <2>6, CloseCounts
<1>6. CASE AcceptBest
  <2>1. PICK v \in Scores : /\ ctx' = Recorded(v) /\ round'.accepted
                            /\ pc = "judge" /\ pc' = "protect" /\ UNCHANGED config
    BY <1>6 DEF AcceptBest
  <2>2. /\ Scored(v) \in Context /\ Logged(Scored(v), "accepted") \in Context
        /\ Scored(v).history = ctx.history /\ Scored(v).iteration = ctx.iteration
    BY <1>1, AcceptType DEF Scored, TypeOK, Context, Workspace
  <2> DEFINE e == [iteration |-> ctx.iteration, kind |-> "accepted"]
  <2>3. ctx'.history = Append(ctx.history, e) /\ e \in Entry /\ ctx'.stop = ctx.stop
    <3>1. Recorded(v).history = Logged(Scored(v), "accepted").history
      BY <2>2 DEF Recorded, Context
    <3>2. "accepted" \in Kinds
      BY DEF Kinds
    <3>3. /\ Logged(Scored(v), "accepted").history =
                Append(Scored(v).history,
                       [iteration |-> Scored(v).iteration, kind |-> "accepted"])
          /\ [iteration |-> Scored(v).iteration, kind |-> "accepted"] \in Entry
      BY <2>2, <3>2, LoggedFields
    <3>4. Recorded(v).stop = ctx.stop
      BY <1>1, AcceptKeeps
    <3> QED BY <2>1, <2>2, <3>1, <3>3, <3>4
  <2>4. e.kind \notin Idle
    BY DEF Idle
  <2> HIDE DEF e
  <2>5. TailIs(ctx'.history, 0) /\ ctx'.stop = "none"
    BY <1>2, <2>1, <2>3, <2>4, TailStarts DEF DetectorInv, LoopPhases
  <2>6. Counts' /\ SaysWhy'
    BY <2>1, <2>5 DEF Counts, SaysWhy, Working, Tuning
  <2> QED BY <1>1, <2>1, <2>5, <2>6 DEF DetectorInv
<1>7. CASE RejectAll
  <2> DEFINE e == [iteration |-> ctx.iteration, kind |-> "rejected"]
  <2>1. /\ ctx' = Logged(ctx, "rejected") /\ pc = "judge" /\ pc' = "verify"
        /\ UNCHANGED <<config, round>>
    BY <1>7 DEF RejectAll
  <2>2. /\ ctx'.history = Append(ctx.history, e) /\ e \in Entry /\ ctx'.stop = ctx.stop
        /\ ctx'.failures = ctx.failures
    BY <1>1, <2>1, LoggedFields DEF Kinds
  <2>3. e.kind \in Idle
    BY DEF Idle
  <2> HIDE DEF e
  <2>4. /\ ~round'.accepted /\ ctx'.stop = "none"
        /\ config.early_stop => TailIs(ctx'.history, ctx'.failures + 1)
                                /\ ctx'.failures < MaxFailures
    BY <1>2, <2>1, <2>2, <2>3, TailGrows DEF DetectorInv, Counts, Working, LoopPhases
  <2>5. Counts' /\ SaysWhy'
    BY <2>1, <2>4 DEF Counts, SaysWhy, Working, Tuning
  <2> QED BY <1>1, <2>1, <2>4, <2>5 DEF DetectorInv, Tuning
<1>8. CASE ProtectBeforeSweep \/ Reprofile \/ DriftIgnored \/ BaselineRemeasured
  <2>1. /\ ctx'.history = ctx.history /\ ctx'.failures = ctx.failures
        /\ ctx'.stop = ctx.stop /\ UNCHANGED config
    BY <1>1, <1>8 DEF ProtectBeforeSweep, Reprofile, DriftIgnored, BaselineRemeasured,
                      Context
  <2>2. pc \in Tuning /\ pc' \in Tuning \cup {"verify"} /\ UNCHANGED round
    BY <1>8 DEF ProtectBeforeSweep, Reprofile, DriftIgnored, BaselineRemeasured, Tuning
  <2> QED BY <1>1, <2>1, <2>2, DetectorQuiet
<1>9. CASE EndIteration
  <2> DEFINE c == IF round.accepted THEN RecordImprovement(ctx, round.gain)
                                    ELSE RecordFailure(ctx)
  <2>1. round.gain \in Gains
    BY <1>1 DEF Round
  <2>2. /\ c \in Context /\ c.history = ctx.history /\ c.stop = ctx.stop
        /\ config.early_stop => c.failures = IF round.accepted THEN 0 ELSE ctx.failures + 1
    BY <1>1, <2>1, RecordFailureType, RecordImprovementType, DetectorFields
  <2>3. CloseIteration(c) /\ UNCHANGED <<config, round>> /\ pc = "verify"
    BY <1>9 DEF EndIteration
  <2> HIDE DEF c
  <2>4. c.stop = "none"
    BY <2>2, <2>3 DEF DetectorInv, LoopPhases
  <2>5. config.early_stop => TailIs(c.history, c.failures)
    BY <2>2, <2>3 DEF DetectorInv, Counts
  <2> QED BY <1>1, <2>2, <2>3, <2>4, <2>5, CloseCounts
<1> QED BY <1>3, <1>4, <1>5, <1>6, <1>7, <1>8, <1>9 DEF Iterate

(* A sweep that wins starts a new tail, one that does not writes nothing.      *)
LEMMA DetectorSweep ==
    ASSUME LoopAssumption, DetectorInv, Sweep PROVE DetectorInv'
<1>1. TypeOK /\ TypeOK' /\ ctx \in Context
  BY SweepType DEF DetectorInv, TypeOK
<1>2. /\ UNCHANGED <<config, round>> /\ pc \in Tuning /\ pc' \in Tuning
  BY DEF Sweep, NothingToSweep, StartSweep, TrialRejected, TrialMeasured, SweepAborts,
         SweepFindsBetter, SweepKeepsOriginal, Tuning
<1>3. CASE SweepFindsBetter
  <2> DEFINE d == [ctx EXCEPT !.best_value = trial.best]
             e == [iteration |-> d.iteration, kind |-> "tuned"]
  <2>1. /\ d \in Context /\ d.history = ctx.history /\ d.stop = ctx.stop
        /\ ctx' = Logged(d, "tuned") /\ "tuned" \in Kinds
    BY <1>1, <1>3 DEF SweepFindsBetter, Context, TypeOK, Trial, Kinds
  <2> HIDE DEF d
  <2>2. ctx'.history = Append(ctx.history, e) /\ e \in Entry /\ ctx'.stop = ctx.stop
    BY <2>1, LoggedFields
  <2>3. e.kind \notin Idle /\ ctx.history \in Seq(Entry)
    BY <1>1 DEF Idle, Context
  <2> HIDE DEF e
  <2>4. TailIs(ctx'.history, 0) /\ ctx'.stop = "none" /\ round'.accepted
    BY <1>2, <2>2, <2>3, TailStarts DEF DetectorInv, LoopPhases, Tuning
  <2>5. Counts' /\ SaysWhy'
    BY <1>2, <2>4 DEF Counts, SaysWhy, Working, Tuning
  <2> QED BY <1>1, <1>2, <2>4, <2>5 DEF DetectorInv, Tuning
<1>4. CASE ~SweepFindsBetter
  <2>1. UNCHANGED ctx
    BY <1>4 DEF Sweep, NothingToSweep, StartSweep, TrialRejected, TrialMeasured, SweepAborts,
                SweepKeepsOriginal
  <2> QED BY <1>1, <1>2, <2>1, DetectorQuiet
<1> QED BY <1>3, <1>4

(* A run that crashes did not converge.                                        *)
LEMMA DetectorFault ==
    ASSUME LoopAssumption, DetectorInv, Fault PROVE DetectorInv'
<1>1. TypeOK /\ TypeOK' /\ ctx \in Context
  BY FaultType DEF DetectorInv, TypeOK
<1>2. ASSUME NEW c \in Context, Abort(c), c.stop = "none"
      PROVE  ctx'.stop = "crashed" /\ pc' = "abort"
  BY <1>2 DEF Abort, Crashed, Context
<1>3. ctx.stop = "none"
  BY DEF Fault, LoopRaises, AnswerLost, ReprofileFails, ApplyInterrupted, AcceptInterrupted,
         SweepInterrupted, LoopPhases, DetectorInv
<1>4. ctx'.stop = "crashed" /\ pc' = "abort"
  <2>1. CASE AcceptInterrupted
    <3>1. PICK v \in Scores, tuning \in Tunings, sweep \in BOOLEAN :
            \E c \in {ctx, Scored(v), Logged(Scored(v), "accepted"), Recorded(v)} : Abort(c)
      BY <2>1 DEF AcceptInterrupted
    <3>2. PICK c \in {ctx, Scored(v), Logged(Scored(v), "accepted"), Recorded(v)} : Abort(c)
      BY <3>1
    <3>3. c \in Context /\ c.stop = "none"
      BY <1>1, <1>3, AcceptType, AcceptKeeps
    <3> QED BY <1>2, <3>2, <3>3
  <2>2. CASE LoopRaises \/ ReprofileFails \/ ApplyInterrupted \/ SweepInterrupted
    <3>1. Abort(ctx)
      BY <2>2 DEF LoopRaises, ReprofileFails, ApplyInterrupted, SweepInterrupted
    <3> QED BY <1>1, <1>2, <1>3, <3>1
  <2>3. CASE AnswerLost
    <3>1. PICK cost \in 0 .. AnswerCost : Abort([ctx EXCEPT !.spend = @ + cost])
      BY <2>3 DEF AnswerLost
    <3>2. ctx.spend + cost \in Nat
      BY <1>1, AnswerCostType DEF Context
    <3>3. [ctx EXCEPT !.spend = @ + cost] \in Context
          /\ [ctx EXCEPT !.spend = @ + cost].stop = "none"
      BY <1>1, <1>3, <3>2 DEF Context
    <3> QED BY <1>2, <3>1, <3>3
  <2> QED BY <2>1, <2>2, <2>3 DEF Fault
<1> QED BY <1>1, <1>4, DetectorLeft DEF LoopPhases

(* The baseline is the first entry; finalize writes none.                      *)
LEMMA DetectorConclude ==
    ASSUME LoopAssumption, DetectorInv, Conclude PROVE DetectorInv'
<1>1. TypeOK /\ TypeOK' /\ ctx \in Context
  BY ConcludeType DEF DetectorInv, TypeOK
<1>2. CASE MeasureBaseline
  <2>1. PICK v \in Scores :
          ctx' = Logged([ctx EXCEPT !.best_value = v, !.baseline_val = v], "baseline")
    BY <1>2 DEF MeasureBaseline
  <2> DEFINE d == [ctx EXCEPT !.best_value = v, !.baseline_val = v]
             e == [iteration |-> d.iteration, kind |-> "baseline"]
  <2>2. /\ d \in Context /\ d.history = ctx.history /\ d.stop = ctx.stop
        /\ d.failures = ctx.failures /\ "baseline" \in Kinds /\ ctx' = Logged(d, "baseline")
    BY <1>1, <2>1 DEF Context, LoopAssumption, Kinds
  <2> HIDE DEF d
  <2>3. /\ ctx'.history = Append(ctx.history, e) /\ e \in Entry /\ ctx'.stop = ctx.stop
        /\ ctx'.failures = ctx.failures
    BY <2>2, LoggedFields
  <2>4. e.kind \notin Idle /\ ctx.history \in Seq(Entry)
    BY <1>1 DEF Idle, Context
  <2> HIDE DEF e
  <2>5. pc = "baseline" /\ pc' = "top" /\ UNCHANGED config
    BY <1>2 DEF MeasureBaseline
  <2>6. /\ TailIs(ctx'.history, 0) /\ ctx'.stop = "none" /\ ctx'.failures = 0
        /\ 0 < MaxFailures
    BY <2>3, <2>4, <2>5, TailStarts DEF DetectorInv, LoopAssumption
  <2>7. Counts' /\ SaysWhy'
    BY <2>5, <2>6 DEF Counts, SaysWhy, Working, Tuning
  <2> QED BY <1>1, <2>5, <2>6, <2>7 DEF DetectorInv, Tuning
<1>3. CASE BaselineFails
  BY <1>1, <1>3, DetectorLeft DEF BaselineFails, LoopPhases, Lost
<1>4. CASE Finalize \/ FinalizeRaises \/ FinalizeAfterCrash
  <2>1. /\ pc' \in {"returned", "raised"} /\ ctx' \in Summarised(ctx)
        /\ pc \in Lost => pc' \in Lost
    BY <1>4 DEF Finalize, FinalizeRaises, FinalizeAfterCrash, Lost
  <2>2. /\ ctx'.history = ctx.history /\ ctx'.recent = ctx.recent
        /\ ctx'.stop = ctx.stop
    BY <1>1, <2>1 DEF Summarised, Context
  <2> QED BY <1>1, <2>1, <2>2, DetectorLeft DEF LoopPhases
<1> QED BY <1>2, <1>3, <1>4 DEF Conclude

(* The counter is truthful in every reachable state.                           *)
THEOREM DetectorInvariant == Spec => []DetectorInv
<1> USE LoopAssumption
<1>1. Init => DetectorInv
  BY InitType DEF Init, DetectorInv, Counts, SaysWhy, Working, Tuning, LoopPhases
<1>2. DetectorInv /\ [Next]_vars => DetectorInv'
  <2>1. CASE DetectorInv /\ (Ended \/ UNCHANGED vars)
    BY <2>1 DEF Ended, vars, DetectorInv, TypeOK, Counts, SaysWhy, TailIs, IdleTail
  <2> QED BY <2>1, DetectorIterate, DetectorSweep, DetectorFault, DetectorConclude DEF Next
<1> QED BY <1>1, <1>2, PTL DEF Spec

(* For every patience and every tolerance: with early stopping on, no          *)
(* iteration starts after MaxFailures idle entries, and a run that says it     *)
(* converged had that many, or two tiny gains in a row, also when an exception *)
(* kept the history from saying so (maybe_early_stop).                         *)
THEOREM StopsWhenIdle == Spec => []EarlyStopHonoured
<1>1. DetectorInv => EarlyStopHonoured
  <2> SUFFICES ASSUME DetectorInv PROVE EarlyStopHonoured
    OBVIOUS
  <2> DEFINE h == ctx.history
  <2>1. h \in Seq(Entry) /\ ctx.failures \in Nat
    BY DEF DetectorInv, TypeOK, Context
  <2>2. pc \in {"top", "generate", "cost"} /\ config.early_stop => ~IdleTail(h, Len(h))
    BY <2>1, LoopAssumption, CountsStop DEF DetectorInv, Counts, Working
  <2> QED BY <2>2 DEF DetectorInv, SaysWhy, IdleTail, Lost, EarlyStopHonoured
<1> QED BY <1>1, DetectorInvariant, PTL

-----------------------------------------------------------------------------
(* The records of progress.  They agree because the iteration an accept is     *)
(* recorded for is later than that of every accept before it.                  *)

AcceptsIn(h) == {i \in DOMAIN h : h[i].kind = "accepted"}

IterationsIn(h) == {h[i].iteration : i \in AcceptsIn(h)}

Judging == {"generate", "cost", "judge"}

AcceptsAgree ==
    /\ ctx.accepted_count = Cardinality(AcceptsIn(ctx.history))
    /\ Cardinality(IterationsIn(ctx.history)) = Cardinality(AcceptsIn(ctx.history))
    /\ \A it \in IterationsIn(ctx.history) : it <= ctx.best_iter /\ it <= ctx.iteration
    /\ ctx.best_iter \in IterationsIn(ctx.history) \cup {0}
    /\ ctx.best_iter = 0 => AcceptsIn(ctx.history) = {}
    /\ ws.code = ctx.best_iter
    /\ pc \in Judging => /\ ctx.iteration > 0
                         /\ \A it \in IterationsIn(ctx.history) : it < ctx.iteration

RecordsInv == TypeOK /\ (~ghost.derailed => AcceptsAgree)

(* Only an accept adds to the accepts of a history.                            *)
LEMMA AppendAccepts ==
    ASSUME NEW h \in Seq(Entry), NEW e \in Entry
    PROVE  /\ e.kind = "accepted" =>
                /\ AcceptsIn(Append(h, e)) = AcceptsIn(h) \cup {Len(h) + 1}
                /\ IterationsIn(Append(h, e)) = IterationsIn(h) \cup {e.iteration}
           /\ e.kind # "accepted" =>
                /\ AcceptsIn(Append(h, e)) = AcceptsIn(h)
                /\ IterationsIn(Append(h, e)) = IterationsIn(h)
<1> DEFINE g == Append(h, e)
           n == Len(h)
<1>1. /\ n \in Nat /\ DOMAIN g = 1 .. n + 1 /\ DOMAIN h = 1 .. n /\ g[n + 1] = e
      /\ \A i \in 1 .. n : g[i] = h[i]
  BY AppendFacts
<1> HIDE DEF g, n
<1>2. /\ \A i \in AcceptsIn(h) : i \in 1 .. n /\ i \in AcceptsIn(g) /\ g[i] = h[i]
      /\ \A i \in AcceptsIn(g) : i # n + 1 => i \in AcceptsIn(h)
      /\ n + 1 \in AcceptsIn(g) <=> e.kind = "accepted"
  BY <1>1 DEF AcceptsIn
<1>3. CASE e.kind = "accepted"
  <2>1. AcceptsIn(g) = AcceptsIn(h) \cup {n + 1}
    BY <1>2, <1>3
  <2>2. IterationsIn(g) = IterationsIn(h) \cup {e.iteration}
    BY <1>1, <1>2, <2>1 DEF IterationsIn
  <2> QED BY <1>3, <2>1, <2>2 DEF g, n
<1>4. CASE e.kind # "accepted"
  <2>1. AcceptsIn(g) = AcceptsIn(h)
    BY <1>2, <1>4
  <2>2. IterationsIn(g) = IterationsIn(h)
    BY <1>2, <2>1 DEF IterationsIn
  <2> QED BY <1>4, <2>1, <2>2 DEF g
<1> QED BY <1>3, <1>4

(* The accepts of a history, and their iterations, are finitely many.          *)
LEMMA AcceptsFinite ==
    ASSUME NEW h \in Seq(Entry), NEW n \in Nat, \A it \in IterationsIn(h) : it <= n
    PROVE  /\ IsFiniteSet(AcceptsIn(h)) /\ Len(h) + 1 \notin AcceptsIn(h)
           /\ IsFiniteSet(IterationsIn(h)) /\ IterationsIn(h) \subseteq Nat
<1>1. Len(h) \in Nat /\ DOMAIN h = 1 .. Len(h) /\ \A i \in 1 .. Len(h) : h[i] \in Entry
  OBVIOUS
<1>2. AcceptsIn(h) \in SUBSET (1 .. Len(h))
  BY <1>1 DEF AcceptsIn
<1>3. IsFiniteSet(AcceptsIn(h))
  <2>1. IsFiniteSet(1 .. Len(h))
    BY <1>1, FS_Interval
  <2> QED BY <1>2, <2>1, FS_Subset
<1>4. IterationsIn(h) \in SUBSET Nat
  BY <1>1, <1>2 DEF IterationsIn, Entry
<1>5. IsFiniteSet(IterationsIn(h))
  BY <1>4, FS_BoundedSetOfNaturals
<1> QED BY <1>1, <1>2, <1>3, <1>4, <1>5

(* Steps that accept nothing and leave the code alone.                         *)
LEMMA RecordsQuiet ==
    ASSUME LoopAssumption, RecordsInv, TypeOK',
           ~ghost'.derailed => ~ghost.derailed /\ ws'.code = ws.code,
           AcceptsIn(ctx'.history) = AcceptsIn(ctx.history),
           IterationsIn(ctx'.history) = IterationsIn(ctx.history),
           ctx'.accepted_count = ctx.accepted_count,
           ctx'.best_iter = ctx.best_iter,
           \/ ctx'.iteration = ctx.iteration /\ (pc' \in Judging => pc \in Judging)
           \/ ctx'.iteration = ctx.iteration + 1
    PROVE  RecordsInv'
<1>1. ctx.iteration \in Nat
  BY DEF RecordsInv, TypeOK, Context, LoopAssumption
<1>2. ASSUME ~ghost'.derailed PROVE AcceptsAgree'
  <2>1. AcceptsAgree /\ ws'.code = ws.code
    BY <1>2 DEF RecordsInv
  <2>2. IterationsIn(ctx.history) \subseteq Nat
    <3>1. ctx.history \in Seq(Entry)
      BY DEF RecordsInv, TypeOK, Context
    <3> QED BY <1>1, <2>1, <3>1, AcceptsFinite DEF AcceptsAgree
  <2>3. /\ ctx'.iteration >= ctx.iteration
        /\ \A it \in IterationsIn(ctx.history) : it <= ctx'.iteration
    BY <1>1, <2>1, <2>2 DEF AcceptsAgree
  <2>4. pc' \in Judging => /\ ctx'.iteration > 0
                           /\ \A it \in IterationsIn(ctx.history) : it < ctx'.iteration
    BY <1>1, <2>1, <2>2 DEF AcceptsAgree
  <2> QED BY <2>1, <2>3, <2>4 DEF AcceptsAgree
<1> QED BY <1>2 DEF RecordsInv

(* Recording an accept for the iteration being judged keeps the records in     *)
(* step, whether or not the run goes on.                                       *)
LEMMA RecordsAccept ==
    ASSUME LoopAssumption, RecordsInv, TypeOK', pc = "judge", pc' \in {"protect", "abort"},
           NEW v \in Scores, NEW tuning \in Tunings, NEW sweep \in BOOLEAN,
           ws' = Patched(tuning, sweep), ~ghost'.derailed => ~ghost.derailed,
           ctx'.history = Recorded(v).history,
           ctx'.accepted_count = Recorded(v).accepted_count,
           ctx'.best_iter = Recorded(v).best_iter,
           ctx'.iteration = Recorded(v).iteration
    PROVE  RecordsInv'
<1> DEFINE h == ctx.history
           e == [iteration |-> ctx.iteration, kind |-> "accepted"]
<1>1. /\ h \in Seq(Entry) /\ ctx.iteration \in Nat /\ ctx.accepted_count \in Nat
      /\ e \in Entry /\ e.kind = "accepted" /\ e.iteration = ctx.iteration
  <2>1. /\ h \in Seq(Entry) /\ ctx.accepted_count \in Nat
        /\ ctx.iteration \in 0 .. MaxIters
    BY DEF RecordsInv, TypeOK, Context
  <2>2. ctx.iteration \in Nat
    BY <2>1 DEF LoopAssumption
  <2>3. e \in Entry
    BY <2>2 DEF Entry, Kinds
  <2> QED BY <2>1, <2>2, <2>3
<1>2. /\ ctx'.history = Append(h, e) /\ ctx'.accepted_count = ctx.accepted_count + 1
      /\ ctx'.best_iter = ctx.iteration /\ ctx'.iteration = ctx.iteration
  <2>1. TypeOK /\ Scored(v) \in Context /\ Logged(Scored(v), "accepted") \in Context
    BY AcceptType DEF RecordsInv, TypeOK, Workspace
  <2>2. /\ Scored(v).history = h /\ Scored(v).iteration = ctx.iteration
        /\ Scored(v).best_iter = ctx.iteration
        /\ Scored(v).accepted_count = ctx.accepted_count
    BY <2>1 DEF Scored, TypeOK, Context
  <2>3. "accepted" \in Kinds
    BY DEF Kinds
  <2> DEFINE d == Logged(Scored(v), "accepted")
  <2>4. /\ d.history = Append(h, e) /\ d.iteration = ctx.iteration
        /\ d.best_iter = ctx.iteration /\ d.accepted_count = ctx.accepted_count
        /\ d \in Context
    BY <2>1, <2>2, <2>3, LoggedFields
  <2>5. Recorded(v) = [d EXCEPT !.accepted_count = @ + 1]
    BY DEF Recorded
  <2> HIDE DEF d, e, h
  <2> QED BY <2>4, <2>5 DEF Context
<1>3. ws'.code = ctx.iteration
  BY DEF RecordsInv, TypeOK, Workspace, Patched
<1> HIDE DEF e, h
<1>4. ASSUME ~ghost'.derailed PROVE AcceptsAgree'
  <2>1. /\ AcceptsAgree /\ ctx.iteration > 0
        /\ \A it \in IterationsIn(h) : it < ctx.iteration
    BY <1>4 DEF RecordsInv, AcceptsAgree, Judging, h
  <2>2. /\ IsFiniteSet(AcceptsIn(h)) /\ Len(h) + 1 \notin AcceptsIn(h)
        /\ IsFiniteSet(IterationsIn(h)) /\ IterationsIn(h) \subseteq Nat
    <3>1. \A it \in IterationsIn(h) : it <= ctx.iteration
      BY <2>1 DEF AcceptsAgree, h
    <3> QED BY <1>1, <3>1, AcceptsFinite
  <2>3. /\ AcceptsIn(ctx'.history) = AcceptsIn(h) \cup {Len(h) + 1}
        /\ IterationsIn(ctx'.history) = IterationsIn(h) \cup {ctx.iteration}
    BY <1>1, <1>2, AppendAccepts
  <2>4. ctx.iteration \notin IterationsIn(h)
    BY <1>1, <2>1
  <2>5. /\ Cardinality(AcceptsIn(h) \cup {Len(h) + 1}) = Cardinality(AcceptsIn(h)) + 1
        /\ Cardinality(IterationsIn(h) \cup {ctx.iteration}) = Cardinality(IterationsIn(h)) + 1
    BY <2>2, <2>4, FS_AddElement
  <2>6. /\ ctx.accepted_count = Cardinality(AcceptsIn(h))
        /\ Cardinality(IterationsIn(h)) = Cardinality(AcceptsIn(h))
    BY <2>1 DEF AcceptsAgree, h
  <2>7. \A it \in IterationsIn(ctx'.history) : it <= ctx.iteration
    BY <1>1, <2>1, <2>2, <2>3
  <2>8. ctx'.best_iter # 0 /\ pc' \notin Judging
    BY <1>2, <2>1 DEF Judging
  <2> QED BY <1>1, <1>2, <1>3, <2>3, <2>5, <2>6, <2>7, <2>8 DEF AcceptsAgree
<1> QED BY <1>4 DEF RecordsInv

(* An entry that is not an accept leaves the accepts as they were.             *)
LEMMA LoggedAccepts ==
    ASSUME LoopAssumption, NEW c \in Context, NEW kind \in Kinds \ {"accepted"}
    PROVE  /\ AcceptsIn(Logged(c, kind).history) = AcceptsIn(c.history)
           /\ IterationsIn(Logged(c, kind).history) = IterationsIn(c.history)
           /\ Logged(c, kind).iteration = c.iteration
           /\ Logged(c, kind).best_iter = c.best_iter
           /\ Logged(c, kind).accepted_count = c.accepted_count
<1> DEFINE e == [iteration |-> c.iteration, kind |-> kind]
<1>1. /\ Logged(c, kind).history = Append(c.history, e) /\ e \in Entry
      /\ Logged(c, kind).iteration = c.iteration
      /\ Logged(c, kind).best_iter = c.best_iter
      /\ Logged(c, kind).accepted_count = c.accepted_count
  BY LoggedFields
<1>2. e.kind # "accepted" /\ c.history \in Seq(Entry)
  BY DEF Context
<1> HIDE DEF e
<1> QED BY <1>1, <1>2, AppendAccepts

(* The end of an iteration accepts nothing.                                    *)
LEMMA CloseAccepts ==
    ASSUME LoopAssumption, NEW c \in Context, CloseIteration(c)
    PROVE  /\ AcceptsIn(ctx'.history) = AcceptsIn(c.history)
           /\ IterationsIn(ctx'.history) = IterationsIn(c.history)
           /\ ctx'.iteration = c.iteration /\ ctx'.best_iter = c.best_iter
           /\ ctx'.accepted_count = c.accepted_count
           /\ pc' \in {"top", "finalize", "abort"}
<1> DEFINE e == [iteration |-> c.iteration, kind |-> "early stop"]
<1>1. e \in Entry /\ e.kind # "accepted" /\ c.history \in Seq(Entry)
  BY LoggedFields DEF Context, Kinds
<1>2. \/ pc' = "top" /\ ctx' = c
      \/ /\ pc' = "finalize" /\ ctx'.history = Append(c.history, e)
         /\ ctx'.iteration = c.iteration /\ ctx'.best_iter = c.best_iter
         /\ ctx'.accepted_count = c.accepted_count
      \/ /\ pc' = "abort" /\ ctx'.history = c.history
         /\ ctx'.iteration = c.iteration /\ ctx'.best_iter = c.best_iter
         /\ ctx'.accepted_count = c.accepted_count
  BY CloseFields
<1> HIDE DEF e
<1>3. CASE \/ pc' = "top" /\ ctx' = c
           \/ /\ pc' = "abort" /\ ctx'.history = c.history
              /\ ctx'.iteration = c.iteration /\ ctx'.best_iter = c.best_iter
              /\ ctx'.accepted_count = c.accepted_count
  BY <1>3
<1>4. CASE /\ pc' = "finalize" /\ ctx'.history = Append(c.history, e)
           /\ ctx'.iteration = c.iteration /\ ctx'.best_iter = c.best_iter
           /\ ctx'.accepted_count = c.accepted_count
  <2>1. /\ AcceptsIn(Append(c.history, e)) = AcceptsIn(c.history)
        /\ IterationsIn(Append(c.history, e)) = IterationsIn(c.history)
    BY <1>1, AppendAccepts
  <2> QED BY <1>4, <2>1
<1> QED BY <1>2, <1>3, <1>4

(* The loop's own steps.                                                       *)
LEMMA RecordsIterate ==
    ASSUME LoopAssumption, RecordsInv, Iterate PROVE RecordsInv'
<1>1. TypeOK /\ TypeOK' /\ ctx \in Context /\ ws \in Workspace
  BY IterateType DEF RecordsInv, TypeOK
<1>2. CASE IterationsExhausted \/ LLMAnswers \/ LLMFails \/ SkipIteration \/ HasCandidates
           \/ ProtectBeforeSweep \/ Reprofile \/ DriftIgnored \/ BaselineRemeasured
  <2>1. /\ ctx'.history = ctx.history /\ ctx'.accepted_count = ctx.accepted_count
        /\ ctx'.best_iter = ctx.best_iter /\ ctx'.iteration = ctx.iteration
    BY <1>1, <1>2 DEF IterationsExhausted, LLMAnswers, LLMFails, SkipIteration,
              HasCandidates, ProtectBeforeSweep, Reprofile, DriftIgnored,
              BaselineRemeasured, Context
  <2>2. ws' \in {ws} \cup Diagnosed(ws) \cup Verified(ws) \cup Executed(ws)
                \cup Executed(Rebuilt(ws))
    BY <1>2 DEF IterationsExhausted, LLMAnswers, LLMFails, SkipIteration, HasCandidates,
                ProtectBeforeSweep, Reprofile, DriftIgnored, BaselineRemeasured
  <2>3. ws'.code = ws.code
    BY <1>1, <2>2, WorkspaceFields, RebuiltFields
  <2>4. ghost'.derailed = ghost.derailed
    BY <1>1, <1>2 DEF IterationsExhausted, LLMAnswers, LLMFails, SkipIteration,
              HasCandidates, ProtectBeforeSweep, Reprofile, DriftIgnored,
              BaselineRemeasured, TypeOK, Ghost
  <2>5. pc' \in Judging => pc \in Judging
    BY <1>2 DEF IterationsExhausted, LLMAnswers, LLMFails, SkipIteration, HasCandidates,
                ProtectBeforeSweep, Reprofile, DriftIgnored, BaselineRemeasured, Judging
  <2> QED BY <1>1, <2>1, <2>3, <2>4, <2>5, RecordsQuiet
<1>3. CASE StartIteration
  <2>1. /\ ctx'.history = ctx.history /\ ctx'.accepted_count = ctx.accepted_count
        /\ ctx'.best_iter = ctx.best_iter /\ ctx'.iteration = ctx.iteration + 1
        /\ UNCHANGED <<ws, ghost>>
    BY <1>1, <1>3 DEF StartIteration, Context
  <2> QED BY <1>1, <2>1, RecordsQuiet
<1>4. CASE WallClockExceeded
  <2> DEFINE d == [ctx EXCEPT !.iteration = @ + 1]
  <2>1. ctx' = Logged(d, "early stop") /\ UNCHANGED <<ws, ghost>>
    BY <1>4 DEF WallClockExceeded
  <2>2. ctx.iteration + 1 \in 0 .. MaxIters
    <3>1. ctx.iteration \in 0 .. MaxIters /\ ctx.iteration < MaxIters
      BY <1>1, <1>4 DEF WallClockExceeded, Context
    <3> QED BY <3>1 DEF LoopAssumption
  <2>3. /\ d \in Context /\ d.history = ctx.history /\ d.iteration = ctx.iteration + 1
        /\ d.best_iter = ctx.best_iter /\ d.accepted_count = ctx.accepted_count
    BY <1>1, <2>2 DEF Context
  <2>4. "early stop" \in Kinds \ {"accepted"}
    BY DEF Kinds
  <2> HIDE DEF d
  <2>5. /\ AcceptsIn(ctx'.history) = AcceptsIn(ctx.history)
        /\ IterationsIn(ctx'.history) = IterationsIn(ctx.history)
        /\ ctx'.iteration = ctx.iteration + 1
        /\ ctx'.best_iter = ctx.best_iter /\ ctx'.accepted_count = ctx.accepted_count
    BY <2>1, <2>3, <2>4, LoggedAccepts
  <2> QED BY <1>1, <2>1, <2>5, RecordsQuiet
<1>9. CASE CostLimitReached /\ ctx' = [ctx EXCEPT !.stop = "cost"]
  <2>1. /\ ctx'.history = ctx.history /\ ctx'.accepted_count = ctx.accepted_count
        /\ ctx'.best_iter = ctx.best_iter /\ ctx'.iteration = ctx.iteration
    BY <1>1, <1>9 DEF Context
  <2>2. UNCHANGED <<ws, ghost>> /\ (pc' \in Judging => pc \in Judging)
    BY <1>9 DEF CostLimitReached, Judging
  <2> QED BY <1>1, <2>1, <2>2, RecordsQuiet
<1>5. CASE (CostLimitReached /\ ctx' # [ctx EXCEPT !.stop = "cost"]) \/ RejectAll
  <2>1. PICK d \in {ctx, [ctx EXCEPT !.stop = "cost"]}, kind \in {"early stop", "rejected"} :
          /\ ctx' = Logged(d, kind) /\ UNCHANGED <<ws, ghost>>
          /\ pc' \notin Judging
    BY <1>5 DEF CostLimitReached, RejectAll, Judging
  <2>2. /\ d \in Context /\ d.history = ctx.history /\ d.iteration = ctx.iteration
        /\ d.best_iter = ctx.best_iter /\ d.accepted_count = ctx.accepted_count
        /\ kind \in Kinds \ {"accepted"}
    BY <1>1, <2>1 DEF Context, Stops, Kinds
  <2>3. /\ AcceptsIn(ctx'.history) = AcceptsIn(ctx.history)
        /\ IterationsIn(ctx'.history) = IterationsIn(ctx.history)
        /\ ctx'.iteration = ctx.iteration
        /\ ctx'.best_iter = ctx.best_iter /\ ctx'.accepted_count = ctx.accepted_count
    <3>1. /\ AcceptsIn(Logged(d, kind).history) = AcceptsIn(d.history)
          /\ IterationsIn(Logged(d, kind).history) = IterationsIn(d.history)
          /\ Logged(d, kind).iteration = d.iteration
          /\ Logged(d, kind).best_iter = d.best_iter
          /\ Logged(d, kind).accepted_count = d.accepted_count
      BY <2>2, LoggedAccepts
    <3>2. ctx' = Logged(d, kind)
      BY <2>1
    <3> QED BY <2>2, <3>1, <3>2
  <2> QED BY <1>1, <2>1, <2>3, RecordsQuiet
<1>6. CASE NoCandidates
  <2> DEFINE d == Logged(ctx, "no candidates")
             c == RecordFailure(d)
  <2>1. "no candidates" \in Kinds \ {"accepted"}
    BY DEF Kinds
  <2>2. /\ d \in Context
        /\ AcceptsIn(d.history) = AcceptsIn(ctx.history)
        /\ IterationsIn(d.history) = IterationsIn(ctx.history)
        /\ d.iteration = ctx.iteration /\ d.best_iter = ctx.best_iter
        /\ d.accepted_count = ctx.accepted_count
    BY <1>1, <2>1, LoggedType, LoggedAccepts
  <2>3. CloseIteration(c) /\ UNCHANGED <<ws, ghost>>
    BY <1>6 DEF NoCandidates
  <2> HIDE DEF d
  <2>4. /\ c \in Context /\ c.history = d.history /\ c.iteration = d.iteration
        /\ c.best_iter = d.best_iter /\ c.accepted_count = d.accepted_count
    BY <2>2, RecordFailureType, DetectorFields DEF Gains
  <2> HIDE DEF c
  <2>5. /\ AcceptsIn(ctx'.history) = AcceptsIn(ctx.history)
        /\ IterationsIn(ctx'.history) = IterationsIn(ctx.history)
        /\ ctx'.iteration = ctx.iteration /\ ctx'.best_iter = ctx.best_iter
        /\ ctx'.accepted_count = ctx.accepted_count /\ pc' \notin Judging
    BY <2>2, <2>3, <2>4, CloseAccepts DEF Judging
  <2> QED BY <1>1, <2>3, <2>5, RecordsQuiet
<1>7. CASE AcceptBest
  <2>1. PICK v \in Scores, tuning \in Tunings, sweep \in BOOLEAN :
          /\ ws' = Patched(tuning, sweep) /\ ctx' = Recorded(v)
          /\ ghost' = Promoted(tuning, sweep)
    BY <1>7 DEF AcceptBest
  <2>2. pc = "judge" /\ pc' = "protect"
    BY <1>7 DEF AcceptBest
  <2>3. ghost'.derailed = ghost.derailed
    BY <1>1, <2>1 DEF Promoted, TypeOK, Ghost
  <2> QED BY <1>1, <2>1, <2>2, <2>3, RecordsAccept
<1>8. CASE EndIteration
  <2> DEFINE c == IF round.accepted THEN RecordImprovement(ctx, round.gain)
                                    ELSE RecordFailure(ctx)
  <2>1. round.gain \in Gains
    BY <1>1 DEF TypeOK, Round
  <2>2. /\ c \in Context /\ c.history = ctx.history /\ c.iteration = ctx.iteration
        /\ c.best_iter = ctx.best_iter /\ c.accepted_count = ctx.accepted_count
    BY <1>1, <2>1, RecordFailureType, RecordImprovementType, DetectorFields
  <2>3. CloseIteration(c) /\ ws' \in Verified(ws) /\ UNCHANGED ghost
    BY <1>8 DEF EndIteration
  <2> HIDE DEF c
  <2>4. /\ AcceptsIn(ctx'.history) = AcceptsIn(ctx.history)
        /\ IterationsIn(ctx'.history) = IterationsIn(ctx.history)
        /\ ctx'.iteration = ctx.iteration /\ ctx'.best_iter = ctx.best_iter
        /\ ctx'.accepted_count = ctx.accepted_count /\ pc' \notin Judging
    BY <2>2, <2>3, CloseAccepts DEF Judging
  <2>5. ws'.code = ws.code
    BY <1>1, <2>3, WorkspaceFields
  <2> QED BY <1>1, <2>3, <2>4, <2>5, RecordsQuiet
<1> QED BY <1>2, <1>3, <1>4, <1>5, <1>6, <1>7, <1>8, <1>9 DEF Iterate

(* A sweep changes the knobs, not the code, and accepts nothing.               *)
LEMMA RecordsSweep ==
    ASSUME LoopAssumption, RecordsInv, Sweep PROVE RecordsInv'
<1>1. TypeOK /\ TypeOK' /\ ctx \in Context /\ ws \in Workspace /\ trial \in Trial
  BY SweepType DEF RecordsInv, TypeOK
<1>2. pc' \notin Judging
  BY DEF Sweep, NothingToSweep, StartSweep, TrialRejected, TrialMeasured, SweepAborts,
         SweepFindsBetter, SweepKeepsOriginal, Judging
<1>3. /\ \A t \in Tunings : TrialFile(t) \in Workspace /\ TrialFile(t).code = ws.code
      /\ \A t \in Tunings : Tuned(t) \in Workspace /\ Tuned(t).code = ws.code
      /\ \A t \in Tunings : \A x \in Executed(Rebuilt(TrialFile(t))) :
            x \in Workspace /\ x.code = ws.code
  <2>1. ASSUME NEW t \in Tunings
        PROVE  /\ TrialFile(t) \in Workspace /\ TrialFile(t).code = ws.code
               /\ Tuned(t) \in Workspace /\ Tuned(t).code = ws.code
    BY <1>1, WorkspaceType DEF TrialFile, Tuned, Workspace
  <2>2. ASSUME NEW t \in Tunings, NEW x \in Executed(Rebuilt(TrialFile(t)))
        PROVE  x \in Workspace /\ x.code = ws.code
    <3>1. Rebuilt(TrialFile(t)) \in Workspace
      BY <2>1, WorkspaceType
    <3> QED BY <2>1, <3>1, WorkspaceType, RebuiltFields
  <2> QED BY <2>1, <2>2
<1>4. ASSUME NEW w \in Workspace, w.code = ws.code, RestoreTuning(w), UNCHANGED ctx
      PROVE  RecordsInv'
  <2>1. \/ ws'.code = ws.code /\ UNCHANGED ghost
        \/ ghost'.derailed
    BY <1>1, <1>4 DEF RestoreTuning, Workspace, TypeOK, Ghost
  <2> QED BY <1>1, <1>2, <1>4, <2>1, RecordsQuiet
<1>5. CASE NothingToSweep \/ StartSweep
  BY <1>1, <1>2, <1>5, RecordsQuiet DEF NothingToSweep, StartSweep
<1>6. ASSUME NEW t \in trial.todo, TrialRejected(t) \/ TrialMeasured(t) \/ SweepAborts(t)
      PROVE  RecordsInv'
  <2>1. t \in Tunings
    BY <1>1 DEF Trial
  <2>2. CASE TrialRejected(t) \/ TrialMeasured(t)
    <3>1. /\ ws' \in {TrialFile(t)} \cup Executed(Rebuilt(TrialFile(t)))
          /\ UNCHANGED <<ctx, ghost>>
      BY <2>2 DEF TrialRejected, TrialMeasured
    <3>2. ws'.code = ws.code
      BY <1>3, <2>1, <3>1
    <3> QED BY <1>1, <1>2, <3>1, <3>2, RecordsQuiet
  <2>3. CASE SweepAborts(t)
    <3>1. PICK w \in {ws, TrialFile(t)} \cup Executed(Rebuilt(TrialFile(t))) :
            RestoreTuning(w) /\ UNCHANGED ctx
      BY <2>3 DEF SweepAborts
    <3>2. w \in Workspace /\ w.code = ws.code
      BY <1>1, <1>3, <2>1, <3>1
    <3> QED BY <1>4, <3>1, <3>2
  <2> QED BY <1>6, <2>2, <2>3
<1>7. CASE SweepFindsBetter
  <2> DEFINE d == [ctx EXCEPT !.best_value = trial.best]
  <2>1. /\ d \in Context /\ d.history = ctx.history /\ d.iteration = ctx.iteration
        /\ d.best_iter = ctx.best_iter /\ d.accepted_count = ctx.accepted_count
    BY <1>1 DEF Context, Trial
  <2>2. ctx' = Logged(d, "tuned") /\ "tuned" \in Kinds \ {"accepted"}
    BY <1>7 DEF SweepFindsBetter, Kinds
  <2> HIDE DEF d
  <2>3. /\ AcceptsIn(ctx'.history) = AcceptsIn(ctx.history)
        /\ IterationsIn(ctx'.history) = IterationsIn(ctx.history)
        /\ ctx'.iteration = ctx.iteration
        /\ ctx'.best_iter = ctx.best_iter /\ ctx'.accepted_count = ctx.accepted_count
    BY <2>1, <2>2, LoggedAccepts
  <2>4. /\ ghost'.derailed = ghost.derailed
        /\ \E t \in trial.winner : ws' = Tuned(t)
    BY <1>1, <1>7 DEF SweepFindsBetter, TypeOK, Ghost
  <2>5. ws'.code = ws.code
    BY <1>1, <1>3, <2>4 DEF Trial
  <2> QED BY <1>1, <1>2, <2>3, <2>4, <2>5, RecordsQuiet
<1>8. CASE SweepKeepsOriginal
  <2>1. PICK w \in {ws} \cup {Tuned(t) : t \in trial.winner} :
          RestoreTuning(w) /\ UNCHANGED ctx
    BY <1>8 DEF SweepKeepsOriginal
  <2>2. w \in Workspace /\ w.code = ws.code
    BY <1>1, <1>3, <2>1 DEF Trial
  <2> QED BY <1>4, <2>1, <2>2
<1> QED BY <1>5, <1>6, <1>7, <1>8 DEF Sweep

(* A crash between the parts of an accept is told by the ghost; any other      *)
(* finds the records complete.                                                 *)
LEMMA RecordsFault ==
    ASSUME LoopAssumption, RecordsInv, Fault PROVE RecordsInv'
<1>1. TypeOK /\ TypeOK' /\ ctx \in Context /\ ws \in Workspace
  BY FaultType DEF RecordsInv, TypeOK
<1>2. ASSUME NEW c \in Context, Abort(c)
      PROVE  /\ ctx'.history = c.history /\ ctx'.iteration = c.iteration
             /\ ctx'.best_iter = c.best_iter /\ ctx'.accepted_count = c.accepted_count
             /\ pc' = "abort"
  BY <1>2 DEF Abort, Crashed, Context
<1>3. ASSUME ghost'.derailed PROVE RecordsInv'
  BY <1>1, <1>3 DEF RecordsInv
<1>4. CASE LoopRaises \/ ReprofileFails
  <2>1. /\ Abort(ctx) /\ UNCHANGED ghost
        /\ ws' \in {ws} \cup Executed(ws) \cup Diagnosed(ws) \cup Executed(Rebuilt(ws))
    BY <1>4 DEF LoopRaises, ReprofileFails
  <2>2. ws'.code = ws.code
    BY <1>1, <2>1, WorkspaceFields, RebuiltFields
  <2>3. pc' = "abort" /\ pc' \notin Judging
    BY <1>1, <1>2, <2>1 DEF Judging
  <2> QED BY <1>1, <1>2, <2>1, <2>2, <2>3, RecordsQuiet
<1>5. CASE ApplyInterrupted \/ SweepInterrupted
  <2>1. ghost'.derailed
    BY <1>1, <1>5 DEF ApplyInterrupted, SweepInterrupted, TypeOK, Ghost
  <2> QED BY <1>3, <2>1
<1>6. CASE AcceptInterrupted
  <2>1. PICK v \in Scores, tuning \in Tunings, sweep \in BOOLEAN :
          /\ ws' = Patched(tuning, sweep)
          /\ \/ ghost' = [Promoted(tuning, sweep) EXCEPT !.derailed = TRUE]
             \/ Abort(Recorded(v)) /\ ghost' = Promoted(tuning, sweep)
    BY <1>6 DEF AcceptInterrupted
  <2>2. CASE ghost' = [Promoted(tuning, sweep) EXCEPT !.derailed = TRUE]
    <3>1. ghost'.derailed
      BY <1>1, <2>2 DEF Promoted, TypeOK, Ghost
    <3> QED BY <1>3, <3>1
  <2>3. CASE Abort(Recorded(v)) /\ ghost' = Promoted(tuning, sweep)
    <3>1. Recorded(v) \in Context /\ pc = "judge"
      BY <1>1, <1>6, AcceptType DEF AcceptInterrupted
    <3>2. ghost'.derailed = ghost.derailed
      BY <1>1, <2>3 DEF Promoted, TypeOK, Ghost
    <3> QED BY <1>1, <1>2, <2>1, <2>3, <3>1, <3>2, RecordsAccept
  <2> QED BY <2>1, <2>2, <2>3
<1>7. CASE AnswerLost
  <2>1. PICK cost \in 0 .. AnswerCost : Abort([ctx EXCEPT !.spend = @ + cost])
    BY <1>7 DEF AnswerLost
  <2> DEFINE c == [ctx EXCEPT !.spend = @ + cost]
  <2>2. ctx.spend + cost \in Nat
    BY <1>1, AnswerCostType DEF Context
  <2>3. /\ c \in Context /\ c.history = ctx.history /\ c.iteration = ctx.iteration
        /\ c.best_iter = ctx.best_iter /\ c.accepted_count = ctx.accepted_count
    BY <1>1, <2>2 DEF Context
  <2> HIDE DEF c
  <2>4. /\ ctx'.history = ctx.history /\ ctx'.iteration = ctx.iteration
        /\ ctx'.best_iter = ctx.best_iter /\ ctx'.accepted_count = ctx.accepted_count
        /\ pc' = "abort"
    BY <1>2, <2>1, <2>3 DEF c
  <2>5. UNCHANGED ghost /\ ws' \in Diagnosed(ws) /\ pc' \notin Judging
    BY <1>7, <2>4 DEF AnswerLost, Judging
  <2>6. ws'.code = ws.code
    BY <1>1, <2>5, WorkspaceFields
  <2> QED BY <1>1, <2>4, <2>5, <2>6, RecordsQuiet
<1> QED BY <1>4, <1>5, <1>6, <1>7 DEF Fault

(* The baseline is no accept, and finalize writes no entry.                    *)
LEMMA RecordsConclude ==
    ASSUME LoopAssumption, RecordsInv, Conclude PROVE RecordsInv'
<1>1. TypeOK /\ TypeOK' /\ ctx \in Context /\ ws \in Workspace
  BY ConcludeType DEF RecordsInv, TypeOK
<1>2. CASE MeasureBaseline
  <2>1. PICK v \in Scores :
          ctx' = Logged([ctx EXCEPT !.best_value = v, !.baseline_val = v], "baseline")
    BY <1>2 DEF MeasureBaseline
  <2> DEFINE d == [ctx EXCEPT !.best_value = v, !.baseline_val = v]
  <2>2. /\ d \in Context /\ d.history = ctx.history /\ d.iteration = ctx.iteration
        /\ d.best_iter = ctx.best_iter /\ d.accepted_count = ctx.accepted_count
        /\ ctx' = Logged(d, "baseline") /\ "baseline" \in Kinds \ {"accepted"}
    BY <1>1, <2>1 DEF Context, LoopAssumption, Kinds
  <2> HIDE DEF d
  <2>3. /\ AcceptsIn(ctx'.history) = AcceptsIn(ctx.history)
        /\ IterationsIn(ctx'.history) = IterationsIn(ctx.history)
        /\ ctx'.iteration = ctx.iteration
        /\ ctx'.best_iter = ctx.best_iter /\ ctx'.accepted_count = ctx.accepted_count
    BY <2>2, LoggedAccepts
  <2>4. pc' \notin Judging /\ UNCHANGED ghost /\ ws'.code = ws.code
    BY <1>1, <1>2 DEF MeasureBaseline, Judging, Workspace
  <2> QED BY <1>1, <2>3, <2>4, RecordsQuiet
<1>3. CASE BaselineFails \/ Finalize \/ FinalizeRaises \/ FinalizeAfterCrash
  <2>1. /\ pc' \in {"returned", "raised"} /\ ctx' \in Summarised(ctx) \cup {ctx}
        /\ UNCHANGED <<ws, ghost>>
    BY <1>3 DEF BaselineFails, Finalize, FinalizeRaises, FinalizeAfterCrash
  <2>2. /\ ctx'.history = ctx.history /\ ctx'.iteration = ctx.iteration
        /\ ctx'.best_iter = ctx.best_iter /\ ctx'.accepted_count = ctx.accepted_count
    BY <1>1, <2>1 DEF Summarised, Context
  <2>3. pc' \notin Judging
    BY <2>1 DEF Judging
  <2> QED BY <1>1, <2>1, <2>2, <2>3, RecordsQuiet
<1> QED BY <1>2, <1>3 DEF Conclude

(* The records agree in every reachable state.                                 *)
THEOREM RecordsInvariant == Spec => []RecordsInv
<1> USE LoopAssumption
<1>1. Init => RecordsInv
  <2> SUFFICES ASSUME Init PROVE RecordsInv
    OBVIOUS
  <2>1. TypeOK
    BY InitType
  <2>2. AcceptsIn(<<>>) = {} /\ IterationsIn(<<>>) = {}
    BY DEF AcceptsIn, IterationsIn
  <2>3. AcceptsAgree
    BY <2>2, FS_EmptySet DEF Init, AcceptsAgree, Judging
  <2> QED BY <2>1, <2>3 DEF RecordsInv
<1>2. RecordsInv /\ [Next]_vars => RecordsInv'
  <2>1. CASE RecordsInv /\ (Ended \/ UNCHANGED vars)
    BY <2>1 DEF Ended, vars, RecordsInv, TypeOK, AcceptsAgree
  <2> QED BY <2>1, RecordsIterate, RecordsSweep, RecordsFault, RecordsConclude DEF Next
<1> QED BY <1>1, <1>2, PTL DEF Spec

(* For any number of iterations: count, history, best iteration and workspace  *)
(* tell the same story, until a crash inside an accept or a failed restore.    *)
THEOREM ProgressIsConsistent == Spec => []RecordsAgree
<1>1. RecordsInv => RecordsAgree
  BY DEF RecordsInv, AcceptsAgree, RecordsAgree, AcceptsIn, IterationsIn
<1> QED BY <1>1, RecordsInvariant, PTL

-----------------------------------------------------------------------------
(* A run comes to an end.  That it goes on while it can is the fairness the    *)
(* run with RunEnds assumes; that it cannot go on for ever is proved here.     *)

(* The steps left in an iteration, for its longest way: an accept, a sweep of  *)
(* all its trials, and a drift check.                                          *)
StepsLeft ==
    CASE pc = "generate"  -> MaxTrials + 9
      [] pc = "cost"      -> MaxTrials + 8
      [] pc = "judge"     -> MaxTrials + 7
      [] pc = "protect"   -> MaxTrials + 6
      [] pc = "autotune"  -> MaxTrials + 5
      [] pc = "sweeping"  -> Cardinality(trial.todo) + 4
      [] pc = "reprofile" -> 3
      [] pc = "drift"     -> 2
      [] pc = "verify"    -> 1
      [] pc = "top"       -> 0

IterationsLeft == (MaxIters - ctx.iteration) * (MaxTrials + 10)

Longest == MaxIters * (MaxTrials + 10) + 3

(* The steps that are left at most.                                            *)
Remaining ==
    CASE pc = "baseline" -> Longest
      [] pc \in LoopPhases -> IterationsLeft + StepsLeft + 2
      [] pc \in {"finalize", "abort"} -> 1
      [] pc \in Closed -> 0

(* A sweep never has more trials to make than it may make.                     *)
TodoInv ==
    /\ TypeOK
    /\ pc = "sweeping" => IsFiniteSet(trial.todo) /\ Cardinality(trial.todo) \in 0 .. MaxTrials

LEMMA TodoKept ==
    ASSUME LoopAssumption, TodoInv, [Next]_vars, TypeOK'
    PROVE  TodoInv'
<1>1. CASE StartSweep
  <2>1. PICK todo \in SUBSET Tunings :
           /\ IsFiniteSet(todo) /\ Cardinality(todo) \in 1 .. MaxTrials
           /\ trial' = [NoTrial EXCEPT !.todo = todo, !.best = ctx.best_value,
                                       !.original = ws.tuning]
    BY <1>1 DEF StartSweep
  <2>2. trial'.todo = todo
    BY <2>1 DEF NoTrial
  <2> QED BY <2>1, <2>2 DEF TodoInv, LoopAssumption
<1>2. ASSUME NEW t \in trial.todo, TrialRejected(t) \/ TrialMeasured(t) PROVE TodoInv'
  <2>1. pc = "sweeping" /\ trial'.todo = trial.todo \ {t}
    BY <1>2 DEF TrialRejected, TrialMeasured, TodoInv, TypeOK, Trial
  <2>2. IsFiniteSet(trial.todo) /\ Cardinality(trial.todo) \in 0 .. MaxTrials
    BY <2>1 DEF TodoInv
  <2>3. /\ IsFiniteSet(trial'.todo) /\ Cardinality(trial'.todo) = Cardinality(trial.todo) - 1
        /\ Cardinality(trial'.todo) \in Nat
    BY <2>1, <2>2, FS_RemoveElement, FS_CardinalityType
  <2> QED BY <2>2, <2>3 DEF TodoInv, LoopAssumption
<1>3. CASE UNCHANGED vars
  BY <1>3 DEF TodoInv, vars
<1>4. CASE Ended
  BY <1>4 DEF Ended, TodoInv, vars
<1>5. ASSUME pc' # "sweeping" PROVE TodoInv'
  BY <1>5 DEF TodoInv
<1>6. CASE Iterate
  <2>1. pc' # "sweeping"
    BY <1>6 DEF Iterate, IterationsExhausted, StartIteration, WallClockExceeded, LLMAnswers,
           LLMFails, CostLimitReached, SkipIteration, NoCandidates, HasCandidates, AcceptBest,
           RejectAll, ProtectBeforeSweep, Reprofile, DriftIgnored, BaselineRemeasured,
           EndIteration, CloseIteration
  <2> QED BY <1>5, <2>1
<1>7. CASE Fault \/ Conclude
  <2>1. pc' # "sweeping"
    BY <1>7 DEF Fault, LoopRaises, AnswerLost, ReprofileFails, ApplyInterrupted,
           AcceptInterrupted, SweepInterrupted, Abort, Conclude, MeasureBaseline, BaselineFails, Finalize,
           FinalizeRaises, FinalizeAfterCrash
  <2> QED BY <1>5, <2>1
<1>8. CASE \/ NothingToSweep \/ SweepFindsBetter \/ SweepKeepsOriginal
           \/ \E t \in trial.todo : SweepAborts(t)
  <2>1. pc' # "sweeping"
    BY <1>8 DEF NothingToSweep, SweepFindsBetter, SweepKeepsOriginal, SweepAborts
  <2> QED BY <1>5, <2>1
<1> QED BY <1>1, <1>2, <1>3, <1>4, <1>6, <1>7, <1>8 DEF Next, Sweep

LEMMA TodoInvariant == Spec => []TodoInv
<1> USE LoopAssumption
<1>1. Init /\ TypeOK => TodoInv
  BY DEF Init, TodoInv
<1>2. TodoInv /\ [Next]_vars /\ TypeOK' => TodoInv'
  BY TodoKept
<1> QED BY <1>1, <1>2, TypeCorrect, PTL DEF Spec

(* An iteration less.                                                          *)
LEMMA IterationArithmetic ==
    ASSUME NEW m \in Nat, NEW k \in Nat, NEW i \in 0 .. k
    PROVE  /\ (k - i) * (m + 10) \in Nat /\ k * (m + 10) \in Nat
           /\ (k - i) * (m + 10) <= k * (m + 10)
           /\ i # 0 => (k - i) * (m + 10) + (m + 10) <= k * (m + 10)
           /\ i < k => (k - (i + 1)) * (m + 10) = (k - i) * (m + 10) - (m + 10)
<1> DEFINE n == m + 10
<1>1. n \in Nat
  OBVIOUS
<1>2. k - i \in Nat
  OBVIOUS
<1> HIDE DEF n
<1>3. (k - i) * n \in Nat /\ k * n \in Nat /\ i * n \in Nat
  BY <1>1, <1>2
<1>4. (k - i) * n = k * n - i * n
  BY <1>1
<1>5. (k - (i + 1)) * n = (k - i) * n - n
  BY <1>1
<1>6. i # 0 => i * n >= n
  BY <1>1
<1> QED BY <1>1, <1>3, <1>4, <1>5, <1>6 DEF n

(* What is left at each place.                                                 *)
LeftAt ==
    /\ pc = "baseline" => Remaining = Longest
    /\ pc \in LoopPhases => Remaining = IterationsLeft + StepsLeft + 2
    /\ pc \in {"finalize", "abort"} => Remaining = 1
    /\ pc \in Closed => Remaining = 0
    /\ pc = "generate" => StepsLeft = MaxTrials + 9
    /\ pc = "cost" => StepsLeft = MaxTrials + 8
    /\ pc = "judge" => StepsLeft = MaxTrials + 7
    /\ pc = "protect" => StepsLeft = MaxTrials + 6
    /\ pc = "autotune" => StepsLeft = MaxTrials + 5
    /\ pc = "sweeping" => StepsLeft = Cardinality(trial.todo) + 4
    /\ pc = "reprofile" => StepsLeft = 3
    /\ pc = "drift" => StepsLeft = 2
    /\ pc = "verify" => StepsLeft = 1
    /\ pc = "top" => StepsLeft = 0

LEMMA RemainingAt == LeftAt /\ LeftAt'
<1>1. LeftAt
  BY DEF LeftAt, Remaining, StepsLeft, LoopPhases, Closed
<1>2. LeftAt'
  BY DEF LeftAt, Remaining, StepsLeft, LoopPhases, Closed
<1> QED BY <1>1, <1>2

(* What the counts are, as a fact about every state the invariant holds of.    *)
CountFacts ==
    /\ Longest \in Nat /\ MaxTrials \in Nat /\ IterationsLeft \in Nat
    /\ IterationsLeft + 3 <= Longest
    /\ pc \in LoopPhases => StepsLeft \in 0 .. MaxTrials + 9
    /\ pc \in Phases

LEMMA CountsHold == ASSUME LoopAssumption, TodoInv PROVE CountFacts
<1>1. MaxTrials \in Nat /\ MaxIters \in Nat /\ ctx.iteration \in 0 .. MaxIters
  BY DEF LoopAssumption, TodoInv, TypeOK, Context
<1>2. Longest \in Nat /\ IterationsLeft \in Nat /\ IterationsLeft + 3 <= Longest
  BY <1>1, IterationArithmetic DEF Longest, IterationsLeft
<1>3. ASSUME pc \in LoopPhases PROVE StepsLeft \in 0 .. MaxTrials + 9
  <2>1. CASE pc = "sweeping"
    <3> DEFINE n == Cardinality(trial.todo)
    <3>1. n \in 0 .. MaxTrials /\ StepsLeft = n + 4
      BY <2>1, RemainingAt DEF TodoInv, LeftAt
    <3> HIDE DEF n
    <3> QED BY <1>1, <3>1
  <2>2. CASE pc # "sweeping"
    BY <1>1, <1>3, <2>2, RemainingAt DEF LeftAt, LoopPhases
  <2> QED BY <2>1, <2>2
<1> QED BY <1>1, <1>2, <1>3 DEF CountFacts, TodoInv, TypeOK

(* The ways through a run.                                                     *)
Advance ==
    \/ pc = "baseline" /\ pc' \in {"top", "raised"}
    \/ /\ pc = "top" /\ pc' = "generate"
       /\ ctx.iteration < MaxIters /\ ctx'.iteration = ctx.iteration + 1
    \/ /\ pc \in LoopPhases /\ pc' \in LoopPhases
       /\ ctx'.iteration = ctx.iteration /\ StepsLeft' < StepsLeft
    \/ pc \in LoopPhases /\ pc' \in {"finalize", "abort"}
    \/ pc \in {"finalize", "abort"} /\ pc' \in Closed

LEMMA AdvanceCountsDown ==
    ASSUME LoopAssumption, TodoInv, CountFacts, CountFacts', Advance
    PROVE  Remaining' < Remaining
<1> USE RemainingAt DEF LeftAt
<1>1. CASE pc = "baseline" /\ pc' \in {"top", "raised"}
  <2>1. Remaining = Longest /\ Longest' = Longest /\ Longest \in Nat /\ Longest >= 3
    BY <1>1 DEF CountFacts, Longest
  <2>2. pc' = "top" => Remaining' = IterationsLeft' + 0 + 2
    BY DEF LoopPhases
  <2>3. IterationsLeft' \in Nat /\ IterationsLeft' + 3 <= Longest
    BY <2>1 DEF CountFacts
  <2>4. pc' = "raised" => Remaining' = 0
    BY DEF Closed
  <2> QED BY <1>1, <2>1, <2>2, <2>3, <2>4
<1>2. CASE /\ pc = "top" /\ pc' = "generate"
           /\ ctx.iteration < MaxIters /\ ctx'.iteration = ctx.iteration + 1
  <2>1. MaxTrials \in Nat /\ MaxIters \in Nat /\ ctx.iteration \in 0 .. MaxIters
    BY DEF LoopAssumption, TodoInv, TypeOK, Context
  <2>2. IterationsLeft' = IterationsLeft - (MaxTrials + 10) /\ IterationsLeft \in Nat
    BY <1>2, <2>1, IterationArithmetic DEF IterationsLeft
  <2>3. Remaining = IterationsLeft + 0 + 2 /\ Remaining' = IterationsLeft' + (MaxTrials + 9) + 2
    BY <1>2 DEF LoopPhases
  <2> QED BY <2>1, <2>2, <2>3
<1>3. CASE /\ pc \in LoopPhases /\ pc' \in LoopPhases
           /\ ctx'.iteration = ctx.iteration /\ StepsLeft' < StepsLeft
  <2>1. IterationsLeft' = IterationsLeft /\ IterationsLeft \in Nat
    BY <1>3 DEF IterationsLeft, CountFacts
  <2>2. Remaining = IterationsLeft + StepsLeft + 2 /\ Remaining' = IterationsLeft + StepsLeft' + 2
    BY <1>3, <2>1
  <2>3. StepsLeft \in Nat /\ StepsLeft' \in Nat
    BY <1>3 DEF CountFacts
  <2>4. \A x, y \in Nat : x < y => IterationsLeft + x + 2 < IterationsLeft + y + 2
    BY <2>1
  <2> QED BY <1>3, <2>2, <2>3, <2>4
<1>4. CASE pc \in LoopPhases /\ pc' \in {"finalize", "abort"}
  <2>1. Remaining = IterationsLeft + StepsLeft + 2 /\ Remaining' = 1
    BY <1>4
  <2>2. IterationsLeft \in Nat /\ StepsLeft \in Nat
    BY <1>4 DEF CountFacts
  <2> QED BY <2>1, <2>2
<1>5. CASE pc \in {"finalize", "abort"} /\ pc' \in Closed
  BY <1>5
<1> QED BY <1>1, <1>2, <1>3, <1>4, <1>5 DEF Advance

(* Whatever context the end of an iteration is given, its iteration stays.     *)
LEMMA CloseIterationSame ==
    ASSUME LoopAssumption, NEW c \in Context, CloseIteration(c)
    PROVE  pc' \in {"top", "finalize", "abort"} /\ ctx'.iteration = c.iteration
<1>1. [c EXCEPT !.stop = "converged"] \in Context
  BY DEF Context, Stops
<1>2. [c EXCEPT !.stop = "converged"].iteration = c.iteration
  BY DEF Context
<1> DEFINE d == [c EXCEPT !.stop = "converged"]
<1>3. Logged(d, "early stop").iteration = d.iteration
  BY <1>1, RecordsKeep DEF Kinds, Gains
<1>4. /\ ctx' \in {c, d, Crashed(c), Logged(d, "early stop")}
      /\ pc' \in {"top", "finalize", "abort"}
  BY DEF CloseIteration
<1>5. d.iteration = c.iteration /\ Crashed(c).iteration = c.iteration
  BY <1>2 DEF Crashed, Context
<1> HIDE DEF d
<1> QED BY <1>3, <1>4, <1>5

(* The steps of an iteration.                                                  *)
LEMMA IterateAdvances ==
    ASSUME LoopAssumption, TodoInv, CountFacts, Iterate
    PROVE  Advance
<1> USE RemainingAt DEF LeftAt
<1>1. MaxTrials \in Nat /\ ctx \in Context
  BY DEF LoopAssumption, TodoInv, TypeOK
<1>2. CASE IterationsExhausted \/ StartIteration \/ WallClockExceeded
  BY <1>1, <1>2 DEF IterationsExhausted, StartIteration, WallClockExceeded, Advance, Context,
         LoopPhases
<1>3. CASE LLMAnswers \/ LLMFails
  <2>1. pc = "generate" /\ pc' = "cost" /\ ctx'.iteration = ctx.iteration
    BY <1>1, <1>3 DEF LLMAnswers, LLMFails, Context
  <2> QED BY <1>1, <2>1 DEF Advance, LoopPhases
<1>4. CASE CostLimitReached \/ SkipIteration \/ HasCandidates
  <2>1. CASE CostLimitReached
    BY <2>1 DEF CostLimitReached, Advance, LoopPhases
  <2>2. CASE SkipIteration
    <3>1. pc = "cost" /\ pc' = "top" /\ UNCHANGED ctx
      BY <2>2 DEF SkipIteration
    <3> QED BY <1>1, <3>1 DEF Advance, LoopPhases
  <2>3. CASE HasCandidates
    <3>1. pc = "cost" /\ pc' = "judge" /\ UNCHANGED ctx
      BY <2>3 DEF HasCandidates
    <3> QED BY <1>1, <3>1 DEF Advance, LoopPhases
  <2> QED BY <1>4, <2>1, <2>2, <2>3
<1>5. CASE NoCandidates
  <2> DEFINE c == RecordFailure(Logged(ctx, "no candidates"))
  <2>1. Logged(ctx, "no candidates") \in Context /\ c \in Context
    BY <1>1, LoggedType, RecordFailureType DEF Kinds
  <2>2. c.iteration = ctx.iteration
    BY <1>1, <2>1, RecordsKeep DEF Kinds, Gains
  <2>3. pc = "cost" /\ pc' \in {"top", "finalize", "abort"} /\ ctx'.iteration = ctx.iteration
    BY <1>5, <2>1, <2>2, CloseIterationSame DEF NoCandidates
  <2> QED BY <1>1, <2>3 DEF Advance, LoopPhases
<1>6. CASE AcceptBest
  <2>1. PICK v \in Scores : ctx' = Recorded(v)
    BY <1>6 DEF AcceptBest
  <2>2. ctx'.iteration = ctx.iteration
    <3>1. Scored(v) \in Context /\ Logged(Scored(v), "accepted") \in Context
      BY AcceptType DEF TodoInv, TypeOK, Workspace
    <3>2. Scored(v).iteration = ctx.iteration
      BY <1>1 DEF Scored, Context
    <3>3. Logged(Scored(v), "accepted").iteration = ctx.iteration
      BY <3>1, <3>2, RecordsKeep DEF Kinds, Gains
    <3> QED BY <2>1, <3>1, <3>3 DEF Recorded, Context
  <2>3. pc = "judge" /\ pc' = "protect"
    BY <1>6 DEF AcceptBest
  <2> QED BY <1>1, <2>2, <2>3 DEF Advance, LoopPhases
<1>7. CASE RejectAll
  <2>1. ctx'.iteration = ctx.iteration
    BY <1>1, <1>7, RecordsKeep DEF RejectAll, Kinds, Gains
  <2>2. pc = "judge" /\ pc' = "verify"
    BY <1>7 DEF RejectAll
  <2> QED BY <1>1, <2>1, <2>2 DEF Advance, LoopPhases
<1>8. CASE ProtectBeforeSweep
  BY <1>1, <1>8 DEF ProtectBeforeSweep, Advance, LoopPhases
<1>9. CASE Reprofile
  <2>1. pc = "reprofile" /\ pc' \in {"drift", "verify"} /\ UNCHANGED ctx
    BY <1>9 DEF Reprofile
  <2> QED BY <2>1 DEF Advance, LoopPhases
<1>10. CASE DriftIgnored \/ BaselineRemeasured
  <2>1. pc = "drift" /\ pc' = "verify" /\ ctx'.iteration = ctx.iteration
    BY <1>1, <1>10 DEF DriftIgnored, BaselineRemeasured, Context
  <2> QED BY <2>1 DEF Advance, LoopPhases
<1>11. CASE EndIteration
  <2> DEFINE c == IF round.accepted THEN RecordImprovement(ctx, round.gain)
                                    ELSE RecordFailure(ctx)
  <2>1. round.gain \in Gains
    BY DEF TodoInv, TypeOK, Round
  <2>2. c \in Context
    BY <1>1, <2>1, RecordFailureType, RecordImprovementType
  <2>3. c.iteration = ctx.iteration
    BY <1>1, <2>1, RecordsKeep DEF Kinds
  <2>4. pc = "verify" /\ pc' \in {"top", "finalize", "abort"} /\ ctx'.iteration = ctx.iteration
    BY <1>11, <2>2, <2>3, CloseIterationSame DEF EndIteration
  <2> QED BY <2>4 DEF Advance, LoopPhases
<1> QED BY <1>2, <1>3, <1>4, <1>5, <1>6, <1>7, <1>8, <1>9, <1>10, <1>11 DEF Iterate

(* The steps of a sweep.                                                       *)
LEMMA SweepAdvances ==
    ASSUME LoopAssumption, TodoInv, TodoInv', CountFacts, Sweep
    PROVE  Advance
<1> USE RemainingAt DEF LeftAt
<1>1. MaxTrials \in Nat /\ ctx \in Context
  BY DEF LoopAssumption, TodoInv, TypeOK
<1>2. CASE NothingToSweep
  BY <1>1, <1>2 DEF NothingToSweep, Advance, LoopPhases
<1>3. CASE StartSweep
  <2> DEFINE n == Cardinality(trial.todo)
  <2>1. pc = "autotune" /\ pc' = "sweeping" /\ UNCHANGED ctx
    BY <1>3 DEF StartSweep
  <2>2. n' \in 0 .. MaxTrials /\ StepsLeft' = n' + 4 /\ StepsLeft = MaxTrials + 5
    BY <2>1 DEF TodoInv
  <2>3. \A x \in 0 .. MaxTrials : x + 4 < MaxTrials + 5
    BY <1>1
  <2>4. StepsLeft' < StepsLeft
    <3> HIDE DEF n
    <3> QED BY <2>2, <2>3
  <2> QED BY <2>1, <2>4 DEF Advance, LoopPhases
<1>4. ASSUME NEW t \in trial.todo, TrialRejected(t) \/ TrialMeasured(t) PROVE Advance
  <2> DEFINE n == Cardinality(trial.todo)
  <2>1. /\ pc = "sweeping" /\ trial'.todo = trial.todo \ {t} /\ pc' = "sweeping"
        /\ UNCHANGED ctx
    BY <1>4 DEF TrialRejected, TrialMeasured, TodoInv, TypeOK, Trial
  <2>2. IsFiniteSet(trial.todo) /\ n \in Nat
    BY <2>1 DEF TodoInv
  <2>3. n' = n - 1
    BY <2>1, <2>2, FS_RemoveElement
  <2>4. StepsLeft = n + 4 /\ StepsLeft' = n' + 4
    BY <2>1
  <2>5. StepsLeft' < StepsLeft
    <3> HIDE DEF n
    <3> QED BY <2>2, <2>3, <2>4
  <2> QED BY <2>1, <2>5 DEF Advance, LoopPhases
<1>5. CASE \/ SweepFindsBetter \/ SweepKeepsOriginal
           \/ \E t \in trial.todo : SweepAborts(t)
  <2>1. pc = "sweeping" /\ pc' = "reprofile"
    BY <1>5 DEF SweepFindsBetter, SweepKeepsOriginal, SweepAborts
  <2>2. ctx'.iteration = ctx.iteration
    <3>1. CASE SweepFindsBetter
      <4>1. [ctx EXCEPT !.best_value = trial.best] \in Context
        BY <1>1 DEF TodoInv, TypeOK, Trial, Context
      <4>2. [ctx EXCEPT !.best_value = trial.best].iteration = ctx.iteration
        BY <1>1 DEF Context
      <4> QED BY <3>1, <4>1, <4>2, RecordsKeep DEF SweepFindsBetter, Kinds, Gains
    <3> QED BY <1>5, <3>1 DEF SweepKeepsOriginal, SweepAborts
  <2> DEFINE n == Cardinality(trial.todo)
  <2>3. StepsLeft = n + 4 /\ n \in Nat /\ StepsLeft' = 3
    BY <2>1 DEF TodoInv
  <2>4. StepsLeft' < StepsLeft
    <3> HIDE DEF n
    <3> QED BY <2>3
  <2> QED BY <2>1, <2>2, <2>4 DEF Advance, LoopPhases
<1> QED BY <1>2, <1>3, <1>4, <1>5 DEF Sweep

(* Whatever raises, and the ends.                                              *)
LEMMA EndsAdvance == ASSUME Fault \/ Conclude PROVE Advance
<1>1. CASE Fault
  BY <1>1 DEF Fault, LoopRaises, AnswerLost, ReprofileFails, ApplyInterrupted,
         AcceptInterrupted, SweepInterrupted, Abort, Advance, LoopPhases
<1>2. CASE Conclude
  BY <1>2 DEF Conclude, MeasureBaseline, BaselineFails, Finalize, FinalizeRaises,
         FinalizeAfterCrash, Advance, Closed
<1> QED BY <1>1, <1>2

LEMMA StepsAdvance ==
    ASSUME LoopAssumption, TodoInv, TodoInv', CountFacts, Next
    PROVE  Advance \/ UNCHANGED vars
BY IterateAdvances, SweepAdvances, EndsAdvance DEF Next, Ended

(* Only the head of the loop comes before the first iteration.                 *)
Begun == pc \in LoopPhases \ {"top"} => ctx.iteration # 0

LEMMA CountInvariant == Spec => [](TodoInv /\ CountFacts /\ Begun)
<1> USE LoopAssumption
<1>1. TodoInv => CountFacts
  BY CountsHold
<1>2. Init => Begun
  BY DEF Init, Begun, LoopPhases
<1>3. ASSUME TodoInv, TodoInv', CountFacts, CountFacts', Begun, [Next]_vars PROVE Begun'
  <2>1. CASE UNCHANGED vars
    BY <1>3, <2>1 DEF Begun, vars
  <2>2. CASE Advance
    <3>1. ctx.iteration \in Nat
      BY <1>3 DEF TodoInv, TypeOK, Context, LoopAssumption
    <3>2. pc = "top" => StepsLeft = 0
      BY RemainingAt DEF LeftAt
    <3>3. pc' \in LoopPhases => StepsLeft' \in Nat
      BY <1>3 DEF CountFacts
    <3>4. pc' \in LoopPhases /\ StepsLeft' < StepsLeft => pc # "top"
      BY <3>2, <3>3
    <3>5. CASE pc = "top" /\ pc' = "generate" /\ ctx'.iteration = ctx.iteration + 1
      BY <3>1, <3>5 DEF Begun
    <3>6. CASE /\ pc \in LoopPhases /\ pc' \in LoopPhases
               /\ ctx'.iteration = ctx.iteration /\ StepsLeft' < StepsLeft
      BY <1>3, <3>4, <3>6 DEF Begun
    <3>7. CASE pc' = "top" \/ pc' \notin LoopPhases
      BY <3>7 DEF Begun
    <3>8. /\ pc' \in {"top", "raised"} => pc' = "top" \/ pc' \notin LoopPhases
          /\ pc' \in {"finalize", "abort"} \cup Closed => pc' \notin LoopPhases
      BY DEF LoopPhases, Closed
    <3> QED BY <2>2, <3>5, <3>6, <3>7, <3>8 DEF Advance
  <2> QED BY <1>3, <2>1, <2>2, StepsAdvance
<1> QED BY <1>1, <1>2, <1>3, TodoInvariant, PTL DEF Spec

(* However many iterations and trials a run may have: it takes no more steps   *)
(* than the longest iteration, MaxIters times, and three around them.          *)
THEOREM RunIsBounded == Spec => [](Remaining \in 0 .. Longest)
<1> USE LoopAssumption
<1>1. ASSUME TodoInv, CountFacts, Begun PROVE Remaining \in 0 .. Longest
  <2>1. /\ pc = "baseline" => Remaining = Longest
        /\ pc \in LoopPhases => Remaining = IterationsLeft + StepsLeft + 2
        /\ pc = "top" => StepsLeft = 0
        /\ pc \in {"finalize", "abort"} => Remaining = 1
        /\ pc \in Closed => Remaining = 0
    BY RemainingAt DEF LeftAt
  <2>2. /\ Longest \in Nat /\ MaxTrials \in Nat /\ IterationsLeft \in Nat
        /\ IterationsLeft + 3 <= Longest
        /\ pc \in LoopPhases => StepsLeft \in 0 .. MaxTrials + 9
    BY <1>1 DEF CountFacts
  <2>3. ASSUME pc \in LoopPhases \ {"top"}
        PROVE  IterationsLeft + (MaxTrials + 10) + 3 <= Longest
    <3>1. MaxIters \in Nat /\ ctx.iteration \in 0 .. MaxIters /\ ctx.iteration # 0
      BY <1>1, <2>3 DEF LoopAssumption, TodoInv, TypeOK, Context, Begun
    <3>2. IterationsLeft + (MaxTrials + 10) <= MaxIters * (MaxTrials + 10)
      BY <2>2, <3>1, IterationArithmetic DEF IterationsLeft
    <3>3. MaxIters * (MaxTrials + 10) \in Nat
      BY <2>2, <3>1, IterationArithmetic
    <3> QED BY <2>2, <3>2, <3>3 DEF Longest
  <2>4. pc \in LoopPhases => Remaining \in 0 .. Longest
    BY <2>1, <2>2, <2>3
  <2>5. pc \in LoopPhases \cup {"baseline", "finalize", "abort"} \cup Closed
    BY <1>1 DEF CountFacts, Phases, Closed
  <2> QED BY <2>1, <2>2, <2>4, <2>5
<1> QED BY <1>1, CountInvariant, PTL

(* No step gives an iteration or a trial back: neither a failed LLM call, nor  *)
(* a sweep that blows up, nor a drift check starts anything over.              *)
THEOREM EveryStepCounts == Spec => [][Remaining' < Remaining]_vars
<1> USE LoopAssumption
<1>1. ASSUME TodoInv, TodoInv', CountFacts, CountFacts', [Next]_vars
      PROVE  [Remaining' < Remaining]_vars
  BY <1>1, StepsAdvance, AdvanceCountsDown
<1> QED BY <1>1, CountInvariant, PTL DEF Spec
=============================================================================
