--------------------------- MODULE AgentJobs_proofs ---------------------------
(* Theorems about AgentJobs, for any number of jobs and calls.                 *)
EXTENDS AgentJobs, TLAPS, FiniteSetTheorems

-----------------------------------------------------------------------------
(* LockHasOneOwner is preserved by every step but says nothing of the threads. *)
(* OneAttendedRun follows from it once a thread exists only for a call that is *)
(* waiting for it or was cancelled.                                            *)

Threaded ==
    \A c \in Calls : thread[c] # "none" => call[c] \in {"awaiting", "returned"}

StageTypes ==
    /\ agent_lock \in BOOLEAN
    /\ job \in [Jobs -> Stages]
    /\ call \in [Calls -> CallStages]
    /\ thread \in [Calls -> ThreadStates]

LockInv ==
    /\ StageTypes
    /\ LockHasOneOwner
    /\ Threaded

(* The stages at which a job or a call owes a release.                         *)
OwingStages == {"admitted", "registered", "queued", "begin", "agent",
                "succeeded", "broken", "release"}

OwingCall == {"setup", "awaiting"}

(* A job owes a release when it is at one of those stages, and so does a call. *)
LEMMA OwingMembers ==
    ASSUME JobsAssumption
    PROVE  /\ \A j \in Jobs : j \in Owing <=> job[j] \in OwingStages
           /\ \A c \in Calls : c \in Owing <=> call[c] \in OwingCall
           /\ Owing \subseteq Jobs \cup Calls
BY DEF Owing, OwingStages, OwingCall, InWorker, JobsAssumption

(* At the start nobody holds the lock and nothing runs.                        *)
LEMMA LockInit == ASSUME JobsAssumption, Init PROVE LockInv
<1>1. StageTypes /\ Threaded
  BY DEF Init, StageTypes, Threaded, Stages, CallStages, ThreadStates
<1>2. Owing = {}
  BY OwingMembers DEF Init, OwingStages, OwingCall
<1> QED BY <1>1, <1>2 DEF Init, LockInv, LockHasOneOwner

(* A step that moves nobody in or out of the owing stages and leaves the lock  *)
(* alone keeps the owner.                                                      *)
LEMMA SameOwner ==
    ASSUME LockHasOneOwner, Owing' = Owing, UNCHANGED agent_lock
    PROVE  LockHasOneOwner'
BY DEF LockHasOneOwner

(* A job that moves from one stage to another changes Owing only by itself.    *)
LEMMA JobMoves ==
    ASSUME JobsAssumption, StageTypes, NEW j \in Jobs, NEW stage \in Stages,
           job' = [job EXCEPT ![j] = stage], UNCHANGED call
    PROVE  /\ job' \in [Jobs -> Stages]
           /\ job'[j] = stage
           /\ Owing' = IF stage \in OwingStages THEN Owing \cup {j} ELSE Owing \ {j}
<1>1. job' \in [Jobs -> Stages] /\ job'[j] = stage /\ \A i \in Jobs \ {j} : job'[i] = job[i]
  BY DEF StageTypes
<1>2. /\ \A i \in Jobs : i \in Owing' <=> job'[i] \in OwingStages
      /\ \A c \in Calls : c \in Owing' <=> call'[c] \in OwingCall
      /\ Owing' \subseteq Jobs \cup Calls
  BY DEF Owing, OwingStages, OwingCall, InWorker, JobsAssumption
<1>3. j \notin Calls
  BY DEF JobsAssumption
<1>4. ASSUME NEW x \in Jobs \cup Calls, x # j
      PROVE  x \in Owing' <=> x \in Owing
  BY <1>1, <1>2, <1>4, OwingMembers
<1>5. j \in Owing' <=> stage \in OwingStages
  BY <1>1, <1>2
<1> QED BY <1>1, <1>2, <1>4, <1>5, OwingMembers

(* So does a call.                                                             *)
LEMMA CallMoves ==
    ASSUME JobsAssumption, StageTypes, NEW c \in Calls, NEW stage \in CallStages,
           SetCall(c, stage), UNCHANGED job
    PROVE  /\ call' \in [Calls -> CallStages]
           /\ call'[c] = stage
           /\ \A d \in Calls \ {c} : call'[d] = call[d]
           /\ Owing' = IF stage \in OwingCall THEN Owing \cup {c} ELSE Owing \ {c}
<1>1. call' \in [Calls -> CallStages] /\ call'[c] = stage
      /\ \A d \in Calls \ {c} : call'[d] = call[d]
  BY DEF StageTypes, SetCall
<1>2. /\ \A i \in Jobs : i \in Owing' <=> job'[i] \in OwingStages
      /\ \A d \in Calls : d \in Owing' <=> call'[d] \in OwingCall
      /\ Owing' \subseteq Jobs \cup Calls
  BY DEF Owing, OwingStages, OwingCall, InWorker, JobsAssumption
<1>3. c \notin Jobs
  BY DEF JobsAssumption
<1>4. ASSUME NEW x \in Jobs \cup Calls, x # c
      PROVE  x \in Owing' <=> x \in Owing
  BY <1>1, <1>2, <1>4, OwingMembers
<1>5. c \in Owing' <=> stage \in OwingCall
  BY <1>1, <1>2
<1> QED BY <1>1, <1>2, <1>4, <1>5, OwingMembers

(* start_agent and _run hand the lock from Admit to WorkerReleases.            *)
LEMMA JobKeepsLock ==
    ASSUME JobsAssumption, LockInv, NEW j \in Jobs, StartAgent(j) \/ JobStep(j)
    PROVE  LockInv'
<1> USE DEF LockInv
<1>1. ASSUME UNCHANGED <<call, thread>>, job' \in [Jobs -> Stages], agent_lock' \in BOOLEAN
      PROVE  StageTypes' /\ Threaded'
  BY <1>1 DEF StageTypes, Threaded
<1>2. UNCHANGED <<call, thread>>
  BY DEF StartAgent, JobStep, Admit, Refuse, RegisterRefused, Register, Submit, WorkerTakes,
         MarkRunning, AgentReturns, AgentRaises, Publish, WorkerReleases
<1>3. CASE Admit(j)
  <2>1. Owing' = Owing \cup {j} /\ job' \in [Jobs -> Stages]
    BY <1>3, JobMoves DEF Admit, OwingStages, Stages
  <2>2. Owing = {} /\ agent_lock'
    BY <1>3 DEF Admit, LockHasOneOwner
  <2> QED BY <1>1, <1>2, <2>1, <2>2 DEF LockHasOneOwner
<1>4. CASE WorkerReleases(j)
  <2>1. Owing' = Owing \ {j} /\ job' \in [Jobs -> Stages]
    BY <1>4, JobMoves DEF WorkerReleases, OwingStages, Stages
  <2>2. j \in Owing /\ ~agent_lock' /\ agent_lock' \in BOOLEAN
    BY <1>4, OwingMembers DEF WorkerReleases, OwingStages
  <2>3. Owing' = {}
    BY <2>1, <2>2 DEF LockHasOneOwner
  <2> QED BY <1>1, <1>2, <2>1, <2>2, <2>3 DEF LockHasOneOwner
<1>5. CASE Refuse(j) \/ RegisterRefused(j)
  <2>1. job[j] \in {"idle", "refused"} /\ UNCHANGED agent_lock
    BY <1>5 DEF Refuse, RegisterRefused
  <2>2. Owing' = Owing \ {j} /\ job' \in [Jobs -> Stages]
    BY <1>5, JobMoves DEF Refuse, RegisterRefused, OwingStages, Stages
  <2>3. j \notin Owing
    BY <2>1, OwingMembers DEF OwingStages
  <2> QED BY <1>1, <1>2, <2>1, <2>2, <2>3, SameOwner DEF StageTypes
<1>6. CASE Register(j) \/ Submit(j) \/ WorkerTakes(j) \/ MarkRunning(j) \/ AgentReturns(j)
           \/ AgentRaises(j) \/ Publish(j)
  <2>1. job[j] \in OwingStages /\ UNCHANGED agent_lock
    BY <1>6 DEF Register, Submit, WorkerTakes, MarkRunning, AgentReturns, AgentRaises,
                Publish, OwingStages
  <2>2. \E stage \in Stages \cap OwingStages : job' = [job EXCEPT ![j] = stage]
    BY <1>6 DEF Register, Submit, WorkerTakes, MarkRunning, AgentReturns, AgentRaises,
                Publish, OwingStages, Stages
  <2>3. Owing' = Owing \cup {j} /\ job' \in [Jobs -> Stages]
    BY <1>2, <2>2, JobMoves
  <2>4. j \in Owing
    BY <2>1, OwingMembers
  <2> QED BY <1>1, <1>2, <2>1, <2>3, <2>4, SameOwner DEF StageTypes
<1> QED BY <1>3, <1>4, <1>5, <1>6 DEF StartAgent, JobStep

(* optimize_task hands the lock from CallAcquires to its finally clause,       *)
(* cancelled or not.                                                           *)
LEMMA CallKeepsLock ==
    ASSUME JobsAssumption, LockInv, NEW c \in Calls,
           Preflight(c) \/ CallStep(c) \/ Cancelled(c)
    PROVE  LockInv'
<1> USE DEF LockInv
<1>1. CASE \/ Preflight(c) \/ PreflightAnswered(c) \/ CallRefused(c)
           \/ CancelledInPreflight(c)
  <2>1. /\ call[c] \in {"idle", "preflight", "acquire"}
        /\ UNCHANGED <<agent_lock, job, thread>>
    BY <1>1 DEF Preflight, PreflightAnswered, CallRefused, CancelledInPreflight
  <2>2. \E stage \in {"preflight", "acquire", "returned"} : SetCall(c, stage)
    BY <1>1 DEF Preflight, PreflightAnswered, CallRefused, CancelledInPreflight
  <2>3. PICK stage \in CallStages \ OwingCall : SetCall(c, stage)
    BY <2>2 DEF CallStages, OwingCall
  <2>4. /\ Owing' = Owing \ {c} /\ call' \in [Calls -> CallStages]
        /\ \A d \in Calls \ {c} : call'[d] = call[d]
    BY <2>1, <2>3, CallMoves
  <2>5. c \notin Owing /\ thread[c] = "none"
    BY <2>1, OwingMembers DEF OwingCall, Threaded
  <2>6. StageTypes' /\ Threaded'
    BY <2>1, <2>4, <2>5 DEF StageTypes, Threaded
  <2> QED BY <2>1, <2>4, <2>5, <2>6, SameOwner
<1>2. CASE CallAcquires(c)
  <2>1. /\ Owing' = Owing \cup {c} /\ call' \in [Calls -> CallStages]
        /\ \A d \in Calls \ {c} : call'[d] = call[d]
    BY <1>2, CallMoves DEF CallAcquires, CallStages, OwingCall
  <2>2. Owing = {} /\ agent_lock' = TRUE /\ UNCHANGED <<job, thread>>
    BY <1>2 DEF CallAcquires, LockHasOneOwner
  <2>3. thread[c] = "none"
    BY <1>2 DEF CallAcquires, Threaded
  <2>4. StageTypes' /\ Threaded'
    BY <2>1, <2>2, <2>3 DEF StageTypes, Threaded
  <2> QED BY <2>1, <2>2, <2>4 DEF LockHasOneOwner
<1>3. CASE SetupFails(c) \/ ThreadAwaited(c) \/ CancelledInRun(c)
  <2>1. /\ call[c] \in OwingCall /\ CallReturns(c) /\ UNCHANGED job
        /\ thread' \in {thread, [thread EXCEPT ![c] = IF @ = "queued" THEN "none" ELSE @]}
    BY <1>3 DEF SetupFails, ThreadAwaited, CancelledInRun, OwingCall
  <2>2. /\ Owing' = Owing \ {c} /\ call' \in [Calls -> CallStages] /\ call'[c] = "returned"
        /\ \A d \in Calls \ {c} : call'[d] = call[d]
    BY <2>1, CallMoves DEF CallReturns, CallStages, OwingCall
  <2>3. Owing' = {} /\ agent_lock' = FALSE
    BY <2>1, <2>2, OwingMembers DEF LockHasOneOwner, CallReturns
  <2>4. thread' \in [Calls -> ThreadStates]
    BY <2>1 DEF StageTypes, ThreadStates
  <2>5. \A d \in Calls \ {c} : thread'[d] = thread[d]
    BY <2>1 DEF StageTypes
  <2>6. StageTypes' /\ Threaded'
    BY <2>1, <2>2, <2>3, <2>4, <2>5 DEF StageTypes, Threaded
  <2> QED BY <2>3, <2>6 DEF LockHasOneOwner
<1>4. CASE SpawnThread(c)
  <2>1. /\ Owing' = Owing \cup {c} /\ call' \in [Calls -> CallStages]
        /\ call'[c] = "awaiting" /\ \A d \in Calls \ {c} : call'[d] = call[d]
    BY <1>4, CallMoves DEF SpawnThread, CallStages, OwingCall
  <2>2. c \in Owing /\ UNCHANGED <<agent_lock, job>>
    BY <1>4, OwingMembers DEF SpawnThread, OwingCall
  <2>3. thread' \in [Calls -> ThreadStates] /\ \A d \in Calls \ {c} : thread'[d] = thread[d]
    BY <1>4 DEF SpawnThread, StageTypes, ThreadStates
  <2>4. StageTypes' /\ Threaded'
    BY <2>1, <2>2, <2>3 DEF StageTypes, Threaded
  <2> QED BY <2>1, <2>2, <2>4, SameOwner
<1>5. CASE ThreadBegins(c) \/ ThreadEnds(c)
  <2>1. /\ thread[c] \in {"queued", "agent"} /\ UNCHANGED <<agent_lock, job, call>>
        /\ \E t \in {"agent", "ended"} : thread' = [thread EXCEPT ![c] = t]
    BY <1>5 DEF ThreadBegins, ThreadEnds
  <2>2. StageTypes' /\ Threaded'
    BY <2>1 DEF StageTypes, Threaded, ThreadStates
  <2>3. Owing' = Owing
    BY <2>1 DEF Owing, InWorker
  <2> QED BY <2>1, <2>2, <2>3, SameOwner
<1> QED BY <1>1, <1>2, <1>3, <1>4, <1>5 DEF CallStep, Cancelled

(* The invariant holds of every reachable state.                               *)
THEOREM LockInvariant == Spec => []LockInv
<1> USE JobsAssumption
<1>1. Init => LockInv
  BY LockInit
<1>2. LockInv /\ [Next]_vars => LockInv'
  <2>1. CASE LockInv /\ UNCHANGED vars
    BY <2>1 DEF vars, LockInv, StageTypes, Threaded, LockHasOneOwner, Owing, InWorker
  <2> QED BY <2>1, JobKeepsLock, CallKeepsLock DEF Next
<1> QED BY <1>1, <1>2, PTL DEF Spec

(* However many jobs and calls there are, refused, failing or cancelled, the   *)
(* lock is held exactly while the one that took it has yet to give it back.    *)
THEOREM LockNeverLeaks == Spec => []LockHasOneOwner
<1>1. LockInv => LockHasOneOwner
  BY DEF LockInv
<1> QED BY <1>1, LockInvariant, PTL

(* Of the agent runs executing at any time, at most one still has somebody     *)
(* waiting for it.                                                             *)
THEOREM AttendedRunsAlone == Spec => []OneAttendedRun
<1>1. ASSUME LockInv PROVE OneAttendedRun
  <2>1. ASSUME NEW x \in Attended PROVE x \in Owing
    <3>1. CASE x \in Jobs /\ job[x] = "agent"
      BY <3>1, OwingMembers, JobsAssumption DEF OwingStages
    <3>2. CASE x \in Calls /\ thread[x] = "agent" /\ call[x] # "returned"
      <4>1. call[x] = "awaiting"
        BY <1>1, <3>2 DEF LockInv, Threaded
      <4> QED BY <3>2, <4>1, OwingMembers, JobsAssumption DEF OwingCall
    <3> QED BY <2>1, <3>1, <3>2 DEF Attended, Optimizing
  <2> QED BY <1>1, <2>1 DEF LockInv, LockHasOneOwner, OneAttendedRun
<1> QED BY <1>1, LockInvariant, PTL

-----------------------------------------------------------------------------
(* The registry.  What the record of a job says follows from how far the job   *)
(* has come, and terminal entries over the cap are gone after a registration.  *)

InFlight == {"registered", "queued", "begin", "agent", "succeeded", "broken"}

(* The entry of a job at a stage, while it is listed.                          *)
EntryOf(stage) ==
    CASE stage \in {"registered", "queued", "begin"} -> {"starting"}
      [] stage \in {"agent", "succeeded", "broken"} -> {"running"}
      [] OTHER -> Terminal

EntryInv ==
    \A j \in Jobs :
        /\ j \in Listed <=> status[j] # "unknown"
        /\ job[j] \in InFlight => j \in Listed
        /\ j \in Listed => /\ job[j] \in InFlight \cup {"release", "done"}
                           /\ status[j] \in EntryOf(job[j])

RegistryInv ==
    /\ active_runs \in [Jobs -> Nat]
    /\ status \in [Jobs -> {"unknown", "starting", "running"} \cup Terminal]
    /\ EntryInv
    /\ RegistryBounded

(* The next place in the order is a number above zero.                         *)
LEMMA NextPlace ==
    ASSUME JobsAssumption
    PROVE  /\ Cardinality(Registered) + 1 \in Nat \ {0}
           /\ \A S \in SUBSET Jobs : IsFiniteSet(S) /\ Cardinality(S) \in Nat
<1>1. \A S \in SUBSET Jobs : IsFiniteSet(S) /\ Cardinality(S) \in Nat
  BY FS_Subset, FS_CardinalityType DEF JobsAssumption
<1>2. Registered \in SUBSET Jobs
  BY DEF Registered
<1> QED BY <1>1, <1>2

(* A registration keeps entries that are not over, and at most MaxTerminal of  *)
(* the others; it lists the new job unless its entry is evicted at once.       *)
LEMMA RegisterKeeps ==
    ASSUME JobsAssumption, RegistryInv, NEW j \in Jobs, NEW first \in {"starting"} \cup Terminal,
           RegisterJob(j, first)
    PROVE  /\ active_runs' \in [Jobs -> Nat]
           /\ status' \in [Jobs -> {"unknown", "starting", "running"} \cup Terminal]
           /\ \A i \in Jobs : i \in Listed' <=> status'[i] # "unknown"
           /\ \A i \in Jobs : status'[i] \in {"unknown", IF i = j THEN first ELSE status[i]}
           /\ \A i \in Jobs \ {j} : status[i] \notin Terminal => status'[i] = status[i]
           /\ first \notin Terminal => status'[j] = first
           /\ Cardinality({i \in Listed' : status'[i] \in Terminal}) <= MaxTerminal
<1> DEFINE placed == [active_runs EXCEPT ![j] = Cardinality(Registered) + 1]
           now    == [status EXCEPT ![j] = first]
           over   == {i \in Listed \cup {j} : now[i] \in Terminal}
           excess == IF Cardinality(over) > MaxTerminal THEN Cardinality(over) - MaxTerminal ELSE 0
<1>1. PICK evicted \in SUBSET over :
         /\ Cardinality(evicted) = excess
         /\ active_runs' = [i \in Jobs |-> IF i \in evicted THEN 0 ELSE placed[i]]
         /\ status' = [i \in Jobs |-> IF i \in evicted THEN "unknown" ELSE now[i]]
  BY DEF RegisterJob
<1>2. /\ placed \in [Jobs -> Nat]
      /\ now \in [Jobs -> {"unknown", "starting", "running"} \cup Terminal]
      /\ \A i \in Jobs : placed[i] # 0 <=> now[i] # "unknown"
      /\ \A i \in Jobs : now[i] = IF i = j THEN first ELSE status[i]
  <2>1. Cardinality(Registered) + 1 \in Nat \ {0}
    BY NextPlace
  <2> HIDE DEF RegistryInv
  <2>2. /\ active_runs \in [Jobs -> Nat]
        /\ status \in [Jobs -> {"unknown", "starting", "running"} \cup Terminal]
        /\ \A i \in Jobs : active_runs[i] # 0 <=> status[i] # "unknown"
    BY DEF RegistryInv, EntryInv, Listed
  <2> QED BY <2>1, <2>2 DEF Terminal
<1>3. over \subseteq Jobs /\ over = {i \in Jobs : placed[i] # 0 /\ now[i] \in Terminal}
  <2>1. \A i \in Jobs : i \in Listed \cup {j} <=> placed[i] # 0
    BY <1>2, NextPlace DEF Listed, RegistryInv
  <2> QED BY <2>1 DEF Listed
<1> HIDE DEF placed, now, over
<1>4. {i \in Listed' : status'[i] \in Terminal} = over \ evicted
  BY <1>1, <1>2, <1>3 DEF Listed, Terminal
<1>5. Cardinality(over \ evicted) <= MaxTerminal
  <2>1. /\ IsFiniteSet(over) /\ Cardinality(over) \in Nat
        /\ Cardinality(over \ evicted) = Cardinality(over) - Cardinality(over \cap evicted)
    BY <1>3, NextPlace, FS_Difference
  <2>2. over \cap evicted = evicted
    OBVIOUS
  <2>3. Cardinality(over \ evicted) = Cardinality(over) - excess
    BY <1>1, <2>1, <2>2
  <2>4. MaxTerminal \in Nat
    BY DEF JobsAssumption
  <2> QED BY <2>1, <2>3, <2>4
<1>6. /\ active_runs' \in [Jobs -> Nat]
      /\ status' \in [Jobs -> {"unknown", "starting", "running"} \cup Terminal]
  BY <1>1, <1>2
<1>7. \A i \in Jobs : i \in Listed' <=> status'[i] # "unknown"
  BY <1>1, <1>2 DEF Listed
<1>8. \A i \in evicted : now[i] \in Terminal
  BY <1>3
<1> QED BY <1>1, <1>2, <1>4, <1>5, <1>6, <1>7, <1>8

(* At most one job that owes a release is in flight, so with the cap kept at   *)
(* the last registration the registry holds at most one entry more.            *)
LEMMA RegisterBounds ==
    ASSUME JobsAssumption, LockInv', EntryInv',
           Cardinality({i \in Listed' : status'[i] \in Terminal}) <= MaxTerminal
    PROVE  RegistryBounded'
<1> DEFINE over == {i \in Listed' : status'[i] \in Terminal}
           rest == Listed' \ over
<1>1. Listed' \subseteq Jobs /\ over \subseteq Jobs /\ rest \subseteq Jobs /\ Listed' = over \cup rest
  BY DEF Listed
<1>2. ASSUME NEW i \in rest PROVE i \in Owing'
  <2>1. i \in Jobs /\ i \in Listed' /\ status'[i] \notin Terminal
    BY <1>1
  <2>2. /\ job'[i] \in InFlight \cup {"release", "done"}
        /\ status'[i] \in EntryOf(job'[i])
    BY <2>1 DEF EntryInv
  <2>3. job'[i] \in InFlight
    BY <2>1, <2>2 DEF EntryOf, InFlight
  <2> QED BY <2>1, <2>3 DEF Owing, InWorker, InFlight
<1>3. \A x, y \in rest : x = y
  BY <1>2 DEF LockInv, LockHasOneOwner
<1>4. IsFiniteSet(rest) /\ Cardinality(rest) \in Nat /\ Cardinality(rest) <= 1
  <2>1. CASE rest = {}
    BY <2>1, FS_EmptySet
  <2>2. CASE rest # {}
    <3>1. PICK x \in rest : rest = {x}
      BY <1>3, <2>2
    <3>2. IsFiniteSet({x}) /\ Cardinality({x}) = 1
      BY FS_Singleton
    <3> HIDE DEF rest
    <3> QED BY <3>1, <3>2
  <2> QED BY <2>1, <2>2
<1>5. /\ IsFiniteSet(over) /\ Cardinality(over) \in Nat /\ Cardinality(over) <= MaxTerminal
      /\ over \cap rest = {}
  BY <1>1, NextPlace
<1> HIDE DEF over, rest
<1>6. Cardinality(over \cup rest) = Cardinality(over) + Cardinality(rest) - Cardinality(over \cap rest)
  BY <1>4, <1>5, FS_Union
<1>7. Cardinality(over \cup rest) <= MaxTerminal + 1
  <2>1. Cardinality(over \cap rest) = 0 /\ MaxTerminal \in Nat
    BY <1>5, FS_EmptySet DEF JobsAssumption
  <2> QED BY <1>4, <1>5, <1>6, <2>1
<1> QED BY <1>1, <1>7 DEF RegistryBounded

(* Every step of a job keeps the registry.                                     *)
LEMMA JobKeepsRegistry ==
    ASSUME JobsAssumption, LockInv, RegistryInv, LockInv',
           NEW j \in Jobs, StartAgent(j) \/ JobStep(j)
    PROVE  RegistryInv'
<1>1. job \in [Jobs -> Stages]
  BY DEF LockInv, StageTypes
<1>2. CASE RegisterRefused(j) \/ Register(j)
  <2>1. PICK first \in {"starting", "failed"} :
           /\ RegisterJob(j, first)
           /\ \/ first = "starting" /\ job' = [job EXCEPT ![j] = "registered"]
              \/ first = "failed" /\ job' = [job EXCEPT ![j] = "done"]
    BY <1>2 DEF RegisterRefused, Register
  <2>2. /\ active_runs' \in [Jobs -> Nat]
        /\ status' \in [Jobs -> {"unknown", "starting", "running"} \cup Terminal]
        /\ \A i \in Jobs : i \in Listed' <=> status'[i] # "unknown"
        /\ \A i \in Jobs : status'[i] \in {"unknown", IF i = j THEN first ELSE status[i]}
        /\ \A i \in Jobs \ {j} : status[i] \notin Terminal => status'[i] = status[i]
        /\ first \notin Terminal => status'[j] = first
        /\ Cardinality({i \in Listed' : status'[i] \in Terminal}) <= MaxTerminal
    BY <2>1, RegisterKeeps DEF Terminal
  <2>3. ASSUME NEW i \in Jobs
        PROVE  /\ job'[i] \in InFlight => i \in Listed'
               /\ i \in Listed' => /\ job'[i] \in InFlight \cup {"release", "done"}
                                   /\ status'[i] \in EntryOf(job'[i])
    <3>1. CASE i = j
      BY <1>1, <2>1, <2>2, <3>1 DEF EntryOf, InFlight, Terminal
    <3>2. CASE i # j
      <4>1. job'[i] = job[i]
        BY <1>1, <2>1, <3>2
      <4>2. /\ i \in Listed <=> status[i] # "unknown"
            /\ job[i] \in InFlight => i \in Listed
            /\ i \in Listed => /\ job[i] \in InFlight \cup {"release", "done"}
                               /\ status[i] \in EntryOf(job[i])
        BY DEF RegistryInv, EntryInv
      <4>3. status'[i] \in {"unknown", status[i]}
        BY <2>2, <3>2
      <4>4. job[i] \in InFlight => status[i] \notin Terminal
        BY <4>2 DEF EntryOf, InFlight, Terminal
      <4>5. job[i] \in InFlight => status'[i] = status[i]
        BY <2>2, <3>2, <4>4
      <4> QED BY <2>2, <4>1, <4>2, <4>3, <4>5
    <3> QED BY <3>1, <3>2
  <2>4. EntryInv'
    BY <2>2, <2>3 DEF EntryInv
  <2>5. RegistryBounded'
    BY <2>2, <2>4, RegisterBounds
  <2> QED BY <2>2, <2>4, <2>5 DEF RegistryInv
<1>3. CASE MarkRunning(j) \/ Publish(j)
  <2>1. /\ UNCHANGED active_runs
        /\ job[j] \in {"begin", "succeeded", "broken"}
        /\ \/ job' = [job EXCEPT ![j] = "agent"] /\ status' = [status EXCEPT ![j] = "running"]
           \/ /\ job' = [job EXCEPT ![j] = "release"]
              /\ \E s \in Terminal : status' = [status EXCEPT ![j] = s]
    BY <1>3 DEF MarkRunning, Publish, Terminal
  <2>2. status' \in [Jobs -> {"unknown", "starting", "running"} \cup Terminal] /\ Listed' = Listed
    BY <2>1 DEF RegistryInv, Listed
  <2>3. j \in Listed
    BY <2>1 DEF RegistryInv, EntryInv, InFlight
  <2>4. EntryInv'
    <3> SUFFICES ASSUME NEW i \in Jobs
                 PROVE  /\ i \in Listed' <=> status'[i] # "unknown"
                        /\ job'[i] \in InFlight => i \in Listed'
                        /\ i \in Listed' => /\ job'[i] \in InFlight \cup {"release", "done"}
                                            /\ status'[i] \in EntryOf(job'[i])
      BY DEF EntryInv
    <3>1. CASE i = j
      BY <1>1, <2>1, <2>2, <2>3, <3>1 DEF RegistryInv, EntryOf, InFlight, Terminal
    <3>2. CASE i # j
      <4>1. job'[i] = job[i] /\ status'[i] = status[i]
        BY <1>1, <2>1, <3>2 DEF RegistryInv
      <4> QED BY <2>2, <4>1 DEF RegistryInv, EntryInv
    <3> QED BY <3>1, <3>2
  <2> QED BY <2>1, <2>2, <2>4 DEF RegistryInv, RegistryBounded
<1>4. CASE \/ Admit(j) \/ Refuse(j) \/ Submit(j) \/ WorkerTakes(j) \/ AgentReturns(j)
           \/ AgentRaises(j) \/ WorkerReleases(j)
  <2>1. UNCHANGED <<active_runs, status>> /\ Listed' = Listed
    BY <1>4 DEF Admit, Refuse, Submit, WorkerTakes, AgentReturns, AgentRaises,
                WorkerReleases, Listed
  <2>2. PICK stage \in Stages :
           /\ job' = [job EXCEPT ![j] = stage]
           /\ stage \in InFlight <=> job[j] \in InFlight
           /\ EntryOf(stage) = EntryOf(job[j])
           /\ job[j] \in InFlight \cup {"release", "done"} => stage \in InFlight \cup {"release", "done"}
    BY <1>4 DEF Admit, Refuse, Submit, WorkerTakes, AgentReturns, AgentRaises,
                WorkerReleases, Stages, InFlight, EntryOf
  <2>3. EntryInv'
    <3> SUFFICES ASSUME NEW i \in Jobs
                 PROVE  /\ i \in Listed <=> status[i] # "unknown"
                        /\ job'[i] \in InFlight => i \in Listed
                        /\ i \in Listed => /\ job'[i] \in InFlight \cup {"release", "done"}
                                           /\ status[i] \in EntryOf(job'[i])
      BY <2>1 DEF EntryInv
    <3>1. /\ i \in Listed <=> status[i] # "unknown"
          /\ job[i] \in InFlight => i \in Listed
          /\ i \in Listed => /\ job[i] \in InFlight \cup {"release", "done"}
                             /\ status[i] \in EntryOf(job[i])
      BY DEF RegistryInv, EntryInv
    <3>2. job'[i] = IF i = j THEN stage ELSE job[i]
      BY <1>1, <2>2
    <3> QED BY <2>2, <3>1, <3>2
  <2> QED BY <2>1, <2>3 DEF RegistryInv, RegistryBounded
<1> QED BY <1>2, <1>3, <1>4 DEF StartAgent, JobStep

(* Calls of optimize_task do not touch the registry.                           *)
LEMMA CallKeepsRegistry ==
    ASSUME RegistryInv, UNCHANGED <<job, active_runs, status>>
    PROVE  RegistryInv'
BY DEF RegistryInv, EntryInv, RegistryBounded, Listed

(* None of their steps does.                                                   *)
LEMMA CallLeavesRegistry ==
    ASSUME NEW c \in Calls, Preflight(c) \/ CallStep(c) \/ Cancelled(c)
    PROVE  UNCHANGED <<job, active_runs, status>>
BY DEF Preflight, CallStep, Cancelled, PreflightAnswered, CallAcquires, CallRefused, SetupFails,
       SpawnThread, ThreadAwaited, ThreadBegins, ThreadEnds, CancelledInPreflight, CancelledInRun

(* The invariant of the lock and that of the registry hold together.           *)
THEOREM RegistryInvariant == Spec => [](LockInv /\ RegistryInv)
<1> USE JobsAssumption
<1>1. Init => RegistryInv
  <2> SUFFICES ASSUME Init PROVE RegistryInv
    OBVIOUS
  <2>1. Listed = {} /\ EntryInv
    BY DEF Init, Listed, EntryInv, InFlight
  <2>2. active_runs \in [Jobs -> Nat] /\ status \in [Jobs -> {"unknown", "starting", "running"} \cup Terminal]
    BY DEF Init
  <2>3. RegistryBounded
    BY <2>1, FS_EmptySet DEF RegistryBounded, JobsAssumption
  <2> QED BY <2>1, <2>2, <2>3 DEF RegistryInv
<1>2. LockInv /\ LockInv' /\ RegistryInv /\ [Next]_vars => RegistryInv'
  <2>1. CASE RegistryInv /\ UNCHANGED vars
    BY <2>1, CallKeepsRegistry DEF vars
  <2> QED BY <2>1, JobKeepsRegistry, CallKeepsRegistry, CallLeavesRegistry DEF Next
<1> QED BY <1>1, <1>2, LockInvariant, PTL DEF Spec

(* For any number of jobs and calls every variable holds a value the code can  *)
(* store in it.                                                                *)
THEOREM TypeCorrect == Spec => []TypeOK
<1>1. LockInv /\ RegistryInv => TypeOK
  BY DEF LockInv, StageTypes, RegistryInv, TypeOK
<1> QED BY <1>1, RegistryInvariant, PTL

(* Eviction never takes the entry of a job whose worker has yet to write to    *)
(* it, whoever else registers meanwhile.                                       *)
THEOREM WorkerFindsItsEntry == Spec => []InFlightListed
<1>1. RegistryInv => InFlightListed
  BY DEF RegistryInv, EntryInv, EntryOf, InFlight, InFlightListed
<1> QED BY <1>1, RegistryInvariant, PTL

(* However many jobs are started or refused, the registry holds at most one    *)
(* entry more than the cap.                                                    *)
THEOREM RegistryStaysBounded == Spec => []RegistryBounded
<1>1. RegistryInv => RegistryBounded
  BY DEF RegistryInv
<1> QED BY <1>1, RegistryInvariant, PTL

(* A step of the system advances every status or leaves it.                    *)
StatusAdvances ==
    \A j \in Jobs :
         /\ status[j] \in Terminal => status'[j] \in {status[j], "unknown"}
         /\ status[j] = "running" => status'[j] # "starting"
         /\ status[j] \in {"starting", "running"} => status'[j] # "unknown"
         /\ job[j] = "done" /\ status[j] = "unknown" => status'[j] = "unknown"

(* So does a step of a job.                                                    *)
LEMMA JobAdvancesStatus ==
    ASSUME JobsAssumption, LockInv, RegistryInv, NEW j \in Jobs, StartAgent(j) \/ JobStep(j)
    PROVE  StatusAdvances
<1>1. \A i \in Jobs :
         /\ i \in Listed <=> status[i] # "unknown"
         /\ job[i] \in InFlight => i \in Listed
         /\ i \in Listed => /\ job[i] \in InFlight \cup {"release", "done"}
                            /\ status[i] \in EntryOf(job[i])
  BY DEF RegistryInv, EntryInv
<1>2. CASE RegisterRefused(j) \/ Register(j)
  <2>1. PICK first \in {"starting", "failed"} : RegisterJob(j, first) /\ job[j] \in {"admitted", "refused"}
    BY <1>2 DEF RegisterRefused, Register
  <2>2. /\ \A i \in Jobs : status'[i] \in {"unknown", IF i = j THEN first ELSE status[i]}
        /\ \A i \in Jobs \ {j} : status[i] \notin Terminal => status'[i] = status[i]
    BY <2>1, RegisterKeeps DEF Terminal
  <2>3. status[j] = "unknown"
    BY <1>1, <2>1 DEF InFlight
  <2> SUFFICES ASSUME NEW i \in Jobs
               PROVE  /\ status[i] \in Terminal => status'[i] \in {status[i], "unknown"}
                      /\ status[i] = "running" => status'[i] # "starting"
                      /\ status[i] \in {"starting", "running"} => status'[i] # "unknown"
                      /\ job[i] = "done" /\ status[i] = "unknown" => status'[i] = "unknown"
    BY DEF StatusAdvances
  <2>4. CASE i = j
    BY <2>1, <2>3, <2>4 DEF Terminal
  <2>5. CASE i # j
    BY <2>2, <2>5 DEF Terminal
  <2> QED BY <2>4, <2>5
<1>3. CASE MarkRunning(j) \/ Publish(j)
  <2>1. /\ job[j] \in {"begin", "succeeded", "broken"}
        /\ \E s \in {"running"} \cup Terminal : status' = [status EXCEPT ![j] = s]
    BY <1>3 DEF MarkRunning, Publish, Terminal
  <2>2. status[j] \in {"starting", "running"}
    BY <1>1, <2>1 DEF EntryOf, InFlight
  <2> QED BY <2>1, <2>2 DEF StatusAdvances, RegistryInv, Terminal
<1>4. CASE \/ Admit(j) \/ Refuse(j) \/ Submit(j) \/ WorkerTakes(j) \/ AgentReturns(j)
           \/ AgentRaises(j) \/ WorkerReleases(j)
  <2>1. UNCHANGED status
    BY <1>4 DEF Admit, Refuse, Submit, WorkerTakes, AgentReturns, AgentRaises, WorkerReleases
  <2> QED BY <2>1 DEF StatusAdvances, Terminal
<1> QED BY <1>2, <1>3, <1>4 DEF StartAgent, JobStep

(* A client that polls never sees a status go back, and never sees a job again *)
(* that was forgotten, for any number of jobs and calls.                       *)
THEOREM PollsOnlyAdvance == Spec => StatusOnlyAdvances
<1> USE JobsAssumption
<1>1. LockInv /\ RegistryInv /\ [Next]_vars => [StatusAdvances]_vars
  BY JobAdvancesStatus, CallLeavesRegistry DEF Next, StatusAdvances, Terminal
<1>2. [StatusAdvances]_vars
      <=> [\A j \in Jobs :
             /\ status[j] \in Terminal => status'[j] \in {status[j], "unknown"}
             /\ status[j] = "running" => status'[j] # "starting"
             /\ status[j] \in {"starting", "running"} => status'[j] # "unknown"
             /\ job[j] = "done" /\ status[j] = "unknown" => status'[j] = "unknown"]_vars
  BY DEF StatusAdvances
<1> QED BY <1>1, <1>2, RegistryInvariant, PTL DEF Spec, StatusOnlyAdvances

-----------------------------------------------------------------------------
(* A job or call that holds the lock gives it back.  That it goes on while it  *)
(* can is the fairness JobsSettle assumes; that it always can, waiting for     *)
(* nobody else, and only so many times, is proved here.                        *)

(* A queued job finds the executor's worker free: nobody else holds the lock.  *)
(* And an optimize_task that awaits its thread has one.                        *)
NoIdleWait ==
    /\ \A j \in Jobs : job[j] = "queued" => \A i \in Jobs : job[i] \notin InWorker
    /\ \A c \in Calls : call[c] = "awaiting" => thread[c] # "none"

AwaitedThreads == \A c \in Calls : call[c] = "awaiting" => thread[c] # "none"

(* Steps of a job, of a call or of its thread leave every await its thread.    *)
LEMMA ThreadsAwaited ==
    ASSUME JobsAssumption, LockInv, AwaitedThreads, [Next]_vars
    PROVE  AwaitedThreads'
<1>1. CASE UNCHANGED <<call, thread>>
  BY <1>1 DEF AwaitedThreads
<1>2. CASE UNCHANGED vars
  BY <1>1, <1>2 DEF vars
<1>3. ASSUME NEW j \in Jobs, StartAgent(j) \/ JobStep(j) PROVE AwaitedThreads'
  BY <1>1, <1>3 DEF StartAgent, JobStep, Admit, Refuse, RegisterRefused, Register, Submit,
       WorkerTakes, MarkRunning, AgentReturns, AgentRaises, Publish, WorkerReleases
<1>4. ASSUME NEW c \in Calls, Preflight(c) \/ CallStep(c) \/ Cancelled(c)
      PROVE  AwaitedThreads'
  <2>1. call \in [Calls -> CallStages] /\ thread \in [Calls -> ThreadStates]
    BY DEF LockInv, StageTypes
  <2>2. CASE SpawnThread(c)
    BY <2>1, <2>2 DEF SpawnThread, SetCall, AwaitedThreads, ThreadStates
  <2>3. CASE ThreadBegins(c) \/ ThreadEnds(c)
    BY <2>1, <2>3 DEF ThreadBegins, ThreadEnds, AwaitedThreads, ThreadStates
  <2>4. CASE CancelledInRun(c)
    BY <2>1, <2>4 DEF CancelledInRun, CallReturns, SetCall, AwaitedThreads, CallStages
  <2>5. CASE \/ Preflight(c) \/ PreflightAnswered(c) \/ CallAcquires(c) \/ CallRefused(c)
             \/ SetupFails(c) \/ ThreadAwaited(c) \/ CancelledInPreflight(c)
    <3>1. /\ UNCHANGED thread
          /\ \E stage \in CallStages \ {"awaiting"} : call' = [call EXCEPT ![c] = stage]
      BY <2>5 DEF Preflight, PreflightAnswered, CallAcquires, CallRefused, SetupFails,
           ThreadAwaited, CancelledInPreflight, CallReturns, SetCall, CallStages
    <3> QED BY <2>1, <3>1 DEF AwaitedThreads
  <2> QED BY <1>4, <2>2, <2>3, <2>4, <2>5 DEF CallStep, Cancelled
<1> QED BY <1>2, <1>3, <1>4 DEF Next

(* For any number of jobs and calls, none that holds the lock waits for a      *)
(* worker somebody else occupies or a thread that was never started.           *)
THEOREM HoldersNeverWait == Spec => []NoIdleWait
<1> USE JobsAssumption
<1>1. Init => AwaitedThreads
  BY DEF Init, AwaitedThreads
<1>2. LockInv /\ AwaitedThreads /\ [Next]_vars => AwaitedThreads'
  BY ThreadsAwaited
<1>3. LockInv /\ AwaitedThreads => NoIdleWait
  <2> SUFFICES ASSUME LockInv, NEW j \in Jobs, NEW i \in Jobs, job[j] = "queued", job[i] \in InWorker
               PROVE  FALSE
    BY DEF NoIdleWait, AwaitedThreads
  <2>1. j \in Owing /\ i \in Owing
    BY OwingMembers DEF OwingStages, InWorker
  <2>2. i = j
    BY <2>1 DEF LockInv, LockHasOneOwner
  <2> QED BY <2>2 DEF InWorker
<1> QED BY <1>1, <1>2, <1>3, LockInvariant, PTL DEF Spec

(* The steps a job has left at a stage, at most.                               *)
JobLeft(stage) ==
    CASE stage = "idle"       -> 9
      [] stage = "admitted"   -> 8
      [] stage = "registered" -> 7
      [] stage = "queued"     -> 6
      [] stage = "begin"      -> 5
      [] stage = "agent"      -> 4
      [] stage \in {"succeeded", "broken"} -> 3
      [] stage = "release"    -> 2
      [] stage = "refused"    -> 1
      [] stage = "done"       -> 0

(* A call and its thread: the thread of a cancelled call may end after it.     *)
CallLeft(stage, state) ==
    (CASE stage = "idle"      -> 20
       [] stage = "preflight" -> 16
       [] stage = "acquire"   -> 12
       [] stage = "setup"     -> 8
       [] stage = "awaiting"  -> 4
       [] stage = "returned"  -> 0)
    + (CASE state = "none"    -> 3
         [] state = "queued"  -> 2
         [] state = "agent"   -> 1
         [] state = "ended"   -> 0)

LEMMA LeftIsNatural ==
    /\ \A stage \in Stages : JobLeft(stage) \in 0 .. 9
    /\ \A stage \in CallStages, state \in ThreadStates : CallLeft(stage, state) \in 0 .. 23
<1>1. \A stage \in Stages : JobLeft(stage) \in 0 .. 9
  BY DEF Stages, JobLeft
<1>2. ASSUME NEW stage \in CallStages, NEW state \in ThreadStates
      PROVE  CallLeft(stage, state) \in 0 .. 23
  BY DEF CallStages, ThreadStates, CallLeft
<1> QED BY <1>1, <1>2

(* Some job, or some call with its thread, comes nearer to its end, and nobody *)
(* else moves.                                                                 *)
OneAdvances ==
    \/ /\ UNCHANGED <<call, thread>>
       /\ \E j \in Jobs : /\ JobLeft(job'[j]) < JobLeft(job[j])
                          /\ \A i \in Jobs \ {j} : job'[i] = job[i]
    \/ /\ UNCHANGED job
       /\ \E c \in Calls : /\ CallLeft(call'[c], thread'[c]) < CallLeft(call[c], thread[c])
                           /\ \A d \in Calls \ {c} : call'[d] = call[d] /\ thread'[d] = thread[d]

LEMMA JobAdvances ==
    ASSUME LockInv, NEW j \in Jobs, StartAgent(j) \/ JobStep(j)
    PROVE  OneAdvances
<1>1. job \in [Jobs -> Stages]
  BY DEF LockInv, StageTypes
<1>2. /\ UNCHANGED <<call, thread>>
      /\ \E stage \in Stages : /\ JobLeft(stage) < JobLeft(job[j])
                               /\ job' = [job EXCEPT ![j] = stage]
  BY DEF StartAgent, JobStep, Admit, Refuse, RegisterRefused, Register, Submit, WorkerTakes,
     MarkRunning, AgentReturns, AgentRaises, Publish, WorkerReleases, JobLeft, Stages
<1> QED BY <1>1, <1>2 DEF OneAdvances

LEMMA CallAdvances ==
    ASSUME LockInv, NEW c \in Calls, Preflight(c) \/ CallStep(c) \/ Cancelled(c)
    PROVE  OneAdvances
<1>1. call \in [Calls -> CallStages] /\ thread \in [Calls -> ThreadStates]
  BY DEF LockInv, StageTypes
<1>2. call[c] \in CallStages /\ thread[c] \in ThreadStates
  BY <1>1
<1>3. /\ UNCHANGED job
      /\ \E stage \in CallStages, state \in ThreadStates :
            /\ CallLeft(stage, state) < CallLeft(call[c], thread[c])
            /\ call' = [call EXCEPT ![c] = stage]
            /\ thread' = [thread EXCEPT ![c] = state]
  <2>1. CASE SpawnThread(c)
    BY <1>1, <1>2, <2>1 DEF SpawnThread, SetCall, CallLeft, CallStages, ThreadStates
  <2>2. CASE ThreadBegins(c) \/ ThreadEnds(c)
    BY <1>1, <1>2, <2>2 DEF ThreadBegins, ThreadEnds, CallLeft, CallStages, ThreadStates
  <2>3. CASE CancelledInRun(c)
    <3> DEFINE state == IF thread[c] = "queued" THEN "none" ELSE thread[c]
    <3>1. /\ UNCHANGED job /\ call[c] = "awaiting"
          /\ call' = [call EXCEPT ![c] = "returned"]
          /\ thread' = [thread EXCEPT ![c] = state]
      BY <2>3 DEF CancelledInRun, CallReturns, SetCall
    <3>2. state \in ThreadStates /\ CallLeft("returned", state) < CallLeft("awaiting", thread[c])
      BY <1>2 DEF CallLeft, ThreadStates
    <3> HIDE DEF state
    <3> QED BY <3>1, <3>2 DEF CallStages
  <2>4. CASE \/ Preflight(c) \/ PreflightAnswered(c) \/ CallAcquires(c) \/ CallRefused(c)
             \/ SetupFails(c) \/ ThreadAwaited(c) \/ CancelledInPreflight(c)
    <3>1. UNCHANGED job /\ thread' = [thread EXCEPT ![c] = thread[c]]
      BY <1>1, <2>4 DEF Preflight, PreflightAnswered, CallAcquires, CallRefused, SetupFails,
           ThreadAwaited, CancelledInPreflight
    <3>2. \E stage \in CallStages : /\ CallLeft(stage, thread[c]) < CallLeft(call[c], thread[c])
                                    /\ call' = [call EXCEPT ![c] = stage]
      BY <1>2, <2>4 DEF Preflight, PreflightAnswered, CallAcquires, CallRefused, SetupFails,
           ThreadAwaited, CancelledInPreflight, CallReturns, SetCall, CallLeft, CallStages,
           ThreadStates
    <3> QED BY <1>2, <3>1, <3>2
  <2> QED BY <2>1, <2>2, <2>3, <2>4 DEF CallStep, Cancelled
<1>4. PICK stage \in CallStages, state \in ThreadStates :
            /\ CallLeft(stage, state) < CallLeft(call[c], thread[c])
            /\ call' = [call EXCEPT ![c] = stage]
            /\ thread' = [thread EXCEPT ![c] = state]
  BY <1>3
<1>5. /\ call'[c] = stage /\ thread'[c] = state
      /\ \A d \in Calls \ {c} : call'[d] = call[d] /\ thread'[d] = thread[d]
  BY <1>1, <1>4
<1> QED BY <1>3, <1>4, <1>5 DEF OneAdvances

(* Every step takes one job at most nine, one call at most 23 steps from its   *)
(* end nearer to it, and nobody further away: nothing is ever retried.         *)
THEOREM EveryStepCounts == Spec => [][OneAdvances]_vars
<1> USE JobsAssumption
<1>1. LockInv /\ [Next]_vars => [OneAdvances]_vars
  BY JobAdvances, CallAdvances DEF Next
<1> QED BY <1>1, LockInvariant, PTL DEF Spec
=============================================================================
