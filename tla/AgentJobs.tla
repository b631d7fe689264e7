------------------------------ MODULE AgentJobs ------------------------------
(* The MCP server's agent runs: perflab.server.agent_tools.  start_agent hands *)
(* a job to a one-worker executor; optimize_task runs the agent in a thread    *)
(* and awaits it on the event loop.  Both take _agent_lock first, without      *)
(* waiting, and the jobs are listed in _active_runs, an insertion-ordered      *)
(* dictionary from which old terminal jobs are evicted.                        *)
EXTENDS Naturals, FiniteSets

CONSTANTS
    Jobs,                   \* calls of start_agent, by the job id each draws
    Calls,                  \* calls of optimize_task
    MaxTerminal             \* _MAX_TERMINAL_RUNS

ASSUME JobsAssumption ==
    /\ Jobs \cap Calls = {}
    /\ IsFiniteSet(Jobs)
    /\ MaxTerminal \in Nat

VARIABLES
    agent_lock,             \* _agent_lock is held (a Lock has no owner)
    job,                    \* how far start_agent and then _run are, per job
    call,                   \* how far the optimize_task coroutine is, per call
    thread,                 \* what its to_thread worker is doing, per call
    active_runs,            \* the place of each job's key in the insertion
                            \* order of _active_runs, 0 if it is no key
    status                  \* the status stored in _active_runs

vars == <<agent_lock, job, call, thread, active_runs, status>>

Terminal == {"completed", "failed"}

Stages == {"idle", "admitted", "registered", "queued", "begin", "agent",
           "succeeded", "broken", "release", "refused", "done"}

InWorker == {"begin", "agent", "succeeded", "broken", "release"}

CallStages == {"idle", "preflight", "acquire", "setup", "awaiting", "returned"}

ThreadStates == {"none", "queued", "agent", "ended"}

Init ==
    /\ agent_lock = FALSE
    /\ job = [j \in Jobs |-> "idle"]
    /\ call = [c \in Calls |-> "idle"]
    /\ thread = [c \in Calls |-> "none"]
    /\ active_runs = [j \in Jobs |-> 0]
    /\ status = [j \in Jobs |-> "unknown"]

Listed == {j \in Jobs : active_runs[j] # 0}

(* The jobs registered so far, listed still or not: each registers once.       *)
Registered == {j \in Jobs : job[j] \notin {"idle", "admitted", "refused"}}

(* Mutant: nothing is ever dropped.                                            *)
RegisterJobForever(j, first) ==
    /\ active_runs' = [active_runs EXCEPT ![j] = Cardinality(Registered) + 1]
    /\ status' = [status EXCEPT ![j] = first]

(* Mutant: the job inserted earliest is dropped, over or not.                  *)
RegisterJobEvictOldest(j, first) ==
    LET full    == Cardinality(Listed) > MaxTerminal
        evicted == {i \in Listed : full /\ \A k \in Listed : active_runs[i] <= active_runs[k]}
    IN  /\ active_runs' = [i \in Jobs |-> IF i \in evicted THEN 0
                                          ELSE IF i = j THEN Cardinality(Registered) + 1
                                          ELSE active_runs[i]]
        /\ status' = [i \in Jobs |-> IF i \in evicted THEN "unknown"
                                     ELSE IF i = j THEN first ELSE status[i]]

(* _register_job: insert, then drop the terminal jobs inserted earliest until  *)
(* at most MaxTerminal of them are left.                                       *)
RegisterJob(j, first) ==
    LET placed == [active_runs EXCEPT ![j] = Cardinality(Registered) + 1]
        now    == [status EXCEPT ![j] = first]
        over   == {i \in Listed \cup {j} : now[i] \in Terminal}
        excess == IF Cardinality(over) > MaxTerminal THEN Cardinality(over) - MaxTerminal ELSE 0
    IN  \E evicted \in SUBSET over :
            /\ Cardinality(evicted) = excess
            /\ \A i \in evicted, k \in over \ evicted : placed[i] < placed[k]
            /\ active_runs' = [i \in Jobs |-> IF i \in evicted THEN 0 ELSE placed[i]]
            /\ status' = [i \in Jobs |-> IF i \in evicted THEN "unknown" ELSE now[i]]

-----------------------------------------------------------------------------
(* start_agent, in the caller's thread.                                        *)

Admit(j) ==
    /\ job[j] = "idle"
    /\ ~agent_lock
    /\ agent_lock' = TRUE
    /\ job' = [job EXCEPT ![j] = "admitted"]
    /\ UNCHANGED <<call, thread, active_runs, status>>

Refuse(j) ==
    /\ job[j] = "idle"
    /\ agent_lock
    /\ job' = [job EXCEPT ![j] = "refused"]
    /\ UNCHANGED <<agent_lock, call, thread, active_runs, status>>

RegisterRefused(j) ==
    /\ job[j] = "refused"
    /\ RegisterJob(j, "failed")
    /\ job' = [job EXCEPT ![j] = "done"]
    /\ UNCHANGED <<agent_lock, call, thread>>

(* Mutant: the job is submitted without being listed.                          *)
RegisterNothing(j) ==
    /\ job[j] = "admitted"
    /\ job' = [job EXCEPT ![j] = "registered"]
    /\ UNCHANGED <<agent_lock, call, thread, active_runs, status>>

Register(j) ==
    /\ job[j] = "admitted"
    /\ RegisterJob(j, "starting")
    /\ job' = [job EXCEPT ![j] = "registered"]
    /\ UNCHANGED <<agent_lock, call, thread>>

Submit(j) ==
    /\ job[j] = "registered"
    /\ job' = [job EXCEPT ![j] = "queued"]
    /\ UNCHANGED <<agent_lock, call, thread, active_runs, status>>

-----------------------------------------------------------------------------
(* _run, in the executor's only worker.                                        *)

WorkerTakes(j) ==
    /\ job[j] = "queued"
    /\ \A i \in Jobs : job[i] \notin InWorker
    /\ job' = [job EXCEPT ![j] = "begin"]
    /\ UNCHANGED <<agent_lock, call, thread, active_runs, status>>

MarkRunning(j) ==
    /\ job[j] = "begin"
    /\ status' = [status EXCEPT ![j] = "running"]
    /\ job' = [job EXCEPT ![j] = "agent"]
    /\ UNCHANGED <<agent_lock, call, thread, active_runs>>

(* Loading the task and the configuration, then run_agent.                     *)
AgentReturns(j) ==
    /\ job[j] = "agent"
    /\ job' = [job EXCEPT ![j] = "succeeded"]
    /\ UNCHANGED <<agent_lock, call, thread, active_runs, status>>

(* Mutant: the error escapes _run.                                             *)
AgentRaisesOutOfRun(j) ==
    /\ job[j] = "agent"
    /\ job' = [job EXCEPT ![j] = "done"]
    /\ UNCHANGED <<agent_lock, call, thread, active_runs, status>>

AgentRaises(j) ==
    /\ job[j] = "agent"
    /\ job' = [job EXCEPT ![j] = "broken"]
    /\ UNCHANGED <<agent_lock, call, thread, active_runs, status>>

(* Mutant: a failed run gets a status nobody else knows.                       *)
PublishError(j) ==
    /\ job[j] \in {"succeeded", "broken"}
    /\ status' = [status EXCEPT ![j] = IF job[j] = "succeeded" THEN "completed" ELSE "error"]
    /\ job' = [job EXCEPT ![j] = "release"]
    /\ UNCHANGED <<agent_lock, call, thread, active_runs>>

Publish(j) ==
    /\ job[j] \in {"succeeded", "broken"}
    /\ status' = [status EXCEPT ![j] = IF job[j] = "succeeded" THEN "completed" ELSE "failed"]
    /\ job' = [job EXCEPT ![j] = "release"]
    /\ UNCHANGED <<agent_lock, call, thread, active_runs>>

WorkerReleases(j) ==
    /\ job[j] = "release"
    /\ agent_lock' = FALSE
    /\ job' = [job EXCEPT ![j] = "done"]
    /\ UNCHANGED <<call, thread, active_runs, status>>

-----------------------------------------------------------------------------
(* optimize_task, on the event loop, with run_agent in a to_thread worker.     *)

SetCall(c, stage) == call' = [call EXCEPT ![c] = stage]

Preflight(c) ==
    /\ call[c] = "idle"
    /\ SetCall(c, "preflight")
    /\ UNCHANGED <<agent_lock, job, thread, active_runs, status>>

(* The probe fails, or comes back with or without text.                        *)
PreflightAnswered(c) ==
    /\ call[c] = "preflight"
    /\ \E next \in {"acquire", "returned"} : SetCall(c, next)
    /\ UNCHANGED <<agent_lock, job, thread, active_runs, status>>

(* Mutant: the lock is taken to be free because it was before the probe.       *)
CallAcquiresBlindly(c) ==
    /\ call[c] = "acquire"
    /\ agent_lock' = TRUE
    /\ SetCall(c, "setup")
    /\ UNCHANGED <<job, thread, active_runs, status>>

CallAcquires(c) ==
    /\ call[c] = "acquire"
    /\ ~agent_lock
    /\ agent_lock' = TRUE
    /\ SetCall(c, "setup")
    /\ UNCHANGED <<job, thread, active_runs, status>>

(* The finally clause.                                                         *)
CallReturns(c) ==
    /\ agent_lock' = FALSE
    /\ SetCall(c, "returned")

(* Mutant: the refusal returns from inside the try.                            *)
CallRefusedInTry(c) ==
    /\ call[c] = "acquire"
    /\ agent_lock
    /\ CallReturns(c)
    /\ UNCHANGED <<job, thread, active_runs, status>>

CallRefused(c) ==
    /\ call[c] = "acquire"
    /\ agent_lock
    /\ SetCall(c, "returned")
    /\ UNCHANGED <<agent_lock, job, thread, active_runs, status>>

SetupFails(c) ==
    /\ call[c] = "setup"
    /\ CallReturns(c)
    /\ UNCHANGED <<job, thread, active_runs, status>>

SpawnThread(c) ==
    /\ call[c] = "setup"
    /\ SetCall(c, "awaiting")
    /\ thread' = [thread EXCEPT ![c] = "queued"]
    /\ UNCHANGED <<agent_lock, job, active_runs, status>>

ThreadBegins(c) ==
    /\ thread[c] = "queued"
    /\ thread' = [thread EXCEPT ![c] = "agent"]
    /\ UNCHANGED <<agent_lock, job, call, active_runs, status>>

ThreadEnds(c) ==
    /\ thread[c] = "agent"
    /\ thread' = [thread EXCEPT ![c] = "ended"]
    /\ UNCHANGED <<agent_lock, job, call, active_runs, status>>

ThreadAwaited(c) ==
    /\ call[c] = "awaiting"
    /\ thread[c] = "ended"
    /\ CallReturns(c)
    /\ UNCHANGED <<job, thread, active_runs, status>>

(* CancelledError at the await of the probe: the lock is not held yet.         *)
CancelledInPreflight(c) ==
    /\ call[c] = "preflight"
    /\ SetCall(c, "returned")
    /\ UNCHANGED <<agent_lock, job, thread, active_runs, status>>

(* CancelledError at the await of to_thread: a thread that has begun goes on.  *)
CancelledInRun(c) ==
    /\ call[c] = "awaiting"
    /\ CallReturns(c)
    /\ thread' = [thread EXCEPT ![c] = IF @ = "queued" THEN "none" ELSE @]
    /\ UNCHANGED <<job, active_runs, status>>

-----------------------------------------------------------------------------
StartAgent(j) == Admit(j) \/ Refuse(j)

JobStep(j) ==
    \/ RegisterRefused(j) \/ Register(j) \/ Submit(j)
    \/ WorkerTakes(j) \/ MarkRunning(j) \/ AgentReturns(j) \/ AgentRaises(j)
    \/ Publish(j) \/ WorkerReleases(j)

CallStep(c) ==
    \/ PreflightAnswered(c) \/ CallAcquires(c) \/ CallRefused(c)
    \/ SetupFails(c) \/ SpawnThread(c) \/ ThreadAwaited(c)
    \/ ThreadBegins(c) \/ ThreadEnds(c)

Cancelled(c) == CancelledInPreflight(c) \/ CancelledInRun(c)

Next ==
    \/ \E j \in Jobs : StartAgent(j) \/ JobStep(j)
    \/ \E c \in Calls : Preflight(c) \/ CallStep(c) \/ Cancelled(c)

Spec == Init /\ [][Next]_vars

(* A call once made runs on, and an agent run ends (see AgentLoop); nobody has *)
(* to make a call.                                                             *)
FairSpec ==
    /\ Spec
    /\ \A j \in Jobs : WF_vars(JobStep(j))
    /\ \A c \in Calls : WF_vars(CallStep(c))

-----------------------------------------------------------------------------
(* Properties.                                                                 *)

(* Every variable holds a value the code can store in it.                      *)
TypeOK ==
    /\ agent_lock \in BOOLEAN
    /\ job \in [Jobs -> Stages]
    /\ call \in [Calls -> CallStages]
    /\ thread \in [Calls -> ThreadStates]
    /\ active_runs \in [Jobs -> Nat]
    /\ status \in [Jobs -> {"unknown", "starting", "running"} \cup Terminal]

(* The jobs and calls executing run_agent now, and those of them whose caller  *)
(* or worker is still there to release the lock.                               *)
Optimizing == {j \in Jobs : job[j] = "agent"} \cup {c \in Calls : thread[c] = "agent"}

Attended == Optimizing \ {c \in Calls : call[c] = "returned"}

(* "Only one agent run can execute at a time": two would edit one workspace    *)
(* and disturb each other's measurements.                                      *)
OneRunAtATime == \A x, y \in Optimizing : x = y

(* What the lock does guarantee: of the agent runs executing, at most one is   *)
(* not the leftover of an optimize_task whose client cancelled it.             *)
OneAttendedRun == \A x, y \in Attended : x = y

(* The jobs and calls that owe a release of the lock.                          *)
Owing == {j \in Jobs : job[j] \in {"admitted", "registered", "queued"} \cup InWorker}
            \cup {c \in Calls : call[c] \in {"setup", "awaiting"}}

(* The lock is held exactly while one of them owes its release: it is neither  *)
(* leaked, which would refuse every later run, nor released for somebody else. *)
LockHasOneOwner ==
    /\ agent_lock <=> Owing # {}
    /\ \A x, y \in Owing : x = y

(* A job between its registration and its end is listed, so that the worker's  *)
(* writes to _active_runs[job_id] cannot fail, and is listed as not over.      *)
InFlightListed ==
    \A j \in Jobs :
        job[j] \in {"registered", "queued", "begin", "agent", "succeeded", "broken"}
            => j \in Listed /\ status[j] \in {"starting", "running"}

(* The registry does not grow with the number of calls: beside the terminal    *)
(* jobs the cap allows it lists at most the job in flight.                     *)
RegistryBounded == Cardinality(Listed) <= MaxTerminal + 1

(* What a poll of get_agent_progress reports of a job never goes back: a       *)
(* terminal status stays until the job is forgotten, and a forgotten job is    *)
(* never reported again.                                                       *)
StatusOnlyAdvances ==
    [][\A j \in Jobs :
         /\ status[j] \in Terminal => status'[j] \in {status[j], "unknown"}
         /\ status[j] = "running" => status'[j] # "starting"
         /\ status[j] \in {"starting", "running"} => status'[j] # "unknown"
         /\ job[j] = "done" /\ status[j] = "unknown" => status'[j] = "unknown"]_vars

(* Every admitted job gets a terminal status, and the lock comes back.         *)
JobsSettle ==
    /\ \A j \in Jobs : job[j] = "admitted" ~> status[j] \in Terminal
    /\ agent_lock ~> ~agent_lock

=============================================================================
