------------------------------ MODULE RunStore ------------------------------
(* The store of runs below out/runs (perflab.memory.run_store.RunStore), which *)
(* several processes write and read without a lock: an agent, an optimize and  *)
(* a profile run side by side, the CLI, the MCP server and the CI check.       *)
(* index.jsonl is appended to; meta.json and report.json are truncated and     *)
(* written anew, so a reader, or a crash, may come in between.                 *)
EXTENDS Naturals, Sequences, FiniteSets

CONSTANTS
    Runs,                   \* run directories
    KindOf(_),              \* the command that makes a run
    Limit,                  \* list_runs(limit)
    MaxTears                \* bound: appends to index.jsonl cut short by a full disk

Garbage == "garbage"        \* a line that does not decode

ASSUME StoreAssumption ==
    /\ Limit \in Nat \ {0}
    /\ MaxTears \in Nat
    /\ \A r \in Runs : KindOf(r) \in {"agent", "optimize", "profile"}
    /\ Garbage \notin Runs

VARIABLES
    run,                    \* how far each run is
    dirs,                   \* the run directories that exist
    index,                  \* the lines of index.jsonl: a run, or garbage
    open_line,              \* its last line has no line end yet
    meta,                   \* meta.json of each run
    report,                 \* report.json of each run
    held,                   \* what update_meta read before it truncates
    query,                  \* a client that lists the runs and opens one of them
    ghost                   \* history: who was there when a run or a query began

vars == <<run, dirs, index, open_line, meta, report, held, query, ghost>>

Stages == {"new", "dirs", "indexed", "creating", "working", "reporting",
           "reported", "updating", "ended", "dead"}

QueryStages == {"idle", "enrich", "listed", "meta", "report",
                "answered", "raised", "not found"}

Statuses == {"completed", "failed", "profiled"}

Meta == [identity : BOOLEAN, status : Statuses \cup {"none"}]

(* Mutant: profile runs get a status nobody else knows.                        *)
FinalStatusesNew(r) ==
    IF KindOf(r) = "agent" THEN {"completed", "failed"} ELSE {"finished"}

(* The status a command records; optimize records none.                        *)
FinalStatuses(r) ==
    CASE KindOf(r) = "agent" -> {"completed", "failed"}
      [] KindOf(r) = "profile" -> {"profiled"}
      [] OTHER -> {}

NoMeta == [identity |-> FALSE, status |-> "none"]

FileStates == {"missing", "empty", "written"}

Missing == [state |-> "missing", data |-> NoMeta]

Truncated == [state |-> "empty", data |-> NoMeta]

Written(data) == [state |-> "written", data |-> data]

Registered == {r \in Runs : run[r] \in {"working", "reporting", "reported", "updating", "ended"}}

Recorded == {r \in Runs : run[r] = "ended" /\ KindOf(r) # "optimize"}

Idle == [at |-> "idle", todo |-> <<>>, rows |-> <<>>, run |-> Garbage,
         meta |-> NoMeta, report |-> FALSE]

Init ==
    /\ run = [r \in Runs |-> "new"]
    /\ dirs = {}
    /\ index = <<>> /\ open_line = FALSE
    /\ meta = [r \in Runs |-> Missing]
    /\ report = [r \in Runs |-> "missing"]
    /\ held = [r \in Runs |-> NoMeta]
    /\ query = Idle
    /\ ghost = [before |-> [r \in Runs |-> {}], tears |-> 0,
                known |-> {}, recorded |-> {}]

Move(r, stage) == run' = [run EXCEPT ![r] = stage]

-----------------------------------------------------------------------------
(* new_run: directories, a line of the index, meta.json.                       *)

MakeDirs(r) ==
    /\ run[r] = "new"
    /\ dirs' = dirs \cup {r}
    /\ ghost' = [ghost EXCEPT !.before[r] = Registered]
    /\ Move(r, "dirs")
    /\ UNCHANGED <<index, open_line, meta, report, held, query>>

(* Mutant: the index is opened for writing, not for appending.                 *)
AppendedAnew(line) == <<line>>

(* What the file ends with when text is appended: behind a torn line it only   *)
(* makes more garbage of that line.                                            *)
Appended(line) ==
    IF open_line THEN [index EXCEPT ![Len(index)] = Garbage] ELSE Append(index, line)

AppendIndex(r) ==
    /\ run[r] = "dirs"
    /\ index' = Appended(r)
    /\ open_line' = FALSE
    /\ Move(r, "indexed")
    /\ UNCHANGED <<dirs, meta, report, held, query, ghost>>

(* The disk is full: part of the line, or all of it but its end, gets there,   *)
(* and new_run raises.                                                         *)
AppendTorn(r) ==
    /\ run[r] = "dirs"
    /\ ghost.tears < MaxTears
    /\ \E line \in {r, Garbage} : index' = Appended(line)
    /\ open_line' = TRUE
    /\ ghost' = [ghost EXCEPT !.tears = @ + 1]
    /\ Move(r, "dead")
    /\ UNCHANGED <<dirs, meta, report, held, query>>

Truncate(r, next) ==
    /\ meta' = [meta EXCEPT ![r] = Truncated]
    /\ Move(r, next)

CreateMeta(r) ==
    /\ run[r] = "indexed"
    /\ Truncate(r, "creating")
    /\ UNCHANGED <<dirs, index, open_line, report, held, query, ghost>>

WriteMeta(r) ==
    /\ run[r] = "creating"
    /\ meta' = [meta EXCEPT ![r] = Written([identity |-> TRUE, status |-> "none"])]
    /\ Move(r, "working")
    /\ UNCHANGED <<dirs, index, open_line, report, held, query, ghost>>

-----------------------------------------------------------------------------
(* generate_reports, then update_meta.                                         *)

BeginReport(r) ==
    /\ run[r] = "working"
    /\ report' = [report EXCEPT ![r] = "empty"]
    /\ Move(r, "reporting")
    /\ UNCHANGED <<dirs, index, open_line, meta, held, query, ghost>>

EndReport(r) ==
    /\ run[r] = "reporting"
    /\ report' = [report EXCEPT ![r] = "written"]
    /\ Move(r, IF KindOf(r) = "optimize" THEN "ended" ELSE "reported")
    /\ UNCHANGED <<dirs, index, open_line, meta, held, query, ghost>>

(* Mutant: the updates are written without reading what was there.             *)
BeginUpdateUnread(r) ==
    /\ run[r] = "reported"
    /\ held' = [held EXCEPT ![r] = NoMeta]
    /\ Truncate(r, "updating")
    /\ UNCHANGED <<dirs, index, open_line, report, query, ghost>>

BeginUpdate(r) ==
    /\ run[r] = "reported"
    /\ held' = [held EXCEPT ![r] = meta[r].data]
    /\ Truncate(r, "updating")
    /\ UNCHANGED <<dirs, index, open_line, report, query, ghost>>

EndUpdate(r) ==
    /\ run[r] = "updating"
    /\ \E status \in FinalStatuses(r) :
          meta' = [meta EXCEPT ![r] = Written([held[r] EXCEPT !.status = status])]
    /\ held' = [held EXCEPT ![r] = NoMeta]
    /\ Move(r, "ended")
    /\ UNCHANGED <<dirs, index, open_line, report, query, ghost>>

(* Killed, or raised out of the command: nothing is cleaned up.                *)
Dies(r) ==
    /\ run[r] \notin {"new", "ended", "dead"}
    /\ Move(r, "dead")
    /\ UNCHANGED <<dirs, index, open_line, meta, report, held, query, ghost>>

-----------------------------------------------------------------------------
(* A client: list_runs, then get_run of a run it lists.                        *)

Lines == {i \in DOMAIN index : index[i] # Garbage}

Shown == IF Cardinality(Lines) < Limit THEN Cardinality(Lines) ELSE Limit

(* The lines that decode, the newest first and no more than Limit of them.     *)
(* There is one such sequence.                                                 *)
Listings ==
    {[p \in DOMAIN place |-> index[place[p]]] :
        place \in {f \in [1 .. Shown -> Lines] :
                     /\ \A p, q \in 1 .. Shown : p < q => f[p] > f[q]
                     /\ \A i \in Lines, p \in 1 .. Shown :
                           (\A q \in 1 .. Shown : f[q] # i) => i < f[p]}}

ListRuns ==
    /\ query.at \in {"idle", "listed", "answered", "raised"}
    /\ \E lines \in Listings :
          query' = [Idle EXCEPT !.at = IF lines = <<>> THEN "listed" ELSE "enrich",
                                !.todo = lines]
    /\ ghost' = [ghost EXCEPT !.known = Registered, !.recorded = Recorded]
    /\ UNCHANGED <<run, dirs, index, open_line, meta, report, held>>

Enrich ==
    /\ query.at = "enrich"
    /\ LET r == Head(query.todo)
       IN  query' = [query EXCEPT
               !.at = IF Tail(query.todo) = <<>> THEN "listed" ELSE @,
               !.todo = Tail(@),
               !.rows = Append(@, [run |-> r, status |-> meta[r].data.status])]
    /\ UNCHANGED <<run, dirs, index, open_line, meta, report, held, ghost>>

OpenRun ==
    /\ query.at = "listed"
    /\ \E i \in 1 .. Len(query.rows) :
          query' = [Idle EXCEPT !.run = query.rows[i].run,
                                !.at = IF query.rows[i].run \in dirs THEN "meta"
                                       ELSE "not found"]
    /\ ghost' = [ghost EXCEPT !.known = {}, !.recorded = Recorded]
    /\ UNCHANGED <<run, dirs, index, open_line, meta, report, held>>

(* A meta.json that does not decode is an error of get_run itself.             *)
GetMeta ==
    /\ query.at = "meta"
    /\ query' = [query EXCEPT !.meta = meta[query.run].data,
                              !.at = IF meta[query.run].state = "empty" THEN "raised"
                                     ELSE "report"]
    /\ UNCHANGED <<run, dirs, index, open_line, meta, report, held, ghost>>

GetReport ==
    /\ query.at = "report"
    /\ query' = [query EXCEPT !.report = report[query.run] = "written",
                              !.at = "answered"]
    /\ UNCHANGED <<run, dirs, index, open_line, meta, report, held, ghost>>

Next ==
    \/ \E r \in Runs :
          \/ MakeDirs(r) \/ AppendIndex(r) \/ AppendTorn(r)
          \/ CreateMeta(r) \/ WriteMeta(r)
          \/ BeginReport(r) \/ EndReport(r) \/ BeginUpdate(r) \/ EndUpdate(r)
          \/ Dies(r)
    \/ ListRuns \/ Enrich \/ OpenRun \/ GetMeta \/ GetReport

Spec == Init /\ [][Next]_vars

-----------------------------------------------------------------------------
(* Properties.                                                                 *)

TypeOK ==
    /\ run \in [Runs -> Stages]
    /\ dirs \subseteq Runs
    /\ index \in Seq(Runs \cup {Garbage}) /\ open_line \in BOOLEAN
    /\ meta \in [Runs -> [state : FileStates, data : Meta]]
    /\ report \in [Runs -> FileStates]
    /\ held \in [Runs -> Meta]
    /\ query.at \in QueryStages
    /\ query.todo \in Seq(Runs)
    /\ query.rows \in Seq([run : Runs, status : Statuses \cup {"none"}])

Rows == {query.rows[i].run : i \in 1 .. Len(query.rows)}

(* Whatever else is written meanwhile, a listing with room left misses no run  *)
(* that was registered when it was asked for, save one for each torn line; and *)
(* it never shows an older run above a newer one.                              *)
ListingComplete ==
    query.at = "listed" =>
        /\ Len(query.rows) < Limit =>
              Cardinality(ghost.known \ Rows) <= ghost.tears
        /\ \A i, j \in 1 .. Len(query.rows) :
              i < j => query.rows[i].run \notin ghost.before[query.rows[j].run]

(* A run whose status was recorded is listed with it from then on, every listed*)
(* run can be opened, and a recorded one answers in full: its identity, its    *)
(* status and its report.                                                      *)
RecordedIsSeen ==
    /\ query.at \in {"enrich", "listed"} =>
          \A i \in 1 .. Len(query.rows) :
              query.rows[i].run \in ghost.recorded =>
                  query.rows[i].status \in FinalStatuses(query.rows[i].run)
    /\ query.at # "not found"
    /\ query.run \in ghost.recorded /\ query.at \in {"answered", "raised"} =>
          /\ query.at = "answered"
          /\ query.meta.identity /\ query.meta.status \in FinalStatuses(query.run)
          /\ query.report
=============================================================================
