--------------------------- MODULE RunStore_proofs ---------------------------
(* Theorems about RunStore, for any number of runs, any limit of a listing and *)
(* any number of torn lines.                                                   *)
EXTENDS RunStore, FiniteSetTheorems, SequenceTheorems, TLAPS

-----------------------------------------------------------------------------
(* RecordedIsSeen speaks of what a reader pieced together from several files   *)
(* at several times.  Behind it: what each file holds follows from how far its *)
(* run is, the index only names directories that exist, and what a query has   *)
(* read of a run that was recorded when it began cannot go stale.              *)

Entire(data, r) == data.identity /\ data.status \in FinalStatuses(r)

Begun == [identity |-> TRUE, status |-> "none"]

QueryType == [at : QueryStages, todo : Seq(Runs),
              rows : Seq([run : Runs, status : Statuses \cup {"none"}]),
              run : Runs \cup {Garbage}, meta : Meta, report : BOOLEAN]

GhostType == [before : [Runs -> SUBSET Runs], tears : Nat,
              known : SUBSET Runs, recorded : SUBSET Runs]

Types ==
    /\ TypeOK
    /\ query \in QueryType
    /\ ghost \in GhostType

FilesInv ==
    \A r \in Runs :
        /\ run[r] # "new" => r \in dirs
        /\ run[r] \in {"working", "reporting", "reported"} => meta[r] = Written(Begun)
        /\ run[r] = "updating" => held[r] = Begun
        /\ run[r] \in {"reported", "updating", "ended"} => report[r] = "written"
        /\ run[r] = "ended" /\ KindOf(r) # "optimize" =>
              meta[r].state = "written" /\ Entire(meta[r].data, r)

IndexInv ==
    /\ \A i \in DOMAIN index : index[i] # Garbage => index[i] \in dirs
    /\ open_line => index # <<>>

QueryInv ==
    /\ ghost.recorded \subseteq Recorded
    /\ \A i \in DOMAIN query.todo : query.todo[i] \in dirs
    /\ query.at = "enrich" => query.todo # <<>>
    /\ \A i \in DOMAIN query.rows :
          /\ query.rows[i].run \in dirs
          /\ query.rows[i].run \in ghost.recorded =>
                query.rows[i].status \in FinalStatuses(query.rows[i].run)
    /\ query.at \in {"meta", "report"} => query.run \in Runs
    /\ query.at # "not found"
    /\ query.run \in ghost.recorded =>
          /\ query.at # "raised"
          /\ query.at \in {"report", "answered"} => Entire(query.meta, query.run)
          /\ query.at = "answered" => query.report

StoreInv == Types /\ FilesInv /\ IndexInv /\ QueryInv

-----------------------------------------------------------------------------
(* What is written is a file with its content.                                 *)
LEMMA WrittenType ==
    ASSUME NEW data \in Meta
    PROVE  /\ Written(data) \in [state : FileStates, data : Meta]
           /\ Written(data).state = "written" /\ Written(data).data = data
BY DEF Written, FileStates

(* The constants of the files have their types.                                *)
LEMMA ContentTypes ==
    /\ Begun \in Meta /\ NoMeta \in Meta
    /\ Missing \in [state : FileStates, data : Meta]
    /\ Truncated \in [state : FileStates, data : Meta]
    /\ Idle \in QueryType
BY EmptySeq DEF Begun, NoMeta, Meta, Missing, Truncated, FileStates, Idle, QueryType, QueryStages

(* Completing what is read with a final status gives a recorded meta.json.     *)
LEMMA UpdatedMeta ==
    ASSUME NEW r \in Runs, NEW status \in FinalStatuses(r)
    PROVE  /\ status \in Statuses
           /\ [Begun EXCEPT !.status = status] \in Meta
           /\ Entire([Begun EXCEPT !.status = status], r)
<1>1. status \in Statuses
  BY DEF FinalStatuses, Statuses
<1> QED BY <1>1 DEF Begun, Meta, Entire

(* A listing holds directories that exist.                                     *)
LEMMA ListingsNameRuns ==
    ASSUME Types, IndexInv, NEW lines \in Listings
    PROVE  /\ lines \in Seq(Runs)
           /\ \A i \in DOMAIN lines : lines[i] \in dirs
<1>1. PICK place \in [1 .. Shown -> Lines] : lines = [p \in DOMAIN place |-> index[place[p]]]
  BY DEF Listings
<1>2. index \in Seq(Runs \cup {Garbage}) /\ dirs \subseteq Runs
  BY DEF Types, TypeOK
<1>3. \A i \in Lines : index[i] \in dirs
  BY DEF Lines, IndexInv
<1>4. lines \in [1 .. Shown -> dirs] /\ DOMAIN lines = 1 .. Shown
  BY <1>1, <1>3
<1>5. Shown \in Nat
  <2>1. IsFiniteSet(1 .. Len(index)) /\ Len(index) \in Nat
    BY <1>2, LenProperties, FS_Interval
  <2>2. Lines \in SUBSET (1 .. Len(index))
    BY <1>2, LenProperties DEF Lines
  <2>3. Cardinality(Lines) \in Nat
    BY <2>1, <2>2, FS_Subset, FS_CardinalityType
  <2> QED BY <2>3, StoreAssumption DEF Shown
<1>6. lines \in [1 .. Shown -> Runs]
  BY <1>2, <1>4
<1>7. lines \in Seq(Runs)
  BY <1>5, <1>6, SeqDef
<1> QED BY <1>4, <1>7

-----------------------------------------------------------------------------
(* Appending leaves the other lines alone, or turns the open one into garbage. *)
LEMMA AppendedLines ==
    ASSUME Types, IndexInv, NEW line \in dirs \cup {Garbage}
    PROVE  /\ Appended(line) \in Seq(Runs \cup {Garbage})
           /\ Appended(line) # <<>>
           /\ \A i \in DOMAIN Appended(line) : Appended(line)[i] # Garbage => Appended(line)[i] \in dirs
<1>1. /\ index \in Seq(Runs \cup {Garbage}) /\ line \in Runs \cup {Garbage}
      /\ DOMAIN index = 1 .. Len(index) /\ Len(index) \in Nat
  BY LenProperties DEF Types, TypeOK
<1>2. CASE open_line
  <2>1. Appended(line) = [index EXCEPT ![Len(index)] = Garbage]
    BY <1>2 DEF Appended
  <2>2. Len(index) \in 1 .. Len(index)
    <3>1. index # <<>>
      BY <1>2 DEF IndexInv
    <3>2. Len(index) # 0
      BY <1>1, <3>1, EmptySeq
    <3> QED BY <1>1, <3>2
  <2>3. Appended(line) \in Seq(Runs \cup {Garbage}) /\ DOMAIN Appended(line) = DOMAIN index
    BY <1>1, <2>1, <2>2, ExceptSeq
  <2>4. \A i \in DOMAIN index : Appended(line)[i] = IF i = Len(index) THEN Garbage ELSE index[i]
    BY <1>1, <2>1
  <2> QED BY <1>1, <2>2, <2>3, <2>4, EmptySeq DEF IndexInv
<1>3. CASE ~open_line
  <2>1. Appended(line) = Append(index, line)
    BY <1>3 DEF Appended
  <2>2. /\ Append(index, line) \in Seq(Runs \cup {Garbage})
        /\ Append(index, line) # <<>>
        /\ DOMAIN Append(index, line) = 1 .. Len(index) + 1
        /\ Append(index, line)[Len(index) + 1] = line
        /\ \A i \in 1 .. Len(index) : Append(index, line)[i] = index[i]
    BY <1>1, AppendProperties, LenProperties
  <2> QED BY <1>1, <2>1, <2>2 DEF IndexInv
<1> QED BY <1>2, <1>3

-----------------------------------------------------------------------------
(* What the writer of one run does to its files leaves those of the others.    *)
FileOk(r, stage, file, kept, rep, there) ==
    /\ stage # "new" => r \in there
    /\ stage \in {"working", "reporting", "reported"} => file = Written(Begun)
    /\ stage = "updating" => kept = Begun
    /\ stage \in {"reported", "updating", "ended"} => rep = "written"
    /\ stage = "ended" /\ KindOf(r) # "optimize" =>
          file.state = "written" /\ Entire(file.data, r)

(* The files of every run are in order.                                        *)
LEMMA FilesByRun == FilesInv <=> \A r \in Runs : FileOk(r, run[r], meta[r], held[r], report[r], dirs)
BY DEF FilesInv, FileOk

(* A step of a writer: only its own entries change, directories stay.          *)
LEMMA WriterKeepsFiles ==
    ASSUME Types, FilesInv, NEW r \in Runs, dirs \subseteq dirs',
           NEW stage \in Stages, Move(r, stage),
           \A i \in Runs \ {r} : meta'[i] = meta[i] /\ held'[i] = held[i] /\ report'[i] = report[i],
           FileOk(r, stage, meta'[r], held'[r], report'[r], dirs')
    PROVE  FilesInv' /\ run' \in [Runs -> Stages]
<1>1. /\ run \in [Runs -> Stages] /\ run' \in [Runs -> Stages] /\ run'[r] = stage
      /\ \A i \in Runs \ {r} : run'[i] = run[i]
  BY DEF Types, TypeOK, Move
<1>2. ASSUME NEW i \in Runs PROVE FileOk(i, run'[i], meta'[i], held'[i], report'[i], dirs')
  <2>1. CASE i = r
    BY <1>1, <2>1
  <2>2. CASE i # r
    BY <1>1, <2>2, FilesByRun DEF FileOk
  <2> QED BY <2>1, <2>2
<1>3. FilesInv'
  BY <1>2 DEF FilesInv, FileOk
<1> QED BY <1>1, <1>3

(* A step of a writer keeps what a query knows, as an ended run stays so.      *)
LEMMA WriterKeepsQuery ==
    ASSUME Types, QueryInv, NEW r \in Runs, NEW stage \in Stages, Move(r, stage),
           run[r] # "ended", dirs \subseteq dirs', UNCHANGED query,
           ghost'.recorded = ghost.recorded
    PROVE  QueryInv'
<1>1. Recorded \subseteq Recorded'
  BY DEF Types, TypeOK, Move, Recorded
<1> QED BY <1>1 DEF QueryInv

(* Making the directories, and the line of the index.                          *)
LEMMA NewRunKeeps ==
    ASSUME StoreInv, NEW r \in Runs, MakeDirs(r) \/ AppendIndex(r) \/ AppendTorn(r)
    PROVE  StoreInv'
<1> USE DEF StoreInv
<1>1. CASE MakeDirs(r)
  <2>1. /\ run[r] = "new" /\ Move(r, "dirs") /\ dirs' = dirs \cup {r}
        /\ UNCHANGED <<index, open_line, meta, report, held, query>>
        /\ ghost' = [ghost EXCEPT !.before[r] = Registered]
    BY <1>1 DEF MakeDirs
  <2>2. FilesInv' /\ run' \in [Runs -> Stages]
    BY <2>1, WriterKeepsFiles DEF Stages, FileOk
  <2>3. ghost' \in GhostType /\ ghost'.recorded = ghost.recorded
    BY <2>1 DEF Types, GhostType, Registered
  <2>4. QueryInv'
    BY <2>1, <2>3, WriterKeepsQuery DEF Stages
  <2>5. Types'
    BY <2>1, <2>2, <2>3 DEF Types, TypeOK
  <2> QED BY <2>1, <2>2, <2>4, <2>5 DEF IndexInv
<1>2. CASE AppendIndex(r) \/ AppendTorn(r)
  <2>1. PICK line \in {r, Garbage} :
           /\ run[r] = "dirs" /\ index' = Appended(line)
           /\ UNCHANGED <<dirs, meta, report, held, query>>
           /\ open_line' \in BOOLEAN
           /\ ghost' \in {ghost, [ghost EXCEPT !.tears = @ + 1]}
    BY <1>2 DEF AppendIndex, AppendTorn
  <2>2. PICK stage \in {"indexed", "dead"} : Move(r, stage)
    BY <1>2 DEF AppendIndex, AppendTorn
  <2>3. r \in dirs
    BY <2>1 DEF FilesInv
  <2>4. /\ index' \in Seq(Runs \cup {Garbage}) /\ index' # <<>>
        /\ \A i \in DOMAIN index' : index'[i] # Garbage => index'[i] \in dirs
    BY <2>1, <2>3, AppendedLines
  <2>5. FilesInv' /\ run' \in [Runs -> Stages]
    BY <2>1, <2>2, <2>3, WriterKeepsFiles DEF Stages, FileOk
  <2>6. ghost' \in GhostType /\ ghost'.recorded = ghost.recorded
    BY <2>1 DEF Types, GhostType
  <2>7. QueryInv'
    BY <2>1, <2>2, <2>6, WriterKeepsQuery DEF Stages
  <2>8. Types'
    BY <2>1, <2>4, <2>5, <2>6 DEF Types, TypeOK
  <2> QED BY <2>1, <2>4, <2>5, <2>7, <2>8 DEF IndexInv
<1> QED BY <1>1, <1>2

(* Every other step of a writer concerns its meta.json or its report.json.     *)
LEMMA WriterKeeps ==
    ASSUME StoreInv, NEW r \in Runs,
           \/ CreateMeta(r) \/ WriteMeta(r) \/ BeginReport(r) \/ EndReport(r)
           \/ BeginUpdate(r) \/ EndUpdate(r) \/ Dies(r)
    PROVE  StoreInv'
<1> USE DEF StoreInv
<1>1. UNCHANGED <<dirs, index, open_line, query, ghost>> /\ run[r] \notin {"new", "ended"}
  BY DEF CreateMeta, WriteMeta, BeginReport, EndReport, BeginUpdate, EndUpdate, Dies
<1>2. /\ r \in dirs
      /\ meta \in [Runs -> [state : FileStates, data : Meta]]
      /\ held \in [Runs -> Meta] /\ report \in [Runs -> FileStates]
      /\ FileOk(r, run[r], meta[r], held[r], report[r], dirs)
  BY <1>1, FilesByRun DEF FilesInv, Types, TypeOK
<1>3. ASSUME NEW stage \in Stages, Move(r, stage),
             \A i \in Runs \ {r} : meta'[i] = meta[i] /\ held'[i] = held[i] /\ report'[i] = report[i],
             FileOk(r, stage, meta'[r], held'[r], report'[r], dirs),
             meta' \in [Runs -> [state : FileStates, data : Meta]],
             held' \in [Runs -> Meta], report' \in [Runs -> FileStates]
      PROVE  StoreInv'
  <2>1. FilesInv' /\ run' \in [Runs -> Stages]
    BY <1>1, <1>3, WriterKeepsFiles
  <2>2. QueryInv'
    BY <1>1, <1>3, WriterKeepsQuery
  <2>3. Types'
    BY <1>1, <1>3, <2>1 DEF Types, TypeOK
  <2> QED BY <1>1, <2>1, <2>2, <2>3 DEF IndexInv
<1>4. CASE CreateMeta(r)
  <2>1. /\ Move(r, "creating") /\ meta' = [meta EXCEPT ![r] = Truncated] /\ UNCHANGED <<report, held>>
    BY <1>4 DEF CreateMeta, Truncate
  <2> QED BY <1>2, <1>3, <2>1, ContentTypes DEF Stages, FileOk
<1>5. CASE WriteMeta(r)
  <2>1. /\ Move(r, "working") /\ meta' = [meta EXCEPT ![r] = Written(Begun)] /\ UNCHANGED <<report, held>>
    BY <1>5 DEF WriteMeta, Begun
  <2>2. Written(Begun) \in [state : FileStates, data : Meta]
    BY WrittenType, ContentTypes
  <2> QED BY <1>2, <1>3, <2>1, <2>2 DEF Stages, FileOk
<1>6. CASE BeginReport(r)
  <2>1. /\ run[r] = "working" /\ Move(r, "reporting")
        /\ report' = [report EXCEPT ![r] = "empty"] /\ UNCHANGED <<meta, held>>
    BY <1>6 DEF BeginReport
  <2> QED BY <1>2, <1>3, <2>1 DEF Stages, FileOk, FileStates
<1>7. CASE EndReport(r)
  <2>1. /\ run[r] = "reporting" /\ report' = [report EXCEPT ![r] = "written"]
        /\ UNCHANGED <<meta, held>>
    BY <1>7 DEF EndReport
  <2>2. PICK stage \in {"ended", "reported"} :
           Move(r, stage) /\ (stage = "ended" => KindOf(r) = "optimize")
    BY <1>7 DEF EndReport
  <2> QED BY <1>2, <1>3, <2>1, <2>2 DEF Stages, FileOk, FileStates
<1>8. CASE BeginUpdate(r)
  <2>1. /\ run[r] = "reported" /\ held' = [held EXCEPT ![r] = meta[r].data]
        /\ Move(r, "updating") /\ meta' = [meta EXCEPT ![r] = Truncated] /\ UNCHANGED report
    BY <1>8 DEF BeginUpdate, Truncate
  <2>2. meta[r].data = Begun
    BY <1>2, <2>1, WrittenType, ContentTypes DEF FileOk
  <2> QED BY <1>2, <1>3, <2>1, <2>2, ContentTypes DEF Stages, FileOk
<1>9. CASE EndUpdate(r)
  <2>1. PICK status \in FinalStatuses(r) :
           meta' = [meta EXCEPT ![r] = Written([held[r] EXCEPT !.status = status])]
    BY <1>9 DEF EndUpdate
  <2>2. /\ run[r] = "updating" /\ held' = [held EXCEPT ![r] = NoMeta]
        /\ Move(r, "ended") /\ UNCHANGED report
    BY <1>9 DEF EndUpdate
  <2> DEFINE data == [Begun EXCEPT !.status = status]
  <2>3. held[r] = Begun
    BY <1>2, <2>2 DEF FileOk
  <2>4. data \in Meta /\ Entire(data, r)
    BY UpdatedMeta
  <2>5. meta' = [meta EXCEPT ![r] = Written(data)]
    BY <2>1, <2>3
  <2> HIDE DEF data
  <2>6. /\ Written(data) \in [state : FileStates, data : Meta]
        /\ Written(data).state = "written" /\ Written(data).data = data
    BY <2>4, WrittenType
  <2> QED BY <1>2, <1>3, <2>2, <2>4, <2>5, <2>6, ContentTypes DEF Stages, FileOk
<1>10. CASE Dies(r)
  <2>1. Move(r, "dead") /\ UNCHANGED <<meta, held, report>>
    BY <1>10 DEF Dies
  <2> QED BY <1>2, <1>3, <2>1 DEF Stages, FileOk
<1> QED BY <1>4, <1>5, <1>6, <1>7, <1>8, <1>9, <1>10

-----------------------------------------------------------------------------
(* What the reader gathers: each row is right when it is taken, and a recorded *)
(* run's files do not change any more.                                         *)
LEMMA ReaderKeeps ==
    ASSUME StoreInv, ListRuns \/ Enrich \/ OpenRun \/ GetMeta \/ GetReport
    PROVE  StoreInv'
<1> USE DEF StoreInv
<1>1. UNCHANGED <<run, dirs, index, open_line, meta, report, held>>
  BY DEF ListRuns, Enrich, OpenRun, GetMeta, GetReport
<1>2. FilesInv' /\ IndexInv' /\ Recorded' = Recorded
  BY <1>1 DEF FilesInv, IndexInv, Recorded
<1>3. ASSUME query' \in QueryType, ghost' \in GhostType PROVE Types'
  BY <1>1, <1>3 DEF Types, TypeOK, QueryType
<1>4. /\ query \in QueryType /\ ghost \in GhostType /\ Idle \in QueryType
      /\ dirs \subseteq Runs /\ Recorded \subseteq Runs /\ Registered \subseteq Runs
  BY ContentTypes DEF Types, TypeOK, Recorded, Registered
<1>5. CASE ListRuns
  <2>1. PICK lines \in Listings :
           query' = [Idle EXCEPT !.at = IF lines = <<>> THEN "listed" ELSE "enrich",
                                 !.todo = lines]
    BY <1>5 DEF ListRuns
  <2>2. lines \in Seq(Runs) /\ \A i \in DOMAIN lines : lines[i] \in dirs
    BY ListingsNameRuns
  <2>3. ghost' = [ghost EXCEPT !.known = Registered, !.recorded = Recorded]
    BY <1>5 DEF ListRuns
  <2>4. ghost' \in GhostType /\ ghost'.recorded = Recorded
    BY <1>4, <2>3 DEF GhostType
  <2>5. /\ query' \in QueryType /\ query'.todo = lines /\ query'.rows = <<>>
        /\ query'.at \in {"listed", "enrich"} /\ (query'.at = "enrich" => lines # <<>>)
    BY <1>4, <2>1, <2>2 DEF Idle, QueryType, QueryStages
  <2>6. /\ DOMAIN query'.rows = {} /\ query'.at \notin {"meta", "report", "not found", "raised", "answered"}
        /\ \A i \in DOMAIN query'.todo : query'.todo[i] \in dirs'
    <3>1. DOMAIN query'.rows = {}
      BY <2>5
    <3>2. query'.at \notin {"meta", "report", "not found", "raised", "answered"}
      BY <2>5
    <3>3. \A i \in DOMAIN query'.todo : query'.todo[i] \in dirs'
      <4>1. query'.todo = lines /\ dirs' = dirs
        BY <1>1, <2>5
      <4>2. \A i \in DOMAIN lines : lines[i] \in dirs
        BY <2>2
      <4> QED BY <4>1, <4>2, Zenon
    <3> QED BY <3>1, <3>2, <3>3
  <2>7. QueryInv'
    BY <1>2, <2>4, <2>5, <2>6 DEF QueryInv
  <2> QED BY <1>2, <1>3, <2>4, <2>5, <2>7
<1>6. CASE Enrich
  <2> DEFINE r == Head(query.todo)
             rest == Tail(query.todo)
             row == [run |-> r, status |-> meta[r].data.status]
  <2>1. query.at = "enrich" /\ query.todo \in Seq(Runs) /\ query.todo # <<>>
    BY <1>4, <1>6 DEF Enrich, QueryInv, QueryType
  <2>2. /\ rest \in Seq(Runs) /\ r \in Runs /\ r \in dirs
        /\ \A i \in DOMAIN rest : rest[i] \in dirs
    <3>1. /\ rest \in Seq(Runs) /\ r \in Runs /\ r = query.todo[1]
          /\ Len(rest) = Len(query.todo) - 1
          /\ \A i \in 1 .. Len(rest) : rest[i] = query.todo[i + 1]
      BY <2>1, HeadTailProperties
    <3>2. /\ DOMAIN query.todo = 1 .. Len(query.todo) /\ Len(query.todo) \in Nat
          /\ DOMAIN rest = 1 .. Len(rest) /\ Len(query.todo) # 0
      BY <2>1, <3>1, LenProperties, EmptySeq
    <3>3. \A i \in DOMAIN query.todo : query.todo[i] \in dirs
      BY DEF QueryInv
    <3> HIDE DEF rest, r
    <3>4. 1 \in DOMAIN query.todo
      BY <3>2
    <3>5. \A i \in DOMAIN rest : i + 1 \in DOMAIN query.todo
      BY <3>1, <3>2
    <3> QED BY <3>1, <3>2, <3>3, <3>4, <3>5
  <2> HIDE DEF r, rest
  <2>3. /\ row \in [run : Runs, status : Statuses \cup {"none"}]
        /\ row.run = r /\ (r \in ghost.recorded => row.status \in FinalStatuses(r))
    <3>1. meta[r].data \in Meta
      BY <2>2 DEF Types, TypeOK
    <3>2. r \in ghost.recorded => meta[r].data.status \in FinalStatuses(r)
      BY <2>2 DEF QueryInv, Recorded, FilesInv, Entire
    <3> QED BY <2>2, <3>1, <3>2 DEF Meta
  <2> HIDE DEF row
  <2>4. UNCHANGED ghost
    BY <1>6 DEF Enrich
  <2>5. /\ query' \in QueryType /\ query'.todo = rest /\ query'.rows = Append(query.rows, row)
        /\ query'.at \in {"listed", "enrich"} /\ (query'.at = "enrich" => rest # <<>>)
    <3>1. query' = [query EXCEPT !.at = IF rest = <<>> THEN "listed" ELSE @, !.todo = rest,
                                 !.rows = Append(@, row)]
      BY <1>6 DEF Enrich, r, rest, row
    <3>2. Append(query.rows, row) \in Seq([run : Runs, status : Statuses \cup {"none"}])
      BY <1>4, <2>3, AppendProperties DEF QueryType
    <3> QED BY <1>4, <2>1, <2>2, <3>1, <3>2 DEF QueryType, QueryStages
  <2>6. \A i \in DOMAIN query'.rows :
          query'.rows[i] = row \/ (i \in DOMAIN query.rows /\ query'.rows[i] = query.rows[i])
    <3>1. query.rows \in Seq([run : Runs, status : Statuses \cup {"none"}])
      BY <1>4 DEF QueryType
    <3> QED BY <2>3, <2>5, <3>1, AppendProperties, LenProperties
  <2>7. QueryInv'
    BY <1>2, <1>1, <2>2, <2>3, <2>4, <2>5, <2>6 DEF QueryInv
  <2> QED BY <1>2, <1>3, <1>4, <2>4, <2>5, <2>7
<1>7. CASE OpenRun
  <2>1. PICK i \in 1 .. Len(query.rows) :
          query' = [Idle EXCEPT !.run = query.rows[i].run,
                                !.at = IF query.rows[i].run \in dirs THEN "meta" ELSE "not found"]
    BY <1>7 DEF OpenRun
  <2>2. query.rows[i].run \in dirs
    <3>1. i \in DOMAIN query.rows
      BY <1>4, LenProperties DEF QueryType
    <3> QED BY <3>1 DEF QueryInv
  <2>3. /\ query' \in QueryType /\ query'.at = "meta" /\ query'.run \in Runs
        /\ query'.todo = <<>> /\ query'.rows = <<>>
    BY <1>4, <2>1, <2>2 DEF Idle, QueryType, QueryStages
  <2>4. ghost' \in GhostType /\ ghost'.recorded = Recorded
    BY <1>4, <1>7 DEF OpenRun, GhostType
  <2>5. DOMAIN query'.rows = {} /\ DOMAIN query'.todo = {}
    BY <2>3
  <2>6. QueryInv'
    BY <1>2, <2>3, <2>4, <2>5 DEF QueryInv
  <2> QED BY <1>2, <1>3, <2>3, <2>4, <2>6
<1>8. CASE GetMeta
  <2>1. query.at = "meta" /\ query.run \in Runs /\ UNCHANGED ghost
    BY <1>8 DEF GetMeta, QueryInv
  <2>2. query' = [query EXCEPT !.meta = meta[query.run].data,
                               !.at = IF meta[query.run].state = "empty" THEN "raised" ELSE "report"]
    BY <1>8 DEF GetMeta
  <2>3. meta[query.run].data \in Meta
    BY <2>1 DEF Types, TypeOK
  <2>4. query.run \in ghost.recorded =>
          meta[query.run].state = "written" /\ Entire(meta[query.run].data, query.run)
    BY <2>1 DEF QueryInv, Recorded, FilesInv
  <2>5. /\ query' \in QueryType /\ query'.run = query.run /\ query'.todo = query.todo
        /\ query'.rows = query.rows /\ query'.meta = meta[query.run].data
        /\ query'.at = IF meta[query.run].state = "empty" THEN "raised" ELSE "report"
    BY <1>4, <2>2, <2>3 DEF QueryType, QueryStages
  <2>6. QueryInv'
    BY <1>1, <1>2, <2>1, <2>4, <2>5 DEF QueryInv
  <2> QED BY <1>2, <1>3, <1>4, <2>1, <2>5, <2>6
<1>9. CASE GetReport
  <2>1. query.at = "report" /\ query.run \in Runs /\ UNCHANGED ghost
    BY <1>9 DEF GetReport, QueryInv
  <2>2. query' = [query EXCEPT !.report = report[query.run] = "written", !.at = "answered"]
    BY <1>9 DEF GetReport
  <2>3. query.run \in ghost.recorded => report[query.run] = "written"
    BY <2>1 DEF QueryInv, Recorded, FilesInv
  <2>4. /\ query' \in QueryType /\ query'.run = query.run /\ query'.todo = query.todo
        /\ query'.rows = query.rows /\ query'.meta = query.meta /\ query'.at = "answered"
        /\ query'.report = (report[query.run] = "written")
    BY <1>4, <2>2 DEF QueryType, QueryStages
  <2>5. QueryInv'
    BY <1>1, <1>2, <2>1, <2>3, <2>4 DEF QueryInv
  <2> QED BY <1>2, <1>3, <1>4, <2>1, <2>4, <2>5
<1> QED BY <1>5, <1>6, <1>7, <1>8, <1>9

(* The invariant holds of every reachable state.                               *)
THEOREM StoreInvariant == Spec => []StoreInv
<1>1. ASSUME Init PROVE StoreInv
  <2>1. FilesInv /\ IndexInv
    BY <1>1, EmptySeq DEF Init, FilesInv, IndexInv
  <2>2. query = Idle /\ ghost.recorded = {} /\ ghost \in GhostType
    BY <1>1 DEF Init, GhostType
  <2>3. /\ query.todo = <<>> /\ query.rows = <<>> /\ query.at = "idle"
    BY <2>2 DEF Idle
  <2>4. QueryInv
    BY <2>2, <2>3, EmptySeq DEF QueryInv
  <2>5. TypeOK
    BY <1>1, <2>2, ContentTypes, EmptySeq DEF Init, TypeOK, Stages, FileStates, QueryType
  <2> QED BY <2>1, <2>2, <2>4, <2>5, ContentTypes DEF StoreInv, Types
<1>2. ASSUME StoreInv, [Next]_vars PROVE StoreInv'
  <2>1. CASE UNCHANGED vars
    BY <1>2, <2>1 DEF vars, StoreInv, Types, TypeOK, FilesInv, IndexInv, QueryInv, Recorded
  <2> QED BY <1>2, <2>1, NewRunKeeps, WriterKeeps, ReaderKeeps DEF Next
<1> QED BY <1>1, <1>2, PTL DEF Spec

(* However many runs there are and whoever is cut short: every file and every  *)
(* answer holds a value the code can put there.                                *)
THEOREM TypeCorrect == Spec => []TypeOK
<1>1. StoreInv => TypeOK
  BY DEF StoreInv, Types
<1> QED BY <1>1, StoreInvariant, PTL

(* However many runs there are, whoever writes at the same time and whichever  *)
(* of them is killed: a run whose status was recorded is listed with it and    *)
(* answers in full.                                                            *)
THEOREM RecordedAnswers == Spec => []RecordedIsSeen
<1>1. ASSUME StoreInv PROVE RecordedIsSeen
  <2>1. query.rows \in Seq([run : Runs, status : Statuses \cup {"none"}])
    BY <1>1 DEF StoreInv, Types, QueryType
  <2>2. DOMAIN query.rows = 1 .. Len(query.rows)
    BY <2>1, LenProperties
  <2> QED BY <1>1, <2>2 DEF StoreInv, QueryInv, RecordedIsSeen, Entire
<1> QED BY <1>1, StoreInvariant, PTL

-----------------------------------------------------------------------------
(* ListingComplete counts and compares what a query has collected since it     *)
(* read the index.  Behind it: a run that was registered before another's      *)
(* directories were made stands above it in the index; and each run whose line *)
(* is not there was torn, or fell behind a torn line, which no other run did.  *)

Past(r) == run[r] \notin {"new", "dirs"}

OrderInv ==
    /\ \A r \in Runs : \A x \in ghost.before[r] : Past(x)
    /\ \A i \in DOMAIN index : index[i] # Garbage => Past(index[i])
    /\ \A i, j \in DOMAIN index :
          i < j /\ index[i] # Garbage /\ index[j] # Garbage =>
              index[j] \notin ghost.before[index[i]]

(* The runs at work that the index does not name.                              *)
Lost == {r \in Runs : /\ run[r] \notin {"new", "dirs", "dead"}
                      /\ \A i \in DOMAIN index : index[i] # r}

CountInv ==
    /\ open_line /\ index[Len(index)] # Garbage => run[index[Len(index)]] = "dead"
    /\ IsFiniteSet(Lost)
    /\ Cardinality(Lost) + (IF open_line THEN 1 ELSE 0) <= ghost.tears

(* What the query has taken from the index: its rows, then what is to come.    *)
Taken(i) == IF i <= Len(query.rows) THEN query.rows[i].run
            ELSE query.todo[i - Len(query.rows)]

Total == Len(query.rows) + Len(query.todo)

Missed == ghost.known \ {Taken(i) : i \in 1 .. Total}

ListInv ==
    query.at \in {"enrich", "listed"} =>
        /\ query.at = "listed" => query.todo = <<>>
        /\ \A i \in 1 .. Total : Past(Taken(i))
        /\ \A i, j \in 1 .. Total : i < j => Taken(i) \notin ghost.before[Taken(j)]
        /\ Total < Limit => IsFiniteSet(Missed) /\ Cardinality(Missed) <= ghost.tears

ListingInv == StoreInv /\ OrderInv /\ CountInv /\ ListInv

(* A listing takes lines of the index from the last one upwards, and all of    *)
(* them when there is room.                                                    *)
LEMMA ListingsTakeFromTheEnd ==
    ASSUME Types, NEW lines \in Listings
    PROVE  \E place \in [1 .. Len(lines) -> Lines] :
             /\ lines \in Seq(Runs \cup {Garbage})
             /\ \A p \in 1 .. Len(lines) : lines[p] = index[place[p]]
             /\ \A p, q \in 1 .. Len(lines) : p < q => place[p] > place[q]
             /\ Len(lines) < Limit => \A i \in Lines : \E p \in 1 .. Len(lines) : place[p] = i
<1>1. PICK place \in [1 .. Shown -> Lines] :
         /\ lines = [p \in DOMAIN place |-> index[place[p]]]
         /\ \A p, q \in 1 .. Shown : p < q => place[p] > place[q]
  BY DEF Listings
<1>2. index \in Seq(Runs \cup {Garbage}) /\ DOMAIN index = 1 .. Len(index) /\ Len(index) \in Nat
  BY LenProperties DEF Types, TypeOK
<1>3. Lines \subseteq 1 .. Len(index) /\ IsFiniteSet(Lines) /\ Cardinality(Lines) \in Nat
  <2>1. IsFiniteSet(1 .. Len(index)) /\ Lines \in SUBSET (1 .. Len(index))
    BY <1>2, FS_Interval DEF Lines
  <2> QED BY <2>1, FS_Subset, FS_CardinalityType
<1>4. Shown \in Nat /\ (Shown < Limit => Shown = Cardinality(Lines))
  BY <1>3, StoreAssumption DEF Shown
<1>5. lines \in [1 .. Shown -> Runs \cup {Garbage}] /\ \A p \in 1 .. Shown : lines[p] = index[place[p]]
  <2>1. \A i \in Lines : index[i] \in Runs \cup {Garbage}
    BY <1>2, <1>3, ElementOfSeq
  <2> QED BY <1>1, <2>1
<1>6. lines \in Seq(Runs \cup {Garbage}) /\ Len(lines) = Shown
  <2>1. lines \in Seq(Runs \cup {Garbage})
    BY <1>4, <1>5, SeqDef
  <2> QED BY <1>4, <1>5, <2>1, LenProperties
<1>7. ASSUME Shown < Limit, NEW i \in Lines PROVE \E p \in 1 .. Shown : place[p] = i
  <2>1. place \in Injection(1 .. Shown, Lines)
    <3>1. \A p, q \in 1 .. Shown : place[p] = place[q] => p = q
      <4> SUFFICES ASSUME NEW p \in 1 .. Shown, NEW q \in 1 .. Shown, p < q
                   PROVE  place[p] # place[q]
        BY <1>4
      <4>1. place[p] > place[q]
        BY <1>1
      <4>2. place[p] \in 1 .. Len(index) /\ place[q] \in 1 .. Len(index)
        BY <1>3
      <4> QED BY <1>2, <4>1, <4>2
    <3> QED BY <1>1, <3>1 DEF Injection, IsInjective
  <2>2. Cardinality(1 .. Shown) = Cardinality(Lines)
    BY <1>4, <1>7, FS_Interval
  <2>3. place \in Surjection(1 .. Shown, Lines)
    BY <1>3, <2>1, <2>2, FS_Injection
  <2> QED BY <2>3 DEF Surjection
<1> QED BY <1>1, <1>5, <1>6, <1>7

-----------------------------------------------------------------------------
(* Of a smaller set fewer are missing.                                         *)
LEMMA FewerMissing ==
    ASSUME NEW S, IsFiniteSet(S), NEW T, T \subseteq S
    PROVE  IsFiniteSet(T) /\ Cardinality(T) \in Nat /\ Cardinality(T) <= Cardinality(S)
BY FS_Subset, FS_CardinalityType

(* The positions of what a query has taken: the rows first, then the rest.     *)
LEMMA TakenPositions ==
    ASSUME Types
    PROVE  /\ query.rows \in Seq([run : Runs, status : Statuses \cup {"none"}])
           /\ query.todo \in Seq(Runs) /\ ghost \in GhostType
           /\ Len(query.rows) \in Nat /\ Len(query.todo) \in Nat /\ Total \in Nat
           /\ \A i \in 1 .. Total : Taken(i) \in Runs
<1>1. /\ query.rows \in Seq([run : Runs, status : Statuses \cup {"none"}])
      /\ query.todo \in Seq(Runs) /\ ghost \in GhostType
  BY DEF Types, QueryType
<1> DEFINE m == Len(query.rows)
           n == Len(query.todo)
<1>2. m \in Nat /\ n \in Nat
  BY <1>1, LenProperties
<1>3. ASSUME NEW i \in 1 .. m PROVE query.rows[i].run \in Runs
  <2>1. query.rows[i] \in [run : Runs, status : Statuses \cup {"none"}]
    BY <1>1, <1>3, ElementOfSeq
  <2> QED BY <2>1
<1>4. \A i \in 1 .. n : query.todo[i] \in Runs
  BY <1>1, ElementOfSeq
<1>5. Total = m + n
  BY DEF Total
<1>6. \A i : Taken(i) = IF i <= m THEN query.rows[i].run ELSE query.todo[i - m]
  BY DEF Taken
<1>7. m = Len(query.rows) /\ n = Len(query.todo)
  OBVIOUS
<1> HIDE DEF m, n
<1>8. Total \in Nat
  BY <1>2, <1>5
<1>9. ASSUME NEW i \in 1 .. Total PROVE Taken(i) \in Runs
  <2>1. ~(i <= m) => i - m \in 1 .. n
    BY <1>2, <1>5
  <2>2. i <= m => i \in 1 .. m
    BY <1>2
  <2> QED BY <1>3, <1>4, <1>6, <2>1, <2>2
<1>10. Len(query.rows) \in Nat /\ Len(query.todo) \in Nat
  BY <1>2, <1>7
<1> QED BY <1>1, <1>8, <1>9, <1>10

(* What a query has collected stays in order and as complete as it was while   *)
(* writers go on: no run loses its place, and the order of two runs was        *)
(* settled when the second was made.                                           *)
LEMMA WritersKeepListing ==
    ASSUME StoreInv, ListInv, UNCHANGED query, ghost'.known = ghost.known,
           ghost'.tears \in Nat, ghost'.tears >= ghost.tears,
           \A x \in Runs : Past(x) => Past(x)' /\ ghost'.before[x] = ghost.before[x]
    PROVE  ListInv'
<1>1. ghost \in GhostType /\ \A i \in 1 .. Total : Taken(i) \in Runs
  BY TakenPositions DEF StoreInv
<1>3. Total' = Total /\ \A i : Taken(i)' = Taken(i)
  BY DEF Total, Taken
<1>4. Missed' = Missed
  BY <1>3 DEF Missed
<1>5. query.at \in {"enrich", "listed"} =>
         /\ \A i \in 1 .. Total : Past(Taken(i))'
         /\ \A i, j \in 1 .. Total : i < j => Taken(i) \notin ghost'.before[Taken(j)]
  <2> SUFFICES ASSUME query.at \in {"enrich", "listed"}
               PROVE  /\ \A i \in 1 .. Total : Past(Taken(i))'
                      /\ \A i, j \in 1 .. Total : i < j => Taken(i) \notin ghost'.before[Taken(j)]
    OBVIOUS
  <2>1. /\ \A i \in 1 .. Total : Past(Taken(i))
        /\ \A i, j \in 1 .. Total : i < j => Taken(i) \notin ghost.before[Taken(j)]
    BY DEF ListInv
  <2>2. ASSUME NEW i \in 1 .. Total
        PROVE  Past(Taken(i))' /\ ghost'.before[Taken(i)] = ghost.before[Taken(i)]
    <3>1. Past(Taken(i)) /\ Taken(i) \in Runs
      BY <1>1, <2>1
    <3>2. Past(Taken(i))' <=> run'[Taken(i)] \notin {"new", "dirs"}
      BY <1>3 DEF Past
    <3> QED BY <3>1, <3>2 DEF Past
  <2> QED BY <2>1, <2>2
<1>6. ghost.tears \in Nat
  BY <1>1 DEF GhostType
<1>7. Total < Limit /\ query.at \in {"enrich", "listed"} =>
         IsFiniteSet(Missed) /\ Cardinality(Missed) <= ghost'.tears
  BY <1>6, FS_CardinalityType DEF ListInv
<1> QED BY <1>3, <1>4, <1>5, <1>7 DEF ListInv, Past

-----------------------------------------------------------------------------
(* Making a run's directories settles who was there before it, and no run that *)
(* stands in the index is new.                                                 *)
LEMMA MakeDirsKeepsListing ==
    ASSUME ListingInv, NEW r \in Runs, MakeDirs(r)
    PROVE  OrderInv' /\ CountInv' /\ ListInv'
<1> USE DEF ListingInv
<1>1. /\ run[r] = "new" /\ UNCHANGED <<index, open_line, query>>
      /\ run' = [run EXCEPT ![r] = "dirs"]
      /\ ghost' = [ghost EXCEPT !.before[r] = Registered]
  BY DEF MakeDirs, Move
<1>2. /\ ghost \in GhostType /\ run \in [Runs -> Stages]
      /\ index \in Seq(Runs \cup {Garbage})
  BY DEF StoreInv, Types, TypeOK
<1>3. /\ ghost'.known = ghost.known /\ ghost'.tears = ghost.tears /\ ghost.tears \in Nat
      /\ ghost'.before = [ghost.before EXCEPT ![r] = Registered]
      /\ ghost.before \in [Runs -> SUBSET Runs]
  BY <1>1, <1>2 DEF GhostType
<1>4. /\ \A x \in Runs : Past(x) => Past(x)' /\ ghost'.before[x] = ghost.before[x]
      /\ \A x \in Registered : Past(x)' /\ x \in Runs
  BY <1>1, <1>2, <1>3 DEF Past, Registered
<1>5. ListInv'
  BY <1>1, <1>3, <1>4, WritersKeepListing
<1>6. \A i \in DOMAIN index : index[i] # Garbage => index[i] \in Runs /\ Past(index[i])
  BY <1>2 DEF OrderInv
<1>7. OrderInv'
  <2>1. \A x \in Runs : \A y \in ghost'.before[x] : Past(y)'
    <3>1. ASSUME NEW x \in Runs, NEW y \in ghost'.before[x] PROVE Past(y)'
      <4>1. CASE x = r
        BY <1>3, <1>4, <3>1, <4>1
      <4>2. CASE x # r
        <5>1. y \in ghost.before[x] /\ y \in Runs
          BY <1>3, <3>1, <4>2
        <5> QED BY <1>4, <5>1 DEF OrderInv
      <4> QED BY <4>1, <4>2
    <3> QED BY <3>1
  <2>2. \A i \in DOMAIN index : index[i] # Garbage => ghost'.before[index[i]] = ghost.before[index[i]]
    BY <1>4, <1>6
  <2>3. \A i \in DOMAIN index : index[i] # Garbage => run'[index[i]] \notin {"new", "dirs"}
    BY <1>4, <1>6 DEF Past
  <2> QED BY <1>1, <2>1, <2>2, <2>3 DEF OrderInv, Past
<1>8. Lost' = Lost
  BY <1>1, <1>2 DEF Lost
<1>9. open_line /\ index[Len(index)] # Garbage => run'[index[Len(index)]] = "dead"
  BY <1>1, <1>2 DEF CountInv
<1>10. CountInv'
  BY <1>1, <1>3, <1>8, <1>9 DEF CountInv
<1> QED BY <1>5, <1>7, <1>10

(* What an append does to the lines: the last one is turned into garbage or a  *)
(* new one follows it.                                                         *)
LEMMA AppendedPlaces ==
    ASSUME Types, IndexInv, NEW line \in Runs \cup {Garbage}
    PROVE  LET new == Appended(line)
           IN  /\ Len(index) \in Nat /\ DOMAIN index = 1 .. Len(index)
               /\ Len(new) \in Nat /\ DOMAIN new = 1 .. Len(new)
               /\ open_line =>
                     /\ Len(new) = Len(index) /\ Len(index) \in 1 .. Len(index)
                     /\ new[Len(index)] = Garbage
                     /\ \A i \in 1 .. Len(index) : i # Len(index) => new[i] = index[i]
               /\ ~open_line =>
                     /\ Len(new) = Len(index) + 1
                     /\ new[Len(index) + 1] = line
                     /\ \A i \in 1 .. Len(index) : new[i] = index[i]
<1>1. /\ index \in Seq(Runs \cup {Garbage})
      /\ DOMAIN index = 1 .. Len(index) /\ Len(index) \in Nat
  BY LenProperties DEF Types, TypeOK
<1>2. CASE open_line
  <2>1. Appended(line) = [index EXCEPT ![Len(index)] = Garbage]
    BY <1>2 DEF Appended
  <2>2. Len(index) \in 1 .. Len(index)
    <3>1. index # <<>>
      BY <1>2 DEF IndexInv
    <3>2. Len(index) # 0
      BY <1>1, <3>1, EmptySeq
    <3> QED BY <1>1, <3>2
  <2>3. /\ Appended(line) \in Seq(Runs \cup {Garbage})
        /\ Len(Appended(line)) = Len(index)
    BY <1>1, <2>1, <2>2, ExceptSeq
  <2>4. \A i \in 1 .. Len(index) : Appended(line)[i] = IF i = Len(index) THEN Garbage ELSE index[i]
    BY <1>1, <2>1
  <2> QED BY <1>1, <1>2, <2>2, <2>3, <2>4, LenProperties
<1>3. CASE ~open_line
  <2>1. Appended(line) = Append(index, line)
    BY <1>3 DEF Appended
  <2>2. /\ Append(index, line) \in Seq(Runs \cup {Garbage})
        /\ Len(Append(index, line)) = Len(index) + 1
        /\ Append(index, line)[Len(index) + 1] = line
        /\ \A i \in 1 .. Len(index) : Append(index, line)[i] = index[i]
    BY <1>1, AppendProperties
  <2>3. /\ DOMAIN Append(index, line) = 1 .. Len(Append(index, line))
        /\ Len(Append(index, line)) \in Nat
    BY <2>2, LenProperties
  <2> QED BY <1>1, <1>3, <2>1, <2>2, <2>3
<1> QED BY <1>2, <1>3

(* An append, in one piece or torn: with the appended line stands the run, or  *)
(* one more line is torn.  Only what was behind an open line is lost with it.  *)
LEMMA AppendKeepsListing ==
    ASSUME ListingInv, NEW r \in Runs, AppendIndex(r) \/ AppendTorn(r)
    PROVE  OrderInv' /\ CountInv' /\ ListInv'
<1> USE DEF ListingInv
<1>1. PICK line \in {r, Garbage}, stage \in {"indexed", "dead"} :
         /\ run[r] = "dirs" /\ index' = Appended(line) /\ run' = [run EXCEPT ![r] = stage]
         /\ UNCHANGED query
         /\ \/ line = r /\ stage = "indexed" /\ open_line' = FALSE /\ ghost' = ghost
            \/ /\ stage = "dead" /\ open_line' = TRUE
               /\ ghost' = [ghost EXCEPT !.tears = @ + 1]
  <2>1. CASE AppendIndex(r)
    <3>1. /\ run[r] = "dirs" /\ index' = Appended(r) /\ run' = [run EXCEPT ![r] = "indexed"]
          /\ UNCHANGED query /\ open_line' = FALSE /\ ghost' = ghost
      BY <2>1 DEF AppendIndex, Move
    <3> QED BY <3>1
  <2>2. CASE AppendTorn(r)
    <3>1. PICK line \in {r, Garbage} : index' = Appended(line)
      BY <2>2 DEF AppendTorn
    <3>2. /\ run[r] = "dirs" /\ run' = [run EXCEPT ![r] = "dead"]
          /\ UNCHANGED query /\ open_line' = TRUE /\ ghost' = [ghost EXCEPT !.tears = @ + 1]
      BY <2>2 DEF AppendTorn, Move
    <3> QED BY <3>1, <3>2
  <2> QED BY <2>1, <2>2
<1>2. /\ ghost \in GhostType /\ run \in [Runs -> Stages]
      /\ index \in Seq(Runs \cup {Garbage}) /\ open_line \in BOOLEAN
  BY DEF StoreInv, Types, TypeOK
<1>3. /\ ghost'.known = ghost.known /\ ghost'.before = ghost.before
      /\ ghost.tears \in Nat /\ ghost.before \in [Runs -> SUBSET Runs]
      /\ ghost'.tears = IF stage = "dead" THEN ghost.tears + 1 ELSE ghost.tears
  BY <1>1, <1>2 DEF GhostType
<1>4. /\ \A x \in Runs : Past(x) => Past(x)' /\ x # r /\ run'[x] = run[x]
      /\ Past(r)' /\ ~Past(r)
  BY <1>1, <1>2 DEF Past
<1>5. ListInv'
  <2>1. ghost'.tears \in Nat /\ ghost'.tears >= ghost.tears
    BY <1>3
  <2>2. \A x \in Runs : Past(x) => Past(x)' /\ ghost'.before[x] = ghost.before[x]
    BY <1>3, <1>4
  <2> QED BY <1>1, <1>3, <2>1, <2>2, WritersKeepListing
<1>6. /\ Len(index) \in Nat /\ DOMAIN index = 1 .. Len(index)
      /\ Len(index') \in Nat /\ DOMAIN index' = 1 .. Len(index')
      /\ open_line =>
            /\ Len(index') = Len(index) /\ Len(index) \in 1 .. Len(index)
            /\ index'[Len(index)] = Garbage
            /\ \A i \in 1 .. Len(index) : i # Len(index) => index'[i] = index[i]
      /\ ~open_line =>
            /\ Len(index') = Len(index) + 1
            /\ index'[Len(index) + 1] = line
            /\ \A i \in 1 .. Len(index) : index'[i] = index[i]
  <2>1. line \in Runs \cup {Garbage}
    OBVIOUS
  <2> QED BY <1>1, <2>1, AppendedPlaces DEF StoreInv
<1>7. \A i \in 1 .. Len(index) : index[i] # Garbage => index[i] \in Runs /\ Past(index[i])
  <2>1. \A i \in 1 .. Len(index) : index[i] \in Runs \cup {Garbage}
    BY <1>2, ElementOfSeq
  <2> QED BY <1>6, <2>1 DEF OrderInv
<1> DEFINE n == Len(index)
           m == Len(index')
<1>8. /\ n \in Nat /\ DOMAIN index = 1 .. n /\ m \in Nat /\ DOMAIN index' = 1 .. m
      /\ open_line =>
            /\ m = n /\ n \in 1 .. n /\ index'[n] = Garbage
            /\ \A i \in 1 .. n : i # n => index'[i] = index[i]
      /\ ~open_line =>
            /\ m = n + 1 /\ index'[n + 1] = line
            /\ \A i \in 1 .. n : index'[i] = index[i]
  BY <1>6
<1>9. \A i \in 1 .. n : index[i] # Garbage => index[i] \in Runs /\ Past(index[i])
  BY <1>7
<1>10. open_line /\ index[n] # Garbage => run[index[n]] = "dead"
  BY DEF CountInv
<1>11. n = Len(index) /\ m = Len(index')
  OBVIOUS
<1> HIDE DEF n, m
<1>12. /\ n \in Nat /\ m \in Nat /\ DOMAIN index' = 1 .. m
       /\ \A i \in 1 .. m : index'[i] # Garbage =>
             \/ i \in 1 .. n /\ index'[i] = index[i]
             \/ i = n + 1 /\ i = m /\ index'[i] = r
  <2>1. CASE open_line
    BY <1>8, <2>1
  <2>2. CASE ~open_line
    BY <1>8, <2>2
  <2> QED BY <2>1, <2>2
<1>13. OrderInv'
  <2>1. \A x \in Runs : \A y \in ghost'.before[x] : Past(y)'
    BY <1>3, <1>4 DEF OrderInv
  <2>2. \A i \in DOMAIN index' : index'[i] # Garbage => run'[index'[i]] \notin {"new", "dirs"}
    <3>1. ASSUME NEW i \in 1 .. m, index'[i] # Garbage
          PROVE  run'[index'[i]] \notin {"new", "dirs"}
      <4>1. CASE i \in 1 .. n /\ index'[i] = index[i]
        BY <1>4, <1>9, <3>1, <4>1 DEF Past
      <4>2. CASE index'[i] = r
        BY <1>4, <4>2 DEF Past
      <4> QED BY <1>12, <3>1, <4>1, <4>2
    <3> QED BY <1>12, <3>1
  <2>3. ASSUME NEW i \in 1 .. m, NEW j \in 1 .. m, i < j,
               index'[i] # Garbage, index'[j] # Garbage
        PROVE  index'[j] \notin ghost'.before[index'[i]]
    <3>1. i \in 1 .. n /\ index'[i] = index[i]
      BY <1>12, <2>3
    <3>2. CASE j \in 1 .. n /\ index'[j] = index[j]
      BY <1>3, <1>8, <2>3, <3>1, <3>2 DEF OrderInv
    <3>3. CASE index'[j] = r
      <4>1. index[i] \in Runs
        BY <1>9, <2>3, <3>1
      <4>2. \A y \in ghost.before[index[i]] : Past(y)
        BY <4>1 DEF OrderInv
      <4> QED BY <1>3, <1>4, <3>1, <3>3, <4>2
    <3> QED BY <1>12, <2>3, <3>2, <3>3
  <2> QED BY <1>12, <2>1, <2>2, <2>3 DEF OrderInv, Past
<1>14. \A x \in Lost' : x \in Lost \/ (x = r /\ open_line /\ stage = "indexed")
  <2> SUFFICES ASSUME NEW x \in Lost', x \notin Lost
               PROVE  x = r /\ open_line /\ stage = "indexed"
    OBVIOUS
  <2>1. x \in Runs /\ run'[x] \notin {"new", "dirs", "dead"} /\ \A i \in 1 .. m : index'[i] # x
    BY <1>8 DEF Lost
  <2>2. CASE x = r
    <3>1. stage = "indexed"
      BY <1>1, <1>2, <2>1, <2>2
    <3>2. ASSUME ~open_line PROVE FALSE
      <4>1. line = r /\ index'[n + 1] = line /\ m = n + 1
        BY <1>1, <1>8, <3>1, <3>2
      <4>2. n + 1 \in 1 .. m
        BY <1>12, <4>1
      <4> QED BY <2>1, <2>2, <4>1, <4>2
    <3> QED BY <2>2, <3>1, <3>2
  <2>3. CASE x # r
    <3>1. run'[x] = run[x] /\ x # Garbage
      BY <1>1, <1>2, <2>1, <2>3, StoreAssumption
    <3>2. PICK i \in 1 .. n : index[i] = x
      BY <1>8, <2>1, <3>1 DEF Lost
    <3>3. open_line /\ i = n
      <4>1. ~open_line => i \in 1 .. m /\ index'[i] = index[i]
        BY <1>8
      <4>2. open_line => i \in 1 .. m
        BY <1>8
      <4> QED BY <1>8, <2>1, <3>2, <4>1, <4>2
    <3>4. run[x] = "dead"
      BY <1>10, <3>1, <3>2, <3>3
    <3> QED BY <2>1, <3>1, <3>4
  <2> QED BY <2>2, <2>3
<1>15. open_line' /\ index'[Len(index')] # Garbage => run'[index'[Len(index')]] = "dead"
  <2> SUFFICES ASSUME open_line', index'[m] # Garbage PROVE run'[index'[m]] = "dead"
    BY <1>11
  <2>1. run'[r] = "dead"
    BY <1>1, <1>2
  <2>2. ~open_line /\ index'[m] = line
    <3>1. open_line => index'[m] = Garbage
      BY <1>8
    <3> QED BY <1>8, <3>1
  <2>3. line = r
    BY <2>2
  <2> QED BY <2>1, <2>2, <2>3
<1>16. CountInv'
  <2>1. IsFiniteSet(Lost) /\ Cardinality(Lost) \in Nat
        /\ Cardinality(Lost) + (IF open_line THEN 1 ELSE 0) <= ghost.tears
    BY FS_CardinalityType DEF CountInv
  <2> DEFINE some == IF open_line /\ stage = "indexed" THEN {r} ELSE {}
  <2>2. /\ IsFiniteSet(Lost \cup some) /\ Cardinality(Lost \cup some) \in Nat
        /\ Cardinality(Lost \cup some) <= Cardinality(Lost) + (IF open_line /\ stage = "indexed" THEN 1 ELSE 0)
    <3>1. /\ IsFiniteSet(Lost \cup {r})
          /\ Cardinality(Lost \cup {r}) \in {Cardinality(Lost), Cardinality(Lost) + 1}
      BY <2>1, FS_AddElement
    <3>2. CASE open_line /\ stage = "indexed"
      <4>1. some = {r}
        BY <3>2
      <4> HIDE DEF some
      <4> QED BY <2>1, <3>1, <3>2, <4>1
    <3>3. CASE ~(open_line /\ stage = "indexed")
      <4>1. Lost \cup some = Lost
        BY <3>3
      <4> HIDE DEF some
      <4>2. (IF open_line /\ stage = "indexed" THEN 1 ELSE 0) = 0
        BY <3>3
      <4> QED BY <2>1, <4>1, <4>2
    <3> QED BY <3>2, <3>3
  <2>3. Lost' \subseteq Lost \cup some
    BY <1>14
  <2> HIDE DEF some
  <2>4. IsFiniteSet(Lost') /\ Cardinality(Lost') \in Nat /\ Cardinality(Lost') <= Cardinality(Lost \cup some)
    BY <2>2, <2>3, FewerMissing
  <2>5. Cardinality(Lost') + (IF open_line' THEN 1 ELSE 0) <= ghost'.tears
    <3> DEFINE a == Cardinality(Lost')
               b == Cardinality(Lost \cup some)
               c == Cardinality(Lost)
    <3>1. /\ a \in Nat /\ b \in Nat /\ c \in Nat /\ a <= b
          /\ b <= c + (IF open_line /\ stage = "indexed" THEN 1 ELSE 0)
          /\ c + (IF open_line THEN 1 ELSE 0) <= ghost.tears
      BY <2>1, <2>2, <2>4
    <3> HIDE DEF a, b, c
    <3>2. a + (IF open_line' THEN 1 ELSE 0) <= ghost'.tears
      <4>1. CASE stage = "dead"
        BY <1>3, <3>1, <4>1
      <4>2. CASE stage = "indexed"
        <5>1. open_line' = FALSE
          BY <1>1, <4>2
        <5> QED BY <1>2, <1>3, <3>1, <4>2, <5>1
      <4> QED BY <4>1, <4>2
    <3> QED BY <3>2 DEF a
  <2> QED BY <1>15, <2>4, <2>5 DEF CountInv
<1> QED BY <1>5, <1>13, <1>16

(* The other steps of a writer: the index stays, and no run is lost by them.   *)
LEMMA WriterKeepsListing ==
    ASSUME ListingInv, NEW r \in Runs,
           \/ CreateMeta(r) \/ WriteMeta(r) \/ BeginReport(r) \/ EndReport(r)
           \/ BeginUpdate(r) \/ EndUpdate(r) \/ Dies(r)
    PROVE  OrderInv' /\ CountInv' /\ ListInv'
<1> USE DEF ListingInv
<1>1. PICK stage \in Stages \ {"new", "dirs"} :
         /\ run[r] \notin {"new", "dead"} /\ run' = [run EXCEPT ![r] = stage]
         /\ run[r] = "dirs" => stage = "dead"
         /\ UNCHANGED <<index, open_line, query, ghost>>
  <2>1. /\ UNCHANGED <<index, open_line, query, ghost>>
        /\ run[r] \notin {"new", "dead"} /\ (run[r] = "dirs" => Dies(r))
    BY DEF CreateMeta, WriteMeta, BeginReport, EndReport, BeginUpdate, EndUpdate, Dies
  <2>2. \E stage \in Stages \ {"new", "dirs"} :
           run' = [run EXCEPT ![r] = stage] /\ (Dies(r) => stage = "dead")
    <3>1. CASE Dies(r)
      BY <3>1 DEF Dies, Move, Stages
    <3>2. CASE ~Dies(r)
      BY <3>2 DEF CreateMeta, WriteMeta, BeginReport, EndReport, BeginUpdate, EndUpdate,
         Truncate, Move, Stages
    <3> QED BY <3>1, <3>2
  <2> QED BY <2>1, <2>2
<1>2. /\ ghost \in GhostType /\ run \in [Runs -> Stages] /\ index \in Seq(Runs \cup {Garbage})
      /\ ghost.tears \in Nat
  BY DEF StoreInv, Types, TypeOK, GhostType
<1>3. /\ \A x \in Runs : Past(x) => Past(x)'
      /\ \A x \in Runs : x # r => run'[x] = run[x]
  BY <1>1, <1>2 DEF Past
<1>4. ListInv'
  BY <1>1, <1>2, <1>3, WritersKeepListing
<1>5. \A i \in DOMAIN index : index[i] # Garbage => index[i] \in Runs
  BY <1>2, ElementOfSeq, LenProperties
<1>6. OrderInv'
  <2>1. \A x \in Runs : \A y \in ghost'.before[x] : y \in Runs /\ Past(y)
    BY <1>1, <1>2 DEF OrderInv, GhostType
  <2>2. \A i \in DOMAIN index' : index'[i] # Garbage => Past(index[i])'
    BY <1>1, <1>3, <1>5 DEF OrderInv, Past
  <2> QED BY <1>1, <1>3, <2>1, <2>2 DEF OrderInv, Past
<1>7. Lost' \subseteq Lost
  <2> SUFFICES ASSUME NEW x \in Lost' PROVE x \in Lost
    OBVIOUS
  <2>1. /\ x \in Runs /\ run'[x] \notin {"new", "dirs", "dead"}
        /\ \A i \in DOMAIN index : index[i] # x
    BY <1>1 DEF Lost
  <2>2. run[x] \notin {"new", "dirs", "dead"}
    BY <1>1, <1>2, <1>3, <2>1
  <2> QED BY <2>1, <2>2 DEF Lost
<1>8. open_line' /\ index'[Len(index')] # Garbage => run'[index'[Len(index')]] = "dead"
  <2> SUFFICES ASSUME open_line, index[Len(index)] # Garbage
               PROVE  run'[index[Len(index)]] = "dead"
    BY <1>1
  <2>1. run[index[Len(index)]] = "dead"
    BY DEF CountInv
  <2>2. run'[index[Len(index)]] = run[index[Len(index)]] \/ index[Len(index)] = r
    BY <1>1, <1>2
  <2> QED BY <1>1, <2>1, <2>2
<1>9. CountInv'
  <2>1. IsFiniteSet(Lost) /\ Cardinality(Lost) \in Nat
    BY FS_CardinalityType DEF CountInv
  <2>2. IsFiniteSet(Lost') /\ Cardinality(Lost') \in Nat /\ Cardinality(Lost') <= Cardinality(Lost)
    BY <1>7, <2>1, FewerMissing
  <2>3. Cardinality(Lost') + (IF open_line' THEN 1 ELSE 0) <= ghost'.tears
    <3> DEFINE a == Cardinality(Lost')
               b == Cardinality(Lost)
    <3>1. /\ a \in Nat /\ b \in Nat /\ a <= b
          /\ b + (IF open_line THEN 1 ELSE 0) <= ghost.tears
      BY <2>1, <2>2 DEF CountInv
    <3> HIDE DEF a, b
    <3>2. a + (IF open_line THEN 1 ELSE 0) <= ghost.tears
      BY <1>2, <3>1
    <3> QED BY <1>1, <3>2 DEF a
  <2> QED BY <1>8, <2>2, <2>3 DEF CountInv
<1> QED BY <1>4, <1>6, <1>9

(* A listing is taken from the index at once: what it misses is lost.          *)
LEMMA ListRunsStartsListing ==
    ASSUME ListingInv, ListRuns
    PROVE  ListInv'
<1> USE DEF ListingInv
<1>1. PICK lines \in Listings :
         query' = [Idle EXCEPT !.at = IF lines = <<>> THEN "listed" ELSE "enrich",
                               !.todo = lines]
  BY DEF ListRuns
<1>2. /\ ghost \in GhostType /\ ghost.tears \in Nat
      /\ index \in Seq(Runs \cup {Garbage}) /\ DOMAIN index = 1 .. Len(index) /\ Len(index) \in Nat
  BY LenProperties DEF StoreInv, Types, TypeOK, GhostType
<1>3. /\ UNCHANGED <<run, index>> /\ ghost'.known = Registered
      /\ ghost'.before = ghost.before /\ ghost'.tears = ghost.tears
  BY <1>2 DEF ListRuns, GhostType
<1>4. /\ query'.todo = lines /\ query'.rows = <<>>
      /\ query'.at = "listed" => lines = <<>>
  BY <1>1 DEF Idle
<1>5. PICK place \in [1 .. Len(lines) -> Lines] :
         /\ lines \in Seq(Runs \cup {Garbage})
         /\ \A p \in 1 .. Len(lines) : lines[p] = index[place[p]]
         /\ \A p, q \in 1 .. Len(lines) : p < q => place[p] > place[q]
         /\ Len(lines) < Limit => \A i \in Lines : \E p \in 1 .. Len(lines) : place[p] = i
  BY ListingsTakeFromTheEnd DEF StoreInv
<1> DEFINE k == Len(lines)
<1>6. k \in Nat /\ Total' = k /\ \A i \in 1 .. k : Taken(i)' = lines[i]
  <2>1. k \in Nat /\ Len(query'.rows) = 0 /\ Len(query'.todo) = k
    BY <1>4, <1>5, LenProperties, EmptySeq
  <2>2. \A i : Taken(i)' = IF i <= 0 THEN query'.rows[i].run ELSE lines[i - 0]
    BY <1>4, <2>1 DEF Taken
  <2>3. Total' = 0 + k
    BY <2>1 DEF Total
  <2> HIDE DEF k
  <2> QED BY <2>1, <2>2, <2>3
<1>7. /\ \A p \in 1 .. k : lines[p] = index[place[p]] /\ place[p] \in Lines
      /\ \A p, q \in 1 .. k : p < q => place[p] > place[q]
      /\ k < Limit => \A i \in Lines : \E p \in 1 .. k : place[p] = i
  BY <1>5
<1> HIDE DEF k
<1>8. \A i \in Lines : i \in DOMAIN index /\ i \in Nat /\ index[i] # Garbage
  BY <1>2 DEF Lines
<1>9. \A i \in 1 .. k : Past(lines[i])
  BY <1>7, <1>8 DEF OrderInv
<1>10. ASSUME NEW i \in 1 .. k, NEW j \in 1 .. k, i < j
       PROVE  lines[i] \notin ghost.before[lines[j]]
  <2>1. place[i] \in Lines /\ place[j] \in Lines /\ place[i] > place[j]
    BY <1>7, <1>10
  <2>2. place[j] < place[i] /\ place[i] \in DOMAIN index /\ place[j] \in DOMAIN index
        /\ index[place[i]] # Garbage /\ index[place[j]] # Garbage
    BY <1>8, <2>1
  <2>3. index[place[i]] \notin ghost.before[index[place[j]]]
    BY <2>2 DEF OrderInv
  <2> QED BY <1>7, <2>3
<1>11. ASSUME k < Limit PROVE Missed' \subseteq Lost
  <2> SUFFICES ASSUME NEW x \in Missed' PROVE x \in Lost
    OBVIOUS
  <2>1. x \in Registered /\ \A i \in 1 .. k : lines[i] # x
    BY <1>3, <1>6 DEF Missed
  <2>2. x \in Runs /\ run[x] \notin {"new", "dirs", "dead"}
    BY <2>1 DEF Registered
  <2>3. ASSUME NEW i \in DOMAIN index, index[i] = x PROVE FALSE
    <3>1. i \in Lines
      BY <2>2, <2>3, StoreAssumption DEF Lines
    <3> QED BY <1>7, <1>11, <2>1, <2>3, <3>1
  <2> QED BY <2>2, <2>3 DEF Lost
<1>12. ASSUME k < Limit PROVE IsFiniteSet(Missed') /\ Cardinality(Missed') <= ghost'.tears
  <2>1. IsFiniteSet(Lost) /\ Cardinality(Lost) \in Nat
        /\ Cardinality(Lost) + (IF open_line THEN 1 ELSE 0) <= ghost.tears
    BY FS_CardinalityType DEF CountInv
  <2>2. IsFiniteSet(Missed') /\ Cardinality(Missed') \in Nat
        /\ Cardinality(Missed') <= Cardinality(Lost)
    BY <1>11, <1>12, <2>1, FewerMissing
  <2> DEFINE a == Cardinality(Missed')
             b == Cardinality(Lost)
  <2>3. a \in Nat /\ b \in Nat /\ a <= b /\ b + (IF open_line THEN 1 ELSE 0) <= ghost.tears
    BY <2>1, <2>2
  <2> HIDE DEF a, b
  <2>4. a <= ghost.tears
    BY <1>2, <2>3
  <2> QED BY <1>3, <2>2, <2>4 DEF a
<1>13. \A i \in 1 .. k : run'[Taken(i)'] \notin {"new", "dirs"}
  BY <1>3, <1>6, <1>9 DEF Past
<1>14. \A i, j \in 1 .. k : i < j => Taken(i)' \notin ghost'.before[Taken(j)']
  BY <1>3, <1>6, <1>10
<1> QED BY <1>4, <1>6, <1>12, <1>13, <1>14 DEF ListInv, Past

(* Enriching a line moves it from what is to come to the rows.                 *)
LEMMA EnrichKeepsListing ==
    ASSUME ListingInv, Enrich
    PROVE  ListInv'
<1> USE DEF ListingInv
<1> DEFINE r == Head(query.todo)
           rest == Tail(query.todo)
           row == [run |-> r, status |-> meta[r].data.status]
           m == Len(query.rows)
           n == Len(query.todo)
<1>1. /\ query.rows \in Seq([run : Runs, status : Statuses \cup {"none"}])
      /\ query.todo \in Seq(Runs) /\ query \in QueryType
      /\ m \in Nat /\ n \in Nat /\ query.at = "enrich" /\ query.todo # <<>>
  BY TakenPositions DEF StoreInv, Types, QueryInv, Enrich
<1>2. /\ query'.at = (IF rest = <<>> THEN "listed" ELSE "enrich")
      /\ query'.todo = rest /\ query'.rows = Append(query.rows, row)
  BY <1>1 DEF Enrich, QueryType
<1>3. UNCHANGED <<run, ghost>>
  BY DEF Enrich
<1>4. /\ rest \in Seq(Runs) /\ Len(rest) = n - 1 /\ r = query.todo[1] /\ r \in Runs
      /\ \A i \in 1 .. n - 1 : rest[i] = query.todo[i + 1]
  <2>1. /\ rest \in Seq(Runs) /\ Len(rest) = n - 1 /\ r = query.todo[1] /\ r \in Runs
        /\ \A i \in 1 .. Len(rest) : rest[i] = query.todo[i + 1]
    BY <1>1, HeadTailProperties
  <2> QED BY <2>1
<1>5. row \in [run : Runs, status : Statuses \cup {"none"}] /\ row.run = r
  <2>1. meta[r].data \in Meta
    BY <1>4 DEF StoreInv, Types, TypeOK
  <2> QED BY <1>4, <2>1 DEF Meta
<1>6. n # 0
  BY <1>1, EmptySeq
<1> HIDE DEF r, rest, row
<1>7. /\ Len(query'.rows) = m + 1 /\ Len(query'.todo) = n - 1
      /\ query'.rows[m + 1] = row
      /\ \A i \in 1 .. m : query'.rows[i] = query.rows[i]
  BY <1>1, <1>2, <1>4, <1>5, AppendProperties
<1>8. Total = m + n /\ \A i : Taken(i) = IF i <= m THEN query.rows[i].run ELSE query.todo[i - m]
  BY DEF Total, Taken
<1>9. Total' = (m + 1) + (n - 1)
  BY <1>7 DEF Total
<1>10. \A i : Taken(i)' = IF i <= m + 1 THEN query'.rows[i].run ELSE rest[i - (m + 1)]
  BY <1>2, <1>7 DEF Taken
<1>11. m \in Nat /\ n \in Nat /\ n # 0
  BY <1>1, <1>6
<1> HIDE DEF m, n
<1>12. Total' = Total /\ Total \in Nat
  BY <1>8, <1>9, <1>11
<1>13. ASSUME NEW i \in 1 .. Total PROVE Taken(i)' = Taken(i)
  <2>1. CASE i <= m
    <3>1. i \in 1 .. m /\ i <= m + 1
      BY <1>11, <2>1
    <3> QED BY <1>7, <1>8, <1>10, <2>1, <3>1
  <2>2. CASE i = m + 1
    <3>1. ~(i <= m) /\ i <= m + 1 /\ i - m = 1
      BY <1>11, <2>2
    <3> QED BY <1>4, <1>5, <1>7, <1>8, <1>10, <2>2, <3>1
  <2>3. CASE i > m + 1
    <3>1. /\ i - (m + 1) \in 1 .. n - 1 /\ (i - (m + 1)) + 1 = i - m
          /\ ~(i <= m) /\ ~(i <= m + 1)
      BY <1>8, <1>11, <2>3
    <3> QED BY <1>4, <1>8, <1>10, <3>1
  <2> QED BY <1>11, <2>1, <2>2, <2>3
<1>14. Missed' = Missed
  <2>1. {Taken(i)' : i \in 1 .. Total'} = {Taken(i) : i \in 1 .. Total}
    BY <1>12, <1>13
  <2> QED BY <1>3, <2>1 DEF Missed
<1>15. \A i \in 1 .. Total : run'[Taken(i)'] \notin {"new", "dirs"}
  BY <1>1, <1>3, <1>13 DEF ListInv, Past
<1>16. \A i, j \in 1 .. Total : i < j => Taken(i)' \notin ghost'.before[Taken(j)']
  BY <1>1, <1>3, <1>13 DEF ListInv
<1>17. Total < Limit => IsFiniteSet(Missed') /\ Cardinality(Missed') <= ghost'.tears
  BY <1>1, <1>3, <1>14 DEF ListInv
<1>18. query'.at = "listed" => query'.todo = <<>>
  BY <1>2
<1> QED BY <1>12, <1>15, <1>16, <1>17, <1>18 DEF ListInv, Past

(* The reader writes nothing: the order of the index and its losses stay.      *)
LEMMA ReaderKeepsListing ==
    ASSUME ListingInv, ListRuns \/ Enrich \/ OpenRun \/ GetMeta \/ GetReport
    PROVE  OrderInv' /\ CountInv' /\ ListInv'
<1> USE DEF ListingInv
<1>1. /\ UNCHANGED <<run, index, open_line>>
      /\ ghost'.before = ghost.before /\ ghost'.tears = ghost.tears
  BY DEF ListRuns, Enrich, OpenRun, GetMeta, GetReport, StoreInv, Types, GhostType
<1>2. OrderInv'
  BY <1>1 DEF OrderInv, Past
<1>3. Lost' = Lost
  BY <1>1 DEF Lost
<1>4. CountInv'
  BY <1>1, <1>3 DEF CountInv
<1>5. CASE OpenRun \/ GetMeta \/ GetReport
  <2>1. query'.at \notin {"enrich", "listed"}
    BY <1>5 DEF OpenRun, GetMeta, GetReport, Idle, StoreInv, Types, QueryType
  <2>2. ListInv'
    BY <2>1 DEF ListInv
  <2> QED BY <1>2, <1>4, <2>2
<1> QED BY <1>2, <1>4, <1>5, ListRunsStartsListing, EnrichKeepsListing

(* The strengthened invariant holds of every reachable state.                  *)
THEOREM ListingInvariant == Spec => []ListingInv
<1>1. ASSUME Init, StoreInv PROVE ListingInv
  <2>1. /\ index = <<>> /\ open_line = FALSE /\ query.at = "idle"
        /\ \A r \in Runs : run[r] = "new" /\ ghost.before[r] = {}
        /\ ghost.tears = 0
    BY <1>1 DEF Init, Idle
  <2>2. OrderInv
    BY <2>1, EmptySeq DEF OrderInv
  <2>3. Lost = {}
    BY <2>1 DEF Lost
  <2>4. CountInv
    <3>1. IsFiniteSet({}) /\ Cardinality({}) = 0
      BY FS_EmptySet
    <3> QED BY <2>1, <2>3, <3>1 DEF CountInv
  <2>5. ListInv
    BY <2>1 DEF ListInv
  <2> QED BY <1>1, <2>2, <2>4, <2>5 DEF ListingInv
<1>2. ASSUME ListingInv, StoreInv', [Next]_vars PROVE ListingInv'
  <2>1. CASE UNCHANGED vars
    <3>1. UNCHANGED <<run, index, open_line, query, ghost>>
      BY <2>1 DEF vars
    <3>2. OrderInv'
      BY <1>2, <3>1 DEF ListingInv, OrderInv, Past
    <3>3. Lost' = Lost
      BY <3>1 DEF Lost
    <3>4. CountInv'
      BY <1>2, <3>1, <3>3 DEF ListingInv, CountInv
    <3>5. Total' = Total /\ \A i : Taken(i)' = Taken(i)
      BY <3>1 DEF Total, Taken
    <3>6. Missed' = Missed
      BY <3>1, <3>5 DEF Missed
    <3>7. ListInv'
      BY <1>2, <3>1, <3>5, <3>6 DEF ListingInv, ListInv, Past
    <3> QED BY <1>2, <3>2, <3>4, <3>7 DEF ListingInv
  <2>2. CASE Next
    <3>1. OrderInv' /\ CountInv' /\ ListInv'
      BY <1>2, <2>2, MakeDirsKeepsListing, AppendKeepsListing, WriterKeepsListing,
         ReaderKeepsListing DEF Next
    <3> QED BY <1>2, <3>1 DEF ListingInv
  <2> QED BY <1>2, <2>1, <2>2
<1> QED BY <1>1, <1>2, StoreInvariant, PTL DEF Spec

(* However many runs there are, whoever writes, tears a line or is killed while*)
(* a client reads: a listing with room left misses at most one registered run  *)
(* for each torn line, and never shows an older run above a newer one.         *)
THEOREM ListingsAreComplete == Spec => []ListingComplete
<1>1. ASSUME ListingInv PROVE ListingComplete
  <2> SUFFICES ASSUME query.at = "listed" PROVE ListingComplete
    BY DEF ListingComplete
  <2> DEFINE m == Len(query.rows)
  <2>1. /\ m \in Nat /\ query.todo = <<>> /\ Len(query.todo) = 0
    BY <1>1, TakenPositions, EmptySeq DEF ListingInv, StoreInv, ListInv
  <2>2. Total = m + 0 /\ \A i : i <= m => Taken(i) = query.rows[i].run
    BY <2>1 DEF Total, Taken
  <2>3. Rows = {query.rows[i].run : i \in 1 .. m}
    BY DEF Rows
  <2>4. m = Len(query.rows)
    OBVIOUS
  <2> HIDE DEF m
  <2>5. Total = m /\ \A i \in 1 .. m : Taken(i) = query.rows[i].run
    BY <2>1, <2>2
  <2>6. Missed = ghost.known \ Rows
    <3>1. {Taken(i) : i \in 1 .. m} = {query.rows[i].run : i \in 1 .. m}
      BY <2>5
    <3> QED BY <2>3, <2>5, <3>1 DEF Missed
  <2>7. m < Limit => Cardinality(ghost.known \ Rows) <= ghost.tears
    BY <1>1, <2>5, <2>6 DEF ListingInv, ListInv
  <2>8. \A i, j \in 1 .. m : i < j => query.rows[i].run \notin ghost.before[query.rows[j].run]
    BY <1>1, <2>5 DEF ListingInv, ListInv
  <2> QED BY <2>4, <2>7, <2>8 DEF ListingComplete
<1> QED BY <1>1, ListingInvariant, PTL
=============================================================================
