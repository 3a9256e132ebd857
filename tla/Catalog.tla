------------------------------ MODULE Catalog ------------------------------
(***************************************************************************)
(* Projects, models and calibration versions in SQLite, the files that     *)
(* belong to them (content-addressed blobs, materialised calibrations, run *)
(* directories), project packages, and the cleanup of the storage.         *)
(*                                                                         *)
(* Every handler runs on one event loop and gives it up only while it      *)
(* awaits the bytes of an upload: any number of uploads are open at once,  *)
(* and the rest of a handler meets only the worker thread and the end of   *)
(* the process. loop is the handler on the loop, between two of its        *)
(* commits.                                                                *)
(***************************************************************************)
EXTENDS OrmSession, Naturals, FiniteSets

CONSTANTS
    Projects, NoProject,
    Versions, NoVersion,   \* calibration versions
    SourceType,            \* the source_type each of them is created with
    Contents,              \* what the bytes of a file can be, by their sha256
    Uploads,               \* upload requests
    Runs, NoRun,           \* conversion runs
    MaxSamples,            \* the limit of samples of a version (100, 400 for npy_multi)
    MaxFaults,             \* bound on the failures of the disk and the database
    MaxCrashes             \* bound on the restarts of the controller

SourceTypes == {"images", "npy", "npy_multi"}

ASSUME CatalogAssumption ==
    /\ NoProject \notin Projects /\ NoVersion \notin Versions /\ NoRun \notin Runs
    /\ Runs \cap Uploads = {}
    /\ SourceType \in [Versions -> SourceTypes]
    /\ MaxSamples \in Nat /\ MaxFaults \in Nat /\ MaxCrashes \in Nat

VARIABLES
    projects,      \* Project rows
    deleted,       \* project ids that had a row: ids are never used again
    models,        \* Model and ModelVersion rows: <<project, content>>
    versions,      \* CalibrationVersion rows with their CalibrationSample rows
    assets,        \* Asset rows: <<kind, content>>
    runs,          \* ConversionRun rows
    tasks,         \* BoardRun rows, by the upload that created them
    blobs,         \* files under assets/blobs
    materialized,  \* directories under assets/calibration-sets
    directories,   \* directories under runs/ and board-runs/
    uploads,       \* the uploads that the loop awaits
    loop,          \* the handler on the event loop
    importing,     \* the package that it imports, if any
    executing,     \* the run on the worker thread
    plan,          \* MaintenanceService._plans: the candidates of one preview
    overtaken,     \* uploads that overlapped another one to their version; runs
                   \* that were claimed under their cancellation
    cuts,          \* what crashes, faults and refusals have cut in two
    faults, crashes

rows == <<projects, deleted, models, versions, assets, runs, tasks>>
disk == <<blobs, materialized, directories>>
rest == <<executing, plan, overtaken, cuts, faults, crashes>>
vars == <<rows, disk, uploads, loop, importing, rest>>

NoSet == [project |-> NoProject, status |-> "ABSENT", samples |-> {}]
NoUpload == [kind |-> "none", project |-> NoProject, version |-> NoVersion, contents |-> {}]
NotAsked == [NoUpload EXCEPT !.kind = "not_asked"]
Free == [op |-> "idle", item |-> NoUpload, from |-> NoRun, files |-> {}, sets |-> {}, runs |-> {}]
NoImport == [project |-> NoProject, version |-> NoVersion, contents |-> {}, stage |-> "none"]
NoRow == [status |-> "ABSENT", project |-> NoProject, version |-> NoVersion, content |-> {}]

Init ==
    /\ projects = {} /\ deleted = {} /\ models = {} /\ assets = {}
    /\ versions = [v \in Versions |-> NoSet]
    /\ runs = [r \in Runs |-> NoRow]
    /\ tasks = {}
    /\ blobs = {} /\ materialized = [v \in Versions |-> {}] /\ directories = {}
    /\ uploads = [u \in Uploads |-> NotAsked]
    /\ loop = Free /\ importing = NoImport
    /\ executing = NoRun /\ plan = {"none"}
    /\ overtaken = {} /\ cuts = {}
    /\ faults = 0 /\ crashes = 0

----------------------------------------------------------------------------
(* The rows                                                                *)

(* _validate_staged_blob: where the bytes are stored. Calibrations of two  *)
(* types share a file, not an Asset row.                                   *)
BlobKey(kind, content) == <<IF kind = "model" THEN "model" ELSE "calibration", content>>

Keys(used) == {BlobKey(a[1], a[2]) : a \in used}

SamplesOf(v) == {s.content : s \in versions[v].samples}

(* The Asset rows that the models and samples of these projects refer to.  *)
AssetsOf(owners) ==
    {<<"model", m[2]>> : m \in {m \in models : m[1] \in owners}}
    \cup UNION {{<<SourceType[v], c>> : c \in SamplesOf(v)} :
                   v \in {v \in Versions : versions[v].project \in owners}}

ActiveRun(r) == runs[r].status \in {"QUEUED", "RUNNING"}

(* Slip: the file goes with the Asset row, whatever row it still has.      *)
RemovableWithRow(removed, remaining) == Keys(removed)

(* delete_project: the keys that no remaining Asset row has.               *)
Removable(removed, remaining) == Keys(removed) \ Keys(remaining)

(* Its Asset rows that nothing else refers to.                             *)
Unused(p) == AssetsOf({p}) \ AssetsOf(projects \ {p})

SetsOf(p) == {v \in Versions : versions[v].project = p}

RunsOf(p) == {r \in Runs : runs[r].project = p /\ runs[r].status # "ABSENT"}

DropProject(p) ==
    /\ projects' = projects \ {p} /\ deleted' = deleted \cup {p}
    /\ models' = {m \in models : m[1] # p}
    /\ versions' = [v \in Versions |->
                      IF v \in SetsOf(p) THEN [NoSet EXCEPT !.status = "DELETED"]
                      ELSE versions[v]]
    /\ runs' = [r \in Runs |->
                  IF r \in RunsOf(p) THEN [runs[r] EXCEPT !.status = "DELETED"] ELSE runs[r]]
    /\ assets' = assets \ Unused(p)
    /\ loop' = [Free EXCEPT !.op = "purge_blobs",
                            !.files = Removable(Unused(p), assets \ Unused(p)),
                            !.sets = SetsOf(p), !.runs = RunsOf(p)]
    /\ UNCHANGED tasks

----------------------------------------------------------------------------
(* The loop                                                                *)

(* No handler holds the loop.                                              *)
Serving == loop = Free /\ importing = NoImport

Fault(cut) ==
    /\ faults < MaxFaults /\ faults' = faults + 1
    /\ cuts' = cuts \cup {cut}

CreateProject(p) ==
    /\ Serving /\ p \notin projects \cup deleted
    /\ projects' = projects \cup {p}
    /\ UNCHANGED <<deleted, models, versions, assets, runs, tasks, disk, uploads, loop,
                   importing, rest>>

CreateSet(p, v) ==
    /\ Serving /\ p \in projects /\ versions[v] = NoSet
    /\ versions' = [versions EXCEPT ![v] = [NoSet EXCEPT !.project = p, !.status = "DRAFT"]]
    /\ UNCHANGED <<projects, deleted, models, assets, runs, tasks, disk, uploads, loop,
                   importing, rest>>

(* The checks of the upload handlers, before the first await and, but for  *)
(* the single archive, again in the transaction.                           *)
Room(v, n) == versions[v].status = "DRAFT" /\ Cardinality(versions[v].samples) + n <= MaxSamples

(* Slip: a version for several inputs takes archives like the others.      *)
AcceptsSecondArchive(item) ==
    CASE item.kind = "model"   -> item.project \in projects
      [] item.kind = "sample"  -> /\ Room(item.version, 1)
                                  /\ SourceType[item.version] # "npy_multi"
      [] item.kind = "archive" -> Room(item.version, Cardinality(item.contents))
      [] OTHER                 -> TRUE

AcceptsUpload(item) ==
    CASE item.kind = "model"   -> item.project \in projects
      [] item.kind = "sample"  -> /\ Room(item.version, 1)
                                  /\ SourceType[item.version] # "npy_multi"
      [] item.kind = "archive" -> /\ Room(item.version, Cardinality(item.contents))
                                  /\ \/ SourceType[item.version] # "npy_multi"
                                     \/ versions[item.version].samples = {}
      [] OTHER                 -> TRUE

AcceptsRow(item) ==
    CASE item.kind = "model"   -> item.project \in projects
      [] item.kind = "sample"  -> /\ Room(item.version, 1)
                                  /\ SourceType[item.version] # "npy_multi"
      [] item.kind = "archive" -> Room(item.version, Cardinality(item.contents))

ToVersion(u, v) ==
    uploads[u].version = v /\ uploads[u].kind \in {"sample", "archive"}

(* upload_model, upload_calibration_sample, upload_calibration_archive,    *)
(* import_project and BoardService.submit up to their first await.         *)
BeginUpload(u, item) ==
    /\ Serving /\ uploads[u] = NotAsked
    /\ AcceptsUpload(item)
    /\ uploads' = [uploads EXCEPT ![u] = item]
    /\ directories' = IF item.kind = "board" THEN directories \cup {u} ELSE directories
    /\ overtaken' = overtaken \cup
         {w \in Uploads : item.kind \in {"sample", "archive"} /\ ToVersion(w, item.version)}
    /\ UNCHANGED <<rows, blobs, materialized, loop, importing, executing, plan, cuts,
                   faults, crashes>>

(* Cut off, too long, not what its name says: the staged files go, and so  *)
(* does the directory of a board task.                                     *)
UploadFails(u) ==
    /\ Serving /\ uploads[u].kind \notin {"not_asked", "none"}
    /\ uploads' = [uploads EXCEPT ![u] = NoUpload]
    /\ directories' = directories \ {u}
    /\ UNCHANGED <<rows, blobs, materialized, loop, importing, rest>>

(* The last byte is there: _promote_staged_blob for each file.             *)
Promote(u) ==
    /\ Serving /\ uploads[u].kind \in {"model", "sample", "archive"}
    /\ blobs' = blobs \cup {BlobKey(uploads[u].kind, c) : c \in uploads[u].contents}
    /\ loop' = [Free EXCEPT !.op = "register", !.item = uploads[u], !.files = {u}]
    /\ uploads' = [uploads EXCEPT ![u] = NoUpload]
    /\ UNCHANGED <<rows, materialized, directories, importing, rest>>

AddRows(item, batch) ==
    LET kind == IF item.kind = "model" THEN "model" ELSE SourceType[item.version] IN
    /\ assets' = assets \cup {<<kind, c>> : c \in item.contents}
    /\ IF kind = "model"
       THEN /\ models' = models \cup {<<item.project, c>> : c \in item.contents}
            /\ UNCHANGED versions
       ELSE /\ versions' = [versions EXCEPT ![item.version].samples =
                              @ \cup {[content |-> c, batch |-> batch] : c \in item.contents}]
            /\ UNCHANGED models
    /\ UNCHANGED <<projects, deleted, runs, tasks>>

Batch == CHOOSE u \in loop.files : TRUE

(* create_model, add_calibration_sample, add_calibration_samples.          *)
Register ==
    /\ loop.op = "register" /\ AcceptsRow(loop.item)
    /\ AddRows(loop.item, Batch)
    /\ loop' = Free
    /\ UNCHANGED <<disk, uploads, importing, rest>>

(* Refused in the transaction: the promoted files stay.                    *)
Refuse ==
    /\ loop.op = "register" /\ importing = NoImport
    /\ ~AcceptsRow(loop.item)
    /\ cuts' = cuts \cup {"refused"}
    /\ loop' = Free
    /\ UNCHANGED <<rows, disk, uploads, importing, executing, plan, overtaken, faults, crashes>>

(* The input is moved to its place, which fails without the directory, and *)
(* the task is created.                                                    *)
SubmitTask(u) ==
    /\ Serving /\ uploads[u].kind = "board" /\ u \in directories
    /\ uploads' = [uploads EXCEPT ![u] = NoUpload]
    /\ tasks' = tasks \cup {u}
    /\ UNCHANGED <<projects, deleted, models, versions, assets, runs, disk, loop,
                   importing, rest>>

----------------------------------------------------------------------------
(* Finalisation of a calibration version                                   *)

Finalizable(v) ==
    /\ versions[v].status = "DRAFT" /\ versions[v].samples # {}
    /\ materialized[v] = {}
    /\ {BlobKey(SourceType[v], c) : c \in SamplesOf(v)} \subseteq blobs

(* materialize_calibration: hard links to the blobs, in one os.replace.    *)
Materialize(v) ==
    /\ Finalizable(v)
    /\ materialized' = [materialized EXCEPT ![v] = versions[v].samples]
    /\ loop' = [Free EXCEPT !.op = "finalize", !.sets = {v}]
    /\ UNCHANGED <<rows, blobs, directories, uploads, rest>>

Finalize(v) == Serving /\ Materialize(v) /\ UNCHANGED importing

Finalized ==
    /\ loop.op = "finalize"
    /\ versions' = [v \in Versions |->
                      IF v \in loop.sets THEN [versions[v] EXCEPT !.status = "READY"]
                      ELSE versions[v]]
    /\ loop' = Free
    /\ UNCHANGED <<projects, deleted, models, assets, runs, tasks, disk, uploads,
                   importing, rest>>

(* Slip: the materialisation outlives the failure.                         *)
FinalizeFailsOnly ==
    /\ loop.op = "finalize" /\ importing = NoImport
    /\ Fault("commit")
    /\ loop' = Free
    /\ UNCHANGED <<rows, disk, uploads, importing, executing, plan, overtaken, crashes>>

(* The database fails: the materialisation is deleted.                     *)
FinalizeFails ==
    /\ loop.op = "finalize" /\ importing = NoImport
    /\ Fault("commit")
    /\ materialized' = [v \in Versions |-> IF v \in loop.sets THEN {} ELSE materialized[v]]
    /\ loop' = Free
    /\ UNCHANGED <<rows, blobs, directories, uploads, importing, executing, plan, overtaken,
                   crashes>>

----------------------------------------------------------------------------
(* Deletion of a project                                                   *)

(* Slip: only queued conversions count.                                    *)
DeleteUnlessQueued(p) ==
    /\ Serving /\ p \in projects
    /\ \A r \in RunsOf(p) : runs[r].status # "QUEUED"
    /\ DropProject(p)
    /\ UNCHANGED <<disk, uploads, importing, rest>>

DeleteProject(p) ==
    /\ Serving /\ p \in projects
    /\ \A r \in RunsOf(p) : ~ActiveRun(r)
    /\ DropProject(p)
    /\ UNCHANGED <<disk, uploads, importing, rest>>

(* delete_unreferenced, then the run directories.                          *)
PurgeBlobs ==
    /\ loop.op = "purge_blobs"
    /\ blobs' = blobs \ loop.files
    /\ loop' = [loop EXCEPT !.op = "purge_sets"]
    /\ UNCHANGED <<rows, materialized, directories, uploads, importing, rest>>

PurgeSets ==
    /\ loop.op = "purge_sets"
    /\ materialized' = [v \in Versions |-> IF v \in loop.sets THEN {} ELSE materialized[v]]
    /\ loop' = [loop EXCEPT !.op = "purge_runs"]
    /\ UNCHANGED <<rows, blobs, directories, uploads, importing, rest>>

PurgeRuns ==
    /\ loop.op = "purge_runs"
    /\ directories' = directories \ loop.runs
    /\ loop' = Free
    /\ UNCHANGED <<rows, blobs, materialized, uploads, importing, rest>>

(* cleanup_warning: the rest of the files stays.                           *)
PurgeFails ==
    /\ loop.op \in {"purge_blobs", "purge_sets", "purge_runs"}
    /\ Fault("purge")
    /\ loop' = Free
    /\ UNCHANGED <<rows, disk, uploads, importing, executing, plan, overtaken, crashes>>

----------------------------------------------------------------------------
(* Import of a project package: import_project once the package is there   *)

Importing(stage) == loop = Free /\ importing.stage = stage

ImportCreate(u, p) ==
    /\ Serving /\ uploads[u].kind = "package" /\ p \notin projects \cup deleted
    /\ projects' = projects \cup {p}
    /\ importing' = [project |-> p, version |-> uploads[u].version,
                     contents |-> uploads[u].contents, stage |-> "model"]
    /\ uploads' = [uploads EXCEPT ![u] = NoUpload]
    /\ UNCHANGED <<deleted, models, versions, assets, runs, tasks, disk, loop, rest>>

ImportedModel == [NoUpload EXCEPT !.kind = "model", !.project = importing.project,
                                  !.contents = importing.contents]

ImportedSamples == [NoUpload EXCEPT !.kind = "archive", !.version = importing.version,
                                    !.contents = importing.contents]

(* ingest and create_model, then create_calibration_set, ingest and        *)
(* add_calibration_samples.                                                *)
ImportFile(stage, item, next) ==
    /\ Importing(stage)
    /\ blobs' = blobs \cup {BlobKey(item.kind, c) : c \in item.contents}
    /\ loop' = [Free EXCEPT !.op = "register", !.item = item, !.files = {importing.project}]
    /\ importing' = [importing EXCEPT !.stage = next]
    /\ UNCHANGED <<materialized, directories, uploads, rest>>

ImportModel == ImportFile("model", ImportedModel, "set") /\ UNCHANGED rows

ImportSet ==
    /\ Importing("set") /\ versions[importing.version] = NoSet
    /\ versions' = [versions EXCEPT ![importing.version] =
                      [NoSet EXCEPT !.project = importing.project, !.status = "DRAFT"]]
    /\ importing' = [importing EXCEPT !.stage = "samples"]
    /\ UNCHANGED <<projects, deleted, models, assets, runs, tasks, disk, uploads, loop, rest>>

ImportSamples == ImportFile("samples", ImportedSamples, "finalize") /\ UNCHANGED rows

(* A version that was READY is finalised again.                            *)
ImportFinalize ==
    /\ Importing("finalize")
    /\ Materialize(importing.version)
    /\ importing' = [importing EXCEPT !.stage = "end"]

ImportEnd ==
    /\ Importing("end") \/ Importing("finalize")
    /\ importing' = NoImport
    /\ UNCHANGED <<rows, disk, uploads, loop, rest>>

(* A file of the package or the database is refused: _rollback_import is a *)
(* deletion of the project.                                                *)
ImportFails ==
    /\ importing # NoImport
    /\ loop.op \in {"idle", "register", "finalize"}
    /\ Fault("import")
    /\ materialized' = [v \in Versions |->
                          IF loop.op = "finalize" /\ v \in loop.sets THEN {}
                          ELSE materialized[v]]
    /\ DropProject(importing.project)
    /\ importing' = NoImport
    /\ UNCHANGED <<blobs, directories, uploads, executing, plan, overtaken, crashes>>

----------------------------------------------------------------------------
(* Conversions                                                             *)

(* RunService.submit: resolve_conversion_inputs, the directory, the rows.  *)
SubmitRun(r, p, v, c) ==
    /\ Serving /\ runs[r] = NoRow
    /\ <<p, c>> \in models /\ versions[v].project = p /\ versions[v].status = "READY"
    /\ runs' = [runs EXCEPT ![r] = [status |-> "QUEUED", project |-> p, version |-> v,
                                    content |-> {c}]]
    /\ directories' = directories \cup {r}
    /\ UNCHANGED <<projects, deleted, models, versions, assets, tasks, blobs, materialized,
                   uploads, loop, importing, rest>>

(* The worker thread, at any moment.                                       *)
Claim(r) ==
    /\ executing = NoRun /\ runs[r].status = "QUEUED"
    /\ runs' = [runs EXCEPT ![r].status = "RUNNING"]
    /\ executing' = r
    /\ overtaken' = IF loop.op = "cancel" /\ loop.from = r
                    THEN overtaken \cup {r} ELSE overtaken
    /\ UNCHANGED <<projects, deleted, models, versions, assets, tasks, disk, uploads, loop,
                   importing, plan, cuts, faults, crashes>>

RunEnds ==
    /\ executing # NoRun
    /\ runs' = IF runs[executing].status = "RUNNING"
               THEN [runs EXCEPT ![executing].status = "ENDED"] ELSE runs
    /\ executing' = NoRun
    /\ UNCHANGED <<projects, deleted, models, versions, assets, tasks, disk, uploads, loop,
                   importing, plan, overtaken, cuts, faults, crashes>>

(* request_cancel of a queued run: its snapshot, and its commit.           *)
CancelLoad(r) ==
    /\ Serving /\ runs[r].status = "QUEUED"
    /\ loop' = [Free EXCEPT !.op = "cancel", !.from = r]
    /\ UNCHANGED <<rows, disk, uploads, importing, rest>>

CancelCommit ==
    /\ loop.op = "cancel"
    /\ runs' = [runs EXCEPT ![loop.from].status = Flush("QUEUED", "ENDED", @)]
    /\ loop' = Free
    /\ UNCHANGED <<projects, deleted, models, versions, assets, tasks, disk, uploads,
                   importing, rest>>

----------------------------------------------------------------------------
(* Cleanup of the storage                                                  *)

Rows == {r \in Runs : runs[r].status \notin {"ABSENT", "DELETED"}} \cup tasks

(* Slip: the directories of board tasks belong to no run.                  *)
OrphansOfRuns == directories \ {r \in Runs : runs[r].status \notin {"ABSENT", "DELETED"}}

(* _candidates of orphan_run_directories.                                  *)
Orphans == directories \ Rows

CleanupPreview ==
    /\ Serving /\ Orphans # {}
    /\ plan' = Orphans
    /\ UNCHANGED <<rows, disk, uploads, loop, importing, executing, overtaken, cuts, faults,
                   crashes>>

(* The token is used up; then active runs refuse the cleanup (a queued one *)
(* is not active), and so does a plan that is stale.                       *)
Cleanup ==
    /\ Serving /\ plan # {"none"}
    /\ plan' = {"none"}
    /\ directories' =
         IF (\A r \in Runs : runs[r].status # "RUNNING") /\ plan = Orphans
         THEN directories \ plan ELSE directories
    /\ UNCHANGED <<rows, blobs, materialized, uploads, loop, importing, executing, overtaken,
                   cuts, faults, crashes>>

----------------------------------------------------------------------------
(* The end of the process                                                  *)

CutName == [register |-> "upload", finalize |-> "finalize", purge_blobs |-> "purge",
            purge_sets |-> "purge", purge_runs |-> "purge"]

(* Uploads, plans and the handler on the loop end; containers go on.       *)
Restart ==
    /\ crashes < MaxCrashes /\ crashes' = crashes + 1
    /\ cuts' = cuts \cup {CutName[op] : op \in {loop.op} \cap DOMAIN CutName}
                    \cup (IF importing = NoImport THEN {} ELSE {"import"})
    /\ loop' = Free /\ importing' = NoImport /\ plan' = {"none"}
    /\ uploads' = [u \in Uploads |->
                     IF uploads[u].kind = "not_asked" THEN NotAsked ELSE NoUpload]
    /\ UNCHANGED <<rows, disk, executing, overtaken, faults>>

----------------------------------------------------------------------------

(* What a client can send.                                                 *)
Requests ==
    {item \in [kind : {"model", "sample", "archive", "package", "board"},
               project : Projects \cup {NoProject}, version : Versions \cup {NoVersion},
               contents : SUBSET Contents] :
        /\ item.project # NoProject <=> item.kind = "model"
        /\ item.version # NoVersion <=> item.kind \in {"sample", "archive", "package"}
        /\ item.contents = {} <=> item.kind = "board"
        /\ item.kind \in {"model", "sample", "package"} => Cardinality(item.contents) = 1}

Handlers ==
    \/ \E p \in Projects : CreateProject(p) \/ DeleteProject(p)
    \/ \E p \in Projects, v \in Versions : CreateSet(p, v)
    \/ \E u \in Uploads, item \in Requests : BeginUpload(u, item)
    \/ \E u \in Uploads : UploadFails(u) \/ Promote(u) \/ SubmitTask(u)
    \/ Register \/ Refuse
    \/ \E v \in Versions : Finalize(v)
    \/ Finalized \/ FinalizeFails
    \/ PurgeBlobs \/ PurgeSets \/ PurgeRuns \/ PurgeFails
    \/ CleanupPreview \/ Cleanup

Import ==
    \/ \E u \in Uploads, p \in Projects : ImportCreate(u, p)
    \/ ImportModel \/ ImportSet \/ ImportSamples \/ ImportFinalize \/ ImportEnd \/ ImportFails

Conversions ==
    \/ \E r \in Runs, p \in Projects, v \in Versions, c \in Contents : SubmitRun(r, p, v, c)
    \/ \E r \in Runs : Claim(r) \/ CancelLoad(r)
    \/ RunEnds \/ CancelCommit

Next == Handlers \/ Import \/ Conversions \/ Restart

Spec == Init /\ [][Next]_vars

----------------------------------------------------------------------------
(* Properties                                                              *)

(* Every row that names content has its file: Asset rows and blobs are     *)
(* written in one order and deleted in the other, and a file that another  *)
(* kind of asset still names stays. A READY version has its materialised   *)
(* samples, all of them and no others.                                     *)
RowsAreBacked ==
    /\ AssetsOf(projects) \subseteq assets
    /\ Keys(assets) \subseteq blobs
    /\ \A v \in Versions : versions[v].status = "READY" =>
           materialized[v] = versions[v].samples

(* What a conversion reads stays on the disk until it ends, unless its     *)
(* cancellation was committed over the claim of the worker: a project is   *)
(* deleted when the statuses say that nothing of it runs.                  *)
InputsStay ==
    \A r \in Runs :
        ActiveRun(r) \/ (executing = r /\ r \notin overtaken) =>
            /\ Keys({<<"model", c>> : c \in runs[r].content}) \subseteq blobs
            /\ materialized[runs[r].version] # {}
            /\ r \in directories

(* A run and a board task have their directory as long as they have their  *)
(* row, whatever a cleanup or a deletion was told before.                  *)
RowsHaveDirectories == Rows \subseteq directories

(* "multi-input calibration accepts exactly one ZIP archive", unless two   *)
(* were received at the same time.                                         *)
OneArchive ==
    \A v \in Versions : SourceType[v] = "npy_multi" =>
        \A s, t \in versions[v].samples :
            s.batch # t.batch => \E u \in overtaken : u \in {s.batch, t.batch}

(* When no handler is at work, a file nobody refers to is what a crash, a  *)
(* fault or a refusal after an upload has cut off, and a draft can still   *)
(* be finalised: no materialisation is in its way.                         *)
NothingIsLeft ==
    Serving =>
        /\ blobs \subseteq Keys(assets)
              \/ cuts \cap {"upload", "refused", "purge", "import"} # {}
        /\ \A v \in Versions : materialized[v] # {} /\ versions[v].status # "READY" =>
              cuts \cap {"finalize", "purge", "import"} # {}

=============================================================================
