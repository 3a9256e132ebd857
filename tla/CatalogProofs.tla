---------------------------- MODULE CatalogProofs ----------------------------
(***************************************************************************)
(* What holds of Catalog for every set of projects, versions, contents,    *)
(* uploads and runs and any number of faults and restarts: rows and the    *)
(* files they name stay in step, the inputs of a conversion stay on the    *)
(* disk, and what is left over was cut off.                                *)
(*                                                                         *)
(* Inv says what each row, each file and the handler on the loop rely on   *)
(* between two commits; one lemma per action shows that it is kept.        *)
(***************************************************************************)
EXTENDS Catalog, TLAPS

USE CatalogAssumption

----------------------------------------------------------------------------
(* The inductive invariant                                                 *)

Statuses == {"ABSENT", "DRAFT", "READY", "DELETED"}
RunStatuses == {"ABSENT", "QUEUED", "RUNNING", "ENDED", "DELETED"}
Kinds == {"not_asked", "none", "model", "sample", "archive", "package", "board"}
Purges == {"purge_blobs", "purge_sets", "purge_runs"}
Ops == {"idle", "register", "finalize", "cancel"} \cup Purges
Stages == {"none", "model", "set", "samples", "finalize", "end"}
Samples == [content : Contents, batch : Uploads \cup Projects]
Blobs == {"model", "calibration"} \X Contents

(* An upload names what its handler is about to use.                       *)
Item == {item \in [kind : Kinds, project : Projects \cup {NoProject},
                   version : Versions \cup {NoVersion}, contents : SUBSET Contents] :
            /\ item.kind = "model" => item.project \in Projects
            /\ item.kind \in {"sample", "archive", "package"} => item.version \in Versions}

RowTypes ==
    /\ projects \subseteq Projects /\ models \subseteq Projects \X Contents
    /\ versions \in [Versions -> [project : Projects \cup {NoProject}, status : Statuses,
                                  samples : SUBSET Samples]]
    /\ runs \in [Runs -> [status : RunStatuses, project : Projects \cup {NoProject},
                          version : Versions \cup {NoVersion}, content : SUBSET Contents]]
    /\ tasks \subseteq Uploads
    /\ materialized \in [Versions -> SUBSET Samples]

HandlerTypes ==
    /\ uploads \in [Uploads -> Item]
    /\ loop \in [op : Ops, item : Item, from : Runs \cup {NoRun},
                 files : SUBSET (Blobs \cup Uploads \cup Projects), sets : SUBSET Versions,
                 runs : SUBSET Runs]
    /\ loop.op = "register" => /\ loop.item.kind \in {"model", "sample", "archive"}
                               /\ \E name \in Uploads \cup Projects : loop.files = {name}
    /\ loop.op = "cancel" => loop.from \in Runs
    /\ importing \in [project : Projects \cup {NoProject}, version : Versions \cup {NoVersion},
                      contents : SUBSET Contents, stage : Stages]
    /\ importing # NoImport => /\ importing.project \in Projects /\ importing.version \in Versions
                               /\ importing.stage # "none"
    /\ executing \in Runs \cup {NoRun}

(* What a row belongs to exists, and what is gone has nothing.             *)
Owned ==
    /\ \A m \in models : m[1] \in projects
    /\ \A v \in Versions : versions[v].project \in projects \cup {NoProject}
    /\ \A v \in Versions : versions[v].status \in {"ABSENT", "DELETED"} =>
           versions[v].samples = {} /\ versions[v].project = NoProject
    /\ \A v \in Versions : versions[v].status \in {"DRAFT", "READY"} =>
           versions[v].project \in projects
    /\ \A r \in Runs : runs[r].project \in projects \cup deleted \cup {NoProject}

(* Nobody else uses the project that an import creates.                    *)
ImportIsAlone ==
    importing # NoImport => /\ importing.project \in projects
                            /\ \A r \in Runs : runs[r].project # importing.project

(* Every model and every sample has its Asset row, and every Asset row its *)
(* file.                                                                   *)
Named ==
    /\ \A m \in models : <<"model", m[2]>> \in assets
    /\ \A v \in Versions : \A s \in versions[v].samples : <<SourceType[v], s.content>> \in assets
    /\ \A x \in assets : BlobKey(x[1], x[2]) \in blobs

ReadyIsMaterialized ==
    \A v \in Versions : versions[v].status = "READY" =>
        materialized[v] = versions[v].samples /\ versions[v].samples # {}

(* What the handler on the loop relies on between its commits.             *)
LoopHolds ==
    /\ loop.op = "register" => \A c \in loop.item.contents : BlobKey(loop.item.kind, c) \in blobs
    /\ loop.op = "finalize" => \A v \in loop.sets :
           /\ versions[v].status = "DRAFT"
           /\ materialized[v] = versions[v].samples /\ versions[v].samples # {}
    /\ loop.op = "purge_blobs" => \A x \in assets : BlobKey(x[1], x[2]) \notin loop.files
    /\ loop.op \in Purges => /\ \A v \in loop.sets : versions[v].status = "DELETED"
                             /\ \A r \in loop.runs : runs[r].status = "DELETED"
    /\ loop.op = "cancel" => /\ runs[loop.from].status \in {"QUEUED", "RUNNING", "ENDED"}
                             /\ executing = loop.from => loop.from \in overtaken

(* An active run names rows that exist, and the worker's run is active     *)
(* unless its cancellation overtook the claim.                             *)
RunsAreFed ==
    /\ \A r \in Runs : ActiveRun(r) =>
           /\ \A c \in runs[r].content : <<runs[r].project, c>> \in models
           /\ runs[r].version \in Versions /\ runs[r].project \in projects
           /\ versions[runs[r].version].status = "READY"
           /\ versions[runs[r].version].project = runs[r].project
    /\ executing # NoRun /\ executing \notin overtaken => runs[executing].status = "RUNNING"

(* A task is the last thing that its upload did.                           *)
TasksAreSettled == \A u \in tasks : uploads[u].kind = "none"

(* Two uploads to one version overlap only under the eyes of overtaken.    *)
ArchivesMeet ==
    /\ \A v \in Versions, u \in Uploads : ToVersion(u, v) => versions[v].status # "ABSENT"
    /\ \A v \in Versions, u, w \in Uploads :
           u # w /\ ToVersion(u, v) /\ ToVersion(w, v) => u \in overtaken \/ w \in overtaken
    /\ \A v \in Versions, u \in Uploads : SourceType[v] = "npy_multi" /\ ToVersion(u, v) =>
           \A s \in versions[v].samples : u \in overtaken \/ s.batch \in overtaken

(* The same for the one that is being registered.                          *)
RegisteredMeets ==
    loop.op = "register" /\ loop.item.kind \in {"sample", "archive"} =>
        /\ \A u \in Uploads : ToVersion(u, loop.item.version) =>
               u \in overtaken \/ Batch \in overtaken
        /\ SourceType[loop.item.version] = "npy_multi" =>
               \A s \in versions[loop.item.version].samples :
                   s.batch \in overtaken \/ Batch \in overtaken

(* The version that an import creates is its own.                          *)
ImportedIsNew ==
    importing.stage = "samples" =>
        /\ loop.op # "register"
        /\ versions[importing.version].samples = {}
        /\ \A u \in Uploads : ~ToVersion(u, importing.version)

(* The files that the handler on the loop is about to name or to remove.   *)
InHand == CASE loop.op = "register"    -> {BlobKey(loop.item.kind, c) : c \in loop.item.contents}
            [] loop.op = "purge_blobs" -> loop.files
            [] OTHER                   -> {}

FilesAreNamed ==
    cuts \cap {"upload", "refused", "purge", "import"} = {} => blobs \subseteq Keys(assets) \cup InHand

SetsAreNamed ==
    cuts \cap {"finalize", "purge", "import"} = {} =>
        \A v \in Versions : materialized[v] # {} /\ versions[v].status # "READY" =>
            v \in loop.sets /\ loop.op \in {"finalize", "purge_blobs", "purge_sets"}

Inv == /\ RowTypes /\ HandlerTypes /\ Owned /\ ImportIsAlone /\ Named /\ ReadyIsMaterialized
       /\ LoopHolds /\ RunsAreFed /\ RowsHaveDirectories /\ TasksAreSettled
       /\ ArchivesMeet /\ RegisteredMeets /\ ImportedIsNew /\ OneArchive
       /\ FilesAreNamed /\ SetsAreNamed

----------------------------------------------------------------------------
(* Lemmas about the helpers                                                *)

(* The kinds of assets.                                                    *)
LEMMA KindsApart ==
    /\ \A v \in Versions : SourceType[v] \in {"images", "npy", "npy_multi"}
    /\ \A v \in Versions : SourceType[v] # "model"
    /\ \A v \in Versions : \A c : BlobKey(SourceType[v], c) = <<"calibration", c>>
    /\ \A c : BlobKey("model", c) = <<"model", c>>
    /\ \A c : BlobKey("sample", c) = <<"calibration", c>> /\ BlobKey("archive", c) = <<"calibration", c>>
<1>1. \A v \in Versions : SourceType[v] \in {"images", "npy", "npy_multi"}
  BY DEF CatalogAssumption, SourceTypes
<1>2. \A v \in Versions : SourceType[v] # "model"
  BY <1>1
<1> QED
  BY <1>1, <1>2 DEF BlobKey

(* The assets of some projects, one by one.                                *)
LEMMA AssetsOfElements ==
    ASSUME NEW owners, NEW x
    PROVE  x \in AssetsOf(owners) <=>
             \/ \E m \in models : m[1] \in owners /\ x = <<"model", m[2]>>
             \/ \E v \in Versions : /\ versions[v].project \in owners
                                    /\ \E s \in versions[v].samples : x = <<SourceType[v], s.content>>
BY DEF AssetsOf, SamplesOf

(* The files of some assets, one by one.                                   *)
LEMMA KeysElements ==
    ASSUME NEW used, NEW k
    PROVE  k \in Keys(used) <=> \E x \in used : k = BlobKey(x[1], x[2])
BY DEF Keys

(* No handler holds the loop.                                              *)
LEMMA ServingLoop ==
    Serving => loop.op = "idle" /\ loop = Free /\ importing = NoImport /\ importing.stage = "none"
BY DEF Serving, Free, NoImport

(* What an idle loop is.                                                   *)
LEMMA FreeFields ==
    /\ Free.op = "idle" /\ Free.item = NoUpload /\ Free.from = NoRun /\ Free.files = {}
    /\ Free.sets = {} /\ Free.runs = {}
    /\ Free \in [op : Ops, item : Item, from : Runs \cup {NoRun},
                 files : SUBSET (Blobs \cup Uploads \cup Projects), sets : SUBSET Versions,
                 runs : SUBSET Runs]
    /\ NoUpload \in Item /\ NotAsked \in Item
    /\ NoUpload.kind = "none" /\ NotAsked.kind = "not_asked"
<1>1. NoUpload \in Item /\ NoUpload.kind = "none"
  BY DEF NoUpload, Item, Kinds
<1>2. NotAsked \in Item /\ NotAsked.kind = "not_asked"
  BY DEF NotAsked, NoUpload, Item, Kinds
<1>3. "idle" \in Ops
  BY DEF Ops
<1> QED
  BY <1>1, <1>2, <1>3 DEF Free

----------------------------------------------------------------------------
(* One lemma for each group of actions                                     *)

(* The empty catalog.                                                      *)
LEMMA InitInv == Init => Inv
<1> SUFFICES ASSUME Init PROVE Inv
  OBVIOUS
<1>1. /\ projects = {} /\ deleted = {} /\ models = {} /\ assets = {} /\ tasks = {} /\ blobs = {}
      /\ versions = [v \in Versions |-> NoSet] /\ runs = [r \in Runs |-> NoRow]
      /\ materialized = [v \in Versions |-> {}]
      /\ uploads = [u \in Uploads |-> NotAsked]
      /\ loop = Free /\ importing = NoImport /\ executing = NoRun
  BY DEF Init
<1>2. /\ NoSet.project = NoProject /\ NoSet.status = "ABSENT" /\ NoSet.samples = {}
      /\ NoRow.status = "ABSENT" /\ NoRow.project = NoProject
  BY DEF NoSet, NoRow
<1>3. RowTypes
  BY <1>1 DEF RowTypes, NoSet, NoRow, Statuses, RunStatuses, Samples
<1>4. HandlerTypes
  <2>1. importing \in [project : Projects \cup {NoProject}, version : Versions \cup {NoVersion},
                       contents : SUBSET Contents, stage : Stages]
    BY <1>1 DEF NoImport, Stages
  <2>2. uploads \in [Uploads -> Item]
    BY <1>1, FreeFields
  <2> QED
    BY <1>1, <2>1, <2>2, FreeFields DEF HandlerTypes
<1>5. Owned /\ ImportIsAlone /\ Named /\ ReadyIsMaterialized
  BY <1>1, <1>2 DEF Owned, ImportIsAlone, Named, ReadyIsMaterialized
<1>6. LoopHolds /\ RegisteredMeets /\ FilesAreNamed /\ SetsAreNamed
  BY <1>1, <1>2, FreeFields DEF LoopHolds, RegisteredMeets, FilesAreNamed, SetsAreNamed, Purges
<1>7. RunsAreFed /\ RowsHaveDirectories /\ TasksAreSettled
  BY <1>1, <1>2 DEF RunsAreFed, RowsHaveDirectories, TasksAreSettled, ActiveRun, Rows
<1>8. ArchivesMeet /\ ImportedIsNew /\ OneArchive
  <2>1. \A u \in Uploads, v \in Versions : ~ToVersion(u, v)
    BY <1>1, FreeFields DEF ToVersion
  <2>2. importing.stage = "none"
    BY <1>1 DEF NoImport
  <2> QED
    BY <1>1, <1>2, <2>1, <2>2 DEF ArchivesMeet, ImportedIsNew, OneArchive
<1> QED
  BY <1>3, <1>4, <1>5, <1>6, <1>7, <1>8 DEF Inv

(* A project or a draft is created.                                        *)
LEMMA CreateProjectInv == ASSUME NEW p \in Projects, Inv, CreateProject(p) PROVE Inv'
<1> USE DEF Inv
<1>1. /\ projects' = projects \cup {p} /\ importing = NoImport
      /\ UNCHANGED <<deleted, models, versions, assets, runs, tasks, blobs, materialized,
                     directories, uploads, loop, importing, executing, overtaken, cuts>>
  BY DEF CreateProject, Serving, disk, rest
<1>2. RowTypes' /\ HandlerTypes'
  BY <1>1 DEF RowTypes, HandlerTypes
<1>3. Owned' /\ ImportIsAlone' /\ Named' /\ ReadyIsMaterialized'
  BY <1>1 DEF Owned, ImportIsAlone, Named, ReadyIsMaterialized
<1>4. LoopHolds' /\ RegisteredMeets' /\ FilesAreNamed' /\ SetsAreNamed'
  BY <1>1 DEF LoopHolds, RegisteredMeets, FilesAreNamed, SetsAreNamed, InHand, Keys, Batch, ToVersion
<1>5. RunsAreFed' /\ RowsHaveDirectories' /\ TasksAreSettled'
  BY <1>1 DEF RunsAreFed, RowsHaveDirectories, TasksAreSettled, ActiveRun, Rows
<1>6. ArchivesMeet' /\ ImportedIsNew' /\ OneArchive'
  BY <1>1 DEF ArchivesMeet, ImportedIsNew, OneArchive, ToVersion
<1> QED
  BY <1>2, <1>3, <1>4, <1>5, <1>6

(* The row of a new draft, of the user or of an import.                    *)
LEMMA NewDraft ==
    ASSUME Inv, NEW p \in projects, NEW v \in Versions, versions[v] = NoSet,
           versions' = [versions EXCEPT ![v] = [NoSet EXCEPT !.project = p, !.status = "DRAFT"]],
           loop.op = "idle",
           UNCHANGED <<projects, deleted, models, assets, runs, tasks, blobs, materialized,
                       directories, uploads, loop, executing, overtaken, cuts>>
    PROVE  /\ RowTypes' /\ Owned' /\ Named' /\ ReadyIsMaterialized' /\ LoopHolds' /\ RunsAreFed'
           /\ RowsHaveDirectories' /\ TasksAreSettled' /\ ArchivesMeet' /\ RegisteredMeets'
           /\ OneArchive' /\ FilesAreNamed' /\ SetsAreNamed'
           /\ versions'[v].samples = {}
<1> USE DEF Inv
<1>1. /\ versions \in [Versions -> [project : Projects \cup {NoProject}, status : Statuses,
                                    samples : SUBSET Samples]]
      /\ p \in Projects
  BY DEF RowTypes
<1>2. versions'[v].project = p /\ versions'[v].status = "DRAFT" /\ versions'[v].samples = {}
  BY <1>1 DEF NoSet
<1>3. \A w \in Versions : w # v => versions'[w] = versions[w]
  BY <1>1
<1>4. versions[v].status = "ABSENT" /\ versions[v].samples = {}
  BY DEF NoSet
<1>5. versions' \in [Versions -> [project : Projects \cup {NoProject}, status : Statuses,
                                  samples : SUBSET Samples]]
  BY <1>1 DEF NoSet, Statuses
<1>6. \A w \in Versions : versions'[w].samples = versions[w].samples
  BY <1>2, <1>3, <1>4
<1> HIDE DEF NoSet
<1>7. RowTypes'
  BY <1>5 DEF RowTypes
<1>8. Owned'
  BY <1>2, <1>3 DEF Owned
<1>9. Named' /\ ReadyIsMaterialized' /\ OneArchive'
  BY <1>2, <1>3, <1>6 DEF Named, ReadyIsMaterialized, OneArchive
<1>10. LoopHolds' /\ RegisteredMeets'
  BY DEF LoopHolds, RegisteredMeets, Purges
<1>11. RunsAreFed' /\ RowsHaveDirectories' /\ TasksAreSettled'
  BY <1>2, <1>3, <1>4 DEF RunsAreFed, RowsHaveDirectories, TasksAreSettled, ActiveRun, Rows
<1>12. ArchivesMeet'
  BY <1>2, <1>3, <1>6 DEF ArchivesMeet, ToVersion
<1>13. FilesAreNamed' /\ SetsAreNamed'
  BY <1>2, <1>3, <1>4 DEF FilesAreNamed, SetsAreNamed, InHand, Keys
<1> QED
  BY <1>2, <1>7, <1>8, <1>9, <1>10, <1>11, <1>12, <1>13

(* A draft of the user.                                                    *)
LEMMA CreateSetInv ==
    ASSUME NEW p \in Projects, NEW v \in Versions, Inv, CreateSet(p, v) PROVE Inv'
<1>1. /\ p \in projects /\ versions[v] = NoSet /\ loop.op = "idle" /\ importing = NoImport
      /\ importing.stage = "none"
      /\ versions' = [versions EXCEPT ![v] = [NoSet EXCEPT !.project = p, !.status = "DRAFT"]]
      /\ UNCHANGED <<projects, deleted, models, assets, runs, tasks, blobs, materialized,
                     directories, uploads, loop, importing, executing, overtaken, cuts>>
  BY ServingLoop DEF CreateSet, disk, rest
<1>2. HandlerTypes' /\ ImportIsAlone' /\ ImportedIsNew'
  BY <1>1 DEF Inv, HandlerTypes, ImportIsAlone, ImportedIsNew
<1> QED
  BY <1>1, <1>2, NewDraft DEF Inv

(* The draft of an import: nothing was ever sent to it.                    *)
LEMMA ImportSetInv == Inv /\ ImportSet => Inv'
<1> SUFFICES ASSUME Inv, ImportSet PROVE Inv'
  OBVIOUS
<1> DEFINE v == importing.version
<1>1. /\ versions[v] = NoSet /\ loop = Free /\ importing.stage = "set"
      /\ versions' = [versions EXCEPT ![v] =
                        [NoSet EXCEPT !.project = importing.project, !.status = "DRAFT"]]
      /\ importing' = [importing EXCEPT !.stage = "samples"]
      /\ UNCHANGED <<projects, deleted, models, assets, runs, tasks, blobs, materialized,
                     directories, uploads, loop, executing, overtaken, cuts>>
  BY DEF ImportSet, Importing, disk, rest
<1>2. importing # NoImport
  BY <1>1 DEF NoImport
<1>3. v \in Versions /\ importing.project \in projects /\ importing.project \in Projects
  BY <1>2 DEF Inv, HandlerTypes, ImportIsAlone
<1>4. /\ importing'.project = importing.project /\ importing'.version = v
      /\ importing'.stage = "samples"
      /\ importing' \in [project : Projects \cup {NoProject}, version : Versions \cup {NoVersion},
                         contents : SUBSET Contents, stage : Stages]
  BY <1>1 DEF Inv, HandlerTypes, Stages
<1>5. versions[v].status = "ABSENT"
  BY <1>1 DEF NoSet
<1>6. loop.op = "idle"
  BY <1>1, FreeFields
<1>7. HandlerTypes'
  BY <1>1, <1>3, <1>4 DEF Inv, HandlerTypes
<1>8. ImportIsAlone'
  BY <1>1, <1>2, <1>4 DEF Inv, ImportIsAlone
<1>9. /\ RowTypes' /\ Owned' /\ Named' /\ ReadyIsMaterialized' /\ LoopHolds' /\ RunsAreFed'
      /\ RowsHaveDirectories' /\ TasksAreSettled' /\ ArchivesMeet' /\ RegisteredMeets'
      /\ OneArchive' /\ FilesAreNamed' /\ SetsAreNamed'
      /\ versions'[v].samples = {}
  BY <1>1, <1>3, <1>6, NewDraft
<1>10. ImportedIsNew'
  <2>1. \A u \in Uploads : ~ToVersion(u, v)
    BY <1>3, <1>5 DEF Inv, ArchivesMeet
  <2>2. \A u \in Uploads : ~ToVersion(u, v)'
    BY <1>1, <2>1, <1>4 DEF ToVersion
  <2> QED
    BY <1>1, <1>4, <1>6, <1>9, <2>2 DEF ImportedIsNew
<1> QED
  BY <1>7, <1>8, <1>9, <1>10 DEF Inv

(* What a client can send is well formed.                                  *)
LEMMA RequestsAreItems ==
    ASSUME NEW item \in Requests
    PROVE  item \in Item /\ item.kind \in {"model", "sample", "archive", "package", "board"}
BY DEF Requests, Item, Kinds

(* An upload begins: everything pending on its version is overtaken.       *)
LEMMA BeginUploadInv ==
    ASSUME NEW u \in Uploads, NEW item \in Requests, Inv, BeginUpload(u, item) PROVE Inv'
<1> USE DEF Inv
<1>1. /\ loop.op = "idle" /\ importing = NoImport /\ importing.stage = "none"
      /\ uploads[u] = NotAsked
      /\ AcceptsUpload(item)
      /\ uploads' = [uploads EXCEPT ![u] = item]
      /\ directories \subseteq directories'
      /\ overtaken' = overtaken \cup
           {w \in Uploads : item.kind \in {"sample", "archive"} /\ ToVersion(w, item.version)}
      /\ UNCHANGED <<projects, deleted, models, versions, assets, runs, tasks, blobs,
                     materialized, loop, importing, executing, cuts>>
  BY ServingLoop DEF BeginUpload, rows
<1>2. /\ item \in Item /\ item.kind \in {"model", "sample", "archive", "package", "board"}
      /\ uploads \in [Uploads -> Item]
  BY RequestsAreItems DEF HandlerTypes
<1>3. uploads'[u] = item /\ \A w \in Uploads : w # u => uploads'[w] = uploads[w]
  BY <1>1, <1>2
<1>4. overtaken \subseteq overtaken'
  BY <1>1
<1>5. RowTypes'
  BY <1>1 DEF RowTypes
<1>6. HandlerTypes'
  BY <1>1, <1>2 DEF HandlerTypes
<1>7. Owned' /\ ImportIsAlone' /\ Named' /\ ReadyIsMaterialized'
  BY <1>1 DEF Owned, ImportIsAlone, Named, ReadyIsMaterialized
<1>8. LoopHolds' /\ RegisteredMeets'
  BY <1>1 DEF LoopHolds, RegisteredMeets, Purges
<1>9. FilesAreNamed' /\ SetsAreNamed'
  BY <1>1 DEF FilesAreNamed, SetsAreNamed, InHand, Keys
<1>10. RunsAreFed' /\ RowsHaveDirectories'
  BY <1>1, <1>4 DEF RunsAreFed, RowsHaveDirectories, ActiveRun, Rows
<1>11. TasksAreSettled'
  BY <1>1, <1>3, FreeFields DEF TasksAreSettled, RowTypes
<1>12. OneArchive' /\ ImportedIsNew'
  BY <1>1, <1>4 DEF OneArchive, ImportedIsNew
<1>13. ArchivesMeet'
  <2>1. ASSUME NEW v \in Versions, ToVersion(u, v)'
        PROVE  /\ item.version = v /\ versions[v].status = "DRAFT"
               /\ SourceType[v] = "npy_multi" => versions[v].samples = {}
    <3>1. item.version = v /\ item.kind \in {"sample", "archive"}
      BY <1>3, <2>1 DEF ToVersion
    <3>2. CASE item.kind = "sample"
      BY <1>1, <3>1, <3>2 DEF AcceptsUpload, Room
    <3>3. CASE item.kind = "archive"
      BY <1>1, <3>1, <3>3 DEF AcceptsUpload, Room
    <3> QED
      BY <3>1, <3>2, <3>3
  <2>2. ASSUME NEW v \in Versions, NEW w \in Uploads, w # u
        PROVE  ToVersion(w, v)' <=> ToVersion(w, v)
    BY <1>3, <2>2 DEF ToVersion
  <2>3. ASSUME NEW v \in Versions, NEW w \in Uploads, w # u, ToVersion(u, v)', ToVersion(w, v)'
        PROVE  w \in overtaken'
    <3>1. item.version = v /\ item.kind \in {"sample", "archive"}
      BY <1>3, <2>3 DEF ToVersion
    <3>2. ToVersion(w, v)
      BY <2>2, <2>3
    <3> QED
      BY <1>1, <3>1, <3>2
  <2>4. \A v \in Versions, w \in Uploads : ToVersion(w, v)' => versions'[v].status # "ABSENT"
    BY <1>1, <2>1, <2>2 DEF ArchivesMeet
  <2>5. \A v \in Versions, x, w \in Uploads :
           x # w /\ ToVersion(x, v)' /\ ToVersion(w, v)' => x \in overtaken' \/ w \in overtaken'
    BY <1>4, <2>2, <2>3 DEF ArchivesMeet
  <2>6. \A v \in Versions, w \in Uploads : SourceType[v] = "npy_multi" /\ ToVersion(w, v)' =>
           \A s \in versions'[v].samples : w \in overtaken' \/ s.batch \in overtaken'
    BY <1>1, <1>4, <2>1, <2>2 DEF ArchivesMeet
  <2> QED
    BY <2>4, <2>5, <2>6 DEF ArchivesMeet
<1> QED
  BY <1>5, <1>6, <1>7, <1>8, <1>9, <1>10, <1>11, <1>12, <1>13

(* An upload that is over is on the way to no version.                     *)
LEMMA UploadOver ==
    ASSUME Inv, NEW u \in Uploads, uploads' = [uploads EXCEPT ![u] = NoUpload],
           UNCHANGED <<versions, overtaken>>
    PROVE  /\ uploads' \in [Uploads -> Item] /\ uploads'[u].kind = "none"
           /\ \A w \in Uploads : w # u => uploads'[w] = uploads[w]
           /\ \A w \in Uploads : \A v : ToVersion(w, v)' => w # u /\ ToVersion(w, v)
           /\ ArchivesMeet'
           /\ tasks' \subseteq tasks \cup {u} => TasksAreSettled'
<1>1. uploads \in [Uploads -> Item]
  BY DEF Inv, HandlerTypes
<1>2. uploads'[u] = NoUpload /\ \A w \in Uploads : w # u => uploads'[w] = uploads[w]
  BY <1>1
<1>3. \A w \in Uploads : \A v : ToVersion(w, v)' => w # u /\ ToVersion(w, v)
  BY <1>2, FreeFields DEF ToVersion
<1>4. ArchivesMeet'
  BY <1>3 DEF Inv, ArchivesMeet
<1>5. tasks' \subseteq tasks \cup {u} => TasksAreSettled'
  BY <1>2, FreeFields DEF Inv, TasksAreSettled, RowTypes
<1>6. uploads' \in [Uploads -> Item]
  BY <1>1, FreeFields
<1> QED
  BY <1>2, <1>3, <1>4, <1>5, <1>6, FreeFields

(* An upload is cut off, or becomes a task with its directory.             *)
LEMMA UploadEndsInv ==
    ASSUME NEW u \in Uploads, Inv, UploadFails(u) \/ SubmitTask(u) PROVE Inv'
<1> USE DEF Inv
<1>1. /\ loop.op = "idle" /\ importing = NoImport /\ importing.stage = "none"
      /\ uploads[u].kind # "none"
      /\ uploads' = [uploads EXCEPT ![u] = NoUpload]
      /\ UNCHANGED <<projects, deleted, models, versions, assets, runs, blobs,
                     materialized, loop, importing, executing, overtaken, cuts>>
      /\ \/ directories' = directories \ {u} /\ tasks' = tasks
         \/ directories' = directories /\ u \in directories /\ tasks' = tasks \cup {u}
  BY ServingLoop DEF UploadFails, SubmitTask, rows, disk, rest
<1>2. /\ uploads' \in [Uploads -> Item] /\ ArchivesMeet' /\ TasksAreSettled'
      /\ \A w \in Uploads : \A v : ToVersion(w, v)' => ToVersion(w, v)
  BY <1>1, UploadOver
<1>3. RowTypes' /\ HandlerTypes'
  BY <1>1, <1>2 DEF RowTypes, HandlerTypes
<1>4. Owned' /\ ImportIsAlone' /\ Named' /\ ReadyIsMaterialized'
  BY <1>1 DEF Owned, ImportIsAlone, Named, ReadyIsMaterialized
<1>5. LoopHolds' /\ RegisteredMeets'
  BY <1>1 DEF LoopHolds, RegisteredMeets, Purges
<1>6. FilesAreNamed' /\ SetsAreNamed'
  BY <1>1 DEF FilesAreNamed, SetsAreNamed, InHand, Keys
<1>7. RunsAreFed' /\ OneArchive' /\ ImportedIsNew'
  BY <1>1 DEF RunsAreFed, ActiveRun, OneArchive, ImportedIsNew
<1>8. RowsHaveDirectories'
  <2>1. u \notin Runs /\ u \notin tasks
    BY <1>1 DEF TasksAreSettled, CatalogAssumption
  <2>2. {r \in Runs : runs'[r].status \notin {"ABSENT", "DELETED"}}
          = {r \in Runs : runs[r].status \notin {"ABSENT", "DELETED"}}
    BY <1>1
  <2> QED
    BY <1>1, <2>1, <2>2 DEF RowsHaveDirectories, Rows
<1> QED
  BY <1>2, <1>3, <1>4, <1>5, <1>6, <1>7, <1>8

(* The files are stored and their rows come next: what the two handlers    *)
(* that do so share.                                                       *)
LEMMA StoreFiles ==
    ASSUME Inv, loop.op = "idle", NEW item \in Item, item.kind \in {"model", "sample", "archive"},
           NEW name \in Uploads \cup Projects,
           blobs' = blobs \cup {BlobKey(item.kind, c) : c \in item.contents},
           loop' = [Free EXCEPT !.op = "register", !.item = item, !.files = {name}],
           UNCHANGED <<projects, deleted, models, versions, assets, runs, tasks, materialized,
                       directories, executing, overtaken, cuts>>
    PROVE  /\ RowTypes' /\ Owned' /\ Named' /\ ReadyIsMaterialized' /\ LoopHolds' /\ RunsAreFed'
           /\ RowsHaveDirectories' /\ OneArchive' /\ FilesAreNamed' /\ SetsAreNamed'
           /\ loop'.op = "register" /\ loop'.item = item /\ loop'.files = {name} /\ Batch' = name
           /\ loop' \in [op : Ops, item : Item, from : Runs \cup {NoRun},
                         files : SUBSET (Blobs \cup Uploads \cup Projects),
                         sets : SUBSET Versions, runs : SUBSET Runs]
<1> USE DEF Inv
<1>1. /\ loop'.op = "register" /\ loop'.item = item /\ loop'.files = {name}
      /\ loop' \in [op : Ops, item : Item, from : Runs \cup {NoRun},
                    files : SUBSET (Blobs \cup Uploads \cup Projects),
                    sets : SUBSET Versions, runs : SUBSET Runs]
  BY DEF Free, NoUpload, Ops
<1>2. Batch' = name
  BY <1>1 DEF Batch
<1>3. RowTypes' /\ Owned' /\ ReadyIsMaterialized' /\ RunsAreFed' /\ RowsHaveDirectories' /\ OneArchive'
  BY DEF RowTypes, Owned, ReadyIsMaterialized, RunsAreFed, ActiveRun, RowsHaveDirectories, Rows,
         OneArchive
<1>4. Named' /\ LoopHolds'
  BY <1>1 DEF Named, LoopHolds, Purges
<1>5. FilesAreNamed'
  <2>1. InHand = {} /\ InHand' = {BlobKey(item.kind, c) : c \in item.contents}
    BY <1>1 DEF InHand
  <2> QED
    BY <2>1 DEF FilesAreNamed, Keys
<1>6. SetsAreNamed'
  BY DEF SetsAreNamed
<1> QED
  BY <1>1, <1>2, <1>3, <1>4, <1>5, <1>6

(* The last byte of an upload is there.                                    *)
LEMMA PromoteInv == ASSUME NEW u \in Uploads, Inv, Promote(u) PROVE Inv'
<1> USE DEF Inv
<1>2. PICK item \in Item : item = uploads[u]
  BY DEF HandlerTypes
<1>1. /\ loop.op = "idle" /\ importing = NoImport /\ importing.stage = "none"
      /\ item.kind \in {"model", "sample", "archive"}
      /\ blobs' = blobs \cup {BlobKey(item.kind, c) : c \in item.contents}
      /\ loop' = [Free EXCEPT !.op = "register", !.item = item, !.files = {u}]
      /\ uploads' = [uploads EXCEPT ![u] = NoUpload]
      /\ UNCHANGED <<projects, deleted, models, versions, assets, runs, tasks, materialized,
                     directories, importing, executing, overtaken, cuts>>
  BY <1>2, ServingLoop DEF Promote, rows, rest
<1>3. /\ uploads' \in [Uploads -> Item] /\ ArchivesMeet' /\ TasksAreSettled'
      /\ \A w \in Uploads : \A v : ToVersion(w, v)' => w # u /\ ToVersion(w, v)
  BY <1>1, UploadOver
<1>4. /\ RowTypes' /\ Owned' /\ Named' /\ ReadyIsMaterialized' /\ LoopHolds' /\ RunsAreFed'
      /\ RowsHaveDirectories' /\ OneArchive' /\ FilesAreNamed' /\ SetsAreNamed'
      /\ loop'.op = "register" /\ loop'.item = item /\ loop'.files = {u} /\ Batch' = u
      /\ loop' \in [op : Ops, item : Item, from : Runs \cup {NoRun},
                    files : SUBSET (Blobs \cup Uploads \cup Projects),
                    sets : SUBSET Versions, runs : SUBSET Runs]
  BY <1>1, <1>2, StoreFiles
<1>5. HandlerTypes'
  BY <1>1, <1>3, <1>4 DEF HandlerTypes
<1>6. ImportIsAlone' /\ ImportedIsNew'
  BY <1>1 DEF ImportIsAlone, ImportedIsNew
<1>7. RegisteredMeets'
  <2> SUFFICES ASSUME item.kind \in {"sample", "archive"}
               PROVE  /\ \A w \in Uploads : ToVersion(w, item.version)' =>
                             w \in overtaken \/ u \in overtaken
                      /\ SourceType[item.version] = "npy_multi" =>
                             \A s \in versions[item.version].samples :
                                 s.batch \in overtaken \/ u \in overtaken
    <3>1. loop'.item = item /\ Batch' = u /\ versions' = versions /\ overtaken' = overtaken
      BY <1>1, <1>4
    <3> QED
      BY <3>1 DEF RegisteredMeets
  <2>1. item.version \in Versions
    BY <1>2 DEF Item
  <2>2. ToVersion(u, item.version)
    BY <1>2 DEF ToVersion
  <2>3. \A v \in Versions, w \in Uploads :
           w # u /\ ToVersion(u, v) /\ ToVersion(w, v) => w \in overtaken \/ u \in overtaken
    BY DEF ArchivesMeet
  <2>4. \A v \in Versions : SourceType[v] = "npy_multi" /\ ToVersion(u, v) =>
           \A s \in versions[v].samples : s.batch \in overtaken \/ u \in overtaken
    BY DEF ArchivesMeet
  <2>5. \A w \in Uploads : ToVersion(w, item.version)' => w # u /\ ToVersion(w, item.version)
    BY <1>3, <2>1
  <2> QED
    BY <2>1, <2>2, <2>3, <2>4, <2>5
<1> QED
  BY <1>3, <1>4, <1>5, <1>6, <1>7

(* The same for the files of a package, with the name of its project.      *)
LEMMA ImportFileInv == Inv /\ (ImportModel \/ ImportSamples) => Inv'
<1> SUFFICES ASSUME Inv, ImportModel \/ ImportSamples PROVE Inv'
  OBVIOUS
<1> USE DEF Inv
<1>1. PICK item \in {ImportedModel, ImportedSamples}, next \in {"set", "finalize"} :
        /\ loop = Free /\ importing.stage # "none"
        /\ item = ImportedSamples => importing.stage = "samples"
        /\ blobs' = blobs \cup {BlobKey(item.kind, c) : c \in item.contents}
        /\ loop' = [Free EXCEPT !.op = "register", !.item = item, !.files = {importing.project}]
        /\ importing' = [importing EXCEPT !.stage = next]
        /\ UNCHANGED <<projects, deleted, models, versions, assets, runs, tasks, materialized,
                       directories, uploads, executing, overtaken, cuts>>
  <2>1. CASE ImportModel
    <3>1. ImportedModel # ImportedSamples
      BY DEF ImportedModel, ImportedSamples, NoUpload
    <3> QED
      BY <2>1, <3>1 DEF ImportModel, ImportFile, Importing, rows, rest
  <2>2. CASE ImportSamples
    BY <2>2 DEF ImportSamples, ImportFile, Importing, rows, rest
  <2> QED
    BY <2>1, <2>2
<1>2. /\ importing # NoImport /\ importing.project \in Projects /\ importing.version \in Versions
      /\ importing.contents \subseteq Contents
      /\ importing \in [project : Projects \cup {NoProject}, version : Versions \cup {NoVersion},
                        contents : SUBSET Contents, stage : Stages]
  BY <1>1 DEF HandlerTypes, NoImport
<1>3. /\ importing'.project = importing.project /\ importing'.version = importing.version
      /\ importing'.stage = next
      /\ importing' \in [project : Projects \cup {NoProject}, version : Versions \cup {NoVersion},
                         contents : SUBSET Contents, stage : Stages]
  BY <1>1, <1>2 DEF Stages
<1>4. /\ item \in Item
      /\ \/ item.kind = "model"
         \/ /\ item.kind = "archive" /\ item.version = importing.version
            /\ importing.stage = "samples"
  <2>1. CASE item = ImportedModel
    BY <1>2, <2>1 DEF ImportedModel, NoUpload, Item, Kinds
  <2>2. CASE item = ImportedSamples
    BY <1>1, <1>2, <2>2 DEF ImportedSamples, NoUpload, Item, Kinds
  <2> QED
    BY <2>1, <2>2
<1>5. /\ RowTypes' /\ Owned' /\ Named' /\ ReadyIsMaterialized' /\ LoopHolds' /\ RunsAreFed'
      /\ RowsHaveDirectories' /\ OneArchive' /\ FilesAreNamed' /\ SetsAreNamed'
      /\ loop'.op = "register" /\ loop'.item = item /\ loop'.files = {importing.project}
      /\ loop' \in [op : Ops, item : Item, from : Runs \cup {NoRun},
                    files : SUBSET (Blobs \cup Uploads \cup Projects),
                    sets : SUBSET Versions, runs : SUBSET Runs]
  <2>1. loop.op = "idle" /\ item.kind \in {"model", "sample", "archive"}
    BY <1>1, <1>4, FreeFields
  <2>2. importing.project \in Uploads \cup Projects
    BY <1>2
  <2> QED
    BY <1>1, <1>4, <2>1, <2>2, StoreFiles
<1>6. HandlerTypes'
  BY <1>1, <1>2, <1>3, <1>4, <1>5 DEF HandlerTypes
<1>7. ImportIsAlone' /\ ImportedIsNew'
  BY <1>1, <1>2, <1>3 DEF ImportIsAlone, ImportedIsNew
<1>8. ArchivesMeet' /\ TasksAreSettled'
  BY <1>1 DEF ArchivesMeet, TasksAreSettled, ToVersion
<1>9. RegisteredMeets'
  <2> SUFFICES ASSUME item.kind \in {"sample", "archive"}
               PROVE  /\ \A w \in Uploads : ~ToVersion(w, item.version)'
                      /\ versions'[item.version].samples = {}
    BY <1>5 DEF RegisteredMeets
  <2>1. item.version = importing.version /\ importing.stage = "samples"
    BY <1>4
  <2>2. \A w \in Uploads : ~ToVersion(w, item.version)
    BY <2>1 DEF ImportedIsNew
  <2> QED
    BY <1>1, <2>1, <2>2 DEF ImportedIsNew, ToVersion
<1> QED
  BY <1>5, <1>6, <1>7, <1>8, <1>9

(* The rows of a model, or of the samples of a draft, whose files are      *)
(* there.                                                                  *)
LEMMA RegisterInv == Inv /\ Register => Inv'
<1> SUFFICES ASSUME Inv, Register PROVE Inv'
  OBVIOUS
<1> USE DEF Inv
<1>1. PICK item \in Item : item = loop.item /\ item.kind \in {"model", "sample", "archive"}
  BY DEF HandlerTypes, Register
<1>2. PICK name \in Uploads \cup Projects : loop.files = {name}
  BY DEF HandlerTypes, Register
<1>3. Batch = name
  BY <1>2 DEF Batch
<1>4. /\ loop.op = "register" /\ AcceptsRow(item) /\ AddRows(item, name) /\ loop' = Free
      /\ loop'.op = "idle"
      /\ UNCHANGED <<blobs, materialized, directories, uploads, importing, executing, overtaken,
                     cuts>>
  BY <1>1, <1>3, FreeFields DEF Register, disk, rest
<1>5. UNCHANGED <<projects, deleted, runs, tasks>>
  BY <1>4 DEF AddRows
<1>6. HandlerTypes'
  BY <1>4, FreeFields DEF HandlerTypes
<1>7. ImportIsAlone' /\ RowsHaveDirectories' /\ TasksAreSettled'
  BY <1>4, <1>5 DEF ImportIsAlone, RowsHaveDirectories, TasksAreSettled, Rows
<1>8. RegisteredMeets' /\ LoopHolds'
  BY <1>4 DEF RegisteredMeets, LoopHolds, Purges
<1>9. importing.stage # "samples"
  BY <1>4 DEF ImportedIsNew
<1>10. ImportedIsNew'
  BY <1>4, <1>9 DEF ImportedIsNew
<1>11. ASSUME NEW kind, assets' = assets \cup {<<kind, c>> : c \in item.contents},
              \A c \in item.contents : BlobKey(kind, c) = BlobKey(item.kind, c)
       PROVE  /\ \A x \in assets' : BlobKey(x[1], x[2]) \in blobs'
              /\ FilesAreNamed'
  <2>1. \A c \in item.contents : BlobKey(item.kind, c) \in blobs
    BY <1>1, <1>4 DEF LoopHolds
  <2>2. \A x \in assets' : x \in assets \/ \E c \in item.contents : x = <<kind, c>>
    BY <1>11
  <2>3. \A x \in assets' : BlobKey(x[1], x[2]) \in blobs'
    BY <1>4, <1>11, <2>1, <2>2 DEF Named
  <2>4. InHand = {BlobKey(item.kind, c) : c \in item.contents} /\ InHand' = {}
    BY <1>1, <1>4 DEF InHand
  <2>5. \A c \in item.contents : BlobKey(item.kind, c) \in Keys(assets')
    <3>1. ASSUME NEW c \in item.contents PROVE BlobKey(item.kind, c) \in Keys(assets')
      <4>1. <<kind, c>> \in assets'
        BY <1>11
      <4>2. BlobKey(kind, c) \in Keys(assets')
        BY <4>1 DEF Keys
      <4> QED
        BY <1>11, <4>2
    <3> QED
      BY <3>1
  <2>6. Keys(assets) \subseteq Keys(assets')
    BY <1>11, KeysElements
  <2>7. FilesAreNamed'
    BY <1>4, <2>4, <2>5, <2>6 DEF FilesAreNamed
  <2> QED
    BY <2>3, <2>7
<1>12. CASE item.kind = "model"
  <2>1. /\ assets' = assets \cup {<<"model", c>> : c \in item.contents}
        /\ models' = models \cup {<<item.project, c>> : c \in item.contents}
        /\ UNCHANGED versions
        /\ item.project \in projects
    BY <1>4, <1>12 DEF AddRows, AcceptsRow
  <2>2. item.project \in Projects /\ item.contents \subseteq Contents
    BY <1>12 DEF Item
  <2>3. RowTypes'
    BY <1>4, <1>5, <2>1, <2>2 DEF RowTypes
  <2>4. Owned'
    BY <1>5, <2>1 DEF Owned
  <2>5. (\A x \in assets' : BlobKey(x[1], x[2]) \in blobs') /\ FilesAreNamed'
    BY <1>11, <1>12, <2>1
  <2>6. Named'
    BY <2>1, <2>5 DEF Named
  <2>7. ReadyIsMaterialized' /\ OneArchive'
    BY <1>4, <2>1 DEF ReadyIsMaterialized, OneArchive
  <2>8. RunsAreFed'
    BY <1>4, <1>5, <2>1 DEF RunsAreFed, ActiveRun
  <2>9. ArchivesMeet'
    BY <1>4, <2>1 DEF ArchivesMeet, ToVersion
  <2>10. SetsAreNamed'
    BY <1>4, <2>1 DEF SetsAreNamed
  <2> QED
    BY <1>6, <1>7, <1>8, <1>10, <2>3, <2>4, <2>5, <2>6, <2>7, <2>8, <2>9, <2>10
<1>13. CASE item.kind \in {"sample", "archive"}
  <2>1. PICK v \in Versions : v = item.version
    BY <1>13 DEF Item
  <2>2. /\ versions[v].status = "DRAFT"
        /\ item.kind = "sample" => SourceType[v] # "npy_multi"
    BY <1>4, <1>13, <2>1 DEF AcceptsRow, Room
  <2>3. SourceType[v] # "model"
    BY KindsApart
  <2> DEFINE new == {[content |-> c, batch |-> name] : c \in item.contents}
  <2>4. /\ assets' = assets \cup {<<SourceType[v], c>> : c \in item.contents}
        /\ versions' = [versions EXCEPT ![v].samples = @ \cup new]
        /\ UNCHANGED models
    BY <1>4, <1>13, <2>1, <2>3 DEF AddRows
  <2>5. versions \in [Versions -> [project : Projects \cup {NoProject}, status : Statuses,
                                   samples : SUBSET Samples]]
    BY DEF RowTypes
  <2>6. new \subseteq Samples /\ \A s \in new : s.batch = name /\ s.content \in item.contents
    <3>1. item.contents \subseteq Contents
      BY DEF Item
    <3> QED
      BY <3>1 DEF Samples
  <2> HIDE DEF new
  <2>7. /\ versions' \in [Versions -> [project : Projects \cup {NoProject}, status : Statuses,
                                       samples : SUBSET Samples]]
        /\ versions'[v].samples = versions[v].samples \cup new
        /\ \A w \in Versions : /\ versions'[w].status = versions[w].status
                               /\ versions'[w].project = versions[w].project
                               /\ w # v => versions'[w] = versions[w]
    BY <2>4, <2>5, <2>6
  <2>8. RowTypes'
    BY <1>4, <1>5, <2>4, <2>7 DEF RowTypes
  <2>9. Owned'
    BY <1>5, <2>2, <2>4, <2>7 DEF Owned
  <2>10. \A c \in item.contents : BlobKey(SourceType[v], c) = BlobKey(item.kind, c)
    BY <1>13, KindsApart
  <2>11. (\A x \in assets' : BlobKey(x[1], x[2]) \in blobs') /\ FilesAreNamed'
    BY <1>11, <2>4, <2>10
  <2>12. Named'
    <3>1. \A m \in models' : <<"model", m[2]>> \in assets'
      BY <2>4 DEF Named
    <3>2. ASSUME NEW w \in Versions, NEW s \in versions'[w].samples
          PROVE  <<SourceType[w], s.content>> \in assets'
      <4>1. CASE w = v /\ s \in new
        BY <2>4, <2>6, <4>1
      <4>2. CASE s \in versions[w].samples
        BY <2>4, <4>2 DEF Named
      <4> QED
        BY <2>7, <3>2, <4>1, <4>2
    <3> QED
      BY <2>11, <3>1, <3>2 DEF Named
  <2>13. ReadyIsMaterialized'
    BY <1>4, <2>2, <2>7 DEF ReadyIsMaterialized
  <2>14. RunsAreFed'
    BY <1>4, <1>5, <2>4, <2>7 DEF RunsAreFed, ActiveRun
  <2>15. SetsAreNamed'
    BY <1>4, <2>7 DEF SetsAreNamed
  <2>16. /\ \A u \in Uploads : ToVersion(u, v) => u \in overtaken \/ name \in overtaken
         /\ SourceType[v] = "npy_multi" => \A s \in versions[v].samples :
                                               s.batch \in overtaken \/ name \in overtaken
    <3>1. loop.item.kind \in {"sample", "archive"} /\ loop.item.version = v
      BY <1>1, <1>13, <2>1
    <3> QED
      BY <1>3, <1>4, <3>1 DEF RegisteredMeets
  <2>17. OneArchive'
    <3> SUFFICES ASSUME NEW w \in Versions, SourceType[w] = "npy_multi",
                        NEW s \in versions'[w].samples, NEW t \in versions'[w].samples,
                        s.batch # t.batch
                 PROVE  \E u \in overtaken : u \in {s.batch, t.batch}
      BY <1>4 DEF OneArchive
    <3>1. CASE s \in versions[w].samples /\ t \in versions[w].samples
      BY <3>1 DEF OneArchive
    <3>2. CASE w = v /\ s \in new /\ t \in versions[v].samples
      BY <2>6, <2>16, <3>2
    <3>3. CASE w = v /\ t \in new /\ s \in versions[v].samples
      BY <2>6, <2>16, <3>3
    <3>4. CASE w = v /\ s \in new /\ t \in new
      BY <2>6, <3>4
    <3> QED
      BY <2>7, <3>1, <3>2, <3>3, <3>4
  <2>18. ArchivesMeet'
    <3>1. \A u \in Uploads, w \in Versions : ToVersion(u, w)' <=> ToVersion(u, w)
      BY <1>4 DEF ToVersion
    <3>2. ASSUME NEW w \in Versions, NEW u \in Uploads, SourceType[w] = "npy_multi",
                 ToVersion(u, w), NEW s \in versions'[w].samples
          PROVE  u \in overtaken \/ s.batch \in overtaken
      <4>1. CASE w = v /\ s \in new
        BY <2>6, <2>16, <3>2, <4>1
      <4>2. CASE s \in versions[w].samples
        BY <3>2, <4>2 DEF ArchivesMeet
      <4> QED
        BY <2>7, <3>2, <4>1, <4>2
    <3> QED
      BY <1>4, <2>7, <3>1, <3>2 DEF ArchivesMeet
  <2> QED
    BY <1>6, <1>7, <1>8, <1>10, <2>8, <2>9, <2>11, <2>12, <2>13, <2>14, <2>15, <2>17, <2>18
<1> QED
  BY <1>1, <1>12, <1>13

(* The loop lets go and leaves the rows as they are: what a refusal, a     *)
(* fault or the end of a step of the handler has in common.                *)
LEMMA LoopIsFree ==
    ASSUME Inv, loop' = Free, UNCHANGED <<projects, deleted, models, versions, assets, runs, tasks,
                                           blobs, directories, uploads, executing, overtaken>>,
           RowTypes', importing' = importing \/ importing' = NoImport,
           ReadyIsMaterialized', FilesAreNamed', SetsAreNamed'
    PROVE  Inv'
<1> USE DEF Inv
<1>1. loop'.op = "idle"
  BY FreeFields
<1>2. importing' = NoImport => importing'.stage = "none"
  BY DEF NoImport
<1>3. HandlerTypes'
  <2>1. NoImport \in [project : Projects \cup {NoProject}, version : Versions \cup {NoVersion},
                      contents : SUBSET Contents, stage : Stages]
    BY DEF NoImport, Stages
  <2> QED
    BY <1>1, <2>1, FreeFields DEF HandlerTypes
<1>4. Owned' /\ Named'
  BY DEF Owned, Named
<1>5. ImportIsAlone' /\ ImportedIsNew'
  BY <1>1, <1>2 DEF ImportIsAlone, ImportedIsNew, ToVersion
<1>6. LoopHolds' /\ RegisteredMeets'
  BY <1>1 DEF LoopHolds, RegisteredMeets, Purges
<1>7. RunsAreFed' /\ RowsHaveDirectories' /\ TasksAreSettled'
  BY DEF RunsAreFed, RowsHaveDirectories, TasksAreSettled, ActiveRun, Rows
<1>8. ArchivesMeet' /\ OneArchive'
  BY DEF ArchivesMeet, OneArchive, ToVersion
<1> QED
  BY <1>3, <1>4, <1>5, <1>6, <1>7, <1>8

(* A refusal in the transaction.                                           *)
LEMMA RefuseInv == Inv /\ Refuse => Inv'
<1> SUFFICES ASSUME Inv, Refuse PROVE Inv'
  OBVIOUS
<1>1. /\ loop.op = "register" /\ loop' = Free /\ cuts' = cuts \cup {"refused"}
      /\ UNCHANGED <<projects, deleted, models, versions, assets, runs, tasks, blobs, materialized,
                     directories, uploads, importing, executing, overtaken>>
  BY DEF Refuse, rows, disk
<1>2. RowTypes' /\ ReadyIsMaterialized'
  BY <1>1 DEF Inv, RowTypes, ReadyIsMaterialized
<1>3. FilesAreNamed'
  BY <1>1 DEF FilesAreNamed
<1>4. SetsAreNamed'
  BY <1>1 DEF Inv, SetsAreNamed
<1> QED
  BY <1>1, <1>2, <1>3, <1>4, LoopIsFree

(* The database fails at the end of a finalisation.                        *)
LEMMA FinalizeFailsInv == Inv /\ FinalizeFails => Inv'
<1> SUFFICES ASSUME Inv, FinalizeFails PROVE Inv'
  OBVIOUS
<1>1. /\ loop.op = "finalize" /\ loop' = Free /\ cuts' = cuts \cup {"commit"}
      /\ materialized' = [v \in Versions |-> IF v \in loop.sets THEN {} ELSE materialized[v]]
      /\ UNCHANGED <<projects, deleted, models, versions, assets, runs, tasks, blobs,
                     directories, uploads, importing, executing, overtaken>>
  BY DEF FinalizeFails, Fault, rows
<1>2. RowTypes'
  BY <1>1 DEF Inv, RowTypes
<1>3. ReadyIsMaterialized'
  BY <1>1 DEF Inv, ReadyIsMaterialized, LoopHolds
<1>4. FilesAreNamed'
  <2>1. InHand = {}
    BY <1>1 DEF InHand
  <2> QED
    BY <1>1, <2>1 DEF Inv, FilesAreNamed, Keys
<1>5. SetsAreNamed'
  BY <1>1 DEF Inv, SetsAreNamed
<1> QED
  BY <1>1, <1>2, <1>3, <1>4, <1>5, LoopIsFree

(* The rest of the files of a deleted project stays.                       *)
LEMMA PurgeFailsInv == Inv /\ PurgeFails => Inv'
<1> SUFFICES ASSUME Inv, PurgeFails PROVE Inv'
  OBVIOUS
<1>1. /\ loop' = Free /\ cuts' = cuts \cup {"purge"}
      /\ UNCHANGED <<projects, deleted, models, versions, assets, runs, tasks, blobs, materialized,
                     directories, uploads, importing, executing, overtaken>>
  BY DEF PurgeFails, Fault, rows, disk
<1>2. RowTypes' /\ ReadyIsMaterialized'
  BY <1>1 DEF Inv, RowTypes, ReadyIsMaterialized
<1>3. FilesAreNamed' /\ SetsAreNamed'
  BY <1>1 DEF FilesAreNamed, SetsAreNamed
<1> QED
  BY <1>1, <1>2, <1>3, LoopIsFree

(* An import that has nothing more to do.                                  *)
LEMMA ImportEndInv == Inv /\ ImportEnd => Inv'
<1> SUFFICES ASSUME Inv, ImportEnd PROVE Inv'
  OBVIOUS
<1>1. /\ loop = Free /\ loop' = Free /\ importing' = NoImport
      /\ UNCHANGED <<projects, deleted, models, versions, assets, runs, tasks, blobs, materialized,
                     directories, uploads, executing, overtaken, cuts, loop>>
  BY DEF ImportEnd, Importing, rows, disk, rest
<1>2. RowTypes' /\ ReadyIsMaterialized' /\ FilesAreNamed' /\ SetsAreNamed'
  BY <1>1 DEF Inv, RowTypes, ReadyIsMaterialized, FilesAreNamed, SetsAreNamed, InHand, Keys
<1> QED
  BY <1>1, <1>2, LoopIsFree

(* A draft is materialised, by its handler or by an import.                *)
LEMMA MaterializeInv ==
    ASSUME Inv, NEW v \in Versions, (Finalize(v) \/ (ImportFinalize /\ v = importing.version))
    PROVE  Inv'
<1> USE DEF Inv
<1>1. /\ loop.op = "idle" /\ Finalizable(v)
      /\ materialized' = [materialized EXCEPT ![v] = versions[v].samples]
      /\ loop' = [Free EXCEPT !.op = "finalize", !.sets = {v}]
      /\ UNCHANGED <<projects, deleted, models, versions, assets, runs, tasks, blobs, directories,
                     uploads, executing, overtaken, cuts>>
      /\ importing' = importing \/ importing' = [importing EXCEPT !.stage = "end"]
      /\ importing' # importing => importing.stage = "finalize"
      /\ importing.stage # "samples"
  <2>1. CASE Finalize(v)
    BY <2>1, ServingLoop DEF Finalize, Materialize, rows, rest
  <2>2. CASE ImportFinalize /\ v = importing.version
    BY <2>2, FreeFields DEF ImportFinalize, Importing, Materialize, rows, rest
  <2> QED
    BY <2>1, <2>2
<1>2. /\ versions[v].status = "DRAFT" /\ versions[v].samples # {} /\ materialized[v] = {}
  BY <1>1 DEF Finalizable
<1>3. /\ loop'.op = "finalize" /\ loop'.sets = {v}
      /\ loop' \in [op : Ops, item : Item, from : Runs \cup {NoRun},
                    files : SUBSET (Blobs \cup Uploads \cup Projects),
                    sets : SUBSET Versions, runs : SUBSET Runs]
  <2>1. "finalize" \in Ops
    BY DEF Ops
  <2> QED
    BY <1>1, <2>1, FreeFields DEF Free
<1>4. /\ versions \in [Versions -> [project : Projects \cup {NoProject}, status : Statuses,
                                    samples : SUBSET Samples]]
      /\ materialized \in [Versions -> SUBSET Samples]
  BY DEF RowTypes
<1>5. /\ materialized' \in [Versions -> SUBSET Samples]
      /\ materialized'[v] = versions[v].samples
      /\ \A w \in Versions : w # v => materialized'[w] = materialized[w]
  BY <1>1, <1>4
<1>6. /\ importing'.project = importing.project /\ importing'.version = importing.version
      /\ importing'.stage # "samples"
      /\ importing' \in [project : Projects \cup {NoProject}, version : Versions \cup {NoVersion},
                         contents : SUBSET Contents, stage : Stages]
      /\ importing' # NoImport => importing # NoImport /\ importing'.stage # "none"
  <2>1. importing \in [project : Projects \cup {NoProject}, version : Versions \cup {NoVersion},
                       contents : SUBSET Contents, stage : Stages]
    BY DEF HandlerTypes
  <2>2. importing # NoImport => importing.stage # "none"
    BY DEF HandlerTypes
  <2>3. importing.stage = "finalize" => importing # NoImport
    BY DEF NoImport
  <2>4. CASE importing' = importing
    BY <1>1, <2>1, <2>2, <2>4
  <2>5. CASE importing' # importing
    <3>1. importing' = [importing EXCEPT !.stage = "end"] /\ importing # NoImport
      BY <1>1, <2>3, <2>5
    <3> QED
      BY <2>1, <3>1 DEF Stages
  <2> QED
    BY <2>4, <2>5
<1>7. RowTypes'
  BY <1>1, <1>5 DEF RowTypes
<1>8. HandlerTypes'
  BY <1>1, <1>3, <1>6 DEF HandlerTypes
<1>9. Owned' /\ Named'
  BY <1>1 DEF Owned, Named
<1>10. ImportIsAlone' /\ ImportedIsNew'
  BY <1>1, <1>6 DEF ImportIsAlone, ImportedIsNew
<1>11. ReadyIsMaterialized'
  BY <1>1, <1>2, <1>5 DEF ReadyIsMaterialized
<1>12. LoopHolds' /\ RegisteredMeets'
  BY <1>1, <1>2, <1>3, <1>5 DEF LoopHolds, RegisteredMeets, Purges
<1>13. RunsAreFed' /\ RowsHaveDirectories' /\ TasksAreSettled'
  BY <1>1 DEF RunsAreFed, RowsHaveDirectories, TasksAreSettled, ActiveRun, Rows
<1>14. ArchivesMeet' /\ OneArchive'
  BY <1>1 DEF ArchivesMeet, OneArchive, ToVersion
<1>15. FilesAreNamed'
  <2>1. InHand = {} /\ InHand' = {}
    BY <1>1, <1>3 DEF InHand
  <2> QED
    BY <1>1, <2>1 DEF FilesAreNamed, Keys
<1>16. SetsAreNamed'
  BY <1>1, <1>3, <1>5 DEF SetsAreNamed
<1> QED
  BY <1>7, <1>8, <1>9, <1>10, <1>11, <1>12, <1>13, <1>14, <1>15, <1>16

(* The materialised draft becomes READY.                                   *)
LEMMA FinalizedInv == Inv /\ Finalized => Inv'
<1> SUFFICES ASSUME Inv, Finalized PROVE Inv'
  OBVIOUS
<1> USE DEF Inv
<1>1. /\ loop.op = "finalize" /\ loop' = Free /\ loop'.op = "idle"
      /\ versions' = [v \in Versions |->
                        IF v \in loop.sets THEN [versions[v] EXCEPT !.status = "READY"]
                        ELSE versions[v]]
      /\ UNCHANGED <<projects, deleted, models, assets, runs, tasks, blobs, materialized,
                     directories, uploads, importing, executing, overtaken, cuts>>
  BY FreeFields DEF Finalized, disk, rest
<1>2. \A v \in loop.sets : /\ versions[v].status = "DRAFT"
                           /\ materialized[v] = versions[v].samples /\ versions[v].samples # {}
  BY <1>1 DEF LoopHolds
<1>3. versions \in [Versions -> [project : Projects \cup {NoProject}, status : Statuses,
                                 samples : SUBSET Samples]]
  BY DEF RowTypes
<1>4. /\ versions' \in [Versions -> [project : Projects \cup {NoProject}, status : Statuses,
                                     samples : SUBSET Samples]]
      /\ \A v \in Versions : /\ versions'[v].samples = versions[v].samples
                             /\ versions'[v].project = versions[v].project
                             /\ v \in loop.sets => versions'[v].status = "READY"
                             /\ v \notin loop.sets => versions'[v] = versions[v]
  BY <1>1, <1>3 DEF Statuses
<1>5. RowTypes' /\ HandlerTypes'
  BY <1>1, <1>4, FreeFields DEF RowTypes, HandlerTypes
<1>6. Owned'
  BY <1>1, <1>2, <1>4 DEF Owned
<1>7. Named' /\ OneArchive'
  BY <1>1, <1>4 DEF Named, OneArchive
<1>8. ImportIsAlone'
  BY <1>1 DEF ImportIsAlone
<1>9. ReadyIsMaterialized'
  BY <1>1, <1>2, <1>4 DEF ReadyIsMaterialized
<1>10. LoopHolds' /\ RegisteredMeets'
  BY <1>1 DEF LoopHolds, RegisteredMeets, Purges
<1>11. RunsAreFed'
  BY <1>1, <1>2, <1>4 DEF RunsAreFed, ActiveRun
<1>12. RowsHaveDirectories' /\ TasksAreSettled'
  BY <1>1 DEF RowsHaveDirectories, TasksAreSettled, Rows
<1>13. ArchivesMeet'
  <2>1. \A v \in Versions : versions'[v].status = "ABSENT" => versions[v].status = "ABSENT"
    BY <1>4
  <2> QED
    BY <1>1, <1>4, <2>1 DEF ArchivesMeet, ToVersion
<1>14. ImportedIsNew'
  <2>1. importing.stage = "samples" => importing.version \in Versions
    BY DEF HandlerTypes, NoImport
  <2> QED
    BY <1>1, <1>4, <2>1 DEF ImportedIsNew, ToVersion
<1>15. FilesAreNamed'
  <2>1. InHand = {} /\ InHand' = {}
    BY <1>1 DEF InHand
  <2> QED
    BY <1>1, <2>1 DEF FilesAreNamed, Keys
<1>16. SetsAreNamed'
  BY <1>1, <1>4 DEF SetsAreNamed
<1> QED
  BY <1>5, <1>6, <1>7, <1>8, <1>9, <1>10, <1>11, <1>12, <1>13, <1>14, <1>15, <1>16

(* A project goes with its rows. Nothing of it is at work, and the loop    *)
(* is idle or the deletion is the end of an import that a fault has cut.   *)
LEMMA DropInv ==
    ASSUME Inv, NEW p \in projects, DropProject(p), importing' = NoImport,
           \A r \in Runs : runs[r].project = p => ~ActiveRun(r),
           UNCHANGED <<blobs, directories, uploads, executing, overtaken>>,
           materialized' \in [Versions -> SUBSET Samples],
           \A v \in Versions : versions[v].status = "READY" => materialized'[v] = materialized[v],
           \/ loop.op = "idle" /\ UNCHANGED <<materialized, cuts>>
           \/ "import" \in cuts'
    PROVE  Inv'
<1> USE DEF Inv
<1>1. /\ projects' = projects \ {p} /\ deleted' = deleted \cup {p}
      /\ models' = {m \in models : m[1] # p}
      /\ versions' = [v \in Versions |->
                        IF v \in SetsOf(p) THEN [NoSet EXCEPT !.status = "DELETED"]
                        ELSE versions[v]]
      /\ runs' = [r \in Runs |->
                    IF r \in RunsOf(p) THEN [runs[r] EXCEPT !.status = "DELETED"] ELSE runs[r]]
      /\ assets' = assets \ Unused(p)
      /\ tasks' = tasks
      /\ loop' = [Free EXCEPT !.op = "purge_blobs",
                              !.files = Removable(Unused(p), assets \ Unused(p)),
                              !.sets = SetsOf(p), !.runs = RunsOf(p)]
  BY DEF DropProject
<1>2. /\ p \in Projects
      /\ versions \in [Versions -> [project : Projects \cup {NoProject}, status : Statuses,
                                    samples : SUBSET Samples]]
      /\ runs \in [Runs -> [status : RunStatuses, project : Projects \cup {NoProject},
                            version : Versions \cup {NoVersion}, content : SUBSET Contents]]
      /\ p # NoProject
  BY DEF RowTypes, CatalogAssumption
<1>3. /\ versions' \in [Versions -> [project : Projects \cup {NoProject}, status : Statuses,
                                     samples : SUBSET Samples]]
      /\ \A v \in Versions : IF versions[v].project = p
                             THEN /\ versions'[v].status = "DELETED" /\ versions'[v].samples = {}
                                  /\ versions'[v].project = NoProject
                             ELSE versions'[v] = versions[v]
  <2>1. /\ [NoSet EXCEPT !.status = "DELETED"]
              \in [project : Projects \cup {NoProject}, status : Statuses, samples : SUBSET Samples]
        /\ [NoSet EXCEPT !.status = "DELETED"].status = "DELETED"
        /\ [NoSet EXCEPT !.status = "DELETED"].samples = {}
        /\ [NoSet EXCEPT !.status = "DELETED"].project = NoProject
    BY DEF NoSet, Statuses
  <2> QED
    BY <1>1, <1>2, <2>1 DEF SetsOf
<1>4. /\ runs' \in [Runs -> [status : RunStatuses, project : Projects \cup {NoProject},
                             version : Versions \cup {NoVersion}, content : SUBSET Contents]]
      /\ \A r \in Runs : /\ runs'[r].project = runs[r].project
                         /\ runs'[r].status \in {runs[r].status, "DELETED"}
                         /\ r \in RunsOf(p) => runs'[r].status = "DELETED"
                         /\ runs[r].project # p => runs'[r] = runs[r]
  <2>1. \A r \in Runs : runs'[r] = IF r \in RunsOf(p) THEN [runs[r] EXCEPT !.status = "DELETED"]
                                   ELSE runs[r]
    BY <1>1
  <2>2. \A r \in RunsOf(p) : runs[r].project = p
    BY DEF RunsOf
  <2>3. "DELETED" \in RunStatuses
    BY DEF RunStatuses
  <2>4. ASSUME NEW r \in Runs
        PROVE  /\ runs'[r] \in [status : RunStatuses, project : Projects \cup {NoProject},
                                version : Versions \cup {NoVersion}, content : SUBSET Contents]
               /\ runs'[r].project = runs[r].project
               /\ runs'[r].status \in {runs[r].status, "DELETED"}
               /\ r \in RunsOf(p) => runs'[r].status = "DELETED"
    BY <1>2, <2>1, <2>3
  <2>5. DOMAIN runs' = Runs /\ runs' = [r \in Runs |-> runs'[r]]
    BY <1>1
  <2> QED
    BY <2>1, <2>2, <2>4, <2>5
<1>5. \A x \in Unused(p) : x[2] \in Contents /\ x[1] \in {"model", "images", "npy", "npy_multi"}
  <2> SUFFICES ASSUME NEW x \in AssetsOf({p})
               PROVE  x[2] \in Contents /\ x[1] \in {"model", "images", "npy", "npy_multi"}
    BY DEF Unused
  <2>1. CASE \E m \in models : x = <<"model", m[2]>>
    BY <2>1 DEF RowTypes
  <2>2. CASE \E v \in Versions : \E s \in versions[v].samples : x = <<SourceType[v], s.content>>
    <3>1. PICK v \in Versions : \E s \in versions[v].samples : x = <<SourceType[v], s.content>>
      BY <2>2
    <3>2. PICK s \in versions[v].samples : x = <<SourceType[v], s.content>>
      BY <3>1
    <3>3. s \in Samples
      BY <1>2
    <3> QED
      BY <3>2, <3>3, KindsApart DEF Samples
  <2> QED
    BY <2>1, <2>2, AssetsOfElements
<1>6. /\ loop'.op = "purge_blobs" /\ loop'.files = Removable(Unused(p), assets')
      /\ loop'.sets = SetsOf(p) /\ loop'.runs = RunsOf(p)
      /\ loop' \in [op : Ops, item : Item, from : Runs \cup {NoRun},
                    files : SUBSET (Blobs \cup Uploads \cup Projects),
                    sets : SUBSET Versions, runs : SUBSET Runs]
  <2>1. Removable(Unused(p), assets') \subseteq Blobs
    BY <1>5 DEF Removable, Keys, BlobKey, Blobs
  <2>2. SetsOf(p) \subseteq Versions /\ RunsOf(p) \subseteq Runs /\ "purge_blobs" \in Ops
    BY DEF SetsOf, RunsOf, Ops, Purges
  <2>3. Removable(Unused(p), assets') \in SUBSET (Blobs \cup Uploads \cup Projects)
    BY <2>1
  <2> QED
    BY <1>1, <2>2, <2>3, FreeFields DEF Free
<1>7. RowTypes'
  BY <1>1, <1>3, <1>4 DEF RowTypes
<1>8. HandlerTypes'
  <2>1. NoImport \in [project : Projects \cup {NoProject}, version : Versions \cup {NoVersion},
                      contents : SUBSET Contents, stage : Stages]
    BY DEF NoImport, Stages
  <2> QED
    BY <1>6, <2>1 DEF HandlerTypes
<1>9. Owned'
  <2>1. \A m \in models' : m[1] \in projects'
    BY <1>1 DEF Owned
  <2>2. \A v \in Versions : /\ versions'[v].project \in projects' \cup {NoProject}
                            /\ versions'[v].status \in {"ABSENT", "DELETED"} =>
                                 versions'[v].samples = {} /\ versions'[v].project = NoProject
                            /\ versions'[v].status \in {"DRAFT", "READY"} =>
                                 versions'[v].project \in projects'
    BY <1>1, <1>3 DEF Owned
  <2>3. \A r \in Runs : runs'[r].project \in projects' \cup deleted' \cup {NoProject}
    BY <1>1, <1>4 DEF Owned
  <2> QED
    BY <2>1, <2>2, <2>3 DEF Owned
<1>10. ImportIsAlone' /\ RegisteredMeets' /\ ImportedIsNew'
  <2>1. importing'.stage = "none"
    BY DEF NoImport
  <2> QED
    BY <1>6, <2>1 DEF ImportIsAlone, RegisteredMeets, ImportedIsNew
<1>11. Named'
  <2>1. ASSUME NEW m \in models' PROVE <<"model", m[2]>> \in assets'
    <3>1. m \in models /\ m[1] \in projects \ {p}
      BY <1>1 DEF Owned
    <3>2. <<"model", m[2]>> \in AssetsOf(projects \ {p})
      BY <3>1, AssetsOfElements
    <3> QED
      BY <1>1, <3>1, <3>2 DEF Unused, Named
  <2>2. ASSUME NEW v \in Versions, NEW s \in versions'[v].samples
        PROVE  <<SourceType[v], s.content>> \in assets'
    <3>1. versions[v].project # p /\ s \in versions[v].samples
      BY <1>3
    <3>2. versions[v].project \in projects \ {p}
      BY <1>2, <3>1 DEF Owned, Statuses
    <3>3. <<SourceType[v], s.content>> \in AssetsOf(projects \ {p})
      BY <3>1, <3>2, AssetsOfElements
    <3> QED
      BY <1>1, <3>1, <3>3 DEF Unused, Named
  <2>3. \A x \in assets' : BlobKey(x[1], x[2]) \in blobs'
    BY <1>1 DEF Named
  <2> QED
    BY <2>1, <2>2, <2>3 DEF Named
<1>12. ReadyIsMaterialized'
  BY <1>3 DEF ReadyIsMaterialized
<1>13. LoopHolds'
  <2>1. \A x \in assets' : BlobKey(x[1], x[2]) \notin loop'.files
    BY <1>6 DEF Removable, Keys
  <2>2. \A v \in loop'.sets : versions'[v].status = "DELETED"
    BY <1>3, <1>6 DEF SetsOf
  <2>3. \A r \in loop'.runs : runs'[r].status = "DELETED"
    BY <1>4, <1>6 DEF RunsOf
  <2> QED
    BY <1>6, <2>1, <2>2, <2>3 DEF LoopHolds
<1>14. RunsAreFed'
  <2>1. ASSUME NEW r \in Runs, ActiveRun(r)' PROVE ActiveRun(r) /\ runs[r].project # p /\ runs'[r] = runs[r]
    BY <1>4, <2>1 DEF ActiveRun
  <2>2. ASSUME NEW r \in Runs, ActiveRun(r)'
        PROVE  /\ \A c \in runs'[r].content : <<runs'[r].project, c>> \in models'
               /\ runs'[r].version \in Versions /\ runs'[r].project \in projects'
               /\ versions'[runs'[r].version].status = "READY"
               /\ versions'[runs'[r].version].project = runs'[r].project
    <3>1. /\ ActiveRun(r) /\ runs[r].project # p /\ runs'[r] = runs[r]
          /\ \A c \in runs[r].content : <<runs[r].project, c>> \in models
          /\ runs[r].version \in Versions /\ runs[r].project \in projects
          /\ versions[runs[r].version].status = "READY"
          /\ versions[runs[r].version].project = runs[r].project
      BY <2>1, <2>2 DEF RunsAreFed
    <3>2. \A c \in runs[r].content : <<runs[r].project, c>> \in models'
      BY <1>1, <3>1
    <3>3. versions'[runs[r].version] = versions[runs[r].version]
      BY <1>3, <3>1
    <3>4. runs[r].project \in projects'
      BY <1>1, <3>1
    <3>5. /\ runs'[r].content = runs[r].content /\ runs'[r].version = runs[r].version
          /\ runs'[r].project = runs[r].project
      BY <3>1
    <3>6. \A c \in runs'[r].content : <<runs'[r].project, c>> \in models'
      BY <3>2, <3>5
    <3>7. runs'[r].version \in Versions /\ runs'[r].project \in projects'
      BY <3>1, <3>4, <3>5
    <3>8. versions'[runs'[r].version] = versions[runs[r].version]
      BY <3>3, <3>5
    <3>9. /\ versions'[runs'[r].version].status = "READY"
          /\ versions'[runs'[r].version].project = runs'[r].project
      BY <3>1, <3>5, <3>8
    <3> QED
      BY <3>6, <3>7, <3>9
  <2>3. ASSUME executing # NoRun, executing \notin overtaken
        PROVE  runs'[executing].status = "RUNNING"
    <3>1. executing \in Runs /\ runs[executing].status = "RUNNING"
      BY <2>3 DEF HandlerTypes, RunsAreFed
    <3>2. runs[executing].project # p
      BY <3>1 DEF ActiveRun
    <3> QED
      BY <1>4, <3>1, <3>2
  <2> QED
    BY <2>2, <2>3 DEF RunsAreFed
<1>15. RowsHaveDirectories' /\ TasksAreSettled'
  <2>1. Rows' \subseteq Rows
    BY <1>1, <1>4 DEF Rows
  <2> QED
    BY <1>1, <2>1 DEF RowsHaveDirectories, TasksAreSettled
<1>16. ArchivesMeet' /\ OneArchive'
  <2>1. \A v \in Versions : /\ versions'[v].samples \subseteq versions[v].samples
                            /\ versions'[v].status = "ABSENT" => versions[v].status = "ABSENT"
    BY <1>3
  <2> QED
    BY <2>1 DEF ArchivesMeet, OneArchive, ToVersion
<1>17. FilesAreNamed'
  <2> SUFFICES ASSUME cuts' \cap {"upload", "refused", "purge", "import"} = {}, NEW k \in blobs
               PROVE  k \in Keys(assets') \/ k \in loop'.files
    BY <1>6 DEF FilesAreNamed, InHand
  <2>1. loop.op = "idle" /\ cuts' = cuts
    OBVIOUS
  <2>2. InHand = {}
    BY <2>1 DEF InHand
  <2>3. k \in Keys(assets)
    BY <2>1, <2>2 DEF FilesAreNamed
  <2>4. PICK x \in assets : k = BlobKey(x[1], x[2])
    BY <2>3, KeysElements
  <2>5. x \in assets' \/ x \in Unused(p)
    BY <1>1
  <2>6. k \in Keys(assets') \/ k \in Keys(Unused(p))
    BY <2>4, <2>5 DEF Keys
  <2> QED
    BY <1>6, <2>6 DEF Removable
<1>18. SetsAreNamed'
  <2> SUFFICES ASSUME cuts' \cap {"finalize", "purge", "import"} = {}, NEW v \in Versions,
                      materialized'[v] # {}, versions'[v].status # "READY"
               PROVE  v \in SetsOf(p)
    BY <1>6 DEF SetsAreNamed
  <2>1. loop.op = "idle" /\ cuts' = cuts /\ materialized' = materialized
    OBVIOUS
  <2>2. versions[v].status = "READY"
    BY <2>1 DEF SetsAreNamed
  <2> QED
    BY <1>3, <2>2 DEF SetsOf
<1> QED
  BY <1>7, <1>8, <1>9, <1>10, <1>11, <1>12, <1>13, <1>14, <1>15, <1>16, <1>17, <1>18

(* A deletion by the user: nothing of the project is active.               *)
LEMMA DeleteProjectInv == ASSUME NEW p \in Projects, Inv, DeleteProject(p) PROVE Inv'
<1>1. /\ p \in projects /\ loop.op = "idle" /\ importing = NoImport /\ DropProject(p)
      /\ \A r \in RunsOf(p) : ~ActiveRun(r)
      /\ UNCHANGED <<blobs, materialized, directories, uploads, importing, executing, overtaken,
                     cuts>>
  BY ServingLoop DEF DeleteProject, disk, rest
<1>2. \A r \in Runs : runs[r].project = p => ~ActiveRun(r)
  BY <1>1 DEF RunsOf, ActiveRun
<1>3. materialized' \in [Versions -> SUBSET Samples]
  BY <1>1 DEF Inv, RowTypes
<1> QED
  BY <1>1, <1>2, <1>3, DropInv

(* The deletion that ends a failed import: no run knows its project.       *)
LEMMA ImportFailsInv == Inv /\ ImportFails => Inv'
<1> SUFFICES ASSUME Inv, ImportFails PROVE Inv'
  OBVIOUS
<1>1. /\ importing # NoImport /\ importing' = NoImport /\ "import" \in cuts'
      /\ materialized' = [v \in Versions |->
                            IF loop.op = "finalize" /\ v \in loop.sets THEN {}
                            ELSE materialized[v]]
      /\ DropProject(importing.project)
      /\ UNCHANGED <<blobs, directories, uploads, executing, overtaken>>
  BY DEF ImportFails, Fault
<1>2. PICK p \in projects : p = importing.project
  BY <1>1 DEF Inv, ImportIsAlone
<1>3. DropProject(p)
  BY <1>1, <1>2
<1>4. \A r \in Runs : runs[r].project = p => ~ActiveRun(r)
  BY <1>1, <1>2 DEF Inv, ImportIsAlone
<1>5. materialized' \in [Versions -> SUBSET Samples]
  BY <1>1 DEF Inv, RowTypes
<1>6. \A v \in Versions : versions[v].status = "READY" => materialized'[v] = materialized[v]
  BY <1>1 DEF Inv, LoopHolds
<1> QED
  BY <1>1, <1>3, <1>4, <1>5, <1>6, DropInv

(* The files that no Asset row names any more.                             *)
LEMMA PurgeBlobsInv == Inv /\ PurgeBlobs => Inv'
<1> SUFFICES ASSUME Inv, PurgeBlobs PROVE Inv'
  OBVIOUS
<1> USE DEF Inv
<1>1. /\ loop.op = "purge_blobs" /\ blobs' = blobs \ loop.files
      /\ loop' = [loop EXCEPT !.op = "purge_sets"]
      /\ UNCHANGED <<projects, deleted, models, versions, assets, runs, tasks, materialized,
                     directories, uploads, importing, executing, overtaken, cuts>>
  BY DEF PurgeBlobs, rows, rest
<1>2. /\ loop'.op = "purge_sets" /\ loop'.sets = loop.sets /\ loop'.runs = loop.runs
      /\ loop' \in [op : Ops, item : Item, from : Runs \cup {NoRun},
                    files : SUBSET (Blobs \cup Uploads \cup Projects),
                    sets : SUBSET Versions, runs : SUBSET Runs]
  <2>1. "purge_sets" \in Ops
    BY DEF Ops, Purges
  <2>2. loop \in [op : Ops, item : Item, from : Runs \cup {NoRun},
                  files : SUBSET (Blobs \cup Uploads \cup Projects),
                  sets : SUBSET Versions, runs : SUBSET Runs]
    BY DEF HandlerTypes
  <2> QED
    BY <1>1, <2>1, <2>2
<1>3. RowTypes' /\ HandlerTypes'
  BY <1>1, <1>2 DEF RowTypes, HandlerTypes
<1>4. Owned' /\ ImportIsAlone' /\ ReadyIsMaterialized'
  BY <1>1 DEF Owned, ImportIsAlone, ReadyIsMaterialized
<1>5. Named'
  BY <1>1 DEF Named, LoopHolds
<1>6. LoopHolds' /\ RegisteredMeets'
  BY <1>1, <1>2 DEF LoopHolds, RegisteredMeets, Purges
<1>7. RunsAreFed' /\ RowsHaveDirectories' /\ TasksAreSettled'
  BY <1>1 DEF RunsAreFed, RowsHaveDirectories, TasksAreSettled, ActiveRun, Rows
<1>8. ArchivesMeet' /\ ImportedIsNew' /\ OneArchive'
  BY <1>1, <1>2 DEF ArchivesMeet, ImportedIsNew, OneArchive, ToVersion
<1>9. FilesAreNamed'
  <2>1. InHand = loop.files /\ InHand' = {}
    BY <1>1, <1>2 DEF InHand
  <2> QED
    BY <1>1, <2>1 DEF FilesAreNamed, Keys
<1>10. SetsAreNamed'
  BY <1>1, <1>2 DEF SetsAreNamed
<1> QED
  BY <1>3, <1>4, <1>5, <1>6, <1>7, <1>8, <1>9, <1>10

(* The materialisations of versions that are gone.                         *)
LEMMA PurgeSetsInv == Inv /\ PurgeSets => Inv'
<1> SUFFICES ASSUME Inv, PurgeSets PROVE Inv'
  OBVIOUS
<1> USE DEF Inv
<1>1. /\ loop.op = "purge_sets" /\ loop' = [loop EXCEPT !.op = "purge_runs"]
      /\ materialized' = [v \in Versions |-> IF v \in loop.sets THEN {} ELSE materialized[v]]
      /\ UNCHANGED <<projects, deleted, models, versions, assets, runs, tasks, blobs,
                     directories, uploads, importing, executing, overtaken, cuts>>
  BY DEF PurgeSets, rows, rest
<1>2. /\ loop'.op = "purge_runs" /\ loop'.sets = loop.sets /\ loop'.runs = loop.runs
      /\ loop' \in [op : Ops, item : Item, from : Runs \cup {NoRun},
                    files : SUBSET (Blobs \cup Uploads \cup Projects),
                    sets : SUBSET Versions, runs : SUBSET Runs]
  <2>1. "purge_runs" \in Ops
    BY DEF Ops, Purges
  <2>2. loop \in [op : Ops, item : Item, from : Runs \cup {NoRun},
                  files : SUBSET (Blobs \cup Uploads \cup Projects),
                  sets : SUBSET Versions, runs : SUBSET Runs]
    BY DEF HandlerTypes
  <2> QED
    BY <1>1, <2>1, <2>2
<1>3. \A v \in loop.sets : versions[v].status = "DELETED"
  BY <1>1 DEF LoopHolds, Purges
<1>4. RowTypes' /\ HandlerTypes'
  BY <1>1, <1>2 DEF RowTypes, HandlerTypes
<1>5. Owned' /\ ImportIsAlone' /\ Named'
  BY <1>1 DEF Owned, ImportIsAlone, Named
<1>6. ReadyIsMaterialized'
  BY <1>1, <1>3 DEF ReadyIsMaterialized
<1>7. LoopHolds' /\ RegisteredMeets'
  BY <1>1, <1>2 DEF LoopHolds, RegisteredMeets, Purges
<1>8. RunsAreFed' /\ RowsHaveDirectories' /\ TasksAreSettled'
  BY <1>1 DEF RunsAreFed, RowsHaveDirectories, TasksAreSettled, ActiveRun, Rows
<1>9. ArchivesMeet' /\ ImportedIsNew' /\ OneArchive'
  BY <1>1, <1>2 DEF ArchivesMeet, ImportedIsNew, OneArchive, ToVersion
<1>10. FilesAreNamed'
  <2>1. InHand = {} /\ InHand' = {}
    BY <1>1, <1>2 DEF InHand
  <2> QED
    BY <1>1, <2>1 DEF FilesAreNamed, Keys
<1>11. SetsAreNamed'
  BY <1>1, <1>2 DEF SetsAreNamed
<1> QED
  BY <1>4, <1>5, <1>6, <1>7, <1>8, <1>9, <1>10, <1>11

(* The directories of runs that are gone.                                  *)
LEMMA PurgeRunsInv == Inv /\ PurgeRuns => Inv'
<1> SUFFICES ASSUME Inv, PurgeRuns PROVE Inv'
  OBVIOUS
<1> USE DEF Inv
<1>1. /\ loop.op = "purge_runs" /\ loop' = Free /\ loop'.op = "idle"
      /\ directories' = directories \ loop.runs
      /\ UNCHANGED <<projects, deleted, models, versions, assets, runs, tasks, blobs, materialized,
                     uploads, importing, executing, overtaken, cuts>>
  BY FreeFields DEF PurgeRuns, rows, rest
<1>2. /\ \A r \in loop.runs : runs[r].status = "DELETED"
      /\ loop.runs \subseteq Runs
  BY <1>1 DEF LoopHolds, Purges, HandlerTypes
<1>3. RowTypes' /\ HandlerTypes'
  BY <1>1, FreeFields DEF RowTypes, HandlerTypes
<1>4. Owned' /\ ImportIsAlone' /\ Named' /\ ReadyIsMaterialized'
  BY <1>1 DEF Owned, ImportIsAlone, Named, ReadyIsMaterialized
<1>5. LoopHolds' /\ RegisteredMeets'
  BY <1>1 DEF LoopHolds, RegisteredMeets, Purges
<1>6. RunsAreFed' /\ TasksAreSettled'
  BY <1>1 DEF RunsAreFed, TasksAreSettled, ActiveRun
<1>7. RowsHaveDirectories'
  <2>1. Rows' = Rows
    BY <1>1 DEF Rows
  <2>2. \A x \in Rows : x \notin loop.runs
    BY <1>2 DEF Rows, RowTypes, CatalogAssumption
  <2> QED
    BY <1>1, <2>1, <2>2 DEF RowsHaveDirectories
<1>8. ArchivesMeet' /\ ImportedIsNew' /\ OneArchive'
  BY <1>1 DEF ArchivesMeet, ImportedIsNew, OneArchive, ToVersion
<1>9. FilesAreNamed'
  <2>1. InHand = {} /\ InHand' = {}
    BY <1>1 DEF InHand
  <2> QED
    BY <1>1, <2>1 DEF FilesAreNamed, Keys
<1>10. SetsAreNamed'
  BY <1>1 DEF SetsAreNamed
<1> QED
  BY <1>3, <1>4, <1>5, <1>6, <1>7, <1>8, <1>9, <1>10

(* The project of an import: its id was never used.                        *)
LEMMA ImportCreateInv ==
    ASSUME NEW u \in Uploads, NEW p \in Projects, Inv, ImportCreate(u, p) PROVE Inv'
<1> USE DEF Inv
<1>1. /\ loop.op = "idle" /\ uploads[u].kind = "package" /\ p \notin projects \cup deleted
      /\ projects' = projects \cup {p}
      /\ importing' = [project |-> p, version |-> uploads[u].version,
                       contents |-> uploads[u].contents, stage |-> "model"]
      /\ uploads' = [uploads EXCEPT ![u] = NoUpload]
      /\ UNCHANGED <<deleted, models, versions, assets, runs, tasks, blobs, materialized,
                     directories, loop, executing, overtaken, cuts>>
  BY ServingLoop DEF ImportCreate, disk, rest
<1>2. uploads' \in [Uploads -> Item] /\ ArchivesMeet' /\ TasksAreSettled'
  BY <1>1, UploadOver
<1>3. uploads[u] \in Item
  BY DEF HandlerTypes
<1>4. /\ importing'.project = p /\ importing'.version \in Versions /\ importing'.stage = "model"
      /\ importing' \in [project : Projects \cup {NoProject}, version : Versions \cup {NoVersion},
                         contents : SUBSET Contents, stage : Stages]
  BY <1>1, <1>3 DEF Item, Stages
<1>5. RowTypes' /\ HandlerTypes'
  BY <1>1, <1>2, <1>4 DEF RowTypes, HandlerTypes
<1>6. Owned' /\ Named' /\ ReadyIsMaterialized'
  BY <1>1 DEF Owned, Named, ReadyIsMaterialized
<1>7. ImportIsAlone'
  <2>1. p # NoProject
    BY DEF CatalogAssumption
  <2> QED
    BY <1>1, <1>4, <2>1 DEF ImportIsAlone, Owned
<1>8. LoopHolds' /\ RegisteredMeets' /\ FilesAreNamed' /\ SetsAreNamed'
  BY <1>1 DEF LoopHolds, RegisteredMeets, Purges, FilesAreNamed, SetsAreNamed, InHand, Keys
<1>9. RunsAreFed' /\ RowsHaveDirectories'
  BY <1>1 DEF RunsAreFed, RowsHaveDirectories, ActiveRun, Rows
<1>10. ImportedIsNew' /\ OneArchive'
  BY <1>1, <1>4 DEF ImportedIsNew, OneArchive
<1> QED
  BY <1>2, <1>5, <1>6, <1>7, <1>8, <1>9, <1>10

(* A step that touches the runs, the worker and their directories only.    *)
LEMMA RunStep ==
    ASSUME Inv, UNCHANGED <<projects, deleted, models, versions, assets, blobs, materialized, uploads,
                            importing, cuts, tasks>>,
           runs' \in [Runs -> [status : RunStatuses, project : Projects \cup {NoProject},
                               version : Versions \cup {NoVersion}, content : SUBSET Contents]],
           loop' = loop \/ loop' = Free,
           executing' \in Runs \cup {NoRun}, overtaken \subseteq overtaken',
           \A r \in Runs : \/ runs'[r].project = runs[r].project
                           \/ importing = NoImport /\ runs'[r].project \in projects,
           \A r \in Runs : runs[r].status = "DELETED" => runs'[r].status = "DELETED",
           loop'.op = "idle" \/ loop'.op # "cancel" \/
             (/\ runs'[loop'.from].status \in {"QUEUED", "RUNNING", "ENDED"}
              /\ executing' = loop'.from => loop'.from \in overtaken'),
           RunsAreFed', RowsHaveDirectories',
           loop.op \in {"register", "finalize"} \cup Purges => loop' = loop
    PROVE  Inv'
<1> USE DEF Inv
<1>1. RowTypes'
  BY DEF RowTypes
<1>2. HandlerTypes'
  BY FreeFields DEF HandlerTypes
<1>3. Owned' /\ ImportIsAlone'
  BY DEF Owned, ImportIsAlone
<1>4. Named' /\ ReadyIsMaterialized' /\ TasksAreSettled'
  BY DEF Named, ReadyIsMaterialized, TasksAreSettled
<1>5. ArchivesMeet' /\ OneArchive'
  BY DEF ArchivesMeet, OneArchive, ToVersion
<1>6. ImportedIsNew'
  BY FreeFields DEF ImportedIsNew, ToVersion
<1>7. RegisteredMeets'
  BY FreeFields DEF RegisteredMeets, ToVersion, Batch
<1>8. LoopHolds'
  BY FreeFields DEF LoopHolds, HandlerTypes, Purges
<1>9. FilesAreNamed'
  <2>1. InHand' = InHand
    <3>1. CASE loop' = loop
      BY <3>1 DEF InHand
    <3>2. CASE loop' # loop
      <4>1. loop.op \notin {"register", "purge_blobs"} /\ loop'.op = "idle"
        BY <3>2, FreeFields DEF Purges
      <4> QED
        BY <4>1 DEF InHand
    <3> QED
      BY <3>1, <3>2
  <2> QED
    BY <2>1 DEF FilesAreNamed, Keys
<1>10. SetsAreNamed'
  BY FreeFields DEF SetsAreNamed, Purges
<1> QED
  BY <1>1, <1>2, <1>3, <1>4, <1>5, <1>6, <1>7, <1>8, <1>9, <1>10

(* A run is submitted: what it reads is there, and its directory comes     *)
(* with it.                                                                *)
LEMMA SubmitRunInv ==
    ASSUME NEW r \in Runs, NEW p \in Projects, NEW v \in Versions, NEW c \in Contents,
           Inv, SubmitRun(r, p, v, c)
    PROVE  Inv'
<1> USE DEF Inv
<1>1. /\ loop.op = "idle" /\ importing = NoImport /\ runs[r] = NoRow
      /\ <<p, c>> \in models /\ versions[v].project = p /\ versions[v].status = "READY"
      /\ runs' = [runs EXCEPT ![r] = [status |-> "QUEUED", project |-> p, version |-> v,
                                      content |-> {c}]]
      /\ directories' = directories \cup {r}
      /\ UNCHANGED <<projects, deleted, models, versions, assets, tasks, blobs, materialized,
                     uploads, loop, importing, executing, overtaken, cuts>>
  BY ServingLoop DEF SubmitRun, rest
<1>2. runs \in [Runs -> [status : RunStatuses, project : Projects \cup {NoProject},
                         version : Versions \cup {NoVersion}, content : SUBSET Contents]]
  BY DEF RowTypes
<1>3. /\ runs' \in [Runs -> [status : RunStatuses, project : Projects \cup {NoProject},
                             version : Versions \cup {NoVersion}, content : SUBSET Contents]]
      /\ runs'[r] = [status |-> "QUEUED", project |-> p, version |-> v, content |-> {c}]
      /\ \A q \in Runs : q # r => runs'[q] = runs[q]
  BY <1>1, <1>2 DEF RunStatuses
<1>4. p \in projects
  BY <1>1 DEF Owned
<1>5. RunsAreFed'
  <2>1. ASSUME NEW q \in Runs, ActiveRun(q)'
        PROVE  /\ \A d \in runs'[q].content : <<runs'[q].project, d>> \in models'
               /\ runs'[q].version \in Versions /\ runs'[q].project \in projects'
               /\ versions'[runs'[q].version].status = "READY"
               /\ versions'[runs'[q].version].project = runs'[q].project
    <3>1. CASE q = r
      BY <1>1, <1>3, <1>4, <3>1
    <3>2. CASE q # r
      <4>1. runs'[q] = runs[q] /\ ActiveRun(q)
        BY <1>3, <2>1, <3>2 DEF ActiveRun
      <4> QED
        BY <1>1, <4>1 DEF RunsAreFed
    <3> QED
      BY <3>1, <3>2
  <2>2. ASSUME executing' # NoRun, executing' \notin overtaken'
        PROVE  runs'[executing'].status = "RUNNING"
    <3>1. executing \in Runs /\ runs[executing].status = "RUNNING"
      BY <1>1, <2>2 DEF RunsAreFed, HandlerTypes
    <3>2. executing # r
      BY <1>1, <3>1 DEF NoRow
    <3> QED
      BY <1>1, <1>3, <3>1, <3>2
  <2> QED
    BY <2>1, <2>2 DEF RunsAreFed
<1>6. RowsHaveDirectories'
  <2>1. Rows' \subseteq Rows \cup {r}
    BY <1>1, <1>3 DEF Rows
  <2> QED
    BY <1>1, <2>1 DEF RowsHaveDirectories
<1>7. \A q \in Runs : \/ runs'[q].project = runs[q].project
                      \/ importing = NoImport /\ runs'[q].project \in projects
  BY <1>1, <1>3, <1>4
<1>8. \A q \in Runs : runs[q].status = "DELETED" => runs'[q].status = "DELETED"
  BY <1>1, <1>3 DEF NoRow
<1>9. executing' \in Runs \cup {NoRun}
  BY <1>1 DEF HandlerTypes
<1> QED
  BY <1>1, <1>3, <1>5, <1>6, <1>7, <1>8, <1>9, RunStep

(* The worker claims a run, maybe while a cancellation that has read it as *)
(* queued is still to be committed.                                        *)
LEMMA ClaimInv == ASSUME NEW r \in Runs, Inv, Claim(r) PROVE Inv'
<1> USE DEF Inv
<1>1. /\ executing = NoRun /\ runs[r].status = "QUEUED"
      /\ runs' = [runs EXCEPT ![r].status = "RUNNING"]
      /\ executing' = r
      /\ overtaken' = IF loop.op = "cancel" /\ loop.from = r THEN overtaken \cup {r} ELSE overtaken
      /\ UNCHANGED <<projects, deleted, models, versions, assets, tasks, blobs, materialized,
                     directories, uploads, loop, importing, cuts>>
  BY DEF Claim, disk
<1>2. runs \in [Runs -> [status : RunStatuses, project : Projects \cup {NoProject},
                         version : Versions \cup {NoVersion}, content : SUBSET Contents]]
  BY DEF RowTypes
<1>3. /\ runs' \in [Runs -> [status : RunStatuses, project : Projects \cup {NoProject},
                             version : Versions \cup {NoVersion}, content : SUBSET Contents]]
      /\ runs'[r].status = "RUNNING"
      /\ \A q \in Runs : q # r => runs'[q] = runs[q]
      /\ \A q \in Runs : /\ runs'[q].project = runs[q].project
                         /\ runs'[q].version = runs[q].version
                         /\ runs'[q].content = runs[q].content
  BY <1>1, <1>2 DEF RunStatuses
<1>4. RunsAreFed'
  <2>1. ASSUME NEW q \in Runs, ActiveRun(q)' PROVE ActiveRun(q)
    BY <1>1, <1>3, <2>1 DEF ActiveRun
  <2>2. ASSUME NEW q \in Runs, ActiveRun(q)'
        PROVE  /\ \A d \in runs'[q].content : <<runs'[q].project, d>> \in models'
               /\ runs'[q].version \in Versions /\ runs'[q].project \in projects'
               /\ versions'[runs'[q].version].status = "READY"
               /\ versions'[runs'[q].version].project = runs'[q].project
    BY <1>1, <1>3, <2>1, <2>2 DEF RunsAreFed
  <2> QED
    BY <1>1, <1>3, <2>2 DEF RunsAreFed
<1>5. RowsHaveDirectories'
  <2>1. Rows' = Rows
    <3>1. \A q \in Runs : runs'[q].status \notin {"ABSENT", "DELETED"}
                            <=> runs[q].status \notin {"ABSENT", "DELETED"}
      BY <1>1, <1>3
    <3> QED
      BY <1>1, <3>1 DEF Rows
  <2> QED
    BY <1>1, <2>1 DEF RowsHaveDirectories
<1>6. \A q \in Runs : runs[q].status = "DELETED" => runs'[q].status = "DELETED"
  BY <1>1, <1>3
<1>7. loop.op = "cancel" => /\ runs'[loop.from].status \in {"QUEUED", "RUNNING", "ENDED"}
                            /\ executing' = loop.from => loop.from \in overtaken'
  BY <1>1, <1>3 DEF LoopHolds, HandlerTypes
<1> QED
  BY <1>1, <1>3, <1>4, <1>5, <1>6, <1>7, RunStep

(* The worker is done with its run, whatever has become of the row.        *)
LEMMA RunEndsInv == Inv /\ RunEnds => Inv'
<1> SUFFICES ASSUME Inv, RunEnds PROVE Inv'
  OBVIOUS
<1> USE DEF Inv
<1>1. /\ executing # NoRun /\ executing' = NoRun
      /\ runs' = IF runs[executing].status = "RUNNING"
                 THEN [runs EXCEPT ![executing].status = "ENDED"] ELSE runs
      /\ UNCHANGED <<projects, deleted, models, versions, assets, tasks, blobs, materialized,
                     directories, uploads, loop, importing, overtaken, cuts>>
  BY DEF RunEnds, disk
<1>2. /\ executing \in Runs
      /\ runs \in [Runs -> [status : RunStatuses, project : Projects \cup {NoProject},
                            version : Versions \cup {NoVersion}, content : SUBSET Contents]]
  BY <1>1 DEF RowTypes, HandlerTypes
<1>3. /\ runs' \in [Runs -> [status : RunStatuses, project : Projects \cup {NoProject},
                             version : Versions \cup {NoVersion}, content : SUBSET Contents]]
      /\ \A q \in Runs : \/ runs'[q] = runs[q]
                         \/ runs[q].status = "RUNNING" /\ runs'[q].status = "ENDED"
      /\ \A q \in Runs : runs'[q].project = runs[q].project
  BY <1>1, <1>2 DEF RunStatuses
<1>4. RunsAreFed'
  <2>1. ASSUME NEW q \in Runs, ActiveRun(q)' PROVE ActiveRun(q) /\ runs'[q] = runs[q]
    BY <1>3, <2>1 DEF ActiveRun
  <2>2. ASSUME NEW q \in Runs, ActiveRun(q)'
        PROVE  /\ \A d \in runs'[q].content : <<runs'[q].project, d>> \in models'
               /\ runs'[q].version \in Versions /\ runs'[q].project \in projects'
               /\ versions'[runs'[q].version].status = "READY"
               /\ versions'[runs'[q].version].project = runs'[q].project
    BY <1>1, <2>1, <2>2 DEF RunsAreFed
  <2> QED
    BY <1>1, <2>2 DEF RunsAreFed
<1>5. RowsHaveDirectories'
  <2>1. Rows' = Rows
    <3>1. \A q \in Runs : runs'[q].status \notin {"ABSENT", "DELETED"}
                            <=> runs[q].status \notin {"ABSENT", "DELETED"}
      BY <1>3
    <3> QED
      BY <1>1, <3>1 DEF Rows
  <2> QED
    BY <1>1, <2>1 DEF RowsHaveDirectories
<1>6. \A q \in Runs : runs[q].status = "DELETED" => runs'[q].status = "DELETED"
  BY <1>3
<1>7. loop.op = "cancel" => /\ runs'[loop.from].status \in {"QUEUED", "RUNNING", "ENDED"}
                            /\ executing' = loop.from => loop.from \in overtaken'
  <2> SUFFICES ASSUME loop.op = "cancel"
               PROVE  /\ runs'[loop.from].status \in {"QUEUED", "RUNNING", "ENDED"}
                      /\ executing' # loop.from
    OBVIOUS
  <2>1. loop.from \in Runs /\ runs[loop.from].status \in {"QUEUED", "RUNNING", "ENDED"}
    BY DEF LoopHolds, HandlerTypes
  <2> QED
    BY <1>1, <1>3, <2>1 DEF CatalogAssumption
<1> QED
  BY <1>1, <1>3, <1>4, <1>5, <1>6, <1>7, RunStep

(* A cancellation reads a queued run, which the worker has not claimed.    *)
LEMMA CancelLoadInv == ASSUME NEW r \in Runs, Inv, CancelLoad(r) PROVE Inv'
<1> USE DEF Inv
<1>1. /\ loop.op = "idle" /\ importing = NoImport /\ runs[r].status = "QUEUED"
      /\ loop' = [Free EXCEPT !.op = "cancel", !.from = r]
      /\ UNCHANGED <<projects, deleted, models, versions, assets, runs, tasks, blobs, materialized,
                     directories, uploads, importing, executing, overtaken, cuts>>
  BY ServingLoop DEF CancelLoad, rows, disk, rest
<1>2. /\ loop'.op = "cancel" /\ loop'.from = r
      /\ loop' \in [op : Ops, item : Item, from : Runs \cup {NoRun},
                    files : SUBSET (Blobs \cup Uploads \cup Projects),
                    sets : SUBSET Versions, runs : SUBSET Runs]
  <2>1. "cancel" \in Ops
    BY DEF Ops
  <2> QED
    BY <1>1, <2>1, FreeFields DEF Free
<1>3. RowTypes' /\ HandlerTypes'
  BY <1>1, <1>2 DEF RowTypes, HandlerTypes
<1>4. Owned' /\ ImportIsAlone' /\ Named' /\ ReadyIsMaterialized'
  BY <1>1 DEF Owned, ImportIsAlone, Named, ReadyIsMaterialized
<1>5. LoopHolds'
  <2>1. executing = r => r \in overtaken
    BY <1>1 DEF RunsAreFed, CatalogAssumption
  <2> QED
    BY <1>1, <1>2, <2>1 DEF LoopHolds, Purges
<1>6. RunsAreFed' /\ RowsHaveDirectories' /\ TasksAreSettled'
  BY <1>1 DEF RunsAreFed, RowsHaveDirectories, TasksAreSettled, ActiveRun, Rows
<1>7. ArchivesMeet' /\ RegisteredMeets' /\ ImportedIsNew' /\ OneArchive'
  BY <1>1, <1>2 DEF ArchivesMeet, RegisteredMeets, ImportedIsNew, OneArchive, ToVersion
<1>8. FilesAreNamed'
  <2>1. InHand = {} /\ InHand' = {}
    BY <1>1, <1>2 DEF InHand
  <2> QED
    BY <1>1, <2>1 DEF FilesAreNamed, Keys
<1>9. SetsAreNamed'
  BY <1>1, <1>2 DEF SetsAreNamed
<1> QED
  BY <1>3, <1>4, <1>5, <1>6, <1>7, <1>8, <1>9

(* The cancellation is written over whatever the run has become.           *)
LEMMA CancelCommitInv == Inv /\ CancelCommit => Inv'
<1> SUFFICES ASSUME Inv, CancelCommit PROVE Inv'
  OBVIOUS
<1> USE DEF Inv
<1>1. /\ loop.op = "cancel" /\ loop' = Free /\ loop'.op = "idle"
      /\ runs' = [runs EXCEPT ![loop.from].status = "ENDED"]
      /\ UNCHANGED <<projects, deleted, models, versions, assets, tasks, blobs, materialized,
                     directories, uploads, importing, executing, overtaken, cuts>>
  BY FreeFields DEF CancelCommit, Flush, disk, rest
<1>2. /\ loop.from \in Runs
      /\ runs[loop.from].status \in {"QUEUED", "RUNNING", "ENDED"}
      /\ executing = loop.from => loop.from \in overtaken
      /\ executing \in Runs \cup {NoRun}
  BY <1>1 DEF LoopHolds, HandlerTypes
<1>3. runs \in [Runs -> [status : RunStatuses, project : Projects \cup {NoProject},
                         version : Versions \cup {NoVersion}, content : SUBSET Contents]]
  BY DEF RowTypes
<1>4. /\ runs' \in [Runs -> [status : RunStatuses, project : Projects \cup {NoProject},
                             version : Versions \cup {NoVersion}, content : SUBSET Contents]]
      /\ runs'[loop.from].status = "ENDED"
      /\ \A q \in Runs : q # loop.from => runs'[q] = runs[q]
      /\ \A q \in Runs : runs'[q].project = runs[q].project
  BY <1>1, <1>2, <1>3 DEF RunStatuses
<1>5. RunsAreFed'
  <2>1. ASSUME NEW q \in Runs, ActiveRun(q)' PROVE ActiveRun(q) /\ runs'[q] = runs[q]
    BY <1>4, <2>1 DEF ActiveRun
  <2>2. ASSUME NEW q \in Runs, ActiveRun(q)'
        PROVE  /\ \A d \in runs'[q].content : <<runs'[q].project, d>> \in models'
               /\ runs'[q].version \in Versions /\ runs'[q].project \in projects'
               /\ versions'[runs'[q].version].status = "READY"
               /\ versions'[runs'[q].version].project = runs'[q].project
    BY <1>1, <2>1, <2>2 DEF RunsAreFed
  <2>3. executing' # NoRun /\ executing' \notin overtaken' => runs'[executing'].status = "RUNNING"
    BY <1>1, <1>2, <1>4 DEF RunsAreFed
  <2> QED
    BY <2>2, <2>3 DEF RunsAreFed
<1>6. RowsHaveDirectories'
  <2>1. Rows' = Rows
    <3>1. \A q \in Runs : runs'[q].status \notin {"ABSENT", "DELETED"}
                            <=> runs[q].status \notin {"ABSENT", "DELETED"}
      BY <1>2, <1>4
    <3> QED
      BY <1>1, <3>1 DEF Rows
  <2> QED
    BY <1>1, <2>1 DEF RowsHaveDirectories
<1>7. \A q \in Runs : runs[q].status = "DELETED" => runs'[q].status = "DELETED"
  BY <1>2, <1>4
<1>8. loop.op \notin {"register", "finalize"} \cup Purges
  BY <1>1 DEF Purges
<1>9. executing' \in Runs \cup {NoRun} /\ overtaken \subseteq overtaken'
  BY <1>1, <1>2
<1> QED
  BY <1>1, <1>4, <1>5, <1>6, <1>7, <1>8, <1>9, RunStep

(* Neither a preview nor a cleanup touches the directory of a row.         *)
LEMMA CleanupInv == Inv /\ (CleanupPreview \/ Cleanup) => Inv'
<1> SUFFICES ASSUME Inv, CleanupPreview \/ Cleanup PROVE Inv'
  OBVIOUS
<1> USE DEF Inv
<1>1. /\ UNCHANGED <<projects, deleted, models, versions, assets, runs, tasks, blobs, materialized,
                     uploads, loop, importing, executing, overtaken, cuts>>
      /\ directories' \in {directories, directories \ Orphans}
  BY DEF CleanupPreview, Cleanup, rows, disk
<1>2. RowTypes' /\ HandlerTypes'
  BY <1>1 DEF RowTypes, HandlerTypes
<1>3. Owned' /\ ImportIsAlone' /\ Named' /\ ReadyIsMaterialized'
  BY <1>1 DEF Owned, ImportIsAlone, Named, ReadyIsMaterialized
<1>4. LoopHolds' /\ RegisteredMeets'
  BY <1>1 DEF LoopHolds, RegisteredMeets, ToVersion, Batch
<1>5. RunsAreFed' /\ TasksAreSettled'
  BY <1>1 DEF RunsAreFed, TasksAreSettled, ActiveRun
<1>6. RowsHaveDirectories'
  <2>1. Rows' = Rows
    BY <1>1 DEF Rows
  <2> QED
    BY <1>1, <2>1 DEF RowsHaveDirectories, Orphans
<1>7. ArchivesMeet' /\ ImportedIsNew' /\ OneArchive'
  BY <1>1 DEF ArchivesMeet, ImportedIsNew, OneArchive, ToVersion
<1>8. FilesAreNamed' /\ SetsAreNamed'
  BY <1>1 DEF FilesAreNamed, SetsAreNamed, InHand, Keys
<1> QED
  BY <1>2, <1>3, <1>4, <1>5, <1>6, <1>7, <1>8

(* The controller dies: cuts tells what it had in hand.                    *)
LEMMA RestartInv == Inv /\ Restart => Inv'
<1> SUFFICES ASSUME Inv, Restart PROVE Inv'
  OBVIOUS
<1> USE DEF Inv
<1>1. /\ loop' = Free /\ importing' = NoImport
      /\ uploads' = [u \in Uploads |->
                       IF uploads[u].kind = "not_asked" THEN NotAsked ELSE NoUpload]
      /\ cuts' = cuts \cup {CutName[op] : op \in {loop.op} \cap DOMAIN CutName}
                      \cup (IF importing = NoImport THEN {} ELSE {"import"})
      /\ UNCHANGED <<projects, deleted, models, versions, assets, runs, tasks, blobs, materialized,
                     directories, executing, overtaken>>
  BY DEF Restart, rows, disk
<1>2. /\ loop'.op = "idle" /\ importing'.stage = "none"
      /\ loop' \in [op : Ops, item : Item, from : Runs \cup {NoRun},
                    files : SUBSET (Blobs \cup Uploads \cup Projects),
                    sets : SUBSET Versions, runs : SUBSET Runs]
  BY <1>1, FreeFields DEF NoImport
<1>3. /\ uploads' \in [Uploads -> Item]
      /\ \A u \in Uploads : uploads'[u].kind \in {"none", "not_asked"}
      /\ \A u \in Uploads : uploads[u].kind = "none" => uploads'[u].kind = "none"
  BY <1>1, FreeFields
<1>4. \A u \in Uploads, v \in Versions : ~ToVersion(u, v)'
  BY <1>3 DEF ToVersion
<1>5. /\ cuts \subseteq cuts'
      /\ loop.op = "register" => "upload" \in cuts'
      /\ loop.op = "finalize" => "finalize" \in cuts'
      /\ loop.op \in Purges => "purge" \in cuts'
  <2>1. /\ DOMAIN CutName = {"register", "finalize", "purge_blobs", "purge_sets", "purge_runs"}
        /\ CutName["register"] = "upload" /\ CutName["finalize"] = "finalize"
        /\ CutName["purge_blobs"] = "purge" /\ CutName["purge_sets"] = "purge"
        /\ CutName["purge_runs"] = "purge"
    BY DEF CutName
  <2>2. loop.op \in DOMAIN CutName => CutName[loop.op] \in cuts'
    BY <1>1
  <2> QED
    BY <1>1, <2>1, <2>2 DEF Purges
<1>6. RowTypes' /\ HandlerTypes'
  <2>1. NoImport \in [project : Projects \cup {NoProject}, version : Versions \cup {NoVersion},
                      contents : SUBSET Contents, stage : Stages]
    BY DEF NoImport, Stages
  <2> QED
    BY <1>1, <1>2, <1>3, <2>1 DEF RowTypes, HandlerTypes
<1>7. Owned' /\ ImportIsAlone' /\ Named' /\ ReadyIsMaterialized'
  BY <1>1 DEF Owned, ImportIsAlone, Named, ReadyIsMaterialized
<1>8. LoopHolds' /\ RegisteredMeets' /\ ImportedIsNew'
  BY <1>1, <1>2 DEF LoopHolds, RegisteredMeets, ImportedIsNew, Purges
<1>9. RunsAreFed' /\ RowsHaveDirectories' /\ TasksAreSettled'
  BY <1>1, <1>3 DEF RunsAreFed, RowsHaveDirectories, TasksAreSettled, ActiveRun, Rows, RowTypes
<1>10. ArchivesMeet' /\ OneArchive'
  BY <1>1, <1>4 DEF ArchivesMeet, OneArchive
<1>11. FilesAreNamed'
  <2> SUFFICES ASSUME cuts' \cap {"upload", "refused", "purge", "import"} = {}
               PROVE  blobs \subseteq Keys(assets)
    BY <1>1 DEF FilesAreNamed, Keys
  <2>1. loop.op # "register" /\ loop.op # "purge_blobs"
    BY <1>5 DEF Purges
  <2>2. InHand = {}
    BY <2>1 DEF InHand
  <2> QED
    BY <1>5, <2>2 DEF FilesAreNamed
<1>12. SetsAreNamed'
  BY <1>1, <1>5 DEF SetsAreNamed, Purges
<1> QED
  BY <1>6, <1>7, <1>8, <1>9, <1>10, <1>11, <1>12

----------------------------------------------------------------------------
(* The invariant holds                                                     *)

(* Whatever handler runs.                                                  *)
LEMMA HandlersInv == Inv /\ Handlers => Inv'
<1> SUFFICES ASSUME Inv, Handlers PROVE Inv'
  OBVIOUS
<1>1. CASE \E p \in Projects : CreateProject(p) \/ DeleteProject(p)
  BY <1>1, CreateProjectInv, DeleteProjectInv
<1>2. CASE \E p \in Projects, v \in Versions : CreateSet(p, v)
  BY <1>2, CreateSetInv
<1>3. CASE \E u \in Uploads, item \in Requests : BeginUpload(u, item)
  BY <1>3, BeginUploadInv
<1>4. CASE \E u \in Uploads : UploadFails(u) \/ Promote(u) \/ SubmitTask(u)
  BY <1>4, UploadEndsInv, PromoteInv
<1>5. CASE Register \/ Refuse
  BY <1>5, RegisterInv, RefuseInv
<1>6. CASE (\E v \in Versions : Finalize(v)) \/ Finalized \/ FinalizeFails
  BY <1>6, MaterializeInv, FinalizedInv, FinalizeFailsInv
<1>7. CASE PurgeBlobs \/ PurgeSets \/ PurgeRuns \/ PurgeFails
  BY <1>7, PurgeBlobsInv, PurgeSetsInv, PurgeRunsInv, PurgeFailsInv
<1>8. CASE CleanupPreview \/ Cleanup
  BY <1>8, CleanupInv
<1> QED
  BY <1>1, <1>2, <1>3, <1>4, <1>5, <1>6, <1>7, <1>8 DEF Handlers

(* Whatever an import does.                                                *)
LEMMA ImportInv == Inv /\ Import => Inv'
<1> SUFFICES ASSUME Inv, Import PROVE Inv'
  OBVIOUS
<1>1. CASE \E u \in Uploads, p \in Projects : ImportCreate(u, p)
  BY <1>1, ImportCreateInv
<1>2. CASE ImportModel \/ ImportSet \/ ImportSamples
  BY <1>2, ImportFileInv, ImportSetInv
<1>3. CASE ImportFinalize
  <2>1. importing # NoImport
    BY <1>3 DEF ImportFinalize, Importing, NoImport
  <2>2. importing.version \in Versions
    BY <2>1 DEF Inv, HandlerTypes
  <2> QED
    BY <1>3, <2>2, MaterializeInv
<1>4. CASE ImportEnd \/ ImportFails
  BY <1>4, ImportEndInv, ImportFailsInv
<1> QED
  BY <1>1, <1>2, <1>3, <1>4 DEF Import

(* Whatever happens to a conversion.                                       *)
LEMMA ConversionsInv == Inv /\ Conversions => Inv'
<1> SUFFICES ASSUME Inv, Conversions PROVE Inv'
  OBVIOUS
<1>1. CASE \E r \in Runs, p \in Projects, v \in Versions, c \in Contents : SubmitRun(r, p, v, c)
  BY <1>1, SubmitRunInv
<1>2. CASE \E r \in Runs : Claim(r) \/ CancelLoad(r)
  BY <1>2, ClaimInv, CancelLoadInv
<1>3. CASE RunEnds \/ CancelCommit
  BY <1>3, RunEndsInv, CancelCommitInv
<1> QED
  BY <1>1, <1>2, <1>3 DEF Conversions

(* The invariant reads no other variable.                                  *)
LEMMA StutterInv == Inv /\ UNCHANGED vars => Inv'
<1> SUFFICES ASSUME Inv, UNCHANGED vars PROVE Inv'
  OBVIOUS
<1> USE DEF Inv
<1>1. UNCHANGED <<projects, deleted, models, versions, assets, runs, tasks, blobs, materialized,
                  directories, uploads, loop, importing, executing, overtaken, cuts>>
  BY DEF vars, rows, disk, rest
<1>2. RowTypes' /\ HandlerTypes' /\ Owned' /\ ImportIsAlone' /\ Named' /\ ReadyIsMaterialized'
  BY <1>1 DEF RowTypes, HandlerTypes, Owned, ImportIsAlone, Named, ReadyIsMaterialized
<1>3. LoopHolds' /\ RunsAreFed' /\ RowsHaveDirectories' /\ TasksAreSettled'
  BY <1>1 DEF LoopHolds, RunsAreFed, RowsHaveDirectories, TasksAreSettled, ActiveRun, Rows
<1>4. ArchivesMeet' /\ RegisteredMeets' /\ ImportedIsNew' /\ OneArchive'
  BY <1>1 DEF ArchivesMeet, RegisteredMeets, ImportedIsNew, OneArchive, ToVersion, Batch
<1>5. FilesAreNamed' /\ SetsAreNamed'
  BY <1>1 DEF FilesAreNamed, SetsAreNamed, InHand, Keys
<1> QED
  BY <1>2, <1>3, <1>4, <1>5

(* What every state of the catalog satisfies.                              *)
THEOREM CatalogHolds == Spec => []Inv
<1>1. Inv /\ [Next]_vars => Inv'
  BY HandlersInv, ImportInv, ConversionsInv, RestartInv, StutterInv DEF Next
<1> QED
  BY InitInv, <1>1, PTL DEF Spec

----------------------------------------------------------------------------
(* What follows from it                                                    *)

(* CatalogRepository commits a row after its file has been promoted and    *)
(* delete_unreferenced removes a file after its last row is gone: whatever *)
(* uploads, deletions, imports, faults and restarts overlap, every Asset   *)
(* row that a project uses exists and has its blob, and a READY version    *)
(* has exactly the samples of its rows in its directory.                   *)
THEOREM RowsBacked == Spec => []RowsAreBacked
<1>1. Inv => RowsAreBacked
  <2> SUFFICES ASSUME Inv PROVE RowsAreBacked
    OBVIOUS
  <2>1. ASSUME NEW x \in AssetsOf(projects) PROVE x \in assets
    BY AssetsOfElements DEF Inv, Named
  <2>2. Keys(assets) \subseteq blobs
    BY KeysElements DEF Inv, Named
  <2> QED
    BY <2>1, <2>2 DEF RowsAreBacked, Inv, ReadyIsMaterialized
<1> QED
  BY <1>1, CatalogHolds, PTL

(* resolve_conversion_inputs reads the rows once, when the run is          *)
(* submitted, and the container reads the files until it ends: the model,  *)
(* the materialised calibration and the run directory are there all that   *)
(* time, because delete_project refuses a project with an active run and a *)
(* cleanup spares the directories of rows. The run that the worker goes on *)
(* with after its cancellation was written over the claim is left out.     *)
THEOREM InputsRemain == Spec => []InputsStay
<1>1. Inv => InputsStay
  <2> SUFFICES ASSUME Inv, NEW r \in Runs, ActiveRun(r) \/ (executing = r /\ r \notin overtaken)
               PROVE  /\ Keys({<<"model", c>> : c \in runs[r].content}) \subseteq blobs
                      /\ materialized[runs[r].version] # {}
                      /\ r \in directories
    BY DEF InputsStay
  <2>1. ActiveRun(r)
    BY DEF Inv, RunsAreFed, ActiveRun, CatalogAssumption
  <2>2. /\ \A c \in runs[r].content : <<runs[r].project, c>> \in models
        /\ runs[r].version \in Versions
        /\ versions[runs[r].version].status = "READY"
    BY <2>1 DEF Inv, RunsAreFed
  <2>3. ASSUME NEW c \in runs[r].content PROVE BlobKey("model", c) \in blobs
    <3>1. <<"model", c>> \in assets
      BY <2>2 DEF Inv, Named
    <3> QED
      BY <3>1 DEF Inv, Named
  <2>4. Keys({<<"model", c>> : c \in runs[r].content}) \subseteq blobs
    BY <2>3 DEF Keys
  <2>5. materialized[runs[r].version] # {}
    BY <2>2 DEF Inv, ReadyIsMaterialized
  <2>6. r \in directories
    BY <2>1 DEF Inv, RowsHaveDirectories, Rows, ActiveRun
  <2> QED
    BY <2>4, <2>5, <2>6
<1> QED
  BY <1>1, CatalogHolds, PTL

(* A run or a board task never loses its directory while its row exists:   *)
(* execute of MaintenanceService removes the candidates of a plan only     *)
(* when they are still the orphans, and a deletion removes the directories *)
(* of rows that it has committed away.                                     *)
THEOREM DirectoriesRemain == Spec => []RowsHaveDirectories
<1>1. Inv => RowsHaveDirectories
  BY DEF Inv
<1> QED
  BY <1>1, CatalogHolds, PTL

(* The check of upload_calibration_archive that a version for several      *)
(* inputs is still empty is made before the bytes are awaited and not made *)
(* again: two archives get in only when they were received at once.        *)
THEOREM ArchiveIsAlone == Spec => []OneArchive
<1>1. Inv => OneArchive
  BY DEF Inv
<1> QED
  BY <1>1, CatalogHolds, PTL

(* Nothing outlives what referred to it, and no materialisation stands in  *)
(* the way of a draft, but what a fault, a refusal or the end of the       *)
(* process has left behind.                                                *)
THEOREM NothingRemains == Spec => []NothingIsLeft
<1>1. Inv => NothingIsLeft
  <2> SUFFICES ASSUME Inv, Serving PROVE NothingIsLeft
    BY DEF NothingIsLeft
  <2>1. loop.op = "idle"
    BY ServingLoop
  <2>2. InHand = {}
    BY <2>1 DEF InHand
  <2>3. \/ blobs \subseteq Keys(assets)
        \/ cuts \cap {"upload", "refused", "purge", "import"} # {}
    BY <2>2 DEF Inv, FilesAreNamed
  <2>4. \A v \in Versions : materialized[v] # {} /\ versions[v].status # "READY" =>
              cuts \cap {"finalize", "purge", "import"} # {}
    BY <2>1 DEF Inv, SetsAreNamed
  <2> QED
    BY <2>3, <2>4 DEF NothingIsLeft
<1> QED
  BY <1>1, CatalogHolds, PTL
=============================================================================
