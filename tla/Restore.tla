------------------------------- MODULE Restore -------------------------------
(***************************************************************************)
(* The offline restore of BackupArchive: the swap of the database with its *)
(* WAL files, the secret store, the assets and the run directories for the *)
(* contents of an archive, its undo when a step fails, and the attempts    *)
(* that follow a crash. One action is one rename or one removal.           *)
(*                                                                         *)
(* A content is the generation it belongs to: what was there before, what  *)
(* the archive holds, or what the controller creates when it finds nothing.*)
(* What ended attempts leave in the assets or the runs directory is one    *)
(* more entry of it, its rest: their rollback directories and their stages.*)
(***************************************************************************)
EXTENDS Naturals, Sequences, SequencesExt, FiniteSets

CONSTANTS
    AssetChildren,  \* entries of the assets directory, before or in the archive
    RunChildren,    \* entries of the runs directory
    MaxFaults,      \* bound on the system calls that fail
    MaxCrashes      \* bound on the attempts that are killed or interrupted

ASSUME RestoreAssumption ==
    /\ AssetChildren \cap RunChildren = {}
    /\ {"wal", "shm", "db", "secrets", "assets_rest", "runs_rest"}
          \cap (AssetChildren \cup RunChildren) = {}
    /\ MaxFaults \in Nat /\ MaxCrashes \in Nat

VARIABLES
    archive,    \* the archive: its scope, its entries and what verify finds wrong
    origin,     \* the contents before the first attempt
    live,       \* the contents at the paths the controller uses
    base,       \* live when the current or last attempt began
    aside,      \* what lies on the rollback paths of the current or last attempt
    staged,     \* what it extracted and did not install yet
    moved,      \* local variable moved, in order
    installed,  \* local variable installed, in order
    pc, stage,  \* the step and the stage of the attempt
    outcome,    \* how the last attempt ended
    left,       \* entries whose old content an ended attempt left on a rollback path
    swapped,    \* history: an attempt has installed everything
    faults, crashes

data    == <<live, aside, staged, left>>
attempt == <<moved, installed, pc, stage, outcome>>
fixed   == <<archive, origin>>
restoreVars == <<archive, origin, live, base, aside, staged, moved, installed, pc, stage,
                 outcome, left, swapped, faults, crashes>>

Sidecars == {"wal", "shm"}
Rests == {"assets_rest", "runs_rest"}
Items == Sidecars \cup {"db", "secrets"} \cup AssetChildren \cup RunChildren \cup Rests
Nothing == [i \in Items |-> "none"]

(* Slip: the database is swapped before its WAL is moved.                  *)
StagesDatabaseFirst == <<"db", "sidecars", "secrets", "assets", "runs">>

Stages == <<"sidecars", "db", "secrets", "assets", "runs">>

Members == [sidecars |-> Sidecars, db |-> {"db"}, secrets |-> {"secrets"},
            assets |-> AssetChildren \cup {"assets_rest"},
            runs |-> RunChildren \cup {"runs_rest"}]

(* The directory a rest lies in.                                           *)
Root == [assets_rest |-> Members["assets"], runs_rest |-> Members["runs"]]

InScope(s) == /\ s = "secrets" => archive.credentials
              /\ s = "runs" => archive.runs
Scope == UNION {Members[s] : s \in {t \in DOMAIN Members : InScope(t)}}

(* create() writes every entry of the directories in the scope, the        *)
(* database always, and no WAL: the snapshot is complete without one. It   *)
(* ran before the first attempt, when there was no rest.                   *)
Archives ==
    {[credentials |-> c, runs |-> r, entries |-> e, defect |-> d] :
        c \in BOOLEAN, r \in BOOLEAN, d \in {"none", "member", "content", "database"},
        e \in {x \in SUBSET (Items \ (Sidecars \cup Rests)) : {"db", "secrets"} \subseteq x}}

Init ==
    /\ archive \in Archives
    /\ \E present \in SUBSET (Items \ Rests) :
         /\ {"db", "secrets"} \subseteq present
         /\ "wal" \in present <=> "shm" \in present
         /\ origin = [i \in Items |-> IF i \in present THEN "old" ELSE "none"]
    /\ live = origin /\ base = origin
    /\ aside = Nothing /\ staged = Nothing
    /\ moved = <<>> /\ installed = <<>>
    /\ pc = "stopped" /\ stage = 1 /\ outcome = "none"
    /\ left = {} /\ swapped = FALSE /\ faults = 0 /\ crashes = 0

----------------------------------------------------------------------------
(* Helpers                                                                 *)

At(p) == pc = p
In == Members[Stages[stage]]
Holds(content, i) == content[i] # "none"

(* The rests of the roots in which a content has an entry.                 *)
Strewn(content) == {r \in Rests : \E i \in Root[r] : Holds(content, i)}
Littered(content, rests) == [i \in Items |-> IF i \in rests THEN "rest" ELSE content[i]]

(* What the archive unpacks to.                                            *)
Packed == [i \in Items |-> IF i \in archive.entries \cap Scope THEN "new" ELSE "none"]

(* settings.ensure_directories: the secret store exists, perhaps empty.    *)
Ensured(content) == [content EXCEPT !["secrets"] = IF @ = "none" THEN "empty" ELSE @]

(* verify(): members, manifest, sizes and hashes, then the database.       *)
Verified == archive.defect = "none"

(* The safety backup needs a database file.                                *)
SafetyBackup == Holds(live, "db")

(* What is on a rollback path when an attempt ends stays there: nobody     *)
(* looks for it but the sweep of a root by a later attempt.                *)
Ended(how, torn) ==
    /\ pc' = "stopped" /\ outcome' = how /\ stage' = 1
    /\ live' = Littered(live, Strewn(aside) \cup torn)
    /\ left' = left \cup {i \in Items : aside[i] = "old"}
    /\ aside' = Nothing /\ staged' = Nothing
    /\ moved' = <<>> /\ installed' = <<>>

(* The stages are removed whatever happened, and an error is ignored.      *)
End(how, failures) ==
    \E torn \in SUBSET Strewn(staged) :
        /\ faults' = faults + failures + IF torn = {} THEN 0 ELSE 1
        /\ faults' <= MaxFaults
        /\ Ended(how, torn)

(* The exception handler.                                                  *)
Raise == pc' = "uninstall"

----------------------------------------------------------------------------
(* restore()                                                               *)

(* rdkwt-maintenance restore, on a stopped controller.                     *)
Begin ==
    /\ At("stopped") /\ outcome # "done"
    /\ Verified /\ SafetyBackup
    /\ live' = Ensured(live) /\ base' = live'
    /\ pc' = "extract" /\ outcome' = "none"
    /\ UNCHANGED <<fixed, aside, staged, moved, installed, stage, left, swapped, faults, crashes>>

(* An archive that verify refuses, or no database to back up first.        *)
Refuse ==
    /\ At("stopped") /\ outcome \notin {"done", "refused"}
    /\ ~(Verified /\ SafetyBackup)
    /\ live' = Ensured(live) /\ base' = live'
    /\ outcome' = "refused"
    /\ UNCHANGED <<fixed, aside, staged, moved, installed, pc, stage, left, swapped, faults, crashes>>

(* The members of the archive, unpacked in a directory of each volume. The *)
(* secret store is staged when it is in the scope, even when it is empty.  *)
Extract ==
    /\ At("extract")
    /\ staged' = Packed
    /\ pc' = "move"
    /\ UNCHANGED <<fixed, live, base, aside, moved, installed, stage, outcome, left, faults,
                   crashes, swapped>>

(* Slip: entries with a leading dot are passed over.                       *)
ToMoveVisible == {i \in In \ Rests : Holds(live, i)}

ToMove == {i \in In : Holds(live, i)}

(* Slip: what is replaced is removed at once.                              *)
MoveReplaced(i) ==
    /\ At("move") /\ i \in ToMove
    /\ aside' = [aside EXCEPT ![i] = IF Holds(staged, i) THEN "none" ELSE live[i]]
    /\ live' = [live EXCEPT ![i] = "none"]
    /\ moved' = Append(moved, i)
    /\ UNCHANGED <<fixed, base, staged, installed, pc, stage, outcome, left, swapped, faults, crashes>>

Move(i) ==
    /\ At("move") /\ i \in ToMove
    /\ aside' = [aside EXCEPT ![i] = live[i]]
    /\ live' = [live EXCEPT ![i] = "none"]
    /\ moved' = Append(moved, i)
    /\ UNCHANGED <<fixed, base, staged, installed, pc, stage, outcome, left, swapped, faults, crashes>>

AllMoved ==
    /\ At("move") /\ ToMove = {}
    /\ pc' = "install"
    /\ UNCHANGED <<fixed, data, base, moved, installed, stage, outcome, swapped, faults, crashes>>

ToInstall == {i \in In : Holds(staged, i)}

Install(i) ==
    /\ At("install") /\ i \in ToInstall
    /\ live' = [live EXCEPT ![i] = staged[i]]
    /\ staged' = [staged EXCEPT ![i] = "none"]
    /\ installed' = Append(installed, i)
    /\ UNCHANGED <<fixed, base, aside, moved, pc, stage, outcome, left, swapped, faults, crashes>>

Later == {n \in stage+1..Len(Stages) : InScope(Stages[n])}

AllInstalled ==
    /\ At("install") /\ ToInstall = {}
    /\ swapped' = (swapped \/ Later = {})
    /\ IF Later = {}
       THEN pc' = "discard" /\ UNCHANGED stage
       ELSE pc' = "move" /\ stage' = CHOOSE n \in Later : \A m \in Later : n <= m
    /\ UNCHANGED <<fixed, data, base, moved, installed, outcome, faults, crashes>>

(* The rollback paths are removed one by one, and an error is ignored.     *)
Discard(removed) ==
    /\ At("discard") /\ moved # <<>>
    /\ removed \/ faults < MaxFaults
    /\ faults' = IF removed THEN faults ELSE faults + 1
    /\ aside' = IF removed THEN [aside EXCEPT ![Head(moved)] = "none"] ELSE aside
    /\ moved' = Tail(moved)
    /\ UNCHANGED <<fixed, live, base, staged, installed, pc, stage, outcome, left, swapped, crashes>>

(* The rollback directories of the two roots are removed once more; where  *)
(* that fails too, the root keeps a rest.                                  *)
Succeed ==
    /\ At("discard") /\ moved = <<>>
    /\ \E gone \in SUBSET Rests :
         aside' = [i \in Items |-> IF \E r \in gone : i \in Root[r] THEN "none" ELSE aside[i]]
    /\ live' = Littered(live, Strewn(aside'))
    /\ pc' = "stopped" /\ outcome' = "done" /\ stage' = 1
    /\ installed' = <<>>
    /\ UNCHANGED <<fixed, base, staged, moved, left, swapped, faults, crashes>>

Forward == \/ Begin \/ Refuse \/ Extract \/ AllMoved \/ AllInstalled \/ Succeed
           \/ \E i \in Items : Move(i) \/ Install(i)
           \/ \E removed \in BOOLEAN : Discard(removed)

----------------------------------------------------------------------------
(* The undo                                                                *)

(* Slip: what was installed stays where it is.                             *)
FailKeeps ==
    /\ pc \in {"extract", "move", "install"} /\ faults < MaxFaults
    /\ faults' = faults + 1
    /\ pc' = "putback"
    /\ UNCHANGED <<fixed, data, base, moved, installed, stage, outcome, swapped, crashes>>

(* A member cannot be unpacked, a path cannot be renamed.                  *)
Fail ==
    /\ pc \in {"extract", "move", "install"} /\ faults < MaxFaults
    /\ faults' = faults + 1
    /\ Raise
    /\ UNCHANGED <<fixed, data, base, moved, installed, stage, outcome, swapped, crashes>>

Uninstall ==
    /\ At("uninstall") /\ installed # <<>>
    /\ live' = [live EXCEPT ![Last(installed)] = "none"]
    /\ installed' = Front(installed)
    /\ UNCHANGED <<fixed, base, aside, staged, moved, pc, stage, outcome, left, swapped, faults, crashes>>

(* A directory that cannot be removed is passed over.                      *)
UninstallPasses ==
    /\ At("uninstall") /\ installed # <<>> /\ Last(installed) # "db" /\ faults < MaxFaults
    /\ faults' = faults + 1
    /\ installed' = Front(installed)
    /\ UNCHANGED <<fixed, data, base, moved, pc, stage, outcome, swapped, crashes>>

AllRemoved ==
    /\ At("uninstall") /\ installed = <<>>
    /\ pc' = "putback"
    /\ UNCHANGED <<fixed, data, base, moved, installed, stage, outcome, swapped, faults, crashes>>

(* A rollback path whose place is taken stays.                             *)
PutBack ==
    /\ At("putback") /\ moved # <<>>
    /\ LET i == Last(moved)
           free == Holds(aside, i) /\ ~Holds(live, i)
       IN  /\ live' = IF free THEN [live EXCEPT ![i] = aside[i]] ELSE live
           /\ aside' = IF free THEN [aside EXCEPT ![i] = "none"] ELSE aside
    /\ moved' = Front(moved)
    /\ UNCHANGED <<fixed, base, staged, installed, pc, stage, outcome, left, swapped, faults, crashes>>

Undone ==
    /\ At("putback") /\ moved = <<>>
    /\ End("failed", 0)
    /\ UNCHANGED <<fixed, base, swapped, crashes>>

(* A file that cannot be removed, or a path that cannot be put back, ends  *)
(* the handler: nothing after it is undone.                                *)
UndoFails ==
    /\ \/ At("uninstall") /\ installed # <<>> /\ Last(installed) # "secrets"
       \/ At("putback") /\ moved # <<>>
    /\ End("aborted", 1)
    /\ UNCHANGED <<fixed, base, swapped, crashes>>

Undo == Fail \/ Uninstall \/ UninstallPasses \/ AllRemoved \/ PutBack \/ Undone \/ UndoFails

----------------------------------------------------------------------------
(* The end of the process, and the controller between two attempts         *)

(* Killed, or interrupted from the keyboard: KeyboardInterrupt is no       *)
(* Exception, so nothing is undone but the stages are removed. A stage may *)
(* be there in part when the process ends while it is filled or removed.   *)
Crash ==
    /\ ~At("stopped") /\ crashes < MaxCrashes
    /\ crashes' = crashes + 1
    /\ \E torn \in SUBSET Strewn(IF At("extract") THEN Packed ELSE staged) :
         Ended("crashed", torn)
    /\ UNCHANGED <<fixed, base, swapped, faults>>

(* The user starts the controller after an attempt and stops it again. It  *)
(* creates what is missing; the WAL it leaves, if any, belongs to the      *)
(* database it opened.                                                     *)
ControllerRuns ==
    /\ At("stopped") /\ outcome # "done"
    /\ LET opened == IF Holds(live, "db") THEN live["db"] ELSE "empty"
       IN  \E wal \in {"none", opened} :
             live' = [Ensured(live) EXCEPT !["db"] = opened, !["wal"] = wal, !["shm"] = wal]
    /\ outcome' = "ran" /\ base' = live'
    /\ UNCHANGED <<fixed, aside, staged, moved, installed, pc, stage, left, swapped, faults, crashes>>

Next == Forward \/ Undo \/ Crash \/ ControllerRuns

Spec == Init /\ [][Next]_restoreVars

----------------------------------------------------------------------------
(* Properties                                                              *)

(* A WAL is only ever beside the database it was written for, at every     *)
(* moment of a restore, of its undo and after a crash: SQLite would replay *)
(* a stale one into the other database.                                    *)
WalFitsDatabase == \A i \in Sidecars : Holds(live, i) => live[i] = live["db"]

(* A restore that failed once and could undo its steps changed nothing,    *)
(* whatever the step that failed.                                          *)
FailedIsUndone == outcome \in {"failed", "refused"} /\ faults < 2 => live = base

(* A restore that succeeded, after any earlier attempts, left exactly the  *)
(* archive in its scope and what was there outside it. What the earlier    *)
(* attempts left in the roots of the scope is gone too; a root has a rest  *)
(* only where a removal of this attempt failed and was ignored.            *)
DoneIsArchive ==
    outcome = "done" => \A i \in Items :
        \/ live[i] = IF i \notin Scope THEN base[i]
                     ELSE IF i \in archive.entries THEN "new" ELSE "none"
        \/ i \in Scope \cap Rests /\ \E j \in Root[i] : Holds(aside, j)

(* What an ended attempt left in a root is there as long as its rest is:   *)
(* in its place or moved aside by another attempt.                         *)
IsLeft(i) ==
    /\ i \in left
    /\ \A r \in Rests : i \in Root[r] => Holds(live, r) \/ Holds(aside, r)

(* Until an attempt has installed everything, what was there before the    *)
(* first one is in its place or on a rollback path, be it one of an        *)
(* attempt that ended and that another moves about: no step destroys it,   *)
(* whatever fails or is killed.                                            *)
OldIsKept ==
    ~swapped => \A i \in Items \ Sidecars :
        Holds(origin, i) => "old" \in {live[i], aside[i]} \/ IsLeft(i)

=============================================================================
