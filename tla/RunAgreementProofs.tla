------------------------- MODULE RunAgreementProofs -------------------------
(***************************************************************************)
(* What the rows of the database say of RunLifecycle's attempts is what    *)
(* the worker and the queue do with them, for every set of runs, every     *)
(* bound and every kind of fault.                                          *)
(***************************************************************************)
EXTENDS RunSupervisionProofs

USE LifecycleAssumption, StagesAreWorkingStatuses
USE DEF At, ApiAt, db, docker, memory, Moves, SameTask, SameSets, SameResult,
        SameHeld, SameSeen, InMemory, ApiMoves, SameRequest

----------------------------------------------------------------------------
(* Who has an attempt, and what its row then says                          *)

SeenPcs == {"claim", "running", "stage", "finish"}
Ended   == {"record_load", "record", "done"}
AtWork  == ExecutePcs \ (BeforeClaim \cup Ended)
NewPcs  == {"pending_load", "pending", "enqueue"}

(* Where the steps of a work item lead.                                    *)
LEMMA Places ==
    ASSUME TypeOK, Execute, ~ Get, ~ Done
    PROVE  \/ wk.pc \in AtWork \ {"finish"} /\ wk'.pc \in AtWork
           \/ Moves("claim_load", "claim") \/ Moves("claim_load", "done")
           \/ Moves("claim", "create")
           \/ At("finish") /\ wk'.pc \in Ended \cup {"restore"}
           \/ wk.pc \in Ended /\ wk'.pc \in Ended \cup {"restore"}
<1> USE DEF AtWork, Ended, ExecutePcs, EndingPcs, BeforeClaim
<1>1. CASE Recover
  BY <1>1, RecoverStep
<1>2. CASE RecoverFails
  BY <1>2, RecoverFailsStep
<1>3. CASE ClaimLoad
  BY <1>3, ClaimLoadStep
<1>4. CASE Claim
  BY <1>4, ClaimStep
<1>5. CASE Create
  BY <1>5, CreateStep
<1>6. CASE CreateFails
  BY <1>6, CreateFailsStep
<1>7. CASE RunningLoad
  BY <1>7, RunningLoadStep
<1>8. CASE SetRunning
  BY <1>8, SetRunningStep
<1>9. CASE Discard
  BY <1>9, DiscardStep
<1>10. CASE Start
  BY <1>10, StartStep
<1>11. CASE StageEvent
  BY <1>11, StageEventStep
<1>12. CASE SetStage
  BY <1>12, SetStageStep
<1>13. CASE LogEnds
  BY <1>13, LogEndsStep
<1>14. CASE Collect
  BY <1>14, CollectStep
<1>15. CASE Check
  BY <1>15, CheckStep
<1>16. CASE Remove
  BY <1>16, RemoveStep
<1>17. CASE DockerStepFails
  BY <1>17, DockerStepFailsStep
<1>18. CASE HandleFailure
  BY <1>18, HandleFailureStep
<1>19. CASE CleanupStop
  BY <1>19, CleanupStopStep
<1>20. CASE CleanupRemove
  BY <1>20, CleanupRemoveStep
<1>21. CASE CleanupResult
  BY <1>21, CleanupResultStep
<1>22. CASE FinishLoad
  BY <1>22, FinishLoadStep
<1>23. CASE Finish
  BY <1>23, FinishStep
<1>24. CASE RecordLoad
  BY <1>24, RecordLoadStep
<1>25. CASE Record
  BY <1>25, RecordStep
<1> QED
  BY <1>1, <1>2, <1>3, <1>4, <1>5, <1>6, <1>7, <1>8, <1>9, <1>10, <1>11, <1>12,
     <1>13, <1>14, <1>15, <1>16, <1>17, <1>18, <1>19, <1>20, <1>21, <1>22, <1>23,
     <1>24, <1>25 DEF Execute

(* While reconciliation goes on, what it gives up, what it still has to    *)
(* look at and what it has already queued again are different attempts.    *)
Apart ==
    /\ wk.pc \in {"reconcile", "list"} => \A k \in Keys : ~ QueuedAgain(k)
    /\ Restoring => \A k \in Keys : QueuedAgain(k) => k \in wk.recover \ wk.todo
    /\ wk.pc \in EndingPcs /\ ~ wk.serving => wk.key \notin wk.recover \cup wk.todo

(* Nothing is queued at first.                                             *)
LEMMA ApartInit == Init => Apart
<1>1. Init => Len(queue) = 0
  BY EmptySeq DEF Init
<1> QED
  BY <1>1 DEF Init, Apart, WorkerAt, EndingPcs, QueuedAgain, Restoring

(* Every step keeps them apart.                                            *)
LEMMA ApartStep ==
    ASSUME TypeOK, QueueInv, Apart, [Next]_vars
    PROVE  Apart'
<1> USE DEF ExecutePcs, EndingPcs
<1>1. Phases /\ Distinct /\ wk.todo \subseteq Keys
  BY DEF QueueInv, TypeOK, WorkerType
<1>2. ASSUME UNCHANGED wk, \A k \in Keys : QueuedAgain(k)' <=> QueuedAgain(k)
      PROVE  Apart'
  BY <1>2 DEF Apart, Restoring
<1>3. ASSUME wk'.pc \notin {"reconcile", "list"}, ~ Restoring'
      PROVE  Apart'
  BY <1>3 DEF Apart, Restoring
<1>4. CASE Execute
  <2>1. CASE Get
    BY <1>1, <1>3, <2>1, GetStep DEF Restoring
  <2>2. CASE Done
    BY <1>1, <1>3, <2>2, DoneStep DEF Restoring
  <2>3. CASE ~ Get /\ ~ Done
    <3>1. WorksOn
      BY <1>1, <1>4, <2>3, ExecuteWorks
    <3>2. CASE wk.serving
      BY <1>3, <3>1, <3>2 DEF WorksOn, Restoring
    <3>3. CASE ~ wk.serving
      <4>1. Restoring /\ wk.pc \in EndingPcs
        BY <1>1, <3>1, <3>3 DEF WorksOn, Restoring, Phases
      <4>2. \A k \in Keys : QueuedAgain(k)' <=> QueuedAgain(k)
        BY <3>1, QueuedKept DEF WorksOn
      <4> QED
        BY <3>1, <3>3, <4>1, <4>2 DEF WorksOn, Apart, Restoring
    <3> QED
      BY <3>2, <3>3
  <2> QED
    BY <2>1, <2>2, <2>3
<1>5. CASE Reconcile
  <2>1. CASE ReadActive \/ ListContainers \/ ListFails
    <3>1. wk.pc \in {"reconcile", "list"} /\ queue' = queue /\ wk'.pc \in {"list", "restore"}
      BY <1>1, <2>1, ReadActiveStep, ListContainersStep, ListFailsStep
    <3>2. \A k \in Keys : ~ QueuedAgain(k)'
      BY <3>1, QueuedKept DEF Apart
    <3> QED
      BY <3>1, <3>2 DEF Apart
  <2>2. CASE IdentityFails \/ Restored \/ OrphanRemove \/ OrphanFails \/ ReadQueued
             \/ Requeue \/ Reconciled
    BY <1>3, <2>2, IdentityFailsStep, RestoredStep, OrphanRemoveStep, OrphanFailsStep,
       ReadQueuedStep, RequeueStep, ReconciledStep DEF Restoring
  <2>3. CASE RestoreRecovered
    <3>1. PICK j \in wk.todo \cap wk.recover : Enqueue(j, TRUE) /\ wk'.todo = wk.todo \ {j}
      BY <1>1, <2>3, RestoreRecoveredStep
    <3>2. j \in Keys /\ (j \notin pending => ~ Waits(j))
      BY <1>1, <3>1 DEF QueueInv
    <3>3. \A k \in Keys : QueuedAgain(k)' => QueuedAgain(k) \/ k = j
      BY <1>1, <3>1, <3>2, EnqueueStep
    <3>4. wk.pc = "restore" /\ wk'.pc = "restore" /\ wk'.recover = wk.recover
      BY <1>1, <2>3, RestoreRecoveredStep
    <3> QED
      BY <3>1, <3>3, <3>4 DEF Apart, Restoring
  <2>4. CASE RestoreLost
    <3>1. PICK j \in wk.todo \ wk.recover : wk'.key = j /\ wk'.todo = wk.todo \ {j}
      BY <1>1, <2>4, RestoreLostStep
    <3>2. /\ wk.pc = "restore" /\ wk'.pc = "finish_load" /\ wk'.recover = wk.recover
          /\ queue' = queue
      BY <1>1, <2>4, RestoreLostStep
    <3>3. \A k \in Keys : QueuedAgain(k)' <=> QueuedAgain(k)
      BY <3>2, QueuedKept
    <3> QED
      BY <3>1, <3>2, <3>3 DEF Apart, Restoring
  <2>5. CASE OrphanStop
    BY <1>2, <2>5, OrphanStopStep, QueuedKept
  <2> QED
    BY <1>5, <2>1, <2>2, <2>3, <2>4, <2>5 DEF Reconcile
<1>6. CASE ApiEnqueue
  <2>1. /\ api.key \in Keys /\ (api.key \notin pending => ~ Waits(api.key))
        /\ Enqueue(api.key, FALSE) /\ UNCHANGED wk
    BY <1>1, <1>6, ApiEnqueueStep DEF TypeOK, QueueInv
  <2>2. \A k \in Keys : QueuedAgain(k)' <=> QueuedAgain(k)
    BY <1>1, <2>1, EnqueueStep
  <2> QED
    BY <1>2, <2>1, <2>2
<1>7. CASE Restart
  <2>1. Len(queue') = 0
    BY <1>7, RestartStep, EmptySeq
  <2> QED
    BY <1>7, <2>1, RestartStep DEF Apart, QueuedAgain, Restoring
<1>8. CASE (Request \/ Handle \/ (\E l \in Keys : ContainerExit(l)) \/ UNCHANGED vars)
           /\ ~ ApiEnqueue
  <2>1. UNCHANGED wk /\ UNCHANGED memory
    BY <1>8, RequestKeeps
  <2> QED
    BY <1>2, <2>1, QueuedKept
<1> QED
  BY <1>4, <1>5, <1>6, <1>7, <1>8 DEF Next

----------------------------------------------------------------------------
(* Rows                                                                    *)

(* The attempts that were claimed and have not ended.                      *)
MustWork(k) == \/ wk.pc \in AtWork /\ wk.key = k
               \/ QueuedAgain(k) \/ k \in ToRestore

(* The attempts that wait to be claimed, or have ended.                    *)
MayNotWork(k) == \/ wk.pc \in {"claim_load"} \cup Ended /\ wk.key = k
                 \/ QueuedNew(k)
                 \/ At("requeue") /\ k \in wk.todo
                 \/ api.pc \in NewPcs /\ api.key = k /\ k \notin pending

(* A snapshot of an attempt that nobody cancelled is not stale when the    *)
(* worker commits over it.                                                 *)
SeenRow == wk.pc \in SeenPcs /\ wk.key \notin cancels => wk.seen.row = rows[wk.key]

RowInv ==
    /\ SeenRow
    /\ \A k \in Keys : k \notin cancels =>
           /\ MustWork(k) => rows[k] \in ActiveStatuses
           /\ MayNotWork(k) => rows[k] \notin ActiveStatuses

(* A commit over a fresh snapshot stores the status it was given.          *)
LEMMA CommitFresh ==
    ASSUME TypeOK, NEW k \in Keys, NEW seen, NEW status, CommitStatus(k, seen, status)
    PROVE  /\ seen.row = rows[k] => rows'[k] = status
           /\ seen.run = runs[k[1]] => runs'[k[1]] = status
           /\ \A l \in Keys : l # k => rows'[l] = rows[l]
           /\ \A r \in Runs : r # k[1] => runs'[r] = runs[r]
BY KeyParts DEF CommitStatus, Flush, TypeOK

(* The steps of the worker that commit to an attempt.                      *)
Claims(k)   == wk.key = k /\ Moves("claim", "create")
Proceeds(k) == \/ wk.key = k /\ Moves("running", "start")
               \/ wk.key = k /\ Moves("stage", "stream")
Finishes(k) == wk.key = k /\ At("finish") /\ wk'.pc \in Ended \cup {"restore"}

(* What the worker commits.                                                *)
LEMMA WorkerCommits ==
    ASSUME TypeOK, Execute
    PROVE  \/ UNCHANGED <<runs, rows>> /\ ~ Claims(wk.key) /\ ~ Finishes(wk.key)
           \/ /\ wk.key \in Keys
              /\ \E status \in Columns :
                     /\ CommitStatus(wk.key, wk.seen, status)
                     /\ \/ Claims(wk.key) /\ status \in ActiveStatuses
                        \/ Proceeds(wk.key) /\ status \in ActiveStatuses
                        \/ Finishes(wk.key) /\ status \in TerminalStatuses
<1> USE DEF ExecutePcs, EndingPcs, Ended, Claims, Proceeds, Finishes
<1>1. wk.pc # "idle" => wk.key \in Keys
  BY ExecuteKey
<1>2. {"PROVISIONING", "RUNNING"} \cup Stages \subseteq ActiveStatuses \cap Columns
  BY DEF ActiveStatuses, Columns, Statuses
<1>3. CASE Claim
  BY <1>1, <1>2, <1>3, ClaimStep
<1>4. CASE SetRunning
  BY <1>1, <1>2, <1>4, SetRunningStep
<1>5. CASE SetStage
  <2>1. wk.stage \in ActiveStatuses \cap Columns
    BY <1>2 DEF TypeOK, WorkerType
  <2> QED
    BY <1>1, <1>5, <2>1, SetStageStep
<1>6. CASE Finish
  <2>1. wk.outcome \in TerminalStatuses /\ wk.outcome \in Columns
    BY DEF TypeOK, WorkerType, Columns, Statuses
  <2> QED
    BY <1>1, <1>6, <2>1, FinishStep
<1>7. CASE ~ (Claim \/ SetRunning \/ SetStage \/ Finish)
  <2>1. UNCHANGED <<runs, rows>>
    BY <1>7 DEF Execute, Get, Recover, RecoverFails, ClaimLoad, Create, CreateFails,
       RunningLoad, Discard, Start, StageEvent, LogEnds, Collect, Check, Remove,
       DockerStepFails, HandleFailure, CleanupStop, CleanupRemove, CleanupResult,
       FinishLoad, RecordLoad, Record, Done
  <2>2. wk.pc \notin {"claim", "finish"}
    BY <1>7 DEF Execute, Get, Recover, RecoverFails, ClaimLoad, Create, CreateFails,
       RunningLoad, Discard, Start, StageEvent, LogEnds, Collect, Check, Remove,
       DockerStepFails, HandleFailure, CleanupStop, CleanupRemove, CleanupResult,
       FinishLoad, RecordLoad, Record, Done
  <2> QED
    BY <2>1, <2>2
<1> QED
  BY <1>3, <1>4, <1>5, <1>6, <1>7

(* Who changes the row of an attempt that is not cancelled, and how.       *)
RowStays(k) == rows'[k] = rows[k] /\ ~ Claims(k) /\ ~ Finishes(k)
RowIsNew(k) == /\ rows[k] = Absent /\ rows'[k] = "QUEUED"
               /\ api'.pc \in NewPcs /\ api'.key = k
RowWorks(k) == (Claims(k) \/ Proceeds(k)) /\ rows'[k] \in ActiveStatuses
RowEnds(k)  == Finishes(k) /\ rows'[k] \in TerminalStatuses

(* Only the worker at a work item commits for it.                          *)
LEMMA NoCommits ==
    ASSUME TypeOK, Reconcile \/ Restart \/ UNCHANGED wk, NEW k
    PROVE  ~ Claims(k) /\ ~ Proceeds(k) /\ ~ Finishes(k)
<1>1. CASE Reconcile
  BY <1>1, ReadActiveStep, ListContainersStep, ListFailsStep, IdentityFailsStep,
     RestoreRecoveredStep, RestoreLostStep, RestoredStep, OrphanStopStep, OrphanRemoveStep,
     OrphanFailsStep, ReadQueuedStep, RequeueStep, ReconciledStep
     DEF Reconcile, Claims, Proceeds, Finishes
<1>2. CASE Restart \/ UNCHANGED wk
  BY <1>2, RestartStep DEF Claims, Proceeds, Finishes, Ended
<1> QED
  BY <1>1, <1>2

(* A request to cancel is never forgotten.                                 *)
LEMMA CancelsGrow == ASSUME [Next]_vars PROVE cancels \subseteq cancels'
BY DEF Next, Reconcile, ReadActive, ListContainers, ListFails, IdentityFails,
       RestoreRecovered, RestoreLost, Restored, OrphanStop, OrphanRemove, OrphanFails,
       ReadQueued, Requeue, Reconciled, Execute, Get, Recover, RecoverFails, ClaimLoad,
       Claim, Create, CreateFails, RunningLoad, SetRunning, Discard, Start, StageEvent,
       SetStage, LogEnds, Collect, Check, Remove, DockerStepFails, HandleFailure,
       CleanupStop, CleanupRemove, CleanupResult, FinishLoad, Finish, RecordLoad, Record,
       Done, Request, Submit, CancelLoad, RetryLoad, Handle, PendingLoad, MarkPending,
       ApiEnqueue, CancelCommit, CancelStop, CancelRecordLoad, CancelRecord, Retry,
       ContainerExit, Restart, vars

(* The rows of attempts nobody cancelled change in three ways only.        *)
LEMMA RowStep ==
    ASSUME TypeOK, NumbersInv, SeenRow, [Next]_vars, NEW k \in Keys, k \notin cancels'
    PROVE  RowStays(k) \/ RowIsNew(k) \/ RowWorks(k) \/ RowEnds(k)
<1> USE DEF RowStays, RowIsNew, RowWorks, RowEnds
<1>1. CASE Execute
  <2>1. CASE UNCHANGED <<runs, rows>> /\ ~ Claims(wk.key) /\ ~ Finishes(wk.key)
    BY <2>1 DEF Claims, Finishes
  <2>2. ASSUME wk.key \in Keys, NEW status \in Columns,
               CommitStatus(wk.key, wk.seen, status),
               \/ Claims(wk.key) /\ status \in ActiveStatuses
               \/ Proceeds(wk.key) /\ status \in ActiveStatuses
               \/ Finishes(wk.key) /\ status \in TerminalStatuses
        PROVE  RowStays(k) \/ RowIsNew(k) \/ RowWorks(k) \/ RowEnds(k)
    <3>1. CASE k # wk.key
      BY <2>2, <3>1, CommitFresh DEF Claims, Finishes
    <3>2. CASE k = wk.key
      <4>1. wk.pc \in SeenPcs /\ wk.key \notin cancels
        BY <1>1, <2>2, <3>2, CancelsGrow DEF SeenPcs, Claims, Proceeds, Finishes
      <4>2. rows'[k] = status
        BY <2>2, <3>2, <4>1, CommitFresh DEF SeenRow
      <4> QED
        BY <2>2, <3>2, <4>2
    <3> QED
      BY <3>1, <3>2
  <2> QED
    BY <1>1, <2>1, <2>2, WorkerCommits
<1>2. CASE Reconcile \/ Restart \/ UNCHANGED vars \/ (\E l \in Keys : ContainerExit(l))
  <2>1. rows' = rows
    BY <1>2 DEF Reconcile, ReadActive, ListContainers, ListFails,
       IdentityFails, RestoreRecovered, RestoreLost, Restored, OrphanStop, OrphanRemove,
       OrphanFails, ReadQueued, Requeue, Reconciled, Restart, vars, ContainerExit
  <2> QED
    BY <1>2, <2>1, NoCommits DEF vars, ContainerExit
<1>3. ASSUME NEW r \in Runs, Submit(r)
      PROVE  RowStays(k) \/ RowIsNew(k)
  <2>1. /\ rows[<<r, 1>>] = Absent /\ <<r, 1>> \in Keys
        /\ rows' = [rows EXCEPT ![<<r, 1>>] = "QUEUED"]
    BY <1>3, RowsSubmit
  <2>2. api'.pc \in NewPcs /\ api'.key = <<r, 1>> /\ UNCHANGED wk
    BY <1>3, SubmitStep DEF NewPcs
  <2>3. CASE k = <<r, 1>>
    BY <2>1, <2>2, <2>3 DEF TypeOK
  <2>4. CASE k # <<r, 1>>
    BY <2>1, <2>2, <2>4, NoCommits DEF TypeOK
  <2> QED
    BY <2>3, <2>4
<1>4. CASE Retry
  BY <1>4, NoCommits, RowsRetry, RetryStep DEF TypeOK, NewPcs
<1>5. CASE CancelCommit
  <2>1. api.key \in Keys /\ k # api.key
    BY <1>5, CancelCommitStep DEF TypeOK
  <2> QED
    BY <1>5, <2>1, NoCommits, CancelCommitStep, CommitFresh
<1>6. CASE Handle /\ ~ CancelCommit /\ ~ Retry
  <2>1. rows' = rows /\ wk' = wk
    BY <1>6 DEF Handle, PendingLoad, MarkPending, ApiEnqueue, CancelStop,
       CancelRecordLoad, CancelRecord
  <2> QED
    BY <2>1, NoCommits
<1>7. ASSUME NEW r \in Runs, CancelLoad(r) \/ RetryLoad(r)
      PROVE  RowStays(k)
  BY <1>7, NoCommits DEF CancelLoad, RetryLoad
<1> QED
  BY <1>1, <1>2, <1>3, <1>4, <1>5, <1>6, <1>7 DEF Next, Request

(* The kinds of statuses are apart.                                        *)
LEMMA StatusKinds ==
    /\ Absent \notin ActiveStatuses /\ "QUEUED" \notin ActiveStatuses
    /\ TerminalStatuses \cap ActiveStatuses = {}
    /\ Absent \notin TerminalStatuses /\ "QUEUED" \notin TerminalStatuses
    /\ RetryableStatuses \subseteq TerminalStatuses
BY DEF ActiveStatuses, TerminalStatuses, RetryableStatuses, Absent, StagesAssumption

(* What must work is shown at work after the step, unless it ends.         *)
LEMMA WorkKept ==
    ASSUME TypeOK, NumbersInv, KnownInv, RowInv, [Next]_vars, NEW k \in Keys, k \notin cancels',
           MustWork(k) \/ Claims(k), ~ Finishes(k)
    PROVE  rows'[k] \in ActiveStatuses
<1>1. RowStays(k) \/ RowIsNew(k) \/ RowWorks(k) \/ RowEnds(k)
  BY RowStep DEF RowInv
<1>2. k \notin cancels
  BY CancelsGrow
<1>3. Claims(k) => rows[k] # Absent
  BY DEF KnownInv, Claims, ExecutePcs
<1> QED
  BY <1>1, <1>2, <1>3, StatusKinds DEF RowInv, RowStays, RowIsNew, RowWorks, RowEnds

(* What may not work is not shown at work after the step.                  *)
LEMMA WaitKept ==
    ASSUME TypeOK, QueueInv, NumbersInv, KnownInv, RowInv, [Next]_vars,
           NEW k \in Keys, k \notin cancels', MayNotWork(k) \/ Finishes(k)
    PROVE  rows'[k] \notin ActiveStatuses
<1> USE DEF ExecutePcs, EndingPcs
<1>1. RowStays(k) \/ RowIsNew(k) \/ RowWorks(k) \/ RowEnds(k)
  BY RowStep DEF RowInv
<1>2. k \notin cancels
  BY CancelsGrow
<1>3. ~ Claims(k)
  <2>1. At("claim") /\ wk.key = k => Serves(k)
    BY DEF QueueInv, Phases, Serves
  <2>2. Serves(k) => ~ QueuedNew(k) /\ k \in pending
    BY DEF QueueInv, Waits
  <2> QED
    BY <2>1, <2>2 DEF Claims, MayNotWork, Finishes, Ended
<1>4. ~ Proceeds(k)
  <2>1. Proceeds(k) => MustWork(k) /\ ~ Finishes(k)
    BY DEF Proceeds, MustWork, Finishes, AtWork, BeforeClaim, Ended
  <2> QED
    BY <1>2, <2>1 DEF RowInv
<1> QED
  BY <1>1, <1>2, <1>3, <1>4, StatusKinds DEF RowInv, RowStays, RowIsNew, RowWorks, RowEnds

(* The worker's snapshot of the row is not overtaken.                      *)
LEMMA SeenRowStep ==
    ASSUME TypeOK, QueueInv, NumbersInv, KnownInv, RowInv, [Next]_vars
    PROVE  SeenRow'
<1> USE DEF ExecutePcs, EndingPcs, SeenPcs
<1>1. CASE Execute
  <2>1. CASE ClaimLoad \/ RunningLoad \/ StageEvent \/ FinishLoad
    BY <2>1, ClaimLoadStep, RunningLoadStep, StageEventStep, FinishLoadStep
       DEF SeenRow, PairOf
  <2>2. CASE ~ (ClaimLoad \/ RunningLoad \/ StageEvent \/ FinishLoad)
    <3>1. wk'.pc \notin SeenPcs
      BY <1>1, <2>2, GetStep, RecoverStep, RecoverFailsStep, ClaimStep, CreateStep,
         CreateFailsStep, SetRunningStep, DiscardStep, StartStep, SetStageStep, LogEndsStep,
         CollectStep, CheckStep, RemoveStep, DockerStepFailsStep, HandleFailureStep,
         CleanupStopStep, CleanupRemoveStep, CleanupResultStep, FinishStep, RecordLoadStep,
         RecordStep, DoneStep DEF Execute
    <3> QED
      BY <3>1 DEF SeenRow
  <2> QED
    BY <2>1, <2>2
<1>2. CASE Reconcile \/ Restart
  <2>1. wk'.pc \notin SeenPcs
    BY <1>2, ReadActiveStep, ListContainersStep, ListFailsStep, IdentityFailsStep,
       RestoreRecoveredStep, RestoreLostStep, RestoredStep, OrphanStopStep, OrphanRemoveStep,
       OrphanFailsStep, ReadQueuedStep, RequeueStep, ReconciledStep, RestartStep DEF Reconcile
  <2> QED
    BY <2>1 DEF SeenRow
<1>3. CASE UNCHANGED wk
  <2> SUFFICES ASSUME wk.pc \in SeenPcs, wk.key \notin cancels'
               PROVE  wk.seen.row = rows'[wk.key]
    BY <1>3 DEF SeenRow
  <2>1. wk.key \in Keys /\ rows[wk.key] # Absent
    BY DEF TypeOK, KnownInv
  <2>2. ~ Claims(wk.key) /\ ~ Proceeds(wk.key) /\ ~ Finishes(wk.key)
    BY <1>3, NoCommits
  <2>3. rows'[wk.key] = rows[wk.key]
    BY <2>1, <2>2, RowStep DEF RowInv, RowStays, RowIsNew, RowWorks, RowEnds
  <2>4. wk.key \notin cancels
    BY CancelsGrow
  <2> QED
    BY <2>3, <2>4 DEF RowInv, SeenRow
<1> QED
  BY <1>1, <1>2, <1>3, RequestKeeps DEF Next

(* RowInv is kept by a step after which nothing must work, or may not,     *)
(* that did not before, but for what the worker claims or ends.            *)
LEMMA RowKept ==
    ASSUME TypeOK, QueueInv, NumbersInv, KnownInv, RowInv, [Next]_vars,
           \A k \in Keys : k \notin cancels' /\ MustWork(k)' =>
               \/ (MustWork(k) \/ Claims(k)) /\ ~ Finishes(k)
               \/ rows'[k] \in ActiveStatuses,
           \A k \in Keys : k \notin cancels' /\ MayNotWork(k)' =>
               MayNotWork(k) \/ Finishes(k) \/ rows'[k] \notin ActiveStatuses
    PROVE  RowInv'
<1>1. ASSUME NEW k \in Keys, k \notin cancels', MustWork(k)'
      PROVE  rows'[k] \in ActiveStatuses
  BY <1>1, WorkKept
<1>2. ASSUME NEW k \in Keys, k \notin cancels', MayNotWork(k)'
      PROVE  rows'[k] \notin ActiveStatuses
  BY <1>2, WaitKept
<1>3. SeenRow'
  BY SeenRowStep
<1> QED
  BY <1>1, <1>2, <1>3 DEF RowInv

(* There is no attempt at first.                                           *)
LEMMA RowInvInit == Init => RowInv
<1>1. Init => Len(queue) = 0
  BY EmptySeq DEF Init
<1> QED
  BY <1>1, StatusKinds DEF Init, RowInv, SeenRow, SeenPcs, MustWork, MayNotWork, WorkerAt,
     ApiIdle, AtWork, Ended, NewPcs, ExecutePcs, EndingPcs, QueuedAgain, QueuedNew, ToRestore

(* The worker keeps the rows in step with what it does.                    *)
LEMMA RowExecute ==
    ASSUME TypeOK, QueueInv, NumbersInv, KnownInv, Apart, RowInv, Execute
    PROVE  RowInv'
<1> USE DEF ExecutePcs, EndingPcs, AtWork, Ended, BeforeClaim
<1>1. Phases /\ Distinct /\ [Next]_vars /\ UNCHANGED api
  BY ApiKept DEF QueueInv, Next
<1>2. CASE Get
  <2> DEFINE item == Head(queue)
  <2>1. /\ item.key \in Keys
        /\ item.recover => QueuedAgain(item.key)
        /\ ~ item.recover => QueuedNew(item.key)
        /\ \A k \in Keys : (QueuedAgain(k)' => QueuedAgain(k)) /\ (QueuedNew(k)' => QueuedNew(k))
    BY <1>1, <1>2, GetStep, DequeueStep DEF Items
  <2>2. /\ wk'.key = item.key
        /\ item.recover => wk'.pc = "recover"
        /\ ~ item.recover => wk'.pc = "claim_load"
        /\ wk.pc = "idle" /\ wk'.serving /\ pending' = pending
    BY <1>1, <1>2, GetStep DEF Phases
  <2> HIDE DEF item
  <2>3. ASSUME NEW k \in Keys
        PROVE  /\ MustWork(k)' => MustWork(k) /\ ~ Finishes(k)
               /\ MayNotWork(k)' => MayNotWork(k)
    BY <1>1, <2>1, <2>2 DEF MustWork, MayNotWork, ToRestore, Finishes
  <2> QED
    BY <1>1, <2>3, RowKept
<1>3. CASE Done
  <2>1. /\ pending' = pending \ {wk.key} /\ wk.pc = "done" /\ wk'.pc = "idle"
        /\ \A k \in Keys : (QueuedAgain(k)' <=> QueuedAgain(k)) /\ (QueuedNew(k)' <=> QueuedNew(k))
    BY <1>1, <1>3, DoneStep, QueuedKept
  <2>2. ASSUME NEW k \in Keys
        PROVE  /\ MustWork(k)' => MustWork(k) /\ ~ Finishes(k)
               /\ MayNotWork(k)' => MayNotWork(k)
    BY <1>1, <2>1 DEF MustWork, MayNotWork, ToRestore, Finishes
  <2> QED
    BY <1>1, <2>2, RowKept
<1>4. CASE ~ Get /\ ~ Done
  <2>1. WorksOn
    BY <1>1, <1>4, ExecuteWorks
  <2>2. \/ wk.pc \in AtWork \ {"finish"} /\ wk'.pc \in AtWork
        \/ Moves("claim_load", "claim") \/ Moves("claim_load", "done")
        \/ Moves("claim", "create")
        \/ At("finish") /\ wk'.pc \in Ended \cup {"restore"}
        \/ wk.pc \in Ended /\ wk'.pc \in Ended \cup {"restore"}
    BY <1>4, Places
  <2>3. ASSUME NEW k \in Keys
        PROVE  (QueuedAgain(k)' <=> QueuedAgain(k)) /\ (QueuedNew(k)' <=> QueuedNew(k))
    BY <2>1, QueuedKept DEF WorksOn
  <2>4. ASSUME NEW k \in Keys, QueuedAgain(k) \/ k \in ToRestore
        PROVE  ~ Finishes(k)
    <3>1. CASE wk.serving
      BY <2>4, <3>1 DEF Finishes, QueueInv, Waits, Serves, ToRestore
    <3>2. CASE ~ wk.serving
      BY <2>4, <3>2 DEF Finishes, Apart, Restoring, ToRestore
    <3> QED
      BY <3>1, <3>2
  <2>5. ASSUME NEW k \in Keys
        PROVE  MustWork(k)' => (MustWork(k) \/ Claims(k)) /\ ~ Finishes(k)
    <3>1. CASE wk'.pc \in AtWork /\ wk'.key = k
      BY <2>1, <2>2, <3>1 DEF WorksOn, MustWork, Claims, Finishes
    <3>2. CASE QueuedAgain(k)'
      BY <2>3, <2>4, <3>2 DEF MustWork
    <3>3. CASE k \in ToRestore'
      <4>1. k \in ToRestore
        BY <1>1, <2>1, <3>3 DEF WorksOn, ToRestore, Phases
      <4> QED
        BY <2>4, <4>1 DEF MustWork
    <3> QED
      BY <3>1, <3>2, <3>3 DEF MustWork
  <2>6. ASSUME NEW k \in Keys
        PROVE  MayNotWork(k)' => MayNotWork(k) \/ Finishes(k)
    <3>1. CASE wk'.pc \in {"claim_load"} \cup Ended /\ wk'.key = k
      BY <2>1, <2>2, <3>1 DEF WorksOn, MayNotWork, Finishes
    <3>2. CASE ~ (wk'.pc \in {"claim_load"} \cup Ended /\ wk'.key = k)
      BY <1>1, <2>1, <2>3, <3>2 DEF WorksOn, MayNotWork
    <3> QED
      BY <3>1, <3>2
  <2> QED
    BY <1>1, <2>5, <2>6, RowKept
<1> QED
  BY <1>2, <1>3, <1>4

(* Reconciliation keeps the rows in step with what it queues.              *)
LEMMA RowReconcile ==
    ASSUME TypeOK, QueueInv, NumbersInv, KnownInv, Apart, RowInv, Reconcile
    PROVE  RowInv'
<1> USE DEF ExecutePcs, EndingPcs, AtWork, Ended, BeforeClaim, ReconcilePcs
<1>1. Phases /\ Distinct /\ [Next]_vars /\ UNCHANGED api /\ wk.todo \subseteq Keys
  BY ApiKept DEF QueueInv, Next, TypeOK, WorkerType
<1>2. /\ \A k \in Keys : ~ Finishes(k)
      /\ rows' = rows /\ wk.pc \in ReconcilePcs
  <2>1. rows' = rows /\ wk.pc \in ReconcilePcs
    BY ReadActiveStep, ListContainersStep, ListFailsStep, IdentityFailsStep,
       RestoreRecoveredStep, RestoreLostStep, RestoredStep, OrphanStopStep, OrphanRemoveStep,
       OrphanFailsStep, ReadQueuedStep, RequeueStep, ReconciledStep DEF Reconcile
  <2> QED
    BY <2>1, NoCommits
<1>3. ASSUME UNCHANGED memory, NEW k \in Keys
      PROVE  (QueuedAgain(k)' <=> QueuedAgain(k)) /\ (QueuedNew(k)' <=> QueuedNew(k))
  BY <1>3, QueuedKept
<1>4. ASSUME UNCHANGED memory, wk'.pc \notin ExecutePcs \cup {"list", "restore", "requeue"}
      PROVE  RowInv'
  <2>1. ASSUME NEW k \in Keys
        PROVE  /\ MustWork(k)' => MustWork(k)
               /\ MayNotWork(k)' => MayNotWork(k)
    BY <1>1, <1>3, <1>4 DEF MustWork, MayNotWork, ToRestore
  <2> QED
    BY <1>1, <1>2, <2>1, RowKept
<1>5. CASE ReadActive
  <2>1. /\ wk'.pc = "list" /\ wk'.todo = {k \in Keys : IsActive(PairOf(k))}
        /\ UNCHANGED memory
    BY <1>5, ReadActiveStep
  <2>2. ASSUME NEW k \in Keys
        PROVE  /\ MustWork(k)' => MustWork(k) \/ rows'[k] \in ActiveStatuses
               /\ MayNotWork(k)' => MayNotWork(k)
    BY <1>1, <1>2, <1>3, <2>1 DEF MustWork, MayNotWork, ToRestore, IsActive, PairOf
  <2> QED
    BY <1>1, <1>2, <2>2, RowKept
<1>6. CASE ListContainers \/ ListFails
  <2>1. /\ wk.pc = "list" /\ wk'.pc = "restore" /\ wk'.todo = wk.todo /\ UNCHANGED memory
    BY <1>6, ListContainersStep, ListFailsStep
  <2>2. ASSUME NEW k \in Keys
        PROVE  /\ MustWork(k)' => MustWork(k)
               /\ MayNotWork(k)' => MayNotWork(k)
    BY <1>1, <1>3, <2>1 DEF MustWork, MayNotWork, ToRestore
  <2> QED
    BY <1>1, <1>2, <2>2, RowKept
<1>7. CASE RestoreRecovered
  <2>1. PICK j \in wk.todo : Enqueue(j, TRUE) /\ wk'.todo = wk.todo \ {j}
    BY <1>7, RestoreRecoveredStep
  <2>2. /\ j \in Keys /\ (j \notin pending => ~ Waits(j)) /\ j \in ToRestore
        /\ wk.pc = "restore" /\ wk'.pc = "restore"
    BY <1>1, <1>7, <2>1, RestoreRecoveredStep DEF QueueInv, ToRestore
  <2>3. /\ pending' = pending \cup {j}
        /\ \A k \in Keys : /\ QueuedAgain(k)' => QueuedAgain(k) \/ k = j
                           /\ QueuedNew(k)' => QueuedNew(k)
    BY <1>1, <2>1, <2>2, EnqueueStep
  <2>4. ASSUME NEW k \in Keys
        PROVE  /\ MustWork(k)' => MustWork(k)
               /\ MayNotWork(k)' => MayNotWork(k)
    BY <1>1, <2>1, <2>2, <2>3 DEF MustWork, MayNotWork, ToRestore
  <2> QED
    BY <1>1, <1>2, <2>4, RowKept
<1>8. CASE RestoreLost
  <2>1. PICK j \in wk.todo \ wk.recover : wk'.key = j /\ wk'.todo = wk.todo \ {j}
    BY <1>8, RestoreLostStep
  <2>2. /\ j \in ToRestore /\ wk.pc = "restore" /\ wk'.pc = "finish_load" /\ UNCHANGED memory
    BY <1>8, <2>1, RestoreLostStep DEF ToRestore
  <2>3. ASSUME NEW k \in Keys
        PROVE  /\ MustWork(k)' => MustWork(k)
               /\ MayNotWork(k)' => MayNotWork(k)
    BY <1>1, <1>3, <2>1, <2>2 DEF MustWork, MayNotWork, ToRestore
  <2> QED
    BY <1>1, <1>2, <2>3, RowKept
<1>9. CASE IdentityFails \/ Restored \/ OrphanRemove \/ OrphanFails \/ Reconciled \/ OrphanStop
  BY <1>4, <1>9, IdentityFailsStep, RestoredStep, OrphanRemoveStep, OrphanFailsStep,
     ReconciledStep, OrphanStopStep
<1>10. CASE ReadQueued
  <2>1. /\ wk'.pc = "requeue" /\ wk'.todo = {k \in Keys : IsQueued(PairOf(k))}
        /\ UNCHANGED memory
    BY <1>10, ReadQueuedStep
  <2>2. ASSUME NEW k \in Keys
        PROVE  /\ MustWork(k)' => MustWork(k)
               /\ MayNotWork(k)' => MayNotWork(k) \/ rows'[k] \notin ActiveStatuses
    BY <1>1, <1>2, <1>3, <2>1, StatusKinds DEF MustWork, MayNotWork, ToRestore, IsQueued, PairOf
  <2> QED
    BY <1>1, <1>2, <2>2, RowKept
<1>11. CASE Requeue
  <2>1. PICK j \in wk.todo : Enqueue(j, FALSE) /\ wk'.todo = wk.todo \ {j}
    BY <1>11, RequeueStep
  <2>2. /\ j \in Keys /\ (j \notin pending => ~ Waits(j))
        /\ wk.pc = "requeue" /\ wk'.pc = "requeue"
    BY <1>1, <1>11, <2>1, RequeueStep DEF QueueInv
  <2>3. /\ pending' = pending \cup {j}
        /\ \A k \in Keys : /\ QueuedAgain(k)' => QueuedAgain(k)
                           /\ QueuedNew(k)' => QueuedNew(k) \/ k = j
    BY <1>1, <2>1, <2>2, EnqueueStep
  <2>4. ASSUME NEW k \in Keys
        PROVE  /\ MustWork(k)' => MustWork(k)
               /\ MayNotWork(k)' => MayNotWork(k)
    BY <1>1, <2>1, <2>2, <2>3 DEF MustWork, MayNotWork, ToRestore
  <2> QED
    BY <1>1, <1>2, <2>4, RowKept
<1> QED
  BY <1>5, <1>6, <1>7, <1>8, <1>9, <1>10, <1>11 DEF Reconcile

(* Every step keeps rows and work in step.                                 *)
LEMMA RowInvStep ==
    ASSUME TypeOK, QueueInv, NumbersInv, KnownInv, Apart, RowInv, [Next]_vars
    PROVE  RowInv'
<1> USE DEF NewPcs
<1>1. ASSUME UNCHANGED <<wk, memory>>,
             \A k \in Keys : api'.pc \in NewPcs /\ api'.key = k =>
                 (api.pc \in NewPcs /\ api.key = k) \/ rows'[k] \notin ActiveStatuses
      PROVE  RowInv'
  <2>1. \A k \in Keys : ~ Finishes(k)
    BY <1>1, NoCommits
  <2>2. ASSUME NEW k \in Keys
        PROVE  (QueuedAgain(k)' <=> QueuedAgain(k)) /\ (QueuedNew(k)' <=> QueuedNew(k))
    BY <1>1, QueuedKept
  <2>3. ASSUME NEW k \in Keys
        PROVE  /\ MustWork(k)' => MustWork(k)
               /\ MayNotWork(k)' => MayNotWork(k) \/ rows'[k] \notin ActiveStatuses
    BY <1>1, <2>2 DEF MustWork, MayNotWork, ToRestore
  <2> QED
    BY <2>1, <2>3, RowKept
<1>2. CASE ApiEnqueue
  <2>1. /\ api.key \in Keys /\ (api.key \notin pending => ~ Waits(api.key)) /\ Distinct
        /\ Enqueue(api.key, FALSE) /\ UNCHANGED wk /\ rows' = rows
        /\ api.pc = "enqueue" /\ api'.pc = "idle"
    BY <1>2, ApiEnqueueStep DEF TypeOK, QueueInv
  <2>2. /\ pending' = pending \cup {api.key}
        /\ \A k \in Keys : /\ QueuedAgain(k)' <=> QueuedAgain(k)
                           /\ QueuedNew(k)' <=> QueuedNew(k) \/ (api.key \notin pending /\ k = api.key)
    BY <2>1, EnqueueStep
  <2>3. \A k \in Keys : ~ Finishes(k)
    BY <2>1, NoCommits
  <2>4. ASSUME NEW k \in Keys
        PROVE  /\ MustWork(k)' => MustWork(k)
               /\ MayNotWork(k)' => MayNotWork(k)
    BY <2>1, <2>2 DEF MustWork, MayNotWork, ToRestore
  <2> QED
    BY <2>3, <2>4, RowKept
<1>3. ASSUME NEW r \in Runs, Submit(r) PROVE RowInv'
  <2>1. /\ UNCHANGED <<wk, memory>> /\ api'.key = <<r, 1>> /\ <<r, 1>> \in Keys
        /\ rows' = [rows EXCEPT ![<<r, 1>>] = "QUEUED"] /\ rows \in [Keys -> Columns]
    BY <1>3, SubmitStep DEF TypeOK
  <2>2. rows'[<<r, 1>>] \notin ActiveStatuses
    BY <2>1, StatusKinds
  <2> QED
    BY <1>1, <2>1, <2>2
<1>4. CASE Retry
  BY <1>1, <1>4, RetryStep, RowsRetry, StatusKinds DEF TypeOK
<1>5. ASSUME NEW r \in Runs, CancelLoad(r) \/ RetryLoad(r) PROVE RowInv'
  BY <1>1, <1>5, CancelLoadStep, RetryLoadStep
<1>6. CASE Handle /\ ~ ApiEnqueue /\ ~ Retry
  BY <1>1, <1>6, PendingLoadStep, MarkPendingStep, CancelCommitStep, CancelStopStep,
     CancelRecordLoadStep, CancelRecordStep DEF Handle
<1>7. CASE (\E k \in Keys : ContainerExit(k)) \/ UNCHANGED vars
  BY <1>1, <1>7 DEF ContainerExit, vars
<1>8. CASE Restart
  <2>1. Len(queue') = 0
    BY <1>8, RestartStep, EmptySeq
  <2>2. ASSUME NEW k \in Keys
        PROVE  ~ MustWork(k)' /\ ~ MayNotWork(k)'
    BY <1>8, <2>1, RestartStep DEF MustWork, MayNotWork, ToRestore, QueuedAgain, QueuedNew,
       AtWork, Ended, ExecutePcs, EndingPcs
  <2> QED
    BY <2>2, RowKept
<1> QED
  BY <1>2, <1>3, <1>4, <1>5, <1>6, <1>7, <1>8, RowExecute, RowReconcile DEF Next, Request

----------------------------------------------------------------------------
(* Runs                                                                    *)

(* What keeps the status of a run nobody cancelled in step: earlier        *)
(* attempts ended before the next one was added, and neither the worker nor*)
(* a retry commits over a stale status of the run.                         *)
EarlierEnded ==
    \A k \in Keys : Uncancelled(k[1]) /\ rows[k] # Absent /\ k # LastAttempt(k[1])
                        => rows[k] \in RetryableStatuses
SeenRun ==
    wk.pc \in SeenPcs /\ Uncancelled(wk.key[1]) => wk.seen.run = runs[wk.key[1]]
RetryRun ==
    ApiAt("retry") /\ Uncancelled(api.key[1]) =>
        api.seen.run = runs[api.key[1]] /\ api.seen.run \in RetryableStatuses
DoneRow ==
    At("done") /\ Uncancelled(wk.key[1]) => rows[wk.key] # "QUEUED"

RunInv == RunFollowsLastAttempt /\ EarlierEnded /\ SeenRun /\ RetryRun /\ DoneRow

(* No attempt of a run that nobody cancelled is cancelled.                 *)
LEMMA UncancelledRow ==
    ASSUME TypeOK, NEW k \in Keys, Uncancelled(k[1]), rows[k] # Absent
    PROVE  k \notin cancels
<1>1. k[1] \in Runs /\ k[2] \in 1..MaxAttempts /\ k = <<k[1], k[2]>>
  BY KeyParts
<1>2. k[2] \in Attempts(k[1])
  BY <1>1, InAttempts
<1> QED
  BY <1>1, <1>2 DEF Uncancelled

(* A run that nobody cancelled was not cancelled before.                   *)
LEMMA UncancelledBefore ==
    ASSUME TypeOK, NumbersInv, KnownInv, [Next]_vars, NEW r \in Runs, Uncancelled(r)'
    PROVE  /\ Uncancelled(r)
           /\ \A k \in Keys : k[1] = r /\ rows[k] # Absent => k \notin cancels'
<1>1. ASSUME NEW n \in Attempts(r) PROVE n \in Attempts(r)'
  <2>1. n \in 1..MaxAttempts
    BY DEF Attempts
  <2>2. <<r, n>> \in Keys /\ rows[<<r, n>>] # Absent
    BY <2>1, KeyParts, InAttempts
  <2>3. rows'[<<r, n>>] # Absent
    BY <2>2, RowsStay
  <2> QED
    BY <2>1, <2>3, InAttempts
<1>2. ASSUME NEW n \in Attempts(r) PROVE <<r, n>> \notin cancels'
  BY <1>1, <1>2 DEF Uncancelled
<1>3. Uncancelled(r)
  BY <1>2, CancelsGrow DEF Uncancelled
<1>4. ASSUME NEW k \in Keys, k[1] = r, rows[k] # Absent PROVE k \notin cancels'
  <2>1. k[2] \in 1..MaxAttempts /\ k = <<r, k[2]>>
    BY <1>4, KeyParts
  <2>2. k[2] \in Attempts(r)
    BY <1>4, <2>1, InAttempts
  <2> QED
    BY <1>2, <2>1, <2>2
<1> QED
  BY <1>3, <1>4

(* An attempt that did not end is the last one of its run.                 *)
LEMMA IsLast ==
    ASSUME EarlierEnded, RunFollowsLastAttempt, TypeOK, NEW k \in Keys, Uncancelled(k[1]),
           rows[k] # Absent, rows[k] \notin RetryableStatuses
    PROVE  /\ k = LastAttempt(k[1])
           /\ runs[k[1]] = rows[k]
           /\ Attempts(k[1]) # {}
<1>1. k = LastAttempt(k[1])
  BY DEF EarlierEnded
<1>2. k[1] \in Runs /\ k[2] \in 1..MaxAttempts /\ k = <<k[1], k[2]>>
  BY KeyParts
<1>3. k[2] \in Attempts(k[1])
  BY <1>2, InAttempts
<1>4. runs[k[1]] = rows[LastAttempt(k[1])]
  BY <1>2, <1>3 DEF RunFollowsLastAttempt
<1> QED
  BY <1>1, <1>3, <1>4

(* What the worker holds at a snapshot did not end.                        *)
LEMMA SeenHolds ==
    ASSUME TypeOK, KnownInv, RowInv, RunInv, wk.pc \in SeenPcs, Uncancelled(wk.key[1])
    PROVE  /\ wk.key \in Keys /\ wk.key \notin cancels
           /\ rows[wk.key] \notin {Absent} \cup TerminalStatuses
           /\ wk.key = LastAttempt(wk.key[1]) /\ runs[wk.key[1]] = rows[wk.key]
           /\ wk.seen.row = rows[wk.key] /\ wk.seen.run = runs[wk.key[1]]
<1>1. wk.key \in Keys /\ rows[wk.key] # Absent
  BY DEF TypeOK, KnownInv, SeenPcs, ExecutePcs, EndingPcs
<1>2. wk.key \notin cancels
  BY <1>1, UncancelledRow
<1>3. wk.seen.row = rows[wk.key]
  BY <1>2 DEF RowInv, SeenRow
<1>4. rows[wk.key] \notin TerminalStatuses
  <2>1. CASE At("claim")
    BY <1>3, <2>1, StatusKinds DEF KnownInv, IsQueued
  <2>2. CASE ~ At("claim")
    <3>1. MustWork(wk.key)
      BY <2>2 DEF MustWork, SeenPcs, AtWork, ExecutePcs, EndingPcs, BeforeClaim, Ended
    <3> QED
      BY <1>1, <1>2, <3>1, StatusKinds DEF RowInv
  <2> QED
    BY <2>1, <2>2
<1>5. wk.key = LastAttempt(wk.key[1]) /\ runs[wk.key[1]] = rows[wk.key]
  BY <1>1, <1>4, IsLast, StatusKinds DEF RunInv
<1> QED
  BY <1>1, <1>2, <1>3, <1>4, <1>5 DEF RunInv, SeenRun

(* What a step does to a run that nobody cancelled.                        *)
RunStays(r) == runs'[r] = runs[r] /\ \A k \in Keys : k[1] = r => rows'[k] = rows[k]
RunCommits(r) ==
    /\ wk.key \in Keys /\ wk.key[1] = r /\ wk.key = LastAttempt(r)
    /\ rows[wk.key] \notin {Absent} \cup TerminalStatuses /\ runs[r] = rows[wk.key]
    /\ rows'[wk.key] \notin New /\ runs'[r] = rows'[wk.key]
    /\ \A k \in Keys : k[1] = r /\ k # wk.key => rows'[k] = rows[k]
    /\ Claims(wk.key) \/ Proceeds(wk.key) \/ Finishes(wk.key)
RunGrows(r) ==
    /\ api'.key \in Keys /\ api'.key[1] = r /\ api'.key = NextAttempt(r)
    /\ api'.pc \in NewPcs /\ UNCHANGED wk
    /\ rows[api'.key] = Absent /\ rows' = [rows EXCEPT ![api'.key] = "QUEUED"]
    /\ runs'[r] = "QUEUED"
    /\ Attempts(r) = {} \/ runs[r] \in RetryableStatuses

(* A run that nobody cancelled stays, moves with its last attempt, or gets *)
(* a new one after that ended.                                             *)
LEMMA RunStep ==
    ASSUME TypeOK, NumbersInv, KnownInv, RowInv, RunInv, [Next]_vars,
           NEW r \in Runs, Uncancelled(r)'
    PROVE  RunStays(r) \/ RunCommits(r) \/ RunGrows(r)
<1>1. Uncancelled(r)
  BY UncancelledBefore
<1>2. ASSUME UNCHANGED <<runs, rows>> PROVE RunStays(r)
  BY <1>2 DEF RunStays
<1>3. ASSUME NEW k \in Keys, NEW seen, NEW status, CommitStatus(k, seen, status), k[1] # r
      PROVE  RunStays(r)
  BY <1>3, CommitFresh DEF RunStays
<1>4. CASE Execute
  <2>1. ASSUME wk.key \in Keys, NEW status \in Columns,
               CommitStatus(wk.key, wk.seen, status),
               \/ Claims(wk.key) /\ status \in ActiveStatuses
               \/ Proceeds(wk.key) /\ status \in ActiveStatuses
               \/ Finishes(wk.key) /\ status \in TerminalStatuses,
               wk.key[1] = r
        PROVE  RunCommits(r)
    <3>1. wk.pc \in SeenPcs
      BY <2>1 DEF SeenPcs, Claims, Proceeds, Finishes
    <3>2. /\ rows[wk.key] \notin {Absent} \cup TerminalStatuses
          /\ wk.key = LastAttempt(r) /\ runs[r] = rows[wk.key]
          /\ wk.seen.row = rows[wk.key] /\ wk.seen.run = runs[r]
      BY <1>1, <2>1, <3>1, SeenHolds
    <3>3. rows'[wk.key] = status /\ runs'[r] = status
      BY <2>1, <3>2, CommitFresh
    <3>4. \A k \in Keys : k # wk.key => rows'[k] = rows[k]
      BY <2>1, CommitFresh
    <3>5. status \notin New
      BY <2>1, StatusKinds DEF New
    <3> QED
      BY <2>1, <3>2, <3>3, <3>4, <3>5 DEF RunCommits
  <2> QED
    BY <1>2, <1>3, <1>4, <2>1, WorkerCommits
<1>5. ASSUME NEW s \in Runs, Submit(s) PROVE RunStays(r) \/ RunGrows(r)
  <2>1. /\ rows[<<s, 1>>] = Absent /\ <<s, 1>> \in Keys
        /\ rows' = [rows EXCEPT ![<<s, 1>>] = "QUEUED"]
        /\ runs' = [runs EXCEPT ![s] = "QUEUED"]
        /\ api'.key = <<s, 1>> /\ api'.pc \in NewPcs /\ wk' = wk
        /\ Attempts(s) = {}
    BY <1>5, RowsSubmit, SubmitStep DEF NewPcs, NumbersInv
  <2>2. CASE s = r
    <3>1. NextAttempt(s) = <<s, 1>>
      <4>1. Cardinality(Attempts(s)) = 0
        BY <2>1, FS_EmptySet
      <4> QED
        BY <4>1 DEF NextAttempt
    <3> QED
      BY <2>1, <2>2, <3>1 DEF RunGrows, TypeOK
  <2>3. CASE s # r
    BY <2>1, <2>3 DEF RunStays, TypeOK
  <2> QED
    BY <2>2, <2>3
<1>6. CASE Retry
  <2>1. /\ rows[api.key] = Absent /\ api.key \in Keys
        /\ rows' = [rows EXCEPT ![api.key] = "QUEUED"]
        /\ runs' = [runs EXCEPT ![api.key[1]] = Flush(api.seen.run, "QUEUED", @)]
        /\ api'.key = api.key /\ api'.pc \in NewPcs /\ wk' = wk
        /\ api.pc = "retry" /\ api.key = NextAttempt(api.key[1])
        /\ CommitStatus(api.key, api.seen, "QUEUED")
    BY <1>6, RowsRetry, RetryStep DEF NewPcs, NumbersInv
  <2>2. CASE api.key[1] = r
    <3>1. api.seen.run = runs[r] /\ api.seen.run \in RetryableStatuses
      BY <1>1, <2>1, <2>2 DEF RunInv, RetryRun
    <3>2. runs'[r] = "QUEUED"
      BY <2>1, <2>2, <3>1, CommitFresh
    <3> QED
      BY <2>1, <2>2, <3>1, <3>2 DEF RunGrows
  <2> QED
    BY <1>3, <2>1, <2>2
<1>7. CASE CancelCommit
  <2>1. /\ api.key \in Keys /\ rows[api.key] # Absent /\ api.key \in cancels'
        /\ CommitStatus(api.key, api.seen, CancelTarget(api.seen))
    BY <1>7, CancelCommitStep DEF TypeOK, KnownInv
  <2>2. api.key[1] # r
    BY <2>1, UncancelledBefore
  <2> QED
    BY <1>3, <2>1, <2>2
<1>8. CASE Reconcile \/ Restart \/ UNCHANGED vars \/ (\E l \in Keys : ContainerExit(l))
  <2>1. UNCHANGED <<runs, rows>>
    BY <1>8 DEF Reconcile, ReadActive, ListContainers, ListFails,
       IdentityFails, RestoreRecovered, RestoreLost, Restored, OrphanStop, OrphanRemove,
       OrphanFails, ReadQueued, Requeue, Reconciled, Restart, vars, ContainerExit
  <2> QED
    BY <1>2, <2>1
<1>9. CASE Handle /\ ~ CancelCommit /\ ~ Retry
  <2>1. UNCHANGED <<runs, rows>>
    BY <1>9 DEF Handle, PendingLoad, MarkPending, ApiEnqueue, CancelStop,
       CancelRecordLoad, CancelRecord
  <2> QED
    BY <1>2, <2>1
<1>10. ASSUME NEW s \in Runs, CancelLoad(s) \/ RetryLoad(s) PROVE RunStays(r)
  <2>1. UNCHANGED <<runs, rows>>
    BY <1>10 DEF CancelLoad, RetryLoad
  <2> QED
    BY <1>2, <2>1
<1> QED
  BY <1>4, <1>5, <1>6, <1>7, <1>8, <1>9, <1>10 DEF Next, Request

(* What a step does to the attempts of a run that nobody cancelled.        *)
LEMMA LastStep ==
    ASSUME TypeOK, NumbersInv, KnownInv, RowInv, RunInv, [Next]_vars,
           NEW r \in Runs, Uncancelled(r)'
    PROVE  \/ /\ RunStays(r) \/ RunCommits(r)
              /\ Attempts(r)' = Attempts(r) /\ LastAttempt(r)' = LastAttempt(r)
           \/ RunGrows(r) /\ LastAttempt(r)' = api'.key
<1>1. CASE RunStays(r) \/ RunCommits(r)
  <2>1. ASSUME NEW n \in 1..MaxAttempts
        PROVE  n \in Attempts(r)' <=> n \in Attempts(r)
    <3>1. <<r, n>> \in Keys /\ <<r, n>>[1] = r
      BY KeyParts
    <3>2. rows'[<<r, n>>] # Absent <=> rows[<<r, n>>] # Absent
      BY <1>1, <3>1 DEF RunStays, RunCommits, New
    <3> QED
      BY <3>2, InAttempts
  <2>2. Attempts(r)' = Attempts(r)
    BY <2>1 DEF Attempts
  <2> QED
    BY <1>1, <2>2 DEF LastAttempt
<1>2. CASE RunGrows(r)
  <2>1. PICK k \in Keys : k = api'.key
    BY <1>2 DEF RunGrows
  <2>2. /\ k[1] = r /\ k = NextAttempt(k[1]) /\ rows' = [rows EXCEPT ![k] = "QUEUED"]
        /\ k = <<r, k[2]>>
    BY <1>2, <2>1, KeyParts DEF RunGrows
  <2>3. Cardinality(Attempts(k[1])') = k[2]
    BY <2>2, AttemptsGrow
  <2> QED
    BY <1>2, <2>1, <2>2, <2>3 DEF LastAttempt
<1> QED
  BY <1>1, <1>2, RunStep

(* The run follows its last attempt, and earlier ones ended.               *)
LEMMA FollowsStep ==
    ASSUME TypeOK, NumbersInv, KnownInv, RowInv, RunInv, [Next]_vars
    PROVE  RunFollowsLastAttempt' /\ EarlierEnded'
<1>1. ASSUME NEW r \in Runs, Attempts(r)' # {}, Uncancelled(r)'
      PROVE  runs'[r] = rows'[LastAttempt(r)']
  <2>1. Uncancelled(r)
    BY <1>1, UncancelledBefore
  <2>2. CASE RunGrows(r) /\ LastAttempt(r)' = api'.key
    BY <2>2 DEF RunGrows, TypeOK
  <2>3. CASE /\ RunStays(r) \/ RunCommits(r)
             /\ Attempts(r)' = Attempts(r) /\ LastAttempt(r)' = LastAttempt(r)
    <3>1. LastAttempt(r) \in Keys /\ LastAttempt(r)[1] = r
      BY <1>1, <2>3, AttemptNumbers DEF LastAttempt
    <3>2. runs[r] = rows[LastAttempt(r)]
      BY <1>1, <2>1, <2>3 DEF RunInv, RunFollowsLastAttempt
    <3> QED
      BY <2>3, <3>1, <3>2 DEF RunStays, RunCommits
  <2> QED
    BY <1>1, <2>2, <2>3, LastStep
<1>2. ASSUME NEW k \in Keys, Uncancelled(k[1])', rows'[k] # Absent, k # LastAttempt(k[1])'
      PROVE  rows'[k] \in RetryableStatuses
  <2>1. PICK r \in Runs : r = k[1]
    BY KeyParts
  <2>2. Uncancelled(r)' /\ Uncancelled(r) /\ k # LastAttempt(r)'
    BY <1>2, <2>1, UncancelledBefore
  <2>3. CASE RunGrows(r) /\ LastAttempt(r)' = api'.key
    <3>1. rows'[k] = rows[k] /\ rows[k] # Absent
      BY <1>2, <2>2, <2>3 DEF RunGrows, TypeOK
    <3>2. Attempts(r) # {}
      BY <2>1, <3>1, KeyParts, InAttempts
    <3>3. runs[r] \in RetryableStatuses /\ runs[r] = rows[LastAttempt(r)]
      BY <2>2, <2>3, <3>2 DEF RunGrows, RunInv, RunFollowsLastAttempt
    <3> QED
      BY <2>1, <2>2, <3>1, <3>3 DEF RunInv, EarlierEnded
  <2>4. CASE /\ RunStays(r) \/ RunCommits(r)
             /\ Attempts(r)' = Attempts(r) /\ LastAttempt(r)' = LastAttempt(r)
    <3>1. rows'[k] = rows[k] /\ k # LastAttempt(r)
      BY <2>1, <2>2, <2>4 DEF RunStays, RunCommits
    <3> QED
      BY <1>2, <2>1, <2>2, <3>1 DEF RunInv, EarlierEnded
  <2> QED
    BY <2>2, <2>3, <2>4, LastStep
<1> QED
  BY <1>1, <1>2 DEF RunFollowsLastAttempt, EarlierEnded

(* The worker's snapshot of the run is not overtaken.                      *)
LEMMA SeenRunStep ==
    ASSUME TypeOK, NumbersInv, KnownInv, RowInv, RunInv, [Next]_vars
    PROVE  SeenRun'
<1> USE DEF ExecutePcs, EndingPcs, SeenPcs
<1>1. CASE Execute
  <2>1. CASE ClaimLoad \/ RunningLoad \/ StageEvent \/ FinishLoad
    BY <2>1, ClaimLoadStep, RunningLoadStep, StageEventStep, FinishLoadStep
       DEF SeenRun, PairOf
  <2>2. CASE ~ (ClaimLoad \/ RunningLoad \/ StageEvent \/ FinishLoad)
    <3>1. wk'.pc \notin SeenPcs
      BY <1>1, <2>2, GetStep, RecoverStep, RecoverFailsStep, ClaimStep, CreateStep,
         CreateFailsStep, SetRunningStep, DiscardStep, StartStep, SetStageStep, LogEndsStep,
         CollectStep, CheckStep, RemoveStep, DockerStepFailsStep, HandleFailureStep,
         CleanupStopStep, CleanupRemoveStep, CleanupResultStep, FinishStep, RecordLoadStep,
         RecordStep, DoneStep DEF Execute
    <3> QED
      BY <3>1 DEF SeenRun
  <2> QED
    BY <2>1, <2>2
<1>2. CASE Reconcile \/ Restart
  <2>1. wk'.pc \notin SeenPcs
    BY <1>2, ReadActiveStep, ListContainersStep, ListFailsStep, IdentityFailsStep,
       RestoreRecoveredStep, RestoreLostStep, RestoredStep, OrphanStopStep, OrphanRemoveStep,
       OrphanFailsStep, ReadQueuedStep, RequeueStep, ReconciledStep, RestartStep DEF Reconcile
  <2> QED
    BY <2>1 DEF SeenRun
<1>3. CASE UNCHANGED wk
  <2> SUFFICES ASSUME wk.pc \in SeenPcs, Uncancelled(wk.key[1])'
               PROVE  wk.seen.run = runs'[wk.key[1]]
    BY <1>3 DEF SeenRun
  <2>1. PICK k \in Keys : k = wk.key
    BY DEF TypeOK
  <2>2. PICK r \in Runs : r = k[1]
    BY KeyParts
  <2>3. Uncancelled(r)'
    BY <1>3, <2>1, <2>2
  <2>4. Uncancelled(r)
    BY <2>3, UncancelledBefore
  <2>5. /\ rows[k] \notin {Absent} \cup TerminalStatuses
        /\ runs[r] = rows[k] /\ wk.seen.run = runs[r]
    BY <2>1, <2>2, <2>4, SeenHolds
  <2>6. ~ RunCommits(r)
    BY <1>3, NoCommits DEF RunCommits
  <2>7. ~ RunGrows(r)
    <3>1. Attempts(r) # {}
      BY <2>2, <2>5, KeyParts, InAttempts
    <3> QED
      BY <2>5, <3>1, StatusKinds DEF RunGrows
  <2> QED
    BY <2>1, <2>2, <2>3, <2>5, <2>6, <2>7, RunStep DEF RunStays
<1> QED
  BY <1>1, <1>2, <1>3, RequestKeeps DEF Next

(* Nor is the snapshot of a retry.                                         *)
LEMMA RetryRunStep ==
    ASSUME TypeOK, NumbersInv, KnownInv, RowInv, RunInv, [Next]_vars
    PROVE  RetryRun'
<1>1. ASSUME NEW r \in Runs, RetryLoad(r)
      PROVE  RetryRun'
  <2>1. /\ api'.key = NextAttempt(r) /\ api'.seen.run = runs[r] /\ runs' = runs
        /\ CanRetry(runs[r])
    BY <1>1, RetryLoadStep
  <2>2. NextAttempt(r)[1] = r
    BY DEF NextAttempt
  <2>3. runs[r] \in RetryableStatuses
    BY <2>1 DEF CanRetry
  <2> QED
    BY <2>1, <2>2, <2>3 DEF RetryRun
<1>2. CASE UNCHANGED api
  <2> SUFFICES ASSUME ApiAt("retry"), Uncancelled(api.key[1])'
               PROVE  api.seen.run = runs'[api.key[1]] /\ api.seen.run \in RetryableStatuses
    BY <1>2 DEF RetryRun
  <2>1. PICK k \in Keys : k = api.key
    BY DEF TypeOK
  <2>2. PICK r \in Runs : r = k[1]
    BY KeyParts
  <2>3. Uncancelled(r)'
    BY <1>2, <2>1, <2>2
  <2>4. Uncancelled(r)
    BY <2>3, UncancelledBefore
  <2>5. api.seen.run = runs[r] /\ runs[r] \in RetryableStatuses
    BY <2>1, <2>2, <2>4 DEF RunInv, RetryRun
  <2>6. ~ RunCommits(r)
    BY <2>5, StatusKinds DEF RunCommits
  <2>7. ~ RunGrows(r)
    BY <1>2 DEF RunGrows, NewPcs
  <2> QED
    BY <2>1, <2>2, <2>3, <2>5, <2>6, <2>7, RunStep DEF RunStays
<1>3. ASSUME api'.pc # "retry"
      PROVE  RetryRun'
  BY <1>3 DEF RetryRun
<1>4. ASSUME NEW r \in Runs, Submit(r) \/ CancelLoad(r)
      PROVE  RetryRun'
  BY <1>3, <1>4, SubmitStep, CancelLoadStep
<1>5. CASE Handle
  BY <1>3, <1>5, PendingLoadStep, MarkPendingStep, ApiEnqueueStep, CancelCommitStep,
     CancelStopStep, CancelRecordLoadStep, CancelRecordStep, RetryStep DEF Handle
<1>6. CASE Execute \/ Reconcile \/ (\E k \in Keys : ContainerExit(k)) \/ UNCHANGED vars
  BY <1>2, <1>6, ApiKept DEF ContainerExit, vars
<1>7. CASE Restart
  BY <1>3, <1>7, RestartStep
<1> QED
  BY <1>1, <1>4, <1>5, <1>6, <1>7 DEF Next, Request

(* The worker drops no work item that is still queued.                     *)
LEMMA DoneRowStep ==
    ASSUME TypeOK, QueueInv, NumbersInv, KnownInv, RowInv, RunInv, [Next]_vars
    PROVE  DoneRow'
<1> USE DEF ExecutePcs, EndingPcs, Ended
<1> SUFFICES ASSUME wk'.pc = "done", Uncancelled(wk.key[1])'
             PROVE  rows'[wk'.key] # "QUEUED"
  BY DEF DoneRow
<1>1. \/ wk.pc \in {"claim_load", "finish"} \cup Ended /\ wk'.key = wk.key
  <2>1. CASE Execute
    <3>1. ~ Get /\ ~ Done
      BY GetStep, DoneStep
    <3>2. WorksOn
      BY <2>1, <3>1, ExecuteWorks DEF QueueInv
    <3>3. wk.pc \in {"claim_load", "finish"} \cup Ended
      BY <2>1, <3>1, Places DEF AtWork
    <3> QED
      BY <3>2, <3>3 DEF WorksOn
  <2>2. CASE Reconcile \/ Restart
    BY <2>2, ReadActiveStep, ListContainersStep, ListFailsStep, IdentityFailsStep,
       RestoreRecoveredStep, RestoreLostStep, RestoredStep, OrphanStopStep, OrphanRemoveStep,
       OrphanFailsStep, ReadQueuedStep, RequeueStep, ReconciledStep, RestartStep DEF Reconcile
  <2> QED
    BY <2>1, <2>2, RequestKeeps DEF Next
<1>2. PICK k \in Keys : k = wk.key
  BY <1>1 DEF TypeOK
<1>3. PICK r \in Runs : r = k[1]
  BY KeyParts
<1>4. Uncancelled(r)
  <2>1. Uncancelled(r)'
    BY <1>1, <1>2, <1>3
  <2> QED
    BY <2>1, UncancelledBefore
<1>5. CASE At("claim_load")
  <2>1. CASE Execute
    <3>1. ClaimLoad
      BY <1>5, <2>1, GetStep, RecoverStep, RecoverFailsStep, ClaimStep, CreateStep,
         CreateFailsStep, RunningLoadStep, SetRunningStep, DiscardStep, StartStep,
         StageEventStep, SetStageStep, LogEndsStep,
         CollectStep, CheckStep, RemoveStep, DockerStepFailsStep, HandleFailureStep,
         CleanupStopStep, CleanupRemoveStep, CleanupResultStep, FinishLoadStep, FinishStep,
         RecordLoadStep, RecordStep, DoneStep DEF Execute
    <3>2. ~ CanClaim(PairOf(k)) /\ rows' = rows
      BY <1>2, <3>1, ClaimLoadStep
    <3>3. rows[k] = "QUEUED" => runs[r] = rows[k]
      BY <1>3, <1>4, IsLast, StatusKinds DEF RunInv, Absent
    <3> QED
      BY <1>1, <1>2, <1>3, <3>2, <3>3 DEF CanClaim, IsQueued, PairOf
  <2>2. CASE ~ Execute
    <3>1. wk' = wk
      BY <2>2, <1>5, ReadActiveStep, ListContainersStep, ListFailsStep, IdentityFailsStep,
         RestoreRecoveredStep, RestoreLostStep, RestoredStep, OrphanStopStep, OrphanRemoveStep,
         OrphanFailsStep, ReadQueuedStep, RequeueStep, ReconciledStep, RestartStep,
         RequestKeeps DEF Reconcile, Next
    <3> QED
      BY <1>5, <3>1
  <2> QED
    BY <2>1, <2>2
<1>6. CASE wk.pc \in {"finish"} \cup Ended
  <2>1. rows[k] \notin New
    BY <1>2, <1>3, <1>4, <1>6 DEF KnownInv, RunInv, DoneRow, New, BeforeClaim
  <2>2. rows'[k] \notin New
    BY <2>1, RowsStay
  <2> QED
    BY <1>1, <1>2, <2>2 DEF New
<1> QED
  BY <1>1, <1>5, <1>6

(* Every step keeps runs and attempts in step.                             *)
LEMMA RunInvStep ==
    ASSUME TypeOK, QueueInv, NumbersInv, KnownInv, RowInv, RunInv, [Next]_vars
    PROVE  RunInv'
BY FollowsStep, SeenRunStep, RetryRunStep, DoneRowStep DEF RunInv

(* There is no run at first.                                               *)
LEMMA RunInvInit == Init => RunInv
<1>1. ASSUME Init, NEW r \in Runs PROVE Attempts(r) = {}
  BY <1>1, KeyParts DEF Attempts, Init
<1>2. ASSUME Init, NEW k \in Keys PROVE rows[k] = Absent
  BY <1>2 DEF Init
<1> QED
  BY <1>1, <1>2 DEF Init, RunInv, RunFollowsLastAttempt, EarlierEnded, SeenRun, RetryRun,
     DoneRow, SeenPcs, WorkerAt, ApiIdle

----------------------------------------------------------------------------
(* Work                                                                    *)

(* What an attempt that the database shows at work is waiting for.         *)
WorkExpected(k) ==
    \/ QueuedAgain(k) \/ Serves(k) \/ k \in ToRestore
    \/ wk.pc \in {"finish_load", "finish"} /\ wk.key = k
    \/ wk.pc \in {"reconcile", "dead"}

WorkIsExpected ==
    \A k \in Keys : rows[k] \in ActiveStatuses /\ Uncancelled(k[1]) => WorkExpected(k)

(* Nothing works at first.                                                 *)
LEMMA WorkInit == Init => WorkIsExpected
BY StatusKinds DEF Init, WorkIsExpected

(* An attempt at work after a step was at work before and the worker did   *)
(* not end it, or the worker is on it.                                     *)
LEMMA WorkBefore ==
    ASSUME TypeOK, TypeOK', QueueInv, QueueInv', NumbersInv, KnownInv, RowInv, [Next]_vars,
           NEW k \in Keys, rows'[k] \in ActiveStatuses, Uncancelled(k[1])'
    PROVE  \/ Serves(k)'
           \/ /\ rows[k] \in ActiveStatuses /\ Uncancelled(k[1])
              /\ k \notin cancels /\ ~ Finishes(k)
<1>1. PICK r \in Runs : r = k[1]
  BY KeyParts
<1>2. k[2] \in 1..MaxAttempts /\ k = <<r, k[2]>>
  BY <1>1, KeyParts
<1>3. k[2] \in Attempts(r)'
  BY <1>2, StatusKinds, InAttempts
<1>4. k \notin cancels'
  BY <1>1, <1>2, <1>3 DEF Uncancelled
<1>5. Uncancelled(k[1]) /\ k \notin cancels
  <2>1. Uncancelled(r)'
    BY <1>1
  <2> QED
    BY <1>1, <1>4, <2>1, UncancelledBefore, CancelsGrow
<1>6. RowStays(k) \/ RowWorks(k)
  BY <1>4, RowStep, StatusKinds DEF RowInv, RowIsNew, RowEnds
<1>7. CASE RowStays(k)
  BY <1>5, <1>7 DEF RowStays
<1>8. CASE RowWorks(k)
  <2>1. Claims(k) \/ Proceeds(k)
    BY <1>8 DEF RowWorks
  <2>2. Execute
    BY <2>1, NoCommits, RequestKeeps DEF Next
  <2>3. ~ Get /\ ~ Done
    BY <2>1, GetStep, DoneStep DEF Claims, Proceeds
  <2>4. WorksOn
    BY <2>2, <2>3, ExecuteWorks DEF QueueInv
  <2>5. wk'.pc \in ExecutePcs \ EndingPcs /\ wk'.key = k
    BY <2>1, <2>4 DEF WorksOn, Claims, Proceeds, ExecutePcs, EndingPcs
  <2> QED
    BY <2>5 DEF QueueInv, Phases, Serves
<1> QED
  BY <1>6, <1>7, <1>8

(* What the worker does with an attempt that is waited for.                *)
LEMMA WorkExecute ==
    ASSUME TypeOK, TypeOK', QueueInv, NumbersInv, KnownInv, RowInv, Execute,
           NEW k \in Keys, WorkExpected(k), rows[k] \in ActiveStatuses, k \notin cancels,
           ~ Finishes(k)
    PROVE  WorkExpected(k)'
<1> USE DEF ExecutePcs, EndingPcs
<1>1. Phases /\ Distinct
  BY DEF QueueInv
<1>2. CASE Get
  <2> DEFINE item == Head(queue)
  <2>1. /\ QueuedAgain(k)' <=> QueuedAgain(k) /\ k # item.key
        /\ wk.pc = "idle" /\ wk.serving
        /\ wk'.serving /\ wk'.key = item.key /\ wk'.pc \in {"recover", "claim_load"}
    BY <1>1, <1>2, GetStep, DequeueStep DEF Phases
  <2> HIDE DEF item
  <2>2. QueuedAgain(k)
    BY <2>1 DEF WorkExpected, Serves, ToRestore
  <2>3. QueuedAgain(k)' \/ Serves(k)'
    BY <2>1, <2>2 DEF Serves
  <2> QED
    BY <2>3 DEF WorkExpected
<1>3. CASE Done
  <2>1. QueuedAgain(k)' <=> QueuedAgain(k)
    BY <1>3, DoneStep, QueuedKept
  <2>2. At("done")
    BY <1>3, DoneStep
  <2>3. ~ Serves(k)
    BY <2>2 DEF RowInv, MayNotWork, Serves, Ended
  <2> QED
    BY <2>1, <2>2, <2>3 DEF WorkExpected, ToRestore
<1>4. CASE ~ Get /\ ~ Done
  <2>1. WorksOn
    BY <1>1, <1>4, ExecuteWorks
  <2>2. At("finish") => wk'.pc \in Ended \cup {"restore"}
    BY <1>4, Places DEF Ended
  <2>3. At("finish_load") => wk'.pc \in AtWork
    BY <1>4, Places DEF Ended
  <2>4. QueuedAgain(k)' <=> QueuedAgain(k)
    BY <2>1, QueuedKept DEF WorksOn
  <2>5. Serves(k) => Serves(k)'
    BY <2>1 DEF WorksOn, Serves
  <2>6. k \in ToRestore => k \in ToRestore'
    BY <1>1, <2>1 DEF WorksOn, ToRestore, Phases
  <2>7. wk.pc \in {"finish_load", "finish"} /\ wk.key = k
          => Serves(k) \/ (wk'.pc \in {"finish_load", "finish"} /\ wk'.key = k)
    BY <2>1, <2>2, <2>3 DEF WorksOn, Serves, Finishes, AtWork, Ended
  <2> QED
    BY <2>1, <2>4, <2>5, <2>6, <2>7 DEF WorkExpected, WorksOn
<1> QED
  BY <1>2, <1>3, <1>4

(* What reconciliation does with it.                                       *)
LEMMA WorkReconcile ==
    ASSUME TypeOK, TypeOK', QueueInv, NumbersInv, KnownInv, RowInv, RunInv, Reconcile,
           NEW k \in Keys, WorkExpected(k), rows[k] \in ActiveStatuses, k \notin cancels,
           Uncancelled(k[1])
    PROVE  WorkExpected(k)'
<1> USE DEF ExecutePcs, EndingPcs, ReconcilePcs
<1>1. Phases /\ Distinct /\ wk.todo \subseteq Keys
  BY DEF QueueInv, TypeOK, WorkerType
<1>2. wk.pc \in ReconcilePcs /\ ~ wk.serving
  <2>1. wk.pc \in ReconcilePcs
    BY ReadActiveStep, ListContainersStep, ListFailsStep, IdentityFailsStep,
       RestoreRecoveredStep, RestoreLostStep, RestoredStep, OrphanStopStep, OrphanRemoveStep,
       OrphanFailsStep, ReadQueuedStep, RequeueStep, ReconciledStep DEF Reconcile
  <2> QED
    BY <1>1, <2>1 DEF Phases
<1>3. \/ QueuedAgain(k)
      \/ wk.pc \in {"list", "restore"} /\ k \in wk.todo
      \/ At("reconcile")
  BY <1>2 DEF WorkExpected, Serves, ToRestore
<1>4. ASSUME QueuedAgain(k)' PROVE WorkExpected(k)'
  BY <1>4 DEF WorkExpected
<1>5. ASSUME UNCHANGED memory, QueuedAgain(k) PROVE WorkExpected(k)'
  BY <1>4, <1>5, QueuedKept
<1>6. ASSUME wk'.pc \in {"list", "restore"}, k \in wk'.todo PROVE WorkExpected(k)'
  BY <1>6 DEF WorkExpected, ToRestore
<1>7. CASE ReadActive
  <2>1. runs[k[1]] = rows[k]
    BY IsLast, StatusKinds DEF RunInv
  <2>2. IsActive(PairOf(k))
    BY <2>1 DEF IsActive, PairOf
  <2> QED
    BY <1>6, <1>7, <2>2, ReadActiveStep
<1>8. CASE ListContainers \/ ListFails
  BY <1>3, <1>5, <1>6, <1>8, ListContainersStep, ListFailsStep
<1>9. CASE IdentityFails
  BY <1>9, IdentityFailsStep DEF WorkExpected
<1>10. CASE RestoreRecovered
  <2>1. PICK j \in wk.todo : Enqueue(j, TRUE) /\ wk'.todo = wk.todo \ {j}
    BY <1>10, RestoreRecoveredStep
  <2>2. /\ j \in Keys /\ (j \notin pending => ~ Waits(j))
        /\ wk.pc = "restore" /\ wk'.pc = "restore"
    BY <1>1, <1>10, <2>1, RestoreRecoveredStep DEF QueueInv
  <2>3. QueuedAgain(k)' <=> QueuedAgain(k) \/ (j \notin pending /\ k = j)
    BY <1>1, <2>1, <2>2, EnqueueStep
  <2>4. k \in pending => QueuedAgain(k)
    <3>1. ~ QueuedNew(k)
      BY DEF RowInv, MayNotWork
    <3> QED
      BY <1>2, <3>1 DEF QueueInv, Waits, Serves
  <2> QED
    BY <1>3, <1>4, <1>6, <2>1, <2>2, <2>3, <2>4
<1>11. CASE RestoreLost
  <2>1. PICK j \in wk.todo \ wk.recover : wk'.key = j /\ wk'.todo = wk.todo \ {j}
    BY <1>11, RestoreLostStep
  <2>2. /\ wk.pc = "restore" /\ wk'.pc = "finish_load" /\ wk'.serving = wk.serving
        /\ UNCHANGED memory
    BY <1>11, RestoreLostStep
  <2>3. CASE k = j
    BY <2>1, <2>2, <2>3 DEF WorkExpected
  <2>4. CASE k # j
    <3>1. k \in wk.todo => k \in ToRestore'
      BY <1>2, <2>1, <2>2, <2>4 DEF ToRestore
    <3> QED
      BY <1>3, <1>5, <2>2, <3>1 DEF WorkExpected
  <2> QED
    BY <2>3, <2>4
<1>12. CASE Restored \/ OrphanStop \/ OrphanRemove \/ OrphanFails \/ ReadQueued \/ Reconciled
  BY <1>3, <1>5, <1>12, RestoredStep, OrphanStopStep, OrphanRemoveStep, OrphanFailsStep,
     ReadQueuedStep, ReconciledStep
<1>13. CASE Requeue
  <2>1. PICK j \in wk.todo : Enqueue(j, FALSE)
    BY <1>13, RequeueStep
  <2>2. j \in Keys /\ (j \notin pending => ~ Waits(j)) /\ wk.pc = "requeue"
    BY <1>1, <1>13, <2>1, RequeueStep DEF QueueInv
  <2>3. QueuedAgain(k)' <=> QueuedAgain(k)
    BY <1>1, <2>1, <2>2, EnqueueStep
  <2> QED
    BY <1>3, <1>4, <2>2, <2>3
<1> QED
  BY <1>7, <1>8, <1>9, <1>10, <1>11, <1>12, <1>13 DEF Reconcile

(* What is at work is waited for after every step.                         *)
LEMMA WorkStep ==
    ASSUME TypeOK, TypeOK', QueueInv, QueueInv', NumbersInv, KnownInv, RowInv, RunInv,
           WorkIsExpected, [Next]_vars
    PROVE  WorkIsExpected'
<1> SUFFICES ASSUME NEW k \in Keys, rows'[k] \in ActiveStatuses, Uncancelled(k[1])'
             PROVE  WorkExpected(k)'
  BY DEF WorkIsExpected
<1>1. CASE Serves(k)'
  BY <1>1 DEF WorkExpected
<1>2. CASE /\ rows[k] \in ActiveStatuses /\ Uncancelled(k[1])
           /\ k \notin cancels /\ ~ Finishes(k)
  <2>1. WorkExpected(k)
    BY <1>2 DEF WorkIsExpected
  <2>2. CASE Execute
    BY <1>2, <2>1, <2>2, WorkExecute
  <2>3. CASE Reconcile
    BY <1>2, <2>1, <2>3, WorkReconcile
  <2>4. CASE Restart
    BY <2>4, RestartStep DEF WorkExpected
  <2>5. ASSUME UNCHANGED wk, QueuedAgain(k)' <=> QueuedAgain(k)
        PROVE  WorkExpected(k)'
    BY <2>1, <2>5 DEF WorkExpected, Serves, ToRestore
  <2>6. CASE ApiEnqueue
    <3>1. /\ api.key \in Keys /\ (api.key \notin pending => ~ Waits(api.key))
          /\ Distinct /\ Enqueue(api.key, FALSE) /\ UNCHANGED wk
      BY <2>6, ApiEnqueueStep DEF TypeOK, QueueInv
    <3>2. QueuedAgain(k)' <=> QueuedAgain(k)
      BY <3>1, EnqueueStep
    <3> QED
      BY <2>5, <3>1, <3>2
  <2>7. CASE (Request \/ Handle \/ (\E l \in Keys : ContainerExit(l)) \/ UNCHANGED vars)
             /\ ~ ApiEnqueue
    <3>1. UNCHANGED wk /\ UNCHANGED memory
      BY <2>7, RequestKeeps
    <3> QED
      BY <2>5, <3>1, QueuedKept
  <2> QED
    BY <2>2, <2>3, <2>4, <2>6, <2>7 DEF Next
<1> QED
  BY <1>1, <1>2, WorkBefore

----------------------------------------------------------------------------
(* The queue                                                               *)

(* A queued attempt of a run that nobody cancelled was just added, or was  *)
(* queued before the step as well.                                         *)
LEMMA QueuedBefore ==
    ASSUME TypeOK, NumbersInv, KnownInv, RowInv, RunInv, [Next]_vars,
           NEW k \in Keys, IsQueued(PairOf(k))', Uncancelled(k[1])'
    PROVE  \/ api'.key = k /\ api'.pc \in NewPcs
           \/ IsQueued(PairOf(k)) /\ Uncancelled(k[1])
<1>1. PICK r \in Runs : r = k[1]
  BY KeyParts
<1>2. runs'[r] = "QUEUED" /\ rows'[k] = "QUEUED" /\ Uncancelled(r)'
  BY <1>1 DEF IsQueued, PairOf
<1>3. Uncancelled(r)
  BY <1>2, UncancelledBefore
<1>4. CASE RunStays(r)
  BY <1>1, <1>2, <1>3, <1>4 DEF RunStays, IsQueued, PairOf
<1>5. CASE RunCommits(r)
  BY <1>1, <1>2, <1>5 DEF RunCommits, New
<1>6. CASE RunGrows(r) /\ k # api'.key
  <2>1. rows[k] = "QUEUED"
    BY <1>2, <1>6 DEF RunGrows, TypeOK
  <2>2. runs[r] = "QUEUED" /\ Attempts(r) # {}
    BY <1>1, <1>3, <2>1, IsLast, StatusKinds DEF RunInv, Absent
  <2> QED
    BY <1>6, <2>2, StatusKinds DEF RunGrows
<1>7. CASE RunGrows(r) /\ k = api'.key
  BY <1>7 DEF RunGrows
<1> QED
  BY <1>2, <1>4, <1>5, <1>6, <1>7, RunStep

(* What is queued is remembered after every step.                          *)
LEMMA RememberedStep ==
    ASSUME TypeOK, TypeOK', QueueInv, QueueInv', NumbersInv, KnownInv, RowInv, RunInv,
           QueuedIsRemembered, [Next]_vars
    PROVE  QueuedIsRemembered'
<1> USE DEF ExecutePcs, EndingPcs, ReconcilePcs, NewPcs
<1> SUFFICES ASSUME wk'.serving \/ wk'.pc = "requeue", NEW k \in Keys,
                    IsQueued(PairOf(k))', Uncancelled(k[1])'
             PROVE  Remembered(k)'
  BY DEF QueuedIsRemembered
<1>1. Phases /\ Distinct /\ wk.todo \subseteq Keys
  BY DEF QueueInv, TypeOK, WorkerType
<1>2. CASE api'.key = k /\ api'.pc \in NewPcs
  BY <1>2 DEF Remembered
<1>3. CASE IsQueued(PairOf(k)) /\ Uncancelled(k[1])
  <2>1. wk.serving \/ At("requeue") => Remembered(k)
    BY <1>3 DEF QueuedIsRemembered
  <2>2. CASE Execute
    <3>1. CASE Get
      BY <2>1, <3>1, <1>1, GetStep DEF Phases, Remembered
    <3>2. CASE Done
      <4>1. k # wk.key
        BY <1>3, <3>2, DoneStep DEF RunInv, DoneRow, IsQueued, PairOf
      <4>2. wk.serving /\ At("done")
        BY <1>1, <3>2, DoneStep DEF Phases
      <4> QED
        BY <2>1, <3>2, <4>1, <4>2, DoneStep DEF Remembered
    <3>3. CASE ~ Get /\ ~ Done
      <4>1. WorksOn /\ UNCHANGED api
        BY <1>1, <2>2, <3>3, ExecuteWorks, ApiKept
      <4> QED
        BY <2>1, <4>1 DEF WorksOn, Remembered
    <3> QED
      BY <3>1, <3>2, <3>3
  <2>3. CASE Reconcile
    <3>1. ~ wk.serving /\ UNCHANGED api
      <4>1. wk.pc \in ReconcilePcs
        BY <2>3, ReadActiveStep, ListContainersStep, ListFailsStep, IdentityFailsStep,
           RestoreRecoveredStep, RestoreLostStep, RestoredStep, OrphanStopStep,
           OrphanRemoveStep, OrphanFailsStep, ReadQueuedStep, RequeueStep, ReconciledStep
           DEF Reconcile
      <4> QED
        BY <1>1, <2>3, <4>1, ApiKept DEF Phases
    <3>2. CASE ReadQueued
      <4>1. wk'.pc = "requeue" /\ wk'.todo = {l \in Keys : IsQueued(PairOf(l))}
        BY <3>2, ReadQueuedStep
      <4>2. k \in wk'.todo
        BY <1>3, <4>1
      <4> QED
        BY <4>1, <4>2 DEF Remembered
    <3>3. CASE Requeue
      <4>1. PICK j \in wk.todo : Enqueue(j, FALSE) /\ wk'.todo = wk.todo \ {j}
        BY <3>3, RequeueStep
      <4>2. /\ j \in Keys /\ (j \notin pending => ~ Waits(j))
            /\ wk.pc = "requeue" /\ wk'.pc = "requeue"
        BY <1>1, <3>3, <4>1, RequeueStep DEF QueueInv
      <4>3. pending' = pending \cup {j}
        BY <1>1, <4>1, <4>2, EnqueueStep
      <4> QED
        BY <2>1, <3>1, <4>1, <4>2, <4>3 DEF Remembered
    <3>4. CASE Reconciled
      BY <2>1, <3>1, <3>4, ReconciledStep DEF Remembered
    <3>5. CASE ~ (ReadQueued \/ Requeue \/ Reconciled)
      <4>1. ~ wk'.serving /\ wk'.pc # "requeue"
        BY <2>3, <3>1, <3>5, ReadActiveStep, ListContainersStep, ListFailsStep,
           IdentityFailsStep, RestoreRecoveredStep, RestoreLostStep, RestoredStep,
           OrphanStopStep, OrphanRemoveStep, OrphanFailsStep DEF Reconcile
      <4> QED
        BY <4>1
    <3> QED
      BY <3>2, <3>3, <3>4, <3>5
  <2>4. CASE Restart
    BY <2>4, RestartStep
  <2>5. CASE ApiEnqueue
    <3>1. /\ api.key \in Keys /\ (api.key \notin pending => ~ Waits(api.key))
          /\ Enqueue(api.key, FALSE) /\ UNCHANGED wk
      BY <2>5, ApiEnqueueStep DEF TypeOK, QueueInv
    <3>2. pending' = pending \cup {api.key}
      BY <1>1, <3>1, EnqueueStep
    <3> QED
      BY <2>1, <3>1, <3>2 DEF Remembered
  <2>6. ASSUME UNCHANGED <<wk, memory>>,
               api.pc \in NewPcs => api'.pc \in NewPcs /\ api'.key = api.key
        PROVE  Remembered(k)'
    BY <2>1, <2>6 DEF Remembered
  <2>7. CASE (Request \/ Handle) /\ ~ ApiEnqueue
    BY <2>6, <2>7, SubmitStep, CancelLoadStep, RetryLoadStep, PendingLoadStep,
       MarkPendingStep, CancelCommitStep, CancelStopStep, CancelRecordLoadStep,
       CancelRecordStep, RetryStep DEF Request, Handle
  <2>8. CASE (\E l \in Keys : ContainerExit(l)) \/ UNCHANGED vars
    BY <2>6, <2>8 DEF ContainerExit, vars
  <2> QED
    BY <2>2, <2>3, <2>4, <2>5, <2>7, <2>8 DEF Next
<1> QED
  BY <1>2, <1>3, QueuedBefore

----------------------------------------------------------------------------
(* The theorems                                                            *)

(* What the rows, the runs, the work items and the two threads agree on.   *)
AgreementInv ==
    Apart /\ RowInv /\ RunInv /\ WorkIsExpected /\ QueuedIsRemembered

(* The invariant holds at first.                                           *)
LEMMA AgreementInit == Init => AgreementInv
<1>1. Init => QueuedIsRemembered
  BY DEF Init, WorkerAt, QueuedIsRemembered
<1> QED
  BY <1>1, ApartInit, RowInvInit, RunInvInit, WorkInit DEF AgreementInv

(* Every step keeps it.                                                    *)
LEMMA AgreementStep == TaskInv /\ TaskInv' /\ AgreementInv /\ [Next]_vars => AgreementInv'
<1> SUFFICES ASSUME TaskInv, TaskInv', AgreementInv, [Next]_vars PROVE AgreementInv'
  OBVIOUS
<1>1. /\ TypeOK /\ QueueInv /\ NumbersInv /\ KnownInv /\ TypeOK' /\ QueueInv'
      /\ Apart /\ RowInv /\ RunInv /\ WorkIsExpected /\ QueuedIsRemembered
  BY DEF TaskInv, AgreementInv
<1>2. Apart' /\ RowInv' /\ RunInv'
  BY <1>1, ApartStep, RowInvStep, RunInvStep
<1>3. WorkIsExpected'
  BY <1>1, WorkStep
<1>4. QueuedIsRemembered'
  BY <1>1, RememberedStep
<1> QED
  BY <1>2, <1>3, <1>4 DEF AgreementInv

(* The invariant holds in every state.                                     *)
THEOREM AgreementHolds == Spec => []AgreementInv
<1> QED
  BY TaskCorrect, AgreementInit, AgreementStep, PTL DEF Spec

(* While no attempt of a run was cancelled, the run shows the status of its*)
(* last attempt, whatever snapshots the worker and the handlers commit over*)
(* (RunRepository: two columns, two threads, no transaction around them).  *)
THEOREM RunFollows == Spec => []RunFollowsLastAttempt
<1>1. AgreementInv => RunFollowsLastAttempt
  BY DEF AgreementInv, RunInv
<1> QED
  BY <1>1, AgreementHolds, PTL

(* After reconciliation the database shows no attempt at work that nobody  *)
(* works on, unless its run was cancelled (RunOrchestrator._reconcile).    *)
THEOREM WorkSupervised == Spec => []WorkIsSupervised
<1>1. TaskInv /\ AgreementInv => WorkIsSupervised
  <2> SUFFICES ASSUME TaskInv, AgreementInv, wk.serving, NEW k \in Keys,
                      rows[k] \in ActiveStatuses, Uncancelled(k[1])
               PROVE  Supervised(k)
    BY DEF WorkIsSupervised
  <2>1. WorkExpected(k) /\ Phases
    BY DEF AgreementInv, WorkIsExpected, TaskInv, QueueInv
  <2>2. QueuedAgain(k) \/ Serves(k)
    BY <2>1 DEF WorkExpected, Phases, Serves, ToRestore, ReconcilePcs, ExecutePcs, EndingPcs
  <2> QED
    BY <2>2 DEF Supervised, QueuedAgain, Serves
<1> QED
  BY <1>1, TaskCorrect, AgreementHolds, PTL

(* A queued attempt is in the worker's queue, or on its way there, unless  *)
(* its run was cancelled (RunOrchestrator.enqueue and _reconcile).         *)
THEOREM QueuedRemembered == Spec => []QueuedIsRemembered
<1>1. AgreementInv => QueuedIsRemembered
  BY DEF AgreementInv
<1> QED
  BY <1>1, AgreementHolds, PTL

(* No step changes the row of an attempt that ended unless a cancellation  *)
(* of it was requested, then or before: without one no commit of the       *)
(* worker or of RunRepository.request_cancel is late.                      *)
THEOREM ReopenedByCancel == Spec => ReopenedOnlyByCancel
<1>1. TaskInv /\ AgreementInv /\ [Next]_vars =>
          [\A k \in Keys : rows[k] \in TerminalStatuses /\ rows'[k] # rows[k]
                              => k \in cancels']_vars
  <2> SUFFICES ASSUME TaskInv, AgreementInv, [Next]_vars, NEW k \in Keys,
                      rows[k] \in TerminalStatuses, rows'[k] # rows[k], k \notin cancels'
               PROVE  FALSE
    OBVIOUS
  <2>1. TypeOK /\ NumbersInv /\ KnownInv /\ RowInv /\ k \notin cancels
    BY CancelsGrow DEF TaskInv, AgreementInv
  <2>2. RowStays(k) \/ RowIsNew(k) \/ RowWorks(k) \/ RowEnds(k)
    BY <2>1, RowStep DEF RowInv
  <2>3. ~ Claims(k)
    BY <2>1, StatusKinds DEF RowInv, SeenRow, SeenPcs, KnownInv, IsQueued, Claims
  <2>4. Proceeds(k) \/ Finishes(k) => MustWork(k)
    BY DEF Proceeds, Finishes, MustWork, AtWork, ExecutePcs, EndingPcs, BeforeClaim, Ended
  <2>5. ~ Proceeds(k) /\ ~ Finishes(k)
    BY <2>1, <2>4, StatusKinds DEF RowInv
  <2> QED
    BY <2>2, <2>3, <2>5, StatusKinds DEF RowStays, RowIsNew, RowWorks, RowEnds
<1> QED
  BY <1>1, TaskCorrect, AgreementHolds, PTL DEF Spec, ReopenedOnlyByCancel

=============================================================================
