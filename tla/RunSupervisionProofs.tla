------------------------ MODULE RunSupervisionProofs ------------------------
(***************************************************************************)
(* No runner of RunLifecycle is left without somebody who ends it, and the *)
(* orchestrator implements RunnerSlot, for every set of runs and every     *)
(* bound, while Docker lists, recovers and stops what it is asked to.      *)
(***************************************************************************)
EXTENDS RunLifecycleProofs

USE LifecycleAssumption, StagesAreWorkingStatuses
USE DEF At, ApiAt, db, docker, memory, Moves, SameTask, SameSets, SameResult,
        SameHeld, SameSeen, InMemory, ApiMoves, SameRequest,
        BoxStays, BoxCreated, BoxStarted, BoxStopped, BoxRemoved

(* The calls that reconciliation, recovery and cleanup rest on do not fail.*)
DockerAnswers == {"list", "recover", "stop"} \cap FaultKinds = {}

----------------------------------------------------------------------------
(* The invariant                                                           *)

Over == {"cleanup_remove", "cleanup_result"} \cup EndingPcs \cup {"done"}
HeldPcs == {"running_load", "running", "discard", "start", "stream", "stage"}

(* Where the worker may leave its attempt, no container of it runs.        *)
WorkerHolds ==
    /\ wk.pc \in HeldPcs => wk.held
    /\ At("failed") /\ ~ wk.held => box[wk.key] # "running"
    /\ wk.pc \in Over \cup {"claim_load", "claim", "create"} => box[wk.key] # "running"

(* Reconciliation is over the list of containers, not yet over the         *)
(* attempts.                                                               *)
Restoring == At("restore") \/ (wk.pc \in EndingPcs /\ ~ wk.serving)

(* What is about to be given up, or claimed as new, does not run.          *)
IdleIsNotRunning ==
    /\ Restoring => \A k \in wk.todo \ wk.recover : box[k] # "running"
    /\ \A k \in Keys : QueuedNew(k) => box[k] # "running"
    /\ At("requeue") => \A k \in wk.todo : box[k] # "running"
    /\ api.pc \in {"pending_load", "pending", "enqueue"} /\ box[api.key] = "running"
         => api.key \in pending

(* What a running container is waiting for.                                *)
Expected(k) ==
    \/ QueuedAgain(k)
    \/ Restoring /\ k \in (wk.todo \cap wk.recover) \cup wk.orphans
    \/ At("orphans") /\ k \in wk.todo
    \/ Serves(k)
    \/ wk.pc \in {"reconcile", "list", "dead"}

RunningIsExpected == \A k \in Keys : box[k] = "running" => Expected(k)

SupervisionInv == WorkerHolds /\ IdleIsNotRunning /\ RunningIsExpected

----------------------------------------------------------------------------
(* It is inductive                                                         *)

(* Nothing runs at first.                                                  *)
LEMMA SupervisionInit == Init => SupervisionInv
<1>1. Init => Len(queue) = 0
  BY EmptySeq DEF Init
<1> QED
  BY <1>1 DEF Init, SupervisionInv, WorkerHolds, IdleIsNotRunning, RunningIsExpected,
              WorkerAt, ApiIdle, Over, HeldPcs, EndingPcs, QueuedNew, Restoring

(* A container that runs was running, or the worker just started it.       *)
LEMMA RunningBefore ==
    ASSUME TypeOK, SuccessIsEarned, [Next]_vars, NEW k \in Keys, box'[k] = "running"
    PROVE  box[k] = "running" \/ BoxStarted(k)
BY BoxStep DEF BoxMoves

(* Before the worker leaves its attempt it has seen the container end.     *)
LEMMA HoldsStep ==
    ASSUME TaskInv, SupervisionInv, DockerAnswers, [Next]_vars
    PROVE  WorkerHolds'
<1> USE DEF ExecutePcs, EndingPcs, Over, HeldPcs
<1>1. /\ TypeOK /\ SuccessIsEarned /\ Phases /\ Distinct /\ BoxInv
      /\ WorkerHolds /\ IdleIsNotRunning
      /\ wk.pc \in ExecutePcs => wk.key \in Keys
  BY DEF TaskInv, SupervisionInv, TypeOK, QueueInv
<1>2. ASSUME UNCHANGED wk PROVE WorkerHolds'
  BY <1>1, <1>2, RunningBefore DEF WorkerHolds
<1>3. CASE Reconcile
  <2>1. CASE RestoreLost
    <3>1. PICK k \in wk.todo \ wk.recover : wk'.key = k
      BY <1>1, <2>1, RestoreLostStep
    <3>2. k \in Keys /\ box[k] # "running" /\ box' = box
      BY <1>1, <2>1, <3>1, RestoreLostStep
         DEF IdleIsNotRunning, Restoring, TypeOK, WorkerType
    <3> QED
      BY <1>1, <2>1, <3>1, <3>2, RestoreLostStep DEF WorkerHolds
  <2>2. CASE OrphanStop
    BY <1>1, <1>2, <2>2, OrphanStopStep
  <2>3. CASE ~ RestoreLost /\ ~ OrphanStop
    <3>1. wk'.pc \in ReconcilePcs \cup {"idle", "dead"}
      BY <1>1, <1>3, <2>3, ReadActiveStep, ListContainersStep, ListFailsStep,
         IdentityFailsStep, RestoreRecoveredStep, RestoredStep, OrphanRemoveStep,
         OrphanFailsStep, ReadQueuedStep, RequeueStep, ReconciledStep
         DEF Reconcile, ReconcilePcs
    <3> QED
      BY <3>1 DEF WorkerHolds, ReconcilePcs
  <2> QED
    BY <2>1, <2>2, <2>3
<1>4. CASE Execute
  <2>1. CASE Get
    <3>1. /\ Head(queue).key \in Keys
          /\ ~ Head(queue).recover => QueuedNew(Head(queue).key)
      BY <1>1, <2>1, GetStep, DequeueStep DEF Items
    <3>2. wk'.pc = "claim_load" => box'[wk'.key] # "running"
      BY <1>1, <2>1, <3>1, GetStep DEF IdleIsNotRunning
    <3>3. wk'.pc \in {"claim_load", "recover"}
      BY <1>1, <2>1, GetStep
    <3> QED
      BY <3>2, <3>3 DEF WorkerHolds
  <2>2. CASE RecoverFails
    <3>1. box[wk.key] # "running"
      BY <1>1, <2>2, RecoverFailsStep DEF DockerAnswers, CanRecover, BoxInv, Present
    <3> QED
      BY <1>1, <2>2, <3>1, RecoverFailsStep DEF WorkerHolds
  <2>3. CASE Recover \/ RunningLoad \/ StageEvent \/ SetStage
    BY <1>1, <2>3, RecoverStep, RunningLoadStep, StageEventStep, SetStageStep
       DEF WorkerHolds
  <2>4. CASE ClaimLoad \/ Claim \/ CreateFails \/ CleanupResult \/ FinishLoad \/ Finish
             \/ RecordLoad \/ Record
    BY <1>1, <2>4, ClaimLoadStep, ClaimStep, CreateFailsStep, CleanupResultStep,
       FinishLoadStep, FinishStep, RecordLoadStep, RecordStep DEF WorkerHolds
  <2>5. CASE Create \/ SetRunning \/ Start
    BY <1>1, <2>5, CreateStep, SetRunningStep, StartStep DEF WorkerHolds
  <2>6. CASE Discard
    <3>1. box'[wk.key] # "running"
      BY <1>1, <2>6, DiscardStep, RemoveMoves
    <3> QED
      BY <1>1, <2>6, <3>1, DiscardStep DEF WorkerHolds
  <2>7. CASE Remove
    <3>1. box'[wk.key] # "running"
      BY <1>1, <2>7, RemoveStep, RemoveMoves
    <3> QED
      BY <1>1, <2>7, <3>1, RemoveStep DEF WorkerHolds
  <2>8. CASE LogEnds
    BY <1>1, <2>8, LogEndsStep DEF WorkerHolds
  <2>9. CASE Collect \/ Check
    BY <1>1, <2>9, CollectStep, CheckStep DEF WorkerHolds, SuccessIsEarned, HoldsExited
  <2>10. CASE DockerStepFails
    <3>1. wk.pc # "remove" => wk.held
      BY <1>1, <2>10, DockerStepFailsStep DEF WorkerHolds
    <3>2. wk.pc = "remove" => box[wk.key] = "exited"
      BY <1>1 DEF SuccessIsEarned, HoldsExited
    <3> QED
      BY <1>1, <2>10, <3>1, <3>2, DockerStepFailsStep DEF WorkerHolds
  <2>11. CASE HandleFailure
    BY <1>1, <2>11, HandleFailureStep DEF WorkerHolds
  <2>12. CASE CleanupStop
    <3>1. box'[wk.key] # "running"
      BY <1>1, <2>12, CleanupStopStep, StopMoves DEF DockerAnswers
    <3> QED
      BY <1>1, <2>12, <3>1, CleanupStopStep DEF WorkerHolds
  <2>13. CASE CleanupRemove
    <3>1. box'[wk.key] # "running"
      BY <1>1, <2>13, CleanupRemoveStep, RemoveMoves DEF WorkerHolds
    <3> QED
      BY <1>1, <2>13, <3>1, CleanupRemoveStep DEF WorkerHolds
  <2>14. CASE Done
    BY <2>14, <1>1, DoneStep DEF WorkerHolds
  <2> QED
    BY <1>4, <2>1, <2>2, <2>3, <2>4, <2>5, <2>6, <2>7, <2>8, <2>9, <2>10, <2>11, <2>12,
       <2>13, <2>14 DEF Execute
<1>5. CASE Restart
  BY <1>5, RestartStep DEF WorkerHolds
<1>6. Request \/ Handle \/ (\E k \in Keys : ContainerExit(k)) \/ UNCHANGED vars
        => UNCHANGED wk
  BY DEF Request, Submit, CancelLoad, RetryLoad, Handle, PendingLoad, MarkPending,
     ApiEnqueue, CancelCommit, CancelStop, CancelRecordLoad, CancelRecord, Retry,
     ContainerExit, vars
<1> QED
  BY <1>2, <1>3, <1>4, <1>5, <1>6 DEF Next

(* A step that gives up no other attempt, and adds a work item, a request  *)
(* or forgets a pending attempt only where nothing runs.                   *)
LEMMA IdleKept ==
    ASSUME TypeOK, SuccessIsEarned, QueueInv, IdleIsNotRunning, [Next]_vars,
           Restoring' => Restoring /\ wk'.todo \ wk'.recover \subseteq wk.todo \ wk.recover,
           wk'.pc = "requeue" => wk.pc = "requeue" /\ wk'.todo \subseteq wk.todo,
           \A k \in Keys : QueuedNew(k)' => QueuedNew(k) \/ box'[k] # "running",
           \A k \in Keys : k \in pending => k \in pending' \/ box'[k] # "running",
           \/ api'.pc \notin {"pending_load", "pending", "enqueue"}
           \/ api.pc \in {"pending_load", "pending", "enqueue"} /\ api'.key = api.key
           \/ box'[api'.key] # "running"
    PROVE  IdleIsNotRunning'
<1> USE DEF ExecutePcs, EndingPcs
<1>1. wk.todo \subseteq Keys /\ (api.pc # "idle" => api.key \in Keys)
  BY DEF TypeOK, WorkerType
<1>2. ASSUME NEW k \in Keys, box'[k] = "running"
      PROVE  \/ box[k] = "running"
             \/ wk'.pc = "stream" /\ k \in pending /\ ~ QueuedNew(k)
  <2>1. box[k] = "running" \/ BoxStarted(k)
    BY <1>2, RunningBefore
  <2>2. At("start") => wk.serving
    BY DEF QueueInv, Phases
  <2>3. Serves(k) => k \in pending /\ ~ QueuedNew(k)
    BY DEF QueueInv, Waits
  <2> QED
    BY <2>1, <2>2, <2>3 DEF Serves
<1>3. ASSUME Restoring', NEW k \in wk'.todo \ wk'.recover
      PROVE  box'[k] # "running"
  BY <1>1, <1>2, <1>3 DEF IdleIsNotRunning, Restoring
<1>4. ASSUME NEW k \in Keys, QueuedNew(k)' PROVE box'[k] # "running"
  <2>1. QueuedNew(k) \/ box'[k] # "running"
    BY <1>4
  <2> QED
    BY <1>2, <2>1 DEF IdleIsNotRunning
<1>5. ASSUME wk'.pc = "requeue", NEW k \in wk'.todo PROVE box'[k] # "running"
  BY <1>1, <1>2, <1>5 DEF IdleIsNotRunning
<1>6. ASSUME api'.pc \in {"pending_load", "pending", "enqueue"}, box'[api'.key] = "running"
      PROVE  api'.key \in pending'
  <2>1. /\ api.pc \in {"pending_load", "pending", "enqueue"}
        /\ api'.key = api.key /\ api.key \in Keys
    BY <1>1, <1>6
  <2>2. api.key \in pending
    BY <1>2, <1>6, <2>1 DEF IdleIsNotRunning
  <2> QED
    BY <1>6, <2>1, <2>2
<1> QED
  BY <1>3, <1>4, <1>5, <1>6 DEF IdleIsNotRunning

(* Work items stay while the queue is the same.                            *)
LEMMA QueuedKept ==
    ASSUME queue' = queue, NEW k
    PROVE  (QueuedNew(k)' <=> QueuedNew(k)) /\ (QueuedAgain(k)' <=> QueuedAgain(k))
BY DEF QueuedNew, QueuedAgain

(* The steps of the worker that are not reconciliation leave the handlers  *)
(* alone.                                                                  *)
LEMMA ApiKept == ASSUME Execute \/ Reconcile PROVE UNCHANGED api
BY DEF Execute, Get, Recover, RecoverFails, ClaimLoad, Claim, Create, CreateFails,
       RunningLoad, SetRunning, Discard, Start, StageEvent, SetStage, LogEnds, Collect,
       Check, Remove, DockerStepFails, HandleFailure, CleanupStop, CleanupRemove,
       CleanupResult, FinishLoad, Finish, RecordLoad, Record, Done,
       Reconcile, ReadActive, ListContainers, ListFails, IdentityFails,
       RestoreRecovered, RestoreLost, Restored, OrphanStop, OrphanRemove, OrphanFails,
       ReadQueued, Requeue, Reconciled

(* A request leaves the worker alone; only its last step touches the queue.*)
LEMMA RequestKeeps ==
    ASSUME Request \/ Handle \/ (\E k \in Keys : ContainerExit(k)) \/ UNCHANGED vars
    PROVE  UNCHANGED wk /\ (~ ApiEnqueue => UNCHANGED memory)
BY DEF Request, Submit, CancelLoad, RetryLoad, Handle, PendingLoad, MarkPending,
       ApiEnqueue, CancelCommit, CancelStop, CancelRecordLoad, CancelRecord, Retry,
       ContainerExit, vars

(* Nothing that is about to be given up, or claimed, begins to run.        *)
LEMMA IdleStep ==
    ASSUME TaskInv, SupervisionInv, DockerAnswers, [Next]_vars
    PROVE  IdleIsNotRunning'
<1> USE DEF ExecutePcs, EndingPcs
<1>1. /\ TypeOK /\ SuccessIsEarned /\ Phases /\ Distinct /\ BoxInv /\ QueueInv
      /\ NumbersInv /\ WorkerHolds /\ IdleIsNotRunning
      /\ wk.pc \in ExecutePcs => wk.key \in Keys
      /\ wk.todo \subseteq Keys
  BY DEF TaskInv, SupervisionInv, TypeOK, QueueInv, WorkerType
<1>2. CASE Execute
  <2>1. UNCHANGED api /\ Next
    BY <1>2, ApiKept DEF Next
  <2>2. CASE Get
    <3>1. \A k \in Keys : QueuedNew(k)' => QueuedNew(k)
      BY <1>1, <2>2, GetStep, DequeueStep
    <3>2. pending' = pending /\ ~ Restoring' /\ wk'.pc # "requeue"
      BY <1>1, <2>2, GetStep DEF Restoring
    <3> QED
      BY <1>1, <2>1, <3>1, <3>2, IdleKept
  <2>3. CASE Done
    <3>1. /\ pending' = pending \ {wk.key} /\ box'[wk.key] # "running" /\ queue' = queue
          /\ wk'.pc = "idle"
      BY <1>1, <2>3, DoneStep DEF WorkerHolds, Over
    <3> QED
      BY <1>1, <2>1, <3>1, QueuedKept, IdleKept DEF Restoring
  <2>4. CASE ~ Get /\ ~ Done
    <3>1. WorksOn
      BY <1>1, <1>2, <2>4, ExecuteWorks
    <3>2. /\ Restoring' => Restoring /\ wk'.todo \ wk'.recover = wk.todo \ wk.recover
          /\ wk'.pc # "requeue" /\ UNCHANGED memory
      BY <1>1, <3>1 DEF WorksOn, Restoring, Phases
    <3> QED
      BY <1>1, <2>1, <3>2, QueuedKept, IdleKept
  <2> QED
    BY <2>2, <2>3, <2>4
<1>3. CASE Reconcile
  <2>1. UNCHANGED api /\ Next
    BY <1>3, ApiKept DEF Next
  <2>2. CASE ListContainers
    <3>1. ASSUME NEW k \in wk'.todo \ wk'.recover PROVE box'[k] # "running"
      BY <1>1, <2>2, <3>1, ListContainersStep DEF BoxInv, Present
    <3>2. wk'.pc = "restore" /\ UNCHANGED <<docker, memory>>
      BY <1>1, <2>2, ListContainersStep
    <3> QED
      BY <1>1, <2>1, <3>1, <3>2, QueuedKept DEF IdleIsNotRunning
  <2>3. CASE RestoreRecovered
    <3>1. PICK k \in wk.todo : Enqueue(k, TRUE) /\ wk'.todo = wk.todo \ {k}
      BY <1>1, <2>3, RestoreRecoveredStep
    <3>2. k \in Keys /\ (k \notin pending => ~ Waits(k))
      BY <1>1, <3>1 DEF QueueInv
    <3>3. pending' = pending \cup {k} /\ \A l \in Keys : QueuedNew(l)' => QueuedNew(l)
      BY <1>1, <3>1, <3>2, EnqueueStep
    <3>4. wk.pc = "restore" /\ wk'.pc = "restore" /\ wk'.recover = wk.recover
      BY <1>1, <2>3, RestoreRecoveredStep
    <3>5. Restoring /\ wk'.todo \ wk'.recover \subseteq wk.todo \ wk.recover
      BY <3>1, <3>4 DEF Restoring
    <3> QED
      BY <1>1, <2>1, <3>3, <3>4, <3>5, IdleKept
  <2>4. CASE RestoreLost
    BY <1>1, <2>1, <2>4, RestoreLostStep, QueuedKept, IdleKept DEF Restoring
  <2>5. CASE ReadQueued
    <3>1. ASSUME NEW k \in wk'.todo PROVE box'[k] # "running"
      BY <1>1, <2>5, <3>1, ReadQueuedStep DEF IsQueued, PairOf, BoxInv, New
    <3>2. wk'.pc = "requeue" /\ UNCHANGED <<docker, memory>>
      BY <1>1, <2>5, ReadQueuedStep
    <3> QED
      BY <1>1, <2>1, <3>1, <3>2, QueuedKept DEF IdleIsNotRunning, Restoring
  <2>6. CASE Requeue
    <3>1. PICK k \in wk.todo : Enqueue(k, FALSE) /\ wk'.todo = wk.todo \ {k}
      BY <1>1, <2>6, RequeueStep
    <3>2. /\ k \in Keys /\ (k \notin pending => ~ Waits(k))
          /\ wk.pc = "requeue" /\ wk'.pc = "requeue" /\ box' = box
      BY <1>1, <2>6, <3>1, RequeueStep DEF QueueInv
    <3>3. /\ pending' = pending \cup {k}
          /\ \A l \in Keys : QueuedNew(l)' => QueuedNew(l) \/ l = k
      BY <1>1, <3>1, <3>2, EnqueueStep
    <3>4. box'[k] # "running"
      BY <1>1, <3>1, <3>2 DEF IdleIsNotRunning
    <3> QED
      BY <1>1, <2>1, <3>1, <3>2, <3>3, <3>4, IdleKept DEF Restoring
  <2>7. CASE ReadActive \/ IdentityFails \/ Restored \/ OrphanRemove \/ OrphanFails
             \/ Reconciled
    <3>1. wk'.pc \in {"list", "dead", "orphans", "idle"} /\ UNCHANGED memory
      BY <1>1, <2>7, ReadActiveStep, IdentityFailsStep, RestoredStep, OrphanRemoveStep,
         OrphanFailsStep, ReconciledStep
    <3> QED
      BY <1>1, <2>1, <3>1, QueuedKept, IdleKept DEF Restoring
  <2>8. CASE OrphanStop
    <3>1. UNCHANGED <<wk, memory>>
      BY <1>1, <2>8, OrphanStopStep
    <3> QED
      BY <1>1, <2>1, <3>1, QueuedKept, IdleKept DEF Restoring
  <2>9. CASE ListFails
    BY <1>1, <2>9, ListFailsStep DEF DockerAnswers
  <2> QED
    BY <1>3, <2>2, <2>3, <2>4, <2>5, <2>6, <2>7, <2>8, <2>9 DEF Reconcile
<1>4. CASE ApiEnqueue
  <2>1. /\ api.key \in Keys /\ (api.key \notin pending => ~ Waits(api.key))
        /\ Enqueue(api.key, FALSE) /\ UNCHANGED <<box, wk>>
        /\ api.pc = "enqueue" /\ api'.pc = "idle"
    BY <1>1, <1>4, ApiEnqueueStep DEF TypeOK, QueueInv
  <2>2. /\ pending' = pending \cup {api.key}
        /\ \A l \in Keys : QueuedNew(l)' =>
               QueuedNew(l) \/ (api.key \notin pending /\ l = api.key)
    BY <1>1, <2>1, EnqueueStep
  <2>3. api.key \notin pending => box'[api.key] # "running"
    BY <1>1, <2>1 DEF IdleIsNotRunning
  <2> QED
    BY <1>1, <2>1, <2>2, <2>3, IdleKept DEF Restoring
<1>5. ASSUME NEW r \in Runs, Submit(r) PROVE IdleIsNotRunning'
  <2>1. /\ rows[<<r, 1>>] = Absent /\ <<r, 1>> \in Keys /\ api'.key = <<r, 1>>
        /\ UNCHANGED <<docker, memory, wk>>
    BY <1>1, <1>5, RowsSubmit, SubmitStep
  <2>2. box'[api'.key] # "running"
    BY <1>1, <2>1 DEF BoxInv, New
  <2> QED
    BY <1>1, <2>1, <2>2, QueuedKept, IdleKept DEF Restoring
<1>6. CASE Retry
  <2>1. /\ rows[api.key] = Absent /\ api.key \in Keys /\ api'.key = api.key
        /\ UNCHANGED <<docker, memory, wk>>
    BY <1>1, <1>6, RowsRetry, RetryStep
  <2>2. box'[api'.key] # "running"
    BY <1>1, <2>1 DEF BoxInv, New
  <2> QED
    BY <1>1, <2>1, <2>2, QueuedKept, IdleKept DEF Restoring
<1>7. CASE Restart
  <2>1. Len(queue') = 0
    BY <1>7, RestartStep, EmptySeq
  <2> QED
    BY <1>7, <2>1, RestartStep DEF IdleIsNotRunning, Restoring, QueuedNew
<1>8. ASSUME UNCHANGED <<wk, memory>>,
             \/ api'.pc \notin {"pending_load", "pending", "enqueue"}
             \/ api.pc \in {"pending_load", "pending", "enqueue"} /\ api'.key = api.key
      PROVE  IdleIsNotRunning'
  BY <1>1, <1>8, QueuedKept, IdleKept DEF Restoring
<1>9. CASE Handle /\ ~ ApiEnqueue /\ ~ Retry
  BY <1>1, <1>8, <1>9, PendingLoadStep, MarkPendingStep, CancelCommitStep, CancelStopStep,
     CancelRecordLoadStep, CancelRecordStep DEF Handle
<1>10. ASSUME NEW r \in Runs, CancelLoad(r) \/ RetryLoad(r) PROVE IdleIsNotRunning'
  BY <1>1, <1>8, <1>10, CancelLoadStep, RetryLoadStep
<1>11. CASE (\E k \in Keys : ContainerExit(k)) \/ UNCHANGED vars
  BY <1>8, <1>11 DEF ContainerExit, vars
<1> QED
  BY <1>2, <1>3, <1>4, <1>5, <1>6, <1>7, <1>9, <1>10, <1>11 DEF Next, Request

(* What runs is waited for after every step.                               *)
LEMMA ExpectedStep ==
    ASSUME TaskInv, SupervisionInv, DockerAnswers, [Next]_vars
    PROVE  RunningIsExpected'
<1> USE DEF ExecutePcs, EndingPcs
<1>1. /\ TypeOK /\ SuccessIsEarned /\ Phases /\ Distinct /\ BoxInv /\ QueueInv
      /\ WorkerHolds /\ IdleIsNotRunning /\ RunningIsExpected
      /\ wk.pc \in ExecutePcs => wk.key \in Keys
      /\ wk.todo \subseteq Keys
  BY DEF TaskInv, SupervisionInv, TypeOK, QueueInv, WorkerType
<1> SUFFICES ASSUME NEW k \in Keys, box'[k] = "running"
             PROVE  Expected(k)'
  BY DEF RunningIsExpected
<1>2. box[k] = "running" \/ BoxStarted(k)
  BY <1>1, RunningBefore
<1>3. box[k] = "running" => Expected(k)
  BY <1>1 DEF RunningIsExpected
<1>4. ASSUME UNCHANGED wk, box[k] = "running", QueuedAgain(k) => QueuedAgain(k)'
      PROVE  Expected(k)'
  BY <1>3, <1>4 DEF Expected, Restoring, Serves
<1>5. CASE Execute
  <2>1. CASE Get
    <3>1. /\ box[k] = "running" /\ wk.serving
          /\ QueuedAgain(k)' <=> QueuedAgain(k) /\ k # Head(queue).key
      BY <1>1, <1>2, <2>1, GetStep, DequeueStep DEF Phases
    <3>2. QueuedAgain(k)
      BY <1>3, <2>1, <3>1, GetStep, <1>1 DEF Expected, Restoring, Serves
    <3>3. CASE k = Head(queue).key
      BY <1>1, <2>1, <3>1, <3>3, GetStep DEF Expected, Serves
    <3> QED
      BY <3>1, <3>2, <3>3 DEF Expected
  <2>2. CASE Done
    <3>1. box' = box /\ box[wk.key] # "running" /\ queue' = queue /\ wk.pc = "done"
      BY <1>1, <2>2, DoneStep DEF WorkerHolds, Over
    <3>2. QueuedAgain(k)
      BY <1>3, <3>1 DEF Expected, Restoring, Serves
    <3> QED
      BY <3>1, <3>2, QueuedKept DEF Expected
  <2>3. CASE ~ Get /\ ~ Done
    <3>1. WorksOn
      BY <1>1, <1>5, <2>3, ExecuteWorks
    <3>2. CASE BoxStarted(k)
      BY <3>1, <3>2, <1>1 DEF WorksOn, Expected, Serves, Phases
    <3>3. CASE box[k] = "running"
      <4>1. CASE QueuedAgain(k)
        BY <3>1, <4>1, QueuedKept DEF WorksOn, Expected
      <4>2. CASE Restoring /\ k \in (wk.todo \cap wk.recover) \cup wk.orphans
        BY <1>1, <3>1, <4>2 DEF WorksOn, Expected, Restoring, Phases
      <4>3. CASE Serves(k)
        BY <3>1, <4>3 DEF WorksOn, Expected, Serves
      <4> QED
        BY <1>3, <3>1, <3>3, <4>1, <4>2, <4>3 DEF Expected, WorksOn
    <3> QED
      BY <1>2, <3>2, <3>3
  <2> QED
    BY <2>1, <2>2, <2>3
<1>6. CASE Reconcile
  <2>1. wk.pc \in ReconcilePcs /\ ~ Serves(k) /\ box[k] = "running" /\ Expected(k)
    BY <1>1, <1>2, <1>3, <1>6, ReadActiveStep, ListContainersStep, ListFailsStep,
       IdentityFailsStep, RestoreRecoveredStep, RestoreLostStep, RestoredStep,
       OrphanStopStep, OrphanRemoveStep, OrphanFailsStep, ReadQueuedStep, RequeueStep,
       ReconciledStep
       DEF Reconcile, ReconcilePcs, Phases, Serves
  <2>2. CASE ReadActive \/ IdentityFails
    BY <1>1, <2>2, ReadActiveStep, IdentityFailsStep DEF Expected
  <2>3. CASE ListContainers
    <3>1. k \in recorded /\ box[k] \in Present
      BY <1>1, <2>1 DEF BoxInv, Present
    <3>2. wk'.pc = "restore" /\ k \in (wk'.todo \cap wk'.recover) \cup wk'.orphans
      BY <1>1, <2>3, <3>1, ListContainersStep
    <3> QED
      BY <3>2 DEF Expected, Restoring
  <2>4. CASE ListFails
    BY <1>1, <2>4, ListFailsStep DEF DockerAnswers
  <2>5. CASE RestoreRecovered
    <3>1. PICK j \in wk.todo : Enqueue(j, TRUE) /\ wk'.todo = wk.todo \ {j}
      BY <1>1, <2>5, RestoreRecoveredStep
    <3>2. j \in Keys /\ (j \notin pending => ~ Waits(j))
      BY <1>1, <3>1 DEF QueueInv
    <3>3. QueuedAgain(k)' <=> QueuedAgain(k) \/ (j \notin pending /\ k = j)
      BY <1>1, <3>1, <3>2, EnqueueStep
    <3>4. wk.pc = "restore" /\ wk'.pc = "restore" /\ wk'.recover = wk.recover
          /\ wk'.orphans = wk.orphans
      BY <1>1, <2>5, RestoreRecoveredStep
    <3>5. CASE k = j
      <4>1. j \in pending => QueuedAgain(j)
        BY <1>1, <2>1, <3>2, <3>5 DEF QueueInv, Waits, IdleIsNotRunning
      <4> QED
        BY <3>3, <3>5, <4>1 DEF Expected
    <3>6. CASE k # j
      BY <2>1, <3>1, <3>3, <3>4, <3>6 DEF Expected, Restoring
    <3> QED
      BY <3>5, <3>6
  <2>6. CASE RestoreLost
    <3>1. PICK j \in wk.todo \ wk.recover : wk'.todo = wk.todo \ {j}
      BY <1>1, <2>6, RestoreLostStep
    <3>2. /\ wk.pc = "restore" /\ wk'.pc = "finish_load" /\ ~ wk'.serving
          /\ wk'.recover = wk.recover /\ wk'.orphans = wk.orphans /\ queue' = queue
      BY <1>1, <2>6, RestoreLostStep DEF Phases, ReconcilePcs
    <3> QED
      BY <2>1, <3>1, <3>2, QueuedKept DEF Expected, Restoring
  <2>7. CASE Restored
    BY <1>1, <2>1, <2>7, RestoredStep, QueuedKept DEF Expected, Restoring
  <2>8. CASE OrphanStop
    BY <1>1, <1>4, <2>1, <2>8, OrphanStopStep, QueuedKept
  <2>9. CASE OrphanRemove
    <3>1. PICK j \in wk.todo : RemoveContainer(j) /\ wk'.todo = wk.todo \ {j}
      BY <1>1, <2>9, OrphanRemoveStep
    <3>2. k # j
      BY <1>1, <3>1, RemoveMoves
    <3>3. wk.pc = "orphans" /\ wk'.pc = "orphans" /\ queue' = queue
      BY <1>1, <2>9, OrphanRemoveStep
    <3> QED
      BY <2>1, <3>1, <3>2, <3>3, QueuedKept DEF Expected, Restoring
  <2>10. CASE OrphanFails
    <3>1. PICK j \in wk.todo : wk'.todo = wk.todo \ {j} /\ box[j] # "running"
      BY <1>1, <2>10, OrphanFailsStep DEF DockerAnswers
    <3>2. wk.pc = "orphans" /\ wk'.pc = "orphans" /\ queue' = queue
      BY <1>1, <2>10, OrphanFailsStep
    <3> QED
      BY <2>1, <3>1, <3>2, QueuedKept DEF Expected, Restoring
  <2>11. CASE ReadQueued
    <3>1. wk.todo = {} /\ wk.pc = "orphans" /\ queue' = queue
      BY <2>11 DEF ReadQueued
    <3> QED
      BY <2>1, <3>1, QueuedKept DEF Expected, Restoring
  <2>12. CASE Requeue
    <3>1. PICK j \in wk.todo : Enqueue(j, FALSE)
      BY <1>1, <2>12, RequeueStep
    <3>2. j \in Keys /\ (j \notin pending => ~ Waits(j))
      BY <1>1, <3>1 DEF QueueInv
    <3>3. QueuedAgain(k)' <=> QueuedAgain(k)
      BY <1>1, <3>1, <3>2, EnqueueStep
    <3>4. wk.pc = "requeue"
      BY <1>1, <2>12, RequeueStep
    <3> QED
      BY <2>1, <3>3, <3>4 DEF Expected, Restoring
  <2>13. CASE Reconciled
    <3>1. wk.pc = "requeue" /\ queue' = queue
      BY <1>1, <2>13, ReconciledStep
    <3> QED
      BY <2>1, <3>1, QueuedKept DEF Expected, Restoring
  <2> QED
    BY <1>6, <2>2, <2>3, <2>4, <2>5, <2>6, <2>7, <2>8, <2>9, <2>10, <2>11, <2>12, <2>13
       DEF Reconcile
<1>7. CASE ApiEnqueue
  <2>1. /\ api.key \in Keys /\ (api.key \notin pending => ~ Waits(api.key))
        /\ Enqueue(api.key, FALSE) /\ UNCHANGED <<box, wk>>
    BY <1>1, <1>7, ApiEnqueueStep DEF TypeOK, QueueInv
  <2>2. QueuedAgain(k)' <=> QueuedAgain(k)
    BY <1>1, <2>1, EnqueueStep
  <2> QED
    BY <1>2, <1>4, <2>1, <2>2
<1>8. CASE Restart
  BY <1>8, RestartStep DEF Expected
<1>9. CASE (Request \/ Handle \/ (\E l \in Keys : ContainerExit(l)) \/ UNCHANGED vars)
           /\ ~ ApiEnqueue
  <2>1. UNCHANGED wk /\ UNCHANGED memory
    BY <1>9, RequestKeeps
  <2> QED
    BY <1>2, <1>4, <2>1, QueuedKept
<1> QED
  BY <1>5, <1>6, <1>7, <1>8, <1>9 DEF Next

(* Every step keeps the invariant.                                         *)
LEMMA SupervisionStep ==
    DockerAnswers /\ TaskInv /\ SupervisionInv /\ [Next]_vars => SupervisionInv'
BY HoldsStep, IdleStep, ExpectedStep DEF SupervisionInv

(* It holds in every state.                                                *)
LEMMA SupervisionHolds == ASSUME DockerAnswers PROVE Spec => []SupervisionInv
<1> QED
  BY SupervisionInit, SupervisionStep, TaskCorrect, PTL DEF Spec

(* While Docker lists, recovers and stops what it is asked to, no          *)
(* container runs unsupervised once reconciliation is over, whatever else  *)
(* fails and wherever the controller is restarted.                         *)
THEOREM RunnersAreSupervised ==
    ASSUME DockerAnswers
    PROVE  Spec => []RunningIsSupervised
<1>1. TaskInv /\ SupervisionInv => RunningIsSupervised
  BY DEF TaskInv, QueueInv, Phases, SupervisionInv, RunningIsExpected, Expected, Restoring,
         Serves, RunningIsSupervised, Supervised, QueuedAgain, ReconcilePcs, EndingPcs
<1> QED
  BY <1>1, SupervisionHolds, TaskCorrect, PTL

----------------------------------------------------------------------------
(* The runners                                                             *)

(* Containers that run and that the worker is not on: those that survived  *)
(* a restart of the controller.                                            *)
Others == {k \in Keys : box[k] = "running" /\ ~ Serves(k)}

FewOthers == IsFiniteSet(Others) /\ Cardinality(Others) <= crashes

(* Nothing runs at first.                                                  *)
LEMMA OthersInit == Init => FewOthers
<1>1. Init => Others = {} /\ crashes = 0
  BY DEF Init, Others
<1>2. IsFiniteSet({}) /\ Cardinality({}) = 0
  BY FS_EmptySet
<1> QED
  BY <1>1, <1>2 DEF FewOthers

(* The worker leaves no runner behind when it is done.                     *)
LEMMA OthersStay ==
    ASSUME TaskInv, SupervisionInv, [Next]_vars, ~ Restart
    PROVE  Others' \subseteq Others
<1> USE DEF ExecutePcs, EndingPcs
<1>1. TypeOK /\ SuccessIsEarned /\ Phases /\ WorkerHolds
  BY DEF TaskInv, SupervisionInv, QueueInv
<1> SUFFICES ASSUME NEW k \in Keys, box'[k] = "running", Serves(k) \/ box[k] # "running"
             PROVE  Serves(k)'
  BY DEF Others
<1>2. box[k] = "running" \/ BoxStarted(k)
  BY <1>1, RunningBefore
<1>3. Serves(k)
  BY <1>1, <1>2 DEF Serves, Phases
<1>4. CASE Execute
  <2>1. ~ Get
    BY <1>1, <1>3, GetStep DEF Serves
  <2>2. ~ Done
    BY <1>1, <1>2, <1>3, DoneStep DEF Serves, WorkerHolds, Over
  <2>3. WorksOn
    BY <1>1, <1>4, <2>1, <2>2, ExecuteWorks
  <2> QED
    BY <1>3, <2>3 DEF Serves, WorksOn
<1>5. ~ Reconcile
  BY <1>1, <1>3, ReadActiveStep, ListContainersStep, ListFailsStep,
     IdentityFailsStep, RestoreRecoveredStep, RestoreLostStep, RestoredStep,
     OrphanStopStep, OrphanRemoveStep, OrphanFailsStep, ReadQueuedStep, RequeueStep,
     ReconciledStep
     DEF Reconcile, ReconcilePcs, Phases, Serves
<1>6. CASE UNCHANGED wk
  BY <1>3, <1>6 DEF Serves
<1> QED
  BY <1>4, <1>5, <1>6, RequestKeeps DEF Next

(* Nothing but a restart is counted as one.                                *)
LEMMA RestartsCount == ASSUME [Next]_vars, ~ Restart PROVE crashes' = crashes
<1>1. CASE UNCHANGED vars
  BY <1>1 DEF vars
<1>2. CASE Reconcile
  BY <1>2 DEF Reconcile, ReadActive, ListContainers, ListFails, IdentityFails,
     RestoreRecovered, RestoreLost, Restored, OrphanStop, OrphanRemove, OrphanFails,
     ReadQueued, Requeue, Reconciled
<1>3. CASE Execute
  BY <1>3 DEF Execute, Get, Recover, RecoverFails, ClaimLoad, Claim, Create,
     CreateFails, RunningLoad, SetRunning, Discard, Start, StageEvent, SetStage,
     LogEnds, Collect, Check, Remove, DockerStepFails, HandleFailure, CleanupStop,
     CleanupRemove, CleanupResult, FinishLoad, Finish, RecordLoad, Record, Done
<1>4. CASE Request \/ Handle \/ (\E k \in Keys : ContainerExit(k))
  BY <1>4 DEF Request, Submit, CancelLoad, RetryLoad, Handle, PendingLoad, MarkPending,
     ApiEnqueue, CancelCommit, CancelStop, CancelRecordLoad, CancelRecord, Retry,
     ContainerExit
<1> QED
  BY <1>1, <1>2, <1>3, <1>4 DEF Next

(* Only a restart makes a runner one that nobody serves, and only one.     *)
LEMMA OthersStep ==
    TaskInv /\ SupervisionInv /\ FewOthers /\ [Next]_vars => FewOthers'
<1> SUFFICES ASSUME TaskInv, SupervisionInv, FewOthers, [Next]_vars PROVE FewOthers'
  OBVIOUS
<1>1. TypeOK /\ crashes \in Nat /\ IsFiniteSet(Others) /\ Cardinality(Others) \in Nat
  BY FS_CardinalityType DEF TaskInv, TypeOK, FewOthers
<1>2. CASE ~ Restart
  <2>1. IsFiniteSet(Others') /\ Cardinality(Others') <= Cardinality(Others)
    BY <1>1, <1>2, OthersStay, FS_Subset
  <2>2. Cardinality(Others') \in Nat
    BY <2>1, FS_CardinalityType
  <2>3. crashes' = crashes
    BY <1>2, RestartsCount
  <2> QED
    BY <1>1, <2>1, <2>2, <2>3 DEF FewOthers
<1>3. CASE Restart
  <2>1. Others' \subseteq Others \cup {wk.key}
    BY <1>3, RestartStep DEF Others, Serves
  <2>2. /\ IsFiniteSet(Others \cup {wk.key})
        /\ Cardinality(Others \cup {wk.key}) <= Cardinality(Others) + 1
    <3>1. /\ IsFiniteSet(Others \cup {wk.key})
          /\ Cardinality(Others \cup {wk.key}) =
                 IF wk.key \in Others THEN Cardinality(Others) ELSE Cardinality(Others) + 1
      BY <1>1, FS_AddElement
    <3> QED
      BY <1>1, <3>1
  <2>3. /\ IsFiniteSet(Others')
        /\ Cardinality(Others') <= Cardinality(Others \cup {wk.key})
    BY <2>1, <2>2, FS_Subset
  <2>4. Cardinality(Others') \in Nat /\ Cardinality(Others \cup {wk.key}) \in Nat
    BY <2>2, <2>3, FS_CardinalityType
  <2> QED
    BY <1>1, <1>3, <2>2, <2>3, <2>4, RestartStep DEF FewOthers
<1> QED
  BY <1>2, <1>3

(* It holds in every state.                                                *)
LEMMA FewOthersHold == ASSUME DockerAnswers PROVE Spec => []FewOthers
<1> QED
  BY OthersInit, OthersStep, TaskCorrect, SupervisionHolds, PTL DEF Spec

----------------------------------------------------------------------------
(* The orchestrator implements RunnerSlot                                  *)

(* The worker has an attempt wherever it executes one.                     *)
LEMMA ExecuteKey ==
    ASSUME TypeOK, Execute
    PROVE  (At("idle") \/ wk.key \in Keys)
BY DEF TypeOK, ExecutePcs, EndingPcs,
       Execute, Get, Recover, RecoverFails, ClaimLoad, Claim, Create, CreateFails,
       RunningLoad, SetRunning, Discard, Start, StageEvent, SetStage, LogEnds, Collect,
       Check, Remove, DockerStepFails, HandleFailure, CleanupStop, CleanupRemove,
       CleanupResult, FinishLoad, Finish, RecordLoad, Record, Done

(* A step changes at most one container, and then no attempt.              *)
LEMMA OneBox ==
    ASSUME TypeOK, SuccessIsEarned, [Next]_vars, ~ UNCHANGED docker
    PROVE  /\ rows' = rows
           /\ \E l \in Keys : \A k \in Keys \ {l} : BoxStays(k)
<1> USE DEF ExecutePcs, EndingPcs
<1>1. CASE Execute
  <2>1. wk.pc # "idle" => wk.key \in Keys
    BY <1>1, ExecuteKey
  <2>2. CASE Create \/ Start
    BY <2>1, <2>2, CreateStep, StartStep DEF TypeOK
  <2>3. CASE Discard \/ Remove
    BY <2>1, <2>3, DiscardStep, RemoveStep, RemoveMoves
  <2>4. CASE CleanupStop
    BY <2>1, <2>4, CleanupStopStep, StopMoves
  <2>5. CASE CleanupRemove
    BY <2>1, <2>5, CleanupRemoveStep, RemoveMoves
  <2> QED
    BY <1>1, <2>2, <2>3, <2>4, <2>5 DEF Execute, Get, Recover, RecoverFails, ClaimLoad,
       Claim, CreateFails, RunningLoad, SetRunning, StageEvent, SetStage, LogEnds, Collect,
       Check, DockerStepFails, HandleFailure, CleanupResult, FinishLoad, Finish, RecordLoad,
       Record, Done
<1>2. CASE Reconcile
  <2>1. wk.todo \subseteq Keys
    BY DEF TypeOK, WorkerType
  <2>2. CASE OrphanStop
    BY <2>1, <2>2, OrphanStopStep, StopMoves
  <2>3. CASE OrphanRemove
    BY <2>1, <2>3, OrphanRemoveStep, RemoveMoves
  <2> QED
    BY <1>2, <2>2, <2>3 DEF Reconcile, ReadActive, ListContainers, ListFails,
       IdentityFails, RestoreRecovered, RestoreLost, Restored, OrphanFails, ReadQueued,
       Requeue, Reconciled
<1>3. CASE CancelStop
  <2>1. api.key \in Keys
    BY <1>3 DEF TypeOK, CancelStop
  <2> QED
    BY <1>3, <2>1, CancelStopStep, StopMoves
<1>4. CASE (Request \/ Handle) /\ ~ CancelStop
  BY <1>4 DEF Request, Submit, CancelLoad, RetryLoad, Handle, PendingLoad, MarkPending,
     ApiEnqueue, CancelCommit, CancelRecordLoad, CancelRecord, Retry
<1>5. ASSUME NEW l \in Keys, ContainerExit(l)
      PROVE  rows' = rows /\ \A k \in Keys \ {l} : BoxStays(k)
  BY <1>5, StopMoves DEF ContainerExit
<1>6. ~ Restart /\ ~ UNCHANGED vars
  BY DEF Restart, vars
<1> QED
  BY <1>1, <1>2, <1>3, <1>4, <1>5, <1>6 DEF Next

(* A step changes the status of at most one attempt.                       *)
LEMMA OneRow ==
    ASSUME TypeOK, NumbersInv, [Next]_vars, rows' # rows
    PROVE  \E l \in Keys : \A k \in Keys \ {l} : rows'[k] = rows[k]
<1> USE DEF ExecutePcs, EndingPcs
<1>1. ASSUME NEW l \in Keys, NEW seen, NEW status, CommitStatus(l, seen, status)
      PROVE  \A k \in Keys \ {l} : rows'[k] = rows[k]
  BY <1>1 DEF CommitStatus, TypeOK
<1>2. CASE Execute
  <2>1. wk.pc # "idle" => wk.key \in Keys
    BY <1>2, ExecuteKey
  <2>2. CASE Claim \/ SetRunning \/ SetStage \/ Finish
    BY <1>1, <2>1, <2>2, ClaimStep, SetRunningStep, SetStageStep, FinishStep
  <2> QED
    BY <1>2, <2>2 DEF Execute, Get, Recover, RecoverFails, ClaimLoad, Create,
       CreateFails, RunningLoad, Discard, Start, StageEvent, LogEnds, Collect, Check,
       Remove, DockerStepFails, HandleFailure, CleanupStop, CleanupRemove, CleanupResult,
       FinishLoad, RecordLoad, Record, Done
<1>3. CASE Reconcile
  BY <1>3 DEF Reconcile, ReadActive, ListContainers, ListFails,
     IdentityFails, RestoreRecovered, RestoreLost, Restored, OrphanStop, OrphanRemove,
     OrphanFails, ReadQueued, Requeue, Reconciled
<1>4. CASE CancelCommit \/ Retry
  <2>1. api.key \in Keys
    BY <1>4 DEF TypeOK, CancelCommit, Retry
  <2> QED
    BY <1>1, <1>4, <2>1, CancelCommitStep, RetryStep
<1>5. ASSUME NEW r \in Runs, Submit(r)
      PROVE  <<r, 1>> \in Keys /\ \A k \in Keys \ {<<r, 1>>} : rows'[k] = rows[k]
  BY <1>5, RowsSubmit DEF TypeOK
<1>6. CASE Handle /\ ~ CancelCommit /\ ~ Retry
  BY <1>6 DEF Handle, PendingLoad, MarkPending, ApiEnqueue, CancelStop, CancelRecordLoad,
     CancelRecord
<1>7. \A r \in Runs : ~ CancelLoad(r) /\ ~ RetryLoad(r)
  BY DEF CancelLoad, RetryLoad
<1>8. ~ Restart /\ ~ UNCHANGED vars /\ \A l \in Keys : ~ ContainerExit(l)
  BY DEF Restart, vars, ContainerExit
<1> QED
  BY <1>2, <1>3, <1>4, <1>5, <1>6, <1>7, <1>8 DEF Next, Request

(* The refinement mapping.                                                 *)
PhaseOf(k) == CASE box[k] = "running"            -> "running"
                [] box[k] \in {"exited", "gone"} -> "over"
                [] OTHER                         -> "waiting"
Phased == [k \in Keys |-> PhaseOf(k)]
Passers == {k \in Keys : result[k] = "succeeded"}
Shown == {k \in Keys : rows[k] = "SUCCEEDED"}

(* RunnerSlot counts as this module does.                                  *)
LEMMA SlotCounts == \A S : Slot!Cardinality(S) = Cardinality(S)
BY Zenon DEF Slot!Cardinality, Cardinality

(* The steps of RunnerSlot, by what they do to the three variables.        *)
LEMMA SlotSteps ==
    ASSUME NEW l \in Keys
    PROVE  /\ /\ Cardinality({k \in Keys : Phased[k] = "running"}) < MaxCrashes + 1
              /\ Phased[l] = "waiting"
              /\ Phased' = [Phased EXCEPT ![l] = "running"]
              /\ UNCHANGED <<Passers, Shown>>
              => Slot!Start(l)
           /\ /\ Phased[l] = "running"
              /\ Phased' = [Phased EXCEPT ![l] = "over"]
              /\ Passers' = Passers \/ Passers' = Passers \cup {l}
              /\ UNCHANGED Shown
              => Slot!End(l)
           /\ /\ Phased[l] = "waiting"
              /\ Phased' = [Phased EXCEPT ![l] = "over"]
              /\ UNCHANGED <<Passers, Shown>>
              => Slot!Discard(l)
           /\ /\ Phased[l] = "over" /\ l \in Passers
              /\ Shown' = Shown \cup {l}
              /\ UNCHANGED <<Phased, Passers>>
              => Slot!Show(l)
           /\ /\ Shown' = Shown \ {l}
              /\ UNCHANGED <<Phased, Passers>>
              => Slot!Withdraw(l)
<1> USE DEF Phased, PhaseOf, Passers, Shown
<1>1. /\ Cardinality({k \in Keys : Phased[k] = "running"}) < MaxCrashes + 1
      /\ Phased[l] = "waiting"
      /\ Phased' = [Phased EXCEPT ![l] = "running"]
      /\ UNCHANGED <<Passers, Shown>>
      => Slot!Start(l)
  BY SlotCounts DEF Slot!Start, Slot!Free
<1>2. /\ Phased[l] = "running"
      /\ Phased' = [Phased EXCEPT ![l] = "over"]
      /\ Passers' = Passers \/ Passers' = Passers \cup {l}
      /\ UNCHANGED Shown
      => Slot!End(l)
  BY DEF Slot!End
<1>3. /\ Phased[l] = "waiting"
      /\ Phased' = [Phased EXCEPT ![l] = "over"]
      /\ UNCHANGED <<Passers, Shown>>
      => Slot!Discard(l)
  BY DEF Slot!Discard
<1>4. /\ Phased[l] = "over" /\ l \in Passers
      /\ Shown' = Shown \cup {l}
      /\ UNCHANGED <<Phased, Passers>>
      => Slot!Show(l)
  BY DEF Slot!Show
<1>5. /\ Shown' = Shown \ {l}
      /\ UNCHANGED <<Phased, Passers>>
      => Slot!Withdraw(l)
  BY DEF Slot!Withdraw
<1> QED
  BY <1>1, <1>2, <1>3, <1>4, <1>5

(* The first states are first states of RunnerSlot.                        *)
LEMMA SlotInit == Init => Slot!Init
BY DEF Init, Slot!Init, Absent

(* The phases, results and successes after a step, by attempt.             *)
LEMMA SlotSame ==
    ASSUME NEW k \in Keys
    PROVE  /\ Phased[k] = PhaseOf(k) /\ Phased'[k] = PhaseOf(k)'
           /\ BoxStays(k) => /\ PhaseOf(k)' = PhaseOf(k)
                             /\ k \in Passers' <=> k \in Passers
           /\ BoxCreated(k) => PhaseOf(k) = "waiting" /\ PhaseOf(k)' = "waiting"
           /\ BoxStarted(k) => PhaseOf(k) = "waiting" /\ PhaseOf(k)' = "running"
           /\ BoxStopped(k) => PhaseOf(k) = "running" /\ PhaseOf(k)' = "over"
           /\ BoxRemoved(k) => PhaseOf(k)' = "over"
           /\ BoxRemoved(k) => PhaseOf(k) = IF box[k] = "created" THEN "waiting" ELSE "over"
           /\ BoxCreated(k) \/ BoxStarted(k) \/ BoxRemoved(k) =>
                  (k \in Passers' <=> k \in Passers)
BY DEF Phased, PhaseOf, Passers

(* Only the runner of the attempt that the worker starts joins the others. *)
LEMMA SlotIsFree ==
    ASSUME TaskInv, FewOthers, At("start")
    PROVE  Cardinality({k \in Keys : Phased[k] = "running"}) < MaxCrashes + 1
<1>1. {k \in Keys : Phased[k] = "running"} = {k \in Keys : box[k] = "running"}
  BY DEF Phased, PhaseOf
<1>2. {k \in Keys : box[k] = "running"} = Others
  BY DEF TaskInv, SuccessIsEarned, HoldsCreated, Others, Serves
<1>3. /\ Cardinality(Others) <= crashes /\ Cardinality(Others) \in Nat
      /\ crashes \in 0..MaxCrashes /\ MaxCrashes \in Nat
  BY FS_CardinalityType DEF FewOthers, TaskInv, TypeOK
<1>4. Cardinality(Others) < MaxCrashes + 1
  BY <1>3
<1> QED
  BY <1>1, <1>2, <1>4

(* A step that RunnerSlot can see is one of its steps.                     *)
LEMMA SlotStep ==
    TaskInv /\ TaskInv' /\ FewOthers /\ [Next]_vars => [Slot!Next]_(Slot!slotVars)
<1> SUFFICES ASSUME TaskInv, TaskInv', FewOthers, [Next]_vars,
                    ~ UNCHANGED <<Phased, Passers, Shown>>
             PROVE  Slot!Next
  <2>1. UNCHANGED <<Phased, Passers, Shown>> => UNCHANGED Slot!slotVars
    BY DEF Slot!slotVars, Phased, PhaseOf, Passers, Shown
  <2> QED
    BY <2>1
<1>1. /\ TypeOK /\ SuccessIsEarned /\ NumbersInv /\ BoxInv /\ TypeOK'
      /\ SuccessGate'
  BY DEF TaskInv, SuccessIsEarned
<1> SUFFICES \E l \in Keys : \/ Slot!Start(l) \/ Slot!End(l) \/ Slot!Discard(l)
                             \/ Slot!Show(l) \/ Slot!Withdraw(l)
  BY DEF Slot!Next
<1>2. CASE ~ UNCHANGED docker
  <2>1. rows' = rows /\ UNCHANGED Shown
    BY <1>1, <1>2, OneBox DEF Shown
  <2>2. PICK l \in Keys : \A k \in Keys \ {l} : BoxStays(k)
    BY <1>1, <1>2, OneBox
  <2>3. BoxMoves(l)
    BY <1>1, BoxStep
  <2>4. \A k \in Keys \ {l} : Phased'[k] = Phased[k] /\ (k \in Passers' <=> k \in Passers)
    BY <2>2, SlotSame
  <2>5. Phased' = [Phased EXCEPT ![l] = PhaseOf(l)']
    BY <2>4, SlotSame DEF Phased
  <2>6. Phased[l] = PhaseOf(l) /\ Phased = [Phased EXCEPT ![l] = PhaseOf(l)]
    BY SlotSame DEF Phased
  <2>7. Passers \subseteq Keys /\ Passers' \subseteq Keys
    BY DEF Passers
  <2>8. CASE BoxStays(l) \/ BoxCreated(l) \/ (BoxRemoved(l) /\ box[l] # "created")
    <3>1. PhaseOf(l)' = PhaseOf(l) /\ (l \in Passers' <=> l \in Passers)
      BY <2>8, SlotSame
    <3>2. Phased' = Phased
      BY <2>5, <2>6, <3>1
    <3>3. Passers' = Passers
      BY <2>4, <2>7, <3>1
    <3> QED
      BY <2>1, <3>2, <3>3
  <2>9. CASE BoxStarted(l)
    <3>1. /\ PhaseOf(l) = "waiting" /\ PhaseOf(l)' = "running"
          /\ l \in Passers' <=> l \in Passers
      BY <2>9, SlotSame
    <3>2. Passers' = Passers
      BY <2>4, <2>7, <3>1
    <3>3. Cardinality({k \in Keys : Phased[k] = "running"}) < MaxCrashes + 1
      BY <2>9, SlotIsFree
    <3>4. Phased[l] = "waiting" /\ Phased' = [Phased EXCEPT ![l] = "running"]
      BY <2>5, <2>6, <3>1
    <3> QED
      BY <2>1, <3>2, <3>3, <3>4, SlotSteps
  <2>10. CASE BoxStopped(l)
    <3>1. PhaseOf(l) = "running" /\ PhaseOf(l)' = "over"
      BY <2>10, SlotSame
    <3>2. l \notin Passers
      BY <1>1, <2>10 DEF Passers, BoxInv
    <3>3. Passers' = Passers \/ Passers' = Passers \cup {l}
      BY <2>4, <2>7, <3>2
    <3>4. Phased[l] = "running" /\ Phased' = [Phased EXCEPT ![l] = "over"]
      BY <2>5, <2>6, <3>1
    <3> QED
      BY <2>1, <3>3, <3>4, SlotSteps
  <2>11. CASE BoxRemoved(l) /\ box[l] = "created"
    <3>1. /\ PhaseOf(l) = "waiting" /\ PhaseOf(l)' = "over"
          /\ l \in Passers' <=> l \in Passers
      BY <2>11, SlotSame
    <3>2. Passers' = Passers
      BY <2>4, <2>7, <3>1
    <3>3. Phased[l] = "waiting" /\ Phased' = [Phased EXCEPT ![l] = "over"]
      BY <2>5, <2>6, <3>1
    <3> QED
      BY <2>1, <3>2, <3>3, SlotSteps
  <2> QED
    BY <2>3, <2>8, <2>9, <2>10, <2>11 DEF BoxMoves
<1>3. CASE UNCHANGED docker
  <2>1. UNCHANGED <<Phased, Passers>>
    BY <1>3 DEF Phased, PhaseOf, Passers
  <2>2. rows' # rows
    BY <2>1 DEF Shown
  <2>3. PICK l \in Keys : \A k \in Keys \ {l} : rows'[k] = rows[k]
    BY <1>1, <2>2, OneRow
  <2>4. \A k \in Keys \ {l} : k \in Shown' <=> k \in Shown
    BY <2>3 DEF Shown
  <2>5. Shown \subseteq Keys /\ Shown' \subseteq Keys
    BY DEF Shown
  <2>6. CASE l \in Shown'
    <3>1. result[l] = "succeeded" /\ box[l] = "gone"
      BY <1>1, <1>3, <2>6 DEF Shown, SuccessGate
    <3>2. Phased[l] = "over" /\ l \in Passers
      BY <3>1 DEF Phased, PhaseOf, Passers
    <3>3. Shown' = Shown \cup {l}
      BY <2>4, <2>5, <2>6
    <3> QED
      BY <2>1, <3>2, <3>3, SlotSteps
  <2>7. CASE l \notin Shown'
    <3>1. Shown' = Shown \ {l}
      BY <2>4, <2>5, <2>7
    <3> QED
      BY <2>1, <3>1, SlotSteps
  <2> QED
    BY <2>6, <2>7
<1> QED
  BY <1>2, <1>3

(* While Docker lists, recovers and stops what it is asked to, every       *)
(* behaviour of the orchestrator is one of RunnerSlot.                     *)
THEOREM ImplementsRunnerSlot ==
    ASSUME DockerAnswers
    PROVE  Spec => ImplementsSlot
<1> QED
  BY FewOthersHold, SlotInit, SlotStep, TaskCorrect, PTL DEF Spec, ImplementsSlot, Slot!Spec

----------------------------------------------------------------------------
(* What it takes a restart for                                             *)

(* The worker can end what it began: stop and rm do not fail.              *)
DockerCleans == {"stop", "remove"} \cap FaultKinds = {}

(* Between the creation and the removal of a container.                    *)
HoldingPcs == {"running_load", "running", "discard", "start", "stream", "stage", "collect",
               "check", "remove", "failed", "cleanup_stop", "cleanup_remove"}

(* Up to the first restart the worker holds every container there is.      *)
PresentIsHeld ==
    /\ \A k \in Keys : box[k] \in Present => wk.pc \in HoldingPcs /\ wk.key = k /\ wk.held
    /\ At("cleanup_remove") => box[wk.key] # "running"

HeldInv == crashes = 0 => PresentIsHeld

(* The worker does not let go of a container that is there.                *)
LEMMA HeldExecute ==
    ASSUME TaskInv, PresentIsHeld, DockerCleans, Execute
    PROVE  PresentIsHeld'
<1>1. TypeOK /\ SuccessIsEarned
  BY DEF TaskInv
<1>2. ASSUME NEW k \in Keys, box'[k] \in Present
      PROVE  wk'.pc \in HoldingPcs /\ wk'.key = k /\ wk'.held
  <2>1. BoxMoves(k)
    BY <1>1, BoxStep DEF Next
  <2>2. CASE BoxCreated(k)
    <3>1. Create
      BY <2>2 DEF Execute, Get, Recover, RecoverFails, ClaimLoad, Claim, Create,
         CreateFails, RunningLoad, SetRunning, Discard, Start, StageEvent, SetStage,
         LogEnds, Collect, Check, Remove, DockerStepFails, HandleFailure, CleanupStop,
         CleanupRemove, CleanupResult, FinishLoad, Finish, RecordLoad, Record, Done
    <3> QED
      BY <1>1, <2>2, <3>1 DEF Create, HoldingPcs, TypeOK, WorkerType
  <2>3. CASE ~ BoxCreated(k)
    <3>1. box[k] \in Present /\ wk.pc \in HoldingPcs /\ wk.key = k /\ wk.held
      BY <1>2, <2>1, <2>3 DEF BoxMoves, Present, PresentIsHeld
    <3>2. CASE Discard \/ Remove
      BY <1>1, <1>2, <3>1, <3>2 DEF Discard, Remove, RemoveContainer, TypeOK, Present
    <3>3. CASE CleanupRemove
      <4>1. CanRemove(k) /\ "remove" \notin FaultKinds
        BY <3>1, <3>3 DEF CleanupRemove, PresentIsHeld, CanRemove, Present, DockerCleans
      <4>2. RemoveContainer(k)
        BY <3>1, <3>3, <4>1 DEF CleanupRemove, RemoveFails, Fails
      <4> QED
        BY <1>1, <1>2, <4>2 DEF RemoveContainer, TypeOK, Present
    <3>4. CASE ~ (Discard \/ Remove \/ CleanupRemove)
      <4>1. \/ RunningLoad \/ SetRunning \/ Start \/ StageEvent \/ SetStage
            \/ LogEnds \/ Collect \/ Check
            \/ DockerStepFails \/ HandleFailure \/ CleanupStop
        BY <3>1, <3>4 DEF HoldingPcs,
           Execute, Get, Recover, RecoverFails, ClaimLoad, Claim, Create, CreateFails,
           CleanupResult, FinishLoad, Finish, RecordLoad, Record, Done
      <4>2. wk'.pc \in HoldingPcs /\ wk'.key = wk.key
        BY <1>1, <3>1, <4>1, RunningLoadStep, SetRunningStep, StartStep, StageEventStep,
           SetStageStep, LogEndsStep, CollectStep, CheckStep, DockerStepFailsStep,
           HandleFailureStep, CleanupStopStep DEF HoldingPcs
      <4>3. wk'.held = wk.held
        <5>1. CASE CleanupStop
          BY <1>1, <5>1 DEF CleanupStop, Goto, TypeOK, WorkerType
        <5>2. CASE ~ CleanupStop
          BY <1>1, <4>1, <5>2, RunningLoadStep, SetRunningStep, StartStep, StageEventStep,
             SetStageStep, LogEndsStep, CollectStep, CheckStep, DockerStepFailsStep,
             HandleFailureStep
        <5> QED
          BY <5>1, <5>2
      <4> QED
        BY <3>1, <4>2, <4>3
    <3> QED
      BY <3>2, <3>3, <3>4
  <2> QED
    BY <2>2, <2>3
<1>3. ASSUME wk'.pc = "cleanup_remove" PROVE box'[wk'.key] # "running"
  <2>1. CleanupStop
    BY <1>1, <1>3, GetStep, RecoverStep, RecoverFailsStep, ClaimLoadStep, ClaimStep,
       CreateStep, CreateFailsStep, RunningLoadStep, SetRunningStep, DiscardStep,
       StartStep, StageEventStep, SetStageStep, LogEndsStep, CollectStep, CheckStep,
       RemoveStep, DockerStepFailsStep, HandleFailureStep, CleanupRemoveStep,
       CleanupResultStep, FinishLoadStep, FinishStep, RecordLoadStep, RecordStep, DoneStep
       DEF Execute
  <2>2. wk'.key = wk.key /\ StopContainer(wk.key)
    BY <1>1, <2>1 DEF CleanupStop, Goto, TypeOK, WorkerType, Fails, DockerCleans
  <2>3. wk.key \in Keys
    BY <1>1, <2>1 DEF TypeOK, ExecutePcs, CleanupStop
  <2> QED
    BY <1>1, <2>2, <2>3, StopMoves
<1> QED
  BY <1>2, <1>3 DEF PresentIsHeld

(* Nobody else creates, starts or forgets one.                             *)
LEMMA HeldStep ==
    DockerCleans /\ TaskInv /\ HeldInv /\ [Next]_vars => HeldInv'
<1> SUFFICES ASSUME DockerCleans, TaskInv, HeldInv, [Next]_vars, crashes' = 0
             PROVE  PresentIsHeld'
  BY DEF HeldInv
<1>1. TypeOK /\ SuccessIsEarned /\ crashes \in Nat
  BY DEF TaskInv, TypeOK
<1>2. ~ Restart /\ PresentIsHeld
  <2>1. ~ Restart
    BY <1>1, RestartStep
  <2> QED
    BY <2>1, RestartsCount DEF HeldInv
<1>3. ASSUME UNCHANGED wk PROVE PresentIsHeld'
  <2>1. \A k \in Keys : BoxMoves(k)
    BY <1>1, BoxStep
  <2>2. \A k \in Keys : box'[k] \in Present => box[k] \in Present
    BY <1>3, <2>1 DEF BoxMoves, Present
  <2>3. At("cleanup_remove") => wk.key \in Keys
    BY <1>1 DEF TypeOK, ExecutePcs
  <2>4. \A k \in Keys : box'[k] = "running" => box[k] = "running"
    BY <1>3, <2>1 DEF BoxMoves
  <2> QED
    BY <1>2, <1>3, <2>2, <2>3, <2>4 DEF PresentIsHeld
<1>4. CASE Reconcile
  <2>1. \A k \in Keys : box[k] \notin Present
    BY <1>2, <1>4 DEF PresentIsHeld, HoldingPcs, Reconcile, ReadActive, ListContainers,
       ListFails, IdentityFails, RestoreRecovered, RestoreLost, Restored, OrphanStop,
       OrphanRemove, OrphanFails, ReadQueued, Requeue, Reconciled
  <2>2. \A k \in Keys : BoxMoves(k)
    BY <1>1, BoxStep
  <2>3. ~ At("create") /\ wk'.pc # "cleanup_remove"
    BY <1>1, <1>4, ReadActiveStep, ListContainersStep, ListFailsStep,
       IdentityFailsStep, RestoreRecoveredStep, RestoreLostStep, RestoredStep,
       OrphanStopStep, OrphanRemoveStep, OrphanFailsStep, ReadQueuedStep, RequeueStep,
       ReconciledStep
       DEF Reconcile
  <2>4. \A k \in Keys : box'[k] \notin Present
    BY <2>1, <2>2, <2>3 DEF BoxMoves, Present
  <2> QED
    BY <2>3, <2>4 DEF PresentIsHeld
<1>5. CASE Execute
  BY <1>2, <1>5, HeldExecute
<1> QED
  BY <1>2, <1>3, <1>4, <1>5, RequestKeeps DEF Next

LEMMA HeldHolds == ASSUME DockerCleans PROVE Spec => []HeldInv
<1>1. Init => HeldInv
  BY DEF Init, HeldInv, PresentIsHeld, Present, WorkerAt
<1> QED
  BY <1>1, HeldStep, TaskCorrect, PTL DEF Spec

(* What the documents say (docs/PROJECT_DESIGN.md:1487, :1832) does hold   *)
(* until the controller is restarted: no container is left behind a        *)
(* terminal attempt, and there is one runner, whatever is cancelled or     *)
(* retried and whichever other call of Docker fails.                       *)
THEOREM CleanUntilRestart ==
    ASSUME DockerCleans
    PROVE  Spec => [](crashes = 0 => NoLeftoverContainer /\ OneRunner)
<1>1. HeldInv => (crashes = 0 => NoLeftoverContainer /\ OneRunner)
  BY DEF HeldInv, PresentIsHeld, HoldingPcs, Present, NoLeftoverContainer, Settled, OneRunner
<1> QED
  BY <1>1, HeldHolds, PTL

(* And each restart adds at most one runner to the one.                    *)
THEOREM RunnersAreFew ==
    ASSUME DockerAnswers
    PROVE  Spec => [](Cardinality({k \in Keys : box[k] = "running"}) <= crashes + 1)
<1> DEFINE Running == {k \in Keys : box[k] = "running"}
<1>1. ASSUME FewOthers, TypeOK PROVE Cardinality(Running) <= crashes + 1
  <2>1. Running \subseteq Others \cup {wk.key}
    BY DEF Others, Serves
  <2>2. /\ IsFiniteSet(Others \cup {wk.key})
        /\ Cardinality(Others \cup {wk.key}) =
               IF wk.key \in Others THEN Cardinality(Others) ELSE Cardinality(Others) + 1
    BY <1>1, FS_AddElement DEF FewOthers
  <2>3. IsFiniteSet(Running) /\ Cardinality(Running) <= Cardinality(Others \cup {wk.key})
    BY <2>1, <2>2, FS_Subset
  <2>4. Cardinality(Running) \in Nat /\ Cardinality(Others) \in Nat /\ crashes \in Nat
    BY <1>1, <2>3, FS_CardinalityType DEF FewOthers, TypeOK
  <2> HIDE DEF Running
  <2> QED
    BY <1>1, <2>2, <2>3, <2>4 DEF FewOthers
<1>2. TaskInv => TypeOK
  BY DEF TaskInv
<1> QED
  BY <1>1, <1>2, FewOthersHold, TaskCorrect, PTL

=============================================================================
