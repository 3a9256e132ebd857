------------------------- MODULE RunLifecycleProofs -------------------------
(***************************************************************************)
(* What holds of RunLifecycle for every set of runs, every bound and every *)
(* kind of fault: its types, the models and the single conversion, and what*)
(* the work items, the attempts they name, the containers and the results  *)
(* have to do with each other.                                             *)
(***************************************************************************)
EXTENDS RunLifecycle, FiniteSetTheorems, SequenceTheorems, TLAPS

USE LifecycleAssumption, StagesAreWorkingStatuses

----------------------------------------------------------------------------
(* Lemmas about the helpers                                                *)

(* The numbers of a run's attempts: the last one and the next one exist    *)
(* when the code asks for them.                                            *)
LEMMA AttemptNumbers ==
    ASSUME NEW r \in Runs
    PROVE  /\ Cardinality(Attempts(r)) \in 0..MaxAttempts
           /\ Attempts(r) # {} => LastAttempt(r) \in Keys
           /\ Cardinality(Attempts(r)) < MaxAttempts => NextAttempt(r) \in Keys
<1>1. /\ IsFiniteSet(1..MaxAttempts) /\ Cardinality(1..MaxAttempts) = MaxAttempts
  BY FS_Interval DEF LifecycleAssumption
<1>2. Attempts(r) \subseteq 1..MaxAttempts
  BY DEF Attempts
<1>3. /\ IsFiniteSet(Attempts(r)) /\ Cardinality(Attempts(r)) \in Nat
      /\ Cardinality(Attempts(r)) <= MaxAttempts
  BY <1>1, <1>2, FS_Subset, FS_CardinalityType
<1>4. Attempts(r) # {} => Cardinality(Attempts(r)) # 0
  BY <1>3, FS_EmptySet
<1> QED
  BY <1>3, <1>4 DEF LastAttempt, NextAttempt, Keys, LifecycleAssumption

(* A commit stores the status it was given, or leaves what is there.       *)
LEMMA CommitStatusType ==
    ASSUME NEW k \in Keys, NEW seen \in Pair, NEW status \in Columns,
           runs \in [Runs -> Columns], rows \in [Keys -> Columns],
           CommitStatus(k, seen, status)
    PROVE  /\ runs' \in [Runs -> Columns]
           /\ rows' \in [Keys -> Columns]
BY DEF CommitStatus, Flush

LEMMA CommitModelType ==
    ASSUME NEW k \in Keys, NEW seen \in ModelRows, NEW status \in ModelStatuses,
           models \in [Models -> ModelRows], Inspects(k),
           CommitModel(k, seen, status)
    PROVE  models' \in [Models -> ModelRows]
BY DEF CommitModel, Flush, ModelRows, Keys, Inspects

LEMMA EnqueueType ==
    ASSUME NEW k \in Keys, NEW recover \in BOOLEAN,
           queue \in Seq(Items), pending \subseteq Keys,
           Enqueue(k, recover)
    PROVE  queue' \in Seq(Items) /\ pending' \subseteq Keys
<1>1. CASE k \in pending
  BY <1>1 DEF Enqueue, memory
<1>2. CASE k \notin pending
  <2>1. [key |-> k, recover |-> recover] \in Items
    BY DEF Items
  <2>2. /\ pending' = pending \cup {k}
        /\ queue' = Append(queue, [key |-> k, recover |-> recover])
    BY <1>2 DEF Enqueue
  <2> QED
    BY <2>1, <2>2, AppendProperties
<1> QED
  BY <1>1, <1>2

LEMMA FailsType ==
    ASSUME NEW call, faults \in 0..MaxFaults, Fails(call)
    PROVE  faults' \in 0..MaxFaults
BY DEF Fails, LifecycleAssumption

LEMMA PairOfType ==
    ASSUME NEW k \in Keys, runs \in [Runs -> Columns], rows \in [Keys -> Columns]
    PROVE  PairOf(k) \in Pair
BY DEF PairOf, Pair, Keys

LEMMA ModelOfType ==
    ASSUME NEW k \in Keys, Inspects(k)
    PROVE  ModelOf[k[1]] \in Models
BY DEF Inspects, Keys, LifecycleAssumption

LEMMA VerdictsType ==
    ASSUME NEW outcome, NEW res \in Results
    PROVE  Verdicts(outcome, res) \subseteq ModelStatuses
BY DEF Verdicts, ModelStatuses, Results

----------------------------------------------------------------------------
(* Types                                                                   *)

(* A thread between two tasks.                                             *)
LEMMA IdleTypes ==
    /\ \A pc \in ReconcilePcs \cup {"idle", "dead"} : \A serving \in BOOLEAN :
           WorkerAt(pc, serving) \in WorkerType
    /\ ApiIdle \in ApiType
    /\ NoPair \in Pair /\ NoModelRow \in ModelRows
<1>1. NoPair \in Pair
  BY DEF NoPair, Pair, Columns
<1>2. NoModelRow \in ModelRows
  BY DEF NoModelRow, ModelRows, ModelStatuses
<1>3. ApiIdle \in ApiType
  BY <1>1, <1>2 DEF ApiIdle, ApiType
<1>4. ASSUME NEW pc \in ReconcilePcs \cup {"idle", "dead"}, NEW serving \in BOOLEAN
      PROVE  WorkerAt(pc, serving) \in WorkerType
  BY <1>1, <1>2 DEF WorkerAt, WorkerType, Results, TerminalStatuses
<1> QED
  BY <1>1, <1>2, <1>3, <1>4

LEMMA TypeInit == Init => TypeOK
<1> SUFFICES ASSUME Init PROVE TypeOK
  OBVIOUS
<1> USE DEF Init
<1>1. wk \in WorkerType /\ api \in ApiType
  BY IdleTypes DEF ReconcilePcs
<1>2. queue \in Seq(Items)
  BY EmptySeq
<1>3. wk.pc = "reconcile" /\ api.pc = "idle"
  BY DEF WorkerAt, ApiIdle
<1>4. models \in [Models -> ModelRows]
  BY IdleTypes
<1>5. runs \in [Runs -> Columns] /\ rows \in [Keys -> Columns]
  BY DEF Columns
<1>6. result \in [Keys -> Results]
  BY DEF Results
<1>7. /\ recorded \subseteq Keys /\ cancels \subseteq Keys /\ pending \subseteq Keys
      /\ box \in [Keys -> {"none", "created", "running", "exited", "gone"}]
  OBVIOUS
<1>8. faults \in 0..MaxFaults /\ crashes \in 0..MaxCrashes
  OBVIOUS
<1>9. /\ wk.pc \notin ExecutePcs /\ ~ At("record_load") /\ ~ At("record")
      /\ api.pc \notin ModelPcs
  BY <1>3 DEF At, ExecutePcs, EndingPcs, ModelPcs
<1> QED
  BY <1>1, <1>2, <1>3, <1>4, <1>5, <1>6, <1>7, <1>8, <1>9 DEF TypeOK

(* A loop of reconciliation is given the keys it goes through.             *)
LEMMA TodoType ==
    ASSUME NEW w \in WorkerType, NEW keys \in SUBSET Keys
    PROVE  LET next == [w EXCEPT !.todo = keys] IN next \in WorkerType /\ next.pc = w.pc
BY DEF WorkerType

LEMMA TypeReconcile == ASSUME TypeOK, Reconcile PROVE TypeOK'
<1> USE DEF TypeOK, At, db, docker, memory
<1>1. CASE ReadActive
  BY <1>1 DEF ReadActive, WorkerType, ReconcilePcs, ExecutePcs, EndingPcs
<1>2. CASE ListContainers
  BY <1>2 DEF ListContainers, WorkerType, ReconcilePcs, ExecutePcs, EndingPcs
<1>3. CASE ListFails
  BY <1>3, FailsType DEF ListFails, Goto, WorkerType, ReconcilePcs, ExecutePcs, EndingPcs
<1>4. CASE IdentityFails
  <2>1. wk' \in WorkerType /\ wk'.pc = "dead"
    BY <1>4, IdleTypes DEF IdentityFails, WorkerAt
  <2> QED
    BY <1>4, <2>1, FailsType DEF IdentityFails, ExecutePcs, EndingPcs
<1>5. CASE RestoreRecovered
  <2>1. PICK k \in wk.todo : /\ Enqueue(k, TRUE)
                             /\ wk' = [wk EXCEPT !.todo = @ \ {k}]
    BY <1>5 DEF RestoreRecovered
  <2>2. k \in Keys
    BY <2>1 DEF WorkerType
  <2>3. queue' \in Seq(Items) /\ pending' \subseteq Keys
    BY <2>1, <2>2, EnqueueType
  <2> QED
    BY <1>5, <2>1, <2>3 DEF RestoreRecovered, WorkerType
<1>6. CASE RestoreLost
  <2>1. PICK k \in wk.todo :
          wk' = [wk EXCEPT !.todo = @ \ {k}, !.pc = "finish_load", !.key = k,
                           !.outcome = "INTERRUPTED", !.result = "none"]
    BY <1>6 DEF RestoreLost
  <2>2. k \in Keys
    BY <2>1 DEF WorkerType
  <2>3. wk' \in WorkerType
    BY <2>1, <2>2 DEF WorkerType, ExecutePcs, EndingPcs, TerminalStatuses, Results
  <2>4. wk'.pc = "finish_load" /\ wk'.key \in Keys
    BY <2>1, <2>2 DEF WorkerType
  <2> QED
    BY <1>6, <2>3, <2>4 DEF RestoreLost
<1>7. CASE Restored
  <2>1. wk' = [WorkerAt("orphans", FALSE) EXCEPT !.todo = wk.orphans]
    BY <1>7 DEF Restored
  <2>2. WorkerAt("orphans", FALSE) \in WorkerType
    BY IdleTypes DEF ReconcilePcs
  <2>3. WorkerAt("orphans", FALSE).pc = "orphans"
    BY DEF WorkerAt
  <2>4. wk' \in WorkerType /\ wk'.pc = "orphans"
    <3>1. wk.orphans \in SUBSET Keys
      BY DEF WorkerType
    <3> QED
      BY <2>1, <2>2, <2>3, <3>1, TodoType
  <2> QED
    BY <1>7, <2>4 DEF Restored, ExecutePcs, EndingPcs
<1>8. CASE OrphanStop
  BY <1>8 DEF OrphanStop, StopContainer
<1>9. CASE OrphanRemove
  <2>1. PICK k \in wk.todo : /\ RemoveContainer(k)
                             /\ wk' = [wk EXCEPT !.todo = @ \ {k}]
    BY <1>9 DEF OrphanRemove
  <2>2. box' \in [Keys -> {"none", "created", "running", "exited", "gone"}]
        /\ result' = result
    BY <2>1 DEF RemoveContainer
  <2> QED
    BY <1>9, <2>1, <2>2 DEF OrphanRemove, WorkerType
<1>10. CASE OrphanFails
  <2>1. PICK k \in wk.todo :
          /\ IF box[k] = "running" THEN Fails("stop") ELSE RemoveFails(k)
          /\ wk' = [wk EXCEPT !.todo = @ \ {k}]
    BY <1>10 DEF OrphanFails
  <2>2. faults' \in 0..MaxFaults
    BY <2>1, FailsType DEF RemoveFails
  <2> QED
    BY <1>10, <2>1, <2>2 DEF OrphanFails, WorkerType
<1>11. CASE ReadQueued
  BY <1>11 DEF ReadQueued, WorkerType, ReconcilePcs, ExecutePcs, EndingPcs
<1>12. CASE Requeue
  <2>1. PICK k \in wk.todo : /\ Enqueue(k, FALSE)
                             /\ wk' = [wk EXCEPT !.todo = @ \ {k}]
    BY <1>12 DEF Requeue
  <2>2. k \in Keys
    BY <2>1 DEF WorkerType
  <2>3. queue' \in Seq(Items) /\ pending' \subseteq Keys
    BY <2>1, <2>2, EnqueueType
  <2> QED
    BY <1>12, <2>1, <2>3 DEF Requeue, WorkerType
<1>13. CASE Reconciled
  <2>1. wk' \in WorkerType /\ wk'.pc = "idle"
    BY <1>13, IdleTypes DEF Reconciled, WorkerAt
  <2> QED
    BY <1>13, <2>1 DEF Reconciled, ExecutePcs, EndingPcs
<1> QED
  BY <1>1, <1>2, <1>3, <1>4, <1>5, <1>6, <1>7, <1>8, <1>9, <1>10, <1>11, <1>12, <1>13
     DEF Reconcile

LEMMA ReturnType ==
    ASSUME wk \in WorkerType, NEW pc \in ExecutePcs \cup ReconcilePcs, Return(pc)
    PROVE  wk' \in WorkerType /\ wk'.pc = pc /\ wk'.key = wk.key
BY IdleTypes DEF Return, WorkerType

LEMMA StatusTypes ==
    /\ {"PROVISIONING", "RUNNING", "QUEUED", "CANCELLED", "CANCELLING"} \subseteq Columns
    /\ Stages \subseteq Columns /\ TerminalStatuses \subseteq Columns
    /\ \A seen : CancelTarget(seen) \in Columns
BY DEF Columns, Statuses, ActiveStatuses, TerminalStatuses, CancelTarget

LEMMA StopContainerType ==
    ASSUME NEW k, StopContainer(k),
           box \in [Keys -> {"none", "created", "running", "exited", "gone"}],
           result \in [Keys -> Results]
    PROVE  /\ box' \in [Keys -> {"none", "created", "running", "exited", "gone"}]
           /\ result' \in [Keys -> Results]
BY DEF StopContainer, docker

LEMMA RemoveContainerType ==
    ASSUME NEW k, RemoveContainer(k),
           box \in [Keys -> {"none", "created", "running", "exited", "gone"}]
    PROVE  /\ box' \in [Keys -> {"none", "created", "running", "exited", "gone"}]
           /\ result' = result
BY DEF RemoveContainer

LEMMA TypeExecute == ASSUME TypeOK, Execute PROVE TypeOK'
<1> USE DEF TypeOK, At, db, docker, memory
<1>1. CASE Get
  <2>1. Head(queue) \in Items /\ Tail(queue) \in Seq(Items)
    BY <1>1, HeadTailProperties DEF Get
  <2>2. /\ wk' \in WorkerType /\ wk'.key \in Keys
        /\ wk'.pc \in {"recover", "claim_load"}
    <3>1. PICK pc \in {"recover", "claim_load"}, k \in Keys :
            wk' = [wk EXCEPT !.pc = pc, !.key = k]
      BY <1>1, <2>1 DEF Get, Items
    <3> QED
      BY <3>1 DEF WorkerType, ExecutePcs, EndingPcs
  <2> QED
    BY <1>1, <2>1, <2>2 DEF Get
<1>2. CASE Recover
  BY <1>2 DEF Recover, WorkerType, ExecutePcs, EndingPcs
<1>3. CASE RecoverFails
  BY <1>3, FailsType DEF RecoverFails, Goto, WorkerType, ExecutePcs, EndingPcs
<1>4. CASE ClaimLoad
  <2>1. PairOf(wk.key) \in Pair
    BY <1>4, PairOfType DEF ClaimLoad, ExecutePcs, EndingPcs
  <2>2. PICK pc \in {"claim", "done"} : wk' = [wk EXCEPT !.pc = pc, !.seen = PairOf(wk.key)]
    BY <1>4 DEF ClaimLoad
  <2>3. wk' \in WorkerType /\ wk'.pc \in {"claim", "done"} /\ wk'.key = wk.key
    BY <2>1, <2>2 DEF WorkerType, ExecutePcs, EndingPcs
  <2> QED
    BY <1>4, <2>3 DEF ClaimLoad, ExecutePcs, EndingPcs
<1>5. CASE Claim
  <2>1. wk' \in WorkerType /\ wk'.pc = "create" /\ wk'.key = wk.key
    BY <1>5, ReturnType DEF Claim, ExecutePcs, EndingPcs
  <2>2. wk.key \in Keys /\ wk.seen \in Pair
    BY <1>5 DEF Claim, ExecutePcs, EndingPcs, WorkerType
  <2>3. runs' \in [Runs -> Columns] /\ rows' \in [Keys -> Columns]
    BY <1>5, <2>2, CommitStatusType, StatusTypes DEF Claim
  <2> QED
    BY <1>5, <2>1, <2>2, <2>3 DEF Claim
<1>6. CASE Create
  <2>1. wk' \in WorkerType /\ wk'.pc = "running_load" /\ wk'.key = wk.key
    BY <1>6 DEF Create, WorkerType, ExecutePcs, EndingPcs
  <2>2. box' \in [Keys -> {"none", "created", "running", "exited", "gone"}]
    BY <1>6 DEF Create
  <2> QED
    BY <1>6, <2>1, <2>2 DEF Create, ExecutePcs, EndingPcs
<1>7. CASE CreateFails
  <2>1. faults' \in 0..MaxFaults
    BY <1>7, FailsType DEF CreateFails
  <2> QED
    BY <1>7, <2>1 DEF CreateFails, Goto, WorkerType, ExecutePcs, EndingPcs
<1>8. CASE RunningLoad
  <2>1. PairOf(wk.key) \in Pair
    BY <1>8, PairOfType DEF RunningLoad, ExecutePcs, EndingPcs
  <2> QED
    BY <1>8, <2>1 DEF RunningLoad, WorkerType, ExecutePcs, EndingPcs
<1>9. CASE SetRunning
  <2>1. wk.key \in Keys /\ wk.seen \in Pair
    BY <1>9 DEF SetRunning, ExecutePcs, EndingPcs, WorkerType
  <2>2. runs' \in [Runs -> Columns] /\ rows' \in [Keys -> Columns]
    BY <1>9, <2>1, CommitStatusType, StatusTypes DEF SetRunning
  <2>3. /\ wk' \in WorkerType /\ wk'.pc \in {"start", "discard"}
        /\ wk'.key = wk.key
    BY <1>9, ReturnType DEF SetRunning, ExecutePcs, EndingPcs
  <2> QED
    BY <1>9, <2>1, <2>2, <2>3 DEF SetRunning
<1>10. CASE Discard
  <2>1. /\ wk' \in WorkerType /\ wk'.pc = "finish_load" /\ wk'.key = wk.key
        /\ wk.key \in Keys
    BY <1>10 DEF Discard, WorkerType, ExecutePcs, EndingPcs, TerminalStatuses
  <2> QED
    BY <1>10, <2>1, RemoveContainerType DEF Discard
<1>11. CASE Start
  <2>1. wk' \in WorkerType /\ wk'.pc = "stream" /\ wk'.key = wk.key /\ wk.key \in Keys
    BY <1>11 DEF Start, Goto, WorkerType, ExecutePcs, EndingPcs
  <2>2. box' \in [Keys -> {"none", "created", "running", "exited", "gone"}]
    BY <1>11 DEF Start
  <2> QED
    BY <1>11, <2>1, <2>2 DEF Start
<1>12. CASE StageEvent
  <2>1. wk.key \in Keys /\ PairOf(wk.key) \in Pair
    BY <1>12, PairOfType DEF StageEvent, ExecutePcs, EndingPcs
  <2>2. PICK s \in Stages :
          wk' = [wk EXCEPT !.pc = "stage", !.stage = s, !.seen = PairOf(wk.key)]
    BY <1>12 DEF StageEvent
  <2>3. wk' \in WorkerType /\ wk'.pc = "stage" /\ wk'.key = wk.key
    BY <2>1, <2>2 DEF WorkerType, ExecutePcs, EndingPcs
  <2> QED
    BY <1>12, <2>1, <2>3 DEF StageEvent
<1>13. CASE SetStage
  <2>1. wk.key \in Keys /\ wk.seen \in Pair /\ wk.stage \in Columns
    BY <1>13, StatusTypes DEF SetStage, ExecutePcs, EndingPcs, WorkerType
  <2>2. runs' \in [Runs -> Columns] /\ rows' \in [Keys -> Columns]
    BY <1>13, <2>1, CommitStatusType DEF SetStage
  <2>3. wk' \in WorkerType /\ wk'.pc = "stream" /\ wk'.key = wk.key
    BY <1>13, ReturnType DEF SetStage, ExecutePcs, EndingPcs
  <2> QED
    BY <1>13, <2>1, <2>2, <2>3 DEF SetStage
<1>14. CASE LogEnds
  BY <1>14 DEF LogEnds, Goto, WorkerType, ExecutePcs, EndingPcs
<1>15. CASE Collect
  <2>1. wk.key \in Keys /\ result[wk.key] \in Results
    BY <1>15 DEF Collect, ExecutePcs, EndingPcs
  <2>2. /\ wk' \in WorkerType /\ wk'.pc \in {"failed", "check"}
        /\ wk'.key = wk.key
    <3>1. PICK pc \in {"failed", "check"}, r \in Results :
            wk' = [wk EXCEPT !.pc = pc, !.result = r]
      BY <1>15, <2>1 DEF Collect
    <3> QED
      BY <3>1 DEF WorkerType, ExecutePcs, EndingPcs
  <2> QED
    BY <1>15, <2>1, <2>2 DEF Collect
<1>16. CASE Check
  <2> DEFINE cancelled == \/ wk.result = "cancelled"
                          \/ CancelRequested(runs[wk.key[1]], wk.key \in cancels)
             pc == IF cancelled \/ Passed(wk.result) THEN "remove" ELSE "failed"
             outcome == IF cancelled THEN "CANCELLED"
                        ELSE IF Passed(wk.result) THEN "SUCCEEDED" ELSE wk.outcome
  <2>1. wk' = [wk EXCEPT !.pc = pc, !.outcome = outcome]
    BY <1>16 DEF Check, WorkerType
  <2>2. wk.outcome \in TerminalStatuses /\ wk.key \in Keys
    BY <1>16 DEF Check, WorkerType, ExecutePcs, EndingPcs
  <2>3. pc \in {"failed", "remove"} /\ outcome \in TerminalStatuses
    BY <2>2 DEF TerminalStatuses
  <2> HIDE DEF pc, outcome
  <2>4. wk' \in WorkerType /\ wk'.pc = pc /\ wk'.key = wk.key
    BY <2>1, <2>3 DEF WorkerType, ExecutePcs, EndingPcs
  <2> QED
    BY <1>16, <2>2, <2>3, <2>4 DEF Check
<1>17. CASE Remove
  <2>1. /\ wk' \in WorkerType /\ wk'.pc = "finish_load" /\ wk'.key = wk.key
        /\ wk.key \in Keys
    BY <1>17 DEF Remove, WorkerType, ExecutePcs, EndingPcs
  <2> QED
    BY <1>17, <2>1, RemoveContainerType DEF Remove
<1>18. CASE DockerStepFails
  <2>1. faults' \in 0..MaxFaults
    BY <1>18, FailsType DEF DockerStepFails, RemoveFails
  <2>2. /\ wk' \in WorkerType /\ wk'.pc = "failed" /\ wk'.key = wk.key
        /\ wk.key \in Keys
    BY <1>18 DEF DockerStepFails, Goto, WorkerType, ExecutePcs, EndingPcs
  <2> QED
    BY <1>18, <2>1, <2>2 DEF DockerStepFails
<1>19. CASE HandleFailure
  <2> DEFINE pc == IF wk.held THEN "cleanup_stop" ELSE "cleanup_result"
             outcome == IF CancelRequested(runs[wk.key[1]], wk.key \in cancels)
                        THEN "CANCELLED" ELSE "FAILED"
  <2>1. wk' = [wk EXCEPT !.pc = pc, !.outcome = outcome] /\ wk.key \in Keys
    BY <1>19 DEF HandleFailure, ExecutePcs, EndingPcs
  <2>2. pc \in {"cleanup_stop", "cleanup_result"} /\ outcome \in TerminalStatuses
    BY DEF TerminalStatuses
  <2> HIDE DEF pc, outcome
  <2>3. wk' \in WorkerType /\ wk'.pc = pc /\ wk'.key = wk.key
    BY <2>1, <2>2 DEF WorkerType, ExecutePcs, EndingPcs
  <2> QED
    BY <1>19, <2>1, <2>2, <2>3 DEF HandleFailure
<1>20. CASE CleanupStop
  <2>1. /\ wk' \in WorkerType /\ wk'.pc = "cleanup_remove" /\ wk'.key = wk.key
        /\ wk.key \in Keys
    BY <1>20 DEF CleanupStop, Goto, WorkerType, ExecutePcs, EndingPcs
  <2>2. /\ box' \in [Keys -> {"none", "created", "running", "exited", "gone"}]
        /\ result' \in [Keys -> Results]
        /\ faults' \in 0..MaxFaults
    BY <1>20, StopContainerType, FailsType DEF CleanupStop
  <2> QED
    BY <1>20, <2>1, <2>2 DEF CleanupStop
<1>21. CASE CleanupRemove
  <2>1. /\ wk' \in WorkerType /\ wk'.pc = "cleanup_result" /\ wk'.key = wk.key
        /\ wk.key \in Keys
    BY <1>21 DEF CleanupRemove, WorkerType, ExecutePcs, EndingPcs
  <2>2. /\ box' \in [Keys -> {"none", "created", "running", "exited", "gone"}]
        /\ result' = result
        /\ faults' \in 0..MaxFaults
    BY <1>21, RemoveContainerType, FailsType DEF CleanupRemove, RemoveFails
  <2> QED
    BY <1>21, <2>1, <2>2 DEF CleanupRemove
<1>22. CASE CleanupResult
  <2>1. wk.key \in Keys /\ result[wk.key] \in Results
    BY <1>22 DEF CleanupResult, ExecutePcs, EndingPcs
  <2>2. wk' \in WorkerType /\ wk'.pc = "finish_load" /\ wk'.key = wk.key
    BY <1>22, <2>1 DEF CleanupResult, WorkerType, ExecutePcs, EndingPcs
  <2> QED
    BY <1>22, <2>1, <2>2 DEF CleanupResult
<1>23. CASE FinishLoad
  <2>1. wk.key \in Keys /\ PairOf(wk.key) \in Pair
    BY <1>23, PairOfType DEF FinishLoad, ExecutePcs, EndingPcs
  <2>2. wk' \in WorkerType /\ wk'.pc = "finish" /\ wk'.key = wk.key
    BY <1>23, <2>1 DEF FinishLoad, WorkerType, ExecutePcs, EndingPcs
  <2> QED
    BY <1>23, <2>1, <2>2 DEF FinishLoad
<1>24. CASE Finish
  <2>1. wk.key \in Keys /\ wk.seen \in Pair /\ wk.outcome \in Columns
    BY <1>24, StatusTypes DEF Finish, ExecutePcs, EndingPcs, WorkerType
  <2>2. runs' \in [Runs -> Columns] /\ rows' \in [Keys -> Columns]
    BY <1>24, <2>1, CommitStatusType DEF Finish
  <2>3. PICK pc \in {"record_load", "done", "restore"} :
          Return(pc) /\ (pc = "record_load" => Inspects(wk.key))
    BY <1>24 DEF Finish, AfterFinish
  <2>4. wk' \in WorkerType /\ wk'.pc = pc /\ wk'.key = wk.key
    BY <2>3, ReturnType DEF ReconcilePcs, ExecutePcs, EndingPcs
  <2> QED
    BY <1>24, <2>1, <2>2, <2>3, <2>4 DEF Finish, Inspects
<1>25. CASE RecordLoad
  <2>1. wk.key \in Keys /\ Inspects(wk.key)
    BY <1>25 DEF RecordLoad, ExecutePcs, EndingPcs
  <2>2. models[ModelOf[wk.key[1]]] \in ModelRows
    BY <2>1, ModelOfType
  <2>3. wk' \in WorkerType /\ wk'.pc = "record" /\ wk'.key = wk.key
    BY <1>25, <2>2 DEF RecordLoad, WorkerType, ExecutePcs, EndingPcs
  <2> QED
    BY <1>25, <2>1, <2>3 DEF RecordLoad, Inspects
<1>26. CASE Record
  <2>1. wk.key \in Keys /\ Inspects(wk.key) /\ wk.model \in ModelRows /\ wk.result \in Results
    BY <1>26 DEF Record, ExecutePcs, EndingPcs, WorkerType
  <2>2. PICK status \in ModelStatuses : CommitModel(wk.key, wk.model, status)
    BY <1>26, <2>1, VerdictsType DEF Record
  <2>3. models' \in [Models -> ModelRows]
    BY <2>1, <2>2, CommitModelType
  <2>4. PICK pc \in {"done", "restore"} : Return(pc)
    BY <1>26 DEF Record, AfterFinish
  <2>5. wk' \in WorkerType /\ wk'.pc = pc /\ wk'.key = wk.key
    BY <2>4, ReturnType DEF ReconcilePcs, ExecutePcs, EndingPcs
  <2> QED
    BY <1>26, <2>1, <2>3, <2>5 DEF Record
<1>27. CASE Done
  <2>1. wk' \in WorkerType /\ wk'.pc = "idle"
    BY <1>27, IdleTypes DEF Done, WorkerAt
  <2> QED
    BY <1>27, <2>1 DEF Done, ExecutePcs, EndingPcs
<1> QED
  BY <1>1, <1>2, <1>3, <1>4, <1>5, <1>6, <1>7, <1>8, <1>9, <1>10, <1>11, <1>12, <1>13,
     <1>14, <1>15, <1>16, <1>17, <1>18, <1>19, <1>20, <1>21, <1>22, <1>23, <1>24,
     <1>25, <1>26, <1>27 DEF Execute

LEMMA TypeRequest == ASSUME TypeOK, Request PROVE TypeOK'
<1> USE DEF TypeOK, At, db, docker, memory, ApiAt
<1>1. ASSUME NEW r \in Runs, Submit(r) PROVE TypeOK'
  <2>1. <<r, 1>> \in Keys
    BY DEF Keys, LifecycleAssumption
  <2>2. runs' \in [Runs -> Columns] /\ rows' \in [Keys -> Columns]
    BY <1>1, StatusTypes DEF Submit
  <2>3. /\ api' \in ApiType /\ api'.key = <<r, 1>>
        /\ api'.pc \in {"pending_load", "enqueue"}
        /\ api'.pc = "pending_load" => Inspects(<<r, 1>>)
    BY <1>1, <2>1 DEF Submit, ApiType, Inspects
  <2> QED
    BY <1>1, <2>1, <2>2, <2>3 DEF Submit, ModelPcs, Inspects
<1>2. ASSUME NEW r \in Runs, CancelLoad(r) PROVE TypeOK'
  <2> DEFINE k == LastAttempt(r)
             stop == k \in recorded
  <2>1. k \in Keys /\ stop \in BOOLEAN
    BY <1>2, AttemptNumbers DEF CancelLoad
  <2>2. PairOf(k) \in Pair
    BY <2>1, PairOfType
  <2>3. api' = [api EXCEPT !.pc = "cancel", !.key = k, !.seen = PairOf(k),
                           !.stop = stop]
    BY <1>2 DEF CancelLoad
  <2> HIDE DEF k, stop
  <2>4. api' \in ApiType /\ api'.pc = "cancel" /\ api'.key = k
    BY <2>1, <2>2, <2>3 DEF ApiType
  <2> QED
    BY <1>2, <2>1, <2>4 DEF CancelLoad, ModelPcs
<1>3. ASSUME NEW r \in Runs, RetryLoad(r) PROVE TypeOK'
  <2> DEFINE k == NextAttempt(r)
  <2>1. k \in Keys
    BY <1>3, AttemptNumbers DEF RetryLoad
  <2>2. [NoPair EXCEPT !.run = runs[r]] \in Pair
    BY DEF NoPair, Pair, Columns
  <2>3. api' = [api EXCEPT !.pc = "retry", !.key = k,
                           !.seen = [NoPair EXCEPT !.run = runs[r]]]
    BY <1>3 DEF RetryLoad, ApiType
  <2> HIDE DEF k
  <2>4. api' \in ApiType /\ api'.pc = "retry" /\ api'.key = k
    BY <2>1, <2>2, <2>3 DEF ApiType
  <2> QED
    BY <1>3, <2>1, <2>4 DEF RetryLoad, ModelPcs
<1> QED
  BY <1>1, <1>2, <1>3 DEF Request

(* After its commit a cancellation goes on to the container or the model.  *)
LEMMA CancelGoes ==
    ASSUME api \in ApiType, NEW pc \in {"stop", "record_load"}
    PROVE  LET next == [api EXCEPT !.pc = pc, !.seen = NoPair] IN
           next \in ApiType /\ next.pc = pc /\ next.key = api.key
<1>1. NoPair \in Pair
  BY IdleTypes
<1> QED
  BY <1>1 DEF ApiType

LEMMA TypeHandle == ASSUME TypeOK, Handle PROVE TypeOK'
<1> USE DEF TypeOK, At, db, docker, memory, ApiAt
<1>1. api.key \in Keys /\ api.seen \in Pair /\ api.model \in ModelRows
  BY DEF Handle, PendingLoad, MarkPending, ApiEnqueue, CancelCommit, CancelStop,
         CancelRecordLoad, CancelRecord, Retry, ApiType
<1>2. ApiIdle \in ApiType /\ ApiIdle.pc = "idle"
  BY IdleTypes DEF ApiIdle
<1>3. CASE PendingLoad
  <2>1. Inspects(api.key) /\ models[ModelOf[api.key[1]]] \in ModelRows
    BY <1>1, <1>3, ModelOfType DEF PendingLoad, ModelPcs
  <2>2. api' \in ApiType /\ api'.pc = "pending" /\ api'.key = api.key
    BY <1>3, <2>1 DEF PendingLoad, ApiType
  <2> QED
    BY <1>1, <1>3, <2>1, <2>2 DEF PendingLoad, Inspects
<1>4. CASE MarkPending
  <2>1. models' \in [Models -> ModelRows]
    BY <1>1, <1>4, CommitModelType DEF MarkPending, ModelPcs, ModelStatuses
  <2>2. api' \in ApiType /\ api'.pc = "enqueue" /\ api'.key = api.key
    BY <1>4, IdleTypes DEF MarkPending, ApiType
  <2> QED
    BY <1>1, <1>4, <2>1, <2>2 DEF MarkPending, ModelPcs
<1>5. CASE ApiEnqueue
  <2>1. queue' \in Seq(Items) /\ pending' \subseteq Keys
    BY <1>1, <1>5, EnqueueType DEF ApiEnqueue
  <2> QED
    BY <1>2, <1>5, <2>1 DEF ApiEnqueue, ModelPcs
<1>6. CASE CancelCommit
  <2>1. runs' \in [Runs -> Columns] /\ rows' \in [Keys -> Columns]
    BY <1>1, <1>6, CommitStatusType, StatusTypes DEF CancelCommit
  <2>2. \/ api' = [api EXCEPT !.pc = "stop", !.seen = NoPair]
        \/ api' = [api EXCEPT !.pc = "record_load", !.seen = NoPair] /\ Inspects(api.key)
        \/ api' = ApiIdle
    BY <1>6 DEF CancelCommit
  <2>3. /\ api' \in ApiType /\ api'.pc \in {"stop", "record_load", "idle"}
        /\ api'.pc # "idle" => api'.key = api.key
        /\ api'.pc = "record_load" => Inspects(api.key)
    BY <1>2, <2>2, CancelGoes
  <2> QED
    BY <1>1, <1>6, <2>1, <2>3 DEF CancelCommit, ModelPcs, Inspects
<1>7. CASE CancelStop
  <2>1. /\ box' \in [Keys -> {"none", "created", "running", "exited", "gone"}]
        /\ result' \in [Keys -> Results]
        /\ faults' \in 0..MaxFaults
    BY <1>7, StopContainerType, FailsType DEF CancelStop
  <2> QED
    BY <1>2, <1>7, <2>1 DEF CancelStop, ModelPcs
<1>8. CASE CancelRecordLoad
  <2>1. Inspects(api.key) /\ models[ModelOf[api.key[1]]] \in ModelRows
    BY <1>1, <1>8, ModelOfType DEF CancelRecordLoad, ModelPcs
  <2>2. api' \in ApiType /\ api'.pc = "record" /\ api'.key = api.key
    BY <1>8, <2>1 DEF CancelRecordLoad, ApiType
  <2> QED
    BY <1>1, <1>8, <2>1, <2>2 DEF CancelRecordLoad, Inspects
<1>9. CASE CancelRecord
  <2>1. Inspects(api.key) /\ Verdicts("CANCELLED", "none") \subseteq ModelStatuses
    BY <1>9, VerdictsType DEF CancelRecord, ModelPcs, Results
  <2>2. models' \in [Models -> ModelRows]
    BY <1>1, <1>9, <2>1, CommitModelType DEF CancelRecord
  <2> QED
    BY <1>2, <1>9, <2>2 DEF CancelRecord, ModelPcs
<1>10. CASE Retry
  <2>1. runs' \in [Runs -> Columns] /\ rows' \in [Keys -> Columns]
    BY <1>1, <1>10, CommitStatusType, StatusTypes DEF Retry
  <2>2. /\ api' \in ApiType /\ api'.key = api.key
        /\ api'.pc \in {"pending_load", "enqueue"}
        /\ api'.pc = "pending_load" => Inspects(api.key)
    BY <1>10, IdleTypes DEF Retry, ApiType
  <2> QED
    BY <1>1, <1>10, <2>1, <2>2 DEF Retry, ModelPcs, Inspects
<1> QED
  BY <1>3, <1>4, <1>5, <1>6, <1>7, <1>8, <1>9, <1>10 DEF Handle

LEMMA TypeEnvironment ==
    ASSUME TypeOK, (\E k \in Keys : ContainerExit(k)) \/ Restart
    PROVE  TypeOK'
<1> USE DEF TypeOK, At, db, docker, memory
<1>1. ASSUME NEW k \in Keys, ContainerExit(k) PROVE TypeOK'
  BY <1>1, StopContainerType DEF ContainerExit
<1>2. CASE Restart
  <2>1. wk' \in WorkerType /\ wk'.pc = "reconcile" /\ api' \in ApiType /\ api'.pc = "idle"
    BY <1>2, IdleTypes DEF Restart, ReconcilePcs, WorkerAt, ApiIdle
  <2>2. queue' \in Seq(Items) /\ pending' \subseteq Keys
    BY <1>2, EmptySeq DEF Restart
  <2>3. crashes' \in 0..MaxCrashes
    BY <1>2 DEF Restart, LifecycleAssumption
  <2> QED
    BY <1>2, <2>1, <2>2, <2>3 DEF Restart, ExecutePcs, EndingPcs, ModelPcs
<1> QED
  BY <1>1, <1>2

LEMMA TypeStep == TypeOK /\ [Next]_vars => TypeOK'
<1> SUFFICES ASSUME TypeOK, [Next]_vars PROVE TypeOK'
  OBVIOUS
<1>1. CASE UNCHANGED vars
  BY <1>1 DEF TypeOK, vars, At, Inspects
<1> QED
  BY <1>1, TypeReconcile, TypeExecute, TypeRequest, TypeHandle, TypeEnvironment DEF Next

(* Every reachable state is well typed: the threads never use an attempt,  *)
(* a snapshot or a model that is not there.                                *)
THEOREM TypeCorrect == Spec => []TypeOK
<1> QED
  BY TypeInit, TypeStep, PTL DEF Spec

----------------------------------------------------------------------------
(* Success is earned                                                       *)

LEMMA SuccessInit == Init => SuccessIsEarned
BY DEF Init, WorkerAt, SuccessIsEarned, HoldsCreated, HoldsExited, ResultIsRead,
       OutcomeIsEarned, SuccessGate, At, Absent

(* Where SuccessIsEarned says something of the worker.                     *)
EarningPcs == {"running_load", "running", "discard", "start", "collect", "check", "remove",
               "cleanup_stop", "cleanup_remove", "cleanup_result", "finish_load", "finish"}

LEMMA Elsewhere ==
    ASSUME SuccessGate', wk'.pc \notin EarningPcs
    PROVE  SuccessIsEarned'
BY DEF EarningPcs, SuccessIsEarned, HoldsCreated, HoldsExited, ResultIsRead,
       OutcomeIsEarned, At

(* The gate stands when nothing is reported anew and what was removed stays*)
(* removed.                                                                *)
LEMMA GateKept ==
    ASSUME SuccessGate,
           \A l \in Keys : rows'[l] = "SUCCEEDED" => rows[l] = "SUCCEEDED",
           \A l \in Keys : box[l] = "gone" => box'[l] = "gone" /\ result'[l] = result[l]
    PROVE  SuccessGate'
BY DEF SuccessGate

(* What others do to a container the worker holds, or to its attempt.      *)
LEMMA OthersKeep ==
    ASSUME TypeOK, SuccessIsEarned, wk' = wk,
           \A l \in Keys : rows'[l] = "SUCCEEDED" => rows[l] = "SUCCEEDED",
           \A l \in Keys : box[l] # "running" => box'[l] = box[l] /\ result'[l] = result[l]
    PROVE  SuccessIsEarned'
<1>1. SuccessGate'
  BY GateKept DEF SuccessIsEarned
<1>2. wk.pc \in EarningPcs => wk.key \in Keys
  BY DEF TypeOK, EarningPcs, ExecutePcs, EndingPcs
<1> QED
  BY <1>1, <1>2 DEF SuccessIsEarned, HoldsCreated, HoldsExited, ResultIsRead,
                    OutcomeIsEarned, At, EarningPcs

LEMMA StopKeeps ==
    ASSUME TypeOK, NEW k, StopContainer(k)
    PROVE  \A l \in Keys : box[l] # "running" => box'[l] = box[l] /\ result'[l] = result[l]
BY DEF StopContainer, docker, TypeOK

LEMMA CommitKeeps ==
    ASSUME TypeOK, NEW k, NEW seen, NEW status, status # "SUCCEEDED",
           CommitStatus(k, seen, status)
    PROVE  \A l \in Keys : rows'[l] = "SUCCEEDED" => rows[l] = "SUCCEEDED"
BY DEF CommitStatus, Flush, TypeOK

LEMMA SuccessReconcile ==
    ASSUME TypeOK, SuccessIsEarned, Reconcile
    PROVE  SuccessIsEarned'
<1> USE DEF At, db, docker, memory
<1>1. SuccessGate /\ wk \in WorkerType
  BY DEF SuccessIsEarned, TypeOK
<1>2. CASE ReadActive
  BY <1>1, <1>2, Elsewhere, GateKept DEF ReadActive, WorkerType, EarningPcs
<1>3. CASE ListContainers
  BY <1>1, <1>3, Elsewhere, GateKept DEF ListContainers, WorkerType, EarningPcs
<1>4. CASE ListFails
  BY <1>1, <1>4, Elsewhere, GateKept DEF ListFails, Goto, WorkerType, EarningPcs
<1>5. CASE IdentityFails
  BY <1>1, <1>5, Elsewhere, GateKept DEF IdentityFails, WorkerAt, EarningPcs
<1>6. CASE RestoreRecovered
  BY <1>1, <1>6, Elsewhere, GateKept DEF RestoreRecovered, WorkerType, EarningPcs
<1>7. CASE RestoreLost
  <2>1. SuccessGate'
    BY <1>1, <1>7, GateKept DEF RestoreLost
  <2>2. wk'.pc = "finish_load" /\ wk'.outcome = "INTERRUPTED"
    BY <1>1, <1>7 DEF RestoreLost, WorkerType
  <2> QED
    BY <2>1, <2>2 DEF SuccessIsEarned, HoldsCreated, HoldsExited, ResultIsRead,
                      OutcomeIsEarned
<1>8. CASE Restored
  BY <1>1, <1>8, Elsewhere, GateKept DEF Restored, WorkerAt, EarningPcs
<1>9. CASE OrphanStop
  BY <1>9, OthersKeep, StopKeeps DEF OrphanStop
<1>10. CASE OrphanRemove
  <2>1. \A l \in Keys : box[l] = "gone" => box'[l] = "gone" /\ result'[l] = result[l]
    BY <1>10 DEF OrphanRemove, RemoveContainer, TypeOK
  <2> QED
    BY <1>1, <1>10, <2>1, Elsewhere, GateKept DEF OrphanRemove, WorkerType, EarningPcs
<1>11. CASE OrphanFails
  BY <1>1, <1>11, Elsewhere, GateKept DEF OrphanFails, WorkerType, EarningPcs
<1>12. CASE ReadQueued
  BY <1>1, <1>12, Elsewhere, GateKept DEF ReadQueued, WorkerType, EarningPcs
<1>13. CASE Requeue
  BY <1>1, <1>13, Elsewhere, GateKept DEF Requeue, WorkerType, EarningPcs
<1>14. CASE Reconciled
  BY <1>1, <1>14, Elsewhere, GateKept DEF Reconciled, WorkerAt, EarningPcs
<1> QED
  BY <1>2, <1>3, <1>4, <1>5, <1>6, <1>7, <1>8, <1>9, <1>10, <1>11, <1>12, <1>13, <1>14
     DEF Reconcile

LEMMA SuccessExecute ==
    ASSUME TypeOK, SuccessIsEarned, Execute
    PROVE  SuccessIsEarned'
<1> USE DEF At, db, docker, memory
<1>1. SuccessGate /\ wk \in WorkerType
  BY DEF SuccessIsEarned, TypeOK
<1>2. wk.pc \in EarningPcs \cup {"create", "claim", "stage", "stream"} => wk.key \in Keys
  BY DEF TypeOK, EarningPcs, ExecutePcs, EndingPcs
<1>3. CASE Get
  BY <1>1, <1>3, Elsewhere, GateKept DEF Get, WorkerType, EarningPcs
<1>4. CASE Recover
  BY <1>1, <1>4, Elsewhere, GateKept DEF Recover, WorkerType, EarningPcs
<1>5. CASE RecoverFails
  BY <1>1, <1>5, Elsewhere, GateKept DEF RecoverFails, Goto, WorkerType, EarningPcs
<1>6. CASE ClaimLoad
  BY <1>1, <1>6, Elsewhere, GateKept DEF ClaimLoad, WorkerType, EarningPcs
<1>7. CASE Claim
  <2>1. SuccessGate'
    BY <1>1, <1>7, CommitKeeps, GateKept DEF Claim
  <2>2. wk'.pc = "create"
    BY <1>1, <1>7 DEF Claim, Return, WorkerType
  <2> QED
    BY <2>1, <2>2, Elsewhere DEF EarningPcs
<1>8. CASE Create
  <2>1. \A l \in Keys : box[l] = "gone" => box'[l] = "gone" /\ result'[l] = result[l]
    BY <1>8 DEF Create, TypeOK
  <2>2. SuccessGate'
    BY <1>1, <1>8, <2>1, GateKept DEF Create
  <2>3. wk'.pc = "running_load" /\ wk'.key = wk.key /\ box'[wk.key] = "created"
    BY <1>1, <1>2, <1>8 DEF Create, WorkerType, TypeOK
  <2> QED
    BY <2>2, <2>3 DEF SuccessIsEarned, HoldsCreated, HoldsExited, ResultIsRead,
                      OutcomeIsEarned
<1>9. CASE CreateFails
  BY <1>1, <1>9, Elsewhere, GateKept DEF CreateFails, Goto, WorkerType, EarningPcs
<1>10. CASE RunningLoad
  <2>1. SuccessGate'
    BY <1>1, <1>10, GateKept DEF RunningLoad
  <2>2. wk'.pc = "running" /\ wk'.key = wk.key
    BY <1>1, <1>10 DEF RunningLoad, WorkerType
  <2> QED
    BY <1>10, <2>1, <2>2 DEF RunningLoad, SuccessIsEarned, HoldsCreated, HoldsExited,
                             ResultIsRead, OutcomeIsEarned
<1>11. CASE SetRunning
  <2>1. \A l \in Keys : rows'[l] = "SUCCEEDED" => rows[l] = "SUCCEEDED"
    BY <1>11, CommitKeeps DEF SetRunning
  <2>2. SuccessGate'
    BY <1>1, <1>11, <2>1, GateKept DEF SetRunning
  <2>3. wk'.pc \in {"start", "discard"} /\ wk'.key = wk.key
    BY <1>1, <1>11 DEF SetRunning, Return, WorkerType
  <2> QED
    BY <1>11, <2>2, <2>3 DEF SetRunning, SuccessIsEarned, HoldsCreated, HoldsExited,
                             ResultIsRead, OutcomeIsEarned
<1>12. CASE Discard
  <2>1. \A l \in Keys : box[l] = "gone" => box'[l] = "gone" /\ result'[l] = result[l]
    BY <1>12 DEF Discard, RemoveContainer, TypeOK
  <2>2. SuccessGate'
    BY <1>1, <1>12, <2>1, GateKept DEF Discard
  <2>3. wk'.pc = "finish_load" /\ wk'.outcome = "CANCELLED"
    BY <1>1, <1>12 DEF Discard, WorkerType
  <2> QED
    BY <2>2, <2>3 DEF SuccessIsEarned, HoldsCreated, HoldsExited, ResultIsRead,
                      OutcomeIsEarned
<1>13. CASE Start
  <2>1. box[wk.key] = "created"
    BY <1>13 DEF Start, SuccessIsEarned, HoldsCreated
  <2>2. \A l \in Keys : box[l] = "gone" => box'[l] = "gone" /\ result'[l] = result[l]
    BY <1>13, <2>1 DEF Start, TypeOK
  <2>3. SuccessGate'
    BY <1>1, <1>13, <2>2, GateKept DEF Start
  <2> QED
    BY <1>1, <1>13, <2>3, Elsewhere DEF Start, Goto, WorkerType, EarningPcs
<1>14. CASE StageEvent
  BY <1>1, <1>14, Elsewhere, GateKept DEF StageEvent, WorkerType, EarningPcs
<1>15. CASE SetStage
  <2>1. wk.stage # "SUCCEEDED"
    BY <1>1 DEF WorkerType, StagesAssumption, TerminalStatuses
  <2>2. \A l \in Keys : rows'[l] = "SUCCEEDED" => rows[l] = "SUCCEEDED"
    BY <1>15, <2>1, CommitKeeps DEF SetStage
  <2>3. SuccessGate'
    BY <1>1, <1>15, <2>2, GateKept DEF SetStage
  <2>4. wk'.pc = "stream"
    BY <1>1, <1>15 DEF SetStage, Return, WorkerType
  <2> QED
    BY <2>3, <2>4, Elsewhere DEF EarningPcs
<1>16. CASE LogEnds
  <2>1. SuccessGate'
    BY <1>1, <1>16, GateKept DEF LogEnds
  <2>2. wk'.pc = "collect" /\ wk'.key = wk.key
    BY <1>1, <1>16 DEF LogEnds, Goto, WorkerType
  <2> QED
    BY <1>16, <2>1, <2>2 DEF LogEnds, SuccessIsEarned, HoldsCreated, HoldsExited,
                             ResultIsRead, OutcomeIsEarned
<1>17. CASE Collect
  <2>1. SuccessGate'
    BY <1>1, <1>17, GateKept DEF Collect
  <2>2. /\ wk'.pc \in {"failed", "check"} /\ wk'.key = wk.key
        /\ wk'.result = result[wk.key]
    BY <1>1, <1>17 DEF Collect, WorkerType
  <2> QED
    BY <1>17, <2>1, <2>2 DEF Collect, SuccessIsEarned, HoldsCreated, HoldsExited,
                             ResultIsRead, OutcomeIsEarned
<1>18. CASE Check
  <2>1. SuccessGate'
    BY <1>1, <1>18, GateKept DEF Check
  <2>2. /\ wk'.pc \in {"failed", "remove"} /\ wk'.key = wk.key
        /\ wk'.pc = "remove" /\ wk'.outcome = "SUCCEEDED" => wk.result = "succeeded"
    <3> DEFINE cancelled == \/ wk.result = "cancelled"
                            \/ CancelRequested(runs[wk.key[1]], wk.key \in cancels)
               pc == IF cancelled \/ Passed(wk.result) THEN "remove" ELSE "failed"
               outcome == IF cancelled THEN "CANCELLED"
                          ELSE IF Passed(wk.result) THEN "SUCCEEDED" ELSE wk.outcome
    <3>1. wk' = [wk EXCEPT !.pc = pc, !.outcome = outcome]
      BY <1>18 DEF Check, WorkerType
    <3>2. /\ pc \in {"failed", "remove"}
          /\ pc = "remove" /\ outcome = "SUCCEEDED" => wk.result = "succeeded"
      BY DEF Passed
    <3> HIDE DEF pc, outcome
    <3> QED
      BY <1>1, <3>1, <3>2 DEF WorkerType
  <2> QED
    BY <1>18, <2>1, <2>2 DEF Check, SuccessIsEarned, HoldsCreated, HoldsExited,
                             ResultIsRead, OutcomeIsEarned
<1>19. CASE Remove
  <2>1. \A l \in Keys : box[l] = "gone" => box'[l] = "gone" /\ result'[l] = result[l]
    BY <1>19 DEF Remove, RemoveContainer, TypeOK
  <2>2. SuccessGate'
    BY <1>1, <1>19, <2>1, GateKept DEF Remove
  <2>3. /\ wk'.pc = "finish_load" /\ wk'.key = wk.key /\ wk'.outcome = wk.outcome
        /\ box'[wk.key] = "gone" /\ result' = result
    BY <1>1, <1>2, <1>19 DEF Remove, RemoveContainer, WorkerType, TypeOK, EarningPcs
  <2> QED
    BY <1>19, <2>2, <2>3 DEF Remove, SuccessIsEarned, HoldsCreated, HoldsExited,
                             ResultIsRead, OutcomeIsEarned
<1>20. CASE DockerStepFails
  BY <1>1, <1>20, Elsewhere, GateKept DEF DockerStepFails, Goto, WorkerType, EarningPcs
<1>21. CASE HandleFailure
  <2>1. SuccessGate'
    BY <1>1, <1>21, GateKept DEF HandleFailure
  <2>2. wk'.pc \in {"cleanup_stop", "cleanup_result"} /\ wk'.outcome # "SUCCEEDED"
    <3> DEFINE requested == CancelRequested(runs[wk.key[1]], wk.key \in cancels)
               outcome == IF requested THEN "CANCELLED" ELSE "FAILED"
               pc == IF wk.held THEN "cleanup_stop" ELSE "cleanup_result"
    <3>1. wk' = [wk EXCEPT !.pc = pc, !.outcome = outcome]
      BY <1>21 DEF HandleFailure
    <3>2. pc \in {"cleanup_stop", "cleanup_result"} /\ outcome # "SUCCEEDED"
      OBVIOUS
    <3> HIDE DEF pc, outcome
    <3> QED
      BY <1>1, <3>1, <3>2 DEF WorkerType
  <2> QED
    BY <2>1, <2>2 DEF SuccessIsEarned, HoldsCreated, HoldsExited, ResultIsRead,
                      OutcomeIsEarned
<1>22. CASE CleanupStop
  <2>1. \A l \in Keys : box[l] # "running" => box'[l] = box[l] /\ result'[l] = result[l]
    BY <1>22, StopKeeps DEF CleanupStop
  <2>2. SuccessGate'
    BY <1>1, <1>22, <2>1, GateKept DEF CleanupStop
  <2>3. wk'.pc = "cleanup_remove" /\ wk'.outcome = wk.outcome
    BY <1>1, <1>22 DEF CleanupStop, Goto, WorkerType
  <2> QED
    BY <1>22, <2>2, <2>3 DEF CleanupStop, SuccessIsEarned, HoldsCreated, HoldsExited,
                             ResultIsRead, OutcomeIsEarned
<1>23. CASE CleanupRemove
  <2>1. \A l \in Keys : box[l] = "gone" => box'[l] = "gone" /\ result'[l] = result[l]
    BY <1>23 DEF CleanupRemove, RemoveContainer, TypeOK
  <2>2. SuccessGate'
    BY <1>1, <1>23, <2>1, GateKept DEF CleanupRemove
  <2>3. wk'.pc = "cleanup_result" /\ wk'.outcome = wk.outcome
    BY <1>1, <1>23 DEF CleanupRemove, WorkerType
  <2> QED
    BY <1>23, <2>2, <2>3 DEF CleanupRemove, SuccessIsEarned, HoldsCreated, HoldsExited,
                             ResultIsRead, OutcomeIsEarned
<1>24. CASE CleanupResult
  <2>1. SuccessGate'
    BY <1>1, <1>24, GateKept DEF CleanupResult
  <2>2. wk'.pc = "finish_load" /\ wk'.outcome = wk.outcome
    BY <1>1, <1>24 DEF CleanupResult, WorkerType
  <2> QED
    BY <1>24, <2>1, <2>2 DEF CleanupResult, SuccessIsEarned, HoldsCreated, HoldsExited,
                             ResultIsRead, OutcomeIsEarned
<1>25. CASE FinishLoad
  <2>1. SuccessGate'
    BY <1>1, <1>25, GateKept DEF FinishLoad
  <2>2. wk'.pc = "finish" /\ wk'.outcome = wk.outcome /\ wk'.key = wk.key
    BY <1>1, <1>25 DEF FinishLoad, WorkerType
  <2> QED
    BY <1>25, <2>1, <2>2 DEF FinishLoad, SuccessIsEarned, HoldsCreated, HoldsExited,
                             ResultIsRead, OutcomeIsEarned
<1>26. CASE Finish
  <2>1. ASSUME NEW l \in Keys, rows'[l] = "SUCCEEDED"
        PROVE  rows[l] = "SUCCEEDED" \/ (l = wk.key /\ wk.outcome = "SUCCEEDED")
    BY <1>26, <2>1 DEF Finish, CommitStatus, Flush, TypeOK
  <2>2. wk.outcome = "SUCCEEDED" => result[wk.key] = "succeeded" /\ box[wk.key] = "gone"
    BY <1>26 DEF Finish, SuccessIsEarned, OutcomeIsEarned
  <2>3. SuccessGate'
    BY <1>1, <1>26, <2>1, <2>2 DEF Finish, SuccessGate
  <2>4. wk'.pc \in {"record_load", "done", "restore"}
    BY <1>1, <1>26 DEF Finish, Return, AfterFinish, WorkerType
  <2> QED
    BY <2>3, <2>4, Elsewhere DEF EarningPcs
<1>27. CASE RecordLoad
  BY <1>1, <1>27, Elsewhere, GateKept DEF RecordLoad, WorkerType, EarningPcs
<1>28. CASE Record
  <2>1. SuccessGate'
    BY <1>1, <1>28, GateKept DEF Record
  <2>2. wk'.pc \in {"done", "restore"}
    BY <1>1, <1>28 DEF Record, Return, AfterFinish, WorkerType
  <2> QED
    BY <2>1, <2>2, Elsewhere DEF EarningPcs
<1>29. CASE Done
  BY <1>1, <1>29, Elsewhere, GateKept DEF Done, WorkerAt, EarningPcs
<1> QED
  BY <1>3, <1>4, <1>5, <1>6, <1>7, <1>8, <1>9, <1>10, <1>11, <1>12, <1>13, <1>14, <1>15,
     <1>16, <1>17, <1>18, <1>19, <1>20, <1>21, <1>22, <1>23, <1>24, <1>25, <1>26,
     <1>27, <1>28, <1>29 DEF Execute

LEMMA SuccessRequest ==
    ASSUME TypeOK, SuccessIsEarned, Request \/ Handle
    PROVE  SuccessIsEarned'
<1> USE DEF db, docker, memory
<1>1. ASSUME NEW r \in Runs, Submit(r) PROVE SuccessIsEarned'
  <2>1. \A l \in Keys : rows'[l] = "SUCCEEDED" => rows[l] = "SUCCEEDED"
    BY <1>1 DEF Submit, TypeOK
  <2> QED
    BY <1>1, <2>1, OthersKeep DEF Submit
<1>2. ASSUME NEW r \in Runs, CancelLoad(r) \/ RetryLoad(r) PROVE SuccessIsEarned'
  BY <1>2, OthersKeep DEF CancelLoad, RetryLoad
<1>3. CASE PendingLoad \/ MarkPending \/ ApiEnqueue \/ CancelRecordLoad \/ CancelRecord
  BY <1>3, OthersKeep DEF PendingLoad, MarkPending, ApiEnqueue, CancelRecordLoad, CancelRecord
<1>4. CASE CancelCommit
  <2>1. CancelTarget(api.seen) # "SUCCEEDED"
    BY DEF CancelTarget
  <2>2. \A l \in Keys : rows'[l] = "SUCCEEDED" => rows[l] = "SUCCEEDED"
    BY <1>4, <2>1, CommitKeeps DEF CancelCommit
  <2> QED
    BY <1>4, <2>2, OthersKeep DEF CancelCommit
<1>5. CASE CancelStop
  <2>1. \A l \in Keys : box[l] # "running" => box'[l] = box[l] /\ result'[l] = result[l]
    BY <1>5, StopKeeps DEF CancelStop
  <2> QED
    BY <1>5, <2>1, OthersKeep DEF CancelStop
<1>6. CASE Retry
  <2>1. \A l \in Keys : rows'[l] = "SUCCEEDED" => rows[l] = "SUCCEEDED"
    BY <1>6, CommitKeeps DEF Retry
  <2> QED
    BY <1>6, <2>1, OthersKeep DEF Retry
<1> QED
  BY <1>1, <1>2, <1>3, <1>4, <1>5, <1>6 DEF Request, Handle

LEMMA SuccessStep ==
    TypeOK /\ SuccessIsEarned /\ [Next]_vars => SuccessIsEarned'
<1> SUFFICES ASSUME TypeOK, SuccessIsEarned, [Next]_vars PROVE SuccessIsEarned'
  OBVIOUS
<1>1. CASE UNCHANGED vars
  BY <1>1, OthersKeep DEF vars
<1>2. ASSUME NEW k \in Keys, ContainerExit(k) PROVE SuccessIsEarned'
  <2>1. \A l \in Keys : box[l] # "running" => box'[l] = box[l] /\ result'[l] = result[l]
    BY <1>2, StopKeeps DEF ContainerExit
  <2> QED
    BY <1>2, <2>1, OthersKeep DEF ContainerExit, db
<1>3. CASE Restart
  BY <1>3, Elsewhere, GateKept
     DEF Restart, WorkerAt, EarningPcs, SuccessIsEarned, db, docker
<1> QED
  BY <1>1, <1>2, <1>3, SuccessReconcile, SuccessExecute, SuccessRequest DEF Next

(* What the worker knows of the container and the result between its calls *)
(* stays true until it stores the outcome (RunService.execute), although   *)
(* handlers, restarts and containers go on meanwhile.                      *)
THEOREM SuccessEarned == Spec => []SuccessIsEarned
<1> QED
  BY TypeInit, TypeStep, SuccessInit, SuccessStep, PTL DEF Spec

(* However many restarts, faults, cancellations and retries: an attempt is *)
(* shown as succeeded only when its runner exited with 0 and a succeeded   *)
(* result and its container was removed (the end of RunService.execute).   *)
THEOREM SuccessIsGated == Spec => []SuccessGate
<1>1. SuccessIsEarned => SuccessGate
  BY DEF SuccessIsEarned
<1> QED
  BY <1>1, SuccessEarned, PTL

----------------------------------------------------------------------------
(* What each step of the worker does to its place and its task             *)

Moves(from, to) == wk.pc = from /\ wk'.pc = to
SameTask   == wk'.key = wk.key /\ wk'.serving = wk.serving
SameSets   == /\ wk'.todo = wk.todo /\ wk'.recover = wk.recover
              /\ wk'.orphans = wk.orphans
SameResult == wk'.result = wk.result
SameHeld   == wk'.held = wk.held
SameSeen   == wk'.seen = wk.seen
InMemory   == UNCHANGED <<db, docker, memory, api, crashes>>

USE DEF At, ApiAt, db, docker, memory, Moves, SameTask, SameSets, SameResult,
        SameHeld, SameSeen, InMemory

LEMMA ReadActiveStep ==
    ASSUME TypeOK, ReadActive
    PROVE  /\ Moves("reconcile", "list") /\ SameTask /\ SameResult
           /\ wk'.todo = {k \in Keys : IsActive(PairOf(k))}
           /\ InMemory
BY DEF ReadActive, TypeOK, WorkerType

LEMMA ListContainersStep ==
    ASSUME TypeOK, ListContainers
    PROVE  /\ Moves("list", "restore") /\ SameTask /\ SameResult
           /\ wk'.todo = wk.todo
           /\ \A k \in Keys : k \in wk'.recover <=>
                  k \in wk.todo /\ k \in recorded /\ box[k] \in Present
           /\ \A k \in Keys : k \in wk'.orphans <=> k \notin wk.todo /\ box[k] \in Present
           /\ InMemory
BY DEF ListContainers, TypeOK, WorkerType

LEMMA ListFailsStep ==
    ASSUME TypeOK, ListFails
    PROVE  /\ Moves("list", "restore") /\ SameTask /\ SameResult /\ SameSets
           /\ "list" \in FaultKinds
           /\ InMemory
BY DEF ListFails, Goto, Fails, TypeOK, WorkerType

LEMMA IdentityFailsStep ==
    ASSUME TypeOK, IdentityFails
    PROVE  /\ Moves("list", "dead")
           /\ ~ wk'.serving /\ wk'.result = "none"
           /\ InMemory
BY DEF IdentityFails, WorkerAt, TypeOK, WorkerType

LEMMA RestoreRecoveredStep ==
    ASSUME TypeOK, RestoreRecovered
    PROVE  /\ Moves("restore", "restore") /\ SameTask /\ SameResult
           /\ wk'.recover = wk.recover /\ wk'.orphans = wk.orphans
           /\ \E k \in wk.todo \cap wk.recover :
                  Enqueue(k, TRUE) /\ wk'.todo = wk.todo \ {k}
           /\ UNCHANGED <<db, docker, api, crashes>>
BY DEF RestoreRecovered, TypeOK, WorkerType

LEMMA RestoreLostStep ==
    ASSUME TypeOK, RestoreLost
    PROVE  /\ Moves("restore", "finish_load")
           /\ wk'.serving = wk.serving
           /\ wk'.result = "none"
           /\ wk'.recover = wk.recover /\ wk'.orphans = wk.orphans
           /\ \E k \in wk.todo \ wk.recover :
                  wk'.key = k /\ wk'.todo = wk.todo \ {k}
           /\ InMemory
BY DEF RestoreLost, TypeOK, WorkerType

LEMMA RestoredStep ==
    ASSUME TypeOK, Restored
    PROVE  /\ Moves("restore", "orphans") /\ wk.todo = {}
           /\ ~ wk'.serving /\ wk'.todo = wk.orphans
           /\ InMemory
BY DEF Restored, WorkerAt, TypeOK, WorkerType

LEMMA OrphanStopStep ==
    ASSUME TypeOK, OrphanStop
    PROVE  /\ wk.pc = "orphans" /\ UNCHANGED wk
           /\ \E k \in wk.todo : box[k] = "running" /\ StopContainer(k)
           /\ UNCHANGED <<db, memory, api, crashes>>
BY DEF OrphanStop, TypeOK, WorkerType

LEMMA OrphanRemoveStep ==
    ASSUME TypeOK, OrphanRemove
    PROVE  /\ Moves("orphans", "orphans") /\ SameTask /\ SameResult
           /\ \E k \in wk.todo : RemoveContainer(k) /\ wk'.todo = wk.todo \ {k}
           /\ UNCHANGED <<db, memory, api, crashes>>
BY DEF OrphanRemove, TypeOK, WorkerType

LEMMA OrphanFailsStep ==
    ASSUME TypeOK, OrphanFails
    PROVE  /\ Moves("orphans", "orphans") /\ SameTask /\ SameResult
           /\ \E k \in wk.todo :
              /\ wk'.todo = wk.todo \ {k}
              /\ box[k] = "running" => "stop" \in FaultKinds
           /\ InMemory
BY DEF OrphanFails, Fails, TypeOK, WorkerType

LEMMA ReadQueuedStep ==
    ASSUME TypeOK, ReadQueued
    PROVE  /\ Moves("orphans", "requeue") /\ SameTask /\ SameResult
           /\ wk'.todo = {k \in Keys : IsQueued(PairOf(k))}
           /\ InMemory
BY DEF ReadQueued, TypeOK, WorkerType

LEMMA RequeueStep ==
    ASSUME TypeOK, Requeue
    PROVE  /\ Moves("requeue", "requeue") /\ SameTask /\ SameResult
           /\ \E k \in wk.todo : Enqueue(k, FALSE) /\ wk'.todo = wk.todo \ {k}
           /\ UNCHANGED <<db, docker, api, crashes>>
BY DEF Requeue, TypeOK, WorkerType

LEMMA ReconciledStep ==
    ASSUME TypeOK, Reconciled
    PROVE  /\ Moves("requeue", "idle") /\ wk.todo = {}
           /\ wk'.serving /\ wk'.result = "none"
           /\ InMemory
BY DEF Reconciled, WorkerAt, TypeOK, WorkerType

(* The worker takes the first work item.                                   *)
LEMMA GetStep ==
    ASSUME TypeOK, Get
    PROVE  /\ wk.pc = "idle" /\ queue # <<>> /\ queue' = Tail(queue)
           /\ wk'.key = Head(queue).key
           /\ Head(queue).recover => wk'.pc = "recover"
           /\ ~ Head(queue).recover => wk'.pc = "claim_load"
           /\ wk'.serving = wk.serving /\ SameSets /\ SameResult
           /\ UNCHANGED <<db, docker, pending, api, crashes>>
BY DEF Get, TypeOK, WorkerType

LEMMA RecoverStep ==
    ASSUME TypeOK, Recover
    PROVE  /\ Moves("recover", "stream")
           /\ SameTask /\ SameSets /\ SameResult
           /\ wk'.held
           /\ CanRecover(wk.key)
           /\ InMemory
BY DEF Recover, TypeOK, WorkerType

LEMMA RecoverFailsStep ==
    ASSUME TypeOK, RecoverFails
    PROVE  /\ Moves("recover", "failed")
           /\ SameTask /\ SameSets /\ SameResult
           /\ SameHeld
           /\ CanRecover(wk.key) => "recover" \in FaultKinds
           /\ InMemory
BY DEF RecoverFails, Goto, Fails, TypeOK, WorkerType

LEMMA ClaimLoadStep ==
    ASSUME TypeOK, ClaimLoad
    PROVE  /\ wk.pc = "claim_load" /\ wk'.pc \in {"claim", "done"}
           /\ SameTask /\ SameSets /\ SameResult
           /\ wk'.pc = "claim" <=> CanClaim(PairOf(wk.key))
           /\ wk'.seen = PairOf(wk.key)
           /\ InMemory
BY DEF ClaimLoad, TypeOK, WorkerType

LEMMA ClaimStep ==
    ASSUME TypeOK, Claim
    PROVE  /\ Moves("claim", "create")
           /\ SameTask /\ SameSets /\ SameResult
           /\ CommitStatus(wk.key, wk.seen, "PROVISIONING")
           /\ UNCHANGED <<recorded, cancels, models, docker, memory, api, crashes>>
BY DEF Claim, Return, TypeOK, WorkerType

LEMMA CreateStep ==
    ASSUME TypeOK, Create
    PROVE  /\ Moves("create", "running_load")
           /\ SameTask /\ SameSets /\ SameResult
           /\ wk'.held
           /\ box[wk.key] = "none"
           /\ box' = [box EXCEPT ![wk.key] = "created"]
           /\ UNCHANGED <<db, result, memory, api, crashes>>
BY DEF Create, TypeOK, WorkerType

LEMMA CreateFailsStep ==
    ASSUME TypeOK, CreateFails
    PROVE  /\ Moves("create", "failed")
           /\ SameTask /\ SameSets /\ SameResult
           /\ SameHeld
           /\ InMemory
BY DEF CreateFails, Goto, TypeOK, WorkerType

LEMMA RunningLoadStep ==
    ASSUME TypeOK, RunningLoad
    PROVE  /\ Moves("running_load", "running")
           /\ SameTask /\ SameSets /\ SameResult
           /\ wk'.seen = PairOf(wk.key) /\ SameHeld
           /\ InMemory
BY DEF RunningLoad, TypeOK, WorkerType

LEMMA SetRunningStep ==
    ASSUME TypeOK, SetRunning
    PROVE  /\ wk.pc = "running" /\ wk'.pc \in {"start", "discard"}
           /\ SameTask /\ SameSets /\ SameResult
           /\ SameHeld
           /\ recorded' = recorded \cup {wk.key}
           /\ \/ wk'.pc = "start" /\ CanProgress(wk.seen) /\ CommitStatus(wk.key, wk.seen, "RUNNING")
              \/ wk'.pc = "discard" /\ ~ CanProgress(wk.seen) /\ UNCHANGED <<runs, rows>>
           /\ UNCHANGED <<cancels, models, docker, memory, api, crashes>>
<1>1. wk.pc = "running" /\ wk \in WorkerType
  BY DEF SetRunning, At, TypeOK
<1>2. PICK pc \in {"start", "discard"} :
        /\ Return(pc)
        /\ \/ pc = "start" /\ CanProgress(wk.seen) /\ CommitStatus(wk.key, wk.seen, "RUNNING")
           \/ pc = "discard" /\ ~ CanProgress(wk.seen) /\ UNCHANGED <<runs, rows>>
  BY DEF SetRunning
<1>3. wk'.pc = pc /\ SameTask /\ SameSets /\ SameResult /\ SameHeld
  BY <1>1, <1>2 DEF Return, WorkerType
<1> QED
  BY <1>1, <1>2, <1>3 DEF SetRunning

LEMMA DiscardStep ==
    ASSUME TypeOK, Discard
    PROVE  /\ Moves("discard", "finish_load")
           /\ SameTask /\ SameSets /\ SameResult
           /\ RemoveContainer(wk.key)
           /\ UNCHANGED <<db, memory, api, crashes>>
BY DEF Discard, TypeOK, WorkerType

LEMMA StartStep ==
    ASSUME TypeOK, Start
    PROVE  /\ Moves("start", "stream")
           /\ SameTask /\ SameSets /\ SameResult
           /\ SameHeld
           /\ box' = [box EXCEPT ![wk.key] = "running"]
           /\ UNCHANGED <<db, result, memory, api, crashes>>
BY DEF Start, Goto, TypeOK, WorkerType

LEMMA StageEventStep ==
    ASSUME TypeOK, StageEvent
    PROVE  /\ Moves("stream", "stage")
           /\ SameTask /\ SameSets /\ SameResult
           /\ wk'.seen = PairOf(wk.key) /\ wk'.stage \in Stages /\ SameHeld
           /\ InMemory
BY DEF StageEvent, TypeOK, WorkerType

LEMMA SetStageStep ==
    ASSUME TypeOK, SetStage
    PROVE  /\ Moves("stage", "stream")
           /\ SameTask /\ SameSets /\ SameResult
           /\ SameHeld
           /\ \/ CanProgress(wk.seen) /\ CommitStatus(wk.key, wk.seen, wk.stage)
              \/ ~ CanProgress(wk.seen) /\ UNCHANGED <<runs, rows>>
           /\ UNCHANGED <<recorded, cancels, models, docker, memory, api, crashes>>
BY DEF SetStage, Return, TypeOK, WorkerType

LEMMA LogEndsStep ==
    ASSUME TypeOK, LogEnds
    PROVE  /\ Moves("stream", "collect")
           /\ SameTask /\ SameSets /\ SameResult
           /\ SameHeld
           /\ box[wk.key] = "exited"
           /\ InMemory
BY DEF LogEnds, Goto, TypeOK, WorkerType

LEMMA CollectStep ==
    ASSUME TypeOK, Collect
    PROVE  /\ wk.pc = "collect" /\ wk'.pc \in {"failed", "check"}
           /\ SameTask /\ SameSets
           /\ SameHeld
           /\ wk'.result = result[wk.key]
           /\ InMemory
BY DEF Collect, TypeOK, WorkerType

LEMMA CheckStep ==
    ASSUME TypeOK, Check
    PROVE  /\ wk.pc = "check" /\ wk'.pc \in {"failed", "remove"}
           /\ SameTask /\ SameSets /\ SameResult
           /\ SameHeld
           /\ InMemory
BY DEF Check, TypeOK, WorkerType

LEMMA RemoveStep ==
    ASSUME TypeOK, Remove
    PROVE  /\ Moves("remove", "finish_load")
           /\ SameTask /\ SameSets /\ SameResult
           /\ RemoveContainer(wk.key)
           /\ UNCHANGED <<db, memory, api, crashes>>
BY DEF Remove, TypeOK, WorkerType

LEMMA DockerStepFailsStep ==
    ASSUME TypeOK, DockerStepFails
    PROVE  /\ wk.pc \in {"discard", "remove", "start", "stream"} /\ wk'.pc = "failed"
           /\ SameTask /\ SameSets /\ SameResult
           /\ SameHeld
           /\ InMemory
BY DEF DockerStepFails, Goto, TypeOK, WorkerType

LEMMA HandleFailureStep ==
    ASSUME TypeOK, HandleFailure
    PROVE  /\ wk.pc = "failed" /\ wk'.pc \in {"cleanup_stop", "cleanup_result"}
           /\ SameTask /\ SameSets /\ SameResult
           /\ wk'.pc = "cleanup_stop" <=> wk.held
           /\ SameHeld
           /\ InMemory
BY DEF HandleFailure, TypeOK, WorkerType

LEMMA CleanupStopStep ==
    ASSUME TypeOK, CleanupStop
    PROVE  /\ Moves("cleanup_stop", "cleanup_remove")
           /\ SameTask /\ SameSets /\ SameResult
           /\ \/ StopContainer(wk.key)
              \/ "stop" \in FaultKinds /\ UNCHANGED docker
           /\ UNCHANGED <<db, memory, api, crashes>>
BY DEF CleanupStop, Goto, Fails, TypeOK, WorkerType

LEMMA CleanupRemoveStep ==
    ASSUME TypeOK, CleanupRemove
    PROVE  /\ Moves("cleanup_remove", "cleanup_result")
           /\ SameTask /\ SameSets /\ SameResult
           /\ RemoveContainer(wk.key) \/ UNCHANGED docker
           /\ UNCHANGED <<db, memory, api, crashes>>
BY DEF CleanupRemove, TypeOK, WorkerType

LEMMA CleanupResultStep ==
    ASSUME TypeOK, CleanupResult
    PROVE  /\ Moves("cleanup_result", "finish_load")
           /\ SameTask /\ SameSets
           /\ wk'.result = IF wk.result = "none" THEN result[wk.key] ELSE wk.result
           /\ InMemory
BY DEF CleanupResult, TypeOK, WorkerType

LEMMA FinishLoadStep ==
    ASSUME TypeOK, FinishLoad
    PROVE  /\ Moves("finish_load", "finish")
           /\ SameTask /\ SameSets /\ SameResult
           /\ wk'.seen = PairOf(wk.key)
           /\ wk'.outcome = wk.outcome
           /\ InMemory
BY DEF FinishLoad, TypeOK, WorkerType

LEMMA FinishStep ==
    ASSUME TypeOK, Finish
    PROVE  /\ wk.pc = "finish"
           /\ \/ wk'.pc = "record_load" /\ Inspects(wk.key)
              \/ wk'.pc = "done" /\ wk.serving
              \/ wk'.pc = "restore" /\ ~ wk.serving
           /\ SameTask /\ SameSets /\ SameResult
           /\ CommitStatus(wk.key, wk.seen, wk.outcome)
           /\ UNCHANGED <<recorded, cancels, models, docker, memory, api, crashes>>
BY DEF Finish, Return, AfterFinish, TypeOK, WorkerType

LEMMA RecordLoadStep ==
    ASSUME TypeOK, RecordLoad
    PROVE  /\ Moves("record_load", "record")
           /\ SameTask /\ SameSets /\ SameResult
           /\ wk'.model = models[ModelOf[wk.key[1]]]
           /\ InMemory
BY DEF RecordLoad, TypeOK, WorkerType

LEMMA RecordStep ==
    ASSUME TypeOK, Record
    PROVE  /\ wk.pc = "record"
           /\ \/ wk'.pc = "done" /\ wk.serving
              \/ wk'.pc = "restore" /\ ~ wk.serving
           /\ SameTask /\ SameSets /\ SameResult
           /\ \E status \in Verdicts(wk.outcome, wk.result) :
                  CommitModel(wk.key, wk.model, status)
           /\ UNCHANGED <<runs, rows, recorded, cancels, docker, memory, api, crashes>>
BY DEF Record, Return, AfterFinish, TypeOK, WorkerType

LEMMA DoneStep ==
    ASSUME TypeOK, Done
    PROVE  /\ Moves("done", "idle") /\ wk'.serving /\ wk'.result = "none"
           /\ pending' = pending \ {wk.key}
           /\ UNCHANGED <<db, docker, queue, api, crashes>>
BY DEF Done, WorkerAt, TypeOK, WorkerType

LEMMA RestartStep ==
    ASSUME Restart
    PROVE  /\ wk'.pc = "reconcile" /\ ~ wk'.serving /\ wk'.result = "none"
           /\ queue' = <<>> /\ pending' = {}
           /\ api'.pc = "idle" /\ crashes' = crashes + 1
           /\ UNCHANGED <<db, docker>>
BY DEF Restart, WorkerAt, ApiIdle

----------------------------------------------------------------------------
(* What each step of the handlers does to the request                      *)

ApiMoves(from, to) == api.pc = from /\ api'.pc = to
SameRequest == api'.key = api.key

USE DEF ApiMoves, SameRequest

LEMMA SubmitStep ==
    ASSUME TypeOK, NEW r \in Runs, Submit(r)
    PROVE  /\ api.pc = "idle" /\ api'.pc \in {"pending_load", "enqueue"}
           /\ api'.key = <<r, 1>> /\ <<r, 1>> \in Keys
           /\ runs[r] = Absent
           /\ runs' = [runs EXCEPT ![r] = "QUEUED"]
           /\ rows' = [rows EXCEPT ![<<r, 1>>] = "QUEUED"]
           /\ UNCHANGED <<recorded, cancels, models, docker, memory, wk, crashes>>
<1>1. <<r, 1>> \in Keys
  BY DEF Keys, LifecycleAssumption
<1> QED
  BY <1>1 DEF Submit, TypeOK, ApiType

LEMMA CancelLoadStep ==
    ASSUME TypeOK, NEW r \in Runs, CancelLoad(r)
    PROVE  /\ ApiMoves("idle", "cancel")
           /\ Attempts(r) # {} /\ api'.key = LastAttempt(r) /\ LastAttempt(r) \in Keys
           /\ api'.seen = PairOf(LastAttempt(r))
           /\ CanCancel(PairOf(LastAttempt(r)))
           /\ UNCHANGED <<db, docker, memory, wk, crashes>>
<1>1. LastAttempt(r) \in Keys
  BY AttemptNumbers DEF CancelLoad
<1> QED
  BY <1>1 DEF CancelLoad, TypeOK, ApiType

LEMMA RetryLoadStep ==
    ASSUME TypeOK, NEW r \in Runs, RetryLoad(r)
    PROVE  /\ ApiMoves("idle", "retry")
           /\ CanRetry(runs[r]) /\ Cardinality(Attempts(r)) < MaxAttempts
           /\ api'.key = NextAttempt(r) /\ NextAttempt(r) \in Keys
           /\ api'.seen.run = runs[r] /\ api'.seen.row = Absent
           /\ UNCHANGED <<db, docker, memory, wk, crashes>>
<1>1. NextAttempt(r) \in Keys
  BY AttemptNumbers DEF RetryLoad
<1> QED
  BY <1>1 DEF RetryLoad, NoPair, TypeOK, ApiType

LEMMA PendingLoadStep ==
    ASSUME TypeOK, PendingLoad
    PROVE  /\ ApiMoves("pending_load", "pending") /\ SameRequest
           /\ api'.model = models[ModelOf[api.key[1]]]
           /\ UNCHANGED <<db, docker, memory, wk, crashes>>
BY DEF PendingLoad, TypeOK, ApiType

LEMMA MarkPendingStep ==
    ASSUME TypeOK, MarkPending
    PROVE  /\ ApiMoves("pending", "enqueue") /\ SameRequest
           /\ CommitModel(api.key, api.model, "INSPECTING")
           /\ UNCHANGED <<runs, rows, recorded, cancels, docker, memory, wk, crashes>>
BY DEF MarkPending, TypeOK, ApiType

LEMMA ApiEnqueueStep ==
    ASSUME TypeOK, ApiEnqueue
    PROVE  /\ ApiMoves("enqueue", "idle")
           /\ Enqueue(api.key, FALSE)
           /\ UNCHANGED <<db, docker, wk, crashes>>
BY DEF ApiEnqueue, ApiIdle, TypeOK

LEMMA CancelCommitStep ==
    ASSUME TypeOK, CancelCommit
    PROVE  /\ api.pc = "cancel" /\ api'.pc \in {"stop", "record_load", "idle"}
           /\ api'.pc # "idle" => SameRequest
           /\ CommitStatus(api.key, api.seen, CancelTarget(api.seen))
           /\ cancels' = cancels \cup {api.key}
           /\ UNCHANGED <<recorded, models, docker, memory, wk, crashes>>
<1>1. \/ api' = [api EXCEPT !.pc = "stop", !.seen = NoPair]
      \/ api' = [api EXCEPT !.pc = "record_load", !.seen = NoPair]
      \/ api' = ApiIdle
  BY DEF CancelCommit
<1> QED
  BY <1>1 DEF CancelCommit, ApiIdle, TypeOK, ApiType

LEMMA CancelStopStep ==
    ASSUME TypeOK, CancelStop
    PROVE  /\ ApiMoves("stop", "idle")
           /\ StopContainer(api.key) \/ UNCHANGED docker
           /\ UNCHANGED <<db, memory, wk, crashes>>
BY DEF CancelStop, ApiIdle, TypeOK

LEMMA CancelRecordLoadStep ==
    ASSUME TypeOK, CancelRecordLoad
    PROVE  /\ ApiMoves("record_load", "record") /\ SameRequest
           /\ api'.model = models[ModelOf[api.key[1]]]
           /\ UNCHANGED <<db, docker, memory, wk, crashes>>
BY DEF CancelRecordLoad, TypeOK, ApiType

LEMMA CancelRecordStep ==
    ASSUME TypeOK, CancelRecord
    PROVE  /\ ApiMoves("record", "idle")
           /\ \E status \in Verdicts("CANCELLED", "none") :
                  CommitModel(api.key, api.model, status)
           /\ UNCHANGED <<runs, rows, recorded, cancels, docker, memory, wk, crashes>>
BY DEF CancelRecord, ApiIdle, TypeOK

LEMMA RetryStep ==
    ASSUME TypeOK, Retry
    PROVE  /\ api.pc = "retry" /\ api'.pc \in {"pending_load", "enqueue"}
           /\ SameRequest
           /\ CommitStatus(api.key, api.seen, "QUEUED")
           /\ UNCHANGED <<recorded, cancels, models, docker, memory, wk, crashes>>
BY DEF Retry, TypeOK, ApiType

----------------------------------------------------------------------------
(* The queue                                                               *)

(* A recovered attempt, or a new one, waits for the worker.                *)
QueuedAgain(k) == \E i \in 1..Len(queue) : queue[i] = [key |-> k, recover |-> TRUE]
QueuedNew(k)   == \E i \in 1..Len(queue) : queue[i] = [key |-> k, recover |-> FALSE]

Waits(k) == QueuedAgain(k) \/ QueuedNew(k)

(* The worker is on the work item of an attempt, from Get to Done.         *)
Serves(k) == wk.serving /\ wk.pc \in ExecutePcs /\ wk.key = k

Phases ==
    /\ wk.pc \in ReconcilePcs \cup {"dead"} => ~ wk.serving
    /\ wk.pc \in {"idle"} \cup (ExecutePcs \ EndingPcs) => wk.serving

Distinct == \A i, j \in 1..Len(queue) : queue[i].key = queue[j].key => i = j

(* pending holds what waits or is served, and nothing is both or twice.    *)
QueueInv ==
    /\ Phases
    /\ Distinct
    /\ \A k \in Keys : k \in pending <=> Waits(k) \/ Serves(k)
    /\ \A k \in Keys : ~ (Waits(k) /\ Serves(k))

(* A work item is added at the end, once.                                  *)
LEMMA EnqueueStep ==
    ASSUME TypeOK, Distinct, NEW k \in Keys, NEW recover \in BOOLEAN,
           Enqueue(k, recover), k \notin pending => ~ Waits(k)
    PROVE  /\ Distinct'
           /\ pending' = pending \cup {k}
           /\ \A l \in Keys : QueuedAgain(l)' <=>
                  QueuedAgain(l) \/ (k \notin pending /\ l = k /\ recover)
           /\ \A l \in Keys : QueuedNew(l)' <=>
                  QueuedNew(l) \/ (k \notin pending /\ l = k /\ ~ recover)
<1>1. CASE k \in pending
  BY <1>1 DEF Enqueue, Distinct, QueuedAgain, QueuedNew
<1>2. CASE k \notin pending
  <2> DEFINE e == [key |-> k, recover |-> recover]
  <2>1. e \in Items /\ queue \in Seq(Items)
    BY DEF Items, TypeOK
  <2>2. queue' = Append(queue, e) /\ pending' = pending \cup {k}
    BY <1>2 DEF Enqueue
  <2> HIDE DEF e
  <2>3. /\ queue' \in Seq(Items) /\ Len(queue') = Len(queue) + 1
        /\ \A i \in 1..Len(queue) : queue'[i] = queue[i]
        /\ queue'[Len(queue) + 1] = e
    BY <2>1, <2>2, AppendProperties
  <2>4. Len(queue) \in Nat
    BY <2>1, LenProperties
  <2>5. ASSUME NEW l \in Keys
        PROVE  /\ QueuedAgain(l)' <=> QueuedAgain(l) \/ e = [key |-> l, recover |-> TRUE]
               /\ QueuedNew(l)' <=> QueuedNew(l) \/ e = [key |-> l, recover |-> FALSE]
    <3>1. ASSUME NEW x
          PROVE  (\E i \in 1..Len(queue') : queue'[i] = x) <=>
                 (\E i \in 1..Len(queue) : queue[i] = x) \/ e = x
      BY <2>3, <2>4
    <3> QED
      BY <3>1 DEF QueuedAgain, QueuedNew
  <2>6. ASSUME NEW l \in Keys
        PROVE  /\ e = [key |-> l, recover |-> TRUE] <=> l = k /\ recover
               /\ e = [key |-> l, recover |-> FALSE] <=> l = k /\ ~ recover
    BY DEF e
  <2>7. ASSUME NEW i \in 1..Len(queue)
        PROVE  queue[i].key # k
    <3>1. queue[i] \in Items
      BY <2>1, <2>7
    <3>2. \/ queue[i] = [key |-> queue[i].key, recover |-> TRUE]
          \/ queue[i] = [key |-> queue[i].key, recover |-> FALSE]
      BY <3>1 DEF Items
    <3>3. CASE queue[i].key = k
      BY <1>2, <2>7, <3>2, <3>3 DEF Waits, QueuedAgain, QueuedNew
    <3> QED
      BY <3>3
  <2>8. e.key = k
    BY DEF e
  <2>9. Distinct'
    BY <2>3, <2>4, <2>7, <2>8 DEF Distinct
  <2> QED
    BY <1>2, <2>2, <2>5, <2>6, <2>9
<1> QED
  BY <1>1, <1>2

(* The first work item leaves the queue.                                   *)
LEMMA DequeueStep ==
    ASSUME TypeOK, Distinct, queue # <<>>, queue' = Tail(queue)
    PROVE  /\ Distinct'
           /\ Head(queue) \in Items
           /\ Head(queue).recover => QueuedAgain(Head(queue).key)
           /\ ~ Head(queue).recover => QueuedNew(Head(queue).key)
           /\ \A l \in Keys :
                  /\ QueuedAgain(l)' <=> QueuedAgain(l) /\ l # Head(queue).key
                  /\ QueuedNew(l)' <=> QueuedNew(l) /\ l # Head(queue).key
<1>1. /\ queue \in Seq(Items) /\ Len(queue) \in Nat /\ Len(queue) # 0
  BY LenProperties, EmptySeq DEF TypeOK
<1>2. /\ Head(queue) = queue[1] /\ Head(queue) \in Items
      /\ Len(queue') = Len(queue) - 1
      /\ \A i \in 1..Len(queue') : queue'[i] = queue[i + 1]
  BY <1>1, HeadTailProperties, ElementOfSeq
<1>3. Distinct'
  BY <1>1, <1>2 DEF Distinct
<1>4. /\ Head(queue).recover =>
             Head(queue) = [key |-> Head(queue).key, recover |-> TRUE]
      /\ ~ Head(queue).recover =>
             Head(queue) = [key |-> Head(queue).key, recover |-> FALSE]
  BY <1>2 DEF Items
<1>5. /\ Head(queue).recover => QueuedAgain(Head(queue).key)
      /\ ~ Head(queue).recover => QueuedNew(Head(queue).key)
  <2>1. 1 \in 1..Len(queue)
    BY <1>1
  <2>2. ASSUME Head(queue).recover PROVE QueuedAgain(Head(queue).key)
    BY <1>2, <1>4, <2>1, <2>2 DEF QueuedAgain
  <2>3. ASSUME ~ Head(queue).recover PROVE QueuedNew(Head(queue).key)
    BY <1>2, <1>4, <2>1, <2>3 DEF QueuedNew
  <2> QED
    BY <2>2, <2>3
<1>6. ASSUME NEW l \in Keys, NEW r \in BOOLEAN
      PROVE  (\E i \in 1..Len(queue') : queue'[i] = [key |-> l, recover |-> r]) <=>
             /\ \E i \in 1..Len(queue) : queue[i] = [key |-> l, recover |-> r]
             /\ l # Head(queue).key
  <2>1. ASSUME NEW i \in 1..Len(queue'), queue'[i] = [key |-> l, recover |-> r]
        PROVE  /\ \E n \in 1..Len(queue) : queue[n] = [key |-> l, recover |-> r]
               /\ l # Head(queue).key
    <3>1. /\ i + 1 \in 1..Len(queue) /\ 1 \in 1..Len(queue) /\ i + 1 # 1
          /\ queue[i + 1] = [key |-> l, recover |-> r]
      BY <1>1, <1>2, <2>1
    <3> QED
      BY <1>2, <3>1 DEF Distinct
  <2>2. ASSUME NEW i \in 1..Len(queue), queue[i] = [key |-> l, recover |-> r],
               l # Head(queue).key
        PROVE  \E n \in 1..Len(queue') : queue'[n] = [key |-> l, recover |-> r]
    <3>1. i # 1
      BY <1>2, <2>2
    <3>2. /\ i - 1 \in 1..Len(queue')
          /\ queue'[i - 1] = [key |-> l, recover |-> r]
      BY <1>1, <1>2, <2>2, <3>1
    <3> QED
      BY <3>2
  <2> QED
    BY <2>1, <2>2
<1>7. ASSUME NEW l \in Keys
      PROVE  /\ QueuedAgain(l)' <=> QueuedAgain(l) /\ l # Head(queue).key
             /\ QueuedNew(l)' <=> QueuedNew(l) /\ l # Head(queue).key
  BY <1>6 DEF QueuedAgain, QueuedNew
<1> QED
  BY <1>2, <1>3, <1>5, <1>7

(* The queue is empty at first.                                            *)
LEMMA QueueInit == Init => QueueInv
<1>1. Init => Len(queue) = 0
  BY EmptySeq DEF Init
<1> QED
  BY <1>1 DEF Init, QueueInv, Phases, Distinct, Waits, QueuedAgain, QueuedNew, Serves, WorkerAt,
              ReconcilePcs, ExecutePcs, EndingPcs

(* Steps of the worker that leave its task and the queue alone.            *)
LEMMA QueueKept ==
    ASSUME QueueInv, UNCHANGED memory, Phases',
           \A k \in Keys : Serves(k)' <=> Serves(k)
    PROVE  QueueInv'
BY DEF QueueInv, Distinct, Waits, QueuedAgain, QueuedNew

(* The worker is at a step of its task and goes to another one, or, after  *)
(* an attempt that reconciliation gives up, back.                          *)
WorksOn ==
    /\ wk.pc \in ExecutePcs
    /\ \/ wk'.pc \in ExecutePcs /\ (wk'.pc \in EndingPcs \/ wk.serving)
       \/ wk'.pc = "restore" /\ ~ wk.serving
    /\ SameTask /\ SameSets
    /\ UNCHANGED memory

(* Between Get and Done the worker keeps to its task.                      *)
LEMMA ExecuteWorks ==
    ASSUME TypeOK, Phases, Execute, ~ Get, ~ Done
    PROVE  WorksOn
<1> USE DEF WorksOn, ExecutePcs, EndingPcs, Phases
<1>1. CASE Recover
  BY <1>1, RecoverStep
<1>2. CASE RecoverFails
  BY <1>2, RecoverFailsStep
<1>3. CASE ClaimLoad
  BY <1>3, ClaimLoadStep
<1>4. CASE Claim
  BY <1>4, ClaimStep
<1>5. CASE Create
  BY <1>5, CreateStep
<1>6. CASE CreateFails
  BY <1>6, CreateFailsStep
<1>7. CASE RunningLoad
  BY <1>7, RunningLoadStep
<1>8. CASE SetRunning
  BY <1>8, SetRunningStep
<1>9. CASE Discard
  BY <1>9, DiscardStep
<1>10. CASE Start
  BY <1>10, StartStep
<1>11. CASE StageEvent
  BY <1>11, StageEventStep
<1>12. CASE SetStage
  BY <1>12, SetStageStep
<1>13. CASE LogEnds
  BY <1>13, LogEndsStep
<1>14. CASE Collect
  BY <1>14, CollectStep
<1>15. CASE Check
  BY <1>15, CheckStep
<1>16. CASE Remove
  BY <1>16, RemoveStep
<1>17. CASE DockerStepFails
  BY <1>17, DockerStepFailsStep
<1>18. CASE HandleFailure
  BY <1>18, HandleFailureStep
<1>19. CASE CleanupStop
  BY <1>19, CleanupStopStep
<1>20. CASE CleanupRemove
  BY <1>20, CleanupRemoveStep
<1>21. CASE CleanupResult
  BY <1>21, CleanupResultStep
<1>22. CASE FinishLoad
  BY <1>22, FinishLoadStep
<1>23. CASE Finish
  BY <1>23, FinishStep
<1>24. CASE RecordLoad
  BY <1>24, RecordLoadStep
<1>25. CASE Record
  BY <1>25, RecordStep
<1> QED
  BY <1>1, <1>2, <1>3, <1>4, <1>5, <1>6, <1>7, <1>8, <1>9, <1>10, <1>11, <1>12, <1>13,
     <1>14, <1>15, <1>16, <1>17, <1>18, <1>19, <1>20, <1>21, <1>22, <1>23, <1>24, <1>25 DEF Execute

(* Reconciliation queues an attempt only once.                             *)
LEMMA QueueReconcile == ASSUME TypeOK, QueueInv, Reconcile PROVE QueueInv'
<1> USE DEF Phases, Serves, ReconcilePcs, ExecutePcs, EndingPcs
<1>1. Phases /\ Distinct
  BY DEF QueueInv
<1>2. CASE ReadActive
  BY <1>1, <1>2, ReadActiveStep, QueueKept
<1>3. CASE ListContainers
  BY <1>1, <1>3, ListContainersStep, QueueKept
<1>4. CASE ListFails
  BY <1>1, <1>4, ListFailsStep, QueueKept
<1>5. CASE IdentityFails
  BY <1>1, <1>5, IdentityFailsStep, QueueKept
<1>6. CASE RestoreLost
  BY <1>1, <1>6, RestoreLostStep, QueueKept
<1>7. CASE Restored
  BY <1>1, <1>7, RestoredStep, QueueKept
<1>8. CASE OrphanStop
  BY <1>1, <1>8, OrphanStopStep, QueueKept
<1>9. CASE OrphanRemove
  BY <1>1, <1>9, OrphanRemoveStep, QueueKept
<1>10. CASE OrphanFails
  BY <1>1, <1>10, OrphanFailsStep, QueueKept
<1>11. CASE ReadQueued
  BY <1>1, <1>11, ReadQueuedStep, QueueKept
<1>12. CASE Reconciled
  BY <1>1, <1>12, ReconciledStep, QueueKept
<1>13. CASE RestoreRecovered
  <2>1. PICK k \in wk.todo : Enqueue(k, TRUE)
    BY <1>13, RestoreRecoveredStep
  <2>2. k \in Keys
    BY <2>1 DEF TypeOK, WorkerType
  <2>3. k \notin pending => ~ Waits(k)
    BY <2>2 DEF QueueInv
  <2>4. /\ Distinct' /\ pending' = pending \cup {k}
        /\ \A l \in Keys : Waits(l)' <=> Waits(l) \/ (k \notin pending /\ l = k)
    BY <1>1, <2>1, <2>2, <2>3, EnqueueStep DEF Waits
  <2>5. Phases' /\ (\A l \in Keys : ~ Serves(l)) /\ (\A l \in Keys : ~ Serves(l)')
    BY <1>1, <1>13, RestoreRecoveredStep
  <2> QED
    BY <2>4, <2>5 DEF QueueInv
<1>14. CASE Requeue
  <2>1. PICK k \in wk.todo : Enqueue(k, FALSE)
    BY <1>14, RequeueStep
  <2>2. k \in Keys
    BY <2>1 DEF TypeOK, WorkerType
  <2>3. k \notin pending => ~ Waits(k)
    BY <2>2 DEF QueueInv
  <2>4. /\ Distinct' /\ pending' = pending \cup {k}
        /\ \A l \in Keys : Waits(l)' <=> Waits(l) \/ (k \notin pending /\ l = k)
    BY <1>1, <2>1, <2>2, <2>3, EnqueueStep DEF Waits
  <2>5. Phases' /\ (\A l \in Keys : ~ Serves(l)) /\ (\A l \in Keys : ~ Serves(l)')
    BY <1>1, <1>14, RequeueStep
  <2> QED
    BY <2>4, <2>5 DEF QueueInv
<1> QED
  BY <1>2, <1>3, <1>4, <1>5, <1>6, <1>7, <1>8, <1>9, <1>10, <1>11, <1>12, <1>13, <1>14 DEF Reconcile

(* What is served left the queue, and leaves pending when it is done.      *)
LEMMA QueueExecute == ASSUME TypeOK, QueueInv, Execute PROVE QueueInv'
<1> USE DEF Phases, Serves, ExecutePcs, EndingPcs, ReconcilePcs
<1>1. Phases /\ Distinct
  BY DEF QueueInv
<1>2. CASE Get
  <2> DEFINE k == Head(queue).key
  <2>1. /\ Distinct' /\ k \in Keys /\ Waits(k)
        /\ \A l \in Keys : Waits(l)' <=> Waits(l) /\ l # k
    BY <1>1, <1>2, GetStep, DequeueStep DEF Waits, Items
  <2>2. /\ Phases' /\ pending' = pending
        /\ \A l \in Keys : ~ Serves(l)
        /\ \A l \in Keys : Serves(l)' <=> l = k
    BY <1>1, <1>2, GetStep
  <2> HIDE DEF k
  <2> QED
    BY <2>1, <2>2 DEF QueueInv
<1>3. CASE Done
  <2>1. /\ Phases' /\ pending' = pending \ {wk.key} /\ queue' = queue
        /\ wk.serving
        /\ \A l \in Keys : Serves(l) <=> l = wk.key
        /\ \A l \in Keys : ~ Serves(l)'
    BY <1>1, <1>3, DoneStep
  <2>2. Distinct' /\ \A l \in Keys : Waits(l)' <=> Waits(l)
    BY <1>1, <2>1 DEF Distinct, Waits, QueuedAgain, QueuedNew
  <2> QED
    BY <2>1, <2>2 DEF QueueInv
<1>4. CASE ~ Get /\ ~ Done
  <2>1. WorksOn
    BY <1>1, <1>4, ExecuteWorks
  <2> QED
    BY <1>1, <2>1, QueueKept DEF WorksOn
<1> QED
  BY <1>2, <1>3, <1>4

(* Nobody but the worker and the handlers touches the queue.               *)
LEMMA QueueElsewhere ==
    ASSUME QueueInv, UNCHANGED <<wk, memory>>
    PROVE  QueueInv'
BY DEF QueueInv, Phases, Distinct, Waits, QueuedAgain, QueuedNew, Serves

(* Every step keeps pending what waits or is served.                       *)
LEMMA QueueStep == TypeOK /\ QueueInv /\ [Next]_vars => QueueInv'
<1> SUFFICES ASSUME TypeOK, QueueInv, [Next]_vars PROVE QueueInv'
  OBVIOUS
<1>1. CASE UNCHANGED vars
  BY <1>1, QueueElsewhere DEF vars
<1>2. CASE Request
  BY <1>2, SubmitStep, CancelLoadStep, RetryLoadStep, QueueElsewhere DEF Request
<1>3. CASE ApiEnqueue
  <2>1. api.key \in Keys /\ (api.key \notin pending => ~ Waits(api.key)) /\ Distinct
    BY <1>3, ApiEnqueueStep DEF TypeOK, QueueInv
  <2>2. /\ Distinct' /\ pending' = pending \cup {api.key}
        /\ \A l \in Keys : Waits(l)' <=>
               Waits(l) \/ (api.key \notin pending /\ l = api.key)
    BY <1>3, <2>1, ApiEnqueueStep, EnqueueStep DEF Waits
  <2>3. wk' = wk
    BY <1>3, ApiEnqueueStep
  <2> QED
    BY <2>1, <2>2, <2>3 DEF QueueInv, Phases, Serves
<1>4. CASE Handle /\ ~ ApiEnqueue
  BY <1>4, QueueElsewhere, PendingLoadStep, MarkPendingStep, CancelCommitStep,
     CancelStopStep, CancelRecordLoadStep, CancelRecordStep, RetryStep DEF Handle
<1>5. ASSUME NEW k \in Keys, ContainerExit(k) PROVE QueueInv'
  BY <1>5, QueueElsewhere DEF ContainerExit
<1>6. CASE Restart
  <2>1. Len(queue') = 0
    BY <1>6, RestartStep, EmptySeq
  <2> QED
    BY <1>6, <2>1, RestartStep
       DEF QueueInv, Phases, Distinct, Waits, QueuedAgain, QueuedNew, Serves, ReconcilePcs,
           ExecutePcs, EndingPcs
<1> QED
  BY <1>1, <1>2, <1>3, <1>4, <1>5, <1>6, QueueReconcile, QueueExecute DEF Next

----------------------------------------------------------------------------
(* Attempts                                                                *)

New == {Absent, "QUEUED"}

(* Reconciliation still has to give up or to recover these.                *)
ToRestore == IF wk.pc \in {"list", "restore"} \/ (wk.pc \in EndingPcs /\ ~ wk.serving)
             THEN wk.todo ELSE {}

BeforeClaim == {"claim_load", "claim"}

(* The attempts of a run are numbered without gaps, and the one that a     *)
(* retry is about to add is the next.                                      *)
NumbersInv ==
    /\ \A r \in Runs : Attempts(r) = 1..Cardinality(Attempts(r))
    /\ \A r \in Runs : runs[r] = Absent => Attempts(r) = {}
    /\ api.pc = "retry" => /\ api.key = NextAttempt(api.key[1])
                           /\ runs[api.key[1]] # Absent
                           /\ api.seen.row = Absent

(* Whoever names an attempt names one that exists; and what was claimed is *)
(* never QUEUED again.                                                     *)
KnownInv ==
    /\ wk.pc \in ExecutePcs => rows[wk.key] # Absent
    /\ At("claim") => IsQueued(wk.seen)
    /\ wk.pc \in ExecutePcs \ (BeforeClaim \cup {"done"}) => rows[wk.key] # "QUEUED"
    /\ \A k \in Keys : QueuedAgain(k) \/ k \in ToRestore => rows[k] \notin New
    /\ \A k \in Keys : QueuedNew(k) => rows[k] # Absent
    /\ At("requeue") => \A k \in wk.todo : rows[k] # Absent
    /\ api.pc \notin {"idle", "retry"} => rows[api.key] # Absent

SameAttempts ==
    /\ \A k \in Keys : rows'[k] = Absent <=> rows[k] = Absent
    /\ \A r \in Runs : runs'[r] = Absent <=> runs[r] = Absent

NoneQueued == \A k \in Keys : rows'[k] = "QUEUED" => rows[k] = "QUEUED"

(* An attempt is its run and its number.                                   *)
LEMMA KeyParts ==
    /\ \A k \in Keys : k[1] \in Runs /\ k[2] \in 1..MaxAttempts /\ k = <<k[1], k[2]>>
    /\ \A r \in Runs, n \in 1..MaxAttempts :
           <<r, n>> \in Keys /\ <<r, n>>[1] = r /\ <<r, n>>[2] = n
BY DEF Keys

(* Attempts(r) by its members.                                             *)
LEMMA InAttempts ==
    ASSUME NEW r \in Runs, NEW n \in 1..MaxAttempts
    PROVE  /\ n \in Attempts(r) <=> rows[<<r, n>>] # Absent
           /\ n \in Attempts(r)' <=> rows'[<<r, n>>] # Absent
BY DEF Attempts

(* The run of an attempt that exists exists.                               *)
LEMMA AttemptOfRun ==
    ASSUME TypeOK, NumbersInv, NEW k \in Keys, rows[k] # Absent
    PROVE  k[2] \in Attempts(k[1]) /\ runs[k[1]] # Absent
BY KeyParts, InAttempts DEF NumbersInv

(* A commit to an attempt that exists creates none and removes none.       *)
LEMMA CommitKnown ==
    ASSUME TypeOK, NumbersInv, NEW k \in Keys, rows[k] # Absent,
           NEW seen, NEW status, status # Absent, CommitStatus(k, seen, status)
    PROVE  SameAttempts /\ (status # "QUEUED" => NoneQueued)
<1>1. runs[k[1]] # Absent /\ k[1] \in Runs
  BY AttemptOfRun, KeyParts
<1> QED
  BY <1>1 DEF CommitStatus, Flush, TypeOK, SameAttempts, NoneQueued

(* What the worker and a cancellation store is never QUEUED.               *)
LEMMA ActiveIsNotNew ==
    /\ ActiveStatuses \cap New = {} /\ TerminalStatuses \cap New = {}
    /\ Stages \cap New = {}
    /\ \A seen : CancelTarget(seen) \notin New
BY DEF ActiveStatuses, TerminalStatuses, New, Absent, StagesAssumption, CancelTarget

(* The worker moves attempts that exist, and never back to the queue.      *)
LEMMA RowsExecute ==
    ASSUME TypeOK, NumbersInv, KnownInv, Execute
    PROVE  SameAttempts /\ NoneQueued
<1> USE DEF New, ExecutePcs, EndingPcs
<1>1. wk.pc \in ExecutePcs => wk.key \in Keys /\ rows[wk.key] # Absent
  BY DEF TypeOK, KnownInv
<1>2. CASE Claim
  BY <1>1, <1>2, ClaimStep, CommitKnown DEF Absent
<1>3. CASE SetRunning
  <2>1. CASE CommitStatus(wk.key, wk.seen, "RUNNING")
    BY <1>1, <1>3, <2>1, SetRunningStep, CommitKnown DEF Absent
  <2>2. CASE UNCHANGED <<runs, rows>>
    BY <2>2 DEF SameAttempts, NoneQueued
  <2> QED
    BY <1>3, <2>1, <2>2, SetRunningStep
<1>4. CASE SetStage
  <2>1. wk.stage \notin New
    BY ActiveIsNotNew, StagesAreWorkingStatuses DEF TypeOK, WorkerType, Absent, StagesAssumption
  <2>2. CASE CommitStatus(wk.key, wk.seen, wk.stage)
    BY <1>1, <1>4, <2>1, <2>2, SetStageStep, CommitKnown
  <2>3. CASE UNCHANGED <<runs, rows>>
    BY <2>3 DEF SameAttempts, NoneQueued
  <2> QED
    BY <1>4, <2>2, <2>3, SetStageStep
<1>5. CASE Finish
  <2>1. wk.outcome \notin New
    BY ActiveIsNotNew DEF TypeOK, WorkerType
  <2> QED
    BY <1>1, <1>5, <2>1, FinishStep, CommitKnown
<1>6. CASE ~ (Claim \/ SetRunning \/ SetStage \/ Finish)
  <2>1. UNCHANGED <<runs, rows>>
    BY <1>6 DEF Execute, Get, Recover, RecoverFails, ClaimLoad, Create, CreateFails,
          RunningLoad, Discard, Start, StageEvent, LogEnds, Collect, Check, Remove,
          DockerStepFails, HandleFailure, CleanupStop, CleanupRemove, CleanupResult,
          FinishLoad, RecordLoad, Record, Done
  <2> QED
    BY <2>1 DEF SameAttempts, NoneQueued
<1> QED
  BY <1>2, <1>3, <1>4, <1>5, <1>6

(* So do reconciliation, the containers, and the handlers that add nothing.*)
LEMMA RowsElsewhere ==
    ASSUME TypeOK, NumbersInv, KnownInv,
           Reconcile \/ Handle \/ (\E r \in Runs : CancelLoad(r) \/ RetryLoad(r)),
           ~ Retry
    PROVE  SameAttempts /\ NoneQueued
<1>1. CASE CancelCommit
  <2>1. api.key \in Keys /\ rows[api.key] # Absent
    BY <1>1, CancelCommitStep DEF TypeOK, KnownInv
  <2>2. CancelTarget(api.seen) \notin New
    BY ActiveIsNotNew
  <2> QED
    BY <1>1, <2>1, <2>2, CancelCommitStep, CommitKnown DEF New
<1>2. CASE ~ CancelCommit
  <2>1. CASE Reconcile
    BY <2>1 DEF Reconcile, ReadActive, ListContainers, ListFails, IdentityFails,
          RestoreRecovered, RestoreLost, Restored, OrphanStop, OrphanRemove, OrphanFails,
          ReadQueued, Requeue, Reconciled, SameAttempts, NoneQueued
  <2>2. CASE Handle
    BY <1>2, <2>2 DEF Handle, PendingLoad, MarkPending, ApiEnqueue, CancelStop,
          CancelRecordLoad, CancelRecord, SameAttempts, NoneQueued
  <2>3. CASE \E r \in Runs : CancelLoad(r) \/ RetryLoad(r)
    BY <2>3 DEF CancelLoad, RetryLoad, SameAttempts, NoneQueued
  <2> QED
    BY <2>1, <2>2, <2>3
<1> QED
  BY <1>1, <1>2

(* What submit and retry add is the attempt they name.                     *)
LEMMA RowsSubmit ==
    ASSUME TypeOK, NumbersInv, NEW r \in Runs, Submit(r)
    PROVE  /\ rows[<<r, 1>>] = Absent /\ <<r, 1>> \in Keys
           /\ rows' = [rows EXCEPT ![<<r, 1>>] = "QUEUED"]
           /\ runs' = [runs EXCEPT ![r] = "QUEUED"]
<1>1. Attempts(r) = {}
  BY SubmitStep DEF NumbersInv
<1> QED
  BY <1>1, SubmitStep, InAttempts DEF LifecycleAssumption

(* Retry adds the attempt it computed, which does not exist yet.           *)
LEMMA RowsRetry ==
    ASSUME TypeOK, NumbersInv, Retry
    PROVE  /\ rows[api.key] = Absent /\ api.key \in Keys
           /\ rows' = [rows EXCEPT ![api.key] = "QUEUED"]
           /\ runs' = [runs EXCEPT ![api.key[1]] = Flush(api.seen.run, "QUEUED", @)]
           /\ runs[api.key[1]] # Absent
<1> DEFINE r == api.key[1]
           c == Cardinality(Attempts(r))
<1>1. api.key \in Keys /\ r \in Runs /\ api.key = <<r, c + 1>>
  BY RetryStep, KeyParts DEF TypeOK, NumbersInv, NextAttempt
<1>2. c \in Nat /\ Attempts(r) = 1..c /\ c + 1 \in 1..MaxAttempts
  BY <1>1, AttemptNumbers, KeyParts DEF NumbersInv
<1>3. rows[api.key] = Absent
  <2> HIDE DEF r, c
  <2>1. c + 1 \notin Attempts(r)
    BY <1>2
  <2> QED
    BY <1>1, <1>2, <2>1, InAttempts
<1>4. api.seen.row = Absent /\ runs[r] # Absent
  BY RetryStep DEF NumbersInv
<1> QED
  BY <1>1, <1>3, <1>4, RetryStep DEF CommitStatus, Flush, Absent

(* A run keeps its attempts when rows neither appear nor disappear.        *)
LEMMA AttemptsKept ==
    ASSUME SameAttempts, NEW r \in Runs
    PROVE  Attempts(r)' = Attempts(r)
<1>1. ASSUME NEW n \in 1..MaxAttempts
      PROVE  n \in Attempts(r)' <=> n \in Attempts(r)
  BY InAttempts, KeyParts DEF SameAttempts
<1> QED
  BY <1>1 DEF Attempts

(* The attempts of a run after submit or retry.                            *)
LEMMA AttemptsGrow ==
    ASSUME TypeOK, NumbersInv, NEW k \in Keys,
           k = NextAttempt(k[1]), rows' = [rows EXCEPT ![k] = "QUEUED"]
    PROVE  /\ \A r \in Runs : r # k[1] => Attempts(r)' = Attempts(r)
           /\ Attempts(k[1])' = Attempts(k[1]) \cup {k[2]}
           /\ Cardinality(Attempts(k[1])') = k[2]
           /\ Attempts(k[1])' = 1..k[2]
           /\ Attempts(k[1]) = 1..(k[2] - 1)
<1> DEFINE c == Cardinality(Attempts(k[1]))
<1>1. /\ k[1] \in Runs /\ k[2] = c + 1 /\ k[2] \in 1..MaxAttempts
      /\ c \in Nat /\ Attempts(k[1]) = 1..c
  BY KeyParts, AttemptNumbers DEF NumbersInv, NextAttempt
<1> HIDE DEF c
<1>2. ASSUME NEW l \in Keys
      PROVE  rows'[l] # Absent <=> rows[l] # Absent \/ l = k
  BY DEF TypeOK, Absent
<1>3. ASSUME NEW r \in Runs, r # k[1]
      PROVE  Attempts(r)' = Attempts(r)
  <2>1. ASSUME NEW n \in 1..MaxAttempts
        PROVE  n \in Attempts(r)' <=> n \in Attempts(r)
    <3>1. <<r, n>> \in Keys /\ <<r, n>> # k
      BY <1>3, KeyParts
    <3> QED
      BY <1>2, <3>1, InAttempts
  <2> QED
    BY <2>1 DEF Attempts
<1>4. Attempts(k[1])' = Attempts(k[1]) \cup {k[2]}
  <2>1. ASSUME NEW n \in 1..MaxAttempts
        PROVE  n \in Attempts(k[1])' <=> n \in Attempts(k[1]) \/ n = k[2]
    <3>1. <<k[1], n>> \in Keys /\ (<<k[1], n>> = k <=> n = k[2])
      BY <1>1, KeyParts
    <3> QED
      BY <1>1, <1>2, <3>1, InAttempts
  <2> QED
    BY <1>1, <2>1 DEF Attempts
<1>5. Attempts(k[1])' = 1..k[2]
  BY <1>1, <1>4
<1>6. Cardinality(Attempts(k[1])') = k[2]
  <2>1. Cardinality(1..k[2]) = k[2]
    BY <1>1, FS_Interval
  <2> QED
    BY <1>5, <2>1
<1>7. c = k[2] - 1
  BY <1>1
<1> QED
  BY <1>1, <1>3, <1>4, <1>5, <1>6, <1>7

(* Attempts keep their numbers when none is added.                         *)
LEMMA NumbersKept ==
    ASSUME NumbersInv, SameAttempts, TypeOK',
           api'.pc = "retry" => UNCHANGED api
    PROVE  NumbersInv'
<1>1. \A r \in Runs : Attempts(r)' = Attempts(r)
  BY AttemptsKept
<1>2. api'.pc = "retry" => api'.key \in Keys /\ api'.key[1] \in Runs
  BY KeyParts DEF TypeOK
<1> QED
  BY <1>1, <1>2 DEF NumbersInv, SameAttempts, NextAttempt

(* There is no attempt at first.                                           *)
LEMMA NumbersInit == Init => NumbersInv
<1>1. ASSUME Init, NEW r \in Runs PROVE Attempts(r) = {}
  BY <1>1 DEF Init, Attempts, Keys
<1>2. Cardinality({}) = 0 /\ 1..0 = {}
  BY FS_EmptySet
<1>3. ASSUME Init, NEW r \in Runs PROVE Attempts(r) = 1..Cardinality(Attempts(r))
  BY <1>1, <1>2, <1>3
<1> QED
  BY <1>1, <1>3 DEF Init, NumbersInv, ApiIdle

(* Submit and retry add the next number, nothing else adds any.            *)
LEMMA NumbersStep ==
    TypeOK /\ TypeOK' /\ NumbersInv /\ KnownInv /\ [Next]_vars => NumbersInv'
<1> SUFFICES ASSUME TypeOK, TypeOK', NumbersInv, KnownInv, [Next]_vars
             PROVE  NumbersInv'
  OBVIOUS
<1>1. CASE UNCHANGED vars
  BY <1>1, NumbersKept DEF vars, SameAttempts
<1>2. CASE Execute
  <2>1. UNCHANGED api
    BY <1>2 DEF Execute, Get, Recover, RecoverFails, ClaimLoad, Claim, Create, CreateFails,
          RunningLoad, SetRunning, Discard, Start, StageEvent, SetStage, LogEnds, Collect,
          Check, Remove, DockerStepFails, HandleFailure, CleanupStop, CleanupRemove,
          CleanupResult, FinishLoad, Finish, RecordLoad, Record, Done
  <2> QED
    BY <1>2, <2>1, RowsExecute, NumbersKept
<1>3. CASE Reconcile
  <2>1. UNCHANGED api
    BY <1>3 DEF Reconcile, ReadActive, ListContainers, ListFails, IdentityFails,
          RestoreRecovered, RestoreLost, Restored, OrphanStop, OrphanRemove, OrphanFails,
          ReadQueued, Requeue, Reconciled
  <2>2. ~ Retry
    BY <1>3, <2>1, RetryStep
  <2> QED
    BY <1>3, <2>1, <2>2, RowsElsewhere, NumbersKept
<1>4. CASE Handle /\ ~ Retry
  <2>1. api'.pc # "retry"
    BY <1>4, PendingLoadStep, MarkPendingStep, ApiEnqueueStep, CancelCommitStep,
       CancelStopStep, CancelRecordLoadStep, CancelRecordStep DEF Handle
  <2> QED
    BY <1>4, <2>1, RowsElsewhere, NumbersKept
<1>5. ASSUME NEW r \in Runs, CancelLoad(r) PROVE NumbersInv'
  <2>1. api'.pc # "retry" /\ SameAttempts
    BY <1>5, CancelLoadStep DEF SameAttempts
  <2> QED
    BY <2>1, NumbersKept
<1>6. ASSUME NEW r \in Runs, RetryLoad(r) PROVE NumbersInv'
  <2>1. SameAttempts /\ runs' = runs
    BY <1>6, RetryLoadStep DEF SameAttempts
  <2>2. \A s \in Runs : Attempts(s)' = Attempts(s)
    BY <2>1, AttemptsKept
  <2>3. /\ api'.key = NextAttempt(r) /\ api'.key[1] = r
        /\ NextAttempt(r)' = NextAttempt(r)
        /\ runs[r] # Absent /\ api'.seen.row = Absent
    <3>1. NextAttempt(r)' = NextAttempt(r) /\ NextAttempt(r)[1] = r
      BY <2>2 DEF NextAttempt
    <3>2. runs[r] # Absent
      BY <1>6, RetryLoadStep DEF CanRetry, RetryableStatuses, Absent
    <3> QED
      BY <1>6, <3>1, <3>2, RetryLoadStep
  <2> QED
    BY <2>1, <2>2, <2>3 DEF NumbersInv
<1>7. ASSUME NEW r \in Runs, Submit(r) PROVE NumbersInv'
  <2> DEFINE k == <<r, 1>>
  <2>1. /\ k \in Keys /\ k[1] = r /\ k[2] = 1
        /\ rows' = [rows EXCEPT ![k] = "QUEUED"]
        /\ runs' = [runs EXCEPT ![r] = "QUEUED"]
    BY <1>7, RowsSubmit, KeyParts
  <2>2. k = NextAttempt(k[1])
    <3>1. Attempts(r) = {} /\ Cardinality(Attempts(r)) = 0
      BY <1>7, SubmitStep, FS_EmptySet DEF NumbersInv
    <3> QED
      BY <2>1, <3>1 DEF NextAttempt
  <2> HIDE DEF k
  <2>3. /\ \A s \in Runs : s # r => Attempts(s)' = Attempts(s)
        /\ Attempts(r)' = 1..1 /\ Cardinality(Attempts(r)') = 1
    BY <2>1, <2>2, AttemptsGrow
  <2>4. api'.pc # "retry"
    BY <1>7, SubmitStep
  <2>5. \A s \in Runs : runs'[s] = Absent => runs[s] = Absent /\ s # r
    BY <2>1 DEF TypeOK, Absent
  <2> QED
    BY <2>3, <2>4, <2>5 DEF NumbersInv
<1>8. CASE Retry
  <2>5. PICK k \in Keys : k = api.key
    BY <1>8, RowsRetry
  <2>1. /\ k[1] \in Runs /\ k[2] \in 1..MaxAttempts
        /\ rows' = [rows EXCEPT ![k] = "QUEUED"]
        /\ runs' = [runs EXCEPT ![k[1]] = Flush(api.seen.run, "QUEUED", @)]
        /\ runs[k[1]] # Absent /\ k = NextAttempt(k[1])
    BY <1>8, <2>5, RowsRetry, RetryStep, KeyParts DEF NumbersInv
  <2>2. /\ \A s \in Runs : s # k[1] => Attempts(s)' = Attempts(s)
        /\ Attempts(k[1])' = 1..k[2] /\ Cardinality(Attempts(k[1])') = k[2]
    BY <2>1, AttemptsGrow
  <2>3. api'.pc # "retry"
    BY <1>8, RetryStep
  <2>4. \A s \in Runs : runs'[s] = Absent => runs[s] = Absent /\ s # k[1]
    BY <2>1 DEF TypeOK, Absent, Flush
  <2> QED
    BY <2>2, <2>3, <2>4 DEF NumbersInv
<1>9. ASSUME NEW k \in Keys, ContainerExit(k) PROVE NumbersInv'
  BY <1>9, NumbersKept DEF ContainerExit, SameAttempts
<1>10. CASE Restart
  BY <1>10, RestartStep, NumbersKept DEF SameAttempts
<1> QED
  BY <1>1, <1>2, <1>3, <1>4, <1>5, <1>6, <1>7, <1>8, <1>9, <1>10 DEF Next, Request

(* An attempt that exists goes on existing, and one that left the queue    *)
(* does not come back to it: a retry adds another one.                     *)
LEMMA RowsStay ==
    ASSUME TypeOK, NumbersInv, KnownInv, [Next]_vars, NEW k \in Keys
    PROVE  /\ rows[k] # Absent => rows'[k] # Absent
           /\ rows[k] \notin New => rows'[k] \notin New
<1>1. CASE SameAttempts /\ NoneQueued
  BY <1>1 DEF SameAttempts, NoneQueued, New
<1>2. CASE rows' = rows
  BY <1>2
<1>3. ASSUME NEW r \in Runs, Submit(r)
      PROVE  \A l \in Keys : rows[l] # Absent => rows'[l] = rows[l]
  BY <1>3, RowsSubmit DEF TypeOK
<1>4. ASSUME Retry
      PROVE  \A l \in Keys : rows[l] # Absent => rows'[l] = rows[l]
  BY <1>4, RowsRetry DEF TypeOK
<1>5. CASE Reconcile
  <2>1. UNCHANGED rows
    BY <1>5 DEF Reconcile, ReadActive, ListContainers, ListFails, IdentityFails,
          RestoreRecovered, RestoreLost, Restored, OrphanStop, OrphanRemove, OrphanFails,
          ReadQueued, Requeue, Reconciled
  <2> QED
    BY <2>1
<1> QED
  BY <1>1, <1>2, <1>3, <1>4, <1>5, RowsExecute, RowsElsewhere, RestartStep
     DEF Next, Request, ContainerExit, New, vars

(* The places where an attempt is named, by attempt.                       *)
NamesClaimed(k) == \/ QueuedAgain(k) \/ k \in ToRestore
                   \/ wk.pc \in ExecutePcs \ (BeforeClaim \cup {"done"}) /\ wk.key = k
NamesKnown(k) == \/ Waits(k) \/ (wk.pc \in ExecutePcs /\ wk.key = k)
                 \/ At("requeue") /\ k \in wk.todo
                 \/ api.pc \notin {"idle", "retry"} /\ api.key = k

(* KnownInv, by the ways an attempt may be named.                          *)
LEMMA KnownByName ==
    ASSUME TypeOK
    PROVE  KnownInv <=> /\ At("claim") => IsQueued(wk.seen)
                        /\ \A k \in Keys : NamesClaimed(k) => rows[k] \notin New
                        /\ \A k \in Keys : NamesKnown(k) => rows[k] # Absent
<1>1. wk.pc \in ExecutePcs => wk.key \in Keys
  BY DEF TypeOK
<1>2. api.pc # "idle" => api.key \in Keys
  BY DEF TypeOK
<1>3. wk.todo \subseteq Keys
  BY DEF TypeOK, WorkerType
<1> QED
  BY <1>1, <1>2, <1>3 DEF KnownInv, NamesClaimed, NamesKnown, Waits, New

(* KnownInv is kept by a step that names nothing new, or only what exists. *)
LEMMA KnownKept ==
    ASSUME TypeOK, TypeOK', NumbersInv, KnownInv, [Next]_vars,
           (At("claim") => IsQueued(wk.seen))',
           \A k \in Keys : NamesClaimed(k)' => NamesClaimed(k) \/ rows'[k] \notin New,
           \A k \in Keys : NamesKnown(k)' => NamesKnown(k) \/ rows'[k] # Absent
    PROVE  KnownInv'
<1>1. /\ \A k \in Keys : NamesClaimed(k) => rows[k] \notin New
      /\ \A k \in Keys : NamesKnown(k) => rows[k] # Absent
  BY KnownByName
<1>2. /\ \A k \in Keys : NamesClaimed(k)' => rows'[k] \notin New
      /\ \A k \in Keys : NamesKnown(k)' => rows'[k] # Absent
  BY <1>1, RowsStay
<1>3. (KnownInv <=> /\ At("claim") => IsQueued(wk.seen)
                    /\ \A k \in Keys : NamesClaimed(k) => rows[k] \notin New
                    /\ \A k \in Keys : NamesKnown(k) => rows[k] # Absent)'
  BY KnownByName, PTL
<1> QED
  BY <1>2, <1>3

(* No attempt is named at first.                                           *)
LEMMA KnownInit == Init => KnownInv
<1>1. Init => Len(queue) = 0
  BY EmptySeq DEF Init
<1> QED
  BY <1>1 DEF Init, KnownInv, QueuedAgain, QueuedNew, ToRestore, WorkerAt, ApiIdle, ExecutePcs, EndingPcs

(* The worker names what its work item named.                              *)
LEMMA KnownExecute ==
    ASSUME TypeOK, TypeOK', QueueInv, NumbersInv, KnownInv, Execute
    PROVE  KnownInv'
<1> USE DEF ExecutePcs, EndingPcs, BeforeClaim
<1>1. Phases /\ Distinct /\ [Next]_vars
  BY DEF QueueInv, Next
<1>2. CASE Get
  <2> DEFINE item == Head(queue)
  <2>1. /\ item.key \in Keys /\ item.recover \in BOOLEAN
        /\ item.recover => QueuedAgain(item.key)
        /\ ~ item.recover => QueuedNew(item.key)
        /\ \A k \in Keys : (QueuedAgain(k)' => QueuedAgain(k)) /\ (QueuedNew(k)' => QueuedNew(k))
    BY <1>1, <1>2, GetStep, DequeueStep DEF Items
  <2>2. /\ wk'.key = item.key
        /\ item.recover => wk'.pc = "recover"
        /\ ~ item.recover => wk'.pc = "claim_load"
        /\ wk.pc = "idle" /\ wk'.serving /\ api' = api
    BY <1>1, <1>2, GetStep DEF Phases
  <2> HIDE DEF item
  <2>3. ASSUME NEW k \in Keys
        PROVE  /\ NamesClaimed(k)' => NamesClaimed(k)
               /\ NamesKnown(k)' => NamesKnown(k)
    <3>1. item.recover = TRUE \/ item.recover = FALSE
      BY <2>1
    <3> QED
      BY <2>1, <2>2, <3>1 DEF NamesClaimed, NamesKnown, ToRestore, Waits
  <2> QED
    BY <1>1, <2>2, <2>3, KnownKept
<1>3. CASE Done
  BY <1>1, <1>3, DoneStep, KnownKept
     DEF NamesClaimed, NamesKnown, ToRestore, Waits, QueuedAgain, QueuedNew
<1>4. CASE ~ Get /\ ~ Done
  <2>1. WorksOn
    BY <1>1, <1>4, ExecuteWorks
  <2>2. wk'.pc = "claim" => IsQueued(wk'.seen)
    <3>1. CASE ClaimLoad
      BY <3>1, ClaimLoadStep DEF CanClaim
    <3>2. CASE ~ ClaimLoad
      BY <1>4, <3>2, RecoverStep, RecoverFailsStep, ClaimStep, CreateStep, CreateFailsStep,
         RunningLoadStep, SetRunningStep, DiscardStep, StartStep, StageEventStep,
         SetStageStep, LogEndsStep, CollectStep, CheckStep, RemoveStep,
         DockerStepFailsStep, HandleFailureStep, CleanupStopStep, CleanupRemoveStep,
         CleanupResultStep, FinishLoadStep, FinishStep, RecordLoadStep, RecordStep
         DEF Execute
    <3> QED
      BY <3>1, <3>2
  <2>3. wk'.pc \in ExecutePcs \ (BeforeClaim \cup {"done"}) =>
           \/ wk.pc \in ExecutePcs \ (BeforeClaim \cup {"done"})
           \/ rows'[wk.key] \notin New
    <3>1. CASE Claim
      <4>1. wk.seen.row = "QUEUED" /\ wk.key \in Keys
        BY <3>1, ClaimStep DEF KnownInv, IsQueued, TypeOK
      <4>2. rows'[wk.key] = "PROVISIONING"
        BY <3>1, <4>1, ClaimStep DEF CommitStatus, Flush, TypeOK
      <4> QED
        BY <4>2 DEF New, Absent
    <3>2. CASE ClaimLoad
      BY <3>2, ClaimLoadStep
    <3>3. CASE ~ Claim /\ ~ ClaimLoad
      BY <1>4, <3>3, RecoverStep, RecoverFailsStep, CreateStep, CreateFailsStep,
         RunningLoadStep, SetRunningStep, DiscardStep, StartStep, StageEventStep,
         SetStageStep, LogEndsStep, CollectStep, CheckStep, RemoveStep,
         DockerStepFailsStep, HandleFailureStep, CleanupStopStep, CleanupRemoveStep,
         CleanupResultStep, FinishLoadStep, FinishStep, RecordLoadStep, RecordStep
         DEF Execute
    <3> QED
      BY <3>1, <3>2, <3>3
  <2>4. UNCHANGED api
    BY DEF Execute, Get, Recover, RecoverFails, ClaimLoad, Claim, Create, CreateFails,
           RunningLoad, SetRunning, Discard, Start, StageEvent, SetStage, LogEnds, Collect,
           Check, Remove, DockerStepFails, HandleFailure, CleanupStop, CleanupRemove,
           CleanupResult, FinishLoad, Finish, RecordLoad, Record, Done
  <2>5. ASSUME NEW k \in Keys
        PROVE  /\ NamesClaimed(k)' => NamesClaimed(k) \/ rows'[k] \notin New
               /\ NamesKnown(k)' => NamesKnown(k)
    <3>1. QueuedAgain(k)' = QueuedAgain(k) /\ QueuedNew(k)' = QueuedNew(k)
      BY <2>1 DEF WorksOn, QueuedAgain, QueuedNew
    <3>2. k \in ToRestore' => k \in ToRestore
      BY <1>1, <2>1 DEF WorksOn, ToRestore, Phases
    <3> QED
      BY <2>1, <2>3, <2>4, <3>1, <3>2 DEF NamesClaimed, NamesKnown, Waits, WorksOn
  <2> QED
    BY <1>1, <2>2, <2>5, KnownKept
<1> QED
  BY <1>2, <1>3, <1>4

(* Reconciliation names what it read from the database.                    *)
LEMMA KnownReconcile ==
    ASSUME TypeOK, TypeOK', QueueInv, NumbersInv, KnownInv, Reconcile
    PROVE  KnownInv'
<1> USE DEF ExecutePcs, EndingPcs, BeforeClaim, ReconcilePcs
<1>1. Phases /\ Distinct /\ [Next]_vars /\ ~ wk.serving
  <2>1. wk.pc \in ReconcilePcs
    BY ReadActiveStep, ListContainersStep, ListFailsStep, IdentityFailsStep,
       RestoreRecoveredStep, RestoreLostStep, RestoredStep, OrphanStopStep,
       OrphanRemoveStep, OrphanFailsStep, ReadQueuedStep, RequeueStep, ReconciledStep
       DEF Reconcile
  <2> QED
    BY <2>1 DEF QueueInv, Next, Phases
<1>2. CASE ReadActive
  <2>1. ASSUME NEW k \in Keys, k \in ToRestore' PROVE rows'[k] \notin New
    BY <1>2, <2>1, ReadActiveStep, ActiveIsNotNew DEF ToRestore, IsActive, PairOf
  <2> QED
    BY <1>1, <1>2, <2>1, ReadActiveStep, KnownKept DEF NamesClaimed, NamesKnown, Waits, QueuedAgain, QueuedNew
<1>3. CASE ListContainers \/ ListFails
  BY <1>1, <1>3, ListContainersStep, ListFailsStep, KnownKept
     DEF NamesClaimed, NamesKnown, Waits, QueuedAgain, QueuedNew, ToRestore
<1>4. CASE IdentityFails \/ Restored \/ OrphanRemove \/ OrphanFails \/ Reconciled
  BY <1>1, <1>4, IdentityFailsStep, RestoredStep, OrphanRemoveStep, OrphanFailsStep,
     ReconciledStep, KnownKept
     DEF NamesClaimed, NamesKnown, Waits, QueuedAgain, QueuedNew, ToRestore
<1>5. CASE RestoreRecovered
  <2>1. PICK k \in wk.todo : Enqueue(k, TRUE) /\ wk'.todo = wk.todo \ {k}
    BY <1>5, RestoreRecoveredStep
  <2>2. /\ k \in Keys /\ (k \notin pending => ~ Waits(k)) /\ k \in ToRestore
        /\ wk.pc = "restore" /\ wk'.pc = "restore" /\ api' = api
    BY <1>5, <2>1, RestoreRecoveredStep DEF TypeOK, WorkerType, QueueInv, ToRestore
  <2>3. \A l \in Keys : /\ QueuedAgain(l)' => QueuedAgain(l) \/ l = k
                        /\ QueuedNew(l)' => QueuedNew(l)
    BY <1>1, <2>1, <2>2, EnqueueStep
  <2>4. rows'[k] \notin New
    BY <1>1, <2>2, RowsStay DEF KnownInv
  <2>5. ASSUME NEW l \in Keys
        PROVE  /\ NamesClaimed(l)' => NamesClaimed(l) \/ l = k
               /\ NamesKnown(l)' => NamesKnown(l) \/ l = k
    <3>1. /\ QueuedAgain(l)' => QueuedAgain(l) \/ l = k
          /\ QueuedNew(l)' => QueuedNew(l)
      BY <2>3
    <3> QED
      BY <2>1, <2>2, <3>1 DEF NamesClaimed, NamesKnown, Waits, ToRestore
  <2> QED
    BY <1>1, <2>2, <2>4, <2>5, KnownKept DEF New
<1>6. CASE RestoreLost
  <2>1. PICK k \in wk.todo : wk'.key = k /\ wk'.todo = wk.todo \ {k}
    BY <1>6, RestoreLostStep
  <2>2. k \in Keys /\ k \in ToRestore
    BY <1>6, <2>1, RestoreLostStep DEF TypeOK, WorkerType, ToRestore
  <2>3. rows'[k] \notin New
    BY <1>1, <2>2, RowsStay DEF KnownInv
  <2> QED
    BY <1>1, <1>6, <2>1, <2>3, RestoreLostStep, KnownKept
       DEF NamesClaimed, NamesKnown, Waits, QueuedAgain, QueuedNew, ToRestore, New
<1>7. CASE OrphanStop
  BY <1>1, <1>7, OrphanStopStep, KnownKept
     DEF NamesClaimed, NamesKnown, Waits, QueuedAgain, QueuedNew, ToRestore, KnownInv
<1>8. CASE ReadQueued
  <2>1. ASSUME NEW k \in Keys, k \in wk'.todo PROVE rows'[k] # Absent
    BY <1>8, <2>1, ReadQueuedStep DEF IsQueued, PairOf, Absent
  <2> QED
    BY <1>1, <1>8, <2>1, ReadQueuedStep, KnownKept
       DEF NamesClaimed, NamesKnown, Waits, QueuedAgain, QueuedNew, ToRestore
<1>9. CASE Requeue
  <2>1. PICK k \in wk.todo : Enqueue(k, FALSE) /\ wk'.todo = wk.todo \ {k}
    BY <1>9, RequeueStep
  <2>2. /\ k \in Keys /\ (k \notin pending => ~ Waits(k)) /\ NamesKnown(k)
        /\ wk.pc = "requeue" /\ wk'.pc = "requeue" /\ api' = api
    BY <1>9, <2>1, RequeueStep DEF TypeOK, WorkerType, QueueInv, NamesKnown
  <2>3. \A l \in Keys : /\ QueuedAgain(l)' => QueuedAgain(l)
                        /\ QueuedNew(l)' => QueuedNew(l) \/ l = k
    BY <1>1, <2>1, <2>2, EnqueueStep
  <2>4. ASSUME NEW l \in Keys
        PROVE  /\ NamesClaimed(l)' => NamesClaimed(l)
               /\ NamesKnown(l)' => NamesKnown(l)
    <3>1. /\ QueuedAgain(l)' => QueuedAgain(l)
          /\ QueuedNew(l)' => QueuedNew(l) \/ l = k
      BY <2>3
    <3> QED
      BY <2>1, <2>2, <3>1 DEF NamesClaimed, NamesKnown, Waits, ToRestore
  <2> QED
    BY <1>1, <2>2, <2>4, KnownKept
<1> QED
  BY <1>2, <1>3, <1>4, <1>5, <1>6, <1>7, <1>8, <1>9 DEF Reconcile

(* A handler names the attempt it added, or cancels.                       *)
LEMMA KnownApi ==
    ASSUME TypeOK, TypeOK', QueueInv, NumbersInv, KnownInv, Request \/ Handle
    PROVE  KnownInv'
<1>1. /\ Phases /\ Distinct /\ [Next]_vars
      /\ At("claim") => IsQueued(wk.seen)
  BY DEF QueueInv, Next, KnownInv
<1>2. ASSUME UNCHANGED <<wk, queue>>,
             \A k \in Keys : api'.pc \notin {"idle", "retry"} /\ api'.key = k =>
                 (api.pc \notin {"idle", "retry"} /\ api.key = k) \/ rows'[k] # Absent
      PROVE  KnownInv'
  BY <1>1, <1>2, KnownKept DEF NamesClaimed, NamesKnown, Waits, QueuedAgain, QueuedNew, ToRestore
<1>3. ASSUME NEW r \in Runs, Submit(r) PROVE KnownInv'
  <2>1. rows'[<<r, 1>>] # Absent
    BY <1>3, RowsSubmit DEF TypeOK, Absent
  <2> QED
    BY <1>2, <1>3, <2>1, SubmitStep
<1>4. ASSUME NEW r \in Runs, CancelLoad(r) PROVE KnownInv'
  <2> DEFINE n == Cardinality(Attempts(r))
  <2>1. Attempts(r) = 1..n /\ n \in Nat /\ n # 0 /\ n \in 1..MaxAttempts
    BY <1>4, CancelLoadStep, AttemptNumbers, FS_EmptySet DEF NumbersInv
  <2>2. LastAttempt(r) = <<r, n>>
    BY DEF LastAttempt
  <2> HIDE DEF n
  <2>3. rows[LastAttempt(r)] # Absent
    BY <2>1, <2>2, InAttempts
  <2> QED
    BY <1>2, <1>4, <2>3, CancelLoadStep
<1>5. ASSUME NEW r \in Runs, RetryLoad(r) PROVE KnownInv'
  BY <1>2, <1>5, RetryLoadStep
<1>6. CASE Retry
  <2>1. rows'[api.key] # Absent
    BY <1>6, RowsRetry DEF TypeOK, Absent
  <2> QED
    BY <1>2, <1>6, <2>1, RetryStep
<1>7. CASE ApiEnqueue
  <2>1. /\ api.key \in Keys /\ NamesKnown(api.key) /\ api'.pc = "idle" /\ wk' = wk
        /\ (api.key \notin pending => ~ Waits(api.key))
        /\ Enqueue(api.key, FALSE)
    BY <1>7, ApiEnqueueStep DEF TypeOK, QueueInv, NamesKnown
  <2>2. \A l \in Keys : /\ QueuedAgain(l)' => QueuedAgain(l)
                        /\ QueuedNew(l)' => QueuedNew(l) \/ l = api.key
    BY <1>1, <2>1, EnqueueStep
  <2>3. ASSUME NEW l \in Keys
        PROVE  /\ NamesClaimed(l)' => NamesClaimed(l)
               /\ NamesKnown(l)' => NamesKnown(l)
    <3>1. /\ QueuedAgain(l)' => QueuedAgain(l)
          /\ QueuedNew(l)' => QueuedNew(l) \/ l = api.key
      BY <2>2
    <3> QED
      BY <2>1, <3>1 DEF NamesClaimed, NamesKnown, Waits, ToRestore
  <2> QED
    BY <1>1, <2>1, <2>3, KnownKept
<1>8. CASE Handle /\ ~ Retry /\ ~ ApiEnqueue
  BY <1>2, <1>8, PendingLoadStep, MarkPendingStep, CancelCommitStep, CancelStopStep,
     CancelRecordLoadStep, CancelRecordStep DEF Handle
<1> QED
  BY <1>3, <1>4, <1>5, <1>6, <1>7, <1>8 DEF Request

(* No step names an attempt that does not exist.                           *)
LEMMA KnownStep ==
    TypeOK /\ TypeOK' /\ QueueInv /\ NumbersInv /\ KnownInv /\ [Next]_vars => KnownInv'
<1> SUFFICES ASSUME TypeOK, TypeOK', QueueInv, NumbersInv, KnownInv, [Next]_vars
             PROVE  KnownInv'
  OBVIOUS
<1>1. CASE UNCHANGED vars
  BY <1>1 DEF vars, KnownInv, QueuedAgain, QueuedNew, ToRestore
<1>2. ASSUME NEW k \in Keys, ContainerExit(k) PROVE KnownInv'
  BY <1>2 DEF ContainerExit, KnownInv, QueuedAgain, QueuedNew, ToRestore
<1>3. CASE Restart
  <2>1. Len(queue') = 0
    BY <1>3, RestartStep, EmptySeq
  <2> QED
    BY <1>3, <2>1, RestartStep DEF KnownInv, QueuedAgain, QueuedNew, ToRestore, ExecutePcs, EndingPcs
<1> QED
  BY <1>1, <1>2, <1>3, KnownExecute, KnownReconcile, KnownApi DEF Next

----------------------------------------------------------------------------
(* Containers and results                                                  *)

(* Nothing of an attempt that was never claimed exists in Docker; a        *)
(* container that runs is recorded; its result is there only afterwards.   *)
BoxInv ==
    /\ \A k \in Keys : rows[k] \in New => box[k] = "none"
    /\ \A k \in Keys : box[k] = "running" => k \in recorded
    /\ At("start") => wk.key \in recorded
    /\ \A k \in Keys : box[k] \in {"none", "created", "running"} => result[k] = "none"

(* What a step may do to a container.                                      *)
BoxStays(k)   == box'[k] = box[k] /\ result'[k] = result[k]
BoxCreated(k) == /\ At("create") /\ wk.key = k /\ wk'.pc = "running_load" /\ wk'.key = k
                 /\ box[k] = "none" /\ box'[k] = "created" /\ result'[k] = result[k]
BoxStarted(k) == /\ At("start") /\ wk.key = k /\ wk'.pc = "stream" /\ wk'.key = k
                 /\ box[k] = "created" /\ box'[k] = "running" /\ result'[k] = result[k]
BoxStopped(k) == box[k] = "running" /\ box'[k] = "exited"
BoxRemoved(k) == /\ box[k] \in {"created", "exited"} /\ box'[k] = "gone"
                 /\ result'[k] = result[k]
BoxMoves(k) == BoxStays(k) \/ BoxCreated(k) \/ BoxStarted(k) \/ BoxStopped(k) \/ BoxRemoved(k)

USE DEF BoxStays, BoxCreated, BoxStarted, BoxStopped, BoxRemoved

(* docker stop ends at most the container it names.                        *)
LEMMA StopMoves ==
    ASSUME TypeOK, NEW l \in Keys, StopContainer(l), NEW k \in Keys
    PROVE  /\ BoxStays(k) \/ (BoxStopped(k) /\ k = l)
           /\ box'[l] # "running"
BY DEF StopContainer, TypeOK

(* docker rm removes the container it names.                               *)
LEMMA RemoveMoves ==
    ASSUME TypeOK, NEW l \in Keys, RemoveContainer(l), NEW k \in Keys
    PROVE  /\ BoxStays(k) \/ (BoxRemoved(k) /\ k = l)
           /\ box'[l] = "gone"
BY DEF RemoveContainer, CanRemove, TypeOK

(* A container is created, started, stopped and removed once, in this      *)
(* order, and only the worker creates and starts it.                       *)
LEMMA BoxStep ==
    ASSUME TypeOK, SuccessIsEarned, [Next]_vars, NEW k \in Keys
    PROVE  BoxMoves(k)
<1> USE DEF BoxMoves
<1>1. CASE UNCHANGED docker
  BY <1>1
<1>2. wk.pc \in ExecutePcs => wk.key \in Keys
  BY DEF TypeOK
<1>3. wk.todo \subseteq Keys
  BY DEF TypeOK, WorkerType
<1>4. CASE Reconcile
  <2>1. CASE OrphanStop
    BY <1>3, <2>1, OrphanStopStep, StopMoves
  <2>2. CASE OrphanRemove
    BY <1>3, <2>2, OrphanRemoveStep, RemoveMoves
  <2>3. CASE ~ OrphanStop /\ ~ OrphanRemove
    BY <1>1, <1>4, <2>3 DEF Reconcile, ReadActive, ListContainers, ListFails, IdentityFails,
       RestoreRecovered, RestoreLost, Restored, OrphanFails, ReadQueued, Requeue, Reconciled
  <2> QED
    BY <2>1, <2>2, <2>3
<1>5. CASE Execute
  <2> USE DEF ExecutePcs, EndingPcs
  <2>1. CASE Create
    BY <1>2, <2>1, CreateStep DEF TypeOK
  <2>2. CASE Start
    <3>1. box[wk.key] = "created"
      BY <2>2, StartStep DEF SuccessIsEarned, HoldsCreated
    <3> QED
      BY <1>2, <2>2, <3>1, StartStep DEF TypeOK
  <2>3. CASE Discard
    BY <1>2, <2>3, DiscardStep, RemoveMoves
  <2>4. CASE Remove
    BY <1>2, <2>4, RemoveStep, RemoveMoves
  <2>5. CASE CleanupStop
    BY <1>2, <2>5, CleanupStopStep, StopMoves
  <2>6. CASE CleanupRemove
    BY <1>2, <2>6, CleanupRemoveStep, RemoveMoves
  <2>7. CASE ~ (Create \/ Start \/ Discard \/ Remove \/ CleanupStop \/ CleanupRemove)
    BY <1>1, <1>5, <2>7 DEF Execute, Get, Recover, RecoverFails, ClaimLoad, Claim,
       CreateFails, RunningLoad, SetRunning, StageEvent, SetStage, LogEnds, Collect, Check,
       DockerStepFails, HandleFailure, CleanupResult, FinishLoad, Finish, RecordLoad,
       Record, Done
  <2> QED
    BY <2>1, <2>2, <2>3, <2>4, <2>5, <2>6, <2>7
<1>6. CASE CancelStop
  <2>1. api.key \in Keys
    BY <1>6, CancelStopStep DEF TypeOK
  <2> QED
    BY <1>6, <2>1, CancelStopStep, StopMoves
<1>7. CASE Handle /\ ~ CancelStop
  BY <1>1, <1>7 DEF Handle, PendingLoad, MarkPending, ApiEnqueue, CancelCommit,
     CancelRecordLoad, CancelRecord, Retry
<1>8. CASE Request
  BY <1>1, <1>8 DEF Request, Submit, CancelLoad, RetryLoad
<1>9. ASSUME NEW l \in Keys, ContainerExit(l) PROVE BoxMoves(k)
  BY <1>9, StopMoves DEF ContainerExit
<1> QED
  BY <1>1, <1>4, <1>5, <1>6, <1>7, <1>8, <1>9, RestartStep DEF Next, vars

(* Only set_running records a container, and nothing forgets it.           *)
LEMMA RecordedStep ==
    ASSUME TypeOK, [Next]_vars
    PROVE  /\ recorded \subseteq recorded'
           /\ wk'.pc = "start" =>
                  /\ wk.pc \in {"running", "start"} /\ wk'.key = wk.key
                  /\ At("running") => wk.key \in recorded'
<1>1. CASE SetRunning
  BY <1>1, SetRunningStep
<1>2. CASE Execute /\ ~ SetRunning
  BY <1>2, GetStep, RecoverStep, RecoverFailsStep, ClaimLoadStep, ClaimStep, CreateStep,
     CreateFailsStep, RunningLoadStep, DiscardStep, StartStep, StageEventStep,
     SetStageStep, LogEndsStep, CollectStep, CheckStep, RemoveStep,
     DockerStepFailsStep, HandleFailureStep, CleanupStopStep, CleanupRemoveStep,
     CleanupResultStep, FinishLoadStep, FinishStep, RecordLoadStep, RecordStep, DoneStep
     DEF Execute
<1>3. CASE Reconcile
  BY <1>3, ReadActiveStep, ListContainersStep, ListFailsStep, IdentityFailsStep,
     RestoreRecoveredStep, RestoreLostStep, RestoredStep, OrphanStopStep,
     OrphanRemoveStep, OrphanFailsStep, ReadQueuedStep, RequeueStep, ReconciledStep
     DEF Reconcile
<1>4. CASE UNCHANGED <<wk, recorded>>
  BY <1>4
<1>5. CASE Restart
  BY <1>5, RestartStep
<1>6. Request \/ Handle \/ (\E k \in Keys : ContainerExit(k)) \/ UNCHANGED vars
        => UNCHANGED <<wk, recorded>>
  BY DEF Request, Submit, CancelLoad, RetryLoad, Handle, PendingLoad, MarkPending,
     ApiEnqueue, CancelCommit, CancelStop, CancelRecordLoad, CancelRecord, Retry,
     ContainerExit, vars
<1> QED
  BY <1>1, <1>2, <1>3, <1>4, <1>5, <1>6 DEF Next

(* There is no container at first.                                         *)
LEMMA BoxInvInit == Init => BoxInv
BY DEF Init, BoxInv, WorkerAt

(* A container belongs to a claimed attempt, and has no result before it   *)
(* ends.                                                                   *)
LEMMA BoxInvStep ==
    ASSUME TypeOK, TypeOK', SuccessIsEarned, NumbersInv, KnownInv, BoxInv, [Next]_vars
    PROVE  BoxInv'
<1>1. wk.pc \in ExecutePcs => wk.key \in Keys
  BY DEF TypeOK
<1>2. ASSUME NEW k \in Keys, rows'[k] \in New PROVE box'[k] = "none"
  <2>1. rows[k] \in New /\ box[k] = "none"
    BY <1>2, RowsStay DEF BoxInv
  <2>2. ~ BoxCreated(k)
    BY <2>1 DEF KnownInv, New, ExecutePcs, BeforeClaim
  <2> QED
    BY <2>1, <2>2, BoxStep DEF BoxMoves
<1>3. ASSUME NEW k \in Keys, box'[k] = "running" PROVE k \in recorded'
  BY <1>3, BoxStep, RecordedStep DEF BoxMoves, BoxInv
<1>4. wk'.pc = "start" => wk'.key \in recorded'
  BY RecordedStep DEF BoxInv
<1>5. ASSUME NEW k \in Keys, box'[k] \in {"none", "created", "running"}
      PROVE  result'[k] = "none"
  BY <1>5, BoxStep DEF BoxMoves, BoxInv
<1> QED
  BY <1>2, <1>3, <1>4, <1>5 DEF BoxInv

(* What the worker holds as a result was written by the runner.            *)
ResultInv ==
    /\ wk.pc \in ExecutePcs /\ wk.result # "none" => result[wk.key] # "none"
    /\ At("idle") => wk.result = "none"
    /\ ReadyIsBacked

(* The result of an attempt never changes once it is there.                *)
LEMMA ResultStays ==
    ASSUME TypeOK, SuccessIsEarned, BoxInv, [Next]_vars, NEW k \in Keys, result[k] # "none"
    PROVE  result'[k] = result[k]
BY BoxStep DEF BoxMoves, BoxInv

(* No model is READY at first.                                             *)
LEMMA ResultInit == Init => ResultInv
BY DEF Init, ResultInv, ReadyIsBacked, NoModelRow, WorkerAt, ExecutePcs, EndingPcs

(* A commit to a model keeps what stands for it, and adds READY only when  *)
(* it is the status given.                                                 *)
LEMMA ReadyKept ==
    ASSUME TypeOK, ReadyIsBacked, NEW k \in Keys, NEW seen, NEW status,
           CommitModel(k, seen, status), Inspects(k),
           status = "READY" => result[k] # "none",
           \A l \in Keys : result[l] # "none" => result'[l] # "none"
    PROVE  ReadyIsBacked'
<1>1. ASSUME NEW m \in Models, models'[m].status = "READY"
      PROVE  models[m].status = "READY" \/ (m = ModelOf[k[1]] /\ status = "READY")
  BY <1>1 DEF CommitModel, Flush, TypeOK
<1> QED
  BY <1>1 DEF ReadyIsBacked

(* READY comes only from a result that was read and is still there.        *)
LEMMA ResultStep ==
    ASSUME TypeOK, TypeOK', SuccessIsEarned, QueueInv, BoxInv, ResultInv, [Next]_vars
    PROVE  ResultInv'
<1>1. /\ \A l \in Keys : result[l] # "none" => result'[l] # "none"
      /\ ReadyIsBacked /\ Phases
      /\ wk.pc \in ExecutePcs => wk.key \in Keys
  BY ResultStays DEF ResultInv, TypeOK, QueueInv
<1>2. ReadyIsBacked'
  <2>1. CASE UNCHANGED models
    BY <1>1, <2>1 DEF ReadyIsBacked
  <2>2. CASE Record
    <3>1. /\ wk.key \in Keys /\ Inspects(wk.key) /\ wk.result \in Results
          /\ wk.result # "none" => result[wk.key] # "none"
      BY <2>2, RecordStep DEF TypeOK, WorkerType, ExecutePcs, EndingPcs, ResultInv
    <3>2. PICK status \in Verdicts(wk.outcome, wk.result) :
             CommitModel(wk.key, wk.model, status)
      BY <2>2, RecordStep
    <3>3. status = "READY" => wk.result # "none"
      BY <3>2 DEF Verdicts
    <3> QED
      BY <1>1, <3>1, <3>2, <3>3, ReadyKept
  <2>3. CASE MarkPending
    BY <1>1, <2>3, MarkPendingStep, ReadyKept DEF TypeOK, ModelPcs
  <2>4. CASE CancelRecord
    <3>1. api.key \in Keys /\ Inspects(api.key)
      BY <2>4, CancelRecordStep DEF TypeOK, ModelPcs
    <3>2. CommitModel(api.key, api.model, "PENDING_INSPECTION")
      BY <2>4, CancelRecordStep DEF Verdicts
    <3> QED
      BY <1>1, <3>1, <3>2, ReadyKept
  <2>5. CASE ~ (Record \/ MarkPending \/ CancelRecord)
    <3>1. Reconcile => UNCHANGED models
      BY DEF Reconcile, ReadActive, ListContainers, ListFails, IdentityFails,
         RestoreRecovered, RestoreLost, Restored, OrphanStop, OrphanRemove, OrphanFails,
         ReadQueued, Requeue, Reconciled
    <3>2. Execute => UNCHANGED models
      BY <2>5 DEF Execute, Get, Recover, RecoverFails, ClaimLoad, Claim, Create,
         CreateFails, RunningLoad, SetRunning, Discard, Start, StageEvent, SetStage,
         LogEnds, Collect, Check, Remove, DockerStepFails, HandleFailure, CleanupStop,
         CleanupRemove, CleanupResult, FinishLoad, Finish, RecordLoad, Done
    <3>3. Request \/ Handle => UNCHANGED models
      BY <2>5 DEF Request, Submit, CancelLoad, RetryLoad, Handle, PendingLoad, ApiEnqueue,
         CancelCommit, CancelStop, CancelRecordLoad, Retry
    <3> QED
      BY <2>1, <3>1, <3>2, <3>3 DEF Next, ContainerExit, Restart, vars
  <2> QED
    BY <2>1, <2>2, <2>3, <2>4, <2>5
<1>3. /\ wk'.pc \in ExecutePcs /\ wk'.result # "none" => result'[wk'.key] # "none"
      /\ wk'.pc = "idle" => wk'.result = "none"
  <2> USE DEF ResultInv, ExecutePcs, EndingPcs
  <2>1. CASE Collect \/ CleanupResult
    BY <1>1, <2>1, CollectStep, CleanupResultStep
  <2>2. CASE Execute /\ ~ Collect /\ ~ CleanupResult
    <3>1. CASE Get
      BY <3>1, GetStep
    <3>2. CASE Done
      BY <3>2, DoneStep
    <3>3. CASE ~ Get /\ ~ Done
      <4>1. WorksOn
        BY <1>1, <2>2, <3>3, ExecuteWorks
      <4>2. SameResult
        BY <2>2, <3>3, RecoverStep, RecoverFailsStep, ClaimLoadStep, ClaimStep, CreateStep,
           CreateFailsStep, RunningLoadStep, SetRunningStep, DiscardStep, StartStep,
           StageEventStep, SetStageStep, LogEndsStep, CheckStep, RemoveStep,
           DockerStepFailsStep, HandleFailureStep, CleanupStopStep, CleanupRemoveStep,
           FinishLoadStep, FinishStep, RecordLoadStep, RecordStep DEF Execute
      <4> QED
        BY <1>1, <4>1, <4>2 DEF WorksOn
    <3> QED
      BY <3>1, <3>2, <3>3
  <2>3. CASE Reconcile
    BY <2>3, ReadActiveStep, ListContainersStep, ListFailsStep, IdentityFailsStep,
       RestoreRecoveredStep, RestoreLostStep, RestoredStep, OrphanStopStep,
       OrphanRemoveStep, OrphanFailsStep, ReadQueuedStep, RequeueStep, ReconciledStep
       DEF Reconcile
  <2>4. CASE UNCHANGED wk
    BY <1>1, <2>4
  <2>5. CASE Restart
    BY <2>5, RestartStep
  <2>6. Request \/ Handle \/ (\E k \in Keys : ContainerExit(k)) \/ UNCHANGED vars
          => UNCHANGED wk
    BY DEF Request, Submit, CancelLoad, RetryLoad, Handle, PendingLoad, MarkPending,
       ApiEnqueue, CancelCommit, CancelStop, CancelRecordLoad, CancelRecord, Retry,
       ContainerExit, vars
  <2> QED
    BY <2>1, <2>2, <2>3, <2>4, <2>5, <2>6 DEF Next
<1> QED
  BY <1>2, <1>3 DEF ResultInv

----------------------------------------------------------------------------
(* The inductive invariant of this module                                  *)

TaskInv == /\ TypeOK /\ SuccessIsEarned /\ QueueInv /\ NumbersInv /\ KnownInv
           /\ BoxInv /\ ResultInv

(* Every step keeps the invariant.                                         *)
LEMMA TaskStep == TaskInv /\ [Next]_vars => TaskInv'
<1> SUFFICES ASSUME TaskInv, [Next]_vars PROVE TaskInv'
  OBVIOUS
<1>1. /\ TypeOK /\ SuccessIsEarned /\ QueueInv /\ NumbersInv /\ KnownInv
      /\ BoxInv /\ ResultInv
  BY DEF TaskInv
<1>2. TypeOK' /\ SuccessIsEarned' /\ QueueInv'
  BY <1>1, TypeStep, SuccessStep, QueueStep
<1>3. NumbersInv' /\ KnownInv'
  BY <1>1, <1>2, NumbersStep, KnownStep
<1>4. BoxInv' /\ ResultInv'
  BY <1>1, <1>2, BoxInvStep, ResultStep
<1> QED
  BY <1>2, <1>3, <1>4 DEF TaskInv

(* It holds at first.                                                      *)
LEMMA TaskInit == Init => TaskInv
BY TypeInit, SuccessInit, QueueInit, NumbersInit, KnownInit, BoxInvInit, ResultInit
   DEF TaskInv

(* The invariant holds in every state.                                     *)
THEOREM TaskCorrect == Spec => []TaskInv
<1> QED
  BY TaskInit, TaskStep, PTL DEF Spec

(* No lost update, fault or restart makes a model convertible that no      *)
(* runner has reported on (_record_model_inspection).                      *)
THEOREM ReadyIsInspected == Spec => []ReadyIsBacked
<1>1. TaskInv => ReadyIsBacked
  BY DEF TaskInv, ResultInv
<1> QED
  BY <1>1, TaskCorrect, PTL

=============================================================================
