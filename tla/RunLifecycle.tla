---------------------------- MODULE RunLifecycle ----------------------------
(***************************************************************************)
(* The life of conversion, probe and model-inspection runs: their rows in  *)
(* SQLite, the one worker thread of RunOrchestrator that executes them, the*)
(* API that submits, cancels and retries them, the runner containers, and a*)
(* controller that may be killed and restarted between any two steps.      *)
(*                                                                         *)
(* The worker (wk), the API (api: no handler here awaits, so the event loop*)
(* runs one at a time) and the containers interleave. One action is one    *)
(* database snapshot, one commit, one Docker call or one change of the     *)
(* in-memory queue; wk and api hold the local variables of the two threads.*)
(***************************************************************************)
EXTENDS RunRepository, Naturals, Sequences, FiniteSets

CONSTANTS
    Runs,          \* run ids that may be submitted
    MaxAttempts,   \* bound on the attempts of one run
    Models,        \* model versions that inspection runs are about
    ModelOf,       \* the model version a run inspects, or NoModel
    NoModel, NoRun, NoKey,
    FaultKinds,    \* the Docker calls that may fail
    MaxFaults,     \* bound on the Docker calls that do fail
    MaxCrashes     \* bound on the restarts of the controller

(* An attempt: its run and its number. Container names, labels and result  *)
(* directories are functions of the two, so a key names them as well.      *)
Keys == Runs \X (1..MaxAttempts)

DockerCalls == {"list", "identity", "recover", "create", "start", "attach",
                "stop", "remove"}

ASSUME LifecycleAssumption ==
    /\ MaxAttempts \in Nat \ {0}
    /\ NoModel \notin Models /\ NoRun \notin Runs /\ NoKey \notin Keys
    /\ ModelOf \in [Runs -> Models \cup {NoModel}]
    /\ FaultKinds \subseteq DockerCalls
    /\ MaxFaults \in Nat /\ MaxCrashes \in Nat

VARIABLES
    runs,      \* ConversionRun.status
    rows,      \* Attempt.status
    recorded,  \* attempts whose container_id is set
    cancels,   \* attempts whose cancel_requested_at is set
    models,    \* ModelVersion: compatibility_status and inspection_run_id
    box,       \* the managed container of an attempt
    result,    \* what the attempt's exit code and result.json amount to
    queue,     \* RunOrchestrator._queue
    pending,   \* RunOrchestrator._pending
    wk,        \* the worker thread
    api,       \* the request handler on the event loop
    faults,    \* Docker calls that failed so far
    crashes    \* restarts so far

db     == <<runs, rows, recorded, cancels, models>>
docker == <<box, result>>
memory == <<queue, pending>>
vars   == <<runs, rows, recorded, cancels, models, box, result, queue, pending,
            wk, api, faults, crashes>>

Present == {"created", "running", "exited"}

(* "none": no result.json that _collect_result accepts; "killed": it says  *)
(* succeeded but the container's exit code is not 0.                       *)
Results == {"none", "succeeded", "failed", "cancelled", "killed"}

ModelStatuses == {"PENDING_INSPECTION", "INSPECTING", "READY", "BLOCKED"}

NoPair == [run |-> Absent, row |-> Absent]
NoModelRow == [status |-> "PENDING_INSPECTION", run |-> NoRun]

(* The threads between two tasks, their local variables forgotten.         *)
WorkerAt(pc, serving) ==
    [pc |-> pc, serving |-> serving, key |-> NoKey, seen |-> NoPair,
     model |-> NoModelRow, stage |-> "RUNNING", held |-> FALSE,
     outcome |-> "FAILED", result |-> "none", todo |-> {}, recover |-> {},
     orphans |-> {}]
ApiIdle == [pc |-> "idle", key |-> NoKey, seen |-> NoPair, stop |-> FALSE,
            model |-> NoModelRow]

Init ==
    /\ runs = [r \in Runs |-> Absent]
    /\ rows = [k \in Keys |-> Absent]
    /\ recorded = {} /\ cancels = {}
    /\ models = [m \in Models |-> NoModelRow]
    /\ box = [k \in Keys |-> "none"]
    /\ result = [k \in Keys |-> "none"]
    /\ queue = <<>> /\ pending = {}
    /\ wk = WorkerAt("reconcile", FALSE)
    /\ api = ApiIdle
    /\ faults = 0 /\ crashes = 0

----------------------------------------------------------------------------
(* Shared helpers                                                          *)

PairOf(k) == [run |-> runs[k[1]], row |-> rows[k]]

Inspects(k) == ModelOf[k[1]] # NoModel

Attempts(r) == {n \in 1..MaxAttempts : rows[<<r, n>>] # Absent}

LastAttempt(r) == <<r, Cardinality(Attempts(r))>>

(* Slip: the number of attempts is taken for the number of the next one.   *)
NextAttemptReused(r) == <<r, Cardinality(Attempts(r))>>

NextAttempt(r) == <<r, Cardinality(Attempts(r)) + 1>>

(* Slip: the status of the run is not kept in step.                        *)
CommitRowOnly(k, seen, status) ==
    /\ rows' = [rows EXCEPT ![k] = Flush(seen.row, status, @)]
    /\ UNCHANGED runs

(* Commit one status to the run and to the attempt, over a snapshot.       *)
CommitStatus(k, seen, status) ==
    /\ runs' = [runs EXCEPT ![k[1]] = Flush(seen.run, status, @)]
    /\ rows' = [rows EXCEPT ![k] = Flush(seen.row, status, @)]

CommitModel(k, seen, status) ==
    models' = [models EXCEPT ![ModelOf[k[1]]] =
                 [status |-> Flush(seen.status, status, @.status),
                  run    |-> Flush(seen.run, k[1], @.run)]]

(* Slip: recovered attempts are queued as new ones.                        *)
EnqueueAsNew(k, recover) ==
    IF k \in pending
    THEN UNCHANGED memory
    ELSE /\ pending' = pending \cup {k}
         /\ queue' = Append(queue, [key |-> k, recover |-> FALSE])

(* Slip: marked as pending, never put.                                     *)
EnqueueWithoutPut(k, recover) == pending' = pending \cup {k} /\ UNCHANGED queue

(* RunOrchestrator.enqueue: at most one work item per attempt.             *)
Enqueue(k, recover) ==
    IF k \in pending
    THEN UNCHANGED memory
    ELSE /\ pending' = pending \cup {k}
         /\ queue' = Append(queue, [key |-> k, recover |-> recover])

Fails(call) ==
    /\ call \in FaultKinds
    /\ faults < MaxFaults
    /\ faults' = faults + 1

(* docker stop: returns once the container is no longer running, having    *)
(* left any result the runner managed to write; no effect otherwise.       *)
StopContainer(k) ==
    IF box[k] = "running"
    THEN /\ box' = [box EXCEPT ![k] = "exited"]
         /\ \E res \in Results : result' = [result EXCEPT ![k] = res]
    ELSE UNCHANGED docker

(* docker rm without force: refused for a running container.               *)
CanRemove(k) == box[k] \in {"created", "exited"}

RemoveContainer(k) ==
    /\ CanRemove(k)
    /\ box' = [box EXCEPT ![k] = "gone"]
    /\ UNCHANGED result

RemoveFails(k) == IF CanRemove(k) THEN Fails("remove") ELSE UNCHANGED faults

(* Slip: the end of the run decides, whether or not there is a result.     *)
VerdictsByOutcome(outcome, res) ==
    IF outcome \in {"CANCELLED", "INTERRUPTED"} THEN {"PENDING_INSPECTION"}
    ELSE {"READY", "BLOCKED"}

(* The statuses _record_model_inspection may store: the runner's own, when *)
(* the result carries one, else what the end of the run stands for.        *)
Verdicts(outcome, res) ==
    LET default == IF outcome \in {"CANCELLED", "INTERRUPTED"}
                   THEN "PENDING_INSPECTION" ELSE "BLOCKED"
    IN  CASE res = "none"                    -> {default}
          [] res \in {"succeeded", "killed"} -> {"READY", "BLOCKED"}
          [] OTHER                           -> {"READY", "BLOCKED", default}

(* Slip: the exit code is not looked at.                                   *)
PassedByResult(res) == res \in {"succeeded", "killed"}

(* After the cancellation check, exit code 0 and a succeeded result.       *)
Passed(res) == res = "succeeded"

At(pc) == wk.pc = pc
Goto(pc) == wk' = [wk EXCEPT !.pc = pc]

(* The end of a repository call: its session and snapshot are gone.        *)
Return(pc) == wk' = [wk EXCEPT !.pc = pc, !.seen = NoPair, !.model = NoModelRow,
                               !.stage = "RUNNING"]

----------------------------------------------------------------------------
(* The worker, on start: RunOrchestrator._reconcile                        *)

ReadActive ==
    /\ At("reconcile")
    /\ wk' = [wk EXCEPT !.pc = "list", !.todo = {k \in Keys : IsActive(PairOf(k))}]
    /\ UNCHANGED <<db, docker, memory, api, faults, crashes>>

(* An active attempt is recovered when the container it recorded is there; *)
(* a container of no active attempt is an orphan.                          *)
ListContainers ==
    /\ At("list")
    /\ LET found == {k \in Keys : box[k] \in Present} IN
       wk' = [wk EXCEPT !.pc = "restore",
                        !.recover = wk.todo \cap found \cap recorded,
                        !.orphans = found \ wk.todo]
    /\ UNCHANGED <<db, docker, memory, api, faults, crashes>>

(* Docker unreachable: every active attempt is given up, no container is   *)
(* looked at.                                                              *)
ListFails ==
    /\ At("list") /\ Fails("list")
    /\ Goto("restore")
    /\ UNCHANGED <<db, docker, memory, api, crashes>>

(* managed_identity reloads each listed container outside any handler: an  *)
(* error there ends the thread.                                            *)
IdentityFails ==
    /\ At("list") /\ Fails("identity")
    /\ \E k \in Keys : box[k] \in Present
    /\ wk' = WorkerAt("dead", FALSE)
    /\ UNCHANGED <<db, docker, memory, api, crashes>>

RestoreRecovered ==
    /\ At("restore")
    /\ \E k \in wk.todo \cap wk.recover :
         /\ Enqueue(k, TRUE)
         /\ wk' = [wk EXCEPT !.todo = @ \ {k}]
    /\ UNCHANGED <<db, docker, api, faults, crashes>>

RestoreLost ==
    /\ At("restore")
    /\ \E k \in wk.todo \ wk.recover :
         wk' = [wk EXCEPT !.todo = @ \ {k}, !.pc = "finish_load", !.key = k,
                          !.outcome = "INTERRUPTED", !.result = "none"]
    /\ UNCHANGED <<db, docker, memory, api, faults, crashes>>

(* Slip: containers of no active attempt are left alone.                   *)
RestoredOnly ==
    /\ At("restore") /\ wk.todo = {}
    /\ wk' = WorkerAt("orphans", FALSE)
    /\ UNCHANGED <<db, docker, memory, api, faults, crashes>>

Restored ==
    /\ At("restore") /\ wk.todo = {}
    /\ wk' = [WorkerAt("orphans", FALSE) EXCEPT !.todo = wk.orphans]
    /\ UNCHANGED <<db, docker, memory, api, faults, crashes>>

OrphanStop ==
    /\ At("orphans")
    /\ \E k \in wk.todo : box[k] = "running" /\ StopContainer(k)
    /\ UNCHANGED <<db, memory, wk, api, faults, crashes>>

OrphanRemove ==
    /\ At("orphans")
    /\ \E k \in wk.todo :
         /\ RemoveContainer(k)
         /\ wk' = [wk EXCEPT !.todo = @ \ {k}]
    /\ UNCHANGED <<db, memory, api, faults, crashes>>

OrphanFails ==
    /\ At("orphans")
    /\ \E k \in wk.todo :
         /\ IF box[k] = "running" THEN Fails("stop") ELSE RemoveFails(k)
         /\ wk' = [wk EXCEPT !.todo = @ \ {k}]
    /\ UNCHANGED <<db, docker, memory, api, crashes>>

(* Slip: what was queued before a restart is not looked for.               *)
ReadNoneQueued ==
    /\ At("orphans") /\ wk.todo = {}
    /\ Goto("requeue")
    /\ UNCHANGED <<db, docker, memory, api, faults, crashes>>

ReadQueued ==
    /\ At("orphans") /\ wk.todo = {}
    /\ wk' = [wk EXCEPT !.pc = "requeue",
                        !.todo = {k \in Keys : IsQueued(PairOf(k))}]
    /\ UNCHANGED <<db, docker, memory, api, faults, crashes>>

Requeue ==
    /\ At("requeue")
    /\ \E k \in wk.todo :
         /\ Enqueue(k, FALSE)
         /\ wk' = [wk EXCEPT !.todo = @ \ {k}]
    /\ UNCHANGED <<db, docker, api, faults, crashes>>

Reconciled ==
    /\ At("requeue") /\ wk.todo = {}
    /\ wk' = WorkerAt("idle", TRUE)
    /\ UNCHANGED <<db, docker, memory, api, faults, crashes>>

Reconcile ==
    \/ ReadActive \/ ListContainers \/ ListFails \/ IdentityFails
    \/ RestoreRecovered \/ RestoreLost \/ Restored
    \/ OrphanStop \/ OrphanRemove \/ OrphanFails
    \/ ReadQueued \/ Requeue \/ Reconciled

----------------------------------------------------------------------------
(* The worker, on a work item: RunService.execute. A step that raises goes *)
(* to "failed", the except clause; wk.held is "container is not None".     *)

Get ==
    /\ At("idle") /\ queue # <<>>
    /\ LET item == Head(queue) IN
       wk' = [wk EXCEPT !.pc = IF item.recover THEN "recover" ELSE "claim_load",
                        !.key = item.key]
    /\ queue' = Tail(queue)
    /\ UNCHANGED <<db, docker, pending, api, faults, crashes>>

CanRecover(k) == k \in recorded /\ box[k] \in Present

Recover ==
    /\ At("recover") /\ CanRecover(wk.key)
    /\ wk' = [wk EXCEPT !.pc = "stream", !.held = TRUE]
    /\ UNCHANGED <<db, docker, memory, api, faults, crashes>>

RecoverFails ==
    /\ At("recover")
    /\ IF CanRecover(wk.key) THEN Fails("recover") ELSE UNCHANGED faults
    /\ Goto("failed")
    /\ UNCHANGED <<db, docker, memory, api, crashes>>

ClaimLoad ==
    /\ At("claim_load")
    /\ wk' = [wk EXCEPT !.seen = PairOf(wk.key),
                        !.pc = IF CanClaim(PairOf(wk.key)) THEN "claim" ELSE "done"]
    /\ UNCHANGED <<db, docker, memory, api, faults, crashes>>

Claim ==
    /\ At("claim")
    /\ CommitStatus(wk.key, wk.seen, "PROVISIONING")
    /\ Return("create")
    /\ UNCHANGED <<recorded, cancels, models, docker, memory, api, faults, crashes>>

Create ==
    /\ At("create") /\ box[wk.key] = "none"
    /\ box' = [box EXCEPT ![wk.key] = "created"]
    /\ wk' = [wk EXCEPT !.pc = "running_load", !.held = TRUE]
    /\ UNCHANGED <<db, result, memory, api, faults, crashes>>

(* The image is missing, the name is taken, or Docker refuses.             *)
CreateFails ==
    /\ At("create")
    /\ IF box[wk.key] = "none" THEN Fails("create") ELSE UNCHANGED faults
    /\ Goto("failed")
    /\ UNCHANGED <<db, docker, memory, api, crashes>>

RunningLoad ==
    /\ At("running_load")
    /\ wk' = [wk EXCEPT !.seen = PairOf(wk.key), !.pc = "running"]
    /\ UNCHANGED <<db, docker, memory, api, faults, crashes>>

(* set_running records the container id in every case.                     *)
SetRunning ==
    /\ At("running")
    /\ recorded' = recorded \cup {wk.key}
    /\ IF CanProgress(wk.seen)
       THEN CommitStatus(wk.key, wk.seen, "RUNNING") /\ Return("start")
       ELSE UNCHANGED <<runs, rows>> /\ Return("discard")
    /\ UNCHANGED <<cancels, models, docker, memory, api, faults, crashes>>

(* Slip: the container of a cancelled attempt is forgotten.                *)
DiscardNothing ==
    /\ At("discard")
    /\ wk' = [wk EXCEPT !.pc = "finish_load", !.held = FALSE, !.outcome = "CANCELLED"]
    /\ UNCHANGED <<db, docker, memory, api, faults, crashes>>

Discard ==
    /\ At("discard")
    /\ RemoveContainer(wk.key)
    /\ wk' = [wk EXCEPT !.pc = "finish_load", !.held = FALSE, !.outcome = "CANCELLED"]
    /\ UNCHANGED <<db, memory, api, faults, crashes>>

Start ==
    /\ At("start")
    /\ box' = [box EXCEPT ![wk.key] = "running"]
    /\ Goto("stream")
    /\ UNCHANGED <<db, result, memory, api, faults, crashes>>

(* _collect_logs: a step_started event in the log sets the stage.          *)
StageEvent ==
    /\ At("stream") /\ box[wk.key] \in {"running", "exited"}
    /\ \E s \in Stages :
         wk' = [wk EXCEPT !.pc = "stage", !.stage = s, !.seen = PairOf(wk.key)]
    /\ UNCHANGED <<db, docker, memory, api, faults, crashes>>

SetStage ==
    /\ At("stage")
    /\ IF CanProgress(wk.seen)
       THEN CommitStatus(wk.key, wk.seen, wk.stage)
       ELSE UNCHANGED <<runs, rows>>
    /\ Return("stream")
    /\ UNCHANGED <<recorded, cancels, models, docker, memory, api, faults, crashes>>

(* The attached stream ends and wait returns when the container has exited.*)
LogEnds ==
    /\ At("stream") /\ box[wk.key] = "exited"
    /\ Goto("collect")
    /\ UNCHANGED <<db, docker, memory, api, faults, crashes>>

Collect ==
    /\ At("collect")
    /\ wk' = [wk EXCEPT !.pc = IF result[wk.key] = "none" THEN "failed" ELSE "check",
                        !.result = result[wk.key]]
    /\ UNCHANGED <<db, docker, memory, api, faults, crashes>>

Check ==
    /\ At("check")
    /\ LET cancelled == \/ wk.result = "cancelled"
                        \/ CancelRequested(runs[wk.key[1]], wk.key \in cancels)
       IN  wk' = [wk EXCEPT
                    !.pc = IF cancelled \/ Passed(wk.result)
                           THEN "remove" ELSE "failed",
                    !.outcome = IF cancelled THEN "CANCELLED"
                                ELSE IF Passed(wk.result) THEN "SUCCEEDED"
                                ELSE @]
    /\ UNCHANGED <<db, docker, memory, api, faults, crashes>>

Remove ==
    /\ At("remove")
    /\ RemoveContainer(wk.key)
    /\ wk' = [wk EXCEPT !.pc = "finish_load", !.held = FALSE]
    /\ UNCHANGED <<db, memory, api, faults, crashes>>

DockerStepFails ==
    /\ \/ At("discard") /\ RemoveFails(wk.key)
       \/ At("remove") /\ RemoveFails(wk.key)
       \/ At("start") /\ Fails("start")
       \/ At("stream") /\ Fails("attach")
    /\ Goto("failed")
    /\ UNCHANGED <<db, docker, memory, api, crashes>>

(* except: was a cancellation requested? Then clean up and look again for  *)
(* a result.                                                               *)
HandleFailure ==
    /\ At("failed")
    /\ wk' = [wk EXCEPT
                !.pc = IF wk.held THEN "cleanup_stop" ELSE "cleanup_result",
                !.outcome = IF CancelRequested(runs[wk.key[1]], wk.key \in cancels)
                            THEN "CANCELLED" ELSE "FAILED"]
    /\ UNCHANGED <<db, docker, memory, api, faults, crashes>>

(* Slip: a failed attempt is removed without being stopped.                *)
CleanupWithoutStop ==
    /\ At("cleanup_stop")
    /\ Goto("cleanup_remove")
    /\ UNCHANGED <<db, docker, memory, api, faults, crashes>>

CleanupStop ==
    /\ At("cleanup_stop")
    /\ \/ StopContainer(wk.key) /\ UNCHANGED faults
       \/ Fails("stop") /\ UNCHANGED docker
    /\ Goto("cleanup_remove")
    /\ UNCHANGED <<db, memory, api, crashes>>

CleanupRemove ==
    /\ At("cleanup_remove")
    /\ \/ RemoveContainer(wk.key) /\ UNCHANGED faults
       \/ RemoveFails(wk.key) /\ UNCHANGED docker
    /\ wk' = [wk EXCEPT !.pc = "cleanup_result", !.held = FALSE]
    /\ UNCHANGED <<db, memory, api, crashes>>

CleanupResult ==
    /\ At("cleanup_result")
    /\ wk' = [wk EXCEPT !.pc = "finish_load",
                        !.result = IF @ = "none" THEN result[wk.key] ELSE @]
    /\ UNCHANGED <<db, docker, memory, api, faults, crashes>>

FinishLoad ==
    /\ At("finish_load")
    /\ wk' = [wk EXCEPT !.pc = "finish", !.seen = PairOf(wk.key)]
    /\ UNCHANGED <<db, docker, memory, api, faults, crashes>>

(* Slip: the end of an attempt that reconciliation gives up is taken for   *)
(* the end of a work item.                                                 *)
AfterFinishServing == "done"

AfterFinish == IF wk.serving THEN "done" ELSE "restore"

Finish ==
    /\ At("finish")
    /\ CommitStatus(wk.key, wk.seen, wk.outcome)
    /\ Return(IF Inspects(wk.key) THEN "record_load" ELSE AfterFinish)
    /\ UNCHANGED <<recorded, cancels, models, docker, memory, api, faults, crashes>>

RecordLoad ==
    /\ At("record_load")
    /\ wk' = [wk EXCEPT !.pc = "record", !.model = models[ModelOf[wk.key[1]]]]
    /\ UNCHANGED <<db, docker, memory, api, faults, crashes>>

Record ==
    /\ At("record")
    /\ \E status \in Verdicts(wk.outcome, wk.result) :
         CommitModel(wk.key, wk.model, status)
    /\ Return(AfterFinish)
    /\ UNCHANGED <<runs, rows, recorded, cancels, docker, memory, api, faults, crashes>>

Done ==
    /\ At("done")
    /\ pending' = pending \ {wk.key}
    /\ wk' = WorkerAt("idle", TRUE)
    /\ UNCHANGED <<db, docker, queue, api, faults, crashes>>

Execute ==
    \/ Get \/ Recover \/ RecoverFails \/ ClaimLoad \/ Claim
    \/ Create \/ CreateFails \/ RunningLoad \/ SetRunning \/ Discard \/ Start
    \/ StageEvent \/ SetStage \/ LogEnds \/ Collect \/ Check \/ Remove
    \/ DockerStepFails \/ HandleFailure
    \/ CleanupStop \/ CleanupRemove \/ CleanupResult
    \/ FinishLoad \/ Finish \/ RecordLoad \/ Record \/ Done

----------------------------------------------------------------------------
(* The API: submit, cancel and retry                                       *)

ApiAt(pc) == api.pc = pc

(* Submissions of a model inspection are refused while one is recorded.    *)
Submit(r) ==
    /\ ApiAt("idle") /\ runs[r] = Absent
    /\ ModelOf[r] # NoModel => models[ModelOf[r]].status # "INSPECTING"
    /\ runs' = [runs EXCEPT ![r] = "QUEUED"]
    /\ rows' = [rows EXCEPT ![<<r, 1>>] = "QUEUED"]
    /\ api' = [api EXCEPT !.key = <<r, 1>>,
                 !.pc = IF ModelOf[r] # NoModel THEN "pending_load" ELSE "enqueue"]
    /\ UNCHANGED <<recorded, cancels, models, docker, memory, wk, faults, crashes>>

PendingLoad ==
    /\ ApiAt("pending_load")
    /\ api' = [api EXCEPT !.pc = "pending", !.model = models[ModelOf[api.key[1]]]]
    /\ UNCHANGED <<db, docker, memory, wk, faults, crashes>>

MarkPending ==
    /\ ApiAt("pending")
    /\ CommitModel(api.key, api.model, "INSPECTING")
    /\ api' = [api EXCEPT !.pc = "enqueue", !.model = NoModelRow]
    /\ UNCHANGED <<runs, rows, recorded, cancels, docker, memory, wk, faults, crashes>>

ApiEnqueue ==
    /\ ApiAt("enqueue")
    /\ Enqueue(api.key, FALSE)
    /\ api' = ApiIdle
    /\ UNCHANGED <<db, docker, wk, faults, crashes>>

(* The last attempt of a run that is not finished.                         *)
CancelLoad(r) ==
    /\ ApiAt("idle") /\ Attempts(r) # {}
    /\ LET k == LastAttempt(r) IN
       /\ CanCancel(PairOf(k))
       /\ api' = [api EXCEPT !.pc = "cancel", !.key = k, !.seen = PairOf(k),
                             !.stop = k \in recorded]
    /\ UNCHANGED <<db, docker, memory, wk, faults, crashes>>

(* What was queued has no container yet, so at most one of the two calls   *)
(* after the commit is due.                                                *)
CancelCommit ==
    /\ ApiAt("cancel")
    /\ CommitStatus(api.key, api.seen, CancelTarget(api.seen))
    /\ cancels' = cancels \cup {api.key}
    /\ LET terminal == IsQueued(api.seen) IN
       api' = IF api.stop THEN [api EXCEPT !.pc = "stop", !.seen = NoPair]
              ELSE IF terminal /\ Inspects(api.key)
              THEN [api EXCEPT !.pc = "record_load", !.seen = NoPair]
              ELSE ApiIdle
    /\ UNCHANGED <<recorded, models, docker, memory, wk, faults, crashes>>

(* A failing stop is only a warning in the response.                       *)
CancelStop ==
    /\ ApiAt("stop")
    /\ \/ StopContainer(api.key) /\ UNCHANGED faults
       \/ Fails("stop") /\ UNCHANGED docker
    /\ api' = ApiIdle
    /\ UNCHANGED <<db, memory, wk, crashes>>

CancelRecordLoad ==
    /\ ApiAt("record_load")
    /\ api' = [api EXCEPT !.pc = "record", !.model = models[ModelOf[api.key[1]]]]
    /\ UNCHANGED <<db, docker, memory, wk, faults, crashes>>

CancelRecord ==
    /\ ApiAt("record")
    /\ \E status \in Verdicts("CANCELLED", "none") :
         CommitModel(api.key, api.model, status)
    /\ api' = ApiIdle
    /\ UNCHANGED <<runs, rows, recorded, cancels, docker, memory, wk, faults, crashes>>

(* Only the API adds attempts, so the number it computed is still the next *)
(* one when retry checks it.                                               *)
RetryLoad(r) ==
    /\ ApiAt("idle") /\ CanRetry(runs[r])
    /\ Cardinality(Attempts(r)) < MaxAttempts
    /\ api' = [api EXCEPT !.pc = "retry", !.seen = [NoPair EXCEPT !.run = runs[r]],
                          !.key = NextAttempt(r)]
    /\ UNCHANGED <<db, docker, memory, wk, faults, crashes>>

Retry ==
    /\ ApiAt("retry")
    /\ CommitStatus(api.key, api.seen, "QUEUED")
    /\ api' = [api EXCEPT !.seen = NoPair,
                 !.pc = IF Inspects(api.key) THEN "pending_load" ELSE "enqueue"]
    /\ UNCHANGED <<recorded, cancels, models, docker, memory, wk, faults, crashes>>

Request ==
    \E r \in Runs : Submit(r) \/ CancelLoad(r) \/ RetryLoad(r)

Handle ==
    \/ PendingLoad \/ MarkPending \/ ApiEnqueue
    \/ CancelCommit \/ CancelStop \/ CancelRecordLoad \/ CancelRecord
    \/ Retry

----------------------------------------------------------------------------
(* The containers, and the end of the controller process                   *)

(* The runner ends by itself, or the host ends it, as docker stop does.    *)
ContainerExit(k) ==
    /\ box[k] = "running"
    /\ StopContainer(k)
    /\ UNCHANGED <<db, memory, wk, api, faults, crashes>>

(* The process is killed, or stopped (stop() gives the thread a second and *)
(* the process ends in any case), and started again: the database, the     *)
(* containers and the files stay.                                          *)
Restart ==
    /\ crashes < MaxCrashes
    /\ crashes' = crashes + 1
    /\ queue' = <<>> /\ pending' = {}
    /\ wk' = WorkerAt("reconcile", FALSE)
    /\ api' = ApiIdle
    /\ UNCHANGED <<db, docker, faults>>

Next ==
    \/ Reconcile \/ Execute
    \/ Request \/ Handle
    \/ \E k \in Keys : ContainerExit(k)
    \/ Restart

Spec == Init /\ [][Next]_vars

----------------------------------------------------------------------------
(* Properties                                                              *)

Items == [key : Keys, recover : BOOLEAN]

ModelRows == [status : ModelStatuses, run : Runs \cup {NoRun}]

ReconcilePcs == {"reconcile", "list", "restore", "orphans", "requeue"}

(* Where the worker is between Get and Done; the last four also serve the  *)
(* attempts that reconciliation gives up.                                  *)
EndingPcs  == {"finish_load", "finish", "record_load", "record"}
ExecutePcs == {"recover", "claim_load", "claim", "create", "running_load", "running",
               "discard", "start", "stream", "stage", "collect", "check", "remove",
               "failed", "cleanup_stop", "cleanup_remove", "cleanup_result", "done"}
                 \cup EndingPcs

WorkerType ==
    [pc : ReconcilePcs \cup ExecutePcs \cup {"idle", "dead"}, serving : BOOLEAN,
     key : Keys \cup {NoKey}, seen : Pair, model : ModelRows,
     stage : {"RUNNING"} \cup Stages, held : BOOLEAN, outcome : TerminalStatuses,
     result : Results, todo : SUBSET Keys, recover : SUBSET Keys,
     orphans : SUBSET Keys]

(* Where a handler is about to write the model of its run.                 *)
ModelPcs == {"pending_load", "pending", "record_load", "record"}

ApiType ==
    [pc : {"idle", "pending_load", "pending", "enqueue", "cancel", "stop",
           "record_load", "record", "retry"},
     key : Keys \cup {NoKey}, seen : Pair, stop : BOOLEAN, model : ModelRows]

(* Every column, container and local variable has one of its values; the   *)
(* threads name an attempt wherever the code uses one, and an inspection   *)
(* wherever they write its model.                                          *)
TypeOK ==
    /\ runs \in [Runs -> Columns]
    /\ rows \in [Keys -> Columns]
    /\ recorded \subseteq Keys /\ cancels \subseteq Keys
    /\ models \in [Models -> ModelRows]
    /\ box \in [Keys -> {"none", "created", "running", "exited", "gone"}]
    /\ result \in [Keys -> Results]
    /\ queue \in Seq(Items) /\ pending \subseteq Keys
    /\ wk \in WorkerType /\ api \in ApiType
    /\ wk.pc \in ExecutePcs => wk.key \in Keys
    /\ At("record_load") \/ At("record") => Inspects(wk.key)
    /\ api.pc # "idle" => api.key \in Keys
    /\ api.pc \in ModelPcs => Inspects(api.key)
    /\ faults \in 0..MaxFaults /\ crashes \in 0..MaxCrashes

(* An attempt is shown as succeeded only when its runner exited with 0 and *)
(* a succeeded result, and its container was removed, whatever the         *)
(* cancellations, retries, faults and restarts in between.                 *)
SuccessGate ==
    \A k \in Keys : rows[k] = "SUCCEEDED" => result[k] = "succeeded" /\ box[k] = "gone"

(* Why: from create to the end of the run the worker knows the state of    *)
(* its container, and the outcome it is about to store is earned.          *)
HoldsCreated ==
    At("running_load") \/ At("running") \/ At("discard") \/ At("start")
        => box[wk.key] = "created"
HoldsExited ==
    At("collect") \/ At("check") \/ At("remove") => box[wk.key] = "exited"
ResultIsRead ==
    At("check") => wk.result = result[wk.key]
OutcomeIsEarned ==
    wk.outcome = "SUCCEEDED" =>
        /\ ~ (At("cleanup_stop") \/ At("cleanup_remove") \/ At("cleanup_result"))
        /\ At("remove") => result[wk.key] = "succeeded"
        /\ At("finish_load") \/ At("finish")
               => result[wk.key] = "succeeded" /\ box[wk.key] = "gone"

(* The inductive form of SuccessGate.                                      *)
SuccessIsEarned ==
    /\ HoldsCreated /\ HoldsExited /\ ResultIsRead /\ OutcomeIsEarned
    /\ SuccessGate

Uncancelled(r) == \A n \in Attempts(r) : <<r, n>> \notin cancels

(* While no attempt of a run was cancelled, the status of the run is the   *)
(* status of its last attempt: a run never claims an outcome its attempt   *)
(* does not have.                                                          *)
RunFollowsLastAttempt ==
    \A r \in Runs : Attempts(r) # {} /\ Uncancelled(r) => runs[r] = rows[LastAttempt(r)]

(* The worker executes the attempt, or will recover it.                    *)
Supervised(k) ==
    \/ wk.pc \in ExecutePcs /\ wk.key = k
    \/ \E i \in 1..Len(queue) : queue[i] = [key |-> k, recover |-> TRUE]

(* Once reconciliation is over a container runs only under supervision, so *)
(* that somebody stops, collects and removes it.                           *)
RunningIsSupervised ==
    wk.serving => \A k \in Keys : box[k] = "running" => Supervised(k)

(* An attempt of a run nobody cancelled that the database shows at work is *)
(* supervised: no such status is left over from before a restart.          *)
WorkIsSupervised ==
    wk.serving => \A k \in Keys :
        rows[k] \in ActiveStatuses /\ Uncancelled(k[1]) => Supervised(k)

(* A queued attempt of a run nobody cancelled is never forgotten: once the *)
(* worker has read the queue from the database it is in memory, or its     *)
(* handler is about to put it there. (A late cancellation may show a run as*)
(* CANCELLED while its attempt executes. A retry then queues the next one, *)
(* the end of the first is written over the run's new status, and the      *)
(* worker drops a work item it cannot claim.)                              *)
Remembered(k) ==
    \/ k \in pending
    \/ At("requeue") /\ k \in wk.todo
    \/ api.key = k /\ api.pc \in {"pending_load", "pending", "enqueue"}

QueuedIsRemembered ==
    wk.serving \/ At("requeue") => \A k \in Keys :
        IsQueued(PairOf(k)) /\ Uncancelled(k[1]) => Remembered(k)

(* An attempt that ended is changed only when its cancellation is, or was, *)
(* requested.                                                              *)
ReopenedOnlyByCancel ==
    [][\A k \in Keys : rows[k] \in TerminalStatuses /\ rows'[k] # rows[k]
                          => k \in cancels']_vars

(* A model is READY only when the runner of some inspection of it wrote a  *)
(* result: no end of a run without a result, and no lost update between    *)
(* the worker and the handlers, makes an uninspected model convertible.    *)
ReadyIsBacked ==
    \A m \in Models : models[m].status = "READY" =>
        \E k \in Keys : ModelOf[k[1]] = m /\ result[k] # "none"

(* The orchestrator as the rest of the system may rely on it.              *)
Slot == INSTANCE RunnerSlot WITH
    Jobs <- Keys,
    Slots <- MaxCrashes + 1,
    phase <- [k \in Keys |-> CASE box[k] = "running"            -> "running"
                               [] box[k] \in {"exited", "gone"} -> "over"
                               [] OTHER                         -> "waiting"],
    passed <- {k \in Keys : result[k] = "succeeded"},
    shown  <- {k \in Keys : rows[k] = "SUCCEEDED"}

(* One runner at a time, or one more for each restart (a submission may be *)
(* executed before the runner that survived is recovered), at most one in  *)
(* the life of an attempt, and success shown only for a runner that passed.*)
ImplementsSlot == Slot!Spec

----------------------------------------------------------------------------
(* Progress, when Docker answers and the controller stays up. The threads  *)
(* are scheduled; a log is finite, so that the stream of an exited         *)
(* container ends; the runner's timeout ends every container.              *)
Fairness ==
    /\ WF_vars(Reconcile \/ Execute)
    /\ SF_vars(LogEnds)
    /\ WF_vars(Handle)
    /\ \A k \in Keys : WF_vars(ContainerExit(k))

FairSpec == Spec /\ Fairness

(* A queued attempt ends, unless a cancellation request holds it in        *)
(* CANCELLING or overtook an earlier attempt of its run.                   *)
EveryAttemptEnds ==
    \A k \in Keys :
        rows[k] = "QUEUED" ~> \/ rows[k] \in TerminalStatuses
                              \/ rows[k] = "CANCELLING" /\ k \in cancels
                              \/ \E n \in 1..(k[2] - 1) : <<k[1], n>> \in cancels

(* However a cancellation races with the worker, the container of the      *)
(* attempt is removed in the end and no other one is created for it.       *)
CancelledLeavesNothing ==
    \A k \in Keys : k \in cancels ~> [](box[k] \notin Present)

----------------------------------------------------------------------------
(* What the documents and messages of the repository say and the code does *)
(* not do.                                                                 *)

(* "One active Runner globally": also after a restart.                     *)
OneRunner ==
    \A k, l \in Keys : box[k] = "running" /\ box[l] = "running" => k = l

(* "A terminal attempt cannot be modified, only a new Attempt created."    *)
TerminalIsFinal ==
    [][\A k \in Keys : rows[k] \in TerminalStatuses => rows'[k] = rows[k]]_vars

(* Nothing is being done and nothing is waiting to be done.                *)
Settled == At("idle") /\ wk.serving /\ queue = <<>> /\ api.pc = "idle"

(* Reconciliation: "terminal in the database, the container still exists:  *)
(* verify the labels and clean it up".                                     *)
NoLeftoverContainer ==
    Settled => \A k \in Keys : rows[k] \in TerminalStatuses => box[k] \notin Present

(* The refusal of a second inspection: "model inspection is already        *)
(* queued".                                                                *)
InspectingIsQueued ==
    Settled => \A m \in Models : models[m].status # "INSPECTING"

=============================================================================
