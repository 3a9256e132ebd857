----------------------------- MODULE BoardTasks -----------------------------
(***************************************************************************)
(* Board tasks: their rows in SQLite, the one worker thread of             *)
(* BoardOrchestrator, the SSH session and the remote workspace of the task *)
(* it executes, and the cancellations that the event loop handles at the   *)
(* same time. BoardDevices adds the devices the tasks run on.              *)
(*                                                                         *)
(* One action is one snapshot, one commit, one exchange with the board or  *)
(* one change of the shared memory; wk and api hold the local variables of *)
(* the worker thread and of the handler on the event loop.                 *)
(***************************************************************************)
EXTENDS BoardRepository, Naturals, Sequences, SequencesExt

CONSTANTS
    Tasks,         \* board run ids that may be submitted
    NoTask,
    KeepRemote,    \* settings.board_keep_remote
    MaxFaults,     \* bound on the connections that are lost and the requests refused
    MaxCrashes     \* bound on the restarts of the controller

ASSUME TasksAssumption ==
    /\ NoTask \notin Tasks
    /\ KeepRemote \in BOOLEAN
    /\ MaxFaults \in Nat /\ MaxCrashes \in Nat

VARIABLES
    status,     \* BoardRun.status
    cancels,    \* tasks whose cancel_requested_at is set
    payload,    \* BoardRun.result_payload: the artifacts it lists
    queue,      \* BoardOrchestrator._queue
    pending,    \* BoardOrchestrator._pending
    cancelled,  \* BoardGateway._cancelled
    session,    \* the SSH connection of a task
    remote,     \* its workspace on the board
    command,    \* its hrt_model_exec on the board
    stopping,   \* BoardOrchestrator._stop
    wk,         \* the worker thread
    api,        \* the request handler on the event loop
    refused,    \* what the board refused to a task, its connection open
    faults,     \* connections lost and requests refused so far
    crashes     \* restarts so far

db     == <<status, cancels, payload>>
memory == <<queue, pending, cancelled, stopping>>
board  == <<session, remote, command>>
trouble == <<refused, faults, crashes>>
taskVars == <<status, cancels, payload, queue, pending, cancelled, session, remote,
              command, stopping, wk, api, refused, faults, crashes>>

(* The refusals that do not end the try block: a listing of the download;  *)
(* in the cleanup the listing of the workspace itself, or anything else (a *)
(* listing below it, a removal, an SFTP session, the phase in the database).*)
Refusals == {"output", "root", "cleanup"}

(* exc is what the try block of the gateway ended with, got the artifacts  *)
(* it collected and unclean its cleanup_error; out of their scope they are *)
(* what they were.                                                         *)
WorkerIdle == [pc |-> "idle", key |-> NoTask, seen |-> Absent, phase |-> "UPLOADING",
               exc |-> "none", got |-> "none", unclean |-> FALSE, outcome |-> "FAILED"]

ApiIdle == [pc |-> "idle", key |-> NoTask, seen |-> Absent]

Init ==
    /\ status = [k \in Tasks |-> Absent]
    /\ cancels = {}
    /\ payload = [k \in Tasks |-> "none"]
    /\ queue = <<>> /\ pending = {} /\ cancelled = {}
    /\ session = [k \in Tasks |-> "none"]
    /\ remote = [k \in Tasks |-> "none"]
    /\ command = [k \in Tasks |-> "none"]
    /\ stopping = FALSE
    /\ wk = WorkerIdle /\ api = ApiIdle
    /\ refused = [k \in Tasks |-> {}] /\ faults = 0 /\ crashes = 0

----------------------------------------------------------------------------
(* Shared helpers                                                          *)

At(pc) == wk.pc = pc
Goto(pc) == wk' = [wk EXCEPT !.pc = pc]

(* The end of a repository call.                                           *)
Return(pc) == wk' = [wk EXCEPT !.pc = pc, !.seen = Absent]

Commit(k, seen, new) == status' = [status EXCEPT ![k] = Flush(seen, new, @)]

(* Between the entry in BoardGateway._active and its removal.              *)
GatewayPcs == {"guard", "phase_load", "phase", "upload", "run", "wait", "collect",
               "clean_open", "clean_tree", "release"}
ExecutePcs == {"claim_load", "claim", "connect", "outcome", "finish_load", "finish",
               "done"} \cup GatewayPcs

Registered(k) == wk.key = k /\ wk.pc \in GatewayPcs

(* Slip: the task is not marked as pending.                                *)
EnqueueUnmarked(k) == queue' = Append(queue, k) /\ UNCHANGED pending

(* Slip: the task is marked and not put in the queue.                      *)
EnqueueWithoutPut(k) == pending' = pending \cup {k} /\ UNCHANGED queue

Enqueue(k) ==
    IF k \in pending
    THEN UNCHANGED <<queue, pending>>
    ELSE /\ pending' = pending \cup {k}
         /\ queue' = Append(queue, k)

(* Slip: only a task that ran through is cleaned up after.                 *)
FinallyReleases(exc) == wk' = [wk EXCEPT !.exc = exc, !.pc = "release"]

(* The end of the gateway's try block: the workspace is cleaned unless the *)
(* settings keep it.                                                       *)
Finally(exc) ==
    wk' = [wk EXCEPT !.exc = exc, !.phase = "CLEANING",
                     !.pc = IF KeepRemote THEN "release" ELSE "phase_load"]

SetPhase(phase) == wk' = [wk EXCEPT !.pc = "phase_load", !.phase = phase]

Open(k) == session[k] = "open"
Severed(k) == session[k] = "severed"
Refused(k, kind) == kind \in refused[k]

(* A request of the worker is refused.                                     *)
Refuse(kind) ==
    /\ faults < MaxFaults
    /\ faults' = faults + 1
    /\ refused' = [refused EXCEPT ![wk.key] = @ \cup {kind}]
    /\ UNCHANGED crashes

(* A request fails: for want of a connection, or refused.                  *)
Fails(kind) ==
    \/ Severed(wk.key) /\ UNCHANGED trouble
    \/ Open(wk.key) /\ Refuse(kind)

----------------------------------------------------------------------------
(* The worker: BoardOrchestrator._worker and BoardService.execute          *)

Get ==
    /\ At("idle") /\ queue # <<>>
    /\ wk' = [wk EXCEPT !.pc = "claim_load", !.key = Head(queue)]
    /\ queue' = Tail(queue)
    /\ UNCHANGED <<db, pending, cancelled, stopping, board, api, trouble>>

ClaimLoad ==
    /\ At("claim_load")
    /\ wk' = [wk EXCEPT !.seen = status[wk.key],
                        !.pc = IF CanClaim(status[wk.key]) THEN "claim" ELSE "done"]
    /\ UNCHANGED <<db, memory, board, api, trouble>>

Claim ==
    /\ At("claim")
    /\ Commit(wk.key, wk.seen, "CONNECTING")
    /\ Return("connect")
    /\ UNCHANGED <<cancels, payload, memory, board, api, trouble>>

(* The stored options, the input, the credential and the HBM are those of  *)
(* the submission, and the board accepts the connection.                   *)
Connect ==
    /\ At("connect")
    /\ session' = [session EXCEPT ![wk.key] = "open"]
    /\ Goto("guard")
    /\ UNCHANGED <<db, memory, remote, command, api, trouble>>

ConnectFails ==
    /\ At("connect")
    /\ wk' = [wk EXCEPT !.pc = "outcome", !.exc = "error"]
    /\ UNCHANGED <<db, memory, board, api, trouble>>

(* _raise_if_cancelled, once the session is registered.                    *)
Guard ==
    /\ At("guard")
    /\ IF wk.key \in cancelled THEN Finally("cancelled") ELSE SetPhase("UPLOADING")
    /\ UNCHANGED <<db, memory, board, api, trouble>>

PhaseLoad ==
    /\ At("phase_load")
    /\ wk' = [wk EXCEPT !.pc = "phase", !.seen = status[wk.key]]
    /\ UNCHANGED <<db, memory, board, api, trouble>>

AfterPhase == [UPLOADING |-> "upload", RUNNING |-> "run", COLLECTING |-> "collect",
               CLEANING |-> "clean_open"]

Phase ==
    /\ At("phase")
    /\ Commit(wk.key, wk.seen, PhaseTarget(wk.seen, wk.phase))
    /\ Return(AfterPhase[wk.phase])
    /\ UNCHANGED <<cancels, payload, memory, board, api, trouble>>

(* on_phase raises, at its snapshot or at its commit.                      *)
PhaseFails ==
    /\ At("phase_load")
    /\ IF wk.phase = "CLEANING"
       THEN wk' = [wk EXCEPT !.pc = "release", !.unclean = TRUE] /\ Refuse("cleanup")
       ELSE Finally("error") /\ UNCHANGED trouble
    /\ UNCHANGED <<db, memory, board, api>>

Upload ==
    /\ At("upload") /\ Open(wk.key)
    /\ remote' = [remote EXCEPT ![wk.key] = "present"]
    /\ SetPhase("RUNNING")
    /\ UNCHANGED <<db, memory, session, command, api, trouble>>

(* The connection is gone, the progress callback sees the cancellation, or *)
(* the board refuses (no space, no such directory).                        *)
UploadFails ==
    /\ At("upload")
    /\ \/ wk.key \in cancelled /\ Finally("cancelled")
       \/ Finally("error")
    /\ \E after \in {remote[wk.key], "present"} : remote' = [remote EXCEPT ![wk.key] = after]
    /\ UNCHANGED <<db, memory, session, command, api, trouble>>

RunCommand ==
    /\ At("run") /\ Open(wk.key)
    /\ command' = [command EXCEPT ![wk.key] = "running"]
    /\ Goto("wait")
    /\ UNCHANGED <<db, memory, session, remote, api, trouble>>

(* The connection is gone, or the board refuses a channel.                 *)
RunFails ==
    /\ At("run") /\ Finally("error")
    /\ UNCHANGED <<db, memory, board, api, trouble>>

(* The loop of _run. The exit status may have arrived before the channel   *)
(* was closed.                                                             *)
CommandPassed ==
    /\ At("wait") /\ command[wk.key] = "passed"
    /\ SetPhase("COLLECTING")
    /\ UNCHANGED <<db, memory, board, api, trouble>>

CommandFailed ==
    /\ At("wait") /\ (command[wk.key] = "failed" \/ Severed(wk.key))
    /\ Finally("error")
    /\ UNCHANGED <<db, memory, board, api, trouble>>

(* Cancelled, out of time or beyond the output limit: the channel is       *)
(* closed, the program on the board may go on for a while.                 *)
Abandon ==
    /\ At("wait")
    /\ \/ wk.key \in cancelled /\ Finally("cancelled")
       \/ Finally("error")
    /\ command' = [command EXCEPT ![wk.key] = IF @ = "running" THEN "abandoned" ELSE @]
    /\ UNCHANGED <<db, memory, session, remote, api, trouble>>

(* The artifacts are in the local directory, those of the listings at      *)
(* least that did not fail.                                                *)
Collected(got) ==
    wk' = [wk EXCEPT !.exc = "none", !.phase = "CLEANING", !.got = got,
                     !.pc = IF KeepRemote THEN "release" ELSE "phase_load"]

(* _download_tree takes a listing that fails for an empty directory,       *)
(* whether the connection was cut or the board refuses.                    *)
Collect ==
    /\ At("collect")
    /\ \/ Open(wk.key) /\ Collected("all") /\ UNCHANGED trouble
       \/ Collected("partial") /\ Fails("output")
    /\ UNCHANGED <<db, memory, board, api>>

CollectFails ==
    /\ At("collect") /\ Finally("error")
    /\ UNCHANGED <<db, memory, board, api, trouble>>

CleanOpen ==
    /\ At("clean_open") /\ Open(wk.key)
    /\ wk' = [wk EXCEPT !.pc = "clean_tree", !.unclean = FALSE]
    /\ UNCHANGED <<db, memory, board, api, trouble>>

CleanOpenFails ==
    /\ At("clean_open") /\ Fails("cleanup")
    /\ wk' = [wk EXCEPT !.pc = "release", !.unclean = TRUE]
    /\ UNCHANGED <<db, memory, board, api>>

CleanTree ==
    /\ At("clean_tree") /\ Open(wk.key)
    /\ remote' = [remote EXCEPT ![wk.key] = IF @ = "present" THEN "gone" ELSE @]
    /\ Goto("release")
    /\ UNCHANGED <<db, memory, session, command, api, trouble>>

(* A listing below the workspace or a removal fails, also because the      *)
(* program that was given up still writes there.                           *)
CleanTreeFails ==
    /\ At("clean_tree")
    /\ Fails("cleanup") \/ (command[wk.key] = "abandoned" /\ UNCHANGED trouble)
    /\ wk' = [wk EXCEPT !.pc = "release", !.unclean = TRUE]
    /\ UNCHANGED <<db, memory, board, api>>

(* _remove_tree takes a workspace it cannot list for one that is not there.*)
CleanTreeUnseen ==
    /\ At("clean_tree") /\ Fails("root")
    /\ Goto("release")
    /\ UNCHANGED <<db, memory, board, api>>

(* Slip: the cleanup error is only logged.                                 *)
ReleaseLogged ==
    /\ At("release")
    /\ session' = [session EXCEPT ![wk.key] = IF @ = "open" THEN "closed" ELSE @]
    /\ cancelled' = cancelled \ {wk.key}
    /\ Goto("outcome")
    /\ UNCHANGED <<db, queue, pending, stopping, remote, command, api, trouble>>

(* A completed command whose workspace could not be removed has failed.    *)
Release ==
    /\ At("release")
    /\ session' = [session EXCEPT ![wk.key] = IF @ = "open" THEN "closed" ELSE @]
    /\ cancelled' = cancelled \ {wk.key}
    /\ wk' = [wk EXCEPT !.pc = "outcome", !.unclean = FALSE,
                        !.exc = IF @ = "none" /\ wk.unclean THEN "error" ELSE @]
    /\ UNCHANGED <<db, queue, pending, stopping, remote, command, api, trouble>>

OutcomeOf(exc, requested) ==
    CASE exc = "cancelled" \/ requested -> "CANCELLED"
      [] exc = "none"                   -> "SUCCEEDED"
      [] OTHER                          -> "FAILED"

Outcome ==
    /\ At("outcome")
    /\ wk' = [wk EXCEPT !.pc = "finish_load", !.exc = "none",
                        !.outcome = OutcomeOf(wk.exc, wk.key \in cancels)]
    /\ UNCHANGED <<db, memory, board, api, trouble>>

FinishLoad ==
    /\ At("finish_load")
    /\ wk' = [wk EXCEPT !.pc = "finish", !.seen = status[wk.key]]
    /\ UNCHANGED <<db, memory, board, api, trouble>>

Finish ==
    /\ At("finish")
    /\ Commit(wk.key, wk.seen, wk.outcome)
    /\ payload' = [payload EXCEPT ![wk.key] =
                     IF wk.outcome = "SUCCEEDED" THEN wk.got ELSE "none"]
    /\ Return("done")
    /\ UNCHANGED <<cancels, memory, board, api, trouble>>

Done ==
    /\ At("done")
    /\ pending' = pending \ {wk.key}
    /\ wk' = [WorkerIdle EXCEPT !.pc = IF stopping THEN "stopped" ELSE "idle"]
    /\ UNCHANGED <<db, queue, cancelled, stopping, board, api, trouble>>

(* The None that stop() puts behind the last task.                         *)
TakeStop ==
    /\ At("idle") /\ stopping /\ queue = <<>>
    /\ Goto("stopped")
    /\ UNCHANGED <<db, memory, board, api, trouble>>

Execute ==
    \/ Get \/ ClaimLoad \/ Claim \/ Guard \/ PhaseLoad \/ Phase \/ PhaseFails
    \/ Upload \/ UploadFails \/ RunCommand \/ RunFails \/ CommandPassed \/ CommandFailed
    \/ Abandon \/ Collect \/ CollectFails
    \/ CleanOpen \/ CleanOpenFails \/ CleanTree \/ CleanTreeFails
    \/ CleanTreeUnseen
    \/ Release \/ Outcome \/ FinishLoad \/ Finish \/ Done \/ TakeStop

----------------------------------------------------------------------------
(* The event loop: submission, cancellation, shutdown                      *)

ApiAt(pc) == api.pc = pc

(* create_board_run and enqueue, with no await in between.                 *)
Create(k) ==
    /\ status[k] = Absent
    /\ status' = [status EXCEPT ![k] = "QUEUED"]
    /\ Enqueue(k)
    /\ UNCHANGED <<cancels, payload, cancelled, stopping, board, wk, trouble>>

CancelLoad(k) ==
    /\ ApiAt("idle") /\ ~stopping /\ CanCancel(status[k])
    /\ api' = [ApiIdle EXCEPT !.pc = "cancel", !.key = k, !.seen = status[k]]
    /\ UNCHANGED <<db, memory, board, wk, trouble>>

CancelCommit ==
    /\ ApiAt("cancel")
    /\ Commit(api.key, api.seen, CancelTarget(api.seen))
    /\ cancels' = cancels \cup {api.key}
    /\ api' = IF CancelTarget(api.seen) = "CANCELLING"
              THEN [api EXCEPT !.pc = "signal", !.seen = Absent] ELSE ApiIdle
    /\ UNCHANGED <<payload, memory, board, wk, trouble>>

(* BoardGateway.cancel, in two steps: under the lock and after it.         *)
Signal ==
    /\ ApiAt("signal")
    /\ cancelled' = cancelled \cup {api.key}
    /\ api' = IF Registered(api.key) THEN [api EXCEPT !.pc = "close"] ELSE ApiIdle
    /\ UNCHANGED <<db, queue, pending, stopping, board, wk, trouble>>

Close ==
    /\ ApiAt("close")
    /\ session' = [session EXCEPT ![api.key] = IF @ = "open" THEN "severed" ELSE @]
    /\ api' = ApiIdle
    /\ UNCHANGED <<db, memory, remote, command, wk, trouble>>

(* BoardOrchestrator.stop cancels the current task at the gateway, without *)
(* a request in the database.                                              *)
Stop ==
    /\ ApiAt("idle") /\ ~stopping /\ crashes < MaxCrashes
    /\ stopping' = TRUE
    /\ api' = IF wk.pc \in ExecutePcs
              THEN [ApiIdle EXCEPT !.pc = "signal", !.key = wk.key] ELSE ApiIdle
    /\ UNCHANGED <<db, queue, pending, cancelled, board, wk, trouble>>

Handle == CancelCommit \/ Signal \/ Close

----------------------------------------------------------------------------
(* The board, the network and the end of the process                       *)

CommandEnds(k) ==
    /\ command[k] = "running"
    /\ \E end \in {"passed", "failed"} : command' = [command EXCEPT ![k] = end]
    /\ UNCHANGED <<db, memory, session, remote, wk, api, trouble>>

ConnectionLost(k) ==
    /\ Open(k) /\ faults < MaxFaults
    /\ faults' = faults + 1
    /\ session' = [session EXCEPT ![k] = "severed"]
    /\ UNCHANGED <<db, memory, remote, command, wk, api, refused, crashes>>

(* Killed, or stopped and ended, and started again: interrupt_active, then *)
(* the queued tasks are put back, before any request is served.            *)
Restart ==
    /\ crashes < MaxCrashes
    /\ crashes' = crashes + 1
    /\ status' = [k \in Tasks |-> Interrupted(status[k])]
    /\ session' = [k \in Tasks |-> IF Open(k) THEN "severed" ELSE session[k]]
    /\ pending' = {k \in Tasks : status[k] = "QUEUED"}
    /\ queue' \in SetToSeqs({k \in Tasks : status[k] = "QUEUED"})
    /\ cancelled' = {} /\ stopping' = FALSE
    /\ wk' = WorkerIdle /\ api' = ApiIdle
    /\ UNCHANGED <<cancels, payload, remote, command, refused, faults>>

Surroundings == \E k \in Tasks : CommandEnds(k) \/ ConnectionLost(k)

(* A device, its credential and the network decide whether the connection  *)
(* succeeds: any submission and any failure, here.                         *)
Submit(k) == ApiAt("idle") /\ ~stopping /\ Create(k) /\ UNCHANGED api

Work == Execute \/ Connect \/ ConnectFails

Next ==
    \/ Work \/ Handle
    \/ \E k \in Tasks : Submit(k) \/ CancelLoad(k)
    \/ Surroundings \/ Stop \/ Restart

Spec == Init /\ [][Next]_taskVars

----------------------------------------------------------------------------
(* Properties                                                              *)

Ends == {"none", "running", "passed", "failed", "abandoned"}
Payloads == {"none", "partial", "all"}

WorkerType ==
    [pc : {"idle", "stopped"} \cup ExecutePcs, key : Tasks \cup {NoTask}, seen : Statuses,
     phase : {"UPLOADING", "RUNNING", "COLLECTING", "CLEANING"},
     exc : {"none", "cancelled", "error"}, got : Payloads, unclean : BOOLEAN,
     outcome : TerminalStatuses]

ApiType ==
    [pc : {"idle", "cancel", "signal", "close"},
     key : Tasks \cup {NoTask}, seen : Statuses]

(* Every column and local variable has one of its values, and a thread     *)
(* names a task wherever the code uses one.                                *)
TypeOK ==
    /\ status \in [Tasks -> Statuses] /\ cancels \subseteq Tasks
    /\ payload \in [Tasks -> Payloads]
    /\ queue \in Seq(Tasks) /\ pending \subseteq Tasks /\ cancelled \subseteq Tasks
    /\ session \in [Tasks -> {"none", "open", "severed", "closed"}]
    /\ remote \in [Tasks -> {"none", "present", "gone"}]
    /\ command \in [Tasks -> Ends]
    /\ stopping \in BOOLEAN
    /\ wk \in WorkerType /\ (wk.pc \in ExecutePcs => wk.key \in Tasks)
    /\ api \in ApiType /\ (api.pc \in {"cancel", "signal", "close"} => api.key \in Tasks)
    /\ refused \in [Tasks -> SUBSET Refusals]
    /\ faults \in 0..MaxFaults /\ crashes \in 0..MaxCrashes

Executing(k) == wk.key = k /\ wk.pc \in ExecutePcs

(* A task is shown as succeeded only when its program exited with 0, every *)
(* artifact was downloaded and its workspace was removed, but for what the *)
(* two swallowed errors hide: a refused listing of the download may leave  *)
(* artifacts out; a refused listing of the workspace, or a connection that *)
(* ends between the two steps of the removal, leaves it behind. Artifacts  *)
(* lost with the connection, and a cleanup that raised, never end so.      *)
BoardSuccessGate ==
    ~KeepRemote => \A k \in Tasks : status[k] = "SUCCEEDED" =>
        /\ command[k] = "passed"
        /\ payload[k] = "all" \/ Refused(k, "output")
        /\ remote[k] = "gone" \/ Severed(k) \/ Refused(k, "root")
        /\ ~Refused(k, "cleanup")

(* A workspace stays on the board after its task only when the connection  *)
(* was cut (by a cancellation, a shutdown, a restart or the network), when *)
(* the program that was given up still held it, or when the cleanup was    *)
(* refused something: every end of the gateway's work goes by the cleanup. *)
WorkspaceIsRemoved ==
    ~KeepRemote => \A k \in Tasks :
        remote[k] = "present" /\ ~Executing(k) =>
            \/ Severed(k) \/ command[k] = "abandoned"
            \/ Refused(k, "root") \/ Refused(k, "cleanup")

(* A queued task is in memory, or its worker just took it.                 *)
QueuedIsRemembered == \A k \in Tasks : status[k] = "QUEUED" => k \in pending

(* An active task nobody cancelled is the one the worker executes: no such *)
(* status outlives a restart or the end of the execution.                  *)
ActiveIsExecuting ==
    \A k \in Tasks : status[k] \in ActiveStatuses /\ k \notin cancels => Executing(k)

(* A task that ended is changed only when its cancellation is, or was,     *)
(* requested.                                                              *)
ReopenedOnlyByCancel ==
    [][\A k \in Tasks : status[k] \in TerminalStatuses /\ status'[k] # status[k]
                            => k \in cancels']_taskVars

=============================================================================
