--------------------------- MODULE BoardTasksProofs ---------------------------
(***************************************************************************)
(* What BoardTasks promises of a task, of its row and of what it leaves on *)
(* the board, for every set of tasks, every bound on faults and restarts   *)
(* and both values of board_keep_remote.                                   *)
(***************************************************************************)
EXTENDS BoardTasks, FiniteSetTheorems, SequenceTheorems, TLAPS

USE TasksAssumption

----------------------------------------------------------------------------
(* The inductive invariant                                                 *)

InQueue(k) == \E i \in 1..Len(queue) : queue[i] = k

(* A task that waits in memory is there once, until its execution is done. *)
QueueInv ==
    /\ IsFiniteSet(pending)
    /\ \A i \in 1..Len(queue) : queue[i] \in pending
    /\ \A i, j \in 1..Len(queue) : queue[i] = queue[j] => i = j
    /\ wk.pc \in ExecutePcs => wk.key \in pending /\ ~InQueue(wk.key)

Claiming == {"claim_load", "claim"}
AtWork   == ExecutePcs \ (Claiming \cup {"done"})

(* Who names a task names one with a row, and a claimed one is never       *)
(* QUEUED again.                                                           *)
KnownInv ==
    /\ QueuedIsRemembered
    /\ \A k \in Tasks : InQueue(k) => status[k] # Absent
    /\ wk.pc \in ExecutePcs => status[wk.key] # Absent
    /\ wk.pc \in ExecutePcs \ Claiming => status[wk.key] # "QUEUED"
    /\ wk.pc \in AtWork => status[wk.key] # "SUCCEEDED"
    /\ At("claim") => wk.seen = "QUEUED"

(* As long as nobody cancels a task, its row says where it is, and the     *)
(* snapshot that the worker commits over is not stale.                     *)
StatusInv ==
    /\ \A k \in Tasks \ cancels :
         /\ InQueue(k) => status[k] = "QUEUED"
         /\ status[k] \in ActiveStatuses => Executing(k)
    /\ wk.pc \in ExecutePcs /\ wk.key \notin cancels =>
         /\ wk.pc \in Claiming => status[wk.key] = "QUEUED"
         /\ wk.pc \in AtWork => status[wk.key] \in ActiveStatuses
         /\ At("done") => status[wk.key] \in TerminalStatuses
         /\ wk.pc \in {"phase", "finish"} => wk.seen = status[wk.key]

Unused(k) == /\ session[k] = "none" /\ remote[k] = "none"
             /\ command[k] = "none" /\ payload[k] = "none" /\ refused[k] = {}

(* A task that was never connected has nothing on the board.               *)
UnusedInv ==
    /\ \A k \in Tasks : status[k] \in {Absent, "QUEUED"} \/ InQueue(k) => Unused(k)
    /\ wk.pc \in Claiming \cup {"connect"} => Unused(wk.key)

(* Phases of the execution, from the entry into a phase to its end.        *)
During(phase, pcs) == (wk.pc \in {"phase_load", "phase"} /\ wk.phase = phase) \/ wk.pc \in pcs

Cleaning  == During("CLEANING", {"clean_open", "clean_tree"})
AfterWork == {"outcome", "finish_load", "finish", "done"}
Removed(k) == remote[k] = "present" => \/ Severed(k) \/ command[k] = "abandoned"
                                       \/ Refused(k, "root") \/ Refused(k, "cleanup")

(* What the worker knows of its task on the board.                         *)
WorkInv ==
    /\ wk.pc \in GatewayPcs => session[wk.key] \in {"open", "severed"}
    /\ During("RUNNING", {"run", "wait"}) \/ During("COLLECTING", {"collect"}) =>
         remote[wk.key] = "present"
    /\ During("COLLECTING", {"collect"}) => command[wk.key] = "passed"
    /\ Cleaning /\ wk.exc = "none" =>
         /\ remote[wk.key] = "present" /\ command[wk.key] = "passed"
         /\ \/ wk.got = "all" \/ Refused(wk.key, "output")
            \/ Severed(wk.key) /\ ~At("clean_tree")
    /\ wk.pc \in GatewayPcs \ {"release"} => ~Refused(wk.key, "cleanup")
    /\ wk.pc \in {"release"} \cup AfterWork => Removed(wk.key)

(* An outcome of SUCCEEDED is earned from the end of the cleanup on.       *)
Earned == /\ command[wk.key] = "passed"
          /\ wk.got = "all" \/ Refused(wk.key, "output")
          /\ remote[wk.key] = "gone" \/ Severed(wk.key) \/ Refused(wk.key, "root")
          /\ ~Refused(wk.key, "cleanup")

EarnedInv ==
    /\ At("release") /\ wk.exc = "none" /\ ~wk.unclean => Earned
    /\ At("outcome") /\ wk.exc = "none" => Earned
    /\ wk.pc \in {"finish_load", "finish"} /\ wk.outcome = "SUCCEEDED" => Earned

Inv == /\ TypeOK /\ QueueInv /\ KnownInv /\ StatusInv /\ UnusedInv
       /\ ~KeepRemote => WorkInv /\ EarnedInv /\ BoardSuccessGate /\ WorkspaceIsRemoved

----------------------------------------------------------------------------
(* Lemmas about the helpers                                                *)

(* A commit stores the status it was given, or leaves what is there.       *)
LEMMA CommitType ==
    ASSUME status \in [Tasks -> Statuses], NEW k \in Tasks, NEW seen, NEW new \in Statuses,
           Commit(k, seen, new)
    PROVE  /\ status' \in [Tasks -> Statuses]
           /\ \A j \in Tasks : j # k => status'[j] = status[j]
           /\ status'[k] = IF new = seen THEN status[k] ELSE new
BY DEF Commit, Flush

(* The status that a phase writes.                                         *)
LEMMA PhaseTargetType ==
    ASSUME NEW seen \in Statuses,
           NEW phase \in {"UPLOADING", "RUNNING", "COLLECTING", "CLEANING"}
    PROVE  /\ PhaseTarget(seen, phase) \in Statuses
           /\ PhaseTarget(seen, phase) \in Phases \/ PhaseTarget(seen, phase) = seen
           /\ seen \in TerminalStatuses \cup {"CANCELLING"} => PhaseTarget(seen, phase) = seen
           /\ seen \notin TerminalStatuses \cup {"CANCELLING"} => PhaseTarget(seen, phase) = phase
           /\ phase \in Phases
BY DEF PhaseTarget, Statuses, ActiveStatuses, Phases

(* A task is put at the end of the queue, unless it is pending.            *)
LEMMA EnqueueStep ==
    ASSUME queue \in Seq(Tasks), NEW k \in Tasks, Enqueue(k)
    PROVE  /\ queue' \in Seq(Tasks) /\ pending' = pending \cup {k}
           /\ k \in pending => queue' = queue
           /\ k \notin pending =>
                /\ Len(queue') = Len(queue) + 1 /\ queue'[Len(queue) + 1] = k
                /\ \A i \in 1..Len(queue) : queue'[i] = queue[i]
<1>1. CASE k \in pending
  BY <1>1 DEF Enqueue
<1>2. CASE k \notin pending
  <2>1. queue' = Append(queue, k) /\ pending' = pending \cup {k}
    BY <1>2 DEF Enqueue
  <2> QED
    BY <1>2, <2>1, AppendProperties
<1> QED
  BY <1>1, <1>2

(* The first task of the queue is taken out.                               *)
LEMMA GetStep ==
    ASSUME queue \in Seq(Tasks), Get
    PROVE  /\ At("idle") /\ queue' \in Seq(Tasks) /\ Len(queue') = Len(queue) - 1
           /\ Len(queue) \in Nat \ {0} /\ wk'.key = queue[1] /\ wk'.key \in Tasks
           /\ wk' = [wk EXCEPT !.pc = "claim_load", !.key = queue[1]]
           /\ \A i \in 1..Len(queue') : queue'[i] = queue[i + 1]
           /\ UNCHANGED <<db, pending, cancelled, stopping, board, api, trouble>>
<1>1. queue # <<>> /\ queue' = Tail(queue) /\ Len(queue) \in Nat \ {0}
  BY EmptySeq DEF Get
<1>2. Head(queue) \in Tasks /\ Head(queue) = queue[1]
  BY <1>1, HeadTailProperties
<1> QED
  BY <1>1, <1>2, HeadTailProperties DEF Get, WorkerIdle

(* What a restart puts in the queue, when finitely many tasks are queued.  *)
LEMMA RequeueStep ==
    ASSUME NEW S \in SUBSET Tasks, IsFiniteSet(S), NEW q \in SetToSeqs(S)
    PROVE  /\ q \in Seq(Tasks)
           /\ \A i \in 1..Len(q) : q[i] \in S
           /\ \A i, j \in 1..Len(q) : q[i] = q[j] => i = j
<1>1. Cardinality(S) \in Nat
  BY FS_CardinalityType
<1>2. /\ q \in [1..Cardinality(S) -> S]
      /\ \A i, j \in 1..Cardinality(S) : i # j => q[i] # q[j]
  BY DEF SetToSeqs
<1>3. q \in Seq(S) /\ Len(q) = Cardinality(S)
  BY <1>1, <1>2, LenProperties
<1>4. q \in Seq(Tasks)
  BY <1>1, <1>2
<1> QED
  BY <1>2, <1>3, <1>4
----------------------------------------------------------------------------
(* Types                                                                   *)

(* A worker and a handler that do nothing.                                 *)
LEMMA IdleTypes ==
    /\ WorkerIdle \in WorkerType /\ WorkerIdle.pc = "idle" /\ WorkerIdle.key = NoTask
    /\ ApiIdle \in ApiType /\ ApiIdle.pc = "idle" /\ "idle" \notin ExecutePcs
    /\ "stopped" \notin ExecutePcs
BY DEF WorkerIdle, WorkerType, Payloads, Statuses, TerminalStatuses, ApiIdle, ApiType,
       ExecutePcs, GatewayPcs

LEMMA TypeInit == Init => TypeOK
<1> SUFFICES ASSUME Init PROVE TypeOK
  OBVIOUS
<1>1. queue \in Seq(Tasks)
  BY EmptySeq DEF Init
<1>2. /\ wk \in WorkerType /\ (wk.pc \in ExecutePcs => wk.key \in Tasks)
      /\ api \in ApiType /\ (api.pc \in {"cancel", "signal", "close"} => api.key \in Tasks)
  BY IdleTypes DEF Init
<1>3. faults \in 0..MaxFaults /\ crashes \in 0..MaxCrashes
  BY DEF Init
<1>4. /\ status \in [Tasks -> Statuses] /\ payload \in [Tasks -> Payloads]
      /\ session \in [Tasks -> {"none", "open", "severed", "closed"}]
      /\ remote \in [Tasks -> {"none", "present", "gone"}]
      /\ command \in [Tasks -> Ends] /\ refused \in [Tasks -> SUBSET Refusals]
  BY DEF Init, Statuses, Payloads, Ends
<1> QED
  BY <1>1, <1>2, <1>3, <1>4 DEF Init, TypeOK

(* The gateway's try block is left.                                        *)
LEMMA FinallyStep ==
    ASSUME wk \in WorkerType, NEW exc \in {"none", "cancelled", "error"}, Finally(exc)
    PROVE  /\ wk' \in WorkerType /\ wk'.key = wk.key /\ wk'.got = wk.got
           /\ wk'.exc = exc /\ wk'.phase = "CLEANING" /\ wk'.unclean = wk.unclean
           /\ wk'.pc \in {"release", "phase_load"} /\ (~KeepRemote => wk'.pc = "phase_load")
<1>1. PICK pc \in {"release", "phase_load"} :
        /\ wk' = [wk EXCEPT !.exc = exc, !.phase = "CLEANING", !.pc = pc]
        /\ ~KeepRemote => pc = "phase_load"
  BY DEF Finally
<1> QED
  BY <1>1 DEF WorkerType, ExecutePcs, GatewayPcs

(* A phase is begun.                                                       *)
LEMMA SetPhaseStep ==
    ASSUME wk \in WorkerType, NEW phase \in {"UPLOADING", "RUNNING", "COLLECTING", "CLEANING"},
           SetPhase(phase)
    PROVE  /\ wk' \in WorkerType /\ wk'.key = wk.key /\ wk'.got = wk.got
           /\ wk'.exc = wk.exc /\ wk'.phase = phase /\ wk'.pc = "phase_load"
           /\ wk'.unclean = wk.unclean
BY DEF SetPhase, WorkerType, ExecutePcs, GatewayPcs

(* The try block ends with the artifacts that were there.                  *)
LEMMA CollectStep ==
    ASSUME wk \in WorkerType, NEW got \in Payloads, Collected(got)
    PROVE  /\ wk' \in WorkerType /\ wk'.key = wk.key /\ wk'.got = got
           /\ wk'.exc = "none" /\ wk'.phase = "CLEANING"
           /\ wk'.pc \in {"release", "phase_load"} /\ (~KeepRemote => wk'.pc = "phase_load")
<1>1. PICK pc \in {"release", "phase_load"} :
        /\ wk' = [wk EXCEPT !.exc = "none", !.phase = "CLEANING", !.got = got, !.pc = pc]
        /\ ~KeepRemote => pc = "phase_load"
  BY DEF Collected
<1> QED
  BY <1>1 DEF WorkerType, ExecutePcs, GatewayPcs

(* A request of the worker's task is refused, and of no other one.         *)
LEMMA RefuseStep ==
    ASSUME TypeOK, wk.key \in Tasks, NEW kind \in Refusals, Refuse(kind)
    PROVE  /\ refused' \in [Tasks -> SUBSET Refusals]
           /\ faults' \in 0..MaxFaults /\ crashes' = crashes
           /\ \A k \in Tasks \ {wk.key} : refused'[k] = refused[k]
           /\ refused'[wk.key] = refused[wk.key] \cup {kind}
<1>1. faults' \in 0..MaxFaults /\ crashes' = crashes
  BY DEF Refuse, TypeOK
<1>2. refused' = [refused EXCEPT ![wk.key] = refused[wk.key] \cup {kind}]
  BY DEF Refuse
<1> QED
  BY <1>1, <1>2 DEF TypeOK

(* A request that fails is refused, or there is no connection.             *)
LEMMA FailsStep ==
    ASSUME TypeOK, wk.key \in Tasks, NEW kind \in Refusals, Fails(kind)
    PROVE  /\ refused' \in [Tasks -> SUBSET Refusals]
           /\ faults' \in 0..MaxFaults /\ crashes' = crashes
           /\ \A k \in Tasks \ {wk.key} : refused'[k] = refused[k]
           /\ refused'[wk.key] \in {refused[wk.key], refused[wk.key] \cup {kind}}
           /\ Severed(wk.key) \/ kind \in refused'[wk.key]
<1>1. CASE Severed(wk.key) /\ UNCHANGED trouble
  BY <1>1 DEF trouble, TypeOK
<1>2. CASE Refuse(kind)
  BY <1>2, RefuseStep
<1> QED
  BY <1>1, <1>2 DEF Fails

(* Every step of the worker keeps the types.                               *)
LEMMA TypeWork == TypeOK /\ Work => TypeOK'
<1> SUFFICES ASSUME TypeOK, Work PROVE TypeOK'
  OBVIOUS
<1> USE DEF TypeOK, WorkerType, ExecutePcs, GatewayPcs, At, Goto, Return, SetPhase, Finally,
            db, memory, board, trouble, Payloads, Ends
<1>1. CASE Get
  <2>1. PICK k \in Tasks : wk' = [wk EXCEPT !.pc = "claim_load", !.key = k]
    BY <1>1, GetStep
  <2>2. /\ queue' \in Seq(Tasks) /\ wk.pc = "idle"
        /\ UNCHANGED <<db, pending, cancelled, stopping, board, api, trouble>>
    BY <1>1, GetStep
  <2>3. wk' \in WorkerType /\ wk'.key \in Tasks
    BY <2>1, <2>2
  <2> QED
    BY <2>2, <2>3
<1>2. CASE ClaimLoad
  BY <1>2 DEF ClaimLoad, Statuses
<1>3. CASE Claim
  <2>1. wk.key \in Tasks /\ "CONNECTING" \in Statuses
    BY <1>3 DEF Claim, Statuses, ActiveStatuses, Phases
  <2> QED
    BY <1>3, <2>1, CommitType DEF Claim, Statuses
<1>4. CASE Guard
  <2>1. wk' \in WorkerType /\ wk'.key = wk.key
    BY <1>4, FinallyStep, SetPhaseStep DEF Guard
  <2> QED
    BY <1>4, <2>1 DEF Guard
<1>5. CASE PhaseLoad
  BY <1>5 DEF PhaseLoad
<1>6. CASE Phase
  <2>1. wk.key \in Tasks /\ PhaseTarget(wk.seen, wk.phase) \in Statuses
    BY <1>6, PhaseTargetType DEF Phase
  <2>2. AfterPhase[wk.phase] \in {"upload", "run", "collect", "clean_open"}
    BY DEF AfterPhase
  <2> QED
    BY <1>6, <2>1, <2>2, CommitType DEF Phase, Statuses
<1>7. CASE Upload
  BY <1>7 DEF Upload
<1>8. CASE UploadFails
  <2>1. wk' \in WorkerType /\ wk'.key = wk.key /\ wk.key \in Tasks
    BY <1>8, FinallyStep DEF UploadFails
  <2>2. remote' \in [Tasks -> {"none", "present", "gone"}]
    BY <1>8, <2>1 DEF UploadFails
  <2> QED
    BY <1>8, <2>1, <2>2 DEF UploadFails
<1>9. CASE RunCommand
  <2>1. wk' \in WorkerType /\ wk'.key = wk.key /\ wk.key \in Tasks
    BY <1>9 DEF RunCommand
  <2>2. command' \in [Tasks -> Ends]
    BY <1>9, <2>1 DEF RunCommand
  <2> QED
    BY <1>9, <2>1, <2>2 DEF RunCommand
<1>10. CASE CommandPassed
  BY <1>10 DEF CommandPassed
<1>11. CASE CommandFailed
  BY <1>11 DEF CommandFailed
<1>12. CASE Abandon
  <2>1. wk' \in WorkerType /\ wk'.key = wk.key /\ wk.key \in Tasks
    BY <1>12, FinallyStep DEF Abandon
  <2>2. command' \in [Tasks -> Ends]
    BY <1>12, <2>1 DEF Abandon
  <2> QED
    BY <1>12, <2>1, <2>2 DEF Abandon
<1>13. CASE Collect
  <2>1. wk.key \in Tasks /\ UNCHANGED <<db, memory, board, api>>
    BY <1>13 DEF Collect
  <2>2. wk' \in WorkerType /\ wk'.key = wk.key
    BY <1>13, CollectStep DEF Collect
  <2>3. /\ refused' \in [Tasks -> SUBSET Refusals]
        /\ faults' \in 0..MaxFaults /\ crashes' = crashes
    <3>1. CASE UNCHANGED trouble
      BY <3>1
    <3>2. CASE Fails("output")
      BY <2>1, <3>2, FailsStep DEF Refusals
    <3> QED
      BY <1>13, <3>1, <3>2 DEF Collect
  <2> QED
    BY <2>1, <2>2, <2>3
<1>14. CASE CollectFails
  BY <1>14 DEF CollectFails
<1>15. CASE CleanOpen
  <2>1. wk' \in WorkerType /\ wk'.key = wk.key
    BY <1>15 DEF CleanOpen
  <2> QED
    BY <1>15, <2>1 DEF CleanOpen
<1>16. CASE CleanTree
  BY <1>16 DEF CleanTree
<1>17. CASE CleanOpenFails \/ CleanTreeFails \/ CleanTreeUnseen
  <2>1. wk.key \in Tasks /\ UNCHANGED <<db, memory, board, api>>
    BY <1>17 DEF CleanOpenFails, CleanTreeFails, CleanTreeUnseen
  <2>2. wk' \in WorkerType /\ wk'.key = wk.key
    <3>1. PICK b \in BOOLEAN : wk' = [wk EXCEPT !.pc = "release", !.unclean = b]
      <4>1. CASE CleanOpenFails \/ CleanTreeFails
        BY <4>1 DEF CleanOpenFails, CleanTreeFails
      <4>2. CASE CleanTreeUnseen
        <5>1. wk' = [wk EXCEPT !.pc = "release", !.unclean = wk.unclean]
          BY <4>2 DEF CleanTreeUnseen
        <5> QED
          BY <5>1
      <4> QED
        BY <1>17, <4>1, <4>2
    <3> QED
      BY <3>1
  <2>3. /\ refused' \in [Tasks -> SUBSET Refusals]
        /\ faults' \in 0..MaxFaults /\ crashes' = crashes
    <3>1. CASE UNCHANGED trouble
      BY <3>1
    <3>2. CASE Fails("cleanup") \/ Fails("root")
      BY <2>1, <3>2, FailsStep DEF Refusals
    <3> QED
      BY <1>17, <3>1, <3>2 DEF CleanOpenFails, CleanTreeFails, CleanTreeUnseen
  <2> QED
    BY <2>1, <2>2, <2>3
<1>18. CASE Release
  BY <1>18 DEF Release
<1>19. CASE Outcome
  <2>1. OutcomeOf(wk.exc, wk.key \in cancels) \in TerminalStatuses
    BY DEF OutcomeOf, TerminalStatuses
  <2> QED
    BY <1>19, <2>1 DEF Outcome
<1>20. CASE FinishLoad
  BY <1>20 DEF FinishLoad
<1>21. CASE Finish
  <2>1. wk.key \in Tasks /\ wk.outcome \in Statuses
    BY <1>21 DEF Finish, Statuses, ActiveStatuses, Phases
  <2> QED
    BY <1>21, <2>1, CommitType DEF Finish, Statuses
<1>22. CASE Done
  <2>1. PICK pc \in {"stopped", "idle"} : wk' = [WorkerIdle EXCEPT !.pc = pc]
    BY <1>22 DEF Done
  <2>2. wk' \in WorkerType /\ wk'.pc \notin ExecutePcs
    BY <2>1, IdleTypes
  <2> QED
    BY <1>22, <2>2 DEF Done
<1>23. CASE TakeStop
  BY <1>23 DEF TakeStop
<1>24. CASE Connect
  BY <1>24 DEF Connect, Statuses
<1>25. CASE ConnectFails
  BY <1>25 DEF ConnectFails
<1>26. CASE PhaseFails
  <2>1. wk.key \in Tasks /\ UNCHANGED <<db, memory, board, api>>
    BY <1>26 DEF PhaseFails
  <2>2. CASE wk.phase = "CLEANING"
    <3>1. wk' = [wk EXCEPT !.pc = "release", !.unclean = TRUE] /\ Refuse("cleanup")
      BY <1>26, <2>2 DEF PhaseFails
    <3>2. wk' \in WorkerType /\ wk'.key = wk.key
      BY <3>1
    <3>3. /\ refused' \in [Tasks -> SUBSET Refusals]
          /\ faults' \in 0..MaxFaults /\ crashes' = crashes
      BY <2>1, <3>1, RefuseStep DEF Refusals
    <3> QED
      BY <2>1, <3>2, <3>3
  <2>3. CASE wk.phase # "CLEANING"
    <3>1. wk' \in WorkerType /\ wk'.key = wk.key /\ UNCHANGED trouble
      BY <1>26, <2>3, FinallyStep DEF PhaseFails
    <3> QED
      BY <2>1, <3>1
  <2> QED
    BY <2>2, <2>3
<1>27. CASE RunFails
  <2>1. wk' \in WorkerType /\ wk'.key = wk.key
    BY <1>27, FinallyStep DEF RunFails
  <2> QED
    BY <1>27, <2>1 DEF RunFails
<1> QED
  BY <1>1, <1>2, <1>3, <1>4, <1>5, <1>6, <1>7, <1>8, <1>9, <1>10, <1>11, <1>12, <1>13, <1>14, <1>15, <1>16, <1>17, <1>18, <1>19, <1>20, <1>21, <1>22, <1>23, <1>24, <1>25, <1>26, <1>27 DEF Work, Execute

(* So does every step of the event loop, the board and the process.        *)
LEMMA TypeElsewhere ==
    ASSUME TypeOK,
           Handle \/ Surroundings \/ Stop \/ (\E k \in Tasks : Submit(k) \/ CancelLoad(k))
    PROVE  TypeOK'
<1> USE DEF TypeOK, ApiType, At, ApiAt, db, memory, board, trouble, Payloads, Ends
<1>1. CASE CancelCommit
  <2>1. CancelTarget(api.seen) \in Statuses /\ api.key \in Tasks /\ Absent \in Statuses
    BY <1>1 DEF CancelCommit, CancelTarget, Statuses, ActiveStatuses, TerminalStatuses
  <2>2. status' \in [Tasks -> Statuses]
    BY <1>1, <2>1, CommitType DEF CancelCommit
  <2>3. api' \in ApiType /\ (api'.pc \in {"cancel", "signal", "close"} => api'.key \in Tasks)
    BY <1>1, <2>1, IdleTypes DEF CancelCommit
  <2>4. cancels' \subseteq Tasks
    BY <1>1, <2>1 DEF CancelCommit
  <2> QED
    BY <1>1, <2>2, <2>3, <2>4 DEF CancelCommit
<1>2. CASE Signal
  BY <1>2, IdleTypes DEF Signal
<1>3. CASE Close
  BY <1>3, IdleTypes DEF Close
<1>4. ASSUME NEW k \in Tasks, CommandEnds(k) PROVE TypeOK'
  BY <1>4 DEF CommandEnds
<1>5. ASSUME NEW k \in Tasks, ConnectionLost(k) PROVE TypeOK'
  BY <1>5 DEF ConnectionLost
<1>6. CASE Stop
  <2>1. wk.pc \in ExecutePcs => wk.key \in Tasks
    OBVIOUS
  <2> QED
    BY <1>6, <2>1, IdleTypes DEF Stop, ApiIdle, Statuses
<1>7. ASSUME NEW k \in Tasks, Submit(k) PROVE TypeOK'
  <2>1. queue' \in Seq(Tasks) /\ pending' = pending \cup {k}
    BY <1>7, EnqueueStep DEF Submit, Create
  <2> QED
    BY <1>7, <2>1 DEF Submit, Create, Statuses
<1>8. ASSUME NEW k \in Tasks, CancelLoad(k) PROVE TypeOK'
  <2>1. api' \in ApiType /\ api'.key = k
    BY <1>8 DEF CancelLoad, ApiIdle
  <2> QED
    BY <1>8, <2>1 DEF CancelLoad
<1> QED
  BY <1>1, <1>2, <1>3, <1>4, <1>5, <1>6, <1>7, <1>8 DEF Handle, Surroundings

(* And the restart, whose queue is what was queued.                        *)
LEMMA TypeRestart ==
    ASSUME TypeOK, Restart, IsFiniteSet({k \in Tasks : status[k] = "QUEUED"}) PROVE TypeOK'
<1> USE DEF TypeOK
<1>1. queue' \in Seq(Tasks)
  BY RequeueStep DEF Restart
<1>2. \A k \in Tasks : Interrupted(status[k]) \in Statuses
  BY DEF Interrupted, Statuses, TerminalStatuses
<1>3. /\ status' \in [Tasks -> Statuses]
      /\ session' \in [Tasks -> {"none", "open", "severed", "closed"}]
  BY <1>2 DEF Restart
<1>4. crashes' \in 0..MaxCrashes /\ faults' = faults /\ refused' = refused
  BY DEF Restart
<1>5. pending' \subseteq Tasks /\ cancelled' \subseteq Tasks /\ stopping' \in BOOLEAN
  BY DEF Restart
<1> QED
  BY <1>1, <1>3, <1>4, <1>5, IdleTypes DEF Restart

----------------------------------------------------------------------------
(* The steps of the worker                                                 *)

(* Most of them go from one place of the execution to another one, commit  *)
(* nothing and touch no other task.                                        *)
Quiet ==
    /\ wk.pc \in AtWork /\ wk'.pc \in AtWork \ {"connect", "phase", "finish"}
    /\ wk'.key = wk.key
    /\ UNCHANGED <<db, queue, pending, stopping, api>>
    /\ \A k \in Tasks \ {wk.key} : /\ session'[k] = session[k] /\ remote'[k] = remote[k]
                                   /\ command'[k] = command[k] /\ refused'[k] = refused[k]

(* Those that commit, read what they will commit over or change the task.  *)
Special == \/ Get \/ TakeStop \/ Done \/ ClaimLoad \/ Claim \/ PhaseLoad \/ Phase
           \/ FinishLoad \/ Finish

LEMMA QuietStep == ASSUME TypeOK, Work, ~Special PROVE Quiet
<1> USE DEF TypeOK, WorkerType, ExecutePcs, GatewayPcs, AtWork, Claiming, At, Goto, Quiet, db
<1>1. CASE Guard
  <2>1. wk'.key = wk.key /\ wk'.pc \in {"release", "phase_load"}
    BY <1>1, FinallyStep, SetPhaseStep DEF Guard
  <2> QED
    BY <1>1, <2>1 DEF Guard, memory, board, trouble
<1>2. CASE Upload
  BY <1>2, SetPhaseStep DEF Upload, memory, trouble
<1>3. CASE UploadFails
  <2>1. wk'.key = wk.key /\ wk'.pc \in {"release", "phase_load"}
    BY <1>3, FinallyStep DEF UploadFails
  <2> QED
    BY <1>3, <2>1 DEF UploadFails, memory, trouble
<1>4. CASE RunCommand
  <2>1. wk'.key = wk.key /\ wk'.pc = "wait"
    BY <1>4 DEF RunCommand
  <2>2. \A k \in Tasks \ {wk.key} : command'[k] = command[k]
    BY <1>4 DEF RunCommand
  <2> QED
    BY <1>4, <2>1, <2>2 DEF RunCommand, memory, trouble
<1>5. CASE CommandPassed
  BY <1>5, SetPhaseStep DEF CommandPassed, memory, board, trouble
<1>6. CASE CommandFailed
  <2>1. wk'.key = wk.key /\ wk'.pc \in {"release", "phase_load"}
    BY <1>6, FinallyStep DEF CommandFailed
  <2> QED
    BY <1>6, <2>1 DEF CommandFailed, memory, board, trouble
<1>7. CASE Abandon
  <2>1. wk'.key = wk.key /\ wk'.pc \in {"release", "phase_load"}
    BY <1>7, FinallyStep DEF Abandon
  <2> QED
    BY <1>7, <2>1 DEF Abandon, memory, trouble
<1>8. CASE Collect
  <2>1. wk'.key = wk.key /\ wk'.pc \in {"release", "phase_load"}
    BY <1>8, CollectStep DEF Collect, Payloads
  <2>2. \A k \in Tasks \ {wk.key} : refused'[k] = refused[k]
    BY <1>8, FailsStep DEF Collect, trouble, Refusals
  <2> QED
    BY <1>8, <2>1, <2>2 DEF Collect, memory, board
<1>9. CASE CollectFails
  <2>1. wk'.key = wk.key /\ wk'.pc \in {"release", "phase_load"}
    BY <1>9, FinallyStep DEF CollectFails
  <2> QED
    BY <1>9, <2>1 DEF CollectFails, memory, board, trouble
<1>10. CASE CleanOpen
  BY <1>10 DEF CleanOpen, memory, board, trouble
<1>11. CASE CleanTree
  BY <1>11 DEF CleanTree, memory, trouble
<1>12. CASE CleanOpenFails \/ CleanTreeFails \/ CleanTreeUnseen
  <2>1. wk'.key = wk.key /\ wk'.pc = "release" /\ wk.key \in Tasks
    BY <1>12 DEF CleanOpenFails, CleanTreeFails, CleanTreeUnseen
  <2>2. \A k \in Tasks \ {wk.key} : refused'[k] = refused[k]
    BY <1>12, <2>1, FailsStep
    DEF CleanOpenFails, CleanTreeFails, CleanTreeUnseen, trouble, Refusals
  <2> QED
    BY <1>12, <2>1, <2>2 DEF CleanOpenFails, CleanTreeFails, CleanTreeUnseen, memory, board
<1>13. CASE Release
  BY <1>13 DEF Release, trouble
<1>14. CASE Outcome
  BY <1>14 DEF Outcome, memory, board, trouble
<1>15. CASE Connect
  BY <1>15 DEF Connect, memory, trouble
<1>16. CASE ConnectFails
  BY <1>16 DEF ConnectFails, memory, board, trouble
<1>17. CASE PhaseFails
  <2>1. wk'.key = wk.key /\ wk'.pc \in {"release", "phase_load"} /\ wk.key \in Tasks
    BY <1>17, FinallyStep DEF PhaseFails
  <2>2. \A k \in Tasks \ {wk.key} : refused'[k] = refused[k]
    BY <1>17, <2>1, RefuseStep DEF PhaseFails, trouble, Refusals
  <2> QED
    BY <1>17, <2>1, <2>2 DEF PhaseFails, memory, board
<1>18. CASE RunFails
  <2>1. wk'.key = wk.key /\ wk'.pc \in {"release", "phase_load"}
    BY <1>18, FinallyStep DEF RunFails
  <2> QED
    BY <1>18, <2>1 DEF RunFails, memory, board, trouble
<1> QED
  BY <1>1, <1>2, <1>3, <1>4, <1>5, <1>6, <1>7, <1>8, <1>9, <1>10, <1>11, <1>12, <1>13, <1>14,
     <1>15, <1>16, <1>17, <1>18 DEF Work, Execute, Special

(* The other steps are refused nothing.                                    *)
LEMMA RefusedStays == ASSUME Special PROVE refused' = refused
BY DEF Special, Get, TakeStop, Done, ClaimLoad, Claim, PhaseLoad, Phase, FinishLoad, Finish, trouble

(* Where the other steps lead.                                             *)
LEMMA SpecialSteps ==
    ASSUME TypeOK
    PROVE  /\ TakeStop => wk.pc = "idle" /\ wk'.pc = "stopped" /\ UNCHANGED <<db, memory, board>>
           /\ Done => /\ At("done") /\ wk'.pc \in {"idle", "stopped"}
                      /\ pending' = pending \ {wk.key}
                      /\ UNCHANGED <<db, queue, cancelled, stopping, board>>
           /\ ClaimLoad => /\ At("claim_load") /\ wk'.key = wk.key /\ wk'.seen = status[wk.key]
                           /\ wk'.pc = IF status[wk.key] = "QUEUED" THEN "claim" ELSE "done"
                           /\ UNCHANGED <<db, memory, board>>
           /\ Claim => /\ At("claim") /\ wk'.key = wk.key /\ wk'.pc = "connect"
                       /\ Commit(wk.key, wk.seen, "CONNECTING")
                       /\ UNCHANGED <<cancels, payload, memory, board>>
           /\ PhaseLoad => /\ At("phase_load") /\ wk'.key = wk.key /\ wk'.pc = "phase"
                           /\ wk'.seen = status[wk.key]
                           /\ UNCHANGED <<db, memory, board>>
           /\ Phase => /\ At("phase") /\ wk'.key = wk.key
                       /\ wk'.pc \in {"upload", "run", "collect", "clean_open"}
                       /\ Commit(wk.key, wk.seen, PhaseTarget(wk.seen, wk.phase))
                       /\ UNCHANGED <<cancels, payload, memory, board>>
           /\ FinishLoad => /\ At("finish_load") /\ wk'.key = wk.key /\ wk'.pc = "finish"
                            /\ wk'.seen = status[wk.key]
                            /\ UNCHANGED <<db, memory, board>>
           /\ Finish => /\ At("finish") /\ wk'.key = wk.key /\ wk'.pc = "done"
                        /\ Commit(wk.key, wk.seen, wk.outcome)
                        /\ UNCHANGED <<cancels, memory, board>>
<1> USE DEF TypeOK, WorkerType, At, Goto, Return
<1>1. TakeStop => wk.pc = "idle" /\ wk'.pc = "stopped" /\ UNCHANGED <<db, memory, board>>
  BY DEF TakeStop
<1>2. Done => /\ At("done") /\ wk'.pc \in {"idle", "stopped"} /\ pending' = pending \ {wk.key}
              /\ UNCHANGED <<db, queue, cancelled, stopping, board>>
  BY DEF Done, WorkerIdle
<1>3. ClaimLoad => /\ At("claim_load") /\ wk'.key = wk.key /\ wk'.seen = status[wk.key]
                   /\ wk'.pc = IF status[wk.key] = "QUEUED" THEN "claim" ELSE "done"
                   /\ UNCHANGED <<db, memory, board>>
  BY DEF ClaimLoad, CanClaim
<1>4. Claim => /\ At("claim") /\ wk'.key = wk.key /\ wk'.pc = "connect"
               /\ Commit(wk.key, wk.seen, "CONNECTING")
               /\ UNCHANGED <<cancels, payload, memory, board>>
  BY DEF Claim
<1>5. PhaseLoad => /\ At("phase_load") /\ wk'.key = wk.key /\ wk'.pc = "phase"
                   /\ wk'.seen = status[wk.key] /\ UNCHANGED <<db, memory, board>>
  BY DEF PhaseLoad
<1>6. Phase => /\ At("phase") /\ wk'.key = wk.key
               /\ wk'.pc \in {"upload", "run", "collect", "clean_open"}
               /\ Commit(wk.key, wk.seen, PhaseTarget(wk.seen, wk.phase))
               /\ UNCHANGED <<cancels, payload, memory, board>>
  <2>1. AfterPhase[wk.phase] \in {"upload", "run", "collect", "clean_open"}
    BY DEF AfterPhase
  <2> QED
    BY <2>1 DEF Phase
<1>7. FinishLoad => /\ At("finish_load") /\ wk'.key = wk.key /\ wk'.pc = "finish"
                    /\ wk'.seen = status[wk.key] /\ UNCHANGED <<db, memory, board>>
  BY DEF FinishLoad
<1>8. Finish => /\ At("finish") /\ wk'.key = wk.key /\ wk'.pc = "done"
                /\ Commit(wk.key, wk.seen, wk.outcome) /\ UNCHANGED <<cancels, memory, board>>
  BY DEF Finish
<1> QED
  BY <1>1, <1>2, <1>3, <1>4, <1>5, <1>6, <1>7, <1>8

----------------------------------------------------------------------------
(* The queue                                                               *)

LEMMA QueueInit == Init => QueueInv
<1>1. Init => Len(queue) = 0
  BY EmptySeq DEF Init
<1> QED
  BY <1>1, IdleTypes, FS_EmptySet DEF Init, QueueInv

(* Nobody but these touches the queue.                                     *)
LEMMA QueueStays ==
    ASSUME QueueInv, UNCHANGED <<queue, pending>>,
           wk'.pc \in ExecutePcs => wk.pc \in ExecutePcs /\ wk'.key = wk.key
    PROVE  QueueInv'
BY DEF QueueInv, InQueue

LEMMA QueueWork == ASSUME TypeOK, QueueInv, Work PROVE QueueInv'
<1> USE DEF At, memory, ExecutePcs, GatewayPcs
<1>1. CASE Get
  <2>1. /\ Len(queue') = Len(queue) - 1 /\ Len(queue) \in Nat \ {0}
        /\ wk'.key = queue[1] /\ pending' = pending
        /\ \A i \in 1..Len(queue') : queue'[i] = queue[i + 1]
    BY <1>1, GetStep DEF TypeOK
  <2>2. \A i \in 1..Len(queue') : i + 1 \in 1..Len(queue) /\ i + 1 # 1
    BY <2>1
  <2>3. /\ \A i \in 1..Len(queue') : queue'[i] \in pending /\ queue'[i] # queue[1]
        /\ \A i, j \in 1..Len(queue') : queue'[i] = queue'[j] => i = j
        /\ queue[1] \in pending
    <3>1. 1 \in 1..Len(queue)
      BY <2>1
    <3> QED
      BY <2>1, <2>2, <3>1 DEF QueueInv
  <2> QED
    BY <2>1, <2>3 DEF QueueInv, InQueue
<1>2. CASE Done
  <2>1. /\ wk.pc \in ExecutePcs /\ wk'.pc \notin ExecutePcs /\ queue' = queue
        /\ pending' = pending \ {wk.key}
    BY <1>2, SpecialSteps
  <2>2. IsFiniteSet(pending')
    BY <2>1, FS_RemoveElement DEF QueueInv
  <2> QED
    BY <2>1, <2>2 DEF QueueInv, InQueue
<1>3. CASE TakeStop
  BY <1>3, SpecialSteps, QueueStays
<1>4. CASE ClaimLoad \/ Claim \/ PhaseLoad \/ Phase \/ FinishLoad \/ Finish
  BY <1>4, SpecialSteps, QueueStays
<1>5. CASE ~Special
  BY <1>5, QuietStep, QueueStays DEF Quiet, AtWork
<1> QED
  BY <1>1, <1>2, <1>3, <1>4, <1>5 DEF Special

(* A new task, or one that a restart finds queued.                         *)
LEMMA QueueSubmit ==
    ASSUME TypeOK, QueueInv, NEW k \in Tasks, Enqueue(k), UNCHANGED wk PROVE QueueInv'
<1>1. queue \in Seq(Tasks) /\ Len(queue) \in Nat
  BY EmptySeq, LenProperties DEF TypeOK
<1>2. CASE k \in pending
  BY <1>1, <1>2, EnqueueStep, QueueStays DEF Enqueue
<1>3. CASE k \notin pending
  <2>1. /\ pending' = pending \cup {k} /\ Len(queue') = Len(queue) + 1
        /\ queue'[Len(queue) + 1] = k
        /\ \A i \in 1..Len(queue) : queue'[i] = queue[i]
    BY <1>1, <1>3, EnqueueStep
  <2>2. \A i \in 1..Len(queue') : i \in 1..Len(queue) \/ i = Len(queue) + 1
    BY <1>1, <2>1
  <2>3. IsFiniteSet(pending')
    BY <2>1, FS_AddElement DEF QueueInv
  <2>4. \A i \in 1..Len(queue') : queue'[i] \in pending'
    BY <2>1, <2>2 DEF QueueInv
  <2>5. \A i, j \in 1..Len(queue') : queue'[i] = queue'[j] => i = j
    BY <1>3, <2>1, <2>2 DEF QueueInv
  <2>6. wk.pc \in ExecutePcs => wk.key \in pending' /\ wk.key # k /\ ~InQueue(wk.key)
    BY <1>3, <2>1 DEF QueueInv
  <2> QED
    BY <2>1, <2>2, <2>3, <2>4, <2>5, <2>6 DEF QueueInv, InQueue
<1> QED
  BY <1>2, <1>3

LEMMA QueueRestart ==
    ASSUME TypeOK, Restart, IsFiniteSet({k \in Tasks : status[k] = "QUEUED"}) PROVE QueueInv'
<1>1. /\ \A i \in 1..Len(queue') : queue'[i] \in pending'
      /\ \A i, j \in 1..Len(queue') : queue'[i] = queue'[j] => i = j
      /\ IsFiniteSet(pending')
  BY RequeueStep DEF Restart
<1>2. wk'.pc \notin ExecutePcs
  BY IdleTypes DEF Restart
<1> QED
  BY <1>1, <1>2 DEF QueueInv, InQueue

(* Finitely many tasks are queued: they are in memory.                     *)
LEMMA QueuedAreFew ==
    ASSUME QueueInv, QueuedIsRemembered PROVE IsFiniteSet({k \in Tasks : status[k] = "QUEUED"})
<1>1. {k \in Tasks : status[k] = "QUEUED"} \subseteq pending /\ IsFiniteSet(pending)
  BY DEF QueueInv, QueuedIsRemembered
<1> QED
  BY <1>1, FS_Subset
----------------------------------------------------------------------------
(* The rows                                                                *)

LEMMA StatusInit == Init => KnownInv /\ StatusInv
<1>1. Init => Len(queue) = 0
  BY EmptySeq DEF Init
<1> QED
  BY <1>1, IdleTypes DEF Init, KnownInv, StatusInv, QueuedIsRemembered, InQueue, At, AtWork,
     Claiming, ActiveStatuses, Phases, Absent

(* Statuses of different kinds.                                            *)
LEMMA StatusKinds ==
    /\ ActiveStatuses \cap TerminalStatuses = {}
    /\ Absent \notin ActiveStatuses \cup TerminalStatuses
    /\ "QUEUED" \notin ActiveStatuses \cup TerminalStatuses /\ "QUEUED" # Absent
    /\ "SUCCEEDED" \notin ActiveStatuses /\ "SUCCEEDED" \in TerminalStatuses
    /\ "CANCELLING" \in ActiveStatuses /\ "CONNECTING" \in ActiveStatuses
    /\ Phases \subseteq ActiveStatuses
    /\ Statuses = {Absent, "QUEUED"} \cup ActiveStatuses \cup TerminalStatuses
BY DEF ActiveStatuses, TerminalStatuses, Phases, Absent, Statuses

LEMMA StatusWork ==
    ASSUME TypeOK, QueueInv, KnownInv, StatusInv, Work PROVE KnownInv' /\ StatusInv'
<1> USE DEF At, memory, db, ExecutePcs, GatewayPcs, AtWork, Claiming, Executing
<1>1. CASE Get
  <2>1. /\ Len(queue') = Len(queue) - 1 /\ Len(queue) \in Nat \ {0}
        /\ wk'.key = queue[1] /\ wk'.key \in Tasks /\ wk'.pc = "claim_load" /\ wk.pc = "idle"
        /\ \A i \in 1..Len(queue') : queue'[i] = queue[i + 1]
        /\ UNCHANGED <<status, cancels, pending>>
    BY <1>1, GetStep DEF TypeOK, WorkerType
  <2>2. \A k : InQueue(k)' => InQueue(k)
    <3> SUFFICES ASSUME NEW i \in 1..Len(queue') PROVE \E j \in 1..Len(queue) : queue[j] = queue'[i]
      BY DEF InQueue
    <3> QED
      BY <2>1
  <2>3. InQueue(wk'.key)
    <3>1. 1 \in 1..Len(queue)
      BY <2>1
    <3> QED
      BY <2>1, <3>1 DEF InQueue
  <2>4. KnownInv'
    BY <2>1, <2>2, <2>3 DEF KnownInv, QueuedIsRemembered
  <2>5. StatusInv'
    BY <2>1, <2>2, <2>3, StatusKinds DEF StatusInv
  <2> QED
    BY <2>4, <2>5
<1>2. CASE Done
  <2>1. /\ wk.pc = "done" /\ wk'.pc \in {"idle", "stopped"} /\ pending' = pending \ {wk.key}
        /\ UNCHANGED <<status, cancels, queue>>
    BY <1>2, SpecialSteps
  <2>2. \A k : InQueue(k)' <=> InQueue(k)
    BY <2>1 DEF InQueue
  <2>3. KnownInv'
    BY <2>1, <2>2 DEF KnownInv, QueuedIsRemembered
  <2>4. StatusInv'
    BY <2>1, <2>2, StatusKinds DEF StatusInv
  <2> QED
    BY <2>3, <2>4
<1>3. CASE TakeStop
  <2>1. wk.pc = "idle" /\ wk'.pc = "stopped" /\ UNCHANGED <<status, cancels, queue, pending>>
    BY <1>3, SpecialSteps
  <2> QED
    BY <2>1 DEF KnownInv, StatusInv, QueuedIsRemembered, InQueue
<1>4. CASE ClaimLoad \/ PhaseLoad \/ FinishLoad
  <2>1. /\ wk'.key = wk.key /\ wk.key \in Tasks /\ wk'.seen = status[wk.key]
        /\ \/ /\ wk.pc = "claim_load"
              /\ wk'.pc = IF status[wk.key] = "QUEUED" THEN "claim" ELSE "done"
           \/ wk.pc = "phase_load" /\ wk'.pc = "phase"
           \/ wk.pc = "finish_load" /\ wk'.pc = "finish"
        /\ UNCHANGED <<status, cancels, queue, pending>>
    BY <1>4, SpecialSteps DEF TypeOK
  <2>2. \A k : InQueue(k)' <=> InQueue(k)
    BY <2>1 DEF InQueue
  <2>3. KnownInv'
    BY <2>1, <2>2 DEF KnownInv, QueuedIsRemembered
  <2>4. StatusInv'
    BY <2>1, <2>2 DEF StatusInv
  <2> QED
    BY <2>3, <2>4
<1>5. CASE Claim
  <2>1. /\ wk.pc = "claim" /\ wk'.key = wk.key /\ wk.key \in Tasks /\ wk'.pc = "connect"
        /\ wk.seen = "QUEUED" /\ UNCHANGED <<cancels, queue, pending>>
        /\ status' = [status EXCEPT ![wk.key] = "CONNECTING"]
    BY <1>5, SpecialSteps DEF TypeOK, KnownInv, Commit, Flush
  <2>2. /\ status'[wk.key] = "CONNECTING"
        /\ \A k \in Tasks : k # wk.key => status'[k] = status[k]
    BY <2>1 DEF TypeOK
  <2>3. /\ \A k : InQueue(k)' <=> InQueue(k)
        /\ ~InQueue(wk.key)
    BY <2>1 DEF InQueue, QueueInv
  <2>4. KnownInv'
    BY <2>1, <2>2, <2>3 DEF KnownInv, QueuedIsRemembered, Absent
  <2>5. StatusInv'
    BY <2>1, <2>2, <2>3, StatusKinds DEF StatusInv
  <2> QED
    BY <2>4, <2>5
<1>6. CASE Phase
  <2>1. /\ wk.pc = "phase" /\ wk'.key = wk.key /\ wk.key \in Tasks
        /\ wk'.pc \in {"upload", "run", "collect", "clean_open"}
        /\ Commit(wk.key, wk.seen, PhaseTarget(wk.seen, wk.phase))
        /\ UNCHANGED <<cancels, queue, pending>>
        /\ wk.seen \in Statuses /\ wk.phase \in {"UPLOADING", "RUNNING", "COLLECTING", "CLEANING"}
    BY <1>6, SpecialSteps DEF TypeOK, WorkerType
  <2>2. /\ status'[wk.key] = status[wk.key] \/ status'[wk.key] \in Phases
        /\ \A k \in Tasks : k # wk.key => status'[k] = status[k]
    BY <2>1, CommitType, PhaseTargetType DEF TypeOK
  <2>3. /\ \A k : InQueue(k)' <=> InQueue(k)
        /\ ~InQueue(wk.key)
    BY <2>1 DEF InQueue, QueueInv
  <2>4. KnownInv'
    BY <2>1, <2>2, <2>3, StatusKinds DEF KnownInv, QueuedIsRemembered
  <2>5. StatusInv'
    BY <2>1, <2>2, <2>3, StatusKinds DEF StatusInv
  <2> QED
    BY <2>4, <2>5
<1>7. CASE Finish
  <2>1. /\ wk.pc = "finish" /\ wk'.key = wk.key /\ wk.key \in Tasks /\ wk'.pc = "done"
        /\ Commit(wk.key, wk.seen, wk.outcome)
        /\ UNCHANGED <<cancels, queue, pending>>
        /\ wk.outcome \in TerminalStatuses
    BY <1>7, SpecialSteps DEF TypeOK, WorkerType
  <2>2. /\ status'[wk.key] = IF wk.outcome = wk.seen THEN status[wk.key] ELSE wk.outcome
        /\ \A k \in Tasks : k # wk.key => status'[k] = status[k]
    BY <2>1, StatusKinds, CommitType DEF TypeOK
  <2>3. /\ \A k : InQueue(k)' <=> InQueue(k)
        /\ ~InQueue(wk.key)
    BY <2>1 DEF InQueue, QueueInv
  <2>4. KnownInv'
    BY <2>1, <2>2, <2>3, StatusKinds DEF KnownInv, QueuedIsRemembered
  <2>5. wk.key \notin cancels => status'[wk.key] \in TerminalStatuses
    BY <2>1, <2>2 DEF StatusInv
  <2>6. StatusInv'
    BY <2>1, <2>2, <2>3, <2>5, StatusKinds DEF StatusInv
  <2> QED
    BY <2>4, <2>6
<1>8. CASE ~Special
  <2>1. /\ wk.pc \in AtWork /\ wk'.pc \in AtWork \ {"connect", "phase", "finish"}
        /\ wk'.key = wk.key /\ UNCHANGED <<status, cancels, queue, pending>>
    BY <1>8, QuietStep DEF Quiet
  <2>2. \A k : InQueue(k)' <=> InQueue(k)
    BY <2>1 DEF InQueue
  <2>3. KnownInv'
    BY <2>1, <2>2 DEF KnownInv, QueuedIsRemembered
  <2>4. StatusInv'
    BY <2>1, <2>2 DEF StatusInv
  <2> QED
    BY <2>3, <2>4
<1> QED
  BY <1>1, <1>2, <1>3, <1>4, <1>5, <1>6, <1>7, <1>8 DEF Special

(* Whoever else writes a row leaves it terminal or marks it as cancelled.  *)
LEMMA StatusElsewhere ==
    ASSUME TypeOK, QueueInv, KnownInv, StatusInv,
           Handle \/ Surroundings \/ Stop \/ (\E k \in Tasks : Submit(k) \/ CancelLoad(k))
    PROVE  KnownInv' /\ StatusInv'
<1> USE DEF At, memory, db, trouble, Executing
<1>1. CASE UNCHANGED <<status, cancels, queue, pending, wk>>
  <2>1. \A k : InQueue(k)' <=> InQueue(k)
    BY <1>1 DEF InQueue
  <2>2. KnownInv'
    BY <1>1, <2>1 DEF KnownInv, QueuedIsRemembered
  <2>3. StatusInv'
    BY <1>1, <2>1 DEF StatusInv
  <2> QED
    BY <2>2, <2>3
<1>2. CASE CancelCommit
  <2>1. /\ api.key \in Tasks /\ cancels' = cancels \cup {api.key}
        /\ Commit(api.key, api.seen, CancelTarget(api.seen))
        /\ CancelTarget(api.seen) \in {"CANCELLED", "CANCELLING"}
        /\ UNCHANGED <<queue, pending, wk>>
    BY <1>2 DEF CancelCommit, CancelTarget, TypeOK, ApiAt
  <2>2. {"CANCELLED", "CANCELLING"} \subseteq Statuses
    BY DEF Statuses, ActiveStatuses, TerminalStatuses
  <2>3. /\ status'[api.key] \in {status[api.key], "CANCELLED", "CANCELLING"}
        /\ \A k \in Tasks : k # api.key => status'[k] = status[k]
    BY <2>1, <2>2, CommitType DEF TypeOK
  <2>4. /\ \A k \in Tasks : status'[k] \in {status[k], "CANCELLED", "CANCELLING"}
        /\ \A k \in Tasks \ cancels' : status'[k] = status[k] /\ k \in Tasks \ cancels
    BY <2>1, <2>3
  <2>5. \A k : InQueue(k)' <=> InQueue(k)
    BY <2>1 DEF InQueue
  <2>6. wk.pc \in ExecutePcs => wk.key \in Tasks
    BY DEF TypeOK
  <2>7. KnownInv'
    BY <2>1, <2>4, <2>5, <2>6 DEF KnownInv, QueuedIsRemembered, Absent, AtWork
  <2>8. StatusInv'
    BY <2>1, <2>4, <2>5, <2>6 DEF StatusInv
  <2> QED
    BY <2>7, <2>8
<1>3. ASSUME NEW k \in Tasks, Submit(k) PROVE KnownInv' /\ StatusInv'
  <2>1. /\ status[k] = Absent /\ status' = [status EXCEPT ![k] = "QUEUED"] /\ Enqueue(k)
        /\ UNCHANGED <<cancels, wk>>
    BY <1>3 DEF Submit, Create
  <2>2. /\ status'[k] = "QUEUED" /\ pending' = pending \cup {k}
        /\ \A j \in Tasks : j # k => status'[j] = status[j]
    BY <2>1, EnqueueStep DEF TypeOK
  <2>3. \A j \in Tasks : InQueue(j)' => InQueue(j) \/ j = k
    <3> SUFFICES ASSUME NEW i \in 1..Len(queue')
                 PROVE  InQueue(queue'[i]) \/ queue'[i] = k
      BY DEF InQueue
    <3>1. Len(queue) \in Nat
      BY LenProperties DEF TypeOK
    <3> QED
      BY <2>1, <3>1, EnqueueStep DEF InQueue, TypeOK
  <2>4. wk.pc \in ExecutePcs => wk.key \in Tasks /\ wk.key # k
    BY <2>1 DEF TypeOK, KnownInv
  <2>5. KnownInv'
    BY <2>1, <2>2, <2>3, <2>4 DEF KnownInv, QueuedIsRemembered, Absent, AtWork
  <2>6. StatusInv'
    BY <2>1, <2>2, <2>3, <2>4, StatusKinds DEF StatusInv
  <2> QED
    BY <2>5, <2>6
<1>4. CASE Signal \/ Close \/ Surroundings \/ Stop \/ \E k \in Tasks : CancelLoad(k)
  <2>1. UNCHANGED <<status, cancels, queue, pending, wk>>
    BY <1>4 DEF Signal, Close, Surroundings, CommandEnds, ConnectionLost, Stop, CancelLoad
  <2> QED
    BY <1>1, <2>1
<1> QED
  BY <1>2, <1>3, <1>4 DEF Handle

(* A restart leaves nothing active and everything queued in memory.        *)
LEMMA StatusRestart ==
    ASSUME TypeOK, QueueInv, KnownInv, StatusInv, Restart PROVE KnownInv' /\ StatusInv'
<1>1. \A k \in Tasks : /\ status'[k] \notin ActiveStatuses
                       /\ status'[k] = "QUEUED" <=> status[k] = "QUEUED"
  BY StatusKinds DEF Restart, Interrupted, TerminalStatuses
<1>2. /\ \A i \in 1..Len(queue') : queue'[i] \in {k \in Tasks : status[k] = "QUEUED"}
      /\ pending' = {k \in Tasks : status[k] = "QUEUED"} /\ cancels' = cancels
  BY RequeueStep, QueuedAreFew DEF Restart, KnownInv
<1>3. \A k \in Tasks : InQueue(k)' => status[k] = "QUEUED"
  BY <1>2 DEF InQueue
<1>4. wk'.pc = "idle" /\ wk'.pc \notin ExecutePcs
  BY IdleTypes DEF Restart
<1>5. KnownInv'
  BY <1>1, <1>2, <1>3, <1>4, StatusKinds DEF KnownInv, QueuedIsRemembered, At, AtWork
<1>6. StatusInv'
  BY <1>1, <1>2, <1>3, <1>4 DEF StatusInv
<1> QED
  BY <1>5, <1>6
----------------------------------------------------------------------------
(* The board                                                               *)

(* Who was not connected has nothing there.                                *)
LEMMA UnusedInit == Init => UnusedInv
BY IdleTypes DEF Init, UnusedInv, Unused, Claiming

LEMMA UnusedWork ==
    ASSUME TypeOK, QueueInv, KnownInv, UnusedInv, Work PROVE UnusedInv'
<1> USE DEF At, memory, db, board, Claiming, ExecutePcs, GatewayPcs
<1>1. CASE Get
  <2>1. /\ Len(queue') = Len(queue) - 1 /\ Len(queue) \in Nat \ {0}
        /\ wk'.key = queue[1] /\ wk'.key \in Tasks /\ wk'.pc = "claim_load" /\ wk.pc = "idle"
        /\ \A i \in 1..Len(queue') : queue'[i] = queue[i + 1]
        /\ UNCHANGED <<status, payload, session, remote, command, refused>>
    BY <1>1, GetStep DEF TypeOK, WorkerType, trouble
  <2>2. \A k : InQueue(k)' => InQueue(k)
    <3> SUFFICES ASSUME NEW i \in 1..Len(queue') PROVE \E j \in 1..Len(queue) : queue[j] = queue'[i]
      BY DEF InQueue
    <3> QED
      BY <2>1
  <2>3. InQueue(wk'.key)
    <3>1. 1 \in 1..Len(queue)
      BY <2>1
    <3> QED
      BY <2>1, <3>1 DEF InQueue
  <2> QED
    BY <2>1, <2>2, <2>3 DEF UnusedInv, Unused
<1>2. CASE Done \/ TakeStop
  <2>1. /\ wk'.pc \in {"idle", "stopped"}
        /\ UNCHANGED <<status, payload, queue, session, remote, command, refused>>
    BY <1>2, SpecialSteps, RefusedStays DEF Special
  <2> QED
    BY <2>1 DEF UnusedInv, Unused, InQueue
<1>3. CASE ClaimLoad \/ PhaseLoad \/ FinishLoad
  <2>1. /\ wk'.key = wk.key
        /\ (wk'.pc \in Claiming => wk.pc \in Claiming)
        /\ wk'.pc # "connect"
        /\ UNCHANGED <<status, payload, queue, session, remote, command, refused>>
    BY <1>3, SpecialSteps, RefusedStays DEF Special
  <2> QED
    BY <2>1 DEF UnusedInv, Unused, InQueue
<1>4. CASE Claim
  <2>1. /\ wk.pc = "claim" /\ wk'.key = wk.key /\ wk.key \in Tasks /\ wk'.pc = "connect"
        /\ wk.seen = "QUEUED" /\ UNCHANGED <<payload, queue, session, remote, command, refused>>
        /\ status' = [status EXCEPT ![wk.key] = "CONNECTING"]
    BY <1>4, SpecialSteps, RefusedStays DEF Special, TypeOK, KnownInv, Commit, Flush
  <2>2. \A k \in Tasks : status'[k] \in {status[k], "CONNECTING"}
    BY <2>1 DEF TypeOK
  <2> QED
    BY <2>1, <2>2 DEF UnusedInv, Unused, InQueue, Absent
<1>5. CASE Phase
  <2>1. /\ wk.pc = "phase" /\ wk'.key = wk.key /\ wk.key \in Tasks
        /\ wk'.pc \in {"upload", "run", "collect", "clean_open"}
        /\ Commit(wk.key, wk.seen, PhaseTarget(wk.seen, wk.phase))
        /\ UNCHANGED <<payload, queue, session, remote, command, refused>>
        /\ wk.seen \in Statuses /\ wk.phase \in {"UPLOADING", "RUNNING", "COLLECTING", "CLEANING"}
    BY <1>5, SpecialSteps, RefusedStays DEF Special, TypeOK, WorkerType
  <2>2. \A k \in Tasks : status'[k] = status[k] \/ status'[k] \in Phases
    BY <2>1, CommitType, PhaseTargetType DEF TypeOK
  <2>3. \A k \in Tasks : status'[k] \in {Absent, "QUEUED"} => status[k] \in {Absent, "QUEUED"}
    BY <2>2, StatusKinds
  <2> QED
    BY <2>1, <2>3 DEF UnusedInv, Unused, InQueue
<1>6. CASE Finish
  <2>1. /\ wk.pc = "finish" /\ wk'.key = wk.key /\ wk.key \in Tasks /\ wk'.pc = "done"
        /\ Commit(wk.key, wk.seen, wk.outcome) /\ wk.outcome \in TerminalStatuses
        /\ UNCHANGED <<queue, session, remote, command, refused>>
        /\ \A k \in Tasks : k # wk.key => payload'[k] = payload[k]
    BY <1>6, SpecialSteps, RefusedStays DEF Special, TypeOK, WorkerType, Finish
  <2>2. \A k \in Tasks : status'[k] = status[k] \/ status'[k] \in TerminalStatuses
    BY <2>1, StatusKinds, CommitType DEF TypeOK
  <2>3. \A k \in Tasks : status'[k] \in {Absent, "QUEUED"} => status[k] \in {Absent, "QUEUED"}
    BY <2>2, StatusKinds
  <2>4. status[wk.key] \notin {Absent, "QUEUED"} /\ ~InQueue(wk.key)
    BY <2>1 DEF KnownInv, QueueInv
  <2> QED
    BY <2>1, <2>3, <2>4 DEF UnusedInv, Unused, InQueue
<1>7. CASE ~Special
  <2>1. /\ wk.pc \in AtWork /\ wk'.pc \in AtWork \ {"connect", "phase", "finish"}
        /\ wk'.key = wk.key /\ UNCHANGED <<status, payload, queue>>
        /\ \A k \in Tasks \ {wk.key} : /\ session'[k] = session[k] /\ remote'[k] = remote[k]
                                       /\ command'[k] = command[k] /\ refused'[k] = refused[k]
    BY <1>7, QuietStep DEF Quiet
  <2>2. status[wk.key] \notin {Absent, "QUEUED"} /\ ~InQueue(wk.key)
    BY <2>1 DEF KnownInv, QueueInv, AtWork
  <2> QED
    BY <2>1, <2>2 DEF UnusedInv, Unused, InQueue, AtWork
<1> QED
  BY <1>1, <1>2, <1>3, <1>4, <1>5, <1>6, <1>7 DEF Special

(* What the others may change of a task: they cut its connection, end its  *)
(* program, submit it or cancel it.                                        *)
Around(k) ==
    /\ session'[k] = session[k] \/ (Open(k) /\ session'[k] = "severed")
    /\ \/ command'[k] = command[k]
       \/ command[k] = "running" /\ command'[k] \in {"passed", "failed"}
    /\ status'[k] \in {status[k], "CANCELLED", "CANCELLING"} \/ status[k] = Absent
    /\ status'[k] \in {status[k], "QUEUED", "CANCELLED", "CANCELLING"}
    /\ InQueue(k)' => InQueue(k) \/ status[k] = Absent

LEMMA AroundStep ==
    ASSUME TypeOK,
           Handle \/ Surroundings \/ Stop \/ (\E k \in Tasks : Submit(k) \/ CancelLoad(k))
    PROVE  wk' = wk /\ UNCHANGED <<payload, remote, refused>> /\ \A k \in Tasks : Around(k)
<1> USE DEF db, memory, board, trouble, Open
<1>1. CASE UNCHANGED <<status, queue>>
  <2>1. \A k : InQueue(k)' <=> InQueue(k)
    BY <1>1 DEF InQueue
  <2>2. wk' = wk /\ UNCHANGED <<payload, remote, refused>>
    BY <1>1 DEF Handle, CancelCommit, Signal, Close, Surroundings, CommandEnds, ConnectionLost,
       Stop, Submit, Create, CancelLoad
  <2>3. \A k \in Tasks : session'[k] = session[k] \/ (Open(k) /\ session'[k] = "severed")
    BY DEF Handle, CancelCommit, Signal, Close, Surroundings, CommandEnds, ConnectionLost,
       Stop, Submit, Create, CancelLoad, TypeOK
  <2>4. \A k \in Tasks : \/ command'[k] = command[k]
                         \/ command[k] = "running" /\ command'[k] \in {"passed", "failed"}
    BY DEF Handle, CancelCommit, Signal, Close, Surroundings, CommandEnds, ConnectionLost,
       Stop, Submit, Create, CancelLoad, TypeOK
  <2> QED
    BY <1>1, <2>1, <2>2, <2>3, <2>4 DEF Around
<1>2. CASE CancelCommit
  <2>1. /\ api.key \in Tasks /\ Commit(api.key, api.seen, CancelTarget(api.seen))
        /\ CancelTarget(api.seen) \in {"CANCELLED", "CANCELLING"}
        /\ UNCHANGED <<queue, wk, payload, session, remote, command, refused>>
    BY <1>2 DEF CancelCommit, CancelTarget, TypeOK, ApiAt
  <2>2. {"CANCELLED", "CANCELLING"} \subseteq Statuses
    BY DEF Statuses, ActiveStatuses, TerminalStatuses
  <2>3. \A k \in Tasks : status'[k] \in {status[k], "CANCELLED", "CANCELLING"}
    BY <2>1, <2>2, CommitType DEF TypeOK
  <2> QED
    BY <2>1, <2>3 DEF Around, InQueue
<1>3. ASSUME NEW k \in Tasks, Submit(k)
      PROVE  wk' = wk /\ UNCHANGED <<payload, remote, refused>> /\ \A j \in Tasks : Around(j)
  <2>1. /\ status[k] = Absent /\ status' = [status EXCEPT ![k] = "QUEUED"] /\ Enqueue(k)
        /\ UNCHANGED <<payload, session, remote, command, wk, refused>>
    BY <1>3 DEF Submit, Create
  <2>2. \A j \in Tasks : InQueue(j)' => InQueue(j) \/ j = k
    <3> SUFFICES ASSUME NEW i \in 1..Len(queue')
                 PROVE  InQueue(queue'[i]) \/ queue'[i] = k
      BY DEF InQueue
    <3>1. Len(queue) \in Nat
      BY LenProperties DEF TypeOK
    <3> QED
      BY <2>1, <3>1, EnqueueStep DEF InQueue, TypeOK
  <2> QED
    BY <2>1, <2>2 DEF Around, TypeOK
<1>4. CASE Signal \/ Close \/ Surroundings \/ Stop \/ \E k \in Tasks : CancelLoad(k)
  <2>1. UNCHANGED <<status, queue>>
    BY <1>4 DEF Signal, Close, Surroundings, CommandEnds, ConnectionLost, Stop, CancelLoad
  <2> QED
    BY <1>1, <2>1
<1> QED
  BY <1>2, <1>3, <1>4 DEF Handle

LEMMA QueueElsewhere ==
    ASSUME TypeOK, QueueInv,
           Handle \/ Surroundings \/ Stop \/ (\E k \in Tasks : Submit(k) \/ CancelLoad(k))
    PROVE  QueueInv'
<1>1. CASE Handle \/ Surroundings \/ Stop \/ \E k \in Tasks : CancelLoad(k)
  <2>1. UNCHANGED <<queue, pending, wk>>
    BY <1>1 DEF Handle, CancelCommit, Signal, Close, Surroundings, CommandEnds, ConnectionLost,
       Stop, CancelLoad, memory
  <2> QED
    BY <2>1, QueueStays
<1>2. ASSUME NEW k \in Tasks, Submit(k) PROVE QueueInv'
  BY <1>2, QueueSubmit DEF Submit, Create
<1> QED
  BY <1>1, <1>2

LEMMA UnusedElsewhere ==
    ASSUME TypeOK, UnusedInv,
           Handle \/ Surroundings \/ Stop \/ (\E k \in Tasks : Submit(k) \/ CancelLoad(k))
    PROVE  UnusedInv'
<1>1. wk' = wk /\ UNCHANGED <<payload, remote, refused>> /\ \A k \in Tasks : Around(k)
  BY AroundStep
<1>2. \A k \in Tasks : Unused(k) => Unused(k)'
  BY <1>1 DEF Around, Unused, Open
<1>3. \A k \in Tasks : status'[k] \in {Absent, "QUEUED"} \/ InQueue(k)' =>
                         status[k] \in {Absent, "QUEUED"} \/ InQueue(k)
  BY <1>1 DEF Around, Absent
<1>4. wk.pc \in Claiming \cup {"connect"} => wk.key \in Tasks
  BY DEF TypeOK, Claiming, ExecutePcs
<1> QED
  BY <1>1, <1>2, <1>3, <1>4 DEF UnusedInv

LEMMA UnusedRestart ==
    ASSUME TypeOK, QueueInv, KnownInv, UnusedInv, Restart PROVE UnusedInv'
<1>1. \A k \in Tasks : status'[k] \in {Absent, "QUEUED"} => status[k] = status'[k]
  BY StatusKinds DEF Restart, Interrupted, TerminalStatuses
<1>2. \A i \in 1..Len(queue') : queue'[i] \in {k \in Tasks : status[k] = "QUEUED"}
  BY RequeueStep, QueuedAreFew DEF Restart, KnownInv
<1>3. \A k \in Tasks : InQueue(k)' => status[k] = "QUEUED"
  BY <1>2 DEF InQueue
<1>4. \A k \in Tasks : Unused(k) => Unused(k)'
  BY DEF Restart, Unused, Open
<1>5. wk'.pc \notin Claiming \cup {"connect"}
  BY IdleTypes DEF Restart, Claiming
<1> QED
  BY <1>1, <1>3, <1>4, <1>5 DEF UnusedInv

----------------------------------------------------------------------------
(* What the worker knows of the board                                      *)

Known == WorkInv /\ EarnedInv

(* A worker that executes nothing knows nothing.                           *)
LEMMA IdleKnows == ASSUME wk.pc \notin ExecutePcs PROVE Known
BY DEF Known, WorkInv, EarnedInv, During, Cleaning, AfterWork, At, ExecutePcs, GatewayPcs

(* What the others do to the board does not contradict it.                 *)
LEMMA KnownElsewhere ==
    ASSUME TypeOK, Known, wk' = wk, UNCHANGED <<remote, refused>>, \A k \in Tasks : Around(k)
    PROVE  Known'
<1>1. wk.pc \in ExecutePcs => wk.key \in Tasks
  BY DEF TypeOK
<1>2. CASE wk.pc \in ExecutePcs
  <2>1. /\ session'[wk.key] = session[wk.key] \/ (Open(wk.key) /\ session'[wk.key] = "severed")
        /\ remote'[wk.key] = remote[wk.key] /\ wk' = wk /\ refused' = refused
        /\ command[wk.key] = "passed" => command'[wk.key] = "passed"
        /\ command[wk.key] = "abandoned" => command'[wk.key] = "abandoned"
    BY <1>1, <1>2 DEF Around
  <2>2. Severed(wk.key) => Severed(wk.key)'
    BY <2>1 DEF Severed, Open
  <2>3. Removed(wk.key) => Removed(wk.key)'
    BY <2>1, <2>2 DEF Removed, Refused
  <2>4. WorkInv'
    BY <2>1, <2>2, <2>3 DEF Known, WorkInv, During, Cleaning, AfterWork, At, Open, Refused
  <2>5. EarnedInv'
    BY <2>1, <2>2 DEF Known, EarnedInv, Earned, At, Refused
  <2> QED
    BY <2>4, <2>5 DEF Known
<1>3. CASE wk.pc \notin ExecutePcs
  BY <1>3 DEF Known, WorkInv, EarnedInv, During, Cleaning, AfterWork, At, ExecutePcs, GatewayPcs
<1> QED
  BY <1>2, <1>3

(* Every step of the worker keeps it.                                      *)
LEMMA KnownWork ==
    ASSUME TypeOK, KnownInv, UnusedInv, Known, ~KeepRemote, Work PROVE Known'
<1> USE DEF Known, WorkInv, EarnedInv, Earned, During, Cleaning, AfterWork, Removed, Severed, Open,
            Refused, At, GatewayPcs, Goto, Return, board
<1>t. wk \in WorkerType /\ (wk.pc \in ExecutePcs => wk.key \in Tasks)
  BY DEF TypeOK
<1>1. CASE Get \/ TakeStop \/ Done \/ Claim
  <2>1. wk'.pc \in {"idle", "stopped", "claim_load", "connect"}
    BY <1>1, <1>t DEF Get, TakeStop, Done, Claim, WorkerType, WorkerIdle
  <2> QED
    BY <2>1
<1>17. CASE Connect
  <2>1. wk.key \in Tasks
    BY <1>17, <1>t DEF Connect, ExecutePcs
  <2>2. /\ wk'.pc = "guard" /\ wk'.key = wk.key /\ session'[wk.key] = "open"
        /\ refused'[wk.key] = {}
    BY <1>17, <1>t, <2>1 DEF Connect, WorkerType, TypeOK, trouble, UnusedInv, Unused
  <2> QED
    BY <2>2
<1>2. CASE ClaimLoad
  <2>1. wk'.pc \in {"claim", "done"} /\ wk'.key = wk.key /\ remote[wk.key] = "none"
        /\ remote' = remote
    BY <1>2, <1>t DEF ClaimLoad, WorkerType, UnusedInv, Unused, Claiming
  <2> QED
    BY <2>1
<1>3. CASE ConnectFails
  <2>1. /\ wk'.pc = "outcome" /\ wk'.exc = "error" /\ wk'.key = wk.key
        /\ remote[wk.key] = "none" /\ remote' = remote
    BY <1>3, <1>t DEF ConnectFails, WorkerType, UnusedInv, Unused, Claiming
  <2> QED
    BY <2>1
<1>4. CASE \/ Guard \/ UploadFails \/ RunFails \/ CommandFailed \/ Abandon \/ CollectFails
           \/ PhaseFails /\ wk.phase # "CLEANING"
  <2>1. /\ wk.pc \in GatewayPcs \ {"release"} /\ wk'.key = wk.key /\ wk'.pc = "phase_load"
        /\ session'[wk.key] = session[wk.key] /\ refused' = refused
        /\ (wk'.phase = "CLEANING" /\ wk'.exc # "none") \/ wk'.phase = "UPLOADING"
    <3>1. CASE Guard
      BY <1>t, <3>1, FinallyStep, SetPhaseStep DEF Guard, trouble
    <3>2. CASE UploadFails
      BY <1>t, <3>2, FinallyStep DEF UploadFails, trouble
    <3>3. CASE CommandFailed
      BY <1>t, <3>3, FinallyStep DEF CommandFailed, trouble
    <3>4. CASE Abandon
      BY <1>t, <3>4, FinallyStep DEF Abandon, trouble
    <3>5. CASE CollectFails
      BY <1>t, <3>5, FinallyStep DEF CollectFails, trouble
    <3>6. CASE RunFails
      BY <1>t, <3>6, FinallyStep DEF RunFails, trouble
    <3>7. CASE PhaseFails /\ wk.phase # "CLEANING"
      BY <1>t, <3>7, FinallyStep DEF PhaseFails, trouble
    <3> QED
      BY <1>4, <3>1, <3>2, <3>3, <3>4, <3>5, <3>6, <3>7
  <2> QED
    BY <2>1
<1>5. CASE PhaseLoad
  <2>1. /\ wk.pc = "phase_load" /\ wk'.pc = "phase" /\ wk'.key = wk.key
        /\ wk'.phase = wk.phase /\ wk'.exc = wk.exc /\ wk'.got = wk.got
        /\ UNCHANGED <<session, remote, command, refused>>
    BY <1>5, <1>t DEF PhaseLoad, WorkerType, trouble
  <2> QED
    BY <2>1
<1>6. CASE Phase
  <2>1. /\ wk.pc = "phase" /\ wk'.key = wk.key /\ wk'.exc = wk.exc /\ wk'.got = wk.got
        /\ UNCHANGED <<session, remote, command, refused>>
    BY <1>6, <1>t DEF Phase, WorkerType, trouble
  <2>2. /\ wk'.pc \in {"upload", "run", "collect", "clean_open"}
        /\ wk'.pc = "run" => wk.phase = "RUNNING"
        /\ wk'.pc = "collect" => wk.phase = "COLLECTING"
        /\ wk'.pc = "clean_open" => wk.phase = "CLEANING"
    BY <1>6, <1>t DEF Phase, WorkerType, AfterPhase
  <2> QED
    BY <2>1, <2>2
<1>7. CASE Upload
  <2>1. /\ wk'.pc = "phase_load" /\ wk'.phase = "RUNNING" /\ wk'.key = wk.key /\ wk.pc = "upload"
        /\ session' = session /\ remote'[wk.key] = "present" /\ refused' = refused
    BY <1>7, <1>t, SetPhaseStep DEF Upload, TypeOK, ExecutePcs, trouble
  <2> QED
    BY <2>1
<1>8. CASE RunCommand
  <2>1. /\ wk.pc = "run" /\ wk'.pc = "wait" /\ wk'.key = wk.key
        /\ UNCHANGED <<session, remote, refused>>
    BY <1>8, <1>t DEF RunCommand, WorkerType, trouble
  <2> QED
    BY <2>1
<1>9. CASE CommandPassed
  <2>1. /\ wk'.pc = "phase_load" /\ wk'.phase = "COLLECTING" /\ wk'.key = wk.key /\ wk.pc = "wait"
        /\ UNCHANGED <<session, remote, command, refused>> /\ command[wk.key] = "passed"
    BY <1>9, <1>t, SetPhaseStep DEF CommandPassed, trouble
  <2> QED
    BY <2>1
<1>10. CASE Collect
  <2>1. wk.pc = "collect" /\ wk.key \in Tasks /\ UNCHANGED <<session, remote, command>>
    BY <1>10, <1>t DEF Collect, ExecutePcs
  <2>2. wk'.pc = "phase_load" /\ wk'.phase = "CLEANING" /\ wk'.key = wk.key
    BY <1>10, <1>t, CollectStep DEF Collect, Payloads
  <2>3. wk'.got = "all" \/ Severed(wk.key) \/ Refused(wk.key, "output")'
    BY <1>10, <1>t, <2>1, <2>2, CollectStep, FailsStep DEF Collect, Payloads, Refusals
  <2>4. ~Refused(wk.key, "cleanup")'
    BY <1>10, <2>1, <2>2, FailsStep DEF Collect, trouble, Refusals
  <2> QED
    BY <2>1, <2>2, <2>3, <2>4
<1>11. CASE CleanOpen
  <2>1. /\ wk.pc = "clean_open" /\ wk'.key = wk.key /\ wk'.exc = wk.exc /\ wk'.got = wk.got
        /\ wk'.pc = "clean_tree" /\ session[wk.key] = "open"
        /\ UNCHANGED <<session, remote, command, refused>>
    BY <1>11, <1>t DEF CleanOpen, WorkerType, trouble
  <2> QED
    BY <2>1
<1>12. CASE CleanTree
  <2>1. /\ wk.pc = "clean_tree" /\ wk'.key = wk.key /\ wk'.exc = wk.exc /\ wk'.got = wk.got
        /\ wk'.pc = "release" /\ UNCHANGED <<session, command, refused>>
    BY <1>12, <1>t DEF CleanTree, WorkerType, trouble
  <2>2. remote'[wk.key] = IF remote[wk.key] = "present" THEN "gone" ELSE remote[wk.key]
    BY <1>12, <1>t DEF CleanTree, TypeOK, ExecutePcs
  <2> QED
    BY <2>1, <2>2
<1>13. CASE CleanOpenFails \/ CleanTreeFails
  <2>1. /\ wk.pc \in {"clean_open", "clean_tree"} /\ wk.key \in Tasks
        /\ wk'.key = wk.key /\ wk'.unclean
        /\ wk'.pc = "release" /\ UNCHANGED <<session, remote, command>>
    BY <1>13, <1>t DEF CleanOpenFails, CleanTreeFails, WorkerType, ExecutePcs
  <2>2. Severed(wk.key) \/ command[wk.key] = "abandoned" \/ Refused(wk.key, "cleanup")'
    BY <1>13, <2>1, FailsStep DEF CleanOpenFails, CleanTreeFails, Refusals
  <2> QED
    BY <2>1, <2>2
<1>18. CASE CleanTreeUnseen
  <2>1. /\ wk.pc = "clean_tree" /\ wk.key \in Tasks
        /\ wk'.key = wk.key /\ wk'.exc = wk.exc /\ wk'.got = wk.got /\ wk'.unclean = wk.unclean
        /\ wk'.pc = "release" /\ UNCHANGED <<session, remote, command>>
    BY <1>18, <1>t DEF CleanTreeUnseen, WorkerType, ExecutePcs
  <2>2. Severed(wk.key) \/ Refused(wk.key, "root")'
    BY <1>18, <2>1, FailsStep DEF CleanTreeUnseen, Refusals
  <2>3. /\ Refused(wk.key, "output") => Refused(wk.key, "output")'
        /\ ~Refused(wk.key, "cleanup")'
    BY <1>18, <2>1, FailsStep DEF CleanTreeUnseen, Refusals
  <2> QED
    BY <2>1, <2>2, <2>3
<1>19. CASE PhaseFails /\ wk.phase = "CLEANING"
  <2>1. /\ wk.pc = "phase_load" /\ wk.key \in Tasks /\ Refuse("cleanup")
        /\ wk'.key = wk.key /\ wk'.unclean /\ wk'.pc = "release" /\ session' = session
    BY <1>19, <1>t DEF PhaseFails, WorkerType, ExecutePcs
  <2>2. Refused(wk.key, "cleanup")'
    BY <2>1, RefuseStep DEF Refusals
  <2> QED
    BY <2>1, <2>2
<1>14. CASE Release
  <2>1. /\ wk.pc = "release" /\ wk'.key = wk.key /\ wk'.got = wk.got
        /\ wk'.pc = "outcome" /\ UNCHANGED <<remote, command, refused>>
        /\ wk'.exc = "none" => wk.exc = "none" /\ ~wk.unclean
    BY <1>14, <1>t DEF Release, WorkerType, trouble
  <2>2. session[wk.key] = "severed" => session'[wk.key] = "severed"
    BY <1>14, <1>t DEF Release, TypeOK, ExecutePcs
  <2> QED
    BY <2>1, <2>2
<1>15. CASE Outcome
  <2>1. /\ wk.pc = "outcome" /\ wk'.key = wk.key /\ wk'.got = wk.got
        /\ wk'.pc = "finish_load" /\ UNCHANGED <<session, remote, command, refused>>
        /\ wk'.outcome = OutcomeOf(wk.exc, wk.key \in cancels)
    BY <1>15, <1>t DEF Outcome, WorkerType, trouble
  <2>2. OutcomeOf(wk.exc, wk.key \in cancels) = "SUCCEEDED" => wk.exc = "none"
    BY DEF OutcomeOf
  <2> QED
    BY <2>1, <2>2
<1>16. CASE FinishLoad \/ Finish
  <2>1. /\ wk.pc \in {"finish_load", "finish"} /\ wk'.key = wk.key /\ wk'.got = wk.got
        /\ wk'.pc \in {"finish", "done"} /\ UNCHANGED <<session, remote, command, refused>>
        /\ wk'.outcome = wk.outcome
    BY <1>16, <1>t DEF FinishLoad, Finish, WorkerType, trouble
  <2> QED
    BY <2>1
<1> QED
  BY <1>1, <1>2, <1>3, <1>4, <1>5, <1>6, <1>7, <1>8, <1>9, <1>10, <1>11, <1>12, <1>13, <1>14,
     <1>15, <1>16, <1>17, <1>18, <1>19 DEF Work, Execute

----------------------------------------------------------------------------
(* What the runs check                                                     *)

(* A commit of the worker other than the last one is not a success.        *)
LEMMA GateWork ==
    ASSUME TypeOK, KnownInv, EarnedInv, BoardSuccessGate, ~KeepRemote, Work
    PROVE  BoardSuccessGate'
<1> USE DEF At, db, board
<1>a. wk.pc \in ExecutePcs => wk.key \in Tasks
  BY DEF TypeOK
<1>1. CASE UNCHANGED <<status, payload, session, remote, command, refused>>
  BY <1>1 DEF BoardSuccessGate, Severed, Refused
<1>2. CASE Get \/ TakeStop \/ Done \/ ClaimLoad \/ PhaseLoad \/ FinishLoad
  <2>1. CASE Get
    BY <1>1, <2>1 DEF Get, trouble
  <2>2. CASE TakeStop \/ Done \/ ClaimLoad \/ PhaseLoad \/ FinishLoad
    BY <1>1, <2>2, SpecialSteps, RefusedStays DEF Special
  <2> QED
    BY <1>2, <2>1, <2>2
<1>3. CASE Claim
  <2>1. /\ wk.key \in Tasks /\ Commit(wk.key, wk.seen, "CONNECTING") /\ wk.seen = "QUEUED"
        /\ UNCHANGED <<payload, session, remote, command, refused>>
    BY <1>3, <1>a, SpecialSteps, RefusedStays DEF KnownInv, ExecutePcs, Special
  <2>2. \A k \in Tasks : status'[k] = status[k] \/ status'[k] = "CONNECTING"
    BY <2>1 DEF Commit, Flush, TypeOK
  <2> QED
    BY <2>1, <2>2 DEF BoardSuccessGate, Severed, Refused
<1>4. CASE Phase
  <2>1. /\ wk.key \in Tasks /\ Commit(wk.key, wk.seen, PhaseTarget(wk.seen, wk.phase))
        /\ UNCHANGED <<payload, session, remote, command, refused>>
        /\ wk.seen \in Statuses /\ wk.phase \in {"UPLOADING", "RUNNING", "COLLECTING", "CLEANING"}
    BY <1>4, <1>a, SpecialSteps, RefusedStays DEF Special, TypeOK, WorkerType, ExecutePcs, GatewayPcs
  <2>2. \A k \in Tasks : status'[k] = status[k] \/ status'[k] \in Phases
    BY <2>1, CommitType, PhaseTargetType DEF TypeOK
  <2>3. \A k \in Tasks : status'[k] = "SUCCEEDED" => status[k] = "SUCCEEDED"
    BY <2>2, StatusKinds
  <2> QED
    BY <2>1, <2>3 DEF BoardSuccessGate, Severed, Refused
<1>5. CASE Finish
  <2>1. /\ wk.pc = "finish" /\ wk.key \in Tasks /\ Commit(wk.key, wk.seen, wk.outcome)
        /\ UNCHANGED <<session, remote, command, refused>> /\ wk.outcome \in Statuses
        /\ payload' = [payload EXCEPT ![wk.key] =
                         IF wk.outcome = "SUCCEEDED" THEN wk.got ELSE "none"]
    BY <1>5, <1>a, SpecialSteps, StatusKinds, RefusedStays
    DEF Special, TypeOK, WorkerType, ExecutePcs, Finish
  <2>2. /\ \A k \in Tasks : k # wk.key => status'[k] = status[k] /\ payload'[k] = payload[k]
        /\ status'[wk.key] \in {status[wk.key], wk.outcome}
        /\ payload'[wk.key] = IF wk.outcome = "SUCCEEDED" THEN wk.got ELSE "none"
    BY <2>1, CommitType DEF TypeOK
  <2>3. status[wk.key] # "SUCCEEDED"
    BY <2>1 DEF KnownInv, AtWork, ExecutePcs, Claiming
  <2>4. status'[wk.key] = "SUCCEEDED" =>
          /\ command[wk.key] = "passed"
          /\ payload'[wk.key] = "all" \/ Refused(wk.key, "output")
          /\ remote[wk.key] = "gone" \/ Severed(wk.key) \/ Refused(wk.key, "root")
          /\ ~Refused(wk.key, "cleanup")
    BY <2>1, <2>2, <2>3 DEF EarnedInv, Earned
  <2> QED
    BY <2>1, <2>2, <2>4 DEF BoardSuccessGate, Severed, Refused
<1>6. CASE ~Special
  <2>1. /\ wk.key \in Tasks /\ status[wk.key] # "SUCCEEDED" /\ UNCHANGED <<status, payload>>
        /\ \A k \in Tasks \ {wk.key} : /\ session'[k] = session[k] /\ remote'[k] = remote[k]
                                       /\ command'[k] = command[k] /\ refused'[k] = refused[k]
    BY <1>6, <1>a, QuietStep DEF Quiet, AtWork, KnownInv
  <2> QED
    BY <2>1 DEF BoardSuccessGate, Severed, Refused
<1> QED
  BY <1>2, <1>3, <1>4, <1>5, <1>6 DEF Special

(* A task leaves the worker with its workspace removed.                    *)
LEMMA RemovedWork ==
    ASSUME TypeOK, WorkInv, WorkspaceIsRemoved, ~KeepRemote, Work PROVE WorkspaceIsRemoved'
<1> USE DEF At, db, board
<1>1. CASE ~Special
  <2>1. /\ wk.pc \in ExecutePcs /\ wk'.pc \in ExecutePcs /\ wk'.key = wk.key
        /\ \A k \in Tasks \ {wk.key} : /\ session'[k] = session[k] /\ remote'[k] = remote[k]
                                       /\ command'[k] = command[k] /\ refused'[k] = refused[k]
    BY <1>1, QuietStep DEF Quiet, AtWork
  <2> QED
    BY <2>1 DEF WorkspaceIsRemoved, Executing, Severed, Refused
<1>2. CASE Special
  <2>1. UNCHANGED <<session, remote, command, refused>>
    <3>1. CASE Get
      BY <3>1 DEF Get, trouble
    <3>2. CASE ~Get
      BY <1>2, <3>2, SpecialSteps, RefusedStays DEF Special
    <3> QED
      BY <3>1, <3>2
  <2>2. CASE Done
    <3>1. Removed(wk.key)
      BY <2>2 DEF Done, WorkInv, AfterWork
    <3> QED
      BY <2>1, <3>1 DEF WorkspaceIsRemoved, Executing, Severed, Removed, Refused
  <2>3. CASE ~Done
    <3>1. wk.pc \in ExecutePcs => wk'.pc \in ExecutePcs /\ wk'.key = wk.key
      <4>1. CASE Get \/ TakeStop
        BY <4>1, IdleTypes DEF Get, TakeStop
      <4>2. CASE ClaimLoad \/ Claim \/ PhaseLoad \/ Phase \/ FinishLoad \/ Finish
        BY <4>2, SpecialSteps DEF ExecutePcs, GatewayPcs
      <4> QED
        BY <1>2, <2>3, <4>1, <4>2 DEF Special
    <3> QED
      BY <2>1, <3>1 DEF WorkspaceIsRemoved, Executing, Severed, Refused
  <2> QED
    BY <2>2, <2>3
<1> QED
  BY <1>1, <1>2

(* What the others do to the board does not matter either.                 *)
LEMMA GatesElsewhere ==
    ASSUME TypeOK, BoardSuccessGate, WorkspaceIsRemoved, wk' = wk,
           UNCHANGED <<payload, remote, refused>>, \A k \in Tasks : Around(k)
    PROVE  BoardSuccessGate' /\ WorkspaceIsRemoved'
<1>1. \A k \in Tasks : Severed(k) => Severed(k)'
  BY DEF Around, Severed, Open
<1>2. \A k \in Tasks : status'[k] = "SUCCEEDED" => status[k] = "SUCCEEDED"
  BY DEF Around, Absent
<1>3. \A k \in Tasks : command[k] \in {"passed", "abandoned"} => command'[k] = command[k]
  BY DEF Around
<1>4. BoardSuccessGate'
  BY <1>1, <1>2, <1>3 DEF BoardSuccessGate, Refused
<1>5. WorkspaceIsRemoved'
  BY <1>1, <1>3 DEF WorkspaceIsRemoved, Executing, Refused
<1> QED
  BY <1>4, <1>5

(* A restart cuts the connections that are open, and only then gives up a  *)
(* workspace that is in use.                                               *)
LEMMA GatesRestart ==
    ASSUME TypeOK, UnusedInv, Known, BoardSuccessGate, WorkspaceIsRemoved, ~KeepRemote, Restart
    PROVE  BoardSuccessGate' /\ WorkspaceIsRemoved'
<1>1. \A k \in Tasks : Severed(k) \/ Open(k) => Severed(k)'
  BY DEF Restart, Severed, Open
<1>2. \A k \in Tasks : status'[k] = "SUCCEEDED" => status[k] = "SUCCEEDED"
  BY DEF Restart, Interrupted
<1>3. UNCHANGED <<payload, remote, command, refused>>
  BY DEF Restart
<1>4. BoardSuccessGate'
  BY <1>1, <1>2, <1>3 DEF BoardSuccessGate, Refused
<1>5. \A k \in Tasks : Executing(k) /\ remote[k] = "present" =>
                         \/ Severed(k) \/ Open(k) \/ command[k] = "abandoned"
                         \/ Refused(k, "root") \/ Refused(k, "cleanup")
  BY DEF Known, WorkInv, AfterWork, Removed, UnusedInv, Unused, Claiming, Executing, ExecutePcs,
         Severed, Open
<1>6. WorkspaceIsRemoved'
  BY <1>1, <1>3, <1>5 DEF WorkspaceIsRemoved, Refused
<1> QED
  BY <1>4, <1>6

----------------------------------------------------------------------------
(* The invariant is inductive                                              *)

LEMMA InvInit == Init => Inv
<1> SUFFICES ASSUME Init PROVE Inv
  OBVIOUS
<1>1. TypeOK /\ QueueInv /\ KnownInv /\ StatusInv /\ UnusedInv
  BY TypeInit, QueueInit, StatusInit, UnusedInit
<1>2. WorkInv /\ EarnedInv
  BY IdleKnows, IdleTypes DEF Init, Known
<1>3. BoardSuccessGate
  BY DEF Init, BoardSuccessGate, Absent
<1>4. WorkspaceIsRemoved
  BY DEF Init, WorkspaceIsRemoved
<1> QED
  BY <1>1, <1>2, <1>3, <1>4 DEF Inv

LEMMA InvNext == Inv /\ [Next]_taskVars => Inv'
<1> SUFFICES ASSUME Inv, [Next]_taskVars PROVE Inv'
  OBVIOUS
<1>i. /\ TypeOK /\ QueueInv /\ KnownInv /\ StatusInv /\ UnusedInv
      /\ ~KeepRemote => Known /\ WorkInv /\ EarnedInv /\ BoardSuccessGate /\ WorkspaceIsRemoved
  BY DEF Inv, Known
<1>1. CASE Work
  <2>1. TypeOK' /\ QueueInv' /\ KnownInv' /\ StatusInv' /\ UnusedInv'
    BY <1>1, <1>i, TypeWork, QueueWork, StatusWork, UnusedWork
  <2>2. ~KeepRemote => Known' /\ BoardSuccessGate' /\ WorkspaceIsRemoved'
    BY <1>1, <1>i, KnownWork, GateWork, RemovedWork
  <2> QED
    BY <2>1, <2>2 DEF Inv, Known
<1>2. CASE Handle \/ Surroundings \/ Stop \/ \E k \in Tasks : Submit(k) \/ CancelLoad(k)
  <2>1. TypeOK' /\ QueueInv' /\ KnownInv' /\ StatusInv' /\ UnusedInv'
    BY <1>2, <1>i, TypeElsewhere, QueueElsewhere, StatusElsewhere, UnusedElsewhere
  <2>2. wk' = wk /\ UNCHANGED <<payload, remote, refused>> /\ \A k \in Tasks : Around(k)
    BY <1>2, <1>i, AroundStep
  <2>3. ~KeepRemote => Known' /\ BoardSuccessGate' /\ WorkspaceIsRemoved'
    BY <1>i, <2>2, KnownElsewhere, GatesElsewhere
  <2> QED
    BY <2>1, <2>3 DEF Inv, Known
<1>3. CASE Restart
  <2>1. IsFiniteSet({k \in Tasks : status[k] = "QUEUED"})
    BY <1>i, QueuedAreFew DEF KnownInv
  <2>2. TypeOK' /\ QueueInv' /\ KnownInv' /\ StatusInv' /\ UnusedInv'
    BY <1>3, <1>i, <2>1, TypeRestart, QueueRestart, StatusRestart, UnusedRestart
  <2>3. wk'.pc \notin ExecutePcs
    BY <1>3, IdleTypes DEF Restart
  <2>4. Known'
    BY <2>3 DEF Known, WorkInv, EarnedInv, During, Cleaning, AfterWork, At, ExecutePcs, GatewayPcs
  <2>5. ~KeepRemote => BoardSuccessGate' /\ WorkspaceIsRemoved'
    BY <1>3, <1>i, GatesRestart
  <2> QED
    BY <2>2, <2>4, <2>5 DEF Inv, Known
<1>4. CASE UNCHANGED taskVars
  <2>1. TypeOK' /\ QueueInv' /\ KnownInv' /\ StatusInv'
    BY <1>4, <1>i DEF taskVars, TypeOK, QueueInv, KnownInv, StatusInv, QueuedIsRemembered, InQueue,
       At, Executing
  <2>2. UnusedInv'
    BY <1>4, <1>i DEF taskVars, UnusedInv, Unused, InQueue
  <2>3. ~KeepRemote => WorkInv' /\ EarnedInv'
    BY <1>4, <1>i DEF taskVars, WorkInv, EarnedInv, Earned, During, Cleaning, Removed, Severed,
       Refused, At
  <2>4. ~KeepRemote => BoardSuccessGate' /\ WorkspaceIsRemoved'
    BY <1>4, <1>i DEF taskVars, BoardSuccessGate, WorkspaceIsRemoved, Severed, Refused, Executing
  <2> QED
    BY <2>1, <2>2, <2>3, <2>4 DEF Inv
<1> QED
  BY <1>1, <1>2, <1>3, <1>4 DEF Next

LEMMA InvHolds == Spec => []Inv
<1>1. Init => Inv
  BY InvInit
<1>2. Inv /\ [Next]_taskVars => Inv'
  BY InvNext
<1> QED
  BY <1>1, <1>2, PTL DEF Spec

----------------------------------------------------------------------------
(* The results                                                             *)

(* What BoardRepository stores, and the local variables of the worker and  *)
(* of the handler, keep their types; the worker names a task wherever      *)
(* BoardService.execute uses one.                                          *)
THEOREM TasksTypes == Spec => []TypeOK
<1>1. Inv => TypeOK
  BY DEF Inv
<1> QED
  BY <1>1, InvHolds, PTL

(* BoardService.execute finishes a task as SUCCEEDED only when its program *)
(* exited with 0, _download_tree was refused no listing that it took for   *)
(* an empty directory, and BoardGateway.execute removed the workspace, had *)
(* its listing refused or lost the connection on the way; a cleanup_error  *)
(* never ends in a success.                                                *)
THEOREM SuccessIsGated == Spec => []BoardSuccessGate
<1>1. Inv => BoardSuccessGate
  BY DEF Inv, BoardSuccessGate
<1> QED
  BY <1>1, InvHolds, PTL

(* The finally block of BoardGateway.execute leaves a workspace on the     *)
(* board only behind a connection that was cut, a program that was given   *)
(* up or a request of the cleanup that was refused.                        *)
THEOREM WorkspaceGoes == Spec => []WorkspaceIsRemoved
<1>1. Inv => WorkspaceIsRemoved
  BY DEF Inv, WorkspaceIsRemoved
<1> QED
  BY <1>1, InvHolds, PTL

(* A task whose row is QUEUED is in BoardOrchestrator._pending, whatever   *)
(* was cancelled, stopped or restarted meanwhile: it will be executed.     *)
THEOREM QueuedIsPending == Spec => []QueuedIsRemembered
<1>1. Inv => QueuedIsRemembered
  BY DEF Inv, KnownInv
<1> QED
  BY <1>1, InvHolds, PTL

(* An active row that nobody cancelled is that of the task the worker      *)
(* executes: interrupt_active and the end of execute leave no other one.   *)
THEOREM ActiveIsAtWork == Spec => []ActiveIsExecuting
<1>1. Inv => ActiveIsExecuting
  BY DEF Inv, StatusInv, ActiveIsExecuting
<1> QED
  BY <1>1, InvHolds, PTL

(* No step changes the row of an ended task unless a cancellation of it    *)
(* was requested, then or before: claim_board_run, set_board_phase and     *)
(* finish commit over a snapshot, and it is never a stale one of any other *)
(* task.                                                                   *)
THEOREM EndsStay == Spec => ReopenedOnlyByCancel
<1> DEFINE Stays == \A k \in Tasks : status[k] \in TerminalStatuses /\ status'[k] # status[k]
                                       => k \in cancels'
<1>1. Inv /\ [Next]_taskVars => [Stays]_taskVars
  <2> SUFFICES ASSUME Inv, Next PROVE Stays
    OBVIOUS
  <2>i. TypeOK /\ KnownInv /\ StatusInv
    BY DEF Inv
  <2>1. CASE UNCHANGED status
    BY <2>1
  <2>2. CASE Claim \/ Phase \/ Finish
    <3>1. /\ wk.pc \in {"claim", "phase", "finish"} /\ wk.key \in Tasks /\ UNCHANGED cancels
          /\ \E new : Commit(wk.key, wk.seen, new)
      BY <2>2, <2>i, SpecialSteps DEF TypeOK, ExecutePcs, GatewayPcs, At
    <3>2. \A k \in Tasks : k # wk.key => status'[k] = status[k]
      BY <3>1, <2>i DEF Commit, TypeOK
    <3>3. wk.key \notin cancels => status[wk.key] \notin TerminalStatuses
      BY <3>1, <2>i, StatusKinds DEF StatusInv, AtWork, Claiming, ExecutePcs, GatewayPcs
    <3> QED
      BY <3>1, <3>2, <3>3
  <2>3. CASE Work
    <3>1. CASE ~Special
      BY <3>1, <2>1, <2>3, <2>i, QuietStep DEF Quiet, db
    <3>2. CASE Get \/ TakeStop \/ Done \/ ClaimLoad \/ PhaseLoad \/ FinishLoad
      BY <3>2, <2>1, <2>i, SpecialSteps DEF Get, db
    <3> QED
      BY <2>2, <3>1, <3>2 DEF Special
  <2>4. CASE CancelCommit
    <3>1. api.key \in Tasks /\ cancels' = cancels \cup {api.key} /\
          \A k \in Tasks : k # api.key => status'[k] = status[k]
      BY <2>4, <2>i DEF CancelCommit, Commit, ApiAt, TypeOK
    <3> QED
      BY <3>1
  <2>5. ASSUME NEW k \in Tasks, Submit(k) PROVE Stays
    <3>1. status[k] = Absent /\ \A j \in Tasks : j # k => status'[j] = status[j]
      BY <2>5, <2>i DEF Submit, Create, TypeOK
    <3> QED
      BY <3>1, StatusKinds
  <2>6. CASE Signal \/ Close \/ Surroundings \/ Stop \/ \E k \in Tasks : CancelLoad(k)
    BY <2>1, <2>6 DEF Signal, Close, Surroundings, CommandEnds, ConnectionLost, Stop, CancelLoad, db
  <2>7. CASE Restart
    BY <2>7, <2>i, StatusKinds DEF Restart, Interrupted, TypeOK
  <2> QED
    BY <2>3, <2>4, <2>5, <2>6, <2>7 DEF Next, Handle
<1> QED
  BY <1>1, InvHolds, PTL DEF Spec, ReopenedOnlyByCancel
=============================================================================
