-------------------------- MODULE BoardDevicesProofs --------------------------
(***************************************************************************)
(* BoardDevices implements BoardTasks, so that what BoardTasksProofs shows *)
(* of the tasks is known here, and the device, its credential, its probe   *)
(* and its tasks agree, for every set of tasks and connections and every   *)
(* number of requests and restarts.                                        *)
(***************************************************************************)
EXTENDS BoardDevices, TLAPS

USE TasksAssumption, DevicesAssumption

----------------------------------------------------------------------------
(* The tasks                                                               *)

(* The handler on the event loop, as the tasks see it.                     *)
Idle == IF ApiAt("device") THEN ApiIdle ELSE api

P == INSTANCE BoardTasksProofs WITH api <- Idle

(* A handler that is over has left nothing behind.                         *)
ApiRests == ApiAt("idle") => api = ApiIdle

LEMMA ApiIdleIsIdle == ApiIdle.pc = "idle"
BY DEF ApiIdle

(* Both instances bring operators of the library with them.                *)
LEMMA SameSequences ==
    \A S : TheTasks!SetToSeqs(S) = SetToSeqs(S) /\ P!SetToSeqs(S) = SetToSeqs(S)
<1>1. \A S : TheTasks!Cardinality(S) = Cardinality(S) /\ P!Cardinality(S) = Cardinality(S)
  BY Zenon DEF TheTasks!Cardinality, P!Cardinality, Cardinality
<1> QED
  BY <1>1 DEF TheTasks!SetToSeqs, P!SetToSeqs, SetToSeqs

(* The steps of the worker, which are the same ones there.                *)
LEMMA WorkMaps ==
    /\ Get => TheTasks!Get /\ P!Get
    /\ ClaimLoad => TheTasks!ClaimLoad /\ P!ClaimLoad
    /\ Claim => TheTasks!Claim /\ P!Claim
    /\ Connect => TheTasks!Connect /\ P!Connect
    /\ ConnectFails => TheTasks!ConnectFails /\ P!ConnectFails
    /\ Guard => TheTasks!Guard /\ P!Guard
    /\ PhaseLoad => TheTasks!PhaseLoad /\ P!PhaseLoad
    /\ Phase => TheTasks!Phase /\ P!Phase
    /\ PhaseFails => TheTasks!PhaseFails /\ P!PhaseFails
    /\ Upload => TheTasks!Upload /\ P!Upload
    /\ UploadFails => TheTasks!UploadFails /\ P!UploadFails
    /\ RunCommand => TheTasks!RunCommand /\ P!RunCommand
    /\ RunFails => TheTasks!RunFails /\ P!RunFails
    /\ CommandPassed => TheTasks!CommandPassed /\ P!CommandPassed
    /\ CommandFailed => TheTasks!CommandFailed /\ P!CommandFailed
    /\ Abandon => TheTasks!Abandon /\ P!Abandon
    /\ Collect => TheTasks!Collect /\ P!Collect
    /\ CollectFails => TheTasks!CollectFails /\ P!CollectFails
    /\ CleanOpen => TheTasks!CleanOpen /\ P!CleanOpen
    /\ CleanOpenFails => TheTasks!CleanOpenFails /\ P!CleanOpenFails
    /\ CleanTree => TheTasks!CleanTree /\ P!CleanTree
    /\ CleanTreeFails => TheTasks!CleanTreeFails /\ P!CleanTreeFails
    /\ CleanTreeUnseen => TheTasks!CleanTreeUnseen /\ P!CleanTreeUnseen
    /\ Release => TheTasks!Release /\ P!Release
    /\ Outcome => TheTasks!Outcome /\ P!Outcome
    /\ FinishLoad => TheTasks!FinishLoad /\ P!FinishLoad
    /\ Finish => TheTasks!Finish /\ P!Finish
    /\ Done => TheTasks!Done /\ P!Done
    /\ TakeStop => TheTasks!TakeStop /\ P!TakeStop
<1> USE DEF db, TheTasks!db, P!db, memory, TheTasks!memory, P!memory, board, TheTasks!board,
           P!board, trouble, TheTasks!trouble, P!trouble, At, TheTasks!At, P!At, ApiAt,
           TheTasks!ApiAt, P!ApiAt, Goto, TheTasks!Goto, P!Goto, Idle
<1>1. Get => TheTasks!Get /\ P!Get
  BY DEF Get, TheTasks!Get, P!Get
<1>2. ClaimLoad => TheTasks!ClaimLoad /\ P!ClaimLoad
  BY DEF ClaimLoad, TheTasks!ClaimLoad, P!ClaimLoad, CanClaim, TheTasks!CanClaim, P!CanClaim
<1>3. Claim => TheTasks!Claim /\ P!Claim
  BY DEF Claim, TheTasks!Claim, P!Claim, Absent, TheTasks!Absent, P!Absent, Commit,
         TheTasks!Commit, P!Commit, Flush, TheTasks!Flush, P!Flush, Return, TheTasks!Return,
         P!Return
<1>4. Connect => TheTasks!Connect /\ P!Connect
  BY DEF Connect, TheTasks!Connect, P!Connect
<1>5. ConnectFails => TheTasks!ConnectFails /\ P!ConnectFails
  BY DEF ConnectFails, TheTasks!ConnectFails, P!ConnectFails
<1>6. Guard => TheTasks!Guard /\ P!Guard
  BY DEF Guard, TheTasks!Guard, P!Guard, Finally, TheTasks!Finally, P!Finally, SetPhase,
         TheTasks!SetPhase, P!SetPhase
<1>7. PhaseLoad => TheTasks!PhaseLoad /\ P!PhaseLoad
  BY DEF PhaseLoad, TheTasks!PhaseLoad, P!PhaseLoad
<1>8. Phase => TheTasks!Phase /\ P!Phase
  BY DEF Phase, TheTasks!Phase, P!Phase, Absent, TheTasks!Absent, P!Absent, AfterPhase,
         TheTasks!AfterPhase, P!AfterPhase, Commit, TheTasks!Commit, P!Commit, Flush,
         TheTasks!Flush, P!Flush, PhaseTarget, TheTasks!PhaseTarget, P!PhaseTarget, Return,
         TheTasks!Return, P!Return, TerminalStatuses, TheTasks!TerminalStatuses,
         P!TerminalStatuses
<1>9. Upload => TheTasks!Upload /\ P!Upload
  BY DEF Upload, TheTasks!Upload, P!Upload, Open, TheTasks!Open, P!Open, SetPhase,
         TheTasks!SetPhase, P!SetPhase
<1>10. UploadFails => TheTasks!UploadFails /\ P!UploadFails
  BY DEF UploadFails, TheTasks!UploadFails, P!UploadFails, Finally, TheTasks!Finally, P!Finally
<1>11. RunCommand => TheTasks!RunCommand /\ P!RunCommand
  BY DEF RunCommand, TheTasks!RunCommand, P!RunCommand, Open, TheTasks!Open, P!Open
<1>12. CommandPassed => TheTasks!CommandPassed /\ P!CommandPassed
  BY DEF CommandPassed, TheTasks!CommandPassed, P!CommandPassed, SetPhase, TheTasks!SetPhase,
         P!SetPhase
<1>13. CommandFailed => TheTasks!CommandFailed /\ P!CommandFailed
  BY DEF CommandFailed, TheTasks!CommandFailed, P!CommandFailed, Finally, TheTasks!Finally,
         P!Finally, Severed, TheTasks!Severed, P!Severed
<1>14. Abandon => TheTasks!Abandon /\ P!Abandon
  BY DEF Abandon, TheTasks!Abandon, P!Abandon, Finally, TheTasks!Finally, P!Finally
<1>15. Collect => TheTasks!Collect /\ P!Collect
  BY DEF Collect, TheTasks!Collect, P!Collect, Collected, TheTasks!Collected, P!Collected, Fails,
         TheTasks!Fails, P!Fails, Refuse, TheTasks!Refuse, P!Refuse, Open, TheTasks!Open, P!Open,
         Severed, TheTasks!Severed, P!Severed
<1>16. CollectFails => TheTasks!CollectFails /\ P!CollectFails
  BY DEF CollectFails, TheTasks!CollectFails, P!CollectFails, Finally, TheTasks!Finally,
         P!Finally
<1>17. CleanOpen => TheTasks!CleanOpen /\ P!CleanOpen
  BY DEF CleanOpen, TheTasks!CleanOpen, P!CleanOpen, Open, TheTasks!Open, P!Open
<1>18. CleanTree => TheTasks!CleanTree /\ P!CleanTree
  BY DEF CleanTree, TheTasks!CleanTree, P!CleanTree, Open, TheTasks!Open, P!Open
<1>19. CleanTreeFails => TheTasks!CleanTreeFails /\ P!CleanTreeFails
  BY DEF CleanTreeFails, TheTasks!CleanTreeFails, P!CleanTreeFails, Fails, TheTasks!Fails,
         P!Fails, Refuse, TheTasks!Refuse, P!Refuse, Open, TheTasks!Open, P!Open, Severed,
         TheTasks!Severed, P!Severed
<1>20. Release => TheTasks!Release /\ P!Release
  BY DEF Release, TheTasks!Release, P!Release
<1>21. Outcome => TheTasks!Outcome /\ P!Outcome
  BY DEF Outcome, TheTasks!Outcome, P!Outcome, OutcomeOf, TheTasks!OutcomeOf, P!OutcomeOf
<1>22. FinishLoad => TheTasks!FinishLoad /\ P!FinishLoad
  BY DEF FinishLoad, TheTasks!FinishLoad, P!FinishLoad
<1>23. Finish => TheTasks!Finish /\ P!Finish
  BY DEF Finish, TheTasks!Finish, P!Finish, Absent, TheTasks!Absent, P!Absent, Commit,
         TheTasks!Commit, P!Commit, Flush, TheTasks!Flush, P!Flush, Return, TheTasks!Return,
         P!Return
<1>24. Done => TheTasks!Done /\ P!Done
  BY DEF Done, TheTasks!Done, P!Done, Absent, TheTasks!Absent, P!Absent, WorkerIdle,
         TheTasks!WorkerIdle, P!WorkerIdle
<1>25. TakeStop => TheTasks!TakeStop /\ P!TakeStop
  BY DEF TakeStop, TheTasks!TakeStop, P!TakeStop
<1>26. PhaseFails => TheTasks!PhaseFails /\ P!PhaseFails
  BY DEF PhaseFails, TheTasks!PhaseFails, P!PhaseFails, Finally, TheTasks!Finally, P!Finally,
         Refuse, TheTasks!Refuse, P!Refuse
<1>27. RunFails => TheTasks!RunFails /\ P!RunFails
  BY DEF RunFails, TheTasks!RunFails, P!RunFails, Finally, TheTasks!Finally, P!Finally
<1>28. CleanOpenFails => TheTasks!CleanOpenFails /\ P!CleanOpenFails
  BY DEF CleanOpenFails, TheTasks!CleanOpenFails, P!CleanOpenFails, Fails, TheTasks!Fails,
         P!Fails, Refuse, TheTasks!Refuse, P!Refuse, Open, TheTasks!Open, P!Open, Severed,
         TheTasks!Severed, P!Severed
<1>29. CleanTreeUnseen => TheTasks!CleanTreeUnseen /\ P!CleanTreeUnseen
  BY DEF CleanTreeUnseen, TheTasks!CleanTreeUnseen, P!CleanTreeUnseen, Fails, TheTasks!Fails,
         P!Fails, Refuse, TheTasks!Refuse, P!Refuse, Open, TheTasks!Open, P!Open, Severed,
         TheTasks!Severed, P!Severed
<1> QED
  BY <1>1, <1>2, <1>3, <1>4, <1>5, <1>6, <1>7, <1>8, <1>9, <1>10, <1>11, <1>12, <1>13, <1>14,
     <1>15, <1>16, <1>17, <1>18, <1>19, <1>20, <1>21, <1>22, <1>23, <1>24, <1>25, <1>26, <1>27,
     <1>28, <1>29

(* Those of the handlers about tasks.                                      *)
LEMMA HandleMaps ==
    /\ CancelCommit => TheTasks!CancelCommit /\ P!CancelCommit
    /\ Signal => TheTasks!Signal /\ P!Signal
    /\ Close => TheTasks!Close /\ P!Close
    /\ Stop => TheTasks!Stop /\ P!Stop
<1> USE DEF db, TheTasks!db, P!db, memory, TheTasks!memory, P!memory, board, TheTasks!board,
           P!board, trouble, TheTasks!trouble, P!trouble, At, TheTasks!At, P!At, ApiAt,
           TheTasks!ApiAt, P!ApiAt, Goto, TheTasks!Goto, P!Goto, Idle
<1>1. CancelCommit => TheTasks!CancelCommit /\ P!CancelCommit
  BY DEF CancelCommit, TheTasks!CancelCommit, P!CancelCommit, Absent, TheTasks!Absent, P!Absent,
         ApiIdle, TheTasks!ApiIdle, P!ApiIdle, CancelTarget, TheTasks!CancelTarget,
         P!CancelTarget, Commit, TheTasks!Commit, P!Commit, Flush, TheTasks!Flush, P!Flush
<1>2. Signal => TheTasks!Signal /\ P!Signal
  BY DEF Signal, TheTasks!Signal, P!Signal, Absent, TheTasks!Absent, P!Absent, ApiIdle,
         TheTasks!ApiIdle, P!ApiIdle, GatewayPcs, TheTasks!GatewayPcs, P!GatewayPcs, Registered,
         TheTasks!Registered, P!Registered
<1>3. Close => TheTasks!Close /\ P!Close
  BY DEF Close, TheTasks!Close, P!Close, Absent, TheTasks!Absent, P!Absent, ApiIdle,
         TheTasks!ApiIdle, P!ApiIdle
<1>4. Stop => TheTasks!Stop /\ P!Stop
  BY DEF Stop, TheTasks!Stop, P!Stop, Absent, TheTasks!Absent, P!Absent, ApiIdle,
         TheTasks!ApiIdle, P!ApiIdle, ExecutePcs, TheTasks!ExecutePcs, P!ExecutePcs, GatewayPcs,
         TheTasks!GatewayPcs, P!GatewayPcs
<1> QED
  BY <1>1, <1>2, <1>3, <1>4

(* And those of the surroundings, for each task.                           *)
LEMMA TaskMaps ==
    ASSUME NEW k \in Tasks
    PROVE  /\ CommandEnds(k) => TheTasks!CommandEnds(k) /\ P!CommandEnds(k)
           /\ ConnectionLost(k) => TheTasks!ConnectionLost(k) /\ P!ConnectionLost(k)
           /\ CancelLoad(k) => TheTasks!CancelLoad(k) /\ P!CancelLoad(k)
           /\ Serving /\ Create(k) /\ UNCHANGED api => TheTasks!Submit(k) /\ P!Submit(k)
<1> USE DEF db, TheTasks!db, P!db, memory, TheTasks!memory, P!memory, board, TheTasks!board,
           P!board, trouble, TheTasks!trouble, P!trouble, ApiAt, TheTasks!ApiAt, P!ApiAt, Idle,
           Open, TheTasks!Open, P!Open, Absent, TheTasks!Absent, P!Absent, ApiIdle,
           TheTasks!ApiIdle, P!ApiIdle
<1>1. CommandEnds(k) => TheTasks!CommandEnds(k) /\ P!CommandEnds(k)
  BY DEF CommandEnds, TheTasks!CommandEnds, P!CommandEnds
<1>2. ConnectionLost(k) => TheTasks!ConnectionLost(k) /\ P!ConnectionLost(k)
  BY DEF ConnectionLost, TheTasks!ConnectionLost, P!ConnectionLost
<1>3. CancelLoad(k) => TheTasks!CancelLoad(k) /\ P!CancelLoad(k)
  BY DEF CancelLoad, TheTasks!CancelLoad, P!CancelLoad, CanCancel, TheTasks!CanCancel,
         P!CanCancel, TerminalStatuses, TheTasks!TerminalStatuses, P!TerminalStatuses
<1>4. Serving /\ Create(k) /\ UNCHANGED api => TheTasks!Submit(k) /\ P!Submit(k)
  BY DEF Serving, Create, TheTasks!Create, P!Create, TheTasks!Submit, P!Submit, Enqueue,
         TheTasks!Enqueue, P!Enqueue
<1> QED
  BY <1>1, <1>2, <1>3, <1>4

LEMMA RestartMaps == Restart => TheTasks!Restart /\ P!Restart
<1> USE SameSequences DEF Restart, Idle, Open, Interrupted, ActiveStatuses, Phases, WorkerIdle,
        ApiIdle, Absent, ApiAt
<1>1. Restart => TheTasks!Restart
  BY DEF TheTasks!Restart, TheTasks!Open, TheTasks!Interrupted, TheTasks!ActiveStatuses,
         TheTasks!Phases, TheTasks!WorkerIdle, TheTasks!ApiIdle, TheTasks!Absent
<1>2. Restart => P!Restart
  BY DEF P!Restart, P!Open, P!Interrupted, P!ActiveStatuses, P!Phases, P!WorkerIdle,
         P!ApiIdle, P!Absent
<1> QED
  BY <1>1, <1>2

(* A handler about devices begins and ends, and the tasks see nothing.     *)
LEMMA DevicesAreHidden ==
    ASSUME ApiRests, Devices \/ DeviceHandle
    PROVE  UNCHANGED <<db, memory, board, wk, trouble, Idle>>
<1>1. UNCHANGED <<db, memory, board, wk, trouble>>
  BY DEF Devices, DeviceHandle, CreatePut, EditPut, DeleteCommit, ProbeStart, ProbeSucceeds,
         ProbeFails, CreateCommit, EditCommit, EditRefused, DeleteCredential, DevicesOnly
<1>2. CASE UNCHANGED api
  BY <1>1, <1>2 DEF Idle, ApiAt
<1>3. CASE ApiAt("idle") /\ api' = [ApiIdle EXCEPT !.pc = "device"]
  BY <1>1, <1>3 DEF Idle, ApiAt, ApiRests, ApiIdle
<1>4. CASE ApiAt("device") /\ api' = ApiIdle
  BY <1>1, <1>4 DEF Idle, ApiAt, ApiIdle
<1> QED
  BY <1>2, <1>3, <1>4 DEF Devices, DeviceHandle, CreatePut, EditPut, DeleteCommit, ProbeStart,
     ProbeSucceeds, ProbeFails, CreateCommit, EditCommit, EditRefused, DeleteCredential, Begin,
     Reply, Serving, Step

(* Every step is one of the tasks, or none.                                *)
LEMMA TasksStep ==
    ASSUME ApiRests, [DevicesNext]_vars
    PROVE  [TheTasks!Next]_(TheTasks!taskVars) /\ [P!Next]_(P!taskVars)
<1> USE DEF TheTasks!Next, P!Next
<1>1. CASE Work
  BY <1>1, WorkMaps DEF Work, Execute, TheTasks!Work, TheTasks!Execute, P!Work, P!Execute
<1>2. CASE Handle \/ Stop
  BY <1>2, HandleMaps DEF Handle, TheTasks!Handle, P!Handle
<1>3. CASE Surroundings \/ \E k \in Tasks : CancelLoad(k) \/ SubmitCreate(k)
  BY <1>3, TaskMaps DEF Surroundings, TheTasks!Surroundings, P!Surroundings, SubmitCreate
<1>4. CASE Restart
  BY <1>4, RestartMaps
<1>5. CASE UNCHANGED <<db, memory, board, wk, trouble, Idle>>
  BY <1>5 DEF TheTasks!taskVars, P!taskVars, Idle, db, memory, board, trouble
<1>6. CASE Devices \/ DeviceHandle
  BY <1>5, <1>6, DevicesAreHidden
<1>7. CASE UNCHANGED taskVars
  BY <1>5, <1>7 DEF taskVars, Idle, db, memory, board, trouble, ApiAt
<1> QED
  BY <1>1, <1>2, <1>3, <1>4, <1>6, <1>7 DEF DevicesNext, DeviceWork, DeviceConnect, Work, Loop,
     SubmitRead, SubmitFails, DeviceRestart, vars

LEMMA TasksInit == ASSUME DevicesInit PROVE TheTasks!Init /\ P!Init
<1>1. Idle = ApiIdle
  BY DEF DevicesInit, Init, Idle
<1>2. TheTasks!Init
  BY <1>1 DEF DevicesInit, Init, TheTasks!Init, Idle, WorkerIdle, TheTasks!WorkerIdle, ApiIdle,
     TheTasks!ApiIdle, Absent, TheTasks!Absent
<1>3. P!Init
  BY <1>1 DEF DevicesInit, Init, P!Init, WorkerIdle, P!WorkerIdle, ApiIdle, P!ApiIdle, Absent,
     P!Absent
<1> QED
  BY <1>2, <1>3

----------------------------------------------------------------------------
(* What is known of the tasks                                              *)

(* The worker commits over an active status, or over a task that somebody  *)
(* cancelled, and the handlers of BoardTasks are known by their place.     *)
LEMMA TasksKnown ==
    ASSUME P!Inv
    PROVE  /\ status \in [Tasks -> Statuses]
           /\ wk.pc \in {"claim", "phase", "finish"} =>
                /\ wk.key \in Tasks /\ status[wk.key] # Absent
                /\ wk.key \notin cancels => status[wk.key] \in Blocking
           /\ Idle.pc \in {"idle", "cancel", "signal", "close"}
           /\ DOMAIN Idle = {"pc", "key", "seen"}
<1>1. P!TypeOK /\ P!KnownInv /\ P!StatusInv
  BY DEF P!Inv
<1>2. status \in [Tasks -> Statuses]
  BY <1>1 DEF P!TypeOK, P!Statuses, P!ActiveStatuses, P!Phases, P!TerminalStatuses, P!Absent,
     Statuses, ActiveStatuses, Phases, TerminalStatuses, Absent
<1>3. Idle.pc \in {"idle", "cancel", "signal", "close"} /\ DOMAIN Idle = {"pc", "key", "seen"}
  BY <1>1 DEF P!TypeOK, P!ApiType
<1>4. ASSUME wk.pc \in {"claim", "phase", "finish"}
      PROVE  /\ wk.key \in Tasks /\ status[wk.key] # Absent
             /\ wk.key \notin cancels => status[wk.key] \in Blocking
  <2>1. wk.key \in Tasks /\ status[wk.key] # Absent
    BY <1>1, <1>4 DEF P!TypeOK, P!KnownInv, P!ExecutePcs, P!GatewayPcs, P!Absent, Absent
  <2>2. wk.key \notin cancels => status[wk.key] \in {"QUEUED"} \cup P!ActiveStatuses
    BY <1>1, <1>4 DEF P!StatusInv, P!ExecutePcs, P!GatewayPcs, P!Claiming, P!AtWork
  <2> QED
    BY <2>1, <2>2 DEF P!ActiveStatuses, P!Phases, Blocking, ActiveStatuses, Phases
<1> QED
  BY <1>2, <1>3, <1>4

(* Unless it is cancelled, a task gets no new row and is not resumed.      *)
NoneRevives ==
    /\ cancels \subseteq cancels'
    /\ \A k \in Tasks \ cancels' : /\ status'[k] # Absent => status[k] # Absent
                                   /\ status'[k] \in Blocking => status[k] \in Blocking

(* The steps that belong to the tasks alone.                               *)
TasksOnly == \/ Work \/ Handle \/ Surroundings \/ Stop \/ (\E k \in Tasks : CancelLoad(k))

LEMMA TasksReviveNone == ASSUME P!Inv, TasksOnly PROVE NoneRevives
<1> USE DEF NoneRevives, db
<1>1. CASE UNCHANGED <<status, cancels>>
  BY <1>1
<1>2. CASE Claim \/ Phase \/ Finish
  <2>1. /\ wk.pc \in {"claim", "phase", "finish"} /\ cancels' = cancels
        /\ \E new : status' = [status EXCEPT ![wk.key] = new]
    BY <1>2 DEF Claim, Phase, Finish, Commit, At
  <2> QED
    BY <2>1, TasksKnown
<1>3. CASE CancelCommit
  <2>1. /\ cancels' = cancels \cup {api.key}
        /\ \E new : status' = [status EXCEPT ![api.key] = new]
    BY <1>3 DEF CancelCommit, Commit
  <2> QED
    BY <2>1, TasksKnown
<1>4. CASE Work /\ ~(Claim \/ Phase \/ Finish)
  BY <1>1, <1>4 DEF Work, Execute, Get, ClaimLoad, Connect, ConnectFails, Guard, PhaseLoad,
     PhaseFails, Upload, UploadFails, RunCommand, RunFails, CommandPassed, CommandFailed, Abandon,
     Collect, CollectFails, CleanOpen, CleanOpenFails, CleanTree, CleanTreeFails, CleanTreeUnseen,
     Release, Outcome, FinishLoad, Done, TakeStop
<1>5. CASE Signal \/ Close \/ Surroundings \/ Stop \/ \E k \in Tasks : CancelLoad(k)
  BY <1>1, <1>5 DEF Signal, Close, Surroundings, CommandEnds, ConnectionLost, Stop, CancelLoad
<1> QED
  BY <1>2, <1>3, <1>4, <1>5 DEF TasksOnly, Handle

(* None of them begins or ends a handler about devices.                    *)
LEMMA TasksLeaveDevices ==
    ASSUME P!Inv, ApiRests, TasksOnly
    PROVE  ApiRests' /\ (api'.pc = "device" <=> api.pc = "device")
<1> USE DEF ApiRests, ApiAt
<1>1. CASE UNCHANGED api
  BY <1>1
<1>2. CASE Handle
  <2>1. api.pc \in {"cancel", "signal", "close"} /\ Idle = api /\ DOMAIN api = {"pc", "key", "seen"}
    BY <1>2, TasksKnown DEF Handle, CancelCommit, Signal, Close, Idle
  <2> QED
    BY <1>2, <2>1, ApiIdleIsIdle DEF Handle, CancelCommit, Signal, Close
<1>3. CASE Stop \/ \E k \in Tasks : CancelLoad(k)
  BY <1>3, ApiIdleIsIdle DEF Stop, CancelLoad, ApiIdle
<1>4. CASE Work
  BY <1>1, <1>4 DEF Work, Execute, Get, ClaimLoad, Claim, Connect, ConnectFails, Guard, PhaseLoad,
     Phase, PhaseFails, Upload, UploadFails, RunCommand, RunFails, CommandPassed, CommandFailed,
     Abandon, Collect, CollectFails, CleanOpen, CleanOpenFails, CleanTree, CleanTreeFails,
     CleanTreeUnseen, Release, Outcome, FinishLoad, Finish, Done, TakeStop
<1>5. CASE Surroundings
  BY <1>1, <1>5 DEF Surroundings, CommandEnds, ConnectionLost
<1> QED
  BY <1>2, <1>3, <1>4, <1>5 DEF TasksOnly

----------------------------------------------------------------------------
(* The inductive invariant                                                 *)

DeviceTypes ==
    /\ api.pc = "device" <=> edit.step # "none"
    /\ edits \in 0..MaxEdits
    /\ device \in [conn : Places, state : {"UNVERIFIED", "READY", "ERROR"}, probed : Places]
    /\ store \in Places /\ probe \in [conn : Places, cred : Places]
    /\ snapshot \in [Tasks -> Places] /\ edit \in EditType
    /\ races \subseteq {"probe", "submit", "credential"}

(* What the credential is while a handler about devices is at work; a      *)
(* device is only created where there is none.                             *)
CredentialInv ==
    /\ Step("create") => device.conn = Nowhere
    /\ "credential" \notin races =>
         /\ api.pc # "device" => store = device.conn
         /\ Step("create") => store = edit.conn
         /\ Step("edit") => store = edit.conn /\ edit.previous = device.conn
         /\ Step("delete") => device.conn = Nowhere

(* A task has a snapshot from its submission on.                           *)
SnapshotInv ==
    /\ \A k \in Tasks \ cancels : status[k] # Absent => snapshot[k] # Nowhere
    /\ TaskFitsDevice

DevicesInv == ApiRests /\ DeviceTypes /\ CredentialInv /\ SnapshotInv /\ ReadyIsProbed

LEMMA DevicesInvInit == DevicesInit => DevicesInv
<1> SUFFICES ASSUME DevicesInit PROVE DevicesInv
  OBVIOUS
<1>1. DeviceTypes
  BY ApiIdleIsIdle DEF DevicesInit, Init, DeviceTypes, NoDevice, NoProbe, NoEdit, EditType, Places
<1>2. CredentialInv
  BY ApiIdleIsIdle DEF DevicesInit, Init, CredentialInv, Step, ApiAt, NoDevice
<1>3. SnapshotInv
  BY DEF DevicesInit, Init, SnapshotInv, TaskFitsDevice, Absent, Blocking, ActiveStatuses, Phases
<1>4. ReadyIsProbed
  BY DEF DevicesInit, ReadyIsProbed, NoDevice
<1>5. ApiRests
  BY DEF DevicesInit, Init, ApiRests
<1> QED
  BY <1>1, <1>2, <1>3, <1>4, <1>5 DEF DevicesInv

(* Steps of the tasks alone.                                               *)
LEMMA InvTasksOnly ==
    ASSUME P!Inv, DevicesInv, TasksOnly, UNCHANGED deviceVars PROVE DevicesInv'
<1>1. ApiRests' /\ (api'.pc = "device" <=> api.pc = "device")
  BY TasksLeaveDevices DEF DevicesInv
<1>2. UNCHANGED <<device, store, probe, snapshot, edit, edits, races>>
  BY DEF deviceVars
<1>3. DeviceTypes' /\ CredentialInv' /\ ReadyIsProbed'
  BY <1>1, <1>2 DEF DevicesInv, DeviceTypes, CredentialInv, ReadyIsProbed, Step, ApiAt
<1>4. SnapshotInv'
  <2>1. NoneRevives
    BY TasksReviveNone
  <2> QED
    BY <1>2, <2>1 DEF DevicesInv, SnapshotInv, TaskFitsDevice, NoneRevives
<1> QED
  BY <1>1, <1>3, <1>4 DEF DevicesInv

(* Requests about devices: what the tasks need of the new device.          *)
LEMMA SnapshotOfDevice ==
    ASSUME SnapshotInv, UNCHANGED <<status, cancels, snapshot, races>>,
           device'.conn = device.conn \/ ~Busy \/ device.conn = Nowhere
    PROVE  SnapshotInv'
<1>1. \A k \in Tasks : status[k] \in Blocking => status[k] # Absent
  BY DEF Blocking, ActiveStatuses, Phases, Absent
<1> QED
  BY <1>1 DEF SnapshotInv, TaskFitsDevice, Busy

(* Each request about the device, from its first step to its reply.        *)
LEMMA InvDevices ==
    ASSUME DevicesInv, Devices \/ DeviceHandle PROVE DevicesInv'
<1> USE DEF DevicesInv
<1>s. UNCHANGED <<status, cancels, snapshot>>
  BY DEF Devices, DeviceHandle, CreatePut, EditPut, DeleteCommit, ProbeStart, ProbeSucceeds,
         ProbeFails, CreateCommit, EditCommit, EditRefused, DeleteCredential, DevicesOnly, db
<1>t. /\ Nowhere \in Places /\ Connections \subseteq Places
      /\ \A c \in Connections : c # Nowhere
      /\ NoDevice = [conn |-> Nowhere, state |-> "UNVERIFIED", probed |-> Nowhere]
      /\ NoEdit = [step |-> "none", conn |-> Nowhere, previous |-> Nowhere]
  BY DEF Places, NoDevice, NoEdit
<1>b. ASSUME NEW local \in EditType, Begin(local), Serving, local.step # "none"
      PROVE  /\ ApiRests' /\ api'.pc = "device" /\ edit' = local /\ edits' \in 0..MaxEdits
             /\ api.pc = "idle"
  BY <1>b DEF Begin, Serving, ApiAt, ApiRests, ApiIdle, DeviceTypes
<1>r. ASSUME Reply, ApiAt("device")
      PROVE  /\ ApiRests' /\ api'.pc = "idle" /\ edit' = NoEdit /\ edits' = edits
  BY <1>r DEF Reply, ApiRests, ApiAt, ApiIdle
<1>1. ASSUME NEW c \in Connections, CreatePut(c) PROVE DevicesInv'
  <2> DEFINE local == [step |-> "create", conn |-> c, previous |-> Nowhere]
  <2>1. local \in EditType /\ local.step # "none"
    BY <1>t DEF EditType
  <2>2. /\ ApiRests' /\ api'.pc = "device" /\ edit' = local /\ edits' \in 0..MaxEdits
        /\ api.pc = "idle" /\ store' = c /\ device = NoDevice
        /\ UNCHANGED <<device, probe, snapshot, races>>
    BY <1>1, <1>b, <2>1 DEF CreatePut
  <2>3. DeviceTypes'
    BY <1>t, <2>1, <2>2 DEF DeviceTypes
  <2>4. CredentialInv'
    BY <1>t, <2>2 DEF CredentialInv, Step, ApiAt
  <2>5. SnapshotInv' /\ ReadyIsProbed'
    BY <1>s, <2>2, SnapshotOfDevice DEF ReadyIsProbed
  <2> QED
    BY <2>2, <2>3, <2>4, <2>5
<1>2. ASSUME NEW c \in Connections, EditPut(c) PROVE DevicesInv'
  <2> DEFINE local == [step |-> "edit", conn |-> c, previous |-> store]
  <2>1. local \in EditType /\ local.step # "none"
    BY <1>t DEF EditType, DeviceTypes
  <2>2. /\ ApiRests' /\ api'.pc = "device" /\ edit' = local /\ edits' \in 0..MaxEdits
        /\ api.pc = "idle" /\ store' = c
        /\ UNCHANGED <<device, probe, snapshot, races>>
    BY <1>2, <1>b, <2>1 DEF EditPut
  <2>3. DeviceTypes'
    BY <1>t, <2>1, <2>2 DEF DeviceTypes
  <2>4. CredentialInv'
    BY <2>2 DEF CredentialInv, Step, ApiAt
  <2>5. SnapshotInv' /\ ReadyIsProbed'
    BY <1>s, <2>2, SnapshotOfDevice DEF ReadyIsProbed
  <2> QED
    BY <2>2, <2>3, <2>4, <2>5
<1>3. CASE DeleteCommit
  <2> DEFINE local == [NoEdit EXCEPT !.step = "delete"]
  <2>1. local \in EditType /\ local.step # "none" /\ local.step = "delete"
    BY <1>t DEF EditType
  <2>2. /\ ApiRests' /\ api'.pc = "device" /\ edit' = local /\ edits' \in 0..MaxEdits
        /\ api.pc = "idle" /\ device' = NoDevice /\ ~Busy
        /\ UNCHANGED <<store, probe, snapshot, races>>
    BY <1>3, <1>b, <2>1 DEF DeleteCommit
  <2>3. DeviceTypes'
    BY <1>t, <2>1, <2>2 DEF DeviceTypes
  <2>4. CredentialInv'
    BY <1>t, <2>1, <2>2 DEF CredentialInv, Step, ApiAt
  <2>5. SnapshotInv' /\ ReadyIsProbed'
    BY <1>s, <1>t, <2>2, SnapshotOfDevice DEF ReadyIsProbed
  <2> QED
    BY <2>2, <2>3, <2>4, <2>5
<1>4. CASE ProbeStart
  <2>1. /\ probe' = [conn |-> device.conn, cred |-> store]
        /\ UNCHANGED <<api, device, store, snapshot, edit, edits, races>>
    BY <1>4 DEF ProbeStart
  <2>2. DeviceTypes'
    BY <2>1 DEF DeviceTypes
  <2>3. CredentialInv' /\ ApiRests' /\ ReadyIsProbed'
    BY <2>1 DEF CredentialInv, Step, ApiAt, ApiRests, ReadyIsProbed
  <2>4. SnapshotInv'
    BY <1>s, <2>1, SnapshotOfDevice
  <2> QED
    BY <2>2, <2>3, <2>4
<1>5. CASE ProbeSucceeds
  <2>1. /\ probe' = NoProbe /\ UNCHANGED <<api, store, snapshot, edit, edits>>
        /\ device' = IF Exists THEN [device EXCEPT !.state = "READY", !.probed = probe.conn]
                     ELSE device
        /\ races' = IF Exists /\ device.conn # probe.conn THEN races \cup {"probe"} ELSE races
    BY <1>5 DEF ProbeSucceeds
  <2>2. device'.conn = device.conn
    BY <2>1 DEF DeviceTypes
  <2>3. DeviceTypes'
    BY <1>t, <2>1 DEF DeviceTypes, NoProbe
  <2>4. CredentialInv' /\ ApiRests'
    BY <2>1, <2>2 DEF CredentialInv, Step, ApiAt, ApiRests
  <2>5. SnapshotInv'
    BY <1>s, <2>1, <2>2 DEF SnapshotInv, TaskFitsDevice
  <2>6. ReadyIsProbed'
    BY <2>1 DEF ReadyIsProbed, DeviceTypes
  <2> QED
    BY <2>3, <2>4, <2>5, <2>6
<1>6. CASE ProbeFails
  <2>1. /\ probe' = NoProbe /\ UNCHANGED <<api, store, snapshot, edit, edits, races>>
        /\ device' = IF Exists THEN [device EXCEPT !.state = "ERROR"] ELSE device
    BY <1>6 DEF ProbeFails
  <2>2. device'.conn = device.conn
    BY <2>1 DEF DeviceTypes
  <2>3. DeviceTypes'
    BY <1>t, <2>1 DEF DeviceTypes, NoProbe
  <2>4. CredentialInv' /\ ApiRests'
    BY <2>1, <2>2 DEF CredentialInv, Step, ApiAt, ApiRests
  <2>5. SnapshotInv'
    BY <1>s, <2>1, <2>2, SnapshotOfDevice
  <2>6. ReadyIsProbed'
    BY <2>1 DEF ReadyIsProbed, DeviceTypes
  <2> QED
    BY <2>3, <2>4, <2>5, <2>6
<1>7. CASE CreateCommit
  <2>1. /\ ApiRests' /\ api'.pc = "idle" /\ edit' = NoEdit /\ edits' = edits
        /\ Step("create") /\ device' = [NoDevice EXCEPT !.conn = edit.conn]
        /\ UNCHANGED <<store, probe, snapshot, races>>
    BY <1>7, <1>r DEF CreateCommit, Step
  <2>2. device'.conn = edit.conn /\ device'.state = "UNVERIFIED"
    BY <1>t, <2>1
  <2>3. DeviceTypes'
    BY <1>t, <2>1 DEF DeviceTypes, EditType
  <2>4. CredentialInv'
    BY <2>1, <2>2 DEF CredentialInv, Step, ApiAt
  <2>5. SnapshotInv' /\ ReadyIsProbed'
    BY <1>s, <2>1, <2>2, SnapshotOfDevice DEF ReadyIsProbed, CredentialInv
  <2> QED
    BY <2>1, <2>3, <2>4, <2>5
<1>8. CASE EditCommit
  <2>1. /\ ApiRests' /\ api'.pc = "idle" /\ edit' = NoEdit /\ edits' = edits
        /\ Step("edit") /\ device' = [NoDevice EXCEPT !.conn = edit.conn] /\ ~Busy
        /\ UNCHANGED <<store, probe, snapshot, races>>
    BY <1>8, <1>r DEF EditCommit, Step
  <2>2. device'.conn = edit.conn /\ device'.state = "UNVERIFIED"
    BY <1>t, <2>1
  <2>3. DeviceTypes'
    BY <1>t, <2>1 DEF DeviceTypes, EditType
  <2>4. CredentialInv'
    BY <2>1, <2>2 DEF CredentialInv, Step, ApiAt
  <2>5. SnapshotInv' /\ ReadyIsProbed'
    BY <1>s, <2>1, <2>2, SnapshotOfDevice DEF ReadyIsProbed
  <2> QED
    BY <2>1, <2>3, <2>4, <2>5
<1>9. CASE EditRefused \/ DeleteCredential
  <2>1. /\ ApiRests' /\ api'.pc = "idle" /\ edit' = NoEdit /\ edits' = edits
        /\ \/ Step("edit") /\ store' = edit.previous
           \/ Step("delete") /\ store' = Nowhere
        /\ UNCHANGED <<device, probe, snapshot, races>>
    BY <1>9, <1>r DEF EditRefused, DeleteCredential, Step
  <2>2. DeviceTypes'
    BY <1>t, <2>1 DEF DeviceTypes, EditType
  <2>3. CredentialInv'
    BY <2>1 DEF CredentialInv, Step, ApiAt
  <2>4. SnapshotInv' /\ ReadyIsProbed'
    BY <1>s, <2>1, SnapshotOfDevice DEF ReadyIsProbed
  <2> QED
    BY <2>1, <2>2, <2>3, <2>4
<1> QED
  BY <1>1, <1>2, <1>3, <1>4, <1>5, <1>6, <1>7, <1>8, <1>9 DEF Devices, DeviceHandle

(* A submission, before and after its upload.                              *)
LEMMA InvSubmission ==
    ASSUME P!Inv, DevicesInv, NEW k \in Tasks, SubmitRead(k) \/ SubmitCreate(k) \/ SubmitFails(k)
    PROVE  DevicesInv'
<1> USE DEF DevicesInv
<1>1. UNCHANGED <<api, device, store, probe, edit, edits, cancels>>
  BY DEF SubmitRead, SubmitCreate, SubmitFails, taskVars, Create
<1>2. status \in [Tasks -> Statuses] /\ snapshot \in [Tasks -> Places]
  BY TasksKnown DEF DeviceTypes
<1>3. CASE SubmitRead(k)
  <2>1. /\ status[k] = Absent /\ device.conn # Nowhere /\ device.conn \in Places
        /\ snapshot' = [snapshot EXCEPT ![k] = device.conn] /\ UNCHANGED <<status, races>>
    BY <1>3 DEF SubmitRead, taskVars, Exists, DeviceTypes
  <2> QED
    BY <1>1, <1>2, <2>1 DEF DeviceTypes, CredentialInv, SnapshotInv, TaskFitsDevice, ReadyIsProbed,
       ApiRests, Step, ApiAt
<1>4. CASE SubmitFails(k)
  <2>1. /\ status[k] = Absent /\ Nowhere \in Places /\ Absent \notin Blocking
        /\ snapshot' = [snapshot EXCEPT ![k] = Nowhere] /\ UNCHANGED <<status, races>>
    BY <1>4 DEF SubmitFails, Uploading, taskVars, Places, Absent, Blocking, ActiveStatuses, Phases
  <2> QED
    BY <1>1, <1>2, <2>1 DEF DeviceTypes, CredentialInv, SnapshotInv, TaskFitsDevice, ReadyIsProbed,
       ApiRests, Step, ApiAt
<1>5. CASE SubmitCreate(k)
  <2>1. /\ status' = [status EXCEPT ![k] = "QUEUED"] /\ snapshot[k] # Nowhere
        /\ races' = IF device.conn # snapshot[k] THEN races \cup {"submit"} ELSE races
        /\ snapshot' = snapshot
    BY <1>5 DEF SubmitCreate, Create, Uploading
  <2>2. DeviceTypes' /\ CredentialInv' /\ ReadyIsProbed' /\ ApiRests'
    BY <1>1, <2>1 DEF DeviceTypes, CredentialInv, ReadyIsProbed, ApiRests, Step, ApiAt
  <2>3. SnapshotInv'
    BY <1>1, <1>2, <2>1 DEF SnapshotInv, TaskFitsDevice
  <2> QED
    BY <2>2, <2>3
<1> QED
  BY <1>3, <1>4, <1>5

(* A restart may cut an edition in two, which is recorded.                 *)
LEMMA InvRestart == ASSUME P!Inv, DevicesInv, DeviceRestart PROVE DevicesInv'
<1> USE DEF DevicesInv
<1>1. /\ status \in [Tasks -> Statuses] /\ snapshot \in [Tasks -> Places]
      /\ NoProbe \in [conn : Places, cred : Places] /\ NoEdit \in EditType
      /\ NoEdit.step = "none" /\ Nowhere \in Places
  BY TasksKnown DEF DeviceTypes, NoProbe, NoEdit, EditType, Places
<1>2. /\ probe' = NoProbe /\ edit' = NoEdit /\ api' = ApiIdle /\ api'.pc = "idle"
      /\ races' = IF api.pc = "device" THEN races \cup {"credential"} ELSE races
      /\ UNCHANGED <<device, store, edits, cancels>>
  BY ApiIdleIsIdle DEF DeviceRestart, Restart, ApiAt
<1>3. DeviceTypes'
  <2>1. snapshot' \in [Tasks -> Places]
    BY <1>1 DEF DeviceRestart
  <2> QED
    BY <1>1, <1>2, <2>1 DEF DeviceTypes
<1>4. CredentialInv' /\ ReadyIsProbed' /\ ApiRests'
  BY <1>2 DEF CredentialInv, ReadyIsProbed, ApiRests, Step, ApiAt
<1>5. SnapshotInv'
  <2>1. \A k \in Tasks : /\ status'[k] # Absent => status[k] # Absent
                         /\ status'[k] \in Blocking => status[k] \in Blocking
                         /\ status[k] # Absent => snapshot'[k] = snapshot[k]
    <3>1. \A k \in Tasks : status'[k] = IF status[k] \in ActiveStatuses THEN "INTERRUPTED"
                                        ELSE status[k]
      BY DEF DeviceRestart, Restart, Interrupted
    <3>2. Absent \notin ActiveStatuses /\ "INTERRUPTED" \notin Blocking
      BY DEF Absent, Blocking, ActiveStatuses, Phases
    <3>3. \A k \in Tasks : status[k] # Absent => snapshot'[k] = snapshot[k]
      BY <1>1 DEF DeviceRestart, Uploading
    <3> QED
      BY <3>1, <3>2, <3>3 DEF Blocking
  <2>2. Absent \notin Blocking
    BY DEF Absent, Blocking, ActiveStatuses, Phases
  <2> QED
    BY <1>2, <2>1, <2>2 DEF SnapshotInv, TaskFitsDevice
<1> QED
  BY <1>3, <1>4, <1>5

LEMMA DevicesInvNext == P!Inv /\ DevicesInv /\ [DevicesNext]_vars => DevicesInv'
<1> SUFFICES ASSUME P!Inv, DevicesInv, [DevicesNext]_vars PROVE DevicesInv'
  OBVIOUS
<1>1. CASE TasksOnly /\ UNCHANGED deviceVars
  BY <1>1, InvTasksOnly
<1>2. CASE UNCHANGED vars
  <2>1. UNCHANGED <<status, cancels, api, device, store, probe, snapshot, edit, edits, races>>
    BY <1>2 DEF vars, taskVars, deviceVars
  <2> QED
    BY <2>1 DEF DevicesInv, DeviceTypes, CredentialInv, SnapshotInv, TaskFitsDevice, ReadyIsProbed,
       ApiRests, Step, ApiAt
<1> QED
  BY <1>1, <1>2, InvDevices, InvSubmission, InvRestart DEF DevicesNext, DeviceWork, DeviceConnect,
     Work, Loop, TasksOnly

----------------------------------------------------------------------------
(* The results                                                             *)

(* The tasks and their devices together.                                   *)
LEMMA AllHolds == DevicesSpec => [](P!Inv /\ DevicesInv)
<1>1. DevicesInit => P!Inv /\ DevicesInv
  BY TasksInit, P!InvInit, DevicesInvInit DEF P!InvInit
<1>2. P!Inv /\ DevicesInv /\ [DevicesNext]_vars => (P!Inv /\ DevicesInv)'
  <2> SUFFICES ASSUME P!Inv, DevicesInv, [DevicesNext]_vars PROVE P!Inv' /\ DevicesInv'
    OBVIOUS
  <2>1. [P!Next]_(P!taskVars)
    BY TasksStep DEF DevicesInv
  <2>2. P!Inv'
    BY <2>1, P!InvNext, TasksAssumption DEF P!InvNext
  <2> QED
    BY <2>2, DevicesInvNext
<1> QED
  BY <1>1, <1>2, PTL DEF DevicesSpec

(* Whatever is done to the device, its credential and its probes, the      *)
(* tasks of BoardService and BoardOrchestrator only do what BoardTasks     *)
(* lets them do.                                                           *)
THEOREM DevicesImplementTasks == DevicesSpec => ImplementsTasks
<1>1. DevicesInit => TheTasks!Init
  BY TasksInit
<1>2. DevicesInv /\ [DevicesNext]_vars => [TheTasks!Next]_(TheTasks!taskVars)
  BY TasksStep DEF DevicesInv
<1> QED
  BY <1>1, <1>2, AllHolds, PTL DEF DevicesSpec, ImplementsTasks, TheTasks!Spec

(* The device row, the credential, the probe and the handlers keep their   *)
(* types, and so do the tasks.                                             *)
THEOREM DevicesTypes == DevicesSpec => []DevicesTypeOK
<1>1. P!Inv => TheTasks!TypeOK
  BY DEF P!Inv, P!TypeOK, TheTasks!TypeOK, P!Statuses, TheTasks!Statuses, P!ActiveStatuses,
     TheTasks!ActiveStatuses, P!Phases, TheTasks!Phases, P!TerminalStatuses,
     TheTasks!TerminalStatuses, P!Absent, TheTasks!Absent, P!Payloads, TheTasks!Payloads,
     P!Refusals, TheTasks!Refusals, P!Ends, TheTasks!Ends, P!WorkerType, TheTasks!WorkerType,
     P!ApiType, TheTasks!ApiType, P!ExecutePcs, TheTasks!ExecutePcs, P!GatewayPcs,
     TheTasks!GatewayPcs, Idle
<1>2. TheTasks!TypeOK /\ DevicesInv => DevicesTypeOK
  BY DEF DevicesInv, DeviceTypes, DevicesTypeOK
<1> QED
  BY <1>1, <1>2, AllHolds, PTL

(* record_probe_success makes a device READY that shows another connection *)
(* than the probed one only when an edition overtook the probe.            *)
THEOREM ReadyWasProbed == DevicesSpec => []ReadyIsProbed
<1>1. DevicesInv => ReadyIsProbed
  BY DEF DevicesInv
<1> QED
  BY <1>1, AllHolds, PTL

(* update_device and delete_device refuse while a task blocks them, and    *)
(* this is enough: a task nobody cancelled connects to the device that is  *)
(* shown, unless its upload was overtaken (BoardService.submit).           *)
THEOREM TaskFits == DevicesSpec => []TaskFitsDevice
<1>1. DevicesInv => TaskFitsDevice
  BY DEF DevicesInv, SnapshotInv
<1> QED
  BY <1>1, AllHolds, PTL

(* A device update puts the credential back when the database refuses it,  *)
(* so that only a restart leaves a credential that is not the device's.    *)
THEOREM CredentialIsTheDevices == DevicesSpec => []CredentialFits
<1>1. DevicesInv => CredentialFits
  BY DEF DevicesInv, CredentialInv, CredentialFits, ApiAt
<1> QED
  BY <1>1, AllHolds, PTL
=============================================================================
