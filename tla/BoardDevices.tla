---------------------------- MODULE BoardDevices ----------------------------
(***************************************************************************)
(* A device, its credential, the probes of it and the board tasks that are *)
(* submitted to it. A submission reads the device, awaits the upload of    *)
(* its input and only then creates the task; a probe awaits its thread; an *)
(* edition replaces the credential file before the database accepts it.    *)
(***************************************************************************)
EXTENDS BoardTasks, FiniteSets

CONSTANTS
    Connections,   \* what a device record can point at: platform, host, port, user
                   \* and host key, each with the credential that opens it
    Nowhere,
    MaxEdits       \* bound on the requests that create, edit or delete the device

ASSUME DevicesAssumption == Nowhere \notin Connections /\ MaxEdits \in Nat

VARIABLES
    device,     \* the Device row: connection, status and probe_result
    store,      \* the credential in the secret store, by the connection it opens
    probe,      \* what the probe in flight was told: connection and credential
    snapshot,   \* the device a submission read: BoardRun.device_snapshot
    edit,       \* local variables of the handler that creates or edits the device
    edits,      \* creations, editions and deletions so far
    races       \* requests that overlapped an edition, or were cut by a restart

deviceVars == <<device, store, probe, snapshot, edit, edits, races>>
vars == <<taskVars, deviceVars>>

NoDevice  == [conn |-> Nowhere, state |-> "UNVERIFIED", probed |-> Nowhere]
NoProbe   == [conn |-> Nowhere, cred |-> Nowhere]
NoEdit    == [step |-> "none", conn |-> Nowhere, previous |-> Nowhere]

DevicesInit ==
    /\ Init
    /\ device = NoDevice /\ store = Nowhere
    /\ probe = NoProbe
    /\ snapshot = [k \in Tasks |-> Nowhere]
    /\ edit = NoEdit
    /\ edits = 0 /\ races = {}

----------------------------------------------------------------------------
(* Devices                                                                 *)

Exists == device.conn # Nowhere

(* Slip: queued tasks are not active.                                      *)
BusyIfActive == \E k \in Tasks : status[k] \in ActiveStatuses

(* What update_device and delete_device look at.                           *)
Busy == \E k \in Tasks : status[k] \in Blocking

(* Slip: requests are served while the controller stops.                   *)
ServingAlways == ApiAt("idle")

(* The loop is between two handlers and accepts requests.                  *)
Serving == ApiAt("idle") /\ ~stopping

Step(s) == ApiAt("device") /\ edit.step = s

Begin(local) ==
    /\ edits < MaxEdits /\ edits' = edits + 1
    /\ api' = [ApiIdle EXCEPT !.pc = "device"]
    /\ edit' = local

Reply == api' = ApiIdle /\ edit' = NoEdit /\ UNCHANGED edits

DevicesOnly == UNCHANGED <<db, memory, board, wk, trouble>>

CreatePut(c) ==
    /\ Serving /\ device = NoDevice /\ store = Nowhere
    /\ store' = c
    /\ Begin([step |-> "create", conn |-> c, previous |-> Nowhere])
    /\ DevicesOnly /\ UNCHANGED <<device, probe, snapshot, races>>

CreateCommit ==
    /\ Step("create")
    /\ device' = [NoDevice EXCEPT !.conn = edit.conn]
    /\ Reply
    /\ DevicesOnly /\ UNCHANGED <<store, probe, snapshot, races>>

(* update: the new credential is in place before the database is asked.    *)
EditPut(c) ==
    /\ Serving /\ Exists /\ c # device.conn
    /\ store' = c
    /\ Begin([step |-> "edit", conn |-> c, previous |-> store])
    /\ DevicesOnly /\ UNCHANGED <<device, probe, snapshot, races>>

(* Slip: the status of an edited device is kept.                           *)
EditKeepsStatus ==
    /\ Step("edit") /\ ~Busy
    /\ device' = [device EXCEPT !.conn = edit.conn]
    /\ Reply
    /\ DevicesOnly /\ UNCHANGED <<store, probe, snapshot, races>>

EditCommit ==
    /\ Step("edit") /\ ~Busy
    /\ device' = [NoDevice EXCEPT !.conn = edit.conn]
    /\ Reply
    /\ DevicesOnly /\ UNCHANGED <<store, probe, snapshot, races>>

(* Slip: the refusal leaves the new credential in place.                   *)
EditRefusedOnly ==
    /\ Step("edit") /\ Busy
    /\ Reply
    /\ DevicesOnly /\ UNCHANGED <<device, store, probe, snapshot, races>>

EditRefused ==
    /\ Step("edit") /\ Busy
    /\ store' = edit.previous
    /\ Reply
    /\ DevicesOnly /\ UNCHANGED <<device, probe, snapshot, races>>

DeleteCommit ==
    /\ Serving /\ Exists /\ ~Busy
    /\ device' = NoDevice
    /\ Begin([NoEdit EXCEPT !.step = "delete"])
    /\ DevicesOnly /\ UNCHANGED <<store, probe, snapshot, races>>

DeleteCredential ==
    /\ Step("delete")
    /\ store' = Nowhere
    /\ Reply
    /\ DevicesOnly /\ UNCHANGED <<device, probe, snapshot, races>>

(* probe_async: the row and the credential are read here, the exchange is  *)
(* a thread's.                                                             *)
ProbeStart ==
    /\ Serving /\ Exists /\ probe = NoProbe
    /\ probe' = [conn |-> device.conn, cred |-> store]
    /\ DevicesOnly /\ UNCHANGED <<api, device, store, snapshot, edit, edits, races>>

(* The board the probe was sent to is of the platform the probe was told.  *)
ProbeSucceeds ==
    /\ Serving /\ probe # NoProbe /\ probe.cred = probe.conn
    /\ device' = IF Exists THEN [device EXCEPT !.state = "READY", !.probed = probe.conn]
                 ELSE device
    /\ races' = IF Exists /\ device.conn # probe.conn THEN races \cup {"probe"} ELSE races
    /\ probe' = NoProbe
    /\ DevicesOnly /\ UNCHANGED <<api, store, snapshot, edit, edits>>

(* A failure keeps the earlier probe_result.                               *)
ProbeFails ==
    /\ Serving /\ probe # NoProbe
    /\ device' = IF Exists THEN [device EXCEPT !.state = "ERROR"] ELSE device
    /\ probe' = NoProbe
    /\ DevicesOnly /\ UNCHANGED <<api, store, snapshot, edit, edits, races>>

Devices ==
    \/ \E c \in Connections : CreatePut(c) \/ EditPut(c)
    \/ DeleteCommit
    \/ ProbeStart \/ ProbeSucceeds \/ ProbeFails

DeviceHandle ==
    CreateCommit \/ EditCommit \/ EditRefused \/ DeleteCredential

----------------------------------------------------------------------------
(* Tasks on the device                                                     *)

Uploading(k) == snapshot[k] # Nowhere /\ status[k] = Absent

(* BoardService.submit up to its first await.                              *)
SubmitRead(k) ==
    /\ Serving /\ status[k] = Absent /\ ~Uploading(k)
    /\ Exists /\ device.state = "READY"
    /\ snapshot' = [snapshot EXCEPT ![k] = device.conn]
    /\ UNCHANGED <<taskVars, device, store, probe, edit, edits, races>>

(* The input is there: the row is created, if its device still is.         *)
SubmitCreate(k) ==
    /\ Serving /\ Uploading(k) /\ Exists
    /\ Create(k) /\ UNCHANGED api
    /\ races' = IF device.conn # snapshot[k] THEN races \cup {"submit"} ELSE races
    /\ UNCHANGED <<device, store, probe, snapshot, edit, edits>>

(* The upload is cut off or refused, or the foreign key is.                *)
SubmitFails(k) ==
    /\ Serving /\ Uploading(k)
    /\ snapshot' = [snapshot EXCEPT ![k] = Nowhere]
    /\ UNCHANGED <<taskVars, device, store, probe, edit, edits, races>>

(* execute connects to the host of the snapshot, with the credential of    *)
(* the moment.                                                             *)
CanConnect == Exists /\ store = snapshot[wk.key]

DeviceConnect == Connect /\ CanConnect /\ UNCHANGED deviceVars

DeviceWork == DeviceConnect \/ ((Execute \/ ConnectFails) /\ UNCHANGED deviceVars)

Loop == (Handle /\ UNCHANGED deviceVars) \/ DeviceHandle

(* Uploads and probes end with the process, and so does the handler.       *)
DeviceRestart ==
    /\ Restart
    /\ probe' = NoProbe /\ edit' = NoEdit
    /\ snapshot' = [k \in Tasks |-> IF Uploading(k) THEN Nowhere ELSE snapshot[k]]
    /\ races' = IF ApiAt("device")
                THEN races \cup {"credential"} ELSE races
    /\ UNCHANGED <<device, store, edits>>

DevicesNext ==
    \/ DeviceWork \/ Loop
    \/ \E k \in Tasks : SubmitRead(k) \/ SubmitCreate(k) \/ SubmitFails(k)
    \/ \E k \in Tasks : CancelLoad(k) /\ UNCHANGED deviceVars
    \/ Stop /\ UNCHANGED deviceVars
    \/ Devices
    \/ Surroundings /\ UNCHANGED deviceVars
    \/ DeviceRestart

DevicesSpec == DevicesInit /\ [][DevicesNext]_vars

----------------------------------------------------------------------------
(* Properties                                                              *)

(* The component BoardTasks knows nothing of the handlers about devices.    *)
TheTasks == INSTANCE BoardTasks WITH
    api <- IF ApiAt("device") THEN ApiIdle ELSE api

Places == Connections \cup {Nowhere}

EditType == [step : {"none", "create", "edit", "delete"}, conn : Places, previous : Places]

(* Every column, file and local variable has one of its values.            *)
DevicesTypeOK ==
    /\ TheTasks!TypeOK
    /\ api.pc = "device" <=> edit.step # "none"
    /\ edits \in 0..MaxEdits
    /\ device \in [conn : Places, state : {"UNVERIFIED", "READY", "ERROR"}, probed : Places]
    /\ store \in Places /\ probe \in [conn : Places, cred : Places]
    /\ snapshot \in [Tasks -> Places] /\ edit \in EditType
    /\ races \subseteq {"probe", "submit", "credential"}

(* What the component promises of its tasks it keeps with devices that are *)
(* created, edited, probed and deleted under them.                         *)
ImplementsTasks == TheTasks!Spec

(* Progress: both threads are scheduled, a controller that was stopped is  *)
(* started again, and transfers end (paramiko's have no timeout). Nothing  *)
(* is assumed of the program on the board: the loop has its own timeout.   *)
Fairness ==
    /\ WF_vars(DeviceWork) /\ WF_vars(Loop)
    /\ WF_vars(stopping /\ DeviceRestart)

FairSpec == DevicesSpec /\ Fairness

(* A queued task ends, or a cancellation that lost its race holds it in    *)
(* CANCELLING.                                                             *)
QueuedTaskEnds ==
    \A k \in Tasks :
        status[k] = "QUEUED" ~> \/ status[k] \in TerminalStatuses
                                \/ status[k] = "CANCELLING" /\ k \in cancels

(* A device is READY only for the connection its last successful probe     *)
(* was about, unless a probe was overtaken by an edition of the device.    *)
ReadyIsProbed ==
    device.state = "READY" /\ "probe" \notin races => device.probed = device.conn

(* The host a task will connect to is the one its device record shows as   *)
(* long as the task is not over, nobody cancelled it and no submission     *)
(* was overtaken by an edition.                                            *)
TaskFitsDevice ==
    "submit" \notin races =>
        \A k \in Tasks : status[k] \in Blocking /\ k \notin cancels =>
            snapshot[k] = device.conn

(* Between two handlers the secret store holds the credential of the       *)
(* device record, or nothing, unless a restart cut an edition in two.      *)
CredentialFits ==
    ApiAt("idle") /\ "credential" \notin races => store = device.conn

=============================================================================
