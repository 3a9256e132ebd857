-------------------------- MODULE BoardRepository --------------------------
(***************************************************************************)
(* The status of a board run, and what each repository transaction does to *)
(* it. Every transaction writes the phase column together with the status  *)
(* and with the same value, so that one column stands for both. As for     *)
(* conversion runs, a transaction is a snapshot and a later commit.        *)
(***************************************************************************)
EXTENDS OrmSession

TerminalStatuses == {"SUCCEEDED", "FAILED", "CANCELLED", "INTERRUPTED"}

Phases == {"CONNECTING", "UPLOADING", "RUNNING", "COLLECTING", "CLEANING"}

ActiveStatuses == Phases \cup {"CANCELLING"}

Absent == "ABSENT"

Statuses == {Absent, "QUEUED"} \cup ActiveStatuses \cup TerminalStatuses

(* claim_board_run: only a queued task.                                    *)
CanClaim(seen) == seen = "QUEUED"

(* set_board_phase: a finished or a cancelled task keeps its status.       *)
PhaseTarget(seen, phase) ==
    IF seen \in TerminalStatuses \cup {"CANCELLING"} THEN seen ELSE phase

(* request_cancel: refused for a finished task, immediate for a queued one.*)
CanCancel(seen) == seen \notin TerminalStatuses \cup {Absent}

(* Slip: a status no table lists.                                          *)
CancelTargetMisspelt(seen) == IF seen = "QUEUED" THEN "CANCELED" ELSE "CANCELLING"

CancelTarget(seen) == IF seen = "QUEUED" THEN "CANCELLED" ELSE "CANCELLING"

(* What blocks the edition and the deletion of a device.                   *)
Blocking == ActiveStatuses \cup {"QUEUED"}

(* Slip: a status is missing from the list.                                *)
InterruptedPhases(status) ==
    IF status \in ActiveStatuses \ {"CONNECTING"} THEN "INTERRUPTED" ELSE status

(* Slip: whatever is not queued or succeeded counts as active.             *)
InterruptedOthers(status) ==
    IF status \notin {Absent, "QUEUED", "SUCCEEDED"} THEN "INTERRUPTED" ELSE status

(* interrupt_active: what a restart makes of a status.                     *)
Interrupted(status) == IF status \in ActiveStatuses THEN "INTERRUPTED" ELSE status

=============================================================================
