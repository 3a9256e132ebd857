--------------------------- MODULE RunRepository ---------------------------
(***************************************************************************)
(* The two status columns that the run repository moves together, the      *)
(* status of a ConversionRun and the status of one of its Attempts, and    *)
(* what each repository transaction does to them.                          *)
(*                                                                         *)
(* The session factory opens no transaction for a SELECT and the tables    *)
(* have no version column, so every repository operation is a snapshot     *)
(* ("seen") followed, later, by a commit that writes the columns whose new *)
(* value differs from the snapshot: another thread may commit in between   *)
(* and its write is lost or kept column by column.                         *)
(***************************************************************************)

EXTENDS OrmSession

CONSTANT Stages     \* statuses a step_started event can give a running attempt

TerminalStatuses == {"SUCCEEDED", "FAILED", "CANCELLED", "INTERRUPTED"}

ActiveStatuses == {"PROVISIONING", "RUNNING", "CANCELLING"} \cup Stages

RetryableStatuses == {"FAILED", "CANCELLED", "INTERRUPTED"}

Statuses == {"QUEUED"} \cup ActiveStatuses \cup TerminalStatuses

(* The row of a run, or of an attempt, that was not created yet.           *)
Absent == "ABSENT"

Columns == Statuses \cup {Absent}

StagesAssumption == /\ "QUEUED" \notin Stages
                    /\ Absent \notin Stages
                    /\ Stages \cap TerminalStatuses = {}

ASSUME StagesAreWorkingStatuses == StagesAssumption

(* A snapshot of the pair of columns that _load_pair returns.              *)
Pair == [run : Columns, row : Columns]

----------------------------------------------------------------------------
(* queued, active: the run and the attempt must both say so.               *)
IsQueued(pair) == pair.run = "QUEUED" /\ pair.row = "QUEUED"

IsActive(pair) == pair.run \in ActiveStatuses /\ pair.row \in ActiveStatuses

(* claim_queued: the worker takes an attempt that nothing else has moved.  *)
CanClaim(seen) == IsQueued(seen)

(* set_running and set_stage: neither touches a run that is finished or    *)
(* being cancelled.                                                        *)
CanProgress(seen) ==
    {seen.run, seen.row} \cap (TerminalStatuses \cup {"CANCELLING"}) = {}

(* request_cancel: refused for a finished run, immediate for a queued one, *)
(* a request to the worker otherwise.                                      *)
CanCancel(seen) == seen.run \notin TerminalStatuses

(* Slip: a status no table lists.                                          *)
CancelTargetMisspelt(seen) == IF IsQueued(seen) THEN "CANCELED" ELSE "CANCELLING"

CancelTarget(seen) == IF IsQueued(seen) THEN "CANCELLED" ELSE "CANCELLING"

(* is_cancel_requested: the run's status or the attempt's time stamp.      *)
CancelRequested(runStatus, requested) ==
    runStatus \in {"CANCELLING", "CANCELLED"} \/ requested

(* retry: a finished run that did not succeed.                             *)
CanRetry(runStatus) == runStatus \in RetryableStatuses

=============================================================================
