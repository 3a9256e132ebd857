---------------------------- MODULE MCBoardTasks ----------------------------
(***************************************************************************)
(* Instances of BoardTasks for TLC.                                        *)
(***************************************************************************)
EXTENDS BoardTasks, TLC

CONSTANTS k1, k2

TaskSymmetry == Permutations({k1, k2})

(* A fault and a restart in one behaviour are checked with one task, each  *)
(* of them alone with two.                                                 *)
TroubleBound == faults + crashes <= 1 \/ \E k \in Tasks : status[k] = Absent

=============================================================================
