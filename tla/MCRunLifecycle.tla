--------------------------- MODULE MCRunLifecycle ---------------------------
(***************************************************************************)
(* Instances of RunLifecycle for TLC.                                      *)
(***************************************************************************)
EXTENDS RunLifecycle, TLC

CONSTANTS r1, r2, m1

(* Two conversion runs, which compete for the worker.                      *)
TwoConversions == [r \in {r1, r2} |-> NoModel]

(* One conversion run, to be retried.                                      *)
OneConversion == [r \in {r1} |-> NoModel]

(* One inspection run, to be retried.                                      *)
OneInspection == [r \in {r1} |-> m1]

RunSymmetry == Permutations({r1, r2})

=============================================================================
