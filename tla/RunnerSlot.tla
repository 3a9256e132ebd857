----------------------------- MODULE RunnerSlot -----------------------------
(***************************************************************************)
(* What the run orchestrator promises, without its threads, its database,  *)
(* its queue, its failures and its restarts: attempts get the runner slots *)
(* of the host in some order, at most once each, and success is shown only *)
(* for an attempt whose runner passed.                                     *)
(***************************************************************************)
EXTENDS Naturals, FiniteSets

CONSTANTS
    Jobs,      \* attempts, of all runs
    Slots      \* how many of them may execute at a time

VARIABLES
    phase,     \* of each attempt: waiting, running or over
    passed,    \* attempts whose runner passed
    shown      \* attempts the users see as succeeded

slotVars == <<phase, passed, shown>>

Init ==
    /\ phase = [a \in Jobs |-> "waiting"]
    /\ passed = {} /\ shown = {}

Free == Cardinality({a \in Jobs : phase[a] = "running"}) < Slots

Start(a) ==
    /\ Free /\ phase[a] = "waiting"
    /\ phase' = [phase EXCEPT ![a] = "running"]
    /\ UNCHANGED <<passed, shown>>

End(a) ==
    /\ phase[a] = "running"
    /\ phase' = [phase EXCEPT ![a] = "over"]
    /\ passed' = passed \/ passed' = passed \cup {a}
    /\ UNCHANGED shown

(* An attempt that is cancelled, or lost, before its runner starts.        *)
Discard(a) ==
    /\ phase[a] = "waiting"
    /\ phase' = [phase EXCEPT ![a] = "over"]
    /\ UNCHANGED <<passed, shown>>

Show(a) ==
    /\ phase[a] = "over" /\ a \in passed
    /\ shown' = shown \cup {a}
    /\ UNCHANGED <<phase, passed>>

(* A cancellation that arrives late.                                       *)
Withdraw(a) ==
    /\ shown' = shown \ {a}
    /\ UNCHANGED <<phase, passed>>

Next ==
    \E a \in Jobs : Start(a) \/ End(a) \/ Discard(a) \/ Show(a) \/ Withdraw(a)

Spec == Init /\ [][Next]_slotVars

=============================================================================
