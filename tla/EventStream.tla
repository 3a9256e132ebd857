---------------------------- MODULE EventStream ----------------------------
(***************************************************************************)
(* The event stream of an attempt (GET .../attempts/{attempt}/events): the *)
(* API server follows the file that the Runner appends to, sends what the  *)
(* client has not seen, and ends the stream some time after the run has    *)
(* reached a terminal status. The log stream is the same loop over another *)
(* file. The stream breaks and is resumed after the last event received.   *)
(***************************************************************************)
EXTENDS Runner

CONSTANTS
    Watched,            \* bound: the requests whose stream the client opens
    MaxConnections      \* bound on the connections of the client

ASSUME StreamAssumption == Watched \subseteq Offers /\ MaxConnections \in Nat \ {0}

VARIABLES
    status,       \* the run's: active or terminal
    due,          \* history: how many events there were when it became terminal
    stream,       \* the generator that serves the connection
    got,          \* the sequence numbers the client has received
    ended,        \* the client has received the terminal event
    connections

streamVars == <<status, due, stream, got, ended, connections>>
vars == <<runnerVars, streamVars>>

(* upto: how far the file went when it was read; seen: the last sequence   *)
(* number sent; emitted: something was sent in this round; idle:           *)
(* terminal_idle_rounds.                                                   *)
Closed == [pc |-> "closed", upto |-> 0, seen |-> 0, emitted |-> FALSE, idle |-> 0]

StreamInit ==
    /\ Init
    /\ status = "active" /\ due = 0
    /\ stream = Closed /\ got = <<>> /\ ended = FALSE /\ connections = 0

----------------------------------------------------------------------------
(* The run                                                                 *)

EndRun == status' = "terminal" /\ due' = Len(events)
          /\ UNCHANGED <<runnerVars, stream, got, ended, connections>>

(* The controller has seen the container end.                              *)
Finish == status = "active" /\ exit # "none" /\ EndRun

(* A cancellation over a stale snapshot ends the run while the container   *)
(* is still there (RunLifecycle).                                          *)
FinishEarly == status = "active" /\ exit = "none" /\ pc # "start" /\ EndRun

----------------------------------------------------------------------------
(* The stream                                                              *)

Connect ==
    /\ connections < MaxConnections /\ ~ended
    /\ connections' = connections + 1
    /\ stream' = [Closed EXCEPT !.pc = "read", !.seen = IF got = <<>> THEN 0 ELSE Last(got)]
    /\ UNCHANGED <<runnerVars, status, due, got, ended>>

Open   == connections = 0 /\ offer \in Watched /\ Connect
Resume == connections > 0 /\ stream = Closed /\ Connect

(* The events among the first n lines of the file. A line that is no event *)
(* is skipped.                                                             *)
Whole(n) == {i \in 1..n : events[i].whole}

(* Those of the lines that were read which the client has not seen.        *)
Unseen == {i \in Whole(stream.upto) : i > stream.seen}

(* The whole file is read at once; a line that is being written is not     *)
(* there yet.                                                              *)
Read ==
    /\ stream.pc = "read"
    /\ stream' = [stream EXCEPT !.pc = "send", !.upto = Len(events), !.emitted = FALSE]
    /\ UNCHANGED <<runnerVars, status, due, got, ended, connections>>

(* Its lines are sent one by one.                                          *)
Send ==
    /\ stream.pc = "send"
    /\ \E next \in Unseen :
         /\ \A i \in Unseen : next <= i
         /\ got' = Append(got, next)
         /\ stream' = [stream EXCEPT !.seen = next, !.emitted = TRUE]
    /\ UNCHANGED <<runnerVars, status, due, ended, connections>>

(* Slip: the first idle round of a run that is over ends the stream.       *)
AskAtOnce ==
    /\ stream.pc = "send" /\ Unseen = {}
    /\ IF status = "terminal" /\ ~stream.emitted
       THEN ended' = TRUE /\ stream' = Closed
       ELSE ended' = ended /\ stream' = [stream EXCEPT !.pc = "read"]
    /\ UNCHANGED <<runnerVars, status, due, got, connections>>

(* The run's status is read after the file: a second idle round shows that *)
(* nothing was written between the two.                                    *)
Ask ==
    /\ stream.pc = "send" /\ Unseen = {}
    /\ LET idle == IF status # "terminal" THEN stream.idle
                   ELSE IF stream.emitted THEN 0 ELSE stream.idle + 1
       IN  IF idle >= 2
           THEN ended' = TRUE /\ stream' = Closed
           ELSE ended' = ended /\ stream' = [stream EXCEPT !.pc = "read", !.idle = idle]
    /\ UNCHANGED <<runnerVars, status, due, got, connections>>

(* The connection is lost. What is sent after that is lost with it.        *)
Break ==
    /\ stream # Closed /\ connections < MaxConnections
    /\ stream' = Closed
    /\ UNCHANGED <<runnerVars, status, due, got, ended, connections>>

Stream == Read \/ Send \/ Ask

Next == \/ RunnerNext /\ UNCHANGED streamVars
        \/ Finish \/ FinishEarly
        \/ Open \/ Resume \/ Stream \/ Break

(* The Runner's process and the generator are scheduled, the controller    *)
(* finishes an attempt whose container has ended, and the browser resumes  *)
(* a stream that broke. Nothing makes the tool end or the client connect.  *)
Fairness == /\ WF_vars(Process /\ UNCHANGED streamVars)
            /\ WF_vars(Finish) /\ WF_vars(Stream) /\ WF_vars(Resume)

Spec == StreamInit /\ [][Next]_vars /\ Fairness

----------------------------------------------------------------------------
(* Properties                                                              *)

(* A result that says succeeded (main.py:346-360) is backed: every tool of *)
(* the pipeline has exited with 0, every step is in it, and the manifest   *)
(* beside it lists only files that are there, the required ones among      *)
(* them. The process exits with 0 only after such a result, and then the   *)
(* last event says so.                                                     *)
ResultIsBacked ==
    /\ result = "succeeded" =>
         /\ ToolSteps \cap Range(Pipeline(offer)) \subseteq passed
         /\ done = Range(Pipeline(offer))
         /\ manifest # Missing
         /\ Required \subseteq manifest /\ manifest \subseteq files
    /\ exit = "zero" => result = "succeeded" /\ Last(events).type = "runner_completed"

(* A request that the controller has accepted against the inspected model  *)
(* and the finalised calibration set (normalize_configuration) does not    *)
(* fail in the container over what was known then: not on the              *)
(* configuration, not on the number or the shapes of the samples, not on   *)
(* the inputs of the verification. A picture may still be too small for    *)
(* the crop, but only if the user chose a resize_short below its longer    *)
(* side.                                                                   *)
AcceptedIsRunnable ==
    /\ error \notin {"CONFIG_INVALID", "CALIBRATION_INVALID_SAMPLE", "CALIBRATION_NPY_INVALID",
                     "VERIFICATION_INPUT_INVALID"}
    /\ error = "CALIBRATION_PREPROCESS_FAILED" =>
         offer.short # NotGiven /\ offer.short < Max({Configuration.crop[i] : i \in {1, 2}})

(* Over all its connections the client receives every event once and in    *)
(* order; when it is told that the run is over (routes.py:874-880) it has  *)
(* every event that had been written by the time the run was over.         *)
StreamIsComplete ==
    /\ \A i, j \in DOMAIN got : i < j => got[i] < got[j]
    /\ Range(got) = IF got = <<>> THEN {} ELSE Whole(Last(got))
    /\ ended => Whole(due) \subseteq Range(got)

(* A stream that was opened ends: the container ends even when its tool    *)
(* does not (the timeout of _run_command), and the client is told.         *)
StreamEnds == stream.pc = "read" ~> ended

=============================================================================
