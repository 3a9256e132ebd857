------------------------------- MODULE Runner -------------------------------
(***************************************************************************)
(* The runner: the process in the container of an attempt. It checks the   *)
(* request, runs the steps of its pipeline, most of them by a tool of the  *)
(* OpenExplorer SDK in a process of its own, appends its events to a file, *)
(* collects the artifacts and writes result.json. The controller may ask   *)
(* it to stop (SIGTERM) and kill it afterwards.                            *)
(*                                                                         *)
(* One action is one event, one step, one turn of the loop that watches    *)
(* a tool, or one file replaced.                                           *)
(***************************************************************************)
EXTENDS Requests

CONSTANTS
    Offers,     \* the requests the user may make: the records of Requests
    MaxFaults   \* bound on the writes that fail and the kills nobody asked for

ASSUME RunnerAssumption == MaxFaults \in Nat /\ \A o \in Offers : IsRequest(o)

VARIABLES
    offer,     \* the request, with what the conversion will find
    pc,
    todo,      \* steps of the pipeline that remain, the current one first
    done,      \* entries of result["steps"]
    tool,      \* the process of the current step
    passed,    \* history: the steps whose tool exited with 0
    files,     \* what the steps have written
    manifest,  \* artifact-manifest.json: the artifacts it lists, or Missing
    result,    \* result.json: its status, or none
    error,     \* the code of the exception
    events,    \* events.jsonl: one record per line
    exit,      \* the exit of the container's first process
    sigterm,   \* _cancel_requested
    faults

runnerVars == <<offer, pc, todo, done, tool, passed, files, manifest, result, error, events,
                exit, sigterm, faults>>
outputs == <<files, manifest, result>>
context == <<offer, sigterm>>

(* No manifest, as opposed to an empty one.                                *)
Missing == {"missing"}

Configuration == Normalized(offer)

Pipeline(o) ==
    CASE o.adapter = "probe"      -> <<"inspect", "check", "collect">>
      [] o.adapter = "inspection" -> <<"inspect", "collect">>
      [] o.adapter = "openexplorer" ->
           <<"inspect", "check", "preprocess", "compile">>
             \o (IF o.verify = "disabled" THEN <<>> ELSE <<"verify">>) \o <<"collect">>

(* The steps in which a tool runs, and the code of its failure.            *)
ToolSteps == {"check", "compile", "verify"}
ToolError == [check |-> "TOOL_CHECK_FAILED", compile |-> "TOOL_COMPILE_FAILED",
              verify |-> "TOOL_VERIFY_FAILED"]

(* What the controller submits: a conversion only with a configuration     *)
(* that it accepts.                                                        *)
Init ==
    /\ offer \in Offers /\ (offer.adapter = "openexplorer" => Accepted(offer))
    /\ pc = "start" /\ todo = Pipeline(offer) /\ done = {}
    /\ tool = "none" /\ passed = {}
    /\ files = {} /\ manifest = Missing /\ result = "none"
    /\ error = "none" /\ events = <<>> /\ exit = "none"
    /\ sigterm = FALSE /\ faults = 0

----------------------------------------------------------------------------
(* Helpers                                                                 *)

At(p) == pc = p /\ exit = "none"
Step == Head(todo)
Converts == offer.adapter = "openexplorer"

(* EventWriter.emit. A line that follows a torn one, or whose message      *)
(* contains a line separator that JSON leaves as it is, reads as none.     *)
Emit(step, type) == events' = Append(events, [step |-> step, type |-> type, whole |-> TRUE])

(* The probe has no errors of its own.                                     *)
Raise(code) ==
    /\ pc' = "handler"
    /\ error' = IF offer.adapter = "probe" /\ code # "RUNNER_CANCELLED" THEN "RUNNER_FAILED"
                ELSE code

----------------------------------------------------------------------------
(* The pipeline: execute_request and _run_step                             *)

(* The adapter checks the configuration again.                             *)
Start ==
    /\ At("start")
    /\ Emit("runner", "runner_started")
    /\ IF Converts /\ ~ValidConfiguration(Configuration)
       THEN Raise("CONFIG_INVALID")
       ELSE pc' = "begin" /\ UNCHANGED error
    /\ UNCHANGED <<context, todo, done, tool, passed, outputs, exit, faults>>

Begin ==
    /\ At("begin") /\ Step # "collect"
    /\ IF sigterm
       THEN Raise("RUNNER_CANCELLED") /\ UNCHANGED events
       ELSE pc' = "work" /\ Emit(Step, "step_started") /\ UNCHANGED error
    /\ UNCHANGED <<context, todo, done, tool, passed, outputs, exit, faults>>

(* inspect_onnx. The inspection adapter records blockers, a conversion     *)
(* ends on them.                                                           *)
Inspect ==
    /\ At("work") /\ Step = "inspect"
    /\ \/ /\ pc' = "end" /\ UNCHANGED error
          /\ files' = files \cup (IF offer.adapter = "probe" THEN {} ELSE {"inspection"})
       \/ Converts /\ Raise("MODEL_BLOCKED") /\ files' = files \cup {"inspection"}
       \/ Raise("MODEL_PARSE_FAILED") /\ UNCHANGED files
    /\ UNCHANGED <<context, todo, done, tool, passed, manifest, result, events, exit, faults>>

(* The loops over the samples look at the flag before each.                *)
Preprocess ==
    /\ At("work") /\ Step = "preprocess"
    /\ LET code == PreprocessError(Configuration, offer)
       IN  IF code = "none"
           THEN pc' = "end" /\ files' = files \cup {"calibration", "generated"}
                /\ UNCHANGED error
           ELSE Raise(code) /\ UNCHANGED files
    /\ UNCHANGED <<context, todo, done, tool, passed, manifest, result, events, exit, faults>>

(* A sample cannot be read as the picture or the array it claims to be.    *)
PreprocessFails ==
    /\ At("work") /\ Step = "preprocess"
    /\ Raise(IF sigterm THEN "RUNNER_CANCELLED" ELSE "SAMPLE_UNREADABLE")
    /\ files' \in {files, files \cup {"calibration"}}
    /\ UNCHANGED <<context, todo, done, tool, passed, manifest, result, events, exit, faults>>

(* What precedes the tool: the generated configuration, the models and     *)
(* inputs of the verification, and HBRuntime.                              *)
Ready(step) ==
    CASE step = "compile" -> IF "generated" \in files THEN "none" ELSE "CONFIG_INVALID"
      [] step = "verify"  -> IF "models" \notin files THEN "VERIFICATION_MODEL_MISSING"
                             ELSE VerifyError(Configuration, offer)
      [] OTHER            -> "none"

Launch ==
    /\ At("work") /\ Step \in ToolSteps
    /\ IF Ready(Step) = "none"
       THEN tool' = "running" /\ pc' = "watch" /\ UNCHANGED error
       ELSE Raise(Ready(Step)) /\ UNCHANGED tool
    /\ UNCHANGED <<context, todo, done, passed, outputs, events, exit, faults>>

(* The tool is not there, the cache is not writable, or the model does not *)
(* run in HBRuntime.                                                       *)
LaunchFails ==
    /\ At("work") /\ Step \in ToolSteps
    /\ Raise(ToolError[Step])
    /\ UNCHANGED <<context, todo, done, tool, passed, outputs, events, exit, faults>>

(* Slip: the result does not depend on the exit code.                      *)
ToolReturnsAnyway ==
    /\ At("watch") /\ tool \in {"passed", "failed"}
    /\ pc' = "check" /\ UNCHANGED error
    /\ tool' = "none"
    /\ passed' = IF tool = "passed" THEN passed \cup {Step} ELSE passed
    /\ UNCHANGED <<context, todo, done, outputs, events, exit, faults>>

ToolReturns ==
    /\ At("watch") /\ tool \in {"passed", "failed"}
    /\ IF tool = "passed" THEN pc' = "check" /\ UNCHANGED error ELSE Raise(ToolError[Step])
    /\ tool' = "none"
    /\ passed' = IF tool = "passed" THEN passed \cup {Step} ELSE passed
    /\ UNCHANGED <<context, todo, done, outputs, events, exit, faults>>

(* Slip: only a cancellation stops the tool.                               *)
StopCancelled ==
    /\ At("watch") /\ tool # "none" /\ sigterm
    /\ Raise("RUNNER_CANCELLED")
    /\ tool' = "none"
    /\ UNCHANGED <<context, todo, done, passed, outputs, events, exit, faults>>

(* The watching loop: cancelled, or out of time. The group of the tool is  *)
(* terminated, killed if need be. The probe's check is only timed.         *)
StopTool ==
    /\ At("watch") /\ tool # "none"
    /\ Raise(IF sigterm /\ Converts THEN "RUNNER_CANCELLED" ELSE "RUN_TIMEOUT")
    /\ tool' = "none"
    /\ UNCHANGED <<context, todo, done, passed, outputs, events, exit, faults>>

(* After the tool: what it must have produced, and what its reports say.   *)
Produces == [check |-> {}, compile |-> {"hbm", "models"}, verify |-> {"verification"}]

Check ==
    /\ At("check")
    /\ pc' = "end" /\ files' = files \cup (IF Converts THEN Produces[Step] ELSE {})
    /\ UNCHANGED <<context, todo, done, tool, passed, manifest, result, error, events, exit,
                   faults>>

(* No HBM, no models to verify, or reports that contradict the request.    *)
CheckFails ==
    /\ At("check") /\ Converts /\ Step # "check"
    /\ \/ Raise("OUTPUT_INVALID") /\ files' \in {files, files \cup {"hbm"}}
       \/ Step = "compile" /\ pc' = "end" /\ files' = files \cup {"hbm"} /\ UNCHANGED error
    /\ UNCHANGED <<context, todo, done, tool, passed, manifest, result, events, exit, faults>>

End ==
    /\ At("end")
    /\ Emit(Step, "step_completed")
    /\ done' = done \cup {Step} /\ todo' = Tail(todo)
    /\ pc' = "begin"
    /\ UNCHANGED <<context, tool, passed, outputs, error, exit, faults>>

----------------------------------------------------------------------------
(* Collection, result and exit                                             *)

Required == IF Converts THEN {"generated", "hbm"}
            ELSE IF offer.adapter = "inspection" THEN {"inspection"} ELSE {}

(* The collection is not cancelled any more.                               *)
StartCollect ==
    /\ At("begin") /\ Step = "collect"
    /\ Emit("collect", "step_started")
    /\ pc' = "collect"
    /\ UNCHANGED <<context, todo, done, tool, passed, outputs, error, exit, faults>>

Collect ==
    /\ At("collect")
    /\ IF Required \subseteq files
       THEN /\ manifest' = files /\ done' = done \cup {"collect"}
            /\ pc' = "collected" /\ UNCHANGED error
       ELSE UNCHANGED <<manifest, done>> /\ Raise("RUN_RESULT_INVALID")
    /\ UNCHANGED <<context, todo, tool, passed, files, result, events, exit, faults>>

EndCollect ==
    /\ At("collected")
    /\ Emit("collect", "step_completed")
    /\ pc' = "write"
    /\ UNCHANGED <<context, todo, done, tool, passed, outputs, error, exit, faults>>

WriteResult ==
    /\ At("write")
    /\ result' = "succeeded" /\ pc' = "complete"
    /\ UNCHANGED <<context, todo, done, tool, passed, files, manifest, error, events, exit,
                   faults>>

Complete ==
    /\ At("complete")
    /\ Emit("runner", "runner_completed")
    /\ exit' = "zero"
    /\ UNCHANGED <<context, pc, todo, done, tool, passed, outputs, error, faults>>

(* The exception handler keeps a manifest that is there; without one a     *)
(* conversion lists what there is, if it can, and the others nothing.      *)
HandlerCollects ==
    /\ At("handler")
    /\ manifest' \in IF manifest # Missing THEN {manifest}
                     ELSE IF Converts THEN {files, {}} ELSE {{}}
    /\ pc' = "handler_result"
    /\ UNCHANGED <<context, todo, done, tool, passed, files, result, error, events, exit, faults>>

HandlerResult ==
    /\ At("handler_result")
    /\ result' = IF error = "RUNNER_CANCELLED" THEN "cancelled" ELSE "failed"
    /\ pc' = "handler_event"
    /\ UNCHANGED <<context, todo, done, tool, passed, files, manifest, error, events, exit,
                   faults>>

HandlerEvent ==
    /\ At("handler_event")
    /\ \E whole \in BOOLEAN :
         events' = Append(events, [step |-> "runner", whole |-> whole,
                     type |-> IF error = "RUNNER_CANCELLED" THEN "cancel_requested" ELSE "error"])
    /\ exit' = "one"
    /\ UNCHANGED <<context, pc, todo, done, tool, passed, outputs, error, faults>>

(* An event or a file cannot be written: the pipeline fails, and a failure *)
(* in the handler ends the process with what has been written before.      *)
WriteFails ==
    /\ exit = "none" /\ pc \notin {"work", "watch", "check"} /\ faults < MaxFaults
    /\ faults' = faults + 1
    /\ IF pc \in {"handler", "handler_result", "handler_event", "start"}
       THEN exit' = "one" /\ UNCHANGED <<pc, error>>
       ELSE Raise("RUNNER_FAILED") /\ UNCHANGED exit
    /\ UNCHANGED <<context, todo, done, tool, passed, outputs, events>>

Process == \/ Start \/ Begin \/ Inspect \/ Preprocess \/ PreprocessFails \/ Launch
           \/ LaunchFails \/ ToolReturns \/ StopTool \/ Check \/ CheckFails \/ End
           \/ StartCollect \/ Collect \/ EndCollect \/ WriteResult \/ Complete
           \/ HandlerCollects \/ HandlerResult \/ HandlerEvent

----------------------------------------------------------------------------
(* The tool and the container                                              *)

ToolEnds ==
    /\ tool = "running" /\ exit = "none"
    /\ tool' \in {"passed", "failed"}
    /\ UNCHANGED <<context, pc, todo, done, passed, outputs, error, events, exit, faults>>

(* docker stop.                                                            *)
Terminate ==
    /\ ~sigterm /\ exit = "none"
    /\ sigterm' = TRUE
    /\ UNCHANGED <<offer, pc, todo, done, tool, passed, outputs, error, events, exit, faults>>

(* The grace period of docker stop is over, or the container is killed.    *)
Kill ==
    /\ exit = "none" /\ (sigterm \/ faults < MaxFaults)
    /\ exit' = "killed" /\ tool' = "none"
    /\ faults' = IF sigterm THEN faults ELSE faults + 1
    /\ UNCHANGED <<context, pc, todo, done, passed, outputs, error, events>>

RunnerNext == Process \/ WriteFails \/ ToolEnds \/ Terminate \/ Kill

=============================================================================
