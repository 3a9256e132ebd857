------------------------------ MODULE Requests ------------------------------
(***************************************************************************)
(* Conversion requests: what the controller makes of the user's options,   *)
(* of the inspected model and of the finalised calibration set             *)
(* (normalize_configuration), what it and the runner accept of it          *)
(* (validate_configuration), and whether the calibration data then fits    *)
(* (the checks of the preprocess and verify steps).                        *)
(*                                                                         *)
(* A shape is a sequence of sizes, in which Dynamic stands for a dimension *)
(* that the model leaves open. An option the user does not give is NotGiven*)
(* (or <<>> for a shape, or for the whole input configuration).            *)
(***************************************************************************)
EXTENDS Integers, Sequences, SequencesExt, FiniteSets, FiniteSetsExt, Functions

Dynamic  == 0
NotGiven == -1
AutoL2m  == -2      \* max_l2m_size: "auto"

Mebi == 1048576

Platforms == {"s100", "s600"}

(* TargetProfile: the locked capabilities of the two platforms.            *)
CoresAllowed(platform) == IF platform = "s100" THEN {1} ELSE {1, 2}
L2mAllowed(platform, l2m) ==
    IF platform = "s100" THEN l2m = 0 ELSE l2m = AutoL2m \/ l2m \in 0..24 * Mebi

(* What a request and the rows it names can be: the models of the API, the *)
(* inspected graph, the source type, the shape of a sample and a picture.  *)
GraphInput   == [name : STRING, shape : Seq(Nat)]
InputOptions == [shape : Seq(Int), layout : {"NCHW", "NHWC"}, train : STRING, runtime : STRING]

MaxShort == 16384

IsRequest(o) ==
    /\ o.adapter \in {"probe", "inspection", "openexplorer"}
    /\ o.model \in Seq(GraphInput) /\ o.inputs \in Seq(InputOptions)
    /\ o.source \in {"images", "npy", "npy_multi"}
    /\ o.short \in {NotGiven} \cup 1..MaxShort
    /\ o.picture[1] \in Nat \ {0} /\ o.picture[2] \in Nat \ {0}

----------------------------------------------------------------------------
(* Inputs                                                                  *)

NoAxes == [channels |-> 0, height |-> 0, width |-> 0]

Axes(layout, shape) ==
    IF Len(shape) # 4 THEN NoAxes
    ELSE IF layout = "NCHW"
         THEN [channels |-> shape[2], height |-> shape[3], width |-> shape[4]]
         ELSE [channels |-> shape[4], height |-> shape[2], width |-> shape[3]]

AxesOf(input) == Axes(input.layout, input.shape)

Nv12Fits(axes) == axes.channels = 3 /\ axes.height % 2 = 0 /\ axes.width % 2 = 0

(* A dimension that the model fixes keeps its size, the others get one.    *)
FitsGraph(shape, inspected) ==
    /\ Len(shape) = Len(inspected)
    /\ \A i \in DOMAIN shape : shape[i] >= 1 /\ inspected[i] \in {Dynamic, shape[i]}

ImageTypes == {"rgb", "bgr", "gray"}

DefaultTrain(axes) ==
    CASE axes.channels = 1 -> "gray" [] axes.channels = 3 -> "rgb" [] OTHER -> "featuremap"

DefaultRuntime(axes) == IF Nv12Fits(axes) THEN "nv12" ELSE "featuremap"

(* One input of the graph, completed from what was given for it. Options   *)
(* that come without a name are those of the input at their position.      *)
Completed(inspected, given) ==
    LET shape  == IF given = <<>> \/ given.shape = <<>> THEN inspected.shape ELSE given.shape
        layout == IF given = <<>> THEN "NCHW" ELSE given.layout
        axes   == Axes(layout, shape)
    IN  [name |-> inspected.name, shape |-> shape, layout |-> layout,
         train |-> IF given = <<>> THEN DefaultTrain(axes) ELSE given.train,
         runtime |-> IF given = <<>> THEN DefaultRuntime(axes) ELSE given.runtime]

NormalizedInputs(o) ==
    [i \in DOMAIN o.model |->
        Completed(o.model[i], IF o.inputs = <<>> THEN <<>> ELSE o.inputs[i])]

InputsFit(o) ==
    /\ Len(o.model) \in 1..4
    /\ o.inputs = <<>> \/ Len(o.inputs) = Len(o.model)
    /\ \A i \in DOMAIN o.model :
         /\ Len(o.model[i].shape) \in 1..4
         /\ FitsGraph(NormalizedInputs(o)[i].shape, o.model[i].shape)

----------------------------------------------------------------------------
(* Calibration                                                             *)

MinSamples == 20
MaxSamples == 100

(* Slip: the number of samples in the set is not looked at.                *)
SamplesAllowed(o) == o.limit \in MinSamples..MaxSamples

SamplesFit(o) == o.count \in MinSamples..MaxSamples /\ o.limit <= o.count

(* The recipe's resize_short, by default the longer side of the crop.      *)
ResizeShort(o, axes) == IF o.short = NotGiven THEN Max({axes.height, axes.width}) ELSE o.short

(* The set was recorded with one shape for each of its directories.        *)
CalibrationFits(o) ==
    LET inputs == NormalizedInputs(o)
        names  == {inputs[i].name : i \in DOMAIN inputs}
    IN  CASE o.source = "images" -> Len(inputs) = 1 /\ inputs[1].train \in ImageTypes
                                    /\ Len(inputs[1].shape) = 4
          [] o.source = "npy" -> Len(inputs) = 1 /\ o.short = NotGiven
                                 /\ o.report[o.model[1].name] = Tail(inputs[1].shape)
          [] o.source = "npy_multi" ->
               /\ Len(inputs) >= 2 /\ o.short = NotGiven /\ DOMAIN o.report = names
               /\ \A i \in DOMAIN inputs : o.report[inputs[i].name] = Tail(inputs[i].shape)

----------------------------------------------------------------------------
(* The configuration                                                       *)

CompilerOf(o) ==
    [mode |-> o.mode, balance |-> o.balance,
     core |-> IF o.core = NotGiven THEN 1 ELSE o.core,
     l2m |-> IF o.l2m = NotGiven THEN 0 ELSE o.l2m,
     cache |-> o.cache]

Normalized(o) ==
    [platform |-> o.platform, inputs |-> NormalizedInputs(o), source |-> o.source,
     limit |-> o.limit,
     short |-> IF o.source = "images" THEN ResizeShort(o, AxesOf(NormalizedInputs(o)[1]))
               ELSE NotGiven,
     crop |-> IF o.source = "images"
              THEN LET axes == AxesOf(NormalizedInputs(o)[1]) IN <<axes.height, axes.width>>
              ELSE <<>>,
     compiler |-> CompilerOf(o), verify |-> o.verify]

ValidInput(input) ==
    LET axes == AxesOf(input)
    IN  /\ Len(input.shape) \in 1..4 /\ input.shape[1] = 1
        /\ \A i \in DOMAIN input.shape : input.shape[i] >= 1
        /\ input.train # "featuremap" =>
             Len(input.shape) = 4 /\ axes.channels = IF input.train = "gray" THEN 1 ELSE 3
        /\ input.runtime = "nv12" => Nv12Fits(axes)

ValidInputs(c) ==
    /\ Len(c.inputs) \in 1..4
    /\ \A i \in DOMAIN c.inputs : ValidInput(c.inputs[i])
    /\ IsInjective([i \in DOMAIN c.inputs |-> c.inputs[i].name])

ValidCalibration(c) ==
    /\ c.limit \in MinSamples..MaxSamples
    /\ CASE c.source = "images" ->
              /\ Len(c.inputs) = 1 /\ c.inputs[1].train \in ImageTypes
              /\ c.short >= 1
              /\ c.crop = <<AxesOf(c.inputs[1]).height, AxesOf(c.inputs[1]).width>>
         [] c.source = "npy"       -> Len(c.inputs) = 1
         [] c.source = "npy_multi" -> Len(c.inputs) >= 2

ValidCompiler(c) ==
    /\ c.compiler.mode = "balance" <=> c.compiler.balance # NotGiven
    /\ c.compiler.balance \in {NotGiven} \cup 0..100
    /\ c.compiler.core \in CoresAllowed(c.platform)
    /\ L2mAllowed(c.platform, c.compiler.l2m)

ValidConfiguration(c) == ValidInputs(c) /\ ValidCalibration(c) /\ ValidCompiler(c)

Accepted(o) == InputsFit(o) /\ SamplesFit(o) /\ CalibrationFits(o)
               /\ ValidConfiguration(Normalized(o))

----------------------------------------------------------------------------
(* The runner's checks of the data against the configuration               *)

Selected(c, o) == Min({c.limit, o.count})

(* Python rounds a quotient half to even.                                  *)
Rounded(a, b) ==
    LET q == a \div b
        r == 2 * (a % b)
    IN  IF r < b \/ (r = b /\ q % 2 = 0) THEN q ELSE q + 1

(* A picture, as <<width, height>>, with its shorter side at resize_short. *)
Resized(picture, short) ==
    LET w == picture[1]
        h == picture[2]
    IN  IF w <= h THEN <<short, Max({short, Rounded(h * short, w)})>>
                  ELSE <<Max({short, Rounded(w * short, h)}), short>>

CropFits(c, picture) ==
    LET size == Resized(picture, c.short)
    IN  c.crop[2] <= size[1] /\ c.crop[1] <= size[2]

(* The array a sample becomes, in the directory of an input.               *)
SampleShape(c, o, input) ==
    IF c.source # "images" THEN o.report[input.name]
    ELSE LET channels == IF input.train = "gray" THEN 1 ELSE 3
         IN  IF input.layout = "NCHW" THEN <<channels, c.crop[1], c.crop[2]>>
                                      ELSE <<c.crop[1], c.crop[2], channels>>

(* The code of the failure, or "none".                                     *)
ImagesError(c, o) ==
    CASE Selected(c, o) < MinSamples -> "CALIBRATION_INVALID_SAMPLE"
      [] ~CropFits(c, o.picture)     -> "CALIBRATION_PREPROCESS_FAILED"
      [] OTHER                       -> "none"

ArraysFit(c, o) ==
    \A i \in DOMAIN c.inputs : o.report[c.inputs[i].name] = Tail(c.inputs[i].shape)

NpyError(c, o) ==
    CASE Selected(c, o) < MinSamples  -> "CALIBRATION_INVALID_SAMPLE"
      [] ~ArraysFit(c, o)   -> "CALIBRATION_NPY_INVALID"
      [] OTHER                        -> "none"

(* One directory for each input, looked at before the samples are counted. *)
NpyMultiError(c, o) ==
    CASE DOMAIN o.report # {c.inputs[i].name : i \in DOMAIN c.inputs}
                                      -> "CALIBRATION_NPY_INVALID"
      [] Selected(c, o) < MinSamples  -> "CALIBRATION_INVALID_SAMPLE"
      [] ~ArraysFit(c, o)   -> "CALIBRATION_NPY_INVALID"
      [] OTHER                        -> "none"

PreprocessError(c, o) ==
    CASE c.source = "images"    -> ImagesError(c, o)
      [] c.source = "npy"       -> NpyError(c, o)
      [] c.source = "npy_multi" -> NpyMultiError(c, o)

VerifyError(c, o) ==
    IF \A i \in DOMAIN c.inputs :
         LET shape == SampleShape(c, o, c.inputs[i])
         IN  shape = c.inputs[i].shape \/ shape = Tail(c.inputs[i].shape)
    THEN "none" ELSE "VERIFICATION_INPUT_INVALID"

=============================================================================
