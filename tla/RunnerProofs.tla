----------------------------- MODULE RunnerProofs -----------------------------
(***************************************************************************)
(* What the Runner promises of its result and the event stream of what it  *)
(* sends, for all requests, faults and numbers of connections; and that    *)
(* the controller's checks of a request cover those of the Runner.         *)
(***************************************************************************)
EXTENDS EventStream, SequenceTheorems, TLAPS

----------------------------------------------------------------------------
(* Lemmas about the operators of Requests                                  *)

LEMMA MaxOfTwo ==
    ASSUME NEW a \in Int, NEW b \in Int
    PROVE  Max({a, b}) \in {a, b} /\ Max({a, b}) >= a /\ Max({a, b}) >= b
<1>1. \E x \in {a, b} : \A y \in {a, b} : x >= y
  OBVIOUS
<1> QED
  BY <1>1 DEF Max

LEMMA MinOfTwo ==
    ASSUME NEW a \in Int, NEW b \in Int
    PROVE  Min({a, b}) \in {a, b}
<1>1. \E x \in {a, b} : \A y \in {a, b} : x =< y
  OBVIOUS
<1> QED
  BY <1>1 DEF Min

LEMMA RequestTypes ==
    ASSUME NEW o, IsRequest(o)
    PROVE  /\ o.model \in Seq(GraphInput)
           /\ o.inputs \in Seq(InputOptions)
           /\ o.adapter \in {"probe", "inspection", "openexplorer"}
           /\ o.source \in {"images", "npy", "npy_multi"}
           /\ o.short \in Int
           /\ o.picture[1] \in Nat \ {0} /\ o.picture[2] \in Nat \ {0}
<1>1. o.model \in Seq(GraphInput)
  BY DEF IsRequest
<1>2. o.inputs \in Seq(InputOptions)
  BY DEF IsRequest
<1>3. o.adapter \in {"probe", "inspection", "openexplorer"}
  BY DEF IsRequest
<1>4. o.source \in {"images", "npy", "npy_multi"}
  BY DEF IsRequest
<1>5. o.short \in Int
  <2>1. o.short \in {NotGiven} \cup 1..MaxShort
    BY Zenon DEF IsRequest
  <2> QED
    BY <2>1 DEF NotGiven
<1>6. o.picture[1] \in Nat \ {0} /\ o.picture[2] \in Nat \ {0}
  BY DEF IsRequest
<1> QED
  BY <1>1, <1>2, <1>3, <1>4, <1>5, <1>6

(* An input takes its shape from the options or from the model.            *)
LEMMA CompletedShape ==
    ASSUME NEW inspected \in GraphInput, NEW given, given = <<>> \/ given \in InputOptions
    PROVE  /\ Completed(inspected, given).shape \in Seq(Int)
           /\ Completed(inspected, given).name = inspected.name
<1>1. inspected.shape \in Seq(Int)
  <2>1. inspected.shape \in Seq(Nat)
    BY DEF GraphInput
  <2>2. Seq(Nat) \subseteq Seq(Int)
    BY SeqMonotonic
  <2> QED
    BY <2>1, <2>2
<1>2. given # <<>> => given.shape \in Seq(Int)
  BY DEF InputOptions
<1>3. Completed(inspected, given).shape \in {inspected.shape} \cup
        (IF given = <<>> THEN {} ELSE {given.shape})
  BY DEF Completed
<1> QED
  BY <1>1, <1>2, <1>3 DEF Completed

(* The inputs that are submitted are those of the model, in its order.     *)
LEMMA InputsOfModel ==
    ASSUME NEW o, IsRequest(o), InputsFit(o)
    PROVE  /\ Len(NormalizedInputs(o)) = Len(o.model)
           /\ DOMAIN NormalizedInputs(o) = 1..Len(o.model) /\ Len(o.model) \in 1..4
           /\ \A i \in 1..Len(o.model) :
                /\ NormalizedInputs(o)[i].name = o.model[i].name
                /\ NormalizedInputs(o)[i].shape \in Seq(Int)
<1> DEFINE n == NormalizedInputs(o)  Image == {n[i] : i \in 1..Len(o.model)}
<1>1. Len(o.model) \in 1..4 /\ DOMAIN o.model = 1..Len(o.model)
  <2>1. Len(o.model) \in 1..4
    BY DEF InputsFit
  <2>2. o.model \in Seq(GraphInput)
    BY RequestTypes
  <2> QED
    BY <2>1, <2>2, LenProperties
<1>2. ASSUME NEW i \in 1..Len(o.model)
      PROVE  n[i].shape \in Seq(Int) /\ n[i].name = o.model[i].name
  <2>1. o.model[i] \in GraphInput
    BY RequestTypes, ElementOfSeq
  <2>2. CASE o.inputs = <<>>
    <3>1. n[i] = Completed(o.model[i], <<>>)
      BY <1>1, <2>2 DEF NormalizedInputs
    <3> QED
      BY <2>1, <3>1, CompletedShape
  <2>3. CASE o.inputs # <<>>
    <3>1. n[i] = Completed(o.model[i], o.inputs[i])
      BY <1>1, <2>3 DEF NormalizedInputs
    <3>2. Len(o.inputs) = Len(o.model)
      BY <2>3 DEF InputsFit
    <3>3. o.inputs[i] \in InputOptions
      BY <3>2, RequestTypes, ElementOfSeq
    <3> QED
      BY <2>1, <3>1, <3>3, CompletedShape
  <2> QED
    BY <2>2, <2>3
<1>3. n = [i \in 1..Len(o.model) |-> n[i]]
  BY <1>1 DEF NormalizedInputs
<1>4. n \in Seq(Image)
  <2>1. \A i \in 1..Len(o.model) : n[i] \in Image
    OBVIOUS
  <2> HIDE DEF n, Image
  <2>2. n \in [1..Len(o.model) -> Image]
    BY <1>3, <2>1
  <2> QED
    BY <1>1, <2>2, SeqDef
<1>5. Len(n) \in Nat /\ DOMAIN n = 1..Len(n) /\ DOMAIN n = 1..Len(o.model)
  <2> HIDE DEF n, Image
  <2> QED
    BY <1>3, <1>4, LenProperties
<1> QED
  <2>1. Len(n) = Len(o.model)
    <3> HIDE DEF n
    <3> QED
      BY <1>1, <1>5
  <2> QED
    BY <1>1, <1>2, <1>5, <2>1

(* The fields of the configuration.                                        *)
LEMMA Fields ==
    ASSUME NEW o
    PROVE  LET c == Normalized(o) IN
           /\ c.inputs = NormalizedInputs(o) /\ c.source = o.source /\ c.limit = o.limit
           /\ o.source = "images" =>
                LET axes == AxesOf(NormalizedInputs(o)[1]) IN
                /\ c.short = ResizeShort(o, axes)
                /\ c.crop = <<axes.height, axes.width>>
BY DEF Normalized

(* What the checks say of each kind of calibration data.                   *)
LEMMA CalibrationKinds ==
    ASSUME NEW o, CalibrationFits(o)
    PROVE  LET inputs == NormalizedInputs(o) IN
           /\ o.source = "images" => /\ Len(inputs) = 1 /\ inputs[1].train \in ImageTypes
                                     /\ Len(inputs[1].shape) = 4
           /\ o.source = "npy" => /\ Len(inputs) = 1
                                  /\ o.report[o.model[1].name] = Tail(inputs[1].shape)
           /\ o.source = "npy_multi" =>
                /\ DOMAIN o.report = {inputs[i].name : i \in DOMAIN inputs}
                /\ \A i \in DOMAIN inputs : o.report[inputs[i].name] = Tail(inputs[i].shape)
<1>1. CASE o.source = "images"
  BY <1>1 DEF CalibrationFits
<1>2. CASE o.source = "npy"
  BY <1>2 DEF CalibrationFits
<1>3. CASE o.source = "npy_multi"
  BY <1>3 DEF CalibrationFits
<1> QED
  BY <1>1, <1>2, <1>3

LEMMA LimitAllowed == ASSUME NEW c, ValidCalibration(c) PROVE c.limit \in 20..100
BY DEF ValidCalibration, MinSamples, MaxSamples

(* A conversion that is accepted has the number of samples it asks for.    *)
LEMMA EnoughSamples ==
    ASSUME NEW o, Accepted(o)
    PROVE  Selected(Normalized(o), o) \in Int /\ Selected(Normalized(o), o) >= MinSamples
<1>1. o.count \in 20..100
  BY DEF Accepted, SamplesFit, MinSamples, MaxSamples
<1>2. o.limit \in 20..100
  BY Fields, LimitAllowed DEF Accepted, ValidConfiguration
<1>3. Selected(Normalized(o), o) = Min({o.limit, o.count})
  BY Fields DEF Selected
<1>4. Min({o.limit, o.count}) \in {o.limit, o.count}
  <2> DEFINE a == o.limit  b == o.count
  <2>1. a \in Int /\ b \in Int
    BY <1>1, <1>2
  <2> HIDE DEF a, b
  <2>2. Min({a, b}) \in {a, b}
    BY <2>1, MinOfTwo
  <2> QED
    BY <2>2 DEF a, b
<1> QED
  BY <1>1, <1>2, <1>3, <1>4 DEF MinSamples

(* The first input of a conversion from images has four dimensions, the    *)
(* batch first, and its crop is the height and the width among the others. *)
LEMMA ImagesInput ==
    ASSUME NEW o, IsRequest(o), Accepted(o), o.source = "images"
    PROVE  LET c     == Normalized(o)
               input == c.inputs[1]
               shape == input.shape
           IN  /\ DOMAIN c.inputs = {1}
               /\ shape \in Seq(Int) /\ Len(shape) = 4
               /\ c.crop[1] = IF input.layout = "NCHW" THEN shape[3] ELSE shape[2]
               /\ c.crop[2] = IF input.layout = "NCHW" THEN shape[4] ELSE shape[3]
               /\ (IF input.train = "gray" THEN 1 ELSE 3)
                    = IF input.layout = "NCHW" THEN shape[2] ELSE shape[4]
<1> DEFINE input == NormalizedInputs(o)[1]  axes == AxesOf(input)
<1>1. InputsFit(o) /\ CalibrationFits(o) /\ ValidConfiguration(Normalized(o))
  BY DEF Accepted
<1>2. /\ Len(NormalizedInputs(o)) = 1 /\ input.train \in ImageTypes
      /\ Len(input.shape) = 4
  BY <1>1, CalibrationKinds
<1>3. DOMAIN NormalizedInputs(o) = {1} /\ input.shape \in Seq(Int)
  <2>1. Len(NormalizedInputs(o)) = Len(o.model) /\ DOMAIN NormalizedInputs(o) = 1..Len(o.model)
    BY <1>1, InputsOfModel
  <2>2. \A i \in 1..Len(o.model) : NormalizedInputs(o)[i].shape \in Seq(Int)
    BY <1>1, InputsOfModel
  <2>3. 1..Len(o.model) = {1}
    BY <1>2, <2>1
  <2> QED
    BY <2>1, <2>2, <2>3
<1>4. /\ Normalized(o).inputs = NormalizedInputs(o)
      /\ Normalized(o).crop = <<axes.height, axes.width>>
  BY Fields
<1>5. ValidInput(input)
  BY <1>1, <1>3, <1>4 DEF ValidConfiguration, ValidInputs
<1>6. axes.channels = IF input.train = "gray" THEN 1 ELSE 3
  BY <1>2, <1>5 DEF ValidInput, ImageTypes
<1>7. /\ axes.channels = IF input.layout = "NCHW" THEN input.shape[2] ELSE input.shape[4]
      /\ axes.height   = IF input.layout = "NCHW" THEN input.shape[3] ELSE input.shape[2]
      /\ axes.width    = IF input.layout = "NCHW" THEN input.shape[4] ELSE input.shape[3]
  BY <1>2 DEF AxesOf, Axes
<1> HIDE DEF input, axes
<1>8. Normalized(o).crop[1] = axes.height /\ Normalized(o).crop[2] = axes.width
  BY <1>4
<1> QED
  BY <1>2, <1>3, <1>4, <1>6, <1>7, <1>8 DEF input

(* A picture whose shorter side becomes short holds every crop whose sides *)
(* are at most short.                                                      *)
LEMMA RoundedInt ==
    ASSUME NEW a \in Int, NEW b \in Nat \ {0} PROVE Rounded(a, b) \in Int
BY DEF Rounded

LEMMA SmallCropFits ==
    ASSUME NEW c, NEW picture, picture[1] \in Nat \ {0}, picture[2] \in Nat \ {0},
           c.short \in Int, c.crop[1] \in Int, c.crop[2] \in Int,
           c.crop[1] <= c.short, c.crop[2] <= c.short
    PROVE  CropFits(c, picture)
<1> DEFINE w == picture[1]  h == picture[2]  short == c.short
           tall == Rounded(h * short, w)  wide == Rounded(w * short, h)
<1>1. tall \in Int /\ wide \in Int
  <2>1. h * short \in Int /\ w * short \in Int
    OBVIOUS
  <2> DEFINE a == h * short  b == w * short
  <2> HIDE DEF a, b
  <2>2. Rounded(a, w) \in Int /\ Rounded(b, h) \in Int
    BY <2>1, RoundedInt DEF a, b
  <2> QED
    BY <2>2 DEF a, b
<1> HIDE DEF tall, wide, short
<1>2. Max({short, tall}) \in Int /\ Max({short, tall}) >= short
      /\ Max({short, wide}) \in Int /\ Max({short, wide}) >= short
  BY <1>1, MaxOfTwo DEF short
<1>3. Resized(picture, short) = IF w <= h THEN <<short, Max({short, tall})>>
                                          ELSE <<Max({short, wide}), short>>
  BY DEF Resized, tall, wide
<1>4. c.crop[2] <= Resized(picture, short)[1] /\ c.crop[1] <= Resized(picture, short)[2]
  BY <1>2, <1>3 DEF short
<1> QED
  BY <1>4 DEF CropFits, short

(* A crop that does not fit was asked for.                                 *)
LEMMA CropAskedFor ==
    ASSUME NEW o, IsRequest(o), Accepted(o), o.source = "images",
           ~CropFits(Normalized(o), o.picture)
    PROVE  /\ o.short # NotGiven
           /\ o.short < Max({Normalized(o).crop[i] : i \in {1, 2}})
<1> DEFINE c == Normalized(o)  axes == AxesOf(NormalizedInputs(o)[1])
           h == c.crop[1]  w == c.crop[2]
<1>1. h \in Int /\ w \in Int
  <2> DEFINE input == c.inputs[1]  shape == input.shape
  <2>1. shape \in Seq(Int) /\ Len(shape) = 4
    BY ImagesInput
  <2>2. /\ h = IF input.layout = "NCHW" THEN shape[3] ELSE shape[2]
        /\ w = IF input.layout = "NCHW" THEN shape[4] ELSE shape[3]
    BY ImagesInput
  <2> HIDE DEF input, shape, h, w
  <2>3. \A i \in 1..4 : shape[i] \in Int
    BY <2>1, ElementOfSeq
  <2> QED
    BY <2>2, <2>3
<1>2. o.short \in Int /\ o.picture[1] \in Nat \ {0} /\ o.picture[2] \in Nat \ {0}
  BY RequestTypes
<1>3. axes.height = h /\ axes.width = w /\ c.short = ResizeShort(o, axes)
  BY Fields
<1>4. c.short = IF o.short = NotGiven THEN Max({h, w}) ELSE o.short
  BY <1>3 DEF ResizeShort
<1>5. {c.crop[i] : i \in {1, 2}} = {h, w}
  OBVIOUS
<1> HIDE DEF h, w
<1>6. Max({h, w}) \in Int /\ Max({h, w}) >= h /\ Max({h, w}) >= w
  BY <1>1, MaxOfTwo
<1>7. Max({h, w}) \in {h, w}
  BY <1>1, MaxOfTwo
<1>8. c.short \in Int /\ ~(h <= c.short /\ w <= c.short)
  <2>1. c.short \in Int
    BY <1>2, <1>4, <1>6
  <2> QED
    BY <1>1, <1>2, <2>1, SmallCropFits DEF h, w
<1> QED
  BY <1>1, <1>2, <1>4, <1>5, <1>6, <1>7, <1>8

LEMMA TailOfFour ==
    ASSUME NEW s \in Seq(Int), Len(s) = 4
    PROVE  Tail(s) = <<s[2], s[3], s[4]>>
<1> DEFINE r == Tail(s)  t == <<s[2], s[3], s[4]>>
<1>1. /\ r \in Seq(Int) /\ Len(r) = Len(s) - 1
      /\ \A i \in 1..Len(r) : r[i] = s[i + 1]
  <2>1. s # <<>>
    <3>1. Len(<<>>) = 0 /\ 0 # 4
      BY EmptySeq
    <3> QED
      BY <3>1, Zenon
  <2> QED
    BY <2>1, HeadTailProperties
<1>2. \A i \in 1..4 : s[i] \in Int
  BY ElementOfSeq
<1>3. t \in Seq(Int) /\ Len(t) = 3 /\ t[1] = s[2] /\ t[2] = s[3] /\ t[3] = s[4]
  <2> DEFINE a == s[2]  b == s[3]  d == s[4]
  <2>1. a \in Int /\ b \in Int /\ d \in Int
    BY <1>2, 2 \in 1..4, 3 \in 1..4, 4 \in 1..4, Zenon
  <2> HIDE DEF a, b, d
  <2>2. /\ <<a, b, d>> \in Seq(Int) /\ Len(<<a, b, d>>) = 3
        /\ <<a, b, d>>[1] = a /\ <<a, b, d>>[2] = b /\ <<a, b, d>>[3] = d
    BY <2>1
  <2> QED
    BY <2>2 DEF a, b, d
<1> HIDE DEF r, t
<1>4. \A i \in 1..3 : r[i] = t[i]
  <2>1. Len(r) = 3
    BY <1>1
  <2>2. r[1] = s[2] /\ r[2] = s[3] /\ r[3] = s[4]
    <3>1. r[1] = s[1 + 1] /\ r[2] = s[2 + 1] /\ r[3] = s[3 + 1]
      BY <1>1, <2>1
    <3> QED
      BY <3>1
  <2> QED
    BY <1>3, <2>2
<1>5. r = t
  <2>1. Len(r) = Len(t) /\ \A i \in 1..Len(r) : r[i] = t[i]
    BY <1>1, <1>3, <1>4
  <2>2. r \in Seq(Int) /\ t \in Seq(Int)
    BY <1>1, <1>3
  <2> QED
    BY <2>1, <2>2, SeqEqual, Zenon
<1> QED
  BY <1>5 DEF r, t

(* The arrays that were recorded for the inputs are those of the graph.    *)
LEMMA ArraysOfAccepted ==
    ASSUME NEW o, IsRequest(o), Accepted(o), o.source # "images"
    PROVE  LET c == Normalized(o) IN
           /\ \A i \in DOMAIN c.inputs : o.report[c.inputs[i].name] = Tail(c.inputs[i].shape)
           /\ o.source = "npy_multi" =>
                DOMAIN o.report = {c.inputs[i].name : i \in DOMAIN c.inputs}
<1> DEFINE n == NormalizedInputs(o)
<1>1. InputsFit(o) /\ CalibrationFits(o) /\ o.source \in {"npy", "npy_multi"}
  BY RequestTypes DEF Accepted
<1>2. Normalized(o).inputs = n
  BY Fields
<1>3. CASE o.source = "npy"
  <2>1. Len(n) = 1 /\ o.report[o.model[1].name] = Tail(n[1].shape)
    BY <1>1, <1>3, CalibrationKinds
  <2>2. Len(n) = Len(o.model) /\ DOMAIN n = 1..Len(o.model)
    BY <1>1, InputsOfModel
  <2>3. DOMAIN n = {1}
    BY <2>1, <2>2
  <2>4. n[1].name = o.model[1].name
    BY <1>1, <2>2, <2>3, InputsOfModel
  <2> QED
    BY <1>2, <1>3, <2>1, <2>3, <2>4
<1>4. CASE o.source = "npy_multi"
  BY <1>1, <1>2, <1>4, CalibrationKinds
<1> QED
  BY <1>1, <1>3, <1>4

(* The preprocess step finds what the controller has accepted.             *)
LEMMA PreprocessOfAccepted ==
    ASSUME NEW o, IsRequest(o), Accepted(o)
    PROVE  /\ PreprocessError(Normalized(o), o) \in {"none", "CALIBRATION_PREPROCESS_FAILED"}
           /\ PreprocessError(Normalized(o), o) = "CALIBRATION_PREPROCESS_FAILED" =>
                /\ o.short # NotGiven
                /\ o.short < Max({Normalized(o).crop[i] : i \in {1, 2}})
<1> DEFINE c == Normalized(o)
<1>1. ~(Selected(c, o) < MinSamples)
  <2>1. Selected(c, o) \in Int /\ Selected(c, o) >= MinSamples
    BY EnoughSamples
  <2> QED
    BY <2>1 DEF MinSamples
<1>2. c.source = o.source /\ o.source \in {"images", "npy", "npy_multi"}
  BY Fields, RequestTypes
<1>3. CASE o.source = "images"
  <2>1. PreprocessError(c, o) = ImagesError(c, o)
    BY <1>2, <1>3 DEF PreprocessError
  <2>2. ImagesError(c, o) = IF CropFits(c, o.picture) THEN "none"
                            ELSE "CALIBRATION_PREPROCESS_FAILED"
    BY <1>1 DEF ImagesError
  <2> QED
    BY <1>3, <2>1, <2>2, CropAskedFor
<1>4. CASE o.source # "images"
  <2>1. ArraysFit(c, o)
    BY <1>4, ArraysOfAccepted DEF ArraysFit
  <2>2. o.source = "npy" => PreprocessError(c, o) = "none"
    BY <1>1, <1>2, <2>1 DEF PreprocessError, NpyError
  <2>3. o.source = "npy_multi" => PreprocessError(c, o) = "none"
    BY <1>1, <1>2, <1>4, <2>1, ArraysOfAccepted DEF PreprocessError, NpyMultiError
  <2> QED
    BY <1>2, <1>4, <2>2, <2>3
<1> QED
  BY <1>3, <1>4

(* The inputs of the verification are the samples that were preprocessed.  *)
LEMMA VerifyOfAccepted ==
    ASSUME NEW o, IsRequest(o), Accepted(o)
    PROVE  VerifyError(Normalized(o), o) = "none"
<1> DEFINE c == Normalized(o)
<1>1. c.source = o.source
  BY Fields
<1>2. ASSUME NEW i \in DOMAIN c.inputs
      PROVE  SampleShape(c, o, c.inputs[i]) = Tail(c.inputs[i].shape)
  <2>1. CASE o.source = "images"
    <3> DEFINE input == c.inputs[1]
    <3>1. i = 1
      BY <2>1, ImagesInput
    <3>2. Tail(input.shape) = <<input.shape[2], input.shape[3], input.shape[4]>>
      BY <2>1, ImagesInput, TailOfFour
    <3>3. SampleShape(c, o, input) =
            IF input.layout = "NCHW"
            THEN <<IF input.train = "gray" THEN 1 ELSE 3, c.crop[1], c.crop[2]>>
            ELSE <<c.crop[1], c.crop[2], IF input.train = "gray" THEN 1 ELSE 3>>
      BY <1>1, <2>1 DEF SampleShape
    <3>4. SampleShape(c, o, input) = <<input.shape[2], input.shape[3], input.shape[4]>>
      BY <2>1, <3>3, ImagesInput
    <3> QED
      BY <3>1, <3>2, <3>4
  <2>2. CASE o.source # "images"
    BY <1>1, <2>2, ArraysOfAccepted DEF SampleShape
  <2> QED
    BY <2>1, <2>2
<1> QED
  BY <1>2 DEF VerifyError

----------------------------------------------------------------------------
(* The invariant of the Runner                                             *)

Steps     == {"inspect", "check", "preprocess", "compile", "verify", "collect"}
FileNames == {"inspection", "calibration", "generated", "hbm", "models", "verification"}
EventTypes == {"runner_started", "step_started", "step_completed", "runner_completed",
               "cancel_requested", "error"}
Event == [step : {"runner"} \cup Steps, type : EventTypes, whole : BOOLEAN]

RunnerTypes ==
    /\ offer \in Offers /\ (Converts => Accepted(offer))
    /\ events \in Seq(Event)
    /\ files \subseteq FileNames

(* What is left of the pipeline, ending with the collection, and what is   *)
(* done of it; nothing is compiled before the preprocess step.             *)
PipelineInv ==
    /\ todo \in Seq(Steps) /\ Len(todo) >= 1
    /\ \A i \in 1..Len(todo) : todo[i] = "collect" <=> i = Len(todo)
    /\ done \cup Range(todo) = Range(Pipeline(offer))
    /\ \A i \in 1..Len(todo) : todo[i] = "compile" =>
         "preprocess" \in done \/ \E j \in 1..i - 1 : todo[j] = "preprocess"

(* Where the process is in the current step, and what the steps leave.     *)
StepInv ==
    /\ pc \in {"work", "watch", "check", "end"} => Step # "collect"
    /\ pc \in {"watch", "check"} => Step \in ToolSteps
    /\ pc \in {"collect", "collected", "write", "complete"} => Step = "collect"
    /\ ToolSteps \cap done \subseteq passed
    /\ pc \in {"check", "end"} /\ Step \in ToolSteps => Step \in passed
    /\ "preprocess" \in done \/ (pc = "end" /\ Step = "preprocess") => "generated" \in files

(* All steps are done, and the manifest lists what they have left.         *)
Collected ==
    /\ Step = "collect" /\ "collect" \in done
    /\ manifest # Missing /\ Required \subseteq manifest /\ manifest \subseteq files

ResultInv ==
    /\ pc \in {"collected", "write", "complete"} => Collected
    /\ pc = "complete" => result = "succeeded"
    /\ result = "succeeded" => pc \in {"complete", "handler", "handler_result"} /\ Collected
    /\ exit = "zero" => result = "succeeded" /\ Last(events).type = "runner_completed"

RunnerInv == RunnerTypes /\ PipelineInv /\ StepInv /\ ResultInv /\ AcceptedIsRunnable

LEMMA ConcatOne ==
    ASSUME NEW S, NEW s \in Seq(S), NEW e \in S, NEW r, r = s \o <<e>>
    PROVE  /\ r \in Seq(S)
           /\ Len(r) = Len(s) + 1
           /\ \A i \in 1..Len(s) : r[i] = s[i]
           /\ r[Len(s) + 1] = e
<1>1. r = Append(s, e)
  BY AppendIsConcat
<1> QED
  BY <1>1, AppendProperties

(* A pipeline has one collection, at its end; a preprocess step before the *)
(* compilation; and three steps only if it is a conversion's.              *)
LEMMA PipelineSteps ==
    ASSUME NEW o, IsRequest(o), NEW p, p = Pipeline(o)
    PROVE  /\ p \in Seq(Steps) /\ Len(p) >= 1
           /\ \A i \in 1..Len(p) : p[i] = "collect" <=> i = Len(p)
           /\ \A i \in 1..Len(p) : p[i] = "compile" => \E j \in 1..i - 1 : p[j] = "preprocess"
           /\ \A i \in 1..Len(p) : p[i] \in {"preprocess", "compile", "verify"} =>
                o.adapter = "openexplorer"
<1>1. CASE o.adapter = "probe"
  <2>1. p = <<"inspect", "check", "collect">>
    BY <1>1 DEF Pipeline
  <2>2. p \in Seq(Steps) /\ Len(p) = 3
    BY <2>1 DEF Steps
  <2>3. p[1] = "inspect" /\ p[2] = "check" /\ p[3] = "collect"
    BY <2>1
  <2> QED
    BY <2>2, <2>3
<1>2. CASE o.adapter = "inspection"
  <2>1. p = <<"inspect", "collect">>
    BY <1>2 DEF Pipeline
  <2>2. p \in Seq(Steps) /\ Len(p) = 2
    BY <2>1 DEF Steps
  <2>3. p[1] = "inspect" /\ p[2] = "collect"
    BY <2>1
  <2> QED
    BY <2>2, <2>3
<1>3. CASE o.adapter = "openexplorer"
  <2> DEFINE base == <<"inspect", "check", "preprocess", "compile">>
             verify == IF o.verify = "disabled" THEN <<>> ELSE <<"verify">>
             q == base \o verify
  <2>1. p = q \o <<"collect">>
    BY <1>3 DEF Pipeline
  <2>2. /\ base \in Seq(Steps) /\ Len(base) = 4
        /\ base[1] = "inspect" /\ base[2] = "check"
        /\ base[3] = "preprocess" /\ base[4] = "compile"
    BY DEF Steps
  <2>3. "verify" \in Steps /\ "collect" \in Steps
    BY DEF Steps
  <2> HIDE DEF base
  <2>4. q \in Seq(Steps) /\ \A i \in 1..4 : q[i] = base[i]
        /\ (Len(q) = 4 \/ (Len(q) = 5 /\ q[5] = "verify"))
    <3>1. CASE o.verify = "disabled"
      <4>1. q = base
        BY <2>2, <3>1, ConcatEmptySeq
      <4> QED
        BY <2>2, <4>1
    <3>2. CASE o.verify # "disabled"
      <4>1. q = base \o <<"verify">>
        BY <3>2
      <4> HIDE DEF q, verify
      <4>2. /\ q \in Seq(Steps) /\ Len(q) = Len(base) + 1
            /\ \A i \in 1..Len(base) : q[i] = base[i]
            /\ q[Len(base) + 1] = "verify"
        <5>1. base \in Seq(Steps) /\ "verify" \in Steps
          BY <2>2, <2>3
        <5> QED
          BY <4>1, <5>1, ConcatOne
      <4> QED
        BY <2>2, <4>2
    <3> QED
      BY <3>1, <3>2
  <2> HIDE DEF q
  <2>5. /\ p \in Seq(Steps) /\ Len(p) = Len(q) + 1
        /\ \A i \in 1..Len(q) : p[i] = q[i]
        /\ p[Len(q) + 1] = "collect"
    <3>1. q \in Seq(Steps) /\ "collect" \in Steps
      BY <2>3, <2>4
    <3> QED
      BY <2>1, <3>1, ConcatOne
  <2>6. CASE Len(q) = 4
    <3>1. /\ Len(p) = 5 /\ p[1] = "inspect" /\ p[2] = "check"
          /\ p[3] = "preprocess" /\ p[4] = "compile" /\ p[5] = "collect"
      BY <2>2, <2>4, <2>5, <2>6
    <3>2. \A i \in 1..Len(p) : p[i] = "collect" <=> i = Len(p)
      BY <3>1
    <3>3. \A i \in 1..Len(p) : p[i] = "compile" => i = 4
      BY <3>1
    <3> QED
      BY <1>3, <2>5, <3>1, <3>2, <3>3
  <2>7. CASE Len(q) = 5 /\ q[5] = "verify"
    <3>1. /\ Len(p) = 6 /\ p[1] = "inspect" /\ p[2] = "check"
          /\ p[3] = "preprocess" /\ p[4] = "compile" /\ p[5] = "verify" /\ p[6] = "collect"
      BY <2>2, <2>4, <2>5, <2>7
    <3>2. \A i \in 1..Len(p) : p[i] = "collect" <=> i = Len(p)
      BY <3>1
    <3>3. \A i \in 1..Len(p) : p[i] = "compile" => i = 4
      BY <3>1
    <3> QED
      BY <1>3, <2>5, <3>1, <3>2, <3>3
  <2> QED
    BY <2>4, <2>6, <2>7
<1> QED
  BY <1>1, <1>2, <1>3, RequestTypes

(* What a sequence holds besides its first element.                        *)
LEMMA RangeOfTail ==
    ASSUME NEW S, NEW s \in Seq(S), Len(s) >= 1
    PROVE  /\ Range(s) = {Head(s)} \cup Range(Tail(s))
           /\ Tail(s) \in Seq(S) /\ Len(Tail(s)) = Len(s) - 1
           /\ \A i \in 1..Len(s) - 1 : Tail(s)[i] = s[i + 1]
           /\ Head(s) = s[1] /\ s[1] \in S
<1> DEFINE t == Tail(s)
<1>1. s # <<>>
  <2>1. Len(<<>>) = 0
    BY EmptySeq
  <2>2. Len(s) # 0
    OBVIOUS
  <2> QED
    BY <2>1, <2>2, Zenon
<1>2. /\ t \in Seq(S) /\ Len(t) = Len(s) - 1
      /\ \A i \in 1..Len(t) : t[i] = s[i + 1]
  BY <1>1, HeadTailProperties
<1>3. DOMAIN s = 1..Len(s) /\ DOMAIN t = 1..Len(t) /\ Len(s) \in Nat /\ Len(t) \in Nat
  BY <1>2, LenProperties
<1>4. Head(s) = s[1] /\ s[1] \in S
  BY <1>3, ElementOfSeq
<1> HIDE DEF t
<1>5. Range(s) \subseteq {s[1]} \cup Range(t)
  <2> SUFFICES ASSUME NEW i \in 1..Len(s), i # 1
               PROVE  \E j \in 1..Len(t) : s[i] = t[j]
    BY <1>3 DEF Range
  <2>1. i - 1 \in 1..Len(t)
    BY <1>2, <1>3
  <2>2. t[i - 1] = s[(i - 1) + 1] /\ (i - 1) + 1 = i
    BY <1>2, <2>1
  <2> QED
    BY <2>1, <2>2
<1>6. {s[1]} \cup Range(t) \subseteq Range(s)
  <2>1. s[1] \in Range(s)
    BY <1>3 DEF Range
  <2>2. ASSUME NEW j \in 1..Len(t) PROVE t[j] \in Range(s)
    <3>1. t[j] = s[j + 1] /\ j + 1 \in 1..Len(s)
      BY <1>2, <1>3
    <3> QED
      BY <1>3, <3>1 DEF Range
  <2> QED
    BY <1>3, <2>1, <2>2 DEF Range
<1> QED
  BY <1>2, <1>4, <1>5, <1>6 DEF t

(* What the invariant says of the current step.                            *)
LEMMA CurrentStep ==
    ASSUME RunnerTypes, PipelineInv
    PROVE  /\ IsRequest(offer) /\ Step = todo[1] /\ Step \in Steps
           /\ Step \in {"preprocess", "compile", "verify"} => Converts
           /\ Step = "collect" <=> Len(todo) = 1
           /\ Step = "compile" => "preprocess" \in done
<1> DEFINE p == Pipeline(offer)
<1>1. IsRequest(offer)
  BY RunnerAssumption DEF RunnerTypes
<1>2. /\ Range(todo) = {Head(todo)} \cup Range(Tail(todo))
      /\ Head(todo) = todo[1] /\ todo[1] \in Steps /\ Len(todo) \in Nat /\ Len(todo) >= 1
  <2>1. todo \in Seq(Steps) /\ Len(todo) >= 1
    BY DEF PipelineInv
  <2> QED
    BY <2>1, RangeOfTail, LenProperties
<1>3. ASSUME Step \in {"preprocess", "compile", "verify"} PROVE Converts
  <2>1. Step \in Range(p)
    BY <1>2 DEF PipelineInv, Step
  <2>2. p \in Seq(Steps)
    BY <1>1, PipelineSteps
  <2>3. PICK i \in 1..Len(p) : p[i] = Step
    BY <2>1, <2>2, LenProperties DEF Range
  <2>4. p[i] \in {"preprocess", "compile", "verify"} => offer.adapter = "openexplorer"
    BY <1>1, PipelineSteps
  <2> QED
    BY <1>3, <2>3, <2>4 DEF Converts
<1>4. 1 \in 1..Len(todo)
  BY <1>2
<1>5. Step = "collect" <=> Len(todo) = 1
  BY <1>2, <1>4 DEF PipelineInv, Step
<1>6. Step = "compile" => "preprocess" \in done
  BY <1>2, <1>4 DEF PipelineInv, Step
<1> QED
  BY <1>1, <1>2, <1>3, <1>5, <1>6 DEF Step

(* The file of events only grows.                                          *)
Grows == \E e \in Event : events' = Append(events, e)

LEMMA EmitGrows ==
    ASSUME NEW step \in {"runner"} \cup Steps, NEW type \in EventTypes, NEW whole \in BOOLEAN,
           events' = Append(events, [step |-> step, type |-> type, whole |-> whole])
    PROVE  Grows
<1> DEFINE e == [step |-> step, type |-> type, whole |-> whole]
<1>1. e \in Event /\ events' = Append(events, e)
  BY DEF Event
<1> QED
  BY <1>1 DEF Grows

(* What one step of the Runner may change.                                 *)
LEMMA RunnerEffects ==
    ASSUME RunnerInv, RunnerNext
    PROVE  /\ offer' = offer /\ exit = "none"
           /\ files \subseteq files' /\ files' \subseteq FileNames
           /\ pc \notin {"work", "check"} => files' = files
           /\ events' = events \/ Grows
<1>a. Step \in Steps /\ RunnerTypes /\ StepInv
  <2>1. RunnerTypes /\ PipelineInv /\ StepInv
    BY DEF RunnerInv
  <2> QED
    BY <2>1, CurrentStep
<1>b. files \subseteq FileNames /\ (pc = "check" => Step \in ToolSteps)
  BY <1>a DEF RunnerTypes, StepInv
<1>1. CASE Start
  <2>1. Grows
    BY <1>1, <1>a, EmitGrows DEF Start, Emit, Steps, EventTypes
  <2> QED
    BY <1>1, <1>b, <2>1 DEF Start, At, context, outputs
<1>2. CASE Begin
  <2>1. events' = events \/ Grows
    BY <1>2, <1>a, EmitGrows DEF Begin, Emit, EventTypes
  <2> QED
    BY <1>2, <1>b, <2>1 DEF Begin, At, context, outputs
<1>3. CASE Inspect
  BY <1>3, <1>b DEF Inspect, At, context, outputs, FileNames
<1>4. CASE Preprocess
  BY <1>4, <1>b DEF Preprocess, At, context, outputs, FileNames
<1>5. CASE PreprocessFails
  BY <1>5, <1>b DEF PreprocessFails, At, context, outputs, FileNames
<1>6. CASE Launch
  BY <1>6, <1>b DEF Launch, At, context, outputs
<1>7. CASE LaunchFails
  BY <1>7, <1>b DEF LaunchFails, At, context, outputs
<1>8. CASE ToolReturns
  BY <1>8, <1>b DEF ToolReturns, At, context, outputs
<1>9. CASE StopTool
  BY <1>9, <1>b DEF StopTool, At, context, outputs
<1>10. CASE Check
  <2>1. Produces[Step] \subseteq FileNames
    BY <1>10, <1>b DEF Check, At, Produces, ToolSteps, FileNames
  <2> QED
    BY <1>10, <1>b, <2>1 DEF Check, At, context, outputs
<1>11. CASE CheckFails
  BY <1>11, <1>b DEF CheckFails, At, context, outputs, FileNames
<1>12. CASE End
  <2>1. Grows
    BY <1>12, <1>a, EmitGrows DEF End, Emit, Steps, EventTypes
  <2> QED
    BY <1>12, <1>b, <2>1 DEF End, At, context, outputs
<1>13. CASE StartCollect
  <2>1. Grows
    BY <1>13, <1>a, EmitGrows DEF StartCollect, Emit, Steps, EventTypes
  <2> QED
    BY <1>13, <1>b, <2>1 DEF StartCollect, At, context, outputs
<1>14. CASE Collect
  BY <1>14, <1>b DEF Collect, At, context, outputs
<1>15. CASE EndCollect
  <2>1. Grows
    BY <1>15, <1>a, EmitGrows DEF EndCollect, Emit, Steps, EventTypes
  <2> QED
    BY <1>15, <1>b, <2>1 DEF EndCollect, At, context, outputs
<1>16. CASE WriteResult
  BY <1>16, <1>b DEF WriteResult, At, context, outputs
<1>17. CASE Complete
  <2>1. Grows
    BY <1>17, <1>a, EmitGrows DEF Complete, Emit, Steps, EventTypes
  <2> QED
    BY <1>17, <1>b, <2>1 DEF Complete, At, context, outputs
<1>18. CASE HandlerCollects
  BY <1>18, <1>b DEF HandlerCollects, At, context, outputs
<1>19. CASE HandlerResult
  BY <1>19, <1>b DEF HandlerResult, At, context, outputs
<1>20. CASE HandlerEvent
  <2> DEFINE type == IF error = "RUNNER_CANCELLED" THEN "cancel_requested" ELSE "error"
  <2>1. PICK whole \in BOOLEAN :
          events' = Append(events, [step |-> "runner", whole |-> whole, type |-> type])
    BY <1>20 DEF HandlerEvent
  <2>2. type \in EventTypes
    BY DEF EventTypes
  <2> HIDE DEF type
  <2>3. Grows
    BY <2>1, <2>2, EmitGrows
  <2> QED
    BY <1>20, <1>b, <2>3 DEF HandlerEvent, At, context, outputs
<1>21. CASE WriteFails
  BY <1>21, <1>b DEF WriteFails, At, context, outputs
<1>22. CASE ToolEnds
  BY <1>22, <1>b DEF ToolEnds, At, context, outputs
<1>23. CASE Terminate
  BY <1>23, <1>b DEF Terminate, At, context, outputs
<1>24. CASE Kill
  BY <1>24, <1>b DEF Kill, At, context, outputs
<1> QED
  BY <1>1, <1>2, <1>3, <1>4, <1>5, <1>6, <1>7, <1>8, <1>9, <1>10, <1>11, <1>12, <1>13, <1>14, <1>15, <1>16, <1>17, <1>18, <1>19, <1>20, <1>21, <1>22, <1>23, <1>24 DEF RunnerNext, Process


LEMMA RunnerTypesNext ==
    ASSUME RunnerInv, RunnerNext
    PROVE  RunnerTypes'
<1>1. RunnerTypes
  BY DEF RunnerInv
<1>2. /\ offer' = offer /\ files' \subseteq FileNames
      /\ events' = events \/ Grows
  BY RunnerEffects
<1>3. offer' \in Offers /\ (Converts' => Accepted(offer'))
  BY <1>1, <1>2 DEF RunnerTypes, Converts
<1>4. events' \in Seq(Event)
  <2>1. events \in Seq(Event)
    BY <1>1 DEF RunnerTypes
  <2>2. ASSUME Grows PROVE events' \in Seq(Event)
    <3>1. PICK e \in Event : events' = Append(events, e)
      BY <2>2 DEF Grows
    <3> QED
      BY <2>1, <3>1, AppendProperties
  <2> QED
    BY <1>2, <2>1, <2>2
<1> QED
  BY <1>2, <1>3, <1>4 DEF RunnerTypes

LEMMA PipelineNext ==
    ASSUME RunnerInv, RunnerNext
    PROVE  PipelineInv'
<1>a. /\ RunnerTypes /\ PipelineInv /\ StepInv
  BY DEF RunnerInv
<1>b. offer' = offer
  BY RunnerEffects
<1>c. UNCHANGED <<todo, done>> => PipelineInv'
  BY <1>a, <1>b DEF PipelineInv
<1>d. /\ todo \in Seq(Steps) /\ Len(todo) \in Nat /\ Len(todo) >= 1
      /\ Step = todo[1] /\ Step \in Steps /\ (Step = "collect" <=> Len(todo) = 1)
  <2>1. todo \in Seq(Steps) /\ Len(todo) >= 1
    BY <1>a DEF PipelineInv
  <2> QED
    BY <1>a, <2>1, CurrentStep, LenProperties
<1>1. CASE Start
  BY <1>1, <1>c DEF Start, outputs
<1>2. CASE Begin
  BY <1>2, <1>c DEF Begin, outputs
<1>3. CASE Inspect
  BY <1>3, <1>c DEF Inspect, outputs
<1>4. CASE Preprocess
  BY <1>4, <1>c DEF Preprocess, outputs
<1>5. CASE PreprocessFails
  BY <1>5, <1>c DEF PreprocessFails, outputs
<1>6. CASE Launch
  BY <1>6, <1>c DEF Launch, outputs
<1>7. CASE LaunchFails
  BY <1>7, <1>c DEF LaunchFails, outputs
<1>8. CASE ToolReturns
  BY <1>8, <1>c DEF ToolReturns, outputs
<1>9. CASE StopTool
  BY <1>9, <1>c DEF StopTool, outputs
<1>10. CASE Check
  BY <1>10, <1>c DEF Check, outputs
<1>11. CASE CheckFails
  BY <1>11, <1>c DEF CheckFails, outputs
<1>12. CASE End
  <2> DEFINE n == Len(todo)
  <2>1. done' = done \cup {Step} /\ todo' = Tail(todo) /\ n > 1
    <3>1. done' = done \cup {Step} /\ todo' = Tail(todo) /\ pc = "end"
      BY <1>12 DEF End, At
    <3>2. Step # "collect"
      BY <1>a, <3>1 DEF StepInv
    <3>3. Len(todo) # 1
      BY <1>d, <3>2, Zenon
    <3>4. n \in Nat /\ n >= 1
      BY <1>d, Zenon
    <3>5. n > 1
      BY <3>3, <3>4
    <3> QED
      BY <3>1, <3>5
  <2>2. /\ Range(todo) = {Step} \cup Range(todo')
        /\ todo' \in Seq(Steps) /\ Len(todo') = n - 1
        /\ \A i \in 1..n - 1 : todo'[i] = todo[i + 1]
    BY <1>d, <2>1, RangeOfTail
  <2>3. todo' \in Seq(Steps) /\ Len(todo') >= 1
    BY <1>d, <2>1, <2>2
  <2>4. ASSUME NEW i \in 1..n - 1 PROVE todo'[i] = "collect" <=> i = n - 1
    <3>1. i + 1 \in 1..n
      BY <1>d
    <3>2. todo[i + 1] = "collect" <=> i + 1 = n
      BY <1>a, <3>1 DEF PipelineInv
    <3> QED
      BY <1>d, <2>2, <3>2
  <2>5. done' \cup Range(todo') = Range(Pipeline(offer))'
    <3>1. done \cup Range(todo) = Range(Pipeline(offer))
      BY <1>a DEF PipelineInv
    <3> QED
      BY <1>b, <2>1, <2>2, <3>1
  <2>6. ASSUME NEW i \in 1..n - 1, todo'[i] = "compile"
        PROVE  "preprocess" \in done' \/ \E j \in 1..i - 1 : todo'[j] = "preprocess"
    <3>1. i + 1 \in 1..n /\ todo[i + 1] = "compile"
      BY <1>d, <2>2, <2>6
    <3>2. "preprocess" \in done \/ \E k \in 1..(i + 1) - 1 : todo[k] = "preprocess"
      BY <1>a, <3>1 DEF PipelineInv
    <3>3. ASSUME NEW k \in 1..(i + 1) - 1, todo[k] = "preprocess", k # 1
          PROVE  k - 1 \in 1..i - 1 /\ todo'[k - 1] = "preprocess"
      <4>1. k - 1 \in 1..i - 1 /\ k - 1 \in 1..n - 1
        BY <1>d, <3>3
      <4>2. todo'[k - 1] = todo[(k - 1) + 1] /\ (k - 1) + 1 = k
        BY <2>2, <4>1
      <4> QED
        BY <3>3, <4>1, <4>2
    <3> QED
      BY <1>d, <2>1, <3>2, <3>3
  <2> QED
    BY <2>2, <2>3, <2>4, <2>5, <2>6 DEF PipelineInv
<1>13. CASE StartCollect
  BY <1>13, <1>c DEF StartCollect, outputs
<1>14. CASE Collect
  <2>1. todo' = todo /\ done' \in {done, done \cup {"collect"}}
    BY <1>14 DEF Collect
  <2>2. "collect" \in Range(todo)
    <3>1. Len(todo) \in 1..Len(todo)
      BY <1>d
    <3>2. todo[Len(todo)] = "collect"
      BY <1>a, <3>1 DEF PipelineInv
    <3> QED
      BY <1>d, <3>1, <3>2, LenProperties DEF Range
  <2>3. done' \cup Range(todo') = Range(Pipeline(offer))' /\ done \subseteq done'
    BY <1>a, <1>b, <2>1, <2>2 DEF PipelineInv
  <2>4. \A i \in 1..Len(todo) : todo[i] = "compile" =>
          "preprocess" \in done' \/ \E j \in 1..i - 1 : todo[j] = "preprocess"
    BY <1>a, <2>3 DEF PipelineInv
  <2> QED
    BY <1>a, <2>1, <2>3, <2>4 DEF PipelineInv
<1>15. CASE EndCollect
  BY <1>15, <1>c DEF EndCollect, outputs
<1>16. CASE WriteResult
  BY <1>16, <1>c DEF WriteResult, outputs
<1>17. CASE Complete
  BY <1>17, <1>c DEF Complete, outputs
<1>18. CASE HandlerCollects
  BY <1>18, <1>c DEF HandlerCollects, outputs
<1>19. CASE HandlerResult
  BY <1>19, <1>c DEF HandlerResult, outputs
<1>20. CASE HandlerEvent
  BY <1>20, <1>c DEF HandlerEvent, outputs
<1>21. CASE WriteFails
  BY <1>21, <1>c DEF WriteFails, outputs
<1>22. CASE ToolEnds
  BY <1>22, <1>c DEF ToolEnds, outputs
<1>23. CASE Terminate
  BY <1>23, <1>c DEF Terminate, outputs
<1>24. CASE Kill
  BY <1>24, <1>c DEF Kill, outputs
<1> QED
  BY <1>1, <1>2, <1>3, <1>4, <1>5, <1>6, <1>7, <1>8, <1>9, <1>10, <1>11, <1>12, <1>13, <1>14, <1>15, <1>16, <1>17, <1>18, <1>19, <1>20, <1>21, <1>22, <1>23, <1>24 DEF RunnerNext, Process


LEMMA StepNext ==
    ASSUME RunnerInv, RunnerNext
    PROVE  StepInv'
<1>a. RunnerTypes /\ PipelineInv /\ StepInv
  BY DEF RunnerInv
<1>b. files \subseteq files'
  BY RunnerEffects
<1>c. UNCHANGED todo => UNCHANGED Step
  BY DEF Step
<1>d. ToolSteps = {"check", "compile", "verify"}
  BY DEF ToolSteps
<1>1. CASE Start
  BY <1>1, <1>a, <1>b, <1>c, <1>d DEF StepInv, Start, At, Raise, outputs
<1>2. CASE Begin
  BY <1>2, <1>a, <1>b, <1>c, <1>d DEF StepInv, Begin, At, Raise, outputs
<1>3. CASE Inspect
  BY <1>3, <1>a, <1>b, <1>c, <1>d DEF StepInv, Inspect, At, Raise, outputs
<1>4. CASE Preprocess
  BY <1>4, <1>a, <1>b, <1>c, <1>d DEF StepInv, Preprocess, At, Raise, outputs
<1>5. CASE PreprocessFails
  BY <1>5, <1>a, <1>b, <1>c, <1>d DEF StepInv, PreprocessFails, At, Raise, outputs
<1>6. CASE Launch
  BY <1>6, <1>a, <1>b, <1>c, <1>d DEF StepInv, Launch, At, Raise, outputs
<1>7. CASE LaunchFails
  BY <1>7, <1>a, <1>b, <1>c, <1>d DEF StepInv, LaunchFails, At, Raise, outputs
<1>8. CASE ToolReturns
  BY <1>8, <1>a, <1>b, <1>c, <1>d DEF StepInv, ToolReturns, At, Raise, outputs
<1>9. CASE StopTool
  BY <1>9, <1>a, <1>b, <1>c, <1>d DEF StepInv, StopTool, At, Raise, outputs
<1>10. CASE Check
  BY <1>10, <1>a, <1>b, <1>c, <1>d DEF StepInv, Check, At, Raise, outputs
<1>11. CASE CheckFails
  BY <1>11, <1>a, <1>b, <1>c, <1>d DEF StepInv, CheckFails, At, Raise, outputs
<1>12. CASE End
  BY <1>12, <1>a, <1>b, <1>c, <1>d DEF StepInv, End, At, Raise, outputs
<1>13. CASE StartCollect
  BY <1>13, <1>a, <1>b, <1>c, <1>d DEF StepInv, StartCollect, At, Raise, outputs
<1>14. CASE Collect
  BY <1>14, <1>a, <1>b, <1>c, <1>d DEF StepInv, Collect, At, Raise, outputs
<1>15. CASE EndCollect
  BY <1>15, <1>a, <1>b, <1>c, <1>d DEF StepInv, EndCollect, At, Raise, outputs
<1>16. CASE WriteResult
  BY <1>16, <1>a, <1>b, <1>c, <1>d DEF StepInv, WriteResult, At, Raise, outputs
<1>17. CASE Complete
  BY <1>17, <1>a, <1>b, <1>c, <1>d DEF StepInv, Complete, At, Raise, outputs
<1>18. CASE HandlerCollects
  BY <1>18, <1>a, <1>b, <1>c, <1>d DEF StepInv, HandlerCollects, At, Raise, outputs
<1>19. CASE HandlerResult
  BY <1>19, <1>a, <1>b, <1>c, <1>d DEF StepInv, HandlerResult, At, Raise, outputs
<1>20. CASE HandlerEvent
  BY <1>20, <1>a, <1>b, <1>c, <1>d DEF StepInv, HandlerEvent, At, Raise, outputs
<1>21. CASE WriteFails
  BY <1>21, <1>a, <1>b, <1>c, <1>d DEF StepInv, WriteFails, At, Raise, outputs
<1>22. CASE ToolEnds
  BY <1>22, <1>a, <1>b, <1>c, <1>d DEF StepInv, ToolEnds, At, Raise, outputs
<1>23. CASE Terminate
  BY <1>23, <1>a, <1>b, <1>c, <1>d DEF StepInv, Terminate, At, Raise, outputs
<1>24. CASE Kill
  BY <1>24, <1>a, <1>b, <1>c, <1>d DEF StepInv, Kill, At, Raise, outputs
<1> QED
  BY <1>1, <1>2, <1>3, <1>4, <1>5, <1>6, <1>7, <1>8, <1>9, <1>10, <1>11, <1>12, <1>13, <1>14, <1>15, <1>16, <1>17, <1>18, <1>19, <1>20, <1>21, <1>22, <1>23, <1>24 DEF RunnerNext, Process


LEMMA LastOfAppend ==
    ASSUME NEW S, NEW s \in Seq(S), NEW e
    PROVE  Last(Append(s, e)) = e
<1>1. s \in Seq(S \cup {e}) /\ e \in S \cup {e}
  BY SeqMonotonic
<1>2. /\ Len(Append(s, e)) = Len(s) + 1
      /\ Append(s, e)[Len(s) + 1] = e
  BY <1>1, AppendProperties
<1> QED
  BY <1>2 DEF Last

LEMMA ResultNext ==
    ASSUME RunnerInv, RunnerNext
    PROVE  ResultInv'
<1>a. ResultInv /\ StepInv /\ RunnerTypes
  BY DEF RunnerInv
<1>b. UNCHANGED offer /\ files \subseteq FileNames /\ exit = "none"
      /\ (pc \notin {"work", "check"} => files' = files)
  BY <1>a, RunnerEffects DEF RunnerTypes
<1>c. UNCHANGED <<todo, done, manifest, files, offer>> => UNCHANGED Collected
  BY DEF Collected, Step, Required, Converts
<1>d. result = "succeeded" => pc \in {"complete", "handler", "handler_result"} /\ Collected
  BY <1>a DEF ResultInv
<1>e. /\ pc \in {"collected", "write", "complete"} => Collected
      /\ pc = "complete" => result = "succeeded"
  BY <1>a DEF ResultInv
<1>1. CASE Start
  BY <1>1, <1>b, <1>c, <1>d, <1>e DEF ResultInv, Start, At, Raise, outputs
<1>2. CASE Begin
  BY <1>2, <1>b, <1>c, <1>d, <1>e DEF ResultInv, Begin, At, Raise, outputs
<1>3. CASE Inspect
  BY <1>3, <1>b, <1>c, <1>d, <1>e DEF ResultInv, Inspect, At, Raise, outputs
<1>4. CASE Preprocess
  BY <1>4, <1>b, <1>c, <1>d, <1>e DEF ResultInv, Preprocess, At, Raise, outputs
<1>5. CASE PreprocessFails
  BY <1>5, <1>b, <1>c, <1>d, <1>e DEF ResultInv, PreprocessFails, At, Raise, outputs
<1>6. CASE Launch
  BY <1>6, <1>b, <1>c, <1>d, <1>e DEF ResultInv, Launch, At, Raise, outputs
<1>7. CASE LaunchFails
  BY <1>7, <1>b, <1>c, <1>d, <1>e DEF ResultInv, LaunchFails, At, Raise, outputs
<1>8. CASE ToolReturns
  BY <1>8, <1>b, <1>c, <1>d, <1>e DEF ResultInv, ToolReturns, At, Raise, outputs
<1>9. CASE StopTool
  BY <1>9, <1>b, <1>c, <1>d, <1>e DEF ResultInv, StopTool, At, Raise, outputs
<1>10. CASE Check
  BY <1>10, <1>b, <1>c, <1>d, <1>e DEF ResultInv, Check, At, Raise, outputs
<1>11. CASE CheckFails
  BY <1>11, <1>b, <1>c, <1>d, <1>e DEF ResultInv, CheckFails, At, Raise, outputs
<1>12. CASE End
  BY <1>12, <1>b, <1>c, <1>d, <1>e DEF ResultInv, End, At, Raise, outputs
<1>13. CASE StartCollect
  BY <1>13, <1>b, <1>c, <1>d, <1>e DEF ResultInv, StartCollect, At, Raise, outputs
<1>14. CASE Collect
  <2>1. Step = "collect" /\ files # Missing
    <3>1. Step = "collect"
      BY <1>14, <1>a DEF StepInv, Collect, At
    <3>2. "missing" \notin files
      BY <1>b DEF FileNames
    <3> QED
      BY <3>1, <3>2 DEF Missing
  <2>2. result # "succeeded"
    BY <1>14, <1>d DEF Collect, At
  <2>3. CASE Required \subseteq files
    <3>1. manifest' = files /\ files' = files /\ "collect" \in done' /\ todo' = todo
      BY <1>14, <2>3 DEF Collect, outputs
    <3>2. Step' = Step /\ Required' = Required
      BY <1>b, <3>1 DEF Step, Required, Converts
    <3>3. Collected'
      BY <2>1, <2>3, <3>1, <3>2 DEF Collected
    <3>4. pc' = "collected" /\ result' = result /\ exit' = exit
      BY <1>14, <2>3 DEF Collect
    <3> QED
      BY <1>b, <2>2, <3>3, <3>4 DEF ResultInv
  <2>4. CASE ~(Required \subseteq files)
    BY <1>14, <1>b, <2>2, <2>4 DEF ResultInv, Collect, Raise
  <2> QED
    BY <2>3, <2>4
<1>15. CASE EndCollect
  BY <1>15, <1>b, <1>c, <1>d, <1>e DEF ResultInv, EndCollect, At, Raise, outputs
<1>16. CASE WriteResult
  BY <1>16, <1>b, <1>c, <1>d, <1>e DEF ResultInv, WriteResult, At, Raise, outputs
<1>17. CASE Complete
  <2>1. Collected' /\ result' = result /\ pc' = "complete"
    BY <1>17, <1>b, <1>c, <1>e DEF Complete, At, context, outputs
  <2>2. Last(events').type = "runner_completed"
    BY <1>17, <1>a, LastOfAppend DEF Complete, Emit, RunnerTypes
  <2>3. result = "succeeded"
    BY <1>17, <1>e DEF Complete, At
  <2> QED
    BY <2>1, <2>2, <2>3 DEF ResultInv
<1>18. CASE HandlerCollects
  <2>1. /\ pc' = "handler_result" /\ exit' = exit /\ result' = result
        /\ UNCHANGED <<todo, done, files, offer>>
        /\ manifest # Missing => manifest' = manifest
    BY <1>18 DEF HandlerCollects, context
  <2>2. result = "succeeded" => Collected'
    BY <1>c, <1>d, <2>1 DEF Collected
  <2> QED
    BY <1>b, <2>1, <2>2 DEF ResultInv
<1>19. CASE HandlerResult
  BY <1>19, <1>b, <1>c, <1>d, <1>e DEF ResultInv, HandlerResult, At, Raise, outputs
<1>20. CASE HandlerEvent
  BY <1>20, <1>b, <1>c, <1>d, <1>e DEF ResultInv, HandlerEvent, At, Raise, outputs
<1>21. CASE WriteFails
  BY <1>21, <1>b, <1>c, <1>d, <1>e DEF ResultInv, WriteFails, At, Raise, outputs
<1>22. CASE ToolEnds
  BY <1>22, <1>b, <1>c, <1>d, <1>e DEF ResultInv, ToolEnds, At, Raise, outputs
<1>23. CASE Terminate
  BY <1>23, <1>b, <1>c, <1>d, <1>e DEF ResultInv, Terminate, At, Raise, outputs
<1>24. CASE Kill
  BY <1>24, <1>b, <1>c, <1>d, <1>e DEF ResultInv, Kill, At, Raise, outputs
<1> QED
  BY <1>1, <1>2, <1>3, <1>4, <1>5, <1>6, <1>7, <1>8, <1>9, <1>10, <1>11, <1>12, <1>13, <1>14, <1>15, <1>16, <1>17, <1>18, <1>19, <1>20, <1>21, <1>22, <1>23, <1>24 DEF RunnerNext, Process


LEMMA ErrorNext ==
    ASSUME RunnerInv, RunnerNext
    PROVE  AcceptedIsRunnable'
<1> DEFINE Codes == {"CONFIG_INVALID", "CALIBRATION_INVALID_SAMPLE", "CALIBRATION_NPY_INVALID",
                     "VERIFICATION_INPUT_INVALID", "CALIBRATION_PREPROCESS_FAILED"}
<1>a. /\ RunnerTypes /\ PipelineInv /\ StepInv /\ AcceptedIsRunnable
      /\ offer' = offer
  BY RunnerEffects DEF RunnerInv
<1>b. error' \notin Codes => AcceptedIsRunnable'
  BY DEF AcceptedIsRunnable
<1>c. UNCHANGED error => AcceptedIsRunnable'
  BY <1>a DEF AcceptedIsRunnable, Configuration
<1>d. IsRequest(offer) /\ (Converts => Accepted(offer))
  BY <1>a, CurrentStep DEF RunnerTypes
<1>e. ASSUME Step \in ToolSteps PROVE ToolError[Step] \notin Codes
  BY <1>e DEF ToolSteps, ToolError
<1>f. pc = "watch" => Step \in ToolSteps
  BY <1>a DEF StepInv
<1>1. CASE Start
  <2>1. Converts => ValidConfiguration(Configuration)
    BY <1>d DEF Accepted, Configuration
  <2>2. UNCHANGED error
    BY <1>1, <2>1 DEF Start
  <2> QED
    BY <1>c, <2>2
<1>2. CASE Begin
  BY <1>2, <1>b, <1>c, <1>e, <1>f DEF Begin, At, Raise
<1>3. CASE Inspect
  BY <1>3, <1>b, <1>c, <1>e, <1>f DEF Inspect, At, Raise
<1>4. CASE Preprocess
  <2> DEFINE code == PreprocessError(Configuration, offer)
  <2>1. Converts
    BY <1>4, <1>a, CurrentStep DEF Preprocess
  <2>2. /\ code \in {"none", "CALIBRATION_PREPROCESS_FAILED"}
        /\ code = "CALIBRATION_PREPROCESS_FAILED" =>
             offer.short # NotGiven /\ offer.short < Max({Configuration.crop[i] : i \in {1, 2}})
    BY <1>d, <2>1, PreprocessOfAccepted DEF Configuration
  <2>3. CASE code = "none"
    BY <1>4, <1>c, <2>3 DEF Preprocess
  <2>4. CASE code # "none"
    <3>1. error' \in {"RUNNER_FAILED", code}
      BY <1>4, <2>4 DEF Preprocess, Raise
    <3>2. CASE error' = "RUNNER_FAILED"
      BY <1>b, <3>2
    <3>3. CASE error' = code
      <4>1. error' = "CALIBRATION_PREPROCESS_FAILED"
        BY <2>2, <2>4, <3>3
      <4>2. offer'.short # NotGiven /\
            offer'.short < Max({Configuration'.crop[i] : i \in {1, 2}})
        BY <1>a, <2>2, <2>4 DEF Configuration
      <4> QED
        BY <4>1, <4>2 DEF AcceptedIsRunnable
    <3> QED
      BY <3>1, <3>2, <3>3
  <2> QED
    BY <2>3, <2>4
<1>5. CASE PreprocessFails
  BY <1>5, <1>b, <1>c, <1>e, <1>f DEF PreprocessFails, At, Raise
<1>6. CASE Launch
  <2>1. Step \in ToolSteps
    BY <1>6 DEF Launch
  <2>2. Ready(Step) \in {"none", "VERIFICATION_MODEL_MISSING"}
    <3>1. CASE Step = "compile"
      <4>1. "generated" \in files
        BY <1>a, <3>1, CurrentStep DEF StepInv
      <4> QED
        BY <3>1, <4>1 DEF Ready
    <3>2. CASE Step = "verify"
      <4>1. VerifyError(Configuration, offer) = "none"
        BY <1>a, <1>d, <3>2, CurrentStep, VerifyOfAccepted DEF Configuration
      <4> QED
        BY <3>2, <4>1 DEF Ready
    <3>3. CASE Step = "check"
      BY <3>3 DEF Ready
    <3> QED
      BY <2>1, <3>1, <3>2, <3>3 DEF ToolSteps
  <2>3. UNCHANGED error \/ error' \in {"RUNNER_FAILED", "VERIFICATION_MODEL_MISSING"}
    BY <1>6, <2>2 DEF Launch, Raise
  <2> QED
    BY <1>b, <1>c, <2>3
<1>7. CASE LaunchFails
  BY <1>7, <1>b, <1>c, <1>e, <1>f DEF LaunchFails, At, Raise
<1>8. CASE ToolReturns
  BY <1>8, <1>b, <1>c, <1>e, <1>f DEF ToolReturns, At, Raise
<1>9. CASE StopTool
  BY <1>9, <1>b, <1>c, <1>e, <1>f DEF StopTool, At, Raise
<1>10. CASE Check
  BY <1>10, <1>b, <1>c, <1>e, <1>f DEF Check, At, Raise
<1>11. CASE CheckFails
  BY <1>11, <1>b, <1>c, <1>e, <1>f DEF CheckFails, At, Raise
<1>12. CASE End
  BY <1>12, <1>b, <1>c, <1>e, <1>f DEF End, At, Raise
<1>13. CASE StartCollect
  BY <1>13, <1>b, <1>c, <1>e, <1>f DEF StartCollect, At, Raise
<1>14. CASE Collect
  BY <1>14, <1>b, <1>c, <1>e, <1>f DEF Collect, At, Raise
<1>15. CASE EndCollect
  BY <1>15, <1>b, <1>c, <1>e, <1>f DEF EndCollect, At, Raise
<1>16. CASE WriteResult
  BY <1>16, <1>b, <1>c, <1>e, <1>f DEF WriteResult, At, Raise
<1>17. CASE Complete
  BY <1>17, <1>b, <1>c, <1>e, <1>f DEF Complete, At, Raise
<1>18. CASE HandlerCollects
  BY <1>18, <1>b, <1>c, <1>e, <1>f DEF HandlerCollects, At, Raise
<1>19. CASE HandlerResult
  BY <1>19, <1>b, <1>c, <1>e, <1>f DEF HandlerResult, At, Raise
<1>20. CASE HandlerEvent
  BY <1>20, <1>b, <1>c, <1>e, <1>f DEF HandlerEvent, At, Raise
<1>21. CASE WriteFails
  BY <1>21, <1>b, <1>c, <1>e, <1>f DEF WriteFails, At, Raise
<1>22. CASE ToolEnds
  BY <1>22, <1>b, <1>c, <1>e, <1>f DEF ToolEnds, At, Raise
<1>23. CASE Terminate
  BY <1>23, <1>b, <1>c, <1>e, <1>f DEF Terminate, At, Raise
<1>24. CASE Kill
  BY <1>24, <1>b, <1>c, <1>e, <1>f DEF Kill, At, Raise
<1> QED
  BY <1>1, <1>2, <1>3, <1>4, <1>5, <1>6, <1>7, <1>8, <1>9, <1>10, <1>11, <1>12, <1>13, <1>14, <1>15, <1>16, <1>17, <1>18, <1>19, <1>20, <1>21, <1>22, <1>23, <1>24 DEF RunnerNext, Process


LEMMA RunnerInvNext ==
    ASSUME RunnerInv, RunnerNext
    PROVE  RunnerInv'
BY RunnerTypesNext, PipelineNext, StepNext, ResultNext, ErrorNext DEF RunnerInv

LEMMA RunnerInvStutters ==
    ASSUME RunnerInv, UNCHANGED runnerVars
    PROVE  RunnerInv'
<1>1. RunnerTypes' /\ PipelineInv'
  BY DEF RunnerInv, RunnerTypes, PipelineInv, Converts, runnerVars
<1>2. StepInv' /\ ResultInv'
  BY DEF RunnerInv, StepInv, ResultInv, Collected, Required, Converts, Step, runnerVars, outputs,
         context
<1>3. AcceptedIsRunnable'
  BY DEF RunnerInv, AcceptedIsRunnable, Configuration, runnerVars
<1> QED
  BY <1>1, <1>2, <1>3 DEF RunnerInv

LEMMA RunnerInvInit == ASSUME Init PROVE RunnerInv
<1> DEFINE p == Pipeline(offer)
<1>1. IsRequest(offer) /\ offer \in Offers /\ (Converts => Accepted(offer))
  BY RunnerAssumption DEF Init, Converts
<1>2. RunnerTypes
  BY <1>1, EmptySeq DEF Init, RunnerTypes
<1>3. PipelineInv
  <2>1. /\ todo \in Seq(Steps) /\ Len(todo) >= 1
        /\ \A i \in 1..Len(todo) : todo[i] = "collect" <=> i = Len(todo)
        /\ \A i \in 1..Len(todo) : todo[i] = "compile" =>
             \E j \in 1..i - 1 : todo[j] = "preprocess"
    BY <1>1, PipelineSteps DEF Init
  <2>2. done \cup Range(todo) = Range(p)
    BY DEF Init
  <2> QED
    BY <2>1, <2>2 DEF PipelineInv
<1>4. StepInv /\ ResultInv /\ AcceptedIsRunnable
  BY DEF Init, StepInv, ResultInv, AcceptedIsRunnable
<1> QED
  BY <1>2, <1>3, <1>4 DEF RunnerInv

(* The invariant says what the run checks.                                 *)
LEMMA RunnerInvBacks == ASSUME RunnerInv PROVE ResultIsBacked
<1>1. RunnerTypes /\ PipelineInv /\ StepInv /\ ResultInv
  BY DEF RunnerInv
<1>2. exit = "zero" => result = "succeeded" /\ Last(events).type = "runner_completed"
  BY <1>1 DEF ResultInv
<1>3. ASSUME result = "succeeded"
      PROVE  /\ ToolSteps \cap Range(Pipeline(offer)) \subseteq passed
             /\ done = Range(Pipeline(offer))
             /\ manifest # Missing
             /\ Required \subseteq manifest /\ manifest \subseteq files
  <2>1. Collected
    BY <1>1, <1>3 DEF ResultInv
  <2>2. todo \in Seq(Steps) /\ Len(todo) = 1 /\ todo[1] = "collect"
    BY <1>1, <2>1, CurrentStep DEF PipelineInv, Collected
  <2>3. Range(todo) = {"collect"}
    BY <2>2, LenProperties DEF Range
  <2>4. done = Range(Pipeline(offer))
    BY <1>1, <2>1, <2>3 DEF PipelineInv, Collected
  <2>5. ToolSteps \cap done \subseteq passed
    BY <1>1 DEF StepInv
  <2> QED
    BY <2>1, <2>4, <2>5 DEF Collected
<1> QED
  BY <1>2, <1>3 DEF ResultIsBacked

----------------------------------------------------------------------------
(* The invariant of the stream                                             *)

LastGot == IF got = <<>> THEN 0 ELSE Last(got)

StreamTypes ==
    /\ status \in {"active", "terminal"} /\ due \in 0..Len(events)
    /\ stream \in [pc : {"closed", "read", "send"}, upto : 0..Len(events), seen : Nat,
                   emitted : BOOLEAN, idle : Nat]
    /\ got \in Seq(1..Len(events))

(* The client has what was whole up to the last event it received; a round *)
(* that is idle after the run has ended has read all that the run wrote.   *)
StreamInv ==
    /\ \A i, j \in 1..Len(got) : i < j => got[i] < got[j]
    /\ Range(got) = Whole(LastGot)
    /\ stream.pc # "closed" => stream.seen = LastGot
    /\ stream.idle >= 1 => status = "terminal"
    /\ stream.idle >= 1 /\ stream.pc = "send" => stream.upto >= due
    /\ ended => status = "terminal" /\ Whole(due) \subseteq Range(got)

WatchInv == RunnerInv /\ StreamTypes /\ StreamInv

LEMMA LastGotTypes ==
    ASSUME StreamTypes, events \in Seq(Event)
    PROVE  /\ Len(got) \in Nat /\ Len(events) \in Nat
           /\ LastGot \in 0..Len(events)
           /\ got # <<>> => Len(got) >= 1 /\ LastGot = got[Len(got)]
           /\ got = <<>> => Len(got) = 0 /\ LastGot = 0
<1>1. Len(events) \in Nat
  BY LenProperties
<1>2. got \in Seq(1..Len(events))
  BY DEF StreamTypes
<1>3. Len(got) \in Nat /\ (got # <<>> => Len(got) # 0) /\ (got = <<>> => Len(got) = 0)
  BY <1>2, EmptySeq, LenProperties
<1>4. CASE got = <<>>
  BY <1>1, <1>3, <1>4 DEF LastGot
<1>5. CASE got # <<>>
  <2>1. Len(got) \in 1..Len(got)
    BY <1>3, <1>5
  <2>2. got[Len(got)] \in 1..Len(events)
    BY <1>2, <2>1, ElementOfSeq
  <2> QED
    BY <1>1, <1>3, <1>5, <2>2 DEF LastGot, Last
<1> QED
  BY <1>4, <1>5

(* A line that is there stays what it is.                                  *)
LEMMA WholeStays ==
    ASSUME events \in Seq(Event), events' = events \/ Grows
    PROVE  /\ Len(events) \in Nat /\ Len(events') \in Nat /\ Len(events) <= Len(events')
           /\ \A n \in 0..Len(events) : Whole(n)' = Whole(n)
<1>1. /\ Len(events) \in Nat /\ Len(events') \in Nat /\ Len(events) <= Len(events')
      /\ \A i \in 1..Len(events) : events'[i] = events[i]
  <2>1. CASE events' = events
    BY <2>1, LenProperties
  <2>2. CASE Grows
    <3>1. PICK e \in Event : events' = Append(events, e)
      BY <2>2 DEF Grows
    <3>2. /\ Len(events') = Len(events) + 1
          /\ \A i \in 1..Len(events) : events'[i] = events[i]
      BY <3>1, AppendProperties
    <3> QED
      BY <3>2, LenProperties
  <2> QED
    BY <2>1, <2>2
<1>2. ASSUME NEW n \in 0..Len(events) PROVE Whole(n)' = Whole(n)
  <2>1. \A i \in 1..n : events'[i] = events[i]
    BY <1>1
  <2> QED
    BY <2>1 DEF Whole
<1> QED
  BY <1>1, <1>2

(* The Runner and the end of the run.                                      *)
LEMMA WatchRunner ==
    ASSUME WatchInv, RunnerNext, UNCHANGED streamVars
    PROVE  WatchInv'
<1>1. RunnerInv' /\ events \in Seq(Event) /\ (events' = events \/ Grows)
  BY RunnerInvNext, RunnerEffects DEF WatchInv, RunnerInv, RunnerTypes
<1>2. /\ Len(events) \in Nat /\ Len(events') \in Nat /\ Len(events) <= Len(events')
      /\ \A n \in 0..Len(events) : Whole(n)' = Whole(n)
  BY <1>1, WholeStays
<1>3. /\ status' = status /\ due' = due /\ stream' = stream /\ got' = got /\ ended' = ended
      /\ LastGot' = LastGot
  BY DEF streamVars, LastGot
<1>4. StreamTypes /\ StreamInv
  BY DEF WatchInv
<1>5. due \in 0..Len(events) /\ LastGot \in 0..Len(events)
  BY <1>1, <1>4, LastGotTypes DEF StreamTypes
<1>6. Whole(due)' = Whole(due) /\ Whole(LastGot)' = Whole(LastGot)
  BY <1>2, <1>3, <1>5 DEF Whole
<1>7. StreamTypes'
  <2>1. got' \in Seq(1..Len(events'))
    <3>1. 1..Len(events) \subseteq 1..Len(events')
      BY <1>2
    <3> QED
      BY <1>3, <1>4, <3>1, SeqMonotonic DEF StreamTypes
  <2>2. 0..Len(events) \subseteq 0..Len(events')
    BY <1>2
  <2> QED
    BY <1>3, <1>4, <2>1, <2>2 DEF StreamTypes
<1>8. StreamInv'
  BY <1>3, <1>4, <1>6 DEF StreamInv
<1> QED
  BY <1>1, <1>7, <1>8 DEF WatchInv

LEMMA WatchEndRun ==
    ASSUME WatchInv, EndRun, status = "active"
    PROVE  WatchInv'
<1>1. UNCHANGED runnerVars /\ events' = events /\ status' = "terminal" /\ due' = Len(events)
      /\ stream' = stream /\ got' = got /\ ended' = ended
  BY DEF EndRun, runnerVars
<1>2. StreamTypes /\ StreamInv /\ events \in Seq(Event)
  BY DEF WatchInv, RunnerInv, RunnerTypes
<1>3. RunnerInv'
  BY <1>1, RunnerInvStutters DEF WatchInv
<1>4. LastGot' = LastGot /\ \A n : Whole(n)' = Whole(n)
  BY <1>1 DEF LastGot, Whole
<1>5. ~ended
  BY <1>2 DEF StreamInv
<1>6. StreamTypes'
  BY <1>1, <1>2, LenProperties DEF StreamTypes
<1>7. stream.idle = 0
  BY <1>2 DEF StreamTypes, StreamInv
<1>8. StreamInv'
  BY <1>1, <1>2, <1>4, <1>5, <1>7 DEF StreamInv
<1> QED
  BY <1>3, <1>6, <1>8 DEF WatchInv

(* The steps of the stream leave the Runner and its events alone.          *)
LEMMA WatchUnchanged ==
    ASSUME WatchInv, UNCHANGED runnerVars
    PROVE  /\ RunnerInv' /\ events' = events /\ events \in Seq(Event)
           /\ \A n : Whole(n)' = Whole(n)
           /\ StreamTypes /\ StreamInv
<1>1. events' = events
  BY DEF runnerVars
<1> QED
  BY <1>1, RunnerInvStutters DEF WatchInv, RunnerInv, RunnerTypes, Whole

LEMMA WatchConnect ==
    ASSUME WatchInv, Connect
    PROVE  WatchInv'
<1>1. /\ UNCHANGED <<runnerVars, status, due, got, ended>>
      /\ stream' = [pc |-> "read", upto |-> 0, seen |-> LastGot, emitted |-> FALSE, idle |-> 0]
  BY DEF Connect, Closed, LastGot
<1>2. /\ RunnerInv' /\ events' = events /\ events \in Seq(Event)
      /\ \A n : Whole(n)' = Whole(n)
      /\ StreamTypes /\ StreamInv
  BY <1>1, WatchUnchanged
<1>3. LastGot' = LastGot /\ LastGot \in Nat /\ Len(events) \in Nat
  BY <1>1, <1>2, LastGotTypes DEF LastGot
<1>4. StreamTypes'
  BY <1>1, <1>2, <1>3 DEF StreamTypes
<1>5. StreamInv'
  BY <1>1, <1>2, <1>3 DEF StreamInv
<1> QED
  BY <1>2, <1>4, <1>5 DEF WatchInv

LEMMA WatchBreak ==
    ASSUME WatchInv, Break
    PROVE  WatchInv'
<1>1. /\ UNCHANGED <<runnerVars, status, due, got, ended>>
      /\ stream' = [pc |-> "closed", upto |-> 0, seen |-> 0, emitted |-> FALSE, idle |-> 0]
  BY DEF Break, Closed
<1>2. /\ RunnerInv' /\ events' = events /\ events \in Seq(Event)
      /\ \A n : Whole(n)' = Whole(n)
      /\ StreamTypes /\ StreamInv
  BY <1>1, WatchUnchanged
<1>3. LastGot' = LastGot /\ Len(events) \in Nat
  BY <1>1, <1>2, LastGotTypes DEF LastGot
<1>4. StreamTypes'
  BY <1>1, <1>2, <1>3 DEF StreamTypes
<1>5. StreamInv'
  BY <1>1, <1>2, <1>3 DEF StreamInv
<1> QED
  BY <1>2, <1>4, <1>5 DEF WatchInv

LEMMA WatchRead ==
    ASSUME WatchInv, Read
    PROVE  WatchInv'
<1>1. /\ UNCHANGED <<runnerVars, status, due, got, ended>> /\ stream.pc = "read"
      /\ stream' = [stream EXCEPT !.pc = "send", !.upto = Len(events), !.emitted = FALSE]
  BY DEF Read
<1>2. /\ RunnerInv' /\ events' = events /\ events \in Seq(Event)
      /\ \A n : Whole(n)' = Whole(n)
      /\ StreamTypes /\ StreamInv
  BY <1>1, WatchUnchanged
<1>3. LastGot' = LastGot /\ Len(events) \in Nat
  BY <1>1, <1>2, LastGotTypes DEF LastGot
<1>4. /\ stream'.pc = "send" /\ stream'.upto = Len(events) /\ stream'.seen = stream.seen
      /\ stream'.emitted = FALSE /\ stream'.idle = stream.idle
      /\ stream' \in [pc : {"closed", "read", "send"}, upto : 0..Len(events), seen : Nat,
                      emitted : BOOLEAN, idle : Nat]
  <2>1. stream \in [pc : {"closed", "read", "send"}, upto : 0..Len(events), seen : Nat,
                    emitted : BOOLEAN, idle : Nat]
    BY <1>2 DEF StreamTypes
  <2>2. Len(events) \in 0..Len(events)
    BY <1>3
  <2>3. stream' = [stream EXCEPT !.pc = "send", !.upto = Len(events), !.emitted = FALSE]
    BY <1>1
  <2> QED
    BY <2>1, <2>2, <2>3
<1>5. StreamTypes'
  BY <1>1, <1>2, <1>4 DEF StreamTypes
<1>6. due <= Len(events)
  BY <1>2, <1>3 DEF StreamTypes
<1>7. StreamInv'
  BY <1>1, <1>2, <1>3, <1>4, <1>6 DEF StreamInv
<1> QED
  BY <1>2, <1>5, <1>7 DEF WatchInv

(* The next event is the next whole line.                                  *)
LEMMA WatchSend ==
    ASSUME WatchInv, Send
    PROVE  WatchInv'
<1>1. PICK next \in Unseen :
        /\ \A i \in Unseen : next <= i
        /\ got' = Append(got, next)
        /\ stream' = [stream EXCEPT !.seen = next, !.emitted = TRUE]
  BY DEF Send
<1>2. UNCHANGED <<runnerVars, status, due, ended>> /\ stream.pc = "send"
  BY DEF Send
<1>3. /\ RunnerInv' /\ events' = events /\ events \in Seq(Event)
      /\ \A n : Whole(n)' = Whole(n)
      /\ StreamTypes /\ StreamInv
  BY <1>2, WatchUnchanged
<1>4. /\ LastGot \in 0..Len(events) /\ Len(events) \in Nat /\ Len(got) \in Nat
      /\ got # <<>> => Len(got) >= 1 /\ LastGot = got[Len(got)]
      /\ got = <<>> => Len(got) = 0 /\ LastGot = 0
  BY <1>3, LastGotTypes
<1>5. stream.seen = LastGot /\ stream.upto \in 0..Len(events)
  BY <1>2, <1>3 DEF StreamTypes, StreamInv
<1>6. /\ next \in 1..stream.upto /\ events[next].whole /\ next > LastGot
      /\ next \in 1..Len(events)
  BY <1>4, <1>5 DEF Unseen, Whole
<1>7. /\ stream'.pc = "send" /\ stream'.upto = stream.upto /\ stream'.seen = next
      /\ stream'.emitted = TRUE /\ stream'.idle = stream.idle
      /\ stream' \in [pc : {"closed", "read", "send"}, upto : 0..Len(events), seen : Nat,
                      emitted : BOOLEAN, idle : Nat]
  <2>1. stream \in [pc : {"closed", "read", "send"}, upto : 0..Len(events), seen : Nat,
                    emitted : BOOLEAN, idle : Nat]
    BY <1>3 DEF StreamTypes
  <2>2. next \in Nat
    BY <1>6
  <2>3. stream' = [stream EXCEPT !.seen = next, !.emitted = TRUE]
    BY <1>1
  <2> QED
    BY <1>2, <2>1, <2>2, <2>3
<1>8. /\ got' \in Seq(1..Len(events)) /\ got' # <<>> /\ Len(got') = Len(got) + 1
      /\ \A i \in 1..Len(got) : got'[i] = got[i]
      /\ got'[Len(got) + 1] = next
  <2>1. got \in Seq(1..Len(events))
    BY <1>3 DEF StreamTypes
  <2> QED
    BY <1>1, <1>6, <2>1, AppendProperties
<1>9. LastGot' = next
  BY <1>8 DEF LastGot, Last
<1>10. StreamTypes'
  BY <1>2, <1>3, <1>7, <1>8 DEF StreamTypes
<1>11. Range(got') = Range(got) \cup {next}
  <2>1. DOMAIN got = 1..Len(got) /\ DOMAIN got' = 1..Len(got')
    BY <1>3, <1>8, LenProperties DEF StreamTypes
  <2>2. 1..Len(got') = 1..Len(got) \cup {Len(got) + 1}
    BY <1>4, <1>8
  <2> QED
    BY <1>8, <2>1, <2>2 DEF Range
<1>12. Whole(next) = Whole(LastGot) \cup {next}
  <2>1. ASSUME NEW i \in Whole(next), i # next PROVE i \in Whole(LastGot)
    <3>1. i \in 1..next /\ events[i].whole /\ i < next
      BY <1>6, <2>1 DEF Whole
    <3>2. i \in Whole(stream.upto)
      BY <1>5, <1>6, <3>1 DEF Whole
    <3>3. ~(i > LastGot)
      BY <1>1, <1>5, <1>6, <3>1, <3>2 DEF Unseen
    <3> QED
      BY <1>4, <3>1, <3>3 DEF Whole
  <2>2. Whole(LastGot) \subseteq Whole(next) /\ next \in Whole(next)
    BY <1>4, <1>6 DEF Whole
  <2> QED
    BY <2>1, <2>2
<1>13. Range(got') = Whole(LastGot)'
  <2>1. Range(got) = Whole(LastGot)
    BY <1>3 DEF StreamInv
  <2>2. Whole(LastGot)' = Whole(next)
    BY <1>3, <1>9 DEF Whole
  <2> QED
    BY <1>11, <1>12, <2>1, <2>2
<1>14. \A i, j \in 1..Len(got') : i < j => got'[i] < got'[j]
  <2> SUFFICES ASSUME NEW i \in 1..Len(got'), NEW j \in 1..Len(got'), i < j
               PROVE  got'[i] < got'[j]
    OBVIOUS
  <2>1. i \in 1..Len(got) /\ got'[i] = got[i]
    BY <1>4, <1>8
  <2>2. got[i] \in 1..Len(events) /\ got[i] <= LastGot
    <3>1. got[i] \in 1..Len(events)
      BY <1>3, <2>1, ElementOfSeq DEF StreamTypes
    <3>2. i < Len(got) => got[i] < got[Len(got)]
      BY <1>3, <1>4, <2>1 DEF StreamInv
    <3>3. Len(got) >= 1 /\ LastGot = got[Len(got)]
      BY <1>4, <2>1
    <3> QED
      BY <1>4, <2>1, <3>1, <3>2, <3>3
  <2>3. CASE j \in 1..Len(got)
    BY <1>3, <1>8, <2>1, <2>3 DEF StreamInv
  <2>4. CASE j = Len(got) + 1
    BY <1>4, <1>6, <1>8, <2>1, <2>2, <2>4
  <2>5. j \in 1..Len(got) \/ j = Len(got) + 1
    <3> DEFINE n == Len(got)
    <3>1. n \in Nat /\ Len(got') = n + 1
      BY <1>4, <1>8
    <3> HIDE DEF n
    <3>2. j \in 1..n \/ j = n + 1
      BY <3>1
    <3> QED
      BY <3>2 DEF n
  <2> QED
    BY <2>3, <2>4, <2>5
<1>15. ended' => status' = "terminal" /\ Whole(due)' \subseteq Range(got')
  BY <1>2, <1>3, <1>11 DEF StreamInv, Whole
<1>16. StreamInv'
  BY <1>2, <1>3, <1>7, <1>9, <1>13, <1>14, <1>15 DEF StreamInv
<1> QED
  BY <1>3, <1>10, <1>16 DEF WatchInv

(* The second idle round ends a stream that has sent everything.           *)
LEMMA WatchAsk ==
    ASSUME WatchInv, Ask
    PROVE  WatchInv'
<1> DEFINE idle == IF status # "terminal" THEN stream.idle
                   ELSE IF stream.emitted THEN 0 ELSE stream.idle + 1
<1>1. UNCHANGED <<runnerVars, status, due, got>> /\ stream.pc = "send" /\ Unseen = {}
  BY DEF Ask
<1>2. \/ /\ idle >= 2 /\ ended' = TRUE
         /\ stream' = [pc |-> "closed", upto |-> 0, seen |-> 0, emitted |-> FALSE, idle |-> 0]
      \/ ended' = ended /\ stream' = [stream EXCEPT !.pc = "read", !.idle = idle]
  BY DEF Ask, Closed
<1>3. /\ RunnerInv' /\ events' = events /\ events \in Seq(Event)
      /\ \A n : Whole(n)' = Whole(n)
      /\ StreamTypes /\ StreamInv
  BY <1>1, WatchUnchanged
<1>4. /\ LastGot' = LastGot /\ Len(events) \in Nat /\ LastGot \in 0..Len(events)
      /\ status \in {"active", "terminal"} /\ due \in 0..Len(events)
      /\ stream.idle \in Nat /\ stream.upto \in 0..Len(events) /\ stream.seen = LastGot
      /\ stream.idle >= 1 => status = "terminal" /\ stream.upto >= due
  BY <1>1, <1>3, LastGotTypes DEF LastGot, StreamTypes, StreamInv
<1>5. idle \in Nat /\ (idle >= 1 => status = "terminal") /\ (idle >= 2 => stream.idle >= 1)
  BY <1>4
<1> HIDE DEF idle
<1>6. CASE ended' = ended /\ stream' = [stream EXCEPT !.pc = "read", !.idle = idle]
  <2>1. /\ stream'.pc = "read" /\ stream'.seen = stream.seen /\ stream'.idle = idle
        /\ stream' \in [pc : {"closed", "read", "send"}, upto : 0..Len(events), seen : Nat,
                        emitted : BOOLEAN, idle : Nat]
    BY <1>3, <1>5, <1>6 DEF StreamTypes
  <2>2. StreamTypes'
    BY <1>1, <1>3, <2>1 DEF StreamTypes
  <2>3. StreamInv'
    BY <1>1, <1>3, <1>4, <1>5, <1>6, <2>1 DEF StreamInv
  <2> QED
    BY <1>3, <2>2, <2>3 DEF WatchInv
<1>7. CASE /\ idle >= 2 /\ ended' = TRUE
           /\ stream' = [pc |-> "closed", upto |-> 0, seen |-> 0, emitted |-> FALSE, idle |-> 0]
  <2>1. status = "terminal" /\ stream.upto >= due
    BY <1>4, <1>5, <1>7
  <2>2. Whole(due) \subseteq Whole(LastGot)
    <3> SUFFICES ASSUME NEW i \in Whole(due) PROVE i \in Whole(LastGot)
      OBVIOUS
    <3>1. i \in Whole(stream.upto) /\ i \in Nat /\ i >= 1 /\ events[i].whole
      BY <1>4, <2>1 DEF Whole
    <3>2. ~(i > LastGot)
      BY <1>1, <1>4, <3>1 DEF Unseen
    <3> QED
      BY <1>4, <3>1, <3>2 DEF Whole
  <2>3. Range(got) = Whole(LastGot)
    BY <1>3 DEF StreamInv
  <2>4. StreamTypes'
    BY <1>1, <1>3, <1>4, <1>7 DEF StreamTypes
  <2>5. StreamInv'
    BY <1>1, <1>3, <1>4, <1>7, <2>1, <2>2, <2>3 DEF StreamInv
  <2> QED
    BY <1>3, <2>4, <2>5 DEF WatchInv
<1> QED
  BY <1>2, <1>6, <1>7

LEMMA WatchInit == ASSUME StreamInit PROVE WatchInv
<1>1. RunnerInv
  BY RunnerInvInit DEF StreamInit
<1>2. /\ status = "active" /\ due = 0 /\ got = <<>> /\ ended = FALSE /\ events = <<>>
      /\ stream = [pc |-> "closed", upto |-> 0, seen |-> 0, emitted |-> FALSE, idle |-> 0]
  BY DEF StreamInit, Init, Closed
<1>3. Len(events) = 0 /\ Len(got) = 0 /\ got \in Seq(1..Len(events))
  BY <1>2, EmptySeq
<1>4. StreamTypes
  BY <1>2, <1>3 DEF StreamTypes
<1>5. LastGot = 0 /\ Range(got) = {} /\ Whole(0) = {}
  BY <1>2 DEF LastGot, Range, Whole
<1>6. StreamInv
  <2>1. stream.pc = "closed" /\ stream.idle = 0 /\ ~ended
    BY <1>2
  <2>2. \A i, j \in 1..Len(got) : i < j => got[i] < got[j]
    BY <1>3
  <2> QED
    BY <1>5, <2>1, <2>2 DEF StreamInv
<1> QED
  BY <1>1, <1>4, <1>6 DEF WatchInv

LEMMA WatchNext == ASSUME WatchInv, [Next]_vars PROVE WatchInv'
<1>1. CASE RunnerNext /\ UNCHANGED streamVars
  BY <1>1, WatchRunner
<1>2. CASE Finish \/ FinishEarly
  BY <1>2, WatchEndRun DEF Finish, FinishEarly
<1>3. CASE Open \/ Resume
  BY <1>3, WatchConnect DEF Open, Resume
<1>4. CASE Break
  BY <1>4, WatchBreak
<1>5. CASE Read
  BY <1>5, WatchRead
<1>6. CASE Send
  BY <1>6, WatchSend
<1>7. CASE Ask
  BY <1>7, WatchAsk
<1>8. CASE UNCHANGED vars
  <2>1. UNCHANGED runnerVars /\ UNCHANGED <<status, due, stream, got, ended>>
    BY <1>8 DEF vars, streamVars
  <2>2. /\ RunnerInv' /\ events' = events /\ \A n : Whole(n)' = Whole(n)
        /\ StreamTypes /\ StreamInv
    BY <2>1, WatchUnchanged
  <2>3. LastGot' = LastGot
    BY <2>1 DEF LastGot
  <2> QED
    BY <2>1, <2>2, <2>3 DEF WatchInv, StreamTypes, StreamInv
<1> QED
  BY <1>1, <1>2, <1>3, <1>4, <1>5, <1>6, <1>7, <1>8 DEF Next, Stream

----------------------------------------------------------------------------
(* The theorems                                                            *)

(* What a request was accepted for, it is fit for: for every request, the  *)
(* checks of the Runner (validate_configuration, the preprocess step, the  *)
(* inputs of the verification) find nothing that normalize_configuration   *)
(* has let pass, but a crop that the user's own resize_short is too small  *)
(* for.                                                                    *)
THEOREM AcceptedRequestsFit ==
    ASSUME NEW o, IsRequest(o), Accepted(o)
    PROVE  LET c == Normalized(o) IN
           /\ ValidConfiguration(c)
           /\ VerifyError(c, o) = "none"
           /\ PreprocessError(c, o) \in {"none", "CALIBRATION_PREPROCESS_FAILED"}
           /\ PreprocessError(c, o) = "CALIBRATION_PREPROCESS_FAILED" =>
                o.short # NotGiven /\ o.short < Max({c.crop[i] : i \in {1, 2}})
<1>1. ValidConfiguration(Normalized(o))
  BY DEF Accepted
<1> QED
  BY <1>1, VerifyOfAccepted, PreprocessOfAccepted

(* The inductive invariant holds of the Runner together with its stream.   *)
THEOREM WatchInvariant == Spec => []WatchInv
<1>1. StreamInit => WatchInv
  BY WatchInit
<1>2. WatchInv /\ [Next]_vars => WatchInv'
  BY WatchNext
<1> QED
  BY <1>1, <1>2, PTL DEF Spec

(* A result that says succeeded is backed by the tools, the steps and the  *)
(* files (main.py:346-360), and only such a result ends the process with 0.*)
THEOREM ResultBacked == Spec => []ResultIsBacked
<1>1. WatchInv => ResultIsBacked
  BY RunnerInvBacks DEF WatchInv
<1> QED
  BY <1>1, WatchInvariant, PTL

(* A conversion that was accepted does not fail in the container over what *)
(* the controller has checked.                                             *)
THEOREM AcceptedRuns == Spec => []AcceptedIsRunnable
<1>1. WatchInv => AcceptedIsRunnable
  BY DEF WatchInv, RunnerInv
<1> QED
  BY <1>1, WatchInvariant, PTL

(* The client receives every event once and in order, over any number of   *)
(* connections, and the terminal event only after all that was written     *)
(* when the run ended (routes.py:842-881).                                 *)
THEOREM StreamComplete == Spec => []StreamIsComplete
<1>1. ASSUME WatchInv PROVE StreamIsComplete
  <2>1. StreamTypes /\ StreamInv /\ events \in Seq(Event)
    BY <1>1 DEF WatchInv, RunnerInv, RunnerTypes
  <2>2. DOMAIN got = 1..Len(got)
    BY <2>1, LenProperties DEF StreamTypes
  <2>3. Range(got) = IF got = <<>> THEN {} ELSE Whole(Last(got))
    <3>1. CASE got = <<>>
      <4>1. LastGot = 0 /\ Whole(0) = {}
        BY <3>1 DEF LastGot, Whole
      <4> QED
        BY <2>1, <3>1, <4>1 DEF StreamInv
    <3>2. CASE got # <<>>
      BY <2>1, <3>2 DEF StreamInv, LastGot
    <3> QED
      BY <3>1, <3>2
  <2> QED
    BY <2>1, <2>2, <2>3 DEF StreamIsComplete, StreamInv
<1> QED
  BY <1>1, WatchInvariant, PTL

=============================================================================
