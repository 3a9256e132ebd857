------------------------------ MODULE MCRunner ------------------------------
(* The requests of run runner: a plain one for each adapter, and variations *)
(* that the checks of the controller and of the Runner tell apart.          *)
EXTENDS EventStream

(* A picture model of 4 x 6, its calibration by pictures of 12 x 8.         *)
Plain ==
    [adapter |-> "openexplorer", platform |-> "s100",
     model |-> <<[name |-> "in1", shape |-> <<1, 3, 4, 6>>]>>, inputs |-> <<>>,
     source |-> "images", count |-> 20, limit |-> 20, short |-> NotGiven,
     picture |-> <<12, 8>>, report |-> <<>>, core |-> NotGiven, l2m |-> NotGiven,
     mode |-> "latency", balance |-> NotGiven, cache |-> "disable", verify |-> "disabled"]

Given(shape, layout, train, runtime) ==
    [shape |-> shape, layout |-> layout, train |-> train, runtime |-> runtime]

Shapes(in1) == "in1" :> in1

Arrays == [Plain EXCEPT !.source = "npy", !.model[1].shape = <<Dynamic, 3, 4, 6>>,
                        !.inputs = <<Given(<<1, 3, 4, 6>>, "NCHW", "rgb", "nv12")>>,
                        !.report = Shapes(<<3, 4, 6>>)]

TwoInputs ==
    [Plain EXCEPT !.source = "npy_multi", !.verify = "basic",
       !.model = <<[name |-> "in1", shape |-> <<1, 4, 6, 3>>], [name |-> "in2", shape |-> <<1, 5>>]>>,
       !.inputs = <<Given(<<>>, "NHWC", "rgb", "nv12"), Given(<<>>, "NCHW", "featuremap", "featuremap")>>,
       !.report = ("in1" :> <<4, 6, 3>>) @@ ("in2" :> <<5>>)]

MCOffers ==
    { [Plain EXCEPT !.adapter = "probe"],
      [Plain EXCEPT !.adapter = "inspection"],
      [Plain EXCEPT !.count = 19, !.verify = "basic"],           \* too few samples
      [Plain EXCEPT !.limit = 100, !.count = 100, !.short = 6],
      [Plain EXCEPT !.short = 4, !.picture = <<5, 4>>],          \* smaller than the crop
      [Plain EXCEPT !.inputs = <<Given(<<>>, "NHWC", "rgb", "nv12")>>],
      [Plain EXCEPT !.model[1].shape = <<1, 4, 6, 1>>, !.verify = "basic",
                    !.inputs = <<Given(<<>>, "NHWC", "gray", "featuremap")>>],
      [Plain EXCEPT !.core = 2],
      [Plain EXCEPT !.platform = "s600", !.core = 2, !.l2m = AutoL2m, !.mode = "balance",
                    !.balance = 50],
      Arrays,
      [Arrays EXCEPT !.report = Shapes(<<3, 4, 5>>)],
      [Arrays EXCEPT !.inputs = <<>>],
      TwoInputs,
      [TwoInputs EXCEPT !.report = Shapes(<<4, 6, 3>>)] }

MCWatched == {o \in MCOffers : o.adapter \in {"probe", "inspection"}}

=============================================================================
