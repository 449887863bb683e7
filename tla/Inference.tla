------------------------------ MODULE Inference ------------------------------
(***************************************************************************)
(* The INT8 interpreter of edge_ai_quadcopter_controller/include/          *)
(* edge_ai_quadcopter/inference_engine.h: lidar beams are quantized,       *)
(* go through three dense layers and come out as the probability of an     *)
(* obstacle, on which the control loop brakes.                             *)
(*                                                                         *)
(* A layer is a record of its weights (row-major, one row per input), its  *)
(* biases and step = <<n, d>>, the real value of one unit of the           *)
(* accumulator in units of the layer's output.                             *)
(***************************************************************************)
EXTENDS Rational, Sequences, FiniteSetsExt, Functions

CONSTANTS Layers,      \* the two hidden layers and the output layer
          InputScale,  \* metres per unit of an input, a fraction
          BrakeAt      \* the accumulator of the output beyond which the
                       \* dequantized sigmoid is greater than 0.8

\* A unit of an accumulator is at most one of the output, so that what fits
\* int32_t before it is scaled still does when it is rounded.
IsLayer(layer) ==
    /\ layer.weights \in Seq(Int) /\ layer.bias \in Seq(Int)
    /\ layer.step \in Fraction /\ layer.step[1] > 0 /\ layer.step[1] <= layer.step[2]
Fits(inputs, layer) == Len(layer.weights) = inputs * Len(layer.bias)

ASSUME InferenceAssumption ==
    /\ Len(Layers) = 3 /\ \A i \in 1 .. 3 : IsLayer(Layers[i])
    /\ \A i \in 2 .. 3 : Len(Layers[i - 1].bias) > 0 /\ Fits(Len(Layers[i - 1].bias), Layers[i])
    /\ InputScale \in Fraction /\ InputScale[1] > 0 /\ BrakeAt \in Int

ZeroPoint == -128

\* std::lround(): to the nearest, halves away from zero.  The code narrows the
\* result to int32_t, which changes nothing as long as it fits.
Lround(q) == IF q[1] < 0 THEN -((-2 * q[1] + q[2]) \div (2 * q[2]))
                         ELSE (2 * q[1] + q[2]) \div (2 * q[2])
FitsInt32(n) == n \div 65536 \in -32768 .. 32767

\* A scan run() does not refuse: a distance that is not negative for each of
\* the inputs, none so far off that its quotient leaves int32_t.
IsScan(beams) ==
    /\ beams \in Seq(Fraction) /\ \A i \in DOMAIN beams : beams[i][1] >= 0
    /\ \A i \in DOMAIN beams : FitsInt32(Lround(beams[i] (/) InputScale))
    /\ Len(beams) > 0 /\ Fits(Len(beams), Layers[1])

\* Mutation: narrowed to int8_t before it is clamped.
QuantizeNarrowFirst(q) == ((Lround(q) + ZeroPoint + 128) % 256) - 128
Quantize(q) == Max({-128, Min({127, Lround(q) + ZeroPoint})})

Accumulator(input, layer, j) ==
    LET width == Len(layer.bias)
    IN  layer.bias[j]
        + SumFunction([i \in DOMAIN input |->
                          (input[i] - ZeroPoint) * layer.weights[(i - 1) * width + j]])

\* A hidden layer: its activation is max(0, x).
DenseLayer(input, layer) ==
    [j \in DOMAIN layer.bias |->
        Quantize(<<Max({0, Accumulator(input, layer, j)}) * layer.step[1], layer.step[2]>>)]

\* run() for a scan of the right length: the activations it leaves in the
\* arena, and whether the caller then halves the throttle.  The sigmoid and
\* its quantization are monotone, a threshold stands for them.
run(beams) ==
    LET input_q   == [i \in DOMAIN beams |-> Quantize(beams[i] (/) InputScale)]
        hidden1_q == DenseLayer(input_q, Layers[1])
        hidden2_q == DenseLayer(hidden1_q, Layers[2])
    IN  [input_q |-> input_q, hidden1_q |-> hidden1_q, hidden2_q |-> hidden2_q,
         brakes |-> Accumulator(hidden2_q, Layers[3], 1) > BrakeAt]

------------------------------------------------------------------------------
\* W[i][j] of the layer that has `inputs` rows, as the generated file lists it.
Matrix(layer, inputs) ==
    LET width == Len(layer.weights) \div inputs
    IN  [i \in 1 .. inputs |-> SubSeq(layer.weights, (i - 1) * width + 1, i * width)]

\* relu(W x + b) in units of the layer's output, x being the integers stored.
Exact(input, layer) ==
    LET W == Matrix(layer, Len(input))
    IN  [j \in DOMAIN layer.bias |->
            LET sum == SumFunction([i \in DOMAIN input |-> W[i][j] * (input[i] + 128)])
                       + layer.bias[j]
            IN  <<IF sum > 0 THEN sum * layer.step[1] ELSE 0, layer.step[2]>>]

\* q is the nearest multiple to exact = <<n, d>>, not negative, or the last
\* one when that is too great.
HalfStep(q, exact) ==
    LET off == 2 * ((q - ZeroPoint) * exact[2] - exact[1])
    IN  /\ q \in -128 .. 127
        /\ off <= exact[2] /\ (q < 127 => -off <= exact[2])

\* The int8 arithmetic is the network's, up to half a step per activation:
\* what a layer leaves in the arena is the nearest multiple of its scale to
\* what the network says of the layer's input.
LayersAreHalfStepExact(beams) ==
    LET r == run(beams) IN
    /\ \A i \in DOMAIN beams : HalfStep(r.input_q[i], beams[i] (/) InputScale)
    /\ \A j \in DOMAIN r.hidden1_q :
           HalfStep(r.hidden1_q[j], Exact(r.input_q, Layers[1])[j])
    /\ \A j \in DOMAIN r.hidden2_q :
           HalfStep(r.hidden2_q[j], Exact(r.hidden1_q, Layers[2])[j])
==============================================================================
