-------------------------- MODULE MCInferenceData --------------------------
(* InferenceData on graphs of one or two inputs and outputs: one of each type, *)
(* and the dimensions that are hard: none, none of a size, too many for an int *)
(* (72 elements count as 8, and 40 as a negative number).                      *)
EXTENDS InferenceData, TLC

Plain(dims, type) == [dims |-> dims, type |-> type, axis |-> FALSE, dynamic |-> FALSE]

Floats == Plain(<<1, 3>>, "FLOAT_32")
Pair == Plain(<<2>>, "FLOAT_32")
Bytes == Plain(<<2>>, "UFIXED_POINT_8")
Scaled == [Bytes EXCEPT !.axis = TRUE, !.dynamic = TRUE]

OneOfEachType == {<<Plain(<<2>>, type)>> : type \in Types}
Hard == {<<Plain(dims, type)>> : dims \in {<<>>, <<0>>, <<2, 2, 18>>, <<4, 10>>},
                                 type \in {"FLOAT_32", "INT_8"}}
Two == {<<Floats, Bytes>>, <<Bytes, Floats>>,
        <<Plain(<<3>>, "BOOL_8"), Plain(<<2>>, "UFIXED_POINT_16")>>}

MCFiles ==
    {("inputs" :> ins @@ "outputs" :> outs) :
       ins \in OneOfEachType \cup Hard \cup {<<>>}, outs \in {<<Pair>>}}
    \cup {("inputs" :> ins @@ "outputs" :> outs) :
       ins \in Two, outs \in {<<Pair>>, <<Bytes, Floats>>}}
    \cup {("inputs" :> ins @@ "outputs" :> outs) :
       ins \in {<<Pair>>}, outs \in OneOfEachType \cup Hard \cup {<<>>}}
    \cup {"inputs" :> <<Scaled>> @@ "outputs" :> <<Scaled, Scaled>>}

\* Values around both ends of what the types can hold, and beyond what an int can;
\* then what is read of tensors that have no scale to be quantized with.
MCSamples ==
    [x : {-40, 14, 16, 40} \cup -7..6, encoding : {"scaleOffset"},
     offset : {-2}, scale : {1, 3}]
    \cup [x : {-7, 0, 6}, encoding : {"scaleOffset"}, offset : {-2}, scale : {-1, 0}]
    \cup [x : {-7, 0, 6}, encoding : {"axis"}, offset : {2}, scale : {0, 1}]
    \cup [x : {-7, 0, 6}, encoding : {"undefined"}, offset : {0}, scale : {0}]
=============================================================================
