--------------------------- MODULE InferenceData ---------------------------
(* Model::Inference() on one graph, and what inference() makes of the result:  *)
(* the data of a picture is dealt out to the inputs of the graph, converted to *)
(* their types, the graph is executed, its outputs are read back as floats,    *)
(* and the first one is the verdict. Each size is computed again at each step, *)
(* by another function or from another copy of the dimensions; nothing checks  *)
(* one against the other, nor against the size of the data.                    *)
EXTENDS TensorSetup

CONSTANTS
    DataSize,   \* input_data.size()
    Samples     \* what is converted: a float, the encoding of its tensor, and
                \* what is read there as scaleOffsetEncoding, an offset and a scale

\* deepCopyQnnTensorInfo() copies one offset and one scale, or an axis, a count and
\* a scale and offset for each place along it; of any other encoding, nothing.
Encodings == {"scaleOffset", "axis", "undefined"}

\* start_index, an int, can reach the end of the data: 3 * 224 * 224 floats.
\* A scale may be any number: nothing looks at it. Without an encoding it is that
\* of QNN_QUANTIZE_PARAMS_INIT, 0, and with one along an axis it is the bits of
\* the axis, and the offset those of the count: the two are in one union.
ASSUME DataAssumption ==
    /\ DataSize \in Nat /\ 2 * DataSize < IntValues
    /\ Samples \subseteq [x : Int, encoding : Encodings, offset : Int, scale : Int]
    /\ \A sample \in Samples :
         sample.encoding = "undefined" => sample.offset = 0 /\ sample.scale = 0

FloatBytes == SizeInBytes("FLOAT_32")

VARIABLES
    step,      \* where Inference() is
    item,      \* the tensor being filled, or read
    start,     \* start_index
    slices,    \* history variable: for each input dealt with, the slice of the
               \* data it was given and whether its buffer was filled
    sizes,     \* output_tensor: the sizes of its vectors
    beyond,    \* history variable: what was accessed out of its bounds
    conversion, \* history variable: the value converted last, if one just was
    verdict    \* what inference() comes to

dataVars == <<item, start, slices, sizes, beyond, conversion>>
allVars == <<vars, step, dataVars, verdict>>

Steps == {"setUp", "fill", "execute", "read", "over"}

None == "none"

InferenceInit ==
    /\ Init
    /\ step = "setUp" /\ item = 1 /\ start = 0
    /\ slices = <<>> /\ sizes = <<>>
    /\ beyond = {}
    /\ conversion = {} /\ verdict = None

-----------------------------------------------------------------------------
(* Memory.                                                                     *)

\* The bytes of the buffer of a tensor, allocated from the dimensions in the file.
Capacity(s, i) == BufferBytes(file[s][i].dims, file[s][i].type)

\* fillDims(): the dimensions of the copy, none if the copy went without.
Dims(s, i) == IF NotNull(Block(s, i, "dims")) THEN file[s][i].dims ELSE <<>>

\* Bytes of a buffer, or floats of the data, that are not there.
OutOfBuffer(wanted, bytes) == IF wanted > bytes THEN {"buffer"} ELSE {}
OutOfData(from, count) ==
    IF from < 0 \/ from + count > DataSize THEN {"data"} ELSE {}

-----------------------------------------------------------------------------
(* Filling the inputs.                                                         *)

SetUpTensors ==
    /\ step = "setUp"
    /\ \/ AllocateArray \/ DeepCopy \/ AllocateBuffer
       \/ FreeFailedBuffer \/ TearDownFailed
    /\ UNCHANGED <<step, dataVars, verdict>>

\* The loop over the graphs ends when a graph cannot be set up.
SetUpDone ==
    /\ step = "setUp"
    /\ \/ pc = "ready" /\ step' = "fill"
       \/ pc = "failed" /\ step' = "over"
    /\ UNCHANGED <<vars, dataVars, verdict>>

Filling(type) ==
    /\ step = "fill" /\ item <= Count("inputs")
    /\ type = file["inputs"][item].type

\* Mutant: the next slice begins where this one did.
DealAgain(count, filled) ==
    /\ slices' = Append(slices, [from |-> start, count |-> count, filled |-> filled])
    /\ item' = item + 1
    /\ UNCHANGED start

\* The slice of the data that an input gets, and the next start_index.
Deal(count, filled) ==
    /\ slices' = Append(slices, [from |-> start, count |-> count, filled |-> filled])
    /\ start' = AsInt(start + count)
    /\ item' = item + 1

\* An input of floats: its slice is copied into its buffer.
FillFloat ==
    LET count == Length(Dims("inputs", item), "FLOAT_32") \div FloatBytes
    IN  /\ Filling("FLOAT_32")
        /\ Deal(count, TRUE)
        /\ beyond' = beyond \cup OutOfData(start, count)
                        \cup OutOfBuffer(count * FloatBytes, Capacity("inputs", item))
        /\ conversion' = {}
        /\ UNCHANGED <<vars, step, sizes, verdict>>

\* What a type of Converted makes of a float, whatever the encoding is: the
\* offset and the scale are read as if the tensor had one of each ...
FromFloat(sample, type) ==
    IF type \in Quantized
    THEN FloatToTfN(sample.x, sample.offset, sample.scale, type)
    ELSE CastFromFloat(sample.x, type)

\* ... and convertToFloat() of that.
ToFloat(n, sample, type) ==
    IF type \in Quantized
    THEN TfNToFloat(n, sample.offset, sample.scale)
    ELSE CastToFloat(n)

\* One value of many, of an input as the file has it.
Convert(info) ==
    IF info.type \in Converted
    THEN \E sample \in Samples : \E n \in FromFloat(sample, info.type) :
           /\ info.axis => sample.encoding = "axis"
           /\ conversion' = {[sample |-> sample, type |-> info.type, n |-> n]}
    ELSE conversion' = {}

\* Mutant: the staging buffer is given the bytes of its elements, not of floats.
StagingOfElements(dims) == ElementCount(dims)

\* What is allocated to hold the floats of an input of another type.
Staging(dims) == BufferBytes(dims, "FLOAT_32")

\* Any other input: its slice goes to a staging buffer of floats, and from there,
\* converted by copyFromFloatToNative(), into its own. A type that is not
\* converted leaves the buffer as it is, and is not an error.
FillNative ==
    /\ step = "fill" /\ item <= Count("inputs")
    /\ LET type == file["inputs"][item].type
           dims == Dims("inputs", item)
           staging == Staging(dims)
           count == Length(dims, "FLOAT_32") \div FloatBytes
           converted == IF type \in Converted THEN ElementCount(dims) ELSE 0
       IN  /\ Filling(type) /\ type # "FLOAT_32" /\ Obtainable(staging)
           /\ Deal(count, type \in Converted)
           /\ beyond' = beyond \cup OutOfData(start, count)
                          \cup OutOfBuffer(count * FloatBytes, staging)
                          \cup OutOfBuffer(converted * FloatBytes, staging)
                          \cup OutOfBuffer(converted * SizeInBytes(type),
                                           Capacity("inputs", item))
           /\ Convert(file["inputs"][item])
    /\ UNCHANGED <<vars, step, sizes, verdict>>

\* The staging buffer cannot be had: Inference() returns.
StagingFails ==
    /\ step = "fill" /\ item <= Count("inputs")
    /\ file["inputs"][item].type # "FLOAT_32"
    /\ step' = "over"
    /\ UNCHANGED <<vars, dataVars, verdict>>

-----------------------------------------------------------------------------
(* Executing the graph, and reading its outputs.                               *)

InputsFilled ==
    /\ step = "fill" /\ item > Count("inputs")
    /\ step' = "execute"
    /\ conversion' = {}
    /\ UNCHANGED <<vars, item, start, slices, sizes, beyond, verdict>>

\* graphExecute(), whose status nobody looks at.
Execute ==
    /\ step = "execute"
    /\ step' = "read" /\ item' = 1
    /\ UNCHANGED <<vars, start, slices, sizes, beyond, conversion, verdict>>

\* An output of floats is copied.
ReadFloat ==
    LET count == ElementCount(Dims("outputs", item))
    IN  /\ step = "read" /\ item <= Count("outputs")
        /\ file["outputs"][item].type = "FLOAT_32"
        /\ sizes' = Append(sizes, count)
        /\ item' = item + 1
        /\ beyond' = beyond \cup OutOfBuffer(count * FloatBytes, Capacity("outputs", item))
        /\ UNCHANGED <<vars, step, start, slices, conversion, verdict>>

\* Any other output goes through convertToFloat(), whose buffer may be refused,
\* and is not freed when it is not: either way there is no more to read, or one
\* more vector.
ReadNative ==
    /\ step = "read" /\ item <= Count("outputs")
    /\ LET type == file["outputs"][item].type
           count == ElementCount(Dims("outputs", item))
           bytes == AsSize(count * FloatBytes)
       IN  /\ type # "FLOAT_32"
           /\ \/ /\ type \in Readable /\ Obtainable(bytes)
                 /\ sizes' = Append(sizes, count)
                 /\ item' = item + 1
                 /\ beyond' = beyond \cup OutOfBuffer(count * FloatBytes, bytes)
                                \cup OutOfBuffer(count * SizeInBytes(type),
                                                 Capacity("outputs", item))
                 /\ UNCHANGED step
              \/ /\ step' = "over"
                 /\ UNCHANGED <<sizes, item, beyond>>
    /\ UNCHANGED <<vars, start, slices, conversion, verdict>>

OutputsRead ==
    /\ step = "read" /\ item > Count("outputs")
    /\ step' = "over"
    /\ UNCHANGED <<vars, dataVars, verdict>>

\* postprocess_binary(): the first output has to be two floats.
Postprocess ==
    /\ step = "over" /\ verdict = None
    /\ verdict' = IF sizes = <<>> \/ Head(sizes) # 2 THEN "thrown" ELSE "given"
    /\ UNCHANGED <<vars, step, dataVars>>

\* The tensors may be torn down when the inference is over, which nothing does.
TearDownAfter ==
    /\ step = "over" /\ TearDown
    /\ UNCHANGED <<step, dataVars, verdict>>

Done == verdict # None /\ UNCHANGED allVars

InferenceNext ==
    \/ SetUpTensors \/ SetUpDone
    \/ FillFloat \/ FillNative \/ StagingFails \/ InputsFilled
    \/ Execute
    \/ ReadFloat \/ ReadNative \/ OutputsRead
    \/ Postprocess
    \/ TearDownAfter
    \/ Done

InferenceSpec == InferenceInit /\ [][InferenceNext]_allVars

-----------------------------------------------------------------------------
(* Properties.                                                                 *)

InferenceTypeOK ==
    /\ TypeOK
    /\ step \in Steps
    /\ step \in {"fill", "execute", "read"} => pc = "ready"
    /\ step = "fill" => item \in 1..(Count("inputs") + 1)
    /\ step = "read" => item \in 1..(Count("outputs") + 1)
    /\ Len(slices) <= Count("inputs") /\ Len(sizes) <= Count("outputs")
    /\ beyond \subseteq {"buffer", "data"}
    /\ verdict \in {None, "given", "thrown"}

\* Where the floats of each input begin: after those of the inputs before it.
Offsets ==
    LET sum[i \in 0..Count("inputs")] ==
          IF i = 0 THEN 0 ELSE sum[i - 1] + ElementCount(file["inputs"][i].dims)
    IN  sum

\* The data is at least as much as the inputs of the graph hold.
DataSuffices == Offsets[Count("inputs")] <= DataSize

\* No step reads or writes out of a buffer that another step sized. Nor out of
\* the data, if there is enough of it.
AccessesFit ==
    /\ "buffer" \notin beyond
    /\ DataSuffices => "data" \notin beyond

\* A verdict is about the data, if there is enough of it and no copy went short:
\* each input of the graph was filled, from where the one before it ended, with
\* as many floats as it holds; and the output the verdict is read from is of two
\* elements.
VerdictIsOfData ==
    verdict = "given" /\ DataSuffices /\ ~scarce =>
      /\ Len(slices) = Count("inputs")
      /\ \A i \in 1..Count("inputs") :
           slices[i] = [from |-> Offsets[i - 1], filled |-> TRUE,
                        count |-> ElementCount(file["inputs"][i].dims)]
      /\ ElementCount(file["outputs"][1].dims) = 2

\* The tensor is quantized with one offset and one positive scale.
OneScale(sample) == sample.encoding = "scaleOffset" /\ sample.scale > 0

\* A value an input is given stands for the float it came from: a quantized one
\* to half a step, or as the nearest end of what the type can hold; a cast one
\* without its fraction. Of a tensor that is quantized in another way,
\* along an axis say, nothing is promised, and it is given numbers all the same.
\* Nor of a float whose quotient is no int, or whose integer the type does not have.
ConversionIsFaithful ==
    \A last \in conversion :
      LET x == last.sample.x
          scale == last.sample.scale
          value == ToFloat(last.n, last.sample, last.type)
          lowest == ToFloat(0, last.sample, last.type)
          highest == ToFloat(QuantizedMax(last.type), last.sample, last.type)
      IN  IF last.type \in Quantized
          THEN OneScale(last.sample) /\ InIntRange(RoundedQuotient(x - lowest, scale)) =>
                 \/ x < lowest /\ value = lowest
                 \/ x > highest /\ value = highest
                 \/ 2 * (x - value) <= scale /\ 2 * (value - x) <= scale
          ELSE Fits(Truncated(x), last.type) =>
                 \/ 0 <= value /\ value <= x /\ x < value + One
                 \/ 0 >= value /\ value >= x /\ x > value - One
=============================================================================
