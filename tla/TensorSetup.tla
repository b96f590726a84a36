---------------------------- MODULE TensorSetup ----------------------------
(* IOTensor: setupInputAndOutputTensors() copies the tensors of a graph and    *)
(* gives them buffers, one by one, inputs before outputs, and cleans up when   *)
(* one fails; tearDownInputAndOutputTensors() frees them again. Every malloc() *)
(* may fail. The heap is the set of the blocks allocated and not freed; a      *)
(* pointer is null until its block is allocated and keeps its value when the   *)
(* block is freed.                                                             *)
EXTENDS TensorData

Sides == {"inputs", "outputs"}

\* A tensor of the graph file, as far as it decides what is allocated: its
\* dimensions, its type, whether it has scales along an axis, and flags of
\* dynamic dimensions.
Tensors == [dims : Seq(Nat), type : Types, axis : BOOLEAN, dynamic : BOOLEAN]

CONSTANT Files      \* the graphs a file may hold: their tensors on each side

ASSUME FilesAssumption == Files \subseteq [Sides -> Seq(Tensors)]

\* The parts of a tensor that are blocks of their own; the array is one too.
Parts == {"name", "scales", "dims", "flags", "buffer"}
Block(s, i, part) == <<s, i, part>>
Array(s) == <<s, 0, "array">>

VARIABLES
    file,      \* the graph of the file: it does not change
    heap,      \* the blocks allocated
    freed,     \* the blocks freed
    array,     \* array[s]: whether the pointer of the caller is not null
    side,      \* the side being set up
    index,     \* and the tensor of it
    pc,        \* the next step
    scarce,    \* history variable: a copy went without one of its blocks
    wild       \* history variable: a block was freed that had been freed

vars == <<file, heap, freed, array, side, index, pc, scarce, wild>>

Count(s) == Len(file[s])

\* The tensor in hand.
tensor == file[side][index]

Blocks == {block \in Sides \X Nat \X (Parts \cup {"array"}) :
             IF block[3] = "array" THEN block[2] = 0 ELSE block[2] \in 1..Count(block[1])}

Places == {"array", "copy", "buffer", "freeBuffer", "tearDown", "failed", "ready", "torn"}

Init ==
    /\ file \in Files
    /\ heap = {} /\ freed = {}
    /\ array = [s \in Sides |-> FALSE]
    /\ side = "inputs" /\ index = 1
    /\ pc = "array"
    /\ scarce = FALSE /\ wild = FALSE

NotNull(block) == block \in heap \cup freed

Free(blocks) ==
    /\ heap' = heap \ blocks
    /\ freed' = freed \cup blocks
    /\ wild' = (wild \/ blocks \cap freed # {})

-----------------------------------------------------------------------------
(* setupTensors().                                                             *)

\* The file may have no tensors on a side, which is a failure too.
AllocateArray ==
    /\ pc = "array"
    /\ \/ /\ Count(side) # 0
          /\ heap' = heap \cup {Array(side)}
          /\ array' = [array EXCEPT ![side] = TRUE]
          /\ pc' = "copy"
       \/ pc' = "failed" /\ UNCHANGED <<heap, array>>
    /\ UNCHANGED <<file, freed, side, index, scarce, wild>>

\* The blocks deepCopyQnnTensorInfo() asks for.
Wanted ==
    {"name"} \cup (IF tensor.axis THEN {"scales"} ELSE {})
             \cup (IF tensor.dims # <<>> THEN {"dims"} ELSE {})
             \cup (IF tensor.dims # <<>> /\ tensor.dynamic THEN {"flags"} ELSE {})

\* deepCopyQnnTensorInfo() takes what malloc() gives, and always succeeds.
DeepCopy ==
    /\ pc = "copy"
    /\ \E got \in SUBSET Wanted :
         /\ heap' = heap \cup {Block(side, index, part) : part \in got}
         /\ scarce' = (scarce \/ got # Wanted)
    /\ pc' = "buffer"
    /\ UNCHANGED <<file, freed, array, side, index, wild>>

\* Mutant: one tensor too many is set up.
OnwardTooFar ==
    /\ index' = index + 1 /\ pc' = "copy"
    /\ UNCHANGED side

\* The next tensor, the next side, or the end.
Onward ==
    \/ /\ index < Count(side)
       /\ index' = index + 1 /\ pc' = "copy"
       /\ UNCHANGED side
    \/ /\ index = Count(side) /\ side = "inputs"
       /\ side' = "outputs" /\ index' = 1 /\ pc' = "array"
    \/ /\ index = Count(side) /\ side = "outputs"
       /\ pc' = "ready"
       /\ UNCHANGED <<side, index>>

Clean(place) == pc' = place /\ UNCHANGED <<side, index>>

\* allocateBuffer() and calculateLength(): a tensor that may be allocated, and
\* has a length of zero, gets a buffer and fails all the same.
AllocateBuffer ==
    /\ pc = "buffer"
    /\ \/ /\ tensor.type \in Allocatable
          /\ Obtainable(BufferBytes(tensor.dims, tensor.type))
          /\ heap' = heap \cup {Block(side, index, "buffer")}
          /\ IF Length(tensor.dims, tensor.type) # 0 THEN Onward ELSE Clean("freeBuffer")
       \/ Clean("freeBuffer") /\ UNCHANGED heap
    /\ UNCHANGED <<file, freed, array, scarce, wild>>

\* Mutants: the buffer of the tensor that failed is kept, and that of the one
\* before it is freed.
KeepFailedBuffer ==
    /\ pc = "freeBuffer"
    /\ pc' = "tearDown"
    /\ UNCHANGED <<heap, file, freed, array, side, index, scarce, wild>>

FreeBufferBefore ==
    /\ pc = "freeBuffer"
    /\ Free({b \in {Block(side, index - 1, "buffer")} : NotNull(b)})
    /\ pc' = "tearDown"
    /\ UNCHANGED <<file, array, side, index, scarce>>

\* The cleanup: the buffer of the tensor that failed, if it has one ...
FreeFailedBuffer ==
    /\ pc = "freeBuffer"
    /\ Free({b \in {Block(side, index, "buffer")} : NotNull(b)})
    /\ pc' = "tearDown"
    /\ UNCHANGED <<file, array, side, index, scarce>>

\* tearDownTensors(): the dimensions and the buffer of each of the first count
\* tensors, then the array; a null pointer on the way ends it at once.
TornDown(s, count) ==
    LET lacking == {i \in 1..count :
                      \E part \in {"dims", "buffer"} : ~NotNull(Block(s, i, part))}
        reached == {i \in 1..count : \A j \in lacking : i <= j}
    IN  {b \in {Block(s, i, "dims") : i \in reached} : NotNull(b)}
          \cup {Block(s, i, "buffer") : i \in reached \ lacking}
          \cup {b \in {Array(s)} : lacking = {}}

\* ... then the tensors before it, and the pointer of the caller.
TearDownFailed ==
    /\ pc = "tearDown"
    /\ Free(TornDown(side, index - 1))
    /\ array' = [array EXCEPT ![side] = FALSE]
    /\ pc' = "failed"
    /\ UNCHANGED <<file, side, index, scarce>>

-----------------------------------------------------------------------------
(* tearDownInputAndOutputTensors(), which nothing calls. The pointers of the   *)
(* caller keep their values: only its own copies become null.                  *)

TearDown ==
    /\ pc = "ready"
    /\ Free(TornDown("inputs", Count("inputs")) \cup TornDown("outputs", Count("outputs")))
    /\ pc' = "torn"
    /\ UNCHANGED <<file, array, side, index, scarce>>

\* Nothing more is done with the tensors.
Ended == pc \in {"failed", "torn"} /\ UNCHANGED vars

Next ==
    \/ AllocateArray \/ DeepCopy \/ AllocateBuffer
    \/ FreeFailedBuffer \/ TearDownFailed
    \/ TearDown
    \/ Ended

Spec == Init /\ [][Next]_vars

-----------------------------------------------------------------------------
(* Properties.                                                                 *)

TypeOK ==
    /\ heap \subseteq Blocks /\ freed \subseteq Blocks
    /\ array \in [Sides -> BOOLEAN]
    /\ file \in Files
    /\ side \in Sides /\ index \in Nat \ {0}
    /\ pc \in Places
    /\ pc \in {"copy", "buffer", "freeBuffer", "tearDown", "ready"} => index <= Count(side)
    /\ scarce \in BOOLEAN /\ wild \in BOOLEAN

\* No cleanup frees a block twice, whatever malloc() refused before.
NoDoubleFree == ~wild

\* Until the tensors are torn down, the pointers of the caller that are not null
\* lead to tensors: all with a buffer once both sides are set up.
PointersAreGood ==
    /\ pc # "torn" => \A s \in Sides : array[s] => Array(s) \in heap
    /\ pc = "ready" =>
         \A s \in Sides : array[s] /\ \A i \in 1..Count(s) : Block(s, i, "buffer") \in heap

\* What the cleanups leave, if no copy went short: of a side that could not be
\* set up, the names, scales and flags of its tensors and the dimensions of the
\* one that failed; of tensors that were torn down, the names, scales and flags.
CleanupFreesTheRest ==
    ~scarce =>
      /\ pc = "failed" =>
           \A block \in heap :
             block[1] = side =>
               \/ block[3] \in {"name", "scales", "flags"}
               \/ block[3] = "dims" /\ block[2] = index
      /\ pc = "torn" => \A block \in heap : block[3] \in {"name", "scales", "flags"}
=============================================================================
