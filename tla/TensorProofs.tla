--------------------------- MODULE TensorProofs ---------------------------
(* Theorems about TensorSetup and InferenceData, for every graph and all       *)
(* widths of integers: what is allocated and freed, and that an inference does *)
(* to the tensors what TensorSetup allows; then the data of an inference, and  *)
(* what becomes of its values.                                                 *)
EXTENDS InferenceData, RecursionLemmas

\* The first n tensors of a side have their buffers, and their dimensions too
\* if no copy went short.
Built(s, n) ==
    \A i \in 1..n : /\ Block(s, i, "buffer") \in heap
                    /\ ~scarce => Block(s, i, "dims") \in heap

BuildPlaces == {"array", "copy", "buffer", "freeBuffer"}

\* Nothing is freed while tensors are set up; the cleanup begins with the buffer
\* of the tensor that failed.
FreedInOrder ==
    /\ pc \in BuildPlaces \cup {"ready"} => freed = {}
    /\ pc = "tearDown" => /\ freed \subseteq {Block(side, index, "buffer")}
                          /\ Block(side, index, "buffer") \notin heap

\* The inputs stay built while the outputs are.
InputsBuilt ==
    /\ side = "outputs" /\ pc # "torn" =>
         array["inputs"] /\ Array("inputs") \in heap /\ Built("inputs", Count("inputs"))
    /\ side = "inputs" => ~array["outputs"] /\ \A block \in heap : block[1] = "inputs"

\* What the side in hand has, and that it has nothing beyond its tensor.
SideBuilt ==
    /\ pc = "array" => /\ index = 1 /\ ~array[side]
                       /\ \A block \in heap : block[1] # side
    /\ pc \in {"copy", "buffer", "freeBuffer", "tearDown"} =>
         /\ array[side] /\ Array(side) \in heap /\ Built(side, index - 1)
         /\ \A block \in heap : block[1] = side => block[2] <= index
    /\ pc = "copy" => \A block \in heap : block[1] = side => block[2] < index
    /\ pc = "buffer" /\ tensor.dims # <<>> /\ ~scarce => Block(side, index, "dims") \in heap
    /\ pc = "ready" => /\ side = "outputs" /\ array["outputs"]
                       /\ Array("outputs") \in heap /\ Built("outputs", Count("outputs"))

IInv ==
    /\ TypeOK
    /\ NoDoubleFree
    /\ FreedInOrder
    /\ InputsBuilt
    /\ SideBuilt
    /\ PointersAreGood
    /\ CleanupFreesTheRest

-----------------------------------------------------------------------------
(* Blocks.                                                                     *)

\* Blocks are equal when their parts are.
LEMMA BlockParts ==
    ASSUME NEW s, NEW i, NEW part, NEW t, NEW j, NEW other
    PROVE  /\ Block(s, i, part) = Block(t, j, other) <=> s = t /\ i = j /\ part = other
           /\ Block(s, i, part) = Array(t) <=> s = t /\ i = 0 /\ part = "array"
           /\ Array(s) = Array(t) <=> s = t
           /\ Block(s, i, part)[1] = s /\ Block(s, i, part)[2] = i
           /\ Block(s, i, part)[3] = part
           /\ Array(s)[1] = s /\ Array(s)[2] = 0 /\ Array(s)[3] = "array"
BY DEF Block, Array

\* A block is the array of its side or a part of one of its tensors.
LEMMA BlockForm ==
    ASSUME NEW block \in Blocks
    PROVE  /\ block[1] \in Sides
           /\ \/ block = Array(block[1])
              \/ /\ block[2] \in 1..Count(block[1]) /\ block[3] \in Parts
                 /\ block = Block(block[1], block[2], block[3])
BY DEF Blocks, Block, Array

\* What a tear-down of n tensors of a side frees, at most.
LEMMA TornDownForm ==
    ASSUME NEW s, NEW n \in Nat, NEW block \in TornDown(s, n)
    PROVE  \/ block = Array(s)
           \/ \E i \in 1..n, part \in {"dims", "buffer"} : block = Block(s, i, part)
BY DEF TornDown

\* ... and what it frees if the tensors are all there.
LEMMA TornDownAll ==
    ASSUME NEW s, NEW n \in Nat, Built(s, n), ~scarce, Array(s) \in heap
    PROVE  /\ Array(s) \in TornDown(s, n)
           /\ \A i \in 1..n, part \in {"dims", "buffer"} : Block(s, i, part) \in TornDown(s, n)
<1> DEFINE lacking == {i \in 1..n : \E part \in {"dims", "buffer"} : ~NotNull(Block(s, i, part))}
           reached == {i \in 1..n : \A j \in lacking : i <= j}
<1>1. lacking = {}
  BY DEF Built, NotNull
<1>2. reached = 1..n
  BY <1>1
<1>3. NotNull(Array(s)) /\ \A i \in 1..n : NotNull(Block(s, i, "dims"))
  BY DEF Built, NotNull
<1> QED
  BY <1>1, <1>2, <1>3 DEF TornDown

\* Every part of every tensor is a block.
LEMMA BlockType ==
    ASSUME NEW s \in Sides
    PROVE  /\ Array(s) \in Blocks
           /\ \A i \in 1..Count(s), part \in Parts : Block(s, i, part) \in Blocks
BY DEF Blocks, Block, Array, Parts

\* The number of tensors of a side is a number.
LEMMA CountType ==
    TypeOK => /\ \A s \in Sides : Count(s) \in Nat
              /\ pc \in {"copy", "buffer", "freeBuffer", "tearDown", "ready"} =>
                   side \in Sides /\ index \in 1..Count(side) /\ index # 0
BY FilesAssumption DEF TypeOK, Count

\* It stays what it is, like the blocks, while the file does.
LEMMA FileKept ==
    ASSUME file' = file
    PROVE  Blocks' = Blocks /\ \A s : Count(s)' = Count(s)
BY DEF Blocks, Count

-----------------------------------------------------------------------------
(* The invariant.                                                              *)

\* It holds before anything is allocated.
LEMMA InitInv == Init => IInv
<1> SUFFICES ASSUME Init PROVE IInv
  OBVIOUS
<1>1. TypeOK
  <2>1. index \in Nat \ {0} /\ side \in Sides /\ pc \in Places
    BY DEF Init, Sides, Places
  <2> QED
    BY <2>1 DEF Init, TypeOK
<1>2. FreedInOrder /\ InputsBuilt /\ SideBuilt
  BY DEF Init, FreedInOrder, InputsBuilt, SideBuilt, Sides, BuildPlaces
<1> QED
  BY <1>1, <1>2 DEF Init, IInv, NoDoubleFree, PointersAreGood, CleanupFreesTheRest

\* The array of a side.
LEMMA AllocateArrayKeeps == IInv /\ AllocateArray => IInv'
<1> SUFFICES ASSUME IInv, AllocateArray PROVE IInv'
  OBVIOUS
<1> USE DEF IInv, AllocateArray
<1>0. file' = file /\ Blocks' = Blocks /\ \A s : Count(s)' = Count(s)
  BY FileKept
<1>1. CASE pc' = "failed" /\ UNCHANGED <<heap, array>>
  <2>1. TypeOK'
    BY <1>0, <1>1 DEF TypeOK, Places
  <2>2. FreedInOrder' /\ InputsBuilt' /\ SideBuilt'
    BY <1>0, <1>1 DEF FreedInOrder, InputsBuilt, SideBuilt, BuildPlaces, Built
  <2>3. NoDoubleFree' /\ PointersAreGood' /\ CleanupFreesTheRest'
    BY <1>1 DEF NoDoubleFree, PointersAreGood, CleanupFreesTheRest, SideBuilt
  <2> QED
    BY <2>1, <2>2, <2>3
<1>2. CASE /\ heap' = heap \cup {Array(side)}
           /\ array' = [array EXCEPT ![side] = TRUE]
           /\ pc' = "copy"
  <2> USE <1>2
  <2>0. side \in Sides /\ Array(side) \in Blocks /\ index = 1 /\ array'[side]
        /\ \A s \in Sides : s # side => array'[s] = array[s]
    BY BlockType DEF TypeOK, SideBuilt
  <2>1. TypeOK'
    <3>1. index <= Count(side)
      BY <2>0, CountType
    <3> QED
      BY <1>0, <2>0, <3>1 DEF TypeOK, Places
  <2>2. FreedInOrder'
    BY DEF FreedInOrder, BuildPlaces
  <2>3. InputsBuilt'
    BY <1>0, <2>0, BlockParts DEF InputsBuilt, Built, Sides
  <2>4. SideBuilt'
    BY <2>0, BlockParts DEF SideBuilt, Built
  <2>5. NoDoubleFree' /\ PointersAreGood' /\ CleanupFreesTheRest'
    BY <2>0 DEF NoDoubleFree, PointersAreGood, CleanupFreesTheRest
  <2> QED
    BY <2>1, <2>2, <2>3, <2>4, <2>5
<1> QED
  BY <1>1, <1>2

\* The copy of a tensor, with the blocks malloc() gave.
LEMMA DeepCopyKeeps == IInv /\ DeepCopy => IInv'
<1> SUFFICES ASSUME IInv, DeepCopy PROVE IInv'
  OBVIOUS
<1> USE DEF IInv
<1>1. PICK got \in SUBSET Wanted :
        /\ heap' = heap \cup {Block(side, index, part) : part \in got}
        /\ scarce' = (scarce \/ got # Wanted)
  BY DEF DeepCopy
<1>2. /\ pc = "copy" /\ pc' = "buffer"
      /\ UNCHANGED <<freed, file, array, side, index, wild>>
  BY DEF DeepCopy
<1>3. /\ side \in Sides /\ index \in 1..Count(side) /\ Wanted \subseteq Parts
      /\ tensor.dims # <<>> => "dims" \in Wanted
  BY <1>2, CountType DEF TypeOK, Wanted, Parts
<1>4. \A block \in heap' \ heap : /\ block \in Blocks /\ block[1] = side /\ block[2] = index
                                  /\ block # Array("inputs") /\ block # Array("outputs")
  <2> SUFFICES ASSUME NEW block \in heap' \ heap
               PROVE  /\ block \in Blocks /\ block[1] = side /\ block[2] = index
                      /\ block # Array("inputs") /\ block # Array("outputs")
    OBVIOUS
  <2>1. PICK part \in got : block = Block(side, index, part)
    BY <1>1
  <2>2. part \in Parts /\ index # 0
    BY <1>3
  <2>3. block \in Blocks
    BY <1>3, <2>1, <2>2, BlockType
  <2> QED
    BY <2>1, <2>2, <2>3, BlockParts
<1>5. /\ heap \subseteq heap' /\ (scarce => scarce')
      /\ Blocks' = Blocks /\ \A s : Count(s)' = Count(s)
  BY <1>1, <1>2, FileKept
<1>6. TypeOK'
  BY <1>1, <1>2, <1>3, <1>4, <1>5 DEF TypeOK, Places
<1>7. FreedInOrder'
  BY <1>2 DEF FreedInOrder, BuildPlaces
<1>8. InputsBuilt'
  BY <1>2, <1>4, <1>5 DEF InputsBuilt, Built
<1>9. SideBuilt'
  <2>1. tensor.dims # <<>> /\ ~scarce' => Block(side, index, "dims") \in heap'
    BY <1>1, <1>3
  <2>2. \A block \in heap' : block[1] = side => block[2] <= index
    BY <1>2, <1>3, <1>4 DEF SideBuilt
  <2> QED
    BY <1>2, <1>5, <2>1, <2>2 DEF SideBuilt, Built, tensor
<1>10. NoDoubleFree' /\ PointersAreGood' /\ CleanupFreesTheRest'
  BY <1>2, <1>5 DEF NoDoubleFree, PointersAreGood, CleanupFreesTheRest
<1> QED
  BY <1>6, <1>7, <1>8, <1>9, <1>10

\* The buffer of a tensor, and the way onward.
LEMMA AllocateBufferKeeps == IInv /\ AllocateBuffer => IInv'
<1> SUFFICES ASSUME IInv, AllocateBuffer PROVE IInv'
  OBVIOUS
<1> USE DEF IInv
<1> DEFINE buffer == Block(side, index, "buffer")
<1>0. /\ pc = "buffer" /\ UNCHANGED <<file, freed, array, scarce, wild>>
      /\ side \in Sides /\ index \in 1..Count(side) /\ index # 0
      /\ heap' = heap \/ heap' = heap \cup {buffer}
      /\ heap \subseteq heap' /\ freed = {}
      /\ Blocks' = Blocks /\ \A s \in Sides : Count(s)' = Count(s) /\ Count(s) \in Nat
  BY CountType, FileKept DEF AllocateBuffer, FreedInOrder, BuildPlaces
<1>1. /\ buffer \in Blocks /\ buffer[1] = side /\ buffer[2] = index
      /\ buffer # Array("inputs") /\ buffer # Array("outputs")
  <2>1. buffer \in Blocks
    BY <1>0, BlockType DEF Parts
  <2> QED
    BY <1>0, <2>1, BlockParts
<1>2. heap' \subseteq Blocks /\ FreedInOrder'
  BY <1>0, <1>1 DEF TypeOK, FreedInOrder, AllocateBuffer, Onward, Clean
<1>3. \A block \in heap' : block[1] = side => block[2] <= index
  BY <1>0, <1>1 DEF SideBuilt
<1>4. \A s \in Sides, n \in Nat : Built(s, n) => Built(s, n)'
  BY <1>0 DEF Built
<1>5. CASE Clean("freeBuffer")
  <2>1. TypeOK'
    BY <1>0, <1>2, <1>5 DEF TypeOK, Clean, Places
  <2>2. InputsBuilt'
    BY <1>0, <1>1, <1>4, <1>5 DEF InputsBuilt, Clean, Sides
  <2>3. SideBuilt'
    BY <1>0, <1>3, <1>4, <1>5 DEF SideBuilt, Clean
  <2>4. NoDoubleFree' /\ PointersAreGood' /\ CleanupFreesTheRest'
    BY <1>0, <1>5 DEF NoDoubleFree, PointersAreGood, CleanupFreesTheRest, Clean
  <2> QED
    BY <1>2, <2>1, <2>2, <2>3, <2>4
<1>6. CASE tensor.dims # <<>> /\ heap' = heap \cup {buffer} /\ Onward
  <2>1. ASSUME NEW i \in 1..index
        PROVE  /\ Block(side, i, "buffer") \in heap'
               /\ ~scarce' => Block(side, i, "dims") \in heap'
    <3>1. CASE i = index
      BY <1>0, <1>6, <3>1 DEF SideBuilt
    <3>2. CASE i # index
      <4>1. i \in 1..(index - 1)
        BY <1>0, <3>2
      <4> QED
        BY <1>0, <4>1 DEF SideBuilt, Built
    <3> QED
      BY <3>1, <3>2
  <2>2. /\ array[side] /\ Array(side) \in heap'
        /\ \A s \in Sides : array[s] => Array(s) \in heap'
    BY <1>0 DEF SideBuilt, PointersAreGood
  <2>3. CASE /\ index < Count(side) /\ index' = index + 1 /\ pc' = "copy"
             /\ UNCHANGED side
    <3>1. TypeOK'
      <4>1. Count(side)' = Count(side) /\ index' <= Count(side) /\ index' \in Nat \ {0}
        BY <1>0, <2>3
      <4> QED
        BY <1>0, <1>2, <2>3, <4>1 DEF TypeOK, Places
    <3>2. InputsBuilt'
      BY <1>0, <1>1, <1>4, <2>3 DEF InputsBuilt, Sides
    <3>3. Built(side, index - 1)'
      <4>1. index' - 1 = index /\ side' = side /\ scarce' = scarce
        BY <1>0, <2>3
      <4> QED
        BY <2>1, <4>1 DEF Built
    <3>4. \A block \in heap' : block[1] = side' => block[2] < index' /\ block[2] <= index'
      <4> SUFFICES ASSUME NEW block \in heap', block[1] = side
                   PROVE  block[2] < index + 1 /\ block[2] <= index + 1
        BY <2>3
      <4>1. block[2] <= index /\ block[2] \in Nat
        <5>1. block \in Blocks
          BY <1>2
        <5> QED
          BY <1>3, <5>1, BlockForm, BlockParts
      <4> QED
        BY <1>0, <4>1
    <3>5. SideBuilt'
      BY <1>0, <1>3, <2>2, <2>3, <3>3, <3>4 DEF SideBuilt
    <3>6. NoDoubleFree' /\ PointersAreGood' /\ CleanupFreesTheRest'
      BY <1>0, <2>2, <2>3 DEF NoDoubleFree, PointersAreGood, CleanupFreesTheRest
    <3> QED
      BY <1>2, <3>1, <3>2, <3>5, <3>6
  <2>4. CASE /\ index = Count(side) /\ side = "inputs" /\ side' = "outputs" /\ index' = 1
             /\ pc' = "array"
    <3>1. TypeOK'
      BY <1>0, <1>2, <2>4 DEF TypeOK, Places, Sides
    <3>2. InputsBuilt'
      BY <1>0, <2>1, <2>2, <2>4 DEF InputsBuilt, Built
    <3>3. SideBuilt'
      <4>1. ~array["outputs"] /\ \A block \in heap' : block[1] = "inputs"
        BY <1>0, <1>1, <2>4 DEF InputsBuilt
      <4> QED
        BY <1>0, <2>4, <4>1 DEF SideBuilt
    <3>4. NoDoubleFree' /\ PointersAreGood' /\ CleanupFreesTheRest'
      BY <1>0, <2>2, <2>4 DEF NoDoubleFree, PointersAreGood, CleanupFreesTheRest
    <3> QED
      BY <1>2, <3>1, <3>2, <3>3, <3>4
  <2>5. CASE /\ index = Count(side) /\ side = "outputs" /\ pc' = "ready"
             /\ UNCHANGED <<side, index>>
    <3>1. TypeOK'
      BY <1>0, <1>2, <2>5 DEF TypeOK, Places
    <3>2. InputsBuilt'
      BY <1>0, <1>4, <2>5 DEF InputsBuilt, Sides
    <3>3. SideBuilt'
      BY <1>0, <2>1, <2>2, <2>5 DEF SideBuilt, Built
    <3>4. NoDoubleFree' /\ PointersAreGood' /\ CleanupFreesTheRest'
      BY <1>0, <2>2, <2>5, <3>2, <3>3
      DEF NoDoubleFree, PointersAreGood, CleanupFreesTheRest, InputsBuilt, SideBuilt, Built, Sides
    <3> QED
      BY <1>2, <3>1, <3>2, <3>3, <3>4
  <2> QED
    BY <1>6, <2>3, <2>4, <2>5 DEF Onward
<1> QED
  BY <1>5, <1>6 DEF AllocateBuffer, Length

\* The buffer of the tensor that failed is freed, and freed once.
LEMMA FreeFailedBufferKeeps == IInv /\ FreeFailedBuffer => IInv'
<1> SUFFICES ASSUME IInv, FreeFailedBuffer PROVE IInv'
  OBVIOUS
<1> USE DEF IInv
<1> DEFINE buffer == Block(side, index, "buffer")
           gone == {b \in {buffer} : NotNull(b)}
<1>0. /\ pc = "freeBuffer" /\ pc' = "tearDown"
      /\ UNCHANGED <<file, array, side, index, scarce>>
      /\ side \in Sides /\ index \in 1..Count(side) /\ index # 0 /\ freed = {}
      /\ heap' = heap \ gone /\ freed' = freed \cup gone
      /\ wild' = (wild \/ gone \cap freed # {})
      /\ Blocks' = Blocks /\ \A s \in Sides : Count(s)' = Count(s) /\ Count(s) \in Nat
  BY CountType, FileKept DEF FreeFailedBuffer, Free, FreedInOrder, BuildPlaces
<1>1. /\ gone \subseteq {buffer} /\ buffer \notin heap'
      /\ buffer \in Blocks /\ heap' \subseteq heap
  BY <1>0, BlockType DEF NotNull, Parts
<1>2. \A b \in heap : b # buffer => b \in heap'
  BY <1>0, <1>1
<1>3. \A s : Array(s) \in heap => Array(s) \in heap'
  BY <1>0, <1>2, BlockParts
<1>4. Built(side, index - 1) => Built(side, index - 1)'
  <2> SUFFICES ASSUME Built(side, index - 1), NEW i \in 1..(index - 1)
               PROVE  /\ Block(side, i, "buffer") \in heap'
                      /\ ~scarce => Block(side, i, "dims") \in heap'
    BY <1>0 DEF Built
  <2>1. i # index
    BY <1>0
  <2> QED
    BY <1>2, <2>1, BlockParts DEF Built
<1>5. side = "outputs" /\ Built("inputs", Count("inputs")) => Built("inputs", Count("inputs"))'
  <2>1. \A i, part : Block("inputs", i, part) # buffer \/ side # "outputs"
    BY BlockParts
  <2>2. Count("inputs")' = Count("inputs")
    BY <1>0 DEF Sides
  <2> QED
    BY <1>0, <1>2, <2>1, <2>2 DEF Built
<1>6. TypeOK'
  BY <1>0, <1>1 DEF TypeOK, Places
<1>7. FreedInOrder'
  BY <1>0, <1>1 DEF FreedInOrder, BuildPlaces
<1>8. InputsBuilt'
  BY <1>0, <1>1, <1>3, <1>5 DEF InputsBuilt
<1>9. SideBuilt'
  BY <1>0, <1>1, <1>3, <1>4 DEF SideBuilt
<1>10. NoDoubleFree' /\ PointersAreGood' /\ CleanupFreesTheRest'
  BY <1>0, <1>3 DEF NoDoubleFree, PointersAreGood, CleanupFreesTheRest
<1> QED
  BY <1>6, <1>7, <1>8, <1>9, <1>10

\* The tensors before the one that failed are torn down.
LEMMA TearDownFailedKeeps == IInv /\ TearDownFailed => IInv'
<1> SUFFICES ASSUME IInv, TearDownFailed PROVE IInv'
  OBVIOUS
<1> USE DEF IInv
<1> DEFINE gone == TornDown(side, index - 1)
<1>0. /\ pc = "tearDown" /\ pc' = "failed" /\ UNCHANGED <<file, side, index, scarce>>
      /\ side \in Sides /\ index \in 1..Count(side) /\ index - 1 \in Nat
      /\ heap' = heap \ gone /\ freed' = freed \cup gone
      /\ wild' = (wild \/ gone \cap freed # {})
      /\ array' = [array EXCEPT ![side] = FALSE]
      /\ Blocks' = Blocks /\ \A s \in Sides : Count(s)' = Count(s) /\ Count(s) \in Nat
  BY CountType, FileKept DEF TearDownFailed, Free
<1>1. ASSUME NEW block \in gone
      PROVE  /\ block \in Blocks /\ block[1] = side
             /\ block # Block(side, index, "buffer")
  <2>1. \/ block = Array(side)
        \/ \E i \in 1..(index - 1), part \in {"dims", "buffer"} : block = Block(side, i, part)
    BY <1>0, TornDownForm
  <2>2. CASE block = Array(side)
    BY <1>0, <2>2, BlockType, BlockParts
  <2>3. CASE \E i \in 1..(index - 1), part \in {"dims", "buffer"} : block = Block(side, i, part)
    <3>1. PICK i \in 1..(index - 1), part \in {"dims", "buffer"} : block = Block(side, i, part)
      BY <2>3
    <3>2. i \in 1..Count(side) /\ i # index /\ part \in Parts
      BY <1>0 DEF Parts
    <3> QED
      BY <1>0, <3>1, <3>2, BlockType, BlockParts
  <2> QED
    BY <2>1, <2>2, <2>3
<1>2. \A block \in heap : block[1] # side => block \in heap'
  BY <1>0, <1>1
<1>3. /\ ~array'[side] /\ \A s \in Sides : s # side => array'[s] = array[s]
  BY <1>0 DEF TypeOK
<1>4. TypeOK'
  BY <1>0, <1>1 DEF TypeOK, Places
<1>5. FreedInOrder'
  BY <1>0 DEF FreedInOrder, BuildPlaces
<1>6. InputsBuilt'
  <2>1. side = "outputs" =>
          /\ Array("inputs") \in heap'
          /\ Built("inputs", Count("inputs"))'
    <3>1. \A i, part : Block("inputs", i, part)[1] = "inputs"
      BY BlockParts
    <3>2. Array("inputs")[1] = "inputs" /\ Count("inputs")' = Count("inputs")
      BY <1>0, BlockParts DEF Sides
    <3> QED
      BY <1>0, <1>2, <3>1, <3>2 DEF InputsBuilt, Built
  <2> QED
    BY <1>0, <1>3, <2>1 DEF InputsBuilt, Sides
<1>7. SideBuilt'
  BY <1>0 DEF SideBuilt
<1>8. NoDoubleFree'
  BY <1>0, <1>1 DEF NoDoubleFree, FreedInOrder
<1>9. PointersAreGood'
  <2> SUFFICES ASSUME NEW s \in Sides, array'[s]
               PROVE  Array(s) \in heap'
    BY <1>0 DEF PointersAreGood
  <2>1. s # side /\ Array(s) \in heap
    BY <1>0, <1>3 DEF PointersAreGood
  <2> QED
    BY <1>2, <2>1, BlockParts
<1>10. CleanupFreesTheRest'
  <2> SUFFICES ASSUME ~scarce, NEW block \in heap', block[1] = side
               PROVE  \/ block[3] \in {"name", "scales", "flags"}
                      \/ block[3] = "dims" /\ block[2] = index
    BY <1>0 DEF CleanupFreesTheRest
  <2>1. block \in heap /\ block \in Blocks /\ block \notin gone
    BY <1>0 DEF TypeOK
  <2>2. /\ Array(side) \in gone
        /\ \A i \in 1..(index - 1), part \in {"dims", "buffer"} : Block(side, i, part) \in gone
    BY <1>0, TornDownAll DEF SideBuilt
  <2>3. /\ block[2] \in 1..Count(block[1]) /\ block[3] \in Parts
        /\ block = Block(side, block[2], block[3])
    BY <2>1, <2>2, BlockForm
  <2>4. block[2] <= index
    BY <1>0, <2>1 DEF SideBuilt
  <2>5. CASE block[2] = index
    BY <1>0, <2>1, <2>3, <2>5 DEF FreedInOrder, Parts
  <2>6. CASE block[2] # index
    <3>1. block[2] \in 1..(index - 1)
      BY <1>0, <2>3, <2>4, <2>6
    <3> QED
      BY <2>1, <2>2, <2>3, <3>1 DEF Parts
  <2> QED
    BY <2>5, <2>6
<1> QED
  BY <1>4, <1>5, <1>6, <1>7, <1>8, <1>9, <1>10

\* Both sides are torn down.
LEMMA TearDownKeeps == IInv /\ TearDown => IInv'
<1> SUFFICES ASSUME IInv, TearDown PROVE IInv'
  OBVIOUS
<1> USE DEF IInv
<1> DEFINE gone == TornDown("inputs", Count("inputs")) \cup TornDown("outputs", Count("outputs"))
<1>0. /\ pc = "ready" /\ pc' = "torn" /\ UNCHANGED <<file, array, side, index, scarce>>
      /\ heap' = heap \ gone /\ freed' = freed \cup gone /\ freed = {}
      /\ wild' = (wild \/ gone \cap freed # {})
      /\ side = "outputs"
      /\ Blocks' = Blocks /\ \A s \in Sides : Count(s)' = Count(s) /\ Count(s) \in Nat
  BY CountType, FileKept DEF TearDown, Free, FreedInOrder, SideBuilt
<1>1. gone \subseteq Blocks
  <2> SUFFICES ASSUME NEW s \in Sides, NEW block \in TornDown(s, Count(s))
               PROVE  block \in Blocks
    BY DEF Sides
  <2>1. \/ block = Array(s)
        \/ \E i \in 1..Count(s), part \in {"dims", "buffer"} : block = Block(s, i, part)
    BY <1>0, TornDownForm
  <2> QED
    BY <2>1, BlockType DEF Parts
<1>2. TypeOK'
  BY <1>0, <1>1 DEF TypeOK, Places
<1>3. FreedInOrder' /\ InputsBuilt' /\ SideBuilt'
  BY <1>0 DEF FreedInOrder, InputsBuilt, SideBuilt, BuildPlaces
<1>4. NoDoubleFree' /\ PointersAreGood'
  BY <1>0 DEF NoDoubleFree, PointersAreGood
<1>5. CleanupFreesTheRest'
  <2> SUFFICES ASSUME ~scarce, NEW block \in heap'
               PROVE  block[3] \in {"name", "scales", "flags"}
    BY <1>0 DEF CleanupFreesTheRest
  <2>1. block \in Blocks /\ block \notin gone
    BY <1>0 DEF TypeOK
  <2>2. ASSUME NEW s \in Sides
        PROVE  /\ Array(s) \in TornDown(s, Count(s))
               /\ \A i \in 1..Count(s), part \in {"dims", "buffer"} :
                    Block(s, i, part) \in TornDown(s, Count(s))
    BY <1>0, TornDownAll DEF SideBuilt, InputsBuilt, Sides
  <2>3. \A s \in Sides : TornDown(s, Count(s)) \subseteq gone
    BY DEF Sides
  <2>4. /\ block[2] \in 1..Count(block[1]) /\ block[3] \in Parts /\ block[1] \in Sides
        /\ block = Block(block[1], block[2], block[3])
    BY <2>1, <2>2, <2>3, BlockForm
  <2> QED
    BY <2>1, <2>2, <2>3, <2>4 DEF Parts
<1> QED
  BY <1>2, <1>3, <1>4, <1>5

\* The invariant holds of every behaviour.
LEMMA Invariance == Spec => []IInv
<1>1. IInv /\ UNCHANGED vars => IInv'
  BY FileKept DEF vars, IInv, TypeOK, NoDoubleFree, FreedInOrder, InputsBuilt, SideBuilt, Built,
     PointersAreGood, CleanupFreesTheRest, tensor
<1>2. IInv /\ [Next]_vars => IInv'
  BY <1>1, AllocateArrayKeeps, DeepCopyKeeps, AllocateBufferKeeps, FreeFailedBufferKeeps,
     TearDownFailedKeeps, TearDownKeeps DEF Next, Ended
<1> QED
  BY <1>2, InitInv, PTL DEF Spec

\* Every state is well typed.
THEOREM TypeCorrect == Spec => []TypeOK
<1>1. IInv => TypeOK
  BY DEF IInv
<1> QED
  BY <1>1, Invariance, PTL

\* Whatever malloc() refuses, no cleanup frees a block twice.
THEOREM NothingFreedTwice == Spec => []NoDoubleFree
<1>1. IInv => NoDoubleFree
  BY DEF IInv
<1> QED
  BY <1>1, Invariance, PTL

\* A pointer given to the caller leads to tensors with buffers.
THEOREM PointersAlwaysGood == Spec => []PointersAreGood
<1>1. IInv => PointersAreGood
  BY DEF IInv
<1> QED
  BY <1>1, Invariance, PTL

\* What the cleanups leave, and that they leave nothing else.
THEOREM CleanupIsKnown == Spec => []CleanupFreesTheRest
<1>1. IInv => CleanupFreesTheRest
  BY DEF IInv
<1> QED
  BY <1>1, Invariance, PTL

-----------------------------------------------------------------------------
(* An inference.                                                               *)

\* The first state of an inference is the first state of the set-up.
LEMMA InferenceStarts == InferenceInit => Init
BY DEF InferenceInit

\* A step of an inference is a step of the set-up, or leaves the tensors alone.
LEMMA InferenceSteps == [InferenceNext]_allVars => [Next]_vars
<1> SUFFICES ASSUME [InferenceNext]_allVars PROVE [Next]_vars
  OBVIOUS
<1>1. CASE SetUpTensors
  BY <1>1 DEF SetUpTensors, Next
<1>2. CASE TearDownAfter
  BY <1>2 DEF TearDownAfter, Next
<1>3. CASE SetUpDone \/ FillFloat \/ FillNative \/ StagingFails \/ InputsFilled
  BY <1>3 DEF SetUpDone, FillFloat, FillNative, StagingFails, InputsFilled
<1>4. CASE Execute \/ ReadFloat \/ ReadNative \/ OutputsRead \/ Postprocess
  BY <1>4 DEF Execute, ReadFloat, ReadNative, OutputsRead, Postprocess
<1>5. CASE Done \/ UNCHANGED allVars
  BY <1>5 DEF Done, allVars
<1> QED
  BY <1>1, <1>2, <1>3, <1>4, <1>5 DEF InferenceNext

\* An inference implements the set-up and the tear-down of its tensors.
THEOREM InferenceImplementsSetup == InferenceSpec => Spec
BY InferenceStarts, InferenceSteps, PTL DEF InferenceSpec, Spec

\* Whatever an inference comes to, no block is freed twice.
THEOREM InferenceFreesOnce == InferenceSpec => []NoDoubleFree
BY InferenceImplementsSetup, NothingFreedTwice, PTL

\* What the cleanups of an inference leave, and that they leave nothing else.
THEOREM InferenceCleanupIsKnown == InferenceSpec => []CleanupFreesTheRest
BY InferenceImplementsSetup, CleanupIsKnown, PTL

-----------------------------------------------------------------------------
(* Type correctness.                                                           *)

\* How far the loops are: one slice for each input dealt with, one vector for
\* each output read.
Progressed ==
    /\ \E S : slices \in Seq(S)
    /\ \E S : sizes \in Seq(S)
    /\ step = "setUp" => item = 1 /\ pc # "torn"
    /\ step \in {"setUp", "fill"} => Len(slices) = item - 1 /\ sizes = <<>>
    /\ step = "execute" => sizes = <<>>
    /\ step = "read" => Len(sizes) = item - 1

DataInv == InferenceTypeOK /\ Progressed

\* A list that grows is a list, one longer.
LEMMA Grown ==
    ASSUME NEW list, NEW entry, \E S : list \in Seq(S)
    PROVE  /\ \E S : Append(list, entry) \in Seq(S)
           /\ Len(Append(list, entry)) = Len(list) + 1
           /\ Len(list) \in Nat
<1>1. PICK S : list \in Seq(S)
  OBVIOUS
<1>2. list \in Seq(S \cup {entry})
  BY <1>1
<1>3. Append(list, entry) \in Seq(S \cup {entry})
  BY <1>2
<1> QED
  BY <1>1, <1>3

\* It holds before the set-up.
LEMMA DataInit == InferenceInit => DataInv
<1> SUFFICES ASSUME InferenceInit PROVE DataInv
  OBVIOUS
<1>1. TypeOK
  BY InitInv DEF InferenceInit, IInv
<1>2. <<>> \in Seq({}) /\ Len(<<>>) = 0
  OBVIOUS
<1>3. Count("inputs") \in Nat /\ Count("outputs") \in Nat
  BY <1>1, CountType DEF Sides
<1>4. pc = "array"
  BY DEF InferenceInit, Init
<1> QED
  BY <1>1, <1>2, <1>3, <1>4 DEF InferenceInit, DataInv, InferenceTypeOK, Progressed, Steps

\* Every step keeps it.
LEMMA DataStep == DataInv /\ TypeOK' /\ [InferenceNext]_allVars => DataInv'
<1> SUFFICES ASSUME DataInv, TypeOK', [InferenceNext]_allVars PROVE DataInv'
  OBVIOUS
<1> USE DEF DataInv, InferenceTypeOK, Progressed, Steps, dataVars
<1>1. /\ Count("inputs") \in Nat /\ Count("outputs") \in Nat
      /\ Count("inputs")' = Count("inputs") /\ Count("outputs")' = Count("outputs")
  <2>1. file' = file
    BY InferenceSteps DEF Next, vars, AllocateArray, DeepCopy, AllocateBuffer,
       FreeFailedBuffer, TearDownFailed, TearDown, Ended
  <2> QED
    BY <2>1, FileKept, CountType DEF Sides
<1>2. CASE SetUpTensors
  <2>1. pc' # "torn"
    BY <1>2 DEF SetUpTensors, AllocateArray, DeepCopy, AllocateBuffer, Onward, Clean,
       FreeFailedBuffer, TearDownFailed
  <2> QED
    BY <1>1, <1>2, <2>1 DEF SetUpTensors
<1>3. CASE SetUpDone
  BY <1>1, <1>3 DEF SetUpDone, vars
<1>4. CASE FillFloat \/ FillNative
  <2>1. /\ step = "fill" /\ step' = "fill" /\ item <= Count("inputs") /\ item' = item + 1
        /\ UNCHANGED <<pc, sizes, verdict>>
        /\ \E slice : slices' = Append(slices, slice)
        /\ beyond' \subseteq {"buffer", "data"}
    BY <1>4 DEF FillFloat, FillNative, Filling, Deal, OutOfData, OutOfBuffer, vars
  <2>2. PICK slice : slices' = Append(slices, slice)
    BY <2>1
  <2>3. /\ \E S : slices' \in Seq(S)
        /\ Len(slices') = Len(slices) + 1 /\ Len(slices) \in Nat
    BY <2>2, Grown
  <2> QED
    BY <1>1, <2>1, <2>3
<1>5. CASE StagingFails \/ InputsFilled \/ OutputsRead
  BY <1>1, <1>5 DEF StagingFails, InputsFilled, OutputsRead, vars
<1>6. CASE Execute
  BY <1>1, <1>6 DEF Execute, vars
<1>7. CASE ReadFloat \/ ReadNative
  <2>1. /\ step = "read" /\ item <= Count("outputs")
        /\ UNCHANGED <<pc, slices, verdict>>
        /\ beyond' \subseteq {"buffer", "data"}
        /\ \/ /\ step' = "read" /\ item' = item + 1
              /\ \E size : sizes' = Append(sizes, size)
           \/ step' = "over" /\ UNCHANGED <<sizes, item>>
    BY <1>7 DEF ReadFloat, ReadNative, OutOfBuffer, vars
  <2>2. CASE step' = "over" /\ UNCHANGED <<sizes, item>>
    BY <1>1, <2>1, <2>2
  <2>3. CASE step' = "read" /\ item' = item + 1 /\ \E size : sizes' = Append(sizes, size)
    <3>1. PICK size : sizes' = Append(sizes, size)
      BY <2>3
    <3>2. /\ \E S : sizes' \in Seq(S)
          /\ Len(sizes') = Len(sizes) + 1 /\ Len(sizes) \in Nat
      BY <3>1, Grown
    <3> QED
      BY <1>1, <2>1, <2>3, <3>2
  <2> QED
    BY <2>1, <2>2, <2>3
<1>8. CASE Postprocess
  BY <1>1, <1>8 DEF Postprocess, vars
<1>9. CASE TearDownAfter
  BY <1>1, <1>9 DEF TearDownAfter
<1>10. CASE Done \/ UNCHANGED allVars
  BY <1>1, <1>10 DEF Done, allVars, vars
<1> QED
  BY <1>2, <1>3, <1>4, <1>5, <1>6, <1>7, <1>8, <1>9, <1>10 DEF InferenceNext

\* The loops of an inference stay within the tensors of its graph.
THEOREM InferenceTypeCorrect == InferenceSpec => []InferenceTypeOK
<1>1. DataInv => InferenceTypeOK
  BY DEF DataInv
<1> QED
  BY <1>1, DataInit, DataStep, InferenceImplementsSetup, TypeCorrect, PTL DEF InferenceSpec
-----------------------------------------------------------------------------
(* Sizes.                                                                      *)

\* The numbers an int has.
Ints == {n \in Int : -IntValues <= 2 * n /\ 2 * n < IntValues}

\* An int holds what is computed for it.
LEMMA AsIntType == ASSUME NEW n \in Int PROVE AsInt(n) \in Ints
<1> DEFINE m == n % IntValues
<1>1. m \in 0..(IntValues - 1)
  BY WidthAssumption
<1> HIDE DEF m
<1>2. AsInt(n) = IF 2 * m >= IntValues THEN m - IntValues ELSE m
  BY DEF AsInt, m
<1> QED
  BY <1>1, <1>2, WidthAssumption DEF Ints

\* So does a size_t.
LEMMA AsSizeType == ASSUME NEW n \in Int PROVE AsSize(n) \in 0..(SizeValues - 1)
BY WidthAssumption DEF AsSize

\* A number that an int can hold stays what it is.
LEMMA AsIntSame == ASSUME NEW n \in Nat, 2 * n < IntValues PROVE AsInt(n) = n
<1>1. n % IntValues = n
  BY WidthAssumption
<1> QED
  BY <1>1, WidthAssumption DEF AsInt

\* So does one that a size_t can hold.
LEMMA AsSizeSame == ASSUME NEW n \in Nat, n < SizeValues PROVE AsSize(n) = n
BY WidthAssumption DEF AsSize

\* A negative one becomes huge.
LEMMA AsSizeOfNegative ==
    ASSUME NEW n \in Int, n < 0, -SizeValues <= n PROVE AsSize(n) = n + SizeValues
BY WidthAssumption DEF AsSize

\* A product of dimensions is an int that becomes a size_t.
LEMMA AccumulateForm ==
    ASSUME NEW dims \in Seq(Nat)
    PROVE  \E n \in Ints : Accumulate(dims) = AsSize(n)
<1> DEFINE Times(x, n) == AsInt(AsSize(x * dims[n]))
           Is(f) == f = [n \in 0..Len(dims) |-> IF n = 0 THEN 1 ELSE Times(f[n - 1], n)]
           turn == [n \in Nat |-> [x \in Ints |-> IF n \in 1..Len(dims) THEN Times(x, n) ELSE 1]]
<1>1. 1 \in Ints /\ Ints \subseteq Int
  BY WidthAssumption DEF Ints
<1>2. ASSUME NEW x \in Ints, NEW n \in 1..Len(dims) PROVE Times(x, n) \in Ints
  <2>1. x \in Int /\ dims[n] \in Int
    BY <1>1
  <2>2. x * dims[n] \in Int
    BY <2>1
  <2>3. \A k \in Int : AsSize(k) \in Int
    BY AsSizeType, WidthAssumption
  <2>4. AsSize(x * dims[n]) \in Int
    BY <2>2, <2>3
  <2> QED
    BY <2>4, AsIntType
<1> HIDE DEF Times
<1>3. turn \in [Nat -> [Ints -> Ints]]
  <2>1. ASSUME NEW n \in Nat
        PROVE  [x \in Ints |-> IF n \in 1..Len(dims) THEN Times(x, n) ELSE 1] \in [Ints -> Ints]
    <3>1. CASE n \in 1..Len(dims)
      BY <1>2, <3>1
    <3>2. CASE n \notin 1..Len(dims)
      BY <1>1, <3>2
    <3> QED
      BY <3>1, <3>2
  <2> QED
    BY <2>1
<1>4. PICK f \in [0..Len(dims) -> Ints] : FollowsUpto(f, Len(dims), 1, turn)
  <2>1. Len(dims) \in Nat
    OBVIOUS
  <2> HIDE DEF turn, Ints
  <2> QED
    BY <1>1, <1>3, <2>1, RecursionUpto, Zenon
<1>5. Is(f)
  <2>1. ASSUME NEW n \in 0..Len(dims)
        PROVE  f[n] = IF n = 0 THEN 1 ELSE Times(f[n - 1], n)
    <3>1. CASE n = 0
      BY <1>4, <3>1 DEF FollowsUpto
    <3>2. CASE n # 0
      <4>1. n \in Nat /\ n \in 1..Len(dims) /\ n - 1 \in 0..Len(dims) /\ f[n - 1] \in Ints
        BY <3>2
      <4>2. f[n] = turn[n][f[n - 1]]
        BY <1>4, <3>2 DEF FollowsUpto
      <4> QED
        BY <3>2, <4>1, <4>2
    <3> QED
      BY <3>1, <3>2
  <2> QED
    BY <1>4, <2>1
<1> DEFINE p == CHOOSE e : Is(e)
<1>6. Is(p)
  <2> HIDE DEF Is
  <2> QED
    BY <1>5
<1>7. Accumulate(dims) = AsSize(p[Len(dims)])
  BY DEF Accumulate, Times
<1> HIDE DEF p
<1> DEFINE T == {n \in 0..Len(dims) : p[n] \in Ints}
<1>8. 0 \in T
  BY <1>1, <1>6
<1>9. ASSUME NEW n \in 1..Len(dims), n - 1 \in T PROVE n \in T
  <2>1. n \in 0..Len(dims) /\ n # 0
    OBVIOUS
  <2>2. p[n] = Times(p[n - 1], n)
    BY <1>6, <2>1
  <2> QED
    BY <1>2, <1>9, <2>1, <2>2
<1>10. Len(dims) \in T
  <2>1. Len(dims) \in Nat /\ Len(dims) \in 0..Len(dims)
    OBVIOUS
  <2> HIDE DEF T
  <2> QED
    BY <1>8, <1>9, <2>1, InductionUpto
<1> QED
  BY <1>7, <1>10

\* What a tensor that was given a buffer is like: every size of it is computed
\* from the same number of elements.
Sized(t) ==
    LET n == ElementCount(t.dims)
    IN  /\ t.type \in Allocatable /\ t.dims # <<>>
        /\ n \in Nat /\ 2 * n < IntValues
        /\ BufferBytes(t.dims, t.type) = n * SizeInBytes(t.type)
        /\ BufferBytes(t.dims, "FLOAT_32") = 4 * n
        /\ Length(t.dims, "FLOAT_32") \div FloatBytes = n

\* A product that is no int is too much to allocate: allocateBuffer() and
\* calculateLength() let no other tensor through.
LEMMA SizesAgree ==
    ASSUME NEW t \in Tensors, t.type \in Allocatable, Length(t.dims, t.type) # 0,
           Obtainable(BufferBytes(t.dims, t.type))
    PROVE  Sized(t)
<1> DEFINE n == Accumulate(t.dims)
           size == SizeInBytes(t.type)
<1>1. t.dims # <<>> /\ ElementCount(t.dims) = n /\ t.dims \in Seq(Nat)
  BY DEF Length, ElementCount, Tensors
<1>2. size \in {1, 2, 4, 8}
  BY DEF Allocatable, SizeInBytes
<1>3. PICK m \in Ints : n = AsSize(m)
  BY <1>1, AccumulateForm
<1>4. BufferBytes(t.dims, t.type) = AsSize(n * size) /\ 2 * AsSize(n * size) < SizeValues
  BY DEF BufferBytes, Obtainable
<1> HIDE DEF n, size
<1>5. m \in Int /\ -IntValues <= 2 * m /\ 2 * m < IntValues
  BY <1>3 DEF Ints
<1>6. m >= 0
  <2> SUFFICES ASSUME m < 0 PROVE FALSE
    BY <1>5
  <2>1. n = m + SizeValues
    BY <1>3, <1>5, AsSizeOfNegative, WidthAssumption
  <2>2. ASSUME NEW k \in {1, 2, 4, 8}, size = k PROVE FALSE
    <3>1. n * size = k * m + k * SizeValues /\ k * m \in Int
      BY <1>5, <2>1, <2>2, WidthAssumption
    <3>2. AsSize(n * size) = k * m + SizeValues
      BY <1>5, <3>1, WidthAssumption DEF AsSize
    <3> QED
      BY <1>4, <1>5, <3>2, WidthAssumption
  <2> QED
    BY <1>2, <2>2
<1>7. n = m /\ n \in Nat /\ 2 * n < IntValues
  BY <1>3, <1>5, <1>6, AsSizeSame, WidthAssumption
<1>8. ASSUME NEW k \in {1, 2, 4, 8} PROVE AsSize(n * k) = n * k /\ AsSize(k * n) = n * k
  <2>1. n * k \in Nat /\ n * k < SizeValues /\ n * k = k * n
    BY <1>7, WidthAssumption
  <2> QED
    BY <2>1, AsSizeSame
<1>9. SizeInBytes("FLOAT_32") = 4
  BY DEF SizeInBytes
<1>10. BufferBytes(t.dims, t.type) = n * size /\ BufferBytes(t.dims, "FLOAT_32") = 4 * n
  BY <1>2, <1>4, <1>7, <1>8, <1>9 DEF BufferBytes, n
<1>11. Length(t.dims, "FLOAT_32") = 4 * n /\ (4 * n) \div 4 = n
  BY <1>1, <1>7, <1>8, <1>9 DEF Length
<1> QED
  BY <1>1, <1>7, <1>9, <1>10, <1>11 DEF Sized, FloatBytes, size

\* Whatever a tensor is, it has a number of elements.
LEMMA ElementsType ==
    ASSUME file \in Files, NEW s \in Sides
    PROVE  /\ Count(s) \in Nat
           /\ \A i \in 1..Count(s) : /\ file[s][i] \in Tensors
                                     /\ ElementCount(file[s][i].dims) \in Nat
<1>1. Count(s) \in Nat /\ \A i \in 1..Count(s) : file[s][i] \in Tensors
  BY FilesAssumption DEF Count
<1>2. ASSUME NEW dims \in Seq(Nat) PROVE ElementCount(dims) \in Nat
  <2>1. PICK n \in Ints : Accumulate(dims) = AsSize(n)
    BY AccumulateForm
  <2>2. AsSize(n) \in Nat
    BY AsSizeType, WidthAssumption DEF Ints
  <2> QED
    BY <2>1, <2>2 DEF ElementCount
<1> QED
  BY <1>1, <1>2 DEF Tensors

\* The floats of the inputs follow one another.
LEMMA OffsetsForm ==
    ASSUME file \in Files
    PROVE  /\ \A i \in 0..Count("inputs") : Offsets[i] \in Nat
           /\ Offsets[0] = 0
           /\ \A i \in 1..Count("inputs") :
                Offsets[i] = Offsets[i - 1] + ElementCount(file["inputs"][i].dims)
<1> DEFINE last == Count("inputs")
           Elements(i) == ElementCount(file["inputs"][i].dims)
           Is(f) == f = [i \in 0..last |-> IF i = 0 THEN 0 ELSE f[i - 1] + Elements(i)]
           turn == [i \in Nat |-> [x \in Nat |-> IF i \in 1..last THEN x + Elements(i) ELSE 0]]
<1>1. last \in Nat
  BY ElementsType DEF Sides
<1>2. \A i \in 1..last : Elements(i) \in Nat
  BY ElementsType DEF Sides
<1> HIDE DEF Elements, last
<1>3. turn \in [Nat -> [Nat -> Nat]]
  <2>1. ASSUME NEW i \in Nat
        PROVE  [x \in Nat |-> IF i \in 1..last THEN x + Elements(i) ELSE 0] \in [Nat -> Nat]
    <3>1. CASE i \in 1..last
      BY <1>2, <3>1
    <3>2. CASE i \notin 1..last
      BY <3>2
    <3> QED
      BY <3>1, <3>2
  <2> QED
    BY <2>1
<1>4. PICK f \in [0..last -> Nat] : FollowsUpto(f, last, 0, turn)
  <2>1. 0 \in Nat
    OBVIOUS
  <2> HIDE DEF turn
  <2> QED
    BY <1>1, <1>3, <2>1, RecursionUpto, Zenon
<1>5. Is(f)
  <2>1. ASSUME NEW i \in 0..last
        PROVE  f[i] = IF i = 0 THEN 0 ELSE f[i - 1] + Elements(i)
    <3>1. CASE i = 0
      BY <1>4, <3>1 DEF FollowsUpto
    <3>2. CASE i # 0
      <4>1. i \in Nat /\ i \in 1..last /\ i - 1 \in 0..last /\ f[i - 1] \in Nat
        BY <1>1, <3>2
      <4>2. f[i] = turn[i][f[i - 1]]
        BY <1>4, <3>2 DEF FollowsUpto
      <4> QED
        BY <3>2, <4>1, <4>2
    <3> QED
      BY <3>1, <3>2
  <2> QED
    BY <1>4, <2>1 DEF FollowsUpto
<1> DEFINE p == CHOOSE e : Is(e)
<1>6. Is(p)
  <2> HIDE DEF Is
  <2> QED
    BY <1>5
<1>7. Offsets = p
  BY DEF Offsets, Elements, last
<1> HIDE DEF p
<1>8. p[0] = 0 /\ \A i \in 1..last : p[i] = p[i - 1] + Elements(i)
  <2>1. \A i \in 1..last : i \in 0..last /\ i # 0
    BY <1>1
  <2> QED
    BY <1>1, <1>6, <2>1
<1> DEFINE T == {i \in 0..last : p[i] \in Nat}
<1>9. \A i \in 0..last : i \in T
  <2>1. 0 \in T
    BY <1>1, <1>8
  <2>2. ASSUME NEW i \in 1..last, i - 1 \in T PROVE i \in T
    BY <1>1, <1>2, <1>8, <2>2
  <2> HIDE DEF T
  <2> QED
    BY <1>1, <2>1, <2>2, InductionUpto
<1> QED
  BY <1>7, <1>8, <1>9 DEF Elements, last

\* So each ends where the data of all of them does, or before.
LEMMA OffsetsRise ==
    ASSUME file \in Files
    PROVE  \A i \in 0..Count("inputs") : Offsets[i] <= Offsets[Count("inputs")]
<1> DEFINE last == Count("inputs")
           T == {k \in 0..last : Offsets[last - k] <= Offsets[last]}
<1>1. last \in Nat
  BY FilesAssumption DEF Count, Sides
<1>2. \A i \in 0..last : Offsets[i] \in Nat
  BY OffsetsForm
<1>3. ASSUME NEW i \in 1..last PROVE Offsets[i - 1] <= Offsets[i]
  <2>1. PICK n \in Int : n >= 0 /\ Offsets[i] = Offsets[i - 1] + n
    <3>1. ElementCount(file["inputs"][i].dims) \in Nat
      BY ElementsType, <1>1 DEF Sides
    <3> QED
      BY <3>1, OffsetsForm
  <2>2. Offsets[i - 1] \in Nat
    BY <1>2, <1>1
  <2> QED
    BY <2>1, <2>2
<1> HIDE DEF last
<1>4. \A k \in 0..last : k \in T
  <2>1. 0 \in T
    BY <1>1, <1>2
  <2>2. ASSUME NEW k \in 1..last, k - 1 \in T PROVE k \in T
    <3>1. last - k \in 0..last /\ last - (k - 1) \in 1..last /\ (last - (k - 1)) - 1 = last - k
      BY <1>1
    <3>2. Offsets[last - k] <= Offsets[last - (k - 1)]
      BY <1>3, <3>1
    <3>3. /\ Offsets[last - k] \in Nat /\ Offsets[last - (k - 1)] \in Nat
          /\ Offsets[last] \in Nat
      BY <1>1, <1>2, <3>1
    <3> QED
      BY <2>2, <3>2, <3>3, <1>1
  <2> HIDE DEF T
  <2> QED
    BY <1>1, <2>1, <2>2, InductionUpto
<1>5. ASSUME NEW i \in 0..last PROVE Offsets[i] <= Offsets[last]
  <2>1. last - i \in 0..last /\ last - (last - i) = i
    BY <1>1
  <2> QED
    BY <1>4, <2>1
<1> QED
  BY <1>5 DEF last
-----------------------------------------------------------------------------
(* The tensors that are set up.                                                *)

\* They were all given a buffer.
AllSized ==
    /\ side = "outputs" => \A i \in 1..Count("inputs") : Sized(file["inputs"][i])
    /\ pc \in {"copy", "buffer", "freeBuffer", "tearDown"} =>
         \A i \in 1..(index - 1) : Sized(file[side][i])
    /\ pc \in {"ready", "torn"} =>
         side = "outputs" /\ \A i \in 1..Count("outputs") : Sized(file["outputs"][i])

\* There are none to begin with ...
LEMMA SizedInit == Init => AllSized
BY DEF Init, AllSized

\* ... and each of those that follow is.
LEMMA SizedStep == IInv /\ AllSized /\ [Next]_vars => AllSized'
<1> SUFFICES ASSUME IInv, AllSized, [Next]_vars PROVE AllSized'
  OBVIOUS
<1> USE DEF AllSized
<1>1. file' = file
  BY DEF Next, vars, AllocateArray, DeepCopy, AllocateBuffer, FreeFailedBuffer,
     TearDownFailed, TearDown, Ended
<1>2. /\ \A t : Sized(t)' <=> Sized(t)
      /\ \A s : Count(s)' = Count(s)
  BY <1>1 DEF Sized, Count
<1>3. CASE AllocateArray
  <2>1. index = 1
    BY <1>3 DEF AllocateArray, IInv, SideBuilt
  <2> QED
    BY <1>1, <1>2, <1>3, <2>1 DEF AllocateArray
<1>4. CASE DeepCopy
  BY <1>1, <1>2, <1>4 DEF DeepCopy
<1>5. CASE AllocateBuffer
  <2>1. side \in Sides /\ index \in 1..Count(side) /\ Count(side) \in Nat
    BY <1>5, CountType DEF AllocateBuffer, IInv
  <2>2. pc = "buffer" /\ \A i \in 1..(index - 1) : Sized(file[side][i])
    BY <1>5 DEF AllocateBuffer
  <2>3. CASE Clean("freeBuffer")
    BY <1>1, <1>2, <2>2, <2>3 DEF Clean
  <2>4. CASE Onward /\ ~Clean("freeBuffer")
    <3>1. tensor \in Tensors
      BY <2>1, FilesAssumption DEF tensor, Count, IInv, TypeOK
    <3>2. Sized(tensor)
      BY <1>5, <2>4, <3>1, SizesAgree DEF AllocateBuffer
    <3>3. \A i \in 1..index : Sized(file[side][i])
      <4>1. \A i \in 1..index : i \in 1..(index - 1) \/ i = index
        BY <2>1
      <4> QED
        BY <2>2, <3>2, <4>1 DEF tensor
    <3>4. CASE index < Count(side) /\ index' = index + 1 /\ pc' = "copy" /\ UNCHANGED side
      <4>1. index' - 1 = index
        BY <2>1, <3>4
      <4> QED
        BY <1>1, <1>2, <3>3, <3>4, <4>1
    <3>5. CASE index = Count(side) /\ side = "inputs" /\ side' = "outputs" /\ pc' = "array"
      BY <1>1, <1>2, <3>3, <3>5
    <3>6. CASE index = Count(side) /\ side = "outputs" /\ pc' = "ready" /\ UNCHANGED side
      BY <1>1, <1>2, <3>3, <3>6
    <3> QED
      BY <2>4, <3>4, <3>5, <3>6 DEF Onward
  <2> QED
    BY <1>5, <2>3, <2>4 DEF AllocateBuffer
<1>6. CASE FreeFailedBuffer
  BY <1>1, <1>2, <1>6 DEF FreeFailedBuffer
<1>7. CASE TearDownFailed
  BY <1>1, <1>2, <1>7 DEF TearDownFailed
<1>8. CASE TearDown
  BY <1>1, <1>2, <1>8 DEF TearDown
<1>9. CASE UNCHANGED vars
  BY <1>2, <1>9 DEF vars
<1> QED
  BY <1>3, <1>4, <1>5, <1>6, <1>7, <1>8, <1>9 DEF Next, Ended

\* A tensor in use has the size of its buffer, and its copy the dimensions of the
\* file or none at all.
LEMMA InUse ==
    ASSUME IInv, AllSized, pc = "ready", NEW s \in Sides, NEW i \in 1..Count(s)
    PROVE  /\ Sized(file[s][i])
           /\ Dims(s, i) \in {file[s][i].dims, <<>>}
           /\ ~scarce => Dims(s, i) = file[s][i].dims
<1>1. Sized(file[s][i])
  BY DEF AllSized, Sides
<1>2. ~scarce => Block(s, i, "dims") \in heap
  BY DEF IInv, InputsBuilt, SideBuilt, Built, Sides
<1> QED
  BY <1>1, <1>2 DEF Dims, NotNull

\* A buffer is not overrun by as much as it has.
LEMMA Enough == ASSUME NEW n \in Int, NEW m \in Int, n <= m PROVE OutOfBuffer(n, m) = {}
BY DEF OutOfBuffer

\* However many elements the copy has, they fit where they are put.
LEMMA ElementsFit ==
    ASSUME NEW t, Sized(t), NEW dims \in {t.dims, <<>>}
    PROVE  /\ Length(dims, "FLOAT_32") \div FloatBytes = ElementCount(dims)
           /\ ElementCount(dims) \in Nat /\ ElementCount(dims) <= ElementCount(t.dims)
           /\ 2 * ElementCount(t.dims) < IntValues /\ ElementCount(t.dims) \in Nat
           /\ OutOfBuffer(ElementCount(dims) * SizeInBytes(t.type),
                          BufferBytes(t.dims, t.type)) = {}
           /\ OutOfBuffer(ElementCount(dims) * FloatBytes, BufferBytes(dims, "FLOAT_32")) = {}
           /\ OutOfBuffer(ElementCount(dims) * FloatBytes, ElementCount(dims) * FloatBytes) = {}
           /\ AsSize(ElementCount(dims) * FloatBytes) = ElementCount(dims) * FloatBytes
<1> DEFINE n == ElementCount(t.dims)
           size == SizeInBytes(t.type)
<1>1. /\ n \in Nat /\ 2 * n < IntValues
      /\ BufferBytes(t.dims, t.type) = n * size
      /\ BufferBytes(t.dims, "FLOAT_32") = 4 * n
      /\ Length(t.dims, "FLOAT_32") \div FloatBytes = n
  BY DEF Sized
<1>2. size \in {1, 2, 4, 8} /\ FloatBytes = 4
  BY DEF Sized, Allocatable, SizeInBytes, FloatBytes
<1>3. AsSize(n * 4) = n * 4 /\ AsSize(0 * 4) = 0
  <2>1. n * 4 \in Nat /\ n * 4 < SizeValues /\ 0 < SizeValues
    BY <1>1, WidthAssumption
  <2> QED
    BY <2>1, AsSizeSame
<1>4. CASE dims = t.dims
  <2> HIDE DEF n, size
  <2>1. /\ n * 4 \in Int /\ 4 * n = n * 4
        /\ n * size \in Int
    BY <1>1, <1>2
  <2>2. OutOfBuffer(n * 4, n * 4) = {} /\ OutOfBuffer(n * size, n * size) = {}
    BY <2>1, Enough
  <2> QED
    BY <1>1, <1>2, <1>3, <1>4, <2>1, <2>2 DEF n, size
<1>5. CASE dims = <<>>
  <2>1. ElementCount(dims) = 0 /\ Length(dims, "FLOAT_32") = 0
    BY <1>5 DEF ElementCount, Length
  <2>2. BufferBytes(dims, "FLOAT_32") \in Nat
    <3>1. dims \in Seq(Nat)
      BY <1>5
    <3>2. PICK m \in Ints : Accumulate(dims) = AsSize(m)
      BY <3>1, AccumulateForm
    <3>3. Accumulate(dims) \in Int
      BY <3>2, AsSizeType, WidthAssumption DEF Ints
    <3>4. Accumulate(dims) * 4 \in Int
      BY <3>3
    <3>5. AsSize(Accumulate(dims) * 4) \in 0..(SizeValues - 1)
      BY <3>4, AsSizeType
    <3> QED
      BY <3>5, <1>2, WidthAssumption DEF BufferBytes, FloatBytes
  <2> HIDE DEF n, size
  <2>3. 0 * size = 0 /\ 0 * 4 = 0 /\ 0 <= n * size /\ n * size \in Int /\ 0 \div 4 = 0 /\ 0 <= n
    BY <1>1, <1>2
  <2>4. \A b \in Nat : OutOfBuffer(0, b) = {}
    BY Enough
  <2>5. n * size \in Nat /\ 0 \in Nat
    BY <2>3
  <2>6. OutOfBuffer(0, n * size) = {} /\ OutOfBuffer(0, BufferBytes(dims, "FLOAT_32")) = {}
        /\ OutOfBuffer(0, 0) = {}
    BY <2>2, <2>4, <2>5
  <2>7. /\ OutOfBuffer(ElementCount(dims) * size, BufferBytes(t.dims, t.type)) = {}
        /\ OutOfBuffer(ElementCount(dims) * FloatBytes, BufferBytes(dims, "FLOAT_32")) = {}
        /\ OutOfBuffer(ElementCount(dims) * FloatBytes, ElementCount(dims) * FloatBytes) = {}
        /\ AsSize(ElementCount(dims) * FloatBytes) = ElementCount(dims) * FloatBytes
    BY <1>1, <1>2, <1>3, <2>1, <2>3, <2>6
  <2>8. Length(dims, "FLOAT_32") \div FloatBytes = ElementCount(dims)
    BY <1>2, <2>1, <2>3
  <2>9. ElementCount(dims) \in Nat /\ ElementCount(dims) <= n /\ 2 * n < IntValues /\ n \in Nat
    BY <1>1, <2>1, <2>3
  <2> QED
    BY <2>7, <2>8, <2>9 DEF n, size
<1> QED
  BY <1>4, <1>5

-----------------------------------------------------------------------------
(* The data.                                                                   *)

\* What an input should be given.
Due(i) == [from |-> Offsets[i - 1], filled |-> TRUE,
           count |-> ElementCount(file["inputs"][i].dims)]

\* Where the data is dealt from, and what was dealt: never beyond what is due,
\* and just that if no copy went short.
DealtInOrder ==
    /\ step = "setUp" => start = 0
    /\ step = "fill" /\ DataSuffices =>
         /\ start \in Nat /\ start <= Offsets[item - 1]
         /\ ~scarce => start = Offsets[item - 1]
    /\ DataSuffices /\ ~scarce => \A i \in 1..Len(slices) : slices[i] = Due(i)

\* What is read follows what was dealt.
ReadInOrder ==
    /\ step \in {"execute", "read"} => Len(slices) = Count("inputs")
    /\ sizes # <<>> =>
         /\ Len(slices) = Count("inputs")
         /\ ~scarce => Head(sizes) = ElementCount(file["outputs"][1].dims)
    /\ verdict = "given" => sizes # <<>> /\ Head(sizes) = 2

FlowInv == DealtInOrder /\ ReadInOrder /\ AccessesFit

\* There is no data yet ...
LEMMA FlowInit == InferenceInit => FlowInv
<1> SUFFICES ASSUME InferenceInit PROVE FlowInv
  OBVIOUS
<1> USE DEF InferenceInit, None
<1>1. DealtInOrder
  BY DEF DealtInOrder
<1>2. ReadInOrder
  BY DEF ReadInOrder
<1>3. AccessesFit
  BY DEF AccessesFit
<1> QED
  BY <1>1, <1>2, <1>3 DEF FlowInv

\* A step that deals nothing and reads nothing keeps it.
LEMMA FlowKept ==
    ASSUME FlowInv, file' = file, UNCHANGED <<start, slices, sizes, beyond>>,
           step' = "fill" => step = "fill" /\ item' = item,
           step' = "setUp" => step = "setUp",
           step' \in {"execute", "read"} => Len(slices) = Count("inputs"),
           slices # <<>> => scarce' = scarce,
           step = "fill" \/ sizes # <<>> => scarce' = scarce,
           verdict' = "given" => sizes # <<>> /\ Head(sizes) = 2
    PROVE  FlowInv'
<1>1. /\ Offsets' = Offsets /\ DataSuffices' = DataSuffices /\ Count("inputs")' = Count("inputs")
      /\ \A i : Due(i)' = Due(i)
  BY DEF Offsets, DataSuffices, Count, Due
<1>2. DealtInOrder'
  <2>1. Len(<<>>) = 0 /\ \A i \in 1..0 : FALSE
    OBVIOUS
  <2> QED
    BY <1>1, <2>1 DEF FlowInv, DealtInOrder
<1>3. ReadInOrder'
  BY <1>1 DEF FlowInv, ReadInOrder
<1>4. AccessesFit'
  BY <1>1 DEF FlowInv, AccessesFit
<1> QED
  BY <1>2, <1>3, <1>4 DEF FlowInv

\* What is appended to a list comes last, and first if it is the only one.
LEMMA AppendedLast ==
    ASSUME NEW list, NEW entry, \E S : list \in Seq(S)
    PROVE  /\ \A i \in 1..Len(list) : Append(list, entry)[i] = list[i]
           /\ Append(list, entry)[Len(list) + 1] = entry
           /\ list = <<>> => Head(Append(list, entry)) = entry
           /\ list # <<>> => Head(Append(list, entry)) = Head(list)
           /\ Append(list, entry) # <<>>
<1>1. PICK S : list \in Seq(S)
  OBVIOUS
<1> DEFINE R == S \cup {entry}
           more == Append(list, entry)
<1>2. list \in Seq(R) /\ entry \in R
  BY <1>1
<1> HIDE DEF R
<1>3. /\ more \in Seq(R) /\ Len(more) = Len(list) + 1 /\ Len(list) \in Nat
      /\ \A i \in 1..Len(list) : more[i] = list[i]
      /\ more[Len(list) + 1] = entry
  BY <1>2
<1> HIDE DEF more
<1>4. more # <<>> /\ Head(more) = more[1]
  BY <1>3
<1>5. CASE list = <<>>
  <2>1. Len(list) = 0
    BY <1>5
  <2> QED
    BY <1>3, <1>4, <1>5, <2>1 DEF more
<1>6. CASE list # <<>>
  <2>1. Head(list) = list[1] /\ 1 \in 1..Len(list)
    BY <1>2, <1>6
  <2> QED
    BY <1>3, <1>4, <1>6, <2>1 DEF more
<1> QED
  BY <1>5, <1>6

\* What an input is dealt fits, and is what it is due.
LEMMA DealKeeps ==
    ASSUME DataInv, IInv, AllSized, FlowInv, FillFloat \/ FillNative
    PROVE  FlowInv'
<1> DEFINE last == Count("inputs")
           t == file["inputs"][item]
           dims == Dims("inputs", item)
           count == ElementCount(dims)
           n == ElementCount(t.dims)
<1>1. /\ step = "fill" /\ step' = "fill" /\ item \in 1..last /\ last \in Nat
      /\ item' = item + 1 /\ pc = "ready" /\ UNCHANGED <<file, scarce, sizes, verdict>>
      /\ Len(slices) = item - 1 /\ sizes = <<>> /\ \E S : slices \in Seq(S)
      /\ file \in Files
  <2>1. /\ step = "fill" /\ step' = "fill" /\ item <= last /\ item' = item + 1
        /\ UNCHANGED <<file, scarce, sizes, verdict>>
    BY DEF FillFloat, FillNative, Filling, Deal, vars
  <2>2. last \in Nat /\ file \in Files
    BY CountType DEF IInv, TypeOK, Sides
  <2> QED
    BY <2>1, <2>2 DEF DataInv, InferenceTypeOK, Progressed
<1>2. /\ Sized(t)
      /\ dims \in {t.dims, <<>>}
      /\ ~scarce => dims = t.dims
  BY <1>1, InUse DEF Sides
<1>3. /\ Length(dims, "FLOAT_32") \div FloatBytes = count
      /\ count \in Nat /\ count <= n /\ 2 * n < IntValues /\ n \in Nat
      /\ OutOfBuffer(count * SizeInBytes(t.type), BufferBytes(t.dims, t.type)) = {}
      /\ OutOfBuffer(count * FloatBytes, BufferBytes(dims, "FLOAT_32")) = {}
  BY <1>2, ElementsFit
<1>4. t.type = "FLOAT_32" \/ t.type \in Converted
  BY <1>2 DEF Sized, Allocatable, Converted
<1>6. Deal(count, TRUE) /\ beyond' \subseteq beyond \cup OutOfData(start, count)
  <2>1. CASE FillFloat
    <3>1. t.type = "FLOAT_32" /\ FloatBytes = SizeInBytes(t.type)
      BY <2>1 DEF FillFloat, Filling, FloatBytes
    <3>2. OutOfBuffer(count * FloatBytes, Capacity("inputs", item)) = {}
      BY <1>3, <3>1 DEF Capacity
    <3> QED
      BY <1>3, <2>1, <3>2 DEF FillFloat
  <2>2. CASE FillNative
    <3>1. t.type # "FLOAT_32" /\ t.type \in Converted
      BY <1>4, <2>2 DEF FillNative
    <3>2. Staging(dims) = BufferBytes(dims, "FLOAT_32")
      BY DEF Staging
    <3>3. OutOfBuffer(count * SizeInBytes(t.type), Capacity("inputs", item)) = {}
      BY <1>3 DEF Capacity
    <3> QED
      BY <1>3, <2>2, <3>1, <3>2, <3>3 DEF FillNative
  <2> QED
    BY <2>1, <2>2
<1> DEFINE to == start + count
<1>7. ASSUME DataSuffices
      PROVE  /\ start \in Nat /\ to \in Nat /\ to <= Offsets[item] /\ to <= DataSize
             /\ AsInt(to) = to
             /\ ~scarce => start = Offsets[item - 1] /\ to = Offsets[item]
  <2>1. /\ start \in Nat /\ start <= Offsets[item - 1]
        /\ ~scarce => start = Offsets[item - 1]
    BY <1>1, <1>7 DEF FlowInv, DealtInOrder
  <2>2. /\ Offsets[item] = Offsets[item - 1] + n
        /\ Offsets[item - 1] \in Nat /\ Offsets[item] \in Nat
        /\ Offsets[item] <= Offsets[last] /\ Offsets[last] \in Nat
    <3>1. item - 1 \in 0..last /\ item \in 0..last /\ last \in 0..last
      BY <1>1
    <3> QED
      BY <1>1, <3>1, OffsetsForm, OffsetsRise
  <2>3. Offsets[last] <= DataSize /\ DataSize \in Nat /\ 2 * DataSize < IntValues
    BY <1>7, DataAssumption DEF DataSuffices
  <2>4. ~scarce => count = n
    BY <1>2
  <2> HIDE DEF count, n, last
  <2>5. to \in Nat /\ to <= Offsets[item - 1] + n
    BY <1>3, <2>1, <2>2
  <2>6. ~scarce => to = Offsets[item]
    BY <2>1, <2>2, <2>4
  <2> HIDE DEF to
  <2>7. to <= Offsets[item]
    BY <2>2, <2>5
  <2>8. to <= DataSize
    BY <2>2, <2>3, <2>5, <2>7
  <2>9. 2 * to < IntValues
    BY <2>3, <2>5, <2>8, WidthAssumption
  <2> QED
    BY <2>1, <2>5, <2>6, <2>7, <2>8, <2>9, AsIntSame
<1> HIDE DEF to
<1>8. /\ Offsets' = Offsets /\ DataSuffices' = DataSuffices /\ last' = last
      /\ \A i : Due(i)' = Due(i)
  BY <1>1 DEF Offsets, DataSuffices, Count, Due
<1>9. DealtInOrder'
  <2>1. step' = "fill" /\ item' - 1 = item
    BY <1>1
  <2>2. ASSUME DataSuffices
        PROVE  start' \in Nat /\ start' <= Offsets[item] /\ (~scarce => start' = Offsets[item])
    BY <1>6, <1>7, <2>2 DEF Deal, to
  <2>3. ASSUME DataSuffices, ~scarce, NEW i \in 1..Len(slices') PROVE slices'[i] = Due(i)
    <3>1. slices' = Append(slices, [from |-> start, count |-> count, filled |-> TRUE])
      BY <1>6 DEF Deal
    <3> DEFINE slice == [from |-> start, count |-> count, filled |-> TRUE]
    <3> HIDE DEF slice, count, n, t, dims
    <3>2. slices' = Append(slices, slice)
      BY <3>1 DEF slice
    <3>3. /\ Len(slices') = item
          /\ \A j \in 1..(item - 1) : slices'[j] = slices[j]
          /\ slices'[item] = slice
      <4>1. Len(slices') = Len(slices) + 1
        BY <1>1, <3>2, Grown
      <4>2. /\ \A j \in 1..Len(slices) : slices'[j] = slices[j]
            /\ slices'[Len(slices) + 1] = slice
        BY <1>1, <3>2, AppendedLast
      <4>3. Len(slices) = item - 1 /\ (item - 1) + 1 = item
        BY <1>1
      <4> QED
        BY <4>1, <4>2, <4>3
    <3>4. slice = Due(item)
      BY <1>2, <1>7, <2>3 DEF slice, Due, count, n, t
    <3>5. CASE i = item
      BY <3>3, <3>4, <3>5
    <3>6. CASE i # item
      <4>1. i \in 1..(item - 1) /\ i \in 1..Len(slices)
        BY <1>1, <3>3, <3>6
      <4>2. slices[i] = Due(i)
        BY <2>3, <4>1 DEF FlowInv, DealtInOrder
      <4> QED
        BY <3>3, <4>1, <4>2
    <3> QED
      BY <3>5, <3>6
  <2> QED
    BY <1>1, <1>8, <2>1, <2>2, <2>3 DEF DealtInOrder
<1>10. ReadInOrder'
  <2>1. sizes' = <<>> /\ step' = "fill" /\ verdict' # "given"
    BY <1>1 DEF FlowInv, ReadInOrder
  <2> QED
    BY <2>1 DEF ReadInOrder
<1>11. AccessesFit'
  <2>1. "buffer" \notin beyond'
    BY <1>6 DEF FlowInv, AccessesFit, OutOfData
  <2>2. ASSUME DataSuffices PROVE "data" \notin beyond'
    <3>1. ~(start < 0 \/ start + count > DataSize)
      BY <1>7, <2>2, DataAssumption DEF to
    <3>2. OutOfData(start, count) = {}
      BY <3>1 DEF OutOfData
    <3> QED
      BY <1>6, <2>2, <3>2 DEF FlowInv, AccessesFit
  <2> QED
    BY <1>8, <2>1, <2>2 DEF AccessesFit
<1> QED
  BY <1>9, <1>10, <1>11 DEF FlowInv

\* What an output is read into fits, and is as long as the output.
LEMMA ReadKeeps ==
    ASSUME DataInv, IInv, AllSized, FlowInv, ReadFloat \/ ReadNative
    PROVE  FlowInv'
<1> DEFINE t == file["outputs"][item]
           dims == Dims("outputs", item)
           count == ElementCount(dims)
<1>1. /\ step = "read" /\ item \in 1..Count("outputs") /\ pc = "ready"
      /\ UNCHANGED <<file, scarce, start, slices, verdict>>
      /\ Len(slices) = Count("inputs") /\ Len(sizes) = item - 1 /\ \E S : sizes \in Seq(S)
  <2>1. /\ step = "read" /\ item <= Count("outputs")
        /\ UNCHANGED <<file, scarce, start, slices, verdict>>
    BY DEF ReadFloat, ReadNative, vars
  <2> QED
    BY <2>1, CountType DEF DataInv, InferenceTypeOK, Progressed, FlowInv, ReadInOrder
<1>2. /\ Sized(t)
      /\ dims \in {t.dims, <<>>}
      /\ ~scarce => dims = t.dims
  BY <1>1, InUse DEF Sides
<1>3. /\ OutOfBuffer(count * SizeInBytes(t.type), BufferBytes(t.dims, t.type)) = {}
      /\ OutOfBuffer(count * FloatBytes, count * FloatBytes) = {}
      /\ AsSize(count * FloatBytes) = count * FloatBytes
  BY <1>2, ElementsFit
<1>4. /\ beyond' = beyond
      /\ \/ step' = "read" /\ sizes' = Append(sizes, count)
         \/ step' = "over" /\ sizes' = sizes
  <2>1. CASE ReadFloat
    <3>1. t.type = "FLOAT_32" /\ FloatBytes = SizeInBytes(t.type)
      BY <2>1 DEF ReadFloat, FloatBytes
    <3>2. OutOfBuffer(count * FloatBytes, Capacity("outputs", item)) = {}
      BY <1>3, <3>1 DEF Capacity
    <3> QED
      BY <1>1, <2>1, <3>2 DEF ReadFloat
  <2>2. CASE ReadNative
    <3>1. OutOfBuffer(count * SizeInBytes(t.type), Capacity("outputs", item)) = {}
      BY <1>3 DEF Capacity
    <3> QED
      BY <1>1, <1>3, <2>2, <3>1 DEF ReadNative
  <2> QED
    BY <2>1, <2>2
<1>5. /\ Offsets' = Offsets /\ DataSuffices' = DataSuffices /\ Count("inputs")' = Count("inputs")
      /\ \A i : Due(i)' = Due(i)
  BY <1>1 DEF Offsets, DataSuffices, Count, Due
<1>6. DealtInOrder' /\ AccessesFit'
  BY <1>1, <1>4, <1>5 DEF FlowInv, DealtInOrder, AccessesFit
<1>7. ReadInOrder'
  <2>1. CASE step' = "over" /\ sizes' = sizes
    BY <1>1, <1>5, <2>1 DEF FlowInv, ReadInOrder
  <2>2. CASE step' = "read" /\ sizes' = Append(sizes, count)
    <3>1. sizes = <<>> => Head(sizes') = count
      BY <1>1, <2>2, AppendedLast
    <3>2. /\ sizes # <<>> => Head(sizes') = Head(sizes)
          /\ sizes' # <<>>
      BY <1>1, <2>2, AppendedLast
    <3>3. sizes = <<>> => item = 1
      <4>1. sizes = <<>> => Len(sizes) = 0
        OBVIOUS
      <4> QED
        BY <1>1, <4>1
    <3>4. ~scarce => Head(sizes') = ElementCount(file["outputs"][1].dims)
      BY <1>2, <3>1, <3>2, <3>3 DEF FlowInv, ReadInOrder
    <3> HIDE DEF count
    <3> QED
      BY <1>1, <1>5, <2>2, <3>2, <3>4 DEF FlowInv, ReadInOrder
  <2> QED
    BY <1>4, <2>1, <2>2
<1> QED
  BY <1>6, <1>7 DEF FlowInv

\* Every step keeps it.
LEMMA FlowStep ==
    DataInv /\ IInv /\ AllSized /\ FlowInv /\ [InferenceNext]_allVars => FlowInv'
<1> SUFFICES ASSUME DataInv, IInv, AllSized, FlowInv, [InferenceNext]_allVars PROVE FlowInv'
  OBVIOUS
<1>1. file' = file
  BY InferenceSteps DEF Next, vars, AllocateArray, DeepCopy, AllocateBuffer,
     FreeFailedBuffer, TearDownFailed, TearDown, Ended
<1>2. /\ step = "setUp" => slices = <<>> /\ sizes = <<>> /\ item = 1
      /\ step = "fill" => Len(slices) = item - 1 /\ sizes = <<>>
      /\ step = "fill" => item \in 1..(Count("inputs") + 1)
      /\ Count("inputs") \in Nat /\ step \in Steps
  <2>1. step = "setUp" => slices = <<>>
    <3> SUFFICES ASSUME step = "setUp" PROVE slices = <<>>
      OBVIOUS
    <3>1. PICK S : slices \in Seq(S)
      BY DEF DataInv, Progressed
    <3>2. Len(slices) = 0
      BY DEF DataInv, Progressed
    <3> QED
      BY <3>1, <3>2
  <2> QED
    BY <2>1, CountType DEF DataInv, Progressed, InferenceTypeOK, Sides
<1>3. verdict = "given" => sizes # <<>> /\ Head(sizes) = 2
  BY DEF FlowInv, ReadInOrder
<1> USE DEF dataVars
<1>4. CASE SetUpTensors
  <2>1. step = "setUp" /\ UNCHANGED <<step, start, slices, sizes, beyond, item, verdict>>
    BY <1>4 DEF SetUpTensors
  <2> QED
    BY <1>1, <1>2, <1>3, <2>1, FlowKept
<1>5. CASE SetUpDone
  <2>1. /\ UNCHANGED <<file, scarce, start, slices, sizes, beyond, item, verdict>>
        /\ step = "setUp" /\ step' \in {"fill", "over"}
    BY <1>5 DEF SetUpDone, vars
  <2>2. /\ Offsets' = Offsets /\ DataSuffices' = DataSuffices
        /\ Count("inputs")' = Count("inputs") /\ \A i : Due(i)' = Due(i)
    BY <1>1 DEF Offsets, DataSuffices, Count, Due
  <2>3. Offsets[0] = 0
    BY OffsetsForm DEF IInv, TypeOK
  <2>4. Len(slices) = 0 /\ \A i \in 1..0 : FALSE
    BY <1>2, <2>1
  <2>5. start = 0 /\ item - 1 = 0
    BY <1>2, <2>1 DEF FlowInv, DealtInOrder
  <2>6. DealtInOrder'
    BY <2>1, <2>2, <2>3, <2>4, <2>5 DEF DealtInOrder
  <2>7. ReadInOrder' /\ AccessesFit'
    BY <1>2, <2>1, <2>2 DEF FlowInv, ReadInOrder, AccessesFit
  <2> QED
    BY <2>6, <2>7 DEF FlowInv
<1>6. CASE FillFloat \/ FillNative
  BY <1>6, DealKeeps
<1>7. CASE StagingFails
  <2>1. step' = "over" /\ UNCHANGED <<scarce, start, slices, sizes, beyond, verdict>>
    BY <1>7 DEF StagingFails, vars
  <2> QED
    BY <1>1, <1>3, <2>1, FlowKept
<1>8. CASE InputsFilled
  <2>1. /\ step = "fill" /\ item > Count("inputs") /\ step' = "execute"
        /\ UNCHANGED <<scarce, start, slices, sizes, beyond, verdict>>
    BY <1>8 DEF InputsFilled, vars
  <2>2. Len(slices) = Count("inputs")
    BY <1>2, <2>1
  <2> QED
    BY <1>1, <1>3, <2>1, <2>2, FlowKept
<1>9. CASE Execute
  <2>1. /\ step = "execute" /\ step' = "read"
        /\ UNCHANGED <<scarce, start, slices, sizes, beyond, verdict>>
    BY <1>9 DEF Execute, vars
  <2>2. Len(slices) = Count("inputs")
    BY <2>1 DEF FlowInv, ReadInOrder
  <2> QED
    BY <1>1, <1>3, <2>1, <2>2, FlowKept
<1>10. CASE ReadFloat \/ ReadNative
  BY <1>10, ReadKeeps
<1>11. CASE OutputsRead
  <2>1. step' = "over" /\ UNCHANGED <<scarce, start, slices, sizes, beyond, verdict>>
    BY <1>11 DEF OutputsRead, vars
  <2> QED
    BY <1>1, <1>3, <2>1, FlowKept
<1>12. CASE Postprocess
  <2>1. /\ step = "over" /\ step' = "over"
        /\ UNCHANGED <<scarce, start, slices, sizes, beyond>>
        /\ verdict' = "given" => sizes # <<>> /\ Head(sizes) = 2
    BY <1>12 DEF Postprocess, vars
  <2> QED
    BY <1>1, <2>1, FlowKept
<1>13. CASE TearDownAfter
  <2>1. step' = "over" /\ UNCHANGED <<scarce, start, slices, sizes, beyond, verdict>>
    BY <1>13 DEF TearDownAfter, TearDown
  <2> QED
    BY <1>1, <1>3, <2>1, FlowKept
<1>14. CASE Done \/ UNCHANGED allVars
  <2>1. UNCHANGED <<step, item, scarce, start, slices, sizes, beyond, verdict>>
    BY <1>14 DEF Done, allVars, vars
  <2>2. step' \in {"execute", "read"} => Len(slices) = Count("inputs")
    BY <2>1 DEF FlowInv, ReadInOrder
  <2> QED
    BY <1>1, <1>3, <2>1, <2>2, FlowKept
<1> QED
  BY <1>4, <1>5, <1>6, <1>7, <1>8, <1>9, <1>10, <1>11, <1>12, <1>13, <1>14 DEF InferenceNext

-----------------------------------------------------------------------------
(* The theorems.                                                               *)

\* Both invariants of an inference hold throughout.
LEMMA FlowInvariance == InferenceSpec => [](DataInv /\ FlowInv)
<1>1. InferenceSpec => []IInv
  BY InferenceImplementsSetup, Invariance, PTL
<1>2. InferenceSpec => []AllSized
  <2>1. Spec => []AllSized
    BY Invariance, SizedInit, SizedStep, PTL DEF Spec
  <2> QED
    BY <2>1, InferenceImplementsSetup, PTL
<1>3. InferenceSpec => []DataInv
  BY DataInit, DataStep, InferenceImplementsSetup, TypeCorrect, PTL DEF InferenceSpec
<1>4. InferenceSpec => []FlowInv
  BY <1>1, <1>2, <1>3, FlowInit, FlowStep, PTL DEF InferenceSpec
<1> QED
  BY <1>3, <1>4, PTL

\* Nothing is read or written out of a buffer, whatever the dimensions; nor out of
\* the data, if there is enough of it.
THEOREM AccessesAlwaysFit == InferenceSpec => []AccessesFit
<1>1. FlowInv => AccessesFit
  BY DEF FlowInv
<1> QED
  BY <1>1, FlowInvariance, PTL

\* A verdict is about the data it was asked about.
THEOREM VerdictIsAlwaysOfData == InferenceSpec => []VerdictIsOfData
<1>1. FlowInv => VerdictIsOfData
  <2> SUFFICES ASSUME FlowInv, verdict = "given", DataSuffices, ~scarce
               PROVE  /\ Len(slices) = Count("inputs")
                      /\ \A i \in 1..Count("inputs") : slices[i] = Due(i)
                      /\ ElementCount(file["outputs"][1].dims) = 2
    BY DEF VerdictIsOfData, Due
  <2>1. sizes # <<>> /\ Head(sizes) = 2
    BY DEF FlowInv, ReadInOrder
  <2> QED
    BY <2>1 DEF FlowInv, ReadInOrder, DealtInOrder
<1> QED
  BY <1>1, FlowInvariance, PTL

-----------------------------------------------------------------------------
(* Values: what is given to an input stands for the float it came from.        *)

\* A quotient and its divisor.
LEMMA Quotient ==
    ASSUME NEW a \in Int, NEW b \in Nat \ {0}
    PROVE  /\ a \div b \in Int
           /\ b * (a \div b) \in Int
           /\ b * (a \div b) <= a /\ a < b * (a \div b) + b
OBVIOUS

\* A product keeps the order, and a factor of a positive product is positive.
LEMMA ProductOrder ==
    ASSUME NEW a \in Int, NEW b \in Int, NEW s \in Nat \ {0}, a <= b
    PROVE  s * a \in Int /\ s * b \in Int /\ s * a <= s * b
OBVIOUS

\* A rounded quotient is within half of the divisor, and of the sign of the
\* number divided.
LEMMA Rounded ==
    ASSUME NEW d \in Int, NEW s \in Nat \ {0}
    PROVE  /\ RoundedQuotient(d, s) \in Int
           /\ s * RoundedQuotient(d, s) \in Int
           /\ 2 * (d - s * RoundedQuotient(d, s)) <= s
           /\ 2 * (s * RoundedQuotient(d, s) - d) <= s
           /\ d >= 0 => RoundedQuotient(d, s) >= 0
           /\ d <= 0 => RoundedQuotient(d, s) <= 0
<1>1. ASSUME NEW e \in Nat
      PROVE  LET q == (2 * e + s) \div (2 * s)
             IN  /\ q \in Nat /\ s * q \in Int
                 /\ 2 * (s * q) <= 2 * e + s /\ 2 * e < 2 * (s * q) + s
  <2> DEFINE q == (2 * e + s) \div (2 * s)
  <2>1. 2 * e + s \in Int /\ 2 * s \in Nat \ {0} /\ 2 * e + s >= 0
    OBVIOUS
  <2>2. /\ q \in Int /\ (2 * s) * q \in Int
        /\ (2 * s) * q <= 2 * e + s /\ 2 * e + s < (2 * s) * q + 2 * s
    BY <2>1, Quotient
  <2> HIDE DEF q
  <2>3. (2 * s) * q = 2 * (s * q) /\ s * q \in Int
    BY <2>2
  <2>4. ASSUME q <= -1 PROVE FALSE
    <3>1. s * q <= s * (-1)
      BY <2>2, <2>4, ProductOrder
    <3>2. s * (-1) = -s
      OBVIOUS
    <3> QED
      BY <2>1, <2>2, <2>3, <3>1, <3>2
  <2>5. q \in Nat
    BY <2>2, <2>4
  <2> QED
    BY <2>2, <2>3, <2>5 DEF q
<1>2. CASE d >= 0
  <2> DEFINE q == (2 * d + s) \div (2 * s)
  <2>1. /\ q \in Nat /\ s * q \in Int
        /\ 2 * (s * q) <= 2 * d + s /\ 2 * d < 2 * (s * q) + s
    BY <1>1, <1>2
  <2>2. RoundedQuotient(d, s) = q
    BY <1>2 DEF RoundedQuotient
  <2>3. d <= 0 => q <= 0
    <3> SUFFICES ASSUME d <= 0, q >= 1 PROVE FALSE
      BY <2>1
    <3> HIDE DEF q
    <3>1. s * 1 <= s * q /\ s * 1 = s
      BY <2>1, ProductOrder
    <3> QED
      BY <1>2, <2>1, <3>1
  <2> HIDE DEF q
  <2> QED
    BY <1>2, <2>1, <2>2, <2>3
<1>3. CASE d < 0
  <2> DEFINE q == (2 * (-d) + s) \div (2 * s)
  <2>1. -d \in Nat
    BY <1>3
  <2>2. /\ q \in Nat /\ s * q \in Int
        /\ 2 * (s * q) <= 2 * (-d) + s /\ 2 * (-d) < 2 * (s * q) + s
    BY <1>1, <2>1
  <2>3. RoundedQuotient(d, s) = -q
    BY <1>3 DEF RoundedQuotient
  <2> HIDE DEF q
  <2>4. s * (-q) = -(s * q)
    BY <2>2
  <2> QED
    BY <1>3, <2>2, <2>3, <2>4
<1> QED
  BY <1>2, <1>3

\* A float without its fraction.
LEMMA Cut ==
    ASSUME NEW x \in Int
    PROVE  LET value == Truncated(x) * One
           IN  \/ 0 <= value /\ value <= x /\ x < value + One
               \/ 0 >= value /\ value >= x /\ x > value - One
<1>1. One \in Nat \ {0}
  BY WidthAssumption
<1>2. ASSUME NEW e \in Nat
      PROVE  LET q == e \div One
             IN  /\ q \in Int /\ q * One \in Int /\ 0 <= q * One
                 /\ q * One <= e /\ e < q * One + One
  <2> DEFINE q == e \div One
  <2>1. q \in Int /\ One * q \in Int /\ One * q <= e /\ e < One * q + One
    BY <1>1, Quotient
  <2> HIDE DEF q
  <2>2. q * One = One * q
    BY <1>1, <2>1
  <2>3. q * One \in Int /\ q * One <= e /\ e < q * One + One
    BY <2>1, <2>2
  <2>4. ASSUME q <= -1 PROVE FALSE
    <3>1. One * q <= One * (-1) /\ One * (-1) = -One
      BY <1>1, <2>1, <2>4, ProductOrder
    <3> QED
      BY <1>1, <2>1, <3>1
  <2>5. 0 <= q
    BY <2>1, <2>4
  <2>6. 0 <= q * One
    BY <1>1, <2>1, <2>5
  <2> QED
    BY <2>1, <2>3, <2>6 DEF q
<1>3. CASE x >= 0
  <2> DEFINE q == x \div One
  <2>1. q * One \in Int /\ 0 <= q * One /\ q * One <= x /\ x < q * One + One
    BY <1>2, <1>3
  <2>2. Truncated(x) = q
    BY <1>3 DEF Truncated
  <2> HIDE DEF q
  <2> QED
    BY <2>1, <2>2
<1>4. CASE x < 0
  <2> DEFINE q == (-x) \div One
  <2>1. -x \in Nat
    BY <1>4
  <2>2. /\ q \in Int /\ q * One \in Int /\ 0 <= q * One /\ q * One <= -x
        /\ -x < q * One + One
    BY <1>2, <2>1
  <2>3. Truncated(x) = -q
    BY <1>4 DEF Truncated
  <2> HIDE DEF q
  <2>4. (-q) * One = -(q * One)
    BY <1>1, <2>2
  <2>5. 0 >= -(q * One) /\ -(q * One) >= x /\ x > -(q * One) - One
    BY <1>1, <2>2
  <2> QED
    BY <2>3, <2>4, <2>5
<1> QED
  BY <1>3, <1>4

\* The greatest number of a quantized type.
LEMMA QuantizedMaxType ==
    ASSUME NEW type \in Quantized PROVE QuantizedMax(type) \in Int
<1>1. ByteValues^1 \in Int /\ ByteValues^2 \in Int
  BY WidthAssumption
<1>2. SizeInBytes("UFIXED_POINT_8") = 1 /\ SizeInBytes("UFIXED_POINT_16") = 2
  BY DEF SizeInBytes
<1> QED
  BY <1>1, <1>2 DEF Quantized, QuantizedMax

\* What a number of a quantized type stands for, from the offset on.
LEMMA StandsFor ==
    ASSUME NEW n \in Int, NEW offset \in Int, NEW s \in Nat \ {0}
    PROVE  /\ TfNToFloat(n, offset, s) = s * n + offset * s
           /\ s * n \in Int /\ offset * s \in Int
BY DEF TfNToFloat

\* A float that is quantized comes back to half a step, or as the nearest end of
\* the type.
LEMMA QuantizedFaithful ==
    ASSUME NEW x \in Int, NEW offset \in Int, NEW s \in Nat \ {0},
           NEW type \in Quantized, NEW n \in FloatToTfN(x, offset, s, type),
           InIntRange(RoundedQuotient(x - TfNToFloat(0, offset, s), s))
    PROVE  LET value == TfNToFloat(n, offset, s)
               lowest == TfNToFloat(0, offset, s)
               highest == TfNToFloat(QuantizedMax(type), offset, s)
           IN  \/ x < lowest /\ value = lowest
               \/ x > highest /\ value = highest
               \/ 2 * (x - value) <= s /\ 2 * (value - x) <= s
<1> DEFINE base == offset * s
           d == x - base
           r == RoundedQuotient(d, s)
           max == QuantizedMax(type)
<1>1. base \in Int /\ d \in Int /\ d = x - base
  OBVIOUS
<1>2. TfNToFloat(0, offset, s) = base
  BY StandsFor
<1>3. max \in Int
  BY QuantizedMaxType
<1>4. /\ r \in Int /\ s * r \in Int
      /\ 2 * (d - s * r) <= s /\ 2 * (s * r - d) <= s
      /\ d >= 0 => r >= 0
  BY <1>1, Rounded
<1>5. n = Clamp(r, max)
  BY <1>2 DEF FloatToTfN
<1>6. ASSUME NEW m \in Int
      PROVE  TfNToFloat(m, offset, s) = s * m + base /\ s * m \in Int
  BY StandsFor
<1> HIDE DEF base, d, r, max
<1>7. CASE r < 0
  <2>1. n = 0
    BY <1>5, <1>7 DEF Clamp
  <2>2. x < base
    BY <1>1, <1>4, <1>7
  <2> QED
    BY <1>2, <2>1, <2>2
<1>8. CASE ~(r < 0) /\ r > max
  <2>1. n = max
    BY <1>5, <1>8 DEF Clamp
  <2>2. s * (max + 1) <= s * r /\ s * (max + 1) = s * max + s /\ s * max \in Int
    BY <1>3, <1>4, <1>8, ProductOrder
  <2>3. x > s * max + base
    BY <1>1, <1>4, <2>2
  <2> QED
    BY <1>3, <1>6, <2>1, <2>3 DEF max
<1>9. CASE ~(r < 0) /\ ~(r > max)
  <2>1. n = r
    BY <1>5, <1>9 DEF Clamp
  <2>2. TfNToFloat(n, offset, s) = s * r + base
    BY <1>4, <1>6, <2>1
  <2>3. /\ 2 * (x - (s * r + base)) <= s
        /\ 2 * ((s * r + base) - x) <= s
    BY <1>1, <1>4
  <2> QED
    BY <2>2, <2>3
<1> QED
  BY <1>7, <1>8, <1>9

\* The value converted last came of one of the samples.
ConversionInv ==
    \A last \in conversion :
      /\ last.sample \in Samples /\ last.type \in Converted
      /\ last.n \in FromFloat(last.sample, last.type)

\* Whatever a conversion gives is faithful to the float it came from.
LEMMA ConvertsFaithfully == ConversionInv => ConversionIsFaithful
<1> SUFFICES ASSUME ConversionInv, NEW last \in conversion
             PROVE  LET x == last.sample.x
                        scale == last.sample.scale
                        value == ToFloat(last.n, last.sample, last.type)
                        lowest == ToFloat(0, last.sample, last.type)
                        highest == ToFloat(QuantizedMax(last.type), last.sample, last.type)
                    IN  IF last.type \in Quantized
                        THEN /\ OneScale(last.sample)
                             /\ InIntRange(RoundedQuotient(x - lowest, scale))
                             =>
                               \/ x < lowest /\ value = lowest
                               \/ x > highest /\ value = highest
                               \/ 2 * (x - value) <= scale /\ 2 * (value - x) <= scale
                        ELSE Fits(Truncated(x), last.type) =>
                               \/ 0 <= value /\ value <= x /\ x < value + One
                               \/ 0 >= value /\ value >= x /\ x > value - One
  BY DEF ConversionIsFaithful
<1>1. /\ last.sample.x \in Int /\ last.sample.offset \in Int
      /\ last.sample.scale \in Int
      /\ last.n \in FromFloat(last.sample, last.type)
  BY DataAssumption DEF ConversionInv
<1>2. CASE last.type \in Quantized
  <2> SUFFICES ASSUME last.sample.scale \in Nat \ {0},
                      InIntRange(RoundedQuotient(
                        last.sample.x - TfNToFloat(0, last.sample.offset, last.sample.scale),
                        last.sample.scale))
               PROVE  LET x == last.sample.x
                          scale == last.sample.scale
                          value == TfNToFloat(last.n, last.sample.offset, scale)
                          lowest == TfNToFloat(0, last.sample.offset, scale)
                          highest == TfNToFloat(QuantizedMax(last.type),
                                                last.sample.offset, scale)
                      IN  \/ x < lowest /\ value = lowest
                          \/ x > highest /\ value = highest
                          \/ 2 * (x - value) <= scale /\ 2 * (value - x) <= scale
    BY <1>1, <1>2 DEF ToFloat, OneScale
  <2>1. last.n \in FloatToTfN(last.sample.x, last.sample.offset, last.sample.scale,
                              last.type)
    BY <1>1, <1>2 DEF FromFloat
  <2> QED
    BY <1>1, <1>2, <2>1, QuantizedFaithful
<1>3. CASE last.type \notin Quantized
  <2> SUFFICES ASSUME Fits(Truncated(last.sample.x), last.type)
               PROVE  LET value == CastToFloat(last.n)
                      IN  \/ 0 <= value /\ value <= last.sample.x
                             /\ last.sample.x < value + One
                          \/ 0 >= value /\ value >= last.sample.x
                             /\ last.sample.x > value - One
    BY <1>3 DEF ToFloat
  <2>1. last.n = Truncated(last.sample.x)
    BY <1>1, <1>3 DEF FromFloat, CastFromFloat
  <2> QED
    BY <1>1, <2>1, Cut DEF CastToFloat
<1> QED
  BY <1>2, <1>3

\* What Convert leaves is such a value, or nothing.
LEMMA ConvertKeeps ==
    ASSUME NEW info, Convert(info) PROVE ConversionInv'
<1> DEFINE type == info.type
<1>1. CASE type \in Converted
  <2>1. PICK sample \in Samples : \E n \in FromFloat(sample, type) :
          conversion' = {[sample |-> sample, type |-> type, n |-> n]}
    BY <1>1 DEF Convert
  <2>2. PICK n \in FromFloat(sample, type) :
          conversion' = {[sample |-> sample, type |-> type, n |-> n]}
    BY <2>1
  <2> QED
    BY <1>1, <2>2 DEF ConversionInv, FromFloat
<1>2. CASE type \notin Converted
  BY <1>2 DEF Convert, ConversionInv
<1> QED
  BY <1>1, <1>2

\* The steps of an inference leave only such values.
LEMMA ConversionStep == ConversionInv /\ [InferenceNext]_allVars => ConversionInv'
<1> SUFFICES ASSUME ConversionInv, [InferenceNext]_allVars PROVE ConversionInv'
  OBVIOUS
<1>1. conversion' = {} => ConversionInv'
  BY DEF ConversionInv
<1>2. UNCHANGED conversion => ConversionInv'
  BY DEF ConversionInv, FromFloat
<1>3. CASE SetUpTensors
  BY <1>2, <1>3 DEF SetUpTensors, dataVars
<1>4. CASE SetUpDone
  BY <1>2, <1>4 DEF SetUpDone, dataVars
<1>5. CASE FillFloat
  BY <1>1, <1>5 DEF FillFloat
<1>6. CASE FillNative
  BY <1>6, ConvertKeeps DEF FillNative
<1>7. CASE StagingFails
  BY <1>2, <1>7 DEF StagingFails, dataVars
<1>8. CASE InputsFilled
  BY <1>1, <1>8 DEF InputsFilled
<1>9. CASE Execute
  BY <1>2, <1>9 DEF Execute
<1>10. CASE ReadFloat
  BY <1>2, <1>10 DEF ReadFloat
<1>11. CASE ReadNative
  BY <1>2, <1>11 DEF ReadNative
<1>12. CASE OutputsRead
  BY <1>2, <1>12 DEF OutputsRead, dataVars
<1>13. CASE Postprocess
  BY <1>2, <1>13 DEF Postprocess, dataVars
<1>14. CASE TearDownAfter
  BY <1>2, <1>14 DEF TearDownAfter, dataVars
<1>15. CASE Done \/ UNCHANGED allVars
  BY <1>2, <1>15 DEF Done, allVars, dataVars
<1> QED
  BY <1>3, <1>4, <1>5, <1>6, <1>7, <1>8, <1>9, <1>10, <1>11, <1>12, <1>13,
     <1>14, <1>15 DEF InferenceNext

\* A value an input is given stands for the float it came from, if it was cast, or
\* quantized with one offset and one positive scale.
THEOREM ConversionIsAlwaysFaithful == InferenceSpec => []ConversionIsFaithful
<1>1. InferenceInit => ConversionInv
  BY DEF InferenceInit, ConversionInv
<1> QED
  BY <1>1, ConversionStep, ConvertsFaithfully, PTL DEF InferenceSpec
=============================================================================
