-------------------------- MODULE MCModelLifecycle --------------------------
(* ModelLifecycle on small sets, and what a comment of io_tensor.cpp says.     *)
EXTENDS ModelLifecycle, TLC

WorkerSymmetry == Permutations(Workers)

\* io_tensor.cpp:281, "Clean up all input and output tensors after execution.":
\* between inferences no tensor is left.
TensorsCleanedUp == (\A w \in Workers : pc[w] = "idle") => heldTensors = 0
=============================================================================
