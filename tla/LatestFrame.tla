----------------------------- MODULE LatestFrame -----------------------------
(* What a single-slot queue of frames promises, with no lock or condition      *)
(* variable: frames are numbered as they come, whoever takes one takes the     *)
(* newest there is, and no frame is taken twice.                               *)
EXTENDS Naturals

CONSTANT MaxFrames     \* bound: frames offered

VARIABLES
    offered,    \* the number of the newest frame
    taken       \* the number of the frame taken last

vars == <<offered, taken>>

Init == offered = 0 /\ taken = 0

Offer ==
    /\ offered < MaxFrames
    /\ offered' = offered + 1
    /\ UNCHANGED taken

Take ==
    /\ taken < offered
    /\ taken' = offered
    /\ UNCHANGED offered

Next == Offer \/ Take

Spec == Init /\ [][Next]_vars
=============================================================================
