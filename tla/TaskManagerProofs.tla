-------------------------- MODULE TaskManagerProofs --------------------------
(* Theorems about TaskManager, for every number of frames.                     *)
EXTENDS TaskManager, TLAPS

USE TaskAssumption

\* The frame an abstract reader would call the newest.
Offered == IF caller = "write" THEN count - 1 ELSE count

\* The flags follow the steps of the destructor, which no call overlaps.
FlagsFollowOwner ==
    /\ running <=> owner = "serving"
    /\ stopped <=> owner \in {"signal", "join", "gone"}
    /\ caller # "idle" => owner = "serving"

\* The slot holds the newest frame, and only while that has not been taken.
SlotIsOffered ==
    /\ slot # 0 => slot = Offered /\ held < slot
    /\ held <= Offered
    /\ count <= MaxFrames

LateOnlyLeaving ==
    \/ late = 0
    \/ /\ late = 1 /\ held = count
       /\ ~running /\ pc \in {"handle", "loop", "exited"}

IInv ==
    /\ TypeOK
    /\ FlagsFollowOwner
    /\ NoLostWakeup
    /\ SlotIsOffered
    /\ LateOnlyLeaving

\* The initial state satisfies the invariant.
LEMMA InitInv == Init => IInv
<1> SUFFICES ASSUME Init
             PROVE  IInv
  OBVIOUS
<1>1. TypeOK
  BY DEF Init, TypeOK, Places
<1>2. FlagsFollowOwner
  BY DEF Init, FlagsFollowOwner
<1>3. NoLostWakeup /\ SlotIsOffered /\ LateOnlyLeaving
  BY DEF Init, NoLostWakeup, SlotIsOffered, Offered, LateOnlyLeaving
<1> QED
  BY <1>1, <1>2, <1>3 DEF IInv

\* Every step preserves the invariant.
LEMMA NextInv == IInv /\ [Next]_vars => IInv'
<1> SUFFICES ASSUME IInv, [Next]_vars
             PROVE  IInv'
  OBVIOUS
<1> USE DEF IInv, TypeOK, Places, FlagsFollowOwner, NoLostWakeup, SlotIsOffered,
            Offered, LateOnlyLeaving, Wake
<1>1. CASE NumberFrame
  BY <1>1 DEF NumberFrame
<1>2. CASE WriteSlot
  BY <1>2 DEF WriteSlot
<1>3. CASE SignalFrame
  BY <1>3 DEF SignalFrame
<1>4. CASE CheckRunning
  BY <1>4 DEF CheckRunning
<1>5. CASE Take
  BY <1>5 DEF Take
<1>6. CASE LeaveStopped
  BY <1>6 DEF LeaveStopped
<1>7. CASE Sleep
  BY <1>7 DEF Sleep
<1>8. CASE SpuriousWakeup
  BY <1>8 DEF SpuriousWakeup
<1>9. CASE HandleMessage
  BY <1>9 DEF HandleMessage
<1>10. CASE StopRunning
  BY <1>10 DEF StopRunning
<1>11. CASE StopQueue
  BY <1>11 DEF StopQueue
<1>12. CASE SignalStop
  BY <1>12 DEF SignalStop
<1>13. CASE Join
  BY <1>13 DEF Join
<1>14. CASE UNCHANGED vars
  BY <1>14 DEF vars
<1> QED
  BY <1>1, <1>2, <1>3, <1>4, <1>5, <1>6, <1>7, <1>8, <1>9, <1>10, <1>11, <1>12,
     <1>13, <1>14 DEF Next, Caller, Thread, Owner, Terminated

\* The invariant holds of every behaviour.
LEMMA Invariance == Spec => []IInv
BY InitInv, NextInv, PTL DEF Spec

\* Whatever happens, the variables keep their types.
THEOREM TypeCorrect == Spec => []TypeOK
<1>1. IInv => TypeOK
  BY DEF IInv
<1> QED
  BY <1>1, Invariance, PTL

\* No signal comes too early for a thread that goes to sleep.
THEOREM NoWakeupIsLost == Spec => []NoLostWakeup
<1>1. IInv => NoLostWakeup
  BY DEF IInv
<1> QED
  BY <1>1, Invariance, PTL

\* The slot only holds a frame that is newer than all those taken, and the
\* destructor lets at most one more frame through, the newest.
THEOREM FramesAreInOrder == Spec => []FramesInOrder
<1>1. IInv => SlotIsNews
  BY DEF IInv, TypeOK, SlotIsOffered, Offered, SlotIsNews
<1>2. IInv => LateFrameIsNewest
  BY DEF IInv, LateOnlyLeaving, LateFrameIsNewest
<1>3. IInv => FramesInOrder
  BY <1>1, <1>2 DEF FramesInOrder
<1> QED
  BY <1>3, Invariance, PTL

\* Task_Manager and its queue implement LatestFrame.
THEOREM Refinement == Spec => ImplementsLatestFrame
<1>1. Init => Frames!Init
  BY DEF Init, Frames!Init
<1>2. ASSUME IInv, [Next]_vars
      PROVE  [Frames!Next]_(Frames!vars)
  <2> USE <1>2 DEF IInv, TypeOK, FlagsFollowOwner, SlotIsOffered, Offered,
          Frames!Next, Frames!Offer, Frames!Take, Frames!vars
  <2>1. CASE NumberFrame
    BY <2>1 DEF NumberFrame
  <2>2. CASE WriteSlot
    BY <2>2 DEF WriteSlot
  <2>3. CASE Take
    BY <2>3 DEF Take
  <2>4. CASE SignalFrame
    BY <2>4 DEF SignalFrame
  <2>5. CASE Thread /\ ~Take
    BY <2>5 DEF Thread, CheckRunning, LeaveStopped, Sleep, HandleMessage
  <2>6. CASE SpuriousWakeup \/ Owner \/ Terminated \/ UNCHANGED vars
    BY <2>6 DEF SpuriousWakeup, Owner, StopRunning, StopQueue, SignalStop, Join,
                Terminated, vars
  <2> QED
    BY <2>1, <2>2, <2>3, <2>4, <2>5, <2>6 DEF Next, Caller
<1> QED
  BY <1>1, <1>2, Invariance, PTL DEF Spec, Frames!Spec, ImplementsLatestFrame
=============================================================================
