--------------------------- MODULE TerminatorProofs ---------------------------
(* Theorems about Terminator, for every number of workers, every clock, every  *)
(* bound and every scale of the durations.                                     *)
EXTENDS Terminator, ClawHistoryProofs

USE TerminatorAssumption DEF WORKING, STOPPING, GARBAGE, ClawStates, Movings

-----------------------------------------------------------------------------
(* Type correctness.                                                           *)

\* A queue stays a queue of messages when one is pushed.
LEMMA EnqueueType ==
    ASSUME NEW m \in Message, TypeOK, Enqueue(m)
    PROVE  queue' \in Seq(Message) /\ pc' \in Places
BY AppendProperties DEF TypeOK, Enqueue, Places

\* The initial state is well typed.
LEMMA InitType == Init => TypeOK
<1> SUFFICES ASSUME Init
             PROVE  TypeOK
  OBVIOUS
<1>1. NoMessage \in Message
  BY DEF NoMessage, Message
<1>2. queue \in Seq(Message) /\ history \in Seq(Message)
  BY EmptySeq DEF Init
<1>3. clock \in 1..MaxTime /\ stamp \in [Workers -> 0..MaxTime]
  BY DEF Init
<1> QED
  BY <1>1, <1>2, <1>3 DEF Init, TypeOK, Places

\* Every step preserves the types.
LEMMA NextType == TypeOK /\ [Next]_vars => TypeOK'
<1> SUFFICES ASSUME TypeOK, [Next]_vars
             PROVE  TypeOK'
  OBVIOUS
<1>1. ASSUME NEW w \in Workers, BeginInference(w)
      PROVE  TypeOK'
  BY <1>1 DEF BeginInference, TypeOK, threadVars, ownerVars
<1>2. ASSUME NEW w \in Workers, UpdateManipulationState(w)
      PROVE  TypeOK'
  <2>1. PICK moving \in ClawStates :
          Enqueue([timestamp |-> stamp[w], moving |-> moving])
    BY <1>2 DEF UpdateManipulationState
  <2>2. [timestamp |-> stamp[w], moving |-> moving] \in Message
    BY DEF TypeOK, Message
  <2>3. queue' \in Seq(Message) /\ pc' \in Places
    BY <2>1, <2>2, EnqueueType
  <2> QED
    BY <1>2, <2>3 DEF UpdateManipulationState, TypeOK, ownerVars
<1>3. CASE CheckRunning
  BY <1>3 DEF CheckRunning, TypeOK, Places, ownerVars, countVars
<1>4. CASE WaitForMessage
  <2>1. CASE queue = <<>>
    BY <1>4, <2>1 DEF WaitForMessage, TypeOK, Places, ownerVars, countVars
  <2>2. CASE queue # <<>>
    <3>1. Head(queue) \in Message /\ Tail(queue) \in Seq(Message)
      BY <2>2, HeadTailProperties DEF TypeOK
    <3> QED
      BY <1>4, <2>2, <3>1 DEF WaitForMessage, TypeOK, Places, ownerVars, countVars
  <2> QED
    BY <2>1, <2>2
<1>5. CASE SpuriousWakeup
  BY <1>5 DEF SpuriousWakeup, TypeOK, Places, ownerVars, countVars
<1>6. CASE HandleMessage
  <2>1. history' \in Seq(Message)
    BY <1>6, RecordType DEF HandleMessage, TypeOK
  <2>2. IsWorking(history') \in BOOLEAN
    BY IsWorkingType
  <2>3. working' \in BOOLEAN /\ clawState' \in BOOLEAN
    <3>1. clawState \in BOOLEAN
      BY DEF TypeOK
    <3>2. working' \in BOOLEAN
      BY <1>6, <2>2 DEF HandleMessage
    <3>3. clawState' \in BOOLEAN
      BY <1>6, <3>1, ClawStateAfterType DEF HandleMessage
    <3> QED
      BY <3>2, <3>3
  <2> QED
    BY <1>6, <2>1, <2>3 DEF HandleMessage, TypeOK, Places, ownerVars, countVars
<1>7. CASE Publish
  BY <1>7 DEF Publish, TypeOK, Places, ownerVars
<1>8. CASE StopRunning
  BY <1>8 DEF StopRunning, TypeOK, threadVars, countVars
<1>9. CASE Notify
  <2>1. PICK moving \in Movings : Enqueue([timestamp |-> 0, moving |-> moving])
    BY <1>9 DEF Notify
  <2>2. [timestamp |-> 0, moving |-> moving] \in Message
    BY DEF Message
  <2>3. queue' \in Seq(Message) /\ pc' \in Places
    BY <2>1, <2>2, EnqueueType
  <2> QED
    BY <1>9, <2>3 DEF Notify, TypeOK, countVars
<1>10. CASE Join
  BY <1>10 DEF Join, TypeOK, threadVars, countVars
<1>11. CASE UNCHANGED vars
  BY <1>11 DEF TypeOK, vars
<1> QED
  BY <1>1, <1>2, <1>3, <1>4, <1>5, <1>6, <1>7, <1>8, <1>9, <1>10, <1>11
     DEF Next, Thread, Owner, Terminated

\* Whatever happens, the variables keep their types.
THEOREM TypeCorrect == Spec => []TypeOK
BY InitType, NextType, PTL DEF Spec

-----------------------------------------------------------------------------
(* The safety invariants. They are inductive together with three facts about   *)
(* the shutdown: running_ tells whether the owner serves, no message without a *)
(* state is in line before it is cleared, and the thread that has published a  *)
(* late verdict, or recorded the closing message, can only leave its loop.     *)

Real(m) == m.timestamp # 0 /\ m.moving \in ClawStates

\* A message of an update, or the closing one once there may be one.
Fits(m) == Real(m) \/ (m.timestamp = 0 /\ ~running)

\* The thread is past the last message it will handle.
Leaving == ~running /\ pc \in {"loop", "exited"}

OwnerServes == running <=> owner = "serving"

LineIsReal ==
    /\ \A i \in DOMAIN queue : Fits(queue[i])
    /\ pc = "handle" => Fits(msg)

HistoryIsReal ==
    \/ \A i \in DOMAIN history : Real(history[i])
    \/ Len(history) = 1 /\ ~running /\ pc \in {"publish", "loop", "exited"}

LateOnlyLeaving == late = 0 \/ (late = 1 /\ Leaving)

IInv ==
    /\ OwnerServes
    /\ LineIsReal
    /\ NoUpdateLost
    /\ HistorySound
    /\ HistoryIsReal
    /\ LateOnlyLeaving

\* The initial state satisfies the invariant.
LEMMA InitInv == Init => IInv
<1> SUFFICES ASSUME Init
             PROVE  IInv
  OBVIOUS
<1>1. /\ queue = <<>> /\ history = <<>>
      /\ DOMAIN queue = {} /\ DOMAIN history = {}
      /\ Len(queue) = 0
  BY DEF Init
<1>2. OwnerServes
  BY Zenon DEF Init, OwnerServes
<1>3. LineIsReal /\ HistoryIsReal
  BY <1>1 DEF Init, LineIsReal, HistoryIsReal
<1>4. LateOnlyLeaving
  BY DEF Init, LateOnlyLeaving, Leaving
<1>5. NoUpdateLost
  BY <1>1 DEF Init, NoUpdateLost, InHand
<1>6. HistorySound
  BY <1>1 DEF HistorySound, Ordered, Windowed
<1> QED
  BY <1>2, <1>3, <1>4, <1>5, <1>6 DEF IInv

\* What a push does to the queue and to the count of messages in hand.
LEMMA EnqueueEffect ==
    ASSUME NEW m \in Message, TypeOK, Enqueue(m)
    PROVE  /\ Len(queue') = Len(queue) + 1
           /\ Len(queue) \in Nat
           /\ InHand' = InHand
           /\ pc' = pc \/ (pc = "asleep" /\ pc' = "wait")
           /\ \A i \in DOMAIN queue' : queue'[i] = m \/ \E j \in DOMAIN queue :
                                                         queue'[i] = queue[j]
<1>1. /\ queue \in Seq(Message)
      /\ queue' = Append(queue, m)
      /\ pc' = IF pc = "asleep" THEN "wait" ELSE pc
  BY DEF TypeOK, Enqueue
<1>2. /\ Len(queue') = Len(queue) + 1
      /\ Len(queue) \in Nat
      /\ DOMAIN queue = 1..Len(queue)
      /\ DOMAIN queue' = 1..(Len(queue) + 1)
      /\ \A i \in 1..Len(queue) : queue'[i] = queue[i]
      /\ queue'[Len(queue) + 1] = m
  <2>1. queue' \in Seq(Message)
    BY <1>1, AppendProperties
  <2> QED
    BY <1>1, <2>1, AppendProperties, LenProperties
<1>3. InHand' = InHand
  BY <1>1 DEF InHand
<1> QED
  BY <1>1, <1>2, <1>3

\* An update pushed by a worker preserves the invariant.
LEMMA UpdateKeepsInv ==
    ASSUME TypeOK, IInv, NEW w \in Workers, UpdateManipulationState(w)
    PROVE  IInv'
<1>1. PICK moving \in ClawStates :
        Enqueue([timestamp |-> stamp[w], moving |-> moving])
  BY DEF UpdateManipulationState
<1> DEFINE m == [timestamp |-> stamp[w], moving |-> moving]
<1>2. m \in Message /\ Real(m)
  BY DEF UpdateManipulationState, TypeOK, Message, Real
<1>3. UNCHANGED <<history, msg, running, owner, late, answered>> /\ pushed' = pushed + 1
  BY DEF UpdateManipulationState, ownerVars
<1>4. /\ Len(queue') = Len(queue) + 1
      /\ Len(queue) \in Nat
      /\ InHand' = InHand
      /\ pc' = pc \/ (pc = "asleep" /\ pc' = "wait")
      /\ \A i \in DOMAIN queue' : queue'[i] = m \/ \E j \in DOMAIN queue :
                                                    queue'[i] = queue[j]
  BY <1>1, <1>2, EnqueueEffect
<1>5. LineIsReal'
  <2>1. ASSUME NEW i \in DOMAIN queue'
        PROVE  Fits(queue[i])'
    <3>1. CASE queue'[i] = m
      BY <1>2, <3>1 DEF Fits, Real
    <3>2. CASE \E j \in DOMAIN queue : queue'[i] = queue[j]
      BY <1>3, <3>2 DEF IInv, LineIsReal, Fits, Real
    <3> QED
      BY <1>4, <3>1, <3>2
  <2>2. pc' = "handle" => pc = "handle"
    BY <1>4
  <2>3. (pc = "handle" => Fits(msg))'
    BY <1>3, <2>2 DEF IInv, LineIsReal, Fits, Real
  <2> QED
    BY <2>1, <2>3 DEF LineIsReal
<1>6. NoUpdateLost'
  <2>1. InHand \in Nat
    BY DEF InHand
  <2> QED
    BY <1>3, <1>4, <2>1 DEF NoUpdateLost, IInv, TypeOK
<1>7. HistoryIsReal' /\ LateOnlyLeaving' /\ OwnerServes'
  BY <1>3, <1>4 DEF HistoryIsReal, LateOnlyLeaving, Leaving, OwnerServes, IInv
<1>8. HistorySound'
  BY <1>3 DEF HistorySound, IInv
<1> QED
  BY <1>5, <1>6, <1>7, <1>8 DEF IInv

\* Popping a message preserves the invariant, as does falling asleep.
LEMMA WaitKeepsInv ==
    ASSUME TypeOK, IInv, WaitForMessage
    PROVE  IInv'
<1>1. UNCHANGED <<history, running, owner, late, pushed, answered>> /\ pc = "wait"
  BY DEF WaitForMessage, ownerVars, countVars
<1>2. HistorySound' /\ OwnerServes'
  BY <1>1 DEF HistorySound, OwnerServes, IInv
<1>3. late = 0 /\ \A i \in DOMAIN history : Real(history[i])
  BY <1>1 DEF IInv, LateOnlyLeaving, Leaving, HistoryIsReal
<1>4. HistoryIsReal' /\ LateOnlyLeaving'
  BY <1>1, <1>3 DEF HistoryIsReal, Real, LateOnlyLeaving, Leaving
<1>5. CASE queue = <<>>
  <2>1. pc' = "asleep" /\ UNCHANGED <<queue, msg>>
    BY <1>5 DEF WaitForMessage
  <2>2. LineIsReal' /\ NoUpdateLost'
    BY <1>1, <2>1 DEF LineIsReal, Fits, NoUpdateLost, InHand, IInv
  <2> QED
    BY <1>2, <1>4, <2>2 DEF IInv
<1>6. CASE queue # <<>>
  <2>1. pc' = "handle" /\ msg' = Head(queue) /\ queue' = Tail(queue)
    BY <1>6 DEF WaitForMessage
  <2>2. /\ queue \in Seq(Message)
        /\ Len(queue') = Len(queue) - 1
        /\ \A i \in 1..Len(queue') : queue'[i] = queue[i + 1]
        /\ DOMAIN queue' = 1..Len(queue')
        /\ DOMAIN queue = 1..Len(queue)
        /\ Len(queue) \in Nat \ {0}
        /\ msg' = queue[1]
    <3>1. queue \in Seq(Message)
      BY DEF TypeOK
    <3>2. Tail(queue) \in Seq(Message)
      BY <1>6, <3>1, HeadTailProperties
    <3>3. Len(queue) \in Nat \ {0}
      BY <1>6, <3>1, EmptySeq
    <3> QED
      BY <1>6, <2>1, <3>1, <3>2, <3>3, HeadTailProperties, LenProperties
  <2>3. LineIsReal'
    BY <1>1, <2>1, <2>2 DEF LineIsReal, Fits, Real, IInv
  <2>4. NoUpdateLost'
    BY <1>1, <2>1, <2>2 DEF NoUpdateLost, InHand, IInv, TypeOK
  <2> QED
    BY <1>2, <1>4, <2>3, <2>4 DEF IInv
<1> QED
  BY <1>5, <1>6

\* Handling a message preserves the invariant: a message without a state only
\* comes once running_ is cleared, and its timestamp of zero is refused by every
\* history but the empty one.
LEMMA HandleKeepsInv ==
    ASSUME TypeOK, IInv, HandleMessage
    PROVE  IInv'
<1>1. /\ pc = "handle" /\ pc' = "publish"
      /\ history' = Record(history, msg)
      /\ UNCHANGED <<queue, msg, running, owner, late, pushed, answered>>
  BY DEF HandleMessage, ownerVars, countVars
<1>2. /\ history \in Seq(Message) /\ msg \in Message
      /\ Ordered(history) /\ Windowed(history)
  BY DEF TypeOK, IInv, HistorySound
<1>3. HistorySound'
  BY <1>1, <1>2, RecordKeepsOrder DEF HistorySound
<1>4. OwnerServes' /\ LineIsReal' /\ NoUpdateLost' /\ LateOnlyLeaving'
  BY <1>1 DEF IInv, OwnerServes, LineIsReal, Fits, NoUpdateLost, InHand,
              LateOnlyLeaving, Leaving
<1>5. \A i \in DOMAIN history : Real(history[i])
  BY <1>1 DEF IInv, HistoryIsReal
<1>6. HistoryIsReal'
  <2>1. CASE Real(msg)
    <3>1. \A i \in DOMAIN history' :
            history'[i] = msg \/ \E j \in DOMAIN history : history'[i] = history[j]
      BY <1>1, <1>2, RecordKeepsOrder
    <3> QED
      BY <1>5, <2>1, <3>1 DEF HistoryIsReal
  <2>2. CASE ~Real(msg) /\ history = <<>>
    <3>1. Len(history') = 1
      BY <1>1, <1>2, <2>2, RecordFirst
    <3>2. ~running
      BY <1>1, <2>2 DEF IInv, LineIsReal, Fits
    <3> QED
      BY <1>1, <3>1, <3>2 DEF HistoryIsReal
  <2>3. CASE ~Real(msg) /\ history # <<>>
    <3>1. msg.timestamp = 0
      BY <1>1, <2>3 DEF IInv, LineIsReal, Fits
    <3>2. Len(history) \in DOMAIN history
      BY <1>2, <2>3, EmptySeq, LenProperties
    <3>3. history[Len(history)].timestamp \in Nat \ {0}
      <4>1. history[Len(history)] \in Message
        BY <1>2, <3>2, LenProperties, ElementOfSeq
      <4> QED
        BY <1>5, <3>2, <4>1 DEF Real, Message
    <3>4. ~NewManipulationData(history, msg.timestamp)
      BY <2>3, <3>1, <3>3 DEF NewManipulationData
    <3>5. history' = history
      BY <1>1, <3>4 DEF Record
    <3> QED
      BY <1>5, <3>5 DEF HistoryIsReal
  <2> QED
    BY <2>1, <2>2, <2>3
<1> QED
  BY <1>3, <1>4, <1>6 DEF IInv

\* The closing message preserves the invariant: running_ has been cleared.
LEMMA NotifyKeepsInv ==
    ASSUME TypeOK, IInv, Notify
    PROVE  IInv'
<1>1. PICK moving \in Movings : Enqueue([timestamp |-> 0, moving |-> moving])
  BY DEF Notify
<1> DEFINE m == [timestamp |-> 0, moving |-> moving]
<1>2. m \in Message /\ m.timestamp = 0
  BY DEF Message
<1>3. /\ UNCHANGED <<history, msg, running, late, answered, pushed>>
      /\ owner = "stopping" /\ owner' = "joining"
  BY DEF Notify, countVars
<1>4. ~running
  BY <1>3 DEF IInv, OwnerServes
<1>5. /\ pc' = pc \/ (pc = "asleep" /\ pc' = "wait")
      /\ \A i \in DOMAIN queue' : queue'[i] = m \/ \E j \in DOMAIN queue :
                                                    queue'[i] = queue[j]
  BY <1>1, <1>2, EnqueueEffect
<1>6. LineIsReal'
  BY <1>2, <1>3, <1>4, <1>5 DEF LineIsReal, Fits, Real, IInv
<1>7. /\ OwnerServes' /\ NoUpdateLost' /\ HistoryIsReal' /\ LateOnlyLeaving'
      /\ HistorySound'
  BY <1>3, <1>4, <1>5 DEF IInv, OwnerServes, NoUpdateLost, HistoryIsReal,
       LateOnlyLeaving, Leaving, HistorySound
<1> QED
  BY <1>6, <1>7 DEF IInv

\* Publishing preserves the invariant: a late verdict is the thread's last.
LEMMA PublishKeepsInv ==
    ASSUME TypeOK, IInv, Publish
    PROVE  IInv'
<1>1. /\ pc = "publish" /\ pc' = "loop"
      /\ UNCHANGED <<queue, history, msg, running, owner, pushed>>
      /\ IF running THEN answered' = answered + 1 /\ late' = late
                    ELSE late' = late + 1 /\ answered' = answered
  BY DEF Publish, ownerVars
<1>2. late = 0
  BY <1>1 DEF IInv, LateOnlyLeaving, Leaving
<1>3. NoUpdateLost'
  <2>1. Len(queue) \in Nat
    BY LenProperties DEF TypeOK
  <2> QED
    BY <1>1, <2>1 DEF IInv, NoUpdateLost, InHand, TypeOK
<1>4. LateOnlyLeaving'
  <2>1. CASE running
    BY <1>1, <1>2, <2>1 DEF LateOnlyLeaving, Leaving
  <2>2. CASE ~running
    BY <1>1, <1>2, <2>2 DEF LateOnlyLeaving, Leaving
  <2> QED
    BY <2>1, <2>2
<1>5. /\ OwnerServes' /\ LineIsReal' /\ HistoryIsReal'
      /\ HistorySound'
  BY <1>1 DEF IInv, OwnerServes, LineIsReal, Fits, HistoryIsReal,
              HistorySound
<1> QED
  BY <1>3, <1>4, <1>5 DEF IInv

\* The remaining steps move the thread without a message, or the owner.
LEMMA OtherStepsKeepInv ==
    ASSUME TypeOK, IInv,
           \/ \E w \in Workers : BeginInference(w)
           \/ CheckRunning \/ SpuriousWakeup \/ StopRunning \/ Join
           \/ UNCHANGED vars
    PROVE  IInv'
<1>1. UNCHANGED <<queue, history, msg, pushed, answered, late>>
  BY DEF BeginInference, CheckRunning, SpuriousWakeup, StopRunning, Join,
         threadVars, ownerVars, countVars, vars
<1>2. OwnerServes' /\ (running' => running)
  BY DEF IInv, OwnerServes, BeginInference, CheckRunning, SpuriousWakeup,
         StopRunning, Join, threadVars, ownerVars, vars
<1>3. \/ pc' = pc
      \/ pc = "loop" /\ running /\ pc' = "wait" /\ running' = running
      \/ pc = "loop" /\ ~running /\ pc' = "exited" /\ running' = running
      \/ pc = "asleep" /\ pc' = "wait" /\ running' = running
  BY DEF BeginInference, CheckRunning, SpuriousWakeup, StopRunning, Join,
         threadVars, ownerVars, vars
<1>4. LineIsReal' /\ HistoryIsReal' /\ LateOnlyLeaving'
  BY <1>1, <1>2, <1>3 DEF IInv, LineIsReal, Fits, HistoryIsReal,
                          LateOnlyLeaving, Leaving
<1>5. NoUpdateLost'
  BY <1>1, <1>2, <1>3 DEF IInv, NoUpdateLost, InHand
<1>6. HistorySound'
  BY <1>1 DEF IInv, HistorySound
<1> QED
  BY <1>2, <1>4, <1>5, <1>6 DEF IInv

\* Every step preserves the invariant.
LEMMA NextInv == TypeOK /\ IInv /\ [Next]_vars => IInv'
BY UpdateKeepsInv, WaitKeepsInv, HandleKeepsInv, NotifyKeepsInv,
   PublishKeepsInv, OtherStepsKeepInv
   DEF Next, Thread, Owner, Terminated

\* The invariant holds of every behaviour.
LEMMA Invariance == Spec => []IInv
BY TypeCorrect, InitInv, NextInv, PTL DEF Spec

-----------------------------------------------------------------------------
(* The theorems.                                                               *)

\* No update is lost or answered twice while the object serves.
THEOREM NoUpdateIsLost == Spec => []NoUpdateLost
<1>1. IInv => NoUpdateLost
  BY DEF IInv
<1> QED
  BY <1>1, Invariance, PTL

\* The history is in the order of time, whatever the clock does, and never spans
\* more than the limit.
THEOREM HistoryIsSound == Spec => []HistorySound
<1>1. IInv => HistorySound
  BY DEF IInv
<1> QED
  BY <1>1, Invariance, PTL

\* The closing message never mixes with the updates of a history.
THEOREM PoisonIsIsolated == Spec => []PoisonIsolated
<1>1. IInv => PoisonIsolated
  BY DEF IInv, HistoryIsReal, PoisonIsolated, Real
<1> QED
  BY <1>1, Invariance, PTL

\* The destructor lets at most one more verdict out.
THEOREM OneLateVerdict == Spec => []AtMostOneLateVerdict
<1>1. IInv => AtMostOneLateVerdict
  BY DEF IInv, LateOnlyLeaving, AtMostOneLateVerdict
<1> QED
  BY <1>1, Invariance, PTL

-----------------------------------------------------------------------------
(* The verdict.                                                                *)

\* Handling a message leaves the claw state the reference gives: a history with
\* nothing to judge was so before the message, or empty.
LEMMA HandleKeepsReference ==
    ASSUME TypeOK, IInv, ClawStateIsReference, HandleMessage
    PROVE  ClawStateIsReference'
<1>1. /\ pc = "handle"
      /\ history' = Record(history, msg)
      /\ clawState' = ClawStateAfter(clawState, history')
  BY DEF HandleMessage
<1>2. /\ history \in Seq(Message) /\ msg \in Message
      /\ history' \in Seq(Message) /\ Ordered(history')
  BY <1>1, RecordKeepsOrder DEF TypeOK, IInv, HistorySound
<1>3. CASE ~NothingToJudge(history')
  BY <1>1, <1>2, <1>3, ScanIsReference DEF ClawStateAfter, ClawStateIsReference
<1>4. CASE NothingToJudge(history')
  <2>1. /\ clawState' = ReferenceVerdict(history)
        /\ ReferenceVerdict(history') = FALSE
        /\ \A i \in DOMAIN history' : history'[i].moving \notin ClawStates
    BY <1>1, <1>2, <1>4, NothingIsReference DEF ClawStateAfter, ClawStateIsReference
  <2>2. CASE history' = history
    BY <2>1, <2>2 DEF ClawStateIsReference
  <2>3. CASE history' # history
    <3>1. /\ NewManipulationData(history, msg.timestamp)
          /\ msg.moving \notin ClawStates
      BY <1>1, <1>2, <2>1, <2>3, RecordLast
    <3>2. msg.timestamp = 0
      BY <1>1, <3>1 DEF IInv, LineIsReal, Fits, Real
    <3>3. history = <<>>
      <4> SUFFICES ASSUME history # <<>> PROVE FALSE
        OBVIOUS
      <4>1. Len(history) \in DOMAIN history
        BY <1>2, EmptySeq, LenProperties
      <4>2. Real(history[Len(history)]) /\ history[Len(history)] \in Message
        BY <1>1, <1>2, <4>1, LenProperties, ElementOfSeq DEF IInv, HistoryIsReal
      <4> QED
        BY <3>1, <3>2, <4>2 DEF Real, NewManipulationData, Message
    <3>4. NothingToJudge(<<>>)
      <4>1. DOMAIN <<>> = {}
        OBVIOUS
      <4> QED
        BY <4>1 DEF NothingToJudge, Filtered, FilteredSegments, Segments, Runs, Classified
    <3>5. ReferenceVerdict(history) = FALSE
      BY <1>2, <3>3, <3>4, NothingIsReference
    <3> QED
      BY <2>1, <3>5 DEF ClawStateIsReference
  <2> QED
    BY <2>2, <2>3
<1> QED
  BY <1>3, <1>4

\* Whatever the clock does and the workers overtake, a reader of the claw state
\* finds the state of the newest run that settles the verdict.
THEOREM ClawStateIsTheReference == Spec => []ClawStateIsReference
<1>1. Init => ClawStateIsReference
  <2> SUFFICES ASSUME Init PROVE ClawStateIsReference
    OBVIOUS
  <2>1. history = <<>> /\ DOMAIN history = {} /\ clawState = FALSE
    BY DEF Init
  <2>2. Filtered(history) = {}
    BY <2>1 DEF Filtered, FilteredSegments, Segments, Runs, Classified
  <2>3. ReferenceVerdict(history) = FALSE
    BY <2>2 DEF ReferenceVerdict, Runs
  <2> QED
    BY <2>1, <2>3 DEF ClawStateIsReference
<1>2. TypeOK /\ IInv /\ ClawStateIsReference /\ [Next]_vars => ClawStateIsReference'
  <2> SUFFICES ASSUME TypeOK, IInv, ClawStateIsReference, [Next]_vars
               PROVE  ClawStateIsReference'
    OBVIOUS
  <2>1. CASE HandleMessage
    BY <2>1, HandleKeepsReference
  <2>2. CASE UNCHANGED <<history, clawState>>
    BY <2>2 DEF ClawStateIsReference
  <2>3. HandleMessage \/ UNCHANGED <<history, clawState>>
    BY DEF Next, Thread, Owner, Terminated, BeginInference, UpdateManipulationState,
           CheckRunning, WaitForMessage, SpuriousWakeup, Publish, StopRunning, Notify,
           Join, threadVars, vars
  <2> QED
    BY <2>1, <2>2, <2>3
<1> QED
  BY <1>1, <1>2, TypeCorrect, Invariance, PTL DEF Spec

\* No timestamp is beyond the clock's last.
InTime ==
    /\ \A i \in DOMAIN queue : queue[i].timestamp <= MaxTime
    /\ msg.timestamp <= MaxTime
    /\ \A i \in DOMAIN history : history[i].timestamp <= MaxTime

\* It is so of every behaviour.
LEMMA InTimeInvariant == Spec => []InTime
<1>1. Init => InTime
  <2> SUFFICES ASSUME Init PROVE InTime
    OBVIOUS
  <2>1. DOMAIN queue = {} /\ DOMAIN history = {} /\ msg.timestamp = 0
    BY DEF Init, NoMessage
  <2> QED
    BY <2>1 DEF InTime
<1>2. TypeOK /\ IInv /\ InTime /\ [Next]_vars => InTime'
  <2> SUFFICES ASSUME TypeOK, IInv, InTime, [Next]_vars
               PROVE  InTime'
    OBVIOUS
  <2>1. ASSUME NEW m \in Message, m.timestamp <= MaxTime, Enqueue(m),
               UNCHANGED <<msg, history>>
        PROVE  InTime'
    <3>1. \A i \in DOMAIN queue' : queue'[i] = m \/ \E j \in DOMAIN queue :
                                                    queue'[i] = queue[j]
      BY <2>1, EnqueueEffect
    <3> QED
      BY <2>1, <3>1 DEF InTime
  <2>2. ASSUME NEW w \in Workers, UpdateManipulationState(w)
        PROVE  InTime'
    <3>1. PICK moving \in ClawStates :
            Enqueue([timestamp |-> stamp[w], moving |-> moving])
      BY <2>2 DEF UpdateManipulationState
    <3>2. stamp[w] \in 0..MaxTime
      BY DEF TypeOK
    <3> DEFINE m == [timestamp |-> stamp[w], moving |-> moving]
    <3>3. m \in Message /\ m.timestamp <= MaxTime
      BY <3>2 DEF Message
    <3> HIDE DEF m
    <3> QED
      BY <2>1, <2>2, <3>1, <3>3 DEF UpdateManipulationState, m
  <2>3. CASE Notify
    <3>1. PICK moving \in Movings : Enqueue([timestamp |-> 0, moving |-> moving])
      BY <2>3 DEF Notify
    <3> DEFINE m == [timestamp |-> 0, moving |-> moving]
    <3>2. m \in Message /\ m.timestamp <= MaxTime
      BY DEF Message
    <3> HIDE DEF m
    <3> QED
      BY <2>1, <2>3, <3>1, <3>2 DEF Notify, m
  <2>4. CASE WaitForMessage
    <3>1. CASE queue = <<>>
      BY <2>4, <3>1 DEF WaitForMessage, InTime
    <3>2. CASE queue # <<>>
      <4>1. /\ queue \in Seq(Message) /\ Tail(queue) \in Seq(Message)
            /\ Len(queue) \in Nat \ {0}
            /\ Len(Tail(queue)) = Len(queue) - 1
            /\ \A i \in 1..Len(Tail(queue)) : Tail(queue)[i] = queue[i + 1]
        BY <3>2, HeadTailProperties, EmptySeq DEF TypeOK
      <4>2. /\ DOMAIN queue = 1..Len(queue)
            /\ DOMAIN Tail(queue) = 1..(Len(queue) - 1)
            /\ Head(queue) = queue[1]
        BY <4>1, LenProperties
      <4>3. \A i \in DOMAIN Tail(queue) : i + 1 \in DOMAIN queue /\ Tail(queue)[i] = queue[i + 1]
        BY <4>1, <4>2
      <4>4. 1 \in DOMAIN queue
        BY <4>1, <4>2
      <4> QED
        BY <2>4, <3>2, <4>2, <4>3, <4>4 DEF WaitForMessage, InTime
    <3> QED
      BY <3>1, <3>2
  <2>5. CASE HandleMessage
    <3>1. \A i \in DOMAIN Record(history, msg) :
            \/ Record(history, msg)[i] = msg
            \/ \E j \in DOMAIN history : Record(history, msg)[i] = history[j]
      BY RecordKeepsOrder DEF TypeOK, IInv, HistorySound
    <3> QED
      BY <2>5, <3>1 DEF HandleMessage, InTime
  <2>6. CASE UNCHANGED <<queue, msg, history>>
    BY <2>6 DEF InTime
  <2>7. \/ \E w \in Workers : UpdateManipulationState(w)
        \/ Notify \/ WaitForMessage \/ HandleMessage \/ UNCHANGED <<queue, msg, history>>
    BY DEF Next, Thread, Owner, Terminated, BeginInference, CheckRunning,
           SpuriousWakeup, Publish, StopRunning, Join, threadVars, vars
  <2> QED
    BY <2>2, <2>3, <2>4, <2>5, <2>6, <2>7
<1> QED
  BY <1>1, <1>2, TypeCorrect, Invariance, PTL DEF Spec

\* A clock that stays below the limit of a segment makes every history of real
\* updates a short one.
LEMMA RealIsShort ==
    ASSUME NEW h \in Seq(Message), h # <<>>, MaxTime <= SegmentLimit,
           \A i \in DOMAIN h : Real(h[i]) /\ h[i].timestamp <= MaxTime
    PROVE  Updates(h) /\ Short(h)
<1>1. \A i \in DOMAIN h : h[i].timestamp \in 1..MaxTime
  <2> SUFFICES ASSUME NEW i \in DOMAIN h PROVE h[i].timestamp \in 1..MaxTime
    OBVIOUS
  <2>1. h[i] \in Message
    BY LenProperties, ElementOfSeq
  <2> QED
    BY <2>1 DEF Real, Message
<1>2. SegmentLimit \in Nat
  BY DurationAssumption DEF SegmentLimit
<1>3. Short(h)
  <2> SUFFICES ASSUME NEW i \in DOMAIN h, NEW j \in DOMAIN h
               PROVE  h[j].timestamp - h[i].timestamp < SegmentLimit
    BY DEF Short
  <2>1. h[i].timestamp \in 1..MaxTime /\ h[j].timestamp \in 1..MaxTime
    BY <1>1
  <2> QED
    BY <1>2, <2>1
<1> QED
  BY <1>3 DEF Updates, Real

\* One message makes a short history.
LEMMA LoneIsShort ==
    ASSUME NEW h \in Seq(Message), Len(h) = 1
    PROVE  Short(h)
<1>1. DOMAIN h = {1} /\ h[1] \in Message
  BY LenProperties, ElementOfSeq
<1>2. h[1].timestamp - h[1].timestamp < SegmentLimit
  BY <1>1, DurationAssumption DEF SegmentLimit, Message
<1> QED
  BY <1>1, <1>2 DEF Short

\* The verdict of a history that is one message.
LEMMA LoneVerdict ==
    ASSUME NEW h \in Seq(Message), Len(h) = 1
    PROVE  ReferenceVerdict(h) = (h[1].moving = WORKING)
<1>1. DOMAIN h = {1} /\ h # <<>> /\ h[1] \in Message
  BY LenProperties, EmptySeq, ElementOfSeq
<1>2. CASE h[1].moving \in ClawStates
  <2>1. Updates(h)
    BY <1>1, <1>2 DEF Updates
  <2>2. Short(h)
    BY LoneIsShort
  <2> QED
    BY <2>1, <2>2, StickySame
<1>3. CASE h[1].moving \notin ClawStates
  <2>1. Classified(h) = {}
    BY <1>1, <1>3 DEF Classified
  <2>2. Filtered(h) = {}
    BY <2>1 DEF Filtered, FilteredSegments, Segments, Runs
  <2>3. ReferenceVerdict(h) = FALSE
    BY <2>2 DEF ReferenceVerdict, Runs
  <2> QED
    BY <1>3, <2>3
<1> QED
  BY <1>2, <1>3

\* Of a short history the verdict depends on the oldest message, the newest and
\* the end of the first segment.
LEMMA ReferenceIsSticky ==
    ASSUME TypeOK, IInv, ClawStateIsReference, Short(history)
    PROVE  StickyVerdict
<1> SUFFICES ASSUME history # <<>> PROVE StickyVerdict
  BY DEF StickyVerdict
<1> DEFINE n == Len(history)
           oldest == history[1]
           newest == history[n]
           left == {i \in 1..n : history[i].moving # oldest.moving}
           end == CHOOSE i \in 1..n : i + 1 \in left /\ \A j \in left : i < j
           settled == (newest.timestamp - history[end].timestamp) \div MsPerSecond
                        >= InvalidSegmentDuration
           judged == IF newest.moving # oldest.moving /\ settled THEN newest ELSE oldest
<1>1. history \in Seq(Message) /\ n \in Nat \ {0} /\ DOMAIN history = 1..n
  BY EmptySeq, LenProperties DEF TypeOK
<1>2. clawState = ReferenceVerdict(history)
  BY DEF ClawStateIsReference
<1>3. CASE n = 1
  <2>1. judged = oldest
    BY <1>3
  <2>2. clawState = (oldest.moving = WORKING)
    BY <1>1, <1>2, <1>3, LoneVerdict
  <2> HIDE DEF judged
  <2>3. clawState <=> judged.moving = WORKING
    BY <2>1, <2>2
  <2> QED
    BY <2>3 DEF StickyVerdict, judged
<1>4. CASE n # 1
  <2>1. \A i \in DOMAIN history : Real(history[i])
    BY <1>4 DEF IInv, HistoryIsReal
  <2>2. Updates(history)
    BY <1>1, <2>1 DEF Updates, Real
  <2>3. CASE newest.moving = oldest.moving
    <3>1. judged = oldest
      BY <2>3
    <3>2. clawState = (oldest.moving = WORKING)
      BY <1>2, <2>2, <2>3, StickySame
    <3> HIDE DEF judged
    <3>3. clawState <=> judged.moving = WORKING
      BY <3>1, <3>2
    <3> QED
      BY <3>3 DEF StickyVerdict, judged
  <2>4. CASE newest.moving # oldest.moving
    <3>1. PICK e \in 1..n : /\ e + 1 \in 1..n
                            /\ history[e + 1].moving # oldest.moving
                            /\ \A j \in 1..e : history[j].moving = oldest.moving
      BY <2>2, <2>4, FirstSegmentEnds
    <3>2. e + 1 \in left /\ \A j \in left : e < j
      <4>1. ASSUME NEW j \in left PROVE e < j
        <5>1. j \in 1..n /\ j \notin 1..e
          BY <3>1
        <5> QED
          BY <1>1, <5>1
      <4> QED
        BY <3>1, <4>1
    <3>3. end = e
      <4>1. \A j \in left : j \in Int
        BY <1>1
      <4> HIDE DEF left
      <4>2. end \in 1..n /\ end + 1 \in left /\ \A j \in left : end < j
        <5>1. \E i \in 1..n : i + 1 \in left /\ \A j \in left : i < j
          BY <3>1, <3>2
        <5> QED
          BY <5>1, Zenon
      <4> HIDE DEF end, n
      <4>3. end \in Int /\ e \in Int /\ end < e + 1 /\ e < end + 1
        BY <1>1, <3>1, <3>2, <4>2
      <4> QED
        BY <4>3
    <3>4. clawState = IF (newest.timestamp - history[e].timestamp) \div MsPerSecond
                           >= InvalidSegmentDuration
                      THEN newest.moving = WORKING ELSE oldest.moving = WORKING
      BY <1>2, <2>2, <2>4, <3>1, StickySplit
    <3> HIDE DEF end, left
    <3>5. clawState <=> judged.moving = WORKING
      BY <2>4, <3>3, <3>4
    <3> QED
      BY <3>5 DEF StickyVerdict, judged, end, left
  <2> QED
    BY <2>3, <2>4
<1> QED
  BY <1>3, <1>4

\* For as long as the history spans less than the limit of a segment, 34 days in
\* the code, no interior segment ever counts and the oldest state sticks.
THEOREM VerdictSticksWhileShort == Spec => [](Short(history) => StickyVerdict)
<1>1. TypeOK /\ IInv /\ ClawStateIsReference => (Short(history) => StickyVerdict)
  BY ReferenceIsSticky
<1> QED
  BY <1>1, TypeCorrect, Invariance, ClawStateIsTheReference, PTL

\* In particular always, if the clock stays below that limit.
THEOREM VerdictSticks ==
    ASSUME MaxTime <= SegmentLimit
    PROVE  Spec => []StickyVerdict
<1>1. TypeOK /\ IInv /\ InTime => Short(history)
  <2> SUFFICES ASSUME TypeOK, IInv, InTime PROVE Short(history)
    OBVIOUS
  <2>1. CASE Len(history) = 1
    BY <2>1, LoneIsShort DEF TypeOK
  <2>2. CASE Len(history) # 1 /\ history # <<>>
    BY <2>2, RealIsShort DEF TypeOK, IInv, HistoryIsReal, InTime
  <2>3. CASE history = <<>>
    <3>1. DOMAIN history = {}
      BY <2>3
    <3> QED
      BY <3>1 DEF Short
  <2> QED
    BY <2>1, <2>2, <2>3
<1> QED
  BY <1>1, TypeCorrect, Invariance, InTimeInvariant, VerdictSticksWhileShort, PTL

\* What is handled after others and not refused is real and the newest of all.
LEMMA HandlesNewest ==
    ASSUME TypeOK, IInv, HandleMessage, history # <<>>, history' # history
    PROVE  /\ Real(msg) /\ NewManipulationData(history, msg.timestamp)
           /\ history[Len(history)].timestamp <= msg.timestamp
           /\ \A i \in DOMAIN history : Real(history[i])
<1>1. /\ pc = "handle" /\ history' = Record(history, msg)
      /\ history \in Seq(Message) /\ msg \in Message
  BY DEF HandleMessage, TypeOK
<1>2. NewManipulationData(history, msg.timestamp)
  BY <1>1 DEF Record
<1>3. \A i \in DOMAIN history : Real(history[i]) /\ history[i] \in Message
  BY <1>1, LenProperties, ElementOfSeq DEF IInv, HistoryIsReal
<1>4. Len(history) \in DOMAIN history
  BY <1>1, EmptySeq, LenProperties
<1>5. history[Len(history)].timestamp <= msg.timestamp
  BY <1>1, <1>2, <1>3, <1>4 DEF NewManipulationData, Message
<1>6. msg.timestamp # 0
  BY <1>1, <1>3, <1>4, <1>5 DEF Real, Message
<1>7. Real(msg)
  BY <1>1, <1>6 DEF IInv, LineIsReal, Fits
<1> QED
  BY <1>2, <1>3, <1>5, <1>7

\* The message in hand and the history before it span less than the limit of a
\* segment, and no more than that of the history.
WithinLimits ==
    /\ Short(Append(history, msg))
    /\ \A i \in DOMAIN history :
         msg.timestamp - history[i].timestamp <= HistoryLimit

\* What a step must do that flips the claw state.
Flip ==
    clawState' # clawState =>
      /\ history' # history
      /\ msg.timestamp = history'[Len(history')].timestamp
      /\ clawState' = (msg.moving = WORKING)

\* Appending a message flips the verdict to the state of that message or not at
\* all: what the newest message settled, a later one settles as well.
LEMMA AppendFlips ==
    ASSUME NEW h \in Seq(Message), NEW m \in Message,
           Updates(h), Short(h), Updates(Append(h, m)), Short(Append(h, m)),
           h[Len(h)].timestamp <= m.timestamp,
           ReferenceVerdict(Append(h, m)) # ReferenceVerdict(h)
    PROVE  ReferenceVerdict(Append(h, m)) = (m.moving = WORKING)
<1> DEFINE n == Len(h)
           g == Append(h, m)
<1>1. /\ n \in Nat \ {0} /\ Len(g) = n + 1 /\ g[n + 1] = m
      /\ \A i \in 1..n : g[i] = h[i] /\ h[i] \in Message
      /\ 1 \in 1..n /\ n \in 1..n
  BY AppendProperties, EmptySeq, LenProperties, ElementOfSeq DEF Updates
<1>2. Updates(g) /\ Short(g) /\ ReferenceVerdict(g) # ReferenceVerdict(h)
  OBVIOUS
<1> HIDE DEF g
<1>3. g[1] = h[1]
  BY <1>1
<1>4. CASE m.moving = h[1].moving
  <2>1. ReferenceVerdict(g) = (g[1].moving = WORKING)
    BY <1>1, <1>2, <1>3, <1>4, StickySame
  <2> QED
    BY <1>3, <1>4, <2>1 DEF g
<1>5. CASE m.moving # h[1].moving /\ h[n].moving = h[1].moving
  <2>1. ReferenceVerdict(h) = (h[1].moving = WORKING)
    BY <1>5, StickySame
  <2>2. PICK e \in 1..Len(g) : /\ e + 1 \in 1..Len(g)
                               /\ g[e + 1].moving # g[1].moving
                               /\ \A j \in 1..e : g[j].moving = g[1].moving
    BY <1>1, <1>2, <1>3, <1>5, FirstSegmentEnds
  <2>3. \/ ReferenceVerdict(g) = (m.moving = WORKING)
        \/ ReferenceVerdict(g) = (h[1].moving = WORKING)
    BY <1>1, <1>2, <1>3, <1>5, <2>2, StickySplit
  <2> QED
    BY <1>2, <2>1, <2>3 DEF g
<1>6. CASE m.moving # h[1].moving /\ h[n].moving # h[1].moving
  <2>1. PICK e \in 1..n : /\ e + 1 \in 1..n
                          /\ h[e + 1].moving # h[1].moving
                          /\ \A j \in 1..e : h[j].moving = h[1].moving
    BY <1>6, FirstSegmentEnds
  <2> DEFINE d == h[n].timestamp - h[e].timestamp
             f == m.timestamp - h[e].timestamp
  <2>2. ReferenceVerdict(h) = IF d \div MsPerSecond >= InvalidSegmentDuration
                              THEN h[n].moving = WORKING ELSE h[1].moving = WORKING
    BY <1>6, <2>1, StickySplit
  <2>3. /\ e \in 1..Len(g) /\ e + 1 \in 1..Len(g)
        /\ g[e + 1].moving # g[1].moving
        /\ \A j \in 1..e : g[j].moving = g[1].moving
        /\ g[e] = h[e]
    BY <1>1, <1>3, <2>1
  <2>4. ReferenceVerdict(g) = IF f \div MsPerSecond >= InvalidSegmentDuration
                              THEN m.moving = WORKING ELSE h[1].moving = WORKING
    <3>1. /\ g[Len(g)] = m
          /\ g[Len(g)].moving # g[1].moving
      BY <1>1, <1>3, <1>6
    <3>2. ReferenceVerdict(g) =
            IF (g[Len(g)].timestamp - g[e].timestamp) \div MsPerSecond
                 >= InvalidSegmentDuration
            THEN g[Len(g)].moving = WORKING ELSE g[1].moving = WORKING
      BY <1>2, <2>3, <3>1, StickySplit
    <3> QED
      BY <1>3, <2>3, <3>1, <3>2
  <2>5. d \in Int /\ f \in Int /\ d <= f
    BY <1>1, <2>1 DEF Message
  <2> HIDE DEF d, f
  <2>6. /\ d \div MsPerSecond \in Int /\ f \div MsPerSecond \in Int
        /\ d \div MsPerSecond <= f \div MsPerSecond
    BY <2>5, DivMonotone, DurationAssumption
  <2>7. d \div MsPerSecond >= InvalidSegmentDuration =>
          f \div MsPerSecond >= InvalidSegmentDuration
    BY <2>6, DurationAssumption
  <2>8. CASE f \div MsPerSecond >= InvalidSegmentDuration
    BY <2>4, <2>8 DEF g
  <2>9. CASE ~(f \div MsPerSecond >= InvalidSegmentDuration)
    BY <1>2, <2>2, <2>4, <2>7, <2>9
  <2> QED
    BY <2>8, <2>9
<1> QED
  BY <1>4, <1>5, <1>6

\* Where a history is short, so is what precedes its newest message.
LEMMA ShortBefore ==
    ASSUME NEW h \in Seq(Message), NEW m \in Message, Short(Append(h, m))
    PROVE  Short(h)
<1>1. /\ Len(h) \in Nat /\ DOMAIN h = 1..Len(h)
      /\ DOMAIN Append(h, m) = 1..(Len(h) + 1)
      /\ \A i \in 1..Len(h) : Append(h, m)[i] = h[i]
  BY AppendProperties, LenProperties
<1> QED
  BY <1>1 DEF Short

\* A step within the limits that flips the claw state has handled the message it
\* flips to.
LEMMA FlipStep ==
    ASSUME TypeOK, IInv, ClawStateIsReference, ClawStateIsReference',
           HandleMessage, clawState' # clawState, history # <<>> => WithinLimits
    PROVE  /\ history' # history
           /\ msg.timestamp = history'[Len(history')].timestamp
           /\ clawState' = (msg.moving = WORKING)
<1>1. /\ history' = Record(history, msg) /\ history \in Seq(Message) /\ msg \in Message
      /\ clawState = ReferenceVerdict(history) /\ clawState' = ReferenceVerdict(history')
      /\ history' \in Seq(Message)
  BY RecordType DEF HandleMessage, TypeOK, ClawStateIsReference
<1>2. history' # history
  BY <1>1
<1>3. history'[Len(history')] = msg
  BY <1>1, <1>2, RecordLast
<1>4. CASE history = <<>>
  <2>1. Len(history') = 1
    BY <1>1, <1>4, RecordFirst
  <2> QED
    BY <1>1, <1>2, <1>3, <2>1, LoneVerdict
<1>5. CASE history # <<>>
  <2>1. /\ Real(msg) /\ NewManipulationData(history, msg.timestamp)
        /\ history[Len(history)].timestamp <= msg.timestamp
        /\ \A i \in DOMAIN history : Real(history[i])
    BY <1>2, <1>5, HandlesNewest
  <2>2. history' = Append(history, msg)
    BY <1>1, <1>5, <2>1, RecordAppends DEF WithinLimits
  <2>3. Short(history') /\ Short(history)
    BY <1>1, <1>5, <2>2, ShortBefore DEF WithinLimits
  <2>4. \A i \in DOMAIN history' : Real(history'[i])
    <3>1. \A i \in DOMAIN history' :
            history'[i] = msg \/ \E j \in DOMAIN history : history'[i] = history[j]
      BY <1>1, RecordKeepsOrder DEF IInv, HistorySound
    <3> QED
      BY <2>1, <3>1
  <2>5. history' # <<>>
    BY <1>1, <1>2, RecordLast
  <2>6. Updates(history) /\ Updates(history')
    BY <1>1, <1>5, <2>1, <2>4, <2>5 DEF Updates, Real
  <2>7. ReferenceVerdict(history') = (msg.moving = WORKING)
    BY <1>1, <2>1, <2>2, <2>3, <2>6, AppendFlips
  <2> QED
    BY <1>1, <1>2, <1>3, <2>7
<1> QED
  BY <1>4, <1>5

\* The claw state is flipped by nothing but a message that is handled.
LEMMA FlipHandles ==
    ASSUME [Next]_vars, clawState' # clawState PROVE HandleMessage
BY DEF Next, Thread, Owner, Terminated, BeginInference, UpdateManipulationState,
       CheckRunning, WaitForMessage, SpuriousWakeup, Publish, StopRunning, Notify,
       Join, threadVars, vars

\* A stale or refused message never flips the claw state, and a flip is to the
\* state of the message that has just been handled, for as long as that and the
\* history stay within the limits: 34 days in the code.
THEOREM FlipFollowsWhileShort == Spec => [][WithinLimits => Flip]_vars
<1> DEFINE FlipWithin == WithinLimits => Flip
<1>1. TypeOK /\ IInv /\ ClawStateIsReference /\ ClawStateIsReference' /\ [Next]_vars
        => [FlipWithin]_vars
  BY FlipHandles, FlipStep DEF Flip
<1> HIDE DEF FlipWithin
<1>2. Spec => [][FlipWithin]_vars
  BY <1>1, TypeCorrect, Invariance, ClawStateIsTheReference, PTL DEF Spec
<1> QED
  BY <1>2 DEF FlipWithin

\* In particular always, if the clock stays below the limits.
THEOREM FlipFollowsTheNewest ==
    ASSUME MaxTime <= SegmentLimit, MaxTime <= HistoryLimit
    PROVE  Spec => FlipFollowsNewest
<1>1. TypeOK /\ IInv /\ InTime /\ ClawStateIsReference /\ ClawStateIsReference'
        /\ [Next]_vars => [Flip]_vars
  <2> SUFFICES ASSUME TypeOK, IInv, InTime, ClawStateIsReference, ClawStateIsReference',
                      [Next]_vars, clawState' # clawState
               PROVE  /\ history' # history
                      /\ msg.timestamp = history'[Len(history')].timestamp
                      /\ clawState' = (msg.moving = WORKING)
    BY DEF Flip
  <2>1. HandleMessage
    BY FlipHandles
  <2>2. history \in Seq(Message) /\ msg \in Message /\ history' = Record(history, msg)
    BY <2>1 DEF TypeOK, HandleMessage
  <2>3. history' # history
    BY <2>2 DEF ClawStateIsReference
  <2>4. history # <<>> => WithinLimits
    <3> SUFFICES ASSUME history # <<>> PROVE WithinLimits
      OBVIOUS
    <3> DEFINE g == Append(history, msg)
    <3>1. Real(msg) /\ \A i \in DOMAIN history : Real(history[i])
      BY <2>1, <2>3, HandlesNewest
    <3>2. /\ g \in Seq(Message) /\ g # <<>> /\ Len(history) \in Nat
          /\ DOMAIN history = 1..Len(history) /\ DOMAIN g = 1..(Len(history) + 1)
          /\ \A i \in 1..Len(history) : g[i] = history[i] /\ history[i] \in Message
          /\ g[Len(history) + 1] = msg
      BY <2>2, AppendProperties, LenProperties, ElementOfSeq
    <3> HIDE DEF g
    <3>3. \A i \in DOMAIN g : Real(g[i]) /\ g[i].timestamp <= MaxTime
      BY <3>1, <3>2 DEF InTime
    <3>4. Short(g)
      BY <3>2, <3>3, RealIsShort
    <3>5. ASSUME NEW i \in DOMAIN history
          PROVE  msg.timestamp - history[i].timestamp <= HistoryLimit
      <4>1. msg.timestamp \in Nat /\ history[i].timestamp \in Nat /\ msg.timestamp <= MaxTime
        BY <2>2, <3>2 DEF Message, InTime
      <4> QED
        BY <4>1, HistoryLimitType
    <3> QED
      BY <3>4, <3>5 DEF WithinLimits, g
  <2> QED
    BY <2>1, <2>4, FlipStep
<1>2. Spec => [][Flip]_vars
  BY <1>1, TypeCorrect, Invariance, InTimeInvariant, ClawStateIsTheReference, PTL DEF Spec
<1> QED
  BY <1>2 DEF FlipFollowsNewest, Flip

-----------------------------------------------------------------------------
(* Terminator implements VerdictStream.                                        *)

\* A message in hand stands in front of the line: pushing behind it, taking the
\* next one into the hand, and what is left when it has been handled.
LEMMA LinePush ==
    ASSUME NEW line \in Seq(Message), NEW hand \in Message, NEW m \in Message
    PROVE  <<hand>> \o Append(line, m) = Append(<<hand>> \o line, m)
<1>1. /\ <<hand>> \in Seq(Message) /\ <<m>> \in Seq(Message)
      /\ <<hand>> \o line \in Seq(Message)
  BY ConcatProperties
<1> QED
  BY <1>1, AppendIsConcat, ConcatAssociative

LEMMA LinePop ==
    ASSUME NEW line \in Seq(Message), line # <<>>
    PROVE  <<Head(line)>> \o Tail(line) = line
OBVIOUS

LEMMA LineHead ==
    ASSUME NEW line \in Seq(Message), NEW hand \in Message
    PROVE  /\ <<hand>> \o line # <<>>
           /\ Head(<<hand>> \o line) = hand
           /\ Tail(<<hand>> \o line) = line
OBVIOUS

\* An inference only runs while the owner serves.
StampsServe == owner # "serving" => \A w \in Workers : stamp[w] = 0

\* No inference outlives the owner's decision to stop.
LEMMA StampsServeInvariant == Spec => []StampsServe
<1>1. Init => StampsServe
  BY DEF Init, StampsServe
<1>2. TypeOK /\ StampsServe /\ [Next]_vars => StampsServe'
  <2> SUFFICES ASSUME TypeOK, StampsServe, [Next]_vars
               PROVE  StampsServe'
    OBVIOUS
  <2>1. ASSUME NEW w \in Workers, BeginInference(w) \/ UpdateManipulationState(w)
        PROVE  StampsServe'
    BY <2>1 DEF BeginInference, UpdateManipulationState, StampsServe, ownerVars, TypeOK
  <2>2. CASE Thread \/ SpuriousWakeup
    BY <2>2 DEF Thread, CheckRunning, WaitForMessage, SpuriousWakeup, HandleMessage,
                Publish, ownerVars, StampsServe
  <2>3. CASE Owner \/ Terminated \/ UNCHANGED vars
    BY <2>3 DEF Owner, StopRunning, Notify, Join, Terminated, vars, StampsServe
  <2> QED
    BY <2>1, <2>2, <2>3 DEF Next
<1> QED
  BY <1>1, <1>2, TypeCorrect, PTL DEF Spec

\* Every step of the threads is a step of the line, or none.
LEMMA StepRefines ==
    ASSUME TypeOK, StampsServe, [Next]_vars
    PROVE  [Stream!Next]_(Stream!vars)
<1> USE DEF Stream!Next, Stream!vars
<1>1. ASSUME NEW w \in Workers, UpdateManipulationState(w)
      PROVE  Stream!Submit
  <2>1. PICK moving \in ClawStates :
          Enqueue([timestamp |-> stamp[w], moving |-> moving])
    BY <1>1 DEF UpdateManipulationState
  <2> DEFINE m == [timestamp |-> stamp[w], moving |-> moving]
  <2>2. /\ m \in Message /\ stamp[w] \in 1..MaxTime /\ owner = "serving"
        /\ UNCHANGED <<msg, history, clawState, owner>>
    BY <1>1 DEF UpdateManipulationState, StampsServe, TypeOK, Message, ownerVars
  <2>3. Line' = Append(Line, m)
    <3>1. queue' = Append(queue, m) /\ (pc' = "handle" <=> pc = "handle")
      BY <2>1 DEF Enqueue
    <3> HIDE DEF m
    <3>2. CASE pc = "handle"
      BY <2>2, <3>1, <3>2, LinePush DEF Line, TypeOK
    <3>3. CASE pc # "handle"
      BY <3>1, <3>3 DEF Line
    <3> QED
      BY <3>2, <3>3
  <2> QED
    BY <2>2, <2>3 DEF Stream!Submit, Open
<1>2. CASE WaitForMessage
  <2>1. Line' = Line
    <3>1. CASE queue = <<>>
      BY <1>2, <3>1 DEF WaitForMessage, Line
    <3>2. CASE queue # <<>>
      BY <1>2, <3>2, LinePop DEF WaitForMessage, Line, TypeOK
    <3> QED
      BY <3>1, <3>2
  <2> QED
    BY <1>2, <2>1 DEF WaitForMessage, Open, ownerVars
<1>3. CASE HandleMessage
  <2>1. /\ pc = "handle" /\ pc' = "publish"
        /\ UNCHANGED <<queue, owner>>
        /\ history' = Record(history, msg)
        /\ clawState' = ClawStateAfter(clawState, history')
    BY <1>3 DEF HandleMessage, ownerVars
  <2>2. Line # <<>> /\ Head(Line) = msg /\ Tail(Line) = queue /\ Line' = queue
    BY <2>1, LineHead DEF Line, TypeOK
  <2>3. Stream!Judge
    BY <2>1, <2>2 DEF Stream!Judge, Open
  <2> QED
    BY <2>3
<1>4. CASE Notify
  <2>1. PICK moving \in Movings : Enqueue([timestamp |-> 0, moving |-> moving])
    BY <1>4 DEF Notify
  <2> DEFINE m == [timestamp |-> 0, moving |-> moving]
  <2>2. /\ m \in Message /\ owner = "stopping" /\ owner' = "joining"
        /\ UNCHANGED <<msg, history, clawState>>
    BY <1>4 DEF Notify, Message
  <2>3. Line' = Append(Line, m)
    <3>1. queue' = Append(queue, m) /\ (pc' = "handle" <=> pc = "handle")
      BY <2>1 DEF Enqueue
    <3> HIDE DEF m
    <3>2. CASE pc = "handle"
      BY <2>2, <3>1, <3>2, LinePush DEF Line, TypeOK
    <3>3. CASE pc # "handle"
      BY <3>1, <3>3 DEF Line
    <3> QED
      BY <3>2, <3>3
  <2> QED
    BY <2>2, <2>3 DEF Stream!Close, Open
<1>5. CASE \/ \E w \in Workers : BeginInference(w)
           \/ CheckRunning \/ SpuriousWakeup \/ Publish \/ StopRunning \/ Join
           \/ UNCHANGED vars
  <2>1. /\ UNCHANGED <<queue, msg, history, clawState>>
        /\ pc' = "handle" <=> pc = "handle"
    BY <1>5 DEF BeginInference, CheckRunning, SpuriousWakeup, Publish, StopRunning,
                Join, threadVars, vars
  <2>2. Open' = Open
    BY <1>5 DEF BeginInference, CheckRunning, SpuriousWakeup, Publish, StopRunning,
                Join, ownerVars, vars, Open
  <2>3. Line' = Line
    BY <2>1 DEF Line
  <2> QED
    BY <2>1, <2>2, <2>3
<1> QED
  BY <1>1, <1>2, <1>3, <1>4, <1>5 DEF Next, Thread, Owner, Terminated

\* The threads, the lock and the closing message implement a line of updates,
\* each judged once and in order.
THEOREM Refinement == Spec => ImplementsStream
<1>1. Init => Stream!Init
  BY DEF Init, Stream!Init, Line, Open
<1> QED
  BY <1>1, StepRefines, TypeCorrect, StampsServeInvariant, PTL DEF Spec, Stream!Spec, ImplementsStream
=============================================================================
