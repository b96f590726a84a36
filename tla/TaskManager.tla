----------------------------- MODULE TaskManager -----------------------------
(* Task_Manager of qrb_ros_vla_state and its single-slot MessageQueue. One     *)
(* caller at a time gives it frames (the callback of an image subscription);   *)
(* a thread (handle_msg) takes the newest and runs the inference on it. Unlike *)
(* the Terminator's queue, push() and notify() release the lock before they    *)
(* signal, and the destructor sets a flag instead of pushing a message. The    *)
(* two calls of update_image() in the sources are commented out at present.    *)
EXTENDS Naturals

CONSTANT MaxFrames      \* bound: frames given

ASSUME TaskAssumption == MaxFrames \in Nat

VARIABLES
    slot,       \* slot_: the number of the frame in it, 0 if empty
    stopped,    \* stopped_
    count,      \* count_: the number of the newest frame
    caller,     \* where update_image() is
    running,    \* running_
    pc,         \* where handle_msg() is
    held,       \* msg.count of handle_msg(): the frame it took last
    owner,      \* where the owner is: serving, then the steps of ~Task_Manager()
    late        \* history variable: frames taken after running_ was cleared

vars == <<slot, stopped, count, caller, running, pc, held, owner, late>>

Places == {"loop", "wait", "asleep", "handle", "exited"}

Init ==
    /\ slot = 0
    /\ stopped = FALSE
    /\ count = 0
    /\ caller = "idle"
    /\ running = TRUE
    /\ pc = "loop"
    /\ held = 0
    /\ owner = "serving"
    /\ late = 0

\* notify_one(): a sleeping thread wakes and tests its predicate again.
Wake == pc' = IF pc = "asleep" THEN "wait" ELSE pc

-----------------------------------------------------------------------------
(* update_image(): the frame is numbered, written over the slot under the      *)
(* lock, and signalled once the lock is released.                              *)

NumberFrame ==
    /\ owner = "serving"
    /\ caller = "idle"
    /\ count < MaxFrames
    /\ count' = count + 1
    /\ caller' = "write"
    /\ UNCHANGED <<slot, stopped, running, pc, held, owner, late>>

\* Mutant: a frame that has not been taken yet is kept.
WriteIfEmpty ==
    /\ caller = "write"
    /\ slot' = IF slot = 0 THEN count ELSE slot
    /\ caller' = "signal"
    /\ UNCHANGED <<stopped, count, running, pc, held, owner, late>>

WriteSlot ==
    /\ caller = "write"
    /\ slot' = count
    /\ caller' = "signal"
    /\ UNCHANGED <<stopped, count, running, pc, held, owner, late>>

\* Mutant: nobody is told of the frame.
KeepFrameQuiet ==
    /\ caller = "signal"
    /\ caller' = "idle"
    /\ UNCHANGED <<slot, stopped, count, running, pc, held, owner, late>>

SignalFrame ==
    /\ caller = "signal"
    /\ caller' = "idle"
    /\ Wake
    /\ UNCHANGED <<slot, stopped, count, running, held, owner, late>>

-----------------------------------------------------------------------------
(* handle_msg().                                                               *)

CheckRunning ==
    /\ pc = "loop"
    /\ pc' = IF running THEN "wait" ELSE "exited"
    /\ UNCHANGED <<slot, stopped, count, caller, running, held, owner, late>>

\* Mutants: the taken frame stays in the slot, and the predicate forgets the
\* flag.
TakeAndKeep ==
    /\ pc = "wait"
    /\ slot # 0
    /\ held' = slot
    /\ pc' = "handle"
    /\ late' = IF running THEN late ELSE late + 1
    /\ UNCHANGED <<slot, stopped, count, caller, running, owner>>

SleepThoughStopped ==
    /\ pc = "wait"
    /\ slot = 0
    /\ pc' = "asleep"
    /\ UNCHANGED <<slot, stopped, count, caller, running, held, owner, late>>

\* wait(), one test of the predicate under the lock. A frame in the slot is
\* taken even if the queue has been stopped.
Take ==
    /\ pc = "wait"
    /\ slot # 0
    /\ held' = slot
    /\ slot' = 0
    /\ pc' = "handle"
    /\ late' = IF running THEN late ELSE late + 1
    /\ UNCHANGED <<stopped, count, caller, running, owner>>

LeaveStopped ==
    /\ pc = "wait"
    /\ slot = 0 /\ stopped
    /\ pc' = "exited"
    /\ UNCHANGED <<slot, stopped, count, caller, running, held, owner, late>>

Sleep ==
    /\ pc = "wait"
    /\ slot = 0 /\ ~stopped
    /\ pc' = "asleep"
    /\ UNCHANGED <<slot, stopped, count, caller, running, held, owner, late>>

SpuriousWakeup ==
    /\ pc = "asleep"
    /\ pc' = "wait"
    /\ UNCHANGED <<slot, stopped, count, caller, running, held, owner, late>>

\* Mutant: a frame that fails is not handled to the end.
HandleFailed ==
    /\ pc = "handle"
    /\ pc' = "failed"
    /\ UNCHANGED <<slot, stopped, count, caller, running, held, owner, late>>

\* handle_message() runs the inference on the frame, and never fails.
HandleMessage ==
    /\ pc = "handle"
    /\ pc' = "loop"
    /\ UNCHANGED <<slot, stopped, count, caller, running, held, owner, late>>

-----------------------------------------------------------------------------
(* ~Task_Manager(), once nobody gives frames any more.                         *)

StopRunning ==
    /\ owner = "serving" /\ caller = "idle"
    /\ running' = FALSE
    /\ owner' = "stop"
    /\ UNCHANGED <<slot, stopped, count, caller, pc, held, late>>

StopQueue ==
    /\ owner = "stop"
    /\ stopped' = TRUE
    /\ owner' = "signal"
    /\ UNCHANGED <<slot, count, caller, running, pc, held, late>>

\* Mutant: the queue is stopped without a signal.
SignalNobody ==
    /\ owner = "signal"
    /\ owner' = "join"
    /\ UNCHANGED <<slot, stopped, count, caller, running, pc, held, late>>

SignalStop ==
    /\ owner = "signal"
    /\ owner' = "join"
    /\ Wake
    /\ UNCHANGED <<slot, stopped, count, caller, running, held, late>>

Join ==
    /\ owner = "join"
    /\ pc = "exited"
    /\ owner' = "gone"
    /\ UNCHANGED <<slot, stopped, count, caller, running, pc, held, late>>

\* The object is gone: nothing more happens.
Terminated == owner = "gone" /\ UNCHANGED vars

Caller == NumberFrame \/ WriteSlot \/ SignalFrame
Thread == CheckRunning \/ Take \/ LeaveStopped \/ Sleep \/ HandleMessage
Owner == StopRunning \/ StopQueue \/ SignalStop \/ Join

Next == Caller \/ Thread \/ SpuriousWakeup \/ Owner \/ Terminated

Spec == Init /\ [][Next]_vars

\* The threads are scheduled, an inference returns, a call that has begun goes
\* on; nobody has to give a frame or to stop the object.
Fairness ==
    /\ WF_vars(Thread)
    /\ WF_vars(WriteSlot \/ SignalFrame)
    /\ WF_vars(StopQueue \/ SignalStop \/ Join)

FairSpec == Spec /\ Fairness

-----------------------------------------------------------------------------
(* Properties.                                                                 *)

TypeOK ==
    /\ slot \in Nat /\ count \in Nat /\ held \in Nat /\ late \in Nat
    /\ stopped \in BOOLEAN /\ running \in BOOLEAN
    /\ caller \in {"idle", "write", "signal"}
    /\ pc \in Places
    /\ owner \in {"serving", "stop", "signal", "join", "gone"}

\* A thread that sleeps although it has something to do is about to be woken:
\* the signals sent after the lock is released are never too early.
NoLostWakeup ==
    pc = "asleep" /\ (slot # 0 \/ stopped) => caller = "signal" \/ owner = "signal"

\* The frame in the slot is newer than every frame ever taken, so that the
\* inferences see the frames in order and none of them twice.
SlotIsNews == slot # 0 => held < slot /\ slot <= count

\* Of the frames still unseen when running_ is cleared at most one is taken, the
\* last one given: the destructor waits for one inference more, on the newest
\* frame, and never for a stale one.
LateFrameIsNewest == late # 0 => late = 1 /\ held = count

\* Which frames are taken, while the object serves and when it does no more.
FramesInOrder == SlotIsNews /\ LateFrameIsNewest

\* The newest frame is taken, or a newer one, unless the object is stopped.
NewestIsTaken == \A n \in 1..MaxFrames : (count >= n) ~> (held >= n \/ ~running)

\* A destructor that has begun returns.
ShutdownCompletes == (owner = "stop") ~> (owner = "gone")

\* A frame is offered when it is written to the slot.
Frames == INSTANCE LatestFrame WITH
    offered <- IF caller = "write" THEN count - 1 ELSE count,
    taken <- held

\* Task_Manager implements LatestFrame: it always takes the newest frame.
ImplementsLatestFrame == Frames!Spec
=============================================================================
