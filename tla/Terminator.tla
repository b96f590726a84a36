----------------------------- MODULE Terminator -----------------------------
(* The Terminator of qrb_vla_state_manager: the threads that run inferences    *)
(* call update_manipulation_state(), which pushes a message on an unbounded    *)
(* queue; one thread (handle_msg) pops the messages, keeps the history, and    *)
(* publishes one verdict per message. The owner destroys the object once no    *)
(* inference runs: it clears running_, pushes a last message and joins.        *)
EXTENDS ClawHistory

CONSTANTS
    Workers,      \* threads that run inferences
    MaxFrames,    \* bound: inferences begun
    MaxTime,      \* bound: the clock stays in 1..MaxTime
    ClockSteps    \* by how much the wall clock moves between two inferences

ASSUME TerminatorAssumption ==
    /\ MaxFrames \in Nat /\ MaxTime \in Nat \ {0}
    /\ ClockSteps \subseteq Int

VARIABLES
    clock,      \* high_resolution_clock, in ms: the wall clock, which may step back
    stamp,      \* stamp[w]: when w's inference began; 0 while w runs none
    queue,      \* MessageQueue::queue_
    history,    \* state_history_
    pc,         \* where handle_msg() is
    msg,        \* the message it holds
    working,    \* the verdict it is about to publish
    clawState,  \* current_claw_state_
    running,    \* running_
    owner,      \* where the owner is: serving, then the steps of ~Terminator()
    begun,      \* history variable: inferences begun (bounds the model)
    pushed,     \* history variable: updates pushed
    answered,   \* history variable: verdicts published while running
    late        \* history variable: verdicts published after running_ was cleared

ownerVars == <<running, owner>>
threadVars == <<history, pc, msg, working, clawState>>
countVars == <<begun, pushed, answered, late>>
vars == <<clock, stamp, queue, history, pc, msg, working, clawState, running,
          owner, begun, pushed, answered, late>>

NoMessage == [timestamp |-> 0, moving |-> GARBAGE]
Places == {"loop", "wait", "asleep", "handle", "publish", "exited"}

Init ==
    /\ clock = 1
    /\ stamp = [w \in Workers |-> 0]
    /\ queue = <<>>
    /\ history = <<>>
    /\ pc = "loop"
    /\ msg = NoMessage
    /\ working = FALSE
    /\ clawState = FALSE
    /\ running = TRUE
    /\ owner = "serving"
    /\ begun = 0 /\ pushed = 0 /\ answered = 0 /\ late = 0

-----------------------------------------------------------------------------
(* Producers.                                                                  *)

\* Mutants: a queue of one slot, and a push that wakes nobody.
EnqueueLatest(m) ==
    /\ queue' = <<m>>
    /\ pc' = IF pc = "asleep" THEN "wait" ELSE pc

EnqueueSilently(m) == queue' = Append(queue, m) /\ UNCHANGED pc

\* push() and notify(): the lock, the queue and notify_one() in one critical
\* section. A sleeping consumer wakes and looks at the queue again.
Enqueue(m) ==
    /\ queue' = Append(queue, m)
    /\ pc' = IF pc = "asleep" THEN "wait" ELSE pc

\* inference() reads the clock before it runs the model.
BeginInference(w) ==
    /\ owner = "serving"
    /\ stamp[w] = 0
    /\ begun < MaxFrames
    /\ \E step \in ClockSteps :
         /\ clock + step \in 1..MaxTime
         /\ clock' = clock + step
         /\ stamp' = [stamp EXCEPT ![w] = clock + step]
    /\ begun' = begun + 1
    /\ UNCHANGED <<queue, threadVars, ownerVars, pushed, answered, late>>

\* ... and reports with that reading, whatever the model made of the frame.
UpdateManipulationState(w) ==
    /\ stamp[w] # 0
    /\ \E moving \in ClawStates :
         Enqueue([timestamp |-> stamp[w], moving |-> moving])
    /\ stamp' = [stamp EXCEPT ![w] = 0]
    /\ pushed' = pushed + 1
    /\ UNCHANGED <<clock, history, msg, working, clawState, ownerVars, begun,
                   answered, late>>

-----------------------------------------------------------------------------
(* The thread of handle_msg().                                                 *)

\* Mutant: the backlog is worked off before the thread stops.
DrainBeforeExit ==
    /\ pc = "loop"
    /\ pc' = IF running \/ queue # <<>> THEN "wait" ELSE "exited"
    /\ UNCHANGED <<clock, stamp, queue, history, msg, working, clawState,
                   ownerVars, countVars>>

CheckRunning ==
    /\ pc = "loop"
    /\ pc' = IF running THEN "wait" ELSE "exited"
    /\ UNCHANGED <<clock, stamp, queue, history, msg, working, clawState,
                   ownerVars, countVars>>

\* Mutant: the newest message is taken first.
WaitForNewest ==
    /\ pc = "wait"
    /\ IF queue = <<>>
       THEN pc' = "asleep" /\ UNCHANGED <<queue, msg>>
       ELSE pc' = "handle" /\ msg' = Last(queue) /\ queue' = Front(queue)
    /\ UNCHANGED <<clock, stamp, history, working, clawState, ownerVars, countVars>>

WaitForMessage ==
    /\ pc = "wait"
    /\ IF queue = <<>>
       THEN pc' = "asleep" /\ UNCHANGED <<queue, msg>>
       ELSE pc' = "handle" /\ msg' = Head(queue) /\ queue' = Tail(queue)
    /\ UNCHANGED <<clock, stamp, history, working, clawState, ownerVars, countVars>>

SpuriousWakeup ==
    /\ pc = "asleep"
    /\ pc' = "wait"
    /\ UNCHANGED <<clock, stamp, queue, history, msg, working, clawState,
                   ownerVars, countVars>>

\* handle_message() up to the callback: push_state() only for new data, then
\* is_working(), which leaves current_claw_state_ alone when nothing is to judge.
HandleMessage ==
    /\ pc = "handle"
    /\ pc' = "publish"
    /\ history' = Record(history, msg)
    /\ working' = IsWorking(history')
    /\ clawState' = ClawStateAfter(clawState, history')
    /\ UNCHANGED <<clock, stamp, queue, msg, ownerVars, countVars>>

\* The callback, called for refused messages too.
Publish ==
    /\ pc = "publish"
    /\ pc' = "loop"
    /\ IF running
       THEN answered' = answered + 1 /\ UNCHANGED late
       ELSE late' = late + 1 /\ UNCHANGED answered
    /\ UNCHANGED <<clock, stamp, queue, history, msg, working, clawState,
                   ownerVars, begun, pushed>>

-----------------------------------------------------------------------------
(* ~Terminator(). No inference runs any more: VLAStateManager holds both.      *)

StopRunning ==
    /\ owner = "serving"
    /\ \A w \in Workers : stamp[w] = 0
    /\ running' = FALSE
    /\ owner' = "stopping"
    /\ UNCHANGED <<clock, stamp, queue, threadVars, countVars>>

\* Mutants: a closing message of timestamp -1, one pushed before running_ is
\* cleared, and a wake-up without a message.
NotifyNegative ==
    /\ owner = "stopping"
    /\ \E moving \in Movings : Enqueue([timestamp |-> -1, moving |-> moving])
    /\ owner' = "joining"
    /\ UNCHANGED <<clock, stamp, history, msg, working, clawState, running, countVars>>

NotifyFirst ==
    /\ owner = "serving"
    /\ \A w \in Workers : stamp[w] = 0
    /\ \E moving \in Movings : Enqueue([timestamp |-> 0, moving |-> moving])
    /\ owner' = "joining"
    /\ UNCHANGED <<clock, stamp, history, msg, working, clawState, running, countVars>>

NotifyWithoutMessage ==
    /\ owner = "stopping"
    /\ pc' = IF pc = "asleep" THEN "wait" ELSE pc
    /\ owner' = "joining"
    /\ UNCHANGED <<clock, stamp, queue, history, msg, working, clawState, running,
                   countVars>>

Notify ==
    /\ owner = "stopping"
    /\ \E moving \in Movings : Enqueue([timestamp |-> 0, moving |-> moving])
    /\ owner' = "joining"
    /\ UNCHANGED <<clock, stamp, history, msg, working, clawState, running, countVars>>

Join ==
    /\ owner = "joining"
    /\ pc = "exited"
    /\ owner' = "gone"
    /\ UNCHANGED <<clock, stamp, queue, threadVars, running, countVars>>

\* The object is gone: nothing more happens.
Terminated == owner = "gone" /\ UNCHANGED vars

Thread == CheckRunning \/ WaitForMessage \/ HandleMessage \/ Publish
Owner == StopRunning \/ Notify \/ Join

Next ==
    \/ \E w \in Workers : BeginInference(w) \/ UpdateManipulationState(w)
    \/ Thread
    \/ SpuriousWakeup
    \/ Owner
    \/ Terminated

Spec == Init /\ [][Next]_vars

\* The thread moves on from every place but the two where it cannot: there is
\* exactly one action of Thread for each of the others, and it is enabled.
ThreadMoves == pc \notin {"asleep", "exited"} /\ pc' \in Places

\* The threads are scheduled and an inference returns; nothing makes an
\* inference begin, a thread wake spuriously or the owner decide to stop.
Fairness ==
    /\ WF_pc(ThreadMoves)
    /\ \A w \in Workers : WF_vars(UpdateManipulationState(w))
    /\ WF_vars(Notify)
    /\ WF_vars(Join)

FairSpec == Spec /\ Fairness

-----------------------------------------------------------------------------
(* Properties.                                                                 *)

TypeOK ==
    /\ clock \in 1..MaxTime
    /\ stamp \in [Workers -> 0..MaxTime]
    /\ queue \in Seq(Message)
    /\ history \in Seq(Message)
    /\ pc \in Places
    /\ msg \in Message
    /\ working \in BOOLEAN
    /\ clawState \in BOOLEAN
    /\ running \in BOOLEAN
    /\ owner \in {"serving", "stopping", "joining", "gone"}
    /\ begun \in Nat /\ pushed \in Nat /\ answered \in Nat /\ late \in Nat

InHand == IF pc \in {"handle", "publish"} THEN 1 ELSE 0

\* Every update pushed while the object serves is answered, in the thread's hand
\* or still queued: none is dropped by the queue and none is answered twice,
\* although refused messages are answered too (handle_message, T:64-79).
NoUpdateLost == running => pushed = answered + InHand + Len(queue)

\* However the wall clock steps and the workers overtake each other, the history
\* stays sorted by time, what is_working() and the eviction rely on, and never
\* spans more than the limit push_state() computes.
HistorySound == Ordered(history) /\ Windowed(history)

\* The message of ~Terminator(), with its timestamp of zero and its state never
\* set, only enters a history that was empty, and only once the object stops.
PoisonIsolated ==
    \A i \in DOMAIN history :
      \/ history[i].timestamp # 0 /\ history[i].moving # GARBAGE
      \/ ~running /\ Len(history) = 1

\* The nobody-listens window of the destructor: at most one verdict is published
\* after running_ was cleared, however many messages were still queued.
AtMostOneLateVerdict == late <= 1

\* A reader of get_current_claw_state() always finds the state of the newest run
\* of the filtered history that settles the verdict: the backward scan of
\* is_working(), its sentinel and its early return compute just that.
ClawStateIsReference == clawState = ReferenceVerdict(history)

\* With the code's units no interior segment ever lasts long enough, so that the
\* verdict depends on three things: the oldest state, the newest state, and
\* whether the newest message came InvalidSegmentDuration after the end of the
\* oldest segment.
StickyVerdict ==
    LET n == Len(history)
        oldest == history[1]
        newest == history[n]
        left == {i \in 1..n : history[i].moving # oldest.moving}
        end == CHOOSE i \in 1..n : i + 1 \in left /\ \A j \in left : i < j
        settled == (newest.timestamp - history[end].timestamp) \div MsPerSecond
                     >= InvalidSegmentDuration
        judged == IF newest.moving # oldest.moving /\ settled THEN newest ELSE oldest
    IN  history # <<>> => (clawState <=> judged.moving = WORKING)

\* With the code's units a flip of the claw state is always to the state of the
\* message that has just been handled: a stale or refused message never flips it.
FlipFollowsNewest ==
    [][clawState' # clawState =>
         /\ history' # history
         /\ msg.timestamp = history'[Len(history')].timestamp
         /\ clawState' = (msg.moving = WORKING)]_vars

\* Every update is answered unless the object is stopped first: no wake-up of
\* the consumer is lost.
UpdatesAnswered ==
    \A n \in 1..MaxFrames : (pushed >= n) ~> (answered >= n \/ ~running)

\* What the Terminator implements: the messages in line are the one in the
\* thread's hand, until it has been judged, and the queue.
Line == IF pc = "handle" THEN <<msg>> \o queue ELSE queue
Open == owner \in {"serving", "stopping"}

Stream == INSTANCE VerdictStream WITH
    Updates <- [timestamp : 1..MaxTime, moving : ClawStates],
    Closings <- [timestamp : {0}, moving : Movings],
    Absorb <- Record, Verdict <- ClawStateAfter,
    pending <- Line, open <- Open

\* Terminator implements VerdictStream.
ImplementsStream == Stream!Spec
=============================================================================
