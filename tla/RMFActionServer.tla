--------------------------- MODULE RMFActionServer ---------------------------
(* The action server of qrb_ros_vla_state. Clients send goals and cancel them: *)
(* rclcpp_action calls the three handlers one at a time, for the server is in  *)
(* a mutually exclusive callback group. The Terminator's thread calls          *)
(* send_vla_state() with its verdicts: it counts them in 8 bits and, when a    *)
(* task has finished, tells the goal whose handle it finds. Nothing orders its *)
(* reads of server_global_handle_ with handle_accepted().                      *)
EXTENDS Integers

CONSTANTS
    Goals,          \* the goals clients may send, each once
    NoGoal,         \* the null handle
    CountMod,       \* the counters are uint8_t: 256
    WorkThreshold,  \* verdicts that make a working run a task: 10
    IdleThreshold,  \* stopping verdicts after it that finish the task: 3
    MaxVerdicts     \* bound: verdicts the Terminator publishes

ASSUME RMFAssumption ==
    /\ NoGoal \notin Goals
    /\ CountMod \in Nat /\ WorkThreshold \in Nat \ {0} /\ IdleThreshold \in Nat \ {0}
    /\ WorkThreshold < CountMod /\ IdleThreshold < CountMod
    /\ MaxVerdicts \in Nat

VARIABLES
    start,           \* start_: never initialised, written by handle_goal
    status,          \* status[g]: the state of g in rclcpp_action
    accepting,       \* the goal between handle_goal and handle_accepted
    handle,          \* server_global_handle_
    currentWorking, currentIdle, lastWorking, lastIdle,   \* the four counters
    pc,              \* where the Terminator's thread is in send_vla_state
    target,          \* the handle it has loaded and is calling a method of
    feedback,        \* feedback[g]: how often g was told of a finished task
    verdicts,        \* history variable: verdicts received (bounds the model)
    runLength,       \* history variable: length of the newest working run
    idleLength,      \* history variable: stopping verdicts since it ended
    finished,        \* history variable: that run has been found finished
    earned,          \* history variable: runs that reached WorkThreshold
    reported,        \* history variable: feedback messages sent to any goal
    overtaken,       \* history variable: the handle was replaced after target was
                     \* loaded
    barred           \* history variable: goals cancelled before the last finish

goalVars == <<start, status, accepting, handle>>
counterVars == <<currentWorking, currentIdle, lastWorking, lastIdle>>
runVars == <<verdicts, runLength, idleLength, finished, earned, barred>>
vars == <<start, status, accepting, handle, currentWorking, currentIdle,
          lastWorking, lastIdle, pc, target, feedback, verdicts, runLength,
          idleLength, finished, earned, reported, overtaken, barred>>

Statuses == {"unknown", "executing", "canceling", "canceled"}
Places == {"idle", "check", "load", "ask", "reload", "tell", "crashed"}
Counters == 0..(CountMod - 1)

Init ==
    /\ start \in BOOLEAN
    /\ status = [g \in Goals |-> "unknown"]
    /\ accepting = NoGoal
    /\ handle = NoGoal
    /\ currentWorking = 0 /\ currentIdle = 0 /\ lastWorking = 0 /\ lastIdle = 0
    /\ pc = "idle"
    /\ target = NoGoal
    /\ feedback = [g \in Goals |-> 0]
    /\ verdicts = 0 /\ runLength = 0 /\ idleLength = 0
    /\ finished = FALSE /\ earned = 0 /\ reported = 0 /\ barred = {}
    /\ overtaken = FALSE

-----------------------------------------------------------------------------
(* Goals. Nothing happens once the process has crashed.                        *)

\* handle_goal accepts every goal and keeps whether its command is to start;
\* rclcpp_action then makes the goal execute, before handle_accepted.
HandleGoal(g) ==
    /\ pc # "crashed"
    /\ accepting = NoGoal
    /\ status[g] = "unknown"
    /\ \E command \in BOOLEAN : start' = command
    /\ status' = [status EXCEPT ![g] = "executing"]
    /\ accepting' = g
    /\ UNCHANGED <<handle, counterVars, pc, target, feedback, runVars, reported, overtaken>>

\* Mutant: no handle is kept.
AcceptedWeakly ==
    /\ pc # "crashed"
    /\ accepting # NoGoal
    /\ handle' = accepting
    /\ accepting' = NoGoal
    /\ status' = [g \in Goals |-> IF g \in {handle, accepting} THEN "canceled" ELSE status[g]]
    /\ overtaken' = (overtaken \/ target # NoGoal)
    /\ UNCHANGED <<start, counterVars, pc, target, feedback, runVars, reported>>

\* handle_accepted overwrites the last reference to the previous goal's handle:
\* the handle is destroyed and rclcpp_action ends a goal that still lives.
HandleAccepted ==
    /\ pc # "crashed"
    /\ accepting # NoGoal
    /\ handle' = accepting
    /\ accepting' = NoGoal
    /\ status' = [g \in Goals |-> IF g = handle THEN "canceled" ELSE status[g]]
    /\ overtaken' = (overtaken \/ target # NoGoal)
    /\ UNCHANGED <<start, counterVars, pc, target, feedback, runVars, reported>>

\* handle_cancel accepts every request for a goal that executes. No code ends
\* the goal, which stays canceling.
HandleCancel(g) ==
    /\ pc # "crashed"
    /\ accepting = NoGoal
    /\ status[g] = "executing"
    /\ status' = [status EXCEPT ![g] = "canceling"]
    /\ UNCHANGED <<start, accepting, handle, counterVars, pc, target, feedback, runVars,
                   reported, overtaken>>

-----------------------------------------------------------------------------
(* send_vla_state, on the Terminator's thread.                                 *)

\* Mutant: a counter wider than eight bits.
BumpWide(count) == count + 1

Bump(count) == (count + 1) % CountMod

\* Mutant: the pause before a working verdict still counts.
SendWorkingKeepsIdle ==
    /\ pc = "idle"
    /\ verdicts < MaxVerdicts
    /\ verdicts' = verdicts + 1
    /\ currentWorking' = Bump(currentWorking)
    /\ lastWorking' = currentWorking'
    /\ runLength' = IF idleLength = 0 THEN runLength + 1 ELSE 1
    /\ earned' = IF runLength' = WorkThreshold THEN earned + 1 ELSE earned
    /\ idleLength' = 0
    /\ finished' = FALSE
    /\ UNCHANGED <<goalVars, currentIdle, lastIdle, pc, target, feedback, reported, overtaken, barred>>

\* A working verdict never finishes a task: it has just cleared currentIdle.
SendWorking ==
    /\ pc = "idle"
    /\ verdicts < MaxVerdicts
    /\ verdicts' = verdicts + 1
    /\ currentWorking' = Bump(currentWorking)
    /\ lastWorking' = currentWorking'
    /\ currentIdle' = 0
    /\ runLength' = IF idleLength = 0 THEN runLength + 1 ELSE 1
    /\ earned' = IF runLength' = WorkThreshold THEN earned + 1 ELSE earned
    /\ idleLength' = 0
    /\ finished' = FALSE
    /\ UNCHANGED <<goalVars, lastIdle, pc, target, feedback, reported, overtaken, barred>>

Finishes(idle, worked) == idle >= IdleThreshold /\ worked >= WorkThreshold

\* Mutant: lastWorking survives the finish.
SendStoppingKeepsRun ==
    /\ pc = "idle"
    /\ verdicts < MaxVerdicts
    /\ verdicts' = verdicts + 1
    /\ currentIdle' = Bump(currentIdle)
    /\ lastIdle' = currentIdle'
    /\ currentWorking' = 0
    /\ idleLength' = idleLength + 1
    /\ IF Finishes(currentIdle', lastWorking)
       THEN /\ pc' = "check"
            /\ finished' = TRUE
            /\ barred' = {g \in Goals : status[g] \in {"canceling", "canceled"}}
       ELSE UNCHANGED <<pc, finished, barred>>
    /\ UNCHANGED <<goalVars, lastWorking, target, feedback, runLength, earned, reported, overtaken>>

\* A stopping verdict, and the test whether it finishes a task.
SendStopping ==
    /\ pc = "idle"
    /\ verdicts < MaxVerdicts
    /\ verdicts' = verdicts + 1
    /\ currentIdle' = Bump(currentIdle)
    /\ lastIdle' = currentIdle'
    /\ currentWorking' = 0
    /\ idleLength' = idleLength + 1
    /\ IF Finishes(currentIdle', lastWorking)
       THEN /\ lastWorking' = 0
            /\ pc' = "check"
            /\ finished' = TRUE
            /\ barred' = {g \in Goals : status[g] \in {"canceling", "canceled"}}
       ELSE UNCHANGED <<lastWorking, pc, finished, barred>>
    /\ UNCHANGED <<goalVars, target, feedback, runLength, earned, reported, overtaken>>

\* Mutant: the flag of the newest goal decides.
CheckStart ==
    /\ pc = "check"
    /\ pc' = IF handle = NoGoal \/ ~start THEN "idle" ELSE "load"
    /\ UNCHANGED <<goalVars, counterVars, target, feedback, runVars, reported, overtaken>>

\* server_global_handle_ != nullptr
CheckHandle ==
    /\ pc = "check"
    /\ pc' = IF handle = NoGoal THEN "idle" ELSE "load"
    /\ UNCHANGED <<goalVars, counterVars, target, feedback, runVars, reported, overtaken>>

\* server_global_handle_->is_canceling(): the pointer is read ...
LoadToAsk ==
    /\ pc = "load"
    /\ target' = handle
    /\ overtaken' = FALSE
    /\ pc' = "ask"
    /\ UNCHANGED <<goalVars, counterVars, feedback, runVars, reported>>

\* Mutants: the answer is not looked at, and it is taken the wrong way round.
AskNothing ==
    /\ pc = "ask"
    /\ pc' = "reload"
    /\ target' = NoGoal
    /\ UNCHANGED <<goalVars, counterVars, feedback, runVars, reported, overtaken>>

AskInverted ==
    /\ pc = "ask"
    /\ pc' \in CASE status[target] = "executing" -> {"idle"}
                 [] status[target] = "canceling" -> {"reload"}
                 [] OTHER -> {"reload", "idle", "crashed"}
    /\ target' = NoGoal
    /\ UNCHANGED <<goalVars, counterVars, feedback, runVars, reported, overtaken>>

\* ... and the method called. If the handle has been destroyed since, the call
\* crashes or returns anything.
AskCanceling ==
    /\ pc = "ask"
    /\ pc' \in CASE status[target] = "executing" -> {"reload"}
                 [] status[target] = "canceling" -> {"idle"}
                 [] OTHER -> {"reload", "idle", "crashed"}
    /\ target' = NoGoal
    /\ UNCHANGED <<goalVars, counterVars, feedback, runVars, reported, overtaken>>

\* server_global_handle_->publish_feedback(): a second read of the pointer ...
LoadToTell ==
    /\ pc = "reload"
    /\ target' = handle
    /\ overtaken' = FALSE
    /\ pc' = "tell"
    /\ UNCHANGED <<goalVars, counterVars, feedback, runVars, reported>>

\* ... and the call, which does not look at the state of the goal.
PublishFeedback ==
    /\ pc = "tell"
    /\ \/ /\ feedback' = [feedback EXCEPT ![target] = @ + 1]
          /\ reported' = reported + 1
          /\ pc' = "idle"
       \/ /\ status[target] = "canceled"
          /\ pc' = "crashed"
          /\ UNCHANGED <<feedback, reported>>
    /\ target' = NoGoal
    /\ UNCHANGED <<goalVars, counterVars, runVars, overtaken>>

SendVlaState ==
    \/ SendWorking \/ SendStopping \/ CheckHandle \/ LoadToAsk
    \/ AskCanceling \/ LoadToTell \/ PublishFeedback

Next ==
    \/ \E g \in Goals : HandleGoal(g) \/ HandleCancel(g)
    \/ HandleAccepted
    \/ SendVlaState

Spec == Init /\ [][Next]_vars

\* The Terminator's thread finishes what it began and an accepted goal reaches
\* its handler; nobody has to send goals, cancel them or publish verdicts.
Fairness ==
    /\ WF_vars(CheckHandle \/ LoadToAsk \/ AskCanceling \/ LoadToTell \/ PublishFeedback)
    /\ WF_vars(HandleAccepted)

FairSpec == Spec /\ Fairness

-----------------------------------------------------------------------------
(* Properties.                                                                 *)

TypeOK ==
    /\ start \in BOOLEAN
    /\ status \in [Goals -> Statuses]
    /\ accepting \in Goals \cup {NoGoal}
    /\ handle \in Goals \cup {NoGoal}
    /\ currentWorking \in Counters /\ currentIdle \in Counters
    /\ lastWorking \in Counters /\ lastIdle \in Counters
    /\ pc \in Places
    /\ target \in Goals \cup {NoGoal}
    /\ feedback \in [Goals -> Nat]
    /\ verdicts \in Nat /\ runLength \in Nat /\ idleLength \in Nat /\ earned \in Nat
    /\ reported \in Nat /\ overtaken \in BOOLEAN
    /\ finished \in BOOLEAN
    /\ barred \in SUBSET Goals

\* A working run is found finished exactly when IdleThreshold stopping verdicts
\* follow it and its length modulo 256 reaches WorkThreshold: the counters lose
\* runs whose length wraps to a small number and no other, and neither an
\* interrupted pause nor a wrapped idle counter finishes a task.
FinishIsExact ==
    finished <=> /\ idleLength >= IdleThreshold
                 /\ runLength % CountMod >= WorkThreshold

\* However many verdicts repeat, and whatever goals come and go, each working run
\* that lasted long enough is reported at most once, to one goal.
OneReportPerRun == reported <= earned

\* A call only goes wrong if handle_accepted() replaced the handle after the
\* Terminator's thread had loaded it and before the call: no other sequence of
\* goals, cancellations and finishes touches a destroyed handle.
CrashNeedsReplacement == pc = "crashed" => overtaken

\* A finish goes untold for three reasons only: there is no goal, the goal is
\* found canceling, or its handle was replaced between load and call. A goal that
\* replaces another at any other moment is told in its place.
LossHasReason ==
    [][pc # "idle" /\ pc' = "idle" /\ reported' = reported =>
         \/ pc = "check" /\ handle = NoGoal
         \/ pc = "ask" /\ (overtaken \/ status[target] = "canceling")]_vars

\* A goal that was already cancelled when a task finished is not told of that
\* finish, however goals come and go while it is being reported.
BarredGetsNothing ==
    [][\A g \in Goals : feedback'[g] # feedback[g] => g \notin barred]_vars

\* A finish that finds a goal executing is told to it, unless that goal is
\* cancelled or replaced before.
FinishIsTold ==
    \A g \in Goals, n \in 0..MaxVerdicts :
      (pc = "check" /\ handle = g /\ status[g] = "executing" /\ feedback[g] = n)
        ~> (feedback[g] > n \/ status[g] # "executing")
=============================================================================
