---------------------------- MODULE VlaLifecycle ----------------------------
(* The program around the Terminator: main() builds a Controller, spins and    *)
(* destroys it. The objects are held by shared pointers and two of them, like  *)
(* the Terminator, join a thread of theirs in their destructors. Terminator    *)
(* assumes that it is destroyed when no inference runs; here that follows.     *)
EXTENDS Terminator

CONSTANTS
    Tester,      \* the thread that runs the inferences
    Pictures     \* bound: pictures in the directory it reads

ASSUME LifecycleAssumption ==
    /\ Tester \in Workers
    /\ Pictures \in Nat /\ Pictures <= MaxFrames

VARIABLES
    process,       \* "running", or how it came to an end
    built,         \* how many objects of Startup are constructed
    stage,         \* stage[o]: where o is in its life
    held,          \* held[o]: the members of o that still point to their object
    testerThread,  \* where handle_test() is
    pictures,      \* pictures it has still to read
    taskThread,    \* where the thread of Task_Manager is
    backlog,       \* history variable: verdicts due when the action server went
    dangling       \* history variable: calls of the action server after that

objectVars == <<built, stage, held, backlog>>
testerVars == <<testerThread, pictures>>
lifecycleVars == <<process, objectVars, testerVars, taskThread, dangling>>
allVars == <<vars, lifecycleVars>>

Objects == {"controller", "tester", "image", "task", "rmf", "manager",
            "inference", "terminator"}

\* Mutants: the Tester starts before the callback is registered, and the
\* Controller declares the Tester before the action server.
StartupTesterEarly ==
    <<"terminator", "inference", "manager", "tester", "rmf", "task", "image">>

MembersTesterFirst ==
    [controller |-> <<"manager", "tester", "image", "rmf", "task">>,
     tester     |-> <<"manager", "task">>,
     image      |-> <<"task">>,
     task       |-> <<"manager">>,
     rmf        |-> <<"manager">>,
     manager    |-> <<"inference", "terminator">>,
     inference  |-> <<"terminator">>,
     terminator |-> <<>>]

\* The members of an object that own others, in the order of declaration.
Members ==
    [controller |-> <<"manager", "image", "rmf", "task", "tester">>,
     tester     |-> <<"manager", "task">>,
     image      |-> <<"task">>,
     task       |-> <<"manager">>,
     rmf        |-> <<"manager">>,
     manager    |-> <<"inference", "terminator">>,
     inference  |-> <<"terminator">>,
     terminator |-> <<>>]

\* The order of construction: init_nodes(), and init() of the VLAStateManager.
Startup ==
    <<"terminator", "inference", "manager", "rmf", "task", "image", "tester">>

Stages == {"absent", "live", "dying", "releasing", "gone"}

\* Objects whose destructor has something to do before it drops its members.
Joins == {"tester", "task", "terminator"}

\* An object may be used until its members are being destroyed.
Usable(o) == stage[o] \in {"live", "dying"}

\* RMFActionServer's constructor registers the callback, which captures `this`.
Registered == stage["rmf"] # "absent"

LifecycleInit ==
    /\ Init
    /\ process = "running"
    /\ built = 0
    /\ stage = [o \in Objects |-> IF o = "controller" THEN "live" ELSE "absent"]
    /\ held = [o \in Objects |-> {}]
    /\ testerThread = "none"
    /\ pictures \in 0..Pictures
    /\ taskThread = "none"
    /\ backlog = 0 /\ dangling = 0

-----------------------------------------------------------------------------
(* main(): the constructors, spin(), and the destructors.                      *)

\* A constructor runs: it copies the pointers it is given, the Controller keeps
\* one, and a thread may start.
Construct ==
    /\ stage["controller"] = "live"
    /\ built < Len(Startup)
    /\ built' = built + 1
    /\ LET o == Startup[built']
       IN  /\ stage' = [stage EXCEPT ![o] = "live"]
           /\ held' = [held EXCEPT
                ![o] = Range(Members[o]),
                !["controller"] = @ \cup ({o} \cap Range(Members["controller"]))]
           /\ testerThread' = IF o = "tester" THEN "next" ELSE testerThread
           /\ taskThread' = IF o = "task" THEN "waiting" ELSE taskThread
    /\ UNCHANGED <<vars, process, pictures, backlog, dangling>>

\* Nobody catches what a constructor throws, nor what a callback does that
\* spin() runs: the picture a subscription gets is converted, then dropped.
ThrowOutOfMain ==
    /\ stage["controller"] = "live"
    /\ process' = "terminated"
    /\ UNCHANGED <<vars, objectVars, testerVars, taskThread, dangling>>

\* spin() returns and ~Controller() has an empty body.
StopSpinning ==
    /\ stage["controller"] = "live"
    /\ built = Len(Startup)
    /\ stage' = [stage EXCEPT !["controller"] = "releasing"]
    /\ UNCHANGED <<vars, process, built, held, backlog, testerVars, taskThread,
                   dangling>>

\* The destructor that runs: it drops members, and none is being destroyed.
Releasing(o) ==
    /\ stage[o] = "releasing"
    /\ \A m \in Range(Members[o]) : stage[m] \notin {"dying", "releasing"}

\* The member declared last goes first; the last pointer takes the object along.
Release(o) ==
    /\ Releasing(o)
    /\ \E i \in DOMAIN Members[o] :
         LET m == Members[o][i]
             last == \A x \in Objects \ {o} : m \notin held[x]
         IN  /\ m \in held[o]
             /\ \A j \in DOMAIN Members[o] : j > i => Members[o][j] \notin held[o]
             /\ held' = [held EXCEPT ![o] = @ \ {m}]
             /\ stage' = IF ~last THEN stage
                         ELSE [stage EXCEPT ![m] =
                                 IF m \in Joins THEN "dying" ELSE "releasing"]
             /\ backlog' = IF last /\ m = "rmf" THEN InHand + Len(queue) ELSE backlog
    /\ UNCHANGED <<vars, process, built, testerVars, taskThread, dangling>>

\* No member is left; main() returns when the Controller is gone.
Finish(o) ==
    /\ Releasing(o)
    /\ held[o] = {}
    /\ stage' = [stage EXCEPT ![o] = "gone"]
    /\ process' = IF o = "controller" THEN "ended" ELSE process
    /\ UNCHANGED <<vars, built, held, backlog, testerVars, taskThread, dangling>>

\* A destructor's body is over.
Joined(o) ==
    /\ stage[o] = "dying"
    /\ stage' = [stage EXCEPT ![o] = "releasing"]
    /\ UNCHANGED <<process, built, held, backlog, testerVars, taskThread, dangling>>

\* Mutant: ~Tester() lets its thread run on.
DetachTester == Joined("tester") /\ UNCHANGED vars

\* ~Tester() waits for the whole directory.
JoinTester == Joined("tester") /\ testerThread = "done" /\ UNCHANGED vars

\* ~Task_Manager(): nobody calls update_image(), so that the thread waits.
StopTask ==
    /\ stage["task"] = "dying"
    /\ taskThread = "waiting"
    /\ taskThread' = "leaving"
    /\ UNCHANGED <<vars, process, objectVars, testerVars, dangling>>

JoinTask == Joined("task") /\ taskThread = "exited" /\ UNCHANGED vars

\* ~Terminator(), whoever may still run an inference.
StopTerminator ==
    /\ stage["terminator"] = "dying"
    /\ owner = "serving"
    /\ running' = FALSE
    /\ owner' = "stopping"
    /\ UNCHANGED <<clock, stamp, queue, threadVars, countVars, lifecycleVars>>

NotifyTerminator == Notify /\ UNCHANGED lifecycleVars

JoinTerminator == Joined("terminator") /\ Join

Destroy ==
    \/ \E o \in Objects : Release(o) \/ Finish(o)
    \/ JoinTester
    \/ StopTask \/ JoinTask
    \/ StopTerminator \/ NotifyTerminator \/ JoinTerminator

-----------------------------------------------------------------------------
(* The threads.                                                                *)

TaskThreadEnds ==
    /\ taskThread = "leaving"
    /\ taskThread' = "exited"
    /\ UNCHANGED <<vars, process, objectVars, testerVars, dangling>>

\* Mutant: the loop runs once more than there are pictures.
OneMorePicture ==
    /\ testerThread = "next"
    /\ pictures' = pictures - 1
    /\ testerThread' \in {"next", "calling"}
    /\ UNCHANGED <<vars, process, objectVars, taskThread, dangling>>

\* handle_test(): a picture that cannot be read is passed over.
NextPicture ==
    /\ testerThread = "next"
    /\ pictures > 0
    /\ pictures' = pictures - 1
    /\ testerThread' \in {"next", "calling"}
    /\ UNCHANGED <<vars, process, objectVars, taskThread, dangling>>

NoMorePictures ==
    /\ testerThread = "next"
    /\ pictures = 0
    /\ testerThread' = "done"
    /\ UNCHANGED <<vars, process, objectVars, pictures, taskThread, dangling>>

\* update_image_and_check() and inference(), whoever may be gone by then.
Infer ==
    /\ testerThread = "calling"
    /\ stamp[Tester] = 0
    /\ \E step \in ClockSteps :
         /\ clock + step \in 1..MaxTime
         /\ clock' = clock + step
         /\ stamp' = [stamp EXCEPT ![Tester] = clock + step]
    /\ begun' = begun + 1
    /\ UNCHANGED <<queue, threadVars, ownerVars, pushed, answered, late,
                   lifecycleVars>>

\* A directory that is not there, an empty picture or output: an exception nobody
\* catches in this thread.
ThrowOutOfTester ==
    /\ testerThread \in {"next", "calling"}
    /\ process' = "terminated"
    /\ UNCHANGED <<vars, objectVars, testerVars, taskThread, dangling>>

Report ==
    /\ testerThread = "calling"
    /\ UpdateManipulationState(Tester)
    /\ testerThread' = "next"
    /\ UNCHANGED <<process, objectVars, pictures, taskThread, dangling>>

\* The callback: an empty function throws. A server may fail to publish, when
\* rclcpp is shut down say, or touch a goal handle that is destroyed; a call of
\* one that is gone goes well or not.
CallBack ==
    /\ Publish
    /\ process' \in IF ~Registered THEN {"terminated"}
                    ELSE {"running", "terminated", "crashed"}
    /\ dangling' = IF Registered /\ ~Usable("rmf") THEN dangling + 1 ELSE dangling
    /\ UNCHANGED <<objectVars, testerVars, taskThread>>

TesterStep == NextPicture \/ NoMorePictures \/ Infer \/ Report

TerminatorStep ==
    /\ stage["terminator"] # "absent"
    /\ \/ CallBack
       \/ /\ CheckRunning \/ WaitForMessage \/ HandleMessage \/ SpuriousWakeup
          /\ UNCHANGED lifecycleVars

Step ==
    \/ Construct \/ ThrowOutOfMain \/ StopSpinning \/ Destroy
    \/ TaskThreadEnds
    \/ TesterStep \/ ThrowOutOfTester
    \/ TerminatorStep

LifecycleNext ==
    \/ process = "running" /\ Step
    \/ process # "running" /\ UNCHANGED allVars

LifecycleSpec == LifecycleInit /\ [][LifecycleNext]_allVars

Alive(A) == process = "running" /\ A

\* The threads are scheduled and an inference returns; nothing makes spin()
\* return. As in Terminator, its thread moves on wherever it can.
LifecycleFairness ==
    /\ WF_allVars(Alive(Destroy))
    /\ WF_allVars(Alive(TesterStep))
    /\ WF_allVars(Alive(TaskThreadEnds))
    /\ WF_pc(Alive(stage["terminator"] # "absent" /\ ThreadMoves))

LifecycleFairSpec == LifecycleSpec /\ LifecycleFairness

-----------------------------------------------------------------------------
(* Properties.                                                                 *)

LifecycleTypeOK ==
    /\ process \in {"running", "terminated", "crashed", "ended"}
    /\ built \in 0..Len(Startup)
    /\ stage \in [Objects -> Stages]
    /\ held \in [Objects -> SUBSET Objects]
    /\ testerThread \in {"none", "next", "calling", "done"}
    /\ pictures \in 0..Pictures
    /\ taskThread \in {"none", "waiting", "leaving", "exited"}
    /\ backlog \in Nat /\ dangling \in Nat

\* No thread uses an object that is not constructed yet, or whose members are
\* being destroyed, but for the one call DeadCallsBounded is about: the shared
\* pointers keep alive all an inference goes through (vla_state_manager.cpp:35-38), a destructor
\* joins the thread that uses its object, and the callback is registered before
\* the first verdict, although the thread that calls it starts earlier.
UsedIsUsable ==
    /\ testerThread \in {"next", "calling"} => Usable("tester") /\ Usable("task")
    /\ testerThread = "calling" =>
         /\ \A o \in {"manager", "inference", "terminator"} : stage[o] = "live"
         /\ owner = "serving"
    /\ taskThread \in {"waiting", "leaving"} => Usable("task") /\ Usable("manager")
    /\ stage["terminator"] # "absent" /\ pc # "exited" => Usable("terminator")
    /\ pc = "publish" => Registered

\* The action server is destroyed before the Terminator whose callback captured
\* it (controller.hpp:26-30), so that verdicts reach a dead object: as many as
\* were due at that moment, and the one of the closing message.
DeadCallsBounded == dangling <= backlog + 1

\* What the life cycle of the program does to the Terminator is what Terminator
\* allows: in particular it is destroyed when no inference runs.
ImplementsTerminator == Spec

\* A shutdown comes to its end, whatever the three threads were doing: none of
\* the joins is waited for in vain, and none waits for another.
ShutdownEnds == (stage["controller"] # "live") ~> (process # "running")
=============================================================================
