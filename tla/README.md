# VLA state: a TLA+ verification project

The program in `src/vla_state` watches a robot arm through a camera. Each picture is classified by a
neural network on a Qualcomm NPU ("the claw is moving" or not), a `Terminator` turns the stream of
classifications into a verdict, and an action server counts the verdicts and tells a client when a task
has finished. This directory holds TLA+ models of it, TLC configurations that check them on small
instances, and proofs that TLAPS checks for every instance.

Paths below are relative to `src/vla_state/`. `L/` stands for `qrb_vla_state_manager/` (the library) and
`N/` for `qrb_ros_vla_state/` (the ROS node).

## 1. Inventory

### Components

| Component | Source | State it keeps | Operations | Modelled in |
|---|---|---|---|---|
| Terminator | `L/src/terminator/terminator.cpp` | `state_history_`, `current_claw_state_`, `running_`, its thread | `update_manipulation_state`, `handle_msg`, `handle_message`, `push_state`, `is_working`, `get_current_claw_state`, destructor | `ClawHistory`, `Terminator`, `VerdictStream` |
| its queue | `L/include/terminator/message_queue.hpp` | an unbounded FIFO | `push`, `wait`, `notify` | `Terminator` |
| RMFActionServer | `N/src/action/rmf_action_server.cpp` | `server_global_handle_`, `start_`, four `uint8_t` counters | `handle_goal`, `handle_accepted`, `handle_cancel`, `send_vla_state` | `RMFActionServer` |
| Task_Manager | `N/src/task/task_manager.cpp` | `count_`, `running_`, its thread | `update_image`, `handle_msg`, `handle_message`, destructor | `TaskManager`, `LatestFrame` |
| its queue | `N/include/queue/message_queue.hpp` | one optional frame, `stopped_` | `push`, `wait`, `notify` | `TaskManager` |
| Model | `L/src/qnn_inference/model.cpp` | QNN handles, graphs, `Q_PowerConfigId`, the global `sg_powerConfigIds` | `Init_model`, `Inference`, power settings, destructor | `ModelLifecycle`, `InferenceData` |
| ClassificationInference | `L/src/qnn_inference/classification_inference.cpp` | none | `inference`, `postprocess_binary` | `ModelLifecycle`, `InferenceData`, `VlaLifecycle` (its control) |
| IOTensor | `L/src/qnn_inference/io_tensor.cpp` | arrays of tensors on the heap | set-up, tear-down, conversions | `TensorSetup`, `TensorData`, `InferenceData` |
| datautil | `L/src/qnn_inference/data_util.cpp` | none | sizes, quantization, casts, file reading | `TensorData` (all but the files) |
| VLAStateManager | `L/src/manager/vla_state_manager.cpp` | the Terminator and the inference | forwards every call | `VlaLifecycle` |
| Controller, main | `N/src/controller.cpp`, `N/src/main.cpp` | the shared pointers of all parts | start-up, destruction | `VlaLifecycle` |
| Tester | `N/src/test/tester.cpp` | a thread | runs an inference on each picture of a directory | `VlaLifecycle`; a worker in `Terminator` and `ModelLifecycle` |
| ImageSubscriber | `N/src/topic/image_subscriber.cpp` | none | converts a picture and drops it | `VlaLifecycle` (its exception) |
| VLAStatePublisher | `N/src/topic/vla_state_publisher.cpp` | none | never instantiated | no |
| QNN type macros | `L/include/qnn_inference/qnn_type_macros.hpp` | none | field accessors | no |

### Interactions

```
 Tester thread ----> VLAStateManager::update_image_and_check
 Task_Manager ...->      |  ClassificationInference::inference: read the clock,
 (calls commented        |  Init_model, Inference, classify, ~Model
  out at present)        v
                    Terminator::update_manipulation_state --push--> MessageQueue
                                                                        | wait
                                            Terminator thread: push_state, is_working
                                                                        | callback
 executor threads: handle_goal, handle_cancel,            RMFActionServer::send_vla_state
 handle_accepted --- server_global_handle_ (no lock) --->   counts, publish_feedback
```

At this commit only the Tester's thread runs inferences: the calls of `update_image` in
`N/src/topic/image_subscriber.cpp` and in the Tester are commented out. `VLAStateManager` is the public
class of a library, though, and nothing in it restricts its callers to one thread, so the models take the
set of calling threads as a parameter. The executor is a `MultiThreadedExecutor`; the action server sits
in a mutually exclusive callback group, so its three handlers never overlap, but `send_vla_state` runs on
the Terminator's thread beside them.

### What is hard, and what would make each part correct

* **Terminator.** Updates arrive out of order (several threads, a wall clock that steps back); the
  closing message of the destructor carries an uninitialised state and the timestamp zero; the limits are
  nanoseconds compared with milliseconds; the scan over the history has a sentinel, a reset at each flip
  and an early end. Correct means: no update is lost or judged twice, the history stays sorted and within
  its window, the closing message spoils nothing, the verdict is what the scan is meant to compute, the
  destructor ends and lets little out.
* **RMFActionServer.** 8-bit counters wrap; one counter of four is cleared by a finish; the goal may be
  cancelled or replaced between any two reads of the unprotected handle. Correct means: a finish is
  recognised exactly when it should be, reported once, to a goal that may still be told.
* **Task_Manager.** A slot that is overwritten while the consumer works, signals sent outside the lock, a
  queue that still gives its frame after it was stopped. Correct means: no lost wake-up, the newest frame
  always, none twice, an end of the destructor.
* **Model.** Ten stages of set-up whose failure nobody looks at, one global set of power configurations
  without a lock that all Models share. Correct means: what was survived is known, and the configurations
  are each Model's own and gone at the end.
* **IOTensor.** Allocation of many blocks that fails half-way. Correct means: no double free, and what is
  left allocated is known.
* **The data path of an inference.** The size of a tensor is computed again by each step that needs it, from
  its own copy of the dimensions, with 32-bit products; the types are named in three switch statements;
  nothing compares the input data with the graph. Correct means: the sizes agree, a verdict was made
  from the picture and not from memory nobody wrote, and a value is quantized to the nearest step or cast.
* **Start-up and shutdown of the node.** A thread that runs before its callback is registered, members
  destroyed in an order that leaves a callback with a dead object, three destructors that join threads.
  Correct means: what a thread uses is there, the calls of the dead object are known, the shutdown ends.

`PROJECT.json` lists each hazard at its line with the properties that cover it.

## 2. The models

Names follow the code. Variables and constants are explained where they are declared; only the
correspondences that need a word are given here.

### `ClawHistory`: the history and the verdict, as pure functions

A message is a timestamp and a state; inside a verdict it is named by its index in the history. `PushState`
appends and evicts. The vectors of vectors that `is_working()` copies messages into are sets of such
indices: `Segments` and `FilteredSegments` are steps 1 and 2, `Filtered` is step 4, what is left to scan.
`ScanStep` is one round of the backward scan of step 5 and `Scan` all of it, a recursive function of the
number of messages seen, over those of the history that are kept. The two scales in which the code measures
time are constants (`MsPerSecond`, `NsPerSecond`): with the values of the code no test of a limit is ever met
on a small instance, with equal scales all of them are. `ReferenceVerdict` says the verdict again without a
scan: the state of the newest run of the filtered history that begins long enough after the run before it.

### `Terminator`: threads and queue

`push`, `notify` and one test of `wait` are critical sections and so atomic actions; the consumer sleeps
in place `"asleep"`, may wake without reason, and is woken by a push. `HandleMessage` is all of
`handle_message` up to the callback: the refusal of old data, the eviction and the verdict, for a refused
message too. `BeginInference` reads the clock and `UpdateManipulationState` reports with that reading,
possibly after a later one was reported. The clock is `high_resolution_clock`, which may be the wall
clock: it moves by any of `ClockSteps`, some of them negative. The destructor is `StopRunning`, `Notify`,
`Join`; the uninitialised state of the closing message is any of the two states or `GARBAGE`, which
stands for every other integer. The destructor is only entered when no inference runs, for
`VLAStateManager` owns both objects. `running_` is a plain `bool`; the model lets the thread read it at
any moment, which covers a late read of a value that does arrive.

`VerdictStream` is what the class promises with no thread or lock: one line of updates, each judged once
in order. How an update is absorbed and judged are its parameters; `Terminator` gives it `Record` and
`ClawStateAfter`. The line is the message in the consumer's hand, until judged, and the queue.

### `RMFActionServer`: goals and counters

`rclcpp_action`, which is not part of the repository, is modelled as it is used: a goal executes from the
moment `handle_goal` accepts it, `handle_accepted` follows, a cancel request makes it cancelling, and a
handle whose last reference is dropped ends its goal. `send_vla_state` is split wherever an executor
thread can come in between: the verdict is counted (`SendWorking`, `SendStopping`), then the null test,
and then each of the two method calls as a read of the pointer and the call. A method called on a handle
that was destroyed since may crash or return anything. The model does not go below a whole read of the
`shared_ptr`: a torn read has no outcome other than those. `CountMod` is 256 in the code.

The history variables `runLength`, `idleLength`, `finished`, `earned`, `reported` and `barred` say
independently of the four counters which runs should be reported and who must not be told; `overtaken` says
whether the handle was replaced after the reporting thread had last loaded it.

### `TaskManager` and `LatestFrame`

`push` and `notify` of this queue signal after they have released the lock, so that writing and
signalling are two actions. Frames are their numbers (`count_`). One caller at a time gives frames: the
code's caller would be a subscription callback. The class implements `LatestFrame`, in which whoever
takes a frame takes the newest; a frame counts as offered once it is in the slot.

### `ModelLifecycle`: an inference from `Init_model` to `~Model`

Every call into QNN may fail, in one action per stage. A failure leaves `Init_model()` and, as its result
is ignored, leads to `Inference()` (`GiveUp`). A null function pointer makes the process `"crashed"`, an
exception of `postprocess_binary()`, which nothing catches, `"terminated"`; both are legal ends of a
behaviour. `livePower`, `level` and `dcvs` are the device's power configurations (external): each setting
writes the level or the voltage scaling or both, as `boostPerformance`, `disableDcvs`, `resetPerformance` and
`enableDcvs` do, and may be refused. So may the destruction of a configuration (`Destroyed`), which the code
prints and forgets: the identifier is erased and the configuration stays (`abandoned`).
`registered` is `sg_powerConfigIds`. The set operations are atomic in the model although the code has no
lock: what a race inside `std::set` does is not a question a model of this size can answer, and is listed
as a hazard. The identifier 1 that every Model begins with may be one the device gives away.

### `TensorData`: sizes and values of tensors

Pure functions. `AsInt` and `AsSize` are what an `int` and a `size_t` make of a number; the widths
(`IntValues`, `SizeValues`, `ByteValues`) are constants, so that a small instance has products that overflow.
`Accumulate` is the `std::accumulate` with an `int` to start with that `allocateBuffer` and
`calculateElementCount` both have. A float is a multiple of a small unit, `One` of which make 1.0, so that
halves and thirds of a scale can be said: `FloatToTfN` rounds halves away from zero, converts to `int` (beyond its range, or
divided by a scale of zero: any outcome that a saturating or a truncating machine gives) and clamps; `CastFromFloat` cuts the fraction off
and, beyond the range of the type, saturates, wraps around or gives the lowest value.

### `TensorSetup`: allocation and clean-up of the tensors of a graph

Blocks of the heap, sets of those allocated and freed, and a place for each `malloc` that may fail. A
pointer keeps its value when its block is freed. `file` is the graph that is set up, any of the constant
`Files`: what its tensors are decides which blocks are wanted, which types have a buffer and which length
is zero. `TearDown` is `tearDownInputAndOutputTensors()`, which nothing calls.

### `InferenceData`: the data path of `Model::Inference()`

Extends `TensorSetup`: once the tensors are set up, each input gets a slice of the data (`Deal`), copied
as it is (`FillFloat`) or through a staging buffer of floats and a conversion (`FillNative`); the graph is
executed; each output is read as floats (`ReadFloat`, `ReadNative`) and the first one judged (`Postprocess`).
Every copy records in `beyond` whether it left the buffer or the data; `slices` records what each input got.
What is written is not modelled, only how much and from where; one value of many is converted at each step,
any of `Samples`: a float, the encoding of its tensor, and the offset and the scale that are read there as
`scaleOffsetEncoding`. The code reads those two whatever the encoding is: what it finds in a tensor with scales along
an axis is the bits of the axis and the count, and zeros without an encoding. `graphExecute()` may do what it likes, and its status is ignored as in the code. One graph
is run; the code runs the graphs of a file one after another, each with tensors of its own and all from the
beginning of the same data.

### `VlaLifecycle`: the program around the Terminator

Extends `Terminator` with what `main()` does. `Startup` is the order of construction, `Members` the owning
pointers of each class in the order of declaration; `Construct` and `Release` apply the rules of C++ to them:
members go in reverse order of declaration, an object goes with its last pointer, its destructor's body
before its members. The three threads are the Tester's (`NextPicture`, `Infer`, `Report`), the Task_Manager's,
which only waits as nobody gives it frames, and the Terminator's, whose steps are those of `Terminator`;
`CallBack` adds to `Publish` whom the callback meets: nobody, the action server, or what is left of it. Any
constructor and any callback of the executor may throw, and so may an inference, the listing of the pictures or
the call of the action server; nobody catches it.
`Terminator` assumes that its destructor only runs when no inference does. Here that is a consequence
(`ImplementsTerminator` is the specification of `Terminator`, with the same variables).

### MC modules

`MCTerminator`, `MCRMFActionServer` and `MCModelLifecycle` add to their module the clock steps, the symmetry
sets and the statements of the source's comments that the code does not keep; `MCInferenceData` has the
graphs and the samples. `TaskManager` and `VlaLifecycle` need no definitions for their constants.

## 3. The runs

`tlc -config <run>.cfg <module>`. Each run finishes in well under five minutes.

| Run | Module | What it shows | Instance |
|---|---|---|---|
| `terminator_safety` | `MCTerminator` | `NoUpdateLost`, `HistorySound`, `PoisonIsolated`, `ClawStateIsReference`, `AtMostOneLateVerdict` | two threads, four inferences, eight ticks, steps -1, 1, 3, all scales 1, limits 4 and 2 |
| `terminator_as_built` | `MCTerminator` | `StickyVerdict`, `FlipFollowsNewest`, `ImplementsStream`, `UpdatesAnswered` | one thread, four inferences, twelve ticks, two ticks to the second, limits out of reach as in the code |
| `rmf` | `MCRMFActionServer` | `FinishIsExact`, `OneReportPerRun`, `CrashNeedsReplacement`, `LossHasReason`, `BarredGetsNothing`, `FinishIsTold` | three goals, eight verdicts, counters modulo 4, thresholds 2 |
| `task` | `TaskManager` | `NoLostWakeup`, `FramesInOrder`, `ImplementsLatestFrame`, `NewestIsTaken`, `ShutdownCompletes` | five frames |
| `model_shared` | `MCModelLifecycle` | `DestructorIsCovered`, `VerdictNeedsGraphs`, `OwnPowerLives`, `PowersAreOwned` | two threads, three inferences, three identifiers, one graph |
| `model_single` | `MCModelLifecycle` | `PowerFollowsExecution` | one thread, three inferences, two graphs |
| `tensor_setup` | `MCInferenceData` | `NoDoubleFree`, `CleanupFreesTheRest`, `AccessesFit`, `VerdictIsOfData`, `ConversionIsFaithful` | one or two tensors a side, every type, ten shapes; a byte of 4 values, an `int` of 64, a `size_t` of 512; data of 5 floats |
| `lifecycle` | `VlaLifecycle` | `UsedIsUsable`, `DeadCallsBounded`, `ImplementsTerminator`, `ShutdownEnds` | up to three pictures, clock steps 0 and 1, two ticks |
| `claim_counted_segments` | `MCTerminator` | violated: the comment that step 2 deletes segments of fewer than three messages | five inferences |
| `claim_history_seconds` | `MCTerminator` | violated: the comment that the history covers `MAX_HISTORY_DURATION` seconds | two "seconds" |
| `claim_stop_publish` | `MCRMFActionServer` | violated: the log message "Stop publish VLA state" | two goals |
| `claim_tensor_cleanup` | `MCModelLifecycle` | violated: the comment that tensors are cleaned up after execution | two inferences |

Every passing run of a module also checks its type invariant.

**Why the bounds are enough.** *Terminator:* the history of four messages has up to four segments, so that
a first, an interior and a last segment exist, interior ones of one and two messages; a tick of 3 passes
the segment limit, two of them the history limit, and a negative one makes data old. Two workers make an
older clock reading arrive later. Nothing in the code counts beyond the newest and the oldest message.
With the scales of the code (`terminator_as_built`) only the three-second test of step 5 can be met, by a
step of 5; five messages are needed to show an interior segment of three, hence the larger claim run.
*rmf:* counters modulo 4 with thresholds of 2 let a run of 4 wrap to 0 and one of 6 wrap to 2 and finish,
two runs finish one after the other, a pause be interrupted, and a counter wrap during a pause; three
goals let a goal be replaced twice while one finish is reported. The proofs lift all of this to 256, 10
and 3. *task:* a frame can be in the slot, in the consumer's hand and being written at once; two more let
one be lost. *model:* two Models can hold configurations at once and the third finds what they left; two
graphs let the second find the settings of the first. *tensor_setup:* the second tensor of a side fails with
the first complete, on either side; the second input is dealt what the first left; 72 elements count as 8
in an `int` of 64 values and 40 as a negative number, so that a product that overflows and one that turns
into a huge `size_t` both occur; the data is too short for some graphs and exact for others; samples lie on
halves, thirds, both ends of each type, and beyond the range of an `int`, and some have a scale of zero, a
negative one, scales along an axis or no encoding. *lifecycle:* the objects are those
of the program; three pictures leave verdicts in hand, in the queue and still to come when the destruction
begins.

**Fairness.** Liveness is checked under weak fairness of: each step of a started thread (it is scheduled by
the operating system and blocks only in `wait`), a call that has begun (an inference returns, a push
reaches its signal), the steps of a destructor that has begun. No fairness is put on what the
environment decides: the beginning of an inference, a goal, a cancel request, a verdict, a spurious
wake-up, the wish to shut down. In `Terminator` the fairness of the thread is `WF_pc(ThreadMoves)`, which
says that the place of the thread changes: at each place but `"asleep"` and `"exited"` exactly one action
is enabled and it changes `pc`. `terminator_as_built` has no symmetry set, which liveness would not allow.
In `VlaLifecycle` nothing makes `spin()` return, and no exception is made to happen: the shutdown, once
begun, ends by itself. The node may stop being driven at any time, which is why the `rmf` runs do not check for deadlock.

**The findings.** `valid_segment()` and `push_state()` compare milliseconds with nanoseconds: the history
lasts almost two years rather than a minute, and no interior segment is ever valid, so that the oldest
state sticks (`StickyVerdict` says exactly how long). A goal whose command is not "start" is told of
finished tasks like any other. Every inference leaves its tensors allocated. A further result is no
disagreement with a comment but is worth knowing: of all failures of `Init_model()` the program survives only
the last, that of the power configuration, and then destroys the default identifier, which can be the
configuration of another Model (`OwnPowerLives` confines the damage to that identifier). A Model whose
configuration could not be destroyed leaves it behind with nobody to own it, and a Model that is given an
identifier another one has still to erase loses it from `sg_powerConfigIds` (`PowersAreOwned` says that there
is no other way). A quantized tensor with scales along an axis, or with no encoding, is converted all the
same, to numbers that mean nothing (`ConversionIsFaithful` leaves such tensors out). Likewise, at a shutdown the action server is destroyed
before the Terminator, whose thread calls it once for each verdict due and once for the closing message
(`DeadCallsBounded`: never more). And a tensor whose copy went short of its dimensions is passed over,
unfilled, and the graph executed: `VerdictIsOfData` holds only if no copy went short.

## 4. The proofs

All constants are arbitrary within the assumptions `DurationAssumption`, `TerminatorAssumption`,
`RMFAssumption`, `TaskAssumption`, `ModelAssumption`, `WidthAssumption`, `FilesAssumption`, `DataAssumption` and `LifecycleAssumption`: naturals,
positive where the code divides or compares, thresholds smaller than the range of the counters, a default
identifier among those of the power configurations, integers wide enough for the sizes of types. `tlapm <module>.tla` checks a module from nothing.

* `ClawHistoryProofs` has the lemmas on the operators: what `Record` keeps (type, order, window) and leaves
  (a suffix that ends in the new message). `PushStateKeepsOrder` is where eviction and sortedness meet.
  `ScanIsReference` is the correctness of the scan, for an ordered history of any length. Its induction, over
  the messages from the newest to the oldest, has `Reached` for invariant: either the scan is over and its
  state is that of a run that decides, or no run newer than the one in hand settles the verdict, and `start`
  is zero or the timestamp that run is measured from. `ScanBegins`, `ScanGoesOn` and `ScanEnds` are its three
  steps; `MeasuredWithin` is the reason why order is needed. The last part reads the verdict of a `Short`
  history, one that spans less than `SegmentLimit`: of its segments only the first and the last stay
  (`ShortFiltered`), so the verdict is that of the oldest message (`StickySame`) or one comparison away from it
  (`StickySplit`).
* `TerminatorProofs`: `TypeCorrect`, then the inductive invariant `IInv`. It adds to the properties that
  `running_` follows the destructor (`OwnerServes`), that while the object serves every message in line and
  in the history is real (`LineIsReal`, `HistoryIsReal`: the closing message, timestamp zero, can only
  follow, and a history that is not empty refuses it), and where the thread can be once a late verdict is out
  (`LateOnlyLeaving`). From it follow `NoUpdateIsLost`, `HistoryIsSound`,
  `PoisonIsIsolated`, `OneLateVerdict`. `ClawStateIsTheReference` adds to `HistoryIsSound`, which keeps every history
  in order, the theorem `ScanIsReference`; the early return of `is_working()`, which leaves the claw state alone,
  is only ever taken with a lone closing message (`HandleKeepsReference`). With the units of the code the limits
  are 34 days for a segment and almost two years for the history: `VerdictSticksWhileShort` and
  `FlipFollowsWhileShort` say of every behaviour, for any values of the constants, what holds for as long as the
  history stays within them. `VerdictSticks` and `FlipFollowsTheNewest` are the properties of the run
  `terminator_as_built` themselves; their hypotheses, `MaxTime <= SegmentLimit` and `MaxTime <= HistoryLimit`, are
  satisfied by that run and by a process that runs for less than 34 days, its clock being counted from its start
  (the code compares timestamps only with one another, and with the zero that no real one has). `Refinement` shows that it implements `VerdictStream`: a push is
  `Submit`, `HandleMessage` is `Judge`, `Notify` is `Close`, everything else stutters; it needs that no
  stamp is open once the destructor has begun.
* `RMFActionServerProofs` has two inductive invariants. `CountInv` ties the counters to the history
  variables: `lastWorking` is the length of the run modulo `CountMod` until the finish clears it, the
  current counters likewise, and a run still to be reported is owed (`reported + Reporting + Owed <= earned`).
  It gives `FinishIsExactAlways` and `AtMostOneReport` for 8-bit counters. `GoalInv` ties goals to handles:
  the kept handle is alive, a loaded target is the kept handle unless that was replaced since (`overtaken`),
  and a barred goal stays cancelled and cannot be a goal about to be told. It gives `LossesHaveReasons`,
  `CrashesNeedReplacement` and `BarredGoalsGetNothing`.
* `TaskManagerProofs`: `IInv` says that `running_` and `stopped_` follow the destructor, that the slot holds
  nothing or the newest offered frame, and that a sleeper with work to do is about to be signalled. It
  gives all safety properties and the refinement of `LatestFrame`.
* `ModelLifecycleProofs` has three invariants, one on top of the other. `ControlInv` is `TypeOK` with `Staged`:
  an infrastructure implies graphs, context, interface and backend, a place of `Init_model()` implies what the
  places before it made, and a setting needs a configuration. It gives `DestructorAlwaysCovered` and
  `VerdictsNeedGraphs`. `PowerInv` says who owns the configurations: one that exists belongs to a Model that has
  not destroyed it or was abandoned by one that could not, no two Models hold the same identifier unless it is
  the default one and a Model was refused, and an identifier is only missing from the set in the cases
  `OwnIsRegistered` names. It gives `PowersAreAlwaysOwned` and `OwnPowersLive`. `SettingsFollow` says what the
  last accepted setting left in level and scaling; it is inductive only for a single thread, which `PowerFollows` therefore assumes (`Workers = {w}`): the
  run `model_single` has one worker and `model_shared` does not list `PowerFollowsExecution` for the same reason.
* `TensorProofs`, for `TensorSetup`: `IInv` follows the allocation through the two sides. Before the cleanup nothing is freed
  (`FreedInOrder`); while the outputs are built the inputs are complete (`InputsBuilt`); the side in hand has
  the buffers and dimensions of the tensors before `index` and nothing beyond it (`SideBuilt`). From it follow
  `NothingFreedTwice`, `PointersAlwaysGood` and `CleanupIsKnown`, for every graph.
* `TensorProofs`, for `InferenceData`: `InferenceImplementsSetup` shows that every step of an inference is a step
  of `TensorSetup` or leaves its variables alone, which carries its theorems over (`InferenceFreesOnce`,
  `InferenceCleanupIsKnown`). `InferenceTypeCorrect` adds where the inference is: filling and reading happen on
  tensors that are set up, and stay within those the graph has. `AccessesAlwaysFit` and `VerdictIsAlwaysOfData`
  then need three facts. A product of dimensions is an `int` made a `size_t` (`AccumulateForm`, by recursion over
  the dimensions): it is a small natural or so large that no buffer is obtainable, so a tensor that was given
  one has the same number of elements whichever function counts them (`SizesAgree`, kept by `AllSized`). The
  slices that are due follow one another up to the size of the data (`OffsetsForm`, `OffsetsRise`). And what is
  dealt and read is never beyond that, and just that if no copy went short (`FlowInv`).
* `TensorProofs`, for the values: `Rounded` bounds a rounded quotient on either side of zero, `Cut` a truncated one,
  and `QuantizedFaithful` follows a float through rounding, clamping and back, for any offset and any positive
  scale, the others being excluded by `ConversionIsFaithful` and not by an assumption.
  `ConversionIsAlwaysFaithful` then only needs that what was converted last came of a sample (`ConversionInv`).
* `RecursionLemmas`: induction and recursion on naturals, stated with sets and functions in place of operators,
  so that the provers can cite them: what a recursive function such as the product in `Accumulate` computes is
  proved from them, and what the scan of `ClawHistory` reaches.
* `VlaLifecycleProofs`: `LifecycleInv` has a part for each question. `StartupInv` ties the stages to how much is
  built; `HeldInv` says who holds whom at each stage, hence that an object is live while a pointer leads to
  it; `ThreadInv` that a thread runs only between its object's construction and its join; `TerminatorInv` and
  `InferenceInv` that the destructor of the Terminator has only begun when the Tester is gone and no inference
  is open; `DeadInv` that the calls made of the dead server and the verdicts still due are together at most
  the backlog at its end and one. From them follow `UsedIsAlwaysUsable`, `DeadCallsAreBounded` and
  `ProgramRunsTerminator`; the last gives every theorem about a Terminator for the one in the program
  (`ProgramKeepsUpdates`, `ProgramVerdictIsReference`).

**Only model-checked:** liveness, that is `UpdatesAnswered`, `FinishIsTold`, `NewestIsTaken`,
`ShutdownCompletes` and `ShutdownEnds`, which rest on fairness, beyond the prover; and the absence of deadlock. Every
invariant, action property and refinement that a passing run checks is also a theorem, `StickyVerdict` and
`FlipFollowsNewest` with the hypotheses named above, `PowerFollowsExecution` for a single thread.

## 5. What is not modelled

* Contents of pictures and tensors, and the floating-point arithmetic of `preprocess_convnext()` and
  `softmax()`: no state, no control beyond the exceptions that are modelled. Conversions are modelled on exact
  multiples of a unit: the rounding of `float` and `double` itself is left out.
* The accessors of `qnn_type_macros.hpp`: they select the member of a C union by its version and keep no state.
* `Inference_text()`, `writeOutputTensor()`, `allocateAndCopyBuffer()`, `LoadBytesFromFile()`,
  `cosineSimilarity()` and the `size()` of both queues have no caller.
* `VLAStatePublisher` is never instantiated.
* What `graphExecute()` computes, and its failure: the status is ignored and the output buffer is read as it is.
* Data races as such: a torn `shared_ptr` or a corrupted `std::set`.

## 6. Plan

Done: `ClawHistory`, `Terminator` with `VerdictStream`, `RMFActionServer`, `TaskManager` with `LatestFrame`,
`ModelLifecycle`, `TensorSetup`, `TensorData` with `InferenceData`, and `VlaLifecycle`, each checked and
proved about.

Next, in this order:

1. A composition of `VerdictStream` with the counters of `RMFActionServer`: which clock readings and
   classifications end in a report.
