----------------------------- MODULE ClawHistory -----------------------------
(* The history a Terminator keeps and the verdict is_working() reads off it.   *)
(* Every operator is a pure function of a sequence of messages, oldest first.  *)
(* The code compares the millisecond timestamps of its messages against limits *)
(* computed in nanoseconds (push_state, valid_segment) and, in step 5, against *)
(* seconds obtained by dividing by 1000: the two scales are constants, so that *)
(* a model can keep their ratio, or make them agree.                           *)
EXTENDS Integers, SequencesExt

CONSTANTS
    MaxHistoryDuration,      \* MAX_HISTORY_DURATION, 60 in the code
    InvalidSegmentDuration,  \* INVALID_SEGMENT_DURATION, 3 in the code
    MsPerSecond,             \* the divisor of step 5, 1000 in the code
    NsPerSecond              \* the factor of the limits, 10^9 in the code

ASSUME DurationAssumption ==
    /\ MaxHistoryDuration \in Nat \ {0}
    /\ InvalidSegmentDuration \in Nat \ {0}
    /\ MsPerSecond \in Nat \ {0}
    /\ NsPerSecond \in Nat \ {0}

WORKING == 1
STOPPING == 2
ClawStates == {WORKING, STOPPING}

\* The message notify() pushes leaves moving uninitialised: any int, of which
\* the code tells apart the two states and everything else.
GARBAGE == 0
Movings == ClawStates \cup {GARBAGE}

Message == [timestamp : Nat, moving : Movings]

HistoryLimit == MaxHistoryDuration * NsPerSecond
SegmentLimit == InvalidSegmentDuration * NsPerSecond

\* INVALID_SEGMENT_SIZE: the code defines it, its comments count by it, and no
\* statement uses it.
InvalidSegmentSize == 3

\* Mutant: data is never refused.
AcceptsAnyData(history, current) == TRUE

\* new_manipulation_data: only a timestamp older than the newest one is refused.
NewManipulationData(history, current) ==
    history = <<>> \/ current >= history[Len(history)].timestamp

\* Mutant: at most one old message is erased for each new one.
ErasesOnce(history, msg) ==
    LET appended == Append(history, msg)
    IN  IF msg.timestamp - appended[1].timestamp > HistoryLimit
        THEN Tail(appended)
        ELSE appended

\* push_state: append, then erase the front as long as it is too old.
PushState(history, msg) ==
    LET appended == Append(history, msg)
        fresh == {i \in 1..Len(appended) :
                    msg.timestamp - appended[i].timestamp <= HistoryLimit}
        first == CHOOSE i \in fresh : \A j \in fresh : i <= j
    IN  SubSeq(appended, first, Len(appended))

\* handle_message: what a message leaves of the history.
Record(history, msg) ==
    IF NewManipulationData(history, msg.timestamp)
    THEN PushState(history, msg)
    ELSE history

\* Step 1: the messages that are in a state; the others are skipped, and do not
\* end the segment around them. Messages are named by their index.
Classified(history) == {i \in DOMAIN history : history[i].moving \in ClawStates}

\* The maximal run of one state around message i, among the messages kept.
RunOf(history, kept, i) ==
    {j \in kept :
       \A k \in kept :
         k \in i..j \/ k \in j..i => history[k].moving = history[i].moving}

Runs(history, kept) == {RunOf(history, kept, i) : i \in kept}

Segments(history) == Runs(history, Classified(history))

ValidSegment(history, segment) ==
    history[Max(segment)].timestamp - history[Min(segment)].timestamp >= SegmentLimit

\* Mutant: the first segment is filtered like the others.
FilteredButLast(history) ==
    {segment \in Segments(history) :
       Max(Classified(history)) \in segment \/ ValidSegment(history, segment)}

\* Step 2: the first and the last segment stay whatever their length.
FilteredSegments(history) ==
    {segment \in Segments(history) :
       \/ Min(Classified(history)) \in segment
       \/ Max(Classified(history)) \in segment
       \/ ValidSegment(history, segment)}

\* Step 4: the messages of the segments that stay.
Filtered(history) == UNION FilteredSegments(history)

\* Mutant: the message that flips the state is counted.
CountsFlippingMessage(msg, scan) ==
    IF scan.done
    THEN scan
    ELSE IF msg.moving = scan.state
    THEN [scan EXCEPT !.start = IF @ = 0 THEN msg.timestamp ELSE @]
    ELSE IF (scan.start - msg.timestamp) \div MsPerSecond >= InvalidSegmentDuration
    THEN [scan EXCEPT !.done = TRUE]
    ELSE [state |-> msg.moving, start |-> msg.timestamp, done |-> FALSE]

\* Step 5, one message of the scan from the newest to the oldest. start is the
\* newest timestamp counted for the current state and 0 until there is one: the
\* message that flips the state is not itself counted. The quotient only meets
\* a positive threshold, so that rounding of negative quotients is immaterial.
ScanStep(msg, scan) ==
    IF scan.done
    THEN scan
    ELSE IF msg.moving = scan.state
    THEN [scan EXCEPT !.start = IF @ = 0 THEN msg.timestamp ELSE @]
    ELSE IF (scan.start - msg.timestamp) \div MsPerSecond >= InvalidSegmentDuration
    THEN [scan EXCEPT !.done = TRUE]
    ELSE [state |-> msg.moving, start |-> 0, done |-> FALSE]

\* Step 5: the scan of the messages kept, from the newest to the oldest.
Scan(history, kept) ==
    LET newest == [state |-> history[Max(kept)].moving, start |-> 0, done |-> FALSE]
        scan[k \in 0..Len(history)] ==
          IF k = 0
          THEN newest
          ELSE IF Len(history) + 1 - k \in kept
          THEN ScanStep(history[Len(history) + 1 - k], scan[k - 1])
          ELSE scan[k - 1]
    IN  scan[Len(history)]

\* Step 3: no message is left to judge.
NothingToJudge(history) == Filtered(history) = {}

\* is_working(): the state the scan ends in.
IsWorking(history) ==
    /\ ~NothingToJudge(history)
    /\ Scan(history, Filtered(history)).state = WORKING

\* What is_working() leaves in current_claw_state_: its early return leaves the
\* state alone.
ClawStateAfter(clawState, history) ==
    IF NothingToJudge(history) THEN clawState ELSE IsWorking(history)

\* A history in the order of time.
Ordered(history) ==
    \A i, j \in DOMAIN history :
      i <= j => history[i].timestamp <= history[j].timestamp

\* A history that spans no more than the limit.
Windowed(history) ==
    \A i, j \in DOMAIN history :
      history[j].timestamp - history[i].timestamp <= HistoryLimit

-----------------------------------------------------------------------------
(* The verdict said without a scan.                                            *)

\* The timestamp a run is measured from: that of its newest message if the run
\* is the newest one, else that of the message before it, and zero if it has
\* none.
MeasuredFrom(history, kept, run) ==
    LET newest == Max(run)
        earlier == run \ {newest}
    IN  IF newest = Max(kept)
        THEN history[newest].timestamp
        ELSE IF earlier = {} THEN 0 ELSE history[Max(earlier)].timestamp

\* A run settles the verdict when nothing precedes it or it reaches far enough
\* beyond the end of the run before.
Settles(history, kept, run) ==
    LET before == {i \in kept : i < Min(run)}
    IN  \/ before = {}
        \/ (MeasuredFrom(history, kept, run) - history[Max(before)].timestamp)
             \div MsPerSecond >= InvalidSegmentDuration

\* The verdict is the state of the newest run that settles it.
ReferenceVerdict(history) ==
    LET kept == Filtered(history)
    IN  \E run \in Runs(history, kept) :
          /\ Settles(history, kept, run)
          /\ \A other \in Runs(history, kept) :
               Settles(history, kept, other) => Max(other) <= Max(run)
          /\ history[Max(run)].moving = WORKING
=============================================================================
