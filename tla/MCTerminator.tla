---------------------------- MODULE MCTerminator ----------------------------
(* Instances of Terminator for TLC.                                            *)
EXTENDS Terminator

\* Clock steps of the safety runs: back, one tick, and over a limit.
MCSteps == {-1, 1, 3}

\* One state step back, a step short of three seconds and one of three, with
\* two ticks to the second.
MCStepsAsBuilt == {-2, 1, 5}

WorkerSymmetry == Permutations(Workers)

-----------------------------------------------------------------------------
(* What comments of the source say of the history and the verdict.             *)

\* terminator.cpp:133 says step 2 deletes the segments with fewer than three
\* messages: a longer one in the middle of the history is kept.
CountedSegmentsKept ==
    \A segment \in Segments(history) :
      Cardinality(segment) >= InvalidSegmentSize =>
        segment \in FilteredSegments(history)

\* terminator.hpp:18 says the history covers at most MAX_HISTORY_DURATION
\* seconds; the timestamps are milliseconds.
HistoryWithinSeconds ==
    \A i, j \in DOMAIN history :
      history[j].timestamp - history[i].timestamp <= MaxHistoryDuration * MsPerSecond
=============================================================================
