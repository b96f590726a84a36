---------------------------- MODULE VerdictStream ----------------------------
(* What a Terminator promises, with no thread, lock or condition variable:     *)
(* updates wait in one line, each is judged once, in order, against the        *)
(* history so far, and get_current_claw_state() always answers for the newest  *)
(* one judged. The closing message is judged like an update. How a history     *)
(* takes in an update and what it then says are parameters.                    *)
EXTENDS Sequences

CONSTANTS
    Updates,             \* what an inference can report
    Closings,            \* what the destructor can report
    Absorb(_, _),        \* the history after an update
    Verdict(_, _)        \* the claw state after a history, given the one before

VARIABLES
    pending,     \* the updates not judged yet, oldest first
    history,     \* what the judged updates left behind
    clawState,   \* what get_current_claw_state() answers
    open         \* FALSE once the closing message stands in the line

vars == <<pending, history, clawState, open>>

Init ==
    /\ pending = <<>>
    /\ history = <<>>
    /\ clawState = FALSE
    /\ open = TRUE

Submit ==
    /\ open
    /\ \E update \in Updates : pending' = Append(pending, update)
    /\ UNCHANGED <<history, clawState, open>>

Judge ==
    /\ pending # <<>>
    /\ pending' = Tail(pending)
    /\ history' = Absorb(history, Head(pending))
    /\ clawState' = Verdict(clawState, history')
    /\ UNCHANGED open

Close ==
    /\ open
    /\ open' = FALSE
    /\ \E closing \in Closings : pending' = Append(pending, closing)
    /\ UNCHANGED <<history, clawState>>

Next == Submit \/ Judge \/ Close

Spec == Init /\ [][Next]_vars
=============================================================================
