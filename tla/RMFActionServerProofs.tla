------------------------ MODULE RMFActionServerProofs ------------------------
(* Theorems about RMFActionServer, for every set of goals, every width of the  *)
(* counters, every pair of thresholds and every number of verdicts.            *)
EXTENDS RMFActionServer, TLAPS

USE RMFAssumption

-----------------------------------------------------------------------------
(* Type correctness.                                                           *)

\* A counter stays within its width.
LEMMA BumpType == \A count \in Counters : Bump(count) \in Counters
BY DEF Bump, Counters

\* A remainder is the only one that fits its quotient.
LEMMA RemainderUnique ==
    ASSUME NEW n \in Nat, NEW q \in Nat, NEW r \in 0..(CountMod - 1),
           n = CountMod * q + r
    PROVE  n % CountMod = r
<1>1. CountMod \in Nat \ {0}
  OBVIOUS
<1> QED
  BY <1>1

\* A wrapping counter that follows n shows the remainder of n.
LEMMA BumpRemainder ==
    ASSUME NEW n \in Nat
    PROVE  (n + 1) % CountMod = Bump(n % CountMod)
<1> DEFINE q == n \div CountMod
           r == n % CountMod
<1>1. CountMod \in Nat \ {0}
  OBVIOUS
<1>2. q \in Nat /\ r \in 0..(CountMod - 1) /\ n = CountMod * q + r
  BY <1>1
<1> HIDE DEF q, r
<1>3. CASE r + 1 < CountMod
  <2>1. n + 1 = CountMod * q + (r + 1) /\ r + 1 \in 0..(CountMod - 1)
    BY <1>1, <1>2, <1>3
  <2>2. (n + 1) % CountMod = r + 1
    BY <1>2, <2>1, RemainderUnique
  <2>3. r + 1 = CountMod * 0 + (r + 1)
    BY <1>1, <1>2
  <2>4. (r + 1) % CountMod = r + 1
    BY <1>2, <2>1, <2>3, RemainderUnique
  <2> QED
    BY <2>2, <2>4 DEF Bump, r
<1>4. CASE r + 1 = CountMod
  <2>1. n + 1 = CountMod * (q + 1) + 0
    BY <1>1, <1>2, <1>4
  <2>2. r + 1 = CountMod * 1 + 0
    BY <1>1, <1>4
  <2>3. (n + 1) % CountMod = 0
    BY <1>1, <1>2, <2>1, RemainderUnique
  <2>4. (r + 1) % CountMod = 0
    BY <1>1, <1>2, <2>2, RemainderUnique
  <2> QED
    BY <2>3, <2>4 DEF Bump, r
<1> QED
  BY <1>1, <1>2, <1>3, <1>4

\* A number below the modulus is its own remainder.
LEMMA SmallRemainder ==
    ASSUME NEW n \in Nat, n < CountMod
    PROVE  n % CountMod = n
<1>1. n = CountMod * 0 + n /\ n \in 0..(CountMod - 1)
  OBVIOUS
<1> QED
  BY <1>1, RemainderUnique

\* The initial state is well typed.
LEMMA InitType == Init => TypeOK
<1> SUFFICES ASSUME Init
             PROVE  TypeOK
  OBVIOUS
<1>1. 0 \in Counters
  BY DEF Counters
<1>2. /\ status \in [Goals -> Statuses]
      /\ feedback \in [Goals -> Nat]
      /\ pc \in Places
  BY DEF Init, Statuses, Places
<1> QED
  BY <1>1, <1>2 DEF Init, TypeOK

\* Every step preserves the types.
LEMMA NextType == TypeOK /\ [Next]_vars => TypeOK'
<1> SUFFICES ASSUME TypeOK, [Next]_vars
             PROVE  TypeOK'
  OBVIOUS
<1> USE DEF TypeOK, goalVars, counterVars, runVars
<1>1. ASSUME NEW g \in Goals, HandleGoal(g)
      PROVE  TypeOK'
  BY <1>1 DEF HandleGoal, Statuses
<1>2. ASSUME NEW g \in Goals, HandleCancel(g)
      PROVE  TypeOK'
  BY <1>2 DEF HandleCancel, Statuses
<1>3. CASE HandleAccepted
  <2>1. status' \in [Goals -> Statuses]
    BY <1>3 DEF HandleAccepted, Statuses
  <2> QED
    BY <1>3, <2>1 DEF HandleAccepted
<1>4. CASE SendWorking
  <2>1. currentWorking' \in Counters /\ currentIdle' \in Counters
    BY <1>4, BumpType DEF SendWorking, Counters
  <2>2. runLength' \in Nat /\ earned' \in Nat
    BY <1>4 DEF SendWorking
  <2>3. lastWorking' \in Counters /\ verdicts' \in Nat /\ idleLength' \in Nat
    BY <1>4, <2>1 DEF SendWorking
  <2>5. finished' \in BOOLEAN
    BY <1>4, Zenon DEF SendWorking
  <2>4. UNCHANGED <<start, status, accepting, handle, lastIdle, pc, target,
                       feedback, reported, overtaken, barred>>
    BY <1>4 DEF SendWorking
  <2> QED
    BY <2>1, <2>2, <2>3, <2>4, <2>5
<1>5. CASE SendStopping
  <2>1. currentIdle' \in Counters /\ 0 \in Counters
    BY <1>5, BumpType DEF SendStopping, Counters
  <2>2. CASE Finishes(currentIdle', lastWorking)
    BY <1>5, <2>1, <2>2 DEF SendStopping, Places
  <2>3. CASE ~Finishes(currentIdle', lastWorking)
    BY <1>5, <2>1, <2>3 DEF SendStopping
  <2> QED
    BY <2>2, <2>3
<1>6. CASE CheckHandle
  BY <1>6 DEF CheckHandle, Places
<1>7. CASE LoadToAsk
  BY <1>7 DEF LoadToAsk, Places
<1>8. CASE AskCanceling
  BY <1>8 DEF AskCanceling, Places
<1>9. CASE LoadToTell
  BY <1>9 DEF LoadToTell, Places
<1>10. CASE PublishFeedback
  BY <1>10 DEF PublishFeedback, Places
<1>11. CASE UNCHANGED vars
  BY <1>11 DEF vars
<1> QED
  BY <1>1, <1>2, <1>3, <1>4, <1>5, <1>6, <1>7, <1>8, <1>9, <1>10, <1>11
     DEF Next, SendVlaState

\* Whatever happens, the variables keep their types.
THEOREM TypeCorrect == Spec => []TypeOK
BY InitType, NextType, PTL DEF Spec

-----------------------------------------------------------------------------
(* Counting verdicts. The counters show the lengths of the runs modulo their   *)
(* width, and a run that is owed a report has been earned and not reported.    *)

CountersShowRuns ==
    /\ currentIdle = idleLength % CountMod
    /\ currentWorking = IF idleLength = 0 THEN runLength % CountMod ELSE 0
    /\ lastWorking = IF finished THEN 0 ELSE runLength % CountMod

Reporting == IF pc \in {"check", "load", "ask", "reload", "tell"} THEN 1 ELSE 0

Owed == IF ~finished /\ runLength >= WorkThreshold THEN 1 ELSE 0

ReportsAreEarned == reported + Reporting + Owed <= earned

CountInv == CountersShowRuns /\ FinishIsExact /\ ReportsAreEarned

\* The initial state satisfies the counting invariant.
LEMMA InitCount == Init => CountInv
<1> SUFFICES ASSUME Init
             PROVE  CountInv
  OBVIOUS
<1>1. 0 % CountMod = 0
  BY SmallRemainder
<1>2. CountersShowRuns
  BY <1>1 DEF Init, CountersShowRuns
<1>3. FinishIsExact
  BY <1>1 DEF Init, FinishIsExact
<1>4. ReportsAreEarned
  BY DEF Init, ReportsAreEarned, Reporting, Owed
<1> QED
  BY <1>2, <1>3, <1>4 DEF CountInv

\* A working verdict opens a run or lengthens it, and never finishes one.
LEMMA WorkingKeepsCount ==
    ASSUME TypeOK, CountInv, SendWorking
    PROVE  CountInv'
<1>1. /\ pc = "idle" /\ pc' = "idle"
      /\ currentWorking' = Bump(currentWorking) /\ lastWorking' = currentWorking'
      /\ currentIdle' = 0 /\ idleLength' = 0 /\ ~finished' /\ reported' = reported
      /\ runLength' = IF idleLength = 0 THEN runLength + 1 ELSE 1
      /\ earned' = IF runLength' = WorkThreshold THEN earned + 1 ELSE earned
  BY DEF SendWorking
<1>2. 0 % CountMod = 0 /\ runLength \in Nat /\ idleLength \in Nat
  BY SmallRemainder DEF TypeOK
<1>3. currentWorking' = runLength' % CountMod
  <2>1. CASE idleLength = 0
    <3>1. currentWorking = runLength % CountMod
      BY <2>1 DEF CountInv, CountersShowRuns
    <3> QED
      BY <1>1, <1>2, <2>1, <3>1, BumpRemainder
  <2>2. CASE idleLength # 0
    <3>1. currentWorking = 0 % CountMod
      BY <1>2, <2>2 DEF CountInv, CountersShowRuns
    <3>2. (0 + 1) % CountMod = Bump(0 % CountMod)
      BY BumpRemainder
    <3>3. runLength' = 0 + 1
      BY <1>1, <2>2
    <3> QED
      BY <1>1, <3>1, <3>2, <3>3
  <2> QED
    BY <2>1, <2>2
<1>4. CountersShowRuns'
  BY <1>1, <1>2, <1>3 DEF CountersShowRuns
<1>5. FinishIsExact'
  BY <1>1 DEF FinishIsExact
<1>6. ReportsAreEarned'
  <2>1. Reporting = 0 /\ Reporting' = 0
    BY <1>1 DEF Reporting
  <2>2. reported \in Nat /\ earned \in Nat /\ reported + Owed <= earned
    BY <2>1 DEF CountInv, ReportsAreEarned, Owed, TypeOK
  <2>3. CASE runLength' = WorkThreshold
    BY <1>1, <2>1, <2>2, <2>3 DEF ReportsAreEarned, Owed
  <2>4. CASE runLength' # WorkThreshold /\ idleLength = 0
    <3>1. ~finished
      BY <2>4 DEF CountInv, FinishIsExact
    <3>2. runLength' >= WorkThreshold => runLength >= WorkThreshold
      BY <1>1, <1>2, <2>4
    <3>3. earned' = earned /\ reported' = reported
      BY <1>1, <2>4
    <3>4. Owed' = 0 \/ (Owed' = 1 /\ Owed = 1)
      BY <1>1, <3>1, <3>2 DEF Owed
    <3>5. CASE Owed' = 0
      BY <2>1, <2>2, <3>3, <3>5 DEF ReportsAreEarned, Owed
    <3>6. CASE Owed' = 1 /\ Owed = 1
      BY <2>1, <2>2, <3>3, <3>6 DEF ReportsAreEarned
    <3> QED
      BY <3>4, <3>5, <3>6
  <2>5. CASE runLength' # WorkThreshold /\ idleLength # 0
    <3>1. Owed' = 0
      BY <1>1, <2>5 DEF Owed
    <3> QED
      BY <1>1, <2>1, <2>2, <2>5, <3>1 DEF ReportsAreEarned, Owed
  <2> QED
    BY <2>3, <2>4, <2>5
<1> QED
  BY <1>4, <1>5, <1>6 DEF CountInv

\* A stopping verdict finishes the newest run exactly when it is the verdict
\* that reaches IdleThreshold, before the idle counter can have wrapped.
LEMMA StoppingKeepsCount ==
    ASSUME TypeOK, CountInv, SendStopping
    PROVE  CountInv'
<1>1. /\ pc = "idle"
      /\ currentIdle' = Bump(currentIdle) /\ currentWorking' = 0
      /\ idleLength' = idleLength + 1
      /\ reported' = reported /\ runLength' = runLength /\ earned' = earned
  BY DEF SendStopping
<1>2. /\ idleLength \in Nat /\ runLength \in Nat /\ reported \in Nat /\ earned \in Nat
      /\ runLength % CountMod \in Nat
      /\ runLength % CountMod <= runLength
  <2>1. CountMod \in Nat \ {0}
    OBVIOUS
  <2> QED
    BY <2>1 DEF TypeOK
<1>3. currentIdle' = idleLength' % CountMod
  BY <1>1, <1>2, BumpRemainder DEF CountInv, CountersShowRuns
<1>4. CASE Finishes(currentIdle', lastWorking)
  <2>1. lastWorking' = 0 /\ pc' = "check" /\ finished' = TRUE
    BY <1>4 DEF SendStopping
  <2>2. ~finished /\ runLength % CountMod >= WorkThreshold
    BY <1>4 DEF Finishes, CountInv, CountersShowRuns
  <2>3. idleLength' >= IdleThreshold
    <3>1. CASE idleLength' < CountMod
      BY <1>1, <1>2, <1>3, <1>4, <3>1, SmallRemainder DEF Finishes
    <3>2. CASE idleLength' >= CountMod
      BY <1>1, <1>2, <3>2
    <3> QED
      BY <1>1, <1>2, <3>1, <3>2
  <2>4. CountersShowRuns'
    BY <1>1, <1>2, <1>3, <2>1 DEF CountersShowRuns
  <2>5. FinishIsExact'
    BY <1>1, <2>1, <2>2, <2>3 DEF FinishIsExact
  <2>6. Owed = 1 /\ Owed' = 0 /\ Reporting = 0 /\ Reporting' = 1
    BY <1>1, <1>2, <2>1, <2>2 DEF Owed, Reporting
  <2>7. ReportsAreEarned'
    BY <1>1, <1>2, <2>6 DEF CountInv, ReportsAreEarned
  <2> QED
    BY <2>4, <2>5, <2>7 DEF CountInv
<1>5. CASE ~Finishes(currentIdle', lastWorking)
  <2>1. UNCHANGED <<lastWorking, pc, finished>>
    BY <1>5 DEF SendStopping
  <2>2. CountersShowRuns'
    BY <1>1, <1>2, <1>3, <2>1 DEF CountersShowRuns, CountInv
  <2>3. FinishIsExact'
    <3>1. CASE idleLength >= IdleThreshold
      BY <1>1, <1>2, <2>1, <3>1 DEF CountInv, FinishIsExact
    <3>2. CASE idleLength < IdleThreshold
      <4>1. idleLength' % CountMod = idleLength'
        BY <1>1, <1>2, <3>2, SmallRemainder
      <4>2. ~finished /\ lastWorking = runLength % CountMod
        BY <1>2, <3>2 DEF CountInv, FinishIsExact, CountersShowRuns
      <4>3. ~(idleLength' >= IdleThreshold /\ runLength % CountMod >= WorkThreshold)
        BY <1>3, <1>5, <4>1, <4>2 DEF Finishes
      <4> QED
        BY <1>1, <2>1, <4>2, <4>3 DEF FinishIsExact
    <3> QED
      BY <1>2, <3>1, <3>2
  <2>4. Owed' = Owed /\ Reporting' = Reporting
    BY <1>1, <2>1 DEF Owed, Reporting
  <2>5. ReportsAreEarned'
    BY <1>1, <2>4 DEF CountInv, ReportsAreEarned
  <2> QED
    BY <2>2, <2>3, <2>5 DEF CountInv
<1> QED
  BY <1>4, <1>5

\* The rest of a report, and the goals, leave the counts alone: a report only
\* moves from being made to having been made, or is dropped.
LEMMA OthersKeepCount ==
    ASSUME TypeOK, CountInv,
           \/ \E g \in Goals : HandleGoal(g) \/ HandleCancel(g)
           \/ HandleAccepted \/ CheckHandle \/ LoadToAsk \/ AskCanceling
           \/ LoadToTell \/ PublishFeedback \/ UNCHANGED vars
    PROVE  CountInv'
<1> USE DEF goalVars, counterVars, runVars
<1>1. UNCHANGED <<counterVars, runVars>>
  BY DEF HandleGoal, HandleCancel, HandleAccepted, CheckHandle, LoadToAsk,
         AskCanceling, LoadToTell, PublishFeedback, vars
<1>2. CountersShowRuns' /\ FinishIsExact' /\ Owed' = Owed
  BY <1>1 DEF CountInv, CountersShowRuns, FinishIsExact, Owed
<1>3. /\ reported' + Reporting' <= reported + Reporting
      /\ reported' + Reporting' \in Nat /\ reported + Reporting \in Nat
  <2> USE DEF Reporting, TypeOK
  <2>1. CASE PublishFeedback
    BY <2>1 DEF PublishFeedback
  <2>2. CASE AskCanceling
    BY <2>2 DEF AskCanceling
  <2>3. CASE CheckHandle \/ LoadToAsk \/ LoadToTell
    BY <2>3 DEF CheckHandle, LoadToAsk, LoadToTell
  <2>4. CASE \/ \E g \in Goals : HandleGoal(g) \/ HandleCancel(g)
             \/ HandleAccepted \/ UNCHANGED vars
    BY <2>4 DEF HandleGoal, HandleCancel, HandleAccepted, vars
  <2> QED
    BY <2>1, <2>2, <2>3, <2>4
<1>4. ReportsAreEarned'
  <2>1. Owed \in Nat /\ earned \in Nat /\ earned' = earned
    BY <1>1 DEF Owed, TypeOK
  <2> QED
    BY <1>2, <1>3, <2>1 DEF CountInv, ReportsAreEarned
<1> QED
  BY <1>2, <1>4 DEF CountInv

\* The counting invariant holds of every behaviour.
LEMMA Counting == Spec => []CountInv
<1>1. TypeOK /\ CountInv /\ [Next]_vars => CountInv'
  BY WorkingKeepsCount, StoppingKeepsCount, OthersKeepCount DEF Next, SendVlaState
<1> QED
  BY <1>1, TypeCorrect, InitCount, PTL DEF Spec

\* A task is found finished exactly when the verdicts say so, counted in 8 bits.
THEOREM FinishIsExactAlways == Spec => []FinishIsExact
<1>1. CountInv => FinishIsExact
  BY DEF CountInv
<1> QED
  BY <1>1, Counting, PTL

\* No working run is reported twice.
THEOREM AtMostOneReport == Spec => []OneReportPerRun
<1>1. TypeOK /\ CountInv => OneReportPerRun
  BY DEF TypeOK, CountInv, ReportsAreEarned, Reporting, Owed, OneReportPerRun
<1> QED
  BY <1>1, TypeCorrect, Counting, PTL

-----------------------------------------------------------------------------
(* Goals and the report of a finish. A cancelled goal never executes again, so *)
(* a barred goal can only be asked while its handle is kept, and is then found *)
(* canceling; a handle accepted later belongs to a goal that is not barred.    *)

Live == {"executing", "canceling"}

HandlesLive ==
    /\ handle \in Goals => status[handle] \in Live
    /\ accepting \in Goals => status[accepting] = "executing" /\ accepting # handle

TargetsKnown ==
    /\ pc \in {"load", "reload"} => handle \in Goals
    /\ pc \in {"ask", "tell"} => handle \in Goals /\ target \in Goals
    /\ pc \in {"ask", "tell"} =>
         target = handle \/ (overtaken /\ status[target] = "canceled")

BarredIsCanceled == \A g \in barred : status[g] \in {"canceling", "canceled"}

BarredIsNotTold ==
    /\ pc = "ask" => handle \notin barred \/ target = handle
    /\ pc = "reload" => handle \notin barred
    /\ pc = "tell" => target \notin barred

GoalInv ==
    /\ HandlesLive
    /\ TargetsKnown
    /\ BarredIsCanceled
    /\ BarredIsNotTold
    /\ CrashNeedsReplacement

\* The initial state satisfies the goal invariant.
LEMMA InitGoals == Init => GoalInv
BY DEF Init, GoalInv, HandlesLive, TargetsKnown,
       BarredIsCanceled, BarredIsNotTold, CrashNeedsReplacement

\* A goal sent or cancelled changes no handle and no report.
LEMMA GoalStepKeepsInv ==
    ASSUME TypeOK, GoalInv, NEW g \in Goals, HandleGoal(g) \/ HandleCancel(g)
    PROVE  GoalInv'
<1>1. /\ pc # "crashed" /\ accepting = NoGoal
      /\ UNCHANGED <<handle, pc, target, barred, overtaken>>
      /\ \/ /\ status[g] = "unknown" /\ accepting' = g
            /\ status' = [status EXCEPT ![g] = "executing"]
         \/ /\ status[g] = "executing" /\ accepting' = NoGoal
            /\ status' = [status EXCEPT ![g] = "canceling"]
  BY DEF HandleGoal, HandleCancel, runVars
<1>2. \A h \in Goals : h # g => status'[h] = status[h]
  BY <1>1 DEF TypeOK
<1>3. status'[g] \in Live
  BY <1>1 DEF TypeOK, Live
<1>4. HandlesLive'
  BY <1>1, <1>2, <1>3 DEF GoalInv, HandlesLive, Live, TypeOK
<1>6. TargetsKnown'
  BY <1>1, <1>2 DEF GoalInv, TargetsKnown, TypeOK
<1>7. BarredIsCanceled'
  BY <1>1, <1>2 DEF GoalInv, BarredIsCanceled, TypeOK
<1>8. BarredIsNotTold' /\ CrashNeedsReplacement'
  BY <1>1 DEF GoalInv, BarredIsNotTold, CrashNeedsReplacement
<1> QED
  BY <1>4, <1>6, <1>7, <1>8 DEF GoalInv

\* Accepting a goal ends the previous one and keeps the new handle.
LEMMA AcceptedKeepsInv ==
    ASSUME TypeOK, GoalInv, HandleAccepted
    PROVE  GoalInv'
<1>1. /\ pc # "crashed" /\ accepting \in Goals
      /\ handle' = accepting /\ accepting' = NoGoal
      /\ status' = [g \in Goals |-> IF g = handle THEN "canceled" ELSE status[g]]
      /\ overtaken' = (overtaken \/ target # NoGoal)
      /\ UNCHANGED <<pc, target, barred>>
  BY DEF HandleAccepted, runVars, TypeOK
<1>2. status[accepting] = "executing" /\ accepting # handle /\ accepting \notin barred
  BY <1>1 DEF GoalInv, HandlesLive, BarredIsCanceled
<1>3. /\ \A h \in Goals : h # handle => status'[h] = status[h]
      /\ handle \in Goals => status'[handle] = "canceled"
  BY <1>1
<1>4. HandlesLive'
  BY <1>1, <1>2, <1>3 DEF HandlesLive, Live
<1>6. TargetsKnown'
  BY <1>1, <1>3 DEF GoalInv, TargetsKnown
<1>7. BarredIsCanceled'
  BY <1>1, <1>3 DEF GoalInv, BarredIsCanceled, TypeOK
<1>8. BarredIsNotTold' /\ CrashNeedsReplacement'
  BY <1>1, <1>2 DEF GoalInv, BarredIsNotTold, CrashNeedsReplacement
<1> QED
  BY <1>4, <1>6, <1>7, <1>8 DEF GoalInv

\* The Terminator's thread changes no goal; it bars goals when it finds a finish
\* and drops the report when it finds the goal canceling.
LEMMA ReportKeepsInv ==
    ASSUME TypeOK, GoalInv, SendVlaState \/ UNCHANGED vars
    PROVE  GoalInv'
<1> USE DEF goalVars, counterVars, runVars
<1>1. UNCHANGED <<status, accepting, handle>>
  BY DEF SendVlaState, SendWorking, SendStopping, CheckHandle, LoadToAsk,
         AskCanceling, LoadToTell, PublishFeedback, vars
<1>2. HandlesLive'
  BY <1>1 DEF GoalInv, HandlesLive
<1>3. barred' = barred \/ barred' = {g \in Goals : status[g] \in {"canceling", "canceled"}}
  BY DEF SendVlaState, SendWorking, SendStopping, CheckHandle, LoadToAsk,
         AskCanceling, LoadToTell, PublishFeedback, vars
<1>4. BarredIsCanceled'
  BY <1>1, <1>3 DEF GoalInv, BarredIsCanceled
<1>5. TargetsKnown' /\ BarredIsNotTold' /\ CrashNeedsReplacement'
  <2> USE <1>1 DEF GoalInv, TargetsKnown, BarredIsNotTold, CrashNeedsReplacement
  <2>1. CASE SendWorking
    BY <2>1 DEF SendWorking
  <2>2. CASE SendStopping
    <3>1. pc' \in {"idle", "check"}
      BY <2>2 DEF SendStopping
    <3> QED
      BY <3>1
  <2>3. CASE CheckHandle
    BY <2>3 DEF CheckHandle, TypeOK
  <2>4. CASE LoadToAsk
    BY <2>4 DEF LoadToAsk
  <2>5. CASE AskCanceling
    <3>1. CASE status[target] = "executing"
      BY <2>5, <3>1 DEF AskCanceling, BarredIsCanceled
    <3>2. CASE status[target] = "canceling"
      BY <2>5, <3>2 DEF AskCanceling
    <3>3. CASE status[target] \notin Live
      <4>1. target # handle /\ target \in Goals /\ status[target] = "canceled"
        BY <2>5, <3>3 DEF AskCanceling, HandlesLive
      <4>2. handle \notin barred /\ handle \in Goals
        BY <2>5, <4>1 DEF AskCanceling
      <4> QED
        BY <2>5, <4>1, <4>2 DEF AskCanceling
    <3> QED
      BY <3>1, <3>2, <3>3 DEF Live
  <2>6. CASE LoadToTell
    BY <2>6 DEF LoadToTell
  <2>7. CASE PublishFeedback
    <3>1. CASE pc' = "idle"
      BY <3>1
    <3>2. CASE pc' = "crashed"
      <4>1. pc = "tell" /\ status[target] = "canceled" /\ overtaken' = overtaken
        BY <2>7, <3>2 DEF PublishFeedback
      <4>2. target # handle /\ overtaken
        BY <4>1 DEF HandlesLive, Live
      <4> QED
        BY <3>2, <4>1, <4>2
    <3> QED
      BY <2>7, <3>1, <3>2 DEF PublishFeedback
  <2>8. CASE UNCHANGED vars
    BY <2>8 DEF vars
  <2> QED
    BY <2>1, <2>2, <2>3, <2>4, <2>5, <2>6, <2>7, <2>8 DEF SendVlaState
<1> QED
  BY <1>2, <1>4, <1>5 DEF GoalInv

\* The goal invariant holds of every behaviour.
LEMMA GoalsInvariant == Spec => []GoalInv
<1>1. TypeOK /\ GoalInv /\ [Next]_vars => GoalInv'
  BY GoalStepKeepsInv, AcceptedKeepsInv, ReportKeepsInv DEF Next
<1> QED
  BY <1>1, TypeCorrect, InitGoals, PTL DEF Spec

\* A finish goes untold without a goal, with a canceling one, or if the handle was
\* replaced between load and call.
THEOREM LossesHaveReasons == Spec => LossHasReason
<1> DEFINE Loss == pc # "idle" /\ pc' = "idle" /\ reported' = reported
           Reason == \/ pc = "check" /\ handle = NoGoal
                     \/ pc = "ask" /\ (overtaken \/ status[target] = "canceling")
<1>1. ASSUME TypeOK, GoalInv, Next, Loss
      PROVE  Reason
  <2>1. CASE CheckHandle
    BY <1>1, <2>1 DEF CheckHandle
  <2>2. CASE AskCanceling
    <3>1. pc = "ask" /\ status[target] # "executing"
      BY <1>1, <2>2 DEF AskCanceling
    <3>2. target \in Goals /\ (target = handle \/ overtaken)
      BY <1>1, <3>1 DEF GoalInv, TargetsKnown
    <3>3. target = handle => status[target] = "canceling"
      BY <1>1, <3>1, <3>2 DEF GoalInv, HandlesLive, Live
    <3> QED
      BY <3>1, <3>2, <3>3
  <2>3. CASE PublishFeedback
    BY <1>1, <2>3 DEF PublishFeedback, TypeOK
  <2>4. CASE \/ HandleAccepted \/ SendWorking \/ SendStopping \/ LoadToAsk \/ LoadToTell
            \/ \E g \in Goals : HandleGoal(g) \/ HandleCancel(g)
    BY <1>1, <2>4 DEF HandleAccepted, SendWorking, SendStopping, LoadToAsk, LoadToTell,
       HandleGoal, HandleCancel
  <2> QED
    BY <1>1, <2>1, <2>2, <2>3, <2>4 DEF Next, SendVlaState
<1>2. TypeOK /\ GoalInv /\ [Next]_vars => [Loss => Reason]_vars
  BY <1>1
<1> QED
  BY <1>2, TypeCorrect, GoalsInvariant, PTL DEF Spec, LossHasReason

\* No call goes wrong unless the handle was replaced between load and call.
THEOREM CrashesNeedReplacement == Spec => []CrashNeedsReplacement
<1>1. GoalInv => CrashNeedsReplacement
  BY DEF GoalInv
<1> QED
  BY <1>1, GoalsInvariant, PTL

\* A goal that was cancelled before a finish is not told of it.
THEOREM BarredGoalsGetNothing == Spec => BarredGetsNothing
<1>1. ASSUME TypeOK, GoalInv, [Next]_vars
      PROVE  [\A g \in Goals : feedback'[g] # feedback[g] => g \notin barred]_vars
  <2>1. CASE PublishFeedback
    <3>1. target \notin barred
      BY <1>1, <2>1 DEF PublishFeedback, GoalInv, BarredIsNotTold
    <3>2. \A g \in Goals : g # target => feedback'[g] = feedback[g]
      BY <1>1, <2>1 DEF PublishFeedback, TypeOK
    <3> QED
      BY <3>1, <3>2
  <2>2. CASE ~PublishFeedback /\ Next
    <3>1. feedback' = feedback
      BY <2>2 DEF Next, HandleGoal, HandleCancel, HandleAccepted, SendVlaState,
           SendWorking, SendStopping, CheckHandle, LoadToAsk, AskCanceling, LoadToTell
    <3> QED
      BY <3>1
  <2> QED
    BY <1>1, <2>1, <2>2
<1> QED
  BY <1>1, TypeCorrect, GoalsInvariant, PTL DEF Spec, BarredGetsNothing
=============================================================================
