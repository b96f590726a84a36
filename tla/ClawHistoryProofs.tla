-------------------------- MODULE ClawHistoryProofs --------------------------
(* What recording a message does to a history, for every history.              *)
EXTENDS ClawHistory, SequenceTheorems, RecursionLemmas

-----------------------------------------------------------------------------

\* The limit of push_state() is a natural number.
LEMMA HistoryLimitType == HistoryLimit \in Nat
BY DurationAssumption DEF HistoryLimit

\* A non-empty set of natural numbers has a least element: the CHOOSE of
\* PushState names the first message that is young enough.
LEMMA LeastNatural ==
    ASSUME NEW T \in SUBSET Nat, T # {}
    PROVE  \E x \in T : \A y \in T : x <= y
<1>1. PICK x \in T : \A y \in T : ~(<<y, x>> \in OpToRel(<, Nat))
  BY WFMin, NatLessThanWellFounded, Zenon
<1>2. ASSUME NEW y \in T, ~(x <= y)
      PROVE  FALSE
  <2>1. y \in Nat /\ x \in Nat /\ y < x
    BY <1>2
  <2>2. <<y, x>> \in OpToRel(<, Nat)
    BY <2>1, Zenon DEF OpToRel
  <2> QED
    BY <1>1, <2>2
<1> QED
  BY <1>2

\* push_state() keeps a suffix of the history and the new message, and the
\* oldest message it keeps is within the limit of the new one.
LEMMA PushStateIsSuffix ==
    ASSUME NEW history \in Seq(Message), NEW msg \in Message
    PROVE  \E first \in 1..(Len(history) + 1) :
             /\ PushState(history, msg) =
                  SubSeq(Append(history, msg), first, Len(history) + 1)
             /\ msg.timestamp - Append(history, msg)[first].timestamp <= HistoryLimit
<1> DEFINE appended == Append(history, msg)
           fresh == {i \in 1..Len(appended) :
                       msg.timestamp - appended[i].timestamp <= HistoryLimit}
           first == CHOOSE i \in fresh : \A j \in fresh : i <= j
<1>1. /\ Len(appended) = Len(history) + 1
      /\ appended[Len(history) + 1] = msg
      /\ Len(history) \in Nat
  BY AppendProperties, LenProperties
<1>2. msg.timestamp - msg.timestamp <= HistoryLimit
  BY HistoryLimitType DEF Message
<1>3. Len(history) + 1 \in fresh
  BY <1>1, <1>2
<1>4. fresh \in SUBSET Nat
  BY <1>1
<1>5. first \in fresh
  BY <1>3, <1>4, LeastNatural
<1>6. PushState(history, msg) = SubSeq(appended, first, Len(history) + 1)
  BY <1>1 DEF PushState
<1> QED
  BY <1>1, <1>5, <1>6

\* Recording a message leaves a history.
LEMMA RecordType ==
    ASSUME NEW history \in Seq(Message), NEW msg \in Message
    PROVE  Record(history, msg) \in Seq(Message)
<1> DEFINE appended == Append(history, msg)
           n == Len(history) + 1
<1>1. PICK first \in 1..n : PushState(history, msg) = SubSeq(appended, first, n)
  BY PushStateIsSuffix
<1>2. /\ appended \in Seq(Message)
      /\ Len(appended) = n
      /\ n \in Int
  BY AppendProperties, LenProperties
<1>3. \A i \in first..n : appended[i] \in Message
  <2> SUFFICES ASSUME NEW i \in first..n
               PROVE  appended[i] \in Message
    OBVIOUS
  <2>1. i \in 1..Len(appended)
    BY <1>2
  <2> HIDE DEF appended
  <2> QED
    BY <1>2, <2>1, ElementOfSeq
<1>4. SubSeq(appended, first, n) \in Seq(Message)
  <2> HIDE DEF appended, n
  <2> QED
    BY <1>2, <1>3, SubSeqProperties
<1> QED
  BY <1>1, <1>4 DEF Record

\* A message that is not refused leaves an ordered history ordered, within the
\* limit, and ending in that message; every other message was there before.
LEMMA PushStateKeepsOrder ==
    ASSUME NEW history \in Seq(Message), NEW msg \in Message,
           Ordered(history),
           NewManipulationData(history, msg.timestamp)
    PROVE  /\ PushState(history, msg) \in Seq(Message)
           /\ Ordered(PushState(history, msg))
           /\ Windowed(PushState(history, msg))
           /\ \A i \in DOMAIN PushState(history, msg) :
                \/ PushState(history, msg)[i] = msg
                \/ \E j \in DOMAIN history : PushState(history, msg)[i] = history[j]
<1> DEFINE appended == Append(history, msg)
           n == Len(history) + 1
           pushed == PushState(history, msg)
<1>1. PICK first \in 1..n :
        /\ pushed = SubSeq(appended, first, n)
        /\ msg.timestamp - appended[first].timestamp <= HistoryLimit
  BY PushStateIsSuffix
<1>2. /\ Len(history) \in Nat
      /\ DOMAIN history = 1..Len(history)
  BY LenProperties
<1>3. /\ appended \in Seq(Message)
      /\ Len(appended) = n
      /\ \A i \in 1..Len(history) : appended[i] = history[i]
      /\ appended[n] = msg
  BY AppendProperties
<1>4. \A i \in 1..n : appended[i] \in Message
  BY <1>2, <1>3, ElementOfSeq
<1>5. \A i, j \in 1..n : i <= j => appended[i].timestamp <= appended[j].timestamp
  <2> SUFFICES ASSUME NEW i \in 1..n, NEW j \in 1..n, i <= j
               PROVE  appended[i].timestamp <= appended[j].timestamp
    OBVIOUS
  <2>1. CASE j \in 1..Len(history)
    BY <1>2, <1>3, <2>1 DEF Ordered
  <2>2. CASE j = n /\ i = n
    BY <1>3, <2>2 DEF Message
  <2>3. CASE j = n /\ i \in 1..Len(history)
    <3>1. history # <<>>
      BY <2>3, <1>2
    <3>2. history[Len(history)].timestamp <= msg.timestamp
      BY <3>1, <1>2, <1>3, <1>4, <2>3 DEF NewManipulationData, Message
    <3>3. history[i].timestamp <= history[Len(history)].timestamp
      BY <1>2, <2>3 DEF Ordered
    <3>4. /\ appended[i] = history[i]
          /\ appended[j] = msg
          /\ history[i].timestamp \in Nat
          /\ history[Len(history)].timestamp \in Nat
          /\ msg.timestamp \in Nat
      BY <1>2, <1>3, <1>4, <2>3 DEF Message
    <3> QED
      BY <3>2, <3>3, <3>4
  <2> QED
    BY <1>2, <2>1, <2>2, <2>3
<1>6. /\ pushed \in Seq(Message)
      /\ Len(pushed) = n - first + 1
      /\ \A i \in 1..(n - first + 1) : pushed[i] = appended[first + i - 1]
  <2>1. /\ first \in Int /\ n \in Int /\ first <= n
        /\ \A i \in first..n : appended[i] \in Message
    BY <1>2, <1>4
  <2>2. /\ SubSeq(appended, first, n) \in Seq(Message)
        /\ Len(SubSeq(appended, first, n)) = IF first <= n THEN n - first + 1 ELSE 0
        /\ \A i \in 1..(n - first + 1) :
             SubSeq(appended, first, n)[i] = appended[first + i - 1]
    <3> HIDE DEF appended, n
    <3> QED
      BY <2>1, SubSeqProperties
  <2> HIDE DEF appended, n, pushed
  <2> QED
    BY <1>1, <2>1, <2>2
<1>7. DOMAIN pushed = 1..(n - first + 1)
  BY <1>6, LenProperties
<1>8. \A i \in DOMAIN pushed : first + i - 1 \in 1..n /\ first <= first + i - 1
  BY <1>2, <1>7
<1>9. Ordered(pushed)
  <2> SUFFICES ASSUME NEW i \in DOMAIN pushed, NEW j \in DOMAIN pushed, i <= j
               PROVE  pushed[i].timestamp <= pushed[j].timestamp
    BY DEF Ordered
  <2>1. first + i - 1 <= first + j - 1
    BY <1>2, <1>7
  <2>2. pushed[i] = appended[first + i - 1] /\ pushed[j] = appended[first + j - 1]
    BY <1>6, <1>7
  <2> QED
    BY <1>5, <1>8, <2>1, <2>2
<1>10. Windowed(pushed)
  <2> SUFFICES ASSUME NEW i \in DOMAIN pushed, NEW j \in DOMAIN pushed
               PROVE  pushed[j].timestamp - pushed[i].timestamp <= HistoryLimit
    BY DEF Windowed
  <2>1. /\ pushed[i] = appended[first + i - 1]
        /\ pushed[j] = appended[first + j - 1]
    BY <1>6, <1>7
  <2>2. n \in 1..n /\ first \in 1..n
    BY <1>2
  <2>3. /\ appended[first].timestamp <= appended[first + i - 1].timestamp
        /\ appended[first + j - 1].timestamp <= appended[n].timestamp
    BY <1>5, <1>8, <2>2
  <2>4. /\ appended[first].timestamp \in Nat
        /\ appended[first + i - 1].timestamp \in Nat
        /\ appended[first + j - 1].timestamp \in Nat
        /\ msg.timestamp \in Nat
    BY <1>4, <1>8, <2>2 DEF Message
  <2>5. /\ msg.timestamp - appended[first].timestamp <= HistoryLimit
        /\ appended[n].timestamp = msg.timestamp
    BY <1>1, <1>3
  <2>6. appended[first + j - 1].timestamp - appended[first + i - 1].timestamp
          <= HistoryLimit
    <3> HIDE DEF appended, n, pushed
    <3> QED
      BY <2>3, <2>4, <2>5, HistoryLimitType
  <2> QED
    BY <2>1, <2>6
<1>11. ASSUME NEW i \in DOMAIN pushed
       PROVE  pushed[i] = msg \/ \E j \in DOMAIN history : pushed[i] = history[j]
  <2>1. pushed[i] = appended[first + i - 1]
    BY <1>6, <1>7
  <2>2. CASE first + i - 1 = n
    BY <1>3, <2>1, <2>2
  <2>3. CASE first + i - 1 # n
    <3>1. first + i - 1 \in 1..Len(history)
      BY <1>2, <1>8, <2>3
    <3>2. pushed[i] = history[first + i - 1]
      BY <1>3, <2>1, <3>1
    <3> QED
      BY <1>2, <3>1, <3>2
  <2> QED
    BY <2>2, <2>3
<1> QED
  BY <1>6, <1>9, <1>10, <1>11

\* The same for handle_message(), which drops what it refuses.
LEMMA RecordKeepsOrder ==
    ASSUME NEW history \in Seq(Message), NEW msg \in Message,
           Ordered(history), Windowed(history)
    PROVE  /\ Record(history, msg) \in Seq(Message)
           /\ Ordered(Record(history, msg))
           /\ Windowed(Record(history, msg))
           /\ \A i \in DOMAIN Record(history, msg) :
                \/ Record(history, msg)[i] = msg
                \/ \E j \in DOMAIN history : Record(history, msg)[i] = history[j]
<1>1. CASE NewManipulationData(history, msg.timestamp)
  BY <1>1, PushStateKeepsOrder DEF Record
<1>2. CASE ~NewManipulationData(history, msg.timestamp)
  BY <1>2 DEF Record
<1> QED
  BY <1>1, <1>2

\* The first message a history receives is all it holds.
LEMMA RecordFirst ==
    ASSUME NEW msg \in Message
    PROVE  Len(Record(<<>>, msg)) = 1
<1>1. <<>> \in Seq(Message) /\ Len(<<>>) = 0
  BY EmptySeq
<1>2. PICK first \in 1..(Len(<<>>) + 1) :
        PushState(<<>>, msg) = SubSeq(Append(<<>>, msg), first, Len(<<>>) + 1)
  BY <1>1, PushStateIsSuffix
<1>3. first = 1
  BY <1>1, <1>2
<1>4. PushState(<<>>, msg) = SubSeq(Append(<<>>, msg), 1, 1)
  BY <1>1, <1>2, <1>3
<1>5. /\ Append(<<>>, msg) \in Seq(Message)
      /\ Len(Append(<<>>, msg)) = 1
      /\ Append(<<>>, msg)[1] = msg
  BY <1>1, AppendProperties
<1>6. Len(SubSeq(Append(<<>>, msg), 1, 1)) = 1
  BY <1>5, SubSeqProperties
<1> QED
  BY <1>4, <1>6 DEF Record, NewManipulationData

\* The verdict is a truth value for whatever history.
LEMMA IsWorkingType ==
    ASSUME NEW history
    PROVE  IsWorking(history) \in BOOLEAN
BY DEF IsWorking

\* A judged history leaves a claw state that is one.
LEMMA ClawStateAfterType ==
    ASSUME NEW clawState \in BOOLEAN, NEW history
    PROVE  ClawStateAfter(clawState, history) \in BOOLEAN
<1>1. CASE NothingToJudge(history)
  BY <1>1 DEF ClawStateAfter
<1>2. CASE ~NothingToJudge(history)
  BY <1>2, IsWorkingType DEF ClawStateAfter
<1> QED
  BY <1>1, <1>2

-----------------------------------------------------------------------------
(* The greatest and the least of some of the messages of a history.            *)

\* Max and Min name the element that is greatest, and least, if there is one.
LEMMA MaxIs ==
    ASSUME NEW S, S \subseteq Int, NEW x \in S, \A y \in S : y <= x
    PROVE  Max(S) = x
<1>1. Max(S) \in S /\ \A y \in S : Max(S) >= y
  BY Zenon DEF Max
<1>2. Max(S) \in Int /\ x \in Int /\ Max(S) >= x /\ Max(S) <= x
  BY <1>1
<1> QED
  BY <1>2

LEMMA MinIs ==
    ASSUME NEW S, S \subseteq Int, NEW x \in S, \A y \in S : x <= y
    PROVE  Min(S) = x
<1>1. Min(S) \in S /\ \A y \in S : Min(S) <= y
  BY Zenon DEF Min
<1>2. Min(S) \in Int /\ x \in Int /\ Min(S) <= x /\ x <= Min(S)
  BY <1>1
<1> QED
  BY <1>2

\* Some of the messages of a history have a newest and an oldest among them.
LEMMA MaxOf ==
    ASSUME NEW n \in Nat, NEW S, S \subseteq 1..n, S # {}
    PROVE  Max(S) \in S /\ \A y \in S : y <= Max(S)
<1> DEFINE T == {n - y : y \in S}
<1>1. T \in SUBSET Nat /\ T # {}
  <2>1. \A y \in S : n - y \in Nat
    OBVIOUS
  <2>2. PICK y \in S : TRUE
    OBVIOUS
  <2>3. n - y \in T
    OBVIOUS
  <2> QED
    BY <2>1, <2>3
<1>2. PICK t \in T : \A u \in T : t <= u
  BY <1>1, LeastNatural
<1>3. PICK x \in S : t = n - x
  BY <1>2
<1>4. \A y \in S : y <= x
  <2> SUFFICES ASSUME NEW y \in S PROVE y <= x
    OBVIOUS
  <2>1. t <= n - y
    BY <1>2
  <2> QED
    BY <1>3, <2>1
<1>5. S \subseteq Int
  OBVIOUS
<1> HIDE DEF T
<1>6. Max(S) = x
  BY <1>4, <1>5, MaxIs
<1> QED
  BY <1>4, <1>6

LEMMA MinOf ==
    ASSUME NEW n \in Nat, NEW S, S \subseteq 1..n, S # {}
    PROVE  Min(S) \in S /\ \A y \in S : Min(S) <= y
<1>1. S \in SUBSET Nat /\ S \subseteq Int
  OBVIOUS
<1>2. PICK x \in S : \A y \in S : x <= y
  BY <1>1, LeastNatural
<1>3. Min(S) = x
  BY <1>1, <1>2, MinIs
<1> QED
  BY <1>2, <1>3

-----------------------------------------------------------------------------
(* Runs of one state.                                                          *)

\* A run holds the message it is taken around, is of one state and has no gaps.
LEMMA RunHolds ==
    ASSUME NEW history, NEW kept, kept \subseteq Int, NEW i \in kept
    PROVE  /\ i \in RunOf(history, kept, i)
           /\ RunOf(history, kept, i) \subseteq kept
           /\ \A j \in RunOf(history, kept, i) :
                history[j].moving = history[i].moving
<1>1. \A k \in kept : k \in i..i \/ k \in i..i => k = i
  OBVIOUS
<1>2. i \in RunOf(history, kept, i)
  BY <1>1, Zenon DEF RunOf
<1>3. \A j \in kept : j \in i..j \/ j \in j..i
  OBVIOUS
<1>4. ASSUME NEW j \in RunOf(history, kept, i)
      PROVE  history[j].moving = history[i].moving
  BY <1>3, Zenon DEF RunOf
<1> QED
  BY <1>2, <1>4 DEF RunOf

\* It is the same run around each of its messages.
LEMMA RunAround ==
    ASSUME NEW history, NEW kept, kept \subseteq Int, NEW i \in kept,
           NEW j \in RunOf(history, kept, i)
    PROVE  RunOf(history, kept, j) = RunOf(history, kept, i)
<1>1. j \in kept /\ i \in Int /\ j \in Int
  BY DEF RunOf
<1>2. \A k \in kept : k \in i..j \/ k \in j..i => history[k].moving = history[i].moving
  BY Zenon DEF RunOf
<1>3. history[j].moving = history[i].moving
  BY RunHolds
<1>4. ASSUME NEW l \in kept
      PROVE  l \in RunOf(history, kept, j) <=> l \in RunOf(history, kept, i)
  <2>1. ASSUME NEW k \in kept, k \in i..l \/ k \in l..i
        PROVE  k \in i..j \/ k \in j..i \/ k \in j..l \/ k \in l..j
    BY <1>1, <2>1
  <2>2. ASSUME NEW k \in kept, k \in j..l \/ k \in l..j
        PROVE  k \in i..j \/ k \in j..i \/ k \in i..l \/ k \in l..i
    BY <1>1, <2>2
  <2> DEFINE Near(x, y) == \A k \in kept : k \in x..y \/ k \in y..x =>
                               history[k].moving = history[x].moving
  <2>3. Near(i, l) <=> Near(j, l)
    BY <1>2, <1>3, <2>1, <2>2, Zenon
  <2> QED
    BY <2>3, Zenon DEF RunOf
<1> QED
  BY <1>4 DEF RunOf

\* Two neighbours among the messages kept are in one run if they are in one
\* state, and a run ends between them if they are not.
LEMMA RunNeighbours ==
    ASSUME NEW history, NEW kept, kept \subseteq Int, NEW i \in kept, NEW p \in kept,
           i < p, \A k \in kept : k <= i \/ p <= k
    PROVE  /\ history[i].moving = history[p].moving =>
                RunOf(history, kept, i) = RunOf(history, kept, p)
           /\ history[i].moving # history[p].moving =>
                /\ \A j \in RunOf(history, kept, i) : j <= i
                /\ \A j \in RunOf(history, kept, p) : p <= j
<1>1. ASSUME history[i].moving = history[p].moving
      PROVE  RunOf(history, kept, i) = RunOf(history, kept, p)
  <2>1. \A k \in kept : k \in p..i \/ k \in i..p => k = i \/ k = p
    OBVIOUS
  <2>2. i \in RunOf(history, kept, p)
    BY <1>1, <2>1, Zenon DEF RunOf
  <2>3. \A q \in kept : \A j \in RunOf(history, kept, q) :
          RunOf(history, kept, j) = RunOf(history, kept, q)
    BY RunAround
  <2> QED
    BY <2>2, <2>3
<1>2. ASSUME history[i].moving # history[p].moving, NEW j \in RunOf(history, kept, i)
      PROVE  j <= i
  <2>1. j \in kept /\ (p \in i..j => history[p].moving = history[i].moving)
    BY Zenon DEF RunOf
  <2>2. p \notin i..j
    BY <1>2, <2>1
  <2> QED
    BY <2>1, <2>2
<1>3. ASSUME history[i].moving # history[p].moving, NEW j \in RunOf(history, kept, p)
      PROVE  p <= j
  <2>1. j \in kept /\ (i \in j..p => history[i].moving = history[p].moving)
    BY Zenon DEF RunOf
  <2>2. i \notin j..p
    BY <1>3, <2>1
  <2> QED
    BY <2>1, <2>2
<1> QED
  BY <1>1, <1>2, <1>3

-----------------------------------------------------------------------------
(* The scan of step 5.                                                         *)

ScanStates == [state : Movings, start : Nat, done : BOOLEAN]

Newest(history, kept) ==
    [state |-> history[Max(kept)].moving, start |-> 0, done |-> FALSE]

\* The scan moves among states of a scan.
LEMMA ScanStepType ==
    ASSUME NEW msg \in Message, NEW scan \in ScanStates
    PROVE  ScanStep(msg, scan) \in ScanStates
<1>1. CASE scan.done \/ msg.moving = scan.state
  BY <1>1 DEF ScanStep, ScanStates, Message
<1>2. CASE ~(scan.done \/ msg.moving = scan.state)
  BY <1>2 DEF ScanStep, ScanStates, Message
<1> QED
  BY <1>1, <1>2

\* The scan is a function of the number of messages passed.
LEMMA ScanForm ==
    ASSUME NEW history \in Seq(Message),
           NEW kept, kept \subseteq 1..Len(history), kept # {}
    PROVE  \E scan :
             /\ Scan(history, kept) = scan[Len(history)]
             /\ scan[0] = Newest(history, kept)
             /\ \A k \in 1..Len(history) :
                  scan[k] = IF Len(history) + 1 - k \in kept
                            THEN ScanStep(history[Len(history) + 1 - k], scan[k - 1])
                            ELSE scan[k - 1]
<1> DEFINE n == Len(history)
           first == Newest(history, kept)
           Turn(x, k) == IF n + 1 - k \in kept THEN ScanStep(history[n + 1 - k], x) ELSE x
           Is(f) == f = [k \in 0..n |-> IF k = 0 THEN first ELSE Turn(f[k - 1], k)]
           turn == [k \in Nat |-> [x \in ScanStates |-> Turn(x, k)]]
<1>1. n \in Nat /\ \A i \in 1..n : history[i] \in Message
  BY ElementOfSeq
<1>2. first \in ScanStates
  <2>1. Max(kept) \in 1..n
    BY <1>1, MaxOf
  <2> QED
    BY <1>1, <2>1 DEF ScanStates, Newest, Message
<1>3. ASSUME NEW x \in ScanStates, NEW k \in Nat
      PROVE  Turn(x, k) \in ScanStates
  <2>1. CASE n + 1 - k \in kept
    BY <1>1, <2>1, ScanStepType
  <2> QED
    BY <2>1
<1> HIDE DEF first, Turn
<1>4. turn \in [Nat -> [ScanStates -> ScanStates]]
  BY <1>3
<1>5. PICK f \in [0..n -> ScanStates] : FollowsUpto(f, n, first, turn)
  <2> HIDE DEF turn, n
  <2> QED
    BY <1>1, <1>2, <1>4, RecursionUpto, Zenon
<1>6. Is(f)
  <2>1. ASSUME NEW k \in 0..n
        PROVE  f[k] = IF k = 0 THEN first ELSE Turn(f[k - 1], k)
    <3>1. CASE k = 0
      BY <1>5, <3>1 DEF FollowsUpto
    <3>2. CASE k # 0
      <4>1. k \in Nat /\ k - 1 \in 0..n /\ f[k - 1] \in ScanStates
        BY <3>2
      <4>2. f[k] = turn[k][f[k - 1]]
        BY <1>5, <3>2 DEF FollowsUpto
      <4> QED
        BY <3>2, <4>1, <4>2
    <3> QED
      BY <3>1, <3>2
  <2> QED
    BY <1>5, <2>1
<1> DEFINE scan == CHOOSE e : Is(e)
<1>7. Is(scan)
  <2> HIDE DEF Is
  <2> QED
    BY <1>6
<1>8. Scan(history, kept) = scan[n]
  BY DEF Scan, Newest, first, Turn
<1> HIDE DEF scan
<1>9. scan[0] = first /\ \A k \in 1..n : scan[k] = Turn(scan[k - 1], k)
  BY <1>1, <1>7
<1> QED
  BY <1>8, <1>9 DEF first, Turn

\* A run that settles the verdict and has none newer that does.
Decides(history, kept, run) ==
    /\ run \in Runs(history, kept)
    /\ Settles(history, kept, run)
    /\ \A other \in Runs(history, kept) :
         Settles(history, kept, other) => Max(other) <= Max(run)

\* What the scan knows once it has passed message p and all newer ones: the
\* state and the start of the run p is in, no newer run having settled the
\* verdict, or the state of the run that has.
Reached(history, kept, p, scan) ==
    LET run == RunOf(history, kept, p)
    IN  \/ /\ ~scan.done
           /\ scan.state = history[p].moving
           /\ scan.start = IF p = Max(run) /\ p # Max(kept)
                           THEN 0 ELSE MeasuredFrom(history, kept, run)
           /\ \A other \in Runs(history, kept) :
                Settles(history, kept, other) => Max(other) <= Max(run)
        \/ /\ scan.done
           /\ \E settling : /\ Decides(history, kept, settling)
                            /\ scan.state = history[Max(settling)].moving

\* Runs have a newest and an oldest message, and are known by any of theirs.
LEMMA RunBounds ==
    ASSUME NEW history, NEW n \in Nat, NEW kept, kept \subseteq 1..n,
           NEW run \in Runs(history, kept)
    PROVE  /\ run \subseteq kept
           /\ Max(run) \in run /\ Min(run) \in run
           /\ \A j \in run : /\ Min(run) <= j /\ j <= Max(run)
                             /\ run = RunOf(history, kept, j)
                             /\ history[j].moving = history[Max(run)].moving
<1>1. PICK i \in kept : run = RunOf(history, kept, i)
  BY DEF Runs
<1>2. kept \subseteq Int
  OBVIOUS
<1>3. /\ i \in run /\ run \subseteq kept
      /\ \A j \in run : history[j].moving = history[i].moving
  BY <1>1, <1>2, RunHolds
<1>4. \A j \in RunOf(history, kept, i) :
        RunOf(history, kept, j) = RunOf(history, kept, i)
  BY <1>2, RunAround
<1>5. run \subseteq 1..n /\ run # {}
  BY <1>3
<1>6. /\ Max(run) \in run /\ \A j \in run : j <= Max(run)
      /\ Min(run) \in run /\ \A j \in run : Min(run) <= j
  BY <1>5, MaxOf, MinOf
<1> QED
  BY <1>1, <1>3, <1>4, <1>6

\* Only one run decides.
LEMMA DecidesOnce ==
    ASSUME NEW history, NEW n \in Nat, NEW kept, kept \subseteq 1..n,
           NEW run, Decides(history, kept, run),
           NEW other, Decides(history, kept, other)
    PROVE  run = other
<1>1. run \in Runs(history, kept) /\ other \in Runs(history, kept)
  BY DEF Decides
<1>2. /\ Max(run) \in run /\ run \subseteq kept
      /\ Max(other) \in other /\ other \subseteq kept
      /\ \A j \in run : run = RunOf(history, kept, j)
      /\ \A j \in other : other = RunOf(history, kept, j)
  BY <1>1, RunBounds
<1>3. Max(run) <= Max(other) /\ Max(other) <= Max(run)
  BY <1>1 DEF Decides
<1>4. Max(run) \in Int /\ Max(other) \in Int
  <2>1. Max(run) \in 1..n /\ Max(other) \in 1..n
    BY <1>2, Zenon
  <2> QED
    BY <2>1
<1>5. Max(run) = Max(other)
  BY <1>3, <1>4
<1> QED
  BY <1>2, <1>5

\* The scan starts with the newest message.
LEMMA ScanBegins ==
    ASSUME NEW history \in Seq(Message), NEW kept,
           kept \subseteq 1..Len(history), kept # {}
    PROVE  Reached(history, kept, Max(kept),
                   ScanStep(history[Max(kept)], Newest(history, kept)))
<1> DEFINE n == Len(history)
           p == Max(kept)
           run == RunOf(history, kept, p)
           s == ScanStep(history[p], Newest(history, kept))
<1>1. n \in Nat /\ p \in kept /\ p \in 1..n /\ \A j \in kept : j <= p
  <2>1. n \in Nat
    OBVIOUS
  <2>2. Max(kept) \in kept /\ \A j \in kept : j <= Max(kept)
    <3> HIDE DEF n
    <3> QED
      BY <2>1, MaxOf DEF n
  <2> QED
    BY <2>1, <2>2
<1>2. kept \subseteq Int
  OBVIOUS
<1> HIDE DEF p
<1>3. run \in Runs(history, kept) /\ p \in run
  BY <1>1, <1>2, RunHolds DEF Runs
<1>4. Max(run) = p
  <2>1. run \subseteq kept
    BY <1>1, <1>2, RunHolds
  <2> HIDE DEF run
  <2> QED
    BY <1>1, <1>2, <1>3, <2>1, MaxIs
<1>5. \A other \in Runs(history, kept) : Max(other) <= p
  <2> SUFFICES ASSUME NEW other \in Runs(history, kept) PROVE Max(other) <= p
    OBVIOUS
  <2>1. Max(other) \in other /\ other \subseteq kept
    BY <1>1, RunBounds
  <2> QED
    BY <1>1, <2>1
<1>6. /\ s.done = FALSE /\ s.state = history[p].moving
      /\ s.start = history[p].timestamp
  BY DEF ScanStep, Newest, p
<1>7. MeasuredFrom(history, kept, run) = history[p].timestamp
  BY <1>4 DEF MeasuredFrom, p
<1> HIDE DEF run, s
<1> QED
  BY <1>4, <1>5, <1>6, <1>7 DEF Reached, p, run, s

\* Where a run is measured from, seen from a message of it and the one after:
\* zero before its second message, then the timestamp of that one.
LEMMA MeasuredWithin ==
    ASSUME NEW history \in Seq(Message), Ordered(history),
           NEW kept, kept \subseteq 1..Len(history),
           NEW run \in Runs(history, kept),
           NEW i \in run, NEW p \in run, i < p, \A k \in kept : k <= i \/ p <= k
    PROVE  IF p = Max(run) /\ p # Max(kept)
           THEN MeasuredFrom(history, kept, run) = history[i].timestamp
           ELSE MeasuredFrom(history, kept, run) = 0 => history[i].timestamp = 0
<1> DEFINE n == Len(history)
           top == Max(run)
           earlier == run \ {top}
<1>1. /\ n \in Nat /\ run \subseteq kept /\ top \in run
      /\ \A j \in run : j <= top
  <2>1. n \in Nat /\ kept \subseteq 1..n
    OBVIOUS
  <2> HIDE DEF n
  <2> QED
    BY <2>1, RunBounds
<1>2. run \subseteq 1..n /\ i \in 1..n /\ p \in 1..n /\ top \in 1..n
  <2>1. run \subseteq 1..n
    BY <1>1
  <2> QED
    BY <1>1, <2>1, Zenon
<1>3. \A j \in 1..n : history[j].timestamp \in Nat
  <2> SUFFICES ASSUME NEW j \in 1..n PROVE history[j].timestamp \in Nat
    OBVIOUS
  <2>1. history[j] \in Message
    BY ElementOfSeq
  <2> QED
    BY <2>1 DEF Message
<1> HIDE DEF top
<1>4. CASE p = top /\ p # Max(kept)
  <2>1. i \in earlier /\ earlier \subseteq Int
    BY <1>2, <1>4
  <2>2. \A j \in earlier : j <= i
    BY <1>1, <1>2, <1>4
  <2>3. Max(earlier) = i
    BY <2>1, <2>2, MaxIs
  <2>4. MeasuredFrom(history, kept, run) = history[i].timestamp
    BY <1>4, <2>1, <2>3 DEF MeasuredFrom, top
  <2> QED
    BY <1>4, <2>4 DEF top
<1>5. CASE ~(p = top /\ p # Max(kept))
  <2>1. \E x \in 1..n : p <= x /\ MeasuredFrom(history, kept, run) = history[x].timestamp
    <3>1. CASE top = Max(kept)
      <4>1. MeasuredFrom(history, kept, run) = history[top].timestamp
        BY <3>1 DEF MeasuredFrom, top
      <4> QED
        BY <1>1, <1>2, <4>1
    <3>2. CASE top # Max(kept)
      <4>1. p \in earlier /\ earlier \subseteq 1..n
        BY <1>2, <1>5, <3>2
      <4>2. Max(earlier) \in earlier /\ \A j \in earlier : j <= Max(earlier)
        <5> HIDE DEF earlier
        <5> QED
          BY <1>1, <4>1, MaxOf
      <4>3. MeasuredFrom(history, kept, run) = history[Max(earlier)].timestamp
        BY <3>2, <4>1 DEF MeasuredFrom, top
      <4> QED
        BY <4>1, <4>2, <4>3
    <3> QED
      BY <3>1, <3>2
  <2>2. PICK x \in 1..n :
          p <= x /\ MeasuredFrom(history, kept, run) = history[x].timestamp
    BY <2>1
  <2>3. DOMAIN history = 1..n
    BY LenProperties
  <2>4. history[i].timestamp <= history[x].timestamp
    BY <1>2, <2>2, <2>3 DEF Ordered
  <2>5. MeasuredFrom(history, kept, run) = 0 => history[i].timestamp = 0
    BY <1>2, <1>3, <2>2, <2>4
  <2> QED
    BY <1>5, <2>5 DEF top
<1> QED
  BY <1>4, <1>5

\* It goes on from a message to the one kept before it.
LEMMA ScanGoesOn ==
    ASSUME NEW history \in Seq(Message), Ordered(history),
           NEW kept, kept \subseteq 1..Len(history),
           NEW i \in kept, NEW p \in kept, i < p, \A k \in kept : k <= i \/ p <= k,
           NEW scan \in ScanStates, Reached(history, kept, p, scan)
    PROVE  Reached(history, kept, i, ScanStep(history[i], scan))
<1> DEFINE n == Len(history)
           Run(j) == RunOf(history, kept, j)
           Start(j) == IF j = Max(Run(j)) /\ j # Max(kept)
                       THEN 0 ELSE MeasuredFrom(history, kept, Run(j))
           after == ScanStep(history[i], scan)
           NoneNewer(run) == \A other \in Runs(history, kept) :
                               Settles(history, kept, other) => Max(other) <= Max(run)
<1>1. n \in Nat /\ kept \subseteq 1..n /\ kept \subseteq Int
  OBVIOUS
<1>2. /\ Run(i) \in Runs(history, kept) /\ i \in Run(i)
      /\ Run(p) \in Runs(history, kept) /\ p \in Run(p)
  BY <1>1, RunHolds DEF Runs
<1>3. /\ history[i].moving = history[p].moving => Run(i) = Run(p)
      /\ history[i].moving # history[p].moving =>
           (\A j \in Run(i) : j <= i) /\ (\A j \in Run(p) : p <= j)
  BY <1>1, RunNeighbours
<1>4. ASSUME NEW run \in Runs(history, kept)
      PROVE  /\ Max(run) \in run /\ Min(run) \in run /\ run \subseteq kept
             /\ \A j \in run : /\ Min(run) <= j /\ j <= Max(run)
                               /\ run = Run(j)
                               /\ history[j].moving = history[Max(run)].moving
  <2> HIDE DEF n
  <2> QED
    BY <1>1, RunBounds
<1>5. CASE scan.done
  <2>1. after = scan
    BY <1>5 DEF ScanStep
  <2>2. \E settling : Decides(history, kept, settling)
                      /\ scan.state = history[Max(settling)].moving
    BY <1>5 DEF Reached
  <2> HIDE DEF after
  <2> QED
    BY <1>5, <2>1, <2>2 DEF Reached, after
<1>6. CASE ~scan.done
  <2>1. scan.state = history[p].moving /\ scan.start = Start(p) /\ NoneNewer(Run(p))
    BY <1>6 DEF Reached
  <2>2. CASE history[i].moving = history[p].moving
    <3>1. /\ ~after.done /\ after.state = history[i].moving
          /\ after.start = IF scan.start = 0 THEN history[i].timestamp ELSE scan.start
      BY <1>6, <2>1, <2>2 DEF ScanStep, ScanStates
    <3>2. Run(i) = Run(p) /\ i \in Run(p)
      BY <1>2, <1>3, <2>2
    <3>3. p <= Max(Run(i)) /\ i # Max(Run(i))
      <4>1. p <= Max(Run(p))
        BY <1>2, <1>4
      <4>2. i \in Int /\ p \in Int /\ Max(Run(p)) \in Int
        BY <1>1, <1>2, <1>4
      <4> HIDE DEF Run
      <4> QED
        BY <3>2, <4>1, <4>2
    <3>4. IF p = Max(Run(p)) /\ p # Max(kept)
          THEN MeasuredFrom(history, kept, Run(p)) = history[i].timestamp
          ELSE MeasuredFrom(history, kept, Run(p)) = 0 => history[i].timestamp = 0
      <4> HIDE DEF Run
      <4> QED
        BY <1>2, <3>2, MeasuredWithin
    <3>5. after.start = MeasuredFrom(history, kept, Run(i))
      <4> HIDE DEF Run, after
      <4> QED
        BY <2>1, <3>1, <3>2, <3>4 DEF Start
    <3>6. after.start = Start(i) /\ NoneNewer(Run(i))
      <4> HIDE DEF Run, after
      <4> QED
        BY <2>1, <3>2, <3>3, <3>5 DEF Start
    <3> HIDE DEF after
    <3> QED
      BY <3>1, <3>6 DEF Reached, after
  <2>3. CASE history[i].moving # history[p].moving
    <3> DEFINE far == (scan.start - history[i].timestamp) \div MsPerSecond
                        >= InvalidSegmentDuration
               before == {j \in kept : j < Min(Run(p))}
    <3>1. Min(Run(p)) = p /\ Max(Run(i)) = i
      <4>1. Run(p) \subseteq Int /\ Run(i) \subseteq Int
        BY <1>1, <1>2, <1>4
      <4> HIDE DEF Run
      <4> QED
        BY <1>2, <1>3, <2>3, <4>1, MinIs, MaxIs
    <3>2. before # {} /\ Max(before) = i
      <4>1. i \in before /\ before \subseteq Int /\ \A j \in before : j <= i
        <5>1. before = {j \in kept : j < p}
          BY <3>1
        <5>2. i \in Int /\ p \in Int /\ \A j \in kept : j \in Int
          BY <1>1
        <5>3. ASSUME NEW j \in kept, j < p PROVE j <= i
          BY <5>2, <5>3
        <5> HIDE DEF before
        <5> QED
          BY <5>1, <5>2, <5>3
      <4> HIDE DEF before
      <4> QED
        BY <4>1, MaxIs
    <3>3. scan.start = MeasuredFrom(history, kept, Run(p))
      <4>1. CASE p = Max(Run(p)) /\ p # Max(kept)
        <5>1. Run(p) \ {p} = {}
          <6>1. Run(p) \subseteq Int /\ \A j \in Run(p) : j <= p /\ p <= j
            <7>1. \A j \in Run(p) : j <= Max(Run(p))
              BY <1>2, <1>4
            <7>2. Run(p) \subseteq kept
              BY <1>2, <1>4
            <7>3. \A j \in Run(p) : p <= j
              BY <1>3, <2>3
            <7> HIDE DEF Run
            <7> QED
              BY <1>1, <4>1, <7>1, <7>2, <7>3
          <6> HIDE DEF Run
          <6>2. \A j \in Run(p) : j = p
            BY <1>2, <6>1
          <6> QED
            BY <6>2
        <5> HIDE DEF Run
        <5>2. MeasuredFrom(history, kept, Run(p)) = 0
          BY <4>1, <5>1 DEF MeasuredFrom
        <5> QED
          BY <2>1, <4>1, <5>2 DEF Start
      <4>2. CASE ~(p = Max(Run(p)) /\ p # Max(kept))
        BY <2>1, <4>2 DEF Start
      <4> QED
        BY <4>1, <4>2
    <3>4. Settles(history, kept, Run(p)) <=> far
      <4> HIDE DEF Run
      <4> QED
        BY <3>2, <3>3 DEF Settles
    <3>5. CASE far
      <4>1. after.done /\ after.state = scan.state
        BY <1>6, <2>1, <2>3, <3>5 DEF ScanStep, ScanStates
      <4>2. history[p].moving = history[Max(Run(p))].moving
        BY <1>2, <1>4
      <4>3. Decides(history, kept, Run(p)) /\ after.state = history[Max(Run(p))].moving
        BY <1>2, <2>1, <3>4, <3>5, <4>1, <4>2 DEF Decides
      <4> HIDE DEF after, Run
      <4> QED
        BY <4>1, <4>3 DEF Reached, after
    <3>6. CASE ~far
      <4>1. /\ ~after.done /\ after.state = history[i].moving /\ after.start = 0
        BY <1>6, <2>1, <2>3, <3>6 DEF ScanStep
      <4>2. i # Max(kept)
        <5>1. Max(kept) \in kept /\ \A k \in kept : k <= Max(kept)
          <6> HIDE DEF n
          <6> QED
            BY <1>1, MaxOf
        <5>2. p <= Max(kept) /\ Max(kept) \in Int /\ p \in Int /\ i \in Int
          BY <1>1, <5>1
        <5> QED
          BY <5>2
      <4>3. after.start = Start(i)
        <5> HIDE DEF Run, after
        <5> QED
          BY <3>1, <4>1, <4>2 DEF Start
      <4>4. NoneNewer(Run(i))
        <5> SUFFICES ASSUME NEW other \in Runs(history, kept),
                            Settles(history, kept, other)
                     PROVE  Max(other) <= i
          BY <3>1
        <5>1. Max(other) \in kept /\ other = Run(Max(other))
          BY <1>4
        <5>2. Max(other) <= Max(Run(p))
          BY <2>1
        <5>3. CASE Max(other) \in Run(p)
          <6>1. Run(Max(other)) = Run(p)
            BY <1>2, <1>4, <5>3
          <6> QED
            BY <3>4, <3>6, <5>1, <6>1
        <5>4. CASE Max(other) \notin Run(p)
          <6>1. ASSUME Max(other) > i PROVE FALSE
            <7>1. p <= Max(other)
              <8>1. ~(Max(other) <= i)
                <9>1. Max(other) \in Int /\ i \in Int
                  BY <1>1, <5>1
                <9> QED
                  BY <6>1, <9>1
              <8> QED
                BY <5>1, <8>1
            <7> DEFINE m == Max(other)
            <7>2. m \in Run(p)
              <8>1. Max(Run(p)) \in Run(p)
                BY <1>2, <1>4
              <8>2. \A k \in kept : k \in p..Max(Run(p)) \/ k \in Max(Run(p))..p =>
                      history[k].moving = history[p].moving
                BY <8>1, Zenon DEF RunOf
              <8>3. \A k \in kept : k \in p..m \/ k \in m..p =>
                      k \in p..Max(Run(p))
                <9>1. m \in Int /\ p \in Int /\ Max(Run(p)) \in Int
                  BY <1>1, <1>2, <1>4, <5>1
                <9> HIDE DEF m, Run
                <9> QED
                  BY <1>1, <5>2, <7>1, <9>1 DEF m
              <8> HIDE DEF m
              <8> QED
                BY <5>1, <8>2, <8>3, Zenon DEF RunOf, m
            <7> QED
              BY <5>4, <7>2
          <6>2. Max(other) \in Int /\ i \in Int
            BY <1>1, <5>1
          <6> QED
            BY <6>1, <6>2
        <5> QED
          BY <5>3, <5>4
      <4> HIDE DEF after, Run
      <4> QED
        BY <4>1, <4>3, <4>4 DEF Reached, after, Run
    <3> QED
      BY <3>5, <3>6
  <2> QED
    BY <2>2, <2>3
<1> QED
  BY <1>5, <1>6

\* It ends with the state of the run that decides.
LEMMA ScanEnds ==
    ASSUME NEW history, NEW n \in Nat, NEW kept, kept \subseteq 1..n,
           NEW p \in kept, \A k \in kept : p <= k,
           NEW scan, Reached(history, kept, p, scan)
    PROVE  \E run : Decides(history, kept, run) /\ scan.state = history[Max(run)].moving
<1> DEFINE run == RunOf(history, kept, p)
<1>1. kept \subseteq Int
  OBVIOUS
<1>2. run \in Runs(history, kept) /\ p \in run
  BY <1>1, RunHolds DEF Runs
<1> HIDE DEF run
<1>3. /\ Min(run) \in run /\ Min(run) <= p /\ run \subseteq kept
      /\ history[p].moving = history[Max(run)].moving
  <2>1. ASSUME NEW r \in Runs(history, kept)
        PROVE  /\ r \subseteq kept
               /\ Max(r) \in r /\ Min(r) \in r
               /\ \A j \in r : /\ Min(r) <= j /\ j <= Max(r)
                               /\ r = RunOf(history, kept, j)
                               /\ history[j].moving = history[Max(r)].moving
    BY RunBounds
  <2> QED
    BY <1>2, <2>1
<1>4. {j \in kept : j < Min(run)} = {}
  <2>1. Min(run) \in Int /\ p \in Int
    BY <1>1, <1>3
  <2>2. ASSUME NEW k \in kept PROVE ~(k < Min(run))
    <3>1. k \in Int /\ p <= k
      BY <1>1
    <3> QED
      BY <1>3, <2>1, <3>1
  <2> QED
    BY <2>2
<1>5. Settles(history, kept, run)
  BY <1>4 DEF Settles
<1>6. CASE scan.done
  BY <1>6 DEF Reached
<1>7. CASE ~scan.done
  <2>1. Decides(history, kept, run) /\ scan.state = history[Max(run)].moving
    BY <1>2, <1>3, <1>5, <1>7 DEF Reached, Decides, run
  <2> QED
    BY <2>1
<1> QED
  BY <1>6, <1>7

\* The scan ends in the state of the run that decides.
LEMMA ScanDecides ==
    ASSUME NEW history \in Seq(Message), Ordered(history),
           NEW kept, kept \subseteq 1..Len(history), kept # {}
    PROVE  \E run : /\ Decides(history, kept, run)
                    /\ Scan(history, kept).state = history[Max(run)].moving
<1> DEFINE n == Len(history)
           Passed(k) == {j \in kept : n + 1 - k <= j}
<1>1. PICK scan :
        /\ Scan(history, kept) = scan[n]
        /\ scan[0] = Newest(history, kept)
        /\ \A k \in 1..n : scan[k] = IF n + 1 - k \in kept
                                     THEN ScanStep(history[n + 1 - k], scan[k - 1])
                                     ELSE scan[k - 1]
  BY ScanForm
<1> DEFINE T == {k \in 0..n :
                   /\ scan[k] \in ScanStates
                   /\ Passed(k) = {} => scan[k] = Newest(history, kept)
                   /\ Passed(k) # {} =>
                        \E p \in Passed(k) :
                          (\A j \in Passed(k) : p <= j) /\ Reached(history, kept, p, scan[k])}
<1>2. /\ n \in Nat /\ kept \subseteq 1..n /\ kept \subseteq Int
      /\ \A i \in 1..n : history[i] \in Message
      /\ \A j \in kept : j \in Int /\ 1 <= j /\ j <= n
  BY ElementOfSeq
<1>3. Max(kept) \in kept /\ \A j \in kept : j <= Max(kept)
  <2> HIDE DEF n
  <2> QED
    BY <1>2, MaxOf
<1>4. Newest(history, kept) \in ScanStates
  BY <1>2, <1>3 DEF ScanStates, Newest, Message
<1>5. 0 \in T
  <2>1. Passed(0) = {}
    <3> SUFFICES ASSUME NEW j \in kept, n + 1 - 0 <= j PROVE FALSE
      OBVIOUS
    <3> HIDE DEF n
    <3> QED
      BY <1>2
  <2> HIDE DEF Passed
  <2> QED
    BY <1>1, <1>2, <1>4, <2>1
<1>6. ASSUME NEW k \in 1..n, k - 1 \in T PROVE k \in T
  <2> DEFINE i == n + 1 - k
             s == scan[k - 1]
  <2>1. /\ k \in 0..n /\ i \in 1..n /\ i \in Int
        /\ s \in ScanStates
        /\ Passed(k) = IF i \in kept THEN Passed(k - 1) \cup {i} ELSE Passed(k - 1)
        /\ \A j \in Passed(k - 1) : i < j /\ j \in kept
        /\ \A j \in kept : j <= i \/ j \in Passed(k - 1)
    <3>1. k \in 0..n /\ i \in 1..n /\ i \in Int /\ s \in ScanStates
      BY <1>2, <1>6
    <3>2. n + 1 - (k - 1) = i + 1 /\ n + 1 - k = i
      BY <1>2
    <3> HIDE DEF n, i, s
    <3>3. \A j \in kept : /\ j \in Int
                          /\ j \in Passed(k - 1) <=> i + 1 <= j
                          /\ j \in Passed(k) <=> i <= j
      BY <1>2, <3>2
    <3>4. Passed(k) \subseteq kept /\ Passed(k - 1) \subseteq kept
      OBVIOUS
    <3> HIDE DEF Passed
    <3>5. ASSUME NEW j \in Passed(k - 1) PROVE i < j /\ j \in kept
      <4>1. j \in kept /\ i + 1 <= j /\ j \in Int
        BY <3>3, <3>4
      <4> QED
        BY <3>1, <4>1
    <3>6. \A j \in kept : j <= i \/ j \in Passed(k - 1)
      BY <3>1, <3>3
    <3>7. Passed(k) = IF i \in kept THEN Passed(k - 1) \cup {i} ELSE Passed(k - 1)
      <4>1. \A j \in kept : j \in Passed(k) <=> j \in Passed(k - 1) \/ j = i
        BY <3>1, <3>3
      <4> QED
        BY <3>4, <4>1
    <3> QED
      BY <3>1, <3>5, <3>6, <3>7
  <2>2. scan[k] = IF i \in kept THEN ScanStep(history[i], s) ELSE s
    BY <1>1
  <2>3. Passed(k - 1) = {} => s = Newest(history, kept)
    BY <1>6
  <2>4. Passed(k - 1) # {} =>
          \E p \in Passed(k - 1) :
            (\A j \in Passed(k - 1) : p <= j) /\ Reached(history, kept, p, s)
    BY <1>6
  <2> HIDE DEF Passed, i, s
  <2>5. CASE i \notin kept
    BY <2>1, <2>2, <2>3, <2>4, <2>5
  <2>6. CASE i \in kept
    <3>1. scan[k] = ScanStep(history[i], s) /\ i \in Passed(k)
      BY <2>1, <2>2, <2>6
    <3>2. scan[k] \in ScanStates
      BY <1>2, <2>1, <3>1, ScanStepType
    <3>3. ASSUME NEW j \in Passed(k) PROVE i <= j
      <4>1. j = i \/ j \in Passed(k - 1)
        BY <2>1, <2>6
      <4>2. j \in Passed(k - 1) => i < j /\ j \in Int
        BY <1>2, <2>1
      <4> QED
        BY <2>1, <4>1, <4>2
    <3>4. Reached(history, kept, i, scan[k])
      <4>1. CASE Passed(k - 1) = {}
        <5>1. i = Max(kept)
          BY <1>2, <2>1, <2>6, <4>1, MaxIs
        <5> QED
          BY <2>3, <3>1, <4>1, <5>1, ScanBegins
      <4>2. CASE Passed(k - 1) # {}
        <5>1. PICK p \in Passed(k - 1) :
                (\A j \in Passed(k - 1) : p <= j) /\ Reached(history, kept, p, s)
          BY <2>4, <4>2
        <5>2. p \in kept /\ i < p /\ \A j \in kept : j <= i \/ p <= j
          BY <2>1, <5>1
        <5> QED
          BY <2>1, <2>6, <3>1, <5>1, <5>2, ScanGoesOn
      <4> QED
        BY <4>1, <4>2
    <3> QED
      BY <2>1, <3>1, <3>2, <3>3, <3>4
  <2> QED
    BY <2>5, <2>6
<1>7. n \in T
  <2>1. n \in 0..n
    BY <1>2
  <2> HIDE DEF T, n
  <2> QED
    BY <1>2, <1>5, <1>6, <2>1, InductionUpto
<1>8. Passed(n) = kept
  <2>1. n + 1 - n = 1
    BY <1>2
  <2> HIDE DEF n
  <2> QED
    BY <1>2, <2>1
<1> HIDE DEF Passed
<1>9. PICK p \in kept : (\A j \in kept : p <= j) /\ Reached(history, kept, p, scan[n])
  BY <1>7, <1>8
<1>10. \E run : /\ Decides(history, kept, run)
                 /\ scan[n].state = history[Max(run)].moving
  <2> DEFINE last == scan[n]
  <2>1. Reached(history, kept, p, last) /\ \A j \in kept : p <= j
    BY <1>9
  <2> HIDE DEF n, last
  <2>2. \E run : Decides(history, kept, run) /\ last.state = history[Max(run)].moving
    BY <1>2, <2>1, ScanEnds
  <2> QED
    BY <2>2 DEF last
<1> QED
  BY <1>1, <1>10

\* The messages kept are some of the history.
LEMMA FilteredType ==
    ASSUME NEW history \in Seq(Message)
    PROVE  Filtered(history) \subseteq 1..Len(history)
<1>1. Classified(history) \subseteq 1..Len(history)
  BY LenProperties DEF Classified
<1>2. \A segment \in Segments(history) : segment \subseteq Classified(history)
  BY DEF Segments, Runs, RunOf
<1> QED
  BY <1>1, <1>2 DEF Filtered, FilteredSegments

\* is_working() computes the reference: on every history in the order of time
\* that leaves something to judge, the scan with its sentinel and its early
\* return ends in the state of the newest run that settles the verdict.
THEOREM ScanIsReference ==
    ASSUME NEW history \in Seq(Message), Ordered(history), ~NothingToJudge(history)
    PROVE  IsWorking(history) = ReferenceVerdict(history)
<1> DEFINE kept == Filtered(history)
<1>1. kept \subseteq 1..Len(history) /\ kept # {} /\ Len(history) \in Nat
  BY FilteredType DEF NothingToJudge
<1> HIDE DEF kept
<1>2. PICK run : /\ Decides(history, kept, run)
                 /\ Scan(history, kept).state = history[Max(run)].moving
  BY <1>1, ScanDecides
<1>3. IsWorking(history) <=> history[Max(run)].moving = WORKING
  BY <1>2 DEF IsWorking, kept
<1>4. ReferenceVerdict(history) <=>
        \E other : Decides(history, kept, other) /\ history[Max(other)].moving = WORKING
  BY DEF ReferenceVerdict, Decides, kept
<1>5. \A other : Decides(history, kept, other) => other = run
  BY <1>1, <1>2, DecidesOnce
<1>6. ReferenceVerdict(history) <=> history[Max(run)].moving = WORKING
  BY <1>2, <1>4, <1>5
<1>7. ReferenceVerdict(history) \in BOOLEAN /\ IsWorking(history) \in BOOLEAN
  BY IsWorkingType DEF ReferenceVerdict
<1> QED
  BY <1>3, <1>6, <1>7

\* Nothing to judge is nothing in a state, and gives no verdict.
LEMMA NothingIsReference ==
    ASSUME NEW history \in Seq(Message), NothingToJudge(history)
    PROVE  /\ ReferenceVerdict(history) = FALSE
           /\ \A i \in DOMAIN history : history[i].moving \notin ClawStates
<1>1. Filtered(history) = {}
  BY DEF NothingToJudge
<1>2. ReferenceVerdict(history) = FALSE
  BY <1>1 DEF ReferenceVerdict, Runs
<1>3. ASSUME NEW i \in DOMAIN history, history[i].moving \in ClawStates
      PROVE  FALSE
  <2> DEFINE kept == Classified(history)
  <2>1. i \in kept
    BY <1>3 DEF Classified
  <2>2. kept \subseteq 1..Len(history) /\ Len(history) \in Nat /\ kept \subseteq Int
    BY LenProperties DEF Classified
  <2> HIDE DEF kept
  <2>3. Max(kept) \in kept
    BY <2>1, <2>2, MaxOf
  <2>4. /\ RunOf(history, kept, Max(kept)) \in Segments(history)
        /\ Max(kept) \in RunOf(history, kept, Max(kept))
    BY <2>2, <2>3, RunHolds DEF Segments, Runs, kept
  <2>5. Max(kept) \in Filtered(history)
    BY <2>4 DEF Filtered, FilteredSegments, kept
  <2> QED
    BY <1>1, <2>5
<1> QED
  BY <1>2, <1>3

\* The run that decides gives the reference its state.
LEMMA DecidesIsReference ==
    ASSUME NEW history \in Seq(Message),
           NEW run, Decides(history, Filtered(history), run)
    PROVE  ReferenceVerdict(history) = (history[Max(run)].moving = WORKING)
<1> DEFINE kept == Filtered(history)
<1>1. kept \subseteq 1..Len(history) /\ Len(history) \in Nat
  BY FilteredType
<1> HIDE DEF kept
<1>2. Decides(history, kept, run)
  BY DEF kept
<1>3. ReferenceVerdict(history) <=>
        \E other : Decides(history, kept, other) /\ history[Max(other)].moving = WORKING
  BY DEF ReferenceVerdict, Decides, kept
<1>4. \A other : Decides(history, kept, other) => other = run
  BY <1>1, <1>2, DecidesOnce
<1>5. ReferenceVerdict(history) <=> history[Max(run)].moving = WORKING
  BY <1>2, <1>3, <1>4
<1>6. ReferenceVerdict(history) \in BOOLEAN
  BY DEF ReferenceVerdict
<1> QED
  BY <1>5, <1>6

-----------------------------------------------------------------------------
(* Histories too short for a segment of the least valid length.                *)

Short(history) ==
    \A i, j \in DOMAIN history :
      history[j].timestamp - history[i].timestamp < SegmentLimit

\* A history of updates only, that has one.
Updates(history) ==
    /\ history \in Seq(Message) /\ history # <<>>
    /\ \A i \in DOMAIN history : history[i].moving \in ClawStates

\* Of a short history the first and the last segment stay and no other.
LEMMA ShortFiltered ==
    ASSUME NEW history, Updates(history), Short(history)
    PROVE  Filtered(history) = RunOf(history, 1..Len(history), 1)
                                 \cup RunOf(history, 1..Len(history), Len(history))
<1> DEFINE n == Len(history)
           all == 1..n
<1>1. /\ n \in Nat \ {0} /\ DOMAIN history = all
      /\ 1 \in all /\ n \in all /\ all \subseteq Int
      /\ \A i \in all : 1 <= i /\ i <= n
  <2>1. history \in Seq(Message) /\ history # <<>>
    BY DEF Updates
  <2> QED
    BY <2>1, EmptySeq, LenProperties
<1>2. Classified(history) = all
  BY <1>1 DEF Classified, Updates
<1> HIDE DEF n, all
<1>3. Min(Classified(history)) = 1 /\ Max(Classified(history)) = n
  BY <1>1, <1>2, MinIs, MaxIs
<1>4. ASSUME NEW segment \in Segments(history)
      PROVE  ~ValidSegment(history, segment)
  <2>1. segment \in Runs(history, all)
    BY <1>2 DEF Segments
  <2>2. Max(segment) \in all /\ Min(segment) \in all
    <3>1. all \subseteq 1..n /\ n \in Nat
      BY <1>1 DEF all
    <3>2. Max(segment) \in segment /\ Min(segment) \in segment /\ segment \subseteq all
      BY <2>1, <3>1, RunBounds
    <3> QED
      BY <3>2
  <2>3. /\ history[Max(segment)].timestamp \in Nat /\ history[Min(segment)].timestamp \in Nat
        /\ history[Max(segment)].timestamp - history[Min(segment)].timestamp < SegmentLimit
    <3>1. \A i \in all : history[i] \in Message
      BY <1>1, ElementOfSeq DEF Updates, all, n
    <3> QED
      BY <1>1, <2>2, <3>1 DEF Short, Message
  <2>4. SegmentLimit \in Nat
    BY DurationAssumption DEF SegmentLimit
  <2> QED
    BY <2>3, <2>4 DEF ValidSegment
<1>5. FilteredSegments(history) =
        {segment \in Runs(history, all) : 1 \in segment \/ n \in segment}
  BY <1>2, <1>3, <1>4 DEF FilteredSegments, Segments
<1>6. ASSUME NEW i \in all
      PROVE  /\ RunOf(history, all, i) \in Runs(history, all)
             /\ i \in RunOf(history, all, i)
             /\ \A segment \in Runs(history, all) :
                  i \in segment => segment = RunOf(history, all, i)
  <2>1. ASSUME NEW q \in all, NEW j \in RunOf(history, all, q)
        PROVE  RunOf(history, all, j) = RunOf(history, all, q)
    BY <1>1, RunAround
  <2> QED
    BY <1>1, <2>1, RunHolds DEF Runs
<1>7. FilteredSegments(history) = {RunOf(history, all, 1), RunOf(history, all, n)}
  BY <1>1, <1>5, <1>6
<1> QED
  BY <1>7 DEF Filtered, n, all

\* If it ends in the state it began with, that state is the verdict.
LEMMA StickySame ==
    ASSUME NEW history, Updates(history), Short(history),
           history[Len(history)].moving = history[1].moving
    PROVE  ReferenceVerdict(history) = (history[1].moving = WORKING)
<1> DEFINE n == Len(history)
           all == 1..n
           kept == Filtered(history)
           run == RunOf(history, kept, 1)
<1>1. n \in Nat \ {0} /\ history \in Seq(Message)
  BY EmptySeq, LenProperties DEF Updates
<1>2. 1 \in all /\ n \in all /\ all \subseteq Int
  BY <1>1
<1>3. kept = RunOf(history, all, 1) \cup RunOf(history, all, n)
  BY ShortFiltered
<1>4. /\ 1 \in kept /\ kept \subseteq 1..n /\ kept \subseteq Int
      /\ \A j \in kept : history[j].moving = history[1].moving
  <2> HIDE DEF all, kept, n
  <2>1. /\ 1 \in RunOf(history, all, 1)
        /\ RunOf(history, all, 1) \subseteq all /\ RunOf(history, all, n) \subseteq all
        /\ \A j \in RunOf(history, all, 1) : history[j].moving = history[1].moving
        /\ \A j \in RunOf(history, all, n) : history[j].moving = history[n].moving
    BY <1>2, RunHolds
  <2>2. history[n].moving = history[1].moving
    BY DEF n
  <2> QED
    BY <1>2, <1>3, <2>1, <2>2 DEF all
<1> HIDE DEF kept, n
<1>5. \A i \in kept : RunOf(history, kept, i) = kept
  BY <1>4 DEF RunOf
<1>6. Runs(history, kept) = {kept} /\ kept \in Runs(history, kept)
  BY <1>4, <1>5 DEF Runs
<1>7. Min(kept) = 1 /\ Max(kept) \in kept
  <2>1. \A j \in kept : 1 <= j
    BY <1>4
  <2> QED
    BY <1>1, <1>4, <2>1, MinIs, MaxOf
<1>8. {j \in kept : j < Min(kept)} = {}
  <2>1. \A j \in kept : ~(j < 1)
    BY <1>4
  <2> QED
    BY <1>7, <2>1
<1>9. Settles(history, kept, kept)
  BY <1>8 DEF Settles
<1>10. Max(kept) <= Max(kept)
  <2>1. Max(kept) \in Int
    BY <1>4, <1>7
  <2> QED
    BY <2>1
<1>11. Decides(history, kept, kept)
  BY <1>6, <1>9, <1>10 DEF Decides
<1>12. history[Max(kept)].moving = history[1].moving
  BY <1>4, <1>7
<1>13. ReferenceVerdict(history) = (history[Max(kept)].moving = WORKING)
  BY <1>1, <1>11, DecidesIsReference DEF kept
<1> QED
  BY <1>12, <1>13

\* If it ends in another state, the verdict is the state it ends in once the
\* newest message came long enough after the end of the first segment, and the
\* state it began with until then.
LEMMA StickySplit ==
    ASSUME NEW history, Updates(history), Short(history),
           history[Len(history)].moving # history[1].moving,
           NEW end \in 1..Len(history), end + 1 \in 1..Len(history),
           history[end + 1].moving # history[1].moving,
           \A j \in 1..end : history[j].moving = history[1].moving
    PROVE  ReferenceVerdict(history) =
             IF (history[Len(history)].timestamp - history[end].timestamp)
                  \div MsPerSecond >= InvalidSegmentDuration
             THEN history[Len(history)].moving = WORKING
             ELSE history[1].moving = WORKING
<1> DEFINE n == Len(history)
           all == 1..n
           first == RunOf(history, all, 1)
           last == RunOf(history, all, n)
           kept == Filtered(history)
           far == (history[n].timestamp - history[end].timestamp)
                    \div MsPerSecond >= InvalidSegmentDuration
<1>1. /\ n \in Nat \ {0} /\ history \in Seq(Message)
      /\ 1 \in all /\ n \in all /\ all \subseteq Int /\ end \in all /\ end + 1 \in all
      /\ end \in Nat \ {0} /\ end < n
  <2>1. history \in Seq(Message) /\ history # <<>>
    BY DEF Updates
  <2> QED
    BY <2>1, EmptySeq, LenProperties
<1>2. kept = first \cup last
  BY ShortFiltered
<1>3. history[n].moving # history[1].moving
  OBVIOUS
<1> HIDE DEF n
<1>4. first = 1..end
  <2>1. ASSUME NEW j \in 1..end PROVE j \in first
    <3>1. j \in all /\ \A k \in all : k \in 1..j \/ k \in j..1 => k \in 1..end
      BY <1>1, <2>1
    <3> HIDE DEF all
    <3> QED
      BY <3>1 DEF RunOf
  <2>2. ASSUME NEW j \in first PROVE j \in 1..end
    <3>1. j \in all /\ (end + 1 \in 1..j => history[end + 1].moving = history[1].moving)
      BY <1>1, Zenon DEF RunOf
    <3>2. j \in Int /\ 1 <= j /\ end + 1 \notin 1..j
      BY <1>1, <3>1
    <3> QED
      BY <1>1, <3>2
  <2> QED
    BY <2>1, <2>2
<1>5. /\ n \in last /\ last \subseteq all
      /\ \A j \in last : history[j].moving = history[n].moving
  BY <1>1, RunHolds
<1>6. \A j \in last : end < j /\ j <= n /\ j \in Int
  <2> SUFFICES ASSUME NEW j \in last PROVE end < j /\ j <= n /\ j \in Int
    OBVIOUS
  <2>1. j \in all /\ history[j].moving # history[1].moving
    BY <1>3, <1>5
  <2>2. j \notin 1..end
    BY <2>1
  <2> HIDE DEF last
  <2> QED
    BY <1>1, <2>1, <2>2
<1>7. \A j, k \in all : j \in last /\ j <= k => k \in last
  <2> SUFFICES ASSUME NEW j \in all, NEW k \in all, j \in last, j <= k PROVE k \in last
    OBVIOUS
  <2>1. \A l \in all : l \in n..j \/ l \in j..n => history[l].moving = history[n].moving
    BY Zenon DEF RunOf
  <2>2. \A l \in all : l \in n..k \/ l \in k..n => l \in n..j \/ l \in j..n
    BY <1>1
  <2> HIDE DEF all
  <2> QED
    BY <2>1, <2>2, Zenon DEF RunOf
<1> HIDE DEF first, last, kept, all
<1>8. /\ kept \subseteq 1..n /\ kept \subseteq Int
      /\ \A j \in kept : j \in first \/ j \in last
      /\ 1 \in kept /\ n \in kept
      /\ 1 \in first /\ end \in first /\ end \in kept
  BY <1>1, <1>2, <1>4, <1>5 DEF all
<1>9. RunOf(history, kept, 1) = first /\ RunOf(history, kept, n) = last
  <2>1. ASSUME NEW j \in first PROVE j \in RunOf(history, kept, 1)
    <3>1. j \in kept /\ \A k \in kept : k \in 1..j \/ k \in j..1 => k \in 1..end
      BY <1>1, <1>2, <1>4, <2>1
    <3> QED
      BY <3>1 DEF RunOf
  <2>2. ASSUME NEW j \in last PROVE j \in RunOf(history, kept, n)
    <3>1. j \in kept /\ j \in all /\ \A k \in kept : k \in all
      BY <1>2, <1>5, <1>8 DEF all
    <3>2. \A k \in kept : k \in n..j \/ k \in j..n => k \in last
      <4> SUFFICES ASSUME NEW k \in kept, k \in n..j \/ k \in j..n PROVE k \in last
        OBVIOUS
      <4>1. j <= k
        BY <1>1, <1>6
      <4> QED
        BY <1>7, <3>1, <4>1
    <3> QED
      BY <1>5, <3>1, <3>2 DEF RunOf
  <2>3. \A j \in RunOf(history, kept, 1) : j \in kept /\ history[j].moving = history[1].moving
    BY <1>8, RunHolds
  <2>4. \A j \in RunOf(history, kept, n) : j \in kept /\ history[j].moving = history[n].moving
    BY <1>8, RunHolds
  <2>5. \A j \in first : history[j].moving = history[1].moving
    BY <1>4
  <2>6. RunOf(history, kept, 1) \subseteq first
    BY <1>3, <1>5, <1>8, <2>3
  <2>7. RunOf(history, kept, n) \subseteq last
    BY <1>3, <1>8, <2>4, <2>5
  <2> QED
    BY <2>1, <2>2, <2>6, <2>7
<1>10. Runs(history, kept) = {first, last}
  <2>1. ASSUME NEW i \in kept PROVE RunOf(history, kept, i) \in {first, last}
    <3>1. i \in RunOf(history, kept, 1) \/ i \in RunOf(history, kept, n)
      BY <1>8, <1>9
    <3>2. ASSUME NEW q \in kept, NEW j \in RunOf(history, kept, q)
          PROVE  RunOf(history, kept, j) = RunOf(history, kept, q)
      BY <1>8, RunAround
    <3> QED
      BY <1>8, <1>9, <3>1, <3>2
  <2> QED
    BY <1>8, <1>9, <2>1 DEF Runs
<1>11. /\ Max(first) = end /\ Min(first) = 1 /\ Max(last) = n /\ Max(kept) = n
       /\ Min(last) \in last
  <2>1. first \subseteq Int /\ (\A j \in first : 1 <= j /\ j <= end) /\ 1 \in first /\ end \in first
    BY <1>1, <1>4
  <2>2. last \subseteq Int /\ (\A j \in last : j <= n) /\ last \subseteq 1..n /\ last # {}
    BY <1>5, <1>6 DEF all
  <2>3. \A j \in kept : j <= n
    BY <1>1, <1>8
  <2>4. Max(first) = end /\ Min(first) = 1
    BY <2>1, MaxIs, MinIs
  <2>5. Max(last) = n /\ Max(kept) = n
    BY <1>5, <1>8, <2>2, <2>3, MaxIs
  <2>6. Min(last) \in last
    BY <1>1, <2>2, MinOf
  <2> QED
    BY <2>4, <2>5, <2>6
<1>12. Settles(history, kept, first)
  <2>1. ASSUME NEW j \in kept PROVE ~(j < 1)
    <3>1. j \in 1..n
      BY <1>8
    <3> QED
      BY <3>1
  <2> QED
    BY <1>11, <2>1 DEF Settles
<1>13. Settles(history, kept, last) <=> far
  <2> DEFINE before == {j \in kept : j < Min(last)}
  <2>1. before = first
    <3>1. ASSUME NEW j \in first PROVE j \in kept /\ j < Min(last)
      BY <1>1, <1>2, <1>4, <1>6, <1>11
    <3>2. ASSUME NEW j \in kept, j < Min(last) PROVE j \in first
      <4>1. \A m \in last : Min(last) <= m
        <5>1. last \subseteq 1..n /\ last # {}
          BY <1>5 DEF all
        <5> QED
          BY <1>1, <5>1, MinOf
      <4>2. j \in Int /\ Min(last) \in Int
        BY <1>6, <1>8, <1>11
      <4>3. j \notin last
        BY <3>2, <4>1, <4>2
      <4> QED
        BY <1>8, <4>3
    <3> QED
      BY <3>1, <3>2, <1>2
  <2>2. MeasuredFrom(history, kept, last) = history[n].timestamp
    BY <1>11 DEF MeasuredFrom
  <2> HIDE DEF before
  <2>3. before # {} /\ Max(before) = end
    BY <1>8, <1>11, <2>1
  <2> QED
    BY <2>2, <2>3 DEF Settles, before
<1>14. CASE far
  <2>1. Decides(history, kept, last)
    BY <1>1, <1>10, <1>11, <1>13, <1>14 DEF Decides
  <2>2. ReferenceVerdict(history) = (history[n].moving = WORKING)
    BY <1>1, <1>11, <2>1, DecidesIsReference DEF kept
  <2> QED
    BY <1>14, <2>2 DEF n
<1>15. CASE ~far
  <2>1. Decides(history, kept, first)
    BY <1>1, <1>10, <1>11, <1>12, <1>13, <1>15 DEF Decides
  <2>2. ReferenceVerdict(history) = (history[end].moving = WORKING)
    BY <1>1, <1>11, <2>1, DecidesIsReference DEF kept
  <2>3. history[end].moving = history[1].moving
    BY <1>1
  <2> QED
    BY <1>15, <2>2, <2>3 DEF n
<1> QED
  BY <1>14, <1>15

\* A message that is recorded is the newest of the history.
LEMMA RecordLast ==
    ASSUME NEW history \in Seq(Message), NEW msg \in Message
    PROVE  \/ Record(history, msg) = history
           \/ /\ NewManipulationData(history, msg.timestamp)
              /\ Record(history, msg) # <<>>
              /\ Len(Record(history, msg)) \in DOMAIN Record(history, msg)
              /\ Record(history, msg)[Len(Record(history, msg))] = msg
<1> SUFFICES ASSUME NewManipulationData(history, msg.timestamp)
             PROVE  /\ PushState(history, msg) # <<>>
                    /\ Len(PushState(history, msg)) \in DOMAIN PushState(history, msg)
                    /\ PushState(history, msg)[Len(PushState(history, msg))] = msg
  BY DEF Record
<1> DEFINE appended == Append(history, msg)
           n == Len(history) + 1
           pushed == PushState(history, msg)
<1>1. PICK first \in 1..n : pushed = SubSeq(appended, first, n)
  BY PushStateIsSuffix
<1>2. /\ appended \in Seq(Message) /\ Len(appended) = n /\ appended[n] = msg
      /\ n \in Nat
  BY AppendProperties, LenProperties
<1>3. \A i \in first..n : appended[i] \in Message
  <2> SUFFICES ASSUME NEW i \in first..n
               PROVE  appended[i] \in Message
    OBVIOUS
  <2>1. i \in 1..Len(appended)
    BY <1>2
  <2> HIDE DEF appended
  <2> QED
    BY <1>2, <2>1, ElementOfSeq
<1>4. /\ first \in Int /\ n \in Int /\ first <= n
      /\ n - first + 1 \in 1..(n - first + 1) /\ first + (n - first + 1) - 1 = n
  BY <1>2
<1>5. /\ SubSeq(appended, first, n) \in Seq(Message)
      /\ Len(SubSeq(appended, first, n)) = n - first + 1
      /\ SubSeq(appended, first, n)[n - first + 1] = appended[first + (n - first + 1) - 1]
  <2> HIDE DEF appended, n
  <2> QED
    BY <1>3, <1>4, SubSeqProperties
<1> HIDE DEF appended, n, pushed
<1>6. /\ pushed \in Seq(Message) /\ Len(pushed) = n - first + 1
      /\ pushed[Len(pushed)] = msg
  BY <1>1, <1>2, <1>4, <1>5
<1>7. Len(pushed) \in DOMAIN pushed /\ pushed # <<>>
  BY <1>4, <1>6, EmptySeq, LenProperties
<1> QED
  BY <1>6, <1>7 DEF pushed

\* A message within the limit of the whole history is appended to it.
LEMMA RecordAppends ==
    ASSUME NEW history \in Seq(Message), NEW msg \in Message,
           NewManipulationData(history, msg.timestamp),
           \A i \in DOMAIN history : msg.timestamp - history[i].timestamp <= HistoryLimit
    PROVE  Record(history, msg) = Append(history, msg)
<1> DEFINE appended == Append(history, msg)
           n == Len(appended)
           fresh == {i \in 1..n : msg.timestamp - appended[i].timestamp <= HistoryLimit}
           first == CHOOSE i \in fresh : \A j \in fresh : i <= j
<1>1. /\ n = Len(history) + 1 /\ appended \in Seq(Message) /\ Len(history) \in Nat
      /\ appended[1] = IF history = <<>> THEN msg ELSE history[1]
      /\ history # <<>> => 1 \in DOMAIN history
  BY AppendProperties, EmptySeq, LenProperties
<1>2. 1 \in fresh
  <2>1. msg.timestamp - msg.timestamp <= HistoryLimit
    BY HistoryLimitType DEF Message
  <2> QED
    BY <1>1, <2>1
<1>3. first = 1
  <2>1. \A i \in fresh : i \in Int /\ 1 <= i
    BY <1>1
  <2> HIDE DEF fresh
  <2>2. \E i \in fresh : \A j \in fresh : i <= j
    BY <1>2, <2>1
  <2>3. first \in fresh /\ \A j \in fresh : first <= j
    BY <2>2, Zenon
  <2> HIDE DEF first
  <2> QED
    BY <1>2, <2>1, <2>3
<1>4. SubSeq(appended, 1, n) = appended
  <2> HIDE DEF appended
  <2> QED
    BY <1>1
<1>5. PushState(history, msg) = SubSeq(appended, first, n)
  BY DEF PushState
<1> QED
  BY <1>3, <1>4, <1>5 DEF Record

\* Quotients keep the order.
LEMMA DivMonotone ==
    ASSUME NEW a \in Int, NEW b \in Int, a <= b, NEW m \in Nat \ {0}
    PROVE  a \div m \in Int /\ b \div m \in Int /\ a \div m <= b \div m
<1> DEFINE q == a \div m
           r == b \div m
<1>1. /\ q \in Int /\ m * q <= a /\ a < m * q + m
      /\ r \in Int /\ m * r <= b /\ b < m * r + m
  OBVIOUS
<1> HIDE DEF q, r
<1>2. ASSUME r < q PROVE FALSE
  <2>1. r + 1 <= q /\ m \in Int /\ m >= 0
    BY <1>1, <1>2
  <2>2. m * (r + 1) <= m * q
    BY <1>1, <2>1
  <2>3. m * (r + 1) = m * r + m
    BY <1>1
  <2>4. m * q \in Int /\ m * r \in Int
    BY <1>1
  <2> QED
    BY <1>1, <2>2, <2>3, <2>4
<1> QED
  BY <1>1, <1>2 DEF q, r

\* A history that ends in another state than it began with has a first segment
\* that ends.
LEMMA FirstSegmentEnds ==
    ASSUME NEW history, Updates(history),
           history[Len(history)].moving # history[1].moving
    PROVE  \E end \in 1..Len(history) :
             /\ end + 1 \in 1..Len(history)
             /\ history[end + 1].moving # history[1].moving
             /\ \A j \in 1..end : history[j].moving = history[1].moving
<1> DEFINE n == Len(history)
           left == {i \in 1..n : history[i].moving # history[1].moving}
<1>1. n \in Nat \ {0} /\ n \in left
  <2>1. history \in Seq(Message) /\ history # <<>>
    BY DEF Updates
  <2> QED
    BY <2>1, EmptySeq, LenProperties
<1>2. left \in SUBSET Nat /\ left # {}
  BY <1>1
<1>3. PICK l \in left : \A j \in left : l <= j
  <2> HIDE DEF left
  <2> QED
    BY <1>2, LeastNatural
<1>4. l \in 1..n /\ l # 1 /\ history[l].moving # history[1].moving
  OBVIOUS
<1>5. l - 1 \in 1..n /\ (l - 1) + 1 = l
  BY <1>1, <1>4
<1>6. ASSUME NEW j \in 1..(l - 1) PROVE history[j].moving = history[1].moving
  <2>1. j \in 1..n /\ ~(l <= j)
    BY <1>1, <1>4
  <2>2. j \notin left
    <3> HIDE DEF left
    <3> QED
      BY <1>3, <2>1
  <2> QED
    BY <2>1, <2>2
<1> HIDE DEF left
<1> QED
  BY <1>4, <1>5, <1>6
=============================================================================
