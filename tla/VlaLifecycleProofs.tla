-------------------------- MODULE VlaLifecycleProofs --------------------------
(* Theorems about VlaLifecycle, for every directory of pictures, every clock   *)
(* and every scale of the durations: no thread uses an object that is not      *)
(* there, and the program does to its Terminator what Terminator allows.       *)
EXTENDS VlaLifecycle, TerminatorProofs

Owned(o) == Range(Members[o])

\* The members of each object, as sets.
LEMMA OwnedFacts ==
    /\ Owned("controller") = {"manager", "image", "rmf", "task", "tester"}
    /\ Owned("tester") = {"manager", "task"}
    /\ Owned("image") = {"task"}
    /\ Owned("task") = {"manager"}
    /\ Owned("rmf") = {"manager"}
    /\ Owned("manager") = {"inference", "terminator"}
    /\ Owned("inference") = {"terminator"}
    /\ Owned("terminator") = {}
<1>1. /\ Owned("controller") = {"manager", "image", "rmf", "task", "tester"}
      /\ Owned("tester") = {"manager", "task"}
  BY DEF Owned, Range, Members
<1>2. /\ Owned("image") = {"task"}
      /\ Owned("task") = {"manager"}
      /\ Owned("rmf") = {"manager"}
  BY DEF Owned, Range, Members
<1>3. /\ Owned("manager") = {"inference", "terminator"}
      /\ Owned("inference") = {"terminator"}
      /\ Owned("terminator") = {}
  BY DEF Owned, Range, Members
<1> QED
  BY <1>1, <1>2, <1>3

\* Only the Controller owns the Tester and the action server.
LEMMA OwnedOnce ==
    ASSUME NEW o \in Objects, o # "controller"
    PROVE  "tester" \notin Owned(o) /\ "rmf" \notin Owned(o)
BY OwnedFacts DEF Objects

\* What is owned are objects, and nobody owns itself.
LEMMA OwnedType ==
    ASSUME NEW o \in Objects
    PROVE  Owned(o) \in SUBSET Objects /\ o \notin Owned(o)
BY OwnedFacts DEF Objects

\* The order of construction.
LEMMA StartupFacts ==
    /\ Len(Startup) = 7
    /\ Startup[1] = "terminator" /\ Startup[2] = "inference"
    /\ Startup[3] = "manager" /\ Startup[4] = "rmf" /\ Startup[5] = "task"
    /\ Startup[6] = "image" /\ Startup[7] = "tester"
BY DEF Startup

-----------------------------------------------------------------------------
(* The invariant: what the pointers say of the objects, what the objects say   *)
(* of the threads, and what a server that is gone says of the Tester.          *)

\* Objects are constructed in order, and none is destroyed before all are.
StartupInv ==
    /\ stage["controller"] \in {"live", "releasing", "gone"}
    /\ stage["controller"] # "live" => built = 7
    /\ \A i \in 1..7 : stage[Startup[i]] = "absent" <=> i > built
    /\ stage["controller"] = "live" =>
         \A o \in Objects : stage[o] \in {"absent", "live"}

\* A pointer points to a live object, and an object in use has its pointers.
HeldInv ==
    /\ \A o \in Objects : \A m \in held[o] : stage[m] = "live" /\ m \in Owned(o)
    /\ \A o \in Objects \ {"controller"} : Usable(o) => held[o] = Owned(o)
    /\ stage["tester"] = "live" => "tester" \in held["controller"]

\* A thread runs between its constructor and its join.
ThreadInv ==
    /\ testerThread = "none" <=> stage["tester"] = "absent"
    /\ testerThread \in {"next", "calling"} => Usable("tester")
    /\ taskThread = "none" <=> stage["task"] = "absent"
    /\ taskThread \in {"waiting", "leaving"} => Usable("task")

\* The Terminator serves until its destructor runs, and nothing is in line
\* before the callback is registered.
TerminatorInv ==
    /\ stage["terminator"] \in {"absent", "live"} => owner = "serving"
    /\ stage["terminator"] = "dying" => owner # "gone"
    /\ stage["terminator"] \in {"releasing", "gone"} => owner = "gone"
    /\ owner = "gone" => pc = "exited"
    /\ stage["rmf"] = "absent" => queue = <<>> /\ InHand = 0

\* Only the Tester runs inferences, one for each picture it took.
InferenceInv ==
    /\ \A w \in Workers : stamp[w] # 0 => w = Tester /\ testerThread = "calling"
    /\ begun + pictures <= Pictures
    /\ testerThread = "calling" /\ stamp[Tester] = 0 => begun + pictures < Pictures

\* When the action server is gone nobody reports any more, and what is due to
\* it is what was due when it went and the closing message.
DeadInv ==
    /\ stage["rmf"] \in {"absent", "live"} => dangling = 0
    /\ stage["rmf"] # "dying"
    /\ stage["rmf"] \in {"releasing", "gone"} =>
         /\ stage["tester"] = "gone"
         /\ dangling + InHand + Len(queue)
              + (IF owner \in {"serving", "stopping"} THEN 1 ELSE 0) <= backlog + 1

LifecycleInv ==
    /\ TypeOK /\ LifecycleTypeOK
    /\ StartupInv /\ HeldInv
    /\ ThreadInv /\ TerminatorInv /\ InferenceInv
    /\ DeadInv

\* The number of verdicts due is a number.
LEMMA DueType == TypeOK => InHand + Len(queue) \in Nat
<1> SUFFICES ASSUME TypeOK
             PROVE  InHand + Len(queue) \in Nat
  OBVIOUS
<1>1. Len(queue) \in Nat
  BY LenProperties DEF TypeOK
<1> QED
  BY <1>1 DEF InHand

\* The initial state satisfies the invariant.
LEMMA InitLifecycleInv == LifecycleInit => LifecycleInv
<1> SUFFICES ASSUME LifecycleInit
             PROVE  LifecycleInv
  OBVIOUS
<1> USE DEF LifecycleInit
<1>1. TypeOK
  BY InitType
<1>2. LifecycleTypeOK
  BY StartupFacts DEF LifecycleTypeOK, Stages
<1>3. StartupInv
  BY StartupFacts DEF StartupInv, Objects
<1>4. HeldInv
  BY DEF HeldInv, Usable, Objects
<1>5. ThreadInv
  BY DEF ThreadInv, Objects
<1>6. pc = "loop" /\ queue = <<>> /\ owner = "serving" /\ begun = 0
      /\ stamp = [w \in Workers |-> 0]
  BY DEF Init
<1>7. TerminatorInv
  BY <1>6 DEF TerminatorInv, Objects, InHand
<1>8. InferenceInv
  BY <1>6, LifecycleAssumption DEF InferenceInv
<1>9. DeadInv
  BY DEF DeadInv, Objects
<1> QED
  BY <1>1, <1>2, <1>3, <1>4, <1>5, <1>7, <1>8, <1>9 DEF LifecycleInv

-----------------------------------------------------------------------------
(* The main thread constructs and destroys.                                    *)

\* When an object is constructed, all it owns is there.
LEMMA OwnedIsLive ==
    ASSUME LifecycleTypeOK, StartupInv, stage["controller"] = "live",
           NEW i \in 1..7, built + 1 = i
    PROVE  /\ Startup[i] \in Objects \ {"controller"}
           /\ stage[Startup[i]] = "absent"
           /\ \A m \in Owned(Startup[i]) : stage[m] = "live"
<1>1. built \in Nat
  BY DEF LifecycleTypeOK
<1>2. stage[Startup[i]] = "absent"
  BY <1>1 DEF StartupInv
<1>3. Startup[i] \in Objects \ {"controller"}
  BY StartupFacts DEF Objects
<1>4. \A j \in 1..7 : j < i => stage[Startup[j]] = "live"
  <2> SUFFICES ASSUME NEW j \in 1..7, j < i
               PROVE  stage[Startup[j]] = "live"
    OBVIOUS
  <2>1. Startup[j] \in Objects
    BY StartupFacts DEF Objects
  <2>2. stage[Startup[j]] # "absent"
    BY <1>1 DEF StartupInv
  <2> QED
    BY <2>1, <2>2 DEF StartupInv
<1>5. \A m \in Owned(Startup[i]) : \E j \in 1..7 : j < i /\ m = Startup[j]
  <2>1. i \in {1, 2, 3, 4, 5, 6, 7}
    OBVIOUS
  <2>2. /\ i = 1 => Owned(Startup[i]) = {}
        /\ i = 2 => Owned(Startup[i]) = {Startup[1]}
        /\ i = 3 => Owned(Startup[i]) = {Startup[1], Startup[2]}
        /\ i = 4 => Owned(Startup[i]) = {Startup[3]}
        /\ i = 5 => Owned(Startup[i]) = {Startup[3]}
        /\ i = 6 => Owned(Startup[i]) = {Startup[5]}
        /\ i = 7 => Owned(Startup[i]) = {Startup[3], Startup[5]}
    BY StartupFacts, OwnedFacts
  <2> QED
    BY <2>1, <2>2
<1> QED
  BY <1>2, <1>3, <1>4, <1>5

\* A constructor keeps the invariant.
LEMMA ConstructKeepsInv ==
    LifecycleInv /\ Construct =>
      /\ (LifecycleTypeOK /\ StartupInv /\ HeldInv)'
      /\ (ThreadInv /\ TerminatorInv /\ InferenceInv /\ DeadInv)'
<1> SUFFICES ASSUME LifecycleInv, Construct
             PROVE  /\ (LifecycleTypeOK /\ StartupInv /\ HeldInv)'
                    /\ (ThreadInv /\ TerminatorInv /\ InferenceInv /\ DeadInv)'
  OBVIOUS
<1> DEFINE o == Startup[built']
<1>1. /\ stage["controller"] = "live"
      /\ built' = built + 1 /\ built' \in 1..7 /\ built \in 0..6
  BY StartupFacts DEF Construct, LifecycleInv, LifecycleTypeOK
<1>2. /\ o \in Objects \ {"controller"} /\ stage[o] = "absent"
      /\ \A m \in Owned(o) : stage[m] = "live"
  BY <1>1, OwnedIsLive DEF LifecycleInv
<1>3. /\ stage' = [stage EXCEPT ![o] = "live"]
      /\ held' = [held EXCEPT ![o] = Owned(o),
                    !["controller"] = @ \cup ({o} \cap Owned("controller"))]
      /\ testerThread' = IF o = "tester" THEN "next" ELSE testerThread
      /\ taskThread' = IF o = "task" THEN "waiting" ELSE taskThread
      /\ UNCHANGED <<vars, process, pictures, backlog, dangling>>
  BY DEF Construct, Owned
<1> HIDE DEF o
<1>4. /\ stage \in [Objects -> Stages] /\ held \in [Objects -> SUBSET Objects]
      /\ stage' \in [Objects -> Stages]
  BY <1>2, <1>3 DEF LifecycleInv, LifecycleTypeOK, Stages
<1>5. \A x \in Objects : stage'[x] = IF x = o THEN "live" ELSE stage[x]
  BY <1>3, <1>4
<1>6. "controller" \in Objects
  BY DEF Objects
<1>7. \A x \in Objects :
        held'[x] = IF x = o THEN Owned(o)
                   ELSE IF x = "controller"
                        THEN held[x] \cup ({o} \cap Owned("controller"))
                        ELSE held[x]
  BY <1>2, <1>3, <1>4, <1>6
<1>8. LifecycleTypeOK'
  <2>1. held' \in [Objects -> SUBSET Objects]
    BY <1>2, <1>3, <1>4, <1>6, OwnedType
  <2> QED
    BY <1>1, <1>3, <1>4, <2>1, StartupFacts DEF LifecycleInv, LifecycleTypeOK
<1>9. StartupInv'
  <2>1. \A i \in 1..7 : Startup[i] \in Objects
    BY StartupFacts DEF Objects
  <2>2. \A i \in 1..7 : Startup[i] = o <=> i = built'
    BY <1>1, StartupFacts DEF o
  <2>3. \A i \in 1..7 : stage'[Startup[i]] = "absent" <=> i > built'
    BY <1>1, <1>5, <2>1, <2>2 DEF LifecycleInv, StartupInv
  <2>4. stage'["controller"] = "live"
    BY <1>1, <1>2, <1>5, <1>6
  <2> QED
    BY <1>1, <1>5, <2>3, <2>4 DEF LifecycleInv, StartupInv
<1>10. HeldInv'
  <2>1. \A x \in Objects : \A m \in held'[x] : stage'[m] = "live" /\ m \in Owned(x)
    <3> SUFFICES ASSUME NEW x \in Objects, NEW m \in held'[x]
                 PROVE  stage'[m] = "live" /\ m \in Owned(x)
      OBVIOUS
    <3>1. CASE m \in held[x]
      BY <3>1, <1>2, <1>4, <1>5 DEF LifecycleInv, HeldInv
    <3>2. CASE x = o /\ m \in Owned(o)
      BY <3>2, <1>2, <1>5, OwnedType
    <3>3. CASE x = "controller" /\ m = o /\ m \in Owned("controller")
      BY <3>3, <1>2, <1>5
    <3> QED
      BY <1>7, <3>1, <3>2, <3>3
  <2>2. \A x \in Objects \ {"controller"} : Usable(x)' => held'[x] = Owned(x)
    BY <1>5, <1>7 DEF LifecycleInv, HeldInv, Usable
  <2>3. stage'["tester"] = "live" => "tester" \in held'["controller"]
    BY <1>2, <1>5, <1>6, <1>7, OwnedFacts DEF LifecycleInv, HeldInv, Objects
  <2> QED
    BY <2>1, <2>2, <2>3 DEF HeldInv
<1>11. ThreadInv'
  <2>1. "tester" \in Objects /\ "task" \in Objects
    BY DEF Objects
  <2> QED
    BY <1>2, <1>3, <1>5, <2>1 DEF LifecycleInv, ThreadInv, Usable
<1>12. TerminatorInv'
  <2>1. "terminator" \in Objects /\ "rmf" \in Objects
    BY DEF Objects
  <2> QED
    BY <1>2, <1>3, <1>5, <2>1 DEF LifecycleInv, TerminatorInv, vars, InHand
<1>13. InferenceInv'
  <2>1. testerThread' = "calling" => testerThread = "calling"
    BY <1>3
  <2>2. testerThread = "calling" => testerThread' = "calling"
    BY <1>2, <1>3 DEF LifecycleInv, ThreadInv
  <2> QED
    BY <1>3, <2>1, <2>2 DEF LifecycleInv, InferenceInv, vars
<1>14. DeadInv'
  <2>1. "rmf" \in Objects /\ "tester" \in Objects
    BY DEF Objects
  <2>2. stage["rmf"] \in {"absent", "live"}
    BY <1>1, <2>1 DEF LifecycleInv, StartupInv
  <2> QED
    BY <1>2, <1>3, <1>5, <2>1, <2>2 DEF LifecycleInv, DeadInv
<1> QED
  BY <1>8, <1>9, <1>10, <1>11, <1>12, <1>13, <1>14

\* Nothing is destroyed before the Controller is, and by then all is built.
LEMMA DestructionFacts ==
    ASSUME LifecycleInv, NEW o \in Objects, stage[o] \in {"dying", "releasing"}
    PROVE  /\ stage["controller"] # "live"
           /\ \A i \in 1..7 : stage[Startup[i]] # "absent"
           /\ \A x \in Objects : stage[x] # "absent"
<1>1. stage["controller"] # "live"
  BY DEF LifecycleInv, StartupInv
<1>2. \A i \in 1..7 : stage[Startup[i]] # "absent"
  BY <1>1 DEF LifecycleInv, StartupInv
<1>3. \A x \in Objects : x = "controller" \/ \E i \in 1..7 : x = Startup[i]
  BY StartupFacts DEF Objects
<1> QED
  BY <1>1, <1>2, <1>3 DEF LifecycleInv, StartupInv

\* Dropping a member keeps the invariant.
LEMMA ReleaseKeepsInv ==
    ASSUME NEW o \in Objects, LifecycleInv, Release(o)
    PROVE  /\ (LifecycleTypeOK /\ StartupInv /\ HeldInv)'
           /\ (ThreadInv /\ TerminatorInv /\ InferenceInv /\ DeadInv)'
<1>1. PICK i \in DOMAIN Members[o] :
        LET m == Members[o][i]
            last == \A x \in Objects \ {o} : m \notin held[x]
        IN  /\ m \in held[o]
            /\ \A j \in DOMAIN Members[o] : j > i => Members[o][j] \notin held[o]
            /\ held' = [held EXCEPT ![o] = @ \ {m}]
            /\ stage' = IF ~last THEN stage
                        ELSE [stage EXCEPT ![m] =
                                IF m \in Joins THEN "dying" ELSE "releasing"]
            /\ backlog' = IF last /\ m = "rmf" THEN InHand + Len(queue) ELSE backlog
  BY DEF Release
<1> DEFINE m == Members[o][i]
           last == \A x \in Objects \ {o} : m \notin held[x]
<1>2. /\ m \in held[o]
      /\ \A j \in DOMAIN Members[o] : j > i => Members[o][j] \notin held[o]
      /\ held' = [held EXCEPT ![o] = @ \ {m}]
      /\ stage' = IF ~last THEN stage
                  ELSE [stage EXCEPT ![m] =
                          IF m \in Joins THEN "dying" ELSE "releasing"]
      /\ backlog' = IF last /\ m = "rmf" THEN InHand + Len(queue) ELSE backlog
  BY <1>1
<1>3. o = "controller" /\ m = "rmf" => "tester" \notin held["controller"]
  <2>1. /\ 5 \in DOMAIN Members["controller"]
        /\ Members["controller"][5] = "tester"
        /\ DOMAIN Members["controller"] = 1..5
    BY DEF Members
  <2>2. \A j \in 1..5 : Members["controller"][j] = "rmf" => j = 3
    BY DEF Members
  <2> QED
    BY <1>2, <2>1, <2>2
<1> HIDE DEF m
<1>4. /\ UNCHANGED <<vars, process, built, testerVars, taskThread, dangling>>
      /\ stage[o] = "releasing"
      /\ \A x \in Owned(o) : stage[x] \notin {"dying", "releasing"}
  BY DEF Release, Releasing, Owned
<1>5. /\ stage["controller"] # "live" /\ built = 7
      /\ \A x \in Objects : stage[x] # "absent"
      /\ \A k \in 1..7 : stage[Startup[k]] # "absent"
  BY <1>4, DestructionFacts DEF LifecycleInv, StartupInv
<1>6. m \in Owned(o) /\ m \in Objects /\ m # o /\ stage[m] = "live" /\ m # "controller"
  BY <1>2, <1>5, OwnedType DEF LifecycleInv, HeldInv
<1>7. stage \in [Objects -> Stages] /\ held \in [Objects -> SUBSET Objects]
  BY DEF LifecycleInv, LifecycleTypeOK
<1>8. \A x \in Objects :
        stage'[x] = IF last /\ x = m
                    THEN IF m \in Joins THEN "dying" ELSE "releasing" ELSE stage[x]
  BY <1>2, <1>6, <1>7
<1>9. \A x \in Objects : held'[x] = IF x = o THEN held[o] \ {m} ELSE held[x]
  BY <1>2, <1>7
<1> HIDE DEF last
<1>10. LifecycleTypeOK'
  <2>1. stage' \in [Objects -> Stages]
    BY <1>2, <1>6, <1>7 DEF Stages
  <2>2. held' \in [Objects -> SUBSET Objects]
    BY <1>2, <1>7
  <2>3. backlog' \in Nat
    BY <1>2, DueType DEF LifecycleInv, LifecycleTypeOK
  <2> QED
    BY <1>4, <2>1, <2>2, <2>3 DEF LifecycleInv, LifecycleTypeOK, testerVars
<1>11. StartupInv'
  <2>1. "controller" \in Objects /\ \A k \in 1..7 : Startup[k] \in Objects
    BY StartupFacts DEF Objects
  <2>2. stage'["controller"] = stage["controller"]
    BY <1>6, <1>8, <2>1
  <2>3. \A k \in 1..7 : stage'[Startup[k]] = "absent" <=> stage[Startup[k]] = "absent"
    BY <1>5, <1>8, <2>1
  <2> QED
    BY <1>4, <1>5, <2>2, <2>3 DEF LifecycleInv, StartupInv
<1>12. HeldInv'
  <2>1. \A x \in Objects : \A y \in held'[x] : stage'[y] = "live" /\ y \in Owned(x)
    <3> SUFFICES ASSUME NEW x \in Objects, NEW y \in held'[x]
                 PROVE  stage'[y] = "live" /\ y \in Owned(x)
      OBVIOUS
    <3>1. y \in held[x] /\ y \in Objects /\ (x = o => y # m)
      BY <1>7, <1>9
    <3>2. stage[y] = "live" /\ y \in Owned(x)
      BY <3>1 DEF LifecycleInv, HeldInv
    <3>3. last => y # m
      BY <3>1 DEF last
    <3> QED
      BY <1>8, <3>1, <3>2, <3>3
  <2>2. \A x \in Objects \ {"controller"} : Usable(x)' => held'[x] = Owned(x)
    BY <1>4, <1>6, <1>8, <1>9 DEF LifecycleInv, HeldInv, Usable
  <2>3. stage'["tester"] = "live" => "tester" \in held'["controller"]
    <3> SUFFICES ASSUME stage'["tester"] = "live"
                 PROVE  "tester" \in held'["controller"]
      OBVIOUS
    <3>1. "tester" \in Objects /\ "controller" \in Objects
      BY DEF Objects
    <3>2. stage["tester"] = "live" /\ ~(last /\ m = "tester")
      BY <1>8, <3>1
    <3>3. m = "tester" => o = "controller"
      BY <1>6, OwnedOnce
    <3>4. m = "tester" => last
      BY <3>3, OwnedOnce DEF last, LifecycleInv, HeldInv
    <3> QED
      BY <1>9, <3>1, <3>2, <3>4 DEF LifecycleInv, HeldInv
  <2> QED
    BY <2>1, <2>2, <2>3 DEF HeldInv
<1>13. ThreadInv'
  <2>1. "tester" \in Objects /\ "task" \in Objects /\ "tester" \in Joins /\ "task" \in Joins
    BY DEF Objects, Joins
  <2> QED
    BY <1>4, <1>6, <1>8, <2>1 DEF LifecycleInv, ThreadInv, Usable, testerVars
<1>14. TerminatorInv'
  <2>1. "terminator" \in Objects /\ "rmf" \in Objects /\ "terminator" \in Joins
    BY DEF Objects, Joins
  <2> QED
    BY <1>4, <1>6, <1>8, <2>1 DEF LifecycleInv, TerminatorInv, InHand, vars
<1>15. InferenceInv'
  BY <1>4 DEF LifecycleInv, InferenceInv, vars, testerVars
<1>16. DeadInv'
  <2>1. "rmf" \in Objects /\ "tester" \in Objects /\ "rmf" \notin Joins
    BY DEF Objects, Joins
  <2>2. InHand' = InHand /\ queue' = queue /\ owner' = owner /\ dangling' = dangling
    BY <1>4 DEF vars, InHand
  <2>3. CASE last /\ m = "rmf"
    <3>1. o = "controller"
      BY <1>6, <2>3, OwnedOnce
    <3>2. stage["tester"] = "gone"
      BY <1>3, <1>4, <1>5, <1>7, <2>1, <2>3, <3>1, OwnedFacts
         DEF LifecycleInv, HeldInv, Stages
    <3>3. stage'["tester"] = "gone" /\ stage'["rmf"] = "releasing"
      BY <1>6, <1>8, <2>1, <2>3, <3>2
    <3>4. backlog' = InHand + Len(queue) /\ backlog' \in Nat
      BY <1>2, <2>3, DueType DEF LifecycleInv
    <3>5. dangling = 0
      BY <1>6, <2>3 DEF LifecycleInv, DeadInv
    <3>6. dangling + InHand + Len(queue)
            + (IF owner \in {"serving", "stopping"} THEN 1 ELSE 0) <= backlog' + 1
      <4>1. InHand \in Nat /\ Len(queue) \in Nat
        BY LenProperties DEF InHand, LifecycleInv, TypeOK
      <4> QED
        BY <3>4, <3>5, <4>1
    <3> QED
      BY <2>2, <3>3, <3>6 DEF DeadInv
  <2>4. CASE ~(last /\ m = "rmf")
    <3>1. stage'["rmf"] = stage["rmf"] /\ backlog' = backlog
      BY <1>2, <1>8, <2>1, <2>4 DEF last
    <3>2. stage["tester"] = "gone" => stage'["tester"] = "gone"
      BY <1>6, <1>8, <2>1
    <3> QED
      BY <2>2, <3>1, <3>2 DEF LifecycleInv, DeadInv
  <2> QED
    BY <2>3, <2>4
<1> QED
  BY <1>10, <1>11, <1>12, <1>13, <1>14, <1>15, <1>16

\* The other steps of the main thread move one object on in its life.
LEMMA MoveKeepsInv ==
    ASSUME LifecycleInv, NEW o \in Objects, NEW s \in {"releasing", "gone"},
           \/ stage[o] \in {"dying", "releasing"}
           \/ o = "controller" /\ stage[o] = "live" /\ built = 7,
           stage' = [stage EXCEPT ![o] = s],
           UNCHANGED <<built, held, testerVars, taskThread>>,
           o = "tester" => testerThread = "done",
           o = "task" => taskThread = "exited"
    PROVE  /\ stage' \in [Objects -> Stages]
           /\ \A x \in Objects : stage'[x] = IF x = o THEN s ELSE stage[x]
           /\ StartupInv' /\ HeldInv' /\ ThreadInv'
<1>1. stage \in [Objects -> Stages] /\ stage' \in [Objects -> Stages]
  BY DEF LifecycleInv, LifecycleTypeOK, Stages
<1>2. \A x \in Objects : stage'[x] = IF x = o THEN s ELSE stage[x]
  BY <1>1
<1>3. /\ "controller" \in Objects /\ "tester" \in Objects /\ "task" \in Objects
      /\ \A k \in 1..7 : Startup[k] \in Objects
  BY StartupFacts DEF Objects
<1>4. stage[o] # "absent" /\ built = 7
  <2>1. CASE stage[o] \in {"dying", "releasing"}
    BY <2>1, DestructionFacts DEF LifecycleInv, StartupInv
  <2>2. CASE stage[o] = "live" /\ built = 7
    BY <2>2
  <2> QED
    BY <2>1, <2>2
<1>5. StartupInv'
  <2>1. stage'["controller"] \in {"releasing", "gone"}
    <3>1. CASE o = "controller"
      BY <3>1, <1>2, <1>3
    <3>2. CASE o # "controller"
      <4>1. stage["controller"] # "live"
        BY <3>2, DestructionFacts
      <4> QED
        BY <3>2, <4>1, <1>2, <1>3 DEF LifecycleInv, StartupInv
    <3> QED
      BY <3>1, <3>2
  <2>2. \A k \in 1..7 : stage'[Startup[k]] = "absent" <=> stage[Startup[k]] = "absent"
    BY <1>2, <1>3, <1>4
  <2> QED
    BY <1>4, <2>1, <2>2 DEF LifecycleInv, StartupInv
<1>6. HeldInv'
  <2>1. \A x \in Objects : \A m \in held'[x] : stage'[m] = "live" /\ m \in Owned(x)
    <3> SUFFICES ASSUME NEW x \in Objects, NEW m \in held'[x]
                 PROVE  stage'[m] = "live" /\ m \in Owned(x)
      OBVIOUS
    <3>1. stage[m] = "live" /\ m \in Owned(x) /\ m \in Objects
      BY OwnedType DEF LifecycleInv, HeldInv
    <3>2. m # "controller"
      BY <3>1, OwnedFacts DEF Objects
    <3> QED
      BY <1>2, <3>1, <3>2
  <2>2. \A x \in Objects \ {"controller"} : Usable(x)' => held'[x] = Owned(x)
    BY <1>2 DEF LifecycleInv, HeldInv, Usable
  <2>3. stage'["tester"] = "live" => "tester" \in held'["controller"]
    BY <1>2, <1>3 DEF LifecycleInv, HeldInv
  <2> QED
    BY <2>1, <2>2, <2>3 DEF HeldInv
<1>7. ThreadInv'
  BY <1>2, <1>3, <1>4 DEF LifecycleInv, ThreadInv, Usable, testerVars
<1> QED
  BY <1>1, <1>2, <1>5, <1>6, <1>7

\* The end of a destructor keeps the invariant, and so does the end of spin().
LEMMA FinishKeepsInv ==
    ASSUME LifecycleInv,
           StopSpinning \/ (\E o \in Objects : Finish(o)) \/ JoinTester \/ JoinTask
    PROVE  /\ (LifecycleTypeOK /\ StartupInv /\ HeldInv)'
           /\ (ThreadInv /\ TerminatorInv /\ InferenceInv /\ DeadInv)'
<1>1. PICK o \in Objects, s \in {"releasing", "gone"} :
        /\ \/ stage[o] = "dying" /\ s = "releasing" /\ o \in {"tester", "task"}
           \/ stage[o] = "releasing" /\ s = "gone"
           \/ o = "controller" /\ stage[o] = "live" /\ built = 7
        /\ stage' = [stage EXCEPT ![o] = s]
        /\ o = "tester" /\ s = "releasing" => testerThread = "done"
        /\ o = "task" /\ s = "releasing" => taskThread = "exited"
  BY StartupFacts DEF StopSpinning, Finish, Releasing, JoinTester, JoinTask, Joined, Objects
<1>2. /\ UNCHANGED <<vars, built, held, backlog, testerVars, taskThread, dangling>>
      /\ process' \in {process, "ended"}
  BY DEF StopSpinning, Finish, JoinTester, JoinTask, Joined
<1>3. /\ o = "tester" => testerThread = "done"
      /\ o = "task" => taskThread = "exited"
  BY <1>1 DEF LifecycleInv, ThreadInv, LifecycleTypeOK, Usable
<1>4. /\ stage' \in [Objects -> Stages]
      /\ \A x \in Objects : stage'[x] = IF x = o THEN s ELSE stage[x]
      /\ StartupInv' /\ HeldInv' /\ ThreadInv'
  <2>1. \/ stage[o] \in {"dying", "releasing"}
        \/ o = "controller" /\ stage[o] = "live" /\ built = 7
    BY <1>1
  <2> QED
    BY <1>1, <1>2, <1>3, <2>1, MoveKeepsInv
<1>5. LifecycleTypeOK'
  BY <1>2, <1>4 DEF LifecycleInv, LifecycleTypeOK, testerVars
<1>6. "terminator" \in Objects /\ "rmf" \in Objects /\ "tester" \in Objects
  BY DEF Objects
<1>7. TerminatorInv'
  BY <1>1, <1>2, <1>4, <1>6 DEF LifecycleInv, TerminatorInv, InHand, vars
<1>8. InferenceInv'
  BY <1>2 DEF LifecycleInv, InferenceInv, vars, testerVars
<1>9. DeadInv'
  <2>1. InHand' = InHand /\ queue' = queue /\ owner' = owner
    BY <1>2 DEF vars, InHand
  <2>2. stage["rmf"] # "dying"
    BY DEF LifecycleInv, DeadInv
  <2>3. stage["tester"] = "gone" => stage'["tester"] = "gone"
    BY <1>1, <1>4, <1>6
  <2>4. \/ stage'["rmf"] = stage["rmf"]
        \/ stage["rmf"] = "releasing" /\ stage'["rmf"] = "gone"
    BY <1>1, <1>4, <1>6, <2>2
  <2> QED
    BY <1>2, <2>1, <2>3, <2>4 DEF LifecycleInv, DeadInv
<1> QED
  BY <1>4, <1>5, <1>7, <1>8, <1>9

-----------------------------------------------------------------------------
(* What a thread finds.                                                        *)

\* While the Tester calls, its pointers keep all alive that it goes through.
LEMMA CallingFacts ==
    ASSUME LifecycleInv, testerThread = "calling"
    PROVE  /\ \A o \in {"manager", "inference", "terminator"} : stage[o] = "live"
           /\ owner = "serving"
<1>1. "tester" \in Objects /\ "manager" \in Objects
  BY DEF Objects
<1>2. held["tester"] = Owned("tester")
  BY <1>1 DEF LifecycleInv, ThreadInv, HeldInv
<1>3. stage["manager"] = "live"
  BY <1>1, <1>2, OwnedFacts DEF LifecycleInv, HeldInv
<1>4. held["manager"] = Owned("manager")
  BY <1>1, <1>3 DEF LifecycleInv, HeldInv, Usable
<1>5. stage["inference"] = "live" /\ stage["terminator"] = "live"
  BY <1>1, <1>4, OwnedFacts DEF LifecycleInv, HeldInv
<1> QED
  BY <1>3, <1>5 DEF LifecycleInv, TerminatorInv

\* Before the callback is registered the Tester has not begun, and nothing is
\* destroyed.
LEMMA UnregisteredFacts ==
    ASSUME LifecycleInv, stage["rmf"] = "absent"
    PROVE  testerThread = "none" /\ owner = "serving"
<1>1. built \in Nat /\ 4 > built
  BY StartupFacts DEF LifecycleInv, LifecycleTypeOK, StartupInv
<1>2. stage["tester"] = "absent"
  BY <1>1, StartupFacts DEF LifecycleInv, StartupInv
<1>3. stage["terminator"] \in {"absent", "live"}
  BY <1>1 DEF LifecycleInv, StartupInv, Objects
<1> QED
  BY <1>2, <1>3 DEF LifecycleInv, ThreadInv, TerminatorInv

-----------------------------------------------------------------------------
(* The steps of the threads, and of the destructors that deal with them.       *)

\* A step that leaves the objects alone keeps what is said of them.
LEMMA ObjectsUnchanged ==
    ASSUME LifecycleInv, UNCHANGED objectVars
    PROVE  (StartupInv /\ HeldInv)'
BY DEF LifecycleInv, StartupInv, HeldInv, Usable, objectVars

\* Steps that change nothing of the Terminator.
LEMMA PlainStepsKeepInv ==
    ASSUME LifecycleInv,
           ThrowOutOfMain \/ ThrowOutOfTester \/ StopTask \/ TaskThreadEnds
             \/ NextPicture \/ NoMorePictures \/ UNCHANGED allVars
    PROVE  (LifecycleTypeOK /\ ThreadInv /\ TerminatorInv /\ InferenceInv /\ DeadInv)'
<1>1. UNCHANGED <<vars, objectVars, dangling>>
  BY DEF ThrowOutOfMain, ThrowOutOfTester, StopTask, TaskThreadEnds, NextPicture,
         NoMorePictures, allVars, lifecycleVars
<1>2. LifecycleTypeOK'
  <2>1. /\ process' \in {process, "terminated"}
        /\ taskThread' \in {taskThread, "leaving", "exited"}
        /\ testerThread' \in {testerThread, "next", "calling", "done"}
    BY DEF ThrowOutOfMain, ThrowOutOfTester, StopTask, TaskThreadEnds, NextPicture,
           NoMorePictures, allVars, lifecycleVars, testerVars
  <2>2. pictures' \in 0..Pictures
    BY LifecycleAssumption
       DEF ThrowOutOfMain, ThrowOutOfTester, StopTask, TaskThreadEnds, NextPicture,
           NoMorePictures, allVars, lifecycleVars, testerVars, LifecycleInv, LifecycleTypeOK
  <2> QED
    BY <1>1, <2>1, <2>2 DEF LifecycleInv, LifecycleTypeOK, objectVars
<1>3. ThreadInv'
  BY <1>1 DEF LifecycleInv, ThreadInv, Usable, objectVars, ThrowOutOfMain,
       ThrowOutOfTester, StopTask, TaskThreadEnds, NextPicture, NoMorePictures,
       allVars, lifecycleVars, testerVars
<1>4. TerminatorInv'
  BY <1>1 DEF LifecycleInv, TerminatorInv, InHand, objectVars, vars
<1>5. InferenceInv'
  <2>1. \/ UNCHANGED testerVars
        \/ testerThread = "next" /\ (pictures' = pictures - 1 \/
                                       (pictures' = pictures /\ testerThread' = "done"))
    BY DEF ThrowOutOfMain, ThrowOutOfTester, StopTask, TaskThreadEnds, NextPicture,
           NoMorePictures, allVars, lifecycleVars
  <2>2. begun \in Nat /\ pictures \in Nat /\ Pictures \in Nat
    BY LifecycleAssumption DEF LifecycleInv, TypeOK, LifecycleTypeOK
  <2>3. begun' = begun /\ stamp' = stamp
    BY <1>1 DEF vars
  <2> QED
    BY <2>1, <2>2, <2>3 DEF LifecycleInv, InferenceInv, testerVars
<1>6. DeadInv'
  <2>1. InHand' = InHand /\ queue' = queue /\ owner' = owner
    BY <1>1 DEF vars, InHand
  <2> QED
    BY <1>1, <2>1 DEF LifecycleInv, DeadInv, objectVars
<1> QED
  BY <1>2, <1>3, <1>4, <1>5, <1>6

\* An inference begins with a picture taken, and reports once.
LEMMA InferKeepsInv ==
    ASSUME LifecycleInv, Infer \/ Report
    PROVE  (LifecycleTypeOK /\ ThreadInv /\ TerminatorInv /\ InferenceInv /\ DeadInv)'
<1>1. /\ UNCHANGED <<process, objectVars, pictures, taskThread, dangling, owner>>
      /\ testerThread = "calling"
  BY DEF Infer, Report, UpdateManipulationState, ownerVars, lifecycleVars, testerVars
<1>2. stage["rmf"] = "live"
  <2>1. "rmf" \in Objects /\ "tester" \in Objects
    BY DEF Objects
  <2>2. stage["rmf"] # "absent"
    BY <1>1, UnregisteredFacts
  <2>3. stage["tester"] # "gone"
    BY <1>1 DEF LifecycleInv, ThreadInv, Usable
  <2> QED
    BY <2>1, <2>2, <2>3 DEF LifecycleInv, LifecycleTypeOK, Stages, DeadInv
<1>3. owner = "serving" /\ stage["terminator"] = "live"
  BY <1>1, CallingFacts
<1>4. testerThread' \in {"next", "calling"}
  BY <1>1 DEF Infer, Report, lifecycleVars, testerVars
<1>5. LifecycleTypeOK'
  BY <1>1, <1>4 DEF LifecycleInv, LifecycleTypeOK, objectVars
<1>6. ThreadInv'
  BY <1>1, <1>4 DEF LifecycleInv, ThreadInv, Usable, objectVars
<1>7. TerminatorInv'
  BY <1>1, <1>2, <1>3 DEF LifecycleInv, TerminatorInv, objectVars
<1>8. InferenceInv'
  <2>1. begun \in Nat /\ pictures \in Nat /\ Pictures \in Nat /\ Tester \in Workers
        /\ stamp \in [Workers -> 0..MaxTime]
    BY LifecycleAssumption DEF LifecycleInv, TypeOK, LifecycleTypeOK
  <2>2. CASE Infer
    <3>1. /\ begun' = begun + 1 /\ pictures' = pictures
          /\ testerThread' = "calling" /\ stamp[Tester] = 0
      BY <1>1, <2>2 DEF Infer, lifecycleVars, testerVars
    <3>2. PICK step \in ClockSteps : /\ clock + step \in 1..MaxTime
                                     /\ stamp' = [stamp EXCEPT ![Tester] = clock + step]
      BY <2>2 DEF Infer
    <3>3. stamp'[Tester] # 0 /\ \A w \in Workers : w # Tester => stamp'[w] = stamp[w]
      BY <2>1, <3>2
    <3> QED
      BY <1>1, <2>1, <3>1, <3>3 DEF LifecycleInv, InferenceInv
  <2>3. CASE Report
    <3>1. /\ begun' = begun /\ pictures' = pictures /\ testerThread' = "next"
          /\ stamp' = [stamp EXCEPT ![Tester] = 0]
      BY <1>1, <2>3 DEF Report, UpdateManipulationState
    <3> QED
      BY <2>1, <3>1 DEF LifecycleInv, InferenceInv
  <2> QED
    BY <2>2, <2>3
<1>9. DeadInv'
  BY <1>1, <1>2 DEF LifecycleInv, DeadInv, objectVars
<1> QED
  BY <1>5, <1>6, <1>7, <1>8, <1>9

\* ~Terminator() begins when the Tester is through, and its message is the one
\* more verdict.
LEMMA StopKeepsInv ==
    ASSUME LifecycleInv, StopTerminator \/ NotifyTerminator
    PROVE  (LifecycleTypeOK /\ ThreadInv /\ TerminatorInv /\ InferenceInv /\ DeadInv)'
<1>1. UNCHANGED <<lifecycleVars, stamp, begun>>
  BY DEF StopTerminator, NotifyTerminator, Notify, countVars
<1>2. LifecycleTypeOK' /\ ThreadInv' /\ InferenceInv'
  BY <1>1 DEF LifecycleInv, LifecycleTypeOK, ThreadInv, InferenceInv, Usable,
              lifecycleVars, objectVars, testerVars
<1>3. /\ owner' \in {"stopping", "joining"} /\ owner # "gone"
      /\ stage["terminator"] \notin {"absent", "live", "releasing", "gone"}
  BY DEF StopTerminator, NotifyTerminator, Notify, LifecycleInv, TerminatorInv
<1>4. stage["rmf"] # "absent"
  <2>1. "terminator" \in Objects /\ "rmf" \in Objects
    BY DEF Objects
  <2>2. stage["terminator"] = "dying"
    BY <1>3, <2>1 DEF LifecycleInv, LifecycleTypeOK, Stages
  <2> QED
    BY <2>1, <2>2, DestructionFacts
<1>5. TerminatorInv'
  BY <1>1, <1>3, <1>4 DEF TerminatorInv, lifecycleVars, objectVars
<1>6. DeadInv'
  <2>1. CASE StopTerminator
    <3>1. owner = "serving" /\ owner' = "stopping" /\ InHand' = InHand /\ queue' = queue
      BY <2>1 DEF StopTerminator, InHand, threadVars
    <3> QED
      BY <1>1, <3>1 DEF LifecycleInv, DeadInv, lifecycleVars, objectVars
  <2>2. CASE NotifyTerminator
    <3>1. PICK moving \in Movings : Enqueue([timestamp |-> 0, moving |-> moving])
      BY <2>2 DEF NotifyTerminator, Notify
    <3>2. owner = "stopping" /\ owner' = "joining"
      BY <2>2 DEF NotifyTerminator, Notify
    <3>3. Len(queue') = Len(queue) + 1 /\ Len(queue) \in Nat
      <4>1. [timestamp |-> 0, moving |-> moving] \in Message
        BY DEF Message
      <4> QED
        BY <3>1, <4>1, AppendProperties, LenProperties DEF Enqueue, LifecycleInv, TypeOK
    <3>4. InHand' = InHand /\ InHand \in Nat
      BY <3>1 DEF Enqueue, InHand
    <3>5. dangling \in Nat /\ backlog \in Nat
      BY DEF LifecycleInv, LifecycleTypeOK
    <3> QED
      BY <1>1, <3>2, <3>3, <3>4, <3>5 DEF LifecycleInv, DeadInv, lifecycleVars, objectVars
  <2> QED
    BY <2>1, <2>2
<1> QED
  BY <1>2, <1>5, <1>6

\* The join of ~Terminator() keeps the invariant.
LEMMA JoinKeepsInv ==
    ASSUME LifecycleInv, JoinTerminator
    PROVE  /\ (LifecycleTypeOK /\ StartupInv /\ HeldInv)'
           /\ (ThreadInv /\ TerminatorInv /\ InferenceInv /\ DeadInv)'
<1>1. /\ stage["terminator"] = "dying"
      /\ stage' = [stage EXCEPT !["terminator"] = "releasing"]
      /\ UNCHANGED <<process, built, held, backlog, testerVars, taskThread, dangling>>
      /\ owner = "joining" /\ owner' = "gone" /\ pc = "exited"
      /\ UNCHANGED <<stamp, queue, pc, begun>>
  BY DEF JoinTerminator, Joined, Join, threadVars, countVars
<1>2. "terminator" \in Objects /\ "rmf" \in Objects /\ "tester" \in Objects
  BY DEF Objects
<1>3. /\ stage' \in [Objects -> Stages]
      /\ \A x \in Objects :
           stage'[x] = IF x = "terminator" THEN "releasing" ELSE stage[x]
      /\ StartupInv' /\ HeldInv' /\ ThreadInv'
  BY <1>1, <1>2, MoveKeepsInv
<1>4. LifecycleTypeOK'
  BY <1>1, <1>3 DEF LifecycleInv, LifecycleTypeOK, testerVars
<1>5. stage["rmf"] # "absent"
  BY <1>1, <1>2, DestructionFacts
<1>6. TerminatorInv'
  BY <1>1, <1>2, <1>3, <1>5 DEF TerminatorInv
<1>7. InferenceInv'
  BY <1>1 DEF LifecycleInv, InferenceInv, testerVars
<1>8. DeadInv'
  BY <1>1, <1>2, <1>3 DEF LifecycleInv, DeadInv, InHand
<1> QED
  BY <1>3, <1>4, <1>6, <1>7, <1>8

\* The steps of the Terminator's thread move what is due to the server along,
\* and a call takes one away.
LEMMA TerminatorStepKeepsInv ==
    ASSUME LifecycleInv, TerminatorStep
    PROVE  (LifecycleTypeOK /\ ThreadInv /\ TerminatorInv /\ InferenceInv /\ DeadInv)'
<1>1. /\ UNCHANGED <<objectVars, testerVars, taskThread, stamp, begun, owner>>
      /\ process' \in {process, "running", "terminated", "crashed"}
      /\ dangling' \in {dangling, dangling + 1}
      /\ stage["terminator"] # "absent"
  BY DEF TerminatorStep, CallBack, Publish, CheckRunning, WaitForMessage, HandleMessage,
         SpuriousWakeup, ownerVars, countVars, lifecycleVars
<1>2. LifecycleTypeOK'
  BY <1>1 DEF LifecycleInv, LifecycleTypeOK, objectVars, testerVars
<1>3. ThreadInv' /\ InferenceInv'
  BY <1>1 DEF LifecycleInv, ThreadInv, InferenceInv, Usable, objectVars, testerVars
<1>4. pc # "exited"
  BY DEF TerminatorStep, CallBack, Publish, CheckRunning, WaitForMessage, HandleMessage,
         SpuriousWakeup
<1>5. /\ Len(queue) \in Nat /\ Len(queue') \in Nat
      /\ \/ /\ InHand' + Len(queue') = InHand + Len(queue)
            /\ dangling' = dangling
            /\ queue = <<>> /\ InHand = 0 => queue' = <<>> /\ InHand' = 0
         \/ /\ InHand = 1 /\ InHand' = 0 /\ queue' = queue
            /\ dangling' = IF stage["rmf"] # "absent" /\ ~Usable("rmf")
                           THEN dangling + 1 ELSE dangling
  <2>1. queue \in Seq(Message) /\ Len(queue) \in Nat
    BY LenProperties DEF LifecycleInv, TypeOK
  <2>2. CASE CallBack
    BY <2>1, <2>2 DEF CallBack, Publish, InHand, Registered
  <2>3. CASE CheckRunning /\ UNCHANGED lifecycleVars
    BY <2>1, <2>3 DEF CheckRunning, InHand, lifecycleVars
  <2>4. CASE WaitForMessage /\ UNCHANGED lifecycleVars
    <3>1. CASE queue = <<>>
      BY <2>1, <2>4, <3>1 DEF WaitForMessage, InHand, lifecycleVars
    <3>2. CASE queue # <<>>
      <4>1. Len(Tail(queue)) = Len(queue) - 1 /\ Len(queue) > 0
        BY <2>1, <3>2, HeadTailProperties, EmptySeq
      <4>2. queue' = Tail(queue) /\ InHand = 0 /\ InHand' = 1 /\ dangling' = dangling
        BY <2>4, <3>2 DEF WaitForMessage, InHand, lifecycleVars
      <4> QED
        BY <2>1, <3>2, <4>1, <4>2
    <3> QED
      BY <3>1, <3>2
  <2>5. CASE HandleMessage /\ UNCHANGED lifecycleVars
    BY <2>1, <2>5 DEF HandleMessage, InHand, lifecycleVars
  <2>6. CASE SpuriousWakeup /\ UNCHANGED lifecycleVars
    BY <2>1, <2>6 DEF SpuriousWakeup, InHand, lifecycleVars
  <2> QED
    BY <2>2, <2>3, <2>4, <2>5, <2>6 DEF TerminatorStep
<1>6. TerminatorInv'
  <2>1. owner # "gone"
    BY <1>4 DEF LifecycleInv, TerminatorInv
  <2>2. stage["rmf"] = "absent" => queue' = <<>> /\ InHand' = 0
    BY <1>5 DEF LifecycleInv, TerminatorInv
  <2> QED
    BY <1>1, <2>1, <2>2 DEF LifecycleInv, TerminatorInv, objectVars
<1>7. DeadInv'
  <2>1. /\ InHand \in Nat /\ InHand' \in Nat /\ dangling \in Nat /\ backlog \in Nat
        /\ stage["rmf"] \in Stages
    BY DEF InHand, LifecycleInv, LifecycleTypeOK, Objects
  <2>2. stage' = stage /\ backlog' = backlog /\ owner' = owner
    BY <1>1 DEF objectVars
  <2>3. stage["rmf"] \in {"absent", "live"} => dangling' = 0
    <3>1. CASE dangling' = dangling
      BY <3>1 DEF LifecycleInv, DeadInv
    <3>2. CASE dangling' # dangling
      BY <1>5, <3>2 DEF Usable
    <3> QED
      BY <3>1, <3>2
  <2>4. dangling' + InHand' + Len(queue') <= dangling + InHand + Len(queue)
    BY <1>5, <2>1
  <2>5. ASSUME stage["rmf"] \in {"releasing", "gone"}
        PROVE  dangling' + InHand' + Len(queue')
                 + (IF owner \in {"serving", "stopping"} THEN 1 ELSE 0) <= backlog + 1
    <3> DEFINE closing == IF owner \in {"serving", "stopping"} THEN 1 ELSE 0
               due == dangling + InHand + Len(queue)
    <3>1. due + closing <= backlog + 1
      BY <2>5 DEF LifecycleInv, DeadInv
    <3>2. closing \in Nat /\ due \in Nat /\ backlog \in Nat
      BY <1>5, <2>1
    <3>3. dangling' + InHand' + Len(queue') \in Nat
      BY <1>1, <1>5, <2>1
    <3> HIDE DEF closing, due
    <3>4. dangling' + InHand' + Len(queue') <= due
      BY <2>4 DEF due
    <3>5. dangling' + InHand' + Len(queue') + closing <= backlog + 1
      BY <3>1, <3>2, <3>3, <3>4
    <3> QED
      BY <3>5 DEF closing
  <2> QED
    BY <2>2, <2>3, <2>5 DEF LifecycleInv, DeadInv
<1> QED
  BY <1>2, <1>3, <1>6, <1>7

-----------------------------------------------------------------------------
(* The refinement, and the invariant.                                          *)

\* The Terminator is destroyed when no inference runs, and an inference begins
\* while it serves: what Terminator assumes of its owner.
LEMMA OwnerIsGood ==
    ASSUME LifecycleInv
    PROVE  /\ Infer => BeginInference(Tester)
           /\ StopTerminator => StopRunning
<1>1. ASSUME Infer
      PROVE  BeginInference(Tester)
  <2>1. owner = "serving"
    BY <1>1, CallingFacts DEF Infer
  <2>2. begun < MaxFrames
    <3>1. begun + pictures < Pictures
      BY <1>1 DEF Infer, LifecycleInv, InferenceInv
    <3> QED
      BY <3>1, LifecycleAssumption, TerminatorAssumption
         DEF LifecycleInv, TypeOK, LifecycleTypeOK
  <2> QED
    BY <1>1, <2>1, <2>2 DEF Infer, BeginInference
<1>2. ASSUME StopTerminator
      PROVE  StopRunning
  <2>1. \A w \in Workers : stamp[w] = 0
    <3>1. testerThread # "calling"
      BY <1>2, CallingFacts DEF StopTerminator
    <3> QED
      BY <3>1 DEF LifecycleInv, InferenceInv
  <2> QED
    BY <1>2, <2>1 DEF StopTerminator, StopRunning
<1> QED
  BY <1>1, <1>2

\* Every step of the program is a step of its Terminator, or leaves it alone.
LEMMA StepMaps == LifecycleInv /\ [LifecycleNext]_allVars => [Next]_vars
<1> SUFFICES ASSUME LifecycleInv, [LifecycleNext]_allVars
             PROVE  [Next]_vars
  OBVIOUS
<1>1. CASE Infer
  BY <1>1, OwnerIsGood, LifecycleAssumption DEF Next
<1>2. CASE Report
  BY <1>2, LifecycleAssumption DEF Report, Next
<1>3. CASE TerminatorStep
  BY <1>3 DEF TerminatorStep, CallBack, Next, Thread
<1>4. CASE StopTerminator \/ NotifyTerminator \/ JoinTerminator
  BY <1>4, OwnerIsGood DEF NotifyTerminator, JoinTerminator, Next, Owner
<1>5. CASE Construct \/ ThrowOutOfMain \/ StopSpinning \/ ThrowOutOfTester
             \/ TaskThreadEnds \/ NextPicture \/ NoMorePictures
  BY <1>5 DEF Construct, ThrowOutOfMain, StopSpinning, ThrowOutOfTester,
              TaskThreadEnds, NextPicture, NoMorePictures
<1>6. CASE JoinTester \/ StopTask \/ JoinTask \/ \E o \in Objects : Release(o) \/ Finish(o)
  BY <1>6 DEF JoinTester, StopTask, JoinTask, Release, Finish
<1>7. CASE UNCHANGED allVars
  BY <1>7 DEF allVars
<1> QED
  BY <1>1, <1>2, <1>3, <1>4, <1>5, <1>6, <1>7
     DEF LifecycleNext, Step, Destroy, TesterStep

\* Every step keeps the invariant.
LEMMA NextLifecycleInv == LifecycleInv /\ [LifecycleNext]_allVars => LifecycleInv'
<1> SUFFICES ASSUME LifecycleInv, [LifecycleNext]_allVars
             PROVE  LifecycleInv'
  OBVIOUS
<1>1. TypeOK'
  BY StepMaps, NextType DEF LifecycleInv
<1>2. CASE Construct
  BY <1>1, <1>2, ConstructKeepsInv DEF LifecycleInv
<1>3. CASE \E o \in Objects : Release(o)
  BY <1>1, <1>3, ReleaseKeepsInv DEF LifecycleInv
<1>4. CASE StopSpinning \/ (\E o \in Objects : Finish(o)) \/ JoinTester \/ JoinTask
  BY <1>1, <1>4, FinishKeepsInv DEF LifecycleInv
<1>5. CASE JoinTerminator
  BY <1>1, <1>5, JoinKeepsInv DEF LifecycleInv
<1>6. CASE ThrowOutOfMain \/ ThrowOutOfTester \/ StopTask \/ TaskThreadEnds
             \/ NextPicture \/ NoMorePictures \/ UNCHANGED allVars
  <2>1. UNCHANGED objectVars
    BY <1>6 DEF ThrowOutOfMain, ThrowOutOfTester, StopTask, TaskThreadEnds,
                NextPicture, NoMorePictures, allVars, lifecycleVars
  <2> QED
    BY <1>1, <1>6, <2>1, ObjectsUnchanged, PlainStepsKeepInv DEF LifecycleInv
<1>7. CASE Infer \/ Report
  <2>1. UNCHANGED objectVars
    BY <1>7 DEF Infer, Report, lifecycleVars
  <2> QED
    BY <1>1, <1>7, <2>1, ObjectsUnchanged, InferKeepsInv DEF LifecycleInv
<1>8. CASE StopTerminator \/ NotifyTerminator
  <2>1. UNCHANGED objectVars
    BY <1>8 DEF StopTerminator, NotifyTerminator, lifecycleVars
  <2> QED
    BY <1>1, <1>8, <2>1, ObjectsUnchanged, StopKeepsInv DEF LifecycleInv
<1>9. CASE TerminatorStep
  <2>1. UNCHANGED objectVars
    BY <1>9 DEF TerminatorStep, CallBack, lifecycleVars
  <2> QED
    BY <1>1, <1>9, <2>1, ObjectsUnchanged, TerminatorStepKeepsInv DEF LifecycleInv
<1> QED
  BY <1>2, <1>3, <1>4, <1>5, <1>6, <1>7, <1>8, <1>9
     DEF LifecycleNext, Step, Destroy, TesterStep

\* The invariant holds throughout.
LEMMA LifecycleInvariance == LifecycleSpec => []LifecycleInv
BY InitLifecycleInv, NextLifecycleInv, PTL DEF LifecycleSpec

-----------------------------------------------------------------------------
(* The theorems.                                                               *)

\* The life cycle of the program is well typed.
THEOREM LifecycleTypeCorrect == LifecycleSpec => []LifecycleTypeOK
<1>1. LifecycleInv => LifecycleTypeOK
  BY DEF LifecycleInv
<1> QED
  BY <1>1, LifecycleInvariance, PTL

\* The program's Terminator is a Terminator: all that TerminatorProofs shows of
\* one holds in the program too.
THEOREM ProgramRunsTerminator == LifecycleSpec => ImplementsTerminator
<1>1. LifecycleInit => Init
  BY DEF LifecycleInit
<1> QED
  BY <1>1, StepMaps, LifecycleInvariance, PTL DEF LifecycleSpec, Spec, ImplementsTerminator

\* No thread uses an object that is not there, the action server of a late
\* verdict excepted.
THEOREM UsedIsAlwaysUsable == LifecycleSpec => []UsedIsUsable
<1>1. ASSUME LifecycleInv
      PROVE  UsedIsUsable
  <2>1. "tester" \in Objects /\ "task" \in Objects /\ "terminator" \in Objects
    BY DEF Objects
  <2>2. testerThread \in {"next", "calling"} => Usable("tester") /\ Usable("task")
    <3> SUFFICES ASSUME testerThread \in {"next", "calling"}
                 PROVE  Usable("tester") /\ Usable("task")
      OBVIOUS
    <3>1. Usable("tester")
      BY <1>1 DEF LifecycleInv, ThreadInv
    <3>2. held["tester"] = Owned("tester")
      BY <1>1, <2>1, <3>1 DEF LifecycleInv, HeldInv
    <3> QED
      BY <1>1, <2>1, <3>1, <3>2, OwnedFacts DEF LifecycleInv, HeldInv, Usable
  <2>3. taskThread \in {"waiting", "leaving"} => Usable("task") /\ Usable("manager")
    <3> SUFFICES ASSUME taskThread \in {"waiting", "leaving"}
                 PROVE  Usable("task") /\ Usable("manager")
      OBVIOUS
    <3>1. Usable("task")
      BY <1>1 DEF LifecycleInv, ThreadInv
    <3>2. held["task"] = Owned("task")
      BY <1>1, <2>1, <3>1 DEF LifecycleInv, HeldInv
    <3> QED
      BY <1>1, <2>1, <3>1, <3>2, OwnedFacts DEF LifecycleInv, HeldInv, Usable
  <2>4. testerThread = "calling" =>
          /\ \A o \in {"manager", "inference", "terminator"} : stage[o] = "live"
          /\ owner = "serving"
    BY <1>1, CallingFacts
  <2>5. stage["terminator"] # "absent" /\ pc # "exited" => Usable("terminator")
    BY <1>1, <2>1 DEF LifecycleInv, LifecycleTypeOK, Stages, TerminatorInv, Usable
  <2>6. pc = "publish" => Registered
    BY <1>1 DEF LifecycleInv, TerminatorInv, InHand, Registered
  <2> QED
    BY <2>2, <2>3, <2>4, <2>5, <2>6 DEF UsedIsUsable
<1> QED
  BY <1>1, LifecycleInvariance, PTL

\* The action server that is gone is called at most once for each verdict that
\* was due, and for the closing message.
THEOREM DeadCallsAreBounded == LifecycleSpec => []DeadCallsBounded
<1>1. ASSUME LifecycleInv
      PROVE  DeadCallsBounded
  <2>1. /\ InHand \in Nat /\ Len(queue) \in Nat
        /\ dangling \in Nat /\ backlog \in Nat /\ stage["rmf"] \in Stages
    BY <1>1, LenProperties DEF InHand, LifecycleInv, LifecycleTypeOK, TypeOK, Objects
  <2>2. CASE stage["rmf"] \in {"absent", "live", "dying"}
    BY <1>1, <2>1, <2>2 DEF LifecycleInv, DeadInv, DeadCallsBounded
  <2>3. CASE stage["rmf"] \in {"releasing", "gone"}
    BY <1>1, <2>1, <2>3 DEF LifecycleInv, DeadInv, DeadCallsBounded
  <2> QED
    BY <2>1, <2>2, <2>3 DEF Stages
<1> QED
  BY <1>1, LifecycleInvariance, PTL

\* What the program inherits: no update is lost, and its shutdown lets one more
\* verdict out.
THEOREM ProgramKeepsUpdates == LifecycleSpec => [](NoUpdateLost /\ AtMostOneLateVerdict)
<1>1. LifecycleSpec => Spec
  BY ProgramRunsTerminator DEF ImplementsTerminator
<1> QED
  BY <1>1, NoUpdateIsLost, OneLateVerdict, PTL

\* And its claw state is the state of the newest run that settles the verdict,
\* whatever object was built or destroyed before which.
THEOREM ProgramVerdictIsReference == LifecycleSpec => []ClawStateIsReference
<1>1. LifecycleSpec => Spec
  BY ProgramRunsTerminator DEF ImplementsTerminator
<1> QED
  BY <1>1, ClawStateIsTheReference, PTL
=============================================================================
