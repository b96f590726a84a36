------------------------ MODULE ModelLifecycleProofs ------------------------
(* Theorems about ModelLifecycle, for every set of threads and identifiers and *)
(* every number of graphs: which failures an inference can survive, and what   *)
(* the Models do to the power configurations.                                  *)
EXTENDS ModelLifecycle, TLAPS

USE ModelAssumption

\* Where Init_model() has filled in the interface, the backend, the context and
\* the graphs.
WithInterface == InitPlaces \ {"backendLib"}
WithBackend == WithInterface \ {"systemLib", "backend"}
WithContext == {"graphs", "infrastructure", "register"}
WithGraphs == {"infrastructure", "register"}

\* An infrastructure comes last: a Model that has one has everything else.
InfrastructureIsLast(m) ==
    m.perfInfra => m.interface /\ m.backend = "backend" /\ m.context /\ m.retrieved

\* What a Model has at each place of its inference.
Staged(m, place) ==
    /\ place = "idle" => m = NewModel
    /\ place \in InitPlaces \ {"register"} => ~m.created /\ ~m.perfInfra
    /\ place = "register" => m.created
    /\ place \in WithInterface => m.interface
    /\ place \in WithBackend => m.backend = "backend"
    /\ place \in WithContext => m.context
    /\ place \in WithGraphs => m.retrieved
    /\ place \notin {"destroyPower", "erasePower"} => InfrastructureIsLast(m)
    /\ place \in (RunPlaces \ {"setup", "boost"}) \cup EndPlaces => m.perfInfra
    /\ place \in InitPlaces => m.graph = 0
    /\ place \in RunPlaces \ {"setup"} => m.graph < m.count
    /\ m.graph <= m.count
    /\ place \in InitPlaces \cup RunPlaces => m.outputs = m.graph
    /\ ~m.created => m.powerId = DefaultId
    /\ m.outputs > 0 => m.perfInfra
    /\ place = "free" => m.outputs > 0

ControlInv == TypeOK /\ \A w \in Workers : Staged(model[w], pc[w])

-----------------------------------------------------------------------------
(* Types and places.                                                           *)

\* A step of one worker that leads to a sound state of its Model keeps all.
LEMMA ProceedKeepsControl ==
    ASSUME NEW w \in Workers, NEW place \in Places, NEW m \in Models,
           ControlInv, Proceed(w, place, m), Staged(m, place)
    PROVE  /\ model' \in [Workers -> Models]
           /\ pc' \in [Workers -> Places]
           /\ process' \in {"running", "crashed", "terminated"}
           /\ \A v \in Workers : Staged(model'[v], pc'[v])
<1>1. /\ model' \in [Workers -> Models]
      /\ pc' \in [Workers -> Places]
      /\ process' \in {"running", "crashed", "terminated"}
  BY DEF ControlInv, TypeOK, Proceed
<1>2. ASSUME NEW v \in Workers
      PROVE  Staged(model'[v], pc'[v])
  <2>1. CASE v = w
    <3>1. model'[v] = m /\ pc'[v] = place
      BY <2>1 DEF ControlInv, TypeOK, Proceed
    <3> QED
      BY <3>1
  <2>2. CASE v # w
    <3>1. model'[v] = model[v] /\ pc'[v] = pc[v]
      BY <2>2 DEF ControlInv, TypeOK, Proceed
    <3> QED
      BY <3>1 DEF ControlInv
  <2> QED
    BY <2>1, <2>2
<1> QED
  BY <1>1, <1>2

\* A dying process keeps all.
LEMMA DeathKeepsControl ==
    ASSUME ControlInv, NEW how \in {"crashed", "terminated"}, Die(how)
    PROVE  /\ model' \in [Workers -> Models]
           /\ pc' \in [Workers -> Places]
           /\ process' \in {"running", "crashed", "terminated"}
           /\ \A v \in Workers : Staged(model'[v], pc'[v])
BY DEF ControlInv, TypeOK, Die

\* A new Model.
LEMMA NewModelType == NewModel \in Models /\ Staged(NewModel, "idle") /\ Staged(NewModel, "backendLib")
BY DEF NewModel, Models, Settings, Staged, InitPlaces, WithInterface, WithBackend, WithContext,
       WithGraphs, RunPlaces, EndPlaces, InfrastructureIsLast

PowerType ==
    /\ livePower \subseteq PowerIds
    /\ level \in [PowerIds -> {"default", "burst", "saver"}]
    /\ dcvs \in [PowerIds -> {"on", "off"}]
    /\ registered \subseteq PowerIds /\ abandoned \subseteq PowerIds
    /\ heldTensors \in Nat /\ begun \in Nat /\ strays \in Nat

\* Both ways a step of an inference ends, with the rest of the state typed.
LEMMA ProceedIsEnough ==
    ASSUME NEW w \in Workers, NEW place \in Places, NEW m \in Models,
           ControlInv, Proceed(w, place, m), Staged(m, place), PowerType'
    PROVE  ControlInv'
<1>1. /\ model' \in [Workers -> Models]
      /\ pc' \in [Workers -> Places]
      /\ process' \in {"running", "crashed", "terminated"}
      /\ \A v \in Workers : Staged(model'[v], pc'[v])
  BY ProceedKeepsControl
<1>2. TypeOK'
  BY <1>1 DEF TypeOK, PowerType
<1> QED
  BY <1>1, <1>2 DEF ControlInv

\* The same of a step that may end the process.
LEMMA DeathIsEnough ==
    ASSUME ControlInv, NEW how \in {"crashed", "terminated"}, Die(how), PowerType'
    PROVE  ControlInv'
<1>1. /\ model' \in [Workers -> Models]
      /\ pc' \in [Workers -> Places]
      /\ process' \in {"running", "crashed", "terminated"}
      /\ \A v \in Workers : Staged(model'[v], pc'[v])
  BY DeathKeepsControl
<1>2. TypeOK'
  BY <1>1 DEF TypeOK, PowerType
<1> QED
  BY <1>1, <1>2 DEF ControlInv

\* The state of the Model a step begins with.
LEMMA ModelAt ==
    ASSUME ControlInv, NEW w \in Workers
    PROVE  model[w] \in Models /\ pc[w] \in Places /\ Staged(model[w], pc[w]) /\ PowerType
BY DEF ControlInv, TypeOK, PowerType

\* The updates of a Model that keep its type.
LEMMA ModelUpdates ==
    ASSUME NEW m \in Models
    PROVE  /\ \A b \in {"none", "library", "backend"} : [m EXCEPT !.backend = b] \in Models
           /\ \A b \in BOOLEAN :
                /\ [m EXCEPT !.interface = b] \in Models
                /\ [m EXCEPT !.context = b] \in Models
                /\ [m EXCEPT !.retrieved = b] \in Models
                /\ [m EXCEPT !.perfInfra = b] \in Models
           /\ [m EXCEPT !.count = Graphs] \in Models
           /\ \A id \in PowerIds, b \in BOOLEAN :
                [m EXCEPT !.powerId = id, !.created = TRUE, !.regiven = b] \in Models
           /\ \A setting \in Settings : [m EXCEPT !.setting = setting] \in Models
<1>1. \A b \in {"none", "library", "backend"} : [m EXCEPT !.backend = b] \in Models
  BY DEF Models
<1>2. \A b \in BOOLEAN : [m EXCEPT !.interface = b] \in Models
  BY DEF Models
<1>3. \A b \in BOOLEAN : [m EXCEPT !.context = b] \in Models
  BY DEF Models
<1>4. \A b \in BOOLEAN : [m EXCEPT !.retrieved = b] \in Models
  BY DEF Models
<1>5. \A b \in BOOLEAN : [m EXCEPT !.perfInfra = b] \in Models
  BY DEF Models
<1>6. [m EXCEPT !.count = Graphs] \in Models
  BY DEF Models
<1>7. \A id \in PowerIds, b \in BOOLEAN :
        [m EXCEPT !.powerId = id, !.created = TRUE, !.regiven = b] \in Models
  BY DEF Models
<1>8. \A setting \in Settings : [m EXCEPT !.setting = setting] \in Models
  BY DEF Models
<1> QED
  BY <1>1, <1>2, <1>3, <1>4, <1>5, <1>6, <1>7, <1>8

\* The power configurations keep their types in Init_model().
LEMMA InitModelPower ==
    ASSUME ControlInv, NEW w \in Workers, InitModel(w)
    PROVE  PowerType'
<1> USE ModelAt DEF PowerType, power
<1>1. CASE CreatePowerConfig(w)
  <2>1. CASE UNCHANGED <<livePower, level, dcvs>>
    BY <1>1, <2>1 DEF CreatePowerConfig
  <2>2. CASE \E id \in PowerIds : /\ livePower' = livePower \cup {id}
                                 /\ level' = [level EXCEPT ![id] = "default"]
                                 /\ dcvs' = [dcvs EXCEPT ![id] = "on"]
    BY <1>1, <2>2 DEF CreatePowerConfig
  <2> QED
    BY <1>1, <2>1, <2>2 DEF CreatePowerConfig
<1>2. CASE Register(w)
  <2>1. model[w].powerId \in PowerIds
    BY DEF Models
  <2> QED
    BY <1>2, <2>1 DEF Register
<1> QED
  BY <1>1, <1>2 DEF InitModel, LoadBackendLibrary, LoadSystemLibrary, CreateBackend, CreateDevice,
     ReadModelFile, CopyMetadata, CreateContext, RetrieveGraphs

\* Init_model() keeps types and places.
LEMMA InitModelKeepsControl ==
    ASSUME ControlInv, NEW w \in Workers, InitModel(w)
    PROVE  ControlInv'
<1>0. /\ PowerType'
      /\ model[w] \in Models /\ Staged(model[w], pc[w])
  BY InitModelPower, ModelAt
<1> USE DEF At, GiveUp, Staged, InfrastructureIsLast, Places, InitPlaces, RunPlaces,
         EndPlaces, WithInterface, WithBackend, WithContext, WithGraphs
<1>1. CASE LoadBackendLibrary(w)
  <2> DEFINE loaded == [model[w] EXCEPT !.backend = "library"]
             ready == [loaded EXCEPT !.interface = TRUE]
  <2>1. loaded \in Models /\ ready \in Models
    BY <1>0, ModelUpdates
  <2>2. /\ Staged(model[w], "setup") /\ Staged(loaded, "setup")
        /\ Staged(ready, "systemLib")
    BY <1>0, <1>1 DEF LoadBackendLibrary, Models
  <2>3. \/ Proceed(w, "setup", model[w]) \/ Proceed(w, "setup", loaded)
        \/ Proceed(w, "systemLib", ready)
    BY <1>1 DEF LoadBackendLibrary
  <2> QED
    BY <1>0, <2>1, <2>2, <2>3, ProceedIsEnough
<1>2. CASE LoadSystemLibrary(w)
  <2>1. Staged(model[w], "setup") /\ Staged(model[w], "backend")
    BY <1>0, <1>2 DEF LoadSystemLibrary, Models
  <2>2. Proceed(w, "setup", model[w]) \/ Proceed(w, "backend", model[w])
    BY <1>2 DEF LoadSystemLibrary
  <2> QED
    BY <1>0, <2>1, <2>2, ProceedIsEnough
<1>3. CASE CreateBackend(w)
  <2> DEFINE after == [model[w] EXCEPT !.backend = "backend"]
  <2>1. after \in Models
    BY <1>0, ModelUpdates
  <2>2. Staged(model[w], "setup") /\ Staged(after, "device")
    BY <1>0, <1>3 DEF CreateBackend, Models
  <2>3. Proceed(w, "setup", model[w]) \/ Proceed(w, "device", after)
    BY <1>3 DEF CreateBackend
  <2> QED
    BY <1>0, <2>1, <2>2, <2>3, ProceedIsEnough
<1>4. CASE CreateDevice(w)
  <2>1. Staged(model[w], "setup") /\ Staged(model[w], "binary")
    BY <1>0, <1>4 DEF CreateDevice, Models
  <2>2. Proceed(w, "setup", model[w]) \/ Proceed(w, "binary", model[w])
    BY <1>4 DEF CreateDevice
  <2> QED
    BY <1>0, <2>1, <2>2, ProceedIsEnough
<1>5. CASE ReadModelFile(w)
  <2>1. Staged(model[w], "setup") /\ Staged(model[w], "metadata")
    BY <1>0, <1>5 DEF ReadModelFile, Models
  <2>2. Proceed(w, "setup", model[w]) \/ Proceed(w, "metadata", model[w])
    BY <1>5 DEF ReadModelFile
  <2> QED
    BY <1>0, <2>1, <2>2, ProceedIsEnough
<1>6. CASE CopyMetadata(w)
  <2> DEFINE after == [model[w] EXCEPT !.count = Graphs]
  <2>1. after \in Models
    BY <1>0, ModelUpdates
  <2>2. Staged(model[w], "setup") /\ Staged(after, "context")
    BY <1>0, <1>6 DEF CopyMetadata, Models
  <2>3. Proceed(w, "setup", model[w]) \/ Proceed(w, "context", after)
    BY <1>6 DEF CopyMetadata
  <2> QED
    BY <1>0, <2>1, <2>2, <2>3, ProceedIsEnough
<1>7. CASE CreateContext(w)
  <2> DEFINE after == [model[w] EXCEPT !.context = TRUE]
  <2>1. after \in Models
    BY <1>0, ModelUpdates
  <2>2. Staged(model[w], "setup") /\ Staged(after, "graphs")
    BY <1>0, <1>7 DEF CreateContext, Models
  <2>3. Proceed(w, "setup", model[w]) \/ Proceed(w, "graphs", after)
    BY <1>7 DEF CreateContext
  <2> QED
    BY <1>0, <2>1, <2>2, <2>3, ProceedIsEnough
<1>8. CASE RetrieveGraphs(w)
  <2> DEFINE after == [model[w] EXCEPT !.retrieved = TRUE]
  <2>1. after \in Models
    BY <1>0, ModelUpdates
  <2>2. Staged(model[w], "setup") /\ Staged(after, "infrastructure")
    BY <1>0, <1>8 DEF RetrieveGraphs, Models
  <2>3. Proceed(w, "setup", model[w]) \/ Proceed(w, "infrastructure", after)
    BY <1>8 DEF RetrieveGraphs
  <2> QED
    BY <1>0, <2>1, <2>2, <2>3, ProceedIsEnough
<1>9. CASE CreatePowerConfig(w)
  <2> DEFINE found == [model[w] EXCEPT !.perfInfra = TRUE]
             with(id) == [found EXCEPT !.powerId = id, !.created = TRUE,
                                       !.regiven = StillToErase(w, id)]
  <2>1. found \in Models /\ \A id \in PowerIds : with(id) \in Models
    BY <1>0, ModelUpdates DEF StillToErase
  <2>2. /\ Staged(model[w], "setup") /\ Staged(found, "setup")
        /\ \A id \in PowerIds : Staged(with(id), "register")
    BY <1>0, <1>9 DEF CreatePowerConfig, Models
  <2>3. \/ Proceed(w, "setup", model[w]) \/ Proceed(w, "setup", found)
        \/ \E id \in PowerIds : Proceed(w, "register", with(id))
    BY <1>9 DEF CreatePowerConfig
  <2> QED
    BY <1>0, <2>1, <2>2, <2>3, ProceedIsEnough
<1>10. CASE Register(w)
  <2>1. Staged(model[w], "setup")
    BY <1>0, <1>10 DEF Register, Models
  <2>2. Proceed(w, "setup", model[w])
    BY <1>10 DEF Register
  <2> QED
    BY <1>0, <2>1, <2>2, ProceedIsEnough
<1> QED
  BY <1>1, <1>2, <1>3, <1>4, <1>5, <1>6, <1>7, <1>8, <1>9, <1>10 DEF InitModel

\* A setting of a power configuration keeps the types, and leads to one of two
\* places with a Model that differs by what became of the setting.
LEMMA SettingStep ==
    ASSUME ControlInv, NEW w \in Workers, NEW next, NEW done, NEW onward, NEW refused,
           NEW newLevel, NEW newDcvs,
           SetPowerConfig(w, next, done, onward, refused, newLevel, newDcvs),
           PowerConfigId \in livePower =>
             newLevel \in {"default", "burst", "saver"} /\ newDcvs \in {"on", "off"},
           UNCHANGED <<livePower, registered, abandoned, strays, heldTensors, begun>>
    PROVE  /\ PowerType'
           /\ \/ Proceed(w, next, [model[w] EXCEPT !.setting = done])
              \/ Proceed(w, onward, [model[w] EXCEPT !.setting = refused])
<1>1. PowerType
  BY ModelAt
<1>2. CASE PowerConfigId \in livePower
  <2> DEFINE id == PowerConfigId
  <2>1. id \in PowerIds
    BY <1>1, <1>2 DEF PowerType
  <2> HIDE DEF id
  <2>2. /\ \/ level' = [level EXCEPT ![id] = newLevel] /\ dcvs' = [dcvs EXCEPT ![id] = newDcvs]
           \/ UNCHANGED <<level, dcvs>>
    BY DEF SetPowerConfig, id
  <2>3. PowerType'
    BY <1>1, <1>2, <2>1, <2>2 DEF PowerType
  <2> QED
    BY <2>3 DEF SetPowerConfig
<1>3. CASE PowerConfigId \notin livePower
  BY <1>1, <1>3 DEF SetPowerConfig, PowerType
<1> QED
  BY <1>2, <1>3

\* The level and scaling of a configuration that exists are typed.
LEMMA SettingsType ==
    ASSUME ControlInv, PowerConfigId \in livePower
    PROVE  /\ level[PowerConfigId] \in {"default", "burst", "saver"}
           /\ dcvs[PowerConfigId] \in {"on", "off"}
BY DEF ControlInv, TypeOK

\* Inference() keeps types and places.
LEMMA InferenceKeepsControl ==
    ASSUME ControlInv, NEW w \in Workers, Inference(w)
    PROVE  ControlInv'
<1>0. /\ PowerType
      /\ model[w] \in Models /\ Staged(model[w], pc[w])
  BY ModelAt
<1> USE DEF At, GiveUp, Staged, InfrastructureIsLast, Places, InitPlaces, RunPlaces,
         EndPlaces, WithInterface, WithBackend, WithContext, WithGraphs
<1> DEFINE set(setting) == [model[w] EXCEPT !.setting = setting]
<1>1. \A setting \in Settings : set(setting) \in Models
  BY <1>0, ModelUpdates
<1> USE DEF Settings
<1>2. CASE SetupTensors(w)
  <2>1. PowerType'
    BY <1>0, <1>2 DEF SetupTensors, PowerType, power
  <2>2. /\ Staged(model[w], "classify")
        /\ model[w].graph # model[w].count => Staged(model[w], "boost")
    BY <1>0, <1>2 DEF SetupTensors, Models
  <2>3. \/ Proceed(w, "classify", model[w])
        \/ model[w].graph # model[w].count /\ Proceed(w, "boost", model[w])
    BY <1>2 DEF SetupTensors
  <2> QED
    BY <1>0, <2>1, <2>2, <2>3, ProceedIsEnough
<1>3. CASE Boost(w) /\ ~model[w].perfInfra
  <2>1. PowerType'
    BY <1>0, <1>3 DEF Boost, PowerType
  <2> QED
    BY <1>3, <2>1, DeathIsEnough DEF Boost
<1>4. CASE Boost(w) /\ model[w].perfInfra
  <2>1. /\ PowerType'
        /\ \/ Proceed(w, "disableDcvs", set("raised"))
           \/ Proceed(w, "execute", set("failed"))
    BY <1>4, SettingStep, SettingsType DEF Boost
  <2>2. Staged(set("raised"), "disableDcvs") /\ Staged(set("failed"), "execute")
    BY <1>0, <1>4 DEF Boost, Models
  <2> QED
    BY <1>1, <2>1, <2>2, ProceedIsEnough
<1>5. CASE DisableDcvs(w)
  <2>1. /\ PowerType'
        /\ \/ Proceed(w, "execute", set("boosted"))
           \/ Proceed(w, "execute", set("raised"))
    BY <1>5, SettingStep, SettingsType DEF DisableDcvs
  <2>2. Staged(set("boosted"), "execute") /\ Staged(set("raised"), "execute")
    BY <1>0, <1>5 DEF DisableDcvs, Models
  <2> QED
    BY <1>1, <2>1, <2>2, ProceedIsEnough
<1>6. CASE Execute(w)
  <2>1. PowerType'
    BY <1>0, <1>6 DEF Execute, PowerType, power
  <2>2. Staged(model[w], "reset")
    BY <1>0, <1>6 DEF Execute, Models
  <2> QED
    BY <1>0, <1>6, <2>1, <2>2, ProceedIsEnough DEF Execute
<1>7. CASE Reset(w)
  <2>1. /\ PowerType'
        /\ \/ Proceed(w, "enableDcvs", set("reset"))
           \/ Proceed(w, "read", set("failed"))
    BY <1>7, SettingStep, SettingsType DEF Reset
  <2>2. Staged(set("reset"), "enableDcvs") /\ Staged(set("failed"), "read")
    BY <1>0, <1>7 DEF Reset, Models
  <2> QED
    BY <1>1, <2>1, <2>2, ProceedIsEnough
<1>8. CASE EnableDcvs(w)
  <2>1. /\ PowerType'
        /\ \/ Proceed(w, "read", set("restored"))
           \/ Proceed(w, "read", set("reset"))
    BY <1>8, SettingStep, SettingsType DEF EnableDcvs
  <2>2. Staged(set("restored"), "read") /\ Staged(set("reset"), "read")
    BY <1>0, <1>8 DEF EnableDcvs, Models
  <2> QED
    BY <1>1, <2>1, <2>2, ProceedIsEnough
<1>9. CASE ReadOutputs(w)
  <2> DEFINE after == [model[w] EXCEPT !.graph = @ + 1, !.outputs = @ + 1]
  <2>1. PowerType'
    BY <1>0, <1>9 DEF ReadOutputs, PowerType, power
  <2> DEFINE partly == [model[w] EXCEPT !.outputs = @ + 1]
  <2>2. after \in Models /\ partly \in Models
    <3>1. /\ model[w].graph \in 0..Graphs /\ model[w].count \in 0..Graphs
          /\ model[w].outputs = model[w].graph /\ model[w].graph < model[w].count
      BY <1>0, <1>9 DEF ReadOutputs, Models
    <3>2. model[w].graph + 1 \in 0..Graphs /\ model[w].outputs + 1 \in 0..Graphs
      BY <3>1
    <3> QED
      BY <1>0, <3>2 DEF Models
  <2>3. Staged(model[w], "classify") /\ Staged(partly, "classify") /\ Staged(after, "setup")
    BY <1>0, <1>9 DEF ReadOutputs, Models
  <2>4. \/ Proceed(w, "classify", model[w]) \/ Proceed(w, "classify", partly)
        \/ Proceed(w, "setup", after)
    BY <1>9 DEF ReadOutputs
  <2> QED
    BY <1>0, <2>1, <2>2, <2>3, <2>4, ProceedIsEnough
<1> QED
  BY <1>2, <1>3, <1>4, <1>5, <1>6, <1>7, <1>8, <1>9 DEF Inference

\* The classification and the destructor keep types and places.
LEMMA EndKeepsControl ==
    ASSUME ControlInv, NEW w \in Workers, Classify(w) \/ Destructor(w)
    PROVE  ControlInv'
<1>5. DestroyPowerConfig(w) => PowerType'
  BY ModelAt DEF DestroyPowerConfig, Destroyed, Models, PowerType
<1>0. /\ PowerType
      /\ model[w] \in Models /\ Staged(model[w], pc[w])
  BY ModelAt
<1> USE DEF At, GiveUp, Staged, InfrastructureIsLast, Places, InitPlaces, RunPlaces,
         EndPlaces, WithInterface, WithBackend, WithContext, WithGraphs
<1>1. CASE Classify(w)
  <2>1. PowerType'
    BY <1>0, <1>1 DEF Classify, PowerType, power
  <2>2. CASE Die("terminated")
    BY <2>1, <2>2, DeathIsEnough
  <2>3. CASE model[w].outputs > 0 /\ Proceed(w, "free", model[w])
    <3>1. Staged(model[w], "free")
      BY <1>0, <1>1, <2>3 DEF Classify, Models
    <3> QED
      BY <1>0, <2>1, <2>3, <3>1, ProceedIsEnough
  <2> QED
    BY <1>1, <2>2, <2>3 DEF Classify
<1>2. CASE FreeHandles(w)
  <2> DEFINE after == [model[w] EXCEPT !.context = FALSE, !.backend = "none"]
  <2>1. PowerType'
    BY <1>0, <1>2 DEF FreeHandles, PowerType, power
  <2>2. CASE Die("crashed")
    BY <2>1, <2>2, DeathIsEnough
  <2>3. CASE Proceed(w, "destroyPower", after)
    <3>1. after \in Models
      BY <1>0 DEF Models
    <3>2. Staged(after, "destroyPower")
      BY <1>0, <1>2 DEF FreeHandles, Models
    <3> QED
      BY <2>1, <2>3, <3>1, <3>2, ProceedIsEnough
  <2> QED
    BY <1>2, <2>2, <2>3 DEF FreeHandles
<1>3. CASE DestroyPowerConfig(w)
  <2>1. PowerType'
    BY <1>3, <1>5
  <2>2. CASE Die("crashed")
    BY <2>1, <2>2, DeathIsEnough
  <2>3. CASE Proceed(w, "erasePower", model[w])
    <3>1. Staged(model[w], "erasePower")
      BY <1>0, <1>3 DEF DestroyPowerConfig, Models
    <3> QED
      BY <1>0, <2>1, <2>3, <3>1, ProceedIsEnough
  <2> QED
    BY <1>3, <2>2, <2>3 DEF DestroyPowerConfig
<1>4. CASE ErasePowerConfig(w)
  <2>1. PowerType'
    BY <1>0, <1>4 DEF ErasePowerConfig, PowerType
  <2> QED
    BY <1>4, <2>1, NewModelType, ProceedIsEnough DEF ErasePowerConfig
<1> QED
  BY <1>1, <1>2, <1>3, <1>4 DEF Destructor

\* Types and places hold of every behaviour.
LEMMA Control == Spec => []ControlInv
<1>1. Init => ControlInv
  <2> SUFFICES ASSUME Init PROVE ControlInv
    OBVIOUS
  <2>1. TypeOK
    BY NewModelType DEF Init, TypeOK, Places
  <2> QED
    BY <2>1, NewModelType DEF Init, ControlInv
<1>2. ControlInv /\ [Next]_vars => ControlInv'
  <2> SUFFICES ASSUME ControlInv, [Next]_vars
               PROVE  ControlInv'
    OBVIOUS
  <2>1. ASSUME NEW w \in Workers, Begin(w)
        PROVE  ControlInv'
    <3>1. PowerType'
      BY <2>1, ModelAt DEF Begin, PowerType, power
    <3> QED
      BY <2>1, <3>1, NewModelType, ProceedIsEnough DEF Begin, Places, InitPlaces
  <2>2. CASE UNCHANGED vars
    BY <2>2 DEF vars, ControlInv, TypeOK
  <2> QED
    BY <2>1, <2>2, InitModelKeepsControl, InferenceKeepsControl, EndKeepsControl
    DEF Next, Ended
<1> QED
  BY <1>1, <1>2, PTL DEF Spec

\* Every state is well typed.
THEOREM TypeCorrect == Spec => []TypeOK
<1>1. ControlInv => TypeOK
  BY DEF ControlInv
<1> QED
  BY <1>1, Control, PTL

\* Whatever Init_model() failed to do, ~Model() finds all it calls and frees.
THEOREM DestructorAlwaysCovered == Spec => []DestructorIsCovered
<1>1. ControlInv => DestructorIsCovered
  BY DEF ControlInv, Staged, DestructorIsCovered, InfrastructureIsLast, EndPlaces
<1> QED
  BY <1>1, Control, PTL

\* A verdict only comes out of graphs that exist.
THEOREM VerdictsNeedGraphs == Spec => []VerdictNeedsGraphs
<1>1. ControlInv => VerdictNeedsGraphs
  BY DEF ControlInv, Staged, VerdictNeedsGraphs, InfrastructureIsLast, EndPlaces
<1> QED
  BY <1>1, Control, PTL

-----------------------------------------------------------------------------
(* The power configurations.                                                   *)

\* No other Model is about to erase the identifier of a Model, if it was not
\* given to it in that very window.
NoneToErase ==
    \A w \in Workers :
      Holds(w) /\ SafeId(model[w].powerId) /\ ~model[w].regiven =>
        \A v \in Workers \ {w} :
          pc[v] = "erasePower" => model[v].powerId # model[w].powerId

PowerInv ==
    RegisteredIsOwned /\ OwnIsRegistered /\ LiveIsOwned /\ OwnPowerLives /\ NoneToErase

\* A step that leaves the configurations and their owners alone.
LEMMA QuietStep ==
    ASSUME ControlInv, PowerInv, NEW w \in Workers, NEW place, NEW m,
           Proceed(w, place, m), m.created = model[w].created,
           m.powerId = model[w].powerId, m.regiven = model[w].regiven,
           pc[w] # "register", pc[w] # "erasePower",
           place # "register", place # "erasePower",
           UNCHANGED <<livePower, registered, abandoned, strays>>
    PROVE  PowerInv'
<1>1. \A v \in Workers : /\ model'[v].created = model[v].created
                         /\ model'[v].powerId = model[v].powerId
                         /\ model'[v].regiven = model[v].regiven
                         /\ pc'[v] = "erasePower" <=> pc[v] = "erasePower"
                         /\ pc'[v] = "register" <=> pc[v] = "register"
  BY DEF ControlInv, TypeOK, Proceed
<1>2. RegisteredIsOwned'
  BY <1>1 DEF PowerInv, RegisteredIsOwned, Owns
<1>3. LiveIsOwned'
  BY <1>1 DEF PowerInv, LiveIsOwned, Owns, Holds
<1>4. OwnPowerLives' /\ OwnIsRegistered' /\ NoneToErase'
  BY <1>1 DEF PowerInv, OwnPowerLives, OwnIsRegistered, NoneToErase, Holds, SafeId
<1> QED
  BY <1>2, <1>3, <1>4 DEF PowerInv

\* A step in which the process dies.
LEMMA DeathKeepsPower ==
    ASSUME PowerInv, NEW how, Die(how),
           UNCHANGED <<livePower, registered, abandoned, strays>>
    PROVE  PowerInv'
BY DEF PowerInv, RegisteredIsOwned, LiveIsOwned, OwnPowerLives, OwnIsRegistered,
       NoneToErase, Holds, Owns, SafeId, Die

\* The device gives a Model an identifier that no safe Model holds.
LEMMA CreationKeepsPower ==
    ASSUME ControlInv, PowerInv, NEW w \in Workers, NEW id \in PowerIds \ livePower, NEW m,
           At(w, "infrastructure"), Proceed(w, "register", m), m.created, m.powerId = id,
           m.regiven = StillToErase(w, id),
           livePower' = livePower \cup {id}, UNCHANGED <<registered, abandoned, strays>>
    PROVE  PowerInv'
<1>1. ~model[w].created /\ pc[w] = "infrastructure"
  BY DEF ControlInv, Staged, At, InitPlaces
<1>2. /\ model'[w] = m /\ pc'[w] = "register"
      /\ \A v \in Workers \ {w} : model'[v] = model[v] /\ pc'[v] = pc[v]
  BY DEF ControlInv, TypeOK, Proceed
<1>3. RegisteredIsOwned'
  BY <1>1, <1>2 DEF PowerInv, RegisteredIsOwned, Owns
<1>4. LiveIsOwned'
  BY <1>1, <1>2 DEF PowerInv, LiveIsOwned, Owns, Holds
<1>5. OwnPowerLives'
  <2> SUFFICES ASSUME NEW v \in Workers, Holds(v)', SafeId(model[v].powerId)'
               PROVE  /\ model'[v].powerId \in livePower'
                      /\ \A u \in Workers \ {v} : Holds(u)' => model'[u].powerId # model'[v].powerId
    BY DEF OwnPowerLives
  <2>1. \A u \in Workers \ {w} : Holds(u)' => Holds(u)
    BY <1>2 DEF Holds
  <2>2. CASE v = w
    <3>1. \A u \in Workers \ {w} : Holds(u) => model[u].powerId # id
      BY <1>2, <2>2 DEF PowerInv, OwnPowerLives, SafeId
    <3> QED
      BY <1>2, <2>1, <2>2, <3>1
  <2>3. CASE v # w
    <3>1. Holds(v) /\ SafeId(model[v].powerId)
      BY <1>2, <2>1, <2>3 DEF SafeId
    <3>2. model[v].powerId \in livePower
      BY <3>1 DEF PowerInv, OwnPowerLives
    <3>3. \A u \in Workers \ {v, w} : Holds(u) => model[u].powerId # model[v].powerId
      BY <3>1 DEF PowerInv, OwnPowerLives
    <3> QED
      BY <1>2, <2>1, <2>3, <3>2, <3>3
  <2> QED
    BY <2>2, <2>3
<1>6. OwnIsRegistered'
  BY <1>2 DEF PowerInv, OwnIsRegistered, Holds, SafeId
<1>7. NoneToErase'
  <2> SUFFICES ASSUME NEW v \in Workers, Holds(v)', SafeId(model[v].powerId)',
                      ~model'[v].regiven,
                      NEW u \in Workers \ {v}, pc'[u] = "erasePower"
               PROVE  model'[u].powerId # model'[v].powerId
    BY DEF NoneToErase
  <2>1. u # w /\ pc[u] = "erasePower" /\ model'[u] = model[u]
    BY <1>2
  <2>2. CASE v = w
    <3>1. ~StillToErase(w, id) /\ model'[v].powerId = id
      BY <1>2, <2>2
    <3> QED
      BY <2>1, <2>2, <3>1 DEF StillToErase
  <2>3. CASE v # w
    <3>1. Holds(v) /\ SafeId(model[v].powerId) /\ ~model[v].regiven /\ model'[v] = model[v]
      BY <1>2, <2>3 DEF Holds, SafeId
    <3> QED
      BY <2>1, <3>1 DEF PowerInv, NoneToErase
  <2> QED
    BY <2>2, <2>3
<1> QED
  BY <1>3, <1>4, <1>5, <1>6, <1>7 DEF PowerInv

\* A Model destroys its own configuration, which no safe Model shares, or, if it
\* has none, the default one, after which that identifier is not safe.
LEMMA DestructionKeepsPower ==
    ASSUME ControlInv, PowerInv, NEW w \in Workers, DestroyPowerConfig(w)
    PROVE  PowerInv'
<1> DEFINE id == model[w].powerId
<1>1. CASE ~model[w].perfInfra
  BY <1>1, DeathKeepsPower DEF DestroyPowerConfig
<1>2. CASE model[w].perfInfra
  <2>1. /\ model'[w] = model[w] /\ pc'[w] = "erasePower" /\ pc[w] = "destroyPower"
        /\ \A v \in Workers \ {w} : model'[v] = model[v] /\ pc'[v] = pc[v]
        /\ UNCHANGED registered
    BY <1>2 DEF ControlInv, TypeOK, Proceed, DestroyPowerConfig, At
  <2>2. \/ livePower' = livePower \ {id} /\ abandoned' = abandoned \ {id}
        \/ /\ UNCHANGED livePower
           /\ abandoned' = IF model[w].created THEN abandoned \cup {id} ELSE abandoned
    BY <1>2 DEF DestroyPowerConfig, Destroyed
  <2>3. \A v \in Workers : Holds(v)' => v # w /\ Holds(v)
    BY <2>1 DEF Holds
  <2>4. \A v \in Workers :
          Holds(v)' /\ SafeId(model[v].powerId)' => /\ SafeId(model[v].powerId)
                                                    /\ model[v].powerId # id
    <3> SUFFICES ASSUME NEW v \in Workers, Holds(v)', SafeId(model[v].powerId)'
                 PROVE  SafeId(model[v].powerId) /\ model[v].powerId # id
      OBVIOUS
    <3>1. v # w /\ Holds(v) /\ model'[v] = model[v]
      BY <2>1, <2>3
    <3>2. CASE model[w].created
      <4>1. strays' = strays /\ Holds(w)
        BY <1>2, <2>1, <3>2 DEF DestroyPowerConfig, Holds
      <4> QED
        BY <3>1, <4>1 DEF PowerInv, OwnPowerLives, SafeId
    <3>3. CASE ~model[w].created
      <4>1. strays' = strays + 1 /\ strays \in Nat
        BY <1>2, <3>3 DEF DestroyPowerConfig, ControlInv, TypeOK
      <4>2. strays' # 0 /\ id = DefaultId
        BY <3>3, <4>1 DEF ControlInv, Staged
      <4> QED
        BY <3>1, <4>2 DEF SafeId
    <3> QED
      BY <3>2, <3>3
  <2>5. RegisteredIsOwned'
    BY <2>1 DEF PowerInv, RegisteredIsOwned, Owns
  <2>6. LiveIsOwned'
    <3> SUFFICES ASSUME NEW i \in livePower', i \notin abandoned'
                 PROVE  \E v \in Workers : Owns(v, i)' /\ Holds(v)'
      BY DEF LiveIsOwned
    <3>1. i \in livePower \ abandoned
      BY <2>2
    <3>2. PICK v \in Workers : Owns(v, i) /\ Holds(v)
      BY <3>1 DEF PowerInv, LiveIsOwned
    <3>3. v # w
      BY <2>2, <3>2 DEF Owns
    <3> QED
      BY <2>1, <3>2, <3>3 DEF Owns, Holds
  <2>7. OwnPowerLives' /\ OwnIsRegistered' /\ NoneToErase'
    BY <2>1, <2>2, <2>3, <2>4 DEF PowerInv, OwnPowerLives, OwnIsRegistered, NoneToErase
  <2> QED
    BY <2>5, <2>6, <2>7 DEF PowerInv
<1> QED
  BY <1>1, <1>2

\* The last step of a Model takes its identifier out of the set.
LEMMA ErasureKeepsPower ==
    ASSUME ControlInv, PowerInv, NEW w \in Workers, ErasePowerConfig(w)
    PROVE  PowerInv'
<1>1. /\ ~model'[w].created /\ pc[w] = "erasePower" /\ pc'[w] = "idle"
      /\ \A v \in Workers \ {w} : model'[v] = model[v] /\ pc'[v] = pc[v]
      /\ registered' = registered \ {model[w].powerId}
      /\ UNCHANGED <<livePower, abandoned, strays>>
  BY DEF ControlInv, TypeOK, Proceed, ErasePowerConfig, NewModel, At
<1>2. RegisteredIsOwned'
  BY <1>1 DEF PowerInv, RegisteredIsOwned, Owns
<1>3. LiveIsOwned'
  BY <1>1 DEF PowerInv, LiveIsOwned, Owns, Holds
<1>4. OwnPowerLives' /\ NoneToErase'
  BY <1>1 DEF PowerInv, OwnPowerLives, NoneToErase, Holds, SafeId
<1>5. OwnIsRegistered'
  BY <1>1 DEF PowerInv, OwnIsRegistered, NoneToErase, Holds, SafeId
<1> QED
  BY <1>2, <1>3, <1>4, <1>5 DEF PowerInv

\* Registration: the Model is at "register" only with an identifier of its own.
LEMMA RegistrationKeepsPower ==
    ASSUME ControlInv, PowerInv, NEW w \in Workers, Register(w), model[w].created
    PROVE  PowerInv'
<1>1. /\ \A v \in Workers : /\ model'[v] = model[v]
                            /\ pc'[v] = "erasePower" <=> pc[v] = "erasePower"
                            /\ v # w => pc'[v] = pc[v]
      /\ registered' = registered \cup {model[w].powerId}
      /\ UNCHANGED <<livePower, abandoned, strays>>
  BY DEF ControlInv, TypeOK, Proceed, Register, At
<1>2. RegisteredIsOwned'
  BY <1>1 DEF PowerInv, RegisteredIsOwned, Owns
<1>3. LiveIsOwned'
  BY <1>1 DEF PowerInv, LiveIsOwned, Owns, Holds
<1>4. OwnPowerLives' /\ OwnIsRegistered' /\ NoneToErase'
  BY <1>1 DEF PowerInv, OwnPowerLives, OwnIsRegistered, NoneToErase, Holds, SafeId
<1> QED
  BY <1>2, <1>3, <1>4 DEF PowerInv

\* Init_model() keeps the configurations apart.
LEMMA InitModelKeepsPower ==
    ASSUME ControlInv, PowerInv, NEW w \in Workers, InitModel(w)
    PROVE  PowerInv'
<1> USE ModelAt DEF At, GiveUp, power
<1>1. CASE LoadBackendLibrary(w)
  BY <1>1, QuietStep DEF LoadBackendLibrary, Models
<1>2. CASE LoadSystemLibrary(w)
  BY <1>2, QuietStep DEF LoadSystemLibrary
<1>3. CASE CreateBackend(w)
  BY <1>3, QuietStep DEF CreateBackend, Models
<1>4. CASE CreateDevice(w)
  BY <1>4, QuietStep DEF CreateDevice
<1>5. CASE ReadModelFile(w)
  BY <1>5, QuietStep DEF ReadModelFile
<1>6. CASE CopyMetadata(w)
  BY <1>6, QuietStep DEF CopyMetadata, Models
<1>7. CASE CreateContext(w)
  BY <1>7, QuietStep DEF CreateContext, Models
<1>8. CASE RetrieveGraphs(w)
  BY <1>8, QuietStep DEF RetrieveGraphs, Models
<1>9. CASE CreatePowerConfig(w)
  <2> DEFINE found == [model[w] EXCEPT !.perfInfra = TRUE]
             with(id) == [found EXCEPT !.powerId = id, !.created = TRUE,
                                       !.regiven = StillToErase(w, id)]
  <2>1. /\ found.regiven = model[w].regiven /\ found.created = model[w].created /\ found.powerId = model[w].powerId
        /\ \A id \in PowerIds : /\ with(id).created /\ with(id).powerId = id
                                /\ with(id).regiven = StillToErase(w, id)
    BY DEF Models
  <2>2. CASE /\ Proceed(w, "setup", model[w]) \/ Proceed(w, "setup", found)
             /\ UNCHANGED livePower
    BY <1>9, <2>1, <2>2, QuietStep DEF CreatePowerConfig
  <2>3. CASE \E id \in PowerIds \ livePower :
               livePower' = livePower \cup {id} /\ Proceed(w, "register", with(id))
    BY <1>9, <2>1, <2>3, CreationKeepsPower DEF CreatePowerConfig
  <2> QED
    BY <1>9, <2>2, <2>3 DEF CreatePowerConfig
<1>10. CASE Register(w)
  BY <1>10, RegistrationKeepsPower DEF Register, Staged
<1> QED
  BY <1>1, <1>2, <1>3, <1>4, <1>5, <1>6, <1>7, <1>8, <1>9, <1>10 DEF InitModel

\* Inference() keeps them apart, whatever it sets them to.
LEMMA InferenceKeepsPower ==
    ASSUME ControlInv, PowerInv, NEW w \in Workers, Inference(w)
    PROVE  PowerInv'
<1> USE ModelAt DEF At, power
<1> DEFINE set(setting) == [model[w] EXCEPT !.setting = setting]
<1>1. \A setting : /\ set(setting).created = model[w].created
                   /\ set(setting).regiven = model[w].regiven
                   /\ set(setting).powerId = model[w].powerId
  BY DEF Models
<1>2. CASE SetupTensors(w)
  BY <1>2, QuietStep DEF SetupTensors
<1>3. CASE Boost(w) /\ ~model[w].perfInfra
  BY <1>3, DeathKeepsPower DEF Boost
<1>4. CASE Boost(w) /\ model[w].perfInfra
  BY <1>1, <1>4, QuietStep DEF Boost, SetPowerConfig
<1>5. CASE DisableDcvs(w)
  BY <1>1, <1>5, QuietStep DEF DisableDcvs, SetPowerConfig
<1>6. CASE Execute(w)
  BY <1>6, QuietStep DEF Execute
<1>7. CASE Reset(w)
  BY <1>1, <1>7, QuietStep DEF Reset, SetPowerConfig
<1>8. CASE EnableDcvs(w)
  BY <1>1, <1>8, QuietStep DEF EnableDcvs, SetPowerConfig
<1>9. CASE ReadOutputs(w)
  <2> DEFINE after == [model[w] EXCEPT !.graph = @ + 1, !.outputs = @ + 1]
             partly == [model[w] EXCEPT !.outputs = @ + 1]
  <2>1. \A m \in {after, partly} : /\ m.created = model[w].created
                                   /\ m.powerId = model[w].powerId
                                   /\ m.regiven = model[w].regiven
    BY DEF Models
  <2> QED
    BY <1>9, <2>1, QuietStep DEF ReadOutputs
<1> QED
  BY <1>2, <1>3, <1>4, <1>5, <1>6, <1>7, <1>8, <1>9 DEF Inference

\* The classification and the destructor.
LEMMA EndKeepsPower ==
    ASSUME ControlInv, PowerInv, NEW w \in Workers, Classify(w) \/ Destructor(w)
    PROVE  PowerInv'
<1> USE ModelAt DEF At, power
<1>1. CASE Classify(w)
  BY <1>1, QuietStep, DeathKeepsPower DEF Classify
<1>2. CASE FreeHandles(w)
  <2> DEFINE after == [model[w] EXCEPT !.context = FALSE, !.backend = "none"]
  <2>1. /\ after.created = model[w].created /\ after.powerId = model[w].powerId
        /\ after.regiven = model[w].regiven
    BY DEF Models
  <2> QED
    BY <1>2, <2>1, QuietStep, DeathKeepsPower DEF FreeHandles
<1> QED
  BY <1>1, <1>2, DestructionKeepsPower, ErasureKeepsPower DEF Destructor

\* The configurations are owned and apart in every behaviour.
LEMMA Powers == Spec => []PowerInv
<1>1. Init => PowerInv
  BY DEF Init, PowerInv, RegisteredIsOwned, LiveIsOwned, OwnPowerLives, OwnIsRegistered,
         NoneToErase, Holds, NewModel
<1>2. ControlInv /\ PowerInv /\ [Next]_vars => PowerInv'
  <2> SUFFICES ASSUME ControlInv, PowerInv, [Next]_vars
               PROVE  PowerInv'
    OBVIOUS
  <2>1. ASSUME NEW w \in Workers, Begin(w)
        PROVE  PowerInv'
    <3>1. model[w] = NewModel /\ pc[w] = "idle"
      BY <2>1, ModelAt DEF Begin, At, Staged
    <3> QED
      BY <2>1, <3>1, QuietStep DEF Begin, power
  <2>2. CASE UNCHANGED vars
    BY <2>2 DEF vars, PowerInv, RegisteredIsOwned, LiveIsOwned, OwnPowerLives,
                OwnIsRegistered, NoneToErase, Holds, Owns, SafeId
  <2> QED
    BY <2>1, <2>2, InitModelKeepsPower, InferenceKeepsPower, EndKeepsPower
    DEF Next, Ended
<1> QED
  BY <1>1, <1>2, Control, PTL DEF Spec

\* The registered identifiers are those of the Models that are there, and a
\* configuration without its Model is one whose destruction was refused.
THEOREM PowersAreAlwaysOwned == Spec => []PowersAreOwned
<1>1. PowerInv => PowersAreOwned
  BY DEF PowerInv, PowersAreOwned
<1> QED
  BY <1>1, Powers, PTL

\* Every Model keeps the configuration it was given, but for the default one once
\* a Model was refused.
THEOREM OwnPowersLive == Spec => []OwnPowerLives
<1>1. PowerInv => OwnPowerLives
  BY DEF PowerInv
<1> QED
  BY <1>1, Powers, PTL

-----------------------------------------------------------------------------
(* One thread: the graph executes under the Model's own configuration.         *)

Mine(w) == model[w].created \/ model[w].powerId \in abandoned

\* A thread that is alone stays registered until it erases itself.
Enrolled ==
    \A w \in Workers :
      model[w].created /\ pc[w] # "register" => model[w].powerId \in registered

\* What was accepted of the settings is in force.
InForce ==
    \A w \in Workers :
      LET own == model[w].powerId
          setting == model[w].setting
      IN  /\ pc[w] = "disableDcvs" =>
               Mine(w) /\ level[own] = "burst" /\ dcvs[own] = "on"
          /\ pc[w] = "enableDcvs" =>
               Mine(w) /\ level[own] = "saver" /\ dcvs[own] = "on"
          /\ pc[w] = "execute" /\ setting \in {"raised", "boosted"} =>
               Mine(w) /\ level[own] = "burst" /\ (dcvs[own] = "off" <=> setting = "boosted")
          /\ pc[w] = "read" /\ setting \in {"reset", "restored"} =>
               Mine(w) /\ level[own] = "saver" /\ dcvs[own] = "on"

\* Every step of a thread that is alone keeps it registered.
LEMMA EnrolledStep ==
    ASSUME NEW w, Workers = {w}, ControlInv, Enrolled, [Next]_vars
    PROVE  Enrolled'
<1>0. /\ w \in Workers /\ \A v \in Workers : v = w
      /\ model[w] \in Models
  BY DEF ControlInv, TypeOK
<1> USE DEF Enrolled
<1>1. CASE UNCHANGED vars
  BY <1>1 DEF vars
<1>2. ASSUME ~model'[w].created \/ pc'[w] = "register"
      PROVE  Enrolled'
  BY <1>0, <1>2
<1>3. ASSUME NEW place, NEW m, Proceed(w, place, m), m.created = model[w].created,
             m.powerId = model[w].powerId, pc[w] # "register", UNCHANGED registered
      PROVE  Enrolled'
  BY <1>0, <1>3 DEF Proceed, ControlInv, TypeOK
<1>4. ASSUME NEW how, Die(how), UNCHANGED registered
      PROVE  Enrolled'
  BY <1>4 DEF Die
<1> DEFINE set(s) == [model[w] EXCEPT !.setting = s]
<1>5. \A s : set(s).created = model[w].created /\ set(s).powerId = model[w].powerId
  BY <1>0 DEF Models
<1> USE DEF At, GiveUp, power
<1>6. CASE Begin(w)
  BY <1>0, <1>2, <1>6 DEF Begin, Proceed, NewModel, ControlInv, TypeOK
<1>7. CASE InitModel(w)
  <2>1. CASE CreatePowerConfig(w)
    <3> DEFINE found == [model[w] EXCEPT !.perfInfra = TRUE]
    <3>1. ~model[w].created /\ ~found.created
      BY <1>0, <2>1 DEF CreatePowerConfig, ControlInv, Staged, InitPlaces, Models
    <3>2. CASE Proceed(w, "setup", model[w]) \/ Proceed(w, "setup", found)
      BY <1>0, <1>2, <3>1, <3>2 DEF Proceed, ControlInv, TypeOK
    <3>3. CASE \E m : Proceed(w, "register", m)
      BY <1>0, <1>2, <3>3 DEF Proceed, ControlInv, TypeOK
    <3> QED
      BY <2>1, <3>2, <3>3 DEF CreatePowerConfig
  <2>2. CASE Register(w)
    BY <1>0, <2>2 DEF Register, Proceed, ControlInv, TypeOK
  <2>3. CASE LoadBackendLibrary(w) \/ CreateBackend(w) \/ CopyMetadata(w)
               \/ CreateContext(w) \/ RetrieveGraphs(w)
    BY <1>0, <1>3, <2>3 DEF LoadBackendLibrary, CreateBackend, CopyMetadata,
       CreateContext, RetrieveGraphs, Models
  <2>4. CASE LoadSystemLibrary(w) \/ CreateDevice(w) \/ ReadModelFile(w)
    BY <1>0, <1>3, <2>4 DEF LoadSystemLibrary, CreateDevice, ReadModelFile
  <2> QED
    BY <1>7, <2>1, <2>2, <2>3, <2>4 DEF InitModel
<1>8. CASE SetupTensors(w) \/ Execute(w)
  BY <1>3, <1>8 DEF SetupTensors, Execute
<1>9. CASE ReadOutputs(w)
  BY <1>0, <1>3, <1>9 DEF ReadOutputs, Models
<1>10. CASE Boost(w)
  BY <1>3, <1>4, <1>5, <1>10 DEF Boost, SetPowerConfig
<1>11. CASE DisableDcvs(w) \/ Reset(w) \/ EnableDcvs(w)
  BY <1>3, <1>5, <1>11 DEF DisableDcvs, Reset, EnableDcvs, SetPowerConfig
<1>12. CASE Classify(w)
  BY <1>3, <1>4, <1>12 DEF Classify
<1>13. CASE FreeHandles(w)
  BY <1>0, <1>3, <1>4, <1>13 DEF FreeHandles, Models
<1>14. CASE DestroyPowerConfig(w)
  BY <1>3, <1>4, <1>14 DEF DestroyPowerConfig
<1>15. CASE ErasePowerConfig(w)
  BY <1>0, <1>2, <1>15 DEF ErasePowerConfig, Proceed, NewModel, ControlInv, TypeOK
<1> QED
  BY <1>0, <1>1, <1>6, <1>7, <1>8, <1>9, <1>10, <1>11, <1>12, <1>13, <1>14, <1>15
  DEF Next, Inference, Destructor, Ended

\* A thread that is alone only ever finds its own configuration, or the default
\* one of an earlier Model that failed to destroy it.
LEMMA SettingIsOwn ==
    ASSUME NEW w, Workers = {w}, ControlInv, PowerInv, Enrolled, pc[w] # "register",
           PowerConfigId \in livePower
    PROVE  Mine(w) /\ PowerConfigId = model[w].powerId
<1>0. \A id \in registered : Owns(w, id)
  BY DEF PowerInv, RegisteredIsOwned
<1>1. CASE model[w].created
  <2>1. registered = {model[w].powerId}
    BY <1>0, <1>1 DEF Enrolled, Owns
  <2>2. model[w].powerId \in Nat
    BY DEF ControlInv, TypeOK, Models
  <2>3. \E id \in registered : \A other \in registered : id <= other
    BY <2>1, <2>2
  <2>4. PowerConfigId \in registered
    BY <2>1, <2>3 DEF PowerConfigId
  <2> QED
    BY <1>1, <2>1, <2>4 DEF Mine
<1>2. CASE ~model[w].created
  <2>1. registered = {} /\ model[w].powerId = DefaultId
    BY <1>0, <1>2 DEF Owns, ControlInv, Staged
  <2>2. PowerConfigId = DefaultId
    BY <2>1 DEF PowerConfigId
  <2>3. DefaultId \in abandoned
    BY <1>2, <2>2 DEF PowerInv, LiveIsOwned, Owns
  <2> QED
    BY <2>1, <2>2, <2>3 DEF Mine
<1> QED
  BY <1>1, <1>2

\* A setting that is accepted makes the Model's own configuration what it says,
\* and one that is refused leaves it as it is.
LEMMA SettingSticks ==
    ASSUME NEW w, Workers = {w}, ControlInv, PowerInv, Enrolled, pc[w] # "register",
           NEW next, NEW done, NEW onward, NEW refused, NEW newLevel, NEW newDcvs,
           SetPowerConfig(w, next, done, onward, refused, newLevel, newDcvs),
           UNCHANGED abandoned
    PROVE  \/ /\ model'[w].created \/ model'[w].powerId \in abandoned
              /\ model'[w].setting = done /\ pc'[w] = next
              /\ level'[model'[w].powerId] = newLevel
              /\ dcvs'[model'[w].powerId] = newDcvs
              /\ PowerConfigId = model[w].powerId
           \/ /\ model'[w].setting = refused /\ pc'[w] = onward
              /\ model'[w].created = model[w].created
              /\ model'[w].powerId = model[w].powerId
              /\ level' = level /\ dcvs' = dcvs
<1> DEFINE set(s) == [model[w] EXCEPT !.setting = s]
<1>0. model[w] \in Models /\ PowerType
  BY ModelAt
<1>1. \A s : /\ set(s).created = model[w].created /\ set(s).powerId = model[w].powerId
             /\ set(s).setting = s
  BY <1>0 DEF Models
<1>2. CASE /\ PowerConfigId \in livePower
           /\ level' = [level EXCEPT ![PowerConfigId] = newLevel]
           /\ dcvs' = [dcvs EXCEPT ![PowerConfigId] = newDcvs]
           /\ Proceed(w, next, set(done))
  <2>1. Mine(w) /\ PowerConfigId = model[w].powerId
    BY <1>2, SettingIsOwn
  <2>2. model'[w] = set(done) /\ pc'[w] = next
    BY <1>2 DEF ControlInv, TypeOK, Proceed
  <2>3. model[w].powerId \in PowerIds
    BY <1>0 DEF Models
  <2>4. /\ level'[model[w].powerId] = newLevel
        /\ dcvs'[model[w].powerId] = newDcvs
    BY <1>0, <1>2, <2>1, <2>3 DEF PowerType
  <2> QED
    BY <1>1, <2>1, <2>2, <2>4 DEF Mine
<1>3. CASE Proceed(w, onward, set(refused)) /\ UNCHANGED <<level, dcvs>>
  <2>1. model'[w] = set(refused) /\ pc'[w] = onward
    BY <1>3 DEF ControlInv, TypeOK, Proceed
  <2> QED
    BY <1>1, <1>3, <2>1 DEF Mine
<1> QED
  BY <1>2, <1>3 DEF SetPowerConfig

\* The places where InForce says something.
SettingPlaces == {"disableDcvs", "enableDcvs", "execute", "read"}

\* Every step keeps what was accepted in force: four settings establish it, and
\* the other steps leave its places or do not reach them.
LEMMA InForceStep ==
    ASSUME NEW w, Workers = {w}, ControlInv, PowerInv, Enrolled, InForce, [Next]_vars
    PROVE  InForce'
<1>0. w \in Workers /\ \A v \in Workers : v = w
  OBVIOUS
<1>1. CASE UNCHANGED vars
  BY <1>1 DEF vars, InForce, Mine
<1>2. ASSUME pc'[w] \notin SettingPlaces
      PROVE  InForce'
  BY <1>0, <1>2 DEF InForce, SettingPlaces
<1>3. CASE Boost(w)
  <2>1. CASE Die("crashed") /\ UNCHANGED <<level, dcvs, abandoned>>
    BY <2>1 DEF Die, InForce, Mine
  <2>2. CASE SetPowerConfig(w, "disableDcvs", "raised", "execute", "failed", "burst", "on")
    <3>1. pc[w] # "register" /\ UNCHANGED abandoned
      BY <1>3 DEF Boost, At
    <3> QED
      BY <1>0, <2>2, <3>1, SettingSticks DEF InForce, Mine
  <2> QED
    BY <1>3, <2>1, <2>2 DEF Boost
<1>4. CASE DisableDcvs(w)
  <2>1. /\ SetPowerConfig(w, "execute", "boosted", "execute", "raised",
                          level[PowerConfigId], "off")
        /\ pc[w] = "disableDcvs" /\ UNCHANGED abandoned
    BY <1>4 DEF DisableDcvs, At
  <2>2. Mine(w) /\ level[model[w].powerId] = "burst" /\ dcvs[model[w].powerId] = "on"
    BY <1>0, <2>1 DEF InForce
  <2>3. /\ Mine(w)' /\ pc'[w] = "execute" /\ level'[model'[w].powerId] = "burst"
        /\ \/ model'[w].setting = "boosted" /\ dcvs'[model'[w].powerId] = "off"
           \/ model'[w].setting = "raised" /\ dcvs'[model'[w].powerId] = "on"
    BY <2>1, <2>2, SettingSticks DEF Mine
  <2> QED
    BY <1>0, <2>3 DEF InForce, Mine
<1>5. CASE Reset(w)
  <2>1. /\ SetPowerConfig(w, "enableDcvs", "reset", "read", "failed", "saver", "on")
        /\ pc[w] # "register" /\ UNCHANGED abandoned
    BY <1>5 DEF Reset, At
  <2> QED
    BY <1>0, <2>1, SettingSticks DEF InForce, Mine
<1>6. CASE EnableDcvs(w)
  <2>1. /\ SetPowerConfig(w, "read", "restored", "read", "reset",
                          level[PowerConfigId], "on")
        /\ pc[w] = "enableDcvs" /\ UNCHANGED abandoned
    BY <1>6 DEF EnableDcvs, At
  <2>2. Mine(w) /\ level[model[w].powerId] = "saver" /\ dcvs[model[w].powerId] = "on"
    BY <1>0, <2>1 DEF InForce
  <2>3. /\ Mine(w)' /\ pc'[w] = "read" /\ level'[model'[w].powerId] = "saver"
        /\ dcvs'[model'[w].powerId] = "on"
    BY <2>1, <2>2, SettingSticks DEF Mine
  <2> QED
    BY <1>0, <2>3 DEF InForce, Mine
<1>7. CASE Begin(w) \/ InitModel(w) \/ SetupTensors(w) \/ Execute(w) \/ ReadOutputs(w)
             \/ Classify(w) \/ Destructor(w)
  <2>1. CASE \E how \in {"crashed", "terminated"} :
               Die(how) /\ UNCHANGED <<level, dcvs, abandoned>>
    BY <2>1 DEF Die, InForce, Mine
  <2>2. CASE \E place \in Places \ SettingPlaces : \E m : Proceed(w, place, m)
    <3>1. pc'[w] \notin SettingPlaces
      BY <1>0, <2>2 DEF Proceed, ControlInv, TypeOK
    <3> QED
      BY <1>2, <3>1
  <2> QED
    <3> USE DEF Places, SettingPlaces, InitPlaces, RunPlaces, EndPlaces, GiveUp, power
    <3>1. CASE Begin(w) \/ InitModel(w)
      BY <2>2, <3>1 DEF Begin, InitModel, LoadBackendLibrary, LoadSystemLibrary,
         CreateBackend, CreateDevice, ReadModelFile, CopyMetadata, CreateContext,
         RetrieveGraphs, CreatePowerConfig, Register
    <3>2. CASE SetupTensors(w) \/ Execute(w) \/ ReadOutputs(w)
      BY <2>2, <3>2 DEF SetupTensors, Execute, ReadOutputs
    <3>3. CASE Classify(w) \/ Destructor(w)
      BY <2>1, <2>2, <3>3 DEF Classify, Destructor, FreeHandles, DestroyPowerConfig,
         ErasePowerConfig
    <3> QED
      BY <1>7, <3>1, <3>2, <3>3
<1> QED
  BY <1>0, <1>1, <1>3, <1>4, <1>5, <1>6, <1>7 DEF Next, Inference, Ended

\* With one thread, what the device accepted of the settings is in force on the
\* Model's configuration while the graph executes and while its outputs are read.
THEOREM PowerFollows ==
    ASSUME NEW w, Workers = {w}
    PROVE  Spec => []PowerFollowsExecution
<1>1. Init => Enrolled /\ InForce
  BY DEF Init, Enrolled, InForce, NewModel
<1>2. ControlInv /\ PowerInv /\ Enrolled /\ InForce /\ [Next]_vars => Enrolled' /\ InForce'
  BY EnrolledStep, InForceStep
<1>3. InForce => PowerFollowsExecution
  BY DEF InForce, Mine, PowerFollowsExecution
<1> QED
  BY <1>1, <1>2, <1>3, Control, Powers, PTL DEF Spec
=============================================================================
