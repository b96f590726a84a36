--------------------------- MODULE ModelLifecycle ---------------------------
(* ClassificationInference::inference() and the Model it makes for each frame: *)
(* Init_model(), whose result is ignored, Inference(), the classification and  *)
(* ~Model(). The Models of several threads share the power configurations of   *)
(* the device and the set sg_powerConfigIds. An invalid function pointer and   *)
(* an exception nobody catches both end the process. The QNN libraries may     *)
(* fail in every call; the branch for ABC is not compiled.                     *)
EXTENDS Integers, FiniteSets

CONSTANTS
    Workers,      \* threads that run inferences
    PowerIds,     \* identifiers the device gives to power configurations
    Graphs,       \* graphs in the model file
    MaxModels     \* bound: inferences begun

\* A Model starts with the identifier 1, which a device may also give away.
DefaultId == 1

ASSUME ModelAssumption ==
    /\ PowerIds \subseteq Nat \ {0} /\ DefaultId \in PowerIds
    /\ Graphs \in Nat \ {0} /\ MaxModels \in Nat

VARIABLES
    process,      \* whether the process runs, crashed or was terminated
    pc,           \* pc[w]: the next step of w's inference
    model,        \* model[w]: the members of w's Model that decide its steps
    livePower,    \* external: the power configurations that exist
    level,        \* external: what each was last set to
    dcvs,         \* external: and its voltage scaling, on or off
    registered,   \* sg_powerConfigIds
    abandoned,    \* history variable: identifiers a Model failed to destroy
    heldTensors,  \* sets of tensors allocated and not freed
    begun,        \* history variable: inferences begun (bounds the model)
    strays        \* history variable: configurations destroyed by a Model
                  \* that had not created one

power == <<livePower, level, dcvs, registered, abandoned, strays>>
vars == <<process, pc, model, livePower, level, dcvs, registered, abandoned,
          heldTensors, begun, strays>>

InitPlaces == {"backendLib", "systemLib", "backend", "device", "binary", "metadata",
               "context", "graphs", "infrastructure", "register"}
RunPlaces == {"setup", "boost", "disableDcvs", "execute", "reset", "enableDcvs", "read"}
EndPlaces == {"free", "destroyPower", "erasePower"}
Places == {"idle", "classify"} \cup InitPlaces \cup RunPlaces \cup EndPlaces

Settings == {"unset", "raised", "boosted", "reset", "restored", "failed"}

Models == [
    interface : BOOLEAN,    \* QNN_Interface has been filled in
    backend : {"none", "library", "backend"},     \* what Backend_handle is
    count : 0..Graphs,      \* Q_GraphsCount
    context : BOOLEAN,      \* Context has been created
    retrieved : BOOLEAN,    \* and every graph has its handle
    perfInfra : BOOLEAN,    \* Q_PerfInfra has been filled in
    powerId : PowerIds,     \* Q_PowerConfigId
    created : BOOLEAN,      \* history: the device gave that identifier
    regiven : BOOLEAN,      \* history: and another Model had still to erase it
    setting : Settings,     \* history: the last setting that was accepted
    graph : 0..Graphs,      \* graphs run so far
    outputs : 0..Graphs]    \* graphs with an output in output_tensor

NewModel == [interface |-> FALSE, backend |-> "none", count |-> 0, context |-> FALSE,
             retrieved |-> FALSE, perfInfra |-> FALSE, powerId |-> DefaultId,
             created |-> FALSE, regiven |-> FALSE, setting |-> "unset", graph |-> 0,
             outputs |-> 0]

Init ==
    /\ process = "running"
    /\ pc = [w \in Workers |-> "idle"]
    /\ model = [w \in Workers |-> NewModel]
    /\ livePower = {}
    /\ level = [id \in PowerIds |-> "default"]
    /\ dcvs = [id \in PowerIds |-> "on"]
    /\ registered = {} /\ abandoned = {}
    /\ heldTensors = 0 /\ begun = 0 /\ strays = 0

At(w, place) == process = "running" /\ pc[w] = place

Proceed(w, place, m) ==
    /\ pc' = [pc EXCEPT ![w] = place]
    /\ model' = [model EXCEPT ![w] = m]
    /\ UNCHANGED process

\* A failure of Init_model is not looked at: Inference() comes next.
GiveUp(w, m) == Proceed(w, "setup", m)

Die(how) == process' = how /\ UNCHANGED <<pc, model>>

-----------------------------------------------------------------------------
(* Init_model().                                                               *)

Begin(w) ==
    /\ At(w, "idle")
    /\ begun < MaxModels
    /\ begun' = begun + 1
    /\ Proceed(w, "backendLib", NewModel)
    /\ UNCHANGED <<power, heldTensors>>

\* (1) The library may not load, or hold no interface that fits.
LoadBackendLibrary(w) ==
    /\ At(w, "backendLib")
    /\ LET loaded == [model[w] EXCEPT !.backend = "library"]
       IN  \/ GiveUp(w, model[w])
           \/ GiveUp(w, loaded)
           \/ Proceed(w, "systemLib", [loaded EXCEPT !.interface = TRUE])
    /\ UNCHANGED <<power, heldTensors, begun>>

\* (2)
LoadSystemLibrary(w) ==
    /\ At(w, "systemLib")
    /\ GiveUp(w, model[w]) \/ Proceed(w, "backend", model[w])
    /\ UNCHANGED <<power, heldTensors, begun>>

\* (3) The backend takes the place of the handle of its library.
CreateBackend(w) ==
    /\ At(w, "backend")
    /\ \/ GiveUp(w, model[w])
       \/ Proceed(w, "device", [model[w] EXCEPT !.backend = "backend"])
    /\ UNCHANGED <<power, heldTensors, begun>>

\* (4) and (5)
CreateDevice(w) ==
    /\ At(w, "device")
    /\ GiveUp(w, model[w]) \/ Proceed(w, "binary", model[w])
    /\ UNCHANGED <<power, heldTensors, begun>>

\* The file is read and handed to the system library.
ReadModelFile(w) ==
    /\ At(w, "binary")
    /\ GiveUp(w, model[w]) \/ Proceed(w, "metadata", model[w])
    /\ UNCHANGED <<power, heldTensors, begun>>

\* copyMetadataToGraphsInfo(): the graphs are counted once they have been
\* copied, among them those whose tensors could not be.
CopyMetadata(w) ==
    /\ At(w, "metadata")
    /\ \/ GiveUp(w, model[w])
       \/ Proceed(w, "context", [model[w] EXCEPT !.count = Graphs])
    /\ UNCHANGED <<power, heldTensors, begun>>

CreateContext(w) ==
    /\ At(w, "context")
    /\ \/ GiveUp(w, model[w])
       \/ Proceed(w, "graphs", [model[w] EXCEPT !.context = TRUE])
    /\ UNCHANGED <<power, heldTensors, begun>>

RetrieveGraphs(w) ==
    /\ At(w, "graphs")
    /\ \/ GiveUp(w, model[w])
       \/ Proceed(w, "infrastructure", [model[w] EXCEPT !.retrieved = TRUE])
    /\ UNCHANGED <<power, heldTensors, begun>>

\* Mutant: a Model that got no identifier holds zero.
CreateOrZero(w) ==
    /\ At(w, "infrastructure")
    /\ GiveUp(w, [model[w] EXCEPT !.perfInfra = TRUE, !.powerId = 0])
    /\ UNCHANGED <<power, heldTensors, begun>>

\* Another Model has destroyed a configuration of that identifier, or tried to,
\* and not yet erased the identifier.
StillToErase(w, id) ==
    \E v \in Workers \ {w} : pc[v] = "erasePower" /\ model[v].powerId = id

\* (6) The infrastructure may be missing, or refuse to create a configuration.
CreatePowerConfig(w) ==
    /\ At(w, "infrastructure")
    /\ LET found == [model[w] EXCEPT !.perfInfra = TRUE]
       IN  \/ GiveUp(w, model[w]) /\ UNCHANGED <<livePower, level, dcvs>>
           \/ GiveUp(w, found) /\ UNCHANGED <<livePower, level, dcvs>>
           \/ \E id \in PowerIds \ livePower :
                /\ livePower' = livePower \cup {id}
                /\ level' = [level EXCEPT ![id] = "default"]
                /\ dcvs' = [dcvs EXCEPT ![id] = "on"]
                /\ Proceed(w, "register", [found EXCEPT !.powerId = id, !.created = TRUE,
                                                        !.regiven = StillToErase(w, id)])
    /\ UNCHANGED <<registered, abandoned, strays, heldTensors, begun>>

Register(w) ==
    /\ At(w, "register")
    /\ registered' = registered \cup {model[w].powerId}
    /\ Proceed(w, "setup", model[w])
    /\ UNCHANGED <<livePower, level, dcvs, abandoned, strays, heldTensors, begun>>

-----------------------------------------------------------------------------
(* Inference(), one round per graph.                                           *)

\* The tensors of the next graph are allocated and filled; a failure of either
\* ends Inference(). Nothing ever frees them.
SetupTensors(w) ==
    /\ At(w, "setup")
    /\ IF model[w].graph = model[w].count
       THEN Proceed(w, "classify", model[w]) /\ UNCHANGED heldTensors
       ELSE \/ Proceed(w, "classify", model[w]) /\ UNCHANGED heldTensors
            \/ Proceed(w, "classify", model[w]) /\ heldTensors' = heldTensors + 1
            \/ Proceed(w, "boost", model[w]) /\ heldTensors' = heldTensors + 1
    /\ UNCHANGED <<power, begun>>

\* getPowerConfigId(): the smallest registered identifier, of whatever Model.
PowerConfigId ==
    IF registered = {} THEN DefaultId
    ELSE CHOOSE id \in registered : \A other \in registered : id <= other

\* setPowerConfig() of one setting: it may be refused, and is for a
\* configuration that does not exist. next and onward are where the two lead.
SetPowerConfig(w, next, done, onward, refused, newLevel, newDcvs) ==
    \/ /\ PowerConfigId \in livePower
       /\ level' = [level EXCEPT ![PowerConfigId] = newLevel]
       /\ dcvs' = [dcvs EXCEPT ![PowerConfigId] = newDcvs]
       /\ Proceed(w, next, [model[w] EXCEPT !.setting = done])
    \/ /\ UNCHANGED <<level, dcvs>>
       /\ Proceed(w, onward, [model[w] EXCEPT !.setting = refused])

\* Mutant: a Model without an infrastructure goes unboosted.
BoostIfPossible(w) ==
    /\ At(w, "boost")
    /\ IF model[w].perfInfra
       THEN SetPowerConfig(w, "disableDcvs", "raised", "execute", "failed", "burst", "on")
       ELSE Proceed(w, "execute", model[w]) /\ UNCHANGED <<level, dcvs>>
    /\ UNCHANGED <<livePower, registered, abandoned, strays, heldTensors, begun>>

\* boostPerformance() turns voltage scaling on with the level. Without an
\* infrastructure the pointer it calls is null.
Boost(w) ==
    /\ At(w, "boost")
    /\ IF model[w].perfInfra
       THEN SetPowerConfig(w, "disableDcvs", "raised", "execute", "failed", "burst", "on")
       ELSE Die("crashed") /\ UNCHANGED <<level, dcvs>>
    /\ UNCHANGED <<livePower, registered, abandoned, strays, heldTensors, begun>>

DisableDcvs(w) ==
    /\ At(w, "disableDcvs")
    /\ SetPowerConfig(w, "execute", "boosted", "execute", "raised", level[PowerConfigId], "off")
    /\ UNCHANGED <<livePower, registered, abandoned, strays, heldTensors, begun>>

\* graphExecute(): its status is not looked at.
Execute(w) ==
    /\ At(w, "execute")
    /\ Proceed(w, "reset", model[w])
    /\ UNCHANGED <<power, heldTensors, begun>>

\* Mutant: the default identifier is reset.
ResetDefault(w) ==
    /\ At(w, "reset")
    /\ IF DefaultId \in livePower
       THEN /\ level' = [level EXCEPT ![DefaultId] = "saver"]
            /\ dcvs' = [dcvs EXCEPT ![DefaultId] = "on"]
            /\ Proceed(w, "enableDcvs", [model[w] EXCEPT !.setting = "reset"])
       ELSE /\ UNCHANGED <<level, dcvs>>
            /\ Proceed(w, "read", [model[w] EXCEPT !.setting = "failed"])
    /\ UNCHANGED <<livePower, registered, abandoned, strays, heldTensors, begun>>

\* resetPerformance() turns voltage scaling on as well.
Reset(w) ==
    /\ At(w, "reset")
    /\ SetPowerConfig(w, "enableDcvs", "reset", "read", "failed", "saver", "on")
    /\ UNCHANGED <<livePower, registered, abandoned, strays, heldTensors, begun>>

EnableDcvs(w) ==
    /\ At(w, "enableDcvs")
    /\ SetPowerConfig(w, "read", "restored", "read", "reset", level[PowerConfigId], "on")
    /\ UNCHANGED <<livePower, registered, abandoned, strays, heldTensors, begun>>

\* The outputs of the graph are converted and kept; a failure ends Inference(),
\* with the outputs before it already kept.
ReadOutputs(w) ==
    /\ At(w, "read")
    /\ \/ Proceed(w, "classify", model[w])
       \/ Proceed(w, "classify", [model[w] EXCEPT !.outputs = @ + 1])
       \/ Proceed(w, "setup", [model[w] EXCEPT !.graph = @ + 1, !.outputs = @ + 1])
    /\ UNCHANGED <<power, heldTensors, begun>>

-----------------------------------------------------------------------------
(* The classification, and ~Model() at the end of inference().                 *)

\* Mutant: the exception is caught, and the Model is destroyed.
ClassifyOrCatch(w) ==
    /\ At(w, "classify")
    /\ Proceed(w, "free", model[w])
    /\ UNCHANGED <<power, heldTensors, begun>>

\* Without an output, or with one of another size, postprocess_binary() throws
\* in a thread that catches nothing; else the verdict is given to the Terminator.
Classify(w) ==
    /\ At(w, "classify")
    /\ \/ Die("terminated")
       \/ model[w].outputs > 0 /\ Proceed(w, "free", model[w])
    /\ UNCHANGED <<power, heldTensors, begun>>

FreeHandles(w) ==
    /\ At(w, "free")
    /\ IF model[w].interface
       THEN Proceed(w, "destroyPower",
                    [model[w] EXCEPT !.context = FALSE, !.backend = "none"])
       ELSE Die("crashed")
    /\ UNCHANGED <<power, heldTensors, begun>>

\* destroyPowerConfigId(): a failure is printed and nothing else, and leaves
\* the configuration behind if there is one.
Destroyed(w, id) ==
    \/ /\ livePower' = livePower \ {id}
       /\ abandoned' = abandoned \ {id}
    \/ /\ UNCHANGED livePower
       /\ abandoned' = IF model[w].created THEN abandoned \cup {id} ELSE abandoned

\* Mutant: the configuration in use is destroyed.
DestroyInUse(w) ==
    /\ At(w, "destroyPower")
    /\ IF model[w].perfInfra
       THEN /\ Destroyed(w, PowerConfigId)
            /\ strays' = IF model[w].created THEN strays ELSE strays + 1
            /\ Proceed(w, "erasePower", model[w])
       ELSE Die("crashed") /\ UNCHANGED <<livePower, abandoned, strays>>
    /\ UNCHANGED <<level, dcvs, registered, heldTensors, begun>>

\* A Model that was refused a configuration destroys the default one.
DestroyPowerConfig(w) ==
    /\ At(w, "destroyPower")
    /\ IF model[w].perfInfra
       THEN /\ Destroyed(w, model[w].powerId)
            /\ strays' = IF model[w].created THEN strays ELSE strays + 1
            /\ Proceed(w, "erasePower", model[w])
       ELSE Die("crashed") /\ UNCHANGED <<livePower, abandoned, strays>>
    /\ UNCHANGED <<level, dcvs, registered, heldTensors, begun>>

\* Mutant: the identifier stays registered.
ForgetToErase(w) ==
    /\ At(w, "erasePower")
    /\ Proceed(w, "idle", NewModel)
    /\ UNCHANGED <<power, heldTensors, begun>>

ErasePowerConfig(w) ==
    /\ At(w, "erasePower")
    /\ registered' = registered \ {model[w].powerId}
    /\ Proceed(w, "idle", NewModel)
    /\ UNCHANGED <<livePower, level, dcvs, abandoned, strays, heldTensors, begun>>

InitModel(w) ==
    \/ LoadBackendLibrary(w) \/ LoadSystemLibrary(w) \/ CreateBackend(w)
    \/ CreateDevice(w) \/ ReadModelFile(w) \/ CopyMetadata(w) \/ CreateContext(w)
    \/ RetrieveGraphs(w) \/ CreatePowerConfig(w) \/ Register(w)

Inference(w) ==
    \/ SetupTensors(w) \/ Boost(w) \/ DisableDcvs(w) \/ Execute(w) \/ Reset(w)
    \/ EnableDcvs(w) \/ ReadOutputs(w)

Destructor(w) == FreeHandles(w) \/ DestroyPowerConfig(w) \/ ErasePowerConfig(w)

\* The process is dead, or every inference the bound allows has been run.
Ended ==
    /\ process = "running" => begun = MaxModels /\ \A w \in Workers : pc[w] = "idle"
    /\ UNCHANGED vars

Next ==
    \/ \E w \in Workers : Begin(w) \/ InitModel(w) \/ Inference(w) \/ Classify(w)
                            \/ Destructor(w)
    \/ Ended

Spec == Init /\ [][Next]_vars

-----------------------------------------------------------------------------
(* Properties.                                                                 *)

TypeOK ==
    /\ process \in {"running", "crashed", "terminated"}
    /\ pc \in [Workers -> Places]
    /\ model \in [Workers -> Models]
    /\ livePower \subseteq PowerIds
    /\ level \in [PowerIds -> {"default", "burst", "saver"}]
    /\ dcvs \in [PowerIds -> {"on", "off"}]
    /\ registered \subseteq PowerIds /\ abandoned \subseteq PowerIds
    /\ heldTensors \in Nat /\ begun \in Nat /\ strays \in Nat

\* ~Model() is only reached with every function pointer it calls filled in and
\* a backend to free, although Init_model() may have failed anywhere: the other
\* failures end in a null call or an exception before.
DestructorIsCovered ==
    \A w \in Workers :
      /\ pc[w] = "free" => model[w].interface /\ model[w].backend = "backend"
      /\ pc[w] \in EndPlaces => model[w].perfInfra

\* A verdict only leaves a Model whose context and graphs exist: no failure of
\* Init_model() but the last, of the power configuration, is survived.
VerdictNeedsGraphs ==
    \A w \in Workers :
      pc[w] = "free" => model[w].context /\ model[w].retrieved /\ model[w].outputs > 0

Owns(w, id) ==
    model[w].created /\ model[w].powerId = id

Holds(w) == model[w].created /\ pc[w] # "erasePower"

\* A Model that was refused a configuration destroys and erases the default one:
\* once that has happened, the default identifier is safe for nobody.
SafeId(id) == id = DefaultId => strays = 0

\* The damage a Model without a configuration does is confined to the default
\* identifier: every other configuration lives, and is one Model's alone, until
\* its own Model destroys it, and so is the default one if no Model was refused.
OwnPowerLives ==
    \A w \in Workers :
      Holds(w) /\ SafeId(model[w].powerId) =>
        /\ model[w].powerId \in livePower
        /\ \A v \in Workers \ {w} : Holds(v) => model[v].powerId # model[w].powerId

\* sg_powerConfigIds holds identifiers of Models that are still there only.
RegisteredIsOwned == \A id \in registered : \E w \in Workers : Owns(w, id)

\* It holds those of all of them, but for a default identifier that is not safe
\* and one the device gave between its destruction and its erasure by another.
OwnIsRegistered ==
    \A w \in Workers :
      Holds(w) /\ pc[w] # "register" /\ SafeId(model[w].powerId) /\ ~model[w].regiven =>
        model[w].powerId \in registered

\* A configuration of the device belongs to a Model that has not destroyed it, or
\* is one whose Model was refused its destruction.
LiveIsOwned ==
    \A id \in livePower \ abandoned : \E w \in Workers : Owns(w, id) /\ Holds(w)

\* Whatever fails, the registered identifiers are those of the Models that are
\* there, and every configuration has its Model, but for the ways of losing one
\* that the three conjuncts name.
PowersAreOwned == RegisteredIsOwned /\ OwnIsRegistered /\ LiveIsOwned

\* With one thread, what the device accepted of the settings is in force on the
\* Model's configuration while the graph executes and while its outputs are read;
\* scaling is on again even if only the reset was accepted. The configuration is
\* its own, or the default one that an earlier Model failed to destroy.
PowerFollowsExecution ==
    \A w \in Workers :
      LET own == model[w].powerId
          mine == model[w].created \/ own \in abandoned
          setting == model[w].setting
      IN  /\ pc[w] = "execute" /\ setting \in {"raised", "boosted"} =>
               mine /\ level[own] = "burst" /\ (dcvs[own] = "off" <=> setting = "boosted")
          /\ pc[w] = "read" /\ setting \in {"reset", "restored"} =>
               mine /\ level[own] = "saver" /\ dcvs[own] = "on"
=============================================================================
