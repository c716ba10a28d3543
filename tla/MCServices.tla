------------------------------ MODULE MCServices ------------------------------
(* Model checking instance of the services around the core: the copy of the   *)
(* storage catalog, the registry of modules, the host of a module, the two    *)
(* modules that manage Ollama, the gate of the requests, the start of the     *)
(* runtime, the watched disks and the search over them, and the retriever of  *)
(* similar passages.  One of them moves in a behaviour and the others rest in *)
(* one of their initial states, so that the state space is the sum of theirs  *)
(* and not the product.  No variable belongs to two of them, except that the  *)
(* watched disks and the search use the same registry of disks.               *)
EXTENDS MaterializeCopy, CapabilityRegistry, ModuleHost, OllamaProvider, ModelCatalog,
        RequestGate, RuntimeStartup, WatchedVolumes, ContentSearch, SemanticRetrieval, TLC

CONSTANTS
    Moving,     \* the services that may move
    home, usb

ASSUME MovingAssumption ==
    Moving \subseteq {"copy", "registry", "host", "provider", "models", "gate", "startup",
                      "watching", "search", "retriever"}

\* Everything has started, or the modules, or the services of Ollama.
MCParts == {{"core"}, {"core", "software", "security"},
            {"core", "models", "provider", "software", "security"}}

\* The disk of the system is mounted at "/", sticks one at a time at one place.
MCPlaceOf == [m \in Medium |-> IF m \in System THEN home ELSE usb]

VARIABLE moving  \* the service that moves

copyVars == <<disk, thread, user>>

\* The processes of the modules: the manager that starts one and speaks to it,
\* and the workers of the two modules that manage Ollama.
workersVars == <<hostVars, providerVars, modelVars>>

modulesVars == <<registryVars, workersVars>>
daemonVars == <<gateVars, startupVars>>
disksVars == <<watcherVars, contentVars>>
storageVars == <<disksVars, retrieverVars>>
servicesVars == <<copyVars, modulesVars, daemonVars, storageVars, moving>>

WorkersInit == HostInit /\ ProviderInit /\ ModelInit

StorageInit == WatchInit /\ SearchInit /\ RetrieverInit

ServicesInit ==
    /\ moving \in Moving
    /\ Init /\ (moving = "copy" \/ (hardlinks /\ named = NoDir /\ \A i \in Item : source[i] = "approved"))
    /\ RegistryInit /\ (moving = "registry" \/ Registered = {})
    /\ WorkersInit /\ (moving = "models" \/ reachable)
    /\ GateInit /\ (moving = "gate" \/ (transport = "unix_peer" /\ configured = {"core"}))
    /\ StartupInit
    /\ StorageInit /\ (moving \in {"watching", "search"} \/ mounted = System)

WorkersNext ==
    \/ HostNext /\ UNCHANGED <<providerVars, modelVars>>
    \/ ProviderNext /\ UNCHANGED <<hostVars, modelVars>>
    \/ ModelNext /\ UNCHANGED <<hostVars, providerVars>>

WorkersSpec == WorkersInit /\ [][WorkersNext]_workersVars

ModulesNext ==
    \/ moving = "registry" /\ RegistryNext /\ UNCHANGED workersVars
    \/ moving = "host" /\ HostNext /\ UNCHANGED <<registryVars, providerVars, modelVars>>
    \/ moving = "provider" /\ ProviderNext /\ UNCHANGED <<registryVars, hostVars, modelVars>>
    \/ moving = "models" /\ ModelNext /\ UNCHANGED <<registryVars, hostVars, providerVars>>

DaemonNext ==
    \/ moving = "gate" /\ GateNext /\ UNCHANGED startupVars
    \/ moving = "startup" /\ StartupNext /\ UNCHANGED gateVars

StorageNext ==
    \/ /\ moving = "watching" /\ WatchNext
       /\ UNCHANGED <<filesVars, workerVars, queryVars, changes, retrieverVars>>
    \/ moving = "search" /\ SearchNext /\ UNCHANGED <<watcherVars, retrieverVars>>
    \/ moving = "retriever" /\ RetrieverNext /\ UNCHANGED disksVars

ServicesNext ==
    /\ \/ moving = "copy" /\ Next /\ UNCHANGED <<modulesVars, daemonVars, storageVars>>
       \/ ModulesNext /\ UNCHANGED <<copyVars, daemonVars, storageVars>>
       \/ DaemonNext /\ UNCHANGED <<copyVars, modulesVars, storageVars>>
       \/ StorageNext /\ UNCHANGED <<copyVars, modulesVars, daemonVars>>
    /\ UNCHANGED moving

ServicesSpec == ServicesInit /\ [][ServicesNext]_servicesVars

\* Directories, the host's threads, the instances of the runtime, the sticks and
\* the processes that use the registry are alike.  Only one service moves, so the
\* first four may have the same values: what is then permuted in all of them at
\* once is permuted in the one that matters.
Symmetry == Permutations(Dir) \cup Permutations(Process) \cup Permutations(Caller)
       \cup Permutations(Instance) \cup Permutations(Medium \ System)

-----------------------------------------------------------------------------
(* Properties. *)

\* The type invariant of the service that moves; the others stay as they were.
ServicesTypeOK ==
    CASE moving = "copy" -> TypeOK
      [] moving = "registry" -> RegistryTypeOK
      [] moving = "host" -> HostTypeOK
      [] moving = "provider" -> ProviderTypeOK
      [] moving = "models" -> ModelTypeOK
      [] moving = "gate" -> GateTypeOK
      [] moving = "startup" -> StartupTypeOK
      [] moving = "watching" -> WatchTypeOK
      [] moving = "search" -> SearchTypeOK
      [] moving = "retriever" -> RetrieverTypeOK

\* An answer of a module's worker goes to the request it belongs to, an
\* installation of Ollama ends settled, and no model is pulled without the
\* user's word.
WorkersServe == AnswersBelong /\ ProviderSettled /\ ModelsConsented

===============================================================================
