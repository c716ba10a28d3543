-------------------------- MODULE CapabilityRegistry --------------------------
(***************************************************************************)
(* CapabilityRegistry: the modules that manifests describe, what the user  *)
(* wants of them, and the state that follows for each, given that a module *)
(* can be enabled only with all modules it depends on.                     *)
(*                                                                         *)
(* Each operation changes rows in one transaction and then refreshes the   *)
(* states: it reads all rows, looks for cycles depth first, gives every    *)
(* module the state its own row allows, takes it back where a dependency   *)
(* lacks, and writes the states in a transaction of its own.  Several      *)
(* processes do so on the same database.  What a process computes between  *)
(* the read and the write concerns only the rows it has read, so its steps *)
(* commute with those of the others: the others wait meanwhile, and the    *)
(* rows are those it has read.                                             *)
(***************************************************************************)
EXTENDS Integers, Sequences

CONSTANTS
    MaxModules,  \* bound: module ids
    Process,     \* the processes that use the registry
    MaxWrites    \* bound: rows changed

ASSUME RegistryAssumption == MaxModules \in Nat /\ MaxWrites \in Nat

VARIABLES
    registry,  \* the rows of the modules
    refresh,   \* how far each process is, and the states it has computed
    active,    \* the search for cycles: the path of the nodes being visited,
    left,      \* the dependencies of each that are still to be visited,
    visited,   \* the nodes whose visit is over
    cycles,    \* and the nodes found on a cycle
    fresh,     \* history: the processes that have read the rows as they are
    settled,   \* history: the states were computed from the rows as they are
    writes     \* history: rows changed

searchVars == <<active, left, visited, cycles>>
registryVars == <<registry, refresh, active, left, visited, cycles, fresh, settled, writes>>

Module == 1 .. MaxModules
ModuleState == {"installed", "disabled", "quarantined", "unavailable", "enabled"}

\* deps are the required dependencies of the manifest; its core_api is that of
\* the core.
Row == [deps : SUBSET Module, valid : BOOLEAN, wanted : BOOLEAN, configured : BOOLEAN,
        quarantined : BOOLEAN, state : ModuleState \cup {"none"}]
Unregistered == [deps |-> {}, valid |-> FALSE, wanted |-> FALSE, configured |-> FALSE,
                 quarantined |-> FALSE, state |-> "none"]
Registered == {m \in Module : registry[m] # Unregistered}
Computed == UNION {[S -> ModuleState] : S \in SUBSET Module}
Idle == [at |-> "idle", states |-> [m \in {} |-> "installed"]]

RegistryTypeOK ==
    /\ registry \in [Module -> Row]
    /\ \A m \in Module : /\ m \notin registry[m].deps
                         /\ registry[m].state = "none" <=> registry[m] = Unregistered
    /\ refresh \in [Process -> [at : {"idle", "sync", "read", "visit", "settle", "write"},
                                states : Computed]]
    /\ active \in Seq(Module) /\ left \in [Module -> SUBSET Module]
    /\ visited \subseteq Module /\ cycles \subseteq Module
    /\ fresh \subseteq Process /\ settled \in BOOLEAN /\ writes \in 0 .. MaxWrites

\* The manifests have been found and their rows written; one process is about to
\* refresh the states for the first time.
RegistryInit ==
    /\ \E known \in SUBSET Module : \E deps \in [known -> SUBSET Module] :
          /\ \A m \in known : m \notin deps[m]
          /\ registry = [m \in Module |->
                IF m \notin known THEN Unregistered
                ELSE [Unregistered EXCEPT !.deps = deps[m], !.valid = TRUE, !.wanted = TRUE,
                                          !.state = "installed"]]
    /\ \E p \in Process : refresh = [q \in Process |-> IF q = p THEN [Idle EXCEPT !.at = "sync"] ELSE Idle]
    /\ active = <<>> /\ left = [m \in Module |-> {}] /\ visited = {} /\ cycles = {}
    /\ fresh = {} /\ settled = FALSE /\ writes = 0

\* p takes a step of its own: nobody else is in the middle of computing.
Turn(p, phases) ==
    /\ refresh[p].at \in phases
    /\ \A q \in Process \ {p} : refresh[q].at \notin {"visit", "settle"}

-----------------------------------------------------------------------------

\* A process changes a row; what others have read of the rows is out of date.
Change(p, m, row, next) ==
    /\ writes < MaxWrites
    /\ writes' = writes + 1
    /\ registry' = [registry EXCEPT ![m] = row]
    /\ refresh' = [refresh EXCEPT ![p].at = next]
    /\ fresh' = {}
    /\ settled' = FALSE
    /\ UNCHANGED searchVars

\* sync(), one manifest that is valid: _upsert() leaves the state as it is, and
\* what the user has configured.
Upsert(p, m) ==
    /\ Turn(p, {"idle", "sync"})
    /\ \E deps \in SUBSET (Module \ {m}), default \in BOOLEAN :
          LET row == registry[m] IN
          Change(p, m, [row EXCEPT !.deps = deps, !.valid = TRUE,
                                   !.wanted = IF row.configured THEN @ ELSE default,
                                   !.state = IF row = Unregistered THEN "installed" ELSE @], "sync")

\* ... one that is not: _mark_invalid_path()
MarkInvalid(p, m) ==
    /\ Turn(p, {"idle", "sync"})
    /\ registry[m] # Unregistered
    /\ Change(p, m, [registry[m] EXCEPT !.valid = FALSE, !.state = "unavailable"], "sync")

SetEnabled(p, m) ==
    /\ Turn(p, {"idle"})
    /\ registry[m] # Unregistered
    /\ \E on \in BOOLEAN :
          Change(p, m, [registry[m] EXCEPT !.wanted = on, !.configured = TRUE], "read")

\* quarantine(), which the module manager calls when a worker does not start,
\* and clear_quarantine()
QuarantineModule(p, m) ==
    /\ Turn(p, {"idle"})
    /\ registry[m] # Unregistered
    /\ \E on \in BOOLEAN : Change(p, m, [registry[m] EXCEPT !.quarantined = on], "read")

-----------------------------------------------------------------------------
(* refresh_states()                                                        *)

ReadRows(p) ==
    /\ Turn(p, {"sync", "read"})
    /\ refresh' = [refresh EXCEPT ![p].at = "visit"]
    /\ fresh' = fresh \cup {p}
    /\ UNCHANGED <<registry, searchVars, settled, writes>>

\* _cycle_members(), visit() of a node that is neither active nor visited
Enter(node, remaining) ==
    /\ active' = Append(active, node)
    /\ left' = [remaining EXCEPT ![node] = registry[node].deps \cap Registered]
    /\ UNCHANGED <<visited, cycles>>

\* The loop over all nodes ...
VisitRoot(p) ==
    /\ Turn(p, {"visit"}) /\ active = <<>>
    /\ \E node \in Registered \ visited : Enter(node, left)
    /\ UNCHANGED <<registry, refresh, fresh, settled, writes>>

Top == active[Len(active)]

\* ... and the one over the dependencies of the last active one: the path back
\* to an active node is a cycle, and what has been visited is not visited again.
VisitDependency(p) ==
    /\ Turn(p, {"visit"}) /\ active # <<>>
    /\ \E node \in left[Top] :
          LET remaining == [left EXCEPT ![Top] = @ \ {node}] IN
          \/ \E first \in DOMAIN active :
                /\ active[first] = node
                /\ cycles' = cycles \cup {active[k] : k \in first .. Len(active)}
                /\ left' = remaining
                /\ UNCHANGED <<active, visited>>
          \/ /\ node \in visited
             /\ left' = remaining
             /\ UNCHANGED <<active, visited, cycles>>
          \/ /\ node \notin visited /\ \A k \in DOMAIN active : active[k] # node
             /\ Enter(node, remaining)
    /\ UNCHANGED <<registry, refresh, fresh, settled, writes>>

LeaveNode(p) ==
    /\ Turn(p, {"visit"}) /\ active # <<>> /\ left[Top] = {}
    /\ visited' = visited \cup {Top}
    /\ active' = SubSeq(active, 1, Len(active) - 1)
    /\ UNCHANGED <<registry, refresh, left, cycles, fresh, settled, writes>>

\* What a module's own row says of its state.
OwnState(m) ==
    LET row == registry[m] IN
    CASE ~row.valid -> "unavailable"
      [] row.valid /\ row.quarantined -> "quarantined"
      [] row.valid /\ ~row.quarantined /\ ~row.wanted ->
             IF row.configured THEN "disabled" ELSE "installed"
      [] OTHER -> IF m \in cycles \/ ~(row.deps \subseteq Registered)
                  THEN "unavailable" ELSE "enabled"

OwnStates(p) ==
    /\ Turn(p, {"visit"}) /\ active = <<>> /\ Registered \subseteq visited
    /\ refresh' = [refresh EXCEPT ![p] = [at |-> "settle", states |-> [m \in Registered |-> OwnState(m)]]]
    /\ visited' = {} /\ cycles' = {}
    /\ UNCHANGED <<registry, active, left, fresh, settled, writes>>

\* Mutant of Blocked: only what its own row withholds blocks what depends on it.
BlockedByRow(states) ==
    {m \in DOMAIN states : states[m] = "enabled" /\ \E d \in registry[m].deps :
                                                    states[d] \in {"installed", "disabled", "quarantined"}}

Blocked(states) ==
    {m \in DOMAIN states : states[m] = "enabled" /\ \E d \in registry[m].deps : states[d] # "enabled"}

\* One step of the loop that makes unavailable what depends on a module that is
\* not enabled, until nothing changes.
BlockModule(p) ==
    /\ Turn(p, {"settle"})
    /\ \E m \in Blocked(refresh[p].states) :
          refresh' = [refresh EXCEPT ![p].states[m] = "unavailable"]
    /\ UNCHANGED <<registry, searchVars, fresh, settled, writes>>

EndComputing(p) ==
    /\ Turn(p, {"settle"}) /\ Blocked(refresh[p].states) = {}
    /\ refresh' = [refresh EXCEPT ![p].at = "write"]
    /\ UNCHANGED <<registry, searchVars, fresh, settled, writes>>

WriteStates(p) ==
    /\ Turn(p, {"write"})
    /\ LET states == refresh[p].states IN
       registry' = [m \in Module |-> IF m \in DOMAIN states
                                     THEN [registry[m] EXCEPT !.state = states[m]] ELSE registry[m]]
    /\ refresh' = [refresh EXCEPT ![p] = Idle]
    /\ settled' = (p \in fresh)
    /\ UNCHANGED <<searchVars, fresh, writes>>

\* A process dies between the row and the states.
RegistryProcessDies(p) ==
    /\ Turn(p, {"sync", "read", "write"})
    /\ refresh' = [refresh EXCEPT ![p] = Idle]
    /\ UNCHANGED <<registry, searchVars, fresh, settled, writes>>

RegistryNext ==
    \E p \in Process :
        \/ \E m \in Module : \/ Upsert(p, m) \/ MarkInvalid(p, m)
                             \/ SetEnabled(p, m) \/ QuarantineModule(p, m)
        \/ ReadRows(p)
        \/ VisitRoot(p) \/ VisitDependency(p) \/ LeaveNode(p)
        \/ OwnStates(p) \/ BlockModule(p) \/ EndComputing(p)
        \/ WriteStates(p) \/ RegistryProcessDies(p)

RegistrySpec == RegistryInit /\ [][RegistryNext]_registryVars

-----------------------------------------------------------------------------

\* The reference: the largest set of modules that may be enabled, where each has
\* what it depends on in the set and none depends on itself through others.
Eligible(m) ==
    registry[m].valid /\ registry[m].wanted /\ ~registry[m].quarantined
Sound(S) ==
    /\ \A m \in S : Eligible(m) /\ registry[m].deps \subseteq S
    /\ \A T \in (SUBSET S) \ {{}} : \E m \in T : registry[m].deps \cap T = {}

\* After a refresh that saw the rows as they are, exactly the modules that can
\* work are enabled: none lacks a dependency, however long the chain or the
\* cycle that makes it impossible, and none is withheld.  (A refresh that was
\* overtaken by another process's change writes states that are out of date.)
StatesSettled ==
    settled => {m \in Module : registry[m].state = "enabled"} = UNION {S \in SUBSET Module : Sound(S)}

===============================================================================
