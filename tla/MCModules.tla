------------------------------- MODULE MCModules ------------------------------
(* Model checking instance of eight parts that share no state: five parts of  *)
(* the modules, and three of the panel.  One of them moves in a behaviour and *)
(* the others rest in one of their initial states, so that the state space is *)
(* the sum of theirs and not the product.                                     *)
EXTENDS FileOperations, SoftwareManager, Quarantine, ScanJobs, SecurityScan,
        Panel

\* Two scopes: 1 with a directory 3 and the entry 4 in it, 2 with the entry 5.
MCParent == [e \in {3, 4, 5} |-> CASE e = 3 -> 1 [] e = 4 -> 3 [] e = 5 -> 2]
MCPath == [e \in 1 .. 5 |-> CASE e \in {1, 2} -> {e} [] e = 3 -> {1, 3}
                             [] e = 4 -> {1, 3, 4} [] e = 5 -> {2, 5}]
MCDepth == [e \in 1 .. 5 |-> CASE e \in {1, 2} -> 0 [] e \in {3, 5} -> 1 [] e = 4 -> 2]

VARIABLE moving  \* the part that moves

modulesVars == <<filesVars, softwareVars, quarantineVars, jobsVars, securityVars>>
vars == <<modulesVars, panelsVars, moving>>

Init ==
    /\ moving \in {"files", "software", "quarantine", "jobs", "verdict", "chat", "scan", "receipt"}
    /\ FilesInit /\ (moving = "files" \/ (request.kind = "create" /\ ~folder))
    /\ SoftwareInit /\ (moving = "software" \/ snapshot)
    /\ QuarantineInit
    /\ JobsInit
    /\ SecurityInit
    /\ moving = "verdict" \/ (target = "tree" /\ infected = {} /\ {objects[4], objects[5]} = {"file"})
    /\ PanelsInit

ModulesNext ==
    \/ /\ moving = "files" /\ FilesNext
       /\ UNCHANGED <<softwareVars, quarantineVars, jobsVars, securityVars>>
    \/ /\ moving = "software" /\ SoftwareNext
       /\ UNCHANGED <<filesVars, quarantineVars, jobsVars, securityVars>>
    \/ /\ moving = "quarantine" /\ QuarantineNext
       /\ UNCHANGED <<filesVars, softwareVars, jobsVars, securityVars>>
    \/ /\ moving = "jobs" /\ JobsNext
       /\ UNCHANGED <<filesVars, softwareVars, quarantineVars, securityVars>>
    \/ /\ moving = "verdict" /\ SecurityNext
       /\ UNCHANGED <<filesVars, softwareVars, quarantineVars, jobsVars>>

Next ==
    /\ \/ ModulesNext /\ UNCHANGED panelsVars
       \/ moving = "chat" /\ ChatNext /\ UNCHANGED <<modulesVars, scanVars, panelVars>>
       \/ moving = "scan" /\ ScanNext /\ UNCHANGED <<modulesVars, chatVars, panelVars>>
       \/ moving = "receipt" /\ PanelNext /\ UNCHANGED <<modulesVars, chatVars, scanVars>>
    /\ UNCHANGED moving

Spec == Init /\ [][Next]_vars

\* The type invariant of the part that moves; the others stay as they were.
TypeOK ==
    CASE moving = "files" -> FilesTypeOK
      [] moving = "software" -> SoftwareTypeOK
      [] moving = "quarantine" -> QuarantineTypeOK
      [] moving = "jobs" -> JobsTypeOK
      [] moving = "verdict" -> SecurityTypeOK
      [] moving = "chat" -> ChatTypeOK
      [] moving = "scan" -> ScanTypeOK
      [] moving = "receipt" -> PanelTypeOK

===============================================================================
