---------------------------- MODULE PermissionPolicy ----------------------------
(***************************************************************************)
(* The permission gateway's decision about one invocation of a capability, *)
(* and the trusted policies that it decides by: for every capability the   *)
(* arguments that it takes and, for every phase that it has, the           *)
(* transports, the scopes and whether an approval must have been given.    *)
(***************************************************************************)

AllLocalTransports == {"internal", "unix_peer", "loopback_http"}
SecureWriteTransports == {"internal", "unix_peer"}

Rule(phase, transports, scopes, approval) ==
    [phase |-> phase, transports |-> transports, scopes |-> scopes, approval |-> approval]

Policy(capability, required, optional, phases) ==
    [capability |-> capability, required |-> required, allowed |-> required \cup optional,
     phases |-> phases]

\* The shapes of the policies: reading, a change that is prepared and then
\* committed, and the halves of such a change as capabilities of their own.
ReadOnly(capability, required, optional, scopes) ==
    Policy(capability, required, optional, {Rule("execute", AllLocalTransports, scopes, FALSE)})
Planned(capability, required, optional, reading, writing) ==
    Policy(capability, required, optional,
           {Rule("prepare", AllLocalTransports, reading, FALSE),
            Rule("commit", SecureWriteTransports, writing, TRUE)})
PrepareOnly(capability, required, optional, scopes) ==
    Policy(capability, required, optional,
           {Rule("prepare", SecureWriteTransports, scopes, FALSE)})
CommitOnly(capability, required, scopes) ==
    Policy(capability, required, {}, {Rule("commit", SecureWriteTransports, scopes, TRUE)})

Metadata == {"filesystem.read-metadata"}
Content == {"filesystem.read-content"}
WriteContent == {"filesystem.write-content"}
Manage == {"software.manage"}

FilePolicies ==
    {ReadOnly("documents.query.search", {}, {"mode", "text", "content_match", "name_terms",
        "extensions", "volume_ids", "sort_by", "limit"}, Metadata \cup Content),
     Planned("storage.materialize.plan-copy", {"results_from", "destination"}, {"directory_name"},
        Metadata \cup Content, Content \cup WriteContent),
     ReadOnly("files.items.inspect", {"results_from"}, {}, Metadata),
     Planned("files.directory.create", {"destination", "directory_name"}, {}, Metadata, WriteContent),
     Planned("files.items.move", {"results_from", "destination"},
        {"directory_name", "conflict_policy"}, Metadata \cup Content, Content \cup WriteContent),
     Planned("files.items.rename", {"results_from", "new_name"}, {"conflict_policy"},
        Metadata, WriteContent),
     Planned("files.items.trash", {"results_from"}, {}, Metadata, WriteContent)}

SoftwarePolicies ==
    {PrepareOnly("software.install.prepare", {"application_id"},
        {"locale", "install_location", "selected_options"}, Manage),
     CommitOnly("software.install.commit", {"task_id"}, Manage),
     PrepareOnly("software.remove.prepare", {"application_id", "create_backup"}, {}, Manage),
     CommitOnly("software.remove.commit", {"task_id", "final_confirmation"}, Manage),
     Policy("software.tasks.control", {"task_id", "action"}, {},
        {Rule("execute", SecureWriteTransports, Manage, FALSE)}),
     CommitOnly("software.backup.restore", {"backup_id"}, Manage)}

FindingScopes == Metadata \cup Content \cup {"security.write-findings"}

ScanPolicies ==
    {ReadOnly("security.module.status", {}, {}, {"security.read-status"}),
     ReadOnly("security.files.scan", {"resource_id", "relative_path"}, {}, FindingScopes),
     ReadOnly("security.scan.run", {"resource_id", "mode"}, {"relative_path"}, FindingScopes),
     ReadOnly("security.findings.list", {}, {"state", "limit"}, {"security.read-findings"}),
     ReadOnly("security.posture.scan", {}, {}, {"security.read-posture"})}

QuarantinePolicies ==
    {ReadOnly("security.quarantine.list", {}, {"state", "limit"}, {"security.read-findings"}),
     PrepareOnly("security.quarantine.prepare", {"finding_id"}, {},
        Metadata \cup Content \cup {"security.read-findings"}),
     CommitOnly("security.quarantine.commit", {"quarantine_id"},
        Metadata \cup Content \cup {"security.write-quarantine"}),
     CommitOnly("security.quarantine.restore", {"quarantine_id"},
        WriteContent \cup {"security.write-quarantine"})}

builtin_policies == UNION {FilePolicies, SoftwarePolicies, ScanPolicies, QuarantinePolicies}

\* evaluate(): a policy has the invocation's phase, over one of its transports,
\* approved if need be, with the scopes and the arguments it names.
Allowed(capability, phase, transport, approved, granted, arguments, valuesValid) ==
    /\ \E policy \in builtin_policies :
          /\ policy.capability = capability
          /\ policy.required \subseteq arguments
          /\ arguments \subseteq policy.allowed
          /\ \E rule \in policy.phases :
                /\ rule.phase = phase
                /\ transport \in rule.transports
                /\ rule.approval => approved
                /\ rule.scopes \subseteq granted
    /\ valuesValid

\* rule_for(): the rules of a capability for a phase, of which there is one.
RulesFor(capability, phase) ==
    {rule \in UNION {policy.phases : policy \in
                        {policy \in builtin_policies : policy.capability = capability}} :
        rule.phase = phase}

================================================================================
