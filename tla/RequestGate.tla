------------------------------- MODULE RequestGate -------------------------------
(***************************************************************************)
(* What a request to the runtime reaches.  Three layers look at it one     *)
(* after the other and none of them knows the others' rules: the router,   *)
(* which closes most paths to the loopback transport; the application,     *)
(* which checks the fields, names the capability and asks the permission   *)
(* gateway; and the worker of the module, which compares the answer with   *)
(* the task as it is.  The two confirmations of a removal are followed     *)
(* through all three, whatever is sent, in whatever order and how often.   *)
(*                                                                         *)
(* A payload is abstracted to whether its fields are the ones asked for    *)
(* (exact), whether the values pass the checks (sound), and the values     *)
(* that decide what happens.                                               *)
(***************************************************************************)
EXTENDS PermissionPolicy

CONSTANT Modules  \* the sets of parts that may have started

Part == {"core", "software", "security", "models", "provider"}

ASSUME PartsAssumption == Modules \subseteq SUBSET Part

VARIABLES
    transport,   \* the one that the runtime serves
    configured,  \* the parts whose callbacks the application has
    task,        \* a task of the software worker: [action, state]
    given,       \* history: the confirmations of it that were let through
    last         \* the request in hand: [path, payload, reached]

gateVars == <<transport, configured, task, given, last>>

ScanTarget == {"quick", "full", "file", "folder"}

\* The paths that the loopback transport may use, and the others.
OpenPaths == {"search", "search-page", "system-status", "system-updates/check", "intent/compile",
              "plan/execute"}
StoragePaths == {"storage/volumes", "storage/permission"}
WorkspacePaths == {"workspace/submit", "workspace/approval/respond", "workspace/messages",
                   "workspace/runs", "workspace/run"}
TaskPaths == {"approval/respond", "tasks/detail", "tasks/cancel", "tasks/continue"}
ModelPaths == {"workspace/models", "workspace/model/select", "models/catalog", "models/respond",
               "providers/ollama/status", "providers/ollama/respond", "inference/status"}
SoftwarePaths == {"software/snapshot", "software/prepare", "software/respond", "software/control",
                  "software/restore"}
JobPaths == {"security/jobs/start", "security/jobs/status", "security/jobs/cancel",
             "security/jobs/history", "security/jobs/settings"}
QuarantinePaths == {"security/quarantine/prepare", "security/quarantine/commit",
                    "security/quarantine/restore", "security/quarantine/cancel"}
ScanPaths == {"security/snapshot", "security/scan"}
SecurityPaths == ScanPaths \cup JobPaths \cup QuarantinePaths
GuardedPaths ==
    UNION {StoragePaths, WorkspacePaths, TaskPaths, ModelPaths, SoftwarePaths, SecurityPaths}

\* The part that serves a path; the others are always there.
PartOf(path) ==
    CASE path \in SoftwarePaths -> "software"
      [] path \in SecurityPaths -> "security"
      [] path \in {"models/catalog", "models/respond"} -> "models"
      [] path \in {"providers/ollama/status", "providers/ollama/respond"} -> "provider"
      [] OTHER -> "core"

\* The payloads that differ for a path.
Actions(path) ==
    CASE path \in {"software/prepare", "software/respond"} -> {"install", "remove", "other"}
      [] path = "software/control" -> {"pause", "resume", "cancel", "other"}
      [] path \in {"security/scan", "security/jobs/start"} -> ScanTarget \cup {"other"}
      [] path = "security/jobs/settings" -> {"get", "on", "off"}
      [] OTHER -> {"none"}

Confirmations(path) ==
    IF path \in {"software/respond", "software/restore", "security/quarantine/commit",
                 "security/quarantine/restore"}
    THEN {"yes", "no", "other"} ELSE {"none"}

Payloads(path) ==
    [exact : BOOLEAN, sound : BOOLEAN, action : Actions(path), confirmed : Confirmations(path),
     final : IF path = "software/respond" THEN BOOLEAN ELSE {FALSE}]

NoTask == [action |-> "none", state |-> "none"]
NoRequest == [path |-> "none", payload |-> "none", reached |-> FALSE]

GateTypeOK ==
    /\ transport \in {"unix_peer", "loopback_http"} /\ configured \in Modules
    /\ task \in [action : {"install", "remove"},
                 state : {"awaiting_confirmation", "awaiting_final_confirmation", "started", "ended"}]
                \cup {NoTask}
    /\ given \subseteq [capability : {policy.capability : policy \in SoftwarePolicies}, final : BOOLEAN]
    /\ last.path \in OpenPaths \cup GuardedPaths \cup {"none"} /\ last.reached \in BOOLEAN

GateInit ==
    /\ transport \in {"unix_peer", "loopback_http"} /\ configured \in Modules
    /\ task = NoTask /\ given = {} /\ last = NoRequest

-----------------------------------------------------------------------------
(* QueryRuntimeApplication                                                   *)

\* _require_secure_transport().
Secure == transport \in SecureWriteTransports

\* _authorize_software(): the one scope of the module is given by the caller.
AuthorizedSoftware(capability, phase, arguments, approved, p) ==
    Allowed(capability, phase, transport, approved, Manage, arguments, p.sound)

\* _authorize_security_phase(): the scopes given are those that the rule asks for.
AuthorizedSecurity(capability, phase, arguments, approved, p) ==
    \E rule \in RulesFor(capability, phase) :
        Allowed(capability, phase, transport, approved, rule.scopes, arguments, p.sound)

\* _validate_security_scan() and the authorization of the scan it describes.
ScanAuthorized(p) ==
    /\ p.action \in ScanTarget /\ p.exact /\ p.sound
    /\ LET capability == IF p.action = "file" THEN "security.files.scan" ELSE "security.scan.run"
           arguments == {"resource_id"}
                   \cup (IF p.action \in {"file", "folder"} THEN {"relative_path"} ELSE {})
                   \cup (IF p.action # "file" THEN {"mode"} ELSE {})
       IN  AuthorizedSecurity(capability, "execute", arguments, FALSE, p)

security_scan(path, p) ==
    Secure /\ IF path = "security/scan" THEN ScanAuthorized(p) ELSE p.exact

security_jobs(path, p) ==
    /\ Secure
    /\ CASE path = "security/jobs/start" -> ScanAuthorized(p)
         [] path = "security/jobs/settings" ->
              p.exact /\ (p.action = "on" =>
                  AuthorizedSecurity("security.scan.run", "execute", {"resource_id", "mode"}, FALSE, p))
         [] OTHER -> p.exact

security_quarantine(path, p) ==
    /\ Secure /\ p.exact /\ p.sound
    /\ CASE path = "security/quarantine/prepare" ->
              AuthorizedSecurity("security.quarantine.prepare", "prepare", {"finding_id"}, FALSE, p)
         [] path = "security/quarantine/commit" ->
              p.confirmed = "yes"
              /\ AuthorizedSecurity("security.quarantine.commit", "commit", {"quarantine_id"}, TRUE, p)
         [] path = "security/quarantine/restore" ->
              p.confirmed = "yes"
              /\ AuthorizedSecurity("security.quarantine.restore", "commit", {"quarantine_id"}, TRUE, p)
         [] OTHER -> TRUE

software_prepare(p) ==
    /\ Secure /\ p.action \in {"install", "remove"} /\ p.exact
    /\ IF p.action = "install"
       THEN AuthorizedSoftware("software.install.prepare", "prepare",
                {"application_id", "locale", "install_location", "selected_options"}, FALSE, p)
       ELSE AuthorizedSoftware("software.remove.prepare", "prepare",
                {"application_id", "create_backup"}, FALSE, p)

CommitOf(action) == IF action = "remove" THEN "software.remove.commit" ELSE "software.install.commit"

software_respond(p) ==
    /\ Secure /\ p.exact /\ p.confirmed \in {"yes", "no"} /\ p.action \in {"install", "remove"}
    /\ p.confirmed = "yes" =>
         AuthorizedSoftware(CommitOf(p.action), "commit",
             {"task_id"} \cup (IF p.action = "remove" THEN {"final_confirmation"} ELSE {}), TRUE, p)

software_control(p) ==
    /\ Secure /\ p.exact /\ p.action # "other"
    /\ AuthorizedSoftware("software.tasks.control", "execute", {"task_id", "action"}, FALSE, p)

software_restore(p) ==
    /\ Secure /\ p.exact /\ p.sound /\ p.confirmed = "yes"
    /\ AuthorizedSoftware("software.backup.restore", "commit", {"backup_id"}, TRUE, p)

\* The volumes, and what may be done with them.
storage_request(p) == p.exact /\ p.sound

\* The catalogs and the states take no fields; a choice and an answer to a
\* question must name what there is.
model_request(path, p) ==
    p.exact /\ (path \in {"workspace/model/select", "models/respond", "providers/ollama/respond"}
                  => p.sound)

\* A message, an answer to an approval, the transcript and the runs.
workspace_request(p) == p.exact /\ p.sound

\* The searches, the state of the system, a plan and its approval, the tasks.
core_request(p) == p.exact /\ p.sound

\* Whether the application calls the part that serves the path.
Accepts(path, p) ==
    CASE path = "software/snapshot" -> p.exact
      [] path = "software/prepare" -> software_prepare(p)
      [] path = "software/respond" -> software_respond(p)
      [] path = "software/control" -> software_control(p)
      [] path = "software/restore" -> software_restore(p)
      [] path \in ScanPaths -> security_scan(path, p)
      [] path \in JobPaths -> security_jobs(path, p)
      [] path \in QuarantinePaths -> security_quarantine(path, p)
      [] path \in StoragePaths -> storage_request(p)
      [] path \in ModelPaths -> model_request(path, p)
      [] path \in WorkspacePaths -> workspace_request(p)
      [] OTHER -> core_request(p)

-----------------------------------------------------------------------------
(* RuntimeRouter, and the software worker behind it                          *)

allow_r1 == transport # "loopback_http"

\* dispatch(): the request reaches the part behind its path, or is refused.
Reached(path, p) ==
    /\ path \in OpenPaths \/ allow_r1
    /\ PartOf(path) \in configured
    /\ Accepts(path, p)

\* Mutant of WorkerTakes: the stage of the confirmation is not compared.
WorkerTakesEarly(p) == p.sound /\ p.action = task.action

\* worker_api._respond(): the answer is about the task as it is now.
WorkerTakes(p) ==
    /\ p.sound /\ p.action = task.action
    /\ p.final = (task.action = "remove" /\ task.state = "awaiting_final_confirmation")

\* What the answer does to the task: confirm(), confirm_removal() or cancel().
TaskAfter(p) ==
    IF p.confirmed = "no" THEN [task EXCEPT !.state = "ended"]
    ELSE IF task.action = "remove" /\ task.state = "awaiting_confirmation"
         THEN [task EXCEPT !.state = "awaiting_final_confirmation"]
         ELSE [task EXCEPT !.state = "started"]

Awaiting == {"awaiting_confirmation", "awaiting_final_confirmation"}

AnswerTask(p) ==
    IF /\ task.state \in (IF p.confirmed = "yes" THEN Awaiting ELSE Awaiting \cup {"started"})
       /\ WorkerTakes(p)
    THEN /\ task' = TaskAfter(p)
         /\ given' = IF p.confirmed = "yes"
                     THEN given \cup {[capability |-> CommitOf(p.action), final |-> p.final]}
                     ELSE given
    ELSE UNCHANGED <<task, given>>

\* The worker's part in a request that has reached it.
WorkerStep(path, p) ==
    CASE path = "software/prepare" ->
           IF task.state \in {"none", "ended"} /\ p.sound
           THEN /\ task' = [action |-> p.action, state |-> "awaiting_confirmation"]
                /\ given' = {}
           ELSE UNCHANGED <<task, given>>
      [] path = "software/respond" -> AnswerTask(p)
      [] path = "software/control" ->
           /\ task' = IF p.action = "cancel" /\ p.sound /\ task.state \in Awaiting \cup {"started"}
                      THEN [task EXCEPT !.state = "ended"] ELSE task
           /\ UNCHANGED given
      [] path = "software/restore" ->
           IF task.state \in {"none", "ended"}
           THEN /\ task' = [action |-> "install", state |-> "started"]
                /\ given' = {[capability |-> "software.backup.restore", final |-> FALSE]}
           ELSE UNCHANGED <<task, given>>
      [] OTHER -> UNCHANGED <<task, given>>

Dispatch(path, p) ==
    /\ last = NoRequest
    /\ last' = [path |-> path, payload |-> p, reached |-> Reached(path, p)]
    /\ IF Reached(path, p) THEN WorkerStep(path, p) ELSE UNCHANGED <<task, given>>
    /\ UNCHANGED <<transport, configured>>

\* The answer is written, and the next request may come.
Answered ==
    /\ last # NoRequest /\ last' = NoRequest
    /\ UNCHANGED <<transport, configured, task, given>>

\* The change that was started comes to its end.
TaskEnds ==
    /\ task.state = "started"
    /\ task' = [task EXCEPT !.state = "ended"]
    /\ UNCHANGED <<transport, configured, given, last>>

GateNext ==
    \/ \E path \in OpenPaths \cup GuardedPaths : \E p \in Payloads(path) : Dispatch(path, p)
    \/ Answered
    \/ TaskEnds

GateSpec == GateInit /\ [][GateNext]_gateVars

-----------------------------------------------------------------------------

\* The requests that change the system, and among them those that the user must
\* have confirmed.
Changing == {"storage/permission", "workspace/submit", "workspace/approval/respond",
             "approval/respond", "tasks/cancel", "tasks/continue", "workspace/model/select",
             "models/respond", "providers/ollama/respond"}
       \cup (SoftwarePaths \ {"software/snapshot"}) \cup {"security/scan"} \cup JobPaths
       \cup QuarantinePaths
Confirmed == {"software/restore", "security/quarantine/commit", "security/quarantine/restore"}

\* capabilities(): the part that each group of listed capabilities belongs to,
\* and the requests that use it.
Advertised ==
    [software |-> SoftwarePaths, security |-> SecurityPaths,
     models |-> {"models/catalog", "models/respond"},
     provider |-> {"providers/ollama/status", "providers/ollama/respond"}]

\* What the panel sends when the user has confirmed what it asks.
Legitimate(path, p) ==
    p.exact /\ p.sound /\ p.action # "other" /\ p.confirmed \in {"none", "yes"}

\* The layers agree.  Nothing that changes the system is reached over the
\* loopback transport, and nothing that needs the user's word without it.  A
\* task has started only on every confirmation that its kind of change needs,
\* each let through by the gateway as that kind: a removal on the first and on
\* the final one, however requests were repeated, mixed up or sent about
\* another action.  And the rules do not contradict each other: what an
\* advertised part is legitimately asked for over the socket is let through by
\* the trusted policies.
LayersAgree ==
    /\ last.reached /\ last.path \in Changing => Secure
    /\ last.reached /\ last.path \in Confirmed => last.payload.confirmed = "yes"
    /\ task.state = "started" =>
         \/ task.action = "install" /\ given = {[capability |-> "software.install.commit", final |-> FALSE]}
         \/ task.action = "install" /\ given = {[capability |-> "software.backup.restore", final |-> FALSE]}
         \/ task.action = "remove" /\ given = [capability : {"software.remove.commit"}, final : BOOLEAN]
    /\ \A part \in configured \ {"core"} :
         last.path \in Advertised[part] /\ Legitimate(last.path, last.payload) /\ transport = "unix_peer"
             => last.reached

================================================================================
