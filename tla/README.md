# A TLA+ model of the AI-native runtime

The repository is a local runtime that turns the user's messages into bounded,
audited actions: a daemon (`ai_native_linux`) wires a workspace, an intent
compiler, an execution orchestrator, a permission gateway, a task ledger, a
storage catalog with a copy service, an index scheduler and a set of modules
that run as processes of their own; a panel of the desktop talks to it. This
directory holds TLA+ modules of the parts that decide whether the user can trust
it, the TLC configurations that check them on small instances, and proofs for
TLAPS.

Contents: [1 the system](#1-the-system), [2 the modules](#2-the-modules),
[3 the runs](#3-the-runs), [4 fairness](#4-fairness),
[5 disagreements found](#5-disagreements-found), [6 proofs](#6-what-is-proved),
[7 what is left out](#7-what-is-left-out), [8 plan](#8-plan).

To repeat a run: `tlc -config TaskLedger.cfg MCTaskLedger` (section 3 names the
model of every `.cfg`); to repeat a proof: `tlapm TaskLedgerProofs.tla`.

## 1 The system

### 1.1 How the parts interact

```
 panel --HTTP/Unix socket--> query-service (routes, gateway) --> workspace-service
   |                                  |                            | pool of workers
   |                                  |        turn-router <-------+---> intent-compiler
   |                                  |                            v      (model)
   |                                  |                  execution-orchestrator --> task-ledger
   |                                  |                     |  approval sessions     (SQLite)
   |                                  v                     v
   |                        permission-gateway / registry (policies, permits, scopes)
   |                                  |                     |
   |                                  |       +-------------+-------------+
   |                                  |       v                           v
   |                                  |  catalog search      storage: MaterializeService (copies)
   |                                  |       ^                           |
   |     inotify, mounts --> index-scheduler -+                           v  the user's files
   |                                  v
   +------------------> module-manager: one worker process per module
                        (file-operations, software-manager, security-center, Ollama)
```

All of it except the modules lives in one process with many threads: the
connection threads of the socket server, the pool of the workspace, the index
thread. Threads meet in SQLite files (each call its own connection and
transaction), in a few locked memory structures (approval sessions, copy plans,
the permits of the registry, the slots of the pool) and in the shared task
context. A crash loses the memory and keeps the SQLite files and whatever was
written into the user's directories. A module's worker is asked over its stdin
and answers on its stdout, one line each.

### 1.2 Inventory

For each component: the state it keeps, its operations, what is hard about it,
what makes it correct. The modules that model it are in brackets.

**task-ledger** (`services/task-ledger`) [LedgerRows, TaskLedger]
- State: table `tasks` (state, three counters, total, checkpoint, the cancel and
  continue flags), `task_references`, `task_events`.
- Operations: create, start, awaiting_approval, approval_received,
  record_item, add_reference, save_checkpoint, interrupt, request/claim
  continue, request_cancel, raise_if_cancelled, cancelled, complete, fail,
  recover_after_restart, purge_expired.
- Hard: `complete` and the cancel protocol are read-then-write in two
  transactions; user requests arrive between any two calls of the worker; a crash
  can fall between any two calls; old flags survive a restart.
- Correct if: the outcome says the truth about skipped items, terminal rows are
  final, requests are neither lost nor left over, and no row looks alive that
  nothing works on.

**execution-orchestrator** (`services/execution-orchestrator`) [ApprovalFlow, Consent]
- State: approval sessions (bounded, with a time to live), the compiled plan
  store, the calls to the ledger.
- Operations: execute (search, prepare, store a session), respond_to_approval
  (claim, decline or commit), discarding of expired and evicted sessions.
- Hard: two threads on one run; a session expires or is evicted between being
  stored and the ledger waiting; a cancel request at any point; an error after
  the effect has happened; several sessions discarded in a row.
- Correct if: files change only with consent and only once per consent, the
  reported outcome agrees with the files, prepared work always has an owner,
  running work ends.

**permission-gateway** (`services/permission-gateway`) [PermissionPolicy; permits in ApprovalFlow]
- State: the built-in policies, granted scopes, `max_concurrency` permits per
  capability, the audit log.
- Operations: `evaluate()`, and prepare and commit under a permit.
- Hard: prepare and commit compete for the same permit; scopes change between
  them; the policy table must agree with what the routes and workers expect.
- Correct if: permits are returned on every path, a commit is decided anew, and
  nothing legitimate is refused by a policy that contradicts another.

**query-service and the transport** (`query-service`, `agent-runtime/routes`)
[RequestGate]
- State: which parts are configured, the transport of a request.
- Operations: every path that changes something, or needs a confirmation.
- Hard: three layers decide one after the other by rules of their own, and
  requests are repeated and mixed up.
- Correct if: what the router closes stays closed, and a task starts only on the
  confirmations its kind needs.

**agent-runtime: startup** (`services/agent-runtime`, systemd) [RuntimeStartup; order of
recovery in TaskLedger, ApprovalFlow, WorkspaceRuntime]
- State: the socket's path, the process that listens.
- Operations: probe, unlink, bind, listen, recover, purge, serve, stop.
- Hard: two instances at once, a stale socket of a dead one.
- Correct if: one runtime is active and no other declares its tasks interrupted.

**storage-catalog, copying** (`materialize.py`) [MaterializeCopy; its plans in ApprovalFlow]
- State: copy plans and grants in memory; the destination directory.
- Operations: create_copy_plan, execute, discard.
- Hard: the user works on the same files and directories during every step;
  links are not available on every filesystem; a rollback acts by path.
- Correct if: only the approved content is published, all of it or none of it,
  and nothing of the user's is replaced.

**index-scheduler and the catalog** (`services/index-scheduler`, `catalog.py`)
[EventQueue, IndexScheduler]
- State: a bounded coalescing queue of events, crawls in memory with a
  checkpoint and a queue of directories in SQLite, required and completed
  volumes; the catalog's rows marked with the scan that saw them.
- Operations: submit, request_rescan, resume_or_request_rescan, process_once
  (events, then a bounded part of a crawl), finish_incremental_scan, watches.
- Hard: overflow turns events into a rescan; a crawl runs over a tree that
  changes; offsets are saved once per batch; events are taken off the queue
  before they are processed; the process may die anywhere.
- Correct if: a row that disagrees with its file is about to be looked at, nothing
  that exists is removed, and crawls end.

**storage-catalog, volumes; the storage-watch thread** (`registry.py`,
`discovery.py`, `index-scheduler/service.py`, `inotify.py`)
[VolumeRegistry, WatchedVolumes]
- State: a row per volume with what is permitted on it and whether it is there;
  in memory the volumes known, watched and rescanned, descriptors and paths.
- Operations: refresh (read the mount table, then write), set_permission, poll,
  add_tree, remove_volume.
- Hard: disks come and go between the two halves of a refresh; several disks share
  a mount point one after the other; the kernel ends a watch without being asked.
- Correct if: a disk that is taken care of is believed to be watched, or rescanned, and
  the belief is right as long as its disk stays where it is and alone there.

**indexer, query-service's search** (`services/indexer`, `services/query-service`)
[ContentSearch, SemanticRetrieval]
- State: the texts of files with a stamp, by path; in memory a bounded cache of
  vectors. A search keeps nothing but reads five times from two databases.
- Operations: index_file, remove_path, record_unavailable; search_page;
  the retriever's search.
- Hard: a permission is withdrawn, a disk exchanged or a file written between
  any two reads; a text outlives the disk it was read from; vectors push each other out.
- Correct if: nothing is read, kept, answered or given to a provider but in the name of
  a volume that the user has permitted, and from a disk of its place.

**workspace-service** (`services/workspace-service`) [WorkspaceRuntime]
- State: conversations, messages, runs with a stage, one saved clarification,
  attachments; in memory the pool, its slots and the configuration lock.
- Operations: submit, the worker (`_process`), respond_to_approval,
  configure_model, recover_after_restart, retention.
- Hard: workers finish in any order; an answer may run before the worker has
  posted the notice of the question; failure handlers can themselves fail; the
  model is exchanged while messages arrive.
- Correct if: runs report what the orchestrator returned, each approval is
  answered once, a saved question is continued only by the next message, slots
  balance, runs settle.

**turn-router, capability router** (`services/turn-router`) [TurnRoute]
- State: none; a message is cut into talk and action, and operations are matched.
- Hard: what a negation covers in the message may be cut from it; two tests look for
  negations and do not agree; two models and an embedding are not trusted.
- Correct if: exactly what is grounded in the whole message is compiled.

**intent-compiler** (`services/intent-compiler`) [ModelTurn, IntentPlan; the task
context in WorkspaceRuntime]
- State: the task context (active collection, last destination) on disk.
- Operations: a turn of the model with its reviews; normalise, ground, validate,
  resolve, ask or plan; the executor's own check of the plan.
- Hard: two sets of rules (compiler and executor) must agree; the context
  changes under a plan; every review is itself an answer of a small model.
- Correct if: nothing the user said is lost, nothing is invented, and what is
  approved is what was meant.

**capability-registry** (`services/capability-registry`) [CapabilityRegistry]
- State: a row per module with the user's wish, quarantine and state.
- Hard: dependency chains and cycles; several processes refresh the states.
- Correct if: exactly the modules that can work are enabled.

**module-manager** (`services/module-manager`) [ModuleHost]
- State: the worker process of a module, its reader threads, its lifecycle.
- Hard: answers carry no number; a request that is given up leaves its reader.
- Correct if: an answer goes to the request it belongs to.

**file-operations module** [FileOperations]
- State: a prepared plan with a time to live; the undo list during a commit.
- Hard: one item of several fails, the undo meets a changed directory, the test
  for an absent target is not atomic with the rename.
- Correct if: a plan is all or nothing and says which.

**software-manager module** [SoftwareManager]
- State: rows of tasks, snapd's changes, one backup with its snapshot.
- Operations: prepare, confirm, pause, resume, cancel, the recovery thread,
  retries, backup synchronisation, restore with reinstallation.
- Hard: snapd works on its own and its answers get lost; the user and the
  recovery thread act on one task; a restore consists of five steps.
- Correct if: nothing runs in snapd that the rows do not account for, and the user's
  pause or cancellation stands.

**security-center module** [Quarantine, ScanJobs, SecurityScan]
- State: quarantine receipts and objects, findings, scan jobs in memory and in
  a database, the walk of a scan.
- Hard: the user moves files while they are claimed, a crash between a move and its
  row, scheduler and user start scans at once, a verdict sums up many partial looks.
- Correct if: a record says where its file is, one scan runs at a time, and what was
  not looked at is not called clean.

**provider-ollama, model-ollama** [OllamaProvider, ModelCatalog]
- State: the installation's state, threads, the user's decision.
- Hard: the user declines while a thread works; two pulls compete.
- Correct if: no model is pulled without consent and progress is that of a thread.

**desktop panel** (`extension.js`) [ChatPanel, ScanPanel, QuarantinePanel]
- State: the run, the scan and the receipt it follows, its buttons and timers.
- Hard: each `await` lets other callbacks in; answers overtake each other.
- Correct if: what was started is followed to its end, buttons come back, and no
  receipt is kept that cannot be settled.

Not modelled: how a volume is identified, collections (snapshots written once and
read), text extraction, system-monitor, system-updates, documents-pdf, browser-navigation,
desktop-applications (sampling, extraction, launching), deployments, labs and
packages (installation scripts, evaluation, the SDK's types).

## 2 The modules

| module | models | proofs in |
|---|---|---|
| `LedgerRows` | the columns of one row and what each ledger method does to it (operators only) | `TaskLedgerProofs` |
| `TaskLedger` | the ledger under threads, requests, crash, recovery, retention | `TaskLedgerProofs` |
| `Consent` | abstract: effects only with consent | |
| `ApprovalFlow` | orchestrator, session store, permits, plans; composes `LedgerRows`, implements `Consent` | `ApprovalFlowProofs` |
| `MaterializeCopy` | `MaterializeService.execute` against the user's own changes | `ServicesProofs` |
| `WorkspaceRuntime` | runs, workers, answers, clarifications, model exchange | `WorkspaceRuntimeProofs` |
| `TurnRoute` | who decides what a message asks for | `WorkspaceRuntimeProofs` |
| `ModelTurn` | one turn of the model, with its reviews | `WorkspaceRuntimeProofs` |
| `IntentPlan` | payload to plan to execution, under a context that changes | `WorkspaceRuntimeProofs` |
| `EventQueue` | the coalescing queue and what it promises (operators only) | `IndexSchedulerProofs` |
| `IndexScheduler` | the index thread, inotify, crawls, checkpoints, crash; composes `EventQueue` | `IndexSchedulerProofs` |
| `VolumeRegistry` | disks, their registry and their permissions, several processes | `StorageProofs` |
| `WatchedVolumes` | the storage-watch thread over `VolumeRegistry`, with the kernel's watches | `StorageProofs` |
| `ContentSearch` | rows, texts and a search over `VolumeRegistry`, read by read | `StorageProofs` |
| `SemanticRetrieval` | the bounded cache of vectors | `StorageProofs` |
| `PermissionPolicy` | the gateway's decision and its trusted policies (operators only) | `ServicesProofs` |
| `RequestGate` | the way of a request through router, application, gateway and worker | `ServicesProofs` |
| `RuntimeStartup` | instances of the runtime around one socket | `ServicesProofs` |
| `CapabilityRegistry` | wishes, states and dependencies of modules, several processes | `ServicesProofs` |
| `ModuleHost` | one module's worker process and its callers | `ServicesProofs` |
| `FileOperations` | commit and undo of move, rename, trash and create | `ModulesProofs` |
| `SoftwareManager` | tasks, snapd's changes, backup and restore | `ModulesProofs` |
| `Quarantine` | a file's way into the quarantine and back | `ModulesProofs` |
| `ScanJobs` | scan jobs, their threads, the scheduler, the database | `ModulesProofs` |
| `SecurityScan` | what a scan looks at and what it then says | `ModulesProofs` |
| `OllamaProvider`, `ModelCatalog` | an Ollama of one's own, and its models | `ServicesProofs` |
| `ChatPanel`, `ScanPanel`, `QuarantinePanel` | the panel's requests and answers | `PanelProofs` |
| `Panel` | composes the three, which one thread serves | `PanelProofs` |
| `MCServices` | sum of ten parts (section 3), and `ModuleHost` composed with the workers `OllamaProvider`, `ModelCatalog` | `ServicesProofs` |
| `MCConversation` | sum of the stages of a message, and `TurnRoute` composed with `ModelTurn` | `WorkspaceRuntimeProofs` |
| `MCModules` | sum of the modules' and the panel's parts | `ModulesProofs` |
| other `MC*` | instances for TLC: symmetry, small sets, constraints | |

How state and actions correspond to the code, module by module:

**LedgerRows, TaskLedger.** `LedgerRows` has one operator per effect on a row
(`WithItem`, `Finish`, `Continued`, `RecoveredRow`, ...) and one per guard
(`CanRecordItem`, ...), as the SQL statements of `ledger.py` test and set the
columns; `TaskLedger` and `ApprovalFlow` share it, so the orchestrator uses the
ledger that is proved correct. `TaskLedger` adds what the database does not
hold: `holder`, who in the process answers for a task; `decided`, what a thread
has read and not yet written back; `daemon`, how far startup has come. One
action is one SQLite transaction: `complete()` is two actions because it uses two
connections; `raise_if_cancelled()` and the `cancelled()` that its caller sends
are two as well. `Crash` may happen in every state and keeps `tasks`. That
one task is worked on by one thread is a fact about the callers
(`orchestrator.py`); without it `OutcomeHonest` would not hold.

**ApprovalFlow, Consent.** `pc` of a run says where the thread that executes or
answers it is. `sessions` is the store, oldest first; `reaping` the sessions a
thread has removed and still has to discard, one ledger call at a time, which
is where the loop of `_discard_sessions` can be interrupted by an error.
`plans` and `permits` are the copy service and the registry. Any ledger call may
raise (`LedgerRaises`) while `faults < MaxFaults`. `Consent` says what the
protocol is for: a run asks once, the question is confirmed or closes, and the
effect changes only while confirmed; `ApprovalFlow` implements it under the
mapping `phase`, and `ConsentKept` is the instance's specification.

**MaterializeCopy.** One action per system call that matters: `mkdir`, the space
check, the comparison of the source, `target.exists()`, the identity of the
destination, `mkstemp`, the copy, the digest, the hard link or the exclusive
create with its stream, the `unlink` in `finally`, each unlink of the rollback,
`rmdir`. Between any two of them the user may change a source, put, replace or
delete a file under a destination name, or move the destination directory away and
put another in its place. `touched`, `swapped` and `moves` are history.

**WorkspaceRuntime.** Each run has a worker and possibly an answering thread.
`stage` follows the transition table of `store.py`; a transition that the table
refuses raises, which sends the thread to its failure handler, and `Raises` lets
any store call do the same while `faults < MaxFaults`. What the model and the
routers decide is free here; `result` is what the orchestrator returned, from which
the wording is made. The lock of `configure_model` is the guard of `Submit`.

**TurnRoute, ModelTurn, IntentPlan.** What `WorkspaceRuntime` leaves free, each
for one message. `TurnRoute`: a message is a sequence of phrases, each with the
operation whose words it uses and the phrase of the negation that the capability router
finds for it (`negator`: in it or before it, or none); a text is a stretch of phrases, and
the negation counts in it if it was not cut off. Whether the turn router finds
a negation at the beginning (`guarded`) is a choice of its own, as its test is: the two
differ on "don't", on "not only", and on whatever stands more than three words from the
cue. Similarities are free choices too. `ModelTurn`: `route()` of the Ollama provider with
its reviews, each an answer that may be wrong or fail; a value is abstracted to
whether it stands in the message. `MCConversation` puts the two side by side, each with
a message of its own. `IntentPlan`: grounding, validation,
resolution, clarification and planning, then the executor's validation and
execution, while other tasks change the active collection and the last place.

**EventQueue, IndexScheduler.** A queue is a set of events (the order of the
dictionary is left open), with `Covered`, the paths it still promises to look
at. `IndexScheduler` has a file tree that the user changes, the kernel's
`records`, the events that were read and go into the queue one at a time
(`incoming`, `Submit`), the batch in hand, `crawl` with its frontier in memory and the
checkpoint in the database. `passed` is history: the entries that the crawl of their
volume has come to. `torn`, `missed` and `kept` are history for what the
code really loses: an offset counted in a listing that has changed, so that a resumed
crawl skips entries it has not passed, a crash between a
row and its event, a `*` rescan that fails on one volume and drops the others'
requests, files created in a new directory before it is watched, directories
made anew that are never watched again, protected prefixes, and a DELETED that
is believed without looking.

**VolumeRegistry, WatchedVolumes.** A disk is always mounted at the same place,
and a place holds one disk at a time. A refresh is two steps, `Discover` and
`Register`, of the daemon's thread or of another process. A round of the thread is
`PollDiscovers`, `PollRegisters`, `CompareMounts`, `ReviewPermissions`; `_watch()` is
`Watch`, where each tree may fail. `kernel` is what inotify really watches, `believed` the
paths the watcher has a record of, `ended` the descriptors of watches that the kernel
ended; finding 5 is that the watcher's records and the kernel drift apart. The thread
asks whether a disk is permitted and not for what, so the user sets two of the three levels
here, and all of them in `ContentSearch`. Only the
root directory of a disk is watched in the model.

**ContentSearch.** Each disk has one file, at the path that the other disks of its place
use too; a text belongs to a path. The index thread writes the catalog's row (`Look`),
asks for the permission (`UpdateContent`), reads (`ReadText`) and only then takes the
stamp (`StampText`): four steps. A search is `SearchLexical`, `FindEligible`,
`KeepOpened`, `SearchCorpus`, `AttributeHits`, `FilterHits`, a read of one database each.
`consented` and `granted` are history: what the user has ever opened, and what was
permitted at some time since the search began. A permission is for a volume, and the
text of whichever disk is at its place is what is read: `SearchAuthorised` speaks of the
volume that is named and says of the disk that it is of that volume's place.

**SemanticRetrieval.** `vectors` is the cache, the oldest first. `Search` makes what is
missing, caches it and takes the whole corpus from the cache.

**PermissionPolicy, RequestGate.** The policy table of the built-in gateway with
`evaluate()`, and the way of one request through the router (which paths are
closed to the loopback), the application (fields, capability, gateway) and the
module's worker (the task as it is). A payload is abstracted to whether its
fields are the expected ones, whether values pass, and the values that decide.

**RuntimeStartup.** A process probes the socket at the path, removes it, binds,
listens, and only then recovers, purges and serves; it may die anywhere and is
started again. `rivals` and `disturbed` are history: who else was between its first
look and the end of its binding, and whose tasks a second instance declared
interrupted.

**CapabilityRegistry, ModuleHost.** `sync`, `set_enabled`, `quarantine` are a
transaction each, followed by a refresh that reads all rows, computes, and writes
states in another transaction. The computation is the code's own: a search for cycles
depth first, node by node (`active` is its stack, `left` what each node on it has still
to visit), then one module taken back at a time until nothing changes (`BlockModule`).
It speaks of the rows that were read and of nothing else, so its steps commute with
those of the other processes, which wait meanwhile. `fresh` and `settled` are
history: who has read the rows as they are. `ModuleHost`: callers start the worker, write a line, wait for a reader
thread, give up; the main thread stops it. `crowded` is history: requests that
were written while an abandoned reader still waited.

**FileOperations.** One action per `lstat`, `replace`, `.trashinfo` write and
unlink, plan transition and undo step of `commit()`, against a user who puts,
replaces and deletes files; expiry, cancellation and the loss of the process. `raced`,
`clobbered` and `abandoned` are history for the two gaps named in section 7.

**SoftwareManager.** Operators give the outcomes of each method (`Starts`,
`Stops`, `Applied`, `Paused`, ...): a row, snapd's changes, and whether the
backups are to be synchronised. Manager operations hold one lock and are one step;
`BackupManager.sync()` has no lock and is two (`Ends`, `WriteSync`). A restore is
its five calls, with the process dying between any two. `halted` and `torn` are history.

**Quarantine, ScanJobs, SecurityScan.** The worker's commit and restore with
their claim, move, verification and settlement; threads, active job and rows
of jobs, with rows that cannot be written; and the walk over a forest of entries
with limits, errors, a cancel and a user who changes what is read.

**OllamaProvider, ModelCatalog.** `status()` drives the installation; two
threads, the user's decision and a server that goes away. Pulls share one lifecycle.

**ChatPanel, ScanPanel, QuarantinePanel.** One action per answer that comes in
and per callback, in any order; lost answers are bounded. `split`, `overtaken`, `crossed`
and `hidden` are history for the gaps named in section 7.

## 3 The runs

| run | model, cfg | properties | expected |
|---|---|---|---|
| `ledger` | MCTaskLedger, TaskLedger.cfg | OutcomeHonest, CheckpointDiscipline, LiveWorkHasHolder, TerminalIsFinal, CancelNotForgotten | pass |
| `ledger_orphan` | MCTaskLedger, TaskLedgerOrphan.cfg | AbandonedWorkSettled | violation |
| `approval` | MCApprovalFlow, ApprovalFlow.cfg | TypeOK, OutcomeMatchesEffect, PreparedWorkIsOwned, ConsentKept, WorkEnds | pass |
| `approval_cancel` | MCApprovalFlow, ApprovalFlowCancel.cfg | CancelEndsCancelled | violation |
| `services` | MCServices, Services.cfg | ServicesTypeOK, ApprovedContentOnly, AllOrNothing, NoClobber, StatesSettled, WorkersServe, LayersAgree, OneRuntime, BlindVolumesRescanned, SearchAuthorised | pass |
| `workspace` | MCWorkspaceRuntime, WorkspaceRuntime.cfg | TypeOK, OutcomeReported, ModelNotSwitchedInUse, RunsSettle | pass |
| `workspace_talk` | MCConversation, WorkspaceTalk.cfg | ConversationTypeOK, ResumeFollowsQuestion, PlanKeepsItsWord, TurnsHonest | pass |
| `workspace_resume` | MCWorkspaceRuntime, WorkspaceResume.cfg | ResumedCopyUnchanged | violation |
| `index` | MCIndexScheduler, IndexScheduler.cfg | NothingForgotten, QueueLosesNothing, RescanEnds, LiveRowsStay | pass |
| `index_resume` | MCIndexScheduler, IndexResume.cfg | CompleteIsReconciled | violation |
| `modules` | MCModules, Modules.cfg | TypeOK, PlanHonest, ChangesAccounted, RecordsHonest, ScansTracked, VerdictHonest, PanelsFollow, UserDecides | pass |
| `storage_replug` | MCServices, StorageReplug.cfg | ConnectedGetsWatcher | violation |

`services`, `modules` and `workspace_talk` put parts together that share no
state. In a behaviour one part moves (`moving`) and the others rest in one initial
state, so the state space is the sum of the parts' and not their product. (The watches
and the search use the same registry of disks, each in behaviours of its own.) Every
property of these runs is a safety property and speaks of one part, or is a
conjunction of such (`WorkersServe`, `SearchAuthorised`, `PanelsFollow`,
`TurnsHonest`), so that nothing is missed. The type invariants of `TaskLedger` and of
`IndexScheduler` are proved (section 6) and not run.

What the properties say is in the comment above each of them. The ones that
need most of the system to go wrong:

- `OutcomeHonest`, `CancelNotForgotten` (ledger): a two-transaction end, and flags
  that outlive a restart.
- `OutcomeMatchesEffect`, `PreparedWorkIsOwned`, `ConsentKept` (approval): the
  files on disk against what the user was told, whoever evicts, expires, cancels,
  answers or crashes.
- `AllOrNothing`, `NoClobber` (services): the copy against a user who works in
  the same directories.
- `LayersAgree`: the layers in front of a module do not contradict each other,
  and a removal needs both of its confirmations.
- `OneRuntime`: one active daemon, and no other interrupts its tasks.
- `PlanKeepsItsWord`, `OnlyWhatWasAsked`, `NothingLostOrInvented`: what is
  asked for approval is what the routers found asked for and the payload says.
- `NothingForgotten`, `LiveRowsStay` (index): the catalog against the disk.
- `ChangesAccounted`, `UserDecides` (modules): snapd's changes against the rows.
- `StatesSettled` (services): the states of the modules against the largest set of them
  that can work, for every graph of dependencies.
- `SearchAuthorised` (services): five reads of a search and four
  steps of the indexer, against permissions and disks that change between them. It
  is about volumes; what it leaves to disks of one place is in section 7.
- `BlindVolumesRescanned` (services): what the watcher believes, against the
  kernel, as far as that goes (its two exceptions are a watch that has ended and
  a second disk at the place).
- `VerdictHonest`: completed means that everything owed was looked at.

Bounds, and why they are enough to meet the interesting cases:

- `ledger`: two tasks, totals in {NULL, 1}, two items and two references per
  task. Tasks interact only through startup; two show that recovery and purge
  act on each row for itself. A total of 1 with two items meets the limit.
  Crashes are unbounded. 233,480 states.
- `approval`: two runs competing for one session (`Capacity` = 1: storing the
  second evicts the first) and one permit (`MaxConcurrency` = 1, the policy's
  value for copies), one result per step, one storage error anywhere; crashes and
  expiries unbounded. No symmetry, because a liveness property is checked.
  335,142 states.
- `services`: two files and two directories with three changes by the user
  (move a directory away, put another in its place, change a file in it); three
  modules with every dependency graph, two processes and one change of a row (the search
  for cycles is stepped through node by node); two callers, three
  requests, two starts of a worker; two servers, three decisions; two models;
  the requests that fit three sets of configured parts; two instances of the
  runtime; two sticks that share one place, so that each can be taken for the other,
  with one write of each file and three changes of disks, files and permissions while the
  index thread and a search are anywhere (watches, refreshes and restarts unbounded); three
  passages and a cache of two. 956,577 states. The disk of the system (`System`) is
  there in `storage_replug` only.
- `workspace`: two messages, two workers, two slots, one failing store call,
  unbounded crashes; no symmetry. 313,983 states.
- `workspace_talk`: three messages for the runs, which is what overtaking needs
  (the question, its reply, a message between), in one life of the daemon without
  approvals and model exchange (`MCTalk`), since a draft concerns none of these; two
  operations in a payload and one change elsewhere; two phrases; one turn. 1,381,983
  states (runs 199,974; plan 214,807; route 785,188; turn 182,014).
- `index`: a volume with a file, a directory and a file in it, and a second
  volume, so that a rescan of everything has something to lose; a queue of two
  events, a batch of one, one record in the kernel, and two troubles (changes, faults,
  crashes, periodic rescans) anywhere. 312,665 states. The safety properties were also
  held once with four troubles, on one volume with two records in the kernel; the
  disagreement between model and property that section 6 tells of needed four.
- `modules`: two items and two moves of the user's; one task of the user's
  and one of a restore, two changes, one retry; two quarantine records; three jobs;
  a forest of five entries in two scopes with one excluded and a depth limit of
  one; two runs, answers and scans of the panel with one lost or odd answer; three receipts.
  1,077,114 states. `VerdictHonest` was also held with six entries and two turns
  of the user's (16,007,231 states), the invariant of `SoftwareManager` with two
  tasks of the user's and three changes (3,460,728), that of `FileOperations` with
  three items (749,353).
- The violation runs use the smallest instance that shows the disagreement.

Deadlock checking is off in all runs except the ledger's (where a crash is always
possible): in the others the system may stop, when everything has ended and the user
asks nothing more.

Each property of a passing run has a mutant, a definition of the same module
written beside the one it varies (`PublishByRename`, `PutForgetsEvicted`,
`PausedEarly`, ...): with it in place of the original TLC finds the property
violated, so the property does watch that code.

## 4 Fairness

Assumed: a thread that can take a step eventually does (Python threads are
scheduled, SQLite waits are bounded by its busy timeout, calls of the model and of
capabilities have deadlines), a job waiting for a free worker is eventually taken
(`StartJob`, a `ThreadPoolExecutor`), and the service manager restarts a crashed
daemon (`Restart=on-failure` in `deployments/systemd`). Nothing makes the user
answer, cancel or send, and nothing makes time pass: a session may be left
unanswered and unexpired for ever. So `WorkEnds` and `RunsSettle` promise nothing
about runs that wait for the user, and nothing once the storage has raised an
error, because the code then leaves a row running until the next restart.

The index thread is one loop: weak fairness of the disjunction of its steps
(reading the watcher, an event, a piece of a crawl, the end of a batch), and strong
fairness of taking the next batch, because the step is disabled again and again
while the loop is elsewhere, yet every round of the loop comes back to it.
Changes by the user, faults and crashes are not fair; `RescanEnds` lets a crash or
a failed rescan excuse it.

The other specifications state no fairness: their properties are safety.

## 5 Disagreements found

Five runs show the code doing something else than a document, comment or test
of the repository says:

1. `ledger_orphan`: a crash between `create()` and `start()` leaves a PLANNED
   row. Recovery selects only RUNNING and AWAITING_APPROVAL, cancel needs
   RUNNING, retention needs a terminal state: the row stays for ever, although
   recovery says it moves "abandoned work to a safe user-visible state".
2. `approval_cancel`: a cancel request that stops a confirmed copy is classified as
   `user_cancelled`, but `respond_to_approval` calls `fail()`; ADR-008 says
   such a task becomes cancelled. (`execute()` does it right.)
3. `workspace_resume`: the reply to a saved question is checked against the
   active collection before the compilation binds the collection; a search that
   finishes on another worker in between changes what will be copied. The
   approval still asks the user, but about other files than the question did.
4. `index_resume`: `start()` promises that an incomplete catalog cannot look
   complete, but when a crawl was restored from its checkpoint the reconciling rescan
   is left out: a file created behind the restored position, whose event the crash
   lost, has no row while coverage is reported complete.
5. `storage_replug`: a disk that is unplugged is taken out of the watched volumes, but its
   paths stay in the watcher's record. When it comes back, `add_tree` finds them there and
   watches nothing, and no periodic rescan takes its place, although the scheduler's
   README says that a new permitted disk gets a watcher and a background rescan.

Others, without a run of their own, are in section 7.

## 6 What is proved

The theorems hold for every value of the constants that the named assumptions
allow; none of them uses a bound of the runs. `tlapm` checks each module from
nothing in a quarter of an hour at most. In each module an inductive invariant is
proved first (`...Invariant`, by one lemma per action), the type invariant and
the properties of the runs follow from it (the type invariants of all modules among
them). TLC checked every one of these
invariants on the run's instance, or a larger one, before it was proved.

| module | theorems for the runs' properties | assumptions |
|---|---|---|
| `TaskLedgerProofs` | OutcomeHonest, CheckpointDiscipline, LiveWorkHasHolder, TerminalIsFinal, CancelNotForgotten | TotalsAssumption |
| `ApprovalFlowProofs` | TypeOK, OutcomeMatchesEffect, PreparedWorkIsOwned, ConsentKept | LimitsAssumption, VisitorAssumption |
| `WorkspaceRuntimeProofs` | TypeOK, ConversationTypeOK, OutcomeReported, ModelNotSwitchedInUse, ResumeFollowsQuestion, TurnsHonest, PlanKeepsItsWord | PoolAssumption, NoneAssumption, FaultsAssumption, PhrasesAssumption, IdAssumption, MessageAssumption, PayloadAssumption |
| `ServicesProofs` | ServicesTypeOK, ApprovedContentOnly, AllOrNothing, NoClobber, StatesSettled, WorkersServe, LayersAgree, OneRuntime | SizeAssumption, MovesAssumption, RegistryAssumption, HostAssumption, ProviderAssumption, ModelAssumption, PartsAssumption, NobodyAssumption, MovingAssumption, and those of `StorageProofs` |
| `StorageProofs` | BlindVolumesRescanned, SearchAuthorised | PlaceAssumption, NoVolumeAssumption, SearchAssumption, CacheAssumption |
| `IndexSchedulerProofs` | NothingForgotten, QueueLosesNothing, LiveRowsStay | TreeAssumption, NamesAssumption, MaxEventsAssumption, DirAssumption, ListingAssumption, BoundAssumption |
| `ModulesProofs` | TypeOK (of MCModules), PlanHonest, ChangesAccounted, UserDecides, RecordsHonest, ScansTracked, VerdictHonest | ItemAssumption, StepsAssumption, TasksAssumption, RecordsAssumption, JobsAssumption, TreeAssumption, and those of `PanelProofs` |
| `PanelProofs` | PanelsFollow | ChatAssumption, ScanAssumption, ReceiptAssumption |

The arguments:

**TaskLedger** (`IInv`). `RowInv` of every row: counters, checkpoint and flags as the
properties say, stated per row so that each method of `LedgerRows` has a lemma
of its own; `DecisionFresh`: what a thread has read still agrees with the row,
without which `OutcomeHonest` is not inductive (the end state is chosen in an earlier
transaction than the one that writes it); `RecoveryDone`: after recovery and
until serving no row is active, which is what `LiveWorkHasHolder` needs at the
step that starts serving.

**ApprovalFlow** (`ApprovalInv`). `PermitsBalanced` (free permits and holders add
up to the limit), `SessionsDistinct` (a run is in one place of one list at most)
and, per run, `RunGood`: where its plan, its session and its files can be for
each `pc` (`PlanRuns`, `SessionPlaced`, `FilesPlaced`, `EndPlaced`, `AskWaits`,
`OutcomeOf`, `OwnedBy`). What a put or an eviction does to the store is in lemmas
about sequences (`Slice`, `PutSplits`, `Removed`). The refinement of `Consent`
is proved step by step: the put of a session asks, the claim of an answer confirms or
closes, the steps of the copy act, and everything that ends a run closes.

**WorkspaceRuntime** (`WorkspaceInv`). Until a worker has parked its run or is
done with it nobody else touches the run, so its stage and its result are those
of the place the worker has come to (`WorkerPlace`); after that only the thread of
the one answer does (`AnswerPlace`); what can come between the two is a worker whose
notice failed, and that costs a storage error. `SlotsBalanced`, `QueueWaits` and
`SwitchedAlone` tie the slots, the queue and the exchange of the model to them.

**TurnRoute** (`RouteInv`). What is required is in words of the whole message for which
no negation is found there (`RequiredAsked`); a message that is found to begin with a
negation is taken on only with something grounded in it, and whatever is grounded, the model is
offered that and nothing else (`OfferGrounded`), so what it proposes, and what the repair and the
settlement make of that, is grounded too (`ProposedGrounded`). **ModelTurn** (`TurnInv`).
Each review has settled its part of the arguments by the time the next one starts, and
the next ones leave it alone (`RoleSettled`, `ModifiersSettled`, `PreservedSettled`,
`DestinationSettled`); where an action is reached, all four hold. **IntentPlan**
(`IntentInv`). What was accepted refers to what is before it (`OperationsFit`); a payload without
a question has what it refers to (`Resolved`); and the steps are its operations, with
the write as the last one (`PlanMade`). From the first and the third follows that the
executor's validation fails for `Misnamed` only, from the first and the second that a
search is never refused and that what is prepared is what was meant, whatever other
tasks do to the context (`Interfere`): the approval takes its values from the payload, and
the context can only make the preparation fail.

**MaterializeCopy** (`CopyInv`). `PublishesVerified`: at the two publishing
steps the temporary file holds the approved content, which carries the digest
check over to the publication whatever the user does to the source; `NothingWrong`,
`PartialExplained`. For `AllOrNothing` `WholeInv` adds, as long as the path names the
directory it named, that the files in it are those that the thread has noted as
created (`FilesListed`), one for each item up to the one it is at (`CopiesOK`).

**IndexScheduler** (`IndexInv`). A volume that is not being crawled has a row that
agrees with each file, or somebody is going to look (`RowOK`): its event waits with the
kernel, among the events that were read, in the queue or in the batch, or a rescan does.
A volume that is being crawled has for each file a row that this scan has stamped, or
the crawl is still to come to the file or to a directory above it
(`Ahead`, `CrawledOK`); a row that it has not stamped by the end is of a file that is gone,
which is what `LiveRowsStay` needs where a crawl completes. For that the frontier in memory
and in the database must be the same one, made of directories the crawl has passed
(`FrontierOK`, `PassedOK`), and a deletion that waits must not be older than the file it
would take the row of, unless another event about that file waits behind it
(`DeletionsOK`). `QueueLosesNothing` is a fact about `Put`, whether it
merges, appends, collapses a volume or falls back to a rescan of everything; it is used for `NothingForgotten` too. The attempt to
prove `NothingForgotten` as it stood first failed, and with four troubles TLC
showed why: after a crash, the offset of the checkpoint can skip an entry that the crawl has
never come to and whose row an event had stamped. The counting of offsets is the code's
own (section 7), so it was the history that was wrong: what a resumed crawl skips must have
been passed, or its volume is `torn`.

**CapabilityRegistry** (`RegistryInv`). One process computes (`OneComputes`), and it has read
the rows as they are. The nodes of the stack are a path of dependencies, and of what they
depend on nothing has been passed over (`PathInv`), so that what has been visited and
is on no cycle found has all its dependencies visited and no cycle in it, and nothing
that can work is on a cycle found (`VisitedInv`). While modules are taken back, the enabled
ones include every set that can work (`Settling`, with `Sound` and `Grounded`): a
module is taken back for a dependency that is not enabled, which no such set can
have. When nothing is taken back any more, what is enabled is itself such a set, so
it is the largest one. That is `StatesSettled`, for any graph and any order of the
search. A cycle among what is left would be a set in which each module depends on
another one, and by `Grounded` there is none.

**VolumeRegistry, WatchedVolumes** (`WatchInv`). Whatever the thread takes care of goes
into the paths it believes to be watched or into the periodic rescans, and leaves
them only together with what is taken care of (`WatchTakesCare`). A belief is right until
the kernel ends a watch of the volume, which leaves a descriptor, or the directory is
watched for another volume of the place (`RightlyBelieved`); with one disk at a place at a
time (`OneAtAPlace`) a volume that is there is then watched itself. Beyond these two
conditions the theorem says what the code's own records promise and no more: see
finding 5. **ContentSearch** (`SearchInv`). A permission for contents comes from the
user or from the discovery of a disk of the system; from the moment a search begins,
whatever is permitted is noted as granted (`GrantedSince`), so that each of its reads
finds only what was; and a text is kept only for a place one of whose volumes was
opened, and stays with the place of the disk it was read from (`HitsPlaced`). That the disk
itself was opened is not proved, because it is not so (section 7). **SemanticRetrieval**: new vectors are none that is cached, so appending them
keeps the cache free of repetitions (`LinesJoin`), and pushing out the oldest ones
keeps it within its size (`EvictedFits`).

**The sums** (`ServicesInv`, `ModulesInv`, `ConversationInv`). The part that moves
has its own invariant, and only it takes steps; the type invariants of `MCServices`,
`MCModules` and `MCConversation` follow from those of the parts.

**RuntimeStartup**. A process that gets past the probe has seen that nobody listens at
the path, which is where a process that serves listens; so nobody serves, and
nobody comes to serve without starting (`NobodyServes`, `OwnSocket`, `Alone`). All of it
is under `rivals = {}`, as the property is: without that condition it is false
(section 7).

**FileOperations** (`FilesInv`). `PlacesOK` says for each step which of the items that
the user has left alone are moved and which are at home: the first ones are
moved up to where the thread is (`Reached`), and the undo takes them back from the
last. `RaceOK`: what a rename replaces was seen to be free, unless the user was faster.

**SoftwareManager** (`SoftwareInv`). `Fits` says what a row and snapd's changes
have in common (the row has a change exactly while it is snapd's, the change is for its
task, nothing else runs for the task), `Follows` what an outcome may do to them;
each operator that is given a row that fits makes outcomes that follow, and
outcomes compose (`FollowsInTurn`), so that the lemmas go along the calls of
the manager's methods. A row that the user has stopped (`Halted`) stays so and starts
nothing, except by the user's own resume; `BackupOK` says what a synchronisation
may overwrite.

**Quarantine** (`QuarantineInv`): for each step of a request, the state of the record it
works on and whether its object is in the quarantine by then. **ScanJobs**
(`JobsInv`): a thread before the end of its scan has the active job, and the job is
open, so no other can be started. **SecurityScan** (`SecurityInv`): as long as nothing was
left out, every file that has to be looked at was, or is in hand, or lies below
something the walk has still before it (`Covered`); what is left out leaves a
mark that no later scope removes (`MarkKept`).

**ModuleHost** (`HostInv`). One caller holds the locks of a worker (`OneHolder`). A line
that was asked for is the caller's own or has an abandoned reader (`Asks`), no more
lines are on their way than readers wait (`LinesPending`), and the line of a request
that was not crowded comes last of them (`LineIsLast`): so the readers before it take
the lines before it, and its own is left for it. **OllamaProvider** (`ProviderInv`): a
refusal is heard by the only thread there is (`RefusalHeard`). **ModelCatalog** (`ModelInv`):
a thread was started on the user's word, or for a base model that vanished (`Consented`),
and who is past the lifecycle lock holds it (`LockHeld`), so only one pulls (`OnePull`).

**RequestGate** (`GateInv`). The request in hand has reached what it may reach, and
nothing that decides about that changes before it is answered (`RequestDecided`); what
was let through for a task is what its state says, no more and no less
(`GivenMatches`), so that a removal starts on both of its confirmations. That the policies let
the panel's requests through is a lemma per row of the table (`SoftwareRows`,
`SecurityRows`) and one case per path (`LegitimateAccepted`).

**The panel** (`ChatInv`, `ScanInv`, `PanelInv`). Chat: at most one poll, for the run
that is followed, and nothing is sent or loaded beside it (`PollsGood`,
`NothingBeside`); what a poll has read is not older than what it says of the run's end.
Scans: a timer is kept exactly as long as a job is followed (`PollSourceKept`).
Quarantine: only a panel without a receipt prepares one, and what was clicked is for
the receipt it keeps (`PanelGood`).

Only model-checked, and why:

- Liveness: `WorkEnds`, `RunsSettle`, `RescanEnds`. The provers have no ENABLED and so
  no weak fairness.
- What the violation runs refute is of course not proved; the theorems about the same
  components say what does hold there.

## 7 What is left out

In general: data. Names, paths, wording, digests, timestamps, events and audit
records; argument and size limits that are pure tests on a request.

What the code does beyond or against a property, kept in the models and excused
in the property by a history variable or a condition:

- Copy: `AllOrNothing` is promised only while the destination path keeps naming the
  same directory; when it is moved away, files published in it stay there and the
  rollback acts on what the path names now. The rollback unlinks by path (line 247) and
  deletes the user's file if they have replaced a published copy meanwhile, which is why
  `NoClobber` leaves it out. `UnlinkTemporary` does not fail in the
  model; if it did, the code would raise from `finally` and roll back with the
  temporary file left. What a crash leaves in the destination nobody cleans up.
- Orchestrator and workspace after a storage error: the ledger calls after a
  successful commit are outside the `try` block, so the files may be in place while
  the task is RUNNING until the next restart fails it; `_finish_failure` logs its own
  errors. The properties say `faults = 0` where the code promises nothing beyond.
- The expiry of an approval session is not told to the workspace: its run stays
  AWAITING_APPROVAL until an answer fails it (`SessionExpires`; no property
  forbids it).
- Index: `torn` (told from `passed`), `missed` and `kept` (section 2).
- Texts are kept by path. Between the row and the text the disk may be exchanged for another
  one with the same mount point, whose text is then indexed on the first disk's permission
  (indexer `service.py:173`; storage-catalog-contracts.md:161 says otherwise). Withdrawing
  a permission removes no text, and a hit is attributed by its path, so that another
  permitted disk at the same place gives the text out (query `service.py:286`, against
  line 162 of the contracts). The stamp is taken after the text was read (line 178): a write
  in between leaves the old text under the new stamp, which later looks take for
  current. So the text of a disk that the user never opened can be read, kept and answered in
  the name of another disk of its place, and the model does so too: `SearchAuthorised` speaks
  of the volume that is named, and says of the disk that it is of the volume's place.
- New vectors can push out of the cache others of the same corpus (`semantic.py:121`): the
  search is then empty, and none is tried for a minute, as after a provider's failure.
- Storage: a thread that ends by an exception is not modelled, nor directories below the
  root of a disk, nor a file that is at several paths. A place without a disk has no
  files. `scan_volume` writes a row in one step. What makes the scheduler look at a file is over-approximated: it may look at any
  file, and forget any row, at any time (`Look`, `Forget`).
- File operations: a `ValueError` from `_safe_root` leaves the plan "committing";
  the test for an absent target and `os.replace` are two steps (`raced`); a
  failing unlink of a `.trashinfo` skips the undo (`abandoned`); a failed info
  write leaves a partial one.
- Software: when the answer to `backend.start` is lost, or the process dies before the
  id is saved, snapd's change is an orphan that nothing here can see; "abort" is
  taken for the end of a change; `backups.sync` is unlocked and may write over a row;
  a crash in a restore leaves the row awaiting, or restores the data twice (`torn`).
- Quarantine: a restart cancels only receipts that wait; an error after the
  restore's move leaves "quarantined" though the file is back (`cut`); a rollback is
  blocked when the path is taken (`raced`).
- Scan jobs: when the row of a job the scheduler starts cannot be written, the job stays
  active and blocks all starts until a restart (`unsaved`).
- Scans: directories below `max_depth` and special files are passed over without being
  counted, where SECURITY-LAB.md:55-57 says that a limit gives no clean verdict;
  `VerdictHonest` speaks of what lies within the depth only.
- Runtime startup: two instances that start at once (A binds but does not listen yet,
  B's probe is refused, B removes A's socket) are both active, and B declares A's
  tasks interrupted (`rivals`). A second instance also starts its workers
  before it has the socket, and their constructors mark the active daemon's scan
  jobs failed and its waiting receipts cancelled.
- Request gate: the panel's software and security paths grant themselves the scopes they
  need, so that revoking a scope does not affect them, unlike the gateway's README
  says; over the loopback `/v1/capabilities` lists capabilities whose paths answer 403;
  declining a software task is not authorised by the gateway.
- Module host: lines have no number, so with two requests given up an answer can go
  to another request (`crowded`); a failing start quarantines the module for good.
- Ollama: a server silent for ten seconds is left running and replaced; a decline
  while the archive is unpacked still publishes it (`late`); a restart of the worker
  leaves servers behind. `ensure_base()` asks nobody when a base model vanished (`unseen`).
- Registry: an overtaken refresh writes stale states until the next one; modules
  whose manifest disappeared are never removed.
- Panel: the two requests of a load are read in one step (`LoadRead`); a load is not tried again; a lost answer to a submit leaves a run that is not
  followed; a run that ends between the two halves of a poll (`split`), a message sent
  before the first load was answered (`overtaken`), another job found while a start is on
  its way (`crossed`), and a restore that ends while the box is the quarantine's (`hidden`).
- Intent: an argument equal to an operation's id makes a plan that the executor
  refuses (`Misnamed`); `results_from` naming no search is found out only at execution.
  Routing: without evidence in words, and with a negation that does not begin the
  message, an embedding can bring a forbidden operation up to its approval question.
  With evidence, a negation that the capability router misses does: it splits "don't" in two
  and looks three words back within a clause (`capability_router.py:187-189`), while the
  turn router knows "don't" and looks at the beginning only (`router.py:189-198`). "Don't
  move the selected files to trash" is negative for the second and required for the first;
  without other evidence it would stay talk (`test_turn_router.py:25-37`), and with it the
  whole is refused as an action (`router.py:75`, `test_turn_router.py:56`), but a split into talk and action passes the check at
  `runtime.py:374`, whose comment says that a forbidden operation must not become
  required, because it was required before the cut. `TurnRoute` reaches that state, and
  `OnlyWhatWasAsked` does not exclude it.
  A turn: a subject can be dropped on the review's word alone when the search has no
  other argument (the plan then asks).

Not modelled at all: the orchestrator's compiled plan store, roles of destinations
and plans of extension capabilities; the workspace's retention, attachments and the
link from a run to its task; approval grants apart from their copy plan; renamed
directories, chunks, ranking and paging, `coverage()`, the search of names and collections
(all read-only), `index_directory` and `ingest_pdfs` (which the daemon does not call);
framing, peer credentials and GET paths; `reap_idle` (no caller) and the start
of dependencies; signatures, clamd, posture probes and reports; notifications and
progress figures; an Ollama of the system; the panel's other cards; prompts, JSON
shapes, locales and word lists.

## 8 Plan

Done: the models of the table in section 2, the runs, and the proofs of section 6.

What is left: the orchestrator's other plans (extension capabilities), which share the
session store that `ApprovalFlow` models with copies.
