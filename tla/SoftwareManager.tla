---------------------------- MODULE SoftwareManager ---------------------------
(***************************************************************************)
(* The software-manager worker: tasks that install or remove one snap      *)
(* through snapd, and the backup that snapd took of its data.              *)
(*                                                                         *)
(* Two threads: the worker's, which serves one request of the user after   *)
(* the other, and the recovery thread, which reconciles the tasks with     *)
(* snapd.  A manager operation runs under _operation_lock, so it is one    *)
(* step here; the backups have no lock.  The operators below give the set  *)
(* of outcomes of an operation: the task's new row, snapd's changes, and   *)
(* whether the backups are to be synchronised.  NetworkManager is asked    *)
(* each time anew, so an operation that asks it has the outcomes of all    *)
(* its answers.                                                            *)
(*                                                                         *)
(* A row keeps what the code reads of it in its state: phase while snapd   *)
(* works on it, pause_reason while it is pausing, external_id in both, the *)
(* rest until it ends.  auto_resume is read when a task waits for the      *)
(* network or a retry, and then it is always set.  A change that is over   *)
(* and in no row is forgotten, and so is one whose id the worker never     *)
(* learned, because the answer was lost or the process died: nothing here  *)
(* can see it.                                                             *)
(***************************************************************************)
EXTENDS Integers

CONSTANTS
    MaxTasks,    \* bound: tasks ever made ...
    UserTasks,   \* bound: ... the first of them, if the user asks for them
    MaxChanges,  \* bound: changes snapd makes
    RetryLimit   \* len(RETRY_DELAYS_SECONDS)

ASSUME TasksAssumption == {MaxTasks, UserTasks, MaxChanges, RetryLimit} \subseteq Nat

VARIABLES
    tasks,     \* the rows of software_tasks
    changes,   \* snapd's changes, with the task they are for, 0 for a restore
    backup,    \* the row of software_backups
    snapshot,  \* snapd has the snapshot
    call,      \* the restore request the worker's thread is in
    sync,      \* the row the recovery thread is about to write
    halted,    \* history: the tasks the user has paused or canceled
    torn       \* history: a restore was cut, or its row overwritten

softwareVars == <<tasks, changes, backup, snapshot, call, sync, halted, torn>>

TaskId == 1 .. MaxTasks
ChangeId == 1 .. MaxChanges

Waiting == {"paused", "interrupted", "waiting_for_network", "retry_wait"}
Unconfirmed == {"awaiting_confirmation", "awaiting_final_confirmation"}
InBackend == {"running", "recovering", "pausing", "canceling"}
Ended == {"completed", "failed", "canceled"}

\* A change that may still install, remove or restore something.
Running(c) == changes[c].status \in {"download", "work"}

NoTask == [action |-> "none", keep |-> FALSE, state |-> "none", phase |-> "none",
           reason |-> "none", retries |-> 0, change |-> 0]
NoChange == [task |-> 0, status |-> "none"]
NoCall == [at |-> "idle", task |-> 0]
NoSync == [state |-> "none"]

BackupRow == [state : {"available", "awaiting", "reinstalling", "restoring", "restored",
                       "unavailable"},
              task : 0 .. MaxTasks, change : 0 .. MaxChanges]

SoftwareTypeOK ==
    /\ \A t \in TaskId :
          /\ tasks[t].state \in {"none"} \cup Unconfirmed \cup Waiting \cup InBackend \cup Ended
          /\ tasks[t].retries \in 0 .. RetryLimit
          /\ tasks[t].state \in InBackend <=> tasks[t].change # 0
          /\ tasks[t].change # 0 => changes[tasks[t].change].task = t
    /\ backup \in BackupRow
    /\ sync = NoSync \/ sync \in [row : BackupRow, read : BackupRow]

SoftwareInit ==
    /\ tasks = [t \in TaskId |-> NoTask]
    /\ changes = [c \in ChangeId |-> NoChange]
    /\ \E s \in BOOLEAN : /\ snapshot = s
                          /\ backup = [state |-> IF s THEN "available" ELSE "unavailable",
                                       task |-> 0, change |-> 0]
    /\ call = NoCall
    /\ sync = NoSync
    /\ halted = {}
    /\ torn = FALSE

-----------------------------------------------------------------------------
(* The outcomes of the manager's operations.                               *)

Outcome(row, chs) == [row |-> row, changes |-> chs, sync |-> FALSE]

\* The task is not snapd's any more.
Leaves(row, state) ==
    [IF state \in Ended THEN NoTask ELSE row
        EXCEPT !.state = state, !.phase = "none", !.reason = "none", !.change = 0]

\* _schedule_retry()
Retry(row) ==
    IF row.retries < RetryLimit
    THEN [Leaves(row, "retry_wait") EXCEPT !.retries = @ + 1]
    ELSE Leaves(row, "interrupted")

Offline(row) == Leaves(row, "waiting_for_network")

\* snapd makes a change, if the bound allows.
Made(chs, t) ==
    {[id |-> c, changes |-> [chs EXCEPT ![c] = [task |-> t, status |-> "download"]]] :
        c \in {n \in ChangeId : chs[n] = NoChange /\ \A k \in 1 .. n - 1 : chs[k] # NoChange}}

\* _start(): an error may be retried, when it is an installation.
Starts(t, row, chs) ==
    {Outcome([row EXCEPT !.state = "running", !.phase = "download", !.change = m.id], m.changes) :
        m \in Made(chs, t)}
    \cup {Outcome(next, chs) :
        next \in {Leaves(row, "failed")} \cup IF row.action = "install" THEN {Retry(row)} ELSE {}}

\* abort(): it stops what still runs.
Aborted(chs, c) == IF chs[c].status \in {"download", "work"} THEN [chs EXCEPT ![c].status = "abort"] ELSE chs

\* _request_stop(): what is asked for is saved first; the request may get lost.
Stops(row, chs, reason) ==
    {Outcome(IF reason = "cancel"
             THEN [row EXCEPT !.state = "canceling", !.phase = "none", !.reason = "none", !.retries = 0]
             ELSE [row EXCEPT !.state = "pausing", !.phase = "none", !.reason = reason], after) :
        after \in {chs, Aborted(chs, row.change)}}

\* _parse_progress(): what the worker makes of a change; "abort" is taken for
\* the end of it.
Progress(change) ==
    CASE change.status \in {"download", "work"} -> "running"
      [] change.status \in {"abort", "undone"} -> "interrupted"
      [] change.status = "error" -> "failed"
      [] OTHER -> "completed"

\* _apply_progress()
Applied(row, chs) ==
    LET change == chs[row.change]
        seen == Progress(change)
        lost == row.action = "install" /\ seen \in {"failed", "interrupted"}
    IN  (IF lost THEN {Outcome(Offline(row), chs)} ELSE {}) \cup
        IF lost /\ seen = "interrupted" /\ row.phase = "download"
        THEN {Outcome(Retry(row), chs)}
        ELSE LET next == IF seen = "running"
                         THEN [row EXCEPT !.state = seen, !.phase = change.status]
                         ELSE Leaves(row, seen)
                 moved == {next, [next EXCEPT !.retries = 0]}
                 synced == row.action = "remove" /\ seen = "completed" /\ row.keep
             IN  {[Outcome(r, chs) EXCEPT !.sync = synced] : r \in moved}
                 \cup (IF row.action = "install" /\ seen = "running" /\ next.phase = "download"
                       THEN Stops(next, chs, "retry") ELSE {})

\* Mutant of Paused: the change that was asked to stop is not waited for.
PausedEarly(row, chs) ==
    IF Progress(chs[row.change]) = "completed" THEN Applied(row, chs)
    ELSE {Outcome(CASE row.reason = "user" -> Leaves(row, "paused")
                    [] row.reason = "offline" -> Offline(row)
                    [] OTHER -> Retry(row), chs)}

\* Mutant of Paused: every pause ends with a retry, as if snapd were busy.
PausedForRetry(row, chs) ==
    LET seen == Progress(chs[row.change]) IN
    IF seen = "completed" THEN Applied(row, chs)
    ELSE {Outcome(IF seen = "running" THEN row ELSE Retry(row), chs)}

\* _refresh_pausing()
Paused(row, chs) ==
    LET seen == Progress(chs[row.change]) IN
    IF seen = "completed" THEN Applied(row, chs)
    ELSE {Outcome(CASE seen = "running" -> row
                    [] seen # "running" /\ row.reason = "user" -> Leaves(row, "paused")
                    [] seen # "running" /\ row.reason = "offline" -> Offline(row)
                    [] OTHER -> Retry(row), chs)}

\* _refresh_canceling()
Canceled(row, chs) ==
    LET seen == Progress(chs[row.change]) IN
    IF seen = "completed" THEN Applied(row, chs)
    ELSE {Outcome(IF seen = "running" THEN row ELSE Leaves(row, "canceled"), chs)}

\* _recover_backend_unavailable()
Unavailable(row, chs) ==
    {Outcome([row EXCEPT !.state = IF @ \in {"pausing", "canceling"} THEN @ ELSE "recovering"], chs)}

\* refresh(); while it is stopping, the request to stop is repeated.
Refreshed(row) ==
    IF row.state \notin InBackend THEN {Outcome(row, changes)}
    ELSE (IF row.action = "install" /\ row.state \in {"running", "recovering"} /\ row.phase = "download"
          THEN Stops(row, changes, "offline") ELSE {}) \cup
         UNION {Unavailable(row, chs) \cup
                (CASE row.state = "canceling" -> Canceled(row, chs)
                   [] row.state = "pausing" -> Paused(row, chs)
                   [] OTHER -> Applied(row, chs)) :
            chs \in {changes} \cup IF row.state \in {"pausing", "canceling"}
                                   THEN {Aborted(changes, row.change)} ELSE {}}

MayBeDue(row) ==
    row.action = "install" /\ row.state \in {"waiting_for_network", "retry_wait"}

\* reconcile(), for one task: it may be started again in the same go, if
\* the network is back or the time for a retry has come.
Reconciled(t) ==
    UNION {{o} \cup IF MayBeDue(o.row) THEN Starts(t, o.row, o.changes) ELSE {} : o \in Refreshed(tasks[t])}

\* confirm()
Confirmed(t, row) ==
    IF row.action = "remove"
    THEN {Outcome([row EXCEPT !.state = "awaiting_final_confirmation"], changes)}
    ELSE {Outcome(Offline(row), changes)} \cup Starts(t, row, changes)

-----------------------------------------------------------------------------

\* Only what a row refers to, or still goes on, is of interest.
Forget(chs, rows, kept) ==
    [c \in ChangeId |-> IF \/ chs[c].status \in {"download", "work", "abort"}
                          \/ \E t \in TaskId : rows[t].change = c
                          \/ kept.change = c
                       THEN chs[c] ELSE NoChange]

\* An operation on a task ends with one of its outcomes.
Ends(t, outcomes) ==
    \E o \in outcomes :
        /\ tasks' = [tasks EXCEPT ![t] = o.row]
        /\ changes' = Forget(o.changes, tasks', backup)
        /\ sync' = IF o.sync THEN [row |-> [backup EXCEPT !.state =
                                              IF backup.state \in {"available", "unavailable"}
                                              THEN IF snapshot THEN "available" ELSE "unavailable"
                                              ELSE @],
                                   read |-> backup]
                   ELSE sync

\* The lock is free: it is held while the backups are synchronised.
Unlocked == sync = NoSync

\* The worker's thread takes the user's next request.
Serves == call = NoCall

\* Tasks are numbered as they are made.
IsNew(t) == tasks[t] = NoTask /\ \A k \in 1 .. t - 1 : tasks[k] # NoTask

\* prepare_install(), prepare_remove()
PrepareTask(t, action, keep) ==
    /\ Serves /\ IsNew(t) /\ t <= UserTasks
    /\ tasks' = [tasks EXCEPT ![t] = [NoTask EXCEPT !.action = action, !.keep = keep,
                                                    !.state = "awaiting_confirmation"]]
    /\ UNCHANGED <<changes, backup, snapshot, call, sync, halted, torn>>

\* worker_api._respond(), confirmed
ConfirmTask(t) ==
    /\ Serves /\ Unlocked
    /\ \/ tasks[t].state = "awaiting_confirmation" /\ Ends(t, Confirmed(t, tasks[t]))
       \/ tasks[t].state = "awaiting_final_confirmation" /\ Ends(t, Starts(t, tasks[t], changes))
    /\ UNCHANGED <<backup, snapshot, call, halted, torn>>

PauseTask(t) ==
    LET row == tasks[t] IN
    /\ Serves /\ Unlocked
    /\ row.action = "install"
    /\ \/ /\ row.state \in Waiting \ {"paused"}
          /\ Ends(t, {Outcome(Leaves(row, "paused"), changes)})
       \/ /\ row.state = "pausing" /\ row.reason # "user"
          /\ Ends(t, {Outcome([row EXCEPT !.reason = "user"], changes)})
       \/ /\ row.state \in {"running", "recovering"} /\ row.phase = "download"
          /\ Ends(t, Stops(row, changes, "user"))
    /\ halted' = halted \cup {t}
    /\ UNCHANGED <<backup, snapshot, call, torn>>

ResumeTask(t) ==
    LET row == tasks[t] IN
    /\ Serves /\ Unlocked
    /\ row.action = "install" /\ row.state \in {"paused", "interrupted", "retry_wait"}
    /\ Ends(t, {Outcome(Offline(row), changes)} \cup Starts(t, row, changes))
    /\ halted' = halted \ {t}
    /\ UNCHANGED <<backup, snapshot, call, torn>>

CancelTask(t) ==
    LET row == tasks[t] IN
    /\ Serves /\ Unlocked
    /\ \/ /\ row.state \in Unconfirmed \cup Waiting
          /\ Ends(t, {Outcome(Leaves(row, "canceled"), changes)})
       \/ row.state \in InBackend /\ Ends(t, Stops(row, changes, "cancel"))
    /\ halted' = halted \cup {t}
    /\ UNCHANGED <<backup, snapshot, call, torn>>

\* The recovery thread.
ReconcileTask(t) ==
    /\ Unlocked /\ tasks[t].state \in InBackend \cup Waiting
    /\ Ends(t, Reconciled(t))
    /\ UNCHANGED <<backup, snapshot, call, halted, torn>>

\* BackupManager.sync(), called when a removal is complete, writes what it
\* made of the row it has read.
WriteSync ==
    /\ sync # NoSync
    /\ backup' = sync.row
    /\ torn' = (torn \/ backup # sync.read)
    /\ sync' = NoSync
    /\ UNCHANGED <<tasks, changes, snapshot, call, halted>>

-----------------------------------------------------------------------------
(* worker_api._restore(): the application is installed again, then its     *)
(* data are restored.                                                      *)

\* cancel_restore_preparation(), after an error.
GiveUp ==
    /\ backup' = IF backup.state = "awaiting" THEN [backup EXCEPT !.state = "available"] ELSE backup
    /\ call' = NoCall

PrepareRestore ==
    /\ Serves /\ backup.state = "available"
    /\ backup' = [backup EXCEPT !.state = "awaiting"]
    /\ call' = [NoCall EXCEPT !.at = "prepare"]
    /\ UNCHANGED <<tasks, changes, snapshot, sync, halted, torn>>

RestoreInstall ==
    /\ call.at = "prepare"
    /\ \/ \E t \in TaskId :
             /\ IsNew(t)
             /\ tasks' = [tasks EXCEPT ![t] = [NoTask EXCEPT !.action = "install",
                                                            !.state = "awaiting_confirmation"]]
             /\ call' = [at |-> "confirm", task |-> t]
             /\ UNCHANGED backup
       \/ GiveUp /\ UNCHANGED tasks
    /\ UNCHANGED <<changes, snapshot, sync, halted, torn>>

RestoreConfirm ==
    /\ call.at = "confirm"
    /\ \/ /\ Unlocked
          /\ \E o \in Confirmed(call.task, tasks[call.task]) :
                /\ tasks' = [tasks EXCEPT ![call.task] = o.row]
                /\ changes' = Forget(o.changes, tasks', backup)
          /\ call' = [call EXCEPT !.at = "begin"]
          /\ UNCHANGED backup
       \/ GiveUp /\ UNCHANGED <<tasks, changes>>
    /\ UNCHANGED <<snapshot, sync, halted, torn>>

\* begin_reinstall()
BeginReinstall ==
    /\ call.at = "begin"
    /\ \/ /\ backup.state = "awaiting"
          /\ backup' = [state |-> "reinstalling", task |-> call.task, change |-> 0]
          /\ call' = NoCall
       \/ GiveUp
    /\ UNCHANGED <<tasks, changes, snapshot, sync, halted, torn>>

\* restore_snapshot() and the row that is saved after it; when the process
\* dies in between, the data will be restored again.
RestoreStarts ==
    \/ \E m \in Made(changes, 0) :
          /\ changes' = m.changes
          /\ backup' = [backup EXCEPT !.state = "restoring", !.change = m.id]
    \/ /\ backup' = [backup EXCEPT !.state = "available", !.task = 0]
       /\ UNCHANGED changes

\* continue_reinstall()
ContinueReinstall ==
    /\ Serves /\ backup.state = "reinstalling"
    /\ \/ /\ tasks[backup.task].state \in {"failed", "canceled"}
          /\ backup' = [backup EXCEPT !.state = "available", !.task = 0]
          /\ UNCHANGED changes
       \/ tasks[backup.task].state = "completed" /\ RestoreStarts
    /\ UNCHANGED <<tasks, snapshot, call, sync, halted, torn>>

\* refresh_restore()
RefreshRestore ==
    /\ Serves /\ backup.state = "restoring"
    /\ LET seen == Progress(changes[backup.change]) IN
          /\ seen # "running"
          /\ backup' = [backup EXCEPT !.state = IF seen = "completed" THEN "restored" ELSE "available",
                                      !.change = 0]
    /\ changes' = Forget(changes, tasks, backup')
    /\ UNCHANGED <<tasks, snapshot, call, sync, halted, torn>>

-----------------------------------------------------------------------------
(* snapd and the process itself.                                           *)

ChangeMoves(c) ==
    /\ \E next \in CASE changes[c].status = "download" -> {"work", "done", "error", "undone"}
                     [] changes[c].status = "work" -> {"done", "error", "undone"}
                     [] changes[c].status = "abort" -> {"undone", "error"}
                     [] OTHER -> {} :
          /\ changes' = Forget([changes EXCEPT ![c].status = next], tasks, backup)
          /\ snapshot' = (snapshot \/ (/\ next = "done" /\ changes[c].task # 0
                                       /\ tasks[changes[c].task].keep))
    /\ UNCHANGED <<tasks, backup, call, sync, halted, torn>>

SnapshotForgotten ==
    /\ snapshot /\ snapshot' = FALSE
    /\ UNCHANGED <<tasks, changes, backup, call, sync, halted, torn>>

WorkerDies ==
    /\ call # NoCall \/ sync # NoSync
    /\ call' = NoCall
    /\ sync' = NoSync
    /\ torn' = (torn \/ call # NoCall)
    /\ UNCHANGED <<tasks, changes, backup, snapshot, halted>>

SoftwareNext ==
    \/ \E t \in TaskId :
          \/ \E keep \in BOOLEAN : PrepareTask(t, "remove", keep)
          \/ PrepareTask(t, "install", FALSE)
          \/ ConfirmTask(t) \/ PauseTask(t) \/ ResumeTask(t) \/ CancelTask(t)
          \/ ReconcileTask(t)
    \/ WriteSync
    \/ PrepareRestore \/ RestoreInstall \/ RestoreConfirm \/ BeginReinstall
    \/ ContinueReinstall \/ RefreshRestore
    \/ \E c \in ChangeId : ChangeMoves(c)
    \/ SnapshotForgotten \/ WorkerDies

SoftwareSpec == SoftwareInit /\ [][SoftwareNext]_softwareVars

-----------------------------------------------------------------------------

\* While snapd still works for a task, the task says so: a task that is shown as
\* paused, waiting, canceled or over has nothing running behind it, and it never
\* has two changes.
StoppedMeansStopped ==
    \A c \in ChangeId : Running(c) /\ changes[c].task # 0 =>
        LET row == tasks[changes[c].task] IN row.change = c /\ row.state \in InBackend

\* A restore is always accounted for, unless the process died in the middle of
\* one or a synchronisation wrote over its row: a backup waits for its
\* installation only while it is being started, and data are restored by the
\* change the row names, after the task it names was completed.
RestoreAccounted ==
    \/ torn
    \/ /\ backup.state = "awaiting" => call # NoCall
       /\ \A c \in ChangeId : Running(c) /\ changes[c].task = 0 =>
              /\ backup.state = "restoring" /\ backup.change = c
              /\ tasks[backup.task].state = "completed"

\* Both: nothing runs in snapd that the rows do not account for.
ChangesAccounted == StoppedMeansStopped /\ RestoreAccounted

\* A pause or a cancellation of the user's is never undone by the worker: it
\* asks snapd for nothing more until the user resumes the task.
UserDecides ==
    [][\A c \in ChangeId, t \in TaskId :
          changes[c] = NoChange /\ changes'[c].task = t
              => t \notin halted']_softwareVars

===============================================================================
