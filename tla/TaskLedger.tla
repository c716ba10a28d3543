------------------------------ MODULE TaskLedger ------------------------------
(***************************************************************************)
(* The task ledger as the daemon's threads use it: rows that survive a     *)
(* crash, and the process memory that does not - which thread (or which    *)
(* stored approval session) answers for a task, and what a thread has      *)
(* already read and not yet written back.                                  *)
(***************************************************************************)
EXTENDS LedgerRows

CONSTANTS
    Task,           \* task identifiers (uuid4 run identifiers)
    Totals,         \* the values of total_items create() is called with
    MaxItems,       \* bound: items recorded for one task
    MaxReferences   \* bound: references attached to one task

ASSUME TotalsAssumption == Totals \subseteq Nat \cup {NoTotal}

VARIABLES
    tasks,    \* the table: what the database file holds
    holder,   \* who in the process answers for a task
    decided,  \* what the task's thread has read and is about to write
    daemon    \* how far the process has come in its startup sequence

vars == <<tasks, holder, decided, daemon>>

Holder == {"none", "worker", "session"}

\* The end state a thread is about to write.  complete() reads skipped_count
\* in one connection and writes the state in another; raise_if_cancelled()
\* reads cancel_requested before its caller writes CANCELLED.
Decision == {"none", "CANCELLED", "COMPLETED", "COMPLETED_WITH_SKIPS"}

Phase == {"recovering", "purging", "serving"}

TypeOK ==
    /\ tasks \in [Task -> Row]
    /\ holder \in [Task -> Holder]
    /\ decided \in [Task -> Decision]
    /\ daemon \in Phase

Init ==
    /\ tasks = [t \in Task |-> NoRow]
    /\ holder = [t \in Task |-> "none"]
    /\ decided = [t \in Task |-> "none"]
    /\ daemon = "recovering"

-----------------------------------------------------------------------------
(* The thread that executes task t. *)

\* A worker thread of t is free to call the next ledger method.
Working(t) ==
    /\ daemon = "serving"
    /\ holder[t] = "worker"
    /\ decided[t] = "none"

Write(t, row) == tasks' = [tasks EXCEPT ![t] = row]

\* The call leaves the thread running with nothing decided.
KeepsRunning == UNCHANGED <<holder, decided, daemon>>

\* The task's thread returns: the process holds nothing for it any more.
HandsOver(t, h) ==
    /\ holder' = [holder EXCEPT ![t] = h]
    /\ decided' = [decided EXCEPT ![t] = "none"]
    /\ UNCHANGED daemon

Create(t) ==
    /\ daemon = "serving"
    /\ tasks[t].state = "ABSENT"
    /\ \E total \in Totals, resumable \in BOOLEAN :
           Write(t, InsertedRow(total, resumable))
    /\ HandsOver(t, "worker")

Start(t) ==
    /\ Working(t)
    /\ tasks[t].state = "PLANNED"
    /\ Write(t, Transition(tasks[t], "RUNNING"))
    /\ KeepsRunning

AwaitingApproval(t) ==
    /\ Working(t)
    /\ tasks[t].state = "RUNNING"
    /\ Write(t, Transition(tasks[t], "AWAITING_APPROVAL"))
    /\ HandsOver(t, "session")

RecordItem(t) ==
    /\ Working(t)
    /\ CanRecordItem(tasks[t])
    /\ tasks[t].processed < MaxItems
    /\ tasks[t].references < MaxReferences
    /\ \E outcome \in Outcome : Write(t, WithItem(tasks[t], outcome))
    /\ KeepsRunning

AddReference(t) ==
    /\ Working(t)
    /\ CanAddReference(tasks[t])
    /\ tasks[t].references < MaxReferences
    /\ Write(t, WithReference(tasks[t]))
    /\ KeepsRunning

SaveCheckpoint(t) ==
    /\ Working(t)
    /\ CanSaveCheckpoint(tasks[t])
    /\ Write(t, WithCheckpoint(tasks[t]))
    /\ KeepsRunning

Interrupt(t) ==
    /\ Working(t)
    /\ CanInterrupt(tasks[t])
    /\ Write(t, Transition(tasks[t], "INTERRUPTED"))
    /\ HandsOver(t, "none")

Fail(t) ==
    /\ Working(t)
    /\ CanFail(tasks[t])
    /\ Write(t, Finish(tasks[t], "FAILED"))
    /\ HandsOver(t, "none")

\* complete(), first connection: choose the end state from skipped_count.
ReadOutcome(t) ==
    /\ Working(t)
    /\ tasks[t].state # "ABSENT"
    /\ decided' = [decided EXCEPT ![t] = CompletionTarget(tasks[t])]
    /\ UNCHANGED <<tasks, holder, daemon>>

\* complete(), second connection.  A task that is not RUNNING is refused and
\* the thread goes on to report the error.
Complete(t) ==
    /\ daemon = "serving"
    /\ decided[t] \in {"COMPLETED", "COMPLETED_WITH_SKIPS"}
    /\ \/ /\ tasks[t].state = "RUNNING"
          /\ Write(t, Finish(tasks[t], decided[t]))
          /\ HandsOver(t, "none")
       \/ /\ tasks[t].state # "RUNNING"
          /\ decided' = [decided EXCEPT ![t] = "none"]
          /\ UNCHANGED <<tasks, holder, daemon>>

\* raise_if_cancelled() raises CancellationRequested.
RaiseIfCancelled(t) ==
    /\ Working(t)
    /\ tasks[t].cancel
    /\ decided' = [decided EXCEPT ![t] = "CANCELLED"]
    /\ UNCHANGED <<tasks, holder, daemon>>

Cancelled(t) ==
    /\ daemon = "serving"
    /\ decided[t] = "CANCELLED"
    /\ CanCancel(tasks[t])
    /\ Write(t, Finish(tasks[t], "CANCELLED"))
    /\ HandsOver(t, "none")

-----------------------------------------------------------------------------
(* The user's requests and the approval session of a waiting task. *)

RequestCancel(t) ==
    /\ daemon = "serving"
    /\ CanRequestCancel(tasks[t])
    /\ Write(t, WithCancelRequest(tasks[t]))
    /\ UNCHANGED <<holder, decided, daemon>>

RequestContinue(t) ==
    /\ daemon = "serving"
    /\ CanRequestContinue(tasks[t])
    /\ Write(t, WithContinueRequest(tasks[t]))
    /\ UNCHANGED <<holder, decided, daemon>>

\* A capability owner takes an interrupted task up again.
ClaimContinue(t) ==
    /\ daemon = "serving"
    /\ CanClaimContinue(tasks[t])
    /\ Write(t, Continued(tasks[t]))
    /\ HandsOver(t, "worker")

\* The thread that claimed the session of t goes on with the user's consent.
ApprovalReceived(t) ==
    /\ daemon = "serving"
    /\ holder[t] = "session"
    /\ tasks[t].state = "AWAITING_APPROVAL"
    /\ Write(t, Transition(tasks[t], "RUNNING"))
    /\ HandsOver(t, "worker")

\* The user declines (cancelled()), or the session expires or is evicted
\* (fail()): in both cases the session is gone and the task has ended.
ApprovalEnds(t) ==
    /\ daemon = "serving"
    /\ holder[t] = "session"
    /\ \E end \in {"CANCELLED", "FAILED"} :
           /\ end = "CANCELLED" => CanCancel(tasks[t])
           /\ end = "FAILED" => CanFail(tasks[t])
           /\ Write(t, Finish(tasks[t], end))
    /\ HandsOver(t, "none")

-----------------------------------------------------------------------------
(* The process: startup recovery, retention, crashes. *)

\* Mutant of RecoverAfterRestart: waiting tasks are not recovered.
RecoverOnlyRunning ==
    /\ daemon = "recovering"
    /\ tasks' = [t \in Task |-> IF tasks[t].state = "RUNNING"
                                THEN RecoveredRow(tasks[t]) ELSE tasks[t]]
    /\ daemon' = "purging"
    /\ UNCHANGED <<holder, decided>>

RecoverAfterRestart ==
    /\ daemon = "recovering"
    /\ tasks' = [t \in Task |-> IF tasks[t].state \in Active
                                THEN RecoveredRow(tasks[t]) ELSE tasks[t]]
    /\ daemon' = "purging"
    /\ UNCHANGED <<holder, decided>>

\* Which terminal rows are older than the retention period is left open.
PurgeExpired ==
    /\ daemon = "purging"
    /\ \E old \in SUBSET {t \in Task : tasks[t].state \in Terminal} :
           tasks' = [t \in Task |-> IF t \in old THEN NoRow ELSE tasks[t]]
    /\ daemon' = "serving"
    /\ UNCHANGED <<holder, decided>>

\* The process dies and is started again; only the database file survives.
Crash ==
    /\ holder' = [t \in Task |-> "none"]
    /\ decided' = [t \in Task |-> "none"]
    /\ daemon' = "recovering"
    /\ UNCHANGED tasks

WorkerStep(t) ==
    \/ Create(t) \/ Start(t) \/ AwaitingApproval(t)
    \/ RecordItem(t) \/ AddReference(t) \/ SaveCheckpoint(t)
    \/ Interrupt(t) \/ Fail(t)
    \/ ReadOutcome(t) \/ Complete(t)
    \/ RaiseIfCancelled(t) \/ Cancelled(t)

RequestStep(t) ==
    \/ RequestCancel(t) \/ RequestContinue(t) \/ ClaimContinue(t)
    \/ ApprovalReceived(t) \/ ApprovalEnds(t)

Next ==
    \/ \E t \in Task : WorkerStep(t) \/ RequestStep(t)
    \/ RecoverAfterRestart \/ PurgeExpired \/ Crash

Spec == Init /\ [][Next]_vars

-----------------------------------------------------------------------------
(* Safety. *)

\* What the user is told about skipped items is true, over interruptions and
\* continuations: a task is COMPLETED exactly when it skipped nothing.  complete()
\* reads skipped_count in one transaction and writes the state in another, and
\* one thread works on a task.  The counters behind that agree with each other,
\* never exceed the announced total, and every counted item has a reference the
\* user can open.
OutcomeHonest ==
    \A t \in Task :
        /\ tasks[t].state = "COMPLETED" => tasks[t].skipped = 0
        /\ tasks[t].state = "COMPLETED_WITH_SKIPS" => tasks[t].skipped > 0
        /\ tasks[t].processed = tasks[t].succeeded + tasks[t].skipped
        /\ tasks[t].processed <= tasks[t].references
        /\ tasks[t].total # NoTotal => tasks[t].processed <= tasks[t].total

\* Along every interleaving of work, restarts and user requests a task is
\* INTERRUPTED only with a safe checkpoint to resume from, a checkpoint
\* belongs to a resumable task, and a finished task keeps none.  A continue
\* request exists only while there is an interrupted task to continue: no ended
\* or running task is continued by an old request (_finish does not clear the
\* column, so this is a matter of history).
CheckpointDiscipline ==
    \A t \in Task :
        /\ tasks[t].state = "INTERRUPTED" => tasks[t].checkpoint
        /\ tasks[t].checkpoint => tasks[t].resumable
        /\ tasks[t].state \in Terminal => ~tasks[t].checkpoint
        /\ tasks[t].continue => tasks[t].state = "INTERRUPTED"

\* Once the daemon serves requests, every running task has a thread and every
\* waiting task has a session: recovery left nothing behind that only looks
\* alive.
LiveWorkHasHolder ==
    daemon = "serving" =>
        \A t \in Task :
            /\ tasks[t].state = "RUNNING" => holder[t] = "worker"
            /\ tasks[t].state = "AWAITING_APPROVAL" => holder[t] = "session"

\* The claim of recover_after_restart's docstring, for all abandoned work: a
\* task the new process has no thread or session for is not left unfinished,
\* unless it can be continued.
AbandonedWorkSettled ==
    daemon = "serving" =>
        \A t \in Task :
            holder[t] = "none" =>
                tasks[t].state \in Terminal \cup {"ABSENT", "INTERRUPTED"}

-----------------------------------------------------------------------------
(* Action properties. *)

\* A finished task never changes again, whatever the user asks and however
\* often the daemon restarts; it can only be removed as a whole by retention.
TerminalIsFinal ==
    [][\A t \in Task :
           tasks[t].state \in Terminal =>
               tasks'[t] = tasks[t] \/ tasks'[t].state = "ABSENT"]_vars

\* A cancel request the ledger accepted is not silently dropped: it goes away
\* only when the task ends, when the daemon restarts, or when the user has
\* asked for the interrupted task to be continued.
CancelNotForgotten ==
    [][\A t \in Task :
           tasks[t].cancel /\ ~tasks'[t].cancel =>
               \/ tasks'[t].state \in Terminal
               \/ daemon = "recovering"
               \/ tasks[t].continue]_vars

=============================================================================
