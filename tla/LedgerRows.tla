------------------------------ MODULE LedgerRows ------------------------------
(***************************************************************************)
(* The rows of the task ledger's SQLite table `tasks` and what each method *)
(* of TaskLedger (ledger.py) does to one row.  Every method runs in one    *)
(* BEGIN IMMEDIATE transaction, so a method is an enabling condition on    *)
(* the row (the InvalidTransitionError it would raise otherwise) and a new *)
(* row.  Timestamps, activity names and the text of locators are left out. *)
(* The rows of task_references are counted, not described.                 *)
(***************************************************************************)
EXTENDS Integers

\* total_items is NULL: the number of items is not known in advance.
NoTotal == -1

Active == {"RUNNING", "AWAITING_APPROVAL"}

Terminal == {"COMPLETED", "COMPLETED_WITH_SKIPS", "FAILED", "CANCELLED"}

\* "ABSENT" stands for an identifier the table holds no row for.
State == {"ABSENT", "PLANNED", "INTERRUPTED"} \cup Active \cup Terminal

Row == [ state      : State,
         total      : Nat \cup {NoTotal},
         succeeded  : Nat,       \* succeeded_count
         skipped    : Nat,       \* skipped_count
         processed  : Nat,       \* processed_count
         references : Nat,       \* rows of task_references
         resumable  : BOOLEAN,
         checkpoint : BOOLEAN,   \* checkpoint_json IS NOT NULL
         cancel     : BOOLEAN,   \* cancel_requested
         continue   : BOOLEAN ]  \* continue_requested

Outcome == {"SUCCEEDED", "SKIPPED"}

-----------------------------------------------------------------------------

InsertedRow(total, resumable) ==
    [ state |-> "PLANNED", total |-> total, succeeded |-> 0, skipped |-> 0,
      processed |-> 0, references |-> 0, resumable |-> resumable,
      checkpoint |-> FALSE, cancel |-> FALSE, continue |-> FALSE ]

NoRow == [InsertedRow(NoTotal, FALSE) EXCEPT !.state = "ABSENT"]

\* Mutant of Transition: every transition also forgets a cancel request.
TransitionDropsCancel(row, target) ==
    [row EXCEPT !.state = target, !.cancel = FALSE]

\* _transition: the state changes, every other column is kept.
Transition(row, target) == [row EXCEPT !.state = target]

\* _finish: the control columns are released, the counters are kept, and so
\* is continue_requested.
Finish(row, target) ==
    [row EXCEPT !.state = target, !.cancel = FALSE, !.checkpoint = FALSE]

CanRecordItem(row) ==
    /\ row.state = "RUNNING"
    /\ row.total # NoTotal => row.processed < row.total

WithItem(row, outcome) ==
    [row EXCEPT !.processed  = @ + 1,
                !.succeeded  = IF outcome = "SUCCEEDED" THEN @ + 1 ELSE @,
                !.skipped    = IF outcome = "SKIPPED" THEN @ + 1 ELSE @,
                !.references = @ + 1]

CanAddReference(row) == row.state \in Active

WithReference(row) == [row EXCEPT !.references = @ + 1]

CanSaveCheckpoint(row) == row.resumable /\ row.state = "RUNNING"

WithCheckpoint(row) == [row EXCEPT !.checkpoint = TRUE]

\* Mutant of CanInterrupt: no checkpoint is asked for.
CanInterruptUnsafely(row) == row.state = "RUNNING" /\ row.resumable

CanInterrupt(row) == row.state = "RUNNING" /\ row.resumable /\ row.checkpoint

CanRequestContinue(row) == row.state = "INTERRUPTED"

WithContinueRequest(row) == [row EXCEPT !.continue = TRUE]

CanClaimContinue(row) ==
    row.state = "INTERRUPTED" /\ row.continue /\ row.checkpoint

\* Mutant of Continued: what was skipped before the interruption is forgotten.
ContinuedAfresh(row) ==
    [row EXCEPT !.state = "RUNNING", !.cancel = FALSE, !.continue = FALSE, !.skipped = 0]

Continued(row) ==
    [row EXCEPT !.state = "RUNNING", !.cancel = FALSE, !.continue = FALSE]

\* Mutant of CanRequestCancel: any existing task can be asked to stop.
CanRequestCancelAlways(row) == row.state # "ABSENT"

CanRequestCancel(row) == row.state = "RUNNING"

WithCancelRequest(row) == [row EXCEPT !.cancel = TRUE]

CanFail(row) == row.state \in {"PLANNED"} \cup Active

CanCancel(row) == row.state \in Active

CompletionTarget(row) ==
    IF row.skipped > 0 THEN "COMPLETED_WITH_SKIPS" ELSE "COMPLETED"

\* recover_after_restart, for one selected row.
RecoveredRow(row) ==
    [row EXCEPT !.state    = IF row.resumable /\ row.checkpoint
                             THEN "INTERRUPTED" ELSE "FAILED",
                !.cancel   = FALSE,
                !.continue = FALSE]

=============================================================================
