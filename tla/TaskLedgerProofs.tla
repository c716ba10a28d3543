--------------------------- MODULE TaskLedgerProofs ---------------------------
(***************************************************************************)
(* The safety of TaskLedger for any set of tasks, any totals and no bound  *)
(* on the number of items.  The inductive invariant has two halves: what   *)
(* one row satisfies by itself (RowInv), which every ledger method         *)
(* preserves, and how the rows relate to the memory of the process.        *)
(***************************************************************************)
EXTENDS TaskLedger, TLAPS

\* What every row satisfies, whoever works on it.
RowInv(row) ==
    /\ row.processed = row.succeeded + row.skipped
    /\ row.processed <= row.references
    /\ row.total # NoTotal => row.processed <= row.total
    /\ row.state = "COMPLETED" => row.skipped = 0
    /\ row.state = "COMPLETED_WITH_SKIPS" => row.skipped > 0
    /\ row.state = "INTERRUPTED" => row.checkpoint
    /\ row.checkpoint => row.resumable
    /\ row.continue => row.state = "INTERRUPTED"
    /\ row.state \in Terminal \cup {"ABSENT"} => ~row.checkpoint /\ ~row.cancel

\* What a thread has read and not yet written is still true of the row.
DecisionFresh ==
    \A t \in Task :
        /\ decided[t] # "none" => daemon = "serving"
        /\ decided[t] = "COMPLETED" => tasks[t].skipped = 0
        /\ decided[t] = "COMPLETED_WITH_SKIPS" => tasks[t].skipped > 0

\* Retention runs after recovery: no task is active any more.
RecoveryDone ==
    daemon = "purging" => \A t \in Task : tasks[t].state \notin Active

\* The inductive invariant.
IInv ==
    /\ TypeOK
    /\ \A t \in Task : RowInv(tasks[t])
    /\ DecisionFresh
    /\ RecoveryDone
    /\ LiveWorkHasHolder

-----------------------------------------------------------------------------
(* The ledger methods on one row. *)

\* A well-formed row that satisfies the row invariant.
GoodRow(row) == row \in Row /\ RowInv(row)

\* create() inserts a good row.
LEMMA InsertedRowGood ==
    ASSUME NEW total \in Nat \cup {NoTotal}, NEW resumable \in BOOLEAN
    PROVE  /\ GoodRow(InsertedRow(total, resumable))
           /\ InsertedRow(total, resumable).state = "PLANNED"
           /\ InsertedRow(total, resumable).skipped = 0
BY DEF GoodRow, Row, RowInv, InsertedRow, State, Active, Terminal, NoTotal

\* The row that stands for "no row" is good.
LEMMA NoRowGood == GoodRow(NoRow) /\ NoRow.state = "ABSENT" /\ ~NoRow.cancel
<1> DEFINE fresh == InsertedRow(NoTotal, FALSE)
<1>1. fresh \in Row
  BY DEF Row, InsertedRow, State
<1>2. /\ fresh.processed = 0 /\ fresh.succeeded = 0 /\ fresh.skipped = 0
      /\ fresh.references = 0 /\ fresh.total = NoTotal
      /\ fresh.checkpoint = FALSE /\ fresh.cancel = FALSE /\ fresh.continue = FALSE
  BY DEF InsertedRow
<1>3. NoRow = [fresh EXCEPT !.state = "ABSENT"]
  BY DEF NoRow
<1> HIDE DEF fresh
<1> QED
  BY <1>1, <1>2, <1>3 DEF GoodRow, Row, RowInv, State, Active, Terminal, NoTotal

\* _transition keeps a row good on its way into an active state.
LEMMA TransitionGood ==
    ASSUME NEW row, GoodRow(row), row.state \in {"PLANNED"} \cup Active,
           NEW target \in Active
    PROVE  /\ GoodRow(Transition(row, target))
           /\ Transition(row, target).state = target
           /\ Transition(row, target).skipped = row.skipped
BY DEF GoodRow, Row, RowInv, Transition, State, Active, Terminal

\* interrupt() keeps a row good: its guard asks for the checkpoint.
LEMMA InterruptGood ==
    ASSUME NEW row, GoodRow(row), CanInterrupt(row)
    PROVE  /\ GoodRow(Transition(row, "INTERRUPTED"))
           /\ Transition(row, "INTERRUPTED").state = "INTERRUPTED"
BY DEF GoodRow, Row, RowInv, Transition, CanInterrupt, State, Active, Terminal

\* _finish keeps a row good, whichever end fits its skipped items.
LEMMA FinishGood ==
    ASSUME NEW row, GoodRow(row), row.state \in {"PLANNED"} \cup Active,
           NEW target \in Terminal,
           target = "COMPLETED" => row.skipped = 0,
           target = "COMPLETED_WITH_SKIPS" => row.skipped > 0
    PROVE  GoodRow(Finish(row, target)) /\ Finish(row, target).state = target
BY DEF GoodRow, Row, RowInv, Finish, State, Active, Terminal

\* record_item() keeps the counters of a row in agreement.
LEMMA WithItemGood ==
    ASSUME NEW row, GoodRow(row), CanRecordItem(row), NEW outcome \in Outcome
    PROVE  GoodRow(WithItem(row, outcome)) /\ WithItem(row, outcome).state = "RUNNING"
<1> DEFINE new == WithItem(row, outcome)
<1>1. new \in Row
  <2>1. /\ row \in Row
        /\ row.processed + 1 \in Nat /\ row.references + 1 \in Nat
        /\ (IF outcome = "SUCCEEDED" THEN row.succeeded + 1 ELSE row.succeeded) \in Nat
        /\ (IF outcome = "SKIPPED" THEN row.skipped + 1 ELSE row.skipped) \in Nat
    BY DEF GoodRow, Row
  <2> QED
    BY <2>1 DEF Row, WithItem
<1>2. /\ new.processed = row.processed + 1
      /\ new.references = row.references + 1
      /\ new.succeeded + new.skipped = row.succeeded + row.skipped + 1
      /\ new.total = row.total
      /\ new.state = "RUNNING"
  BY DEF GoodRow, Row, WithItem, CanRecordItem, Outcome
<1>3. /\ new.checkpoint = row.checkpoint
      /\ new.resumable = row.resumable
      /\ new.continue = row.continue
  BY DEF GoodRow, Row, WithItem
<1>4. row.total # NoTotal => row.processed + 1 <= row.total
  BY DEF GoodRow, Row, CanRecordItem, NoTotal
<1> HIDE DEF new
<1>5. row.state = "RUNNING" /\ row \in Row /\ RowInv(row)
  BY DEF CanRecordItem, GoodRow
<1>6. new.processed <= new.references
  BY <1>2, <1>5 DEF RowInv, Row
<1>7. new.total # NoTotal => new.processed <= new.total
  BY <1>2, <1>4
<1>8. GoodRow(new) /\ new.state = "RUNNING"
  BY <1>1, <1>2, <1>3, <1>5, <1>6, <1>7 DEF GoodRow, RowInv, Terminal
<1> QED
  BY <1>8 DEF new

\* add_reference() keeps a row good.
LEMMA WithReferenceGood ==
    ASSUME NEW row, GoodRow(row)
    PROVE  /\ GoodRow(WithReference(row))
           /\ WithReference(row).state = row.state
           /\ WithReference(row).skipped = row.skipped
BY DEF GoodRow, Row, RowInv, WithReference, State

\* save_checkpoint() keeps a row good: only a resumable task has one.
LEMMA WithCheckpointGood ==
    ASSUME NEW row, GoodRow(row), CanSaveCheckpoint(row)
    PROVE  /\ GoodRow(WithCheckpoint(row))
           /\ WithCheckpoint(row).state = row.state
           /\ WithCheckpoint(row).skipped = row.skipped
BY DEF GoodRow, Row, RowInv, WithCheckpoint, CanSaveCheckpoint, State, Active, Terminal

\* Requests to cancel or to continue, and the continuation, keep a row good.
LEMMA RequestsGood ==
    ASSUME NEW row, GoodRow(row)
    PROVE  /\ CanRequestCancel(row) =>
                  /\ GoodRow(WithCancelRequest(row))
                  /\ WithCancelRequest(row).state = row.state
                  /\ WithCancelRequest(row).skipped = row.skipped
           /\ CanRequestContinue(row) =>
                  /\ GoodRow(WithContinueRequest(row))
                  /\ WithContinueRequest(row).state = row.state
                  /\ WithContinueRequest(row).skipped = row.skipped
           /\ CanClaimContinue(row) =>
                  GoodRow(Continued(row)) /\ Continued(row).state = "RUNNING"
BY DEF GoodRow, Row, RowInv, WithCancelRequest, CanRequestCancel,
       WithContinueRequest, CanRequestContinue, Continued, CanClaimContinue,
       State, Active, Terminal

\* recover_after_restart() leaves a good row that is no longer active.
LEMMA RecoveredRowGood ==
    ASSUME NEW row, GoodRow(row), row.state \in Active
    PROVE  GoodRow(RecoveredRow(row)) /\ RecoveredRow(row).state \notin Active
BY DEF GoodRow, Row, RowInv, RecoveredRow, State, Active, Terminal

-----------------------------------------------------------------------------
(* The process. *)

\* The invariant holds of an empty table.
LEMMA InitInductive == Init => IInv
BY NoRowGood DEF Init, IInv, TypeOK, DecisionFresh, RecoveryDone, GoodRow,
                 LiveWorkHasHolder, Holder, Decision, Phase

\* A call that writes one good row and leaves the other rows, and what the
\* process knows of the other tasks, alone.
LEMMA OneRowWritten ==
    ASSUME IInv, NEW t \in Task, NEW row, GoodRow(row), Write(t, row),
           daemon = "serving", UNCHANGED daemon,
           NEW h \in Holder, NEW d \in Decision,
           holder' = [holder EXCEPT ![t] = h],
           decided' = [decided EXCEPT ![t] = d],
           d = "COMPLETED" => row.skipped = 0,
           d = "COMPLETED_WITH_SKIPS" => row.skipped > 0,
           row.state = "RUNNING" => h = "worker",
           row.state = "AWAITING_APPROVAL" => h = "session"
    PROVE  IInv'
<1>1. TypeOK'
  BY DEF IInv, TypeOK, Write, GoodRow
<1>2. \A u \in Task : RowInv(tasks'[u])
  BY DEF IInv, TypeOK, Write, GoodRow
<1>3. DecisionFresh'
  BY DEF IInv, TypeOK, Write, DecisionFresh
<1>4. RecoveryDone'
  BY DEF RecoveryDone
<1>5. LiveWorkHasHolder'
  BY DEF IInv, TypeOK, Write, LiveWorkHasHolder
<1> QED
  BY <1>1, <1>2, <1>3, <1>4, <1>5 DEF IInv

\* A call that writes no row: only what the thread of t has read changes.
LEMMA NoRowWritten ==
    ASSUME IInv, NEW t \in Task, daemon = "serving",
           NEW d \in Decision,
           decided' = [decided EXCEPT ![t] = d],
           d = "COMPLETED" => tasks[t].skipped = 0,
           d = "COMPLETED_WITH_SKIPS" => tasks[t].skipped > 0,
           UNCHANGED <<tasks, holder, daemon>>
    PROVE  IInv'
BY DEF IInv, TypeOK, DecisionFresh, RecoveryDone, LiveWorkHasHolder

\* The skipped counter of a row is a number.
LEMMA SkippedIsNat == ASSUME NEW row \in Row PROVE row.skipped \in Nat
BY DEF Row

\* No call of a task's own thread breaks the invariant.
LEMMA WorkerStepInductive ==
    ASSUME IInv, NEW t \in Task, WorkerStep(t)
    PROVE  IInv'
<1> USE DEF Holder, Decision
<1>1. GoodRow(tasks[t]) /\ holder[t] \in Holder /\ decided[t] \in Decision
  BY DEF IInv, TypeOK, GoodRow
<1>2. /\ holder \in [Task -> Holder]
      /\ decided \in [Task -> Decision]
  BY DEF IInv, TypeOK
\* What KeepsRunning leaves alone, in the form the lemmas speak of.
<1>3. UNCHANGED holder => holder' = [holder EXCEPT ![t] = holder[t]]
  BY <1>2
<1>4. UNCHANGED decided => decided' = [decided EXCEPT ![t] = decided[t]]
  BY <1>2
<1>5. CASE Create(t)
  <2>1. PICK total \in Totals, resumable \in BOOLEAN :
            Write(t, InsertedRow(total, resumable))
    BY <1>5 DEF Create
  <2>2. total \in Nat \cup {NoTotal}
    BY TotalsAssumption
  <2> QED
    BY <1>5, <2>1, <2>2, InsertedRowGood, OneRowWritten DEF Create, HandsOver
<1>6. CASE Start(t)
  BY <1>1, <1>3, <1>4, <1>6, TransitionGood, OneRowWritten
  DEF Start, Working, KeepsRunning, Active
<1>7. CASE AwaitingApproval(t)
  BY <1>1, <1>7, TransitionGood, OneRowWritten
  DEF AwaitingApproval, Working, HandsOver, Active
<1>8. CASE RecordItem(t)
  BY <1>1, <1>3, <1>4, <1>8, WithItemGood, OneRowWritten
  DEF RecordItem, Working, KeepsRunning
<1>9. CASE AddReference(t)
  <2>1. tasks[t].state = "RUNNING" => holder[t] = "worker"
    BY <1>9 DEF AddReference, Working
  <2>2. tasks[t].state # "AWAITING_APPROVAL"
    BY <1>9 DEF AddReference, Working, IInv, LiveWorkHasHolder
  <2> QED
    BY <1>1, <1>3, <1>4, <1>9, <2>1, <2>2, WithReferenceGood, OneRowWritten
    DEF AddReference, Working, KeepsRunning
<1>10. CASE SaveCheckpoint(t)
  BY <1>1, <1>3, <1>4, <1>10, WithCheckpointGood, OneRowWritten
  DEF SaveCheckpoint, CanSaveCheckpoint, Working, KeepsRunning
<1>11. CASE Interrupt(t)
  BY <1>1, <1>11, InterruptGood, OneRowWritten DEF Interrupt, Working, HandsOver
<1>12. CASE Fail(t)
  BY <1>1, <1>12, FinishGood, OneRowWritten
  DEF Fail, CanFail, Working, HandsOver, Terminal
<1>13. CASE ReadOutcome(t)
  <2>1. tasks[t].skipped \in Nat
    BY <1>1, SkippedIsNat DEF GoodRow
  <2> DEFINE d == CompletionTarget(tasks[t])
  <2>2. /\ d \in Decision
        /\ d = "COMPLETED" => tasks[t].skipped = 0
        /\ d = "COMPLETED_WITH_SKIPS" => tasks[t].skipped > 0
    BY <2>1 DEF CompletionTarget
  <2>3. /\ daemon = "serving"
        /\ decided' = [decided EXCEPT ![t] = d]
        /\ UNCHANGED <<tasks, holder, daemon>>
    BY <1>13 DEF ReadOutcome, Working
  <2> HIDE DEF d
  <2> QED
    BY <2>2, <2>3, NoRowWritten
<1>14. CASE Complete(t)
  <2>1. CASE tasks[t].state = "RUNNING"
    <3>1. /\ decided[t] = "COMPLETED" => tasks[t].skipped = 0
          /\ decided[t] = "COMPLETED_WITH_SKIPS" => tasks[t].skipped > 0
      BY DEF IInv, DecisionFresh
    <3> QED
      BY <1>1, <1>14, <2>1, <3>1, FinishGood, OneRowWritten
      DEF Complete, HandsOver, Terminal, Active
  <2>2. CASE tasks[t].state # "RUNNING"
    BY <1>14, <2>2, NoRowWritten DEF Complete
  <2> QED
    BY <2>1, <2>2
<1>15. CASE RaiseIfCancelled(t)
  BY <1>15, NoRowWritten DEF RaiseIfCancelled, Working
<1>16. CASE Cancelled(t)
  BY <1>1, <1>16, FinishGood, OneRowWritten
  DEF Cancelled, CanCancel, HandsOver, Terminal
<1> QED
  BY <1>5, <1>6, <1>7, <1>8, <1>9, <1>10, <1>11, <1>12, <1>13, <1>14, <1>15, <1>16
  DEF WorkerStep

\* No request of the user, and nothing an approval session does, breaks it.
LEMMA RequestStepInductive ==
    ASSUME IInv, NEW t \in Task, RequestStep(t)
    PROVE  IInv'
<1> USE DEF Holder, Decision
<1>1. GoodRow(tasks[t]) /\ holder[t] \in Holder /\ decided[t] \in Decision
  BY DEF IInv, TypeOK, GoodRow
<1>2. /\ holder \in [Task -> Holder]
      /\ decided \in [Task -> Decision]
  BY DEF IInv, TypeOK
<1>3. UNCHANGED holder => holder' = [holder EXCEPT ![t] = holder[t]]
  BY <1>2
<1>4. UNCHANGED decided => decided' = [decided EXCEPT ![t] = decided[t]]
  BY <1>2
<1>5. /\ decided[t] = "COMPLETED" => tasks[t].skipped = 0
      /\ decided[t] = "COMPLETED_WITH_SKIPS" => tasks[t].skipped > 0
  BY DEF IInv, DecisionFresh
<1>6. daemon = "serving" =>
          /\ tasks[t].state = "RUNNING" => holder[t] = "worker"
          /\ tasks[t].state = "AWAITING_APPROVAL" => holder[t] = "session"
  BY DEF IInv, LiveWorkHasHolder
<1>7. CASE RequestCancel(t)
  BY <1>1, <1>3, <1>4, <1>5, <1>6, <1>7, RequestsGood, OneRowWritten DEF RequestCancel
<1>8. CASE RequestContinue(t)
  BY <1>1, <1>3, <1>4, <1>5, <1>6, <1>8, RequestsGood, OneRowWritten DEF RequestContinue
<1>9. CASE ClaimContinue(t)
  BY <1>1, <1>9, RequestsGood, OneRowWritten DEF ClaimContinue, HandsOver
<1>10. CASE ApprovalReceived(t)
  BY <1>1, <1>10, TransitionGood, OneRowWritten DEF ApprovalReceived, HandsOver, Active
<1>11. CASE ApprovalEnds(t)
  <2>1. PICK end \in {"CANCELLED", "FAILED"} :
            /\ end = "CANCELLED" => CanCancel(tasks[t])
            /\ end = "FAILED" => CanFail(tasks[t])
            /\ Write(t, Finish(tasks[t], end))
    BY <1>11 DEF ApprovalEnds
  <2>2. tasks[t].state \in {"PLANNED"} \cup Active
    BY <2>1 DEF CanCancel, CanFail
  <2> QED
    BY <1>1, <1>11, <2>1, <2>2, FinishGood, OneRowWritten
    DEF ApprovalEnds, HandsOver, Terminal
<1> QED
  BY <1>7, <1>8, <1>9, <1>10, <1>11 DEF RequestStep

\* Neither recovery nor retention nor a crash breaks it.
LEMMA StartupInductive ==
    ASSUME IInv, RecoverAfterRestart \/ PurgeExpired \/ Crash
    PROVE  IInv'
<1>1. \A t \in Task : GoodRow(tasks[t])
  BY DEF IInv, TypeOK, GoodRow
<1>2. CASE RecoverAfterRestart
  <2>1. \A t \in Task : GoodRow(tasks'[t]) /\ tasks'[t].state \notin Active
    BY <1>1, <1>2, RecoveredRowGood DEF RecoverAfterRestart
  <2>2. decided' = decided /\ \A t \in Task : decided[t] = "none"
    BY <1>2 DEF RecoverAfterRestart, IInv, DecisionFresh, TypeOK, Decision
  <2>3. tasks' \in [Task -> Row] /\ daemon' \in Phase
    BY <1>2, <2>1 DEF RecoverAfterRestart, GoodRow, Phase
  <2> QED
    BY <1>2, <2>1, <2>2, <2>3
    DEF RecoverAfterRestart, GoodRow, IInv, TypeOK, DecisionFresh, RecoveryDone,
        LiveWorkHasHolder
<1>3. CASE PurgeExpired
  <2>1. \A t \in Task : GoodRow(tasks'[t]) /\ tasks'[t].state \notin Active
    BY <1>1, <1>3, NoRowGood DEF PurgeExpired, IInv, RecoveryDone, Active
  <2>2. decided' = decided /\ \A t \in Task : decided[t] = "none"
    BY <1>3 DEF PurgeExpired, IInv, DecisionFresh, TypeOK, Decision
  <2>3. tasks' \in [Task -> Row] /\ daemon' \in Phase
    BY <1>3, <2>1 DEF PurgeExpired, GoodRow, Phase
  <2> QED
    BY <1>3, <2>1, <2>2, <2>3
    DEF PurgeExpired, GoodRow, IInv, TypeOK, DecisionFresh, RecoveryDone,
        LiveWorkHasHolder, Active
<1>4. CASE Crash
  BY <1>4 DEF Crash, IInv, TypeOK, DecisionFresh, RecoveryDone, LiveWorkHasHolder,
              Holder, Decision, Phase
<1> QED
  BY <1>2, <1>3, <1>4

\* The invariant is inductive.
LEMMA NextInductive == IInv /\ [Next]_vars => IInv'
<1> SUFFICES ASSUME IInv, [Next]_vars PROVE IInv'
  OBVIOUS
<1>1. CASE \E t \in Task : WorkerStep(t) \/ RequestStep(t)
  BY <1>1, WorkerStepInductive, RequestStepInductive
<1>2. CASE RecoverAfterRestart \/ PurgeExpired \/ Crash
  BY <1>2, StartupInductive
<1>3. CASE UNCHANGED vars
  BY <1>3 DEF vars, IInv, TypeOK, DecisionFresh, RecoveryDone, LiveWorkHasHolder
<1> QED
  BY <1>1, <1>2, <1>3 DEF Next

\* Every reachable state of the ledger satisfies the inductive invariant.
THEOREM InductiveInvariant == Spec => []IInv
BY InitInductive, NextInductive, PTL DEF Spec

\* TypeOK for every set of tasks: no sequence of calls, requests and restarts
\* makes the ledger hold a malformed row.
THEOREM TypeCorrect == Spec => []TypeOK
BY InductiveInvariant, PTL DEF IInv

\* COMPLETED never hides a skipped item, although complete() reads the
\* counter and writes the state in two transactions; and the counters of a task
\* agree and stay within its total, for any number of recorded items.
THEOREM OutcomeIsHonest == Spec => []OutcomeHonest
<1>1. IInv => OutcomeHonest
  BY DEF IInv, RowInv, OutcomeHonest
<1> QED
  BY <1>1, InductiveInvariant, PTL

\* A task is interrupted only with a checkpoint to resume from, no ended task
\* keeps one, and none but an interrupted task carries a request to continue.
THEOREM CheckpointsAreDisciplined == Spec => []CheckpointDiscipline
<1>1. IInv => CheckpointDiscipline
  BY DEF IInv, RowInv, CheckpointDiscipline
<1> QED
  BY <1>1, InductiveInvariant, PTL

\* After recovery every running task has a thread and every waiting task has
\* an approval session.
THEOREM LiveWorkIsHeld == Spec => []LiveWorkHasHolder
<1>1. IInv => LiveWorkHasHolder
  BY DEF IInv
<1> QED
  BY <1>1, InductiveInvariant, PTL

-----------------------------------------------------------------------------
(* Action properties: one fact about the row each kind of step writes. *)

\* Every step of the threads and of the users writes at most the row of one
\* task, and only if that task has not ended; it takes a cancel request away
\* only by ending the task or by continuing it on request.
RowStep(t) ==
    /\ \A u \in Task \ {t} : tasks'[u] = tasks[u]
    /\ tasks[t].state \in Terminal => tasks'[t] = tasks[t]
    /\ tasks[t].cancel /\ ~tasks'[t].cancel =>
           tasks'[t].state \in Terminal \/ tasks[t].continue

\* A call that writes one row changes the table by one row step.
LEMMA RowStepWritten ==
    ASSUME IInv, NEW t \in Task, NEW row, Write(t, row),
           tasks[t].state \notin Terminal,
           tasks[t].cancel /\ ~row.cancel => row.state \in Terminal \/ tasks[t].continue
    PROVE  RowStep(t)
BY DEF IInv, TypeOK, Write, RowStep

\* Every call of a task's own thread changes the rows by row steps.
LEMMA WorkerStepIsRowStep ==
    ASSUME IInv, NEW t \in Task, WorkerStep(t)
    PROVE  RowStep(t)
<1>1. tasks[t] \in Row /\ RowInv(tasks[t])
  BY DEF IInv, TypeOK
<1>2. CASE UNCHANGED tasks
  BY <1>2 DEF RowStep
<1>3. CASE Create(t)
  <2>1. tasks[t].state \notin Terminal /\ ~tasks[t].cancel
    BY <1>1, <1>3 DEF Create, RowInv, Terminal
  <2> QED
    BY <1>3, <2>1, RowStepWritten DEF Create
<1>4. CASE Start(t) \/ AwaitingApproval(t) \/ Interrupt(t)
  <2>1. PICK target \in State : Write(t, Transition(tasks[t], target))
    BY <1>4 DEF Start, AwaitingApproval, Interrupt, State, Active
  <2>2. Transition(tasks[t], target).cancel = tasks[t].cancel
    BY <1>1 DEF Transition, Row
  <2>3. tasks[t].state \notin Terminal
    BY <1>4 DEF Start, AwaitingApproval, Interrupt, CanInterrupt, Terminal
  <2> QED
    BY <2>1, <2>2, <2>3, RowStepWritten
<1>5. CASE RecordItem(t)
  <2>1. PICK outcome \in Outcome : Write(t, WithItem(tasks[t], outcome))
    BY <1>5 DEF RecordItem
  <2>2. WithItem(tasks[t], outcome).cancel = tasks[t].cancel
    BY <1>1 DEF WithItem, Row
  <2>3. tasks[t].state \notin Terminal
    BY <1>5 DEF RecordItem, CanRecordItem, Terminal
  <2> QED
    BY <2>1, <2>2, <2>3, RowStepWritten
<1>6. CASE AddReference(t)
  <2>1. WithReference(tasks[t]).cancel = tasks[t].cancel
    BY <1>1 DEF WithReference, Row
  <2>2. tasks[t].state \notin Terminal
    BY <1>6 DEF AddReference, CanAddReference, Active, Terminal
  <2> QED
    BY <1>6, <2>1, <2>2, RowStepWritten DEF AddReference
<1>7. CASE SaveCheckpoint(t)
  <2>1. WithCheckpoint(tasks[t]).cancel = tasks[t].cancel
    BY <1>1 DEF WithCheckpoint, Row
  <2>2. tasks[t].state \notin Terminal
    BY <1>7 DEF SaveCheckpoint, CanSaveCheckpoint, Terminal
  <2> QED
    BY <1>7, <2>1, <2>2, RowStepWritten DEF SaveCheckpoint
<1>8. CASE (Fail(t) \/ Complete(t) \/ Cancelled(t)) /\ ~UNCHANGED tasks
  <2>1. PICK target \in Terminal : Write(t, Finish(tasks[t], target))
    BY <1>8 DEF Fail, Complete, Cancelled, Terminal
  <2>2. Finish(tasks[t], target).state \in Terminal
    BY <1>1 DEF Finish, Row
  <2>3. tasks[t].state \notin Terminal
    BY <1>8 DEF Fail, Complete, Cancelled, CanFail, CanCancel, Active, Terminal
  <2> QED
    BY <2>1, <2>2, <2>3, RowStepWritten
<1> QED
  BY <1>2, <1>3, <1>4, <1>5, <1>6, <1>7, <1>8
  DEF WorkerStep, ReadOutcome, RaiseIfCancelled

\* So does every request and everything an approval session does.
LEMMA RequestStepIsRowStep ==
    ASSUME IInv, NEW t \in Task, RequestStep(t)
    PROVE  RowStep(t)
<1>1. tasks[t] \in Row
  BY DEF IInv, TypeOK
<1>2. CASE RequestCancel(t)
  <2>1. WithCancelRequest(tasks[t]).cancel
    BY <1>1 DEF WithCancelRequest, Row
  <2>2. tasks[t].state \notin Terminal
    BY <1>2 DEF RequestCancel, CanRequestCancel, Terminal
  <2> QED
    BY <1>2, <2>1, <2>2, RowStepWritten DEF RequestCancel
<1>3. CASE RequestContinue(t)
  <2>1. WithContinueRequest(tasks[t]).cancel = tasks[t].cancel
    BY <1>1 DEF WithContinueRequest, Row
  <2>2. tasks[t].state \notin Terminal
    BY <1>3 DEF RequestContinue, CanRequestContinue, Terminal
  <2> QED
    BY <1>3, <2>1, <2>2, RowStepWritten DEF RequestContinue
<1>4. CASE ClaimContinue(t)
  <2>1. tasks[t].state \notin Terminal /\ tasks[t].continue
    BY <1>4 DEF ClaimContinue, CanClaimContinue, Terminal
  <2> QED
    BY <1>4, <2>1, RowStepWritten DEF ClaimContinue
<1>5. CASE ApprovalReceived(t)
  <2>1. Transition(tasks[t], "RUNNING").cancel = tasks[t].cancel
    BY <1>1 DEF Transition, Row
  <2>2. tasks[t].state \notin Terminal
    BY <1>5 DEF ApprovalReceived, Terminal
  <2> QED
    BY <1>5, <2>1, <2>2, RowStepWritten DEF ApprovalReceived
<1>6. CASE ApprovalEnds(t)
  <2>1. PICK end \in {"CANCELLED", "FAILED"} :
            /\ end = "CANCELLED" => CanCancel(tasks[t])
            /\ end = "FAILED" => CanFail(tasks[t])
            /\ Write(t, Finish(tasks[t], end))
    BY <1>6 DEF ApprovalEnds
  <2>2. Finish(tasks[t], end).state \in Terminal
    BY <1>1 DEF Finish, Row, Terminal
  <2>3. tasks[t].state \notin Terminal
    BY <2>1 DEF CanCancel, CanFail, Active, Terminal
  <2> QED
    BY <2>1, <2>2, <2>3, RowStepWritten
<1> QED
  BY <1>2, <1>3, <1>4, <1>5, <1>6 DEF RequestStep

\* A finished task is final, for every set of tasks and any number of
\* restarts: only retention removes it.
THEOREM TerminalStatesAreFinal == Spec => TerminalIsFinal
<1> DEFINE Final == \A t \in Task :
                tasks[t].state \in Terminal =>
                    tasks'[t] = tasks[t] \/ tasks'[t].state = "ABSENT"
<1>1. ASSUME IInv, [Next]_vars PROVE [Final]_vars
  <2>1. CASE \E t \in Task : WorkerStep(t) \/ RequestStep(t)
    BY <1>1, <2>1, WorkerStepIsRowStep, RequestStepIsRowStep DEF RowStep
  <2>2. CASE RecoverAfterRestart
    BY <1>1, <2>2 DEF RecoverAfterRestart, Active, Terminal
  <2>3. CASE PurgeExpired
    BY <1>1, <2>3, NoRowGood DEF PurgeExpired
  <2>4. CASE Crash
    BY <1>1, <2>4 DEF Crash
  <2>5. CASE UNCHANGED vars
    BY <2>5
  <2> QED
    BY <1>1, <2>1, <2>2, <2>3, <2>4, <2>5 DEF Next
<1> QED
  BY <1>1, InductiveInvariant, PTL DEF Spec, TerminalIsFinal

\* An accepted cancel request is never silently dropped.
THEOREM CancelIsNotForgotten == Spec => CancelNotForgotten
<1> DEFINE Kept == \A t \in Task :
                tasks[t].cancel /\ ~tasks'[t].cancel =>
                    \/ tasks'[t].state \in Terminal
                    \/ daemon = "recovering"
                    \/ tasks[t].continue
<1>1. ASSUME IInv, [Next]_vars PROVE [Kept]_vars
  <2>1. CASE \E t \in Task : WorkerStep(t) \/ RequestStep(t)
    BY <1>1, <2>1, WorkerStepIsRowStep, RequestStepIsRowStep DEF RowStep
  <2>2. CASE RecoverAfterRestart
    BY <1>1, <2>2 DEF RecoverAfterRestart
  <2>3. CASE PurgeExpired
    BY <1>1, <2>3 DEF PurgeExpired, IInv, RowInv
  <2>4. CASE Crash
    BY <1>1, <2>4 DEF Crash
  <2>5. CASE UNCHANGED vars
    BY <2>5
  <2> QED
    BY <1>1, <2>1, <2>2, <2>3, <2>4, <2>5 DEF Next
<1> QED
  BY <1>1, InductiveInvariant, PTL DEF Spec, CancelNotForgotten

=============================================================================
