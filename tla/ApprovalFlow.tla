----------------------------- MODULE ApprovalFlow -----------------------------
(***************************************************************************)
(* Two-phase execution of a plan by the orchestrator: execute() runs the   *)
(* read-only steps and prepares the final step that needs approval;        *)
(* respond_to_approval(), called by another thread, commits or discards    *)
(* it.  Composes the orchestrator's control with the approval session      *)
(* store, the concurrency limit and the scope check in front of the copy   *)
(* capability, the prepared copy plans, and the ledger rows.               *)
(*                                                                         *)
(* A run is executed by one thread and, once a session is stored, answered *)
(* by at most one; pc says where that thread is.  What copying does file   *)
(* by file is MaterializeCopy's subject; here it publishes and rolls back. *)
(***************************************************************************)
EXTENDS LedgerRows, SequencesExt

CONSTANTS
    Run,             \* run identifiers; a run is one execute() call
    Visitor,         \* a thread whose answer names no stored session
    Capacity,        \* ApprovalSessionStore.capacity
    MaxConcurrency,  \* the copy policy's max_concurrency
    MaxItems,        \* bound: results recorded by one search or copy
    MaxFaults        \* bound: calls of a store that raise a storage error

ASSUME LimitsAssumption == Capacity \in Nat \ {0} /\ MaxConcurrency \in Nat \ {0}
ASSUME VisitorAssumption == Visitor \notin Run

VARIABLES
    tasks,     \* the ledger's rows, on disk
    files,     \* what each run has put into its destination, on disk
    up,        \* the daemon serves; FALSE between a crash and recovery
    pc,        \* where the thread of each run is
    todo,      \* the steps of the plan that are left
    code,      \* the error code of the run's last step
    answer,    \* what the user answered, once the session was claimed
    sessions,  \* stored approval sessions, oldest first
    stale,     \* how many of the oldest have outlived their time
    reaping,   \* the sessions a thread has removed and must still discard
    plans,     \* runs with a prepared copy plan
    permits,   \* free permits of the copy capability
    scope,     \* the scopes a copy needs are granted
    faults     \* storage errors so far

disk == <<tasks, files>>
memory == <<pc, todo, code, answer>>
store == <<sessions, stale, reaping>>
copier == <<plans, permits>>
vars == <<disk, up, memory, store, copier, scope, faults>>

Plan == {<<"search">>, <<"copy">>, <<"search", "copy">>}

PC == {"idle", "start", "loop", "search", "record", "prepare", "preparing", "put",
       "await", "parked", "declined", "approved", "commit", "committing", "copying",
       "copied", "complete", "failed", "cancelled", "undo", "returned", "raised", "gone"}

\* The codes _classify_error and the policy produce, as far as they matter.
Code == {"none", "user_cancelled", "rollback_incomplete", "policy", "busy", "other"}

Files == {"none", "some", "all"}

TypeOK ==
    /\ tasks \in [Run -> Row]
    /\ files \in [Run -> Files]
    /\ up \in BOOLEAN
    /\ pc \in [Run -> PC]
    /\ todo \in [Run -> Plan \cup {<<>>}]
    /\ code \in [Run -> Code]
    /\ answer \in [Run -> {"none", "confirmed", "declined"}]
    /\ sessions \in Seq(Run)
    /\ Len(sessions) <= Capacity
    /\ stale \in 0 .. Len(sessions)
    /\ reaping \in [Run \cup {Visitor} -> Seq(Run)]
    /\ plans \subseteq Run
    /\ permits \in 0 .. MaxConcurrency
    /\ scope \in BOOLEAN
    /\ faults \in Nat

NothingToReap == [x \in Run \cup {Visitor} |-> <<>>]

Init ==
    /\ tasks = [r \in Run |-> NoRow]
    /\ files = [r \in Run |-> "none"]
    /\ up = TRUE
    /\ pc = [r \in Run |-> "idle"]
    /\ todo = [r \in Run |-> <<>>]
    /\ code = [r \in Run |-> "none"]
    /\ answer = [r \in Run |-> "none"]
    /\ sessions = <<>>
    /\ stale = 0
    /\ reaping = NothingToReap
    /\ plans = {}
    /\ permits = MaxConcurrency
    /\ scope = TRUE
    /\ faults = 0

-----------------------------------------------------------------------------

\* The thread of r is at p and has discarded the sessions it removed.
At(r, p) == up /\ pc[r] = p /\ reaping[r] = <<>>

Goto(r, p) == pc' = [pc EXCEPT ![r] = p]

GotoWith(r, p, c) == Goto(r, p) /\ code' = [code EXCEPT ![r] = c]

Write(r, row) == tasks' = [tasks EXCEPT ![r] = row]

\* A ledger call that needs the row in one of `allowed`: it writes `row` and
\* the thread goes on to p, or it raises InvalidTransitionError and the
\* exception leaves the thread.
LedgerCall(r, allowed, row, p) ==
    \/ /\ tasks[r].state \in allowed
       /\ Write(r, row)
       /\ Goto(r, p)
    \/ /\ tasks[r].state \notin allowed
       /\ UNCHANGED tasks
       /\ Goto(r, "raised")

OnlyLedger == UNCHANGED <<files, up, todo, code, answer, store, copier, scope, faults>>

-----------------------------------------------------------------------------
(* execute() *)

Execute(r) ==
    /\ up /\ pc[r] = "idle"
    /\ \E steps \in Plan : todo' = [todo EXCEPT ![r] = steps]
    /\ Write(r, InsertedRow(NoTotal, FALSE))
    /\ Goto(r, "start")
    /\ UNCHANGED <<files, up, code, answer, store, copier, scope, faults>>

LedgerStart(r) ==
    /\ At(r, "start")
    /\ LedgerCall(r, {"PLANNED"}, Transition(tasks[r], "RUNNING"), "loop")
    /\ OnlyLedger

\* The top of the loop over the steps: raise_if_cancelled, then dispatch.
NextStep(r) ==
    /\ At(r, "loop")
    /\ \/ /\ tasks[r].cancel
          /\ GotoWith(r, "cancelled", "user_cancelled")
       \/ /\ ~tasks[r].cancel
          /\ Goto(r, IF Head(todo[r]) = "search" THEN "search" ELSE "prepare")
          /\ UNCHANGED code
    /\ UNCHANGED <<disk, up, todo, answer, store, copier, scope, faults>>

\* Mutant of Search: the failure is returned without _failure().
SearchForgetsFailure(r) ==
    /\ At(r, "search")
    /\ \/ /\ todo' = [todo EXCEPT ![r] = Tail(@)]
          /\ Goto(r, "record")
          /\ UNCHANGED code
       \/ /\ GotoWith(r, "returned", "other")
          /\ UNCHANGED todo
    /\ UNCHANGED <<disk, up, answer, store, copier, scope, faults>>

Search(r) ==
    /\ At(r, "search")
    /\ \/ /\ todo' = [todo EXCEPT ![r] = Tail(@)]
          /\ Goto(r, "record")
          /\ UNCHANGED code
       \/ /\ GotoWith(r, "failed", "other")
          /\ UNCHANGED todo
    /\ UNCHANGED <<disk, up, answer, store, copier, scope, faults>>

\* _ledger_search_results: references if a copy follows, else counted items.
RecordResults(r) ==
    /\ At(r, "record")
    /\ \/ /\ tasks[r].references < MaxItems
          /\ IF todo[r] # <<>>
             THEN LedgerCall(r, Active, WithReference(tasks[r]), "record")
             ELSE LedgerCall(r, {"RUNNING"}, WithItem(tasks[r], "SUCCEEDED"), "record")
       \/ /\ Goto(r, IF todo[r] = <<>> THEN "complete" ELSE "loop")
          /\ UNCHANGED tasks
    /\ OnlyLedger

\* dispatch(): the gateway's decision, then the capability's concurrency
\* limit; prepare and commit share its permits.
Dispatch(r, granted, refused) ==
    \/ /\ ~scope
       /\ GotoWith(r, refused, "policy")
       /\ UNCHANGED permits
    \/ /\ scope /\ permits = 0
       /\ GotoWith(r, refused, "busy")
       /\ UNCHANGED permits
    \/ /\ scope /\ permits > 0
       /\ permits' = permits - 1
       /\ Goto(r, granted)
       /\ UNCHANGED code

Prepare(r) ==
    /\ At(r, "prepare")
    /\ Dispatch(r, "preparing", "failed")
    /\ UNCHANGED <<disk, up, todo, answer, store, plans, scope, faults>>

\* The prepare handler returns or raises: a plan, a failure, or a cancel
\* request seen while the sources are read.
CreateCopyPlan(r) ==
    /\ At(r, "preparing")
    /\ permits' = permits + 1
    /\ \/ /\ plans' = plans \cup {r}
          /\ Goto(r, "put")
          /\ UNCHANGED code
       \/ /\ GotoWith(r, "failed", "other")
          /\ UNCHANGED plans
       \/ /\ tasks[r].cancel
          /\ GotoWith(r, "cancelled", "user_cancelled")
          /\ UNCHANGED plans
    /\ UNCHANGED <<disk, up, todo, answer, store, scope, faults>>

\* Sessions are stored, and so expire, in the order of their time.
Live == SubSeq(sessions, stale + 1, Len(sessions))
Expired == SubSeq(sessions, 1, stale)

\* Mutants of Put: one session too many; evicted sessions are forgotten.
PutOffByOne(r) ==
    /\ At(r, "put")
    /\ LET queue  == Append(Live, r)
           excess == IF Len(queue) > Capacity + 1 THEN Len(queue) - Capacity - 1 ELSE 0
       IN  /\ sessions' = SubSeq(queue, excess + 1, Len(queue))
           /\ reaping' = [reaping EXCEPT ![r] = Expired \o SubSeq(queue, 1, excess)]
    /\ stale' = 0
    /\ Goto(r, "await")
    /\ UNCHANGED <<disk, up, todo, code, answer, copier, scope, faults>>

PutForgetsEvicted(r) ==
    /\ At(r, "put")
    /\ LET queue  == Append(Live, r)
           excess == IF Len(queue) > Capacity THEN Len(queue) - Capacity ELSE 0
       IN  /\ sessions' = SubSeq(queue, excess + 1, Len(queue))
           /\ reaping' = [reaping EXCEPT ![r] = Expired]
    /\ stale' = 0
    /\ Goto(r, "await")
    /\ UNCHANGED <<disk, up, todo, code, answer, copier, scope, faults>>

\* ApprovalSessionStore.put: expired sessions leave, the new one is the
\* youngest, and the oldest ones beyond the capacity are evicted.
Put(r) ==
    /\ At(r, "put")
    /\ LET queue  == Append(Live, r)
           excess == IF Len(queue) > Capacity THEN Len(queue) - Capacity ELSE 0
       IN  /\ sessions' = SubSeq(queue, excess + 1, Len(queue))
           /\ reaping' = [reaping EXCEPT ![r] = Expired \o SubSeq(queue, 1, excess)]
    /\ stale' = 0
    /\ Goto(r, "await")
    /\ UNCHANGED <<disk, up, todo, code, answer, copier, scope, faults>>

AwaitingApproval(r) ==
    /\ At(r, "await")
    /\ LedgerCall(r, {"RUNNING"}, Transition(tasks[r], "AWAITING_APPROVAL"), "parked")
    /\ OnlyLedger

Complete(r) ==
    /\ At(r, "complete")
    /\ LedgerCall(r, {"RUNNING"}, Finish(tasks[r], CompletionTarget(tasks[r])), "returned")
    /\ OnlyLedger

\* _failure()
Failure(r) ==
    /\ At(r, "failed")
    /\ LedgerCall(r, {"PLANNED"} \cup Active, Finish(tasks[r], "FAILED"), "returned")
    /\ OnlyLedger

\* _cancelled()
Cancelled(r) ==
    /\ At(r, "cancelled")
    /\ LedgerCall(r, Active, Finish(tasks[r], "CANCELLED"), "returned")
    /\ OnlyLedger

-----------------------------------------------------------------------------
(* respond_to_approval() *)

\* Mutant of Claim: the session is read and left in the store.
ClaimKeepsSession(r, given) ==
    /\ At(r, "parked")
    /\ r \in ToSet(Live)
    /\ sessions' = Live
    /\ stale' = 0
    /\ reaping' = [reaping EXCEPT ![r] = Expired]
    /\ answer' = [answer EXCEPT ![r] = given]
    /\ Goto(r, IF given = "confirmed" THEN "approved" ELSE "declined")
    /\ UNCHANGED <<disk, up, todo, code, copier, scope, faults>>

\* The id is known to the user only once execute() has returned it.  claim()
\* removes the expired sessions and, if it is still there, the session.
Claim(r, given) ==
    /\ At(r, "parked")
    /\ \E i \in DOMAIN Live : Live[i] = r /\ sessions' = RemoveAt(Live, i)
    /\ stale' = 0
    /\ reaping' = [reaping EXCEPT ![r] = Expired]
    /\ answer' = [answer EXCEPT ![r] = given]
    /\ Goto(r, IF given = "confirmed" THEN "approved" ELSE "declined")
    /\ UNCHANGED <<disk, up, todo, code, copier, scope, faults>>

\* An answer that is late, repeated or names nothing finds no session; the
\* expired ones are removed all the same.
ClaimNothing ==
    /\ up
    /\ reaping[Visitor] = <<>>
    /\ stale # 0
    /\ sessions' = Live
    /\ stale' = 0
    /\ reaping' = [reaping EXCEPT ![Visitor] = Expired]
    /\ UNCHANGED <<disk, up, memory, copier, scope, faults>>

\* The thread x loses the rest of its list to an exception.  In put() that is
\* inside execute()'s try block and the run fails, although its own session
\* has been stored; in claim() it leaves the thread with the session removed.
ReapingRaises(x) ==
    /\ reaping' = [reaping EXCEPT ![x] = <<>>]
    /\ UNCHANGED tasks
    /\ \/ x = Visitor /\ UNCHANGED <<pc, code>>
       \/ x # Visitor /\ pc[x] = "await" /\ GotoWith(x, "failed", "other")
       \/ x # Visitor /\ pc[x] # "await" /\ Goto(x, "raised") /\ UNCHANGED code

\* _discard_sessions, one session: forget its copy plan, fail its task.
DiscardSession(x) ==
    /\ up
    /\ reaping[x] # <<>>
    /\ LET s == Head(reaping[x])
       IN  /\ plans' = plans \ {s}
           /\ \/ /\ CanFail(tasks[s])
                 /\ Write(s, Finish(tasks[s], "FAILED"))
                 /\ reaping' = [reaping EXCEPT ![x] = Tail(@)]
                 /\ UNCHANGED <<pc, code, faults>>
              \/ /\ ~CanFail(tasks[s])
                 /\ ReapingRaises(x)
                 /\ UNCHANGED faults
              \/ /\ faults < MaxFaults
                 /\ faults' = faults + 1
                 /\ ReapingRaises(x)
    /\ UNCHANGED <<files, up, todo, answer, sessions, stale, permits, scope>>

Declined(r) ==
    /\ At(r, "declined")
    /\ plans' = plans \ {r}
    /\ LedgerCall(r, Active, Finish(tasks[r], "CANCELLED"), "returned")
    /\ UNCHANGED <<files, up, todo, code, answer, store, permits, scope, faults>>

ApprovalReceived(r) ==
    /\ At(r, "approved")
    /\ \/ /\ tasks[r].state = "AWAITING_APPROVAL"
          /\ Write(r, Transition(tasks[r], "RUNNING"))
          /\ Goto(r, "commit")
          /\ UNCHANGED code
       \/ /\ tasks[r].state # "AWAITING_APPROVAL"
          /\ GotoWith(r, "undo", "other")
          /\ UNCHANGED tasks
    /\ UNCHANGED <<files, up, todo, answer, store, copier, scope, faults>>

\* The same call inside the try block, when the storage fails it.
ApprovalLost(r) ==
    /\ At(r, "approved")
    /\ faults < MaxFaults
    /\ faults' = faults + 1
    /\ GotoWith(r, "undo", "other")
    /\ UNCHANGED <<disk, up, todo, answer, store, copier, scope>>

Commit(r) ==
    /\ At(r, "commit")
    /\ Dispatch(r, "committing", "undo")
    /\ UNCHANGED <<disk, up, todo, answer, store, plans, scope, faults>>

\* The commit handler takes the prepared plan, which can be used once.
TakePlan(r) ==
    /\ At(r, "committing")
    /\ \/ /\ r \in plans
          /\ plans' = plans \ {r}
          /\ Goto(r, "copying")
          /\ UNCHANGED <<code, permits>>
       \/ /\ r \notin plans
          /\ permits' = permits + 1
          /\ GotoWith(r, "undo", "other")
          /\ UNCHANGED plans
    /\ UNCHANGED <<disk, up, todo, answer, store, scope, faults>>

Publish(r) ==
    /\ At(r, "copying")
    /\ files[r] = "none"
    /\ files' = [files EXCEPT ![r] = "some"]
    /\ UNCHANGED <<tasks, up, memory, store, copier, scope, faults>>

\* Every file is in place: the handler stores the destination in the task
\* context and returns.  If that store raises, the copy counts as failed.
CopySucceeds(r) ==
    /\ At(r, "copying")
    /\ files' = [files EXCEPT ![r] = "all"]
    /\ permits' = permits + 1
    /\ \/ /\ Goto(r, "copied")
          /\ UNCHANGED <<code, faults>>
       \/ /\ faults < MaxFaults
          /\ faults' = faults + 1
          /\ GotoWith(r, "undo", "other")
    /\ UNCHANGED <<tasks, up, todo, answer, store, plans, scope>>

\* Mutant of CopyRaises: a cancelled copy does not roll back.
CancelledCopyKeepsFiles(r) ==
    /\ At(r, "copying")
    /\ permits' = permits + 1
    /\ \/ /\ files' = [files EXCEPT ![r] = "none"]
          /\ GotoWith(r, "undo", "other")
       \/ /\ tasks[r].cancel
          /\ GotoWith(r, "undo", "user_cancelled")
          /\ UNCHANGED files
    /\ UNCHANGED <<tasks, up, todo, answer, store, plans, scope, faults>>

\* The copy stops - on an error, its deadline, or a cancel request - and rolls
\* back; a rollback that is itself incomplete is what the caller is told.
CopyRaises(r) ==
    /\ At(r, "copying")
    /\ permits' = permits + 1
    /\ \/ /\ files' = [files EXCEPT ![r] = "none"]
          /\ \/ GotoWith(r, "undo", "other")
             \/ tasks[r].cancel /\ GotoWith(r, "undo", "user_cancelled")
       \/ /\ files[r] = "some"
          /\ GotoWith(r, "undo", "rollback_incomplete")
          /\ UNCHANGED files
    /\ UNCHANGED <<tasks, up, todo, answer, store, plans, scope, faults>>

RecordCopied(r) ==
    /\ At(r, "copied")
    /\ \/ /\ tasks[r].processed < MaxItems
          /\ LedgerCall(r, {"RUNNING"}, WithItem(tasks[r], "SUCCEEDED"), "copied")
       \/ /\ tasks[r].processed > 0
          /\ Goto(r, "complete")
          /\ UNCHANGED tasks
    /\ OnlyLedger

\* The failure path of a confirmed answer.
Undo(r) ==
    /\ At(r, "undo")
    /\ plans' = plans \ {r}
    /\ LedgerCall(r, {"PLANNED"} \cup Active, Finish(tasks[r], "FAILED"), "returned")
    /\ UNCHANGED <<files, up, todo, code, answer, store, permits, scope, faults>>

-----------------------------------------------------------------------------
(* The environment. *)

RequestCancel(r) ==
    /\ up
    /\ CanRequestCancel(tasks[r])
    /\ Write(r, WithCancelRequest(tasks[r]))
    /\ UNCHANGED <<files, up, memory, store, copier, scope, faults>>

SessionExpires ==
    /\ stale < Len(sessions)
    /\ stale' = stale + 1
    /\ UNCHANGED <<disk, up, memory, sessions, reaping, copier, scope, faults>>

\* A copy plan lives 600 s from before its session was stored, the session
\* 300 s: the plan of a session that can still be claimed has not expired.
PlanExpires(r) ==
    /\ r \in plans
    /\ r \notin ToSet(Live) /\ pc[r] # "put"
    /\ plans' = plans \ {r}
    /\ UNCHANGED <<disk, up, memory, store, permits, scope, faults>>

ScopeChanges ==
    /\ up
    /\ scope' = ~scope
    /\ UNCHANGED <<disk, up, memory, store, copier, faults>>

\* A ledger call raises a storage error outside the try blocks: the exception
\* leaves the thread and the row is as it was.
LedgerRaises(r) ==
    /\ faults < MaxFaults
    /\ \E p \in {"start", "loop", "record", "await", "complete", "failed", "cancelled",
                 "declined", "copied", "undo"} : At(r, p)
    /\ faults' = faults + 1
    /\ Goto(r, "raised")
    /\ plans' = IF pc[r] \in {"declined", "undo"} THEN plans \ {r} ELSE plans
    /\ UNCHANGED <<disk, up, todo, code, answer, store, permits, scope>>

Crash ==
    /\ up
    /\ up' = FALSE
    /\ pc' = [r \in Run |-> IF pc[r] = "idle" THEN "idle" ELSE "gone"]
    /\ sessions' = <<>>
    /\ stale' = 0
    /\ reaping' = NothingToReap
    /\ plans' = {}
    /\ permits' = MaxConcurrency
    /\ UNCHANGED <<disk, todo, code, answer, scope, faults>>

\* recover_after_restart(), before the daemon serves again.
Restart ==
    /\ ~up
    /\ up' = TRUE
    /\ tasks' = [r \in Run |-> IF tasks[r].state \in Active
                               THEN RecoveredRow(tasks[r]) ELSE tasks[r]]
    /\ UNCHANGED <<files, memory, store, copier, scope, faults>>

\* What the thread of r does next.
ThreadStep(r) ==
    \/ LedgerStart(r) \/ NextStep(r) \/ Search(r) \/ RecordResults(r)
    \/ Prepare(r) \/ CreateCopyPlan(r) \/ Put(r) \/ AwaitingApproval(r)
    \/ Complete(r) \/ Failure(r) \/ Cancelled(r)
    \/ Declined(r) \/ ApprovalReceived(r) \/ Commit(r) \/ TakePlan(r)
    \/ Publish(r) \/ CopySucceeds(r) \/ CopyRaises(r) \/ RecordCopied(r) \/ Undo(r)

Environment(r) ==
    \/ Execute(r)
    \/ \E given \in {"confirmed", "declined"} : Claim(r, given)
    \/ RequestCancel(r) \/ PlanExpires(r) \/ LedgerRaises(r) \/ ApprovalLost(r)

Next ==
    \/ \E r \in Run : ThreadStep(r) \/ Environment(r)
    \/ \E x \in Run \cup {Visitor} : DiscardSession(x)
    \/ ClaimNothing \/ SessionExpires \/ ScopeChanges \/ Crash \/ Restart

\* A started thread is scheduled, and the service manager restarts a crashed
\* daemon.  Nothing makes the user answer, time pass or a session be claimed.
Fairness ==
    /\ \A r \in Run : WF_vars(ThreadStep(r))
    /\ \A x \in Run \cup {Visitor} : WF_vars(DiscardSession(x))
    /\ WF_vars(Restart)

Spec == Init /\ [][Next]_vars /\ Fairness

-----------------------------------------------------------------------------
(* Properties. *)

\* What the user is told about a run and what the run has left on disk agree:
\* a cancelled task left nothing, a completed copy left every file, and a
\* failed one left nothing unless the failure says the rollback is incomplete
\* or a store raised.  A task that a crash ended (pc "gone") promises nothing.
OutcomeMatchesEffect ==
    \A r \in Run :
        /\ tasks[r].state = "CANCELLED" => files[r] = "none"
        /\ tasks[r].state = "COMPLETED" /\ answer[r] = "confirmed" => files[r] = "all"
        /\ pc[r] = "returned" /\ tasks[r].state = "FAILED" /\ faults = 0 =>
               (files[r] = "none") = (code[r] # "rollback_incomplete")

\* As long as the storage works, eviction, expiry, answers and failures leave
\* no approval behind that nobody can answer or discard: a task that waits has
\* a session or a thread about to end it, and so has every prepared copy plan.
PreparedWorkIsOwned ==
    up /\ faults = 0 =>
        \A r \in Run :
            LET held == \/ r \in ToSet(sessions)
                        \/ \E x \in Run \cup {Visitor} : r \in ToSet(reaping[x])
            IN  /\ tasks[r].state = "AWAITING_APPROVAL" =>
                       held \/ pc[r] \in {"approved", "declined"}
                /\ r \in plans =>
                       held \/ pc[r] \in {"put", "approved", "declined", "commit",
                                          "committing", "undo"}

\* ADR-008: a cancel request that stops the work ends the task as cancelled.
CancelEndsCancelled ==
    \A r \in Run :
        pc[r] = "returned" /\ code[r] = "user_cancelled" => tasks[r].state = "CANCELLED"

\* Every running task stops running - it ends, waits for the user, or is
\* settled by the next restart - unless the storage has raised an error.
WorkEnds ==
    \A r \in Run :
        tasks[r].state = "RUNNING" ~> (tasks[r].state # "RUNNING" \/ faults > 0)

\* The protocol promises what Consent states: a run's files change only after
\* its one question was confirmed, and never after the run has ended.
phase == [r \in Run |->
    IF r \in ToSet(sessions) THEN "asked"
    ELSE IF pc[r] \in {"approved", "commit", "committing", "copying"} THEN "confirmed"
    ELSE IF pc[r] \in {"idle", "start", "loop", "search", "record", "prepare",
                       "preparing", "put"} THEN "idle"
    ELSE "closed"]

Promise == INSTANCE Consent WITH Effects <- Files, NoEffect <- "none", effect <- files

ConsentKept == Promise!Spec

=============================================================================
