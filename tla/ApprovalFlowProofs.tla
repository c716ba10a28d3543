-------------------------- MODULE ApprovalFlowProofs --------------------------
(***************************************************************************)
(* The safety of ApprovalFlow for any set of runs, any capacity of the     *)
(* session store, any concurrency limit and no bound on the items or on    *)
(* the faults, and that it implements Consent.  The inductive invariant    *)
(* says where a thread can be while its session is stored or is about to   *)
(* be discarded, and what its files are at each place.                     *)
(***************************************************************************)
EXTENDS ApprovalFlow, FiniteSetTheorems, SequenceTheorems, TLAPS

Thread == Run \cup {Visitor}

\* Before the session of the run is stored.
Asking == {"idle", "start", "loop", "search", "record", "prepare", "preparing", "put"}

\* Where the thread of a run can be while its session is stored or removed: if
\* discarding others raised in put(), it has failed with its session stored.
Stored == {"await", "parked", "failed", "returned", "raised"}

\* The user has not answered at these places, and nothing has been copied at
\* the second ones.
Unanswered == Asking \cup {"await", "parked", "failed", "cancelled"}
Untouched == Unanswered \cup {"declined", "approved", "commit", "committing"}

\* The session of a run is in the store, or in a list of those to discard.
Kept(r) == r \in ToSet(sessions)
Leaving(r) == \E x \in Thread : r \in ToSet(reaping[x])
Held(r) == Kept(r) \/ Leaving(r)

\* At these places a thread has a permit of the copy capability.
Holding == {"preparing", "committing", "copying"}
Holders == {r \in Run : pc[r] \in Holding}

\* A permit is free or held by a thread that copies or prepares a copy.
PermitsBalanced ==
    /\ IsFiniteSet(Holders)
    /\ permits + Cardinality(Holders) = MaxConcurrency

\* A session is in the store or in one list of those to discard, once.
SessionsDistinct ==
    /\ \A i, j \in DOMAIN sessions : sessions[i] = sessions[j] => i = j
    /\ \A x \in Thread : \A i \in DOMAIN reaping[x] : ~Kept(reaping[x][i])
    /\ \A x, y \in Thread : \A i \in DOMAIN reaping[x], j \in DOMAIN reaping[y] :
           reaping[x][i] = reaping[y][j] => x = y /\ i = j

\* What is left of the plan of r while its search steps run, and its task's state.
PlanRuns(r) ==
    /\ pc[r] \in {"start", "loop"} => todo[r] \in Plan
    /\ pc[r] = "search" => todo[r] \in {<<"search">>, <<"search", "copy">>}
    /\ pc[r] \in Asking \ {"idle", "start"} => tasks[r].state = "RUNNING"

\* Only a thread that has stored its session has one, and only put() and
\* claim() leave a list to discard; a crash leaves neither sessions nor plans,
\* and no active task is left by the recovery that follows it.
SessionPlaced(r) ==
    /\ Held(r) => pc[r] \in Stored
    /\ reaping[r] # <<>> => pc[r] \in {"await", "approved", "declined"}
    /\ ~up => pc[r] \in {"idle", "gone"} /\ ~Held(r) /\ r \notin plans
    /\ up /\ pc[r] = "gone" => tasks[r].state \notin Active

\* The files of r, the answer and the code at each place of its thread.
FilesPlaced(r) ==
    /\ pc[r] \in Unanswered => answer[r] = "none"
    /\ pc[r] \in Untouched => files[r] = "none" /\ code[r] # "rollback_incomplete"
    /\ pc[r] = "copying" => files[r] # "all"
    /\ pc[r] = "copied" => files[r] = "all"
    /\ pc[r] = "complete" /\ answer[r] = "confirmed" => files[r] = "all"
    /\ pc[r] = "undo" /\ faults = 0 => (files[r] = "none") = (code[r] # "rollback_incomplete")

\* A task ends when its thread does.
EndPlaced(r) ==
    /\ tasks[r].state \in Terminal \ {"FAILED"} => pc[r] \in {"returned", "gone"}
    /\ pc[r] = "returned" => tasks[r].state \in Terminal

\* While the storage works, a session that is stored or about to be discarded
\* is the one of a task that waits for it or is about to wait.
AskWaits(r) ==
    up /\ faults = 0 =>
        /\ Held(r) => \/ pc[r] = "await" /\ tasks[r].state = "RUNNING"
                      \/ pc[r] = "parked" /\ tasks[r].state = "AWAITING_APPROVAL"
        /\ pc[r] = "await" => Held(r) \/ tasks[r].state \notin Active

\* What OutcomeMatchesEffect and PreparedWorkIsOwned say of one run.
OutcomeOf(r) ==
    /\ tasks[r].state = "CANCELLED" => files[r] = "none"
    /\ tasks[r].state = "COMPLETED" /\ answer[r] = "confirmed" => files[r] = "all"
    /\ pc[r] = "returned" /\ tasks[r].state = "FAILED" /\ faults = 0 =>
           (files[r] = "none") = (code[r] # "rollback_incomplete")

OwnedBy(r) ==
    up /\ faults = 0 =>
        /\ tasks[r].state = "AWAITING_APPROVAL" => Held(r) \/ pc[r] \in {"approved", "declined"}
        /\ r \in plans =>
               Held(r) \/ pc[r] \in {"put", "approved", "declined", "commit", "committing", "undo"}

RunGood(r) ==
    /\ PlanRuns(r) /\ SessionPlaced(r) /\ FilesPlaced(r) /\ EndPlaced(r)
    /\ AskWaits(r) /\ OutcomeOf(r) /\ OwnedBy(r)

\* The inductive invariant.
ApprovalInv ==
    TypeOK /\ PermitsBalanced /\ SessionsDistinct /\ \A r \in Run : RunGood(r)

-----------------------------------------------------------------------------
(* Rows, permits and the frame of a step of one thread.                      *)

\* Every call of the ledger makes a row of a row, in the state it is for.
LEMMA RowsOfCalls ==
    ASSUME NEW row \in Row
    PROVE  /\ \A target \in State :
                /\ Transition(row, target) \in Row /\ Transition(row, target).state = target
                /\ Finish(row, target) \in Row /\ Finish(row, target).state = target
           /\ WithReference(row) \in Row /\ WithReference(row).state = row.state
           /\ WithItem(row, "SUCCEEDED") \in Row /\ WithItem(row, "SUCCEEDED").state = row.state
           /\ WithCancelRequest(row) \in Row /\ WithCancelRequest(row).state = row.state
           /\ RecoveredRow(row) \in Row /\ RecoveredRow(row).state \in {"INTERRUPTED", "FAILED"}
           /\ CompletionTarget(row) \in {"COMPLETED", "COMPLETED_WITH_SKIPS"}
           /\ row.state \in State
<1>1. ASSUME NEW target \in State
      PROVE  /\ Transition(row, target) \in Row /\ Transition(row, target).state = target
             /\ Finish(row, target) \in Row /\ Finish(row, target).state = target
  BY <1>1 DEF Row, Transition, Finish
<1>2. WithReference(row) \in Row /\ WithReference(row).state = row.state
  BY DEF Row, WithReference
<1>3. WithItem(row, "SUCCEEDED") \in Row /\ WithItem(row, "SUCCEEDED").state = row.state
  <2>1. row.processed + 1 \in Nat /\ row.succeeded + 1 \in Nat /\ row.references + 1 \in Nat
    BY DEF Row
  <2> QED
    BY <2>1 DEF Row, WithItem
<1>4. WithCancelRequest(row) \in Row /\ WithCancelRequest(row).state = row.state
  BY DEF Row, WithCancelRequest
<1>5. RecoveredRow(row) \in Row /\ RecoveredRow(row).state \in {"INTERRUPTED", "FAILED"}
  BY DEF Row, RecoveredRow, State, Terminal
<1>6. CompletionTarget(row) \in {"COMPLETED", "COMPLETED_WITH_SKIPS"} /\ row.state \in State
  BY DEF Row, CompletionTarget
<1> QED
  BY <1>1, <1>2, <1>3, <1>4, <1>5, <1>6

\* The first row of a task, and the one that stands for none.
LEMMA FirstRows ==
    /\ InsertedRow(NoTotal, FALSE) \in Row /\ InsertedRow(NoTotal, FALSE).state = "PLANNED"
    /\ NoRow \in Row /\ NoRow.state = "ABSENT"
<1> DEFINE fresh == InsertedRow(NoTotal, FALSE)
<1>1. fresh \in Row /\ fresh.state = "PLANNED"
  BY DEF Row, InsertedRow, State, NoTotal
<1>2. NoRow = [fresh EXCEPT !.state = "ABSENT"]
  BY DEF NoRow
<1> HIDE DEF fresh
<1>3. NoRow \in Row /\ NoRow.state = "ABSENT"
  BY <1>1, <1>2 DEF Row, State
<1> QED
  BY <1>1, <1>3 DEF fresh

\* A thread that moves takes or gives back a permit, or neither.
LEMMA PermitsMove ==
    ASSUME TypeOK, PermitsBalanced, NEW r \in Run, NEW q \in PC,
           pc' = [pc EXCEPT ![r] = q],
           \/ pc[r] \notin Holding /\ q \in Holding /\ permits # 0 /\ permits' = permits - 1
           \/ pc[r] \in Holding /\ q \notin Holding /\ permits' = permits + 1
           \/ (pc[r] \in Holding <=> q \in Holding) /\ permits' = permits
    PROVE  PermitsBalanced' /\ permits' \in 0 .. MaxConcurrency
<1> DEFINE n == Cardinality(Holders)
<1>1. IsFiniteSet(Holders) /\ n \in Nat /\ MaxConcurrency \in Nat /\ permits \in Nat
      /\ permits + n = MaxConcurrency
  BY FS_CardinalityType, LimitsAssumption DEF PermitsBalanced, TypeOK
<1>2. r \in Holders <=> pc[r] \in Holding
  BY DEF Holders
<1>3. CASE pc[r] \notin Holding /\ q \in Holding /\ permits # 0 /\ permits' = permits - 1
  <2>1. Holders' = Holders \cup {r}
    BY <1>3 DEF Holders, TypeOK
  <2>2. IsFiniteSet(Holders') /\ Cardinality(Holders') = n + 1
    BY <1>1, <1>2, <1>3, <2>1, FS_AddElement
  <2> HIDE DEF n
  <2> QED
    BY <1>1, <1>3, <2>2 DEF PermitsBalanced
<1>4. CASE pc[r] \in Holding /\ q \notin Holding /\ permits' = permits + 1
  <2>1. Holders' = Holders \ {r}
    BY <1>4 DEF Holders, TypeOK
  <2>2. IsFiniteSet(Holders') /\ Cardinality(Holders') = n - 1 /\ Cardinality(Holders') \in Nat
    BY <1>1, <1>2, <1>4, <2>1, FS_RemoveElement, FS_CardinalityType
  <2> HIDE DEF n
  <2> QED
    BY <1>1, <1>4, <2>2 DEF PermitsBalanced
<1>5. CASE (pc[r] \in Holding <=> q \in Holding) /\ permits' = permits
  <2>1. Holders' = Holders
    BY <1>5 DEF Holders, TypeOK
  <2> HIDE DEF n
  <2> QED
    BY <1>1, <1>5, <2>1 DEF PermitsBalanced, TypeOK
<1> QED
  BY <1>3, <1>4, <1>5

\* Nobody's permits change when no thread moves.
LEMMA PermitsStay ==
    ASSUME PermitsBalanced, UNCHANGED <<pc, permits>>
    PROVE  PermitsBalanced'
BY DEF PermitsBalanced, Holders

\* The sessions are where they were.
LEMMA StoreStays ==
    ASSUME SessionsDistinct, UNCHANGED <<sessions, reaping>>
    PROVE  SessionsDistinct' /\ \A r \in Run : Held(r)' = Held(r) /\ Kept(r)' = Kept(r)
BY DEF SessionsDistinct, Held, Kept, Leaving

\* What a step of the thread of r leaves alone of another run.
Apart(s) ==
    /\ tasks'[s] = tasks[s] /\ files'[s] = files[s]
    /\ pc'[s] = pc[s] /\ todo'[s] = todo[s] /\ code'[s] = code[s] /\ answer'[s] = answer[s]
    /\ s \in plans' => s \in plans

\* A run stays as it should be if only others move.
LEMMA ApartStaysGood ==
    ASSUME NEW s \in Run, RunGood(s), Apart(s), Held(s)' = Held(s),
           reaping'[s] = reaping[s], up' = up,
           faults' = 0 => faults = 0
    PROVE  RunGood(s)'
BY DEF RunGood, PlanRuns, SessionPlaced, FilesPlaced, EndPlaced, AskWaits, OutcomeOf, OwnedBy,
       Apart

\* A step of the thread of r that leaves the store of sessions alone.
Moves(r) ==
    /\ tasks' \in [Run -> Row] /\ files' \in [Run -> Files] /\ pc' \in [Run -> PC]
    /\ todo' \in [Run -> Plan \cup {<<>>}] /\ code' \in [Run -> Code]
    /\ answer' \in [Run -> {"none", "confirmed", "declined"}]
    /\ plans' \subseteq Run /\ scope' \in BOOLEAN
    /\ faults' \in Nat /\ (faults' = 0 => faults = 0)
    /\ \A s \in Run \ {r} : Apart(s)
    /\ UNCHANGED <<sessions, stale, reaping, up>>

\* Such a step keeps the invariant if it keeps the permits and what concerns r.
LEMMA LocalStep ==
    ASSUME ApprovalInv, NEW r \in Run, Moves(r),
           PermitsBalanced', permits' \in 0 .. MaxConcurrency, RunGood(r)'
    PROVE  ApprovalInv'
<1>1. SessionsDistinct' /\ \A s \in Run : Held(s)' = Held(s)
  BY StoreStays DEF ApprovalInv, Moves
<1>2. ASSUME NEW s \in Run PROVE RunGood(s)'
  <2>1. CASE s = r
    BY <2>1
  <2>2. CASE s # r
    BY <2>2, <1>1, <1>2, ApartStaysGood DEF ApprovalInv, Moves
  <2> QED
    BY <2>1, <2>2
<1>3. TypeOK'
  BY DEF ApprovalInv, TypeOK, Moves
<1> QED
  BY <1>1, <1>2, <1>3 DEF ApprovalInv

\* What a call of the ledger does to the rows and to its thread.
LEMMA LedgerCallMoves ==
    ASSUME TypeOK, NEW r \in Run, NEW allowed, NEW row \in Row, NEW q \in PC,
           LedgerCall(r, allowed, row, q)
    PROVE  /\ tasks' \in [Run -> Row] /\ pc' \in [Run -> PC]
           /\ \A s \in Run \ {r} : tasks'[s] = tasks[s] /\ pc'[s] = pc[s]
           /\ \/ /\ tasks[r].state \in allowed /\ tasks'[r] = row
                 /\ pc' = [pc EXCEPT ![r] = q] /\ pc'[r] = q
              \/ /\ tasks[r].state \notin allowed /\ tasks'[r] = tasks[r]
                 /\ pc' = [pc EXCEPT ![r] = "raised"] /\ pc'[r] = "raised"
<1>1. tasks \in [Run -> Row] /\ pc \in [Run -> PC] /\ "raised" \in PC
  BY DEF TypeOK, PC
<1>2. CASE tasks[r].state \in allowed
  <2>1. tasks' = [tasks EXCEPT ![r] = row] /\ pc' = [pc EXCEPT ![r] = q]
    BY <1>2 DEF LedgerCall, Write, Goto
  <2> QED
    BY <1>1, <1>2, <2>1
<1>3. CASE tasks[r].state \notin allowed
  <2>1. tasks' = tasks /\ pc' = [pc EXCEPT ![r] = "raised"]
    BY <1>3 DEF LedgerCall, Goto
  <2> QED
    BY <1>1, <1>3, <2>1
<1> QED
  BY <1>2, <1>3

\* The steps that are left when a search is the next one.
LEMMA SearchSteps ==
    ASSUME NEW steps \in Plan
    PROVE  /\ Head(steps) = "search" => steps \in {<<"search">>, <<"search", "copy">>}
           /\ Head(steps) = "search" => Tail(steps) \in {<<>>, <<"copy">>}
<1>1. Head(<<"copy">>) = "copy" /\ Tail(<<"search">>) = <<>>
  OBVIOUS
<1>2. Tail(<<"search", "copy">>) = <<"copy">>
  OBVIOUS
<1> QED
  BY <1>1, <1>2 DEF Plan

\* A ledger call of a thread without a permit, which may also forget its plan.
LEMMA LedgerStep ==
    ASSUME ApprovalInv, NEW r \in Run, NEW allowed, NEW row \in Row, NEW q \in PC,
           LedgerCall(r, allowed, row, q), pc[r] \notin Holding, q \notin Holding,
           UNCHANGED <<files, up, todo, code, answer, store, permits, scope, faults>>,
           plans' \in {plans, plans \ {r}}
    PROVE  /\ Moves(r) /\ PermitsBalanced' /\ permits' \in 0 .. MaxConcurrency
           /\ \/ tasks[r].state \in allowed /\ tasks'[r] = row /\ pc'[r] = q
              \/ tasks[r].state \notin allowed /\ tasks'[r] = tasks[r] /\ pc'[r] = "raised"
<1>1. /\ tasks' \in [Run -> Row] /\ pc' \in [Run -> PC]
      /\ \A s \in Run \ {r} : tasks'[s] = tasks[s] /\ pc'[s] = pc[s]
      /\ \/ /\ tasks[r].state \in allowed /\ tasks'[r] = row
            /\ pc' = [pc EXCEPT ![r] = q] /\ pc'[r] = q
         \/ /\ tasks[r].state \notin allowed /\ tasks'[r] = tasks[r]
            /\ pc' = [pc EXCEPT ![r] = "raised"] /\ pc'[r] = "raised"
  BY LedgerCallMoves DEF ApprovalInv
<1>2. Moves(r)
  BY <1>1 DEF Moves, Apart, ApprovalInv, TypeOK, store
<1>3. PICK p \in PC \ Holding : pc' = [pc EXCEPT ![r] = p]
  BY <1>1 DEF PC, Holding
<1>4. PermitsBalanced' /\ permits' \in 0 .. MaxConcurrency
  BY <1>3, PermitsMove DEF ApprovalInv
<1> QED
  BY <1>1, <1>2, <1>4

\* start()
LEMMA LedgerStartKeeps ==
    ASSUME ApprovalInv, NEW r \in Run, LedgerStart(r)
    PROVE  ApprovalInv'
<1> DEFINE row == Transition(tasks[r], "RUNNING")
<1>1. row \in Row /\ row.state = "RUNNING"
  <2>1. tasks[r] \in Row /\ "RUNNING" \in State
    BY DEF ApprovalInv, TypeOK, State, Active, Terminal
  <2> QED
    BY <2>1, RowsOfCalls
<1>2. /\ LedgerCall(r, {"PLANNED"}, row, "loop")
      /\ UNCHANGED <<files, up, todo, code, answer, store, permits, scope, faults>>
      /\ plans' \in {plans, plans \ {r}} /\ pc[r] = "start"
  BY DEF LedgerStart, At, OnlyLedger, copier
<1> HIDE DEF row
<1>3. /\ Moves(r) /\ PermitsBalanced' /\ permits' \in 0 .. MaxConcurrency
      /\ \/ tasks[r].state \in {"PLANNED"} /\ tasks'[r] = row /\ pc'[r] = "loop"
         \/ tasks[r].state \notin {"PLANNED"} /\ tasks'[r] = tasks[r] /\ pc'[r] = "raised"
  BY <1>1, <1>2, LedgerStep DEF PC, Holding
<1>4. RunGood(r)'
  <2>1. Held(r)' = Held(r)
    BY <1>2, StoreStays DEF ApprovalInv, store
  <2> QED
    BY <1>1, <1>2, <1>3, <2>1 DEF ApprovalInv, LedgerStart, At, store, RunGood,
     PlanRuns, SessionPlaced, FilesPlaced, EndPlaced, AskWaits, OutcomeOf, OwnedBy,
     Asking, Stored, Unanswered, Untouched, Active, Terminal
<1> QED
  BY <1>3, <1>4, LocalStep

\* await_approval()
LEMMA AwaitingApprovalKeeps ==
    ASSUME ApprovalInv, NEW r \in Run, AwaitingApproval(r)
    PROVE  ApprovalInv'
<1> DEFINE row == Transition(tasks[r], "AWAITING_APPROVAL")
<1>1. row \in Row /\ row.state = "AWAITING_APPROVAL"
  <2>1. tasks[r] \in Row /\ "AWAITING_APPROVAL" \in State
    BY DEF ApprovalInv, TypeOK, State, Active, Terminal
  <2> QED
    BY <2>1, RowsOfCalls
<1>2. /\ LedgerCall(r, {"RUNNING"}, row, "parked")
      /\ UNCHANGED <<files, up, todo, code, answer, store, permits, scope, faults>>
      /\ plans' \in {plans, plans \ {r}} /\ pc[r] = "await"
  BY DEF AwaitingApproval, At, OnlyLedger, copier
<1> HIDE DEF row
<1>3. /\ Moves(r) /\ PermitsBalanced' /\ permits' \in 0 .. MaxConcurrency
      /\ \/ tasks[r].state \in {"RUNNING"} /\ tasks'[r] = row /\ pc'[r] = "parked"
         \/ tasks[r].state \notin {"RUNNING"} /\ tasks'[r] = tasks[r] /\ pc'[r] = "raised"
  BY <1>1, <1>2, LedgerStep DEF PC, Holding
<1>4. RunGood(r)'
  <2>1. Held(r)' = Held(r)
    BY <1>2, StoreStays DEF ApprovalInv, store
  <2> QED
    BY <1>1, <1>2, <1>3, <2>1 DEF ApprovalInv, AwaitingApproval, At, store, RunGood,
     PlanRuns, SessionPlaced, FilesPlaced, EndPlaced, AskWaits, OutcomeOf, OwnedBy,
     Asking, Stored, Unanswered, Untouched, Active, Terminal
<1> QED
  BY <1>3, <1>4, LocalStep

\* complete()
LEMMA CompleteKeeps ==
    ASSUME ApprovalInv, NEW r \in Run, Complete(r)
    PROVE  ApprovalInv'
<1> DEFINE row == Finish(tasks[r], CompletionTarget(tasks[r]))
<1>1. row \in Row /\ row.state \in {"COMPLETED", "COMPLETED_WITH_SKIPS"}
  <2>1. tasks[r] \in Row /\ "COMPLETED" \in State /\ "COMPLETED_WITH_SKIPS" \in State
    BY DEF ApprovalInv, TypeOK, State, Active, Terminal
  <2> QED
    BY <2>1, RowsOfCalls
<1>2. /\ LedgerCall(r, {"RUNNING"}, row, "returned")
      /\ UNCHANGED <<files, up, todo, code, answer, store, permits, scope, faults>>
      /\ plans' \in {plans, plans \ {r}} /\ pc[r] = "complete"
  BY DEF Complete, At, OnlyLedger, copier
<1> HIDE DEF row
<1>3. /\ Moves(r) /\ PermitsBalanced' /\ permits' \in 0 .. MaxConcurrency
      /\ \/ tasks[r].state \in {"RUNNING"} /\ tasks'[r] = row /\ pc'[r] = "returned"
         \/ tasks[r].state \notin {"RUNNING"} /\ tasks'[r] = tasks[r] /\ pc'[r] = "raised"
  BY <1>1, <1>2, LedgerStep DEF PC, Holding
<1>4. RunGood(r)'
  <2>1. Held(r)' = Held(r)
    BY <1>2, StoreStays DEF ApprovalInv, store
  <2> QED
    BY <1>1, <1>2, <1>3, <2>1 DEF ApprovalInv, Complete, At, store, RunGood,
     PlanRuns, SessionPlaced, FilesPlaced, EndPlaced, AskWaits, OutcomeOf, OwnedBy,
     Asking, Stored, Unanswered, Untouched, Active, Terminal
<1> QED
  BY <1>3, <1>4, LocalStep

\* fail(), of a run that has returned a failure
LEMMA FailureKeeps ==
    ASSUME ApprovalInv, NEW r \in Run, Failure(r)
    PROVE  ApprovalInv'
<1> DEFINE row == Finish(tasks[r], "FAILED")
<1>1. row \in Row /\ row.state = "FAILED"
  <2>1. tasks[r] \in Row /\ "FAILED" \in State
    BY DEF ApprovalInv, TypeOK, State, Active, Terminal
  <2> QED
    BY <2>1, RowsOfCalls
<1>2. /\ LedgerCall(r, {"PLANNED"} \cup Active, row, "returned")
      /\ UNCHANGED <<files, up, todo, code, answer, store, permits, scope, faults>>
      /\ plans' \in {plans, plans \ {r}} /\ pc[r] = "failed"
  BY DEF Failure, At, OnlyLedger, copier
<1> HIDE DEF row
<1>3. /\ Moves(r) /\ PermitsBalanced' /\ permits' \in 0 .. MaxConcurrency
      /\ \/ tasks[r].state \in {"PLANNED"} \cup Active /\ tasks'[r] = row /\ pc'[r] = "returned"
         \/ tasks[r].state \notin {"PLANNED"} \cup Active /\ tasks'[r] = tasks[r] /\ pc'[r] = "raised"
  BY <1>1, <1>2, LedgerStep DEF PC, Holding
<1>4. RunGood(r)'
  <2>1. Held(r)' = Held(r)
    BY <1>2, StoreStays DEF ApprovalInv, store
  <2> QED
    BY <1>1, <1>2, <1>3, <2>1 DEF ApprovalInv, Failure, At, store, RunGood,
     PlanRuns, SessionPlaced, FilesPlaced, EndPlaced, AskWaits, OutcomeOf, OwnedBy,
     Asking, Stored, Unanswered, Untouched, Active, Terminal
<1> QED
  BY <1>3, <1>4, LocalStep

\* cancel(), of a run that has seen its cancel request
LEMMA CancelledKeeps ==
    ASSUME ApprovalInv, NEW r \in Run, Cancelled(r)
    PROVE  ApprovalInv'
<1> DEFINE row == Finish(tasks[r], "CANCELLED")
<1>1. row \in Row /\ row.state = "CANCELLED"
  <2>1. tasks[r] \in Row /\ "CANCELLED" \in State
    BY DEF ApprovalInv, TypeOK, State, Active, Terminal
  <2> QED
    BY <2>1, RowsOfCalls
<1>2. /\ LedgerCall(r, Active, row, "returned")
      /\ UNCHANGED <<files, up, todo, code, answer, store, permits, scope, faults>>
      /\ plans' \in {plans, plans \ {r}} /\ pc[r] = "cancelled"
  BY DEF Cancelled, At, OnlyLedger, copier
<1> HIDE DEF row
<1>3. /\ Moves(r) /\ PermitsBalanced' /\ permits' \in 0 .. MaxConcurrency
      /\ \/ tasks[r].state \in Active /\ tasks'[r] = row /\ pc'[r] = "returned"
         \/ tasks[r].state \notin Active /\ tasks'[r] = tasks[r] /\ pc'[r] = "raised"
  BY <1>1, <1>2, LedgerStep DEF PC, Holding
<1>4. RunGood(r)'
  <2>1. Held(r)' = Held(r)
    BY <1>2, StoreStays DEF ApprovalInv, store
  <2> QED
    BY <1>1, <1>2, <1>3, <2>1 DEF ApprovalInv, Cancelled, At, store, RunGood,
     PlanRuns, SessionPlaced, FilesPlaced, EndPlaced, AskWaits, OutcomeOf, OwnedBy,
     Asking, Stored, Unanswered, Untouched, Active, Terminal
<1> QED
  BY <1>3, <1>4, LocalStep

\* cancel(), of a declined approval
LEMMA DeclinedKeeps ==
    ASSUME ApprovalInv, NEW r \in Run, Declined(r)
    PROVE  ApprovalInv'
<1> DEFINE row == Finish(tasks[r], "CANCELLED")
<1>1. row \in Row /\ row.state = "CANCELLED"
  <2>1. tasks[r] \in Row /\ "CANCELLED" \in State
    BY DEF ApprovalInv, TypeOK, State, Active, Terminal
  <2> QED
    BY <2>1, RowsOfCalls
<1>2. /\ LedgerCall(r, Active, row, "returned")
      /\ UNCHANGED <<files, up, todo, code, answer, store, permits, scope, faults>>
      /\ plans' \in {plans, plans \ {r}} /\ pc[r] = "declined"
  BY DEF Declined, At, store
<1> HIDE DEF row
<1>3. /\ Moves(r) /\ PermitsBalanced' /\ permits' \in 0 .. MaxConcurrency
      /\ \/ tasks[r].state \in Active /\ tasks'[r] = row /\ pc'[r] = "returned"
         \/ tasks[r].state \notin Active /\ tasks'[r] = tasks[r] /\ pc'[r] = "raised"
  BY <1>1, <1>2, LedgerStep DEF PC, Holding
<1>4. RunGood(r)'
  <2>1. Held(r)' = Held(r)
    BY <1>2, StoreStays DEF ApprovalInv, store
  <2> QED
    BY <1>1, <1>2, <1>3, <2>1 DEF ApprovalInv, Declined, At, store, RunGood,
     PlanRuns, SessionPlaced, FilesPlaced, EndPlaced, AskWaits, OutcomeOf, OwnedBy,
     Asking, Stored, Unanswered, Untouched, Active, Terminal
<1> QED
  BY <1>3, <1>4, LocalStep

\* fail(), of a confirmed run that has failed
LEMMA UndoKeeps ==
    ASSUME ApprovalInv, NEW r \in Run, Undo(r)
    PROVE  ApprovalInv'
<1> DEFINE row == Finish(tasks[r], "FAILED")
<1>1. row \in Row /\ row.state = "FAILED"
  <2>1. tasks[r] \in Row /\ "FAILED" \in State
    BY DEF ApprovalInv, TypeOK, State, Active, Terminal
  <2> QED
    BY <2>1, RowsOfCalls
<1>2. /\ LedgerCall(r, {"PLANNED"} \cup Active, row, "returned")
      /\ UNCHANGED <<files, up, todo, code, answer, store, permits, scope, faults>>
      /\ plans' \in {plans, plans \ {r}} /\ pc[r] = "undo"
  BY DEF Undo, At, store
<1> HIDE DEF row
<1>3. /\ Moves(r) /\ PermitsBalanced' /\ permits' \in 0 .. MaxConcurrency
      /\ \/ tasks[r].state \in {"PLANNED"} \cup Active /\ tasks'[r] = row /\ pc'[r] = "returned"
         \/ tasks[r].state \notin {"PLANNED"} \cup Active /\ tasks'[r] = tasks[r] /\ pc'[r] = "raised"
  BY <1>1, <1>2, LedgerStep DEF PC, Holding
<1>4. RunGood(r)'
  <2>1. Held(r)' = Held(r)
    BY <1>2, StoreStays DEF ApprovalInv, store
  <2> QED
    BY <1>1, <1>2, <1>3, <2>1 DEF ApprovalInv, Undo, At, store, RunGood,
     PlanRuns, SessionPlaced, FilesPlaced, EndPlaced, AskWaits, OutcomeOf, OwnedBy,
     Asking, Stored, Unanswered, Untouched, Active, Terminal
<1> QED
  BY <1>3, <1>4, LocalStep

\* The top of the loop over the steps.
LEMMA NextStepKeeps ==
    ASSUME ApprovalInv, NEW r \in Run, NextStep(r)
    PROVE  ApprovalInv'
<1>1. /\ Moves(r) /\ pc[r] = "loop" /\ reaping[r] = <<>>
      /\ UNCHANGED <<tasks, files, todo, answer, plans, faults>>
      /\ \/ pc'[r] = "cancelled" /\ code'[r] = "user_cancelled"
         \/ pc'[r] = "search" /\ Head(todo[r]) = "search" /\ code'[r] = code[r]
         \/ pc'[r] = "prepare" /\ code'[r] = code[r]
  BY SearchSteps DEF NextStep, ApprovalInv, TypeOK, Moves, Apart, At, Goto, GotoWith, Write, PC, Code, Files,
     store, copier, memory, disk
<1>2. PermitsBalanced' /\ permits' \in 0 .. MaxConcurrency
  <2>1. PICK q \in {"cancelled", "search", "prepare"} :
           /\ pc' = [pc EXCEPT ![r] = q]
           /\ permits' = permits
    BY DEF NextStep, Goto, GotoWith, copier
  <2>2. q \in PC
    BY DEF PC
  <2> QED
    BY <1>1, <2>1, <2>2, PermitsMove DEF ApprovalInv, Holding
<1>3. RunGood(r)'
  <2>1. Held(r)' = Held(r)
    BY <1>1, StoreStays DEF ApprovalInv, Moves
  <2> QED
    BY <1>1, <2>1, SearchSteps DEF ApprovalInv, Moves, TypeOK, RunGood,
     PlanRuns, SessionPlaced, FilesPlaced, EndPlaced, AskWaits, OutcomeOf, OwnedBy,
     Asking, Stored, Unanswered, Untouched, Active, Terminal
<1> QED
  BY <1>1, <1>2, <1>3, LocalStep

\* A search step, or its failure.
LEMMA SearchKeeps ==
    ASSUME ApprovalInv, NEW r \in Run, Search(r)
    PROVE  ApprovalInv'
<1>0. todo[r] \in Plan /\ Tail(todo[r]) \in Plan \cup {<<>>}
  <2>1. todo[r] \in {<<"search">>, <<"search", "copy">>}
    BY DEF ApprovalInv, RunGood, PlanRuns, Search, At
  <2>2. Tail(<<"search">>) = <<>> /\ Tail(<<"search", "copy">>) = <<"copy">>
    OBVIOUS
  <2> QED
    BY <2>1, <2>2 DEF Plan
<1>1. /\ Moves(r) /\ pc[r] = "search" /\ reaping[r] = <<>>
      /\ UNCHANGED <<tasks, files, answer, plans, faults>>
      /\ \/ pc'[r] = "record" /\ todo'[r] = Tail(todo[r]) /\ code'[r] = code[r]
         \/ pc'[r] = "failed" /\ code'[r] = "other" /\ todo'[r] = todo[r]
  BY <1>0 DEF Search, ApprovalInv, TypeOK, Moves, Apart, At, Goto, GotoWith, Write, PC, Code, Files,
     store, copier, memory, disk
<1>2. PermitsBalanced' /\ permits' \in 0 .. MaxConcurrency
  <2>1. PICK q \in {"record", "failed"} :
           /\ pc' = [pc EXCEPT ![r] = q]
           /\ permits' = permits
    BY DEF Search, Goto, GotoWith, copier
  <2>2. q \in PC
    BY DEF PC
  <2> QED
    BY <1>1, <2>1, <2>2, PermitsMove DEF ApprovalInv, Holding
<1>3. RunGood(r)'
  <2>1. Held(r)' = Held(r)
    BY <1>1, StoreStays DEF ApprovalInv, Moves
  <2> QED
    BY <1>1, <2>1 DEF ApprovalInv, Moves, TypeOK, RunGood,
     PlanRuns, SessionPlaced, FilesPlaced, EndPlaced, AskWaits, OutcomeOf, OwnedBy,
     Asking, Stored, Unanswered, Untouched, Active, Terminal
<1> QED
  BY <1>1, <1>2, <1>3, LocalStep

\* The permit and the scope check in front of the preparation.
LEMMA PrepareKeeps ==
    ASSUME ApprovalInv, NEW r \in Run, Prepare(r)
    PROVE  ApprovalInv'
<1>1. /\ Moves(r) /\ pc[r] = "prepare" /\ reaping[r] = <<>>
      /\ UNCHANGED <<tasks, files, todo, answer, plans, faults>>
      /\ \/ pc'[r] = "failed" /\ code'[r] \in {"policy", "busy"}
         \/ pc'[r] = "preparing" /\ code'[r] = code[r]
  BY DEF Prepare, ApprovalInv, TypeOK, Moves, Apart, At, Goto, GotoWith, Write, PC, Code, Files,
     store, copier, memory, disk, Dispatch
<1>2. PermitsBalanced' /\ permits' \in 0 .. MaxConcurrency
  <2>1. PICK q \in {"failed", "preparing"} :
           /\ pc' = [pc EXCEPT ![r] = q]
           /\ \/ q = "failed" /\ permits' = permits
              \/ q = "preparing" /\ permits # 0 /\ permits' = permits - 1
    BY DEF Prepare, Goto, GotoWith, copier, Dispatch
  <2>2. q \in PC
    BY DEF PC
  <2> QED
    BY <1>1, <2>1, <2>2, PermitsMove DEF ApprovalInv, Holding
<1>3. RunGood(r)'
  <2>1. Held(r)' = Held(r)
    BY <1>1, StoreStays DEF ApprovalInv, Moves
  <2> QED
    BY <1>1, <2>1 DEF ApprovalInv, Moves, TypeOK, RunGood,
     PlanRuns, SessionPlaced, FilesPlaced, EndPlaced, AskWaits, OutcomeOf, OwnedBy,
     Asking, Stored, Unanswered, Untouched, Active, Terminal
<1> QED
  BY <1>1, <1>2, <1>3, LocalStep

\* The preparation returns or raises.
LEMMA CreateCopyPlanKeeps ==
    ASSUME ApprovalInv, NEW r \in Run, CreateCopyPlan(r)
    PROVE  ApprovalInv'
<1>1. /\ Moves(r) /\ pc[r] = "preparing" /\ reaping[r] = <<>>
      /\ UNCHANGED <<tasks, files, todo, answer, faults>>
      /\ \/ pc'[r] = "put" /\ code'[r] = code[r]
         \/ pc'[r] = "failed" /\ code'[r] = "other" /\ plans' = plans
         \/ pc'[r] = "cancelled" /\ code'[r] = "user_cancelled" /\ plans' = plans
  BY DEF CreateCopyPlan, ApprovalInv, TypeOK, Moves, Apart, At, Goto, GotoWith, Write, PC, Code, Files,
     store, copier, memory, disk
<1>2. PermitsBalanced' /\ permits' \in 0 .. MaxConcurrency
  <2>1. PICK q \in {"put", "failed", "cancelled"} :
           /\ pc' = [pc EXCEPT ![r] = q]
           /\ permits' = permits + 1
    BY DEF CreateCopyPlan, Goto, GotoWith, copier
  <2>2. q \in PC
    BY DEF PC
  <2> QED
    BY <1>1, <2>1, <2>2, PermitsMove DEF ApprovalInv, Holding
<1>3. RunGood(r)'
  <2>1. Held(r)' = Held(r)
    BY <1>1, StoreStays DEF ApprovalInv, Moves
  <2> QED
    BY <1>1, <2>1 DEF ApprovalInv, Moves, TypeOK, RunGood,
     PlanRuns, SessionPlaced, FilesPlaced, EndPlaced, AskWaits, OutcomeOf, OwnedBy,
     Asking, Stored, Unanswered, Untouched, Active, Terminal
<1> QED
  BY <1>1, <1>2, <1>3, LocalStep

\* The ledger takes the approval, or refuses it.
LEMMA ApprovalReceivedKeeps ==
    ASSUME ApprovalInv, NEW r \in Run, ApprovalReceived(r)
    PROVE  ApprovalInv'
<1>0. LET row == Transition(tasks[r], "RUNNING") IN row \in Row /\ row.state = "RUNNING"
  <2>1. tasks[r] \in Row /\ "RUNNING" \in State
    BY DEF ApprovalInv, TypeOK, State, Active
  <2> QED
    BY <2>1, RowsOfCalls
<1>1. /\ Moves(r) /\ pc[r] = "approved" /\ reaping[r] = <<>>
      /\ UNCHANGED <<files, todo, answer, plans, faults>>
      /\ \/ tasks[r].state = "AWAITING_APPROVAL" /\ tasks'[r].state = "RUNNING"
            /\ pc'[r] = "commit" /\ code'[r] = code[r]
         \/ tasks[r].state # "AWAITING_APPROVAL" /\ tasks'[r] = tasks[r]
            /\ pc'[r] = "undo" /\ code'[r] = "other"
  BY <1>0 DEF ApprovalReceived, ApprovalInv, TypeOK, Moves, Apart, At, Goto, GotoWith, Write, PC, Code, Files,
     store, copier, memory, disk
<1>2. PermitsBalanced' /\ permits' \in 0 .. MaxConcurrency
  <2>1. PICK q \in {"commit", "undo"} :
           /\ pc' = [pc EXCEPT ![r] = q]
           /\ permits' = permits
    BY DEF ApprovalReceived, Goto, GotoWith, copier
  <2>2. q \in PC
    BY DEF PC
  <2> QED
    BY <1>1, <2>1, <2>2, PermitsMove DEF ApprovalInv, Holding
<1>3. RunGood(r)'
  <2>1. Held(r)' = Held(r)
    BY <1>1, StoreStays DEF ApprovalInv, Moves
  <2>2. CASE pc'[r] = "commit"
    BY <1>1, <2>1, <2>2 DEF ApprovalInv, Moves, TypeOK, RunGood,
     PlanRuns, SessionPlaced, FilesPlaced, EndPlaced, AskWaits, OutcomeOf, OwnedBy,
     Asking, Stored, Unanswered, Untouched, Active, Terminal
  <2>3. CASE pc'[r] = "undo"
    BY <1>1, <2>1, <2>3 DEF ApprovalInv, Moves, TypeOK, RunGood,
     PlanRuns, SessionPlaced, FilesPlaced, EndPlaced, AskWaits, OutcomeOf, OwnedBy,
     Asking, Stored, Unanswered, Untouched, Active, Terminal
  <2> QED
    BY <1>1, <2>2, <2>3
<1> QED
  BY <1>1, <1>2, <1>3, LocalStep

\* The storage fails the approval.
LEMMA ApprovalLostKeeps ==
    ASSUME ApprovalInv, NEW r \in Run, ApprovalLost(r)
    PROVE  ApprovalInv'
<1>1. /\ Moves(r) /\ pc[r] = "approved" /\ reaping[r] = <<>>
      /\ UNCHANGED <<tasks, files, todo, answer, plans>>
      /\ faults' # 0 /\ pc'[r] = "undo" /\ code'[r] = "other"
  BY DEF ApprovalLost, ApprovalInv, TypeOK, Moves, Apart, At, Goto, GotoWith, Write, PC, Code, Files,
     store, copier, memory, disk
<1>2. PermitsBalanced' /\ permits' \in 0 .. MaxConcurrency
  <2>1. PICK q \in {"undo"} :
           /\ pc' = [pc EXCEPT ![r] = q]
           /\ permits' = permits
    BY DEF ApprovalLost, Goto, GotoWith, copier
  <2>2. q \in PC
    BY DEF PC
  <2> QED
    BY <1>1, <2>1, <2>2, PermitsMove DEF ApprovalInv, Holding
<1>3. RunGood(r)'
  <2>1. Held(r)' = Held(r)
    BY <1>1, StoreStays DEF ApprovalInv, Moves
  <2> QED
    BY <1>1, <2>1 DEF ApprovalInv, Moves, TypeOK, RunGood,
     PlanRuns, SessionPlaced, FilesPlaced, EndPlaced, AskWaits, OutcomeOf, OwnedBy,
     Asking, Stored, Unanswered, Untouched, Active, Terminal
<1> QED
  BY <1>1, <1>2, <1>3, LocalStep

\* The permit and the scope check in front of the copy.
LEMMA CommitKeeps ==
    ASSUME ApprovalInv, NEW r \in Run, Commit(r)
    PROVE  ApprovalInv'
<1>1. /\ Moves(r) /\ pc[r] = "commit" /\ reaping[r] = <<>>
      /\ UNCHANGED <<tasks, files, todo, answer, plans, faults>>
      /\ \/ pc'[r] = "undo" /\ code'[r] \in {"policy", "busy"}
         \/ pc'[r] = "committing" /\ code'[r] = code[r]
  BY DEF Commit, ApprovalInv, TypeOK, Moves, Apart, At, Goto, GotoWith, Write, PC, Code, Files,
     store, copier, memory, disk, Dispatch
<1>2. PermitsBalanced' /\ permits' \in 0 .. MaxConcurrency
  <2>1. PICK q \in {"undo", "committing"} :
           /\ pc' = [pc EXCEPT ![r] = q]
           /\ \/ q = "undo" /\ permits' = permits
              \/ q = "committing" /\ permits # 0 /\ permits' = permits - 1
    BY DEF Commit, Goto, GotoWith, copier, Dispatch
  <2>2. q \in PC
    BY DEF PC
  <2> QED
    BY <1>1, <2>1, <2>2, PermitsMove DEF ApprovalInv, Holding
<1>3. RunGood(r)'
  <2>1. Held(r)' = Held(r)
    BY <1>1, StoreStays DEF ApprovalInv, Moves
  <2> QED
    BY <1>1, <2>1 DEF ApprovalInv, Moves, TypeOK, RunGood,
     PlanRuns, SessionPlaced, FilesPlaced, EndPlaced, AskWaits, OutcomeOf, OwnedBy,
     Asking, Stored, Unanswered, Untouched, Active, Terminal
<1> QED
  BY <1>1, <1>2, <1>3, LocalStep

\* The commit handler takes the prepared plan.
LEMMA TakePlanKeeps ==
    ASSUME ApprovalInv, NEW r \in Run, TakePlan(r)
    PROVE  ApprovalInv'
<1>1. /\ Moves(r) /\ pc[r] = "committing" /\ reaping[r] = <<>>
      /\ UNCHANGED <<tasks, files, todo, answer, faults>>
      /\ \/ pc'[r] = "copying" /\ code'[r] = code[r] /\ r \notin plans'
         \/ pc'[r] = "undo" /\ code'[r] = "other" /\ plans' = plans
  BY DEF TakePlan, ApprovalInv, TypeOK, Moves, Apart, At, Goto, GotoWith, Write, PC, Code, Files,
     store, copier, memory, disk
<1>2. PermitsBalanced' /\ permits' \in 0 .. MaxConcurrency
  <2>1. PICK q \in {"copying", "undo"} :
           /\ pc' = [pc EXCEPT ![r] = q]
           /\ \/ q = "copying" /\ permits' = permits
              \/ q = "undo" /\ permits' = permits + 1
    BY DEF TakePlan, Goto, GotoWith, copier
  <2>2. q \in PC
    BY DEF PC
  <2> QED
    BY <1>1, <2>1, <2>2, PermitsMove DEF ApprovalInv, Holding
<1>3. RunGood(r)'
  <2>1. Held(r)' = Held(r)
    BY <1>1, StoreStays DEF ApprovalInv, Moves
  <2> QED
    BY <1>1, <2>1 DEF ApprovalInv, Moves, TypeOK, RunGood,
     PlanRuns, SessionPlaced, FilesPlaced, EndPlaced, AskWaits, OutcomeOf, OwnedBy,
     Asking, Stored, Unanswered, Untouched, Active, Terminal
<1> QED
  BY <1>1, <1>2, <1>3, LocalStep

\* Every file is in place.
LEMMA CopySucceedsKeeps ==
    ASSUME ApprovalInv, NEW r \in Run, CopySucceeds(r)
    PROVE  ApprovalInv'
<1>0. faults' \in Nat /\ faults' \in {faults, faults + 1} /\ faults + 1 # 0 /\ faults \in Nat
  <2>1. faults' \in {faults, faults + 1}
    BY DEF CopySucceeds
  <2> QED
    BY <2>1 DEF ApprovalInv, TypeOK
<1>1. /\ Moves(r) /\ pc[r] = "copying" /\ reaping[r] = <<>>
      /\ UNCHANGED <<tasks, todo, answer, plans>>
      /\ files'[r] = "all"
      /\ \/ pc'[r] = "copied" /\ code'[r] = code[r] /\ faults' = faults
         \/ pc'[r] = "undo" /\ code'[r] = "other" /\ faults' # 0
  BY <1>0 DEF CopySucceeds, ApprovalInv, TypeOK, Moves, Apart, At, Goto, GotoWith, Write, PC, Code, Files,
     store, copier, memory, disk
<1>2. PermitsBalanced' /\ permits' \in 0 .. MaxConcurrency
  <2>1. PICK q \in {"copied", "undo"} :
           /\ pc' = [pc EXCEPT ![r] = q]
           /\ permits' = permits + 1
    BY DEF CopySucceeds, Goto, GotoWith, copier
  <2>2. q \in PC
    BY DEF PC
  <2> QED
    BY <1>1, <2>1, <2>2, PermitsMove DEF ApprovalInv, Holding
<1>3. RunGood(r)'
  <2>1. Held(r)' = Held(r)
    BY <1>1, StoreStays DEF ApprovalInv, Moves
  <2> QED
    BY <1>1, <2>1 DEF ApprovalInv, Moves, TypeOK, RunGood,
     PlanRuns, SessionPlaced, FilesPlaced, EndPlaced, AskWaits, OutcomeOf, OwnedBy,
     Asking, Stored, Unanswered, Untouched, Active, Terminal
<1> QED
  BY <1>1, <1>2, <1>3, LocalStep

\* The copy stops and rolls back.
LEMMA CopyRaisesKeeps ==
    ASSUME ApprovalInv, NEW r \in Run, CopyRaises(r)
    PROVE  ApprovalInv'
<1>1. /\ Moves(r) /\ pc[r] = "copying" /\ reaping[r] = <<>>
      /\ UNCHANGED <<tasks, todo, answer, plans, faults>>
      /\ pc'[r] = "undo"
      /\ \/ files'[r] = "none" /\ code'[r] \in {"other", "user_cancelled"}
         \/ files'[r] = "some" /\ code'[r] = "rollback_incomplete"
  BY DEF CopyRaises, ApprovalInv, TypeOK, Moves, Apart, At, Goto, GotoWith, Write, PC, Code, Files,
     store, copier, memory, disk
<1>2. PermitsBalanced' /\ permits' \in 0 .. MaxConcurrency
  <2>1. PICK q \in {"undo"} :
           /\ pc' = [pc EXCEPT ![r] = q]
           /\ permits' = permits + 1
    BY DEF CopyRaises, Goto, GotoWith, copier
  <2>2. q \in PC
    BY DEF PC
  <2> QED
    BY <1>1, <2>1, <2>2, PermitsMove DEF ApprovalInv, Holding
<1>3. RunGood(r)'
  <2>1. Held(r)' = Held(r)
    BY <1>1, StoreStays DEF ApprovalInv, Moves
  <2> QED
    BY <1>1, <2>1 DEF ApprovalInv, Moves, TypeOK, RunGood,
     PlanRuns, SessionPlaced, FilesPlaced, EndPlaced, AskWaits, OutcomeOf, OwnedBy,
     Asking, Stored, Unanswered, Untouched, Active, Terminal
<1> QED
  BY <1>1, <1>2, <1>3, LocalStep

\* _ledger_search_results
LEMMA RecordResultsKeeps ==
    ASSUME ApprovalInv, NEW r \in Run, RecordResults(r)
    PROVE  ApprovalInv'
<1>1. /\ tasks[r] \in Row
      /\ WithReference(tasks[r]) \in Row /\ WithReference(tasks[r]).state = tasks[r].state
      /\ WithItem(tasks[r], "SUCCEEDED") \in Row
      /\ WithItem(tasks[r], "SUCCEEDED").state = tasks[r].state
  <2>1. tasks[r] \in Row
    BY DEF ApprovalInv, TypeOK
  <2> QED
    BY <2>1, RowsOfCalls
<1>2. /\ UNCHANGED <<files, up, todo, code, answer, store, plans, permits, scope, faults>>
      /\ pc[r] = "record"
  BY DEF RecordResults, At, OnlyLedger, copier
<1>3. Held(r)' = Held(r)
  BY <1>2, StoreStays DEF ApprovalInv, store
<1>4. ASSUME NEW row \in {WithReference(tasks[r]), WithItem(tasks[r], "SUCCEEDED")},
             NEW allowed, LedgerCall(r, allowed, row, "record")
      PROVE  ApprovalInv'
  <2>1. row \in Row /\ row.state = tasks[r].state
    BY <1>1
  <2>2. /\ Moves(r) /\ PermitsBalanced' /\ permits' \in 0 .. MaxConcurrency
        /\ tasks'[r].state = tasks[r].state /\ pc'[r] \in {"record", "raised"}
    BY <1>2, <1>4, <2>1, LedgerStep DEF PC, Holding
  <2>3. RunGood(r)'
    BY <1>2, <1>3, <2>2 DEF ApprovalInv, store, RunGood,
       PlanRuns, SessionPlaced, FilesPlaced, EndPlaced, AskWaits, OutcomeOf, OwnedBy,
     Asking, Stored, Unanswered, Untouched, Active, Terminal
  <2> QED
    BY <2>2, <2>3, LocalStep
<1>5. ASSUME NEW q \in {"complete", "loop"}, Goto(r, q), UNCHANGED tasks,
             q = "complete" <=> todo[r] = <<>>
      PROVE  ApprovalInv'
  <2>1. /\ Moves(r) /\ pc'[r] = q
    BY <1>2, <1>5 DEF ApprovalInv, TypeOK, Moves, Apart, Goto, PC, store
  <2>2. PermitsBalanced' /\ permits' \in 0 .. MaxConcurrency
    <3>1. q \in PC /\ q \notin Holding /\ pc[r] \notin Holding
      BY <1>2 DEF PC, Holding
    <3> QED
      BY <1>2, <1>5, <3>1, PermitsMove DEF ApprovalInv, Goto
  <2>3. RunGood(r)'
    <3>1. q = "loop" => todo[r] \in Plan
      BY <1>5 DEF ApprovalInv, TypeOK
    <3> QED
      BY <1>2, <1>3, <1>5, <2>1, <3>1 DEF ApprovalInv, store, RunGood,
       PlanRuns, SessionPlaced, FilesPlaced, EndPlaced, AskWaits, OutcomeOf, OwnedBy,
     Asking, Stored, Unanswered, Untouched, Active, Terminal
  <2> QED
    BY <2>1, <2>2, <2>3, LocalStep
<1> QED
  BY <1>4, <1>5 DEF RecordResults

\* The items of a copy that has ended.
LEMMA RecordCopiedKeeps ==
    ASSUME ApprovalInv, NEW r \in Run, RecordCopied(r)
    PROVE  ApprovalInv'
<1> DEFINE row == WithItem(tasks[r], "SUCCEEDED")
<1>1. row \in Row /\ row.state = tasks[r].state
  <2>1. tasks[r] \in Row
    BY DEF ApprovalInv, TypeOK
  <2> QED
    BY <2>1, RowsOfCalls
<1>2. /\ UNCHANGED <<files, up, todo, code, answer, store, plans, permits, scope, faults>>
      /\ pc[r] = "copied"
  BY DEF RecordCopied, At, OnlyLedger, copier
<1>3. Held(r)' = Held(r)
  BY <1>2, StoreStays DEF ApprovalInv, store
<1>4. CASE LedgerCall(r, {"RUNNING"}, row, "copied")
  <2> HIDE DEF row
  <2>1. /\ Moves(r) /\ PermitsBalanced' /\ permits' \in 0 .. MaxConcurrency
        /\ tasks'[r].state = tasks[r].state /\ pc'[r] \in {"copied", "raised"}
    BY <1>1, <1>2, <1>4, LedgerStep DEF PC, Holding
  <2>2. RunGood(r)'
    BY <1>2, <1>3, <2>1 DEF ApprovalInv, store, RunGood,
       PlanRuns, SessionPlaced, FilesPlaced, EndPlaced, AskWaits, OutcomeOf, OwnedBy,
     Asking, Stored, Unanswered, Untouched, Active, Terminal
  <2> QED
    BY <2>1, <2>2, LocalStep
<1>5. CASE Goto(r, "complete") /\ UNCHANGED tasks
  <2>1. Moves(r) /\ pc'[r] = "complete"
    BY <1>2, <1>5 DEF ApprovalInv, TypeOK, Moves, Apart, Goto, PC, store
  <2>2. PermitsBalanced' /\ permits' \in 0 .. MaxConcurrency
    <3>1. "complete" \in PC /\ "complete" \notin Holding /\ pc[r] \notin Holding
      BY <1>2 DEF PC, Holding
    <3> QED
      BY <1>2, <1>5, <3>1, PermitsMove DEF ApprovalInv, Goto
  <2>3. RunGood(r)'
    BY <1>2, <1>3, <1>5, <2>1 DEF ApprovalInv, store, RunGood,
       PlanRuns, SessionPlaced, FilesPlaced, EndPlaced, AskWaits, OutcomeOf, OwnedBy,
     Asking, Stored, Unanswered, Untouched, Active, Terminal
  <2> QED
    BY <2>1, <2>2, <2>3, LocalStep
<1> QED
  BY <1>4, <1>5 DEF RecordCopied

\* A run starts.
LEMMA ExecuteKeeps ==
    ASSUME ApprovalInv, NEW r \in Run, Execute(r)
    PROVE  ApprovalInv'
<1> DEFINE row == InsertedRow(NoTotal, FALSE)
<1>1. row \in Row /\ row.state = "PLANNED"
  BY FirstRows
<1>2. PICK steps \in Plan : todo' = [todo EXCEPT ![r] = steps]
  BY DEF Execute
<1>3. /\ tasks' = [tasks EXCEPT ![r] = row] /\ pc' = [pc EXCEPT ![r] = "start"]
      /\ up /\ pc[r] = "idle"
      /\ UNCHANGED <<files, up, code, answer, store, plans, permits, scope, faults>>
  BY DEF Execute, Write, Goto, copier
<1> HIDE DEF row
<1>4. /\ Moves(r) /\ pc'[r] = "start" /\ tasks'[r] = row /\ todo'[r] = steps
  BY <1>1, <1>2, <1>3 DEF ApprovalInv, TypeOK, Moves, Apart, PC, store
<1>5. PermitsBalanced' /\ permits' \in 0 .. MaxConcurrency
  <2>1. "start" \in PC /\ "start" \notin Holding /\ pc[r] \notin Holding
    BY <1>3 DEF PC, Holding
  <2> QED
    BY <1>3, <2>1, PermitsMove DEF ApprovalInv
<1>6. RunGood(r)'
  <2>1. Held(r)' = Held(r)
    BY <1>3, StoreStays DEF ApprovalInv, store
  <2> QED
    BY <1>1, <1>3, <1>4, <2>1 DEF ApprovalInv, store, RunGood,
       PlanRuns, SessionPlaced, FilesPlaced, EndPlaced, AskWaits, OutcomeOf, OwnedBy,
     Asking, Stored, Unanswered, Untouched, Active, Terminal
<1> QED
  BY <1>4, <1>5, <1>6, LocalStep

\* The first file of a copy.
LEMMA PublishKeeps ==
    ASSUME ApprovalInv, NEW r \in Run, Publish(r)
    PROVE  ApprovalInv'
<1>1. /\ files' = [files EXCEPT ![r] = "some"] /\ pc[r] = "copying"
      /\ UNCHANGED <<tasks, up, pc, todo, code, answer, store, plans, permits, scope, faults>>
  BY DEF Publish, At, memory, copier
<1>2. Moves(r) /\ files'[r] = "some"
  BY <1>1 DEF ApprovalInv, TypeOK, Moves, Apart, Files, store
<1>3. PermitsBalanced' /\ permits' \in 0 .. MaxConcurrency
  BY <1>1, PermitsStay DEF ApprovalInv, TypeOK
<1>4. RunGood(r)'
  <2>1. Held(r)' = Held(r)
    BY <1>1, StoreStays DEF ApprovalInv, store
  <2> QED
    BY <1>1, <1>2, <2>1 DEF ApprovalInv, store, RunGood,
       PlanRuns, SessionPlaced, FilesPlaced, EndPlaced, AskWaits, OutcomeOf, OwnedBy,
     Asking, Stored, Unanswered, Untouched, Active, Terminal
<1> QED
  BY <1>2, <1>3, <1>4, LocalStep

\* A cancel request.
LEMMA RequestCancelKeeps ==
    ASSUME ApprovalInv, NEW r \in Run, RequestCancel(r)
    PROVE  ApprovalInv'
<1> DEFINE row == WithCancelRequest(tasks[r])
<1>1. row \in Row /\ row.state = tasks[r].state
  <2>1. tasks[r] \in Row
    BY DEF ApprovalInv, TypeOK
  <2> QED
    BY <2>1, RowsOfCalls
<1>2. /\ tasks' = [tasks EXCEPT ![r] = row]
      /\ UNCHANGED <<files, up, pc, todo, code, answer, store, plans, permits, scope, faults>>
  BY DEF RequestCancel, Write, memory, copier
<1> HIDE DEF row
<1>3. Moves(r) /\ tasks'[r].state = tasks[r].state
  BY <1>1, <1>2 DEF ApprovalInv, TypeOK, Moves, Apart, store
<1>4. PermitsBalanced' /\ permits' \in 0 .. MaxConcurrency
  BY <1>2, PermitsStay DEF ApprovalInv, TypeOK
<1>5. RunGood(r)'
  <2>1. Held(r)' = Held(r)
    BY <1>2, StoreStays DEF ApprovalInv, store
  <2> QED
    BY <1>2, <1>3, <2>1 DEF ApprovalInv, store, RunGood,
       PlanRuns, SessionPlaced, FilesPlaced, EndPlaced, AskWaits, OutcomeOf, OwnedBy,
     Asking, Stored, Unanswered, Untouched, Active, Terminal
<1> QED
  BY <1>3, <1>4, <1>5, LocalStep

\* A prepared copy plan outlives its time.
LEMMA PlanExpiresKeeps ==
    ASSUME ApprovalInv, NEW r \in Run, PlanExpires(r)
    PROVE  ApprovalInv'
<1>1. /\ plans' = plans \ {r}
      /\ UNCHANGED <<tasks, files, up, pc, todo, code, answer, store, permits, scope, faults>>
  BY DEF PlanExpires, disk, memory
<1>2. Moves(r)
  BY <1>1 DEF ApprovalInv, TypeOK, Moves, Apart, store
<1>3. PermitsBalanced' /\ permits' \in 0 .. MaxConcurrency
  BY <1>1, PermitsStay DEF ApprovalInv, TypeOK
<1>4. RunGood(r)'
  <2>1. Held(r)' = Held(r)
    BY <1>1, StoreStays DEF ApprovalInv, store
  <2> QED
    BY <1>1, <2>1 DEF ApprovalInv, store, RunGood,
       PlanRuns, SessionPlaced, FilesPlaced, EndPlaced, AskWaits, OutcomeOf, OwnedBy,
     Asking, Stored, Unanswered, Untouched, Active, Terminal
<1> QED
  BY <1>2, <1>3, <1>4, LocalStep

\* A storage error outside the try blocks.
LEMMA LedgerRaisesKeeps ==
    ASSUME ApprovalInv, NEW r \in Run, LedgerRaises(r)
    PROVE  ApprovalInv'
<1>1. /\ faults' = faults + 1 /\ pc' = [pc EXCEPT ![r] = "raised"]
      /\ plans' \in {plans, plans \ {r}}
      /\ UNCHANGED <<tasks, files, up, todo, code, answer, store, permits, scope>>
  BY DEF LedgerRaises, Goto, disk
<1>2. /\ up /\ reaping[r] = <<>>
      /\ pc[r] \in {"start", "loop", "record", "await", "complete", "failed", "cancelled",
                   "declined", "copied", "undo"}
  BY DEF LedgerRaises, At
<1>3. faults' \in Nat /\ faults' # 0
  BY <1>1 DEF ApprovalInv, TypeOK
<1>4. Moves(r) /\ pc'[r] = "raised"
  BY <1>1, <1>3 DEF ApprovalInv, TypeOK, Moves, Apart, PC, store
<1>5. PermitsBalanced' /\ permits' \in 0 .. MaxConcurrency
  <2>1. "raised" \in PC /\ "raised" \notin Holding /\ pc[r] \notin Holding
    BY <1>2 DEF PC, Holding
  <2> QED
    BY <1>1, <2>1, PermitsMove DEF ApprovalInv
<1>6. RunGood(r)'
  <2>1. Held(r)' = Held(r)
    BY <1>1, StoreStays DEF ApprovalInv, store
  <2> QED
    BY <1>1, <1>2, <1>3, <1>4, <2>1 DEF ApprovalInv, store, RunGood,
       PlanRuns, SessionPlaced, FilesPlaced, EndPlaced, AskWaits, OutcomeOf, OwnedBy,
     Asking, Stored, Unanswered, Untouched, Active, Terminal
<1> QED
  BY <1>4, <1>5, <1>6, LocalStep

\* The scopes are granted or revoked: no run moves.
LEMMA ScopeChangesKeeps ==
    ASSUME ApprovalInv, ScopeChanges
    PROVE  ApprovalInv'
<1>1. /\ UNCHANGED <<tasks, files, up, pc, todo, code, answer, store, plans, permits, faults>>
      /\ scope' = ~scope
  BY DEF ScopeChanges, disk, memory, copier
<1>2. TypeOK' /\ PermitsBalanced'
  BY <1>1, PermitsStay DEF ApprovalInv, TypeOK, store
<1>3. SessionsDistinct' /\ \A r \in Run : Held(r)' = Held(r)
  BY <1>1, StoreStays DEF ApprovalInv, store
<1>4. ASSUME NEW r \in Run PROVE RunGood(r)'
  BY <1>1, <1>3, ApartStaysGood DEF ApprovalInv, Apart, store
<1> QED
  BY <1>2, <1>3, <1>4 DEF ApprovalInv

-----------------------------------------------------------------------------
(* The store of sessions.                                                    *)

\* The members of part are members of Q at places of their own, named by a.
Embeds(a, part, Q) ==
    /\ \A i \in DOMAIN part : a[i] \in DOMAIN Q /\ part[i] = Q[a[i]]
    /\ \A i, j \in DOMAIN part : a[i] = a[j] => i = j

\* The members of part, through a, and those of list, through b, are distinct
\* members of Q.
Divides(a, part, b, list, Q) ==
    /\ \A i, j \in DOMAIN Q : Q[i] = Q[j] => i = j
    /\ Embeds(a, part, Q) /\ Embeds(b, list, Q)
    /\ \A i \in DOMAIN part, j \in DOMAIN list : a[i] # b[j]

\* A session is removed from the store and entered in a list at most once: the
\* new store and the list of x divide Q, which holds no session of another list.
LEMMA Redistributed ==
    ASSUME SessionsDistinct, reaping \in [Thread -> Seq(Run)],
           NEW x \in Thread, reaping[x] = <<>>,
           NEW list \in Seq(Run), reaping' = [reaping EXCEPT ![x] = list],
           NEW Q, NEW a, NEW b,
           \A i \in DOMAIN Q : ~Leaving(Q[i]),
           Divides(a, sessions', b, list, Q)
    PROVE  /\ SessionsDistinct'
           /\ \A s : Held(s)' <=> Leaving(s) \/ s \in ToSet(list) \/ Kept(s)'
<1> USE DEF Embeds, Divides
<1>1. /\ reaping'[x] = list
      /\ \A y \in Thread \ {x} : reaping'[y] = reaping[y]
  OBVIOUS
<1>2. \A i, j \in DOMAIN sessions' : sessions'[i] = sessions'[j] => i = j
  OBVIOUS
<1>3. \A y \in Thread \ {x} : \A j \in DOMAIN reaping[y], i \in DOMAIN Q : reaping[y][j] # Q[i]
  BY DEF Leaving, ToSet
<1>4. ASSUME NEW y \in Thread, NEW j \in DOMAIN reaping'[y]
      PROVE  ~(reaping'[y][j] \in ToSet(sessions'))
  <2> SUFFICES ASSUME NEW i \in DOMAIN sessions', sessions'[i] = reaping'[y][j]
               PROVE  FALSE
    BY DEF ToSet
  <2>1. CASE y = x
    BY <1>1, <2>1
  <2>2. CASE y # x
    BY <1>1, <1>3, <2>2
  <2> QED
    BY <2>1, <2>2
<1>5. ASSUME NEW y \in Thread, NEW z \in Thread,
             NEW i \in DOMAIN reaping'[y], NEW j \in DOMAIN reaping'[z],
             reaping'[y][i] = reaping'[z][j]
      PROVE  y = z /\ i = j
  <2>1. CASE y = x /\ z = x
    BY <1>1, <1>5, <2>1
  <2>2. CASE y # x /\ z # x
    BY <1>1, <1>5, <2>2 DEF SessionsDistinct
  <2>3. CASE y # x /\ z = x
    BY <1>1, <1>3, <1>5, <2>3
  <2>4. CASE y = x /\ z # x
    <3>1. i \in DOMAIN list /\ b[i] \in DOMAIN Q /\ reaping'[y][i] = Q[b[i]]
      BY <1>1, <1>5, <2>4
    <3>2. j \in DOMAIN reaping[z] /\ reaping'[z][j] = reaping[z][j]
      BY <1>1, <1>5, <2>4
    <3> QED
      BY <1>3, <1>5, <2>4, <3>1, <3>2
  <2> QED
    BY <2>1, <2>2, <2>3, <2>4
<1>6. SessionsDistinct'
  BY <1>2, <1>4, <1>5 DEF SessionsDistinct, Kept
<1>7. ASSUME NEW s PROVE Leaving(s)' <=> Leaving(s) \/ s \in ToSet(list)
  <2>1. ToSet(reaping[x]) = {}
    BY DEF ToSet
  <2> QED
    BY <1>1, <2>1 DEF Leaving
<1> QED
  BY <1>6, <1>7 DEF Held

\* A subsequence, by the place d before it and its length l.
LEMMA Slice ==
    ASSUME NEW S, NEW s \in Seq(S), NEW d \in Nat, NEW l \in Nat, d + l <= Len(s)
    PROVE  /\ SubSeq(s, d + 1, d + l) \in Seq(S)
           /\ Len(SubSeq(s, d + 1, d + l)) = l
           /\ DOMAIN SubSeq(s, d + 1, d + l) = 1 .. l
           /\ \A i \in 1 .. l : SubSeq(s, d + 1, d + l)[i] = s[d + i]
<1> DEFINE m == d + 1
           k == d + l
           t == SubSeq(s, m, k)
<1>1. m \in Int /\ k \in Int /\ Len(s) \in Nat /\ m = d + 1 /\ k = d + l
  BY LenProperties
<1>2. \A i \in m .. k : s[i] \in S
  BY <1>1, ElementOfSeq
<1> HIDE DEF m, k
<1>3. /\ t \in Seq(S) /\ Len(t) = IF m <= k THEN k - m + 1 ELSE 0
      /\ \A i \in 1 .. k - m + 1 : t[i] = s[m + i - 1]
  BY <1>1, <1>2, SubSeqProperties
<1> HIDE DEF t
<1>4. k - m + 1 = l
  BY <1>1
<1>5. Len(t) = l
  BY <1>1, <1>3, <1>4
<1>6. \A i \in 1 .. l : m + i - 1 = d + i
  BY <1>1
<1>7. \A i \in 1 .. l : t[i] = s[d + i]
  BY <1>3, <1>4, <1>6
<1>8. DOMAIN t = 1 .. l
  BY <1>3, <1>5, LenProperties
<1> QED
  BY <1>3, <1>5, <1>7, <1>8 DEF t, m, k

\* A sequence s that e is appended to, cut in two after its first k + x members,
\* as put() does when it drops k expired sessions and x others.
Queue(s, e, k) == Append(SubSeq(s, k + 1, Len(s)), e)
Young(s, e, k, x) == SubSeq(Queue(s, e, k), x + 1, Len(Queue(s, e, k)))
Old(s, e, k, x) == SubSeq(s, 1, k) \o SubSeq(Queue(s, e, k), 1, x)

\* part is the l members of Q after the first d.
IsPart(part, Q, d, l, S) ==
    /\ part \in Seq(S) /\ DOMAIN part = 1 .. l /\ Len(part) = l
    /\ \A i \in 1 .. l : part[i] = Q[d + i]

\* The two parts hold the members of the whole sequence, in their order.
LEMMA PutSplits ==
    ASSUME NEW S, NEW s \in Seq(S), NEW e \in S, NEW k \in Nat, NEW x \in Nat,
           k + x <= Len(s)
    PROVE  /\ IsPart(Young(s, e, k, x), Append(s, e), k + x, Len(s) + 1 - (k + x), S)
           /\ IsPart(Old(s, e, k, x), Append(s, e), 0, k + x, S)
<1> DEFINE n == Len(s)
           Q == Append(s, e)
           live == SubSeq(s, k + 1, n)
           queue == Append(live, e)
           first == SubSeq(s, 1, k)
           next == SubSeq(queue, 1, x)
           young == SubSeq(queue, x + 1, Len(queue))
<1>1. n \in Nat /\ k + x <= n /\ n - k \in Nat /\ k + (n - k) = n
  BY LenProperties
<1>2. Q \in Seq(S) /\ Len(Q) = n + 1 /\ (\A i \in 1 .. n : Q[i] = s[i]) /\ Q[n + 1] = e
  BY AppendProperties
<1> HIDE DEF n, Q
<1>3. live \in Seq(S) /\ Len(live) = n - k /\ \A i \in 1 .. (n - k) : live[i] = s[k + i]
  <2> DEFINE l == n - k
  <2>1. l \in Nat /\ k + l <= Len(s) /\ k + l = n
    BY <1>1 DEF n
  <2> HIDE DEF l
  <2>2. live = SubSeq(s, k + 1, k + l)
    BY <2>1
  <2> HIDE DEF live
  <2>3. live \in Seq(S) /\ Len(live) = l /\ \A i \in 1 .. l : live[i] = s[k + i]
    BY <2>1, <2>2, Slice
  <2> QED
    BY <2>3 DEF l
<1> HIDE DEF live
<1>4. /\ queue \in Seq(S) /\ Len(queue) = n - k + 1
      /\ (\A i \in 1 .. (n - k) : queue[i] = live[i]) /\ queue[n - k + 1] = e
  BY <1>3, AppendProperties
<1> HIDE DEF queue
<1>5. \A i \in 1 .. (n - k + 1) : queue[i] = Q[k + i]
  <2> SUFFICES ASSUME NEW i \in 1 .. (n - k + 1) PROVE queue[i] = Q[k + i]
    OBVIOUS
  <2>1. CASE i = n - k + 1
    BY <1>1, <1>2, <1>4, <2>1
  <2>2. CASE i # n - k + 1
    <3>1. i \in 1 .. (n - k) /\ k + i \in 1 .. n
      BY <1>1, <2>2
    <3> QED
      BY <1>2, <1>3, <1>4, <3>1
  <2> QED
    BY <2>1, <2>2
<1>6. /\ young \in Seq(S) /\ Len(young) = n + 1 - (k + x)
      /\ DOMAIN young = 1 .. (n + 1 - (k + x))
      /\ \A i \in 1 .. (n + 1 - (k + x)) : young[i] = queue[x + i]
  <2> DEFINE l == n + 1 - (k + x)
  <2>1. l \in Nat /\ x + l = n - k + 1
    BY <1>1
  <2> HIDE DEF l
  <2>2. young = SubSeq(queue, x + 1, x + l)
    BY <1>4, <2>1
  <2>3. x + l <= Len(queue)
    BY <1>1, <1>4, <2>1
  <2> HIDE DEF young
  <2>4. /\ young \in Seq(S) /\ Len(young) = l /\ DOMAIN young = 1 .. l
        /\ \A i \in 1 .. l : young[i] = queue[x + i]
    BY <1>4, <2>1, <2>2, <2>3, Slice
  <2> QED
    BY <2>4 DEF l
<1>7. \A i \in 1 .. (n + 1 - (k + x)) : young[i] = Q[k + x + i]
  <2> HIDE DEF young
  <2> SUFFICES ASSUME NEW i \in 1 .. (n + 1 - (k + x)) PROVE young[i] = Q[k + x + i]
    OBVIOUS
  <2>1. x + i \in 1 .. (n - k + 1) /\ k + (x + i) = k + x + i
    BY <1>1
  <2> QED
    BY <1>5, <1>6, <2>1
<1>8. first \in Seq(S) /\ Len(first) = k /\ \A i \in 1 .. k : first[i] = s[i]
  <2>1. 0 + k <= Len(s) /\ 0 \in Nat /\ 0 + 1 = 1 /\ 0 + k = k
    BY <1>1 DEF n
  <2>2. /\ SubSeq(s, 0 + 1, 0 + k) \in Seq(S) /\ Len(SubSeq(s, 0 + 1, 0 + k)) = k
        /\ \A i \in 1 .. k : SubSeq(s, 0 + 1, 0 + k)[i] = s[0 + i]
    BY <2>1, Slice
  <2> QED
    BY <2>1, <2>2
<1>9. next \in Seq(S) /\ Len(next) = x /\ \A i \in 1 .. x : next[i] = queue[i]
  <2>1. 0 + x <= Len(queue) /\ 0 \in Nat /\ 0 + 1 = 1 /\ 0 + x = x
    BY <1>1, <1>4
  <2>2. /\ SubSeq(queue, 0 + 1, 0 + x) \in Seq(S) /\ Len(SubSeq(queue, 0 + 1, 0 + x)) = x
        /\ \A i \in 1 .. x : SubSeq(queue, 0 + 1, 0 + x)[i] = queue[0 + i]
    BY <1>4, <2>1, Slice
  <2> QED
    BY <2>1, <2>2
<1> HIDE DEF first, next
<1>10. /\ first \o next \in Seq(S) /\ Len(first \o next) = k + x
       /\ \A i \in 1 .. k + x : (first \o next)[i] = IF i <= k THEN first[i] ELSE next[i - k]
  <2>1. /\ first \o next \in Seq(S) /\ Len(first \o next) = Len(first) + Len(next)
        /\ \A i \in 1 .. Len(first) + Len(next) :
               (first \o next)[i] = IF i <= Len(first) THEN first[i] ELSE next[i - Len(first)]
    BY <1>8, <1>9, ConcatProperties
  <2> QED
    BY <1>8, <1>9, <2>1
<1>11. \A i \in 1 .. (k + x) : (first \o next)[i] = Q[i]
  <2> SUFFICES ASSUME NEW i \in 1 .. (k + x) PROVE (first \o next)[i] = Q[i]
    OBVIOUS
  <2>1. CASE i <= k
    <3>1. i \in 1 .. k /\ i \in 1 .. n
      BY <1>1, <2>1
    <3> QED
      BY <1>2, <1>8, <1>10, <2>1, <3>1
  <2>2. CASE ~(i <= k)
    <3>1. i - k \in 1 .. x /\ i - k \in 1 .. (n - k + 1) /\ k + (i - k) = i
      BY <1>1, <2>2
    <3>2. (first \o next)[i] = next[i - k]
      BY <1>10, <2>2
    <3>3. next[i - k] = queue[i - k] /\ queue[i - k] = Q[k + (i - k)]
      BY <1>5, <1>9, <3>1
    <3> QED
      BY <3>1, <3>2, <3>3
  <2> QED
    BY <2>1, <2>2
<1>12. DOMAIN (first \o next) = 1 .. (k + x)
  BY <1>10, LenProperties
<1>13. Young(s, e, k, x) = young /\ Old(s, e, k, x) = first \o next
  BY DEF Young, Old, Queue, n, queue, live, first, next, young
<1> HIDE DEF young
<1>14. IsPart(young, Q, k + x, n + 1 - (k + x), S)
  BY <1>6, <1>7 DEF IsPart
<1>15. IsPart(first \o next, Q, 0, k + x, S)
  <2>1. \A i \in 1 .. (k + x) : 0 + i = i
    OBVIOUS
  <2> QED
    BY <1>10, <1>11, <1>12, <2>1 DEF IsPart
<1> QED
  BY <1>13, <1>14, <1>15 DEF n, Q

\* The store is the expired sessions and, after them, the live ones.
LEMMA StoreSplits ==
    ASSUME TypeOK
    PROVE  /\ Len(sessions) \in Nat /\ stale \in 0 .. Len(sessions)
           /\ DOMAIN sessions = 1 .. Len(sessions)
           /\ \A i \in 1 .. Len(sessions) : sessions[i] \in Run
           /\ Live \in Seq(Run) /\ Len(Live) = Len(sessions) - stale
           /\ DOMAIN Live = 1 .. (Len(sessions) - stale)
           /\ \A i \in 1 .. (Len(sessions) - stale) : Live[i] = sessions[stale + i]
           /\ Expired \in Seq(Run) /\ DOMAIN Expired = 1 .. stale
           /\ \A i \in 1 .. stale : Expired[i] = sessions[i]
<1>1. /\ Len(sessions) \in Nat /\ stale \in 0 .. Len(sessions) /\ sessions \in Seq(Run)
      /\ DOMAIN sessions = 1 .. Len(sessions)
      /\ \A i \in 1 .. Len(sessions) : sessions[i] \in Run
  BY LenProperties, ElementOfSeq DEF TypeOK
<1> DEFINE n == Len(sessions)
           l == n - stale
<1>2. l \in Nat /\ stale + l = n /\ stale \in Nat /\ stale + l <= Len(sessions)
  BY <1>1
<1>3. Live = SubSeq(sessions, stale + 1, stale + l)
  BY <1>2 DEF Live
<1> HIDE DEF l
<1>4. /\ Live \in Seq(Run) /\ Len(Live) = l /\ DOMAIN Live = 1 .. l
      /\ \A i \in 1 .. l : Live[i] = sessions[stale + i]
  BY <1>1, <1>2, <1>3, Slice
<1>5. 0 \in Nat /\ 0 + 1 = 1 /\ 0 + stale = stale /\ 0 + stale <= Len(sessions)
  BY <1>1
<1>6. /\ Expired \in Seq(Run) /\ DOMAIN Expired = 1 .. stale
      /\ \A i \in 1 .. stale : Expired[i] = sessions[0 + i]
  <2>1. Expired = SubSeq(sessions, 0 + 1, 0 + stale)
    BY <1>5 DEF Expired
  <2> QED
    BY <1>1, <1>2, <1>5, <2>1, Slice
<1> QED
  BY <1>1, <1>4, <1>6 DEF l

\* put() leaves the youngest sessions, the new one among them, in the store and
\* the others, in their order, in the list of its thread.
LEMMA PutStores ==
    ASSUME ApprovalInv, NEW r \in Run, Put(r)
    PROVE  /\ sessions' \in Seq(Run) /\ Len(sessions') <= Capacity /\ stale' = 0
           /\ reaping' \in [Thread -> Seq(Run)]
           /\ \A x \in Thread \ {r} : reaping'[x] = reaping[x]
           /\ Kept(r)' /\ \A s : Kept(s)' => Kept(s) \/ s = r
           /\ SessionsDistinct'
           /\ \A s : Held(s)' <=> Held(s) \/ s = r
<1> DEFINE n == Len(sessions)
           Q == Append(sessions, r)
           queue == Append(Live, r)
           excess == IF Len(queue) > Capacity THEN Len(queue) - Capacity ELSE 0
           list == Expired \o SubSeq(queue, 1, excess)
           cut == stale + excess
<1>1. /\ n \in Nat /\ stale \in 0 .. n /\ DOMAIN sessions = 1 .. n /\ sessions \in Seq(Run)
      /\ n <= Capacity /\ Capacity \in Nat \ {0}
      /\ reaping \in [Thread -> Seq(Run)]
  BY StoreSplits, LimitsAssumption DEF ApprovalInv, TypeOK, Thread
<1>2. /\ sessions' = SubSeq(queue, excess + 1, Len(queue))
      /\ reaping' = [reaping EXCEPT ![r] = list]
      /\ stale' = 0 /\ up /\ pc[r] = "put" /\ reaping[r] = <<>>
  BY DEF Put, At
<1>3. /\ Q \in Seq(Run) /\ Len(Q) = n + 1 /\ DOMAIN Q = 1 .. (n + 1)
      /\ \A i \in 1 .. n : Q[i] = sessions[i]
      /\ Q[n + 1] = r
  BY <1>1, AppendProperties, LenProperties
<1>4. Len(queue) = n + 1 - stale
  <2>1. TypeOK
    BY DEF ApprovalInv
  <2>2. Live \in Seq(Run) /\ Len(Live) = n - stale
    BY <2>1, StoreSplits
  <2>3. Len(queue) = Len(Live) + 1
    BY <2>2, AppendProperties
  <2> QED
    BY <1>1, <2>2, <2>3
<1> HIDE DEF n, Q
<1>5. excess \in Nat /\ stale \in Nat /\ stale + excess <= n /\ n + 1 - cut <= Capacity
  <2> HIDE DEF queue
  <2> QED
    BY <1>1, <1>4
<1>6. queue = Append(SubSeq(sessions, stale + 1, Len(sessions)), r)
      /\ Expired = SubSeq(sessions, 1, stale)
  BY DEF Live, Expired
<1> HIDE DEF excess, queue
<1>7. /\ sessions' \in Seq(Run) /\ Len(sessions') = n + 1 - cut
      /\ DOMAIN sessions' = 1 .. (n + 1 - cut)
      /\ \A i \in 1 .. (n + 1 - cut) : sessions'[i] = Q[cut + i]
      /\ list \in Seq(Run) /\ DOMAIN list = 1 .. cut
      /\ \A i \in 1 .. cut : list[i] = Q[i]
  <2>1. stale + excess <= Len(sessions)
    BY <1>5 DEF n
  <2>2. sessions' = Young(sessions, r, stale, excess) /\ list = Old(sessions, r, stale, excess)
    BY <1>2, <1>6 DEF Young, Old, Queue
  <2>3. sessions \in Seq(Run) /\ stale \in Nat /\ excess \in Nat
    BY <1>1, <1>5
  <2>4. /\ IsPart(sessions', Q, cut, n + 1 - cut, Run)
        /\ IsPart(list, Q, 0, cut, Run)
    BY <2>1, <2>2, <2>3, PutSplits DEF n, Q
  <2> HIDE DEF list
  <2>5. \A i \in 1 .. cut : 0 + i = i
    BY <2>3
  <2> QED
    BY <2>4, <2>5 DEF IsPart
<1> HIDE DEF list
<1>8. ~Held(r)
  BY <1>2 DEF ApprovalInv, RunGood, SessionPlaced, Stored
<1>9. /\ \A i, j \in DOMAIN Q : Q[i] = Q[j] => i = j
      /\ \A i \in DOMAIN Q : ~Leaving(Q[i])
  <2>1. \A i \in 1 .. n : Kept(sessions[i])
    BY <1>1 DEF Kept, ToSet
  <2>2. \A i \in 1 .. n : ~Leaving(sessions[i])
    <3> SUFFICES ASSUME NEW i \in 1 .. n, NEW x \in Thread,
                        NEW j \in DOMAIN reaping[x], reaping[x][j] = sessions[i]
                 PROVE  FALSE
      BY DEF Leaving, ToSet
    <3> QED
      BY <2>1 DEF ApprovalInv, SessionsDistinct
  <2>3. \A i \in 1 .. n : sessions[i] # r
    BY <1>8, <2>1 DEF Held
  <2>4. \A i, j \in 1 .. n : sessions[i] = sessions[j] => i = j
    BY <1>1 DEF ApprovalInv, SessionsDistinct
  <2>5. ASSUME NEW i \in 1 .. (n + 1)
        PROVE  \/ i = n + 1 /\ Q[i] = r
               \/ i \in 1 .. n /\ Q[i] = sessions[i]
    <3>1. i = n + 1 \/ i \in 1 .. n
      BY <1>1
    <3> QED
      BY <1>3, <3>1
  <2>6. ~Leaving(r)
    BY <1>8 DEF Held
  <2> QED
    BY <1>3, <2>2, <2>3, <2>4, <2>5, <2>6
<1> DEFINE a == [i \in DOMAIN sessions' |-> cut + i]
           b == [i \in DOMAIN list |-> i]
<1>10. /\ Embeds(a, sessions', Q) /\ Embeds(b, list, Q)
       /\ \A i \in DOMAIN sessions', j \in DOMAIN list : a[i] # b[j]
  <2>1. \A i \in 1 .. (n + 1 - cut) : cut + i \in 1 .. (n + 1) /\ cut + i \notin 1 .. cut
    BY <1>1, <1>5
  <2>2. \A i \in 1 .. cut : i \in 1 .. (n + 1)
    BY <1>1, <1>5
  <2>3. \A i, j \in 1 .. (n + 1 - cut) : cut + i = cut + j => i = j
    BY <1>1, <1>5
  <2> QED
    BY <1>3, <1>7, <2>1, <2>2, <2>3 DEF Embeds
<1> HIDE DEF a, b
<1>11. /\ SessionsDistinct'
       /\ \A s : Held(s)' <=> Leaving(s) \/ s \in ToSet(list) \/ Kept(s)'
  <2>1. SessionsDistinct /\ r \in Thread
    BY DEF ApprovalInv, Thread
  <2>2. reaping' = [reaping EXCEPT ![r] = list] /\ reaping[r] = <<>> /\ list \in Seq(Run)
    BY <1>2, <1>7
  <2>3. Divides(a, sessions', b, list, Q)
    BY <1>9, <1>10 DEF Divides
  <2> QED
    BY <1>1, <1>9, <2>1, <2>2, <2>3, Redistributed
<1>12. \A s : s \in ToSet(list) \/ Kept(s)' <=> Kept(s) \/ s = r
  <2>1. ASSUME NEW s, s \in ToSet(list) \/ Kept(s)' PROVE Kept(s) \/ s = r
    <3>1. PICK i \in DOMAIN Q : s = Q[i]
      BY <1>10, <2>1 DEF Kept, ToSet, Embeds
    <3> QED
      BY <1>1, <1>3, <3>1 DEF Kept, ToSet
  <2>2. ASSUME NEW s, Kept(s) \/ s = r PROVE s \in ToSet(list) \/ Kept(s)'
    <3>1. PICK i \in 1 .. (n + 1) : s = Q[i]
      BY <1>1, <1>3, <2>2 DEF Kept, ToSet
    <3>2. CASE i <= cut
      BY <1>5, <1>7, <3>1, <3>2 DEF ToSet
    <3>3. CASE i > cut
      <4>1. i - cut \in 1 .. (n + 1 - cut) /\ cut + (i - cut) = i
        BY <1>1, <1>5, <3>3
      <4> QED
        BY <1>7, <3>1, <4>1 DEF Kept, ToSet
    <3> QED
      BY <1>1, <1>5, <3>2, <3>3
  <2> QED
    BY <2>1, <2>2
<1>13. Kept(r)'
  <2>1. n + 1 - cut \in 1 .. (n + 1 - cut) /\ cut + (n + 1 - cut) = n + 1
    BY <1>1, <1>5
  <2>2. sessions'[n + 1 - cut] = r
    BY <1>3, <1>7, <2>1
  <2> QED
    BY <1>7, <2>1, <2>2 DEF Kept, ToSet
<1>14. Len(sessions') <= Capacity
  BY <1>1, <1>5, <1>7
<1> QED
  BY <1>1, <1>2, <1>7, <1>11, <1>12, <1>13, <1>14 DEF Held, Thread

\* A stored session is stored once and is in no list of those to discard.
LEMMA StoredOnce ==
    ASSUME ApprovalInv
    PROVE  /\ \A i, j \in DOMAIN sessions : sessions[i] = sessions[j] => i = j
           /\ \A i \in DOMAIN sessions : ~Leaving(sessions[i])
<1>1. \A i \in DOMAIN sessions : Kept(sessions[i])
  BY DEF Kept, ToSet
<1>2. \A i \in DOMAIN sessions : ~Leaving(sessions[i])
  <2> SUFFICES ASSUME NEW i \in DOMAIN sessions, NEW x \in Thread,
                      NEW j \in DOMAIN reaping[x], reaping[x][j] = sessions[i]
               PROVE  FALSE
    BY DEF Leaving, ToSet
  <2> QED
    BY <1>1 DEF ApprovalInv, SessionsDistinct
<1> QED
  BY <1>2 DEF ApprovalInv, SessionsDistinct

\* A sequence without its i-th member.
LEMMA Removed ==
    ASSUME NEW S, NEW s \in Seq(S), NEW i \in 1 .. Len(s)
    PROVE  /\ RemoveAt(s, i) \in Seq(S) /\ Len(RemoveAt(s, i)) = Len(s) - 1
           /\ DOMAIN RemoveAt(s, i) = 1 .. (Len(s) - 1)
           /\ \A j \in 1 .. (Len(s) - 1) :
                  RemoveAt(s, i)[j] = IF j < i THEN s[j] ELSE s[j + 1]
<1> DEFINE n == Len(s)
           before == SubSeq(s, 1, i - 1)
           l == n - i
           after == SubSeq(s, i + 1, n)
<1>1. n \in Nat /\ l \in Nat /\ i + l = n /\ i \in Nat \ {0} /\ i - 1 \in Nat /\ n - 1 = i - 1 + l
  BY LenProperties
<1>2. /\ before \in Seq(S) /\ Len(before) = i - 1
      /\ \A j \in 1 .. (i - 1) : before[j] = s[0 + j]
  <2> DEFINE k == i - 1
  <2>1. 0 \in Nat /\ k \in Nat /\ 0 + 1 = 1 /\ 0 + k = k /\ 0 + k <= Len(s)
    BY <1>1
  <2> HIDE DEF k
  <2>2. before = SubSeq(s, 0 + 1, 0 + k)
    BY <2>1 DEF k
  <2> HIDE DEF before
  <2>3. before \in Seq(S) /\ Len(before) = k /\ \A j \in 1 .. k : before[j] = s[0 + j]
    BY <2>1, <2>2, Slice
  <2> QED
    BY <2>3 DEF k
<1>3. /\ after \in Seq(S) /\ Len(after) = l
      /\ \A j \in 1 .. l : after[j] = s[i + j]
  <2>1. after = SubSeq(s, i + 1, i + l) /\ i + l <= Len(s)
    BY <1>1
  <2> HIDE DEF after, l
  <2> QED
    BY <1>1, <2>1, Slice
<1>4. RemoveAt(s, i) = before \o after
  BY DEF RemoveAt
<1> HIDE DEF before, after, l, n
<1>5. /\ before \o after \in Seq(S) /\ Len(before \o after) = i - 1 + l
      /\ \A j \in 1 .. i - 1 + l :
             (before \o after)[j] = IF j <= i - 1 THEN before[j] ELSE after[j - (i - 1)]
  <2>1. /\ before \o after \in Seq(S) /\ Len(before \o after) = Len(before) + Len(after)
        /\ \A j \in 1 .. Len(before) + Len(after) :
               (before \o after)[j] = IF j <= Len(before) THEN before[j]
                                      ELSE after[j - Len(before)]
    BY <1>2, <1>3, ConcatProperties
  <2> QED
    BY <1>2, <1>3, <2>1
<1>6. ASSUME NEW j \in 1 .. (n - 1)
      PROVE  (before \o after)[j] = IF j < i THEN s[j] ELSE s[j + 1]
  <2>1. CASE j < i
    <3>1. j \in 1 .. (i - 1) /\ 0 + j = j /\ j <= i - 1 /\ j \in 1 .. i - 1 + l
      BY <1>1, <2>1
    <3> QED
      BY <1>2, <1>5, <2>1, <3>1
  <2>2. CASE ~(j < i)
    <3>1. /\ j - (i - 1) \in 1 .. l /\ i + (j - (i - 1)) = j + 1
          /\ ~(j <= i - 1) /\ j \in 1 .. i - 1 + l
      BY <1>1, <2>2
    <3>2. (before \o after)[j] = after[j - (i - 1)]
      BY <1>5, <3>1
    <3>3. after[j - (i - 1)] = s[i + (j - (i - 1))]
      BY <1>3, <3>1
    <3> QED
      BY <2>2, <3>1, <3>2, <3>3
  <2> QED
    BY <2>1, <2>2
<1>7. DOMAIN (before \o after) = 1 .. (n - 1)
  BY <1>1, <1>5, LenProperties
<1> QED
  BY <1>1, <1>4, <1>5, <1>6, <1>7 DEF n

\* claim() takes the session it is asked for and leaves the other live ones.
LEMMA ClaimTakes ==
    ASSUME ApprovalInv, NEW r \in Run, NEW given, Claim(r, given)
    PROVE  /\ sessions' \in Seq(Run) /\ Len(sessions') <= Capacity /\ stale' = 0
           /\ reaping' \in [Thread -> Seq(Run)]
           /\ \A x \in Thread \ {r} : reaping'[x] = reaping[x]
           /\ SessionsDistinct'
           /\ \A s : Held(s)' <=> Held(s) /\ s # r
           /\ Kept(r) /\ \A s : Kept(s)' => Kept(s)
<1> DEFINE n == Len(sessions)
           l == n - stale
           list == Expired
<1>1. /\ n \in Nat /\ stale \in 0 .. n /\ DOMAIN sessions = 1 .. n
      /\ l \in Nat /\ Live \in Seq(Run) /\ Len(Live) = l /\ DOMAIN Live = 1 .. l
      /\ \A i \in 1 .. l : Live[i] = sessions[stale + i]
      /\ list \in Seq(Run) /\ DOMAIN list = 1 .. stale
      /\ \A i \in 1 .. stale : list[i] = sessions[i]
      /\ n <= Capacity /\ Capacity \in Nat
      /\ reaping \in [Thread -> Seq(Run)]
  BY StoreSplits, LimitsAssumption DEF ApprovalInv, TypeOK, Thread
<1>2. PICK i \in DOMAIN Live : Live[i] = r /\ sessions' = RemoveAt(Live, i)
  BY DEF Claim
<1>3. /\ reaping' = [reaping EXCEPT ![r] = list] /\ reaping[r] = <<>> /\ stale' = 0
  BY DEF Claim, At
<1> HIDE DEF n, l, list
<1>4. i \in 1 .. l /\ stale + i \in 1 .. n /\ sessions[stale + i] = r /\ l + stale = n
  BY <1>1, <1>2 DEF l
<1>5. /\ sessions' \in Seq(Run) /\ Len(sessions') = l - 1 /\ DOMAIN sessions' = 1 .. (l - 1)
      /\ \A j \in 1 .. (l - 1) : sessions'[j] = IF j < i THEN Live[j] ELSE Live[j + 1]
  BY <1>1, <1>2, <1>4, Removed
<1> DEFINE a == [j \in 1 .. (l - 1) |-> IF j < i THEN stale + j ELSE stale + j + 1]
           b == [j \in 1 .. stale |-> j]
<1>6. ASSUME NEW j \in 1 .. (l - 1)
      PROVE  /\ a[j] \in 1 .. n /\ a[j] > stale /\ a[j] # stale + i
             /\ sessions'[j] = sessions[a[j]]
  <2>1. CASE j < i
    <3>1. a[j] = stale + j /\ j \in 1 .. l
      BY <1>1, <1>4, <2>1
    <3> QED
      BY <1>1, <1>4, <1>5, <2>1, <3>1
  <2>2. CASE ~(j < i)
    <3>1. a[j] = stale + (j + 1) /\ j + 1 \in 1 .. l
      <4>1. a[j] = stale + j + 1
        BY <2>2
      <4>2. stale + j + 1 = stale + (j + 1) /\ j + 1 \in 1 .. l
        BY <1>1, <1>4
      <4> QED
        BY <4>1, <4>2
    <3> QED
      BY <1>1, <1>4, <1>5, <2>2, <3>1
  <2> QED
    BY <2>1, <2>2
<1>7. \A j, k \in 1 .. (l - 1) : a[j] = a[k] => j = k
  BY <1>1, <1>4
<1>8. Embeds(a, sessions', sessions)
  <2> HIDE DEF a
  <2> QED
    BY <1>1, <1>5, <1>6, <1>7 DEF Embeds
<1>9. Embeds(b, list, sessions)
  <2>1. \A j \in 1 .. stale : b[j] = j /\ j \in 1 .. n
    BY <1>1
  <2> HIDE DEF b
  <2> QED
    BY <1>1, <2>1 DEF Embeds
<1>10. Divides(a, sessions', b, list, sessions)
  <2>1. \A j \in DOMAIN sessions', k \in DOMAIN list : a[j] # b[k]
    <3>1. \A k \in 1 .. stale : b[k] = k /\ k <= stale
      BY <1>1
    <3> HIDE DEF a, b
    <3> QED
      BY <1>1, <1>5, <1>6, <3>1
  <2> HIDE DEF a, b
  <2> QED
    BY <1>8, <1>9, <2>1, StoredOnce DEF Divides
<1> HIDE DEF a, b
<1>11. /\ SessionsDistinct'
       /\ \A s : Held(s)' <=> Leaving(s) \/ s \in ToSet(list) \/ Kept(s)'
  <2>1. SessionsDistinct /\ r \in Thread
    BY DEF ApprovalInv, Thread
  <2> QED
    BY <1>1, <1>3, <1>10, <2>1, StoredOnce, Redistributed
<1>12. ASSUME NEW s, s \in ToSet(list) \/ Kept(s)' PROVE Kept(s) /\ s # r
  <2>1. PICK k \in 1 .. n : s = sessions[k] /\ k # stale + i
    <3>1. CASE s \in ToSet(list)
      <4>1. PICK k \in 1 .. stale : s = list[k]
        BY <1>1, <3>1 DEF ToSet
      <4>2. k \in 1 .. n /\ k # stale + i
        BY <1>1, <1>4
      <4> QED
        BY <1>1, <4>1, <4>2
    <3>2. CASE Kept(s)'
      <4>1. PICK j \in 1 .. (l - 1) : s = sessions'[j]
        BY <1>5, <3>2 DEF Kept, ToSet
      <4> QED
        BY <1>6, <4>1
    <3> QED
      BY <1>12, <3>1, <3>2
  <2> QED
    BY <1>1, <1>4, <2>1, StoredOnce DEF Kept, ToSet
<1>13. ASSUME NEW s, Kept(s), s # r PROVE s \in ToSet(list) \/ Kept(s)'
  <2>1. PICK k \in 1 .. n : s = sessions[k]
    BY <1>1, <1>13 DEF Kept, ToSet
  <2>2. k # stale + i
    BY <1>4, <1>13, <2>1
  <2>3. CASE k <= stale
    <3>1. k \in 1 .. stale /\ list[k] = s
      BY <1>1, <2>1, <2>3
    <3> QED
      BY <1>1, <3>1 DEF ToSet
  <2>4. CASE k > stale /\ k < stale + i
    <3>1. k - stale \in 1 .. (l - 1) /\ k - stale < i /\ stale + (k - stale) = k
          /\ k - stale \in 1 .. l
      BY <1>1, <1>4, <2>4
    <3>2. sessions'[k - stale] = sessions[k]
      BY <1>1, <1>5, <3>1
    <3> QED
      BY <1>5, <2>1, <3>1, <3>2 DEF Kept, ToSet
  <2>5. CASE k > stale + i
    <3>1. k - stale - 1 \in 1 .. (l - 1) /\ ~(k - stale - 1 < i)
          /\ k - stale - 1 + 1 = k - stale /\ stale + (k - stale) = k /\ k - stale \in 1 .. l
      BY <1>1, <1>4, <2>5
    <3>2. sessions'[k - stale - 1] = sessions[k]
      BY <1>1, <1>5, <3>1
    <3> QED
      BY <1>5, <2>1, <3>1, <3>2 DEF Kept, ToSet
  <2> QED
    BY <1>1, <1>4, <2>2, <2>3, <2>4, <2>5
<1>14. Kept(r) /\ ~Leaving(r)
  BY <1>1, <1>4, StoredOnce DEF Kept, ToSet
<1>15. \A s : Held(s)' <=> Held(s) /\ s # r
  BY <1>11, <1>12, <1>13, <1>14 DEF Held
<1>16. /\ reaping' \in [Thread -> Seq(Run)]
       /\ \A x \in Thread \ {r} : reaping'[x] = reaping[x]
  BY <1>1, <1>3
<1>17. Len(sessions') <= Capacity
  BY <1>1, <1>4, <1>5
<1> QED
  BY <1>3, <1>5, <1>11, <1>12, <1>14, <1>15, <1>16, <1>17

\* An answer that finds no session leaves the live ones.
LEMMA ClaimNothingTakes ==
    ASSUME ApprovalInv, ClaimNothing
    PROVE  /\ sessions' \in Seq(Run) /\ Len(sessions') <= Capacity /\ stale' = 0
           /\ reaping' \in [Thread -> Seq(Run)]
           /\ \A x \in Run : reaping'[x] = reaping[x]
           /\ SessionsDistinct'
           /\ \A s : Held(s)' <=> Held(s)
           /\ \A s : Kept(s)' => Kept(s)
<1> DEFINE n == Len(sessions)
           l == n - stale
           list == Expired
<1>1. /\ n \in Nat /\ stale \in 0 .. n /\ DOMAIN sessions = 1 .. n
      /\ l \in Nat /\ Live \in Seq(Run) /\ Len(Live) = l /\ DOMAIN Live = 1 .. l
      /\ \A i \in 1 .. l : Live[i] = sessions[stale + i]
      /\ list \in Seq(Run) /\ DOMAIN list = 1 .. stale
      /\ \A i \in 1 .. stale : list[i] = sessions[i]
      /\ n <= Capacity /\ Capacity \in Nat
      /\ reaping \in [Thread -> Seq(Run)]
  BY StoreSplits, LimitsAssumption DEF ApprovalInv, TypeOK, Thread
<1>2. /\ reaping' = [reaping EXCEPT ![Visitor] = list] /\ reaping[Visitor] = <<>> /\ stale' = 0
      /\ sessions' = Live
  BY DEF ClaimNothing
<1> HIDE DEF n, list
<1> DEFINE a == [j \in 1 .. l |-> stale + j]
           b == [j \in 1 .. stale |-> j]
<1>3. \A j \in 1 .. l : a[j] \in 1 .. n /\ a[j] > stale
  BY <1>1
<1>4. \A j, k \in 1 .. l : a[j] = a[k] => j = k
  BY <1>1
<1>5. \A j \in 1 .. l : a[j] = stale + j
  OBVIOUS
<1>6. \A j \in 1 .. stale : b[j] = j /\ j \in 1 .. n /\ j <= stale
  BY <1>1
<1> HIDE DEF a, b, l
<1>7. Embeds(a, sessions', sessions) /\ Embeds(b, list, sessions)
  BY <1>1, <1>2, <1>3, <1>4, <1>5, <1>6 DEF Embeds
<1>8. Divides(a, sessions', b, list, sessions)
  <2>1. \A j \in DOMAIN sessions', k \in DOMAIN list : a[j] # b[k]
    BY <1>1, <1>2, <1>3, <1>6
  <2> QED
    BY <1>7, <2>1, StoredOnce DEF Divides
<1>9. /\ SessionsDistinct'
      /\ \A s : Held(s)' <=> Leaving(s) \/ s \in ToSet(list) \/ Kept(s)'
  <2>1. SessionsDistinct /\ Visitor \in Thread
    BY DEF ApprovalInv, Thread
  <2> QED
    BY <1>1, <1>2, <1>8, <2>1, StoredOnce, Redistributed
<1>10. ASSUME NEW s, s \in ToSet(list) \/ Kept(s)' PROVE Kept(s)
  BY <1>1, <1>2, <1>3, <1>5, <1>6, <1>10 DEF Kept, ToSet
<1>11. ASSUME NEW s, Kept(s) PROVE s \in ToSet(list) \/ Kept(s)'
  <2>1. PICK k \in 1 .. n : s = sessions[k]
    BY <1>1, <1>11 DEF Kept, ToSet
  <2>2. CASE k <= stale
    BY <1>1, <2>1, <2>2 DEF ToSet
  <2>3. CASE k > stale
    <3>1. k - stale \in 1 .. l /\ stale + (k - stale) = k
      BY <1>1, <2>3 DEF l
    <3> QED
      BY <1>1, <1>2, <2>1, <3>1 DEF Kept, ToSet
  <2> QED
    BY <1>1, <2>2, <2>3
<1>12. \A s : Held(s)' <=> Held(s)
  BY <1>9, <1>10, <1>11 DEF Held
<1>13. /\ reaping' \in [Thread -> Seq(Run)]
       /\ \A x \in Run : reaping'[x] = reaping[x]
  BY <1>1, <1>2, VisitorAssumption DEF Thread
<1>14. Len(sessions') <= Capacity
  BY <1>1, <1>2 DEF l
<1> QED
  BY <1>1, <1>2, <1>9, <1>10, <1>12, <1>13, <1>14

-----------------------------------------------------------------------------
(* The steps that touch the store, and those of the whole daemon.            *)

\* put()
LEMMA PutKeeps ==
    ASSUME ApprovalInv, NEW r \in Run, Put(r)
    PROVE  ApprovalInv'
<1>1. /\ sessions' \in Seq(Run) /\ Len(sessions') <= Capacity /\ stale' = 0
      /\ reaping' \in [Thread -> Seq(Run)]
      /\ \A x \in Thread \ {r} : reaping'[x] = reaping[x]
      /\ Kept(r)' /\ SessionsDistinct'
      /\ \A s : Held(s)' <=> Held(s) \/ s = r
  BY PutStores
<1>2. /\ up /\ pc[r] = "put" /\ pc' = [pc EXCEPT ![r] = "await"]
      /\ UNCHANGED <<tasks, files, up, todo, code, answer, plans, permits, scope, faults>>
  BY DEF Put, At, Goto, disk, copier
<1>3. pc' \in [Run -> PC] /\ pc'[r] = "await" /\ \A s \in Run \ {r} : pc'[s] = pc[s]
  BY <1>2 DEF ApprovalInv, TypeOK, PC
<1>4. TypeOK'
  <2>1. Len(sessions') \in Nat
    BY <1>1, LenProperties
  <2> QED
    BY <1>1, <1>2, <1>3, <2>1 DEF ApprovalInv, TypeOK, Thread
<1>5. PermitsBalanced'
  <2>1. "await" \in PC /\ "await" \notin Holding /\ pc[r] \notin Holding
    BY <1>2 DEF PC, Holding
  <2> QED
    BY <1>2, <2>1, PermitsMove DEF ApprovalInv
<1>6. ASSUME NEW s \in Run PROVE RunGood(s)'
  <2>1. CASE s # r
    <3>1. Apart(s) /\ RunGood(s) /\ faults' = faults /\ up' = up
      BY <1>2, <1>3, <2>1 DEF Apart, ApprovalInv
    <3>2. Held(s)' = Held(s) /\ reaping'[s] = reaping[s]
      BY <1>1, <2>1 DEF Thread, Held, Kept, Leaving
    <3> QED
      BY <3>1, <3>2, ApartStaysGood
  <2>2. CASE s = r
    <3>1. RunGood(r)
      BY DEF ApprovalInv
    <3>2. Held(r)'
      BY <1>1
    <3>3. RunGood(r)'
      BY <1>2, <1>3, <3>1, <3>2 DEF RunGood,
       PlanRuns, SessionPlaced, FilesPlaced, EndPlaced, AskWaits, OutcomeOf, OwnedBy,
       Asking, Stored, Unanswered, Untouched, Active, Terminal
    <3> QED
      BY <2>2, <3>3
  <2> QED
    BY <2>1, <2>2
<1> QED
  BY <1>1, <1>4, <1>5, <1>6 DEF ApprovalInv

\* claim(), of the session of r.
LEMMA ClaimKeeps ==
    ASSUME ApprovalInv, NEW r \in Run, NEW given \in {"confirmed", "declined"}, Claim(r, given)
    PROVE  ApprovalInv'
<1> DEFINE q == IF given = "confirmed" THEN "approved" ELSE "declined"
<1>1. /\ sessions' \in Seq(Run) /\ Len(sessions') <= Capacity /\ stale' = 0
      /\ reaping' \in [Thread -> Seq(Run)]
      /\ \A x \in Thread \ {r} : reaping'[x] = reaping[x]
      /\ SessionsDistinct'
      /\ \A s : Held(s)' <=> Held(s) /\ s # r
  BY ClaimTakes
<1>2. /\ up /\ pc[r] = "parked" /\ pc' = [pc EXCEPT ![r] = q]
      /\ answer' = [answer EXCEPT ![r] = given]
      /\ UNCHANGED <<tasks, files, up, todo, code, plans, permits, scope, faults>>
  BY DEF Claim, At, Goto, disk, copier
<1>3. q \in {"approved", "declined"}
  OBVIOUS
<1> HIDE DEF q
<1>4. /\ pc' \in [Run -> PC] /\ pc'[r] = q /\ \A s \in Run \ {r} : pc'[s] = pc[s]
      /\ answer' \in [Run -> {"none", "confirmed", "declined"}]
      /\ \A s \in Run \ {r} : answer'[s] = answer[s]
  BY <1>2, <1>3 DEF ApprovalInv, TypeOK, PC
<1>5. TypeOK'
  <2>1. Len(sessions') \in Nat
    BY <1>1, LenProperties
  <2> QED
    BY <1>1, <1>2, <1>4, <2>1 DEF ApprovalInv, TypeOK, Thread
<1>6. PermitsBalanced'
  <2>1. q \in PC /\ q \notin Holding /\ pc[r] \notin Holding
    BY <1>2, <1>3 DEF PC, Holding
  <2> QED
    BY <1>2, <2>1, PermitsMove DEF ApprovalInv
<1>7. ASSUME NEW s \in Run PROVE RunGood(s)'
  <2>1. CASE s # r
    <3>1. Apart(s) /\ RunGood(s) /\ faults' = faults /\ up' = up
      BY <1>2, <1>4, <2>1 DEF Apart, ApprovalInv
    <3>2. Held(s)' = Held(s) /\ reaping'[s] = reaping[s]
      BY <1>1, <2>1 DEF Thread, Held, Kept, Leaving
    <3> QED
      BY <3>1, <3>2, ApartStaysGood
  <2>2. CASE s = r
    <3>1. RunGood(r)
      BY DEF ApprovalInv
    <3>2. ~Held(r)'
      BY <1>1
    <3>3. RunGood(r)'
      BY <1>2, <1>3, <1>4, <3>1, <3>2 DEF RunGood,
       PlanRuns, SessionPlaced, FilesPlaced, EndPlaced, AskWaits, OutcomeOf, OwnedBy,
       Asking, Stored, Unanswered, Untouched, Active, Terminal
    <3> QED
      BY <2>2, <3>3
  <2> QED
    BY <2>1, <2>2
<1> QED
  BY <1>1, <1>5, <1>6, <1>7 DEF ApprovalInv

\* An answer that finds no session.
LEMMA ClaimNothingKeeps ==
    ASSUME ApprovalInv, ClaimNothing
    PROVE  ApprovalInv'
<1>1. /\ sessions' \in Seq(Run) /\ Len(sessions') <= Capacity /\ stale' = 0
      /\ reaping' \in [Thread -> Seq(Run)]
      /\ \A x \in Run : reaping'[x] = reaping[x]
      /\ SessionsDistinct'
      /\ \A s : Held(s)' <=> Held(s)
  BY ClaimNothingTakes
<1>2. UNCHANGED <<tasks, files, up, pc, todo, code, answer, plans, permits, scope, faults>>
  BY DEF ClaimNothing, disk, memory, copier
<1>3. TypeOK'
  <2>1. Len(sessions') \in Nat
    BY <1>1, LenProperties
  <2> QED
    BY <1>1, <1>2, <2>1 DEF ApprovalInv, TypeOK, Thread
<1>4. ASSUME NEW s \in Run PROVE RunGood(s)'
  <2>1. Apart(s) /\ RunGood(s) /\ faults' = faults /\ up' = up
    BY <1>2 DEF Apart, ApprovalInv
  <2>2. Held(s)' = Held(s)
    BY <1>1 DEF Held, Kept, Leaving
  <2> QED
    BY <1>1, <2>1, <2>2, ApartStaysGood
<1> QED
  BY <1>1, <1>2, <1>3, <1>4, PermitsStay DEF ApprovalInv

\* Time passes for the oldest session.
LEMMA SessionExpiresKeeps ==
    ASSUME ApprovalInv, SessionExpires
    PROVE  ApprovalInv'
<1>1. /\ stale < Len(sessions) /\ stale' = stale + 1
      /\ UNCHANGED <<tasks, files, up, pc, todo, code, answer, sessions, reaping,
                     plans, permits, scope, faults>>
  BY DEF SessionExpires, disk, memory, copier
<1>2. TypeOK'
  <2>1. stale' \in 0 .. Len(sessions)
    BY <1>1, LenProperties DEF ApprovalInv, TypeOK
  <2> QED
    BY <1>1, <2>1 DEF ApprovalInv, TypeOK
<1>3. SessionsDistinct' /\ \A r \in Run : Held(r)' = Held(r)
  BY <1>1, StoreStays DEF ApprovalInv
<1>4. ASSUME NEW r \in Run PROVE RunGood(r)'
  BY <1>1, <1>3, ApartStaysGood DEF ApprovalInv, Apart
<1> QED
  BY <1>1, <1>2, <1>3, <1>4, PermitsStay DEF ApprovalInv

\* Discarding the first session of the list of x, when its task can be failed.
LEMMA DiscardFails ==
    ASSUME ApprovalInv, NEW x \in Thread, NEW s \in Run,
           reaping[x] # <<>>, s = Head(reaping[x]), up,
           plans' = plans \ {s},
           tasks' = [tasks EXCEPT ![s] = Finish(tasks[s], "FAILED")],
           reaping' = [reaping EXCEPT ![x] = Tail(@)],
           UNCHANGED <<files, up, pc, todo, code, answer, sessions, stale, permits, scope, faults>>
    PROVE  ApprovalInv'
<1> DEFINE row == Finish(tasks[s], "FAILED")
           list == reaping[x]
           n == Len(list)
<1>1. row \in Row /\ row.state = "FAILED"
  <2>1. tasks[s] \in Row /\ "FAILED" \in State
    BY DEF ApprovalInv, TypeOK, State, Terminal
  <2> QED
    BY <2>1, RowsOfCalls
<1>2. /\ reaping \in [Thread -> Seq(Run)] /\ list \in Seq(Run) /\ n \in Nat \ {0}
      /\ DOMAIN list = 1 .. n
      /\ Tail(list) \in Seq(Run) /\ DOMAIN Tail(list) = 1 .. (n - 1)
      /\ \A i \in 1 .. (n - 1) : Tail(list)[i] = list[i + 1]
      /\ s = list[1]
  <2>1. reaping \in [Thread -> Seq(Run)] /\ list \in Seq(Run)
    BY DEF ApprovalInv, TypeOK, Thread
  <2>2. n \in Nat \ {0} /\ DOMAIN list = 1 .. n
    BY <2>1, EmptySeq, LenProperties
  <2>3. Tail(list) \in Seq(Run) /\ Len(Tail(list)) = n - 1
        /\ \A i \in 1 .. Len(Tail(list)) : Tail(list)[i] = list[i + 1]
    BY <2>1, HeadTailProperties
  <2>4. DOMAIN Tail(list) = 1 .. (n - 1)
    BY <2>3, LenProperties
  <2>5. Head(list) = list[1]
    BY <2>1
  <2> HIDE DEF list, n
  <2>6. s = list[1]
    BY <2>5 DEF list
  <2> QED
    BY <2>1, <2>2, <2>3, <2>4, <2>6
<1>3. /\ tasks' \in [Run -> Row] /\ tasks'[s] = row
      /\ \A t \in Run \ {s} : tasks'[t] = tasks[t]
      /\ reaping' \in [Thread -> Seq(Run)] /\ reaping'[x] = Tail(list)
      /\ \A y \in Thread \ {x} : reaping'[y] = reaping[y]
  <2> HIDE DEF row
  <2>1. tasks' \in [Run -> Row] /\ tasks'[s] = row /\ \A t \in Run \ {s} : tasks'[t] = tasks[t]
    BY <1>1 DEF ApprovalInv, TypeOK, row
  <2>2. reaping' = [reaping EXCEPT ![x] = Tail(list)]
    OBVIOUS
  <2> HIDE DEF list
  <2> QED
    BY <1>2, <2>1, <2>2
<1> HIDE DEF row, list, n
<1>4. \A y \in Thread : \A i \in DOMAIN reaping'[y] :
          \E j \in DOMAIN reaping[y] :
              /\ reaping'[y][i] = reaping[y][j]
              /\ y = x => j = i + 1
              /\ y # x => j = i
  <2> SUFFICES ASSUME NEW y \in Thread, NEW i \in DOMAIN reaping'[y]
               PROVE  \E j \in DOMAIN reaping[y] :
                          /\ reaping'[y][i] = reaping[y][j]
                          /\ y = x => j = i + 1
                          /\ y # x => j = i
    OBVIOUS
  <2>1. CASE y = x
    <3>1. i \in 1 .. (n - 1) /\ i + 1 \in 1 .. n
      BY <1>2, <1>3, <2>1
    <3> QED
      BY <1>2, <1>3, <2>1, <3>1 DEF list
  <2>2. CASE y # x
    BY <1>3, <2>2
  <2> QED
    BY <2>1, <2>2
<1>5. ASSUME NEW y \in Thread, NEW z \in Thread, NEW k \in DOMAIN reaping[y],
             NEW l \in DOMAIN reaping[z], reaping[y][k] = reaping[z][l]
      PROVE  y = z /\ k = l
  BY <1>5 DEF ApprovalInv, SessionsDistinct
<1>6. SessionsDistinct'
  <2>1. \A i, j \in DOMAIN sessions' : sessions'[i] = sessions'[j] => i = j
    BY DEF ApprovalInv, SessionsDistinct
  <2>2. \A y \in Thread : \A i \in DOMAIN reaping'[y] : ~(reaping'[y][i] \in ToSet(sessions'))
    BY <1>4 DEF ApprovalInv, SessionsDistinct, Kept
  <2>3. ASSUME NEW y \in Thread, NEW z \in Thread, NEW i \in DOMAIN reaping'[y],
               NEW j \in DOMAIN reaping'[z], reaping'[y][i] = reaping'[z][j]
        PROVE  y = z /\ i = j
    <3>1. PICK k \in DOMAIN reaping[y] :
            /\ reaping'[y][i] = reaping[y][k]
            /\ y = x => k = i + 1
            /\ y # x => k = i
      BY <1>4
    <3>2. PICK l \in DOMAIN reaping[z] :
            /\ reaping'[z][j] = reaping[z][l]
            /\ z = x => l = j + 1
            /\ z # x => l = j
      BY <1>4
    <3>3. y = z /\ k = l
      BY <2>3, <3>1, <3>2, <1>5
    <3>4. DOMAIN Tail(list) = 1 .. (n - 1) /\ n \in Nat
      BY <1>2
    <3>5. CASE y = x
      <4>1. i \in Int /\ j \in Int /\ k = i + 1 /\ l = j + 1
        BY <1>3, <3>1, <3>2, <3>3, <3>4, <3>5
      <4>2. i + 1 = j + 1
        BY <3>3, <4>1
      <4>3. i = j
        BY <4>1, <4>2
      <4> QED
        BY <3>3, <4>3
    <3>6. CASE y # x
      BY <3>1, <3>2, <3>3, <3>6
    <3> QED
      BY <3>5, <3>6
  <2> QED
    BY <2>1, <2>2, <2>3 DEF SessionsDistinct, Kept
<1>7. ~Held(s)'
  <2>1. ~Kept(s)
    BY <1>2 DEF ApprovalInv, SessionsDistinct, list
  <2>2. ASSUME NEW y \in Thread, NEW i \in DOMAIN reaping'[y], reaping'[y][i] = s PROVE FALSE
    <3>1. PICK j \in DOMAIN reaping[y] :
            /\ reaping'[y][i] = reaping[y][j]
            /\ y = x => j = i + 1
            /\ y # x => j = i
      BY <1>4
    <3>2. 1 \in DOMAIN reaping[x] /\ reaping[x][1] = s
      BY <1>2 DEF list
    <3>3. y = x /\ j = 1
      BY <2>2, <3>1, <3>2, <1>5
    <3>4. i \in 1 .. (n - 1)
      BY <1>2, <1>3, <3>3
    <3>5. j = i + 1
      BY <3>1, <3>3
    <3> QED
      BY <1>2, <3>3, <3>4, <3>5
  <2> QED
    BY <2>1, <2>2 DEF Held, Kept, Leaving, ToSet
<1>8. ASSUME NEW t \in Run, t # s PROVE Held(t)' = Held(t)
  <2>1. ASSUME NEW y \in Thread PROVE t \in ToSet(reaping'[y]) <=> t \in ToSet(reaping[y])
    <3>1. CASE y # x
      BY <1>3, <3>1
    <3>2. CASE y = x
      <4>1. ASSUME NEW j \in 1 .. n, list[j] = t PROVE \E i \in 1 .. (n - 1) : Tail(list)[i] = t
        <5>1. j # 1
          BY <1>2, <1>8, <4>1
        <5>2. j - 1 \in 1 .. (n - 1) /\ j - 1 + 1 = j
          BY <1>2, <5>1
        <5> QED
          BY <1>2, <4>1, <5>2
      <4>2. ASSUME NEW i \in 1 .. (n - 1), Tail(list)[i] = t PROVE \E j \in 1 .. n : list[j] = t
        <5>1. i + 1 \in 1 .. n
          BY <1>2
        <5> QED
          BY <1>2, <4>2, <5>1
      <4>3. t \in ToSet(Tail(list)) <=> \E i \in 1 .. (n - 1) : Tail(list)[i] = t
        BY <1>2 DEF ToSet
      <4>4. t \in ToSet(list) <=> \E j \in 1 .. n : list[j] = t
        BY <1>2 DEF ToSet
      <4> QED
        BY <1>3, <3>2, <4>1, <4>2, <4>3, <4>4 DEF list
    <3> QED
      BY <3>1, <3>2
  <2> QED
    BY <2>1 DEF Held, Kept, Leaving
<1>9. Held(s)
  <2>1. 1 \in DOMAIN reaping[x] /\ reaping[x][1] = s
    BY <1>2 DEF list
  <2> QED
    BY <2>1 DEF Held, Leaving, ToSet
<1>10. TypeOK'
  BY <1>3 DEF ApprovalInv, TypeOK, Thread
<1>11. ASSUME NEW t \in Run PROVE RunGood(t)'
  <2>1. CASE t # s
    <3>1. reaping'[t] # <<>> => reaping[t] # <<>>
      <4>1. CASE t = x
        BY <4>1
      <4>2. CASE t # x
        BY <1>3, <4>2 DEF Thread
      <4> QED
        BY <4>1, <4>2
    <3>2. /\ RunGood(t) /\ Held(t)' = Held(t) /\ tasks'[t] = tasks[t]
          /\ t \in plans' => t \in plans
      BY <1>3, <1>8, <2>1 DEF ApprovalInv
    <3> QED
      BY <3>1, <3>2 DEF RunGood,
       PlanRuns, SessionPlaced, FilesPlaced, EndPlaced, AskWaits, OutcomeOf, OwnedBy,
       Asking, Stored, Unanswered, Untouched, Active, Terminal
  <2>2. CASE t = s
    <3>1. reaping'[s] # <<>> => reaping[s] # <<>>
      <4>1. CASE s = x
        BY <4>1
      <4>2. CASE s # x
        BY <1>3, <4>2 DEF Thread
      <4> QED
        BY <4>1, <4>2
    <3>2. RunGood(s) /\ tasks'[s].state = "FAILED" /\ s \notin plans'
      BY <1>1, <1>3 DEF ApprovalInv
    <3>3. RunGood(s)'
      BY <1>7, <1>9, <3>1, <3>2 DEF RunGood,
       PlanRuns, SessionPlaced, FilesPlaced, EndPlaced, AskWaits, OutcomeOf, OwnedBy,
       Asking, Stored, Unanswered, Untouched, Active, Terminal
    <3> QED
      BY <2>2, <3>3
  <2> QED
    BY <2>1, <2>2
<1> QED
  BY <1>6, <1>10, <1>11, PermitsStay DEF ApprovalInv

\* Discarding raises: the thread x loses its list, and its run, if it is one, fails.
LEMMA DiscardRaises ==
    ASSUME ApprovalInv, NEW x \in Thread, NEW s \in Run,
           reaping[x] # <<>>, s = Head(reaping[x]), up,
           plans' = plans \ {s}, ReapingRaises(x),
           faults' = faults + 1 \/ (faults' = faults /\ ~CanFail(tasks[s])),
           UNCHANGED <<files, up, todo, answer, sessions, stale, permits, scope>>
    PROVE  ApprovalInv'
<1>1. Held(s)
  <2>1. reaping[x] \in Seq(Run)
    BY DEF ApprovalInv, TypeOK, Thread
  <2>2. DOMAIN reaping[x] = 1 .. Len(reaping[x]) /\ Len(reaping[x]) \in Nat \ {0}
    BY <2>1, EmptySeq, LenProperties
  <2>3. Head(reaping[x]) = reaping[x][1] /\ 1 \in DOMAIN reaping[x]
    BY <2>1, <2>2
  <2> QED
    BY <2>3 DEF Held, Leaving, ToSet
<1>2. faults' \in Nat /\ faults' # 0
  <2>1. faults = 0 => CanFail(tasks[s])
    BY <1>1 DEF ApprovalInv, RunGood, AskWaits, CanFail, Active
  <2> QED
    BY <2>1 DEF ApprovalInv, TypeOK
<1>3. /\ tasks' = tasks
      /\ reaping' \in [Thread -> Seq(Run)] /\ reaping'[x] = <<>>
      /\ \A y \in Thread \ {x} : reaping'[y] = reaping[y]
  <2>1. reaping' = [reaping EXCEPT ![x] = <<>>] /\ tasks' = tasks
    BY DEF ReapingRaises
  <2>2. <<>> \in Seq(Run) /\ reaping \in [Thread -> Seq(Run)]
    BY EmptySeq DEF ApprovalInv, TypeOK, Thread
  <2> QED
    BY <2>1, <2>2
<1>4. SessionsDistinct'
  <2>1. \A y \in Thread : \A i \in DOMAIN reaping'[y] :
            y # x /\ i \in DOMAIN reaping[y] /\ reaping'[y][i] = reaping[y][i]
    BY <1>3
  <2>2. \A y \in Thread : \A i \in DOMAIN reaping'[y] : ~(reaping'[y][i] \in ToSet(sessions'))
    BY <2>1 DEF ApprovalInv, SessionsDistinct, Kept
  <2>3. ASSUME NEW y \in Thread, NEW z \in Thread, NEW i \in DOMAIN reaping'[y],
               NEW j \in DOMAIN reaping'[z], reaping'[y][i] = reaping'[z][j]
        PROVE  y = z /\ i = j
    BY <2>1, <2>3 DEF ApprovalInv, SessionsDistinct
  <2>4. \A i, j \in DOMAIN sessions' : sessions'[i] = sessions'[j] => i = j
    BY DEF ApprovalInv, SessionsDistinct
  <2> QED
    BY <2>2, <2>3, <2>4 DEF SessionsDistinct, Kept
<1>5. ASSUME NEW t, Held(t)' PROVE Held(t)
  <2>1. ToSet(reaping'[x]) = {}
    BY <1>3 DEF ToSet
  <2> QED
    BY <1>3, <1>5, <2>1 DEF Held, Kept, Leaving
<1>6. /\ pc' \in [Run -> PC] /\ code' \in [Run -> Code]
      /\ \A t \in Run \ {x} : pc'[t] = pc[t] /\ code'[t] = code[t]
      /\ x \in Run => \/ pc[x] = "await" /\ pc'[x] = "failed" /\ code'[x] = "other"
                      \/ pc[x] # "await" /\ pc'[x] = "raised" /\ code'[x] = code[x]
  <2>1. CASE x = Visitor
    <3>1. UNCHANGED <<pc, code>> /\ x \notin Run
      BY <2>1, VisitorAssumption DEF ReapingRaises
    <3> QED
      BY <3>1 DEF ApprovalInv, TypeOK
  <2>2. CASE x # Visitor
    BY <2>2 DEF ReapingRaises, ApprovalInv, TypeOK, Thread, Goto, GotoWith, PC, Code
  <2> QED
    BY <2>1, <2>2
<1>7. x \in Run => pc[x] \in {"await", "approved", "declined"}
  BY DEF ApprovalInv, RunGood, SessionPlaced
<1>8. TypeOK'
  BY <1>2, <1>3, <1>6 DEF ApprovalInv, TypeOK, Thread
<1>9. PermitsBalanced'
  <2>1. Holders' = Holders
    BY <1>6, <1>7 DEF Holders, Holding
  <2> QED
    BY <2>1 DEF ApprovalInv, PermitsBalanced
<1>10. ASSUME NEW t \in Run PROVE RunGood(t)'
  <2>1. /\ RunGood(t) /\ (Held(t)' => Held(t)) /\ tasks'[t] = tasks[t] /\ files'[t] = files[t]
        /\ todo'[t] = todo[t] /\ answer'[t] = answer[t] /\ up' = up /\ (t \in plans' => t \in plans)
    BY <1>3, <1>5 DEF ApprovalInv
  <2>2. CASE t = x
    <3>1. reaping'[t] = <<>>
      BY <1>3, <2>2
    <3>2. /\ pc[t] \in {"await", "approved", "declined"}
          /\ \/ pc[t] = "await" /\ pc'[t] = "failed" /\ code'[t] = "other"
             \/ pc[t] # "await" /\ pc'[t] = "raised" /\ code'[t] = code[t]
      BY <1>6, <1>7, <2>2
    <3> QED
      BY <1>2, <2>1, <3>1, <3>2 DEF RunGood,
       PlanRuns, SessionPlaced, FilesPlaced, EndPlaced, AskWaits, OutcomeOf, OwnedBy,
       Asking, Stored, Unanswered, Untouched, Active, Terminal
  <2>3. CASE t # x
    <3>1. reaping'[t] = reaping[t] /\ pc'[t] = pc[t] /\ code'[t] = code[t]
      BY <1>3, <1>6, <2>3 DEF Thread
    <3> QED
      BY <1>2, <2>1, <3>1 DEF RunGood,
       PlanRuns, SessionPlaced, FilesPlaced, EndPlaced, AskWaits, OutcomeOf, OwnedBy,
       Asking, Stored, Unanswered, Untouched, Active, Terminal
  <2> QED
    BY <2>2, <2>3
<1> QED
  BY <1>4, <1>8, <1>9, <1>10 DEF ApprovalInv

\* _discard_sessions()
LEMMA DiscardSessionKeeps ==
    ASSUME ApprovalInv, NEW x \in Thread, DiscardSession(x)
    PROVE  ApprovalInv'
<1> DEFINE s == Head(reaping[x])
<1>1. s \in Run
  <2>1. reaping[x] \in Seq(Run) /\ reaping[x] # <<>>
    BY DEF ApprovalInv, TypeOK, Thread, DiscardSession
  <2> QED
    BY <2>1, HeadTailProperties
<1>2. /\ up /\ reaping[x] # <<>> /\ plans' = plans \ {s}
      /\ UNCHANGED <<files, up, todo, answer, sessions, stale, permits, scope>>
  BY DEF DiscardSession
<1>3. CASE /\ Write(s, Finish(tasks[s], "FAILED"))
           /\ reaping' = [reaping EXCEPT ![x] = Tail(@)]
           /\ UNCHANGED <<pc, code, faults>>
  BY <1>1, <1>2, <1>3, DiscardFails DEF Write
<1>4. CASE ReapingRaises(x) /\ (faults' = faults + 1 \/ (faults' = faults /\ ~CanFail(tasks[s])))
  BY <1>1, <1>2, <1>4, DiscardRaises
<1> QED
  BY <1>3, <1>4 DEF DiscardSession

\* The process dies.
LEMMA CrashKeeps ==
    ASSUME ApprovalInv, Crash
    PROVE  ApprovalInv'
<1>1. /\ up' = FALSE /\ pc' = [r \in Run |-> IF pc[r] = "idle" THEN "idle" ELSE "gone"]
      /\ sessions' = <<>> /\ stale' = 0 /\ reaping' = NothingToReap
      /\ plans' = {} /\ permits' = MaxConcurrency
      /\ UNCHANGED <<tasks, files, todo, code, answer, scope, faults>>
  BY DEF Crash, disk
<1>2. \A x \in Thread : reaping'[x] = <<>> /\ DOMAIN reaping'[x] = {}
  BY <1>1 DEF NothingToReap, Thread
<1>3. TypeOK'
  <2>1. <<>> \in Seq(Run) /\ Len(<<>>) = 0
    BY EmptySeq
  <2>2. sessions' \in Seq(Run) /\ Len(sessions') <= Capacity /\ stale' \in 0 .. Len(sessions')
    BY <1>1, <2>1, LimitsAssumption
  <2>3. reaping' \in [Run \cup {Visitor} -> Seq(Run)]
    BY <1>1, <2>1 DEF NothingToReap
  <2>4. pc' \in [Run -> PC] /\ permits' \in 0 .. MaxConcurrency
    BY <1>1, LimitsAssumption DEF PC
  <2> QED
    BY <1>1, <2>2, <2>3, <2>4 DEF ApprovalInv, TypeOK
<1>4. PermitsBalanced'
  <2>1. Holders' = {}
    BY <1>1 DEF Holders, Holding
  <2>2. IsFiniteSet(Holders') /\ Cardinality(Holders') = 0
    BY <2>1, FS_EmptySet
  <2> QED
    BY <1>1, <2>2, LimitsAssumption DEF PermitsBalanced
<1>5. \A s : ~Held(s)'
  BY <1>1, <1>2 DEF Held, Kept, Leaving, ToSet
<1>6. SessionsDistinct'
  BY <1>1, <1>2 DEF SessionsDistinct
<1>7. ASSUME NEW r \in Run PROVE RunGood(r)'
  <2>1. RunGood(r) /\ ~Held(r)' /\ reaping'[r] = <<>> /\ r \notin plans' /\ ~up'
    BY <1>1, <1>2, <1>5 DEF ApprovalInv, Thread
  <2>2. pc'[r] \in {"idle", "gone"} /\ (pc'[r] = "idle" => pc[r] = "idle")
    BY <1>1
  <2> QED
    BY <1>1, <2>1, <2>2 DEF RunGood,
       PlanRuns, SessionPlaced, FilesPlaced, EndPlaced, AskWaits, OutcomeOf, OwnedBy,
       Asking, Stored, Unanswered, Untouched, Active, Terminal
<1> QED
  BY <1>3, <1>4, <1>6, <1>7 DEF ApprovalInv

\* recover_after_restart()
LEMMA RestartKeeps ==
    ASSUME ApprovalInv, Restart
    PROVE  ApprovalInv'
<1>1. /\ ~up /\ up' = TRUE
      /\ tasks' = [r \in Run |-> IF tasks[r].state \in Active
                                 THEN RecoveredRow(tasks[r]) ELSE tasks[r]]
      /\ UNCHANGED <<files, pc, todo, code, answer, sessions, stale, reaping,
                     plans, permits, scope, faults>>
  BY DEF Restart, memory, store, copier
<1>2. ASSUME NEW r \in Run
      PROVE  /\ tasks'[r] \in Row
             /\ \/ tasks[r].state \in Active /\ tasks'[r].state \in {"INTERRUPTED", "FAILED"}
                \/ tasks[r].state \notin Active /\ tasks'[r] = tasks[r]
  <2>1. tasks[r] \in Row
    BY DEF ApprovalInv, TypeOK
  <2>2. RecoveredRow(tasks[r]) \in Row /\ RecoveredRow(tasks[r]).state \in {"INTERRUPTED", "FAILED"}
    BY <2>1, RowsOfCalls
  <2> QED
    BY <1>1, <2>1, <2>2
<1>3. TypeOK'
  <2>1. tasks' \in [Run -> Row]
    BY <1>1, <1>2
  <2> QED
    BY <1>1, <2>1 DEF ApprovalInv, TypeOK
<1>4. SessionsDistinct' /\ \A r \in Run : Held(r)' = Held(r)
  BY <1>1, StoreStays DEF ApprovalInv
<1>5. ASSUME NEW r \in Run PROVE RunGood(r)'
  <2>1. RunGood(r) /\ Held(r)' = Held(r)
    BY <1>4 DEF ApprovalInv
  <2>2. pc[r] \in {"idle", "gone"} /\ ~Held(r) /\ r \notin plans
    BY <1>1, <2>1 DEF RunGood, SessionPlaced
  <2> QED
    BY <1>1, <1>2, <2>1, <2>2 DEF RunGood,
       PlanRuns, SessionPlaced, FilesPlaced, EndPlaced, AskWaits, OutcomeOf, OwnedBy,
       Asking, Stored, Unanswered, Untouched, Active, Terminal
<1> QED
  BY <1>1, <1>3, <1>4, <1>5, PermitsStay DEF ApprovalInv

-----------------------------------------------------------------------------
(* The theorems.                                                             *)

\* Every run is at the beginning.
LEMMA InitGood == Init => ApprovalInv
<1> SUFFICES ASSUME Init PROVE ApprovalInv
  OBVIOUS
<1>1. \A x \in Thread : reaping[x] = <<>> /\ DOMAIN reaping[x] = {}
  BY DEF Init, NothingToReap, Thread
<1>2. TypeOK
  <2>1. <<>> \in Seq(Run) /\ Len(<<>>) = 0
    BY EmptySeq
  <2>2. sessions \in Seq(Run) /\ Len(sessions) <= Capacity /\ stale \in 0 .. Len(sessions)
    BY <2>1, LimitsAssumption DEF Init
  <2>3. reaping \in [Run \cup {Visitor} -> Seq(Run)]
    BY <2>1 DEF Init, NothingToReap
  <2>4. permits \in 0 .. MaxConcurrency
    BY LimitsAssumption DEF Init
  <2> QED
    BY <2>2, <2>3, <2>4, FirstRows DEF Init, TypeOK, PC, Files, Code
<1>3. PermitsBalanced
  <2>1. Holders = {}
    BY DEF Init, Holders, Holding
  <2> QED
    BY <2>1, FS_EmptySet, LimitsAssumption DEF Init, PermitsBalanced
<1>4. \A s : ~Held(s)
  BY <1>1 DEF Init, Held, Kept, Leaving, ToSet
<1>5. SessionsDistinct
  BY <1>1 DEF Init, SessionsDistinct
<1>6. ASSUME NEW r \in Run PROVE RunGood(r)
  BY <1>1, <1>4, FirstRows DEF Init, Thread, RunGood,
       PlanRuns, SessionPlaced, FilesPlaced, EndPlaced, AskWaits, OutcomeOf, OwnedBy,
       Asking, Stored, Unanswered, Untouched, Active, Terminal
<1> QED
  BY <1>2, <1>3, <1>5, <1>6 DEF ApprovalInv

\* Every action keeps the invariant, and so does a stutter.
LEMMA NextGood == ApprovalInv /\ [Next]_vars => ApprovalInv'
<1> SUFFICES ASSUME ApprovalInv, [Next]_vars PROVE ApprovalInv'
  OBVIOUS
<1>1. ASSUME NEW r \in Run, ThreadStep(r) PROVE ApprovalInv'
  BY <1>1, LedgerStartKeeps, NextStepKeeps, SearchKeeps, RecordResultsKeeps, PrepareKeeps,
     CreateCopyPlanKeeps, PutKeeps, AwaitingApprovalKeeps, CompleteKeeps, FailureKeeps,
     CancelledKeeps, DeclinedKeeps, ApprovalReceivedKeeps, CommitKeeps, TakePlanKeeps,
     PublishKeeps, CopySucceedsKeeps, CopyRaisesKeeps, RecordCopiedKeeps, UndoKeeps
     DEF ThreadStep
<1>2. ASSUME NEW r \in Run, Environment(r) PROVE ApprovalInv'
  BY <1>2, ExecuteKeeps, ClaimKeeps, RequestCancelKeeps, PlanExpiresKeeps, LedgerRaisesKeeps,
     ApprovalLostKeeps DEF Environment
<1>3. ASSUME NEW x \in Thread, DiscardSession(x) PROVE ApprovalInv'
  BY <1>3, DiscardSessionKeeps
<1>4. CASE ClaimNothing \/ SessionExpires \/ ScopeChanges \/ Crash \/ Restart
  BY <1>4, ClaimNothingKeeps, SessionExpiresKeeps, ScopeChangesKeeps, CrashKeeps, RestartKeeps
<1>5. CASE UNCHANGED vars
  <2>1. UNCHANGED <<tasks, files, up, pc, todo, code, answer, sessions, stale, reaping,
                    plans, permits, scope, faults>>
    BY <1>5 DEF vars, disk, memory, store, copier
  <2>2. TypeOK' /\ PermitsBalanced'
    BY <2>1, PermitsStay DEF ApprovalInv, TypeOK
  <2>3. SessionsDistinct' /\ \A r \in Run : Held(r)' = Held(r)
    BY <2>1, StoreStays DEF ApprovalInv
  <2>4. ASSUME NEW r \in Run PROVE RunGood(r)'
    BY <2>1, <2>3, ApartStaysGood DEF ApprovalInv, Apart
  <2> QED
    BY <2>2, <2>3, <2>4 DEF ApprovalInv
<1> QED
  BY <1>1, <1>2, <1>3, <1>4, <1>5 DEF Next, Thread

\* The invariant holds, whatever the sizes of the store and of the limits.
THEOREM ApprovalInvariant == Spec => []ApprovalInv
<1>1. Init => ApprovalInv
  BY InitGood
<1>2. ApprovalInv /\ [Next]_vars => ApprovalInv'
  BY NextGood
<1> QED
  BY <1>1, <1>2, PTL DEF Spec

\* Every variable keeps its type; the store never holds more sessions than its
\* capacity, and no permit is given twice or lost.
THEOREM ApprovalTypeCorrect == Spec => []TypeOK
<1>1. ApprovalInv => TypeOK
  BY DEF ApprovalInv
<1> QED
  BY <1>1, ApprovalInvariant, PTL

\* What the user is told about a run and what the run has left on disk agree.
THEOREM OutcomesMatchEffects == Spec => []OutcomeMatchesEffect
<1>1. ApprovalInv => OutcomeMatchesEffect
  BY DEF ApprovalInv, RunGood, OutcomeOf, OutcomeMatchesEffect
<1> QED
  BY <1>1, ApprovalInvariant, PTL

\* As long as the storage works, a task that waits for its approval and a
\* prepared copy plan always have a session, or a thread about to end them.
THEOREM PreparedWorkHasOwner == Spec => []PreparedWorkIsOwned
<1>1. ApprovalInv => PreparedWorkIsOwned
  BY DEF ApprovalInv, RunGood, OwnedBy, PreparedWorkIsOwned, Held, Kept, Leaving, Thread
<1> QED
  BY <1>1, ApprovalInvariant, PTL

-----------------------------------------------------------------------------
(* The protocol implements Consent.                                          *)

\* Whose files may change: the part of phase that the place of a thread decides.
Confirmed == {"approved", "commit", "committing", "copying"}
PlacePhase(p) == IF p \in Confirmed THEN "confirmed" ELSE IF p \in Asking THEN "idle" ELSE "closed"

\* The phase of every run.
LEMMA PhaseAt ==
    /\ phase \in [Run -> Promise!Phases]
    /\ \A r \in Run : phase[r] = IF Kept(r) THEN "asked" ELSE PlacePhase(pc[r])
BY DEF phase, Promise!Phases, Kept, PlacePhase, Confirmed, Asking

\* The phase of every run after a step.
LEMMA PhaseNext ==
    /\ phase' \in [Run -> Promise!Phases]
    /\ \A r \in Run : phase'[r] = IF Kept(r)' THEN "asked" ELSE PlacePhase(pc'[r])
BY DEF phase, Promise!Phases, Kept, PlacePhase, Confirmed, Asking

\* A stored session's thread has left the places that are idle or confirmed.
LEMMA StoredClosed ==
    ASSUME ApprovalInv, NEW r \in Run, Held(r)
    PROVE  PlacePhase(pc[r]) = "closed"
BY DEF ApprovalInv, RunGood, SessionPlaced, Stored, PlacePhase, Confirmed, Asking

\* A step in which sessions leave the store and threads stay where their phase
\* is, or end, closes questions.
LEMMA Closing ==
    ASSUME ApprovalInv, UNCHANGED files,
           \A s \in Run : Kept(s)' => Kept(s),
           \A s \in Run : \/ PlacePhase(pc'[s]) = "closed"
                          \/ PlacePhase(pc'[s]) = PlacePhase(pc[s])
    PROVE  Promise!Next
<1>1. ASSUME NEW s \in Run PROVE phase'[s] \in {phase[s], "closed"}
  <2>1. CASE Kept(s)'
    BY <2>1, PhaseAt, PhaseNext
  <2>2. CASE ~Kept(s)' /\ Kept(s)
    BY <2>2, PhaseNext, StoredClosed DEF Held
  <2>3. CASE ~Kept(s)' /\ ~Kept(s)
    BY <2>3, PhaseAt, PhaseNext
  <2> QED
    BY <2>1, <2>2, <2>3
<1> QED
  BY <1>1, PhaseNext DEF Promise!Next, Promise!Close, Promise!ClosesAmong

\* Such is every step of one thread that leaves the store and the files alone.
LEMMA QuietStep ==
    ASSUME ApprovalInv, NEW r \in Run, UNCHANGED <<files, sessions>>,
           \A s \in Run \ {r} : pc'[s] = pc[s],
           PlacePhase(pc'[r]) \in {PlacePhase(pc[r]), "closed"}
    PROVE  Promise!Next
BY Closing DEF Kept

\* One thread moves to a place of its phase, or to its end.
Quiet(r) ==
    /\ UNCHANGED <<files, sessions>>
    /\ \E q \in PC : /\ pc' = [pc EXCEPT ![r] = q]
                     /\ PlacePhase(q) \in {PlacePhase(pc[r]), "closed"}

\* Such a move is a step of Consent.
LEMMA QuietCloses ==
    ASSUME ApprovalInv, NEW r \in Run, Quiet(r)
    PROVE  Promise!Next
<1>1. PICK q \in PC : /\ pc' = [pc EXCEPT ![r] = q]
                      /\ PlacePhase(q) \in {PlacePhase(pc[r]), "closed"}
  BY DEF Quiet
<1>2. pc'[r] = q /\ \A s \in Run \ {r} : pc'[s] = pc[s]
  BY <1>1 DEF ApprovalInv, TypeOK
<1> QED
  BY <1>1, <1>2, QuietStep DEF Quiet

\* The steps of a run's own thread that touch neither the store nor the files.
LEMMA QuietActions ==
    ASSUME ApprovalInv, NEW r \in Run,
           \/ LedgerStart(r) \/ NextStep(r) \/ Search(r) \/ RecordResults(r) \/ Prepare(r)
           \/ CreateCopyPlan(r) \/ AwaitingApproval(r) \/ Complete(r) \/ Failure(r)
           \/ Cancelled(r) \/ Declined(r) \/ ApprovalReceived(r) \/ Commit(r) \/ TakePlan(r)
           \/ RecordCopied(r) \/ Undo(r) \/ Execute(r) \/ LedgerRaises(r) \/ ApprovalLost(r)
    PROVE  Promise!Next
<1> USE DEF Quiet, At, Goto, disk, store, PlacePhase, Confirmed, Asking, PC
<1>1. CASE LedgerStart(r)
  <2>1. Quiet(r)
    BY <1>1 DEF LedgerStart, LedgerCall, OnlyLedger
  <2> QED
    BY <2>1, QuietCloses
<1>2. CASE NextStep(r)
  <2>1. Quiet(r)
    BY <1>2 DEF NextStep, GotoWith
  <2> QED
    BY <2>1, QuietCloses
<1>3. CASE Search(r)
  <2>1. Quiet(r)
    BY <1>3 DEF Search, GotoWith
  <2> QED
    BY <2>1, QuietCloses
<1>4. CASE RecordResults(r)
  <2>1. Quiet(r)
    BY <1>4 DEF RecordResults, LedgerCall, OnlyLedger
  <2> QED
    BY <2>1, QuietCloses
<1>5. CASE Prepare(r)
  <2>1. Quiet(r)
    BY <1>5 DEF Prepare, Dispatch, GotoWith
  <2> QED
    BY <2>1, QuietCloses
<1>6. CASE CreateCopyPlan(r)
  <2>1. Quiet(r)
    BY <1>6 DEF CreateCopyPlan, GotoWith
  <2> QED
    BY <2>1, QuietCloses
<1>7. CASE AwaitingApproval(r)
  <2>1. Quiet(r)
    BY <1>7 DEF AwaitingApproval, LedgerCall, OnlyLedger
  <2> QED
    BY <2>1, QuietCloses
<1>8. CASE Complete(r)
  <2>1. Quiet(r)
    BY <1>8 DEF Complete, LedgerCall, OnlyLedger
  <2> QED
    BY <2>1, QuietCloses
<1>9. CASE Failure(r)
  <2>1. Quiet(r)
    BY <1>9 DEF Failure, LedgerCall, OnlyLedger
  <2> QED
    BY <2>1, QuietCloses
<1>10. CASE Cancelled(r)
  <2>1. Quiet(r)
    BY <1>10 DEF Cancelled, LedgerCall, OnlyLedger
  <2> QED
    BY <2>1, QuietCloses
<1>11. CASE Declined(r)
  <2>1. Quiet(r)
    BY <1>11 DEF Declined, LedgerCall
  <2> QED
    BY <2>1, QuietCloses
<1>12. CASE ApprovalReceived(r)
  <2>1. Quiet(r)
    BY <1>12 DEF ApprovalReceived, GotoWith
  <2> QED
    BY <2>1, QuietCloses
<1>13. CASE Commit(r)
  <2>1. Quiet(r)
    BY <1>13 DEF Commit, Dispatch, GotoWith
  <2> QED
    BY <2>1, QuietCloses
<1>14. CASE TakePlan(r)
  <2>1. Quiet(r)
    BY <1>14 DEF TakePlan, GotoWith
  <2> QED
    BY <2>1, QuietCloses
<1>15. CASE RecordCopied(r)
  <2>1. Quiet(r)
    BY <1>15 DEF RecordCopied, LedgerCall, OnlyLedger
  <2> QED
    BY <2>1, QuietCloses
<1>16. CASE Undo(r)
  <2>1. Quiet(r)
    BY <1>16 DEF Undo, LedgerCall
  <2> QED
    BY <2>1, QuietCloses
<1>17. CASE Execute(r)
  <2>1. Quiet(r)
    BY <1>17 DEF Execute
  <2> QED
    BY <2>1, QuietCloses
<1>18. CASE LedgerRaises(r)
  <2>1. Quiet(r)
    BY <1>18 DEF LedgerRaises
  <2> QED
    BY <2>1, QuietCloses
<1>19. CASE ApprovalLost(r)
  <2>1. Quiet(r)
    BY <1>19 DEF ApprovalLost, GotoWith
  <2> QED
    BY <2>1, QuietCloses
<1> QED
  BY <1>1, <1>2, <1>3, <1>4, <1>5, <1>6, <1>7, <1>8, <1>9, <1>10, <1>11, <1>12, <1>13, <1>14,
     <1>15, <1>16, <1>17, <1>18, <1>19

\* A copy acts on the files of its run, under the consent that was given.
LEMMA CopyActs ==
    ASSUME ApprovalInv, NEW r \in Run, Publish(r) \/ CopySucceeds(r) \/ CopyRaises(r)
    PROVE  Promise!Next
<1>1. pc[r] = "copying" /\ UNCHANGED sessions
  BY DEF Publish, CopySucceeds, CopyRaises, At, store
<1>2. PICK e \in Files : files' = [files EXCEPT ![r] = e]
  <2>1. files = [files EXCEPT ![r] = files[r]] /\ files[r] \in Files
    BY DEF ApprovalInv, TypeOK
  <2>2. \E e \in {"none", "some", "all", files[r]} : files' = [files EXCEPT ![r] = e]
    BY <2>1 DEF Publish, CopySucceeds, CopyRaises
  <2> QED
    BY <2>1, <2>2 DEF Files
<1>3. \/ pc' = pc
      \/ \E q \in {"copied", "undo"} : pc' = [pc EXCEPT ![r] = q]
  BY DEF Publish, CopySucceeds, CopyRaises, Goto, GotoWith, memory
<1>4. \A s \in Run : Kept(s)' = Kept(s)
  BY <1>1 DEF Kept
<1>5. ~Kept(r) /\ phase[r] = "confirmed"
  <2>1. ~Kept(r)
    BY <1>1 DEF ApprovalInv, RunGood, SessionPlaced, Stored, Held
  <2> QED
    BY <1>1, <2>1, PhaseAt DEF PlacePhase, Confirmed
<1>6. \A s \in Run \ {r} : phase'[s] = phase[s]
  BY <1>3, <1>4, PhaseAt, PhaseNext DEF ApprovalInv, TypeOK
<1>7. phase'[r] \in {"confirmed", "closed"}
  BY <1>1, <1>3, <1>4, <1>5, PhaseNext DEF ApprovalInv, TypeOK, PlacePhase, Confirmed, Asking
<1>8. phase' \in {phase, [phase EXCEPT ![r] = "closed"]}
  BY <1>5, <1>6, <1>7, PhaseAt, PhaseNext
<1>9. Promise!Act(r)
  BY <1>2, <1>5, <1>8 DEF Promise!Act
<1> QED
  BY <1>9 DEF Promise!Next

\* put() asks, and may displace older questions.
LEMMA PutAsks ==
    ASSUME ApprovalInv, NEW r \in Run, Put(r)
    PROVE  Promise!Next
<1>1. Kept(r)' /\ \A s : Kept(s)' => Kept(s) \/ s = r
  BY PutStores
<1>2. /\ pc[r] = "put" /\ pc' = [pc EXCEPT ![r] = "await"] /\ UNCHANGED files
  BY DEF Put, At, Goto, disk
<1>3. phase[r] = "idle" /\ phase'[r] = "asked"
  <2>1. ~Kept(r)
    BY <1>2 DEF ApprovalInv, RunGood, SessionPlaced, Stored, Held
  <2> QED
    BY <1>1, <1>2, <2>1, PhaseAt, PhaseNext DEF PlacePhase, Confirmed, Asking
<1>4. ASSUME NEW s \in Run \ {r} PROVE phase'[s] \in {phase[s], "closed"}
  <2>1. pc'[s] = pc[s] /\ (Kept(s)' => Kept(s))
    BY <1>1, <1>2 DEF ApprovalInv, TypeOK
  <2>2. CASE Kept(s) /\ ~Kept(s)'
    BY <2>1, <2>2, PhaseNext, StoredClosed DEF Held
  <2>3. CASE Kept(s) <=> Kept(s)'
    BY <2>1, <2>3, PhaseAt, PhaseNext
  <2> QED
    BY <2>1, <2>2, <2>3
<1>5. Promise!Ask(r)
  BY <1>2, <1>3, <1>4, PhaseNext DEF Promise!Ask, Promise!ClosesAmong
<1> QED
  BY <1>5 DEF Promise!Next

\* A confirming answer is accepted once; a declining one closes the question.
LEMMA ClaimConfirms ==
    ASSUME ApprovalInv, NEW r \in Run, NEW given \in {"confirmed", "declined"}, Claim(r, given)
    PROVE  Promise!Next
<1>1. Kept(r) /\ ~Held(r)' /\ \A s : Kept(s)' => Kept(s)
  BY ClaimTakes
<1>2. /\ pc' = [pc EXCEPT ![r] = IF given = "confirmed" THEN "approved" ELSE "declined"]
      /\ UNCHANGED files
  BY DEF Claim, Goto, disk
<1>3. /\ phase[r] = "asked"
      /\ phase'[r] = IF given = "confirmed" THEN "confirmed" ELSE "closed"
  <2>1. ~Kept(r)'
    BY <1>1 DEF Held
  <2>2. pc'[r] = IF given = "confirmed" THEN "approved" ELSE "declined"
    BY <1>2 DEF ApprovalInv, TypeOK
  <2> QED
    BY <1>1, <2>1, <2>2, PhaseAt, PhaseNext DEF PlacePhase, Confirmed, Asking
<1>4. ASSUME NEW s \in Run \ {r} PROVE phase'[s] \in {phase[s], "closed"}
  <2>1. pc'[s] = pc[s] /\ (Kept(s)' => Kept(s))
    BY <1>1, <1>2 DEF ApprovalInv, TypeOK
  <2>2. CASE Kept(s) /\ ~Kept(s)'
    BY <2>1, <2>2, PhaseNext, StoredClosed DEF Held
  <2>3. CASE Kept(s) <=> Kept(s)'
    BY <2>1, <2>3, PhaseAt, PhaseNext
  <2> QED
    BY <2>1, <2>2, <2>3
<1>5. CASE given = "confirmed"
  <2>1. Promise!Confirm(r)
    BY <1>2, <1>3, <1>4, <1>5, PhaseNext DEF Promise!Confirm, Promise!ClosesAmong
  <2> QED
    BY <2>1 DEF Promise!Next
<1>6. CASE given # "confirmed"
  <2>1. Promise!Close
    BY <1>2, <1>3, <1>4, <1>6, PhaseNext DEF Promise!Close, Promise!ClosesAmong
  <2> QED
    BY <2>1 DEF Promise!Next
<1> QED
  BY <1>5, <1>6

\* The steps in which no run's own thread takes part.
LEMMA OthersClose ==
    ASSUME ApprovalInv,
           \/ ClaimNothing \/ SessionExpires \/ ScopeChanges \/ Crash \/ Restart
           \/ \E r \in Run : RequestCancel(r) \/ PlanExpires(r)
           \/ \E x \in Thread : DiscardSession(x)
           \/ UNCHANGED vars
    PROVE  Promise!Next
<1>1. CASE ClaimNothing
  <2>1. UNCHANGED <<files, pc>>
    BY <1>1 DEF ClaimNothing, disk, memory
  <2> QED
    BY <1>1, <2>1, ClaimNothingTakes, Closing
<1>2. CASE \/ SessionExpires \/ ScopeChanges \/ Restart \/ UNCHANGED vars
           \/ \E r \in Run : RequestCancel(r) \/ PlanExpires(r)
  <2>1. UNCHANGED <<files, pc, sessions>>
    BY <1>2 DEF SessionExpires, ScopeChanges, Restart, RequestCancel, PlanExpires, vars,
       disk, memory, store
  <2> QED
    BY <2>1, Closing DEF Kept
<1>3. CASE Crash
  <2>1. /\ UNCHANGED files /\ sessions' = <<>>
        /\ pc' = [r \in Run |-> IF pc[r] = "idle" THEN "idle" ELSE "gone"]
    BY <1>3 DEF Crash, disk
  <2>2. \A s \in Run : ~Kept(s)'
    BY <2>1 DEF Kept, ToSet
  <2>3. \A s \in Run : PlacePhase(pc'[s]) \in {PlacePhase(pc[s]), "closed"}
    BY <2>1 DEF PlacePhase, Confirmed, Asking
  <2> QED
    BY <2>1, <2>2, <2>3, Closing
<1>4. ASSUME NEW x \in Thread, DiscardSession(x) PROVE Promise!Next
  <2>1. UNCHANGED <<files, sessions>> /\ (UNCHANGED pc \/ ReapingRaises(x))
    BY <1>4 DEF DiscardSession
  <2>2. CASE UNCHANGED pc
    BY <2>1, <2>2, Closing DEF Kept
  <2>3. CASE ReapingRaises(x) /\ x \in Run
    <3>1. PICK q \in {"failed", "raised"} : pc' = [pc EXCEPT ![x] = q]
      BY <2>3, VisitorAssumption DEF ReapingRaises, Goto, GotoWith
    <3>2. Quiet(x)
      BY <2>1, <3>1 DEF Quiet, PC, PlacePhase, Confirmed, Asking
    <3> QED
      BY <2>3, <3>2, QuietCloses
  <2>4. CASE ReapingRaises(x) /\ x \notin Run
    BY <2>1, <2>2, <2>4 DEF ReapingRaises, Thread
  <2> QED
    BY <2>1, <2>2, <2>3, <2>4
<1> QED
  BY <1>1, <1>2, <1>3, <1>4

\* The protocol keeps what Consent promises: a run asks once, its question is
\* answered or lapses once, and its files change only under the consent it got.
THEOREM ConsentIsKept == Spec => ConsentKept
<1>1. Init => Promise!Init
  BY DEF Init, Promise!Init, phase, ToSet
<1>2. ApprovalInv /\ [Next]_vars => [Promise!Next]_<<phase, files>>
  <2> SUFFICES ASSUME ApprovalInv, [Next]_vars PROVE Promise!Next
    OBVIOUS
  <2>1. ASSUME NEW r \in Run, ThreadStep(r) PROVE Promise!Next
    BY <2>1, QuietActions, CopyActs, PutAsks DEF ThreadStep
  <2>2. ASSUME NEW r \in Run, Environment(r) PROVE Promise!Next
    BY <2>2, QuietActions, ClaimConfirms, OthersClose DEF Environment
  <2>3. CASE \/ ClaimNothing \/ SessionExpires \/ ScopeChanges \/ Crash \/ Restart
             \/ \E x \in Thread : DiscardSession(x)
             \/ UNCHANGED vars
    BY <2>3, OthersClose
  <2> QED
    BY <2>1, <2>2, <2>3 DEF Next, Thread
<1> QED
  BY <1>1, <1>2, ApprovalInvariant, PTL DEF Spec, ConsentKept, Promise!Spec

=============================================================================
