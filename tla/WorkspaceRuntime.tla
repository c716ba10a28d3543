--------------------------- MODULE WorkspaceRuntime ---------------------------
(***************************************************************************)
(* The workspace service: user messages become runs, a bounded pool of     *)
(* workers takes each run from understanding to its result, the answers to *)
(* approvals arrive on other threads, and the model may be exchanged while *)
(* nothing is running.  The runs, the messages, the saved clarification    *)
(* and the shared task context are on disk; the rest dies with the daemon. *)
(*                                                                         *)
(* What the language model and the routers decide is a free choice.  The   *)
(* orchestrator is seen from outside: ApprovalFlow is its inside.  There   *)
(* is one principal, the user whose socket it is.                          *)
(***************************************************************************)
EXTENDS Naturals, FiniteSets, SequencesExt

CONSTANTS
    Run,         \* a run, also naming its user message and what it finds
    None,        \* no draft, no collection
    Workers,     \* threads of the pool
    MaxPending,  \* runs that may be queued or running
    MaxFaults    \* bound: store calls that raise

ASSUME PoolAssumption == Workers \in Nat \ {0} /\ MaxPending \in Nat /\ Workers <= MaxPending
ASSUME NoneAssumption == None \notin Run
ASSUME FaultsAssumption == MaxFaults \in Nat

VARIABLES
    messages,   \* the user messages, oldest first
    stage,      \* the stored stage of each run
    draft,      \* the saved clarification: a question about a copy
    selection,  \* active_collection_id of the shared task context
    up,         \* the daemon serves
    queue,      \* submitted runs no worker has taken
    slots,      \* free slots of the bounded queue
    pc,         \* where each thread is
    resumed,    \* the draft a run continues
    plan,       \* the compiled plan: its steps, and the collection bound in it
    result,     \* what the orchestrator returned for a run
    session,    \* runs whose approval can still be claimed
    claims,     \* answers that reached the orchestrator
    switching,  \* configure_model() is applying a new model
    faults      \* store calls that have raised

stored == <<messages, stage, draft, selection>>
pool == <<queue, slots>>
work == <<resumed, plan, result, session, claims>>
vars == <<stored, up, pool, pc, work, switching, faults>>

\* Every run has a worker thread and may have one that answers its approval.
Thread == Run \X {"worker", "answer"}

worker(r) == <<r, "worker">>

Terminal == {"COMPLETED", "FAILED", "CANCELLED"}

_TRANSITIONS == [
    RECEIVED          |-> {"UNDERSTANDING", "FAILED"},
    UNDERSTANDING     |-> {"PLANNING", "SUMMARIZING", "COMPLETED", "FAILED"},
    PLANNING          |-> {"EXECUTING", "AWAITING_APPROVAL", "SUMMARIZING", "FAILED"},
    EXECUTING         |-> {"AWAITING_APPROVAL", "SUMMARIZING", "FAILED", "CANCELLED"},
    AWAITING_APPROVAL |-> {"EXECUTING", "CANCELLED", "FAILED"},
    SUMMARIZING       |-> {"COMPLETED", "FAILED"}]

Draft == [of : Run, selection : Run \cup {None}]

NoPlan == [steps |-> "none", collection |-> None]

PC == {"idle", "queued", "taking", "model", "planning", "execute", "searching",
       "copying", "reply", "finish", "result", "park", "notice", "answering",
       "failing", "ending", "done", "gone"}

\* The types; and slots are neither lost nor invented: those in use belong to
\* a run that is queued or held by a worker.
TypeOK ==
    /\ messages \in Seq(Run)
    /\ stage \in [Run -> {"NONE"} \cup DOMAIN _TRANSITIONS \cup Terminal]
    /\ draft \in Draft \cup {None}
    /\ selection \in Run \cup {None}
    /\ up \in BOOLEAN
    /\ queue \in Seq(Run)
    /\ slots + Cardinality({r \in Run : pc[worker(r)] \notin {"idle", "done", "gone"}}) = MaxPending
    /\ pc \in [Thread -> PC]
    /\ resumed \in [Run -> Draft \cup {None}]
    /\ plan \in [Run -> [steps : {"none", "search", "copy", "search_copy"},
                         collection : Run \cup {None}]]
    /\ result \in [Run -> {"none", "awaiting", "completed", "cancelled", "failed"}]
    /\ session \subseteq Run
    /\ claims \in [Run -> Nat]
    /\ switching \in BOOLEAN
    /\ faults \in 0 .. MaxFaults

Init ==
    /\ messages = <<>>
    /\ stage = [r \in Run |-> "NONE"]
    /\ draft = None
    /\ selection = None
    /\ up = TRUE
    /\ queue = <<>>
    /\ slots = MaxPending
    /\ pc = [t \in Thread |-> "idle"]
    /\ resumed = [r \in Run |-> None]
    /\ plan = [r \in Run |-> NoPlan]
    /\ result = [r \in Run |-> "none"]
    /\ session = {}
    /\ claims = [r \in Run |-> 0]
    /\ switching = FALSE
    /\ faults = 0

Running == {r \in Run : stage[r] \notin Terminal \cup {"NONE"}}

-----------------------------------------------------------------------------

At(t, p) == up /\ pc[t] = p

Goto(t, p) == pc' = [pc EXCEPT ![t] = p]

\* transition(), finish(), awaiting_approval(): the stage changes if the table
\* of transitions allows it, else the call raises.
SetStage(t, s, p) ==
    LET r == t[1]
    IN  \/ /\ stage[r] \in DOMAIN _TRANSITIONS
           /\ s \in _TRANSITIONS[stage[r]]
           /\ stage' = [stage EXCEPT ![r] = s]
           /\ Goto(t, p)
        \/ /\ stage[r] \in DOMAIN _TRANSITIONS => s \notin _TRANSITIONS[stage[r]]
           /\ UNCHANGED stage
           /\ Goto(t, "failing")

OnlyStage == UNCHANGED <<messages, draft, selection, up, pool, work, switching, faults>>

-----------------------------------------------------------------------------
(* submit() *)

\* Mutant of Submit: the configuration lock is not taken.
SubmitUnlocked(r) ==
    /\ up
    /\ stage[r] = "NONE" /\ r \notin ToSet(messages)
    /\ slots > 0
    /\ slots' = slots - 1
    /\ messages' = Append(messages, r)
    /\ stage' = [stage EXCEPT ![r] = "RECEIVED"]
    /\ queue' = Append(queue, r)
    /\ Goto(worker(r), "queued")
    /\ UNCHANGED <<draft, selection, up, work, switching, faults>>

\* Under the configuration lock; with no free slot it is refused.
Submit(r) ==
    /\ up
    /\ ~switching
    /\ stage[r] = "NONE" /\ r \notin ToSet(messages)
    /\ slots > 0
    /\ slots' = slots - 1
    /\ messages' = Append(messages, r)
    /\ stage' = [stage EXCEPT ![r] = "RECEIVED"]
    /\ queue' = Append(queue, r)
    /\ Goto(worker(r), "queued")
    /\ UNCHANGED <<draft, selection, up, work, switching, faults>>

\* It raises after the message is stored, or after the run is: the slot is
\* given back, the message and the run stay.
SubmitRaises(r) ==
    /\ up
    /\ ~switching
    /\ stage[r] = "NONE" /\ r \notin ToSet(messages)
    /\ slots > 0
    /\ faults < MaxFaults
    /\ faults' = faults + 1
    /\ messages' = Append(messages, r)
    /\ stage' \in {stage, [stage EXCEPT ![r] = "RECEIVED"]}
    /\ UNCHANGED <<draft, selection, up, pool, pc, work, switching>>

-----------------------------------------------------------------------------
(* _process() *)

Busy == {r \in Run : pc[worker(r)] \notin {"idle", "queued", "done", "gone"}}

\* A worker takes the next run.  The locale is read before the try block: if
\* that raises, the run stays as it was received and nobody is told.
StartJob ==
    /\ up
    /\ queue # <<>>
    /\ Cardinality(Busy) < Workers
    /\ queue' = Tail(queue)
    /\ \/ /\ SetStage(worker(Head(queue)), "UNDERSTANDING", "taking")
          /\ UNCHANGED faults
       \/ /\ faults < MaxFaults
          /\ faults' = faults + 1
          /\ Goto(worker(Head(queue)), "ending")
          /\ UNCHANGED stage
    /\ UNCHANGED <<messages, draft, selection, up, slots, work, switching>>

\* Mutant of Answered: any later message may answer the question.
AnsweredByAny(r) ==
    /\ draft # None
    /\ draft.of # r
    /\ draft.selection = selection

\* take_clarification() and _pending_copy_state(): the draft answered by r.
Answered(r) ==
    LET n == Len(messages)
    IN  /\ draft # None
        /\ n >= 2
        /\ messages[n] = r
        /\ messages[n - 1] = draft.of
        /\ draft.selection = selection

\* The draft is deleted whoever reads it.  Only a destination named in reply to
\* it resumes the copy; the run may also be refused here with a reply.
TakeClarification(r) ==
    /\ At(worker(r), "taking")
    /\ draft' = None
    /\ \/ /\ Answered(r)
          /\ resumed' = [resumed EXCEPT ![r] = draft]
          /\ Goto(worker(r), "planning")
       \/ /\ Goto(worker(r), "reply")
          /\ UNCHANGED resumed
       \/ /\ Goto(worker(r), "model")
          /\ UNCHANGED resumed
    /\ UNCHANGED <<messages, stage, selection, up, pool, plan, result, session, claims,
                   switching, faults>>

\* save_clarification(): the question is kept only while r is the last message.
Ask(r) ==
    IF Last(messages) = r THEN [of |-> r, selection |-> selection] ELSE draft

\* Classification and routing by the model: an action, an answer, a question
\* about the destination of a copy, or an error.
Route(r) ==
    /\ At(worker(r), "model")
    /\ \/ /\ \E p \in {"planning", "reply", "failing"} : Goto(worker(r), p)
          /\ UNCHANGED draft
       \/ /\ draft' = Ask(r)
          /\ Goto(worker(r), "reply")
    /\ UNCHANGED <<messages, stage, selection, up, pool, work, switching, faults>>

\* _complete_reply(), and the end of every other path to COMPLETED.
Reply(t) == At(t, "reply") /\ SetStage(t, "SUMMARIZING", "finish") /\ OnlyStage

Finish(t) == At(t, "finish") /\ SetStage(t, "COMPLETED", "ending") /\ OnlyStage

\* compile_payload() binds a copy of the active results to the collection that
\* is active now; without one, or for other reasons, the user is asked back.
Compile(r) ==
    /\ At(worker(r), "planning")
    /\ \/ /\ SetStage(worker(r), "PLANNING", "reply")
          /\ UNCHANGED plan
       \/ /\ \E s \in {"search", "search_copy"} :
                 plan' = [plan EXCEPT ![r] = [steps |-> s, collection |-> r]]
          /\ resumed[r] # None => plan'[r].steps = "search_copy"
          /\ SetStage(worker(r), "PLANNING", "execute")
       \/ /\ selection # None
          /\ plan' = [plan EXCEPT ![r] = [steps |-> "copy", collection |-> selection]]
          /\ SetStage(worker(r), "PLANNING", "execute")
    /\ UNCHANGED <<messages, draft, selection, up, pool, resumed, result, session, claims,
                   switching, faults>>

-----------------------------------------------------------------------------
(* The orchestrator's execute(), seen from the workspace. *)

\* A bound collection is trusted only if it is the active one when execute()
\* takes its snapshot of the context.
Execute(r) ==
    /\ At(worker(r), "execute")
    /\ \/ /\ plan[r].steps # "copy"
          /\ SetStage(worker(r), "EXECUTING", "searching")
          /\ UNCHANGED result
       \/ /\ plan[r].steps = "copy" /\ plan[r].collection = selection
          /\ SetStage(worker(r), "EXECUTING", "copying")
          /\ UNCHANGED result
       \/ /\ plan[r].steps = "copy" /\ plan[r].collection # selection
          /\ SetStage(worker(r), "EXECUTING", "result")
          /\ result' = [result EXCEPT ![r] = "failed"]
    /\ UNCHANGED <<messages, draft, selection, up, pool, resumed, plan, session, claims,
                   switching, faults>>

Returned(r, outcome) == result' = [result EXCEPT ![r] = outcome]

Search(r) ==
    /\ At(worker(r), "searching")
    /\ \/ /\ selection' = r
          /\ \/ /\ plan[r].steps = "search"
                /\ Returned(r, "completed")
                /\ Goto(worker(r), "result")
             \/ /\ plan[r].steps = "search_copy"
                /\ UNCHANGED result
                /\ Goto(worker(r), "copying")
       \/ /\ \E outcome \in {"failed", "cancelled"} : Returned(r, outcome)
          /\ Goto(worker(r), "result")
          /\ UNCHANGED selection
    /\ UNCHANGED <<messages, stage, draft, up, pool, resumed, plan, session, claims,
                   switching, faults>>

PrepareCopy(r) ==
    /\ At(worker(r), "copying")
    /\ \/ /\ Returned(r, "awaiting")
          /\ session' = session \cup {r}
          /\ Goto(worker(r), "park")
       \/ /\ \E outcome \in {"failed", "cancelled"} : Returned(r, outcome)
          /\ Goto(worker(r), "result")
          /\ UNCHANGED session
    /\ UNCHANGED <<stored, up, pool, resumed, plan, claims, switching, faults>>

\* awaiting_approval(), and then the notice about it.
Park(r) ==
    /\ At(worker(r), "park")
    /\ SetStage(worker(r), "AWAITING_APPROVAL", "notice")
    /\ OnlyStage

Notice(r) ==
    /\ At(worker(r), "notice")
    /\ Goto(worker(r), "ending")
    /\ UNCHANGED <<stored, up, pool, work, switching, faults>>

\* _finish_result()
FinishResult(t) ==
    /\ At(t, "result")
    /\ \/ result[t[1]] = "completed" /\ SetStage(t, "SUMMARIZING", "finish")
       \/ result[t[1]] = "cancelled" /\ SetStage(t, "CANCELLED", "ending")
       \/ result[t[1]] = "failed" /\ SetStage(t, "FAILED", "ending")
    /\ OnlyStage

\* Mutant of FinishFailure: the failure is only logged.
FailureOnlyLogged(t) == At(t, "failing") /\ Goto(t, "ending") /\ UNCHANGED stage /\ OnlyStage

\* _finish_failure(): its own errors are logged and swallowed.
FinishFailure(t) ==
    /\ At(t, "failing")
    /\ stage' = IF stage[t[1]] \in Terminal THEN stage ELSE [stage EXCEPT ![t[1]] = "FAILED"]
    /\ Goto(t, "ending")
    /\ OnlyStage

\* What a worker knew of its run goes with it.
Forget(t) ==
    IF t[2] = "worker"
    THEN /\ resumed' = [resumed EXCEPT ![t[1]] = None]
         /\ plan' = [plan EXCEPT ![t[1]] = NoPlan]
    ELSE UNCHANGED <<resumed, plan>>

\* Mutant of End: the thread of an answer releases a slot as well.
EndReleasesAlways(t) ==
    /\ At(t, "ending")
    /\ Goto(t, "done")
    /\ slots' = slots + 1
    /\ Forget(t)
    /\ UNCHANGED <<stored, up, queue, result, session, claims, switching, faults>>

\* Mutant of End: only a run that went well releases its slot.
EndReleasesCompleted(t) ==
    /\ At(t, "ending")
    /\ Goto(t, "done")
    /\ slots' = IF t[2] = "worker" /\ stage[t[1]] = "COMPLETED" THEN slots + 1 ELSE slots
    /\ Forget(t)
    /\ UNCHANGED <<stored, up, queue, result, session, claims, switching, faults>>

\* The end of a thread; the future of a worker releases its slot.
End(t) ==
    /\ At(t, "ending")
    /\ Goto(t, "done")
    /\ slots' = IF t[2] = "worker" THEN slots + 1 ELSE slots
    /\ Forget(t)
    /\ UNCHANGED <<stored, up, queue, result, session, claims, switching, faults>>

-----------------------------------------------------------------------------
(* respond_to_approval() *)

\* Mutant of Respond: the stage is not checked before the executor is called.
RespondAnyway(r) ==
    /\ up
    /\ result[r] # "none" /\ session # {}
    /\ pc[<<r, "answer">>] \in {"idle", "done"}
    /\ stage[r] \in {"AWAITING_APPROVAL", "EXECUTING", "COMPLETED"}
    /\ Goto(<<r, "answer">>, "answering")
    /\ UNCHANGED <<stored, up, pool, work, switching, faults>>

\* The transition to EXECUTING comes first: a second answer raises here.
Respond(r) ==
    /\ up
    /\ stage[r] = "AWAITING_APPROVAL"
    /\ stage' = [stage EXCEPT ![r] = "EXECUTING"]
    /\ Goto(<<r, "answer">>, "answering")
    /\ OnlyStage

\* The orchestrator claims the session and commits or discards; it raises
\* without a session, or when its own storage fails it after the claim.
Answer(r) ==
    LET t == <<r, "answer">>
    IN  /\ At(t, "answering")
        /\ claims' = [claims EXCEPT ![r] = @ + 1]
        /\ session' = session \ {r}
        /\ \/ /\ r \in session
              /\ \E outcome \in {"completed", "cancelled", "failed"} : Returned(r, outcome)
              /\ Goto(t, "result")
              /\ UNCHANGED faults
           \/ /\ r \notin session
              /\ Goto(t, "failing")
              /\ UNCHANGED <<result, faults>>
           \/ /\ r \in session /\ faults < MaxFaults
              /\ faults' = faults + 1
              /\ Goto(t, "failing")
              /\ UNCHANGED result
        /\ UNCHANGED <<stored, up, pool, resumed, plan, switching>>

-----------------------------------------------------------------------------
(* configure_model() *)

\* Under the configuration lock, and only while no run is active.
ConfigureModel ==
    /\ up
    /\ ~switching
    /\ Running = {}
    /\ switching' = TRUE
    /\ UNCHANGED <<stored, up, pool, pc, work, faults>>

ModelApplied ==
    /\ switching
    /\ switching' = FALSE
    /\ UNCHANGED <<stored, up, pool, pc, work, faults>>

-----------------------------------------------------------------------------
(* The environment. *)

SessionExpires ==
    /\ \E r \in session : session' = session \ {r}
    /\ UNCHANGED <<stored, up, pool, pc, resumed, plan, result, claims, switching, faults>>

\* A draft is good for ten minutes.
DraftExpires ==
    /\ draft # None
    /\ draft' = None
    /\ UNCHANGED <<messages, stage, selection, up, pool, pc, work, switching, faults>>

\* The store, the model or the orchestrator raises: the handler around
\* _process() and respond_to_approval() records the failure, or fails to.
\* Between its transition and its try block an answer reads the locale: an
\* error there is not recorded.
Raises(t) ==
    /\ faults < MaxFaults
    /\ up /\ pc[t] \notin {"idle", "queued", "ending", "done", "gone"}
    /\ faults' = faults + 1
    /\ \/ pc[t] # "failing" /\ Goto(t, "failing")
       \/ pc[t] \in {"failing", "answering"} /\ Goto(t, "ending")
    /\ UNCHANGED <<stored, up, pool, work, switching>>

Crash ==
    /\ up
    /\ up' = FALSE
    /\ pc' = [t \in Thread |-> IF pc[t] \in {"idle", "done"} THEN pc[t] ELSE "gone"]
    /\ queue' = <<>>
    /\ slots' = MaxPending
    /\ session' = {}
    /\ switching' = FALSE
    /\ resumed' = [r \in Run |-> None]
    /\ plan' = [r \in Run |-> NoPlan]
    /\ UNCHANGED <<stored, result, claims, faults>>

\* recover_after_restart(), before the daemon serves again.
Recover ==
    /\ ~up
    /\ up' = TRUE
    /\ stage' = [r \in Run |-> IF r \in Running THEN "FAILED" ELSE stage[r]]
    /\ UNCHANGED <<messages, draft, selection, pool, pc, work, switching, faults>>

ThreadStep(t) ==
    \/ Reply(t) \/ Finish(t) \/ FinishResult(t) \/ FinishFailure(t) \/ End(t)
    \/ /\ t[2] = "worker"
       /\ \/ TakeClarification(t[1]) \/ Route(t[1]) \/ Compile(t[1]) \/ Execute(t[1])
          \/ Search(t[1]) \/ PrepareCopy(t[1]) \/ Park(t[1]) \/ Notice(t[1])
    \/ t[2] = "answer" /\ Answer(t[1])

Next ==
    \/ \E t \in Thread : ThreadStep(t) \/ Raises(t)
    \/ \E r \in Run : Submit(r) \/ SubmitRaises(r) \/ Respond(r)
    \/ StartJob \/ ConfigureModel \/ ModelApplied
    \/ SessionExpires \/ DraftExpires \/ Crash \/ Recover

\* Threads are scheduled and calls of the model and the orchestrator return
\* (both have deadlines); the service manager restarts a crashed daemon.
Fairness ==
    /\ \A t \in Thread : WF_vars(ThreadStep(t))
    /\ WF_vars(StartJob)
    /\ WF_vars(Recover)

Spec == Init /\ [][Next]_vars /\ Fairness

-----------------------------------------------------------------------------
(* Properties. *)

\* However many answers arrive for an approval, the orchestrator sees one, and
\* what the workspace shows of a run is what the orchestrator returned: it never
\* calls a run completed or cancelled that was not, and it calls a completed
\* one failed only after a storage error or a crash.
OutcomeReported ==
    \A r \in Run :
        /\ claims[r] <= 1
        /\ stage[r] = "COMPLETED" => result[r] \in {"none", "completed"}
        /\ stage[r] = "CANCELLED" => result[r] = "cancelled"
        /\ stage[r] = "FAILED" /\ result[r] = "completed" =>
               faults > 0 \/ \E w \in {"worker", "answer"} : pc[<<r, w>>] = "gone"

\* A run resumes a saved request only if its message is the one that follows
\* the request's message, whatever order the workers finish in.
ResumeFollowsQuestion ==
    \A r \in Run : resumed[r] # None =>
        \E n \in 1 .. Len(messages) - 1 :
            messages[n] = resumed[r].of /\ messages[n + 1] = r

\* The model is never exchanged under a worker that routes a message with it,
\* nor, while the store works, under a thread that words a result with it (a
\* failed notice lets the worker fail a run that an answer is summarising).
ModelNotSwitchedInUse ==
    switching =>
        /\ \A r \in Run : pc[worker(r)] # "model"
        /\ faults = 0 => \A t \in Thread : pc[t] # "finish"

\* A run that the user is not asked about ends, unless the storage failed.
RunsSettle ==
    \A r \in Run :
        (r \in Running /\ stage[r] # "AWAITING_APPROVAL") ~>
            (stage[r] \in Terminal \cup {"AWAITING_APPROVAL"} \/ faults > 0)

\* workspace-runtime-v1: a reply resumes the saved copy "with unchanged active
\* collection" - what the user is asked to approve is what was asked about.
ResumedCopyUnchanged ==
    \A r \in Run :
        resumed[r] # None /\ plan[r].steps = "copy" /\ result[r] = "awaiting" =>
            plan[r].collection = resumed[r].selection

=============================================================================
