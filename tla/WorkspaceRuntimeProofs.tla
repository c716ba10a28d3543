------------------------ MODULE WorkspaceRuntimeProofs ------------------------
(***************************************************************************)
(* The safety of WorkspaceRuntime for any set of runs, any size of the     *)
(* pool and no bound on the storage errors; and, behind it, that of the    *)
(* way of a message that a run works on: TurnRoute for any number of       *)
(* phrases, ModelTurn, and IntentPlan for any number of operations.        *)
(*                                                                         *)
(* The argument: until a worker has parked its run or is done with it,     *)
(* nobody else touches the run, so that its stage and its result are those *)
(* of the place the worker has come to.  After that it is the thread of    *)
(* the one answer that does, and what can come between the two is a worker *)
(* whose notice failed: that costs a storage error.                        *)
(*                                                                         *)
(* A message is followed from what is required of it to what is offered to *)
(* the model and to what is compiled; a turn by what each review has left  *)
(* of the arguments; and a plan by what parse() accepted, what was         *)
(* resolved, and the steps that were made of it.                           *)
(***************************************************************************)
EXTENDS MCConversation, FiniteSetTheorems, SequenceTheorems, TLAPS

\* Where the worker of r is, and the thread that answers for it.
W(r) == pc[worker(r)]
A(r) == pc[<<r, "answer">>]

\* The runs that hold a slot.
Holders == {r \in Run : pc[worker(r)] \notin {"idle", "done", "gone"}}

Ended(r) == stage[r] \in Terminal \cup {"NONE"}

\* Nothing has been tried yet; and nobody but the worker touches the run.
Early == {"idle", "queued", "taking", "model", "planning", "execute", "searching",
          "copying", "reply"}
Sole == Early \cup {"park", "result", "finish"}

Types ==
    /\ messages \in Seq(Run)
    /\ stage \in [Run -> {"NONE"} \cup DOMAIN _TRANSITIONS \cup Terminal]
    /\ draft \in Draft \cup {None}
    /\ selection \in Run \cup {None}
    /\ up \in BOOLEAN
    /\ queue \in Seq(Run)
    /\ pc \in [Thread -> PC]
    /\ resumed \in [Run -> Draft \cup {None}]
    /\ plan \in [Run -> [steps : {"none", "search", "copy", "search_copy"},
                         collection : Run \cup {None}]]
    /\ result \in [Run -> {"none", "awaiting", "completed", "cancelled", "failed"}]
    /\ session \subseteq Run
    /\ claims \in [Run -> Nat]
    /\ switching \in BOOLEAN
    /\ faults \in 0 .. MaxFaults

SlotsBalanced ==
    /\ slots \in Nat
    /\ IsFiniteSet(Holders)
    /\ slots + Cardinality(Holders) = MaxPending

\* A run is in the queue once, and its worker has not begun.
QueueWaits ==
    /\ \A i \in 1 .. Len(queue) : W(queue[i]) = "queued"
    /\ \A i, j \in 1 .. Len(queue) : queue[i] = queue[j] => i = j

\* What is known of a run began with its message.
Known(r) == \E i \in 1 .. Len(messages) : messages[i] = r
RunsKnown == \A r \in Run : W(r) # "idle" \/ stage[r] # "NONE" => Known(r)

SwitchedAlone == switching => up /\ \A r \in Run : Ended(r)

\* The stage and the result at each place of the worker.
WorkerPlace(r) ==
    /\ stage[r] = "NONE" => W(r) = "idle"
    /\ W(r) \in Sole => A(r) = "idle"
    /\ W(r) = "queued" => stage[r] = "RECEIVED"
    /\ W(r) \in {"taking", "model", "planning"} => stage[r] = "UNDERSTANDING"
    /\ W(r) = "execute" => stage[r] = "PLANNING"
    /\ W(r) \in {"searching", "copying", "park", "result"} => stage[r] = "EXECUTING"
    /\ W(r) = "reply" => stage[r] \in {"UNDERSTANDING", "PLANNING"}
    /\ W(r) = "finish" => stage[r] = "SUMMARIZING"
    /\ W(r) \in Early => result[r] = "none"
    /\ W(r) = "finish" => result[r] \in {"none", "completed"}
    /\ W(r) = "result" => result[r] \in {"completed", "cancelled", "failed"}
    /\ W(r) = "park" => result[r] = "awaiting"

\* And at each place of the answer: only a storage error fails its run meanwhile.
AnswerPlace(r) ==
    /\ A(r) \in {"idle", "answering", "result", "finish", "failing", "ending", "done", "gone"}
    /\ stage[r] = "AWAITING_APPROVAL" =>
           W(r) \notin Sole /\ A(r) = "idle" /\ result[r] = "awaiting"
    /\ A(r) \in {"answering", "result"} => stage[r] \in {"EXECUTING", "FAILED"}
    /\ A(r) = "finish" => stage[r] \in {"SUMMARIZING", "FAILED"}
    /\ stage[r] = "FAILED" /\ A(r) \in {"answering", "result", "finish"} => faults > 0
    /\ A(r) = "answering" => result[r] = "awaiting"
    /\ A(r) = "result" => result[r] \in {"completed", "cancelled", "failed"}
    /\ A(r) = "finish" => result[r] = "completed"
    /\ claims[r] <= 1
    /\ A(r) \in {"idle", "answering"} => claims[r] = 0

\* What a stored outcome says, and who is about to store it otherwise.
AnswerShown(r) ==
    /\ stage[r] = "COMPLETED" => result[r] \in {"none", "completed"}
    /\ stage[r] = "CANCELLED" => result[r] = "cancelled"
    /\ faults = 0 /\ W(r) = "failing" => A(r) = "idle" /\ result[r] = "none"
    /\ faults = 0 /\ A(r) = "failing" => result[r] = "awaiting"
    /\ faults = 0 /\ result[r] = "completed" /\ stage[r] # "COMPLETED" =>
           W(r) \in {"result", "finish", "gone"} \/ A(r) \in {"result", "finish", "gone"}

RunGood(r) ==
    /\ WorkerPlace(r)
    /\ AnswerPlace(r)
    /\ AnswerShown(r)
    /\ ~up => {W(r), A(r)} \subseteq {"idle", "done", "gone"}

WorkspaceInv ==
    /\ Types
    /\ SlotsBalanced
    /\ QueueWaits
    /\ RunsKnown
    /\ SwitchedAlone
    /\ \A r \in Run : RunGood(r)

-----------------------------------------------------------------------------
(* Steps of one run. *)

\* The run keeps its values.
SameRun(q) ==
    /\ W(q)' = W(q) /\ A(q)' = A(q)
    /\ stage'[q] = stage[q] /\ result'[q] = result[q] /\ claims'[q] = claims[q]

\* Nothing changes but the run r, and r neither takes a slot nor gives it back.
Steady(r) ==
    /\ up' = up /\ queue' = queue /\ slots' = slots /\ messages' = messages
    /\ switching' = switching
    /\ faults' >= faults
    /\ \A q \in Run \ {r} : SameRun(q)
    /\ W(r) \in {"idle", "queued", "done", "gone"} => W(r)' = W(r)
    /\ W(r) \notin {"idle", "queued", "done", "gone"} =>
           W(r)' \notin {"idle", "queued", "done", "gone"}
    /\ stage[r] = "NONE" => stage'[r] = "NONE"
    /\ Ended(r) => Ended(r)'

\* A run that keeps its values stays good.
LEMMA SameRunGood ==
    ASSUME NEW q \in Run, RunGood(q), SameRun(q), up' = up, faults \in Nat, faults' \in Nat,
           faults' >= faults
    PROVE  RunGood(q)'
<1>1. WorkerPlace(q)'
  BY DEF RunGood, SameRun, WorkerPlace
<1>2. AnswerPlace(q)'
  BY DEF RunGood, SameRun, AnswerPlace
<1>3. AnswerShown(q)'
  BY DEF RunGood, SameRun, AnswerShown
<1> QED
  BY <1>1, <1>2, <1>3 DEF RunGood, SameRun

\* Such a step keeps the invariant if the run itself is good after it.
LEMMA SteadyKeeps ==
    ASSUME WorkspaceInv, NEW r \in Run, Types', Steady(r), RunGood(r)'
    PROVE  WorkspaceInv'
<1>1. \A q \in Run : RunGood(q)'
  <2> SUFFICES ASSUME NEW q \in Run, q # r PROVE RunGood(q)'
    OBVIOUS
  <2>1. SameRun(q) /\ RunGood(q)
    BY DEF Steady, WorkspaceInv
  <2>2. up' = up /\ faults \in Nat /\ faults' \in Nat /\ faults' >= faults
    BY DEF Steady, WorkspaceInv, Types
  <2> QED
    BY <2>1, <2>2, SameRunGood
<1>2. \A q \in Run : W(q)' \in {"idle", "done", "gone"} <=> W(q) \in {"idle", "done", "gone"}
  BY DEF Steady, SameRun
<1>3. Holders' = Holders
  BY <1>2 DEF Holders, W
<1>4. SlotsBalanced'
  BY <1>3 DEF WorkspaceInv, SlotsBalanced, Steady
<1>5. QueueWaits'
  <2>1. \A i \in 1 .. Len(queue) : queue[i] \in Run
    BY ElementOfSeq DEF WorkspaceInv, Types
  <2>2. \A q \in Run : W(q) = "queued" => W(q)' = "queued"
    BY DEF Steady, SameRun
  <2> QED
    BY <2>1, <2>2 DEF WorkspaceInv, QueueWaits, Steady, W
<1>6. RunsKnown'
  <2>1. \A q \in Run : (W(q)' # "idle" => W(q) # "idle")
        /\ (stage'[q] # "NONE" => stage[q] # "NONE")
    BY DEF Steady, SameRun
  <2>2. \A q \in Run : Known(q)' <=> Known(q)
    BY DEF Steady, Known
  <2> QED
    BY <2>1, <2>2 DEF WorkspaceInv, RunsKnown
<1>7. SwitchedAlone'
  <2>1. \A q \in Run : Ended(q) => Ended(q)'
    BY DEF Steady, SameRun, Ended
  <2> QED
    BY <2>1 DEF WorkspaceInv, SwitchedAlone, Steady
<1> QED
  BY <1>1, <1>4, <1>5, <1>6, <1>7 DEF WorkspaceInv

\* A thread of r that moves leaves the other threads where they are.
LEMMA WorkerMoves ==
    ASSUME Types, NEW r \in Run, NEW p \in PC, pc' = [pc EXCEPT ![<<r, "worker">>] = p]
    PROVE  /\ pc' \in [Thread -> PC]
           /\ W(r)' = p /\ A(r)' = A(r)
           /\ \A q \in Run \ {r} : W(q)' = W(q) /\ A(q)' = A(q)
BY DEF Types, Thread, W, A, worker

\* So does the thread of its answer.
LEMMA AnswerMoves ==
    ASSUME Types, NEW r \in Run, NEW p \in PC, pc' = [pc EXCEPT ![<<r, "answer">>] = p]
    PROVE  /\ pc' \in [Thread -> PC]
           /\ W(r)' = W(r) /\ A(r)' = p
           /\ \A q \in Run \ {r} : W(q)' = W(q) /\ A(q)' = A(q)
BY DEF Types, Thread, W, A, worker

\* The changes of stage the code asks for.
Legal(s, d) == s \in DOMAIN _TRANSITIONS /\ d \in _TRANSITIONS[s]

\* The table allows them, and allows nothing from an outcome.
LEMMA LegalSteps ==
    /\ Legal("RECEIVED", "UNDERSTANDING")
    /\ Legal("UNDERSTANDING", "PLANNING") /\ Legal("UNDERSTANDING", "SUMMARIZING")
    /\ Legal("PLANNING", "EXECUTING") /\ Legal("PLANNING", "SUMMARIZING")
    /\ \A d \in {"AWAITING_APPROVAL", "SUMMARIZING", "FAILED", "CANCELLED"} : Legal("EXECUTING", d)
    /\ Legal("SUMMARIZING", "COMPLETED")
    /\ \A d : ~Legal("FAILED", d)
BY DEF Legal, _TRANSITIONS

\* The stages are these.
LEMMA StageNames ==
    DOMAIN _TRANSITIONS = {"RECEIVED", "UNDERSTANDING", "PLANNING", "EXECUTING",
                           "AWAITING_APPROVAL", "SUMMARIZING"}
BY DEF _TRANSITIONS

\* A change of stage happens, or the thread goes to the handler of the error.
LEMMA StageSet ==
    ASSUME NEW r, NEW k, NEW s, NEW p, SetStage(<<r, k>>, s, p)
    PROVE  \/ /\ Legal(stage[r], s)
              /\ stage' = [stage EXCEPT ![r] = s] /\ pc' = [pc EXCEPT ![<<r, k>>] = p]
           \/ /\ ~Legal(stage[r], s)
              /\ stage' = stage /\ pc' = [pc EXCEPT ![<<r, k>>] = "failing"]
BY DEF SetStage, Legal, Goto

-----------------------------------------------------------------------------
(* Steps of a worker. *)

\* The thread k of r goes to p; no other run and no slot is concerned.
Step(r, k, p) ==
    /\ pc' = [pc EXCEPT ![<<r, k>>] = p]
    /\ UNCHANGED <<up, queue, slots, messages, switching>>
    /\ faults' >= faults
    /\ \A q \in Run \ {r} : /\ stage'[q] = stage[q]
                            /\ result'[q] = result[q]
                            /\ claims'[q] = claims[q]

Away == {"idle", "queued", "done", "gone"}

\* Such a step keeps the invariant if the run itself is good after it.
LEMMA StepKeeps ==
    ASSUME WorkspaceInv, NEW r \in Run, NEW k \in {"worker", "answer"}, NEW p \in PC,
           Step(r, k, p), k = "worker" => W(r) \notin Away /\ p \notin Away,
           ~Ended(r) \/ stage'[r] = stage[r], Types', RunGood(r)'
    PROVE  WorkspaceInv'
<1>1. Types
  BY DEF WorkspaceInv
<1>2. pc' = [pc EXCEPT ![<<r, k>>] = p] /\ p \in PC
  BY DEF Step
<1>3. \A q \in Run \ {r} : W(q)' = W(q) /\ A(q)' = A(q)
  <2>1. CASE k = "worker"
    BY <1>1, <1>2, <2>1, WorkerMoves
  <2>2. CASE k = "answer"
    BY <1>1, <1>2, <2>2, AnswerMoves
  <2> QED
    BY <2>1, <2>2
<1>4. W(r)' = W(r) \/ (W(r) \notin Away /\ W(r)' \notin Away)
  <2>1. CASE k = "worker"
    BY <1>1, <1>2, <2>1, WorkerMoves
  <2>2. CASE k = "answer"
    BY <1>1, <1>2, <2>2, AnswerMoves
  <2> QED
    BY <2>1, <2>2
<1>5. \A q \in Run \ {r} : SameRun(q)
  BY <1>3 DEF Step, SameRun
<1>6. Steady(r)
  BY <1>4, <1>5 DEF Steady, Step, Ended, Away
<1> QED
  BY <1>6, SteadyKeeps


\* A worker that still has its run to itself.
LEMMA WorkerAlone ==
    ASSUME WorkspaceInv, NEW r \in Run, W(r) \in Sole
    PROVE  A(r) = "idle" /\ claims[r] = 0 /\ RunGood(r)
BY DEF WorkspaceInv, RunGood, WorkerPlace, AnswerPlace

\* What the step of such a worker needs: it has gone to p, and p is the place for
\* the stage and the result it leaves behind.
LEMMA WorkerKeeps ==
    ASSUME WorkspaceInv, NEW r \in Run, up, W(r) \in Sole \ Away, NEW p \in PC \ Away,
           Step(r, "worker", p), claims' = claims, ~Ended(r), Types',
           stage'[r] # "NONE",
           stage'[r] # "AWAITING_APPROVAL" \/ (p \notin Sole /\ result'[r] = "awaiting"),
           p \in {"taking", "model", "planning"} => stage'[r] = "UNDERSTANDING",
           p = "execute" => stage'[r] = "PLANNING",
           p \in {"searching", "copying", "park", "result"} => stage'[r] = "EXECUTING",
           p = "reply" => stage'[r] \in {"UNDERSTANDING", "PLANNING"},
           p = "finish" => stage'[r] = "SUMMARIZING",
           p \in Early \cup {"failing"} => result'[r] = "none" \/ (p = "failing" /\ faults' > 0),
           p = "finish" => result'[r] \in {"none", "completed"},
           p = "result" => result'[r] \in {"completed", "cancelled", "failed"},
           p = "park" => result'[r] = "awaiting",
           stage'[r] = "COMPLETED" => result'[r] \in {"none", "completed"},
           stage'[r] = "CANCELLED" => result'[r] = "cancelled",
           result'[r] = "completed" /\ stage'[r] # "COMPLETED" =>
               faults' > 0 \/ p \in {"result", "finish"}
    PROVE  WorkspaceInv'
<1>1. A(r) = "idle" /\ claims[r] = 0 /\ Types
  BY WorkerAlone DEF WorkspaceInv
<1>2. W(r)' = p /\ A(r)' = "idle"
  BY <1>1, WorkerMoves DEF Step
<1>3. WorkerPlace(r)'
  BY <1>2 DEF WorkerPlace, Early, Away
<1>4. AnswerPlace(r)'
  BY <1>1, <1>2 DEF AnswerPlace
<1>5. AnswerShown(r)'
  BY <1>1, <1>2 DEF AnswerShown, Types
<1>6. RunGood(r)'
  BY <1>3, <1>4, <1>5 DEF RunGood, Step
<1> QED
  BY <1>6, StepKeeps DEF Sole

\* The draft is taken.
LEMMA TakeClarificationKeeps ==
    ASSUME WorkspaceInv, NEW r \in Run, TakeClarification(r)
    PROVE  WorkspaceInv'
<1>1. W(r) = "taking" /\ up /\ Types
  BY DEF TakeClarification, At, W, WorkspaceInv
<1>2. stage[r] = "UNDERSTANDING" /\ result[r] = "none"
  BY <1>1 DEF WorkspaceInv, RunGood, WorkerPlace, Early
<1>3. PICK p \in {"planning", "reply", "model"} : pc' = [pc EXCEPT ![<<r, "worker">>] = p]
  BY DEF TakeClarification, Goto, worker
<1>4. Step(r, "worker", p) /\ claims' = claims /\ stage' = stage /\ result' = result
  BY <1>1, <1>3 DEF TakeClarification, stored, pool, Step, Types
<1>5. Types'
  <2>1. pc' \in [Thread -> PC]
    BY <1>1, <1>3, WorkerMoves DEF PC
  <2> QED
    BY <1>1, <2>1 DEF TakeClarification, Answered, Types, pool
<1>6. W(r) \in Sole \ Away /\ p \in PC \ Away /\ ~Ended(r)
  BY <1>1, <1>2 DEF Sole, Early, Away, PC, Ended, Terminal
<1> QED
  BY <1>1, <1>2, <1>4, <1>5, <1>6, WorkerKeeps

\* The message is routed.
LEMMA RouteKeeps ==
    ASSUME WorkspaceInv, NEW r \in Run, Route(r)
    PROVE  WorkspaceInv'
<1>1. W(r) = "model" /\ up /\ Types
  BY DEF Route, At, W, WorkspaceInv
<1>2. stage[r] = "UNDERSTANDING" /\ result[r] = "none"
  BY <1>1 DEF WorkspaceInv, RunGood, WorkerPlace, Early
<1>3. PICK p \in {"planning", "reply", "failing"} : pc' = [pc EXCEPT ![<<r, "worker">>] = p]
  BY DEF Route, Goto, worker
<1>4. Step(r, "worker", p) /\ claims' = claims /\ stage' = stage /\ result' = result
  BY <1>1, <1>3 DEF Route, work, pool, Step, Types
<1>5. Types'
  <2>1. pc' \in [Thread -> PC]
    BY <1>1, <1>3, WorkerMoves DEF PC
  <2>2. draft' \in Draft \cup {None}
    BY <1>1 DEF Route, Ask, Types, Draft
  <2> QED
    BY <1>1, <2>1, <2>2 DEF Route, Types, pool, work
<1>6. W(r) \in Sole \ Away /\ p \in PC \ Away /\ ~Ended(r)
  BY <1>1, <1>2 DEF Sole, Early, Away, PC, Ended, Terminal
<1> QED
  BY <1>1, <1>2, <1>4, <1>5, <1>6, WorkerKeeps

\* A worker sets the stage to s, which its place allows, and goes to p.
LEMMA WorkerStageSet ==
    ASSUME Types, NEW r \in Run, NEW s, NEW p \in PC, Legal(stage[r], s),
           s \in Terminal \cup DOMAIN _TRANSITIONS,
           SetStage(worker(r), s, p)
    PROVE  /\ stage' = [stage EXCEPT ![r] = s] /\ stage'[r] = s
           /\ pc' = [pc EXCEPT ![<<r, "worker">>] = p]
           /\ stage' \in [Run -> {"NONE"} \cup DOMAIN _TRANSITIONS \cup Terminal]
           /\ pc' \in [Thread -> PC]
           /\ ~Ended(r)
<1>1. stage' = [stage EXCEPT ![r] = s] /\ pc' = [pc EXCEPT ![<<r, "worker">>] = p]
  BY StageSet DEF worker
<1>2. ~Ended(r)
  BY StageNames DEF Legal, Ended, Terminal
<1> QED
  BY <1>1, <1>2, WorkerMoves DEF Types

\* The end of a reply begins.
LEMMA ReplyKeeps ==
    ASSUME WorkspaceInv, NEW r \in Run, Reply(worker(r))
    PROVE  WorkspaceInv'
<1>1. W(r) = "reply" /\ up /\ Types /\ "finish" \in PC
  BY DEF Reply, At, W, WorkspaceInv, PC
<1>2. Legal(stage[r], "SUMMARIZING") /\ result[r] = "none"
  BY <1>1, LegalSteps DEF WorkspaceInv, RunGood, WorkerPlace, Early
<1>3. /\ stage' = [stage EXCEPT ![r] = "SUMMARIZING"] /\ stage'[r] = "SUMMARIZING"
      /\ pc' = [pc EXCEPT ![<<r, "worker">>] = "finish"]
      /\ stage' \in [Run -> {"NONE"} \cup DOMAIN _TRANSITIONS \cup Terminal]
      /\ pc' \in [Thread -> PC] /\ ~Ended(r)
  BY <1>1, <1>2, StageNames, WorkerStageSet DEF Reply
<1>4. Step(r, "worker", "finish") /\ claims' = claims /\ result' = result
  BY <1>1, <1>3 DEF Reply, OnlyStage, work, pool, Step, Types
<1>5. Types'
  BY <1>1, <1>3 DEF Reply, OnlyStage, Types, pool, work
<1>6. W(r) \in Sole \ Away /\ "finish" \in PC \ Away
  BY <1>1 DEF Sole, Early, Away, PC
<1>7. "finish" \notin Early
  BY DEF Early
<1> QED
  BY <1>1, <1>2, <1>3, <1>4, <1>5, <1>6, <1>7, WorkerKeeps

\* A run is completed by its worker.
LEMMA FinishKeeps ==
    ASSUME WorkspaceInv, NEW r \in Run, Finish(worker(r))
    PROVE  WorkspaceInv'
<1>1. W(r) = "finish" /\ up /\ Types /\ "ending" \in PC
  BY DEF Finish, At, W, WorkspaceInv, PC
<1>2. Legal(stage[r], "COMPLETED") /\ result[r] \in {"none", "completed"}
  BY <1>1, LegalSteps DEF WorkspaceInv, RunGood, WorkerPlace
<1>3. /\ stage' = [stage EXCEPT ![r] = "COMPLETED"] /\ stage'[r] = "COMPLETED"
      /\ pc' = [pc EXCEPT ![<<r, "worker">>] = "ending"]
      /\ stage' \in [Run -> {"NONE"} \cup DOMAIN _TRANSITIONS \cup Terminal]
      /\ pc' \in [Thread -> PC] /\ ~Ended(r)
  BY <1>1, <1>2, WorkerStageSet DEF Finish, Terminal
<1>4. Step(r, "worker", "ending") /\ claims' = claims /\ result' = result
  BY <1>1, <1>3 DEF Finish, OnlyStage, work, pool, Step, Types
<1>5. Types'
  BY <1>1, <1>3 DEF Finish, OnlyStage, Types, pool, work
<1>6. W(r) \in Sole \ Away /\ "ending" \in PC \ Away
  BY <1>1 DEF Sole, Early, Away, PC
<1>7. "ending" \notin Early
  BY DEF Early
<1> QED
  BY <1>1, <1>2, <1>3, <1>4, <1>5, <1>6, <1>7, WorkerKeeps

\* A plan is compiled, or the user is asked back.
LEMMA CompileKeeps ==
    ASSUME WorkspaceInv, NEW r \in Run, Compile(r)
    PROVE  WorkspaceInv'
<1>1. W(r) = "planning" /\ up /\ Types /\ "reply" \in PC /\ "execute" \in PC
  BY DEF Compile, At, W, WorkspaceInv, PC
<1>2. Legal(stage[r], "PLANNING") /\ result[r] = "none"
  BY <1>1, LegalSteps DEF WorkspaceInv, RunGood, WorkerPlace, Early
<1>3. PICK p \in {"reply", "execute"} : SetStage(worker(r), "PLANNING", p)
  BY DEF Compile
<1>4. /\ stage' = [stage EXCEPT ![r] = "PLANNING"] /\ stage'[r] = "PLANNING"
      /\ pc' = [pc EXCEPT ![<<r, "worker">>] = p]
      /\ stage' \in [Run -> {"NONE"} \cup DOMAIN _TRANSITIONS \cup Terminal]
      /\ pc' \in [Thread -> PC] /\ ~Ended(r)
  BY <1>1, <1>2, <1>3, StageNames, WorkerStageSet
<1>5. Step(r, "worker", p) /\ claims' = claims /\ result' = result
  BY <1>1, <1>4 DEF Compile, pool, Step, Types
<1>6. Types'
  <2>1. plan' \in [Run -> [steps : {"none", "search", "copy", "search_copy"},
                          collection : Run \cup {None}]]
    <3>1. \/ plan' = plan
          \/ \E k \in {"search", "copy", "search_copy"}, c \in Run \cup {None} :
                 plan' = [plan EXCEPT ![r] = [steps |-> k, collection |-> c]]
      BY <1>1 DEF Compile, Types
    <3>2. CASE plan' = plan
      BY <1>1, <3>2 DEF Types
    <3>3. ASSUME NEW k \in {"search", "copy", "search_copy"}, NEW c \in Run \cup {None},
                 plan' = [plan EXCEPT ![r] = [steps |-> k, collection |-> c]]
          PROVE  plan' \in [Run -> [steps : {"none", "search", "copy", "search_copy"},
                                   collection : Run \cup {None}]]
      <4>1. [steps |-> k, collection |-> c] \in [steps : {"none", "search", "copy", "search_copy"},
                                                 collection : Run \cup {None}]
        OBVIOUS
      <4> QED
        BY <1>1, <3>3, <4>1 DEF Types
    <3> QED
      BY <3>1, <3>2, <3>3
  <2> QED
    BY <1>1, <1>4, <2>1 DEF Compile, Types, pool
<1>7. W(r) \in Sole \ Away /\ p \in PC \ Away
  BY <1>1 DEF Sole, Early, Away, PC
<1> QED
  BY <1>1, <1>2, <1>4, <1>5, <1>6, <1>7, WorkerKeeps

\* execute() trusts the plan and begins, or refuses it.
LEMMA ExecuteKeeps ==
    ASSUME WorkspaceInv, NEW r \in Run, Execute(r)
    PROVE  WorkspaceInv'
<1>1. W(r) = "execute" /\ up /\ Types
  BY DEF Execute, At, W, WorkspaceInv
<1>2. Legal(stage[r], "EXECUTING") /\ result[r] = "none"
  BY <1>1, LegalSteps DEF WorkspaceInv, RunGood, WorkerPlace, Early
<1>3. PICK p \in {"searching", "copying", "result"} :
          /\ SetStage(worker(r), "EXECUTING", p)
          /\ IF p = "result" THEN result' = [result EXCEPT ![r] = "failed"] ELSE result' = result
  BY DEF Execute
<1>4. /\ stage' = [stage EXCEPT ![r] = "EXECUTING"] /\ stage'[r] = "EXECUTING"
      /\ pc' = [pc EXCEPT ![<<r, "worker">>] = p]
      /\ stage' \in [Run -> {"NONE"} \cup DOMAIN _TRANSITIONS \cup Terminal]
      /\ pc' \in [Thread -> PC] /\ ~Ended(r)
  BY <1>1, <1>2, <1>3, StageNames, WorkerStageSet DEF PC
<1>5. result'[r] = IF p = "result" THEN "failed" ELSE "none"
  BY <1>1, <1>2, <1>3 DEF Types
<1>6. Step(r, "worker", p) /\ claims' = claims
  BY <1>1, <1>3, <1>4 DEF Execute, pool, Step, Types
<1>7. Types'
  BY <1>1, <1>3, <1>4 DEF Execute, Types, pool
<1>8. W(r) \in Sole \ Away /\ p \in PC \ Away
  BY <1>1 DEF Sole, Early, Away, PC
<1>9. "result" \notin Early
  BY DEF Early
<1> QED
  BY <1>1, <1>4, <1>5, <1>6, <1>7, <1>8, <1>9, WorkerKeeps

\* The search step runs.
LEMMA SearchKeeps ==
    ASSUME WorkspaceInv, NEW r \in Run, Search(r)
    PROVE  WorkspaceInv'
<1>1. W(r) = "searching" /\ up /\ Types
  BY DEF Search, At, W, WorkspaceInv
<1>2. stage[r] = "EXECUTING" /\ result[r] = "none"
  BY <1>1 DEF WorkspaceInv, RunGood, WorkerPlace, Early
<1>3. PICK p \in {"result", "copying"}, o \in {"completed", "failed", "cancelled", "none"} :
          /\ pc' = [pc EXCEPT ![<<r, "worker">>] = p]
          /\ result' = [result EXCEPT ![r] = o]
          /\ p = "copying" <=> o = "none"
  <2>1. result = [result EXCEPT ![r] = "none"]
    BY <1>1, <1>2 DEF Types
  <2> QED
    BY <2>1 DEF Search, Returned, Goto, worker
<1>4. Step(r, "worker", p) /\ claims' = claims /\ stage' = stage /\ result'[r] = o
  BY <1>1, <1>3 DEF Search, pool, Step, Types
<1>5. Types'
  <2>1. pc' \in [Thread -> PC]
    BY <1>1, <1>3, WorkerMoves DEF PC
  <2>2. selection' \in Run \cup {None}
    BY <1>1 DEF Search, Types
  <2> QED
    BY <1>1, <1>3, <2>1, <2>2 DEF Search, Types, pool
<1>6. W(r) \in Sole \ Away /\ p \in PC \ Away /\ ~Ended(r)
  BY <1>1, <1>2 DEF Sole, Early, Away, PC, Ended, Terminal
<1>7. "result" \notin Early
  BY DEF Early
<1> QED
  BY <1>1, <1>2, <1>3, <1>4, <1>5, <1>6, <1>7, WorkerKeeps

\* The copy step ends with a question, or without.
LEMMA PrepareCopyKeeps ==
    ASSUME WorkspaceInv, NEW r \in Run, PrepareCopy(r)
    PROVE  WorkspaceInv'
<1>1. W(r) = "copying" /\ up /\ Types
  BY DEF PrepareCopy, At, W, WorkspaceInv
<1>2. stage[r] = "EXECUTING"
  BY <1>1 DEF WorkspaceInv, RunGood, WorkerPlace, Early
<1>3. PICK p \in {"result", "park"}, o \in {"awaiting", "failed", "cancelled"} :
          /\ pc' = [pc EXCEPT ![<<r, "worker">>] = p]
          /\ result' = [result EXCEPT ![r] = o]
          /\ p = "park" <=> o = "awaiting"
  BY DEF PrepareCopy, Returned, Goto, worker
<1>4. Step(r, "worker", p) /\ claims' = claims /\ stage' = stage /\ result'[r] = o
  BY <1>1, <1>3 DEF PrepareCopy, stored, pool, Step, Types
<1>5. Types'
  <2>1. pc' \in [Thread -> PC]
    BY <1>1, <1>3, WorkerMoves DEF PC
  <2>2. session' \subseteq Run
    BY <1>1 DEF PrepareCopy, Types
  <2> QED
    BY <1>1, <1>3, <2>1, <2>2 DEF PrepareCopy, Types, stored, pool
<1>6. W(r) \in Sole \ Away /\ p \in PC \ Away /\ ~Ended(r)
  BY <1>1, <1>2 DEF Sole, Early, Away, PC, Ended, Terminal
<1>7. "result" \notin Early /\ "park" \notin Early
  BY DEF Early
<1> QED
  BY <1>1, <1>2, <1>3, <1>4, <1>5, <1>6, <1>7, WorkerKeeps

\* The run is parked.
LEMMA ParkKeeps ==
    ASSUME WorkspaceInv, NEW r \in Run, Park(r)
    PROVE  WorkspaceInv'
<1>1. W(r) = "park" /\ up /\ Types /\ "notice" \in PC
  BY DEF Park, At, W, WorkspaceInv, PC
<1>2. Legal(stage[r], "AWAITING_APPROVAL") /\ result[r] = "awaiting"
  BY <1>1, LegalSteps DEF WorkspaceInv, RunGood, WorkerPlace
<1>3. /\ stage' = [stage EXCEPT ![r] = "AWAITING_APPROVAL"] /\ stage'[r] = "AWAITING_APPROVAL"
      /\ pc' = [pc EXCEPT ![<<r, "worker">>] = "notice"]
      /\ stage' \in [Run -> {"NONE"} \cup DOMAIN _TRANSITIONS \cup Terminal]
      /\ pc' \in [Thread -> PC] /\ ~Ended(r)
  BY <1>1, <1>2, StageNames, WorkerStageSet DEF Park
<1>4. Step(r, "worker", "notice") /\ claims' = claims /\ result' = result
  BY <1>1, <1>3 DEF Park, OnlyStage, work, pool, Step, Types
<1>5. Types'
  BY <1>1, <1>3 DEF Park, OnlyStage, Types, pool, work
<1>6. W(r) \in Sole \ Away /\ "notice" \in PC \ Away
  BY <1>1 DEF Sole, Early, Away, PC
<1>7. "notice" \notin Early \cup Sole
  BY DEF Early, Sole
<1> QED
  BY <1>1, <1>2, <1>3, <1>4, <1>5, <1>6, <1>7, WorkerKeeps

\* What the orchestrator returned to the worker becomes the stage of the run.
LEMMA FinishResultKeeps ==
    ASSUME WorkspaceInv, NEW r \in Run, FinishResult(worker(r))
    PROVE  WorkspaceInv'
<1>1. W(r) = "result" /\ up /\ Types
  BY DEF FinishResult, At, W, WorkspaceInv
<1>2. PICK s \in {"SUMMARIZING", "CANCELLED", "FAILED"}, p \in {"finish", "ending"} :
          /\ SetStage(worker(r), s, p)
          /\ p = "finish" <=> s = "SUMMARIZING"
          /\ s = "SUMMARIZING" => result[r] = "completed"
          /\ s = "CANCELLED" => result[r] = "cancelled"
          /\ s = "FAILED" => result[r] = "failed"
  BY DEF FinishResult, worker
<1>3. Legal(stage[r], s)
  BY <1>1, LegalSteps DEF WorkspaceInv, RunGood, WorkerPlace
<1>4. /\ stage' = [stage EXCEPT ![r] = s] /\ stage'[r] = s
      /\ pc' = [pc EXCEPT ![<<r, "worker">>] = p]
      /\ stage' \in [Run -> {"NONE"} \cup DOMAIN _TRANSITIONS \cup Terminal]
      /\ pc' \in [Thread -> PC] /\ ~Ended(r)
  <2>1. s \in Terminal \cup DOMAIN _TRANSITIONS /\ p \in PC
    BY StageNames DEF Terminal, PC
  <2> QED
    BY <1>1, <1>2, <1>3, <2>1, WorkerStageSet
<1>5. Step(r, "worker", p) /\ claims' = claims /\ result' = result
  BY <1>1, <1>4 DEF FinishResult, OnlyStage, work, pool, Step, Types
<1>6. Types'
  BY <1>1, <1>4 DEF FinishResult, OnlyStage, Types, pool, work
<1>7. W(r) \in Sole \ Away /\ p \in PC \ Away
  BY <1>1 DEF Sole, Early, Away, PC
<1>8. "finish" \notin Early /\ "ending" \notin Early
  BY DEF Early
<1> QED
  BY <1>1, <1>2, <1>4, <1>5, <1>6, <1>7, <1>8, WorkerKeeps

-----------------------------------------------------------------------------
(* Steps of either thread. *)

\* The notice is sent.
LEMMA NoticeKeeps ==
    ASSUME WorkspaceInv, NEW r \in Run, Notice(r)
    PROVE  WorkspaceInv'
<1>1. W(r) = "notice" /\ up /\ Types /\ RunGood(r) /\ "ending" \in PC
  BY DEF Notice, At, W, WorkspaceInv, PC
<1>2. pc' = [pc EXCEPT ![<<r, "worker">>] = "ending"]
  BY DEF Notice, Goto, worker
<1>3. /\ pc' \in [Thread -> PC] /\ W(r)' = "ending" /\ A(r)' = A(r)
  BY <1>1, <1>2, WorkerMoves
<1>4. /\ stage' = stage /\ result' = result /\ claims' = claims /\ faults' = faults /\ up'
      /\ Step(r, "worker", "ending")
  BY <1>1, <1>2 DEF Notice, stored, pool, work, Step, Types
<1>5. RunGood(r)'
  <2>1. WorkerPlace(r)' /\ AnswerPlace(r)'
    BY <1>1, <1>3, <1>4 DEF RunGood, WorkerPlace, AnswerPlace, Sole, Early
  <2>2. AnswerShown(r)'
    BY <1>1, <1>3, <1>4 DEF RunGood, AnswerShown
  <2> QED
    BY <1>4, <2>1, <2>2 DEF RunGood
<1>6. Types'
  BY <1>1, <1>3 DEF Notice, Types, stored, pool, work
<1> QED
  BY <1>1, <1>4, <1>5, <1>6, StepKeeps DEF Away

\* The worker's failure is stored, unless the run has an outcome.
LEMMA WorkerFails ==
    ASSUME WorkspaceInv, NEW r \in Run, FinishFailure(worker(r))
    PROVE  WorkspaceInv'
<1>1. W(r) = "failing" /\ up /\ Types /\ RunGood(r) /\ "ending" \in PC
  BY DEF FinishFailure, At, W, WorkspaceInv, PC
<1>2. pc' = [pc EXCEPT ![<<r, "worker">>] = "ending"]
  BY DEF FinishFailure, Goto, worker
<1>3. /\ pc' \in [Thread -> PC] /\ W(r)' = "ending" /\ A(r)' = A(r)
  BY <1>1, <1>2, WorkerMoves
<1>4. stage' = IF stage[r] \in Terminal THEN stage ELSE [stage EXCEPT ![r] = "FAILED"]
  BY DEF FinishFailure, worker
<1>5. /\ stage' \in [Run -> {"NONE"} \cup DOMAIN _TRANSITIONS \cup Terminal]
      /\ stage'[r] = IF stage[r] \in Terminal THEN stage[r] ELSE "FAILED"
  BY <1>1, <1>4 DEF Types, Terminal
<1>6. /\ result' = result /\ claims' = claims /\ faults' = faults /\ up'
      /\ Step(r, "worker", "ending")
  BY <1>1, <1>2, <1>4 DEF FinishFailure, OnlyStage, pool, work, Step, Types
<1>7. RunGood(r)'
  <2>1. WorkerPlace(r)'
    BY <1>3, <1>5 DEF WorkerPlace, Sole, Early, Terminal
  <2>2. AnswerPlace(r)'
    BY <1>1, <1>3, <1>5, <1>6 DEF RunGood, AnswerPlace, AnswerShown, Types, Terminal
  <2>3. AnswerShown(r)'
    BY <1>1, <1>3, <1>5, <1>6 DEF RunGood, AnswerShown, Terminal
  <2> QED
    BY <1>6, <2>1, <2>2, <2>3 DEF RunGood
<1>8. Types'
  BY <1>1, <1>3, <1>5 DEF FinishFailure, OnlyStage, Types, pool, work
<1>9. ~Ended(r) \/ stage'[r] = stage[r]
  BY <1>1, <1>5 DEF RunGood, WorkerPlace, Ended
<1> QED
  BY <1>1, <1>6, <1>7, <1>8, <1>9, StepKeeps DEF Away

\* A storage error, or one of the model or the orchestrator, in the worker.
LEMMA WorkerRaises ==
    ASSUME WorkspaceInv, NEW r \in Run, Raises(worker(r))
    PROVE  WorkspaceInv'
<1>1. W(r) \notin Away \cup {"ending"} /\ up /\ Types /\ RunGood(r)
  BY DEF Raises, W, WorkspaceInv, Away
<1>2. PICK p \in {"failing", "ending"} : pc' = [pc EXCEPT ![<<r, "worker">>] = p]
  BY DEF Raises, Goto, worker
<1>3. /\ pc' \in [Thread -> PC] /\ W(r)' = p /\ A(r)' = A(r)
  BY <1>1, <1>2, WorkerMoves DEF PC
<1>4. /\ stage' = stage /\ result' = result /\ claims' = claims /\ faults' > 0 /\ up'
      /\ Step(r, "worker", p)
  BY <1>1, <1>2 DEF Raises, stored, pool, work, Step, Types
<1>5. RunGood(r)'
  <2>1. WorkerPlace(r)'
    BY <1>1, <1>3, <1>4 DEF RunGood, WorkerPlace, Sole, Early, Away
  <2>2. AnswerPlace(r)'
    BY <1>1, <1>3, <1>4 DEF RunGood, AnswerPlace, Sole, Early
  <2>3. AnswerShown(r)'
    BY <1>1, <1>3, <1>4 DEF RunGood, AnswerShown
  <2> QED
    BY <1>4, <2>1, <2>2, <2>3 DEF RunGood
<1>6. Types'
  BY <1>1, <1>3, FaultsAssumption DEF Raises, Types, stored, pool, work
<1>7. p \in PC /\ p \notin Away
  BY DEF PC, Away
<1> QED
  BY <1>1, <1>4, <1>5, <1>6, <1>7, StepKeeps

\* And in the thread of an answer.
LEMMA AnswerRaises ==
    ASSUME WorkspaceInv, NEW r \in Run, Raises(<<r, "answer">>)
    PROVE  WorkspaceInv'
<1>1. A(r) \notin {"idle", "ending", "done", "gone"} /\ up /\ Types /\ RunGood(r)
  BY DEF Raises, A, WorkspaceInv
<1>2. PICK p \in {"failing", "ending"} : pc' = [pc EXCEPT ![<<r, "answer">>] = p]
  BY DEF Raises, Goto
<1>3. /\ pc' \in [Thread -> PC] /\ W(r)' = W(r) /\ A(r)' = p
  BY <1>1, <1>2, AnswerMoves DEF PC
<1>4. /\ stage' = stage /\ result' = result /\ claims' = claims /\ faults' > 0 /\ up'
      /\ Step(r, "answer", p)
  BY <1>1, <1>2 DEF Raises, stored, pool, work, Step, Types
<1>5. RunGood(r)'
  <2>1. WorkerPlace(r)'
    BY <1>1, <1>3, <1>4 DEF RunGood, WorkerPlace
  <2>2. AnswerPlace(r)'
    BY <1>1, <1>3, <1>4 DEF RunGood, AnswerPlace
  <2>3. AnswerShown(r)'
    BY <1>1, <1>3, <1>4 DEF RunGood, AnswerShown
  <2> QED
    BY <1>4, <2>1, <2>2, <2>3 DEF RunGood
<1>6. Types'
  BY <1>1, <1>3, FaultsAssumption DEF Raises, Types, stored, pool, work
<1>7. p \in PC
  BY DEF PC
<1> QED
  BY <1>1, <1>4, <1>5, <1>6, <1>7, StepKeeps

\* An answer is accepted.
LEMMA RespondKeeps ==
    ASSUME WorkspaceInv, NEW r \in Run, Respond(r)
    PROVE  WorkspaceInv'
<1>1. stage[r] = "AWAITING_APPROVAL" /\ up /\ Types /\ RunGood(r) /\ "answering" \in PC
  BY DEF Respond, WorkspaceInv, PC
<1>2. pc' = [pc EXCEPT ![<<r, "answer">>] = "answering"]
      /\ stage' = [stage EXCEPT ![r] = "EXECUTING"]
  BY DEF Respond, Goto
<1>3. /\ pc' \in [Thread -> PC] /\ W(r)' = W(r) /\ A(r)' = "answering"
  BY <1>1, <1>2, AnswerMoves
<1>4. /\ stage' \in [Run -> {"NONE"} \cup DOMAIN _TRANSITIONS \cup Terminal]
      /\ stage'[r] = "EXECUTING"
  BY <1>1, <1>2, StageNames DEF Types
<1>5. /\ result' = result /\ claims' = claims /\ faults' = faults /\ up'
      /\ Step(r, "answer", "answering")
  BY <1>1, <1>2 DEF Respond, OnlyStage, pool, work, Step, Types
<1>6. RunGood(r)'
  <2>1. WorkerPlace(r)'
    BY <1>1, <1>3, <1>4 DEF RunGood, AnswerPlace, WorkerPlace, Sole, Early
  <2>2. AnswerPlace(r)'
    BY <1>1, <1>3, <1>4, <1>5 DEF RunGood, AnswerPlace
  <2>3. AnswerShown(r)'
    BY <1>1, <1>3, <1>4, <1>5 DEF RunGood, AnswerPlace, AnswerShown
  <2> QED
    BY <1>5, <2>1, <2>2, <2>3 DEF RunGood
<1>7. Types'
  BY <1>1, <1>3, <1>4 DEF Respond, OnlyStage, Types, pool, work
<1>8. ~Ended(r)
  BY <1>1 DEF Ended, Terminal
<1> QED
  BY <1>1, <1>5, <1>6, <1>7, <1>8, StepKeeps

\* The orchestrator sees it.
LEMMA AnswerKeeps ==
    ASSUME WorkspaceInv, NEW r \in Run, Answer(r)
    PROVE  WorkspaceInv'
<1>1. A(r) = "answering" /\ up /\ Types /\ RunGood(r)
  BY DEF Answer, At, A, WorkspaceInv
<1>2. PICK p \in {"result", "failing"}, o \in {"completed", "cancelled", "failed", "awaiting"} :
          /\ pc' = [pc EXCEPT ![<<r, "answer">>] = p]
          /\ result' = [result EXCEPT ![r] = o]
          /\ p = "failing" <=> o = "awaiting"
  <2>1. result = [result EXCEPT ![r] = "awaiting"]
    BY <1>1 DEF Types, RunGood, AnswerPlace
  <2> QED
    BY <2>1 DEF Answer, Returned, Goto
<1>3. /\ pc' \in [Thread -> PC] /\ W(r)' = W(r) /\ A(r)' = p
  BY <1>1, <1>2, AnswerMoves DEF PC
<1>4. /\ stage' = stage /\ result'[r] = o /\ claims' = [claims EXCEPT ![r] = @ + 1] /\ up'
      /\ faults' \in 0 .. MaxFaults /\ faults' >= faults /\ session' \subseteq Run
  <2>1. faults' \in 0 .. MaxFaults /\ faults' >= faults
    BY <1>1, FaultsAssumption DEF Answer, Types
  <2> QED
    BY <1>1, <1>2, <2>1 DEF Answer, stored, pool, Types
<1>5. claims' \in [Run -> Nat] /\ claims'[r] = 1
  BY <1>1, <1>4 DEF RunGood, AnswerPlace, Types
<1>6. Step(r, "answer", p)
  BY <1>1, <1>2, <1>4 DEF Answer, stored, pool, Step, Types
<1>7. RunGood(r)'
  <2>1. W(r) \notin Sole
    BY <1>1 DEF RunGood, WorkerPlace
  <2>2. WorkerPlace(r)'
    BY <1>1, <1>3, <1>4, <2>1 DEF RunGood, WorkerPlace, Sole, Early
  <2>3. AnswerPlace(r)'
    BY <1>1, <1>2, <1>3, <1>4, <1>5 DEF RunGood, AnswerPlace, Types
  <2>4. AnswerShown(r)'
    BY <1>1, <1>2, <1>3, <1>4 DEF RunGood, AnswerPlace, AnswerShown, Types
  <2> QED
    BY <1>4, <2>2, <2>3, <2>4 DEF RunGood
<1>8. Types'
  BY <1>1, <1>2, <1>3, <1>4, <1>5 DEF Answer, Types, stored, pool
<1>9. p \in PC
  BY DEF PC
<1> QED
  BY <1>1, <1>4, <1>6, <1>7, <1>8, <1>9, StepKeeps

\* Answers do not reply.
LEMMA NoReplyOfAnswer ==
    ASSUME WorkspaceInv, NEW r \in Run, Reply(<<r, "answer">>)
    PROVE  FALSE
BY DEF WorkspaceInv, RunGood, AnswerPlace, Reply, At, A

\* Its thread words the result of a run, unless its worker has failed it.
LEMMA AnswerFinishes ==
    ASSUME WorkspaceInv, NEW r \in Run, Finish(<<r, "answer">>)
    PROVE  WorkspaceInv'
<1>1. A(r) = "finish" /\ up /\ Types /\ RunGood(r)
  BY DEF Finish, At, A, WorkspaceInv
<1>2. /\ stage[r] \in {"SUMMARIZING", "FAILED"} /\ result[r] = "completed"
      /\ stage[r] = "FAILED" => faults > 0
      /\ W(r) \notin Sole
  BY <1>1 DEF RunGood, AnswerPlace, WorkerPlace
<1>3. PICK p \in {"ending", "failing"} :
          /\ pc' = [pc EXCEPT ![<<r, "answer">>] = p]
          /\ p = "ending" => stage' = [stage EXCEPT ![r] = "COMPLETED"] /\ ~Ended(r)
          /\ p = "failing" => stage' = stage /\ faults > 0
  <2>1. CASE stage[r] = "SUMMARIZING"
    BY <2>1, StageSet, LegalSteps DEF Finish, Ended, Terminal
  <2>2. CASE stage[r] = "FAILED"
    BY <1>2, <2>2, StageSet, LegalSteps DEF Finish
  <2> QED
    BY <1>2, <2>1, <2>2
<1>4. /\ pc' \in [Thread -> PC] /\ W(r)' = W(r) /\ A(r)' = p
  BY <1>1, <1>3, AnswerMoves DEF PC
<1>5. /\ stage' \in [Run -> {"NONE"} \cup DOMAIN _TRANSITIONS \cup Terminal]
      /\ p = "ending" => stage'[r] = "COMPLETED"
      /\ p = "failing" => stage'[r] = stage[r]
  BY <1>1, <1>3 DEF Types, Terminal
<1>6. /\ result' = result /\ claims' = claims /\ faults' = faults /\ up'
      /\ Step(r, "answer", p)
  BY <1>1, <1>3 DEF Finish, OnlyStage, pool, work, Step, Types
<1>7. RunGood(r)'
  <2>1. WorkerPlace(r)'
    BY <1>1, <1>2, <1>4, <1>5 DEF RunGood, WorkerPlace, Sole, Early
  <2>2. AnswerPlace(r)'
    BY <1>1, <1>2, <1>4, <1>5, <1>6 DEF RunGood, AnswerPlace
  <2>3. AnswerShown(r)'
    BY <1>1, <1>2, <1>3, <1>4, <1>5, <1>6 DEF RunGood, AnswerShown
  <2> QED
    BY <1>6, <2>1, <2>2, <2>3 DEF RunGood
<1>8. Types'
  BY <1>1, <1>4, <1>5 DEF Finish, OnlyStage, Types, pool, work
<1>9. p \in PC
  BY DEF PC
<1> QED
  BY <1>1, <1>3, <1>5, <1>6, <1>7, <1>8, <1>9, StepKeeps

\* What the orchestrator returned to it becomes the stage, unless the worker has
\* failed the run.
LEMMA AnswerResultKeeps ==
    ASSUME WorkspaceInv, NEW r \in Run, FinishResult(<<r, "answer">>)
    PROVE  WorkspaceInv'
<1>1. A(r) = "result" /\ up /\ Types /\ RunGood(r)
  BY DEF FinishResult, At, A, WorkspaceInv
<1>2. /\ stage[r] \in {"EXECUTING", "FAILED"}
      /\ stage[r] = "FAILED" => faults > 0
      /\ W(r) \notin Sole
  BY <1>1 DEF RunGood, AnswerPlace, WorkerPlace
<1>3. PICK s \in {"SUMMARIZING", "CANCELLED", "FAILED"}, d \in {"finish", "ending"} :
          /\ SetStage(<<r, "answer">>, s, d)
          /\ d = "finish" <=> s = "SUMMARIZING"
          /\ s = "SUMMARIZING" => result[r] = "completed"
          /\ s = "CANCELLED" => result[r] = "cancelled"
          /\ s = "FAILED" => result[r] = "failed"
  BY DEF FinishResult
<1>4. PICK p \in {d, "failing"} :
          /\ pc' = [pc EXCEPT ![<<r, "answer">>] = p]
          /\ p = d => stage' = [stage EXCEPT ![r] = s] /\ ~Ended(r)
          /\ p = "failing" => stage' = stage /\ faults > 0
  <2>1. CASE stage[r] = "EXECUTING"
    BY <1>3, <2>1, StageSet, LegalSteps DEF Ended, Terminal
  <2>2. CASE stage[r] = "FAILED"
    BY <1>2, <1>3, <2>2, StageSet, LegalSteps
  <2> QED
    BY <1>2, <2>1, <2>2
<1>5. p \in PC /\ p \in {"finish", "ending", "failing"} /\ s \in Terminal \cup DOMAIN _TRANSITIONS
  BY <1>3, StageNames DEF PC, Terminal
<1>6. /\ pc' \in [Thread -> PC] /\ W(r)' = W(r) /\ A(r)' = p
  BY <1>1, <1>4, <1>5, AnswerMoves
<1>7. /\ stage' \in [Run -> {"NONE"} \cup DOMAIN _TRANSITIONS \cup Terminal]
      /\ p = d => stage'[r] = s
      /\ p = "failing" => stage'[r] = stage[r]
  BY <1>1, <1>4, <1>5 DEF Types
<1>8. /\ result' = result /\ claims' = claims /\ faults' = faults /\ up'
      /\ Step(r, "answer", p)
  BY <1>1, <1>4 DEF FinishResult, OnlyStage, pool, work, Step, Types
<1>9. RunGood(r)'
  <2>1. WorkerPlace(r)'
    BY <1>1, <1>2, <1>3, <1>4, <1>6, <1>7 DEF RunGood, WorkerPlace, Sole, Early
  <2>2. AnswerPlace(r)'
    BY <1>1, <1>2, <1>3, <1>4, <1>6, <1>7, <1>8 DEF RunGood, AnswerPlace
  <2>3. AnswerShown(r)'
    BY <1>1, <1>2, <1>3, <1>4, <1>6, <1>7, <1>8 DEF RunGood, AnswerShown, Types
  <2> QED
    BY <1>8, <2>1, <2>2, <2>3 DEF RunGood
<1>10. Types'
  BY <1>1, <1>6, <1>7 DEF FinishResult, OnlyStage, Types, pool, work
<1> QED
  BY <1>1, <1>4, <1>5, <1>7, <1>8, <1>9, <1>10, StepKeeps

\* The failure of an answer is stored, unless the run has an outcome.
LEMMA AnswerFails ==
    ASSUME WorkspaceInv, NEW r \in Run, FinishFailure(<<r, "answer">>)
    PROVE  WorkspaceInv'
<1>1. A(r) = "failing" /\ up /\ Types /\ RunGood(r) /\ "ending" \in PC
  BY DEF FinishFailure, At, A, WorkspaceInv, PC
<1>2. pc' = [pc EXCEPT ![<<r, "answer">>] = "ending"]
  BY DEF FinishFailure, Goto
<1>3. /\ pc' \in [Thread -> PC] /\ W(r)' = W(r) /\ A(r)' = "ending"
  BY <1>1, <1>2, AnswerMoves
<1>4. stage' = IF stage[r] \in Terminal THEN stage ELSE [stage EXCEPT ![r] = "FAILED"]
  BY DEF FinishFailure
<1>5. /\ stage' \in [Run -> {"NONE"} \cup DOMAIN _TRANSITIONS \cup Terminal]
      /\ stage'[r] = IF stage[r] \in Terminal THEN stage[r] ELSE "FAILED"
  BY <1>1, <1>4 DEF Types, Terminal
<1>6. /\ result' = result /\ claims' = claims /\ faults' = faults /\ up'
      /\ Step(r, "answer", "ending")
  BY <1>1, <1>2, <1>4 DEF FinishFailure, OnlyStage, pool, work, Step, Types
<1>7. RunGood(r)'
  <2>1. W(r) \notin Sole
    BY <1>1 DEF RunGood, WorkerPlace
  <2>2. WorkerPlace(r)'
    BY <1>1, <1>3, <1>5, <2>1 DEF RunGood, WorkerPlace, Sole, Early
  <2>3. AnswerPlace(r)'
    BY <1>1, <1>3, <1>5, <1>6 DEF RunGood, AnswerPlace, Terminal
  <2>4. AnswerShown(r)'
    BY <1>1, <1>3, <1>5, <1>6 DEF RunGood, AnswerShown, Terminal
  <2> QED
    BY <1>6, <2>2, <2>3, <2>4 DEF RunGood
<1>8. Types'
  BY <1>1, <1>3, <1>5 DEF FinishFailure, OnlyStage, Types, pool, work
<1>9. ~Ended(r) \/ stage'[r] = stage[r]
  BY <1>1, <1>5 DEF RunGood, WorkerPlace, Sole, Early, Ended
<1> QED
  BY <1>1, <1>6, <1>7, <1>8, <1>9, StepKeeps

-----------------------------------------------------------------------------
(* Steps that concern the pool, or no run. *)

\* The runs that wait go on waiting while nobody takes them.
LEMMA QueueKept ==
    ASSUME WorkspaceInv, queue' = queue, \A q \in Run : W(q) = "queued" => W(q)' = "queued"
    PROVE  QueueWaits'
<1>1. \A i \in 1 .. Len(queue) : queue[i] \in Run
  BY ElementOfSeq DEF WorkspaceInv, Types
<1> QED
  BY <1>1 DEF WorkspaceInv, QueueWaits, W

\* The end of an answer's thread.
LEMMA AnswerEnds ==
    ASSUME WorkspaceInv, NEW r \in Run, End(<<r, "answer">>)
    PROVE  WorkspaceInv'
<1>1. A(r) = "ending" /\ up /\ Types /\ RunGood(r) /\ "done" \in PC
  BY DEF End, At, A, WorkspaceInv, PC
<1>2. pc' = [pc EXCEPT ![<<r, "answer">>] = "done"] /\ UNCHANGED <<resumed, plan, slots>>
  BY DEF End, Goto, Forget
<1>3. /\ pc' \in [Thread -> PC] /\ W(r)' = W(r) /\ A(r)' = "done"
  BY <1>1, <1>2, AnswerMoves
<1>4. /\ stage' = stage /\ result' = result /\ claims' = claims /\ faults' = faults /\ up'
      /\ Step(r, "answer", "done")
  BY <1>1, <1>2 DEF End, stored, Step, Types
<1>5. RunGood(r)'
  <2>1. WorkerPlace(r)' /\ AnswerPlace(r)'
    BY <1>1, <1>3, <1>4 DEF RunGood, WorkerPlace, AnswerPlace
  <2>2. AnswerShown(r)'
    BY <1>1, <1>3, <1>4 DEF RunGood, AnswerShown
  <2> QED
    BY <1>4, <2>1, <2>2 DEF RunGood
<1>6. Types'
  BY <1>1, <1>2, <1>3 DEF End, Types, stored
<1> QED
  BY <1>1, <1>4, <1>5, <1>6, StepKeeps

\* A worker ends, and its slot is free.
LEMMA WorkerEnds ==
    ASSUME WorkspaceInv, NEW r \in Run, End(worker(r))
    PROVE  WorkspaceInv'
<1>1. W(r) = "ending" /\ up /\ Types /\ RunGood(r) /\ "done" \in PC
  BY DEF End, At, W, WorkspaceInv, PC
<1>2. /\ pc' = [pc EXCEPT ![<<r, "worker">>] = "done"]
      /\ slots' = slots + 1
      /\ resumed' = [resumed EXCEPT ![r] = None] /\ plan' = [plan EXCEPT ![r] = NoPlan]
  BY DEF End, Goto, Forget, worker
<1>3. /\ pc' \in [Thread -> PC] /\ W(r)' = "done" /\ A(r)' = A(r)
      /\ \A q \in Run \ {r} : W(q)' = W(q) /\ A(q)' = A(q)
  BY <1>1, <1>2, WorkerMoves
<1>4. /\ stage' = stage /\ result' = result /\ claims' = claims /\ faults' = faults
      /\ up' = up /\ queue' = queue /\ messages' = messages /\ switching' = switching
  BY DEF End, stored
<1>5. Types'
  BY <1>1, <1>2, <1>3 DEF End, Types, stored, NoPlan
<1>6. SlotsBalanced'
  <2>1. Holders' = Holders \ {r}
    BY <1>1, <1>3 DEF Holders, W
  <2>2. r \in Holders /\ IsFiniteSet(Holders) /\ slots + Cardinality(Holders) = MaxPending
        /\ slots \in Nat
    BY <1>1 DEF Holders, W, WorkspaceInv, SlotsBalanced
  <2>3. IsFiniteSet(Holders') /\ Cardinality(Holders') = Cardinality(Holders) - 1
    BY <2>1, <2>2, FS_RemoveElement
  <2>4. Cardinality(Holders) \in Nat
    BY <2>2, FS_CardinalityType
  <2> QED
    BY <1>2, <2>2, <2>3, <2>4 DEF SlotsBalanced
<1>7. QueueWaits'
  BY <1>1, <1>3, <1>4, QueueKept
<1>8. RunsKnown'
  BY <1>1, <1>3, <1>4 DEF WorkspaceInv, RunsKnown, Known
<1>9. SwitchedAlone'
  BY <1>4 DEF WorkspaceInv, SwitchedAlone, Ended
<1>10. \A q \in Run : RunGood(q)'
  <2>1. ASSUME NEW q \in Run, q # r PROVE RunGood(q)'
    <3>1. SameRun(q)
      BY <1>3, <1>4, <2>1 DEF SameRun
    <3> QED
      BY <1>1, <1>4, <3>1, SameRunGood DEF WorkspaceInv, Types
  <2>2. WorkerPlace(r)' /\ AnswerPlace(r)'
    BY <1>1, <1>3, <1>4 DEF RunGood, WorkerPlace, AnswerPlace, Sole, Early
  <2>3. AnswerShown(r)'
    BY <1>1, <1>3, <1>4 DEF RunGood, AnswerShown
  <2> QED
    BY <1>1, <1>4, <2>1, <2>2, <2>3 DEF RunGood
<1> QED
  BY <1>5, <1>6, <1>7, <1>8, <1>9, <1>10 DEF WorkspaceInv

\* What a message that is not stored yet says of its run.
LEMMA UnknownRun ==
    ASSUME WorkspaceInv, NEW r \in Run, r \notin ToSet(messages)
    PROVE  W(r) = "idle" /\ A(r) = "idle" /\ stage[r] = "NONE" /\ result[r] = "none"
           /\ claims[r] = 0
<1>1. ~Known(r)
  <2>1. DOMAIN messages = 1 .. Len(messages)
    BY LenProperties DEF WorkspaceInv, Types
  <2> QED
    BY <2>1 DEF Known, ToSet
<1>2. W(r) = "idle" /\ stage[r] = "NONE"
  BY <1>1 DEF WorkspaceInv, RunsKnown
<1> QED
  BY <1>2 DEF WorkspaceInv, RunGood, WorkerPlace, AnswerPlace, Sole, Early

\* A message that is added keeps those that are there.
LEMMA MessageAdded ==
    ASSUME WorkspaceInv, NEW r \in Run, messages' = Append(messages, r)
    PROVE  /\ messages' \in Seq(Run) /\ Known(r)'
           /\ \A q \in Run : Known(q) => Known(q)'
<1>1. messages \in Seq(Run) /\ Len(messages) \in Nat
  BY LenProperties DEF WorkspaceInv, Types
<1>2. /\ messages' \in Seq(Run) /\ Len(messages') = Len(messages) + 1
      /\ \A i \in 1 .. Len(messages) : messages'[i] = messages[i]
      /\ messages'[Len(messages) + 1] = r
  BY <1>1, AppendProperties
<1>3. Known(r)'
  BY <1>1, <1>2 DEF Known
<1>4. ASSUME NEW q \in Run, Known(q) PROVE Known(q)'
  <2>1. PICK i \in 1 .. Len(messages) : messages[i] = q
    BY <1>4 DEF Known
  <2>2. i \in 1 .. Len(messages') /\ messages'[i] = q
    BY <1>1, <1>2, <2>1
  <2> QED
    BY <2>2 DEF Known
<1> QED
  BY <1>2, <1>3, <1>4

\* A run is submitted.
LEMMA SubmitKeeps ==
    ASSUME WorkspaceInv, NEW r \in Run, Submit(r)
    PROVE  WorkspaceInv'
<1>1. /\ Types /\ up /\ ~switching /\ slots > 0 /\ "queued" \in PC
      /\ W(r) = "idle" /\ A(r) = "idle" /\ stage[r] = "NONE" /\ result[r] = "none" /\ claims[r] = 0
  BY UnknownRun DEF Submit, WorkspaceInv, PC
<1>2. /\ pc' = [pc EXCEPT ![<<r, "worker">>] = "queued"]
      /\ stage' = [stage EXCEPT ![r] = "RECEIVED"]
      /\ slots' = slots - 1 /\ queue' = Append(queue, r) /\ messages' = Append(messages, r)
      /\ result' = result /\ claims' = claims /\ faults' = faults /\ up' = up
      /\ switching' = switching
  BY DEF Submit, Goto, worker, work
<1>3. /\ pc' \in [Thread -> PC] /\ W(r)' = "queued" /\ A(r)' = "idle"
      /\ \A q \in Run \ {r} : W(q)' = W(q) /\ A(q)' = A(q)
  BY <1>1, <1>2, WorkerMoves
<1>4. /\ stage' \in [Run -> {"NONE"} \cup DOMAIN _TRANSITIONS \cup Terminal]
      /\ stage'[r] = "RECEIVED"
      /\ \A q \in Run \ {r} : stage'[q] = stage[q]
  BY <1>1, <1>2, StageNames DEF Types
<1>5. /\ queue' \in Seq(Run) /\ Len(queue') = Len(queue) + 1 /\ Len(queue) \in Nat
      /\ \A i \in 1 .. Len(queue) : queue'[i] = queue[i] /\ queue[i] \in Run
      /\ queue'[Len(queue) + 1] = r
  BY <1>1, <1>2, AppendProperties, LenProperties, ElementOfSeq DEF Types
<1>6. Types'
  BY <1>1, <1>2, <1>3, <1>4, <1>5, MessageAdded DEF Submit, Types, work
<1>7. SlotsBalanced'
  <2>1. Holders' = Holders \cup {r}
    BY <1>3 DEF Holders, W
  <2>2. r \notin Holders /\ IsFiniteSet(Holders) /\ slots + Cardinality(Holders) = MaxPending
        /\ slots \in Nat
    BY <1>1 DEF Holders, W, WorkspaceInv, SlotsBalanced
  <2>3. IsFiniteSet(Holders') /\ Cardinality(Holders') = Cardinality(Holders) + 1
    BY <2>1, <2>2, FS_AddElement
  <2>4. Cardinality(Holders) \in Nat
    BY <2>2, FS_CardinalityType
  <2>5. slots' = slots - 1 /\ slots' \in Nat
    BY <1>1, <1>2, <2>2
  <2>6. slots' + Cardinality(Holders') = MaxPending
    BY <2>2, <2>3, <2>4, <2>5
  <2> QED
    BY <2>3, <2>5, <2>6 DEF SlotsBalanced
<1>8. QueueWaits'
  <2>1. ASSUME NEW i \in 1 .. Len(queue)
        PROVE  queue[i] # r /\ queue'[i] = queue[i] /\ pc'[worker(queue'[i])] = "queued"
    <3>1. queue[i] \in Run /\ W(queue[i]) = "queued" /\ queue'[i] = queue[i]
      BY <1>5 DEF WorkspaceInv, QueueWaits
    <3>2. queue[i] # r
      BY <1>1, <3>1
    <3>3. \A q \in Run \ {r} : pc'[worker(q)] = pc[worker(q)]
      BY <1>3 DEF W
    <3> QED
      BY <3>1, <3>2, <3>3 DEF W
  <2>2. \A i \in 1 .. Len(queue') : i \in 1 .. Len(queue) \/ i = Len(queue) + 1
    BY <1>5
  <2>3. pc'[worker(queue'[Len(queue) + 1])] = "queued"
    BY <1>3, <1>5 DEF W
  <2>4. \A i, j \in 1 .. Len(queue') : queue'[i] = queue'[j] => i = j
    BY <1>5, <2>1, <2>2 DEF WorkspaceInv, QueueWaits
  <2> QED
    BY <2>1, <2>2, <2>3, <2>4 DEF QueueWaits, W
<1>9. RunsKnown'
  BY <1>2, <1>3, <1>4, MessageAdded DEF WorkspaceInv, RunsKnown
<1>10. SwitchedAlone'
  BY <1>1, <1>2 DEF SwitchedAlone
<1>11. \A q \in Run : RunGood(q)'
  <2>1. ASSUME NEW q \in Run, q # r PROVE RunGood(q)'
    <3>1. SameRun(q)
      BY <1>2, <1>3, <1>4, <2>1 DEF SameRun
    <3> QED
      BY <1>1, <1>2, <3>1, SameRunGood DEF WorkspaceInv, Types
  <2>2. WorkerPlace(r)' /\ AnswerPlace(r)'
    BY <1>1, <1>2, <1>3, <1>4 DEF WorkerPlace, AnswerPlace, Sole, Early
  <2>3. AnswerShown(r)'
    BY <1>1, <1>2, <1>3, <1>4 DEF AnswerShown
  <2> QED
    BY <1>1, <1>2, <2>1, <2>2, <2>3 DEF RunGood
<1> QED
  BY <1>6, <1>7, <1>8, <1>9, <1>10, <1>11 DEF WorkspaceInv

\* submit() raises after it has stored the message.
LEMMA SubmitRaisesKeeps ==
    ASSUME WorkspaceInv, NEW r \in Run, SubmitRaises(r)
    PROVE  WorkspaceInv'
<1>1. /\ Types /\ up /\ ~switching
      /\ W(r) = "idle" /\ A(r) = "idle" /\ stage[r] = "NONE" /\ result[r] = "none" /\ claims[r] = 0
  BY UnknownRun DEF SubmitRaises, WorkspaceInv
<1>2. /\ stage' \in {stage, [stage EXCEPT ![r] = "RECEIVED"]}
      /\ messages' = Append(messages, r)
      /\ UNCHANGED <<pc, queue, slots, up, switching, result, claims>>
      /\ faults' = faults + 1
  BY DEF SubmitRaises, work, pool
<1>3. \A q \in Run : W(q)' = W(q) /\ A(q)' = A(q)
  BY <1>2 DEF W, A
<1>4. /\ stage' \in [Run -> {"NONE"} \cup DOMAIN _TRANSITIONS \cup Terminal]
      /\ stage'[r] \in {"NONE", "RECEIVED"}
      /\ \A q \in Run \ {r} : stage'[q] = stage[q]
  BY <1>1, <1>2, StageNames DEF Types
<1>5. Types'
  BY <1>1, <1>2, <1>4, MessageAdded, FaultsAssumption DEF SubmitRaises, Types, work, pool
<1>6. SlotsBalanced'
  BY <1>2 DEF WorkspaceInv, SlotsBalanced, Holders
<1>7. QueueWaits'
  BY <1>2, <1>3, QueueKept
<1>8. RunsKnown'
  BY <1>2, <1>3, <1>4, MessageAdded DEF WorkspaceInv, RunsKnown
<1>9. SwitchedAlone'
  BY <1>1, <1>2 DEF SwitchedAlone
<1>10. \A q \in Run : RunGood(q)'
  <2>1. ASSUME NEW q \in Run, q # r PROVE RunGood(q)'
    <3>1. SameRun(q)
      BY <1>2, <1>3, <1>4, <2>1 DEF SameRun
    <3>2. faults \in Nat /\ faults' \in Nat /\ faults' >= faults
      BY <1>1, <1>2 DEF Types
    <3> QED
      BY <1>2, <3>1, <3>2, SameRunGood DEF WorkspaceInv
  <2>2. WorkerPlace(r)' /\ AnswerPlace(r)'
    BY <1>1, <1>2, <1>3, <1>4 DEF WorkerPlace, AnswerPlace, Sole, Early
  <2>3. AnswerShown(r)'
    BY <1>1, <1>2, <1>3, <1>4 DEF AnswerShown
  <2> QED
    BY <1>1, <1>2, <2>1, <2>2, <2>3 DEF RunGood
<1> QED
  BY <1>5, <1>6, <1>7, <1>8, <1>9, <1>10 DEF WorkspaceInv

\* A worker takes the first run of the queue.
LEMMA StartJobKeeps ==
    ASSUME WorkspaceInv, StartJob
    PROVE  WorkspaceInv'
<1>1. Types /\ up /\ queue # <<>> /\ up' = up
  BY DEF StartJob, WorkspaceInv
<1>2. PICK r \in Run :
          /\ queue' \in Seq(Run) /\ Len(queue) \in Nat \ {0} /\ r = Head(queue) /\ r = queue[1]
          /\ Len(queue') = Len(queue) - 1
          /\ \A i \in 1 .. Len(queue') : queue'[i] = queue[i + 1]
  <2>1. queue \in Seq(Run) /\ Len(queue) \in Nat \ {0} /\ Head(queue) = queue[1]
    BY <1>1, EmptySeq, LenProperties DEF Types
  <2>2. /\ Head(queue) \in Run /\ queue' \in Seq(Run) /\ Len(queue') = Len(queue) - 1
        /\ \A i \in 1 .. Len(queue') : queue'[i] = queue[i + 1]
    BY <1>1, <2>1, HeadTailProperties DEF StartJob
  <2> QED
    BY <2>1, <2>2
<1>3. W(r) = "queued" /\ RunGood(r)
  BY <1>2 DEF WorkspaceInv, QueueWaits
<1>4. A(r) = "idle" /\ stage[r] = "RECEIVED" /\ result[r] = "none" /\ claims[r] = 0
  BY <1>3 DEF RunGood, WorkerPlace, AnswerPlace, Sole, Early
<1>5. PICK p \in {"taking", "ending"} :
          /\ pc' = [pc EXCEPT ![<<r, "worker">>] = p]
          /\ IF p = "taking" THEN stage' = [stage EXCEPT ![r] = "UNDERSTANDING"] ELSE stage' = stage
          /\ faults' \in {faults, faults + 1} /\ faults' <= MaxFaults
          /\ p = "ending" => faults' = faults + 1
  <2>1. CASE SetStage(worker(r), "UNDERSTANDING", "taking") /\ faults' = faults
    BY <1>1, <1>4, <2>1, StageSet, LegalSteps DEF worker, Types
  <2>2. CASE faults < MaxFaults /\ faults' = faults + 1 /\ Goto(worker(r), "ending")
             /\ stage' = stage
    BY <1>1, <2>2, FaultsAssumption DEF Goto, worker, Types
  <2> QED
    BY <1>2, <2>1, <2>2 DEF StartJob
<1>6. /\ pc' \in [Thread -> PC] /\ W(r)' = p /\ A(r)' = "idle"
      /\ \A q \in Run \ {r} : W(q)' = W(q) /\ A(q)' = A(q)
  BY <1>1, <1>2, <1>4, <1>5, WorkerMoves DEF PC
<1>7. /\ stage' \in [Run -> {"NONE"} \cup DOMAIN _TRANSITIONS \cup Terminal]
      /\ stage'[r] = IF p = "taking" THEN "UNDERSTANDING" ELSE "RECEIVED"
      /\ \A q \in Run \ {r} : stage'[q] = stage[q]
  BY <1>1, <1>2, <1>4, <1>5, StageNames DEF Types
<1>8. /\ result' = result /\ claims' = claims /\ messages' = messages /\ slots' = slots
      /\ switching' = switching /\ faults' \in 0 .. MaxFaults /\ faults' >= faults
  BY <1>1, <1>5 DEF StartJob, work, Types
<1>9. Types'
  BY <1>1, <1>2, <1>6, <1>7, <1>8 DEF StartJob, Types, work
<1>10. SlotsBalanced'
  <2>1. Holders' = Holders
    BY <1>2, <1>3, <1>6 DEF Holders, W
  <2> QED
    BY <1>8, <2>1 DEF WorkspaceInv, SlotsBalanced
<1>11. QueueWaits'
  <2>1. ASSUME NEW i \in 1 .. Len(queue')
        PROVE  i + 1 \in 1 .. Len(queue) /\ queue'[i] = queue[i + 1]
               /\ pc'[worker(queue'[i])] = "queued"
    <3>1. i + 1 \in 1 .. Len(queue) /\ 1 \in 1 .. Len(queue) /\ i + 1 # 1
          /\ queue'[i] = queue[i + 1]
      BY <1>2
    <3>2. queue[i + 1] \in Run /\ W(queue[i + 1]) = "queued"
      BY <1>1, <3>1, ElementOfSeq DEF WorkspaceInv, QueueWaits, Types
    <3>3. queue[i + 1] # r
      BY <1>2, <3>1 DEF WorkspaceInv, QueueWaits
    <3>4. \A q \in Run \ {r} : pc'[worker(q)] = pc[worker(q)]
      BY <1>6 DEF W
    <3> QED
      BY <3>1, <3>2, <3>3, <3>4 DEF W
  <2>2. ASSUME NEW i \in 1 .. Len(queue'), NEW j \in 1 .. Len(queue'), queue'[i] = queue'[j]
        PROVE  i = j
    <3>1. i + 1 = j + 1
      BY <2>1, <2>2 DEF WorkspaceInv, QueueWaits
    <3> QED
      BY <1>2, <3>1
  <2> QED
    BY <2>1, <2>2 DEF QueueWaits, W
<1>12. RunsKnown'
  BY <1>2, <1>3, <1>6, <1>7, <1>8 DEF WorkspaceInv, RunsKnown, Known
<1>13. SwitchedAlone'
  BY <1>2, <1>4, <1>8 DEF WorkspaceInv, SwitchedAlone, Ended, Terminal
<1>14. \A q \in Run : RunGood(q)'
  <2>1. ASSUME NEW q \in Run, q # r PROVE RunGood(q)'
    <3>1. SameRun(q)
      BY <1>6, <1>7, <1>8, <2>1 DEF SameRun
    <3>2. faults \in Nat /\ faults' \in Nat /\ faults' >= faults
      BY <1>1, <1>8 DEF Types
    <3> QED
      BY <1>1, <3>1, <3>2, SameRunGood DEF WorkspaceInv
  <2>2. WorkerPlace(r)' /\ AnswerPlace(r)'
    BY <1>4, <1>6, <1>7, <1>8 DEF WorkerPlace, AnswerPlace, Sole, Early
  <2>3. AnswerShown(r)'
    BY <1>4, <1>6, <1>7, <1>8 DEF AnswerShown
  <2> QED
    BY <1>1, <2>1, <2>2, <2>3 DEF RunGood
<1> QED
  BY <1>9, <1>10, <1>11, <1>12, <1>13, <1>14 DEF WorkspaceInv

\* The runs stay as they are.
LEMMA RunsUntouched ==
    ASSUME WorkspaceInv,
           UNCHANGED <<stage, result, claims, pc, queue, slots, messages, up, faults>>,
           Types', SwitchedAlone'
    PROVE  WorkspaceInv'
<1>1. SlotsBalanced' /\ RunsKnown'
  BY DEF WorkspaceInv, SlotsBalanced, Holders, RunsKnown, Known, W
<1>2. QueueWaits'
  BY DEF WorkspaceInv, QueueWaits, W
<1>3. ASSUME NEW q \in Run PROVE RunGood(q)'
  <2>1. SameRun(q)
    BY DEF SameRun, W, A
  <2>2. faults \in Nat /\ faults' \in Nat /\ faults' >= faults
    BY DEF WorkspaceInv, Types
  <2> QED
    BY <2>1, <2>2, SameRunGood DEF WorkspaceInv
<1> QED
  BY <1>1, <1>2, <1>3 DEF WorkspaceInv

\* The model is exchanged, a session expires, a draft expires.
LEMMA RunsUntouchedKeeps ==
    ASSUME WorkspaceInv, ConfigureModel \/ ModelApplied \/ SessionExpires \/ DraftExpires
    PROVE  WorkspaceInv'
<1>1. UNCHANGED <<stage, result, claims, pc, queue, slots, messages, up, faults>>
  BY DEF ConfigureModel, ModelApplied, SessionExpires, DraftExpires, stored, pool, work
<1>2. Types'
  BY DEF WorkspaceInv, Types, ConfigureModel, ModelApplied, SessionExpires, DraftExpires, stored,
         pool, work
<1>3. SwitchedAlone'
  <2>1. CASE ConfigureModel
    BY <1>1, <2>1 DEF ConfigureModel, Running, SwitchedAlone, Ended
  <2>2. CASE ModelApplied
    BY <2>2 DEF ModelApplied, SwitchedAlone
  <2>3. CASE SessionExpires \/ DraftExpires
    BY <1>1, <2>3 DEF SessionExpires, DraftExpires, WorkspaceInv, SwitchedAlone, Ended
  <2> QED
    BY <2>1, <2>2, <2>3
<1> QED
  BY <1>1, <1>2, <1>3, RunsUntouched

\* The daemon dies with its threads.
LEMMA CrashKeeps ==
    ASSUME WorkspaceInv, Crash
    PROVE  WorkspaceInv'
<1>1. Types /\ up'= FALSE /\ up
  BY DEF Crash, WorkspaceInv
<1>2. /\ pc' = [t \in Thread |-> IF pc[t] \in {"idle", "done"} THEN pc[t] ELSE "gone"]
      /\ queue' = <<>> /\ slots' = MaxPending /\ switching' = FALSE
      /\ UNCHANGED <<stage, messages, result, claims, faults>>
  BY DEF Crash, stored
<1>3. ASSUME NEW q \in Run
      PROVE  /\ W(q)' = IF W(q) \in {"idle", "done"} THEN W(q) ELSE "gone"
             /\ A(q)' = IF A(q) \in {"idle", "done"} THEN A(q) ELSE "gone"
  BY <1>2 DEF W, A, worker, Thread
<1>4. pc' \in [Thread -> PC]
  BY <1>1, <1>2 DEF Types, PC
<1>5. queue' \in Seq(Run) /\ Len(queue') = 0
  BY <1>2
<1>6. Types'
  BY <1>1, <1>4, <1>5 DEF Crash, Types, stored, NoPlan
<1>7. SlotsBalanced'
  <2>1. Holders' = {}
    BY <1>3 DEF Holders, W
  <2> QED
    BY <1>2, <2>1, FS_EmptySet, PoolAssumption DEF SlotsBalanced
<1>8. QueueWaits'
  BY <1>5 DEF QueueWaits
<1>9. RunsKnown'
  BY <1>2, <1>3 DEF WorkspaceInv, RunsKnown, Known
<1>10. SwitchedAlone'
  BY <1>2 DEF SwitchedAlone
<1>11. ASSUME NEW q \in Run PROVE RunGood(q)'
  <2>1. RunGood(q)
    BY DEF WorkspaceInv
  <2>2. WorkerPlace(q)'
    BY <1>2, <1>3, <2>1 DEF RunGood, WorkerPlace, Sole, Early
  <2>3. AnswerPlace(q)'
    BY <1>2, <1>3, <2>1 DEF RunGood, AnswerPlace, Sole, Early
  <2>4. AnswerShown(q)'
    BY <1>2, <1>3, <2>1 DEF RunGood, AnswerShown
  <2> QED
    BY <1>1, <1>3, <2>2, <2>3, <2>4 DEF RunGood
<1> QED
  BY <1>6, <1>7, <1>8, <1>9, <1>10, <1>11 DEF WorkspaceInv

\* The next one fails the runs that were running.
LEMMA RecoverKeeps ==
    ASSUME WorkspaceInv, Recover
    PROVE  WorkspaceInv'
<1>1. Types /\ up' = TRUE /\ ~up
  BY DEF Recover, WorkspaceInv
<1>2. /\ stage' = [r \in Run |-> IF r \in Running THEN "FAILED" ELSE stage[r]]
      /\ UNCHANGED <<messages, pc, queue, slots, switching, result, claims, faults>>
  BY DEF Recover, pool, work
<1>3. ASSUME NEW q \in Run PROVE stage'[q] = IF Ended(q) THEN stage[q] ELSE "FAILED"
  BY <1>2 DEF Running, Ended
<1>4. stage' \in [Run -> {"NONE"} \cup DOMAIN _TRANSITIONS \cup Terminal]
  BY <1>1, <1>2 DEF Types, Terminal
<1>5. Types'
  BY <1>1, <1>4 DEF Recover, Types, pool, work
<1>6. SlotsBalanced' /\ QueueWaits'
  BY <1>2 DEF WorkspaceInv, SlotsBalanced, Holders, QueueWaits, W
<1>7. RunsKnown'
  BY <1>2, <1>3 DEF WorkspaceInv, RunsKnown, Known, W, Ended
<1>8. SwitchedAlone'
  BY <1>1, <1>2 DEF WorkspaceInv, SwitchedAlone
<1>9. ASSUME NEW q \in Run PROVE RunGood(q)'
  <2>1. RunGood(q) /\ W(q)' = W(q) /\ A(q)' = A(q)
        /\ {W(q), A(q)} \subseteq {"idle", "done", "gone"}
    BY <1>1, <1>2 DEF WorkspaceInv, RunGood, W, A
  <2>2. WorkerPlace(q)'
    BY <1>2, <1>3, <2>1 DEF RunGood, WorkerPlace, Sole, Early, Ended, Terminal
  <2>3. AnswerPlace(q)'
    BY <1>2, <1>3, <2>1 DEF RunGood, AnswerPlace, Ended, Terminal
  <2>4. AnswerShown(q)'
    BY <1>2, <1>3, <2>1 DEF RunGood, AnswerShown, Ended, Terminal
  <2> QED
    BY <1>1, <2>2, <2>3, <2>4 DEF RunGood
<1> QED
  BY <1>5, <1>6, <1>7, <1>8, <1>9 DEF WorkspaceInv

-----------------------------------------------------------------------------
(* The theorems. *)

\* A thread is a worker or answers.
LEMMA EveryThread ==
    ASSUME NEW t \in Thread
    PROVE  \E r \in Run : t = worker(r) \/ t = <<r, "answer">>
BY DEF Thread, worker

\* The state the daemon starts in is good.
LEMMA InitGood == Init => WorkspaceInv
<1> SUFFICES ASSUME Init PROVE WorkspaceInv
  OBVIOUS
<1>1. Types
  <2>1. pc \in [Thread -> PC] /\ stage \in [Run -> {"NONE"} \cup DOMAIN _TRANSITIONS \cup Terminal]
    BY DEF Init, PC
  <2>2. plan \in [Run -> [steps : {"none", "search", "copy", "search_copy"},
                         collection : Run \cup {None}]]
    BY DEF Init, NoPlan
  <2>3. messages \in Seq(Run) /\ queue \in Seq(Run)
    BY DEF Init
  <2>4. faults \in 0 .. MaxFaults
    BY FaultsAssumption DEF Init
  <2>5. /\ draft \in Draft \cup {None} /\ selection \in Run \cup {None} /\ up \in BOOLEAN
        /\ switching \in BOOLEAN /\ session \subseteq Run
    BY DEF Init
  <2>6. /\ resumed \in [Run -> Draft \cup {None}] /\ claims \in [Run -> Nat]
        /\ result \in [Run -> {"none", "awaiting", "completed", "cancelled", "failed"}]
    BY DEF Init
  <2> QED
    BY <2>1, <2>2, <2>3, <2>4, <2>5, <2>6 DEF Types
<1>2. \A q \in Run : W(q) = "idle" /\ A(q) = "idle" /\ stage[q] = "NONE" /\ result[q] = "none"
      /\ claims[q] = 0
  BY DEF Init, W, A, worker, Thread
<1>3. SlotsBalanced
  <2>1. Holders = {}
    BY <1>2 DEF Holders, W
  <2> QED
    BY <2>1, FS_EmptySet, PoolAssumption DEF Init, SlotsBalanced
<1>4. QueueWaits /\ RunsKnown /\ SwitchedAlone
  BY <1>2 DEF Init, QueueWaits, RunsKnown, SwitchedAlone
<1>5. ASSUME NEW q \in Run PROVE RunGood(q)
  <2>1. WorkerPlace(q) /\ AnswerPlace(q)
    BY <1>2 DEF WorkerPlace, AnswerPlace, Sole, Early
  <2>2. AnswerShown(q)
    BY <1>2 DEF AnswerShown
  <2> QED
    BY <2>1, <2>2 DEF RunGood, Init
<1> QED
  BY <1>1, <1>3, <1>4, <1>5 DEF WorkspaceInv

\* Every step of a thread keeps the invariant.
LEMMA ThreadStepKeeps ==
    ASSUME WorkspaceInv, NEW t \in Thread, ThreadStep(t) \/ Raises(t)
    PROVE  WorkspaceInv'
<1>1. PICK r \in Run : t = worker(r) \/ t = <<r, "answer">>
  BY EveryThread
<1>2. CASE t = worker(r)
  <2>1. t[1] = r /\ t[2] = "worker"
    BY <1>2 DEF worker
  <2>2. CASE Raises(t)
    BY <1>2, <2>2, WorkerRaises
  <2>3. CASE Reply(t) \/ Finish(t) \/ FinishResult(t) \/ FinishFailure(t) \/ End(t)
    BY <1>2, <2>3, ReplyKeeps, FinishKeeps, FinishResultKeeps, WorkerFails, WorkerEnds
  <2>4. CASE \/ TakeClarification(r) \/ Route(r) \/ Compile(r) \/ Execute(r)
             \/ Search(r) \/ PrepareCopy(r) \/ Park(r) \/ Notice(r)
    BY <2>4, TakeClarificationKeeps, RouteKeeps, CompileKeeps, ExecuteKeeps, SearchKeeps,
       PrepareCopyKeeps, ParkKeeps, NoticeKeeps
  <2> QED
    BY <2>1, <2>2, <2>3, <2>4 DEF ThreadStep
<1>3. CASE t = <<r, "answer">>
  <2>1. t[1] = r /\ t[2] = "answer"
    BY <1>3
  <2>2. CASE Raises(t)
    BY <1>3, <2>2, AnswerRaises
  <2>3. CASE Reply(t) \/ Finish(t) \/ FinishResult(t) \/ FinishFailure(t) \/ End(t)
    BY <1>3, <2>3, NoReplyOfAnswer, AnswerFinishes, AnswerResultKeeps, AnswerFails, AnswerEnds
  <2>4. CASE Answer(r)
    BY <2>4, AnswerKeeps
  <2> QED
    BY <2>1, <2>2, <2>3, <2>4 DEF ThreadStep
<1> QED
  BY <1>1, <1>2, <1>3

\* Every step keeps it.
LEMMA NextGood == WorkspaceInv /\ [Next]_vars => WorkspaceInv'
<1> SUFFICES ASSUME WorkspaceInv, [Next]_vars PROVE WorkspaceInv'
  OBVIOUS
<1>1. ASSUME NEW t \in Thread, ThreadStep(t) \/ Raises(t) PROVE WorkspaceInv'
  BY <1>1, ThreadStepKeeps
<1>2. ASSUME NEW r \in Run, Submit(r) \/ SubmitRaises(r) \/ Respond(r) PROVE WorkspaceInv'
  BY <1>2, SubmitKeeps, SubmitRaisesKeeps, RespondKeeps
<1>3. CASE StartJob
  BY <1>3, StartJobKeeps
<1>4. CASE ConfigureModel \/ ModelApplied \/ SessionExpires \/ DraftExpires
  BY <1>4, RunsUntouchedKeeps
<1>5. CASE Crash \/ Recover
  BY <1>5, CrashKeeps, RecoverKeeps
<1>6. CASE UNCHANGED vars
  <2>1. UNCHANGED <<stage, result, claims, pc, queue, slots, messages, up, faults>> /\ Types'
        /\ SwitchedAlone'
    BY <1>6 DEF WorkspaceInv, Types, SwitchedAlone, Ended, vars, stored, pool, work
  <2> QED
    BY <2>1, RunsUntouched
<1> QED
  BY <1>1, <1>2, <1>3, <1>4, <1>5, <1>6 DEF Next

\* The inductive invariant holds always.
THEOREM WorkspaceInvariant == Spec => []WorkspaceInv
BY InitGood, NextGood, PTL DEF Spec

\* The service stays within its types, and a slot is free or belongs to a run that
\* is queued or held by a worker.
THEOREM WorkspaceTypeCorrect == Spec => []TypeOK
<1>1. WorkspaceInv => TypeOK
  BY DEF WorkspaceInv, Types, SlotsBalanced, Holders, TypeOK
<1> QED
  BY <1>1, WorkspaceInvariant, PTL

\* The orchestrator sees one answer, and the workspace shows what it returned.
THEOREM OutcomesAreReported == Spec => []OutcomeReported
<1>1. WorkspaceInv => OutcomeReported
  <2> SUFFICES ASSUME WorkspaceInv, NEW r \in Run
               PROVE  /\ claims[r] <= 1
                      /\ stage[r] = "COMPLETED" => result[r] \in {"none", "completed"}
                      /\ stage[r] = "CANCELLED" => result[r] = "cancelled"
                      /\ stage[r] = "FAILED" /\ result[r] = "completed" =>
                             faults > 0 \/ \E w \in {"worker", "answer"} : pc[<<r, w>>] = "gone"
    BY DEF OutcomeReported
  <2>1. RunGood(r) /\ faults \in Nat
    BY DEF WorkspaceInv, Types
  <2>2. claims[r] <= 1 /\ AnswerShown(r)
    BY <2>1 DEF RunGood, AnswerPlace
  <2>3. ASSUME stage[r] = "FAILED", result[r] = "completed", faults = 0
        PROVE  W(r) = "gone" \/ A(r) = "gone"
    BY <2>1, <2>3 DEF RunGood, WorkerPlace, AnswerPlace, AnswerShown
  <2> QED
    BY <2>1, <2>2, <2>3 DEF AnswerShown, W, A, worker
<1> QED
  BY <1>1, WorkspaceInvariant, PTL

\* The model is not exchanged under who uses it.
THEOREM ModelIsNotSwitchedInUse == Spec => []ModelNotSwitchedInUse
<1>1. WorkspaceInv => ModelNotSwitchedInUse
  <2> SUFFICES ASSUME WorkspaceInv, switching PROVE ModelNotSwitchedInUse
    BY DEF ModelNotSwitchedInUse
  <2>1. ASSUME NEW r \in Run PROVE Ended(r) /\ RunGood(r)
    BY DEF WorkspaceInv, SwitchedAlone
  <2>2. ASSUME NEW r \in Run PROVE W(r) # "model"
    BY <2>1 DEF RunGood, WorkerPlace, Ended, Terminal
  <2>3. ASSUME NEW r \in Run, faults = 0 PROVE W(r) # "finish" /\ A(r) # "finish"
    BY <2>1, <2>3 DEF RunGood, WorkerPlace, AnswerPlace, Ended, Terminal
  <2> QED
    BY <2>2, <2>3, EveryThread DEF ModelNotSwitchedInUse, W, A, worker
<1> QED
  BY <1>1, WorkspaceInvariant, PTL

\* A step that keeps the messages and resumes nothing keeps what was resumed
\* behind its question.
LEMMA ResumedKept ==
    ASSUME Types, ResumeFollowsQuestion,
           messages' = messages \/ \E r \in Run : messages' = Append(messages, r),
           \A q \in Run : resumed'[q] \in {resumed[q], None}
    PROVE  ResumeFollowsQuestion'
<1> SUFFICES ASSUME NEW q \in Run, resumed'[q] # None
             PROVE  \E n \in 1 .. Len(messages') - 1 :
                        messages'[n] = resumed'[q].of /\ messages'[n + 1] = q
  BY DEF ResumeFollowsQuestion
<1>1. messages \in Seq(Run) /\ Len(messages) \in Nat
  BY LenProperties DEF Types
<1>2. PICK n \in 1 .. Len(messages) - 1 : messages[n] = resumed[q].of /\ messages[n + 1] = q
  BY DEF ResumeFollowsQuestion
<1>3. n \in 1 .. Len(messages) /\ n + 1 \in 1 .. Len(messages)
  BY <1>1, <1>2
<1>4. n \in 1 .. Len(messages') - 1 /\ messages'[n] = messages[n]
      /\ messages'[n + 1] = messages[n + 1]
  <2>1. CASE messages' = messages
    BY <2>1
  <2>2. ASSUME NEW r \in Run, messages' = Append(messages, r)
        PROVE  n \in 1 .. Len(messages') - 1 /\ messages'[n] = messages[n]
               /\ messages'[n + 1] = messages[n + 1]
    <3>1. /\ Len(messages') = Len(messages) + 1
          /\ \A i \in 1 .. Len(messages) : messages'[i] = messages[i]
      BY <1>1, <2>2, AppendProperties
    <3> QED
      BY <1>1, <1>3, <3>1
  <2> QED
    BY <2>1, <2>2
<1> QED
  BY <1>2, <1>4

\* A saved request is resumed only by the message that follows its own.
THEOREM ResumeFollows == Spec => []ResumeFollowsQuestion
<1>1. Init => ResumeFollowsQuestion
  BY DEF Init, ResumeFollowsQuestion
<1>2. WorkspaceInv /\ ResumeFollowsQuestion /\ [Next]_vars => ResumeFollowsQuestion'
  <2> SUFFICES ASSUME WorkspaceInv, ResumeFollowsQuestion, [Next]_vars PROVE ResumeFollowsQuestion'
    OBVIOUS
  <2>1. Types
    BY DEF WorkspaceInv
  <2>2. ASSUME NEW r \in Run, TakeClarification(r) PROVE ResumeFollowsQuestion'
    <3>1. messages' = messages /\ messages \in Seq(Run) /\ Len(messages) \in Nat
      BY <2>1, <2>2, LenProperties DEF TakeClarification, Types
    <3>2. CASE resumed' = resumed
      BY <2>1, <3>1, <3>2, ResumedKept
    <3>3. CASE Answered(r) /\ resumed' = [resumed EXCEPT ![r] = draft]
      <4>1. /\ Len(messages) >= 2 /\ messages[Len(messages)] = r
            /\ messages[Len(messages) - 1] = draft.of
        BY <3>3 DEF Answered
      <4>2. /\ Len(messages) - 1 \in 1 .. Len(messages) - 1
            /\ (Len(messages) - 1) + 1 = Len(messages)
        BY <3>1, <4>1
      <4>3. resumed'[r] = draft /\ \A q \in Run \ {r} : resumed'[q] = resumed[q]
        BY <2>1, <3>3 DEF Types
      <4>4. \E n \in 1 .. Len(messages) - 1 : messages[n] = resumed'[r].of /\ messages[n + 1] = r
        BY <4>1, <4>2, <4>3
      <4> QED
        BY <3>1, <4>3, <4>4 DEF ResumeFollowsQuestion
    <3> QED
      BY <2>2, <3>2, <3>3 DEF TakeClarification
  <2>3. ASSUME ~\E r \in Run : TakeClarification(r) PROVE ResumeFollowsQuestion'
    <3>1. /\ messages' = messages \/ \E r \in Run : messages' = Append(messages, r)
          /\ \A q \in Run : resumed'[q] \in {resumed[q], None}
      <4>1. CASE UNCHANGED vars
        BY <4>1 DEF vars, stored, work
      <4>2. ASSUME NEW t \in Thread, ThreadStep(t) \/ Raises(t)
            PROVE  messages' = messages /\ \A q \in Run : resumed'[q] \in {resumed[q], None}
        <5>1. t[1] \in Run
          BY DEF Thread
        <5>2. CASE End(t)
          BY <2>1, <5>1, <5>2 DEF End, Forget, stored, Types
        <5>3. CASE Reply(t) \/ Finish(t) \/ FinishResult(t) \/ FinishFailure(t) \/ Raises(t)
          BY <5>3 DEF Reply, Finish, FinishResult, FinishFailure, OnlyStage, Raises, stored, work
        <5>4. CASE Route(t[1]) \/ Compile(t[1]) \/ Execute(t[1]) \/ Search(t[1])
          BY <5>4 DEF Route, Compile, Execute, Search, work
        <5>5. CASE PrepareCopy(t[1]) \/ Park(t[1]) \/ Notice(t[1]) \/ Answer(t[1])
          BY <5>5 DEF PrepareCopy, Park, OnlyStage, Notice, Answer, stored, work
        <5> QED
          BY <2>3, <4>2, <5>1, <5>2, <5>3, <5>4, <5>5 DEF ThreadStep
      <4>3. ASSUME NEW r \in Run, Submit(r) \/ SubmitRaises(r) \/ Respond(r)
            PROVE  /\ messages' = messages \/ messages' = Append(messages, r)
                   /\ resumed' = resumed
        BY <4>3 DEF Submit, SubmitRaises, Respond, OnlyStage, work
      <4>4. CASE StartJob \/ ConfigureModel \/ ModelApplied \/ SessionExpires \/ DraftExpires
        BY <4>4 DEF StartJob, ConfigureModel, ModelApplied, SessionExpires, DraftExpires, stored,
           work
      <4>5. CASE Crash \/ Recover
        BY <4>5 DEF Crash, Recover, stored, work
      <4> QED
        BY <4>1, <4>2, <4>3, <4>4, <4>5 DEF Next
    <3> QED
      BY <2>1, <3>1, ResumedKept
  <2> QED
    BY <2>2, <2>3
<1> QED
  BY <1>1, <1>2, WorkspaceInvariant, PTL DEF Spec

-----------------------------------------------------------------------------
(* The routing of a message.                                                 *)

\* What is required is in the words of the message, and no negation is found
\* for it there.
RequiredAsked == routed # "received" => required \subseteq AskedIn(Whole)

\* Nothing has been cut out, or proposed, before the message was taken apart.
NothingYet ==
    /\ routed \in {"received", "split"} => talk = NoText /\ ~saved
    /\ routed = "split" => ~answering

\* Behind the taking apart a message that begins with a negation has something
\* grounded in it, and the model is offered what is grounded only.
OfferGrounded ==
    routed \in {"route", "repair", "settle"} =>
        /\ ~answering /\ ~saved
        /\ guarded => required # {}
        /\ required # {} => offered = required

\* What was proposed was offered.
ProposedGrounded ==
    /\ routed \in {"repair", "settle"} /\ required # {} => turn.kinds \subseteq required
    /\ routed = "check" => ~saved
    /\ routed \in {"check", "compiled"} /\ ~answering =>
          /\ guarded => required # {}
          /\ required # {} => turn.kinds \subseteq required

RouteInv ==
    /\ RouteTypeOK /\ RequiredAsked /\ NothingYet /\ OfferGrounded /\ ProposedGrounded
    /\ OnlyWhatWasAsked

\* The words of a text name operations.
LEMMA AskedKinds ==
    ASSUME RouteTypeOK, NEW text \in Text
    PROVE  AskedIn(text) \subseteq Kind
<1>. SUFFICES ASSUME NEW i \in text.from .. text.to, phrases[i].op # "none"
              PROVE  phrases[i].op \in Kind
  BY DEF AskedIn
<1>1. i \in 1 .. Phrases
  BY PhrasesAssumption DEF Text
<1>. QED BY <1>1 DEF RouteTypeOK, Phrase

LEMMA WholeTyped == Whole \in Text /\ NoText \notin Text /\ Text \subseteq [from : Nat, to : Nat, cut : BOOLEAN]
<1>1. 1 \in 1 .. Phrases /\ Phrases \in 1 .. Phrases
  BY PhrasesAssumption
<1>. QED BY <1>1, PhrasesAssumption DEF Whole, Text, NoText

\* What a message is taken apart into.
LEMMA SettledFacts ==
    ASSUME RouteTypeOK, NEW c \in Settled
    PROVE  /\ c.kind \in {"none", "conversation", "unclear", "action", "mixed"}
           /\ c.kind \in {"none", "action"} => c.action \in Text
           /\ c.kind = "mixed" => c.talk \in Text /\ c.action \in Text /\ Disjoint(c.talk, c.action)
           /\ guarded /\ required = {} => c.kind = "conversation"
<1>. DEFINE answers == Classified \cup (IF required # {} THEN Recovered ELSE {})
<1>1. PICK d \in answers : c = IF SelectionFollowup /\ d.kind \in {"unclear", "conversation"}
                               THEN Class("none", NoText, Whole) ELSE d
  BY DEF Settled
<1>2. CASE SelectionFollowup /\ d.kind \in {"unclear", "conversation"}
  <2>1. required # {}
    BY <1>2 DEF SelectionFollowup, SelectionRequest
  <2>2. c = [kind |-> "none", talk |-> NoText, action |-> Whole]
    BY <1>1, <1>2 DEF Class
  <2>. QED BY <2>1, <2>2, WholeTyped
<1>3. CASE c = d
  <2>1. CASE d \in Recovered /\ required # {}
    <3>1. PICK i \in 1 .. Phrases - 1 :
             d = Class("action", NoText, [from |-> i + 1, to |-> Phrases, cut |-> FALSE])
      BY <2>1 DEF Recovered
    <3>2. i + 1 \in 1 .. Phrases /\ Phrases \in 1 .. Phrases
      BY PhrasesAssumption
    <3>3. [from |-> i + 1, to |-> Phrases, cut |-> FALSE] \in Text
      BY <3>2 DEF Text
    <3>. QED BY <1>3, <2>1, <3>1, <3>3 DEF Class
  <2>2. CASE d \in Classified
    <3>1. CASE d = Class("conversation", Whole, NoText)
      BY <1>3, <3>1 DEF Class
    <3>2. CASE ~(guarded /\ required = {}) /\ d = Class("unclear", NoText, NoText)
      BY <1>3, <3>2 DEF Class
    <3>3. CASE ~(guarded /\ required = {}) /\ d = Class("action", NoText, Whole)
      BY <1>3, <3>3, WholeTyped DEF Class
    <3>4. ASSUME NEW pair \in Text \X Text, Disjoint(pair[1], pair[2]),
                 ~(guarded /\ required = {}), d = Class("mixed", pair[1], pair[2])
          PROVE  /\ c.kind = "mixed" /\ ~(guarded /\ required = {})
                 /\ c.talk \in Text /\ c.action \in Text /\ Disjoint(c.talk, c.action)
      BY <1>3, <3>4 DEF Class
    <3>. QED BY <2>2, <3>1, <3>2, <3>3, <3>4 DEF Classified
  <2>. QED BY <2>1, <2>2
<1>. QED BY <1>1, <1>2, <1>3

\* The evidence is that of the whole message.
LEMMA EvidenceKeeps == RouteInv /\ Evidence => RouteInv'
<1>. SUFFICES ASSUME RouteInv, Evidence PROVE RouteInv'
  OBVIOUS
<1>0. /\ RouteTypeOK /\ routed = "received" /\ talk = NoText /\ ~saved
      /\ UNCHANGED <<phrases, guarded, parted, collection, answering, talk, fragment, offered, saved>>
  BY DEF RouteInv, Evidence, NothingYet
<1>1. /\ required' \subseteq AskedIn(Whole) /\ AskedIn(Whole)' = AskedIn(Whole)
      /\ requested' \subseteq Kind /\ required' \subseteq Kind
  <2>1. AskedIn(Whole) \subseteq Kind
    BY <1>0, WholeTyped, AskedKinds
  <2>. QED BY <1>0, <2>1 DEF Evidence, RequiredIn, RequestedIn, AskedIn, LocallyNegated
<1>2. turn' \in [kind : {"none", "conversation", "clarification", "action"}, kinds : SUBSET Kind]
  <2>1. CASE turn' = turn
    BY <1>0, <2>1 DEF RouteTypeOK
  <2>2. ASSUME NEW kinds \in SUBSET Kind, turn' = [kind |-> "action", kinds |-> kinds \cup {"copy"}]
        PROVE  turn' \in [kind : {"none", "conversation", "clarification", "action"}, kinds : SUBSET Kind]
    BY <2>2 DEF Kind
  <2>. QED BY <2>1, <2>2 DEF Evidence
<1>3. /\ routed' \in {"missing", "question", "check", "talked", "split"}
      /\ routed' \in {"check"} => answering
      /\ routed' = "split" => ~answering
  BY DEF Evidence
<1>4. RouteTypeOK'
  BY <1>0, <1>1, <1>2, <1>3 DEF RouteTypeOK, RouteEnds
<1>5. RequiredAsked' /\ NothingYet' /\ OfferGrounded' /\ ProposedGrounded'
  BY <1>0, <1>1, <1>3 DEF RequiredAsked, NothingYet, OfferGrounded, ProposedGrounded
<1>6. OnlyWhatWasAsked'
  BY <1>0, <1>3 DEF OnlyWhatWasAsked
<1>. QED BY <1>4, <1>5, <1>6 DEF RouteInv

\* Talk and action are apart, whichever way round.
LEMMA SplitKeeps == RouteInv /\ Split => RouteInv'
<1>. SUFFICES ASSUME RouteInv, Split PROVE RouteInv'
  OBVIOUS
<1>0. /\ RouteTypeOK /\ routed = "split" /\ talk = NoText /\ ~saved /\ ~answering
      /\ UNCHANGED <<phrases, guarded, parted, collection, answering, requested, required, turn, saved>>
  BY DEF RouteInv, Split, NothingYet, evidenceVars
<1>1. AskedIn(Whole)' = AskedIn(Whole)
  BY <1>0 DEF AskedIn, LocallyNegated
<1>2. PICK c \in Settled :
         \/ c.kind \in {"unclear", "conversation"} /\ routed' \in {"talked", "broken"}
            /\ UNCHANGED <<talk, fragment, offered>>
         \/ /\ c.kind = "mixed" /\ \E some \in RequiredIn(c.action) : ~(some \subseteq required)
            /\ routed' = "question"
            /\ UNCHANGED <<talk, fragment, offered>>
         \/ /\ c.kind \in {"none", "action", "mixed"}
            /\ \E d \in {c, Class("none", NoText, Whole)}
                     \cup (IF c.kind = "mixed" /\ \E some \in RequestedIn(c.talk) : some # {}
                           THEN {Swapped(c)} ELSE {}) :
                 /\ fragment' = d.action
                 /\ talk' \in (IF d.kind = "mixed" THEN {d.talk, NoText} ELSE {NoText})
            /\ \E candidates \in SUBSET Kind : offered' = Offer(candidates)
            /\ routed' = "route"
  BY DEF Split
<1>3. CASE routed' \in {"talked", "broken", "question"} /\ UNCHANGED <<talk, fragment, offered>>
  <2>1. RouteTypeOK'
    BY <1>0, <1>3 DEF RouteTypeOK, RouteEnds
  <2>2. RequiredAsked' /\ NothingYet' /\ OfferGrounded' /\ ProposedGrounded'
    BY <1>0, <1>1, <1>3 DEF RouteInv, RequiredAsked, NothingYet, OfferGrounded, ProposedGrounded
  <2>3. OnlyWhatWasAsked'
    BY <1>0, <1>3 DEF OnlyWhatWasAsked
  <2>. QED BY <2>1, <2>2, <2>3 DEF RouteInv
<1>4. CASE /\ c.kind \in {"none", "action", "mixed"}
           /\ \E d \in {c, Class("none", NoText, Whole)}
                    \cup (IF c.kind = "mixed" /\ \E some \in RequestedIn(c.talk) : some # {}
                          THEN {Swapped(c)} ELSE {}) :
                /\ fragment' = d.action
                /\ talk' \in (IF d.kind = "mixed" THEN {d.talk, NoText} ELSE {NoText})
           /\ \E candidates \in SUBSET Kind : offered' = Offer(candidates)
           /\ routed' = "route"
  <2>1. PICK d \in {c, Class("none", NoText, Whole)} \cup (IF c.kind = "mixed" THEN {Swapped(c)} ELSE {}) :
           /\ fragment' = d.action
           /\ talk' \in (IF d.kind = "mixed" THEN {d.talk, NoText} ELSE {NoText})
    BY <1>4
  <2>2. /\ d.action \in Text
        /\ d.kind = "mixed" => d.talk \in Text /\ Disjoint(d.talk, d.action)
    <3>1. CASE d = c
      BY <1>0, <1>4, <3>1, SettledFacts
    <3>2. CASE d = Class("none", NoText, Whole)
      BY <3>2, WholeTyped DEF Class
    <3>3. CASE c.kind = "mixed" /\ d = Swapped(c)
      <4>1. c.talk \in Text /\ c.action \in Text /\ Disjoint(c.talk, c.action)
        BY <1>0, <3>3, SettledFacts
      <4>2. c \in [kind : {c.kind}, talk : {c.talk}, action : {c.action}]
        <5>1. \E kind, said, asked : c = Class(kind, said, asked)
          BY <1>0 DEF Settled, Classified, Recovered
        <5>. QED BY <5>1 DEF Class
      <4>3. d.talk = c.action /\ d.action = c.talk
        BY <3>3, <4>2 DEF Swapped
      <4>. QED BY <4>1, <4>3 DEF Disjoint
    <3>. QED BY <3>1, <3>2, <3>3
  <2>3. /\ fragment' \in Text /\ talk' \in Text \cup {NoText}
        /\ talk' # NoText => Disjoint(talk', fragment')
    BY <2>1, <2>2
  <2>4. offered' \subseteq Kind /\ (required # {} => offered' = required)
    BY <1>0, <1>4 DEF Offer, RouteTypeOK
  <2>5. guarded => required # {}
    BY <1>0, <1>4, SettledFacts
  <2>6. RouteTypeOK'
    BY <1>0, <1>4, <2>3, <2>4 DEF RouteTypeOK
  <2>7. RequiredAsked' /\ NothingYet' /\ OfferGrounded' /\ ProposedGrounded'
    BY <1>0, <1>1, <1>4, <2>4, <2>5 DEF RouteInv, RequiredAsked, NothingYet, OfferGrounded,
       ProposedGrounded
  <2>8. OnlyWhatWasAsked'
    BY <1>0, <1>4, <2>3 DEF OnlyWhatWasAsked
  <2>. QED BY <2>6, <2>7, <2>8 DEF RouteInv
<1>. QED BY <1>2, <1>3, <1>4

\* The model proposes what it was offered.
LEMMA AskModelKeeps == RouteInv /\ AskModel => RouteInv'
<1>. SUFFICES ASSUME RouteInv, AskModel PROVE RouteInv'
  OBVIOUS
<1>0. /\ RouteTypeOK /\ routed = "route" /\ ~saved /\ ~answering
      /\ UNCHANGED <<phrases, guarded, parted, collection, answering, requested, required, talk, fragment,
                     offered, saved>>
      /\ guarded => required # {}
      /\ required # {} => offered = required
  BY DEF RouteInv, AskModel, OfferGrounded, evidenceVars
<1>1. AskedIn(Whole)' = AskedIn(Whole)
  BY <1>0 DEF AskedIn, LocallyNegated
<1>2. /\ routed' \in {"broken", "question", "settle", "repair"}
      /\ turn' \in [kind : {"none", "conversation", "clarification", "action"}, kinds : SUBSET Kind]
      /\ routed' \in {"settle", "repair"} => turn'.kinds \subseteq offered
  BY <1>0 DEF AskModel, RouteTypeOK
<1>3. RouteTypeOK'
  BY <1>0, <1>2 DEF RouteTypeOK, RouteEnds
<1>4. RequiredAsked' /\ NothingYet' /\ OfferGrounded' /\ ProposedGrounded'
  BY <1>0, <1>1, <1>2 DEF RouteInv, RequiredAsked, NothingYet, OfferGrounded, ProposedGrounded
<1>5. OnlyWhatWasAsked'
  BY <1>0, <1>2 DEF RouteInv, OnlyWhatWasAsked
<1>. QED BY <1>3, <1>4, <1>5 DEF RouteInv

\* What is added is grounded.
LEMMA RepairKeeps == RouteInv /\ Repair => RouteInv'
<1>. SUFFICES ASSUME RouteInv, Repair PROVE RouteInv'
  OBVIOUS
<1>0. /\ RouteTypeOK /\ routed = "repair" /\ ~saved /\ ~answering
      /\ UNCHANGED <<phrases, guarded, parted, collection, answering, requested, required, talk, fragment,
                     offered, saved>>
  BY DEF RouteInv, Repair, OfferGrounded, evidenceVars
<1>1. AskedIn(Whole)' = AskedIn(Whole)
  BY <1>0 DEF AskedIn, LocallyNegated
<1>2. /\ routed' \in {"broken", "settle"}
      /\ turn' = turn \/ turn'.kinds = required
      /\ turn' \in [kind : {"none", "conversation", "clarification", "action"}, kinds : SUBSET Kind]
  BY <1>0 DEF Repair, RouteTypeOK
<1>3. RouteTypeOK'
  BY <1>0, <1>2 DEF RouteTypeOK, RouteEnds
<1>4. RequiredAsked' /\ NothingYet' /\ OfferGrounded' /\ ProposedGrounded'
  BY <1>0, <1>1, <1>2 DEF RouteInv, RequiredAsked, NothingYet, OfferGrounded, ProposedGrounded
<1>5. OnlyWhatWasAsked'
  BY <1>0, <1>2 DEF RouteInv, OnlyWhatWasAsked
<1>. QED BY <1>3, <1>4, <1>5 DEF RouteInv

\* What is saved is what was proposed.
LEMMA SettleKeeps == RouteInv /\ Settle => RouteInv'
<1>. SUFFICES ASSUME RouteInv, Settle PROVE RouteInv'
  OBVIOUS
<1>0. /\ RouteTypeOK /\ routed = "settle" /\ ~saved /\ ~answering
      /\ UNCHANGED <<phrases, guarded, parted, collection, answering, requested, required, talk, fragment,
                     offered, turn>>
      /\ guarded => required # {}
      /\ required # {} => turn.kinds \subseteq required
  BY DEF RouteInv, Settle, OfferGrounded, ProposedGrounded, evidenceVars
<1>1. AskedIn(Whole)' = AskedIn(Whole)
  BY <1>0 DEF AskedIn, LocallyNegated
<1>2. /\ routed' \in {"check", "question"} /\ saved' \in BOOLEAN
      /\ saved' => routed' = "question"
  BY DEF Settle
<1>3. RouteTypeOK'
  BY <1>0, <1>2 DEF RouteTypeOK, RouteEnds
<1>4. RequiredAsked' /\ NothingYet' /\ OfferGrounded' /\ ProposedGrounded'
  BY <1>0, <1>1, <1>2 DEF RouteInv, RequiredAsked, NothingYet, OfferGrounded, ProposedGrounded
<1>5. OnlyWhatWasAsked'
  BY <1>0, <1>2 DEF RouteInv, OnlyWhatWasAsked
<1>. QED BY <1>3, <1>4, <1>5 DEF RouteInv

\* What is compiled is compared with the evidence.
LEMMA CheckKeeps == RouteInv /\ Check => RouteInv'
<1>. SUFFICES ASSUME RouteInv, Check PROVE RouteInv'
  OBVIOUS
<1>0. /\ RouteTypeOK /\ routed = "check" /\ ~saved
      /\ UNCHANGED <<phrases, guarded, parted, collection, answering, requested, required, talk, fragment,
                     offered, turn, saved>>
      /\ ~answering => /\ guarded => required # {}
                       /\ required # {} => turn.kinds \subseteq required
      /\ required \subseteq AskedIn(Whole)
  BY DEF RouteInv, Check, ProposedGrounded, RequiredAsked, evidenceVars
<1>1. AskedIn(Whole)' = AskedIn(Whole)
  BY <1>0 DEF AskedIn, LocallyNegated
<1>2. /\ routed' \in {"compiled", "question"}
      /\ routed' = "compiled" => turn.kinds \subseteq requested /\ required \subseteq turn.kinds
  BY DEF Check
<1>3. RouteTypeOK'
  BY <1>0, <1>2 DEF RouteTypeOK, RouteEnds
<1>4. RequiredAsked' /\ NothingYet' /\ OfferGrounded' /\ ProposedGrounded'
  BY <1>0, <1>1, <1>2 DEF RouteInv, RequiredAsked, NothingYet, OfferGrounded, ProposedGrounded
<1>5. OnlyWhatWasAsked'
  BY <1>0, <1>1, <1>2 DEF RouteInv, OnlyWhatWasAsked
<1>. QED BY <1>3, <1>4, <1>5 DEF RouteInv

LEMMA RoutingKeeps == RouteInv /\ [RouteNext]_routeVars => RouteInv'
<1>. SUFFICES ASSUME RouteInv, [RouteNext]_routeVars PROVE RouteInv'
  OBVIOUS
<1>1. CASE UNCHANGED routeVars
  BY <1>1 DEF routeVars, evidenceVars, RouteInv, RouteTypeOK, RequiredAsked, NothingYet,
     OfferGrounded, ProposedGrounded, OnlyWhatWasAsked, AskedIn, LocallyNegated
<1>. QED BY <1>1, EvidenceKeeps, SplitKeeps, AskModelKeeps, RepairKeeps, SettleKeeps, CheckKeeps
     DEF RouteNext

LEMMA RoutingStarts == RouteInit => RouteInv
<1>. SUFFICES ASSUME RouteInit PROVE RouteInv
  OBVIOUS
<1>1. RouteTypeOK
  BY WholeTyped DEF RouteInit, RouteTypeOK
<1>2. RequiredAsked /\ NothingYet /\ OfferGrounded /\ ProposedGrounded /\ OnlyWhatWasAsked
  BY DEF RouteInit, RequiredAsked, NothingYet, OfferGrounded, ProposedGrounded, OnlyWhatWasAsked
<1>. QED BY <1>1, <1>2 DEF RouteInv

-----------------------------------------------------------------------------
(* The turn of the language model.                                           *)

\* How far a turn is that may still become an action, or has become one.
Unsettled == {"relocate", "roles"}
Settling == {"modifiers", "preserved", "payload"}
Asked == {"action", "where"}

\* What was proposed, and what was true of it.
ProposalFits ==
    reviewing \in Unsettled \cup Settling \cup Asked =>
        /\ calls \in Calls /\ proposal \in Proposable(calls) /\ facts \in FactsOf(calls, proposal)

\* Nothing was said of the arguments but what moved the value of content_match:
\* the subject is still there, and was invented only if it is now.
SubjectThere ==
    /\ reviewing \in {"ask", "again", "relocate", "roles"} => word = NoWord
    /\ reviewing \in {"relocate", "roles"} =>
          unread = proposal.modifiers /\ args.modifiers = proposal.modifiers
    /\ reviewing = "relocate" => args = proposal
    /\ reviewing = "roles" =>
          /\ args.match \notin Odd
          /\ Subject(proposal) => args.text # "none"
          /\ proposal.text = "invented" => args.text = "invented"

\* The subject's role is settled.
RoleSettled ==
    reviewing \in Settling \cup Asked =>
        /\ Subject(proposal) /\ args.text = "none" =>
              proposal.text # "invented" /\ (facts.overlap \/ facts.named \/ ~facts.siblings)
        /\ args.text # "none" => args.match \in Choice

\* A modifier is shown, quoted, denied or not yet reviewed.
ModifiersSettled ==
    reviewing \in Settling \cup Asked =>
        /\ args.modifiers \subseteq unread \cup word.requested \cup {m \in Modifier : Shown(m)}
        /\ proposal.modifiers \ args.modifiers \subseteq word.refused
        /\ reviewing # "modifiers" => unread = {}

\* What is preserved was proposed, or is said to be in the message.
PreservedSettled ==
    /\ reviewing \in Unsettled \cup {"modifiers", "preserved"} => args.kept = proposal.kept
    /\ reviewing \in {"payload"} \cup Asked =>
          proposal.kept \subseteq args.kept /\ args.kept \ proposal.kept \subseteq word.present

\* The model's destination is not looked at.
DestinationSettled ==
    /\ reviewing \in Unsettled \cup Settling => args.destination = proposal.destination
    /\ reviewing \in Asked => args.destination # "model"

TurnInv ==
    /\ TurnTypeOK /\ ProposalFits /\ SubjectThere /\ RoleSettled
    /\ ModifiersSettled /\ PreservedSettled /\ DestinationSettled

\* What the model may propose.
LEMMA ProposalTyped ==
    ASSUME NEW kinds \in Calls, NEW a \in Proposable(kinds), NEW f \in FactsOf(kinds, a)
    PROVE  a \in Arguments /\ f \in Facts /\ a.modifiers \subseteq Modifier /\ a.destination # "user"
  BY DEF Proposable, FactsOf, Arguments

\* The model's answer keeps the invariant.
LEMMA ProposeKeeps == TurnInv /\ Propose => TurnInv'
<1>. SUFFICES ASSUME TurnInv, Propose PROVE TurnInv'
  OBVIOUS
<1>. USE DEF TurnInv
<1>1. CASE /\ reviewing' \in {"conversation", "unsupported", "provider_error", "again"}
           /\ UNCHANGED <<facts, calls, proposal, args, unread, word>>
  <2>1. TurnTypeOK'
    BY <1>1 DEF TurnTypeOK, TurnEnds
  <2>2. SubjectThere'
    BY <1>1 DEF SubjectThere, Propose
  <2>3. ProposalFits' /\ RoleSettled' /\ ModifiersSettled' /\ PreservedSettled' /\ DestinationSettled'
    BY <1>1 DEF ProposalFits, RoleSettled, ModifiersSettled, PreservedSettled, DestinationSettled,
       Unsettled, Settling, Asked
  <2>. QED BY <2>1, <2>2, <2>3
<1>2. CASE /\ calls' \in Calls
           /\ proposal' \in Proposable(calls')
           /\ facts' \in FactsOf(calls', proposal')
           /\ args' = proposal' /\ unread' = proposal'.modifiers
           /\ reviewing' = "relocate"
           /\ word' = word
  <2>1. TurnTypeOK'
    BY <1>2, ProposalTyped DEF TurnTypeOK
  <2>2. SubjectThere'
    BY <1>2 DEF SubjectThere, Propose
  <2>3. ProposalFits' /\ RoleSettled' /\ ModifiersSettled' /\ PreservedSettled' /\ DestinationSettled'
    BY <1>2 DEF ProposalFits, RoleSettled, ModifiersSettled, PreservedSettled, DestinationSettled,
       Unsettled, Settling, Asked
  <2>. QED BY <2>1, <2>2, <2>3
<1>. QED BY <1>1, <1>2 DEF Propose

\* A step to an end that is no action keeps the invariant.
LEMMA EndKeeps ==
    ASSUME TurnInv, reviewing' = "arguments",
           UNCHANGED <<facts, calls, proposal, args, word>>, unread' \subseteq unread
    PROVE  TurnInv'
<1>1. TurnTypeOK'
  BY DEF TurnInv, TurnTypeOK, TurnEnds
<1>2. /\ ProposalFits' /\ SubjectThere' /\ RoleSettled'
      /\ ModifiersSettled' /\ PreservedSettled' /\ DestinationSettled'
  BY DEF ProposalFits, SubjectThere, RoleSettled, ModifiersSettled, PreservedSettled,
     DestinationSettled, Unsettled, Settling, Asked
<1>. QED BY <1>1, <1>2 DEF TurnInv

LEMMA RelocateKeeps == TurnInv /\ Relocate => TurnInv'
<1>. SUFFICES ASSUME TurnInv, Relocate PROVE TurnInv'
  OBVIOUS
<1>0. /\ args \in Arguments /\ args = proposal /\ reviewing = "relocate"
      /\ UNCHANGED <<facts, calls, proposal, unread, word>>
  BY DEF TurnInv, TurnTypeOK, Relocate, SubjectThere
<1>1. CASE reviewing' = "arguments" /\ args' = args
  BY <1>0, <1>1, EndKeeps
<1>2. CASE reviewing' = "roles" /\ args' = args /\ args.match \notin Odd
  <2>1. TurnTypeOK'
    BY <1>0, <1>2 DEF TurnInv, TurnTypeOK
  <2>2. SubjectThere'
    BY <1>0, <1>2 DEF TurnInv, SubjectThere, Subject
  <2>3. ProposalFits' /\ RoleSettled' /\ ModifiersSettled' /\ PreservedSettled' /\ DestinationSettled'
    BY <1>0, <1>2 DEF TurnInv, ProposalFits, RoleSettled, ModifiersSettled, PreservedSettled,
       DestinationSettled, Unsettled, Settling, Asked
  <2>. QED BY <2>1, <2>2, <2>3 DEF TurnInv
<1>3. CASE /\ reviewing' = "roles" /\ args' = [args EXCEPT !.match = "none", !.text = "stated"]
           /\ args.text # "invented"
  <2>1. /\ args' \in Arguments /\ args'.match = "none" /\ args'.text = "stated"
        /\ args'.modifiers = args.modifiers /\ args'.kept = args.kept
        /\ args'.destination = args.destination
    BY <1>0, <1>3 DEF Arguments
  <2>2. TurnTypeOK'
    BY <1>0, <1>3, <2>1 DEF TurnInv, TurnTypeOK
  <2>3. SubjectThere'
    BY <1>0, <1>3, <2>1 DEF TurnInv, SubjectThere, Odd
  <2>4. ProposalFits' /\ RoleSettled' /\ ModifiersSettled' /\ PreservedSettled' /\ DestinationSettled'
    BY <1>0, <1>3, <2>1 DEF TurnInv, ProposalFits, RoleSettled, ModifiersSettled, PreservedSettled,
       DestinationSettled, Unsettled, Settling, Asked
  <2>. QED BY <2>2, <2>3, <2>4 DEF TurnInv
<1>. QED BY <1>1, <1>2, <1>3 DEF Relocate

LEMMA RolesKeeps == TurnInv /\ Roles => TurnInv'
<1>. SUFFICES ASSUME TurnInv, Roles PROVE TurnInv'
  OBVIOUS
<1>0. /\ args \in Arguments /\ args.match \notin Odd /\ reviewing = "roles"
      /\ UNCHANGED <<facts, calls, proposal, unread, word>>
      /\ Subject(proposal) => args.text # "none"
      /\ proposal.text = "invented" => args.text = "invented"
      /\ unread = proposal.modifiers /\ args.modifiers = proposal.modifiers /\ word = NoWord
      /\ args.kept = proposal.kept /\ args.destination = proposal.destination
  BY DEF TurnInv, TurnTypeOK, Roles, SubjectThere, PreservedSettled, DestinationSettled, Unsettled
<1>1. CASE reviewing' = "arguments" /\ args' = args
  BY <1>0, <1>1, EndKeeps
<1>2. ASSUME reviewing' = "modifiers", args' \in Arguments,
             args'.modifiers = args.modifiers, args'.kept = args.kept,
             args'.destination = args.destination,
             Subject(proposal) /\ args'.text = "none" =>
                 proposal.text # "invented" /\ (facts.overlap \/ facts.named \/ ~facts.siblings),
             args'.text # "none" => args'.match \in Choice
      PROVE  TurnInv'
  <2>1. TurnTypeOK'
    BY <1>0, <1>2 DEF TurnInv, TurnTypeOK
  <2>2. SubjectThere'
    BY <1>0, <1>2 DEF TurnInv, SubjectThere
  <2>3. RoleSettled'
    BY <1>0, <1>2 DEF RoleSettled, Subject
  <2>4. ModifiersSettled'
    BY <1>0, <1>2 DEF ModifiersSettled, NoWord
  <2>5. ProposalFits' /\ PreservedSettled' /\ DestinationSettled'
    BY <1>0, <1>2 DEF TurnInv, ProposalFits, PreservedSettled, DestinationSettled,
       Unsettled, Settling, Asked
  <2>. QED BY <2>1, <2>2, <2>3, <2>4, <2>5 DEF TurnInv
<1>3. CASE args.text = "none" /\ reviewing' = "modifiers" /\ args' = args
  BY <1>0, <1>2, <1>3
<1>4. ASSUME NEW choice \in Choice, args' = [args EXCEPT !.match = choice], reviewing' = "modifiers",
             args.text # "none"
      PROVE  TurnInv'
  <2>1. /\ args' \in Arguments /\ args'.text = args.text /\ args'.match = choice
        /\ args'.modifiers = args.modifiers /\ args'.kept = args.kept
        /\ args'.destination = args.destination
    BY <1>0, <1>4 DEF Arguments
  <2>. QED BY <1>2, <1>4, <2>1
<1>5. CASE /\ args.match # "none" /\ args.text # "none"
           /\ reviewing' = "modifiers" /\ args' = args
  <2>1. args.match \in Choice
    BY <1>0, <1>5 DEF Arguments
  <2>. QED BY <1>0, <1>2, <1>5, <2>1
<1>6. CASE Misplaced /\ (~facts.siblings \/ Corroborated)
  <2>1. CASE /\ args.text = "stated" /\ reviewing' = "modifiers"
             /\ args' = [args EXCEPT !.text = "none", !.match = "none"]
    <3>1. /\ args' \in Arguments /\ args'.text = "none"
          /\ args'.modifiers = args.modifiers /\ args'.kept = args.kept
          /\ args'.destination = args.destination
      BY <1>0, <2>1 DEF Arguments
    <3>. QED BY <1>0, <1>2, <1>6, <2>1, <3>1 DEF Corroborated
  <2>. QED BY <1>1, <1>6, <2>1 DEF Misplaced
<1>. QED BY <1>1, <1>3, <1>4, <1>5, <1>6 DEF Roles

LEMMA ModifiersKeeps == TurnInv /\ Modifiers => TurnInv'
<1>. SUFFICES ASSUME TurnInv, Modifiers PROVE TurnInv'
  OBVIOUS
<1>0. /\ args \in Arguments /\ reviewing = "modifiers" /\ unread \subseteq Modifier
      /\ UNCHANGED <<facts, calls, proposal>>
      /\ word \in [requested : SUBSET Modifier, refused : SUBSET Modifier, present : SUBSET Preserved]
      /\ args.modifiers \subseteq unread \cup word.requested \cup {m \in Modifier : Shown(m)}
      /\ proposal.modifiers \ args.modifiers \subseteq word.refused
      /\ args.kept = proposal.kept /\ args.destination = proposal.destination
  BY DEF TurnInv, TurnTypeOK, Modifiers, ModifiersSettled, PreservedSettled, DestinationSettled,
     Unsettled, Settling
<1>1. CASE unread = {} /\ reviewing' = "preserved" /\ UNCHANGED <<args, unread, word>>
  <2>1. TurnTypeOK'
    BY <1>0, <1>1 DEF TurnInv, TurnTypeOK
  <2>2. \A m : Shown(m)' = Shown(m)
    BY <1>0, <1>1 DEF Shown
  <2>3. ModifiersSettled'
    BY <1>0, <1>1, <2>2 DEF ModifiersSettled
  <2>4. ProposalFits' /\ SubjectThere' /\ RoleSettled' /\ PreservedSettled' /\ DestinationSettled'
    BY <1>0, <1>1 DEF TurnInv, ProposalFits, SubjectThere, RoleSettled, PreservedSettled,
       DestinationSettled, Unsettled, Settling, Asked
  <2>. QED BY <2>1, <2>3, <2>4 DEF TurnInv
<1>2. ASSUME NEW m \in unread, unread' = unread \ {m}, reviewing' = reviewing, args' \in Arguments,
             word' \in [requested : SUBSET Modifier, refused : SUBSET Modifier, present : SUBSET Preserved],
             args'.text = args.text, args'.match = args.match, args'.kept = args.kept,
             args'.destination = args.destination,
             args'.modifiers \subseteq args.modifiers,
             word.requested \subseteq word'.requested,
             m \in args'.modifiers => m \in word'.requested \/ Shown(m),
             proposal.modifiers \ args'.modifiers \subseteq word'.refused
      PROVE  TurnInv'
  <2>1. TurnTypeOK'
    BY <1>0, <1>2 DEF TurnInv, TurnTypeOK
  <2>2. \A x : Shown(x)' = Shown(x)
    BY <1>0, <1>2 DEF Shown
  <2>3. ModifiersSettled'
    BY <1>0, <1>2, <2>2 DEF ModifiersSettled
  <2>4. ProposalFits' /\ SubjectThere' /\ RoleSettled' /\ PreservedSettled' /\ DestinationSettled'
    BY <1>0, <1>2 DEF TurnInv, ProposalFits, SubjectThere, RoleSettled, PreservedSettled,
       DestinationSettled, Unsettled, Settling, Asked
  <2>. QED BY <2>1, <2>3, <2>4 DEF TurnInv
<1>3. ASSUME NEW m \in unread, unread' = unread \ {m}, Shown(m), UNCHANGED <<args, word, reviewing>>
      PROVE  TurnInv'
  BY <1>0, <1>2, <1>3
<1>4. ASSUME NEW m \in unread, unread' = unread \ {m},
             word' = [word EXCEPT !.requested = @ \cup {m}], UNCHANGED <<args, reviewing>>
      PROVE  TurnInv'
  <2>1. /\ word' \in [requested : SUBSET Modifier, refused : SUBSET Modifier, present : SUBSET Preserved]
        /\ word'.requested = word.requested \cup {m} /\ word'.refused = word.refused
    BY <1>0, <1>4
  <2>. QED BY <1>0, <1>2, <1>4, <2>1
<1>5. ASSUME NEW m \in unread, unread' = unread \ {m},
             word' = [word EXCEPT !.refused = @ \cup {m}],
             args' = [args EXCEPT !.modifiers = @ \ {m}], UNCHANGED reviewing
      PROVE  TurnInv'
  <2>1. /\ word' \in [requested : SUBSET Modifier, refused : SUBSET Modifier, present : SUBSET Preserved]
        /\ word'.requested = word.requested /\ word'.refused = word.refused \cup {m}
    BY <1>0, <1>5
  <2>2. /\ args' \in Arguments /\ args'.modifiers = args.modifiers \ {m}
        /\ args'.text = args.text /\ args'.match = args.match /\ args'.kept = args.kept
        /\ args'.destination = args.destination
    BY <1>0, <1>5 DEF Arguments
  <2>. QED BY <1>0, <1>2, <1>5, <2>1, <2>2
<1>6. ASSUME NEW m \in unread, unread' = unread \ {m}, reviewing' = "arguments", UNCHANGED <<args, word>>
      PROVE  TurnInv'
  BY <1>0, <1>6, EndKeeps
<1>. QED BY <1>1, <1>3, <1>4, <1>5, <1>6 DEF Modifiers

LEMMA PreservedKeeps == TurnInv /\ PreservedReview => TurnInv'
<1>. SUFFICES ASSUME TurnInv, PreservedReview PROVE TurnInv'
  OBVIOUS
<1>0. /\ args \in Arguments /\ reviewing = "preserved"
      /\ UNCHANGED <<facts, calls, proposal, unread>>
      /\ word \in [requested : SUBSET Modifier, refused : SUBSET Modifier, present : SUBSET Preserved]
      /\ args.kept = proposal.kept
  BY DEF TurnInv, TurnTypeOK, PreservedReview, PreservedSettled
<1>1. CASE reviewing' = "arguments" /\ UNCHANGED <<args, word>>
  BY <1>0, <1>1, EndKeeps
<1>2. ASSUME NEW present \in SUBSET Missed, reviewing' = "payload",
             args' = [args EXCEPT !.kept = @ \cup present],
             word' = [word EXCEPT !.present = present]
      PROVE  TurnInv'
  <2>0. present \subseteq Preserved
    BY DEF Missed, preserved_arguments, Preserved
  <2>1. /\ args' \in Arguments /\ args'.kept = args.kept \cup present
        /\ args'.modifiers = args.modifiers
        /\ args'.text = args.text /\ args'.match = args.match
        /\ args'.destination = args.destination
    BY <1>0, <1>2, <2>0 DEF Arguments
  <2>2. /\ word' \in [requested : SUBSET Modifier, refused : SUBSET Modifier, present : SUBSET Preserved]
        /\ word'.requested = word.requested /\ word'.refused = word.refused
        /\ word'.present = present
    BY <1>0, <1>2, <2>0
  <2>3. TurnTypeOK'
    BY <1>0, <1>2, <2>1, <2>2 DEF TurnInv, TurnTypeOK
  <2>4. \A m : Shown(m)' = Shown(m)
    BY <1>0, <2>1 DEF Shown
  <2>5. ModifiersSettled'
    BY <1>0, <1>2, <2>1, <2>2, <2>4 DEF TurnInv, ModifiersSettled, Settling, Asked
  <2>6. PreservedSettled'
    BY <1>0, <1>2, <2>1, <2>2 DEF PreservedSettled, Unsettled, Asked
  <2>7. ProposalFits' /\ SubjectThere' /\ RoleSettled' /\ DestinationSettled'
    BY <1>0, <1>2, <2>1 DEF TurnInv, ProposalFits, SubjectThere, RoleSettled,
       DestinationSettled, Unsettled, Settling, Asked
  <2>. QED BY <2>3, <2>5, <2>6, <2>7 DEF TurnInv
<1>. QED BY <1>1, <1>2 DEF PreservedReview

LEMMA PayloadKeeps == TurnInv /\ Payload => TurnInv'
<1>. SUFFICES ASSUME TurnInv, Payload PROVE TurnInv'
  OBVIOUS
<1>0. /\ args \in Arguments /\ reviewing = "payload" /\ facts \in Facts
      /\ UNCHANGED <<facts, calls, proposal, unread, word>>
      /\ args.destination = proposal.destination /\ proposal \in Proposable(calls)
  BY DEF TurnInv, TurnTypeOK, Payload, DestinationSettled, ProposalFits, Settling
<1>1. facts.role \in {"none", "user"}
  BY <1>0 DEF Facts
<1>2. /\ reviewing' \in Asked /\ args' \in Arguments /\ args'.destination # "model"
      /\ args'.text = args.text /\ args'.match = args.match
      /\ args'.kept = args.kept /\ args'.modifiers = args.modifiers
  <2>1. CASE "copy" \notin calls
    BY <1>0, <2>1 DEF Payload, Proposable, Asked
  <2>2. CASE "copy" \in calls /\ facts.role = "none"
    BY <1>0, <2>2 DEF Payload, Arguments, Asked
  <2>3. CASE "copy" \in calls /\ facts.role = "user"
    BY <1>0, <2>3 DEF Payload, Arguments, Asked
  <2>. QED BY <1>1, <2>1, <2>2, <2>3
<1>3. TurnTypeOK'
  BY <1>0, <1>2 DEF TurnInv, TurnTypeOK, TurnEnds, Asked
<1>4. \A m : Shown(m)' = Shown(m)
  BY <1>0, <1>2 DEF Shown
<1>5. ModifiersSettled'
  BY <1>0, <1>2, <1>4 DEF TurnInv, ModifiersSettled, Settling, Asked
<1>6. PreservedSettled' /\ DestinationSettled'
  BY <1>0, <1>2 DEF TurnInv, PreservedSettled, DestinationSettled, Unsettled, Settling, Asked
<1>7. ProposalFits' /\ SubjectThere' /\ RoleSettled'
  BY <1>0, <1>2 DEF TurnInv, ProposalFits, SubjectThere, RoleSettled, Unsettled, Settling, Asked
<1>. QED BY <1>3, <1>5, <1>6, <1>7 DEF TurnInv

LEMMA TurnKeeps == TurnInv /\ [TurnNext]_turnVars => TurnInv'
<1>. SUFFICES ASSUME TurnInv, [TurnNext]_turnVars PROVE TurnInv'
  OBVIOUS
<1>1. CASE UNCHANGED turnVars
  BY <1>1 DEF turnVars, TurnInv, TurnTypeOK, ProposalFits, SubjectThere, RoleSettled,
     ModifiersSettled, PreservedSettled, DestinationSettled, Shown
<1>. QED BY <1>1, ProposeKeeps, RelocateKeeps, RolesKeeps, ModifiersKeeps, PreservedKeeps,
     PayloadKeeps DEF TurnNext

LEMMA TurnStarts == TurnInit => TurnInv
<1>. SUFFICES ASSUME TurnInit PROVE TurnInv
  OBVIOUS
<1>1. NoFacts \in Facts /\ NoArguments \in Arguments
  BY DEF NoFacts, Facts, NoArguments, Arguments
<1>2. TurnTypeOK
  BY <1>1 DEF TurnInit, TurnTypeOK, NoWord
<1>. QED BY <1>2 DEF TurnInit, TurnInv, ProposalFits, SubjectThere, RoleSettled,
     ModifiersSettled, PreservedSettled, DestinationSettled, Unsettled, Settling, Asked

LEMMA TurnIsHonest == TurnInv => NothingLostOrInvented
<1>. SUFFICES ASSUME TurnInv PROVE NothingLostOrInvented
  OBVIOUS
<1>1. ASSUME reviewing = "action"
      PROVE  /\ Subject(proposal) /\ args.text = "none" =>
                   proposal.text # "invented" /\ (facts.overlap \/ facts.named \/ ~facts.siblings)
             /\ (args.text # "none") => args.match \in Choice
  BY <1>1 DEF TurnInv, RoleSettled, Asked
<1>2. ASSUME reviewing = "action"
      PROVE  /\ args.modifiers \subseteq word.requested \cup {m \in Modifier : Shown(m)}
             /\ proposal.modifiers \ args.modifiers \subseteq word.refused
  BY <1>2 DEF TurnInv, ModifiersSettled, Asked
<1>3. ASSUME reviewing = "action"
      PROVE  proposal.kept \subseteq args.kept /\ args.kept \ proposal.kept \subseteq word.present
  BY <1>3 DEF TurnInv, PreservedSettled, Asked
<1>4. reviewing \in {"action", "where"} => args.destination # "model"
  BY DEF TurnInv, DestinationSettled, Asked
<1>. QED BY <1>1, <1>2, <1>3, <1>4 DEF NothingLostOrInvented

LEMMA MessageStarts == MessageInit => RouteInv /\ TurnInv
  BY RoutingStarts, TurnStarts DEF MessageInit

\* The router's step leaves the model's turn alone, and the other way around.
LEMMA MessageKeeps ==
    RouteInv /\ TurnInv /\ [MessageNext]_messageVars => RouteInv' /\ TurnInv'
<1>. SUFFICES ASSUME RouteInv, TurnInv, [MessageNext]_messageVars PROVE RouteInv' /\ TurnInv'
  OBVIOUS
<1>1. [RouteNext]_routeVars /\ [TurnNext]_turnVars
  BY DEF MessageNext, messageVars
<1>. QED BY <1>1, RoutingKeeps, TurnKeeps

\* What holds of every message that is routed, and of every turn of the model
\* with its reviews, whatever the two tests for negations find and miss: what
\* is required is in words of the whole message for which no negation is found;
\* behind a recognised negation nothing is taken on without such evidence; and
\* where there is some, only it is offered, proposed and compiled.
THEOREM MessageInvariant == MessageSpec => [](RouteInv /\ TurnInv)
<1>1. MessageInit => RouteInv /\ TurnInv
  BY MessageStarts
<1>2. RouteInv /\ TurnInv /\ [MessageNext]_messageVars => (RouteInv /\ TurnInv)'
  BY MessageKeeps
<1>. QED BY <1>1, <1>2, PTL DEF MessageSpec

\* The variables of the two stay in their types.
THEOREM MessageTypeCorrect == MessageSpec => [](RouteTypeOK /\ TurnTypeOK)
<1>1. RouteInv /\ TurnInv => RouteTypeOK /\ TurnTypeOK
  BY DEF RouteInv, TurnInv
<1>. QED BY <1>1, MessageInvariant, PTL

\* What reaches the compiler on the evidence of words is what the capability
\* router finds asked for in the whole message, a negation that it misses
\* excepted, and the reviews neither lose nor add an argument but as
\* NothingLostOrInvented says, for messages of any number of phrases.
THEOREM TurnsHonestAlways == MessageSpec => []TurnsHonest
<1>1. RouteInv => OnlyWhatWasAsked
  BY DEF RouteInv
<1>2. RouteInv /\ TurnInv => TurnsHonest
  BY <1>1, TurnIsHonest DEF TurnsHonest
<1>. QED BY <1>2, MessageInvariant, PTL

-----------------------------------------------------------------------------
(* From a payload to a plan, and to what the executor does with it.          *)

Row == [id : Id, op : Proposal, selection : Id \cup Other \cup {Nothing}]

\* The ids of the operations before one.
Before(i) == {operations[j].id : j \in 1 .. i - 1}

\* What parse() has accepted: an operation refers to what is before it, or to the
\* results of the context, and its arguments are as validate_arguments() wants.
OperationFits(i) ==
    LET p == operations[i].op
    IN  /\ p.deps \subseteq Before(i)
        /\ p.from \in {"none", "context.active_results"} \cup Before(i)
        /\ (p.kind \in Selects) = (p.from # "none")
        /\ (p.kind \in Places) = (p.place # "none")
        /\ p.kind = "search" => SearchValid(p.search)

OperationsFit == \A i \in DOMAIN operations : OperationFits(i)

\* The payload that has been read has the confidence of the model.
Confident == progress \notin {"reading", "rejected"} => confidence # "none"

\* The context had what the payload refers to, when it was compiled.
Resolved ==
    progress \in {"planning", "starting", "running", "awaiting", "completed", "failed", "refused"} =>
        /\ ~Unclear
        /\ \A i \in DOMAIN operations :
              operations[i].op.kind \in Selects => operations[i].selection = Meant(operations[i])

\* The steps of the plan are the operations, each with what it refers to.
PlanMade ==
    progress \in {"starting", "running", "awaiting", "completed", "failed", "refused"} =>
        /\ Len(steps) = Len(operations)
        /\ \A i \in DOMAIN operations :
              steps[i].id = operations[i].id /\ steps[i].deps = References(operations[i])
        /\ \A i \in 1 .. Len(operations) - 1 : operations[i].op.kind \notin Writes

IntentInv == IntentTypeOK /\ OperationsFit /\ Confident /\ Resolved /\ PlanMade /\ PlanKeepsItsWord

\* What may be proposed.
LEMMA ProposalFacts ==
    ASSUME NEW p \in Proposal
    PROVE  /\ p.kind \in {"search"} \cup Selects \cup Places /\ p.search \in Argument
           /\ p.from \in Reference /\ p.place \in Place /\ p.deps \subseteq Id
           /\ p.kind # "search" => p.search = NoSearch
<1>1. NoSearch \in Argument
  BY DEF NoSearch, Argument
<1>. HIDE DEF Argument
<1>. QED BY <1>1 DEF Proposal, Selects, Places, Reference, Place

\* What grounding makes of the arguments of a search.
LEMMA GroundedFacts ==
    ASSUME message \in Message, NEW a \in Argument
    PROVE  /\ Kept(a) \in Argument
           /\ SearchValid(Grounded(a)) => SearchValid(Kept(a))
<1>1. Normalized(a) \in Argument
  BY DEF Normalized, Argument
<1>2. FilenameGrounded(Normalized(a)) \in Argument
  BY <1>1 DEF FilenameGrounded, Argument, Suffix
<1>3. ExtensionsGrounded(FilenameGrounded(Normalized(a))) \in Argument
  BY <1>2 DEF ExtensionsGrounded, Argument
<1>4. Grounded(a) \in Argument
  BY <1>3 DEF Grounded, EnumsGrounded, Argument
<1>5. /\ Kept(a) \in Argument
      /\ (Kept(a).text = "none") = (Grounded(a).text = "none")
      /\ Kept(a).match = Grounded(a).match /\ Kept(a).extensions = Grounded(a).extensions
      /\ Kept(a).named = Grounded(a).named /\ Kept(a).bySize = Grounded(a).bySize
  BY <1>4 DEF Kept, Argument
<1>6. Mode(Kept(a)) = Mode(Grounded(a))
  BY <1>5 DEF Mode
<1>. QED BY <1>5, <1>6 DEF SearchValid

LEMMA NothingGrounded == message \in Message => Kept(NoSearch) = NoSearch
<1>1. Normalized(NoSearch) = NoSearch
  BY DEF Normalized, NoSearch
<1>2. FilenameGrounded(NoSearch) = NoSearch
  BY DEF FilenameGrounded, NoSearch
<1>3. ExtensionsGrounded(NoSearch) = NoSearch
  BY DEF ExtensionsGrounded, NoSearch
<1>4. EnumsGrounded(NoSearch) = NoSearch
  BY DEF EnumsGrounded, NoSearch
<1>5. Grounded(NoSearch) = NoSearch
  BY <1>1, <1>2, <1>3, <1>4 DEF Grounded
<1>. QED BY <1>5 DEF Kept, NoSearch

LEMMA KeptTyped ==
    ASSUME message \in Message, NEW p \in Proposal
    PROVE  /\ [p EXCEPT !.search = Kept(@)] \in Proposal
           /\ \A field \in {"kind", "from", "place", "stated", "alias", "deps"} :
                 [p EXCEPT !.search = Kept(@)][field] = p[field]
           /\ [p EXCEPT !.search = Kept(@)].search = Kept(p.search)
<1>1. CASE p.kind = "search"
  <2>1. Kept(p.search) \in Argument
    BY ProposalFacts, GroundedFacts
  <2>2. p \in [kind : {"search"}, search : Argument, from : {"none"}, place : {"none"}, stated : {TRUE},
               alias : {Nothing}, deps : SUBSET Id]
    BY <1>1 DEF Proposal, Selects, Places
  <2>3. [p EXCEPT !.search = Kept(@)]
           \in [kind : {"search"}, search : Argument, from : {"none"}, place : {"none"}, stated : {TRUE},
                alias : {Nothing}, deps : SUBSET Id]
    BY <2>1, <2>2
  <2>. QED BY <2>2, <2>3 DEF Proposal
<1>2. CASE p.kind # "search"
  <2>1. p.search = NoSearch /\ Kept(p.search) = p.search
    BY <1>2, ProposalFacts, NothingGrounded
  <2>2. [p EXCEPT !.search = Kept(@)] = p
    BY <2>1 DEF Proposal
  <2>. QED BY <2>1, <2>2
<1>. QED BY <1>1, <1>2

LEMMA ContextTyped ==
    ASSUME NEW c \in Context
    PROVE  /\ c.results \in Id \cup Other \cup {Nothing} /\ c.place \in Other \cup {Nothing}
           /\ \A v \in Id \cup Other : [c EXCEPT !.results = v] \in Context
           /\ \A v \in Other : [c EXCEPT !.place = v] \in Context
  BY DEF Context

LEMMA RowFacts ==
    ASSUME operations \in Seq(Row), NEW i \in DOMAIN operations
    PROVE  operations[i] \in Row /\ operations[i].id \in Id /\ operations[i].op \in Proposal
<1>1. operations[i] \in Row
  <2>. HIDE DEF Row
  <2>. QED OBVIOUS
<1>. QED BY <1>1 DEF Row

\* parse() keeps the invariant.
LEMMA ParseKeeps == IntentInv /\ Parse => IntentInv'
<1>. SUFFICES ASSUME IntentInv, Parse PROVE IntentInv'
  OBVIOUS
<1>0. /\ IntentTypeOK /\ OperationsFit /\ progress = "reading"
      /\ UNCHANGED <<message, confidence, context, compiled, steps, run, made, prepared, elsewhere>>
      /\ operations \in Seq(Row) /\ Len(operations) \in Nat /\ Len(operations) + 1 <= MaxOperations
  BY PayloadAssumption DEF IntentInv, IntentTypeOK, Parse, Row
<1>1. CASE progress' = "rejected" /\ operations' = operations
  <2>1. IntentTypeOK'
    BY <1>0, <1>1 DEF IntentTypeOK, Stages, Ends
  <2>2. OperationsFit'
    BY <1>0, <1>1 DEF OperationsFit, OperationFits, Before
  <2>3. Confident' /\ Resolved' /\ PlanMade' /\ PlanKeepsItsWord'
    BY <1>1 DEF Confident, Resolved, PlanMade, PlanKeepsItsWord
  <2>. QED BY <2>1, <2>2, <2>3 DEF IntentInv
<1>2. ASSUME NEW id \in Id, NEW p \in Proposal, Accepted(id, p), progress' = progress,
             operations' = Append(operations, [id |-> id, selection |-> Nothing,
                                               op |-> [p EXCEPT !.search = Kept(@)]])
      PROVE  IntentInv'
  <2>. DEFINE new == [id |-> id, selection |-> Nothing, op |-> [p EXCEPT !.search = Kept(@)]]
  <2>n. PICK n \in Nat : n = Len(operations)
    BY <1>0
  <2>0. message \in Message
    BY <1>0 DEF IntentTypeOK
  <2>1. new \in Row
    BY <2>0, KeptTyped DEF Row
  <2>2. /\ operations' \in Seq(Row) /\ Len(operations') = n + 1
        /\ \A i \in 1 .. n : operations'[i] = operations[i]
        /\ operations'[n + 1] = new
        /\ DOMAIN operations = 1 .. n /\ DOMAIN operations' = 1 .. n + 1
    BY <1>0, <1>2, <2>n, <2>1, AppendProperties
  <2>3. IntentTypeOK'
    BY <1>0, <1>2, <2>n, <2>2 DEF IntentTypeOK, Row
  <2>4. ASSUME NEW i \in 1 .. n PROVE OperationFits(i)'
    <3>1. \A j \in 1 .. i - 1 : operations'[j] = operations[j]
      BY <1>0, <2>2
    <3>2. Before(i)' = Before(i) /\ operations'[i] = operations[i]
      BY <2>2, <3>1 DEF Before
    <3>. QED BY <1>0, <2>2, <3>2 DEF OperationsFit, OperationFits
  <2>5. OperationFits(n + 1)'
    <3>1. (n + 1) - 1 = n
      OBVIOUS
    <3>2. Before(n + 1)' = Seen(operations)
      <4>1. Before(n + 1)' = {operations'[j].id : j \in 1 .. n}
        <5>. HIDE DEF new
        <5>1. 1 .. (n + 1) - 1 = 1 .. n
          BY <3>1
        <5>. QED BY <5>1, Zenon DEF Before
      <4>2. Seen(operations) = {operations[j].id : j \in 1 .. n}
        BY <2>2 DEF Seen
      <4>. HIDE DEF new
      <4>. QED BY <2>2, <4>1, <4>2
    <3>3. /\ new.op.deps = p.deps /\ new.op.from = p.from /\ new.op.kind = p.kind
          /\ new.op.place = p.place /\ new.op.search = Kept(p.search)
      BY <2>0, KeptTyped
    <3>4. p.kind = "search" => SearchValid(Kept(p.search))
      BY <1>2, <2>0, ProposalFacts, GroundedFacts DEF Accepted, ArgumentsAccepted, SearchAccepted
    <3>5. /\ p.deps \subseteq Seen(operations)
          /\ p.from \in {"none", "context.active_results"} \cup Seen(operations)
      BY <1>2 DEF Accepted, GraphAccepted
    <3>6. (p.kind \in Selects) = (p.from # "none")
      BY <1>2, Zenon DEF Accepted, ArgumentsAccepted
    <3>7. (p.kind \in Places) = (p.place # "none")
      BY <1>2, Zenon DEF Accepted, ArgumentsAccepted
    <3>8. /\ new.op.deps \subseteq Before(n + 1)'
          /\ new.op.from \in {"none", "context.active_results"} \cup Before(n + 1)'
      BY <3>2, <3>3, <3>5
    <3>9. /\ (new.op.kind \in Selects) = (new.op.from # "none")
          /\ (new.op.kind \in Places) = (new.op.place # "none")
          /\ new.op.kind = "search" => SearchValid(new.op.search)
      BY <3>3, <3>4, <3>6, <3>7
    <3>. HIDE DEF new
    <3>. QED BY <2>2, <3>8, <3>9, Zenon DEF OperationFits
  <2>6. OperationsFit'
    <3>1. \A i \in 1 .. n + 1 : i \in 1 .. n \/ i = n + 1
      OBVIOUS
    <3>2. DOMAIN operations' = 1 .. n + 1
      BY <2>2
    <3>3. \A i \in 1 .. n : OperationFits(i)'
      BY <2>4
    <3>4. \A i \in 1 .. n + 1 : OperationFits(i)'
      BY <2>5, <3>1, <3>3, Zenon
    <3>. QED BY <3>2, <3>4, Zenon DEF OperationsFit
  <2>7. Confident' /\ Resolved' /\ PlanMade' /\ PlanKeepsItsWord'
    BY <1>0, <1>2 DEF Confident, Resolved, PlanMade, PlanKeepsItsWord
  <2>. QED BY <2>3, <2>6, <2>7 DEF IntentInv
<1>. QED BY <1>1, <1>2 DEF Parse

\* The confidence is settled.
LEMMA ParsedKeeps == IntentInv /\ Parsed => IntentInv'
<1>. SUFFICES ASSUME IntentInv, Parsed PROVE IntentInv'
  OBVIOUS
<1>1. progress' \in {"rejected", "resolving"} /\ confidence' \in {"low", "high"}
      /\ UNCHANGED <<message, operations, context, compiled, steps, run, made, prepared, elsewhere>>
  BY DEF Parsed
<1>2. IntentTypeOK'
  BY <1>1 DEF IntentInv, IntentTypeOK, Stages, Ends
<1>3. OperationsFit'
  BY <1>1 DEF IntentInv, OperationsFit, OperationFits, Before
<1>4. Confident' /\ Resolved' /\ PlanMade' /\ PlanKeepsItsWord'
  BY <1>1 DEF Confident, Resolved, PlanMade, PlanKeepsItsWord
<1>. QED BY <1>2, <1>3, <1>4 DEF IntentInv

\* resolve() keeps the invariant.
LEMMA ResolveKeeps == IntentInv /\ Resolve => IntentInv'
<1>. SUFFICES ASSUME IntentInv, Resolve PROVE IntentInv'
  OBVIOUS
<1>0. /\ IntentTypeOK /\ OperationsFit /\ Confident /\ progress = "resolving"
      /\ UNCHANGED <<message, confidence, context, compiled, steps, run, made, prepared, elsewhere>>
      /\ operations \in Seq(Row) /\ compiled \in Context
  BY DEF IntentInv, IntentTypeOK, Resolve, Row
<1>. PICK n \in Nat : n = Len(operations)
  BY <1>0
<1>1. DOMAIN operations = 1 .. n /\ \A i \in 1 .. n : operations[i] \in Row
  BY <1>0
<1>2. operations' = [i \in 1 .. n |->
           [operations[i] EXCEPT !.selection =
               IF operations[i].op.from = "context.active_results" THEN compiled.results
               ELSE IF operations[i].op.from \in Id THEN operations[i].op.from ELSE Nothing]]
  BY <1>1 DEF Resolve
<1>3. ASSUME NEW i \in 1 .. n
      PROVE  /\ operations'[i] \in Row
             /\ operations'[i].id = operations[i].id /\ operations'[i].op = operations[i].op
             /\ operations'[i].selection =
                  IF operations[i].op.from = "context.active_results" THEN compiled.results
                  ELSE IF operations[i].op.from \in Id THEN operations[i].op.from ELSE Nothing
  <2>1. compiled.results \in Id \cup Other \cup {Nothing}
    BY <1>0, ContextTyped
  <2>2. PICK v \in Id \cup Other \cup {Nothing} :
           v = IF operations[i].op.from = "context.active_results" THEN compiled.results
               ELSE IF operations[i].op.from \in Id THEN operations[i].op.from ELSE Nothing
    BY <2>1
  <2>3. operations'[i] = [operations[i] EXCEPT !.selection = v]
    BY <1>2, <2>2
  <2>. HIDE DEF Proposal
  <2>. QED BY <1>1, <2>2, <2>3 DEF Row
<1>4. DOMAIN operations' = 1 .. n /\ operations' \in Seq(Row) /\ Len(operations') = n
  <2>1. operations' \in [1 .. n -> Row]
    BY <1>2, <1>3
  <2>. QED BY <2>1
<1>5. IntentTypeOK'
  <2>1. progress' \in {"question", "planning"}
    BY DEF Resolve
  <2>. QED BY <1>0, <1>4, <2>1 DEF IntentTypeOK, Row, Stages, Ends
<1>6. OperationsFit'
  <2>. SUFFICES ASSUME NEW i \in 1 .. n PROVE OperationFits(i)'
    BY <1>4 DEF OperationsFit
  <2>1. \A j \in 1 .. i - 1 : operations'[j].id = operations[j].id
    BY <1>3
  <2>2. Before(i)' = Before(i) /\ operations'[i].op = operations[i].op
    BY <1>3, <2>1 DEF Before
  <2>. QED BY <1>0, <1>1, <2>2 DEF OperationsFit, OperationFits
<1>7. Unclear' <=> Unclear
  <2>1. \A i \in 1 .. n : operations'[i].op = operations[i].op
    BY <1>3
  <2>. QED BY <1>0, <1>1, <1>4, <2>1 DEF Unclear, Missing
<1>8. Confident'
  BY <1>0 DEF Confident, Resolve
<1>9. Resolved'
  <2>1. progress' = "planning" => ~Unclear'
    BY <1>7 DEF Resolve
  <2>2. ASSUME NEW i \in 1 .. n, operations'[i].op.kind \in Selects
        PROVE  operations'[i].selection = IF operations'[i].op.from = "context.active_results"
                                          THEN compiled' .results ELSE operations'[i].op.from
    <3>1. operations[i].op.from \in {"context.active_results"} \cup Before(i)
      BY <1>0, <1>1, <1>3, <2>2 DEF OperationsFit, OperationFits
    <3>2. Before(i) \subseteq Id
      <4>1. \A j \in 1 .. i - 1 : operations[j].id \in Id
        BY <1>0, <1>1, RowFacts
      <4>. QED BY <4>1 DEF Before
    <3>. QED BY <1>0, <1>3, <3>1, <3>2, IdAssumption
  <2>3. progress' \in {"question", "planning"}
    BY DEF Resolve
  <2>. QED BY <1>4, <2>1, <2>2, <2>3 DEF Resolved, Meant
<1>10. PlanMade' /\ PlanKeepsItsWord'
  BY DEF Resolve, PlanMade, PlanKeepsItsWord
<1>. QED BY <1>5, <1>6, <1>8, <1>9, <1>10 DEF IntentInv

\* What an operation refers to are ids.
LEMMA ReferencesTyped ==
    ASSUME operations \in Seq(Row), NEW i \in DOMAIN operations
    PROVE  References(operations[i]) \subseteq Id
<1>1. Seen(operations) \subseteq Id
  BY RowFacts DEF Seen
<1>2. operations[i].op.deps \subseteq Id
  BY RowFacts, ProposalFacts
<1>. QED BY <1>1, <1>2 DEF References

\* plan() keeps the invariant.
LEMMA MakePlanKeeps == IntentInv /\ MakePlan => IntentInv'
<1>. SUFFICES ASSUME IntentInv, MakePlan PROVE IntentInv'
  OBVIOUS
<1>0. /\ IntentTypeOK /\ OperationsFit /\ Confident /\ Resolved /\ progress = "planning"
      /\ UNCHANGED <<message, confidence, operations, context, compiled, run, made, prepared, elsewhere>>
      /\ operations \in Seq(Row) /\ Len(operations) <= MaxOperations
  BY DEF IntentInv, IntentTypeOK, MakePlan, Row, payloadVars
<1>1. OperationsFit' /\ Confident'
  BY <1>0 DEF OperationsFit, OperationFits, Before, Confident, MakePlan
<1>2. Resolved'
  BY <1>0 DEF Resolved, Unclear, Missing, Meant
<1>3. CASE progress' = "question" /\ steps' = steps
  <2>1. IntentTypeOK'
    BY <1>0, <1>3 DEF IntentTypeOK, Stages, Ends
  <2>2. PlanMade' /\ PlanKeepsItsWord'
    BY <1>3 DEF PlanMade, PlanKeepsItsWord
  <2>. QED BY <1>1, <1>2, <2>1, <2>2 DEF IntentInv
<1>4. CASE /\ progress' = "starting"
           /\ steps' = [i \in DOMAIN operations |->
                          [id |-> operations[i].id, deps |-> References(operations[i])]]
           /\ ~\E i \in 1 .. Len(operations) - 1 : operations[i].op.kind \in Writes
  <2>. PICK n \in Nat : n = Len(operations)
    BY <1>0
  <2>1. DOMAIN operations = 1 .. n /\ \A i \in 1 .. n : operations[i] \in Row
    BY <1>0
  <2>2. \A i \in 1 .. n : [id |-> operations[i].id, deps |-> References(operations[i])]
                             \in [id : Id, deps : SUBSET Id]
    BY <1>0, <2>1, ReferencesTyped DEF Row
  <2>3. steps' \in [1 .. n -> [id : Id, deps : SUBSET Id]]
    BY <1>4, <2>1, <2>2
  <2>4. steps' \in Seq([id : Id, deps : SUBSET Id]) /\ Len(steps') = n
    <3>. DEFINE PlanStep == [id : Id, deps : SUBSET Id]
    <3>1. steps' \in [1 .. n -> PlanStep]
      BY <2>3
    <3>. HIDE DEF PlanStep
    <3>2. steps' \in Seq(PlanStep) /\ Len(steps') = n
      BY <3>1
    <3>. QED BY <3>2 DEF PlanStep
  <2>5. IntentTypeOK'
    BY <1>0, <1>4, <2>4 DEF IntentTypeOK, Stages, Ends
  <2>6. PlanMade'
    BY <1>0, <1>4, <2>1, <2>4 DEF PlanMade, References, Seen
  <2>7. PlanKeepsItsWord'
    BY <1>4 DEF PlanKeepsItsWord
  <2>. QED BY <1>1, <1>2, <2>5, <2>6, <2>7 DEF IntentInv
<1>. QED BY <1>3, <1>4 DEF MakePlan

\* The executor changes neither the plan nor what it was made of.
LEMMA ExecutorFrame ==
    ASSUME IntentInv, UNCHANGED <<payloadVars, compiled, steps>>, progress \in {"starting", "running"}
    PROVE  OperationsFit' /\ Confident' /\ Resolved' /\ PlanMade'
<1>1. UNCHANGED <<message, confidence, operations, compiled, steps>>
  BY DEF payloadVars
<1>2. OperationsFit'
  BY <1>1 DEF IntentInv, OperationsFit, OperationFits, Before
<1>3. Confident'
  BY <1>1 DEF IntentInv, Confident
<1>4. Resolved'
  BY <1>1 DEF IntentInv, Resolved, Unclear, Missing, Meant
<1>5. PlanMade'
  BY <1>1 DEF IntentInv, PlanMade, References, Seen
<1>. QED BY <1>2, <1>3, <1>4, <1>5

\* What the plan says while it is executed.
LEMMA PlanFacts ==
    ASSUME IntentInv, progress \in {"starting", "running"}
    PROVE  /\ operations \in Seq(Row) /\ Len(operations) \in Nat /\ Len(steps) = Len(operations)
           /\ DOMAIN steps = DOMAIN operations /\ DOMAIN steps = 1 .. Len(steps)
           /\ \A i \in DOMAIN steps : steps[i].id = operations[i].id /\ steps[i].id \in Id
           /\ \A i \in DOMAIN steps : Earlier(i) = Before(i)
           /\ \A i \in DOMAIN steps : operations[i].op.kind \in Writes => i = Len(steps)
           /\ ~Unclear
<1>1. /\ operations \in Seq(Row) /\ steps \in Seq([id : Id, deps : SUBSET Id])
      /\ Len(operations) \in Nat /\ Len(steps) = Len(operations)
      /\ \A i \in DOMAIN operations : steps[i].id = operations[i].id
      /\ \A i \in 1 .. Len(operations) - 1 : operations[i].op.kind \notin Writes
      /\ ~Unclear
  BY DEF IntentInv, IntentTypeOK, PlanMade, Resolved, Row
<1>. PICK n \in Nat : n = Len(operations)
  BY <1>1
<1>2. DOMAIN steps = 1 .. n /\ DOMAIN operations = 1 .. n /\ Len(steps) = n
  BY <1>1
<1>3. ASSUME NEW i \in 1 .. n PROVE Earlier(i) = Before(i)
  <2>1. \A j \in 1 .. i - 1 : steps[j].id = operations[j].id
    BY <1>1, <1>2
  <2>. QED BY <2>1 DEF Earlier, Before
<1>4. \A i \in 1 .. n : operations[i].op.kind \in Writes => i = n
  BY <1>1
<1>5. \A i \in 1 .. n : steps[i].id \in Id
  BY <1>1, <1>2, RowFacts
<1>. QED BY <1>1, <1>2, <1>3, <1>4, <1>5

\* execute() checks the plan.
LEMMA StartPlanKeeps == IntentInv /\ StartPlan => IntentInv'
<1>. SUFFICES ASSUME IntentInv, StartPlan PROVE IntentInv'
  OBVIOUS
<1>1. /\ progress = "starting" /\ progress' \in {"running", "refused"} /\ run' = context
      /\ progress' = "refused" => ~PlanValid
      /\ UNCHANGED <<payloadVars, context, compiled, steps, made, prepared, elsewhere>>
  BY DEF StartPlan
<1>2. IntentTypeOK'
  BY <1>1 DEF IntentInv, IntentTypeOK, payloadVars, Stages, Ends
<1>3. OperationsFit' /\ Confident' /\ Resolved' /\ PlanMade'
  BY <1>1, ExecutorFrame
<1>4. ~PlanValid => Misnamed
  <2>. SUFFICES ASSUME ~Misnamed PROVE PlanValid
    OBVIOUS
  <2>. SUFFICES ASSUME NEW i \in DOMAIN steps
                PROVE  /\ steps[i].deps \subseteq Earlier(i)
                       /\ operations[i].op.kind \in Writes => i = Len(steps)
                       /\ operations[i].op.from \in Earlier(i) => operations[i].op.from \in steps[i].deps
    BY DEF PlanValid
  <2>1. steps[i].deps \subseteq Earlier(i)
    BY DEF Misnamed
  <2>2. operations[i].op.kind \in Writes => i = Len(steps)
    BY <1>1, PlanFacts
  <2>3. Before(i) \subseteq Seen(operations)
    <3>1. /\ i \in 1 .. Len(operations) /\ Len(operations) \in Nat
          /\ DOMAIN operations = 1 .. Len(operations)
      BY <1>1, PlanFacts
    <3>2. \A j \in 1 .. i - 1 : j \in DOMAIN operations
      BY <3>1
    <3>. QED BY <3>2 DEF Before, Seen
  <2>4. steps[i].deps = References(operations[i]) /\ Earlier(i) = Before(i)
    BY <1>1, PlanFacts DEF IntentInv, PlanMade
  <2>. QED BY <2>1, <2>2, <2>3, <2>4 DEF References
<1>5. Misnamed' <=> Misnamed
  BY <1>1 DEF Misnamed, Earlier
<1>6. PlanKeepsItsWord'
  BY <1>1, <1>4, <1>5 DEF PlanKeepsItsWord
<1>. QED BY <1>2, <1>3, <1>6 DEF IntentInv

\* A search of a plan that was called ready runs.
LEMMA ReadyRuns ==
    ASSUME IntentInv, progress = "running", NEW i \in DOMAIN steps, operations[i].op.kind = "search"
    PROVE  SearchRuns(operations[i].op.search)
<1>1. i \in DOMAIN operations /\ operations \in Seq(Row) /\ ~Unclear
  BY PlanFacts
<1>2. PICK a \in Argument : a = operations[i].op.search
  BY <1>1, RowFacts, ProposalFacts
<1>3. SearchValid(a)
  BY <1>1, <1>2 DEF IntentInv, OperationsFit, OperationFits
<1>4. ~Vague(operations[i].op)
  BY <1>1 DEF Unclear
<1>5. a.text # "none" \/ a.extensions # {} \/ a.named \/ a.bySize
  BY <1>2, <1>4 DEF Vague
<1>6. (a.text = "none") = (a.match = "none")
  BY <1>3, Zenon DEF SearchValid
<1>7. a.bySize => Mode(a) = "metadata"
  BY <1>3, Zenon DEF SearchValid
<1>. QED BY <1>2, <1>5, <1>6, <1>7 DEF SearchRuns

\* What is due is a step of the plan.
LEMMA DueFacts ==
    ASSUME IntentInv, NEW i, Due(i)
    PROVE  /\ progress = "running" /\ i \in DOMAIN steps /\ made = Earlier(i)
           /\ steps[i].id \in Id /\ made \cup {steps[i].id} \subseteq Id
           /\ After(i) \in {"running", "completed"}
<1>1. progress = "running" /\ i \in DOMAIN steps /\ made = Earlier(i)
  BY DEF Due
<1>2. steps[i].id \in Id
  BY <1>1, PlanFacts
<1>3. made \subseteq Id
  BY DEF IntentInv, IntentTypeOK
<1>. QED BY <1>1, <1>2, <1>3 DEF After

LEMMA RunSearchKeeps == ASSUME NEW i PROVE IntentInv /\ RunSearch(i) => IntentInv'
<1>. SUFFICES ASSUME IntentInv, RunSearch(i) PROVE IntentInv'
  OBVIOUS
<1>0. /\ Due(i) /\ operations[i].op.kind = "search"
      /\ UNCHANGED <<payloadVars, compiled, steps, prepared, elsewhere>>
  BY DEF RunSearch
<1>1. progress = "running" /\ i \in DOMAIN steps
  BY <1>0, DueFacts
<1>2. /\ made' = made \cup {steps[i].id} /\ run' = [run EXCEPT !.results = steps[i].id]
      /\ context' = [context EXCEPT !.results = steps[i].id] /\ progress' = After(i)
  BY <1>0, <1>1, ReadyRuns DEF RunSearch
<1>3. made' \subseteq Id /\ progress' \in {"running", "completed"} /\ steps[i].id \in Id
  BY <1>0, <1>2, DueFacts
<1>4. run' \in Context /\ context' \in Context
  <2>1. run \in Context /\ context \in Context
    BY DEF IntentInv, IntentTypeOK
  <2>. QED BY <1>2, <1>3, <2>1, ContextTyped
<1>5. IntentTypeOK'
  BY <1>0, <1>3, <1>4 DEF IntentInv, IntentTypeOK, payloadVars, Stages, Ends
<1>6. OperationsFit' /\ Confident' /\ Resolved' /\ PlanMade'
  BY <1>0, <1>1, ExecutorFrame
<1>7. PlanKeepsItsWord'
  BY <1>3 DEF PlanKeepsItsWord
<1>. QED BY <1>5, <1>6, <1>7 DEF IntentInv

LEMMA InspectKeeps == ASSUME NEW i PROVE IntentInv /\ Inspect(i) => IntentInv'
<1>. SUFFICES ASSUME IntentInv, Inspect(i) PROVE IntentInv'
  OBVIOUS
<1>0. /\ Due(i) /\ operations[i].op.kind = "inspect"
      /\ UNCHANGED <<payloadVars, context, compiled, steps, run, prepared, elsewhere>>
      /\ \/ made' = made \cup {steps[i].id} /\ progress' = After(i)
         \/ progress' = "failed" /\ made' = made
  BY DEF Inspect
<1>1. progress = "running" /\ i \in DOMAIN steps /\ made = Earlier(i)
  BY <1>0, DueFacts
<1>2. made' \subseteq Id /\ progress' \in {"running", "completed", "failed"}
  BY <1>0, DueFacts
<1>3. IntentTypeOK'
  BY <1>0, <1>2 DEF IntentInv, IntentTypeOK, payloadVars, Stages, Ends
<1>4. OperationsFit' /\ Confident' /\ Resolved' /\ PlanMade'
  BY <1>0, <1>1, ExecutorFrame
<1>5. progress' = "failed" => made' = Earlier(i)' /\ i \in DOMAIN steps' /\ operations'[i].op.kind # "search"
  BY <1>0, <1>1, DueFacts DEF payloadVars, Earlier
<1>6. PlanKeepsItsWord'
  BY <1>2, <1>5 DEF PlanKeepsItsWord, Earlier
<1>. QED BY <1>3, <1>4, <1>6 DEF IntentInv

LEMMA PrepareKeeps == ASSUME NEW i PROVE IntentInv /\ Prepare(i) => IntentInv'
<1>. SUFFICES ASSUME IntentInv, Prepare(i) PROVE IntentInv'
  OBVIOUS
<1>0. /\ Due(i) /\ operations[i].op.kind \in Writes
      /\ UNCHANGED <<payloadVars, context, compiled, steps, run, made, elsewhere>>
  BY DEF Prepare
<1>1. progress = "running" /\ i \in DOMAIN steps /\ made = Earlier(i)
  BY <1>0, DueFacts
<1>2. UNCHANGED <<message, confidence, operations, context, compiled, steps, run, made, elsewhere>>
  BY <1>0 DEF payloadVars
<1>3. OperationsFit' /\ Confident' /\ Resolved' /\ PlanMade'
  BY <1>0, <1>1, ExecutorFrame
<1>4. CASE progress' = "failed" /\ prepared' = prepared
  <2>1. IntentTypeOK'
    BY <1>2, <1>4 DEF IntentInv, IntentTypeOK, Stages, Ends
  <2>2. operations[i].op.kind # "search"
    BY <1>0 DEF Writes
  <2>3. PlanKeepsItsWord'
    BY <1>1, <1>2, <1>4, <2>2 DEF PlanKeepsItsWord, Earlier
  <2>. QED BY <1>3, <2>1, <2>3 DEF IntentInv
<1>5. CASE /\ operations[i].op.kind \in Selects => Trusted(i)
           /\ prepared' = [selection |-> IF operations[i].op.kind \in Selects
                                         THEN operations[i].selection ELSE Nothing,
                           place |-> PlaceOf(operations[i].op)]
           /\ progress' = "awaiting"
  <2>0. PICK o : o = operations[i]
    OBVIOUS
  <2>1. /\ i \in DOMAIN operations /\ operations \in Seq(Row) /\ ~Unclear
        /\ i = Len(operations) /\ i = Len(steps) /\ Earlier(i) = Before(i)
    BY <1>0, <1>1, PlanFacts
  <2>2. /\ o \in Row /\ o.op \in Proposal
        /\ o.selection \in Id \cup Other \cup {Nothing} /\ o.op.place \in Place
    BY <2>0, <2>1, RowFacts, ProposalFacts DEF Row
  <2>3. /\ o.op.deps \subseteq Before(i)
        /\ o.op.from \in {"none", "context.active_results"} \cup Before(i)
        /\ (o.op.kind \in Selects) <=> (o.op.from # "none")
        /\ (o.op.kind \in Places) <=> (o.op.place # "none")
    BY <2>0, <2>1, Zenon DEF IntentInv, OperationsFit, OperationFits
  <2>4. confidence = "high"
    <3>1. confidence # "low"
      BY <1>0, <2>1 DEF Unclear
    <3>2. confidence # "none" /\ confidence \in {"none", "low", "high"}
      BY <1>1 DEF IntentInv, Confident, IntentTypeOK
    <3>. QED BY <3>1, <3>2
  <2>5. /\ o.op.from = "context.active_results" => compiled.results # Nothing
        /\ o.op.place = "context.last_destination" => compiled.place # Nothing
    BY <2>0, <2>1 DEF Unclear, Missing
  <2>6. o.op.kind \in Selects => o.selection = Meant(o) /\ Meant(o) # Nothing
    <3>1. o.op.kind \in Selects => o.selection = Meant(o)
      BY <1>1, <2>0, <2>1 DEF IntentInv, Resolved
    <3>2. Before(i) \subseteq Id
      <4>1. \A j \in 1 .. i - 1 : j \in DOMAIN operations
        BY <2>1
      <4>. QED BY <2>1, <4>1, RowFacts DEF Before
    <3>. QED BY <2>3, <2>5, <3>1, <3>2, IdAssumption DEF Meant
  <2>7. PlaceOf(o.op) \in {"none", "desktop"} \cup Other
    <3>1. compiled.place \in Other \cup {Nothing}
      BY ContextTyped DEF IntentInv, IntentTypeOK
    <3>. QED BY <2>2, <2>5, <3>1 DEF PlaceOf, Place
  <2>8. /\ prepared' \in [selection : Id \cup Other \cup {Nothing}, place : {"none", "desktop"} \cup Other]
        /\ o.op.kind \in Selects => prepared'.selection = o.selection
        /\ prepared'.place = PlaceOf(o.op)
    <3>. PICK s \in Id \cup Other \cup {Nothing}, w \in {"none", "desktop"} \cup Other :
            /\ prepared' = [selection |-> s, place |-> w] /\ w = PlaceOf(o.op)
            /\ o.op.kind \in Selects => s = o.selection
      BY <1>5, <2>0, <2>2, <2>7
    <3>. QED OBVIOUS
  <2>9. IntentTypeOK'
    BY <1>2, <1>5, <2>8 DEF IntentInv, IntentTypeOK, Stages, Ends
  <2>10. \A j \in 1 .. Len(operations) - 1 : operations[j].op.kind \notin Writes
    BY <1>1 DEF IntentInv, PlanMade
  <2>11. PlanKeepsItsWord'
    <3>1. o = operations'[Len(operations')] /\ confidence' = "high"
      BY <1>2, <2>0, <2>1, <2>4
    <3>2. o.op.kind \in Selects => prepared'.selection = Meant(o)' /\ Meant(o)' # Nothing
      BY <1>2, <2>6, <2>8 DEF Meant
    <3>3. prepared'.place = PlaceOf(o.op)'
      BY <1>2, <2>8 DEF PlaceOf
    <3>4. o.op.deps \subseteq made' /\ made' = Earlier(Len(steps))'
      BY <1>1, <1>2, <2>1, <2>3 DEF Earlier
    <3>5. \A j \in 1 .. Len(operations') - 1 : operations'[j].op.kind \notin Writes
      BY <1>2, <2>10
    <3>. QED BY <1>5, <3>1, <3>2, <3>3, <3>4, <3>5 DEF PlanKeepsItsWord
  <2>. QED BY <1>3, <2>9, <2>11 DEF IntentInv
<1>. QED BY <1>4, <1>5 DEF Prepare

LEMMA InterfereKeeps == IntentInv /\ Interfere => IntentInv'
<1>. SUFFICES ASSUME IntentInv, Interfere PROVE IntentInv'
  OBVIOUS
<1>1. /\ progress \in {"starting", "running"} /\ elsewhere < MaxElsewhere /\ elsewhere' = elsewhere + 1
      /\ UNCHANGED <<payloadVars, compiled, progress, steps, run, made, prepared>>
  BY DEF Interfere
<1>2. context' \in Context
  <2>1. PICK key \in {"results", "place"}, value \in Other : context' = [context EXCEPT ![key] = value]
    BY DEF Interfere
  <2>2. context \in Context
    BY DEF IntentInv, IntentTypeOK
  <2>. QED BY <2>1, <2>2, ContextTyped
<1>3. elsewhere' \in 0 .. MaxElsewhere
  BY <1>1, PayloadAssumption DEF IntentInv, IntentTypeOK
<1>4. IntentTypeOK'
  BY <1>1, <1>2, <1>3 DEF IntentInv, IntentTypeOK, payloadVars
<1>5. OperationsFit' /\ Confident' /\ Resolved' /\ PlanMade'
  BY <1>1, ExecutorFrame
<1>6. PlanKeepsItsWord'
  BY <1>1 DEF PlanKeepsItsWord
<1>. QED BY <1>4, <1>5, <1>6 DEF IntentInv

LEMMA IntentKeeps == IntentInv /\ [IntentNext]_intentVars => IntentInv'
<1>. SUFFICES ASSUME IntentInv, [IntentNext]_intentVars PROVE IntentInv'
  OBVIOUS
<1>1. CASE IntentNext
  <2>. SUFFICES ASSUME NEW i, RunSearch(i) \/ Inspect(i) \/ Prepare(i) PROVE IntentInv'
    BY <1>1, ParseKeeps, ParsedKeeps, ResolveKeeps, MakePlanKeeps, StartPlanKeeps, InterfereKeeps DEF IntentNext
  <2>. QED BY RunSearchKeeps, InspectKeeps, PrepareKeeps
<1>2. CASE UNCHANGED intentVars
  <2>1. UNCHANGED <<message, confidence, operations, context, compiled, progress, steps, run, made, prepared, elsewhere>>
    BY <1>2 DEF intentVars, payloadVars
  <2>2. IntentTypeOK'
    BY <2>1 DEF IntentInv, IntentTypeOK
  <2>3. OperationsFit' /\ Confident' /\ Resolved' /\ PlanMade'
    BY <2>1 DEF IntentInv, OperationsFit, OperationFits, Before, Confident, Resolved, Unclear, Missing, Meant,
         PlanMade, References, Seen
  <2>4. PlanKeepsItsWord'
    BY <2>1 DEF IntentInv, PlanKeepsItsWord, Misnamed, Earlier, Meant, PlaceOf
  <2>. QED BY <2>2, <2>3, <2>4 DEF IntentInv
<1>. QED BY <1>1, <1>2

LEMMA IntentStarts == IntentInit => IntentInv
<1>. SUFFICES ASSUME IntentInit PROVE IntentInv
  OBVIOUS
<1>1. context \in Context
  BY DEF IntentInit, Context
<1>2. IntentTypeOK
  <2>1. /\ NothingPrepared \in [selection : Id \cup Other \cup {Nothing}, place : {"none", "desktop"} \cup Other]
        /\ 0 \in 0 .. MaxElsewhere /\ 0 <= MaxOperations
    BY PayloadAssumption DEF NothingPrepared
  <2>2. /\ operations \in Seq([id : Id, op : Proposal, selection : Id \cup Other \cup {Nothing}])
        /\ steps \in Seq([id : Id, deps : SUBSET Id])
        /\ Len(operations) = 0 /\ Len(steps) = 0
    BY EmptySeq DEF IntentInit
  <2>. QED BY <1>1, <2>1, <2>2 DEF IntentInit, IntentTypeOK, Stages, Ends
<1>3. OperationsFit /\ Confident /\ Resolved /\ PlanMade /\ PlanKeepsItsWord
  BY DEF IntentInit, OperationsFit, Confident, Resolved, PlanMade, PlanKeepsItsWord
<1>. QED BY <1>2, <1>3 DEF IntentInv

\* What holds of every payload that is parsed, resolved, planned and executed.
THEOREM IntentInvariant == IntentSpec => []IntentInv
  BY IntentStarts, IntentKeeps, PTL DEF IntentSpec

\* The variables of the plan stay in their types.
THEOREM IntentTypeCorrect == IntentSpec => []IntentTypeOK
<1>1. IntentInv => IntentTypeOK
  BY DEF IntentInv
<1>. QED BY <1>1, IntentInvariant, PTL

\* The compiler and the executor agree, and what the user is asked to approve is
\* what the payload meant, for payloads of any number of operations and any
\* number of changes of the context by other tasks.
THEOREM PlanKeepsItsWordAlways == IntentSpec => []PlanKeepsItsWord
<1>1. IntentInv => PlanKeepsItsWord
  BY DEF IntentInv
<1>. QED BY <1>1, IntentInvariant, PTL

-----------------------------------------------------------------------------
(* The parts together.                                                      *)

\* The part that moves keeps its inductive invariant.
ConversationInv ==
    /\ moving \in {"runs", "plan", "route", "turn"}
    /\ moving = "runs" => WorkspaceInv
    /\ moving = "plan" => IntentInv
    /\ moving = "route" => RouteInv
    /\ moving = "turn" => TurnInv

\* Whichever part moves, it starts in one of its initial states.
LEMMA ConversationStarts == ConversationInit => ConversationInv
<1> SUFFICES ASSUME ConversationInit PROVE ConversationInv
  OBVIOUS
<1>1. moving \in {"runs", "plan", "route", "turn"}
  BY DEF ConversationInit
<1>2. /\ Init /\ IntentInit /\ RouteInit /\ TurnInit
  BY DEF ConversationInit
<1> QED
  BY <1>1, <1>2, InitGood, IntentStarts, RoutingStarts, TurnStarts DEF ConversationInv

\* Only the part that moves takes steps, and it keeps its own invariant.
LEMMA ConversationSteps == ConversationInv /\ [ConversationNext]_conversationVars => ConversationInv'
<1> SUFFICES ASSUME ConversationInv, [ConversationNext]_conversationVars PROVE ConversationInv'
  OBVIOUS
<1>1. moving' = moving
  BY DEF ConversationNext, conversationVars
<1>2. moving = "runs" => WorkspaceInv'
  <2>1. moving = "runs" => [Next]_vars
    BY DEF ConversationNext, conversationVars, vars
  <2> QED
    BY <2>1, NextGood DEF ConversationInv
<1>3. moving = "plan" => IntentInv'
  <2>1. moving = "plan" => [IntentNext]_intentVars
    BY DEF ConversationNext, conversationVars, intentVars
  <2> QED
    BY <2>1, IntentKeeps DEF ConversationInv
<1>4. moving = "route" => RouteInv'
  <2>1. moving = "route" => [RouteNext]_routeVars
    BY DEF ConversationNext, conversationVars, routeVars
  <2> QED
    BY <2>1, RoutingKeeps DEF ConversationInv
<1>5. moving = "turn" => TurnInv'
  <2>1. moving = "turn" => [TurnNext]_turnVars
    BY DEF ConversationNext, conversationVars, turnVars
  <2> QED
    BY <2>1, TurnKeeps DEF ConversationInv
<1> QED
  BY <1>1, <1>2, <1>3, <1>4, <1>5 DEF ConversationInv

\* The part of the way of a message that moves, the runs, the plan, the route or
\* the turn of the model, keeps its types.
THEOREM ConversationTypeCorrect == ConversationSpec => []ConversationTypeOK
<1>1. ConversationInv => ConversationTypeOK
  <2> SUFFICES ASSUME ConversationInv PROVE ConversationTypeOK
    OBVIOUS
  <2>1. moving = "runs" => TypeOK
    BY DEF ConversationInv, WorkspaceInv, Types, SlotsBalanced, Holders, TypeOK
  <2>2. moving = "plan" => IntentTypeOK
    BY DEF ConversationInv, IntentInv
  <2>3. moving = "route" => RouteTypeOK
    BY DEF ConversationInv, RouteInv
  <2>4. moving = "turn" => TurnTypeOK
    BY DEF ConversationInv, TurnInv
  <2> QED
    BY <2>1, <2>2, <2>3, <2>4 DEF ConversationInv, ConversationTypeOK
<1> QED
  BY <1>1, ConversationStarts, ConversationSteps, PTL DEF ConversationSpec

===============================================================================
