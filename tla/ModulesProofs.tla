----------------------------- MODULE ModulesProofs -----------------------------
(***************************************************************************)
(* Proofs about three of the daemon's modules, the file operations, the    *)
(* software manager and the security center, which share nothing but the   *)
(* user.                                                                   *)
(***************************************************************************)
EXTENDS MCModules, PanelProofs, FiniteSetTheorems, TLAPS

-----------------------------------------------------------------------------
(***************************************************************************)
(* Proofs about FileOperations, for any number of items and of steps of    *)
(* the user's: what a plan says in the end is what was done to the items.  *)
(*                                                                         *)
(* The invariant says, for each step of the thread, which of the items     *)
(* that the user has left alone have been moved and which are at home: the *)
(* first ones have been moved, up to the item the thread is at, and the    *)
(* undo takes them back from the last one.                                 *)
(***************************************************************************)

Early == {"verify", "destination", "targets"}
Forward == {"move", "replace", "info"}
Backward == {"unlink", "undo", "restore"}

Reason == {"destination_exists", "move_failed", "trash_failed"}
Errors == {"none", "plan_expired", "selection_changed", "filesystem_operation_failed",
           "destination_inside_source", "rename_is_noop", "rollback_failed"} \cup Reason

(* The types, of the whole records.                                        *)

RequestType ==
    request \in [kind : {"move", "rename", "trash", "create"}, policy : {"fail", "rename"},
                 directory : BOOLEAN]

PlanType ==
    plan \in [state : {"prepared", "committing", "committed", "cancelled", "failed", "lost"},
              error : Errors]

PlacesType ==
    /\ home \in [Item -> Content] /\ dest \in [Item -> [Name -> Content]]
    /\ folder \in BOOLEAN /\ info \in [Item -> {"none", "partial", "full"}]

WorkType ==
    work \in [step : {"rest"} \cup Early \cup Forward \cup Backward,
              item : 0 .. Cardinality(Item) + 1, target : [Item -> Name], made : BOOLEAN,
              failures : BOOLEAN, error : {"none"} \cup Reason]

UserType ==
    user \in [touched : SUBSET Item, raced : BOOLEAN, clobbered : BOOLEAN, abandoned : BOOLEAN,
              steps : 0 .. MaxUserSteps]

Typed == RequestType /\ PlanType /\ PlacesType /\ WorkType /\ UserType

\* The thread works on a plan that is being committed, and on an item that its
\* step can be about.
PhaseOK ==
    /\ plan.error # "none" => plan.state = "failed"
    /\ work.step # "rest" => plan.state = "committing"
    /\ work.step = "move" => work.item \in 1 .. Cardinality(Item) + 1
    /\ work.step \in {"replace", "info"} => work.item \in Selected
    /\ work.step \in {"unlink", "undo"} => work.item \in {0} \cup Selected
    /\ work.step = "restore" => work.item \in Selected

\* What a rename is about to replace was seen to be free, and is unless the user
\* was faster.
RaceOK ==
    /\ work.step = "replace" /\ ~user.raced => Absent(work.item)
    /\ work.step = "restore" /\ ~user.raced => Vacant(work.item)
    /\ user.clobbered => user.raced

AtHome(i) == home[i] = "item"
Moved(i) == dest[i][work.target[i]] = "item"

\* The selected items up to one have been moved, and the others are at home.
MovedUpTo(last) ==
    \A i \in Item \ user.touched :
        IF i \in Selected /\ i <= last THEN Moved(i) ELSE AtHome(i)

\* The last item that the thread has moved and not yet taken back.
Reached == IF work.step \in {"move", "replace"} THEN work.item - 1 ELSE work.item

\* Where the items are that the user has left alone.
PlacesOK ==
    /\ plan.state = "prepared" \/ work.step \in Early =>
          \A i \in Item \ user.touched : AtHome(i)
    /\ work.step \in Forward \/ (work.step \in Backward /\ ~work.failures) => MovedUpTo(Reached)
    /\ work.step \in Forward /\ request.kind = "trash" =>
          \A i \in Selected \ user.touched : i < work.item => info[i] = "full"

FilesInv == Typed /\ PhaseOK /\ RaceOK /\ PlacesOK /\ PlanHonest

-----------------------------------------------------------------------------
(* Facts about the helpers.                                                *)

\* The items are numbered from 1.
LEMMA ItemFacts ==
    /\ Cardinality(Item) \in Nat \ {0} /\ 1 \in Item
    /\ \A i : i \in Item <=> i \in 1 .. Cardinality(Item)
<1>1. Cardinality(Item) \in Nat /\ Item = 1 .. Cardinality(Item) /\ Item # {}
  BY ItemAssumption, FS_CardinalityType
<1> QED
  BY <1>1

\* The selection is none, the first or all of the items, and does not change with
\* the plan.
LEMMA SelectedFacts ==
    /\ Selected \subseteq Item
    /\ \A i \in Selected : i - 1 \in {0} \cup Selected
    /\ request' = request => Selected' = Selected
BY ItemFacts DEF Selected

\* The whole records are of the types that the model states.
LEMMA TypedIsTypeOK == Typed /\ PhaseOK => FilesTypeOK
BY DEF Typed, PhaseOK, FilesTypeOK, RequestType, PlanType, PlacesType, WorkType, UserType

\* Step(s) changes nothing but the step.
LEMMA StepFacts ==
    ASSUME WorkType, NEW s \in {"rest"} \cup Early \cup Forward \cup Backward, Step(s)
    PROVE  /\ WorkType' /\ work'.step = s
           /\ work'.item = work.item /\ work'.target = work.target
           /\ work'.failures = work.failures
BY DEF Step, WorkType

\* Failed(e) ends the plan and the thread.
LEMMA FailedFacts ==
    ASSUME WorkType, NEW e \in Errors, Failed(e)
    PROVE  /\ WorkType' /\ PlanType' /\ plan'.state = "failed" /\ plan'.error = e
           /\ work'.step = "rest" /\ work'.target = work.target
<1>1. Step("rest") /\ plan' = [state |-> "failed", error |-> e]
  BY DEF Failed
<1>2. WorkType' /\ work'.step = "rest" /\ work'.target = work.target
  BY <1>1, StepFacts
<1> QED
  BY <1>1, <1>2 DEF PlanType

\* Undo(last, e) turns round at an item.
LEMMA UndoFacts ==
    ASSUME WorkType, NEW last \in 0 .. Cardinality(Item), NEW e \in Reason, Undo(last, e)
    PROVE  /\ WorkType' /\ work'.step \in {"unlink", "undo"} /\ work'.item = last
           /\ work'.target = work.target
<1>1. last \in 0 .. Cardinality(Item) + 1
  BY ItemFacts
<1> QED
  BY <1>1 DEF Undo, WorkType, Backward

\* A step before the first move, in which nothing moves.
LEMMA EarlyKeeps ==
    ASSUME FilesInv, NEW s \in Early, Step(s), UNCHANGED <<request, home, dest, user>>,
           PlacesType', PlanType', plan'.state = "committing", plan'.error = "none",
           plan.state = "prepared" \/ work.step \in Early
    PROVE  FilesInv'
<1>1. /\ WorkType' /\ work'.step = s
  BY StepFacts DEF FilesInv, Typed
<1>2. Typed'
  BY <1>1 DEF FilesInv, Typed, RequestType, UserType
<1>3. PhaseOK'
  BY <1>1 DEF PhaseOK, Early
<1>4. RaceOK'
  BY <1>1 DEF FilesInv, RaceOK, Early
<1>5. PlacesOK'
  BY <1>1 DEF FilesInv, PlacesOK, Early, Forward, Backward, AtHome
<1>6. PlanHonest'
  BY <1>1 DEF FilesInv, PlanHonest
<1> QED
  BY <1>2, <1>3, <1>4, <1>5, <1>6 DEF FilesInv

\* The plan fails with everything at home, or says that the undo failed.
LEMMA FailureKeeps ==
    ASSUME FilesInv, NEW e \in Errors, Failed(e), UNCHANGED <<request, home, dest>>,
           PlacesType', UserType',
           user'.touched = user.touched /\ user'.raced = user.raced
           /\ user'.clobbered = user.clobbered,
           \/ e = "rollback_failed" \/ user'.abandoned
           \/ \A i \in Item \ user.touched : AtHome(i)
    PROVE  FilesInv'
<1>1. /\ WorkType' /\ PlanType' /\ plan'.state = "failed" /\ plan'.error = e
      /\ work'.step = "rest"
  BY FailedFacts DEF FilesInv, Typed
<1>2. Typed'
  BY <1>1 DEF FilesInv, Typed, RequestType
<1>3. PhaseOK'
  BY <1>1 DEF PhaseOK
<1>4. RaceOK'
  BY <1>1 DEF FilesInv, RaceOK
<1>5. PlacesOK'
  BY <1>1 DEF PlacesOK, Early, Forward, Backward
<1>6. PlanHonest'
  BY <1>1 DEF FilesInv, PlanHonest, RaceOK, AtHome
<1> QED
  BY <1>2, <1>3, <1>4, <1>5, <1>6 DEF FilesInv

\* The thread turns round; nothing moves.
LEMMA TurnKeeps ==
    ASSUME FilesInv, NEW last \in {0} \cup Selected, NEW e \in Reason, Undo(last, e),
           work.step \in Forward, MovedUpTo(last),
           UNCHANGED <<request, plan, home, dest, user>>, PlacesType'
    PROVE  FilesInv'
<1>1. /\ WorkType' /\ work'.step \in {"unlink", "undo"} /\ work'.item = last
      /\ work'.target = work.target
  <2>1. last \in 0 .. Cardinality(Item)
    BY ItemFacts, SelectedFacts
  <2> QED
    BY <2>1, UndoFacts DEF FilesInv, Typed
<1>2. plan.state = "committing" /\ work.step # "rest"
  BY DEF FilesInv, PhaseOK, Forward
<1>3. Typed'
  BY <1>1 DEF FilesInv, Typed, RequestType, PlanType, UserType
<1>4. PhaseOK'
  BY <1>1, <1>2, SelectedFacts DEF FilesInv, PhaseOK
<1>5. RaceOK'
  BY <1>1 DEF FilesInv, RaceOK
<1>6. MovedUpTo(last)'
  BY <1>1, SelectedFacts DEF MovedUpTo, Moved, AtHome
<1>7. Reached' = last
  BY <1>1 DEF Reached
<1>8. PlacesOK'
  BY <1>1, <1>2, <1>6, <1>7 DEF PlacesOK, Early, Forward, Backward, MovedUpTo, AtHome, Moved
<1>9. PlanHonest'
  BY <1>2 DEF FilesInv, PlanHonest
<1> QED
  BY <1>3, <1>4, <1>5, <1>8, <1>9 DEF FilesInv

-----------------------------------------------------------------------------
(* The steps.                                                              *)

\* A prepared plan has all items at home, and nothing is committed yet.
LEMMA InitFiles == FilesInit => FilesInv
<1> SUFFICES ASSUME FilesInit PROVE FilesInv
  OBVIOUS
<1>1. Typed
  <2>1. RequestType
    <3>1. CASE request \in [kind : {"move", "rename", "trash", "create"}, policy : {"fail", "rename"},
                            directory : BOOLEAN]
      BY <3>1 DEF RequestType
    <3>2. ASSUME NEW p \in {"fail", "rename"},
                 request = [kind |-> "move", policy |-> p, directory |-> FALSE]
          PROVE  RequestType
      BY <3>2 DEF RequestType
    <3> QED
      BY <3>1, <3>2 DEF FilesInit
  <2>2. PlanType
    BY DEF FilesInit, PlanType, Errors
  <2>3. PlacesType
    BY DEF FilesInit, PlacesType, Content, Name
  <2>4. WorkType
    BY ItemFacts DEF FilesInit, WorkType, Name
  <2>5. UserType
    BY StepsAssumption DEF FilesInit, UserType
  <2> QED
    BY <2>1, <2>2, <2>3, <2>4, <2>5 DEF Typed
<1>2. PhaseOK /\ RaceOK /\ PlanHonest
  BY DEF FilesInit, PhaseOK, RaceOK, PlanHonest
<1>3. PlacesOK
  BY DEF FilesInit, PlacesOK, Early, Forward, Backward, AtHome
<1> QED
  BY <1>1, <1>2, <1>3 DEF FilesInv

\* A plan that is cancelled or lost says nothing of its items any more.
LEMMA AbandonKeeps ==
    ASSUME FilesInv, CancelPlan \/ PlanLost
    PROVE  FilesInv'
<1>1. /\ UNCHANGED <<request, home, dest, folder, info, user>>
      /\ \E s \in {"cancelled", "lost"} : plan' = [plan EXCEPT !.state = s]
      /\ plan.state \in {"prepared", "committing"}
  BY DEF CancelPlan, PlanLost, places
<1>2. PlanType' /\ plan'.state \in {"cancelled", "lost"} /\ plan'.error = plan.error
  BY <1>1 DEF FilesInv, Typed, PlanType
<1>3. WorkType' /\ work'.step = "rest"
  <2>1. CASE CancelPlan
    BY <2>1 DEF CancelPlan, FilesInv, Typed, WorkType, PhaseOK
  <2>2. CASE PlanLost
    <3>1. Step("rest")
      BY <2>2 DEF PlanLost
    <3> QED
      BY <3>1, StepFacts DEF FilesInv, Typed
  <2> QED
    BY <2>1, <2>2
<1>4. Typed'
  BY <1>1, <1>2, <1>3 DEF FilesInv, Typed, RequestType, PlacesType, UserType
<1>5. PhaseOK'
  BY <1>1, <1>2, <1>3 DEF FilesInv, PhaseOK
<1>6. RaceOK' /\ PlanHonest'
  BY <1>1, <1>2, <1>3 DEF FilesInv, RaceOK, PlanHonest
<1>7. PlacesOK'
  BY <1>2, <1>3 DEF PlacesOK, Early, Forward, Backward
<1> QED
  BY <1>4, <1>5, <1>6, <1>7 DEF FilesInv

\* A plan is committed once; one whose time is over fails with all at home.
LEMMA CommitPlanKeeps ==
    ASSUME FilesInv, CommitPlan
    PROVE  FilesInv'
<1>1. /\ plan.state = "prepared" /\ plan.error = "none"
      /\ UNCHANGED <<request, home, dest, folder, info, user>>
  BY DEF CommitPlan, places, FilesInv, PhaseOK
<1>2. PlacesType' /\ UserType'
  BY <1>1 DEF FilesInv, Typed, PlacesType, UserType
<1>3. CASE plan' = [plan EXCEPT !.state = "committing"] /\ Step("verify")
  <2>1. PlanType' /\ plan'.state = "committing" /\ plan'.error = "none"
    BY <1>1, <1>3 DEF FilesInv, Typed, PlanType
  <2> QED
    BY <1>1, <1>2, <1>3, <2>1, EarlyKeeps DEF Early
<1>4. CASE Failed("plan_expired")
  <2>1. \A i \in Item \ user.touched : AtHome(i)
    BY <1>1 DEF FilesInv, PlacesOK
  <2> QED
    BY <1>1, <1>2, <1>4, <2>1, FailureKeeps DEF Errors
<1> QED
  BY <1>3, <1>4 DEF CommitPlan

\* The sources are looked at and the directory is made before anything moves.
LEMMA PreparationKeeps ==
    ASSUME FilesInv, VerifySnapshots \/ Destination
    PROVE  FilesInv'
<1>1. /\ work.step \in {"verify", "destination"} /\ plan.state = "committing" /\ plan.error = "none"
      /\ UNCHANGED <<request, home, dest, info, user>> /\ folder' \in BOOLEAN
      /\ \A i \in Item \ user.touched : AtHome(i)
  BY DEF VerifySnapshots, Destination, places, FilesInv, PhaseOK, PlacesOK, Early, Typed,
         PlacesType
<1>2. PlacesType' /\ UserType'
  BY <1>1 DEF FilesInv, Typed, PlacesType, UserType
<1>3. ASSUME NEW s \in Early, Step(s), UNCHANGED plan PROVE FilesInv'
  BY <1>1, <1>2, <1>3, EarlyKeeps DEF FilesInv, Typed, PlanType, Early
<1>4. ASSUME NEW e \in Errors, Failed(e) PROVE FilesInv'
  BY <1>1, <1>2, <1>4, FailureKeeps
<1>5. CASE Step("rest") /\ UNCHANGED plan
  <2>1. WorkType' /\ work'.step = "rest"
    BY <1>5, StepFacts DEF FilesInv, Typed
  <2>2. Typed'
    BY <1>1, <1>2, <1>5, <2>1 DEF FilesInv, Typed, RequestType, PlanType
  <2>3. PhaseOK' /\ RaceOK' /\ PlacesOK' /\ PlanHonest'
    BY <1>1, <1>5, <2>1 DEF FilesInv, PhaseOK, RaceOK, PlacesOK, PlanHonest, Early, Forward,
       Backward
  <2> QED
    BY <2>2, <2>3 DEF FilesInv
<1>6. CASE work' = [work EXCEPT !.step = "targets", !.made = request.kind = "move"]
           /\ UNCHANGED plan
  <2>1. /\ WorkType' /\ work'.step = "targets"
    BY <1>6 DEF FilesInv, Typed, WorkType, Early
  <2>2. Typed'
    BY <1>1, <1>2, <1>6, <2>1 DEF FilesInv, Typed, RequestType, PlanType
  <2>3. PhaseOK' /\ RaceOK' /\ PlacesOK' /\ PlanHonest'
    BY <1>1, <1>6, <2>1 DEF FilesInv, PhaseOK, RaceOK, PlacesOK, PlanHonest, Early, Forward,
       Backward, AtHome
  <2> QED
    BY <2>2, <2>3 DEF FilesInv
<1>7. CASE VerifySnapshots
  BY <1>3, <1>4, <1>7 DEF VerifySnapshots, Early, Errors
<1>8. CASE Destination
  BY <1>3, <1>4, <1>5, <1>6, <1>8 DEF Destination, Early, Errors
<1> QED
  BY <1>7, <1>8

\* All names are chosen before the first move.
LEMMA TargetsKeeps ==
    ASSUME FilesInv, Targets
    PROVE  FilesInv'
<1>1. /\ work.step = "targets" /\ plan.state = "committing" /\ plan.error = "none"
      /\ UNCHANGED <<request, home, dest, info, user>> /\ folder' \in BOOLEAN
      /\ \A i \in Item \ user.touched : AtHome(i)
  BY DEF Targets, FilesInv, PhaseOK, PlacesOK, Early, Typed, PlacesType
<1>2. PlacesType' /\ UserType'
  BY <1>1 DEF FilesInv, Typed, PlacesType, UserType
<1>3. ASSUME NEW e \in Errors, Failed(e) PROVE FilesInv'
  BY <1>1, <1>2, <1>3, FailureKeeps
<1>4. CASE /\ work' = [work EXCEPT !.step = "move", !.item = 1,
                                   !.target = [i \in Item |-> Target(i)]]
           /\ UNCHANGED plan
  <2>1. [i \in Item |-> Target(i)] \in [Item -> Name]
    BY DEF Target, Name
  <2>2. WorkType' /\ work'.step = "move" /\ work'.item = 1
    <3>1. 1 \in 0 .. Cardinality(Item) + 1
      BY ItemFacts
    <3> QED
      BY <1>4, <2>1, <3>1 DEF FilesInv, Typed, WorkType, Forward
  <2>3. Typed'
    BY <1>1, <1>2, <1>4, <2>2 DEF FilesInv, Typed, RequestType, PlanType
  <2>4. PhaseOK'
    BY <1>1, <1>4, <2>2, ItemFacts DEF PhaseOK
  <2>5. RaceOK' /\ PlanHonest'
    BY <1>1, <1>4, <2>2 DEF FilesInv, RaceOK, PlanHonest
  <2>6. \A i \in Item : ~(i < 1) /\ ~(i <= 0)
    BY ItemFacts
  <2>7. Reached' = 0
    BY <2>2 DEF Reached
  <2>8. MovedUpTo(0)'
    BY <1>1, <2>6 DEF MovedUpTo, AtHome
  <2>9. PlacesOK'
    BY <1>1, <1>4, <2>2, <2>6, <2>7, <2>8, SelectedFacts
       DEF PlacesOK, Early, MovedUpTo, AtHome, Moved
  <2> QED
    BY <2>3, <2>4, <2>5, <2>9 DEF FilesInv
<1> QED
  BY <1>1, <1>3, <1>4 DEF Targets, Errors, Reason

\* A taken name begins the undo before this item; after the last one the plan is
\* committed.
LEMMA TestTargetKeeps ==
    ASSUME FilesInv, TestTarget
    PROVE  FilesInv'
<1>1. /\ work.step = "move" /\ plan.state = "committing" /\ plan.error = "none"
      /\ work.item \in 1 .. Cardinality(Item) + 1 /\ Cardinality(Item) \in Nat
      /\ UNCHANGED <<request, home, dest, folder, info, user>>
      /\ MovedUpTo(work.item - 1)
      /\ request.kind = "trash" =>
            \A i \in Selected \ user.touched : i < work.item => info[i] = "full"
  BY ItemFacts DEF TestTarget, places, FilesInv, PhaseOK, PlacesOK, Forward, Reached
<1>2. PlacesType' /\ UserType'
  BY <1>1 DEF FilesInv, Typed, PlacesType, UserType
<1>3. CASE work.item \in Selected /\ Absent(work.item) /\ Step("replace") /\ UNCHANGED plan
  <2>1. /\ WorkType' /\ work'.step = "replace" /\ work'.item = work.item
        /\ work'.target = work.target
    BY <1>3, StepFacts DEF FilesInv, Typed, Forward
  <2>2. Typed'
    BY <1>1, <1>2, <1>3, <2>1 DEF FilesInv, Typed, RequestType, PlanType
  <2>3. PhaseOK'
    BY <1>1, <1>3, <2>1, SelectedFacts DEF PhaseOK
  <2>4. RaceOK'
    BY <1>1, <1>3, <2>1 DEF FilesInv, RaceOK, Absent
  <2>5. MovedUpTo(work.item - 1)'
    BY <1>1, <2>1, SelectedFacts DEF MovedUpTo, Moved, AtHome
  <2>6. Reached' = work'.item - 1
    BY <2>1 DEF Reached
  <2>7. PlacesOK'
    BY <1>1, <1>3, <2>1, <2>5, <2>6, SelectedFacts DEF PlacesOK, Early, Forward, Backward
  <2>8. PlanHonest'
    BY <1>1, <1>3 DEF FilesInv, PlanHonest
  <2> QED
    BY <2>2, <2>3, <2>4, <2>7, <2>8 DEF FilesInv
<1>4. CASE /\ work.item \in Selected /\ Undo(work.item - 1, "destination_exists")
           /\ UNCHANGED plan
  <2>1. work.item - 1 \in {0} \cup Selected
    BY <1>4, SelectedFacts
  <2> QED
    BY <1>1, <1>2, <1>4, <2>1, TurnKeeps DEF Forward, Reason
<1>5. CASE work.item \notin Selected /\ plan' = [plan EXCEPT !.state = "committed"] /\ Step("rest")
  <2>1. WorkType' /\ work'.step = "rest" /\ work'.target = work.target
    BY <1>5, StepFacts DEF FilesInv, Typed
  <2>2. PlanType' /\ plan'.state = "committed" /\ plan'.error = "none"
    BY <1>1, <1>5 DEF FilesInv, Typed, PlanType
  <2>3. Typed'
    BY <1>1, <1>2, <2>1, <2>2 DEF FilesInv, Typed, RequestType
  <2>4. PhaseOK' /\ RaceOK' /\ PlacesOK'
    BY <1>1, <2>1, <2>2 DEF FilesInv, PhaseOK, RaceOK, PlacesOK, Early, Forward, Backward
  <2>5. \A i \in Selected : i < work.item
    <3> SUFFICES ASSUME NEW i \in Selected PROVE i < work.item
      OBVIOUS
    <3>1. CASE Selected = Item
      <4>1. work.item = Cardinality(Item) + 1
        BY <1>1, <1>5, <3>1, ItemFacts
      <4> QED
        BY <3>1, <4>1, ItemFacts
    <3>2. CASE Selected = {1}
      BY <1>1, <1>5, <3>2
    <3> QED
      BY <3>1, <3>2 DEF Selected
  <2>6. \A i \in Selected \ user.touched : Moved(i) /\ (request.kind = "trash" => info[i] = "full")
    <3>1. \A i \in Selected : i <= work.item - 1
      BY <1>1, <2>5, SelectedFacts, ItemFacts
    <3> QED
      BY <1>1, <2>5, <3>1, SelectedFacts DEF MovedUpTo
  <2>7. PlanHonest'
    BY <1>1, <2>1, <2>2, <2>6, SelectedFacts DEF FilesInv, PlanHonest, Moved
  <2> QED
    BY <2>3, <2>4, <2>7 DEF FilesInv
<1> QED
  BY <1>3, <1>4, <1>5 DEF TestTarget

\* The item arrives under its new name, unless the rename fails; what was there
\* by then was put there by the user.
LEMMA ReplaceKeeps ==
    ASSUME FilesInv, Replace
    PROVE  FilesInv'
<1>4. PICK i : i = work.item
  OBVIOUS
<1>5. PICK n : n = work.target[i]
  OBVIOUS
<1>1. /\ work.step = "replace" /\ plan.state = "committing" /\ plan.error = "none"
      /\ i \in Selected /\ i \in Item /\ n \in Name
      /\ i \in 1 .. Cardinality(Item) /\ Cardinality(Item) \in Nat
      /\ UNCHANGED <<request, plan, folder, info>>
      /\ MovedUpTo(i - 1)
      /\ request.kind = "trash" =>
            \A j \in Selected \ user.touched : j < i => info[j] = "full"
  BY <1>4, <1>5, ItemFacts, SelectedFacts
     DEF Replace, FilesInv, PhaseOK, PlacesOK, Forward, Reached, Typed,
     WorkType
<1>2. CASE Undo(i - 1, "move_failed") /\ UNCHANGED <<home, dest, user>>
  <2>1. i - 1 \in {0} \cup Selected
    BY <1>1, SelectedFacts
  <2>2. PlacesType'
    BY <1>1, <1>2 DEF FilesInv, Typed, PlacesType
  <2> QED
    BY <1>1, <1>2, <2>1, <2>2, TurnKeeps DEF Forward, Reason
<1>3. CASE /\ home[i] # "none"
           /\ dest' = [dest EXCEPT ![i][n] = home[i]]
           /\ home' = [home EXCEPT ![i] = "none"]
           /\ user' = [user EXCEPT !.clobbered = @ \/ dest[i][n] # "none"]
           /\ work' = IF request.kind = "trash" THEN [work EXCEPT !.step = "info"]
                      ELSE [work EXCEPT !.step = "move", !.item = i + 1]
  <2>1. /\ home \in [Item -> Content] /\ dest \in [Item -> [Name -> Content]] /\ home[i] \in Content
    BY <1>1 DEF FilesInv, Typed, PlacesType
  <2>2. /\ home' \in [Item -> Content] /\ dest' \in [Item -> [Name -> Content]]
        /\ dest'[i][n] = home[i]
        /\ \A j \in Item : j # i => home'[j] = home[j] /\ dest'[j] = dest[j]
    BY <1>1, <1>3, <2>1 DEF Content
  <2>3. PlacesType'
    BY <1>1, <2>2 DEF FilesInv, Typed, PlacesType
  <2>4. /\ UserType' /\ user'.touched = user.touched /\ user'.raced = user.raced
        /\ user'.clobbered => user.raced
    BY <1>1, <1>3, <1>4, <1>5 DEF FilesInv, Typed, UserType, RaceOK, Absent
  <2>5. /\ WorkType' /\ work'.target = work.target
        /\ IF request.kind = "trash" THEN work'.step = "info" /\ work'.item = i
           ELSE work'.step = "move" /\ work'.item = i + 1
    <3>1. i + 1 \in 0 .. Cardinality(Item) + 1
      BY <1>1
    <3>2. CASE request.kind = "trash"
      BY <1>3, <1>4, <3>2 DEF FilesInv, Typed, WorkType, Forward
    <3>3. CASE request.kind # "trash"
      BY <1>3, <3>1, <3>3 DEF FilesInv, Typed, WorkType, Forward
    <3> QED
      BY <3>2, <3>3
  <2>6. Typed'
    BY <1>1, <2>3, <2>4, <2>5 DEF FilesInv, Typed, RequestType, PlanType
  <2>7. PhaseOK'
    BY <1>1, <2>5, SelectedFacts DEF PhaseOK
  <2>8. RaceOK'
    BY <2>4, <2>5 DEF RaceOK
  <2>9. Reached' = i
    BY <1>1, <2>5 DEF Reached
  <2>10. MovedUpTo(i)'
    <3>1. ASSUME NEW j \in Item \ user.touched, j \in Selected, j <= i PROVE Moved(j)'
      <4>1. CASE j = i
        <5>1. AtHome(i)
          BY <1>1, <3>1, <4>1 DEF MovedUpTo
        <5>2. dest'[i][work'.target[i]] = "item"
          BY <1>5, <2>2, <2>5, <5>1 DEF AtHome
        <5> QED
          BY <4>1, <5>2 DEF Moved
      <4>2. CASE j # i
        <5>1. j <= i - 1
          BY <1>1, <3>1, <4>2, ItemFacts
        <5>2. Moved(j)
          BY <1>1, <3>1, <5>1 DEF MovedUpTo
        <5> QED
          BY <2>2, <2>5, <3>1, <4>2, <5>2 DEF Moved
      <4> QED
        BY <4>1, <4>2
    <3>2. ASSUME NEW j \in Item \ user.touched, ~(j \in Selected /\ j <= i) PROVE AtHome(j)'
      <4>1. j # i /\ ~(j <= i - 1 /\ j \in Selected)
        BY <1>1, <3>2, ItemFacts
      <4>2. AtHome(j)
        BY <1>1, <4>1 DEF MovedUpTo
      <4> QED
        BY <2>2, <4>1, <4>2 DEF AtHome
    <3> QED
      BY <1>1, <2>4, <3>1, <3>2, SelectedFacts DEF MovedUpTo
  <2>11. PlacesOK'
    BY <1>1, <2>4, <2>5, <2>9, <2>10, SelectedFacts
       DEF PlacesOK, Early, MovedUpTo, AtHome, Moved
  <2>12. PlanHonest'
    BY <1>1, <2>4 DEF PlanHonest
  <2> QED
    BY <2>6, <2>7, <2>8, <2>11, <2>12 DEF FilesInv
<1> QED
  BY <1>1, <1>2, <1>3, <1>4, <1>5 DEF Replace

\* An item in the trash gets its note, or the undo begins with it.
LEMMA WriteInfoKeeps ==
    ASSUME FilesInv, WriteInfo
    PROVE  FilesInv'
<1>1. PICK i : i = work.item
  OBVIOUS
<1>2. /\ work.step = "info" /\ plan.state = "committing" /\ plan.error = "none"
      /\ i \in Selected /\ i \in Item
      /\ i \in 1 .. Cardinality(Item) /\ Cardinality(Item) \in Nat
      /\ UNCHANGED <<request, plan, home, dest, folder, user>>
      /\ MovedUpTo(i)
      /\ request.kind = "trash" =>
            \A j \in Selected \ user.touched : j < i => info[j] = "full"
  BY <1>1, ItemFacts, SelectedFacts DEF WriteInfo, FilesInv, PhaseOK, PlacesOK, Forward, Reached,
     Typed, WorkType
<1>3. ASSUME NEW left \in {"none", "partial"}, info' = [info EXCEPT ![i] = left],
             Undo(i, "trash_failed")
      PROVE  FilesInv'
  <2>1. i \in {0} \cup Selected
    BY <1>2
  <2>2. PlacesType'
    BY <1>2, <1>3 DEF FilesInv, Typed, PlacesType
  <2> QED
    BY <1>2, <1>3, <2>1, <2>2, TurnKeeps DEF Forward, Reason
<1>4. CASE /\ info' = [info EXCEPT ![i] = "full"]
           /\ work' = [work EXCEPT !.step = "move", !.item = @ + 1]
  <2>1. PlacesType' /\ info'[i] = "full" /\ \A j \in Item : j # i => info'[j] = info[j]
    BY <1>2, <1>4 DEF FilesInv, Typed, PlacesType
  <2>2. WorkType' /\ work'.step = "move" /\ work'.item = i + 1 /\ work'.target = work.target
    <3>1. i + 1 \in 0 .. Cardinality(Item) + 1
      BY <1>2
    <3> QED
      BY <1>1, <1>4, <3>1 DEF FilesInv, Typed, WorkType, Forward
  <2>3. Typed'
    BY <1>2, <2>1, <2>2 DEF FilesInv, Typed, RequestType, PlanType, UserType
  <2>4. PhaseOK'
    BY <1>2, <2>2 DEF PhaseOK
  <2>5. RaceOK' /\ PlanHonest'
    BY <1>2, <2>2 DEF FilesInv, RaceOK, PlanHonest
  <2>6. Reached' = i
    BY <1>2, <2>2 DEF Reached
  <2>7. MovedUpTo(i)'
    BY <1>2, <2>2, SelectedFacts DEF MovedUpTo, Moved, AtHome
  <2>8. \A j \in Selected \ user.touched : request.kind = "trash" /\ j < i + 1 => info'[j] = "full"
    <3> SUFFICES ASSUME NEW j \in Selected \ user.touched, request.kind = "trash", j < i + 1
                 PROVE  info'[j] = "full"
      OBVIOUS
    <3>1. j = i \/ (j < i /\ j # i)
      BY <1>2, ItemFacts, SelectedFacts
    <3> QED
      BY <1>2, <2>1, <3>1, SelectedFacts
  <2>9. PlacesOK'
    BY <1>2, <2>2, <2>6, <2>7, <2>8, SelectedFacts
       DEF PlacesOK, Early, MovedUpTo, AtHome, Moved
  <2> QED
    BY <2>3, <2>4, <2>5, <2>9 DEF FilesInv
<1> QED
  BY <1>1, <1>2, <1>3, <1>4 DEF WriteInfo

\* Before the items go back their notes are removed.
LEMMA UnlinkInfoKeeps ==
    ASSUME FilesInv, UnlinkInfo
    PROVE  FilesInv'
<1>1. /\ work.step = "unlink" /\ plan.state = "committing" /\ plan.error = "none"
      /\ work.item \in {0} \cup Selected
      /\ UNCHANGED <<request, home, dest, folder>>
      /\ info' \in [Item -> {"none", "partial", "full"}]
  BY DEF UnlinkInfo, FilesInv, PhaseOK, Typed, PlacesType
<1>2. PlacesType'
  BY <1>1 DEF FilesInv, Typed, PlacesType
<1>3. CASE Step("undo") /\ UNCHANGED <<plan, user>>
  <2>1. /\ WorkType' /\ work'.step = "undo" /\ work'.item = work.item
        /\ work'.target = work.target /\ work'.failures = work.failures
    BY <1>3, StepFacts DEF FilesInv, Typed, Backward
  <2>2. Typed'
    BY <1>1, <1>2, <1>3, <2>1 DEF FilesInv, Typed, RequestType, PlanType, UserType
  <2>3. PhaseOK' /\ RaceOK' /\ PlanHonest'
    BY <1>1, <1>3, <2>1, SelectedFacts DEF FilesInv, PhaseOK, RaceOK, PlanHonest
  <2>4. Reached' = work.item /\ Reached = work.item
    BY <1>1, <2>1 DEF Reached
  <2>5. PlacesOK'
    BY <1>1, <1>3, <2>1, <2>4, SelectedFacts
       DEF FilesInv, PlacesOK, Early, Forward, Backward, MovedUpTo, AtHome, Moved
  <2> QED
    BY <2>2, <2>3, <2>5 DEF FilesInv
<1>4. CASE Failed("filesystem_operation_failed") /\ user' = [user EXCEPT !.abandoned = TRUE]
  <2>1. /\ UserType' /\ user'.touched = user.touched /\ user'.raced = user.raced
        /\ user'.clobbered = user.clobbered /\ user'.abandoned
    BY <1>4 DEF FilesInv, Typed, UserType
  <2> QED
    BY <1>1, <1>2, <1>4, <2>1, FailureKeeps DEF Errors
<1> QED
  BY <1>3, <1>4 DEF UnlinkInfo

\* The undo passes on from an item it cannot take back, and ends at 0.
LEMMA TestHomeKeeps ==
    ASSUME FilesInv, TestHome
    PROVE  FilesInv'
<1>1. PICK i : i = work.item
  OBVIOUS
<1>2. /\ work.step = "undo" /\ plan.state = "committing" /\ plan.error = "none"
      /\ i \in {0} \cup Selected /\ i \in 0 .. Cardinality(Item) /\ Cardinality(Item) \in Nat
      /\ UNCHANGED <<request, home, dest, info, user>> /\ folder' \in BOOLEAN
      /\ ~work.failures => MovedUpTo(i)
      /\ work.error \in Errors
  BY <1>1, ItemFacts, SelectedFacts
     DEF TestHome, FilesInv, PhaseOK, PlacesOK, Backward, Reached, Typed, WorkType,
     PlacesType, Errors
<1>3. PlacesType' /\ UserType'
  BY <1>2 DEF FilesInv, Typed, PlacesType, UserType
<1>4. CASE i > 0 /\ Vacant(i) /\ work' = [work EXCEPT !.step = "restore"] /\ UNCHANGED plan
  <2>1. /\ WorkType' /\ work'.step = "restore" /\ work'.item = i
        /\ work'.target = work.target /\ work'.failures = work.failures
    BY <1>1, <1>4, StepFacts DEF Step, FilesInv, Typed, Backward
  <2>2. Typed'
    BY <1>2, <1>3, <1>4, <2>1 DEF FilesInv, Typed, RequestType, PlanType
  <2>3. PhaseOK'
    BY <1>2, <1>4, <2>1, SelectedFacts DEF PhaseOK
  <2>4. RaceOK' /\ PlanHonest'
    BY <1>2, <1>4, <2>1 DEF FilesInv, RaceOK, PlanHonest, Vacant
  <2>5. Reached' = i
    BY <2>1 DEF Reached
  <2>6. PlacesOK'
    BY <1>2, <1>4, <2>1, <2>5, SelectedFacts
       DEF PlacesOK, Early, Forward, MovedUpTo, AtHome, Moved
  <2> QED
    BY <2>2, <2>3, <2>4, <2>6 DEF FilesInv
<1>5. CASE i > 0 /\ work' = [work EXCEPT !.item = @ - 1, !.failures = TRUE] /\ UNCHANGED plan
  <2>1. WorkType' /\ work'.step = "undo" /\ work'.item = i - 1 /\ work'.failures
    <3>1. i - 1 \in 0 .. Cardinality(Item) + 1
      BY <1>2, <1>5
    <3> QED
      BY <1>1, <1>2, <1>5, <3>1 DEF FilesInv, Typed, WorkType
  <2>2. Typed'
    BY <1>2, <1>3, <1>5, <2>1 DEF FilesInv, Typed, RequestType, PlanType
  <2>3. PhaseOK'
    <3>1. i - 1 \in {0} \cup Selected
      BY <1>2, <1>5, SelectedFacts
    <3> QED
      BY <1>2, <1>5, <2>1, <3>1, SelectedFacts DEF PhaseOK
  <2>4. RaceOK' /\ PlanHonest'
    BY <1>2, <1>5, <2>1 DEF FilesInv, RaceOK, PlanHonest
  <2>5. PlacesOK'
    BY <1>2, <1>5, <2>1 DEF PlacesOK, Early, Forward
  <2> QED
    BY <2>2, <2>3, <2>4, <2>5 DEF FilesInv
<1>6. CASE work.failures /\ Failed("rollback_failed")
  BY <1>2, <1>3, <1>6, FailureKeeps DEF Errors
<1>7. CASE i <= 0 /\ ~work.failures /\ Failed(work.error)
  <2>1. \A j \in Item : ~(j <= i)
    BY <1>2, <1>7, ItemFacts
  <2>2. \A j \in Item \ user.touched : AtHome(j)
    BY <1>2, <1>7, <2>1 DEF MovedUpTo
  <2> QED
    BY <1>2, <1>3, <1>7, <2>2, FailureKeeps
<1>8. i > 0 \/ i <= 0
  BY <1>2
<1> QED
  BY <1>1, <1>2, <1>4, <1>5, <1>6, <1>7, <1>8 DEF TestHome

\* One item goes back, to where nothing was unless the user was faster.
LEMMA RestoreKeeps ==
    ASSUME FilesInv, Restore
    PROVE  FilesInv'
<1>1. PICK i : i = work.item
  OBVIOUS
<1>2. PICK n : n = work.target[i]
  OBVIOUS
<1>3. /\ work.step = "restore" /\ plan.state = "committing" /\ plan.error = "none"
      /\ i \in Selected /\ i \in Item /\ n \in Name
      /\ i \in 1 .. Cardinality(Item) /\ Cardinality(Item) \in Nat
      /\ UNCHANGED <<request, plan, folder, info>>
      /\ ~work.failures => MovedUpTo(i)
  BY <1>1, <1>2, ItemFacts, SelectedFacts
     DEF Restore, FilesInv, PhaseOK, PlacesOK, Backward, Reached, Typed,
     WorkType
<1>4. i - 1 \in {0} \cup Selected /\ i - 1 \in 0 .. Cardinality(Item) + 1
  BY <1>3, SelectedFacts
<1>5. CASE /\ work' = [work EXCEPT !.step = "undo", !.item = @ - 1, !.failures = TRUE]
           /\ UNCHANGED <<home, dest, user>>
  <2>1. WorkType' /\ work'.step = "undo" /\ work'.item = i - 1 /\ work'.failures
    BY <1>1, <1>3, <1>4, <1>5 DEF FilesInv, Typed, WorkType, Backward
  <2>2. Typed'
    BY <1>3, <1>5, <2>1 DEF FilesInv, Typed, RequestType, PlanType, PlacesType, UserType
  <2>3. PhaseOK'
    BY <1>3, <1>4, <1>5, <2>1, SelectedFacts DEF PhaseOK
  <2>4. RaceOK' /\ PlanHonest'
    BY <1>3, <1>5, <2>1 DEF FilesInv, RaceOK, PlanHonest
  <2>5. PlacesOK'
    BY <1>3, <1>5, <2>1 DEF PlacesOK, Early, Forward
  <2> QED
    BY <2>2, <2>3, <2>4, <2>5 DEF FilesInv
<1>6. CASE /\ dest[i][n] # "none"
           /\ home' = [home EXCEPT ![i] = dest[i][n]]
           /\ dest' = [dest EXCEPT ![i][n] = "none"]
           /\ user' = [user EXCEPT !.clobbered = @ \/ home[i] # "none"]
           /\ work' = [work EXCEPT !.step = "undo", !.item = @ - 1]
  <2>1. /\ home \in [Item -> Content] /\ dest \in [Item -> [Name -> Content]]
        /\ dest[i][n] \in Content
    BY <1>3 DEF FilesInv, Typed, PlacesType
  <2>2. /\ home' \in [Item -> Content] /\ dest' \in [Item -> [Name -> Content]]
        /\ home'[i] = dest[i][n]
        /\ \A j \in Item : j # i => home'[j] = home[j] /\ dest'[j] = dest[j]
    BY <1>3, <1>6, <2>1 DEF Content
  <2>3. PlacesType'
    BY <1>3, <2>2 DEF FilesInv, Typed, PlacesType
  <2>4. /\ UserType' /\ user'.touched = user.touched /\ user'.raced = user.raced
        /\ user'.clobbered => user.raced
    BY <1>1, <1>3, <1>6 DEF FilesInv, Typed, UserType, RaceOK, Vacant
  <2>5. /\ WorkType' /\ work'.target = work.target /\ work'.step = "undo" /\ work'.item = i - 1
        /\ work'.failures = work.failures
    BY <1>1, <1>3, <1>4, <1>6 DEF FilesInv, Typed, WorkType, Backward
  <2>6. Typed'
    BY <1>3, <2>3, <2>4, <2>5 DEF FilesInv, Typed, RequestType, PlanType
  <2>7. PhaseOK'
    BY <1>3, <1>4, <2>5, SelectedFacts DEF PhaseOK
  <2>8. RaceOK'
    BY <2>4, <2>5 DEF RaceOK
  <2>9. Reached' = i - 1
    BY <2>5 DEF Reached
  <2>10. ~work.failures => MovedUpTo(i - 1)'
    <3>1. ASSUME ~work.failures, NEW j \in Item \ user.touched, j \in Selected, j <= i - 1
          PROVE  Moved(j)'
      <4>1. j # i /\ j <= i
        BY <1>3, <3>1, ItemFacts
      <4>2. Moved(j)
        BY <1>3, <3>1, <4>1 DEF MovedUpTo
      <4> QED
        BY <2>2, <2>5, <3>1, <4>1, <4>2 DEF Moved
    <3>2. ASSUME ~work.failures, NEW j \in Item \ user.touched, ~(j \in Selected /\ j <= i - 1)
          PROVE  AtHome(j)'
      <4>1. CASE j = i
        <5>1. i <= i
          BY <1>3
        <5>2. Moved(i)
          BY <1>3, <3>2, <4>1, <5>1 DEF MovedUpTo
        <5> QED
          BY <1>2, <2>2, <4>1, <5>2 DEF Moved, AtHome
      <4>2. CASE j # i
        <5>1. ~(j <= i /\ j \in Selected)
          BY <1>3, <3>2, <4>2, ItemFacts
        <5>2. AtHome(j)
          BY <1>3, <3>2, <5>1 DEF MovedUpTo
        <5> QED
          BY <2>2, <3>2, <4>2, <5>2 DEF AtHome
      <4> QED
        BY <4>1, <4>2
    <3> QED
      BY <1>3, <2>4, <3>1, <3>2, SelectedFacts DEF MovedUpTo
  <2>11. PlacesOK'
    BY <1>3, <2>4, <2>5, <2>9, <2>10, SelectedFacts
       DEF PlacesOK, Early, Forward, MovedUpTo, AtHome, Moved
  <2>12. PlanHonest'
    BY <1>3, <2>4 DEF PlanHonest
  <2> QED
    BY <2>6, <2>7, <2>8, <2>11, <2>12 DEF FilesInv
<1> QED
  BY <1>1, <1>2, <1>3, <1>5, <1>6 DEF Restore

\* What the user takes is touched from then on.
LEMMA UserTakesKeeps ==
    ASSUME FilesInv, NEW i \in Item, UserTakes(i)
    PROVE  FilesInv'
<1>1. /\ UNCHANGED <<request, plan, folder, info, work>> /\ Touch(i)
      /\ home \in [Item -> Content] /\ dest \in [Item -> [Name -> Content]]
  BY DEF UserTakes, FilesInv, Typed, PlacesType
<1>2. /\ home' \in [Item -> Content] /\ dest' \in [Item -> [Name -> Content]]
      /\ \A j \in Item : j # i => home'[j] = home[j] /\ dest'[j] = dest[j]
      /\ home[i] = "none" => home'[i] = "none"
      /\ \A n \in Name : dest[i][n] = "none" => dest'[i][n] = "none"
  BY <1>1 DEF UserTakes, Content
<1>3. /\ UserType' /\ user'.touched = user.touched \cup {i} /\ user'.raced = user.raced
      /\ user'.clobbered = user.clobbered /\ user'.abandoned = user.abandoned
  <2>1. user.steps + 1 \in 0 .. MaxUserSteps /\ user.touched \cup {i} \in SUBSET Item
    BY StepsAssumption DEF UserTakes, UserStep, FilesInv, Typed, UserType
  <2> QED
    BY <1>1, <2>1 DEF Touch, FilesInv, Typed, UserType
<1>4. Typed'
  BY <1>1, <1>2, <1>3 DEF FilesInv, Typed, RequestType, PlanType, PlacesType, WorkType
<1>5. PhaseOK'
  BY <1>1, SelectedFacts DEF FilesInv, PhaseOK
<1>6. RaceOK'
  <2>1. work.step = "replace" => work.item \in Item /\ work.target[work.item] \in Name
    BY SelectedFacts DEF FilesInv, PhaseOK, Typed, WorkType
  <2>2. work.step = "restore" => work.item \in Item
    BY SelectedFacts DEF FilesInv, PhaseOK
  <2> QED
    BY <1>1, <1>2, <1>3, <2>1, <2>2 DEF FilesInv, RaceOK, Absent, Vacant
<1>7. Reached' = Reached
  BY <1>1 DEF Reached
<1>8. PlacesOK'
  BY <1>1, <1>2, <1>3, <1>7, SelectedFacts DEF FilesInv, PlacesOK, MovedUpTo, AtHome, Moved
<1>9. PlanHonest'
  BY <1>1, <1>2, <1>3, SelectedFacts DEF FilesInv, PlanHonest
<1> QED
  BY <1>4, <1>5, <1>6, <1>8, <1>9 DEF FilesInv

\* The user creates a file where there is nothing, which is a race when the
\* thread has seen the same place free and has not yet used it.
LEMMA UserCreatesKeeps ==
    ASSUME FilesInv, NEW i \in Item, UserCreates(i)
    PROVE  FilesInv'
<1>1. /\ UNCHANGED <<request, plan, folder, info, work>>
      /\ home \in [Item -> Content] /\ dest \in [Item -> [Name -> Content]]
  BY DEF UserCreates, FilesInv, Typed, PlacesType
<1>2. /\ home' \in [Item -> Content] /\ dest' \in [Item -> [Name -> Content]]
      /\ \A j \in Item : home[j] = "item" => home'[j] = "item"
      /\ \A j \in Item, n \in Name : dest[j][n] = "item" => dest'[j][n] = "item"
  <2>1. CASE home[i] = "none" /\ home' = [home EXCEPT ![i] = "user"] /\ UNCHANGED dest
    BY <1>1, <2>1 DEF Content
  <2>2. ASSUME NEW n \in Name, dest[i][n] = "none", dest' = [dest EXCEPT ![i][n] = "user"],
               UNCHANGED home
        PROVE  /\ dest' \in [Item -> [Name -> Content]]
               /\ \A j \in Item, m \in Name : dest[j][m] = "item" => dest'[j][m] = "item"
    BY <1>1, <2>2 DEF Content
  <2> QED
    BY <1>1, <2>1, <2>2 DEF UserCreates
<1>3. /\ UserType' /\ user'.touched = user.touched /\ (user.raced => user'.raced)
      /\ user'.clobbered = user.clobbered /\ user'.abandoned = user.abandoned
  <2>1. user.steps + 1 \in 0 .. MaxUserSteps
    <3>1. user.steps < MaxUserSteps /\ user.steps \in 0 .. MaxUserSteps
      BY DEF UserCreates, UserStep, FilesInv, Typed, UserType
    <3> QED
      BY <3>1, StepsAssumption
  <2>2. ASSUME NEW b \in BOOLEAN, user' = [user EXCEPT !.steps = @ + 1, !.raced = @ \/ b]
        PROVE  /\ UserType' /\ user'.touched = user.touched /\ (user.raced => user'.raced)
               /\ user'.clobbered = user.clobbered /\ user'.abandoned = user.abandoned
    BY <2>1, <2>2 DEF FilesInv, Typed, UserType
  <2> QED
    BY <2>2 DEF UserCreates
<1>4. Typed'
  BY <1>1, <1>2, <1>3 DEF FilesInv, Typed, RequestType, PlanType, PlacesType, WorkType
<1>5. PhaseOK'
  BY <1>1, SelectedFacts DEF FilesInv, PhaseOK
<1>6. RaceOK'
  <2>1. work.step = "replace" => work.item \in Item /\ work.target[work.item] \in Name
    BY SelectedFacts DEF FilesInv, PhaseOK, Typed, WorkType
  <2>2. work.step = "restore" => work.item \in Item
    BY SelectedFacts DEF FilesInv, PhaseOK
  <2>3. CASE /\ home' = [home EXCEPT ![i] = "user"]
             /\ user' = [user EXCEPT !.steps = @ + 1,
                                     !.raced = @ \/ (work.step = "restore" /\ work.item = i)]
             /\ UNCHANGED dest
    <3>1. user'.raced = (user.raced \/ (work.step = "restore" /\ work.item = i))
      BY <2>3 DEF FilesInv, Typed, UserType
    <3> QED
      BY <1>1, <1>3, <2>1, <2>2, <2>3, <3>1 DEF FilesInv, RaceOK, Absent, Vacant
  <2>4. ASSUME NEW n \in Name,
               dest' = [dest EXCEPT ![i][n] = "user"],
               user' = [user EXCEPT !.steps = @ + 1,
                          !.raced = @ \/ (work.step = "replace" /\ work.item = i /\ work.target[i] = n)],
               UNCHANGED home
        PROVE  RaceOK'
    <3>1. user'.raced = (user.raced \/ (work.step = "replace" /\ work.item = i /\ work.target[i] = n))
      BY <2>4 DEF FilesInv, Typed, UserType
    <3>2. \A j \in Item, m \in Name : dest'[j][m] = IF j = i /\ m = n THEN "user" ELSE dest[j][m]
      BY <1>1, <2>4
    <3> QED
      BY <1>1, <1>3, <2>1, <2>2, <2>4, <3>1, <3>2 DEF FilesInv, RaceOK, Absent, Vacant
  <2> QED
    BY <2>3, <2>4 DEF UserCreates
<1>7. Reached' = Reached
  BY <1>1 DEF Reached
<1>8. PlacesOK'
  <2>1. \A j \in Item : work.target[j] \in Name
    BY DEF FilesInv, Typed, WorkType
  <2> QED
    BY <1>1, <1>2, <1>3, <1>7, <2>1, SelectedFacts
       DEF FilesInv, PlacesOK, MovedUpTo, AtHome, Moved
<1>9. PlanHonest'
  <2>1. \A j \in Item : work.target[j] \in Name
    BY DEF FilesInv, Typed, WorkType
  <2> QED
    BY <1>1, <1>2, <1>3, <2>1, SelectedFacts DEF FilesInv, PlanHonest
<1> QED
  BY <1>4, <1>5, <1>6, <1>8, <1>9 DEF FilesInv

\* The directory the user removes is empty.
LEMMA UserRemovesFolderKeeps ==
    ASSUME FilesInv, UserRemovesFolder
    PROVE  FilesInv'
<1>1. UNCHANGED <<request, plan, home, dest, info, work>> /\ folder' \in BOOLEAN
  BY DEF UserRemovesFolder
<1>2. /\ UserType' /\ user'.touched = user.touched /\ user'.raced = user.raced
      /\ user'.clobbered = user.clobbered /\ user'.abandoned = user.abandoned
  BY StepsAssumption DEF UserRemovesFolder, UserStep, FilesInv, Typed, UserType
<1>3. Typed'
  BY <1>1, <1>2 DEF FilesInv, Typed, RequestType, PlanType, PlacesType, WorkType
<1>4. PhaseOK' /\ RaceOK'
  BY <1>1, <1>2, SelectedFacts DEF FilesInv, PhaseOK, RaceOK, Absent, Vacant
<1>5. Reached' = Reached
  BY <1>1 DEF Reached
<1>6. PlacesOK' /\ PlanHonest'
  BY <1>1, <1>2, <1>5, SelectedFacts
     DEF FilesInv, PlacesOK, MovedUpTo, AtHome, Moved, PlanHonest
<1> QED
  BY <1>3, <1>4, <1>6 DEF FilesInv

\* A step that changes nothing.
LEMMA NothingKeeps ==
    ASSUME FilesInv, UNCHANGED filesVars
    PROVE  FilesInv'
<1> USE DEF filesVars
<1>1. Typed'
  BY DEF FilesInv, Typed, RequestType, PlanType, PlacesType, WorkType, UserType
<1>2. PhaseOK' /\ RaceOK' /\ PlacesOK' /\ PlanHonest'
  BY SelectedFacts DEF FilesInv, PhaseOK, RaceOK, Absent, Vacant, PlacesOK, MovedUpTo, Reached,
     AtHome, Moved, PlanHonest
<1> QED
  BY <1>1, <1>2 DEF FilesInv

\* Every step of the thread and of the user keeps the invariant.
LEMMA NextFiles == FilesInv /\ [FilesNext]_filesVars => FilesInv'
BY AbandonKeeps, CommitPlanKeeps, PreparationKeeps, TargetsKeeps, TestTargetKeeps, ReplaceKeeps,
   WriteInfoKeeps, UnlinkInfoKeeps, TestHomeKeeps, RestoreKeeps, UserTakesKeeps,
   UserCreatesKeeps, UserRemovesFolderKeeps, NothingKeeps DEF FilesNext

-----------------------------------------------------------------------------

\* The invariant holds in every state.
THEOREM FilesInvariant == FilesSpec => []FilesInv
BY InitFiles, NextFiles, PTL DEF FilesSpec

\* The plan, the thread and the places stay within their types.
THEOREM FilesTypeCorrect == FilesSpec => []FilesTypeOK
<1>1. FilesInv => FilesTypeOK
  BY TypedIsTypeOK DEF FilesInv
<1> QED
  BY <1>1, FilesInvariant, PTL

\* commit() of FileOperationsService: a plan that is reported as committed moved
\* every item, one that failed left every item at home unless it says otherwise,
\* and a file is overwritten only in the moment between a test and a rename.
THEOREM PlansAreHonest == FilesSpec => []PlanHonest
<1>1. FilesInv => PlanHonest
  BY DEF FilesInv
<1> QED
  BY <1>1, FilesInvariant, PTL


-----------------------------------------------------------------------------
(***************************************************************************)
(* Proofs about SoftwareManager, for any number of tasks, changes and      *)
(* retries: what snapd does is accounted for by the rows, and what the     *)
(* user has stopped is not started again.                                  *)
(*                                                                         *)
(* An operation on a task is a set of outcomes, made by operators that     *)
(* call each other as the manager's methods do.  Fits says what a row and  *)
(* snapd's changes must have in common, Follows what an outcome may do to  *)
(* them; every operator that is given a row that fits makes outcomes that  *)
(* follow, and the actions that are left are few.                          *)
(***************************************************************************)

States == {"none"} \cup Unconfirmed \cup Waiting \cup InBackend \cup Ended
Phases == {"none", "download", "work"}
Reasons == {"none", "user", "offline", "retry", "cancel"}
Statuses == {"none", "download", "work", "abort", "undone", "error", "done"}

Row == [action : {"none", "install", "remove"}, keep : BOOLEAN, state : States, phase : Phases,
        reason : Reasons, retries : 0 .. RetryLimit, change : 0 .. MaxChanges]
Change == [task : 0 .. MaxTasks, status : Statuses]
Changes == [ChangeId -> Change]

AtWork(change) == change.status \in {"download", "work"}

\* A row and the changes: the row has a change while it is snapd's, the change is
\* for its task, and nothing else runs for the task.
Fits(t, row, chs) ==
    /\ row \in Row
    /\ row.state \in InBackend <=> row.change # 0
    /\ row.change # 0 => chs[row.change].task = t
    /\ \A c \in ChangeId : AtWork(chs[c]) /\ chs[c].task = t => row.change = c

\* What the user has stopped.
Halted(row) ==
    \/ row.state \in {"paused", "canceled", "completed", "canceling"}
    \/ row.state = "pausing" /\ row.reason = "user"

\* What an outcome does to a row and the changes: it fits again, and the changes
\* of others stay.
Moves(t, chs, o) ==
    /\ o.changes \in Changes /\ o.sync \in BOOLEAN
    /\ Fits(t, o.row, o.changes)
    /\ \A c \in ChangeId : \/ o.changes[c] = chs[c]
                           \/ o.changes[c].task = t /\ (chs[c].task = t \/ chs[c] = NoChange)

MakesNothing(chs, o) == \A c \in ChangeId : chs[c] = NoChange => o.changes[c] = NoChange

\* And without the user, a row that was stopped stays stopped and starts nothing.
Follows(t, row, chs, o) ==
    Moves(t, chs, o) /\ (Halted(row) => Halted(o.row) /\ MakesNothing(chs, o))

\* The rows and the changes.
RowsOK ==
    /\ tasks \in [TaskId -> Row] /\ changes \in Changes
    /\ \A t \in TaskId : Fits(t, tasks[t], changes)

\* The request the worker's thread is in: its task has not been confirmed.
CallOK ==
    /\ call \in [at : {"idle", "prepare", "confirm", "begin"}, task : 0 .. MaxTasks]
    /\ call.at = "idle" => call = NoCall
    /\ call.at \in {"confirm", "begin"} => call.task \in TaskId
    /\ call.at = "confirm" => tasks[call.task].state = "awaiting_confirmation"

\* A row of a backup names its task; a synchronisation changes only whether the
\* snapshot is there.
Named(b) == b.state \in {"reinstalling", "restoring"} => b.task \in TaskId

BackupOK ==
    /\ backup \in BackupRow /\ Named(backup) /\ snapshot \in BOOLEAN
    /\ sync # NoSync =>
         /\ sync \in [row : BackupRow, read : BackupRow] /\ Named(sync.row)
         /\ sync.row.change = sync.read.change /\ sync.row.task = sync.read.task
         /\ sync.row.state = sync.read.state
              \/ {sync.row.state, sync.read.state} \subseteq {"available", "unavailable"}

StoppedOK ==
    /\ torn \in BOOLEAN /\ halted \subseteq TaskId
    /\ \A t \in halted : Halted(tasks[t])

\* Nothing new is made for what the user has stopped.
NothingMadeForHalted ==
    \A c \in ChangeId, t \in TaskId :
        changes[c] = NoChange /\ changes'[c].task = t => t \notin halted'

SoftwareInv == RowsOK /\ CallOK /\ BackupOK /\ StoppedOK /\ RestoreAccounted

-----------------------------------------------------------------------------
(* The operators.                                                          *)

\* Numbers of tasks and of changes.
LEMMA Numbers ==
    /\ MaxTasks \in Nat /\ MaxChanges \in Nat /\ RetryLimit \in Nat
    /\ 0 \notin TaskId /\ 0 \notin ChangeId /\ 0 \in 0 .. MaxTasks /\ 0 \in 0 .. MaxChanges
    /\ TaskId \subseteq 0 .. MaxTasks /\ ChangeId \subseteq 0 .. MaxChanges
    /\ \A c \in 0 .. MaxChanges : c # 0 => c \in ChangeId
    /\ \A t \in 0 .. MaxTasks : t # 0 => t \in TaskId
    /\ NoTask \in Row /\ NoChange \in Change /\ NoChange.task = 0 /\ NoChange.status = "none"
<1>1. MaxTasks \in Nat /\ MaxChanges \in Nat /\ RetryLimit \in Nat
  BY TasksAssumption
<1> QED
  BY <1>1 DEF TaskId, ChangeId, NoTask, NoChange, Row, Change, States, Phases, Reasons, Statuses

\* The parts of an outcome.
LEMMA OutcomeParts ==
    ASSUME NEW row, NEW chs
    PROVE  /\ Outcome(row, chs).row = row /\ Outcome(row, chs).changes = chs
           /\ Outcome(row, chs).sync \in BOOLEAN
BY DEF Outcome

\* A row that rests has no change, and nothing runs for it.
LEMMA RestFollows ==
    ASSUME NEW t \in TaskId, NEW row, NEW chs \in Changes, Fits(t, row, chs),
           NEW next \in Row, next.state \notin InBackend, next.change = 0,
           row.change # 0 => ~AtWork(chs[row.change]),
           NEW o, o.row = next, o.changes = chs, o.sync \in BOOLEAN
    PROVE  Moves(t, chs, o) /\ ((Halted(row) => Halted(next)) => Follows(t, row, chs, o))
<1>1. \A c \in ChangeId : AtWork(chs[c]) => chs[c].task # t
  BY Numbers DEF Fits
<1>2. Fits(t, next, chs)
  BY <1>1 DEF Fits
<1> QED
  BY <1>2 DEF Follows, Moves, MakesNothing

\* A row that keeps its change.
LEMMA WorkFollows ==
    ASSUME NEW t \in TaskId, NEW row, NEW chs \in Changes, Fits(t, row, chs), row.change # 0,
           NEW next \in Row, next.state \in InBackend, next.change = row.change,
           Halted(row) => Halted(next),
           NEW o, o.row = next, o.changes = chs, o.sync \in BOOLEAN
    PROVE  Follows(t, row, chs, o)
<1>1. Fits(t, next, chs)
  BY DEF Fits
<1> QED
  BY <1>1 DEF Follows, Moves, MakesNothing

\* A row that is left as it is.
LEMMA SameFollows ==
    ASSUME NEW t \in TaskId, NEW row, NEW chs \in Changes, Fits(t, row, chs)
    PROVE  Follows(t, row, chs, Outcome(row, chs))
<1>1. Outcome(row, chs).row = row /\ Outcome(row, chs).changes = chs /\ ~Outcome(row, chs).sync
      /\ Outcome(row, chs).sync \in BOOLEAN
  BY DEF Outcome
<1> QED
  BY <1>1 DEF Follows, Moves, MakesNothing

\* One operation after the other.
LEMMA FollowsInTurn ==
    ASSUME NEW t \in TaskId, NEW row, NEW chs \in Changes, NEW o, NEW p,
           Follows(t, row, chs, o), Follows(t, o.row, o.changes, p)
    PROVE  Follows(t, row, chs, p)
<1>1. \A c \in ChangeId : \/ p.changes[c] = chs[c]
                          \/ p.changes[c].task = t /\ (chs[c].task = t \/ chs[c] = NoChange)
  <2> SUFFICES ASSUME NEW c \in ChangeId
               PROVE  \/ p.changes[c] = chs[c]
                      \/ p.changes[c].task = t /\ (chs[c].task = t \/ chs[c] = NoChange)
    OBVIOUS
  <2>1. \/ o.changes[c] = chs[c]
        \/ o.changes[c].task = t /\ (chs[c].task = t \/ chs[c] = NoChange)
    BY DEF Follows, Moves, MakesNothing
  <2>2. \/ p.changes[c] = o.changes[c]
        \/ p.changes[c].task = t /\ (o.changes[c].task = t \/ o.changes[c] = NoChange)
    BY DEF Follows, Moves, MakesNothing
  <2>3. NoChange.task # t
    BY Numbers
  <2> QED
    BY <2>1, <2>2, <2>3
<1> QED
  BY <1>1 DEF Follows, Moves, MakesNothing

\* Leaves(): the row of a task that is not snapd's any more.
LEMMA LeavesRow ==
    ASSUME NEW row \in Row, NEW state \in States \ InBackend
    PROVE  /\ Leaves(row, state) \in Row /\ Leaves(row, state).state = state
           /\ Leaves(row, state).change = 0
           /\ state \notin Ended => Leaves(row, state).retries = row.retries
<1> DEFINE base == IF state \in Ended THEN NoTask ELSE row
           next == [base EXCEPT !.state = state, !.phase = "none", !.reason = "none", !.change = 0]
<1>1. base \in Row /\ (state \notin Ended => base.retries = row.retries)
  BY Numbers
<1>2. Leaves(row, state) = next
  BY DEF Leaves
<1>3. state \in States /\ "none" \in Phases /\ "none" \in Reasons /\ 0 \in 0 .. MaxChanges
  BY Numbers DEF Phases, Reasons
<1> HIDE DEF base
<1>4. next \in Row /\ next.state = state /\ next.change = 0 /\ next.retries = base.retries
  BY <1>1, <1>3 DEF Row
<1> HIDE DEF next
<1> QED
  BY <1>1, <1>2, <1>4

\* _schedule_retry() and the wait for the network.
LEMMA RetryRow ==
    ASSUME NEW row \in Row
    PROVE  /\ {Retry(row), Offline(row)} \subseteq Row
           /\ Retry(row).state \in {"retry_wait", "interrupted"} /\ Retry(row).change = 0
           /\ Offline(row).state = "waiting_for_network" /\ Offline(row).change = 0
<1>1. {"retry_wait", "interrupted", "waiting_for_network"} \subseteq (States \ InBackend) \ Ended
  BY DEF States, InBackend, Ended, Waiting
<1>2. Offline(row) \in Row /\ Offline(row).state = "waiting_for_network" /\ Offline(row).change = 0
  BY <1>1, LeavesRow DEF Offline
<1>3. CASE row.retries < RetryLimit
  <2> DEFINE w == Leaves(row, "retry_wait")
  <2>1. w \in Row /\ w.state = "retry_wait" /\ w.change = 0 /\ w.retries = row.retries
    BY <1>1, LeavesRow
  <2> HIDE DEF w
  <2>2. w.retries + 1 \in 0 .. RetryLimit
    BY <1>3, <2>1, Numbers DEF Row
  <2>3. [w EXCEPT !.retries = @ + 1] \in Row /\ [w EXCEPT !.retries = @ + 1].state = "retry_wait"
        /\ [w EXCEPT !.retries = @ + 1].change = 0
    BY <2>1, <2>2 DEF Row
  <2>4. Retry(row) = [w EXCEPT !.retries = @ + 1]
    BY <1>3 DEF Retry, w
  <2> QED
    BY <1>2, <2>3, <2>4
<1>4. CASE ~(row.retries < RetryLimit)
  BY <1>1, <1>2, <1>4, LeavesRow DEF Retry
<1> QED
  BY <1>3, <1>4

\* snapd numbers a change that there was not.
LEMMA MadeChange ==
    ASSUME NEW t \in 0 .. MaxTasks, NEW chs \in Changes, NEW m \in Made(chs, t)
    PROVE  /\ m.id \in ChangeId /\ chs[m.id] = NoChange /\ m.changes \in Changes
           /\ m.changes[m.id].task = t /\ AtWork(m.changes[m.id])
           /\ \A c \in ChangeId : c # m.id => m.changes[c] = chs[c]
<1> DEFINE new == [task |-> t, status |-> "download"]
<1>1. PICK n \in ChangeId :
          chs[n] = NoChange /\ m = [id |-> n, changes |-> [chs EXCEPT ![n] = new]]
  BY DEF Made
<1>2. new \in Change /\ new.task = t /\ AtWork(new)
  BY DEF Change, Statuses, AtWork
<1> HIDE DEF new
<1>3. m.id = n /\ m.changes = [chs EXCEPT ![n] = new]
  BY <1>1
<1> QED
  BY <1>1, <1>2, <1>3 DEF Changes

\* _start(), for a task that has no change and that the user has not stopped.
LEMMA StartsFollow ==
    ASSUME NEW t \in TaskId, NEW row, NEW chs \in Changes, Fits(t, row, chs),
           row.state \notin InBackend, NEW o \in Starts(t, row, chs)
    PROVE  Moves(t, chs, o) /\ (~Halted(row) => Follows(t, row, chs, o))
<1>1. row \in Row /\ row.change = 0 /\ \A c \in ChangeId : AtWork(chs[c]) => chs[c].task # t
  BY Numbers DEF Fits
<1>2. ASSUME NEW m \in Made(chs, t),
             o = Outcome([row EXCEPT !.state = "running", !.phase = "download", !.change = m.id],
                         m.changes)
      PROVE  Moves(t, chs, o) /\ (~Halted(row) => Follows(t, row, chs, o))
  <2> DEFINE next == [row EXCEPT !.state = "running", !.phase = "download", !.change = m.id]
  <2>1. /\ m.id \in ChangeId /\ chs[m.id] = NoChange /\ m.changes \in Changes
        /\ m.changes[m.id].task = t
        /\ \A c \in ChangeId : c # m.id => m.changes[c] = chs[c]
    <3>1. t \in 0 .. MaxTasks
      BY Numbers
    <3> QED
      BY <3>1, MadeChange
  <2>2. next \in Row /\ next.state = "running" /\ next.change = m.id
    BY <1>1, <2>1, Numbers DEF Row, States, Phases, InBackend
  <2>3. o.row = next /\ o.changes = m.changes /\ o.sync = FALSE
    BY <1>2 DEF Outcome
  <2> HIDE DEF next
  <2>4. Fits(t, next, m.changes)
    BY <1>1, <2>1, <2>2, Numbers DEF Fits, InBackend
  <2> QED
    BY <2>1, <2>3, <2>4 DEF Follows, Moves, MakesNothing
<1>3. ASSUME o = Outcome(Leaves(row, "failed"), chs)
      PROVE  Moves(t, chs, o) /\ (~Halted(row) => Follows(t, row, chs, o))
  <2>1. "failed" \in States \ InBackend
    BY DEF States, InBackend, Ended
  <2> QED
    BY <1>1, <1>3, <2>1, LeavesRow, RestFollows, OutcomeParts
<1>4. ASSUME o = Outcome(Retry(row), chs)
      PROVE  Moves(t, chs, o) /\ (~Halted(row) => Follows(t, row, chs, o))
  <2>1. Retry(row) \in Row /\ Retry(row).state \notin InBackend /\ Retry(row).change = 0
    BY <1>1, RetryRow DEF InBackend
  <2> QED
    BY <1>1, <1>4, <2>1, RestFollows, OutcomeParts
<1> QED
  BY <1>2, <1>3, <1>4 DEF Starts

\* abort() stops the change and nothing else.
LEMMA AbortFollows ==
    ASSUME NEW t \in TaskId, NEW row, NEW chs \in Changes, Fits(t, row, chs), row.change # 0,
           NEW after \in {chs, Aborted(chs, row.change)}
    PROVE  Follows(t, row, chs, Outcome(row, after)) /\ after \in Changes /\ Fits(t, row, after)
<1>1. row.change \in ChangeId
  BY Numbers DEF Fits, Row
<1>2. CASE after = chs
  BY <1>2, SameFollows
<1>3. CASE after = [chs EXCEPT ![row.change].status = "abort"] /\ AtWork(chs[row.change])
  <2>1. /\ after \in Changes /\ after[row.change].task = chs[row.change].task
        /\ ~AtWork(after[row.change]) /\ after[row.change].status = "abort"
        /\ \A c \in ChangeId : c # row.change => after[c] = chs[c]
    BY <1>1, <1>3 DEF Changes, Change, Statuses, AtWork
  <2>2. Fits(t, row, after)
    BY <1>1, <2>1 DEF Fits
  <2>3. /\ Outcome(row, after).row = row /\ Outcome(row, after).changes = after
        /\ Outcome(row, after).sync \in BOOLEAN
    BY DEF Outcome
  <2>4. chs[row.change].task = t
    BY DEF Fits
  <2>5. \A c \in ChangeId : chs[c] = NoChange => after[c] = NoChange
    BY <1>3, <2>1, Numbers DEF AtWork
  <2> QED
    BY <1>1, <2>1, <2>2, <2>3, <2>4, <2>5 DEF Follows, Moves, MakesNothing
<1> QED
  BY <1>2, <1>3 DEF Aborted, AtWork

\* _request_stop(): it stops the row when the user asks for it.
LEMMA StopsFollow ==
    ASSUME NEW t \in TaskId, NEW row, NEW chs \in Changes, Fits(t, row, chs), row.change # 0,
           NEW reason \in {"user", "offline", "retry", "cancel"},
           reason \in {"user", "cancel"} \/ ~Halted(row),
           NEW o \in Stops(row, chs, reason)
    PROVE  /\ Follows(t, row, chs, o) /\ MakesNothing(chs, o)
           /\ reason \in {"user", "cancel"} => Halted(o.row)
<1> DEFINE next == IF reason = "cancel"
                   THEN [row EXCEPT !.state = "canceling", !.phase = "none", !.reason = "none",
                                    !.retries = 0]
                   ELSE [row EXCEPT !.state = "pausing", !.phase = "none", !.reason = reason]
<1>1. PICK after \in {chs, Aborted(chs, row.change)} : o = Outcome(next, after)
  BY DEF Stops
<1>2. /\ next \in Row /\ next.state \in InBackend /\ next.change = row.change
      /\ reason \in {"user", "cancel"} => Halted(next)
  <2>1. row \in Row /\ 0 \in 0 .. RetryLimit
    BY Numbers DEF Fits
  <2>2. CASE reason = "cancel"
    BY <2>1, <2>2 DEF Row, States, InBackend, Phases, Reasons, Halted
  <2>3. CASE reason # "cancel"
    BY <2>1, <2>3 DEF Row, States, InBackend, Phases, Reasons, Halted
  <2> QED
    BY <2>2, <2>3
<1>3. o.row = next /\ o.changes = after
  BY <1>1 DEF Outcome
<1> HIDE DEF next
<1>4. Follows(t, row, chs, Outcome(row, after)) /\ after \in Changes /\ Fits(t, row, after)
  BY AbortFollows
<1>5. Follows(t, row, after, Outcome(next, after))
  BY <1>2, <1>4, WorkFollows, OutcomeParts
<1>6. Outcome(row, after).row = row /\ Outcome(row, after).changes = after
  BY DEF Outcome
<1>7. MakesNothing(chs, o)
  BY <1>3, Numbers DEF MakesNothing, Aborted, Changes
<1> QED
  BY <1>1, <1>2, <1>3, <1>4, <1>5, <1>6, <1>7, FollowsInTurn

\* What Progress says of a change: "running" only of one that may do something.
LEMMA ProgressSays ==
    ASSUME NEW change
    PROVE  /\ Progress(change) \in {"running", "interrupted", "failed", "completed"}
           /\ Progress(change) = "running" <=> AtWork(change)
BY DEF Progress, AtWork

\* _apply_progress(): a row that the user has stopped only when it is complete.
LEMMA AppliedFollows ==
    ASSUME NEW t \in TaskId, NEW row, NEW chs \in Changes, Fits(t, row, chs), row.change # 0,
           Halted(row) => Progress(chs[row.change]) = "completed",
           NEW o \in Applied(row, chs)
    PROVE  Follows(t, row, chs, o)
<1> DEFINE change == chs[row.change]
           told == Progress(change)
           gone == row.action = "install" /\ told \in {"failed", "interrupted"}
           next == IF told = "running"
                   THEN [row EXCEPT !.state = told, !.phase = change.status]
                   ELSE Leaves(row, told)
           synced == row.action = "remove" /\ told = "completed" /\ row.keep
<1>1. row \in Row /\ row.change \in ChangeId /\ row.state \in InBackend
  BY Numbers DEF Fits, Row
<1>2. /\ told \in {"running", "interrupted", "failed", "completed"}
      /\ told = "running" <=> AtWork(change)
      /\ Halted(row) => told = "completed"
  BY ProgressSays
<1>3. /\ {Retry(row), Offline(row)} \subseteq Row
      /\ Retry(row).state \notin InBackend /\ Retry(row).change = 0
      /\ Offline(row).state \notin InBackend /\ Offline(row).change = 0
  BY <1>1, RetryRow DEF InBackend
<1> HIDE DEF told
<1>4. ASSUME told = "failed" \/ told = "interrupted",
             o = Outcome(Offline(row), chs) \/ o = Outcome(Retry(row), chs)
      PROVE  Follows(t, row, chs, o)
  BY <1>1, <1>2, <1>3, <1>4, RestFollows, OutcomeParts
<1>5. CASE told = "running"
  <2> DEFINE going == [row EXCEPT !.state = told, !.phase = change.status]
  <2>1. change.status \in {"download", "work"}
    BY <1>2, <1>5 DEF AtWork
  <2>2. going \in Row /\ going.state \in InBackend /\ going.change = row.change
        /\ ~Halted(going)
    BY <1>1, <1>5, <2>1 DEF Row, States, InBackend, Phases, Halted
  <2>3. ~Halted(row) /\ next = going
    BY <1>2, <1>5
  <2> HIDE DEF going
  <2>4. ASSUME NEW r \in {going, [going EXCEPT !.retries = 0]}, o.row = r, o.changes = chs,
               o.sync \in BOOLEAN
        PROVE  Follows(t, row, chs, o)
    <3>1. r \in Row /\ r.state \in InBackend /\ r.change = row.change
      <4>1. 0 \in 0 .. RetryLimit
        BY Numbers
      <4> QED
        BY <2>2, <4>1 DEF Row
    <3> QED
      BY <2>3, <2>4, <3>1, WorkFollows
  <2>5. ASSUME o \in Stops(going, chs, "retry") PROVE Follows(t, row, chs, o)
    <3>1. Follows(t, row, chs, Outcome(going, chs))
      BY <1>1, <2>2, <2>3, WorkFollows, OutcomeParts
    <3>2. Fits(t, going, chs)
      BY <3>1, OutcomeParts DEF Follows, Moves, MakesNothing
    <3>3. Follows(t, going, chs, o)
      BY <1>1, <2>2, <2>5, <3>2, StopsFollow
    <3> QED
      BY <3>1, <3>3, FollowsInTurn, OutcomeParts
  <2>6. ~gone
    BY <1>5
  <2>7. o \in {[Outcome(r, chs) EXCEPT !.sync = synced] :
                   r \in {going, [going EXCEPT !.retries = 0]}}
        \/ o \in Stops(going, chs, "retry")
    BY <1>5, <2>3, <2>6 DEF Applied, told
  <2>8. synced \in BOOLEAN
    OBVIOUS
  <2> HIDE DEF synced
  <2>9. ASSUME NEW r \in {going, [going EXCEPT !.retries = 0]},
               o = [Outcome(r, chs) EXCEPT !.sync = synced]
        PROVE  Follows(t, row, chs, o)
    <3>1. o.row = r /\ o.changes = chs /\ o.sync = synced
      BY <2>9 DEF Outcome
    <3> QED
      BY <2>4, <2>8, <3>1
  <2> QED
    BY <2>5, <2>7, <2>9
<1>6. CASE told # "running"
  <2> DEFINE rested == Leaves(row, told)
  <2>1. told \in States \ InBackend
    BY <1>2, <1>6 DEF States, InBackend, Ended, Waiting
  <2>2. rested \in Row /\ rested.state = told /\ rested.change = 0 /\ next = rested
    BY <1>1, <1>6, <2>1, LeavesRow
  <2> HIDE DEF rested, next
  <2>3. Halted(row) => told = "completed"
    BY <1>2
  <2>4. ASSUME NEW r \in {rested, [rested EXCEPT !.retries = 0]}, o.row = r, o.changes = chs,
               o.sync \in BOOLEAN
        PROVE  Follows(t, row, chs, o)
    <3>1. r \in Row /\ r.state = told /\ r.change = 0
      <4>1. 0 \in 0 .. RetryLimit
        BY Numbers
      <4> QED
        BY <2>2, <4>1 DEF Row
    <3>2. Halted(row) => Halted(r)
      BY <2>3, <3>1 DEF Halted
    <3> QED
      BY <1>2, <1>6, <2>1, <2>4, <3>1, <3>2, RestFollows
  <2>5. \/ gone /\ (o = Outcome(Offline(row), chs) \/ o = Outcome(Retry(row), chs))
        \/ o \in {[Outcome(r, chs) EXCEPT !.sync = synced] :
                      r \in {rested, [rested EXCEPT !.retries = 0]}}
    BY <1>6, <2>2 DEF Applied, told, rested
  <2>6. synced \in BOOLEAN
    OBVIOUS
  <2>7. gone => told = "failed" \/ told = "interrupted"
    OBVIOUS
  <2> HIDE DEF synced, gone
  <2>8. ASSUME NEW r \in {rested, [rested EXCEPT !.retries = 0]},
               o = [Outcome(r, chs) EXCEPT !.sync = synced]
        PROVE  Follows(t, row, chs, o)
    <3>1. o.row = r /\ o.changes = chs /\ o.sync = synced
      BY <2>8 DEF Outcome
    <3> QED
      BY <2>4, <2>6, <3>1
  <2> QED
    BY <1>4, <2>5, <2>7, <2>8
<1> QED
  BY <1>5, <1>6

\* _refresh_pausing() and _refresh_canceling(): the row rests when the change has
\* ended, as the user wanted.
LEMMA StoppingFollows ==
    ASSUME NEW t \in TaskId, NEW row, NEW chs \in Changes, Fits(t, row, chs),
           NEW o, \/ row.state = "pausing" /\ o \in Paused(row, chs)
                  \/ row.state = "canceling" /\ o \in Canceled(row, chs)
    PROVE  Follows(t, row, chs, o)
<1> DEFINE told == Progress(chs[row.change])
<1>1. row \in Row /\ row.change # 0 /\ row.change \in ChangeId
  BY Numbers DEF Fits, Row, InBackend
<1>2. told = "running" <=> AtWork(chs[row.change])
  BY ProgressSays
<1> HIDE DEF told
<1>3. CASE told = "completed"
  <2>1. o \in Applied(row, chs)
    BY <1>3 DEF Paused, Canceled, told
  <2> QED
    BY <1>1, <1>3, <2>1, AppliedFollows DEF told
<1>4. CASE told # "completed" /\ o = Outcome(row, chs)
  BY <1>4, SameFollows
<1>5. CASE /\ told # "completed" /\ told # "running" /\ row.state = "pausing"
           /\ \/ row.reason = "user" /\ o = Outcome(Leaves(row, "paused"), chs)
              \/ row.reason # "user" /\ o \in {Outcome(Offline(row), chs), Outcome(Retry(row), chs)}
  <2>1. "paused" \in States \ InBackend
    BY DEF States, InBackend, Waiting
  <2>2. /\ Leaves(row, "paused") \in Row /\ Leaves(row, "paused").state = "paused"
        /\ Leaves(row, "paused").change = 0
    BY <1>1, <2>1, LeavesRow
  <2>3. Halted(Leaves(row, "paused")) /\ (row.reason # "user" => ~Halted(row))
    BY <1>5, <2>2 DEF Halted
  <2>4. /\ {Retry(row), Offline(row)} \subseteq Row
        /\ Retry(row).state \notin InBackend /\ Retry(row).change = 0
        /\ Offline(row).state \notin InBackend /\ Offline(row).change = 0
    BY <1>1, RetryRow DEF InBackend
  <2> QED
    BY <1>2, <1>5, <2>1, <2>2, <2>3, <2>4, RestFollows, OutcomeParts
<1>6. CASE /\ told # "completed" /\ told # "running" /\ row.state = "canceling"
           /\ o = Outcome(Leaves(row, "canceled"), chs)
  <2>1. "canceled" \in States \ InBackend
    BY DEF States, InBackend, Ended, Waiting
  <2>2. /\ Leaves(row, "canceled") \in Row /\ Leaves(row, "canceled").state = "canceled"
        /\ Leaves(row, "canceled").change = 0
    BY <1>1, <2>1, LeavesRow
  <2>3. Halted(Leaves(row, "canceled"))
    BY <2>2 DEF Halted
  <2> QED
    BY <1>2, <1>6, <2>1, <2>2, <2>3, RestFollows, OutcomeParts
<1>7. CASE told # "completed" /\ row.state = "pausing"
  <2>1. /\ told = "running" => o = Outcome(row, chs)
        /\ told # "running" /\ row.reason = "user" => o = Outcome(Leaves(row, "paused"), chs)
        /\ told # "running" /\ row.reason # "user" =>
              o \in {Outcome(Offline(row), chs), Outcome(Retry(row), chs)}
    BY <1>7 DEF Paused, told
  <2> QED
    BY <1>4, <1>5, <1>7, <2>1
<1>8. CASE told # "completed" /\ row.state = "canceling"
  <2>1. /\ told = "running" => o = Outcome(row, chs)
        /\ told # "running" => o = Outcome(Leaves(row, "canceled"), chs)
    BY <1>8 DEF Canceled, told
  <2> QED
    BY <1>4, <1>6, <1>8, <2>1
<1> QED
  BY <1>3, <1>7, <1>8

\* _recover_backend_unavailable(): the row keeps what it has been stopped for.
LEMMA UnavailableFollows ==
    ASSUME NEW t \in TaskId, NEW row, NEW chs \in Changes, Fits(t, row, chs),
           row.state \in InBackend, NEW o \in Unavailable(row, chs)
    PROVE  Follows(t, row, chs, o)
<1> DEFINE next == [row EXCEPT !.state = IF @ \in {"pausing", "canceling"} THEN @ ELSE "recovering"]
<1>1. o = Outcome(next, chs)
  BY DEF Unavailable
<1>2. row \in Row /\ row.change # 0
  BY DEF Fits
<1>3. CASE row.state \in {"pausing", "canceling"}
  <2>1. next = row
    BY <1>2, <1>3 DEF Row
  <2> HIDE DEF next
  <2> QED
    BY <1>1, <2>1, SameFollows
<1>4. CASE row.state \notin {"pausing", "canceling"}
  <2> DEFINE r == [row EXCEPT !.state = "recovering"]
  <2>1. next = r
    BY <1>2, <1>4
  <2>2. r \in Row /\ r.state = "recovering" /\ r.change = row.change
    BY <1>2 DEF Row, States, InBackend
  <2>3. ~Halted(row) /\ r.state \in InBackend
    BY <1>4, <2>2 DEF Halted, InBackend
  <2> HIDE DEF r
  <2>4. o.row = r /\ o.changes = chs /\ o.sync \in BOOLEAN
    BY <1>1, <2>1, OutcomeParts
  <2> QED
    BY <1>2, <2>2, <2>3, <2>4, WorkFollows
<1> QED
  BY <1>3, <1>4

\* refresh(): whatever it comes to.
LEMMA RefreshedFollows ==
    ASSUME NEW t \in TaskId, NEW row, changes \in Changes, Fits(t, row, changes),
           NEW o \in Refreshed(row)
    PROVE  Follows(t, row, changes, o)
<1>1. CASE row.state \notin InBackend
  BY <1>1, SameFollows DEF Refreshed
<1>2. ASSUME row.state \in {"running", "recovering"}, o \in Stops(row, changes, "offline")
      PROVE  Follows(t, row, changes, o)
  <2>1. row.change # 0 /\ ~Halted(row)
    BY <1>2 DEF Fits, Halted, InBackend
  <2> QED
    BY <1>2, <2>1, StopsFollow
<1>3. ASSUME row.state \in InBackend,
             NEW chs \in {changes} \cup (IF row.state \in {"pausing", "canceling"}
                                         THEN {Aborted(changes, row.change)} ELSE {}),
             o \in Unavailable(row, chs) \cup
                   (CASE row.state = "canceling" -> Canceled(row, chs)
                      [] row.state = "pausing" -> Paused(row, chs)
                      [] OTHER -> Applied(row, chs))
      PROVE  Follows(t, row, changes, o)
  <2>1. row.change # 0 /\ chs \in {changes, Aborted(changes, row.change)}
    BY <1>3 DEF Fits
  <2>2. Follows(t, row, changes, Outcome(row, chs)) /\ chs \in Changes /\ Fits(t, row, chs)
    BY <2>1, AbortFollows
  <2>3. Follows(t, row, chs, o)
    <3>1. CASE o \in Unavailable(row, chs)
      BY <1>3, <2>2, <3>1, UnavailableFollows
    <3>2. CASE row.state \in {"pausing", "canceling"} /\ o \notin Unavailable(row, chs)
      BY <1>3, <2>2, <3>2, StoppingFollows
    <3>3. CASE row.state \notin {"pausing", "canceling"} /\ o \notin Unavailable(row, chs)
      <4>1. o \in Applied(row, chs)
        BY <1>3, <3>3
      <4>2. ~Halted(row)
        BY <1>3, <3>3 DEF Halted, InBackend
      <4> QED
        BY <2>1, <2>2, <4>1, <4>2, AppliedFollows
    <3> QED
      BY <3>1, <3>2, <3>3
  <2> QED
    BY <2>2, <2>3, FollowsInTurn, OutcomeParts
<1> QED
  BY <1>1, <1>2, <1>3 DEF Refreshed

\* reconcile(), for one task: nothing that the user has stopped is due.
LEMMA ReconciledFollows ==
    ASSUME NEW t \in TaskId, changes \in Changes, Fits(t, tasks[t], changes),
           NEW o \in Reconciled(t)
    PROVE  Follows(t, tasks[t], changes, o)
<1>1. PICK p \in Refreshed(tasks[t]) :
          o = p \/ (MayBeDue(p.row) /\ o \in Starts(t, p.row, p.changes))
  BY DEF Reconciled
<1>2. Follows(t, tasks[t], changes, p)
  BY RefreshedFollows
<1>3. CASE o = p
  BY <1>2, <1>3
<1>4. CASE MayBeDue(p.row) /\ o \in Starts(t, p.row, p.changes)
  <2>1. p.row.state \notin InBackend /\ ~Halted(p.row)
    BY <1>4 DEF MayBeDue, InBackend, Halted
  <2>2. Fits(t, p.row, p.changes) /\ p.changes \in Changes
    BY <1>2 DEF Follows, Moves, MakesNothing
  <2>3. Follows(t, p.row, p.changes, o)
    BY <1>4, <2>1, <2>2, StartsFollow
  <2> QED
    BY <1>2, <2>3, FollowsInTurn
<1> QED
  BY <1>1, <1>3, <1>4

\* confirm(), of a task that waits for its confirmation.
LEMMA ConfirmedFollows ==
    ASSUME NEW t \in TaskId, NEW row, changes \in Changes, Fits(t, row, changes),
           row.state = "awaiting_confirmation", NEW o \in Confirmed(t, row)
    PROVE  Follows(t, row, changes, o)
<1>1. row \in Row /\ row.state \notin InBackend /\ row.change = 0 /\ ~Halted(row)
  BY DEF Fits, InBackend, Halted
<1>2. ASSUME o = Outcome([row EXCEPT !.state = "awaiting_final_confirmation"], changes)
      PROVE  Follows(t, row, changes, o)
  <2> DEFINE next == [row EXCEPT !.state = "awaiting_final_confirmation"]
  <2>1. next \in Row /\ next.state \notin InBackend /\ next.change = 0
    BY <1>1 DEF Row, States, Unconfirmed, InBackend
  <2> HIDE DEF next
  <2>2. o = Outcome(next, changes)
    BY <1>2 DEF next
  <2> QED
    BY <1>1, <2>1, <2>2, RestFollows, OutcomeParts
<1>3. ASSUME o = Outcome(Offline(row), changes) PROVE Follows(t, row, changes, o)
  <2>1. Offline(row) \in Row /\ Offline(row).state \notin InBackend /\ Offline(row).change = 0
    BY <1>1, RetryRow DEF InBackend
  <2> QED
    BY <1>1, <1>3, <2>1, RestFollows, OutcomeParts
<1>4. ASSUME o \in Starts(t, row, changes) PROVE Follows(t, row, changes, o)
  BY <1>1, <1>4, StartsFollow
<1> QED
  BY <1>2, <1>3, <1>4 DEF Confirmed

-----------------------------------------------------------------------------
(* The steps.                                                              *)

\* Forget() keeps what still goes on and what a row refers to.
LEMMA ForgetKeeps ==
    ASSUME NEW list \in [TaskId -> Row], NEW chs \in Changes, NEW kept
    PROVE  /\ Forget(chs, list, kept) \in Changes
           /\ \A c \in ChangeId : /\ Forget(chs, list, kept)[c] \in {chs[c], NoChange}
                                  /\ AtWork(chs[c]) => Forget(chs, list, kept)[c] = chs[c]
           /\ \A t \in TaskId : Fits(t, list[t], chs) => Fits(t, list[t], Forget(chs, list, kept))
<1> DEFINE f == Forget(chs, list, kept)
<1>1. \A c \in ChangeId : \/ f[c] = chs[c]
                          \/ /\ f[c] = NoChange /\ ~AtWork(chs[c])
                             /\ \A t \in TaskId : list[t].change # c
  BY DEF Forget, AtWork
<1>2. f \in Changes
  <2>1. f = [c \in ChangeId |-> f[c]]
    BY DEF Forget
  <2>2. \A c \in ChangeId : f[c] \in Change
    BY <1>1, Numbers DEF Changes
  <2> HIDE DEF f
  <2> QED
    BY <2>1, <2>2 DEF Changes
<1> HIDE DEF f
<1>3. ASSUME NEW t \in TaskId, Fits(t, list[t], chs) PROVE Fits(t, list[t], f)
  <2>1. list[t].change # 0 => list[t].change \in ChangeId /\ f[list[t].change] = chs[list[t].change]
    BY <1>1, Numbers DEF Row
  <2>2. \A c \in ChangeId : AtWork(f[c]) => f[c] = chs[c]
    BY <1>1, Numbers DEF AtWork
  <2> QED
    BY <1>3, <2>1, <2>2 DEF Fits
<1> QED
  BY <1>1, <1>2, <1>3 DEF f

\* When changes are forgotten or nothing runs that did not run, the rows still fit
\* and the restore is still accounted for.
LEMMA ChangesKeep ==
    ASSUME RowsOK, NEW chs \in Changes, NEW kept, tasks' = tasks,
           \A c \in ChangeId : /\ chs[c].task = changes[c].task
                               /\ AtWork(chs[c]) => AtWork(changes[c])
                               /\ changes[c] = NoChange => chs[c] = NoChange,
           changes' = Forget(chs, tasks, kept)
    PROVE  /\ RowsOK'
           /\ \A c \in ChangeId : AtWork(changes'[c]) =>
            AtWork(changes[c]) /\ changes'[c].task = changes[c].task
           /\ \A c \in ChangeId : changes[c] = NoChange => changes'[c] = NoChange
<1>1. tasks \in [TaskId -> Row] /\ \A t \in TaskId : Fits(t, tasks[t], changes)
  BY DEF RowsOK
<1>2. \A t \in TaskId : Fits(t, tasks[t], chs)
  <2> SUFFICES ASSUME NEW t \in TaskId PROVE Fits(t, tasks[t], chs)
    OBVIOUS
  <2>1. Fits(t, tasks[t], changes)
    BY <1>1
  <2>2. tasks[t].change # 0 => tasks[t].change \in ChangeId
    BY <1>1, Numbers DEF Row
  <2> QED
    BY <2>1, <2>2 DEF Fits
<1>3. /\ changes' \in Changes
      /\ \A c \in ChangeId : changes'[c] \in {chs[c], NoChange}
      /\ \A t \in TaskId : Fits(t, tasks[t], changes')
  BY <1>1, <1>2, ForgetKeeps
<1>4. RowsOK'
  BY <1>1, <1>3 DEF RowsOK
<1>5. ~AtWork(NoChange)
  BY Numbers DEF AtWork
<1> QED
  BY <1>3, <1>4, <1>5

\* An outcome is taken over: the rows fit, a restore is still accounted for, and
\* only this task gets something new.
LEMMA RowsKeep ==
    ASSUME SoftwareInv, NEW t \in TaskId, tasks[t].state # "completed", NEW o,
           Moves(t, changes, o), tasks' = [tasks EXCEPT ![t] = o.row],
           changes' = Forget(o.changes, tasks', backup), UNCHANGED <<backup, torn>>,
           torn \/ (backup.state = "awaiting" => call' # NoCall)
    PROVE  /\ RowsOK' /\ RestoreAccounted'
           /\ tasks'[t] = o.row /\ \A k \in TaskId : k # t => tasks'[k] = tasks[k]
           /\ \A c \in ChangeId, k \in TaskId :
                 changes[c] = NoChange /\ changes'[c].task = k => k = t /\ ~MakesNothing(changes, o)
<1>1. /\ tasks \in [TaskId -> Row] /\ changes \in Changes
      /\ \A k \in TaskId : Fits(k, tasks[k], changes)
  BY DEF SoftwareInv, RowsOK
<1>2. /\ o.changes \in Changes /\ Fits(t, o.row, o.changes) /\ o.row \in Row
      /\ \A c \in ChangeId : \/ o.changes[c] = changes[c]
                             \/ /\ o.changes[c].task = t
                                /\ changes[c].task = t \/ changes[c] = NoChange
  BY DEF Moves, Fits
<1>3. /\ tasks' \in [TaskId -> Row] /\ tasks'[t] = o.row
      /\ \A k \in TaskId : k # t => tasks'[k] = tasks[k]
  BY <1>1, <1>2
<1>4. \A k \in TaskId : Fits(k, tasks'[k], o.changes)
  <2> SUFFICES ASSUME NEW k \in TaskId, k # t PROVE Fits(k, tasks[k], o.changes)
    BY <1>2, <1>3
  <2>1. Fits(k, tasks[k], changes)
    BY <1>1
  <2>2. tasks[k].change # 0 => tasks[k].change \in ChangeId
    BY <1>1, Numbers DEF Row
  <2>3. NoChange.task # k
    BY Numbers
  <2> QED
    BY <1>2, <2>1, <2>2, <2>3 DEF Fits
<1>5. /\ changes' \in Changes
      /\ \A c \in ChangeId : changes'[c] \in {o.changes[c], NoChange}
      /\ \A k \in TaskId : Fits(k, tasks'[k], changes')
  BY <1>2, <1>3, <1>4, ForgetKeeps
<1>6. RowsOK'
  BY <1>3, <1>5 DEF RowsOK
<1>7. \A c \in ChangeId : AtWork(changes'[c]) /\ changes'[c].task = 0 =>
          AtWork(changes[c]) /\ changes[c].task = 0
  BY <1>2, <1>5, Numbers DEF AtWork
<1>8. RestoreAccounted'
  <2> SUFFICES ASSUME ~torn PROVE RestoreAccounted'
    BY DEF RestoreAccounted
  <2> SUFFICES ASSUME NEW c \in ChangeId, AtWork(changes'[c]), changes'[c].task = 0
               PROVE  /\ backup.state = "restoring" /\ backup.change = c
                      /\ tasks'[backup.task].state = "completed"
    BY DEF RestoreAccounted, Running, AtWork
  <2>1. /\ backup.state = "restoring" /\ backup.change = c
        /\ tasks[backup.task].state = "completed"
    BY <1>7 DEF SoftwareInv, RestoreAccounted, Running, AtWork
  <2>2. backup.task \in TaskId
    BY <2>1 DEF SoftwareInv, BackupOK, Named
  <2> QED
    BY <1>3, <2>1, <2>2
<1>9. ASSUME NEW c \in ChangeId, NEW k \in TaskId, changes[c] = NoChange, changes'[c].task = k
      PROVE  k = t /\ ~MakesNothing(changes, o)
  <2>1. NoChange.task # k
    BY Numbers
  <2>2. changes'[c] = o.changes[c] /\ o.changes[c] # NoChange
    BY <1>5, <1>9, <2>1
  <2> QED
    BY <1>2, <1>9, <2>2 DEF MakesNothing
<1> QED
  BY <1>3, <1>6, <1>8, <1>9

\* An operation on a task, by the user's thread or the recovery thread.
LEMMA EndsKeeps ==
    ASSUME SoftwareInv, NEW t \in TaskId, NEW outcomes, Ends(t, outcomes),
           tasks[t].state # "completed",
           call = NoCall \/ tasks[t].state # "awaiting_confirmation",
           UNCHANGED <<backup, snapshot, call, torn>>,
           halted' \subseteq halted \cup {t},
           \A o \in outcomes : /\ Moves(t, changes, o)
                               /\ t \in halted' => Halted(o.row) /\ MakesNothing(changes, o)
    PROVE  SoftwareInv' /\ NothingMadeForHalted
<1>1. PICK o \in outcomes :
          /\ tasks' = [tasks EXCEPT ![t] = o.row]
          /\ changes' = Forget(o.changes, tasks', backup)
          /\ sync' = IF o.sync
                     THEN [row |-> [backup EXCEPT !.state =
                                      IF backup.state \in {"available", "unavailable"}
                                      THEN IF snapshot THEN "available" ELSE "unavailable"
                                      ELSE @],
                           read |-> backup]
                     ELSE sync
  BY DEF Ends
<1>2. torn \/ (backup.state = "awaiting" => call' # NoCall)
  BY DEF SoftwareInv, RestoreAccounted
<1>3. /\ RowsOK' /\ tasks'[t] = o.row /\ \A k \in TaskId : k # t => tasks'[k] = tasks[k]
      /\ \A c \in ChangeId, k \in TaskId :
            changes[c] = NoChange /\ changes'[c].task = k => k = t /\ ~MakesNothing(changes, o)
      /\ RestoreAccounted'
  BY <1>1, <1>2, RowsKeep
<1>4. CallOK'
  BY <1>3 DEF SoftwareInv, CallOK, NoCall
<1>5. BackupOK'
  <2> DEFINE row == [backup EXCEPT !.state = IF backup.state \in {"available", "unavailable"}
                                             THEN IF snapshot THEN "available" ELSE "unavailable"
                                             ELSE @]
  <2>1. CASE sync' = sync
    BY <2>1 DEF SoftwareInv, BackupOK
  <2>2. CASE sync' = [row |-> row, read |-> backup]
    <3>1. backup \in BackupRow /\ Named(backup)
      BY DEF SoftwareInv, BackupOK
    <3>2. /\ row \in BackupRow /\ row.change = backup.change /\ row.task = backup.task
          /\ \/ row.state = backup.state
             \/ {row.state, backup.state} \subseteq {"available", "unavailable"}
      BY <3>1 DEF BackupRow
    <3> HIDE DEF row
    <3>3. Named(row)
      BY <3>1, <3>2 DEF Named
    <3>4. sync'.row = row /\ sync'.read = backup /\ sync' \in [row : BackupRow, read : BackupRow]
      BY <2>2, <3>1, <3>2
    <3> QED
      BY <3>1, <3>2, <3>3, <3>4 DEF SoftwareInv, BackupOK
  <2> QED
    BY <1>1, <2>1, <2>2
<1>6. StoppedOK'
  BY <1>3 DEF SoftwareInv, StoppedOK
<1>7. NothingMadeForHalted
  BY <1>3 DEF NothingMadeForHalted
<1> QED
  BY <1>3, <1>4, <1>5, <1>6, <1>7 DEF SoftwareInv

\* What an action that leaves the changes alone must show.
LEMMA NothingMade ==
    ASSUME SoftwareInv, UNCHANGED changes
    PROVE  NothingMadeForHalted
BY Numbers DEF SoftwareInv, RowsOK, NothingMadeForHalted

\* A row of a task that nobody has seen.
LEMMA NewTask ==
    ASSUME SoftwareInv, NEW t \in TaskId, IsNew(t), NEW row \in Row,
           row.state = "awaiting_confirmation", row.change = 0,
           tasks' = [tasks EXCEPT ![t] = row], UNCHANGED <<changes, halted, torn>>
    PROVE  /\ RowsOK' /\ StoppedOK' /\ tasks'[t].state = "awaiting_confirmation"
           /\ \A k \in TaskId : tasks[k].state = "completed" => tasks'[k] = tasks[k]
<1>1. tasks \in [TaskId -> Row] /\ Fits(t, tasks[t], changes) /\ tasks[t] = NoTask
  BY DEF SoftwareInv, RowsOK, IsNew
<1>2. /\ tasks' \in [TaskId -> Row] /\ tasks'[t] = row
      /\ \A k \in TaskId : k # t => tasks'[k] = tasks[k]
  BY <1>1
<1>3. Fits(t, row, changes)
  BY <1>1, Numbers DEF Fits, InBackend, NoTask
<1>4. RowsOK'
  <2> SUFFICES ASSUME NEW k \in TaskId PROVE Fits(k, tasks'[k], changes)
    BY <1>2 DEF SoftwareInv, RowsOK
  <2> QED
    BY <1>2, <1>3 DEF SoftwareInv, RowsOK
<1>5. StoppedOK'
  BY <1>1, <1>2 DEF SoftwareInv, StoppedOK, Halted, NoTask
<1> QED
  BY <1>1, <1>2, <1>4, <1>5 DEF NoTask

\* prepare_install(), prepare_remove(): nothing of a completed task changes.
LEMMA PrepareKeeps ==
    ASSUME SoftwareInv, NEW t \in TaskId, NEW action \in {"install", "remove"},
           NEW keep \in BOOLEAN,
           PrepareTask(t, action, keep)
    PROVE  SoftwareInv' /\ NothingMadeForHalted
<1> DEFINE row == [NoTask EXCEPT !.action = action, !.keep = keep,
                                 !.state = "awaiting_confirmation"]
<1>1. /\ RowsOK' /\ StoppedOK'
      /\ \A k \in TaskId : tasks[k].state = "completed" => tasks'[k] = tasks[k]
  <2>1. row \in Row /\ row.state = "awaiting_confirmation" /\ row.change = 0
    BY Numbers DEF NoTask, Row, States, Unconfirmed
  <2>2. IsNew(t) /\ tasks' = [tasks EXCEPT ![t] = row] /\ UNCHANGED <<changes, halted, torn>>
    BY DEF PrepareTask
  <2> HIDE DEF row
  <2> QED
    BY <2>1, <2>2, NewTask
<1>2. UNCHANGED <<changes, backup, snapshot, call, sync, halted, torn>> /\ call = NoCall
  BY DEF PrepareTask, Serves
<1>3. CallOK'
  BY <1>2 DEF SoftwareInv, CallOK, NoCall
<1>4. BackupOK'
  BY <1>2 DEF SoftwareInv, BackupOK
<1>5. RestoreAccounted'
  BY <1>1, <1>2 DEF SoftwareInv, RestoreAccounted, BackupOK, Named, Running
<1> QED
  BY <1>1, <1>2, <1>3, <1>4, <1>5, NothingMade DEF SoftwareInv

\* confirm()
LEMMA ConfirmKeeps ==
    ASSUME SoftwareInv, NEW t \in TaskId, ConfirmTask(t)
    PROVE  SoftwareInv' /\ NothingMadeForHalted
<1>1. Fits(t, tasks[t], changes) /\ changes \in Changes
  BY DEF SoftwareInv, RowsOK
<1>2. /\ call = NoCall /\ UNCHANGED <<backup, snapshot, call, torn, halted>>
      /\ tasks[t].state \in {"awaiting_confirmation", "awaiting_final_confirmation"}
  BY DEF ConfirmTask, Serves
<1>3. t \notin halted
  BY <1>2 DEF SoftwareInv, StoppedOK, Halted
<1>4. CASE tasks[t].state = "awaiting_confirmation"
  <2>1. Ends(t, Confirmed(t, tasks[t]))
    BY <1>4 DEF ConfirmTask
  <2>2. \A o \in Confirmed(t, tasks[t]) : Moves(t, changes, o)
    BY <1>1, <1>4, ConfirmedFollows DEF Follows
  <2> HIDE DEF SoftwareInv
  <2> QED
    BY <1>2, <1>3, <1>4, <2>1, <2>2, EndsKeeps
<1>5. CASE tasks[t].state = "awaiting_final_confirmation"
  <2>1. Ends(t, Starts(t, tasks[t], changes))
    BY <1>5 DEF ConfirmTask
  <2>2. \A o \in Starts(t, tasks[t], changes) : Moves(t, changes, o)
    BY <1>1, <1>5, StartsFollow DEF InBackend
  <2> QED
    BY <1>2, <1>3, <1>5, <2>1, <2>2, EndsKeeps
<1> QED
  BY <1>2, <1>4, <1>5

\* A row that rests as the user wanted it, and nothing else.
LEMMA RestsKeeps ==
    ASSUME SoftwareInv, NEW t \in TaskId, tasks[t].state \in Unconfirmed \cup Waiting,
           NEW state \in {"paused", "canceled"}
    PROVE  LET o == Outcome(Leaves(tasks[t], state), changes)
           IN  Moves(t, changes, o) /\ Halted(o.row) /\ MakesNothing(changes, o)
<1> DEFINE next == Leaves(tasks[t], state)
           o == Outcome(next, changes)
<1>1. Fits(t, tasks[t], changes) /\ changes \in Changes /\ tasks[t] \in Row
  BY DEF SoftwareInv, RowsOK, Fits
<1>2. state \in States \ InBackend
  BY DEF States, InBackend, Waiting, Ended
<1>3. next \in Row /\ next.state = state /\ next.change = 0
  BY <1>1, <1>2, LeavesRow
<1>4. tasks[t].change = 0
  BY <1>1 DEF Fits, InBackend, Unconfirmed, Waiting
<1>5. Halted(next)
  BY <1>3 DEF Halted
<1> HIDE DEF next
<1>6. o.row = next /\ o.changes = changes /\ o.sync \in BOOLEAN
  BY OutcomeParts
<1> HIDE DEF o
<1>7. Moves(t, changes, o)
  BY <1>1, <1>2, <1>3, <1>4, <1>6, RestFollows
<1>8. Halted(o.row) /\ MakesNothing(changes, o)
  BY <1>5, <1>6 DEF MakesNothing
<1> QED
  BY <1>7, <1>8 DEF o, next

\* pause()
LEMMA PauseKeeps ==
    ASSUME SoftwareInv, NEW t \in TaskId, PauseTask(t)
    PROVE  SoftwareInv' /\ NothingMadeForHalted
<1>1. Fits(t, tasks[t], changes) /\ changes \in Changes /\ tasks[t] \in Row
  BY DEF SoftwareInv, RowsOK, Fits
<1>2. /\ call = NoCall /\ UNCHANGED <<backup, snapshot, call, torn>> /\ halted' = halted \cup {t}
      /\ tasks[t].state # "completed"
  BY DEF PauseTask, Serves, Waiting
<1>3. CASE tasks[t].state \in Waiting \ {"paused"}
           /\ Ends(t, {Outcome(Leaves(tasks[t], "paused"), changes)})
  <2>1. LET o == Outcome(Leaves(tasks[t], "paused"), changes)
        IN  Moves(t, changes, o) /\ Halted(o.row) /\ MakesNothing(changes, o)
    BY <1>3, RestsKeeps
  <2> QED
    BY <1>2, <1>3, <2>1, EndsKeeps
<1>4. CASE tasks[t].state = "pausing" /\ tasks[t].reason # "user"
           /\ Ends(t, {Outcome([tasks[t] EXCEPT !.reason = "user"], changes)})
  <2> DEFINE next == [tasks[t] EXCEPT !.reason = "user"]
             o == Outcome(next, changes)
  <2>1. next \in Row /\ next.state = "pausing" /\ next.reason = "user"
        /\ next.change = tasks[t].change
    BY <1>1, <1>4 DEF Row, Reasons
  <2>2. next.state \in InBackend /\ Halted(next) /\ tasks[t].change # 0
    BY <1>1, <1>4, <2>1 DEF InBackend, Halted, Fits
  <2> HIDE DEF next
  <2>3. o.row = next /\ o.changes = changes /\ o.sync \in BOOLEAN
    BY OutcomeParts
  <2>4. Ends(t, {o})
    BY <1>4 DEF next
  <2> HIDE DEF o
  <2>5. Follows(t, tasks[t], changes, o)
    BY <1>1, <2>1, <2>2, <2>3, WorkFollows
  <2>6. Moves(t, changes, o) /\ Halted(o.row) /\ MakesNothing(changes, o)
    BY <2>2, <2>3, <2>5 DEF Follows, MakesNothing
  <2> QED
    BY <1>2, <2>4, <2>6, EndsKeeps
<1>5. CASE tasks[t].state \in {"running", "recovering"} /\ Ends(t, Stops(tasks[t], changes, "user"))
  <2>1. tasks[t].change # 0
    BY <1>1, <1>5 DEF Fits, InBackend
  <2>2. \A o \in Stops(tasks[t], changes, "user") :
            Moves(t, changes, o) /\ Halted(o.row) /\ MakesNothing(changes, o)
    BY <1>1, <2>1, StopsFollow DEF Follows
  <2> QED
    BY <1>2, <1>5, <2>2, EndsKeeps
<1> QED
  BY <1>3, <1>4, <1>5 DEF PauseTask

\* resume(): the only way back for what the user has paused.
LEMMA ResumeKeeps ==
    ASSUME SoftwareInv, NEW t \in TaskId, ResumeTask(t)
    PROVE  SoftwareInv' /\ NothingMadeForHalted
<1> DEFINE outcomes == {Outcome(Offline(tasks[t]), changes)} \cup Starts(t, tasks[t], changes)
<1>1. Fits(t, tasks[t], changes) /\ changes \in Changes /\ tasks[t] \in Row
  BY DEF SoftwareInv, RowsOK, Fits
<1>2. /\ call = NoCall /\ UNCHANGED <<backup, snapshot, call, torn>> /\ halted' = halted \ {t}
      /\ tasks[t].state \in {"paused", "interrupted", "retry_wait"} /\ Ends(t, outcomes)
  BY DEF ResumeTask, Serves
<1>3. tasks[t].state \notin InBackend /\ tasks[t].change = 0
  BY <1>1, <1>2 DEF Fits, InBackend
<1>4. \A o \in Starts(t, tasks[t], changes) : Moves(t, changes, o)
  BY <1>1, <1>3, StartsFollow
<1>5. Moves(t, changes, Outcome(Offline(tasks[t]), changes))
  <2>1. Offline(tasks[t]) \in Row /\ Offline(tasks[t]).state \notin InBackend
        /\ Offline(tasks[t]).change = 0
    BY <1>1, RetryRow DEF InBackend
  <2> QED
    BY <1>1, <1>3, <2>1, RestFollows, OutcomeParts
<1> HIDE DEF outcomes
<1>6. \A o \in outcomes : Moves(t, changes, o)
  BY <1>4, <1>5 DEF outcomes
<1> QED
  BY <1>2, <1>6, EndsKeeps

\* cancel()
LEMMA CancelKeeps ==
    ASSUME SoftwareInv, NEW t \in TaskId, CancelTask(t)
    PROVE  SoftwareInv' /\ NothingMadeForHalted
<1>1. Fits(t, tasks[t], changes) /\ changes \in Changes
  BY DEF SoftwareInv, RowsOK
<1>2. /\ call = NoCall /\ UNCHANGED <<backup, snapshot, call, torn>> /\ halted' = halted \cup {t}
      /\ tasks[t].state # "completed"
  BY DEF CancelTask, Serves, Waiting, Unconfirmed, InBackend
<1>3. CASE tasks[t].state \in Unconfirmed \cup Waiting
           /\ Ends(t, {Outcome(Leaves(tasks[t], "canceled"), changes)})
  <2>1. LET o == Outcome(Leaves(tasks[t], "canceled"), changes)
        IN  Moves(t, changes, o) /\ Halted(o.row) /\ MakesNothing(changes, o)
    BY <1>3, RestsKeeps
  <2> QED
    BY <1>2, <1>3, <2>1, EndsKeeps
<1>4. CASE tasks[t].state \in InBackend /\ Ends(t, Stops(tasks[t], changes, "cancel"))
  <2>1. tasks[t].change # 0
    BY <1>1, <1>4 DEF Fits
  <2>2. \A o \in Stops(tasks[t], changes, "cancel") :
            Moves(t, changes, o) /\ Halted(o.row) /\ MakesNothing(changes, o)
    BY <1>1, <2>1, StopsFollow DEF Follows
  <2> QED
    BY <1>2, <1>4, <2>2, EndsKeeps
<1> QED
  BY <1>3, <1>4 DEF CancelTask

\* reconcile(), by the recovery thread.
LEMMA ReconcileKeeps ==
    ASSUME SoftwareInv, NEW t \in TaskId, ReconcileTask(t)
    PROVE  SoftwareInv' /\ NothingMadeForHalted
<1>1. Fits(t, tasks[t], changes) /\ changes \in Changes
  BY DEF SoftwareInv, RowsOK
<1>2. /\ UNCHANGED <<backup, snapshot, call, torn, halted>> /\ Ends(t, Reconciled(t))
      /\ tasks[t].state # "completed" /\ tasks[t].state # "awaiting_confirmation"
  BY DEF ReconcileTask, Waiting, InBackend
<1>3. \A o \in Reconciled(t) : /\ Moves(t, changes, o)
                               /\ t \in halted => Halted(o.row) /\ MakesNothing(changes, o)
  BY <1>1, ReconciledFollows DEF Follows, SoftwareInv, StoppedOK
<1> QED
  BY <1>2, <1>3, EndsKeeps

\* The rest of a step that leaves the tasks, the changes and what was stopped alone.
LEMMA TasksStay ==
    ASSUME SoftwareInv, UNCHANGED <<tasks, changes, halted>>, torn' \in BOOLEAN
    PROVE  RowsOK' /\ StoppedOK' /\ NothingMadeForHalted
BY NothingMade DEF SoftwareInv, RowsOK, StoppedOK

\* BackupManager.sync() writes its row: what it names was read with it, or the
\* row has changed in between.
LEMMA WriteSyncKeeps ==
    ASSUME SoftwareInv, WriteSync
    PROVE  SoftwareInv' /\ NothingMadeForHalted
<1>1. /\ sync # NoSync /\ backup' = sync.row /\ sync' = NoSync
      /\ torn' = (torn \/ backup # sync.read)
      /\ UNCHANGED <<tasks, changes, snapshot, call, halted>>
  BY DEF WriteSync
<1>2. RowsOK' /\ StoppedOK' /\ NothingMadeForHalted
  BY <1>1, TasksStay DEF SoftwareInv, StoppedOK
<1>3. CallOK'
  BY <1>1 DEF SoftwareInv, CallOK
<1>4. BackupOK'
  BY <1>1 DEF SoftwareInv, BackupOK
<1>5. RestoreAccounted'
  <2> SUFFICES ASSUME ~torn, backup = sync.read PROVE RestoreAccounted'
    BY <1>1 DEF RestoreAccounted, SoftwareInv, StoppedOK
  <2>1. /\ sync.row.change = backup.change /\ sync.row.task = backup.task
        /\ \/ sync.row.state = backup.state
           \/ {sync.row.state, backup.state} \subseteq {"available", "unavailable"}
    BY <1>1 DEF SoftwareInv, BackupOK
  <2>2. backup.state = "awaiting" => call # NoCall
    BY DEF SoftwareInv, RestoreAccounted
  <2>3. \A c \in ChangeId : Running(c) /\ changes[c].task = 0 =>
            /\ backup.state = "restoring" /\ backup.change = c
            /\ tasks[backup.task].state = "completed"
    BY DEF SoftwareInv, RestoreAccounted
  <2> QED
    BY <1>1, <2>1, <2>2, <2>3 DEF RestoreAccounted, Running
<1> QED
  BY <1>2, <1>3, <1>4, <1>5 DEF SoftwareInv

\* cancel_restore_preparation()
LEMMA GiveUpKeeps ==
    ASSUME SoftwareInv, GiveUp, UNCHANGED <<tasks, changes, snapshot, sync, halted, torn>>
    PROVE  SoftwareInv' /\ NothingMadeForHalted
<1>1. /\ call' = NoCall
      /\ backup' = IF backup.state = "awaiting"
                   THEN [backup EXCEPT !.state = "available"] ELSE backup
  BY DEF GiveUp
<1>2. RowsOK' /\ StoppedOK' /\ NothingMadeForHalted
  BY TasksStay DEF SoftwareInv, StoppedOK
<1>3. CallOK'
  BY <1>1, Numbers DEF CallOK, NoCall
<1>4. backup \in BackupRow /\ Named(backup) /\ RestoreAccounted
  BY DEF SoftwareInv, BackupOK
<1>5. backup' \in BackupRow /\ Named(backup') /\ backup'.state # "awaiting"
      /\ (backup.state # "awaiting" => backup' = backup)
  <2>1. CASE backup.state = "awaiting"
    BY <1>1, <1>4, <2>1 DEF BackupRow, Named
  <2>2. CASE backup.state # "awaiting"
    BY <1>1, <1>4, <2>2
  <2> QED
    BY <2>1, <2>2
<1>6. BackupOK'
  BY <1>5 DEF SoftwareInv, BackupOK
<1>7. RestoreAccounted'
  BY <1>4, <1>5 DEF RestoreAccounted, Running
<1> QED
  BY <1>2, <1>3, <1>6, <1>7 DEF SoftwareInv

\* prepare_restore()
LEMMA PrepareRestoreKeeps ==
    ASSUME SoftwareInv, PrepareRestore
    PROVE  SoftwareInv' /\ NothingMadeForHalted
<1> DEFINE next == [backup EXCEPT !.state = "awaiting"]
<1>1. /\ backup.state = "available" /\ backup' = next /\ call' = [NoCall EXCEPT !.at = "prepare"]
      /\ UNCHANGED <<tasks, changes, snapshot, sync, halted, torn>>
  BY DEF PrepareRestore
<1>2. RowsOK' /\ StoppedOK' /\ NothingMadeForHalted
  BY <1>1, TasksStay DEF SoftwareInv, StoppedOK
<1>3. call' = [at |-> "prepare", task |-> 0] /\ call'.at = "prepare"
  BY <1>1 DEF NoCall
<1>4. CallOK' /\ call' # NoCall
  BY <1>3, Numbers DEF CallOK, NoCall
<1>5. backup' \in BackupRow /\ backup'.state = "awaiting"
  BY <1>1 DEF SoftwareInv, BackupOK, BackupRow
<1>6. BackupOK'
  BY <1>1, <1>5 DEF SoftwareInv, BackupOK, Named
<1>7. RestoreAccounted'
  BY <1>1, <1>4 DEF SoftwareInv, RestoreAccounted, Running
<1> QED
  BY <1>2, <1>4, <1>6, <1>7 DEF SoftwareInv

\* The task that installs the application again.
LEMMA RestoreInstallKeeps ==
    ASSUME SoftwareInv, RestoreInstall
    PROVE  SoftwareInv' /\ NothingMadeForHalted
<1>1. UNCHANGED <<changes, snapshot, sync, halted, torn>>
  BY DEF RestoreInstall
<1>2. CASE GiveUp /\ UNCHANGED tasks
  BY <1>1, <1>2, GiveUpKeeps
<1>3. ASSUME NEW t \in TaskId, IsNew(t), call' = [at |-> "confirm", task |-> t], UNCHANGED backup,
             tasks' = [tasks EXCEPT ![t] = [NoTask EXCEPT !.action = "install",
                                                          !.state = "awaiting_confirmation"]]
      PROVE  SoftwareInv' /\ NothingMadeForHalted
  <2> DEFINE row == [NoTask EXCEPT !.action = "install", !.state = "awaiting_confirmation"]
  <2>1. row \in Row /\ row.state = "awaiting_confirmation" /\ row.change = 0
    BY Numbers DEF NoTask, Row, States, Unconfirmed
  <2> HIDE DEF row
  <2>2. /\ RowsOK' /\ StoppedOK' /\ tasks'[t].state = "awaiting_confirmation"
        /\ \A k \in TaskId : tasks[k].state = "completed" => tasks'[k] = tasks[k]
    BY <1>1, <1>3, <2>1, NewTask DEF row
  <2>3. CallOK' /\ call' # NoCall
    BY <1>3, <2>2, Numbers DEF CallOK, NoCall
  <2>4. BackupOK'
    BY <1>1, <1>3 DEF SoftwareInv, BackupOK
  <2>5. RestoreAccounted'
    BY <1>1, <1>3, <2>2, <2>3 DEF SoftwareInv, RestoreAccounted, BackupOK, Named, Running
  <2> QED
    BY <1>1, <2>2, <2>3, <2>4, <2>5, NothingMade DEF SoftwareInv
<1> QED
  BY <1>2, <1>3 DEF RestoreInstall

\* Its confirmation, by the same request.
LEMMA RestoreConfirmKeeps ==
    ASSUME SoftwareInv, RestoreConfirm
    PROVE  SoftwareInv' /\ NothingMadeForHalted
<1>1. call.at = "confirm" /\ UNCHANGED <<snapshot, sync, halted, torn>>
  BY DEF RestoreConfirm
<1>2. CASE GiveUp /\ UNCHANGED <<tasks, changes>>
  BY <1>1, <1>2, GiveUpKeeps
<1>3. ASSUME NEW o \in Confirmed(call.task, tasks[call.task]),
             tasks' = [tasks EXCEPT ![call.task] = o.row],
             changes' = Forget(o.changes, tasks', backup),
             call' = [call EXCEPT !.at = "begin"], UNCHANGED backup
      PROVE  SoftwareInv' /\ NothingMadeForHalted
  <2>1. PICK t \in TaskId : call.task = t /\ tasks[t].state = "awaiting_confirmation"
    BY <1>1 DEF SoftwareInv, CallOK
  <2>2. Fits(t, tasks[t], changes) /\ changes \in Changes
    BY DEF SoftwareInv, RowsOK
  <2>3. Moves(t, changes, o)
    BY <1>3, <2>1, <2>2, ConfirmedFollows DEF Follows
  <2>4. /\ call' \in [at : {"idle", "prepare", "confirm", "begin"}, task : 0 .. MaxTasks]
        /\ call'.at = "begin" /\ call'.task = t /\ call' # NoCall
    BY <1>3, <2>1 DEF SoftwareInv, CallOK, NoCall
  <2>5. /\ RowsOK' /\ RestoreAccounted'
        /\ tasks'[t] = o.row /\ \A k \in TaskId : k # t => tasks'[k] = tasks[k]
        /\ \A c \in ChangeId, k \in TaskId :
              changes[c] = NoChange /\ changes'[c].task = k => k = t /\ ~MakesNothing(changes, o)
    BY <1>1, <1>3, <2>1, <2>3, <2>4, RowsKeep
  <2>6. t \notin halted
    BY <2>1 DEF SoftwareInv, StoppedOK, Halted
  <2>7. CallOK'
    BY <2>4 DEF CallOK
  <2>8. BackupOK'
    BY <1>1, <1>3 DEF SoftwareInv, BackupOK
  <2>9. StoppedOK'
    BY <1>1, <2>5, <2>6 DEF SoftwareInv, StoppedOK
  <2>10. NothingMadeForHalted
    BY <1>1, <2>5, <2>6 DEF NothingMadeForHalted
  <2> QED
    BY <2>5, <2>7, <2>8, <2>9, <2>10 DEF SoftwareInv
<1> QED
  BY <1>2, <1>3 DEF RestoreConfirm

\* begin_reinstall(): no restore runs while the row waits for one.
LEMMA BeginReinstallKeeps ==
    ASSUME SoftwareInv, BeginReinstall
    PROVE  SoftwareInv' /\ NothingMadeForHalted
<1>1. call.at = "begin" /\ UNCHANGED <<tasks, changes, snapshot, sync, halted, torn>>
  BY DEF BeginReinstall
<1>2. CASE GiveUp
  BY <1>1, <1>2, GiveUpKeeps
<1>3. CASE /\ backup.state = "awaiting" /\ call' = NoCall
           /\ backup' = [state |-> "reinstalling", task |-> call.task, change |-> 0]
  <2>1. call.task \in TaskId
    BY <1>1 DEF SoftwareInv, CallOK
  <2>2. RowsOK' /\ StoppedOK' /\ NothingMadeForHalted
    BY <1>1, TasksStay DEF SoftwareInv, StoppedOK
  <2>3. CallOK'
    BY <1>3, Numbers DEF CallOK, NoCall
  <2>4. backup' \in BackupRow /\ backup'.state = "reinstalling" /\ backup'.task \in TaskId
    BY <1>3, <2>1, Numbers DEF BackupRow
  <2>5. BackupOK'
    BY <1>1, <2>4 DEF SoftwareInv, BackupOK, Named
  <2>6. RestoreAccounted'
    BY <1>1, <1>3, <2>4 DEF SoftwareInv, RestoreAccounted, Running
  <2> QED
    BY <2>2, <2>3, <2>5, <2>6 DEF SoftwareInv
<1> QED
  BY <1>2, <1>3 DEF BeginReinstall

\* continue_reinstall(): the data are restored by the first change that is made
\* for it, after the task was completed.
LEMMA ContinueReinstallKeeps ==
    ASSUME SoftwareInv, ContinueReinstall
    PROVE  SoftwareInv' /\ NothingMadeForHalted
<1>1. /\ backup.state = "reinstalling" /\ backup.task \in TaskId /\ backup \in BackupRow
      /\ UNCHANGED <<tasks, snapshot, call, sync, halted, torn>>
  BY DEF ContinueReinstall, SoftwareInv, BackupOK, Named
<1>2. CASE backup' = [backup EXCEPT !.state = "available", !.task = 0] /\ UNCHANGED changes
  <2>1. RowsOK' /\ StoppedOK' /\ NothingMadeForHalted
    BY <1>1, <1>2, TasksStay DEF SoftwareInv, StoppedOK
  <2>2. CallOK'
    BY <1>1 DEF SoftwareInv, CallOK
  <2>3. backup' \in BackupRow /\ backup'.state = "available"
    BY <1>1, <1>2, Numbers DEF BackupRow
  <2>4. BackupOK'
    BY <1>1, <2>3 DEF SoftwareInv, BackupOK, Named
  <2>5. RestoreAccounted'
    BY <1>1, <1>2, <2>3 DEF SoftwareInv, RestoreAccounted, Running
  <2> QED
    BY <2>1, <2>2, <2>4, <2>5 DEF SoftwareInv
<1>3. ASSUME NEW m \in Made(changes, 0), changes' = m.changes,
             backup' = [backup EXCEPT !.state = "restoring", !.change = m.id],
             tasks[backup.task].state = "completed"
      PROVE  SoftwareInv' /\ NothingMadeForHalted
  <2>1. /\ m.id \in ChangeId /\ changes[m.id] = NoChange /\ m.changes \in Changes
        /\ m.changes[m.id].task = 0
        /\ \A c \in ChangeId : c # m.id => m.changes[c] = changes[c]
    <3>1. changes \in Changes /\ 0 \in 0 .. MaxTasks
      BY Numbers DEF SoftwareInv, RowsOK
    <3> QED
      BY <3>1, MadeChange
  <2>2. RowsOK'
    <3> SUFFICES ASSUME NEW t \in TaskId PROVE Fits(t, tasks[t], m.changes)
      BY <1>1, <1>3, <2>1 DEF SoftwareInv, RowsOK
    <3>1. Fits(t, tasks[t], changes) /\ tasks[t] \in Row
      BY DEF SoftwareInv, RowsOK, Fits
    <3>2. tasks[t].change # 0 => tasks[t].change \in ChangeId
      BY <3>1, Numbers DEF Row
    <3>3. NoChange.task # t /\ t # 0
      BY Numbers
    <3> QED
      BY <2>1, <3>1, <3>2, <3>3 DEF Fits
  <2>3. CallOK'
    BY <1>1 DEF SoftwareInv, CallOK
  <2>4. /\ backup' \in BackupRow /\ backup'.state = "restoring" /\ backup'.change = m.id
        /\ backup'.task = backup.task
    BY <1>1, <1>3, <2>1, Numbers DEF BackupRow
  <2>5. BackupOK'
    BY <1>1, <2>4 DEF SoftwareInv, BackupOK, Named
  <2>6. RestoreAccounted'
    <3>1. \A c \in ChangeId : c # m.id /\ ~torn => ~(Running(c) /\ changes[c].task = 0)
      BY <1>1 DEF SoftwareInv, RestoreAccounted
    <3> QED
      BY <1>1, <1>3, <2>1, <2>4, <3>1 DEF RestoreAccounted, Running
  <2>7. StoppedOK'
    BY <1>1 DEF SoftwareInv, StoppedOK
  <2>8. NothingMadeForHalted
    BY <1>3, <2>1, Numbers DEF NothingMadeForHalted
  <2> QED
    BY <2>2, <2>3, <2>5, <2>6, <2>7, <2>8 DEF SoftwareInv
<1> QED
  BY <1>2, <1>3 DEF ContinueReinstall, RestoreStarts

\* refresh_restore(): the change has ended.
LEMMA RefreshRestoreKeeps ==
    ASSUME SoftwareInv, RefreshRestore
    PROVE  SoftwareInv' /\ NothingMadeForHalted
<1> DEFINE after == IF Progress(changes[backup.change]) = "completed"
                    THEN "restored" ELSE "available"
<1>1. /\ backup.state = "restoring" /\ Progress(changes[backup.change]) # "running"
      /\ backup' = [backup EXCEPT !.state = after, !.change = 0]
      /\ changes' = Forget(changes, tasks, backup')
      /\ UNCHANGED <<tasks, snapshot, call, sync, halted, torn>>
  BY DEF RefreshRestore
<1>2. ~AtWork(changes[backup.change])
  BY <1>1, ProgressSays
<1>3. backup \in BackupRow /\ changes \in Changes /\ RowsOK
  BY DEF SoftwareInv, BackupOK, RowsOK
<1>4. /\ RowsOK'
      /\ \A c \in ChangeId : AtWork(changes'[c]) =>
            AtWork(changes[c]) /\ changes'[c].task = changes[c].task
      /\ \A c \in ChangeId : changes[c] = NoChange => changes'[c] = NoChange
  BY <1>1, <1>3, ChangesKeep
<1>5. backup' \in BackupRow /\ backup'.state \in {"restored", "available"}
  <2>1. after \in {"restored", "available"}
    OBVIOUS
  <2> HIDE DEF after
  <2> QED
    BY <1>1, <1>3, <2>1, Numbers DEF BackupRow
<1>6. CallOK'
  BY <1>1 DEF SoftwareInv, CallOK
<1>7. BackupOK'
  BY <1>1, <1>5 DEF SoftwareInv, BackupOK, Named
<1>8. StoppedOK'
  BY <1>1 DEF SoftwareInv, StoppedOK
<1>9. RestoreAccounted'
  <2>1. \A c \in ChangeId : ~torn => ~(AtWork(changes[c]) /\ changes[c].task = 0)
    BY <1>2 DEF SoftwareInv, RestoreAccounted, Running, AtWork
  <2> HIDE DEF after
  <2> QED
    BY <1>1, <1>4, <1>5, <2>1 DEF RestoreAccounted, Running, AtWork
<1>10. NothingMadeForHalted
  BY <1>4, Numbers DEF NothingMadeForHalted
<1> QED
  BY <1>4, <1>6, <1>7, <1>8, <1>9, <1>10 DEF SoftwareInv

\* snapd goes on with a change: what it does is done for the same task.
LEMMA ChangeMovesKeeps ==
    ASSUME SoftwareInv, NEW c \in ChangeId, ChangeMoves(c)
    PROVE  SoftwareInv' /\ NothingMadeForHalted
<1>1. PICK next : /\ \/ /\ changes[c].status = "download"
                        /\ next \in {"work", "done", "error", "undone"}
                     \/ changes[c].status = "work" /\ next \in {"done", "error", "undone"}
                     \/ changes[c].status = "abort" /\ next \in {"undone", "error"}
                  /\ changes' = Forget([changes EXCEPT ![c].status = next], tasks, backup)
                  /\ snapshot' \in BOOLEAN
  BY DEF ChangeMoves
<1>2. UNCHANGED <<tasks, backup, call, sync, halted, torn>>
  BY DEF ChangeMoves
<1> DEFINE chs == [changes EXCEPT ![c].status = next]
<1>3. changes \in Changes /\ RowsOK
  BY DEF SoftwareInv, RowsOK
<1>4. /\ chs \in Changes
      /\ \A k \in ChangeId : /\ chs[k].task = changes[k].task
                             /\ AtWork(chs[k]) => AtWork(changes[k])
                             /\ changes[k] = NoChange => chs[k] = NoChange
  <2>1. next \in Statuses /\ changes[c].status # "none"
    BY <1>1 DEF Statuses
  <2>2. chs \in Changes
    BY <1>3, <2>1 DEF Changes, Change
  <2>3. /\ \A k \in ChangeId : k # c => chs[k] = changes[k]
        /\ chs[c].task = changes[c].task /\ chs[c].status = next
    BY <1>3 DEF Changes, Change
  <2>4. changes[c] # NoChange
    BY <2>1, Numbers
  <2>5. AtWork(chs[c]) => AtWork(changes[c])
    BY <1>1, <2>3 DEF AtWork
  <2> HIDE DEF chs
  <2> QED
    BY <2>2, <2>3, <2>4, <2>5
<1> HIDE DEF chs
<1>5. /\ RowsOK'
      /\ \A k \in ChangeId : AtWork(changes'[k]) =>
            AtWork(changes[k]) /\ changes'[k].task = changes[k].task
      /\ \A k \in ChangeId : changes[k] = NoChange => changes'[k] = NoChange
  BY <1>1, <1>2, <1>3, <1>4, ChangesKeep DEF chs
<1>6. CallOK'
  BY <1>2 DEF SoftwareInv, CallOK
<1>7. BackupOK'
  BY <1>1, <1>2 DEF SoftwareInv, BackupOK
<1>8. StoppedOK'
  BY <1>2 DEF SoftwareInv, StoppedOK
<1>9. RestoreAccounted'
  BY <1>2, <1>5 DEF SoftwareInv, RestoreAccounted, Running, AtWork
<1>10. NothingMadeForHalted
  BY <1>5, Numbers DEF NothingMadeForHalted
<1> QED
  BY <1>5, <1>6, <1>7, <1>8, <1>9, <1>10 DEF SoftwareInv

LEMMA SnapshotForgottenKeeps ==
    ASSUME SoftwareInv, SnapshotForgotten
    PROVE  SoftwareInv' /\ NothingMadeForHalted
<1>1. snapshot' \in BOOLEAN /\ UNCHANGED <<tasks, changes, backup, call, sync, halted, torn>>
  BY DEF SnapshotForgotten
<1>2. RowsOK' /\ StoppedOK' /\ NothingMadeForHalted
  BY <1>1, TasksStay DEF SoftwareInv, StoppedOK
<1> QED
  BY <1>1, <1>2 DEF SoftwareInv, CallOK, BackupOK, RestoreAccounted, Running

\* The process ends: the rows stay.
LEMMA WorkerDiesKeeps ==
    ASSUME SoftwareInv, WorkerDies
    PROVE  SoftwareInv' /\ NothingMadeForHalted
<1>1. /\ call' = NoCall /\ sync' = NoSync /\ torn' = (torn \/ call # NoCall)
      /\ UNCHANGED <<tasks, changes, backup, snapshot, halted>>
  BY DEF WorkerDies
<1>2. RowsOK' /\ StoppedOK' /\ NothingMadeForHalted
  BY <1>1, TasksStay DEF SoftwareInv, StoppedOK
<1>3. CallOK'
  BY <1>1, Numbers DEF CallOK, NoCall
<1>4. BackupOK'
  BY <1>1 DEF SoftwareInv, BackupOK
<1>5. RestoreAccounted'
  BY <1>1 DEF SoftwareInv, RestoreAccounted, Running
<1> QED
  BY <1>2, <1>3, <1>4, <1>5 DEF SoftwareInv

-----------------------------------------------------------------------------
(* The theorems.                                                           *)

\* The invariant holds at first: nothing runs, and no restore is on its way.
LEMMA InitSoftware == SoftwareInit => SoftwareInv
<1> SUFFICES ASSUME SoftwareInit PROVE SoftwareInv
  OBVIOUS
<1>1. tasks \in [TaskId -> Row] /\ changes \in Changes
  BY Numbers DEF SoftwareInit, Changes
<1>2. /\ \A t \in TaskId : tasks[t] = NoTask
      /\ \A c \in ChangeId : changes[c] = NoChange
  BY DEF SoftwareInit
<1>3. RowsOK
  <2>1. NoTask \in Row /\ NoTask.state \notin InBackend /\ NoTask.change = 0
    BY Numbers DEF NoTask, InBackend
  <2>2. ~AtWork(NoChange)
    BY Numbers DEF AtWork
  <2> QED
    BY <1>1, <1>2, <2>1, <2>2 DEF RowsOK, Fits
<1>4. CallOK
  BY Numbers DEF SoftwareInit, CallOK, NoCall
<1>5. backup \in BackupRow /\ backup.state \in {"available", "unavailable"} /\ snapshot \in BOOLEAN
  <2>1. PICK s \in BOOLEAN : /\ snapshot = s
                             /\ backup = [state |-> IF s THEN "available" ELSE "unavailable",
                                          task |-> 0, change |-> 0]
    BY DEF SoftwareInit
  <2> QED
    BY <2>1, Numbers DEF BackupRow
<1>6. BackupOK
  BY <1>5 DEF SoftwareInit, BackupOK, Named
<1>7. StoppedOK
  BY DEF SoftwareInit, StoppedOK
<1>8. RestoreAccounted
  BY <1>2, <1>5, Numbers DEF RestoreAccounted, Running
<1> QED
  BY <1>3, <1>4, <1>6, <1>7, <1>8 DEF SoftwareInv

\* Every step keeps the invariant and makes nothing for what the user has stopped.
LEMMA NextSoftware ==
    ASSUME SoftwareInv, [SoftwareNext]_softwareVars
    PROVE  SoftwareInv' /\ (NothingMadeForHalted \/ UNCHANGED softwareVars)
<1>1. ASSUME NEW t \in TaskId, NEW keep \in BOOLEAN, PrepareTask(t, "remove", keep)
      PROVE  SoftwareInv' /\ NothingMadeForHalted
  BY <1>1, PrepareKeeps
<1>2. ASSUME NEW t \in TaskId, PrepareTask(t, "install", FALSE)
      PROVE  SoftwareInv' /\ NothingMadeForHalted
  BY <1>2, PrepareKeeps
<1>3. ASSUME NEW t \in TaskId, ConfirmTask(t) \/ PauseTask(t) \/ ResumeTask(t) \/ CancelTask(t)
      PROVE  SoftwareInv' /\ NothingMadeForHalted
  BY <1>3, ConfirmKeeps, PauseKeeps, ResumeKeeps, CancelKeeps
<1>4. ASSUME NEW t \in TaskId, ReconcileTask(t) PROVE SoftwareInv' /\ NothingMadeForHalted
  BY <1>4, ReconcileKeeps
<1>5. ASSUME WriteSync \/ PrepareRestore \/ RestoreInstall \/ RestoreConfirm
      PROVE  SoftwareInv' /\ NothingMadeForHalted
  BY <1>5, WriteSyncKeeps, PrepareRestoreKeeps, RestoreInstallKeeps, RestoreConfirmKeeps
<1>6. ASSUME BeginReinstall \/ ContinueReinstall \/ RefreshRestore
      PROVE  SoftwareInv' /\ NothingMadeForHalted
  BY <1>6, BeginReinstallKeeps, ContinueReinstallKeeps, RefreshRestoreKeeps
<1>7. ASSUME NEW c \in ChangeId, ChangeMoves(c) PROVE SoftwareInv' /\ NothingMadeForHalted
  BY <1>7, ChangeMovesKeeps
<1>8. ASSUME SnapshotForgotten \/ WorkerDies PROVE SoftwareInv' /\ NothingMadeForHalted
  BY <1>8, SnapshotForgottenKeeps, WorkerDiesKeeps
<1>9. CASE UNCHANGED softwareVars
  BY <1>9 DEF softwareVars, SoftwareInv, RowsOK, CallOK, BackupOK, StoppedOK, RestoreAccounted,
              Running
<1> QED
  BY <1>1, <1>2, <1>3, <1>4, <1>5, <1>6, <1>7, <1>8, <1>9 DEF SoftwareNext

\* The rows, snapd's changes, the request that is served and the backup belong
\* together in every reachable state.
THEOREM SoftwareInvariant == SoftwareSpec => []SoftwareInv
<1>1. SoftwareInit => SoftwareInv
  BY InitSoftware
<1>2. SoftwareInv /\ [SoftwareNext]_softwareVars => SoftwareInv'
  BY NextSoftware
<1> QED
  BY <1>1, <1>2, PTL DEF SoftwareSpec

\* Every row has its type, and a task has a change exactly while it is snapd's.
THEOREM SoftwareTypeCorrect == SoftwareSpec => []SoftwareTypeOK
<1>1. SoftwareInv => SoftwareTypeOK
  BY DEF SoftwareInv, RowsOK, Fits, Row, States, BackupOK, SoftwareTypeOK
<1> QED
  BY <1>1, SoftwareInvariant, PTL

\* Nothing runs in snapd that the rows do not account for: a task that is shown as
\* stopped has nothing running behind it, and data are restored only by the change
\* the row of the backup names.
THEOREM ChangesAreAccounted == SoftwareSpec => []ChangesAccounted
<1>1. SoftwareInv => ChangesAccounted
  <2> SUFFICES ASSUME SoftwareInv PROVE StoppedMeansStopped
    BY DEF SoftwareInv, ChangesAccounted
  <2> SUFFICES ASSUME NEW c \in ChangeId, AtWork(changes[c]), changes[c].task # 0
               PROVE  LET row == tasks[changes[c].task]
                      IN  row.change = c /\ row.state \in InBackend
    BY DEF StoppedMeansStopped, Running, AtWork
  <2>1. PICK t \in TaskId : changes[c].task = t
    BY Numbers DEF SoftwareInv, RowsOK, Changes, Change
  <2>2. Fits(t, tasks[t], changes)
    BY DEF SoftwareInv, RowsOK
  <2> QED
    BY <2>1, <2>2, Numbers DEF Fits
<1> QED
  BY <1>1, SoftwareInvariant, PTL

\* What the user has paused or canceled starts nothing more until the user
\* resumes it.
THEOREM UserIsObeyed == SoftwareSpec => UserDecides
<1>1. SoftwareInv /\ [SoftwareNext]_softwareVars => [NothingMadeForHalted]_softwareVars
  BY NextSoftware
<1> QED
  BY <1>1, SoftwareInvariant, PTL DEF SoftwareSpec, UserDecides, NothingMadeForHalted

-----------------------------------------------------------------------------
(***************************************************************************)
(* Proofs about the parts of the security center: Quarantine, for any      *)
(* number of records, ScanJobs, for any number of jobs, and SecurityScan,  *)
(* for every forest of entries, with any profile and any number of changes *)
(* by the user.                                                            *)
(***************************************************************************)

-----------------------------------------------------------------------------
(* Quarantine: what a record says is where its file is, and a finding      *)
(* follows its file.                                                       *)
(*                                                                         *)
(* ObjectsHonest says nothing of the record a request is working on; the   *)
(* invariant adds, for each step of a request, what state that record is   *)
(* in and whether its object is in the quarantine by then.                 *)

\* A request is on a record, and at one of its steps.
HandOK ==
    /\ hand \in [op : {"none", "commit", "restore"},
                 at : {"none", "examine", "move", "verify", "settle"},
                 record : 0 .. MaxRecords]
    /\ IF hand.op = "none" THEN hand = NoRequest ELSE hand.record \in Record /\ hand.at # "none"

\* The state of the record a request works on.
ClaimOK ==
    /\ hand.op = "commit" =>
          records[hand.record] = IF hand.at = "settle" THEN "quarantined" ELSE "committing"
    /\ hand.op = "restore" =>
          records[hand.record] = IF hand.at = "settle" THEN "restored" ELSE "restoring"

\* Its object is in the quarantine from the move of a commit on, and until the
\* move of a restoration, when nothing is at the path.
ObjectOK ==
    /\ hand.op # "none" /\ ~cut /\ ~raced =>
          (vault[hand.record] # "none" <=> (hand.op = "commit" <=> hand.at \in {"verify", "settle"}))
    /\ At("restore", "move") /\ ~raced => source = "none"

\* While the file is on its way back its finding is still resolved.
ResolvedOK ==
    finding = "resolved" /\ ~cut =>
        hand.op = "restore" \/ \E r \in Record : records[r] = "quarantined"

QuarantineInv ==
    /\ QuarantineTypeOK /\ HandOK /\ ClaimOK /\ ObjectOK /\ ObjectsHonest /\ ResolvedOK

-----------------------------------------------------------------------------

\* The worker starts with no records and no request.
LEMMA InitQuarantine == QuarantineInit => QuarantineInv
<1> SUFFICES ASSUME QuarantineInit PROVE QuarantineInv
  OBVIOUS
<1> USE RecordsAssumption DEF QuarantineInit, NoRequest, Record
<1>1. QuarantineTypeOK
  BY DEF QuarantineTypeOK, Thing, RecordState, FindingState
<1>5. HandOK
  BY DEF HandOK
<1>2. ClaimOK /\ ObjectOK
  BY DEF ClaimOK, ObjectOK, At
<1>3. ObjectsHonest /\ ResolvedOK
  BY DEF ObjectsHonest, ResolvedOK
<1>4. QED
  BY <1>1, <1>2, <1>3, <1>5 DEF QuarantineInv

\* Every step of a request, a scan, the user or a restart keeps it.
LEMMA NextQuarantine == QuarantineInv /\ [QuarantineNext]_quarantineVars => QuarantineInv'
<1> SUFFICES ASSUME QuarantineInv, [QuarantineNext]_quarantineVars
             PROVE  QuarantineInv'
  OBVIOUS
<1> USE RecordsAssumption
    DEF QuarantineInv, QuarantineTypeOK, HandOK, Record, Thing, RecordState, FindingState,
        NoRequest, At, GoOn, SetState, Answer
<1>1. ASSUME NEW r \in Record, PrepareQuarantine(r) PROVE QuarantineInv'
  <2>1. QuarantineTypeOK' /\ HandOK'
    BY <1>1 DEF PrepareQuarantine, ClaimOK
  <2>2. ClaimOK'
    BY <1>1 DEF PrepareQuarantine, ClaimOK
  <2>3. ObjectOK' /\ ObjectsHonest'
    BY <1>1 DEF PrepareQuarantine, ClaimOK, ObjectOK, ObjectsHonest
  <2>4. ResolvedOK'
    BY <1>1 DEF PrepareQuarantine, ClaimOK, ResolvedOK
  <2>5. QED
    BY <2>1, <2>2, <2>3, <2>4
<1>2. ASSUME NEW r \in Record, CancelQuarantine(r) PROVE QuarantineInv'
  <2>1. QuarantineTypeOK' /\ HandOK'
    BY <1>2 DEF CancelQuarantine, ClaimOK
  <2>2. ClaimOK'
    BY <1>2 DEF CancelQuarantine, ClaimOK
  <2>3. ObjectOK' /\ ObjectsHonest'
    BY <1>2 DEF CancelQuarantine, ClaimOK, ObjectOK, ObjectsHonest
  <2>4. ResolvedOK'
    BY <1>2 DEF CancelQuarantine, ClaimOK, ResolvedOK
  <2>5. QED
    BY <2>1, <2>2, <2>3, <2>4
<1>3. ASSUME NEW r \in Record, ClaimRecord(r) PROVE QuarantineInv'
  <2>1. QuarantineTypeOK' /\ HandOK'
    BY <1>3 DEF ClaimRecord, ClaimOK
  <2>2. ClaimOK'
    BY <1>3 DEF ClaimRecord, ClaimOK
  <2>3. ObjectOK' /\ ObjectsHonest'
    BY <1>3 DEF ClaimRecord, ClaimOK, ObjectOK, ObjectsHonest
  <2>4. ResolvedOK'
    BY <1>3 DEF ClaimRecord, ClaimOK, ResolvedOK
  <2>5. QED
    BY <2>1, <2>2, <2>3, <2>4
<1>4. CASE ExamineFile
  <2>1. QuarantineTypeOK' /\ HandOK'
    BY <1>4 DEF ExamineFile, ClaimOK
  <2>2. ClaimOK'
    BY <1>4 DEF ExamineFile, ClaimOK
  <2>3. ObjectOK' /\ ObjectsHonest'
    BY <1>4 DEF ExamineFile, ClaimOK, ObjectOK, ObjectsHonest
  <2>4. ResolvedOK'
    BY <1>4 DEF ExamineFile, ClaimOK, ResolvedOK
  <2>5. QED
    BY <2>1, <2>2, <2>3, <2>4
<1>5. CASE MoveToVault
  <2>1. QuarantineTypeOK' /\ HandOK'
    <3>1. HandOK' /\ records' \in [Record -> RecordState]
      <4>1. CASE GoOn("verify") /\ UNCHANGED records
        BY <1>5, <4>1 DEF MoveToVault
      <4>2. CASE Answer("failed")
        BY <1>5, <4>2 DEF MoveToVault
      <4>3. QED
        BY <1>5, <4>1, <4>2 DEF MoveToVault
    <3>2. vault' \in [Record -> Thing] /\ source' \in Thing /\ finding' \in FindingState
      BY <1>5 DEF MoveToVault
    <3>3. {sighted, cut, raced, spoiled}' \subseteq BOOLEAN
      BY <1>5 DEF MoveToVault
    <3>4. hand'.op = "commit" => records'[hand'.record] \in {"committing", "quarantined"}
      BY <1>5 DEF MoveToVault, ClaimOK
    <3>5. hand'.op = "restore" => records'[hand'.record] \in {"restoring", "restored"}
      BY <1>5 DEF MoveToVault, ClaimOK
    <3>6. QED
      BY <3>1, <3>2, <3>3, <3>4, <3>5
  <2>2. ClaimOK'
    BY <1>5 DEF MoveToVault, ClaimOK
  <2>3. ObjectOK' /\ ObjectsHonest'
    BY <1>5 DEF MoveToVault, ClaimOK, ObjectOK, ObjectsHonest
  <2>4. ResolvedOK'
    BY <1>5 DEF MoveToVault, ClaimOK, ResolvedOK
  <2>5. QED
    BY <2>1, <2>2, <2>3, <2>4
<1>6. CASE VerifyObject
  <2>1. QuarantineTypeOK' /\ HandOK'
    <3>1. HandOK' /\ records' \in [Record -> RecordState]
      <4>1. CASE SetState(hand.record, "quarantined") /\ GoOn("settle")
        BY <1>6, <4>1 DEF VerifyObject
      <4>2. CASE Answer("failed")
        BY <1>6, <4>2 DEF VerifyObject
      <4>3. QED
        BY <1>6, <4>1, <4>2 DEF VerifyObject
    <3>2. vault' \in [Record -> Thing] /\ source' \in Thing /\ finding' \in FindingState
      BY <1>6 DEF VerifyObject
    <3>3. {sighted, cut, raced, spoiled}' \subseteq BOOLEAN
      BY <1>6 DEF VerifyObject
    <3>4. hand'.op = "commit" => records'[hand'.record] \in {"committing", "quarantined"}
      BY <1>6 DEF VerifyObject, ClaimOK
    <3>5. hand'.op = "restore" => records'[hand'.record] \in {"restoring", "restored"}
      BY <1>6 DEF VerifyObject, ClaimOK
    <3>6. QED
      BY <3>1, <3>2, <3>3, <3>4, <3>5
  <2>2. ClaimOK'
    BY <1>6 DEF VerifyObject, ClaimOK
  <2>3. ObjectOK' /\ ObjectsHonest'
    <3>1. CASE vault[hand.record] = "malware" /\ hand' = [hand EXCEPT !.at = "settle"]
      BY <1>6, <3>1 DEF VerifyObject, ClaimOK, ObjectOK, ObjectsHonest
    <3>2. CASE hand' = NoRequest
      <4>1. hand.record \in Record /\ records[hand.record] = "committing"
        BY <1>6 DEF VerifyObject, ClaimOK
      <4>2. records' = [records EXCEPT ![hand.record] = "failed"]
        BY <1>6, <3>2, <4>1 DEF VerifyObject
      <4>3. CASE source = "none"
        <5>1. vault' = [vault EXCEPT ![hand.record] = "none"] /\ UNCHANGED <<cut, raced, spoiled>>
          BY <1>6, <3>2, <4>1, <4>3 DEF VerifyObject
        <5>2. QED
          BY <1>6, <3>2, <4>1, <4>2, <5>1 DEF ObjectOK, ObjectsHonest
      <4>4. CASE source # "none"
        <5>1. raced' = TRUE /\ UNCHANGED <<vault, cut, spoiled>>
          BY <1>6, <3>2, <4>1, <4>4 DEF VerifyObject
        <5>2. QED
          BY <1>6, <3>2, <4>1, <4>2, <5>1 DEF VerifyObject, ObjectOK, ObjectsHonest
      <4>5. QED
        BY <4>3, <4>4
    <3>3. QED
      BY <1>6, <3>1, <3>2 DEF VerifyObject
  <2>4. ResolvedOK'
    BY <1>6 DEF VerifyObject, ClaimOK, ResolvedOK
  <2>5. QED
    BY <2>1, <2>2, <2>3, <2>4
<1>7. CASE ExamineObject
  <2>1. QuarantineTypeOK' /\ HandOK'
    BY <1>7 DEF ExamineObject, ClaimOK
  <2>2. ClaimOK'
    BY <1>7 DEF ExamineObject, ClaimOK
  <2>3. ObjectOK' /\ ObjectsHonest'
    BY <1>7 DEF ExamineObject, ClaimOK, ObjectOK, ObjectsHonest
  <2>4. ResolvedOK'
    BY <1>7 DEF ExamineObject, ClaimOK, ResolvedOK
  <2>5. QED
    BY <2>1, <2>2, <2>3, <2>4
<1>8. CASE MoveBack
  <2>1. QuarantineTypeOK' /\ HandOK'
    <3>1. HandOK' /\ records' \in [Record -> RecordState]
      BY <1>8 DEF MoveBack, ClaimOK
    <3>2. vault' \in [Record -> Thing] /\ source' \in Thing /\ finding' \in FindingState
      BY <1>8 DEF MoveBack
    <3>3. {sighted, cut, raced, spoiled}' \subseteq BOOLEAN
      BY <1>8 DEF MoveBack
    <3>4. hand'.op = "commit" => records'[hand'.record] \in {"committing", "quarantined"}
      BY <1>8 DEF MoveBack, ClaimOK
    <3>5. hand'.op = "restore" => records'[hand'.record] \in {"restoring", "restored"}
      BY <1>8 DEF MoveBack, ClaimOK
    <3>6. QED
      BY <3>1, <3>2, <3>3, <3>4, <3>5
  <2>2. ClaimOK'
    BY <1>8 DEF MoveBack, ClaimOK
  <2>3. ObjectOK' /\ ObjectsHonest'
    BY <1>8 DEF MoveBack, ClaimOK, ObjectOK, ObjectsHonest
  <2>4. ResolvedOK'
    BY <1>8 DEF MoveBack, ClaimOK, ResolvedOK
  <2>5. QED
    BY <2>1, <2>2, <2>3, <2>4
<1>9. CASE VerifyFile
  <2>1. QuarantineTypeOK' /\ HandOK'
    <3>1. HandOK' /\ records' \in [Record -> RecordState]
      BY <1>9 DEF VerifyFile, ClaimOK
    <3>2. vault' \in [Record -> Thing] /\ source' \in Thing /\ finding' \in FindingState
      BY <1>9 DEF VerifyFile
    <3>3. {sighted, cut, raced, spoiled}' \subseteq BOOLEAN
      BY <1>9 DEF VerifyFile
    <3>4. hand'.op = "commit" => records'[hand'.record] \in {"committing", "quarantined"}
      BY <1>9 DEF VerifyFile, ClaimOK
    <3>5. hand'.op = "restore" => records'[hand'.record] \in {"restoring", "restored"}
      BY <1>9 DEF VerifyFile, ClaimOK
    <3>6. QED
      BY <3>1, <3>2, <3>3, <3>4, <3>5
  <2>2. ClaimOK'
    BY <1>9 DEF VerifyFile, ClaimOK
  <2>3. ObjectOK' /\ ObjectsHonest'
    BY <1>9 DEF VerifyFile, ClaimOK, ObjectOK, ObjectsHonest
  <2>4. ResolvedOK'
    BY <1>9 DEF VerifyFile, ClaimOK, ResolvedOK
  <2>5. QED
    BY <2>1, <2>2, <2>3, <2>4
<1>10. CASE SettleFinding
  <2>1. QuarantineTypeOK' /\ HandOK'
    BY <1>10 DEF SettleFinding, ClaimOK
  <2>2. ClaimOK'
    BY <1>10 DEF SettleFinding, ClaimOK
  <2>3. ObjectOK' /\ ObjectsHonest'
    BY <1>10 DEF SettleFinding, ClaimOK, ObjectOK, ObjectsHonest
  <2>4. ResolvedOK'
    BY <1>10 DEF SettleFinding, ClaimOK, ResolvedOK
  <2>5. QED
    BY <2>1, <2>2, <2>3, <2>4
<1>11. CASE RequestBreaksOff
  <2>1. QuarantineTypeOK' /\ HandOK'
    BY <1>11 DEF RequestBreaksOff, ClaimOK
  <2>2. ClaimOK'
    BY <1>11 DEF RequestBreaksOff, ClaimOK
  <2>3. ObjectOK' /\ ObjectsHonest'
    BY <1>11 DEF RequestBreaksOff, ClaimOK, ObjectOK, ObjectsHonest
  <2>4. ResolvedOK'
    BY <1>11 DEF RequestBreaksOff, ClaimOK, ResolvedOK
  <2>5. QED
    BY <2>1, <2>2, <2>3, <2>4
<1>12. CASE SecurityWorkerDies
  <2>1. QuarantineTypeOK' /\ HandOK'
    <3>1. HandOK' /\ records' \in [Record -> RecordState]
      BY <1>12 DEF SecurityWorkerDies, ClaimOK
    <3>2. vault' \in [Record -> Thing] /\ source' \in Thing /\ finding' \in FindingState
      BY <1>12 DEF SecurityWorkerDies
    <3>3. {sighted, cut, raced, spoiled}' \subseteq BOOLEAN
      BY <1>12 DEF SecurityWorkerDies
    <3>4. hand'.op = "commit" => records'[hand'.record] \in {"committing", "quarantined"}
      BY <1>12 DEF SecurityWorkerDies, ClaimOK
    <3>5. hand'.op = "restore" => records'[hand'.record] \in {"restoring", "restored"}
      BY <1>12 DEF SecurityWorkerDies, ClaimOK
    <3>6. QED
      BY <3>1, <3>2, <3>3, <3>4, <3>5
  <2>2. ClaimOK'
    BY <1>12 DEF SecurityWorkerDies, ClaimOK
  <2>3. ObjectOK' /\ ObjectsHonest'
    BY <1>12 DEF SecurityWorkerDies, ClaimOK, ObjectOK, ObjectsHonest
  <2>4. ResolvedOK'
    BY <1>12 DEF SecurityWorkerDies, ClaimOK, ResolvedOK
  <2>5. QED
    BY <2>1, <2>2, <2>3, <2>4
<1>13. CASE ScanSights
  <2>1. QuarantineTypeOK' /\ HandOK'
    BY <1>13 DEF ScanSights, ClaimOK
  <2>2. ClaimOK'
    BY <1>13 DEF ScanSights, ClaimOK
  <2>3. ObjectOK' /\ ObjectsHonest'
    BY <1>13 DEF ScanSights, ClaimOK, ObjectOK, ObjectsHonest
  <2>4. ResolvedOK'
    BY <1>13 DEF ScanSights, ClaimOK, ResolvedOK
  <2>5. QED
    BY <2>1, <2>2, <2>3, <2>4
<1>14. CASE ScanRecords
  <2>1. QuarantineTypeOK' /\ HandOK'
    BY <1>14 DEF ScanRecords, ClaimOK
  <2>2. ClaimOK'
    BY <1>14 DEF ScanRecords, ClaimOK
  <2>3. ObjectOK' /\ ObjectsHonest'
    BY <1>14 DEF ScanRecords, ClaimOK, ObjectOK, ObjectsHonest
  <2>4. ResolvedOK'
    BY <1>14 DEF ScanRecords, ClaimOK, ResolvedOK
  <2>5. QED
    BY <2>1, <2>2, <2>3, <2>4
<1>15. CASE UserWrites
  <2>1. QuarantineTypeOK' /\ HandOK'
    BY <1>15 DEF UserWrites, ClaimOK
  <2>2. ClaimOK'
    BY <1>15 DEF UserWrites, ClaimOK
  <2>3. ObjectOK' /\ ObjectsHonest'
    BY <1>15 DEF UserWrites, ClaimOK, ObjectOK, ObjectsHonest
  <2>4. ResolvedOK'
    BY <1>15 DEF UserWrites, ClaimOK, ResolvedOK
  <2>5. QED
    BY <2>1, <2>2, <2>3, <2>4
<1>16. ASSUME NEW r \in Record, UserSpoilsObject(r) PROVE QuarantineInv'
  <2>1. QuarantineTypeOK' /\ HandOK'
    BY <1>16 DEF UserSpoilsObject, ClaimOK
  <2>2. ClaimOK'
    BY <1>16 DEF UserSpoilsObject, ClaimOK
  <2>3. ObjectOK' /\ ObjectsHonest'
    BY <1>16 DEF UserSpoilsObject, ClaimOK, ObjectOK, ObjectsHonest
  <2>4. ResolvedOK'
    BY <1>16 DEF UserSpoilsObject, ClaimOK, ResolvedOK
  <2>5. QED
    BY <2>1, <2>2, <2>3, <2>4
<1>17. CASE UNCHANGED quarantineVars
  BY <1>17 DEF quarantineVars, ClaimOK, ObjectOK, ObjectsHonest, ResolvedOK
<1>18. QED
  BY <1>1, <1>2, <1>3, <1>4, <1>5, <1>6, <1>7, <1>8, <1>9, <1>10, <1>11, <1>12, <1>13, <1>14,
     <1>15, <1>16, <1>17 DEF QuarantineNext

\* The invariant holds in every state.
THEOREM QuarantineInvariant == QuarantineSpec => []QuarantineInv
  BY InitQuarantine, NextQuarantine, PTL DEF QuarantineSpec

\* A record that no request works on says where its file is, unless a request
\* ended in the middle or the user put a file in the way; no file of the user's
\* is overwritten otherwise; and a resolved finding has its file in the
\* quarantine when no request is served.
THEOREM RecordsAreHonest == QuarantineSpec => []RecordsHonest
<1>1. QuarantineInv => RecordsHonest
  BY DEF QuarantineInv, ResolvedOK, RecordsHonest, NoRequest
<1>2. QED
  BY <1>1, QuarantineInvariant, PTL

-----------------------------------------------------------------------------
(* ScanJobs: one scan runs at a time, and every open job is tracked.       *)
(*                                                                         *)
(* The reason is that a thread before the end of its scan has the active   *)
(* job and the job is open, so that no other can be started.               *)

\* A thread that has not ended its scan works on the active job, which is open;
\* one that has, on a job in its final state.
ThreadsOK ==
    \A j \in Job :
        /\ threads[j] \in {"begin", "scan"} => active = j /\ jobs[j] \in Open
        /\ threads[j] = "end" => jobs[j] \in Final
        /\ jobs[j] = "none" => threads[j] = "none" /\ j \notin stopping /\ active # j

\* The parts of ScanJobs's property that are about each job.
TrackedOK ==
    \A j \in Job : jobs[j] # "none" /\ j \notin unsaved =>
        /\ IF jobs[j] \in Open THEN active = j /\ threads[j] \in {"begin", "scan"}
           ELSE threads[j] = "none" => rows[j] = jobs[j] /\ active # j
        /\ j \in stopping => jobs[j] # "partial"

JobsInv == JobsTypeOK /\ ThreadsOK /\ TrackedOK

-----------------------------------------------------------------------------

\* Nothing has been started yet.
LEMMA InitJobs == JobsInit => JobsInv
<1> SUFFICES ASSUME JobsInit PROVE JobsInv
  OBVIOUS
<1> USE JobsAssumption DEF JobsInit, Job, Final, Open
<1>1. JobsTypeOK
  <2>1. rows = [j \in Job |-> "none"]
    OBVIOUS
  <2>2. active \in 0 .. MaxJobs
    OBVIOUS
  <2>3. jobs \in [Job -> {"none"} \cup Final \cup Open] /\ rows \in [Job -> {"none"} \cup Final \cup Open]
    BY <2>1
  <2>4. QED
    BY <2>2, <2>3 DEF JobsTypeOK
<1>2. ThreadsOK /\ TrackedOK
  BY DEF ThreadsOK, TrackedOK
<1>3. QED
  BY <1>1, <1>2 DEF JobsInv

\* A job is started only when no thread is before the end of its scan.
LEMMA NothingRuns ==
    ASSUME JobsInv, NEW j \in Job, MayStart(j)
    PROVE  /\ \A k \in Job : threads[k] \in {"none", "end"}
           /\ threads[j] = "none" /\ j \notin stopping /\ active # j
  BY JobsAssumption DEF JobsInv, JobsTypeOK, ThreadsOK, MayStart, Job, Final, Open

\* Every operation, step of a thread and restart keeps the invariant.
LEMMA NextJobs == JobsInv /\ [JobsNext]_jobsVars => JobsInv'
<1> SUFFICES ASSUME JobsInv, [JobsNext]_jobsVars
             PROVE  JobsInv'
  OBVIOUS
<1> USE JobsAssumption DEF JobsInv, JobsTypeOK, Job, Final, Open, Enter
<1>1. ASSUME NEW j \in Job, StartJob(j) PROVE JobsInv'
  <2>1. JobsTypeOK'
    BY <1>1 DEF StartJob, MayStart, Started, ThreadsOK
  <2>2. ThreadsOK'
    BY <1>1, NothingRuns DEF StartJob, MayStart, Started, ThreadsOK
  <2>3. TrackedOK'
    BY <1>1 DEF StartJob, MayStart, Started, ThreadsOK, TrackedOK
  <2>4. QED
    BY <2>1, <2>2, <2>3
<1>2. ASSUME NEW j \in Job, StartScheduled(j) PROVE JobsInv'
  <2>1. JobsTypeOK'
    <3>1. CASE Started(j) /\ UNCHANGED unsaved /\ scheduler' \in BOOLEAN
      BY <1>2, <3>1, NothingRuns DEF StartScheduled, Started
    <3>2. CASE Enter(j, "queued") /\ active' = j /\ scheduler' = FALSE
                  /\ unsaved' = unsaved \cup {j} /\ UNCHANGED <<rows, threads>>
      <4>1. active' \in 0 .. MaxJobs /\ unsaved' \subseteq Job
        BY <3>2
      <4>2. jobs' = [jobs EXCEPT ![j] = "queued"] /\ threads[j] = "none"
        BY <1>2, <3>2, NothingRuns DEF StartScheduled
      <4>3. UNCHANGED <<rows, threads, stopping, enabled>> /\ scheduler' = FALSE
        BY <1>2, <3>2 DEF StartScheduled
      <4>4. \A k \in Job : threads'[k] = "scan" => jobs'[k] \in {"running", "cancelling"}
        BY <4>2, <4>3
      <4>5. jobs' \in [Job -> {"none"} \cup Final \cup Open]
        BY <4>2
      <4>6. QED
        BY <4>1, <4>3, <4>4, <4>5
    <3>3. QED
      BY <1>2, <3>1, <3>2 DEF StartScheduled
  <2>2. ThreadsOK'
    BY <1>2 DEF StartScheduled, MayStart, Started, ThreadsOK
  <2>3. TrackedOK'
    BY <1>2 DEF StartScheduled, MayStart, Started, ThreadsOK, TrackedOK
  <2>4. QED
    BY <2>1, <2>2, <2>3
<1>3. ASSUME NEW j \in Job, CancelJob(j) PROVE JobsInv'
  <2>1. JobsTypeOK'
    BY <1>3 DEF CancelJob, ThreadsOK
  <2>2. ThreadsOK'
    BY <1>3 DEF CancelJob, ThreadsOK
  <2>3. TrackedOK'
    BY <1>3 DEF CancelJob, ThreadsOK, TrackedOK
  <2>4. QED
    BY <2>1, <2>2, <2>3
<1>4. ASSUME NEW j \in Job, BeginScan(j) PROVE JobsInv'
  <2>1. JobsTypeOK'
    BY <1>4 DEF BeginScan, ThreadsOK
  <2>2. ThreadsOK'
    BY <1>4 DEF BeginScan, ThreadsOK
  <2>3. TrackedOK'
    BY <1>4 DEF BeginScan, ThreadsOK, TrackedOK
  <2>4. QED
    BY <2>1, <2>2, <2>3
<1>5. ASSUME NEW j \in Job, EndScan(j) PROVE JobsInv'
  <2>1. JobsTypeOK'
    BY <1>5 DEF EndScan, Result, ThreadsOK
  <2>2. ThreadsOK'
    BY <1>5 DEF EndScan, Result, ThreadsOK
  <2>3. TrackedOK'
    BY <1>5 DEF EndScan, Result, ThreadsOK, TrackedOK
  <2>4. QED
    BY <2>1, <2>2, <2>3
<1>6. ASSUME NEW j \in Job, CloseJob(j) PROVE JobsInv'
  <2>1. JobsTypeOK'
    <3>1. CASE rows' = [rows EXCEPT ![j] = jobs[j]] /\ UNCHANGED unsaved
                /\ active' = (IF active = j THEN 0 ELSE active) /\ stopping' = stopping \ {j}
      <4>1. active' \in 0 .. MaxJobs
        BY <3>1
      <4>2. jobs[j] \in Final /\ rows' \in [Job -> {"none"} \cup Final \cup Open]
        BY <1>6, <3>1 DEF CloseJob, ThreadsOK
      <4>3. QED
        BY <1>6, <3>1, <4>1, <4>2 DEF CloseJob
    <3>2. CASE UNCHANGED <<rows, active, stopping>> /\ unsaved' = unsaved \cup {j}
      BY <1>6, <3>2 DEF CloseJob
    <3>3. QED
      BY <1>6, <3>1, <3>2 DEF CloseJob
  <2>2. ThreadsOK'
    BY <1>6 DEF CloseJob, ThreadsOK
  <2>3. TrackedOK'
    BY <1>6 DEF CloseJob, ThreadsOK, TrackedOK
  <2>4. QED
    BY <2>1, <2>2, <2>3
<1>7. CASE UpdateSettings
  <2>1. JobsTypeOK'
    BY <1>7 DEF UpdateSettings, ThreadsOK
  <2>2. ThreadsOK'
    BY <1>7 DEF UpdateSettings, ThreadsOK
  <2>3. TrackedOK'
    BY <1>7 DEF UpdateSettings, ThreadsOK, TrackedOK
  <2>4. QED
    BY <2>1, <2>2, <2>3
<1>8. CASE JobsRestart
  <2>1. JobsTypeOK'
    BY <1>8 DEF JobsRestart, ThreadsOK
  <2>2. ThreadsOK'
    BY <1>8 DEF JobsRestart, ThreadsOK
  <2>3. TrackedOK'
    BY <1>8 DEF JobsRestart, ThreadsOK, TrackedOK
  <2>4. QED
    BY <2>1, <2>2, <2>3
<1>9. CASE UNCHANGED jobsVars
  BY <1>9 DEF jobsVars, ThreadsOK, TrackedOK
<1>10. QED
  BY <1>1, <1>2, <1>3, <1>4, <1>5, <1>6, <1>7, <1>8, <1>9 DEF JobsNext

\* The invariant holds in every state.
THEOREM JobsInvariant == JobsSpec => []JobsInv
  BY InitJobs, NextJobs, PTL DEF JobsSpec

\* One scan at a time, and every job is tracked unless its row could not be
\* written.
THEOREM ScansAreTracked == JobsSpec => []ScansTracked
<1>1. JobsInv => ScansTracked
  <2> SUFFICES ASSUME JobsInv PROVE ScansTracked
    OBVIOUS
  <2>1. {j \in Job : threads[j] = "scan"} \subseteq {active}
    BY DEF JobsInv, ThreadsOK
  <2>2. Cardinality({active}) = 1 /\ IsFiniteSet({active})
    BY FS_Singleton
  <2>3. Cardinality({j \in Job : threads[j] = "scan"}) <= 1
    BY <2>1, <2>2, FS_Subset
  <2>4. QED
    BY <2>3 DEF JobsInv, TrackedOK, ScansTracked
<1>2. QED
  BY <1>1, JobsInvariant, PTL

-----------------------------------------------------------------------------
(* SecurityScan: a scan job that calls itself completed has found what it  *)
(* had to find.                                                            *)
(*                                                                         *)
(* The argument: as long as nothing was left out, every file that has to   *)
(* be looked at was, or is in hand, or lies below something that the walk  *)
(* has still before it (Covered).  What is left out leaves a mark, which   *)
(* no later scope removes (MarkKept).                                      *)

\* Something was left out.
Marked == doubt \/ status # "completed"

\* What nobody has replaced is what it was when the job began.
KindsKept ==
    /\ \A e \in Entry \ touched : objects[e] # "gone" /\ (e \in Inner => objects[e] = "dir")
    /\ \A e \in infected : objects[e] = "file"

\* What the walk takes for a directory is one, and each phase has what it needs.
WalkOK ==
    /\ \A d \in pending \cup subdirs : d \in touched \/ objects[d] = "dir"
    /\ phase = "scope" => pending = {} /\ listed = {} /\ subdirs = {}
    /\ phase = "directories" => listed = {} /\ subdirs = {}
    /\ phase = "record" => current \subseteq threats
    /\ \A a, b \in current : a = b
    /\ phase = "end" => current \subseteq seen
    /\ target = "tree" /\ phase \in {"scope", "directories", "listing", "odd"} => current = {}
    /\ target = "tree" => phase # "end"
    /\ target = "file" => phase \in {"open", "read", "record", "end", "done", "failed"}

\* The mark of a scope outlives the scope.
MarkKept ==
    /\ phase \in {"scope", "done"} /\ status = "completed" => ~doubt
    /\ phase = "done" /\ status = "completed" =>
         IF target = "tree" THEN (roots \cup pending \cup listed \cup subdirs \cup current) = {}
         ELSE current \subseteq seen

\* The descriptor shows what is in the file, or that it was written to.
OpenedOK ==
    phase = "read" =>
        \A e \in current :
            e \in infected /\ Path[e] \cap touched = {} => opened.infected \/ opened.written

\* What was scanned and is malware was counted.
SeenOK ==
    \A e \in seen : e \in infected /\ Path[e] \cap touched = {} => e \in threats \/ Marked

\* A file that the job has to look at.
Due(e) ==
    /\ objects[e] = "file"
    /\ Path[e] \cap touched = {} /\ ~Shielded(e)
    /\ \A a \in Path[e] \ {e} : Depth[a] <= MaxDepth

Ahead(e) == Path[e] \cap (roots \cup pending \cup listed \cup subdirs) # {}

Covered ==
    target = "tree" =>
        Marked \/ phase = "odd" \/ \A e \in Entry : Due(e) => e \in seen \/ e \in current \/ Ahead(e)

ThreatsRecorded ==
    phase # "failed" => threats \subseteq findings \cup (IF phase = "record" THEN current ELSE {})

SecurityInv ==
    /\ SecurityTypeOK
    /\ KindsKept /\ WalkOK /\ MarkKept
    /\ OpenedOK /\ SeenOK /\ Covered /\ ThreatsRecorded

\* A root that is taken is ahead in the walk; one that cannot be read leaves a mark.
LEMMA BeginScopeKeeps ==
    ASSUME SecurityInv, BeginScope
    PROVE  SecurityInv'
<1>1. SecurityTypeOK'
  <2>1. PICK r \in roots :
          /\ roots' = roots \ {r}
          /\ \/ pending' = {r} /\ phase' = "directories" /\ UNCHANGED status
             \/ status' = "partial" /\ UNCHANGED <<pending, phase>>
    BY DEF BeginScope
  <2>2. roots' \subseteq Root /\ pending' \subseteq Entry
    BY <2>1, TreeAssumption DEF SecurityInv, SecurityTypeOK
  <2> QED BY <2>1, <2>2 DEF BeginScope, SecurityInv, SecurityTypeOK, files, scanner
<1>2. (KindsKept /\ WalkOK /\ MarkKept)'
  BY DEF SecurityInv, KindsKept, WalkOK, MarkKept, BeginScope, files, scanner
<1>3. (OpenedOK /\ SeenOK)'
  BY DEF SecurityInv, MarkKept, OpenedOK, SeenOK, Marked, BeginScope, files, scanner
<1>4. Covered'
  BY DEF SecurityInv, WalkOK, MarkKept, Covered, Marked, Due, Ahead, BeginScope, files, scanner
<1>5. ThreatsRecorded'
  BY DEF SecurityInv, ThreatsRecorded, BeginScope
<1> QED
  BY <1>1, <1>2, <1>3, <1>4, <1>5 DEF SecurityInv

\* A job ends when nothing is ahead, so whatever was due has been seen.
LEMMA EndJobKeeps ==
    ASSUME SecurityInv, EndJob
    PROVE  SecurityInv'
<1>1. SecurityTypeOK'
  BY DEF SecurityInv, SecurityTypeOK, EndJob, files, walk, result, scanner
<1>2. (KindsKept /\ WalkOK /\ MarkKept)'
  BY DEF SecurityInv, SecurityTypeOK, KindsKept, WalkOK, MarkKept, EndJob, files, walk, result,
     scanner
<1>3. (OpenedOK /\ SeenOK)'
  BY DEF SecurityInv, OpenedOK, SeenOK, Marked, EndJob, files, result, scanner
<1>4. Covered'
  BY DEF SecurityInv, Covered, Marked, Due, Ahead, EndJob, files, walk, result, scanner
<1>5. ThreatsRecorded'
  BY DEF SecurityInv, ThreatsRecorded, EndJob, result
<1> QED
  BY <1>1, <1>2, <1>3, <1>4, <1>5 DEF SecurityInv

\* A doubt of the scope becomes the status of the job, which stays marked.
LEMMA EndScopeKeeps ==
    ASSUME SecurityInv, EndScope
    PROVE  SecurityInv'
<1>1. SecurityTypeOK'
  BY DEF SecurityInv, SecurityTypeOK, EndScope, ScopeStatus, files, walk, scanner
<1>2. (KindsKept /\ WalkOK /\ MarkKept)'
  BY DEF SecurityInv, KindsKept, WalkOK, MarkKept, EndScope, ScopeStatus, files, walk, scanner
<1>3. (OpenedOK /\ SeenOK)'
  BY DEF SecurityInv, OpenedOK, SeenOK, Marked, EndScope, ScopeStatus, files, scanner
<1>4. Covered'
  BY DEF SecurityInv, Covered, Marked, Due, Ahead, EndScope, ScopeStatus, files, walk, scanner
<1>5. ThreatsRecorded'
  BY DEF SecurityInv, ThreatsRecorded, EndScope
<1> QED
  BY <1>1, <1>2, <1>3, <1>4, <1>5 DEF SecurityInv

\* A cancelled job is marked.
LEMMA CancelSeenKeeps ==
    ASSUME SecurityInv, CancelSeen
    PROVE  SecurityInv'
<1>1. SecurityTypeOK'
  BY DEF SecurityInv, SecurityTypeOK, CancelSeen, files, walk, scanner
<1>2. (KindsKept /\ WalkOK /\ MarkKept)'
  BY DEF SecurityInv, KindsKept, WalkOK, MarkKept, CancelSeen, files, walk, scanner
<1>3. (OpenedOK /\ SeenOK)'
  BY DEF SecurityInv, OpenedOK, SeenOK, Marked, CancelSeen
<1>4. Covered'
  BY DEF SecurityInv, Covered, Marked, CancelSeen
<1>5. ThreatsRecorded'
  BY DEF SecurityInv, ThreatsRecorded, CancelSeen
<1> QED
  BY <1>1, <1>2, <1>3, <1>4, <1>5 DEF SecurityInv

\* A directory whose kind cannot be told leaves a mark.
LEMMA CountUnknownKeeps ==
    ASSUME SecurityInv, CountUnknown
    PROVE  SecurityInv'
<1>1. SecurityTypeOK'
  BY DEF SecurityInv, SecurityTypeOK, CountUnknown, files, walk, scanner
<1>2. (KindsKept /\ WalkOK /\ MarkKept)'
  BY DEF SecurityInv, KindsKept, WalkOK, MarkKept, CountUnknown, files, walk, scanner
<1>3. (OpenedOK /\ SeenOK)'
  BY DEF SecurityInv, OpenedOK, SeenOK, Marked, CountUnknown
<1>4. Covered'
  BY DEF SecurityInv, Covered, Marked, CountUnknown
<1>5. ThreatsRecorded'
  BY DEF SecurityInv, ThreatsRecorded, CountUnknown
<1> QED
  BY <1>1, <1>2, <1>3, <1>4, <1>5 DEF SecurityInv

\* A job that gives up at the limit is marked.
LEMMA LimitReachedKeeps ==
    ASSUME SecurityInv, LimitReached
    PROVE  SecurityInv'
<1>1. SecurityTypeOK'
  BY DEF SecurityInv, SecurityTypeOK, LimitReached, files
<1>2. (KindsKept /\ WalkOK /\ MarkKept)'
  BY DEF SecurityInv, KindsKept, WalkOK, MarkKept, LimitReached, files
<1>3. (OpenedOK /\ SeenOK)'
  BY DEF SecurityInv, OpenedOK, SeenOK, Marked, LimitReached
<1>4. Covered'
  BY DEF SecurityInv, Covered, Marked, LimitReached
<1>5. ThreatsRecorded'
  BY DEF SecurityInv, ThreatsRecorded, LimitReached
<1> QED
  BY <1>1, <1>2, <1>3, <1>4, <1>5 DEF SecurityInv

\* A file taken from the listing is in hand instead of ahead.
LEMMA ScanTheFileKeeps ==
    ASSUME SecurityInv, ScanTheFile
    PROVE  SecurityInv'
<1>1. SecurityTypeOK'
  BY DEF SecurityInv, SecurityTypeOK, ScanTheFile, files, walk, result, scanner
<1>2. (KindsKept /\ WalkOK /\ MarkKept)'
  BY DEF SecurityInv, KindsKept, WalkOK, MarkKept, ScanTheFile, files, walk, scanner
<1>3. (OpenedOK /\ SeenOK)'
  BY DEF SecurityInv, OpenedOK, SeenOK, Marked, ScanTheFile, files, result, scanner
<1>4. Covered'
  BY DEF SecurityInv, Covered, Marked, Due, Ahead, ScanTheFile, files, walk, result, scanner
<1>5. ThreatsRecorded'
  BY DEF SecurityInv, ThreatsRecorded, ScanTheFile, result
<1> QED
  BY <1>1, <1>2, <1>3, <1>4, <1>5 DEF SecurityInv

\* What lay below a directory lies below one of the entries listed.
LEMMA ReadDirectoryKeeps ==
    ASSUME SecurityInv, ReadDirectory
    PROVE  SecurityInv'
<1>1. SecurityTypeOK'
  BY DEF SecurityInv, SecurityTypeOK, ReadDirectory, files, result, scanner
<1>2. (KindsKept /\ WalkOK /\ MarkKept)'
  BY DEF SecurityInv, KindsKept, WalkOK, MarkKept, ReadDirectory, files, scanner
<1>3. (OpenedOK /\ SeenOK)'
  BY DEF SecurityInv, OpenedOK, SeenOK, Marked, ReadDirectory, files, result, scanner
<1>4. Covered'
  BY TreeAssumption DEF SecurityInv, KindsKept, WalkOK, Covered, Marked, Due, Ahead,
     ReadDirectory, files, result, scanner
<1>5. ThreatsRecorded'
  BY DEF SecurityInv, ThreatsRecorded, ReadDirectory, result
<1> QED
  BY <1>1, <1>2, <1>3, <1>4, <1>5 DEF SecurityInv

\* An entry that is passed over is no file that is due, or leaves a mark.
LEMMA LookAtKeeps ==
    ASSUME SecurityInv, NEW e \in Entry, LookAt(e)
    PROVE  SecurityInv'
<1>1. SecurityTypeOK'
  BY DEF SecurityInv, SecurityTypeOK, LookAt, files, result
<1>2. (KindsKept /\ WalkOK /\ MarkKept)'
  BY DEF SecurityInv, KindsKept, WalkOK, MarkKept, LookAt, files
<1>3. (OpenedOK /\ SeenOK)'
  BY DEF SecurityInv, OpenedOK, SeenOK, Marked, LookAt, files, result
<1>4. Covered'
  BY TreeAssumption DEF SecurityInv, KindsKept, WalkOK, Covered, Marked, Due, Ahead, Shielded,
     Inner, LookAt, files, result
<1>5. ThreatsRecorded'
  BY DEF SecurityInv, ThreatsRecorded, LookAt, result
<1> QED
  BY <1>1, <1>2, <1>3, <1>4, <1>5 DEF SecurityInv

\* The directories found are ahead in the walk after their parent.
LEMMA EndDirectoryKeeps ==
    ASSUME SecurityInv, EndDirectory
    PROVE  SecurityInv'
<1>1. SecurityTypeOK'
  BY DEF SecurityInv, SecurityTypeOK, EndDirectory, files, result, scanner
<1>2. (KindsKept /\ WalkOK /\ MarkKept)'
  BY DEF SecurityInv, KindsKept, WalkOK, MarkKept, EndDirectory, files, scanner
<1>3. (OpenedOK /\ SeenOK)'
  BY DEF SecurityInv, OpenedOK, SeenOK, Marked, EndDirectory, files, result, scanner
<1>4. Covered'
  BY DEF SecurityInv, Covered, Marked, Due, Ahead, EndDirectory, files, result, scanner
<1>5. ThreatsRecorded'
  BY DEF SecurityInv, ThreatsRecorded, EndDirectory, result
<1> QED
  BY <1>1, <1>2, <1>3, <1>4, <1>5 DEF SecurityInv

\* A file that is opened stays in hand, and one that is not is marked.
LEMMA OpenFileKeeps ==
    ASSUME SecurityInv, OpenFile
    PROVE  SecurityInv'
<1>1. SecurityTypeOK'
  <2>1. opened' \in [infected : BOOLEAN, written : BOOLEAN]
    <3>1. CASE UNCHANGED opened
      BY <3>1 DEF SecurityInv, SecurityTypeOK
    <3>2. CASE \E e \in current : opened' = [infected |-> e \in infected, written |-> FALSE]
      <4>1. PICK e \in current : opened' = [infected |-> e \in infected, written |-> FALSE]
        BY <3>2
      <4>2. (e \in infected) \in BOOLEAN
        OBVIOUS
      <4> QED BY <4>1, <4>2, Zenon
    <3> QED BY <3>1, <3>2 DEF OpenFile
  <2>2. seen' \subseteq Entry /\ current' \subseteq Entry
    BY DEF SecurityInv, SecurityTypeOK, OpenFile, FileEnds
  <2> QED BY <2>1, <2>2 DEF OpenFile, FileEnds, SecurityInv, SecurityTypeOK, files, walk
<1>2. (KindsKept /\ WalkOK /\ MarkKept)'
  BY DEF SecurityInv, KindsKept, WalkOK, MarkKept, OpenFile, FileEnds, files, walk
<1>3. (OpenedOK /\ SeenOK)'
  <2>1. OpenedOK'
    <3>1. SUFFICES ASSUME phase' = "read" PROVE OpenedOK'
      BY DEF OpenedOK
    <3>2. PICK e \in current : opened' = [infected |-> e \in infected, written |-> FALSE]
      BY <3>1 DEF OpenFile, FileEnds
    <3>3. current' = {e}
      BY <3>1 DEF OpenFile, FileEnds, SecurityInv, WalkOK
    <3> QED BY <3>2, <3>3 DEF OpenFile, OpenedOK, files
  <2>2. SeenOK'
    BY DEF SecurityInv, OpenFile, SeenOK, FileEnds, Marked, files
  <2> QED BY <2>1, <2>2
<1>4. Covered'
  BY DEF SecurityInv, Covered, Marked, Due, Ahead, OpenFile, files, walk
<1>5. ThreatsRecorded'
  BY DEF SecurityInv, ThreatsRecorded, OpenFile
<1> QED
  BY <1>1, <1>2, <1>3, <1>4, <1>5 DEF SecurityInv

\* What is scanned has been seen, and malware in it was counted.
LEMMA FileScannedKeeps ==
    ASSUME SecurityInv, FileScanned
    PROVE  SecurityInv'
<1>1. SecurityTypeOK'
  BY DEF SecurityInv, SecurityTypeOK, FileScanned, FileEnds, files, walk
<1>2. (KindsKept /\ WalkOK /\ MarkKept)'
  BY DEF SecurityInv, KindsKept, WalkOK, MarkKept, FileScanned, FileEnds, files, walk
<1>3. (OpenedOK /\ SeenOK)'
  <2>1. OpenedOK'
    BY DEF SecurityInv, OpenedOK, FileScanned, FileEnds, files
  <2>2. CASE doubt' = TRUE
    BY <2>1, <2>2, Zenon DEF SeenOK, Marked
  <2>3. CASE threats' = threats \cup current /\ UNCHANGED <<seen, doubt>>
    BY <2>1, <2>3 DEF SecurityInv, SeenOK, FileScanned, Marked, files
  <2>4. CASE ~opened.infected /\ ~opened.written /\ FileEnds /\ UNCHANGED <<doubt, threats>>
    <3>1. \A e \in current : ~(e \in infected /\ Path[e] \cap touched = {})
      BY <2>4 DEF SecurityInv, OpenedOK, FileScanned
    <3> QED BY <2>1, <2>4, <3>1 DEF SecurityInv, SeenOK, FileScanned, FileEnds, Marked, files
  <2> QED BY <2>2, <2>3, <2>4 DEF FileScanned
<1>4. Covered'
  BY DEF SecurityInv, Covered, Marked, Due, Ahead, FileScanned, FileEnds, files, walk
<1>5. ThreatsRecorded'
  BY DEF SecurityInv, ThreatsRecorded, FileScanned
<1> QED
  BY <1>1, <1>2, <1>3, <1>4, <1>5 DEF SecurityInv

\* The threat in hand gets its row.
LEMMA RecordFindingsKeeps ==
    ASSUME SecurityInv, RecordFindings
    PROVE  SecurityInv'
<1>1. SecurityTypeOK'
  BY DEF SecurityInv, SecurityTypeOK, RecordFindings, FileEnds, files, walk
<1>2. (KindsKept /\ WalkOK /\ MarkKept)'
  BY DEF SecurityInv, KindsKept, WalkOK, MarkKept, RecordFindings, FileEnds, files, walk
<1>3. (OpenedOK /\ SeenOK)'
  BY DEF SecurityInv, WalkOK, OpenedOK, SeenOK, Marked, RecordFindings, FileEnds, files
<1>4. Covered'
  BY DEF SecurityInv, Covered, Marked, Due, Ahead, RecordFindings, FileEnds, files, walk
<1>5. ThreatsRecorded'
  BY DEF SecurityInv, ThreatsRecorded, RecordFindings
<1> QED
  BY <1>1, <1>2, <1>3, <1>4, <1>5 DEF SecurityInv

\* The end of a job on one file needs the file to have been seen.
LEMMA EndFileKeeps ==
    ASSUME SecurityInv, EndFile
    PROVE  SecurityInv'
<1>1. SecurityTypeOK'
  BY DEF SecurityInv, SecurityTypeOK, EndFile, ScopeStatus, files, walk, scanner
<1>2. (KindsKept /\ WalkOK /\ MarkKept)'
  BY DEF SecurityInv, KindsKept, WalkOK, MarkKept, EndFile, ScopeStatus, files, walk, scanner
<1>3. (OpenedOK /\ SeenOK)'
  BY DEF SecurityInv, OpenedOK, SeenOK, Marked, EndFile, ScopeStatus, files, scanner
<1>4. Covered'
  BY DEF SecurityInv, Covered, Marked, Due, Ahead, EndFile, ScopeStatus, files, walk, scanner
<1>5. ThreatsRecorded'
  BY DEF SecurityInv, ThreatsRecorded, EndFile
<1> QED
  BY <1>1, <1>2, <1>3, <1>4, <1>5 DEF SecurityInv

\* The wish to cancel disturbs nothing yet.
LEMMA AskCancelKeeps ==
    ASSUME SecurityInv, AskCancel
    PROVE  SecurityInv'
<1>1. SecurityTypeOK'
  BY DEF SecurityInv, SecurityTypeOK, AskCancel, files, walk, result, scanner
<1>2. (KindsKept /\ WalkOK /\ MarkKept)'
  BY DEF SecurityInv, KindsKept, WalkOK, MarkKept, AskCancel, files, walk, result, scanner
<1>3. (OpenedOK /\ SeenOK)'
  BY DEF SecurityInv, OpenedOK, SeenOK, Marked, AskCancel, files, result, scanner
<1>4. Covered'
  BY DEF SecurityInv, Covered, Marked, Due, Ahead, AskCancel, files, walk, result, scanner
<1>5. ThreatsRecorded'
  BY DEF SecurityInv, ThreatsRecorded, AskCancel, result, scanner
<1> QED
  BY <1>1, <1>2, <1>3, <1>4, <1>5 DEF SecurityInv

\* Who writes to a file takes it out of what is due.
LEMMA UserWritesToKeeps ==
    ASSUME SecurityInv, NEW e \in Entry, UserWritesTo(e)
    PROVE  SecurityInv'
<1>1. SecurityTypeOK'
  <2>1. infected' \subseteq Entry /\ touched' \subseteq Entry
    BY DEF SecurityInv, SecurityTypeOK, UserWritesTo
  <2>2. opened' \in [infected : BOOLEAN, written : BOOLEAN]
    BY DEF SecurityInv, SecurityTypeOK, UserWritesTo
  <2>3. turns' \in 0 .. MaxTurns
    BY TreeAssumption DEF SecurityInv, SecurityTypeOK, UserWritesTo
  <2> QED BY <2>1, <2>2, <2>3 DEF UserWritesTo, SecurityInv, SecurityTypeOK, result, walk
<1>2. (KindsKept /\ WalkOK /\ MarkKept)'
  BY DEF SecurityInv, KindsKept, WalkOK, MarkKept, UserWritesTo, walk, result
<1>3. (OpenedOK /\ SeenOK)'
  BY TreeAssumption DEF SecurityInv, SecurityTypeOK, OpenedOK, SeenOK, Marked, UserWritesTo,
     result
<1>4. Covered'
  BY DEF SecurityInv, Covered, Marked, Due, Ahead, UserWritesTo, walk, result
<1>5. ThreatsRecorded'
  BY DEF SecurityInv, ThreatsRecorded, UserWritesTo, result
<1> QED
  BY <1>1, <1>2, <1>3, <1>4, <1>5 DEF SecurityInv

\* Who replaces an entry takes it, and all that lies below it, out of what is due.
LEMMA UserReplacesKeeps ==
    ASSUME SecurityInv, NEW e \in Entry, UserReplaces(e)
    PROVE  SecurityInv'
<1>1. SecurityTypeOK'
  BY TreeAssumption DEF SecurityInv, SecurityTypeOK, UserReplaces, walk, result, scanner
<1>2. (KindsKept /\ WalkOK /\ MarkKept)'
  BY DEF SecurityInv, SecurityTypeOK, KindsKept, WalkOK, MarkKept, UserReplaces, walk, result,
     scanner
<1>3. (OpenedOK /\ SeenOK)'
  BY TreeAssumption DEF SecurityInv, OpenedOK, SeenOK, Marked, UserReplaces, result, scanner
<1>4. Covered'
  BY TreeAssumption DEF SecurityInv, Covered, Marked, Due, Ahead, UserReplaces, walk, result,
     scanner
<1>5. ThreatsRecorded'
  BY DEF SecurityInv, ThreatsRecorded, UserReplaces, result, scanner
<1> QED
  BY <1>1, <1>2, <1>3, <1>4, <1>5 DEF SecurityInv

\* At first the roots are all ahead, or the one file is in hand.
LEMMA InitSecurity == SecurityInit => SecurityInv
<1> SUFFICES ASSUME SecurityInit PROVE SecurityInv
  OBVIOUS
<1>1. SecurityTypeOK
  <2>1. opened \in [infected : BOOLEAN, written : BOOLEAN]
    BY DEF SecurityInit, NotOpened
  <2>2. turns \in 0 .. MaxTurns
    BY TreeAssumption DEF SecurityInit
  <2> QED
    BY <2>1, <2>2, TreeAssumption DEF SecurityInit, SecurityTypeOK, Object
<1>2. KindsKept /\ WalkOK /\ MarkKept
  BY DEF SecurityInit, KindsKept, WalkOK, MarkKept, Object
<1>3. OpenedOK /\ SeenOK /\ ThreatsRecorded
  BY DEF SecurityInit, OpenedOK, SeenOK, ThreatsRecorded
<1>4. Covered
  BY TreeAssumption DEF SecurityInit, Covered, Ahead
<1> QED
  BY <1>1, <1>2, <1>3, <1>4 DEF SecurityInv

\* A step that leaves the variables alone leaves the invariant alone.
LEMMA StutterKeeps ==
    ASSUME SecurityInv, UNCHANGED securityVars
    PROVE  SecurityInv'
<1>1. (SecurityTypeOK /\ KindsKept /\ WalkOK /\ MarkKept)'
  BY DEF SecurityInv, SecurityTypeOK, KindsKept, WalkOK, MarkKept, securityVars, files, walk,
     result, scanner
<1>2. (OpenedOK /\ SeenOK /\ ThreatsRecorded)'
  BY DEF SecurityInv, OpenedOK, SeenOK, ThreatsRecorded, Marked, securityVars, files, result,
     scanner
<1>3. Covered'
  BY DEF SecurityInv, Covered, Marked, Due, Ahead, securityVars, files, walk, result, scanner
<1> QED
  BY <1>1, <1>2, <1>3 DEF SecurityInv

\* Every step of a job and of the user keeps the invariant.
LEMMA NextSecurity == SecurityInv /\ [SecurityNext]_securityVars => SecurityInv'
BY BeginScopeKeeps, EndJobKeeps, EndScopeKeeps, CancelSeenKeeps, CountUnknownKeeps,
   LimitReachedKeeps, ScanTheFileKeeps, ReadDirectoryKeeps, LookAtKeeps, EndDirectoryKeeps,
   OpenFileKeeps, FileScannedKeeps, RecordFindingsKeeps, EndFileKeeps, AskCancelKeeps,
   UserWritesToKeeps, UserReplacesKeeps, StutterKeeps DEF SecurityNext

\* The invariant holds in every state.
THEOREM SecurityInvariant == SecuritySpec => []SecurityInv
BY InitSecurity, NextSecurity, PTL DEF SecuritySpec

\* Every variable keeps its type, for every forest and every profile.
THEOREM SecurityTypeCorrect == SecuritySpec => []SecurityTypeOK
<1>1. SecurityInv => SecurityTypeOK
  BY DEF SecurityInv
<1> QED
  BY <1>1, SecurityInvariant, PTL

\* A job that calls itself completed has found what it had to find, and every
\* threat that it counts has a row: nothing is ahead of a job that is done and
\* unmarked, so what was due was scanned.
THEOREM VerdictIsHonest == SecuritySpec => []VerdictHonest
<1>1. SecurityInv => VerdictHonest
  <2> SUFFICES ASSUME SecurityInv, phase = "done" PROVE VerdictHonest
    BY DEF VerdictHonest
  <2>1. threats \subseteq findings
    BY DEF SecurityInv, ThreatsRecorded
  <2>2. ASSUME status = "completed", NEW e \in Entry, Owed(e)
        PROVE  e \in threats
    <3>1. ~Marked
      BY <2>2 DEF SecurityInv, MarkKept, Marked
    <3>2. e \in seen
      <4>1. CASE target = "file"
        BY <2>2, <4>1 DEF SecurityInv, MarkKept, Owed
      <4>2. CASE target = "tree"
        <5>1. Due(e)
          BY <2>2, <4>2 DEF SecurityInv, KindsKept, Owed, Due
        <5>2. e \notin current /\ ~Ahead(e)
          BY <2>2, <4>2 DEF SecurityInv, MarkKept, Ahead
        <5> QED
          BY <3>1, <4>2, <5>1, <5>2 DEF SecurityInv, Covered
      <4> QED
        BY <4>1, <4>2 DEF SecurityInv, SecurityTypeOK
    <3> QED
      BY <2>2, <3>1, <3>2 DEF SecurityInv, SeenOK, Owed
  <2> QED
    BY <2>1, <2>2 DEF VerdictHonest
<1> QED
  BY <1>1, SecurityInvariant, PTL

-----------------------------------------------------------------------------
(* The parts together.                                                      *)

\* The part that moves keeps its inductive invariant.
ModulesInv ==
    /\ moving \in {"files", "software", "quarantine", "jobs", "verdict", "chat", "scan", "receipt"}
    /\ moving = "files" => FilesInv
    /\ moving = "software" => SoftwareInv
    /\ moving = "quarantine" => QuarantineInv
    /\ moving = "jobs" => JobsInv
    /\ moving = "verdict" => SecurityInv
    /\ moving = "chat" => ChatInv
    /\ moving = "scan" => ScanInv
    /\ moving = "receipt" => PanelInv

\* Whichever part moves, it starts in one of its initial states.
LEMMA ModulesStarts == Init => ModulesInv
<1> SUFFICES ASSUME Init PROVE ModulesInv
  OBVIOUS
<1>1. moving \in {"files", "software", "quarantine", "jobs", "verdict", "chat", "scan", "receipt"}
  BY DEF Init
<1>2. /\ FilesInit /\ SoftwareInit /\ QuarantineInit /\ JobsInit
      /\ SecurityInit /\ ChatInit /\ ScanInit /\ PanelInit
  BY DEF Init, PanelsInit
<1> QED
  BY <1>1, <1>2, InitFiles, InitSoftware, InitQuarantine, InitJobs, InitSecurity, ChatStarts,
     ScanStarts, PanelStarts DEF ModulesInv

\* Only the part that moves takes steps, and it keeps its own invariant.
LEMMA ModulesSteps == ModulesInv /\ [Next]_vars => ModulesInv'
<1> SUFFICES ASSUME ModulesInv, [Next]_vars PROVE ModulesInv'
  OBVIOUS
<1>1. moving' = moving
  BY DEF Next, vars
<1>2. moving = "files" => FilesInv'
  <2>1. moving = "files" => [FilesNext]_filesVars
    BY DEF Next, vars, ModulesNext, modulesVars, filesVars
  <2> QED
    BY <2>1, NextFiles DEF ModulesInv
<1>3. moving = "software" => SoftwareInv'
  <2>1. moving = "software" => [SoftwareNext]_softwareVars
    BY DEF Next, vars, ModulesNext, modulesVars, softwareVars
  <2> QED
    BY <2>1, NextSoftware DEF ModulesInv
<1>4. moving = "quarantine" => QuarantineInv'
  <2>1. moving = "quarantine" => [QuarantineNext]_quarantineVars
    BY DEF Next, vars, ModulesNext, modulesVars, quarantineVars
  <2> QED
    BY <2>1, NextQuarantine DEF ModulesInv
<1>5. moving = "jobs" => JobsInv'
  <2>1. moving = "jobs" => [JobsNext]_jobsVars
    BY DEF Next, vars, ModulesNext, modulesVars, jobsVars
  <2> QED
    BY <2>1, NextJobs DEF ModulesInv
<1>6. moving = "verdict" => SecurityInv'
  <2>1. moving = "verdict" => [SecurityNext]_securityVars
    BY DEF Next, vars, ModulesNext, modulesVars, securityVars
  <2> QED
    BY <2>1, NextSecurity DEF ModulesInv
<1>7. moving = "chat" => ChatInv'
  <2>1. moving = "chat" => [ChatNext]_chatVars
    BY DEF Next, vars, panelsVars, chatVars
  <2> QED
    BY <2>1, ChatKept DEF ModulesInv
<1>8. moving = "scan" => ScanInv'
  <2>1. moving = "scan" => [ScanNext]_scanVars
    BY DEF Next, vars, panelsVars, scanVars
  <2> QED
    BY <2>1, ScanKept DEF ModulesInv
<1>9. moving = "receipt" => PanelInv'
  <2>1. moving = "receipt" => [PanelNext]_panelVars
    BY DEF Next, vars, panelsVars, panelVars
  <2> QED
    BY <2>1, PanelKept DEF ModulesInv
<1> QED
  BY <1>1, <1>2, <1>3, <1>4, <1>5, <1>6, <1>7, <1>8, <1>9 DEF ModulesInv

\* The part of the modules or of the panel that moves keeps its types.
THEOREM ModulesTypeCorrect == Spec => []TypeOK
<1>1. ModulesInv => TypeOK
  <2> SUFFICES ASSUME ModulesInv PROVE TypeOK
    OBVIOUS
  <2>1. moving = "files" => FilesTypeOK
    BY TypedIsTypeOK DEF ModulesInv, FilesInv
  <2>2. moving = "software" => SoftwareTypeOK
    BY DEF ModulesInv, SoftwareInv, RowsOK, Fits, Row, States, BackupOK, SoftwareTypeOK
  <2>3. moving = "quarantine" => QuarantineTypeOK
    BY DEF ModulesInv, QuarantineInv
  <2>4. moving = "jobs" => JobsTypeOK
    BY DEF ModulesInv, JobsInv
  <2>5. moving = "verdict" => SecurityTypeOK
    BY DEF ModulesInv, SecurityInv
  <2>6. moving = "chat" => ChatTypeOK
    BY DEF ModulesInv, ChatInv
  <2>7. moving = "scan" => ScanTypeOK
    BY DEF ModulesInv, ScanInv
  <2>8. moving = "receipt" => PanelTypeOK
    BY DEF ModulesInv, PanelInv
  <2> QED
    BY <2>1, <2>2, <2>3, <2>4, <2>5, <2>6, <2>7, <2>8 DEF ModulesInv, TypeOK
<1> QED
  BY <1>1, ModulesStarts, ModulesSteps, PTL DEF Spec

================================================================================
