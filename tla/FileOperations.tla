---------------------------- MODULE FileOperations ----------------------------
(***************************************************************************)
(* FileOperationsService: one plan, prepared and then committed, that      *)
(* moves, renames or trashes a few of the user's files, or undoes what it  *)
(* did when one of the moves fails, while the user goes on working.        *)
(*                                                                         *)
(* A place holds nothing, the item that was approved, or something of the  *)
(* user's: another file or an item the user has changed.  Every item has   *)
(* two names in the destination, its own and a numbered one.  Items have   *)
(* different names; the plan "create" only makes a directory.              *)
(***************************************************************************)
EXTENDS Integers, FiniteSets

CONSTANTS
    Item,         \* the selection, 1 .. n
    MaxUserSteps  \* bound: what the user does meanwhile

ASSUME ItemAssumption == IsFiniteSet(Item) /\ Item # {} /\ Item = 1 .. Cardinality(Item)
ASSUME StepsAssumption == MaxUserSteps \in Nat

VARIABLES
    request,   \* what the plan is for
    plan,      \* its state and error_code
    home,      \* what is at the path of each source
    dest,      \* what is at the names in the destination
    folder,    \* the directory the items go to exists
    info,      \* the .trashinfo file of each item
    work,      \* the thread that commits
    user       \* history: what the user did, and what it cost

filesVars == <<request, plan, home, dest, folder, info, work, user>>

Content == {"none", "item", "user"}
Name == 1 .. 2

Selected == IF request.kind = "rename" THEN {1} ELSE IF request.kind = "create" THEN {} ELSE Item

FilesTypeOK ==
    /\ request \in [kind : {"move", "rename", "trash", "create"}, policy : {"fail", "rename"},
                    directory : BOOLEAN]
    /\ plan.state \in {"prepared", "committing", "committed", "cancelled", "failed", "lost"}
    /\ plan.error # "none" => plan.state = "failed"
    /\ home \in [Item -> Content] /\ dest \in [Item -> [Name -> Content]]
    /\ folder \in BOOLEAN
    /\ info \in [Item -> {"none", "partial", "full"}]
    /\ work.item \in 0 .. Cardinality(Item) + 1
    /\ work.target \in [Item -> Name] /\ work.made \in BOOLEAN /\ work.failures \in BOOLEAN
    /\ work.step # "rest" => plan.state = "committing"
    /\ user.touched \subseteq Item /\ user.steps \in 0 .. MaxUserSteps

\* A move into a directory of its own, or into a root that is always there.
FilesInit ==
    /\ request \in {r \in [kind : {"move", "rename", "trash", "create"},
                           policy : {"fail", "rename"}, directory : BOOLEAN] :
                       /\ r.directory <=> r.kind \in {"move", "trash", "create"}
                       /\ r.kind \in {"trash", "create"} => r.policy = "rename"}
                  \cup {[kind |-> "move", policy |-> p, directory |-> FALSE] : p \in {"fail", "rename"}}
    /\ plan = [state |-> "prepared", error |-> "none"]
    /\ home = [i \in Item |-> "item"]
    /\ dest \in [Item -> [Name -> {"none", "user"}]]
    /\ folder \in BOOLEAN
    /\ ~request.directory => folder
    /\ ~folder => \A i \in Item, n \in Name : dest[i][n] = "none"
    /\ info = [i \in Item |-> "none"]
    /\ work = [step |-> "rest", item |-> 0, target |-> [i \in Item |-> 1],
               made |-> FALSE, failures |-> FALSE, error |-> "none"]
    /\ user = [touched |-> {}, raced |-> FALSE, clobbered |-> FALSE, abandoned |-> FALSE,
               steps |-> 0]

places == <<home, dest, folder, info>>

-----------------------------------------------------------------------------
(* The thread, which holds the service's lock. *)

Step(s) == work' = [work EXCEPT !.step = s]

\* Mutant of Failed: the error is noted, and the thread goes on.
FailedGoesOn(error) ==
    /\ plan' = [state |-> "failed", error |-> error]
    /\ UNCHANGED work

Failed(error) ==
    /\ plan' = [state |-> "failed", error |-> error]
    /\ Step("rest")

CancelPlan ==
    /\ plan.state = "prepared"
    /\ plan' = [plan EXCEPT !.state = "cancelled"]
    /\ UNCHANGED <<request, places, work, user>>

\* commit(): a plan is tried once, and not after its time.
CommitPlan ==
    /\ plan.state = "prepared"
    /\ \/ /\ plan' = [plan EXCEPT !.state = "committing"]
          /\ Step("verify")
       \/ Failed("plan_expired")
    /\ UNCHANGED <<request, places, user>>

\* _verify_snapshots(): all sources are what was approved.
VerifySnapshots ==
    /\ work.step = "verify"
    /\ IF \A i \in Selected : home[i] = "item"
       THEN Step("destination") /\ UNCHANGED plan
       ELSE Failed("selection_changed")
    /\ UNCHANGED <<request, places, user>>

\* The destination is checked and the directory made.  An unsafe root is a
\* ValueError, which nothing catches: the plan stays as it is.
Destination ==
    /\ work.step = "destination"
    /\ \/ /\ request.directory /\ ~folder
          /\ folder' = TRUE
          /\ work' = [work EXCEPT !.step = "targets", !.made = request.kind = "move"]
          /\ UNCHANGED plan
       \/ folder /\ request.kind # "create" /\ Step("targets") /\ UNCHANGED <<folder, plan>>
       \/ Failed("filesystem_operation_failed") /\ UNCHANGED folder
       \/ request.kind \in {"move", "create"} /\ Step("rest") /\ UNCHANGED <<folder, plan>>
    /\ UNCHANGED <<request, home, dest, info, user>>

\* _available_target()
Free(i) == {n \in Name : dest[i][n] = "none"}
Target(i) == IF 1 \in Free(i) THEN 1 ELSE 2

Empty == \A i \in Item, n \in Name : dest[i][n] = "none"

\* _targets_for_sources(): all names are chosen before the first move.  A
\* directory cannot be moved into itself, nor an item renamed to its own name;
\* a directory made for the move is then removed, and kept when there is no
\* name for an item.
Targets ==
    /\ work.step = "targets"
    /\ \/ /\ IF \A i \in Selected : Free(i) # {} /\ (request.policy = "fail" => 1 \in Free(i))
             THEN /\ work' = [work EXCEPT !.step = "move", !.item = 1,
                                          !.target = [i \in Item |-> Target(i)]]
                  /\ UNCHANGED plan
             ELSE Failed("destination_exists")
          /\ UNCHANGED folder
       \/ /\ request.kind \in {"move", "rename"}
          /\ Failed(IF request.kind = "move" THEN "destination_inside_source" ELSE "rename_is_noop")
          /\ folder' = (folder /\ ~(work.made /\ Empty))
    /\ UNCHANGED <<request, home, dest, info, user>>

\* Mutant of Undo: the last item that was moved is not yet on the list.
UndoShort(last, error) ==
    work' = [work EXCEPT !.step = IF request.kind = "trash" THEN "unlink" ELSE "undo",
                         !.item = IF last = 0 THEN 0 ELSE last - 1, !.error = error]

\* The moves made so far are undone, from the last one.
Undo(last, error) ==
    work' = [work EXCEPT !.step = IF request.kind = "trash" THEN "unlink" ELSE "undo",
                         !.item = last, !.error = error]

\* _ensure_absent()
Absent(i) == dest[i][work.target[i]] = "none"

\* _atomic_move(), its test ...
TestTarget ==
    /\ work.step = "move"
    /\ IF work.item \in Selected
       THEN /\ IF Absent(work.item) THEN Step("replace") ELSE Undo(work.item - 1, "destination_exists")
            /\ UNCHANGED plan
       ELSE plan' = [plan EXCEPT !.state = "committed"] /\ Step("rest")
    /\ UNCHANGED <<request, places, user>>

\* ... and its os.replace(), which replaces whatever is there by now.
Replace ==
    /\ work.step = "replace"
    /\ LET i == work.item IN
       \/ /\ home[i] # "none" /\ folder
          /\ dest' = [dest EXCEPT ![i][work.target[i]] = home[i]]
          /\ home' = [home EXCEPT ![i] = "none"]
          /\ user' = [user EXCEPT !.clobbered = @ \/ dest[i][work.target[i]] # "none"]
          /\ work' = IF request.kind = "trash" THEN [work EXCEPT !.step = "info"]
                     ELSE [work EXCEPT !.step = "move", !.item = i + 1]
       \/ Undo(i - 1, "move_failed") /\ UNCHANGED <<home, dest, user>>
    /\ UNCHANGED <<request, plan, folder, info>>

\* _write_trash_info(): the item has been moved before, an error may come after
\* some of the text.
WriteInfo ==
    /\ work.step = "info"
    /\ \/ /\ info' = [info EXCEPT ![work.item] = "full"]
          /\ work' = [work EXCEPT !.step = "move", !.item = @ + 1]
       \/ /\ \E left \in {"none", "partial"} : info' = [info EXCEPT ![work.item] = left]
          /\ Undo(work.item, "trash_failed")
    /\ UNCHANGED <<request, plan, home, dest, folder, user>>

\* The .trashinfo files written completely are removed; an error here leaves
\* the items in the trash, and those files that had not been removed yet.
UnlinkInfo ==
    /\ work.step = "unlink"
    /\ \E n \in 0 .. Cardinality(Item) :
        /\ info' = [i \in Item |-> IF i <= n /\ info[i] = "full" THEN "none" ELSE info[i]]
        /\ IF \A i \in Item : info'[i] # "full"
           THEN Step("undo") /\ UNCHANGED <<plan, user>>
           ELSE Failed("filesystem_operation_failed") /\ user' = [user EXCEPT !.abandoned = TRUE]
    /\ UNCHANGED <<request, home, dest, folder>>

Vacant(i) == home[i] = "none"

\* _rollback_moves(): an item whose old path is taken stays where it is ...
TestHome ==
    /\ work.step = "undo"
    /\ IF work.item > 0
       THEN /\ work' = IF Vacant(work.item) THEN [work EXCEPT !.step = "restore"]
                       ELSE [work EXCEPT !.item = @ - 1, !.failures = TRUE]
            /\ UNCHANGED <<plan, folder>>
       ELSE IF work.failures
            THEN Failed("rollback_failed") /\ UNCHANGED folder
            ELSE /\ Failed(work.error)
                 /\ folder' = (folder /\ ~(work.made /\ Empty))
    /\ UNCHANGED <<request, home, dest, info, user>>

\* ... and the others go back, where one error does not stop the rest.
Restore ==
    /\ work.step = "restore"
    /\ LET i == work.item
           there == dest[i][work.target[i]]
       IN  \/ /\ there # "none"
              /\ home' = [home EXCEPT ![i] = there]
              /\ dest' = [dest EXCEPT ![i][work.target[i]] = "none"]
              /\ user' = [user EXCEPT !.clobbered = @ \/ home[i] # "none"]
              /\ work' = [work EXCEPT !.step = "undo", !.item = @ - 1]
           \/ /\ work' = [work EXCEPT !.step = "undo", !.item = @ - 1, !.failures = TRUE]
              /\ UNCHANGED <<home, dest, user>>
    /\ UNCHANGED <<request, plan, folder, info>>

\* The module's process dies: plans are in memory only.
PlanLost ==
    /\ plan.state \in {"prepared", "committing"}
    /\ plan' = [plan EXCEPT !.state = "lost"]
    /\ Step("rest")
    /\ UNCHANGED <<request, places, user>>

-----------------------------------------------------------------------------
(* The user. *)

UserStep == user.steps < MaxUserSteps

Touch(i) == user' = [user EXCEPT !.touched = @ \cup {i}, !.steps = @ + 1]

\* An item is edited or taken away where it is.
UserTakes(i) ==
    /\ UserStep
    /\ \/ /\ home[i] = "item"
          /\ \E left \in {"none", "user"} : home' = [home EXCEPT ![i] = left]
          /\ UNCHANGED dest
       \/ \E n \in Name : /\ dest[i][n] = "item"
                          /\ dest' = [dest EXCEPT ![i][n] = "none"]
                          /\ UNCHANGED home
    /\ Touch(i)
    /\ UNCHANGED <<request, plan, folder, info, work>>

\* A file is created where there is none, perhaps between a test and the move.
UserCreates(i) ==
    /\ UserStep
    /\ \/ /\ home[i] = "none"
          /\ home' = [home EXCEPT ![i] = "user"]
          /\ user' = [user EXCEPT !.steps = @ + 1,
                                  !.raced = @ \/ (work.step = "restore" /\ work.item = i)]
          /\ UNCHANGED dest
       \/ \E n \in Name :
          /\ folder /\ dest[i][n] = "none"
          /\ dest' = [dest EXCEPT ![i][n] = "user"]
          /\ user' = [user EXCEPT !.steps = @ + 1,
                         !.raced = @ \/ (work.step = "replace" /\ work.item = i /\ work.target[i] = n)]
          /\ UNCHANGED home
    /\ UNCHANGED <<request, plan, folder, info, work>>

UserRemovesFolder ==
    /\ UserStep
    /\ request.directory /\ folder /\ Empty
    /\ folder' = FALSE
    /\ user' = [user EXCEPT !.steps = @ + 1]
    /\ UNCHANGED <<request, plan, home, dest, info, work>>

FilesNext ==
    \/ CancelPlan \/ CommitPlan \/ VerifySnapshots \/ Destination \/ Targets
    \/ TestTarget \/ Replace \/ WriteInfo \/ UnlinkInfo \/ TestHome \/ Restore
    \/ PlanLost
    \/ \E i \in Item : UserTakes(i) \/ UserCreates(i)
    \/ UserRemovesFolder

FilesSpec == FilesInit /\ [][FilesNext]_filesVars

-----------------------------------------------------------------------------

\* A plan that is reported as committed moved every item that was approved and
\* noted where it came from; one that failed left every item where it was,
\* unless it says that the undo failed.  (An error while the .trashinfo files
\* are removed is the exception: the undo is not even tried.)  Either way a file
\* of the user's is overwritten, by a move or by its undo, only when it appeared
\* between the test and the rename.
PlanHonest ==
    /\ plan.state = "committed" =>
          \A i \in Selected \ user.touched :
              /\ dest[i][work.target[i]] = "item"
              /\ request.kind = "trash" => info[i] = "full"
    /\ plan.state = "failed" /\ plan.error # "rollback_failed" /\ ~user.abandoned =>
          \A i \in Item \ user.touched : home[i] = "item"
    /\ user.clobbered => user.raced

===============================================================================
