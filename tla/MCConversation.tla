---------------------------- MODULE MCConversation ----------------------------
(* Model checking instance of the way of a message: the workspace's runs, the *)
(* routing of the message, the turn of the language model and the plan that   *)
(* comes of it.  WorkspaceRuntime leaves open what the routers and the model  *)
(* decide, the others look at one message each, so one of the four moves in a *)
(* behaviour and the others rest in one of their initial states.              *)
EXTENDS MCWorkspaceRuntime, IntentPlan, TurnRoute, ModelTurn

\* A message that names no file, one that names a file and quotes something,
\* and one that says that the name is to be looked for literally.
MCMessage == {[namesFile |-> FALSE, cue |-> FALSE, quoted |-> FALSE],
              [namesFile |-> TRUE, cue |-> FALSE, quoted |-> TRUE],
              [namesFile |-> TRUE, cue |-> TRUE, quoted |-> FALSE]}

\* What becomes of the words of the user before there is a plan: the router takes
\* a message apart and says what may be done, and the turn of the language model
\* makes an action of what the model proposes.
messageVars == <<routeVars, turnVars>>

MessageInit == RouteInit /\ TurnInit

MessageNext ==
    \/ RouteNext /\ UNCHANGED turnVars
    \/ TurnNext /\ UNCHANGED routeVars

MessageSpec == MessageInit /\ [][MessageNext]_messageVars

VARIABLE moving  \* the part that moves

conversationVars == <<vars, intentVars, routeVars, turnVars, moving>>

ConversationInit ==
    /\ moving \in {"runs", "plan", "route", "turn"}
    /\ Init
    /\ IntentInit
    /\ moving = "plan" \/ (~message.namesFile /\ context.results = Nothing)
    /\ RouteInit
    /\ moving = "route" \/ (~guarded /\ ~collection /\ ~answering /\ \A i \in DOMAIN phrases : phrases[i].op = "none")
    /\ moving = "route" \/ \A i \in DOMAIN parted : parted[i]
    /\ TurnInit

ConversationNext ==
    /\ \/ moving = "runs" /\ Next /\ UNCHANGED <<intentVars, routeVars, turnVars>>
       \/ moving = "plan" /\ IntentNext /\ UNCHANGED <<vars, routeVars, turnVars>>
       \/ moving = "route" /\ RouteNext /\ UNCHANGED <<vars, intentVars, turnVars>>
       \/ moving = "turn" /\ TurnNext /\ UNCHANGED <<vars, intentVars, routeVars>>
    /\ UNCHANGED moving

ConversationSpec == ConversationInit /\ [][ConversationNext]_conversationVars

\* The runs that have the names of the ids are alike, as only one part is moving,
\* and so are the values that other tasks leave.
ConversationSymmetry == Permutations(Id) \cup Permutations(Other)

\* The type invariant of the part that moves; the others stay as they were.
ConversationTypeOK ==
    CASE moving = "runs" -> TypeOK
      [] moving = "plan" -> IntentTypeOK
      [] moving = "route" -> RouteTypeOK
      [] moving = "turn" -> TurnTypeOK

\* What is compiled on the evidence of a message's words is what the capability
\* router finds asked for in the whole of it, which may miss a negation; and the
\* reviews of the model's turn neither lose nor add what the user said, as
\* OnlyWhatWasAsked and NothingLostOrInvented put it.
TurnsHonest == OnlyWhatWasAsked /\ NothingLostOrInvented

===============================================================================
