--------------------------------- MODULE ModelTurn ---------------------------------
(***************************************************************************)
(* One turn of the language model (OllamaModelProvider.route).  A small    *)
(* model's function calls are not taken as they are: a value in a place    *)
(* that cannot hold it is moved, the role of the subject of a search is    *)
(* reviewed, modifiers that nobody asked for are taken out, arguments that *)
(* must not get lost are asked for again, and the destination of a copy is *)
(* read from the user's own words.  Each review is another answer of the   *)
(* same model, so it may be wrong, too, or fail.                           *)
(*                                                                         *)
(* A turn has a search, a file operation, or both.  A value is abstracted  *)
(* to whether it stands in the message.                                    *)
(***************************************************************************)
VARIABLES
    facts,     \* what holds of the message and of the proposed subject
    calls,     \* the kinds of the calls
    proposal,  \* the arguments as the model proposed them
    args,      \* the arguments now
    unread,    \* modifiers that have not been reviewed
    word,      \* history: what the reviews said of the arguments
    reviewing  \* how far the turn is

turnVars == <<facts, calls, proposal, args, unread, word, reviewing>>

\* Optional arguments of a search that the module wants to have been requested,
\* and arguments of a file operation that it wants to be preserved (a policy
\* for conflicts is like the name of a directory).
Modifier == {"name_terms", "sort_by"}
Preserved == {"destination", "directory_name"}
preserved_arguments(kind) ==
    CASE kind = "copy" -> {"directory_name"} [] kind = "move" -> Preserved [] OTHER -> {}

\* The values of content_match, and other values, which stand in the message or not.
Choice == {"semantic", "exact_phrase"}
Odd == {"odd_stated", "odd_invented"}

Facts ==
    [cues : SUBSET Modifier,     \* modifiers that the message shows by itself
     role : {"none", "user"},    \* the destination that the message names
     overlap : BOOLEAN,          \* the subject's words stand in another argument
     named : BOOLEAN,            \* the subject is the name of the destination
     siblings : BOOLEAN]         \* the search has other arguments
NoFacts == [cues |-> {}, role |-> "none", overlap |-> FALSE, named |-> FALSE, siblings |-> FALSE]

Arguments ==
    [text : {"none", "stated", "invented"}, match : {"none"} \cup Choice \cup Odd,
     modifiers : SUBSET Modifier, kept : SUBSET Preserved, destination : {"none", "model", "user"}]

NoArguments ==
    [text |-> "none", match |-> "none", modifiers |-> {}, kept |-> {}, destination |-> "none"]
NoWord == [requested |-> {}, refused |-> {}, present |-> {}]

Calls == {{"search"}, {"copy"}, {"move"}, {"search", "copy"}, {"search", "move"}}
FileKind == IF "copy" \in calls THEN "copy" ELSE IF "move" \in calls THEN "move" ELSE "none"

\* The calls have become a payload, the user is asked for the arguments or for
\* the destination, the model has answered or there is nothing that it can do,
\* or its answer is of no use.
TurnEnds == {"action", "arguments", "where", "conversation", "unsupported", "provider_error"}

TurnTypeOK ==
    /\ facts \in Facts
    /\ calls \in Calls \cup {{}}
    /\ proposal \in Arguments /\ args \in Arguments
    /\ unread \subseteq Modifier
    /\ word \in [requested : SUBSET Modifier, refused : SUBSET Modifier, present : SUBSET Preserved]
    /\ reviewing \in {"ask", "again", "relocate", "roles", "modifiers", "preserved", "payload"}
                 \cup TurnEnds

TurnInit ==
    /\ facts = NoFacts
    /\ calls = {} /\ proposal = NoArguments /\ args = NoArguments
    /\ unread = {} /\ word = NoWord /\ reviewing = "ask"

-----------------------------------------------------------------------------
(* route()                                                                   *)

\* Arguments are those of the calls; a model may propose any of them.
Proposable(kinds) ==
    {a \in Arguments :
        /\ "search" \notin kinds => a.text = "none" /\ a.match = "none" /\ a.modifiers = {}
        /\ a.kept \subseteq UNION {preserved_arguments(k) : k \in kinds}
        /\ a.destination \in (IF "copy" \in kinds THEN {"none", "model"} ELSE {"none"})}

\* The subject that is proposed, also in the place of content_match.
Subject(a) == a.text # "none" \/ a.match \in Odd

\* What may hold of the message and of what is proposed, as far as it matters.
FactsOf(kinds, a) ==
    {f \in Facts :
        /\ f.cues \subseteq a.modifiers
        /\ f.role # "none" => "copy" \in kinds
        /\ f.overlap \/ f.named \/ (f.siblings /\ a.modifiers = {}) => Subject(a)
        /\ f.overlap \/ a.modifiers # {} => f.siblings}

\* The model is asked; an empty answer is asked for once more.
Propose ==
    /\ reviewing \in {"ask", "again"}
    /\ \/ reviewing' \in {"conversation", "unsupported", "provider_error"}
          /\ UNCHANGED <<facts, calls, proposal, args, unread>>
       \/ reviewing = "ask" /\ reviewing' = "again"
          /\ UNCHANGED <<facts, calls, proposal, args, unread>>
       \/ /\ calls' \in Calls
          /\ proposal' \in Proposable(calls')
          /\ facts' \in FactsOf(calls', proposal')
          /\ args' = proposal' /\ unread' = proposal'.modifiers
          /\ reviewing' = "relocate"
    /\ UNCHANGED word

\* _relocate_invalid_conditional_values(): a value that content_match cannot have
\* is the missing subject, or goes if the subject is there; both must stand in
\* the message.
Relocate ==
    /\ reviewing = "relocate"
    /\ IF args.match \notin Odd THEN reviewing' = "roles" /\ UNCHANGED args
       ELSE IF args.match = "odd_invented" \/ args.text = "invented"
       THEN reviewing' = "arguments" /\ UNCHANGED args
       ELSE reviewing' = "roles" /\ args' = [args EXCEPT !.match = "none", !.text = "stated"]
    /\ UNCHANGED <<facts, calls, proposal, unread, word>>

\* Mutant of Corroborated: the review's word is enough.
Believed == TRUE

\* The words of the subject stand in another argument, or name the destination
\* of another operation.
Corroborated == facts.overlap \/ facts.named

\* The subject belongs elsewhere: it is taken out if it stands in the message.
Misplaced ==
    IF args.text = "stated"
    THEN args' = [args EXCEPT !.text = "none", !.match = "none"] /\ reviewing' = "modifiers"
    ELSE reviewing' = "arguments" /\ UNCHANGED args

\* _review_conditional_arguments(): the role of the subject decides how it is
\* matched.  That it is none is only believed if something corroborates it;
\* otherwise the model's own choice stays, or the review is asked for a role.
Roles ==
    /\ reviewing = "roles"
    /\ IF args.text = "none" THEN reviewing' = "modifiers" /\ UNCHANGED args
       ELSE \/ reviewing' = "arguments" /\ UNCHANGED args
            \/ \E choice \in Choice :
                 args' = [args EXCEPT !.match = choice] /\ reviewing' = "modifiers"
            \/ /\ facts.siblings /\ ~Corroborated /\ args.match # "none"
               /\ reviewing' = "modifiers" /\ UNCHANGED args
            \/ ~facts.siblings /\ Misplaced
            \/ Corroborated /\ Misplaced
    /\ UNCHANGED <<facts, calls, proposal, unread, word>>

\* _is_grounded_full_filename_filter() and _has_explicit_request_cue().
Shown(m) == m \in facts.cues /\ (m = "name_terms" => args.text = "none")

\* _review_explicit_optional_arguments(): a modifier that the message does not
\* show stays if the review quotes the message, and goes if nobody requested it.
\* A quotation that is none is asked for once more; everything else is a
\* question.
Modifiers ==
    /\ reviewing = "modifiers"
    /\ IF unread = {} THEN reviewing' = "preserved" /\ UNCHANGED <<args, unread, word>>
       ELSE \E m \in unread :
              /\ unread' = unread \ {m}
              /\ \/ Shown(m) /\ UNCHANGED <<args, word, reviewing>>
                 \/ /\ ~Shown(m)
                    /\ \/ /\ word' = [word EXCEPT !.requested = @ \cup {m}]
                          /\ UNCHANGED <<args, reviewing>>
                       \/ /\ word' = [word EXCEPT !.refused = @ \cup {m}]
                          /\ args' = [args EXCEPT !.modifiers = @ \ {m}]
                          /\ UNCHANGED reviewing
                       \/ reviewing' = "arguments" /\ UNCHANGED <<args, word>>
    /\ UNCHANGED <<facts, calls, proposal>>

\* What the review of the preserved arguments asks about.
Missed == preserved_arguments(FileKind) \ args.kept

\* _apply_argument_reviews(): one review says of every missing argument that
\* the message has it, with evidence, or not; a default that it explains is not
\* added.
PreservedReview ==
    /\ reviewing = "preserved"
    /\ \/ \E present \in SUBSET Missed :
             /\ args' = [args EXCEPT !.kept = @ \cup present]
             /\ word' = [word EXCEPT !.present = present]
             /\ reviewing' = "payload"
       \/ Missed # {} /\ reviewing' = "arguments" /\ UNCHANGED <<args, word>>
    /\ UNCHANGED <<facts, calls, proposal, unread>>

\* destination_role(): where a copy goes is read from the message, or asked.
Payload ==
    /\ reviewing = "payload"
    /\ IF "copy" \notin calls THEN reviewing' = "action" /\ UNCHANGED args
       ELSE IF facts.role = "none"
       THEN reviewing' = "where" /\ args' = [args EXCEPT !.destination = "none"]
       ELSE reviewing' = "action" /\ args' = [args EXCEPT !.destination = facts.role]
    /\ UNCHANGED <<facts, calls, proposal, unread, word>>

TurnNext == Propose \/ Relocate \/ Roles \/ Modifiers \/ PreservedReview \/ Payload

TurnSpec == TurnInit /\ [][TurnNext]_turnVars

-----------------------------------------------------------------------------

\* A turn that becomes an action says what the user said, as far as that can be
\* seen without believing a model: a subject gets lost only if it stood in the
\* message and its words remain in another argument or name the destination (or
\* the search said nothing else), and never lacks the way to match it; a
\* modifier is kept only if the message shows it or is quoted for it, and is
\* dropped only if a review denied it; no preserved argument that was proposed
\* gets lost, and none appears without evidence; and a copy goes where the user
\* said and never where the model did, not even in a question that is saved.
NothingLostOrInvented ==
    /\ reviewing = "action" =>
         /\ Subject(proposal) /\ args.text = "none" =>
              proposal.text # "invented" /\ (facts.overlap \/ facts.named \/ ~facts.siblings)
         /\ (args.text # "none") => args.match \in Choice
         /\ args.modifiers \subseteq word.requested \cup {m \in Modifier : Shown(m)}
         /\ proposal.modifiers \ args.modifiers \subseteq word.refused
         /\ proposal.kept \subseteq args.kept /\ args.kept \ proposal.kept \subseteq word.present
    /\ reviewing \in {"action", "where"} => args.destination # "model"

====================================================================================
