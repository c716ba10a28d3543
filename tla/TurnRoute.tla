-------------------------------- MODULE TurnRoute --------------------------------
(***************************************************************************)
(* Who decides that a message asks for something, and for what.  The       *)
(* capability router looks for the words that the modules' examples begin  *)
(* with (and for what an embedding finds similar), the turn router has a   *)
(* small model split the message into talk and action, the language model  *)
(* proposes operations among those it is offered, and the workspace checks *)
(* what has come of it.  None of the models is trusted, and what one cut   *)
(* of the message negates must not be asked for in another.                *)
(*                                                                         *)
(* Two tests look for negations, each in its own way, and either may take  *)
(* for one what is none or miss one: the capability router looks for five  *)
(* words among the three before a cue, the turn router for certain words   *)
(* at the beginning of the message, however far from what they negate.     *)
(*                                                                         *)
(* A message is a sequence of phrases, each with the operation whose words *)
(* it uses, if any, and the phrase of the negation that is found for it: a *)
(* window of words may reach back into other phrases.  A text is a stretch *)
(* of phrases, whose first negation may have been cut off.  How similar a  *)
(* text is to an example is a free choice; what depends on it only can be  *)
(* wrong.                                                                  *)
(***************************************************************************)
EXTENDS Naturals

CONSTANT Phrases  \* phrases of a message

ASSUME PhrasesAssumption == Phrases \in Nat \ {0}

VARIABLES
    phrases,    \* the message: [op, negator], 0 where no negation is found
    guarded,    \* the turn router finds a negation at its beginning
    parted,     \* after each phrase: punctuation follows
    collection, \* there are active results
    answering,  \* the message answers the question where to copy to
    requested,  \* requested_operations() of the message
    required,   \* required_operations() of the message
    talk,       \* the fragment that is answered as talk
    fragment,   \* the text that the model and the compiler get
    offered,    \* the operations that the model may propose
    turn,       \* what it has proposed: [kind, kinds]
    saved,      \* a question where to copy to has been saved
    routed      \* how far the turn is

evidenceVars == <<phrases, guarded, parted, collection, answering, requested, required>>
routeVars == <<evidenceVars, talk, fragment, offered, turn, saved, routed>>

Kind == {"search", "inspect", "copy"}
OnSelection == {"inspect"}  \* reads about results, and writes nothing

Text == [from : 1 .. Phrases, to : 1 .. Phrases, cut : BOOLEAN]
Whole == [from |-> 1, to |-> Phrases, cut |-> FALSE]
NoText == [from |-> 1, to |-> 0, cut |-> FALSE]

Disjoint(a, b) == a.to < b.from \/ b.to < a.from

\* The negation that is found for a phrase is in it or before it.
Phrase(i) == [op : Kind, negator : 0 .. i] \cup [op : {"none"}, negator : {0}]

\* Where the workspace stops: a plan is compiled, the user is asked back, the
\* message is answered as talk, something is missing, or the run fails.
RouteEnds == {"compiled", "question", "talked", "missing", "broken"}

RouteTypeOK ==
    /\ phrases \in [1 .. Phrases -> Phrase(Phrases)] /\ \A i \in 1 .. Phrases : phrases[i] \in Phrase(i)
    /\ parted \in [1 .. Phrases - 1 -> BOOLEAN]
    /\ {guarded, collection, answering, saved} \subseteq BOOLEAN
    /\ {requested, required, offered} \subseteq SUBSET Kind
    /\ {talk, fragment} \subseteq Text \cup {NoText}
    /\ turn \in [kind : {"none", "conversation", "clarification", "action"}, kinds : SUBSET Kind]
    /\ routed \in {"received", "split", "route", "repair", "settle", "check"} \cup RouteEnds

RouteInit ==
    /\ phrases \in {f \in [1 .. Phrases -> Phrase(Phrases)] : \A i \in 1 .. Phrases : f[i] \in Phrase(i)}
    /\ parted \in [1 .. Phrases - 1 -> BOOLEAN]
    /\ guarded \in BOOLEAN /\ collection \in BOOLEAN /\ answering \in BOOLEAN
    /\ requested = {} /\ required = {} /\ offered = {}
    /\ talk = NoText /\ fragment = Whole
    /\ turn = [kind |-> "none", kinds |-> {}]
    /\ saved = FALSE /\ routed = "received"

-----------------------------------------------------------------------------
(* CapabilityCandidateRouter                                                 *)

\* _locally_negated(), in a text: the negation that is found is still there.
LocallyNegated(i, text) ==
    LET n == phrases[i].negator
    IN  n # 0 /\ text.from <= n /\ ~(text.cut /\ n = text.from)

\* requested_operations(): the operations whose words a text uses, unless a
\* negation is found for them in it.
AskedIn(text) ==
    {phrases[i].op : i \in {j \in text.from .. text.to : ~LocallyNegated(j, text)}} \ {"none"}

\* required_operations(): those of them whose examples are similar enough.
RequiredIn(text) == SUBSET AskedIn(text)

\* HybridCapabilityRouter: what an embedding finds is requested, never required.
RequestedIn(text) == {AskedIn(text) \cup similar : similar \in SUBSET Kind}

-----------------------------------------------------------------------------
(* WorkspaceRuntime._process(), and TurnRouter                               *)

\* _read_only_selection_request(): nothing but the details of results is asked.
SelectionRequest == required # {} /\ required \subseteq OnSelection
SelectionFollowup == SelectionRequest /\ collection

\* The evidence of the message, and what can be said on it alone.
Evidence ==
    /\ routed = "received"
    /\ requested' \in RequestedIn(Whole) /\ required' \in RequiredIn(Whole)
    /\ \/ routed' = "missing"  \* input that was not read, or no model
       \/ SelectionRequest' /\ ~collection /\ routed' = "question"
       \/ ~(SelectionRequest' /\ ~collection) /\ answering /\ routed' = "check"
       \/ /\ ~(SelectionRequest' /\ ~collection) /\ ~answering
          /\ routed' = IF requested' = {} THEN "talked" ELSE "split"
    /\ \/ ~answering /\ UNCHANGED turn
       \/ /\ answering
          /\ \E kinds \in SUBSET Kind : turn' = [kind |-> "action", kinds |-> kinds \cup {"copy"}]
    /\ UNCHANGED <<phrases, guarded, parted, collection, answering, talk, fragment, offered, saved>>

Class(kind, said, asked) == [kind |-> kind, talk |-> said, action |-> asked]

\* route(): a negation at the beginning leaves talk, unless something in the
\* message is grounded; then it leaves no whole message as an action.
Classified ==
    IF guarded /\ required = {} THEN {Class("conversation", Whole, NoText)}
    ELSE {Class("unclear", NoText, NoText), Class("conversation", Whole, NoText)}
         \cup (IF guarded THEN {} ELSE {Class("action", NoText, Whole)})
         \cup {Class("mixed", pair[1], pair[2]) :
                  pair \in {p \in Text \X Text : /\ p[1].from <= p[1].to /\ p[2].from <= p[2].to
                                                 /\ Disjoint(p[1], p[2])}}

\* recover_negated_action(): what follows a punctuation mark is the action, if it
\* grounds exactly what the message does and what comes before it nothing.
Recovered ==
    {Class("action", NoText, [from |-> i + 1, to |-> Phrases, cut |-> FALSE]) :
        i \in {j \in 1 .. Phrases - 1 :
                  guarded /\ parted[j] /\ required \in RequiredIn([from |-> j + 1, to |-> Phrases, cut |-> FALSE])}}

\* The classifications that the workspace goes on with; an unclear one only when
\* it is about the results, and then as if there had been none.
Settled ==
    LET answers == Classified \cup (IF required # {} THEN Recovered ELSE {})
    IN  {IF SelectionFollowup /\ c.kind \in {"unclear", "conversation"}
         THEN Class("none", NoText, Whole) ELSE c : c \in answers}

\* The two fragments may have been mixed up: the talk is what asks for something.
Swapped(c) == [c EXCEPT !.talk = c.action, !.action = c.talk]

\* Only what is grounded is offered to the model, or else what is requested.
Offer(candidates) ==
    IF required # {} THEN required ELSE IF requested # {} THEN requested ELSE candidates

\* The message is taken apart; what is talk in it is answered first.
Split ==
    /\ routed = "split"
    /\ \E c \in Settled :
         \/ c.kind \in {"unclear", "conversation"} /\ routed' \in {"talked", "broken"}
            /\ UNCHANGED <<talk, fragment, offered>>
         \/ \* What is cut out requires what the message did not: a negation is lost.
            /\ c.kind = "mixed" /\ \E some \in RequiredIn(c.action) : ~(some \subseteq required)
            /\ routed' = "question"
            /\ UNCHANGED <<talk, fragment, offered>>
         \/ /\ c.kind \in {"none", "action", "mixed"}
            /\ \E d \in {c, Class("none", NoText, Whole)}
                     \cup (IF c.kind = "mixed" /\ \E some \in RequestedIn(c.talk) : some # {}
                           THEN {Swapped(c)} ELSE {}) :
                 /\ fragment' = d.action
                 /\ talk' \in (IF d.kind = "mixed" THEN {d.talk, NoText} ELSE {NoText})
            /\ \E candidates \in SUBSET Kind : offered' = Offer(candidates)
            /\ routed' = "route"
    /\ UNCHANGED <<evidenceVars, turn, saved>>

\* The language model answers, asks back, or proposes what it was offered.
AskModel ==
    /\ routed = "route"
    /\ \/ routed' = "broken" /\ UNCHANGED turn
       \/ /\ turn' \in [kind : {"conversation"}, kinds : {{}}]
                  \cup [kind : {"clarification"}, kinds : SUBSET offered]
                  \cup [kind : {"action"}, kinds : (SUBSET offered) \ {{}}]
          /\ routed' = IF SelectionFollowup /\ turn'.kind = "conversation" THEN "question"
                       ELSE IF required = {} THEN "settle" ELSE "repair"
    /\ UNCHANGED <<evidenceVars, talk, fragment, offered, saved>>

\* _complete_required_operations(): the model is asked once for each operation
\* that is missing, and nothing changes unless it has proposed all of them.
Repair ==
    /\ routed = "repair"
    /\ LET missing == required \ turn.kinds
       IN  \/ routed' = "settle" /\ UNCHANGED turn
           \/ /\ missing # {} /\ turn.kinds \cup missing = required
              /\ \E kind \in {"action", "clarification"} :
                   /\ turn.kind = "clarification" => kind = "clarification"
                   /\ turn' = [kind |-> kind, kinds |-> required]
              /\ routed' = "settle"
           \/ missing # {} /\ routed' = "broken" /\ UNCHANGED turn
    /\ UNCHANGED <<evidenceVars, talk, fragment, offered, saved>>

\* The question where to copy to is saved with the operations it is about.
Settle ==
    /\ routed = "settle"
    /\ routed' = IF turn.kind = "action" THEN "check" ELSE "question"
    /\ saved' \in (IF turn.kind = "clarification" /\ "copy" \in turn.kinds THEN BOOLEAN ELSE {FALSE})
    /\ UNCHANGED <<evidenceVars, talk, fragment, offered, turn>>

\* _execute_intent(): the operations are compared with the evidence once more.
Check ==
    /\ routed = "check"
    /\ routed' = IF turn.kinds # {} /\ turn.kinds \subseteq requested /\ required \subseteq turn.kinds
                 THEN "compiled" ELSE "question"
    /\ UNCHANGED <<evidenceVars, talk, fragment, offered, turn, saved>>

RouteNext == Evidence \/ Split \/ AskModel \/ Repair \/ Settle \/ Check

RouteSpec == RouteInit /\ [][RouteNext]_routeVars

-----------------------------------------------------------------------------

\* Nothing is done that was not asked for, as far as the capability router can
\* tell.  If something is grounded in the message exactly that is compiled,
\* whatever the models made of it: words for which a negation is found in the
\* whole message are not among it in whatever piece of it they come back, and
\* what only looks similar adds nothing.  Without such evidence a message that
\* the turn router finds to begin with a negation stays talk, and only an
\* embedding can bring in what was not asked in words.  A saved question is
\* about what was grounded, and no words are answered as talk and carried out
\* too.  It is not said that what the user forbids is not done: the capability
\* router splits "don't" in two and looks three words back, and an operation
\* whose negation it misses is required and compiled, also behind a beginning
\* that the turn router has recognised (guarded).
OnlyWhatWasAsked ==
    /\ routed = "compiled" /\ ~answering =>
         /\ required # {} => turn.kinds = required /\ turn.kinds \subseteq AskedIn(Whole)
         /\ guarded => required # {}
    /\ routed = "compiled" => turn.kinds \subseteq requested /\ required \subseteq turn.kinds
    /\ saved => routed = "question" /\ (required # {} => turn.kinds \subseteq required)
    /\ talk # NoText => Disjoint(talk, fragment)

==================================================================================
