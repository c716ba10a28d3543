-------------------------------- MODULE IntentPlan --------------------------------
(***************************************************************************)
(* From the payload of a model that nobody trusts to a plan and to what    *)
(* the executor does with it.  Every operation of the payload is           *)
(* normalised, grounded in the words of the message and checked, the       *)
(* symbolic references are replaced by the context of the moment, and what *)
(* is left without a question becomes a plan; the executor then checks the *)
(* plan again by rules of its own and runs it, while other tasks change    *)
(* the context.                                                            *)
(*                                                                         *)
(* Words are abstracted to what grounds them: a suffix is the one that the *)
(* message states or another one, a name or a quotation stands in the      *)
(* message or does not.  An operation's id may also turn up as the value   *)
(* of an argument (its alias).                                             *)
(***************************************************************************)
EXTENDS Integers, Sequences

CONSTANTS
    Id,            \* the ids that operations may have
    Other,         \* results and places that other tasks leave in the context
    Nothing,       \* no results, no place, no alias
    Message,       \* what a message may state: [namesFile, cue, quoted]
    MaxOperations, \* operations of a payload
    MaxElsewhere   \* changes of the context by other tasks

\* An id is a name without dots, so no symbol of the context is one; and what
\* stands here for no reference, or an unknown one, is none.
ASSUME IdAssumption ==
    /\ {"none", "context.active_results", "unknown"} \cap Id = {}
    /\ Nothing \notin Id \cup Other
ASSUME MessageAssumption == Message \subseteq [namesFile : BOOLEAN, cue : BOOLEAN, quoted : BOOLEAN]
ASSUME PayloadAssumption == MaxOperations \in Nat /\ MaxElsewhere \in Nat

VARIABLES
    message,     \* what the user's text states
    confidence,  \* the model's confidence in its payload, as far as it is grounded
    context,     \* the TaskContextStore: [results, place]
    compiled,    \* the context that the payload was compiled with
    operations,  \* the operations that were accepted
    progress,       \* how far the turn is
    steps,        \* the plan's steps
    run,         \* what the executor's run takes for the context
    made,        \* the operations that have run
    prepared,    \* what the write, if any, was prepared with
    elsewhere    \* number of changes by other tasks

payloadVars == <<message, confidence, operations>>
intentVars == <<payloadVars, context, compiled, progress, steps, run, made, prepared, elsewhere>>

Suffix == {"stated", "other"}
Selects == {"inspect", "copy", "trash"}  \* the kinds that work on results
Places == {"create", "copy"}             \* the kinds that have a destination
Writes == {"create", "copy", "trash"}    \* the kinds that need an approval

Argument == [text : {"none", "blank", "topic", "filename", "format"},
             match : {"none", "semantic", "exact_phrase"},
             extensions : SUBSET Suffix, named : BOOLEAN, bySize : BOOLEAN]
NoSearch == [text |-> "none", match |-> "none", extensions |-> {}, named |-> FALSE, bySize |-> FALSE]

\* A search refers to nothing, and nothing else has its arguments.  What is
\* stated is named, or quoted as evidence, as the message has it; what is not is
\* thrown away, whatever else it refers to.  Only a directory's name can be an id.
Reference == {"none", "context.active_results", "unknown"} \cup Id
Place == {"none", "desktop", "context.last_destination"}
Proposal ==
    [kind : {"search"}, search : Argument, from : {"none"}, place : {"none"}, stated : {TRUE},
     alias : {Nothing}, deps : SUBSET Id]
    \cup [kind : Selects \ Places, search : {NoSearch}, from : Reference, place : Place,
          stated : {TRUE}, alias : {Nothing}, deps : SUBSET Id]
    \cup [kind : Places, search : {NoSearch}, from : Reference, place : Place,
          stated : {TRUE}, alias : Id \cup {Nothing}, deps : SUBSET Id]
    \cup [kind : Selects \cup Places, search : {NoSearch}, from : Reference, place : Place,
          stated : {FALSE}, alias : {Nothing}, deps : {{}}]

\* The values of a context: the results of an operation of this turn, or what
\* another task has left.
Context == [results : Id \cup Other \cup {Nothing}, place : Other \cup {Nothing}]

Stages == {"reading", "resolving", "planning", "starting", "running"}
Ends == {"rejected", "question", "refused", "failed", "awaiting", "completed"}

IntentTypeOK ==
    /\ message \in Message
    /\ confidence \in {"none", "low", "high"}
    /\ {context, compiled, run} \subseteq Context
    /\ operations \in Seq([id : Id, op : Proposal, selection : Id \cup Other \cup {Nothing}])
    /\ Len(operations) <= MaxOperations
    /\ progress \in Stages \cup Ends
    /\ steps \in Seq([id : Id, deps : SUBSET Id]) /\ Len(steps) <= MaxOperations
    /\ made \subseteq Id
    /\ prepared \in [selection : Id \cup Other \cup {Nothing}, place : {"none", "desktop"} \cup Other]
    /\ elsewhere \in 0 .. MaxElsewhere

NothingPrepared == [selection |-> Nothing, place |-> "none"]

IntentInit ==
    /\ message \in Message
    /\ confidence = "none"
    /\ \E known \in Other \cup {Nothing} : context = [results |-> known, place |-> known]
    /\ compiled = context /\ run = context
    /\ operations = <<>> /\ progress = "reading" /\ steps = <<>>
    /\ made = {} /\ prepared = NothingPrepared /\ elsewhere = 0

-----------------------------------------------------------------------------
(* OperationDefinition and IntentValidator                                   *)

\* normalize_arguments(): an empty text goes, and what only made sense with it.
Normalized(a) == IF a.text = "blank" THEN [a EXCEPT !.text = "none", !.match = "none"] ELSE a

\* _ground_explicit_filename(): the name of a file is no phrase to look for in one.
FilenameGrounded(a) ==
    IF message.namesFile /\ ~message.cue /\ a.text = "filename"
    THEN [a EXCEPT !.text = "none", !.match = "none", !.named = TRUE, !.extensions = {"stated"}]
    ELSE a

\* _ground_explicit_extensions(): only the suffixes that the message states.
ExtensionsGrounded(a) == [a EXCEPT !.extensions = @ \cap {"stated"}]

\* _reject_ambiguous_role_overlap(): a suffix is also a word of the text.
Ambiguous(a) == a.text \in {"filename", "format"} /\ "stated" \in a.extensions /\ ~message.cue

\* _ground_explicit_enums(): literal only if the message asks for it or quotes it.
EnumsGrounded(a) ==
    IF a.match = "exact_phrase" /\ ~message.cue /\ ~(message.quoted /\ a.text # "none")
    THEN [a EXCEPT !.match = "semantic"] ELSE a

\* The mode is derived, whatever the model said.
Mode(a) ==
    IF a.text = "none" THEN "metadata"
    ELSE IF a.named \/ a.extensions # {} THEN "hybrid" ELSE "content"

\* validate_arguments(), for a search: text and the way to match it come
\* together, and the order by size needs a search of the metadata.
SearchValid(a) == (a.text = "none") = (a.match = "none") /\ (a.bySize => Mode(a) = "metadata")

Grounded(a) == EnumsGrounded(ExtensionsGrounded(FilenameGrounded(Normalized(a))))

\* What is kept of the arguments: whether there is a text, and not which one.
Kept(a) == [Grounded(a) EXCEPT !.text = IF @ = "none" THEN "none" ELSE "topic"]

SearchAccepted(a) ==
    ~Ambiguous(ExtensionsGrounded(FilenameGrounded(Normalized(a)))) /\ SearchValid(Grounded(a))

\* validate_arguments() and _validate_special_semantics() for the other kinds: the
\* required arguments are there, and a name stands in the message.
ArgumentsAccepted(p) ==
    /\ p.kind = "search" => SearchAccepted(p.search)
    /\ (p.kind \in Selects) = (p.from # "none")
    /\ (p.kind \in Places) = (p.place # "none")
    /\ p.stated

\* _validate_graph(): everything refers to an earlier operation, or the results
\* to the trusted context.
GraphAccepted(p, seen) ==
    p.deps \subseteq seen /\ p.from \in {"none", "context.active_results"} \cup seen

Seen(ops) == {ops[i].id : i \in DOMAIN ops}

Accepted(id, p) ==
    /\ id \notin Seen(operations)
    /\ ArgumentsAccepted(p) /\ GraphAccepted(p, Seen(operations))

\* parse() takes the next operation of the payload, or throws the payload away.
Parse ==
    /\ progress = "reading" /\ Len(operations) < MaxOperations
    /\ \E id \in Id, p \in Proposal :
         IF Accepted(id, p)
         THEN /\ operations' = Append(operations, [id |-> id, selection |-> Nothing,
                                                   op |-> [p EXCEPT !.search = Kept(@)]])
              /\ UNCHANGED progress
         ELSE progress' = "rejected" /\ UNCHANGED operations
    /\ UNCHANGED <<message, confidence, context, compiled, steps, run, made, prepared, elsewhere>>

\* The payload is empty, or its last operation has been read.
Parsed ==
    /\ progress = "reading"
    /\ progress' = IF operations = <<>> THEN "rejected" ELSE "resolving"
    /\ confidence' \in {"low", "high"}
    /\ UNCHANGED <<message, operations, context, compiled, steps, run, made, prepared, elsewhere>>

-----------------------------------------------------------------------------
(* ContextResolver, ClarificationPolicy and IntentPlanner                    *)

Missing ==
    \E i \in DOMAIN operations :
        \/ operations[i].op.from = "context.active_results" /\ compiled.results = Nothing
        \/ operations[i].op.place = "context.last_destination" /\ compiled.place = Nothing

\* A search without anything to search for; the largest files are something.
Vague(p) ==
    p.kind = "search" /\ p.search.text = "none" /\ p.search.extensions = {} /\ ~p.search.named
    /\ ~(p.search.bySize /\ Mode(p.search) = "metadata")

\* question()
Unclear ==
    \/ confidence = "low" /\ \E i \in DOMAIN operations : operations[i].op.kind \in Writes
    \/ Missing
    \/ \E i \in DOMAIN operations : Vague(operations[i].op)

\* resolve() puts the trusted values in the place of the symbols.
Resolve ==
    /\ progress = "resolving"
    /\ operations' = [i \in DOMAIN operations |->
           [operations[i] EXCEPT !.selection =
               IF operations[i].op.from = "context.active_results" THEN compiled.results
               ELSE IF operations[i].op.from \in Id THEN operations[i].op.from ELSE Nothing]]
    /\ progress' = IF Unclear THEN "question" ELSE "planning"
    /\ UNCHANGED <<message, confidence, context, compiled, steps, run, made, prepared, elsewhere>>

\* Mutant of References: the results that an operation takes do not count.
DeclaredOnly(o) == o.op.deps \cup ({o.op.alias} \cap Seen(operations))

\* What an operation refers to: every argument whose value is an operation's id.
References(o) == o.op.deps \cup ({o.op.from, o.op.alias} \cap Seen(operations))

\* plan(): one write, and nothing after it, is all that one consent can cover.
MakePlan ==
    /\ progress = "planning"
    /\ IF \E i \in 1 .. Len(operations) - 1 : operations[i].op.kind \in Writes
       THEN progress' = "question" /\ UNCHANGED steps
       ELSE /\ steps' = [i \in DOMAIN operations |->
                           [id |-> operations[i].id, deps |-> References(operations[i])]]
            /\ progress' = "starting"
    /\ UNCHANGED <<payloadVars, context, compiled, run, made, prepared, elsewhere>>

-----------------------------------------------------------------------------
(* ExecutionOrchestrator                                                     *)

Earlier(i) == {steps[j].id : j \in 1 .. i - 1}

\* _validate() of the executor.
PlanValid ==
    \A i \in DOMAIN steps :
        /\ steps[i].deps \subseteq Earlier(i)
        /\ operations[i].op.kind \in Writes => i = Len(steps)
        /\ operations[i].op.from \in Earlier(i) => operations[i].op.from \in steps[i].deps

\* execute() looks at the context once, when it starts.
StartPlan ==
    /\ progress = "starting"
    /\ progress' = IF PlanValid THEN "running" ELSE "refused"
    /\ run' = context
    /\ UNCHANGED <<payloadVars, context, compiled, steps, made, prepared, elsewhere>>

\* The step that is next: those before it have run.
Due(i) == progress = "running" /\ i \in DOMAIN steps /\ made = Earlier(i)

\* The end of a step that is not the last, and of one that is.
After(i) == IF i = Len(steps) THEN "completed" ELSE "running"

\* _execute_search(): the arguments are checked once more.
SearchRuns(a) ==
    /\ (a.text = "none") = (a.match = "none")
    /\ a.bySize => Mode(a) = "metadata"
    /\ a.text # "none" \/ a.named \/ a.extensions # {} \/ a.bySize

\* What was found becomes the active collection.
RunSearch(i) ==
    /\ Due(i) /\ operations[i].op.kind = "search"
    /\ IF SearchRuns(operations[i].op.search)
       THEN /\ made' = made \cup {steps[i].id}
            /\ run' = [run EXCEPT !.results = steps[i].id]
            /\ context' = [context EXCEPT !.results = steps[i].id]
            /\ progress' = After(i)
       ELSE progress' = "failed" /\ UNCHANGED <<made, run, context>>
    /\ UNCHANGED <<payloadVars, compiled, steps, prepared, elsewhere>>

\* resolve_selection(): results of this plan, or the collection that is active.
Trusted(i) ==
    LET selection == operations[i].selection
    IN  \/ \E j \in 1 .. i - 1 : steps[j].id = selection /\ operations[j].op.kind = "search"
        \/ selection = run.results /\ selection # Nothing

Inspect(i) ==
    /\ Due(i) /\ operations[i].op.kind = "inspect"
    /\ IF Trusted(i) THEN made' = made \cup {steps[i].id} /\ progress' = After(i)
       ELSE progress' = "failed" /\ UNCHANGED made
    /\ UNCHANGED <<payloadVars, context, compiled, steps, run, prepared, elsewhere>>

\* The place that a resolved role stands for: a role of the user, or the place
\* of the last copy when the payload was compiled.
PlaceOf(p) == IF p.place = "context.last_destination" THEN compiled.place ELSE p.place

\* The destination must be a role, or still be the place of the last copy: a
\* copy looks now, the other operations when the plan was started.
PlaceTrusted(p) ==
    p.place = "context.last_destination" =>
        PlaceOf(p) = (IF p.kind = "copy" THEN context.place ELSE run.place)

\* _prepare_copy_approval() and the preparation of the file operations, which may
\* fail for reasons of their own; then the user is asked.
Prepare(i) ==
    /\ Due(i) /\ operations[i].op.kind \in Writes
    /\ LET p == operations[i].op
       IN  \/ /\ p.kind \in Selects => Trusted(i)
              /\ PlaceTrusted(p)
              /\ prepared' = [selection |-> IF p.kind \in Selects THEN operations[i].selection ELSE Nothing,
                              place |-> PlaceOf(p)]
              /\ progress' = "awaiting"
           \/ progress' = "failed" /\ UNCHANGED prepared
    /\ UNCHANGED <<payloadVars, context, compiled, steps, run, made, elsewhere>>

\* Another task's search, or its copy, changes the context.  Before the start of
\* the plan nobody looks at it.
Interfere ==
    /\ elsewhere < MaxElsewhere /\ progress \in {"starting", "running"}
    /\ elsewhere' = elsewhere + 1
    /\ \E key \in {"results", "place"}, value \in Other :
         context' = [context EXCEPT ![key] = value]
    /\ UNCHANGED <<payloadVars, compiled, progress, steps, run, made, prepared>>

IntentNext ==
    \/ Parse \/ Parsed \/ Resolve \/ MakePlan \/ StartPlan
    \/ \E i \in 1 .. MaxOperations : RunSearch(i) \/ Inspect(i) \/ Prepare(i)
    \/ Interfere

IntentSpec == IntentInit /\ [][IntentNext]_intentVars

-----------------------------------------------------------------------------

\* An operation's id that is also the value of an argument of an operation that
\* is not after it.
Misnamed == \E i \in DOMAIN steps : steps[i].deps \ Earlier(i) # {}

\* The results that an operation was meant for.
Meant(o) == IF o.op.from = "context.active_results" THEN compiled.results ELSE o.op.from

\* A plan keeps its word.  The two sets of rules agree: what the compiler calls
\* ready the executor does not refuse, unless an argument happens to be the id
\* of the operation itself or of a later one, and a search that was called
\* ready is run.  And what the user is asked to approve is about the results
\* and the place that the payload meant when it was compiled, or about what
\* this plan has just found, even if another task has changed the context
\* since; it is the only write of the plan, comes after everything that it
\* depends on, and was not a guess.
PlanKeepsItsWord ==
    /\ progress = "refused" => Misnamed
    /\ progress = "failed" =>
         \E i \in DOMAIN steps : made = Earlier(i) /\ operations[i].op.kind # "search"
    /\ progress = "awaiting" =>
         LET o == operations[Len(operations)]
         IN  /\ confidence = "high"
             /\ o.op.kind \in Selects => prepared.selection = Meant(o) /\ Meant(o) # Nothing
             /\ o.op.kind \in Places => prepared.place = PlaceOf(o.op)
             /\ o.op.deps \subseteq made /\ made = Earlier(Len(steps))
             /\ \A i \in 1 .. Len(operations) - 1 : operations[i].op.kind \notin Writes

================================================================================
