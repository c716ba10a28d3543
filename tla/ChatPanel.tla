------------------------------ MODULE ChatPanel ------------------------------
(***************************************************************************)
(* The central tab of the desktop panel.  Its code runs in one thread, but *)
(* every await lets other callbacks in between: loading the workspace when *)
(* the panel opens, sending a message, polling the run it became, and      *)
(* answering an approval.  Each request has a connection of its own, so    *)
(* answers may overtake each other.                                        *)
(***************************************************************************)
EXTENDS Integers, FiniteSets

CONSTANTS
    MaxRuns,    \* bound: messages ever sent
    MaxAnswers, \* bound: answers to approvals on their way
    MaxLost     \* bound: requests without an answer, and reopened panels

ASSUME ChatAssumption == {MaxRuns, MaxAnswers, MaxLost} \subseteq Nat

VARIABLES
    stage,     \* of the workspace's runs, as far as the panel tells them apart
    follow,    \* _workspaceRunId, 0 for null
    busy,      \* _busy: the entry and the send button are off
    timer,     \* _workspacePollSourceId
    shown,     \* the runs whose final message is on the screen
    card,      \* the run whose approval card has live buttons, 0 for none
    load,      \* _loadWorkspace(): [at, run, asking, messages]
    submit,    \* _submitEntry(): [at, run]
    polls,     \* requests of _pollWorkspace() that are not answered
    answering, \* answers to approvals on their way: [run, at]
    mine,      \* history: runs sent from this panel that it has not seen end
    ended,     \* history: runs that this panel has seen end
    overtaken, \* history: a message was sent before the workspace was loaded
    split,      \* history: runs that ended between the two halves of a poll
    lost       \* counter of the bound

server == <<stage>>
panel == <<follow, busy, timer, shown, card>>
calls == <<load, submit, polls, answering>>
chatVars == <<stage, follow, busy, timer, shown, card, load, submit, polls, answering,
              mine, ended, overtaken, split, lost>>

Run == 1 .. MaxRuns
Stage == {"none", "working", "asking", "worded", "ended"}
\* The two requests of a poll: the stage of the run, and the messages.
Poll == [run : Run, stage : Stage \cup {"unread"}, read : BOOLEAN, messages : SUBSET Run]
LoadCall == [at : {"sent", "read", "done"}, run : 0 .. MaxRuns, asking : BOOLEAN, messages : SUBSET Run]
SubmitCall == [at : {"none", "sent", "taken"}, run : 0 .. MaxRuns]
AnswerCall == [run : Run, at : {"sent", "taken", "refused"}]
NoLoad == [at |-> "done", run |-> 0, asking |-> FALSE, messages |-> {}]
LoadSent == [NoLoad EXCEPT !.at = "sent"]
NoSubmit == [at |-> "none", run |-> 0]

ChatTypeOK ==
    /\ stage \in [Run -> Stage]
    /\ follow \in 0 .. MaxRuns /\ card \in 0 .. MaxRuns
    /\ busy \in BOOLEAN /\ timer \in BOOLEAN /\ overtaken \in BOOLEAN
    /\ shown \subseteq Run /\ mine \subseteq Run /\ ended \subseteq Run /\ split \subseteq Run
    /\ load \in LoadCall /\ submit \in SubmitCall
    /\ polls \subseteq Poll /\ answering \subseteq AnswerCall
    /\ lost \in 0 .. MaxLost

ChatInit ==
    /\ stage = [r \in Run |-> "none"]
    /\ follow = 0 /\ busy = FALSE /\ timer = FALSE /\ shown = {} /\ card = 0
    /\ load = LoadSent /\ submit = NoSubmit /\ polls = {} /\ answering = {}
    /\ mine = {} /\ ended = {} /\ overtaken = FALSE /\ split = {}
    /\ lost = 0

history == <<mine, ended, overtaken, split>>

-----------------------------------------------------------------------------
(* The workspace: it words the answer before it ends the run.                *)

Worded == {r \in Run : stage[r] \in {"worded", "ended"}}
Active == {r \in Run : stage[r] \in {"working", "asking", "worded"}}

RunMoves(r) ==
    /\ \E to \in Stage : /\ <<stage[r], to>> \in {<<"working", "asking">>, <<"working", "worded">>,
                                                   <<"worded", "ended">>, <<"asking", "worded">>}
                         /\ stage' = [stage EXCEPT ![r] = to]
    /\ UNCHANGED <<panel, calls, history, lost>>

-----------------------------------------------------------------------------
(* _pollWorkspace()                                                          *)

Asked(r) == [run |-> r, stage |-> "unread", read |-> FALSE, messages |-> {}]

Polled(r, polling) == IF r # 0 /\ polling = {} THEN {Asked(r)} ELSE polling

\* _startWorkspacePolling(), with r followed.
StartPolling(r, polling) ==
    IF timer THEN UNCHANGED timer /\ polls' = polling
    ELSE timer' = TRUE /\ polls' = Polled(r, polling)

\* The timer's callback, every 700 ms.
Tick ==
    /\ timer
    /\ IF follow = 0 THEN timer' = FALSE /\ UNCHANGED polls
       ELSE polls' = Polled(follow, polls) /\ UNCHANGED timer
    /\ UNCHANGED <<server, follow, busy, shown, card, load, submit, answering, history, lost>>

\* The daemon answers the two halves in any order.
RunRead ==
    /\ \E p \in polls :
          /\ p.stage = "unread"
          /\ polls' = (polls \ {p}) \cup {[p EXCEPT !.stage = stage[p.run]]}
    /\ UNCHANGED <<server, panel, load, submit, answering, history, lost>>

WithMessages(p) == [p EXCEPT !.read = TRUE, !.messages = Worded]

MessagesRead ==
    /\ \E p \in polls :
          /\ ~p.read
          /\ polls' = (polls \ {p}) \cup {WithMessages(p)}
    /\ UNCHANGED <<server, panel, load, submit, answering, history, lost>>

\* Both are there: the messages are rendered anew, with the card.
PollAnswered ==
    /\ \E p \in polls :
          /\ p.stage # "unread" /\ p.read
          /\ polls' = polls \ {p}
          /\ shown' = p.messages
          /\ card' = IF p.stage = "asking" THEN p.run ELSE 0
          /\ IF p.stage = "ended"
             THEN /\ follow' = 0 /\ timer' = FALSE /\ busy' = FALSE
                  /\ mine' = mine \ {p.run}
                  /\ ended' = ended \cup {p.run}
                  /\ split' = IF p.run \in p.messages THEN split ELSE split \cup {p.run}
             ELSE UNCHANGED <<follow, timer, busy, mine, ended, split>>
    /\ UNCHANGED <<server, load, submit, answering, overtaken, lost>>

\* The error is shown once; the timer goes on.
PollFails ==
    /\ lost < MaxLost /\ lost' = lost + 1
    /\ \E p \in polls : polls' = polls \ {p}
    /\ UNCHANGED <<server, panel, load, submit, answering, history>>

-----------------------------------------------------------------------------
(* _loadWorkspace()                                                          *)

\* Any of the runs that have not ended is the one that is followed.  The two
\* requests of a load, for the messages and for the runs, are read in one step
\* here: a run may end between them in the code as between the halves of a poll.
LoadRead ==
    /\ load.at = "sent"
    /\ \E r \in (IF Active = {} THEN {0} ELSE Active) :
          load' = [at |-> "read", run |-> r, messages |-> Worded,
                   asking |-> r # 0 /\ stage[r] = "asking"]
    /\ UNCHANGED <<server, panel, submit, polls, answering, history, lost>>

LoadAnswered ==
    /\ load.at = "read" /\ load' = NoLoad
    /\ follow' = load.run /\ busy' = (load.run # 0)
    /\ shown' = load.messages
    /\ card' = IF load.asking THEN load.run ELSE 0
    /\ IF load.run # 0 THEN StartPolling(load.run, polls) ELSE UNCHANGED <<timer, polls>>
    /\ UNCHANGED <<server, submit, answering, history, lost>>

\* It is not tried again before the panel is opened the next time.
LoadFails ==
    /\ load.at # "done" /\ load' = NoLoad
    /\ lost < MaxLost /\ lost' = lost + 1
    /\ UNCHANGED <<server, panel, submit, polls, answering, history>>

-----------------------------------------------------------------------------
(* _submitEntry()                                                            *)

SubmitEntry ==
    /\ ~busy /\ submit = NoSubmit
    /\ \E r \in Run : stage[r] = "none"
    /\ busy' = TRUE
    /\ submit' = [at |-> "sent", run |-> 0]
    /\ overtaken' = (overtaken \/ load.at # "done")
    /\ UNCHANGED <<server, follow, timer, shown, card, load, polls, answering, mine, ended, split,
                   lost>>

SubmitTaken ==
    /\ submit.at = "sent"
    /\ \E r \in Run :
          /\ stage[r] = "none" /\ \A q \in 1 .. r - 1 : stage[q] # "none"
          /\ stage' = [stage EXCEPT ![r] = "working"]
          /\ submit' = [at |-> "taken", run |-> r]
    /\ UNCHANGED <<panel, load, polls, answering, history, lost>>

SubmitAnswered ==
    /\ submit.at = "taken" /\ submit' = NoSubmit
    /\ follow' = submit.run
    /\ StartPolling(submit.run, polls)
    /\ mine' = mine \cup {submit.run}
    /\ UNCHANGED <<server, busy, shown, card, load, answering, ended, overtaken, split, lost>>

\* It was refused, or its answer is lost: the run then goes on without the panel.
SubmitFails ==
    /\ submit # NoSubmit /\ submit' = NoSubmit
    /\ lost < MaxLost /\ lost' = lost + 1
    /\ busy' = FALSE
    /\ UNCHANGED <<server, follow, timer, shown, card, load, polls, answering, history>>

-----------------------------------------------------------------------------
(* _workspaceApprovalCard()                                                  *)

\* Both buttons are switched off; the next rendering makes a new card.
ClickAnswer ==
    /\ Cardinality(answering) < MaxAnswers
    /\ card # 0 /\ card' = 0
    /\ answering' = answering \cup {[run |-> card, at |-> "sent"]}
    /\ UNCHANGED <<server, follow, busy, timer, shown, load, submit, polls, history, lost>>

\* The workspace takes the answer, or knows of nothing to answer.
AnswerTaken ==
    /\ \E a \in answering :
          /\ a.at = "sent"
          /\ stage' = IF stage[a.run] = "asking" THEN [stage EXCEPT ![a.run] = "working"] ELSE stage
          /\ answering' = (answering \ {a}) \cup
                {[a EXCEPT !.at = IF stage[a.run] = "asking" THEN "taken" ELSE "refused"]}
    /\ UNCHANGED <<panel, load, submit, polls, history, lost>>

AnswerBack ==
    /\ \E a \in answering :
          /\ a.at # "sent" /\ answering' = answering \ {a}
          /\ IF a.at = "taken" THEN StartPolling(follow, polls) ELSE UNCHANGED <<timer, polls>>
    /\ UNCHANGED <<server, follow, busy, shown, card, load, submit, history, lost>>

\* disable() and enable(): nothing comes back any more, and a new panel loads.
Reopen ==
    /\ lost < MaxLost /\ lost' = lost + 1
    /\ submit.at # "sent"
    /\ follow' = 0 /\ busy' = FALSE /\ timer' = FALSE /\ shown' = {} /\ card' = 0
    /\ load' = LoadSent /\ submit' = NoSubmit /\ polls' = {}
    /\ answering' = {a \in answering : a.at = "sent"}
    /\ mine' = {} /\ ended' = {} /\ overtaken' = FALSE /\ split' = {}
    /\ UNCHANGED server

ChatNext ==
    \/ \E r \in Run : RunMoves(r)
    \/ Tick \/ RunRead \/ MessagesRead \/ PollAnswered \/ PollFails
    \/ LoadRead \/ LoadAnswered \/ LoadFails
    \/ SubmitEntry \/ SubmitTaken \/ SubmitAnswered \/ SubmitFails
    \/ ClickAnswer \/ AnswerTaken \/ AnswerBack \/ Reopen

ChatSpec == ChatInit /\ [][ChatNext]_chatVars

-----------------------------------------------------------------------------

\* Unless the user was faster than the panel's first load: a run that the panel
\* has started is the one it follows until it has seen it end, what it follows
\* is polled, the entry is off exactly as long as something is sent or
\* followed, and the final message of a run seen to end is on the screen, except
\* when the run ended between the two halves of its last poll.
RunFollowed ==
    ~overtaken =>
        /\ mine \subseteq {follow}
        /\ follow # 0 => timer
        /\ busy <=> submit # NoSubmit \/ follow # 0
        /\ ended \subseteq shown \cup split

=============================================================================
