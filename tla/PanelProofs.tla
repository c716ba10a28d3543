------------------------------ MODULE PanelProofs ------------------------------
(***************************************************************************)
(* Proofs about the desktop panel, for any number of runs, scans, receipts *)
(* and lost requests: it follows what it has started to its end, and never *)
(* sits on a receipt.  Each half has an invariant of its own.              *)
(***************************************************************************)
EXTENDS Panel, TLAPS

(***************************************************************************)
(* The chat.                                                               *)
(***************************************************************************)

\* A run that was taken has a number.
SubmitNumbered == submit.at = "taken" => submit.run # 0

\* There is one poll at most, for the run that is followed; its halves are not
\* older than what the panel has seen to end.
PollsGood ==
    /\ \A p \in polls :
          /\ p.run = follow
          /\ p.stage = "ended" => stage[p.run] = "ended"
          /\ p.read => ended \subseteq p.messages \cup split
    /\ \A p, q \in polls : p = q

\* A message is sent, and the workspace loaded, while nothing is followed.
NothingBeside ==
    /\ submit # NoSubmit => follow = 0
    /\ load.at # "done" => follow = 0 /\ submit = NoSubmit /\ ended = {}

ChatGood ==
    ~overtaken =>
        /\ PollsGood
        /\ NothingBeside
        /\ \A r \in ended : stage[r] = "ended"

ChatInv == ChatTypeOK /\ SubmitNumbered /\ ChatGood /\ RunFollowed

(***************************************************************************)
(* The scans.                                                              *)
(***************************************************************************)

\* The timer's id is kept exactly as long as a job is followed.
PollSourceKept == pollSource <=> watched # 0

ScanInv == ScanTypeOK /\ PollSourceKept /\ ScanFollowed

(***************************************************************************)
(* The quarantine.                                                         *)
(***************************************************************************)

\* Only a panel without a receipt prepares one; what was clicked is for the
\* receipt it keeps, whose box then has no live buttons.
PanelGood ==
    /\ preparing.at # "none" => receipt = 0
    /\ preparing.at = "answered" => preparing.receipt # 0
    /\ deciding.at # "none" =>
          /\ deciding.receipt = receipt /\ receipt # 0
          /\ ~(box.for = "quarantine" /\ box.live)
    /\ box.for = "quarantine" /\ box.live => receipt # 0

PanelInv == PanelTypeOK /\ PanelGood /\ ReceiptHandled

-----------------------------------------------------------------------------
(* The quarantine: one step per action.                                      *)

LEMMA RestTyped == NoBox \in Box /\ NotPreparing \in Preparing /\ Undecided \in Deciding
  BY ReceiptAssumption DEF NoBox, NotPreparing, Undecided, Box, Preparing, Deciding

\* A box that is opened.
LEMMA BoxesTyped ==
  ASSUME NEW for \in {"quarantine", "restore"}, NEW r \in 0 .. MaxReceipts
  PROVE  [for |-> for, receipt |-> r, live |-> TRUE] \in Box
  BY ReceiptAssumption DEF Box

LEMMA PanelStarts == PanelInit => PanelInv
<1> SUFFICES ASSUME PanelInit
             PROVE  PanelInv
  OBVIOUS
<1>1. PanelTypeOK
  <2>1. /\ receipts \in [Receipt -> {"none", "awaiting", "quarantined", "closed"}]
        /\ receipt \in 0 .. MaxReceipts /\ restoring \in 0 .. MaxReceipts
    BY ReceiptAssumption DEF PanelInit
  <2>2. box \in Box /\ preparing \in Preparing /\ deciding \in Deciding /\ hidden \in BOOLEAN
    BY RestTyped DEF PanelInit
  <2> QED
    BY <2>1, <2>2 DEF PanelTypeOK
<1>2. PanelGood /\ ReceiptHandled
  BY DEF PanelInit, PanelGood, ReceiptHandled, NotPreparing, Undecided, NoBox
<1> QED
  BY <1>1, <1>2 DEF PanelInv

LEMMA PanelTypesKept ==
  ASSUME PanelTypeOK, [PanelNext]_panelVars
  PROVE  PanelTypeOK'
<1> USE ReceiptAssumption DEF PanelTypeOK
<1>1. CASE PrepareClicked
  BY <1>1 DEF PrepareClicked, Preparing
<1>2. CASE ReceiptGiven
  BY <1>2 DEF ReceiptGiven, Preparing, Receipt
<1>3. CASE ReceiptShown
  BY <1>3, BoxesTyped, RestTyped DEF ReceiptShown, Preparing
<1>4. CASE PrepareFailed
  BY <1>4, RestTyped DEF PrepareFailed
<1>5. ASSUME NEW what \in {"commit", "cancel"}, Decide(what)
      PROVE  PanelTypeOK'
  BY <1>5 DEF Decide, Box, Deciding
<1>6. CASE Decided
  BY <1>6 DEF Decided, Deciding
<1>7. CASE CancelSettled
  BY <1>7, RestTyped DEF CancelSettled
<1>8. CASE CommitSettled
  <2>1. deciding' \in Deciding
    BY <1>8, RestTyped DEF CommitSettled, Deciding
  <2> QED
    BY <1>8, <2>1, RestTyped DEF CommitSettled
<1>9. CASE RestoreClicked
  BY <1>9, BoxesTyped DEF RestoreClicked
<1>10. ASSUME NEW confirmed \in BOOLEAN, RestoreDecided(confirmed)
       PROVE  PanelTypeOK'
  <2>1. box' \in Box
    BY <1>10, RestTyped DEF RestoreDecided, Box
  <2> QED
    BY <1>10, <2>1 DEF RestoreDecided
<1>11. CASE RestoreSettled
  BY <1>11, RestTyped DEF RestoreSettled
<1>12. CASE UNCHANGED panelVars
  BY <1>12 DEF panelVars
<1> QED
  BY <1>1, <1>2, <1>3, <1>4, <1>5, <1>6, <1>7, <1>8, <1>9, <1>10, <1>11, <1>12 DEF PanelNext

LEMMA PanelKept == PanelInv /\ [PanelNext]_panelVars => PanelInv'
<1> SUFFICES ASSUME PanelInv, [PanelNext]_panelVars
             PROVE  PanelGood' /\ ReceiptHandled'
  BY PanelTypesKept DEF PanelInv
<1> USE DEF PanelInv, PanelTypeOK, Box, Deciding, PanelGood, ReceiptHandled, NotPreparing, Undecided, NoBox
<1>1. CASE PrepareClicked
  BY <1>1 DEF PrepareClicked, MayPrepare
<1>2. CASE ReceiptGiven
  <2>1. /\ receipt = 0 /\ preparing.at # "none"
        /\ preparing'.at = "answered" => preparing'.receipt # 0
    BY <1>2 DEF ReceiptGiven, Receipt
  <2> QED
    BY <1>2, <2>1 DEF ReceiptGiven
<1>3. CASE ReceiptShown
  BY <1>3 DEF ReceiptShown
<1>4. CASE PrepareFailed
  BY <1>4 DEF PrepareFailed
<1>5. ASSUME NEW what \in {"commit", "cancel"}, Decide(what)
      PROVE  PanelGood' /\ ReceiptHandled'
  BY <1>5 DEF Decide
<1>6. CASE Decided
  <2>1. deciding'.at # "none" /\ deciding'.receipt = deciding.receipt
    BY <1>6 DEF Decided
  <2> QED
    BY <1>6, <2>1 DEF Decided
<1>7. CASE CancelSettled
  BY <1>7 DEF CancelSettled
<1>8. CASE CommitSettled
  BY <1>8 DEF CommitSettled
<1>9. CASE RestoreClicked
  BY <1>9 DEF RestoreClicked
<1>10. ASSUME NEW confirmed \in BOOLEAN, RestoreDecided(confirmed)
       PROVE  PanelGood' /\ ReceiptHandled'
  BY <1>10 DEF RestoreDecided
<1>11. CASE RestoreSettled
  BY <1>11 DEF RestoreSettled
<1>12. CASE UNCHANGED panelVars
  BY <1>12 DEF panelVars
<1> QED
  BY <1>1, <1>2, <1>3, <1>4, <1>5, <1>6, <1>7, <1>8, <1>9, <1>10, <1>11, <1>12 DEF PanelNext

-----------------------------------------------------------------------------
(* The scans: what the callbacks have in common, then one step per action.   *)

LEMMA ScanRestTyped == NotAsked \in Call /\ NoPoll \in PollCall
  BY ScanAssumption DEF NotAsked, NoPoll, Call, PollCall

LEMMA ScanStarts == ScanInit => ScanInv
<1> SUFFICES ASSUME ScanInit
             PROVE  ScanInv
  OBVIOUS
<1>1. ScanTypeOK
  <2>1. /\ scans \in [Scan -> {"none", "open", "ending", "ended"}]
        /\ watched \in 0 .. MaxScans /\ timers \in Nat /\ owed \in [Scan -> Int]
        /\ odd \in 0 .. MaxOdd
    BY ScanAssumption DEF ScanInit
  <2>2. /\ scanning \in BOOLEAN /\ pollSource \in BOOLEAN /\ crossed \in BOOLEAN
        /\ starting \in Call /\ discovery \in Call /\ refresh \in Call /\ poll \in PollCall
    BY ScanRestTyped DEF ScanInit
  <2> QED
    BY <2>1, <2>2 DEF ScanTypeOK
<1>2. PollSourceKept /\ ScanFollowed
  BY ScanAssumption DEF ScanInit, PollSourceKept, ScanFollowed, Scan
<1> QED
  BY <1>1, <1>2 DEF ScanInv

\* The job a request is answered with is one of the worker's, or none.
LEMMA ActiveJobNumbered == ActiveJob \in 0 .. MaxScans
  BY ScanAssumption DEF ActiveJob, Scan

\* A job that comes to be followed.
LEMMA FollowTyped ==
  ASSUME NEW j \in Scan, ScanTypeOK, Follow(j)
  PROVE  /\ watched' \in 0 .. MaxScans /\ scanning' \in BOOLEAN /\ owed' \in [Scan -> Int]
         /\ pollSource' \in BOOLEAN /\ timers' \in Nat /\ poll' \in PollCall
<1>1. watched' \in 0 .. MaxScans /\ scanning' \in BOOLEAN
  BY ScanAssumption DEF Follow, Scan
<1>2. owed' \in [Scan -> Int]
  BY DEF Follow, ScanTypeOK
<1>3. pollSource' \in BOOLEAN
  BY DEF Follow, StartsPolling, ScanTypeOK
<1>4. timers' \in Nat
  BY DEF Follow, StartsPolling, ScanTypeOK
<1>5. [at |-> "sent", job |-> j, final |-> FALSE] \in PollCall
  BY ScanAssumption DEF PollCall, Scan
<1>6. poll' \in PollCall
  BY <1>5 DEF Follow, StartsPolling, ScanTypeOK
<1> QED
  BY <1>1, <1>2, <1>3, <1>4, <1>6

LEMMA ScanTypesKept ==
  ASSUME ScanTypeOK, [ScanNext]_scanVars
  PROVE  ScanTypeOK'
<1> USE ScanAssumption, ActiveJobNumbered, ScanRestTyped DEF ScanTypeOK, scanView, scanCalls
<1>1. ASSUME NEW j \in Scan, BeginsAlone(j) \/ ScanMoves(j)
      PROVE  ScanTypeOK'
  BY <1>1 DEF BeginsAlone, ScanMoves
<1>2. CASE RunScan
  BY <1>2 DEF RunScan, Call
<1>3. CASE StartTaken
  BY <1>3 DEF StartTaken, Call, Scan
<1>4. CASE ScanStarted
  <2>1. starting.job \in Scan
    BY <1>4 DEF ScanStarted, Call, Scan
  <2> QED
    BY <1>4, <2>1, FollowTyped DEF ScanStarted
<1>5. CASE ScanNotStarted
  <2>1. odd' \in 0 .. MaxOdd /\ starting' \in Call
    BY <1>5 DEF ScanNotStarted, Odd
  <2> QED
    BY <1>5, <2>1 DEF ScanNotStarted
<1>6. CASE Discover
  BY <1>6 DEF Discover, Call
<1>7. CASE DiscoverRead
  BY <1>7 DEF DiscoverRead, Found, Odd, Call
<1>8. CASE DiscoverAnswered
  <2>1. CASE discovery.job # 0 /\ watched = 0
    BY <1>8, <2>1, FollowTyped DEF DiscoverAnswered, Adopt, Call, Scan
  <2>2. CASE ~(discovery.job # 0 /\ watched = 0)
    BY <1>8, <2>2 DEF DiscoverAnswered, Adopt
  <2> QED
    BY <2>1, <2>2
<1>9. CASE DiscoverFails
  BY <1>9 DEF DiscoverFails, Odd
<1>10. CASE Refresh
  BY <1>10 DEF Refresh, Call
<1>11. CASE RefreshRead
  BY <1>11 DEF RefreshRead, Found, Odd, Call
<1>12. CASE RefreshAnswered
  <2>1. CASE poll.at # "refreshing" /\ refresh.job # 0 /\ watched = 0
    BY <1>12, <2>1, FollowTyped DEF RefreshAnswered, Adopt, Call, Scan
  <2>2. CASE poll.at = "refreshing" /\ refresh.job # 0 /\ watched = 0
    <3>1. /\ watched' \in 0 .. MaxScans /\ owed' \in [Scan -> Int] /\ timers' \in Nat
      BY <1>12, <2>2 DEF RefreshAnswered, Call
    <3> QED
      BY <1>12, <2>2, <3>1 DEF RefreshAnswered
  <2>3. CASE ~(refresh.job # 0 /\ watched = 0)
    BY <1>12, <2>3 DEF RefreshAnswered, Adopt
  <2> QED
    BY <2>1, <2>2, <2>3
<1>13. CASE RefreshFails
  BY <1>13 DEF RefreshFails, Odd
<1>14. CASE TimerFires
  <2>1. [at |-> "sent", job |-> watched, final |-> FALSE] \in PollCall
    BY DEF PollCall
  <2>2. poll' \in PollCall
    BY <1>14, <2>1 DEF TimerFires
  <2>3. timers' \in Nat
    BY <1>14 DEF TimerFires
  <2> QED
    BY <1>14, <2>2, <2>3 DEF TimerFires
<1>15. CASE PollRead
  BY <1>15 DEF PollRead, PollCall
<1>16. CASE PollTold
  <2>1. poll' \in PollCall /\ refresh' \in Call
    BY <1>16 DEF PollTold, PollCall, Call
  <2>2. owed' \in [Scan -> Int] /\ watched' \in 0 .. MaxScans
    BY <1>16 DEF PollTold
  <2> QED
    BY <1>16, <2>1, <2>2 DEF PollTold
<1>17. CASE ScanPollFails
  BY <1>17 DEF ScanPollFails, Odd
<1>18. CASE UNCHANGED scanVars
  BY <1>18 DEF scanVars
<1> QED
  BY <1>1, <1>2, <1>3, <1>4, <1>5, <1>6, <1>7, <1>8, <1>9, <1>10,
     <1>11, <1>12, <1>13, <1>14, <1>15, <1>16, <1>17, <1>18 DEF ScanNext

\* A job is followed by a panel that follows none.
LEMMA FollowFirst ==
  ASSUME NEW j \in Scan, ScanInv, watched = 0, Follow(j), UNCHANGED <<starting, crossed>>
  PROVE  PollSourceKept' /\ ScanFollowed'
  BY ScanAssumption
  DEF ScanInv, ScanTypeOK, PollSourceKept, ScanFollowed, Follow, StartsPolling, Scan

LEMMA ScanKept == ScanInv /\ [ScanNext]_scanVars => ScanInv'
<1> SUFFICES ASSUME ScanInv, [ScanNext]_scanVars
             PROVE  PollSourceKept' /\ ScanFollowed'
  BY ScanTypesKept DEF ScanInv
<1> USE ScanAssumption DEF ScanInv, ScanTypeOK, PollSourceKept, ScanFollowed, scanView, scanCalls
<1>1. ASSUME NEW j \in Scan, BeginsAlone(j) \/ ScanMoves(j)
      PROVE  PollSourceKept' /\ ScanFollowed'
  BY <1>1 DEF BeginsAlone, ScanMoves
<1>2. CASE RunScan
  BY <1>2 DEF RunScan, NotAsked
<1>3. CASE StartTaken
  BY <1>3 DEF StartTaken, NotAsked
<1>4. CASE ScanStarted
  <2>1. CASE watched = 0
    BY <1>4, <2>1 DEF ScanStarted, Follow, StartsPolling, Call, Scan
  <2>2. CASE watched # 0
    BY <1>4, <2>2 DEF ScanStarted, Follow, StartsPolling, Call, Scan, NotAsked
  <2> QED
    BY <2>1, <2>2
<1>5. CASE ScanNotStarted
  BY <1>5 DEF ScanNotStarted, NotAsked
<1>6. CASE Discover
  BY <1>6 DEF Discover
<1>7. CASE DiscoverRead
  BY <1>7 DEF DiscoverRead, Found, Odd
<1>8. CASE DiscoverAnswered
  <2>1. CASE discovery.job # 0 /\ watched = 0
    BY <1>8, <2>1, FollowFirst DEF DiscoverAnswered, Adopt, Call, Scan
  <2>2. CASE ~(discovery.job # 0 /\ watched = 0)
    BY <1>8, <2>2 DEF DiscoverAnswered, Adopt
  <2> QED
    BY <2>1, <2>2
<1>9. CASE DiscoverFails
  BY <1>9 DEF DiscoverFails, Odd
<1>10. CASE Refresh
  BY <1>10 DEF Refresh
<1>11. CASE RefreshRead
  BY <1>11 DEF RefreshRead, Found, Odd
<1>12. CASE RefreshAnswered
  <2>1. CASE poll.at # "refreshing" /\ refresh.job # 0 /\ watched = 0
    BY <1>12, <2>1, FollowFirst DEF RefreshAnswered, Adopt, Call, Scan
  <2>2. CASE poll.at = "refreshing" /\ refresh.job # 0 /\ watched = 0
    BY <1>12, <2>2 DEF RefreshAnswered, Call, Scan
  <2>3. CASE ~(refresh.job # 0 /\ watched = 0)
    BY <1>12, <2>3 DEF RefreshAnswered, Adopt
  <2> QED
    BY <2>1, <2>2, <2>3
<1>13. CASE RefreshFails
  BY <1>13 DEF RefreshFails, Odd
<1>14. CASE TimerFires
  BY <1>14 DEF TimerFires
<1>15. CASE PollRead
  BY <1>15 DEF PollRead
<1>16. CASE PollTold
  <2>1. CASE watched = poll.job /\ poll.final
    <3>1. ~crossed' => ~crossed /\ starting = NotAsked
      BY <1>16, <2>1 DEF PollTold
    <3>2. ~crossed' => \A j \in Scan : owed'[j] = 0
      BY <1>16, <2>1, <3>1 DEF PollTold
    <3> QED
      BY <1>16, <2>1, <3>1, <3>2 DEF PollTold, Scan
  <2>2. CASE ~(watched = poll.job /\ poll.final)
    BY <1>16, <2>2 DEF PollTold
  <2> QED
    BY <2>1, <2>2
<1>17. CASE ScanPollFails
  BY <1>17 DEF ScanPollFails, Odd
<1>18. CASE UNCHANGED scanVars
  BY <1>18 DEF scanVars
<1> QED
  BY <1>1, <1>2, <1>3, <1>4, <1>5, <1>6, <1>7, <1>8, <1>9, <1>10,
     <1>11, <1>12, <1>13, <1>14, <1>15, <1>16, <1>17, <1>18 DEF ScanNext

-----------------------------------------------------------------------------
(* The chat: types first, then what a poll may have seen.                    *)

\* The calls that are not under way, and a poll that is begun.
LEMMA ChatRestTyped == NoLoad \in LoadCall /\ LoadSent \in LoadCall /\ NoSubmit \in SubmitCall
<1>1. NoLoad \in LoadCall
  BY ChatAssumption DEF NoLoad, LoadCall
<1>2. LoadSent \in LoadCall
  BY <1>1 DEF LoadSent, LoadCall
<1>3. NoSubmit \in SubmitCall
  BY ChatAssumption DEF NoSubmit, SubmitCall
<1> QED
  BY <1>1, <1>2, <1>3

LEMMA PollTyped ==
  ASSUME NEW p \in Poll
  PROVE  p.run \in Run /\ p.run \in 0 .. MaxRuns /\ p.run # 0 /\ p.messages \subseteq Run
  BY ChatAssumption DEF Poll, Run

LEMMA ReadTyped ==
  ASSUME NEW p \in Poll
  PROVE  /\ WithMessages(p) \in Poll
         /\ WithMessages(p).run = p.run /\ WithMessages(p).stage = p.stage
         /\ WithMessages(p).messages = Worded
<1>1. Worded \in SUBSET Run
  BY DEF Worded
<1> QED
  BY <1>1 DEF WithMessages, Poll

LEMMA PolledTyped ==
  ASSUME NEW r \in 0 .. MaxRuns, NEW polling \in SUBSET Poll
  PROVE  Polled(r, polling) \in SUBSET Poll
<1>1. r # 0 => Asked(r) \in Poll
  BY ChatAssumption DEF Asked, Poll, Stage, Run
<1> QED
  BY <1>1 DEF Polled

LEMMA ChatStarts == ChatInit => ChatInv
<1> SUFFICES ASSUME ChatInit
             PROVE  ChatInv
  OBVIOUS
<1>1. ChatTypeOK
  <2>1. /\ stage \in [Run -> Stage] /\ follow \in 0 .. MaxRuns /\ card \in 0 .. MaxRuns
        /\ lost \in 0 .. MaxLost
    BY ChatAssumption DEF ChatInit, Stage
  <2>2. /\ busy \in BOOLEAN /\ timer \in BOOLEAN /\ overtaken \in BOOLEAN
        /\ load \in LoadCall /\ submit \in SubmitCall
        /\ shown \subseteq Run /\ mine \subseteq Run /\ ended \subseteq Run /\ split \subseteq Run
        /\ polls \subseteq Poll /\ answering \subseteq AnswerCall
    BY ChatRestTyped DEF ChatInit
  <2> QED
    BY <2>1, <2>2 DEF ChatTypeOK
<1>2. SubmitNumbered /\ ChatGood /\ RunFollowed
  BY DEF ChatInit, SubmitNumbered, ChatGood, PollsGood, NothingBeside, RunFollowed, NoSubmit
<1> QED
  BY <1>1, <1>2 DEF ChatInv

\* _startWorkspacePolling() begins a poll for the run it is given.
LEMMA StartTyped ==
  ASSUME NEW r \in 0 .. MaxRuns, ChatTypeOK, StartPolling(r, polls)
  PROVE  timer' \in BOOLEAN /\ polls' \subseteq Poll
  BY PolledTyped DEF StartPolling, ChatTypeOK

LEMMA ChatTypesKept ==
  ASSUME ChatTypeOK, SubmitNumbered, [ChatNext]_chatVars
  PROVE  ChatTypeOK' /\ SubmitNumbered'
<1> USE ChatAssumption, ChatRestTyped
    DEF ChatTypeOK, SubmitNumbered, server, panel, calls, history
<1>1. ASSUME NEW r \in Run, RunMoves(r)
      PROVE  ChatTypeOK' /\ SubmitNumbered'
  BY <1>1 DEF RunMoves, Stage
<1>2. CASE Tick
  BY <1>2, PolledTyped DEF Tick
<1>3. CASE RunRead
  <2>1. polls' \subseteq Poll
    BY <1>3 DEF RunRead, Poll
  <2> QED
    BY <1>3, <2>1 DEF RunRead
<1>4. CASE MessagesRead
  <2>1. polls' \subseteq Poll
    <3>1. PICK p \in polls : polls' = (polls \ {p}) \cup {WithMessages(p)}
      BY <1>4 DEF MessagesRead
    <3> QED
      BY <3>1, ReadTyped
  <2> QED
    BY <1>4, <2>1 DEF MessagesRead
<1>5. CASE PollAnswered
  <2>1. PICK p \in polls :
          /\ p.stage # "unread" /\ p.read
          /\ polls' = polls \ {p}
          /\ shown' = p.messages
          /\ card' = IF p.stage = "asking" THEN p.run ELSE 0
          /\ IF p.stage = "ended"
             THEN /\ follow' = 0 /\ timer' = FALSE /\ busy' = FALSE
                  /\ mine' = mine \ {p.run}
                  /\ ended' = ended \cup {p.run}
                  /\ split' = IF p.run \in p.messages THEN split ELSE split \cup {p.run}
             ELSE UNCHANGED <<follow, timer, busy, mine, ended, split>>
    BY <1>5 DEF PollAnswered
  <2>2. p.run \in Run /\ p.run \in 0 .. MaxRuns /\ p.messages \subseteq Run
    BY PollTyped
  <2>3. shown' \subseteq Run /\ polls' \subseteq Poll
    BY <2>1, <2>2
  <2>4. card' \in 0 .. MaxRuns
    BY <2>1, <2>2
  <2>5. /\ follow' \in 0 .. MaxRuns /\ timer' \in BOOLEAN /\ busy' \in BOOLEAN
        /\ mine' \subseteq Run /\ ended' \subseteq Run /\ split' \subseteq Run
    <3>1. CASE p.stage = "ended"
      <4>1. follow' = 0 /\ timer' = FALSE /\ busy' = FALSE
        BY <2>1, <3>1
      <4>2. mine' \subseteq Run /\ ended' \subseteq Run
        BY <2>1, <2>2, <3>1
      <4>3. split' \subseteq Run
        BY <2>1, <2>2, <3>1
      <4>4. timer' \in BOOLEAN /\ busy' \in BOOLEAN
        BY <4>1
      <4>5. follow' \in 0 .. MaxRuns
        BY <4>1
      <4> QED
        BY <4>2, <4>3, <4>4, <4>5
    <3>2. CASE p.stage # "ended"
      BY <2>1, <3>2
    <3> QED
      BY <3>1, <3>2
  <2> QED
    BY <1>5, <2>3, <2>4, <2>5 DEF PollAnswered
<1>6. CASE PollFails
  BY <1>6 DEF PollFails
<1>7. CASE LoadRead
  <2>1. load' \in LoadCall
    BY <1>7 DEF LoadRead, LoadCall, Worded, Active, Run
  <2> QED
    BY <1>7, <2>1 DEF LoadRead
<1>8. CASE LoadAnswered
  <2>1. load.run \in 0 .. MaxRuns /\ load.messages \subseteq Run
    BY DEF LoadCall
  <2>2. timer' \in BOOLEAN /\ polls' \subseteq Poll
    BY <1>8, <2>1, StartTyped DEF LoadAnswered
  <2> QED
    BY <1>8, <2>1, <2>2 DEF LoadAnswered
<1>9. CASE LoadFails
  BY <1>9 DEF LoadFails
<1>10. CASE SubmitEntry
  BY <1>10 DEF SubmitEntry, SubmitCall
<1>11. CASE SubmitTaken
  <2>1. stage' \in [Run -> Stage]
    BY <1>11 DEF SubmitTaken, Stage
  <2>2. submit' \in SubmitCall /\ submit'.run # 0
    BY <1>11 DEF SubmitTaken, SubmitCall, Run
  <2> QED
    BY <1>11, <2>1, <2>2 DEF SubmitTaken
<1>12. CASE SubmitAnswered
  <2>1. submit.run \in 0 .. MaxRuns /\ submit.run \in Run
    BY <1>12 DEF SubmitAnswered, SubmitCall, Run
  <2>2. timer' \in BOOLEAN /\ polls' \subseteq Poll
    BY <1>12, <2>1, StartTyped DEF SubmitAnswered
  <2> QED
    BY <1>12, <2>1, <2>2 DEF SubmitAnswered, NoSubmit
<1>13. CASE SubmitFails
  <2>1. lost' \in 0 .. MaxLost
    BY <1>13 DEF SubmitFails
  <2>2. NoSubmit.at # "taken"
    BY DEF NoSubmit
  <2> QED
    BY <1>13, <2>1, <2>2 DEF SubmitFails
<1>14. CASE ClickAnswer
  <2>1. answering' \subseteq AnswerCall
    BY <1>14 DEF ClickAnswer, AnswerCall, Run
  <2> QED
    BY <1>14, <2>1 DEF ClickAnswer
<1>15. CASE AnswerTaken
  <2>1. stage' \in [Run -> Stage]
    BY <1>15 DEF AnswerTaken, Stage
  <2>2. answering' \subseteq AnswerCall
    BY <1>15 DEF AnswerTaken, AnswerCall
  <2> QED
    BY <1>15, <2>1, <2>2 DEF AnswerTaken
<1>16. CASE AnswerBack
  <2>1. timer' \in BOOLEAN /\ polls' \subseteq Poll
    BY <1>16, StartTyped DEF AnswerBack
  <2> QED
    BY <1>16, <2>1 DEF AnswerBack
<1>17. CASE Reopen
  <2>1. lost' \in 0 .. MaxLost
    BY <1>17 DEF Reopen
  <2>2. NoSubmit.at # "taken"
    BY DEF NoSubmit
  <2>3. answering' \subseteq AnswerCall
    BY <1>17 DEF Reopen
  <2>4. /\ follow' \in 0 .. MaxRuns /\ card' \in 0 .. MaxRuns
        /\ shown' \subseteq Run /\ mine' \subseteq Run /\ ended' \subseteq Run
        /\ split' \subseteq Run /\ polls' \subseteq Poll
    BY <1>17 DEF Reopen
  <2>5. busy' \in BOOLEAN /\ timer' \in BOOLEAN /\ overtaken' \in BOOLEAN
    BY <1>17 DEF Reopen
  <2> QED
    BY <1>17, <2>1, <2>2, <2>3, <2>4, <2>5 DEF Reopen
<1>18. CASE UNCHANGED chatVars
  BY <1>18 DEF chatVars
<1> QED
  BY <1>1, <1>2, <1>3, <1>4, <1>5, <1>6, <1>7, <1>8, <1>9, <1>10,
     <1>11, <1>12, <1>13, <1>14, <1>15, <1>16, <1>17, <1>18 DEF ChatNext

\* A poll is begun, or not, for the run that is followed then.
LEMMA PolledGood ==
  ASSUME polls' \in {polls, Polled(follow', polls)},
         polls = {} \/ (PollsGood /\ follow' = follow),
         UNCHANGED <<stage, ended, split>>
  PROVE  PollsGood'
<1>1. CASE polls' = polls
  BY <1>1 DEF PollsGood
<1>2. CASE polls = {} /\ polls' = {Asked(follow')}
  BY <1>2 DEF PollsGood, Asked
<1> QED
  BY <1>1, <1>2 DEF Polled

\* Without a run that is followed there is no poll.
LEMMA NoPolls ==
  ASSUME PollsGood, polls \subseteq Poll, follow = 0
  PROVE  polls = {}
<1>1. \A p \in polls : p.run # 0
  BY PollTyped
<1> QED
  BY <1>1 DEF PollsGood

LEMMA ChatKept == ChatInv /\ [ChatNext]_chatVars => ChatInv'
<1> SUFFICES ASSUME ChatInv, [ChatNext]_chatVars
             PROVE  ChatGood' /\ RunFollowed'
  BY ChatTypesKept DEF ChatInv
<1>0. polls \subseteq Poll /\ mine \subseteq Run /\ 0 \notin Run
  BY DEF ChatInv, ChatTypeOK, Run
<1> USE <1>0
    DEF ChatInv, ChatGood, PollsGood, NothingBeside, RunFollowed, server, panel, calls, history
<1>1. ASSUME NEW r \in Run, RunMoves(r)
      PROVE  ChatGood' /\ RunFollowed'
  BY <1>1 DEF RunMoves
<1>2. CASE Tick
  <2>1. ~overtaken => PollsGood'
    BY <1>2, PolledGood DEF Tick
  <2> QED
    BY <1>2, <2>1 DEF Tick
<1>3. CASE RunRead
  BY <1>3 DEF RunRead, Poll
<1>4. CASE MessagesRead
  <2>1. ~overtaken => ended \subseteq Worded
    BY DEF Worded, ChatTypeOK
  <2>2. ~overtaken => PollsGood'
    <3> SUFFICES ASSUME ~overtaken
                 PROVE  PollsGood'
      OBVIOUS
    <3>1. PICK p \in polls : polls' = (polls \ {p}) \cup {WithMessages(p)}
      BY <1>4 DEF MessagesRead
    <3>2. polls' = {WithMessages(p)}
      BY <3>1
    <3> QED
      BY <1>4, <2>1, <3>2, ReadTyped DEF MessagesRead
  <2> QED
    BY <1>4, <2>2 DEF MessagesRead
<1>5. CASE PollAnswered
  <2>1. PICK p \in polls :
          /\ p.stage # "unread" /\ p.read
          /\ polls' = polls \ {p}
          /\ shown' = p.messages
          /\ card' = IF p.stage = "asking" THEN p.run ELSE 0
          /\ IF p.stage = "ended"
             THEN /\ follow' = 0 /\ timer' = FALSE /\ busy' = FALSE
                  /\ mine' = mine \ {p.run}
                  /\ ended' = ended \cup {p.run}
                  /\ split' = IF p.run \in p.messages THEN split ELSE split \cup {p.run}
             ELSE UNCHANGED <<follow, timer, busy, mine, ended, split>>
    BY <1>5 DEF PollAnswered
  <2>2. ~overtaken => polls' = {} /\ p.run = follow /\ ended \subseteq p.messages \cup split
    BY <2>1
  <2>3. CASE p.stage = "ended"
    BY <1>5, <2>1, <2>2, <2>3, PollTyped DEF PollAnswered
  <2>4. CASE p.stage # "ended"
    BY <1>5, <2>1, <2>2, <2>4 DEF PollAnswered
  <2> QED
    BY <2>3, <2>4
<1>6. CASE PollFails
  BY <1>6 DEF PollFails
<1>7. CASE LoadRead
  BY <1>7 DEF LoadRead
<1>8. CASE LoadAnswered
  <2>1. ~overtaken => polls = {} /\ mine = {} /\ ended = {} /\ submit = NoSubmit
    BY <1>8, NoPolls DEF LoadAnswered
  <2>2. polls' \in {polls, Polled(follow', polls)} /\ (follow' # 0 => timer')
    BY <1>8 DEF LoadAnswered, StartPolling
  <2>3. ~overtaken => PollsGood'
    BY <1>8, <2>1, <2>2, PolledGood DEF LoadAnswered, StartPolling
  <2>4. load'.at = "done"
    BY <1>8 DEF LoadAnswered, NoLoad
  <2> QED
    BY <1>8, <2>1, <2>2, <2>3, <2>4 DEF LoadAnswered
<1>9. CASE LoadFails
  BY <1>9 DEF LoadFails
<1>10. CASE SubmitEntry
  <2>1. ~overtaken' => ~overtaken /\ load.at = "done" /\ follow = 0
    BY <1>10 DEF SubmitEntry
  <2>2. submit' # NoSubmit
    BY <1>10 DEF SubmitEntry, NoSubmit
  <2>3. ~overtaken => PollsGood'
    BY <1>10 DEF SubmitEntry
  <2> QED
    BY <1>10, <2>1, <2>2, <2>3 DEF SubmitEntry
<1>11. CASE SubmitTaken
  <2>1. submit # NoSubmit /\ submit' # NoSubmit
    BY <1>11 DEF SubmitTaken, NoSubmit
  <2>2. ~overtaken => polls = {} /\ follow = 0 /\ load.at = "done"
    BY <2>1, NoPolls
  <2>3. \A r \in ended : stage[r] = "ended" => stage'[r] = "ended"
    BY <1>11 DEF SubmitTaken, ChatTypeOK
  <2> QED
    BY <1>11, <2>1, <2>2, <2>3 DEF SubmitTaken
<1>12. CASE SubmitAnswered
  <2>1. submit # NoSubmit /\ submit.run # 0
    BY <1>12 DEF SubmitAnswered, NoSubmit, SubmitNumbered
  <2>2. ~overtaken => polls = {} /\ mine = {} /\ follow = 0 /\ load.at = "done" /\ busy
    BY <2>1, NoPolls
  <2>3. polls' \in {polls, Polled(follow', polls)} /\ timer'
    BY <1>12 DEF SubmitAnswered, StartPolling
  <2>4. ~overtaken => PollsGood'
    BY <1>12, <2>2, <2>3, PolledGood DEF SubmitAnswered, StartPolling
  <2> QED
    BY <1>12, <2>1, <2>2, <2>3, <2>4 DEF SubmitAnswered
<1>13. CASE SubmitFails
  BY <1>13 DEF SubmitFails
<1>14. CASE ClickAnswer
  BY <1>14 DEF ClickAnswer
<1>15. CASE AnswerTaken
  BY <1>15 DEF AnswerTaken
<1>16. CASE AnswerBack
  BY <1>16 DEF AnswerBack, StartPolling, Polled, Asked
<1>17. CASE Reopen
  BY <1>17 DEF Reopen
<1>18. CASE UNCHANGED chatVars
  BY <1>18 DEF chatVars
<1> QED
  BY <1>1, <1>2, <1>3, <1>4, <1>5, <1>6, <1>7, <1>8, <1>9, <1>10,
     <1>11, <1>12, <1>13, <1>14, <1>15, <1>16, <1>17, <1>18 DEF ChatNext

-----------------------------------------------------------------------------
(* The panel                                                                 *)

PanelsInv == ChatInv /\ ScanInv /\ PanelInv

\* What holds of the panel's chat, its scans and its quarantine between any two
\* callbacks (SidebarView in extension.js), in whatever order they come.
THEOREM PanelsInvariant == PanelsSpec => []PanelsInv
<1>1. PanelsInit => PanelsInv
  BY ChatStarts, ScanStarts, PanelStarts DEF PanelsInit, PanelsInv
<1>2. PanelsInv /\ [PanelsNext]_panelsVars => PanelsInv'
  <2> SUFFICES ASSUME PanelsInv, [PanelsNext]_panelsVars
               PROVE  PanelsInv'
    OBVIOUS
  <2>1. [ChatNext]_chatVars /\ [ScanNext]_scanVars /\ [PanelNext]_panelVars
    BY DEF PanelsNext, panelsVars
  <2> QED
    BY <2>1, ChatKept, ScanKept, PanelKept DEF PanelsInv
<1> QED
  BY <1>1, <1>2, PTL DEF PanelsSpec

\* The panel's fields, its timers and the answers it waits for have their types.
THEOREM PanelsTypeCorrect == PanelsSpec => [](ChatTypeOK /\ ScanTypeOK /\ PanelTypeOK)
<1>1. PanelsInv => ChatTypeOK /\ ScanTypeOK /\ PanelTypeOK
  BY DEF PanelsInv, ChatInv, ScanInv, PanelInv
<1> QED
  BY <1>1, PanelsInvariant, PTL

\* A run that was sent and a scan that was started are followed to their end, the
\* entry and the buttons come back then and not before, and a receipt is never
\* kept without a box or a click for it, but for the exceptions that the
\* properties name.
THEOREM PanelFollowsToTheEnd == PanelsSpec => []PanelsFollow
<1>1. PanelsInv => PanelsFollow
  BY DEF PanelsInv, ChatInv, ScanInv, PanelInv, PanelsFollow
<1> QED
  BY <1>1, PanelsInvariant, PTL

===============================================================================
