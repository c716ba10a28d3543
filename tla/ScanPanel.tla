------------------------------- MODULE ScanPanel -------------------------------
(***************************************************************************)
(* The scan half of the Security Center in the desktop panel (SidebarView). *)
(* A scan is a job of the security worker; the panel follows one job until *)
(* it ends, whether the user started it or the panel found it running: four *)
(* requests, each of which lets the others' answers in while it waits.      *)
(***************************************************************************)
EXTENDS Integers

CONSTANTS
    MaxScans,   \* bound: jobs ever started
    MaxOdd      \* bound: requests without an answer, and answers that say of a
                \* job that has ended that it is the active one

ASSUME ScanAssumption == {MaxScans, MaxOdd} \subseteq Nat

VARIABLES
    scans,     \* the worker's jobs: "none", "open", "ending" (a final state,
               \* but still the active job) or "ended"
    watched,   \* _securityJobId, 0 for null
    scanning,  \* _securityScanInFlight: the buttons are off
    pollSource, \* _securityJobPollSourceId # 0
    timers,    \* the timers of _startSecurityJobPolling() that are alive
    starting,  \* _runSecurityScan(): [at, job]
    discovery, \* _discoverSecurityJob(), the flag with it: [at, job]
    refresh,   \* _refreshSecurity(), the flag with it: [at, job]
    poll,      \* _pollSecurityJob(), the flag with it: [at, job, final]
    owed,      \* history: how often each job came to be followed, less how often
               \* its end was notified
    crossed,   \* history: another job was met while a start was on its way
    odd        \* counter of the bound

scanCalls == <<starting, discovery, refresh, poll>>
scanView == <<watched, scanning, pollSource, timers>>
scanVars == <<scans, scanView, scanCalls, owed, crossed, odd>>

Scan == 1 .. MaxScans
NotAsked == [at |-> "none", job |-> 0]
NoPoll == [at |-> "none", job |-> 0, final |-> FALSE]
Call == [at : {"none", "sent", "read"}, job : 0 .. MaxScans]
PollCall == [at : {"none", "sent", "read", "refreshing"}, job : 0 .. MaxScans, final : BOOLEAN]

ScanTypeOK ==
    /\ scans \in [Scan -> {"none", "open", "ending", "ended"}]
    /\ watched \in 0 .. MaxScans /\ timers \in Nat
    /\ scanning \in BOOLEAN /\ pollSource \in BOOLEAN /\ crossed \in BOOLEAN
    /\ starting \in Call /\ discovery \in Call /\ refresh \in Call
    /\ poll \in PollCall
    /\ owed \in [Scan -> Int]
    /\ odd \in 0 .. MaxOdd

ScanInit ==
    /\ scans = [j \in Scan |-> "none"]
    /\ watched = 0 /\ scanning = FALSE /\ pollSource = FALSE /\ timers = 0
    /\ starting = NotAsked /\ discovery = NotAsked /\ refresh = NotAsked /\ poll = NoPoll
    /\ owed = [j \in Scan |-> 0] /\ crossed = FALSE
    /\ odd = 0

-----------------------------------------------------------------------------
(* The security worker: see ScanJobs.                                        *)

Latest(j) == scans[j] # "none" /\ \A k \in Scan : k > j => scans[k] = "none"

\* The job that a request without an id is answered with, 0 for none.
ActiveJob ==
    IF \E j \in Scan : Latest(j) /\ scans[j] # "ended"
    THEN CHOOSE j \in Scan : Latest(j) ELSE 0

MayBegin(j) ==
    /\ scans[j] = "none" /\ \A k \in 1 .. j - 1 : scans[k] # "none"
    /\ \A k \in Scan : scans[k] # "open"

BeginsAlone(j) ==
    /\ MayBegin(j)
    /\ scans' = [scans EXCEPT ![j] = "open"]
    /\ UNCHANGED <<scanView, scanCalls, owed, crossed, odd>>

ScanMoves(j) ==
    /\ \/ scans[j] = "open" /\ scans' = [scans EXCEPT ![j] = "ending"]
       \/ scans[j] = "ending" /\ scans' = [scans EXCEPT ![j] = "ended"]
    /\ UNCHANGED <<scanView, scanCalls, owed, crossed, odd>>

-----------------------------------------------------------------------------

\* _startSecurityJobPolling(), followed by a first _pollSecurityJob().
StartsPolling(j) ==
    IF pollSource THEN UNCHANGED <<pollSource, timers, poll>>
    ELSE /\ pollSource' = TRUE /\ timers' = timers + 1
         /\ poll' = IF poll = NoPoll THEN [at |-> "sent", job |-> j, final |-> FALSE] ELSE poll

Follow(j) ==
    /\ watched' = j /\ scanning' = TRUE
    /\ owed' = IF watched = j THEN owed ELSE [owed EXCEPT ![j] = @ + 1]
    /\ StartsPolling(j)

Odd == odd < MaxOdd /\ odd' = odd + 1

Found == IF ActiveJob # 0 /\ scans[ActiveJob] = "ending" THEN Odd ELSE UNCHANGED odd

\* _runSecurityScan(); bound: one start is on its way at a time.
RunScan ==
    /\ starting = NotAsked
    /\ ~scanning /\ scanning' = TRUE
    /\ starting' = [at |-> "sent", job |-> 0]
    /\ UNCHANGED <<scans, watched, pollSource, timers, discovery, refresh, poll, owed, crossed,
                   odd>>

\* The worker starts the job, or has one that is open.
StartTaken ==
    /\ starting.at = "sent"
    /\ \/ \E j \in Scan : /\ MayBegin(j)
                          /\ scans' = [scans EXCEPT ![j] = "open"]
                          /\ starting' = [at |-> "read", job |-> j]
       \/ /\ \E k \in Scan : scans[k] = "open"
          /\ starting' = [at |-> "read", job |-> 0]
          /\ UNCHANGED scans
    /\ UNCHANGED <<scanView, discovery, refresh, poll, owed, crossed, odd>>

ScanStarted ==
    /\ starting.at = "read" /\ starting.job # 0
    /\ starting' = NotAsked
    /\ Follow(starting.job)
    /\ crossed' = (crossed \/ watched \notin {0, starting.job})
    /\ UNCHANGED <<scans, discovery, refresh, odd>>

\* It was refused, or its answer is lost: the buttons come back.
ScanNotStarted ==
    /\ \/ starting = [at |-> "read", job |-> 0] /\ UNCHANGED odd
       \/ starting # NotAsked /\ Odd
    /\ starting' = NotAsked
    /\ scanning' = FALSE
    /\ crossed' = (crossed \/ watched # 0)
    /\ UNCHANGED <<scans, watched, pollSource, timers, discovery, refresh, poll, owed>>

-----------------------------------------------------------------------------
(* _discoverSecurityJob(), every two seconds                                 *)

Discover ==
    /\ watched = 0 /\ discovery = NotAsked
    /\ discovery' = [at |-> "sent", job |-> 0]
    /\ UNCHANGED <<scans, scanView, starting, refresh, poll, owed, crossed, odd>>

DiscoverRead ==
    /\ discovery.at = "sent" /\ Found
    /\ discovery' = [at |-> "read", job |-> ActiveJob]
    /\ UNCHANGED <<scans, scanView, starting, refresh, poll, owed, crossed>>

\* Mutant of Adopt: what came while the request was on its way is not looked at.
AdoptAnyway(j) ==
    IF j # 0 THEN Follow(j) ELSE UNCHANGED <<scanView, poll, owed>>

\* A job that was found is followed if there is none yet.
Adopt(j) ==
    IF j # 0 /\ watched = 0 THEN Follow(j) ELSE UNCHANGED <<scanView, poll, owed>>

DiscoverAnswered ==
    /\ discovery.at = "read" /\ discovery' = NotAsked
    /\ Adopt(discovery.job)
    /\ UNCHANGED <<scans, starting, refresh, crossed, odd>>

DiscoverFails ==
    /\ discovery # NotAsked /\ discovery' = NotAsked
    /\ Odd
    /\ UNCHANGED <<scans, scanView, starting, refresh, poll, owed, crossed>>

-----------------------------------------------------------------------------
(* _refreshSecurity(): by a timer, by a button, and at the end of a scan, in *)
(* which case the poll that saw the end waits for it.                        *)

Refresh ==
    /\ refresh = NotAsked
    /\ refresh' = [at |-> "sent", job |-> 0]
    /\ UNCHANGED <<scans, scanView, starting, discovery, poll, owed, crossed, odd>>

RefreshRead ==
    /\ refresh.at = "sent" /\ Found
    /\ refresh' = [at |-> "read", job |-> ActiveJob]
    /\ UNCHANGED <<scans, scanView, starting, discovery, poll, owed, crossed>>

\* What the adoption of a job polls is nothing as long as the poll waits.
RefreshAnswered ==
    /\ refresh.at = "read" /\ refresh' = NotAsked
    /\ IF poll.at # "refreshing" THEN Adopt(refresh.job)
       ELSE /\ poll' = NoPoll
            /\ IF refresh.job # 0 /\ watched = 0
               THEN /\ watched' = refresh.job /\ scanning' = TRUE
                    /\ owed' = [owed EXCEPT ![refresh.job] = @ + 1]
                    /\ pollSource' = TRUE
                    /\ timers' = IF pollSource THEN timers ELSE timers + 1
               ELSE UNCHANGED <<scanView, owed>>
    /\ UNCHANGED <<scans, starting, discovery, crossed, odd>>

RefreshFails ==
    /\ refresh # NotAsked /\ refresh' = NotAsked
    /\ Odd
    /\ poll' = IF poll.at = "refreshing" THEN NoPoll ELSE poll
    /\ UNCHANGED <<scans, scanView, starting, discovery, owed, crossed>>

-----------------------------------------------------------------------------
(* _pollSecurityJob()                                                        *)

\* A timer's callback: it goes on as long as some job is followed.
TimerFires ==
    /\ timers > 0
    /\ IF watched = 0 THEN timers' = timers - 1 /\ UNCHANGED poll
       ELSE /\ poll' = IF poll = NoPoll THEN [at |-> "sent", job |-> watched, final |-> FALSE] ELSE poll
            /\ UNCHANGED timers
    /\ UNCHANGED <<scans, watched, scanning, pollSource, starting, discovery, refresh, owed,
                   crossed, odd>>

PollRead ==
    /\ poll.at = "sent"
    /\ poll' = [poll EXCEPT !.at = "read", !.final = scans[poll.job] # "open"]
    /\ UNCHANGED <<scans, scanView, starting, discovery, refresh, owed, crossed, odd>>

\* The answer is for nobody if another job is followed by now.  At the end of
\* the job the timer is forgotten, not removed.
PollTold ==
    /\ poll.at = "read"
    /\ IF watched = poll.job /\ poll.final
       THEN /\ owed' = [owed EXCEPT ![poll.job] = @ - 1]
            /\ watched' = 0 /\ scanning' = FALSE /\ pollSource' = FALSE
            /\ crossed' = (crossed \/ starting # NotAsked)
            /\ IF refresh = NotAsked
               THEN /\ refresh' = [at |-> "sent", job |-> 0]
                    /\ poll' = [poll EXCEPT !.at = "refreshing"]
               ELSE poll' = NoPoll /\ UNCHANGED refresh
       ELSE poll' = NoPoll /\ UNCHANGED <<owed, watched, scanning, pollSource, crossed, refresh>>
    /\ UNCHANGED <<scans, timers, starting, discovery, odd>>

ScanPollFails ==
    /\ poll.at \in {"sent", "read"} /\ poll' = NoPoll
    /\ Odd
    /\ UNCHANGED <<scans, scanView, starting, discovery, refresh, owed, crossed>>

ScanNext ==
    \/ \E j \in Scan : BeginsAlone(j) \/ ScanMoves(j)
    \/ RunScan \/ StartTaken \/ ScanStarted \/ ScanNotStarted
    \/ Discover \/ DiscoverRead \/ DiscoverAnswered \/ DiscoverFails
    \/ Refresh \/ RefreshRead \/ RefreshAnswered \/ RefreshFails
    \/ TimerFires \/ PollRead \/ PollTold \/ ScanPollFails

ScanSpec == ScanInit /\ [][ScanNext]_scanVars

-----------------------------------------------------------------------------

\* However the answers overtake each other: a job that is followed is polled,
\* each time a job is followed its end is told once, and not forgotten before,
\* and the buttons are off exactly as long as a scan is started or followed.
\* The exception is a start during which the panel finds another job: the end of
\* that job and a refusal of the start give the buttons back, and a success
\* replaces the job, whose end is then never told.
ScanFollowed ==
    /\ watched # 0 => timers > 0
    /\ ~crossed =>
         /\ \A j \in Scan : owed[j] = IF watched = j THEN 1 ELSE 0
         /\ scanning <=> starting # NotAsked \/ watched # 0

=============================================================================
