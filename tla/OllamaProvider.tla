---------------------------- MODULE OllamaProvider ----------------------------
(***************************************************************************)
(* OllamaProviderInstaller: the panel polls status(), which also drives    *)
(* the work; one thread installs the user's own copy of Ollama, one starts *)
(* its server.  Operations come one at a time from the worker's main loop. *)
(***************************************************************************)
EXTENDS Integers, FiniteSets

CONSTANTS
    MaxServers,    \* bound: server processes ever started
    MaxDecisions,  \* bound: answers of the user
    MaxOutages     \* bound: foreign servers coming and going, and workers dying

ASSUME ProviderAssumption == {MaxServers, MaxDecisions, MaxOutages} \subseteq Nat

VARIABLES
    decision,      \* the row of provider_decision; a "later" whose time is over is "lapsed"
    binary,        \* "current" points to a release that was published
    state,         \* _state
    stopEvent,     \* _stop
    main,          \* the operation of the main loop and what it has seen
    installer,     \* how far _thread is, "none" when it is not alive
    starter,       \* how far _server_thread is
    starting,      \* _server_start_lock: the thread that holds it, or "nobody"
    server,        \* the server processes: "none", "silent", "answers", "dead"
    owned,         \* _owned_server, 0 for None
    foreign,       \* another server answers on the port
    declined,      \* history: the user has said no since the last yes
    late,          \* history: that was after the archive was complete
    decisions, outages  \* counters of the bounds

providerVars == <<decision, binary, state, stopEvent, main, installer, starter,
                  starting, server, owned, foreign, declined, late, decisions, outages>>

Server == 1 .. MaxServers
Up == foreign \/ \E i \in Server : server[i] = "answers"
Busy == {"downloading", "installing", "starting"}

ProviderTypeOK ==
    /\ decision \in {"unset", "install", "later", "lapsed", "never"}
    /\ state \in Busy \cup {"checking", "ready", "error"}
    /\ binary \in BOOLEAN /\ stopEvent \in BOOLEAN /\ foreign \in BOOLEAN
    /\ declined \in BOOLEAN /\ late \in BOOLEAN
    /\ main \in {"idle", "up", "down", "terminate", "exit"}
    /\ installer \in {"none", "fetch", "check", "unpack", "start", "wait"}
    /\ starter \in {"none", "start", "wait"}
    /\ starting \in {"nobody", "installer", "starter"}
    /\ server \in [Server -> {"none", "silent", "answers", "dead"}]
    /\ owned \in 0 .. MaxServers
    /\ decisions \in 0 .. MaxDecisions /\ outages \in 0 .. MaxOutages

ProviderInit ==
    /\ decision = "unset" /\ binary = FALSE
    /\ state = "checking" /\ stopEvent = FALSE /\ main = "idle"
    /\ installer = "none" /\ starter = "none" /\ starting = "nobody"
    /\ server = [i \in Server |-> "none"] /\ owned = 0 /\ foreign = FALSE
    /\ declined = FALSE /\ late = FALSE
    /\ decisions = 0 /\ outages = 0

-----------------------------------------------------------------------------
(* status() and respond()                                                    *)

\* status() begins with _server_version(), a request over the network.
AskServer == main' = IF Up THEN "up" ELSE "down"

PollStatus ==
    /\ main = "idle"
    /\ AskServer
    /\ UNCHANGED <<decision, binary, state, stopEvent, installer, starter, starting,
                   server, owned, foreign, declined, late, decisions, outages>>

\* respond(): the decision is stored, then status() goes on with it.
Respond(answer) ==
    /\ main = "idle"
    /\ decisions < MaxDecisions /\ decisions' = decisions + 1
    /\ decision' = answer
    /\ declined' = (answer # "install")
    /\ late' = (answer # "install" /\ installer \in {"unpack", "start", "wait"})
    /\ IF answer = "install"
       THEN state' = (IF state = "error" THEN "checking" ELSE state) /\ UNCHANGED stopEvent
       ELSE stopEvent' = TRUE /\ UNCHANGED state
    /\ AskServer
    /\ UNCHANGED <<binary, installer, starter, starting, server, owned, foreign, outages>>

\* 24 hours after "later".
Lapse ==
    /\ decision = "later" /\ decision' = "lapsed"
    /\ UNCHANGED <<binary, state, stopEvent, main, installer, starter, starting,
                   server, owned, foreign, declined, late, decisions, outages>>

StatusReady ==
    /\ main = "up"
    /\ state' = "ready"
    /\ main' = "idle"
    /\ UNCHANGED <<decision, binary, stopEvent, installer, starter, starting,
                   server, owned, foreign, declined, late, decisions, outages>>

\* _ensure_server()
EnsureServer ==
    IF starter # "none" THEN UNCHANGED <<stopEvent, state, starter>>
    ELSE stopEvent' = FALSE /\ state' = "starting" /\ starter' = "start"

StatusInstalled ==
    /\ main = "down" /\ binary
    /\ IF installer # "none" /\ state \in {"downloading", "installing"}
       THEN UNCHANGED <<stopEvent, state, starter>>
       ELSE EnsureServer
    /\ main' = "idle"
    /\ UNCHANGED <<decision, binary, installer, starting, server, owned, foreign,
                   declined, late, decisions, outages>>

\* _ensure_install(), when the user has agreed.
StatusMissing ==
    /\ main = "down" /\ ~binary
    /\ IF decision # "install" \/ installer # "none" \/ state = "error"
       THEN UNCHANGED <<stopEvent, state, installer>>
       ELSE stopEvent' = FALSE /\ state' = "downloading" /\ installer' = "fetch"
    /\ main' = "idle"
    /\ UNCHANGED <<decision, binary, starter, starting, server, owned, foreign,
                   declined, late, decisions, outages>>

-----------------------------------------------------------------------------
(* _install_worker()                                                         *)

InstallFails ==
    /\ installer \in {"fetch", "unpack"}
    /\ installer' = "none" /\ state' = "error"
    /\ UNCHANGED <<decision, binary, stopEvent, main, starter, starting, server, owned,
                   foreign, declined, late, decisions, outages>>

\* _download() wrote a block.
DownloadBlock ==
    /\ installer = "fetch" /\ ~stopEvent
    /\ state' = "downloading"
    /\ UNCHANGED <<decision, binary, stopEvent, main, installer, starter, starting, server,
                   owned, foreign, declined, late, decisions, outages>>

\* The archive is complete and its digest is right.
DownloadEnds ==
    /\ installer = "fetch" /\ ~stopEvent
    /\ installer' = "check"
    /\ UNCHANGED <<decision, binary, state, stopEvent, main, starter, starting, server,
                   owned, foreign, declined, late, decisions, outages>>

CheckStop ==
    /\ installer = "check"
    /\ IF stopEvent THEN installer' = "none" /\ state' = "error"
       ELSE installer' = "unpack" /\ state' = "installing"
    /\ UNCHANGED <<decision, binary, stopEvent, main, starter, starting, server, owned,
                   foreign, declined, late, decisions, outages>>

\* _extract() and _publish_installation(), whose last rename is atomic.
PublishRelease ==
    /\ installer = "unpack"
    /\ binary' = TRUE
    /\ installer' = "start"
    /\ UNCHANGED <<decision, state, stopEvent, main, starter, starting, server, owned,
                   foreign, declined, late, decisions, outages>>

-----------------------------------------------------------------------------
(* _start_managed_server(), by the installing thread or by one of its own.   *)

\* What each thread makes of the result.
Finished(thread, ok) ==
    /\ starting' = IF starting = thread THEN "nobody" ELSE starting
    /\ IF thread = "installer" THEN installer' = "none" /\ UNCHANGED starter
       ELSE starter' = "none" /\ UNCHANGED installer
    /\ state' = IF ok THEN "ready"
                ELSE IF thread = "installer" \/ ~stopEvent THEN "error" ELSE state

Phase(thread) == IF thread = "installer" THEN installer ELSE starter

\* A server that answers is taken as it is; a silent one is not looked for.
StartServer(thread) ==
    /\ Phase(thread) = "start" /\ starting = "nobody"
    /\ \/ Up /\ Finished(thread, TRUE) /\ UNCHANGED <<server, owned>>
       \/ ~Up /\ Finished(thread, FALSE) /\ UNCHANGED <<server, owned>>
       \/ \E i \in Server :
             /\ ~Up /\ server[i] = "none" /\ \A j \in 1 .. i - 1 : server[j] # "none"
             /\ server' = [server EXCEPT ![i] = "silent"]
             /\ owned' = i
             /\ starting' = thread
             /\ IF thread = "installer" THEN installer' = "wait" /\ UNCHANGED starter
                ELSE starter' = "wait" /\ UNCHANGED installer
             /\ UNCHANGED state
    /\ UNCHANGED <<decision, binary, stopEvent, main, foreign, declined, late, decisions, outages>>

\* It answers in time, or the wait ends: stopped, dead, or 40 looks in vain.
WaitServer(thread) ==
    /\ Phase(thread) = "wait"
    /\ \/ ~stopEvent /\ Up /\ Finished(thread, TRUE)
       \/ Finished(thread, FALSE)
    /\ UNCHANGED <<decision, binary, stopEvent, main, server, owned, foreign, declined, late,
                   decisions, outages>>

\* A server binds the port, falls silent or dies.
ServerMoves(i) ==
    /\ \/ server[i] = "silent" /\ ~Up /\ server' = [server EXCEPT ![i] = "answers"]
       \/ server[i] = "silent" /\ server' = [server EXCEPT ![i] = "dead"]
       \/ server[i] = "answers" /\ \E s \in {"silent", "dead"} : server' = [server EXCEPT ![i] = s]
    /\ UNCHANGED <<decision, binary, state, stopEvent, main, installer, starter, starting,
                   owned, foreign, declined, late, decisions, outages>>

ForeignMoves ==
    /\ outages < MaxOutages /\ outages' = outages + 1
    /\ foreign \/ ~Up
    /\ foreign' = ~foreign
    /\ UNCHANGED <<decision, binary, state, stopEvent, main, installer, starter, starting,
                   server, owned, declined, late, decisions>>

-----------------------------------------------------------------------------
(* worker_stop(): each join waits two seconds at most.                       *)

StopProvider ==
    /\ main = "idle" /\ outages < MaxOutages /\ outages' = outages + 1
    /\ stopEvent' = TRUE
    /\ main' = "terminate"
    /\ UNCHANGED <<decision, binary, state, installer, starter, starting, server, owned,
                   foreign, declined, late, decisions>>

TerminateServer ==
    /\ main = "terminate"
    /\ server' = [i \in Server |-> IF i = owned THEN "dead" ELSE server[i]]
    /\ owned' = 0
    /\ main' = "exit"
    /\ UNCHANGED <<decision, binary, state, stopEvent, installer, starter, starting, foreign,
                   declined, late, decisions, outages>>

\* The process ends, with its threads, and is started anew; a server that is
\* not terminated outlives it.
ProviderRestart ==
    /\ \/ main = "exit" /\ UNCHANGED outages
       \/ outages < MaxOutages /\ outages' = outages + 1
    /\ state' = "checking" /\ stopEvent' = FALSE /\ main' = "idle"
    /\ installer' = "none" /\ starter' = "none" /\ starting' = "nobody"
    /\ owned' = 0
    /\ UNCHANGED <<decision, binary, server, foreign, declined, late, decisions>>

Thread == {"installer", "starter"}

ProviderNext ==
    \/ PollStatus \/ Lapse \/ StatusReady \/ StatusInstalled \/ StatusMissing
    \/ \E answer \in {"install", "later", "never"} : Respond(answer)
    \/ InstallFails \/ DownloadBlock \/ DownloadEnds \/ CheckStop \/ PublishRelease
    \/ \E thread \in Thread : StartServer(thread) \/ WaitServer(thread)
    \/ \E i \in Server : ServerMoves(i)
    \/ ForeignMoves \/ StopProvider \/ TerminateServer \/ ProviderRestart

ProviderSpec == ProviderInit /\ [][ProviderNext]_providerVars

-----------------------------------------------------------------------------

\* A user who says no before the archive is complete gets nothing installed
\* until the next yes; and the panel is not told of progress that nobody makes:
\* with no thread at work, "downloading", "installing" or "starting" is said
\* only while a refusal has just stopped it.
ProviderSettled ==
    /\ installer \in {"unpack", "start", "wait"} => ~declined \/ late
    /\ installer = "none" /\ starter = "none" /\ state \in Busy => stopEvent

===============================================================================
