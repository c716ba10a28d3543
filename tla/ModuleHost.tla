------------------------------ MODULE ModuleHost ------------------------------
(***************************************************************************)
(* ModuleProcessManager and the worker process of one module: threads of   *)
(* the daemon start it, send requests down its stdin and read answers, one *)
(* line each and without a number, from its stdout; the main thread stops  *)
(* it.  A request that is given up leaves its reader thread behind.        *)
(***************************************************************************)
EXTENDS Integers, Sequences, FiniteSets

CONSTANTS
    Caller,      \* threads of the daemon that serve requests of the panel
    MaxStarts,   \* bound: processes ever started
    MaxRequests  \* bound: requests ever written

ASSUME HostAssumption == MaxStarts \in Nat /\ MaxRequests \in Nat

VARIABLES
    life,        \* the worker processes: "none", "starting", "ready" or "dead"
    running,     \* _running[module_id], 0 without an entry
    quarantined, \* the registry's state of the module
    doing,       \* what each thread does: [at, worker, request]
    locked,      \* request_lock: the workers whose lock is held
    sent,        \* the requests written so far: the worker each went to
    inbox,       \* stdin of each worker
    outbox,      \* stdout of each worker: the requests its lines answer
    reading,     \* the reader that holds the stream's own lock, 0 for none
    waiting,     \* the readers that wait for that lock
    got,         \* the request whose line each request was answered with, 0 for none
    stopper,     \* stop_module() by the main thread: [at, worker]
    crowded      \* history: requests sent while the reader of an older one waited

hostVars == <<life, running, quarantined, doing, locked, sent, inbox, outbox,
              reading, waiting, got, stopper, crowded>>

Worker == 1 .. MaxStarts
Request == 1 .. MaxRequests
AtRest == [at |-> "idle", worker |-> 0, request |-> 0]
Doing(place, w, r) == [at |-> place, worker |-> w, request |-> r]
Deed == [at : {"idle", "starting", "chosen", "asking"},
         worker : 0 .. MaxStarts, request : 0 .. MaxRequests]
Alive(w) == w # 0 /\ life[w] \in {"starting", "ready"}

HostTypeOK ==
    /\ life \in [Worker -> {"none", "starting", "ready", "dead"}]
    /\ running \in 0 .. MaxStarts /\ quarantined \in BOOLEAN
    /\ doing \in [Caller -> Deed]
    /\ locked \subseteq Worker
    /\ sent \in Seq(Worker) /\ Len(sent) <= MaxRequests
    /\ inbox \in [Worker -> Seq(Request)] /\ outbox \in [Worker -> Seq(Request)]
    /\ reading \in [Worker -> 0 .. MaxRequests] /\ waiting \in [Worker -> SUBSET Request]
    /\ got \in [Request -> 0 .. MaxRequests] /\ crowded \subseteq Request
    /\ stopper \in [at : {"no", "popped", "asked"}, worker : 0 .. MaxStarts]

HostInit ==
    /\ life = [w \in Worker |-> "none"] /\ running = 0 /\ quarantined = FALSE
    /\ doing = [c \in Caller |-> AtRest] /\ locked = {}
    /\ sent = <<>> /\ inbox = [w \in Worker |-> <<>>] /\ outbox = inbox
    /\ reading = [w \in Worker |-> 0] /\ waiting = [w \in Worker |-> {}]
    /\ got = [r \in Request |-> 0] /\ crowded = {}
    /\ stopper = [at |-> "no", worker |-> 0]

pipes == <<sent, inbox, outbox, reading, waiting, got, crowded>>

-----------------------------------------------------------------------------
(* start_module(): nothing keeps two threads from starting at once.          *)

StartModule(c, w) ==
    /\ doing[c] = AtRest
    /\ ~Alive(running) /\ ~quarantined
    /\ life[w] = "none" /\ \A v \in 1 .. w - 1 : life[v] # "none"
    /\ life' = [life EXCEPT ![w] = "starting"]
    /\ doing' = [doing EXCEPT ![c] = Doing("starting", w, 0)]
    /\ UNCHANGED <<running, quarantined, locked, pipes, stopper>>

\* The worker said "ready" in time; it may have died since.
StartReady(c) ==
    /\ doing[c].at = "starting"
    /\ \E now \in {"ready", "dead"} : life' = [life EXCEPT ![doing[c].worker] = now]
    /\ running' = doing[c].worker
    /\ doing' = [doing EXCEPT ![c] = AtRest]
    /\ UNCHANGED <<quarantined, locked, pipes, stopper>>

\* It failed, ended or was too slow: it is killed and the module quarantined.
StartFails(c) ==
    /\ doing[c].at = "starting"
    /\ life' = [life EXCEPT ![doing[c].worker] = "dead"]
    /\ quarantined' = TRUE
    /\ doing' = [doing EXCEPT ![c] = AtRest]
    /\ UNCHANGED <<running, locked, pipes, stopper>>

-----------------------------------------------------------------------------
(* invoke() and health().                                                    *)

\* _require_running(): the worker is remembered before its lock is taken.
RequireRunning(c) ==
    /\ doing[c] = AtRest
    /\ Alive(running)
    /\ doing' = [doing EXCEPT ![c] = Doing("chosen", running, 0)]
    /\ UNCHANGED <<life, running, quarantined, locked, pipes, stopper>>

\* A reader thread starts: it is blocked in readline(), or on who is.
ReaderStarts(w, r) ==
    IF reading[w] = 0 /\ waiting[w] = {}
    THEN reading' = [reading EXCEPT ![w] = r] /\ UNCHANGED waiting
    ELSE waiting' = [waiting EXCEPT ![w] = @ \cup {r}] /\ UNCHANGED reading

\* _request() with the lock held.
WriteRequest(c) ==
    LET w == doing[c].worker
        r == Len(sent) + 1
    IN  /\ doing[c].at = "chosen" /\ life[w] = "ready"
        /\ w \notin locked /\ locked' = locked \cup {w}
        /\ r \in Request
        /\ sent' = Append(sent, w)
        /\ inbox' = [inbox EXCEPT ![w] = Append(@, r)]
        /\ ReaderStarts(w, r)
        /\ crowded' = IF \E o \in waiting[w] : \A d \in Caller : doing[d].request # o
                      THEN crowded \cup {r} ELSE crowded
        /\ doing' = [doing EXCEPT ![c] = Doing("asking", w, r)]
        /\ UNCHANGED <<life, running, quarantined, outbox, got, stopper>>

\* The worker is gone by the time the lock is free.
WriteFails(c) ==
    LET w == doing[c].worker
    IN  /\ doing[c].at = "chosen" /\ life[w] = "dead" /\ w \notin locked
        /\ doing' = [doing EXCEPT ![c] = AtRest]
        /\ UNCHANGED <<life, running, quarantined, locked, pipes, stopper>>

\* worker.main() takes the next line, does the work and prints its result.
WorkerAnswers(w) ==
    /\ life[w] = "ready" /\ inbox[w] # <<>>
    /\ inbox' = [inbox EXCEPT ![w] = Tail(@)]
    /\ outbox' = [outbox EXCEPT ![w] = Append(@, Head(inbox[w]))]
    /\ UNCHANGED <<life, running, quarantined, doing, locked, sent, reading, waiting,
                   got, stopper, crowded>>

\* The line goes to the reader that is blocked in readline(), whoever asked; a
\* reader nobody waits for drops it.
LineRead(w) ==
    LET r == reading[w]
        asker == {c \in Caller : doing[c].at = "asking" /\ doing[c].request = r}
    IN  /\ r # 0 /\ outbox[w] # <<>>
        /\ reading' = [reading EXCEPT ![w] = 0]
        /\ outbox' = [outbox EXCEPT ![w] = Tail(@)]
        /\ IF asker = {} THEN UNCHANGED <<got, doing, locked>>
           ELSE /\ got' = [got EXCEPT ![r] = Head(outbox[w])]
                /\ doing' = [c \in Caller |-> IF c \in asker THEN AtRest ELSE doing[c]]
                /\ locked' = locked \ {w}
        /\ UNCHANGED <<life, running, quarantined, sent, inbox, waiting, stopper, crowded>>

\* Locks of the interpreter are not fair: any of the readers is the next one.
ReaderNext(w) ==
    /\ reading[w] = 0
    /\ \E r \in waiting[w] :
          /\ reading' = [reading EXCEPT ![w] = r]
          /\ waiting' = [waiting EXCEPT ![w] = @ \ {r}]
    /\ UNCHANGED <<life, running, quarantined, doing, locked, sent, inbox, outbox, got,
                   stopper, crowded>>

\* _read_response() gives up, because the time is over or the worker is gone.
GiveUpAnswer(c) ==
    /\ doing[c].at = "asking"
    /\ doing' = [doing EXCEPT ![c] = AtRest]
    /\ locked' = locked \ {doing[c].worker}
    /\ UNCHANGED <<life, running, quarantined, pipes, stopper>>

-----------------------------------------------------------------------------

\* stop_module(): the entry goes first, the lock is waited for after.
StopPops ==
    /\ stopper.at = "no" /\ running # 0
    /\ stopper' = [at |-> "popped", worker |-> running]
    /\ running' = 0
    /\ UNCHANGED <<life, quarantined, doing, locked, pipes>>

StopAsks ==
    /\ stopper.at = "popped" /\ stopper.worker \notin locked
    /\ locked' = locked \cup {stopper.worker}
    /\ stopper' = [stopper EXCEPT !.at = "asked"]
    /\ UNCHANGED <<life, running, quarantined, doing, pipes>>

\* It has ended or is killed; the streams are closed.
StopEnds ==
    /\ stopper.at = "asked"
    /\ life' = [life EXCEPT ![stopper.worker] = "dead"]
    /\ locked' = locked \ {stopper.worker}
    /\ stopper' = [at |-> "no", worker |-> 0]
    /\ UNCHANGED <<running, quarantined, doing, pipes>>

\* A worker dies; one that nobody holds any more sees the end of its stdin.
ProcessDies(w) ==
    /\ life[w] = "ready"
    /\ life' = [life EXCEPT ![w] = "dead"]
    /\ UNCHANGED <<running, quarantined, doing, locked, pipes, stopper>>

HostNext ==
    \/ \E c \in Caller : \E w \in Worker : StartModule(c, w)
    \/ \E c \in Caller : StartReady(c) \/ StartFails(c) \/ RequireRunning(c)
    \/ \E c \in Caller : WriteRequest(c) \/ WriteFails(c) \/ GiveUpAnswer(c)
    \/ \E w \in Worker : WorkerAnswers(w) \/ LineRead(w) \/ ReaderNext(w) \/ ProcessDies(w)
    \/ StopPops \/ StopAsks \/ StopEnds

HostSpec == HostInit /\ [][HostNext]_hostVars

-----------------------------------------------------------------------------

\* Lines carry no number, yet a request is answered with the line of another one
\* only if, when it was written, a reader of a request given up before was still
\* waiting for the stream: one slow request alone does no harm.
AnswersBelong == \A r \in Request : got[r] \in {0, r} \/ r \in crowded

===============================================================================
