------------------------------ MODULE RuntimeStartup ------------------------------
(***************************************************************************)
(* The life of the runtime's processes around the one socket that they may *)
(* serve: a process that starts looks whether the socket at the path is    *)
(* alive, removes it if not, makes its own there, and only then declares   *)
(* the tasks of an earlier life interrupted.  Nothing but these steps      *)
(* keeps two runtimes apart.                                               *)
(*                                                                         *)
(* A socket is named by the process that made it, and a process that is    *)
(* started again is another one.                                           *)
(***************************************************************************)
EXTENDS Naturals

CONSTANTS
    Instance,  \* the processes
    Nobody    \* no socket

ASSUME NobodyAssumption == Nobody \notin Instance

VARIABLES
    at,         \* how far each process is
    file,       \* the socket at the path
    found,      \* what each process's lstat() has seen there
    own,        \* its _socket_identity
    listening,  \* the sockets that accept connections
    working,    \* the processes with a task that the ledger says is running
    disturbed,  \* history: those whose task another process declared interrupted
    rivals      \* history: the processes that started or stopped beside another
                \* one that did

startupVars == <<at, file, found, own, listening, working, disturbed, rivals>>

\* From the first look at the path to the socket of one's own, and back.
Starting == {"check", "probe", "recheck", "unlink", "bind", "listen", "identify", "protect", "verify",
             "withdraw", "recover"}
Stopping == {"shut", "leave", "remove"}
Active == {"serve"} \cup Stopping

StartupTypeOK ==
    /\ at \in [Instance -> {"off", "ended"} \cup Starting \cup Active]
    /\ file \in Instance \cup {Nobody}
    /\ {found, own} \subseteq [Instance -> Instance \cup {Nobody}]
    /\ listening \subseteq Instance /\ working \subseteq Instance
    /\ disturbed \subseteq Instance /\ rivals \subseteq Instance

StartupInit ==
    /\ at = [p \in Instance |-> "off"]
    /\ file = Nobody
    /\ found = [p \in Instance |-> Nobody] /\ own = [p \in Instance |-> Nobody]
    /\ listening = {} /\ working = {} /\ disturbed = {} /\ rivals = {}

Go(p, step) == at' = [at EXCEPT ![p] = step]

\* The process enters its start or its stop; whoever is in theirs is its rival.
Beside(p) ==
    LET others == {q \in Instance \ {p} : at[q] \in Starting \cup Stopping}
    IN  rivals' = IF others = {} THEN rivals ELSE rivals \cup others \cup {p}

-----------------------------------------------------------------------------
(* create_unix_server()                                                      *)

\* The parts of the runtime are built and the modules' workers started.
Boot(p) ==
    /\ at[p] = "off"
    /\ Go(p, "check") /\ Beside(p)
    /\ UNCHANGED <<file, found, own, listening, working, disturbed>>

\* _remove_stale_socket(): is there a socket?
Check(p) ==
    /\ at[p] = "check"
    /\ found' = [found EXCEPT ![p] = file]
    /\ Go(p, IF file = Nobody THEN "bind" ELSE "probe")
    /\ UNCHANGED <<file, own, listening, working, disturbed, rivals>>

\* Mutant of SocketAlive: whatever is at the path is taken for stale.
NobodyAnswers == FALSE

\* Somebody accepts connections at the path.
SocketAlive == file \in listening

\* connect(): refused, or the path is empty by now: the socket is stale.
Probe(p) ==
    /\ at[p] = "probe"
    /\ Go(p, IF SocketAlive THEN "ended" ELSE "recheck")
    /\ UNCHANGED <<file, found, own, listening, working, disturbed, rivals>>

\* It must still be the socket that was seen, or the start fails.
Recheck(p) ==
    /\ at[p] = "recheck"
    /\ Go(p, IF file = found[p] THEN "unlink" ELSE "ended")
    /\ UNCHANGED <<file, found, own, listening, working, disturbed, rivals>>

\* unlink() takes what is at the path now.
Unlink(p) ==
    /\ at[p] = "unlink"
    /\ Go(p, IF file = Nobody THEN "ended" ELSE "bind")
    /\ file' = Nobody
    /\ UNCHANGED <<found, own, listening, working, disturbed, rivals>>

\* bind() makes the socket, unless something is at the path.
Bind(p) ==
    /\ at[p] = "bind"
    /\ IF file = Nobody THEN file' = p /\ Go(p, "listen")
       ELSE Go(p, "ended") /\ UNCHANGED file
    /\ UNCHANGED <<found, own, listening, working, disturbed, rivals>>

Listen(p) ==
    /\ at[p] = "listen"
    /\ listening' = listening \cup {p} /\ Go(p, "identify")
    /\ UNCHANGED <<file, found, own, working, disturbed, rivals>>

\* What lstat() finds at the path is taken for the process's own socket.
Identify(p) ==
    /\ at[p] = "identify"
    /\ own' = [own EXCEPT ![p] = file]
    /\ Go(p, IF file = Nobody THEN "withdraw" ELSE "protect")
    /\ UNCHANGED <<file, found, listening, working, disturbed, rivals>>

\* chmod(), which needs something at the path, and a second lstat().
Protect(p) ==
    /\ at[p] = "protect"
    /\ Go(p, IF file = Nobody THEN "withdraw" ELSE "verify")
    /\ UNCHANGED <<file, found, own, listening, working, disturbed, rivals>>

Verify(p) ==
    /\ at[p] = "verify"
    /\ Go(p, IF file = own[p] THEN "recover" ELSE "withdraw")
    /\ UNCHANGED <<file, found, own, listening, working, disturbed, rivals>>

\* The constructor has failed: the socket is closed and removed if it is there.
Withdraw(p) ==
    /\ at[p] = "withdraw"
    /\ listening' = listening \ {p}
    /\ file' = IF file # Nobody /\ file = own[p] THEN Nobody ELSE file
    /\ Go(p, "ended")
    /\ UNCHANGED <<found, own, working, disturbed, rivals>>

-----------------------------------------------------------------------------
(* main()                                                                    *)

\* recover_after_restart(): every task that runs belongs to an earlier life.
Recover(p) ==
    /\ at[p] = "recover"
    /\ disturbed' = disturbed \cup {q \in working \ {p} : at[q] \in Active}
    /\ working' = {}
    /\ Go(p, "serve")
    /\ UNCHANGED <<file, found, own, listening, rivals>>

\* serve_forever(): a request that came in begins a task, or a task ends.  A
\* runtime that nobody can reach goes on with what it has.
Work(p) ==
    /\ at[p] = "serve"
    /\ \/ file = p /\ p \notin working /\ working' = working \cup {p}
       \/ p \in working /\ working' = working \ {p}
    /\ UNCHANGED <<at, file, found, own, listening, disturbed, rivals>>

\* SIGTERM, then server_close().
Stop(p) ==
    /\ at[p] = "serve"
    /\ Go(p, "shut") /\ Beside(p)
    /\ UNCHANGED <<file, found, own, listening, working, disturbed>>

Shut(p) ==
    /\ at[p] = "shut"
    /\ listening' = listening \ {p} /\ Go(p, "leave")
    /\ UNCHANGED <<file, found, own, working, disturbed, rivals>>

LeaveSocket(p) ==
    /\ at[p] = "leave"
    /\ IF file # Nobody /\ file = own[p] THEN Go(p, "remove") /\ UNCHANGED working
       ELSE Go(p, "ended") /\ working' = working \ {p}
    /\ UNCHANGED <<file, found, own, listening, disturbed, rivals>>

\* unlink(), then the workspace and the workers are stopped.
Remove(p) ==
    /\ at[p] = "remove"
    /\ file' = Nobody /\ working' = working \ {p}
    /\ Go(p, "ended")
    /\ UNCHANGED <<found, own, listening, disturbed, rivals>>

\* The kernel closes the socket of a process that dies; its file and the rows
\* of its tasks stay.
Die(p) ==
    /\ at[p] \in Starting \cup Active
    /\ Go(p, "ended") /\ listening' = listening \ {p}
    /\ UNCHANGED <<file, found, own, working, disturbed, rivals>>

StartupNext ==
    \E p \in Instance :
        \/ Boot(p) \/ Check(p) \/ Probe(p) \/ Recheck(p) \/ Unlink(p)
        \/ Bind(p) \/ Listen(p) \/ Identify(p) \/ Protect(p) \/ Verify(p) \/ Withdraw(p)
        \/ Recover(p) \/ Work(p) \/ Stop(p) \/ Shut(p) \/ LeaveSocket(p) \/ Remove(p) \/ Die(p)

StartupSpec == StartupInit /\ [][StartupNext]_startupVars

-----------------------------------------------------------------------------

\* As long as no two processes start or stop at the same time, one runtime is
\* active, requests reach it, and no second instance, which loses, has declared
\* the tasks of the active one interrupted; what a dead one has left behind
\* keeps nobody from starting.
OneRuntime ==
    rivals = {} =>
        /\ \A p, q \in Instance : {at[p], at[q]} \subseteq Active => p = q
        /\ \A p \in Instance : at[p] = "serve" => file = p /\ p \in listening
        /\ disturbed = {}

==================================================================================
