------------------------------ MODULE ServicesProofs ------------------------------
(***************************************************************************)
(* What the parts around the core promise, for any number of processes,    *)
(* threads, requests and models.                                           *)
(*                                                                         *)
(* The start of the runtime: as long as no two processes start or stop at  *)
(* the same time, there is one active runtime, requests reach it, and no   *)
(* task of its is declared interrupted by another one.  A process that     *)
(* gets past the probe has seen that nobody listens at the path, which is  *)
(* where a process that serves listens; so nobody serves, and nobody comes *)
(* to serve without starting (NobodyServes and OwnSocket).                 *)
(*                                                                         *)
(* The host of a module: one line is on its way for every reader, and the  *)
(* line of a request that was not crowded comes last, so that the readers  *)
(* that were left behind take theirs first (LinesPending and LineIsLast).  *)
(*                                                                         *)
(* The installer of Ollama and the catalog of models: a refusal stops the  *)
(* only thread that could still hear it, and a thread pulls weights under  *)
(* one lock and on the user's word (RefusalHeard, Consented and LockHeld). *)
(*                                                                         *)
(* The registry of modules: the search for cycles passes nothing over, and *)
(* what is left of the modules at any moment contains every set of modules *)
(* that can work (VisitedInv and Settling).                                *)
(*                                                                         *)
(* The gate of the requests: the table of policies lets through what the   *)
(* panel legitimately asks for, the layers before it close the rest, and   *)
(* what was let through for a task is what its state says (GivenMatches).  *)
(*                                                                         *)
(* The copy: what is published has been compared with what was approved,   *)
(* and while the path keeps its directory what is there is what the thread *)
(* has listed (PublishesVerified and FilesListed).                         *)
(***************************************************************************)
EXTENDS MCServices, StorageProofs, FiniteSetTheorems, SequenceTheorems, TLAPS

-----------------------------------------------------------------------------
(* The start of the runtime.                                                 *)

Underway == Starting \cup Stopping

\* One process at most is on its way up or down.
Alone == \A p, q \in Instance : {at[p], at[q]} \subseteq Underway => p = q

\* Who serves does so at the path, and who stops has not removed the socket yet.
OwnSocket ==
    \A p \in Instance :
        /\ at[p] = "serve" => file = p /\ own[p] = p /\ p \in listening
        /\ at[p] \in Stopping => file = p /\ own[p] = p

\* Who is past the probe has found that nobody serves.
NobodyServes ==
    \A p, q \in Instance : at[p] \in Starting \ {"check", "probe"} => at[q] # "serve"

\* What a process has made at the path is there until its start is over.
Made ==
    \A p \in Instance :
        /\ at[p] \in {"listen", "identify", "protect", "verify", "recover"} => file = p
        /\ at[p] \in {"identify", "protect", "verify", "recover"} => p \in listening
        /\ at[p] \in {"protect", "verify", "recover"} => own[p] = p

StartupInv ==
    /\ StartupTypeOK
    /\ rivals = {} => Alone /\ OwnSocket /\ NobodyServes /\ Made /\ disturbed = {}

\* Boot keeps the invariant.
LEMMA BootKeeps ==
    ASSUME StartupInv, NEW p \in Instance, Boot(p)
    PROVE  StartupInv'
<1>1. StartupTypeOK'
  BY DEF StartupInv, StartupTypeOK, Starting, Boot, Go, Beside
<1>2. SUFFICES ASSUME rivals' = {}
         PROVE  (Alone /\ OwnSocket /\ NobodyServes /\ Made /\ disturbed = {})'
  BY <1>1 DEF StartupInv
<1>3. rivals = {}
  BY <1>2 DEF Boot, Go, Beside
<1>4. Alone'
  BY <1>2 DEF StartupInv, Alone, Underway, Boot, Go, Beside
<1>5. OwnSocket'
  BY <1>2 DEF StartupInv, OwnSocket, Stopping, Boot, Go, Beside
<1>6. NobodyServes'
  BY <1>2 DEF StartupInv, NobodyServes, Boot, Go, Beside
<1>7. Made'
  BY <1>2 DEF StartupInv, Made, Boot, Go, Beside
<1>8. (disturbed = {})'
  BY <1>2 DEF StartupInv, Boot, Go, Beside
<1> QED
  BY <1>4, <1>5, <1>6, <1>7, <1>8

\* Check keeps the invariant.
LEMMA CheckKeeps ==
    ASSUME StartupInv, NEW p \in Instance, Check(p)
    PROVE  StartupInv'
<1>1. StartupTypeOK'
  BY DEF StartupInv, StartupTypeOK, Starting, Check, Go
<1>2. SUFFICES ASSUME rivals' = {}
         PROVE  (Alone /\ OwnSocket /\ NobodyServes /\ Made /\ disturbed = {})'
  BY <1>1 DEF StartupInv
<1>3. rivals = {}
  BY <1>2 DEF Check, Go
<1>4. Alone'
  BY <1>2 DEF StartupInv, StartupTypeOK, Alone, Underway, Active, Check, Go
<1>5. OwnSocket'
  BY <1>2 DEF StartupInv, OwnSocket, Stopping, Check, Go
<1>6. NobodyServes'
  BY <1>2, NobodyAssumption DEF StartupInv, OwnSocket, NobodyServes, Check, Go
<1>7. Made'
  BY <1>2 DEF StartupInv, Made, Check, Go
<1>8. (disturbed = {})'
  BY <1>2 DEF StartupInv, Check, Go
<1> QED
  BY <1>4, <1>5, <1>6, <1>7, <1>8

\* Probe keeps the invariant.
LEMMA ProbeKeeps ==
    ASSUME StartupInv, NEW p \in Instance, Probe(p)
    PROVE  StartupInv'
<1>1. StartupTypeOK'
  BY DEF StartupInv, StartupTypeOK, Starting, Probe, Go
<1>2. SUFFICES ASSUME rivals' = {}
         PROVE  (Alone /\ OwnSocket /\ NobodyServes /\ Made /\ disturbed = {})'
  BY <1>1 DEF StartupInv
<1>3. rivals = {}
  BY <1>2 DEF Probe, Go
<1>4. Alone'
  BY <1>2 DEF StartupInv, StartupTypeOK, Alone, Underway, Active, Probe, Go
<1>5. OwnSocket'
  BY <1>2 DEF StartupInv, OwnSocket, Stopping, Probe, Go
<1>6. NobodyServes'
  BY <1>2 DEF StartupInv, OwnSocket, NobodyServes, SocketAlive, Starting, Probe, Go
<1>7. Made'
  BY <1>2 DEF StartupInv, Made, Probe, Go
<1>8. (disturbed = {})'
  BY <1>2 DEF StartupInv, Probe, Go
<1> QED
  BY <1>4, <1>5, <1>6, <1>7, <1>8

\* Recheck keeps the invariant.
LEMMA RecheckKeeps ==
    ASSUME StartupInv, NEW p \in Instance, Recheck(p)
    PROVE  StartupInv'
<1>1. StartupTypeOK'
  BY DEF StartupInv, StartupTypeOK, Starting, Stopping, Recheck, Go
<1>2. SUFFICES ASSUME rivals' = {}
         PROVE  (Alone /\ OwnSocket /\ NobodyServes /\ Made /\ disturbed = {})'
  BY <1>1 DEF StartupInv
<1>3. rivals = {}
  BY <1>2 DEF Recheck, Go
<1>4. Alone'
  BY <1>2 DEF StartupInv, StartupTypeOK, Alone, Underway, Active, Recheck, Go
<1>5. OwnSocket'
  BY <1>2 DEF StartupInv, StartupTypeOK, OwnSocket, Stopping, Recheck, Go
<1>6. NobodyServes'
  BY <1>2 DEF StartupInv, StartupTypeOK, OwnSocket, NobodyServes, Active, Recheck, Go
<1>7. Made'
  BY <1>2 DEF StartupInv, Made, Recheck, Go
<1>8. (disturbed = {})'
  BY <1>2 DEF StartupInv, Recheck, Go
<1> QED
  BY <1>4, <1>5, <1>6, <1>7, <1>8

\* Unlink keeps the invariant.
LEMMA UnlinkKeeps ==
    ASSUME StartupInv, NEW p \in Instance, Unlink(p)
    PROVE  StartupInv'
<1>1. StartupTypeOK'
  BY DEF StartupInv, StartupTypeOK, Starting, Unlink, Go
<1>2. SUFFICES ASSUME rivals' = {}
         PROVE  (Alone /\ OwnSocket /\ NobodyServes /\ Made /\ disturbed = {})'
  BY <1>1 DEF StartupInv
<1>3. rivals = {}
  BY <1>2 DEF Unlink, Go
<1>4. Alone'
  BY <1>2 DEF StartupInv, StartupTypeOK, Alone, Underway, Active, Unlink, Go
<1>5. OwnSocket'
  BY <1>2 DEF StartupInv, StartupTypeOK, Alone, OwnSocket, NobodyServes, Underway, Stopping,
     Active, Unlink, Go
<1>6. NobodyServes'
  BY <1>2 DEF StartupInv, StartupTypeOK, OwnSocket, NobodyServes, Active, Unlink, Go
<1>7. Made'
  BY <1>2 DEF StartupInv, StartupTypeOK, Alone, Made, Underway, Active, Unlink, Go
<1>8. (disturbed = {})'
  BY <1>2 DEF StartupInv, Unlink, Go
<1> QED
  BY <1>4, <1>5, <1>6, <1>7, <1>8

\* Bind keeps the invariant.
LEMMA BindKeeps ==
    ASSUME StartupInv, NEW p \in Instance, Bind(p)
    PROVE  StartupInv'
<1>1. StartupTypeOK'
  BY DEF StartupInv, StartupTypeOK, Starting, Bind, Go
<1>2. SUFFICES ASSUME rivals' = {}
         PROVE  (Alone /\ OwnSocket /\ NobodyServes /\ Made /\ disturbed = {})'
  BY <1>1 DEF StartupInv
<1>3. rivals = {}
  BY <1>2 DEF Bind, Go
<1>4. Alone'
  BY <1>2 DEF StartupInv, StartupTypeOK, Alone, Underway, Active, Bind, Go
<1>5. OwnSocket'
  BY <1>2, NobodyAssumption DEF StartupInv, StartupTypeOK, OwnSocket, Stopping, Bind, Go
<1>6. NobodyServes'
  BY <1>2 DEF StartupInv, StartupTypeOK, OwnSocket, NobodyServes, Active, Bind, Go
<1>7. Made'
  BY <1>2 DEF StartupInv, StartupTypeOK, Alone, Made, Underway, Active, Bind, Go
<1>8. (disturbed = {})'
  BY <1>2 DEF StartupInv, Bind, Go
<1> QED
  BY <1>4, <1>5, <1>6, <1>7, <1>8

\* Listen keeps the invariant.
LEMMA ListenKeeps ==
    ASSUME StartupInv, NEW p \in Instance, Listen(p)
    PROVE  StartupInv'
<1>1. StartupTypeOK'
  BY DEF StartupInv, StartupTypeOK, Starting, Listen, Go
<1>2. SUFFICES ASSUME rivals' = {}
         PROVE  (Alone /\ OwnSocket /\ NobodyServes /\ Made /\ disturbed = {})'
  BY <1>1 DEF StartupInv
<1>3. rivals = {}
  BY <1>2 DEF Listen, Go
<1>4. Alone'
  BY <1>2 DEF StartupInv, StartupTypeOK, Alone, Underway, Active, Listen, Go
<1>5. OwnSocket'
  BY <1>2 DEF StartupInv, OwnSocket, Stopping, Listen, Go
<1>6. NobodyServes'
  BY <1>2 DEF StartupInv, StartupTypeOK, OwnSocket, NobodyServes, Active, Listen, Go
<1>7. Made'
  BY <1>2 DEF StartupInv, Made, Listen, Go
<1>8. (disturbed = {})'
  BY <1>2 DEF StartupInv, Listen, Go
<1> QED
  BY <1>4, <1>5, <1>6, <1>7, <1>8

\* Identify keeps the invariant.
LEMMA IdentifyKeeps ==
    ASSUME StartupInv, NEW p \in Instance, Identify(p)
    PROVE  StartupInv'
<1>1. StartupTypeOK'
  BY DEF StartupInv, StartupTypeOK, Starting, Identify, Go
<1>2. SUFFICES ASSUME rivals' = {}
         PROVE  (Alone /\ OwnSocket /\ NobodyServes /\ Made /\ disturbed = {})'
  BY <1>1 DEF StartupInv
<1>3. rivals = {}
  BY <1>2 DEF Identify, Go
<1>4. Alone'
  BY <1>2 DEF StartupInv, StartupTypeOK, Alone, Underway, Active, Identify, Go
<1>5. OwnSocket'
  BY <1>2 DEF StartupInv, StartupTypeOK, OwnSocket, Made, Identify, Go
<1>6. NobodyServes'
  BY <1>2 DEF StartupInv, StartupTypeOK, OwnSocket, NobodyServes, Active, Identify, Go
<1>7. Made'
  BY <1>2, NobodyAssumption DEF StartupInv, StartupTypeOK, Made, Identify, Go
<1>8. (disturbed = {})'
  BY <1>2 DEF StartupInv, Starting, Identify, Go
<1> QED
  BY <1>4, <1>5, <1>6, <1>7, <1>8

\* Protect keeps the invariant.
LEMMA ProtectKeeps ==
    ASSUME StartupInv, NEW p \in Instance, Protect(p)
    PROVE  StartupInv'
<1>1. StartupTypeOK'
  BY DEF StartupInv, StartupTypeOK, Starting, Protect, Go
<1>2. SUFFICES ASSUME rivals' = {}
         PROVE  (Alone /\ OwnSocket /\ NobodyServes /\ Made /\ disturbed = {})'
  BY <1>1 DEF StartupInv
<1>3. rivals = {}
  BY <1>2 DEF Protect, Go
<1>4. Alone'
  BY <1>2 DEF StartupInv, StartupTypeOK, Alone, Underway, Active, Protect, Go
<1>5. OwnSocket'
  BY <1>2 DEF StartupInv, OwnSocket, Made, Stopping, Protect, Go
<1>6. NobodyServes'
  BY <1>2 DEF StartupInv, StartupTypeOK, OwnSocket, NobodyServes, Active, Protect, Go
<1>7. Made'
  BY <1>2 DEF StartupInv, Alone, Made, Protect, Go
<1>8. (disturbed = {})'
  BY <1>2 DEF StartupInv, Protect, Go
<1> QED
  BY <1>4, <1>5, <1>6, <1>7, <1>8

\* Verify keeps the invariant.
LEMMA VerifyKeeps ==
    ASSUME StartupInv, NEW p \in Instance, Verify(p)
    PROVE  StartupInv'
<1>1. StartupTypeOK'
  BY DEF StartupInv, StartupTypeOK, Starting, Verify, Go
<1>2. SUFFICES ASSUME rivals' = {}
         PROVE  (Alone /\ OwnSocket /\ NobodyServes /\ Made /\ disturbed = {})'
  BY <1>1 DEF StartupInv
<1>3. rivals = {}
  BY <1>2 DEF Verify, Go
<1>4. Alone'
  BY <1>2 DEF StartupInv, StartupTypeOK, Alone, Underway, Active, Verify, Go
<1>5. OwnSocket'
  BY <1>2 DEF StartupInv, OwnSocket, Made, Verify, Go
<1>6. NobodyServes'
  BY <1>2 DEF StartupInv, StartupTypeOK, OwnSocket, NobodyServes, Active, Verify, Go
<1>7. Made'
  BY <1>2 DEF StartupInv, Made, Verify, Go
<1>8. (disturbed = {})'
  BY <1>2 DEF StartupInv, Verify, Go
<1> QED
  BY <1>4, <1>5, <1>6, <1>7, <1>8

\* Withdraw keeps the invariant.
LEMMA WithdrawKeeps ==
    ASSUME StartupInv, NEW p \in Instance, Withdraw(p)
    PROVE  StartupInv'
<1>1. StartupTypeOK'
  BY DEF StartupInv, StartupTypeOK, Withdraw, Go
<1>2. SUFFICES ASSUME rivals' = {}
         PROVE  (Alone /\ OwnSocket /\ NobodyServes /\ Made /\ disturbed = {})'
  BY <1>1 DEF StartupInv
<1>3. rivals = {}
  BY <1>2 DEF Withdraw, Go
<1>4. Alone'
  BY <1>2 DEF StartupInv, StartupTypeOK, Alone, Underway, Active, Withdraw, Go
<1>5. OwnSocket'
  BY <1>2, NobodyAssumption DEF StartupInv, Alone, OwnSocket, NobodyServes, Underway, Starting,
     Stopping, Withdraw, Go
<1>6. NobodyServes'
  BY <1>2, NobodyAssumption DEF StartupInv, NobodyServes, Starting, Withdraw, Go
<1>7. Made'
  BY <1>2 DEF StartupInv, StartupTypeOK, Alone, Made, Underway, Active, Withdraw, Go
<1>8. (disturbed = {})'
  BY <1>2 DEF StartupInv, Withdraw, Go
<1> QED
  BY <1>4, <1>5, <1>6, <1>7, <1>8

\* Recover keeps the invariant.
LEMMA RecoverKeeps ==
    ASSUME StartupInv, NEW p \in Instance, Recover(p)
    PROVE  StartupInv'
<1>1. StartupTypeOK'
  BY DEF StartupInv, StartupTypeOK, Active, Recover, Go
<1>2. SUFFICES ASSUME rivals' = {}
         PROVE  (Alone /\ OwnSocket /\ NobodyServes /\ Made /\ disturbed = {})'
  BY <1>1 DEF StartupInv
<1>3. rivals = {}
  BY <1>2 DEF Recover, Go
<1>4. Alone'
  BY <1>2 DEF StartupInv, StartupTypeOK, Alone, Underway, Active, Recover, Go
<1>5. OwnSocket'
  BY <1>2 DEF StartupInv, OwnSocket, Made, Stopping, Recover, Go
<1>6. NobodyServes'
  BY <1>2 DEF StartupInv, Alone, NobodyServes, Underway, Starting, Stopping, Recover, Go
<1>7. Made'
  BY <1>2 DEF StartupInv, Made, Recover, Go
<1>8. (disturbed = {})'
  BY <1>2 DEF StartupInv, StartupTypeOK, Alone, NobodyServes, Underway, Stopping, Active,
     Recover, Go
<1> QED
  BY <1>4, <1>5, <1>6, <1>7, <1>8

\* Work keeps the invariant.
LEMMA WorkKeeps ==
    ASSUME StartupInv, NEW p \in Instance, Work(p)
    PROVE  StartupInv'
<1>1. StartupTypeOK'
  BY DEF StartupInv, StartupTypeOK, Work, Go
<1>2. SUFFICES ASSUME rivals' = {}
         PROVE  (Alone /\ OwnSocket /\ NobodyServes /\ Made /\ disturbed = {})'
  BY <1>1 DEF StartupInv
<1>3. rivals = {}
  BY <1>2 DEF Work, Go
<1>4. Alone'
  BY <1>2 DEF StartupInv, Alone, Work, Go
<1>5. OwnSocket'
  BY <1>2 DEF StartupInv, OwnSocket, Active, Work, Go
<1>6. NobodyServes'
  BY <1>2 DEF StartupInv, NobodyServes, Underway, Work, Go
<1>7. Made'
  BY <1>2 DEF StartupInv, StartupTypeOK, Made, Underway, Work, Go
<1>8. (disturbed = {})'
  BY <1>2 DEF StartupInv, StartupTypeOK, Work, Go
<1> QED
  BY <1>4, <1>5, <1>6, <1>7, <1>8

\* Stop keeps the invariant.
LEMMA StopKeeps ==
    ASSUME StartupInv, NEW p \in Instance, Stop(p)
    PROVE  StartupInv'
<1>1. StartupTypeOK'
  BY DEF StartupInv, StartupTypeOK, Stopping, Active, Stop, Go, Beside
<1>2. SUFFICES ASSUME rivals' = {}
         PROVE  (Alone /\ OwnSocket /\ NobodyServes /\ Made /\ disturbed = {})'
  BY <1>1 DEF StartupInv
<1>3. rivals = {}
  BY <1>2 DEF Stop, Go, Beside
<1>4. Alone'
  BY <1>2 DEF StartupInv, Alone, Underway, Stop, Go, Beside
<1>5. OwnSocket'
  BY <1>2 DEF StartupInv, OwnSocket, Stop, Go, Beside
<1>6. NobodyServes'
  BY <1>2 DEF StartupInv, OwnSocket, NobodyServes, Stop, Go, Beside
<1>7. Made'
  BY <1>2 DEF StartupInv, Made, Stop, Go, Beside
<1>8. (disturbed = {})'
  BY <1>2 DEF StartupInv, Stop, Go, Beside
<1> QED
  BY <1>4, <1>5, <1>6, <1>7, <1>8

\* Shut keeps the invariant.
LEMMA ShutKeeps ==
    ASSUME StartupInv, NEW p \in Instance, Shut(p)
    PROVE  StartupInv'
<1>1. StartupTypeOK'
  BY DEF StartupInv, StartupTypeOK, Stopping, Active, Shut, Go
<1>2. SUFFICES ASSUME rivals' = {}
         PROVE  (Alone /\ OwnSocket /\ NobodyServes /\ Made /\ disturbed = {})'
  BY <1>1 DEF StartupInv
<1>3. rivals = {}
  BY <1>2 DEF Shut, Go
<1>4. Alone'
  BY <1>2 DEF StartupInv, StartupTypeOK, Alone, Underway, Active, Shut, Go
<1>5. OwnSocket'
  BY <1>2 DEF StartupInv, OwnSocket, Stopping, Shut, Go
<1>6. NobodyServes'
  BY <1>2 DEF StartupInv, StartupTypeOK, OwnSocket, NobodyServes, Active, Shut, Go
<1>7. Made'
  BY <1>2 DEF StartupInv, Made, Shut, Go
<1>8. (disturbed = {})'
  BY <1>2 DEF StartupInv, Shut, Go
<1> QED
  BY <1>4, <1>5, <1>6, <1>7, <1>8

\* LeaveSocket keeps the invariant.
LEMMA LeaveSocketKeeps ==
    ASSUME StartupInv, NEW p \in Instance, LeaveSocket(p)
    PROVE  StartupInv'
<1>1. StartupTypeOK'
  BY DEF StartupInv, StartupTypeOK, Stopping, Active, LeaveSocket, Go
<1>2. SUFFICES ASSUME rivals' = {}
         PROVE  (Alone /\ OwnSocket /\ NobodyServes /\ Made /\ disturbed = {})'
  BY <1>1 DEF StartupInv
<1>3. rivals = {}
  BY <1>2 DEF LeaveSocket, Go
<1>4. Alone'
  BY <1>2 DEF StartupInv, StartupTypeOK, Alone, Underway, Active, LeaveSocket, Go
<1>5. OwnSocket'
  BY <1>2 DEF StartupInv, StartupTypeOK, OwnSocket, Stopping, LeaveSocket, Go
<1>6. NobodyServes'
  BY <1>2 DEF StartupInv, StartupTypeOK, OwnSocket, NobodyServes, Active, LeaveSocket, Go
<1>7. Made'
  BY <1>2 DEF StartupInv, StartupTypeOK, Made, LeaveSocket, Go
<1>8. (disturbed = {})'
  BY <1>2 DEF StartupInv, LeaveSocket, Go
<1> QED
  BY <1>4, <1>5, <1>6, <1>7, <1>8

\* Remove keeps the invariant.
LEMMA RemoveKeeps ==
    ASSUME StartupInv, NEW p \in Instance, Remove(p)
    PROVE  StartupInv'
<1>1. StartupTypeOK'
  BY DEF StartupInv, StartupTypeOK, Remove, Go
<1>2. SUFFICES ASSUME rivals' = {}
         PROVE  (Alone /\ OwnSocket /\ NobodyServes /\ Made /\ disturbed = {})'
  BY <1>1 DEF StartupInv
<1>3. rivals = {}
  BY <1>2 DEF Remove, Go
<1>4. Alone'
  BY <1>2 DEF StartupInv, StartupTypeOK, Alone, Underway, Active, Remove, Go
<1>5. OwnSocket'
  BY <1>2 DEF StartupInv, StartupTypeOK, OwnSocket, Stopping, Remove, Go
<1>6. NobodyServes'
  BY <1>2 DEF StartupInv, StartupTypeOK, OwnSocket, NobodyServes, Active, Remove, Go
<1>7. Made'
  BY <1>2 DEF StartupInv, StartupTypeOK, Alone, Made, Underway, Active, Remove, Go
<1>8. (disturbed = {})'
  BY <1>2 DEF StartupInv, Remove, Go
<1> QED
  BY <1>4, <1>5, <1>6, <1>7, <1>8

\* Die keeps the invariant.
LEMMA DieKeeps ==
    ASSUME StartupInv, NEW p \in Instance, Die(p)
    PROVE  StartupInv'
<1>1. StartupTypeOK'
  BY DEF StartupInv, StartupTypeOK, Die, Go
<1>2. SUFFICES ASSUME rivals' = {}
         PROVE  (Alone /\ OwnSocket /\ NobodyServes /\ Made /\ disturbed = {})'
  BY <1>1 DEF StartupInv
<1>3. rivals = {}
  BY <1>2 DEF Die, Go
<1>4. Alone'
  BY <1>2 DEF StartupInv, Alone, Underway, Starting, Stopping, Die, Go
<1>5. OwnSocket'
  BY <1>2 DEF StartupInv, StartupTypeOK, OwnSocket, Stopping, Die, Go
<1>6. NobodyServes'
  BY <1>2 DEF StartupInv, NobodyServes, Starting, Die, Go
<1>7. Made'
  BY <1>2 DEF StartupInv, StartupTypeOK, Made, Die, Go
<1>8. (disturbed = {})'
  BY <1>2 DEF StartupInv, Die, Go
<1> QED
  BY <1>4, <1>5, <1>6, <1>7, <1>8

\* At first no process has started.
LEMMA InitStartup == StartupInit => StartupInv
BY DEF StartupInit, StartupInv, StartupTypeOK, Alone, OwnSocket, NobodyServes, Made, Underway,
   Starting, Stopping, Active

\* A step that leaves the variables alone leaves the invariant alone.
LEMMA StutterKeeps ==
    ASSUME StartupInv, UNCHANGED startupVars
    PROVE  StartupInv'
BY DEF StartupInv, StartupTypeOK, Alone, OwnSocket, NobodyServes, Made, startupVars

\* Every step of every process keeps the invariant.
LEMMA NextStartup == StartupInv /\ [StartupNext]_startupVars => StartupInv'
BY BootKeeps, CheckKeeps, ProbeKeeps, RecheckKeeps, UnlinkKeeps, BindKeeps, ListenKeeps,
   IdentifyKeeps, ProtectKeeps, VerifyKeeps, WithdrawKeeps, RecoverKeeps, WorkKeeps,
   StopKeeps, ShutKeeps, LeaveSocketKeeps, RemoveKeeps, DieKeeps,
   StutterKeeps DEF StartupNext

\* The invariant holds in every state.
THEOREM StartupInvariant == StartupSpec => []StartupInv
BY InitStartup, NextStartup, PTL DEF StartupSpec

\* Every variable keeps its type, for any number of processes.
THEOREM StartupTypeCorrect == StartupSpec => []StartupTypeOK
<1>1. StartupInv => StartupTypeOK
  BY DEF StartupInv
<1> QED
  BY <1>1, StartupInvariant, PTL

\* Without two starts or stops at once there is one active runtime, requests
\* reach it, and its tasks are its own: two that are active would both be at the
\* path.
THEOREM OneRuntimeAtATime == StartupSpec => []OneRuntime
<1>1. StartupInv => OneRuntime
  BY DEF StartupInv, OneRuntime, Alone, OwnSocket, Active, Underway
<1> QED
  BY <1>1, StartupInvariant, PTL

-----------------------------------------------------------------------------
(* The host of a module.                                                     *)

\* The readers of a worker's answers: the one that is blocked in readline() and
\* those that wait for it.
Readers(w) == waiting[w] \cup ({reading[w]} \ {0})

\* The last of the lines that are still to be read or to be answered.
LastLine(w) == IF inbox[w] # <<>> THEN inbox[w][Len(inbox[w])] ELSE outbox[w][Len(outbox[w])]

\* What a thread does is about a worker that was started, and who asks holds the
\* worker's lock, for a request that went to it.
Asks ==
    \A c \in Caller :
        /\ doing[c].at # "idle" => doing[c].worker \in Worker
        /\ doing[c].at # "asking" => doing[c].request = 0
        /\ doing[c].at = "asking" =>
              /\ doing[c].worker \in locked
              /\ doing[c].request \in 1 .. Len(sent)
              /\ sent[doing[c].request] = doing[c].worker

Asking(c, w) == doing[c].at = "asking" /\ doing[c].worker = w

\* The lock of a worker belongs to one thread, or to the one that stops it.
OneHolder ==
    /\ \A c, d \in Caller, w \in Worker : Asking(c, w) /\ Asking(d, w) => c = d
    /\ stopper.at # "no" => stopper.worker \in Worker
    /\ stopper.at = "asked" => /\ stopper.worker \in locked
                               /\ \A c \in Caller : ~Asking(c, stopper.worker)

\* A reader reads for a request to its worker, and a line is on its way for each.
LinesPending ==
    \A w \in Worker :
        /\ \A r \in Readers(w) : r \in 1 .. Len(sent) /\ sent[r] = w
        /\ reading[w] \notin waiting[w]
        /\ Len(outbox[w]) + Len(inbox[w]) = Cardinality(Readers(w))

\* Nobody waits for the line of a request that was written while nobody waited,
\* but its own reader, and it comes last.
LineIsLast ==
    \A c \in Caller : \A w \in Worker :
        Asking(c, w) /\ doing[c].request \notin crowded =>
            /\ doing[c].request \in Readers(w)
            /\ waiting[w] \subseteq {doing[c].request}
            /\ LastLine(w) = doing[c].request

HostInv == HostTypeOK /\ Asks /\ OneHolder /\ LinesPending /\ LineIsLast /\ AnswersBelong

\* A step that leaves the pipes alone, and in which nobody comes to ask, keeps
\* what the invariant says of the lines.
LEMMA PipesKept ==
    ASSUME HostInv, UNCHANGED pipes,
           \A c \in Caller : doing'[c].at = "asking" => doing'[c] = doing[c]
    PROVE  LinesPending' /\ LineIsLast' /\ AnswersBelong'
<1>1. \A w \in Worker : Readers(w)' = Readers(w) /\ LastLine(w)' = LastLine(w)
  BY DEF pipes, Readers, LastLine
<1>2. LinesPending'
  BY <1>1 DEF HostInv, LinesPending, pipes
<1>3. LineIsLast'
  BY <1>1 DEF HostInv, LineIsLast, Asking, pipes
<1>4. AnswersBelong'
  BY DEF HostInv, AnswersBelong, pipes
<1>. QED BY <1>2, <1>3, <1>4

\* What a thread may do.
LEMMA Deeds ==
    /\ AtRest \in Deed
    /\ \A place \in {"starting", "chosen", "asking"}, w \in 0 .. MaxStarts, r \in 0 .. MaxRequests :
          Doing(place, w, r) \in Deed
<1>1. 0 \in 0 .. MaxStarts /\ 0 \in 0 .. MaxRequests
  BY HostAssumption
<1>. QED BY <1>1 DEF AtRest, Doing, Deed

\* A module is started.
LEMMA ModuleStartKeeps ==
    ASSUME HostInv, NEW c \in Caller,
           (\E w \in Worker : StartModule(c, w)) \/ StartReady(c) \/ StartFails(c)
    PROVE  HostInv'
<1>1. UNCHANGED pipes
  BY DEF StartModule, StartReady, StartFails
<1>2. doing \in [Caller -> Deed] /\ doing' \in [Caller -> Deed]
  <2>1. \A w \in Worker : Doing("starting", w, 0) \in Deed
    BY Deeds, HostAssumption DEF Worker
  <2>2. ASSUME NEW w \in Worker, StartModule(c, w) PROVE doing' \in [Caller -> Deed]
    BY <2>1, <2>2 DEF HostInv, HostTypeOK, StartModule
  <2>3. CASE StartReady(c) \/ StartFails(c)
    BY <2>3, Deeds DEF HostInv, HostTypeOK, StartReady, StartFails
  <2>. QED BY <2>2, <2>3 DEF HostInv, HostTypeOK
<1>3. \A d \in Caller : doing'[d].at = "asking" => doing'[d] = doing[d]
  BY <1>2 DEF StartModule, StartReady, StartFails, AtRest, Doing
<1>4. LinesPending' /\ LineIsLast' /\ AnswersBelong'
  BY <1>1, <1>3, PipesKept
<1>5. HostTypeOK'
  <2>1. life' \in [Worker -> {"none", "starting", "ready", "dead"}]
    BY DEF HostInv, HostTypeOK, StartModule, StartReady, StartFails
  <2>2. running' \in 0 .. MaxStarts
    BY DEF HostInv, HostTypeOK, Asks, Worker, StartModule, StartReady, StartFails
  <2>3. quarantined' \in BOOLEAN
    BY DEF HostInv, HostTypeOK, StartModule, StartReady, StartFails
  <2>. QED BY <1>1, <1>2, <2>1, <2>2, <2>3
       DEF HostInv, HostTypeOK, StartModule, StartReady, StartFails, pipes
<1>6. Asks'
  BY <1>1, <1>2 DEF HostInv, Asks, StartModule, StartReady, StartFails, AtRest, Doing, pipes
<1>7. OneHolder'
  BY <1>3 DEF HostInv, OneHolder, Asking, StartModule, StartReady, StartFails
<1>. QED BY <1>4, <1>5, <1>6, <1>7 DEF HostInv

\* A thread chooses the worker, or gives up before or after it has asked.
LEMMA ChoiceKeeps ==
    ASSUME HostInv, NEW c \in Caller, RequireRunning(c) \/ WriteFails(c) \/ GiveUpAnswer(c)
    PROVE  HostInv'
<1>1. UNCHANGED pipes
  BY DEF RequireRunning, WriteFails, GiveUpAnswer
<1>2. doing \in [Caller -> Deed] /\ doing' \in [Caller -> Deed]
  <2>1. Doing("chosen", running, 0) \in Deed
    BY Deeds, HostAssumption DEF HostInv, HostTypeOK
  <2>. QED BY <2>1, Deeds DEF HostInv, HostTypeOK, RequireRunning, WriteFails, GiveUpAnswer
<1>3. \A d \in Caller : doing'[d].at = "asking" => doing'[d] = doing[d]
  BY <1>2 DEF RequireRunning, WriteFails, GiveUpAnswer, AtRest, Doing
<1>4. LinesPending' /\ LineIsLast' /\ AnswersBelong'
  BY <1>1, <1>3, PipesKept
<1>5. HostTypeOK'
  BY <1>1, <1>2 DEF HostInv, HostTypeOK, RequireRunning, WriteFails, GiveUpAnswer, pipes
<1>6. Asks'
  <2>1. CASE RequireRunning(c)
    BY <1>1, <1>2, <2>1 DEF HostInv, HostTypeOK, Asks, RequireRunning, Alive, Worker, AtRest, Doing, pipes
  <2>2. CASE WriteFails(c)
    BY <1>1, <1>2, <2>2 DEF HostInv, Asks, WriteFails, AtRest, pipes
  <2>3. CASE GiveUpAnswer(c)
    <3>1. \A d \in Caller : d # c => doing'[d] = doing[d]
      BY <1>2, <2>3 DEF GiveUpAnswer
    <3>2. \A d \in Caller : d # c /\ doing[d].at = "asking" => doing[d].worker # doing[c].worker
      BY <2>3 DEF GiveUpAnswer, HostInv, Asks, OneHolder, Asking
    <3>. QED BY <1>1, <1>2, <2>3, <3>1, <3>2 DEF HostInv, Asks, GiveUpAnswer, AtRest, pipes
  <2>. QED BY <2>1, <2>2, <2>3
<1>7. OneHolder'
  BY <1>3 DEF HostInv, Asks, OneHolder, Asking, RequireRunning, WriteFails, GiveUpAnswer
<1>. QED BY <1>4, <1>5, <1>6, <1>7 DEF HostInv

\* The module is stopped, or its worker dies.
LEMMA HostStopKeeps ==
    ASSUME HostInv, StopPops \/ StopAsks \/ StopEnds \/ (\E w \in Worker : ProcessDies(w))
    PROVE  HostInv'
<1>1. UNCHANGED pipes /\ UNCHANGED doing
  BY DEF StopPops, StopAsks, StopEnds, ProcessDies
<1>2. LinesPending' /\ LineIsLast' /\ AnswersBelong'
  BY <1>1, PipesKept
<1>3. HostTypeOK'
  <2>1. stopper' \in [at : {"no", "popped", "asked"}, worker : 0 .. MaxStarts]
    <3>1. CASE StopPops
      BY <3>1 DEF HostInv, HostTypeOK, StopPops
    <3>2. CASE StopAsks
      BY <3>2 DEF HostInv, HostTypeOK, StopAsks
    <3>3. CASE StopEnds
      BY <3>3, HostAssumption DEF StopEnds
    <3>4. ASSUME NEW w \in Worker, ProcessDies(w) PROVE stopper' = stopper
      BY <3>4 DEF ProcessDies
    <3>. QED BY <3>1, <3>2, <3>3, <3>4 DEF HostInv, HostTypeOK
  <2>2. running' \in 0 .. MaxStarts
    BY HostAssumption DEF HostInv, HostTypeOK, StopPops, StopAsks, StopEnds, ProcessDies
  <2>3. life' \in [Worker -> {"none", "starting", "ready", "dead"}]
    BY DEF HostInv, HostTypeOK, StopPops, StopAsks, StopEnds, ProcessDies
  <2>4. locked' \subseteq Worker
    BY DEF HostInv, HostTypeOK, OneHolder, StopPops, StopAsks, StopEnds, ProcessDies
  <2>. QED BY <1>1, <2>1, <2>2, <2>3, <2>4
       DEF HostInv, HostTypeOK, StopPops, StopAsks, StopEnds, ProcessDies, pipes
<1>4. Asks'
  BY <1>1 DEF HostInv, Asks, OneHolder, Asking, StopPops, StopAsks, StopEnds, ProcessDies, pipes
<1>5. OneHolder'
  BY <1>1 DEF HostInv, HostTypeOK, Asks, OneHolder, Asking, Worker, StopPops, StopAsks, StopEnds, ProcessDies
<1>. QED BY <1>2, <1>3, <1>4, <1>5 DEF HostInv

\* There are only so many readers.
LEMMA ReadersFinite ==
    ASSUME HostInv, NEW w \in Worker
    PROVE  IsFiniteSet(Readers(w)) /\ Cardinality(Readers(w)) \in Nat
<1>1. Len(sent) \in Nat
  BY DEF HostInv, HostTypeOK
<1>2. Readers(w) \subseteq 1 .. Len(sent)
  BY DEF HostInv, LinesPending
<1>3. IsFiniteSet(1 .. Len(sent))
  BY <1>1, FS_Interval
<1>4. IsFiniteSet(Readers(w))
  BY <1>2, <1>3, FS_Subset
<1>. QED BY <1>4, FS_CardinalityType

\* The last line of a queue stays the last one when the first is taken.
LEMMA TailLast ==
    ASSUME NEW S, NEW s \in Seq(S), s # <<>>, Len(s) # 1
    PROVE  Tail(s)[Len(Tail(s))] = s[Len(s)]
<1> DEFINE n == Len(s)
<1>1. n \in Nat /\ n # 0
  BY EmptySeq
<1>2. Len(Tail(s)) = n - 1 /\ \A i \in 1 .. n - 1 : Tail(s)[i] = s[i + 1]
  BY HeadTailProperties
<1>3. n - 1 \in 1 .. n - 1 /\ (n - 1) + 1 = n
  <2>1. n # 1
    OBVIOUS
  <2> HIDE DEF n
  <2>. QED BY <1>1, <2>1
<1>. QED BY <1>2, <1>3

\* The worker answers the oldest line that it has not answered.
LEMMA AnswerKeeps ==
    ASSUME HostInv, NEW w \in Worker, WorkerAnswers(w)
    PROVE  HostInv'
<1> DEFINE head == Head(inbox[w])
<1>1. /\ inbox[w] \in Seq(Request) /\ outbox[w] \in Seq(Request) /\ inbox[w] # <<>>
      /\ inbox \in [Worker -> Seq(Request)] /\ outbox \in [Worker -> Seq(Request)]
  BY DEF HostInv, HostTypeOK, WorkerAnswers
<1>2. /\ UNCHANGED <<life, running, quarantined, doing, locked, sent, reading, waiting,
                     got, stopper, crowded>>
      /\ inbox' = [inbox EXCEPT ![w] = Tail(inbox[w])]
      /\ outbox' = [outbox EXCEPT ![w] = Append(outbox[w], head)]
  BY DEF WorkerAnswers
<1>3. /\ Tail(inbox[w]) \in Seq(Request) /\ Len(Tail(inbox[w])) = Len(inbox[w]) - 1
      /\ head \in Request /\ head = inbox[w][1]
      /\ Append(outbox[w], head) \in Seq(Request)
      /\ Len(Append(outbox[w], head)) = Len(outbox[w]) + 1
  BY <1>1
<1>4. HostTypeOK'
  BY <1>1, <1>2, <1>3 DEF HostInv, HostTypeOK
<1>5. Asks' /\ OneHolder' /\ AnswersBelong'
  BY <1>2 DEF HostInv, Asks, OneHolder, Asking, AnswersBelong
<1>6. \A v \in Worker : Readers(v)' = Readers(v)
  BY <1>2 DEF Readers
<1>7. \A v \in Worker : Len(outbox'[v]) + Len(inbox'[v]) = Len(outbox[v]) + Len(inbox[v])
  <2>1. outbox'[w] = Append(outbox[w], head) /\ inbox'[w] = Tail(inbox[w])
    BY <1>1, <1>2
  <2>2. Len(outbox'[w]) = Len(outbox[w]) + 1 /\ Len(inbox'[w]) = Len(inbox[w]) - 1
    BY <1>3, <2>1
  <2> DEFINE out == Len(outbox[w])
             in == Len(inbox[w])
  <2>3. out \in Nat /\ in \in Nat
    BY <1>1, LenProperties
  <2>4. (out + 1) + (in - 1) = out + in
    <3> HIDE DEF out, in
    <3>. QED BY <2>3
  <2>6. Len(outbox'[w]) + Len(inbox'[w]) = Len(outbox[w]) + Len(inbox[w])
    BY <2>2, <2>4
  <2>5. \A v \in Worker : v # w => outbox'[v] = outbox[v] /\ inbox'[v] = inbox[v]
    BY <1>1, <1>2
  <2>. QED BY <2>5, <2>6
<1>8. LinesPending'
  BY <1>2, <1>6, <1>7 DEF HostInv, LinesPending
<1>9. \A v \in Worker : LastLine(v)' = LastLine(v)
  <2>1. TAKE v \in Worker
  <2>2. CASE v # w
    BY <1>1, <1>2, <2>2 DEF LastLine
  <2>3. CASE v = w
    <3>1. outbox'[w] = Append(outbox[w], head) /\ inbox'[w] = Tail(inbox[w])
      BY <1>1, <1>2
    <3>2. CASE Len(inbox[w]) = 1
      <4>1. Tail(inbox[w]) = <<>>
        <5>1. Len(Tail(inbox[w])) = 0
          BY <1>3, <3>2
        <5>. QED BY <1>3, <5>1, EmptySeq
      <4>2. Append(outbox[w], head)[Len(Append(outbox[w], head))] = inbox[w][1]
        BY <1>1, <1>3
      <4>. QED BY <1>1, <2>3, <3>1, <3>2, <4>1, <4>2 DEF LastLine
    <3>3. CASE Len(inbox[w]) # 1
      <4>1. Tail(inbox[w]) # <<>>
        <5>1. Len(inbox[w]) \in Nat /\ Len(inbox[w]) # 0
          BY <1>1, EmptySeq
        <5>2. Len(Tail(inbox[w])) # 0
          BY <1>3, <3>3, <5>1
        <5>. QED BY <5>2, EmptySeq
      <4>2. Tail(inbox[w])[Len(Tail(inbox[w]))] = inbox[w][Len(inbox[w])]
        BY <1>1, <1>3, <3>3
      <4>. QED BY <1>1, <2>3, <3>1, <4>1, <4>2 DEF LastLine
    <3>. QED BY <3>2, <3>3
  <2>. QED BY <2>2, <2>3
<1>10. LineIsLast'
  BY <1>2, <1>6, <1>9 DEF HostInv, LineIsLast, Asking
<1>. QED BY <1>4, <1>5, <1>8, <1>10 DEF HostInv

\* The stream goes to another reader.
LEMMA ReaderKeeps ==
    ASSUME HostInv, NEW w \in Worker, ReaderNext(w)
    PROVE  HostInv'
<1>1. PICK r \in waiting[w] : /\ reading' = [reading EXCEPT ![w] = r]
                              /\ waiting' = [waiting EXCEPT ![w] = waiting[w] \ {r}]
  BY DEF ReaderNext
<1>2. /\ UNCHANGED <<life, running, quarantined, doing, locked, sent, inbox, outbox, got,
                     stopper, crowded>>
      /\ reading[w] = 0
  BY DEF ReaderNext
<1>3. reading \in [Worker -> 0 .. MaxRequests] /\ waiting \in [Worker -> SUBSET Request]
  BY DEF HostInv, HostTypeOK
<1>4. r \in Request /\ r \in 0 .. MaxRequests /\ r # 0
  BY <1>3, HostAssumption DEF Request
<1>5. reading' \in [Worker -> 0 .. MaxRequests] /\ waiting' \in [Worker -> SUBSET Request]
  BY <1>1, <1>3, <1>4
<1>6. HostTypeOK'
  BY <1>2, <1>5 DEF HostInv, HostTypeOK
<1>7. Asks' /\ OneHolder' /\ AnswersBelong'
  BY <1>2 DEF HostInv, Asks, OneHolder, Asking, AnswersBelong
<1>8. \A v \in Worker : Readers(v)' = Readers(v) /\ LastLine(v)' = LastLine(v)
  BY <1>1, <1>2, <1>3, <1>4 DEF Readers, LastLine
<1>9. \A v \in Worker : waiting'[v] \subseteq waiting[v] /\ reading'[v] \notin waiting'[v]
  BY <1>1, <1>3 DEF HostInv, LinesPending
<1>10. LinesPending'
  <2>1. ASSUME NEW v \in Worker
        PROVE  /\ \A o \in Readers(v)' : o \in 1 .. Len(sent') /\ sent'[o] = v
               /\ Len(outbox'[v]) + Len(inbox'[v]) = Cardinality(Readers(v)')
    BY <1>2, <1>8 DEF HostInv, LinesPending
  <2>. QED BY <1>9, <2>1 DEF LinesPending
<1>11. LineIsLast'
  BY <1>2, <1>8, <1>9 DEF HostInv, LineIsLast, Asking
<1>. QED BY <1>6, <1>7, <1>10, <1>11 DEF HostInv

\* A request is written: its lock keeps everybody else who asks away, so unless a
\* reader of an older request is left behind, nobody waits for the stream.
LEMMA WriteKeeps ==
    ASSUME HostInv, NEW c \in Caller, WriteRequest(c)
    PROVE  HostInv'
<1>2. /\ doing \in [Caller -> Deed] /\ sent \in Seq(Worker) /\ outbox \in [Worker -> Seq(Request)]
      /\ inbox \in [Worker -> Seq(Request)] /\ reading \in [Worker -> 0 .. MaxRequests]
      /\ waiting \in [Worker -> SUBSET Request] /\ locked \subseteq Worker
      /\ crowded \subseteq Request
  BY DEF HostInv, HostTypeOK
<1>3. PICK w \in Worker : w = doing[c].worker
  BY DEF HostInv, Asks, WriteRequest
<1>0. PICK r \in Request : r = Len(sent) + 1
  BY DEF WriteRequest
<1>1. /\ UNCHANGED <<life, running, quarantined, outbox, got, stopper>>
      /\ doing[c].at = "chosen" /\ w \notin locked
      /\ locked' = locked \cup {w} /\ sent' = Append(sent, w)
      /\ inbox' = [inbox EXCEPT ![w] = Append(inbox[w], r)]
      /\ ReaderStarts(w, r)
      /\ crowded' = (IF \E o \in waiting[w] : \A d \in Caller : doing[d].request # o
                     THEN crowded \cup {r} ELSE crowded)
      /\ doing' = [doing EXCEPT ![c] = Doing("asking", w, r)]
  BY <1>0, <1>3 DEF WriteRequest
<1>4. Len(sent) \in Nat
  BY <1>2, LenProperties
<1>5. /\ sent' \in Seq(Worker) /\ Len(sent') = r /\ sent'[r] = w
      /\ \A o \in 1 .. Len(sent) : o \in 1 .. Len(sent') /\ sent'[o] = sent[o]
      /\ r \in 1 .. Len(sent') /\ r \notin 1 .. Len(sent) /\ r \in Nat /\ r # 0 /\ r \in 0 .. MaxRequests
  BY <1>0, <1>1, <1>2, <1>3, <1>4, HostAssumption, AppendProperties DEF Request
<1>6. doing'[c] = Doing("asking", w, r) /\ \A d \in Caller \ {c} : doing'[d] = doing[d]
  BY <1>1, <1>2
<1>7. \A d \in Caller : ~Asking(d, w)
  BY <1>1 DEF HostInv, Asks, Asking
<1>8. /\ inbox'[w] = Append(inbox[w], r) /\ inbox' \in [Worker -> Seq(Request)]
      /\ \A v \in Worker \ {w} : inbox'[v] = inbox[v]
  BY <1>1, <1>2, <1>3
<1>9. r \notin Readers(w) /\ \A v \in Worker : \A o \in Readers(v) : o \in 1 .. Len(sent)
  BY <1>3, <1>5 DEF HostInv, LinesPending
<1>10. /\ reading' \in [Worker -> 0 .. MaxRequests] /\ waiting' \in [Worker -> SUBSET Request]
       /\ Readers(w)' = Readers(w) \cup {r}
       /\ \A v \in Worker \ {w} : reading'[v] = reading[v] /\ waiting'[v] = waiting[v]
       /\ reading'[w] \notin waiting'[w]
       /\ waiting[w] = {} => waiting'[w] \subseteq {r}
  <2>1. reading[w] \notin waiting[w] /\ r # reading[w]
    BY <1>3, <1>5, <1>9 DEF HostInv, LinesPending, Readers
  <2>2. CASE reading[w] = 0 /\ waiting[w] = {}
    <3>1. reading' = [reading EXCEPT ![w] = r] /\ waiting' = waiting
      BY <1>1, <2>2 DEF ReaderStarts
    <3>2. reading'[w] = r /\ \A v \in Worker \ {w} : reading'[v] = reading[v]
      BY <1>2, <3>1
    <3>3. reading' \in [Worker -> 0 .. MaxRequests]
      BY <1>2, <1>5, <3>1
    <3>. QED BY <1>2, <1>5, <2>2, <3>1, <3>2, <3>3 DEF Readers
  <2>3. CASE ~(reading[w] = 0 /\ waiting[w] = {})
    <3>1. waiting' = [waiting EXCEPT ![w] = waiting[w] \cup {r}] /\ reading' = reading
      BY <1>1, <2>3 DEF ReaderStarts
    <3>2. waiting'[w] = waiting[w] \cup {r} /\ \A v \in Worker \ {w} : waiting'[v] = waiting[v]
      BY <1>2, <3>1
    <3>3. waiting' \in [Worker -> SUBSET Request]
      BY <1>2, <3>1
    <3>. QED BY <1>2, <1>5, <2>1, <3>1, <3>2, <3>3 DEF Readers
  <2>. QED BY <2>2, <2>3
<1>11. \A v \in Worker \ {w} : Readers(v)' = Readers(v) /\ LastLine(v)' = LastLine(v)
  BY <1>1, <1>8, <1>10 DEF Readers, LastLine
<1>12. LastLine(w)' = r
  <2>1. Append(inbox[w], r) # <<>> /\ Append(inbox[w], r)[Len(Append(inbox[w], r))] = r
    <3>1. inbox[w] \in Seq(Request)
      BY <1>2
    <3>2. /\ Append(inbox[w], r) # <<>> /\ Len(Append(inbox[w], r)) = Len(inbox[w]) + 1
          /\ Append(inbox[w], r)[Len(inbox[w]) + 1] = r
      BY <3>1, AppendProperties
    <3>. QED BY <3>2, Zenon
  <2>. QED BY <1>8, <2>1 DEF LastLine
<1>13. HostTypeOK'
  <2>1. doing' \in [Caller -> Deed]
    BY <1>1, <1>2, <1>3, <1>5, Deeds, HostAssumption DEF Worker
  <2>2. crowded' \subseteq Request /\ locked' \subseteq Worker
    BY <1>1, <1>2, <1>3
  <2>3. Len(sent') <= MaxRequests
    BY <1>1, <1>5 DEF Request
  <2>. QED BY <1>1, <1>5, <1>8, <1>10, <2>1, <2>2, <2>3 DEF HostInv, HostTypeOK
<1>14. Asks'
  BY <1>1, <1>3, <1>5, <1>6 DEF HostInv, Asks, Doing
<1>15. OneHolder'
  BY <1>1, <1>6, <1>7 DEF HostInv, OneHolder, Asking, Doing
<1>16. LinesPending'
  <2>1. Len(outbox'[w]) + Len(inbox'[w]) = Cardinality(Readers(w)')
    <3>1. Cardinality(Readers(w) \cup {r}) = Cardinality(Readers(w)) + 1
      BY <1>3, <1>9, ReadersFinite, FS_AddElement
    <3> DEFINE out == Len(outbox[w])
               in == Len(inbox[w])
    <3>2. out \in Nat /\ in \in Nat /\ out + in = Cardinality(Readers(w))
      BY <1>2, <1>3, LenProperties DEF HostInv, LinesPending
    <3>3. Len(inbox'[w]) = in + 1
      BY <1>1, <1>2, <1>3, <1>8, AppendProperties
    <3>4. out + (in + 1) = (out + in) + 1
      <4> HIDE DEF out, in
      <4>. QED BY <3>2
    <3>. QED BY <1>1, <1>10, <3>1, <3>2, <3>3, <3>4
  <2>2. \A o \in Readers(w)' : o \in 1 .. Len(sent') /\ sent'[o] = w
    BY <1>3, <1>5, <1>10 DEF HostInv, LinesPending
  <2>3. ASSUME NEW v \in Worker \ {w}
        PROVE  /\ \A o \in Readers(v)' : o \in 1 .. Len(sent') /\ sent'[o] = v
               /\ reading'[v] \notin waiting'[v]
               /\ Len(outbox'[v]) + Len(inbox'[v]) = Cardinality(Readers(v)')
    <3>1. \A o \in Readers(v)' : o \in 1 .. Len(sent') /\ sent'[o] = v
      BY <1>5, <1>11 DEF HostInv, LinesPending
    <3>2. reading'[v] \notin waiting'[v]
      BY <1>10 DEF HostInv, LinesPending
    <3>3. outbox'[v] = outbox[v] /\ inbox'[v] = inbox[v] /\ Readers(v)' = Readers(v)
      BY <1>1, <1>8, <1>11
    <3>. QED BY <3>1, <3>2, <3>3 DEF HostInv, LinesPending
  <2>. QED BY <1>10, <2>1, <2>2, <2>3 DEF LinesPending
<1>17. LineIsLast'
  <2>1. SUFFICES ASSUME NEW d \in Caller, NEW v \in Worker, Asking(d, v)',
                        doing'[d].request \notin crowded'
                 PROVE  /\ doing'[d].request \in Readers(v)'
                        /\ waiting'[v] \subseteq {doing'[d].request}
                        /\ LastLine(v)' = doing'[d].request
    BY DEF LineIsLast
  <2>2. CASE d = c
    <3>1. v = w /\ doing'[d].request = r
      BY <1>6, <2>1, <2>2 DEF Asking, Doing
    <3>2. waiting[w] = {}
      <4>1. SUFFICES ASSUME NEW o \in waiting[w] PROVE FALSE
        OBVIOUS
      <4>2. r \notin crowded'
        BY <2>1, <3>1
      <4>3. PICK e \in Caller : doing[e].request = o
        BY <1>1, <4>2
      <4>4. o \in 1 .. Len(sent) /\ sent[o] = w
        BY <1>3 DEF HostInv, LinesPending, Readers
      <4>5. o # 0
        BY <1>4, <4>4
      <4>6. doing[e].at = "asking" /\ doing[e].worker = w
        BY <4>3, <4>4, <4>5 DEF HostInv, Asks
      <4>. QED BY <1>7, <4>6 DEF Asking
    <3>. QED BY <1>10, <1>12, <3>1, <3>2
  <2>3. CASE d # c
    <3>1. doing'[d] = doing[d] /\ v # w /\ Asking(d, v)
      BY <1>6, <1>7, <2>1, <2>3 DEF Asking
    <3>2. doing[d].request \notin crowded
      BY <1>1, <2>1, <3>1
    <3>3. /\ doing[d].request \in Readers(v) /\ waiting[v] \subseteq {doing[d].request}
          /\ LastLine(v) = doing[d].request
      BY <3>1, <3>2 DEF HostInv, LineIsLast
    <3>. QED BY <1>10, <1>11, <3>1, <3>3
  <2>. QED BY <2>2, <2>3
<1>18. AnswersBelong'
  BY <1>1 DEF HostInv, AnswersBelong
<1>. QED BY <1>13, <1>14, <1>15, <1>16, <1>17, <1>18 DEF HostInv

\* A line is read: by the reader of the thread that asks, and then it is the line
\* that this thread waits for unless its request was crowded, or by one that was
\* left behind, and then it is not the last.
LEMMA ReadKeeps ==
    ASSUME HostInv, NEW w \in Worker, LineRead(w)
    PROVE  HostInv'
<1>1. /\ doing \in [Caller -> Deed] /\ outbox \in [Worker -> Seq(Request)]
      /\ inbox \in [Worker -> Seq(Request)] /\ reading \in [Worker -> 0 .. MaxRequests]
      /\ waiting \in [Worker -> SUBSET Request] /\ got \in [Request -> 0 .. MaxRequests]
  BY DEF HostInv, HostTypeOK
<1>2. PICK r \in Readers(w) : r = reading[w] /\ r # 0 /\ r \notin waiting[w] /\ sent[r] = w
  BY DEF HostInv, LinesPending, LineRead, Readers
<1>3. PICK asker \in SUBSET Caller :
           asker = {c \in Caller : doing[c].at = "asking" /\ doing[c].request = r}
  OBVIOUS
<1>4. /\ UNCHANGED <<life, running, quarantined, sent, inbox, waiting, stopper, crowded>>
      /\ reading' = [reading EXCEPT ![w] = 0]
      /\ outbox' = [outbox EXCEPT ![w] = Tail(outbox[w])] /\ outbox[w] # <<>>
  BY DEF LineRead
<1>5. \/ asker = {} /\ UNCHANGED <<got, doing, locked>>
      \/ /\ asker # {} /\ locked' = locked \ {w}
         /\ got' = [got EXCEPT ![r] = Head(outbox[w])]
         /\ doing' = [c \in Caller |-> IF c \in asker THEN AtRest ELSE doing[c]]
  BY <1>2, <1>3 DEF LineRead
<1>6. r \in Request /\ r \in 1 .. Len(sent)
  BY <1>1, <1>2, HostAssumption DEF HostInv, LinesPending, Request
<1>7. \A c \in Caller : c \in asker <=> Asking(c, w) /\ doing[c].request = r
  BY <1>2, <1>3 DEF HostInv, Asks, Asking
<1>8. /\ outbox[w] \in Seq(Request) /\ inbox[w] \in Seq(Request)
      /\ Tail(outbox[w]) \in Seq(Request) /\ Head(outbox[w]) \in Request
      /\ Head(outbox[w]) = outbox[w][1] /\ Len(Tail(outbox[w])) = Len(outbox[w]) - 1
  BY <1>1, <1>4
<1>9. /\ outbox'[w] = Tail(outbox[w]) /\ reading'[w] = 0 /\ Readers(w)' = Readers(w) \ {r}
      /\ reading' \in [Worker -> 0 .. MaxRequests] /\ outbox' \in [Worker -> Seq(Request)]
  BY <1>1, <1>2, <1>4, <1>8, HostAssumption DEF Readers
<1>10. \A v \in Worker \ {w} : Readers(v)' = Readers(v) /\ LastLine(v)' = LastLine(v)
                                /\ reading'[v] = reading[v] /\ outbox'[v] = outbox[v]
  BY <1>1, <1>4 DEF Readers, LastLine
<1>11. \A c \in Caller : doing'[c] = IF c \in asker THEN AtRest ELSE doing[c]
  BY <1>1, <1>5
<1>12. HostTypeOK'
  <2>1. doing' \in [Caller -> Deed]
    BY <1>1, <1>5, Deeds
  <2>2. got' \in [Request -> 0 .. MaxRequests]
    <3>1. Head(outbox[w]) \in 0 .. MaxRequests
      BY <1>8, HostAssumption DEF Request
    <3>. QED BY <1>1, <1>5, <3>1
  <2>3. locked' \subseteq Worker
    BY <1>5 DEF HostInv, HostTypeOK
  <2>. QED BY <1>4, <1>9, <2>1, <2>2, <2>3 DEF HostInv, HostTypeOK
<1>13. \A c \in Caller : asker # {} /\ Asking(c, w) => c \in asker
  BY <1>7 DEF HostInv, OneHolder
<1>14. Asks'
  BY <1>4, <1>5, <1>11, <1>13 DEF HostInv, Asks, Asking, AtRest
<1>15. OneHolder'
  <2>1. \A c \in Caller, v \in Worker : Asking(c, v)' => Asking(c, v)
    BY <1>11 DEF Asking, AtRest
  <2>2. asker # {} /\ stopper.at = "asked" => stopper.worker # w
    BY <1>3, <1>7 DEF HostInv, OneHolder
  <2>3. stopper.at = "asked" => stopper.worker \in locked'
    BY <1>5, <2>2 DEF HostInv, OneHolder
  <2>. QED BY <1>4, <2>1, <2>3 DEF HostInv, OneHolder
<1>16. IsFiniteSet(Readers(w)) /\ Cardinality(Readers(w) \ {r}) = Cardinality(Readers(w)) - 1
  BY <1>2, ReadersFinite, FS_RemoveElement
<1> DEFINE out == Len(outbox[w])
           in == Len(inbox[w])
<1>17. out \in Nat /\ in \in Nat /\ out + in = Cardinality(Readers(w))
  BY <1>8, LenProperties DEF HostInv, LinesPending
<1>18. out # 0 /\ (in = 0 => inbox[w] = <<>>) /\ (inbox[w] = <<>> => in = 0)
  BY <1>4, <1>8, EmptySeq
<1>19. LinesPending'
  <2>1. (out - 1) + in = (out + in) - 1
    <3> HIDE DEF out, in
    <3>. QED BY <1>17
  <2>2. Len(outbox'[w]) + Len(inbox'[w]) = Cardinality(Readers(w)')
    BY <1>4, <1>8, <1>9, <1>16, <1>17, <2>1
  <2>3. (\A o \in Readers(w)' : o \in 1 .. Len(sent') /\ sent'[o] = w) /\ reading'[w] \notin waiting'[w]
    <3>1. waiting[w] \subseteq Request /\ 0 \notin Request
      BY <1>1 DEF Request
    <3>. QED BY <1>4, <1>9, <3>1 DEF HostInv, LinesPending
  <2>4. ASSUME NEW v \in Worker \ {w}
        PROVE  /\ \A o \in Readers(v)' : o \in 1 .. Len(sent') /\ sent'[o] = v
               /\ reading'[v] \notin waiting'[v]
               /\ Len(outbox'[v]) + Len(inbox'[v]) = Cardinality(Readers(v)')
    <3>1. reading'[v] \notin waiting'[v]
      BY <1>4, <1>10 DEF HostInv, LinesPending
    <3>. QED BY <1>4, <1>10, <3>1 DEF HostInv, LinesPending
  <2>. QED BY <2>2, <2>3, <2>4 DEF LinesPending
<1>20. LineIsLast'
  <2>1. SUFFICES ASSUME NEW d \in Caller, NEW v \in Worker, Asking(d, v)',
                        doing'[d].request \notin crowded'
                 PROVE  /\ doing'[d].request \in Readers(v)'
                        /\ waiting'[v] \subseteq {doing'[d].request}
                        /\ LastLine(v)' = doing'[d].request
    BY DEF LineIsLast
  <2>2. doing'[d] = doing[d] /\ d \notin asker /\ Asking(d, v)
    BY <1>11, <2>1 DEF Asking, AtRest
  <2>3. PICK q : q = doing[d].request
    OBVIOUS
  <2>4. q \in Readers(v) /\ waiting[v] \subseteq {q} /\ LastLine(v) = q
    BY <1>4, <2>1, <2>2, <2>3 DEF HostInv, LineIsLast
  <2>5. CASE v # w
    BY <1>4, <1>10, <2>2, <2>3, <2>4, <2>5
  <2>6. CASE v = w
    <3>1. q # r /\ q \in Readers(w) \ {r}
      BY <1>7, <2>2, <2>3, <2>4, <2>6
    <3>2. Cardinality(Readers(w) \ {r}) # 0
      BY <1>16, <3>1, FS_RemoveElement, FS_EmptySet
    <3>3. LastLine(w)' = LastLine(w)
      <4>1. CASE inbox[w] # <<>>
        BY <1>4, <4>1 DEF LastLine
      <4>2. CASE inbox[w] = <<>>
        <5>1. in = 0
          BY <1>18, <4>2
        <5>2. out # 1 /\ out # 0 /\ out \in Nat
          <6> HIDE DEF out, in
          <6>. QED BY <1>16, <1>17, <1>18, <3>2, <5>1
        <5>3. Tail(outbox[w])[Len(Tail(outbox[w]))] = outbox[w][Len(outbox[w])]
          BY <1>4, <1>8, <5>2, TailLast
        <5>. QED BY <1>4, <1>9, <4>2, <5>3 DEF LastLine
      <4>. QED BY <4>1, <4>2
    <3>. QED BY <1>4, <1>9, <2>2, <2>3, <2>4, <2>6, <3>1, <3>3
  <2>. QED BY <2>5, <2>6
<1>21. AnswersBelong'
  <2>1. CASE asker = {}
    BY <1>4, <1>5, <2>1 DEF HostInv, AnswersBelong
  <2>2. CASE asker # {} /\ r \in crowded
    BY <1>1, <1>4, <1>5, <2>2 DEF HostInv, AnswersBelong
  <2>3. CASE asker # {} /\ r \notin crowded
    <3>1. PICK c \in asker : Asking(c, w) /\ doing[c].request = r
      BY <1>7, <2>3
    <3>2. waiting[w] \subseteq {r} /\ LastLine(w) = r
      BY <2>3, <3>1 DEF HostInv, LineIsLast
    <3>3. Readers(w) = {r}
      BY <1>2, <3>2 DEF Readers
    <3>4. Cardinality(Readers(w)) = 1
      BY <3>3, FS_Singleton
    <3>5. in = 0 /\ out = 1
      <4> HIDE DEF out, in
      <4>. QED BY <1>17, <1>18, <3>4
    <3>6. Head(outbox[w]) = r
      BY <1>8, <1>18, <3>2, <3>5 DEF LastLine
    <3>. QED BY <1>1, <1>4, <1>5, <2>3, <3>6 DEF HostInv, AnswersBelong
  <2>. QED BY <2>1, <2>2, <2>3
<1>. QED BY <1>12, <1>14, <1>15, <1>19, <1>20, <1>21 DEF HostInv

\* Every step of the host and its worker keeps the invariant.
LEMMA HostKeeps ==
    ASSUME HostInv, [HostNext]_hostVars
    PROVE  HostInv'
<1>1. CASE UNCHANGED hostVars
  <2>1. UNCHANGED pipes /\ UNCHANGED doing
    BY <1>1 DEF hostVars, pipes
  <2>2. LinesPending' /\ LineIsLast' /\ AnswersBelong'
    BY <2>1, PipesKept
  <2>3. HostTypeOK' /\ Asks' /\ OneHolder'
    BY <1>1 DEF hostVars, HostInv, HostTypeOK, Asks, OneHolder, Asking
  <2>. QED BY <2>2, <2>3 DEF HostInv
<1>. QED
  BY <1>1, ModuleStartKeeps, ChoiceKeeps, WriteKeeps, AnswerKeeps, ReadKeeps, ReaderKeeps, HostStopKeeps
  DEF HostNext

\* It holds at first.
LEMMA HostStarts == HostInit => HostInv
<1> SUFFICES ASSUME HostInit PROVE HostInv
  OBVIOUS
<1>1. \A w \in Worker : Readers(w) = {}
  BY DEF HostInit, Readers
<1>2. 0 \in 0 .. MaxStarts /\ 0 \in 0 .. MaxRequests /\ MaxRequests \in Nat
  BY HostAssumption
<1>3. HostTypeOK
  <2>1. doing \in [Caller -> Deed]
    BY Deeds DEF HostInit
  <2>2. sent \in Seq(Worker) /\ Len(sent) <= MaxRequests
    BY <1>2 DEF HostInit
  <2>3. inbox \in [Worker -> Seq(Request)] /\ outbox \in [Worker -> Seq(Request)]
    BY EmptySeq DEF HostInit
  <2>4. stopper \in [at : {"no", "popped", "asked"}, worker : 0 .. MaxStarts]
    BY <1>2 DEF HostInit
  <2>5. /\ life \in [Worker -> {"none", "starting", "ready", "dead"}]
        /\ running \in 0 .. MaxStarts /\ quarantined \in BOOLEAN
        /\ locked \subseteq Worker /\ crowded \subseteq Request
    BY <1>2 DEF HostInit
  <2>6. /\ reading \in [Worker -> 0 .. MaxRequests] /\ waiting \in [Worker -> SUBSET Request]
        /\ got \in [Request -> 0 .. MaxRequests]
    BY <1>2 DEF HostInit
  <2>. QED BY <2>1, <2>2, <2>3, <2>4, <2>5, <2>6 DEF HostTypeOK
<1>4. Asks /\ OneHolder /\ LineIsLast /\ AnswersBelong
  BY DEF HostInit, AtRest, Asks, OneHolder, Asking, LineIsLast, AnswersBelong
<1>5. LinesPending
  <2>1. \A w \in Worker : Len(outbox[w]) = 0 /\ Len(inbox[w]) = 0
    BY DEF HostInit
  <2>2. \A w \in Worker : reading[w] \notin waiting[w]
    BY DEF HostInit
  <2>3. 0 + 0 = 0 /\ Cardinality({}) = 0
    BY FS_EmptySet
  <2>. QED BY <1>1, <2>1, <2>2, <2>3 DEF LinesPending
<1>. QED BY <1>3, <1>4, <1>5 DEF HostInv

-----------------------------------------------------------------------------
(* The installer of Ollama.                                                  *)

\* A refusal is heard as long as the archive is not complete: the thread that
\* fetches it is the only one, a server of the user's own copy cannot be started
\* before there is a copy, and so nobody takes the signal back.
RefusalHeard ==
    /\ installer \in {"fetch", "check", "unpack"} => ~binary
    /\ decision = "install" => ~declined
    /\ installer \in {"fetch", "check"} /\ declined => stopEvent

ProviderInv == ProviderTypeOK /\ RefusalHeard /\ ProviderSettled

\* Every step of the installer keeps the invariant.
LEMMA ProviderKeeps ==
    ASSUME ProviderInv, [ProviderNext]_providerVars
    PROVE  ProviderInv'
<1> USE DEF ProviderInv
<1>1. ASSUME PollStatus \/ Lapse \/ StatusReady
      PROVE  ProviderInv'
  BY <1>1 DEF PollStatus, AskServer, Lapse, StatusReady, ProviderTypeOK, RefusalHeard,
              ProviderSettled, Busy
<1>2. CASE StatusInstalled
  <2>1. ProviderTypeOK'
    <3>1. CASE UNCHANGED <<stopEvent, state, starter>>
      BY <1>2, <3>1 DEF StatusInstalled, ProviderTypeOK
    <3>2. CASE stopEvent' = FALSE /\ state' = "starting" /\ starter' = "start"
      BY <1>2, <3>2 DEF StatusInstalled, ProviderTypeOK, Busy
    <3>. QED BY <1>2, <3>1, <3>2 DEF StatusInstalled, EnsureServer
  <2>2. RefusalHeard' /\ ProviderSettled'
    BY <1>2 DEF StatusInstalled, EnsureServer, RefusalHeard, ProviderSettled, Busy
  <2>. QED BY <2>1, <2>2
<1>3. CASE StatusMissing
  <2>1. ProviderTypeOK'
    <3>1. CASE UNCHANGED <<stopEvent, state, installer>>
      BY <1>3, <3>1 DEF StatusMissing, ProviderTypeOK
    <3>2. CASE stopEvent' = FALSE /\ state' = "downloading" /\ installer' = "fetch"
      BY <1>3, <3>2 DEF StatusMissing, ProviderTypeOK, Busy
    <3>. QED BY <1>3, <3>1, <3>2 DEF StatusMissing
  <2>2. RefusalHeard' /\ ProviderSettled'
    BY <1>3 DEF StatusMissing, RefusalHeard, ProviderSettled, Busy
  <2>. QED BY <2>1, <2>2
<1>4. ASSUME NEW reply \in {"install", "later", "never"}, Respond(reply)
      PROVE  ProviderInv'
  <2>1. decisions' \in 0 .. MaxDecisions
    BY <1>4, ProviderAssumption DEF Respond, ProviderTypeOK
  <2>2. ProviderTypeOK'
    BY <1>4, <2>1 DEF Respond, AskServer, ProviderTypeOK, Busy
  <2>3. RefusalHeard' /\ ProviderSettled'
    BY <1>4 DEF Respond, ProviderTypeOK, RefusalHeard, ProviderSettled, Busy
  <2>. QED BY <2>2, <2>3
<1>5. ASSUME InstallFails \/ DownloadBlock \/ DownloadEnds \/ CheckStop \/ PublishRelease
      PROVE  ProviderInv'
  <2>1. CASE InstallFails
    BY <2>1 DEF InstallFails, ProviderTypeOK, RefusalHeard, ProviderSettled, Busy
  <2>2. CASE DownloadBlock
    BY <2>2 DEF DownloadBlock, ProviderTypeOK, RefusalHeard, ProviderSettled, Busy
  <2>3. CASE DownloadEnds
    BY <2>3 DEF DownloadEnds, ProviderTypeOK, RefusalHeard, ProviderSettled, Busy
  <2>4. CASE CheckStop
    <3>1. ProviderTypeOK'
      BY <2>4 DEF CheckStop, ProviderTypeOK, Busy
    <3>2. RefusalHeard' /\ ProviderSettled'
      BY <2>4 DEF CheckStop, RefusalHeard, ProviderSettled, Busy
    <3>. QED BY <3>1, <3>2
  <2>5. CASE PublishRelease
    BY <2>5 DEF PublishRelease, ProviderTypeOK, RefusalHeard, ProviderSettled, Busy
  <2>. QED BY <1>5, <2>1, <2>2, <2>3, <2>4, <2>5
<1>6. ASSUME NEW t \in Thread, StartServer(t)
      PROVE  ProviderInv'
  <2>1. ProviderTypeOK'
    BY <1>6 DEF StartServer, Finished, Phase, Thread, ProviderTypeOK, Server, Busy
  <2>2. RefusalHeard' /\ ProviderSettled'
    BY <1>6 DEF StartServer, Finished, Phase, Thread, ProviderTypeOK, RefusalHeard,
                ProviderSettled, Busy
  <2>. QED BY <2>1, <2>2
<1>7. ASSUME NEW t \in Thread, WaitServer(t)
      PROVE  ProviderInv'
  BY <1>7 DEF WaitServer, Finished, Phase, Thread, ProviderTypeOK, RefusalHeard,
              ProviderSettled, Busy
<1>8. ASSUME NEW i \in Server, ServerMoves(i)
      PROVE  ProviderInv'
  BY <1>8 DEF ServerMoves, ProviderTypeOK, RefusalHeard, ProviderSettled
<1>9. CASE ForeignMoves
  <2>1. outages' \in 0 .. MaxOutages
    BY <1>9, ProviderAssumption DEF ForeignMoves, ProviderTypeOK
  <2>. QED BY <1>9, <2>1 DEF ForeignMoves, ProviderTypeOK, RefusalHeard, ProviderSettled
<1>10. CASE StopProvider
  <2>1. outages' \in 0 .. MaxOutages
    BY <1>10, ProviderAssumption DEF StopProvider, ProviderTypeOK
  <2>. QED BY <1>10, <2>1 DEF StopProvider, ProviderTypeOK, RefusalHeard, ProviderSettled
<1>11. CASE TerminateServer
  <2>1. owned' \in 0 .. MaxServers
    BY <1>11, ProviderAssumption DEF TerminateServer
  <2>. QED BY <1>11, <2>1 DEF TerminateServer, ProviderTypeOK, RefusalHeard, ProviderSettled
<1>12. CASE ProviderRestart
  <2>1. owned' \in 0 .. MaxServers /\ outages' \in 0 .. MaxOutages
    BY <1>12, ProviderAssumption DEF ProviderRestart, ProviderTypeOK
  <2>. QED BY <1>12, <2>1 DEF ProviderRestart, ProviderTypeOK, RefusalHeard, ProviderSettled, Busy
<1>13. CASE UNCHANGED providerVars
  BY <1>13 DEF providerVars, ProviderTypeOK, RefusalHeard, ProviderSettled
<1>. QED
  BY <1>1, <1>2, <1>3, <1>4, <1>5, <1>6, <1>7, <1>8, <1>9, <1>10, <1>11, <1>12, <1>13
  DEF ProviderNext

\* It holds at first.
LEMMA ProviderStarts == ProviderInit => ProviderInv
<1> SUFFICES ASSUME ProviderInit PROVE ProviderInv
  OBVIOUS
<1>1. owned \in 0 .. MaxServers /\ decisions \in 0 .. MaxDecisions /\ outages \in 0 .. MaxOutages
  BY ProviderAssumption DEF ProviderInit
<1>2. ProviderTypeOK
  BY <1>1 DEF ProviderInit, ProviderTypeOK, Busy
<1>. QED BY <1>2 DEF ProviderInit, ProviderInv, RefusalHeard, ProviderSettled, Busy

-----------------------------------------------------------------------------
(* The models of Ollama.                                                     *)

\* A thread was started on the user's word, or for a base model that vanished.
Consented ==
    /\ \A m \in Model : puller[m] # "none" => m \in agreed \/ (m = Base /\ m \in unseen)
    /\ ensuring => Present(Base) \/ Base \in unseen

\* Who is past the lifecycle lock holds it, and only who works reports progress.
LockHeld ==
    /\ \A m \in Model : puller[m] \in {"check", "pull", "end"} => lifecycle = m
    /\ \A m \in Model : status[m] = "downloading" => lifecycle = m
    /\ \A m \in Model : puller[m] = "none" => status[m] \notin {"starting", "downloading"}

ModelInv == ModelTypeOK /\ Consented /\ LockHeld

\* What a look at one model, or an answer about it, keeps.
LEMMA ViewKeeps ==
    ASSUME ModelInv, NEW m \in Model, NEW word,
           Ensure(m, word), word = "download" \/ (m = Base /\ m \in unseen) \/ Present(m),
           UNCHANGED <<reachable, stored, lifecycle, unseen>>
    PROVE  /\ status' \in [Model -> {"checking", "starting", "downloading", "ready",
                                     "unavailable", "error"}]
           /\ puller' \in [Model -> {"none", "wait", "check", "pull", "end"}]
           /\ agreed' \subseteq Model
           /\ \A o \in Model : puller'[o] # "none" => o \in agreed' \/ (o = Base /\ o \in unseen)
           /\ LockHeld'
  BY DEF Ensure, ModelInv, ModelTypeOK, Consented, LockHeld

\* Every step of the catalog keeps the invariant.
LEMMA ModelKeeps ==
    ASSUME ModelInv, [ModelNext]_modelVars
    PROVE  ModelInv'
<1> USE DEF ModelInv
<1>1. ASSUME NEW m \in Model, ReadCatalog(m)
      PROVE  ModelInv'
  <2>1. CASE ~Present(m) /\ wish[m] = "download"
    <3>1. Ensure(m, wish[m])
      BY <1>1, <2>1 DEF ReadCatalog, View
    <3>2. UNCHANGED <<reachable, stored, wish, lifecycle, ensuring, unseen, words, mishaps>>
      BY <1>1 DEF ReadCatalog
    <3>3. /\ status' \in [Model -> {"checking", "starting", "downloading", "ready",
                                     "unavailable", "error"}]
          /\ puller' \in [Model -> {"none", "wait", "check", "pull", "end"}]
          /\ agreed' \subseteq Model
          /\ \A o \in Model : puller'[o] # "none" => o \in agreed' \/ (o = Base /\ o \in unseen)
          /\ LockHeld'
      BY <2>1, <3>1, <3>2, ViewKeeps
    <3>. QED BY <3>2, <3>3 DEF ModelTypeOK, Consented, Present
  <2>2. CASE Present(m) \/ wish[m] # "download"
    BY <1>1, <2>2 DEF ReadCatalog, View, ModelTypeOK, Consented, LockHeld, Present
  <2>. QED BY <2>1, <2>2
<1>2. ASSUME NEW m \in Model, NEW word \in {"download", "later", "never"}, RespondModel(m, word)
      PROVE  ModelInv'
  <2>1. UNCHANGED <<reachable, stored, lifecycle, ensuring, unseen, mishaps>>
    BY <1>2 DEF RespondModel
  <2>2. words' \in 0 .. MaxWords
    BY <1>2, ModelAssumption DEF RespondModel, ModelTypeOK
  <2>3. wish' \in [Model -> {"unset", "download", "later", "lapsed", "never"}]
    BY <1>2 DEF RespondModel, ModelTypeOK
  <2>4. CASE ~Present(m) /\ word = "download"
    <3>1. Ensure(m, word)
      BY <1>2, <2>4 DEF RespondModel, View
    <3>2. /\ status' \in [Model -> {"checking", "starting", "downloading", "ready",
                                     "unavailable", "error"}]
          /\ puller' \in [Model -> {"none", "wait", "check", "pull", "end"}]
          /\ agreed' \subseteq Model
          /\ \A o \in Model : puller'[o] # "none" => o \in agreed' \/ (o = Base /\ o \in unseen)
          /\ LockHeld'
      BY <2>1, <2>4, <3>1, ViewKeeps
    <3>. QED BY <2>1, <2>2, <2>3, <3>2 DEF ModelTypeOK, Consented, Present
  <2>5. CASE Present(m) \/ word # "download"
    <3>1. UNCHANGED <<status, puller, agreed>>
      BY <1>2, <2>5 DEF RespondModel, View
    <3>. QED BY <2>1, <2>2, <2>3, <3>1 DEF ModelTypeOK, Consented, LockHeld, Present
  <2>. QED BY <2>4, <2>5
<1>3. CASE EnsureBase
  <2>0. Base \in Model
    BY ModelAssumption
  <2>1. CASE Present(Base)
    BY <1>3, <2>1 DEF EnsureBase, ModelTypeOK, Consented, LockHeld, Present
  <2>2. CASE ~Present(Base) /\ wish[Base] = "download"
    <3>1. Ensure(Base, wish[Base])
      BY <1>3, <2>2 DEF EnsureBase, View
    <3>2. UNCHANGED <<reachable, stored, wish, lifecycle, ensuring, unseen, words, mishaps>>
      BY <1>3, <2>2 DEF EnsureBase
    <3>3. /\ status' \in [Model -> {"checking", "starting", "downloading", "ready",
                                     "unavailable", "error"}]
          /\ puller' \in [Model -> {"none", "wait", "check", "pull", "end"}]
          /\ agreed' \subseteq Model
          /\ \A o \in Model : puller'[o] # "none" => o \in agreed' \/ (o = Base /\ o \in unseen)
          /\ LockHeld'
      BY <2>0, <2>2, <3>1, <3>2, ViewKeeps
    <3>. QED BY <3>2, <3>3 DEF ModelTypeOK, Consented, Present
  <2>3. CASE ~Present(Base) /\ wish[Base] # "download"
    BY <1>3, <2>3 DEF EnsureBase, View, ModelTypeOK, Consented, LockHeld, Present
  <2>. QED BY <2>1, <2>2, <2>3
<1>4. CASE EnsureSeen
  <2>0. Base \in Model /\ (Present(Base) \/ Base \in unseen)
    BY <1>4, ModelAssumption DEF EnsureSeen, Consented
  <2>1. UNCHANGED <<reachable, stored, wish, lifecycle, unseen, words, mishaps>> /\ ~ensuring'
    BY <1>4 DEF EnsureSeen
  <2>2. /\ status' \in [Model -> {"checking", "starting", "downloading", "ready",
                                   "unavailable", "error"}]
        /\ puller' \in [Model -> {"none", "wait", "check", "pull", "end"}]
        /\ agreed' \subseteq Model
        /\ \A o \in Model : puller'[o] # "none" => o \in agreed' \/ (o = Base /\ o \in unseen)
        /\ LockHeld'
    BY <1>4, <2>0, <2>1, ViewKeeps DEF EnsureSeen
  <2>. QED BY <1>4, <2>1, <2>2 DEF EnsureSeen, ModelTypeOK, Consented
<1>5. ASSUME NEW m \in Model, WishLapses(m) \/ TakeLifecycle(m)
      PROVE  ModelInv'
  BY <1>5, ModelAssumption DEF WishLapses, TakeLifecycle, ModelTypeOK, Consented, LockHeld, Present
<1>6. ASSUME NEW m \in Model, CheckServer(m)
      PROVE  ModelInv'
  BY <1>6, ModelAssumption DEF CheckServer, Leave, ModelTypeOK, Consented, LockHeld, Present
<1>7. ASSUME NEW m \in Model, Pulled(m)
      PROVE  ModelInv'
  BY <1>7, ModelAssumption DEF Pulled, Leave, ModelTypeOK, Consented, LockHeld, Present
<1>8. ASSUME NEW m \in Model, LastLook(m)
      PROVE  ModelInv'
  BY <1>8, ModelAssumption DEF LastLook, Leave, ModelTypeOK, Consented, LockHeld, Present
<1>9. ASSUME NEW m \in Model, ModelRemoved(m)
      PROVE  ModelInv'
  <2>1. mishaps' \in 0 .. MaxMishaps
    BY <1>9, ModelAssumption DEF ModelRemoved, ModelTypeOK
  <2>. QED BY <1>9, <2>1 DEF ModelRemoved, ModelTypeOK, Consented, LockHeld, Present
<1>10. CASE ServerChanges
  <2>1. mishaps' \in 0 .. MaxMishaps
    BY <1>10, ModelAssumption DEF ServerChanges, ModelTypeOK
  <2>. QED BY <1>10, <2>1 DEF ServerChanges, ModelTypeOK, Consented, LockHeld, Present
<1>11. CASE CatalogRestart
  <2>1. mishaps' \in 0 .. MaxMishaps
    BY <1>11, ModelAssumption DEF CatalogRestart, ModelTypeOK
  <2>. QED BY <1>11, <2>1 DEF CatalogRestart, ModelTypeOK, Consented, LockHeld, Present
<1>12. CASE UNCHANGED modelVars
  BY <1>12 DEF modelVars, ModelTypeOK, Consented, LockHeld, Present
<1>. QED
  BY <1>1, <1>2, <1>3, <1>4, <1>5, <1>6, <1>7, <1>8, <1>9, <1>10, <1>11, <1>12 DEF ModelNext

\* It holds at first.
LEMMA ModelStarts == ModelInit => ModelInv
<1> SUFFICES ASSUME ModelInit PROVE ModelInv
  OBVIOUS
<1>1. words \in 0 .. MaxWords /\ mishaps \in 0 .. MaxMishaps
  BY ModelAssumption DEF ModelInit
<1>. QED BY <1>1 DEF ModelInit, ModelInv, ModelTypeOK, Consented, LockHeld

\* The lock belongs to one thread, so one model at most is pulled.
LEMMA OnePull == ModelInv => ModelsConsented
<1> SUFFICES ASSUME ModelInv PROVE ModelsConsented
  OBVIOUS
<1> DEFINE Pulling == {m \in Model : puller[m] \in {"check", "pull", "end"}}
<1>1. Pulling \subseteq {lifecycle}
  BY DEF ModelInv, LockHeld
<1>2. IsFiniteSet({lifecycle}) /\ Cardinality({lifecycle}) = 1
  BY FS_Singleton
<1>3. Cardinality(Pulling) <= 1
  <2> HIDE DEF Pulling
  <2>. QED BY <1>1, <1>2, FS_Subset
<1>4. \A m \in Model : puller[m] = "pull" /\ m \notin agreed => m = Base /\ m \in unseen
  BY DEF ModelInv, Consented
<1>5. \A m \in Model : /\ puller[m] = "none" => status[m] \notin {"starting", "downloading"}
                       /\ status[m] = "downloading" => lifecycle = m
  BY DEF ModelInv, LockHeld
<1>. QED BY <1>3, <1>4, <1>5 DEF ModelsConsented

-----------------------------------------------------------------------------
(* The processes of the modules together.                                    *)

WorkersInv == HostInv /\ ProviderInv /\ ModelInv

\* The inductive invariants of the host, of the installer and of the catalog hold
\* in every state: none of them touches what another one speaks of.
THEOREM WorkersInvariant == WorkersSpec => []WorkersInv
<1>1. WorkersInit => WorkersInv
  BY HostStarts, ProviderStarts, ModelStarts DEF WorkersInit, WorkersInv
<1>2. WorkersInv /\ [WorkersNext]_workersVars => WorkersInv'
  <2>1. [WorkersNext]_workersVars =>
            [HostNext]_hostVars /\ [ProviderNext]_providerVars /\ [ModelNext]_modelVars
    BY DEF WorkersNext, workersVars
  <2>. QED BY <2>1, HostKeeps, ProviderKeeps, ModelKeeps DEF WorkersInv
<1>. QED BY <1>1, <1>2, PTL DEF WorkersSpec

\* Every variable of theirs keeps its type, whatever the bounds are.
THEOREM WorkersTypeCorrect == WorkersSpec => [](HostTypeOK /\ ProviderTypeOK /\ ModelTypeOK)
<1>1. WorkersInv => HostTypeOK /\ ProviderTypeOK /\ ModelTypeOK
  BY DEF WorkersInv, HostInv, ProviderInv, ModelInv
<1>. QED BY <1>1, WorkersInvariant, PTL

\* For any number of callers, workers, servers and models: an answer goes to its
\* request unless that one was crowded, a refused installation does not happen,
\* and weights are pulled one at a time and with the user's consent.
THEOREM WorkersServeAlways == WorkersSpec => []WorkersServe
<1>1. WorkersInv => WorkersServe
  BY OnePull DEF WorkersInv, HostInv, ProviderInv, WorkersServe
<1>. QED BY <1>1, WorkersInvariant, PTL

-----------------------------------------------------------------------------
(* The gate of the requests.                                                 *)

\* The request in hand has reached what it may reach now: nothing that decides
\* about it changes before it is answered.
RequestDecided ==
    \/ last = NoRequest
    \/ \E path \in OpenPaths \cup GuardedPaths : \E p \in Payloads(path) :
          last = [path |-> path, payload |-> p, reached |-> Reached(path, p)]

\* What is let through for a removal by its first confirmation, and for what
\* has started.
FirstGiven == {[capability |-> "software.remove.commit", final |-> FALSE]}

Installed ==
    \/ given = {[capability |-> "software.install.commit", final |-> FALSE]}
    \/ given = {[capability |-> "software.backup.restore", final |-> FALSE]}
Removed == given = [capability : {"software.remove.commit"}, final : BOOLEAN]

\* What was let through for a task is what its state says, no more and no less.
GivenMatches ==
    /\ task.state = "awaiting_confirmation" => given = {}
    /\ task.state = "awaiting_final_confirmation" => task.action = "remove" /\ given = FirstGiven
    /\ task.state = "started" => \/ task.action = "install" /\ Installed
                                 \/ task.action = "remove" /\ Removed

GateInv == GateTypeOK /\ RequestDecided /\ GivenMatches

\* There is a policy with the arguments and a rule for the phase.
Has(capability, required, allowed, phase, transports, scopes, approval) ==
    \E policy \in builtin_policies :
        /\ policy.capability = capability
        /\ policy.required = required
        /\ policy.allowed = allowed
        /\ Rule(phase, transports, scopes, approval) \in policy.phases

\* What a policy allows: an invocation with the arguments it names, over the
\* transports of the rule.
LEMMA Allows ==
    ASSUME NEW capability, NEW required, NEW allowed, NEW phase, NEW transports, NEW scopes,
           NEW approval, Has(capability, required, allowed, phase, transports, scopes, approval),
           NEW over, over \in transports, NEW approved, approval => approved,
           NEW arguments, required \subseteq arguments, arguments \subseteq allowed
    PROVE  /\ Allowed(capability, phase, over, approved, scopes, arguments, TRUE)
           /\ \E rule \in RulesFor(capability, phase) :
                 Allowed(capability, phase, over, approved, rule.scopes, arguments, TRUE)
<1>. DEFINE rule == Rule(phase, transports, scopes, approval)
<1>1. PICK policy \in builtin_policies :
         /\ policy.capability = capability
         /\ policy.required = required
         /\ policy.allowed = allowed
         /\ rule \in policy.phases
  BY DEF Has
<1>2. /\ rule.phase = phase /\ rule.transports = transports /\ rule.scopes = scopes
      /\ rule.approval = approval
  BY DEF Rule
<1>. HIDE DEF rule
<1>3. \E r \in policy.phases :
         /\ r.phase = phase
         /\ over \in r.transports
         /\ r.approval => approved
         /\ r.scopes \subseteq scopes
  BY <1>1, <1>2
<1>4. Allowed(capability, phase, over, approved, scopes, arguments, TRUE)
  BY <1>1, <1>3 DEF Allowed
<1>5. rule \in RulesFor(capability, phase)
  BY <1>1, <1>2 DEF RulesFor
<1>. QED BY <1>2, <1>4, <1>5

\* The policies of the capabilities that the application asks the gateway about.
LEMMA SoftwareRows ==
    /\ Has("software.install.prepare", {"application_id"},
           {"application_id", "locale", "install_location", "selected_options"},
           "prepare", SecureWriteTransports, Manage, FALSE)
    /\ Has("software.remove.prepare", {"application_id", "create_backup"},
           {"application_id", "create_backup"}, "prepare", SecureWriteTransports, Manage, FALSE)
    /\ Has("software.install.commit", {"task_id"}, {"task_id"},
           "commit", SecureWriteTransports, Manage, TRUE)
    /\ Has("software.remove.commit", {"task_id", "final_confirmation"},
           {"task_id", "final_confirmation"}, "commit", SecureWriteTransports, Manage, TRUE)
    /\ Has("software.tasks.control", {"task_id", "action"}, {"task_id", "action"},
           "execute", SecureWriteTransports, Manage, FALSE)
    /\ Has("software.backup.restore", {"backup_id"}, {"backup_id"},
           "commit", SecureWriteTransports, Manage, TRUE)
<1>1. Has("software.install.prepare", {"application_id"},
          {"application_id", "locale", "install_location", "selected_options"},
          "prepare", SecureWriteTransports, Manage, FALSE)
  <2>. DEFINE policy == PrepareOnly("software.install.prepare", {"application_id"},
                            {"locale", "install_location", "selected_options"}, Manage)
  <2>1. policy \in builtin_policies
    BY DEF builtin_policies, SoftwarePolicies
  <2>2. /\ policy.capability = "software.install.prepare"
        /\ policy.required = {"application_id"}
        /\ policy.allowed = {"application_id", "locale", "install_location", "selected_options"}
        /\ Rule("prepare", SecureWriteTransports, Manage, FALSE) \in policy.phases
    BY DEF PrepareOnly, Policy
  <2>. QED BY <2>1, <2>2 DEF Has
<1>2. Has("software.remove.prepare", {"application_id", "create_backup"},
          {"application_id", "create_backup"}, "prepare", SecureWriteTransports, Manage, FALSE)
  <2>. DEFINE policy == PrepareOnly("software.remove.prepare", {"application_id", "create_backup"},
                            {}, Manage)
  <2>1. policy \in builtin_policies
    BY DEF builtin_policies, SoftwarePolicies
  <2>2. /\ policy.capability = "software.remove.prepare"
        /\ policy.required = {"application_id", "create_backup"}
        /\ policy.allowed = {"application_id", "create_backup"}
        /\ Rule("prepare", SecureWriteTransports, Manage, FALSE) \in policy.phases
    BY DEF PrepareOnly, Policy
  <2>. QED BY <2>1, <2>2 DEF Has
<1>3. Has("software.install.commit", {"task_id"}, {"task_id"},
          "commit", SecureWriteTransports, Manage, TRUE)
  <2>. DEFINE policy == CommitOnly("software.install.commit", {"task_id"}, Manage)
  <2>1. policy \in builtin_policies
    BY DEF builtin_policies, SoftwarePolicies
  <2>2. /\ policy.capability = "software.install.commit"
        /\ policy.required = {"task_id"}
        /\ policy.allowed = {"task_id"}
        /\ Rule("commit", SecureWriteTransports, Manage, TRUE) \in policy.phases
    BY DEF CommitOnly, Policy
  <2>. QED BY <2>1, <2>2 DEF Has
<1>4. Has("software.remove.commit", {"task_id", "final_confirmation"}, {"task_id", "final_confirmation"},
          "commit", SecureWriteTransports, Manage, TRUE)
  <2>. DEFINE policy == CommitOnly("software.remove.commit", {"task_id", "final_confirmation"}, Manage)
  <2>1. policy \in builtin_policies
    BY DEF builtin_policies, SoftwarePolicies
  <2>2. /\ policy.capability = "software.remove.commit"
        /\ policy.required = {"task_id", "final_confirmation"}
        /\ policy.allowed = {"task_id", "final_confirmation"}
        /\ Rule("commit", SecureWriteTransports, Manage, TRUE) \in policy.phases
    BY DEF CommitOnly, Policy
  <2>. QED BY <2>1, <2>2 DEF Has
<1>5. Has("software.tasks.control", {"task_id", "action"}, {"task_id", "action"},
          "execute", SecureWriteTransports, Manage, FALSE)
  <2>. DEFINE policy == Policy("software.tasks.control", {"task_id", "action"}, {},
                            {Rule("execute", SecureWriteTransports, Manage, FALSE)})
  <2>1. policy \in builtin_policies
    BY DEF builtin_policies, SoftwarePolicies
  <2>2. /\ policy.capability = "software.tasks.control"
        /\ policy.required = {"task_id", "action"}
        /\ policy.allowed = {"task_id", "action"}
        /\ Rule("execute", SecureWriteTransports, Manage, FALSE) \in policy.phases
    BY DEF Policy
  <2>. QED BY <2>1, <2>2 DEF Has
<1>6. Has("software.backup.restore", {"backup_id"}, {"backup_id"},
          "commit", SecureWriteTransports, Manage, TRUE)
  <2>. DEFINE policy == CommitOnly("software.backup.restore", {"backup_id"}, Manage)
  <2>1. policy \in builtin_policies
    BY DEF builtin_policies, SoftwarePolicies
  <2>2. /\ policy.capability = "software.backup.restore"
        /\ policy.required = {"backup_id"}
        /\ policy.allowed = {"backup_id"}
        /\ Rule("commit", SecureWriteTransports, Manage, TRUE) \in policy.phases
    BY DEF CommitOnly, Policy
  <2>. QED BY <2>1, <2>2 DEF Has
<1>. QED BY <1>1, <1>2, <1>3, <1>4, <1>5, <1>6

LEMMA SecurityRows ==
    /\ Has("security.files.scan", {"resource_id", "relative_path"},
           {"resource_id", "relative_path"}, "execute", AllLocalTransports, FindingScopes, FALSE)
    /\ Has("security.scan.run", {"resource_id", "mode"}, {"resource_id", "mode", "relative_path"},
           "execute", AllLocalTransports, FindingScopes, FALSE)
    /\ \E scopes : Has("security.quarantine.prepare", {"finding_id"}, {"finding_id"},
                       "prepare", SecureWriteTransports, scopes, FALSE)
    /\ \E scopes : Has("security.quarantine.commit", {"quarantine_id"}, {"quarantine_id"},
                       "commit", SecureWriteTransports, scopes, TRUE)
    /\ \E scopes : Has("security.quarantine.restore", {"quarantine_id"}, {"quarantine_id"},
                       "commit", SecureWriteTransports, scopes, TRUE)
<1>1. Has("security.files.scan", {"resource_id", "relative_path"}, {"resource_id", "relative_path"},
          "execute", AllLocalTransports, FindingScopes, FALSE)
  <2>. DEFINE policy == ReadOnly("security.files.scan", {"resource_id", "relative_path"}, {},
                            FindingScopes)
  <2>1. policy \in builtin_policies
    BY DEF builtin_policies, ScanPolicies
  <2>2. /\ policy.capability = "security.files.scan"
        /\ policy.required = {"resource_id", "relative_path"}
        /\ policy.allowed = {"resource_id", "relative_path"}
        /\ Rule("execute", AllLocalTransports, FindingScopes, FALSE) \in policy.phases
    BY DEF ReadOnly, Policy
  <2>. QED BY <2>1, <2>2 DEF Has
<1>2. Has("security.scan.run", {"resource_id", "mode"}, {"resource_id", "mode", "relative_path"},
          "execute", AllLocalTransports, FindingScopes, FALSE)
  <2>. DEFINE policy == ReadOnly("security.scan.run", {"resource_id", "mode"}, {"relative_path"},
                            FindingScopes)
  <2>1. policy \in builtin_policies
    BY DEF builtin_policies, ScanPolicies
  <2>2. /\ policy.capability = "security.scan.run"
        /\ policy.required = {"resource_id", "mode"}
        /\ policy.allowed = {"resource_id", "mode", "relative_path"}
        /\ Rule("execute", AllLocalTransports, FindingScopes, FALSE) \in policy.phases
    BY DEF ReadOnly, Policy
  <2>. QED BY <2>1, <2>2 DEF Has
<1>3. Has("security.quarantine.prepare", {"finding_id"}, {"finding_id"},
          "prepare", SecureWriteTransports, Metadata \cup Content \cup {"security.read-findings"}, FALSE)
  <2>. DEFINE policy == PrepareOnly("security.quarantine.prepare", {"finding_id"}, {},
                            Metadata \cup Content \cup {"security.read-findings"})
  <2>1. policy \in builtin_policies
    BY DEF builtin_policies, QuarantinePolicies
  <2>2. /\ policy.capability = "security.quarantine.prepare"
        /\ policy.required = {"finding_id"}
        /\ policy.allowed = {"finding_id"}
        /\ Rule("prepare", SecureWriteTransports, Metadata \cup Content \cup {"security.read-findings"}, FALSE) \in policy.phases
    BY DEF PrepareOnly, Policy
  <2>. QED BY <2>1, <2>2 DEF Has
<1>4. Has("security.quarantine.commit", {"quarantine_id"}, {"quarantine_id"},
          "commit", SecureWriteTransports, Metadata \cup Content \cup {"security.write-quarantine"}, TRUE)
  <2>. DEFINE policy == CommitOnly("security.quarantine.commit", {"quarantine_id"},
                            Metadata \cup Content \cup {"security.write-quarantine"})
  <2>1. policy \in builtin_policies
    BY DEF builtin_policies, QuarantinePolicies
  <2>2. /\ policy.capability = "security.quarantine.commit"
        /\ policy.required = {"quarantine_id"}
        /\ policy.allowed = {"quarantine_id"}
        /\ Rule("commit", SecureWriteTransports, Metadata \cup Content \cup {"security.write-quarantine"}, TRUE) \in policy.phases
    BY DEF CommitOnly, Policy
  <2>. QED BY <2>1, <2>2 DEF Has
<1>5. Has("security.quarantine.restore", {"quarantine_id"}, {"quarantine_id"},
          "commit", SecureWriteTransports, WriteContent \cup {"security.write-quarantine"}, TRUE)
  <2>. DEFINE policy == CommitOnly("security.quarantine.restore", {"quarantine_id"},
                            WriteContent \cup {"security.write-quarantine"})
  <2>1. policy \in builtin_policies
    BY DEF builtin_policies, QuarantinePolicies
  <2>2. /\ policy.capability = "security.quarantine.restore"
        /\ policy.required = {"quarantine_id"}
        /\ policy.allowed = {"quarantine_id"}
        /\ Rule("commit", SecureWriteTransports, WriteContent \cup {"security.write-quarantine"}, TRUE) \in policy.phases
    BY DEF CommitOnly, Policy
  <2>. QED BY <2>1, <2>2 DEF Has
<1>. QED BY <1>1, <1>2, <1>3, <1>4, <1>5

\* What a legitimate request over the socket asks of the gateway is allowed.
LEMMA SoftwareAllowed ==
    ASSUME transport = "unix_peer", NEW p, p.sound = TRUE
    PROVE  /\ AuthorizedSoftware("software.install.prepare", "prepare",
                  {"application_id", "locale", "install_location", "selected_options"}, FALSE, p)
           /\ AuthorizedSoftware("software.remove.prepare", "prepare",
                  {"application_id", "create_backup"}, FALSE, p)
           /\ AuthorizedSoftware("software.install.commit", "commit", {"task_id"}, TRUE, p)
           /\ AuthorizedSoftware("software.remove.commit", "commit",
                  {"task_id", "final_confirmation"}, TRUE, p)
           /\ AuthorizedSoftware("software.tasks.control", "execute", {"task_id", "action"}, FALSE, p)
           /\ AuthorizedSoftware("software.backup.restore", "commit", {"backup_id"}, TRUE, p)
<1>1. transport \in SecureWriteTransports
  BY DEF SecureWriteTransports
<1>2. Allowed("software.install.prepare", "prepare", transport, FALSE, Manage,
          {"application_id", "locale", "install_location", "selected_options"}, TRUE)
  <2>. DEFINE needed == {"application_id"}
              all == {"application_id", "locale", "install_location", "selected_options"}
  <2>1. needed \subseteq all /\ all \subseteq all
    OBVIOUS
  <2>2. Has("software.install.prepare", needed, all,
            "prepare", SecureWriteTransports, Manage, FALSE)
    BY SoftwareRows
  <2>. HIDE DEF needed, all
  <2>3. Allowed("software.install.prepare", "prepare", transport, FALSE, Manage, all, TRUE)
    BY <1>1, <2>1, <2>2, Allows
  <2>. QED BY <2>3 DEF all
<1>3. Allowed("software.remove.prepare", "prepare", transport, FALSE, Manage,
          {"application_id", "create_backup"}, TRUE)
  BY <1>1, SoftwareRows, Allows
<1>4. Allowed("software.install.commit", "commit", transport, TRUE, Manage, {"task_id"}, TRUE)
  BY <1>1, SoftwareRows, Allows
<1>5. Allowed("software.remove.commit", "commit", transport, TRUE, Manage,
          {"task_id", "final_confirmation"}, TRUE)
  BY <1>1, SoftwareRows, Allows
<1>6. Allowed("software.tasks.control", "execute", transport, FALSE, Manage,
          {"task_id", "action"}, TRUE)
  BY <1>1, SoftwareRows, Allows
<1>7. Allowed("software.backup.restore", "commit", transport, TRUE, Manage, {"backup_id"}, TRUE)
  BY <1>1, SoftwareRows, Allows
<1>. QED BY <1>2, <1>3, <1>4, <1>5, <1>6, <1>7 DEF AuthorizedSoftware

LEMMA SecurityAllowed ==
    ASSUME transport = "unix_peer", NEW p, p.sound = TRUE
    PROVE  /\ AuthorizedSecurity("security.files.scan", "execute",
                  {"resource_id", "relative_path"}, FALSE, p)
           /\ \A more \in SUBSET {"relative_path"} :
                 AuthorizedSecurity("security.scan.run", "execute",
                     {"resource_id", "mode"} \cup more, FALSE, p)
           /\ AuthorizedSecurity("security.quarantine.prepare", "prepare", {"finding_id"}, FALSE, p)
           /\ AuthorizedSecurity("security.quarantine.commit", "commit", {"quarantine_id"}, TRUE, p)
           /\ AuthorizedSecurity("security.quarantine.restore", "commit", {"quarantine_id"}, TRUE, p)
<1>1. transport \in SecureWriteTransports /\ transport \in AllLocalTransports
  BY DEF SecureWriteTransports, AllLocalTransports
<1>2. \E rule \in RulesFor("security.files.scan", "execute") :
         Allowed("security.files.scan", "execute", transport, FALSE, rule.scopes,
             {"resource_id", "relative_path"}, TRUE)
  BY <1>1, SecurityRows, Allows
<1>3. ASSUME NEW more \in SUBSET {"relative_path"}
      PROVE  \E rule \in RulesFor("security.scan.run", "execute") :
                Allowed("security.scan.run", "execute", transport, FALSE, rule.scopes,
                    {"resource_id", "mode"} \cup more, TRUE)
  <2>. DEFINE needed == {"resource_id", "mode"}
              asked == needed \cup more
              all == {"resource_id", "mode", "relative_path"}
  <2>1. needed \subseteq asked /\ asked \subseteq all
    OBVIOUS
  <2>2. Has("security.scan.run", needed, all,
            "execute", AllLocalTransports, FindingScopes, FALSE)
    BY SecurityRows
  <2>. HIDE DEF needed, asked, all
  <2>3. \E rule \in RulesFor("security.scan.run", "execute") :
           Allowed("security.scan.run", "execute", transport, FALSE, rule.scopes, asked, TRUE)
    BY <1>1, <2>1, <2>2, Allows
  <2>. QED BY <2>3 DEF needed, asked
<1>4. \E rule \in RulesFor("security.quarantine.prepare", "prepare") :
         Allowed("security.quarantine.prepare", "prepare", transport, FALSE, rule.scopes,
             {"finding_id"}, TRUE)
  BY <1>1, SecurityRows, Allows
<1>5. \E rule \in RulesFor("security.quarantine.commit", "commit") :
         Allowed("security.quarantine.commit", "commit", transport, TRUE, rule.scopes,
             {"quarantine_id"}, TRUE)
  BY <1>1, SecurityRows, Allows
<1>6. \E rule \in RulesFor("security.quarantine.restore", "commit") :
         Allowed("security.quarantine.restore", "commit", transport, TRUE, rule.scopes,
             {"quarantine_id"}, TRUE)
  BY <1>1, SecurityRows, Allows
<1>. QED BY <1>2, <1>3, <1>4, <1>5, <1>6 DEF AuthorizedSecurity

\* What an advertised part is legitimately asked for over the socket reaches it.
LEMMA LegitimateAccepted ==
    ASSUME transport = "unix_peer", NEW part \in Part \ {"core"}, NEW path \in Advertised[part],
           NEW p \in Payloads(path), Legitimate(path, p)
    PROVE  PartOf(path) = part /\ Accepts(path, p) /\ path \in GuardedPaths
<1>1. p.exact = TRUE /\ p.sound = TRUE /\ p.action # "other"
  BY DEF Payloads, Legitimate
<1>2. /\ p.action \in Actions(path)
      /\ p.confirmed \in Confirmations(path)
      /\ p.confirmed \in {"none", "yes"}
  BY DEF Payloads, Legitimate
<1>3. Secure
  BY DEF Secure, SecureWriteTransports
<1>4. /\ path \in GuardedPaths
      /\ part = "software" => path \in SoftwarePaths
      /\ part = "security" => path \in SecurityPaths
      /\ part = "models" => path \in {"models/catalog", "models/respond"}
      /\ part = "provider" => path \in {"providers/ollama/status", "providers/ollama/respond"}
      /\ part \in {"software", "security", "models", "provider"}
  BY DEF Part, Advertised, GuardedPaths, ModelPaths
<1>5. PartOf(path) = part
  BY <1>4 DEF PartOf, SoftwarePaths, SecurityPaths, ScanPaths, JobPaths, QuarantinePaths
<1>. SUFFICES Accepts(path, p)
  BY <1>4, <1>5
<1>6. CASE part \in {"models", "provider"}
  BY <1>1, <1>4, <1>6 DEF Accepts, model_request, ScanPaths, JobPaths, QuarantinePaths, StoragePaths, ModelPaths,
     WorkspacePaths
<1>7. CASE part = "software"
  <2>1. CASE path = "software/snapshot"
    BY <1>1, <2>1 DEF Accepts, ScanPaths, JobPaths, QuarantinePaths, StoragePaths, ModelPaths,
     WorkspacePaths
  <2>2. CASE path = "software/prepare"
    BY <1>1, <1>2, <1>3, <2>2, SoftwareAllowed DEF Accepts, software_prepare, Actions, ScanPaths, JobPaths, QuarantinePaths, StoragePaths, ModelPaths,
     WorkspacePaths
  <2>3. CASE path = "software/respond"
    <3>1. p.confirmed = "yes" /\ p.action \in {"install", "remove"}
      BY <1>1, <1>2, <2>3 DEF Actions, Confirmations
    <3>2. {"task_id"} \cup {} = {"task_id"}
          /\ {"task_id"} \cup {"final_confirmation"} = {"task_id", "final_confirmation"}
      OBVIOUS
    <3>3. software_respond(p)
      <4>1. CASE p.action = "install"
        BY <1>1, <1>3, <3>1, <3>2, <4>1, SoftwareAllowed DEF software_respond, CommitOf
      <4>2. CASE p.action = "remove"
        BY <1>1, <1>3, <3>1, <3>2, <4>2, SoftwareAllowed DEF software_respond, CommitOf
      <4>. QED BY <3>1, <4>1, <4>2
    <3>. QED BY <2>3, <3>3 DEF Accepts, ScanPaths, JobPaths, QuarantinePaths, StoragePaths, ModelPaths,
     WorkspacePaths
  <2>4. CASE path = "software/control"
    BY <1>1, <1>3, <2>4, SoftwareAllowed DEF Accepts, software_control, ScanPaths, JobPaths, QuarantinePaths, StoragePaths, ModelPaths,
     WorkspacePaths
  <2>5. CASE path = "software/restore"
    BY <1>1, <1>2, <1>3, <2>5, SoftwareAllowed DEF Accepts, software_restore, Confirmations, ScanPaths, JobPaths, QuarantinePaths, StoragePaths, ModelPaths,
     WorkspacePaths
  <2>. QED BY <1>4, <1>7, <2>1, <2>2, <2>3, <2>4, <2>5 DEF SoftwarePaths
<1>8. CASE part = "security"
  <2>1. p.action \in ScanTarget => ScanAuthorized(p)
    <3>. SUFFICES ASSUME p.action \in ScanTarget
                  PROVE  ScanAuthorized(p)
      OBVIOUS
    <3>1. CASE p.action = "file"
      <4>1. {"resource_id"} \cup {"relative_path"} \cup {} = {"resource_id", "relative_path"}
        OBVIOUS
      <4>. QED BY <1>1, <3>1, <4>1, SecurityAllowed DEF ScanAuthorized
    <3>2. CASE p.action = "folder"
      <4>1. {"resource_id"} \cup {"relative_path"} \cup {"mode"}
            = {"resource_id", "mode"} \cup {"relative_path"}
        OBVIOUS
      <4>. QED BY <1>1, <3>2, <4>1, SecurityAllowed DEF ScanAuthorized
    <3>3. CASE p.action \in {"quick", "full"}
      <4>1. {"resource_id"} \cup {} \cup {"mode"} = {"resource_id", "mode"} \cup {}
        OBVIOUS
      <4>. QED BY <1>1, <3>3, <4>1, SecurityAllowed DEF ScanAuthorized
    <3>. QED BY <3>1, <3>2, <3>3 DEF ScanTarget
  <2>2. CASE path \in ScanPaths
    <3>1. path = "security/scan" => p.action \in ScanTarget
      BY <1>1, <1>2 DEF Actions
    <3>2. security_scan(path, p)
      BY <1>1, <1>3, <2>1, <3>1 DEF security_scan
    <3>. QED BY <2>2, <3>2 DEF Accepts, ScanPaths, JobPaths, QuarantinePaths, StoragePaths, ModelPaths,
     WorkspacePaths
  <2>3. CASE path \in JobPaths
    <3>1. path = "security/jobs/start" => p.action \in ScanTarget
      BY <1>1, <1>2 DEF Actions
    <3>2. AuthorizedSecurity("security.scan.run", "execute", {"resource_id", "mode"}, FALSE, p)
      <4>1. {"resource_id", "mode"} \cup {} = {"resource_id", "mode"}
        OBVIOUS
      <4>. QED BY <1>1, <4>1, SecurityAllowed
    <3>3. security_jobs(path, p)
      BY <1>1, <1>3, <2>1, <3>1, <3>2 DEF security_jobs
    <3>. QED BY <2>3, <3>3 DEF Accepts, ScanPaths, JobPaths, QuarantinePaths, StoragePaths, ModelPaths,
     WorkspacePaths
  <2>4. CASE path \in QuarantinePaths
    <3>1. path \in {"security/quarantine/commit", "security/quarantine/restore"} => p.confirmed = "yes"
      BY <1>2 DEF Confirmations
    <3>2. security_quarantine(path, p)
      BY <1>1, <1>3, <3>1, SecurityAllowed DEF security_quarantine
    <3>. QED BY <2>4, <3>2 DEF Accepts, ScanPaths, JobPaths, QuarantinePaths, StoragePaths, ModelPaths,
     WorkspacePaths
  <2>. QED BY <1>4, <1>8, <2>2, <2>3, <2>4 DEF SecurityPaths
<1>. QED BY <1>4, <1>6, <1>7, <1>8


\* What changes the system is reached over the socket only, and what needs the
\* user's word with it only.
LEMMA GuardedReached ==
    ASSUME NEW path, NEW p \in Payloads(path), Reached(path, p),
           transport \in {"unix_peer", "loopback_http"}
    PROVE  /\ path \in Changing => Secure
           /\ path \in Confirmed => p.confirmed = "yes"
<1>1. path \in Changing => path \notin OpenPaths
  BY DEF Changing, OpenPaths, SoftwarePaths, JobPaths, QuarantinePaths
<1>2. path \in Changing => Secure
  BY <1>1 DEF Reached, allow_r1, Secure, SecureWriteTransports
<1>3. ASSUME path \in Confirmed PROVE p.confirmed = "yes"
  <2>1. CASE path = "software/restore"
    <3>1. software_restore(p)
      BY <2>1 DEF Reached, Accepts, ScanPaths, JobPaths, QuarantinePaths, StoragePaths, ModelPaths,
         WorkspacePaths
    <3>. QED BY <3>1 DEF software_restore
  <2>2. CASE path \in {"security/quarantine/commit", "security/quarantine/restore"}
    <3>1. security_quarantine(path, p)
      BY <2>2 DEF Reached, Accepts, ScanPaths, JobPaths, QuarantinePaths, StoragePaths, ModelPaths,
         WorkspacePaths
    <3>. QED BY <2>2, <3>1 DEF security_quarantine
  <2>. QED BY <1>3, <2>1, <2>2 DEF Confirmed
<1>. QED BY <1>2, <1>3

\* A task that the worker is asked to prepare, and the answers it is given.
LEMMA SoftwareReached ==
    ASSUME NEW path, NEW p \in Payloads(path), Reached(path, p)
    PROVE  /\ path = "software/prepare" => p.action \in {"install", "remove"}
           /\ path = "software/respond" => /\ p.action \in {"install", "remove"}
                                           /\ p.confirmed \in {"yes", "no"}
                                           /\ p.final \in BOOLEAN
<1>1. ASSUME path = "software/prepare" PROVE p.action \in {"install", "remove"}
  <2>1. software_prepare(p)
    BY <1>1 DEF Reached, Accepts, ScanPaths, JobPaths, QuarantinePaths, StoragePaths, ModelPaths,
       WorkspacePaths
  <2>. QED BY <2>1 DEF software_prepare
<1>2. ASSUME path = "software/respond"
      PROVE  p.action \in {"install", "remove"} /\ p.confirmed \in {"yes", "no"} /\ p.final \in BOOLEAN
  <2>1. software_respond(p)
    BY <1>2 DEF Reached, Accepts, ScanPaths, JobPaths, QuarantinePaths, StoragePaths, ModelPaths,
       WorkspacePaths
  <2>2. p.final \in BOOLEAN
    BY <1>2 DEF Payloads
  <2>. QED BY <2>1, <2>2 DEF software_respond
<1>. QED BY <1>1, <1>2

\* The types of the worker's task and of what was let through for it.
TaskTyped ==
    /\ task \in [action : {"install", "remove"},
                 state : {"awaiting_confirmation", "awaiting_final_confirmation", "started", "ended"}]
                \cup {NoTask}
    /\ given \subseteq [capability : {policy.capability : policy \in SoftwarePolicies}, final : BOOLEAN]

\* The capabilities that a confirmation may be let through as.
LEMMA GivenTyped ==
    \A capability \in {"software.install.commit", "software.remove.commit",
                       "software.backup.restore"}, final \in BOOLEAN :
        [capability |-> capability, final |-> final]
            \in [capability : {policy.capability : policy \in SoftwarePolicies}, final : BOOLEAN]
<1>1. \E policy \in SoftwarePolicies : policy.capability = "software.install.commit"
  <2>1. CommitOnly("software.install.commit", {"task_id"}, Manage) \in SoftwarePolicies
    BY DEF SoftwarePolicies
  <2>. QED BY <2>1 DEF CommitOnly, Policy
<1>2. \E policy \in SoftwarePolicies : policy.capability = "software.remove.commit"
  <2>1. CommitOnly("software.remove.commit", {"task_id", "final_confirmation"}, Manage)
            \in SoftwarePolicies
    BY DEF SoftwarePolicies
  <2>. QED BY <2>1 DEF CommitOnly, Policy
<1>3. \E policy \in SoftwarePolicies : policy.capability = "software.backup.restore"
  <2>1. CommitOnly("software.backup.restore", {"backup_id"}, Manage) \in SoftwarePolicies
    BY DEF SoftwarePolicies
  <2>. QED BY <2>1 DEF CommitOnly, Policy
<1>. QED BY <1>1, <1>2, <1>3

\* What the worker does with an answer.
LEMMA TaskAnswerKeeps ==
    ASSUME TaskTyped, GivenMatches, NEW p, p.action \in {"install", "remove"},
           p.confirmed \in {"yes", "no"}, p.final \in BOOLEAN, AnswerTask(p)
    PROVE  TaskTyped' /\ GivenMatches'
<1>1. CASE UNCHANGED <<task, given>>
  BY <1>1 DEF TaskTyped, GivenMatches, Installed, Removed
<1>2. CASE /\ task.state \in (IF p.confirmed = "yes" THEN Awaiting ELSE Awaiting \cup {"started"})
           /\ WorkerTakes(p)
           /\ task' = TaskAfter(p)
           /\ given' = IF p.confirmed = "yes"
                       THEN given \cup {[capability |-> CommitOf(p.action), final |-> p.final]}
                       ELSE given
  <2>1. task \in [action : {"install", "remove"},
                  state : {"awaiting_confirmation", "awaiting_final_confirmation", "started", "ended"}]
    BY <1>2 DEF TaskTyped, NoTask, Awaiting
  <2>2. task.action = p.action
        /\ p.final = (task.action = "remove" /\ task.state = "awaiting_final_confirmation")
    BY <1>2 DEF WorkerTakes
  <2>3. CASE p.confirmed = "no"
    BY <1>2, <2>1, <2>3 DEF TaskTyped, TaskAfter, GivenMatches
  <2>4. CASE p.confirmed = "yes" /\ task.action = "install"
    <3>1. task.state = "awaiting_confirmation" /\ given = {} /\ p.final = FALSE
      BY <1>2, <2>1, <2>2, <2>4 DEF Awaiting, GivenMatches
    <3>2. given' = {[capability |-> "software.install.commit", final |-> FALSE]}
      BY <1>2, <2>2, <2>4, <3>1 DEF CommitOf
    <3>3. task' = [task EXCEPT !.state = "started"]
      BY <1>2, <2>4 DEF TaskAfter
    <3>4. GivenMatches'
      BY <2>1, <2>4, <3>2, <3>3 DEF GivenMatches, Installed
    <3>5. TaskTyped'
      BY <2>1, <3>2, <3>3, GivenTyped DEF TaskTyped
    <3>. QED BY <3>4, <3>5
  <2>5. CASE p.confirmed = "yes" /\ task.action = "remove" /\ task.state = "awaiting_confirmation"
    <3>1. given' = FirstGiven
      BY <1>2, <2>2, <2>5 DEF CommitOf, FirstGiven, GivenMatches
    <3>2. task' = [task EXCEPT !.state = "awaiting_final_confirmation"]
      BY <1>2, <2>5 DEF TaskAfter
    <3>3. GivenMatches'
      BY <2>1, <2>5, <3>1, <3>2 DEF GivenMatches
    <3>4. TaskTyped'
      BY <2>1, <3>1, <3>2, GivenTyped DEF TaskTyped, FirstGiven
    <3>. QED BY <3>3, <3>4
  <2>6. CASE p.confirmed = "yes" /\ task.action = "remove" /\ task.state # "awaiting_confirmation"
    <3>1. task.state = "awaiting_final_confirmation" /\ p.final = TRUE /\ given = FirstGiven
      BY <1>2, <2>1, <2>2, <2>6 DEF Awaiting, GivenMatches
    <3>2. given' = [capability : {"software.remove.commit"}, final : BOOLEAN]
      <4>1. given' = FirstGiven \cup {[capability |-> "software.remove.commit", final |-> TRUE]}
        BY <1>2, <2>2, <2>6, <3>1 DEF CommitOf
      <4>2. ASSUME NEW x \in [capability : {"software.remove.commit"}, final : BOOLEAN]
            PROVE  x \in FirstGiven \cup {[capability |-> "software.remove.commit", final |-> TRUE]}
        <5>1. x = [capability |-> "software.remove.commit", final |-> x.final]
          OBVIOUS
        <5>2. x.final = TRUE \/ x.final = FALSE
          OBVIOUS
        <5>. QED BY <5>1, <5>2 DEF FirstGiven
      <4>3. \A final \in BOOLEAN : [capability |-> "software.remove.commit", final |-> final]
                \in [capability : {"software.remove.commit"}, final : BOOLEAN]
        OBVIOUS
      <4>. QED BY <4>1, <4>2, <4>3 DEF FirstGiven
    <3>3. task' = [task EXCEPT !.state = "started"]
      BY <1>2, <2>6 DEF TaskAfter
    <3>4. GivenMatches'
      BY <2>1, <2>6, <3>2, <3>3 DEF GivenMatches, Removed
    <3>5. TaskTyped'
      BY <2>1, <3>2, <3>3, GivenTyped DEF TaskTyped
    <3>. QED BY <3>4, <3>5
  <2>. QED BY <2>1, <2>3, <2>4, <2>5, <2>6
<1>. QED BY <1>1, <1>2 DEF AnswerTask

\* What the worker does with a request that reached it.
LEMMA WorkerKeeps ==
    ASSUME TaskTyped, GivenMatches, NEW path, NEW p \in Payloads(path), Reached(path, p),
           WorkerStep(path, p)
    PROVE  TaskTyped' /\ GivenMatches'
<1>1. CASE UNCHANGED <<task, given>>
  BY <1>1 DEF TaskTyped, GivenMatches, Installed, Removed
<1>2. CASE path = "software/prepare"
  <2>1. p.action \in {"install", "remove"}
    BY <1>2, SoftwareReached
  <2>2. CASE /\ task' = [action |-> p.action, state |-> "awaiting_confirmation"]
             /\ given' = {}
    BY <2>1, <2>2 DEF TaskTyped, GivenMatches
  <2>. QED BY <1>1, <1>2, <2>2 DEF WorkerStep
<1>3. CASE path = "software/respond"
  BY <1>3, TaskAnswerKeeps, SoftwareReached DEF WorkerStep
<1>4. CASE path = "software/control"
  <2>1. CASE /\ task' = [task EXCEPT !.state = "ended"]
             /\ task.state \in Awaiting \cup {"started"}
             /\ given' = given
    <3>1. task \in [action : {"install", "remove"},
                    state : {"awaiting_confirmation", "awaiting_final_confirmation", "started",
                             "ended"}]
      BY <2>1 DEF TaskTyped, NoTask, Awaiting
    <3>. QED BY <2>1, <3>1 DEF TaskTyped, GivenMatches
  <2>. QED BY <1>1, <1>4, <2>1 DEF WorkerStep
<1>5. CASE path = "software/restore"
  <2>1. CASE /\ task' = [action |-> "install", state |-> "started"]
             /\ given' = {[capability |-> "software.backup.restore", final |-> FALSE]}
    BY <2>1, GivenTyped DEF TaskTyped, GivenMatches, Installed
  <2>. QED BY <1>1, <1>5, <2>1 DEF WorkerStep
<1>. QED BY <1>1, <1>2, <1>3, <1>4, <1>5 DEF WorkerStep

\* What a request may reach depends on the transport and the parts alone.
LEMMA ReachedSame ==
    ASSUME UNCHANGED <<transport, configured>>
    PROVE  \A path, p : Reached(path, p)' = Reached(path, p)
  BY DEF Reached, allow_r1, Accepts, Secure, software_prepare, software_respond,
     software_control, software_restore, security_scan, security_jobs, security_quarantine,
     ScanAuthorized, AuthorizedSoftware, AuthorizedSecurity

\* A request is decided, or answered, or the task ends.
LEMMA GateKeeps == GateInv /\ [GateNext]_gateVars => GateInv'
<1>. SUFFICES ASSUME GateInv, [GateNext]_gateVars PROVE GateInv'
  OBVIOUS
<1>. USE DEF GateInv
<1>1. TaskTyped
  BY DEF GateTypeOK, TaskTyped
<1>2. ASSUME NEW path \in OpenPaths \cup GuardedPaths, NEW p \in Payloads(path), Dispatch(path, p)
      PROVE  GateInv'
  <2>1. TaskTyped' /\ GivenMatches'
    <3>1. CASE UNCHANGED <<task, given>>
      BY <1>1, <3>1 DEF TaskTyped, GivenMatches, Installed, Removed
    <3>2. CASE Reached(path, p) /\ WorkerStep(path, p)
      BY <1>1, <3>2, WorkerKeeps
    <3>. QED BY <1>2, <3>1, <3>2 DEF Dispatch
  <2>2. Reached(path, p)' = Reached(path, p)
    BY <1>2, ReachedSame DEF Dispatch
  <2>3. RequestDecided'
    BY <1>2, <2>2 DEF Dispatch, RequestDecided
  <2>4. Reached(path, p) \in BOOLEAN
    BY DEF Reached
  <2>5. GateTypeOK'
    BY <1>2, <2>1, <2>4 DEF Dispatch, GateTypeOK, TaskTyped
  <2>. QED BY <2>1, <2>3, <2>5
<1>3. CASE Answered
  BY <1>3 DEF Answered, GateTypeOK, RequestDecided, GivenMatches, Installed, Removed, NoRequest
<1>4. CASE TaskEnds
  <2>1. task \in [action : {"install", "remove"},
                  state : {"awaiting_confirmation", "awaiting_final_confirmation", "started", "ended"}]
    BY <1>1, <1>4 DEF TaskEnds, TaskTyped, NoTask
  <2>2. RequestDecided'
    BY <1>4, ReachedSame DEF TaskEnds, RequestDecided
  <2>. QED BY <1>4, <2>1, <2>2 DEF TaskEnds, GateTypeOK, GivenMatches
<1>5. CASE UNCHANGED gateVars
  <2>1. RequestDecided'
    BY <1>5, ReachedSame DEF gateVars, RequestDecided
  <2>. QED BY <1>5, <2>1 DEF gateVars, GateTypeOK, GivenMatches, Installed, Removed
<1>. QED BY <1>2, <1>3, <1>4, <1>5 DEF GateNext

LEMMA GateStarts == GateInit => GateInv
  BY DEF GateInit, GateInv, GateTypeOK, RequestDecided, GivenMatches, NoTask, NoRequest

\* Whatever is sent, how often and in whatever order, the invariant holds.
THEOREM GateInvariant == GateSpec => []GateInv
  BY GateStarts, GateKeeps, PTL DEF GateSpec

\* The types of the router's and the worker's state.
THEOREM GateTypeCorrect == GateSpec => []GateTypeOK
<1>1. GateInv => GateTypeOK
  BY DEF GateInv
<1>. QED BY <1>1, GateInvariant, PTL

\* Nothing that changes the system gets past the router over the loopback, nothing
\* that needs the user's word gets past the application without it, a task
\* has started only on the confirmations of its kind, and what the panel
\* legitimately asks an advertised part for is let through by the policies.
THEOREM LayersAgreeAlways == GateSpec => []LayersAgree
<1>1. GateInv => LayersAgree
  <2>. SUFFICES ASSUME GateInv PROVE LayersAgree
    OBVIOUS
  <2>1. transport \in {"unix_peer", "loopback_http"}
    BY DEF GateInv, GateTypeOK
  <2>2. task.state = "started" =>
           \/ task.action = "install" /\ given = {[capability |-> "software.install.commit", final |-> FALSE]}
           \/ task.action = "install" /\ given = {[capability |-> "software.backup.restore", final |-> FALSE]}
           \/ task.action = "remove" /\ given = [capability : {"software.remove.commit"}, final : BOOLEAN]
    BY DEF GateInv, GivenMatches, Installed, Removed
  <2>3. CASE last = NoRequest
    <3>1. last.path = "none" /\ ~last.reached
      BY <2>3 DEF NoRequest
    <3>2. \A part \in Part \ {"core"} : "none" \notin Advertised[part]
      BY DEF Part, Advertised, SoftwarePaths, SecurityPaths, ScanPaths, JobPaths, QuarantinePaths
    <3>3. configured \subseteq Part
      BY PartsAssumption DEF GateInv, GateTypeOK
    <3>. QED BY <2>2, <3>1, <3>2, <3>3 DEF LayersAgree
  <2>4. CASE last # NoRequest
    <3>1. PICK path \in OpenPaths \cup GuardedPaths : \E p \in Payloads(path) :
             last = [path |-> path, payload |-> p, reached |-> Reached(path, p)]
      BY <2>4 DEF GateInv, RequestDecided
    <3>2. PICK p \in Payloads(path) :
             last = [path |-> path, payload |-> p, reached |-> Reached(path, p)]
      BY <3>1
    <3>3. last.path = path /\ last.payload = p /\ (last.reached <=> Reached(path, p))
      BY <3>2
    <3>4. /\ last.reached /\ last.path \in Changing => Secure
          /\ last.reached /\ last.path \in Confirmed => last.payload.confirmed = "yes"
      BY <2>1, <3>3, GuardedReached
    <3>5. ASSUME NEW part \in configured \ {"core"}, last.path \in Advertised[part],
                 Legitimate(last.path, last.payload), transport = "unix_peer"
          PROVE  last.reached
      <4>1. part \in Part \ {"core"}
        BY PartsAssumption DEF GateInv, GateTypeOK
      <4>2. PartOf(path) = part /\ Accepts(path, p) /\ path \in GuardedPaths
        BY <3>3, <3>5, <4>1, LegitimateAccepted
      <4>3. Reached(path, p)
        BY <3>5, <4>2 DEF Reached, allow_r1
      <4>. QED BY <3>3, <4>3
    <3>. QED BY <2>2, <3>4, <3>5 DEF LayersAgree
  <2>. QED BY <2>3, <2>4
<1>. QED BY <1>1, GateInvariant, PTL

-----------------------------------------------------------------------------
(* The registry of modules.                                                  *)

Deps(m) == registry[m].deps
Computing(p) == refresh[p].at \in {"visit", "settle"}

\* One process computes, on rows that are still the ones it has read; whoever
\* starts finds the search as it was at first.
OneComputes ==
    /\ \A p, q \in Process : Computing(p) /\ Computing(q) => p = q
    /\ \A p \in Process : Computing(p) => p \in fresh
    /\ (\A p \in Process : refresh[p].at # "visit") => active = <<>> /\ visited = {} /\ cycles = {}

\* The active nodes are a path of dependencies through what is not visited yet,
\* and of what they depend on nothing has been passed over.
PathInv ==
    /\ visited \cup cycles \subseteq Registered
    /\ \A k \in 1 .. Len(active) : active[k] \in Registered \ visited
    /\ \A j, k \in 1 .. Len(active) : active[j] = active[k] => j = k
    /\ \A k \in 1 .. Len(active) : k + 1 <= Len(active) => active[k + 1] \in Deps(active[k])
    /\ \A k \in 1 .. Len(active) : left[active[k]] \subseteq Deps(active[k]) \cap Registered
    /\ \A k \in 1 .. Len(active) : \A d \in Deps(active[k]) \cap Registered :
          \/ d \in left[active[k]] \cup visited
          \/ active[k] \in cycles
          \/ k + 1 <= Len(active) /\ d = active[k + 1]

\* Every set of the modules has one that depends on none of the others.
Grounded(set) == \A T \in SUBSET set : T # {} => \E m \in T : Deps(m) \cap T = {}

\* What has been visited and is on no cycle found depends on what is visited and
\* has no cycle in it, and what can be enabled is on no cycle found.
VisitedInv ==
    /\ \A m \in visited \ cycles : Deps(m) \cap Registered \subseteq visited
    /\ Grounded(visited \ cycles)
    /\ \A S \in SUBSET Module : Sound(S) => S \cap cycles = {}

\* While a process takes back what is blocked, what it has left includes all that
\* can be enabled, has no cycle and lacks only what it depends on.
Enabled(states) == {m \in DOMAIN states : states[m] = "enabled"}
Settling(states) ==
    /\ DOMAIN states = Registered
    /\ \A m \in Enabled(states) : Eligible(m) /\ Deps(m) \subseteq Registered
    /\ Grounded(Enabled(states))
    /\ \A S \in SUBSET Module : Sound(S) => S \subseteq Enabled(states)

\* Rows are never removed.
StillThere ==
    \A p \in Process : refresh[p].at = "write" => DOMAIN refresh[p].states \subseteq Registered

ComputedInv ==
    \A p \in Process :
        /\ refresh[p].at = "settle" => Settling(refresh[p].states)
        /\ refresh[p].at = "write" /\ p \in fresh =>
               /\ Settling(refresh[p].states)
               /\ \A m \in Enabled(refresh[p].states) : Deps(m) \subseteq Enabled(refresh[p].states)

RegistryInv ==
    /\ RegistryTypeOK /\ OneComputes /\ PathInv /\ VisitedInv
    /\ ComputedInv /\ StillThere /\ StatesSettled

\* Nobody is visiting: the search is as it was at first.
LEMMA NobodyVisits ==
    ASSUME NEW p \in Process, OneComputes, Turn(p, {"idle", "sync", "read", "settle", "write"})
    PROVE  active = <<>> /\ visited = {} /\ cycles = {}
BY DEF OneComputes, Turn, Computing

\* A search that has not begun has passed nothing over.
LEMMA NothingVisited ==
    ASSUME active = <<>>, visited = {}, cycles = {}
    PROVE  PathInv /\ VisitedInv
<1>1. PathInv
  BY DEF PathInv
<1>2. VisitedInv
  BY DEF VisitedInv, Grounded
<1> QED
  BY <1>1, <1>2

LEMMA IdleTyped == Idle \in [at : {"idle", "sync", "read", "visit", "settle", "write"}, states : Computed]
<1>1. Idle.states \in [{} -> ModuleState] /\ {} \in SUBSET Module
  BY DEF Idle, ModuleState
<1> QED
  BY <1>1 DEF Idle, Computed

LEMMA RegistryStarts == RegistryInit => RegistryInv
<1> SUFFICES ASSUME RegistryInit PROVE RegistryInv
  OBVIOUS
<1> USE RegistryAssumption
<1>1. PICK listed \in SUBSET Module : \E deps \in [listed -> SUBSET Module] :
          /\ \A m \in listed : m \notin deps[m]
          /\ registry = [m \in Module |->
                IF m \notin listed THEN Unregistered
                ELSE [Unregistered EXCEPT !.deps = deps[m], !.valid = TRUE, !.wanted = TRUE,
                                          !.state = "installed"]]
  BY DEF RegistryInit
<1>2. PICK deps \in [listed -> SUBSET Module] :
          /\ \A m \in listed : m \notin deps[m]
          /\ registry = [m \in Module |->
                IF m \notin listed THEN Unregistered
                ELSE [Unregistered EXCEPT !.deps = deps[m], !.valid = TRUE, !.wanted = TRUE,
                                          !.state = "installed"]]
  BY <1>1
<1>3. \A m \in Module :
          /\ registry[m] \in Row /\ m \notin registry[m].deps
          /\ registry[m].state = "none" <=> registry[m] = Unregistered
  BY <1>2 DEF Row, Unregistered, ModuleState
<1>4. Idle \in [at : {"idle", "sync", "read", "visit", "settle", "write"}, states : Computed]
  BY IdleTyped
<1>5. PICK p \in Process : refresh = [q \in Process |-> IF q = p THEN [Idle EXCEPT !.at = "sync"] ELSE Idle]
  BY DEF RegistryInit
<1>6. refresh \in [Process -> [at : {"idle", "sync", "read", "visit", "settle", "write"}, states : Computed]]
  BY <1>4, <1>5 DEF Idle
<1>7. \A q \in Process : refresh[q].at \in {"idle", "sync"}
  BY <1>5 DEF Idle
<1>8. registry \in [Module -> Row]
  BY <1>2, <1>3
<1>12. /\ active = <<>> /\ left = [m \in Module |-> {}] /\ visited = {} /\ cycles = {}
       /\ fresh = {} /\ settled = FALSE /\ writes = 0
  BY DEF RegistryInit
<1>13. /\ active \in Seq(Module) /\ left \in [Module -> SUBSET Module]
       /\ writes \in 0 .. MaxWrites /\ settled \in BOOLEAN
  <2>1. active \in Seq(Module)
    BY <1>12, EmptySeq
  <2>2. left \in [Module -> SUBSET Module]
    BY <1>12
  <2>3. writes \in 0 .. MaxWrites
    BY <1>12 DEF RegistryAssumption
  <2>4. settled \in BOOLEAN
    BY <1>12
  <2> QED
    BY <2>1, <2>2, <2>3, <2>4
<1>9. RegistryTypeOK
  BY <1>3, <1>6, <1>8, <1>12, <1>13 DEF RegistryTypeOK
<1>10. PathInv /\ VisitedInv
  BY NothingVisited DEF RegistryInit
<1>11. OneComputes /\ ComputedInv /\ StillThere /\ StatesSettled
  BY <1>7 DEF OneComputes, StillThere, ComputedInv, StatesSettled, Computing, RegistryInit
<1> QED
  BY <1>9, <1>10, <1>11 DEF RegistryInv

\* A process that changes a row makes what the others have read out of date.
LEMMA ChangeKeeps ==
    ASSUME RegistryInv, NEW p \in Process, Turn(p, {"idle", "sync"}),
           NEW m \in Module, NEW row \in Row, m \notin row.deps,
           row.state # "none" /\ row # Unregistered,
           NEW next \in {"sync", "read"}, Change(p, m, row, next)
    PROVE  RegistryInv'
<1> USE RegistryAssumption
<1>0. RegistryTypeOK
  BY DEF RegistryInv
<1>7. registry' = [registry EXCEPT ![m] = row] /\ refresh' = [refresh EXCEPT ![p].at = next]
  BY DEF Change
<1>8. registry' \in [Module -> Row]
  BY <1>0, <1>7 DEF RegistryTypeOK
<1>9. \A k \in Module : /\ k \notin registry'[k].deps
                        /\ registry'[k].state = "none" <=> registry'[k] = Unregistered
  <2> TAKE k \in Module
  <2>1. CASE k = m
    BY <2>1, <1>0, <1>7 DEF RegistryTypeOK
  <2>2. CASE k # m
    <3>1. registry'[k] = registry[k]
      BY <2>2, <1>0, <1>7 DEF RegistryTypeOK
    <3> QED
      BY <3>1, <1>0 DEF RegistryTypeOK
  <2> QED
    BY <2>1, <2>2
<1>10. refresh' \in [Process -> [at : {"idle", "sync", "read", "visit", "settle", "write"}, states : Computed]]
  BY <1>0, <1>7 DEF RegistryTypeOK
<1>11. writes' \in 0 .. MaxWrites
  BY <1>0 DEF RegistryTypeOK, Change
<1>1. RegistryTypeOK'
  BY <1>0, <1>8, <1>9, <1>10, <1>11 DEF RegistryTypeOK, Change, searchVars
<1>2. \A q \in Process : refresh'[q].at \notin {"visit", "settle"}
  BY DEF RegistryInv, RegistryTypeOK, Change, Turn
<1>3. active' = <<>> /\ visited' = {} /\ cycles' = {}
  BY NobodyVisits DEF RegistryInv, Change, searchVars, Turn
<1>4. OneComputes'
  BY <1>2, <1>3 DEF OneComputes, Computing
<1>5. PathInv' /\ VisitedInv'
  BY <1>3 DEF PathInv, VisitedInv, Grounded
<1>6. ComputedInv' /\ StatesSettled'
  BY <1>2 DEF ComputedInv, StatesSettled, Change
<1>12. StillThere'
  <2>1. \A q \in Process : refresh'[q].at = "write" => refresh'[q] = refresh[q]
    BY <1>0, <1>7 DEF RegistryTypeOK
  <2>2. Registered \subseteq Registered'
    BY <1>0, <1>7 DEF Registered, RegistryTypeOK
  <2> QED
    BY <2>1, <2>2 DEF RegistryInv, StillThere
<1> QED
  BY <1>1, <1>4, <1>5, <1>6, <1>12 DEF RegistryInv

LEMMA RowChangeKeeps ==
    ASSUME RegistryInv, NEW p \in Process, NEW m \in Module,
           Upsert(p, m) \/ MarkInvalid(p, m) \/ SetEnabled(p, m) \/ QuarantineModule(p, m)
    PROVE  RegistryInv'
<1> DEFINE row == registry[m]
<1>0. /\ row \in Row /\ m \notin row.deps
      /\ row.state = "none" <=> row = Unregistered
  BY DEF RegistryInv, RegistryTypeOK
<1>1. CASE Upsert(p, m)
  <2>1. PICK deps \in SUBSET (Module \ {m}), default \in BOOLEAN :
          Change(p, m, [row EXCEPT !.deps = deps, !.valid = TRUE,
                                   !.wanted = IF row.configured THEN @ ELSE default,
                                   !.state = IF row = Unregistered THEN "installed" ELSE @], "sync")
    BY <1>1 DEF Upsert
  <2> DEFINE new == [row EXCEPT !.deps = deps, !.valid = TRUE,
                                !.wanted = IF row.configured THEN @ ELSE default,
                                !.state = IF row = Unregistered THEN "installed" ELSE @]
  <2>2. new \in Row /\ m \notin new.deps /\ new.state # "none" /\ new # Unregistered
    BY <1>0 DEF Row, Unregistered, ModuleState
  <2>3. Turn(p, {"idle", "sync"})
    BY <1>1 DEF Upsert
  <2> HIDE DEF row
  <2> QED
    BY <2>1, <2>2, <2>3, ChangeKeeps
<1>2. CASE MarkInvalid(p, m)
  <2> DEFINE new == [row EXCEPT !.valid = FALSE, !.state = "unavailable"]
  <2>1. Turn(p, {"idle", "sync"}) /\ row # Unregistered /\ Change(p, m, new, "sync")
    BY <1>2 DEF MarkInvalid
  <2>2. new \in Row /\ m \notin new.deps /\ new.state # "none" /\ new # Unregistered
    BY <1>0 DEF Row, Unregistered, ModuleState
  <2> HIDE DEF row, new
  <2> QED
    BY <2>1, <2>2, ChangeKeeps
<1>3. CASE SetEnabled(p, m)
  <2>1. PICK on \in BOOLEAN : Change(p, m, [row EXCEPT !.wanted = on, !.configured = TRUE], "read")
    BY <1>3 DEF SetEnabled
  <2> DEFINE new == [row EXCEPT !.wanted = on, !.configured = TRUE]
  <2>2. Turn(p, {"idle", "sync"}) /\ row # Unregistered
    BY <1>3 DEF SetEnabled, Turn
  <2>3. new \in Row /\ m \notin new.deps /\ new.state # "none" /\ new # Unregistered
    BY <1>0, <2>2 DEF Row, Unregistered, ModuleState
  <2> HIDE DEF row
  <2> QED
    BY <2>1, <2>2, <2>3, ChangeKeeps
<1>4. CASE QuarantineModule(p, m)
  <2>1. PICK on \in BOOLEAN : Change(p, m, [row EXCEPT !.quarantined = on], "read")
    BY <1>4 DEF QuarantineModule
  <2> DEFINE new == [row EXCEPT !.quarantined = on]
  <2>2. Turn(p, {"idle", "sync"}) /\ row # Unregistered
    BY <1>4 DEF QuarantineModule, Turn
  <2>3. new \in Row /\ m \notin new.deps /\ new.state # "none" /\ new # Unregistered
    BY <1>0, <2>2 DEF Row, Unregistered, ModuleState
  <2> HIDE DEF row
  <2> QED
    BY <2>1, <2>2, <2>3, ChangeKeeps
<1> QED
  BY <1>1, <1>2, <1>3, <1>4

\* What settles depends on the rows and what has been computed only.
LEMMA SettlingSame ==
    ASSUME NEW q \in Process, UNCHANGED registry, refresh'[q] = refresh[q],
           Settling(refresh[q].states)
    PROVE  Settling(refresh[q].states)'
<1>1. /\ \A S \in SUBSET Module : Sound(S)' <=> Sound(S)
      /\ \A m \in Module : Eligible(m)' <=> Eligible(m)
      /\ \A m \in Module : Deps(m)' = Deps(m)
      /\ Registered' = Registered
  BY DEF Sound, Eligible, Deps, Registered
<1>2. Enabled(refresh[q].states)' = Enabled(refresh[q].states)
  BY DEF Enabled
<1>3. Grounded(Enabled(refresh[q].states))'
  BY <1>2 DEF Settling, Grounded, Deps
<1> QED
  BY <1>1, <1>2, <1>3 DEF Settling, Eligible, Deps

\* A step of the search leaves the rows and what has been computed alone.
LEMMA SearchKeeps ==
    ASSUME RegistryInv, NEW p \in Process, refresh[p].at = "visit",
           UNCHANGED <<registry, refresh, fresh, settled, writes>>,
           active' \in Seq(Module), left' \in [Module -> SUBSET Module],
           visited' \cup cycles' \subseteq Module, PathInv', VisitedInv'
    PROVE  RegistryInv'
<1>1. RegistryTypeOK'
  BY DEF RegistryInv, RegistryTypeOK
<1>2. OneComputes'
  BY DEF RegistryInv, OneComputes, Computing
<1>3. ComputedInv'
  BY SettlingSame DEF RegistryInv, ComputedInv, Enabled, Deps
<1>4. StatesSettled'
  BY DEF RegistryInv, StatesSettled, Sound, Eligible
<1>5. StillThere'
  BY DEF RegistryInv, StillThere, Registered
<1> QED
  BY <1>1, <1>2, <1>3, <1>4, <1>5 DEF RegistryInv

LEMMA RegistryTyped ==
    ASSUME RegistryTypeOK
    PROVE  /\ active \in Seq(Module) /\ left \in [Module -> SUBSET Module]
           /\ visited \cup cycles \subseteq Module
           /\ \A k \in 1 .. Len(active) : active[k] \in Module
           /\ Len(active) \in Nat /\ DOMAIN active = 1 .. Len(active)
           /\ active # <<>> => Len(active) \in 1 .. Len(active) /\ Top \in Module
           /\ Registered \subseteq Module
BY EmptySeq DEF RegistryTypeOK, Top, Registered

\* The visit of a node begins: it follows the last active node on the path.
LEMMA EnterKeeps ==
    ASSUME RegistryInv, NEW p \in Process, refresh[p].at = "visit",
           UNCHANGED <<registry, refresh, fresh, settled, writes>>,
           NEW node \in Registered, node \notin visited,
           \A k \in 1 .. Len(active) : active[k] # node,
           NEW remaining \in [Module -> SUBSET Module],
           active # <<>> => /\ node \in Deps(Top)
                            /\ remaining = [left EXCEPT ![Top] = @ \ {node}],
           active = <<>> => remaining = left,
           Enter(node, remaining)
    PROVE  RegistryInv'
<1>0. /\ active \in Seq(Module) /\ left \in [Module -> SUBSET Module]
      /\ visited \cup cycles \subseteq Module
      /\ \A k \in 1 .. Len(active) : active[k] \in Module
      /\ Len(active) \in Nat /\ DOMAIN active = 1 .. Len(active)
      /\ active # <<>> => Len(active) \in 1 .. Len(active) /\ Top \in Module
      /\ node \in Module
  BY RegistryTyped DEF RegistryInv
<1> DEFINE n == Len(active)
<1>n. n \in Nat
  BY <1>0
<1>00. Len(<<>>) = 0
  BY EmptySeq
<1>1. /\ active' = Append(active, node) /\ visited' = visited /\ cycles' = cycles
      /\ left' = [remaining EXCEPT ![node] = Deps(node) \cap Registered]
  BY DEF Enter, Deps
<1>2. /\ active' \in Seq(Module) /\ Len(active') = n + 1
      /\ \A k \in 1 .. n : active'[k] = active[k]
      /\ active'[n + 1] = node
  BY <1>0, <1>1
<1>3. left' \in [Module -> SUBSET Module] /\ left'[node] = Deps(node) \cap Registered
  BY <1>0, <1>1, RegistryTyped DEF RegistryInv
<1>4. /\ \A m \in Module : (Deps(m))' = Deps(m)
      /\ Registered' = Registered
  BY DEF Deps, Registered
<1>5. \A k \in 1 .. n : k # n => left'[active[k]] = left[active[k]]
  <2> SUFFICES ASSUME NEW k \in 1 .. n, k # n PROVE left'[active[k]] = left[active[k]]
    OBVIOUS
  <2>1. active # <<>>
    BY <1>00, <1>n, EmptySeq DEF n
  <2>2. active[k] # active[n] /\ active[k] # node /\ active[k] \in Module
    BY <1>0, <2>1 DEF RegistryInv, PathInv
  <2> QED
    BY <1>0, <1>1, <2>1, <2>2 DEF Top
<1>6. active # <<>> => left'[active[n]] = left[active[n]] \ {node} /\ active[n] # node
  BY <1>0, <1>1 DEF Top
<1>7. PathInv'
  <2>1. visited' \cup cycles' \subseteq Registered'
    BY <1>1, <1>4 DEF RegistryInv, PathInv
  <2>2. \A k \in 1 .. Len(active') : active'[k] \in Registered' \ visited'
    BY <1>0, <1>1, <1>2, <1>4 DEF RegistryInv, PathInv
  <2>3. \A j, k \in 1 .. Len(active') : active'[j] = active'[k] => j = k
    BY <1>0, <1>2 DEF RegistryInv, PathInv
  <2>4. \A k \in 1 .. Len(active') : k + 1 <= Len(active') => active'[k + 1] \in (Deps(active[k]))'
    <3> SUFFICES ASSUME NEW k \in 1 .. n PROVE active'[k + 1] \in Deps(active[k])
      BY <1>0, <1>2, <1>4 DEF Deps
    <3>1. CASE k < n
      BY <3>1, <1>0, <1>2 DEF RegistryInv, PathInv
    <3>2. CASE k = n
      BY <3>2, <1>0, <1>2 DEF Top
    <3> QED
      BY <3>1, <3>2, <1>n
  <2>5. ASSUME NEW k \in 1 .. Len(active'), NEW d \in (Deps(active[k]))' \cap Registered'
        PROVE  \/ d \in left'[active'[k]] \cup visited'
               \/ active'[k] \in cycles'
               \/ k + 1 <= Len(active') /\ d = active'[k + 1]
    <3> HIDE DEF n
    <3>0. k \in 1 .. n + 1
      BY <2>5, <1>2
    <3>1. CASE k = n + 1
      BY <3>1, <2>5, <1>2, <1>3, <1>4 DEF Deps
    <3>2. CASE k < n
      <4>1. /\ k \in 1 .. n /\ k + 1 <= n /\ k # n /\ k + 1 \in 1 .. n
        BY <3>2, <3>0, <1>n
      <4>2. \/ d \in left[active[k]] \cup visited
            \/ active[k] \in cycles
            \/ d = active[k + 1]
        BY <4>1, <2>5, <1>2, <1>4 DEF RegistryInv, PathInv, Deps, n
      <4>3. left'[active[k]] = left[active[k]] /\ active'[k] = active[k] /\ active'[k + 1] = active[k + 1]
        BY <4>1, <1>2, <1>5
      <4> QED
        BY <4>1, <4>2, <4>3, <1>1, <1>2, <1>n
    <3>3. CASE k = n
      BY <3>3, <2>5, <1>0, <1>1, <1>2, <1>4, <1>6 DEF RegistryInv, PathInv, Deps
    <3> QED
      BY <3>1, <3>2, <3>3, <1>n, <3>0
  <2>6. ASSUME NEW k \in 1 .. Len(active')
        PROVE  left'[active'[k]] \subseteq Deps(active[k])' \cap Registered'
    <3> HIDE DEF n
    <3>0. k \in 1 .. n + 1
      BY <2>6, <1>2
    <3>1. CASE k = n + 1
      BY <3>1, <1>2, <1>3, <1>4 DEF Deps
    <3>2. CASE k # n + 1
      <4>1. k \in 1 .. n
        BY <3>0, <3>2, <1>n
      <4>2. left[active[k]] \subseteq Deps(active[k]) \cap Registered
        BY <4>1 DEF RegistryInv, PathInv, n
      <4>3. left'[active[k]] \subseteq left[active[k]]
        <5>1. CASE k = n
          <6>1. active # <<>>
            BY <4>1, <5>1, <1>n, <1>00 DEF n
          <6> QED
            BY <5>1, <6>1, <1>6
        <5>2. CASE k # n
          BY <4>1, <5>2, <1>5
        <5> QED
          BY <5>1, <5>2
      <4> QED
        BY <4>1, <4>2, <4>3, <1>2, <1>4 DEF Deps
    <3> QED
      BY <3>1, <3>2
  <2> QED
    BY <2>1, <2>2, <2>3, <2>4, <2>5, <2>6 DEF PathInv, Deps
<1>8. VisitedInv'
  <2>1. \A S \in SUBSET Module : Sound(S)' <=> Sound(S)
    BY DEF Sound, Eligible
  <2>2. Grounded(visited \ cycles)'
    BY <1>1 DEF RegistryInv, VisitedInv, Grounded, Deps
  <2> QED
    BY <2>1, <2>2, <1>1, <1>4, <1>0 DEF RegistryInv, VisitedInv
<1> QED
  BY <1>0, <1>1, <1>2, <1>3, <1>7, <1>8, SearchKeeps

LEMMA RootKeeps ==
    ASSUME RegistryInv, NEW p \in Process, VisitRoot(p)
    PROVE  RegistryInv'
<1>1. PICK node \in Registered \ visited : Enter(node, left)
  BY DEF VisitRoot
<1>2. /\ refresh[p].at = "visit" /\ active = <<>>
      /\ UNCHANGED <<registry, refresh, fresh, settled, writes>>
  BY DEF VisitRoot, Turn
<1>3. \A k \in 1 .. Len(active) : active[k] # node
  BY <1>2, EmptySeq
<1>4. left \in [Module -> SUBSET Module]
  BY RegistryTyped DEF RegistryInv
<1> QED
  BY <1>1, <1>2, <1>3, <1>4, EnterKeeps

\* The nodes from an active one on, when the last depends on it: each depends on
\* one of them, so that none of them can be enabled.
LEMMA CycleMissed ==
    ASSUME RegistryTypeOK, PathInv, active # <<>>, NEW first \in 1 .. Len(active),
           active[first] \in Deps(Top),
           NEW S \in SUBSET Module, Sound(S)
    PROVE  S \cap {active[k] : k \in first .. Len(active)} = {}
<1> DEFINE T == S \cap {active[k] : k \in first .. Len(active)}
<1>0. Len(active) \in Nat /\ first \in 1 .. Len(active)
  BY RegistryTyped
<1>1. SUFFICES ASSUME T # {} PROVE FALSE
  OBVIOUS
<1>2. T \subseteq S /\ T # {}
  BY <1>1
<1>3. PICK m \in T : registry[m].deps \cap T = {}
  BY <1>2 DEF Sound
<1>4. PICK k \in first .. Len(active) : m = active[k]
  OBVIOUS
<1>5. registry[m].deps \subseteq S
  BY <1>3 DEF Sound
<1>6. CASE k = Len(active)
  <2>1. active[first] \in registry[m].deps
    BY <1>4, <1>6 DEF Deps, Top
  <2>2. active[first] \in T
    BY <2>1, <1>0, <1>5
  <2> QED
    BY <2>1, <2>2, <1>3
<1>7. CASE k # Len(active)
  <2>0. k \in 1 .. Len(active) /\ k + 1 <= Len(active) /\ k + 1 \in first .. Len(active)
    BY <1>0, <1>4, <1>7
  <2>1. active[k + 1] \in registry[m].deps
    BY <2>0, <1>4 DEF PathInv, Deps
  <2>2. active[k + 1] \in T
    BY <2>0, <2>1, <1>5
  <2> QED
    BY <2>1, <2>2, <1>3
<1> QED
  BY <1>6, <1>7

LEMMA DependencyKeeps ==
    ASSUME RegistryInv, NEW p \in Process, VisitDependency(p)
    PROVE  RegistryInv'
<1>0. /\ active \in Seq(Module) /\ left \in [Module -> SUBSET Module]
      /\ visited \cup cycles \subseteq Module
      /\ \A k \in 1 .. Len(active) : active[k] \in Module
      /\ Len(active) \in Nat /\ DOMAIN active = 1 .. Len(active)
      /\ Len(active) \in 1 .. Len(active) /\ Top \in Module
  BY RegistryTyped DEF RegistryInv, VisitDependency
<1> DEFINE Remaining(node) == [left EXCEPT ![Top] = @ \ {node}]
<1>1. PICK node \in left[Top] :
          \/ \E first \in DOMAIN active :
                /\ active[first] = node
                /\ cycles' = cycles \cup {active[k] : k \in first .. Len(active)}
                /\ left' = Remaining(node)
                /\ UNCHANGED <<active, visited>>
          \/ /\ node \in visited
             /\ left' = Remaining(node)
             /\ UNCHANGED <<active, visited, cycles>>
          \/ /\ node \notin visited /\ \A k \in DOMAIN active : active[k] # node
             /\ Enter(node, Remaining(node))
  BY DEF VisitDependency
<1>2. /\ refresh[p].at = "visit" /\ active # <<>>
      /\ UNCHANGED <<registry, refresh, fresh, settled, writes>>
  BY DEF VisitDependency, Turn
<1>3. Remaining(node) \in [Module -> SUBSET Module]
  BY <1>0
<1>4. node \in Deps(Top) /\ node \in Registered
  BY <1>0, <1>1 DEF RegistryInv, PathInv, Top
<1>5. /\ \A m \in Module : Deps(m)' = Deps(m)
      /\ Registered' = Registered
      /\ \A S \in SUBSET Module : Sound(S)' <=> Sound(S)
  BY <1>2 DEF Deps, Registered, Sound, Eligible
<1>6. /\ \A m \in Module : m # Top => Remaining(node)[m] = left[m]
      /\ Remaining(node)[Top] = left[Top] \ {node}
  BY <1>0
<1>7. CASE /\ node \in visited
           /\ left' = Remaining(node)
           /\ UNCHANGED <<active, visited, cycles>>
  <2>1. ASSUME NEW k \in 1 .. Len(active), NEW d \in Deps(active[k]) \cap Registered
        PROVE  \/ d \in left'[active[k]] \cup visited
               \/ active[k] \in cycles
               \/ k + 1 <= Len(active) /\ d = active[k + 1]
    <3>1. \/ d \in left[active[k]] \cup visited
          \/ active[k] \in cycles
          \/ k + 1 <= Len(active) /\ d = active[k + 1]
      BY <2>1 DEF RegistryInv, PathInv
    <3>2. d \in left[active[k]] => d \in left'[active[k]] \/ d = node
      BY <1>0, <1>6, <1>7
    <3> QED
      BY <3>1, <3>2, <1>7
  <2>4. \A k \in 1 .. Len(active) : left'[active[k]] \subseteq left[active[k]]
    BY <1>0, <1>6, <1>7
  <2>2. PathInv'
    BY <2>1, <2>4, <1>0, <1>5, <1>7 DEF RegistryInv, PathInv
  <2>3. VisitedInv'
    BY <1>0, <1>2, <1>5, <1>7 DEF RegistryInv, VisitedInv, Grounded, Deps
  <2> QED
    BY <2>2, <2>3, <1>0, <1>2, <1>3, <1>7, SearchKeeps
<1>8. CASE \E first \in DOMAIN active :
              /\ active[first] = node
              /\ cycles' = cycles \cup {active[k] : k \in first .. Len(active)}
              /\ left' = Remaining(node)
              /\ UNCHANGED <<active, visited>>
  <2>0. PICK first \in 1 .. Len(active) :
              /\ active[first] = node
              /\ cycles' = cycles \cup {active[k] : k \in first .. Len(active)}
              /\ left' = Remaining(node)
              /\ UNCHANGED <<active, visited>>
    BY <1>0, <1>8
  <2> DEFINE loop == {active[k] : k \in first .. Len(active)}
  <2>1. loop \subseteq Registered /\ Top \in loop
    BY <1>0 DEF RegistryInv, PathInv, Top
  <2>2. cycles' = cycles \cup loop /\ UNCHANGED <<active, visited>> /\ left' = Remaining(node)
    BY <2>0
  <2> HIDE DEF loop
  <2>3. ASSUME NEW k \in 1 .. Len(active), NEW d \in Deps(active[k]) \cap Registered
        PROVE  \/ d \in left'[active[k]] \cup visited
               \/ active[k] \in cycles'
               \/ k + 1 <= Len(active) /\ d = active[k + 1]
    <3>1. \/ d \in left[active[k]] \cup visited
          \/ active[k] \in cycles
          \/ k + 1 <= Len(active) /\ d = active[k + 1]
      BY <2>3 DEF RegistryInv, PathInv
    <3>2. active[k] # Top => left'[active[k]] = left[active[k]]
      BY <1>0, <1>6, <2>2
    <3> QED
      BY <3>1, <3>2, <2>1, <2>2
  <2>9. \A k \in 1 .. Len(active) : left'[active[k]] \subseteq left[active[k]]
    BY <1>0, <1>6, <2>2
  <2>4. PathInv'
    BY <2>1, <2>2, <2>3, <2>9, <1>0, <1>5 DEF RegistryInv, PathInv
  <2>5. visited' \ cycles' \subseteq visited \ cycles /\ visited' = visited
    BY <2>2
  <2>6. ASSUME NEW S \in SUBSET Module, Sound(S) PROVE S \cap cycles' = {}
    <3>1. S \cap loop = {}
      BY <2>0, <2>6, <1>0, <1>2, <1>4, CycleMissed DEF RegistryInv, loop
    <3> QED
      BY <3>1, <2>2, <2>6 DEF RegistryInv, VisitedInv
  <2>7. VisitedInv'
    <3>1. \A m \in visited' \ cycles' : Deps(m)' \cap Registered' \subseteq visited'
      BY <2>5, <1>0, <1>5 DEF RegistryInv, VisitedInv
    <3>2. Grounded(visited \ cycles)'
      BY <2>5, <1>2 DEF RegistryInv, VisitedInv, Grounded, Deps
    <3> QED
      BY <3>1, <3>2, <2>6, <1>5 DEF VisitedInv
  <2>8. visited' \cup cycles' \subseteq Module
    BY <2>1, <2>2, <1>0 DEF Registered
  <2> QED
    BY <2>2, <2>4, <2>7, <2>8, <1>0, <1>2, <1>3, SearchKeeps
<1>9. CASE /\ node \notin visited /\ \A k \in DOMAIN active : active[k] # node
           /\ Enter(node, Remaining(node))
  BY <1>9, <1>0, <1>2, <1>3, <1>4, EnterKeeps
<1> QED
  BY <1>1, <1>7, <1>8, <1>9

\* The visit of a node ends: all it depends on has been visited, or it is on a
\* cycle loop.
LEMMA LeaveKeeps ==
    ASSUME RegistryInv, NEW p \in Process, LeaveNode(p)
    PROVE  RegistryInv'
<1>0. /\ active \in Seq(Module) /\ left \in [Module -> SUBSET Module]
      /\ visited \cup cycles \subseteq Module
      /\ \A k \in 1 .. Len(active) : active[k] \in Module
      /\ Len(active) \in Nat /\ DOMAIN active = 1 .. Len(active)
      /\ Len(active) \in 1 .. Len(active) /\ Top \in Module
  BY RegistryTyped DEF RegistryInv, LeaveNode
<1>1. /\ refresh[p].at = "visit" /\ left[Top] = {}
      /\ visited' = visited \cup {Top} /\ left' = left /\ cycles' = cycles
      /\ active' = SubSeq(active, 1, Len(active) - 1)
      /\ UNCHANGED <<registry, refresh, fresh, settled, writes>>
  BY DEF LeaveNode, Turn
<1> DEFINE n == Len(active) - 1
<1>n. n \in Nat /\ Len(active) = n + 1
  BY <1>0
<1>2. active' \in Seq(Module) /\ Len(active') = n /\ \A k \in 1 .. n : active'[k] = active[k]
  <2>1. \A k \in 1 .. n : active[k] \in Module
    BY <1>0, <1>n
  <2>2. /\ SubSeq(active, 1, n) \in Seq(Module)
        /\ Len(SubSeq(active, 1, n)) = IF 1 <= n THEN n - 1 + 1 ELSE 0
        /\ \A k \in 1 .. n - 1 + 1 : SubSeq(active, 1, n)[k] = active[1 + k - 1]
    <3> HIDE DEF n
    <3> QED
      BY <2>1, <1>n, SubSeqProperties
  <2> QED
    BY <2>2, <1>1, <1>n
<1> HIDE DEF n
<1>3. /\ \A m \in Module : Deps(m)' = Deps(m)
      /\ Registered' = Registered
      /\ \A S \in SUBSET Module : Sound(S)' <=> Sound(S)
  BY <1>1 DEF Deps, Registered, Sound, Eligible
<1>4. Top = active[n + 1] /\ \A k \in 1 .. n : active[k] # Top /\ active[k] \in Module
  BY <1>n, <1>0 DEF Top, RegistryInv, PathInv
<1>5. Top \notin cycles => Deps(Top) \cap Registered \subseteq visited
  BY <1>n, <1>1, <1>4 DEF RegistryInv, PathInv
<1>6. Top \in Registered /\ Top \notin visited
  BY <1>n, <1>4 DEF RegistryInv, PathInv
<1>7. PathInv'
  <2>1. visited' \cup cycles' \subseteq Registered'
    BY <1>1, <1>3, <1>6 DEF RegistryInv, PathInv
  <2>2. \A k \in 1 .. n : active[k] \in Registered \ visited'
    BY <1>n, <1>1, <1>4 DEF RegistryInv, PathInv
  <2>3. \A j, k \in 1 .. n : active[j] = active[k] => j = k
    BY <1>n DEF RegistryInv, PathInv
  <2>4. \A k \in 1 .. n : k + 1 <= n => active[k + 1] \in Deps(active[k])
    BY <1>n DEF RegistryInv, PathInv
  <2>5. \A k \in 1 .. n : left[active[k]] \subseteq Deps(active[k]) \cap Registered
    BY <1>n DEF RegistryInv, PathInv
  <2>6. ASSUME NEW k \in 1 .. n, NEW d \in Deps(active[k]) \cap Registered
        PROVE  \/ d \in left[active[k]] \cup visited'
               \/ active[k] \in cycles
               \/ k + 1 <= n /\ d = active[k + 1]
    <3>1. k \in 1 .. Len(active)
      BY <1>n
    <3>2. \/ d \in left[active[k]] \cup visited
          \/ active[k] \in cycles
          \/ k + 1 <= Len(active) /\ d = active[k + 1]
      BY <3>1, <2>6 DEF RegistryInv, PathInv
    <3>3. k + 1 <= n \/ k + 1 = n + 1
      BY <1>n
    <3> QED
      BY <3>2, <3>3, <1>1, <1>4
  <2>7. /\ \A k \in 1 .. Len(active') : active'[k] \in Registered' \ visited'
        /\ \A j, k \in 1 .. Len(active') : active'[j] = active'[k] => j = k
    BY <2>2, <2>3, <1>2, <1>3
  <2>8. \A k \in 1 .. Len(active') : k + 1 <= Len(active') => active'[k + 1] \in registry'[active'[k]].deps
    <3> SUFFICES ASSUME NEW k \in 1 .. n, k + 1 <= n PROVE active'[k + 1] \in registry[active'[k]].deps
      BY <1>1, <1>2
    <3>1. k + 1 \in 1 .. n
      BY <1>n
    <3> QED
      BY <3>1, <2>4, <1>2 DEF Deps
  <2>9. \A k \in 1 .. Len(active') : left'[active'[k]] \subseteq registry'[active'[k]].deps \cap Registered'
    BY <2>5, <1>1, <1>2, <1>3 DEF Deps
  <2>10. ASSUME NEW k \in 1 .. n, NEW d \in registry'[active'[k]].deps \cap Registered'
         PROVE  \/ d \in left'[active'[k]] \cup visited'
                \/ active'[k] \in cycles'
                \/ k + 1 <= n /\ d = active'[k + 1]
    <3>1. k + 1 <= n => active'[k + 1] = active[k + 1]
      BY <1>n, <1>2
    <3>2. active'[k] = active[k] /\ d \in Deps(active[k]) \cap Registered
      BY <2>10, <1>1, <1>2, <1>3 DEF Deps
    <3> QED
      BY <3>1, <3>2, <2>6, <1>1
  <2> QED
    BY <2>1, <2>7, <2>8, <2>9, <2>10, <1>2 DEF PathInv, Deps
<1>8. VisitedInv'
  <2>1. \A m \in visited' \ cycles' : Deps(m)' \cap Registered' \subseteq visited'
    BY <1>0, <1>1, <1>3, <1>5 DEF RegistryInv, VisitedInv
  <2>2. ASSUME NEW T \in SUBSET (visited' \ cycles'), T # {}
        PROVE  \E m \in T : Deps(m) \cap T = {}
    <3>1. CASE Top \notin T
      BY <3>1, <2>2, <1>1 DEF RegistryInv, VisitedInv, Grounded
    <3>2. CASE T = {Top}
      BY <3>2, <1>0 DEF RegistryInv, RegistryTypeOK, Deps
    <3>3. CASE Top \in T /\ T # {Top}
      <4> DEFINE rest == T \ {Top}
      <4>1. rest \in SUBSET (visited \ cycles) /\ rest # {}
        BY <3>3, <2>2, <1>1
      <4>2. PICK m \in rest : Deps(m) \cap rest = {}
        BY <4>1 DEF RegistryInv, VisitedInv, Grounded
      <4>3. Deps(m) \cap Registered \subseteq visited
        BY <4>1 DEF RegistryInv, VisitedInv
      <4> QED
        BY <4>2, <4>3, <1>6
    <3> QED
      BY <3>1, <3>2, <3>3
  <2>3. Grounded(visited \ cycles)'
    BY <2>2, <1>0, <1>1, <1>3 DEF Grounded
  <2>4. \A S \in SUBSET Module : Sound(S)' => S \cap cycles' = {}
    BY <1>1, <1>3 DEF RegistryInv, VisitedInv
  <2> QED
    BY <2>1, <2>3, <2>4 DEF VisitedInv
<1> QED
  BY <1>0, <1>1, <1>2, <1>7, <1>8, SearchKeeps

\* The steps that start the search.
LEMMA ReadKeepsRegistry ==
    ASSUME RegistryInv, NEW p \in Process, ReadRows(p)
    PROVE  RegistryInv'
<1>0. RegistryTypeOK
  BY DEF RegistryInv
<1>1. /\ refresh' = [refresh EXCEPT ![p].at = "visit"] /\ fresh' = fresh \cup {p}
      /\ UNCHANGED <<registry, active, left, visited, cycles, settled, writes>>
  BY DEF ReadRows, searchVars
<1>2. refresh' \in [Process -> [at : {"idle", "sync", "read", "visit", "settle", "write"}, states : Computed]]
  BY <1>0, <1>1 DEF RegistryTypeOK
<1>3. RegistryTypeOK'
  BY <1>0, <1>1, <1>2 DEF RegistryTypeOK
<1>4. active = <<>> /\ visited = {} /\ cycles = {}
  BY NobodyVisits DEF ReadRows, RegistryInv, Turn
<1>5. refresh'[p].at = "visit" /\ \A q \in Process \ {p} : refresh'[q] = refresh[q]
  BY <1>0, <1>1 DEF RegistryTypeOK
<1>6. OneComputes'
  BY <1>1, <1>4, <1>5 DEF ReadRows, Turn, OneComputes, Computing
<1>7. PathInv' /\ VisitedInv'
  BY <1>1, <1>4 DEF PathInv, VisitedInv, Grounded
<1>9. ComputedInv'
  <2> SUFFICES ASSUME NEW q \in Process, q # p, refresh[q].at \notin {"visit", "settle"}
               PROVE  /\ refresh'[q].at = "settle" => Settling(refresh[q].states)'
                      /\ refresh'[q].at = "write" /\ q \in fresh' =>
                           /\ Settling(refresh[q].states)'
                           /\ \A m \in Enabled(refresh[q].states)' : Deps(m)' \subseteq Enabled(refresh[q].states)'
    BY <1>5 DEF ComputedInv, ReadRows, Turn
  <2>1. refresh'[q] = refresh[q]
    BY <1>5
  <2> QED
    BY <2>1, <1>1, SettlingSame DEF RegistryInv, ComputedInv, Enabled, Deps
<1>10. StatesSettled'
  BY <1>1 DEF RegistryInv, StatesSettled, Sound, Eligible
<1>11. StillThere'
  BY <1>1, <1>5 DEF RegistryInv, StillThere, Registered
<1> QED
  BY <1>3, <1>6, <1>7, <1>9, <1>10, <1>11 DEF RegistryInv

\* The search is over: every registered module has been visited.
LEMMA OwnStatesKeeps ==
    ASSUME RegistryInv, NEW p \in Process, OwnStates(p)
    PROVE  RegistryInv'
<1> DEFINE computed == [m \in Registered |-> OwnState(m)]
<1>0. RegistryTypeOK
  BY DEF RegistryInv
<1>1. /\ refresh[p].at = "visit" /\ active = <<>> /\ Registered \subseteq visited
      /\ refresh' = [refresh EXCEPT ![p] = [at |-> "settle", states |-> computed]]
      /\ visited' = {} /\ cycles' = {}
      /\ UNCHANGED <<registry, active, left, fresh, settled, writes>>
  BY DEF OwnStates, Turn
<1>2. Registered \subseteq Module
  BY DEF Registered
<1>3. computed \in Computed
  <2>1. computed \in [Registered -> ModuleState]
    BY DEF OwnState, ModuleState
  <2> QED
    BY <2>1, <1>2 DEF Computed
<1>4. \A m \in Registered : computed[m] = "enabled" <=>
          Eligible(m) /\ m \notin cycles /\ Deps(m) \subseteq Registered
  <2> SUFFICES ASSUME NEW m \in Registered
               PROVE  OwnState(m) = "enabled" <=>
                        Eligible(m) /\ m \notin cycles /\ Deps(m) \subseteq Registered
    OBVIOUS
  <2>1. registry[m].valid \in BOOLEAN /\ registry[m].quarantined \in BOOLEAN /\ registry[m].wanted \in BOOLEAN
    BY <1>0, <1>2 DEF RegistryTypeOK, Row
  <2> QED
    BY <2>1 DEF OwnState, Eligible, Deps
<1> HIDE DEF computed
<1>5. Enabled(computed) = {m \in Registered : Eligible(m) /\ m \notin cycles /\ Deps(m) \subseteq Registered}
      /\ DOMAIN computed = Registered
  BY <1>4 DEF Enabled, computed
<1>6. Settling(computed)
  <2>1. \A m \in Enabled(computed) : Eligible(m) /\ Deps(m) \subseteq Registered
    BY <1>5
  <2>2. Grounded(Enabled(computed))
    <3>1. Enabled(computed) \subseteq visited \ cycles
      BY <1>1, <1>5
    <3> QED
      BY <3>1 DEF RegistryInv, VisitedInv, Grounded
  <2>3. ASSUME NEW S \in SUBSET Module, Sound(S) PROVE S \subseteq Enabled(computed)
    <3>1. \A m \in S : Eligible(m) /\ Deps(m) \subseteq S
      BY <2>3 DEF Sound, Deps
    <3>2. S \subseteq Registered
      BY <3>1, <2>3 DEF Eligible, Registered, Unregistered
    <3>3. S \cap cycles = {}
      BY <2>3 DEF RegistryInv, VisitedInv
    <3> QED
      BY <3>1, <3>2, <3>3, <1>5
  <2> QED
    BY <2>1, <2>2, <2>3, <1>5 DEF Settling
<1>7. refresh'[p] = [at |-> "settle", states |-> computed] /\ \A q \in Process \ {p} : refresh'[q] = refresh[q]
  BY <1>0, <1>1 DEF RegistryTypeOK
<1>8. RegistryTypeOK'
  <2>1. refresh' \in [Process -> [at : {"idle", "sync", "read", "visit", "settle", "write"}, states : Computed]]
    BY <1>0, <1>1, <1>3 DEF RegistryTypeOK
  <2> QED
    BY <2>1, <1>0, <1>1 DEF RegistryTypeOK
<1>9. \A q \in Process \ {p} : refresh[q].at \notin {"visit", "settle"}
  BY DEF OwnStates, Turn
<1>10. OneComputes'
  BY <1>1, <1>7, <1>9 DEF OneComputes, Computing, RegistryInv
<1>11. PathInv' /\ VisitedInv'
  BY <1>1 DEF PathInv, VisitedInv, Grounded
<1>12. ASSUME NEW q \in Process
       PROVE  /\ refresh'[q].at = "settle" => Settling(refresh[q].states)'
              /\ refresh'[q].at = "write" /\ q \in fresh' =>
                    /\ Settling(refresh[q].states)'
                    /\ \A m \in Enabled(refresh[q].states)' : Deps(m)' \subseteq Enabled(refresh[q].states)'
  <2>1. CASE q = p
    <3>1. Enabled(refresh[p].states)' = Enabled(computed)
      BY <1>7 DEF Enabled
    <3>2. Grounded(Enabled(refresh[p].states))'
      BY <3>1, <1>1, <1>6 DEF Settling, Grounded, Deps
    <3>3. /\ \A S \in SUBSET Module : Sound(S)' <=> Sound(S)
          /\ Registered' = Registered
      BY <1>1 DEF Sound, Eligible, Registered
    <3>4. Settling(refresh[p].states)'
      BY <3>1, <3>2, <3>3, <1>1, <1>6, <1>7 DEF Settling, Eligible, Deps
    <3> QED
      BY <2>1, <3>4, <1>7
  <2>2. CASE q # p
    <3>1. refresh'[q] = refresh[q]
      BY <2>2, <1>7
    <3> QED
      BY <2>2, <3>1, <1>1, <1>9, SettlingSame DEF RegistryInv, ComputedInv, Enabled, Deps
  <2> QED
    BY <2>1, <2>2
<1>13. ComputedInv'
  BY <1>12 DEF ComputedInv
<1>14. StatesSettled'
  BY <1>1 DEF RegistryInv, StatesSettled, Sound, Eligible
<1>15. StillThere'
  BY <1>1, <1>7 DEF RegistryInv, StillThere, Registered
<1> QED
  BY <1>8, <1>10, <1>11, <1>13, <1>14, <1>15 DEF RegistryInv

\* What is taken back for want of a dependency could not be enabled: no set of
\* modules that can work contains it.
LEMMA BlockKeeps ==
    ASSUME RegistryInv, NEW p \in Process, BlockModule(p)
    PROVE  RegistryInv'
<1> DEFINE old == refresh[p].states
<1>0. RegistryTypeOK
  BY DEF RegistryInv
<1>1. PICK m \in Blocked(old) : refresh' = [refresh EXCEPT ![p].states[m] = "unavailable"]
  BY DEF BlockModule
<1>2. /\ refresh[p].at = "settle"
      /\ UNCHANGED <<registry, active, left, visited, cycles, fresh, settled, writes>>
      /\ \A q \in Process \ {p} : refresh[q].at \notin {"visit", "settle"}
  BY DEF BlockModule, Turn, searchVars
<1> DEFINE new == [old EXCEPT ![m] = "unavailable"]
<1>3. PICK R \in SUBSET Module : old \in [R -> ModuleState]
  <2>1. old \in Computed
    BY <1>0 DEF RegistryTypeOK
  <2> QED
    BY <2>1 DEF Computed
<1>4. m \in R /\ old[m] = "enabled" /\ \E d \in Deps(m) : old[d] # "enabled"
  BY <1>1, <1>3 DEF Blocked, Deps
<1>5. new \in [R -> ModuleState] /\ Enabled(new) = Enabled(old) \ {m} /\ DOMAIN new = DOMAIN old
  BY <1>3, <1>4 DEF Enabled, ModuleState
<1>6. /\ refresh'[p].states = new /\ refresh'[p].at = "settle"
      /\ \A q \in Process \ {p} : refresh'[q] = refresh[q]
      /\ refresh' \in [Process -> [at : {"idle", "sync", "read", "visit", "settle", "write"}, states : Computed]]
  <2>1. refresh' = [refresh EXCEPT ![p] = [@ EXCEPT !.states = new]]
    BY <1>0, <1>1 DEF RegistryTypeOK
  <2>2. new \in Computed
    BY <1>5 DEF Computed
  <2> HIDE DEF new
  <2> QED
    BY <2>1, <2>2, <1>0, <1>2 DEF RegistryTypeOK
<1>7. Settling(old)
  BY <1>2 DEF RegistryInv, ComputedInv
<1> HIDE DEF new
<1>8. Settling(new)
  <2>1. \A k \in Enabled(new) : Eligible(k) /\ Deps(k) \subseteq Registered
    BY <1>5, <1>7 DEF Settling
  <2>2. Grounded(Enabled(new))
    BY <1>5, <1>7 DEF Settling, Grounded
  <2>3. ASSUME NEW S \in SUBSET Module, Sound(S) PROVE S \subseteq Enabled(new)
    <3>1. S \subseteq Enabled(old)
      BY <2>3, <1>7 DEF Settling
    <3>2. m \notin S
      <4>1. PICK d \in Deps(m) : old[d] # "enabled"
        BY <1>4
      <4>2. m \in S => d \in S
        BY <4>1, <2>3 DEF Sound, Deps
      <4>3. d \notin Enabled(old)
        BY <4>1 DEF Enabled
      <4> QED
        BY <3>1, <4>2, <4>3
    <3> QED
      BY <3>1, <3>2, <1>5
  <2> QED
    BY <2>1, <2>2, <2>3, <1>5, <1>7 DEF Settling
<1>9. RegistryTypeOK'
  BY <1>0, <1>2, <1>6 DEF RegistryTypeOK
<1>10. OneComputes'
  BY <1>2, <1>6 DEF OneComputes, Computing, RegistryInv
<1>11. PathInv' /\ VisitedInv'
  <2>1. active' = <<>> /\ visited' = {} /\ cycles' = {}
    BY NobodyVisits, <1>2 DEF RegistryInv, BlockModule, Turn
  <2> QED
    BY <2>1 DEF PathInv, VisitedInv, Grounded
<1>12. ComputedInv'
  <2>1. Settling(refresh[p].states)'
    <3>1. Enabled(refresh[p].states)' = Enabled(new)
      BY <1>6 DEF Enabled
    <3>2. Grounded(Enabled(refresh[p].states))'
      BY <3>1, <1>2, <1>8 DEF Settling, Grounded, Deps
    <3>3. /\ \A S \in SUBSET Module : Sound(S)' <=> Sound(S)
          /\ Registered' = Registered
      BY <1>2 DEF Sound, Eligible, Registered
    <3> QED
      BY <3>1, <3>2, <3>3, <1>2, <1>6, <1>8 DEF Settling, Eligible, Deps
  <2>2. ASSUME NEW q \in Process, q # p
        PROVE  /\ refresh'[q].at = "settle" => Settling(refresh[q].states)'
               /\ refresh'[q].at = "write" /\ q \in fresh' =>
                     /\ Settling(refresh[q].states)'
                     /\ \A k \in Enabled(refresh[q].states)' : Deps(k)' \subseteq Enabled(refresh[q].states)'
    <3>1. refresh'[q] = refresh[q]
      BY <2>2, <1>6
    <3> QED
      BY <3>1, <1>2, SettlingSame DEF RegistryInv, ComputedInv, Enabled, Deps
  <2> QED
    BY <2>1, <2>2, <1>6 DEF ComputedInv
<1>13. StatesSettled'
  BY <1>2 DEF RegistryInv, StatesSettled, Sound, Eligible
<1>14. StillThere'
  BY <1>2, <1>6 DEF RegistryInv, StillThere, Registered
<1> QED
  BY <1>9, <1>10, <1>11, <1>12, <1>13, <1>14 DEF RegistryInv

LEMMA EndKeepsRegistry ==
    ASSUME RegistryInv, NEW p \in Process, EndComputing(p)
    PROVE  RegistryInv'
<1> DEFINE states == refresh[p].states
<1>0. RegistryTypeOK
  BY DEF RegistryInv
<1>1. /\ refresh[p].at = "settle" /\ Blocked(states) = {}
      /\ refresh' = [refresh EXCEPT ![p].at = "write"]
      /\ UNCHANGED <<registry, active, left, visited, cycles, fresh, settled, writes>>
      /\ \A q \in Process \ {p} : refresh[q].at \notin {"visit", "settle"}
  BY DEF EndComputing, Turn, searchVars
<1>2. /\ refresh'[p].states = states /\ refresh'[p].at = "write"
      /\ \A q \in Process \ {p} : refresh'[q] = refresh[q]
      /\ refresh' \in [Process -> [at : {"idle", "sync", "read", "visit", "settle", "write"}, states : Computed]]
  BY <1>0, <1>1 DEF RegistryTypeOK
<1>3. RegistryTypeOK'
  BY <1>0, <1>1, <1>2 DEF RegistryTypeOK
<1>4. active = <<>> /\ visited = {} /\ cycles = {}
  BY NobodyVisits, <1>1 DEF RegistryInv, EndComputing, Turn
<1>5. OneComputes'
  BY <1>1, <1>2, <1>4 DEF OneComputes, Computing
<1>6. PathInv' /\ VisitedInv'
  BY <1>1, <1>4 DEF PathInv, VisitedInv, Grounded
<1>7. Settling(states)
  BY <1>1 DEF RegistryInv, ComputedInv
<1>8. \A m \in Enabled(states) : Deps(m) \subseteq Enabled(states)
  <2> SUFFICES ASSUME NEW m \in Enabled(states), NEW d \in Deps(m) PROVE d \in Enabled(states)
    OBVIOUS
  <2>1. states[d] = "enabled"
    BY <1>1 DEF Blocked, Enabled, Deps
  <2>2. d \in DOMAIN states
    BY <1>7 DEF Settling
  <2> QED
    BY <2>1, <2>2 DEF Enabled
<1>9. ComputedInv'
  <2>1. /\ Settling(refresh[p].states)'
        /\ \A m \in Enabled(refresh[p].states)' : Deps(m)' \subseteq Enabled(refresh[p].states)'
    <3>1. Enabled(refresh[p].states)' = Enabled(states)
      BY <1>2 DEF Enabled
    <3>2. Grounded(Enabled(refresh[p].states))'
      BY <3>1, <1>1, <1>7 DEF Settling, Grounded, Deps
    <3>3. /\ \A S \in SUBSET Module : Sound(S)' <=> Sound(S)
          /\ Registered' = Registered
      BY <1>1 DEF Sound, Eligible, Registered
    <3>4. \A m \in Module : Deps(m)' = Deps(m)
      BY <1>1 DEF Deps
    <3>5. Enabled(states) \subseteq Module
      BY <1>7 DEF Settling, Enabled, Registered
    <3> QED
      BY <3>1, <3>2, <3>3, <3>4, <3>5, <1>1, <1>2, <1>7, <1>8 DEF Settling, Eligible, Deps
  <2>2. ASSUME NEW q \in Process, q # p
        PROVE  /\ refresh'[q].at = "settle" => Settling(refresh[q].states)'
               /\ refresh'[q].at = "write" /\ q \in fresh' =>
                     /\ Settling(refresh[q].states)'
                     /\ \A k \in Enabled(refresh[q].states)' : Deps(k)' \subseteq Enabled(refresh[q].states)'
    <3>1. refresh'[q] = refresh[q]
      BY <2>2, <1>2
    <3> QED
      BY <3>1, <1>1, SettlingSame DEF RegistryInv, ComputedInv, Enabled, Deps
  <2> QED
    BY <2>1, <2>2, <1>2 DEF ComputedInv
<1>10. StatesSettled'
  BY <1>1 DEF RegistryInv, StatesSettled, Sound, Eligible
<1>11. StillThere'
  <2>1. DOMAIN states \subseteq Registered
    BY <1>7 DEF Settling
  <2> QED
    BY <2>1, <1>1, <1>2 DEF RegistryInv, StillThere, Registered
<1> QED
  BY <1>3, <1>5, <1>6, <1>9, <1>10, <1>11 DEF RegistryInv

\* Writing the states touches nothing that the states are computed from.
LEMMA WriteKeepsRegistry ==
    ASSUME RegistryInv, NEW p \in Process, WriteStates(p)
    PROVE  RegistryInv'
<1> DEFINE states == refresh[p].states
<1>0. RegistryTypeOK
  BY DEF RegistryInv
<1>1. /\ refresh[p].at = "write"
      /\ registry' = [m \in Module |-> IF m \in DOMAIN states
                                       THEN [registry[m] EXCEPT !.state = states[m]] ELSE registry[m]]
      /\ refresh' = [refresh EXCEPT ![p] = Idle]
      /\ settled' = (p \in fresh)
      /\ UNCHANGED <<active, left, visited, cycles, fresh, writes>>
      /\ \A q \in Process \ {p} : refresh[q].at \notin {"visit", "settle"}
  BY DEF WriteStates, Turn, searchVars
<1>2. \A m \in DOMAIN states : states[m] \in ModuleState
  <2>1. states \in Computed
    BY <1>0 DEF RegistryTypeOK
  <2>2. PICK R \in SUBSET Module : states \in [R -> ModuleState]
    BY <2>1 DEF Computed
  <2> QED
    BY <2>2
<1>3. \A m \in DOMAIN states : m \in Module /\ registry[m] # Unregistered
  BY <1>1 DEF RegistryInv, StillThere, Registered
<1>4. ASSUME NEW m \in Module
      PROVE  /\ registry'[m] \in Row
             /\ registry'[m].deps = registry[m].deps /\ registry'[m].valid = registry[m].valid
             /\ registry'[m].wanted = registry[m].wanted
             /\ registry'[m].quarantined = registry[m].quarantined
             /\ registry'[m].state = IF m \in DOMAIN states THEN states[m] ELSE registry[m].state
             /\ registry'[m] = Unregistered <=> registry[m] = Unregistered
             /\ registry'[m].state = "none" <=> registry'[m] = Unregistered
  <2>0. registry[m] \in Row /\ (registry[m].state = "none" <=> registry[m] = Unregistered)
    BY <1>0 DEF RegistryTypeOK
  <2>1. CASE m \in DOMAIN states
    <3>1. registry'[m] = [registry[m] EXCEPT !.state = states[m]]
      BY <2>1, <1>1
    <3>2. states[m] \in ModuleState /\ registry[m] # Unregistered
      BY <2>1, <1>2, <1>3
    <3> HIDE DEF states
    <3>3. states[m] # "none"
      BY <3>2 DEF ModuleState
    <3>4. /\ registry'[m] \in Row
          /\ registry'[m].deps = registry[m].deps /\ registry'[m].valid = registry[m].valid
          /\ registry'[m].wanted = registry[m].wanted
          /\ registry'[m].quarantined = registry[m].quarantined
          /\ registry'[m].state = states[m]
      BY <3>1, <3>2, <2>0 DEF Row
    <3> QED
      BY <2>1, <3>2, <3>3, <3>4 DEF Unregistered
  <2>2. CASE m \notin DOMAIN states
    BY <2>0, <2>2, <1>1
  <2> QED
    BY <2>1, <2>2
<1>5. /\ \A S \in SUBSET Module : Sound(S)' <=> Sound(S)
      /\ \A m \in Module : Eligible(m)' <=> Eligible(m)
      /\ \A m \in Module : Deps(m)' = Deps(m)
      /\ Registered' = Registered
  <2>1. \A m \in Module : Eligible(m)' <=> Eligible(m)
    BY <1>4 DEF Eligible
  <2>2. \A m \in Module : registry'[m].deps = registry[m].deps
    BY <1>4
  <2>3. \A S \in SUBSET Module : Sound(S)' <=> Sound(S)
    <3> SUFFICES ASSUME NEW S \in SUBSET Module PROVE Sound(S)' <=> Sound(S)
      OBVIOUS
    <3>1. \A T \in (SUBSET S) \ {{}} : (\E m \in T : registry'[m].deps \cap T = {})
                                 <=> (\E m \in T : registry[m].deps \cap T = {})
      BY <2>2
    <3>2. (\A m \in S : Eligible(m)' /\ registry'[m].deps \subseteq S)
             <=> (\A m \in S : Eligible(m) /\ registry[m].deps \subseteq S)
      BY <2>1, <2>2
    <3> QED
      BY <3>1, <3>2 DEF Sound
  <2>4. Registered' = Registered
    BY <1>4 DEF Registered
  <2> QED
    BY <2>1, <2>2, <2>3, <2>4 DEF Deps
<1>6. /\ refresh'[p] = Idle
      /\ \A q \in Process \ {p} : refresh'[q] = refresh[q]
      /\ refresh' \in [Process -> [at : {"idle", "sync", "read", "visit", "settle", "write"}, states : Computed]]
  <2>1. Idle \in [at : {"idle", "sync", "read", "visit", "settle", "write"}, states : Computed]
    BY IdleTyped
  <2> QED
    BY <2>1, <1>0, <1>1 DEF RegistryTypeOK
<1>7. RegistryTypeOK'
  <2>1. registry' \in [Module -> Row]
    BY <1>1, <1>4
  <2>2. \A m \in Module : m \notin registry'[m].deps
    BY <1>0, <1>4 DEF RegistryTypeOK
  <2>3. settled' \in BOOLEAN
    BY <1>1
  <2> QED
    BY <2>1, <2>2, <2>3, <1>0, <1>1, <1>4, <1>6 DEF RegistryTypeOK
<1>8. active = <<>> /\ visited = {} /\ cycles = {}
  BY NobodyVisits, <1>1 DEF RegistryInv, WriteStates, Turn
<1>9. OneComputes'
  BY <1>1, <1>6, <1>8 DEF OneComputes, Computing, Idle
<1>10. PathInv' /\ VisitedInv'
  BY <1>1, <1>8 DEF PathInv, VisitedInv, Grounded
<1>11. ASSUME NEW q \in Process, q # p
       PROVE  /\ refresh'[q].at = "settle" => Settling(refresh[q].states)'
              /\ refresh'[q].at = "write" /\ q \in fresh' =>
                    /\ Settling(refresh[q].states)'
                    /\ \A k \in Enabled(refresh[q].states)' : Deps(k)' \subseteq Enabled(refresh[q].states)'
  <2>1. refresh'[q] = refresh[q] /\ refresh[q].at # "settle"
    BY <1>1, <1>6, <1>11
  <2> SUFFICES ASSUME refresh[q].at = "write", q \in fresh
               PROVE  /\ Settling(refresh[q].states)'
                      /\ \A k \in Enabled(refresh[q].states)' : Deps(k)' \subseteq Enabled(refresh[q].states)'
    BY <2>1, <1>1
  <2>2. Settling(refresh[q].states) /\ \A k \in Enabled(refresh[q].states) : Deps(k) \subseteq Enabled(refresh[q].states)
    BY DEF RegistryInv, ComputedInv
  <2>3. Enabled(refresh[q].states)' = Enabled(refresh[q].states) /\ Enabled(refresh[q].states) \subseteq Module
    BY <2>1, <2>2 DEF Enabled, Settling, Registered
  <2>4. Grounded(Enabled(refresh[q].states))'
    BY <2>2, <2>3, <1>5 DEF Settling, Grounded
  <2> QED
    BY <2>1, <2>2, <2>3, <2>4, <1>5 DEF Settling
<1>12. ComputedInv'
  BY <1>6, <1>11 DEF ComputedInv, Idle
<1>13. StillThere'
  BY <1>5, <1>6 DEF RegistryInv, StillThere, Idle
<1>14. StatesSettled'
  <2> SUFFICES ASSUME p \in fresh
               PROVE  {m \in Module : registry'[m].state = "enabled"} = UNION {S \in SUBSET Module : Sound(S)}
    BY <1>1, <1>5 DEF StatesSettled
  <2> DEFINE E == Enabled(states)
  <2>1. Settling(states) /\ \A m \in E : Deps(m) \subseteq E
    BY <1>1 DEF RegistryInv, ComputedInv
  <2>2. {m \in Module : registry'[m].state = "enabled"} = E
    <3>1. \A m \in Module : m \notin DOMAIN states => registry[m].state = "none"
      BY <2>1, <1>0 DEF Settling, Registered, RegistryTypeOK
    <3>2. DOMAIN states \subseteq Module
      BY <2>1 DEF Settling, Registered
    <3> QED
      BY <3>1, <3>2, <1>4 DEF Enabled
  <2>3. Sound(E) /\ E \in SUBSET Module
    <3>1. E \in SUBSET Module
      BY <2>1 DEF Settling, Registered, Enabled
    <3>2. \A m \in E : Eligible(m) /\ registry[m].deps \subseteq E
      BY <2>1 DEF Settling, Deps
    <3>3. \A T \in SUBSET E : T # {} => \E m \in T : registry[m].deps \cap T = {}
      BY <2>1 DEF Settling, Grounded, Deps
    <3> HIDE DEF E
    <3>4. \A T \in (SUBSET E) \ {{}} : \E m \in T : registry[m].deps \cap T = {}
      BY <3>3
    <3> QED
      BY <3>1, <3>2, <3>4 DEF Sound
  <2>4. \A S \in SUBSET Module : Sound(S) => S \subseteq E
    BY <2>1 DEF Settling
  <2> HIDE DEF E
  <2> QED
    BY <2>2, <2>3, <2>4
<1> QED
  BY <1>7, <1>9, <1>10, <1>12, <1>13, <1>14 DEF RegistryInv

LEMMA DiesKeepsRegistry ==
    ASSUME RegistryInv, NEW p \in Process, RegistryProcessDies(p)
    PROVE  RegistryInv'
<1>0. RegistryTypeOK
  BY DEF RegistryInv
<1>1. /\ refresh' = [refresh EXCEPT ![p] = Idle]
      /\ UNCHANGED <<registry, active, left, visited, cycles, fresh, settled, writes>>
      /\ \A q \in Process : refresh[q].at \notin {"visit", "settle"}
  BY DEF RegistryProcessDies, Turn, searchVars
<1>2. /\ refresh'[p] = Idle /\ \A q \in Process \ {p} : refresh'[q] = refresh[q]
      /\ refresh' \in [Process -> [at : {"idle", "sync", "read", "visit", "settle", "write"}, states : Computed]]
  BY IdleTyped, <1>0, <1>1 DEF RegistryTypeOK
<1>3. RegistryTypeOK'
  BY <1>0, <1>1, <1>2 DEF RegistryTypeOK
<1>4. active = <<>> /\ visited = {} /\ cycles = {}
  BY <1>1 DEF RegistryInv, OneComputes
<1>5. OneComputes'
  BY <1>1, <1>2, <1>4 DEF OneComputes, Computing, Idle
<1>6. PathInv' /\ VisitedInv'
  BY <1>1, <1>4 DEF PathInv, VisitedInv, Grounded
<1>7. ASSUME NEW q \in Process, q # p
      PROVE  /\ refresh'[q].at = "settle" => Settling(refresh[q].states)'
             /\ refresh'[q].at = "write" /\ q \in fresh' =>
                   /\ Settling(refresh[q].states)'
                   /\ \A k \in Enabled(refresh[q].states)' : Deps(k)' \subseteq Enabled(refresh[q].states)'
  <2>1. refresh'[q] = refresh[q]
    BY <1>2, <1>7
  <2> QED
    BY <2>1, <1>1, SettlingSame DEF RegistryInv, ComputedInv, Enabled, Deps
<1>8. ComputedInv'
  BY <1>2, <1>7 DEF ComputedInv, Idle
<1>9. StillThere'
  BY <1>1, <1>2 DEF RegistryInv, StillThere, Registered, Idle
<1>10. StatesSettled'
  <2>1. UNCHANGED <<registry, settled>>
    BY <1>1
  <2> QED
    BY <2>1 DEF RegistryInv, StatesSettled, Sound, Eligible
<1> QED
  BY <1>3, <1>5, <1>6, <1>8, <1>9, <1>10 DEF RegistryInv

LEMMA RegistryNextKeeps == RegistryInv /\ [RegistryNext]_registryVars => RegistryInv'
<1> SUFFICES ASSUME RegistryInv, [RegistryNext]_registryVars PROVE RegistryInv'
  OBVIOUS
<1>1. CASE UNCHANGED registryVars
  <2>1. \A q \in Process : Settling(refresh[q].states) => Settling(refresh[q].states)'
    BY <1>1, SettlingSame DEF registryVars
  <2>2. RegistryTypeOK' /\ OneComputes'
    BY <1>1 DEF registryVars, RegistryInv, RegistryTypeOK, OneComputes, Computing
  <2>3. PathInv'
    BY <1>1 DEF registryVars, RegistryInv, PathInv, Deps, Registered
  <2>4. VisitedInv'
    BY <1>1 DEF registryVars, RegistryInv, VisitedInv, Grounded, Deps, Registered, Sound, Eligible
  <2>5. ComputedInv'
    BY <1>1, <2>1 DEF registryVars, RegistryInv, ComputedInv, Enabled, Deps
  <2>6. StillThere' /\ StatesSettled'
    BY <1>1 DEF registryVars, RegistryInv, StillThere, Registered, StatesSettled, Sound, Eligible
  <2> QED
    BY <2>2, <2>3, <2>4, <2>5, <2>6 DEF RegistryInv
<1>2. ASSUME NEW p \in Process, NEW m \in Module,
             Upsert(p, m) \/ MarkInvalid(p, m) \/ SetEnabled(p, m) \/ QuarantineModule(p, m)
      PROVE  RegistryInv'
  BY <1>2, RowChangeKeeps
<1>3. ASSUME NEW p \in Process, ReadRows(p) \/ VisitRoot(p) \/ VisitDependency(p) \/ LeaveNode(p)
      PROVE  RegistryInv'
  BY <1>3, ReadKeepsRegistry, RootKeeps, DependencyKeeps, LeaveKeeps
<1>4. ASSUME NEW p \in Process,
             OwnStates(p) \/ BlockModule(p) \/ EndComputing(p) \/ WriteStates(p) \/ RegistryProcessDies(p)
      PROVE  RegistryInv'
  BY <1>4, OwnStatesKeeps, BlockKeeps, EndKeepsRegistry, WriteKeepsRegistry, DiesKeepsRegistry
<1> QED
  BY <1>1, <1>2, <1>3, <1>4 DEF RegistryNext

\* The invariant of the registry: the search has passed nothing over, and what is
\* computed from fresh rows contains every set of modules that can work.
THEOREM RegistryInvariant == RegistrySpec => []RegistryInv
<1>1. RegistryInv /\ [RegistryNext]_registryVars => RegistryInv'
  BY RegistryNextKeeps
<1> QED
  BY <1>1, RegistryStarts, PTL DEF RegistrySpec

\* The rows and what processes compute from them are what they are meant to be.
THEOREM RegistryTypeCorrect == RegistrySpec => []RegistryTypeOK
<1>1. RegistryInv => RegistryTypeOK
  BY DEF RegistryInv
<1> QED
  BY <1>1, RegistryInvariant, PTL

\* After a refresh that saw the rows as they are (refresh_states), exactly the
\* modules that can work are enabled, for every graph of dependencies and every
\* number of processes: the search for cycles and the loop over what is blocked
\* together find the largest set that is closed under dependencies and free of
\* cycles.
THEOREM StatesSettledAlways == RegistrySpec => []StatesSettled
<1>1. RegistryInv => StatesSettled
  BY DEF RegistryInv
<1> QED
  BY <1>1, RegistryInvariant, PTL

-----------------------------------------------------------------------------
(* The copy. *)

\* The states in which nothing has gone wrong yet.
Forward == {"plan", "mkdir", "space", "item", "target", "destination", "temporary",
            "copying", "verify", "publish", "stream"}

\* Where a failure has been noted and where it cannot have been.
OutcomeFollowsPhase ==
    /\ pc \in Forward => outcome = "none"
    /\ pc = "unlink" => outcome \in {"none", "raised"}
    /\ pc \in {"rollback", "rmdir"} => outcome \in {"raised", "rollback_incomplete"}
    /\ outcome = "copied" => pc = "end"

\* The item being copied is one of the plan's.
ItemInPlan ==
    pc \in {"target", "destination", "temporary", "copying", "verify", "publish",
           "stream", "unlink"} => item \in Item

\* What is about to be published has been compared with what was approved.
PublishesVerified == pc \in {"publish", "stream"} => temp.content = "copy"

NothingWrong == \A d \in Dir, i \in Item : entry[d][i] # "wrong"

\* A partial file is being streamed, or the operation failed or died over it.
PartialExplained ==
    \A d \in Dir, i \in Item :
        entry[d][i] = "partial" =>
            /\ ~hardlinks
            /\ \/ pc = "stream" /\ i = item
               \/ outcome \in {"raised", "rollback_incomplete"}
               \/ pc = "dead"

\* The inductive invariant.
CopyInv ==
    /\ TypeOK
    /\ OutcomeFollowsPhase
    /\ ItemInPlan
    /\ PublishesVerified
    /\ NothingWrong
    /\ PartialExplained

-----------------------------------------------------------------------------

\* The invariant holds before anything is copied.
LEMMA CopyInvInit == Init => CopyInv
<1> SUFFICES ASSUME Init PROVE CopyInv
  OBVIOUS
<1>1. TypeOK
  <2>1. entry \in [Dir -> [Item -> Entry]]
    BY DEF Init, Entry
  <2>2. item \in 1 .. N + 1 /\ moves \in 0 .. MaxMoves
    BY SizeAssumption, MovesAssumption DEF Init
  <2>3. created \in Seq(Item) /\ touched \subseteq Item
    BY DEF Init
  <2>4. temp \in [dir : Dir \cup {NoDir}, content : {"none", "empty", "copy", "wrong"}]
    BY DEF Init, NoTemp
  <2>5. /\ source \in [Item -> {"approved", "changed"}]
        /\ named \in Dir \cup {NoDir} /\ identity \in Dir \cup {NoDir}
        /\ hardlinks \in BOOLEAN /\ createdDirectory \in BOOLEAN /\ swapped \in BOOLEAN
        /\ pc \in PC /\ outcome \in Outcome
    BY DEF Init, PC, Outcome
  <2> QED BY <2>1, <2>2, <2>3, <2>4, <2>5 DEF TypeOK
<1>2. /\ OutcomeFollowsPhase /\ ItemInPlan /\ PublishesVerified
      /\ NothingWrong /\ PartialExplained
  BY DEF Init, OutcomeFollowsPhase, ItemInPlan, PublishesVerified, NothingWrong, PartialExplained
<1> QED BY <1>1, <1>2 DEF CopyInv

\* One destination name changed: the table keeps its type, and every other
\* name its content.
LEMMA SetEntryTyped ==
    ASSUME entry \in [Dir -> [Item -> Entry]],
           NEW d \in Dir, NEW i \in Item, NEW e \in Entry, SetEntry(d, i, e)
    PROVE  /\ entry' \in [Dir -> [Item -> Entry]]
           /\ entry'[d][i] = e
           /\ \A c \in Dir, j \in Item : c # d \/ j # i => entry'[c][j] = entry[c][j]
BY DEF SetEntry

\* A step that changes no destination name and does not start to publish.
LEMMA EntriesUntouched ==
    ASSUME CopyInv, UNCHANGED <<entry, hardlinks>>,
           pc # "stream", pc # "dead",
           outcome \in {"raised", "rollback_incomplete"} =>
               outcome' \in {"raised", "rollback_incomplete"}
    PROVE  NothingWrong' /\ PartialExplained'
BY DEF CopyInv, NothingWrong, PartialExplained

\* The steps before the first file is copied.
LEMMA SetUpKeepsInv ==
    ASSUME CopyInv, Begin \/ MakeDirectory \/ SpaceCheck
    PROVE  CopyInv'
<1>1. TypeOK'
  BY DEF CopyInv, Begin, MakeDirectory, SpaceCheck, TypeOK, Goto, PC, Outcome, disk, user
<1>2. OutcomeFollowsPhase' /\ ItemInPlan' /\ PublishesVerified'
  BY DEF CopyInv, Begin, MakeDirectory, SpaceCheck, Goto, OutcomeFollowsPhase, Forward,
         ItemInPlan, PublishesVerified, disk, user
<1>3. outcome = "none" /\ UNCHANGED <<entry, hardlinks>> /\ pc \notin {"stream", "dead"}
  BY DEF CopyInv, Begin, MakeDirectory, SpaceCheck, OutcomeFollowsPhase, Forward, disk
<1>4. NothingWrong' /\ PartialExplained'
  BY <1>3, EntriesUntouched
<1> QED BY <1>1, <1>2, <1>4 DEF CopyInv

\* The checks before a temporary file is made.
LEMMA ChecksKeepInv ==
    ASSUME CopyInv, CheckSource \/ CheckTarget \/ CheckDestination
    PROVE  CopyInv'
<1> USE SizeAssumption
<1>1. TypeOK'
  BY DEF CopyInv, CheckSource, CheckTarget, CheckDestination, TypeOK, Goto, Raise, PC,
         Outcome, disk, user
<1>2. OutcomeFollowsPhase' /\ PublishesVerified'
  BY DEF CopyInv, CheckSource, CheckTarget, CheckDestination, Goto, Raise,
         OutcomeFollowsPhase, Forward, PublishesVerified, disk, user
<1>3. ItemInPlan'
  BY DEF CopyInv, TypeOK, CheckSource, CheckTarget, CheckDestination, Goto, Raise,
         ItemInPlan, Item, disk, user
<1>4. outcome = "none" /\ UNCHANGED <<entry, hardlinks>> /\ pc \notin {"stream", "dead"}
  BY DEF CopyInv, CheckSource, CheckTarget, CheckDestination, OutcomeFollowsPhase,
         Forward, disk
<1>5. NothingWrong' /\ PartialExplained'
  BY <1>4, EntriesUntouched
<1> QED BY <1>1, <1>2, <1>3, <1>5 DEF CopyInv

\* The steps that fill and check the temporary file.
LEMMA TemporaryKeepsInv ==
    ASSUME CopyInv, MakeTemporary \/ CopyContent \/ VerifyCopy
    PROVE  CopyInv'
<1> DEFINE Temp == [dir : Dir \cup {NoDir}, content : {"none", "empty", "copy", "wrong"}]
<1>1. temp' \in Temp
  <2>1. temp \in Temp /\ named \in Dir \cup {NoDir}
    BY DEF CopyInv, TypeOK
  <2>2. CASE MakeTemporary
    BY <2>1, <2>2 DEF MakeTemporary
  <2>3. CASE CopyContent
    <3>1. \/ UNCHANGED temp
          \/ temp' = [temp EXCEPT !.content = "copy"]
          \/ temp' = [temp EXCEPT !.content = "wrong"]
      BY <2>3, Zenon DEF CopyContent
    <3> QED BY <2>1, <3>1
  <2>4. CASE VerifyCopy
    BY <2>1, <2>4 DEF VerifyCopy
  <2> QED BY <2>2, <2>3, <2>4
<1>2. UNCHANGED <<source, entry, named, hardlinks, item, created, createdDirectory,
                  identity, touched, swapped, moves>>
  BY Zenon DEF MakeTemporary, CopyContent, VerifyCopy, disk, user
<1>3. pc' \in PC /\ outcome' \in Outcome
  BY DEF CopyInv, TypeOK, MakeTemporary, CopyContent, VerifyCopy, Goto, Raise,
         RaiseWithTemporary, PC, Outcome
<1>4. TypeOK'
  BY <1>1, <1>2, <1>3 DEF CopyInv, TypeOK
<1>5. OutcomeFollowsPhase' /\ PublishesVerified'
  BY DEF CopyInv, MakeTemporary, CopyContent, VerifyCopy, Goto, Raise,
         RaiseWithTemporary, OutcomeFollowsPhase, Forward, PublishesVerified
<1>6. ItemInPlan'
  BY <1>2 DEF CopyInv, MakeTemporary, CopyContent, VerifyCopy, ItemInPlan
<1>7. outcome = "none" /\ pc \notin {"stream", "dead"}
  BY DEF CopyInv, MakeTemporary, CopyContent, VerifyCopy, OutcomeFollowsPhase, Forward
<1>8. NothingWrong' /\ PartialExplained'
  BY <1>2, <1>7, EntriesUntouched
<1> QED BY <1>4, <1>5, <1>6, <1>8 DEF CopyInv

\* Publication puts only verified content, or the beginning of it, in place.
LEMMA PublishKeepsInv ==
    ASSUME CopyInv, Publish
    PROVE  CopyInv'
<1>1. /\ outcome = "none" /\ pc = "publish" /\ item \in Item /\ temp.content = "copy"
      /\ entry \in [Dir -> [Item -> Entry]]
  BY DEF CopyInv, TypeOK, Publish, OutcomeFollowsPhase, Forward, ItemInPlan,
         PublishesVerified
<1>2. CASE /\ hardlinks /\ TemporaryThere
           /\ SetEntry(named, item, temp.content)
           /\ created' = Append(created, item)
           /\ Goto("unlink")
           /\ UNCHANGED outcome
           /\ UNCHANGED <<source, named, hardlinks, item, createdDirectory, identity, temp, user>>
  <2>1. named \in Dir /\ "copy" \in Entry
    BY <1>2 DEF CopyInv, TypeOK, TemporaryThere, Entry
  <2>2. /\ entry' \in [Dir -> [Item -> Entry]]
        /\ entry'[named][item] = "copy"
        /\ \A c \in Dir, j \in Item : c # named \/ j # item => entry'[c][j] = entry[c][j]
    BY <1>1, <1>2, <2>1, SetEntryTyped
  <2>3. TypeOK'
    BY <1>1, <1>2, <2>2 DEF CopyInv, TypeOK, Goto, PC, user
  <2>4. OutcomeFollowsPhase' /\ ItemInPlan' /\ PublishesVerified'
    BY <1>1, <1>2 DEF CopyInv, OutcomeFollowsPhase, Forward, ItemInPlan,
                      PublishesVerified, Goto
  <2>5. NothingWrong' /\ PartialExplained'
    BY <1>1, <1>2, <2>1, <2>2 DEF CopyInv, NothingWrong, PartialExplained
  <2> QED BY <2>3, <2>4, <2>5 DEF CopyInv
<1>3. CASE /\ ~hardlinks /\ TemporaryThere
           /\ SetEntry(named, item, "partial")
           /\ created' = Append(created, item)
           /\ Goto("stream")
           /\ UNCHANGED outcome
           /\ UNCHANGED <<source, named, hardlinks, item, createdDirectory, identity, temp, user>>
  <2>1. named \in Dir /\ "partial" \in Entry
    BY <1>3 DEF CopyInv, TypeOK, TemporaryThere, Entry
  <2>2. /\ entry' \in [Dir -> [Item -> Entry]]
        /\ entry'[named][item] = "partial"
        /\ \A c \in Dir, j \in Item : c # named \/ j # item => entry'[c][j] = entry[c][j]
    BY <1>1, <1>3, <2>1, SetEntryTyped
  <2>3. TypeOK'
    BY <1>1, <1>3, <2>2 DEF CopyInv, TypeOK, Goto, PC, user
  <2>4. OutcomeFollowsPhase' /\ ItemInPlan' /\ PublishesVerified'
    BY <1>1, <1>3 DEF CopyInv, OutcomeFollowsPhase, Forward, ItemInPlan,
                      PublishesVerified, Goto
  <2>5. NothingWrong' /\ PartialExplained'
    BY <1>1, <1>3, <2>1, <2>2 DEF CopyInv, NothingWrong, PartialExplained, Goto
  <2> QED BY <2>3, <2>4, <2>5 DEF CopyInv
<1>4. CASE /\ RaiseWithTemporary
           /\ UNCHANGED <<entry, created>>
           /\ UNCHANGED <<source, named, hardlinks, item, createdDirectory, identity, temp, user>>
  <2>1. TypeOK'
    BY <1>4 DEF CopyInv, TypeOK, RaiseWithTemporary, Goto, PC, Outcome, user
  <2>2. OutcomeFollowsPhase' /\ ItemInPlan' /\ PublishesVerified'
    BY <1>1, <1>4 DEF CopyInv, OutcomeFollowsPhase, Forward, ItemInPlan,
                      PublishesVerified, RaiseWithTemporary, Goto
  <2>3. NothingWrong' /\ PartialExplained'
    BY <1>1, <1>4, EntriesUntouched
  <2> QED BY <2>1, <2>2, <2>3 DEF CopyInv
<1> QED BY <1>2, <1>3, <1>4 DEF Publish

\* Streaming turns the partial file into the verified one, or fails over it.
LEMMA StreamKeepsInv ==
    ASSUME CopyInv, Stream
    PROVE  CopyInv'
<1>1. /\ outcome = "none" /\ pc = "stream" /\ item \in Item /\ temp.content = "copy"
      /\ entry \in [Dir -> [Item -> Entry]]
      /\ UNCHANGED <<hardlinks, item, temp>>
  BY DEF CopyInv, TypeOK, Stream, OutcomeFollowsPhase, Forward, ItemInPlan,
         PublishesVerified
<1>2. ItemInPlan' /\ OutcomeFollowsPhase' /\ PublishesVerified'
  BY <1>1 DEF Stream, ItemInPlan, OutcomeFollowsPhase, Forward, PublishesVerified, Goto,
              RaiseWithTemporary
<1>3. CASE /\ entry' = [d \in Dir |-> [entry[d] EXCEPT ![item] =
                           IF @ = "partial" THEN temp.content ELSE @]]
           /\ Goto("unlink")
           /\ UNCHANGED outcome
  <2>1. \A d \in Dir, i \in Item :
            entry'[d][i] = IF i = item /\ entry[d][i] = "partial" THEN "copy" ELSE entry[d][i]
    BY <1>1, <1>3
  <2>2. entry' \in [Dir -> [Item -> Entry]]
    <3>1. \A d \in Dir : entry'[d] = [entry[d] EXCEPT ![item] =
                             IF @ = "partial" THEN temp.content ELSE @]
      BY <1>3
    <3>2. \A d \in Dir : entry'[d] \in [Item -> Entry]
      <4> SUFFICES ASSUME NEW d \in Dir PROVE entry'[d] \in [Item -> Entry]
        OBVIOUS
      <4>1. entry[d] \in [Item -> Entry] /\ "copy" \in Entry
        BY <1>1 DEF Entry
      <4>2. \/ entry'[d] = [entry[d] EXCEPT ![item] = "copy"]
            \/ entry'[d] = [entry[d] EXCEPT ![item] = entry[d][item]]
        BY <1>1, <3>1
      <4> QED BY <1>1, <4>1, <4>2
    <3> DEFINE Streamed(d) == [entry[d] EXCEPT ![item] =
                                  IF @ = "partial" THEN temp.content ELSE @]
    <3>3. entry' = [d \in Dir |-> Streamed(d)] /\ \A d \in Dir : Streamed(d) \in [Item -> Entry]
      BY <1>3, <3>1, <3>2
    <3> HIDE DEF Streamed
    <3> QED BY <3>3
  <2>3. TypeOK'
    BY <1>3, <2>2 DEF CopyInv, TypeOK, Stream, Goto, PC, user
  <2>4. NothingWrong' /\ PartialExplained'
    BY <1>1, <1>3, <2>1 DEF CopyInv, NothingWrong, PartialExplained
  <2> QED BY <1>2, <2>3, <2>4 DEF CopyInv
<1>4. CASE RaiseWithTemporary /\ UNCHANGED entry
  <2>1. TypeOK'
    BY <1>4 DEF CopyInv, TypeOK, Stream, RaiseWithTemporary, Goto, PC, Outcome, user
  <2>2. NothingWrong' /\ PartialExplained'
    BY <1>1, <1>4 DEF CopyInv, NothingWrong, PartialExplained, RaiseWithTemporary
  <2> QED BY <1>2, <2>1, <2>2 DEF CopyInv
<1> QED BY <1>3, <1>4 DEF Stream

\* Unlinking the temporary file ends an item, or begins the rollback.
LEMMA UnlinkTemporaryKeepsInv ==
    ASSUME CopyInv, UnlinkTemporary
    PROVE  CopyInv'
<1>1. temp' \in [dir : Dir \cup {NoDir}, content : {"none", "empty", "copy", "wrong"}]
  BY DEF CopyInv, TypeOK, UnlinkTemporary, NoTemp
<1>2. item' \in 1 .. N + 1
  BY SizeAssumption DEF CopyInv, TypeOK, UnlinkTemporary, ItemInPlan, Item
<1>3. TypeOK'
  BY <1>1, <1>2 DEF CopyInv, TypeOK, UnlinkTemporary, Goto, PC, disk, user
<1>4. OutcomeFollowsPhase' /\ ItemInPlan' /\ PublishesVerified'
  BY DEF CopyInv, UnlinkTemporary, Goto, OutcomeFollowsPhase, Forward, ItemInPlan,
         PublishesVerified
<1>5. NothingWrong' /\ PartialExplained'
  BY EntriesUntouched DEF UnlinkTemporary, disk
<1> QED BY <1>3, <1>4, <1>5 DEF CopyInv

\* Undoing one target removes a name; it starts after a failure was noted.
LEMMA RollbackKeepsInv ==
    ASSUME CopyInv, Rollback
    PROVE  CopyInv'
<1>1. outcome' \in {"raised", "rollback_incomplete"} /\ pc' \in {"rollback", "rmdir"}
  BY DEF CopyInv, OutcomeFollowsPhase, Rollback, Goto
<1>2. /\ created' \in Seq(Item)
      /\ created # <<>> => created[Len(created)] \in Item
  BY DEF CopyInv, TypeOK, Rollback
<1>3. /\ entry' \in [Dir -> [Item -> Entry]]
      /\ \A d \in Dir, i \in Item : entry'[d][i] # "none" => entry'[d][i] = entry[d][i]
  <2>1. CASE UNCHANGED entry
    BY <2>1 DEF CopyInv, TypeOK
  <2>2. CASE /\ created # <<>> /\ named # NoDir
             /\ SetEntry(named, created[Len(created)], "none")
    <3>1. named \in Dir /\ created[Len(created)] \in Item /\ "none" \in Entry
      BY <1>2, <2>2 DEF CopyInv, TypeOK, Entry
    <3>2. entry \in [Dir -> [Item -> Entry]]
      BY DEF CopyInv, TypeOK
    <3>3. /\ entry' \in [Dir -> [Item -> Entry]]
          /\ entry'[named][created[Len(created)]] = "none"
          /\ \A c \in Dir, j \in Item :
                 c # named \/ j # created[Len(created)] => entry'[c][j] = entry[c][j]
      BY <2>2, <3>1, <3>2, SetEntryTyped
    <3> QED BY <3>1, <3>3
  <2> QED BY <2>1, <2>2 DEF Rollback
<1>4. TypeOK'
  BY <1>1, <1>2, <1>3 DEF CopyInv, TypeOK, Rollback, PC, Outcome, user
<1>5. OutcomeFollowsPhase' /\ ItemInPlan' /\ PublishesVerified'
  BY <1>1 DEF OutcomeFollowsPhase, Forward, ItemInPlan, PublishesVerified
<1>6. NothingWrong' /\ PartialExplained'
  BY <1>1, <1>3 DEF CopyInv, NothingWrong, PartialExplained, Rollback
<1> QED BY <1>1, <1>4, <1>5, <1>6 DEF CopyInv

\* Removing the directory, and dying, end the thread.
LEMMA EndsKeepInv ==
    ASSUME CopyInv, RemoveDirectory \/ Crash
    PROVE  CopyInv'
<1>1. TypeOK'
  BY DEF CopyInv, TypeOK, RemoveDirectory, Crash, Goto, PC, Outcome, disk, user
<1>2. UNCHANGED <<entry, hardlinks>>
  BY DEF RemoveDirectory, Crash, disk
<1>3. OutcomeFollowsPhase' /\ ItemInPlan' /\ PublishesVerified'
  BY DEF CopyInv, RemoveDirectory, Crash, Goto, OutcomeFollowsPhase, Forward, ItemInPlan,
         PublishesVerified
<1>4. NothingWrong' /\ PartialExplained'
  <2>1. CASE RemoveDirectory
    <3>1. /\ outcome \in {"raised", "rollback_incomplete"}
          /\ outcome' \in {"raised", "rollback_incomplete"}
      BY <2>1 DEF CopyInv, OutcomeFollowsPhase, RemoveDirectory
    <3> QED BY <1>2, <3>1 DEF CopyInv, NothingWrong, PartialExplained
  <2>2. CASE Crash
    BY <1>2, <2>2 DEF CopyInv, Crash, Goto, NothingWrong, PartialExplained
  <2> QED BY <2>1, <2>2
<1> QED BY <1>1, <1>3, <1>4 DEF CopyInv

\* What the user does changes neither what the thread knows nor adds a file of
\* the thread's.
LEMMA UserKeepsInv ==
    ASSUME CopyInv, UserStep
    PROVE  CopyInv'
<1>1. UNCHANGED <<hardlinks, pc, item, created, createdDirectory, identity, temp, outcome>>
  BY DEF UserStep, ChangeSource, ChangeEntry, ChangeDirectory, thread
<1>2. moves' \in 0 .. MaxMoves
  BY MovesAssumption DEF CopyInv, TypeOK, UserStep, ChangeSource, ChangeEntry,
         ChangeDirectory, Move
<1>3. /\ source' \in [Item -> {"approved", "changed"}]
      /\ named' \in Dir \cup {NoDir}
      /\ touched' \subseteq Item /\ swapped' \in BOOLEAN
  <2>1. ASSUME NEW i \in Item, ChangeSource(i) \/ ChangeEntry(i)
        PROVE  /\ source' \in [Item -> {"approved", "changed"}]
               /\ named' = named /\ touched' \subseteq Item /\ swapped' = swapped
    BY <2>1 DEF CopyInv, TypeOK, ChangeSource, ChangeEntry
  <2>2. CASE ChangeDirectory
    BY <2>2 DEF CopyInv, TypeOK, ChangeDirectory
  <2> QED BY <2>1, <2>2 DEF CopyInv, TypeOK, UserStep
<1>4. /\ entry' \in [Dir -> [Item -> Entry]]
      /\ \A d \in Dir, i \in Item :
             entry'[d][i] \in {"none", "user"} \/ entry'[d][i] = entry[d][i]
  <2>1. CASE UNCHANGED entry
    BY <2>1 DEF CopyInv, TypeOK
  <2>2. ASSUME NEW i \in Item, ChangeEntry(i)
        PROVE  /\ entry' \in [Dir -> [Item -> Entry]]
               /\ \A d \in Dir, j \in Item :
                      entry'[d][j] \in {"none", "user"} \/ entry'[d][j] = entry[d][j]
    <3>1. PICK e \in {"none", "user"} : SetEntry(named, i, e)
      BY <2>2 DEF ChangeEntry
    <3>2. named \in Dir /\ e \in Entry /\ entry \in [Dir -> [Item -> Entry]]
      BY <2>2 DEF CopyInv, TypeOK, ChangeEntry, Entry
    <3>3. /\ entry' \in [Dir -> [Item -> Entry]]
          /\ entry'[named][i] = e
          /\ \A c \in Dir, j \in Item : c # named \/ j # i => entry'[c][j] = entry[c][j]
      BY <3>1, <3>2, SetEntryTyped
    <3> QED BY <3>2, <3>3
  <2> QED BY <2>1, <2>2 DEF UserStep, ChangeSource, ChangeDirectory
<1>5. TypeOK'
  BY <1>1, <1>2, <1>3, <1>4 DEF CopyInv, TypeOK
<1>6. OutcomeFollowsPhase' /\ ItemInPlan' /\ PublishesVerified'
  BY <1>1 DEF CopyInv, OutcomeFollowsPhase, ItemInPlan, PublishesVerified
<1>7. NothingWrong' /\ PartialExplained'
  BY <1>1, <1>4 DEF CopyInv, NothingWrong, PartialExplained
<1> QED BY <1>5, <1>6, <1>7 DEF CopyInv

\* Every step of the specification keeps the invariant.
LEMMA CopyInvNext == CopyInv /\ [Next]_vars => CopyInv'
<1> SUFFICES ASSUME CopyInv, [Next]_vars PROVE CopyInv'
  OBVIOUS
<1>1. CASE ThreadStep
  BY <1>1, SetUpKeepsInv, ChecksKeepInv, TemporaryKeepsInv, PublishKeepsInv,
     StreamKeepsInv, UnlinkTemporaryKeepsInv, RollbackKeepsInv, EndsKeepInv
     DEF ThreadStep
<1>2. CASE UserStep
  BY <1>2, UserKeepsInv
<1>3. CASE Crash
  BY <1>3, EndsKeepInv
<1>4. CASE UNCHANGED vars
  BY <1>4 DEF vars, disk, thread, user, CopyInv, TypeOK, OutcomeFollowsPhase, ItemInPlan,
              PublishesVerified, NothingWrong, PartialExplained
<1> QED BY <1>1, <1>2, <1>3, <1>4 DEF Next

\* Every state of the copy satisfies the inductive invariant.
THEOREM CopyInvariant == Spec => []CopyInv
<1> QED BY CopyInvInit, CopyInvNext, PTL DEF Spec

\* The copy's state stays within its types (execute's locals and the disk).
THEOREM CopyTypeCorrect == Spec => []TypeOK
<1>1. CopyInv => TypeOK
  BY DEF CopyInv
<1> QED BY <1>1, CopyInvariant, PTL

\* Only approved content is published, and success leaves no partial file,
\* whatever the user does to the sources and the directories meanwhile.
THEOREM OnlyApprovedContent == Spec => []ApprovedContentOnly
<1>1. CopyInv => ApprovedContentOnly
  BY DEF CopyInv, NothingWrong, PartialExplained, OutcomeFollowsPhase, Forward,
         ApprovedContentOnly
<1> QED BY <1>1, CopyInvariant, PTL

\* One step that takes a file of the user's away from a destination name is
\* the user's own, or undoes a target.
LEMMA UserFileSurvivesStep ==
    ASSUME CopyInv, [Next]_vars,
           NEW d \in Dir, NEW i \in Item, entry[d][i] = "user", entry'[d][i] # "user"
    PROVE  moves' # moves \/ pc = "rollback"
<1>1. CASE UNCHANGED entry
  BY <1>1
<1>2. CASE UserStep
  <2>1. moves' # moves
    BY <1>2 DEF UserStep, ChangeSource, ChangeEntry, ChangeDirectory, Move, CopyInv, TypeOK
  <2> QED BY <2>1
<1>3. CASE Rollback
  BY <1>3 DEF Rollback
<1>4. CASE Publish
  <2>1. item \in Item /\ entry \in [Dir -> [Item -> Entry]]
        /\ named \in Dir \cup {NoDir} /\ temp.content = "copy"
    BY <1>4 DEF CopyInv, TypeOK, ItemInPlan, PublishesVerified, Publish
  <2>2. CASE UNCHANGED entry
    BY <2>2
  <2>3. ASSUME NEW e \in {"copy", "partial"}, SetEntry(named, item, e),
               TemporaryThere, entry[named][item] = "none"
        PROVE  FALSE
    <3>1. named \in Dir /\ e \in Entry
      BY <2>1, <2>3 DEF TemporaryThere, Entry
    <3>2. \A c \in Dir, j \in Item : c # named \/ j # item => entry'[c][j] = entry[c][j]
      BY <2>1, <2>3, <3>1, SetEntryTyped
    <3> QED BY <2>3, <3>2
  <2>4. \/ UNCHANGED entry
        \/ \E e \in {"copy", "partial"} :
               SetEntry(named, item, e) /\ TemporaryThere /\ entry[named][item] = "none"
    BY <1>4, <2>1 DEF Publish
  <2> QED BY <2>2, <2>3, <2>4
<1>5. CASE Stream
  <2>1. item \in Item /\ entry \in [Dir -> [Item -> Entry]]
    BY <1>5 DEF CopyInv, TypeOK, ItemInPlan, Stream
  <2>2. CASE UNCHANGED entry
    BY <2>2
  <2>3. CASE entry' = [c \in Dir |-> [entry[c] EXCEPT ![item] =
                        IF @ = "partial" THEN temp.content ELSE @]]
    BY <2>1, <2>3
  <2> QED BY <1>5, <2>2, <2>3 DEF Stream
<1> QED
  BY <1>1, <1>2, <1>3, <1>4, <1>5
  DEF Next, ThreadStep, Begin, MakeDirectory, SpaceCheck, CheckSource, CheckTarget,
      CheckDestination, MakeTemporary, CopyContent, VerifyCopy, UnlinkTemporary,
      RemoveDirectory, Crash, vars, disk

\* Before the rollback, no file of the user's is replaced or removed by the
\* copy: what it writes was nothing, or its own partial file, before.
THEOREM NothingClobbered == Spec => NoClobber
<1>1. CopyInv /\ [Next]_vars =>
          [\A d \in Dir, i \in Item :
              entry[d][i] = "user" /\ entry'[d][i] # "user" =>
                  moves' # moves \/ pc = "rollback"]_vars
  BY UserFileSurvivesStep
<1> QED BY <1>1, CopyInvariant, PTL DEF Spec, NoClobber

-----------------------------------------------------------------------------
(* All or nothing. *)

Before == {"plan", "mkdir", "space"}
WithTemporary == {"copying", "verify", "publish", "stream", "unlink"}
Working == {"item", "target", "destination", "temporary"} \cup WithTemporary

Copied(i) == i \in touched \/ entry[named][i] = "copy"

\* Published and not rolled back.
Listed(i) == \E k \in 1 .. Len(created) : created[k] = i

\* Where the operation is, while the destination path keeps its directory.
PlaceOK ==
    /\ pc \in Before => item = 1
    /\ pc \in Before \cup {"rmdir"} => created = <<>>
    /\ pc = "end" /\ outcome = "raised" => created = <<>>
    /\ pc \in Working \cup {"rollback"} => named \in Dir
    /\ pc \in WithTemporary => temp.dir = named
    /\ pc \notin WithTemporary \cup {"dead"} => temp = NoTemp

\* Which copies are complete.
CopiesOK ==
    /\ pc \in Working /\ outcome = "none" => \A i \in Item : i < item => Copied(i)
    /\ pc = "unlink" /\ outcome = "none" => Copied(item)
    /\ pc = "stream" => item \in touched \/ entry[named][item] = "partial"
    /\ outcome = "copied" => \A i \in Item : Copied(i)

\* Every file of the operation is in its directory and on the rollback's list.
FilesListed ==
    outcome \in {"none", "raised"} /\ pc # "dead" =>
        \A d \in Dir, i \in Item : entry[d][i] \in Ours => d = named /\ Listed(i)

WholeInv == ~swapped => PlaceOK /\ CopiesOK /\ FilesListed

\* Nothing is copied yet.
LEMMA WholeInit == Init => WholeInv
BY DEF Init, WholeInv, PlaceOK, CopiesOK, FilesListed, Before, WithTemporary, Working, Ours

\* The steps that leave the destination's names and the list alone and do not
\* end the operation; they may begin an item, its temporary file or the rollback.
LEMMA QuietKeepsWhole ==
    ASSUME CopyInv, WholeInv,
           \/ Begin \/ CheckSource \/ CheckTarget \/ CheckDestination
           \/ MakeTemporary \/ CopyContent \/ VerifyCopy
    PROVE  WholeInv'
<1> SUFFICES ASSUME ~swapped' PROVE (PlaceOK /\ CopiesOK /\ FilesListed)'
  BY DEF WholeInv
<1>1. /\ UNCHANGED <<entry, named, item, created, touched, swapped>> /\ ~swapped
      /\ PlaceOK /\ CopiesOK /\ FilesListed /\ outcome = "none"
      /\ pc \notin {"dead", "unlink", "stream", "end", "rmdir", "rollback"}
  BY DEF Begin, CheckSource, CheckTarget, CheckDestination, MakeTemporary, CopyContent,
         VerifyCopy, disk, user, WholeInv, CopyInv, OutcomeFollowsPhase, Forward
<1>2. FilesListed'
  BY <1>1 DEF FilesListed, Listed
<1>3. CopiesOK'
  <2>1. CASE CheckSource /\ item > N
    <3>1. \A i \in Item : i < item
      BY <2>1, SizeAssumption DEF Item, CopyInv, TypeOK
    <3> QED
      BY <1>1, <2>1, <3>1 DEF CheckSource, CopiesOK, Copied, Working, Goto, Raise
  <2>2. CASE ~(CheckSource /\ item > N)
    BY <1>1, <2>2 DEF Begin, CheckSource, CheckTarget, CheckDestination, MakeTemporary,
       CopyContent, VerifyCopy, CopiesOK, Copied, Working, WithTemporary, Goto, Raise,
       RaiseWithTemporary
  <2> QED
    BY <2>1, <2>2
<1>4. PlaceOK'
  <2>1. named \in Dir \cup {NoDir}
        /\ temp \in [dir : Dir \cup {NoDir}, content : {"none", "empty", "copy", "wrong"}]
    BY DEF CopyInv, TypeOK
  <2>2. CASE Begin \/ CheckSource \/ CheckTarget \/ CheckDestination
    BY <1>1, <2>2 DEF Begin, CheckSource, CheckTarget, CheckDestination, PlaceOK, Before, Working,
       WithTemporary, Goto, Raise
  <2>3. CASE MakeTemporary
    BY <1>1, <2>1, <2>3 DEF MakeTemporary, PlaceOK, Before, Working, WithTemporary, Goto, Raise
  <2>4. CASE CopyContent \/ VerifyCopy
    <3>1. temp'.dir = temp.dir
      <4>1. CASE VerifyCopy
        BY <4>1 DEF VerifyCopy
      <4>2. CASE CopyContent /\ temp' = temp
        BY <4>2
      <4>3. ASSUME NEW c, temp' = [temp EXCEPT !.content = c] PROVE temp'.dir = temp.dir
        BY <2>1, <4>3
      <4> QED
        BY <2>4, <4>1, <4>2, <4>3 DEF CopyContent
    <3>2. pc \in {"copying", "verify"} /\ pc' \in {"verify", "publish", "unlink"}
      BY <2>4 DEF CopyContent, VerifyCopy, Goto, RaiseWithTemporary
    <3> QED
      BY <1>1, <3>1, <3>2 DEF PlaceOK, Before, Working, WithTemporary
  <2> QED
    BY <2>2, <2>3, <2>4
<1> QED
  BY <1>2, <1>3, <1>4

\* The directory is made and looked at before anything is copied.
LEMMA DirectoryKeepsWhole ==
    ASSUME CopyInv, WholeInv, MakeDirectory \/ SpaceCheck
    PROVE  WholeInv'
<1> SUFFICES ASSUME ~swapped' PROVE (PlaceOK /\ CopiesOK /\ FilesListed)'
  BY DEF WholeInv
<1>1. /\ UNCHANGED <<entry, item, created, touched, swapped, temp>> /\ ~swapped
      /\ PlaceOK /\ CopiesOK /\ FilesListed /\ outcome = "none" /\ pc \in {"mkdir", "space"}
  BY DEF MakeDirectory, SpaceCheck, user, WholeInv, CopyInv, OutcomeFollowsPhase, Forward
<1>2. item = 1 /\ created = <<>> /\ temp = NoTemp
  BY <1>1 DEF PlaceOK, Before, WithTemporary
<1>3. pc' \in {"space", "item", "end"} /\ outcome' \in {"none", "raised"}
  BY <1>1 DEF MakeDirectory, SpaceCheck, Goto
<1>4. \A d \in Dir, i \in Item : entry[d][i] \notin Ours
  BY <1>1, <1>2 DEF FilesListed, Listed
<1>5. FilesListed'
  BY <1>1, <1>4 DEF FilesListed
<1>6. CopiesOK'
  BY <1>1, <1>2, <1>3 DEF CopiesOK, Item, Working, WithTemporary
<1>7. PlaceOK'
  <2>1. pc' \in Working => named' \in Dir
    BY <1>1, <1>3 DEF MakeDirectory, SpaceCheck, Goto, CopyInv, TypeOK, Working, WithTemporary
  <2> QED
    BY <1>1, <1>2, <1>3, <2>1 DEF PlaceOK, Before, Working, WithTemporary
<1> QED
  BY <1>5, <1>6, <1>7

\* What is published is listed.
LEMMA PublishKeepsWhole ==
    ASSUME CopyInv, WholeInv, Publish
    PROVE  WholeInv'
<1> SUFFICES ASSUME ~swapped' PROVE (PlaceOK /\ CopiesOK /\ FilesListed)'
  BY DEF WholeInv
<1>1. /\ UNCHANGED <<source, named, item, touched, swapped, temp>> /\ ~swapped
      /\ PlaceOK /\ CopiesOK /\ FilesListed /\ outcome = "none" /\ pc = "publish"
      /\ item \in Item /\ temp.content = "copy"
      /\ entry \in [Dir -> [Item -> Entry]] /\ created \in Seq(Item)
  BY DEF Publish, user, WholeInv, CopyInv, TypeOK, OutcomeFollowsPhase, Forward, ItemInPlan,
         PublishesVerified
<1>2. named \in Dir /\ temp.dir = named
  BY <1>1 DEF PlaceOK, Working, WithTemporary
<1>3. pc' \in {"unlink", "stream"}
  BY DEF Publish, Goto, RaiseWithTemporary
<1>4. PlaceOK'
  BY <1>1, <1>2, <1>3 DEF PlaceOK, Before, Working, WithTemporary
<1>5. CASE RaiseWithTemporary /\ UNCHANGED <<entry, created>>
  <2>1. CopiesOK'
    BY <1>1, <1>5 DEF CopiesOK, Copied, RaiseWithTemporary, Goto, Working, WithTemporary
  <2>2. FilesListed'
    BY <1>1, <1>5 DEF FilesListed, Listed, RaiseWithTemporary
  <2> QED
    BY <1>4, <2>1, <2>2
<1>6. ASSUME NEW e \in {"copy", "partial"}, SetEntry(named, item, e),
             created' = Append(created, item), UNCHANGED outcome,
             pc' = IF e = "copy" THEN "unlink" ELSE "stream"
      PROVE  (PlaceOK /\ CopiesOK /\ FilesListed)'
  <2>1. e \in Entry
    BY DEF Entry
  <2>2. /\ entry'[named][item] = e
        /\ \A c \in Dir, j \in Item : c # named \/ j # item => entry'[c][j] = entry[c][j]
    BY <1>1, <1>2, <1>6, <2>1, SetEntryTyped
  <2>3. CopiesOK'
    <3>1. ASSUME NEW i \in Item, i < item PROVE Copied(i)'
      <4>1. i # item
        BY <1>1, <3>1 DEF Item
      <4>2. Copied(i)
        BY <1>1, <3>1 DEF CopiesOK, Working, WithTemporary
      <4> QED
        BY <1>1, <1>2, <2>2, <4>1, <4>2 DEF Copied
    <3>2. e = "copy" => Copied(item)'
      BY <1>1, <2>2 DEF Copied
    <3> QED
      BY <1>1, <1>6, <2>2, <3>1, <3>2 DEF CopiesOK
  <2>4. FilesListed'
    <3>1. /\ Len(created') = Len(created) + 1 /\ Len(created) \in Nat
          /\ \A k \in 1 .. Len(created) : created'[k] = created[k]
          /\ created'[Len(created) + 1] = item
      BY <1>1, <1>6, AppendProperties, LenProperties
    <3>2. Listed(item)'
      BY <1>1, <3>1 DEF Listed
    <3>3. ASSUME NEW i \in Item, Listed(i) PROVE Listed(i)'
      <4>1. PICK k \in 1 .. Len(created) : created[k] = i
        BY <3>3 DEF Listed
      <4>2. k \in 1 .. Len(created') /\ created'[k] = i
        BY <3>1, <4>1
      <4> QED
        BY <4>2 DEF Listed
    <3>4. ASSUME NEW d \in Dir, NEW i \in Item, entry'[d][i] \in Ours
          PROVE  d = named /\ Listed(i)'
      <4>1. CASE d = named /\ i = item
        <5>1. Len(created) + 1 \in 1 .. Len(created') /\ created'[Len(created) + 1] = i
          BY <3>1, <4>1
        <5> QED
          BY <4>1, <5>1 DEF Listed
      <4>2. CASE d # named \/ i # item
        BY <1>1, <2>2, <3>3, <3>4, <4>2 DEF FilesListed
      <4> QED
        BY <4>1, <4>2
    <3> QED
      BY <1>1, <3>4 DEF FilesListed
  <2> QED
    BY <1>4, <2>3, <2>4
<1> QED
  BY <1>1, <1>5, <1>6 DEF Publish, Goto

\* The partial file becomes the copy.
LEMMA StreamKeepsWhole ==
    ASSUME CopyInv, WholeInv, Stream
    PROVE  WholeInv'
<1> SUFFICES ASSUME ~swapped' PROVE (PlaceOK /\ CopiesOK /\ FilesListed)'
  BY DEF WholeInv
<1>1. /\ UNCHANGED <<source, named, item, created, touched, swapped, temp>> /\ ~swapped
      /\ PlaceOK /\ CopiesOK /\ FilesListed /\ outcome = "none" /\ pc = "stream" /\ pc' = "unlink"
      /\ item \in Item /\ temp.content = "copy"
      /\ entry \in [Dir -> [Item -> Entry]]
  BY DEF Stream, Goto, RaiseWithTemporary, user, WholeInv, CopyInv, TypeOK, OutcomeFollowsPhase,
         Forward, ItemInPlan, PublishesVerified
<1>2. named \in Dir
  BY <1>1 DEF PlaceOK, Working, WithTemporary
<1>3. PlaceOK'
  BY <1>1 DEF PlaceOK, Before, Working, WithTemporary
<1>4. CASE RaiseWithTemporary /\ UNCHANGED entry
  <2>1. CopiesOK'
    BY <1>1, <1>4 DEF CopiesOK, Copied, RaiseWithTemporary, Working, WithTemporary
  <2>2. FilesListed'
    BY <1>1, <1>4 DEF FilesListed, Listed, RaiseWithTemporary
  <2> QED
    BY <1>3, <2>1, <2>2
<1>5. CASE /\ entry' = [d \in Dir |-> [entry[d] EXCEPT ![item] =
                            IF @ = "partial" THEN temp.content ELSE @]]
           /\ UNCHANGED outcome
  <2>1. \A d \in Dir, i \in Item :
            entry'[d][i] = IF i = item /\ entry[d][i] = "partial" THEN "copy" ELSE entry[d][i]
    BY <1>1, <1>5
  <2>2. CopiesOK'
    BY <1>1, <1>2, <1>5, <2>1 DEF CopiesOK, Copied, Working, WithTemporary
  <2>3. FilesListed'
    BY <1>1, <1>5, <2>1 DEF FilesListed, Listed, Ours
  <2> QED
    BY <1>3, <2>2, <2>3
<1> QED
  BY <1>4, <1>5 DEF Stream

\* The temporary file goes, and the item is done or the rollback begins.
LEMMA UnlinkKeepsWhole ==
    ASSUME CopyInv, WholeInv, UnlinkTemporary
    PROVE  WholeInv'
<1> SUFFICES ASSUME ~swapped' PROVE (PlaceOK /\ CopiesOK /\ FilesListed)'
  BY DEF WholeInv
<1>1. /\ UNCHANGED <<entry, named, created, touched, swapped, outcome>> /\ ~swapped
      /\ PlaceOK /\ CopiesOK /\ FilesListed /\ pc = "unlink" /\ item \in Item
      /\ outcome \in {"none", "raised"}
  BY DEF UnlinkTemporary, disk, user, WholeInv, CopyInv, OutcomeFollowsPhase, ItemInPlan
<1>2. /\ temp' = NoTemp /\ named \in Dir
      /\ outcome = "none" => pc' = "item" /\ item' = item + 1
      /\ outcome = "raised" => pc' = "rollback"
  BY <1>1 DEF UnlinkTemporary, PlaceOK, Working, WithTemporary, Goto
<1>3. PlaceOK'
  BY <1>1, <1>2 DEF PlaceOK, Before, Working, WithTemporary
<1>4. CopiesOK'
  <2>1. ASSUME outcome = "none", NEW i \in Item, i < item + 1 PROVE Copied(i)
    <3>1. i < item \/ i = item
      BY <1>1, <2>1 DEF Item
    <3> QED
      BY <1>1, <2>1, <3>1 DEF CopiesOK, Working, WithTemporary
  <2> QED
    BY <1>1, <1>2, <2>1 DEF CopiesOK, Copied, Working, WithTemporary
<1>5. FilesListed'
  BY <1>1, <1>2 DEF FilesListed, Listed
<1> QED
  BY <1>3, <1>4, <1>5

\* The last of the list is removed with its file.
LEMMA RollbackKeepsWhole ==
    ASSUME CopyInv, WholeInv, Rollback
    PROVE  WholeInv'
<1> SUFFICES ASSUME ~swapped' PROVE (PlaceOK /\ CopiesOK /\ FilesListed)'
  BY DEF WholeInv
<1>1. /\ UNCHANGED <<named, touched, swapped, temp, item>> /\ ~swapped
      /\ PlaceOK /\ CopiesOK /\ FilesListed /\ pc = "rollback" /\ pc' \in {"rollback", "rmdir"}
      /\ outcome \in {"raised", "rollback_incomplete"}
      /\ outcome' \in {outcome, "rollback_incomplete"}
      /\ entry \in [Dir -> [Item -> Entry]] /\ created \in Seq(Item)
  BY DEF Rollback, Goto, user, WholeInv, CopyInv, TypeOK, OutcomeFollowsPhase
<1>2. named \in Dir /\ temp = NoTemp /\ named # NoDir
  BY <1>1, SizeAssumption DEF PlaceOK, Working, WithTemporary
<1>3. PlaceOK'
  BY <1>1, <1>2 DEF Rollback, Goto, PlaceOK, Before, Working, WithTemporary
<1>4. CopiesOK'
  BY <1>1 DEF CopiesOK, Working, WithTemporary
<1>5. FilesListed'
  <2>1. CASE created = <<>>
    BY <1>1, <2>1 DEF Rollback, FilesListed, Listed
  <2>2. CASE created # <<>> /\ outcome' = "raised"
    <3> DEFINE n == Len(created)
               top == created[n]
    <3>1. n \in Nat \ {0} /\ top \in Item
      BY <1>1, <2>2, EmptySeq, LenProperties, ElementOfSeq
    <3>2. created' = SubSeq(created, 1, n - 1) /\ SetEntry(named, top, "none")
      BY <1>2, <2>2 DEF Rollback
    <3>3. Len(created') = n - 1 /\ \A k \in 1 .. (n - 1) : created'[k] = created[k]
      <4>1. \A k \in 1 .. n : created[k] \in Item
        BY <1>1, ElementOfSeq
      <4> HIDE DEF n, top
      <4>2. /\ Len(SubSeq(created, 1, n - 1)) = n - 1
            /\ \A k \in 1 .. (n - 1) : SubSeq(created, 1, n - 1)[k] = created[k]
        <5>1. n = Len(created)
          BY DEF n
        <5>2. n - 1 \in Int /\ 1 \in Int /\ \A k \in 1 .. (n - 1) : created[k] \in Item
          BY <3>1, <4>1
        <5> QED
          BY <3>1, <5>1, <5>2, SubSeqProperties
      <4> QED
        BY <3>2, <4>2
    <3>4. /\ entry'[named][top] = "none"
          /\ \A c \in Dir, j \in Item : c # named \/ j # top => entry'[c][j] = entry[c][j]
      <4>1. "none" \in Entry
        BY DEF Entry
      <4> HIDE DEF top
      <4> QED
        BY <1>1, <1>2, <3>1, <3>2, <4>1, SetEntryTyped
    <3>5. outcome = "raised"
      BY <1>1, <2>2
    <3>6. ASSUME NEW d \in Dir, NEW i \in Item, entry'[d][i] \in Ours
          PROVE  d = named /\ Listed(i)'
      <4>1. d # named \/ i # top
        BY <3>4, <3>6 DEF Ours
      <4>2. entry[d][i] \in Ours
        BY <3>4, <3>6, <4>1
      <4>3. d = named /\ Listed(i)
        BY <1>1, <3>5, <4>2 DEF FilesListed
      <4>4. PICK k \in 1 .. n : created[k] = i
        BY <4>3 DEF Listed
      <4>5. k # n
        BY <4>1, <4>3, <4>4
      <4>6. k \in 1 .. (n - 1)
        BY <3>1, <4>4, <4>5
      <4> QED
        BY <3>3, <4>3, <4>4, <4>6 DEF Listed
    <3> QED
      BY <1>1, <3>6 DEF FilesListed
  <2>3. CASE outcome' = "rollback_incomplete"
    BY <2>3 DEF FilesListed
  <2> QED
    BY <1>1, <2>1, <2>2, <2>3
<1> QED
  BY <1>3, <1>4, <1>5

\* The directory goes, or the thread dies.
LEMMA EndsKeepWhole ==
    ASSUME CopyInv, WholeInv, RemoveDirectory \/ Crash
    PROVE  WholeInv'
<1> SUFFICES ASSUME ~swapped' PROVE (PlaceOK /\ CopiesOK /\ FilesListed)'
  BY DEF WholeInv
<1>1. /\ UNCHANGED <<entry, item, created, touched, swapped, temp>> /\ ~swapped
      /\ PlaceOK /\ CopiesOK /\ FilesListed
  BY DEF RemoveDirectory, Crash, disk, user, WholeInv
<1>2. CASE Crash
  <2>1. pc' = "dead" /\ UNCHANGED <<named, outcome>> /\ outcome # "copied"
    BY <1>2 DEF Crash, Goto, disk, CopyInv, OutcomeFollowsPhase
  <2> QED
    BY <1>1, <2>1 DEF PlaceOK, CopiesOK, FilesListed, Before, Working, WithTemporary
<1>3. CASE RemoveDirectory
  <2>1. /\ pc = "rmdir" /\ pc' = "end" /\ outcome' \in {outcome, "rollback_incomplete"}
        /\ outcome \in {"raised", "rollback_incomplete"}
    BY <1>3 DEF RemoveDirectory, Goto, CopyInv, OutcomeFollowsPhase
  <2>2. created = <<>> /\ temp = NoTemp
    BY <1>1, <2>1 DEF PlaceOK, WithTemporary
  <2>3. PlaceOK' /\ CopiesOK'
    BY <1>1, <2>1, <2>2 DEF PlaceOK, CopiesOK, Before, Working, WithTemporary
  <2>4. FilesListed'
    <3>1. outcome = "raised" => \A d \in Dir, i \in Item : entry[d][i] \notin Ours
      BY <1>1, <2>1, <2>2 DEF FilesListed, Listed
    <3> QED
      BY <1>1, <2>1, <3>1 DEF FilesListed
  <2> QED
    BY <2>3, <2>4
<1> QED
  BY <1>2, <1>3

\* The user touches a name, or swaps the directory.
LEMMA UserKeepsWhole ==
    ASSUME CopyInv, WholeInv, UserStep
    PROVE  WholeInv'
<1> SUFFICES ASSUME ~swapped' PROVE (PlaceOK /\ CopiesOK /\ FilesListed)'
  BY DEF WholeInv
<1>1. UNCHANGED <<pc, item, created, temp, outcome>>
  BY DEF UserStep, ChangeSource, ChangeEntry, ChangeDirectory, thread
<1>2. ~ChangeDirectory
  BY DEF ChangeDirectory
<1>3. named' = named /\ ~swapped
  BY <1>2 DEF UserStep, ChangeSource, ChangeEntry
<1>4. PlaceOK /\ CopiesOK /\ FilesListed
  BY <1>3 DEF WholeInv
<1>5. PlaceOK'
  BY <1>1, <1>3, <1>4 DEF PlaceOK
<1>6. ASSUME NEW i \in Item, ChangeSource(i) PROVE (CopiesOK /\ FilesListed)'
  BY <1>1, <1>3, <1>4, <1>6 DEF ChangeSource, CopiesOK, Copied, FilesListed, Listed
<1>7. ASSUME NEW i \in Item, ChangeEntry(i) PROVE (CopiesOK /\ FilesListed)'
  <2>1. PICK e \in {"none", "user"} : SetEntry(named, i, e)
    BY <1>7 DEF ChangeEntry
  <2>2. /\ named \in Dir /\ e \in Entry /\ entry \in [Dir -> [Item -> Entry]]
        /\ touched' = touched \cup {i}
    BY <1>7 DEF CopyInv, TypeOK, ChangeEntry, Entry
  <2>3. /\ entry'[named][i] = e
        /\ \A c \in Dir, j \in Item : c # named \/ j # i => entry'[c][j] = entry[c][j]
    BY <2>1, <2>2, SetEntryTyped
  <2>4. ASSUME NEW j \in Item, Copied(j) PROVE Copied(j)'
    BY <1>3, <2>2, <2>3, <2>4 DEF Copied
  <2>5. CopiesOK'
    <3>1. pc = "unlink" /\ outcome = "none" => item \in Item
      BY DEF CopyInv, ItemInPlan
    <3>2. pc = "stream" => item \in Item
      BY DEF CopyInv, ItemInPlan
    <3> QED
      BY <1>1, <1>3, <1>4, <2>2, <2>3, <2>4, <3>1, <3>2 DEF CopiesOK
  <2>6. FilesListed'
    BY <1>1, <1>3, <1>4, <2>2, <2>3 DEF FilesListed, Listed, Ours
  <2> QED
    BY <2>5, <2>6
<1> QED
  BY <1>2, <1>5, <1>6, <1>7 DEF UserStep

\* Every step keeps it.
LEMMA WholeNext == CopyInv /\ WholeInv /\ [Next]_vars => WholeInv'
<1> SUFFICES ASSUME CopyInv, WholeInv, [Next]_vars PROVE WholeInv'
  OBVIOUS
<1>1. CASE ThreadStep
  BY <1>1, QuietKeepsWhole, DirectoryKeepsWhole, PublishKeepsWhole, StreamKeepsWhole,
     UnlinkKeepsWhole, RollbackKeepsWhole, EndsKeepWhole
     DEF ThreadStep
<1>2. CASE UserStep
  BY <1>2, UserKeepsWhole
<1>3. CASE Crash
  BY <1>3, EndsKeepWhole
<1>4. CASE UNCHANGED vars
  BY <1>4 DEF vars, disk, thread, user, WholeInv, PlaceOK, CopiesOK, FilesListed, Copied, Listed
<1> QED
  BY <1>1, <1>2, <1>3, <1>4 DEF Next

\* While the destination path keeps its directory, success has copied every file
\* whose name the user left alone, and a failure that is rolled back leaves none.
THEOREM CopyIsAllOrNothing == Spec => []AllOrNothing
<1>1. WholeInv => AllOrNothing
  BY DEF WholeInv, AllOrNothing, PlaceOK, CopiesOK, FilesListed, Copied, Listed, WithTemporary
<1> QED
  BY <1>1, WholeInit, WholeNext, CopyInvariant, PTL DEF Spec

-----------------------------------------------------------------------------
(* The parts together.                                                      *)

\* The part that moves keeps its inductive invariant.
ServicesInv ==
    /\ moving \in Moving
    /\ moving = "copy" => CopyInv
    /\ moving = "registry" => RegistryInv
    /\ moving = "host" => HostInv
    /\ moving = "provider" => ProviderInv
    /\ moving = "models" => ModelInv
    /\ moving = "gate" => GateInv
    /\ moving = "startup" => StartupInv
    /\ moving = "watching" => WatchInv
    /\ moving = "search" => SearchInv
    /\ moving = "retriever" => RetrieverTypeOK

\* Whichever part moves, it starts in one of its initial states.
LEMMA ServicesStarts == ServicesInit => ServicesInv
<1> SUFFICES ASSUME ServicesInit PROVE ServicesInv
  OBVIOUS
<1>1. moving \in Moving
  BY DEF ServicesInit
<1>2. /\ Init /\ RegistryInit /\ HostInit /\ ProviderInit
      /\ ModelInit /\ GateInit /\ StartupInit /\ WatchInit
      /\ SearchInit /\ RetrieverInit
  BY DEF ServicesInit, WorkersInit, StorageInit
<1> QED
  BY <1>1, <1>2, CopyInvInit, RegistryStarts, HostStarts, ProviderStarts, ModelStarts,
     GateStarts, InitStartup, WatchInvInit, SearchInvInit, RetrieverInitTyped DEF ServicesInv

\* Only the part that moves takes steps, and it keeps its own invariant.
LEMMA ServicesSteps == ServicesInv /\ [ServicesNext]_servicesVars => ServicesInv'
<1> SUFFICES ASSUME ServicesInv, [ServicesNext]_servicesVars PROVE ServicesInv'
  OBVIOUS
<1>1. moving' = moving
  BY DEF ServicesNext, servicesVars
<1>2. moving = "copy" => CopyInv'
  <2>1. moving = "copy" => [Next]_vars
    BY DEF ServicesNext, servicesVars, copyVars, vars
  <2> QED
    BY <2>1, CopyInvNext DEF ServicesInv
<1>3. moving = "registry" => RegistryInv'
  <2>1. moving = "registry" => [RegistryNext]_registryVars
    BY DEF ServicesNext, servicesVars, ModulesNext, modulesVars, registryVars
  <2> QED
    BY <2>1, RegistryNextKeeps DEF ServicesInv
<1>4. moving = "host" => HostInv'
  <2>1. moving = "host" => [HostNext]_hostVars
    BY DEF ServicesNext, servicesVars, ModulesNext, modulesVars, workersVars, hostVars
  <2> QED
    BY <2>1, HostKeeps DEF ServicesInv
<1>5. moving = "provider" => ProviderInv'
  <2>1. moving = "provider" => [ProviderNext]_providerVars
    BY DEF ServicesNext, servicesVars, ModulesNext, modulesVars, workersVars, providerVars
  <2> QED
    BY <2>1, ProviderKeeps DEF ServicesInv
<1>6. moving = "models" => ModelInv'
  <2>1. moving = "models" => [ModelNext]_modelVars
    BY DEF ServicesNext, servicesVars, ModulesNext, modulesVars, workersVars, modelVars
  <2> QED
    BY <2>1, ModelKeeps DEF ServicesInv
<1>7. moving = "gate" => GateInv'
  <2>1. moving = "gate" => [GateNext]_gateVars
    BY DEF ServicesNext, servicesVars, DaemonNext, daemonVars, gateVars
  <2> QED
    BY <2>1, GateKeeps DEF ServicesInv
<1>8. moving = "startup" => StartupInv'
  <2>1. moving = "startup" => [StartupNext]_startupVars
    BY DEF ServicesNext, servicesVars, DaemonNext, daemonVars, startupVars
  <2> QED
    BY <2>1, NextStartup DEF ServicesInv
<1>9. moving = "watching" => WatchInv'
  <2>1. moving = "watching" => [WatchNext]_watchVars
    BY DEF ServicesNext, servicesVars, StorageNext, storageVars, disksVars, contentVars,
           watchVars
  <2> QED
    BY <2>1, WatchInvNext DEF ServicesInv
<1>10. moving = "search" => SearchInv'
  <2>1. moving = "search" => [SearchNext]_contentVars
    BY DEF ServicesNext, servicesVars, StorageNext, storageVars, disksVars, contentVars
  <2> QED
    BY <2>1, SearchInvNext DEF ServicesInv
<1>11. moving = "retriever" => RetrieverTypeOK'
  <2>1. moving = "retriever" => [RetrieverNext]_retrieverVars
    BY DEF ServicesNext, servicesVars, StorageNext, storageVars, retrieverVars
  <2> QED
    BY <2>1, RetrieverNextTyped DEF ServicesInv
<1> QED
  BY <1>1, <1>2, <1>3, <1>4, <1>5, <1>6, <1>7, <1>8, <1>9, <1>10, <1>11 DEF ServicesInv

\* The part of the services that moves, the copy, the registry, a process of a
\* module, the gate, the start of the runtime, the watches, the search or the
\* retriever, keeps its types.
THEOREM ServicesTypeCorrect == ServicesSpec => []ServicesTypeOK
<1>1. ServicesInv => ServicesTypeOK
  <2> SUFFICES ASSUME ServicesInv PROVE ServicesTypeOK
    OBVIOUS
  <2>1. moving = "copy" => TypeOK
    BY DEF ServicesInv, CopyInv
  <2>2. moving = "registry" => RegistryTypeOK
    BY DEF ServicesInv, RegistryInv
  <2>3. moving = "host" => HostTypeOK
    BY DEF ServicesInv, HostInv
  <2>4. moving = "provider" => ProviderTypeOK
    BY DEF ServicesInv, ProviderInv
  <2>5. moving = "models" => ModelTypeOK
    BY DEF ServicesInv, ModelInv
  <2>6. moving = "gate" => GateTypeOK
    BY DEF ServicesInv, GateInv
  <2>7. moving = "startup" => StartupTypeOK
    BY DEF ServicesInv, StartupInv
  <2>8. moving = "watching" => WatchTypeOK
    BY DEF ServicesInv, WatchInv
  <2>9. moving = "search" => SearchTypeOK
    BY DEF ServicesInv, SearchInv
  <2>10. moving = "retriever" => RetrieverTypeOK
    BY DEF ServicesInv
  <2> QED
    BY MovingAssumption, <2>1, <2>2, <2>3, <2>4, <2>5, <2>6, <2>7, <2>8, <2>9, <2>10 DEF ServicesInv, ServicesTypeOK
<1> QED
  BY <1>1, ServicesStarts, ServicesSteps, PTL DEF ServicesSpec

==================================================================================
