------------------------------- MODULE ScanJobs -------------------------------
(***************************************************************************)
(* SecurityJobManager: scan jobs, each with a thread of its own, started   *)
(* by the user or, when it is time, by the scheduler thread.  Jobs live in *)
(* memory and are written to a database; the lock makes each block of the  *)
(* code under it one step.                                                 *)
(***************************************************************************)
EXTENDS Integers, FiniteSets

CONSTANT MaxJobs  \* bound: jobs ever started

ASSUME JobsAssumption == MaxJobs \in Nat

VARIABLES
    jobs,       \* _jobs: their states in memory, "none" without an entry
    rows,       \* their states in security_scan_jobs
    stopping,   \* the jobs whose cancel event is set
    active,     \* _active_job_id, 0 for None
    threads,    \* how far the thread of each job is
    scheduler,  \* the scheduler thread lives
    enabled,    \* automatic scans are on
    unsaved     \* history: the jobs whose row could not be written

jobsVars == <<jobs, rows, stopping, active, threads, scheduler, enabled, unsaved>>

Job == 1 .. MaxJobs
Final == {"completed", "partial", "cancelled", "failed"}
Open == {"queued", "running", "cancelling"}

JobsTypeOK ==
    /\ jobs \in [Job -> {"none"} \cup Final \cup Open]
    /\ rows \in [Job -> {"none"} \cup Final \cup Open]
    /\ threads \in [Job -> {"none", "begin", "scan", "end"}]
    /\ active \in 0 .. MaxJobs /\ stopping \subseteq Job /\ unsaved \subseteq Job
    /\ \A j \in Job : threads[j] = "scan" => jobs[j] \in {"running", "cancelling"}
    /\ scheduler \in BOOLEAN /\ enabled \in BOOLEAN

JobsInit ==
    /\ jobs = [j \in Job |-> "none"] /\ rows = jobs
    /\ stopping = {} /\ unsaved = {}
    /\ active = 0
    /\ threads = [j \in Job |-> "none"]
    /\ scheduler = TRUE /\ enabled = FALSE

-----------------------------------------------------------------------------

Enter(j, state) == jobs' = [jobs EXCEPT ![j] = state]

\* Mutant of MayStart: an active job is not looked for.
MayStartAlways(j) ==
    /\ rows[j] = "none" /\ jobs[j] = "none" /\ \A k \in 1 .. j - 1 : rows[k] # "none" \/ jobs[k] # "none"

\* Jobs are numbered as they come; one is refused while another is open.
MayStart(j) ==
    /\ rows[j] = "none" /\ jobs[j] = "none" /\ \A k \in 1 .. j - 1 : rows[k] # "none" \/ jobs[k] # "none"
    /\ active # 0 => jobs[active] \in Final

\* start(): the job is active before it is written and has a thread after.
Started(j) ==
    /\ Enter(j, "queued")
    /\ active' = j
    /\ rows' = [rows EXCEPT ![j] = "queued"]
    /\ threads' = [threads EXCEPT ![j] = "begin"]

StartJob(j) ==
    /\ MayStart(j)
    /\ Started(j)
    /\ UNCHANGED <<stopping, scheduler, enabled, unsaved>>

\* _scheduler_loop(): an error that is no ValueError ends the thread; when it
\* comes before the job has a thread of its own, the job never gets one.
StartScheduled(j) ==
    /\ scheduler /\ enabled
    /\ MayStart(j)
    /\ \/ Started(j) /\ scheduler' \in BOOLEAN /\ UNCHANGED unsaved
       \/ /\ Enter(j, "queued")
          /\ active' = j
          /\ scheduler' = FALSE
          /\ unsaved' = unsaved \cup {j}
          /\ UNCHANGED <<rows, threads>>
    /\ UNCHANGED <<stopping, enabled>>

UpdateSettings ==
    /\ enabled' \in BOOLEAN
    /\ UNCHANGED <<jobs, rows, stopping, active, threads, scheduler, unsaved>>

\* cancel()
CancelJob(j) ==
    /\ jobs[j] \in Open
    /\ stopping' = stopping \cup {j}
    /\ Enter(j, "cancelling")
    /\ UNCHANGED <<rows, active, threads, scheduler, enabled, unsaved>>

\* _run(), its first block, which forgets that the job was canceled.
BeginScan(j) ==
    /\ threads[j] = "begin"
    /\ Enter(j, "running")
    /\ \/ /\ rows' = [rows EXCEPT ![j] = "running"]
          /\ threads' = [threads EXCEPT ![j] = "scan"]
          /\ UNCHANGED unsaved
       \/ /\ threads' = [threads EXCEPT ![j] = "none"]
          /\ unsaved' = unsaved \cup {j}
          /\ UNCHANGED rows
    /\ UNCHANGED <<stopping, active, scheduler, enabled>>

\* A scan that was canceled ends as canceled, unless it was complete by then.
Result(j, status) == IF j \in stopping /\ status # "completed" THEN "cancelled" ELSE status

\* The runner returns a status, or raises.
EndScan(j) ==
    /\ threads[j] = "scan"
    /\ \/ \E status \in Final :
             /\ status = "cancelled" => j \in stopping
             /\ Enter(j, Result(j, status))
       \/ Enter(j, "failed")
    /\ threads' = [threads EXCEPT ![j] = "end"]
    /\ UNCHANGED <<rows, stopping, active, scheduler, enabled, unsaved>>

\* _run(), its finally: by now another job may be active.
CloseJob(j) ==
    /\ threads[j] = "end"
    /\ threads' = [threads EXCEPT ![j] = "none"]
    /\ \/ /\ rows' = [rows EXCEPT ![j] = jobs[j]]
          /\ active' = IF active = j THEN 0 ELSE active
          /\ stopping' = stopping \ {j}
          /\ UNCHANGED unsaved
       \/ unsaved' = unsaved \cup {j} /\ UNCHANGED <<rows, active, stopping>>
    /\ UNCHANGED <<jobs, scheduler, enabled>>

\* The worker dies, as it does when start() cannot write what the user asked
\* for; _initialize_database() of the next one closes what was open.
JobsRestart ==
    /\ jobs' = [j \in Job |-> "none"]
    /\ rows' = [j \in Job |-> IF rows[j] \in Open THEN "failed" ELSE rows[j]]
    /\ stopping' = {}
    /\ active' = 0
    /\ threads' = [j \in Job |-> "none"]
    /\ scheduler' = TRUE
    /\ unsaved' = {}
    /\ UNCHANGED enabled

JobsNext ==
    \/ \E j \in Job : StartJob(j) \/ StartScheduled(j) \/ CancelJob(j)
    \/ \E j \in Job : BeginScan(j) \/ EndScan(j) \/ CloseJob(j)
    \/ UpdateSettings \/ JobsRestart

JobsSpec == JobsInit /\ [][JobsNext]_jobsVars

-----------------------------------------------------------------------------

\* One scan runs at a time; what is open is the active job and has a thread, so
\* that the next one is not refused for ever; a job whose thread is gone says
\* the same in the database as in memory; and a scan the user has canceled does
\* not end as a partial one.  (Not when a row could not be written: a job the
\* scheduler started is then open until the next restart.)
ScansTracked ==
    /\ Cardinality({j \in Job : threads[j] = "scan"}) <= 1
    /\ \A j \in Job : jobs[j] # "none" /\ j \notin unsaved =>
          /\ IF jobs[j] \in Open THEN active = j /\ threads[j] \in {"begin", "scan"}
             ELSE threads[j] = "none" => rows[j] = jobs[j] /\ active # j
          /\ j \in stopping => jobs[j] # "partial"

===============================================================================
