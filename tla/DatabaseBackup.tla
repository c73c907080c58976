--------------------------- MODULE DatabaseBackup ---------------------------
(***************************************************************************)
(* The backup worker (database-backup.worker.ts) in several processes, the *)
(* job table they share with the administrator's requests, and the lease   *)
(* that is to keep them apart.                                             *)
(*                                                                         *)
(* A process ticks: it enqueues the scheduled backup if one is due, takes  *)
(* the lease, fails what an interrupted run left RUNNING, claims the       *)
(* pending job, dumps, renews the lease, replaces the backup file, records *)
(* the outcome and gives the lease back.  Each of these is one statement   *)
(* or one file operation; anything may happen between two of them, and a   *)
(* process may stall at any point for longer than the lease lasts.         *)
(***************************************************************************)
EXTENDS Naturals, Sequences

CONSTANTS Workers,
          Nobody,       \* no lease row
          Dead,         \* the token of an attempt that no longer runs
          LEASE,        \* LEASE_MS, in heartbeats
          MaxWindow,    \* bound: schedule windows
          MaxJobs,      \* bound: rows in the job table
          MaxFaults     \* bound: crashes and failing statements

ASSUME BackupAssumption ==
    /\ {Nobody, Dead} \cap Workers = {} /\ Nobody # Dead
    /\ LEASE \in Nat \ {0}
    /\ MaxWindow \in Nat \ {0} /\ MaxJobs \in Nat /\ MaxFaults \in Nat

VARIABLES clock,      \* the schedule window, and whether its minute is now
          setting,    \* enabled, and the window of lastScheduledAt
          jobs,       \* database_backup_jobs, in order of creation
          lease,      \* the lease row: its owner and the time it has left
          run,        \* what each process is doing
          published,  \* the jobs whose dump became the backup file
          faults

vars == <<clock, setting, jobs, lease, run, published, faults>>

JobStatus == {"PENDING", "RUNNING", "SUCCESS", "FAILED", "SKIPPED"}

\* `window` is the scheduleKey, 0 for a manual job; `active` says that activeKey is set.
Job == [status: JobStatus, active: BOOLEAN, window: 0..MaxWindow]

Phase == {"idle", "insert", "conflict", "mark", "acquire", "recover", "find", "claim",
          "dump", "check", "rename", "success", "failed", "release"}

\* prisma/schema.prisma:206-207, one job at most is PENDING or RUNNING, and only
\* that one holds the active key, though a late process may still write a job
\* another one has declared interrupted.
OneActiveJob ==
    \A i, j \in 1..Len(jobs) :
        /\ jobs[i].active <=> jobs[i].status \in {"PENDING", "RUNNING"}
        /\ jobs[i].active /\ jobs[j].active => i = j

TypeOK ==
    /\ clock \in [window: 1..MaxWindow, due: BOOLEAN]
    /\ setting \in [enabled: BOOLEAN, last: 0..MaxWindow]
    /\ jobs \in UNION {[1..n -> Job] : n \in 0..MaxJobs}
    /\ lease \in [owner: Workers \cup {Nobody, Dead}, left: 0..LEASE]
    /\ run \in [Workers -> [phase: Phase, window: 0..MaxWindow, job: 0..MaxJobs]]
    /\ published \subseteq 1..Len(jobs)
    /\ faults \in 0..MaxFaults
    /\ OneActiveJob

Resting == [phase |-> "idle", window |-> 0, job |-> 0]

Init ==
    /\ clock = [window |-> 1, due |-> FALSE]
    /\ setting = [enabled |-> TRUE, last |-> 0]
    /\ jobs = <<>>
    /\ lease = [owner |-> Nobody, left |-> 0]
    /\ run = [w \in Workers |-> Resting]
    /\ published = {}
    /\ faults = 0

At(w, phase) == run[w].phase = phase
Go(w, phase) == run' = [run EXCEPT ![w].phase = phase]
Rest(w) == run' = [run EXCEPT ![w] = Resting]

Room == Len(jobs) < MaxJobs
Fault == faults < MaxFaults /\ faults' = faults + 1

\* The unique indexes on activeKey and scheduleKey.
ActiveJob == \E i \in 1..Len(jobs) : jobs[i].active
Logged(window) == \E i \in 1..Len(jobs) : jobs[i].window = window

Queued(window)  == [status |-> "PENDING", active |-> TRUE, window |-> window]
Skipped(window) == [status |-> "SKIPPED", active |-> FALSE, window |-> window]

----------------------------------------------------------------------------
(* The administrator. *)

\* createManualBackup: a second request while a job is active is logged as skipped.
CreateManualBackup ==
    /\ Room
    /\ jobs' = Append(jobs, IF ActiveJob THEN Skipped(0) ELSE Queued(0))
    /\ UNCHANGED <<clock, setting, lease, run, published, faults>>

UpdateBackupSetting ==
    /\ \E enabled \in BOOLEAN : setting' = [setting EXCEPT !.enabled = enabled]
    /\ UNCHANGED <<clock, jobs, lease, run, published, faults>>

----------------------------------------------------------------------------
(* enqueueScheduledBackup *)

isBackupDue == setting.enabled /\ clock.due /\ setting.last # clock.window

\* tick starts nothing while the tick before it is running.
Tick(w) ==
    /\ At(w, "idle")
    /\ IF isBackupDue
       THEN run' = [run EXCEPT ![w].phase = "insert", ![w].window = clock.window]
       ELSE Go(w, "acquire")
    /\ UNCHANGED <<clock, setting, jobs, lease, published, faults>>

EnqueueScheduled(w) ==
    /\ At(w, "insert")
    /\ \/ /\ ActiveJob \/ Logged(run[w].window)
          /\ Go(w, "conflict")
          /\ UNCHANGED jobs
       \/ /\ ~ActiveJob /\ ~Logged(run[w].window) /\ Room
          /\ jobs' = Append(jobs, Queued(run[w].window))
          /\ Go(w, "mark")
    /\ UNCHANGED <<clock, setting, lease, published, faults>>

\* The row that says a window was skipped, if the table (bounded here) has room.
LogSkipped(w) ==
    /\ At(w, "conflict")
    /\ jobs' = IF Logged(run[w].window) \/ ~Room THEN jobs
               ELSE Append(jobs, Skipped(run[w].window))
    /\ Go(w, "mark")
    /\ UNCHANGED <<clock, setting, lease, published, faults>>

MarkScheduled(w) ==
    /\ At(w, "mark")
    /\ setting' = [setting EXCEPT !.last = run[w].window]
    /\ Go(w, "acquire")
    /\ UNCHANGED <<clock, jobs, lease, published, faults>>

----------------------------------------------------------------------------
(* processNextBackup *)

LeaseFree == lease.owner = Nobody \/ lease.left = 0

AcquireLease(w) ==
    /\ At(w, "acquire")
    /\ IF LeaseFree
       THEN lease' = [owner |-> w, left |-> LEASE] /\ Go(w, "recover")
       ELSE Rest(w) /\ UNCHANGED lease
    /\ UNCHANGED <<clock, setting, jobs, published, faults>>

Fails(job) == [job EXCEPT !.status = "FAILED", !.active = FALSE]

\* Slips: what a plausible mistake in the code would make of the definition below it.
SlipRecover(w) ==
    /\ At(w, "recover")
    /\ Go(w, "find")
    /\ UNCHANGED <<clock, setting, jobs, lease, published, faults>>

\* Whoever holds the lease takes every RUNNING job for interrupted.
RecoverInterrupted(w) ==
    /\ At(w, "recover")
    /\ jobs' = [i \in 1..Len(jobs) |->
                  IF jobs[i].status = "RUNNING" THEN Fails(jobs[i]) ELSE jobs[i]]
    /\ Go(w, "find")
    /\ UNCHANGED <<clock, setting, lease, published, faults>>

Pending == {i \in 1..Len(jobs) : jobs[i].status = "PENDING"}

FindPending(w) ==
    /\ At(w, "find")
    /\ IF Pending = {} THEN Go(w, "release")
       ELSE run' = [run EXCEPT ![w].phase = "claim",
                               ![w].job = CHOOSE i \in Pending : \A j \in Pending : i <= j]
    /\ UNCHANGED <<clock, setting, jobs, lease, published, faults>>

SlipClaim(w) ==
    /\ At(w, "claim")
    /\ jobs' = [jobs EXCEPT ![run[w].job].status = "RUNNING"]
    /\ Go(w, "dump")
    /\ UNCHANGED <<clock, setting, lease, published, faults>>

ClaimJob(w) ==
    /\ At(w, "claim")
    /\ LET job == jobs[run[w].job] IN
       IF job.status = "PENDING" /\ job.active
       THEN jobs' = [jobs EXCEPT ![run[w].job].status = "RUNNING"] /\ Go(w, "dump")
       ELSE Go(w, "release") /\ UNCHANGED jobs
    /\ UNCHANGED <<clock, setting, lease, published, faults>>

\* mysqldump, compression and the check of the temporary file.
Dump(w) ==
    /\ At(w, "dump")
    /\ Go(w, "check")
    /\ UNCHANGED <<clock, setting, jobs, lease, published, faults>>

DumpFails(w) ==
    /\ At(w, "dump")
    /\ Go(w, "failed")
    /\ UNCHANGED <<clock, setting, jobs, lease, published, faults>>

Renewed == [lease EXCEPT !.left = LEASE]

\* assertLease: a renewal that throws if the lease is somebody else's.
AssertLease(w) ==
    /\ At(w, "check")
    /\ IF lease.owner = w THEN lease' = Renewed /\ Go(w, "rename")
                          ELSE Go(w, "failed") /\ UNCHANGED lease
    /\ UNCHANGED <<clock, setting, jobs, published, faults>>

Rename(w) ==
    /\ At(w, "rename")
    /\ published' = published \cup {run[w].job}
    /\ Go(w, "success")
    /\ UNCHANGED <<clock, setting, jobs, lease, faults>>

SlipRecord(w) ==
    /\ At(w, "success") \/ At(w, "failed")
    /\ jobs' = [jobs EXCEPT ![run[w].job].status =
                  IF At(w, "success") THEN "SUCCESS" ELSE "FAILED"]
    /\ Go(w, "release")
    /\ UNCHANGED <<clock, setting, lease, published, faults>>

SlipAlwaysSuccess(w) ==
    /\ At(w, "success") \/ At(w, "failed")
    /\ jobs' = [jobs EXCEPT ![run[w].job].status = "SUCCESS", ![run[w].job].active = FALSE]
    /\ Go(w, "release")
    /\ UNCHANGED <<clock, setting, lease, published, faults>>

\* An update by id, whatever has become of the job.
RecordOutcome(w) ==
    /\ At(w, "success") \/ At(w, "failed")
    /\ jobs' = [jobs EXCEPT ![run[w].job] =
                  IF At(w, "success") THEN [@ EXCEPT !.status = "SUCCESS", !.active = FALSE]
                  ELSE Fails(@)]
    /\ Go(w, "release")
    /\ UNCHANGED <<clock, setting, lease, published, faults>>

ReleaseLease(w) ==
    /\ At(w, "release")
    /\ lease' = IF lease.owner = w THEN [owner |-> Nobody, left |-> 0] ELSE lease
    /\ Rest(w)
    /\ UNCHANGED <<clock, setting, jobs, published, faults>>

\* The interval that runs from the claim to the end; a renewal that misses the
\* lease is only logged.
Heartbeat(w) ==
    /\ run[w].phase \in {"dump", "check", "rename", "success", "failed"}
    /\ lease.owner = w
    /\ lease' = Renewed
    /\ UNCHANGED <<clock, setting, jobs, run, published, faults>>

----------------------------------------------------------------------------
(* What goes wrong, and time. *)

Abandoned(w) == IF lease.owner = w THEN [lease EXCEPT !.owner = Dead] ELSE lease

Crash(w) ==
    /\ ~At(w, "idle")
    /\ Fault
    /\ Rest(w)
    /\ lease' = Abandoned(w)
    /\ UNCHANGED <<clock, setting, jobs, published>>

\* A statement throws: the handler around it decides where the tick goes on.  The
\* error of the skipped row's insert is swallowed, a success that cannot be
\* recorded becomes a failure.
Throws(w) ==
    /\ Fault
    /\ \/ run[w].phase \in {"insert", "conflict", "mark", "acquire"} /\ Rest(w)
       \/ At(w, "conflict") /\ Go(w, "mark")
       \/ run[w].phase \in {"recover", "find", "claim", "failed"} /\ Go(w, "release")
       \/ run[w].phase \in {"check", "rename", "success"} /\ Go(w, "failed")
    /\ UNCHANGED <<clock, setting, jobs, lease, published>>

\* The error of releaseLease is swallowed, the row stays.
ReleaseFails(w) ==
    /\ At(w, "release")
    /\ Fault
    /\ lease' = Abandoned(w)
    /\ Rest(w)
    /\ UNCHANGED <<clock, setting, jobs, published>>

\* The time of one heartbeat.
Elapse ==
    /\ lease.left > 0
    /\ lease' = [lease EXCEPT !.left = @ - 1]
    /\ UNCHANGED <<clock, setting, jobs, run, published, faults>>

\* The minute of the window comes, and goes.
Minute ==
    /\ clock' = IF clock.due THEN [window |-> clock.window + 1, due |-> FALSE]
                             ELSE [clock EXCEPT !.due = TRUE]
    /\ clock'.window <= MaxWindow
    /\ UNCHANGED <<setting, jobs, lease, run, published, faults>>

Step(w) ==
    \/ Tick(w)         \/ EnqueueScheduled(w)   \/ LogSkipped(w)  \/ MarkScheduled(w)
    \/ AcquireLease(w) \/ RecoverInterrupted(w) \/ FindPending(w) \/ ClaimJob(w)
    \/ Dump(w)         \/ DumpFails(w)          \/ AssertLease(w) \/ Rename(w)
    \/ RecordOutcome(w) \/ ReleaseLease(w)

Next ==
    \/ CreateManualBackup \/ UpdateBackupSetting
    \/ Elapse \/ Minute
    \/ \E w \in Workers :
         Step(w) \/ Heartbeat(w) \/ Crash(w) \/ Throws(w) \/ ReleaseFails(w)

Spec == Init /\ [][Next]_vars

\* A process that is up goes on ticking (a dump ends), and time passes.
FairSpec == Spec /\ WF_vars(Elapse) /\ \A w \in Workers : WF_vars(Step(w))

----------------------------------------------------------------------------
(* Properties. *)

\* README.md:81, what the history calls a success did become the backup file,
\* whichever processes took the lease over meanwhile.
SuccessIsPublished ==
    \A i \in 1..Len(jobs) : jobs[i].status = "SUCCESS" => i \in published

\* The history as BackupContract sees it.
History == [i \in 1..MaxJobs |-> IF i \in DOMAIN jobs THEN jobs[i].status ELSE "NONE"]

Contract == INSTANCE BackupContract WITH status <- History

\* With processes that stall past their lease and work on the same table, each job still
\* starts once and is not started again when it has ended; a success is written for a
\* published dump and is never taken back, neither by its own process nor by one that
\* took the lease over (database-backup.worker.ts:180-241).
ImplementsBackupContract == Contract!Spec

\* A queued backup ends, and so stops blocking the manual ones, through crashes,
\* failing statements and processes that stall with the lease in their hands.
EveryJobEnds ==
    \A i \in 1..MaxJobs :
        (i \in DOMAIN jobs /\ jobs[i].active) ~> (i \in DOMAIN jobs /\ ~jobs[i].active)
=============================================================================
