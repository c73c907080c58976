------------------------ MODULE DatabaseBackup_proofs ------------------------
(***************************************************************************)
(* What DatabaseBackup keeps for every number of processes, jobs, windows, *)
(* faults and every length of the lease.                                   *)
(*                                                                         *)
(* The proof uses the lease nowhere: what the job table promises does not  *)
(* rest on a process noticing in time that it has lost the lease, but on   *)
(* the unique keys, on the condition of the claim, and on a process that   *)
(* records a success having replaced the file.                             *)
(***************************************************************************)
EXTENDS DatabaseBackup, SequenceTheorems, TLAPS

RunState == [phase: Phase, window: 0..MaxWindow, job: 0..MaxJobs]

\* A process that has found a job works on a row there is; one about to record a
\* success has replaced the file.
RunOK(w) ==
    /\ run[w].phase \in {"claim", "dump", "check", "rename", "success", "failed"}
         => run[w].job \in 1..Len(jobs)
    /\ run[w].phase = "success" => run[w].job \in published

JobsOK ==
    /\ jobs \in Seq(Job) /\ Len(jobs) <= MaxJobs
    /\ published \subseteq 1..Len(jobs)
    /\ OneActiveJob
    /\ SuccessIsPublished

RestOK ==
    /\ clock \in [window: 1..MaxWindow, due: BOOLEAN]
    /\ setting \in [enabled: BOOLEAN, last: 0..MaxWindow]
    /\ lease \in [owner: Workers \cup {Nobody, Dead}, left: 0..LEASE]
    /\ faults \in 0..MaxFaults

IInv ==
    /\ RestOK /\ JobsOK
    /\ run \in [Workers -> RunState] /\ \A w \in Workers : RunOK(w)

----------------------------------------------------------------------------
(* The job table. *)

\* A row is added; an active one only where there was none.
Grow(job) ==
    /\ Len(jobs) < MaxJobs
    /\ jobs' = Append(jobs, job)
    /\ job \in Job /\ job.status \in {"PENDING", "SKIPPED"}
    /\ job.active <=> job.status = "PENDING"
    /\ job.active => ~ActiveJob

\* What a step makes of a row: it leaves it, claims it, or ends it.
Turn(i) ==
    \/ jobs'[i] = jobs[i]
    \/ /\ jobs[i].status = "PENDING" /\ jobs'[i].status = "RUNNING"
       /\ jobs[i].active /\ jobs'[i].active
    \/ jobs'[i].status = "FAILED" /\ ~jobs'[i].active
    \/ jobs'[i].status = "SUCCESS" /\ ~jobs'[i].active /\ i \in published

TurnAll ==
    /\ jobs' \in Seq(Job) /\ Len(jobs') = Len(jobs)
    /\ \A i \in 1..Len(jobs) : Turn(i)

TableStep == TurnAll \/ \E job \in Job : Grow(job)

\* The table stays in order through either.
LEMMA TableKept ==
    ASSUME IInv, TableStep, published \subseteq published', published' \subseteq 1..Len(jobs)
    PROVE  JobsOK' /\ Len(jobs) <= Len(jobs')
  <1> USE DEF IInv, JobsOK
  <1>1. CASE TurnAll
    <2>1. \A i \in 1..Len(jobs) : jobs[i] \in Job /\ jobs'[i] \in Job
      BY <1>1 DEF TurnAll
    <2>2. \A i \in 1..Len(jobs) : jobs'[i].active => jobs[i].active
      BY <1>1, <2>1 DEF TurnAll, Turn
    <2>3. \A i \in 1..Len(jobs) : jobs'[i].active <=> jobs'[i].status \in {"PENDING", "RUNNING"}
      BY <1>1, <2>1 DEF TurnAll, Turn, OneActiveJob, Job
    <2>4. OneActiveJob'
      BY <1>1, <2>2, <2>3 DEF TurnAll, OneActiveJob
    <2>5. SuccessIsPublished'
      BY <1>1, <2>1 DEF TurnAll, Turn, SuccessIsPublished
    <2> QED BY <1>1, <2>4, <2>5 DEF TurnAll
  <1>2. ASSUME NEW job \in Job, Grow(job) PROVE JobsOK' /\ Len(jobs) <= Len(jobs')
    <2>1. /\ jobs' \in Seq(Job) /\ Len(jobs') = Len(jobs) + 1
          /\ \A i \in 1..Len(jobs) : jobs'[i] = jobs[i]
          /\ jobs'[Len(jobs) + 1] = job
      BY <1>2 DEF Grow
    <2>2. \A i \in 1..Len(jobs') : i \in 1..Len(jobs) \/ i = Len(jobs) + 1
      BY <2>1
    <2>3. OneActiveJob'
      BY <1>2, <2>1, <2>2 DEF Grow, OneActiveJob, ActiveJob, Job
    <2>4. SuccessIsPublished'
      BY <1>2, <2>1, <2>2 DEF Grow, SuccessIsPublished
    <2>5. Len(jobs') <= MaxJobs
      BY <1>2, <2>1, BackupAssumption DEF Grow
    <2> QED BY <2>1, <2>3, <2>4, <2>5
  <1> QED BY <1>1, <1>2 DEF TableStep

\* Rows nobody touches.
LEMMA SameTable == IInv /\ jobs' = jobs => TableStep
  BY DEF IInv, JobsOK, TableStep, TurnAll, Turn

\* A process that changes one row by its id.
LEMMA OneRow ==
    ASSUME IInv, NEW k \in 1..Len(jobs), NEW row \in Job, jobs' = [jobs EXCEPT ![k] = row],
           Turn(k)
    PROVE  TableStep
  <1>1. /\ jobs' \in Seq(Job) /\ Len(jobs') = Len(jobs)
        /\ \A i \in 1..Len(jobs) : i # k => jobs'[i] = jobs[i]
    BY ExceptSeq DEF IInv, JobsOK
  <1> QED BY <1>1 DEF TableStep, TurnAll, Turn

\* Of the steps, only these touch the table; each adds a row or turns one.
LEMMA TableSteps ==
    ASSUME IInv, [Next]_vars
    PROVE  TableStep /\ published \subseteq published' /\ published' \subseteq 1..Len(jobs)
  <1> USE BackupAssumption
  <1>1. CASE CreateManualBackup
    <2>1. Queued(0) \in Job /\ Skipped(0) \in Job
      BY DEF Queued, Skipped, Job, JobStatus
    <2>2. \E job \in Job : Grow(job)
      BY <1>1, <2>1 DEF CreateManualBackup, Room, Grow, Queued, Skipped
    <2> QED BY <1>1, <2>2 DEF CreateManualBackup, TableStep, IInv, JobsOK
  <1>2. ASSUME NEW w \in Workers, EnqueueScheduled(w) \/ LogSkipped(w)
        PROVE  TableStep /\ UNCHANGED published
    <2>1. run[w].window \in 0..MaxWindow
      BY DEF IInv, RunState
    <2>2. Queued(run[w].window) \in Job /\ Skipped(run[w].window) \in Job
      BY <2>1 DEF Queued, Skipped, Job, JobStatus
    <2>3. jobs' = jobs \/ \E job \in Job : Grow(job)
      BY <1>2, <2>2 DEF EnqueueScheduled, LogSkipped, Room, Grow, Queued, Skipped
    <2> QED BY <1>2, <2>3, SameTable DEF EnqueueScheduled, LogSkipped, TableStep
  <1>3. ASSUME NEW w \in Workers, RecoverInterrupted(w) PROVE TableStep /\ UNCHANGED published
    <2>1. \A i \in 1..Len(jobs) : jobs[i] \in Job /\ Fails(jobs[i]) \in Job
      <3>1. \A job \in Job : Fails(job) \in Job
        BY DEF Fails, Job, JobStatus
      <3> QED BY <3>1 DEF IInv, JobsOK
    <2>2. \A i \in 1..Len(jobs) :
            (IF jobs[i].status = "RUNNING" THEN Fails(jobs[i]) ELSE jobs[i]) \in Job
      BY <2>1
    <2>3. jobs' \in Seq(Job) /\ Len(jobs') = Len(jobs)
      BY <1>3, <2>2 DEF RecoverInterrupted, IInv, JobsOK
    <2>4. \A i \in 1..Len(jobs) : Turn(i)
      BY <1>3, <2>1 DEF RecoverInterrupted, Turn, Fails, Job
    <2> QED BY <1>3, <2>3, <2>4 DEF RecoverInterrupted, TableStep, TurnAll
  <1>4. ASSUME NEW w \in Workers, ClaimJob(w) PROVE TableStep /\ UNCHANGED published
    <2>1. run[w].job \in 1..Len(jobs)
      BY <1>4 DEF ClaimJob, At, IInv, RunOK
    <2>2. CASE jobs' = jobs
      BY <1>4, <2>2, SameTable DEF ClaimJob
    <2>3. CASE /\ jobs[run[w].job].status = "PENDING" /\ jobs[run[w].job].active
               /\ jobs' = [jobs EXCEPT ![run[w].job].status = "RUNNING"]
      <3> DEFINE row == [jobs[run[w].job] EXCEPT !.status = "RUNNING"]
      <3>1. jobs[run[w].job] \in Job
        BY <2>1 DEF IInv, JobsOK
      <3>2. row \in Job /\ row.active /\ row.status = "RUNNING"
        BY <2>3, <3>1 DEF Job, JobStatus
      <3>3. jobs' = [jobs EXCEPT ![run[w].job] = row]
        BY <2>3
      <3>4. jobs'[run[w].job] = row
        BY <2>1, <3>2, <3>3, ExceptSeq DEF IInv, JobsOK
      <3> HIDE DEF row
      <3>5. Turn(run[w].job)
        BY <2>3, <3>2, <3>4 DEF Turn
      <3> QED BY <1>4, <2>1, <3>2, <3>3, <3>5, OneRow DEF ClaimJob
    <2> QED BY <1>4, <2>2, <2>3 DEF ClaimJob
  <1>5. ASSUME NEW w \in Workers, RecordOutcome(w) PROVE TableStep /\ UNCHANGED published
    <2>1. run[w].job \in 1..Len(jobs) /\ (At(w, "success") => run[w].job \in published)
      BY <1>5 DEF RecordOutcome, At, IInv, RunOK
    <2> DEFINE job == jobs[run[w].job]
               row == IF At(w, "success") THEN [job EXCEPT !.status = "SUCCESS", !.active = FALSE]
                      ELSE Fails(job)
    <2>2. job \in Job
      BY <2>1 DEF IInv, JobsOK
    <2>3. row \in Job /\ ~row.active /\ row.status \in {"SUCCESS", "FAILED"}
          /\ (row.status = "SUCCESS" => At(w, "success"))
      BY <2>2 DEF Fails, Job, JobStatus
    <2>4. jobs' = [jobs EXCEPT ![run[w].job] = row]
      BY <1>5 DEF RecordOutcome
    <2> HIDE DEF row
    <2>5. jobs'[run[w].job] = row
      BY <2>1, <2>3, <2>4, ExceptSeq DEF IInv, JobsOK
    <2>6. Turn(run[w].job)
      BY <2>1, <2>3, <2>5 DEF Turn
    <2> QED BY <1>5, <2>1, <2>3, <2>4, <2>6, OneRow DEF RecordOutcome
  <1>6. ASSUME NEW w \in Workers, Rename(w)
        PROVE  jobs' = jobs /\ published' = published \cup {run[w].job} /\ run[w].job \in 1..Len(jobs)
    BY <1>6 DEF Rename, At, IInv, RunOK
  <1>7. published \subseteq 1..Len(jobs)
    BY DEF IInv, JobsOK
  <1>8. \/ TableStep /\ UNCHANGED published
        \/ \E w \in Workers : Rename(w)
    BY <1>1, <1>2, <1>3, <1>4, <1>5, SameTable
       DEF Next, Step, vars, CreateManualBackup, UpdateBackupSetting, Elapse, Minute, Tick,
           MarkScheduled, AcquireLease, FindPending, Dump, DumpFails, AssertLease, ReleaseLease,
           Heartbeat, Crash, Throws, ReleaseFails
  <1> QED BY <1>6, <1>7, <1>8, SameTable

----------------------------------------------------------------------------
(* The processes. *)

\* What the next state must say of a process.
Fits(q) ==
    /\ q \in RunState
    /\ q.phase \in {"claim", "dump", "check", "rename", "success", "failed"}
         => q.job \in 1..Len(jobs)
    /\ q.phase = "success" => q.job \in published'

\* A step of one process, and a step of none.
LEMMA StepOK ==
    ASSUME IInv, [Next]_vars, RestOK', NEW w \in Workers, NEW q, Fits(q),
           run' = [run EXCEPT ![w] = q]
    PROVE  IInv'
  <1>1. JobsOK' /\ Len(jobs) <= Len(jobs') /\ published \subseteq published'
    BY TableSteps, TableKept
  <1>2. Len(jobs) \in Nat /\ Len(jobs') \in Nat
    BY <1>1 DEF IInv, JobsOK
  <1>3. ASSUME NEW v \in Workers PROVE RunOK(v)'
    BY <1>1, <1>2 DEF Fits, IInv, RunOK
  <1> QED BY <1>1, <1>3 DEF Fits, IInv

LEMMA StillOK ==
    ASSUME IInv, [Next]_vars, RestOK', run' = run
    PROVE  IInv'
  <1>1. JobsOK' /\ Len(jobs) <= Len(jobs') /\ published \subseteq published'
    BY TableSteps, TableKept
  <1>2. Len(jobs) \in Nat /\ Len(jobs') \in Nat
    BY <1>1 DEF IInv, JobsOK
  <1> QED BY <1>1, <1>2 DEF IInv, RunOK

\* One step per statement of a tick, of the administrator, and of what goes wrong.
LEMMA NextOK == IInv /\ [Next]_vars => IInv'
  <1> SUFFICES ASSUME IInv, [Next]_vars PROVE IInv'
    OBVIOUS
  <1> USE BackupAssumption
  <1>0. \A w \in Workers : RunOK(w) /\ run[w] \in RunState
    BY DEF IInv
  <1>1. CASE CreateManualBackup \/ UpdateBackupSetting \/ Elapse \/ Minute \/ UNCHANGED vars
    <2>1. CASE CreateManualBackup \/ UpdateBackupSetting \/ Elapse \/ UNCHANGED vars
      <3>1. RestOK' /\ run' = run
        BY <2>1 DEF CreateManualBackup, UpdateBackupSetting, Elapse, vars, IInv, RestOK
      <3> QED BY <3>1, StillOK
    <2>2. CASE Minute
      <3>1. clock' \in [window: 1..MaxWindow, due: BOOLEAN]
        <4>1. clock \in [window: 1..MaxWindow, due: BOOLEAN]
          BY DEF IInv, RestOK
        <4>2. CASE clock.due
          <5>1. clock' = [window |-> clock.window + 1, due |-> FALSE] /\ clock'.window <= MaxWindow
            BY <2>2, <4>2 DEF Minute
          <5> QED BY <4>1, <5>1
        <4>3. CASE ~clock.due
          <5>1. clock' = [clock EXCEPT !.due = TRUE]
            BY <2>2, <4>3 DEF Minute
          <5> QED BY <4>1, <5>1
        <4> QED BY <4>2, <4>3
      <3>2. RestOK' /\ run' = run
        BY <2>2, <3>1 DEF Minute, IInv, RestOK
      <3> QED BY <3>2, StillOK
    <2> QED BY <1>1, <2>1, <2>2
  <1>2. ASSUME NEW w \in Workers, Tick(w) PROVE IInv'
    <2> DEFINE q == IF isBackupDue THEN [run[w] EXCEPT !.phase = "insert", !.window = clock.window]
                    ELSE [run[w] EXCEPT !.phase = "acquire"]
    <2>1. RestOK' /\ run' = [run EXCEPT ![w] = q]
      BY <1>2 DEF Tick, Go, IInv, RestOK
    <2>2. Fits(q)
      <3>1. clock.window \in 0..MaxWindow
        BY DEF IInv, RestOK
      <3>2. [run[w] EXCEPT !.phase = "insert", !.window = clock.window] \in RunState
        BY <1>0, <3>1 DEF RunState, Phase
      <3>3. [run[w] EXCEPT !.phase = "acquire"] \in RunState
        BY <1>0 DEF RunState, Phase
      <3> QED BY <3>2, <3>3 DEF Fits, RunState
    <2> QED BY <2>1, <2>2, StepOK
  <1>3. ASSUME NEW w \in Workers, NEW phase \in Phase \ {"claim", "success"}, Go(w, phase), RestOK',
               phase \in {"dump", "check", "rename", "failed"} =>
                 run[w].phase \in {"claim", "dump", "check", "rename", "success"}
        PROVE  IInv'
    <2> DEFINE q == [run[w] EXCEPT !.phase = phase]
    <2>1. run' = [run EXCEPT ![w] = q]
      BY <1>3 DEF Go, IInv
    <2>2. Fits(q)
      BY <1>0, <1>3 DEF Fits, RunOK, RunState, Phase
    <2> QED BY <1>3, <2>1, <2>2, StepOK
  <1>4. ASSUME NEW w \in Workers, Rest(w), RestOK' PROVE IInv'
    <2>1. Fits(Resting)
      BY DEF Fits, Resting, RunState, Phase
    <2> QED BY <1>4, <2>1, StepOK DEF Rest
  <1>5. ASSUME NEW w \in Workers, EnqueueScheduled(w) \/ LogSkipped(w) PROVE IInv'
    BY <1>3, <1>5 DEF EnqueueScheduled, LogSkipped, IInv, RestOK, Phase
  <1>6. ASSUME NEW w \in Workers, MarkScheduled(w) PROVE IInv'
    <2>1. RestOK'
      BY <1>0, <1>6 DEF MarkScheduled, IInv, RestOK, RunState
    <2> QED BY <1>3, <1>6, <2>1 DEF MarkScheduled, Phase
  <1>7. ASSUME NEW w \in Workers, AcquireLease(w) PROVE IInv'
    <2>1. RestOK'
      BY <1>7 DEF AcquireLease, IInv, RestOK
    <2> QED BY <1>3, <1>4, <1>7, <2>1 DEF AcquireLease, Phase
  <1>8. ASSUME NEW w \in Workers, RecoverInterrupted(w) PROVE IInv'
    BY <1>3, <1>8 DEF RecoverInterrupted, IInv, RestOK, Phase
  <1>9. ASSUME NEW w \in Workers, FindPending(w) PROVE IInv'
    <2>1. RestOK'
      BY <1>9 DEF FindPending, IInv, RestOK
    <2>2. CASE Pending = {}
      BY <1>3, <1>9, <2>1, <2>2 DEF FindPending, Phase
    <2>3. CASE Pending # {}
      <3> DEFINE k == CHOOSE i \in Pending : \A j \in Pending : i <= j
                 q == [run[w] EXCEPT !.phase = "claim", !.job = k]
      <3>1. k \in Pending
        <4>1. \A i, j \in Pending : i \in Nat /\ i = j
          BY DEF Pending, IInv, JobsOK, OneActiveJob
        <4>2. \E i \in Pending : \A j \in Pending : i <= j
          BY <2>3, <4>1
        <4> QED BY <4>2
      <3>2. k \in 1..Len(jobs) /\ k \in 0..MaxJobs
        BY <3>1 DEF Pending, IInv, JobsOK
      <3>3. run' = [run EXCEPT ![w] = q]
        BY <1>9, <2>3 DEF FindPending, IInv
      <3> HIDE DEF k
      <3>4. Fits(q)
        BY <1>0, <3>2 DEF Fits, RunState, Phase
      <3> QED BY <2>1, <3>3, <3>4, StepOK
    <2> QED BY <2>2, <2>3
  <1>10. ASSUME NEW w \in Workers, ClaimJob(w) PROVE IInv'
    <2>1. RestOK'
      BY <1>10 DEF ClaimJob, IInv, RestOK
    <2> QED BY <1>3, <1>10, <2>1 DEF ClaimJob, At, Phase
  <1>11. ASSUME NEW w \in Workers, Dump(w) \/ DumpFails(w) PROVE IInv'
    <2>1. RestOK'
      BY <1>11 DEF Dump, DumpFails, IInv, RestOK
    <2> QED BY <1>3, <1>11, <2>1 DEF Dump, DumpFails, At, Phase
  <1>12. ASSUME NEW w \in Workers, AssertLease(w) PROVE IInv'
    <2>1. RestOK'
      BY <1>12 DEF AssertLease, Renewed, IInv, RestOK
    <2> QED BY <1>3, <1>12, <2>1 DEF AssertLease, At, Phase
  <1>13. ASSUME NEW w \in Workers, Rename(w) PROVE IInv'
    <2> DEFINE q == [run[w] EXCEPT !.phase = "success"]
    <2>1. RestOK' /\ run' = [run EXCEPT ![w] = q]
      BY <1>13 DEF Rename, Go, IInv, RestOK
    <2>2. Fits(q)
      BY <1>0, <1>13 DEF Rename, At, Fits, RunOK, RunState, Phase
    <2> QED BY <2>1, <2>2, StepOK
  <1>14. ASSUME NEW w \in Workers, RecordOutcome(w) PROVE IInv'
    <2>1. RestOK'
      BY <1>14 DEF RecordOutcome, IInv, RestOK
    <2> QED BY <1>3, <1>14, <2>1 DEF RecordOutcome, Phase
  <1>15. ASSUME NEW w \in Workers, ReleaseLease(w) PROVE IInv'
    <2>1. RestOK'
      BY <1>15 DEF ReleaseLease, IInv, RestOK
    <2> QED BY <1>4, <1>15, <2>1 DEF ReleaseLease
  <1>16. ASSUME NEW w \in Workers, Heartbeat(w) PROVE IInv'
    <2>1. RestOK' /\ run' = run
      BY <1>16 DEF Heartbeat, Renewed, IInv, RestOK
    <2> QED BY <2>1, StillOK
  <1>17. ASSUME NEW w \in Workers, Crash(w) \/ ReleaseFails(w) PROVE IInv'
    <2>1. RestOK'
      BY <1>17 DEF Crash, ReleaseFails, Fault, Abandoned, IInv, RestOK
    <2> QED BY <1>4, <1>17, <2>1 DEF Crash, ReleaseFails
  <1>18. ASSUME NEW w \in Workers, Throws(w) PROVE IInv'
    <2>1. RestOK'
      BY <1>18 DEF Throws, Fault, IInv, RestOK
    <2>2. \/ Rest(w)
          \/ Go(w, "mark") \/ Go(w, "release")
          \/ run[w].phase \in {"check", "rename", "success"} /\ Go(w, "failed")
      BY <1>18 DEF Throws
    <2> QED BY <1>3, <1>4, <2>1, <2>2 DEF Phase
  <1> QED BY <1>1, <1>2, <1>5, <1>6, <1>7, <1>8, <1>9, <1>10, <1>11, <1>12, <1>13, <1>14, <1>15,
             <1>16, <1>17, <1>18 DEF Next, Step

\* Nothing has happened yet.
LEMMA InitOK == Init => IInv
  BY EmptySeq, BackupAssumption
     DEF Init, IInv, RestOK, JobsOK, RunOK, RunState, Resting, Phase, OneActiveJob,
         SuccessIsPublished

THEOREM Invariance == Spec => []IInv
  BY InitOK, NextOK, PTL DEF Spec

\* The job table, the lease and the processes keep their types, and one job at most is
\* active, whoever takes the lease over from whom (prisma/schema.prisma:206-207).
THEOREM TypeCorrect == Spec => []TypeOK
  <1>1. ASSUME IInv PROVE TypeOK
    <2>1. jobs \in UNION {[1..n -> Job] : n \in 0..MaxJobs}
      <3>1. jobs \in [1..Len(jobs) -> Job] /\ Len(jobs) \in 0..MaxJobs
        BY <1>1, LenProperties, BackupAssumption DEF IInv, JobsOK
      <3> QED BY <3>1
    <2> QED BY <1>1, <2>1 DEF TypeOK, IInv, RestOK, JobsOK, RunState
  <1> QED BY Invariance, <1>1, PTL

\* What the history calls a success did become the backup file (README.md:81).
THEOREM SuccessesArePublished == Spec => []SuccessIsPublished
  BY Invariance, PTL DEF IInv, JobsOK

----------------------------------------------------------------------------
(* The history of backups. *)

\* A process works on the job it has claimed until it has recorded the outcome.
Working(w) == run[w].phase \in {"dump", "check", "rename", "success", "failed"}

\* Nobody else works on that job, and nobody has called it a success.
JobIsOwn(w) ==
    Working(w) =>
        /\ jobs[run[w].job].status \in {"RUNNING", "FAILED"}
        /\ \A v \in Workers : Working(v) /\ run[v].job = run[w].job => v = w

OwnInv == IInv /\ \A w \in Workers : JobIsOwn(w)

\* Processes that go on with what they have, on rows that were not made a success, still
\* have it alone.
LEMMA OwnKept ==
    ASSUME OwnInv,
           \A w \in Workers : Working(w)' =>
             /\ Working(w) /\ run'[w].job = run[w].job
             /\ jobs'[run[w].job].status \in {"RUNNING", "FAILED"}
    PROVE  \A w \in Workers : JobIsOwn(w)'
  BY DEF OwnInv, JobIsOwn

\* One step per statement that touches the table, one for all the others.
LEMMA OwnNextOK == OwnInv /\ [Next]_vars => OwnInv'
  <1> SUFFICES ASSUME OwnInv, [Next]_vars PROVE \A w \in Workers : JobIsOwn(w)'
    BY NextOK DEF OwnInv
  <1>0. /\ IInv /\ jobs \in Seq(Job) /\ run \in [Workers -> RunState]
        /\ \A w \in Workers : Working(w) => /\ run[w].job \in 1..Len(jobs)
                                           /\ jobs[run[w].job].status \in {"RUNNING", "FAILED"}
    BY DEF OwnInv, IInv, JobsOK, RunOK, Working, JobIsOwn
  <1>1. ASSUME NEW w \in Workers, ClaimJob(w) PROVE \A v \in Workers : JobIsOwn(v)'
    <2> DEFINE k == run[w].job
    <2>1. k \in 1..Len(jobs) /\ ~Working(w)
      BY <1>1 DEF ClaimJob, At, Working, OwnInv, IInv, RunOK
    <2>2. CASE jobs' = jobs /\ Go(w, "release")
      BY <1>0, <2>2, OwnKept DEF Go, Working
    <2>3. CASE /\ jobs[k].status = "PENDING" /\ jobs' = [jobs EXCEPT ![k].status = "RUNNING"]
               /\ Go(w, "dump")
      <3>1. \A v \in Workers : Working(v) => run[v].job # k
        BY <1>0, <2>3
      <3>2. jobs'[k].status = "RUNNING" /\ \A i \in 1..Len(jobs) : i # k => jobs'[i] = jobs[i]
        BY <1>0, <2>1, <2>3 DEF Job
      <3>3. /\ run'[w].job = k
            /\ \A v \in Workers : v # w => run'[v] = run[v]
        BY <1>0, <2>3 DEF Go, RunState
      <3> HIDE DEF k
      <3> QED BY <1>0, <3>1, <3>2, <3>3 DEF JobIsOwn, Working, OwnInv
    <2> QED BY <1>1, <2>2, <2>3 DEF ClaimJob
  <1>2. ASSUME NEW w \in Workers, RecordOutcome(w) PROVE \A v \in Workers : JobIsOwn(v)'
    <2>1. Working(w) /\ run[w].job \in 1..Len(jobs)
      BY <1>0, <1>2 DEF RecordOutcome, At, Working
    <2>2. ~Working(w)' /\ \A v \in Workers \ {w} : run'[v] = run[v]
      BY <1>0, <1>2 DEF RecordOutcome, Go, Working
    <2>3. \A v \in Workers \ {w} : Working(v) => run[v].job # run[w].job
      BY <2>1 DEF OwnInv, JobIsOwn
    <2>4. \A i \in 1..Len(jobs) : i # run[w].job => jobs'[i] = jobs[i]
      BY <1>0, <1>2 DEF RecordOutcome
    <2> QED BY <1>0, <2>2, <2>3, <2>4, OwnKept DEF Working
  <1>3. ASSUME NEW w \in Workers, RecoverInterrupted(w) PROVE \A v \in Workers : JobIsOwn(v)'
    <2>1. \A i \in 1..Len(jobs) :
            jobs[i].status \in {"RUNNING", "FAILED"} => jobs'[i].status \in {"RUNNING", "FAILED"}
      <3>1. \A job \in Job : Fails(job).status = "FAILED"
        BY DEF Fails, Job
      <3> QED BY <1>0, <1>3, <3>1 DEF RecoverInterrupted
    <2>2. ~Working(w)' /\ \A v \in Workers \ {w} : run'[v] = run[v]
      BY <1>0, <1>3 DEF RecoverInterrupted, Go, Working
    <2> QED BY <1>0, <2>1, <2>2, OwnKept DEF Working
  <1>4. ASSUME \A i \in 1..Len(jobs) : jobs'[i] = jobs[i],
               \A w \in Workers : Working(w)' => Working(w) /\ run'[w].job = run[w].job
        PROVE  \A w \in Workers : JobIsOwn(w)'
    BY <1>0, <1>4, OwnKept
  <1>5. CASE CreateManualBackup \/ UpdateBackupSetting \/ Elapse \/ Minute \/ UNCHANGED vars
    <2>1. run' = run /\ \A i \in 1..Len(jobs) : jobs'[i] = jobs[i]
      BY <1>0, <1>5, AppendProperties
         DEF CreateManualBackup, UpdateBackupSetting, Elapse, Minute, vars, Queued, Skipped
    <2> QED BY <1>4, <2>1 DEF Working
  <1>6. ASSUME NEW w \in Workers, EnqueueScheduled(w) \/ LogSkipped(w)
        PROVE  \A v \in Workers : JobIsOwn(v)'
    <2>1. \A i \in 1..Len(jobs) : jobs'[i] = jobs[i]
      <3>1. run[w].window \in 0..MaxWindow
        BY <1>0 DEF RunState
      <3>2. Queued(run[w].window) \in Job /\ Skipped(run[w].window) \in Job
        BY <3>1 DEF Queued, Skipped, Job, JobStatus
      <3> QED BY <1>0, <1>6, <3>2, AppendProperties, SMTT(40) DEF EnqueueScheduled, LogSkipped
    <2>2. \A v \in Workers : Working(v)' => Working(v) /\ run'[v].job = run[v].job
      <3>1. \E phase \in {"conflict", "mark"} : Go(w, phase)
        BY <1>6 DEF EnqueueScheduled, LogSkipped
      <3> QED BY <1>0, <3>1 DEF Go, Working, RunState
    <2> QED BY <1>4, <2>1, <2>2
  <1>7. ASSUME NEW w \in Workers,
               \/ Tick(w) \/ MarkScheduled(w) \/ AcquireLease(w) \/ FindPending(w) \/ Dump(w)
               \/ DumpFails(w) \/ AssertLease(w) \/ Rename(w) \/ ReleaseLease(w)
               \/ Heartbeat(w) \/ Crash(w) \/ Throws(w) \/ ReleaseFails(w)
        PROVE  \A v \in Workers : JobIsOwn(v)'
    <2>1. jobs' = jobs
      BY <1>7 DEF Tick, MarkScheduled, AcquireLease, FindPending, Dump, DumpFails, AssertLease,
                  Rename, ReleaseLease, Heartbeat, Crash, Throws, ReleaseFails
    <2>2. CASE \/ Tick(w) \/ MarkScheduled(w) \/ AcquireLease(w) \/ FindPending(w)
               \/ ReleaseLease(w) \/ Crash(w) \/ ReleaseFails(w)
      <3>1. /\ run'[w].phase \in {"insert", "acquire", "recover", "release", "claim", "idle"}
            /\ \A v \in Workers \ {w} : run'[v] = run[v]
        BY <1>0, <2>2 DEF Tick, MarkScheduled, AcquireLease, FindPending, ReleaseLease, Crash,
                          ReleaseFails, Go, Rest, Resting, RunState
      <3> QED BY <1>4, <2>1, <3>1 DEF Working
    <2>3. CASE Dump(w) \/ DumpFails(w) \/ AssertLease(w) \/ Rename(w) \/ Heartbeat(w) \/ Throws(w)
      <3>1. \/ run' = run \/ Rest(w) \/ Go(w, "mark") \/ Go(w, "release")
            \/ Working(w) /\ \E phase \in {"check", "failed", "rename", "success"} : Go(w, phase)
        BY <2>3 DEF Dump, DumpFails, AssertLease, Rename, Heartbeat, Throws, At, Working
      <3>2. \A v \in Workers : Working(v)' => Working(v) /\ run'[v].job = run[v].job
        <4>1. CASE run' = run
          BY <4>1 DEF Working
        <4>2. CASE Rest(w) \/ Go(w, "mark") \/ Go(w, "release")
          <5>1. /\ run'[w].phase \in {"idle", "mark", "release"}
                /\ \A v \in Workers \ {w} : run'[v] = run[v]
            BY <1>0, <4>2 DEF Go, Rest, Resting, RunState
          <5> QED BY <5>1 DEF Working
        <4>3. ASSUME Working(w), NEW phase \in {"check", "failed", "rename", "success"}, Go(w, phase)
              PROVE  \A v \in Workers : Working(v)' => Working(v) /\ run'[v].job = run[v].job
          <5>1. run'[w].job = run[w].job /\ \A v \in Workers \ {w} : run'[v] = run[v]
            BY <1>0, <4>3 DEF Go, RunState
          <5> QED BY <4>3, <5>1 DEF Working
        <4> QED BY <3>1, <4>1, <4>2, <4>3
      <3> QED BY <1>4, <2>1, <3>2
    <2> QED BY <1>7, <2>2, <2>3
  <1> QED BY <1>1, <1>2, <1>3, <1>5, <1>6, <1>7 DEF Next, Step

\* Nobody works on anything.
LEMMA OwnInitOK == Init => OwnInv
  BY InitOK DEF Init, Resting, OwnInv, JobIsOwn, Working

\* What the history says of a job.
LEMMA HistoryIs ==
    ASSUME IInv
    PROVE  /\ Len(jobs) \in 0..MaxJobs
           /\ \A i \in 1..Len(jobs) : i \in 1..MaxJobs /\ History[i] = jobs[i].status
           /\ \A i \in 1..MaxJobs \ 1..Len(jobs) : History[i] = "NONE"
  BY LenProperties, BackupAssumption DEF IInv, JobsOK, History

\* The same of the next state.
LEMMA HistoryWillBe ==
    ASSUME IInv'
    PROVE  /\ \A i \in 1..Len(jobs') : i \in 1..MaxJobs /\ History'[i] = jobs'[i].status
           /\ \A i \in 1..MaxJobs \ 1..Len(jobs') : History'[i] = "NONE"
  BY LenProperties, BackupAssumption DEF IInv, JobsOK, History

\* Two histories that differ in one job.
LEMMA HistoryOne ==
    ASSUME NEW k \in 1..MaxJobs, NEW s, History'[k] = s,
           \A i \in 1..MaxJobs : i # k => History'[i] = History[i]
    PROVE  History' = [History EXCEPT ![k] = s]
  BY DEF History

\* A step of one row is a step of the history.
LEMMA HistoryTurn ==
    ASSUME OwnInv, OwnInv', Len(jobs') = Len(jobs), NEW k \in 1..Len(jobs),
           \A i \in 1..Len(jobs) : i # k => jobs'[i] = jobs[i]
    PROVE  History' = [History EXCEPT ![k] = jobs'[k].status] /\ History[k] = jobs[k].status
  BY HistoryIs, HistoryWillBe, HistoryOne, SMTT(40) DEF OwnInv

\* Each statement is a step of the contract, or nothing in its eyes.
LEMMA ContractStep ==
    OwnInv /\ OwnInv' /\ [Next]_vars => [Contract!Next]_<<History, published>>
  <1> SUFFICES ASSUME OwnInv, OwnInv', Next
               PROVE  Contract!Next \/ UNCHANGED <<History, published>>
    BY DEF vars, History
  <1>0. /\ IInv /\ IInv' /\ jobs \in Seq(Job) /\ OneActiveJob
        /\ \A w \in Workers : RunOK(w) /\ JobIsOwn(w)
    BY DEF OwnInv, IInv, JobsOK
  <1> USE DEF Contract!Jobs
  <1>1. ASSUME NEW job \in Job, Grow(job), UNCHANGED published
        PROVE  Contract!Next
    <2> DEFINE k == Len(jobs) + 1
    <2>1. k \in 1..MaxJobs /\ Len(jobs') = k /\ jobs'[k] = job
          /\ \A i \in 1..Len(jobs) : jobs'[i] = jobs[i]
      BY <1>0, <1>1, HistoryIs, AppendProperties, BackupAssumption DEF Grow
    <2>2. History[k] = "NONE" /\ History'[k] = job.status
      BY <1>0, <2>1, HistoryIs, HistoryWillBe
    <2>3. \A i \in 1..MaxJobs : i # k => History'[i] = History[i]
      BY <1>0, <2>1, HistoryIs, HistoryWillBe
    <2>4. History' = [History EXCEPT ![k] = job.status]
      BY <2>1, <2>2, <2>3, HistoryOne
    <2>5. job.active => \A i \in 1..MaxJobs : History[i] \notin {"PENDING", "RUNNING"}
      BY <1>0, <1>1, HistoryIs DEF Grow, ActiveJob, OneActiveJob
    <2>6. Contract!Request(k) \/ Contract!Skip(k)
      BY <1>1, <2>2, <2>4, <2>5 DEF Grow, Contract!Request, Contract!Skip, Contract!Move
    <2> QED BY <2>1, <2>6 DEF Contract!Next
  <1>2. ASSUME NEW w \in Workers, RecoverInterrupted(w)
        PROVE  Contract!Next \/ UNCHANGED <<History, published>>
    <2>1. Len(jobs') = Len(jobs) /\ UNCHANGED published
      BY <1>0, <1>2 DEF RecoverInterrupted
    <2>2. CASE \E k \in 1..Len(jobs) : jobs[k].status = "RUNNING"
      <3>1. PICK k \in 1..Len(jobs) : jobs[k].status = "RUNNING"
        BY <2>2
      <3>2. \A i \in 1..Len(jobs) : jobs[i].status = "RUNNING" => i = k
        BY <1>0, <3>1 DEF OneActiveJob
      <3>3. /\ jobs'[k].status = "FAILED"
            /\ \A i \in 1..Len(jobs) : i # k => jobs'[i] = jobs[i]
        <4>1. \A job \in Job : Fails(job).status = "FAILED"
          BY DEF Fails, Job
        <4> QED BY <1>0, <1>2, <3>1, <3>2, <4>1 DEF RecoverInterrupted
      <3>4. Contract!Fail(k)
        BY <2>1, <3>1, <3>3, HistoryTurn DEF Contract!Fail, Contract!Move
      <3> QED BY <1>0, <3>4, HistoryIs DEF Contract!Next
    <2>3. CASE \A k \in 1..Len(jobs) : jobs[k].status # "RUNNING"
      <3>1. jobs' = [i \in 1..Len(jobs) |-> jobs[i]]
        BY <1>2, <2>3 DEF RecoverInterrupted
      <3>2. jobs = [i \in 1..Len(jobs) |-> jobs[i]]
        BY <1>0, LenProperties
      <3> QED BY <2>1, <3>1, <3>2 DEF History
    <2> QED BY <2>2, <2>3
  <1>3. ASSUME NEW w \in Workers, ClaimJob(w)
        PROVE  Contract!Next \/ UNCHANGED <<History, published>>
    <2> DEFINE k == run[w].job
    <2>1. k \in 1..Len(jobs) /\ UNCHANGED published
      BY <1>0, <1>3 DEF ClaimJob, At, RunOK
    <2>2. CASE jobs' = jobs
      BY <2>1, <2>2 DEF History
    <2>3. CASE jobs[k].status = "PENDING" /\ jobs' = [jobs EXCEPT ![k].status = "RUNNING"]
      <3>1. /\ Len(jobs') = Len(jobs) /\ jobs'[k].status = "RUNNING"
            /\ \A i \in 1..Len(jobs) : i # k => jobs'[i] = jobs[i]
        BY <1>0, <2>1, <2>3 DEF Job
      <3> HIDE DEF k
      <3>2. Contract!Start(k)
        BY <2>1, <2>3, <3>1, HistoryTurn DEF Contract!Start, Contract!Move
      <3> QED BY <1>0, <2>1, <3>2, HistoryIs DEF Contract!Next
    <2> QED BY <1>3, <2>2, <2>3 DEF ClaimJob
  <1>4. ASSUME NEW w \in Workers, Rename(w) PROVE Contract!Next
    <2> DEFINE k == run[w].job
    <2>1. k \in 1..Len(jobs) /\ jobs[k].status \in {"RUNNING", "FAILED"}
      BY <1>0, <1>4 DEF Rename, At, RunOK, JobIsOwn, Working
    <2>2. jobs' = jobs /\ published' = published \cup {k}
      BY <1>4 DEF Rename
    <2>3. Contract!Publish(k)
      BY <1>0, <2>1, <2>2, HistoryIs DEF Contract!Publish, History
    <2> QED BY <1>0, <2>1, <2>3, HistoryIs DEF Contract!Next
  <1>5. ASSUME NEW w \in Workers, RecordOutcome(w)
        PROVE  Contract!Next \/ UNCHANGED <<History, published>>
    <2> DEFINE k == run[w].job
    <2>1. /\ k \in 1..Len(jobs) /\ jobs[k].status \in {"RUNNING", "FAILED"}
          /\ At(w, "success") => k \in published
      BY <1>0, <1>5 DEF RecordOutcome, At, RunOK, JobIsOwn, Working
    <2>2. /\ Len(jobs') = Len(jobs) /\ UNCHANGED published
          /\ jobs'[k].status = IF At(w, "success") THEN "SUCCESS" ELSE "FAILED"
          /\ \A i \in 1..Len(jobs) : i # k => jobs'[i] = jobs[i]
      BY <1>0, <1>5, <2>1 DEF RecordOutcome, Fails, Job
    <2> HIDE DEF k
    <2>3. History' = [History EXCEPT ![k] = jobs'[k].status] /\ History[k] = jobs[k].status
      BY <2>1, <2>2, HistoryTurn
    <2>4. CASE At(w, "success")
      BY <1>0, <2>1, <2>2, <2>3, <2>4, HistoryIs DEF Contract!Next, Contract!Succeed, Contract!Move
    <2>5. CASE ~At(w, "success") /\ jobs[k].status = "RUNNING"
      BY <1>0, <2>1, <2>2, <2>3, <2>5, HistoryIs DEF Contract!Next, Contract!Fail, Contract!Move
    <2>6. CASE ~At(w, "success") /\ jobs[k].status = "FAILED"
      <3>1. \A i \in 1..MaxJobs : History'[i] = History[i]
        BY <2>2, <2>3, <2>6 DEF History
      <3> QED BY <2>2, <3>1 DEF History
    <2> QED BY <2>1, <2>4, <2>5, <2>6
  <1>6. ASSUME jobs' = jobs, published' = published
        PROVE  UNCHANGED <<History, published>>
    BY <1>6 DEF History
  <1>7. CASE CreateManualBackup
    <2>1. Queued(0) \in Job /\ Skipped(0) \in Job
      BY BackupAssumption DEF Queued, Skipped, Job, JobStatus
    <2> QED BY <1>1, <1>7, <2>1 DEF CreateManualBackup, Room, Grow, Queued, Skipped
  <1>8. ASSUME NEW w \in Workers, EnqueueScheduled(w) \/ LogSkipped(w)
        PROVE  Contract!Next \/ UNCHANGED <<History, published>>
    <2>1. run[w].window \in 0..MaxWindow
      BY <1>0 DEF IInv, RunState
    <2>2. Queued(run[w].window) \in Job /\ Skipped(run[w].window) \in Job
      BY <2>1 DEF Queued, Skipped, Job, JobStatus
    <2>3. jobs' = jobs \/ \E job \in Job : Grow(job)
      BY <1>8, <2>2 DEF EnqueueScheduled, LogSkipped, Room, Grow, Queued, Skipped
    <2> QED BY <1>1, <1>6, <1>8, <2>3 DEF EnqueueScheduled, LogSkipped
  <1> QED BY <1>2, <1>3, <1>4, <1>5, <1>6, <1>7, <1>8
          DEF Next, Step, UpdateBackupSetting, Elapse, Minute, Tick, MarkScheduled, AcquireLease,
              FindPending, Dump, DumpFails, AssertLease, ReleaseLease, Heartbeat, Crash, Throws,
              ReleaseFails

\* The processes, the lease and the administrator's requests implement the history of
\* BackupContract: a job starts once, and a success is never taken back.
THEOREM Refinement == Spec => ImplementsBackupContract
  <1>1. Init => Contract!Init
    BY BackupAssumption DEF Init, History, Contract!Init, Contract!Jobs
  <1>2. Spec => []OwnInv
    BY OwnInitOK, OwnNextOK, PTL DEF Spec
  <1> QED BY <1>1, <1>2, ContractStep, PTL DEF Spec, ImplementsBackupContract, Contract!Spec

=============================================================================
