--------------------------- MODULE BackupContract ---------------------------
(***************************************************************************)
(* What the history of backups promises, however many processes work on    *)
(* it: a job is requested while no other is active, starts once, and ends. *)
(* A success is the end of it, and is one of which the dump became the     *)
(* backup file; a job declared interrupted may still turn out a success.   *)
(*                                                                         *)
(* Nothing here knows of processes or of the lease that is to keep them    *)
(* apart.                                                                  *)
(***************************************************************************)
EXTENDS Naturals

CONSTANT MaxJobs

VARIABLES status,       \* of each job, in order of creation
          published     \* the jobs whose dump became the backup file

Jobs   == 1..MaxJobs
Status == {"NONE", "PENDING", "RUNNING", "SUCCESS", "FAILED", "SKIPPED"}

TypeOK == status \in [Jobs -> Status] /\ published \subseteq Jobs

Init == status = [i \in Jobs |-> "NONE"] /\ published = {}

Move(i, from, to) ==
    /\ status[i] \in from
    /\ status' = [status EXCEPT ![i] = to]
    /\ UNCHANGED published

Request(i) ==
    /\ \A j \in Jobs : status[j] \notin {"PENDING", "RUNNING"}
    /\ Move(i, {"NONE"}, "PENDING")

Skip(i)  == Move(i, {"NONE"}, "SKIPPED")
Start(i) == Move(i, {"PENDING"}, "RUNNING")

\* Whoever started a job may replace the file, though it has been declared interrupted.
Publish(i) ==
    /\ status[i] \in {"RUNNING", "FAILED"}
    /\ published' = published \cup {i}
    /\ UNCHANGED status

Succeed(i) == i \in published /\ Move(i, {"RUNNING", "FAILED"}, "SUCCESS")
Fail(i)    == Move(i, {"RUNNING"}, "FAILED")

Next ==
    \E i \in Jobs : \/ Request(i) \/ Skip(i) \/ Start(i)
                    \/ Publish(i) \/ Succeed(i) \/ Fail(i)

Spec == Init /\ [][Next]_<<status, published>>
=============================================================================
