--------------------------- MODULE TaskLifecycle ---------------------------
(***************************************************************************)
(* Tasks of the neighbour-help board: TaskService and the task branches of *)
(* AdminService.  Every operation is one database transaction in two steps.*)
(*                                                                         *)
(*   Begin   takes the row locks the code asks for and reads the task: the *)
(*           first plain read of the transaction, so (REPEATABLE READ) the *)
(*           snapshot every later plain read of it sees.  The early returns*)
(*           of the handler are decided on that row.                       *)
(*   commit  the conditional update, which looks at the current row, and   *)
(*           every other write of the handler.  If the update matches no   *)
(*           row, or a later check throws, nothing is written: Fail.       *)
(*                                                                         *)
(* Other transactions commit between the two steps.                        *)
(***************************************************************************)
EXTENDS Naturals, MediaRows

CONSTANTS Users,       \* mini-program users
          Super,       \* the super administrator (no user of his own)
          NoUser,      \* a null user id
          Tasks,       \* task ids
          NoTask,      \* the id of a task that is still to be created
          Requests,    \* transactions that may be in flight together
          MaxVersion   \* bound on the version column

ASSUME ConstantsAssumption ==
    /\ Super \notin Users
    /\ NoUser \notin Users \cup {Super}
    /\ NoTask \notin Tasks
    /\ MaxVersion \in Nat
    /\ Owner \in [Urls -> Users \cup {Super}]

VARIABLES task,    \* the tasks table
          asset,   \* the states of the media_assets rows
          notes,   \* the notifications table: recipient and dedupe key
          req      \* the transactions in flight

vars == <<task, asset, notes, req>>

Status == {"DRAFT", "PENDING_TAKE", "IN_PROGRESS", "PENDING_CONFIRM",
           "COMPLETED", "CANCELLED"}

Row == [status: Status \cup {"ABSENT"}, version: Nat,
        publisher: Users \cup {NoUser}, taker: Users \cup {NoUser},
        ready: BOOLEAN,       \* title, text, reward and location pass publishDraft's checks
                              \* (nothing looks at it once the task is published: TRUE)
        online: BOOLEAN, deleted: BOOLEAN,
        images: SUBSET Urls,  \* images and videos
        proofImages: SUBSET Urls,
        claimed: BOOLEAN, proven: BOOLEAN, completed: BOOLEAN, confirmed: BOOLEAN]

Absent == [status |-> "ABSENT", version |-> 0, publisher |-> NoUser,
           taker |-> NoUser, ready |-> FALSE, online |-> FALSE, deleted |-> FALSE,
           images |-> {}, proofImages |-> {}, claimed |-> FALSE, proven |-> FALSE,
           completed |-> FALSE, confirmed |-> FALSE]

NoteType == {"CLAIMED", "SUBMITTED", "CONFIRMED", "REJECTED", "CANCELLED", "ABANDONED"}

CreateOp == {"createTask", "createDraft", "adminCreate"}
UserOp   == {"saveDraft", "publishDraft", "claim", "submit", "confirm", "reject",
             "revoke", "republish", "delete", "abandon"}
AdminOp  == {"adminEdit", "adminState", "adminBatch", "adminDelete"}

Operator == Users \cup {Super}

Request == [op: CreateOp \cup UserOp \cup AdminOp \cup {"idle"},
            user: Operator \cup {NoUser},    \* who asks
            actor: Users \cup {NoUser},      \* actorUserId of an admin edit
            task: Tasks \cup {NoTask},
            row: Row,                        \* the task as read
            seen: [Urls -> AssetState]]      \* the assets as a plain read sees them

Idle == [op |-> "idle", user |-> NoUser, actor |-> NoUser, task |-> NoTask,
         row |-> Absent, seen |-> [m \in Urls |-> "ABSENT"]]

TypeOK ==
    /\ task \in [Tasks -> Row]
    /\ asset \in [Urls -> AssetState]
    /\ notes \subseteq [to: Users, task: Tasks, type: NoteType, version: Nat]
    /\ req \in [Requests -> Request]

Init ==
    /\ task = [t \in Tasks |-> Absent]
    /\ asset = [m \in Urls |-> "PENDING"]
    /\ notes = {}
    /\ req = [r \in Requests |-> Idle]

----------------------------------------------------------------------------
(* Begin: the reads and the checks made on them. *)

Live(row) == row.status # "ABSENT" /\ ~row.deleted

\* An administrator who is not the super administrator acts for the user he is
\* bound to and only touches what that user published.
MayModify(u, row) == u = Super \/ row.publisher = u

\* The early returns of each handler, on the row it has read.
Allowed(op, u, row) ==
    /\ Live(row)
    /\ op \in UserOp \ {"claim", "submit", "abandon"} => row.publisher = u
    /\ op \in {"claim", "submit", "confirm", "reject"} => row.online
    /\ op \in {"saveDraft", "publishDraft"} => row.status = "DRAFT"
    /\ op = "publishDraft" => row.ready
    /\ op = "claim" => row.publisher # u /\ row.status = "PENDING_TAKE"
    /\ op \in {"submit", "abandon"} => row.taker = u /\ row.status = "IN_PROGRESS"
    /\ op \in {"confirm", "reject"} => row.status = "PENDING_CONFIRM" /\ row.taker # NoUser
    /\ op = "revoke" => row.status \in {"PENDING_TAKE", "IN_PROGRESS", "PENDING_CONFIRM"}
    /\ op = "republish" => row.status = "CANCELLED"
    /\ op = "delete" => row.status \in {"DRAFT", "CANCELLED"}
    /\ op \in {"republish", "delete"} => row.taker = NoUser
    /\ op \in AdminOp => MayModify(u, row)

\* lockUsersForProfileSnapshot: the user row a transaction locks before it reads.
LockedUser(q) ==
    CASE q.op \in CreateOp \cup {"saveDraft", "publishDraft", "claim"} -> q.user
      [] q.op = "adminEdit" -> q.actor
      [] OTHER -> NoUser

Unlocked(q) ==
    LockedUser(q) # NoUser => \A other \in Requests : LockedUser(req[other]) # LockedUser(q)

Start(r, q) ==
    /\ req[r] = Idle
    /\ Unlocked(q)
    /\ req' = [req EXCEPT ![r] = q]
    /\ UNCHANGED <<task, asset, notes>>

BeginCreate(r, op, u) ==
    Start(r, [Idle EXCEPT !.op = op, !.user = u, !.seen = asset])

BeginUser(r, op, u, t) ==
    /\ Allowed(op, u, task[t])
    /\ task[t].version < MaxVersion
    /\ Start(r, [Idle EXCEPT !.op = op, !.user = u, !.task = t, !.row = task[t], !.seen = asset])

\* Only the super administrator may name another publisher (NoUser: not named).
BeginAdmin(r, op, u, actor, t) ==
    /\ Allowed(op, u, task[t])
    /\ task[t].version < MaxVersion
    /\ actor # NoUser => op = "adminEdit" /\ (u = Super \/ actor = u)
    /\ Start(r, [Idle EXCEPT !.op = op, !.user = u, !.actor = actor, !.task = t,
                             !.row = task[t], !.seen = asset])

----------------------------------------------------------------------------
(* Commit: the writes. *)

Finish(r) == req' = [req EXCEPT ![r] = Idle]

\* Slips the properties below must notice are written beside the operator they
\* belong to, under names that start with Slip.
SlipMatchesAnyVersion(q, now) == now.status = q.row.status /\ ~now.deleted

SlipMatchesAnyStatus(q, now) == ~now.deleted /\ (q.op = "claim" => now.taker = NoUser)

\* updateMany ... where id, status, version and the owner's column are as read,
\* deletedAt is null and, for the four operations that ask for it, ONLINE.
Matches(q, now) ==
    /\ now.version = q.row.version
    /\ now.status = q.row.status
    /\ ~now.deleted
    /\ q.op \in {"claim", "submit", "confirm", "reject"} => now.online
    /\ q.op \in {"claim", "republish", "delete"} => now.taker = NoUser
    /\ q.op \in {"submit", "abandon"} => now.taker = q.user
    /\ q.op \in UserOp \ {"claim", "submit", "abandon"} => now.publisher = q.user
    /\ q.op = "adminEdit" => now.publisher = q.row.publisher

SlipCasKeepsVersion(r, op, after) ==
    LET q == req[r] IN
    q.op = op /\ Matches(q, task[q.task]) /\ task' = [task EXCEPT ![q.task] = after]

\* The conditional update itself; `after` is the row with the handler's columns set.
Cas(r, op, after) ==
    LET q == req[r] IN
    /\ q.op = op
    /\ Matches(q, task[q.task])
    /\ task' = [task EXCEPT ![q.task] = [after EXCEPT !.version = @ + 1]]

Current(r) == task[req[r].task]

SlipNotifyOncePerType(r, type, to) ==
    LET q == req[r] IN
    notes' = IF to = q.user THEN notes
             ELSE notes \cup {[to |-> to, task |-> q.task, type |-> type, version |-> 1]}

\* notify: an upsert on (recipient, dedupeKey) in the same transaction; the key
\* holds the version the update has just written.  Nobody is notified by himself.
Notify(r, type, to) ==
    LET q == req[r] IN
    notes' = IF to = q.user THEN notes
             ELSE notes \cup {[to |-> to, task |-> q.task, type |-> type,
                               version |-> q.row.version + 1]}

NewRow(u, status, ready, online, images) ==
    [Absent EXCEPT !.status = status, !.publisher = u, !.ready = ready,
                   !.online = online, !.images = images]

CreateRow(r, status, ready, online, images) ==
    LET q == req[r] IN
    /\ MayAttach(q.seen, q.user, images)
    /\ \E t \in Tasks :
         /\ task[t] = Absent
         /\ task' = [task EXCEPT ![t] = NewRow(q.user, status, ready, online, images)]
    /\ asset' = Attach(asset, images)
    /\ UNCHANGED notes
    /\ Finish(r)

CreateTask(r) ==
    /\ req[r].op = "createTask"
    /\ \E images \in SUBSET Urls : CreateRow(r, "PENDING_TAKE", TRUE, TRUE, images)

CreateDraft(r) ==
    /\ req[r].op = "createDraft"
    /\ \E ready \in BOOLEAN, images \in SUBSET Urls :
         CreateRow(r, "DRAFT", ready, TRUE, images)

AdminCreate(r) ==
    /\ req[r].op = "adminCreate"
    /\ \E online \in BOOLEAN, images \in SUBSET Urls :
         CreateRow(r, "PENDING_TAKE", TRUE, online, images)

\* What saveDraft and the admin edit do with the media of the old and new content.
ReplaceMedia(r, images) ==
    LET q == req[r] IN
    /\ MayAttach(q.seen, q.user, images)
    /\ asset' = RequestDelete(Attach(asset, images), q.row.images \ images)

SaveDraft(r) ==
    \E ready \in BOOLEAN, images \in SUBSET Urls :
        /\ Cas(r, "saveDraft", [Current(r) EXCEPT !.ready = ready, !.images = images])
        /\ ReplaceMedia(r, images)
        /\ UNCHANGED notes
        /\ Finish(r)

PublishDraft(r) ==
    /\ Cas(r, "publishDraft", [Current(r) EXCEPT !.status = "PENDING_TAKE"])
    /\ UNCHANGED <<asset, notes>>
    /\ Finish(r)

ClaimTask(r) ==
    /\ Cas(r, "claim", [Current(r) EXCEPT !.status = "IN_PROGRESS", !.taker = req[r].user,
                                          !.claimed = TRUE])
    /\ Notify(r, "CLAIMED", req[r].row.publisher)
    /\ UNCHANGED asset
    /\ Finish(r)

SubmitComplete(r) ==
    \E images \in SUBSET Urls :
        /\ Cas(r, "submit", [Current(r) EXCEPT !.status = "PENDING_CONFIRM", !.proven = TRUE,
                                               !.proofImages = images, !.completed = TRUE])
        /\ MayAttach(req[r].seen, req[r].user, images)
        /\ asset' = Attach(asset, images)
        /\ Notify(r, "SUBMITTED", req[r].row.publisher)
        /\ Finish(r)

ConfirmComplete(r) ==
    /\ Cas(r, "confirm", [Current(r) EXCEPT !.status = "COMPLETED", !.confirmed = TRUE])
    /\ Notify(r, "CONFIRMED", req[r].row.taker)
    /\ UNCHANGED asset
    /\ Finish(r)

RejectComplete(r) ==
    /\ Cas(r, "reject", [Current(r) EXCEPT !.status = "IN_PROGRESS", !.confirmed = FALSE])
    /\ Notify(r, "REJECTED", req[r].row.taker)
    /\ UNCHANGED asset
    /\ Finish(r)

SlipRevokeNotifiesNobody(r) ==
    /\ Cas(r, "revoke", [Current(r) EXCEPT !.status = "CANCELLED"])
    /\ Notify(r, "CANCELLED", req[r].row.taker)
    /\ UNCHANGED asset
    /\ Finish(r)

RevokePublish(r) ==
    /\ Cas(r, "revoke", [Current(r) EXCEPT !.status = "CANCELLED"])
    /\ IF req[r].row.taker = NoUser THEN UNCHANGED notes
       ELSE Notify(r, "CANCELLED", req[r].row.taker)
    /\ UNCHANGED asset
    /\ Finish(r)

Republish(r) ==
    /\ Cas(r, "republish", [Current(r) EXCEPT !.status = "PENDING_TAKE"])
    /\ UNCHANGED <<asset, notes>>
    /\ Finish(r)

\* All the media of the row as read is queued for deletion.
CondemnMedia(r) ==
    asset' = RequestDelete(asset, req[r].row.images \cup req[r].row.proofImages)

DeleteUnpublished(r) ==
    /\ Cas(r, "delete", [Current(r) EXCEPT !.deleted = TRUE])
    /\ CondemnMedia(r)
    /\ UNCHANGED notes
    /\ Finish(r)

SlipAbandonKeepsProof(r) ==
    /\ Cas(r, "abandon", [Current(r) EXCEPT !.status = "PENDING_TAKE", !.taker = NoUser,
                                            !.claimed = FALSE])
    /\ Notify(r, "ABANDONED", req[r].row.publisher)
    /\ UNCHANGED asset
    /\ Finish(r)

AbandonTask(r) ==
    /\ Cas(r, "abandon", [Current(r) EXCEPT !.status = "PENDING_TAKE", !.taker = NoUser,
                 !.claimed = FALSE, !.proven = FALSE, !.proofImages = {},
                 !.completed = FALSE, !.confirmed = FALSE])
    /\ Notify(r, "ABANDONED", req[r].row.publisher)
    /\ UNCHANGED asset
    /\ Finish(r)

\* updateContentFields on a task, through updateAdminTaskContentCas.
AdminEdit(r) ==
    \E ready, online \in BOOLEAN, images \in SUBSET Urls :
        /\ req[r].row.status # "DRAFT" => ready
        /\ Cas(r, "adminEdit", [Current(r) EXCEPT !.ready = ready, !.online = online,
                 !.images = images,
                 !.publisher = IF req[r].actor = NoUser THEN @ ELSE req[r].actor])
        /\ ReplaceMedia(r, images)
        /\ UNCHANGED notes
        /\ Finish(r)

\* updateContentState updates the row by id alone, batchUpdateContentState only a
\* row that is not deleted; neither looks at the version or changes it.
AdminState(r) ==
    LET q == req[r] IN
    /\ q.op \in {"adminState", "adminBatch"}
    /\ q.op = "adminBatch" => ~task[q.task].deleted
    /\ \E online \in BOOLEAN : task' = [task EXCEPT ![q.task].online = online]
    /\ UNCHANGED <<asset, notes>>
    /\ Finish(r)

\* deleteContent: an update by id, with the media of the row as read.
AdminDelete(r) ==
    /\ req[r].op = "adminDelete"
    /\ task' = [task EXCEPT ![req[r].task].deleted = TRUE]
    /\ CondemnMedia(r)
    /\ UNCHANGED notes
    /\ Finish(r)

\* The conditional update matched nothing, a check threw or the connection was
\* lost: the transaction is rolled back and the request ends with an error.
Fail(r) ==
    /\ req[r] # Idle
    /\ Finish(r)
    /\ UNCHANGED <<task, asset, notes>>

Begin(r) ==
    \/ \E op \in CreateOp, u \in Users : BeginCreate(r, op, u)
    \/ \E op \in UserOp, u \in Users, t \in Tasks : BeginUser(r, op, u, t)
    \/ \E op \in AdminOp, u \in Operator, actor \in Users \cup {NoUser}, t \in Tasks :
         BeginAdmin(r, op, u, actor, t)

Commit(r) ==
    \/ CreateTask(r)      \/ CreateDraft(r)    \/ AdminCreate(r)
    \/ SaveDraft(r)       \/ PublishDraft(r)   \/ ClaimTask(r)
    \/ SubmitComplete(r)  \/ ConfirmComplete(r) \/ RejectComplete(r)
    \/ RevokePublish(r)   \/ Republish(r)      \/ DeleteUnpublished(r)
    \/ AbandonTask(r)     \/ AdminEdit(r)      \/ AdminState(r)
    \/ AdminDelete(r)

Next == \E r \in Requests : Begin(r) \/ Commit(r) \/ Fail(r)

Spec == Init /\ [][Next]_vars

----------------------------------------------------------------------------
(* Properties. *)

\* Whatever a transaction has read stays what the row is for as long as the
\* version stays: only the visibility switch and the administrator's delete
\* write a row without bumping it.  The conditional updates of TaskService and
\* updateAdminTaskContentCas rest on this.
Versioned(row) == [row EXCEPT !.online = FALSE, !.deleted = FALSE]

VersionIdentifiesRow ==
    \A r \in Requests : req[r].task \in Tasks =>
        LET now == task[req[r].task] IN
        /\ req[r].row.version <= now.version
        /\ req[r].row.version = now.version => Versioned(now) = Versioned(req[r].row)

\* The columns of the taker and of the proof agree with the status, after any
\* interleaving of claims, submissions, withdrawals and edits (taskId, takerId,
\* claimedAt, proofText, completedAt and confirmedAt of the Task model).
Coherent(row) ==
    /\ row.claimed <=> row.taker # NoUser
    /\ row.status \in {"IN_PROGRESS", "PENDING_CONFIRM", "COMPLETED"} => row.claimed
    /\ row.status \in {"ABSENT", "DRAFT", "PENDING_TAKE"} => ~row.claimed
    /\ ~row.claimed => ~row.proven /\ row.proofImages = {}
    /\ row.status \in {"PENDING_CONFIRM", "COMPLETED"} => row.proven
    /\ row.completed <=> row.proven
    /\ row.confirmed <=> row.status = "COMPLETED"

TakerMatchesStatus == \A t \in Tasks : Coherent(task[t])

\* A step that moves a task somebody has taken, or takes it, leaves exactly one
\* new notification: to the other party, under the version just written (unless
\* an administrator has made the taker the publisher, who is then not told of
\* what he did himself).  The dedupe key must not swallow a second claim,
\* rejection or submission of the same task.
Told(before, after) ==
    IF before.status = "PENDING_CONFIRM" \/ after.status = "CANCELLED"
    THEN before.taker ELSE before.publisher

EveryTransitionIsNotified ==
    [][\A t \in Tasks :
         LET before == task[t]
             after  == task'[t]
         IN  /\ before.status # after.status
             /\ before.taker # NoUser \/ after.taker # NoUser
             => {<<n.to, n.task, n.version>> : n \in notes' \ notes}
                  = (IF before.taker = before.publisher THEN {}
                     ELSE {<<Told(before, after), t, after.version>>})]_vars

\* A draft becomes visible on the board only with the title, content and place
\* that publishDraft checked, even when an administrator edits it meanwhile.
OnlyCompleteDraftsPublished ==
    [][\A t \in Tasks :
         task[t].status = "DRAFT" /\ task'[t].status = "PENDING_TAKE" => task[t].ready]_vars

\* What a row refers to.
Media(row) == row.images \cup row.proofImages

\* When a publisher deletes his task, no medium the row refers to at that moment
\* stays attached, whatever was saved since the request read the row.
DeletedTaskQueuesItsMedia ==
    [][\A r \in Requests :
         DeleteUnpublished(r) =>
             \A m \in Media(task[req[r].task]) : asset'[m] # "ATTACHED"]_vars

\* What a neighbour sees of a row.
Entry(row) == [phase     |-> IF row.deleted THEN "REMOVED" ELSE row.status,
               publisher |-> row.publisher,
               taker     |-> row.taker]

Board == [t \in Tasks |-> Entry(task[t])]

\* The two-step transactions implement the atomic moves of the board.
Contract == INSTANCE TaskContract WITH board <- Board

ImplementsContract == Contract!Spec

----------------------------------------------------------------------------
(* A claim of the design documents that the code does not meet. *)

\* docs/superpowers/specs/2026-08-10-media-lifecycle-design.md:47, proof images enter the deletion queue when the
\* task they belong to is deleted.  Once every task is deleted, nothing that was
\* attached through a task is still attached.
ProofsAreQueuedOnDelete ==
    [][\A r \in Requests :
         DeleteUnpublished(r) /\ (\A t \in Tasks \ {req[r].task} : ~Live(task[t]))
             => \A m \in Urls : asset'[m] # "ATTACHED"]_vars
=============================================================================
