------------------------ MODULE TaskLifecycle_proofs ------------------------
(***************************************************************************)
(* Theorems about TaskLifecycle for any number of users, tasks, requests   *)
(* and versions, and their proofs.                                         *)
(*                                                                         *)
(* The inductive invariant says, beside the properties, that a request in  *)
(* flight satisfied its handler's checks on the row it has read, and that  *)
(* a row that exists has a publisher.  VersionIdentifiesRow carries those  *)
(* checks over to the row the commit finds.                                *)
(*                                                                         *)
(* The second half is about steps: the action properties and the           *)
(* refinement of TaskContract.  CommitEffect says once what each operation *)
(* does to the row it writes and to the notifications, in terms of the row *)
(* it FINDS (the handlers speak of the row they have read; the inductive   *)
(* invariant says it is the same).  The theorems then follow from that     *)
(* list of effects.                                                        *)
(***************************************************************************)
EXTENDS TaskLifecycle, TLAPS

\* What a request in flight knows.
Checked(q) ==
    /\ q.op \in CreateOp => q.user \in Users
    /\ q.op \in UserOp => q.user \in Users
    /\ q.op \in UserOp \cup AdminOp =>
         /\ q.task \in Tasks
         /\ q.row.publisher \in Users
         /\ Allowed(q.op, q.user, q.row)
    /\ q.op \notin UserOp \cup AdminOp => q.task = NoTask

RowOK(row) ==
    /\ row \in Row
    /\ row.status # "ABSENT" => row.publisher \in Users
    /\ row.status = "ABSENT" => row = Absent
    /\ Coherent(row)

TasksOK == task \in [Tasks -> Row] /\ \A t \in Tasks : RowOK(task[t])

RequestsOK == req \in [Requests -> Request] /\ \A r \in Requests : Checked(req[r])

AssetsOK == asset \in [Urls -> AssetState]

NotesOK == notes \subseteq [to: Users, task: Tasks, type: NoteType, version: Nat]

IInv == TasksOK /\ RequestsOK /\ VersionIdentifiesRow /\ AssetsOK /\ NotesOK

----------------------------------------------------------------------------
(* The media table keeps its type. *)

\* attachUrls (media-asset.service.ts:161-179) leaves every row in a known state.
LEMMA AttachType ==
    ASSUME NEW rows \in [Urls -> AssetState], NEW urls
    PROVE  Attach(rows, urls) \in [Urls -> AssetState]
BY DEF Attach, AssetState

\* So does requestDeleteUrls (media-asset.service.ts:181-188).
LEMMA RequestDeleteType ==
    ASSUME NEW rows \in [Urls -> AssetState], NEW urls
    PROVE  RequestDelete(rows, urls) \in [Urls -> AssetState]
BY DEF RequestDelete, AssetState

----------------------------------------------------------------------------
(* Requests. *)

\* A request that has read nothing has passed every check.
LEMMA IdleOK == Idle \in Request /\ Checked(Idle)
BY ConstantsAssumption
   DEF Idle, Request, Checked, CreateOp, UserOp, AdminOp, Row, Absent, Status, AssetState

\* A row that is read by a request which passes its handler's checks.
LEMMA StartOK ==
    ASSUME IInv, NEW r \in Requests, NEW q \in Request, Checked(q), Start(r, q),
           q.task \in Tasks => q.row = task[q.task]
    PROVE  IInv'
<1>1. req' \in [Requests -> Request] /\ \A s \in Requests : req'[s] = IF s = r THEN q ELSE req[s]
  BY DEF Start, IInv, RequestsOK
<1>2. UNCHANGED <<task, asset, notes>>
  BY DEF Start
<1>3. RequestsOK'
  BY <1>1 DEF RequestsOK, IInv
<1>4. VersionIdentifiesRow'
  <2> SUFFICES ASSUME NEW s \in Requests, req'[s].task \in Tasks
               PROVE  /\ req'[s].row.version <= task[req'[s].task].version
                      /\ req'[s].row.version = task[req'[s].task].version
                           => Versioned(task[req'[s].task]) = Versioned(req'[s].row)
    BY <1>2 DEF VersionIdentifiesRow
  <2>1. CASE s = r
    BY <1>1, <2>1 DEF IInv, TasksOK, Row
  <2>2. CASE s # r
    BY <1>1, <2>2 DEF IInv, VersionIdentifiesRow
  <2> QED BY <2>1, <2>2
<1> QED BY <1>2, <1>3, <1>4 DEF IInv, TasksOK, AssetsOK, NotesOK

\* A request ends and one row is written: the version is bumped, or the columns
\* the version guards are left alone, or the row is new.
LEMMA WriteOK ==
    ASSUME IInv, NEW r \in Requests, Finish(r),
           NEW t \in Tasks, NEW row, RowOK(row), row.status # "ABSENT",
           task' = [task EXCEPT ![t] = row],
           \/ row.version = task[t].version + 1
           \/ row.version = task[t].version /\ Versioned(row) = Versioned(task[t])
           \/ task[t] = Absent
    PROVE  TasksOK' /\ RequestsOK' /\ VersionIdentifiesRow'
<1>1. TasksOK'
  BY DEF IInv, TasksOK, RowOK
<1>2. /\ req' \in [Requests -> Request]
      /\ \A s \in Requests : req'[s] = IF s = r THEN Idle ELSE req[s]
  BY IdleOK DEF Finish, IInv, RequestsOK
<1>3. RequestsOK'
  BY <1>2, IdleOK DEF RequestsOK, IInv
<1>4. VersionIdentifiesRow'
  <2> SUFFICES ASSUME NEW s \in Requests, req'[s].task \in Tasks
               PROVE  /\ req'[s].row.version <= task'[req'[s].task].version
                      /\ req'[s].row.version = task'[req'[s].task].version
                           => Versioned(task'[req'[s].task]) = Versioned(req'[s].row)
    BY DEF VersionIdentifiesRow
  <2>1. s # r /\ req'[s] = req[s]
    BY <1>2, ConstantsAssumption DEF Idle
  <2>2. CASE req[s].task # t
    BY <2>1, <2>2 DEF IInv, VersionIdentifiesRow, TasksOK
  <2>3. CASE req[s].task = t
    <3>1. task'[t] = row /\ task[t] \in Row /\ row \in Row /\ req[s].row \in Row
      BY DEF IInv, TasksOK, RowOK, RequestsOK, Request
    <3>2. /\ req[s].row.version <= task[t].version
          /\ req[s].row.version = task[t].version => Versioned(task[t]) = Versioned(req[s].row)
      BY <2>3 DEF IInv, VersionIdentifiesRow
    <3>3. task[t] # Absent
      <4> SUFFICES ASSUME task[t] = Absent PROVE FALSE
        OBVIOUS
      <4>1. req[s].row.version = 0
        BY <3>1, <3>2 DEF Absent, Row
      <4>2. Versioned(Absent) = Versioned(req[s].row)
        BY <3>2, <4>1 DEF Absent
      <4>3. req[s].row.status = "ABSENT"
        BY <3>1, <4>2 DEF Versioned, Absent, Row
      <4>4. Live(req[s].row)
        BY <2>3, ConstantsAssumption DEF IInv, RequestsOK, Checked, Allowed
      <4> QED BY <4>3, <4>4 DEF Live
    <3> QED BY <2>1, <2>3, <3>1, <3>2, <3>3 DEF Row
  <2> QED BY <2>2, <2>3
<1> QED BY <1>1, <1>3, <1>4

\* What a handler's conditional update knows of the row it matches: the row is
\* the one the handler checked, apart from its visibility.
LEMMA CasFacts ==
    ASSUME IInv, NEW r \in Requests, NEW op \in UserOp \cup {"adminEdit"}, NEW after,
           Cas(r, op, after)
    PROVE  LET q == req[r]
               now == task[q.task]
           IN  /\ q \in Request
               /\ q.op = op
               /\ q.task \in Tasks
               /\ RowOK(now)
               /\ now.publisher = q.row.publisher
               /\ now.taker = q.row.taker
               /\ now.ready = q.row.ready
               /\ now.version = q.row.version
               /\ now.publisher \in Users
               /\ ~now.deleted
               /\ now.status # "ABSENT"
               /\ Allowed(op, q.user, q.row)
               /\ op \in UserOp => q.user \in Users
               /\ now.status = q.row.status
<1> DEFINE q == req[r]
           now == task[q.task]
<1>1. q \in Request /\ q.op = op /\ Checked(q) /\ Matches(q, now)
  BY DEF IInv, RequestsOK, Cas
<1>2. q.task \in Tasks /\ q.row.publisher \in Users /\ Allowed(op, q.user, q.row)
  BY <1>1 DEF Checked, AdminOp
<1>3. RowOK(now) /\ now \in Row /\ q.row \in Row
  BY <1>1, <1>2 DEF IInv, TasksOK, RowOK, Request
<1>4. now.version = q.row.version /\ now.status = q.row.status /\ ~now.deleted
  BY <1>1 DEF Matches
<1>5. Versioned(now) = Versioned(q.row)
  BY <1>2, <1>4 DEF IInv, VersionIdentifiesRow
<1>6. now.publisher = q.row.publisher /\ now.taker = q.row.taker /\ now.ready = q.row.ready
  BY <1>3, <1>5 DEF Versioned, Row
<1>7. Live(q.row)
  BY <1>2 DEF Allowed
<1>8. op \in UserOp => q.user \in Users
  BY <1>1 DEF Checked
<1> QED BY <1>1, <1>2, <1>3, <1>4, <1>6, <1>7, <1>8 DEF Live

\* A conditional update that writes a coherent row keeps what WriteOK asks for.
LEMMA CasOK ==
    ASSUME IInv, NEW r \in Requests, NEW op \in UserOp \cup {"adminEdit"}, NEW after,
           Cas(r, op, after), Finish(r), after.version = task[req[r].task].version,
           RowOK(after), after.status # "ABSENT"
    PROVE  TasksOK' /\ RequestsOK' /\ VersionIdentifiesRow'
<1> DEFINE t == req[r].task
           row == [after EXCEPT !.version = after.version + 1]
<1>1. t \in Tasks
  BY CasFacts
<1>2. task' = [task EXCEPT ![t] = row]
  BY DEF Cas
<1>3. RowOK(row) /\ row.status # "ABSENT" /\ row.version = task[t].version + 1
  BY DEF RowOK, Row, Coherent
<1> QED BY <1>1, <1>2, <1>3, WriteOK

\* notify (notification-notify.ts:77-93) adds to the notifications kept.
LEMMA NotifyOK ==
    ASSUME IInv, NEW r \in Requests, req[r].task \in Tasks, req[r].row.version \in Nat,
           NEW to \in Users, NEW type \in NoteType, Notify(r, type, to)
    PROVE  NotesOK'
BY DEF IInv, NotesOK, Notify

----------------------------------------------------------------------------
(* Every step preserves the invariant: first the requests that start. *)

\* Reading a row, under the checks of each handler, keeps the invariant: what the
\* request holds is a row that passed them.
LEMMA BeginPreserves ==
    ASSUME IInv, NEW r \in Requests, Begin(r)
    PROVE  IInv'
<1>0. Idle \in Request /\ asset \in [Urls -> AssetState] /\ \A t \in Tasks : task[t] \in Row
  BY IdleOK DEF IInv, AssetsOK, TasksOK
<1>1. CASE \E op \in CreateOp, u \in Users : BeginCreate(r, op, u)
  <2> PICK op \in CreateOp, u \in Users : BeginCreate(r, op, u)
    BY <1>1
  <2> DEFINE q == [Idle EXCEPT !.op = op, !.user = u, !.seen = asset]
  <2>1. q \in Request
    BY <1>0 DEF Request, Operator
  <2>2. Checked(q) /\ q.task \notin Tasks
    BY <1>0, ConstantsAssumption DEF Checked, Idle, CreateOp, UserOp, AdminOp
  <2> HIDE DEF q
  <2> QED BY <2>1, <2>2, StartOK DEF BeginCreate, q
<1>2. CASE \E op \in UserOp, u \in Users, t \in Tasks : BeginUser(r, op, u, t)
  <2> PICK op \in UserOp, u \in Users, t \in Tasks : BeginUser(r, op, u, t)
    BY <1>2
  <2> DEFINE q == [Idle EXCEPT !.op = op, !.user = u, !.task = t, !.row = task[t], !.seen = asset]
  <2>1. q \in Request
    BY <1>0 DEF Request, Operator
  <2>2. Allowed(op, u, task[t]) /\ task[t].publisher \in Users
    BY DEF BeginUser, Allowed, Live, IInv, TasksOK, RowOK
  <2>3. /\ q.op = op /\ q.user = u /\ q.task = t /\ q.row = task[t]
        /\ op \notin CreateOp
    BY <1>0 DEF Idle, CreateOp, UserOp
  <2> HIDE DEF q
  <2>4. Checked(q)
    BY <2>2, <2>3 DEF Checked
  <2> QED BY <2>1, <2>3, <2>4, StartOK DEF BeginUser, q
<1>3. CASE \E op \in AdminOp, u \in Operator, actor \in Users \cup {NoUser}, t \in Tasks :
             BeginAdmin(r, op, u, actor, t)
  <2> PICK op \in AdminOp, u \in Operator, actor \in Users \cup {NoUser}, t \in Tasks :
             BeginAdmin(r, op, u, actor, t)
    BY <1>3
  <2> DEFINE q == [Idle EXCEPT !.op = op, !.user = u, !.actor = actor, !.task = t,
                               !.row = task[t], !.seen = asset]
  <2>1. q \in Request
    BY <1>0 DEF Request
  <2>2. Allowed(op, u, task[t]) /\ task[t].publisher \in Users
    BY DEF BeginAdmin, Allowed, Live, IInv, TasksOK, RowOK
  <2>3. /\ q.op = op /\ q.user = u /\ q.task = t /\ q.row = task[t]
        /\ op \notin CreateOp /\ op \notin UserOp
    BY <1>0 DEF Idle, CreateOp, UserOp, AdminOp
  <2> HIDE DEF q
  <2>4. Checked(q)
    BY <2>2, <2>3 DEF Checked
  <2> QED BY <2>1, <2>3, <2>4, StartOK DEF BeginAdmin, q
<1> QED BY <1>1, <1>2, <1>3 DEF Begin

\* The three operations that create a row.
LEMMA CreatePreserves ==
    ASSUME IInv, NEW r \in Requests, req[r].user \in Users,
           NEW status \in {"DRAFT", "PENDING_TAKE"}, NEW ready \in BOOLEAN,
           NEW online \in BOOLEAN, NEW images \in SUBSET Urls,
           CreateRow(r, status, ready, online, images)
    PROVE  IInv'
<1> DEFINE row == NewRow(req[r].user, status, ready, online, images)
<1>1. PICK t \in Tasks : task[t] = Absent /\ task' = [task EXCEPT ![t] = row]
  BY DEF CreateRow
<1>2. RowOK(row) /\ row.status # "ABSENT"
  BY ConstantsAssumption DEF RowOK, NewRow, Row, Absent, Status, Coherent
<1>3. TasksOK' /\ RequestsOK' /\ VersionIdentifiesRow'
  <2> HIDE DEF row
  <2> QED BY <1>1, <1>2, WriteOK DEF CreateRow
<1>4. AssetsOK' /\ NotesOK'
  BY AttachType DEF CreateRow, IInv, AssetsOK, NotesOK
<1> QED BY <1>3, <1>4 DEF IInv

\* Replacing the media of a row keeps the table's type.
LEMMA ReplaceMediaType ==
    ASSUME IInv, NEW r \in Requests, NEW images, ReplaceMedia(r, images)
    PROVE  AssetsOK'
BY AttachType, RequestDeleteType DEF ReplaceMedia, IInv, AssetsOK

\* The row of a task somebody has read never goes away.
LEMMA VersionedStatus ==
    ASSUME IInv, NEW r \in Requests, req[r].task \in Tasks, Live(req[r].row)
    PROVE  task[req[r].task].status # "ABSENT"
<1> DEFINE now == task[req[r].task]
           read == req[r].row
<1> SUFFICES ASSUME now.status = "ABSENT" PROVE FALSE
  OBVIOUS
<1>1. now = Absent /\ now \in Row /\ read \in Row
  BY DEF IInv, TasksOK, RowOK, RequestsOK, Request
<1>2. read.version <= now.version /\ (read.version = now.version => Versioned(now) = Versioned(read))
  BY DEF IInv, VersionIdentifiesRow
<1>3. read.version = now.version
  BY <1>1, <1>2 DEF Absent, Row
<1>4. read.status = "ABSENT"
  BY <1>1, <1>2, <1>3 DEF Versioned, Row
<1> QED BY <1>4 DEF Live

\* The write of each of the sixteen operations keeps it, whatever happened to the
\* row since the request read it: one step per operation.
LEMMA CommitPreserves ==
    ASSUME IInv, NEW r \in Requests, Commit(r)
    PROVE  IInv'
<1> DEFINE q == req[r]
<1>0. /\ \A t \in Tasks : RowOK(task[t]) /\ task[t] \in Row
      /\ Checked(q) /\ q \in Request /\ q.row \in Row
      /\ AssetsOK /\ NotesOK
  BY DEF IInv, TasksOK, RequestsOK, Request
<1>1. CASE CreateTask(r)
  <2> PICK images \in SUBSET Urls : CreateRow(r, "PENDING_TAKE", TRUE, TRUE, images)
    BY <1>1 DEF CreateTask
  <2>1. q.user \in Users
    BY <1>0, <1>1 DEF CreateTask, Checked, CreateOp
  <2> QED BY <2>1, CreatePreserves
<1>2. CASE CreateDraft(r)
  <2> PICK ready \in BOOLEAN, images \in SUBSET Urls :
             CreateRow(r, "DRAFT", ready, TRUE, images)
    BY <1>2 DEF CreateDraft
  <2>1. q.user \in Users
    BY <1>0, <1>2 DEF CreateDraft, Checked, CreateOp
  <2> QED BY <2>1, CreatePreserves
<1>3. CASE AdminCreate(r)
  <2> PICK online \in BOOLEAN, images \in SUBSET Urls :
             CreateRow(r, "PENDING_TAKE", TRUE, online, images)
    BY <1>3 DEF AdminCreate
  <2>1. q.user \in Users
    BY <1>0, <1>3 DEF AdminCreate, Checked, CreateOp
  <2> QED BY <2>1, CreatePreserves
<1>4. CASE SaveDraft(r)
  <2> PICK ready \in BOOLEAN, images \in SUBSET Urls :
        /\ Cas(r, "saveDraft", [Current(r) EXCEPT !.ready = ready, !.images = images])
        /\ ReplaceMedia(r, images)
        /\ UNCHANGED notes
        /\ Finish(r)
    BY <1>4 DEF SaveDraft
  <2> DEFINE after == [Current(r) EXCEPT !.ready = ready, !.images = images]
  <2>0. Cas(r, "saveDraft", after)
    OBVIOUS
  <2>1. q.task \in Tasks /\ RowOK(Current(r)) /\ Current(r).status # "ABSENT"
    <3> HIDE DEF after
    <3> QED BY <2>0, CasFacts DEF UserOp, Current
  <2>2. RowOK(after) /\ after.status # "ABSENT" /\ after.version = task[q.task].version
    BY <2>1 DEF RowOK, Row, Coherent, Current
  <2> HIDE DEF after
  <2>3. TasksOK' /\ RequestsOK' /\ VersionIdentifiesRow'
    BY <2>0, <2>2, CasOK DEF UserOp
  <2> QED BY <1>0, <2>3, ReplaceMediaType DEF IInv, NotesOK
<1>5. CASE PublishDraft(r)
  <2> DEFINE after == [Current(r) EXCEPT !.status = "PENDING_TAKE"]
  <2>0. Cas(r, "publishDraft", after) /\ Finish(r)
    BY <1>5 DEF PublishDraft
  <2>1. /\ q.task \in Tasks /\ RowOK(Current(r)) /\ Current(r).status # "ABSENT"
        /\ Current(r).status = q.row.status /\ Current(r).taker = q.row.taker
        /\ Current(r).publisher \in Users /\ q.row.publisher \in Users
        /\ q.user \in Users /\ Allowed("publishDraft", q.user, q.row)
    <3> HIDE DEF after
    <3> QED BY <2>0, CasFacts DEF UserOp, Current
  <2>2. RowOK(after) /\ after.status # "ABSENT" /\ after.version = task[q.task].version
    BY <2>1 DEF RowOK, Row, Status, Coherent, Current, Allowed, UserOp
  <2>3. TasksOK' /\ RequestsOK' /\ VersionIdentifiesRow'
    <3> HIDE DEF after
    <3> QED BY <2>0, <2>2, CasOK DEF UserOp
  <2>4. NotesOK'
    BY <1>0, <1>5 DEF PublishDraft, NotesOK
  <2>5. AssetsOK'
    BY <1>0, <1>5 DEF PublishDraft, AssetsOK
  <2> QED BY <2>3, <2>4, <2>5 DEF IInv
<1>6. CASE ClaimTask(r)
  <2> DEFINE after == [Current(r) EXCEPT !.status = "IN_PROGRESS", !.taker = req[r].user,
                                         !.claimed = TRUE]
  <2>0. Cas(r, "claim", after) /\ Finish(r)
    BY <1>6 DEF ClaimTask
  <2>1. /\ q.task \in Tasks /\ RowOK(Current(r)) /\ Current(r).status # "ABSENT"
        /\ Current(r).status = q.row.status /\ Current(r).taker = q.row.taker
        /\ Current(r).publisher \in Users /\ q.row.publisher \in Users
        /\ q.user \in Users /\ Allowed("claim", q.user, q.row)
    <3> HIDE DEF after
    <3> QED BY <2>0, CasFacts DEF UserOp, Current
  <2>2. RowOK(after) /\ after.status # "ABSENT" /\ after.version = task[q.task].version
    BY <2>1, ConstantsAssumption DEF RowOK, Row, Status, Coherent, Current, Allowed, UserOp
  <2>3. TasksOK' /\ RequestsOK' /\ VersionIdentifiesRow'
    <3> HIDE DEF after
    <3> QED BY <2>0, <2>2, CasOK DEF UserOp
  <2>4. NotesOK'
    <3>1. q.row.publisher \in Users /\ q.row.version \in Nat /\ "CLAIMED" \in NoteType
      BY <1>0, <2>1 DEF Row, NoteType
    <3> QED BY <1>6, <2>1, <3>1, NotifyOK DEF ClaimTask
  <2>5. AssetsOK'
    BY <1>0, <1>6 DEF ClaimTask, AssetsOK
  <2> QED BY <2>3, <2>4, <2>5 DEF IInv
<1>7. CASE SubmitComplete(r)
  <2> PICK images \in SUBSET Urls :
        /\ Cas(r, "submit", [Current(r) EXCEPT !.status = "PENDING_CONFIRM", !.proven = TRUE,
                                               !.proofImages = images, !.completed = TRUE])
        /\ MayAttach(req[r].seen, req[r].user, images)
        /\ asset' = Attach(asset, images)
        /\ Notify(r, "SUBMITTED", req[r].row.publisher)
        /\ Finish(r)
    BY <1>7 DEF SubmitComplete
  <2> DEFINE after == [Current(r) EXCEPT !.status = "PENDING_CONFIRM", !.proven = TRUE,
                                         !.proofImages = images, !.completed = TRUE]
  <2>0. Cas(r, "submit", after) /\ Finish(r)
    OBVIOUS
  <2>1. /\ q.task \in Tasks /\ RowOK(Current(r)) /\ Current(r).status # "ABSENT"
        /\ Current(r).status = q.row.status /\ Current(r).taker = q.row.taker
        /\ Current(r).publisher \in Users /\ q.row.publisher \in Users
        /\ q.user \in Users /\ Allowed("submit", q.user, q.row)
    <3> HIDE DEF after
    <3> QED BY <2>0, CasFacts DEF UserOp, Current
  <2>2. RowOK(after) /\ after.status # "ABSENT" /\ after.version = task[q.task].version
    BY <2>1 DEF RowOK, Row, Status, Coherent, Current, Allowed, UserOp
  <2>3. TasksOK' /\ RequestsOK' /\ VersionIdentifiesRow'
    <3> HIDE DEF after
    <3> QED BY <2>0, <2>2, CasOK DEF UserOp
  <2>4. NotesOK'
    <3>1. q.row.publisher \in Users /\ q.row.version \in Nat /\ "SUBMITTED" \in NoteType
      BY <1>0, <2>1 DEF Row, NoteType
    <3> QED BY <2>1, <3>1, NotifyOK
  <2>5. AssetsOK'
    BY <1>0, AttachType DEF AssetsOK
  <2> QED BY <2>3, <2>4, <2>5 DEF IInv
<1>8. CASE ConfirmComplete(r)
  <2> DEFINE after == [Current(r) EXCEPT !.status = "COMPLETED", !.confirmed = TRUE]
  <2>0. Cas(r, "confirm", after) /\ Finish(r)
    BY <1>8 DEF ConfirmComplete
  <2>1. /\ q.task \in Tasks /\ RowOK(Current(r)) /\ Current(r).status # "ABSENT"
        /\ Current(r).status = q.row.status /\ Current(r).taker = q.row.taker
        /\ Current(r).publisher \in Users /\ q.row.publisher \in Users
        /\ q.user \in Users /\ Allowed("confirm", q.user, q.row)
    <3> HIDE DEF after
    <3> QED BY <2>0, CasFacts DEF UserOp, Current
  <2>2. RowOK(after) /\ after.status # "ABSENT" /\ after.version = task[q.task].version
    BY <2>1 DEF RowOK, Row, Status, Coherent, Current, Allowed, UserOp
  <2>3. TasksOK' /\ RequestsOK' /\ VersionIdentifiesRow'
    <3> HIDE DEF after
    <3> QED BY <2>0, <2>2, CasOK DEF UserOp
  <2>4. NotesOK'
    <3>1. q.row.taker \in Users /\ q.row.version \in Nat /\ "CONFIRMED" \in NoteType
      BY <1>0, <2>1 DEF Row, NoteType, Allowed
    <3> QED BY <1>8, <2>1, <3>1, NotifyOK DEF ConfirmComplete
  <2>5. AssetsOK'
    BY <1>0, <1>8 DEF ConfirmComplete, AssetsOK
  <2> QED BY <2>3, <2>4, <2>5 DEF IInv
<1>9. CASE RejectComplete(r)
  <2> DEFINE after == [Current(r) EXCEPT !.status = "IN_PROGRESS", !.confirmed = FALSE]
  <2>0. Cas(r, "reject", after) /\ Finish(r)
    BY <1>9 DEF RejectComplete
  <2>1. /\ q.task \in Tasks /\ RowOK(Current(r)) /\ Current(r).status # "ABSENT"
        /\ Current(r).status = q.row.status /\ Current(r).taker = q.row.taker
        /\ Current(r).publisher \in Users /\ q.row.publisher \in Users
        /\ q.user \in Users /\ Allowed("reject", q.user, q.row)
    <3> HIDE DEF after
    <3> QED BY <2>0, CasFacts DEF UserOp, Current
  <2>2. RowOK(after) /\ after.status # "ABSENT" /\ after.version = task[q.task].version
    BY <2>1 DEF RowOK, Row, Status, Coherent, Current, Allowed, UserOp
  <2>3. TasksOK' /\ RequestsOK' /\ VersionIdentifiesRow'
    <3> HIDE DEF after
    <3> QED BY <2>0, <2>2, CasOK DEF UserOp
  <2>4. NotesOK'
    <3>1. q.row.taker \in Users /\ q.row.version \in Nat /\ "REJECTED" \in NoteType
      BY <1>0, <2>1 DEF Row, NoteType, Allowed
    <3> QED BY <1>9, <2>1, <3>1, NotifyOK DEF RejectComplete
  <2>5. AssetsOK'
    BY <1>0, <1>9 DEF RejectComplete, AssetsOK
  <2> QED BY <2>3, <2>4, <2>5 DEF IInv
<1>10. CASE RevokePublish(r)
  <2> DEFINE after == [Current(r) EXCEPT !.status = "CANCELLED"]
  <2>0. Cas(r, "revoke", after) /\ Finish(r)
    BY <1>10 DEF RevokePublish
  <2>1. /\ q.task \in Tasks /\ RowOK(Current(r)) /\ Current(r).status # "ABSENT"
        /\ Current(r).status = q.row.status /\ Current(r).taker = q.row.taker
        /\ Current(r).publisher \in Users /\ q.row.publisher \in Users
        /\ q.user \in Users /\ Allowed("revoke", q.user, q.row)
    <3> HIDE DEF after
    <3> QED BY <2>0, CasFacts DEF UserOp, Current
  <2>2. RowOK(after) /\ after.status # "ABSENT" /\ after.version = task[q.task].version
    BY <2>1 DEF RowOK, Row, Status, Coherent, Current, Allowed, UserOp
  <2>3. TasksOK' /\ RequestsOK' /\ VersionIdentifiesRow'
    <3> HIDE DEF after
    <3> QED BY <2>0, <2>2, CasOK DEF UserOp
  <2>4. NotesOK'
    <3>1. CASE q.row.taker = NoUser
      BY <1>0, <1>10, <3>1 DEF RevokePublish, NotesOK
    <3>2. CASE q.row.taker # NoUser
      <4>1. q.row.taker \in Users /\ q.row.version \in Nat /\ "CANCELLED" \in NoteType
        BY <1>0, <3>2 DEF Row, NoteType
      <4> QED BY <1>10, <2>1, <3>2, <4>1, NotifyOK DEF RevokePublish
    <3> QED BY <3>1, <3>2
  <2>5. AssetsOK'
    BY <1>0, <1>10 DEF RevokePublish, AssetsOK
  <2> QED BY <2>3, <2>4, <2>5 DEF IInv
<1>11. CASE Republish(r)
  <2> DEFINE after == [Current(r) EXCEPT !.status = "PENDING_TAKE"]
  <2>0. Cas(r, "republish", after) /\ Finish(r)
    BY <1>11 DEF Republish
  <2>1. /\ q.task \in Tasks /\ RowOK(Current(r)) /\ Current(r).status # "ABSENT"
        /\ Current(r).status = q.row.status /\ Current(r).taker = q.row.taker
        /\ Current(r).publisher \in Users /\ q.row.publisher \in Users
        /\ q.user \in Users /\ Allowed("republish", q.user, q.row)
    <3> HIDE DEF after
    <3> QED BY <2>0, CasFacts DEF UserOp, Current
  <2>2. RowOK(after) /\ after.status # "ABSENT" /\ after.version = task[q.task].version
    BY <2>1 DEF RowOK, Row, Status, Coherent, Current, Allowed, UserOp
  <2>3. TasksOK' /\ RequestsOK' /\ VersionIdentifiesRow'
    <3> HIDE DEF after
    <3> QED BY <2>0, <2>2, CasOK DEF UserOp
  <2>4. NotesOK'
    BY <1>0, <1>11 DEF Republish, NotesOK
  <2>5. AssetsOK'
    BY <1>0, <1>11 DEF Republish, AssetsOK
  <2> QED BY <2>3, <2>4, <2>5 DEF IInv
<1>12. CASE DeleteUnpublished(r)
  <2> DEFINE after == [Current(r) EXCEPT !.deleted = TRUE]
  <2>0. Cas(r, "delete", after) /\ Finish(r)
    BY <1>12 DEF DeleteUnpublished
  <2>1. /\ q.task \in Tasks /\ RowOK(Current(r)) /\ Current(r).status # "ABSENT"
        /\ Current(r).status = q.row.status /\ Current(r).taker = q.row.taker
        /\ Current(r).publisher \in Users /\ q.row.publisher \in Users
        /\ q.user \in Users /\ Allowed("delete", q.user, q.row)
    <3> HIDE DEF after
    <3> QED BY <2>0, CasFacts DEF UserOp, Current
  <2>2. RowOK(after) /\ after.status # "ABSENT" /\ after.version = task[q.task].version
    BY <2>1 DEF RowOK, Row, Status, Coherent, Current, Allowed, UserOp
  <2>3. TasksOK' /\ RequestsOK' /\ VersionIdentifiesRow'
    <3> HIDE DEF after
    <3> QED BY <2>0, <2>2, CasOK DEF UserOp
  <2>4. NotesOK'
    BY <1>0, <1>12 DEF DeleteUnpublished, NotesOK
  <2>5. AssetsOK'
    BY <1>0, <1>12, RequestDeleteType DEF DeleteUnpublished, CondemnMedia, AssetsOK
  <2> QED BY <2>3, <2>4, <2>5 DEF IInv
<1>13. CASE AbandonTask(r)
  <2> DEFINE after == [Current(r) EXCEPT !.status = "PENDING_TAKE", !.taker = NoUser,
                 !.claimed = FALSE, !.proven = FALSE, !.proofImages = {},
                 !.completed = FALSE, !.confirmed = FALSE]
  <2>0. Cas(r, "abandon", after) /\ Finish(r)
    BY <1>13 DEF AbandonTask
  <2>1. /\ q.task \in Tasks /\ RowOK(Current(r)) /\ Current(r).status # "ABSENT"
        /\ Current(r).status = q.row.status /\ Current(r).taker = q.row.taker
        /\ Current(r).publisher \in Users /\ q.row.publisher \in Users
        /\ q.user \in Users /\ Allowed("abandon", q.user, q.row)
    <3> HIDE DEF after
    <3> QED BY <2>0, CasFacts DEF UserOp, Current
  <2>2. RowOK(after) /\ after.status # "ABSENT" /\ after.version = task[q.task].version
    BY <2>1 DEF RowOK, Row, Status, Coherent, Current, Allowed, UserOp
  <2>3. TasksOK' /\ RequestsOK' /\ VersionIdentifiesRow'
    <3> HIDE DEF after
    <3> QED BY <2>0, <2>2, CasOK DEF UserOp
  <2>4. NotesOK'
    <3>1. q.row.publisher \in Users /\ q.row.version \in Nat /\ "ABANDONED" \in NoteType
      BY <1>0, <2>1 DEF Row, NoteType
    <3> QED BY <1>13, <2>1, <3>1, NotifyOK DEF AbandonTask
  <2>5. AssetsOK'
    BY <1>0, <1>13 DEF AbandonTask, AssetsOK
  <2> QED BY <2>3, <2>4, <2>5 DEF IInv
<1>14. CASE AdminEdit(r)
  <2> PICK ready \in BOOLEAN, online \in BOOLEAN, images \in SUBSET Urls :
        /\ Cas(r, "adminEdit", [Current(r) EXCEPT !.ready = ready, !.online = online,
                 !.images = images,
                 !.publisher = IF req[r].actor = NoUser THEN @ ELSE req[r].actor])
        /\ ReplaceMedia(r, images)
        /\ UNCHANGED notes
        /\ Finish(r)
    BY <1>14 DEF AdminEdit
  <2> DEFINE after == [Current(r) EXCEPT !.ready = ready, !.online = online,
                 !.images = images,
                 !.publisher = IF req[r].actor = NoUser THEN @ ELSE req[r].actor]
  <2>0. Cas(r, "adminEdit", after)
    OBVIOUS
  <2>1. /\ q.task \in Tasks /\ RowOK(Current(r)) /\ Current(r).status # "ABSENT"
        /\ Current(r).publisher \in Users
    <3> HIDE DEF after
    <3> QED BY <2>0, CasFacts DEF Current
  <2>2. q.actor \in Users \cup {NoUser}
    BY <1>0 DEF Request
  <2>3. RowOK(after) /\ after.status # "ABSENT" /\ after.version = task[q.task].version
    BY <2>1, <2>2, ZenonT(40) DEF RowOK, Row, Coherent, Current
  <2> HIDE DEF after
  <2>4. TasksOK' /\ RequestsOK' /\ VersionIdentifiesRow'
    BY <2>0, <2>3, CasOK
  <2> QED BY <1>0, <2>4, ReplaceMediaType DEF IInv, NotesOK
<1>15. CASE AdminState(r)
  <2> PICK online \in BOOLEAN : task' = [task EXCEPT ![q.task].online = online]
    BY <1>15 DEF AdminState
  <2> DEFINE row == [task[q.task] EXCEPT !.online = online]
  <2>1. q.task \in Tasks /\ Allowed(q.op, q.user, q.row)
    BY <1>0, <1>15 DEF AdminState, Checked, AdminOp
  <2>2. task[q.task].status # "ABSENT"
    BY <1>0, <2>1, VersionedStatus DEF Allowed, Live
  <2>3. RowOK(row) /\ row.status # "ABSENT"
    BY <1>0, <2>1, <2>2, ZenonT(40) DEF RowOK, Row, Coherent
  <2>4. row.version = task[q.task].version /\ Versioned(row) = Versioned(task[q.task])
    BY <1>0, <2>1 DEF Versioned, Row
  <2>5. task' = [task EXCEPT ![q.task] = row]
    OBVIOUS
  <2>6. TasksOK' /\ RequestsOK' /\ VersionIdentifiesRow'
    <3> HIDE DEF row
    <3> QED BY <1>15, <2>1, <2>3, <2>4, <2>5, WriteOK DEF AdminState
  <2> QED BY <1>0, <1>15, <2>6 DEF AdminState, IInv, AssetsOK, NotesOK
<1>16. CASE AdminDelete(r)
  <2> DEFINE row == [task[q.task] EXCEPT !.deleted = TRUE]
  <2>1. q.task \in Tasks /\ Allowed(q.op, q.user, q.row)
    BY <1>0, <1>16 DEF AdminDelete, Checked, AdminOp
  <2>2. task[q.task].status # "ABSENT"
    BY <1>0, <2>1, VersionedStatus DEF Allowed, Live
  <2>3. RowOK(row) /\ row.status # "ABSENT"
    BY <1>0, <2>1, <2>2 DEF RowOK, Row, Coherent
  <2>4. row.version = task[q.task].version /\ Versioned(row) = Versioned(task[q.task])
    BY <1>0, <2>1 DEF Versioned, Row
  <2>5. task' = [task EXCEPT ![q.task] = row]
    BY <1>16 DEF AdminDelete
  <2>6. TasksOK' /\ RequestsOK' /\ VersionIdentifiesRow'
    <3> HIDE DEF row
    <3> QED BY <1>16, <2>1, <2>3, <2>4, <2>5, WriteOK DEF AdminDelete
  <2> QED BY <1>0, <1>16, <2>6, RequestDeleteType
          DEF AdminDelete, CondemnMedia, IInv, AssetsOK, NotesOK
<1> QED BY <1>1, <1>2, <1>3, <1>4, <1>5, <1>6, <1>7, <1>8, <1>9, <1>10, <1>11, <1>12, <1>13,
           <1>14, <1>15, <1>16 DEF Commit

\* A request that throws after its read writes nothing.
LEMMA FailPreserves ==
    ASSUME IInv, NEW r \in Requests, Fail(r)
    PROVE  IInv'
<1>1. /\ req' \in [Requests -> Request]
      /\ \A s \in Requests : req'[s] = IF s = r THEN Idle ELSE req[s]
  BY IdleOK DEF Fail, Finish, IInv, RequestsOK
<1>2. RequestsOK'
  BY <1>1, IdleOK DEF RequestsOK, IInv
<1>3. VersionIdentifiesRow'
  BY <1>1, ConstantsAssumption DEF VersionIdentifiesRow, IInv, Idle, Fail
<1> QED BY <1>2, <1>3 DEF Fail, IInv, TasksOK, AssetsOK, NotesOK

\* The empty tables satisfy the invariant.
LEMMA InitOK == Init => IInv
<1> SUFFICES ASSUME Init PROVE IInv
  OBVIOUS
<1>1. RowOK(Absent)
  BY ConstantsAssumption DEF RowOK, Row, Absent, Status, Coherent
<1>2. TasksOK
  BY <1>1 DEF Init, TasksOK, RowOK
<1>3. RequestsOK
  BY IdleOK DEF Init, RequestsOK
<1>4. VersionIdentifiesRow
  BY ConstantsAssumption DEF Init, VersionIdentifiesRow, Idle
<1> QED BY <1>2, <1>3, <1>4 DEF Init, IInv, AssetsOK, AssetState, NotesOK

\* Every step preserves it.
LEMMA NextOK == IInv /\ [Next]_vars => IInv'
<1> SUFFICES ASSUME IInv, [Next]_vars PROVE IInv'
  OBVIOUS
<1>1. CASE Next
  BY <1>1, BeginPreserves, CommitPreserves, FailPreserves DEF Next
<1>2. CASE UNCHANGED vars
  BY <1>2 DEF vars, IInv, TasksOK, RequestsOK, VersionIdentifiesRow, AssetsOK, NotesOK
<1> QED BY <1>1, <1>2

\* The inductive invariant of the task service: the types, the coherence of each
\* row, what a pending request still knows of the row it read, and the version as
\* the identity of a row.
THEOREM Invariance == Spec => []IInv
BY InitOK, NextOK, PTL DEF Spec

\* Every table keeps its type.
THEOREM TypeCorrect == Spec => []TypeOK
<1>1. IInv => TypeOK
  BY DEF IInv, TasksOK, RequestsOK, AssetsOK, NotesOK, TypeOK
<1> QED BY <1>1, Invariance, PTL

\* A version number stands for one content of the row (task.service.ts, every
\* updateMany on `version: row.version`).
THEOREM VersionsIdentifyRows == Spec => []VersionIdentifiesRow
<1>1. IInv => VersionIdentifiesRow
  BY DEF IInv
<1> QED BY <1>1, Invariance, PTL

\* The taker's and the proof's columns agree with the status in every state.
THEOREM TakersMatchStatuses == Spec => []TakerMatchesStatus
<1>1. IInv => TakerMatchesStatus
  BY DEF IInv, TasksOK, RowOK, TakerMatchesStatus
<1> QED BY <1>1, Invariance, PTL

----------------------------------------------------------------------------
(* What a step may do. *)

\* A task nobody has taken comes into being.
Created(now, row) ==
    /\ now = Absent
    /\ row.status \in {"DRAFT", "PENDING_TAKE"}
    /\ row.publisher \in Users /\ row.taker = NoUser /\ ~row.deleted

\* The row keeps its status and taker; a row that is live may change hands.
Edited(now, row) ==
    /\ row.status = now.status /\ row.taker = now.taker /\ row.deleted = now.deleted
    /\ \/ row.publisher = now.publisher
       \/ now.status # "ABSENT" /\ ~now.deleted /\ row.publisher \in Users

Removed(now, row) ==
    /\ now.status # "ABSENT" /\ row.deleted
    /\ row.status = now.status /\ row.taker = now.taker /\ row.publisher = now.publisher

\* A live row goes from one status to another.
Moved(now, row, from, status, taker) ==
    /\ now.status \in from /\ ~now.deleted
    /\ row.status = status /\ row.taker = taker
    /\ row.publisher = now.publisher /\ ~row.deleted
    /\ row.version = now.version + 1

\* `by` tells `to` of it, under the version just written.
Noted(t, row, by, to) ==
    \E type \in NoteType :
        notes' = IF to = by THEN notes
                 ELSE notes \cup {[to |-> to, task |-> t, type |-> type, version |-> row.version]}

Effect(t, now, row) ==
    \/ /\ notes' = notes
       /\ \/ Created(now, row) \/ Edited(now, row) \/ Removed(now, row)
          \/ Moved(now, row, {"DRAFT"}, "PENDING_TAKE", now.taker) /\ now.ready
          \/ /\ now.taker = NoUser
             /\ \/ Moved(now, row, {"CANCELLED"}, "PENDING_TAKE", NoUser)
                \/ Moved(now, row, {"PENDING_TAKE"}, "CANCELLED", NoUser)
    \/ \E u \in Users \ {now.publisher} :
         Moved(now, row, {"PENDING_TAKE"}, "IN_PROGRESS", u) /\ Noted(t, row, u, now.publisher)
    \/ /\ now.taker # NoUser
       /\ \/ /\ Moved(now, row, {"IN_PROGRESS"}, "PENDING_CONFIRM", now.taker)
             /\ Noted(t, row, now.taker, now.publisher)
          \/ /\ Moved(now, row, {"IN_PROGRESS"}, "PENDING_TAKE", NoUser)
             /\ Noted(t, row, now.taker, now.publisher)
          \/ /\ \/ Moved(now, row, {"PENDING_CONFIRM"}, "COMPLETED", now.taker)
                \/ Moved(now, row, {"PENDING_CONFIRM"}, "IN_PROGRESS", now.taker)
                \/ Moved(now, row, {"IN_PROGRESS", "PENDING_CONFIRM"}, "CANCELLED", now.taker)
             /\ Noted(t, row, now.publisher, now.taker)

----------------------------------------------------------------------------
(* The effects of the operations. *)

\* What a user's conditional update finds and the row it writes.
Found(r, op, row) ==
    LET q   == req[r]
        now == task[q.task]
    IN  /\ q.task \in Tasks /\ now \in Row /\ row \in Row /\ q.row \in Row
        /\ task' = [task EXCEPT ![q.task] = row]
        /\ row.version = now.version + 1
        /\ q.row.version = now.version
        /\ now.status = q.row.status /\ now.publisher = q.row.publisher
        /\ now.taker = q.row.taker /\ now.ready = q.row.ready
        /\ now.status # "ABSENT" /\ ~now.deleted
        /\ now.publisher \in Users /\ q.user \in Users
        /\ Allowed(op, q.user, q.row)
        /\ now.taker = NoUser \/ now.taker \in Users
        /\ Coherent(now)

\* It finds the row the handler has checked, and writes the next version of it.
LEMMA UserCasEffect ==
    ASSUME IInv, NEW r \in Requests, NEW op \in UserOp, NEW after, Cas(r, op, after),
           after \in Row, after.version = task[req[r].task].version
    PROVE  Found(r, op, [after EXCEPT !.version = @ + 1])
<1> DEFINE q == req[r]
           now == task[q.task]
           row == [after EXCEPT !.version = @ + 1]
<1>1. /\ q \in Request /\ q.op = op /\ q.task \in Tasks /\ RowOK(now)
      /\ now.publisher = q.row.publisher /\ now.taker = q.row.taker
      /\ now.ready = q.row.ready /\ now.version = q.row.version
      /\ now.publisher \in Users /\ ~now.deleted /\ now.status # "ABSENT"
      /\ Allowed(op, q.user, q.row) /\ q.user \in Users /\ now.status = q.row.status
  BY CasFacts
<1>2. task' = [task EXCEPT ![q.task] = row]
  BY DEF Cas
<1>3. now \in Row /\ q.row \in Row /\ Coherent(now)
  BY <1>1 DEF RowOK, Request
<1>4. now.taker = NoUser \/ now.taker \in Users
  BY <1>3 DEF Row
<1>5. row \in Row /\ row.version = now.version + 1
  BY <1>3 DEF Row
<1> QED BY <1>1, <1>2, <1>3, <1>4, <1>5 DEF Found
\* Whatever commits writes one row, in one of the ways of Effect: one step per
\* operation of task.service.ts and admin.service.ts.
LEMMA CommitEffect ==
    ASSUME IInv, NEW r \in Requests, Commit(r)
    PROVE  \E t \in Tasks, row \in Row :
              /\ task' = [task EXCEPT ![t] = row]
              /\ row.version >= task[t].version
              /\ Effect(t, task[t], row)
<1> DEFINE q == req[r]
           now == task[q.task]
<1>0. /\ q \in Request /\ q.row \in Row /\ Checked(q)
      /\ \A t \in Tasks : task[t] \in Row /\ RowOK(task[t])
  BY DEF IInv, TasksOK, RequestsOK, Request
<1>a. ASSUME NEW status \in {"DRAFT", "PENDING_TAKE"}, NEW online \in BOOLEAN,
             NEW ready \in BOOLEAN, NEW images \in SUBSET Urls, q.user \in Users,
             CreateRow(r, status, ready, online, images)
      PROVE  \E t \in Tasks, row \in Row :
              /\ task' = [task EXCEPT ![t] = row]
              /\ row.version >= task[t].version
              /\ Effect(t, task[t], row)
  <2> DEFINE row == NewRow(q.user, status, ready, online, images)
  <2>1. PICK t \in Tasks : task[t] = Absent /\ task' = [task EXCEPT ![t] = row]
    BY <1>a DEF CreateRow
  <2>2. row \in Row /\ row.version = 0 /\ Created(Absent, row)
    BY <1>a DEF NewRow, Row, Absent, Status, Created
  <2>3. notes' = notes /\ Absent.version = 0
    BY <1>a DEF CreateRow, Absent
  <2>4. Effect(t, task[t], row) /\ row.version >= task[t].version
    BY <2>1, <2>2, <2>3 DEF Effect
  <2> HIDE DEF row
  <2> QED BY <2>1, <2>2, <2>3, <2>4
<1>1. CASE CreateTask(r)
  <2>1. q.user \in Users
    BY <1>0, <1>1 DEF CreateTask, Checked, CreateOp
  <2> QED BY <1>1, <1>a, <2>1 DEF CreateTask
<1>2. CASE CreateDraft(r)
  <2>1. q.user \in Users
    BY <1>0, <1>2 DEF CreateDraft, Checked, CreateOp
  <2> QED BY <1>2, <1>a, <2>1 DEF CreateDraft
<1>3. CASE AdminCreate(r)
  <2>1. q.user \in Users
    BY <1>0, <1>3 DEF AdminCreate, Checked, CreateOp
  <2> QED BY <1>3, <1>a, <2>1 DEF AdminCreate
<1>4. CASE SaveDraft(r)
  <2> PICK ready \in BOOLEAN, images \in SUBSET Urls :
        /\ Cas(r, "saveDraft", [Current(r) EXCEPT !.ready = ready, !.images = images])
        /\ ReplaceMedia(r, images)
        /\ UNCHANGED notes
        /\ Finish(r)
    BY <1>4 DEF SaveDraft
  <2> DEFINE after == [Current(r) EXCEPT !.ready = ready, !.images = images]
             row == [after EXCEPT !.version = @ + 1]
  <2>0. Cas(r, "saveDraft", after)
    OBVIOUS
  <2>1. q.task \in Tasks /\ now \in Row /\ q.user \in Users
    <3> HIDE DEF after
    <3> QED BY <1>0, <2>0, CasFacts DEF UserOp
  <2>2. after \in Row /\ after.version = now.version
    BY <1>0, <2>1, ZenonT(40) DEF Current, Row, Status
  <2>3. Found(r, "saveDraft", row)
    <3> HIDE DEF after
    <3> QED BY <2>0, <2>2, UserCasEffect DEF UserOp
  <2>4. notes' = notes
    OBVIOUS
  <2>5. Effect(q.task, now, row)
    <3>1. Edited(now, row)
      BY <2>1, <2>2, <2>3 DEF Found, Edited, Current, Row, Allowed, UserOp, Coherent
    <3> HIDE DEF row
    <3> QED BY <2>3, <2>4, <3>1 DEF Found, Effect, Noted
  <2>6. row.version >= now.version
    BY <2>1, <2>3 DEF Found, Row
  <2> HIDE DEF row
  <2> QED BY <2>1, <2>3, <2>5, <2>6 DEF Found
<1>5. CASE PublishDraft(r)
  <2> DEFINE after == [Current(r) EXCEPT !.status = "PENDING_TAKE"]
             row == [after EXCEPT !.version = @ + 1]
  <2>0. Cas(r, "publishDraft", after)
    BY <1>5 DEF PublishDraft
  <2>1. q.task \in Tasks /\ now \in Row /\ q.user \in Users
    <3> HIDE DEF after
    <3> QED BY <1>0, <2>0, CasFacts DEF UserOp
  <2>2. after \in Row /\ after.version = now.version
    BY <1>0, <2>1 DEF Current, Row, Status
  <2>3. Found(r, "publishDraft", row)
    <3> HIDE DEF after
    <3> QED BY <2>0, <2>2, UserCasEffect DEF UserOp
  <2>4. notes' = notes
    BY <1>5 DEF PublishDraft
  <2>5. Effect(q.task, now, row)
    <3>1. Moved(now, row, {"DRAFT"}, "PENDING_TAKE", now.taker) /\ now.ready
      BY <2>1, <2>2, <2>3 DEF Found, Moved, Current, Row, Allowed, UserOp, Coherent
    <3> HIDE DEF row
    <3> QED BY <2>3, <2>4, <3>1 DEF Found, Effect, Noted
  <2>6. row.version >= now.version
    BY <2>1, <2>3 DEF Found, Row
  <2> HIDE DEF row
  <2> QED BY <2>1, <2>3, <2>5, <2>6 DEF Found
<1>6. CASE ClaimTask(r)
  <2> DEFINE after == [Current(r) EXCEPT !.status = "IN_PROGRESS", !.taker = q.user,
                                         !.claimed = TRUE]
             row == [after EXCEPT !.version = @ + 1]
  <2>0. Cas(r, "claim", after)
    BY <1>6 DEF ClaimTask
  <2>1. q.task \in Tasks /\ now \in Row /\ q.user \in Users
    <3> HIDE DEF after
    <3> QED BY <1>0, <2>0, CasFacts DEF UserOp
  <2>2. after \in Row /\ after.version = now.version
    BY <1>0, <2>1 DEF Current, Row, Status
  <2>3. Found(r, "claim", row)
    <3> HIDE DEF after
    <3> QED BY <2>0, <2>2, UserCasEffect DEF UserOp
  <2>4. Noted(q.task, row, q.user, now.publisher)
    BY <1>6, <2>1, <2>3 DEF Found, ClaimTask, Notify, Noted, NoteType
  <2>5. Effect(q.task, now, row)
    <3>1. /\ q.user \in Users \ {now.publisher}
          /\ Moved(now, row, {"PENDING_TAKE"}, "IN_PROGRESS", q.user)
      BY <2>1, <2>2, <2>3, ZenonT(40) DEF Found, Moved, Current, Row, Allowed, UserOp, Coherent
    <3> HIDE DEF row
    <3> QED BY <2>3, <2>4, <3>1 DEF Found, Effect, Noted
  <2>6. row.version >= now.version
    BY <2>1, <2>3 DEF Found, Row
  <2> HIDE DEF row
  <2> QED BY <2>1, <2>3, <2>5, <2>6 DEF Found
<1>7. CASE SubmitComplete(r)
  <2> PICK images \in SUBSET Urls :
        /\ Cas(r, "submit", [Current(r) EXCEPT !.status = "PENDING_CONFIRM", !.proven = TRUE,
                                               !.proofImages = images, !.completed = TRUE])
        /\ MayAttach(req[r].seen, req[r].user, images)
        /\ asset' = Attach(asset, images)
        /\ Notify(r, "SUBMITTED", req[r].row.publisher)
        /\ Finish(r)
    BY <1>7 DEF SubmitComplete
  <2> DEFINE after == [Current(r) EXCEPT !.status = "PENDING_CONFIRM", !.proven = TRUE,
                                         !.proofImages = images, !.completed = TRUE]
             row == [after EXCEPT !.version = @ + 1]
  <2>0. Cas(r, "submit", after)
    OBVIOUS
  <2>1. q.task \in Tasks /\ now \in Row /\ q.user \in Users
    <3> HIDE DEF after
    <3> QED BY <1>0, <2>0, CasFacts DEF UserOp
  <2>2. after \in Row /\ after.version = now.version
    BY <1>0, <2>1 DEF Current, Row, Status
  <2>3. Found(r, "submit", row)
    <3> HIDE DEF after
    <3> QED BY <2>0, <2>2, UserCasEffect DEF UserOp
  <2>4. Noted(q.task, row, q.user, now.publisher)
    <3>1. Notify(r, "SUBMITTED", now.publisher)
      BY <2>3 DEF Found
    <3> HIDE DEF after, row
    <3> QED BY <2>1, <2>3, <3>1 DEF Found, Notify, Noted, NoteType
  <2>5. Effect(q.task, now, row)
    <3>1. /\ now.taker # NoUser /\ q.user = now.taker
          /\ Moved(now, row, {"IN_PROGRESS"}, "PENDING_CONFIRM", now.taker)
      BY <2>1, <2>2, <2>3, ConstantsAssumption, ZenonT(40)
         DEF Found, Moved, Current, Row, Allowed, UserOp, Coherent
    <3> HIDE DEF row
    <3> QED BY <2>3, <2>4, <3>1 DEF Found, Effect, Noted
  <2>6. row.version >= now.version
    BY <2>1, <2>3, SMTT(40) DEF Found, Row
  <2> HIDE DEF row
  <2> QED BY <2>1, <2>3, <2>5, <2>6 DEF Found
<1>8. CASE ConfirmComplete(r)
  <2> DEFINE after == [Current(r) EXCEPT !.status = "COMPLETED", !.confirmed = TRUE]
             row == [after EXCEPT !.version = @ + 1]
  <2>0. Cas(r, "confirm", after)
    BY <1>8 DEF ConfirmComplete
  <2>1. q.task \in Tasks /\ now \in Row /\ q.user \in Users
    <3> HIDE DEF after
    <3> QED BY <1>0, <2>0, CasFacts DEF UserOp
  <2>2. after \in Row /\ after.version = now.version
    BY <1>0, <2>1 DEF Current, Row, Status
  <2>3. Found(r, "confirm", row)
    <3> HIDE DEF after
    <3> QED BY <2>0, <2>2, UserCasEffect DEF UserOp
  <2>4. Noted(q.task, row, q.user, now.taker)
    BY <1>8, <2>1, <2>3 DEF Found, ConfirmComplete, Notify, Noted, NoteType
  <2>5. Effect(q.task, now, row)
    <3>1. /\ now.taker # NoUser /\ q.user = now.publisher
          /\ Moved(now, row, {"PENDING_CONFIRM"}, "COMPLETED", now.taker)
      BY <2>1, <2>2, <2>3, ZenonT(40) DEF Found, Moved, Current, Row, Allowed, UserOp, Coherent
    <3> HIDE DEF row
    <3> QED BY <2>3, <2>4, <3>1 DEF Found, Effect, Noted
  <2>6. row.version >= now.version
    BY <2>1, <2>3 DEF Found, Row
  <2> HIDE DEF row
  <2> QED BY <2>1, <2>3, <2>5, <2>6 DEF Found
<1>9. CASE RejectComplete(r)
  <2> DEFINE after == [Current(r) EXCEPT !.status = "IN_PROGRESS", !.confirmed = FALSE]
             row == [after EXCEPT !.version = @ + 1]
  <2>0. Cas(r, "reject", after)
    BY <1>9 DEF RejectComplete
  <2>1. q.task \in Tasks /\ now \in Row /\ q.user \in Users
    <3> HIDE DEF after
    <3> QED BY <1>0, <2>0, CasFacts DEF UserOp
  <2>2. after \in Row /\ after.version = now.version
    BY <1>0, <2>1 DEF Current, Row, Status
  <2>3. Found(r, "reject", row)
    <3> HIDE DEF after
    <3> QED BY <2>0, <2>2, UserCasEffect DEF UserOp
  <2>4. Noted(q.task, row, q.user, now.taker)
    BY <1>9, <2>1, <2>3 DEF Found, RejectComplete, Notify, Noted, NoteType
  <2>5. Effect(q.task, now, row)
    <3>1. /\ now.taker # NoUser /\ q.user = now.publisher
          /\ Moved(now, row, {"PENDING_CONFIRM"}, "IN_PROGRESS", now.taker)
      BY <2>1, <2>2, <2>3 DEF Found, Moved, Current, Row, Allowed, UserOp, Coherent
    <3> HIDE DEF row
    <3> QED BY <2>3, <2>4, <3>1 DEF Found, Effect, Noted
  <2>6. row.version >= now.version
    BY <2>1, <2>3 DEF Found, Row
  <2> HIDE DEF row
  <2> QED BY <2>1, <2>3, <2>5, <2>6 DEF Found
<1>10. CASE RevokePublish(r)
  <2> DEFINE after == [Current(r) EXCEPT !.status = "CANCELLED"]
             row == [after EXCEPT !.version = @ + 1]
  <2>0. Cas(r, "revoke", after)
    BY <1>10 DEF RevokePublish
  <2>1. q.task \in Tasks /\ now \in Row /\ q.user \in Users
    <3> HIDE DEF after
    <3> QED BY <1>0, <2>0, CasFacts DEF UserOp
  <2>2. after \in Row /\ after.version = now.version
    BY <1>0, <2>1 DEF Current, Row, Status
  <2>3. Found(r, "revoke", row)
    <3> HIDE DEF after
    <3> QED BY <2>0, <2>2, UserCasEffect DEF UserOp
  <2>4. IF now.taker = NoUser THEN notes' = notes ELSE Noted(q.task, row, q.user, now.taker)
    BY <1>10, <2>1, <2>3 DEF Found, RevokePublish, Notify, Noted, NoteType
  <2>5. Effect(q.task, now, row)
    <3>1. /\ q.user = now.publisher
          /\ Moved(now, row, {"PENDING_TAKE", "IN_PROGRESS", "PENDING_CONFIRM"}, "CANCELLED",
                   now.taker)
      BY <2>1, <2>2, <2>3 DEF Found, Moved, Current, Row, Allowed, UserOp
    <3> HIDE DEF row
    <3>2. CASE now.taker = NoUser
      <4>1. Moved(now, row, {"PENDING_TAKE"}, "CANCELLED", NoUser)
        BY <2>3, <3>1, <3>2, ConstantsAssumption DEF Found, Moved, Coherent
      <4> QED BY <2>4, <3>2, <4>1 DEF Effect
    <3>3. CASE now.taker # NoUser
      <4>1. Moved(now, row, {"IN_PROGRESS", "PENDING_CONFIRM"}, "CANCELLED", now.taker)
        BY <2>3, <3>1, <3>3 DEF Found, Moved, Coherent
      <4> QED BY <2>4, <3>1, <3>3, <4>1 DEF Effect
    <3> QED BY <3>2, <3>3
  <2>6. row.version >= now.version
    BY <2>1, <2>3 DEF Found, Row
  <2> HIDE DEF row
  <2> QED BY <2>1, <2>3, <2>5, <2>6 DEF Found
<1>11. CASE Republish(r)
  <2> DEFINE after == [Current(r) EXCEPT !.status = "PENDING_TAKE"]
             row == [after EXCEPT !.version = @ + 1]
  <2>0. Cas(r, "republish", after)
    BY <1>11 DEF Republish
  <2>1. q.task \in Tasks /\ now \in Row /\ q.user \in Users
    <3> HIDE DEF after
    <3> QED BY <1>0, <2>0, CasFacts DEF UserOp
  <2>2. after \in Row /\ after.version = now.version
    BY <1>0, <2>1 DEF Current, Row, Status
  <2>3. Found(r, "republish", row)
    <3> HIDE DEF after
    <3> QED BY <2>0, <2>2, UserCasEffect DEF UserOp
  <2>4. notes' = notes
    BY <1>11 DEF Republish
  <2>5. Effect(q.task, now, row)
    <3>1. now.taker = NoUser /\ Moved(now, row, {"CANCELLED"}, "PENDING_TAKE", NoUser)
      BY <2>1, <2>2, <2>3 DEF Found, Moved, Current, Row, Allowed, UserOp, Coherent
    <3> HIDE DEF row
    <3> QED BY <2>3, <2>4, <3>1 DEF Found, Effect, Noted
  <2>6. row.version >= now.version
    BY <2>1, <2>3 DEF Found, Row
  <2> HIDE DEF row
  <2> QED BY <2>1, <2>3, <2>5, <2>6 DEF Found
<1>12. CASE DeleteUnpublished(r)
  <2> DEFINE after == [Current(r) EXCEPT !.deleted = TRUE]
             row == [after EXCEPT !.version = @ + 1]
  <2>0. Cas(r, "delete", after)
    BY <1>12 DEF DeleteUnpublished
  <2>1. q.task \in Tasks /\ now \in Row /\ q.user \in Users
    <3> HIDE DEF after
    <3> QED BY <1>0, <2>0, CasFacts DEF UserOp
  <2>2. after \in Row /\ after.version = now.version
    BY <1>0, <2>1 DEF Current, Row, Status
  <2>3. Found(r, "delete", row)
    <3> HIDE DEF after
    <3> QED BY <2>0, <2>2, UserCasEffect DEF UserOp
  <2>4. notes' = notes
    BY <1>12 DEF DeleteUnpublished
  <2>5. Effect(q.task, now, row)
    <3>1. Removed(now, row)
      BY <2>1, <2>2, <2>3 DEF Found, Removed, Current, Row, Allowed, UserOp, Coherent
    <3> HIDE DEF row
    <3> QED BY <2>3, <2>4, <3>1 DEF Found, Effect, Noted
  <2>6. row.version >= now.version
    BY <2>1, <2>3 DEF Found, Row
  <2> HIDE DEF row
  <2> QED BY <2>1, <2>3, <2>5, <2>6 DEF Found
<1>13. CASE AbandonTask(r)
  <2> DEFINE after == [Current(r) EXCEPT !.status = "PENDING_TAKE", !.taker = NoUser,
                 !.claimed = FALSE, !.proven = FALSE, !.proofImages = {},
                 !.completed = FALSE, !.confirmed = FALSE]
             row == [after EXCEPT !.version = @ + 1]
  <2>0. Cas(r, "abandon", after)
    BY <1>13 DEF AbandonTask
  <2>1. q.task \in Tasks /\ now \in Row /\ q.user \in Users
    <3> HIDE DEF after
    <3> QED BY <1>0, <2>0, CasFacts DEF UserOp
  <2>2. after \in Row /\ after.version = now.version
    BY <1>0, <2>1, ZenonT(40) DEF Current, Row, Status
  <2>3. Found(r, "abandon", row)
    <3> HIDE DEF after
    <3> QED BY <2>0, <2>2, UserCasEffect DEF UserOp
  <2>4. Noted(q.task, row, q.user, now.publisher)
    BY <1>13, <2>1, <2>3 DEF Found, AbandonTask, Notify, Noted, NoteType
  <2>5. Effect(q.task, now, row)
    <3>1. /\ now.taker # NoUser /\ q.user = now.taker
          /\ Moved(now, row, {"IN_PROGRESS"}, "PENDING_TAKE", NoUser)
      BY <2>1, <2>2, <2>3, ConstantsAssumption, ZenonT(40)
         DEF Found, Moved, Current, Row, Allowed, UserOp, Coherent
    <3> HIDE DEF row
    <3> QED BY <2>3, <2>4, <3>1 DEF Found, Effect, Noted
  <2>6. row.version >= now.version
    BY <2>1, <2>3 DEF Found, Row
  <2> HIDE DEF row
  <2> QED BY <2>1, <2>3, <2>5, <2>6 DEF Found
<1>14. CASE AdminEdit(r)
  <2> PICK ready \in BOOLEAN, online \in BOOLEAN, images \in SUBSET Urls :
        /\ req[r].row.status # "DRAFT" => ready
        /\ Cas(r, "adminEdit", [Current(r) EXCEPT !.ready = ready, !.online = online,
                 !.images = images,
                 !.publisher = IF req[r].actor = NoUser THEN @ ELSE req[r].actor])
        /\ ReplaceMedia(r, images)
        /\ UNCHANGED notes
        /\ Finish(r)
    BY <1>14 DEF AdminEdit
  <2> DEFINE after == [Current(r) EXCEPT !.ready = ready, !.online = online,
                 !.images = images,
                 !.publisher = IF q.actor = NoUser THEN @ ELSE q.actor]
             row == [after EXCEPT !.version = @ + 1]
  <2>0. Cas(r, "adminEdit", after)
    OBVIOUS
  <2>1. q.task \in Tasks /\ now \in Row /\ ~now.deleted /\ now.status # "ABSENT"
    <3> HIDE DEF after
    <3> QED BY <1>0, <2>0, CasFacts
  <2>2. after \in Row /\ after.version = now.version /\ Edited(now, after)
    <3>1. q.actor \in Users \cup {NoUser}
      BY <1>0 DEF Request
    <3> QED BY <2>1, <3>1, ZenonT(40) DEF Current, Row, Edited
  <2>3. row \in Row /\ row.version = now.version + 1 /\ Edited(now, row)
    <3> HIDE DEF after
    <3> QED BY <2>1, <2>2 DEF Row, Edited
  <2>4. task' = [task EXCEPT ![q.task] = row]
    <3> HIDE DEF after
    <3> QED BY <2>0 DEF Cas
  <2>5. Effect(q.task, now, row) /\ row.version >= now.version
    <3> HIDE DEF row
    <3> QED BY <2>1, <2>3 DEF Effect, Row
  <2> HIDE DEF row
  <2> QED BY <2>1, <2>3, <2>4, <2>5
<1>15. CASE AdminState(r)
  <2> PICK online \in BOOLEAN : task' = [task EXCEPT ![q.task].online = online]
    BY <1>15 DEF AdminState
  <2> DEFINE row == [now EXCEPT !.online = online]
  <2>1. q.task \in Tasks /\ Live(q.row)
    BY <1>0, <1>15 DEF AdminState, Checked, AdminOp, Allowed
  <2>2. now \in Row /\ now.status # "ABSENT"
    BY <1>0, <2>1, VersionedStatus
  <2>3. row \in Row /\ row.version = now.version /\ Edited(now, row)
    BY <2>2 DEF Row, Edited
  <2>4. task' = [task EXCEPT ![q.task] = row] /\ notes' = notes
    BY <1>15 DEF AdminState
  <2>5. Effect(q.task, now, row) /\ row.version >= now.version
    <3> HIDE DEF row
    <3> QED BY <2>2, <2>3, <2>4 DEF Effect, Row
  <2> HIDE DEF row
  <2> QED BY <2>1, <2>3, <2>4, <2>5
<1>16. CASE AdminDelete(r)
  <2> DEFINE row == [now EXCEPT !.deleted = TRUE]
  <2>1. q.task \in Tasks /\ Live(q.row)
    BY <1>0, <1>16 DEF AdminDelete, Checked, AdminOp, Allowed
  <2>2. now \in Row /\ now.status # "ABSENT"
    BY <1>0, <2>1, VersionedStatus
  <2>3. row \in Row /\ row.version = now.version /\ Removed(now, row)
    BY <2>2 DEF Row, Removed
  <2>4. task' = [task EXCEPT ![q.task] = row] /\ notes' = notes
    BY <1>16 DEF AdminDelete
  <2>5. Effect(q.task, now, row) /\ row.version >= now.version
    <3> HIDE DEF row
    <3> QED BY <2>2, <2>3, <2>4 DEF Effect, Row
  <2> HIDE DEF row
  <2> QED BY <2>1, <2>3, <2>4, <2>5
<1> QED BY <1>1, <1>2, <1>3, <1>4, <1>5, <1>6, <1>7, <1>8, <1>9,
           <1>10, <1>11, <1>12, <1>13, <1>14, <1>15, <1>16 DEF Commit

----------------------------------------------------------------------------
(* The action properties. *)

\* A step that is not a commit leaves the tasks and the notifications alone.
LEMMA StepEffect ==
    ASSUME IInv, [Next]_vars
    PROVE  \/ UNCHANGED <<task, notes>>
           \/ \E t \in Tasks, row \in Row :
                 /\ task' = [task EXCEPT ![t] = row]
                 /\ row.version >= task[t].version
                 /\ Effect(t, task[t], row)
<1>1. CASE UNCHANGED vars
  BY <1>1 DEF vars
<1>2. ASSUME NEW r \in Requests, Begin(r)
      PROVE  UNCHANGED <<task, notes>>
  BY <1>2 DEF Begin, BeginCreate, BeginUser, BeginAdmin, Start
<1>3. ASSUME NEW r \in Requests, Fail(r)
      PROVE  UNCHANGED <<task, notes>>
  BY <1>3 DEF Fail
<1> QED BY <1>1, <1>2, <1>3, CommitEffect DEF Next

\* A draft is published only complete: the row publishDraft checked is the row its
\* update finds (task.service.ts:193-218).
THEOREM DraftsArePublishedComplete == Spec => OnlyCompleteDraftsPublished
<1>1. ASSUME IInv, [Next]_vars, NEW t \in Tasks,
             task[t].status = "DRAFT", task'[t].status = "PENDING_TAKE"
      PROVE  task[t].ready
  <2>1. task[t].status # task'[t].status
    BY <1>1
  <2>2. PICK s \in Tasks, row \in Row :
               task' = [task EXCEPT ![s] = row] /\ Effect(s, task[s], row)
    BY <1>1, <2>1, StepEffect
  <2>3. s = t /\ task'[t] = row
    BY <1>1, <2>1, <2>2 DEF IInv, TasksOK
  <2> QED BY <1>1, <2>2, <2>3 DEF Effect, Created, Edited, Removed, Moved, Absent
<1>2. IInv /\ [Next]_vars =>
        [\A t \in Tasks : task[t].status = "DRAFT" /\ task'[t].status = "PENDING_TAKE"
                            => task[t].ready]_vars
  BY <1>1
<1> QED BY <1>2, Invariance, PTL DEF Spec, OnlyCompleteDraftsPublished

\* No medium of a task its publisher deletes stays attached: the media of the row
\* he read are the media of the row he deletes (task.service.ts:584-610).
THEOREM DeletedTasksQueueTheirMedia == Spec => DeletedTaskQueuesItsMedia
<1>1. ASSUME IInv, NEW r \in Requests, DeleteUnpublished(r), NEW m \in Media(task[req[r].task])
      PROVE  asset'[m] # "ATTACHED"
  <2> DEFINE q == req[r]
             now == task[q.task]
  <2>1. /\ Cas(r, "delete", [Current(r) EXCEPT !.deleted = TRUE])
        /\ asset' = RequestDelete(asset, q.row.images \cup q.row.proofImages)
    BY <1>1 DEF DeleteUnpublished, CondemnMedia
  <2>2. /\ q.task \in Tasks /\ q \in Request /\ RowOK(now)
        /\ now.version = q.row.version
    BY <1>1, <2>1, CasFacts DEF UserOp
  <2>3. now \in Row /\ q.row \in Row
    BY <2>2 DEF RowOK, Request
  <2>4. Versioned(now) = Versioned(q.row)
    BY <1>1, <2>2 DEF IInv, VersionIdentifiesRow
  <2>5. Media(now) = Media(q.row)
    BY <2>3, <2>4 DEF Versioned, Row, Media
  <2>6. m \in Urls /\ m \in q.row.images \cup q.row.proofImages
    BY <1>1, <2>3, <2>5 DEF Media, Row
  <2> QED BY <1>1, <2>1, <2>6 DEF IInv, AssetsOK, RequestDelete, Condemnable, AssetState
<1>2. IInv /\ [Next]_vars =>
        [\A r \in Requests :
           DeleteUnpublished(r) =>
             \A m \in Media(task[req[r].task]) : asset'[m] # "ATTACHED"]_vars
  BY <1>1
<1> QED BY <1>2, Invariance, PTL DEF Spec, DeletedTaskQueuesItsMedia

----------------------------------------------------------------------------
(* Notifications. *)

\* A notification is about a version the task has reached.
NotesAge == \A n \in notes : n.version <= task[n.task].version

\* Each step keeps it: what a step notifies carries the version it has written.
LEMMA NotesAgeOK ==
    ASSUME IInv, NotesAge, [Next]_vars
    PROVE  NotesAge'
<1>1. CASE UNCHANGED <<task, notes>>
  BY <1>1 DEF NotesAge
<1>2. ASSUME NEW t \in Tasks, NEW row \in Row, task' = [task EXCEPT ![t] = row],
             row.version >= task[t].version, Effect(t, task[t], row)
      PROVE  NotesAge'
  <2> SUFFICES ASSUME NEW n \in notes' PROVE n.version <= task'[n.task].version
    BY DEF NotesAge
  <2>1. \A s \in Tasks : /\ task[s] \in Row /\ task'[s] \in Row
                         /\ task'[s].version >= task[s].version
    BY <1>2 DEF IInv, TasksOK, Row
  <2>2. CASE n \in notes
    <3>1. n.task \in Tasks /\ n.version \in Nat /\ n.version <= task[n.task].version
      BY <2>2 DEF NotesAge, IInv, NotesOK
    <3> QED BY <2>1, <3>1 DEF Row
  <2>3. CASE n \notin notes
    <3>1. n.task = t /\ n.version = row.version
      BY <1>2, <2>3 DEF Effect, Noted
    <3>2. task'[t] = row
      BY <1>2 DEF IInv, TasksOK
    <3> QED BY <3>1, <3>2 DEF Row
  <2> QED BY <2>2, <2>3
<1> QED BY <1>1, <1>2, StepEffect

\* A note under a new version is new, so it is all that a step adds.
LEMMA NewNote ==
    ASSUME IInv, NotesAge, NEW t \in Tasks, NEW row \in Row, NEW by, NEW to,
           row.version = task[t].version + 1, Noted(t, row, by, to), to # by
    PROVE  {<<n.to, n.task, n.version>> : n \in notes' \ notes} = {<<to, t, row.version>>}
<1>1. PICK type \in NoteType :
        notes' = notes \cup {[to |-> to, task |-> t, type |-> type, version |-> row.version]}
  BY DEF Noted
<1> DEFINE note == [to |-> to, task |-> t, type |-> type, version |-> row.version]
<1>2. note.to = to /\ note.task = t /\ note.version = row.version
  OBVIOUS
<1>3. note \notin notes
  <2> SUFFICES ASSUME note \in notes PROVE FALSE
    OBVIOUS
  <2>1. row.version <= task[t].version /\ task[t].version \in Nat
    BY <1>2 DEF NotesAge, IInv, TasksOK, Row
  <2> QED BY <2>1
<1> HIDE DEF note
<1>4. notes' \ notes = {note}
  BY <1>1, <1>3 DEF note
<1> QED BY <1>2, <1>4

\* Each step of a task somebody has taken tells the other party, and nobody else,
\* under a version that no notification had before (notification-notify.ts:83).
THEOREM TransitionsAreNotified == Spec => EveryTransitionIsNotified
<1>1. Init => NotesAge
  BY DEF Init, NotesAge
<1>2. IInv /\ NotesAge /\ [Next]_vars => NotesAge'
  BY NotesAgeOK
<1>3. ASSUME IInv, NotesAge, [Next]_vars, NEW t \in Tasks,
             task[t].status # task'[t].status,
             task[t].taker # NoUser \/ task'[t].taker # NoUser
      PROVE  {<<n.to, n.task, n.version>> : n \in notes' \ notes}
               = IF task[t].taker = task[t].publisher THEN {}
                 ELSE {<<Told(task[t], task'[t]), t, task'[t].version>>}
  <2>1. PICK s \in Tasks, row \in Row :
               task' = [task EXCEPT ![s] = row] /\ Effect(s, task[s], row)
    BY <1>3, StepEffect
  <2>2. s = t /\ task'[t] = row
    BY <1>3, <2>1 DEF IInv, TasksOK
  <2> DEFINE now == task[t]
  <2>3. CASE \E u \in Users \ {now.publisher} :
               /\ Moved(now, row, {"PENDING_TAKE"}, "IN_PROGRESS", u)
               /\ Noted(t, row, u, now.publisher)
    <3> PICK u \in Users \ {now.publisher} :
               /\ Moved(now, row, {"PENDING_TAKE"}, "IN_PROGRESS", u)
               /\ Noted(t, row, u, now.publisher)
      BY <2>3
    <3>1. now.publisher # now.taker /\ Told(now, row) = now.publisher
      BY <1>3, <2>2, ConstantsAssumption DEF IInv, TasksOK, RowOK, Coherent, Moved, Told
    <3> QED BY <1>3, <2>2, <3>1, NewNote DEF Moved
  <2>4. CASE /\ now.taker # NoUser
             /\ \/ Moved(now, row, {"IN_PROGRESS"}, "PENDING_CONFIRM", now.taker)
                \/ Moved(now, row, {"IN_PROGRESS"}, "PENDING_TAKE", NoUser)
             /\ Noted(t, row, now.taker, now.publisher)
    <3>1. Told(now, row) = now.publisher
      BY <2>4 DEF Moved, Told
    <3>2. CASE now.taker = now.publisher
      BY <2>4, <3>2 DEF Noted
    <3>3. CASE now.taker # now.publisher
      BY <1>3, <2>2, <2>4, <3>1, <3>3, NewNote DEF Moved
    <3> QED BY <2>2, <3>1, <3>2, <3>3
  <2>5. CASE /\ now.taker # NoUser
             /\ \/ Moved(now, row, {"PENDING_CONFIRM"}, "COMPLETED", now.taker)
                \/ Moved(now, row, {"PENDING_CONFIRM"}, "IN_PROGRESS", now.taker)
                \/ Moved(now, row, {"IN_PROGRESS", "PENDING_CONFIRM"}, "CANCELLED", now.taker)
             /\ Noted(t, row, now.publisher, now.taker)
    <3>1. Told(now, row) = now.taker
      BY <2>5 DEF Moved, Told
    <3>2. CASE now.taker = now.publisher
      BY <2>5, <3>2 DEF Noted
    <3>3. CASE now.taker # now.publisher
      BY <1>3, <2>2, <2>5, <3>1, <3>3, NewNote DEF Moved
    <3> QED BY <2>2, <3>1, <3>2, <3>3
  <2>6. \/ now.status = row.status
        \/ now.taker = NoUser /\ row.taker = NoUser
        \/ \E u \in Users \ {now.publisher} :
               /\ Moved(now, row, {"PENDING_TAKE"}, "IN_PROGRESS", u)
               /\ Noted(t, row, u, now.publisher)
        \/ /\ now.taker # NoUser
           /\ \/ Moved(now, row, {"IN_PROGRESS"}, "PENDING_CONFIRM", now.taker)
              \/ Moved(now, row, {"IN_PROGRESS"}, "PENDING_TAKE", NoUser)
           /\ Noted(t, row, now.taker, now.publisher)
        \/ /\ now.taker # NoUser
           /\ \/ Moved(now, row, {"PENDING_CONFIRM"}, "COMPLETED", now.taker)
              \/ Moved(now, row, {"PENDING_CONFIRM"}, "IN_PROGRESS", now.taker)
              \/ Moved(now, row, {"IN_PROGRESS", "PENDING_CONFIRM"}, "CANCELLED", now.taker)
           /\ Noted(t, row, now.publisher, now.taker)
    <3>1. now.status = "DRAFT" => now.taker = NoUser
      BY <1>3, ConstantsAssumption DEF IInv, TasksOK, RowOK, Coherent
    <3>2. Effect(t, now, row)
      BY <2>1, <2>2
    <3>3. CASE Created(now, row) \/ Edited(now, row) \/ Removed(now, row)
      BY <3>3 DEF Created, Edited, Removed, Absent
    <3>4. CASE Moved(now, row, {"DRAFT"}, "PENDING_TAKE", now.taker)
      BY <3>1, <3>4 DEF Moved
    <3>5. CASE /\ now.taker = NoUser
               /\ \/ Moved(now, row, {"CANCELLED"}, "PENDING_TAKE", NoUser)
                  \/ Moved(now, row, {"PENDING_TAKE"}, "CANCELLED", NoUser)
      BY <3>5 DEF Moved
    <3> QED BY <3>2, <3>3, <3>4, <3>5 DEF Effect
  <2> QED BY <1>3, <2>2, <2>3, <2>4, <2>5, <2>6
<1>4. IInv /\ NotesAge /\ [Next]_vars =>
        [\A t \in Tasks :
           LET before == task[t]
               after  == task'[t]
           IN  /\ before.status # after.status
               /\ before.taker # NoUser \/ after.taker # NoUser
               => {<<n.to, n.task, n.version>> : n \in notes' \ notes}
                    = (IF before.taker = before.publisher THEN {}
                       ELSE {<<Told(before, after), t, after.version>>})]_vars
  BY <1>3
<1> QED BY <1>1, <1>2, <1>4, Invariance, PTL DEF Spec, EveryTransitionIsNotified

----------------------------------------------------------------------------
(* The refinement. *)

\* Writing one row changes one entry of the board.
LEMMA BoardStep ==
    ASSUME task \in [Tasks -> Row], NEW t \in Tasks, NEW row,
           task' = [task EXCEPT ![t] = row]
    PROVE  /\ Board[t] = Entry(task[t])
           /\ Board' = [Board EXCEPT ![t] = Entry(row)]
BY DEF Board

\* Each effect is a move of the board, or leaves what a neighbour sees alone.
LEMMA EffectIsMove ==
    ASSUME IInv, NEW t \in Tasks, NEW row \in Row,
           task' = [task EXCEPT ![t] = row], Effect(t, task[t], row)
    PROVE  [Contract!Next]_Board
<1> DEFINE now == task[t]
<1>1. Board[t] = Entry(now) /\ Board' = [Board EXCEPT ![t] = Entry(row)]
  BY BoardStep DEF IInv, TasksOK
<1>2. now \in Row /\ Coherent(now) /\ (now.status # "ABSENT" => now.publisher \in Users)
  BY DEF IInv, TasksOK, RowOK
<1>3. Board = [Board EXCEPT ![t] = Entry(now)]
  BY <1>1 DEF Board
<1>4. CASE Created(now, row)
  <2>1. /\ Board[t].phase = "ABSENT"
        /\ row.publisher \in Users /\ row.status \in {"DRAFT", "PENDING_TAKE"}
    BY <1>1, <1>4 DEF Created, Entry, Absent
  <2>2. [phase |-> row.status, publisher |-> row.publisher, taker |-> NoUser] = Entry(row)
    BY <1>4 DEF Created, Entry
  <2>3. Contract!Move(t, {"ABSENT"},
          [phase |-> row.status, publisher |-> row.publisher, taker |-> NoUser])
    BY <1>1, <2>1, <2>2 DEF Contract!Move
  <2>4. Contract!Create(t)
    BY <2>1, <2>3 DEF Contract!Create
  <2> QED BY <2>4 DEF Contract!Next
<1>5. CASE Edited(now, row)
  <2>1. CASE row.publisher = now.publisher
    BY <1>1, <1>3, <1>5, <2>1 DEF Edited, Entry
  <2>2. CASE now.status # "ABSENT" /\ ~now.deleted /\ row.publisher \in Users
    <3>1. Board[t].phase \in Contract!Phase \ {"ABSENT", "REMOVED"}
      BY <1>1, <1>2, <2>2 DEF Contract!Phase, Entry, Row, Status
    <3>2. [Board[t] EXCEPT !.publisher = row.publisher] = Entry(row)
      BY <1>1, <1>5, <2>2 DEF Edited, Entry
    <3>3. Contract!Transfer(t)
      BY <1>1, <2>2, <3>1, <3>2 DEF Contract!Transfer, Contract!Move
    <3> QED BY <3>3 DEF Contract!Next
  <2> QED BY <1>5, <2>1, <2>2 DEF Edited
<1>6. CASE Removed(now, row)
  <2>1. CASE now.deleted
    BY <1>1, <1>3, <1>6, <2>1 DEF Removed, Entry
  <2>2. CASE ~now.deleted
    <3>1. Board[t].phase \in Contract!Phase \ {"ABSENT", "REMOVED"}
      BY <1>1, <1>2, <1>6, <2>2 DEF Contract!Phase, Removed, Entry, Row, Status
    <3>2. Contract!To(t, "REMOVED") = Entry(row)
      BY <1>1, <1>6 DEF Contract!To, Removed, Entry
    <3>3. Contract!Remove(t)
      BY <1>1, <3>1, <3>2 DEF Contract!Remove, Contract!Move
    <3> QED BY <3>3 DEF Contract!Next
  <2> QED BY <1>2, <2>1, <2>2 DEF Row
<1>7. ASSUME NEW from, NEW status, NEW taker, Moved(now, row, from, status, taker)
      PROVE  /\ Board[t].phase \in from
             /\ Board[t].taker = now.taker /\ Board[t].publisher = now.publisher
             /\ Board' = [Board EXCEPT ![t] = [phase |-> status, publisher |-> Board[t].publisher,
                                               taker |-> taker]]
             /\ Board[t] = [phase |-> now.status, publisher |-> now.publisher, taker |-> now.taker]
  BY <1>1, <1>7 DEF Moved, Entry
<1>8. CASE Moved(now, row, {"DRAFT"}, "PENDING_TAKE", now.taker)
  <2>1. Contract!Publish(t)
    BY <1>7, <1>8 DEF Contract!Publish, Contract!Move, Contract!To
  <2> QED BY <2>1 DEF Contract!Next
<1>9. CASE now.taker = NoUser /\ Moved(now, row, {"CANCELLED"}, "PENDING_TAKE", NoUser)
  <2>1. Contract!Reopen(t)
    BY <1>7, <1>9 DEF Contract!Reopen, Contract!Move, Contract!To
  <2> QED BY <2>1 DEF Contract!Next
<1>10. CASE \/ now.taker = NoUser /\ Moved(now, row, {"PENDING_TAKE"}, "CANCELLED", NoUser)
            \/ Moved(now, row, {"IN_PROGRESS", "PENDING_CONFIRM"}, "CANCELLED", now.taker)
  <2>1. Contract!Withdraw(t)
    BY <1>7, <1>10 DEF Contract!Withdraw, Contract!Move, Contract!To
  <2> QED BY <2>1 DEF Contract!Next
<1>11. CASE \E u \in Users \ {now.publisher} : Moved(now, row, {"PENDING_TAKE"}, "IN_PROGRESS", u)
  <2>1. PICK u \in Users \ {now.publisher} : Moved(now, row, {"PENDING_TAKE"}, "IN_PROGRESS", u)
    BY <1>11
  <2>2. Contract!To(t, "IN_PROGRESS")
          = [phase |-> "IN_PROGRESS", publisher |-> now.publisher, taker |-> now.taker]
    BY <1>7, <2>1 DEF Contract!To
  <2>3. Contract!Move(t, {"PENDING_TAKE"}, [Contract!To(t, "IN_PROGRESS") EXCEPT !.taker = u])
    BY <1>7, <2>1, <2>2 DEF Contract!Move
  <2>4. Contract!Claim(t)
    BY <1>7, <2>1, <2>3 DEF Contract!Claim
  <2> QED BY <2>4 DEF Contract!Next
<1>12. CASE Moved(now, row, {"IN_PROGRESS"}, "PENDING_CONFIRM", now.taker)
  <2>1. Contract!Submit(t)
    BY <1>7, <1>12 DEF Contract!Submit, Contract!Move, Contract!To
  <2> QED BY <2>1 DEF Contract!Next
<1>13. CASE Moved(now, row, {"IN_PROGRESS"}, "PENDING_TAKE", NoUser)
  <2>1. Contract!To(t, "PENDING_TAKE")
          = [phase |-> "PENDING_TAKE", publisher |-> now.publisher, taker |-> now.taker]
    BY <1>7, <1>13 DEF Contract!To
  <2>2. Contract!Abandon(t)
    BY <1>7, <1>13, <2>1 DEF Contract!Abandon, Contract!Move
  <2> QED BY <2>2 DEF Contract!Next
<1>14. CASE Moved(now, row, {"PENDING_CONFIRM"}, "COMPLETED", now.taker)
  <2>1. Contract!Confirm(t)
    BY <1>7, <1>14 DEF Contract!Confirm, Contract!Move, Contract!To
  <2> QED BY <2>1 DEF Contract!Next
<1>15. CASE Moved(now, row, {"PENDING_CONFIRM"}, "IN_PROGRESS", now.taker)
  <2>1. Contract!Reject(t)
    BY <1>7, <1>15 DEF Contract!Reject, Contract!Move, Contract!To
  <2> QED BY <2>1 DEF Contract!Next
<1> QED BY <1>4, <1>5, <1>6, <1>8, <1>9, <1>10, <1>11, <1>12, <1>13, <1>14, <1>15 DEF Effect

\* The handlers, each a read and a later conditional write with other transactions
\* in between, implement the atomic moves of the board.
THEOREM Refinement == Spec => ImplementsContract
<1>1. Init => Contract!Init
  BY DEF Init, Contract!Init, Contract!Blank, Board, Entry, Absent
<1>2. ASSUME IInv, [Next]_vars
      PROVE  [Contract!Next]_Board
  <2>1. CASE UNCHANGED <<task, notes>>
    BY <2>1 DEF Board
  <2> QED BY <1>2, <2>1, StepEffect, EffectIsMove
<1> QED BY <1>1, <1>2, Invariance, PTL DEF Spec, ImplementsContract, Contract!Spec

=============================================================================
