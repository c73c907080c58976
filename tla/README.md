# Formal models of the community platform's server

The server (`src/src`, Koa, Prisma, MySQL 8, Redis, an object store, WeChat) is a set of request
handlers over one database, and two worker processes that poll it. Nearly every handler is a
transaction that reads rows, decides on what it read, and writes with conditional updates; there
are no in-memory locks between processes. What is hard about it is therefore always the same
question: **what may have changed between the read and the write?** The modules here ask it of the
parts where the answer matters most, TLC answers it on small instances, and for most of them the
answer is proved for all.

No handler sets an isolation level, so the server's default, REPEATABLE READ, applies
(`src/docs/Docker-Jenkins自动化部署.md` deploys `mysql:8.0`). All models take it as follows: a
transaction's plain reads see the snapshot of its *first plain read*; a locking read
(`SELECT ... FOR UPDATE`), an `updateMany`, `delete` or `insert` acts on the rows as they are at
that moment; a transaction that throws leaves nothing. This is the one fact about the database
everything below rests on.

## 1. Inventory

| component | state | operations | hard behaviour | correct when |
|---|---|---|---|---|
| Task board (`modules/task`, task branches of `modules/admin`) | `tasks`: status, version, publisher, taker, media, proof columns; `notifications` | create, save and publish a draft, claim, submit, confirm, reject, revoke, republish, delete, abandon; administrator's create, edit, visibility, batch, delete | every two of them may race on one row; administrators edit without changing the status | each transition is made by the entitled party on the row it was decided on, notified once, and taker, proof and status agree |
| Sign-up sheets (`forum-registration.service`, `updateContentFields`) | `forum_post_registrations`, its entries, the post's feature | register, cancel, edit of kind, capacity, deadline | counting under a lock; deleting a sheet under a registration | never more names than places, none after the deadline, no entry without a sheet |
| Media assets (`media-asset.service`, `uploadMedia`) | `media_assets.state`, objects in the store | upload, attach, queue, delete | two systems without a common transaction; expiry racing publication | what is in use is in the store, what is queued leaves it |
| Cleanup worker (`media-cleanup.worker`) | a batch in memory | list, claim, reread, delete, record | crash anywhere; a store that refuses | nothing lost, nothing forgotten |
| Forum files (`uploadForumAttachment`, `forum-attachments`) | `forum_attachment_blobs` (one object for equal bytes), assets, relations to posts | prepare, upload, register, revive, give way; attach, replace, delete | reference counting across uploads, edits and the worker | a usable file has its object; an orphan is found |
| Database backups (`database-backup.worker`, `database.service`) | job table with unique active and schedule keys, lease, setting, the backup file | manual request, schedule, lease, heartbeat, dump, rename, record | several processes, stalls longer than the lease, crashes | one active job; each ends, once; success means published |
| Forum posts and mall items (`forum.service`, `mall-item.service`, `mall-comment.service`, branches of `admin.service`) | the content, its replies or comments, `replyCount`, their media | publish, edit, hide, delete; answer, delete an answer with all below it | answers to what is being deleted; a counter recounted on a snapshot; media of a row as read | no answer without what it answers, counter and media agree with the rows |
| Likes and favourites of replies | a row per user, a counter | insert and increment, delete and decrement, without a transaction | double taps, a crash in between | off by the taps under way at most |
| First page and replies (`listPosts`, `getPostDetail`) | Redis keys with a version | two queries and a store; commit, then increment the version | slow readers, a post pinned between the queries | nothing shown twice or not at all once a change is announced |
| Notifications (`notification-notify`, `notification.service`) and system notices (`system-notice.service`) | `notifications`, unique (recipient, dedupe key); publications | notify in the business transaction, publish in pages, list, read, delete | retries, users enabled or frozen while the pages are read | one per event; a notice to exactly those enabled when it was written |
| Avatar review (`avatar-review.service`) | `avatar_reviews`, the user's avatar | submit, verdict, time-out | late, repeated and reordered verdicts | only a younger passed picture replaces the avatar, and it stays attached |
| Profile snapshots (`user-profile-sync`) | names and avatars copied into eight tables | lock, copy; lock, update and propagate | a snapshot older than the lock; locks of two users | the copies agree with the user; no deadlock |
| Mall orders (`mall-order.service`) | orders, unique (buyer, request id) | create, complete, cancel | repeated requests, cancel against complete | one order per request id, one final status, told once |
| Mall categories (`mall-category.service`) | categories; items name one without a foreign key | defaults, create, update, delete; check and file | count, then delete | a category with items stays |
| Mini-program login (`auth.service`) | users: unique openid, unique phone number | login by openid, by phone number; freeze | the account found with one statement, written with the next | the account with that openid and number |
| Administrators' sessions (`admin-session`, `admin-auth`) | `sessionVersion` | login, refresh, passwords, enable, disable, delete | overlapping logins and changes | tokens of the last login only; ended is ended |
| Redis cache (`redis-cache`) | versioned list keys, detail keys | get or load, store; invalidate after the commit | a slow reader storing an old value | no stale list after an invalidation |
| Endpoint registry (`api-endpoint.service`) | settings, a copy in the process, a load in flight | read through, change and invalidate, synchronise after a start | a load across an invalidation, restarts | never older than what the process was told |
| Settings of the mini program (`settings.service`) | entries, one Redis key | create if the table is empty, list, switch | several first requests at once, a crash among the inserts | all entries or none |
| Login lock-out and captcha, request log and retention, feedback, client logs, WeChat clients, routes, middleware, DTOs, Swagger | Redis counters, append-only rows, or nothing | - | - | not modelled, see section 6 |

How they meet: the business transactions call `attachUrls` and `requestDeleteUrls` and `notify`
inside themselves; the cleanup worker only ever sees the rows these leave; the API and the backup
worker share the job table; profile updates and the snapshot-taking handlers exclude each other by
locking user rows (`lockUsersForProfileSnapshot`).

`PROJECT.json` lists every component with what is modelled of it, and under `hazards` each place
in the code where one of these behaviours bites, with the properties that cover it.

## 2. Modules

```
MediaRows            the media_assets table as transactions use it (attachUrls, requestDeleteUrls)
  TaskLifecycle      the task board                    -> MCTaskLifecycle, TaskLifecycle_proofs
    TaskContract     what the board promises: atomic moves (refined by TaskLifecycle)
  MediaCleanup       upload, contents, cleanup worker  -> MCMediaCleanup, MediaCleanup_proofs
    MediaContract    the life of a picture and its object (refined by MediaCleanup)
  ContentThread      a post or item, its answers, counter and media      -> MCCommunity
  AvatarReview       one user's avatar and its reviews                   -> MCBackOffice
ForumRegistration    one post with a sign-up sheet     -> MCForumRegistration, ForumRegistration_proofs
ForumAttachments     shared forum files and the worker -> MCForumAttachments, ForumAttachments_proofs
  FileContract       the history of one file (refined by ForumAttachments)
DatabaseBackup       backup worker, job table, lease   -> DatabaseBackup_proofs
  BackupContract     the history of backups (refined by DatabaseBackup)
LikeCounter          likes and favourites         \
MemberLogin          mini-program login           |
ProfileSnapshots     copies of names, their locks | with ContentThread: MCCommunity, Community_proofs
MallOrders           orders of one item           |
MallCatalog          categories of the mall       /
AdminSession         sessions of an administrator \
SystemNotice         notices to everyone, inboxes |
ListCache            versioned and deleted keys   |
ForumFeed            first page of the forum      | with AvatarReview: MCBackOffice, BackOffice_proofs
ForumThread          replies of a post            |   (proofs: ForumThread_proofs)
EndpointConfig       settings kept in the process |
ModuleTabs           entries created on asking    /
```

An `MC...` module gives TLC its symmetry sets and functions over model values. `MCCommunity`
(`ContentThread`, `LikeCounter`, `ProfileSnapshots`, `MallOrders`, `MallCatalog`, `MemberLogin`) and
`MCBackOffice` (the other eight of the lower half) put parts that share no state into one run: a
behaviour picks one `part` in its initial state and goes through it, the others stay as they begin.
Parts that share nothing have nothing to interleave, so this is what separate runs would check.
Where parts do meet they are one module: media rows are inside `TaskLifecycle`, `ContentThread`,
`MediaCleanup` and `AvatarReview`, notifications inside `TaskLifecycle`, `MallOrders` and
`ContentThread`, user locks inside `TaskLifecycle` and `ProfileSnapshots`.

Operators whose name begins with `Slip` are deliberate mistakes: each is what a plausible bug would
make of the operator it stands beside, and replacing that operator by it must break the property
`PROJECT.json` names under `mutants`. They are used by no specification.

### TaskLifecycle

*State.* `task` is the table, one record per task; title, text, reward and place are the one bit
`ready` (do they pass `publishDraft`'s checks; of no interest, and TRUE, once published), images and
videos one set of urls; `claimed`, `proven`, `completed`, `confirmed` say that `claimedAt`,
`proofText`, `completedAt`, `confirmedAt` are set. `asset` is `media_assets`, `notes` the
notifications (recipient, task, type, version: the recipient and the dedupe key), `req` the
transactions in flight.

*Actions.* Every handler is two steps. `Begin...` takes the user lock the code asks for
(`LockedUser`), reads the row, applies the early returns (`Allowed`) and keeps what it read; the
commit action of the handler applies the conditional update (`Cas`, with the `where` clause in
`Matches`) to the *current* row and makes all other writes of the handler: media, notification.
`Fail` is every way to end without a commit. `AdminState` and `AdminDelete` write by id alone, as
the code does. `TaskContract` has no requests, versions or snapshots; `Contract` maps a row to its
phase, publisher and taker.

### ForumRegistration

`seen` is the snapshot of a transaction. `Register` decides on the snapshot and inserts into the
table as it is, since the `FOR UPDATE` comes after the plain read and its result is not used; the
insert needs the sheet (foreign key) and a new name (unique key). `KeepSheet`, `DropSheet` and the
third branch of `Edit` are the posts branch of `updateContentFields`. Time is a counter. The history
variable `apart` is true until two requests have been in flight together.

### MediaCleanup

`upload` separates the put from the registration; `content` is anything that owns media, created in
two steps (the snapshot `attachUrls` checks, and its update); `worker` is a batch with the states
*as listed*, and the row in hand. Claim, second read, store and outcome are one step each;
`Crash` may come between any two. `DeleteObjectFails` is the store's error. `MediaContract` has
neither workers nor contents: for each picture a life and whether its object is stored. `Media` maps
row, age and object to it; a picture uploaded again has the life "again", of which nothing is
promised.

### ForumAttachments

One file (one SHA-256), so one blob row; each upload creates an asset. `upload.phase` follows
`prepareForumAttachment` and `uploadForumAttachment` from the first read to reuse, put,
registration, conflict, revival or giving way; `sawDeleted` is the blob as `forumBlobRaceAction`
saw it. `SavePost` and `DeletePost` work on the relations of their snapshot (`related`) and on the
locked asset rows as they are. The worker's steps follow `deleteAsset` call by call: claim, second
read, mark, count, delete, close or unmark, outcome. `FileContract` has no keys, marks, counts or
batches: each asset waits, is shown, left over or given up, and goes, and one bit says whether the
object they share is there. `Lives` and `Stored` map rows, relations and blob to it; an asset a worker
has claimed while a post is related to it still shows, since the worker is about to find out.

### DatabaseBackup

`run[w].phase` is the next statement of process `w`; between any two phases other processes, the
administrator, time, a crash or an error may come. `lease.left` counts heartbeats; `Dead` is the
token of an attempt that no longer runs (each attempt draws a new one). A process that stalls simply
takes no step while `Elapse` runs the lease down. `window` is the schedule key. Statement errors
(`Throws`) go on where the surrounding handler goes on. `BackupContract` knows the status of each job
and the published dumps, and no processes; `History` is the map.

### ContentThread

One content, which is a post or a mall item (`kind`), with children that carry their parent. `tx`
holds a handler in flight with what it read before its first write: the pictures of the content and
the children there were; the row read outside the transaction and the transaction's snapshot are
taken in one step. Deleting a child takes the subtree along (`onDelete: Cascade`), but queues the
pictures of the child alone, as the code does. `replyCount` is what the handler wrote: an increment,
or the count on its snapshot. `apart` is as above.

### LikeCounter, MemberLogin, ProfileSnapshots

`LikeCounter`: a tap is the row, then the counter; `what` picks likes of posts, likes of replies or
favourites of replies, the last with its reset below zero. `drift` counts the taps cut off, `resets`
the resets. `MemberLogin`: `entering` is a login between its statements, with the account it has
found. `upsert` is one step. `rebound` says that an account found by a login in flight got another
openid or number; `strayed` that a login was answered with an account that is not its own.
`ProfileSnapshots`: `name` and the `copies` are versions; `work` is a transaction with the locks it
holds and the snapshot of its first plain read. `OwnColumn` and `OtherColumn` list which handler
copies whose name where; `ReadFirst` are those that read before they lock (replies and orders).

### MallOrders, MallCatalog

`MallOrders` has one item and its orders; a call is checks on a snapshot, then the write with its
notice. `MallCatalog` has one statement per step, since nothing here is in a transaction: `desk` is a
request between its check and its write; `calm` is true until a deletion of a category overlaps a use
of the same category.

### AvatarReview, AdminSession, SystemNotice

`AvatarReview`: reviews are numbered by age; `step` is what `submit` waits for, `callback` a verdict
between its first read and its transaction. `AdminSession`: `asked` is a handler between reading the
account and writing it; `token` all tokens ever signed. `SystemNotice`: the publication goes page by
page over the users ordered by id, on one snapshot, and ends with its count; `inbox` is what became
of each notice at each recipient.

### ListCache, ForumFeed, ForumThread, EndpointConfig, ModuleTabs

All five are about a copy that may be older than the rows. A reader's lookup, load and store are
separate steps, a change commits first and invalidates afterwards. `rows` and `settings` are counts
of changes, so that older is smaller. Redis may not answer in all three: a lookup of the value or a
store that fails is one way a miss or a store goes; a version that is not given counts as 0, and an
announcement that is not taken leaves the version as it is. In `ListCache` and `ForumFeed` a failure
of the last two kinds ends what is promised (`failed`, `unanswered`), and nothing is followed after
it.

`ForumThread` goes on, `MaxUnanswered` times: `lost` are the changes whose announcement failed,
until another succeeds and makes them good (`ReplyAnnouncementFails`), and whoever was given no
version (`ReplyVersionFails`) looks under 0, where a page of any age may be kept, and stores there
what he reads. `moved` says which replies a request may be shown as they were: on a hit those whose
change was not announced when it asked, all of them without a version; on a miss, which is one step
with the query, only those that change between query and answer.

`ForumFeed` has the two queries of the first page, `ForumThread` the flat list with depths
(`buildFlatReplies`), where replies are numbered by `createdAt`, which is taken to be distinct; its
history variables are `behind` (some detail showed rows it should not have had) and `muddled` (some
detail laid out the rows it had wrongly). `Walks` is the recursive walk of the code as a function of
the reply and its depth, `Roots` the replies it starts from, newest first, `Answers` those it goes
on to, oldest first. `WellLaidOut` says what a reader needs and knows nothing of the walk: every row
once, the newest thread first, the answers to one reply in the order they were given, and what a
reply answers is the last one above it that is less deep. `EndpointConfig` has the load several
requests share and the version of the key that decides who may store. `ModuleTabs` has the inserts
one by one.

## 3. Runs

| run | instance | shows |
|---|---|---|
| `task_race` | 2 users and the super administrator, 1 task, 2 requests, 4 versions, no media | `TypeOK`, `VersionIdentifiesRow`, `TakerMatchesStatus`, `EveryTransitionIsNotified`, `OnlyCompleteDraftsPublished`, `ImplementsContract` |
| `task_media` | the same with one picture, 2 versions | `DeletedTaskQueuesItsMedia` |
| `registration_race` | 2 users, 2 requests, capacity up to 2, 2 instants | `TypeOK`, `SheetIsThere`, `CapacityKeptApart`, `PlacesAndDeadlineKept` |
| `media_cleanup` | 2 pictures, two uploads each, 1 content, 1 worker, batch of 1, 1 fault; fairness | `StoreMatchesRows`, `ImplementsMediaContract`, `QueuedIsDeleted` |
| `forum_files` | 2 uploads, 2 requests (2 in flight), 2 assets, 2 keys, 1 worker, 1 fault | `UsableIsStored` |
| `forum_orphans` | 1 upload, 2 requests, 1 worker, 1 fault; fairness | `OrphanIsCleaned`, `ImplementsFileContract` |
| `database_backup` | 2 processes, 1 window, 2 jobs, lease of 1 heartbeat, 1 fault; fairness | `TypeOK`, `SuccessIsPublished`, `ImplementsBackupContract`, `EveryJobEnds` |
| `community` | six parts, 2 requests each (3 taps): 1 content with 2 answers, 2 pictures; 2 fans, 2 taps cut off, 2 resets; 2 people, 1 change of a name each, 2 copies; 2 buyers, 2 keys, 2 orders; 3 categories, 2 of them defaults; 2 openids, 2 numbers, 2 accounts | `TypeOK`, `ThreadAgrees`, `CountsAgree`, `OneOrderPerRequest`, `LockedCopiesAgree`, `NoLockCycle`, `CategoryIsKept`, `LoginMeetsItsAccount`, `OrdersEndOnceAndAreTold` |
| `back_office` | eight parts, 2 requests each (3 loads): 2 reviews; 4 session versions; 3 members in pages of 2, 1 notice sent with 2 payloads; 2 changes of a list; 3 settings; 1 post, 1 announcement; 3 replies, 1 announcement, 1 failure of Redis; 3 entries | `TypeOK`, `AvatarIsKept`, `OneSession`, `NoticeReachesEveryone`, `CachesAreFresh`, `RepliesAreLaidOut`, `SettingsAreFresh`, `TabsAreWhole`, `AvatarMovesForward`, `SessionsEndForGood` |
| `task_proof_orphan` | 1 request at a time | violates `ProofsAreQueuedOnDelete` |
| `registration_overbooked` | 2 overlapping registrations | violates `CapacityKept` |
| `media_lost_object` | one picture uploaded twice | violates `AttachedIsStored` |

Some properties are conjunctions that belong together: `SheetIsThere` of `NoOrphanEntries` and
`ActivityHasSheet`, `StoreMatchesRows` (in use, hence stored; recorded as deleted, hence gone),
`ThreadAgrees` of `RepliesAgree` and `PicturesFollowRows`, `CachesAreFresh` of `ServedIsFresh`,
`FeedIsWhole` and `RepliesAreCurrent`; `QueuedIsDeleted` also says that an expired upload does not
stay.

*Bounds.* A conflict on a row needs two requests and one row: a third request can only repeat what
one of the two does, since everything a request knows is the row it read; the theorems of section 5
say the same of the parts they cover for any number. Four versions are enough for a claim, a
submission, a rejection and a withdrawal, so for every reset of the taker's and the proof's columns,
and for a read, a foreign write, and a write back to the same status (the ABA a version number
exists for); the media run needs the latter only. No request begins on a row that has reached
`MaxVersion`. Two places and two users give the last place; two instants lie before and at a
deadline. In the file model two assets are the least for a shared object and two keys the least for
a revival. One fault puts one crash or one failure at every point of every behaviour. A lease of one
heartbeat is lost by the shortest stall. Two answers are the least for an answer below another; two
people the least for a cycle of locks; three taps put a like, its removal and a repetition in flight
together; three categories are two defaults, created one by one, and one of the administrator's;
three loads are one before a change, one after it and one that joins; three members in pages of two
make two pages; three replies make a branch and a chain; three entries give an insert before, at and
after a switch. One announcement and one failure of Redis put a reader on a page that is kept under
version 0 after the version has moved on, and an announcement that succeeds after one that failed.

Larger instances passed alone while the models were written: `ContentThread` with two users (2.9
million states), `MemberLogin` with three openids and accounts (0.7 million), `ForumThread` with
three replies and two failures of Redis (2.0 million) or two announcements (6.7 million), and
`ImplementsFileContract` with two uploads that share a blob, two assets and one fault (2.8 million
states), which takes too long beside the other runs; `forum_orphans` has one asset, and the theorem
`Refinement` any number. `ForumFeed` with two announcements has about ten million states, too many
for one run beside the others. Every bound is a constant whose name begins with `Max`, or
`BatchSize`, `PageSize`, `LastTab`, or a finite set of requests. Deadlock is not checked, because
every model comes to rest at its bounds and the server may always be idle. Symmetry is used only in
runs without liveness, over users, requests, uploads, posts and workers that nothing tells apart.

*Limits chosen on purpose.* The runs have one cleanup worker, because the code guards only within
a process (`running` in `media-cleanup.worker.ts:38`) and the deployment starts one. `media_cleanup`
has second uploads of a picture, but its properties end for that picture with the second upload:
after it they are lost (`media_lost_object`).

*Properties with a condition.* Where the code gives a guarantee only as long as certain requests do
not overlap, the property says so with a history variable, and the behaviour after it ends is in the
model all the same: `CapacityKeptApart`, `PlacesAndDeadlineKept` and parts of `ThreadAgrees`
(`apart`), `CategoryIsKept` (`calm`), `SessionsEndForGood` (`alone`), `LoginMeetsItsAccount`
(`rebound`), `CountsAgree` (`resets`), `CachesAreFresh` (`crossed`, `failed`, `unanswered`; for
replies `lost`, and the request that was given no version), `TabsAreWhole` (`cutShort`, `halfway`),
`StoreMatchesRows`, `ImplementsMediaContract` and `QueuedIsDeleted` (`UploadedOnce`), `AvatarIsKept`
(a picture sent to review once). None of them holds without its condition, which is how the
conditions were found.

*Fairness.* `MediaCleanup!Fairness`, `ForumAttachments!FairSpec`: the interval timer wakes the
worker for ever and a batch is a plain loop, hence weak fairness of the worker's steps; strong
fairness of `DeleteObject` says that the store does not refuse one object for ever, which nothing
in the code can ensure, and without which the queue may starve behind a broken row.
`DatabaseBackup!FairSpec`: the 30 s interval, a dump that ends, and time that passes. No fairness
is assumed of requests, administrators, uploads or heartbeats; crashes and errors are bounded by
`MaxFaults` and never fair.

## 4. What the checks show

The version column does its work: with any interleaving of two transactions the task board behaves
as if each handler were atomic (`ImplementsContract`), and the administrator's edit, which keeps the
status, cannot slip under a publication. A worker's claim, second read and conditional outcome keep
media in use alive and get rid of the rest through crashes. The blob's mark, its object key in every
condition and the count of references keep a shared file alive through revivals, and uploads, edits
and the worker together leave each asset a single way through its life (`ImplementsFileContract`).
Backup jobs end and are never resurrected, even with processes that stall past their lease.

Unique keys carry what transactions do not: one order per request id, one account per openid and
number, one set of entries. Sorted locks exclude a cycle; copies made after the lock agree with the
user, those of replies and orders, made on an older snapshot, need not. Avatars only move forward,
although verdicts are decided on a status read before. Sessions are those of the last login. The
versioned keys of lists keep slow readers harmless, the deleted keys of details do not.

Three statements of the repository's own documents and comments are not met by the code, each found
while its part was modelled:

1. **Proof pictures of an abandoned task stay attached for ever** (`task_proof_orphan`).
   `abandonTask` (`task.service.ts:616-667`) empties `proofImages` without queueing them;
   `2026-08-10-media-lifecycle-design.md:47` has them enter the queue when the task is deleted.
   Shortest way: claim, submit, reject, abandon, revoke, delete.
2. **A sign-up sheet can be overbooked** (`registration_overbooked`). The plain `findFirst` at
   `forum-registration.service.ts:11` fixes the snapshot before the `FOR UPDATE` at line 14, so the
   count at line 18 does not see the entry committed by the request it waited for; the comment at
   line 13 and `2026-08-19-forum-functional-posts-design.md:78` promise the opposite.
3. **A published picture can lose its object** (`media_lost_object`). The upsert at
   `media-asset.service.ts:144-157` takes a row from DELETING back to PENDING while the worker is
   past its second read; `2026-08-10-media-lifecycle-design.md:76` says an attached asset is not
   cleaned up.

Other things the models contain, which no document speaks of, are noted with their hazards in
`PROJECT.json`: an instant upload may carry the url of a blob's former object
(`upload.service.ts:252`), a picture sent to review twice may be queued while it is in use, a crash
among the inserts of the entries leaves them incomplete for good, a detail may stay stale until it
expires, an openid that already has an account cannot take another one along.

## 5. What is proved

### The task board

`TaskLifecycle_proofs` proves, for every number of users, tasks, requests,
urls and every `MaxVersion`, from `ConstantsAssumption` (the ids that mean "nobody", "the super
administrator" and "a new task" are not users or tasks, and every url has an owner), all that
`task_race` and `task_media` check:

| theorem | statement |
|---|---|
| `TypeCorrect` | `Spec => []TypeOK` |
| `VersionsIdentifyRows` | `Spec => []VersionIdentifiesRow` |
| `TakersMatchStatuses` | `Spec => []TakerMatchesStatus` |
| `DraftsArePublishedComplete` | `Spec => OnlyCompleteDraftsPublished` |
| `DeletedTasksQueueTheirMedia` | `Spec => DeletedTaskQueuesItsMedia` |
| `TransitionsAreNotified` | `Spec => EveryTransitionIsNotified` |
| `Refinement` | `Spec => ImplementsContract` |

*The invariant.* `TakerMatchesStatus` is not inductive by itself: a commit writes columns of the
current row on the strength of checks made on the row as read. The inductive invariant `IInv` adds
what closes this gap: `RequestsOK` (a request in flight satisfied its handler's checks on the row it
holds) and `VersionIdentifiesRow` (if the versions agree, the row it holds is the row there is,
apart from visibility and deletion). `CasFacts` then carries the checks over to the current row,
`WriteOK` shows that a write which bumps the version, or leaves the columns the version guards
alone, keeps every other request's knowledge true, and `CasOK` puts the two together.
`CommitPreserves` has one step per operation; `BeginPreserves`, `FailPreserves`, `InitOK` and
`NextOK` are the rest, and `Invariance` is their conclusion.

*The steps.* `CommitEffect` says once, with one step per operation, what each commit does to the row
it finds and to the notifications (`Effect`); it rests on `IInv` alone. The action properties and the
refinement are read off that list. For the notifications one more invariant is needed, `NotesAge`:
no notification is about a version its task has not reached, so the key written by a step is new and
the upsert on it inserts. For the refinement, `EffectIsMove` takes each effect to an action of
`TaskContract`, or to a stutter where the neighbours see no difference.

### Sign-up sheets

`ForumRegistration_proofs` proves, for every set of users and requests, from `BoundsAssumption`
and `NoneAssumption` (the absence of a sheet is not a sheet):

| theorem | statement |
|---|---|
| `TypeCorrect` | `Spec => []TypeOK` |
| `SheetsAreThere` | `Spec => []SheetIsThere` |
| `SerialCapacity` | `Spec => []CapacityKeptApart` |
| `SerialPlaces` | `Spec => PlacesAndDeadlineKept` |

The first two hold for any number of overlapping requests and are inductive together. The last two
are what the sheet keeps until two requests overlap; `registration_overbooked` shows that the
condition cannot be dropped. Their invariant adds `SeenIsCurrent`: the snapshot a request decides on
has the sheet it finds, and at least its entries, since a cancellation, which takes no part in the
turn-taking, only removes some. `OpenSheet` then gives a registration its place, and `EditCapacity`
covers the entries an edit did not count.

### Media and the cleanup worker

`MediaCleanup_proofs` proves, for any number of pictures, contents, uploads, faults and *workers*,
from `MediaAssumption`:

| theorem | statement |
|---|---|
| `TypeCorrect` | `Spec => []TypeOK` |
| `StoreMatches` | `Spec => []StoreMatchesRows` |
| `Refinement` | `Spec => ImplementsMediaContract` |

The invariant adds where a worker is: a row in hand has left the states a content can use, and for a
picture uploaded once there is no way back to them (`RowOK`), since only an upload takes a row from
DELETING back to PENDING. The refinement needs three facts more (`LifeInv`): rows a content has
looked at are there, those of a live content do not wait any longer, and what a worker has listed as
unused is stale. With them `ContractStep` takes each operation to one action of the contract:
claiming is `Expire` or `Take`, a deletion releases all its pictures at once, a repeated deletion
of the object is a stutter.

### Forum files

`ForumAttachments_proofs` proves, for any number of posts, uploads, requests, assets, keys and faults,
from `AttachmentAssumption` and under the hypothesis `OneWorker` (what the code guards against with
`running`, and the deployment starts once):

| theorem | statement |
|---|---|
| `TypeCorrect` | `Spec => []TypeOK` |
| `UsableStays` | `Spec => []UsableIsStored` |
| `Refinement` | `Spec => ImplementsFileContract` |

The invariant has three parts. A key belongs to one upload until the blob takes it over, so an upload
that fails never removes the blob's object (`KeysOK`). An asset belongs to one post for ever, so no
edit condemns what another post shows (`RelatedIsAttached`, `SeenIsOfPost`). From the mark to the
removal the worker's asset is the only reference, as long as the blob's object is the one that was
marked: the mark keeps out reuse, and a revival changes the object (`MarkOK`, `GoneIsMarked`).

The refinement needs one fact more, `ListedIsOld`: what a worker has listed as PENDING is as old as it
was then, since no step makes a row young again (`AgedStays`); so a claim takes up what is stale and
never what was just uploaded. `UploadStep`, `RequestStep`, `WorkerStep` and `AgeStep` take each
operation to one action or to a stutter. An edit or a deletion is one `Show`, in which the overlap of
two snapshots decides what is given up and what is left over; removing the object, and closing the
blob after it, is `Remove`, because `MarkOK` leaves the asset in hand as the only reference; and a
claimed asset that turns out to be related was shown all along.

### Backups

`DatabaseBackup_proofs` proves, for any number of processes, jobs, windows, faults and every length
of the lease, from `BackupAssumption`, `TypeCorrect` (with one active job at most),
`SuccessesArePublished` and `Refinement`, `Spec => ImplementsBackupContract`. None of the proofs
uses the lease: what the job table promises rests on the unique keys, on the condition of the claim,
and on a process that records a success having replaced the file. The refinement adds `JobIsOwn`: a
job is worked on by one process, and while it is, nobody has called it a success. So a process that
wakes up after its job was declared interrupted may still turn it into a success, and no process can
take a success back. The lease only keeps two dumps from running at the same time, and it is what
`EveryJobEnds` needs.

### The community

`Community_proofs` has one section per part of `MCCommunity`, from `ThreadAssumption`,
`FansAssumption`, `LoginAssumption`, `PeopleAssumption`, `OrdersAssumption` and `CatalogAssumption`:

| theorem | statement | what carries it |
|---|---|---|
| `ThreadsAgree` | `ThreadSpec => []ThreadAgrees` | while `apart`: what a handler has in hand is what it would read now, and a picture shows in one place; rows only hang from rows written before them |
| `LoginsMeetTheirAccounts` | `MemberSpec => []LoginMeetsItsAccount` | unless `rebound`, the account a login has found is still what it was found as |
| `CountersAgree` | `LikesSpec => []CountsAgree` | inductive by itself; a tap that moves leaves one counted set and enters another, one cut off only leaves |
| `LocksDoNotCross` | `ProfileSpec => []NoLockCycle` | what a transaction holds is smaller than what it still wants, ids being numbers |
| `CopiesAgree` | `ProfileSpec => []LockedCopiesAgree` | a snapshot taken under the lock shows today's name as long as the lock is held |
| `RequestsHaveOneOrder` | `OrdersSpec => []OneOrderPerRequest` | answers point at orders of their key and terms, the key is unique, orders are numbered in turn |
| `OrdersEndOnce` | `OrdersSpec => OrdersEndOnceAndAreTold` | notices are about orders there are, and none about a pending order says it has moved |
| `CategoriesAreKept` | `CatalogSpec => []CategoryIsKept` | while `calm`: what a desk was told still holds, and no category is in hand for use and for deletion |
| `TypesAreKept` | `Spec => []TypeOK`, of the whole run | `PartsRun`: a behaviour of the run is one of the part it picked |

### Behind the community

`BackOffice_proofs` does the same for `MCBackOffice`, from `SessionAssumption`, `SettingsAssumption`,
`LoadAssumption`, `NoticeAssumption`, `CacheAssumption`, `ReviewsAssumption`, `TabsAssumption`,
`FeedAssumption` and `DetailAssumption`, and takes the replies from `ForumThread_proofs`, which has
them by themselves:

| theorem | statement | what carries it |
|---|---|---|
| `SessionIsOne` | `SessionSpec => []OneSession` | no token has a later version than the account, and those of the present one come from the last login |
| `EndedSessionsStayEnded` | `SessionSpec => SessionsEndForGood` | while `alone`, what a request has read of `enabled` is what it will find, and the version only grows |
| `FreshSettings` | `ConfigSpec => []SettingsAreFresh` | a load under the present version of the key has read at least what the process was told |
| `NoticesReachEveryone` | `NoticeSpec => []NoticeReachesEveryone` | up to its page a publication has delivered, its cursor being the smallest id not yet reached; after it, everything |
| `AvatarStays`, `AvatarAdvances` | `ReviewSpec => []AvatarIsKept`, `ReviewSpec => AvatarMovesForward` | reviews are numbered in turn, a verdict under way is on a review there is, and the picture of a review that waits or won is not given up as long as it was sent once |
| `TabsComplete` | `TabsSpec => []TabsAreWhole` | the rows are those up to one number; unless a crash or a reader came `halfway`, all or none |
| `ServedFresh`, `FeedWhole`, `RepliesCurrent` | the three parts of `CachesAreFresh` | whoever is to store what was read holds nothing that a change, since announced, has made wrong: versions for lists, sets of moved replies for a detail. What is read under version 0 by mistake is newer than what anybody else there was to be shown |
| `RepliesInTheirPlaces` | `DetailSpec => []RepliesAreLaidOut` | each row was written after what it answers, so the walk ends and reaches everything |
| `CachesStayFresh`, `LayoutIsKept`, `TypesAreKept` | `Spec => []CachesAreFresh`, `Spec => []RepliesAreLaidOut`, `Spec => []TypeOK`, of the whole run | `PartsRun` |

*The layout of replies.* `buildFlatReplies` is recursive, and no prover here can instantiate a theorem
of induction with a predicate. `NumbersUpward` is the induction used instead, about sets: a set with 0
and with the next number of each of its own holds all numbers, which follows from the least element of
a set (`WFMin`). `Forest` says of a sequence that it shows the threads of certain heads one after the
other, with depths from which each reply's parent can be read. A thread put behind such a sequence
makes another (`ForestJoin`), so threads one after the other do (`ForestFlatten`); a reply put in front
of the threads of its answers does too (`ForestGrow`). The walk only goes on to younger replies, so
counting down from the youngest shows that it is what its equation says (`WalksAre`) and that it lays
out the thread of the reply it starts from (`WalkIsForest`). Nothing hangs from two answers to one
reply (`SiblingsApart`), and everything hangs from some reply to the post (`RootsHoldAll`), so each row
comes exactly once (`LaidOutWell`). `Older` sorts, by the number of older ones (`Ranks`, `OlderIs`).
`LayoutInv` is what the handlers add: all rows that are there, kept or in hand have a parent that was
written before them.

The proofs are laid out alike: the types, the parts of the invariant one by one, one step per
operation of the source, and the theorem from `PTL`.

*Only model-checked.* Every invariant, action property and refinement the passing runs check is
stated by a theorem. `QueuedIsDeleted`, `OrphanIsCleaned` and `EveryJobEnds` rest on fairness, and
liveness and `ENABLED` stay with TLC. The three runs that end in a violation are counterexamples,
which need no proof.

## 6. Not modelled

Wording, formatting, serialisation, logging, pagination, search, and validation of single requests;
the contents of media and files (their digests are identities); the routes and the middleware;
external services except where their failure or their lateness is an action (object store,
`mysqldump`, Redis, WeChat's verdicts). In the modelled parts: a process dying between the put of an
object and its registration (a leak that no row can see); the counters of views and shares, reactions
and the favourites of posts and items; the author an administrator may put on a post; the fields of
an item that decide nothing; readers' own marks on a page.

Components left out, with their reasons: login lock-out and captcha (single atomic commands on Redis
keys that expire); the request log, its retention and its redaction, feedback and client logs (single
inserts, deletion by age); the listings of administrators and of the database (they change nothing);
WeChat's clients (calls and a token in memory); routes, DTOs and the OpenAPI document.
`invalidateAll` of the endpoint registry has no callers and is left out too.

## 7. Plan

Done, in this order: the task board with its contract and its proof; sign-up sheets; media and
cleanup; forum files; database backup; contents with their answers; likes, names, orders, categories
and logins; avatars, sessions, notices, the caches and the settings; the proofs of section 5, last
the contracts of media, of backups and of files, and the layout of replies.

What would come next:

1. Contracts of what is still stated property by property: an order and a notice as single atomic
   moves.
2. `UsableIsStored` without `OneWorker`, once the documents say how many workers may run, and two
   contents that share a picture, once they say what is meant to hold.

## 8. Running it

```
tlc -workers 2 -config task_race.cfg MCTaskLifecycle     # likewise the others; see "runs" in PROJECT.json
tlapm TaskLifecycle_proofs.tla     # likewise the other modules named *_proofs
```

`media_cleanup`, `forum_files`, `database_backup`, `community` and `back_office` take two to three
minutes, the other runs less. From nothing `TaskLifecycle_proofs` takes about six minutes,
`BackOffice_proofs` five, the others two or less.
