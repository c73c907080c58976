-------------------------- MODULE ForumAttachments --------------------------
(***************************************************************************)
(* Files attached to forum posts.  All uploads of the same bytes share one *)
(* stored object (the blob, unique by SHA-256); every upload has a media   *)
(* asset of its own that refers to the blob, and a post is related to      *)
(* assets.  The model follows the uploads of one file by one administrator.*)
(*                                                                         *)
(*   uploads   UploadService: reuse the blob, or store a new object and    *)
(*             register, revive or give way to the blob                    *)
(*   requests  transactions that save or delete a post; they check what    *)
(*             their snapshot shows and write the rows as they are         *)
(*   workers   MediaAssetService.deleteAsset, one database or store call   *)
(*             at a time                                                   *)
(***************************************************************************)
EXTENDS Naturals, FiniteSets

CONSTANTS Posts, NoPost,
          Uploads, Requests, Workers,   \* what may be in flight together
          MaxInFlight,                  \* bound: uploads and requests together
          MaxAssets, MaxKeys,           \* bounds: rows created, objects stored
          MaxFaults                     \* bound: failures and crashes

ASSUME AttachmentAssumption ==
    /\ NoPost \notin Posts
    /\ MaxInFlight \in Nat
    /\ MaxAssets \in Nat /\ MaxKeys \in Nat /\ MaxFaults \in Nat

VARIABLES blob,      \* the forum_attachment_blobs row (key 0: none yet)
          asset,     \* the media_assets rows, numbered as they are created
          relation,  \* forum_post_attachments: the post an asset belongs to
          post,      \* the posts
          object,    \* the object of a key is in the store
          keys,      \* how many object keys were used
          upload, req, worker, faults

vars == <<blob, asset, relation, post, object, keys, upload, req, worker, faults>>
tables == <<blob, asset, relation, post>>

Assets == 1..MaxAssets
Keys   == 1..MaxKeys
AnyKey == 0..MaxKeys

State == {"ABSENT", "PENDING", "ATTACHED", "DELETE_PENDING", "DELETING", "DELETED",
          "DELETE_FAILED"}
Queue == {"DELETE_PENDING", "DELETE_FAILED", "DELETING"}

Upload == [phase: {"idle", "reuse", "put", "register", "conflict", "revive", "winner"},
           mode: {"prepare", "upload", "late"}, url: AnyKey, key: AnyKey,
           sawDeleted: BOOLEAN]

Idle   == [op |-> "idle"]
Resting == [phase |-> "idle", mode |-> "prepare", url |-> 0, key |-> 0, sawDeleted |-> FALSE]
Asleep == [batch |-> [a \in {} |-> "ABSENT"], at |-> 0, phase |-> "list", key |-> 0]

\* `new` and `related` are what the snapshot of the transaction shows of the post:
\* whether it is still to be created, and the assets related to it.
Request == {Idle} \cup
           [op: {"save", "delete"}, post: Posts, target: SUBSET Assets,
            new: BOOLEAN, related: SUBSET Assets]

\* `batch` holds the rows listed and not yet handled, with their listed states.
Worker == [batch: UNION {[S -> State] : S \in SUBSET Assets}, at: 0..MaxAssets,
           phase: {"list", "claimed", "related", "fresh", "marked", "last", "shared",
                   "removed", "done", "failed"},
           key: AnyKey]

TypeOK ==
    /\ blob \in [key: AnyKey, requested: BOOLEAN, deleted: BOOLEAN]
    /\ asset \in [Assets -> [state: State, url: AnyKey, old: BOOLEAN]]
    /\ relation \in [Assets -> Posts \cup {NoPost}]
    /\ post \in [Posts -> {"NEW", "LIVE", "DELETED"}]
    /\ object \in [Keys -> BOOLEAN]
    /\ keys \in AnyKey
    /\ upload \in [Uploads -> Upload]
    /\ req \in [Requests -> Request]
    /\ worker \in [Workers -> Worker]
    /\ faults \in 0..MaxFaults

Init ==
    /\ blob = [key |-> 0, requested |-> FALSE, deleted |-> FALSE]
    /\ asset = [a \in Assets |-> [state |-> "ABSENT", url |-> 0, old |-> FALSE]]
    /\ relation = [a \in Assets |-> NoPost]
    /\ post = [p \in Posts |-> "NEW"]
    /\ object = [k \in Keys |-> FALSE]
    /\ keys = 0
    /\ upload = [i \in Uploads |-> Resting]
    /\ req = [r \in Requests |-> Idle]
    /\ worker = [w \in Workers |-> Asleep]
    /\ faults = 0

\* Room for one more upload or request.
Free == Cardinality({i \in Uploads : upload[i] # Resting})
          + Cardinality({r \in Requests : req[r] # Idle}) < MaxInFlight

Fault == faults < MaxFaults /\ faults' = faults + 1

----------------------------------------------------------------------------
(* Uploads. *)

Available == blob.key # 0 /\ ~blob.deleted /\ ~blob.requested

Created == Cardinality({a \in Assets : asset[a].state # "ABSENT"})

CreateAsset(url) ==
    /\ Created < MaxAssets
    /\ asset' = [asset EXCEPT ![Created + 1] = [state |-> "PENDING", url |-> url, old |-> FALSE]]

Turn(i, phase) == upload' = [upload EXCEPT ![i].phase = phase]
Done(i) == upload' = [upload EXCEPT ![i] = Resting]

\* The first read of prepareForumAttachment; the answer is "no" without a blob.
PrepareForumAttachment(i) ==
    /\ upload[i] = Resting /\ Free
    /\ Available
    /\ upload' = [upload EXCEPT ![i] = [Resting EXCEPT !.phase = "reuse", !.url = blob.key]]
    /\ UNCHANGED <<tables, object, keys, req, worker, faults>>

\* The first read of uploadForumAttachment.
UploadForumAttachment(i) ==
    /\ upload[i] = Resting /\ Free
    /\ upload' = [upload EXCEPT ![i] =
           IF Available
           THEN [Resting EXCEPT !.phase = "reuse", !.mode = "upload", !.url = blob.key]
           ELSE [Resting EXCEPT !.phase = "put", !.mode = "upload"]]
    /\ UNCHANGED <<tables, object, keys, req, worker, faults>>

\* createForumAttachmentAsset: the blob is taken only while it is available, the
\* url is the one its caller has read.
Reuse(i) ==
    /\ upload[i].phase = "reuse"
    /\ IF Available
       THEN CreateAsset(upload[i].url) /\ Done(i)
       ELSE /\ IF upload[i].mode = "upload"
               THEN upload' = [upload EXCEPT ![i].phase = "put", ![i].url = 0]
               ELSE Done(i)
            /\ UNCHANGED asset
    /\ UNCHANGED <<blob, relation, post, object, keys, req, worker, faults>>

Put(i) ==
    /\ upload[i].phase = "put"
    /\ keys < MaxKeys
    /\ keys' = keys + 1
    /\ object' = [object EXCEPT ![keys + 1] = TRUE]
    /\ upload' = [upload EXCEPT ![i].phase = "register", ![i].key = keys + 1]
    /\ UNCHANGED <<tables, req, worker, faults>>

\* The store refuses the object: the upload ends with an error.
PutFails(i) ==
    /\ upload[i].phase = "put"
    /\ Done(i)
    /\ UNCHANGED <<tables, object, keys, req, worker, faults>>

\* The transaction that creates blob and asset together.
Register(i) ==
    /\ upload[i].phase = "register"
    /\ IF blob.key = 0
       THEN /\ blob' = [blob EXCEPT !.key = upload[i].key]
            /\ CreateAsset(upload[i].key)
            /\ Done(i)
       ELSE Turn(i, "conflict") /\ UNCHANGED <<blob, asset>>
    /\ UNCHANGED <<relation, post, object, keys, req, worker, faults>>

\* Any other error: the object just stored is taken back.
RegisterFails(i) ==
    /\ upload[i].phase = "register"
    /\ Fault
    /\ object' = [object EXCEPT ![upload[i].key] = FALSE]
    /\ Done(i)
    /\ UNCHANGED <<tables, keys, req, worker>>

\* forumBlobRaceAction, on the blob as read after the conflict.
RaceAction(i) ==
    /\ upload[i].phase = "conflict"
    /\ upload' = [upload EXCEPT ![i].sawDeleted = blob.deleted,
                                ![i].phase = IF Available THEN "winner" ELSE "revive"]
    /\ UNCHANGED <<tables, object, keys, req, worker, faults>>

\* The condition of the update that takes a condemned blob over.
Revivable(i) ==
    IF upload[i].sawDeleted THEN blob.deleted ELSE ~blob.deleted /\ blob.requested

Revive(i) ==
    /\ upload[i].phase = "revive"
    /\ IF Revivable(i)
       THEN /\ blob' = [key |-> upload[i].key, requested |-> FALSE, deleted |-> FALSE]
            /\ CreateAsset(upload[i].key)
            /\ Done(i)
       ELSE Turn(i, "winner") /\ UNCHANGED <<blob, asset>>
    /\ UNCHANGED <<relation, post, object, keys, req, worker, faults>>

ReviveFails(i) ==
    /\ upload[i].phase = "revive"
    /\ Fault
    /\ Turn(i, "winner")
    /\ UNCHANGED <<tables, object, keys, req, worker>>

\* Somebody else's object serves; the one just stored is taken back.
GiveWay(i) ==
    /\ upload[i].phase = "winner"
    /\ object' = [object EXCEPT ![upload[i].key] = FALSE]
    /\ IF Available
       THEN upload' = [upload EXCEPT ![i] = [Resting EXCEPT !.phase = "reuse", !.mode = "late",
                                                            !.url = blob.key]]
       ELSE Done(i)
    /\ UNCHANGED <<tables, keys, req, worker, faults>>

----------------------------------------------------------------------------
(* Posts. *)

Related(p) == {a \in Assets : relation[a] = p}
StateOf == [a \in Assets |-> asset[a].state]

Begin(r, op, p, target) ==
    /\ req[r] = Idle /\ Free
    /\ post[p] # "DELETED"
    /\ req' = [req EXCEPT ![r] = [op |-> op, post |-> p, target |-> target,
                 new |-> post[p] = "NEW", related |-> Related(p)]]
    /\ UNCHANGED <<tables, object, keys, upload, worker, faults>>

\* assertForumAttachmentsAvailable; its plain reads see the snapshot.
AttachmentsAvailable(p, target) ==
    \A a \in target : \/ StateOf[a] = "PENDING"
                      \/ StateOf[a] = "ATTACHED" /\ a \in Related(p)

BeginSave(r, p) ==
    \E target \in SUBSET Assets :
        AttachmentsAvailable(p, target) /\ Begin(r, "save", p, target)

BeginDelete(r, p) == post[p] = "LIVE" /\ Begin(r, "delete", p, {})

\* The row locks and the checks made on the locked rows; the relations are still
\* those of the snapshot, except for the unique index.
RowsUnchanged(q) ==
    /\ \A a \in q.related \cup q.target : StateOf[a] \in {"PENDING", "ATTACHED"}
    /\ \A a \in q.target : StateOf[a] = "PENDING" \/ a \in q.related
    /\ \A a \in q.related \ q.target : StateOf[a] = "ATTACHED"
    /\ \A a \in q.target : relation[a] \in {NoPost, q.post}

Condemn(S) ==
    [a \in Assets |-> IF a \in S THEN [asset[a] EXCEPT !.state = "DELETE_PENDING"] ELSE asset[a]]

\* createPost, updatePost and the administrator's edit with replaceForumPostAttachments.
SavePost(r) ==
    LET q == req[r]
        removed == q.related \ q.target
    IN  /\ q.op = "save"
        /\ q.new => post[q.post] = "NEW"
        /\ RowsUnchanged(q)
        /\ post' = [post EXCEPT ![q.post] = IF q.new THEN "LIVE" ELSE @]
        /\ relation' = [a \in Assets |-> IF a \in q.target THEN q.post
                                         ELSE IF relation[a] = q.post THEN NoPost ELSE relation[a]]
        /\ asset' = [a \in Assets |->
                       IF a \in q.target THEN [asset[a] EXCEPT !.state = "ATTACHED"]
                       ELSE Condemn(removed)[a]]
        /\ req' = [req EXCEPT ![r] = Idle]
        /\ UNCHANGED <<blob, object, keys, upload, worker, faults>>

SlipDeletable == Assets

Deletable == {a \in Assets : StateOf[a] \in {"PENDING", "ATTACHED", "DELETE_FAILED"}}

\* deletePost: every relation of the post goes; the assets seen are queued, unless they
\* already are.
DeletePost(r) ==
    LET q == req[r] IN
    /\ q.op = "delete"
    /\ post' = [post EXCEPT ![q.post] = "DELETED"]
    /\ relation' = [a \in Assets |-> IF relation[a] = q.post THEN NoPost ELSE relation[a]]
    /\ asset' = Condemn(q.related \cap Deletable)
    /\ req' = [req EXCEPT ![r] = Idle]
    /\ UNCHANGED <<blob, object, keys, upload, worker, faults>>

Fail(r) ==
    /\ req[r] # Idle
    /\ req' = [req EXCEPT ![r] = Idle]
    /\ UNCHANGED <<tables, object, keys, upload, worker, faults>>

----------------------------------------------------------------------------
(* The worker: deleteAsset on a forum file. *)

\* createdAt is 24 hours back.
Age(a) ==
    /\ asset[a].state = "PENDING" /\ ~asset[a].old
    /\ asset' = [asset EXCEPT ![a].old = TRUE]
    /\ UNCHANGED <<blob, relation, post, object, keys, upload, req, worker, faults>>

\* Slips the properties must notice are written beside the operator they belong
\* to, under names that start with Slip.
SlipCleanupWhere ==
    {a \in Assets : StateOf[a] \in Queue \/ (StateOf[a] = "PENDING" /\ asset[a].old)}

mediaCleanupWhere ==
    {a \in Assets : \/ StateOf[a] \in Queue
                    \/ StateOf[a] = "PENDING" /\ asset[a].old
                    \/ StateOf[a] = "ATTACHED" /\ relation[a] = NoPost}

Advance(w, phase) == worker' = [worker EXCEPT ![w].phase = phase]

\* The row in hand is done with.
Drop(w, a) ==
    worker' = [worker EXCEPT ![w] =
        [batch |-> [b \in DOMAIN @.batch \ {a} |-> @.batch[b]], at |-> 0, phase |-> "list",
         key |-> 0]]

ListBatch(w) ==
    /\ worker[w] = Asleep
    /\ mediaCleanupWhere # {}
    /\ worker' = [worker EXCEPT ![w].batch = [a \in mediaCleanupWhere |-> StateOf[a]]]
    /\ UNCHANGED <<tables, object, keys, upload, req, faults>>

\* Oldest first; the claim asks for the state that was listed.
Claim(w, a) ==
    /\ worker[w].at = 0 /\ a \in DOMAIN worker[w].batch
    /\ \A b \in DOMAIN worker[w].batch : a <= b
    /\ LET listed == worker[w].batch[a] IN
       IF IF listed \in Queue THEN StateOf[a] \in Queue ELSE StateOf[a] = listed
       THEN /\ asset' = [asset EXCEPT ![a].state = "DELETING"]
            /\ worker' = [worker EXCEPT ![w].at = a, ![w].phase = "claimed"]
       ELSE Drop(w, a) /\ UNCHANGED asset
    /\ UNCHANGED <<blob, relation, post, object, keys, upload, req, faults>>

\* The second read: the row's state, its relation and the blob's key.
Reread(w) ==
    LET a == worker[w].at IN
    /\ worker[w].phase = "claimed"
    /\ IF StateOf[a] # "DELETING" THEN Drop(w, a)
       ELSE IF relation[a] # NoPost THEN Advance(w, "related")
       ELSE worker' = [worker EXCEPT ![w].phase = "fresh", ![w].key = blob.key]
    /\ UNCHANGED <<tables, object, keys, upload, req, faults>>

\* A conditional update of the row in hand: it still has to be DELETING.
Settle(w, state) ==
    LET a == worker[w].at IN
    /\ asset' = [asset EXCEPT ![a].state = IF @ = "DELETING" THEN state ELSE @]
    /\ Drop(w, a)

\* A relation that was committed after the list was read: the row goes back.
Restore(w) ==
    /\ worker[w].phase = "related"
    /\ Settle(w, "ATTACHED")
    /\ UNCHANGED <<blob, relation, post, object, keys, upload, req, faults>>

SameObject(w) == blob.key = worker[w].key /\ ~blob.deleted

MarkBlob(w) ==
    /\ worker[w].phase = "fresh"
    /\ IF SameObject(w)
       THEN /\ blob' = [blob EXCEPT !.requested = TRUE]
            /\ Advance(w, "marked")
            /\ UNCHANGED asset
       ELSE Settle(w, "DELETED") /\ UNCHANGED blob
    /\ UNCHANGED <<relation, post, object, keys, upload, req, faults>>

SlipRefs == {a \in Assets : StateOf[a] \in {"ATTACHED", "DELETING"}}

Refs == {a \in Assets : StateOf[a] \notin {"ABSENT", "DELETED"}}

CountRefs(w) ==
    /\ worker[w].phase = "marked"
    /\ Advance(w, IF Cardinality(Refs) <= 1 THEN "last" ELSE "shared")
    /\ UNCHANGED <<tables, object, keys, upload, req, faults>>

DeleteObject(w) ==
    /\ worker[w].phase = "last"
    /\ object' = [object EXCEPT ![worker[w].key] = FALSE]
    /\ Advance(w, "removed")
    /\ UNCHANGED <<tables, keys, upload, req, faults>>

DeleteObjectFails(w) ==
    /\ worker[w].phase = "last"
    /\ Fault
    /\ Advance(w, "failed")
    /\ UNCHANGED <<tables, object, keys, upload, req>>

\* The blob is closed after the last reference, unmarked otherwise; either only
\* if it is still the object that was marked.
CloseBlob(w) ==
    /\ worker[w].phase \in {"removed", "shared"}
    /\ blob' = IF SameObject(w) /\ blob.requested
               THEN [blob EXCEPT !.requested = FALSE, !.deleted = worker[w].phase = "removed"]
               ELSE blob
    /\ Advance(w, "done")
    /\ UNCHANGED <<asset, relation, post, object, keys, upload, req, faults>>

\* The outcome is recorded if the row is still DELETING.
Finish(w) ==
    /\ worker[w].phase \in {"done", "failed"}
    /\ Settle(w, IF worker[w].phase = "done" THEN "DELETED" ELSE "DELETE_FAILED")
    /\ UNCHANGED <<blob, relation, post, object, keys, upload, req, faults>>

\* The process dies; the next one starts with an empty batch.
Crash(w) ==
    /\ worker[w] # Asleep
    /\ Fault
    /\ worker' = [worker EXCEPT ![w] = Asleep]
    /\ UNCHANGED <<tables, object, keys, upload, req>>

Work(w) ==
    \/ ListBatch(w) \/ Reread(w)    \/ Restore(w)   \/ MarkBlob(w)
    \/ CountRefs(w) \/ CloseBlob(w) \/ Finish(w)
    \/ \E a \in Assets : Claim(w, a)

Next ==
    \/ \E i \in Uploads :
         \/ PrepareForumAttachment(i) \/ UploadForumAttachment(i) \/ Reuse(i) \/ Put(i)
         \/ PutFails(i) \/ Register(i) \/ RegisterFails(i) \/ RaceAction(i) \/ Revive(i)
         \/ ReviveFails(i) \/ GiveWay(i)
    \/ \E r \in Requests :
         \/ SavePost(r) \/ DeletePost(r) \/ Fail(r)
         \/ \E p \in Posts : BeginSave(r, p) \/ BeginDelete(r, p)
    \/ \E a \in Assets : Age(a)
    \/ \E w \in Workers : Work(w) \/ DeleteObject(w) \/ DeleteObjectFails(w) \/ Crash(w)

Spec == Init /\ [][Next]_vars

\* The worker's timer never stops, and the store answers.
FairSpec == Spec /\ \A w \in Workers : WF_vars(Work(w)) /\ WF_vars(DeleteObject(w))

----------------------------------------------------------------------------
(* The file of FileContract. *)

Stored == blob.key # 0 /\ ~blob.deleted /\ object[blob.key]

\* An asset a worker has claimed still shows, until it is found to be related or not.
LifeOf(a) ==
    LET state == asset[a].state IN
    CASE state = "ABSENT" -> "none"
      [] state = "PENDING" -> IF asset[a].old THEN "stale" ELSE "waiting"
      [] state = "DELETED" -> "gone"
      [] state \in {"ATTACHED", "DELETING"} /\ relation[a] # NoPost -> "shown"
      [] state = "ATTACHED" /\ relation[a] = NoPost -> "loose"
      [] OTHER -> "leaving"

Lives == [a \in Assets |-> LifeOf(a)]

File == INSTANCE FileContract WITH life <- Lives, stored <- Stored

----------------------------------------------------------------------------
(* Properties. *)

\* The object a usable asset shares is in the store: the reference count, the mark
\* on the blob and the revival keep it there (design, lines 19 and 54).  And the
\* precheck of an instant upload never answers with an object that is gone, the
\* "bad blob" of the comment at upload.service.ts:373-374.  An asset a post is related
\* to stays attached, or is in the hands of a worker that is about to find out.
UsableIsStored ==
    /\ Available => object[blob.key]
    /\ \A a \in Assets :
         StateOf[a] \in {"PENDING", "ATTACHED"} \/ relation[a] # NoPost
             => blob.key # 0 /\ ~blob.deleted /\ object[blob.key]
    /\ \A a \in Assets : relation[a] # NoPost => StateOf[a] \in {"ATTACHED", "DELETING"}

\* Uploads that race, edits that overlap, revivals and a worker that dies between any two of its
\* calls come to one history: an asset is made beside its object, goes from hand to hand and
\* never back, and the object goes with the last of them
\* (upload.service.ts:198-459, forum-attachments.ts, media-asset.service.ts:217-330).
ImplementsFileContract == File!Spec

\* What overlapping edits leave attached to no post is cleaned up (design, 56).
OrphanIsCleaned ==
    \A a \in Assets :
        (StateOf[a] = "ATTACHED" /\ relation[a] = NoPost)
            ~> (StateOf[a] = "DELETED" \/ relation[a] # NoPost)
=============================================================================
