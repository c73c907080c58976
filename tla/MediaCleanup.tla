---------------------------- MODULE MediaCleanup ----------------------------
(***************************************************************************)
(* Uploaded images and videos from the upload to the removal of the object *)
(* in the object store: uploadMedia, the content transactions that attach  *)
(* and release media, and the cleanup worker.                              *)
(*                                                                         *)
(* The worker lists rows, then handles them one after the other: a claim   *)
(* (conditional update), a second read, the call to the object store, and  *)
(* a last conditional update.  Uploads, contents and the workers of other  *)
(* processes run between any two of these.                                 *)
(*                                                                         *)
(* An object's key ends in the digest of its bytes, so uploading the same  *)
(* picture again meets the same row.                                       *)
(***************************************************************************)
EXTENDS Naturals, FiniteSets, MediaRows

CONSTANTS Contents,     \* posts, replies, items, tasks: anything that holds media
          Workers,      \* processes with MEDIA_CLEANUP_WORKER_ENABLED
          NoUrl,
          Rank,         \* [Urls -> Nat]: the order of creation of the rows
          BatchSize,    \* BATCH_SIZE
          MaxUploads,   \* bound: uploads of one url
          MaxFaults     \* bound: crashes of workers and registrations that fail

ASSUME MediaAssumption ==
    /\ NoUrl \notin Urls
    /\ Rank \in [Urls -> Nat]
    /\ BatchSize \in Nat \ {0}
    /\ MaxUploads \in Nat /\ MaxFaults \in Nat

VARIABLES asset,    \* the state column of media_assets
          old,      \* createdAt lies more than 24 hours back
          object,   \* the object is in the store
          upload,   \* for each url: how often uploaded, and whether an upload is between put and register
          content,  \* the contents and the transaction that creates each
          worker,   \* for each process: the batch, the row in hand and how far it is
          faults    \* how many so far

vars == <<asset, old, object, upload, content, worker, faults>>

Queue == {"DELETE_PENDING", "DELETE_FAILED", "DELETING"}

ContentState == [state: {"NEW", "CREATING", "LIVE", "DELETED"}, urls: SUBSET Urls,
                 seen: [Urls -> AssetState]]

\* `batch` holds the rows listed and not yet handled, with their listed states.
WorkerState == [batch: UNION {[S -> AssetState] : S \in SUBSET Urls}, at: Urls \cup {NoUrl},
                phase: {"list", "claimed", "fresh", "removed", "failed"}]

TypeOK ==
    /\ asset \in [Urls -> AssetState]
    /\ old \in [Urls -> BOOLEAN]
    /\ object \in [Urls -> BOOLEAN]
    /\ upload \in [Urls -> [count: 0..MaxUploads, put: BOOLEAN]]
    /\ content \in [Contents -> ContentState]
    /\ worker \in [Workers -> WorkerState]
    /\ faults \in 0..MaxFaults

Absent == [m \in Urls |-> "ABSENT"]
Asleep == [batch |-> [m \in {} |-> "ABSENT"], at |-> NoUrl, phase |-> "list"]

Init ==
    /\ asset = Absent
    /\ old = [m \in Urls |-> FALSE]
    /\ object = [m \in Urls |-> FALSE]
    /\ upload = [m \in Urls |-> [count |-> 0, put |-> FALSE]]
    /\ content = [c \in Contents |-> [state |-> "NEW", urls |-> {}, seen |-> Absent]]
    /\ worker = [w \in Workers |-> Asleep]
    /\ faults = 0

----------------------------------------------------------------------------
(* uploadMedia *)

PutObject(m) ==
    /\ upload[m].count < MaxUploads /\ ~upload[m].put
    /\ upload' = [upload EXCEPT ![m] = [count |-> @.count + 1, put |-> TRUE]]
    /\ object' = [object EXCEPT ![m] = TRUE]
    /\ UNCHANGED <<asset, old, content, worker, faults>>

\* registerUploaded: an upsert; a row that exists goes back to PENDING and keeps
\* its createdAt.
RegisterUploaded(m) ==
    /\ upload[m].put
    /\ upload' = [upload EXCEPT ![m].put = FALSE]
    /\ asset' = [asset EXCEPT ![m] = "PENDING"]
    /\ UNCHANGED <<old, object, content, worker, faults>>

\* The registration throws: the object just put is deleted again.
RegisterFails(m) ==
    /\ upload[m].put
    /\ faults < MaxFaults
    /\ faults' = faults + 1
    /\ upload' = [upload EXCEPT ![m].put = FALSE]
    /\ object' = [object EXCEPT ![m] = FALSE]
    /\ UNCHANGED <<asset, old, content, worker>>

Age(m) ==
    /\ asset[m] # "ABSENT" /\ ~old[m]
    /\ old' = [old EXCEPT ![m] = TRUE]
    /\ UNCHANGED <<asset, object, upload, content, worker, faults>>

----------------------------------------------------------------------------
(* Contents.  The media of one are those it was created with. *)

BeginCreate(c) ==
    /\ content[c].state = "NEW"
    /\ \E urls \in SUBSET Urls \ {{}} :
         content' = [content EXCEPT ![c] = [state |-> "CREATING", urls |-> urls, seen |-> asset]]
    /\ UNCHANGED <<asset, old, object, upload, worker, faults>>

\* attachUrls: checked on the snapshot, written where the row still is PENDING.
Create(c) ==
    /\ content[c].state = "CREATING"
    /\ \A m \in content[c].urls : MayAttach(content[c].seen, Owner[m], {m})
    /\ content' = [content EXCEPT ![c].state = "LIVE", ![c].seen = Absent]
    /\ asset' = Attach(asset, content[c].urls)
    /\ UNCHANGED <<old, object, upload, worker, faults>>

CreateFails(c) ==
    /\ content[c].state = "CREATING"
    /\ content' = [content EXCEPT ![c] = [state |-> "NEW", urls |-> {}, seen |-> Absent]]
    /\ UNCHANGED <<asset, old, object, upload, worker, faults>>

Delete(c) ==
    /\ content[c].state = "LIVE"
    /\ content' = [content EXCEPT ![c].state = "DELETED"]
    /\ asset' = RequestDelete(asset, content[c].urls)
    /\ UNCHANGED <<old, object, upload, worker, faults>>

----------------------------------------------------------------------------
(* The worker: cleanupOnce and deleteAsset. *)

\* The rows a batch is taken from (forum files, which have relations to look at
\* as well, are in ForumAttachments).
mediaCleanupWhere == {m \in Urls : asset[m] \in Queue \/ (asset[m] = "PENDING" /\ old[m])}

Oldest(S) == {m \in S : Cardinality({n \in S : Rank[n] < Rank[m]}) < BatchSize}

Advance(w, at, phase) == worker' = [worker EXCEPT ![w].at = at, ![w].phase = phase]

\* The row in hand is done with.
Drop(w, m) ==
    worker' = [worker EXCEPT ![w] =
        [batch |-> [n \in DOMAIN @.batch \ {m} |-> @.batch[n]], at |-> NoUrl, phase |-> "list"]]

\* tick starts nothing while the batch before it is being worked on.
ListBatch(w) ==
    /\ worker[w] = Asleep
    /\ mediaCleanupWhere # {}
    /\ worker' = [worker EXCEPT ![w].batch = [m \in Oldest(mediaCleanupWhere) |-> asset[m]]]
    /\ UNCHANGED <<asset, old, object, upload, content, faults>>

SlipClaimAnything(listed, state) == TRUE

SlipClaimForgetsDeleting(listed, state) ==
    IF listed = "PENDING" THEN state = "PENDING" ELSE state \in Queue \ {"DELETING"}

\* The states the claim asks for, given the state in the list.
Claimable(listed, state) ==
    IF listed = "PENDING" THEN state = "PENDING" ELSE state \in Queue

Claim(w, m) ==
    /\ worker[w].at = NoUrl /\ m \in DOMAIN worker[w].batch
    /\ \A n \in DOMAIN worker[w].batch : Rank[m] <= Rank[n]
    /\ IF Claimable(worker[w].batch[m], asset[m])
       THEN /\ asset' = [asset EXCEPT ![m] = "DELETING"]
            /\ Advance(w, m, "claimed")
       ELSE /\ Drop(w, m)
            /\ UNCHANGED asset
    /\ UNCHANGED <<old, object, upload, content, faults>>

\* The second read gives the row up if it is no longer DELETING.
Reread(w) ==
    LET m == worker[w].at IN
    /\ worker[w].phase = "claimed"
    /\ IF asset[m] = "DELETING" THEN Advance(w, m, "fresh") ELSE Drop(w, m)
    /\ UNCHANGED <<asset, old, object, upload, content, faults>>

DeleteObject(w) ==
    LET m == worker[w].at IN
    /\ worker[w].phase = "fresh"
    /\ object' = [object EXCEPT ![m] = FALSE]
    /\ Advance(w, m, "removed")
    /\ UNCHANGED <<asset, old, upload, content, faults>>

\* The store refuses or cannot be reached.
DeleteObjectFails(w) ==
    /\ worker[w].phase = "fresh"
    /\ Advance(w, worker[w].at, "failed")
    /\ UNCHANGED <<asset, old, object, upload, content, faults>>

\* The outcome is recorded if the row is still DELETING.
Settle(w) ==
    LET m == worker[w].at
        outcome == IF worker[w].phase = "removed" THEN "DELETED" ELSE "DELETE_FAILED"
    IN  /\ worker[w].phase \in {"removed", "failed"}
        /\ asset' = [asset EXCEPT ![m] = IF @ = "DELETING" THEN outcome ELSE @]
        /\ Drop(w, m)
        /\ UNCHANGED <<old, object, upload, content, faults>>

\* The process dies; the next one starts with an empty batch.
Crash(w) ==
    /\ worker[w] # Asleep
    /\ faults < MaxFaults
    /\ faults' = faults + 1
    /\ worker' = [worker EXCEPT ![w] = Asleep]
    /\ UNCHANGED <<asset, old, object, upload, content>>

Work(w) ==
    \/ ListBatch(w)
    \/ \E m \in Urls : Claim(w, m)
    \/ Reread(w)
    \/ Settle(w)

Next ==
    \/ \E m \in Urls : PutObject(m) \/ RegisterUploaded(m) \/ RegisterFails(m) \/ Age(m)
    \/ \E c \in Contents : BeginCreate(c) \/ Create(c) \/ CreateFails(c) \/ Delete(c)
    \/ \E w \in Workers : Work(w) \/ DeleteObject(w) \/ DeleteObjectFails(w) \/ Crash(w)

Spec == Init /\ [][Next]_vars

\* The timer wakes a worker for ever, it goes through its batch, and the store
\* deletes an object when it is asked for often enough.
Fairness ==
    \A w \in Workers :
        /\ WF_vars(Work(w))
        /\ WF_vars(DeleteObject(w) \/ DeleteObjectFails(w))
        /\ SF_vars(DeleteObject(w))

FairSpec == Spec /\ Fairness

----------------------------------------------------------------------------
(* Properties. *)

\* registerUploaded takes a row back to PENDING whatever it is in, so an upload of
\* what a content already shows, or the worker already holds, ends what follows
\* for this picture; media_lost_object shows how.
UploadedOnce(m) == upload[m].count <= 1

\* The object of an attached row is in the store: a content that attaches late
\* does not revive a row the worker has claimed (attachUrls 175-178).
AttachedIsStored == \A m \in Urls : asset[m] = "ATTACHED" => object[m]

\* The store holds what the rows say, both ways (media-asset.service.ts:175-179, 197-264),
\* for a picture uploaded once: what is attached is there, and a row that says DELETED
\* has no object left.
StoreMatchesRows ==
    \A m \in Urls : UploadedOnce(m) =>
        /\ asset[m] = "ATTACHED" => object[m]
        /\ asset[m] = "DELETED" => ~object[m]

\* Row and object of a picture as MediaContract sees them.
LifeOf(m) ==
    CASE asset[m] = "ABSENT"   -> "none"
      [] asset[m] = "PENDING"  -> IF old[m] THEN "stale" ELSE "waiting"
      [] asset[m] = "ATTACHED" -> "used"
      [] asset[m] \in {"DELETE_PENDING", "DELETE_FAILED"} -> "released"
      [] asset[m] = "DELETING" -> "leaving"
      [] OTHER                 -> "gone"

Media == [m \in Urls |-> IF UploadedOnce(m) THEN [life |-> LifeOf(m), stored |-> object[m]]
                         ELSE [life |-> "again", stored |-> FALSE]]

Contract == INSTANCE MediaContract WITH Pictures <- Urls, media <- Media

\* Batches listed long ago, conditional claims and second reads come to this: a row in use
\* leaves that state only when a content releases it, an unused one only when it is stale,
\* and no content revives a row the worker has claimed (media-asset.service.ts:175-264).
\* 2026-08-24-forum-admin-attachments-instant-upload-design.md:70 asks the same of a second
\* upload of the same picture.
ImplementsMediaContract == Contract!Spec

\* Whatever is queued and can be deleted is deleted in the end (line 77 of the
\* design says the same of a store that fails), through failures of the store and
\* crashes of the worker between any two of its steps; and an upload that no content
\* uses does not stay once it is old.
QueuedIsDeleted ==
    \A m \in Urls :
        /\ asset[m] \in Queue ~> asset[m] = "DELETED" \/ ~UploadedOnce(m)
        /\ (asset[m] = "PENDING" /\ old[m]) ~> asset[m] \in {"ATTACHED", "DELETED"}

=============================================================================
