----------------------------- MODULE ForumThread -----------------------------
(***************************************************************************)
(* The replies below a post as its detail shows them: read through Redis   *)
(* under a key that holds a version (ForumService.getPostDetail), and laid *)
(* out as a flat list with depths (buildFlatRepliesWithMeta).  Replies are *)
(* numbered in the order of createdAt; what a reply says is left out.      *)
(***************************************************************************)
EXTENDS Naturals, SequencesExt

CONSTANTS MaxReplies,      \* bound on replies ever written
          MaxAnnounced,    \* bound on how often the version is incremented
          MaxUnanswered,   \* bound on how often Redis does not answer for the version
          Viewers,         \* requests for the detail, in flight at once
          Repliers         \* requests that write or delete a reply, in flight at once

ASSUME DetailAssumption == MaxReplies \in Nat /\ MaxAnnounced \in Nat /\ MaxUnanswered \in Nat

VARIABLES parent,          \* the reply each reply answers: 0 for the post, Unwritten for none
          there,           \* the rows of forum_replies
          thread,          \* the version in the key
          kept,            \* the cached replies of each version
          view,            \* requests for the detail
          replier,         \* the change each request has committed and not announced yet
          silent,          \* how often Redis did not answer for the version
          lost,            \* history: changes whose announcement failed, and none came after
          muddled,         \* history: a detail was laid out wrongly, see Shown
          behind           \* history: a detail was not up to date, see Shown

detailVars == <<parent, there, thread, kept, view, replier, silent, lost, muddled, behind>>

Replies        == 1..MaxReplies
Unwritten      == MaxReplies + 1
ThreadVersions == 0..MaxAnnounced
NotKept        == {0}
Rows           == {NotKept} \cup SUBSET Replies
NoView         == [at |-> "none"]
View           == [at: {"lookup", "store"}, version: ThreadVersions, rows: Rows,
                   moved: SUBSET Replies]           \* history: replies it may show as they were

DetailTypeOK ==
    /\ parent \in [Replies -> 0..Unwritten]
    /\ there \subseteq Replies
    /\ thread \in ThreadVersions
    /\ kept \in [ThreadVersions -> Rows]
    /\ view \in [Viewers -> View \cup {NoView}]
    /\ replier \in [Repliers -> SUBSET Replies]
    /\ silent \in 0..MaxUnanswered
    /\ lost \subseteq Replies
    /\ muddled \in BOOLEAN /\ behind \in BOOLEAN

DetailInit ==
    /\ parent = [i \in Replies |-> Unwritten]
    /\ there = {}
    /\ thread = 0
    /\ kept = [v \in ThreadVersions |-> NotKept]
    /\ view = [v \in Viewers |-> NoView]
    /\ replier = [w \in Repliers |-> {}]
    /\ silent = 0 /\ lost = {}
    /\ muddled = FALSE /\ behind = FALSE

----------------------------------------------------------------------------
(* The layout. *)

\* The k-th is the one with k - 1 older ones.
Older(S) ==
    [k \in 1..Cardinality(S) |-> CHOOSE i \in S : Cardinality({j \in S : j < i}) = k - 1]

Newer(S) == Reverse(Older(S))

\* The rows come oldest first, and so the answers to a reply stay.
Answers(rows, i) == Older({j \in rows : parent[j] = i})

\* A reply whose parent is not among the rows counts as one to the post.
Roots(rows) == {i \in rows : parent[i] \notin rows}

\* One level only.
SlipFlatReplies(rows) ==
    LET One(i) == <<[id |-> i, depth |-> 0]>>
                    \o [k \in DOMAIN Answers(rows, i) |-> [id |-> Answers(rows, i)[k], depth |-> 1]]
        roots  == Newer(Roots(rows))
    IN  FlattenSeq([k \in DOMAIN roots |-> One(roots[k])])

\* A reply at a depth, and below it whatever answers it, the oldest first, each followed by
\* what answers it in turn.
Walks(rows) ==
    LET walk[i \in rows] ==
          [depth \in Nat |->
             <<[id |-> i, depth |-> depth]>>
               \o FlattenSeq([k \in DOMAIN Answers(rows, i) |->
                                walk[Answers(rows, i)[k]][depth + 1]])]
    IN  walk

\* The newest reply to the post first.
buildFlatReplies(rows) ==
    LET roots == Newer(Roots(rows))
    IN  FlattenSeq([k \in DOMAIN roots |-> Walks(rows)[roots[k]][0]])

\* Every reply once, the newest thread first, the answers to one reply in the order they were
\* given, and from place and depth alone the reader knows what a reply answers: the last one
\* above it that is less deep.
WellLaidOut(rows, flat) ==
    LET above(k) == {j \in 1..(k - 1) : flat[j].depth < flat[k].depth}
    IN  /\ {flat[k].id : k \in DOMAIN flat} = rows
        /\ Len(flat) = Cardinality(rows)
        /\ \A k \in DOMAIN flat :
             IF flat[k].depth = 0
             THEN /\ flat[k].id \in Roots(rows)
                  /\ \A j \in 1..(k - 1) : flat[j].depth = 0 => flat[j].id > flat[k].id
             ELSE /\ \E j \in above(k) : /\ \A m \in above(k) : m <= j
                                         /\ flat[j].id = parent[flat[k].id]
                  /\ \A j \in 1..(k - 1) :
                       parent[flat[j].id] = parent[flat[k].id] => flat[j].id < flat[k].id

----------------------------------------------------------------------------
(* Changes.  The transaction holds the post's row or fails on the foreign key if the reply *)
(* answered is gone: one step. *)

Moved(replies) ==
    view' = [v \in Viewers |-> IF view[v] = NoView THEN NoView
                               ELSE [view[v] EXCEPT !.moved = @ \cup replies]]

publishReply(w, i, answered) ==
    /\ replier[w] = {}
    /\ parent[i] = Unwritten /\ \A j \in Replies : j < i => parent[j] # Unwritten
    /\ answered \in there \cup {0}
    /\ parent' = [parent EXCEPT ![i] = answered]
    /\ there' = there \cup {i}
    /\ replier' = [replier EXCEPT ![w] = {i}]
    /\ Moved({i})
    /\ UNCHANGED <<thread, kept, silent, lost, muddled, behind>>

\* The foreign key takes what answers the reply with it.
Thread(i) ==
    LET Closed(S) == i \in S /\ \A j \in there : parent[j] \in S => j \in S
    IN  {j \in there : \A S \in SUBSET there : Closed(S) => j \in S}

deleteReply(w, i) ==
    /\ replier[w] = {} /\ i \in there
    /\ there' = there \ Thread(i)
    /\ replier' = [replier EXCEPT ![w] = Thread(i)]
    /\ Moved(Thread(i))
    /\ UNCHANGED <<parent, thread, kept, silent, lost, muddled, behind>>

invalidateForumPostRepliesCache(w) ==
    /\ replier[w] # {} /\ thread < MaxAnnounced
    /\ thread' = thread + 1
    /\ replier' = [replier EXCEPT ![w] = {}]
    /\ lost' = {}
    /\ UNCHANGED <<parent, there, kept, view, silent, muddled, behind>>

Unanswered == silent < MaxUnanswered /\ silent' = silent + 1

\* Redis does not answer, or the process dies first: a warning at most, and the version stays.
ReplyAnnouncementFails(w) ==
    /\ replier[w] # {} /\ Unanswered
    /\ replier' = [replier EXCEPT ![w] = {}]
    /\ lost' = lost \cup replier[w]
    /\ UNCHANGED <<parent, there, thread, kept, view, muddled, behind>>

----------------------------------------------------------------------------
(* getPostDetail *)

\* Replies whose change is committed and not announced.
Unsaid == lost \cup UNION {replier[w] : w \in Repliers}

AskForReplies(v, version, moved) ==
    /\ view[v] = NoView
    /\ view' = [view EXCEPT ![v] = [at |-> "lookup", version |-> version, rows |-> NotKept,
                                    moved |-> moved]]
    /\ UNCHANGED <<parent, there, thread, kept, replier, lost, muddled, behind>>

forumPostRepliesDataCacheKey(v) == AskForReplies(v, thread, Unsaid) /\ UNCHANGED silent

\* Without an answer the version counts as 0, and what is kept under 0 may be of any age.
ReplyVersionFails(v) == AskForReplies(v, 0, Replies) /\ Unanswered

\* Shown and gone, or there and not shown.
Missed(rows) == (rows \ there) \cup (there \ rows)

\* What did not change on the way shows if it is there, and all that shows is in its place.
Shown(v, rows) ==
    /\ view' = [view EXCEPT ![v] = NoView]
    /\ muddled' = (muddled \/ ~WellLaidOut(rows, buildFlatReplies(rows)))
    /\ behind' = (behind \/ ~(Missed(rows) \subseteq view[v].moved))

RepliesHit(v) ==
    /\ view[v].at = "lookup" /\ kept[view[v].version] # NotKept
    /\ Shown(v, kept[view[v].version])
    /\ UNCHANGED <<parent, there, thread, kept, replier, silent, lost>>

\* Nothing there, nothing there any more (FORUM_POST_REPLIES_TTL_SEC), or no answer: whatever
\* was announced before, these are the rows.
RepliesMiss(v) ==
    /\ view[v].at = "lookup"
    /\ view' = [view EXCEPT ![v].at = "store", ![v].rows = there, ![v].moved = {}]
    /\ UNCHANGED <<parent, there, thread, kept, replier, silent, lost, muddled, behind>>

StoreReplies(v) ==
    /\ view[v].at = "store"
    /\ kept' \in {kept, [kept EXCEPT ![view[v].version] = view[v].rows]}
    /\ Shown(v, view[v].rows)
    /\ UNCHANGED <<parent, there, thread, replier, silent, lost>>

DetailNext ==
    \/ \E w \in Repliers :
         \/ \E i \in Replies :
              (\E answered \in 0..MaxReplies : publishReply(w, i, answered)) \/ deleteReply(w, i)
         \/ invalidateForumPostRepliesCache(w) \/ ReplyAnnouncementFails(w)
    \/ \E v \in Viewers :
         \/ forumPostRepliesDataCacheKey(v) \/ ReplyVersionFails(v)
         \/ RepliesHit(v) \/ RepliesMiss(v) \/ StoreReplies(v)

DetailSpec == DetailInit /\ [][DetailNext]_detailVars

----------------------------------------------------------------------------
\* A detail out of the database is of the rows as they were read.  One out of the cache shows
\* all that was there, and nothing that was gone, when it was asked for, but for changes that
\* had not been announced then: still to be, or failed and followed by no announcement since,
\* for the next one that succeeds makes good those that failed.  What slow readers loaded
\* before does no harm, nor what is stored under version 0 by those Redis gave no version;
\* only they may be given a detail of any age, if what is kept under 0 answers them
\* (redis-cache.ts:57-77, 152-181, forum.service.ts:198-271, 349-375).
RepliesAreCurrent == ~behind

\* Whatever rows a detail was given, it shows each once, in the thread of what it answers and
\* at a depth that says which reply that is (forum.service.ts:968-1087).
RepliesAreLaidOut == ~muddled
=============================================================================
