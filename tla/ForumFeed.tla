------------------------------ MODULE ForumFeed ------------------------------
(***************************************************************************)
(* The first page of the forum: the pinned posts, and the others.          *)
(* ForumService.listPosts reads the two with two queries outside any       *)
(* transaction and keeps the pair in Redis under a key that holds a        *)
(* version; whoever changes a post commits first and increments the        *)
(* version afterwards.  A page holds all the posts there are: paging,      *)
(* search, order and the reader's own marks are left out.                  *)
(***************************************************************************)
EXTENDS Naturals

CONSTANTS Posts,
          Visitors,       \* requests for the page, in flight at once
          Posters,        \* requests that change a post, in flight at once
          MaxEditions     \* bound on how often the version is incremented

ASSUME FeedAssumption == MaxEditions \in Nat

VARIABLES post,           \* the rows of forum_posts
          edition,        \* the version in the key
          feed,           \* the cached page of each version
          visit,          \* requests for the page
          poster,         \* requests that change a post
          misplaced,      \* history: a page showed a post in the wrong place, see PageShown
          unanswered      \* history: Redis did not answer for a version

feedVars == <<post, edition, feed, visit, poster, misplaced, unanswered>>

Editions == 0..MaxEditions
NoPage   == [pinned |-> {0}, others |-> {0}]
FeedPage     == [pinned: SUBSET Posts, others: SUBSET Posts]
NoVisit  == [at |-> "none"]
Visit    == [at: {"lookup", "load"}, edition: Editions,
             page: [pinned: {{0}} \cup SUBSET Posts, others: {{0}} \cup SUBSET Posts],
             moved: SUBSET Posts]              \* posts that changed on the way
NoPoster == [at |-> "none"]
Fields   == [online: BOOLEAN] \cup [pinned: BOOLEAN] \cup [online: BOOLEAN, pinned: BOOLEAN]
Poster   == [at: {"write"}, post: Posts, fields: Fields] \cup [at: {"announce"}, post: Posts]

FeedTypeOK ==
    /\ post \in [Posts -> [at: {"ABSENT", "THERE", "DELETED"}, online: BOOLEAN, pinned: BOOLEAN]]
    /\ edition \in Editions
    /\ feed \in [Editions -> FeedPage \cup {NoPage}]
    /\ visit \in [Visitors -> Visit \cup {NoVisit}]
    /\ poster \in [Posters -> Poster \cup {NoPoster}]
    /\ misplaced \in BOOLEAN /\ unanswered \in BOOLEAN

FeedInit ==
    /\ post \in [Posts -> [at: {"ABSENT", "THERE"}, online: {TRUE}, pinned: {FALSE}]]
    /\ edition = 0
    /\ feed = [e \in Editions |-> NoPage]
    /\ visit = [v \in Visitors |-> NoVisit]
    /\ poster = [w \in Posters |-> NoPoster]
    /\ misplaced = FALSE /\ unanswered = FALSE

Visible(p) == post[p].at = "THERE" /\ post[p].online
Pinned     == {p \in Posts : Visible(p) /\ post[p].pinned}
Others     == {p \in Posts : Visible(p) /\ ~post[p].pinned}

\* Posts whose change is committed and not announced.
Unannounced == {poster[w].post : w \in {x \in Posters : poster[x].at = "announce"}}

----------------------------------------------------------------------------
(* Changes: checks, one write, one announcement. *)

\* A write is part of what every request under way may or may not have seen.
Write(w, p, row) ==
    /\ post' = [post EXCEPT ![p] = row]
    /\ poster' = [poster EXCEPT ![w] = [at |-> "announce", post |-> p]]
    /\ visit' = [v \in Visitors |-> IF visit[v] = NoVisit THEN NoVisit
                                    ELSE [visit[v] EXCEPT !.moved = @ \cup {p}]]
    /\ UNCHANGED <<edition, feed, misplaced, unanswered>>

\* The row with the fields that were sent.
Changed(row, fields) ==
    [f \in DOMAIN row |-> IF f \in DOMAIN fields THEN fields[f] ELSE row[f]]

Check(w, p, fields) ==
    /\ poster[w] = NoPoster
    /\ poster' = [poster EXCEPT ![w] = [at |-> "write", post |-> p, fields |-> fields]]
    /\ UNCHANGED <<post, edition, feed, visit, misplaced, unanswered>>

publishPost(w, p, pinned) ==
    /\ poster[w] = NoPoster /\ post[p].at = "ABSENT"
    /\ Write(w, p, [at |-> "THERE", online |-> TRUE, pinned |-> pinned])

deletePost(w, p) ==
    /\ poster[w] = NoPoster /\ Visible(p)
    /\ Write(w, p, [post[p] EXCEPT !.at = "DELETED"])

\* setPinned, and updateContentState of the administrator: the post is looked at first,
\* and then written by its id whatever has become of it.
BeginSetPinned(w, p, pinned)   == Visible(p) /\ Check(w, p, [pinned |-> pinned])
BeginUpdateState(w, p, fields) == post[p].at = "THERE" /\ Check(w, p, fields)

WriteState(w) ==
    LET q == poster[w] IN
    /\ q.at = "write"
    /\ Write(w, q.post, Changed(post[q.post], q.fields))

invalidateForumPostListCache(w) ==
    /\ poster[w].at = "announce" /\ edition < MaxEditions
    /\ edition' = edition + 1
    /\ poster' = [poster EXCEPT ![w] = NoPoster]
    /\ UNCHANGED <<post, feed, visit, misplaced, unanswered>>

\* Redis does not answer: the change stays unannounced.
AnnouncementFails(w) ==
    /\ poster[w].at = "announce"
    /\ unanswered' = TRUE
    /\ poster' = [poster EXCEPT ![w] = NoPoster]
    /\ UNCHANGED <<post, edition, feed, visit, misplaced>>

----------------------------------------------------------------------------
(* listPosts *)

AskForPage(v, e) ==
    /\ visit[v] = NoVisit
    /\ visit' = [visit EXCEPT ![v] = [at |-> "lookup", edition |-> e, page |-> NoPage,
                                      moved |-> Unannounced]]
    /\ UNCHANGED <<post, edition, feed, poster, misplaced>>

forumPostListCacheKey(v) == AskForPage(v, edition) /\ UNCHANGED unanswered
VersionFails(v)          == AskForPage(v, 0) /\ unanswered' = TRUE

\* A post that did not change on the way, and whose changes were all announced before,
\* shows once and where it belongs.
Placed(page) ==
    {p \in Posts : (p \in page.pinned <=> p \in Pinned) /\ (p \in page.others <=> p \in Others)}

PageShown(v, page) ==
    /\ visit' = [visit EXCEPT ![v] = NoVisit]
    /\ misplaced' = (misplaced \/ ~(Posts \subseteq Placed(page) \cup visit[v].moved))

PageHit(v) ==
    /\ visit[v].at = "lookup" /\ feed[visit[v].edition] # NoPage
    /\ PageShown(v, feed[visit[v].edition])
    /\ UNCHANGED <<post, edition, feed, poster, unanswered>>

\* Nothing there, nothing there any more (FORUM_POST_LIST_TTL_SEC), or Redis does not answer.
PageMiss(v) ==
    /\ visit[v].at = "lookup"
    /\ visit' = [visit EXCEPT ![v].at = "load"]
    /\ UNCHANGED <<post, edition, feed, poster, misplaced, unanswered>>

\* The two queries, sent together, answered in any order.
ReadPinned(v) ==
    /\ visit[v].at = "load" /\ visit[v].page.pinned = {0}
    /\ visit' = [visit EXCEPT ![v].page.pinned = Pinned]
    /\ UNCHANGED <<post, edition, feed, poster, misplaced, unanswered>>

ReadOthers(v) ==
    /\ visit[v].at = "load" /\ visit[v].page.others = {0}
    /\ visit' = [visit EXCEPT ![v].page.others = Others]
    /\ UNCHANGED <<post, edition, feed, poster, misplaced, unanswered>>

\* Stored under the version read before the queries, or not stored if Redis fails.
StorePage(v) ==
    /\ visit[v].at = "load"
    /\ visit[v].page.pinned # {0} /\ visit[v].page.others # {0}
    /\ feed' \in {feed, [feed EXCEPT ![visit[v].edition] = visit[v].page]}
    /\ PageShown(v, visit[v].page)
    /\ UNCHANGED <<post, edition, poster, unanswered>>

\* After Redis has failed nothing is promised, and nothing is followed further.
FeedNext ==
    /\ ~unanswered
    /\ \/ \E w \in Posters :
            \/ \E p \in Posts :
                 \/ \E pinned \in BOOLEAN : publishPost(w, p, pinned) \/ BeginSetPinned(w, p, pinned)
                 \/ \E fields \in Fields : BeginUpdateState(w, p, fields)
                 \/ deletePost(w, p)
            \/ WriteState(w) \/ invalidateForumPostListCache(w) \/ AnnouncementFails(w)
       \/ \E v \in Visitors :
            \/ forumPostListCacheKey(v) \/ VersionFails(v)
            \/ PageHit(v) \/ PageMiss(v) \/ ReadPinned(v) \/ ReadOthers(v) \/ StorePage(v)

FeedSpec == FeedInit /\ [][FeedNext]_feedVars

----------------------------------------------------------------------------
\* A post that is pinned between the two queries may show twice or not at all, but only to
\* those who ask while it happens: once the change is announced nobody is given such a page,
\* not from the cache either.  As long as Redis answers (forum.service.ts:75-133, 310-321).
FeedIsWhole == unanswered \/ ~misplaced
=============================================================================
