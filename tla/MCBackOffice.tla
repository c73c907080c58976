---------------------------- MODULE MCBackOffice ----------------------------
(***************************************************************************)
(* The parts behind the community that share no state, one run: a          *)
(* behaviour picks a part and goes through it, the others stay as they     *)
(* begin.                                                                  *)
(***************************************************************************)
EXTENDS AvatarReview, AdminSession, SystemNotice, ListCache, EndpointConfig,
        ForumFeed, ForumThread, ModuleTabs, TLC

CONSTANTS m1, m2

VARIABLE part

Parts == {"avatars", "sessions", "notices", "lists", "settings", "feed", "thread", "tabs"}

AllHisOwn == [m \in Urls |-> Uploader]

\* All the constants that stand for requests have the same elements.
Alike == Permutations(Browsers)

allVars == <<avatarVars, sessionVars, noticeVars, cacheVars, configVars, feedVars, detailVars, tabsVars>>

Init ==
    /\ part \in Parts
    /\ ReviewInit /\ SessionInit /\ NoticeInit /\ CacheInit /\ ConfigInit
    /\ FeedInit /\ DetailInit /\ TabsInit
    /\ part # "feed" => \A p \in Posts : post[p].at = "ABSENT"

Next ==
    \/ part = "avatars" /\ ReviewNext
       /\ UNCHANGED <<part, sessionVars, noticeVars, cacheVars, configVars,
                      feedVars, detailVars, tabsVars>>
    \/ part = "sessions" /\ SessionNext
       /\ UNCHANGED <<part, avatarVars, noticeVars, cacheVars, configVars,
                      feedVars, detailVars, tabsVars>>
    \/ part = "notices" /\ NoticeNext
       /\ UNCHANGED <<part, avatarVars, sessionVars, cacheVars, configVars,
                      feedVars, detailVars, tabsVars>>
    \/ part = "lists" /\ CacheNext
       /\ UNCHANGED <<part, avatarVars, sessionVars, noticeVars, configVars,
                      feedVars, detailVars, tabsVars>>
    \/ part = "settings" /\ ConfigNext
       /\ UNCHANGED <<part, avatarVars, sessionVars, noticeVars, cacheVars,
                      feedVars, detailVars, tabsVars>>
    \/ part = "feed" /\ FeedNext
       /\ UNCHANGED <<part, avatarVars, sessionVars, noticeVars, cacheVars,
                      configVars, detailVars, tabsVars>>
    \/ part = "thread" /\ DetailNext
       /\ UNCHANGED <<part, avatarVars, sessionVars, noticeVars, cacheVars,
                      configVars, feedVars, tabsVars>>
    \/ part = "tabs" /\ TabsNext
       /\ UNCHANGED <<part, avatarVars, sessionVars, noticeVars, cacheVars,
                      configVars, feedVars, detailVars>>

Spec == Init /\ [][Next]_<<part, allVars>>

\* The types of all parts.
TypeOK ==
    /\ part = "avatars" => ReviewTypeOK
    /\ part = "sessions" => SessionTypeOK
    /\ part = "notices" => NoticeTypeOK
    /\ part = "lists" => CacheTypeOK
    /\ part = "settings" => ConfigTypeOK
    /\ part = "feed" => FeedTypeOK
    /\ part = "thread" => DetailTypeOK
    /\ part = "tabs" => TabsTypeOK

\* Whatever is served out of Redis: the lists and details of the mall and the first page of
\* the forum, until Redis first fails to answer for a version or an invalidation, and the
\* replies of a post, for whoever was told a version, but for changes whose announcement has
\* failed with none after it (redis-cache.ts, forum.service.ts:75-159, 198-271).
CachesAreFresh == ServedIsFresh /\ FeedIsWhole /\ RepliesAreCurrent
=============================================================================
