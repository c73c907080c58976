---------------------------- MODULE LikeCounter ----------------------------
(***************************************************************************)
(* A counter kept beside the rows it counts: likes of a post, likes of a   *)
(* reply, favourites of a reply (ForumService).  A tap is two statements   *)
(* without a transaction: the insert or delete of the user's row, then the *)
(* increment or decrement of the counter.  The process may die between     *)
(* them; taps of one user may overlap (a double tap, a retry).             *)
(***************************************************************************)
EXTENDS Integers, FiniteSets

CONSTANTS Fans,   \* users
          Taps,   \* requests in flight at once
          MaxDrift  \* bound on taps cut off, and on counters reset

ASSUME FansAssumption == IsFiniteSet(Fans) /\ IsFiniteSet(Taps) /\ MaxDrift \in Nat

VARIABLES what,     \* which counter this is
          liked,    \* the rows: who likes it
          likes,    \* the counter
          tap,      \* what each request has to do next
          drift,    \* history: how often a tap was cut off halfway
          resets    \* history: how often a counter below zero was reset

likeVars == <<what, liked, likes, tap, drift, resets>>

Counters == {"postLike", "replyLike", "replyFavorite"}

LikesTypeOK ==
    /\ what \in Counters
    /\ liked \subseteq Fans
    /\ likes \in Int
    /\ tap \in [Taps -> {"idle", "increment", "decrement", "clamp"}]
    /\ drift \in 0..MaxDrift /\ resets \in 0..MaxDrift

LikesInit ==
    /\ what \in Counters
    /\ liked = {}
    /\ likes = 0
    /\ tap = [t \in Taps |-> "idle"]
    /\ drift = 0 /\ resets = 0

\* The unique key refuses a second row; the handler then answers the counter it finds.
InsertRow(t, u) ==
    /\ tap[t] = "idle"
    /\ u \notin liked
    /\ liked' = liked \cup {u}
    /\ tap' = [tap EXCEPT ![t] = "increment"]
    /\ UNCHANGED <<what, likes, drift, resets>>

SlipDeleteRow(t, u) ==
    /\ tap[t] = "idle"
    /\ liked' = liked \ {u}
    /\ tap' = [tap EXCEPT ![t] = "decrement"]
    /\ UNCHANGED <<what, likes, drift, resets>>

\* The delete throws when there is no row, and the counter is left alone.
DeleteRow(t, u) ==
    /\ tap[t] = "idle"
    /\ u \in liked
    /\ liked' = liked \ {u}
    /\ tap' = [tap EXCEPT ![t] = "decrement"]
    /\ UNCHANGED <<what, likes, drift, resets>>

like(t, u)            == what = "postLike" /\ InsertRow(t, u)
unlike(t, u)          == what = "postLike" /\ DeleteRow(t, u)
likeReply(t, u)       == what = "replyLike" /\ InsertRow(t, u)
unlikeReply(t, u)     == what = "replyLike" /\ DeleteRow(t, u)
favoriteReply(t, u)   == what = "replyFavorite" /\ InsertRow(t, u)
unfavoriteReply(t, u) == what = "replyFavorite" /\ DeleteRow(t, u)

Increment(t) ==
    /\ tap[t] = "increment"
    /\ likes' = likes + 1
    /\ tap' = [tap EXCEPT ![t] = "idle"]
    /\ UNCHANGED <<what, liked, drift, resets>>

\* A favourite counter seen below zero is written back as zero, in a further statement.
Decrement(t) ==
    /\ tap[t] = "decrement"
    /\ likes' = likes - 1
    /\ tap' = [tap EXCEPT ![t] = IF what = "replyFavorite" /\ likes' < 0 THEN "clamp" ELSE "idle"]
    /\ UNCHANGED <<what, liked, drift, resets>>

Clamp(t) ==
    /\ tap[t] = "clamp" /\ resets < MaxDrift
    /\ likes' = 0
    /\ resets' = resets + 1
    /\ tap' = [tap EXCEPT ![t] = "idle"]
    /\ UNCHANGED <<what, liked, drift>>

\* The process dies, or the second statement fails and the error is swallowed.
Lost(t) ==
    /\ tap[t] # "idle" /\ drift < MaxDrift
    /\ drift' = drift + 1
    /\ tap' = [tap EXCEPT ![t] = "idle"]
    /\ UNCHANGED <<what, liked, likes, resets>>

LikesNext ==
    \E t \in Taps :
        \/ Increment(t) \/ Decrement(t) \/ Clamp(t) \/ Lost(t)
        \/ \E u \in Fans :
             \/ like(t, u) \/ unlike(t, u) \/ likeReply(t, u) \/ unlikeReply(t, u)
             \/ favoriteReply(t, u) \/ unfavoriteReply(t, u)

LikesSpec == LikesInit /\ [][LikesNext]_likeVars

----------------------------------------------------------------------------
Waiting(step) == {t \in Taps : tap[t] = step}

\* What the counter shows too much, or too little, once the taps under way are through.
Off == (likes + Cardinality(Waiting("increment")))
         - (Cardinality(liked) + Cardinality(Waiting("decrement")))

\* However taps overlap and wherever they are cut off, each that was puts the counter wrong by
\* one at most, and nothing else does: with none cut off it is right.  Only a counter of
\* favourites that was reset from below zero may be off by more, since others may have
\* counted between the look and the reset (forum.service.ts:643-661, 723-740).
CountsAgree == resets = 0 => -drift <= Off /\ Off <= drift
=============================================================================
