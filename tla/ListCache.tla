----------------------------- MODULE ListCache -----------------------------
(***************************************************************************)
(* Reading through Redis (redis-cache.ts): lists, whose key holds a        *)
(* version that every change increments, and details, whose key a change   *)
(* deletes.  A reader's version, lookup, load and store are separate       *)
(* calls; a change commits first and invalidates afterwards.               *)
(***************************************************************************)
EXTENDS Naturals

CONSTANTS Readers,     \* requests that read, in flight at once
          Writers,     \* requests that change the rows
          MaxChanges   \* bound on changes

ASSUME CacheAssumption == MaxChanges \in Nat

VARIABLES rows,        \* the rows behind the list or detail, as a count of changes
          listVersion, \* the counter in the list's key
          list,        \* the cached list of each version, None if there is none
          detail,      \* the cached detail
          reader,      \* readers in flight
          writer,      \* the change each writer has committed, 0 for none
          stale,       \* history: an answer was older than it may be, see Answer
          crossed,     \* history: a reader of the detail was under way during an invalidation
          failed       \* history: Redis did not answer for a version or an invalidation

cacheVars == <<rows, listVersion, list, detail, reader, writer, stale, crossed, failed>>

Changes == 0..MaxChanges
None    == MaxChanges + 1
Waiting == [kind |-> "none"]
Reader  == [kind: {"list", "detail"}, at: {"lookup", "load", "store"}, version: Changes,
            value: Changes \cup {None}, since: Changes]

CacheTypeOK ==
    /\ rows \in Changes /\ listVersion \in Changes
    /\ list \in [Changes -> Changes \cup {None}]
    /\ detail \in Changes \cup {None}
    /\ reader \in [Readers -> Reader \cup {Waiting}]
    /\ writer \in [Writers -> Changes]
    /\ stale \in BOOLEAN /\ crossed \in BOOLEAN /\ failed \in BOOLEAN

CacheInit ==
    /\ rows = 0 /\ listVersion = 0
    /\ list = [v \in Changes |-> None]
    /\ detail = None
    /\ reader = [r \in Readers |-> Waiting]
    /\ writer = [w \in Writers |-> 0]
    /\ stale = FALSE /\ crossed = FALSE /\ failed = FALSE

----------------------------------------------------------------------------
(* Changes. *)

Commit(w) ==
    /\ writer[w] = 0 /\ rows < MaxChanges
    /\ rows' = rows + 1
    /\ writer' = [writer EXCEPT ![w] = rows + 1]
    /\ UNCHANGED <<listVersion, list, detail, reader, stale, crossed, failed>>

\* invalidateMallItemDetailCache
ForgetDetail == detail' = None

Invalidate(w) ==
    /\ writer[w] # 0
    /\ listVersion' = listVersion + 1
    /\ ForgetDetail
    /\ crossed' = (crossed \/ \E r \in Readers : reader[r].kind = "detail")
    /\ writer' = [writer EXCEPT ![w] = 0]
    /\ UNCHANGED <<rows, list, reader, stale, failed>>

\* A warning, and the change is never announced.
InvalidateFails(w) ==
    /\ writer[w] # 0
    /\ failed' = TRUE
    /\ writer' = [writer EXCEPT ![w] = 0]
    /\ UNCHANGED <<rows, listVersion, list, detail, reader, stale, crossed>>

----------------------------------------------------------------------------
(* Readers: the key, then cacheAsideJson. *)

\* The latest change up to which all are invalidated.
Announced ==
    CHOOSE k \in 0..rows :
        /\ \A w \in Writers : writer[w] \notin 1..k
        /\ k = rows \/ \E w \in Writers : writer[w] = k + 1

Look(r, kind, version) ==
    /\ reader[r] = Waiting
    /\ reader' = [reader EXCEPT ![r] = [kind |-> kind, at |-> "lookup", version |-> version,
                                        value |-> None, since |-> Announced]]
    /\ UNCHANGED <<rows, listVersion, list, detail, writer, stale, crossed>>

mallItemsListCacheKey(r)  == Look(r, "list", listVersion) /\ UNCHANGED failed
mallItemDetailCacheKey(r) == Look(r, "detail", 0) /\ UNCHANGED failed

\* Without an answer the version counts as 0.
ListVersionFails(r) == Look(r, "list", 0) /\ failed' = TRUE

Cached(q) == IF q.kind = "list" THEN list[q.version] ELSE detail

\* Nothing older than what was invalidated when it was asked for; a detail may be, once a
\* reader of it was under way during an invalidation.
Answer(r, value) ==
    /\ stale' = \/ stale
                \/ value < reader[r].since /\ (reader[r].kind = "list" \/ ~crossed)
    /\ reader' = [reader EXCEPT ![r] = Waiting]

Hit(r) ==
    /\ reader[r] # Waiting /\ reader[r].at = "lookup"
    /\ Cached(reader[r]) # None
    /\ Answer(r, Cached(reader[r]))
    /\ UNCHANGED <<rows, listVersion, list, detail, writer, crossed, failed>>

\* Nothing there, or Redis does not answer.
Miss(r) ==
    /\ reader[r] # Waiting /\ reader[r].at = "lookup"
    /\ reader' = [reader EXCEPT ![r].at = "load"]
    /\ UNCHANGED <<rows, listVersion, list, detail, writer, stale, crossed, failed>>

LoadRows(r) ==
    /\ reader[r] # Waiting /\ reader[r].at = "load"
    /\ reader' = [reader EXCEPT ![r].at = "store", ![r].value = rows]
    /\ UNCHANGED <<rows, listVersion, list, detail, writer, stale, crossed, failed>>

SlipStoreKey(q) == listVersion

\* The version is the one read before the rows were.
StoreKey(q) == q.version

Store(r) ==
    LET q == reader[r] IN
    /\ q # Waiting /\ q.at = "store"
    /\ IF q.kind = "list"
       THEN list' = [list EXCEPT ![StoreKey(q)] = q.value] /\ UNCHANGED detail
       ELSE detail' = q.value /\ UNCHANGED list
    /\ Answer(r, q.value)
    /\ UNCHANGED <<rows, listVersion, writer, crossed, failed>>

\* The store fails: a warning, and the same answer.
StoreFails(r) ==
    /\ reader[r] # Waiting /\ reader[r].at = "store"
    /\ Answer(r, reader[r].value)
    /\ UNCHANGED <<rows, listVersion, list, detail, writer, crossed, failed>>

\* EX: every entry lives a few minutes.
Expire ==
    /\ \E v \in Changes : list' = [list EXCEPT ![v] = None]
    /\ detail' \in {detail, None}
    /\ UNCHANGED <<rows, listVersion, reader, writer, stale, crossed, failed>>

\* After Redis has failed nothing is promised, and nothing is followed further.
CacheNext ==
    /\ ~failed
    /\ \/ Expire
       \/ \E w \in Writers : Commit(w) \/ Invalidate(w) \/ InvalidateFails(w)
       \/ \E r \in Readers :
            \/ mallItemsListCacheKey(r) \/ mallItemDetailCacheKey(r) \/ ListVersionFails(r)
            \/ Hit(r) \/ Miss(r) \/ LoadRows(r) \/ Store(r) \/ StoreFails(r)

CacheSpec == CacheInit /\ [][CacheNext]_cacheVars

----------------------------------------------------------------------------
\* A list is never older than the invalidations that were done when it was asked for,
\* however slow another reader is with what it loaded before; a detail is not either,
\* unless a reader of it was under way during an invalidation: then it stays stale until
\* it expires.  All this as long as Redis answers (redis-cache.ts:57-77, 179-217, 225-235).
ServedIsFresh == failed \/ ~stale
=============================================================================
