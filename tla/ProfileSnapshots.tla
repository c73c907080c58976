-------------------------- MODULE ProfileSnapshots --------------------------
(***************************************************************************)
(* The copies of a user's name in tasks, posts, replies, items, comments   *)
(* and orders (user-profile-sync.ts and every handler that writes a copy). *)
(*                                                                         *)
(* Handlers that copy a name lock the users' rows first; a change of the   *)
(* profile locks the user and rewrites every copy in one transaction.  A   *)
(* transaction reads from the snapshot its first plain read takes, and a   *)
(* locking read does not take one: handlers that lock before they read see *)
(* the name as locked, handlers that read before they lock see an older    *)
(* one.                                                                    *)
(***************************************************************************)
EXTENDS Naturals, FiniteSets

CONSTANTS People,      \* ids of users, compared when locks are sorted
          Sessions,    \* transactions in flight at once
          MaxRenames,  \* bound on changes of a name
          MaxCopies    \* bound on different copies

ASSUME PeopleAssumption == People \subseteq Nat /\ MaxRenames \in Nat /\ MaxCopies \in Nat

VARIABLES name,     \* users.name (or avatar), as a version
          copies,   \* the copies: column, whose name, which version
          work      \* transactions in flight

profileVars == <<name, copies, work>>

\* Which column holds the name of the one who acts, and of the other party.
OwnColumn   == [publishTask |-> "publisherName", claimTask |-> "takerName",
                publishPost |-> "authorName", publishItem |-> "itemPublisherName",
                createItemComment |-> "commentAuthorName",
                publishReply |-> "replyAuthorName", createOrder |-> "buyerName"]
OtherColumn == [createItemComment |-> "commentReplyToAuthorName",
                publishReply |-> "replyToAuthorName", createOrder |-> "sellerName"]

Copying   == DOMAIN OwnColumn
ReadFirst == {"publishReply", "createOrder"}
Columns   == {OwnColumn[op] : op \in Copying} \cup {OtherColumn[op] : op \in DOMAIN OtherColumn}
Versions  == 0..MaxRenames
Unread    == [read |-> FALSE, names |-> [u \in People |-> 0]]
Resting      == [op |-> "idle", users |-> {}, held |-> {}, by |-> 0, seen |-> Unread]

Copy == [column: Columns, user: People, name: Versions]
Work == [op: Copying \cup {"rename"}, users: SUBSET People, held: SUBSET People, by: People,
         seen: [read: BOOLEAN, names: [People -> Versions]]]

ProfileTypeOK ==
    /\ name \in [People -> Versions]
    /\ copies \subseteq Copy
    /\ work \in [Sessions -> Work \cup {Resting}]

ProfileInit ==
    /\ name = [u \in People |-> 0]
    /\ copies = {}
    /\ work = [s \in Sessions |-> Resting]

BeginWork(s, op, by, users) ==
    /\ work[s] = Resting
    /\ work' = [work EXCEPT ![s] = [op |-> op, users |-> users, held |-> {}, by |-> by,
                                    seen |-> Unread]]
    /\ UNCHANGED <<name, copies>>

BeginCopy(s, op, u) ==
    IF op \in DOMAIN OtherColumn
    THEN \E other \in People : BeginWork(s, op, u, {u, other})
    ELSE BeginWork(s, op, u, {u})

BeginRename(s, u) == name[u] < MaxRenames /\ BeginWork(s, "rename", u, {u})

----------------------------------------------------------------------------
SlipDue(s, u) == u \in work[s].users \ work[s].held

Due(s, u) ==
    /\ u \in work[s].users \ work[s].held
    /\ \A v \in work[s].users \ work[s].held : u <= v

\* lockUsersForProfileSnapshot: one row after the other, ids sorted.
LockUser(s, u) ==
    /\ work[s].op \in ReadFirst => work[s].seen.read
    /\ Due(s, u)
    /\ \A other \in Sessions : u \notin work[other].held
    /\ work' = [work EXCEPT ![s].held = @ \cup {u}]
    /\ UNCHANGED <<name, copies>>

AllLocked(s) == work[s] # Resting /\ work[s].held = work[s].users

\* The first plain read: every later one of the transaction sees the same names.
ReadSnapshot(s) ==
    /\ work[s].op \in Copying
    /\ ~work[s].seen.read
    /\ work[s].op \in ReadFirst \/ AllLocked(s)
    /\ work' = [work EXCEPT ![s].seen = [read |-> TRUE, names |-> name]]
    /\ UNCHANGED <<name, copies>>

\* The copies an insert writes.  A name taken over from the row that is answered is
\* the name of its author.
WrittenCopies(w) ==
    {[column |-> OwnColumn[w.op], user |-> w.by, name |-> w.seen.names[w.by]]}
      \cup {[column |-> OtherColumn[w.op], user |-> u, name |-> w.seen.names[u]] :
              u \in IF w.op \in DOMAIN OtherColumn
                    THEN IF w.users = {w.by} THEN w.users ELSE w.users \ {w.by}
                    ELSE {}}

WriteCopy(s) ==
    /\ work[s].op \in Copying
    /\ AllLocked(s)
    /\ work[s].seen.read
    /\ copies' = copies \cup WrittenCopies(work[s])
    /\ Cardinality(copies') <= MaxCopies
    /\ work' = [work EXCEPT ![s] = Resting]
    /\ UNCHANGED name

SlipPropagate(u, version) ==
    {IF c.user = u /\ c.column # "takerName" THEN [c EXCEPT !.name = version] ELSE c : c \in copies}

\* applyUserProfileSnapshotUpdate: the updateMany of every table that keeps a copy.
Propagate(u, version) ==
    {IF c.user = u THEN [c EXCEPT !.name = version] ELSE c : c \in copies}

Rename(s) ==
    LET u == work[s].by IN
    /\ work[s].op = "rename"
    /\ AllLocked(s)
    /\ name[u] < MaxRenames
    /\ name' = [name EXCEPT ![u] = @ + 1]
    /\ copies' = Propagate(u, name[u] + 1)
    /\ work' = [work EXCEPT ![s] = Resting]

\* A check threw, a statement failed or timed out: the transaction rolls back.
Abort(s) ==
    /\ work[s] # Resting
    /\ work' = [work EXCEPT ![s] = Resting]
    /\ UNCHANGED <<name, copies>>

ProfileNext ==
    \E s \in Sessions :
        \/ ReadSnapshot(s) \/ WriteCopy(s) \/ Rename(s) \/ Abort(s)
        \/ \E u \in People :
             BeginRename(s, u) \/ LockUser(s, u) \/ \E op \in Copying : BeginCopy(s, op, u)

ProfileSpec == ProfileInit /\ [][ProfileNext]_profileVars

----------------------------------------------------------------------------
LockedColumns == Columns \ ({OwnColumn[op] : op \in ReadFirst} \cup
                            {OtherColumn[op] : op \in ReadFirst})

\* Where the writers lock before they read, a copy always shows the name of today, also
\* when it is written while the name changes (user-profile-sync.ts:64-72, 155-211).  Not
\* so for replies and orders, whose transactions read before they lock.
LockedCopiesAgree ==
    \A c \in copies : c.column \in LockedColumns => c.name = name[c.user]

\* Two handlers that lock several users never wait for each other.
WaitsFor(s, other) == \E u \in work[other].held : Due(s, u)

NoLockCycle == \A s, other \in Sessions : s # other => ~(WaitsFor(s, other) /\ WaitsFor(other, s))
=============================================================================
