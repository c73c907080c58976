---------------------------- MODULE SystemNotice ----------------------------
(***************************************************************************)
(* A system notice to every enabled user (publishSystemNotice) and what    *)
(* the recipients do with it (notification.service.ts).  The publication   *)
(* is one transaction over all batches; the administrator's client sends   *)
(* it again under the same id if it hears nothing.                         *)
(***************************************************************************)
EXTENDS Naturals, FiniteSets

CONSTANTS Members,     \* users, by the order of their ids
          NoticeIds,   \* clientRequestId
          Payloads,    \* administrator, title and content
          Senders,     \* requests in flight at once
          PageSize     \* SYSTEM_NOTICE_BATCH_SIZE

ASSUME NoticeAssumption ==
    Members \subseteq Nat \ {0} /\ IsFiniteSet(Members) /\ PageSize \in Nat \ {0}

VARIABLES enabled,    \* users that are enabled
          published,  \* system_notice_publications
          inbox,      \* notifications: what each user has of each notice
          sending,    \* transactions in flight
          confirmed   \* history: what administrators were told

noticeVars == <<enabled, published, inbox, sending, confirmed>>

Silent  == [id |-> "none"]
Unsent  == [payload |-> "none"]
Sending == [id: NoticeIds, payload: Payloads, snapshot: SUBSET Members,
            cursor: {0} \cup Members, written: SUBSET Members]
Sent    == [payload: Payloads, count: 0..Cardinality(Members), due: SUBSET Members]

NoticeTypeOK ==
    /\ enabled \subseteq Members
    /\ published \in [NoticeIds -> Sent \cup {Unsent}]
    /\ inbox \in [Members -> [NoticeIds -> {"none", "unread", "read", "deleted"}]]
    /\ sending \in [Senders -> Sending \cup {Silent}]
    /\ confirmed \subseteq [id: NoticeIds, payload: Payloads, count: 0..Cardinality(Members)]

NoticeInit ==
    /\ enabled = Members
    /\ published = [i \in NoticeIds |-> Unsent]
    /\ inbox = [u \in Members |-> [i \in NoticeIds |-> "none"]]
    /\ sending = [s \in Senders |-> Silent]
    /\ confirmed = {}

updateUserEnabled(u) ==
    /\ enabled' = IF u \in enabled THEN enabled \ {u} ELSE enabled \cup {u}
    /\ UNCHANGED <<published, inbox, sending, confirmed>>

----------------------------------------------------------------------------
(* publishSystemNotice *)

\* The insert of the publication comes first: who finds the id taken by a transaction
\* in flight waits for its end.  The first page is read on the snapshot of this moment.
BeginNotice(s, i, p) ==
    /\ sending[s] = Silent
    /\ published[i] = Unsent
    /\ \A other \in Senders : sending[other].id # i
    /\ sending' = [sending EXCEPT ![s] = [id |-> i, payload |-> p, snapshot |-> enabled,
                                          cursor |-> 0, written |-> {}]]
    /\ UNCHANGED <<enabled, published, inbox, confirmed>>

Ahead(q) == {u \in q.snapshot : u > q.cursor}

SlipPage(q) == {u \in Ahead(q) : Cardinality({v \in Ahead(q) : v <= u}) \in 2..PageSize + 1}

\* The next users after the cursor, at most a page of them.
Page(q) == {u \in Ahead(q) : Cardinality({v \in Ahead(q) : v <= u}) <= PageSize}

LastOf(users) == CHOOSE u \in users : \A v \in users : v <= u

SendPage(s) ==
    LET q == sending[s] IN
    /\ q # Silent /\ Page(q) # {}
    /\ sending' = [sending EXCEPT ![s].cursor = LastOf(Page(q)), ![s].written = @ \cup Page(q)]
    /\ UNCHANGED <<enabled, published, inbox, confirmed>>

\* The rows, the count and the answer become visible together.
publishSystemNotice(s) ==
    LET q == sending[s] IN
    /\ q # Silent /\ Page(q) = {}
    /\ published' = [published EXCEPT ![q.id] = [payload |-> q.payload, due |-> q.snapshot,
                                                 count |-> Cardinality(q.written)]]
    /\ inbox' = [u \in Members |-> IF u \in q.written THEN [inbox[u] EXCEPT ![q.id] = "unread"]
                                   ELSE inbox[u]]
    /\ confirmed' = confirmed \cup {[id |-> q.id, payload |-> q.payload,
                                     count |-> Cardinality(q.written)]}
    /\ sending' = [sending EXCEPT ![s] = Silent]
    /\ UNCHANGED enabled

\* A statement fails, the transaction times out, the process dies: nothing was sent.
RollBack(s) ==
    /\ sending[s] # Silent
    /\ sending' = [sending EXCEPT ![s] = Silent]
    /\ UNCHANGED <<enabled, published, inbox, confirmed>>

\* The id is taken: the old answer for the same notice, an error (no step) for another.
ReplayNotice(i, p) ==
    /\ published[i] # Unsent
    /\ published[i].payload = p
    /\ confirmed' = confirmed \cup {[id |-> i, payload |-> p, count |-> published[i].count]}
    /\ UNCHANGED <<enabled, published, inbox, sending>>

----------------------------------------------------------------------------
(* The recipient. *)

MoveOn(u, from, to, ids) ==
    /\ inbox' = [inbox EXCEPT ![u] = [i \in NoticeIds |->
                   IF i \in ids /\ inbox[u][i] \in from THEN to ELSE inbox[u][i]]]
    /\ UNCHANGED <<enabled, published, sending, confirmed>>

markNotificationRead(u, i)   == MoveOn(u, {"unread"}, "read", {i})
markAllNotificationsRead(u)  == MoveOn(u, {"unread"}, "read", NoticeIds)
softDeleteNotification(u, i) == MoveOn(u, {"unread", "read"}, "deleted", {i})

NoticeNext ==
    \/ \E u \in Members :
         \/ updateUserEnabled(u) \/ markAllNotificationsRead(u)
         \/ \E i \in NoticeIds : markNotificationRead(u, i) \/ softDeleteNotification(u, i)
    \/ \E s \in Senders : SendPage(s) \/ publishSystemNotice(s) \/ RollBack(s)
    \/ \E i \in NoticeIds, p \in Payloads :
         ReplayNotice(i, p) \/ \E s \in Senders : BeginNotice(s, i, p)

NoticeSpec == NoticeInit /\ [][NoticeNext]_noticeVars

----------------------------------------------------------------------------
\* What an administrator is told about a notice, now or when he asks again, is true: his
\* notice went, once, to exactly those who were enabled when it was written, page by page
\* and whoever was enabled or disabled meanwhile (system-notice.service.ts:85-147).
NoticeReachesEveryone ==
    \A a \in confirmed :
        /\ published[a.id].payload = a.payload
        /\ {u \in Members : inbox[u][a.id] # "none"} = published[a.id].due
        /\ a.count = Cardinality(published[a.id].due)
=============================================================================
