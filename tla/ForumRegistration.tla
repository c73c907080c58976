------------------------- MODULE ForumRegistration -------------------------
(***************************************************************************)
(* One forum post with a sign-up sheet: ForumRegistrationService and the   *)
(* posts branch of AdminService.updateContentFields.                       *)
(*                                                                         *)
(* register and the edit are transactions.  Their plain reads all see the  *)
(* snapshot of the first one (REPEATABLE READ, the server's default; the   *)
(* code sets no isolation level): `seen`, taken by Begin.  Their locking   *)
(* reads, updates and inserts act on the rows as they are at the commit.   *)
(* register locks the sheet's row between the two, which is why its second *)
(* half is one step; it does not look at what that locking read returned.  *)
(***************************************************************************)
EXTENDS Naturals, FiniteSets

CONSTANTS Users, Requests,
          None,          \* no sheet
          MaxCapacity, MaxTime   \* bounds on the capacity and on the clock

ASSUME BoundsAssumption ==
    /\ MaxCapacity \in Nat \ {0}
    /\ MaxTime \in Nat \ {0}

VARIABLES now,      \* the clock
          post,     \* the post: its state and its feature
          sheet,    \* forum_post_registrations: capacity and deadline, or None
          entries,  \* forum_post_registration_entries: who is registered
          req,      \* transactions in flight
          apart     \* history: no two transactions have been in flight together

vars == <<now, post, sheet, entries, req, apart>>

Feature == {"CONTENT", "REGISTRATION"}
Sheet   == [capacity: 1..MaxCapacity, deadline: 1..MaxTime]
Post    == [state: {"ONLINE", "OFFLINE", "DELETED"}, feature: Feature]
Tables  == [post: Post, sheet: Sheet \cup {None}, entries: SUBSET Users]

ASSUME NoneAssumption == None \notin Sheet

\* What the administrator's form holds; KEEP and 0 stand for fields not sent.
Form == [feature: Feature \cup {"KEEP"}, capacity: 0..MaxCapacity, deadline: 0..MaxTime]

Idle == [op |-> "idle"]

Request == {Idle} \cup [op: {"register"}, user: Users, seen: Tables]
                  \cup [op: {"edit"}, form: Form, seen: Tables]

TypeOK ==
    /\ now \in 0..MaxTime
    /\ post \in Post
    /\ sheet \in Sheet \cup {None}
    /\ entries \subseteq Users
    /\ req \in [Requests -> Request]
    /\ apart \in BOOLEAN

\* A post as createPost and the administrator's createContent leave it.
Init ==
    /\ now = 0
    /\ \/ post = [state |-> "ONLINE", feature |-> "CONTENT"] /\ sheet = None
       \/ post = [state |-> "ONLINE", feature |-> "REGISTRATION"] /\ sheet \in Sheet
    /\ entries = {}
    /\ req = [r \in Requests |-> Idle]
    /\ apart = TRUE

Snapshot == [post |-> post, sheet |-> sheet, entries |-> entries]

Begin(r, q) ==
    /\ req[r] = Idle
    /\ req' = [req EXCEPT ![r] = q]
    /\ apart' = (apart /\ \A other \in Requests : req[other] = Idle)
    /\ UNCHANGED <<now, post, sheet, entries>>

Finish(r) == req' = [req EXCEPT ![r] = Idle] /\ UNCHANGED apart

\* Slips the properties below must notice are written beside the operator they
\* belong to, under names that start with Slip.
SlipStatusOffByOne(s, count) ==
    IF s.deadline <= now THEN "CLOSED" ELSE IF count > s.capacity THEN "FULL" ELSE "OPEN"

SlipStatusIgnoresDeadline(s, count) == IF count >= s.capacity THEN "FULL" ELSE "OPEN"

registrationStatus(s, count) ==
    IF s.deadline <= now THEN "CLOSED" ELSE IF count >= s.capacity THEN "FULL" ELSE "OPEN"

----------------------------------------------------------------------------
(* ForumRegistrationService *)

BeginRegister(r) ==
    /\ post.state = "ONLINE" /\ post.feature = "REGISTRATION"
    /\ \E u \in Users : Begin(r, [op |-> "register", user |-> u, seen |-> Snapshot])

\* The insert: the entry refers to a sheet, and is unique per user.
InsertEntry(u) ==
    /\ sheet # None
    /\ u \notin entries
    /\ entries' = entries \cup {u}

\* The checks are made on the snapshot, the insert on the table.
Register(r) ==
    LET q == req[r] IN
    /\ q.op = "register"
    /\ q.seen.sheet # None
    /\ registrationStatus(q.seen.sheet, Cardinality(q.seen.entries)) = "OPEN"
    /\ q.user \notin q.seen.entries
    /\ InsertEntry(q.user)
    /\ Finish(r)
    /\ UNCHANGED <<now, post, sheet>>

\* cancel: one deleteMany, outside any lock.
Cancel(u) ==
    /\ u \in entries
    /\ entries' = entries \ {u}
    /\ UNCHANGED <<now, post, sheet, req, apart>>

----------------------------------------------------------------------------
(* AdminService *)

BeginEdit(r) ==
    /\ post.state # "DELETED"
    /\ \E form \in Form : Begin(r, [op |-> "edit", form |-> form, seen |-> Snapshot])

NextFeature(q) == IF q.form.feature = "KEEP" THEN q.seen.post.feature ELSE q.form.feature

SlipUpdateMissesQuietly(q) ==
    /\ NextFeature(q) = "REGISTRATION" /\ q.seen.sheet # None
    /\ sheet' = IF sheet = None THEN None ELSE q.seen.sheet
    /\ UNCHANGED entries

SlipEditReplacesSheet(q) ==
    /\ NextFeature(q) = "REGISTRATION"
    /\ sheet # None
    /\ sheet' = [capacity |-> q.form.capacity, deadline |-> q.form.deadline]
    /\ UNCHANGED entries

\* An edit that leaves the post a sign-up post rewrites the whole sheet: fields
\* that were not sent get the value the snapshot had.
KeepSheet(q) ==
    LET old      == q.seen.sheet
        capacity == IF q.form.capacity # 0 THEN q.form.capacity ELSE old.capacity
        deadline == IF q.form.deadline # 0 THEN q.form.deadline ELSE old.deadline
    IN  /\ NextFeature(q) = "REGISTRATION"
        /\ old = None => q.form.capacity # 0 /\ q.form.deadline # 0
        /\ old # None => capacity >= Cardinality(q.seen.entries)
        /\ q.form.deadline # 0 => q.form.deadline > now
        /\ (old = None) <=> (sheet = None)    \* create would meet a row, update would miss it
        /\ sheet' = [capacity |-> capacity, deadline |-> deadline]
        /\ UNCHANGED entries

\* An edit that turns the sign-up post into content deletes the sheet; the
\* entries go with it.
DropSheet(q) ==
    /\ NextFeature(q) = "CONTENT" /\ q.seen.post.feature = "REGISTRATION"
    /\ sheet # None
    /\ sheet' = None
    /\ entries' = {}

Edit(r) ==
    LET q == req[r] IN
    /\ q.op = "edit"
    /\ \/ KeepSheet(q)
       \/ DropSheet(q)
       \/ /\ NextFeature(q) = "CONTENT" /\ q.seen.post.feature = "CONTENT"
          /\ UNCHANGED <<sheet, entries>>
    /\ post' = [post EXCEPT !.feature = IF q.form.feature = "KEEP" THEN @ ELSE q.form.feature]
    /\ Finish(r)
    /\ UNCHANGED now

\* updateContentState: the visibility alone.
SetVisibility ==
    /\ post.state # "DELETED"
    /\ \E state \in {"ONLINE", "OFFLINE"} : post' = [post EXCEPT !.state = state]
    /\ UNCHANGED <<now, sheet, entries, req, apart>>

\* deletePost and the administrator's delete keep the sheet and its entries.
DeletePost ==
    /\ post.state # "DELETED"
    /\ post' = [post EXCEPT !.state = "DELETED"]
    /\ UNCHANGED <<now, sheet, entries, req, apart>>

\* A check threw, or a write met another row than the snapshot promised.
Fail(r) ==
    /\ req[r] # Idle
    /\ Finish(r)
    /\ UNCHANGED <<now, post, sheet, entries>>

Tick ==
    /\ now < MaxTime
    /\ now' = now + 1
    /\ UNCHANGED <<post, sheet, entries, req, apart>>

Next ==
    \/ \E r \in Requests :
         BeginRegister(r) \/ Register(r) \/ BeginEdit(r) \/ Edit(r) \/ Fail(r)
    \/ \E u \in Users : Cancel(u)
    \/ SetVisibility \/ DeletePost \/ Tick

Spec == Init /\ [][Next]_vars

----------------------------------------------------------------------------
(* Properties. *)

\* Nobody is registered on a sheet that is gone: a registration that is in
\* flight while an administrator turns the post into content does not survive.
NoOrphanEntries == entries # {} => sheet # None

\* A post that shows as an activity always has the sheet register asks for,
\* whatever edits of the feature overlap.
ActivityHasSheet == post.feature = "REGISTRATION" => sheet # None

\* Both: what refers to the sheet of a post finds one (admin.service.ts:1598-1629,
\* the insert at forum-registration.service.ts:23).
SheetIsThere == NoOrphanEntries /\ ActivityHasSheet

\* Registrations handled one at a time keep to the capacity and the deadline:
\* as long as no two transactions were in flight together, an entry appears only
\* while there is a place left and the deadline is ahead.
PlacesAndDeadlineKept ==
    [][apart => \A u \in entries' \ entries :
                  /\ Cardinality(entries) < sheet.capacity
                  /\ now < sheet.deadline]_vars

\* The same of the whole sheet, edits included: it never holds more names than
\* it has places.  Requested by forum-functional-posts-design.md:78 and by the
\* comment at forum-registration.service.ts:13 for overlapping requests too.
CapacityKept == sheet # None => Cardinality(entries) <= sheet.capacity

\* What is left of it: the sheet is within its capacity until two transactions
\* overlap for the first time.
CapacityKeptApart == apart => CapacityKept
=============================================================================
