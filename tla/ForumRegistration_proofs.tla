---------------------- MODULE ForumRegistration_proofs ----------------------
(***************************************************************************)
(* Theorems about ForumRegistration for any users, requests, capacities    *)
(* and times.                                                              *)
(*                                                                         *)
(* The first part holds for any number of overlapping requests.  The       *)
(* second says what the sheet promises until requests overlap (`apart`):   *)
(* the snapshot a request decides on is then the sheet it finds, and has   *)
(* at least its entries (a cancellation needs no lock).                    *)
(***************************************************************************)
EXTENDS ForumRegistration, FiniteSetTheorems, TLAPS

\* The inductive invariant of the first part.
IInv == TypeOK /\ NoOrphanEntries /\ ActivityHasSheet

\* A request that starts holds a snapshot of the tables.
LEMMA BeginType ==
    ASSUME IInv, NEW r \in Requests, NEW q \in Request, Begin(r, q)
    PROVE  IInv'
BY DEF IInv, TypeOK, NoOrphanEntries, ActivityHasSheet, Begin

\* A request that ends leaves the table of requests well-formed.
LEMMA FinishType ==
    ASSUME TypeOK, NEW r \in Requests, Finish(r)
    PROVE  req' \in [Requests -> Request] /\ apart' = apart
BY DEF TypeOK, Finish, Request

\* Any form, whatever the snapshot it was filled in on and the sheet it meets,
\* writes a sheet with a capacity and a deadline.
LEMMA KeepSheetType ==
    ASSUME IInv, NEW q \in [op: {"edit"}, form: Form, seen: Tables], KeepSheet(q)
    PROVE  sheet' \in Sheet
<1>1. q.form.capacity \in 0..MaxCapacity /\ q.form.deadline \in 0..MaxTime
  BY DEF Form
<1>2. q.seen.sheet = None \/ q.seen.sheet \in Sheet
  BY DEF Tables
<1> QED BY <1>1, <1>2, BoundsAssumption DEF KeepSheet, Sheet

\* One step per operation of forum-registration.service.ts and of the posts branch
\* of admin.service.ts.
LEMMA NextOK == IInv /\ [Next]_vars => IInv'
<1> SUFFICES ASSUME IInv, [Next]_vars PROVE IInv'
  OBVIOUS
<1>0. Snapshot \in Tables
  BY DEF Snapshot, Tables, IInv, TypeOK
<1>1. ASSUME NEW r \in Requests, BeginRegister(r) PROVE IInv'
  <2>1. PICK u \in Users : Begin(r, [op |-> "register", user |-> u, seen |-> Snapshot])
    BY <1>1 DEF BeginRegister
  <2> QED BY <1>0, <2>1, BeginType DEF Request
<1>2. ASSUME NEW r \in Requests, Register(r) PROVE IInv'
  <2>1. req[r] \in [op: {"register"}, user: Users, seen: Tables]
    BY <1>2 DEF IInv, TypeOK, Request, Register, Idle
  <2> QED BY <1>2, <2>1, FinishType
          DEF IInv, TypeOK, NoOrphanEntries, ActivityHasSheet, Register, InsertEntry
<1>3. ASSUME NEW r \in Requests, BeginEdit(r) PROVE IInv'
  <2>1. PICK form \in Form : Begin(r, [op |-> "edit", form |-> form, seen |-> Snapshot])
    BY <1>3 DEF BeginEdit
  <2> QED BY <1>0, <2>1, BeginType DEF Request
<1>4. ASSUME NEW r \in Requests, Edit(r) PROVE IInv'
  <2> DEFINE q == req[r]
  <2>1. q \in [op: {"edit"}, form: Form, seen: Tables]
    BY <1>4 DEF IInv, TypeOK, Request, Edit, Idle
  <2>2. /\ q.form.feature \in Feature \cup {"KEEP"} /\ q.seen.post.feature \in Feature
        /\ q.seen.sheet \in Sheet \cup {None}
    BY <2>1 DEF Form, Tables, Post
  <2>3. /\ post' = [post EXCEPT !.feature = IF q.form.feature = "KEEP" THEN @
                                             ELSE q.form.feature]
        /\ now' = now /\ req' \in [Requests -> Request] /\ apart' = apart
    BY <1>4, FinishType DEF IInv, Edit
  <2>4. post' \in Post
    BY <2>2, <2>3 DEF IInv, TypeOK, Post, Feature
  <2>5. CASE KeepSheet(q)
    <3>1. sheet' \in Sheet /\ entries' = entries
      BY <2>1, <2>5, KeepSheetType DEF KeepSheet
    <3> QED BY <2>3, <2>4, <3>1, NoneAssumption
            DEF IInv, TypeOK, NoOrphanEntries, ActivityHasSheet
  <2>6. CASE DropSheet(q)
    <3>1. q.form.feature = "CONTENT"
      BY <2>2, <2>6 DEF DropSheet, NextFeature, Feature
    <3>2. post'.feature = "CONTENT"
      BY <2>3, <3>1 DEF IInv, TypeOK, Post
    <3> QED BY <2>3, <2>4, <2>6, <3>2
            DEF DropSheet, IInv, TypeOK, NoOrphanEntries, ActivityHasSheet
  <2>7. CASE /\ NextFeature(q) = "CONTENT" /\ q.seen.post.feature = "CONTENT"
             /\ UNCHANGED <<sheet, entries>>
    <3>1. q.form.feature \in {"KEEP", "CONTENT"}
      BY <2>2, <2>7 DEF NextFeature, Feature
    <3>2. post'.feature = post.feature \/ post'.feature = "CONTENT"
      BY <2>3, <3>1 DEF IInv, TypeOK, Post
    <3> QED BY <2>3, <2>4, <2>7, <3>2 DEF IInv, TypeOK, NoOrphanEntries, ActivityHasSheet
  <2> QED BY <1>4, <2>5, <2>6, <2>7 DEF Edit
<1>5. ASSUME NEW r \in Requests, Fail(r) PROVE IInv'
  BY <1>5, FinishType DEF Fail, IInv, TypeOK, NoOrphanEntries, ActivityHasSheet
<1>6. ASSUME NEW u \in Users, Cancel(u) PROVE IInv'
  BY <1>6 DEF Cancel, IInv, TypeOK, NoOrphanEntries, ActivityHasSheet
<1>7. CASE SetVisibility
  BY <1>7 DEF SetVisibility, IInv, TypeOK, Post, NoOrphanEntries, ActivityHasSheet
<1>8. CASE DeletePost
  BY <1>8 DEF DeletePost, IInv, TypeOK, Post, NoOrphanEntries, ActivityHasSheet
<1>9. CASE Tick
  BY <1>9, BoundsAssumption DEF Tick, IInv, TypeOK, NoOrphanEntries, ActivityHasSheet
<1>10. CASE UNCHANGED vars
  BY <1>10 DEF vars, IInv, TypeOK, NoOrphanEntries, ActivityHasSheet
<1> QED BY <1>1, <1>2, <1>3, <1>4, <1>5, <1>6, <1>7, <1>8, <1>9, <1>10 DEF Next

\* A post as it is created satisfies the invariant.
LEMMA InitOK == Init => IInv
BY NoneAssumption, BoundsAssumption
   DEF Init, IInv, TypeOK, Post, Feature, Sheet, Request, NoOrphanEntries, ActivityHasSheet

\* The three facts together.
THEOREM Invariance == Spec => []IInv
BY InitOK, NextOK, PTL DEF Spec

\* The tables keep their types.
THEOREM TypeCorrect == Spec => []TypeOK
BY Invariance, PTL DEF IInv

\* No entry outlives its sheet, and a post that shows as an activity has a sheet, whatever
\* registrations and edits overlap (admin.service.ts:1598-1629, the insert at
\* forum-registration.service.ts:23).
THEOREM SheetsAreThere == Spec => []SheetIsThere
BY Invariance, PTL DEF IInv, SheetIsThere

----------------------------------------------------------------------------
(* As long as requests were handled one at a time. *)

AtMostOne == \A r, s \in Requests : req[r].op # "idle" /\ req[s].op # "idle" => r = s

\* The snapshot of a request in flight: the sheet is still that one, and entries
\* have at most been cancelled.
SeenIsCurrent ==
    \A r \in Requests : req[r].op # "idle" =>
        /\ req[r].seen.sheet = sheet
        /\ entries \subseteq req[r].seen.entries
        /\ IsFiniteSet(req[r].seen.entries)

Serial == AtMostOne /\ SeenIsCurrent /\ CapacityKept

SerialInv == IInv /\ IsFiniteSet(entries) /\ (apart => Serial)

\* What an open sheet leaves: a place, and time.
LEMMA OpenSheet ==
    ASSUME SerialInv, apart, NEW r \in Requests, Register(r)
    PROVE  /\ sheet \in Sheet
           /\ Cardinality(entries) < sheet.capacity
           /\ now < sheet.deadline
           /\ entries' = entries \cup {req[r].user}
<1> DEFINE q == req[r]
<1>1. q \in [op: {"register"}, user: Users, seen: Tables]
  BY DEF SerialInv, IInv, TypeOK, Request, Register, Idle
<1>2. /\ q.seen.sheet = sheet /\ entries \subseteq q.seen.entries
      /\ IsFiniteSet(q.seen.entries)
  BY <1>1 DEF SerialInv, Serial, SeenIsCurrent
<1>3. sheet \in Sheet
  BY <1>2 DEF SerialInv, IInv, TypeOK, Register
<1>4. /\ ~(sheet.deadline <= now) /\ ~(Cardinality(q.seen.entries) >= sheet.capacity)
  BY <1>2 DEF Register, registrationStatus
<1>5. /\ Cardinality(entries) <= Cardinality(q.seen.entries)
      /\ Cardinality(entries) \in Nat /\ Cardinality(q.seen.entries) \in Nat
  BY <1>2, FS_Subset, FS_CardinalityType
<1>6. /\ sheet.capacity \in 1..MaxCapacity /\ sheet.deadline \in 1..MaxTime /\ now \in 0..MaxTime
  BY <1>3 DEF Sheet, SerialInv, IInv, TypeOK
<1>7. Cardinality(entries) < sheet.capacity /\ now < sheet.deadline
  BY <1>4, <1>5, <1>6, BoundsAssumption
<1> QED BY <1>3, <1>7 DEF Register, InsertEntry

\* When the one request ends, no snapshot is left to be out of date.
LEMMA FinishSeen ==
    ASSUME AtMostOne, NEW r \in Requests, req \in [Requests -> Request],
           req[r].op # "idle", Finish(r)
    PROVE  AtMostOne' /\ SeenIsCurrent'
<1>1. \A s \in Requests : req'[s].op = "idle"
  BY DEF AtMostOne, Finish, Idle
<1> QED BY <1>1 DEF SeenIsCurrent, AtMostOne

\* A request that starts while no other is in flight has seen the sheet as it is.
LEMMA BeginSeen ==
    ASSUME SerialInv, NEW r \in Requests, NEW q, q.seen = Snapshot, Begin(r, q)
    PROVE  IsFiniteSet(entries') /\ (apart' => Serial')
<1>1. UNCHANGED <<sheet, entries>> /\ req \in [Requests -> Request]
  BY DEF Begin, SerialInv, IInv, TypeOK
<1>2. ASSUME apart' PROVE Serial'
  <2>1. apart /\ \A s \in Requests : req[s] = Idle
    BY <1>2 DEF Begin
  <2>2. \A s \in Requests : req'[s] = IF s = r THEN q ELSE Idle
    BY <1>1, <2>1 DEF Begin
  <2>3. AtMostOne'
    BY <2>2 DEF AtMostOne, Idle
  <2>4. SeenIsCurrent'
    BY <1>1, <2>2 DEF SeenIsCurrent, Snapshot, SerialInv, Idle
  <2>5. CapacityKept'
    BY <1>1, <2>1 DEF SerialInv, Serial, CapacityKept
  <2> QED BY <2>3, <2>4, <2>5 DEF Serial
<1> QED BY <1>1, <1>2 DEF SerialInv

\* The capacity an edit writes covers the entries there are.
LEMMA EditCapacity ==
    ASSUME SerialInv, apart, NEW r \in Requests, Edit(r)
    PROVE  CapacityKept'
<1> DEFINE q == req[r]
<1>1. q \in [op: {"edit"}, form: Form, seen: Tables]
  BY DEF SerialInv, IInv, TypeOK, Request, Edit, Idle
<1>2. /\ q.seen.sheet = sheet /\ entries \subseteq q.seen.entries
      /\ IsFiniteSet(q.seen.entries)
  BY <1>1 DEF SerialInv, Serial, SeenIsCurrent
<1>3. CASE KeepSheet(q)
  <2>1. sheet' \in Sheet /\ entries' = entries
    BY <1>1, <1>3, KeepSheetType DEF KeepSheet, SerialInv
  <2>2. CASE sheet = None
    <3>1. entries = {}
      BY <2>2 DEF SerialInv, IInv, NoOrphanEntries
    <3>2. sheet'.capacity >= 0 /\ Cardinality(entries') = 0
      BY <2>1, <3>1, FS_EmptySet, BoundsAssumption DEF Sheet
    <3> QED BY <3>2 DEF CapacityKept
  <2>3. CASE sheet # None
    <3>1. sheet'.capacity >= Cardinality(q.seen.entries)
      BY <1>2, <1>3, <2>3 DEF KeepSheet
    <3>2. /\ Cardinality(entries) <= Cardinality(q.seen.entries)
          /\ Cardinality(entries) \in Nat /\ Cardinality(q.seen.entries) \in Nat
      BY <1>2, FS_Subset, FS_CardinalityType
    <3>3. sheet'.capacity \in Nat
      BY <2>1, BoundsAssumption DEF Sheet
    <3> QED BY <2>1, <3>1, <3>2, <3>3 DEF CapacityKept
  <2> QED BY <2>2, <2>3
<1>4. CASE DropSheet(q)
  BY <1>4, FS_EmptySet DEF DropSheet, CapacityKept
<1>5. CASE UNCHANGED <<sheet, entries>>
  BY <1>5 DEF SerialInv, Serial, CapacityKept
<1> QED BY <1>3, <1>4, <1>5 DEF Edit

\* One step per operation, as for IInv.
LEMMA SerialNextOK ==
    ASSUME SerialInv, [Next]_vars
    PROVE  SerialInv'
<1>0. IInv'
  BY NextOK DEF SerialInv
<1>0a. req \in [Requests -> Request] /\ IsFiniteSet(entries)
  BY DEF SerialInv, IInv, TypeOK
<1>1. ASSUME NEW r \in Requests, BeginRegister(r) PROVE SerialInv'
  <2>1. PICK u \in Users : Begin(r, [op |-> "register", user |-> u, seen |-> Snapshot])
    BY <1>1 DEF BeginRegister
  <2> QED BY <1>0, <2>1, BeginSeen DEF SerialInv
<1>2. ASSUME NEW r \in Requests, Register(r) PROVE SerialInv'
  <2>1. entries' = entries \cup {req[r].user} /\ Finish(r) /\ sheet' = sheet
    BY <1>2 DEF Register, InsertEntry
  <2>2. /\ IsFiniteSet(entries') /\ Cardinality(entries) \in Nat
        /\ \/ Cardinality(entries') = Cardinality(entries)
           \/ Cardinality(entries') = Cardinality(entries) + 1
    <3>1. Cardinality(entries) \in Nat
      BY <1>0a, FS_CardinalityType
    <3> QED BY <1>0a, <2>1, <3>1, FS_AddElement
  <2>3. apart' = apart
    BY <2>1 DEF Finish
  <2>4. ASSUME apart PROVE Serial'
    <3>1. sheet \in Sheet /\ Cardinality(entries) < sheet.capacity
      BY <1>2, <2>4, OpenSheet
    <3>2. sheet.capacity \in Nat
      BY <3>1, BoundsAssumption DEF Sheet
    <3>3. CapacityKept'
      BY <2>1, <2>2, <3>1, <3>2 DEF CapacityKept
    <3>4. AtMostOne' /\ SeenIsCurrent'
      BY <1>0a, <1>2, <2>1, <2>4, FinishSeen DEF SerialInv, Serial, Register
    <3> QED BY <3>3, <3>4 DEF Serial
  <2> QED BY <1>0, <2>2, <2>3, <2>4 DEF SerialInv
<1>3. ASSUME NEW r \in Requests, BeginEdit(r) PROVE SerialInv'
  <2>1. PICK form \in Form : Begin(r, [op |-> "edit", form |-> form, seen |-> Snapshot])
    BY <1>3 DEF BeginEdit
  <2> QED BY <1>0, <2>1, BeginSeen DEF SerialInv
<1>4. ASSUME NEW r \in Requests, Edit(r) PROVE SerialInv'
  <2>1. Finish(r) /\ apart' = apart /\ req[r].op # "idle"
    BY <1>4 DEF Edit, Finish
  <2>2. IsFiniteSet(entries')
    BY <1>0a, <1>4, FS_EmptySet DEF Edit, KeepSheet, DropSheet
  <2>3. ASSUME apart PROVE Serial'
    <3>1. AtMostOne' /\ SeenIsCurrent'
      BY <1>0a, <2>1, <2>3, FinishSeen DEF SerialInv, Serial
    <3> QED BY <1>4, <2>3, <3>1, EditCapacity DEF Serial
  <2> QED BY <1>0, <2>1, <2>2, <2>3 DEF SerialInv
<1>5. ASSUME NEW r \in Requests, Fail(r) PROVE SerialInv'
  <2>1. /\ Finish(r) /\ apart' = apart /\ req[r].op # "idle"
        /\ UNCHANGED <<sheet, entries>>
    <3>1. req[r] # Idle /\ req[r] \in Request
      BY <1>0a, <1>5 DEF Fail
    <3>2. req[r].op # "idle"
      BY <3>1 DEF Request, Idle
    <3> QED BY <1>5, <3>2 DEF Fail, Finish
  <2>2. ASSUME apart PROVE Serial'
    <3>1. AtMostOne' /\ SeenIsCurrent'
      BY <1>0a, <2>1, <2>2, FinishSeen DEF SerialInv, Serial
    <3> QED BY <2>1, <2>2, <3>1 DEF SerialInv, Serial, CapacityKept
  <2> QED BY <1>0, <1>0a, <2>1, <2>2 DEF SerialInv
<1>6. ASSUME NEW u \in Users, Cancel(u) PROVE SerialInv'
  <2>1. /\ entries' = entries \ {u} /\ UNCHANGED <<sheet, req, apart>>
    BY <1>6 DEF Cancel
  <2>2. /\ IsFiniteSet(entries') /\ Cardinality(entries') <= Cardinality(entries)
        /\ Cardinality(entries') \in Nat /\ Cardinality(entries) \in Nat
    BY <2>1, FS_Subset, FS_CardinalityType DEF SerialInv
  <2>3. ASSUME apart PROVE Serial'
    <3>1. AtMostOne' /\ SeenIsCurrent'
      BY <2>1, <2>3 DEF SerialInv, Serial, SeenIsCurrent, AtMostOne
    <3>2. CapacityKept'
      <4> SUFFICES ASSUME sheet # None PROVE Cardinality(entries') <= sheet.capacity
        BY <2>1 DEF CapacityKept
      <4>1. Cardinality(entries) <= sheet.capacity /\ sheet.capacity \in Nat
        BY <2>3, BoundsAssumption DEF SerialInv, Serial, CapacityKept, IInv, TypeOK, Sheet
      <4> QED BY <2>2, <4>1
    <3> QED BY <3>1, <3>2 DEF Serial
  <2> QED BY <1>0, <2>1, <2>2, <2>3 DEF SerialInv
<1>7. CASE UNCHANGED <<sheet, entries, req, apart>>
  BY <1>0, <1>7 DEF SerialInv, Serial, AtMostOne, SeenIsCurrent, CapacityKept
<1> QED BY <1>1, <1>2, <1>3, <1>4, <1>5, <1>6, <1>7
        DEF Next, SetVisibility, DeletePost, Tick, vars

\* A new sheet is empty, and nothing is in flight.
LEMMA SerialInitOK == Init => SerialInv
<1> SUFFICES ASSUME Init PROVE SerialInv
  OBVIOUS
<1>1. IsFiniteSet(entries) /\ Cardinality(entries) = 0
  BY FS_EmptySet DEF Init
<1>2. CapacityKept
  BY <1>1, BoundsAssumption DEF Init, CapacityKept, Sheet
<1>3. SeenIsCurrent
  BY DEF Init, SeenIsCurrent, Idle
<1>4. AtMostOne
  BY DEF Init, AtMostOne, Idle
<1> QED BY <1>1, <1>2, <1>3, <1>4, InitOK DEF SerialInv, Serial

\* Until two transactions overlap, registrations and edits never leave more names on
\* a sheet than it has places (forum-registration.service.ts:18, admin.service.ts:1613).
THEOREM SerialCapacity == Spec => []CapacityKeptApart
<1>1. SerialInv /\ [Next]_vars => SerialInv'
  BY SerialNextOK
<1>2. SerialInv => CapacityKeptApart
  BY DEF SerialInv, Serial, CapacityKeptApart
<1> QED BY SerialInitOK, <1>1, <1>2, PTL DEF Spec

\* And nobody is entered without a place, or after the deadline
\* (forum-feature.ts:14-21).
THEOREM SerialPlaces == Spec => PlacesAndDeadlineKept
<1>1. SerialInv /\ [Next]_vars => SerialInv'
  BY SerialNextOK
<1>2. ASSUME SerialInv, [Next]_vars, apart, NEW u \in entries' \ entries
      PROVE  Cardinality(entries) < sheet.capacity /\ now < sheet.deadline
  <2>1. PICK r \in Requests : Register(r)
    <3>1. ~(\E r \in Requests : Register(r)) => entries' \subseteq entries
      BY <1>2 DEF Next, vars, BeginRegister, BeginEdit, Begin, Edit, KeepSheet, DropSheet,
                  Fail, Cancel, SetVisibility, DeletePost, Tick
    <3> QED BY <1>2, <3>1
  <2> QED BY <1>2, <2>1, OpenSheet
<1>3. SerialInv /\ [Next]_vars =>
        [apart => \A u \in entries' \ entries :
                    /\ Cardinality(entries) < sheet.capacity
                    /\ now < sheet.deadline]_vars
  BY <1>2
<1> QED BY SerialInitOK, <1>1, <1>3, PTL DEF Spec, PlacesAndDeadlineKept
=============================================================================
