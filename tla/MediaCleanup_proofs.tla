------------------------- MODULE MediaCleanup_proofs -------------------------
(***************************************************************************)
(* What MediaCleanup keeps for every number of pictures, contents, workers *)
(* and uploads.                                                            *)
(*                                                                         *)
(* Of two rows in two systems, what carries the argument is one fact about *)
(* where a worker is: the row it has in hand has left the states a content *)
(* can use, and for a picture uploaded once there is no way back to them.  *)
(***************************************************************************)
EXTENDS MediaCleanup, TLAPS

\* A worker has a row in hand from the claim to the outcome.
HandIsFull == \A w \in Workers : worker[w].at = NoUrl <=> worker[w].phase = "list"

Usable == {"ABSENT", "PENDING", "ATTACHED"}

\* What holds of a picture uploaded once.
RowOK(m) ==
    /\ upload[m].count = 0 \/ upload[m].put => asset[m] = "ABSENT"
    /\ upload[m].put => upload[m].count = 1 /\ object[m]
    /\ asset[m] \in {"PENDING", "ATTACHED"} => object[m]
    /\ asset[m] = "DELETED" => ~object[m]
    /\ \A w \in Workers : worker[w].at = m =>
         /\ asset[m] \notin Usable
         /\ worker[w].phase = "removed" => ~object[m]

IInv == TypeOK /\ HandIsFull /\ \A m \in Urls : UploadedOnce(m) => RowOK(m)

----------------------------------------------------------------------------
(* Types. *)

Batches == UNION {[S -> AssetState] : S \in SUBSET Urls}

\* The rows listed are a batch, and so is what is left of one.
LEMMA BatchType ==
    /\ \A S \in SUBSET Urls, rows \in [Urls -> AssetState] : [m \in S |-> rows[m]] \in Batches
    /\ \A b \in Batches, m \in Urls :
         /\ DOMAIN b \subseteq Urls
         /\ [n \in DOMAIN b \ {m} |-> b[n]] \in Batches
         /\ \A n \in DOMAIN b : b[n] \in AssetState
  <1>1. ASSUME NEW S \in SUBSET Urls, NEW rows \in [Urls -> AssetState]
        PROVE  [m \in S |-> rows[m]] \in Batches
    <2>1. [m \in S |-> rows[m]] \in [S -> AssetState]
      OBVIOUS
    <2> QED BY <2>1 DEF Batches
  <1>2. ASSUME NEW b \in Batches, NEW m \in Urls
        PROVE  /\ DOMAIN b \subseteq Urls
               /\ [n \in DOMAIN b \ {m} |-> b[n]] \in Batches
               /\ \A n \in DOMAIN b : b[n] \in AssetState
    <2>1. PICK S \in SUBSET Urls : b \in [S -> AssetState]
      BY DEF Batches
    <2>2. [n \in S \ {m} |-> b[n]] \in [S \ {m} -> AssetState]
      BY <2>1
    <2> QED BY <2>1, <2>2 DEF Batches
  <1> QED BY <1>1, <1>2

\* What contents do to the rows.
LEMMA RowsType ==
    \A rows \in [Urls -> AssetState], urls \in SUBSET Urls :
       Attach(rows, urls) \in [Urls -> AssetState] /\ RequestDelete(rows, urls) \in [Urls -> AssetState]
  BY DEF Attach, RequestDelete, AssetState

\* A worker that has dropped its row holds none.
LEMMA DropIs ==
    ASSUME TypeOK, NEW w \in Workers, NEW m \in Urls, Drop(w, m)
    PROVE  /\ worker' \in [Workers -> WorkerState]
           /\ worker'[w].at = NoUrl /\ worker'[w].phase = "list"
           /\ \A v \in Workers \ {w} : worker'[v] = worker[v]
  <1>1. worker[w].batch \in Batches /\ worker \in [Workers -> WorkerState]
    BY DEF TypeOK, WorkerState, Batches
  <1>2. [n \in DOMAIN worker[w].batch \ {m} |-> worker[w].batch[n]] \in Batches
    BY <1>1, BatchType
  <1> QED BY <1>1, <1>2 DEF Drop, WorkerState, Batches

\* A worker that goes on keeps its batch.
LEMMA AdvanceIs ==
    ASSUME TypeOK, NEW w \in Workers, NEW at \in Urls \cup {NoUrl},
           NEW phase \in {"list", "claimed", "fresh", "removed", "failed"}, Advance(w, at, phase)
    PROVE  /\ worker' \in [Workers -> WorkerState]
           /\ worker'[w].at = at /\ worker'[w].phase = phase
           /\ \A v \in Workers \ {w} : worker'[v] = worker[v]
  BY ZenonT(40) DEF Advance, TypeOK, WorkerState

\* A worker that starts has no batch.
LEMMA AsleepType == Asleep \in WorkerState
  <1>1. [m \in {} |-> "ABSENT"] \in [{} -> AssetState]
    OBVIOUS
  <1> QED BY <1>1 DEF Asleep, WorkerState

\* Nothing has happened yet.
LEMMA InitOK == Init => IInv
  <1> SUFFICES ASSUME Init PROVE IInv
    OBVIOUS
  <1>2. TypeOK
    BY AsleepType, MediaAssumption DEF Init, TypeOK, Absent, AssetState, ContentState
  <1> QED BY <1>2, MediaAssumption DEF Init, IInv, HandIsFull, RowOK, Asleep, Absent, Usable

----------------------------------------------------------------------------
(* Steps. *)

\* One step per operation of uploadMedia, of the contents and of the worker.
LEMMA NextOK == IInv /\ [Next]_vars => IInv'
  <1> SUFFICES ASSUME IInv, [Next]_vars PROVE IInv'
    OBVIOUS
  <1> USE MediaAssumption
  <1>1. ASSUME NEW m \in Urls, PutObject(m) PROVE IInv'
    <2>1. upload[m].count \in 0..MaxUploads /\ upload[m] \in [count: 0..MaxUploads, put: BOOLEAN]
      BY DEF IInv, TypeOK
    <2>2. TypeOK' /\ HandIsFull'
      BY <1>1, <2>1 DEF PutObject, IInv, TypeOK, HandIsFull
    <2>3. ASSUME NEW n \in Urls, UploadedOnce(n)' PROVE RowOK(n)'
      <3>1. CASE n = m
        <4>1. upload[m].count = 0
          BY <1>1, <2>1, <2>3, <3>1 DEF PutObject, IInv, TypeOK, UploadedOnce
        <4> QED BY <1>1, <4>1, <2>3, <3>1
                DEF PutObject, IInv, TypeOK, RowOK, UploadedOnce, Usable
      <3> QED BY <1>1, <2>3, <3>1 DEF PutObject, IInv, TypeOK, RowOK, UploadedOnce
    <2> QED BY <2>2, <2>3 DEF IInv
  <1>2. ASSUME NEW m \in Urls, RegisterUploaded(m) PROVE IInv'
    <2>1. upload[m] \in [count: 0..MaxUploads, put: BOOLEAN]
      BY DEF IInv, TypeOK
    <2>2. TypeOK' /\ HandIsFull'
      BY <1>2, <2>1 DEF RegisterUploaded, IInv, TypeOK, HandIsFull, AssetState
    <2>3. ASSUME NEW n \in Urls, UploadedOnce(n)' PROVE RowOK(n)'
      <3>1. RowOK(n) /\ upload'[n].count = upload[n].count
        BY <1>2, <2>1, <2>3 DEF RegisterUploaded, IInv, TypeOK, UploadedOnce
      <3>2. CASE n = m
        <4>1. object[m] /\ asset'[m] = "PENDING" /\ ~upload'[m].put /\ upload[m].count = 1
          BY <1>2, <2>1, <3>1, <3>2 DEF RegisterUploaded, RowOK, IInv, TypeOK
        <4> QED BY <1>2, <3>1, <3>2, <4>1 DEF RegisterUploaded, RowOK, Usable
      <3>3. CASE n # m
        BY <1>2, <3>1, <3>3 DEF RegisterUploaded, RowOK, IInv, TypeOK
      <3> QED BY <3>2, <3>3
    <2> QED BY <2>2, <2>3 DEF IInv
  <1>3. ASSUME NEW m \in Urls, RegisterFails(m) PROVE IInv'
    <2>1. upload[m] \in [count: 0..MaxUploads, put: BOOLEAN]
      BY DEF IInv, TypeOK
    <2>2. upload' \in [Urls -> [count: 0..MaxUploads, put: BOOLEAN]]
      BY <1>3, <2>1 DEF RegisterFails, IInv, TypeOK
    <2>3. faults' \in 0..MaxFaults
      BY <1>3 DEF RegisterFails, IInv, TypeOK
    <2>4. TypeOK' /\ HandIsFull'
      BY <1>3, <2>2, <2>3 DEF RegisterFails, IInv, TypeOK, HandIsFull
    <2>5. ASSUME NEW n \in Urls, UploadedOnce(n)' PROVE RowOK(n)'
      BY <1>3, <2>1, <2>5 DEF RegisterFails, IInv, TypeOK, RowOK, UploadedOnce, Usable
    <2> QED BY <2>4, <2>5 DEF IInv
  <1>4. ASSUME NEW m \in Urls, Age(m) PROVE IInv'
    BY <1>4 DEF Age, IInv, TypeOK, HandIsFull, RowOK, UploadedOnce, Usable
  <1>5. ASSUME NEW c \in Contents, BeginCreate(c) PROVE IInv'
    BY <1>5 DEF BeginCreate, IInv, TypeOK, ContentState, HandIsFull, RowOK, UploadedOnce, Usable
  <1>6. ASSUME NEW c \in Contents, Create(c) PROVE IInv'
    <2>1. content[c] \in ContentState /\ content[c].urls \in SUBSET Urls
      BY DEF IInv, TypeOK, ContentState
    <2>2. TypeOK'
      BY <1>6, <2>1, RowsType DEF Create, IInv, TypeOK, ContentState, Absent, AssetState
    <2> QED BY <1>6, <2>1, <2>2
            DEF Create, Attach, IInv, TypeOK, HandIsFull, RowOK, UploadedOnce, Usable
  <1>7. ASSUME NEW c \in Contents, CreateFails(c) PROVE IInv'
    BY <1>7 DEF CreateFails, Absent, AssetState, IInv, TypeOK, ContentState, HandIsFull, RowOK,
                UploadedOnce, Usable
  <1>8. ASSUME NEW c \in Contents, Delete(c) PROVE IInv'
    <2>1. content[c] \in ContentState /\ content[c].urls \in SUBSET Urls
      BY DEF IInv, TypeOK, ContentState
    <2>2. TypeOK'
      BY <1>8, <2>1, RowsType DEF Delete, IInv, TypeOK, ContentState
    <2> QED BY <1>8, <2>1, <2>2
            DEF Delete, RequestDelete, Condemnable, IInv, TypeOK, HandIsFull, RowOK, UploadedOnce,
                Usable
  <1>9. ASSUME NEW w \in Workers, ListBatch(w) PROVE IInv'
    <2>1. Oldest(mediaCleanupWhere) \in SUBSET Urls
      BY DEF Oldest, mediaCleanupWhere
    <2>2. [m \in Oldest(mediaCleanupWhere) |-> asset[m]] \in
             [Oldest(mediaCleanupWhere) -> AssetState]
      BY <2>1 DEF IInv, TypeOK
    <2>3. worker' \in [Workers -> WorkerState]
      <3> DEFINE listed == [m \in Oldest(mediaCleanupWhere) |-> asset[m]]
      <3>1. listed \in Batches /\ worker' = [worker EXCEPT ![w].batch = listed]
        BY <1>9, <2>1, <2>2 DEF ListBatch, Batches
      <3> HIDE DEF listed
      <3> QED BY <3>1, ZenonT(40) DEF IInv, TypeOK, WorkerState, Batches
    <2>4. TypeOK'
      BY <1>9, <2>3 DEF ListBatch, IInv, TypeOK
    <2> QED BY <1>9, <2>4 DEF ListBatch, IInv, TypeOK, HandIsFull, RowOK, UploadedOnce
  <1>10. ASSUME NEW w \in Workers, NEW m \in Urls, Claim(w, m) PROVE IInv'
    <2>1. CASE /\ Claimable(worker[w].batch[m], asset[m])
               /\ asset' = [asset EXCEPT ![m] = "DELETING"] /\ Advance(w, m, "claimed")
      <3>1. asset[m] # "ABSENT" /\ asset[m] # "ATTACHED" /\ asset \in [Urls -> AssetState]
        BY <2>1 DEF Claimable, Queue, IInv, TypeOK
      <3>2. TypeOK' /\ HandIsFull'
        BY <1>10, <2>1, <3>1, AdvanceIs, SMTT(40) DEF Claim, IInv, TypeOK, HandIsFull, AssetState
      <3>3. ASSUME NEW n \in Urls, UploadedOnce(n)' PROVE RowOK(n)'
        <4>1. RowOK(n) /\ UNCHANGED <<upload, object>>
          BY <1>10, <3>3 DEF Claim, IInv, UploadedOnce
        <4> QED BY <2>1, <3>1, <4>1, AdvanceIs DEF IInv, RowOK, Usable
      <3> QED BY <3>2, <3>3 DEF IInv
    <2>2. CASE Drop(w, m) /\ UNCHANGED asset
      <3>1. TypeOK' /\ HandIsFull'
        BY <1>10, <2>2, DropIs DEF Claim, IInv, TypeOK, HandIsFull
      <3>2. ASSUME NEW n \in Urls, UploadedOnce(n)' PROVE RowOK(n)'
        <4>1. RowOK(n) /\ UNCHANGED <<upload, object>>
          BY <1>10, <3>2 DEF Claim, IInv, UploadedOnce
        <4> QED BY <2>2, <4>1, DropIs DEF IInv, RowOK
      <3> QED BY <3>1, <3>2 DEF IInv
    <2> QED BY <1>10, <2>1, <2>2 DEF Claim
  <1>11. ASSUME NEW w \in Workers, Reread(w) PROVE IInv'
    <2>1. worker[w].at \in Urls
      BY <1>11 DEF Reread, IInv, HandIsFull, TypeOK, WorkerState
    <2>2. /\ worker' \in [Workers -> WorkerState]
          /\ \A v \in Workers \ {w} : worker'[v] = worker[v]
          /\ \/ worker'[w].at = worker[w].at /\ worker'[w].phase = "fresh"
             \/ worker'[w].at = NoUrl /\ worker'[w].phase = "list"
      BY <1>11, <2>1, AdvanceIs, DropIs DEF Reread, IInv
    <2>3. UNCHANGED <<asset, old, object, upload, content, faults>>
      BY <1>11 DEF Reread
    <2>4. TypeOK' /\ HandIsFull'
      BY <2>1, <2>2, <2>3 DEF IInv, TypeOK, HandIsFull
    <2>5. ASSUME NEW m \in Urls, UploadedOnce(m)' PROVE RowOK(m)'
      BY <2>2, <2>3, <2>5 DEF IInv, RowOK, UploadedOnce
    <2> QED BY <2>4, <2>5 DEF IInv
  <1>12. ASSUME NEW w \in Workers, DeleteObject(w) PROVE IInv'
    <2>1. worker[w].at \in Urls
      BY <1>12 DEF DeleteObject, IInv, HandIsFull, TypeOK, WorkerState
    <2>2. TypeOK' /\ HandIsFull'
      <3>1. object' \in [Urls -> BOOLEAN]
        BY <1>12, <2>1 DEF DeleteObject, IInv, TypeOK
      <3>2. worker' \in [Workers -> WorkerState] /\ HandIsFull'
        BY <1>12, <2>1, AdvanceIs DEF DeleteObject, IInv, HandIsFull
      <3> QED BY <1>12, <3>1, <3>2 DEF DeleteObject, IInv, TypeOK
    <2>3. ASSUME NEW n \in Urls, UploadedOnce(n)' PROVE RowOK(n)'
      <3>1. RowOK(n) /\ UNCHANGED <<upload, asset>> /\ asset[n] \in AssetState
        BY <1>12, <2>3 DEF DeleteObject, IInv, TypeOK, UploadedOnce
      <3>2. CASE n = worker[w].at
        <4>1. ~object'[n] /\ asset[n] \notin Usable
          BY <1>12, <2>1, <3>1, <3>2 DEF DeleteObject, RowOK, IInv, TypeOK
        <4> QED BY <1>12, <2>1, <3>1, <4>1, AdvanceIs DEF DeleteObject, RowOK, Usable, IInv
      <3>3. CASE n # worker[w].at
        <4>1. object'[n] = object[n]
          BY <1>12, <2>1, <3>3 DEF DeleteObject, IInv, TypeOK
        <4> QED BY <1>12, <2>1, <3>1, <3>3, <4>1, AdvanceIs DEF DeleteObject, RowOK, IInv
      <3> QED BY <3>2, <3>3
    <2> QED BY <2>2, <2>3 DEF IInv
  <1>13. ASSUME NEW w \in Workers, DeleteObjectFails(w) PROVE IInv'
    <2>1. worker[w].at \in Urls
      BY <1>13 DEF DeleteObjectFails, IInv, HandIsFull, TypeOK, WorkerState
    <2> QED BY <1>13, <2>1, AdvanceIs
            DEF DeleteObjectFails, IInv, TypeOK, HandIsFull, RowOK, UploadedOnce
  <1>14. ASSUME NEW w \in Workers, Settle(w) PROVE IInv'
    <2>1. worker[w].at \in Urls
      BY <1>14 DEF Settle, IInv, HandIsFull, TypeOK, WorkerState
    <2>2. asset' \in [Urls -> AssetState]
      BY <1>14, <2>1 DEF Settle, IInv, TypeOK, AssetState
    <2>3. TypeOK' /\ HandIsFull'
      BY <1>14, <2>1, <2>2, DropIs DEF Settle, IInv, TypeOK, HandIsFull
    <2>4. ASSUME NEW n \in Urls, UploadedOnce(n)' PROVE RowOK(n)'
      <3>1. RowOK(n) /\ UNCHANGED <<upload, object>> /\ asset \in [Urls -> AssetState]
        BY <1>14, <2>4 DEF Settle, IInv, TypeOK, UploadedOnce
      <3>2. asset'[n] # asset[n] =>
              /\ n = worker[w].at /\ asset'[n] \in {"DELETED", "DELETE_FAILED"}
              /\ asset'[n] = "DELETED" => worker[w].phase = "removed"
        BY <1>14, <2>1, <3>1 DEF Settle
      <3> QED BY <1>14, <2>1, <3>1, <3>2, DropIs DEF Settle, IInv, RowOK, Usable
    <2> QED BY <2>3, <2>4 DEF IInv
  <1>15. ASSUME NEW w \in Workers, Crash(w) PROVE IInv'
    <2> QED BY <1>15, AsleepType DEF Crash, Asleep, IInv, TypeOK, HandIsFull, RowOK, UploadedOnce
  <1>16. CASE UNCHANGED vars
    BY <1>16 DEF vars, IInv, TypeOK, HandIsFull, RowOK, UploadedOnce
  <1> QED BY <1>1, <1>2, <1>3, <1>4, <1>5, <1>6, <1>7, <1>8, <1>9, <1>10, <1>11, <1>12, <1>13,
             <1>14, <1>15, <1>16 DEF Next, Work

THEOREM Invariance == Spec => []IInv
  BY InitOK, NextOK, PTL DEF Spec

\* The tables, the batches and what each worker has in hand keep their types.
THEOREM TypeCorrect == Spec => []TypeOK
  BY Invariance, PTL DEF IInv

\* For a picture uploaded once, rows and store agree both ways, whatever contents and
\* any number of workers do, and wherever they die (media-asset.service.ts:175-264).
THEOREM StoreMatches == Spec => []StoreMatchesRows
  <1>1. IInv => StoreMatchesRows
    BY DEF IInv, RowOK, StoreMatchesRows
  <1> QED BY Invariance, <1>1, PTL

----------------------------------------------------------------------------
(* The life of a picture. *)

\* A content that is being created has looked at rows there are; those of one that lives
\* do not wait any longer.
ContentsOK ==
    \A c \in Contents : \A m \in content[c].urls : UploadedOnce(m) =>
        /\ content[c].state = "CREATING" /\ content[c].seen[m] \in {"PENDING", "ATTACHED"}
             => asset[m] # "ABSENT"
        /\ content[c].state = "LIVE" => asset[m] \notin {"ABSENT", "PENDING"}

\* What a worker has listed as unused is stale.
ListedAreStale ==
    \A w \in Workers : \A m \in DOMAIN worker[w].batch : worker[w].batch[m] = "PENDING" => old[m]

\* What is not there is not old.
AbsentAreYoung == \A m \in Urls : asset[m] = "ABSENT" => ~old[m]

LifeInv == IInv /\ ContentsOK /\ ListedAreStale /\ AbsentAreYoung

\* Neither contents nor batches.
LEMMA LifeInitOK == Init => LifeInv
  BY InitOK DEF Init, LifeInv, ContentsOK, ListedAreStale, AbsentAreYoung, Asleep

\* A row of a picture uploaded once is there for good, and waits once.
LEMMA RowsAdvance ==
    ASSUME IInv, [Next]_vars, NEW m \in Urls, UploadedOnce(m)'
    PROVE  /\ UploadedOnce(m) /\ asset'[m] \in AssetState
           /\ asset[m] # "ABSENT" => asset'[m] # "ABSENT"
           /\ asset[m] \notin {"ABSENT", "PENDING"} => asset'[m] \notin {"ABSENT", "PENDING"}
  <1>1. asset \in [Urls -> AssetState] /\ upload \in [Urls -> [count: 0..MaxUploads, put: BOOLEAN]]
    BY DEF IInv, TypeOK
  <1>2. IInv'
    BY NextOK
  <1>3. UploadedOnce(m)
    <2>1. upload[m].count <= upload'[m].count
      <3>1. ASSUME NEW n \in Urls, PutObject(n) \/ RegisterUploaded(n) \/ RegisterFails(n)
            PROVE  upload[m].count <= upload'[m].count
        BY <1>1, <3>1, MediaAssumption DEF PutObject, RegisterUploaded, RegisterFails
      <3>2. CASE upload' = upload
        BY <1>1, <3>2, MediaAssumption
      <3> QED BY <3>1, <3>2 DEF Next, Work, vars, Age, BeginCreate, Create, CreateFails, Delete,
                              ListBatch, Claim, Reread, DeleteObject, DeleteObjectFails, Settle, Crash
    <2> QED BY <1>1, <1>2, <2>1, MediaAssumption DEF UploadedOnce, IInv, TypeOK
  <1>4. RowOK(m)
    BY <1>3 DEF IInv
  <1>5. ASSUME NEW n \in Urls, RegisterUploaded(n) \/ PutObject(n) \/ RegisterFails(n) \/ Age(n)
        PROVE  /\ asset[m] # "ABSENT" => asset'[m] # "ABSENT"
               /\ asset[m] \notin {"ABSENT", "PENDING"} => asset'[m] = asset[m]
    BY <1>1, <1>4, <1>5 DEF RegisterUploaded, PutObject, RegisterFails, Age, RowOK
  <1>6. ASSUME NEW w \in Workers, Settle(w)
        PROVE  asset[m] = asset'[m] \/ asset'[m] \in {"DELETED", "DELETE_FAILED"}
    BY <1>1, <1>6 DEF Settle
  <1>7. ASSUME NEW w \in Workers, NEW n \in Urls, Claim(w, n)
        PROVE  asset[m] = asset'[m] \/ asset'[m] = "DELETING"
    BY <1>1, <1>7 DEF Claim
  <1>8. ASSUME NEW c \in Contents, Create(c) \/ Delete(c)
        PROVE  asset[m] = asset'[m] \/ asset'[m] \in {"ATTACHED", "DELETE_PENDING"}
    BY <1>1, <1>8 DEF Create, Delete, Attach, RequestDelete
  <1> QED BY <1>2, <1>3, <1>5, <1>6, <1>7, <1>8
          DEF IInv, TypeOK, Next, Work, vars, BeginCreate, CreateFails, ListBatch, Reread,
              DeleteObject, DeleteObjectFails, Crash

\* Only a content's own steps need a look: the rows advance.
LEMMA ContentsNextOK == LifeInv /\ [Next]_vars => ContentsOK'
  <1> SUFFICES ASSUME LifeInv, [Next]_vars, NEW c \in Contents, NEW m \in content'[c].urls,
                      UploadedOnce(m)'
               PROVE  /\ content'[c].state = "CREATING" /\ content'[c].seen[m] \in {"PENDING", "ATTACHED"}
                           => asset'[m] # "ABSENT"
                      /\ content'[c].state = "LIVE" => asset'[m] \notin {"ABSENT", "PENDING"}
    BY DEF ContentsOK
  <1>0. /\ IInv /\ content \in [Contents -> ContentState] /\ asset \in [Urls -> AssetState]
        /\ content'[c] \in ContentState
    BY NextOK DEF LifeInv, IInv, TypeOK
  <1>1. m \in Urls
    BY <1>0 DEF ContentState
  <1>2. /\ UploadedOnce(m)
        /\ asset[m] # "ABSENT" => asset'[m] # "ABSENT"
        /\ asset[m] \notin {"ABSENT", "PENDING"} => asset'[m] \notin {"ABSENT", "PENDING"}
    BY <1>0, <1>1, RowsAdvance
  <1>3. CASE content'[c] = content[c]
    BY <1>2, <1>3 DEF LifeInv, ContentsOK
  <1>4. CASE BeginCreate(c)
    BY <1>0, <1>2, <1>4 DEF BeginCreate
  <1>5. CASE Create(c)
    <2>1. /\ m \in content[c].urls /\ content'[c].state = "LIVE"
          /\ content[c].state = "CREATING" /\ content[c].seen[m] \in {"PENDING", "ATTACHED"}
      BY <1>0, <1>5 DEF Create, MayAttach, ContentState
    <2>2. asset[m] # "ABSENT"
      BY <1>2, <2>1 DEF LifeInv, ContentsOK
    <2> QED BY <1>0, <1>1, <1>5, <2>1, <2>2 DEF Create, Attach
  <1>6. CASE CreateFails(c) \/ Delete(c)
    BY <1>0, <1>6 DEF CreateFails, Delete, ContentState
  <1>7. ASSUME NEW d \in Contents \ {c}, BeginCreate(d) \/ Create(d) \/ CreateFails(d) \/ Delete(d)
        PROVE  content'[c] = content[c]
    BY <1>0, <1>7 DEF BeginCreate, Create, CreateFails, Delete
  <1> QED BY <1>3, <1>4, <1>5, <1>6, <1>7
          DEF Next, Work, vars, PutObject, RegisterUploaded, RegisterFails, Age, ListBatch, Claim,
              Reread, DeleteObject, DeleteObjectFails, Settle, Crash

\* Rows do not get younger, and a batch is listed or shrinks.
LEMMA ListedNextOK == LifeInv /\ [Next]_vars => ListedAreStale'
  <1> SUFFICES ASSUME LifeInv, [Next]_vars, NEW w \in Workers, NEW m \in DOMAIN worker'[w].batch,
                      worker'[w].batch[m] = "PENDING"
               PROVE  old'[m]
    BY DEF ListedAreStale
  <1>0. /\ IInv /\ TypeOK /\ worker \in [Workers -> WorkerState] /\ worker[w].batch \in Batches
        /\ worker'[w].batch \in Batches /\ old \in [Urls -> BOOLEAN]
    BY NextOK DEF LifeInv, IInv, TypeOK, WorkerState, Batches
  <1>1. m \in Urls
    BY <1>0 DEF Batches
  <1>2. old[m] => old'[m]
    BY <1>0, <1>1 DEF Next, Work, vars, PutObject, RegisterUploaded, RegisterFails, Age, BeginCreate,
                      Create, CreateFails, Delete, ListBatch, Claim, Reread, DeleteObject,
                      DeleteObjectFails, Settle, Crash
  <1>3. CASE m \in DOMAIN worker[w].batch /\ worker'[w].batch[m] = worker[w].batch[m]
    BY <1>2, <1>3 DEF LifeInv, ListedAreStale
  <1>4. CASE worker'[w].batch = worker[w].batch
    BY <1>3, <1>4
  <1>5. CASE ListBatch(w)
    <2>1. worker'[w].batch = [n \in Oldest(mediaCleanupWhere) |-> asset[n]]
      BY <1>0, <1>5 DEF ListBatch, WorkerState
    <2>2. m \in mediaCleanupWhere /\ asset[m] = "PENDING"
      BY <2>1 DEF Oldest
    <2> QED BY <1>2, <2>2 DEF mediaCleanupWhere, Queue
  <1>6. ASSUME NEW n \in Urls, Drop(w, n)
        PROVE  m \in DOMAIN worker[w].batch /\ worker'[w].batch[m] = worker[w].batch[m]
    BY <1>0, <1>6 DEF Drop
  <1>7. ASSUME NEW at, NEW phase, Advance(w, at, phase)
        PROVE  worker'[w].batch = worker[w].batch
    BY <1>0, <1>7 DEF Advance, WorkerState
  <1>8. CASE Crash(w)
    BY <1>0, <1>8 DEF Crash, Asleep
  <1>9. ASSUME Reread(w) \/ Settle(w) \/ (\E n \in Urls : Claim(w, n)) \/ DeleteObject(w) \/ DeleteObjectFails(w)
        PROVE  (\E at, phase : Advance(w, at, phase)) \/ \E n \in Urls : Drop(w, n)
    <2>1. worker[w].phase # "list" => worker[w].at \in Urls
      BY <1>0 DEF IInv, HandIsFull, WorkerState
    <2> QED BY <1>9, <2>1 DEF Reread, Settle, Claim, DeleteObject, DeleteObjectFails
  <1>10. ASSUME NEW v \in Workers \ {w},
                \/ ListBatch(v) \/ Reread(v) \/ Settle(v) \/ \E n \in Urls : Claim(v, n)
                \/ DeleteObject(v) \/ DeleteObjectFails(v) \/ Crash(v)
         PROVE  worker'[w] = worker[w]
    BY <1>0, <1>10 DEF ListBatch, Reread, Settle, Claim, DeleteObject, DeleteObjectFails, Crash,
                       Advance, Drop
  <1> QED BY <1>3, <1>4, <1>5, <1>6, <1>7, <1>8, <1>9, <1>10
          DEF Next, Work, vars, PutObject, RegisterUploaded, RegisterFails, Age, BeginCreate,
              Create, CreateFails, Delete

\* Nothing becomes absent, and only what is there ages.
LEMMA YoungNextOK == LifeInv /\ [Next]_vars => AbsentAreYoung'
  <1> SUFFICES ASSUME LifeInv, [Next]_vars, NEW m \in Urls, asset'[m] = "ABSENT" PROVE ~old'[m]
    BY DEF AbsentAreYoung
  <1>0. asset \in [Urls -> AssetState] /\ old \in [Urls -> BOOLEAN]
    BY DEF LifeInv, IInv, TypeOK
  <1>1. asset[m] = "ABSENT"
    <2>1. ASSUME NEW n \in Urls, RegisterUploaded(n) PROVE asset[m] = "ABSENT"
      BY <1>0, <2>1 DEF RegisterUploaded
    <2>2. ASSUME NEW w \in Workers, Settle(w) PROVE asset[m] = "ABSENT"
      BY <1>0, <2>2 DEF Settle
    <2>3. ASSUME NEW w \in Workers, NEW n \in Urls, Claim(w, n) PROVE asset[m] = "ABSENT"
      BY <1>0, <2>3 DEF Claim
    <2>4. ASSUME NEW c \in Contents, Create(c) \/ Delete(c) PROVE asset[m] = "ABSENT"
      BY <1>0, <2>4 DEF Create, Delete, Attach, RequestDelete
    <2> QED BY <1>0, <2>1, <2>2, <2>3, <2>4
            DEF Next, Work, vars, PutObject, RegisterFails, Age, BeginCreate, CreateFails,
                ListBatch, Reread, DeleteObject, DeleteObjectFails, Crash
  <1>2. ~old[m]
    BY <1>1 DEF LifeInv, AbsentAreYoung
  <1>3. ASSUME NEW n \in Urls, Age(n) PROVE ~old'[m]
    BY <1>0, <1>1, <1>2, <1>3 DEF Age
  <1> QED BY <1>2, <1>3
          DEF Next, Work, vars, PutObject, RegisterUploaded, RegisterFails, BeginCreate, Create,
              CreateFails, Delete, ListBatch, Claim, Reread, DeleteObject, DeleteObjectFails,
              Settle, Crash

\* Together.
LEMMA LifeNextOK == LifeInv /\ [Next]_vars => LifeInv'
  BY NextOK, ContentsNextOK, ListedNextOK, YoungNextOK DEF LifeInv

----------------------------------------------------------------------------
(* The contract. *)

Once  == {m \in Urls : UploadedOnce(m)}
Lives == [m \in Urls |-> LifeOf(m)]

\* Every picture has a life, or its second upload has ended it.
LEMMA MediaIs ==
    /\ DOMAIN Media = Urls
    /\ \A m \in Urls :
         /\ m \notin Once => Media[m] = [life |-> "again", stored |-> FALSE]
         /\ m \in Once => /\ Media[m] = [life |-> Lives[m], stored |-> object[m]]
                               /\ Media[m].life = Lives[m] /\ Media[m].stored = object[m]
  BY DEF Media, Once, Lives

\* The same of the next state.
LEMMA MediaWillBe ==
    /\ DOMAIN Media' = Urls
    /\ \A m \in Urls :
         /\ m \notin Once' => Media'[m] = [life |-> "again", stored |-> FALSE]
         /\ m \in Once' => Media'[m] = [life |-> Lives'[m], stored |-> object'[m]]
  BY DEF Media, Once, Lives

\* Pictures whose row, object and uploads are as they were.
LEMMA SameEntry ==
    ASSUME NEW m \in Urls, m \in Once' <=> m \in Once,
           m \in Once => Lives'[m] = Lives[m] /\ object'[m] = object[m]
    PROVE  Media'[m] = Media[m]
  BY MediaIs, MediaWillBe

\* The same of all of them.
LEMMA SameMedia ==
    ASSUME \A m \in Urls : m \in Once' <=> m \in Once,
           \A m \in Once : Lives'[m] = Lives[m] /\ object'[m] = object[m]
    PROVE  UNCHANGED Media
  <1>1. \A m \in Urls : Media'[m] = Media[m]
    BY SameEntry
  <1> QED BY <1>1 DEF Media

\* What each state of a row means.
LEMMA LivesAre ==
    ASSUME NEW m \in Urls, asset[m] \in AssetState
    PROVE  /\ asset[m] = "ABSENT" <=> Lives[m] = "none"
           /\ asset[m] = "PENDING" /\ ~old[m] <=> Lives[m] = "waiting"
           /\ asset[m] = "PENDING" /\ old[m] <=> Lives[m] = "stale"
           /\ asset[m] = "ATTACHED" <=> Lives[m] = "used"
           /\ asset[m] \in {"DELETE_PENDING", "DELETE_FAILED"} <=> Lives[m] = "released"
           /\ asset[m] = "DELETING" <=> Lives[m] = "leaving"
           /\ asset[m] = "DELETED" <=> Lives[m] = "gone"
  BY DEF Lives, LifeOf, AssetState

\* The same of the next state.
LEMMA LivesWillBe ==
    ASSUME NEW m \in Urls, asset'[m] \in AssetState
    PROVE  /\ asset'[m] = "ABSENT" => Lives'[m] = "none"
           /\ asset'[m] = "PENDING" /\ ~old'[m] => Lives'[m] = "waiting"
           /\ asset'[m] = "PENDING" /\ old'[m] => Lives'[m] = "stale"
           /\ asset'[m] = "ATTACHED" => Lives'[m] = "used"
           /\ asset'[m] \in {"DELETE_PENDING", "DELETE_FAILED"} => Lives'[m] = "released"
           /\ asset'[m] = "DELETING" => Lives'[m] = "leaving"
           /\ asset'[m] = "DELETED" => Lives'[m] = "gone"
  BY DEF Lives, LifeOf, AssetState

\* An entry with one field replaced.
LEMMA EntryExcept ==
    ASSUME NEW life, NEW stored, NEW x
    PROVE  /\ [[life |-> life, stored |-> stored] EXCEPT !.life = x] = [life |-> x, stored |-> stored]
           /\ [[life |-> life, stored |-> stored] EXCEPT !.stored = x] = [life |-> life, stored |-> x]
  OBVIOUS

\* A step that leaves the objects and the uploads alone, and takes the rows of S from one
\* life to another.
LEMMA TurnOf ==
    ASSUME UNCHANGED <<upload, object>>, NEW S \in SUBSET Urls, NEW from, NEW to,
           \A m \in S : m \in Once /\ Lives[m] \in from /\ Lives'[m] = to,
           \A m \in Urls \ S : m \in Once => Lives'[m] = Lives[m]
    PROVE  Contract!Turn(S, from, to)
  <1>1. \A m \in Urls : m \in Once' <=> m \in Once
    BY DEF Once, UploadedOnce
  <1>2. \A m \in S : Media[m].life \in from
    BY MediaIs
  <1>3. ASSUME NEW m \in Urls
        PROVE  Media'[m] = IF m \in S THEN [Media[m] EXCEPT !.life = to] ELSE Media[m]
    <2>1. CASE m \in S
      <3>1. Media'[m] = [life |-> to, stored |-> object[m]]
        BY <1>1, <2>1, MediaWillBe
      <3>2. Media[m] = [life |-> Lives[m], stored |-> object[m]]
        BY <2>1, MediaIs
      <3> QED BY <2>1, <3>1, <3>2, EntryExcept
    <2>2. CASE m \notin S
      BY <1>1, <2>2, MediaIs, MediaWillBe, ZenonT(40)
    <2> QED BY <2>1, <2>2
  <1>4. Media' = [m \in Urls |-> IF m \in S THEN [Media[m] EXCEPT !.life = to] ELSE Media[m]]
    BY <1>3 DEF Media
  <1> QED BY <1>2, <1>4 DEF Contract!Turn

\* The same of one row, or none if its picture was uploaded again.
LEMMA TurnOne ==
    ASSUME UNCHANGED <<upload, object>>, NEW m \in Urls, NEW was, NEW to,
           Lives[m] = was, Lives'[m] = to,
           \A n \in Urls \ {m} : asset'[n] = asset[n] /\ old'[n] = old[n]
    PROVE  Contract!Turn({m}, {was}, to) \/ UNCHANGED Media
  <1>1. \A n \in Urls \ {m} : Lives'[n] = Lives[n]
    BY DEF Lives, LifeOf
  <1>2. CASE m \in Once
    BY <1>1, <1>2, TurnOf
  <1>3. CASE m \notin Once
    <2>1. \A n \in Urls : n \in Once' <=> n \in Once
      BY DEF Once, UploadedOnce
    <2> QED BY <1>1, <1>3, <2>1, SameMedia DEF Once
  <1> QED BY <1>2, <1>3

\* A step that puts an object or takes it away.
LEMMA StoreOf ==
    ASSUME NEW m \in Urls, NEW from, NEW there, UNCHANGED <<asset, old>>,
           m \in Once, m \in Once', Lives[m] \in from, object'[m] = there,
           \A n \in Urls \ {m} : object'[n] = object[n] /\ upload'[n].count = upload[n].count
    PROVE  Contract!Store(m, from, there)
  <1>1. \A n \in Urls \ {m} : n \in Once' <=> n \in Once
    BY DEF Once, UploadedOnce
  <1>2. \A n \in Urls : Lives'[n] = Lives[n]
    BY DEF Lives, LifeOf
  <1>3. Media'[m] = [Media[m] EXCEPT !.stored = there]
    <2>1. Media'[m] = [life |-> Lives[m], stored |-> there]
      BY <1>2, MediaWillBe
    <2>2. Media[m] = [life |-> Lives[m], stored |-> object[m]]
      BY MediaIs
    <2> QED BY <2>1, <2>2, EntryExcept
  <1>4. \A n \in Urls \ {m} : Media'[n] = Media[n]
    BY <1>1, <1>2, SameEntry
  <1>5. Media' = [Media EXCEPT ![m].stored = there]
    BY <1>3, <1>4 DEF Media
  <1> QED BY <1>5, MediaIs DEF Contract!Store

\* A step that touches no picture.
LEMMA Unseen ==
    ASSUME UNCHANGED <<asset, old, object>>,
           \A n \in Urls : upload'[n].count = upload[n].count
    PROVE  UNCHANGED Media
  BY DEF Media, Lives, LifeOf, Once, UploadedOnce

\* One step per operation: what it is in the contract, if the picture was uploaded once.
LEMMA ContractStep ==
    LifeInv /\ [Next]_vars => [Contract!Next]_Media
  <1> SUFFICES ASSUME LifeInv, [Next]_vars PROVE Contract!Next \/ UNCHANGED Media
    OBVIOUS
  <1> USE MediaAssumption
  <1>0. /\ IInv /\ IInv' /\ TypeOK /\ TypeOK' /\ asset \in [Urls -> AssetState]
        /\ upload \in [Urls -> [count: 0..MaxUploads, put: BOOLEAN]]
        /\ \A m \in Urls : asset[m] \in AssetState /\ asset'[m] \in AssetState
        /\ \A m \in Urls : m \in Once => RowOK(m)
    BY NextOK DEF LifeInv, IInv, TypeOK, Once
  <1>1. ASSUME NEW m \in Urls, PutObject(m) PROVE Contract!Next
    <2>1. /\ upload'[m].count = upload[m].count + 1 /\ upload[m].count \in Nat
          /\ object'[m] = TRUE
          /\ \A n \in Urls \ {m} : object'[n] = object[n] /\ upload'[n] = upload[n]
      BY <1>0, <1>1 DEF PutObject, TypeOK
    <2>2. CASE upload[m].count = 0
      <3>1. m \in Once /\ m \in Once'
        BY <2>1, <2>2 DEF Once, UploadedOnce
      <3>2. Lives[m] \in {"none"}
        BY <1>0, <2>2, <3>1, LivesAre DEF RowOK
      <3>3. Contract!Put(m)
        BY <1>1, <2>1, <3>1, <3>2, StoreOf DEF PutObject, Contract!Put
      <3> QED BY <3>3 DEF Contract!Next
    <2>3. CASE upload[m].count # 0
      <3>1. m \notin Once' /\ \A n \in Urls \ {m} : n \in Once' <=> n \in Once
        BY <2>1, <2>3 DEF Once, UploadedOnce
      <3>2. \A n \in Urls \ {m} : Lives'[n] = Lives[n] /\ object'[n] = object[n]
        BY <1>1, <2>1 DEF PutObject, Lives, LifeOf
      <3>3. \A n \in Urls : Media'[n] = IF n = m THEN Contract!Beyond ELSE Media[n]
        BY <3>1, <3>2, MediaIs, MediaWillBe, ZenonT(40) DEF Contract!Beyond
      <3>4. Media' = [Media EXCEPT ![m] = Contract!Beyond]
        BY <3>3 DEF Media
      <3> QED BY <3>4 DEF Contract!Next, Contract!Again
    <2> QED BY <2>2, <2>3
  <1>2. ASSUME NEW m \in Urls, RegisterUploaded(m) PROVE Contract!Next \/ UNCHANGED Media
    <2>1. /\ \A n \in Urls : upload'[n].count = upload[n].count
          /\ asset'[m] = "PENDING" /\ \A n \in Urls \ {m} : asset'[n] = asset[n]
          /\ UNCHANGED <<old, object>>
      BY <1>0, <1>2 DEF RegisterUploaded
    <2>2. \A n \in Urls : n \in Once' <=> n \in Once
      BY <2>1 DEF Once, UploadedOnce
    <2>3. \A n \in Urls \ {m} : Lives'[n] = Lives[n]
      BY <2>1 DEF Lives, LifeOf
    <2>4. CASE m \notin Once
      <3>1. \A n \in Once : n # m
        BY <2>4
      <3> QED BY <2>1, <2>2, <2>3, <3>1, SameMedia DEF Once
    <2>5. CASE m \in Once
      <3>1. asset[m] = "ABSENT" /\ object[m] /\ ~old[m]
        BY <1>0, <1>2, <2>5 DEF RegisterUploaded, RowOK, LifeInv, AbsentAreYoung
      <3>2. Lives[m] = "none" /\ Lives'[m] = "waiting"
        BY <1>0, <2>1, <3>1, LivesAre, LivesWillBe
      <3>3. /\ Media'[m] = [Media[m] EXCEPT !.life = "waiting"]
            /\ \A n \in Urls \ {m} : Media'[n] = Media[n]
        <4>1. Media'[m] = [life |-> "waiting", stored |-> object[m]]
          BY <2>1, <2>2, <2>5, <3>2, MediaWillBe
        <4>2. Media[m] = [life |-> "none", stored |-> object[m]]
          BY <2>5, <3>2, MediaIs
        <4>3. \A n \in Urls \ {m} : Media'[n] = Media[n]
          BY <2>1, <2>2, <2>3, SameEntry
        <4> QED BY <4>1, <4>2, <4>3, EntryExcept
      <3>4. Media' = [n \in Urls |-> IF n \in {m} THEN [Media[n] EXCEPT !.life = "waiting"] ELSE Media[n]]
        BY <3>3 DEF Media
      <3>5. Contract!Register(m)
        BY <2>5, <3>1, <3>2, <3>4, MediaIs DEF Contract!Register, Contract!Turn
      <3> QED BY <3>5 DEF Contract!Next
    <2> QED BY <2>4, <2>5
  <1>3. ASSUME NEW m \in Urls, RegisterFails(m) PROVE Contract!Next \/ UNCHANGED Media
    <2>1. /\ \A n \in Urls : upload'[n].count = upload[n].count
          /\ object'[m] = FALSE /\ \A n \in Urls \ {m} : object'[n] = object[n]
          /\ UNCHANGED <<old, asset>>
      BY <1>0, <1>3 DEF RegisterFails, TypeOK
    <2>2. \A n \in Urls : (n \in Once' <=> n \in Once) /\ Lives'[n] = Lives[n]
      BY <2>1 DEF Once, UploadedOnce, Lives, LifeOf
    <2>3. CASE m \notin Once
      <3>1. \A n \in Once : object'[n] = object[n]
        BY <2>1, <2>3 DEF Once
      <3> QED BY <2>2, <3>1, SameMedia DEF Once
    <2>4. CASE m \in Once
      <3>1. Lives[m] \in {"none"}
        BY <1>0, <1>3, <2>4, LivesAre DEF RegisterFails, RowOK
      <3>2. Contract!TakeBack(m)
        BY <2>1, <2>2, <2>4, <3>1, StoreOf DEF Contract!TakeBack
      <3> QED BY <3>2 DEF Contract!Next
    <2> QED BY <2>3, <2>4
  <1>4. ASSUME NEW m \in Urls, Age(m) PROVE Contract!Next \/ UNCHANGED Media
    <2>1. /\ old'[m] /\ ~old[m] /\ UNCHANGED <<asset, object, upload>>
          /\ \A n \in Urls \ {m} : old'[n] = old[n]
      BY <1>0, <1>4 DEF Age, TypeOK
    <2>2. CASE asset[m] = "PENDING"
      <3>1. Lives[m] = "waiting" /\ Lives'[m] = "stale"
        BY <1>0, <2>1, <2>2, LivesAre, LivesWillBe
      <3>2. \A n \in Urls \ {m} : asset'[n] = asset[n] /\ old'[n] = old[n]
        BY <2>1
      <3>3. Contract!Turn({m}, {"waiting"}, "stale") \/ UNCHANGED Media
        BY <2>1, <3>1, <3>2, TurnOne
      <3> QED BY <3>3 DEF Contract!Next, Contract!Age
    <2>3. CASE asset[m] # "PENDING"
      <3>1. \A n \in Urls : Lives'[n] = Lives[n]
        BY <2>1, <2>3 DEF Lives, LifeOf
      <3> QED BY <2>1, <3>1, SameMedia DEF Once, UploadedOnce
    <2> QED BY <2>2, <2>3
  <1>5. ASSUME NEW c \in Contents, Create(c) PROVE Contract!Next
    <2> DEFINE S == {m \in content[c].urls : m \in Once /\ asset[m] = "PENDING"}
    <2>1. content[c].urls \subseteq Urls /\ UNCHANGED <<old, object, upload>>
      BY <1>0, <1>5 DEF Create, TypeOK, ContentState
    <2>2. \A m \in Urls : asset'[m] = IF m \in content[c].urls /\ asset[m] = "PENDING"
                                     THEN "ATTACHED" ELSE asset[m]
      BY <1>5 DEF Create, Attach
    <2>3. \A m \in S : Lives[m] \in {"waiting", "stale"} /\ Lives'[m] = "used"
      BY <1>0, <2>1, <2>2, LivesAre, LivesWillBe
    <2>4. \A m \in Urls \ S : m \in Once => Lives'[m] = Lives[m]
      BY <2>1, <2>2 DEF Lives, LifeOf
    <2>5. Contract!Use(S)
      BY <2>1, <2>3, <2>4, TurnOf DEF Contract!Use
    <2>6. S \in SUBSET Urls
      BY <2>1
    <2> HIDE DEF S
    <2> QED BY <2>5, <2>6 DEF Contract!Next
  <1>6. ASSUME NEW c \in Contents, Delete(c) PROVE Contract!Next
    <2> DEFINE S == {m \in content[c].urls : m \in Once /\ asset[m] = "ATTACHED"}
    <2>1. content[c].urls \subseteq Urls /\ UNCHANGED <<old, object, upload>>
      BY <1>0, <1>6 DEF Delete, TypeOK, ContentState
    <2>2. \A m \in Urls : asset'[m] = IF m \in content[c].urls /\ asset[m] \in Condemnable
                                     THEN "DELETE_PENDING" ELSE asset[m]
      BY <1>6 DEF Delete, RequestDelete
    <2>3. \A m \in S : Lives[m] \in {"used"} /\ Lives'[m] = "released"
      BY <1>0, <2>1, <2>2, LivesAre, LivesWillBe DEF Condemnable
    <2>4. ASSUME NEW m \in Urls \ S, m \in Once PROVE Lives'[m] = Lives[m]
      <3>1. m \in content[c].urls => asset[m] # "PENDING"
        BY <1>6, <2>4 DEF Delete, LifeInv, ContentsOK, Once
      <3>2. asset'[m] = asset[m] \/ (asset[m] = "DELETE_FAILED" /\ asset'[m] = "DELETE_PENDING")
        BY <2>2, <2>4, <3>1 DEF Condemnable
      <3> QED BY <1>0, <2>1, <3>2, LivesAre, LivesWillBe DEF Lives, LifeOf
    <2>5. Contract!Release(S)
      BY <2>1, <2>3, <2>4, TurnOf DEF Contract!Release
    <2>6. S \in SUBSET Urls
      BY <2>1
    <2> HIDE DEF S
    <2> QED BY <2>5, <2>6 DEF Contract!Next
  <1>7. ASSUME NEW w \in Workers, NEW m \in Urls, Claim(w, m) PROVE Contract!Next \/ UNCHANGED Media
    <2>1. UNCHANGED <<old, object, upload>>
      BY <1>7 DEF Claim
    <2>2. CASE asset' = asset
      BY <2>1, <2>2, Unseen
    <2>3. CASE /\ Claimable(worker[w].batch[m], asset[m])
               /\ asset' = [asset EXCEPT ![m] = "DELETING"]
      <3>1. Lives'[m] = "leaving" /\ \A n \in Urls \ {m} : asset'[n] = asset[n] /\ old'[n] = old[n]
        BY <1>0, <2>1, <2>3, LivesWillBe
      <3>2. CASE asset[m] = "PENDING"
        <4>1. old[m]
          BY <1>7, <2>3, <3>2 DEF Claim, Claimable, Queue, LifeInv, ListedAreStale
        <4>2. Lives[m] = "stale"
          BY <1>0, <3>2, <4>1, LivesAre
        <4> QED BY <1>0, <2>1, <3>1, <4>2, TurnOne DEF Contract!Next, Contract!Expire
      <3>3. CASE asset[m] \in {"DELETE_PENDING", "DELETE_FAILED"}
        <4>1. Lives[m] = "released"
          BY <1>0, <3>3, LivesAre
        <4> QED BY <1>0, <2>1, <3>1, <4>1, TurnOne DEF Contract!Next, Contract!Take
      <3>4. CASE asset[m] = "DELETING"
        <4>1. asset' = asset
          BY <1>0, <2>3, <3>4
        <4> QED BY <2>1, <4>1, Unseen
      <3> QED BY <2>3, <3>2, <3>3, <3>4 DEF Claimable, Queue
    <2> QED BY <1>7, <2>2, <2>3 DEF Claim
  <1>8. ASSUME NEW w \in Workers, DeleteObject(w) PROVE Contract!Next \/ UNCHANGED Media
    <2> DEFINE m == worker[w].at
    <2>1. m \in Urls
      BY <1>0, <1>8 DEF DeleteObject, IInv, HandIsFull, TypeOK, WorkerState
    <2>2. /\ UNCHANGED <<asset, old, upload>> /\ object'[m] = FALSE
          /\ \A n \in Urls \ {m} : object'[n] = object[n]
      BY <1>0, <1>8, <2>1 DEF DeleteObject, TypeOK
    <2>3. \A n \in Urls : (n \in Once' <=> n \in Once) /\ Lives'[n] = Lives[n]
      BY <2>2 DEF Once, UploadedOnce, Lives, LifeOf
    <2>4. CASE m \notin Once \/ object[m] = FALSE
      <3>1. \A n \in Once : object'[n] = object[n]
        BY <2>1, <2>2, <2>4 DEF Once
      <3> QED BY <2>3, <3>1, SameMedia DEF Once
    <2>5. CASE m \in Once /\ object[m] # FALSE
      <3>1. asset[m] \notin Usable /\ asset[m] # "DELETED"
        BY <1>0, <2>1, <2>5 DEF RowOK, TypeOK
      <3>2. Lives[m] \in {"released", "leaving"}
        BY <1>0, <2>1, <3>1, LivesAre DEF Usable, AssetState
      <3> HIDE DEF m
      <3>3. Contract!Remove(m)
        BY <2>1, <2>2, <2>3, <2>5, <3>2, StoreOf DEF Contract!Remove
      <3> QED BY <2>1, <3>3 DEF Contract!Next
    <2> QED BY <2>4, <2>5
  <1>9. ASSUME NEW w \in Workers, Settle(w) PROVE Contract!Next \/ UNCHANGED Media
    <2> DEFINE m == worker[w].at
    <2>1. m \in Urls
      BY <1>0, <1>9 DEF Settle, IInv, HandIsFull, TypeOK, WorkerState
    <2>2. UNCHANGED <<old, object, upload>> /\ \A n \in Urls \ {m} : asset'[n] = asset[n]
      BY <1>0, <1>9, <2>1 DEF Settle
    <2>3. CASE asset[m] # "DELETING"
      <3>1. \A n \in Urls : asset'[n] = asset[n]
        BY <1>0, <1>9, <2>1, <2>2, <2>3 DEF Settle
      <3>2. \A n \in Urls : Lives'[n] = Lives[n]
        BY <2>2, <3>1 DEF Lives, LifeOf
      <3> QED BY <2>2, <3>2, SameMedia DEF Once, UploadedOnce
    <2>4. CASE asset[m] = "DELETING" /\ worker[w].phase = "removed"
      <3>1. asset'[m] = "DELETED" /\ (m \in Once => ~object[m])
        BY <1>0, <1>9, <2>1, <2>4 DEF Settle, RowOK
      <3>2. Lives[m] = "leaving" /\ Lives'[m] = "gone"
        BY <1>0, <2>1, <2>4, <3>1, LivesAre, LivesWillBe
      <3> HIDE DEF m
      <3>3. CASE m \in Once
        <4>1. Contract!Turn({m}, {"leaving"}, "gone") \/ UNCHANGED Media
          BY <2>1, <2>2, <3>2, TurnOne
        <4>2. ~Media[m].stored
          BY <2>1, <3>1, <3>3, MediaIs
        <4> QED BY <2>1, <4>1, <4>2 DEF Contract!Next, Contract!Close
      <3>4. CASE m \notin Once
        <4>1. \A n \in Urls : (n \in Once' <=> n \in Once)
                              /\ (n # m => Lives'[n] = Lives[n])
          BY <2>2 DEF Once, UploadedOnce, Lives, LifeOf
        <4>2. \A n \in Once : n # m /\ n \in Urls
          BY <3>4 DEF Once
        <4> QED BY <2>2, <4>1, <4>2, SameMedia
      <3> QED BY <3>3, <3>4
    <2>5. CASE asset[m] = "DELETING" /\ worker[w].phase # "removed"
      <3>1. asset'[m] = "DELETE_FAILED"
        BY <1>0, <1>9, <2>1, <2>5 DEF Settle
      <3>2. Lives[m] = "leaving" /\ Lives'[m] = "released"
        BY <1>0, <2>1, <2>5, <3>1, LivesAre, LivesWillBe
      <3> HIDE DEF m
      <3> QED BY <1>0, <2>1, <2>2, <3>2, TurnOne DEF Contract!Next, Contract!Refuse
    <2> QED BY <2>3, <2>4, <2>5
  <1>10. ASSUME UNCHANGED <<asset, old, object, upload>> PROVE UNCHANGED Media
    BY <1>10, Unseen
  <1> QED BY <1>1, <1>2, <1>3, <1>4, <1>5, <1>6, <1>7, <1>8, <1>9, <1>10
          DEF Next, Work, vars, BeginCreate, CreateFails, ListBatch, Reread, DeleteObjectFails, Crash

\* Rows and objects of pictures uploaded once live as MediaContract has it, whatever
\* contents and any number of workers do.
THEOREM Refinement == Spec => ImplementsMediaContract
  <1>1. Init => Contract!Init
    <2> SUFFICES ASSUME Init PROVE Contract!Init
      OBVIOUS
    <2>1. \A m \in Urls : m \in Once /\ asset[m] = "ABSENT" /\ object[m] = FALSE
      BY DEF Init, Once, UploadedOnce, Absent
    <2>2. \A m \in Urls : Lives[m] = "none"
      BY <2>1 DEF Lives, LifeOf
    <2>3. \A m \in Urls : Media[m] = Contract!Nothing
      BY <2>1, <2>2, MediaIs DEF Once, Contract!Nothing
    <2> QED BY <2>3 DEF Media, Contract!Init
  <1>2. Spec => []LifeInv
    BY LifeInitOK, LifeNextOK, PTL DEF Spec
  <1> QED BY <1>1, <1>2, ContractStep, PTL DEF Spec, ImplementsMediaContract, Contract!Spec

=============================================================================
