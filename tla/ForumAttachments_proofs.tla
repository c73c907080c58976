----------------------- MODULE ForumAttachments_proofs -----------------------
(***************************************************************************)
(* UsableIsStored for every number of posts, uploads, requests, assets and *)
(* keys, and one cleanup worker, which is what the code guards against     *)
(* (`running`, media-cleanup.worker.ts:38) and the deployment starts.      *)
(*                                                                         *)
(* The argument has three parts.  An object key belongs to one upload      *)
(* until the blob takes it over, so a failing upload never removes the     *)
(* blob's object.  An asset belongs to one post for ever, so no edit       *)
(* condemns what another post shows.  And from the mark to the removal     *)
(* the worker's asset is the only reference as long as the blob's object   *)
(* is the one that was marked: the mark keeps out reuse, and a revival     *)
(* changes the object.                                                     *)
(***************************************************************************)
EXTENDS ForumAttachments, FiniteSetTheorems, TLAPS

OneWorker == \A v, w \in Workers : v = w

Referring == {"PENDING", "ATTACHED"}

\* The blob's object can be used.
Healthy == blob.key # 0 /\ ~blob.deleted /\ object[blob.key]

\* Assets are numbered in turn, and there are none before there is a blob.
NumberedInTurn == \E n \in 0..MaxAssets : {a \in Assets : asset[a].state # "ABSENT"} = 1..n

NoneBeforeTheBlob ==
    blob.key = 0 =>
        ~blob.requested /\ ~blob.deleted /\ \A a \in Assets : asset[a].state = "ABSENT"

----------------------------------------------------------------------------
(* Keys. *)

InFlight(i) == upload[i].phase \in {"register", "conflict", "revive", "winner"}

KeyIsOwn(i) ==
    InFlight(i) =>
        /\ upload[i].key \in 1..keys /\ upload[i].key # blob.key
        /\ object[upload[i].key]
        /\ \A j \in Uploads : InFlight(j) /\ j # i => upload[j].key # upload[i].key
        /\ \A w \in Workers : worker[w].key # upload[i].key

KeysOK == blob.key <= keys /\ \A i \in Uploads : KeyIsOwn(i)

----------------------------------------------------------------------------
(* Posts. *)

RelatedIsAttached ==
    \A a \in Assets : relation[a] # NoPost => asset[a].state \in {"ATTACHED", "DELETING"}

\* What a request has seen of its post is of no other.
SeenIsOfPost ==
    \A r \in Requests : req[r] # Idle =>
        \A a \in req[r].related :
            /\ relation[a] \in {req[r].post, NoPost}
            /\ asset[a].state \notin {"ABSENT", "PENDING"}
            /\ \A s \in Requests : req[s] # Idle /\ a \in req[s].related => req[s].post = req[r].post

----------------------------------------------------------------------------
(* The worker. *)

HandOK(w) ==
    /\ worker[w].at = 0 <=> worker[w].phase = "list"
    /\ worker[w].at # 0 => asset[worker[w].at].state = "DELETING"
    /\ worker[w].key <= keys
    /\ worker[w].phase \notin {"list", "claimed", "related"} =>
         worker[w].key # 0 /\ relation[worker[w].at] = NoPost
    /\ \A a \in DOMAIN worker[w].batch : worker[w].batch[a] \notin {"ABSENT", "DELETED"}

\* How far it is with the blob.
MarkOK(w) ==
    /\ worker[w].phase = "related" => Healthy
    /\ SameObject(w) =>
         /\ worker[w].phase \in {"marked", "last", "removed"} => blob.requested
         /\ worker[w].phase \in {"last", "removed"} => Refs \subseteq {worker[w].at}
         /\ worker[w].phase = "shared" => object[blob.key]

\* Where the object is gone and the blob does not say so yet (a worker died, or is about to
\* say so), the blob is marked and has one reference at most.
GoneIsMarked ==
    blob.key # 0 /\ ~blob.deleted /\ ~object[blob.key] =>
        blob.requested /\ \A a, b \in Refs : a = b

UsableIsHealthy ==
    \A a \in Assets : asset[a].state \in Referring \/ relation[a] # NoPost => Healthy

IInv ==
    /\ TypeOK
    /\ NumberedInTurn /\ NoneBeforeTheBlob
    /\ KeysOK
    /\ RelatedIsAttached /\ SeenIsOfPost
    /\ \A w \in Workers : HandOK(w) /\ MarkOK(w)
    /\ GoneIsMarked /\ UsableIsHealthy

----------------------------------------------------------------------------
(* Uploads. *)

\* An upload goes on, or rests, and keeps its key while it has one.
LEMMA UploadOnly ==
    ASSUME IInv, NEW i \in Uploads, NEW u \in Upload, upload' = [upload EXCEPT ![i] = u],
           u.phase \in {"register", "conflict", "revive", "winner"}
             => InFlight(i) /\ u.key = upload[i].key,
           faults' \in 0..MaxFaults, UNCHANGED <<tables, object, keys, req, worker>>
    PROVE  IInv'
  <1>1. UNCHANGED <<blob, asset, relation, post, object, keys, req, worker>>
    BY DEF tables
  <1>2. TypeOK'
    BY <1>1 DEF IInv, TypeOK
  <1>3. \A j \in Uploads : InFlight(j)' => InFlight(j) /\ upload'[j].key = upload[j].key
    BY DEF IInv, TypeOK, InFlight
  <1>4. KeysOK'
    BY <1>1, <1>3 DEF IInv, KeysOK, KeyIsOwn
  <1>5. (NumberedInTurn /\ NoneBeforeTheBlob /\ RelatedIsAttached /\ SeenIsOfPost)'
    BY <1>1 DEF IInv, NumberedInTurn, NoneBeforeTheBlob, RelatedIsAttached, SeenIsOfPost
  <1>6. (GoneIsMarked /\ UsableIsHealthy /\ \A w \in Workers : HandOK(w) /\ MarkOK(w))'
    BY <1>1 DEF IInv, GoneIsMarked, UsableIsHealthy, HandOK, MarkOK, Refs, StateOf, SameObject,
                Healthy
  <1> QED BY <1>2, <1>4, <1>5, <1>6 DEF IInv

\* The next number is free.
LEMMA NextNumber ==
    ASSUME IInv, NEW url \in AnyKey, CreateAsset(url)
    PROVE  \E new \in Assets :
             /\ asset[new].state = "ABSENT"
             /\ asset' = [asset EXCEPT ![new] =
                            [state |-> "PENDING", url |-> url, old |-> FALSE]]
             /\ NumberedInTurn'
  <1> DEFINE there == {a \in Assets : asset[a].state # "ABSENT"}
  <1>1. PICK n \in 0..MaxAssets : there = 1..n
    BY DEF IInv, NumberedInTurn
  <1>2. Created = n
    <2>1. n \in Nat /\ Cardinality(1..n) = n
      BY FS_Interval, AttachmentAssumption
    <2> QED BY <1>1, <2>1 DEF Created
  <1>3. n + 1 \in Assets /\ asset[n + 1].state = "ABSENT" /\ n + 1 \in 0..MaxAssets
    BY <1>1, <1>2, AttachmentAssumption DEF CreateAsset, Assets
  <1>4. asset' = [asset EXCEPT ![n + 1] = [state |-> "PENDING", url |-> url, old |-> FALSE]]
    BY <1>2 DEF CreateAsset
  <1>5. {a \in Assets : asset'[a].state # "ABSENT"} = there \cup {n + 1}
    BY <1>3, <1>4 DEF IInv, TypeOK
  <1>6. (1..n) \cup {n + 1} = 1..(n + 1)
    BY <1>1
  <1>7. NumberedInTurn'
    BY <1>1, <1>3, <1>5, <1>6 DEF NumberedInTurn
  <1> QED BY <1>3, <1>4, <1>7

\* An asset is created, with the blob as it is or as it just became.
LEMMA CreateOK ==
    ASSUME IInv, NEW i \in Uploads, NEW url \in AnyKey, CreateAsset(url), Done(i),
           blob' \in [key: AnyKey, requested: BOOLEAN, deleted: BOOLEAN], Healthy',
           \/ blob' = blob /\ ~blob.requested
           \/ InFlight(i) /\ blob'.key = upload[i].key,
           UNCHANGED <<relation, post, object, keys, req, worker, faults>>
    PROVE  IInv'
  <1>1. PICK new \in Assets :
           /\ asset[new].state = "ABSENT" /\ NumberedInTurn'
           /\ asset' = [asset EXCEPT ![new] = [state |-> "PENDING", url |-> url, old |-> FALSE]]
    BY NextNumber
  <1>2. /\ asset' \in [Assets -> [state: State, url: AnyKey, old: BOOLEAN]]
        /\ asset'[new].state = "PENDING" /\ \A a \in Assets \ {new} : asset'[a] = asset[a]
    BY <1>1 DEF IInv, TypeOK, State
  <1>3. TypeOK'
    <2>1. Resting \in Upload
      BY AttachmentAssumption DEF Resting, Upload, AnyKey
    <2> QED BY <1>2, <2>1 DEF Done, IInv, TypeOK
  <1>4. \A j \in Uploads : InFlight(j)' => InFlight(j) /\ j # i /\ upload'[j] = upload[j]
    BY DEF Done, Resting, InFlight, IInv, TypeOK
  <1>5. KeysOK'
    <2>1. blob'.key <= keys
      BY DEF IInv, KeysOK, KeyIsOwn, TypeOK, AnyKey
    <2>2. ASSUME NEW j \in Uploads, InFlight(j)' PROVE upload[j].key # blob'.key
      BY <1>4, <2>2 DEF IInv, KeysOK, KeyIsOwn
    <2> QED BY <1>4, <2>1, <2>2 DEF IInv, KeysOK, KeyIsOwn
  <1>6. (NoneBeforeTheBlob /\ UsableIsHealthy /\ GoneIsMarked)'
    BY DEF NoneBeforeTheBlob, UsableIsHealthy, GoneIsMarked, Healthy
  <1>7. (RelatedIsAttached /\ SeenIsOfPost)'
    BY <1>1, <1>2 DEF IInv, RelatedIsAttached, SeenIsOfPost
  <1>8. ASSUME NEW w \in Workers PROVE (HandOK(w) /\ MarkOK(w))'
    <2>1. HandOK(w)'
      BY <1>1, <1>2 DEF IInv, HandOK
    <2>2. SameObject(w)' => blob' = blob /\ ~blob.requested /\ SameObject(w)
      BY DEF IInv, KeysOK, KeyIsOwn, SameObject
    <2>3. MarkOK(w)'
      BY <2>2 DEF IInv, MarkOK, Healthy
    <2> QED BY <2>1, <2>3
  <1> QED BY <1>1, <1>3, <1>5, <1>6, <1>7, <1>8 DEF IInv

\* Where nothing is marked, the blob's object is there.
LEMMA AvailableIsHealthy == IInv /\ Available => Healthy
  BY DEF IInv, GoneIsMarked, Available, Healthy

\* One step per call of the two upload handlers (upload.service.ts:198-459).
LEMMA UploadsOK ==
    ASSUME IInv, NEW i \in Uploads,
           \/ PrepareForumAttachment(i) \/ UploadForumAttachment(i) \/ Reuse(i) \/ Put(i)
           \/ PutFails(i) \/ Register(i) \/ RegisterFails(i) \/ RaceAction(i) \/ Revive(i)
           \/ ReviveFails(i) \/ GiveWay(i)
    PROVE  IInv'
  <1>0. /\ upload[i] \in Upload /\ Resting \in Upload /\ blob.key \in AnyKey
        /\ faults \in 0..MaxFaults /\ upload \in [Uploads -> Upload] /\ 0 \in AnyKey
    BY AttachmentAssumption DEF IInv, TypeOK, Resting, Upload, AnyKey
  <1>keys. /\ keys \in Nat /\ \A k \in 1..keys : k \in Keys
        /\ \A k \in AnyKey : k \in Nat /\ (k # 0 => k \in Keys)
        /\ \A j \in Uploads : InFlight(j) => upload[j].key \in 1..keys
    BY AttachmentAssumption DEF IInv, TypeOK, AnyKey, Keys, KeysOK, KeyIsOwn
  <1>1. ASSUME NEW u \in Upload, upload' = [upload EXCEPT ![i] = u],
               u.phase \in {"register", "conflict", "revive", "winner"}
                 => InFlight(i) /\ u.key = upload[i].key,
               faults' = faults \/ Fault, UNCHANGED <<tables, object, keys, req, worker>>
        PROVE  IInv'
    <2>1. faults' \in 0..MaxFaults
      BY <1>0, <1>1, AttachmentAssumption DEF Fault
    <2> QED BY <1>1, <2>1, UploadOnly
  <1>2. CASE PrepareForumAttachment(i)
    <2> DEFINE u == [Resting EXCEPT !.phase = "reuse", !.url = blob.key]
    <2>1. u \in Upload /\ u.phase = "reuse"
      BY <1>0 DEF Resting, Upload
    <2> QED BY <1>1, <1>2, <2>1 DEF PrepareForumAttachment
  <1>3. CASE UploadForumAttachment(i)
    <2> DEFINE u == IF Available
                    THEN [Resting EXCEPT !.phase = "reuse", !.mode = "upload", !.url = blob.key]
                    ELSE [Resting EXCEPT !.phase = "put", !.mode = "upload"]
    <2>1. u \in Upload /\ u.phase \in {"reuse", "put"}
      BY <1>0 DEF Resting, Upload
    <2> QED BY <1>1, <1>3, <2>1 DEF UploadForumAttachment
  <1>4. CASE Reuse(i)
    <2>1. CASE Available
      <3>1. CreateAsset(upload[i].url) /\ Done(i) /\ Healthy'
        BY <1>4, <2>1, AvailableIsHealthy DEF Reuse, Healthy
      <3>2. upload[i].url \in AnyKey
        BY <1>0 DEF Upload
      <3> QED BY <1>4, <2>1, <3>1, <3>2, CreateOK DEF Reuse, Available, IInv, TypeOK
    <2>2. CASE ~Available /\ upload[i].mode = "upload"
      <3> DEFINE u == [upload[i] EXCEPT !.phase = "put", !.url = 0]
      <3>1. u \in Upload /\ u.phase = "put"
        BY <1>0 DEF Upload
      <3>2. upload' = [upload EXCEPT ![i] = u]
        BY <1>0, <1>4, <2>2 DEF Reuse
      <3> QED BY <1>1, <1>4, <2>2, <3>1, <3>2 DEF Reuse, tables
    <2>3. CASE ~Available /\ upload[i].mode # "upload"
      BY <1>0, <1>1, <1>4, <2>3 DEF Reuse, Done, Resting, tables
    <2> QED BY <2>1, <2>2, <2>3
  <1>5. CASE Put(i)
    <2>1. /\ upload[i].phase = "put" /\ keys < MaxKeys /\ keys \in Nat /\ keys' = keys + 1
          /\ object' = [object EXCEPT ![keys + 1] = TRUE]
          /\ upload' = [upload EXCEPT ![i].phase = "register", ![i].key = keys + 1]
          /\ UNCHANGED <<blob, asset, relation, post, req, worker, faults>>
      BY <1>5, AttachmentAssumption DEF Put, tables, IInv, TypeOK, AnyKey
    <2>2. keys + 1 \in Keys /\ keys + 1 \in AnyKey
      BY <2>1, AttachmentAssumption DEF Keys, AnyKey
    <2>3. upload' \in [Uploads -> Upload]
      BY <1>0, <2>1, <2>2 DEF Upload
    <2>4. TypeOK'
      BY <2>1, <2>2, <2>3 DEF IInv, TypeOK
    <2>5. \A w \in Workers : worker[w].key # keys + 1
      BY <2>1 DEF IInv, HandOK, TypeOK, Worker, AnyKey
    <2>6. /\ \A j \in Uploads \ {i} : upload'[j] = upload[j]
          /\ upload'[i].phase = "register" /\ upload'[i].key = keys + 1
          /\ object'[keys + 1] /\ \A k \in Keys : object[k] => object'[k]
          /\ blob.key # 0 => object'[blob.key] = object[blob.key]
      <3>1. /\ \A j \in Uploads \ {i} : upload'[j] = upload[j]
            /\ upload'[i].phase = "register" /\ upload'[i].key = keys + 1
        BY <1>0, <2>1, <2>2 DEF Upload
      <3>2. object'[keys + 1] /\ \A k \in Keys \ {keys + 1} : object'[k] = object[k]
        BY <2>1, <2>2 DEF IInv, TypeOK
      <3>3. blob.key # keys + 1
        BY <1>0, <1>keys DEF IInv, KeysOK
      <3> QED BY <1>0, <1>keys, <3>1, <3>2, <3>3
    <2>7. KeysOK'
      <3>1. blob'.key <= keys' /\ keys + 1 # blob.key
        BY <1>0, <2>1 DEF IInv, KeysOK, AnyKey
      <3>2. ASSUME NEW j \in Uploads, InFlight(j)' PROVE KeyIsOwn(j)'
        <4>1. \A h \in Uploads \ {i} : InFlight(h)' => InFlight(h) /\ upload[h].key \in 1..keys
          BY <2>6 DEF InFlight, IInv, KeysOK, KeyIsOwn
        <4>2. CASE j = i
          <5>1. upload'[i].key \in 1..keys' /\ upload'[i].key # blob'.key /\ object'[upload'[i].key]
            BY <1>keys, <2>1, <2>6, <3>1
          <5>2. \A h \in Uploads \ {i} : InFlight(h)' => upload'[h].key # keys + 1
            BY <1>keys, <2>6, <4>1
          <5>3. \A w \in Workers : worker'[w].key # keys + 1
            BY <2>1, <2>5
          <5> QED BY <2>6, <4>2, <5>1, <5>2, <5>3 DEF KeyIsOwn
        <4>3. CASE j # i
          <5>1. upload[j].key \in Keys /\ upload[j].key # keys + 1
            BY <1>keys, <3>2, <4>1, <4>3
          <5>2. upload'[j] = upload[j] /\ InFlight(j) /\ KeyIsOwn(j)
            BY <2>6, <3>2, <4>1, <4>3 DEF IInv, KeysOK
          <5>3. upload[j].key \in 1..keys /\ keys' = keys + 1
            BY <2>1, <5>2 DEF KeyIsOwn
          <5>4. upload[j].key \in 1..keys'
            BY <1>keys, <5>3
          <5>5. object'[upload[j].key]
            BY <2>6, <5>1, <5>2 DEF KeyIsOwn
          <5>6. upload[j].key # blob.key /\ \A w \in Workers : worker[w].key # upload[j].key
            BY <5>2 DEF KeyIsOwn
          <5>7. \A h \in Uploads : InFlight(h)' /\ h # j => upload'[h].key # upload[j].key
            BY <2>6, <3>2, <4>1, <4>3, <5>1 DEF IInv, KeysOK, KeyIsOwn
          <5> QED BY <2>1, <5>2, <5>4, <5>5, <5>6, <5>7 DEF KeyIsOwn
        <4> QED BY <4>2, <4>3
      <3> QED BY <3>1, <3>2 DEF KeysOK, KeyIsOwn
    <2>8. (GoneIsMarked /\ UsableIsHealthy)'
      BY <2>1, <2>6 DEF IInv, GoneIsMarked, UsableIsHealthy, Refs, StateOf, Healthy
    <2>9. ASSUME NEW w \in Workers PROVE (HandOK(w) /\ MarkOK(w))'
      <3>1. worker[w].key \in Nat
        BY DEF IInv, TypeOK, Worker, AnyKey
      <3>2. HandOK(w)'
        BY <2>1, <3>1 DEF IInv, HandOK
      <3>3. SameObject(w) => SameObject(w)' /\ blob.key = worker[w].key
        BY <2>1 DEF SameObject
      <3>4. MarkOK(w)'
        BY <2>1, <2>6 DEF IInv, MarkOK, HandOK, SameObject, Refs, StateOf, Healthy
      <3> QED BY <3>2, <3>4
    <2> QED BY <2>1, <2>4, <2>7, <2>8, <2>9
            DEF IInv, NumberedInTurn, NoneBeforeTheBlob, RelatedIsAttached, SeenIsOfPost
  <1>6. CASE PutFails(i)
    BY <1>0, <1>1, <1>6 DEF PutFails, Done, Resting
  <1>7. CASE Register(i)
    <2>1. CASE blob.key = 0
      <3>1. /\ CreateAsset(upload[i].key) /\ Done(i)
            /\ blob' = [blob EXCEPT !.key = upload[i].key]
            /\ UNCHANGED <<relation, post, object, keys, req, worker, faults>>
        BY <1>7, <2>1 DEF Register
      <3>2. InFlight(i) /\ upload[i].key \in 1..keys /\ object[upload[i].key]
        BY <1>7 DEF Register, InFlight, IInv, KeysOK, KeyIsOwn
      <3>3. upload[i].key \in AnyKey
        BY <1>0 DEF Upload
      <3>4. ~blob.deleted
        BY <2>1 DEF IInv, NoneBeforeTheBlob
      <3>5. /\ blob' \in [key: AnyKey, requested: BOOLEAN, deleted: BOOLEAN]
            /\ blob'.key = upload[i].key /\ Healthy'
        BY <3>1, <3>2, <3>3, <3>4 DEF IInv, TypeOK, Healthy
      <3> QED BY <3>1, <3>2, <3>3, <3>5, CreateOK
    <2>2. CASE blob.key # 0
      <3> DEFINE u == [upload[i] EXCEPT !.phase = "conflict"]
      <3>1. u \in Upload /\ upload' = [upload EXCEPT ![i] = u] /\ InFlight(i)
        BY <1>0, <1>7, <2>2 DEF Register, Turn, Upload, InFlight
      <3> QED BY <1>0, <1>1, <1>7, <2>2, <3>1 DEF Register, tables, Upload
    <2> QED BY <2>1, <2>2
  <1>8. CASE RaceAction(i)
    <2> DEFINE u == [upload[i] EXCEPT !.sawDeleted = blob.deleted,
                                      !.phase = IF Available THEN "winner" ELSE "revive"]
    <2>1. u \in Upload /\ upload' = [upload EXCEPT ![i] = u] /\ InFlight(i)
          /\ u.key = upload[i].key
      BY <1>0, <1>8 DEF RaceAction, Upload, InFlight, IInv, TypeOK
    <2> QED BY <1>1, <1>8, <2>1 DEF RaceAction
  <1>9. CASE Revive(i)
    <2>1. CASE Revivable(i)
      <3>1. /\ CreateAsset(upload[i].key) /\ Done(i)
            /\ blob' = [key |-> upload[i].key, requested |-> FALSE, deleted |-> FALSE]
            /\ UNCHANGED <<relation, post, object, keys, req, worker, faults>>
        BY <1>9, <2>1 DEF Revive
      <3>2. InFlight(i) /\ upload[i].key \in 1..keys /\ object[upload[i].key]
        BY <1>9 DEF Revive, InFlight, IInv, KeysOK, KeyIsOwn
      <3>3. upload[i].key \in AnyKey
        BY <1>0 DEF Upload
      <3>4. /\ blob' \in [key: AnyKey, requested: BOOLEAN, deleted: BOOLEAN]
            /\ blob'.key = upload[i].key /\ Healthy'
        BY <3>1, <3>2, <3>3 DEF Healthy
      <3> QED BY <3>1, <3>2, <3>3, <3>4, CreateOK
    <2>2. CASE ~Revivable(i)
      <3> DEFINE u == [upload[i] EXCEPT !.phase = "winner"]
      <3>1. u \in Upload /\ upload' = [upload EXCEPT ![i] = u] /\ InFlight(i)
        BY <1>0, <1>9, <2>2 DEF Revive, Turn, Upload, InFlight
      <3> QED BY <1>0, <1>1, <1>9, <2>2, <3>1 DEF Revive, tables, Upload
    <2> QED BY <2>1, <2>2
  <1>10. CASE ReviveFails(i)
    <2> DEFINE u == [upload[i] EXCEPT !.phase = "winner"]
    <2>1. u \in Upload /\ upload' = [upload EXCEPT ![i] = u] /\ InFlight(i)
      BY <1>0, <1>10 DEF ReviveFails, Turn, Upload, InFlight
    <2> QED BY <1>0, <1>1, <1>10, <2>1 DEF ReviveFails, Upload
  <1>11. ASSUME InFlight(i), object' = [object EXCEPT ![upload[i].key] = FALSE],
                NEW u \in Upload, upload' = [upload EXCEPT ![i] = u],
                u.phase \in {"idle", "reuse"}, faults' = faults \/ Fault,
                UNCHANGED <<tables, keys, req, worker>>
         PROVE  IInv'
    <2>1. /\ UNCHANGED <<blob, asset, relation, post>> /\ upload[i].key \in Keys
          /\ upload[i].key # blob.key
      BY <1>11, <1>keys DEF tables, IInv, KeysOK, KeyIsOwn
    <2>2. faults' \in 0..MaxFaults
      BY <1>0, <1>11, AttachmentAssumption DEF Fault
    <2>3. TypeOK'
      BY <1>0, <1>11, <2>1, <2>2 DEF IInv, TypeOK
    <2>4. /\ \A j \in Uploads : InFlight(j)' => InFlight(j) /\ j # i /\ upload'[j] = upload[j]
          /\ \A k \in Keys : k # upload[i].key => object'[k] = object[k]
      BY <1>0, <1>11, <2>1 DEF InFlight, IInv, TypeOK
    <2>5. KeysOK'
      <3>1. ASSUME NEW j \in Uploads, InFlight(j)' PROVE KeyIsOwn(j)'
        <4>1. upload[j].key \in Keys /\ upload[j].key # upload[i].key
          BY <1>11, <1>keys, <2>4, <3>1 DEF IInv, KeysOK, KeyIsOwn
        <4> QED BY <1>11, <2>1, <2>4, <3>1, <4>1 DEF IInv, KeysOK, KeyIsOwn
      <3> QED BY <1>11, <2>1, <3>1 DEF IInv, KeysOK, KeyIsOwn
    <2>6. blob.key # 0 => object'[blob.key] = object[blob.key]
      BY <1>0, <1>keys, <2>1, <2>4
    <2>7. (GoneIsMarked /\ UsableIsHealthy)'
      BY <2>1, <2>6 DEF IInv, GoneIsMarked, UsableIsHealthy, Refs, StateOf, Healthy
    <2>8. ASSUME NEW w \in Workers PROVE (HandOK(w) /\ MarkOK(w))'
      <3>1. HandOK(w)'
        BY <1>11, <2>1 DEF IInv, HandOK
      <3>2. MarkOK(w)'
        BY <1>11, <2>1, <2>6 DEF IInv, MarkOK, HandOK, SameObject, Refs, StateOf, Healthy
      <3> QED BY <3>1, <3>2
    <2> QED BY <1>11, <2>1, <2>3, <2>5, <2>7, <2>8
            DEF IInv, NumberedInTurn, NoneBeforeTheBlob, RelatedIsAttached, SeenIsOfPost
  <1>12. CASE RegisterFails(i)
    BY <1>0, <1>11, <1>12 DEF RegisterFails, InFlight, Done, Resting
  <1>13. CASE GiveWay(i)
    <2> DEFINE u == IF Available
                    THEN [Resting EXCEPT !.phase = "reuse", !.mode = "late", !.url = blob.key]
                    ELSE Resting
    <2>1. u \in Upload /\ u.phase \in {"idle", "reuse"}
      BY <1>0 DEF Resting, Upload
    <2>2. upload' = [upload EXCEPT ![i] = u] /\ InFlight(i)
      BY <1>13 DEF GiveWay, Done, InFlight
    <2> QED BY <1>11, <1>13, <2>1, <2>2 DEF GiveWay
  <1> QED BY <1>2, <1>3, <1>4, <1>5, <1>6, <1>7, <1>8, <1>9, <1>10, <1>12, <1>13

----------------------------------------------------------------------------
(* Posts. *)

\* What saving or deleting post p does to one asset: nothing, or it attaches it,
\* or it condemns it.
LetGo(a) == asset'[a] = asset[a] /\ relation'[a] \in {relation[a], NoPost}

Attached(a, p, seen) ==
    /\ asset[a].state \in Referring /\ (asset[a].state = "PENDING" \/ a \in seen)
    /\ asset'[a] = [asset[a] EXCEPT !.state = "ATTACHED"]
    /\ relation[a] \in {NoPost, p} /\ relation'[a] = p

Condemned(a, seen) ==
    /\ a \in seen /\ asset[a].state \in Referring \cup {"DELETE_FAILED"}
    /\ asset'[a] = [asset[a] EXCEPT !.state = "DELETE_PENDING"]
    /\ relation'[a] = NoPost

\* A transaction that commits so keeps the invariant.
LEMMA PostStep ==
    ASSUME IInv, NEW r \in Requests, req[r] # Idle, req' = [req EXCEPT ![r] = Idle],
           NEW p \in Posts, p = req[r].post,
           post' \in [Posts -> {"NEW", "LIVE", "DELETED"}],
           relation' \in [Assets -> Posts \cup {NoPost}],
           asset' \in [Assets -> [state: State, url: AnyKey, old: BOOLEAN]],
           \A a \in Assets : \/ LetGo(a)
                             \/ Attached(a, p, req[r].related)
                             \/ Condemned(a, req[r].related),
           UNCHANGED <<blob, object, keys, upload, worker, faults>>
    PROVE  IInv'
  <1>1. TypeOK'
    <2>1. req' \in [Requests -> Request]
      BY DEF IInv, TypeOK, Request
    <2> QED BY <2>1 DEF IInv, TypeOK
  <1>2. ASSUME NEW a \in Assets
        PROVE  /\ asset'[a].state = "ABSENT" <=> asset[a].state = "ABSENT"
               /\ asset'[a].state = "DELETED" <=> asset[a].state = "DELETED"
               /\ asset'[a].state = "DELETING" <=> asset[a].state = "DELETING"
               /\ asset[a].state = "DELETING" => asset'[a] = asset[a]
               /\ asset[a].state \notin {"ABSENT", "PENDING"} =>
                    asset'[a].state \notin {"ABSENT", "PENDING"}
               /\ asset'[a].state \in Referring => asset[a].state \in Referring
               /\ asset[a].state = "DELETING" => relation'[a] \in {relation[a], NoPost}
               /\ relation'[a] # NoPost =>
                    \/ relation'[a] = relation[a] /\ asset'[a] = asset[a]
                    \/ asset'[a].state = "ATTACHED" /\ asset[a].state \in Referring
    <2>1. CASE LetGo(a)
      BY <2>1 DEF LetGo
    <2>2. asset[a] \in [state: State, url: AnyKey, old: BOOLEAN]
      BY DEF IInv, TypeOK
    <2>3. CASE Attached(a, p, req[r].related)
      <3>1. asset'[a].state = "ATTACHED" /\ asset[a].state \in {"PENDING", "ATTACHED"}
        BY <2>2, <2>3 DEF Attached, Referring
      <3> QED BY <3>1 DEF Referring
    <2>4. CASE Condemned(a, req[r].related)
      <3>1. /\ asset'[a].state = "DELETE_PENDING" /\ relation'[a] = NoPost
            /\ asset[a].state \in {"PENDING", "ATTACHED", "DELETE_FAILED"}
        BY <2>2, <2>4 DEF Condemned, Referring
      <3> QED BY <3>1 DEF Referring
    <2> QED BY <2>1, <2>3, <2>4
  <1>3. Refs' = Refs
    BY <1>2 DEF Refs, StateOf
  <1>4. {a \in Assets : asset'[a].state # "ABSENT"} = {a \in Assets : asset[a].state # "ABSENT"}
    BY <1>2
  <1>5. NumberedInTurn'
    BY <1>4 DEF IInv, NumberedInTurn
  <1>6. NoneBeforeTheBlob'
    BY <1>2 DEF IInv, NoneBeforeTheBlob
  <1>7. KeysOK'
    BY DEF IInv, KeysOK, KeyIsOwn, InFlight
  <1>8. RelatedIsAttached'
    BY <1>2 DEF IInv, RelatedIsAttached
  <1>9. SeenIsOfPost'
    <2>1. SUFFICES ASSUME NEW s \in Requests, s # r, req[s] # Idle, NEW a \in req[s].related
                   PROVE  /\ relation'[a] \in {req[s].post, NoPost}
                          /\ asset'[a].state \notin {"ABSENT", "PENDING"}
                          /\ \A t \in Requests : req'[t] # Idle /\ a \in req'[t].related =>
                                req'[t].post = req[s].post
      BY DEF SeenIsOfPost, IInv, TypeOK
    <2>2. a \in Assets
      BY <2>1 DEF IInv, TypeOK, Request
    <2>3. /\ relation[a] \in {req[s].post, NoPost} /\ asset[a].state \notin {"ABSENT", "PENDING"}
          /\ \A t \in Requests : req[t] # Idle /\ a \in req[t].related => req[t].post = req[s].post
      BY <2>1 DEF IInv, SeenIsOfPost
    <2>4. relation'[a] \in {req[s].post, NoPost}
      BY <2>2, <2>3 DEF LetGo, Attached, Condemned
    <2>5. asset'[a].state \notin {"ABSENT", "PENDING"}
      BY <1>2, <2>2, <2>3
    <2> QED BY <2>3, <2>4, <2>5 DEF IInv, TypeOK
  <1>10. ASSUME NEW w \in Workers PROVE (HandOK(w) /\ MarkOK(w))'
    <2>1. worker[w].at # 0 => worker[w].at \in Assets
      BY AttachmentAssumption DEF IInv, TypeOK, Worker, Assets
    <2>2. HandOK(w)'
      BY <1>2, <2>1 DEF IInv, HandOK
    <2>3. MarkOK(w)'
      BY <1>3 DEF IInv, MarkOK, SameObject, Healthy
    <2> QED BY <2>2, <2>3
  <1>11. GoneIsMarked'
    BY <1>3 DEF IInv, GoneIsMarked
  <1>12. UsableIsHealthy'
    BY <1>2 DEF IInv, UsableIsHealthy, Healthy
  <1> QED BY <1>1, <1>5, <1>6, <1>7, <1>8, <1>9, <1>10, <1>11, <1>12 DEF IInv

\* Where only the requests change, what they have seen is all there is to show.
LEMMA RequestOnly ==
    ASSUME IInv, req' \in [Requests -> Request], SeenIsOfPost',
           UNCHANGED <<tables, object, keys, upload, worker, faults>>
    PROVE  IInv'
  <1>1. UNCHANGED <<blob, asset, relation, post, object, keys, upload, worker, faults>>
    BY DEF tables
  <1>2. TypeOK'
    BY <1>1 DEF IInv, TypeOK
  <1>3. (NumberedInTurn /\ NoneBeforeTheBlob /\ KeysOK /\ RelatedIsAttached)'
    BY <1>1 DEF IInv, NumberedInTurn, NoneBeforeTheBlob, KeysOK, KeyIsOwn, InFlight,
                RelatedIsAttached
  <1>4. (GoneIsMarked /\ UsableIsHealthy /\ \A w \in Workers : HandOK(w) /\ MarkOK(w))'
    BY <1>1 DEF IInv, GoneIsMarked, UsableIsHealthy, HandOK, MarkOK, Refs, StateOf, SameObject,
                Healthy
  <1> QED BY <1>2, <1>3, <1>4 DEF IInv

\* Each request sees the assets of its post, and nobody else's.
LEMMA BeginOK ==
    ASSUME IInv, NEW r \in Requests, NEW op \in {"save", "delete"}, NEW p \in Posts,
           NEW target \in SUBSET Assets, Begin(r, op, p, target)
    PROVE  IInv'
  <1> DEFINE q == [op |-> op, post |-> p, target |-> target, new |-> post[p] = "NEW",
                   related |-> Related(p)]
  <1>1. q \in Request /\ req' = [req EXCEPT ![r] = q]
    BY DEF Begin, Request, Related
  <1>2. req' \in [Requests -> Request]
    BY <1>1 DEF IInv, TypeOK
  <1>3. UNCHANGED <<blob, asset, relation, post, object, keys, upload, worker, faults>>
    BY DEF Begin, tables
  <1>4. ASSUME NEW a \in Related(p)
        PROVE  /\ a \in Assets /\ relation[a] = p /\ asset[a].state \notin {"ABSENT", "PENDING"}
               /\ \A s \in Requests : req[s] # Idle /\ a \in req[s].related => req[s].post = p
    BY <1>4, AttachmentAssumption DEF Related, IInv, RelatedIsAttached, SeenIsOfPost
  <1>5. SeenIsOfPost'
    <2>1. ASSUME NEW s \in Requests, req'[s] # Idle, NEW a \in req'[s].related
          PROVE  /\ relation[a] \in {req'[s].post, NoPost}
                 /\ asset[a].state \notin {"ABSENT", "PENDING"}
                 /\ \A t \in Requests : req'[t] # Idle /\ a \in req'[t].related =>
                       req'[t].post = req'[s].post
      <3>1. \A t \in Requests \ {r} : req'[t] = req[t]
        BY <1>1 DEF IInv, TypeOK
      <3>2. req'[r].post = p /\ req'[r].related = Related(p)
        BY <1>1 DEF IInv, TypeOK
      <3>3. CASE s = r
        BY <1>4, <2>1, <3>1, <3>2, <3>3
      <3>4. CASE s # r
        <4>1. /\ relation[a] \in {req[s].post, NoPost}
              /\ asset[a].state \notin {"ABSENT", "PENDING"}
              /\ \A t \in Requests : req[t] # Idle /\ a \in req[t].related => req[t].post = req[s].post
          BY <2>1, <3>1, <3>4 DEF IInv, SeenIsOfPost
        <4>2. a \in Related(p) => req[s].post = p
          BY <1>4, <2>1, <3>1, <3>4
        <4> QED BY <3>1, <3>2, <3>4, <4>1, <4>2
      <3> QED BY <3>3, <3>4
    <2> QED BY <1>3, <2>1 DEF SeenIsOfPost
  <1> QED BY <1>2, <1>3, <1>5, RequestOnly DEF tables

\* One step per transaction on a post (forum.service.ts:780-1005, forum-attachment.service.ts:62-199).
LEMMA RequestsOK ==
    ASSUME IInv, NEW r \in Requests,
           \/ SavePost(r) \/ DeletePost(r) \/ Fail(r)
           \/ \E p \in Posts : BeginSave(r, p) \/ BeginDelete(r, p)
    PROVE  IInv'
  <1> DEFINE q == req[r]
  <1>1. ASSUME q.op \in {"save", "delete"}
        PROVE  q # Idle /\ q.post \in Posts /\ q.target \in SUBSET Assets
               /\ q.related \in SUBSET Assets
    BY <1>1 DEF IInv, TypeOK, Request, Idle
  <1>2. CASE SavePost(r)
    <2>1. /\ RowsUnchanged(q) /\ q.op = "save" /\ req' = [req EXCEPT ![r] = Idle]
          /\ UNCHANGED <<blob, object, keys, upload, worker, faults>>
      BY <1>2 DEF SavePost
    <2>2. q # Idle /\ q.post \in Posts /\ q.target \in SUBSET Assets /\ q.related \in SUBSET Assets
      BY <1>1, <2>1
    <2>3. ASSUME NEW a \in Assets
          PROVE  /\ asset'[a] = IF a \in q.target THEN [asset[a] EXCEPT !.state = "ATTACHED"]
                                ELSE IF a \in q.related THEN [asset[a] EXCEPT !.state = "DELETE_PENDING"]
                                ELSE asset[a]
                 /\ relation'[a] = IF a \in q.target THEN q.post
                                   ELSE IF relation[a] = q.post THEN NoPost ELSE relation[a]
      BY <1>2 DEF SavePost, Condemn
    <2>4. asset' \in [Assets -> [state: State, url: AnyKey, old: BOOLEAN]]
      <3>1. asset' = [a \in Assets |-> asset'[a]]
        BY <1>2 DEF SavePost
      <3>2. ASSUME NEW a \in Assets PROVE asset'[a] \in [state: State, url: AnyKey, old: BOOLEAN]
        <4>1. asset[a] \in [state: State, url: AnyKey, old: BOOLEAN]
          BY DEF IInv, TypeOK
        <4>2. /\ [asset[a] EXCEPT !.state = "ATTACHED"] \in [state: State, url: AnyKey, old: BOOLEAN]
              /\ [asset[a] EXCEPT !.state = "DELETE_PENDING"]
                     \in [state: State, url: AnyKey, old: BOOLEAN]
          BY <4>1 DEF State
        <4> QED BY <2>3, <4>1, <4>2
      <3> QED BY <3>1, <3>2
    <2>5. relation' \in [Assets -> Posts \cup {NoPost}]
      <3>1. relation' = [a \in Assets |-> relation'[a]]
        BY <1>2 DEF SavePost
      <3>2. \A a \in Assets : relation'[a] \in Posts \cup {NoPost}
        BY <2>2, <2>3 DEF IInv, TypeOK
      <3> QED BY <3>1, <3>2
    <2>6. post' \in [Posts -> {"NEW", "LIVE", "DELETED"}]
      BY <1>2, <2>2 DEF SavePost, IInv, TypeOK
    <2>7. ASSUME NEW a \in Assets
          PROVE  LetGo(a) \/ Attached(a, q.post, q.related) \/ Condemned(a, q.related)
      <3>1. CASE a \in q.target
        BY <2>1, <2>3, <3>1 DEF RowsUnchanged, StateOf, Attached, Referring
      <3>2. CASE a \in q.related \ q.target
        <4>1. asset[a].state = "ATTACHED" /\ relation[a] \in {q.post, NoPost}
          BY <2>1, <2>2, <3>2 DEF RowsUnchanged, StateOf, IInv, SeenIsOfPost
        <4>2. asset'[a] = [asset[a] EXCEPT !.state = "DELETE_PENDING"] /\ relation'[a] = NoPost
          BY <2>3, <3>2, <4>1
        <4> QED BY <3>2, <4>1, <4>2 DEF Condemned, Referring
      <3>3. CASE a \notin q.related \cup q.target
        BY <2>3, <3>3 DEF LetGo
      <3> QED BY <3>1, <3>2, <3>3
    <2> QED BY <2>1, <2>2, <2>4, <2>5, <2>6, <2>7, PostStep
  <1>3. CASE DeletePost(r)
    <2>1. /\ q.op = "delete" /\ req' = [req EXCEPT ![r] = Idle]
          /\ UNCHANGED <<blob, object, keys, upload, worker, faults>>
      BY <1>3 DEF DeletePost
    <2>2. q # Idle /\ q.post \in Posts /\ q.related \in SUBSET Assets
      BY <1>1, <2>1
    <2>3. ASSUME NEW a \in Assets
          PROVE  /\ asset'[a] = IF a \in q.related /\ asset[a].state \in Referring \cup {"DELETE_FAILED"}
                                THEN [asset[a] EXCEPT !.state = "DELETE_PENDING"] ELSE asset[a]
                 /\ relation'[a] = IF relation[a] = q.post THEN NoPost ELSE relation[a]
      BY <1>3, <2>2 DEF DeletePost, Condemn, Deletable, StateOf, Referring
    <2>4. asset' \in [Assets -> [state: State, url: AnyKey, old: BOOLEAN]]
      <3>1. asset' = [a \in Assets |-> asset'[a]]
        BY <1>3 DEF DeletePost, Condemn
      <3>2. ASSUME NEW a \in Assets PROVE asset'[a] \in [state: State, url: AnyKey, old: BOOLEAN]
        <4>1. asset[a] \in [state: State, url: AnyKey, old: BOOLEAN]
          BY DEF IInv, TypeOK
        <4>2. /\ [asset[a] EXCEPT !.state = "ATTACHED"] \in [state: State, url: AnyKey, old: BOOLEAN]
              /\ [asset[a] EXCEPT !.state = "DELETE_PENDING"]
                     \in [state: State, url: AnyKey, old: BOOLEAN]
          BY <4>1 DEF State
        <4> QED BY <2>3, <4>1, <4>2
      <3> QED BY <3>1, <3>2
    <2>5. relation' \in [Assets -> Posts \cup {NoPost}]
      BY <1>3 DEF DeletePost, IInv, TypeOK
    <2>6. post' \in [Posts -> {"NEW", "LIVE", "DELETED"}]
      BY <1>3, <2>2 DEF DeletePost, IInv, TypeOK
    <2>7. ASSUME NEW a \in Assets
          PROVE  LetGo(a) \/ Attached(a, q.post, q.related) \/ Condemned(a, q.related)
      <3>1. CASE a \in q.related /\ asset[a].state \in Referring \cup {"DELETE_FAILED"}
        <4>1. relation[a] \in {q.post, NoPost}
          BY <2>2, <3>1 DEF IInv, SeenIsOfPost
        <4> QED BY <2>3, <3>1, <4>1 DEF Condemned
      <3>2. CASE ~(a \in q.related /\ asset[a].state \in Referring \cup {"DELETE_FAILED"})
        BY <2>3, <3>2 DEF LetGo
      <3> QED BY <3>1, <3>2
    <2> QED BY <2>1, <2>2, <2>4, <2>5, <2>6, <2>7, PostStep
  <1>4. CASE Fail(r)
    <2>1. req' = [req EXCEPT ![r] = Idle] /\ UNCHANGED <<blob, asset, relation>>
      BY <1>4 DEF Fail, tables
    <2>2. req' \in [Requests -> Request] /\ \A s \in Requests : req'[s] # Idle => req'[s] = req[s]
      BY <2>1 DEF IInv, TypeOK, Request
    <2>3. SeenIsOfPost'
      BY <2>1, <2>2 DEF IInv, SeenIsOfPost
    <2> QED BY <1>4, <2>2, <2>3, RequestOnly DEF Fail
  <1>5. ASSUME NEW p \in Posts, BeginSave(r, p) PROVE IInv'
    BY <1>5, BeginOK DEF BeginSave
  <1>6. ASSUME NEW p \in Posts, BeginDelete(r, p) PROVE IInv'
    BY <1>6, BeginOK DEF BeginDelete
  <1> QED BY <1>2, <1>3, <1>4, <1>5, <1>6

----------------------------------------------------------------------------
(* The worker. *)

\* The worker's step.
OnlyStep(w, u) == worker' = [worker EXCEPT ![w] = u]

\* What is listed of the rows is a batch, and so is what is left of one.
Batches == UNION {[S -> State] : S \in SUBSET Assets}

LEMMA BatchType ==
    /\ \A S \in SUBSET Assets, f \in [Assets -> State] : [a \in S |-> f[a]] \in Batches
    /\ \A b \in Batches, a \in Assets :
         /\ DOMAIN b \subseteq Assets
         /\ [c \in DOMAIN b \ {a} |-> b[c]] \in Batches
  <1>1. ASSUME NEW S \in SUBSET Assets, NEW f \in [Assets -> State]
        PROVE  [a \in S |-> f[a]] \in Batches
    <2>1. [a \in S |-> f[a]] \in [S -> State]
      OBVIOUS
    <2> QED BY <2>1 DEF Batches
  <1>2. ASSUME NEW b \in Batches, NEW a \in Assets
        PROVE  DOMAIN b \subseteq Assets /\ [c \in DOMAIN b \ {a} |-> b[c]] \in Batches
    <2>1. PICK S \in SUBSET Assets : b \in [S -> State]
      BY DEF Batches
    <2>2. [c \in S \ {a} |-> b[c]] \in [S \ {a} -> State]
      BY <2>1
    <2> QED BY <2>1, <2>2 DEF Batches
  <1> QED BY <1>1, <1>2

\* A worker that starts, or has nothing left, holds no row.
LEMMA AsleepType == Asleep \in Worker
  <1>1. [a \in {} |-> "ABSENT"] \in [{} -> State]
    OBVIOUS
  <1> QED BY <1>1, AttachmentAssumption, SMTT(40) DEF Asleep, Worker, AnyKey

\* A worker that drops its row is left with the rest of the batch.
LEMMA DropIs ==
    ASSUME IInv, NEW w \in Workers, NEW a \in Assets, Drop(w, a)
    PROVE  \E u \in Worker :
             /\ OnlyStep(w, u) /\ u.at = 0 /\ u.phase = "list" /\ u.key = 0
             /\ \A b \in DOMAIN u.batch : u.batch[b] \notin {"ABSENT", "DELETED"}
  <1> DEFINE rest == [b \in DOMAIN worker[w].batch \ {a} |-> worker[w].batch[b]]
             u == [batch |-> rest, at |-> 0, phase |-> "list", key |-> 0]
  <1>1. worker[w].batch \in Batches
    BY DEF IInv, TypeOK, Worker, Batches
  <1>2. u \in Worker
    BY <1>1, BatchType, AttachmentAssumption, SMTT(40) DEF Worker, Batches, AnyKey
  <1>3. OnlyStep(w, u)
    BY DEF Drop, OnlyStep
  <1>4. \A b \in DOMAIN rest : rest[b] \notin {"ABSENT", "DELETED"}
    BY DEF IInv, HandOK
  <1> QED BY <1>2, <1>3, <1>4

\* What no step of the worker disturbs: it takes back no key an upload still counts on,
\* creates no row, and leaves none PENDING.
LEMMA WorkerFrame ==
    ASSUME IInv, NEW w \in Workers, NEW u \in Worker, OnlyStep(w, u),
           u.key \in {0, worker[w].key, blob.key},
           blob' \in [key: AnyKey, requested: BOOLEAN, deleted: BOOLEAN],
           blob'.key = blob.key, blob.key = 0 => blob' = blob,
           \/ asset' = asset
           \/ \E a \in Assets, s \in State \ {"ABSENT", "PENDING"} :
                /\ asset[a].state # "ABSENT"
                /\ relation[a] # NoPost => s \in {"ATTACHED", "DELETING"}
                /\ asset' = [asset EXCEPT ![a].state = s],
           object' = object \/ object' = [object EXCEPT ![worker[w].key] = FALSE],
           faults' \in 0..MaxFaults, UNCHANGED <<relation, post, keys, upload, req>>
    PROVE  /\ TypeOK' /\ NumberedInTurn' /\ NoneBeforeTheBlob' /\ KeysOK'
           /\ RelatedIsAttached' /\ SeenIsOfPost'
           /\ worker'[w] = u
  <1>1. asset' \in [Assets -> [state: State, url: AnyKey, old: BOOLEAN]]
    BY DEF IInv, TypeOK
  <1>2. object' \in [Keys -> BOOLEAN]
    BY DEF IInv, TypeOK
  <1>3. TypeOK' /\ worker'[w] = u /\ \A v \in Workers \ {w} : worker'[v] = worker[v]
    BY <1>1, <1>2 DEF IInv, TypeOK, OnlyStep
  <1>4. ASSUME NEW a \in Assets
        PROVE  /\ asset'[a].state = "ABSENT" <=> asset[a].state = "ABSENT"
               /\ asset[a].state \notin {"ABSENT", "PENDING"} =>
                     asset'[a].state \notin {"ABSENT", "PENDING"}
               /\ relation[a] # NoPost /\ asset[a].state \in {"ATTACHED", "DELETING"} =>
                     asset'[a].state \in {"ATTACHED", "DELETING"}
    BY DEF IInv, TypeOK
  <1>5. {a \in Assets : asset'[a].state # "ABSENT"} = {a \in Assets : asset[a].state # "ABSENT"}
    BY <1>4
  <1>6. NumberedInTurn'
    BY <1>5 DEF IInv, NumberedInTurn
  <1>7. NoneBeforeTheBlob'
    BY <1>4 DEF IInv, NoneBeforeTheBlob
  <1>8. KeysOK'
    <2>1. ASSUME NEW i \in Uploads, InFlight(i)' PROVE KeyIsOwn(i)'
      <3>1. InFlight(i) /\ KeyIsOwn(i)
        BY <2>1 DEF InFlight, IInv, KeysOK
      <3>2. upload[i].key \in Nat \ {0} /\ upload[i].key \in Keys
        BY <3>1, AttachmentAssumption DEF KeyIsOwn, IInv, TypeOK, AnyKey, Keys
      <3>3. object'[upload[i].key]
        BY <3>1, <3>2 DEF KeyIsOwn, IInv, TypeOK
      <3>4. \A v \in Workers : worker'[v].key # upload[i].key
        BY <1>3, <3>1, <3>2 DEF KeyIsOwn
      <3> QED BY <3>1, <3>3, <3>4 DEF KeyIsOwn, InFlight
    <2> QED BY <2>1 DEF IInv, KeysOK, KeyIsOwn
  <1>9. RelatedIsAttached'
    BY <1>4 DEF IInv, RelatedIsAttached
  <1>10. SeenIsOfPost'
    <2>1. \A r \in Requests : req[r] # Idle => \A a \in req[r].related : a \in Assets
      BY DEF IInv, TypeOK, Request
    <2> QED BY <1>4, <2>1 DEF IInv, SeenIsOfPost
  <1> QED BY <1>3, <1>6, <1>7, <1>8, <1>9, <1>10

\* The row in hand is DELETING, and counts as a reference.
LEMMA InHand ==
    ASSUME IInv, NEW w \in Workers, worker[w].phase # "list"
    PROVE  /\ worker[w].at \in Assets /\ asset[worker[w].at].state = "DELETING"
           /\ worker[w].at \in Refs /\ blob.key # 0
  <1>1. worker[w].at # 0 /\ worker[w].at \in 0..MaxAssets
    BY DEF IInv, HandOK, TypeOK, Worker
  <1>2. worker[w].at \in Assets /\ asset[worker[w].at].state = "DELETING"
    BY <1>1, AttachmentAssumption DEF Assets, IInv, HandOK
  <1> QED BY <1>2 DEF Refs, StateOf, IInv, NoneBeforeTheBlob

\* What a post shows is a reference.
LEMMA UsableIsRef ==
    ASSUME IInv, NEW a \in Assets, asset[a].state \in Referring \/ relation[a] # NoPost
    PROVE  a \in Refs
  BY DEF IInv, RelatedIsAttached, Referring, Refs, StateOf

\* The outcome of a row that has lost its relation.
LEMMA SettleIs ==
    ASSUME IInv, NEW w \in Workers, worker[w].phase # "list",
           NEW s \in {"ATTACHED", "DELETED", "DELETE_FAILED"}, Settle(w, s)
    PROVE  /\ asset' = [asset EXCEPT ![worker[w].at].state = s]
           /\ \A a \in Assets \ {worker[w].at} : asset'[a] = asset[a]
           /\ asset'[worker[w].at].state = s
           /\ Refs' \subseteq Refs
           /\ s = "ATTACHED" => Refs' = Refs
           /\ Drop(w, worker[w].at)
  <1>1. worker[w].at \in Assets /\ asset[worker[w].at].state = "DELETING"
    BY InHand
  <1>2. asset' = [asset EXCEPT ![worker[w].at].state = s]
    BY <1>1 DEF Settle, IInv, TypeOK
  <1>3. /\ \A a \in Assets \ {worker[w].at} : asset'[a] = asset[a]
        /\ asset'[worker[w].at].state = s
    BY <1>1, <1>2 DEF IInv, TypeOK
  <1>4. Refs' \subseteq Refs /\ (s = "ATTACHED" => Refs' = Refs)
    BY <1>1, <1>3 DEF Refs, StateOf
  <1> QED BY <1>2, <1>3, <1>4 DEF Settle

\* The rest of the invariant, seen from the worker that moved: it is the only one.
LEMMA WorkerRest ==
    ASSUME IInv, OneWorker, NEW w \in Workers, NEW u \in Worker,
           OnlyStep(w, u), u.key \in {0, worker[w].key, blob.key},
           blob' \in [key: AnyKey, requested: BOOLEAN, deleted: BOOLEAN],
           blob'.key = blob.key, blob.key = 0 => blob' = blob,
           \/ asset' = asset
           \/ \E a \in Assets, s \in State \ {"ABSENT", "PENDING"} :
                /\ asset[a].state # "ABSENT"
                /\ relation[a] # NoPost => s \in {"ATTACHED", "DELETING"}
                /\ asset' = [asset EXCEPT ![a].state = s],
           object' = object \/ object' = [object EXCEPT ![worker[w].key] = FALSE],
           faults' \in 0..MaxFaults, UNCHANGED <<relation, post, keys, upload, req>>,
           HandOK(w)', MarkOK(w)', GoneIsMarked', UsableIsHealthy'
    PROVE  IInv'
  <1>1. /\ TypeOK' /\ NumberedInTurn' /\ NoneBeforeTheBlob' /\ KeysOK'
        /\ RelatedIsAttached' /\ SeenIsOfPost'
    BY WorkerFrame
  <1>2. \A v \in Workers : HandOK(v)' /\ MarkOK(v)'
    BY DEF OneWorker
  <1> QED BY <1>1, <1>2 DEF IInv

\* A step that touches neither rows nor store, nor the blob, keeps these two.
LEMMA RowsAsTheyAre ==
    ASSUME IInv, UNCHANGED <<blob, asset, relation, object>>
    PROVE  GoneIsMarked' /\ UsableIsHealthy' /\ Refs' = Refs
  BY DEF IInv, GoneIsMarked, UsableIsHealthy, Healthy, Refs, StateOf

\* A worker that only goes on to another phase, or to another row's start.
LEMMA WorkerOnly ==
    ASSUME IInv, OneWorker, NEW w \in Workers, NEW u \in Worker, OnlyStep(w, u),
           u.key \in {0, worker[w].key, blob.key}, faults' = faults \/ Fault,
           UNCHANGED <<tables, object, keys, upload, req>>, HandOK(w)', MarkOK(w)'
    PROVE  IInv'
  <1>1. UNCHANGED <<blob, asset, relation, post, object>>
    BY DEF tables
  <1>2. faults' \in 0..MaxFaults
    BY AttachmentAssumption DEF Fault, IInv, TypeOK
  <1>3. blob' \in [key: AnyKey, requested: BOOLEAN, deleted: BOOLEAN]
    BY <1>1 DEF IInv, TypeOK
  <1> QED BY <1>1, <1>2, <1>3, RowsAsTheyAre, WorkerRest

\* A worker without a row, or about to take one, claims nothing of rows and blob.
LEMMA EmptyHand ==
    ASSUME IInv, NEW w \in Workers, NEW u \in Worker, OnlyStep(w, u),
           u.at = 0, u.phase = "list", u.key = 0 \/ u.key = worker[w].key,
           keys' = keys, \A b \in DOMAIN u.batch : u.batch[b] \notin {"ABSENT", "DELETED"}
    PROVE  HandOK(w)' /\ MarkOK(w)'
  <1>1. worker'[w] = u /\ keys \in Nat /\ worker[w].key <= keys
    BY AttachmentAssumption DEF OnlyStep, IInv, TypeOK, HandOK, AnyKey
  <1> QED BY <1>1 DEF HandOK, MarkOK

\* A worker with a row in hand that goes on with it.
LEMMA HandKept ==
    ASSUME IInv, NEW w \in Workers, worker[w].phase # "list",
           NEW u \in Worker, OnlyStep(w, u), u.at = worker[w].at, u.batch = worker[w].batch,
           u.phase # "list", UNCHANGED <<asset, relation, keys>>,
           u.key = worker[w].key \/ u.key = blob.key,
           u.phase \notin {"claimed", "related"} => u.key # 0 /\ relation[worker[w].at] = NoPost
    PROVE  HandOK(w)' /\ worker'[w] = u
  <1>1. worker'[w] = u /\ keys \in Nat /\ worker[w].key <= keys /\ blob.key <= keys
    BY AttachmentAssumption DEF OnlyStep, IInv, TypeOK, HandOK, AnyKey, KeysOK
  <1>2. worker[w].at # 0 /\ asset[worker[w].at].state = "DELETING"
    BY DEF IInv, HandOK
  <1> QED BY <1>1, <1>2 DEF IInv, HandOK

\* One step per call of deleteAsset (media-asset.service.ts:205-350).
LEMMA WorkerOK ==
    ASSUME IInv, OneWorker, NEW w \in Workers,
           Work(w) \/ DeleteObject(w) \/ DeleteObjectFails(w) \/ Crash(w)
    PROVE  IInv'
  <1>0. /\ worker[w] \in Worker /\ worker \in [Workers -> Worker] /\ faults \in 0..MaxFaults
        /\ worker[w].batch \in Batches /\ DOMAIN worker[w].batch \subseteq Assets
        /\ StateOf \in [Assets -> State]
        /\ blob \in [key: AnyKey, requested: BOOLEAN, deleted: BOOLEAN]
    <2>1. worker[w] \in Worker /\ worker \in [Workers -> Worker] /\ faults \in 0..MaxFaults
      BY DEF IInv, TypeOK
    <2>2. worker[w].batch \in Batches
      BY <2>1 DEF Worker, Batches
    <2>3. StateOf \in [Assets -> State]
      BY DEF IInv, TypeOK, StateOf
    <2> QED BY <2>1, <2>2, <2>3 DEF Batches, IInv, TypeOK
  <1>1. ASSUME NEW u \in Worker, OnlyStep(w, u), u.at = 0, u.phase = "list",
               u.key = 0 \/ u.key = worker[w].key, faults' = faults \/ Fault,
               \A b \in DOMAIN u.batch : u.batch[b] \notin {"ABSENT", "DELETED"},
               UNCHANGED <<tables, object, keys, upload, req>>
        PROVE  IInv'
    BY <1>1, EmptyHand, WorkerOnly
  <1>2. ASSUME NEW phase \in {"claimed", "related", "fresh", "marked", "last", "shared",
                              "removed", "done", "failed"}
        PROVE  LET u == [worker[w] EXCEPT !.phase = phase]
               IN  /\ u \in Worker /\ u.phase = phase /\ u.key = worker[w].key
                   /\ u.at = worker[w].at /\ u.batch = worker[w].batch
                   /\ Advance(w, phase) => OnlyStep(w, u)
    BY <1>0 DEF Worker, Advance, OnlyStep
  <1>3. CASE ListBatch(w)
    <2> DEFINE u == [worker[w] EXCEPT !.batch = [a \in mediaCleanupWhere |-> StateOf[a]]]
    <2>1. [a \in mediaCleanupWhere |-> StateOf[a]] \in Batches
      BY <1>0, BatchType DEF mediaCleanupWhere
    <2>2. u \in Worker /\ u.at = 0 /\ u.phase = "list" /\ u.key = 0
      <3>1. u \in Worker
        BY <1>0, <2>1 DEF Worker, Batches
      <3> QED BY <1>3, <3>1 DEF ListBatch, Asleep
    <2>3. \A b \in DOMAIN u.batch : u.batch[b] \notin {"ABSENT", "DELETED"}
      BY <1>0 DEF mediaCleanupWhere, Queue, Worker
    <2> QED BY <1>1, <1>3, <2>2, <2>3 DEF ListBatch, OnlyStep
  <1>4. ASSUME NEW a \in Assets, Claim(w, a) PROVE IInv'
    <2> DEFINE listed == worker[w].batch[a]
    <2>1. /\ worker[w].at = 0 /\ a \in DOMAIN worker[w].batch
          /\ UNCHANGED <<blob, relation, post, object, keys, upload, req, faults>>
      BY <1>4 DEF Claim
    <2>2. CASE UNCHANGED asset /\ Drop(w, a)
      <3>1. PICK u \in Worker :
               /\ OnlyStep(w, u) /\ u.at = 0 /\ u.phase = "list" /\ u.key = 0
               /\ \A b \in DOMAIN u.batch : u.batch[b] \notin {"ABSENT", "DELETED"}
        BY <2>2, DropIs
      <3> QED BY <1>1, <2>1, <2>2, <3>1 DEF tables
    <2>3. CASE /\ IF listed \in Queue THEN StateOf[a] \in Queue ELSE StateOf[a] = listed
               /\ asset' = [asset EXCEPT ![a].state = "DELETING"]
               /\ worker' = [worker EXCEPT ![w].at = a, ![w].phase = "claimed"]
      <3> DEFINE u == [worker[w] EXCEPT !.at = a, !.phase = "claimed"]
      <3>1. u \in Worker /\ OnlyStep(w, u) /\ u.key = worker[w].key
        <4>1. a \in 0..MaxAssets
          BY AttachmentAssumption DEF Assets
        <4>2. u \in Worker /\ u.key = worker[w].key
          BY <1>0, <4>1 DEF Worker
        <4>3. OnlyStep(w, u)
          BY <1>0, <2>3 DEF OnlyStep
        <4> QED BY <4>2, <4>3
      <3>2. asset[a].state \notin {"ABSENT", "DELETED"}
        BY <2>1, <2>3 DEF IInv, HandOK, StateOf, Queue
      <3>3. /\ asset'[a].state = "DELETING" /\ \A b \in Assets \ {a} : asset'[b] = asset[b]
        BY <2>3 DEF IInv, TypeOK
      <3>4. HandOK(w)'
        <4>1. worker'[w] = u /\ a # 0
          BY <1>0, <3>1, AttachmentAssumption DEF OnlyStep, Assets
        <4>2. worker[w].key <= keys /\ u.batch = worker[w].batch
          BY <1>0 DEF IInv, HandOK, Worker
        <4>3. u.at = a /\ u.phase = "claimed"
          BY <1>0 DEF Worker
        <4> QED BY <2>1, <3>1, <3>3, <4>1, <4>2, <4>3 DEF HandOK, IInv
      <3>5. MarkOK(w)'
        <4>1. worker'[w].phase = "claimed"
          BY <1>0, <2>3 DEF Worker
        <4> QED BY <4>1 DEF MarkOK
      <3>6. Refs' = Refs
        BY <3>2, <3>3 DEF Refs, StateOf
      <3>7. GoneIsMarked'
        BY <2>1, <3>6 DEF IInv, GoneIsMarked
      <3>8. UsableIsHealthy'
        BY <2>1, <3>3 DEF IInv, UsableIsHealthy, Healthy, Referring
      <3>9. "DELETING" \in State \ {"ABSENT", "PENDING"}
        BY DEF State
      <3> QED BY <1>0, <2>1, <2>3, <3>1, <3>2, <3>4, <3>5, <3>7, <3>8, <3>9, WorkerRest
    <2> QED BY <1>4, <2>2, <2>3 DEF Claim
  <1>5. CASE Reread(w)
    <2> DEFINE a == worker[w].at
    <2>1. /\ worker[w].phase = "claimed"
          /\ UNCHANGED <<blob, asset, relation, post, object, keys, upload, req, faults>>
      BY <1>5 DEF Reread, tables
    <2>2. a \in Assets /\ asset[a].state = "DELETING" /\ blob.key # 0
      BY <2>1, InHand
    <2>3. CASE relation[a] # NoPost
      <3> DEFINE u == [worker[w] EXCEPT !.phase = "related"]
      <3>1. u \in Worker /\ OnlyStep(w, u) /\ u.phase = "related" /\ u.key = worker[w].key
            /\ u.at = a /\ u.batch = worker[w].batch
        BY <1>2, <1>5, <2>2, <2>3 DEF Reread, StateOf
      <3>2. HandOK(w)' /\ worker'[w] = u
        BY <2>1, <3>1, HandKept
      <3>3. Healthy'
        BY <2>1, <2>2, <2>3 DEF IInv, UsableIsHealthy, Healthy
      <3>4. MarkOK(w)'
        BY <3>1, <3>2, <3>3 DEF MarkOK
      <3> QED BY <1>5, <3>1, <3>2, <3>4, WorkerOnly DEF Reread
    <2>4. CASE relation[a] = NoPost
      <3> DEFINE u == [worker[w] EXCEPT !.phase = "fresh", !.key = blob.key]
      <3>1. u \in Worker /\ OnlyStep(w, u) /\ u.phase = "fresh" /\ u.key = blob.key
            /\ u.at = a /\ u.batch = worker[w].batch
        BY <1>0, <1>5, <2>2, <2>4 DEF Reread, StateOf, OnlyStep, Worker
      <3>2. HandOK(w)' /\ worker'[w] = u
        BY <2>1, <2>2, <2>4, <3>1, HandKept
      <3>3. MarkOK(w)'
        BY <3>1, <3>2 DEF MarkOK
      <3> QED BY <1>5, <3>1, <3>2, <3>3, WorkerOnly DEF Reread
    <2> QED BY <2>3, <2>4
  <1>6. ASSUME NEW s \in {"ATTACHED", "DELETED", "DELETE_FAILED"}, Settle(w, s),
               worker[w].phase # "list", s = "ATTACHED" => Healthy,
               s # "ATTACHED" => relation[worker[w].at] = NoPost,
               UNCHANGED <<blob, relation, post, object, keys, upload, req, faults>>
        PROVE  IInv'
    <2> DEFINE a == worker[w].at
    <2>1. a \in Assets /\ asset[a].state = "DELETING"
      BY <1>6, InHand
    <2>2. /\ asset' = [asset EXCEPT ![a].state = s]
          /\ \A b \in Assets \ {a} : asset'[b] = asset[b]
          /\ asset'[a].state = s /\ Refs' \subseteq Refs /\ Drop(w, a)
      BY <1>6, SettleIs
    <2>3. PICK u \in Worker :
             /\ OnlyStep(w, u) /\ u.at = 0 /\ u.phase = "list" /\ u.key = 0
             /\ \A b \in DOMAIN u.batch : u.batch[b] \notin {"ABSENT", "DELETED"}
      BY <2>1, <2>2, DropIs
    <2>4. HandOK(w)' /\ MarkOK(w)'
      BY <1>6, <2>3, EmptyHand
    <2>5. GoneIsMarked'
      BY <1>6, <2>2 DEF IInv, GoneIsMarked
    <2>6. UsableIsHealthy'
      BY <1>6, <2>1, <2>2 DEF IInv, UsableIsHealthy, Healthy, Referring
    <2>7. s \in State \ {"ABSENT", "PENDING"}
      BY DEF State
    <2> QED BY <1>0, <1>6, <2>1, <2>2, <2>3, <2>4, <2>5, <2>6, <2>7, WorkerRest
  <1>7. CASE Restore(w)
    BY <1>6, <1>7 DEF Restore, IInv, MarkOK
  <1>8. CASE Finish(w)
    <2>1. relation[worker[w].at] = NoPost
      BY <1>8 DEF Finish, IInv, HandOK
    <2> QED BY <1>6, <1>8, <2>1 DEF Finish
  <1>9. CASE MarkBlob(w)
    <2>1. /\ worker[w].phase = "fresh" /\ worker[w].key # 0 /\ relation[worker[w].at] = NoPost
          /\ UNCHANGED <<relation, post, object, keys, upload, req, faults>>
      BY <1>9 DEF MarkBlob, IInv, HandOK
    <2>2. CASE SameObject(w)
      <3> DEFINE u == [worker[w] EXCEPT !.phase = "marked"]
      <3>1. /\ blob' = [blob EXCEPT !.requested = TRUE] /\ UNCHANGED asset
            /\ u \in Worker /\ OnlyStep(w, u) /\ u.phase = "marked" /\ u.key = worker[w].key
            /\ u.at = worker[w].at /\ u.batch = worker[w].batch
        BY <1>2, <1>9, <2>2 DEF MarkBlob
      <3>2. /\ blob' \in [key: AnyKey, requested: BOOLEAN, deleted: BOOLEAN]
            /\ blob'.key = blob.key /\ blob'.deleted = blob.deleted /\ blob'.requested
            /\ blob.key # 0
        BY <1>0, <2>1, <2>2, <3>1 DEF SameObject
      <3>3. HandOK(w)' /\ worker'[w] = u
        BY <2>1, <3>1, HandKept
      <3>4. MarkOK(w)'
        BY <3>1, <3>2, <3>3 DEF MarkOK
      <3>5. Refs' = Refs
        BY <3>1 DEF Refs, StateOf
      <3>6. GoneIsMarked' /\ UsableIsHealthy'
        BY <2>1, <3>1, <3>2, <3>5 DEF IInv, GoneIsMarked, UsableIsHealthy, Healthy
      <3> QED BY <1>0, <2>1, <3>1, <3>2, <3>3, <3>4, <3>6, WorkerRest
    <2>3. CASE ~SameObject(w)
      BY <1>6, <1>9, <2>1, <2>3 DEF MarkBlob
    <2> QED BY <2>2, <2>3
  <1>10. CASE CountRefs(w)
    <2>1. /\ worker[w].phase = "marked" /\ worker[w].key # 0 /\ relation[worker[w].at] = NoPost
          /\ UNCHANGED <<blob, asset, relation, post, object, keys, upload, req, faults>>
          /\ SameObject(w) => blob.requested
      BY <1>10 DEF CountRefs, tables, IInv, HandOK, MarkOK
    <2>2. worker[w].at \in Refs /\ IsFiniteSet(Refs)
      <3>1. IsFiniteSet(Assets) /\ Refs \subseteq Assets
        BY FS_Interval, AttachmentAssumption DEF Assets, Refs
      <3> QED BY <2>1, <3>1, InHand, FS_Subset
    <2>3. Cardinality(Refs) <= 1 => Refs \subseteq {worker[w].at}
      <3>1. SUFFICES ASSUME NEW b \in Refs, b # worker[w].at PROVE ~(Cardinality(Refs) <= 1)
        OBVIOUS
      <3>2. Cardinality({worker[w].at, b}) = 2 /\ {worker[w].at, b} \subseteq Refs
        <4>1. Cardinality({worker[w].at}) = 1 /\ IsFiniteSet({worker[w].at})
          BY FS_Singleton
        <4>2. Cardinality({worker[w].at} \cup {b}) = Cardinality({worker[w].at}) + 1
          BY <3>1, <4>1, FS_AddElement
        <4>3. {worker[w].at} \cup {b} = {worker[w].at, b}
          OBVIOUS
        <4> QED BY <2>2, <3>1, <4>1, <4>2, <4>3
      <3>3. Cardinality({worker[w].at, b}) <= Cardinality(Refs) /\ Cardinality(Refs) \in Nat
        BY <2>2, <3>2, FS_Subset, FS_CardinalityType
      <3> QED BY <3>2, <3>3
    <2>4. ~(Cardinality(Refs) <= 1) => \E b \in Refs : b # worker[w].at
      <3>1. (\A b \in Refs : b = worker[w].at) => Refs = {worker[w].at}
        BY <2>2
      <3>2. Cardinality({worker[w].at}) = 1
        BY FS_Singleton
      <3> QED BY <3>1, <3>2
    <2> DEFINE phase == IF Cardinality(Refs) <= 1 THEN "last" ELSE "shared"
               u == [worker[w] EXCEPT !.phase = phase]
    <2>5. /\ u \in Worker /\ OnlyStep(w, u) /\ u.phase = phase /\ u.key = worker[w].key
          /\ u.at = worker[w].at /\ u.batch = worker[w].batch
          /\ u.phase \in {"last", "shared"}
      BY <1>2, <1>10 DEF CountRefs
    <2>6. HandOK(w)' /\ worker'[w] = u
      BY <2>1, <2>5, HandKept
    <2>7. SameObject(w)' => SameObject(w) /\ blob.key # 0 /\ ~blob.deleted
      BY <2>1, <2>5, <2>6 DEF SameObject
    <2>8. MarkOK(w)'
      <3>1. Refs' = Refs
        BY <2>1, RowsAsTheyAre
      <3>2. CASE Cardinality(Refs) <= 1
        BY <2>1, <2>3, <2>5, <2>6, <2>7, <3>1, <3>2 DEF MarkOK
      <3>3. CASE ~(Cardinality(Refs) <= 1)
        <4>1. SameObject(w)' => object[blob.key]
          BY <2>2, <2>4, <2>7, <3>3 DEF IInv, GoneIsMarked
        <4> QED BY <2>1, <2>5, <2>6, <3>3, <4>1 DEF MarkOK
      <3> QED BY <3>2, <3>3
    <2> QED BY <1>10, <2>5, <2>6, <2>8, WorkerOnly DEF CountRefs
  <1>11. CASE DeleteObject(w)
    <2>1. /\ worker[w].phase = "last" /\ worker[w].key # 0 /\ relation[worker[w].at] = NoPost
          /\ object' = [object EXCEPT ![worker[w].key] = FALSE]
          /\ UNCHANGED <<blob, asset, relation, post, keys, upload, req, faults>>
          /\ SameObject(w) => blob.requested /\ Refs \subseteq {worker[w].at}
      BY <1>11 DEF DeleteObject, tables, IInv, HandOK, MarkOK
    <2> DEFINE u == [worker[w] EXCEPT !.phase = "removed"]
    <2>2. /\ u \in Worker /\ OnlyStep(w, u) /\ u.phase = "removed" /\ u.key = worker[w].key
          /\ u.at = worker[w].at /\ u.batch = worker[w].batch
      BY <1>2, <1>11 DEF DeleteObject
    <2>3. HandOK(w)' /\ worker'[w] = u
      BY <2>1, <2>2, HandKept
    <2>4. Refs' = Refs
      BY <2>1 DEF Refs, StateOf
    <2>5. MarkOK(w)'
      BY <2>1, <2>2, <2>3, <2>4 DEF MarkOK, SameObject
    <2>6. blob.key # worker[w].key => \A k \in Keys : k = blob.key => object'[k] = object[k]
      BY <2>1 DEF IInv, TypeOK
    <2>7. GoneIsMarked'
      <3>1. CASE SameObject(w)
        BY <2>1, <2>4, <3>1 DEF GoneIsMarked
      <3>2. CASE ~SameObject(w)
        BY <1>0, <2>1, <2>4, <2>6, <3>2, AttachmentAssumption
           DEF SameObject, IInv, GoneIsMarked, AnyKey, Keys
      <3> QED BY <3>1, <3>2
    <2>8. UsableIsHealthy'
      <3>1. SUFFICES ASSUME NEW a \in Assets, asset[a].state \in Referring \/ relation[a] # NoPost
                     PROVE  Healthy'
        BY <2>1 DEF UsableIsHealthy
      <3>2. Healthy /\ a \in Refs
        BY <3>1, UsableIsRef DEF IInv, UsableIsHealthy
      <3>3. a # worker[w].at
        BY <2>1, <3>1, InHand DEF Referring
      <3>4. ~SameObject(w) /\ blob.key # worker[w].key
        BY <2>1, <3>2, <3>3 DEF SameObject, Healthy
      <3> QED BY <1>0, <2>1, <2>6, <3>2, <3>4, AttachmentAssumption DEF Healthy, AnyKey, Keys
    <2> QED BY <1>0, <2>1, <2>2, <2>3, <2>5, <2>7, <2>8, WorkerRest
  <1>12. CASE DeleteObjectFails(w)
    <2>1. /\ worker[w].phase = "last" /\ worker[w].key # 0 /\ relation[worker[w].at] = NoPost
          /\ UNCHANGED <<blob, asset, relation, post, object, keys, upload, req>>
      BY <1>12 DEF DeleteObjectFails, tables, IInv, HandOK
    <2> DEFINE u == [worker[w] EXCEPT !.phase = "failed"]
    <2>2. /\ u \in Worker /\ OnlyStep(w, u) /\ u.phase = "failed" /\ u.key = worker[w].key
          /\ u.at = worker[w].at /\ u.batch = worker[w].batch
      BY <1>2, <1>12 DEF DeleteObjectFails
    <2>3. HandOK(w)' /\ worker'[w] = u
      BY <2>1, <2>2, HandKept
    <2>4. MarkOK(w)'
      BY <2>2, <2>3 DEF MarkOK
    <2> QED BY <1>12, <2>2, <2>3, <2>4, WorkerOnly DEF DeleteObjectFails
  <1>13. CASE CloseBlob(w)
    <2>1. /\ worker[w].phase \in {"removed", "shared"} /\ worker[w].key # 0
          /\ relation[worker[w].at] = NoPost
          /\ UNCHANGED <<asset, relation, post, object, keys, upload, req, faults>>
      BY <1>13 DEF CloseBlob, IInv, HandOK
    <2> DEFINE u == [worker[w] EXCEPT !.phase = "done"]
    <2>2. /\ u \in Worker /\ OnlyStep(w, u) /\ u.phase = "done" /\ u.key = worker[w].key
          /\ u.at = worker[w].at /\ u.batch = worker[w].batch
      BY <1>2, <1>13 DEF CloseBlob
    <2>3. HandOK(w)' /\ worker'[w] = u
      BY <2>1, <2>2, HandKept
    <2>4. MarkOK(w)'
      BY <2>2, <2>3 DEF MarkOK
    <2>5. Refs' = Refs
      BY <2>1 DEF Refs, StateOf
    <2>6. CASE blob' = blob
      <3>1. GoneIsMarked' /\ UsableIsHealthy'
        BY <2>1, <2>6, RowsAsTheyAre
      <3> QED BY <1>0, <2>1, <2>2, <2>3, <2>4, <2>6, <3>1, WorkerRest
    <2>7. CASE /\ SameObject(w) /\ blob.requested
               /\ blob' = [blob EXCEPT !.requested = FALSE,
                                       !.deleted = worker[w].phase = "removed"]
      <3>1. /\ blob'.key = blob.key /\ blob'.deleted = (worker[w].phase = "removed")
            /\ blob' \in [key: AnyKey, requested: BOOLEAN, deleted: BOOLEAN]
            /\ blob.key # 0 /\ ~blob.deleted
        BY <1>0, <2>1, <2>7 DEF SameObject
      <3>2. CASE worker[w].phase = "removed"
        <4>1. Refs \subseteq {worker[w].at}
          BY <2>7, <3>2 DEF IInv, MarkOK
        <4>2. \A a \in Assets : ~(asset[a].state \in Referring \/ relation[a] # NoPost)
          BY <2>1, <4>1, InHand, UsableIsRef DEF Referring
        <4>3. GoneIsMarked' /\ UsableIsHealthy'
          BY <2>1, <3>1, <3>2, <4>2 DEF GoneIsMarked, UsableIsHealthy
        <4> QED BY <1>0, <2>1, <2>2, <2>3, <2>4, <3>1, <4>3, WorkerRest
      <3>3. CASE worker[w].phase = "shared"
        <4>1. object[blob.key]
          BY <2>7, <3>3 DEF IInv, MarkOK
        <4>2. Healthy'
          BY <2>1, <3>1, <3>3, <4>1 DEF Healthy
        <4>3. GoneIsMarked' /\ UsableIsHealthy'
          BY <4>2 DEF GoneIsMarked, UsableIsHealthy, Healthy
        <4> QED BY <1>0, <2>1, <2>2, <2>3, <2>4, <3>1, <4>3, WorkerRest
      <3> QED BY <2>1, <3>2, <3>3
    <2> QED BY <1>13, <2>6, <2>7 DEF CloseBlob
  <1>14. CASE Crash(w)
    <2>1. OnlyStep(w, Asleep) /\ Asleep \in Worker
      BY <1>14, AsleepType DEF Crash, OnlyStep
    <2> QED BY <1>1, <1>14, <2>1 DEF Crash, Asleep
  <1> QED BY <1>3, <1>4, <1>5, <1>7, <1>8, <1>9, <1>10, <1>11, <1>12, <1>13, <1>14 DEF Work

----------------------------------------------------------------------------
(* All steps. *)

\* createdAt passes the orphan limit; states, relations and references stay.
LEMMA AgeOK ==
    ASSUME IInv, NEW a \in Assets, Age(a)
    PROVE  IInv'
  <1>1. /\ asset' \in [Assets -> [state: State, url: AnyKey, old: BOOLEAN]]
        /\ \A b \in Assets : asset'[b].state = asset[b].state
        /\ UNCHANGED <<blob, relation, post, object, keys, upload, req, worker, faults>>
    <2>1. /\ asset' = [asset EXCEPT ![a].old = TRUE]
          /\ asset \in [Assets -> [state: State, url: AnyKey, old: BOOLEAN]]
          /\ UNCHANGED <<blob, relation, post, object, keys, upload, req, worker, faults>>
      BY DEF Age, IInv, TypeOK
    <2>2. asset' \in [Assets -> [state: State, url: AnyKey, old: BOOLEAN]]
      BY <2>1
    <2>3. \A b \in Assets : asset'[b].state = asset[b].state
      BY <2>1
    <2> QED BY <2>1, <2>2, <2>3
  <1>2. TypeOK'
    BY <1>1 DEF IInv, TypeOK
  <1>3. Refs' = Refs /\ {b \in Assets : asset'[b].state # "ABSENT"}
                          = {b \in Assets : asset[b].state # "ABSENT"}
    BY <1>1 DEF Refs, StateOf
  <1>4. (NumberedInTurn /\ NoneBeforeTheBlob /\ KeysOK /\ RelatedIsAttached)'
    BY <1>1, <1>3 DEF IInv, NumberedInTurn, NoneBeforeTheBlob, KeysOK, KeyIsOwn, InFlight,
                      RelatedIsAttached
  <1>5. SeenIsOfPost'
    <2>1. \A r \in Requests : req[r] # Idle => \A b \in req[r].related : b \in Assets
      BY DEF IInv, TypeOK, Request
    <2> QED BY <1>1, <2>1 DEF IInv, SeenIsOfPost
  <1>6. ASSUME NEW w \in Workers PROVE (HandOK(w) /\ MarkOK(w))'
    <2>1. worker[w].at # 0 => worker[w].at \in Assets
      BY AttachmentAssumption DEF IInv, TypeOK, Worker, Assets
    <2> QED BY <1>1, <1>3, <2>1 DEF IInv, HandOK, MarkOK, SameObject, Healthy
  <1>7. (GoneIsMarked /\ UsableIsHealthy)'
    BY <1>1, <1>3 DEF IInv, GoneIsMarked, UsableIsHealthy, Healthy
  <1> QED BY <1>2, <1>4, <1>5, <1>6, <1>7 DEF IInv

\* Nothing has been uploaded.
LEMMA InitOK == Init => IInv
  <1> SUFFICES ASSUME Init PROVE IInv
    OBVIOUS
  <1>1. Resting \in Upload /\ Asleep \in Worker
    BY AsleepType, AttachmentAssumption DEF Resting, Upload, AnyKey
  <1>2. TypeOK
    BY <1>1, AttachmentAssumption DEF Init, TypeOK, AnyKey, State, Request
  <1>3. NumberedInTurn
    <2>1. {a \in Assets : asset[a].state # "ABSENT"} = 1..0 /\ 0 \in 0..MaxAssets
      BY AttachmentAssumption DEF Init
    <2> QED BY <2>1 DEF NumberedInTurn
  <1>4. NoneBeforeTheBlob /\ KeysOK /\ RelatedIsAttached /\ SeenIsOfPost
    BY DEF Init, NoneBeforeTheBlob, KeysOK, KeyIsOwn, InFlight, Resting, RelatedIsAttached,
           SeenIsOfPost
  <1>5. \A w \in Workers : HandOK(w) /\ MarkOK(w)
    BY DEF Init, HandOK, MarkOK, Asleep, SameObject
  <1>6. GoneIsMarked /\ UsableIsHealthy
    BY DEF Init, GoneIsMarked, UsableIsHealthy, Healthy, Referring
  <1> QED BY <1>2, <1>3, <1>4, <1>5, <1>6 DEF IInv

\* Every step of uploads, posts, rows and the worker.
LEMMA NextOK == ASSUME OneWorker, IInv, [Next]_vars PROVE IInv'
  <1>1. CASE UNCHANGED vars
    <2>1. UNCHANGED <<tables, object, keys, upload, worker, faults>> /\ req' = req
      BY <1>1 DEF vars, tables
    <2>2. req' \in [Requests -> Request] /\ SeenIsOfPost'
      BY <1>1, <2>1 DEF vars, IInv, TypeOK, SeenIsOfPost
    <2> QED BY <2>1, <2>2, RequestOnly
  <1>2. CASE Next
    BY <1>2, UploadsOK, RequestsOK, AgeOK, WorkerOK DEF Next
  <1> QED BY <1>1, <1>2

\* What the invariant says of what the users can see.
LEMMA IInvUsable == IInv => UsableIsStored
  <1>1. ASSUME IInv, NEW a \in Assets, StateOf[a] \in {"PENDING", "ATTACHED"} \/ relation[a] # NoPost
        PROVE  blob.key # 0 /\ ~blob.deleted /\ object[blob.key]
    BY <1>1 DEF IInv, UsableIsHealthy, Healthy, Referring, StateOf
  <1>2. ASSUME IInv, NEW a \in Assets, relation[a] # NoPost
        PROVE  StateOf[a] \in {"ATTACHED", "DELETING"}
    BY <1>2 DEF IInv, RelatedIsAttached, StateOf
  <1>3. IInv /\ Available => object[blob.key]
    BY AvailableIsHealthy DEF Healthy
  <1> QED BY <1>1, <1>2, <1>3 DEF UsableIsStored

\* The invariant holds throughout, with one worker.
THEOREM Invariance == OneWorker => (Spec => []IInv)
  <1>1. ASSUME OneWorker PROVE IInv /\ [Next]_vars => IInv'
    BY <1>1, NextOK
  <1>2. SUFFICES ASSUME OneWorker PROVE Spec => []IInv
    OBVIOUS
  <1>3. IInv /\ [Next]_vars => IInv'
    BY <1>1, <1>2
  <1> QED BY InitOK, <1>3, PTL DEF Spec

\* The values of rows, blob, uploads, requests and worker stay the ones the code writes.
THEOREM TypeCorrect == OneWorker => (Spec => []TypeOK)
  <1>1. IInv => TypeOK
    BY DEF IInv
  <1> QED BY <1>1, Invariance, PTL

\* The object of every asset a user can pick, or a post shows, is in the store, the precheck
\* of an instant upload never answers with a missing one, and what a post is related to stays
\* attached (upload.service.ts:198-459, media-asset.service.ts:205-350, forum.service.ts:780-1005).
THEOREM UsableStays == OneWorker => (Spec => []UsableIsStored)
  BY IInvUsable, Invariance, PTL

----------------------------------------------------------------------------
(* The file of FileContract. *)

\* A row that is there and was left over for a day stays so: its number is not given again.
Aged(a) == asset[a].old /\ asset[a].state # "ABSENT"

\* What a worker has listed as PENDING is still as old as it was.
ListedIsOld ==
    \A w \in Workers : \A a \in DOMAIN worker[w].batch :
        worker[w].batch[a] = "PENDING" => a \in Assets /\ Aged(a)

FInv == IInv /\ ListedIsOld

\* No step makes a row young again, or takes it away.
LEMMA AgedStays ==
    ASSUME IInv, [Next]_vars, NEW a \in Assets, Aged(a)
    PROVE  Aged(a)'
  <1>0. asset \in [Assets -> [state: State, url: AnyKey, old: BOOLEAN]]
    BY DEF IInv, TypeOK
  <1>1. CASE asset' = asset
    BY <1>1 DEF Aged
  <1>2. ASSUME NEW url \in AnyKey, CreateAsset(url) PROVE Aged(a)'
    BY <1>0, <1>2, NextNumber DEF Aged
  <1>3. ASSUME NEW b \in Assets, NEW s \in State \ {"ABSENT"},
               asset' = [asset EXCEPT ![b].state = s]
        PROVE  Aged(a)'
    BY <1>0, <1>3 DEF Aged
  <1>4. ASSUME NEW i \in Uploads, Reuse(i) \/ Register(i) \/ Revive(i) PROVE Aged(a)'
    <2>1. upload[i].url \in AnyKey /\ upload[i].key \in AnyKey
      BY DEF IInv, TypeOK, Upload
    <2> QED BY <1>1, <1>2, <1>4, <2>1 DEF Reuse, Register, Revive
  <1>5. ASSUME NEW i \in Uploads,
               \/ PrepareForumAttachment(i) \/ UploadForumAttachment(i) \/ Put(i)
               \/ PutFails(i) \/ RegisterFails(i) \/ RaceAction(i) \/ ReviveFails(i) \/ GiveWay(i)
        PROVE  Aged(a)'
    BY <1>1, <1>5 DEF PrepareForumAttachment, UploadForumAttachment, Put, PutFails, RegisterFails,
                      RaceAction, ReviveFails, GiveWay, tables
  <1>6. ASSUME NEW r \in Requests, SavePost(r) \/ DeletePost(r) PROVE Aged(a)'
    <2>1. asset'[a] \in {asset[a], [asset[a] EXCEPT !.state = "ATTACHED"],
                         [asset[a] EXCEPT !.state = "DELETE_PENDING"]}
      BY <1>6 DEF SavePost, DeletePost, Condemn
    <2>2. asset[a] \in [state: State, url: AnyKey, old: BOOLEAN]
      BY <1>0
    <2>3. /\ asset'[a].old = asset[a].old
          /\ asset'[a].state \in {asset[a].state, "ATTACHED", "DELETE_PENDING"}
      BY <2>1, <2>2
    <2> QED BY <2>3 DEF Aged
  <1>7. ASSUME NEW r \in Requests, Fail(r) \/ \E p \in Posts : BeginSave(r, p) \/ BeginDelete(r, p)
        PROVE  Aged(a)'
    BY <1>1, <1>7 DEF Fail, BeginSave, BeginDelete, Begin, tables
  <1>8. ASSUME NEW b \in Assets, Age(b) PROVE Aged(a)'
    BY <1>0, <1>8 DEF Age, Aged
  <1>9. ASSUME NEW w \in Workers, NEW b \in Assets, Claim(w, b) PROVE Aged(a)'
    <2>1. "DELETING" \in State \ {"ABSENT"}
      BY DEF State
    <2> QED BY <1>1, <1>3, <1>9, <2>1 DEF Claim
  <1>10. ASSUME NEW w \in Workers, Restore(w) \/ MarkBlob(w) \/ Finish(w) PROVE Aged(a)'
    <2>1. asset' = asset \/ \E s \in {"ATTACHED", "DELETED", "DELETE_FAILED"} : Settle(w, s)
      BY <1>10 DEF Restore, MarkBlob, Finish
    <2>2. worker[w].phase # "list"
      BY <1>10 DEF Restore, MarkBlob, Finish
    <2>3. worker[w].at \in Assets
      BY <2>2, InHand
    <2>4. {"ATTACHED", "DELETED", "DELETE_FAILED"} \subseteq State \ {"ABSENT"}
      BY DEF State
    <2>5. ASSUME NEW s \in {"ATTACHED", "DELETED", "DELETE_FAILED"}, Settle(w, s) PROVE Aged(a)'
      <3>1. asset' = [asset EXCEPT ![worker[w].at].state = s]
        BY <2>2, <2>5, SettleIs
      <3>2. s \in State \ {"ABSENT"}
        BY <2>4
      <3> QED BY <1>3, <2>3, <3>1, <3>2
    <2> QED BY <1>1, <2>1, <2>5
  <1>11. ASSUME NEW w \in Workers,
                \/ ListBatch(w) \/ Reread(w) \/ CountRefs(w) \/ CloseBlob(w)
                \/ DeleteObject(w) \/ DeleteObjectFails(w) \/ Crash(w)
         PROVE  Aged(a)'
    BY <1>1, <1>11 DEF ListBatch, Reread, CountRefs, CloseBlob, DeleteObject, DeleteObjectFails,
                       Crash, tables
  <1>12. CASE UNCHANGED vars
    BY <1>1, <1>12 DEF vars
  <1> QED BY <1>4, <1>5, <1>6, <1>7, <1>8, <1>9, <1>10, <1>11, <1>12 DEF Next, Work

\* A step of a worker lists anew, or leaves the batch as it is, or what is left of it.
LEMMA BatchStep ==
    ASSUME IInv, [Next]_vars, NEW v \in Workers, NEW a \in DOMAIN worker'[v].batch
    PROVE  \/ a \in DOMAIN worker[v].batch /\ worker'[v].batch[a] = worker[v].batch[a]
           \/ a \in mediaCleanupWhere /\ worker'[v].batch[a] = StateOf[a]
  <1>0. worker \in [Workers -> Worker]
    BY DEF IInv, TypeOK
  <1> DEFINE goal == \/ a \in DOMAIN worker[v].batch /\ worker'[v].batch[a] = worker[v].batch[a]
                     \/ a \in mediaCleanupWhere /\ worker'[v].batch[a] = StateOf[a]
  <1>1. CASE worker' = worker
    BY <1>1
  <1>2. ASSUME NEW w \in Workers, NEW phase, Advance(w, phase) PROVE goal
    BY <1>0, <1>2 DEF Advance, Worker
  <1>3. ASSUME NEW w \in Workers, NEW b, Drop(w, b) PROVE goal
    BY <1>0, <1>3 DEF Drop
  <1>4. ASSUME NEW w \in Workers, ListBatch(w) PROVE goal
    BY <1>0, <1>4 DEF ListBatch, Worker
  <1>5. ASSUME NEW w \in Workers, NEW b \in Assets, Claim(w, b) PROVE goal
    <2>1. CASE worker' = [worker EXCEPT ![w].at = b, ![w].phase = "claimed"]
      BY <1>0, <2>1 DEF Worker
    <2> QED BY <1>3, <1>5, <2>1 DEF Claim
  <1>6. ASSUME NEW w \in Workers, Reread(w) PROVE goal
    <2>1. CASE worker' = [worker EXCEPT ![w].phase = "fresh", ![w].key = blob.key]
      BY <1>0, <2>1 DEF Worker
    <2> QED BY <1>2, <1>3, <1>6, <2>1 DEF Reread
  <1>7. ASSUME NEW w \in Workers, Crash(w) PROVE goal
    BY <1>0, <1>7 DEF Crash, Asleep
  <1>8. ASSUME NEW w \in Workers,
               \/ Restore(w) \/ MarkBlob(w) \/ CountRefs(w) \/ CloseBlob(w) \/ Finish(w)
               \/ DeleteObject(w) \/ DeleteObjectFails(w)
        PROVE  goal
    BY <1>2, <1>3, <1>8 DEF Restore, MarkBlob, CountRefs, CloseBlob, Finish, DeleteObject,
                            DeleteObjectFails, Settle
  <1>9. ASSUME NEW i \in Uploads,
               \/ PrepareForumAttachment(i) \/ UploadForumAttachment(i) \/ Reuse(i) \/ Put(i)
               \/ PutFails(i) \/ Register(i) \/ RegisterFails(i) \/ RaceAction(i) \/ Revive(i)
               \/ ReviveFails(i) \/ GiveWay(i)
        PROVE  goal
    BY <1>1, <1>9 DEF PrepareForumAttachment, UploadForumAttachment, Reuse, Put, PutFails, Register,
                      RegisterFails, RaceAction, Revive, ReviveFails, GiveWay
  <1>10. ASSUME NEW r \in Requests,
                \/ SavePost(r) \/ DeletePost(r) \/ Fail(r)
                \/ \E p \in Posts : BeginSave(r, p) \/ BeginDelete(r, p)
         PROVE  goal
    BY <1>1, <1>10 DEF SavePost, DeletePost, Fail, BeginSave, BeginDelete, Begin
  <1>11. CASE UNCHANGED vars \/ \E b \in Assets : Age(b)
    BY <1>1, <1>11 DEF vars, Age
  <1> QED BY <1>4, <1>5, <1>6, <1>7, <1>8, <1>9, <1>10, <1>11 DEF Next, Work

\* Only rows of more than a day are listed as PENDING, and they grow no younger.
LEMMA FInvNext == ASSUME OneWorker, FInv, [Next]_vars PROVE FInv'
  <1>1. IInv' /\ IInv
    BY NextOK DEF FInv
  <1>2. ASSUME NEW v \in Workers, NEW a \in DOMAIN worker'[v].batch,
               worker'[v].batch[a] = "PENDING"
        PROVE  a \in Assets /\ Aged(a)'
    <2>1. CASE a \in DOMAIN worker[v].batch /\ worker'[v].batch[a] = worker[v].batch[a]
      BY <1>1, <1>2, <2>1, AgedStays DEF FInv, ListedIsOld
    <2>2. CASE a \in mediaCleanupWhere /\ worker'[v].batch[a] = StateOf[a]
      <3>1. a \in Assets /\ Aged(a)
        BY <1>2, <2>2 DEF mediaCleanupWhere, StateOf, Aged, Queue
      <3> QED BY <1>1, <3>1, AgedStays
    <2> QED BY <1>1, <1>2, <2>1, <2>2, BatchStep
  <1> QED BY <1>1, <1>2 DEF FInv, ListedIsOld

LEMMA FInvInit == Init => FInv
  BY InitOK DEF Init, Asleep, FInv, ListedIsOld

\* What the mapping says of a row.
LEMMA LifeIs ==
    ASSUME IInv, NEW a \in Assets
    PROVE  /\ Lives[a] = LifeOf(a)
           /\ asset[a].state = "ABSENT" => LifeOf(a) = "none"
           /\ asset[a].state = "PENDING" =>
                LifeOf(a) = (IF asset[a].old THEN "stale" ELSE "waiting") /\ relation[a] = NoPost
           /\ asset[a].state = "DELETED" => LifeOf(a) = "gone" /\ relation[a] = NoPost
           /\ asset[a].state = "ATTACHED" =>
                LifeOf(a) = IF relation[a] # NoPost THEN "shown" ELSE "loose"
           /\ asset[a].state = "DELETING" =>
                LifeOf(a) = IF relation[a] # NoPost THEN "shown" ELSE "leaving"
           /\ asset[a].state \in {"DELETE_PENDING", "DELETE_FAILED"} =>
                LifeOf(a) = "leaving" /\ relation[a] = NoPost
           /\ asset[a].state \in State
  <1>1. relation[a] # NoPost => asset[a].state \in {"ATTACHED", "DELETING"}
    BY DEF IInv, RelatedIsAttached
  <1>2. asset[a].state \in State /\ Lives[a] = LifeOf(a)
    BY DEF Lives, IInv, TypeOK
  <1> QED BY <1>1, <1>2 DEF LifeOf, State

\* A row that keeps its state, its age and its post keeps its place in life.
LEMMA LifeKept ==
    ASSUME NEW a \in Assets, asset'[a].state = asset[a].state, asset'[a].old = asset[a].old,
           relation'[a] = relation[a]
    PROVE  LifeOf(a)' = LifeOf(a)
  BY DEF LifeOf

\* Where no row changes, no life does.
LEMMA LivesKept == ASSUME UNCHANGED <<asset, relation>> PROVE UNCHANGED <<Lives, relation>>
  <1>1. \A a \in Assets : LifeOf(a)' = LifeOf(a)
    BY LifeKept
  <1> QED BY <1>1 DEF Lives

\* Where one row changes, one life does.
LEMMA OneTurns ==
    ASSUME IInv, NEW a \in Assets, \A b \in Assets \ {a} : asset'[b] = asset[b],
           relation' = relation
    PROVE  /\ Lives' = [Lives EXCEPT ![a] = LifeOf(a)']
           /\ LifeOf(a)' = LifeOf(a) => Lives' = Lives
  <1>1. \A b \in Assets \ {a} : LifeOf(b)' = LifeOf(b)
    BY LifeKept
  <1>2. Lives' = [b \in Assets |-> LifeOf(b)'] /\ Lives = [b \in Assets |-> LifeOf(b)]
    BY DEF Lives
  <1> QED BY <1>1, <1>2

\* The object is there for the contract where the blob can be used.
LEMMA StoredIs == Stored = Healthy /\ Stored' = Healthy'
  BY DEF Stored, Healthy

\* One call of an upload: an asset is made beside its object, or nothing is to be seen of it.
LEMMA UploadStep ==
    ASSUME IInv, IInv', NEW i \in Uploads,
           \/ PrepareForumAttachment(i) \/ UploadForumAttachment(i) \/ Reuse(i) \/ Put(i)
           \/ PutFails(i) \/ Register(i) \/ RegisterFails(i) \/ RaceAction(i) \/ Revive(i)
           \/ ReviveFails(i) \/ GiveWay(i)
    PROVE  [File!Next]_(File!contractVars)
  <1>0. blob.key \in Nat /\ (blob.key # 0 => blob.key \in Keys) /\ blob.key <= keys
    BY AttachmentAssumption DEF IInv, TypeOK, AnyKey, Keys, KeysOK
  <1>1. ASSUME UNCHANGED <<blob, asset, relation>>,
               blob.key # 0 => object'[blob.key] = object[blob.key]
        PROVE  UNCHANGED File!contractVars
    <2>1. UNCHANGED <<Lives, relation>>
      BY <1>1, LivesKept
    <2>2. Stored' = Stored
      BY <1>1 DEF Stored
    <2> QED BY <2>1, <2>2 DEF File!contractVars
  <1>2. ASSUME NEW url \in AnyKey, CreateAsset(url), relation' = relation PROVE File!Next
    <2>1. PICK new \in Assets :
             /\ asset[new].state = "ABSENT"
             /\ asset' = [asset EXCEPT ![new] = [state |-> "PENDING", url |-> url, old |-> FALSE]]
      BY <1>2, NextNumber
    <2>2. /\ asset'[new].state = "PENDING" /\ ~asset'[new].old
          /\ \A b \in Assets \ {new} : asset'[b] = asset[b]
      BY <2>1 DEF IInv, TypeOK
    <2>3. LifeOf(new)' = "waiting" /\ LifeOf(new) = "none"
      BY <2>1, <2>2 DEF LifeOf
    <2>4. Lives[new] = "none" /\ Lives' = [Lives EXCEPT ![new] = "waiting"]
      BY <1>2, <2>2, <2>3, OneTurns, LifeIs
    <2>5. Stored' = TRUE
      BY <2>2, StoredIs DEF IInv, UsableIsHealthy, Referring, Healthy
    <2>6. File!Upload(new)
      BY <1>2, <2>4, <2>5 DEF File!Upload, File!Turn
    <2> QED BY <2>6 DEF File!Next
  <1>3. upload[i].url \in AnyKey /\ upload[i].key \in AnyKey
    BY DEF IInv, TypeOK, Upload
  <1>4. CASE Reuse(i)
    BY <1>1, <1>2, <1>3, <1>4 DEF Reuse
  <1>5. CASE Register(i)
    BY <1>1, <1>2, <1>3, <1>5 DEF Register
  <1>6. CASE Revive(i)
    BY <1>1, <1>2, <1>3, <1>6 DEF Revive
  <1>7. CASE Put(i)
    <2>1. blob.key # 0 => object'[blob.key] = object[blob.key]
      <3>1. keys \in Nat /\ object' = [object EXCEPT ![keys + 1] = TRUE]
        BY <1>7, AttachmentAssumption DEF Put, IInv, TypeOK, AnyKey
      <3>2. blob.key # keys + 1
        BY <1>0, <3>1
      <3> QED BY <1>0, <3>1, <3>2 DEF IInv, TypeOK
    <2> QED BY <1>1, <1>7, <2>1 DEF Put, tables
  <1>8. CASE RegisterFails(i) \/ GiveWay(i)
    <2>1. InFlight(i) /\ object' = [object EXCEPT ![upload[i].key] = FALSE]
      BY <1>8 DEF RegisterFails, GiveWay, InFlight
    <2>2. upload[i].key # blob.key
      BY <2>1 DEF IInv, KeysOK, KeyIsOwn
    <2>3. blob.key # 0 => object'[blob.key] = object[blob.key]
      BY <1>0, <2>1, <2>2 DEF IInv, TypeOK
    <2> QED BY <1>1, <1>8, <2>3 DEF RegisterFails, GiveWay, tables
  <1>9. CASE \/ PrepareForumAttachment(i) \/ UploadForumAttachment(i) \/ PutFails(i)
             \/ RaceAction(i) \/ ReviveFails(i)
    BY <1>1, <1>9 DEF PrepareForumAttachment, UploadForumAttachment, PutFails, RaceAction,
                      ReviveFails, tables
  <1> QED BY <1>4, <1>5, <1>6, <1>7, <1>8, <1>9

\* A transaction on a post: from now on it shows the target and nothing else.
LEMMA ShowStep ==
    ASSUME IInv, NEW p \in Posts, NEW S \in SUBSET Assets, UNCHANGED <<blob, object>>,
           relation' = [a \in Assets |-> IF a \in S THEN p
                                         ELSE IF relation[a] = p THEN NoPost ELSE relation[a]],
           \A a \in S :
              /\ asset[a].state \in Referring /\ asset'[a].state = "ATTACHED"
              /\ relation[a] \in {NoPost, p},
           \A a \in Assets \ S :
              \/ asset'[a] = asset[a]
              \/ /\ asset[a].state \in {"ATTACHED", "DELETE_FAILED"}
                 /\ asset'[a].state = "DELETE_PENDING" /\ relation[a] \in {NoPost, p}
    PROVE  File!Next
  <1> DEFINE givenUp == {a \in Assets \ S : /\ LifeOf(a)' = "leaving"
                                            /\ LifeOf(a) = "loose" \/ relation[a] = p}
  <1>0. p # NoPost /\ \A a \in Assets : relation'[a] = IF a \in S THEN p
                              ELSE IF relation[a] = p THEN NoPost ELSE relation[a]
    BY AttachmentAssumption
  <1>1. ASSUME NEW a \in S
        PROVE  LifeOf(a)' = "shown" /\ (LifeOf(a) \in {"waiting", "stale", "loose"} \/ relation[a] = p)
    <2>1. a \in Assets /\ asset[a].state \in {"PENDING", "ATTACHED"} /\ relation[a] \in {NoPost, p}
      BY <1>1 DEF Referring
    <2>2. asset'[a].state = "ATTACHED" /\ relation'[a] # NoPost
      BY <1>0, <1>1
    <2>3. LifeOf(a)' = "shown"
      BY <2>2 DEF LifeOf
    <2> QED BY <2>1, <2>3, LifeIs
  <1>2. ASSUME NEW a \in Assets \ S
        PROVE  LifeOf(a)' = IF a \in givenUp THEN "leaving"
                            ELSE IF relation[a] = p THEN "loose" ELSE LifeOf(a)
    <2>0. relation'[a] = IF relation[a] = p THEN NoPost ELSE relation[a]
      BY <1>0
    <2>1. CASE asset'[a] = asset[a] /\ relation[a] # p
      <3>1. LifeOf(a)' = LifeOf(a)
        BY <2>0, <2>1, LifeKept
      <3> QED BY <2>1, <3>1
    <2>2. CASE asset'[a] = asset[a] /\ relation[a] = p
      <3>1. asset[a].state \in {"ATTACHED", "DELETING"} /\ relation'[a] = NoPost
        BY <1>0, <2>0, <2>2 DEF IInv, RelatedIsAttached
      <3>2. LifeOf(a)' = IF asset[a].state = "ATTACHED" THEN "loose" ELSE "leaving"
        BY <2>2, <3>1 DEF LifeOf
      <3> QED BY <2>2, <3>1, <3>2
    <2>3. CASE /\ asset[a].state \in {"ATTACHED", "DELETE_FAILED"}
               /\ asset'[a].state = "DELETE_PENDING" /\ relation[a] \in {NoPost, p}
      <3>1. LifeOf(a)' = "leaving"
        BY <2>3 DEF LifeOf
      <3>2. LifeOf(a) \in {"loose", "leaving"} \/ relation[a] = p
        BY <2>3, LifeIs
      <3> QED BY <3>1, <3>2
    <2> QED BY <2>1, <2>2, <2>3
  <1>3. \A a \in givenUp : a \notin S /\ (LifeOf(a) = "loose" \/ relation[a] = p)
    OBVIOUS
  <1>4. givenUp \in SUBSET Assets
    OBVIOUS
  <1> HIDE DEF givenUp
  <1>5. Lives' = [a \in Assets |-> IF a \in S THEN "shown"
                                   ELSE IF a \in givenUp THEN "leaving"
                                   ELSE IF relation[a] = p THEN "loose" ELSE Lives[a]]
    <2>1. \A a \in Assets : LifeOf(a)' = IF a \in S THEN "shown"
                                         ELSE IF a \in givenUp THEN "leaving"
                                         ELSE IF relation[a] = p THEN "loose" ELSE LifeOf(a)
      BY <1>1, <1>2
    <2>2. Lives' = [a \in Assets |-> LifeOf(a)'] /\ \A a \in Assets : Lives[a] = LifeOf(a)
      BY DEF Lives
    <2> QED BY <2>1, <2>2
  <1>6. Stored' = Stored
    BY DEF Stored
  <1>7. \A a \in S : Lives[a] \in {"waiting", "stale", "loose"} \/ relation[a] = p
    BY <1>1 DEF Lives
  <1>8. givenUp \in SUBSET {a \in Assets \ S : Lives[a] = "loose" \/ relation[a] = p}
    BY <1>3, <1>4 DEF Lives
  <1>9. File!Show(p, S)
    BY <1>5, <1>6, <1>7, <1>8 DEF File!Show
  <1> QED BY <1>9 DEF File!Next

\* One transaction on a post, as the contract sees it.
LEMMA RequestStep ==
    ASSUME IInv, NEW r \in Requests,
           \/ SavePost(r) \/ DeletePost(r) \/ Fail(r)
           \/ \E p \in Posts : BeginSave(r, p) \/ BeginDelete(r, p)
    PROVE  [File!Next]_(File!contractVars)
  <1> DEFINE q == req[r]
  <1>1. ASSUME q.op \in {"save", "delete"}
        PROVE  q # Idle /\ q.post \in Posts /\ q.target \in SUBSET Assets
               /\ q.related \in SUBSET Assets
    BY <1>1 DEF IInv, TypeOK, Request, Idle
  <1>2. ASSUME q # Idle, NEW a \in q.related
        PROVE  relation[a] \in {NoPost, q.post} /\ asset[a].state \notin {"ABSENT", "PENDING"}
    BY <1>2 DEF IInv, SeenIsOfPost
  <1>3. CASE SavePost(r)
    <2>1. /\ RowsUnchanged(q) /\ q.op = "save" /\ UNCHANGED <<blob, object>>
          /\ relation' = [a \in Assets |-> IF a \in q.target THEN q.post
                                ELSE IF relation[a] = q.post THEN NoPost ELSE relation[a]]
      BY <1>3 DEF SavePost
    <2>2. /\ q # Idle /\ q.post \in Posts /\ q.target \in SUBSET Assets
          /\ q.related \in SUBSET Assets
      BY <1>1, <2>1
    <2>3. ASSUME NEW a \in Assets
          PROVE  asset'[a] = IF a \in q.target THEN [asset[a] EXCEPT !.state = "ATTACHED"]
                             ELSE IF a \in q.related THEN [asset[a] EXCEPT !.state = "DELETE_PENDING"]
                             ELSE asset[a]
      BY <1>3 DEF SavePost, Condemn
    <2>4. \A a \in Assets : asset[a] \in [state: State, url: AnyKey, old: BOOLEAN]
      BY DEF IInv, TypeOK
    <2>5. ASSUME NEW a \in q.target
          PROVE  /\ asset[a].state \in Referring /\ asset'[a].state = "ATTACHED"
                 /\ relation[a] \in {NoPost, q.post}
      <3>1. asset[a].state \in Referring /\ relation[a] \in {NoPost, q.post}
        BY <2>1, <2>2 DEF RowsUnchanged, StateOf, Referring
      <3>2. asset'[a] = [asset[a] EXCEPT !.state = "ATTACHED"]
        BY <2>2, <2>3
      <3> QED BY <2>2, <2>4, <3>1, <3>2
    <2>6. ASSUME NEW a \in Assets \ q.target
          PROVE  \/ asset'[a] = asset[a]
                 \/ /\ asset[a].state \in {"ATTACHED", "DELETE_FAILED"}
                    /\ asset'[a].state = "DELETE_PENDING" /\ relation[a] \in {NoPost, q.post}
      <3>1. CASE a \in q.related
        <4>1. asset[a].state = "ATTACHED" /\ relation[a] \in {NoPost, q.post}
          BY <1>2, <2>1, <2>2, <3>1 DEF RowsUnchanged, StateOf
        <4>2. asset'[a] = [asset[a] EXCEPT !.state = "DELETE_PENDING"]
          BY <2>3, <3>1
        <4> QED BY <2>4, <4>1, <4>2
      <3>2. CASE a \notin q.related
        BY <2>3, <3>2
      <3> QED BY <3>1, <3>2
    <2> HIDE DEF q
    <2>7. File!Next
      BY <2>1, <2>2, <2>5, <2>6, ShowStep
    <2> QED BY <2>7
  <1>4. CASE DeletePost(r)
    <2>0. PICK S \in SUBSET Assets : S = {}
      OBVIOUS
    <2>1. /\ q.op = "delete" /\ UNCHANGED <<blob, object>>
          /\ relation' = [a \in Assets |-> IF a \in S THEN q.post
                                ELSE IF relation[a] = q.post THEN NoPost ELSE relation[a]]
      BY <1>4, <2>0 DEF DeletePost
    <2>2. q # Idle /\ q.post \in Posts /\ q.related \in SUBSET Assets
      BY <1>1, <2>1
    <2>3. ASSUME NEW a \in Assets
          PROVE  asset'[a] = IF a \in q.related /\ asset[a].state \in Referring \cup {"DELETE_FAILED"}
                             THEN [asset[a] EXCEPT !.state = "DELETE_PENDING"] ELSE asset[a]
      BY <1>4, <2>2 DEF DeletePost, Condemn, Deletable, StateOf, Referring
    <2>4. ASSUME NEW a \in Assets \ S
          PROVE  \/ asset'[a] = asset[a]
                 \/ /\ asset[a].state \in {"ATTACHED", "DELETE_FAILED"}
                    /\ asset'[a].state = "DELETE_PENDING" /\ relation[a] \in {NoPost, q.post}
      <3>1. CASE a \in q.related /\ asset[a].state \in Referring \cup {"DELETE_FAILED"}
        <4>1. asset[a].state \in {"ATTACHED", "DELETE_FAILED"} /\ relation[a] \in {NoPost, q.post}
          BY <1>2, <2>2, <3>1 DEF Referring
        <4>2. asset'[a] = [asset[a] EXCEPT !.state = "DELETE_PENDING"]
          BY <2>3, <3>1
        <4>3. asset[a] \in [state: State, url: AnyKey, old: BOOLEAN]
          BY DEF IInv, TypeOK
        <4> QED BY <4>1, <4>2, <4>3
      <3>2. CASE ~(a \in q.related /\ asset[a].state \in Referring \cup {"DELETE_FAILED"})
        BY <2>3, <3>2
      <3> QED BY <3>1, <3>2
    <2> HIDE DEF q
    <2>5. File!Next
      BY <2>0, <2>1, <2>2, <2>4, ShowStep
    <2> QED BY <2>5
  <1>5. CASE Fail(r) \/ \E p \in Posts : BeginSave(r, p) \/ BeginDelete(r, p)
    <2>1. UNCHANGED <<blob, asset, relation, object>>
      BY <1>5 DEF Fail, BeginSave, BeginDelete, Begin, tables
    <2>2. UNCHANGED <<Lives, relation>> /\ Stored' = Stored
      BY <2>1, LivesKept DEF Stored
    <2> QED BY <2>2 DEF File!contractVars
  <1> QED BY <1>3, <1>4, <1>5

\* One call of the worker, as the contract sees it.
LEMMA WorkerStep ==
    ASSUME FInv, NEW w \in Workers, Work(w) \/ DeleteObject(w) \/ DeleteObjectFails(w) \/ Crash(w)
    PROVE  [File!Next]_(File!contractVars)
  <1>0. IInv /\ relation \in [Assets -> Posts \cup {NoPost}]
        /\ asset \in [Assets -> [state: State, url: AnyKey, old: BOOLEAN]]
    BY DEF FInv, IInv, TypeOK
  <1>1. CASE UNCHANGED <<blob, asset, relation, object>>
    <2>1. UNCHANGED <<Lives, relation>> /\ Stored' = Stored
      BY <1>1, LivesKept DEF Stored
    <2> QED BY <2>1 DEF File!contractVars
  <1>2. ASSUME NEW a \in Assets, NEW s \in State, asset' = [asset EXCEPT ![a].state = s],
               UNCHANGED <<blob, relation, object>>
        PROVE  /\ asset'[a].state = s /\ asset'[a].old = asset[a].old
               /\ Lives' = [Lives EXCEPT ![a] = LifeOf(a)'] /\ Lives[a] = LifeOf(a)
               /\ relation' = relation /\ Stored' = Stored
               /\ LifeOf(a)' = LifeOf(a) => UNCHANGED File!contractVars
    <2>1. /\ asset'[a].state = s /\ asset'[a].old = asset[a].old
          /\ \A b \in Assets \ {a} : asset'[b] = asset[b]
      BY <1>0, <1>2
    <2>2. /\ Lives' = [Lives EXCEPT ![a] = LifeOf(a)'] /\ Lives[a] = LifeOf(a)
          /\ LifeOf(a)' = LifeOf(a) => Lives' = Lives
      BY <1>0, <1>2, <2>1, OneTurns, LifeIs
    <2>3. Stored' = Stored
      BY <1>2 DEF Stored
    <2> QED BY <1>2, <2>1, <2>2, <2>3 DEF File!contractVars
  <1>3. ASSUME NEW a \in Assets, Claim(w, a) PROVE [File!Next]_(File!contractVars)
    <2> DEFINE listed == worker[w].batch[a]
    <2>1. CASE UNCHANGED asset
      BY <1>1, <1>3, <2>1 DEF Claim
    <2>2. CASE /\ IF listed \in Queue THEN StateOf[a] \in Queue ELSE StateOf[a] = listed
               /\ asset' = [asset EXCEPT ![a].state = "DELETING"]
      <3>1. a \in DOMAIN worker[w].batch /\ UNCHANGED <<blob, relation, object>>
        BY <1>3 DEF Claim
      <3>2. "DELETING" \in State
        BY DEF State
      <3>3. /\ asset'[a].state = "DELETING" /\ relation' = relation /\ Stored' = Stored
            /\ Lives' = [Lives EXCEPT ![a] = LifeOf(a)'] /\ Lives[a] = LifeOf(a)
            /\ LifeOf(a)' = LifeOf(a) => UNCHANGED File!contractVars
        BY <1>2, <2>2, <3>1, <3>2
      <3>4. LifeOf(a)' = IF relation[a] # NoPost THEN "shown" ELSE "leaving"
        BY <3>3 DEF LifeOf
      <3>5. /\ StateOf[a] = asset[a].state
            /\ asset[a].state \in {"PENDING", "ATTACHED", "DELETE_PENDING", "DELETING", "DELETE_FAILED"}
            /\ asset[a].state = "PENDING" => asset[a].old
        <4>1. StateOf[a] = asset[a].state /\ asset[a].state \in State
          BY <1>0 DEF StateOf
        <4>2. listed \notin {"ABSENT", "DELETED"}
          BY <1>0, <3>1 DEF IInv, HandOK
        <4>3. listed = "PENDING" => asset[a].old
          BY <3>1 DEF FInv, ListedIsOld, Aged
        <4> QED BY <2>2, <4>1, <4>2, <4>3 DEF Queue, State
      <3>6. CASE LifeOf(a) \in {"shown", "leaving"}
        <4>1. LifeOf(a)' = LifeOf(a)
          BY <1>0, <3>4, <3>5, <3>6, LifeIs
        <4> QED BY <3>3, <4>1
      <3>7. CASE LifeOf(a) \in {"stale", "loose"}
        <4>1. relation[a] = NoPost
          BY <1>0, <3>5, <3>7, LifeIs
        <4>2. File!Take(a)
          BY <3>3, <3>4, <3>7, <4>1 DEF File!Take, File!Turn
        <4> QED BY <4>2 DEF File!Next
      <3> QED BY <1>0, <3>5, <3>6, <3>7, LifeIs
    <2> QED BY <1>3, <2>1, <2>2 DEF Claim
  <1>4. ASSUME worker[w].phase # "list", NEW s \in {"ATTACHED", "DELETED", "DELETE_FAILED"},
               Settle(w, s), s = "ATTACHED" => Healthy,
               s # "ATTACHED" => relation[worker[w].at] = NoPost,
               UNCHANGED <<blob, relation, object>>
        PROVE  [File!Next]_(File!contractVars)
    <2>0. PICK a \in Assets : a = worker[w].at
      BY <1>0, <1>4, InHand
    <2>1. asset[a].state = "DELETING" /\ asset' = [asset EXCEPT ![a].state = s]
      BY <1>0, <1>4, <2>0, InHand, SettleIs
    <2>2. s \in State
      BY DEF State
    <2>3. /\ asset'[a].state = s /\ relation' = relation /\ Stored' = Stored
          /\ Lives' = [Lives EXCEPT ![a] = LifeOf(a)'] /\ Lives[a] = LifeOf(a)
          /\ LifeOf(a)' = LifeOf(a) => UNCHANGED File!contractVars
      BY <1>2, <1>4, <2>1, <2>2
    <2>4. LifeOf(a) = IF relation[a] # NoPost THEN "shown" ELSE "leaving"
      BY <1>0, <2>1, LifeIs
    <2>5. CASE relation[a] # NoPost
      <3>1. LifeOf(a)' = "shown"
        BY <1>4, <2>0, <2>3, <2>5 DEF LifeOf
      <3> QED BY <2>3, <2>4, <2>5, <3>1
    <2>6. CASE relation[a] = NoPost /\ s = "ATTACHED"
      <3>1. LifeOf(a)' = "loose"
        BY <2>3, <2>6 DEF LifeOf
      <3>2. File!Return(a)
        BY <1>4, <2>3, <2>4, <2>6, <3>1, StoredIs DEF File!Return, File!Turn
      <3> QED BY <3>2 DEF File!Next
    <2>7. CASE relation[a] = NoPost /\ s = "DELETED"
      <3>1. LifeOf(a)' = "gone"
        BY <2>3, <2>7 DEF LifeOf
      <3>2. File!Close(a)
        BY <2>3, <2>4, <2>7, <3>1 DEF File!Close, File!Turn
      <3> QED BY <3>2 DEF File!Next
    <2>8. CASE relation[a] = NoPost /\ s = "DELETE_FAILED"
      <3>1. LifeOf(a)' = "leaving"
        BY <2>3, <2>8 DEF LifeOf
      <3> QED BY <2>3, <2>4, <2>8, <3>1
    <2> QED BY <1>4, <2>0, <2>5, <2>6, <2>7, <2>8
  <1>5. CASE Restore(w)
    <2>1. worker[w].phase = "related" /\ Healthy
      BY <1>0, <1>5 DEF Restore, IInv, MarkOK
    <2> QED BY <1>4, <1>5, <2>1 DEF Restore
  <1>6. CASE Finish(w)
    <2>1. worker[w].phase \in {"done", "failed"} /\ relation[worker[w].at] = NoPost
      BY <1>0, <1>6 DEF Finish, IInv, HandOK
    <2> QED BY <1>4, <1>6, <2>1 DEF Finish
  <1>7. CASE MarkBlob(w)
    <2>1. worker[w].phase = "fresh" /\ relation[worker[w].at] = NoPost
      BY <1>0, <1>7 DEF MarkBlob, IInv, HandOK
    <2>2. CASE SameObject(w)
      <3>1. /\ blob' = [blob EXCEPT !.requested = TRUE] /\ UNCHANGED <<asset, relation, object>>
            /\ blob \in [key: AnyKey, requested: BOOLEAN, deleted: BOOLEAN]
        BY <1>0, <1>7, <2>2 DEF MarkBlob, IInv, TypeOK
      <3>2. UNCHANGED <<Lives, relation>> /\ Stored' = Stored
        BY <3>1, LivesKept DEF Stored
      <3> QED BY <3>2 DEF File!contractVars
    <2>3. CASE ~SameObject(w)
      BY <1>4, <1>7, <2>1, <2>3 DEF MarkBlob
    <2> QED BY <2>2, <2>3
  <1>8. ASSUME SameObject(w), worker[w].phase \in {"last", "removed"}, Stored' = FALSE,
               UNCHANGED <<asset, relation>>
        PROVE  File!Next
    <2> DEFINE a == worker[w].at
    <2>1. Refs \subseteq {a} /\ relation[a] = NoPost
      BY <1>0, <1>8 DEF IInv, MarkOK, HandOK
    <2>2. a \in Assets /\ asset[a].state = "DELETING"
      BY <1>0, <1>8, InHand
    <2>3. Lives[a] = "leaving"
      BY <1>0, <2>1, <2>2, LifeIs
    <2>4. \A b \in Assets \ {a} : Lives[b] \in {"none", "gone"}
      <3>1. \A b \in Assets \ {a} : asset[b].state \in {"ABSENT", "DELETED"}
        BY <2>1 DEF Refs, StateOf
      <3> QED BY <1>0, <3>1, LifeIs
    <2>5. UNCHANGED <<Lives, relation>>
      BY <1>8, LivesKept
    <2>6. File!Remove(a)
      BY <1>8, <2>3, <2>4, <2>5 DEF File!Remove
    <2> QED BY <2>2, <2>6 DEF File!Next
  <1>9. CASE DeleteObject(w)
    <2>1. /\ worker[w].phase = "last" /\ object' = [object EXCEPT ![worker[w].key] = FALSE]
          /\ UNCHANGED <<blob, asset, relation>>
      BY <1>9 DEF DeleteObject, tables
    <2>2. /\ object \in [Keys -> BOOLEAN] /\ blob.key \in AnyKey /\ worker[w].key # 0
          /\ blob.key # 0 => blob.key \in Keys
      BY <1>0, <2>1, AttachmentAssumption DEF IInv, TypeOK, HandOK, AnyKey, Keys
    <2>3. CASE SameObject(w)
      <3>1. blob.key \in Keys /\ ~object'[blob.key]
        BY <2>1, <2>2, <2>3 DEF SameObject
      <3>2. Stored' = FALSE
        BY <2>1, <3>1 DEF Stored
      <3> QED BY <1>8, <2>1, <2>3, <3>2
    <2>4. CASE ~SameObject(w)
      <3>1. blob.deleted \/ blob.key = 0 \/ object'[blob.key] = object[blob.key]
        BY <2>1, <2>2, <2>4 DEF SameObject
      <3>2. Stored' = Stored
        BY <2>1, <3>1 DEF Stored
      <3>3. UNCHANGED <<Lives, relation>>
        BY <2>1, LivesKept
      <3> QED BY <3>2, <3>3 DEF File!contractVars
    <2> QED BY <2>3, <2>4
  <1>10. CASE CloseBlob(w)
    <2>1. worker[w].phase \in {"removed", "shared"} /\ UNCHANGED <<asset, relation, object>>
      BY <1>10 DEF CloseBlob
    <2>2. CASE blob' = blob
      BY <1>1, <2>1, <2>2
    <2>3. CASE /\ SameObject(w)
               /\ blob' = [blob EXCEPT !.requested = FALSE,
                                       !.deleted = worker[w].phase = "removed"]
      <3>1. blob'.key = blob.key /\ blob'.deleted = (worker[w].phase = "removed") /\ ~blob.deleted
        BY <1>0, <2>3 DEF IInv, TypeOK, SameObject
      <3>2. CASE worker[w].phase = "removed"
        <4>1. Stored' = FALSE
          BY <3>1, <3>2 DEF Stored
        <4> QED BY <1>8, <2>1, <2>3, <3>2, <4>1
      <3>3. CASE worker[w].phase = "shared"
        <4>1. Stored' = Stored
          BY <2>1, <3>1, <3>3 DEF Stored
        <4>2. UNCHANGED <<Lives, relation>>
          BY <2>1, LivesKept
        <4> QED BY <4>1, <4>2 DEF File!contractVars
      <3> QED BY <2>1, <3>2, <3>3
    <2> QED BY <1>10, <2>2, <2>3 DEF CloseBlob
  <1>11. CASE ListBatch(w) \/ Reread(w) \/ CountRefs(w) \/ DeleteObjectFails(w) \/ Crash(w)
    BY <1>1, <1>11 DEF ListBatch, Reread, CountRefs, DeleteObjectFails, Crash, tables
  <1> QED BY <1>3, <1>5, <1>6, <1>7, <1>9, <1>10, <1>11 DEF Work

\* createdAt passes the limit: what waits is stale.
LEMMA AgeStep == ASSUME IInv, NEW a \in Assets, Age(a) PROVE File!Next
  <1>1. /\ asset[a].state = "PENDING" /\ ~asset[a].old /\ UNCHANGED <<blob, relation, object>>
        /\ asset' = [asset EXCEPT ![a].old = TRUE]
        /\ asset \in [Assets -> [state: State, url: AnyKey, old: BOOLEAN]]
    BY DEF Age, IInv, TypeOK
  <1>2. /\ asset'[a].state = "PENDING" /\ asset'[a].old
        /\ \A b \in Assets \ {a} : asset'[b] = asset[b]
    BY <1>1
  <1>3. LifeOf(a) = "waiting" /\ LifeOf(a)' = "stale"
    BY <1>1, <1>2 DEF LifeOf
  <1>4. Lives[a] = "waiting" /\ Lives' = [Lives EXCEPT ![a] = "stale"]
    BY <1>1, <1>2, <1>3, OneTurns, LifeIs
  <1>5. Stored' = Stored
    BY <1>1 DEF Stored
  <1>6. File!Age(a)
    BY <1>1, <1>4, <1>5 DEF File!Age, File!Turn
  <1> QED BY <1>6 DEF File!Next

LEMMA FileStep ==
    ASSUME OneWorker, FInv, [Next]_vars
    PROVE  [File!Next]_(File!contractVars)
  <1>1. IInv /\ IInv'
    BY NextOK DEF FInv
  <1>2. CASE UNCHANGED vars
    <2>1. UNCHANGED <<blob, asset, relation, object>>
      BY <1>2 DEF vars
    <2>2. UNCHANGED <<Lives, relation>> /\ Stored' = Stored
      BY <2>1, LivesKept DEF Stored
    <2> QED BY <2>2 DEF File!contractVars
  <1>3. CASE Next
    BY <1>1, <1>3, UploadStep, RequestStep, AgeStep, WorkerStep DEF Next
  <1> QED BY <1>2, <1>3

\* Nothing has been uploaded, in either specification.
LEMMA FileInit == Init => File!Init
  <1> SUFFICES ASSUME Init PROVE File!Init
    OBVIOUS
  <1>1. \A a \in Assets : LifeOf(a) = "none"
    BY DEF Init, LifeOf
  <1>2. Lives = [a \in Assets |-> "none"] /\ relation = [a \in Assets |-> NoPost] /\ ~Stored
    BY <1>1 DEF Lives, Stored, Init
  <1>3. Stored = FALSE
    BY <1>2 DEF Stored
  <1> QED BY <1>2, <1>3 DEF File!Init

\* Uploads that race, edits that overlap, revivals and a worker that dies between any two of its
\* calls implement one history of a file: an asset is made beside its object, nobody's asset
\* goes back from where it has gone, and the object goes with the last of them
\* (upload.service.ts:198-459, forum-attachments.ts, media-asset.service.ts:217-330).
THEOREM Refinement == OneWorker => (Spec => ImplementsFileContract)
  <1>1. SUFFICES ASSUME OneWorker PROVE Spec => ImplementsFileContract
    OBVIOUS
  <1>2. FInv /\ [Next]_vars => FInv' /\ [File!Next]_(File!contractVars)
    BY <1>1, FInvNext, FileStep
  <1> QED BY <1>2, FInvInit, FileInit, PTL DEF Spec, ImplementsFileContract, File!Spec

=============================================================================
