-------------------------- MODULE Community_proofs --------------------------
(***************************************************************************)
(* The parts of the community, for any number of users, requests, pictures,*)
(* children, orders, categories and accounts: one section per part, and    *)
(* the parts together at the end.                                          *)
(*                                                                         *)
(* Contents.  Rows only ever hang from rows written before them.  While no *)
(* two handlers have overlapped (the variable `apart`), what a handler has *)
(* in hand is what it would read now, a picture shows in one place, and so *)
(* a picture that is taken off its place shows nowhere.                    *)
(*                                                                         *)
(* Logins, likes, copied names.  A login goes on with the account it has   *)
(* found only while that account is what it was found as.  A counter is    *)
(* off by exactly the taps under way.  A user's row is locked by one       *)
(* transaction, and what a transaction holds is smaller than what it still *)
(* waits for.                                                              *)
(*                                                                         *)
(* Orders and categories.  An answer under a key points at an order of     *)
(* that key, and the unique index lets no second one in; an order that has *)
(* moved on carries version 1, and so does the notice of the move.  As     *)
(* long as no deletion has overlapped a use, a desk that lets an item in   *)
(* and one that deletes have different categories in hand.                 *)
(***************************************************************************)
EXTENDS MCCommunity, FiniteSetTheorems, TLAPS

(* A content and its children. *)

Edits   == {"updatePost", "updateItem", "adminEdit"}
Removes == {"deletePost", "deleteItem", "adminDelete"}
Adds    == {"publishReply", "createItemComment"}
Drops   == {"deleteReply", "deleteItemComment"}

\* The rows that were ever written, and the pictures of the children that are there.
EverWritten        == {i \in Children : child[i].author # Nobody}
ChildrenShow == UNION {child[i].images : i \in There}

\* What a handler has in hand names rows that were written, by whoever may write them.
Sound(q) ==
    /\ q.there \subseteq EverWritten
    /\ q.op \in Adds => q.user \in Users /\ q.images \subseteq Urls
    /\ q.op \in Drops => q.id \in EverWritten
    /\ q.op \in {"publishReply", "deleteReply"} => kind = "post"
    /\ q.op \in {"createItemComment", "deleteItemComment"} => kind = "item"

HandlersSound == \A r \in Requests : tx[r] # Idle => Sound(tx[r])

\* Children are numbered as they come, and nothing happens to a content that is not there.
RowsInv ==
    /\ ThreadTypeOK
    /\ Written \in 0..MaxChildren /\ EverWritten = 1..Written
    /\ \A i \in Children : i \notin EverWritten => child[i] = NoChild
    /\ IF content.state = "ABSENT"
       THEN EverWritten = {} /\ content.images = {} /\ \A r \in Requests : tx[r] = Idle
       ELSE content.author \in Author
    /\ \A i \in There : child[i].parent # 0 => child[child[i].parent].there
    /\ replyCount <= Written
    /\ HandlersSound

\* What a handler has in hand is what it would read now, and what it attaches is free.
Current(q) ==
    /\ q.op \in Edits \cup Removes => q.before = content.images
    /\ q.op \in Removes \cup Drops => q.there = There
    /\ q.op \in Edits \cup Removes \cup Adds => Live
    /\ q.op \in {"updatePost", "adminEdit"} => MayAttach(asset, q.user, Sent(q.images))
    /\ q.op \in Edits => Sent(q.images) \cap ChildrenShow = {}
    /\ q.op \in Adds => MayAttach(asset, q.user, q.images) /\ q.images \cap Used = {}

\* Every picture shows in one place.
OnePlace ==
    /\ content.images \cap ChildrenShow = {}
    /\ \A i, j \in There : i # j => child[i].images \cap child[j].images = {}

HandlersCurrent == \A r \in Requests : tx[r] # Idle => Current(tx[r])

\* As long as handlers come one by one.
OneByOne ==
    /\ \A r, s \in Requests : r # s => tx[r] = Idle \/ tx[s] = Idle
    /\ HandlersCurrent
    /\ OnePlace
    /\ kind = "post" => replyCount = Cardinality(There)

ThreadInv == RowsInv /\ PicturesFollowRows /\ (apart => OneByOne)

\* What the marks on pictures do.
LEMMA MarksAre ==
    ASSUME NEW seen \in [Urls -> AssetState], NEW urls
    PROVE  /\ Attach(seen, urls) \in [Urls -> AssetState]
           /\ RequestDelete(seen, urls) \in [Urls -> AssetState]
           /\ \A m \in Urls : Attach(seen, urls)[m] = "ATTACHED"
                                <=> seen[m] = "ATTACHED" \/ (m \in urls /\ seen[m] = "PENDING")
           /\ \A m \in Urls : RequestDelete(seen, urls)[m] = "ATTACHED"
                                <=> seen[m] = "ATTACHED" /\ m \notin urls
BY DEF Attach, RequestDelete, AssetState, Condemnable

\* The rows that are there were written, and a request in flight is one.
LEMMA ThreadParts ==
    ASSUME RowsInv
    PROVE  /\ There \subseteq EverWritten /\ EverWritten \subseteq Children /\ Children \subseteq Nat \ {0}
           /\ IsFiniteSet(EverWritten) /\ IsFiniteSet(There) /\ Written \in Nat
           /\ \A i \in EverWritten : child[i].author \in Users
           /\ \A i \in Children : child[i] \in Child
           /\ \A r \in Requests : tx[r] # Idle => tx[r] \in Handler
           /\ Idle \notin Handler /\ Idle.op = "idle"
           /\ content \in Content /\ MaxChildren \in Nat
<1>1. There \subseteq EverWritten
  BY DEF RowsInv, There, NoChild
<1>2. IsFiniteSet(EverWritten) /\ Written \in Nat
  <2>1. Written \in Nat /\ EverWritten = 1..Written
    BY ThreadAssumption DEF RowsInv
  <2>2. IsFiniteSet(1..Written)
    BY <2>1, FS_Interval
  <2> QED BY <2>1, <2>2
<1>3. IsFiniteSet(There)
  BY <1>1, <1>2, FS_Subset
<1>4. \A i \in EverWritten : child[i].author \in Users
  BY DEF EverWritten, RowsInv, ThreadTypeOK, Child
<1>5. Idle \notin Handler /\ Idle.op = "idle"
  BY DEF Idle, Handler
<1> QED BY <1>1, <1>2, <1>3, <1>4, <1>5, ThreadAssumption
        DEF RowsInv, ThreadTypeOK, EverWritten, Children

\* What goes with a row: itself and, with every row, those that answer it.
LEMMA BelowIs ==
    ASSUME RowsInv, NEW id \in Children
    PROVE  /\ Below(id) \subseteq There
           /\ id \in There => id \in Below(id)
           /\ \A i \in There : child[i].parent \in Below(id) => i \in Below(id)
           /\ \A i \in Below(id) : i = id \/ child[i].parent # 0
<1>1. id \in There => id \in Below(id)
  BY DEF Below
<1>2. ASSUME NEW i \in There, child[i].parent \in Below(id) PROVE i \in Below(id)
  <2> SUFFICES ASSUME NEW S \in SUBSET Children, id \in S,
                      \A j \in Children : child[j].parent \in S => j \in S
               PROVE  i \in S
    BY DEF Below
  <2>1. child[i].parent \in S
    BY <1>2 DEF Below
  <2> QED BY <2>1 DEF There
<1>3. ASSUME NEW i \in Below(id), i # id PROVE child[i].parent # 0
  <2> DEFINE S == {id} \cup {j \in Children : child[j].parent # 0}
  <2>1. S \in SUBSET Children /\ id \in S
    OBVIOUS
  <2>2. \A j \in Children : child[j].parent \in S => j \in S
    BY ThreadParts
  <2>3. i \in S
    BY <2>1, <2>2 DEF Below
  <2> QED BY <1>3, <2>3
<1> QED BY <1>1, <1>2, <1>3 DEF Below

----------------------------------------------------------------------------
(* Handlers that begin. *)

\* A handler begins with what it has just read.
LEMMA BeginsWell ==
    ASSUME RowsInv, NEW r \in Requests,
           \/ BeginAdminEdit(r) \/ BeginAdminDelete(r)
           \/ \E u \in Users : \/ BeginUpdatePost(r, u) \/ BeginUpdateItem(r, u)
                               \/ BeginDeletePost(r, u) \/ BeginDeleteItem(r, u)
                               \/ BeginPublishReply(r, u) \/ BeginCreateItemComment(r, u)
                               \/ BeginDeleteReply(r, u) \/ BeginDeleteItemComment(r, u)
    PROVE  \E q \in Handler : /\ Begin(r, q) /\ Sound(q) /\ content.state # "ABSENT"
                              /\ OnePlace => Current(q)
<1>0. /\ There \subseteq EverWritten /\ There \subseteq Children /\ content.images \subseteq Urls
      /\ Children \subseteq Nat \ {0} /\ {} \subseteq EverWritten
      /\ Users \subseteq Author /\ Admin \in Author /\ 0 \in 0..MaxChildren
      /\ There \subseteq 0..MaxChildren
      /\ There # {} => content.state # "ABSENT"
      /\ Live => content.state # "ABSENT"
      /\ content.state = "ONLINE" => Live
      /\ Used = content.images \cup ChildrenShow
  BY ThreadParts, ThreadAssumption DEF Content, Author, RowsInv, Live, Children, Used, ChildrenShow
<1>1. ASSUME NEW op \in Edits, NEW u \in Author, NEW images \in Form(u), NEW attached,
             BeginEdit(r, op, u, images, attached), Live,
             op \in {"updatePost", "adminEdit"} => attached = Sent(images)
      PROVE  \E q \in Handler : /\ Begin(r, q) /\ Sound(q) /\ content.state # "ABSENT"
                                /\ OnePlace => Current(q)
  <2> DEFINE q == [Handle(op, u) EXCEPT !.images = images, !.before = content.images]
  <2>1. images \in {Keep} \cup SUBSET Urls
    BY <1>0 DEF Form, Free
  <2>2. /\ q \in Handler /\ q.op = op /\ q.user = u /\ q.images = images
        /\ q.before = content.images /\ q.there = {}
    BY <1>0, <2>1 DEF Handle, Handler, Edits
  <2>3. Begin(r, q) /\ MayAttach(asset, u, attached)
    BY <1>1 DEF BeginEdit
  <2>4. OnePlace => Sent(images) \cap ChildrenShow = {}
    BY <1>0 DEF OnePlace, Sent, Form, Free
  <2> HIDE DEF q
  <2>5. Sound(q)
    BY <1>0, <2>2 DEF Sound, Edits, Adds, Drops
  <2>6. OnePlace => Current(q)
    BY <1>1, <2>2, <2>3, <2>4 DEF Current, Edits, Removes, Adds, Drops
  <2> QED BY <1>0, <1>1, <2>2, <2>3, <2>5, <2>6
<1>2. ASSUME NEW op \in Removes, NEW u \in Author, BeginRemove(r, op, u), Live
      PROVE  \E q \in Handler : /\ Begin(r, q) /\ Sound(q) /\ content.state # "ABSENT"
                                /\ OnePlace => Current(q)
  <2> DEFINE q == [Handle(op, u) EXCEPT !.before = content.images, !.there = There]
  <2>2. /\ q \in Handler /\ q.op = op
        /\ q.before = content.images /\ q.there = There
    BY <1>0 DEF Handle, Handler, Removes
  <2>3. Begin(r, q)
    BY <1>2 DEF BeginRemove
  <2> HIDE DEF q
  <2>5. Sound(q)
    BY <1>0, <2>2 DEF Sound, Removes, Adds, Drops
  <2>6. OnePlace => Current(q)
    BY <1>2, <2>2 DEF Current, Edits, Removes, Adds, Drops
  <2> QED BY <1>0, <1>2, <2>2, <2>3, <2>5, <2>6
<1>3. ASSUME NEW op \in Adds, NEW u \in Users, NEW parent \in There \cup {0},
             NEW images \in SUBSET Free(u), BeginAdd(r, op, u, parent, images),
             content.state = "ONLINE",
             op = "publishReply" => kind = "post", op = "createItemComment" => kind = "item"
      PROVE  \E q \in Handler : /\ Begin(r, q) /\ Sound(q) /\ content.state # "ABSENT"
                                /\ OnePlace => Current(q)
  <2> DEFINE q == [Handle(op, u) EXCEPT !.id = parent, !.images = images]
  <2>1. images \subseteq Urls /\ images \cap Used = {} /\ parent \in 0..MaxChildren
    BY <1>0 DEF Free
  <2>2. /\ q \in Handler /\ q.op = op /\ q.user = u /\ q.images = images
        /\ q.id = parent /\ q.there = {}
    BY <1>0, <2>1 DEF Handle, Handler, Adds
  <2>3. Begin(r, q) /\ MayAttach(asset, u, images)
    BY <1>3 DEF BeginAdd
  <2> HIDE DEF q
  <2>5. Sound(q)
    BY <1>0, <1>3, <2>1, <2>2 DEF Sound, Adds, Drops
  <2>6. OnePlace => Current(q)
    BY <1>0, <1>3, <2>1, <2>2, <2>3 DEF Current, Edits, Removes, Adds, Drops
  <2> QED BY <1>3, <2>2, <2>3, <2>5, <2>6
<1>4. ASSUME NEW op \in Drops, NEW u \in Users, NEW i \in There, BeginDrop(r, op, u, i),
             op = "deleteReply" => kind = "post", op = "deleteItemComment" => kind = "item"
      PROVE  \E q \in Handler : /\ Begin(r, q) /\ Sound(q) /\ content.state # "ABSENT"
                                /\ OnePlace => Current(q)
  <2> DEFINE q == [Handle(op, u) EXCEPT !.id = i, !.there = There]
  <2>2. q \in Handler /\ q.op = op /\ q.id = i /\ q.there = There
    BY <1>0 DEF Handle, Handler, Drops
  <2>3. Begin(r, q)
    BY <1>4 DEF BeginDrop
  <2> HIDE DEF q
  <2>5. Sound(q)
    BY <1>0, <1>4, <2>2 DEF Sound, Adds, Drops
  <2>6. OnePlace => Current(q)
    BY <2>2 DEF Current, Edits, Removes, Adds, Drops
  <2> QED BY <1>0, <2>2, <2>3, <2>5, <2>6
<1>5. CASE BeginAdminEdit(r)
  BY <1>0, <1>1, <1>5 DEF BeginAdminEdit, Edits
<1>6. CASE BeginAdminDelete(r)
  BY <1>0, <1>2, <1>6 DEF BeginAdminDelete, Removes
<1>7. ASSUME NEW u \in Users, BeginUpdatePost(r, u) \/ BeginUpdateItem(r, u)
      PROVE  \E q \in Handler : /\ Begin(r, q) /\ Sound(q) /\ content.state # "ABSENT"
                                /\ OnePlace => Current(q)
  BY <1>0, <1>1, <1>7 DEF BeginUpdatePost, BeginUpdateItem, Edits
<1>8. ASSUME NEW u \in Users, BeginDeletePost(r, u) \/ BeginDeleteItem(r, u)
      PROVE  \E q \in Handler : /\ Begin(r, q) /\ Sound(q) /\ content.state # "ABSENT"
                                /\ OnePlace => Current(q)
  BY <1>0, <1>2, <1>8 DEF BeginDeletePost, BeginDeleteItem, Removes
<1>9. ASSUME NEW u \in Users, BeginPublishReply(r, u) \/ BeginCreateItemComment(r, u)
      PROVE  \E q \in Handler : /\ Begin(r, q) /\ Sound(q) /\ content.state # "ABSENT"
                                /\ OnePlace => Current(q)
  BY <1>3, <1>9 DEF BeginPublishReply, BeginCreateItemComment, Adds
<1>10. ASSUME NEW u \in Users, BeginDeleteReply(r, u) \/ BeginDeleteItemComment(r, u)
       PROVE  \E q \in Handler : /\ Begin(r, q) /\ Sound(q) /\ content.state # "ABSENT"
                                 /\ OnePlace => Current(q)
  BY <1>4, <1>10 DEF BeginDeleteReply, BeginDeleteItemComment, Drops
<1> QED BY <1>5, <1>6, <1>7, <1>8, <1>9, <1>10

\* What a handler in hand is sound for, and current for, when only its begin is added.
LEMMA BeginOK ==
    ASSUME ThreadInv, NEW r \in Requests, NEW q \in Handler, Begin(r, q), Sound(q),
           content.state # "ABSENT", OnePlace => Current(q)
    PROVE  ThreadInv'
<1>1. /\ tx' = [tx EXCEPT ![r] = q] /\ tx[r] = Idle
      /\ UNCHANGED <<kind, content, child, replyCount, asset, told>>
      /\ apart' = (apart /\ \A other \in Requests : tx[other] = Idle)
  BY DEF Begin
<1>2. tx \in [Requests -> Handler \cup {Idle}] /\ apart \in BOOLEAN /\ Idle \notin Handler
  BY ThreadParts DEF ThreadInv, RowsInv, ThreadTypeOK
<1>3. tx' \in [Requests -> Handler \cup {Idle}] /\ tx'[r] = q
      /\ \A s \in Requests : s # r => tx'[s] = tx[s]
  BY <1>1, <1>2
<1>4. /\ There' = There /\ EverWritten' = EverWritten /\ Written' = Written /\ Used' = Used /\ Live' = Live
      /\ ChildrenShow' = ChildrenShow /\ OnePlace' = OnePlace
  BY <1>1 DEF There, EverWritten, Written, Used, Live, ChildrenShow, OnePlace
<1>5. \A p : (Sound(p) => Sound(p)') /\ (Current(p) => Current(p)')
  BY <1>1, <1>4 DEF Sound, Current, Sent
<1>6. HandlersSound'
  <2> SUFFICES ASSUME NEW s \in Requests, tx'[s] # Idle, NEW p, p = tx'[s] PROVE Sound(p)'
    BY DEF HandlersSound
  <2> QED BY <1>3, <1>5 DEF ThreadInv, RowsInv, HandlersSound
<1>7. apart' \in BOOLEAN
  BY <1>1
<1>8. ThreadTypeOK'
  BY <1>1, <1>3, <1>7 DEF ThreadInv, RowsInv, ThreadTypeOK
<1>9. RowsInv'
  BY <1>1, <1>4, <1>6, <1>8 DEF ThreadInv, RowsInv
<1>10. PicturesFollowRows'
  BY <1>1, <1>4 DEF ThreadInv, PicturesFollowRows
<1>11. apart' => OneByOne'
  <2> SUFFICES ASSUME apart' PROVE OneByOne'
    OBVIOUS
  <2>1. OneByOne /\ \A s \in Requests : tx[s] = Idle
    BY <1>1 DEF ThreadInv
  <2>2. \A s \in Requests : s # r => tx'[s] = Idle
    BY <1>3, <2>1
  <2>3. Current(q)'
    BY <1>5, <2>1 DEF OneByOne
  <2>4. HandlersCurrent'
    <3> SUFFICES ASSUME NEW s \in Requests, tx'[s] # Idle, NEW p, p = tx'[s] PROVE Current(p)'
      BY DEF HandlersCurrent
    <3> QED BY <1>3, <2>2, <2>3
  <2> QED BY <1>1, <1>4, <2>1, <2>2, <2>4 DEF OneByOne
<1> QED BY <1>9, <1>10, <1>11 DEF ThreadInv

----------------------------------------------------------------------------
(* Publication and visibility: one step each. *)

\* Nothing was there before, and nobody had anything in hand.
LEMMA PublishOK ==
    ASSUME ThreadInv, NEW author \in Author, NEW uploader \in Author,
           NEW images \in SUBSET Urls, Publish(author, uploader, images)
    PROVE  ThreadInv'
<1>1. /\ content.state = "ABSENT" /\ MayAttach(asset, uploader, images)
      /\ content' = [state |-> "ONLINE", author |-> author, images |-> images]
      /\ asset' = Attach(asset, images)
      /\ UNCHANGED <<kind, child, replyCount, told, tx, apart>>
  BY DEF Publish
<1>2. /\ EverWritten = {} /\ \A r \in Requests : tx[r] = Idle
      /\ There = {} /\ \A i \in Children : child[i] = NoChild
  BY <1>1, ThreadParts DEF ThreadInv, RowsInv
<1>3. content' \in Content /\ content'.state = "ONLINE" /\ content'.images = images
      /\ content'.author = author
  BY <1>1 DEF Content
<1>4. /\ There' = {} /\ EverWritten' = EverWritten /\ Written' = Written
      /\ Used' = images /\ ChildrenShow' = {} /\ Live'
  BY <1>1, <1>2, <1>3 DEF There, EverWritten, Written, Used, Live, ChildrenShow
<1>5. /\ asset' \in [Urls -> AssetState]
      /\ \A m \in Urls : asset'[m] = "ATTACHED"
                           <=> asset[m] = "ATTACHED" \/ (m \in images /\ asset[m] = "PENDING")
  BY <1>1, MarksAre DEF ThreadInv, RowsInv, ThreadTypeOK
<1>6. ThreadTypeOK'
  BY <1>1, <1>3, <1>5 DEF ThreadInv, RowsInv, ThreadTypeOK
<1>7. HandlersSound' /\ HandlersCurrent'
  BY <1>1, <1>2 DEF HandlersSound, HandlersCurrent
<1>8. RowsInv'
  BY <1>1, <1>3, <1>4, <1>6, <1>7 DEF ThreadInv, RowsInv
<1>9. PicturesFollowRows'
  <2>1. \A m \in images : asset'[m] = "ATTACHED"
    BY <1>1, <1>5 DEF MayAttach
  <2>2. ASSUME apart, NEW m \in Urls, asset'[m] = "ATTACHED" PROVE m \in images
    <3>1. asset[m] # "ATTACHED"
      BY <1>1, <1>2, <2>2 DEF ThreadInv, PicturesFollowRows, Live, NoChild
    <3> QED BY <1>5, <2>2, <3>1
  <2> QED BY <1>1, <1>4, <2>1, <2>2 DEF PicturesFollowRows
<1>10. apart' => OneByOne'
  BY <1>1, <1>2, <1>3, <1>4, <1>7 DEF ThreadInv, OneByOne, OnePlace
<1> QED BY <1>8, <1>9, <1>10 DEF ThreadInv

\* What shows stays what it is.
LEMMA ShowOK ==
    ASSUME ThreadInv, NEW state \in {"ONLINE", "OFFLINE"}, Show(state)
    PROVE  ThreadInv'
<1>1. /\ Live /\ content' = [content EXCEPT !.state = state]
      /\ UNCHANGED <<kind, child, replyCount, asset, told, tx, apart>>
  BY DEF Show
<1>2. /\ content' \in Content /\ content'.state = state /\ content'.images = content.images
      /\ content'.author = content.author /\ content.state # "ABSENT"
  BY <1>1 DEF ThreadInv, RowsInv, ThreadTypeOK, Content, Live
<1>3. /\ There' = There /\ EverWritten' = EverWritten /\ Written' = Written /\ Live'
      /\ ChildrenShow' = ChildrenShow /\ OnePlace' = OnePlace
  BY <1>1, <1>2 DEF There, EverWritten, Written, Live, ChildrenShow, OnePlace
<1>4. Used' = Used
  BY <1>1, <1>2, <1>3 DEF Used
<1>5. \A p : (Sound(p) => Sound(p)') /\ (Current(p) => Current(p)')
  BY <1>1, <1>2, <1>3, <1>4 DEF Sound, Current, Sent
<1>6. HandlersSound'
  <2> SUFFICES ASSUME NEW s \in Requests, tx'[s] # Idle, NEW p, p = tx'[s] PROVE Sound(p)'
    BY DEF HandlersSound
  <2> QED BY <1>1, <1>5 DEF ThreadInv, RowsInv, HandlersSound
<1>7. ThreadTypeOK'
  BY <1>1, <1>2 DEF ThreadInv, RowsInv, ThreadTypeOK
<1>8. RowsInv'
  BY <1>1, <1>2, <1>3, <1>6, <1>7 DEF ThreadInv, RowsInv
<1>9. PicturesFollowRows'
  BY <1>1, <1>3, <1>4 DEF ThreadInv, PicturesFollowRows
<1>10. apart' => OneByOne'
  <2> SUFFICES ASSUME apart' PROVE OneByOne'
    OBVIOUS
  <2>1. OneByOne
    BY <1>1 DEF ThreadInv
  <2>2. HandlersCurrent'
    <3> SUFFICES ASSUME NEW s \in Requests, tx'[s] # Idle, NEW p, p = tx'[s] PROVE Current(p)'
      BY DEF HandlersCurrent
    <3> QED BY <1>1, <1>5, <2>1 DEF OneByOne, HandlersCurrent
  <2> QED BY <1>1, <1>3, <2>1, <2>2 DEF OneByOne
<1> QED BY <1>8, <1>9, <1>10 DEF ThreadInv

----------------------------------------------------------------------------
(* Handlers that write. *)

\* Whoever is done leaves the others as they were: alone, there are none.
LEMMA FinishOK ==
    ASSUME ThreadInv, NEW r \in Requests, Finish(r), EverWritten \subseteq EverWritten'
    PROVE  /\ tx' \in [Requests -> Handler \cup {Idle}] /\ HandlersSound'
           /\ UNCHANGED <<kind, apart>>
           /\ apart /\ tx[r] # Idle => OneByOne /\ Current(tx[r]) /\ \A s \in Requests : tx'[s] = Idle
<1>1. tx' = [tx EXCEPT ![r] = Idle] /\ UNCHANGED <<kind, apart>>
  BY DEF Finish
<1>2. tx \in [Requests -> Handler \cup {Idle}]
  BY DEF ThreadInv, RowsInv, ThreadTypeOK
<1>3. /\ tx' \in [Requests -> Handler \cup {Idle}] /\ tx'[r] = Idle
      /\ \A s \in Requests : s # r => tx'[s] = tx[s]
  BY <1>1, <1>2
<1>4. HandlersSound'
  <2> SUFFICES ASSUME NEW s \in Requests, tx'[s] # Idle, NEW p, p = tx'[s] PROVE Sound(p)'
    BY DEF HandlersSound
  <2>1. Sound(p)
    BY <1>3 DEF ThreadInv, RowsInv, HandlersSound
  <2> QED BY <1>1, <2>1 DEF Sound
<1>5. ASSUME apart, tx[r] # Idle PROVE OneByOne /\ Current(tx[r]) /\ \A s \in Requests : tx'[s] = Idle
  BY <1>3, <1>5 DEF ThreadInv, OneByOne, HandlersCurrent
<1> QED BY <1>1, <1>3, <1>4, <1>5

\* An edit by one who is alone attaches what the content then shows and gives up the rest.
LEMMA EditOK ==
    ASSUME ThreadInv, NEW r \in Requests, updatePost(r) \/ updateItem(r) \/ adminEdit(r)
    PROVE  ThreadInv'
<1>1. /\ tx[r].op \in Edits /\ tx[r] # Idle /\ tx[r] \in Handler /\ Finish(r)
      /\ tx[r].op \in {"updatePost", "adminEdit"} \/ MayAttach(asset, tx[r].user, Sent(tx[r].images))
      /\ UNCHANGED <<child, replyCount, told>>
  <2>1. /\ tx[r].op \in Edits /\ Finish(r) /\ UNCHANGED <<child, replyCount, told>>
        /\ tx[r].op \in {"updatePost", "adminEdit"} \/ MayAttach(asset, tx[r].user, Sent(tx[r].images))
    BY DEF updatePost, updateItem, adminEdit, Edits
  <2>2. tx[r] # Idle
    BY <2>1 DEF Edits, Idle
  <2> QED BY <2>1, <2>2, ThreadParts DEF ThreadInv
<1>2. /\ There' = There /\ EverWritten' = EverWritten /\ Written' = Written
      /\ ChildrenShow' = ChildrenShow
  BY <1>1 DEF There, EverWritten, Written, ChildrenShow
<1>3. /\ tx' \in [Requests -> Handler \cup {Idle}] /\ HandlersSound'
      /\ UNCHANGED <<kind, apart>>
      /\ apart => OneByOne /\ Current(tx[r]) /\ \A s \in Requests : tx'[s] = Idle
  BY <1>1, <1>2, FinishOK
<1>4. PICK after \in SUBSET Urls, next \in SUBSET Urls :
        /\ content' = [content EXCEPT !.images = after]
        /\ asset' = SwapMedia(asset, tx[r].before, next)
        /\ apart => next = after /\ after = Sent(tx[r].images)
  <2>1. /\ tx[r].before \subseteq Urls /\ content.images \subseteq Urls
        /\ tx[r].images # Keep => tx[r].images \subseteq Urls
    BY <1>1, ThreadParts DEF Handler, Content, ThreadInv
  <2>2. apart => tx[r].before = content.images
    BY <1>1, <1>3 DEF Current
  <2>3. CASE updatePost(r)
    BY <2>1, <2>2, <2>3 DEF updatePost, Sent
  <2>4. CASE updateItem(r)
    BY <2>1, <2>4 DEF updateItem, Sent
  <2>5. CASE adminEdit(r)
    BY <2>1, <2>2, <2>5 DEF adminEdit, Sent
  <2> QED BY <2>3, <2>4, <2>5
<1>5. /\ content' \in Content /\ content'.state = content.state /\ content'.images = after
      /\ content'.author = content.author /\ content.state # "ABSENT" /\ Live' = Live
  BY <1>1, <1>4, ThreadParts DEF ThreadInv, RowsInv, Content, Live
<1>6. /\ asset' \in [Urls -> AssetState]
      /\ \A m \in Urls : asset'[m] = "ATTACHED" <=>
           /\ asset[m] = "ATTACHED" \/ (m \in next /\ asset[m] = "PENDING")
           /\ m \notin tx[r].before \ next
  <2>1. asset \in [Urls -> AssetState]
    BY DEF ThreadInv, RowsInv, ThreadTypeOK
  <2>2. PICK mid \in [Urls -> AssetState] : mid = Attach(asset, next)
    BY <2>1, MarksAre
  <2>3. asset' = RequestDelete(mid, tx[r].before \ next)
    BY <1>4, <2>2 DEF SwapMedia
  <2>4. \A m \in Urls : mid[m] = "ATTACHED"
                          <=> asset[m] = "ATTACHED" \/ (m \in next /\ asset[m] = "PENDING")
    BY <2>1, <2>2, MarksAre
  <2>5. /\ asset' \in [Urls -> AssetState]
        /\ \A m \in Urls : asset'[m] = "ATTACHED"
                             <=> mid[m] = "ATTACHED" /\ m \notin tx[r].before \ next
    BY <2>3, MarksAre
  <2> QED BY <2>4, <2>5
<1>7. ThreadTypeOK'
  BY <1>1, <1>3, <1>5, <1>6 DEF ThreadInv, RowsInv, ThreadTypeOK
<1>8. RowsInv'
  BY <1>1, <1>2, <1>3, <1>5, <1>7 DEF ThreadInv, RowsInv
<1>9. ASSUME apart PROVE /\ Live /\ tx[r].before = content.images /\ next = after
                         /\ \A m \in after : asset[m] \in {"PENDING", "ATTACHED"}
                         /\ after \cap ChildrenShow = {} /\ OnePlace
  BY <1>1, <1>3, <1>4, <1>9 DEF Current, OneByOne, MayAttach
<1>10. Used = content.images \cup ChildrenShow /\ Used' = after \cup ChildrenShow
  BY <1>2, <1>5 DEF Used, ChildrenShow
<1>11. PicturesFollowRows'
  <2> SUFFICES ASSUME apart PROVE PicturesFollowRows'
    BY <1>3 DEF PicturesFollowRows
  <2>1. \A m \in Used' : m \in Urls /\ asset'[m] = "ATTACHED"
    <3>1. ASSUME NEW m \in after PROVE asset'[m] = "ATTACHED"
      BY <1>6, <1>9, <3>1
    <3>2. ASSUME NEW m \in ChildrenShow PROVE m \in Urls /\ asset'[m] = "ATTACHED"
      <4>1. m \in Urls /\ m \notin content.images
        BY <1>9, <3>2, ThreadParts DEF ChildrenShow, OnePlace, There, Child, ThreadInv
      <4>2. asset[m] = "ATTACHED"
        BY <1>9, <1>10, <3>2 DEF ThreadInv, PicturesFollowRows
      <4> QED BY <1>6, <1>9, <4>1, <4>2
    <3> QED BY <1>10, <3>1, <3>2
  <2>2. ASSUME NEW m \in Urls, asset'[m] = "ATTACHED", m \notin Used'
        PROVE  \E i \in Children : ~child'[i].there /\ child'[i].parent # 0 /\ m \in child'[i].images
    <3>1. asset[m] = "ATTACHED" /\ m \notin Used
      BY <1>6, <1>9, <1>10, <2>2
    <3> QED BY <1>1, <3>1 DEF ThreadInv, PicturesFollowRows
  <2> QED BY <1>5, <1>9, <2>1, <2>2 DEF PicturesFollowRows
<1>12. apart' => OneByOne'
  <2> SUFFICES ASSUME apart PROVE OneByOne'
    BY <1>3
  <2>1. OnePlace'
    BY <1>1, <1>2, <1>5, <1>9 DEF OnePlace
  <2> QED BY <1>1, <1>2, <1>3, <2>1 DEF OneByOne, HandlersCurrent
<1> QED BY <1>8, <1>11, <1>12 DEF ThreadInv

\* A deletion by one who is alone gives up every picture that shows.
LEMMA RemoveOK ==
    ASSUME ThreadInv, NEW r \in Requests, tx[r].op \in Removes, Remove(r)
    PROVE  ThreadInv'
<1> DEFINE gone == tx[r].before \cup UNION {child[i].images : i \in tx[r].there}
<1>1. /\ tx[r] # Idle /\ Finish(r) /\ UNCHANGED <<child, replyCount, told>>
      /\ content' = [content EXCEPT !.state = "DELETED"]
      /\ asset' = RequestDelete(asset, gone)
  BY DEF Remove, Removes, Idle
<1>2. /\ There' = There /\ EverWritten' = EverWritten /\ Written' = Written
      /\ ChildrenShow' = ChildrenShow
  BY <1>1 DEF There, EverWritten, Written, ChildrenShow
<1>3. /\ tx' \in [Requests -> Handler \cup {Idle}] /\ HandlersSound'
      /\ UNCHANGED <<kind, apart>>
      /\ apart => OneByOne /\ Current(tx[r]) /\ \A s \in Requests : tx'[s] = Idle
  BY <1>1, <1>2, FinishOK
<1>4. /\ content' \in Content /\ content'.state = "DELETED" /\ content'.images = content.images
      /\ content'.author = content.author /\ content.state # "ABSENT" /\ ~Live'
  BY <1>1, ThreadParts DEF ThreadInv, RowsInv, Content, Live
<1>5. /\ asset' \in [Urls -> AssetState]
      /\ \A m \in Urls : asset'[m] = "ATTACHED" <=> asset[m] = "ATTACHED" /\ m \notin gone
  <2> HIDE DEF gone
  <2> QED BY <1>1, MarksAre DEF ThreadInv, RowsInv, ThreadTypeOK
<1>6. ThreadTypeOK'
  BY <1>1, <1>3, <1>4, <1>5 DEF ThreadInv, RowsInv, ThreadTypeOK
<1>7. RowsInv'
  BY <1>1, <1>2, <1>3, <1>4, <1>6 DEF ThreadInv, RowsInv
<1>8. PicturesFollowRows'
  <2> SUFFICES ASSUME apart PROVE PicturesFollowRows'
    BY <1>3 DEF PicturesFollowRows
  <2>1. gone = Used
    BY <1>1, <1>3 DEF Current, Used, Removes
  <2>2. ASSUME NEW m \in Urls, asset'[m] = "ATTACHED"
        PROVE  \E i \in Children : ~child'[i].there /\ child'[i].parent # 0 /\ m \in child'[i].images
    BY <1>1, <1>5, <2>1, <2>2 DEF ThreadInv, PicturesFollowRows
  <2> QED BY <1>4, <2>2 DEF PicturesFollowRows
<1>9. apart' => OneByOne'
  BY <1>1, <1>2, <1>3, <1>4 DEF OneByOne, OnePlace, HandlersCurrent
<1> QED BY <1>7, <1>8, <1>9 DEF ThreadInv

\* A check threw.
LEMMA FailOK ==
    ASSUME ThreadInv, NEW r \in Requests, Fail(r)
    PROVE  ThreadInv'
<1>1. /\ tx[r] # Idle /\ Finish(r) /\ UNCHANGED <<content, child, replyCount, asset, told>>
  BY DEF Fail
<1>2. /\ There' = There /\ EverWritten' = EverWritten /\ Written' = Written
      /\ ChildrenShow' = ChildrenShow /\ Used' = Used /\ Live' = Live
  BY <1>1 DEF There, EverWritten, Written, ChildrenShow, Used, Live
<1>3. /\ tx' \in [Requests -> Handler \cup {Idle}] /\ HandlersSound'
      /\ UNCHANGED <<kind, apart>>
      /\ apart => OneByOne /\ \A s \in Requests : tx'[s] = Idle
  BY <1>1, <1>2, FinishOK
<1>4. content.state # "ABSENT"
  BY <1>1 DEF ThreadInv, RowsInv
<1>5. RowsInv'
  BY <1>1, <1>2, <1>3, <1>4 DEF ThreadInv, RowsInv, ThreadTypeOK
<1>6. PicturesFollowRows'
  BY <1>1, <1>2, <1>3 DEF ThreadInv, PicturesFollowRows
<1>7. apart' => OneByOne'
  BY <1>1, <1>2, <1>3 DEF OneByOne, OnePlace, HandlersCurrent
<1> QED BY <1>5, <1>6, <1>7 DEF ThreadInv

\* A child takes the next number, and its pictures show.
LEMMA AddOK ==
    ASSUME ThreadInv, NEW r \in Requests, publishReply(r) \/ createItemComment(r)
    PROVE  ThreadInv'
<1> DEFINE q   == tx[r]
           n   == Written + 1
           new == [there |-> TRUE, author |-> q.user, parent |-> q.id, images |-> q.images]
<1>1. /\ q.op \in Adds /\ tx[r] # Idle /\ q \in Handler /\ Finish(r) /\ UNCHANGED content
      /\ Written < MaxChildren /\ (q.id # 0 => child[q.id].there)
      /\ child' = [child EXCEPT ![n] = new]
      /\ asset' = Attach(asset, q.images)
  <2>1. /\ q.op \in Adds /\ Finish(r) /\ UNCHANGED content
        /\ Written < MaxChildren /\ (q.id # 0 => child[q.id].there)
        /\ child' = [child EXCEPT ![n] = new]
        /\ asset' = Attach(asset, q.images)
    BY DEF publishReply, createItemComment, AddChild, Adds
  <2>2. tx[r] # Idle
    BY <2>1 DEF Adds, Idle
  <2> QED BY <2>1, <2>2, ThreadParts DEF ThreadInv
<1>2. /\ q.user \in Users /\ q.images \subseteq Urls /\ q.id \in 0..MaxChildren
      /\ q.op = "publishReply" => kind = "post"
      /\ q.op = "createItemComment" => kind = "item"
  BY <1>1 DEF ThreadInv, RowsInv, HandlersSound, Sound, Handler
<1>3. /\ n \in Children /\ n \notin EverWritten /\ n \notin There /\ child[n] = NoChild
      /\ EverWritten = 1..Written /\ Written \in Nat /\ IsFiniteSet(EverWritten) /\ IsFiniteSet(There)
      /\ There \subseteq Children /\ EverWritten \subseteq Children
  BY <1>1, ThreadParts DEF ThreadInv, RowsInv, Children
<1>4. /\ new \in Child /\ new.there /\ new.author = q.user /\ new.parent = q.id
      /\ new.images = q.images
  BY <1>2 DEF Child
<1>5. /\ child' \in [Children -> Child]
      /\ child'[n] = new /\ \A i \in Children : i # n => child'[i] = child[i]
  <2> HIDE DEF new
  <2> QED BY <1>1, <1>3, <1>4 DEF ThreadInv, RowsInv, ThreadTypeOK
<1> HIDE DEF new
<1>6. EverWritten' = EverWritten \cup {n} /\ There' = There \cup {n}
  <2>1. \A i \in Children : child'[i].author # Nobody <=> i \in EverWritten \/ i = n
    BY <1>2, <1>4, <1>5, ThreadAssumption DEF EverWritten
  <2>2. \A i \in Children : child'[i].there <=> i \in There \/ i = n
    BY <1>4, <1>5 DEF There
  <2>3. EverWritten' = EverWritten \cup {n}
    BY <1>3, <2>1 DEF EverWritten
  <2>4. There' = There \cup {n}
    BY <1>3, <2>2 DEF There
  <2> QED BY <2>3, <2>4
<1>7. /\ Written' = n /\ EverWritten' = 1..n /\ Written' \in 0..MaxChildren
  <2>1. Written = Cardinality(EverWritten) /\ Written' = Cardinality(EverWritten')
    BY DEF Written, EverWritten
  <2>2. Cardinality(EverWritten \cup {n}) = Cardinality(EverWritten) + 1
    BY <1>3, FS_AddElement
  <2>3. Written' = n
    BY <1>6, <2>1, <2>2
  <2>4. 1..n = (1..Written) \cup {n}
    BY <1>3
  <2>5. n \in 0..MaxChildren
    BY <1>3, ThreadAssumption DEF Children
  <2> QED BY <1>3, <1>6, <2>3, <2>4, <2>5
<1>8. /\ tx' \in [Requests -> Handler \cup {Idle}] /\ HandlersSound'
      /\ UNCHANGED <<kind, apart>>
      /\ apart => OneByOne /\ Current(tx[r]) /\ \A s \in Requests : tx'[s] = Idle
  BY <1>1, <1>6, FinishOK
<1>9. /\ asset' \in [Urls -> AssetState]
      /\ \A m \in Urls : asset'[m] = "ATTACHED"
                           <=> asset[m] = "ATTACHED" \/ (m \in q.images /\ asset[m] = "PENDING")
  BY <1>1, MarksAre DEF ThreadInv, RowsInv, ThreadTypeOK
<1>10. content.state # "ABSENT" /\ content.author \in Author
  BY <1>1 DEF ThreadInv, RowsInv
<1>11. /\ replyCount' = IF kind = "post" THEN replyCount + 1 ELSE replyCount
       /\ told' \subseteq Users \X Children
  <2>1. CASE publishReply(r)
    <3> DEFINE to == IF q.id = 0 THEN content.author ELSE child[q.id].author
    <3>1. /\ q.op = "publishReply" /\ replyCount' = replyCount + 1
          /\ told' = IF to \in {Admin, q.user} THEN told ELSE told \cup {<<to, n>>}
      BY <2>1 DEF publishReply
    <3>2. q.id # 0 => child[q.id].author \in Users
      <4>1. q.id # 0 => q.id \in There
        BY <1>1, <1>2 DEF There, Children
      <4> QED BY <4>1, ThreadParts DEF ThreadInv
    <3>3. to \in Users \cup {Admin}
      BY <1>10, <3>2 DEF Author
    <3>4. told \subseteq Users \X Children
      BY DEF ThreadInv, RowsInv, ThreadTypeOK
    <3> HIDE DEF to, n
    <3>5. told' \subseteq Users \X Children
      BY <1>3, <3>1, <3>3, <3>4
    <3> QED BY <1>2, <3>1, <3>5
  <2>2. CASE createItemComment(r)
    BY <1>2, <2>2 DEF createItemComment, ThreadInv, RowsInv, ThreadTypeOK
  <2> QED BY <2>1, <2>2
<1>12. replyCount' \in Nat /\ replyCount' <= n
  BY <1>3, <1>11, ThreadAssumption DEF ThreadInv, RowsInv, ThreadTypeOK
<1>13. RowsInv'
  <2>1. replyCount' \in 0..MaxChildren
    BY <1>1, <1>3, <1>12, ThreadAssumption
  <2>2. ThreadTypeOK'
    BY <1>1, <1>5, <1>8, <1>9, <1>11, <2>1 DEF ThreadInv, RowsInv, ThreadTypeOK
  <2>3. \A i \in Children : i \notin EverWritten' => child'[i] = NoChild
    BY <1>5, <1>6 DEF ThreadInv, RowsInv
  <2>4. \A i \in There' : child'[i].parent # 0 => child'[child'[i].parent].there
    <3> SUFFICES ASSUME NEW i \in There', child'[i].parent # 0
                 PROVE  child'[child'[i].parent].there
      OBVIOUS
    <3>1. PICK p : p = child'[i].parent
      OBVIOUS
    <3>2. p \in Children /\ child[p].there
      <4>1. CASE i = n
        BY <1>1, <1>2, <1>4, <1>5, <3>1, <4>1 DEF Children
      <4>2. CASE i # n
        <5>1. i \in There /\ child[i].parent = p /\ child[i] \in Child
          BY <1>3, <1>5, <1>6, <3>1, <4>2, ThreadParts DEF ThreadInv
        <5> QED BY <3>1, <5>1 DEF ThreadInv, RowsInv, Child, Children
      <4> QED BY <4>1, <4>2
    <3>3. child'[p].there
      BY <1>4, <1>5, <3>2
    <3> QED BY <3>1, <3>3
  <2> QED BY <1>1, <1>7, <1>8, <1>10, <1>12, <2>2, <2>3, <2>4 DEF RowsInv
<1>14. /\ ChildrenShow' = ChildrenShow \cup q.images /\ Used' = Used \cup q.images
       /\ Live' = Live
  <2>1. ChildrenShow' = UNION {child'[i].images : i \in There \cup {n}}
    BY <1>6 DEF ChildrenShow
  <2>2. \A i \in There : child'[i].images = child[i].images
    BY <1>3, <1>5
  <2>3. child'[n].images = q.images
    BY <1>4, <1>5
  <2>4. ChildrenShow' = ChildrenShow \cup q.images
    BY <2>1, <2>2, <2>3 DEF ChildrenShow
  <2>5. Used = content.images \cup ChildrenShow /\ Used' = content'.images \cup ChildrenShow'
    BY DEF Used, ChildrenShow
  <2> QED BY <1>1, <2>4, <2>5 DEF Live
<1>15. ASSUME apart PROVE /\ Live /\ OnePlace /\ q.images \cap Used = {}
                          /\ \A m \in q.images : asset[m] \in {"PENDING", "ATTACHED"}
                          /\ kind = "post" => replyCount = Cardinality(There)
  BY <1>1, <1>8, <1>15 DEF Current, OneByOne, MayAttach
<1>16. PicturesFollowRows'
  <2> SUFFICES ASSUME apart PROVE PicturesFollowRows'
    BY <1>8 DEF PicturesFollowRows
  <2>1. \A m \in Used' : asset'[m] = "ATTACHED"
    <3>1. Used \subseteq Urls
      BY ThreadParts DEF ThreadInv, Used, There, Content, Child
    <3>2. \A m \in Used : asset[m] = "ATTACHED"
      BY <1>15 DEF ThreadInv, PicturesFollowRows
    <3> QED BY <1>2, <1>9, <1>14, <1>15, <3>1, <3>2
  <2>2. ASSUME NEW m \in Urls, asset'[m] = "ATTACHED", m \notin Used'
        PROVE  \E i \in Children : ~child'[i].there /\ child'[i].parent # 0 /\ m \in child'[i].images
    <3>1. asset[m] = "ATTACHED" /\ m \notin Used
      BY <1>9, <1>14, <2>2
    <3>2. PICK i \in Children : ~child[i].there /\ child[i].parent # 0 /\ m \in child[i].images
      BY <3>1 DEF ThreadInv, PicturesFollowRows
    <3>3. i # n
      BY <1>3, <3>2 DEF NoChild
    <3> QED BY <1>5, <3>2, <3>3
  <2> QED BY <1>14, <1>15, <2>1, <2>2 DEF PicturesFollowRows
<1>17. apart' => OneByOne'
  <2> SUFFICES ASSUME apart PROVE OneByOne'
    BY <1>8
  <2>1. content'.images \cap ChildrenShow' = {}
    BY <1>1, <1>14, <1>15 DEF OnePlace, Used
  <2>2. \A i, j \in There' : i # j => child'[i].images \cap child'[j].images = {}
    <3>1. \A i \in There : child'[i] = child[i] /\ child[i].images \cap q.images = {}
      BY <1>3, <1>5, <1>15 DEF Used
    <3>2. child'[n].images = q.images
      BY <1>4, <1>5
    <3> QED BY <1>6, <1>15, <3>1, <3>2 DEF OnePlace
  <2>3. kind' = "post" => replyCount' = Cardinality(There')
    <3>1. Cardinality(There \cup {n}) = Cardinality(There) + 1
      BY <1>3, FS_AddElement
    <3> QED BY <1>6, <1>8, <1>11, <1>15, <3>1
  <2>4. HandlersCurrent' /\ \A s, x \in Requests : s # x => tx'[s] = Idle \/ tx'[x] = Idle
    BY <1>8 DEF HandlersCurrent
  <2> QED BY <2>1, <2>2, <2>3, <2>4 DEF OneByOne, OnePlace
<1> QED BY <1>13, <1>16, <1>17 DEF ThreadInv

\* A child goes with those that answer it; the pictures of these stay as they are.
LEMMA DropOK ==
    ASSUME ThreadInv, NEW r \in Requests, deleteReply(r) \/ deleteItemComment(r)
    PROVE  ThreadInv'
<1> DEFINE q    == tx[r]
           gone == Below(q.id)
<1>1. /\ q.op \in Drops /\ tx[r] # Idle /\ q \in Handler /\ Finish(r) /\ UNCHANGED <<content, told>>
      /\ child[q.id].there
      /\ child' = [i \in Children |-> IF i \in gone THEN [child[i] EXCEPT !.there = FALSE]
                                      ELSE child[i]]
      /\ asset' = RequestDelete(asset, child[q.id].images)
      /\ replyCount' = replyCount \/ replyCount' = Cardinality(q.there \ gone)
      /\ kind = "post" => replyCount' = Cardinality(q.there \ gone)
  <2>1. /\ q.op \in Drops /\ Finish(r) /\ UNCHANGED <<content, told>>
        /\ child[q.id].there
        /\ child' = [i \in Children |-> IF i \in gone THEN [child[i] EXCEPT !.there = FALSE]
                                        ELSE child[i]]
        /\ asset' = RequestDelete(asset, child[q.id].images)
        /\ replyCount' = replyCount \/ replyCount' = Cardinality(q.there \ gone)
        /\ q.op = "deleteReply" => replyCount' = Cardinality(q.there \ gone)
    BY DEF deleteReply, deleteItemComment, DropChild, Drops
  <2>2. tx[r] # Idle
    BY <2>1 DEF Drops, Idle
  <2>3. q.op = "deleteItemComment" => kind = "item"
    BY <2>2 DEF ThreadInv, RowsInv, HandlersSound, Sound
  <2> QED BY <2>1, <2>2, <2>3, ThreadParts DEF ThreadInv, Drops
<1>2. /\ q.id \in EverWritten /\ q.id \in Children /\ q.id \in There /\ q.there \subseteq EverWritten
      /\ IsFiniteSet(EverWritten) /\ There \subseteq Children
  <2>1. q.id \in EverWritten /\ q.there \subseteq EverWritten
    BY <1>1 DEF ThreadInv, RowsInv, HandlersSound, Sound
  <2> QED BY <1>1, <2>1, ThreadParts DEF ThreadInv, There
<1>3. /\ gone \subseteq There /\ q.id \in gone
      /\ \A i \in There : child[i].parent \in gone => i \in gone
      /\ \A i \in gone : i = q.id \/ child[i].parent # 0
  BY <1>2, BelowIs DEF ThreadInv
<1> HIDE DEF gone
<1>4. \A i \in Children : /\ child'[i] \in Child
                          /\ child'[i].author = child[i].author /\ child'[i].parent = child[i].parent
                          /\ child'[i].images = child[i].images
                          /\ child'[i].there <=> child[i].there /\ i \notin gone
                          /\ i \notin gone => child'[i] = child[i]
  <2> SUFFICES ASSUME NEW i \in Children
               PROVE  /\ child'[i] \in Child
                      /\ child'[i].author = child[i].author /\ child'[i].parent = child[i].parent
                      /\ child'[i].images = child[i].images
                      /\ child'[i].there <=> child[i].there /\ i \notin gone
                      /\ i \notin gone => child'[i] = child[i]
    OBVIOUS
  <2>1. child[i] \in Child
    BY ThreadParts DEF ThreadInv
  <2>2. CASE i \in gone
    <3> DEFINE no == FALSE
               c  == child[i]
    <3>1. child'[i] = [c EXCEPT !.there = no] /\ c \in Child /\ no \in BOOLEAN /\ ~no
      BY <1>1, <2>1, <2>2
    <3> HIDE DEF no
    <3> QED BY <2>2, <3>1 DEF Child
  <2>3. CASE i \notin gone
    BY <1>1, <2>1, <2>3
  <2> QED BY <2>2, <2>3
<1>5. child' \in [Children -> Child]
  <2>1. child' = [i \in Children |-> child'[i]]
    BY <1>1
  <2> QED BY <1>4, <2>1
<1>6. EverWritten' = EverWritten /\ Written' = Written /\ There' = There \ gone
  BY <1>4 DEF EverWritten, Written, There
<1>7. /\ tx' \in [Requests -> Handler \cup {Idle}] /\ HandlersSound'
      /\ UNCHANGED <<kind, apart>>
      /\ apart => OneByOne /\ Current(tx[r]) /\ \A s \in Requests : tx'[s] = Idle
  BY <1>1, <1>6, FinishOK
<1>8. /\ asset' \in [Urls -> AssetState]
      /\ \A m \in Urls : asset'[m] = "ATTACHED"
                           <=> asset[m] = "ATTACHED" /\ m \notin child[q.id].images
  BY <1>1, MarksAre DEF ThreadInv, RowsInv, ThreadTypeOK
<1>9. replyCount' \in Nat /\ replyCount' <= Written
  <2>1. IsFiniteSet(q.there \ gone) /\ Cardinality(q.there \ gone) <= Cardinality(EverWritten)
    BY <1>2, FS_Subset
  <2>2. Cardinality(q.there \ gone) \in Nat
    BY <2>1, FS_CardinalityType
  <2>3. Written = Cardinality(EverWritten)
    BY DEF Written, EverWritten
  <2> QED BY <1>1, <2>1, <2>2, <2>3 DEF ThreadInv, RowsInv, ThreadTypeOK
<1>10. RowsInv'
  <2>1. replyCount' \in 0..MaxChildren
    BY <1>9, ThreadAssumption DEF ThreadInv, RowsInv
  <2>2. ThreadTypeOK'
    BY <1>1, <1>5, <1>7, <1>8, <2>1 DEF ThreadInv, RowsInv, ThreadTypeOK
  <2>3. \A i \in Children : i \notin EverWritten' => child'[i] = NoChild
    <3>1. \A i \in gone : i \in EverWritten
      BY <1>3, ThreadParts DEF ThreadInv
    <3> QED BY <1>4, <1>6, <3>1 DEF ThreadInv, RowsInv
  <2>4. \A i \in There' : child'[i].parent # 0 => child'[child'[i].parent].there
    <3> SUFFICES ASSUME NEW i \in There', child'[i].parent # 0
                 PROVE  child'[child'[i].parent].there
      OBVIOUS
    <3>1. PICK p : p = child[i].parent
      OBVIOUS
    <3>2. /\ i \in There /\ i \notin gone /\ child'[i].parent = p /\ child[i] \in Child
      BY <1>2, <1>4, <1>6, <3>1, ThreadParts DEF ThreadInv
    <3>3. p \in Children /\ child[p].there /\ p \notin gone
      BY <1>3, <3>1, <3>2 DEF ThreadInv, RowsInv, Child, Children
    <3> QED BY <1>4, <3>2, <3>3
  <2>5. content.state # "ABSENT" /\ content.author \in Author
    BY <1>1 DEF ThreadInv, RowsInv
  <2>6. EverWritten' = 1..Written' /\ Written' \in 0..MaxChildren
    BY <1>6 DEF ThreadInv, RowsInv
  <2> QED BY <1>1, <1>6, <1>7, <1>9, <2>2, <2>3, <2>4, <2>5, <2>6 DEF RowsInv
<1>11. /\ ChildrenShow' = UNION {child[i].images : i \in There \ gone} /\ Live' = Live
       /\ Used = content.images \cup ChildrenShow /\ Used' = content.images \cup ChildrenShow'
  <2>1. \A i \in There : child'[i].images = child[i].images
    BY <1>2, <1>4
  <2>2. ChildrenShow' = UNION {child[i].images : i \in There \ gone}
    BY <1>6, <2>1 DEF ChildrenShow
  <2> QED BY <1>1, <2>2 DEF Used, ChildrenShow, Live
<1>12. ASSUME apart PROVE /\ OnePlace /\ q.there = There
                          /\ kind = "post" => replyCount = Cardinality(There)
  BY <1>1, <1>7, <1>12 DEF Current, OneByOne
<1>13. PicturesFollowRows'
  <2> SUFFICES ASSUME apart PROVE PicturesFollowRows'
    BY <1>7 DEF PicturesFollowRows
  <2>1. ASSUME Live, NEW m \in Used' PROVE asset'[m] = "ATTACHED"
    <3>1. m \in Used /\ m \notin child[q.id].images
      <4>1. CASE m \in content.images
        BY <1>2, <1>11, <1>12, <4>1 DEF OnePlace, ChildrenShow
      <4>2. CASE m \notin content.images
        <5>1. PICK i \in There \ gone : m \in child[i].images
          BY <1>11, <2>1, <4>2
        <5> QED BY <1>2, <1>3, <1>11, <1>12, <5>1 DEF OnePlace, ChildrenShow
      <4> QED BY <4>1, <4>2
    <3>2. m \in Urls
      BY <3>1, ThreadParts DEF ThreadInv, Used, There, Content, Child
    <3>3. asset[m] = "ATTACHED"
      BY <2>1, <3>1 DEF ThreadInv, PicturesFollowRows
    <3> QED BY <1>8, <3>1, <3>2, <3>3
  <2>2. ASSUME NEW m \in Urls, asset'[m] = "ATTACHED", ~(Live' /\ m \in Used')
        PROVE  \E i \in Children : ~child'[i].there /\ child'[i].parent # 0 /\ m \in child'[i].images
    <3>1. asset[m] = "ATTACHED" /\ m \notin child[q.id].images
      BY <1>8, <2>2
    <3>2. CASE Live /\ m \in Used
      <4>1. m \in ChildrenShow /\ m \notin ChildrenShow'
        BY <1>11, <2>2, <3>2
      <4>2. PICK i \in There : m \in child[i].images
        BY <4>1 DEF ChildrenShow
      <4>3. i \in gone /\ i # q.id
        BY <1>11, <3>1, <4>1, <4>2
      <4> QED BY <1>2, <1>3, <1>4, <4>2, <4>3
    <3>3. CASE ~(Live /\ m \in Used)
      <4>1. PICK i \in Children : ~child[i].there /\ child[i].parent # 0 /\ m \in child[i].images
        BY <3>1, <3>3 DEF ThreadInv, PicturesFollowRows
      <4> QED BY <1>4, <4>1
    <3> QED BY <3>2, <3>3
  <2> QED BY <1>11, <2>1, <2>2 DEF PicturesFollowRows
<1>14. apart' => OneByOne'
  <2> SUFFICES ASSUME apart PROVE OneByOne'
    BY <1>7
  <2>1. ChildrenShow' \subseteq ChildrenShow
    BY <1>11 DEF ChildrenShow
  <2>2. content'.images \cap ChildrenShow' = {}
    BY <1>1, <1>12, <2>1 DEF OnePlace
  <2>3. \A i, j \in There' : i # j => child'[i].images \cap child'[j].images = {}
    <3>1. \A i \in There' : i \in There /\ child'[i].images = child[i].images
      BY <1>2, <1>4, <1>6
    <3> QED BY <1>12, <3>1 DEF OnePlace
  <2>4. kind' = "post" => replyCount' = Cardinality(There')
    BY <1>1, <1>6, <1>7, <1>12
  <2>5. HandlersCurrent' /\ \A s, x \in Requests : s # x => tx'[s] = Idle \/ tx'[x] = Idle
    BY <1>7 DEF HandlersCurrent
  <2> QED BY <2>2, <2>3, <2>4, <2>5 DEF OneByOne, OnePlace
<1> QED BY <1>10, <1>13, <1>14 DEF ThreadInv

----------------------------------------------------------------------------
(* All steps. *)

\* A content that is not there has no children and no pictures.
LEMMA ThreadInitOK == ThreadInit => ThreadInv
<1> SUFFICES ASSUME ThreadInit PROVE ThreadInv
  OBVIOUS
<1>1. /\ content = [state |-> "ABSENT", author |-> Nobody, images |-> {}]
      /\ child = [i \in Children |-> NoChild] /\ replyCount = 0 /\ told = {} /\ apart = TRUE
      /\ asset = [m \in Urls |-> "PENDING"] /\ tx = [r \in Requests |-> Idle]
      /\ kind \in {"post", "item"}
  BY DEF ThreadInit
<1>2. NoChild \in Child /\ NoChild.author = Nobody /\ NoChild.there = FALSE /\ NoChild.parent = 0
  BY ThreadAssumption DEF NoChild, Child
<1>3. child \in [Children -> Child] /\ \A i \in Children : child[i] = NoChild
  BY <1>1, <1>2
<1>4. EverWritten = {} /\ There = {} /\ ChildrenShow = {}
  BY <1>2, <1>3 DEF EverWritten, There, ChildrenShow
<1>5. Written = 0
  BY <1>4, FS_EmptySet DEF Written, EverWritten
<1>6. ThreadTypeOK
  <2>1. content \in Content
    BY <1>1 DEF Content
  <2>2. asset \in [Urls -> AssetState]
    BY <1>1 DEF AssetState
  <2>3. apart \in BOOLEAN
    BY <1>1
  <2> QED BY <1>1, <1>3, <2>1, <2>2, <2>3, ThreadAssumption DEF ThreadTypeOK
<1>7. RowsInv
  <2>1. EverWritten = 1..Written /\ Written \in 0..MaxChildren /\ replyCount <= Written
    BY <1>1, <1>4, <1>5, ThreadAssumption
  <2> QED BY <1>1, <1>3, <1>4, <1>6, <2>1 DEF RowsInv, HandlersSound
<1>8. PicturesFollowRows
  BY <1>1 DEF PicturesFollowRows, Live
<1>9. OneByOne
  <2>1. replyCount = Cardinality(There)
    BY <1>1, <1>4, FS_EmptySet
  <2> QED BY <1>1, <1>4, <2>1 DEF OneByOne, OnePlace, HandlersCurrent
<1> QED BY <1>7, <1>8, <1>9 DEF ThreadInv

\* One step per handler.
LEMMA ThreadNextOK == ThreadInv /\ [ThreadNext]_threadVars => ThreadInv'
<1> SUFFICES ASSUME ThreadInv, [ThreadNext]_threadVars PROVE ThreadInv'
  OBVIOUS
<1>1. ASSUME NEW author \in Author, NEW uploader \in Author, NEW images \in SUBSET Free(uploader),
             Publish(author, uploader, images)
      PROVE  ThreadInv'
  <2>1. images \in SUBSET Urls
    BY DEF Free
  <2> QED BY <1>1, <2>1, PublishOK
<1>2. Users \subseteq Author /\ Admin \in Author
  BY DEF Author
<1>3. ASSUME NEW u \in Users, publishPost(u) \/ publishItem(u) \/ setItemVisibility(u)
      PROVE  ThreadInv'
  BY <1>1, <1>2, <1>3, ShowOK DEF publishPost, publishItem, setItemVisibility
<1>4. CASE adminCreate
  <2>1. PICK images \in SUBSET Free(Admin), author \in Author : Publish(author, Admin, images)
    BY <1>2, <1>4 DEF adminCreate
  <2> QED BY <1>1, <1>2, <2>1
<1>5. CASE updateContentState \/ batchUpdateContentState
  BY <1>5, ShowOK DEF updateContentState, batchUpdateContentState
<1>6. ASSUME NEW r \in Requests,
             updatePost(r) \/ updateItem(r) \/ adminEdit(r) \/ publishReply(r)
               \/ createItemComment(r) \/ deleteReply(r) \/ deleteItemComment(r) \/ Fail(r)
      PROVE  ThreadInv'
  BY <1>6, EditOK, AddOK, DropOK, FailOK
<1>7. ASSUME NEW r \in Requests, deletePost(r) \/ deleteItem(r) \/ adminDelete(r)
      PROVE  ThreadInv'
  BY <1>7, RemoveOK DEF deletePost, deleteItem, adminDelete, Removes
<1>8. ASSUME NEW r \in Requests,
             \/ BeginAdminEdit(r) \/ BeginAdminDelete(r)
             \/ \E u \in Users : \/ BeginUpdatePost(r, u) \/ BeginUpdateItem(r, u)
                                 \/ BeginDeletePost(r, u) \/ BeginDeleteItem(r, u)
                                 \/ BeginPublishReply(r, u) \/ BeginCreateItemComment(r, u)
                                 \/ BeginDeleteReply(r, u) \/ BeginDeleteItemComment(r, u)
      PROVE  ThreadInv'
  <2>1. PICK q \in Handler : /\ Begin(r, q) /\ Sound(q) /\ content.state # "ABSENT"
                             /\ OnePlace => Current(q)
    BY <1>8, BeginsWell DEF ThreadInv
  <2> QED BY <2>1, BeginOK
<1>9. CASE UNCHANGED threadVars
  <2>1. /\ There' = There /\ EverWritten' = EverWritten /\ Written' = Written /\ Used' = Used /\ Live' = Live
        /\ ChildrenShow' = ChildrenShow
    BY <1>9 DEF threadVars, There, EverWritten, Written, Used, Live, ChildrenShow
  <2>2. HandlersSound' = HandlersSound /\ HandlersCurrent' = HandlersCurrent
    BY <1>9, <2>1 DEF threadVars, HandlersSound, HandlersCurrent, Sound, Current, Sent
  <2>3. OnePlace' = OnePlace
    BY <1>9, <2>1 DEF threadVars, OnePlace
  <2> QED BY <1>9, <2>1, <2>2, <2>3
          DEF threadVars, ThreadInv, RowsInv, ThreadTypeOK, OneByOne, PicturesFollowRows
<1> QED BY <1>3, <1>4, <1>5, <1>6, <1>7, <1>8, <1>9 DEF ThreadNext

\* Whatever handlers overlap, no answer outlives what it answers; and as long as none do,
\* the counter counts the replies and the pictures kept are those that show
\* (forum.service.ts:291-300, 351-374, 477-498, 558-579; mall-item.service.ts:252-338).
THEOREM ThreadsAgree == ThreadSpec => []ThreadAgrees
<1>1. ThreadInv => ThreadAgrees
  BY DEF ThreadInv, RowsInv, OneByOne, ThreadAgrees, RepliesAgree
<1> QED BY ThreadInitOK, ThreadNextOK, <1>1, PTL DEF ThreadSpec

----------------------------------------------------------------------------
(* Logins. *)

MemberTypes ==
    /\ user \in [Accounts -> User]
    /\ entering \in [Devices -> Entering \cup {NoLogin}]
    /\ \A d \in Devices : entering[d] # NoLogin /\ entering[d].at \in {"profile", "migrate"} =>
                            entering[d].found \in Accounts
    /\ rebound \in BOOLEAN /\ strayed \in BOOLEAN

\* What a login in flight has found is still so.
FoundStands(d) ==
    entering[d] # NoLogin =>
        /\ entering[d].at = "profile" => user[entering[d].found].openid = entering[d].openid
        /\ entering[d].at = "migrate" => user[entering[d].found].phone = entering[d].phone

MInv ==
    /\ MemberTypes
    /\ rebound \/ ~strayed
    /\ rebound \/ \A d \in Devices : FoundStands(d)

\* A login in flight is a record with the fields of one.
LEMMA LoginInFlight ==
    ASSUME MemberTypes, NEW d \in Devices, entering[d] # NoLogin
    PROVE  entering[d] \in Entering
BY DEF MemberTypes

\* A login that is answered with its own account strays nowhere, and the others go on.
LEMMA AnsweredWell ==
    ASSUME MInv, NEW d \in Devices, NEW row, NEW openid, NEW phone,
           row.openid = openid, phone \in {NoOne, row.phone},
           Answered(d, row, openid, phone)
    PROVE  /\ strayed' = strayed
           /\ entering' \in [Devices -> Entering \cup {NoLogin}]
           /\ entering'[d] = NoLogin
           /\ \A e \in Devices : e # d => entering'[e] = entering[e]
<1>1. strayed' = strayed
  BY DEF MInv, MemberTypes, Answered
<1>2. entering' = [entering EXCEPT ![d] = NoLogin]
  BY DEF Answered
<1> QED BY <1>1, <1>2 DEF MInv, MemberTypes

\* Nothing is written: all that was found stands.
LEMMA AnsweredKeeps ==
    ASSUME MInv, NEW d \in Devices, NEW row, NEW openid, NEW phone,
           rebound \/ (row.openid = openid /\ phone \in {NoOne, row.phone}),
           Answered(d, row, openid, phone), UNCHANGED <<user, rebound>>
    PROVE  MInv'
<1>1. entering' = [entering EXCEPT ![d] = NoLogin] /\ strayed' \in BOOLEAN
  BY DEF MInv, MemberTypes, Answered
<1>2. MemberTypes'
  BY <1>1 DEF MInv, MemberTypes
<1>3. rebound \/ strayed' = strayed
  BY AnsweredWell
<1>4. ASSUME ~rebound, NEW e \in Devices PROVE FoundStands(e)'
  BY <1>1, <1>4 DEF MInv, MemberTypes, FoundStands
<1> QED BY <1>2, <1>3, <1>4 DEF MInv

\* Writing an account leaves what other logins have found as it was, or says so.
LEMMA BindKeeps ==
    ASSUME MInv, NEW d \in Devices, NEW a \in Accounts, NEW row \in User,
           NEW openid, NEW phone,
           rebound \/ (row.openid = openid /\ phone \in {NoOne, row.phone}),
           Bind(d, a, row, openid, phone)
    PROVE  MInv'
<1>1. /\ user' = [user EXCEPT ![a] = row]
      /\ entering' = [entering EXCEPT ![d] = NoLogin]
      /\ strayed' \in BOOLEAN /\ rebound' \in BOOLEAN
      /\ rebound => rebound'
      /\ Answered(d, row, openid, phone)
  BY DEF MInv, MemberTypes, Bind, Answered
<1>2. MemberTypes'
  BY <1>1 DEF MInv, MemberTypes
<1>3. rebound \/ strayed' = strayed
  BY <1>1, AnsweredWell
<1>4. ASSUME ~rebound', NEW e \in Devices PROVE FoundStands(e)'
  <2>1. ~rebound /\ FoundStands(e)
    BY <1>1, <1>4 DEF MInv
  <2>2. CASE e = d \/ entering[e] = NoLogin
    BY <1>1, <2>2 DEF MInv, MemberTypes, FoundStands
  <2>3. CASE e # d /\ entering[e] # NoLogin
    <3>1. entering'[e] = entering[e]
      BY <1>1, <2>3 DEF MInv, MemberTypes
    <3>2. entering[e].found = a => row.openid = user[a].openid /\ row.phone = user[a].phone
      BY <1>4, <2>3 DEF Bind
    <3>3. ASSUME entering[e].found \in Accounts
          PROVE  /\ user'[entering[e].found].openid = user[entering[e].found].openid
                 /\ user'[entering[e].found].phone = user[entering[e].found].phone
      BY <1>1, <3>2, <3>3 DEF MInv, MemberTypes
    <3>4. entering[e].at \in {"profile", "migrate"} => entering[e].found \in Accounts
      BY <2>3 DEF MInv, MemberTypes
    <3> QED BY <2>1, <2>3, <3>1, <3>3, <3>4 DEF FoundStands
  <2> QED BY <2>2, <2>3
<1> QED BY <1>1, <1>2, <1>3, <1>4 DEF MInv

\* Nobody has an account yet, and nobody is logging in.
LEMMA MemberInitOK == MemberInit => MInv
<1> SUFFICES ASSUME MemberInit PROVE MInv
  OBVIOUS
<1> DEFINE nobody == [openid |-> NoOne, phone |-> NoOne, enabled |-> TRUE]
<1>1. nobody \in User
  BY DEF User
<1> HIDE DEF nobody
<1>2. user = [a \in Accounts |-> nobody] /\ entering = [d \in Devices |-> NoLogin]
      /\ rebound = FALSE /\ strayed = FALSE
  BY DEF MemberInit, nobody
<1>3. MemberTypes
  BY <1>1, <1>2 DEF MemberTypes
<1> QED BY <1>2, <1>3 DEF MInv, FoundStands

\* One step per statement of auth.service.ts.
LEMMA MemberNextOK == MInv /\ [MemberNext]_memberVars => MInv'
<1> SUFFICES ASSUME MInv, [MemberNext]_memberVars PROVE MInv'
  OBVIOUS
<1>1. ASSUME NEW d \in Devices, NEW o \in Openids, wechatLogin(d, o) PROVE MInv'
  <2>1. CASE \E a \in OpenidOf(o) : Answered(d, user[a], o, NoOne) /\ UNCHANGED <<user, rebound>>
    <3>1. PICK a \in OpenidOf(o) : Answered(d, user[a], o, NoOne) /\ UNCHANGED <<user, rebound>>
      BY <2>1
    <3> QED BY <3>1, AnsweredKeeps DEF OpenidOf
  <2>2. CASE \E a \in OpenidOf(o) :
               /\ entering' = [entering EXCEPT ![d] = [at |-> "profile", openid |-> o,
                                                       phone |-> NoOne, found |-> a]]
               /\ UNCHANGED <<user, rebound, strayed>>
    <3>1. PICK a \in OpenidOf(o) :
               /\ entering' = [entering EXCEPT ![d] = [at |-> "profile", openid |-> o,
                                                       phone |-> NoOne, found |-> a]]
               /\ UNCHANGED <<user, rebound, strayed>>
      BY <2>2
    <3> DEFINE new == [at |-> "profile", openid |-> o, phone |-> NoOne, found |-> a]
    <3>2. /\ new \in Entering /\ a \in Accounts /\ user[a].openid = o
          /\ new.at = "profile" /\ new.found = a /\ new.openid = o /\ new.phone = NoOne
      BY DEF Entering, OpenidOf
    <3> HIDE DEF new
    <3>3. entering' = [entering EXCEPT ![d] = new]
      BY <3>1 DEF new
    <3>4. MemberTypes'
      BY <3>1, <3>2, <3>3 DEF MInv, MemberTypes
    <3>5. ASSUME ~rebound, NEW e \in Devices PROVE FoundStands(e)'
      BY <3>1, <3>2, <3>3, <3>5 DEF MInv, MemberTypes, FoundStands
    <3> QED BY <3>1, <3>4, <3>5 DEF MInv
  <2>3. CASE \E a \in NewAccount :
               Bind(d, a, [openid |-> o, phone |-> NoOne, enabled |-> TRUE], o, NoOne)
    <3>1. PICK a \in NewAccount :
               Bind(d, a, [openid |-> o, phone |-> NoOne, enabled |-> TRUE], o, NoOne)
      BY <2>3
    <3>2. [openid |-> o, phone |-> NoOne, enabled |-> TRUE] \in User
      BY DEF User
    <3> QED BY <3>1, <3>2, BindKeeps DEF NewAccount
  <2> QED BY <1>1, <2>1, <2>2, <2>3 DEF wechatLogin
<1>2. ASSUME NEW d \in Devices, updateExistingWechatUser(d) PROVE MInv'
  <2>1. rebound \/ user[entering[d].found].openid = entering[d].openid
    BY <1>2 DEF updateExistingWechatUser, MInv, FoundStands
  <2> QED BY <1>2, <2>1, AnsweredKeeps DEF updateExistingWechatUser
<1>3. ASSUME NEW d \in Devices, NEW o \in Openids, NEW p \in Phones, BeginPhoneLogin(d, o, p)
      PROVE  MInv'
  <2>1. PICK found \in IF PhoneOf(p) = {} THEN {Unknown} ELSE PhoneOf(p) :
          entering' = [entering EXCEPT ![d] =
                        [at |-> resolvePhoneLoginBindingAction(PhoneOf(p), o), openid |-> o,
                         phone |-> p, found |-> found]]
    BY <1>3 DEF BeginPhoneLogin
  <2> DEFINE act == resolvePhoneLoginBindingAction(PhoneOf(p), o)
             new == [at |-> act, openid |-> o, phone |-> p, found |-> found]
  <2>2. /\ act \in {"migrate", "upsert"}
        /\ act = "migrate" => found \in PhoneOf(p)
        /\ found \in Accounts \cup {Unknown}
    BY <2>1 DEF resolvePhoneLoginBindingAction, PhoneOf
  <2> HIDE DEF act
  <2>3. /\ new \in Entering /\ new.at # "profile" /\ new.phone = p /\ new.found = found
        /\ new.at = "migrate" => found \in Accounts /\ user[found].phone = p
    BY <2>2 DEF Entering, PhoneOf
  <2> HIDE DEF new
  <2>4. entering' = [entering EXCEPT ![d] = new] /\ UNCHANGED <<user, rebound, strayed>>
    BY <1>3, <2>1 DEF new, act, BeginPhoneLogin
  <2>5. MemberTypes'
    BY <2>3, <2>4 DEF MInv, MemberTypes
  <2>6. ASSUME ~rebound, NEW e \in Devices PROVE FoundStands(e)'
    BY <2>3, <2>4, <2>6 DEF MInv, MemberTypes, FoundStands
  <2> QED BY <2>4, <2>5, <2>6 DEF MInv
<1>4. ASSUME NEW d \in Devices, migrateBoundUser(d) PROVE MInv'
  <2> DEFINE q   == entering[d]
             row == [user[q.found] EXCEPT !.openid = q.openid]
  <2>1. q # NoLogin /\ q.at = "migrate" /\ Bind(d, q.found, row, q.openid, q.phone)
    BY <1>4 DEF migrateBoundUser
  <2>2. q \in Entering
    BY <2>1, LoginInFlight DEF MInv
  <2>3. q.found \in Accounts
    BY <2>1 DEF MInv, MemberTypes
  <2>4. user[q.found] \in User /\ q.openid \in Openids
    BY <2>2, <2>3 DEF MInv, MemberTypes, Entering
  <2>5. /\ row \in User /\ row.openid = q.openid /\ row.phone = user[q.found].phone
    BY <2>4 DEF User
  <2>6. rebound \/ user[q.found].phone = q.phone
    BY <2>1 DEF MInv, FoundStands
  <2> HIDE DEF row
  <2> QED BY <2>1, <2>3, <2>5, <2>6, BindKeeps
<1>5. ASSUME NEW d \in Devices, upsertCurrentOpenid(d) PROVE MInv'
  <2> DEFINE q == entering[d]
  <2>1. q # NoLogin
    BY <1>5 DEF upsertCurrentOpenid
  <2>2. q \in Entering
    BY <2>1, LoginInFlight DEF MInv
  <2>3. PICK a \in IF OpenidOf(q.openid) = {} THEN NewAccount ELSE OpenidOf(q.openid) :
          Bind(d, a, WithPhone([user[a] EXCEPT !.openid = q.openid], q.phone),
               q.openid, q.phone)
    BY <1>5 DEF upsertCurrentOpenid
  <2>4. a \in Accounts
    BY <2>3 DEF NewAccount, OpenidOf
  <2>5. user[a] \in User /\ q.openid \in Openids /\ q.phone \in Phones \cup {NoOne}
    BY <2>2, <2>4 DEF MInv, MemberTypes, Entering
  <2> DEFINE row == WithPhone([user[a] EXCEPT !.openid = q.openid], q.phone)
  <2>6. row \in User /\ row.openid = q.openid /\ row.phone = q.phone
    BY <2>5 DEF WithPhone, User
  <2>7. Bind(d, a, row, q.openid, q.phone)
    BY <2>3
  <2> HIDE DEF row, q
  <2> QED BY <2>4, <2>6, <2>7, BindKeeps
<1>6. ASSUME NEW d \in Devices, LoginFails(d) PROVE MInv'
  <2>1. entering' = [entering EXCEPT ![d] = NoLogin] /\ UNCHANGED <<user, rebound, strayed>>
    BY <1>6 DEF LoginFails
  <2> QED BY <2>1 DEF MInv, MemberTypes, FoundStands
<1>7. ASSUME NEW a \in Accounts, NEW enabled \in BOOLEAN, updateUserEnabled(a, enabled)
      PROVE  MInv'
  <2>1. /\ user' = [user EXCEPT ![a].enabled = enabled]
        /\ UNCHANGED <<entering, rebound, strayed>>
    BY <1>7 DEF updateUserEnabled
  <2>2. /\ user' \in [Accounts -> User]
        /\ \A b \in Accounts : user'[b].openid = user[b].openid /\ user'[b].phone = user[b].phone
    BY <2>1 DEF MInv, MemberTypes, User
  <2> QED BY <2>1, <2>2 DEF MInv, MemberTypes, FoundStands
<1>8. CASE UNCHANGED memberVars
  BY <1>8 DEF memberVars, MInv, MemberTypes, FoundStands
<1> QED BY <1>1, <1>2, <1>3, <1>4, <1>5, <1>6, <1>7, <1>8 DEF MemberNext

\* A login that succeeds is given the account with its openid and its phone number, unless
\* the account it had found was bound anew meanwhile (auth.service.ts:87-103, 209-230).
THEOREM LoginsMeetTheirAccounts == MemberSpec => []LoginMeetsItsAccount
<1>1. MInv => LoginMeetsItsAccount
  BY DEF MInv, LoginMeetsItsAccount
<1> QED BY MemberInitOK, MemberNextOK, <1>1, PTL DEF MemberSpec

\* The unique keys of the table (prisma/schema.prisma: User.openid, User.phone).
KeysAreUnique ==
    \A a, b \in Accounts : a # b =>
         /\ user[a].openid = user[b].openid => user[a].openid = NoOne
         /\ user[a].phone = user[b].phone => user[a].phone = NoOne

\* A row whose openid and phone number nobody else has keeps the keys unique.
LEMMA RowIsOwn ==
    ASSUME MInv, KeysAreUnique, NEW a \in Accounts, NEW row \in User,
           user' = [user EXCEPT ![a] = row],
           row.openid = NoOne \/ row.openid = user[a].openid \/ OpenidOf(row.openid) \subseteq {a},
           row.phone = NoOne \/ row.phone = user[a].phone \/ PhoneOf(row.phone) \subseteq {a}
    PROVE  KeysAreUnique'
<1>1. \A b \in Accounts : user'[b] = IF b = a THEN row ELSE user[b]
  BY DEF MInv, MemberTypes
<1>2. \A b \in Accounts : b # a =>
        /\ row.openid = user[b].openid => row.openid = NoOne
        /\ row.phone = user[b].phone => row.phone = NoOne
  BY DEF KeysAreUnique, OpenidOf, PhoneOf
<1> QED BY <1>1, <1>2 DEF KeysAreUnique

\* Only a key that is free, or the account's own, is written.
LEMMA KeysNextOK == MInv /\ KeysAreUnique /\ [MemberNext]_memberVars => KeysAreUnique'
<1> SUFFICES ASSUME MInv, KeysAreUnique, [MemberNext]_memberVars PROVE KeysAreUnique'
  OBVIOUS
<1>1. ASSUME NEW d \in Devices, NEW o \in Openids, wechatLogin(d, o), user' # user
      PROVE  KeysAreUnique'
  <2> DEFINE row == [openid |-> o, phone |-> NoOne, enabled |-> TRUE]
  <2>1. PICK a \in NewAccount : OpenidOf(o) = {} /\ user' = [user EXCEPT ![a] = row]
    BY <1>1 DEF wechatLogin, Bind
  <2>2. a \in Accounts /\ row \in User /\ row.openid = o /\ row.phone = NoOne
    BY DEF NewAccount, User
  <2> HIDE DEF row
  <2> QED BY <2>1, <2>2, RowIsOwn
<1>2. ASSUME NEW d \in Devices, migrateBoundUser(d) PROVE KeysAreUnique'
  <2> DEFINE q   == entering[d]
             row == [user[q.found] EXCEPT !.openid = q.openid]
  <2>1. /\ q # NoLogin /\ q.at = "migrate" /\ OpenidOf(q.openid) \subseteq {q.found}
        /\ user' = [user EXCEPT ![q.found] = row]
    BY <1>2 DEF migrateBoundUser, Bind
  <2>2. q.openid \in Openids /\ q.found \in Accounts
    BY <2>1, LoginInFlight DEF MInv, MemberTypes, Entering
  <2>3. user[q.found] \in User
    BY <2>2 DEF MInv, MemberTypes
  <2>4. row \in User /\ row.openid = q.openid /\ row.phone = user[q.found].phone
    BY <2>2, <2>3 DEF User
  <2> HIDE DEF q, row
  <2> QED BY <2>1, <2>2, <2>4, RowIsOwn
<1>3. ASSUME NEW d \in Devices, upsertCurrentOpenid(d) PROVE KeysAreUnique'
  <2> DEFINE q == entering[d]
  <2>1. q # NoLogin /\ q \in Entering
    BY <1>3, LoginInFlight DEF upsertCurrentOpenid, MInv
  <2>2. PICK a \in IF OpenidOf(q.openid) = {} THEN NewAccount ELSE OpenidOf(q.openid) :
          /\ PhoneOf(q.phone) \subseteq {a}
          /\ user' = [user EXCEPT ![a] = WithPhone([user[a] EXCEPT !.openid = q.openid], q.phone)]
    BY <1>3 DEF upsertCurrentOpenid, Bind
  <2>3. a \in Accounts
    BY <2>2 DEF NewAccount, OpenidOf
  <2>4. /\ user[a] \in User /\ q.openid \in Openids /\ q.phone \in Phones \cup {NoOne}
        /\ q.openid = user[a].openid \/ OpenidOf(q.openid) \subseteq {a}
    BY <2>1, <2>2, <2>3 DEF MInv, MemberTypes, Entering, OpenidOf
  <2> DEFINE row == WithPhone([user[a] EXCEPT !.openid = q.openid], q.phone)
  <2>5. row \in User /\ row.openid = q.openid /\ row.phone = q.phone
    BY <2>4 DEF WithPhone, User
  <2>6. user' = [user EXCEPT ![a] = row]
    BY <2>2
  <2> HIDE DEF row, q
  <2> QED BY <2>2, <2>3, <2>4, <2>5, <2>6, RowIsOwn
<1>4. ASSUME NEW a \in Accounts, NEW enabled \in BOOLEAN, updateUserEnabled(a, enabled)
      PROVE  KeysAreUnique'
  <2>1. \A b \in Accounts : user'[b].openid = user[b].openid /\ user'[b].phone = user[b].phone
    BY <1>4 DEF updateUserEnabled, MInv, MemberTypes, User
  <2> QED BY <2>1 DEF KeysAreUnique
<1>5. CASE UNCHANGED user
  BY <1>5 DEF KeysAreUnique
<1>6. \/ UNCHANGED user
      \/ \E d \in Devices : \/ migrateBoundUser(d) \/ upsertCurrentOpenid(d)
                           \/ \E o \in Openids : wechatLogin(d, o)
      \/ \E a \in Accounts, enabled \in BOOLEAN : updateUserEnabled(a, enabled)
  BY DEF MemberNext, memberVars, updateExistingWechatUser, BeginPhoneLogin, LoginFails
<1> QED BY <1>1, <1>2, <1>3, <1>4, <1>5, <1>6

\* Types of the logins.
LEMMA LoginsReached == MemberSpec => []MemberTypeOK
<1>1. MemberInit => KeysAreUnique
  BY DEF MemberInit, KeysAreUnique
<1>2. MInv /\ KeysAreUnique => MemberTypeOK
  BY DEF MInv, MemberTypes, KeysAreUnique, MemberTypeOK
<1> QED BY MemberInitOK, MemberNextOK, KeysNextOK, <1>1, <1>2, PTL DEF MemberSpec

----------------------------------------------------------------------------
(* The counters of likes. *)

Steps == {"idle", "increment", "decrement", "clamp"}

LInv == LikesTypeOK /\ CountsAgree

Within(shown, ups, rows, downs, d) ==
    -d <= (shown + ups) - (rows + downs) /\ (shown + ups) - (rows + downs) <= d

\* The sets that are counted are finite.
LEMMA CountsAreNumbers ==
    ASSUME LikesTypeOK
    PROVE  /\ IsFiniteSet(liked) /\ Cardinality(liked) \in Nat
           /\ \A step : IsFiniteSet(Waiting(step)) /\ Cardinality(Waiting(step)) \in Nat
<1>1. IsFiniteSet(liked)
  BY FansAssumption, FS_Subset DEF LikesTypeOK
<1>2. ASSUME NEW step PROVE IsFiniteSet(Waiting(step))
  <2>1. Waiting(step) \subseteq Taps
    BY DEF Waiting
  <2> QED BY <2>1, FansAssumption, FS_Subset
<1> QED BY <1>1, <1>2, FS_CardinalityType

\* A tap that moves on leaves one set and enters another.
LEMMA TapMoves ==
    ASSUME LikesTypeOK, NEW t \in Taps, NEW to \in Steps, to # tap[t],
           tap' = [tap EXCEPT ![t] = to], NEW step \in Steps
    PROVE  Cardinality(Waiting(step))' =
             IF step = to THEN Cardinality(Waiting(step)) + 1
             ELSE IF step = tap[t] THEN Cardinality(Waiting(step)) - 1
             ELSE Cardinality(Waiting(step))
<1>1. tap \in [Taps -> Steps] /\ IsFiniteSet(Waiting(step))
  BY CountsAreNumbers DEF LikesTypeOK, Steps
<1>2. CASE step = to
  <2>1. Waiting(step)' = Waiting(step) \cup {t} /\ t \notin Waiting(step)
    BY <1>1, <1>2 DEF Waiting
  <2> QED BY <1>1, <1>2, <2>1, FS_AddElement
<1>3. CASE step # to /\ step = tap[t]
  <2>1. Waiting(step)' = Waiting(step) \ {t} /\ t \in Waiting(step)
    BY <1>1, <1>3 DEF Waiting
  <2>2. Cardinality(Waiting(step) \ {t}) = Cardinality(Waiting(step)) - 1
    BY <1>1, <2>1, FS_RemoveElement
  <2> QED BY <1>3, <2>1, <2>2
<1>4. CASE step # to /\ step # tap[t]
  <2>1. Waiting(step)' = Waiting(step)
    BY <1>1, <1>4 DEF Waiting
  <2> QED BY <1>4, <2>1
<1> QED BY <1>2, <1>3, <1>4

\* Nobody likes anything, and nothing is under way.
LEMMA LikesInitOK == LikesInit => LInv
<1> SUFFICES ASSUME LikesInit PROVE LInv
  OBVIOUS
<1>1. LikesTypeOK
  BY FansAssumption DEF LikesInit, LikesTypeOK
<1>2. Waiting("increment") = {} /\ Waiting("decrement") = {} /\ liked = {} /\ likes = 0
  BY DEF LikesInit, Waiting
<1>3. Cardinality({}) = 0
  BY FS_EmptySet
<1>4. drift = 0
  BY DEF LikesInit
<1> QED BY <1>1, <1>2, <1>3, <1>4 DEF LInv, CountsAgree, Off

\* A row and the step that is owed for it come together, the counter and the end of it too.
LEMMA LikesNextOK == LInv /\ [LikesNext]_likeVars => LInv'
<1> SUFFICES ASSUME LInv, [LikesNext]_likeVars PROVE LInv'
  OBVIOUS
<1> DEFINE ups == Cardinality(Waiting("increment"))
           downs == Cardinality(Waiting("decrement"))
           rows == Cardinality(liked)
<1>0. /\ LikesTypeOK /\ IsFiniteSet(liked) /\ likes \in Int /\ drift \in Nat
      /\ ups \in Nat /\ downs \in Nat /\ rows \in Nat
      /\ resets \in Nat
      /\ resets = 0 => Within(likes, ups, rows, downs, drift)
  BY CountsAreNumbers, FansAssumption DEF LInv, LikesTypeOK, CountsAgree, Off, Within
<1>1. ASSUME NEW t \in Taps, NEW u \in Fans, InsertRow(t, u) PROVE LInv'
  <2>1. /\ u \notin liked /\ liked' = liked \cup {u} /\ tap[t] = "idle"
        /\ tap' = [tap EXCEPT ![t] = "increment"] /\ UNCHANGED <<what, likes, drift, resets>>
    BY <1>1 DEF InsertRow
  <2>2. LikesTypeOK'
    BY <1>0, <2>1 DEF LikesTypeOK, Steps
  <2>3. rows' = rows + 1
    BY <1>0, <2>1, FS_AddElement
  <2>4. ups' = ups + 1 /\ downs' = downs
    BY <1>0, <2>1, TapMoves DEF Steps
  <2> HIDE DEF rows, ups, downs
  <2>5. resets' = 0 => Within(likes', ups', rows', downs', drift')
    BY <1>0, <2>1, <2>3, <2>4 DEF Within
  <2> QED BY <2>2, <2>5 DEF LInv, CountsAgree, Off, Within, rows, ups, downs
<1>2. ASSUME NEW t \in Taps, NEW u \in Fans, DeleteRow(t, u) PROVE LInv'
  <2>1. /\ u \in liked /\ liked' = liked \ {u} /\ tap[t] = "idle"
        /\ tap' = [tap EXCEPT ![t] = "decrement"] /\ UNCHANGED <<what, likes, drift, resets>>
    BY <1>2 DEF DeleteRow
  <2>2. LikesTypeOK'
    BY <1>0, <2>1 DEF LikesTypeOK, Steps
  <2>3. Cardinality(liked \ {u}) = Cardinality(liked) - 1
    BY <1>0, <2>1, FS_RemoveElement
  <2>4. rows' = rows - 1
    BY <2>1, <2>3
  <2>5. ups' = ups /\ downs' = downs + 1
    BY <1>0, <2>1, TapMoves DEF Steps
  <2> HIDE DEF rows, ups, downs
  <2>6. resets' = 0 => Within(likes', ups', rows', downs', drift')
    BY <1>0, <2>1, <2>4, <2>5 DEF Within
  <2> QED BY <2>2, <2>6 DEF LInv, CountsAgree, Off, Within, rows, ups, downs
<1>3. ASSUME NEW t \in Taps, Increment(t) PROVE LInv'
  <2>1. /\ likes' = likes + 1 /\ tap[t] = "increment"
        /\ tap' = [tap EXCEPT ![t] = "idle"] /\ UNCHANGED <<what, liked, drift, resets>>
    BY <1>3 DEF Increment
  <2>2. LikesTypeOK'
    BY <1>0, <2>1 DEF LikesTypeOK, Steps
  <2>3. rows' = rows /\ ups' = ups - 1 /\ downs' = downs
    BY <1>0, <2>1, TapMoves DEF Steps
  <2> HIDE DEF rows, ups, downs
  <2>4. resets' = 0 => Within(likes', ups', rows', downs', drift')
    BY <1>0, <2>1, <2>3 DEF Within
  <2> QED BY <2>2, <2>4 DEF LInv, CountsAgree, Off, Within, rows, ups, downs
<1>4. ASSUME NEW t \in Taps, Decrement(t) PROVE LInv'
  <2> DEFINE to == IF what = "replyFavorite" /\ likes' < 0 THEN "clamp" ELSE "idle"
  <2>1. /\ likes' = likes - 1 /\ tap[t] = "decrement"
        /\ tap' = [tap EXCEPT ![t] = to] /\ UNCHANGED <<what, liked, drift, resets>>
    BY <1>4 DEF Decrement
  <2>2. to \in {"clamp", "idle"}
    OBVIOUS
  <2> HIDE DEF to
  <2>3. LikesTypeOK'
    BY <1>0, <2>1, <2>2 DEF LikesTypeOK, Steps
  <2>4. PICK k \in {"clamp", "idle"} : tap' = [tap EXCEPT ![t] = k]
    BY <2>1, <2>2
  <2>5. rows' = rows /\ ups' = ups /\ downs' = downs - 1
    BY <1>0, <2>1, <2>4, TapMoves DEF Steps
  <2> HIDE DEF rows, ups, downs
  <2>6. resets' = 0 => Within(likes', ups', rows', downs', drift')
    BY <1>0, <2>1, <2>5 DEF Within
  <2> QED BY <2>3, <2>6 DEF LInv, CountsAgree, Off, Within, rows, ups, downs
<1>5. ASSUME NEW t \in Taps, Clamp(t) PROVE LInv'
  <2>1. resets' = resets + 1 /\ resets' # 0 /\ resets' \in 0..MaxDrift
    BY <1>0, <1>5, FansAssumption DEF Clamp, LikesTypeOK
  <2>2. LikesTypeOK'
    BY <1>0, <1>5, <2>1 DEF Clamp, LikesTypeOK
  <2> QED BY <2>1, <2>2 DEF LInv, CountsAgree
<1>6. ASSUME NEW t \in Taps, Lost(t) PROVE LInv'
  <2>1. /\ drift' = drift + 1 /\ drift' \in 0..MaxDrift /\ tap[t] \in Steps /\ tap[t] # "idle"
        /\ tap' = [tap EXCEPT ![t] = "idle"] /\ UNCHANGED <<what, liked, likes, resets>>
    BY <1>0, <1>6, FansAssumption DEF Lost, LikesTypeOK, Steps
  <2>2. LikesTypeOK'
    BY <1>0, <2>1 DEF LikesTypeOK
  <2>3. /\ rows' = rows
        /\ ups' = IF tap[t] = "increment" THEN ups - 1 ELSE ups
        /\ downs' = IF tap[t] = "decrement" THEN downs - 1 ELSE downs
    BY <1>0, <2>1, TapMoves DEF Steps
  <2>4. ups' \in {ups, ups - 1} /\ downs' \in {downs, downs - 1} /\ (ups' = ups \/ downs' = downs)
    BY <2>3
  <2> HIDE DEF rows, ups, downs
  <2>5. resets' = 0 => Within(likes', ups', rows', downs', drift')
    BY <1>0, <2>1, <2>3, <2>4 DEF Within
  <2> QED BY <2>2, <2>5 DEF LInv, CountsAgree, Off, Within, rows, ups, downs
<1>7. CASE UNCHANGED likeVars
  BY <1>7 DEF likeVars, LInv, LikesTypeOK, CountsAgree, Off, Waiting
<1> QED BY <1>1, <1>2, <1>3, <1>4, <1>5, <1>6, <1>7
        DEF LikesNext, like, unlike, likeReply, unlikeReply, favoriteReply, unfavoriteReply

\* Once the taps under way are through, the counter is wrong by one at most for each tap that was
\* cut off halfway, until a counter below zero is reset (forum.service.ts:643-661, 723-740).
THEOREM CountersAgree == LikesSpec => []CountsAgree
<1>1. LInv => CountsAgree
  BY DEF LInv
<1> QED BY LikesInitOK, LikesNextOK, <1>1, PTL DEF LikesSpec

----------------------------------------------------------------------------
(* Copied names and their locks. *)

\* A user's row is locked by one transaction.
Exclusive == \A s, other \in Sessions : s # other => work[s].held \cap work[other].held = {}

\* Who waits for a row holds smaller ones only.
Sorted ==
    \A s \in Sessions :
        /\ work[s].users \subseteq People
        /\ work[s].held \subseteq work[s].users
        /\ \A u \in work[s].held, v \in work[s].users \ work[s].held : u < v

LocksInv == ProfileTypeOK /\ Exclusive /\ Sorted

\* What lies idle is no transaction, and holds nothing.
LEMMA RestingIs ==
    /\ Resting \notin Work
    /\ Resting.op = "idle" /\ Resting.users = {} /\ Resting.held = {}
    /\ Resting.seen.read = FALSE
    /\ "idle" \notin Copying
BY DEF Resting, Work, Unread, Copying, OwnColumn

\* Nothing has begun.
LEMMA LocksInitOK == ProfileInit => LocksInv
BY RestingIs, PeopleAssumption
   DEF ProfileInit, LocksInv, ProfileTypeOK, Versions, Exclusive, Sorted

\* A transaction that ends, or has not locked yet, stands in nobody's way.
LEMMA NotHolding ==
    ASSUME LocksInv, NEW s \in Sessions, NEW w \in Work \cup {Resting}, w.held = {},
           w.users \subseteq People,
           work' = [work EXCEPT ![s] = w]
    PROVE  /\ work' \in [Sessions -> Work \cup {Resting}]
           /\ Exclusive' /\ Sorted'
<1>1. \A x \in Sessions : work'[x] = IF x = s THEN w ELSE work[x]
  BY DEF LocksInv, ProfileTypeOK
<1>2. work' \in [Sessions -> Work \cup {Resting}]
  BY DEF LocksInv, ProfileTypeOK
<1>3. Exclusive'
  BY <1>1 DEF LocksInv, Exclusive
<1>4. Sorted'
  BY <1>1 DEF LocksInv, Sorted
<1> QED BY <1>2, <1>3, <1>4

\* The copies an insert adds, and those a change of the name rewrites, are copies.
LEMMA WrittenTypes ==
    ASSUME NEW w \in Work, w.op \in Copying
    PROVE  WrittenCopies(w) \subseteq Copy
<1> SUFFICES ASSUME NEW c \in WrittenCopies(w) PROVE c \in Copy
  OBVIOUS
<1>0. w.users \subseteq People /\ w.by \in People /\ w.seen.names \in [People -> Versions]
  BY DEF Work
<1>1. CASE c = [column |-> OwnColumn[w.op], user |-> w.by, name |-> w.seen.names[w.by]]
  BY <1>0, <1>1 DEF Copy, Columns
<1>2. CASE w.op \in DOMAIN OtherColumn /\ \E u \in w.users :
             c = [column |-> OtherColumn[w.op], user |-> u, name |-> w.seen.names[u]]
  BY <1>0, <1>2 DEF Copy, Columns
<1> QED BY <1>1, <1>2 DEF WrittenCopies

\* A propagation writes copies, each from a copy of the same column and user.
LEMMA PropagateTypes ==
    ASSUME ProfileTypeOK, NEW u \in People, NEW version \in Versions
    PROVE  /\ Propagate(u, version) \subseteq Copy
           /\ \A d \in Propagate(u, version) : \E c \in copies :
                /\ d.column = c.column /\ d.user = c.user
                /\ d.name = IF c.user = u THEN version ELSE c.name
BY DEF ProfileTypeOK, Copy, Propagate

\* One step per operation.
LEMMA LocksNextOK == LocksInv /\ [ProfileNext]_profileVars => LocksInv'
<1> SUFFICES ASSUME LocksInv, [ProfileNext]_profileVars PROVE LocksInv'
  OBVIOUS
<1>0. \A x \in Sessions : work[x] # Resting => work[x] \in Work
  BY DEF LocksInv, ProfileTypeOK
<1>1. ASSUME NEW s \in Sessions, NEW op \in Copying \cup {"rename"}, NEW by \in People,
             NEW users \in SUBSET People, BeginWork(s, op, by, users)
      PROVE  LocksInv'
  <2> DEFINE w == [op |-> op, users |-> users, held |-> {}, by |-> by, seen |-> Unread]
  <2>1. w \in Work /\ w.held = {} /\ w.users \subseteq People
    BY PeopleAssumption DEF Work, Unread, Versions
  <2>2. work' = [work EXCEPT ![s] = w] /\ UNCHANGED <<name, copies>>
    BY <1>1 DEF BeginWork
  <2> HIDE DEF w
  <2> QED BY <2>1, <2>2, NotHolding DEF LocksInv, ProfileTypeOK
<1>2. ASSUME NEW s \in Sessions, NEW u \in People, LockUser(s, u) PROVE LocksInv'
  <2>1. /\ u \in work[s].users \ work[s].held
        /\ \A v \in work[s].users \ work[s].held : u <= v
        /\ \A other \in Sessions : u \notin work[other].held
        /\ work' = [work EXCEPT ![s].held = work[s].held \cup {u}]
        /\ UNCHANGED <<name, copies>>
    BY <1>2 DEF LockUser, Due
  <2>2. work[s] \in Work
    BY <1>0, <2>1, RestingIs
  <2>3. /\ work'[s] \in Work
        /\ work'[s].users = work[s].users /\ work'[s].held = work[s].held \cup {u}
        /\ \A x \in Sessions : x # s => work'[x] = work[x]
    BY <2>1, <2>2 DEF LocksInv, ProfileTypeOK, Work
  <2>4. work' \in [Sessions -> Work \cup {Resting}]
    BY <2>1, <2>3 DEF LocksInv, ProfileTypeOK
  <2>5. Exclusive'
    BY <2>1, <2>3 DEF LocksInv, Exclusive
  <2>6. Sorted'
    <3> SUFFICES ASSUME NEW x \in Sessions
                 PROVE  /\ work'[x].users \subseteq People
                        /\ work'[x].held \subseteq work'[x].users
                        /\ \A y \in work'[x].held, v \in work'[x].users \ work'[x].held : y < v
      BY DEF Sorted
    <3>1. CASE x # s
      BY <2>3, <3>1 DEF LocksInv, Sorted
    <3>2. CASE x = s
      <4>1. work[s].users \subseteq People /\ work[s].held \subseteq work[s].users
        BY DEF LocksInv, Sorted
      <4>2. ASSUME NEW v \in work[s].users \ (work[s].held \cup {u}) PROVE u < v
        <5>1. u \in Nat /\ v \in Nat /\ u # v /\ u <= v
          BY <2>1, <4>1, PeopleAssumption
        <5> QED BY <5>1
      <4>3. \A y \in work[s].held, v \in work[s].users \ work[s].held : y < v
        BY DEF LocksInv, Sorted
      <4> QED BY <2>1, <2>3, <3>2, <4>1, <4>2, <4>3
    <3> QED BY <3>1, <3>2
  <2> QED BY <2>1, <2>4, <2>5, <2>6 DEF LocksInv, ProfileTypeOK
<1>3. ASSUME NEW s \in Sessions, ReadSnapshot(s) PROVE LocksInv'
  <2> DEFINE seen == [read |-> TRUE, names |-> name]
  <2>1. /\ work[s] \in Work /\ work' = [work EXCEPT ![s].seen = seen]
        /\ UNCHANGED <<name, copies>>
    BY <1>0, <1>3, RestingIs DEF ReadSnapshot
  <2>2. seen \in [read: BOOLEAN, names: [People -> Versions]]
    BY DEF LocksInv, ProfileTypeOK
  <2> HIDE DEF seen
  <2>3. /\ work'[s] \in Work
        /\ work'[s].users = work[s].users /\ work'[s].held = work[s].held
        /\ \A x \in Sessions : x # s => work'[x] = work[x]
    BY <2>1, <2>2 DEF LocksInv, ProfileTypeOK, Work
  <2>4. work' \in [Sessions -> Work \cup {Resting}]
    BY <2>1, <2>3 DEF LocksInv, ProfileTypeOK
  <2>5. Exclusive' /\ Sorted'
    BY <2>3 DEF LocksInv, Exclusive, Sorted
  <2> QED BY <2>1, <2>4, <2>5 DEF LocksInv, ProfileTypeOK
<1>4. ASSUME NEW s \in Sessions, WriteCopy(s) PROVE LocksInv'
  <2>1. /\ work' = [work EXCEPT ![s] = Resting] /\ name' = name
        /\ copies' = copies \cup WrittenCopies(work[s])
        /\ work[s] \in Work /\ work[s].op \in Copying
    BY <1>0, <1>4 DEF WriteCopy, AllLocked
  <2>2. copies' \subseteq Copy
    BY <2>1, WrittenTypes DEF LocksInv, ProfileTypeOK
  <2> QED BY <2>1, <2>2, NotHolding, RestingIs DEF LocksInv, ProfileTypeOK
<1>5. ASSUME NEW s \in Sessions, Rename(s) PROVE LocksInv'
  <2> DEFINE u == work[s].by
  <2>1. /\ work' = [work EXCEPT ![s] = Resting] /\ work[s] \in Work
        /\ name' = [name EXCEPT ![u] = name[u] + 1]
        /\ copies' = Propagate(u, name[u] + 1)
    BY <1>0, <1>5 DEF Rename, AllLocked
  <2>2. u \in People
    BY <2>1 DEF Work
  <2>3. name[u] + 1 \in Versions
    <3>1. name[u] < MaxRenames /\ name[u] \in Versions
      BY <1>5, <2>2 DEF Rename, LocksInv, ProfileTypeOK
    <3> QED BY <3>1, PeopleAssumption DEF Versions
  <2>4. name' \in [People -> Versions]
    BY <2>1, <2>2, <2>3 DEF LocksInv, ProfileTypeOK
  <2>5. copies' \subseteq Copy
    BY <2>1, <2>2, <2>3, PropagateTypes DEF LocksInv
  <2> QED BY <2>1, <2>4, <2>5, NotHolding, RestingIs DEF LocksInv, ProfileTypeOK
<1>6. ASSUME NEW s \in Sessions, Abort(s) PROVE LocksInv'
  BY <1>6, NotHolding, RestingIs DEF Abort, LocksInv, ProfileTypeOK
<1>7. CASE UNCHANGED profileVars
  BY <1>7 DEF profileVars, LocksInv, ProfileTypeOK, Exclusive, Sorted
<1>8. ASSUME NEW s \in Sessions, NEW u \in People,
             BeginRename(s, u) \/ \E op \in Copying : BeginCopy(s, op, u)
      PROVE  LocksInv'
  BY <1>1, <1>8 DEF BeginRename, BeginCopy
<1> QED BY <1>2, <1>3, <1>4, <1>5, <1>6, <1>7, <1>8 DEF ProfileNext

\* Handlers that lock several users never wait for each other: who holds what the other
\* waits for has the smaller of the two behind him (user-profile-sync.ts:64-72).
THEOREM LocksDoNotCross == ProfileSpec => []NoLockCycle
<1>1. ASSUME LocksInv PROVE NoLockCycle
  <2> SUFFICES ASSUME NEW s \in Sessions, NEW other \in Sessions,
                      WaitsFor(s, other), WaitsFor(other, s)
               PROVE  FALSE
    BY DEF NoLockCycle
  <2>1. PICK u \in work[other].held : u \in work[s].users \ work[s].held
    BY DEF WaitsFor, Due
  <2>2. PICK v \in work[s].held : v \in work[other].users \ work[other].held
    BY DEF WaitsFor, Due
  <2>3. u \in Nat /\ v \in Nat
    BY <1>1, <2>1, <2>2, PeopleAssumption DEF LocksInv, Sorted
  <2>4. v < u /\ u < v
    BY <1>1, <2>1, <2>2 DEF LocksInv, Sorted
  <2> QED BY <2>3, <2>4
<1> QED BY LocksInitOK, LocksNextOK, <1>1, PTL DEF ProfileSpec

----------------------------------------------------------------------------
(* The copies. *)

\* A handler that locks before it reads holds what it has read of the names it copies.
SeenIsCurrent ==
    \A s \in Sessions :
        /\ work[s] # Resting => work[s].by \in work[s].users
        /\ work[s].seen.read /\ work[s].op \notin ReadFirst =>
             /\ work[s].held = work[s].users
             /\ \A u \in work[s].users : work[s].seen.names[u] = name[u]

CopiesInv == LocksInv /\ SeenIsCurrent /\ LockedCopiesAgree

\* Nothing is read, nothing copied.
LEMMA CopiesInitOK == ProfileInit => CopiesInv
BY LocksInitOK, RestingIs DEF ProfileInit, CopiesInv, SeenIsCurrent, LockedCopiesAgree

\* One step per operation.
LEMMA CopiesNextOK == CopiesInv /\ [ProfileNext]_profileVars => CopiesInv'
<1> SUFFICES ASSUME CopiesInv, [ProfileNext]_profileVars PROVE SeenIsCurrent' /\ LockedCopiesAgree'
  BY LocksNextOK DEF CopiesInv
<1>0. LocksInv /\ \A x \in Sessions : work[x] # Resting => work[x] \in Work
  BY DEF CopiesInv, LocksInv, ProfileTypeOK
<1>1. ASSUME NEW s \in Sessions, NEW op, NEW by, NEW users, by \in users,
             BeginWork(s, op, by, users)
      PROVE  SeenIsCurrent' /\ LockedCopiesAgree'
  <2> DEFINE w == [op |-> op, users |-> users, held |-> {}, by |-> by, seen |-> Unread]
  <2>1. w.by \in w.users /\ w.seen.read = FALSE
    BY <1>1 DEF Unread
  <2>2. work' = [work EXCEPT ![s] = w] /\ UNCHANGED <<name, copies>>
    BY <1>1 DEF BeginWork
  <2> HIDE DEF w
  <2>3. \A x \in Sessions : work'[x] = IF x = s THEN w ELSE work[x]
    BY <1>0, <2>2 DEF LocksInv, ProfileTypeOK
  <2> QED BY <2>1, <2>2, <2>3 DEF CopiesInv, SeenIsCurrent, LockedCopiesAgree
<1>2. ASSUME NEW s \in Sessions, NEW u \in People, LockUser(s, u)
      PROVE  SeenIsCurrent' /\ LockedCopiesAgree'
  <2>1. /\ u \in work[s].users \ work[s].held
        /\ work' = [work EXCEPT ![s].held = work[s].held \cup {u}]
        /\ UNCHANGED <<name, copies>>
    BY <1>2 DEF LockUser, Due
  <2>2. work[s] # Resting /\ work[s] \in Work
    BY <1>0, <2>1, RestingIs
  <2>3. /\ work'[s].users = work[s].users /\ work'[s].by = work[s].by
        /\ work'[s].op = work[s].op /\ work'[s].seen = work[s].seen
        /\ \A x \in Sessions : x # s => work'[x] = work[x]
    BY <1>0, <2>1, <2>2 DEF LocksInv, ProfileTypeOK, Work
  <2>4. ~(work[s].seen.read /\ work[s].op \notin ReadFirst)
    BY <2>1 DEF CopiesInv, SeenIsCurrent
  <2>5. SeenIsCurrent'
    BY <2>1, <2>2, <2>3, <2>4 DEF CopiesInv, SeenIsCurrent
  <2> QED BY <2>1, <2>5 DEF CopiesInv, LockedCopiesAgree
<1>3. ASSUME NEW s \in Sessions, ReadSnapshot(s) PROVE SeenIsCurrent' /\ LockedCopiesAgree'
  <2> DEFINE seen == [read |-> TRUE, names |-> name]
  <2>1. /\ work[s] # Resting /\ work[s] \in Work /\ work' = [work EXCEPT ![s].seen = seen]
        /\ UNCHANGED <<name, copies>>
        /\ work[s].op \notin ReadFirst => work[s].held = work[s].users
    BY <1>0, <1>3, RestingIs DEF ReadSnapshot, AllLocked
  <2>2. \A u : seen.names[u] = name[u]
    OBVIOUS
  <2> HIDE DEF seen
  <2>3. /\ work'[s].users = work[s].users /\ work'[s].held = work[s].held
        /\ work'[s].by = work[s].by /\ work'[s].op = work[s].op /\ work'[s].seen = seen
        /\ \A x \in Sessions : x # s => work'[x] = work[x]
    BY <1>0, <2>1 DEF LocksInv, ProfileTypeOK, Work
  <2> QED BY <2>1, <2>2, <2>3 DEF CopiesInv, SeenIsCurrent, LockedCopiesAgree
<1>4. ASSUME NEW s \in Sessions, work' = [work EXCEPT ![s] = Resting], UNCHANGED name
      PROVE  SeenIsCurrent'
  <2>1. \A x \in Sessions : work'[x] = IF x = s THEN Resting ELSE work[x]
    BY <1>0, <1>4 DEF LocksInv, ProfileTypeOK
  <2> QED BY <1>4, <2>1, RestingIs DEF CopiesInv, SeenIsCurrent
<1>5. ASSUME NEW s \in Sessions, WriteCopy(s) PROVE SeenIsCurrent' /\ LockedCopiesAgree'
  <2> DEFINE w == work[s]
  <2>1. /\ work' = [work EXCEPT ![s] = Resting] /\ name' = name
        /\ copies' = copies \cup WrittenCopies(w)
        /\ w # Resting /\ w.op \in Copying /\ w.seen.read
    BY <1>5 DEF WriteCopy, AllLocked
  <2>2. ASSUME NEW c \in WrittenCopies(w), c.column \in LockedColumns
        PROVE  c.name = name[c.user]
    <3>1. w.by \in w.users
      BY <2>1 DEF CopiesInv, SeenIsCurrent
    <3>2. /\ \E u \in w.users : c.user = u /\ c.name = w.seen.names[u]
          /\ \/ c.column = OwnColumn[w.op]
             \/ w.op \in DOMAIN OtherColumn /\ c.column = OtherColumn[w.op]
      BY <2>2, <3>1 DEF WrittenCopies
    <3>3. w.op \notin ReadFirst
      BY <2>2, <3>2 DEF LockedColumns
    <3> QED BY <2>1, <3>2, <3>3 DEF CopiesInv, SeenIsCurrent
  <2>3. LockedCopiesAgree'
    BY <2>1, <2>2 DEF CopiesInv, LockedCopiesAgree
  <2> QED BY <1>4, <2>1, <2>3
<1>6. ASSUME NEW s \in Sessions, Rename(s) PROVE SeenIsCurrent' /\ LockedCopiesAgree'
  <2> DEFINE u == work[s].by
  <2>1. /\ work' = [work EXCEPT ![s] = Resting] /\ work[s] # Resting /\ work[s] \in Work
        /\ name' = [name EXCEPT ![u] = name[u] + 1]
        /\ copies' = Propagate(u, name[u] + 1)
        /\ work[s].held = work[s].users
    BY <1>0, <1>6 DEF Rename, AllLocked
  <2>2. u \in People /\ u \in work[s].held /\ name[u] + 1 \in Versions
    <3>1. u \in People /\ u \in work[s].held
      BY <1>0, <2>1 DEF CopiesInv, SeenIsCurrent, Work
    <3>2. name[u] < MaxRenames /\ name[u] \in Versions
      BY <1>0, <1>6, <3>1 DEF Rename, LocksInv, ProfileTypeOK
    <3> QED BY <3>1, <3>2, PeopleAssumption DEF Versions
  <2>3. \A x \in Sessions : x # s => u \notin work[x].held
    BY <1>0, <2>2 DEF LocksInv, Exclusive
  <2>4. \A v \in People : name'[v] = IF v = u THEN name[u] + 1 ELSE name[v]
    BY <1>0, <2>1 DEF LocksInv, ProfileTypeOK
  <2>5. \A x \in Sessions : work'[x] = IF x = s THEN Resting ELSE work[x]
    BY <1>0, <2>1 DEF LocksInv, ProfileTypeOK
  <2>6. SeenIsCurrent'
    <3> SUFFICES ASSUME NEW x \in Sessions
                 PROVE  /\ work'[x] # Resting => work'[x].by \in work'[x].users
                        /\ work'[x].seen.read /\ work'[x].op \notin ReadFirst =>
                             /\ work'[x].held = work'[x].users
                             /\ \A v \in work'[x].users : work'[x].seen.names[v] = name'[v]
      BY DEF SeenIsCurrent
    <3>1. CASE x = s
      BY <2>5, <3>1, RestingIs
    <3>2. CASE x # s
      <4>1. work'[x] = work[x] /\ u \notin work[x].held /\ work[x].users \subseteq People
        BY <1>0, <2>3, <2>5, <3>2 DEF LocksInv, Sorted
      <4> QED BY <2>4, <4>1 DEF CopiesInv, SeenIsCurrent
    <3> QED BY <3>1, <3>2
  <2>7. LockedCopiesAgree'
    <3> SUFFICES ASSUME NEW d \in copies', d.column \in LockedColumns PROVE d.name = name'[d.user]
      BY DEF LockedCopiesAgree
    <3>1. PICK c \in copies : /\ d.column = c.column /\ d.user = c.user
                              /\ d.name = IF c.user = u THEN name[u] + 1 ELSE c.name
      BY <1>0, <2>1, <2>2, PropagateTypes DEF LocksInv
    <3>2. c.user \in People /\ c.name = name[c.user]
      BY <1>0, <3>1 DEF CopiesInv, LockedCopiesAgree, LocksInv, ProfileTypeOK, Copy
    <3> QED BY <2>4, <3>1, <3>2
  <2> QED BY <2>6, <2>7
<1>7. ASSUME NEW s \in Sessions, Abort(s) PROVE SeenIsCurrent' /\ LockedCopiesAgree'
  BY <1>4, <1>7 DEF Abort, CopiesInv, LockedCopiesAgree
<1>8. CASE UNCHANGED profileVars
  BY <1>8 DEF profileVars, CopiesInv, SeenIsCurrent, LockedCopiesAgree
<1>9. ASSUME NEW s \in Sessions, NEW u \in People,
             BeginRename(s, u) \/ \E op \in Copying : BeginCopy(s, op, u)
      PROVE  SeenIsCurrent' /\ LockedCopiesAgree'
  BY <1>1, <1>9 DEF BeginRename, BeginCopy
<1> QED BY <1>2, <1>3, <1>5, <1>6, <1>7, <1>8, <1>9 DEF ProfileNext

\* A copy in a column whose writers lock before they read shows the name of today, however
\* many handlers and changes of names overlap (user-profile-sync.ts:64-72, 155-211).
THEOREM CopiesAgree == ProfileSpec => []LockedCopiesAgree
<1>1. CopiesInv => LockedCopiesAgree
  BY DEF CopiesInv
<1> QED BY CopiesInitOK, CopiesNextOK, <1>1, PTL DEF ProfileSpec

----------------------------------------------------------------------------
(* The orders of the mall. *)

\* The part of the types the arguments need.
OrderTypes ==
    /\ order \in [Orders -> Row \cup {NoOrder}]
    /\ call \in [Calls -> Call \cup {Quiet}]

\* Orders are numbered as they come.
NumberedInTurn == \E n \in 0..MaxOrders : Placed = 1..n

\* What clients were told is the order they placed.
AnswersNameOrders ==
    \A a \in answered : /\ a.id \in Placed
                        /\ order[a.id].buyer = a.user /\ order[a.id].key = a.key
                        /\ order[a.id].terms = a.terms

\* Orders are told about, and a pending one has not been told to have moved.
NoticesNameOrders ==
    \A n \in notice : n.id \in Placed /\ (n.version = 1 => order[n.id].status # "pending")

\* A move that is under way is one a party may make.
MoveIsAllowed(c) ==
    call[c].op = "updateOrderStatus" =>
        /\ call[c].id \in Placed
        /\ order[call[c].id].buyer = call[c].row.buyer
        /\ call[c].user \in {call[c].row.buyer, Seller}
        /\ call[c].status = "completed" => call[c].user = Seller

OInv ==
    /\ OrderTypes /\ KeyIsUnique /\ NumberedInTurn
    /\ AnswersNameOrders /\ NoticesNameOrders
    /\ \A c \in Calls : MoveIsAllowed(c)

\* An order is a row, and a row is not the absence of one.
LEMMA PlacedRow ==
    ASSUME OrderTypes, NEW i \in Placed
    PROVE  i \in Orders /\ order[i] \in Row /\ order[i].status # "none"
BY DEF OrderTypes, Placed, Row

\* A place without an order does not look like one.
LEMMA NoOrderIsNoRow == NoOrder \notin Row
BY DEF NoOrder, Row

\* The next order has a number of its own.
LEMMA NextNumber ==
    ASSUME NumberedInTurn
    PROVE  /\ Cardinality(Placed) + 1 \in Nat /\ Cardinality(Placed) + 1 \notin Placed
           /\ Placed \cup {Cardinality(Placed) + 1} = 1..(Cardinality(Placed) + 1)
<1>1. PICK n \in 0..MaxOrders : Placed = 1..n
  BY DEF NumberedInTurn
<1>2. n \in Nat
  BY OrdersAssumption
<1>3. Cardinality(1..n) = n
  <2>1. Cardinality(1..n) = IF 1 > n THEN 0 ELSE n - 1 + 1
    BY <1>2, FS_Interval
  <2> QED BY <1>2, <2>1
<1>4. Cardinality(Placed) = n
  BY <1>1, <1>3
<1> QED BY <1>1, <1>2, <1>4

\* The market opens without orders.
LEMMA OrdersInitOK == OrdersInit => OInv
<1> SUFFICES ASSUME OrdersInit PROVE OInv
  OBVIOUS
<1>1. Placed = {}
  BY DEF OrdersInit, Placed
<1>2. NumberedInTurn
  <2>1. Placed = 1..0
    BY <1>1
  <2> QED BY <2>1, OrdersAssumption DEF NumberedInTurn
<1>3. OrderTypes
  BY DEF OrdersInit, OrderTypes
<1>4. KeyIsUnique
  BY <1>1 DEF KeyIsUnique, Placed
<1> QED BY <1>2, <1>3, <1>4
        DEF OrdersInit, OInv, AnswersNameOrders, NoticesNameOrders, MoveIsAllowed, Quiet

\* A notice names its order, its version and its two parties.
LEMMA Told ==
    ASSUME NEW i, NEW version, NEW to, NEW from, NEW type, Tell(i, version, to, from, type)
    PROVE  \E n \in notice' : /\ notice' = notice \cup {n} /\ n.id = i /\ n.version = version
                              /\ n.to = to /\ n.from = from
<1> DEFINE n == [id |-> i, version |-> version, to |-> to, from |-> from, type |-> type]
<1>1. notice' = notice \cup {n}
  BY DEF Tell
<1>2. n.id = i /\ n.version = version /\ n.to = to /\ n.from = from
  OBVIOUS
<1> HIDE DEF n
<1> QED BY <1>1, <1>2

\* What createOrder does: one more order, one notice and one answer.
LEMMA CreateStep ==
    ASSUME OInv, NEW c \in Calls, createOrder(c)
    PROVE  LET i   == Cardinality(Placed) + 1
               new == [status |-> "pending", version |-> 0, buyer |-> call[c].user,
                       key |-> call[c].key, terms |-> call[c].terms]
           IN  /\ i \in Orders /\ i \notin Placed /\ order[i] = NoOrder
               /\ new \in Row /\ order' = [order EXCEPT ![i] = new]
               /\ Placed' = Placed \cup {i} /\ Placed' = 1..i
<1> DEFINE i   == Cardinality(Placed) + 1
           new == [status |-> "pending", version |-> 0, buyer |-> call[c].user,
                   key |-> call[c].key, terms |-> call[c].terms]
<1>1. i \in Orders /\ order' = [order EXCEPT ![i] = new] /\ call[c].op = "createOrder"
  BY DEF createOrder, InsertOrder
<1>2. i \notin Placed /\ Placed \cup {i} = 1..i
  BY NextNumber DEF OInv
<1>3. order[i] = NoOrder
  BY <1>1, <1>2 DEF Placed
<1>4. new \in Row
  BY <1>1 DEF OInv, OrderTypes, Call, Quiet, Row
<1> HIDE DEF i, new
<1>5. \A j \in Orders : order'[j] = IF j = i THEN new ELSE order[j]
  BY <1>1 DEF OInv, OrderTypes
<1>6. Placed' = Placed \cup {i}
  BY <1>1, <1>4, <1>5, NoOrderIsNoRow DEF Placed
<1> QED BY <1>1, <1>2, <1>3, <1>4, <1>6 DEF i, new

\* What updateOrderStatus does: a pending order moves on, with the version of its notice.
LEMMA MoveStep ==
    ASSUME OInv, NEW c \in Calls, updateOrderStatus(c)
    PROVE  LET q == call[c] IN
           /\ q.id \in Placed /\ order[q.id].status = "pending"
           /\ q.status \in {"completed", "cancelled"} /\ MoveIsAllowed(c)
           /\ order' \in [Orders -> Row \cup {NoOrder}] /\ Placed' = Placed
           /\ \A i \in Orders : i # q.id => order'[i] = order[i]
           /\ order'[q.id].status = q.status
           /\ order'[q.id].buyer = order[q.id].buyer /\ order'[q.id].key = order[q.id].key
           /\ order'[q.id].terms = order[q.id].terms
<1> DEFINE q   == call[c]
           row == [order[q.id] EXCEPT !.status = q.status, !.version = 1]
<1>1. /\ q.op = "updateOrderStatus" /\ order[q.id].status = "pending"
      /\ order' = [order EXCEPT ![q.id].status = q.status, ![q.id].version = 1]
  BY DEF updateOrderStatus, Unmoved
<1>2. MoveIsAllowed(c) /\ q.id \in Placed
  BY <1>1 DEF OInv, MoveIsAllowed
<1>3. q.status \in {"completed", "cancelled"}
  BY <1>1 DEF OInv, OrderTypes, Call, Quiet
<1>4. q.id \in Orders /\ order[q.id] \in Row
  BY <1>2, PlacedRow DEF OInv
<1>5. order' = [order EXCEPT ![q.id] = row]
  BY <1>1, <1>4 DEF OInv, OrderTypes
<1>6. /\ row \in Row /\ row.status = q.status /\ row.buyer = order[q.id].buyer
      /\ row.key = order[q.id].key /\ row.terms = order[q.id].terms
  BY <1>3, <1>4 DEF Row
<1> HIDE DEF row
<1>7. /\ order' \in [Orders -> Row \cup {NoOrder}] /\ order'[q.id] = row
      /\ \A i \in Orders : i # q.id => order'[i] = order[i]
  BY <1>4, <1>5, <1>6 DEF OInv, OrderTypes
<1>8. Placed' = Placed
  BY <1>2, <1>6, <1>7, NoOrderIsNoRow DEF Placed
<1> QED BY <1>1, <1>2, <1>3, <1>6, <1>7, <1>8

\* Orders keep number, key, terms and buyer, and a call that has ended is no move.
LEMMA OrdersNextOK == OInv /\ [OrdersNext]_orderVars => OInv'
<1> SUFFICES ASSUME OInv, [OrdersNext]_orderVars PROVE OInv'
  OBVIOUS
<1>0. /\ OrderTypes /\ KeyIsUnique /\ NumberedInTurn /\ AnswersNameOrders /\ NoticesNameOrders
      /\ \A c \in Calls : MoveIsAllowed(c)
  BY DEF OInv
<1>1. CASE SetVisibility
  BY <1>0, <1>1 DEF SetVisibility, OInv, OrderTypes, KeyIsUnique, NumberedInTurn, Placed,
                    AnswersNameOrders, NoticesNameOrders, MoveIsAllowed
<1>2. ASSUME NEW u \in Buyers, NEW k \in Keys, NEW t \in Terms, RepeatOrder(u, k, t) PROVE OInv'
  <2>1. PICK i \in Under(u, k) :
          /\ order[i].terms = t
          /\ answered' = answered \cup {[user |-> u, key |-> k, terms |-> t, id |-> i]}
          /\ UNCHANGED <<onSale, order, notice, call>>
    BY <1>2 DEF RepeatOrder
  <2>2. i \in Placed /\ order[i].buyer = u /\ order[i].key = k
    BY DEF Under
  <2>3. AnswersNameOrders'
    BY <1>0, <2>1, <2>2 DEF AnswersNameOrders, Placed
  <2> QED BY <1>0, <2>1, <2>3 DEF OInv, OrderTypes, KeyIsUnique, NumberedInTurn, Placed,
                                  NoticesNameOrders, MoveIsAllowed
<1>3. ASSUME NEW c \in Calls, NEW u \in Buyers, NEW k \in Keys, NEW t \in Terms,
             BeginCreateOrder(c, u, k, t)
      PROVE  OInv'
  <2> DEFINE new == [op |-> "createOrder", user |-> u, key |-> k, terms |-> t]
  <2>1. new \in Call /\ new.op = "createOrder"
    BY DEF Call
  <2> HIDE DEF new
  <2>2. call' = [call EXCEPT ![c] = new] /\ UNCHANGED <<onSale, order, notice, answered>>
    BY <1>3 DEF BeginCreateOrder, new
  <2>3. OrderTypes' /\ \A d \in Calls : MoveIsAllowed(d)'
    BY <1>0, <2>1, <2>2 DEF OrderTypes, MoveIsAllowed, Placed
  <2> QED BY <1>0, <2>2, <2>3 DEF OInv, KeyIsUnique, NumberedInTurn, Placed,
                                  AnswersNameOrders, NoticesNameOrders
<1>4. ASSUME NEW c \in Calls, createOrder(c) PROVE OInv'
  <2> DEFINE i   == Cardinality(Placed) + 1
             q   == call[c]
             new == [status |-> "pending", version |-> 0, buyer |-> q.user,
                     key |-> q.key, terms |-> q.terms]
  <2>1. /\ i \in Orders /\ i \notin Placed /\ new \in Row /\ order' = [order EXCEPT ![i] = new]
        /\ Placed' = Placed \cup {i} /\ Placed' = 1..i
    BY <1>4, CreateStep
  <2>2. /\ answered' = answered \cup {[user |-> q.user, key |-> q.key, terms |-> q.terms, id |-> i]}
        /\ call' = [call EXCEPT ![c] = Quiet]
        /\ Under(q.user, q.key) = {}
    BY <1>4 DEF createOrder, InsertOrder, Close
  <2>3. \E n \in notice' : /\ notice' = notice \cup {n} /\ n.id = i /\ n.version = 0
    <3>1. Tell(i, 0, Seller, q.user, "MALL_ORDER_CREATED")
      BY <1>4 DEF createOrder
    <3> HIDE DEF i, q
    <3> QED BY <3>1, Told
  <2>4. new.status = "pending" /\ new.buyer = q.user /\ new.key = q.key /\ new.terms = q.terms
    OBVIOUS
  <2> HIDE DEF i, new
  <2>5. order'[i] = new /\ \A j \in Placed : j # i /\ order'[j] = order[j]
    BY <1>0, <2>1 DEF OrderTypes, Placed
  <2>6. OrderTypes'
    BY <1>0, <2>1, <2>2 DEF OrderTypes
  <2>7. KeyIsUnique'
    BY <1>0, <2>1, <2>2, <2>4, <2>5 DEF KeyIsUnique, Under, Placed
  <2>8. NumberedInTurn'
    BY <2>1, OrdersAssumption DEF NumberedInTurn, Orders
  <2>9. AnswersNameOrders'
    BY <1>0, <2>1, <2>2, <2>4, <2>5 DEF AnswersNameOrders
  <2>10. NoticesNameOrders'
    BY <1>0, <2>1, <2>3, <2>5 DEF NoticesNameOrders
  <2>11. ASSUME NEW d \in Calls PROVE MoveIsAllowed(d)'
    BY <1>0, <2>1, <2>2, <2>5 DEF MoveIsAllowed, OrderTypes, Quiet
  <2> QED BY <2>6, <2>7, <2>8, <2>9, <2>10, <2>11 DEF OInv
<1>5. ASSUME NEW c \in Calls, NEW u \in Party, NEW i \in Orders,
             NEW status \in {"completed", "cancelled"}, BeginUpdateOrderStatus(c, u, i, status)
      PROVE  OInv'
  <2> DEFINE new == [op |-> "updateOrderStatus", user |-> u, id |-> i, status |-> status,
                     row |-> order[i]]
  <2>1. /\ i \in Placed /\ u \in {order[i].buyer, Seller} /\ (status = "completed" => u = Seller)
        /\ call' = [call EXCEPT ![c] = new]
        /\ UNCHANGED <<onSale, order, notice, answered>>
    BY <1>5 DEF BeginUpdateOrderStatus
  <2>2. /\ new \in Call /\ new.id = i /\ new.row = order[i] /\ new.user = u /\ new.status = status
    BY <1>0, <2>1, PlacedRow DEF Call
  <2> HIDE DEF new
  <2>3. OrderTypes'
    BY <1>0, <2>1, <2>2 DEF OrderTypes
  <2>4. ASSUME NEW d \in Calls PROVE MoveIsAllowed(d)'
    BY <1>0, <2>1, <2>2 DEF MoveIsAllowed, OrderTypes, Placed
  <2> QED BY <1>0, <2>1, <2>3, <2>4 DEF OInv, KeyIsUnique, NumberedInTurn, Placed,
                                        AnswersNameOrders, NoticesNameOrders
<1>6. ASSUME NEW c \in Calls, updateOrderStatus(c) PROVE OInv'
  <2> DEFINE q == call[c]
  <2>1. /\ q.id \in Placed /\ q.status \in {"completed", "cancelled"}
        /\ order' \in [Orders -> Row \cup {NoOrder}] /\ Placed' = Placed
        /\ \A i \in Orders : i # q.id => order'[i] = order[i]
        /\ order'[q.id].status = q.status
    BY <1>6, MoveStep
  <2>2. \A i \in Placed : /\ order'[i].buyer = order[i].buyer /\ order'[i].key = order[i].key
                          /\ order'[i].terms = order[i].terms
                          /\ order[i].status # "pending" => order'[i].status # "pending"
    BY <1>6, <2>1, MoveStep DEF Placed
  <2>3. call' = [call EXCEPT ![c] = Quiet] /\ UNCHANGED answered
    BY <1>6 DEF updateOrderStatus, Close
  <2>4. \E n \in notice' : notice' = notice \cup {n} /\ n.id = q.id
    <3>1. PICK to, type : Tell(q.id, 1, to, q.user, type)
      BY <1>6 DEF updateOrderStatus
    <3> HIDE DEF q
    <3> QED BY <3>1, Told
  <2>5. OrderTypes' /\ NumberedInTurn'
    BY <1>0, <2>1, <2>3 DEF OrderTypes, NumberedInTurn
  <2>6. KeyIsUnique'
    BY <1>0, <2>1, <2>2 DEF KeyIsUnique, Placed
  <2>7. AnswersNameOrders' /\ NoticesNameOrders'
    BY <1>0, <2>1, <2>2, <2>3, <2>4 DEF AnswersNameOrders, NoticesNameOrders
  <2>8. ASSUME NEW d \in Calls PROVE MoveIsAllowed(d)'
    BY <1>0, <2>1, <2>2, <2>3 DEF MoveIsAllowed, OrderTypes, Quiet
  <2> QED BY <2>5, <2>6, <2>7, <2>8 DEF OInv
<1>7. ASSUME NEW c \in Calls, Refuse(c) PROVE OInv'
  <2>1. call' = [call EXCEPT ![c] = Quiet] /\ UNCHANGED <<onSale, order, notice, answered>>
    BY <1>7 DEF Refuse, Close
  <2>2. OrderTypes' /\ \A d \in Calls : MoveIsAllowed(d)'
    BY <1>0, <2>1 DEF OrderTypes, MoveIsAllowed, Placed, Quiet
  <2> QED BY <1>0, <2>1, <2>2 DEF OInv, KeyIsUnique, NumberedInTurn, Placed,
                                  AnswersNameOrders, NoticesNameOrders
<1>8. CASE UNCHANGED orderVars
  BY <1>0, <1>8 DEF orderVars, OInv, OrderTypes, KeyIsUnique, NumberedInTurn, Placed,
                    AnswersNameOrders, NoticesNameOrders, MoveIsAllowed
<1> QED BY <1>1, <1>2, <1>3, <1>4, <1>5, <1>6, <1>7, <1>8 DEF OrdersNext

\* What the parties were told has the form of a notice, and of an answer.
ToldTypes == onSale \in BOOLEAN /\ notice \subseteq Notice /\ answered \subseteq Answer

\* The parties to an order are its buyer and the seller.
LEMMA ToldNextOK == OInv /\ ToldTypes /\ [OrdersNext]_orderVars => ToldTypes'
<1> SUFFICES ASSUME OInv, ToldTypes, [OrdersNext]_orderVars PROVE ToldTypes'
  OBVIOUS
<1>1. ASSUME NEW u \in Buyers, NEW k \in Keys, NEW t \in Terms, RepeatOrder(u, k, t)
      PROVE  ToldTypes'
  <2>1. PICK i \in Under(u, k) :
          /\ answered' = answered \cup {[user |-> u, key |-> k, terms |-> t, id |-> i]}
          /\ UNCHANGED <<onSale, notice>>
    BY <1>1 DEF RepeatOrder
  <2>2. [user |-> u, key |-> k, terms |-> t, id |-> i] \in Answer
    BY DEF Answer, Under, Placed
  <2> QED BY <2>1, <2>2 DEF ToldTypes
<1>2. ASSUME NEW c \in Calls, createOrder(c) PROVE ToldTypes'
  <2> DEFINE i == Cardinality(Placed) + 1
             q == call[c]
  <2>1. /\ i \in Orders /\ q.op = "createOrder" /\ UNCHANGED onSale
        /\ Tell(i, 0, Seller, q.user, "MALL_ORDER_CREATED")
        /\ answered' = answered \cup {[user |-> q.user, key |-> q.key, terms |-> q.terms, id |-> i]}
    BY <1>2 DEF createOrder
  <2>2. q.user \in Buyers /\ q.key \in Keys /\ q.terms \in Terms
    BY <2>1 DEF OInv, OrderTypes, Call, Quiet
  <2>3. [user |-> q.user, key |-> q.key, terms |-> q.terms, id |-> i] \in Answer
    BY <2>1, <2>2 DEF Answer
  <2>4. [id |-> i, version |-> 0, to |-> Seller, from |-> q.user,
         type |-> "MALL_ORDER_CREATED"] \in Notice
    BY <2>1, <2>2 DEF Notice, Party
  <2> HIDE DEF i, q
  <2> QED BY <2>1, <2>3, <2>4 DEF Tell, ToldTypes
<1>3. ASSUME NEW c \in Calls, updateOrderStatus(c) PROVE ToldTypes'
  <2> DEFINE q    == call[c]
             to   == IF q.user = Seller THEN q.row.buyer ELSE Seller
             type == IF q.status = "cancelled" THEN "MALL_ORDER_CANCELLED"
                     ELSE "MALL_ORDER_STATUS_CHANGED"
  <2>1. /\ q.op = "updateOrderStatus" /\ UNCHANGED <<onSale, answered>>
        /\ Tell(q.id, 1, to, q.user, type)
    BY <1>3 DEF updateOrderStatus
  <2>2. q \in Call /\ q.op # "createOrder"
    BY <2>1 DEF OInv, OrderTypes, Quiet
  <2>3. q.id \in Orders /\ q.user \in Party /\ q.row \in Row
    BY <2>2 DEF Call
  <2>4. to \in Party
    BY <2>3 DEF Party, Row
  <2>5. type \in {"MALL_ORDER_CREATED", "MALL_ORDER_CANCELLED", "MALL_ORDER_STATUS_CHANGED"}
    OBVIOUS
  <2> HIDE DEF q, to, type
  <2>6. [id |-> q.id, version |-> 1, to |-> to, from |-> q.user, type |-> type] \in Notice
    BY <2>3, <2>4, <2>5 DEF Notice
  <2> QED BY <2>1, <2>6 DEF Tell, ToldTypes
<1>4. CASE SetVisibility
  BY <1>4 DEF SetVisibility, ToldTypes
<1>5. CASE UNCHANGED <<onSale, notice, answered>>
  BY <1>5 DEF ToldTypes
<1>6. \/ SetVisibility \/ UNCHANGED <<onSale, notice, answered>>
      \/ \E u \in Buyers, k \in Keys, t \in Terms : RepeatOrder(u, k, t)
      \/ \E c \in Calls : createOrder(c) \/ updateOrderStatus(c)
  BY DEF OrdersNext, orderVars, BeginCreateOrder, BeginUpdateOrderStatus, Refuse
<1> QED BY <1>1, <1>2, <1>3, <1>4, <1>5, <1>6

\* Types of the orders.
LEMMA OrdersReached == OrdersSpec => []OrdersTypeOK
<1>1. OrdersInit => ToldTypes
  BY DEF OrdersInit, ToldTypes
<1>2. OInv /\ ToldTypes => OrdersTypeOK
  BY DEF OInv, OrderTypes, ToldTypes, OrdersTypeOK
<1> QED BY OrdersInitOK, OrdersNextOK, ToldNextOK, <1>1, <1>2, PTL DEF OrdersSpec

\* One order under a key, and the one that was asked for, whatever is sent twice
\* (mall-order.service.ts:71-82, 104-128).
THEOREM RequestsHaveOneOrder == OrdersSpec => []OneOrderPerRequest
<1>1. OInv => OneOrderPerRequest
  BY DEF OInv, AnswersNameOrders, KeyIsUnique, Placed, OneOrderPerRequest
<1> QED BY OrdersInitOK, OrdersNextOK, <1>1, PTL DEF OrdersSpec

\* Every step of an order is its first, or its last, and the other party is told of it.
LEMMA StepIsTold ==
    ASSUME OInv, [OrdersNext]_orderVars, NEW i \in Orders, order'[i] # order[i]
    PROVE  /\ order[i] = NoOrder \/ order[i].status = "pending"
           /\ \E n \in notice' \ notice :
                /\ notice' = notice \cup {n}
                /\ n.id = i /\ {n.to, n.from} = {Seller, order'[i].buyer}
                /\ order'[i].status = "completed" => n.from = Seller
<1>1. ASSUME NEW c \in Calls, createOrder(c)
      PROVE  /\ order[i] = NoOrder
             /\ \E n \in notice' \ notice :
                  /\ notice' = notice \cup {n}
                  /\ n.id = i /\ {n.to, n.from} = {Seller, order'[i].buyer}
                  /\ order'[i].status # "completed"
  <2> DEFINE j   == Cardinality(Placed) + 1
             q   == call[c]
             new == [status |-> "pending", version |-> 0, buyer |-> q.user,
                     key |-> q.key, terms |-> q.terms]
  <2>1. j \in Orders /\ j \notin Placed /\ order[j] = NoOrder /\ order' = [order EXCEPT ![j] = new]
    BY <1>1, CreateStep
  <2>2. new.status = "pending" /\ new.buyer = q.user
    OBVIOUS
  <2>3. Tell(j, 0, Seller, q.user, "MALL_ORDER_CREATED")
    BY <1>1 DEF createOrder
  <2> HIDE DEF j, new, q
  <2>4. i = j /\ order'[i] = new
    BY <2>1 DEF OInv, OrderTypes
  <2>5. PICK n \in notice' : /\ notice' = notice \cup {n} /\ n.id = j
                             /\ n.to = Seller /\ n.from = q.user
    BY <2>3, Told
  <2>6. n \notin notice
    BY <2>1, <2>5 DEF OInv, NoticesNameOrders
  <2> QED BY <2>1, <2>2, <2>4, <2>5, <2>6
<1>2. ASSUME NEW c \in Calls, updateOrderStatus(c)
      PROVE  /\ order[i].status = "pending"
             /\ \E n \in notice' \ notice :
                  /\ notice' = notice \cup {n}
                  /\ n.id = i /\ {n.to, n.from} = {Seller, order'[i].buyer}
                  /\ order'[i].status = "completed" => n.from = Seller
  <2> DEFINE q  == call[c]
             to == IF q.user = Seller THEN q.row.buyer ELSE Seller
  <2>1. /\ order[q.id].status = "pending" /\ MoveIsAllowed(c) /\ q.id \in Placed
        /\ \A k \in Orders : k # q.id => order'[k] = order[k]
        /\ order'[q.id].status = q.status /\ order'[q.id].buyer = order[q.id].buyer
    BY <1>2, MoveStep
  <2>2. i = q.id
    BY <2>1
  <2>3. PICK type : Tell(q.id, 1, to, q.user, type)
    BY <1>2 DEF updateOrderStatus
  <2>4. q.op = "updateOrderStatus"
    BY <1>2 DEF updateOrderStatus
  <2>5. /\ {to, q.user} = {Seller, order[q.id].buyer}
        /\ q.status = "completed" => q.user = Seller
    BY <2>1, <2>4 DEF MoveIsAllowed
  <2> HIDE DEF q, to
  <2>6. PICK n \in notice' : /\ notice' = notice \cup {n} /\ n.id = q.id /\ n.version = 1
                             /\ n.to = to /\ n.from = q.user
    BY <2>3, Told
  <2>7. n \notin notice
    BY <2>1, <2>6 DEF OInv, NoticesNameOrders
  <2> QED BY <2>1, <2>2, <2>5, <2>6, <2>7
<1>3. CASE UNCHANGED order
  BY <1>3
<1>4. \/ UNCHANGED order
      \/ \E c \in Calls : createOrder(c) \/ updateOrderStatus(c)
  BY DEF OrdersNext, orderVars, SetVisibility, RepeatOrder, BeginCreateOrder,
         BeginUpdateOrderStatus, Refuse
<1> QED BY <1>1, <1>2, <1>3, <1>4

\* Orders end once, and every step is told to the other party once
\* (mall-order.service.ts:185-228).
THEOREM OrdersEndOnce == OrdersSpec => OrdersEndOnceAndAreTold
<1> DEFINE Step == \A i \in Orders : order'[i] # order[i] =>
                     /\ order[i] = NoOrder \/ order[i].status = "pending"
                     /\ \E n \in notice' \ notice :
                          /\ notice' = notice \cup {n}
                          /\ n.id = i /\ {n.to, n.from} = {Seller, order'[i].buyer}
                          /\ order'[i].status = "completed" => n.from = Seller
<1>1. OInv /\ [OrdersNext]_orderVars => [Step]_orderVars
  BY StepIsTold
<1>2. OrdersEndOnceAndAreTold <=> [][Step]_orderVars
  BY DEF OrdersEndOnceAndAreTold
<1> HIDE DEF Step
<1> QED BY OrdersInitOK, OrdersNextOK, <1>1, <1>2, PTL DEF OrdersSpec

----------------------------------------------------------------------------
(* The categories of the mall. *)

\* The part of the types the argument needs.
CatalogTypes ==
    /\ category \in [Categories -> {"absent", "on", "off"}]
    /\ filed \subseteq Categories
    /\ desk \in [Desks -> Desk \cup {AtRest}]
    /\ calm \in BOOLEAN

\* What a desk was told about its category still holds.
CheckStands(d) ==
    desk[d] # AtRest =>
        /\ desk[d].op = "file" => Exists(desk[d].id)
        /\ desk[d].op = "delete" => desk[d].id \notin filed

\* No category is deleted at one desk and used at another.
Apart ==
    \A d, e \in Desks :
        /\ desk[d] # AtRest /\ desk[d].op = "file"
        /\ desk[e] # AtRest /\ desk[e].op = "delete"
        => desk[d].id # desk[e].id

KInv ==
    /\ CatalogTypes
    /\ calm => /\ \A k \in filed : Exists(k)
               /\ \A d \in Desks : CheckStands(d)
               /\ Apart

\* The market opens without categories.
LEMMA CatalogInitOK == CatalogInit => KInv
BY DEF CatalogInit, KInv, CatalogTypes, CheckStands, Apart

\* A desk that begins something else with the category than use or deletion, or begins one
\* of the two while nobody does the other, leaves all of it as it is.
LEMMA TakeKeeps ==
    ASSUME KInv, NEW d \in Desks, NEW op \in {"seed", "file", "update", "delete"},
           NEW k \in Categories, NEW enabled \in BOOLEAN, NEW todo \in SUBSET Defaults,
           Take(d, op, k, enabled, todo),
           op = "file" => Exists(k), op = "delete" => k \notin filed
    PROVE  KInv'
<1> DEFINE new == [op |-> op, id |-> k, enabled |-> enabled, todo |-> todo]
<1>1. /\ desk' = [desk EXCEPT ![d] = new]
      /\ calm' = (calm /\ \A other \in Desks :
                    desk[other] # AtRest /\ desk[other].id = k =>
                      {op, desk[other].op} # {"file", "delete"})
      /\ UNCHANGED <<category, filed>>
  BY DEF Take
<1>2. new \in Desk /\ new.op = op /\ new.id = k
  BY DEF Desk
<1> HIDE DEF new
<1>3. CatalogTypes'
  BY <1>1, <1>2 DEF KInv, CatalogTypes
<1>4. \A e \in Desks : desk'[e] = IF e = d THEN new ELSE desk[e]
  BY <1>1 DEF KInv, CatalogTypes
<1>5. ASSUME calm' PROVE (\A j \in filed : Exists(j))' /\ \A e \in Desks : CheckStands(e)'
  <2>1. calm /\ (\A j \in filed : Exists(j)) /\ \A e \in Desks : CheckStands(e)
    BY <1>1, <1>5 DEF KInv
  <2>2. (\A j \in filed : Exists(j))'
    BY <1>1, <2>1 DEF Exists
  <2>3. ASSUME NEW e \in Desks PROVE CheckStands(e)'
    <3>1. CASE e = d
      BY <1>1, <1>2, <1>4, <3>1 DEF CheckStands, Exists
    <3>2. CASE e # d
      BY <1>1, <1>4, <2>1, <3>2 DEF CheckStands, Exists
    <3> QED BY <3>1, <3>2
  <2> QED BY <2>2, <2>3
<1>6. ASSUME calm' PROVE Apart'
  <2>1. /\ calm /\ Apart
        /\ \A other \in Desks : desk[other] # AtRest /\ desk[other].id = k =>
             ~(op = "file" /\ desk[other].op = "delete") /\ ~(op = "delete" /\ desk[other].op = "file")
    BY <1>1, <1>6 DEF KInv
  <2> QED BY <1>2, <1>4, <2>1 DEF Apart
<1> QED BY <1>3, <1>5, <1>6 DEF KInv

\* A desk that leaves takes its check along.
LEMMA DeskLeaves ==
    ASSUME KInv, NEW d \in Desks, Leave(d)
    PROVE  /\ desk' \in [Desks -> Desk \cup {AtRest}] /\ calm' = calm
           /\ desk'[d] = AtRest
           /\ \A e \in Desks : e # d => desk'[e] = desk[e]
           /\ calm => Apart'
<1>1. desk' = [desk EXCEPT ![d] = AtRest] /\ calm' = calm
  BY DEF Leave
<1>2. /\ desk' \in [Desks -> Desk \cup {AtRest}]
      /\ \A e \in Desks : desk'[e] = IF e = d THEN AtRest ELSE desk[e]
  BY <1>1 DEF KInv, CatalogTypes
<1>3. calm => Apart'
  BY <1>2 DEF KInv, Apart
<1> QED BY <1>1, <1>2, <1>3

\* One step per statement of the category service and of the items' checks.
LEMMA CatalogNextOK == KInv /\ [CatalogNext]_catalogVars => KInv'
<1> SUFFICES ASSUME KInv, [CatalogNext]_catalogVars PROVE KInv'
  OBVIOUS
<1>0. CatalogTypes
  BY DEF KInv
<1>1. ASSUME NEW k \in Categories, Refile(k) PROVE KInv'
  BY <1>1 DEF Refile, KInv, CatalogTypes, CheckStands, Apart, Exists
<1>2. ASSUME NEW k \in Categories, NEW enabled \in BOOLEAN, createCategory(k, enabled) PROVE KInv'
  BY <1>2 DEF createCategory, State, KInv, CatalogTypes, CheckStands, Apart, Exists
<1>3. ASSUME NEW d \in Desks, BeginDefaults(d) PROVE KInv'
  <2>1. PICK k \in Defaults : Take(d, "seed", k, TRUE, Defaults)
    BY <1>3 DEF BeginDefaults
  <2> QED BY <2>1, TakeKeeps, CatalogAssumption
<1>4. ASSUME NEW d \in Desks, ensureDefaultCategories(d) PROVE KInv'
  <2>1. PICK k \in desk[d].todo :
          /\ category' = [category EXCEPT ![k] = "on"]
          /\ desk' = [desk EXCEPT ![d] = IF desk[d].todo = {k} THEN AtRest
                                         ELSE [desk[d] EXCEPT !.todo = @ \ {k}]]
    BY <1>4 DEF ensureDefaultCategories
  <2> DEFINE left == [desk[d] EXCEPT !.todo = @ \ {k}]
             next == IF desk[d].todo = {k} THEN AtRest ELSE left
  <2>2. desk[d] \in Desk /\ desk[d].op = "seed" /\ k \in Categories
    BY <1>0, <1>4, <2>1, CatalogAssumption DEF ensureDefaultCategories, CatalogTypes, Desk
  <2>3. left \in Desk /\ left.op = "seed"
    BY <2>2 DEF Desk
  <2> HIDE DEF left
  <2>4. next \in Desk \cup {AtRest} /\ (next = AtRest \/ next.op = "seed")
    BY <2>3
  <2>5. desk' = [desk EXCEPT ![d] = next] /\ UNCHANGED <<filed, calm>>
    BY <1>4, <2>1 DEF left, ensureDefaultCategories
  <2> HIDE DEF next
  <2>6. CatalogTypes'
    BY <1>0, <2>1, <2>2, <2>4, <2>5 DEF CatalogTypes
  <2>7. \A e \in Desks : desk'[e] = IF e = d THEN next ELSE desk[e]
    BY <1>0, <2>5 DEF CatalogTypes
  <2>8. \A j \in Categories : Exists(j) => Exists(j)'
    BY <1>0, <2>1, <2>2 DEF CatalogTypes, Exists
  <2>9. \A e \in Desks : desk[e] # AtRest => desk[e].id \in Categories
    BY <1>0 DEF CatalogTypes, Desk
  <2>10. calm => \A j \in filed' : Exists(j)'
    BY <1>0, <2>5, <2>8 DEF KInv, CatalogTypes
  <2>11. calm => (\A e \in Desks : CheckStands(e)') /\ Apart'
    BY <2>4, <2>5, <2>7, <2>8, <2>9 DEF KInv, CheckStands, Apart
  <2> QED BY <2>5, <2>6, <2>10, <2>11 DEF KInv
<1>5. ASSUME NEW d \in Desks, updateCategory(d) PROVE KInv'
  <2>1. /\ category' = [category EXCEPT ![desk[d].id] =
                          IF Exists(desk[d].id) THEN State(desk[d].enabled) ELSE @]
        /\ Leave(d) /\ UNCHANGED filed
    BY <1>5 DEF updateCategory
  <2>2. category' \in [Categories -> {"absent", "on", "off"}]
    BY <1>0, <2>1 DEF CatalogTypes, State
  <2>3. \A j \in Categories : Exists(j) => Exists(j)'
    BY <1>0, <2>1 DEF CatalogTypes, Exists, State
  <2>4. \A e \in Desks : desk[e] # AtRest => desk[e].id \in Categories
    BY <1>0 DEF CatalogTypes, Desk
  <2> QED BY <2>1, <2>2, <2>3, <2>4, DeskLeaves DEF KInv, CatalogTypes, CheckStands
<1>6. ASSUME NEW d \in Desks, deleteCategory(d) PROVE KInv'
  <2>1. /\ desk[d] # AtRest /\ desk[d].op = "delete"
        /\ category' = [category EXCEPT ![desk[d].id] = "absent"]
        /\ Leave(d) /\ UNCHANGED filed
    BY <1>6 DEF deleteCategory
  <2>2. category' \in [Categories -> {"absent", "on", "off"}]
    BY <1>0, <2>1 DEF CatalogTypes
  <2>3. \A j \in Categories : j # desk[d].id /\ Exists(j) => Exists(j)'
    BY <1>0, <2>1 DEF CatalogTypes, Exists
  <2>4. \A e \in Desks : desk[e] # AtRest => desk[e].id \in Categories
    BY <1>0 DEF CatalogTypes, Desk
  <2>5. calm => \A j \in filed' : Exists(j)'
    BY <1>0, <2>1, <2>3 DEF KInv, CheckStands, CatalogTypes
  <2>6. calm => \A e \in Desks : CheckStands(e)'
    BY <2>1, <2>3, <2>4, DeskLeaves DEF KInv, CheckStands, Apart
  <2> QED BY <1>0, <2>1, <2>2, <2>5, <2>6, DeskLeaves DEF KInv, CatalogTypes
<1>7. ASSUME NEW d \in Desks, FileItem(d) PROVE KInv'
  <2>1. /\ desk[d] # AtRest /\ desk[d].op = "file"
        /\ filed' = filed \cup {desk[d].id} /\ Leave(d) /\ UNCHANGED category
    BY <1>7 DEF FileItem
  <2>2. desk[d].id \in Categories
    BY <1>0, <2>1 DEF CatalogTypes, Desk
  <2>3. calm => \A j \in filed' : Exists(j)'
    BY <2>1 DEF KInv, CheckStands, Exists
  <2>4. calm => \A e \in Desks : CheckStands(e)'
    BY <2>1, DeskLeaves, ZenonT(40) DEF KInv, CheckStands, Apart, Exists
  <2> QED BY <1>0, <2>1, <2>2, <2>3, <2>4, DeskLeaves DEF KInv, CatalogTypes
<1>8. ASSUME NEW d \in Desks, GiveUp(d) PROVE KInv'
  <2>1. Leave(d) /\ UNCHANGED <<category, filed>>
    BY <1>8 DEF GiveUp
  <2> QED BY <1>0, <2>1, DeskLeaves DEF KInv, CatalogTypes, CheckStands, Exists
<1>9. ASSUME NEW d \in Desks, NEW k \in Categories,
             BeginUpdateCategory(d, k) \/ BeginDeleteCategory(d, k) \/ assertEnabledCategoryId(d, k)
      PROVE  KInv'
  <2>1. CASE BeginUpdateCategory(d, k)
    BY <2>1, TakeKeeps DEF BeginUpdateCategory
  <2>2. CASE BeginDeleteCategory(d, k)
    <3> DEFINE op == "delete"
    <3>1. Take(d, op, k, TRUE, {}) /\ k \notin filed
      BY <2>2 DEF BeginDeleteCategory, Unused
    <3>2. /\ op \in {"seed", "file", "update", "delete"}
          /\ (op = "file" => Exists(k)) /\ (op = "delete" => k \notin filed)
      BY <3>1
    <3>3. TRUE \in BOOLEAN /\ {} \in SUBSET Defaults
      OBVIOUS
    <3> HIDE DEF op
    <3> QED BY <3>1, <3>2, <3>3, TakeKeeps, Zenon
  <2>3. CASE assertEnabledCategoryId(d, k)
    <3> DEFINE op == "file"
    <3>1. Take(d, op, k, TRUE, {}) /\ Exists(k)
      BY <2>3 DEF assertEnabledCategoryId, Exists
    <3>2. /\ op \in {"seed", "file", "update", "delete"}
          /\ (op = "file" => Exists(k)) /\ (op = "delete" => k \notin filed)
      BY <3>1
    <3>3. TRUE \in BOOLEAN /\ {} \in SUBSET Defaults
      OBVIOUS
    <3> HIDE DEF op
    <3> QED BY <3>1, <3>2, <3>3, TakeKeeps, Zenon
  <2> QED BY <1>9, <2>1, <2>2, <2>3
<1>10. CASE UNCHANGED catalogVars
  BY <1>10 DEF catalogVars, KInv, CatalogTypes, CheckStands, Apart, Exists
<1> QED BY <1>1, <1>2, <1>3, <1>4, <1>5, <1>6, <1>7, <1>8, <1>9, <1>10 DEF CatalogNext

\* No item is left with a category that is gone, until a deletion overlaps a use
\* (mall-category.service.ts:116-128; mall-item.service.ts:146).
THEOREM CategoriesAreKept == CatalogSpec => []CategoryIsKept
<1>1. KInv => CategoryIsKept
  BY DEF KInv, CategoryIsKept
<1> QED BY CatalogInitOK, CatalogNextOK, <1>1, PTL DEF CatalogSpec

----------------------------------------------------------------------------
(* The parts together. *)

\* What a behaviour does to one part, that part may do by itself.
LEMMA PartsRun ==
    Spec => /\ ThreadSpec /\ LikesSpec /\ ProfileSpec
            /\ OrdersSpec /\ CatalogSpec /\ MemberSpec
<1>1. Init => /\ ThreadInit /\ LikesInit /\ ProfileInit
              /\ OrdersInit /\ CatalogInit /\ MemberInit
  BY DEF Init
<1> DEFINE PartSteps == /\ [ThreadNext]_threadVars /\ [LikesNext]_likeVars
                        /\ [ProfileNext]_profileVars /\ [OrdersNext]_orderVars
                        /\ [CatalogNext]_catalogVars /\ [MemberNext]_memberVars
<1>2. [Next]_<<part, threadVars, likeVars, profileVars, orderVars, catalogVars, memberVars>>
        => PartSteps
  BY DEF Next
<1> QED BY <1>1, <1>2, PTL DEF Spec, ThreadSpec, LikesSpec, ProfileSpec, OrdersSpec, CatalogSpec,
                               MemberSpec

\* Every part keeps its types, whatever runs in it.
THEOREM TypesAreKept == Spec => []TypeOK
<1>1. /\ ThreadInv => ThreadTypeOK
      /\ LInv => LikesTypeOK
      /\ LocksInv => ProfileTypeOK
      /\ KInv => CatalogTypeOK
  BY DEF ThreadInv, RowsInv, LInv, LocksInv, KInv, CatalogTypes, CatalogTypeOK
<1>2. ThreadTypeOK /\ LikesTypeOK /\ ProfileTypeOK /\ OrdersTypeOK /\ CatalogTypeOK /\ MemberTypeOK
        => TypeOK
  BY DEF TypeOK
<1>3. ThreadSpec => []ThreadInv
  BY ThreadInitOK, ThreadNextOK, PTL DEF ThreadSpec
<1>4. LikesSpec => []LInv
  BY LikesInitOK, LikesNextOK, PTL DEF LikesSpec
<1>5. ProfileSpec => []LocksInv
  BY LocksInitOK, LocksNextOK, PTL DEF ProfileSpec
<1>6. CatalogSpec => []KInv
  BY CatalogInitOK, CatalogNextOK, PTL DEF CatalogSpec
<1> QED BY <1>1, <1>2, <1>3, <1>4, <1>5, <1>6, OrdersReached, LoginsReached, PartsRun, PTL
=============================================================================
