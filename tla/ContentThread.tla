--------------------------- MODULE ContentThread ---------------------------
(***************************************************************************)
(* A content with its children: a forum post with nested replies           *)
(* (ForumService, kind "post") or a mall item with comments and answers    *)
(* (MallItemService, MallCommentService, kind "item"), the administrator's *)
(* operations on either (AdminService), and the pictures they own.         *)
(*                                                                         *)
(* A handler is two steps: Begin makes the checks and keeps what the       *)
(* handler read before its first write (the row read outside the           *)
(* transaction and the snapshot the transaction reads are taken together), *)
(* the action of the handler's name writes.  Writes are by id and act on   *)
(* the rows as they are then.                                              *)
(***************************************************************************)
EXTENDS Naturals, FiniteSets, MediaRows

CONSTANTS Users, Admin,    \* Admin: ADMIN_FORUM_AUTHOR_ID, and the uploader for the super administrator
          Nobody, Keep,    \* no author; a field the form leaves out
          Requests,
          MaxChildren      \* bound on replies or comments ever written

ASSUME ThreadAssumption == MaxChildren \in Nat /\ Nobody \notin Users

VARIABLES kind,       \* which of the two this is
          content,    \* the row of forum_posts or mall_items
          child,      \* the rows of forum_replies or mall_item_comments, gone ones included
          replyCount, \* forum_posts.replyCount
          asset,      \* media_assets
          told,       \* notifications about replies: who, and which reply
          tx,         \* handlers in flight
          apart       \* history: no two handlers have been in flight together

threadVars == <<kind, content, child, replyCount, asset, told, tx, apart>>

Children == 1..MaxChildren
Author   == Users \cup {Admin}
NoChild  == [there |-> FALSE, author |-> Nobody, parent |-> 0, images |-> {}]

Content == [state: {"ABSENT", "ONLINE", "OFFLINE", "DELETED"},
            author: Author \cup {Nobody}, images: SUBSET Urls]
Child   == [there: BOOLEAN, author: Users \cup {Nobody}, parent: 0..MaxChildren,
            images: SUBSET Urls]
Idle    == [op |-> "idle"]
Handler == [op: {"updatePost", "updateItem", "deletePost", "deleteItem", "publishReply",
                 "createItemComment", "deleteReply", "deleteItemComment",
                 "adminEdit", "adminDelete"},
            user: Author,
            id: 0..MaxChildren,                \* the parent answered, or the child deleted
            images: {Keep} \cup SUBSET Urls,   \* the pictures sent
            before: SUBSET Urls,               \* the content's pictures as read
            there: SUBSET Children]            \* the children as read

ThreadTypeOK ==
    /\ kind \in {"post", "item"}
    /\ content \in Content
    /\ child \in [Children -> Child]
    /\ replyCount \in 0..MaxChildren
    /\ asset \in [Urls -> AssetState]
    /\ told \subseteq Users \X Children
    /\ tx \in [Requests -> Handler \cup {Idle}]
    /\ apart \in BOOLEAN

ThreadInit ==
    /\ kind \in {"post", "item"}
    /\ content = [state |-> "ABSENT", author |-> Nobody, images |-> {}]
    /\ child = [i \in Children |-> NoChild]
    /\ replyCount = 0
    /\ asset = [m \in Urls |-> "PENDING"]
    /\ told = {}
    /\ tx = [r \in Requests |-> Idle]
    /\ apart = TRUE

Live       == content.state \in {"ONLINE", "OFFLINE"}
There      == {i \in Children : child[i].there}
Written    == Cardinality({i \in Children : child[i].author # Nobody})
Used       == content.images \cup UNION {child[i].images : i \in There}

\* A picture is uploaded for one place: nobody offers one that shows elsewhere.
Free(u)    == {m \in Urls : Owner[m] = u} \ Used

Begin(r, q) ==
    /\ tx[r] = Idle
    /\ tx' = [tx EXCEPT ![r] = q]
    /\ apart' = (apart /\ \A other \in Requests : tx[other] = Idle)
    /\ UNCHANGED <<kind, content, child, replyCount, asset, told>>

Handle(op, u) == [op |-> op, user |-> u, id |-> 0, images |-> Keep, before |-> {}, there |-> {}]

\* An edit has read the content's pictures, and checked those it attaches.
BeginEdit(r, op, u, images, attached) ==
    /\ MayAttach(asset, u, attached)
    /\ Begin(r, [Handle(op, u) EXCEPT !.images = images, !.before = content.images])

\* A deletion has read the pictures of the content, and its children.
BeginRemove(r, op, u) ==
    Begin(r, [Handle(op, u) EXCEPT !.before = content.images, !.there = There])

BeginAdd(r, op, u, parent, images) ==
    /\ MayAttach(asset, u, images)
    /\ Begin(r, [Handle(op, u) EXCEPT !.id = parent, !.images = images])

BeginDrop(r, op, u, id) ==
    /\ child[id].author = u
    /\ Begin(r, [Handle(op, u) EXCEPT !.id = id, !.there = There])

Finish(r) == tx' = [tx EXCEPT ![r] = Idle] /\ UNCHANGED <<kind, apart>>

----------------------------------------------------------------------------
(* The content: publication, edits, visibility. *)

Publish(author, uploader, images) ==
    /\ content.state = "ABSENT"
    /\ MayAttach(asset, uploader, images)
    /\ content' = [state |-> "ONLINE", author |-> author, images |-> images]
    /\ asset' = Attach(asset, images)
    /\ UNCHANGED <<kind, child, replyCount, told, tx, apart>>

\* Nothing else can touch a content that is not there yet: one step.
publishPost(u) == kind = "post" /\ \E images \in SUBSET Free(u) : Publish(u, u, images)
publishItem(u) == kind = "item" /\ \E images \in SUBSET Free(u) : Publish(u, u, images)

\* The administrator's posts are his own, his items those of a user he names.
adminCreate ==
    \E images \in SUBSET Free(Admin) :
        IF kind = "post" THEN Publish(Admin, Admin, images)
        ELSE \E u \in Users : Publish(u, Admin, images)

\* attachUrls of the new pictures, then requestDeleteUrls of those that went.
SwapMedia(rows, before, after) == RequestDelete(Attach(rows, after), before \ after)

Form(u)      == {Keep} \cup SUBSET (Free(u) \cup content.images)
Sent(images) == IF images = Keep THEN content.images ELSE images

BeginUpdatePost(r, u) ==
    /\ kind = "post" /\ content.state = "ONLINE" /\ content.author = u
    /\ \E images \in Form(u) : BeginEdit(r, "updatePost", u, images, Sent(images))

\* Pictures the form leaves out are written back as they were read.
updatePost(r) ==
    LET q     == tx[r]
        after == IF q.images = Keep THEN q.before ELSE q.images
    IN  /\ q.op = "updatePost"
        /\ content' = [content EXCEPT !.images = after]
        /\ asset' = SwapMedia(asset, q.before, after)
        /\ Finish(r)
        /\ UNCHANGED <<child, replyCount, told>>

BeginUpdateItem(r, u) ==
    /\ kind = "item" /\ Live /\ content.author = u
    /\ \E images \in Form(u) : BeginEdit(r, "updateItem", u, images, {})

\* Here they are left alone, and the row is locked before the first plain read
\* of the transaction.
updateItem(r) ==
    LET q     == tx[r]
        after == Sent(q.images)
    IN  /\ q.op = "updateItem"
        /\ MayAttach(asset, q.user, after)
        /\ content' = [content EXCEPT !.images = after]
        /\ asset' = SwapMedia(asset, q.before, after)
        /\ Finish(r)
        /\ UNCHANGED <<child, replyCount, told>>

BeginAdminEdit(r) ==
    Live /\ \E images \in Form(Admin) : BeginEdit(r, "adminEdit", Admin, images, Sent(images))

\* updateContentFields: pictures left out stay, but those of a post are attached
\* (and refused, if another uploaded them) as they were read.
adminEdit(r) ==
    LET q     == tx[r]
        after == Sent(q.images)
        next  == IF q.images = Keep /\ kind = "post" THEN q.before ELSE after
    IN  /\ q.op = "adminEdit"
        /\ \A m \in next : Owner[m] = Admin
        /\ content' = [content EXCEPT !.images = after]
        /\ asset' = SwapMedia(asset, q.before, next)
        /\ Finish(r)
        /\ UNCHANGED <<child, replyCount, told>>

\* One write by id; on a row that was deleted meanwhile it changes nothing visible.
Show(state) ==
    /\ Live
    /\ content' = [content EXCEPT !.state = state]
    /\ UNCHANGED <<kind, child, replyCount, asset, told, tx, apart>>

setItemVisibility(u) ==
    kind = "item" /\ content.author = u /\ \E state \in {"ONLINE", "OFFLINE"} : Show(state)

updateContentState      == \E state \in {"ONLINE", "OFFLINE"} : Show(state)
batchUpdateContentState == \E state \in {"ONLINE", "OFFLINE"} : Show(state)

----------------------------------------------------------------------------
(* Deletion: the row stays, its pictures and those of the children go. *)

SlipRemove(r) ==
    /\ content' = [content EXCEPT !.state = "DELETED"]
    /\ asset' = RequestDelete(asset, tx[r].before)
    /\ Finish(r)
    /\ UNCHANGED <<child, replyCount, told>>

Remove(r) ==
    /\ content' = [content EXCEPT !.state = "DELETED"]
    /\ asset' = RequestDelete(asset, tx[r].before \cup UNION {child[i].images : i \in tx[r].there})
    /\ Finish(r)
    /\ UNCHANGED <<child, replyCount, told>>

BeginDeletePost(r, u) ==
    /\ kind = "post" /\ content.state = "ONLINE" /\ content.author = u
    /\ BeginRemove(r, "deletePost", u)

BeginDeleteItem(r, u) ==
    /\ kind = "item" /\ Live /\ content.author = u
    /\ BeginRemove(r, "deleteItem", u)

BeginAdminDelete(r) == Live /\ BeginRemove(r, "adminDelete", Admin)

deletePost(r)  == tx[r].op = "deletePost" /\ Remove(r)
deleteItem(r)  == tx[r].op = "deleteItem" /\ Remove(r)
adminDelete(r) == tx[r].op = "adminDelete" /\ Remove(r)

----------------------------------------------------------------------------
(* Replies and comments. *)

\* The insert: the parent is a foreign key, checked on the table as it is.
AddChild(q) ==
    /\ q.id # 0 => child[q.id].there
    /\ child' = [child EXCEPT ![Written + 1] = [there |-> TRUE, author |-> q.user,
                                                parent |-> q.id, images |-> q.images]]
    /\ asset' = Attach(asset, q.images)

BeginPublishReply(r, u) ==
    /\ kind = "post" /\ content.state = "ONLINE"
    /\ \E parent \in There \cup {0}, images \in SUBSET Free(u) :
         BeginAdd(r, "publishReply", u, parent, images)

\* The author of what is answered is told, unless he is the writer or no user.
publishReply(r) ==
    LET q  == tx[r]
        to == IF q.id = 0 THEN content.author ELSE child[q.id].author
    IN  /\ q.op = "publishReply" /\ Written < MaxChildren
        /\ AddChild(q)
        /\ replyCount' = replyCount + 1
        /\ told' = IF to \in {Admin, q.user} THEN told ELSE told \cup {<<to, Written + 1>>}
        /\ Finish(r)
        /\ UNCHANGED content

BeginCreateItemComment(r, u) ==
    /\ kind = "item" /\ content.state = "ONLINE"
    /\ \E parent \in {i \in There : child[i].parent = 0} \cup {0}, images \in SUBSET Free(u) :
         BeginAdd(r, "createItemComment", u, parent, images)

createItemComment(r) ==
    /\ tx[r].op = "createItemComment" /\ Written < MaxChildren
    /\ AddChild(tx[r])
    /\ Finish(r)
    /\ UNCHANGED <<content, replyCount, told>>

\* A row goes with everything below it (ON DELETE CASCADE).
Below(id) ==
    {i \in There : \A rows \in SUBSET Children :
        id \in rows /\ (\A j \in Children : child[j].parent \in rows => j \in rows) => i \in rows}

DropChild(id) ==
    /\ child[id].there
    /\ child' = [i \in Children |-> IF i \in Below(id) THEN [child[i] EXCEPT !.there = FALSE]
                                    ELSE child[i]]

BeginDeleteReply(r, u) ==
    \E i \in There : kind = "post" /\ BeginDrop(r, "deleteReply", u, i)

\* The count is made on the snapshot, without the rows this transaction removed.
deleteReply(r) ==
    LET q    == tx[r]
        left == q.there \ Below(q.id)
    IN  /\ q.op = "deleteReply"
        /\ DropChild(q.id)
        /\ asset' = RequestDelete(asset, child[q.id].images)
        /\ replyCount' = Cardinality(left)
        /\ Finish(r)
        /\ UNCHANGED <<content, told>>

BeginDeleteItemComment(r, u) ==
    \E i \in There : kind = "item" /\ BeginDrop(r, "deleteItemComment", u, i)

deleteItemComment(r) ==
    LET q == tx[r] IN
    /\ q.op = "deleteItemComment"
    /\ DropChild(q.id)
    /\ asset' = RequestDelete(asset, child[q.id].images)
    /\ Finish(r)
    /\ UNCHANGED <<content, replyCount, told>>

\* A check threw, or a write met another row than the read promised.
Fail(r) ==
    /\ tx[r] # Idle
    /\ Finish(r)
    /\ UNCHANGED <<content, child, replyCount, asset, told>>

ThreadNext ==
    \/ \E u \in Users : publishPost(u) \/ publishItem(u) \/ setItemVisibility(u)
    \/ adminCreate \/ updateContentState \/ batchUpdateContentState
    \/ \E r \in Requests :
         \/ updatePost(r) \/ updateItem(r) \/ deletePost(r) \/ deleteItem(r)
         \/ publishReply(r) \/ createItemComment(r) \/ deleteReply(r) \/ deleteItemComment(r)
         \/ BeginAdminEdit(r) \/ adminEdit(r) \/ BeginAdminDelete(r) \/ adminDelete(r)
         \/ Fail(r)
         \/ \E u \in Users :
              \/ BeginUpdatePost(r, u) \/ BeginUpdateItem(r, u)
              \/ BeginDeletePost(r, u) \/ BeginDeleteItem(r, u)
              \/ BeginPublishReply(r, u) \/ BeginCreateItemComment(r, u)
              \/ BeginDeleteReply(r, u) \/ BeginDeleteItemComment(r, u)

ThreadSpec == ThreadInit /\ [][ThreadNext]_threadVars

----------------------------------------------------------------------------
(* Properties. *)

\* An answer never outlives what it answers, however a reply and the deletion of its
\* parent overlap (forum.service.ts:558, mall-comment.service.ts:160); and the counter
\* beside a post is the number of its replies, nested and cascaded ones included, until
\* two handlers overlap (forum.service.ts:365-369, 576-579).
RepliesAgree ==
    /\ \A i \in There : child[i].parent # 0 => child[child[i].parent].there
    /\ apart /\ kind = "post" => replyCount = Cardinality(There)

\* Until two handlers overlap, the pictures kept are those that show, in a content that
\* is not deleted or in one of its children: nothing that shows is given up, and what
\* shows nowhere any more is; only the pictures of answers that went with their parent
\* stay attached (forum.service.ts:291-300, 351-374, 477-498; mall-item.service.ts:252-290,
\* 325-338).
PicturesFollowRows ==
    apart =>
        /\ Live => \A m \in Used : asset[m] = "ATTACHED"
        /\ \A m \in Urls : asset[m] = "ATTACHED" =>
             \/ Live /\ m \in Used
             \/ \E i \in Children : ~child[i].there /\ child[i].parent # 0 /\ m \in child[i].images

\* Both: a content, its children, its counter and its pictures agree.
ThreadAgrees == RepliesAgree /\ PicturesFollowRows
=============================================================================
