---------------------------- MODULE MCCommunity ----------------------------
(***************************************************************************)
(* The parts of the community that share no state, one run: a behaviour    *)
(* picks a part and goes through it, the others stay as they begin.  An    *)
(* interleaving of parts that share nothing would show nothing more.       *)
(***************************************************************************)
EXTENDS ContentThread, LikeCounter, ProfileSnapshots, MallOrders, MallCatalog, MemberLogin,
        TLC

CONSTANTS u1, m1, m2

VARIABLE part

Parts == {"threads", "likes", "profiles", "orders", "catalog", "logins"}

\* One picture of a user, one of the administrator.
Uploaders == m1 :> u1 @@ m2 :> Admin

\* Requests, Sessions, Calls, Desks and Devices have the same elements.
Alike == Permutations(Requests)

Init ==
    /\ part \in Parts
    /\ ThreadInit /\ (part # "threads" => kind = "post")
    /\ LikesInit /\ (part # "likes" => what = "postLike")
    /\ ProfileInit /\ OrdersInit /\ CatalogInit /\ MemberInit

Next ==
    \/ part = "threads" /\ ThreadNext
       /\ UNCHANGED <<part, likeVars, profileVars, orderVars, catalogVars, memberVars>>
    \/ part = "likes" /\ LikesNext
       /\ UNCHANGED <<part, threadVars, profileVars, orderVars, catalogVars, memberVars>>
    \/ part = "profiles" /\ ProfileNext
       /\ UNCHANGED <<part, threadVars, likeVars, orderVars, catalogVars, memberVars>>
    \/ part = "orders" /\ OrdersNext
       /\ UNCHANGED <<part, threadVars, likeVars, profileVars, catalogVars, memberVars>>
    \/ part = "catalog" /\ CatalogNext
       /\ UNCHANGED <<part, threadVars, likeVars, profileVars, orderVars, memberVars>>
    \/ part = "logins" /\ MemberNext
       /\ UNCHANGED <<part, threadVars, likeVars, profileVars, orderVars, catalogVars>>

Spec == Init /\ [][Next]_<<part, threadVars, likeVars, profileVars, orderVars, catalogVars, memberVars>>

\* The types of all parts.
TypeOK ==
    /\ part = "threads" => ThreadTypeOK
    /\ part = "likes" => LikesTypeOK
    /\ part = "profiles" => ProfileTypeOK
    /\ part = "orders" => OrdersTypeOK
    /\ part = "catalog" => CatalogTypeOK
    /\ part = "logins" => MemberTypeOK
=============================================================================
