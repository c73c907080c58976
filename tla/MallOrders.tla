----------------------------- MODULE MallOrders -----------------------------
(***************************************************************************)
(* Orders for one item of the market (MallOrderService): placed once per   *)
(* idempotency key however often the request is sent, then completed by    *)
(* the seller or cancelled by either party.                                *)
(*                                                                         *)
(* A transaction is two steps: its checks, on the snapshot of its first    *)
(* read, and its write.  An answer may be lost, and the buyer asks again.  *)
(***************************************************************************)
EXTENDS Naturals, FiniteSets

CONSTANTS Buyers, Seller,
          Keys,        \* clientRequestId
          Terms,       \* what is ordered: the item and the contact left
          MaxOrders,   \* bound on orders
          Calls        \* requests in flight at once

ASSUME OrdersAssumption == Seller \notin Buyers /\ MaxOrders \in Nat

VARIABLES onSale,    \* the item is there and ONLINE
          order,     \* mall_orders
          notice,    \* notifications: order, version, recipient, actor, type
          answered,  \* history: the orders clients were told they placed
          call       \* transactions in flight

orderVars == <<onSale, order, notice, answered, call>>

Orders  == 1..MaxOrders
NoOrder == [status |-> "none"]
Quiet   == [op |-> "idle"]
Party   == Buyers \cup {Seller}

Row    == [status: {"pending", "completed", "cancelled"}, version: {0, 1},
           buyer: Buyers, key: Keys, terms: Terms]
Call   == [op: {"createOrder"}, user: Buyers, key: Keys, terms: Terms]
            \cup [op: {"updateOrderStatus"}, user: Party, id: Orders,
                  status: {"completed", "cancelled"}, row: Row]
Notice == [id: Orders, version: {0, 1}, to: Party, from: Party,
           type: {"MALL_ORDER_CREATED", "MALL_ORDER_CANCELLED", "MALL_ORDER_STATUS_CHANGED"}]
Answer == [user: Buyers, key: Keys, terms: Terms, id: Orders]

\* The unique index on buyer and clientRequestId (prisma/schema.prisma:687).
KeyIsUnique ==
    \A i, j \in {n \in Orders : order[n] # NoOrder} :
        order[i].buyer = order[j].buyer /\ order[i].key = order[j].key => i = j

OrdersTypeOK ==
    /\ onSale \in BOOLEAN
    /\ order \in [Orders -> Row \cup {NoOrder}]
    /\ notice \subseteq Notice
    /\ answered \subseteq Answer
    /\ call \in [Calls -> Call \cup {Quiet}]
    /\ KeyIsUnique

OrdersInit ==
    /\ onSale = TRUE
    /\ order = [i \in Orders |-> NoOrder]
    /\ notice = {}
    /\ answered = {}
    /\ call = [c \in Calls |-> Quiet]

Placed     == {i \in Orders : order[i] # NoOrder}
Under(u, k) == {i \in Placed : order[i].buyer = u /\ order[i].key = k}
Close(c)   == call' = [call EXCEPT ![c] = Quiet]

\* The publisher or an administrator takes the item off sale, or puts it back.
SetVisibility ==
    /\ onSale' = ~onSale
    /\ UNCHANGED <<order, notice, answered, call>>

----------------------------------------------------------------------------
(* createOrder *)

\* The key was used before: the answer is the order it stands for, if that is the same order.
RepeatOrder(u, k, t) ==
    \E i \in Under(u, k) :
        /\ order[i].terms = t
        /\ answered' = answered \cup {[user |-> u, key |-> k, terms |-> t, id |-> i]}
        /\ UNCHANGED <<onSale, order, notice, call>>

BeginCreateOrder(c, u, k, t) ==
    /\ call[c] = Quiet
    /\ Under(u, k) = {}
    /\ onSale
    /\ call' = [call EXCEPT ![c] = [op |-> "createOrder", user |-> u, key |-> k, terms |-> t]]
    /\ UNCHANGED <<onSale, order, notice, answered>>

SlipInsertOrder(q) ==
    /\ order' = [order EXCEPT ![Cardinality(Placed) + 1] =
                   [status |-> "pending", version |-> 0, buyer |-> q.user, key |-> q.key,
                    terms |-> q.terms]]

\* The unique index on buyer and key is what the snapshot cannot see past.
InsertOrder(q) ==
    /\ Under(q.user, q.key) = {}
    /\ order' = [order EXCEPT ![Cardinality(Placed) + 1] =
                   [status |-> "pending", version |-> 0, buyer |-> q.user, key |-> q.key,
                    terms |-> q.terms]]

\* notify: a second notice under the same key (order, type, version, recipient) is dropped.
Tell(i, version, to, from, type) ==
    notice' = notice \cup {[id |-> i, version |-> version, to |-> to, from |-> from, type |-> type]}

createOrder(c) ==
    LET q == call[c]
        i == Cardinality(Placed) + 1
    IN  /\ q.op = "createOrder"
        /\ i \in Orders
        /\ InsertOrder(q)
        /\ Tell(i, 0, Seller, q.user, "MALL_ORDER_CREATED")
        /\ answered' = answered \cup {[user |-> q.user, key |-> q.key, terms |-> q.terms, id |-> i]}
        /\ Close(c)
        /\ UNCHANGED onSale

----------------------------------------------------------------------------
(* updateOrderStatus *)

BeginUpdateOrderStatus(c, u, i, status) ==
    /\ call[c] = Quiet
    /\ i \in Placed
    /\ u \in {order[i].buyer, Seller}
    /\ order[i].status = "pending"
    /\ status = "completed" => u = Seller
    /\ call' = [call EXCEPT ![c] = [op |-> "updateOrderStatus", user |-> u, id |-> i,
                                    status |-> status, row |-> order[i]]]
    /\ UNCHANGED <<onSale, order, notice, answered>>

SlipUnmoved(q) == TRUE

\* The conditions of the updateMany, on the row as it is.
Unmoved(q) == order[q.id].status = "pending" /\ order[q.id].version = q.row.version

updateOrderStatus(c) ==
    LET q == call[c]
        to == IF q.user = Seller THEN q.row.buyer ELSE Seller
    IN  /\ q.op = "updateOrderStatus"
        /\ Unmoved(q)
        /\ order' = [order EXCEPT ![q.id].status = q.status, ![q.id].version = 1]
        /\ Tell(q.id, 1, to, q.user, IF q.status = "cancelled" THEN "MALL_ORDER_CANCELLED"
                                     ELSE "MALL_ORDER_STATUS_CHANGED")
        /\ Close(c)
        /\ UNCHANGED <<onSale, answered>>

\* A check threw, the row moved, the key was taken meanwhile.
Refuse(c) ==
    /\ call[c] # Quiet
    /\ Close(c)
    /\ UNCHANGED <<onSale, order, notice, answered>>

OrdersNext ==
    \/ SetVisibility
    \/ \E u \in Buyers, k \in Keys, t \in Terms :
         RepeatOrder(u, k, t) \/ \E c \in Calls : BeginCreateOrder(c, u, k, t)
    \/ \E c \in Calls :
         \/ createOrder(c) \/ updateOrderStatus(c) \/ Refuse(c)
         \/ \E u \in Party, i \in Orders, status \in {"completed", "cancelled"} :
              BeginUpdateOrderStatus(c, u, i, status)

OrdersSpec == OrdersInit /\ [][OrdersNext]_orderVars

----------------------------------------------------------------------------
\* Whatever is sent twice, at once or after a lost answer, and with whatever terms: all
\* answers under one key name one order, and it is the order that was asked for
\* (mall-order.service.ts:71-82, 104-128).
OneOrderPerRequest ==
    \A a, b \in answered : a.user = b.user /\ a.key = b.key => a.id = b.id /\ a.terms = b.terms

\* A step of an order is told to the other party, once, and an order that has ended stays
\* as it is: completion and cancellation that overlap do not both succeed
\* (mall-order.service.ts:185-228).
OrdersEndOnceAndAreTold ==
    [][\A i \in Orders : order'[i] # order[i] =>
         /\ order[i] = NoOrder \/ order[i].status = "pending"
         /\ \E n \in notice' \ notice :
              /\ notice' = notice \cup {n}
              /\ n.id = i /\ {n.to, n.from} = {Seller, order'[i].buyer}
              /\ order'[i].status = "completed" => n.from = Seller]_orderVars
=============================================================================
