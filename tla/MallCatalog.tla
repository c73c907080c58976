---------------------------- MODULE MallCatalog ----------------------------
(***************************************************************************)
(* The categories of the market and the items filed under them             *)
(* (MallCategoryService, and the check publishItem and updateItem make).   *)
(* An item names its category without a foreign key; every statement       *)
(* stands alone, so what was checked may have changed when it is used.     *)
(***************************************************************************)
EXTENDS Naturals, FiniteSets

CONSTANTS Categories, Defaults,   \* ids; those DEFAULT_MALL_CATEGORIES creates
          Desks                   \* requests in flight at once

ASSUME CatalogAssumption == Defaults \subseteq Categories

VARIABLES category,   \* mall_categories: whether the row is there and enabled
          filed,      \* categories some item names
          desk,       \* requests in flight: what is checked and left to do
          calm        \* history: no deletion of a category overlapped its use

catalogVars == <<category, filed, desk, calm>>

AtRest == [op |-> "none"]
Desk   == [op: {"seed", "file", "update", "delete"}, id: Categories, enabled: BOOLEAN,
           todo: SUBSET Defaults]

CatalogTypeOK ==
    /\ category \in [Categories -> {"absent", "on", "off"}]
    /\ filed \subseteq Categories
    /\ desk \in [Desks -> Desk \cup {AtRest}]
    /\ calm \in BOOLEAN

CatalogInit ==
    /\ category = [k \in Categories |-> "absent"]
    /\ filed = {}
    /\ desk = [d \in Desks |-> AtRest]
    /\ calm = TRUE

Exists(k)      == category[k] # "absent"
State(enabled) == IF enabled THEN "on" ELSE "off"

Take(d, op, k, enabled, todo) ==
    /\ desk[d] = AtRest
    /\ desk' = [desk EXCEPT ![d] = [op |-> op, id |-> k, enabled |-> enabled, todo |-> todo]]
    /\ calm' = (calm /\ \A other \in Desks :
                  desk[other] # AtRest /\ desk[other].id = k => {op, desk[other].op} # {"file", "delete"})
    /\ UNCHANGED <<category, filed>>

Leave(d) == desk' = [desk EXCEPT ![d] = AtRest] /\ UNCHANGED calm

\* The table is empty: the defaults are written one by one, over what is there by then.
\* Lists and checks start with this, and go on when it is done.
BeginDefaults(d) ==
    /\ \A k \in Categories : ~Exists(k)
    /\ \E k \in Defaults : Take(d, "seed", k, TRUE, Defaults)

ensureDefaultCategories(d) ==
    /\ desk[d] # AtRest /\ desk[d].op = "seed"
    /\ \E k \in desk[d].todo :
         /\ category' = [category EXCEPT ![k] = "on"]
         /\ desk' = [desk EXCEPT ![d] = IF desk[d].todo = {k} THEN AtRest
                                        ELSE [desk[d] EXCEPT !.todo = @ \ {k}]]
    /\ UNCHANGED <<filed, calm>>

createCategory(k, enabled) ==
    /\ k \notin Defaults /\ ~Exists(k) /\ k \notin filed    \* ids are never given twice
    /\ category' = [category EXCEPT ![k] = State(enabled)]
    /\ UNCHANGED <<filed, desk, calm>>

\* What the form leaves out is written back as it was read; UPDATE misses a row that is gone.
BeginUpdateCategory(d, k) ==
    /\ Exists(k)
    /\ \E enabled \in BOOLEAN : Take(d, "update", k, enabled, {})

updateCategory(d) ==
    LET q == desk[d] IN
    /\ q # AtRest /\ q.op = "update"
    /\ category' = [category EXCEPT ![q.id] = IF Exists(q.id) THEN State(q.enabled) ELSE @]
    /\ Leave(d)
    /\ UNCHANGED filed

SlipUnused(k) == TRUE

\* The items are counted, deleted ones included.
Unused(k) == k \notin filed

BeginDeleteCategory(d, k) ==
    /\ Exists(k) /\ Unused(k)
    /\ Take(d, "delete", k, TRUE, {})

deleteCategory(d) ==
    LET q == desk[d] IN
    /\ q # AtRest /\ q.op = "delete"
    /\ category' = [category EXCEPT ![q.id] = "absent"]
    /\ Leave(d)
    /\ UNCHANGED filed

\* publishItem and updateItem check the category before their transaction.
assertEnabledCategoryId(d, k) ==
    /\ category[k] = "on"
    /\ Take(d, "file", k, TRUE, {})

FileItem(d) ==
    LET q == desk[d] IN
    /\ q # AtRest /\ q.op = "file"
    /\ filed' = filed \cup {q.id}
    /\ Leave(d)
    /\ UNCHANGED category

\* The last item of a category moves to another one.
Refile(k) ==
    /\ k \in filed
    /\ filed' = filed \ {k}
    /\ UNCHANGED <<category, desk, calm>>

GiveUp(d) ==
    /\ desk[d] # AtRest
    /\ Leave(d)
    /\ UNCHANGED <<category, filed>>

CatalogNext ==
    \/ \E k \in Categories : Refile(k) \/ \E enabled \in BOOLEAN : createCategory(k, enabled)
    \/ \E d \in Desks :
         \/ BeginDefaults(d) \/ ensureDefaultCategories(d) \/ updateCategory(d)
         \/ deleteCategory(d) \/ FileItem(d) \/ GiveUp(d)
         \/ \E k \in Categories :
              BeginUpdateCategory(d, k) \/ BeginDeleteCategory(d, k) \/ assertEnabledCategoryId(d, k)

CatalogSpec == CatalogInit /\ [][CatalogNext]_catalogVars

----------------------------------------------------------------------------
\* A category with items stays, however it is disabled, renamed or asked to go, until a
\* deletion that has counted overlaps an item that has been let in
\* (mall-category.service.ts:116-128; mall-item.service.ts:146).
CategoryIsKept == calm => \A k \in filed : Exists(k)
=============================================================================
