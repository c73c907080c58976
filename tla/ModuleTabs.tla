----------------------------- MODULE ModuleTabs -----------------------------
(***************************************************************************)
(* The entries of the mini program (SettingsService): their rows are       *)
(* created by whoever asks first, one insert after the other and outside   *)
(* any transaction; what the mini program is given is kept in Redis under  *)
(* one key; the administrator switches an entry and deletes the key.       *)
(***************************************************************************)
EXTENDS Naturals

CONSTANTS LastTab,       \* the entries are 1..LastTab, and the last is always on
          Callers        \* requests in flight at once

ASSUME TabsAssumption == LastTab \in Nat \ {0}

VARIABLES tab,           \* the rows of app_setting_tabs
          keptTabs,      \* what Redis holds
          call,          \* requests in flight
          cutShort,      \* history: a request ended among its inserts
          halfway        \* history: a request found some of the rows and not all

tabsVars == <<tab, keptTabs, call, cutShort, halfway>>

Tabs     == 1..LastTab
Entries  == [Tabs -> {"none", "on", "off"}]
NoTabs   == [t \in Tabs |-> "none"]
NoCall   == [op |-> "none"]
Call     == [op: {"get", "list", "set"},
             at: {"lookup", "count", "create", "read", "store", "update", "announce"},
             next: 1..(LastTab + 1),              \* the insert that is next
             key: Tabs, enabled: {"on", "off"},   \* what the administrator sends
             value: Entries]

TabsTypeOK ==
    /\ tab \in Entries /\ keptTabs \in Entries
    /\ call \in [Callers -> Call \cup {NoCall}]
    /\ cutShort \in BOOLEAN /\ halfway \in BOOLEAN

TabsInit ==
    /\ tab = NoTabs /\ keptTabs = NoTabs
    /\ call = [c \in Callers |-> NoCall]
    /\ cutShort = FALSE /\ halfway = FALSE

ThereTabs(entries) == {t \in Tabs : entries[t] # "none"}

Enter(c, q) ==
    /\ call[c] = NoCall
    /\ call' = [call EXCEPT ![c] = q]
    /\ UNCHANGED <<tab, keptTabs, cutShort, halfway>>

NewCall(op, at) == [op |-> op, at |-> at, next |-> 1, key |-> 1, enabled |-> "on", value |-> NoTabs]

At(c, where) == call[c] # NoCall /\ call[c].at = where
GoTo(c, where) == call' = [call EXCEPT ![c].at = where]
Return(c) == call' = [call EXCEPT ![c] = NoCall]

----------------------------------------------------------------------------

getModuleEntryTabs(c)          == Enter(c, NewCall("get", "lookup"))
listModuleEntryTabsForAdmin(c) == Enter(c, NewCall("list", "count"))
setModuleTabEnabled(c, t, on)  ==
    Enter(c, [NewCall("set", "count") EXCEPT !.key = t, !.enabled = on])

TabsHit(c) ==
    /\ At(c, "lookup") /\ keptTabs # NoTabs
    /\ Return(c)
    /\ UNCHANGED <<tab, keptTabs, cutShort, halfway>>

\* Nothing there, or Redis does not answer.
TabsMiss(c) ==
    /\ At(c, "lookup")
    /\ GoTo(c, "count")
    /\ UNCHANGED <<tab, keptTabs, cutShort, halfway>>

(* ensureModuleTabsSeeded *)

CountTabs(c) ==
    /\ At(c, "count")
    /\ GoTo(c, IF ThereTabs(tab) = {} THEN "create" ELSE "read")
    /\ halfway' = (halfway \/ ThereTabs(tab) \notin {{}, Tabs})
    /\ UNCHANGED <<tab, keptTabs, cutShort>>

SlipAfterInsert(q) == "count"

AfterInsert(q) == IF q.next = LastTab THEN "read" ELSE "create"

\* The key is unique: whoever finds it taken fails, and his request with him.
InsertTab(c) ==
    /\ At(c, "create")
    /\ IF tab[call[c].next] = "none"
       THEN /\ tab' = [tab EXCEPT ![call[c].next] = "on"]
            /\ call' = [call EXCEPT ![c].at = AfterInsert(call[c]), ![c].next = @ + 1]
       ELSE /\ Return(c)
            /\ UNCHANGED tab
    /\ UNCHANGED <<keptTabs, cutShort, halfway>>

\* The process or the database fails.
Interrupted(c) ==
    /\ call[c] # NoCall
    /\ Return(c)
    /\ cutShort' = (cutShort \/ call[c].at = "create")
    /\ UNCHANGED <<tab, keptTabs, halfway>>

ReadTabs(c) ==
    /\ At(c, "read")
    /\ CASE call[c].op = "get"  -> call' = [call EXCEPT ![c].at = "store", ![c].value = tab]
         [] call[c].op = "list" -> Return(c)
         [] call[c].op = "set"  ->
              IF tab[call[c].key] = "none" \/ (call[c].key = LastTab /\ call[c].enabled = "off")
              THEN Return(c) ELSE GoTo(c, "update")
    /\ UNCHANGED <<tab, keptTabs, cutShort, halfway>>

StoreTabs(c) ==
    /\ At(c, "store")
    /\ keptTabs' \in {keptTabs, call[c].value}
    /\ Return(c)
    /\ UNCHANGED <<tab, cutShort, halfway>>

UpdateTab(c) ==
    /\ At(c, "update")
    /\ tab' = [tab EXCEPT ![call[c].key] = call[c].enabled]
    /\ GoTo(c, "announce")
    /\ UNCHANGED <<keptTabs, cutShort, halfway>>

\* The key is deleted if Redis answers; then the administrator is shown the list.
invalidateModuleEntryTabsCache(c) ==
    /\ At(c, "announce")
    /\ keptTabs' \in {keptTabs, NoTabs}
    /\ call' = [call EXCEPT ![c] = NewCall("list", "count")]
    /\ UNCHANGED <<tab, cutShort, halfway>>

\* SETTINGS_MODULE_TABS_TTL_SEC
TabsExpire ==
    /\ keptTabs # NoTabs
    /\ keptTabs' = NoTabs
    /\ UNCHANGED <<tab, call, cutShort, halfway>>

TabsNext ==
    \/ TabsExpire
    \/ \E c \in Callers :
         \/ getModuleEntryTabs(c) \/ listModuleEntryTabsForAdmin(c)
         \/ \E t \in Tabs, on \in {"on", "off"} : setModuleTabEnabled(c, t, on)
         \/ TabsHit(c) \/ TabsMiss(c) \/ CountTabs(c) \/ InsertTab(c) \/ Interrupted(c)
         \/ ReadTabs(c) \/ StoreTabs(c) \/ UpdateTab(c) \/ invalidateModuleEntryTabsCache(c)

TabsSpec == TabsInit /\ [][TabsNext]_tabsVars

----------------------------------------------------------------------------
\* However many requests find the table empty at once and create its rows, in the end all
\* the entries are there: only the first can insert the first row, and the others fail on
\* it.  This needs that nobody dies among the inserts, for the count that guards them never
\* lets anybody finish them; and a request that counts while they are made is given some of
\* the entries, and keeps them in Redis (settings.service.ts:15-19, 62-97).
TabsAreWhole ==
    ~cutShort =>
        /\ (\A c \in Callers : ~At(c, "create")) => ThereTabs(tab) \in {{}, Tabs}
        /\ ~halfway => ThereTabs(keptTabs) \in {{}, Tabs}
=============================================================================
