--------------------------- MODULE EndpointConfig ---------------------------
(***************************************************************************)
(* The settings of one endpoint as the access log sees them:               *)
(* ApiEndpointService keeps them in the process, shares a load between the *)
(* requests that need it, and is told to forget them when an administrator *)
(* has changed them.  Between two awaits the process does nothing else.    *)
(* The row is created by whoever finds it missing: the first request, or   *)
(* syncRegisteredApiEndpoints, which runs beside them after each start.    *)
(***************************************************************************)
EXTENDS Naturals

CONSTANTS Loads,         \* calls of loadConfig in flight at once
          Admins,        \* administrators' requests
          MaxSettings    \* bound on changes of the settings

ASSUME SettingsAssumption == MaxSettings \in Nat

VARIABLES settings,      \* the row of api_endpoints, as a count of changes; 0: as created; or Nothing
          told,          \* history: the change the process was last told of
          keyVersion,    \* keyVersions: how often it was told
          cached,        \* the cache
          inFlight,      \* the load requests may join
          load,          \* loads: keyVersion at the start, row read, least a waiting request is owed
          change,        \* the change each administrator's request has committed
          synced,        \* the endpoint was synchronised since the process started
          outdated       \* history: a request was answered with less than it was owed

configVars == <<settings, told, keyVersion, cached, inFlight, load, change, synced, outdated>>

Settings == 0..MaxSettings
Nothing  == MaxSettings + 1
NoLoad   == [at |-> "none"]
Load     == [at: {"read", "return"}, keyVersion: Settings, value: Settings \cup {Nothing},
             owed: Settings]

ASSUME LoadAssumption == NoLoad \notin Loads

ConfigTypeOK ==
    /\ settings \in Settings \cup {Nothing} /\ told \in Settings /\ keyVersion \in Settings
    /\ cached \in Settings \cup {Nothing}
    /\ inFlight \in Loads \cup {NoLoad}
    /\ load \in [Loads -> Load \cup {NoLoad}]
    /\ change \in [Admins -> Settings]
    /\ synced \in BOOLEAN /\ outdated \in BOOLEAN

ConfigInit ==
    /\ settings = Nothing /\ told = 0 /\ keyVersion = 0
    /\ cached = Nothing
    /\ inFlight = NoLoad
    /\ load = [l \in Loads |-> NoLoad]
    /\ change = [a \in Admins |-> 0]
    /\ synced = FALSE /\ outdated = FALSE

----------------------------------------------------------------------------
(* getConfig *)

CacheHit ==
    /\ cached # Nothing
    /\ outdated' = (outdated \/ cached < told)
    /\ UNCHANGED <<settings, told, keyVersion, cached, inFlight, load, change, synced>>

JoinLoad ==
    /\ cached = Nothing /\ inFlight # NoLoad
    /\ load' = [load EXCEPT ![inFlight].owed = told]
    /\ UNCHANGED <<settings, told, keyVersion, cached, inFlight, change, synced, outdated>>

StartLoad(l) ==
    /\ cached = Nothing /\ inFlight = NoLoad
    /\ load[l] = NoLoad
    /\ load' = [load EXCEPT ![l] = [at |-> "read", keyVersion |-> keyVersion, value |-> Nothing,
                                    owed |-> told]]
    /\ inFlight' = l
    /\ UNCHANGED <<settings, told, keyVersion, cached, change, synced, outdated>>

----------------------------------------------------------------------------
(* loadConfig *)

\* The row an upsert leaves: what an administrator has set stays.
Created(row) == IF row = Nothing THEN 0 ELSE row

\* The row, or the row this call has just created.
ReadRow(l) ==
    /\ load[l] # NoLoad /\ load[l].at = "read"
    /\ settings' = Created(settings)
    /\ load' = [load EXCEPT ![l].at = "return", ![l].value = settings']
    /\ UNCHANGED <<told, keyVersion, cached, inFlight, change, synced, outdated>>

\* The database does not answer: the requests that wait get a default, nothing is kept.
ReadFails(l) ==
    /\ load[l] # NoLoad /\ load[l].at = "read"
    /\ load' = [load EXCEPT ![l] = NoLoad]
    /\ inFlight' = IF inFlight = l THEN NoLoad ELSE inFlight
    /\ UNCHANGED <<settings, told, keyVersion, cached, change, synced, outdated>>

SlipStillCurrent(l) == TRUE

StillCurrent(l) == load[l].keyVersion = keyVersion

ReturnRow(l) ==
    /\ load[l] # NoLoad /\ load[l].at = "return"
    /\ cached' = IF StillCurrent(l) THEN load[l].value ELSE cached
    /\ inFlight' = IF inFlight = l THEN NoLoad ELSE inFlight
    /\ outdated' = (outdated \/ load[l].value < load[l].owed)
    /\ load' = [load EXCEPT ![l] = NoLoad]
    /\ UNCHANGED <<settings, told, keyVersion, change, synced>>

\* CACHE_TTL_MS
Expires ==
    /\ cached # Nothing
    /\ cached' = Nothing
    /\ UNCHANGED <<settings, told, keyVersion, inFlight, load, change, synced, outdated>>

----------------------------------------------------------------------------
(* The administrator: updateEndpoint commits, then the route calls invalidate. *)

updateEndpoint(a) ==
    /\ change[a] = 0 /\ settings < MaxSettings        \* and the row is there
    /\ settings' = settings + 1
    /\ change' = [change EXCEPT ![a] = settings + 1]
    /\ UNCHANGED <<told, keyVersion, cached, inFlight, load, synced, outdated>>

Forget == cached' = Nothing /\ inFlight' = NoLoad

invalidate(a) ==
    /\ change[a] # 0
    /\ keyVersion' = keyVersion + 1
    /\ Forget
    /\ told' = IF told < change[a] THEN change[a] ELSE told
    /\ change' = [change EXCEPT ![a] = 0]
    /\ UNCHANGED <<settings, load, synced, outdated>>

----------------------------------------------------------------------------
(* The process. *)

syncRegisteredApiEndpoints ==
    /\ ~synced /\ synced' = TRUE
    /\ settings' = Created(settings)
    /\ UNCHANGED <<told, keyVersion, cached, inFlight, load, change, outdated>>

\* Its memory goes, and the requests it had in hand; what was committed it can only find
\* in the table.
Restart ==
    /\ keyVersion' = 0 /\ Forget
    /\ told' = Created(settings)
    /\ load' = [l \in Loads |-> NoLoad]
    /\ change' = [a \in Admins |-> 0]
    /\ synced' = FALSE
    /\ UNCHANGED <<settings, outdated>>

ConfigNext ==
    \/ syncRegisteredApiEndpoints \/ Restart
    \/ CacheHit \/ JoinLoad \/ Expires
    \/ \E l \in Loads : StartLoad(l) \/ ReadRow(l) \/ ReadFails(l) \/ ReturnRow(l)
    \/ \E a \in Admins : updateEndpoint(a) \/ invalidate(a)

ConfigSpec == ConfigInit /\ [][ConfigNext]_configVars

----------------------------------------------------------------------------
\* Once the process was told of a change, no request is answered with older settings, not
\* from the cache, not by a load it joins, not by a slow load that fills the cache late; and
\* after a restart none is answered with less than was ever committed, whatever the
\* synchronisation has met (api-endpoint.service.ts:280-297, 330-349, 380-388, 411-416).
SettingsAreFresh == ~outdated
=============================================================================
