------------------------- MODULE BackOffice_proofs --------------------------
(***************************************************************************)
(* What runs behind the community, for any number of requests, logins,     *)
(* changes and restarts: one section per part, and the parts together at   *)
(* the end.                                                                *)
(*                                                                         *)
(* Sessions.  The version of an account only grows, and grows with every   *)
(* login: what carries it comes from the last login.  A second invariant   *)
(* follows requests as long as no change of `enabled` overlaps another or  *)
(* a login (the variable `alone`): the account such a request has read is  *)
(* then the account it finds.                                              *)
(*                                                                         *)
(* Settings and lists.  A load is good when no change it may have missed   *)
(* was announced since it began.  Versions say so: one that began under    *)
(* the present version has read, or will read, at least what is announced, *)
(* and only such a load can be joined or fill a cache.                     *)
(*                                                                         *)
(* First page.  Whoever is to store what he read holds nothing that a      *)
(* change, since announced, has made wrong.  What is shown below a post    *)
(* has its proofs in ForumThread_proofs.                                   *)
(***************************************************************************)
EXTENDS MCBackOffice, ForumThread_proofs, FiniteSetTheorems, TLAPS

(* The sessions of an administrator. *)

Row == [there: BOOLEAN, enabled: BOOLEAN, version: Nat]
Ops == {"login", "changeMyPassword", "updateAdmin", "resetPassword", "deleteAdmin"}

\* The part of the types the arguments need; versions are any numbers here.
RowTypes ==
    /\ account \in Row
    /\ logins \in Nat
    /\ token \subseteq [typ: {"access", "refresh"}, login: Nat, version: Nat]

AskedTypes == asked \in [Browsers -> [op: Ops, enable: BOOLEAN, read: Row] \cup {NoRead}]

\* A token of the present version comes from the last login, and none is of a later one.
TokensOfLogin ==
    \A t \in token : /\ t.version <= account.version
                     /\ t.version = account.version => t.login = logins

SInv == RowTypes /\ AskedTypes /\ TokensOfLogin

\* Before the first login there is no token.
LEMMA SInitOK == SessionInit => SInv
BY DEF SessionInit, SInv, RowTypes, Row, AskedTypes, TokensOfLogin

\* The steps there are; the handlers of the two passwords are one.
Enters(b) == \E op \in Ops, enable \in BOOLEAN :
                Ask(b, op, enable) /\ (op = "login" => account.enabled)

\* Every step is one of these.
LEMMA StepCases ==
    ASSUME [SessionNext]_sessionVars
    PROVE  \/ UNCHANGED sessionVars \/ refreshToken
           \/ \E b \in Browsers : \/ Enters(b) \/ login(b) \/ NewPassword(b)
                                  \/ updateAdmin(b) \/ deleteAdmin(b) \/ Rejected(b)
<1>1. ASSUME NEW b \in Browsers,
             BeginLogin(b) \/ BeginChangeMyPassword(b) \/ BeginUpdateAdmin(b)
               \/ BeginDeleteAdmin(b) \/ BeginResetPassword(b)
      PROVE  Enters(b)
  BY <1>1 DEF Enters, Ops, BeginLogin, BeginChangeMyPassword, BeginUpdateAdmin,
              BeginDeleteAdmin, BeginResetPassword
<1>2. ASSUME NEW b \in Browsers, changeMyPassword(b) \/ superAdminResetRandomPassword(b)
      PROVE  NewPassword(b)
  BY <1>2 DEF changeMyPassword, superAdminResetRandomPassword
<1> QED BY <1>1, <1>2 DEF SessionNext

\* What the steps do to the account: it never comes back, its version never falls, and
\* only updateAdmin switches it.
LEMMA AccountStep ==
    ASSUME SInv, [SessionNext]_sessionVars
    PROVE  /\ account' \in Row
           /\ account'.version >= account.version
           /\ account'.there => account.there
           /\ account'.enabled # account.enabled => \E b \in Browsers : updateAdmin(b)
<1>0. account \in Row /\ account.version \in Nat
  BY DEF SInv, RowTypes, Row
<1>1. ASSUME NEW b \in Browsers, login(b) \/ NewPassword(b)
      PROVE  /\ account' \in Row /\ account'.version >= account.version
             /\ account'.there = account.there /\ account'.enabled = account.enabled
  BY <1>0, <1>1 DEF login, openAdminSession, NewPassword, Row
<1>2. ASSUME NEW b \in Browsers, updateAdmin(b)
      PROVE  /\ account' \in Row /\ account'.version >= account.version
             /\ account'.there = account.there
  <2> DEFINE next == IF ShouldInvalidate(asked[b]) THEN account.version + 1 ELSE account.version
             on   == asked[b].enable
  <2>1. account' = [account EXCEPT !.enabled = on, !.version = next]
    BY <1>2 DEF updateAdmin
  <2>2. next \in Nat /\ next >= account.version
    BY <1>0
  <2>3. on \in BOOLEAN
    BY <1>2 DEF updateAdmin, SInv, AskedTypes
  <2> HIDE DEF next, on
  <2> QED BY <1>0, <2>1, <2>2, <2>3 DEF Row
<1>3. ASSUME NEW b \in Browsers, deleteAdmin(b)
      PROVE  /\ account' \in Row /\ account'.version >= account.version
             /\ account'.enabled = account.enabled /\ account.there
  <2> DEFINE no == FALSE
  <2>1. no \in BOOLEAN
    OBVIOUS
  <2>2. account' = [account EXCEPT !.there = no] /\ account.there
    BY <1>3 DEF deleteAdmin
  <2> HIDE DEF no
  <2> QED BY <1>0, <2>1, <2>2 DEF Row
<1>4. ASSUME refreshToken \/ UNCHANGED sessionVars
                \/ \E b \in Browsers : Enters(b) \/ Rejected(b)
      PROVE  UNCHANGED account
  BY <1>4 DEF refreshToken, sessionVars, Enters, Ask, Rejected
<1> QED BY <1>0, <1>1, <1>2, <1>3, <1>4, StepCases

\* Requests keep their types.
LEMMA AskedStep ==
    ASSUME SInv, [SessionNext]_sessionVars
    PROVE  AskedTypes'
<1>1. ASSUME NEW b \in Browsers, Enters(b) PROVE AskedTypes'
  BY <1>1 DEF Enters, Ask, SInv, RowTypes, AskedTypes
<1>2. ASSUME NEW b \in Browsers, Done(b) PROVE AskedTypes'
  BY <1>2 DEF Done, SInv, AskedTypes
<1>3. CASE UNCHANGED asked
  BY <1>3 DEF SInv, AskedTypes
<1>4. ASSUME NEW b \in Browsers,
             login(b) \/ NewPassword(b) \/ updateAdmin(b) \/ deleteAdmin(b) \/ Rejected(b)
      PROVE  Done(b)
  BY <1>4 DEF login, NewPassword, updateAdmin, deleteAdmin, Rejected
<1>5. refreshToken \/ UNCHANGED sessionVars => UNCHANGED asked
  BY DEF refreshToken, sessionVars
<1> QED BY <1>1, <1>2, <1>3, <1>4, <1>5, StepCases

\* A token is signed by a login, for the new version, or by a refresh, for the login of
\* the token that was let in.
LEMMA SNextOK == SInv /\ [SessionNext]_sessionVars => SInv'
<1> SUFFICES ASSUME SInv, [SessionNext]_sessionVars PROVE SInv'
  OBVIOUS
<1>0. /\ account.version \in Nat /\ logins \in Nat /\ account' \in Row
      /\ account'.version \in Nat /\ account'.version >= account.version
  BY AccountStep DEF SInv, RowTypes, Row
<1>1. ASSUME NEW b \in Browsers, login(b) PROVE RowTypes' /\ TokensOfLogin'
  <2>1. /\ account' = [account EXCEPT !.version = account.version + 1]
        /\ logins' = logins + 1
        /\ token' = token \cup {[typ |-> typ, login |-> logins + 1, version |-> account'.version] :
                                  typ \in {"access", "refresh"}}
    BY <1>1 DEF login, openAdminSession
  <2>2. account'.version = account.version + 1
    BY <2>1 DEF SInv, RowTypes, Row
  <2>3. ASSUME NEW t \in token'
        PROVE  /\ t \in [typ: {"access", "refresh"}, login: Nat, version: Nat]
               /\ t.version <= account'.version
               /\ t.version = account'.version => t.login = logins'
    <3>1. CASE t \in token
      <4>1. t \in [typ: {"access", "refresh"}, login: Nat, version: Nat]
            /\ t.version <= account.version
        BY <3>1 DEF SInv, RowTypes, TokensOfLogin
      <4> QED BY <1>0, <2>2, <4>1
    <3>2. CASE t \notin token
      <4>1. PICK typ \in {"access", "refresh"} :
              t = [typ |-> typ, login |-> logins + 1, version |-> account'.version]
        BY <2>1, <2>3, <3>2
      <4> QED BY <1>0, <2>1, <2>2, <4>1
    <3> QED BY <3>1, <3>2
  <2> QED BY <1>0, <2>1, <2>3 DEF RowTypes, TokensOfLogin
<1>2. ASSUME refreshToken PROVE RowTypes' /\ TokensOfLogin'
  <2>1. PICK t \in token :
          /\ InForce(t)
          /\ token' = token \cup {[typ |-> "access", login |-> t.login, version |-> account.version]}
          /\ UNCHANGED <<account, logins>>
    BY <1>2 DEF refreshToken
  <2>2. t.login = logins
    BY <2>1 DEF InForce, SInv, TokensOfLogin
  <2> QED BY <1>0, <2>1, <2>2 DEF SInv, RowTypes, TokensOfLogin
<1>3. ASSUME UNCHANGED <<token, logins>> PROVE RowTypes' /\ TokensOfLogin'
  <2>1. ASSUME NEW t \in token
        PROVE  /\ t.version <= account'.version
               /\ t.version = account'.version => t.login = logins
    <3>1. /\ t.version \in Nat /\ t.version <= account.version
          /\ t.version = account.version => t.login = logins
      BY DEF SInv, RowTypes, TokensOfLogin
    <3> QED BY <1>0, <3>1
  <2> QED BY <1>0, <1>3, <2>1 DEF SInv, RowTypes, TokensOfLogin
<1>4. ASSUME NEW b \in Browsers,
             Enters(b) \/ NewPassword(b) \/ updateAdmin(b) \/ deleteAdmin(b) \/ Rejected(b)
      PROVE  UNCHANGED <<token, logins>>
  BY <1>4 DEF Enters, Ask, NewPassword, updateAdmin, deleteAdmin, Rejected
<1>5. UNCHANGED sessionVars => UNCHANGED <<token, logins>>
  BY DEF sessionVars
<1>6. RowTypes' /\ TokensOfLogin'
  BY <1>1, <1>2, <1>3, <1>4, <1>5, StepCases
<1> QED BY <1>6, AskedStep DEF SInv

\* The tokens that are let in come from the last login, however logins, refreshes and
\* changes of the account overlap (admin-session.ts:20-29, admin.service.ts:462-499).
THEOREM SessionIsOne == SessionSpec => []OneSession
<1>1. SInv => OneSession
  BY DEF SInv, TokensOfLogin, OneSession, InForce
<1> QED BY SInitOK, SNextOK, <1>1, PTL DEF SessionSpec

----------------------------------------------------------------------------
(* As long as no change of `enabled` overlapped another, or a login. *)

\* The pairs of requests that `alone` is about.
Clash(p, q) == \/ p = "updateAdmin" /\ q \in {"updateAdmin", "login"}
               \/ p = "login" /\ q = "updateAdmin"

\* They are the pairs `alone` counts.
LEMMA ClashIs ==
    ASSUME NEW p \in Ops, NEW q \in Ops
    PROVE  {p, q} \in {{"updateAdmin"}, {"updateAdmin", "login"}} <=> Clash(p, q)
BY DEF Clash, Ops

Apart == \A b, c \in Browsers :
            b # c /\ asked[b] # NoRead /\ asked[c] # NoRead => ~Clash(asked[b].op, asked[c].op)

\* What such a request has read of `enabled` is what it will find.
ReadIsCurrent ==
    \A b \in Browsers : asked[b] # NoRead =>
        /\ asked[b].op = "updateAdmin" => asked[b].read.enabled = account.enabled
        /\ asked[b].op = "login" => account.enabled

\* Whoever was disabled holds no token of the present version.
DisabledHasNone == ~account.enabled => \A t \in token : t.version < account.version

AInv == SInv /\ (alone => Apart /\ ReadIsCurrent /\ DisabledHasNone)

\* Nothing is in flight, and there is no token.
LEMMA AInitOK == SessionInit => AInv
BY SInitOK DEF SessionInit, AInv, Apart, ReadIsCurrent, DisabledHasNone

\* A request that ends leaves the others as they are.
LEMMA DoneApart ==
    ASSUME AInv, alone, NEW b \in Browsers, Done(b), account'.enabled = account.enabled
    PROVE  Apart' /\ ReadIsCurrent'
<1>1. \A c \in Browsers : asked'[c] = IF c = b THEN NoRead ELSE asked[c]
  BY DEF Done, AInv, SInv, AskedTypes
<1> QED BY <1>1 DEF AInv, Apart, ReadIsCurrent

\* One step per kind of step.
LEMMA ANextOK == AInv /\ [SessionNext]_sessionVars => AInv'
<1> SUFFICES ASSUME AInv, [SessionNext]_sessionVars, alone'
             PROVE  Apart' /\ ReadIsCurrent' /\ DisabledHasNone'
  BY SNextOK DEF AInv
<1>0. SInv /\ SInv'
  BY SNextOK DEF AInv
<1>0a. /\ account.version \in Nat /\ account'.version \in Nat
       /\ account'.version >= account.version
       /\ account.enabled \in BOOLEAN
       /\ \A t \in token : t.version \in Nat /\ t.version <= account.version
  BY <1>0, AccountStep DEF SInv, RowTypes, Row, TokensOfLogin
<1>1. ASSUME NEW b \in Browsers, Enters(b) PROVE Apart' /\ ReadIsCurrent' /\ DisabledHasNone'
  <2>1. PICK op \in Ops, enable \in BOOLEAN :
          Ask(b, op, enable) /\ (op = "login" => account.enabled)
    BY <1>1 DEF Enters
  <2> DEFINE q == [op |-> op, enable |-> enable, read |-> account]
  <2>2. /\ alone /\ UNCHANGED <<account, token>>
        /\ \A c \in Browsers : asked'[c] = IF c = b THEN q ELSE asked[c]
    BY <1>0, <2>1 DEF Ask, SInv, AskedTypes
  <2>3. \A c \in Browsers : asked[c] # NoRead => ~Clash(op, asked[c].op)
    <3> SUFFICES ASSUME NEW c \in Browsers, asked[c] # NoRead PROVE ~Clash(op, asked[c].op)
      OBVIOUS
    <3>1. asked[c].op \in Ops
      BY <1>0 DEF SInv, AskedTypes
    <3>2. {op, asked[c].op} \notin {{"updateAdmin"}, {"updateAdmin", "login"}}
      BY <2>1 DEF Ask
    <3> QED BY <3>1, <3>2, ClashIs
  <2>4. \A c \in Browsers : asked[c] # NoRead => ~Clash(asked[c].op, op)
    BY <2>3 DEF Clash
  <2>5. Apart'
    BY <2>2, <2>3, <2>4 DEF AInv, Apart
  <2>6. ReadIsCurrent'
    BY <2>1, <2>2 DEF AInv, ReadIsCurrent
  <2>7. DisabledHasNone'
    BY <2>2 DEF AInv, DisabledHasNone
  <2> QED BY <2>5, <2>6, <2>7
<1>2. ASSUME NEW b \in Browsers, login(b) PROVE Apart' /\ ReadIsCurrent' /\ DisabledHasNone'
  <2>1. Done(b) /\ alone /\ account.enabled /\ account'.enabled = account.enabled
    <3>1. /\ Done(b) /\ asked[b] # NoRead /\ asked[b].op = "login"
          /\ account' = [account EXCEPT !.version = account.version + 1]
      BY <1>2 DEF login, openAdminSession
    <3> QED BY <1>0, <3>1 DEF Done, AInv, ReadIsCurrent, SInv, RowTypes, Row
  <2> QED BY <2>1, DoneApart DEF DisabledHasNone
<1>3. ASSUME NEW b \in Browsers, NewPassword(b) PROVE Apart' /\ ReadIsCurrent' /\ DisabledHasNone'
  <2>1. /\ Done(b) /\ alone /\ account'.enabled = account.enabled /\ token' = token
        /\ account'.version = account.version + 1
    BY <1>0, <1>3 DEF NewPassword, Done, SInv, RowTypes, Row
  <2>2. \A t \in token : t.version < account'.version
    BY <1>0a, <2>1
  <2> QED BY <2>1, <2>2, DoneApart DEF DisabledHasNone
<1>4. ASSUME NEW b \in Browsers, updateAdmin(b) PROVE Apart' /\ ReadIsCurrent' /\ DisabledHasNone'
  <2> DEFINE next == IF ShouldInvalidate(asked[b]) THEN account.version + 1 ELSE account.version
             on   == asked[b].enable
  <2>1. /\ asked[b] # NoRead /\ asked[b].op = "updateAdmin"
        /\ account' = [account EXCEPT !.enabled = on, !.version = next]
        /\ Done(b) /\ alone /\ token' = token
    BY <1>4 DEF updateAdmin, Done
  <2>2. account'.enabled = on /\ account'.version = next
    BY <1>0, <2>1 DEF SInv, RowTypes, Row
  <2>3. \A c \in Browsers : asked'[c] = IF c = b THEN NoRead ELSE asked[c]
    BY <1>0, <2>1 DEF Done, SInv, AskedTypes
  <2>4. \A c \in Browsers : c # b /\ asked[c] # NoRead => asked[c].op \notin {"updateAdmin", "login"}
    BY <2>1 DEF AInv, Apart, Clash
  <2>5. Apart' /\ ReadIsCurrent'
    BY <2>1, <2>3, <2>4 DEF AInv, Apart, ReadIsCurrent
  <2>6. DisabledHasNone'
    <3> SUFFICES ASSUME ~on, NEW t \in token PROVE t.version < account'.version
      BY <2>1, <2>2 DEF DisabledHasNone
    <3>1. CASE account.enabled
      <4>1. asked[b].read.enabled
        BY <2>1, <3>1 DEF AInv, ReadIsCurrent
      <4>2. next = account.version + 1
        BY <4>1 DEF ShouldInvalidate
      <4> QED BY <1>0a, <2>2, <4>2
    <3>2. CASE ~account.enabled
      <4>1. t.version < account.version
        BY <2>1, <3>2 DEF AInv, DisabledHasNone
      <4> QED BY <1>0a, <4>1
    <3> QED BY <3>1, <3>2
  <2> QED BY <2>5, <2>6
<1>5. ASSUME NEW b \in Browsers, deleteAdmin(b) \/ Rejected(b)
      PROVE  Apart' /\ ReadIsCurrent' /\ DisabledHasNone'
  <2>1. /\ Done(b) /\ alone /\ token' = token
        /\ account'.enabled = account.enabled /\ account'.version = account.version
    BY <1>0, <1>5 DEF deleteAdmin, Rejected, Done, SInv, RowTypes, Row
  <2> QED BY <2>1, DoneApart DEF AInv, DisabledHasNone
<1>6. CASE refreshToken
  <2>1. /\ account.enabled /\ UNCHANGED <<account, asked, alone>>
    BY <1>6 DEF refreshToken, InForce
  <2> QED BY <2>1 DEF AInv, Apart, ReadIsCurrent, DisabledHasNone
<1>7. CASE UNCHANGED sessionVars
  BY <1>7 DEF sessionVars, AInv, Apart, ReadIsCurrent, DisabledHasNone
<1> QED BY <1>1, <1>2, <1>3, <1>4, <1>5, <1>6, <1>7, StepCases

\* A token that is not let in never is again: not by a refresh, a login or an account that
\* is enabled once more (admin.service.ts:763, 791-804).
THEOREM EndedSessionsStayEnded == SessionSpec => SessionsEndForGood
<1>1. ASSUME AInv, [SessionNext]_sessionVars, alone, NEW t \in token, ~InForce(t)
      PROVE  ~InForce(t)'
  <2>1. /\ account.version \in Nat /\ account'.version \in Nat
        /\ account'.version >= account.version /\ (account'.there => account.there)
        /\ t.version \in Nat /\ t.version <= account.version
    BY <1>1, AccountStep DEF AInv, SInv, RowTypes, Row, TokensOfLogin
  <2>2. ~account.there \/ t.version < account.version
    <3>1. CASE account.enabled
      BY <1>1, <2>1, <3>1 DEF InForce
    <3>2. CASE ~account.enabled
      BY <1>1, <3>2 DEF AInv, DisabledHasNone
    <3> QED BY <3>1, <3>2
  <2>3. ~account'.there \/ t.version # account'.version
    BY <2>1, <2>2
  <2> QED BY <2>3 DEF InForce
<1>2. AInv /\ [SessionNext]_sessionVars =>
        [alone => \A t \in token : ~InForce(t) => ~InForce(t)']_sessionVars
  BY <1>1
<1> QED BY AInitOK, ANextOK, <1>2, PTL DEF SessionSpec, SessionsEndForGood

----------------------------------------------------------------------------
(* The settings in memory. *)

\* The part of the types the argument needs; versions are any numbers here.
ConfigTypes ==
    /\ settings \in Settings \cup {Nothing} /\ told \in Nat /\ keyVersion \in Nat
    /\ cached \in Settings \cup {Nothing}
    /\ inFlight \in Loads \cup {NoLoad}
    /\ load \in [Loads -> [at: {"read", "return"}, keyVersion: Nat, owed: Nat,
                           value: Settings \cup {Nothing}] \cup {NoLoad}]
    /\ change \in [Admins -> Settings]

\* What the process was or will be told is in the table.
ToldIsCommitted ==
    /\ told <= Created(settings)
    /\ \A a \in Admins : change[a] <= Created(settings)

CacheIsCurrent == cached # Nothing => told <= cached

JoinIsCurrent ==
    inFlight # NoLoad => load[inFlight] # NoLoad /\ load[inFlight].keyVersion = keyVersion

LoadIsOwed(l) ==
    load[l] # NoLoad =>
        /\ load[l].keyVersion <= keyVersion
        /\ load[l].owed <= told
        /\ load[l].at = "return" =>
             /\ load[l].value \in Settings
             /\ load[l].owed <= load[l].value
             /\ load[l].keyVersion = keyVersion => told <= load[l].value

CInv ==
    /\ ConfigTypes /\ ToldIsCommitted /\ CacheIsCurrent /\ JoinIsCurrent
    /\ \A l \in Loads : LoadIsOwed(l)
    /\ SettingsAreFresh

\* The row as an upsert leaves it is a row, and the same row for the next upsert.
LEMMA CreatedRow ==
    ASSUME NEW row \in Settings \cup {Nothing}
    PROVE  /\ Created(row) \in Settings
           /\ Created(Created(row)) = Created(row)
           /\ Created(row) \in Nat
BY SettingsAssumption DEF Created, Settings, Nothing

\* What is not a change is a number that no row has.
LEMMA NothingIsNone == Nothing \notin Settings /\ Settings \subseteq Nat
BY SettingsAssumption DEF Nothing, Settings

\* Nothing is owed, nothing loaded.
LEMMA ConfigInitOK == ConfigInit => CInv
BY CreatedRow, NothingIsNone, SettingsAssumption
   DEF ConfigInit, CInv, ConfigTypes, ToldIsCommitted, CacheIsCurrent, JoinIsCurrent, LoadIsOwed,
       SettingsAreFresh, Created, Settings, Nothing

\* One step per operation of api-endpoint.service.ts.
LEMMA ConfigNextOK == CInv /\ [ConfigNext]_configVars => CInv'
<1> SUFFICES ASSUME CInv, [ConfigNext]_configVars PROVE CInv'
  OBVIOUS
<1> USE NothingIsNone
<1>0. /\ Created(settings) \in Settings /\ Created(Created(settings)) = Created(settings)
      /\ Created(settings) \in Nat
  BY CreatedRow DEF CInv, ConfigTypes
<1>1. CASE CacheHit
  <2>1. ~(cached < told)
    BY <1>1 DEF CacheHit, CInv, ConfigTypes, CacheIsCurrent
  <2> QED BY <1>1, <2>1 DEF CacheHit, CInv, ConfigTypes, ToldIsCommitted, CacheIsCurrent,
                            JoinIsCurrent, LoadIsOwed, SettingsAreFresh
<1>2. CASE JoinLoad
  <2>1. /\ inFlight \in Loads /\ load[inFlight] # NoLoad
        /\ load[inFlight].keyVersion = keyVersion
    BY <1>2 DEF JoinLoad, CInv, ConfigTypes, JoinIsCurrent
  <2>2. load' = [load EXCEPT ![inFlight].owed = told]
    BY <1>2 DEF JoinLoad
  <2>3. /\ load'[inFlight] # NoLoad
        /\ load'[inFlight].at = load[inFlight].at
        /\ load'[inFlight].keyVersion = load[inFlight].keyVersion
        /\ load'[inFlight].value = load[inFlight].value
        /\ load'[inFlight].owed = told
    BY <2>1, <2>2 DEF CInv, ConfigTypes, NoLoad
  <2>4. \A l \in Loads : l # inFlight => load'[l] = load[l]
    BY <2>1, <2>2 DEF CInv, ConfigTypes
  <2>5. ConfigTypes'
    BY <1>2, <2>1, <2>2 DEF JoinLoad, CInv, ConfigTypes, NoLoad
  <2>6. ASSUME NEW l \in Loads PROVE LoadIsOwed(l)'
    <3>1. CASE l = inFlight
      BY <1>2, <2>1, <2>3, <3>1 DEF JoinLoad, CInv, ConfigTypes, LoadIsOwed
    <3>2. CASE l # inFlight
      BY <1>2, <2>4, <3>2 DEF JoinLoad, CInv, LoadIsOwed
    <3> QED BY <3>1, <3>2
  <2>7. JoinIsCurrent'
    BY <1>2, <2>1, <2>3 DEF JoinLoad, JoinIsCurrent
  <2> QED BY <1>2, <2>5, <2>6, <2>7
          DEF JoinLoad, CInv, ToldIsCommitted, CacheIsCurrent, SettingsAreFresh
<1>3. CASE Expires
  BY <1>3 DEF Expires, CInv, ConfigTypes, ToldIsCommitted, CacheIsCurrent, JoinIsCurrent,
              LoadIsOwed, SettingsAreFresh
<1>4. ASSUME NEW l \in Loads, StartLoad(l) PROVE CInv'
  <2> DEFINE new == [at |-> "read", keyVersion |-> keyVersion, value |-> Nothing, owed |-> told]
  <2>1. /\ load' = [load EXCEPT ![l] = new] /\ inFlight' = l
        /\ UNCHANGED <<settings, told, keyVersion, cached, change, outdated>>
    BY <1>4 DEF StartLoad
  <2>2. /\ load'[l] = new /\ new # NoLoad
        /\ \A k \in Loads : k # l => load'[k] = load[k]
    BY <2>1 DEF CInv, ConfigTypes, NoLoad
  <2>3. ConfigTypes'
    BY <2>1 DEF CInv, ConfigTypes
  <2>4. ASSUME NEW k \in Loads PROVE LoadIsOwed(k)'
    BY <2>1, <2>2 DEF CInv, ConfigTypes, LoadIsOwed
  <2> QED BY <2>1, <2>2, <2>3, <2>4
          DEF CInv, ToldIsCommitted, CacheIsCurrent, JoinIsCurrent, SettingsAreFresh
<1>5. ASSUME NEW l \in Loads, ReadRow(l) PROVE CInv'
  <2>1. /\ load[l] # NoLoad /\ settings' = Created(settings)
        /\ load' = [load EXCEPT ![l].at = "return", ![l].value = Created(settings)]
        /\ UNCHANGED <<told, keyVersion, cached, inFlight, change, outdated>>
    BY <1>5 DEF ReadRow
  <2>2. /\ load'[l] # NoLoad /\ load'[l].at = "return"
        /\ load'[l].value = Created(settings)
        /\ load'[l].keyVersion = load[l].keyVersion /\ load'[l].owed = load[l].owed
    BY <2>1 DEF CInv, ConfigTypes, NoLoad
  <2>3. \A k \in Loads : k # l => load'[k] = load[k]
    BY <2>1 DEF CInv, ConfigTypes
  <2>4. ConfigTypes'
    BY <1>0, <2>1, ZenonT(40) DEF CInv, ConfigTypes, NoLoad
  <2>5. ASSUME NEW k \in Loads PROVE LoadIsOwed(k)'
    <3>1. CASE k = l
      <4>1. /\ load[l].keyVersion <= keyVersion /\ load[l].owed <= told
            /\ told <= Created(settings) /\ load[l].owed \in Nat /\ told \in Nat
        BY <2>1 DEF CInv, ConfigTypes, LoadIsOwed, ToldIsCommitted
      <4> QED BY <1>0, <2>1, <2>2, <3>1, <4>1 DEF LoadIsOwed
    <3>2. CASE k # l
      BY <2>1, <2>3, <3>2 DEF CInv, LoadIsOwed
    <3> QED BY <3>1, <3>2
  <2>6. JoinIsCurrent'
    BY <2>1, <2>2, <2>3 DEF CInv, ConfigTypes, JoinIsCurrent
  <2>7. ToldIsCommitted'
    BY <1>0, <2>1 DEF CInv, ToldIsCommitted
  <2> QED BY <2>1, <2>4, <2>5, <2>6, <2>7 DEF CInv, CacheIsCurrent, SettingsAreFresh
<1>6. ASSUME NEW l \in Loads, ReadFails(l) PROVE CInv'
  BY <1>6, LoadAssumption DEF ReadFails, CInv, ConfigTypes, ToldIsCommitted, CacheIsCurrent,
              JoinIsCurrent, LoadIsOwed, SettingsAreFresh
<1>7. ASSUME NEW l \in Loads, ReturnRow(l) PROVE CInv'
  <2>1. /\ load[l].value \in Settings /\ load[l].owed <= load[l].value
        /\ load[l].keyVersion = keyVersion => told <= load[l].value
        /\ load[l].owed \in Nat
    BY <1>7 DEF ReturnRow, CInv, ConfigTypes, LoadIsOwed
  <2>2. ~(load[l].value < load[l].owed)
    BY <2>1, SettingsAssumption DEF Settings
  <2>3. /\ cached' = IF load[l].keyVersion = keyVersion THEN load[l].value ELSE cached
        /\ inFlight' = IF inFlight = l THEN NoLoad ELSE inFlight
        /\ ~outdated'
        /\ load' = [load EXCEPT ![l] = NoLoad]
        /\ UNCHANGED <<settings, told, keyVersion, change>>
    BY <1>7, <2>2 DEF ReturnRow, StillCurrent, CInv, SettingsAreFresh
  <2>4. ConfigTypes' /\ CacheIsCurrent'
    BY <2>1, <2>3 DEF CInv, ConfigTypes, CacheIsCurrent
  <2>5. JoinIsCurrent' /\ \A k \in Loads : LoadIsOwed(k)'
    BY <2>3 DEF CInv, ConfigTypes, JoinIsCurrent, LoadIsOwed
  <2> QED BY <2>3, <2>4, <2>5 DEF CInv, ToldIsCommitted, SettingsAreFresh
<1>8. ASSUME NEW a \in Admins, updateEndpoint(a) PROVE CInv'
  <2>1. /\ settings \in Settings /\ settings' = settings + 1 /\ settings + 1 \in Settings
        /\ change' = [change EXCEPT ![a] = settings + 1]
        /\ UNCHANGED <<told, keyVersion, cached, inFlight, load, outdated>>
    BY <1>8, SettingsAssumption DEF updateEndpoint, CInv, ConfigTypes, Settings, Nothing
  <2>2. Created(settings) = settings /\ Created(settings') = settings + 1
    BY <2>1 DEF Created
  <2>3. ConfigTypes'
    BY <2>1 DEF CInv, ConfigTypes
  <2>4. ToldIsCommitted'
    <3>1. told \in Nat /\ settings \in Nat /\ told <= settings
      BY <2>1, <2>2 DEF CInv, ConfigTypes, ToldIsCommitted
    <3>2. ASSUME NEW b \in Admins PROVE change'[b] <= settings + 1
      <4>1. change[b] \in Nat /\ change[b] <= settings
        BY <2>2 DEF CInv, ConfigTypes, ToldIsCommitted
      <4>2. change'[b] = IF b = a THEN settings + 1 ELSE change[b]
        BY <2>1 DEF CInv, ConfigTypes
      <4> QED BY <3>1, <4>1, <4>2
    <3> QED BY <2>1, <2>2, <3>1, <3>2 DEF ToldIsCommitted
  <2> QED BY <2>1, <2>3, <2>4 DEF CInv, CacheIsCurrent, JoinIsCurrent, LoadIsOwed,
                                  SettingsAreFresh
<1>9. ASSUME NEW a \in Admins, invalidate(a) PROVE CInv'
  <2>1. /\ keyVersion' = keyVersion + 1 /\ cached' = Nothing /\ inFlight' = NoLoad
        /\ told' = IF told < change[a] THEN change[a] ELSE told
        /\ change' = [change EXCEPT ![a] = 0]
        /\ UNCHANGED <<settings, load, outdated>>
    BY <1>9 DEF invalidate, Forget
  <2>2. told' \in Nat /\ told <= told' /\ told' <= Created(settings)
    BY <1>0, <2>1 DEF CInv, ConfigTypes, ToldIsCommitted
  <2>3. ConfigTypes'
    BY <2>1, <2>2, SettingsAssumption DEF CInv, ConfigTypes, Settings
  <2>4. ToldIsCommitted'
    BY <1>0, <2>1, <2>2 DEF CInv, ConfigTypes, ToldIsCommitted
  <2>5. ASSUME NEW k \in Loads PROVE LoadIsOwed(k)'
    <3> SUFFICES ASSUME load[k] # NoLoad PROVE LoadIsOwed(k)'
      BY <2>1 DEF LoadIsOwed
    <3>1. /\ load[k].keyVersion \in Nat /\ load[k].owed \in Nat
          /\ load[k].keyVersion <= keyVersion /\ load[k].owed <= told
      BY DEF CInv, ConfigTypes, LoadIsOwed
    <3>2. load[k].keyVersion <= keyVersion' /\ load[k].keyVersion # keyVersion'
      BY <2>1, <3>1 DEF CInv, ConfigTypes
    <3>3. load[k].owed <= told'
      BY <2>2, <3>1 DEF CInv, ConfigTypes
    <3> QED BY <2>1, <3>2, <3>3 DEF CInv, LoadIsOwed
  <2> QED BY <2>1, <2>3, <2>4, <2>5 DEF CInv, CacheIsCurrent, JoinIsCurrent, SettingsAreFresh
<1>10. CASE syncRegisteredApiEndpoints
  BY <1>0, <1>10 DEF syncRegisteredApiEndpoints, CInv, ConfigTypes, ToldIsCommitted, CacheIsCurrent,
              JoinIsCurrent, LoadIsOwed, SettingsAreFresh
<1>11. CASE Restart
  BY <1>0, <1>11, SettingsAssumption
     DEF Restart, Forget, CInv, ConfigTypes, ToldIsCommitted, CacheIsCurrent, JoinIsCurrent,
         LoadIsOwed, SettingsAreFresh, Settings
<1>12. CASE UNCHANGED configVars
  BY <1>12 DEF configVars, CInv, ConfigTypes, ToldIsCommitted, CacheIsCurrent, JoinIsCurrent,
               LoadIsOwed, SettingsAreFresh
<1> QED BY <1>1, <1>2, <1>3, <1>4, <1>5, <1>6, <1>7, <1>8, <1>9, <1>10, <1>11, <1>12
        DEF ConfigNext

\* No request is answered with less than the process was told when it asked, whatever
\* loads, invalidations and restarts overlap (api-endpoint.service.ts:330-416).
THEOREM FreshSettings == ConfigSpec => []SettingsAreFresh
<1>1. CInv => SettingsAreFresh
  BY DEF CInv
<1> QED BY ConfigInitOK, ConfigNextOK, <1>1, PTL DEF ConfigSpec

----------------------------------------------------------------------------
\* Every login raises the version too, so the bound on versions bounds logins.
SessionBound == SInv /\ SessionTypeOK /\ logins <= account.version

\* Every step keeps the types: what is read is an account, what is signed a token.
LEMMA SessionTypesOK == SessionBound /\ [SessionNext]_sessionVars => SessionBound'
<1> SUFFICES ASSUME SessionBound, [SessionNext]_sessionVars PROVE SessionBound'
  OBVIOUS
<1>0. SInv'
  BY SNextOK DEF SessionBound
<1>1. /\ account \in Account /\ account.version \in Nat /\ logins \in Nat
      /\ account.version <= MaxVersion /\ account.there \in BOOLEAN /\ account.enabled \in BOOLEAN
      /\ logins <= account.version /\ MaxVersion \in Nat
      /\ account' \in Row
  BY SessionAssumption, AccountStep DEF SessionBound, SessionTypeOK, Account, Versions
<1>2. ASSUME NEW b \in Browsers, Done(b) PROVE asked' \in [Browsers -> Asked \cup {NoRead}]
                                               /\ alone' \in BOOLEAN
  BY <1>2 DEF Done, SessionBound, SessionTypeOK
<1>3. ASSUME account'.version <= MaxVersion PROVE account' \in Account
  BY <1>1, <1>3 DEF Row, Account, Versions
<1>4. ASSUME NEW b \in Browsers, login(b) PROVE SessionBound'
  <2>1. /\ account.version < MaxVersion
        /\ account' = [account EXCEPT !.version = account.version + 1]
        /\ logins' = logins + 1
        /\ token' = token \cup {[typ |-> typ, login |-> logins + 1, version |-> account'.version] :
                                  typ \in {"access", "refresh"}}
        /\ Done(b)
    BY <1>4 DEF login, openAdminSession
  <2>2. account'.version = account.version + 1
    BY <1>1, <2>1 DEF Account
  <2>3. logins + 1 \in 0..MaxVersion /\ account'.version \in Versions
    BY <1>1, <2>1, <2>2 DEF Versions
  <2>4. token' \subseteq Token
    BY <2>1, <2>3 DEF SessionBound, SessionTypeOK, Token
  <2>5. account' \in Account
    BY <1>1, <1>3, <2>1, <2>2
  <2> QED BY <1>0, <1>1, <1>2, <2>1, <2>2, <2>3, <2>4, <2>5 DEF SessionBound, SessionTypeOK
<1>5. ASSUME refreshToken PROVE SessionBound'
  <2>1. PICK t \in token :
          /\ token' = token \cup {[typ |-> "access", login |-> t.login, version |-> account.version]}
          /\ UNCHANGED <<account, logins, asked, alone>>
    BY <1>5 DEF refreshToken
  <2>2. t.login \in 0..MaxVersion /\ account.version \in Versions
    BY <1>1 DEF SessionBound, SessionTypeOK, Token, Account
  <2>3. token' \subseteq Token
    BY <2>1, <2>2 DEF SessionBound, SessionTypeOK, Token
  <2> QED BY <1>0, <1>1, <2>1, <2>3 DEF SessionBound, SessionTypeOK
<1>6. ASSUME NEW b \in Browsers, Enters(b) PROVE SessionBound'
  <2>1. PICK op \in Ops, enable \in BOOLEAN : Ask(b, op, enable)
    BY <1>6 DEF Enters
  <2> DEFINE q == [op |-> op, enable |-> enable, read |-> account]
  <2>2. q \in Asked
    BY <1>1 DEF Ops, Asked
  <2>3. /\ asked' = [asked EXCEPT ![b] = q]
        /\ UNCHANGED <<account, token, logins>>
    BY <2>1 DEF Ask
  <2>4. asked' \in [Browsers -> Asked \cup {NoRead}]
    <3> HIDE DEF q
    <3> QED BY <2>2, <2>3 DEF SessionBound, SessionTypeOK
  <2>5. alone' \in BOOLEAN
    BY <2>1 DEF Ask
  <2> QED BY <1>0, <1>1, <2>3, <2>4, <2>5 DEF SessionBound, SessionTypeOK
<1>7. ASSUME NEW b \in Browsers, NewPassword(b) PROVE SessionBound'
  <2>1. /\ account.version < MaxVersion /\ Done(b)
        /\ account' = [account EXCEPT !.version = account.version + 1]
        /\ UNCHANGED <<token, logins>>
    BY <1>7 DEF NewPassword
  <2>2. account'.version = account.version + 1
    BY <1>1, <2>1 DEF Account
  <2>3. account' \in Account
    BY <1>1, <1>3, <2>1, <2>2
  <2> QED BY <1>0, <1>1, <1>2, <2>1, <2>2, <2>3 DEF SessionBound, SessionTypeOK
<1>8. ASSUME NEW b \in Browsers, updateAdmin(b) PROVE SessionBound'
  <2> DEFINE next == IF ShouldInvalidate(asked[b]) THEN account.version + 1 ELSE account.version
             on   == asked[b].enable
  <2>1. /\ account.version < MaxVersion /\ Done(b)
        /\ account' = [account EXCEPT !.enabled = on, !.version = next]
        /\ UNCHANGED <<token, logins>>
    BY <1>8 DEF updateAdmin
  <2>2. account'.version = next
    BY <1>1, <2>1 DEF Account
  <2>3. next <= MaxVersion /\ logins <= next
    BY <1>1, <2>1
  <2>4. account' \in Account
    BY <1>3, <2>2, <2>3
  <2> QED BY <1>0, <1>1, <1>2, <2>1, <2>2, <2>3, <2>4 DEF SessionBound, SessionTypeOK
<1>9. ASSUME NEW b \in Browsers, deleteAdmin(b) \/ Rejected(b) PROVE SessionBound'
  <2>1. account'.version = account.version /\ Done(b) /\ UNCHANGED <<token, logins>>
    BY <1>1, <1>9 DEF deleteAdmin, Rejected, Account
  <2>2. account' \in Account
    BY <1>1, <1>3, <2>1
  <2> QED BY <1>0, <1>1, <1>2, <2>1, <2>2 DEF SessionBound, SessionTypeOK
<1>10. CASE UNCHANGED sessionVars
  BY <1>0, <1>10 DEF sessionVars, SessionBound, SessionTypeOK
<1> QED BY <1>4, <1>5, <1>6, <1>7, <1>8, <1>9, <1>10, StepCases

\* What the sessions of an administrator can reach.
LEMMA SessionReached == SessionSpec => []SessionTypeOK
<1>1. SessionInit => SessionBound
  <2> SUFFICES ASSUME SessionInit PROVE SessionBound
    OBVIOUS
  <2>1. SInv
    BY SInitOK
  <2>2. 0 \in Versions /\ 0 \in 0..MaxVersion
    BY SessionAssumption DEF Versions
  <2> QED BY <2>1, <2>2 DEF SessionInit, SessionBound, SessionTypeOK, Account
<1>2. SessionBound => SessionTypeOK
  BY DEF SessionBound
<1> QED BY <1>1, SessionTypesOK, <1>2, PTL DEF SessionSpec

----------------------------------------------------------------------------

\* Changes that are committed and of which the process was not told.
Untold == {change[a] : a \in Admins} \ {0}

\* Every change is told once at most, and none twice.
ChangesCounted ==
    /\ \A a, b \in Admins : a # b /\ change[a] # 0 => change[a] # change[b]
    /\ keyVersion + Cardinality(Untold) <= Created(settings)

ConfigBound == CInv /\ ConfigTypeOK /\ ChangesCounted

\* There are no more of them than changes.
LEMMA UntoldIs ==
    ASSUME CInv
    PROVE  /\ IsFiniteSet(Untold) /\ Cardinality(Untold) \in Nat
           /\ \A n \in Untold : n \in Nat /\ n <= Created(settings)
           /\ Created(settings) \in Settings /\ Created(settings) \in Nat
<1>1. Created(settings) \in Settings /\ Created(settings) \in Nat
  BY CreatedRow DEF CInv, ConfigTypes
<1>2. \A n \in Untold : n \in Nat /\ n <= Created(settings) /\ n \in 0..Created(settings)
  <2>1. ASSUME NEW a \in Admins
        PROVE  change[a] \in Nat /\ change[a] <= Created(settings)
    BY NothingIsNone DEF CInv, ConfigTypes, ToldIsCommitted
  <2> QED BY <1>1, <2>1 DEF Untold
<1>3. IsFiniteSet(0..Created(settings))
  BY <1>1, FS_Interval
<1>4. IsFiniteSet(Untold)
  BY <1>2, <1>3, FS_Subset
<1> QED BY <1>1, <1>2, <1>4, FS_CardinalityType

\* The row that is read or created, the change that is told: all are counts of changes.
LEMMA ConfigTypesOK == ConfigBound /\ [ConfigNext]_configVars => ConfigBound'
<1> SUFFICES ASSUME ConfigBound, [ConfigNext]_configVars PROVE ConfigBound'
  OBVIOUS
<1>0. CInv'
  BY ConfigNextOK DEF ConfigBound
<1>1. /\ IsFiniteSet(Untold) /\ Cardinality(Untold) \in Nat
      /\ \A n \in Untold : n \in Nat /\ n <= Created(settings)
      /\ Created(settings) \in Settings /\ Created(settings) \in Nat
      /\ Created(Created(settings)) = Created(settings)
  BY UntoldIs, CreatedRow DEF ConfigBound, CInv, ConfigTypes
<1>2. ASSUME UNCHANGED <<change, keyVersion>>, Created(settings') = Created(settings)
      PROVE  ChangesCounted'
  <2>1. Untold' = Untold
    BY <1>2 DEF Untold
  <2> QED BY <1>2, <2>1 DEF ConfigBound, ChangesCounted
<1>3. ASSUME CacheHit \/ Expires \/ UNCHANGED configVars PROVE ConfigBound'
  <2>1. UNCHANGED <<settings, told, keyVersion, inFlight, load, change, synced>>
    BY <1>3 DEF CacheHit, Expires, configVars
  <2>2. cached' \in Settings \cup {Nothing} /\ outdated' \in BOOLEAN
    BY <1>3 DEF CacheHit, Expires, configVars, ConfigBound, ConfigTypeOK
  <2> QED BY <1>0, <1>2, <2>1, <2>2 DEF ConfigBound, ConfigTypeOK
<1>4. CASE JoinLoad
  <2>1. /\ inFlight \in Loads /\ load[inFlight] \in Load /\ told \in Settings
        /\ load' = [load EXCEPT ![inFlight].owed = told]
        /\ UNCHANGED <<settings, told, keyVersion, cached, inFlight, change, synced, outdated>>
    BY <1>4 DEF JoinLoad, ConfigBound, CInv, JoinIsCurrent, ConfigTypeOK
  <2>2. load' \in [Loads -> Load \cup {NoLoad}]
    <3> DEFINE q == [load[inFlight] EXCEPT !.owed = told]
    <3>1. q \in Load
      BY <2>1 DEF Load
    <3>2. load' = [load EXCEPT ![inFlight] = q]
      BY <2>1
    <3> HIDE DEF q
    <3> QED BY <3>1, <3>2 DEF ConfigBound, ConfigTypeOK
  <2> QED BY <1>0, <1>2, <2>1, <2>2 DEF ConfigBound, ConfigTypeOK
<1>5. ASSUME NEW l \in Loads, StartLoad(l) PROVE ConfigBound'
  <2> DEFINE new == [at |-> "read", keyVersion |-> keyVersion, value |-> Nothing, owed |-> told]
  <2>1. new \in Load
    BY DEF Load, ConfigBound, ConfigTypeOK
  <2>2. /\ load' = [load EXCEPT ![l] = new] /\ inFlight' = l
        /\ UNCHANGED <<settings, told, keyVersion, cached, change, synced, outdated>>
    BY <1>5 DEF StartLoad
  <2> HIDE DEF new
  <2> QED BY <1>0, <1>2, <2>1, <2>2 DEF ConfigBound, ConfigTypeOK
<1>6. ASSUME NEW l \in Loads, ReadRow(l) PROVE ConfigBound'
  <2> DEFINE q == [load[l] EXCEPT !.at = "return", !.value = Created(settings)]
  <2>1. /\ load[l] \in Load /\ settings' = Created(settings)
        /\ load' = [load EXCEPT ![l] = q]
        /\ UNCHANGED <<told, keyVersion, cached, inFlight, change, synced, outdated>>
    BY <1>6 DEF ReadRow, ConfigBound, ConfigTypeOK
  <2>2. q \in Load
    BY <1>1, <2>1 DEF Load
  <2> HIDE DEF q
  <2> QED BY <1>0, <1>1, <1>2, <2>1, <2>2 DEF ConfigBound, ConfigTypeOK
<1>7. ASSUME NEW l \in Loads, ReadFails(l) PROVE ConfigBound'
  BY <1>0, <1>2, <1>7 DEF ReadFails, ConfigBound, ConfigTypeOK
<1>8. ASSUME NEW l \in Loads, ReturnRow(l) PROVE ConfigBound'
  <2>1. load[l] \in Load
    BY <1>8 DEF ReturnRow, ConfigBound, ConfigTypeOK
  <2>2. load[l].value \in Settings \cup {Nothing}
    BY <2>1 DEF Load
  <2>3. outdated' \in BOOLEAN
    BY <1>8 DEF ReturnRow, ConfigBound, ConfigTypeOK
  <2>4. /\ cached' \in Settings \cup {Nothing} /\ inFlight' \in Loads \cup {NoLoad}
        /\ load' \in [Loads -> Load \cup {NoLoad}]
        /\ UNCHANGED <<settings, told, keyVersion, change, synced>>
    BY <1>8, <2>2 DEF ReturnRow, ConfigBound, ConfigTypeOK
  <2> QED BY <1>0, <1>2, <2>3, <2>4 DEF ConfigBound, ConfigTypeOK
<1>9. ASSUME NEW a \in Admins, updateEndpoint(a) PROVE ConfigBound'
  <2>1. /\ settings \in Settings /\ settings' = settings + 1 /\ settings + 1 \in Settings
        /\ change[a] = 0 /\ settings \in Nat
        /\ change' = [change EXCEPT ![a] = settings + 1]
        /\ UNCHANGED <<told, keyVersion, cached, inFlight, load, synced, outdated>>
    BY <1>9, SettingsAssumption DEF updateEndpoint, ConfigBound, ConfigTypeOK, Settings, Nothing
  <2>2. Created(settings) = settings /\ Created(settings') = settings + 1
    BY <2>1, NothingIsNone DEF Created
  <2>3. \A b \in Admins : change'[b] = IF b = a THEN settings + 1 ELSE change[b]
    BY <2>1 DEF ConfigBound, ConfigTypeOK
  <2>4. Untold' = Untold \cup {settings + 1} /\ settings + 1 \notin Untold
    <3>1. settings + 1 \notin Untold
      BY <1>1, <2>1, <2>2
    <3>2. \A n : n \in Untold' <=> n # 0 /\ \E b \in Admins : n = change'[b]
      BY DEF Untold
    <3>3. \A n : n \in Untold <=> n # 0 /\ \E b \in Admins : n = change[b]
      BY DEF Untold
    <3>4. settings + 1 # 0
      BY <2>1
    <3> QED BY <2>1, <2>3, <3>1, <3>2, <3>3, <3>4
  <2>5. Cardinality(Untold') = Cardinality(Untold) + 1
    BY <1>1, <2>4, FS_AddElement
  <2>6. \A b, c \in Admins : b # c /\ change'[b] # 0 => change'[b] # change'[c]
    <3>1. \A b \in Admins : change[b] # settings + 1
      BY <2>1, <2>4 DEF Untold
    <3> QED BY <2>3, <3>1 DEF ConfigBound, ChangesCounted
  <2>7. keyVersion' + Cardinality(Untold') <= Created(settings')
    BY <1>1, <2>1, <2>2, <2>5, NothingIsNone DEF ConfigBound, ChangesCounted, ConfigTypeOK
  <2>8. ChangesCounted'
    BY <2>6, <2>7 DEF ChangesCounted
  <2> QED BY <1>0, <2>1, <2>8 DEF ConfigBound, ConfigTypeOK
<1>10. ASSUME NEW a \in Admins, invalidate(a) PROVE ConfigBound'
  <2>1. /\ change[a] # 0 /\ keyVersion' = keyVersion + 1 /\ cached' = Nothing /\ inFlight' = NoLoad
        /\ told' = IF told < change[a] THEN change[a] ELSE told
        /\ change' = [change EXCEPT ![a] = 0]
        /\ UNCHANGED <<settings, load, synced, outdated>>
    BY <1>10 DEF invalidate, Forget
  <2>2. change[a] \in Settings /\ told' \in Settings
    BY <2>1 DEF ConfigBound, ConfigTypeOK
  <2>3. \A b \in Admins : change'[b] = IF b = a THEN 0 ELSE change[b]
    BY <2>1 DEF ConfigBound, ConfigTypeOK
  <2>4. Untold' = Untold \ {change[a]} /\ change[a] \in Untold
    BY <2>1, <2>3 DEF Untold, ConfigBound, ChangesCounted
  <2>5. Cardinality(Untold') = Cardinality(Untold) - 1
    BY <1>1, <2>4, FS_RemoveElement
  <2>6. keyVersion' + Cardinality(Untold') <= Created(settings')
    BY <1>1, <2>1, <2>5, NothingIsNone DEF ConfigBound, ChangesCounted, ConfigTypeOK
  <2>7. ChangesCounted'
    BY <2>3, <2>6 DEF ConfigBound, ChangesCounted
  <2>8. keyVersion' \in Settings
    <3>1. Cardinality(Untold') \in Nat /\ Created(settings') \in Settings
      BY <1>0, UntoldIs, <1>1, <2>1, <2>4, <2>5, FS_RemoveElement, FS_CardinalityType
    <3> QED BY <2>1, <2>6, <3>1, SettingsAssumption DEF ConfigBound, ConfigTypeOK, Settings
  <2>9. change' \in [Admins -> Settings]
    <3>1. 0 \in Settings
      BY SettingsAssumption DEF Settings
    <3> QED BY <2>1, <3>1 DEF ConfigBound, ConfigTypeOK
  <2> QED BY <1>0, <2>1, <2>2, <2>7, <2>8, <2>9 DEF ConfigBound, ConfigTypeOK
<1>11. CASE syncRegisteredApiEndpoints
  BY <1>0, <1>1, <1>2, <1>11 DEF syncRegisteredApiEndpoints, ConfigBound, ConfigTypeOK
<1>12. CASE Restart
  <2>1. /\ keyVersion' = 0 /\ cached' = Nothing /\ inFlight' = NoLoad
        /\ told' = Created(settings)
        /\ load' = [l \in Loads |-> NoLoad]
        /\ change' = [b \in Admins |-> 0]
        /\ synced' = FALSE
        /\ UNCHANGED <<settings, outdated>>
    BY <1>12 DEF Restart, Forget
  <2>2. 0 \in Settings
    BY SettingsAssumption DEF Settings
  <2>3. Untold' = {}
    BY <2>1 DEF Untold
  <2>4. Cardinality(Untold') = 0
    BY <2>3, FS_EmptySet
  <2>5. ChangesCounted'
    BY <1>1, <2>1, <2>4 DEF ChangesCounted
  <2> QED BY <1>0, <1>1, <2>1, <2>2, <2>5 DEF ConfigBound, ConfigTypeOK
<1> QED BY <1>3, <1>4, <1>5, <1>6, <1>7, <1>8, <1>9, <1>10, <1>11, <1>12 DEF ConfigNext

\* What the settings in memory can reach.
LEMMA ConfigReached == ConfigSpec => []ConfigTypeOK
<1>1. ConfigInit => ConfigBound
  <2> SUFFICES ASSUME ConfigInit PROVE ConfigBound
    OBVIOUS
  <2>1. CInv
    BY ConfigInitOK
  <2>2. 0 \in Settings
    BY SettingsAssumption DEF Settings
  <2>3. Untold = {} /\ Created(settings) = 0
    BY DEF ConfigInit, Untold, Created
  <2>4. Cardinality(Untold) = 0
    BY <2>3, FS_EmptySet
  <2>5. ChangesCounted
    BY <2>3, <2>4 DEF ConfigInit, ChangesCounted
  <2> QED BY <2>1, <2>2, <2>5 DEF ConfigInit, ConfigBound, ConfigTypeOK
<1>2. ConfigBound => ConfigTypeOK
  BY DEF ConfigBound
<1> QED BY <1>1, ConfigTypesOK, <1>2, PTL DEF ConfigSpec

----------------------------------------------------------------------------
(* The notices to everybody. *)

\* A publication under way has written to everybody up to its cursor, and holds its id alone.
UnderWay(s) ==
    LET q == sending[s] IN
    q # Silent =>
        /\ q.written = {u \in q.snapshot : u <= q.cursor}
        /\ published[q.id] = Unsent
        /\ \A other \in Senders \ {s} : sending[other] # Silent => sending[other].id # q.id

\* What is published went to those it was due to, and to nobody else.
Delivered(i) ==
    IF published[i] = Unsent
    THEN \A u \in Members : inbox[u][i] = "none"
    ELSE /\ {u \in Members : inbox[u][i] # "none"} = published[i].due
         /\ published[i].count = Cardinality(published[i].due)

Told(a) ==
    /\ published[a.id] # Unsent
    /\ published[a.id].payload = a.payload /\ published[a.id].count = a.count

NInv ==
    /\ NoticeTypeOK
    /\ \A s \in Senders : UnderWay(s)
    /\ \A i \in NoticeIds : Delivered(i)
    /\ \A a \in confirmed : Told(a)

\* Ids and payloads are not the marks for "none".
LEMMA NoticeSentinels == Silent \notin Sending /\ Unsent \notin Sent
  BY DEF Silent, Sending, Unsent, Sent

\* Every set of numbers has a smallest.
LEMMA SmallestOf ==
    ASSUME NEW S \in SUBSET Nat, S # {}
    PROVE  \E n \in S : \A m \in S : n <= m
  <1> DEFINE R == OpToRel(<, Nat)
  <1>1. PICK n \in S : \A m \in S : ~(<<m, n>> \in R)
    <2> HIDE DEF R
    <2>1. IsWellFoundedOn(R, Nat)
      BY NatLessThanWellFounded DEF R
    <2> QED BY <2>1, WFMin
  <1>2. \A m \in S : ~(m < n)
    BY <1>1 DEF OpToRel
  <1> QED BY <1>2

\* How many of S there are up to u.
Rank(S, u) == Cardinality({v \in S : v <= u})

\* Ranks grow with the members of the set.
LEMMA RankGrows ==
    ASSUME NEW S \in SUBSET Nat, NEW u \in S, NEW v \in S, u < v
    PROVE  Rank(S, u) \in Nat /\ Rank(S, v) \in Nat /\ Rank(S, u) < Rank(S, v)
  <1> DEFINE U == {x \in S : x <= u}
             V == {x \in S : x <= v}
  <1>1. IsFiniteSet(V) /\ U \in SUBSET V /\ v \in V /\ v \notin U
    <2>1. V \in SUBSET Nat /\ v \in Nat /\ u \in Nat /\ \A x \in V : x <= v
      OBVIOUS
    <2>2. IsFiniteSet(V)
      BY <2>1, FS_BoundedSetOfNaturals
    <2>3. \A x \in U : x <= v
      BY <2>1
    <2>4. v \in V /\ v \notin U
      BY <2>1
    <2>5. U \in SUBSET V
      BY <2>3
    <2> HIDE DEF U, V
    <2> QED BY <2>2, <2>4, <2>5
  <1>2. IsFiniteSet(U) /\ Cardinality(U) <= Cardinality(V) /\ Cardinality(U) # Cardinality(V)
    BY <1>1, FS_Subset
  <1>3. Cardinality(U) \in Nat /\ Cardinality(V) \in Nat
    BY <1>1, <1>2, FS_CardinalityType
  <1> QED BY <1>2, <1>3 DEF Rank

\* The page after the cursor leaves nobody out up to its last user, and is empty only
\* where nobody is left.
LEMMA PageIs ==
    ASSUME NEW q \in Sending
    PROVE  /\ Page(q) = {} => Ahead(q) = {}
           /\ Page(q) # {} => /\ LastOf(Page(q)) \in Page(q)
                              /\ Page(q) = {u \in Ahead(q) : u <= LastOf(Page(q))}
  <1> DEFINE A == Ahead(q)
             P == Page(q)
  <1>1. A \in SUBSET Nat /\ P = {u \in A : Rank(A, u) <= PageSize}
    BY NoticeAssumption DEF Sending, Ahead, Page, Rank
  <1>2. P = {} => A = {}
    <2>1. SUFFICES ASSUME A # {} PROVE P # {}
      OBVIOUS
    <2>2. PICK u \in A : \A v \in A : u <= v
      BY <1>1, <2>1, SmallestOf
    <2>3. {v \in A : v <= u} = {u}
      BY <1>1, <2>2
    <2>4. Rank(A, u) = 1
      BY <2>3, FS_Singleton DEF Rank
    <2> QED BY <1>1, <2>2, <2>4, NoticeAssumption
  <1>3. ASSUME P # {}
        PROVE  LastOf(P) \in P /\ P = {u \in A : u <= LastOf(P)}
    <2> DEFINE room(u) == PageSize - Rank(A, u)
    <2>1. \A u \in A : Rank(A, u) \in Nat
      <3>1. ASSUME NEW u \in A PROVE Rank(A, u) \in Nat
        <4>1. /\ {v \in A : v <= u} \in SUBSET Nat /\ u \in Nat
              /\ \A v \in {v \in A : v <= u} : v <= u
          BY <1>1
        <4> QED BY <4>1, FS_BoundedSetOfNaturals, FS_CardinalityType DEF Rank
      <3> QED BY <3>1
    <2> DEFINE rooms == {n \in Nat : \E u \in P : room(u) = n}
    <2>2. rooms \in SUBSET Nat /\ rooms # {}
      BY <1>1, <1>3, <2>1, NoticeAssumption
    <2>3. PICK n \in rooms : \A m \in rooms : n <= m
      BY <2>2, SmallestOf
    <2>4. PICK last \in P : room(last) = n
      BY <2>3
    <2>5. \A v \in P : room(last) <= room(v)
      BY <1>1, <2>1, <2>3, <2>4, NoticeAssumption
    <2>6. \A v \in P : v <= last
      <3>1. ASSUME NEW v \in P, last < v PROVE FALSE
        BY <1>1, <2>1, <2>4, <2>5, <3>1, RankGrows, NoticeAssumption
      <3> QED BY <1>1, <3>1
    <2>7. LastOf(P) \in P /\ \A v \in P : v <= LastOf(P)
      BY <2>6 DEF LastOf
    <2>8. ASSUME NEW u \in A, u <= LastOf(P) PROVE u \in P
      <3>1. CASE u = LastOf(P)
        BY <2>7, <3>1
      <3>2. CASE u # LastOf(P)
        <4>1. u < LastOf(P) /\ LastOf(P) \in A
          BY <1>1, <2>7, <2>8, <3>2
        <4>2. Rank(A, u) < Rank(A, LastOf(P)) /\ Rank(A, LastOf(P)) <= PageSize
          BY <1>1, <2>7, <4>1, RankGrows
        <4> QED BY <1>1, <2>1, <2>7, <4>1, <4>2, NoticeAssumption
      <3> QED BY <3>1, <3>2
    <2> QED BY <1>1, <2>7, <2>8
  <1> QED BY <1>2, <1>3

\* Nothing has been sent.
LEMMA NoticeInitOK == NoticeInit => NInv
  BY NoticeSentinels DEF NoticeInit, NInv, NoticeTypeOK, UnderWay, Delivered

\* Each step of senders, recipients and users.
LEMMA NoticeNextOK == ASSUME NInv, [NoticeNext]_noticeVars PROVE NInv'
  <1>0. \A u \in Members : u \in Nat /\ u # 0
    BY NoticeAssumption
  <1>1. ASSUME NEW s \in Senders, sending[s] # Silent
        PROVE  /\ sending[s] \in Sending /\ sending[s].id \in NoticeIds
               /\ sending[s].snapshot \in SUBSET Members /\ sending[s].payload \in Payloads
               /\ UnderWay(s)
    BY <1>1 DEF NInv, NoticeTypeOK, Sending
  <1>2. ASSUME UNCHANGED <<published, inbox, confirmed>>, enabled' \subseteq Members,
               sending' \in [Senders -> Sending \cup {Silent}],
               \A s \in Senders : UnderWay(s)'
        PROVE  NInv'
    BY <1>2 DEF NInv, NoticeTypeOK, Delivered, Told
  <1>3. CASE UNCHANGED noticeVars
    BY <1>3 DEF noticeVars, NInv, NoticeTypeOK, UnderWay, Delivered, Told
  <1>4. ASSUME NEW u \in Members, updateUserEnabled(u) PROVE NInv'
    BY <1>2, <1>4 DEF updateUserEnabled, NInv, NoticeTypeOK, UnderWay
  <1>5. ASSUME NEW u \in Members, NEW from \in SUBSET {"unread", "read"},
               NEW to \in {"read", "deleted"}, NEW ids \in SUBSET NoticeIds, MoveOn(u, from, to, ids)
        PROVE  NInv'
    <2>1. /\ \A v \in Members, i \in NoticeIds : inbox'[v][i] # "none" <=> inbox[v][i] # "none"
          /\ inbox' \in [Members -> [NoticeIds -> {"none", "unread", "read", "deleted"}]]
          /\ UNCHANGED <<enabled, published, sending, confirmed>>
      <3>1. inbox' = [inbox EXCEPT ![u] = [i \in NoticeIds |->
                        IF i \in ids /\ inbox[u][i] \in from THEN to ELSE inbox[u][i]]]
        BY <1>5 DEF MoveOn
      <3>2. inbox \in [Members -> [NoticeIds -> {"none", "unread", "read", "deleted"}]]
        BY DEF NInv, NoticeTypeOK
      <3>3. inbox' \in [Members -> [NoticeIds -> {"none", "unread", "read", "deleted"}]]
        BY <1>5, <3>1, <3>2
      <3>4. ASSUME NEW v \in Members, NEW i \in NoticeIds
            PROVE  inbox'[v][i] # "none" <=> inbox[v][i] # "none"
        BY <1>5, <3>1, <3>2
      <3> QED BY <1>5, <3>3, <3>4 DEF MoveOn
    <2>2. \A i \in NoticeIds : Delivered(i)'
      BY <2>1 DEF NInv, Delivered
    <2> QED BY <2>1, <2>2 DEF NInv, NoticeTypeOK, UnderWay, Told
  <1>6. ASSUME NEW s \in Senders, NEW i \in NoticeIds, NEW p \in Payloads, BeginNotice(s, i, p)
        PROVE  NInv'
    <2> DEFINE q == [id |-> i, payload |-> p, snapshot |-> enabled, cursor |-> 0, written |-> {}]
    <2>1. q \in Sending /\ sending' = [sending EXCEPT ![s] = q]
          /\ UNCHANGED <<enabled, published, inbox, confirmed>>
          /\ published[i] = Unsent /\ \A other \in Senders : sending[other].id # i
      BY <1>6 DEF BeginNotice, NInv, NoticeTypeOK, Sending
    <2>2. {u \in enabled : u <= 0} = {}
      BY <1>0 DEF NInv, NoticeTypeOK
    <2>3. UnderWay(s)'
      BY <2>1, <2>2 DEF UnderWay, NInv, NoticeTypeOK
    <2>4. ASSUME NEW other \in Senders \ {s} PROVE UnderWay(other)'
      BY <1>1, <2>1 DEF UnderWay, NInv, NoticeTypeOK, Silent
    <2> QED BY <1>2, <2>1, <2>3, <2>4 DEF NInv, NoticeTypeOK
  <1>7. ASSUME NEW s \in Senders, SendPage(s) PROVE NInv'
    <2> DEFINE q == sending[s]
               page == Page(q)
    <2>1. /\ q # Silent /\ page # {}
          /\ sending' = [sending EXCEPT ![s].cursor = LastOf(page), ![s].written = @ \cup page]
          /\ UNCHANGED <<enabled, published, inbox, confirmed>>
      BY <1>7 DEF SendPage
    <2>2. q \in Sending /\ UnderWay(s)
      BY <1>1, <2>1
    <2>3. /\ LastOf(page) \in page /\ page = {u \in Ahead(q) : u <= LastOf(page)}
          /\ page \in SUBSET Members
      BY <2>1, <2>2, PageIs DEF Page, Ahead, Sending
    <2> DEFINE n == [q EXCEPT !.cursor = LastOf(page), !.written = @ \cup page]
    <2>4. n \in Sending /\ sending' = [sending EXCEPT ![s] = n]
          /\ n.id = q.id /\ n.snapshot = q.snapshot /\ n.cursor = LastOf(page)
          /\ n.written = q.written \cup page
      BY <2>1, <2>2, <2>3 DEF Sending, NInv, NoticeTypeOK
    <2>5. n.written = {u \in n.snapshot : u <= n.cursor}
      <3>1. q.snapshot \in SUBSET Nat /\ q.cursor \in Nat /\ LastOf(page) \in Nat
        BY <1>0, <2>2, <2>3 DEF Sending
      <3>2. q.written = {u \in q.snapshot : u <= q.cursor} /\ q.cursor < LastOf(page)
        BY <2>1, <2>2, <2>3 DEF UnderWay, Ahead
      <3>3. page = {u \in q.snapshot : u > q.cursor /\ u <= LastOf(page)}
        BY <2>3 DEF Ahead
      <3> QED BY <2>4, <3>1, <3>2, <3>3
    <2>6. \A other \in Senders : UnderWay(other)'
      BY <2>1, <2>2, <2>4, <2>5 DEF UnderWay, NInv, NoticeTypeOK
    <2> QED BY <1>2, <2>1, <2>4, <2>6 DEF NInv, NoticeTypeOK
  <1>8. ASSUME NEW s \in Senders, publishSystemNotice(s) PROVE NInv'
    <2> DEFINE q == sending[s]
               n == [payload |-> q.payload, due |-> q.snapshot, count |-> Cardinality(q.written)]
               answer == [id |-> q.id, payload |-> q.payload, count |-> Cardinality(q.written)]
    <2>1. /\ q # Silent /\ Page(q) = {} /\ published' = [published EXCEPT ![q.id] = n]
          /\ inbox' = [u \in Members |-> IF u \in q.written THEN [inbox[u] EXCEPT ![q.id] = "unread"]
                                         ELSE inbox[u]]
          /\ confirmed' = confirmed \cup {answer}
          /\ sending' = [sending EXCEPT ![s] = Silent] /\ UNCHANGED enabled
      BY <1>8 DEF publishSystemNotice
    <2>2. q \in Sending /\ UnderWay(s) /\ q.id \in NoticeIds /\ q.payload \in Payloads
          /\ q.snapshot \in SUBSET Members
      BY <1>1, <2>1
    <2>3. q.written = q.snapshot
      <3>1. Ahead(q) = {}
        BY <2>1, <2>2, PageIs
      <3>2. q.snapshot \in SUBSET Nat /\ q.cursor \in Nat
        BY <1>0, <2>2 DEF Sending
      <3>3. \A u \in q.snapshot : u \in Nat /\ ~(u > q.cursor)
        BY <3>1, <3>2 DEF Ahead
      <3>4. q.written = {u \in q.snapshot : u <= q.cursor}
        BY <2>1, <2>2 DEF UnderWay
      <3> QED BY <3>2, <3>3, <3>4
    <2>4. Cardinality(q.snapshot) \in 0..Cardinality(Members)
      <3>1. IsFiniteSet(q.snapshot) /\ Cardinality(q.snapshot) <= Cardinality(Members)
        BY <2>2, NoticeAssumption, FS_Subset
      <3> QED BY <3>1, NoticeAssumption, FS_CardinalityType
    <2>5. n \in Sent /\ answer \in [id: NoticeIds, payload: Payloads, count: 0..Cardinality(Members)]
      BY <2>2, <2>3, <2>4 DEF Sent
    <2>6. inbox' \in [Members -> [NoticeIds -> {"none", "unread", "read", "deleted"}]]
      BY <2>1, <2>2 DEF NInv, NoticeTypeOK
    <2>7. NoticeTypeOK'
      BY <2>1, <2>2, <2>5, <2>6 DEF NInv, NoticeTypeOK
    <2>8. ASSUME NEW other \in Senders PROVE UnderWay(other)'
      <3>1. /\ sending'[s] = Silent /\ \A x \in Senders \ {s} : sending'[x] = sending[x]
            /\ \A i \in NoticeIds \ {q.id} : published'[i] = published[i]
        BY <2>1, <2>2 DEF NInv, NoticeTypeOK
      <3>2. other # s /\ sending[other] # Silent => sending[other].id # q.id
        BY <2>1, <2>2 DEF UnderWay
      <3> QED BY <1>1, <3>1, <3>2 DEF UnderWay
    <2>9. /\ n # Unsent /\ published'[q.id] = n
          /\ \A i \in NoticeIds \ {q.id} : published'[i] = published[i]
      BY <2>1, <2>2, <2>5, NoticeSentinels DEF NInv, NoticeTypeOK
    <2>10. ASSUME NEW i \in NoticeIds PROVE Delivered(i)'
      <3>1. CASE i = q.id
        <4>1. \A u \in Members : inbox[u][i] = "none"
          BY <2>1, <2>2, <3>1 DEF NInv, Delivered, UnderWay
        <4>2. \A u \in Members : inbox'[u][i] # "none" <=> u \in q.snapshot
          BY <2>1, <2>2, <2>3, <3>1, <4>1 DEF NInv, NoticeTypeOK
        <4> QED BY <2>2, <2>3, <2>9, <3>1, <4>2 DEF Delivered
      <3>2. CASE i # q.id
        <4>1. \A u \in Members : inbox'[u][i] = inbox[u][i]
          BY <2>1, <3>2 DEF NInv, NoticeTypeOK
        <4> QED BY <2>9, <3>2, <4>1 DEF NInv, Delivered
      <3> QED BY <3>1, <3>2
    <2>11. ASSUME NEW a \in confirmed' PROVE Told(a)'
      <3>1. CASE a = answer
        BY <2>9, <3>1 DEF Told
      <3>2. CASE a \in confirmed
        <4>1. Told(a) /\ a.id \in NoticeIds
          BY <3>2 DEF NInv, NoticeTypeOK
        <4>2. a.id # q.id
          BY <2>1, <2>2, <4>1 DEF Told, UnderWay
        <4> QED BY <2>9, <4>1, <4>2 DEF Told
      <3> QED BY <2>1, <2>11, <3>1, <3>2
    <2> QED BY <2>7, <2>8, <2>10, <2>11 DEF NInv
  <1>9. ASSUME NEW s \in Senders, RollBack(s) PROVE NInv'
    <2>1. \A other \in Senders : UnderWay(other)'
      BY <1>9 DEF RollBack, UnderWay, NInv, NoticeTypeOK
    <2> QED BY <1>2, <1>9, <2>1 DEF RollBack, NInv, NoticeTypeOK
  <1>10. ASSUME NEW i \in NoticeIds, NEW p \in Payloads, ReplayNotice(i, p) PROVE NInv'
    <2> DEFINE answer == [id |-> i, payload |-> p, count |-> published[i].count]
    <2>1. /\ published[i] # Unsent /\ published[i].payload = p /\ confirmed' = confirmed \cup {answer}
          /\ UNCHANGED <<enabled, published, inbox, sending>>
      BY <1>10 DEF ReplayNotice
    <2>2. answer \in [id: NoticeIds, payload: Payloads, count: 0..Cardinality(Members)]
      BY <2>1 DEF NInv, NoticeTypeOK, Sent
    <2>3. ASSUME NEW a \in confirmed' PROVE Told(a)'
      BY <2>1, <2>3 DEF NInv, Told
    <2> QED BY <2>1, <2>2, <2>3 DEF NInv, NoticeTypeOK, UnderWay, Delivered
  <1> QED
    BY <1>3, <1>4, <1>5, <1>6, <1>7, <1>8, <1>9, <1>10, ZenonT(40)
       DEF NoticeNext, markNotificationRead, markAllNotificationsRead, softDeleteNotification

\* What an administrator is told of a notice is true.
LEMMA NoticeReached == NInv => NoticeReachesEveryone
  <1>1. ASSUME NInv, NEW a \in confirmed
        PROVE  /\ published[a.id].payload = a.payload
               /\ {u \in Members : inbox[u][a.id] # "none"} = published[a.id].due
               /\ a.count = Cardinality(published[a.id].due)
    BY <1>1 DEF NInv, NoticeTypeOK, Told, Delivered
  <1> QED BY <1>1 DEF NoticeReachesEveryone

\* However users are enabled and disabled, and whatever is sent again, interrupted, read or
\* deleted meanwhile: what an administrator is told of a notice is true, and it went once to
\* exactly those who were enabled when it was written (system-notice.service.ts:85-147).
THEOREM NoticesReachEveryone == NoticeSpec => []NoticeReachesEveryone
  BY NoticeInitOK, NoticeNextOK, NoticeReached, PTL DEF NoticeSpec

----------------------------------------------------------------------------
(* Reading through Redis. *)

\* Changes that are committed and not invalidated are different ones.
Pending == {writer[w] : w \in Writers} \ {0}

PendingOK ==
    /\ \A w \in Writers : writer[w] <= rows
    /\ \A w, x \in Writers : w # x /\ writer[w] # 0 => writer[w] # writer[x]
    /\ listVersion + Cardinality(Pending) <= rows

AnnouncedAt(k) ==
    /\ \A w \in Writers : writer[w] \notin 1..k
    /\ k = rows \/ \E w \in Writers : writer[w] = k + 1

AnnouncedOK ==
    /\ Announced \in 0..rows /\ AnnouncedAt(Announced)
    /\ \A k \in 0..rows : AnnouncedAt(k) => k = Announced

Reads(r, kind) == reader[r] # Waiting /\ reader[r].kind = kind

\* A list that whoever looks it up under version v may be given, now and later.
GoodList(value, v) ==
    /\ v <= listVersion
    /\ v = listVersion => Announced <= value
    /\ \A r \in Readers : Reads(r, "list") /\ reader[r].version = v => reader[r].since <= value

\* The same for a detail, as long as nobody was on the way when one was invalidated.
GoodDetail(value) ==
    ~crossed => /\ Announced <= value
                /\ \A r \in Readers : Reads(r, "detail") => reader[r].since <= value

ReaderOK(r) ==
    LET q == reader[r] IN
    /\ q # Waiting => q.since <= rows
    /\ Reads(r, "list") => q.version <= listVersion
    /\ q # Waiting /\ q.at = "store" =>
         /\ q.value # None
         /\ q.kind = "list" => GoodList(q.value, q.version)
         /\ q.kind = "detail" => GoodDetail(q.value)

Fresh ==
    /\ ~stale
    /\ \A v \in Changes : list[v] # None => GoodList(list[v], v)
    /\ detail # None => GoodDetail(detail)
    /\ \A r \in Readers : ReaderOK(r)

FreshInv == CacheTypeOK /\ PendingOK /\ (failed \/ Fresh)

\* A reader in flight is a reader.
LEMMA WaitingIs ==
    /\ Waiting \notin Reader
    /\ CacheTypeOK => \A r \in Readers : /\ reader[r] # Waiting <=> reader[r] \in Reader
                                         /\ reader[r].kind \in {"list", "detail"} <=> reader[r] # Waiting
  <1>1. Waiting \notin Reader /\ Waiting.kind = "none"
    BY DEF Waiting, Reader
  <1> QED BY <1>1 DEF CacheTypeOK, Reader

\* There is one number up to which all changes are announced.
LEMMA AnnouncedIs ==
    CacheTypeOK /\ PendingOK => AnnouncedOK
  <1> SUFFICES ASSUME CacheTypeOK, PendingOK PROVE AnnouncedOK
    OBVIOUS
  <1>0. rows \in Nat /\ \A w \in Writers : writer[w] \in 0..rows
    BY CacheAssumption DEF CacheTypeOK, Changes, PendingOK
  <1>1. \E k \in 0..rows : AnnouncedAt(k)
    <2>1. CASE \A w \in Writers : writer[w] = 0
      BY <1>0, <2>1 DEF AnnouncedAt
    <2>2. CASE \E w \in Writers : writer[w] # 0
      <3>1. Pending \in SUBSET Nat /\ Pending # {}
        BY <1>0, <2>2 DEF Pending
      <3>2. PICK n \in Pending : \A m \in Pending : n <= m
        BY <3>1, SmallestOf
      <3>3. n \in 1..rows /\ \E w \in Writers : writer[w] = n
        BY <1>0, <3>2 DEF Pending
      <3>4. \A w \in Writers : writer[w] \notin 1..(n - 1)
        BY <1>0, <3>1, <3>2, <3>3 DEF Pending
      <3> QED BY <1>0, <3>3, <3>4 DEF AnnouncedAt
    <2> QED BY <2>1, <2>2
  <1>2. ASSUME NEW k \in 0..rows, NEW l \in 0..rows, AnnouncedAt(k), AnnouncedAt(l) PROVE ~(k < l)
    BY <1>0, <1>2 DEF AnnouncedAt
  <1>3. \A k, l \in 0..rows : AnnouncedAt(k) /\ AnnouncedAt(l) => k = l
    <2>1. ASSUME NEW k \in 0..rows, NEW l \in 0..rows, AnnouncedAt(k), AnnouncedAt(l) PROVE k = l
      BY <1>0, <1>2, <2>1
    <2> QED BY <2>1
  <1>4. Announced \in 0..rows /\ AnnouncedAt(Announced)
    BY <1>1 DEF Announced, AnnouncedAt
  <1> QED BY <1>3, <1>4 DEF AnnouncedOK, AnnouncedAt

\* What has just been read is good for everybody.
LEMMA RowsAreGood ==
    ASSUME FreshInv, ~failed
    PROVE  /\ \A v \in Changes : v <= listVersion => GoodList(rows, v)
           /\ GoodDetail(rows)
           /\ rows \in Changes /\ rows # None
  <1>1. Announced <= rows /\ rows \in Nat /\ rows \in Changes /\ rows # None
    BY AnnouncedIs, CacheAssumption DEF AnnouncedOK, FreshInv, CacheTypeOK, Changes, None
  <1>2. \A r \in Readers : reader[r] # Waiting => reader[r].since <= rows
    BY DEF FreshInv, Fresh, ReaderOK
  <1> QED BY <1>1, <1>2 DEF GoodList, GoodDetail, Reads

\* What is good stays good while readers come, go on and leave.
LEMMA ReadersMove ==
    ASSUME FreshInv, ~failed, UNCHANGED <<rows, listVersion, writer, crossed>>,
           \A r \in Readers :
              \/ reader'[r] = Waiting
              \/ /\ reader[r] # Waiting
                 /\ reader'[r].kind = reader[r].kind /\ reader'[r].version = reader[r].version
                 /\ reader'[r].since = reader[r].since
              \/ /\ reader'[r].since = Announced
                 /\ reader'[r].kind = "list" => reader'[r].version = listVersion
    PROVE  \A value : /\ \A v : GoodList(value, v) => GoodList(value, v)'
                      /\ GoodDetail(value) => GoodDetail(value)'
  <1>1. Announced' = Announced
    BY DEF Announced
  <1>2. ASSUME NEW value, NEW v, GoodList(value, v) PROVE GoodList(value, v)'
    BY <1>1, <1>2 DEF GoodList, Reads
  <1>3. ASSUME NEW value, GoodDetail(value) PROVE GoodDetail(value)'
    BY <1>1, <1>3 DEF GoodDetail, Reads
  <1> QED BY <1>2, <1>3

\* Nothing is cached.
LEMMA CacheInitOK == CacheInit => FreshInv
  <1> SUFFICES ASSUME CacheInit PROVE FreshInv
    OBVIOUS
  <1>1. CacheTypeOK
    <2>1. 0 \in Changes
      BY CacheAssumption DEF Changes
    <2> QED BY <2>1 DEF CacheInit, CacheTypeOK
  <1>2. Cardinality(Pending) = 0
    BY FS_EmptySet DEF CacheInit, Pending
  <1>3. PendingOK
    BY <1>2 DEF CacheInit, PendingOK
  <1> QED BY <1>1, <1>3, WaitingIs DEF CacheInit, FreshInv, Fresh, ReaderOK, Reads

\* The steps of the changes.
LEMMA ChangesOK ==
    ASSUME FreshInv, ~failed, NEW w \in Writers,
           Commit(w) \/ Invalidate(w) \/ InvalidateFails(w)
    PROVE  FreshInv'
  <1>0. /\ rows \in Nat /\ rows \in Changes /\ listVersion \in Nat /\ MaxChanges \in Nat
        /\ \A x \in Writers : writer[x] \in 0..rows
        /\ writer \in [Writers -> Changes] /\ CacheTypeOK /\ PendingOK /\ Fresh
        /\ Changes = 0..MaxChanges
    BY CacheAssumption DEF FreshInv, CacheTypeOK, Changes, PendingOK
  <1>1. IsFiniteSet(Pending) /\ Cardinality(Pending) \in Nat /\ Pending \in SUBSET (1..rows)
    <2>1. Pending \in SUBSET (1..rows)
      BY <1>0 DEF Pending
    <2>2. IsFiniteSet(1..rows)
      BY <1>0, FS_Interval
    <2> QED BY <2>1, <2>2, FS_Subset, FS_CardinalityType
  <1>2. CASE Commit(w)
    <2>1. /\ writer[w] = 0 /\ rows < MaxChanges /\ rows' = rows + 1
          /\ writer' = [writer EXCEPT ![w] = rows + 1]
          /\ UNCHANGED <<listVersion, list, detail, reader, stale, crossed, failed>>
      BY <1>2 DEF Commit
    <2>2. /\ writer'[w] = rows + 1 /\ \A x \in Writers \ {w} : writer'[x] = writer[x]
          /\ writer' \in [Writers -> Changes] /\ rows' \in Changes
      BY <1>0, <2>1
    <2>3. CacheTypeOK'
      BY <1>0, <2>1, <2>2 DEF CacheTypeOK
    <2>4. PendingOK'
      <3>1. Pending' = Pending \cup {rows + 1} /\ rows + 1 \notin Pending
        BY <1>0, <1>1, <2>1, <2>2 DEF Pending
      <3>2. Cardinality(Pending') = Cardinality(Pending) + 1
        BY <1>1, <3>1, FS_AddElement
      <3>3. \A x \in Writers : writer'[x] <= rows'
        BY <1>0, <2>1, <2>2
      <3>4. ASSUME NEW x \in Writers, NEW y \in Writers, x # y, writer'[x] # 0
            PROVE  writer'[x] # writer'[y]
        BY <1>0, <2>1, <2>2, <3>4 DEF PendingOK
      <3>5. listVersion' + Cardinality(Pending') <= rows'
        BY <1>0, <1>1, <2>1, <3>2 DEF PendingOK
      <3> QED BY <3>3, <3>4, <3>5 DEF PendingOK
    <2>5. Announced' = Announced
      <3>1. PICK k \in 0..rows : k = Announced /\ AnnouncedAt(k)
        BY <1>0, AnnouncedIs DEF AnnouncedOK
      <3>2. AnnouncedAt(k)' /\ k \in 0..rows'
        <4>1. \A x \in Writers : writer'[x] \notin 1..k
          BY <1>0, <2>1, <2>2, <3>1 DEF AnnouncedAt
        <4>2. k = rows => writer'[w] = k + 1
          BY <2>2
        <4>3. ASSUME NEW x \in Writers, writer[x] = k + 1 PROVE writer'[x] = k + 1
          BY <1>0, <2>1, <2>2, <4>3
        <4>4. k \in 0..rows' /\ rows' = rows + 1
          BY <1>0, <2>1
        <4> QED BY <3>1, <4>1, <4>2, <4>3, <4>4 DEF AnnouncedAt
      <3>3. AnnouncedOK'
        BY <2>3, <2>4, AnnouncedIs, PTL
      <3> QED BY <3>1, <3>2, <3>3 DEF AnnouncedOK
    <2>6. ASSUME NEW value
          PROVE  /\ \A v : GoodList(value, v) => GoodList(value, v)'
                 /\ GoodDetail(value) => GoodDetail(value)'
      BY <2>1, <2>5 DEF GoodList, GoodDetail, Reads
    <2>7. ASSUME NEW r \in Readers PROVE ReaderOK(r)'
      <3>1. reader[r] # Waiting => reader[r].since \in Nat
        BY <1>0 DEF CacheTypeOK, Reader, Changes
      <3>2. ReaderOK(r) /\ reader' = reader
        BY <1>0, <2>1 DEF Fresh
      <3>3. reader[r] # Waiting => reader[r].since <= rows'
        BY <1>0, <2>1, <3>1, <3>2 DEF ReaderOK
      <3>4. Reads(r, "list")' => reader[r].version <= listVersion'
        BY <2>1, <3>2 DEF ReaderOK, Reads
      <3> QED BY <2>6, <3>2, <3>3, <3>4 DEF ReaderOK
    <2>8. Fresh'
      BY <1>0, <2>1, <2>6, <2>7 DEF Fresh
    <2> QED BY <2>3, <2>4, <2>8 DEF FreshInv
  <1>3. ASSUME writer[w] # 0, writer' = [writer EXCEPT ![w] = 0], rows' = rows
        PROVE  /\ Cardinality(Pending') = Cardinality(Pending) - 1 /\ Cardinality(Pending) > 0
               /\ \A x \in Writers : writer'[x] <= rows'
               /\ \A x, y \in Writers : x # y /\ writer'[x] # 0 => writer'[x] # writer'[y]
               /\ writer' \in [Writers -> Changes]
    <2>1. /\ writer'[w] = 0 /\ \A x \in Writers \ {w} : writer'[x] = writer[x]
          /\ writer' \in [Writers -> Changes]
      BY <1>0, <1>3
    <2>2. Pending' = Pending \ {writer[w]} /\ writer[w] \in Pending
      BY <1>0, <1>3, <2>1 DEF Pending, PendingOK
    <2>3. Cardinality(Pending \ {writer[w]}) = Cardinality(Pending) - 1
      BY <1>1, <2>2, FS_RemoveElement
    <2>4. Cardinality(Pending) > 0
      BY <1>1, <2>2, FS_EmptySet
    <2>5. \A x \in Writers : writer'[x] <= rows'
      BY <1>0, <1>3, <2>1
    <2> QED BY <1>0, <2>1, <2>2, <2>3, <2>4, <2>5 DEF PendingOK
  <1>4. CASE InvalidateFails(w)
    <2>1. /\ writer[w] # 0 /\ failed' /\ writer' = [writer EXCEPT ![w] = 0]
          /\ UNCHANGED <<rows, listVersion, list, detail, reader, stale, crossed>>
      BY <1>4 DEF InvalidateFails
    <2>2. CacheTypeOK'
      BY <1>0, <1>3, <2>1 DEF CacheTypeOK
    <2>3. PendingOK'
      BY <1>0, <1>1, <1>3, <2>1 DEF PendingOK
    <2> QED BY <2>1, <2>2, <2>3 DEF FreshInv
  <1>5. CASE Invalidate(w)
    <2>1. /\ writer[w] # 0 /\ listVersion' = listVersion + 1 /\ detail' = None
          /\ crossed' = (crossed \/ \E r \in Readers : reader[r].kind = "detail")
          /\ writer' = [writer EXCEPT ![w] = 0]
          /\ UNCHANGED <<rows, list, reader, stale, failed>>
      BY <1>5 DEF Invalidate, ForgetDetail
    <2>2. PendingOK' /\ listVersion' \in Changes
      BY <1>0, <1>1, <1>3, <2>1 DEF PendingOK
    <2>3. CacheTypeOK'
      BY <1>0, <1>3, <2>1, <2>2 DEF CacheTypeOK
    <2>4. ASSUME NEW value, NEW v \in Nat, GoodList(value, v) PROVE GoodList(value, v)'
      BY <1>0, <2>1, <2>4 DEF GoodList, Reads
    <2>5. ASSUME NEW r \in Readers, ~crossed' PROVE ~Reads(r, "detail")
      BY <2>1, <2>5 DEF Reads
    <2>6. ASSUME NEW r \in Readers PROVE ReaderOK(r)'
      <3>1. reader[r] # Waiting => reader[r] \in Reader
        BY <1>0 DEF CacheTypeOK
      <3>2. ASSUME reader[r] # Waiting, reader[r].kind = "detail", NEW value PROVE GoodDetail(value)'
        BY <2>1, <2>5, <3>2 DEF GoodDetail, Reads
      <3>3. reader[r] # Waiting => reader[r].version \in Nat
        BY <1>0, <3>1 DEF Reader
      <3> QED BY <1>0, <2>1, <2>4, <3>2, <3>3 DEF Fresh, ReaderOK, Reads
    <2>7. Fresh'
      BY <1>0, <2>1, <2>4, <2>6 DEF Fresh
    <2> QED BY <2>2, <2>3, <2>7 DEF FreshInv
  <1> QED BY <1>2, <1>4, <1>5
\* The steps of the readers, and of time.
LEMMA ReadingOK ==
    ASSUME FreshInv, ~failed,
           \/ Expire
           \/ \E r \in Readers :
                \/ mallItemsListCacheKey(r) \/ mallItemDetailCacheKey(r) \/ ListVersionFails(r)
                \/ Hit(r) \/ Miss(r) \/ LoadRows(r) \/ Store(r) \/ StoreFails(r)
    PROVE  FreshInv'
  <1>0. /\ CacheTypeOK /\ PendingOK /\ Fresh /\ rows \in Changes /\ listVersion \in Changes
        /\ 0 \in Changes /\ None \notin Changes /\ \A v \in Changes : v \in Nat
    BY CacheAssumption DEF FreshInv, CacheTypeOK, Changes, None
  <1>1. UNCHANGED <<rows, listVersion, writer>> => PendingOK'
    BY <1>0 DEF PendingOK, Pending
  <1>2. Announced \in 0..rows /\ Announced \in Changes
    <2>1. rows \in 0..MaxChanges /\ MaxChanges \in Nat /\ Changes = 0..MaxChanges
      BY <1>0, CacheAssumption DEF Changes
    <2>2. Announced \in 0..rows
      BY <1>0, AnnouncedIs DEF AnnouncedOK
    <2>3. \A k \in 0..rows : k \in 0..MaxChanges
      BY <2>1
    <2> QED BY <2>1, <2>2, <2>3
  <1>3. ASSUME NEW r \in Readers
        PROVE  /\ reader[r] # Waiting <=> reader[r] \in Reader
               /\ reader[r] # Waiting => /\ reader[r].kind \in {"list", "detail"}
                                         /\ reader[r].version \in Changes /\ reader[r].since \in Changes
                                         /\ reader[r].value \in Changes \cup {None}
                                         /\ ReaderOK(r)
               /\ Waiting.kind = "none"
    BY <1>0, WaitingIs DEF Fresh, Reader, Waiting
  <1>4. CASE Expire
    <2>1. /\ \A v \in Changes : list'[v] # None => list'[v] = list[v]
          /\ list' \in [Changes -> Changes \cup {None}]
          /\ detail' \in {detail, None}
          /\ UNCHANGED <<rows, listVersion, reader, writer, stale, crossed, failed>>
      BY <1>0, <1>4 DEF Expire, CacheTypeOK
    <2>2. CacheTypeOK'
      BY <1>0, <2>1 DEF CacheTypeOK
    <2>3. Announced' = Announced
      BY <2>1 DEF Announced
    <2>4. \A value, v : GoodList(value, v)' <=> GoodList(value, v)
      BY <2>1, <2>3 DEF GoodList, Reads
    <2>5. \A value : GoodDetail(value)' <=> GoodDetail(value)
      BY <2>1, <2>3 DEF GoodDetail, Reads
    <2>6. Fresh'
      BY <1>0, <2>1, <2>4, <2>5 DEF Fresh, ReaderOK, Reads
    <2> QED BY <1>1, <2>1, <2>2, <2>6 DEF FreshInv
  <1>5. ASSUME NEW r \in Readers, NEW q \in Reader, reader' = [reader EXCEPT ![r] = q],
               q.at \in {"lookup", "load"},
               \/ /\ reader[r] # Waiting
                  /\ reader[r].kind = q.kind /\ reader[r].version = q.version
                  /\ reader[r].since = q.since
               \/ q.since = Announced /\ (q.kind = "list" => q.version = listVersion),
               UNCHANGED <<rows, listVersion, list, detail, writer, stale, crossed, failed>>
        PROVE  FreshInv'
    <2>1. CacheTypeOK'
      BY <1>0, <1>5 DEF CacheTypeOK
    <2>2. reader'[r] = q /\ \A x \in Readers \ {r} : reader'[x] = reader[x]
      BY <1>0, <1>5 DEF CacheTypeOK
    <2>3. \A value : /\ \A v : GoodList(value, v) => GoodList(value, v)'
                     /\ GoodDetail(value) => GoodDetail(value)'
      BY <1>5, <2>2, ReadersMove
    <2>4. ASSUME NEW x \in Readers PROVE ReaderOK(x)'
      <3>1. CASE x = r
        <4>1. q.since <= rows
          BY <1>0, <1>2, <1>3, <1>5 DEF ReaderOK
        <4>2. q.kind = "list" => q.version <= listVersion
          BY <1>0, <1>3, <1>5 DEF ReaderOK, Reads
        <4> QED BY <1>5, <2>2, <3>1, <4>1, <4>2 DEF ReaderOK, Reads
      <3>2. CASE x # r
        <4>1. ReaderOK(x) /\ reader'[x] = reader[x]
          BY <1>0, <2>2, <3>2 DEF Fresh
        <4> QED BY <1>5, <2>3, <4>1 DEF ReaderOK, Reads
      <3> QED BY <3>1, <3>2
    <2>5. Fresh'
      BY <1>0, <1>5, <2>3, <2>4 DEF Fresh
    <2> QED BY <1>1, <1>5, <2>1, <2>5 DEF FreshInv
  <1>6. ASSUME NEW r \in Readers, reader[r] # Waiting, NEW value \in Changes, Answer(r, value),
               reader[r].kind = "list" => GoodList(value, reader[r].version),
               reader[r].kind = "detail" => GoodDetail(value),
               list' \in [Changes -> Changes \cup {None}], detail' \in Changes \cup {None},
               \A v \in Changes : list'[v] \notin {list[v], None} => GoodList(list'[v], v),
               detail' \notin {detail, None} => GoodDetail(detail'),
               UNCHANGED <<rows, listVersion, writer, crossed, failed>>
        PROVE  FreshInv'
    <2>1. /\ reader'[r] = Waiting /\ \A x \in Readers \ {r} : reader'[x] = reader[x]
          /\ reader' \in [Readers -> Reader \cup {Waiting}]
      BY <1>0, <1>6 DEF Answer, CacheTypeOK
    <2>2. \A x : /\ \A v : GoodList(x, v) => GoodList(x, v)'
                 /\ GoodDetail(x) => GoodDetail(x)'
      <3>1. ASSUME NEW x \in Readers
            PROVE  \/ reader'[x] = Waiting
                   \/ /\ reader[x] # Waiting
                      /\ reader'[x].kind = reader[x].kind /\ reader'[x].version = reader[x].version
                      /\ reader'[x].since = reader[x].since
        BY <2>1
      <3> QED BY <1>6, <3>1, ReadersMove
    <2>3. ~stale'
      <3>1. reader[r].kind = "list" => reader[r].since <= value
        BY <1>6 DEF GoodList, Reads
      <3>2. reader[r].kind = "detail" /\ ~crossed => reader[r].since <= value
        BY <1>6 DEF GoodDetail, Reads
      <3>3. reader[r].since \in Nat /\ value \in Nat /\ reader[r].kind \in {"list", "detail"}
        BY <1>0, <1>3, <1>6
      <3>4. ~(value < reader[r].since /\ (reader[r].kind = "list" \/ ~crossed))
        BY <3>1, <3>2, <3>3
      <3> QED BY <1>0, <1>6, <3>4 DEF Answer, Fresh
    <2>4. CacheTypeOK'
      <3>1. stale' \in BOOLEAN
        BY <1>6 DEF Answer
      <3> QED BY <1>0, <1>6, <2>1, <3>1 DEF CacheTypeOK
    <2>5. ASSUME NEW x \in Readers PROVE ReaderOK(x)'
      <3>1. CASE x = r
        BY <2>1, <3>1 DEF ReaderOK, Reads
      <3>2. CASE x # r
        <4>1. ReaderOK(x) /\ reader'[x] = reader[x]
          BY <1>0, <2>1, <3>2 DEF Fresh
        <4> QED BY <1>6, <2>2, <4>1 DEF ReaderOK, Reads
      <3> QED BY <3>1, <3>2
    <2>6. ASSUME NEW v \in Changes, list'[v] # None PROVE GoodList(list[v], v)'
      <3>1. PICK x : x = list'[v]
        OBVIOUS
      <3>2. GoodList(x, v)
        BY <1>0, <1>6, <2>6, <3>1 DEF Fresh
      <3>3. GoodList(x, v)'
        BY <2>2, <3>2
      <3> QED BY <3>1, <3>3 DEF GoodList
    <2>7. detail' # None => GoodDetail(detail)'
      <3>1. PICK x : x = detail'
        OBVIOUS
      <3>2. detail' # None => GoodDetail(x)
        BY <1>0, <1>6, <3>1 DEF Fresh
      <3>3. detail' # None => GoodDetail(x)'
        BY <2>2, <3>2
      <3> QED BY <3>1, <3>3 DEF GoodDetail
    <2>8. Fresh'
      BY <2>3, <2>5, <2>6, <2>7 DEF Fresh
    <2> QED BY <1>1, <1>6, <2>4, <2>8 DEF FreshInv
  <1>7. ASSUME NEW r \in Readers,
               mallItemsListCacheKey(r) \/ mallItemDetailCacheKey(r)
        PROVE  FreshInv'
    <2> DEFINE new(kind, v) == [kind |-> kind, at |-> "lookup", version |-> v,
                                value |-> None, since |-> Announced]
    <2>1. ASSUME NEW kind \in {"list", "detail"}, NEW v \in Changes PROVE new(kind, v) \in Reader
      BY <1>2 DEF Reader
    <2>2. CASE mallItemsListCacheKey(r)
      BY <1>0, <1>5, <2>1, <2>2 DEF mallItemsListCacheKey, Look
    <2>3. CASE mallItemDetailCacheKey(r)
      BY <1>0, <1>5, <2>1, <2>3 DEF mallItemDetailCacheKey, Look
    <2> QED BY <1>7, <2>2, <2>3
  <1>8. ASSUME NEW r \in Readers, ListVersionFails(r) PROVE FreshInv'
    <2>1. [kind |-> "list", at |-> "lookup", version |-> 0, value |-> None, since |-> Announced]
            \in Reader
      BY <1>0, <1>2 DEF Reader
    <2>2. CacheTypeOK'
      BY <1>0, <1>8, <2>1 DEF ListVersionFails, Look, CacheTypeOK
    <2> QED BY <1>1, <1>8, <2>2 DEF ListVersionFails, Look, FreshInv
  <1>9. ASSUME NEW r \in Readers, Miss(r) PROVE FreshInv'
    <2> DEFINE q == [reader[r] EXCEPT !.at = "load"]
    <2>1. q \in Reader /\ reader' = [reader EXCEPT ![r] = q]
      BY <1>3, <1>9 DEF Miss, Reader
    <2>2. /\ q.at = "load" /\ q.kind = reader[r].kind /\ q.version = reader[r].version
          /\ q.since = reader[r].since
      BY <1>3, <1>9 DEF Miss, Reader
    <2> QED BY <1>5, <1>9, <2>1, <2>2 DEF Miss
  <1>10. ASSUME NEW r \in Readers, LoadRows(r) PROVE FreshInv'
    <2> DEFINE q == [reader[r] EXCEPT !.at = "store", !.value = rows]
    <2>1. /\ reader[r] # Waiting /\ q \in Reader /\ reader' = [reader EXCEPT ![r] = q]
          /\ UNCHANGED <<rows, listVersion, list, detail, writer, stale, crossed, failed>>
      BY <1>0, <1>3, <1>10 DEF LoadRows, Reader
    <2>2. /\ q.at = "store" /\ q.value = rows /\ q.kind = reader[r].kind
          /\ q.version = reader[r].version /\ q.since = reader[r].since
      BY <1>3, <2>1 DEF Reader
    <2>3. reader'[r] = q /\ \A x \in Readers \ {r} : reader'[x] = reader[x]
      BY <1>0, <2>1 DEF CacheTypeOK
    <2>4. \A value : /\ \A v : GoodList(value, v) => GoodList(value, v)'
                     /\ GoodDetail(value) => GoodDetail(value)'
      <3>1. ASSUME NEW x \in Readers
            PROVE  \/ reader'[x] = Waiting
                   \/ /\ reader[x] # Waiting
                      /\ reader'[x].kind = reader[x].kind /\ reader'[x].version = reader[x].version
                      /\ reader'[x].since = reader[x].since
        BY <2>1, <2>2, <2>3
      <3> QED BY <2>1, <3>1, ReadersMove
    <2>5. ASSUME NEW x \in Readers PROVE ReaderOK(x)'
      <3>1. CASE x = r
        <4>1. ReaderOK(r) /\ rows # None /\ q.version \in Changes
          BY <1>0, <1>3, <2>1, <2>2
        <4>2. Reads(r, "list") => q.version <= listVersion
          BY <2>2, <4>1 DEF ReaderOK
        <4>3. q.kind = "list" => GoodList(rows, q.version)'
          BY <2>1, <2>2, <2>4, <4>1, <4>2, RowsAreGood DEF Reads
        <4>4. q.kind = "detail" => GoodDetail(rows)'
          <5>1. PICK n : n = rows
            OBVIOUS
          <5>2. GoodDetail(n)'
            BY <2>4, <5>1, RowsAreGood
          <5> QED BY <2>1, <5>1, <5>2 DEF GoodDetail
        <4>5. q.since <= rows
          BY <2>1, <2>2, <4>1 DEF ReaderOK
        <4>6. q.kind = "list" => q.version <= listVersion
          BY <2>1, <2>2, <4>2 DEF Reads
        <4>7. rows' = rows /\ listVersion' = listVersion
          BY <2>1
        <4> QED BY <2>2, <2>3, <3>1, <4>1, <4>3, <4>4, <4>5, <4>6, <4>7 DEF ReaderOK, Reads
      <3>2. CASE x # r
        <4>1. ReaderOK(x) /\ reader'[x] = reader[x]
          BY <1>0, <2>3, <3>2 DEF Fresh
        <4> QED BY <2>1, <2>4, <4>1 DEF ReaderOK, Reads
      <3> QED BY <3>1, <3>2
    <2>6. CacheTypeOK'
      BY <1>0, <2>1 DEF CacheTypeOK
    <2>7. Fresh'
      BY <1>0, <2>1, <2>4, <2>5 DEF Fresh
    <2> QED BY <1>1, <2>1, <2>6, <2>7 DEF FreshInv
  <1>11. ASSUME NEW r \in Readers, Hit(r) PROVE FreshInv'
    <2>1. /\ reader[r] # Waiting /\ Cached(reader[r]) # None /\ Answer(r, Cached(reader[r]))
          /\ UNCHANGED <<rows, listVersion, list, detail, writer, crossed, failed>>
      BY <1>11 DEF Hit
    <2>2. CASE reader[r].kind = "list"
      <3>1. Cached(reader[r]) = list[reader[r].version] /\ reader[r].version \in Changes
        BY <1>3, <2>1, <2>2 DEF Cached
      <3>2. /\ list[reader[r].version] \in Changes
            /\ GoodList(list[reader[r].version], reader[r].version)
        BY <1>0, <2>1, <3>1 DEF Fresh, CacheTypeOK
      <3> QED BY <1>0, <1>6, <2>1, <2>2, <3>1, <3>2 DEF CacheTypeOK
    <2>3. CASE reader[r].kind = "detail"
      <3>1. Cached(reader[r]) = detail /\ detail \in Changes /\ GoodDetail(detail)
        BY <1>0, <2>1, <2>3 DEF Cached, Fresh, CacheTypeOK
      <3> QED BY <1>0, <1>6, <2>1, <2>3, <3>1 DEF CacheTypeOK
    <2> QED BY <1>3, <2>1, <2>2, <2>3
  <1>12. ASSUME NEW r \in Readers, Store(r) \/ StoreFails(r) PROVE FreshInv'
    <2> DEFINE q == reader[r]
    <2>1. /\ q # Waiting /\ q.at = "store" /\ Answer(r, q.value)
          /\ UNCHANGED <<rows, listVersion, writer, crossed, failed>>
      BY <1>12 DEF Store, StoreFails
    <2>2. /\ q.value \in Changes /\ q.version \in Changes
          /\ q.kind = "list" => GoodList(q.value, q.version)
          /\ q.kind = "detail" => GoodDetail(q.value)
          /\ q.kind \in {"list", "detail"}
      BY <1>3, <2>1 DEF ReaderOK
    <2>3. CASE StoreFails(r)
      BY <1>0, <1>6, <2>1, <2>2, <2>3 DEF StoreFails, CacheTypeOK
    <2>4. CASE Store(r) /\ q.kind = "list"
      <3>1. list' = [list EXCEPT ![q.version] = q.value] /\ UNCHANGED detail
        BY <2>4 DEF Store, StoreKey
      <3>2. /\ list' \in [Changes -> Changes \cup {None}]
            /\ \A v \in Changes : list'[v] = IF v = q.version THEN q.value ELSE list[v]
        BY <1>0, <2>2, <3>1 DEF CacheTypeOK
      <3>3. \A v \in Changes : list'[v] \notin {list[v], None} => GoodList(list'[v], v)
        BY <2>2, <2>4, <3>2
      <3> QED BY <1>0, <1>6, <2>1, <2>2, <2>4, <3>1, <3>2, <3>3 DEF CacheTypeOK
    <2>5. CASE Store(r) /\ q.kind = "detail"
      <3>1. detail' = q.value /\ UNCHANGED list
        BY <2>5 DEF Store
      <3> QED BY <1>0, <1>6, <2>1, <2>2, <2>5, <3>1 DEF CacheTypeOK
    <2> QED BY <1>12, <2>2, <2>3, <2>4, <2>5
  <1> QED BY <1>4, <1>7, <1>8, <1>9, <1>10, <1>11, <1>12

\* All steps.
LEMMA CacheNextOK == FreshInv /\ [CacheNext]_cacheVars => FreshInv'
  <1> SUFFICES ASSUME FreshInv, [CacheNext]_cacheVars PROVE FreshInv'
    OBVIOUS
  <1>1. CASE UNCHANGED cacheVars
    <2>1. Announced' = Announced
      BY <1>1 DEF cacheVars, Announced
    <2>2. \A value : /\ GoodDetail(value)' <=> GoodDetail(value)
                     /\ \A v : GoodList(value, v)' <=> GoodList(value, v)
      BY <1>1, <2>1 DEF cacheVars, GoodDetail, GoodList, Reads
    <2>3. CacheTypeOK' /\ PendingOK' /\ (failed' <=> failed)
      BY <1>1 DEF cacheVars, FreshInv, CacheTypeOK, PendingOK, Pending
    <2>4. ASSUME Fresh PROVE Fresh'
      <3>1. \A r \in Readers : ReaderOK(r)'
        BY <1>1, <2>2, <2>4 DEF cacheVars, Fresh, ReaderOK, Reads
      <3>2. \A v \in Changes : list[v] # None => GoodList(list[v], v)'
        BY <1>1, <2>2, <2>4 DEF cacheVars, Fresh
      <3> QED BY <1>1, <2>2, <2>4, <3>1 DEF cacheVars, Fresh
    <2> QED BY <2>3, <2>4 DEF FreshInv
  <1>2. CASE CacheNext
    BY <1>2, ChangesOK, ReadingOK DEF CacheNext
  <1> QED BY <1>1, <1>2

\* However slow readers are, however many changes are committed and not yet announced, and
\* whatever expires: nobody is given a list older than what was invalidated before he asked,
\* nor a detail, unless a reader of it was under way during an invalidation
\* (redis-cache.ts:57-77, 179-217, 225-235).
THEOREM ServedFresh == CacheSpec => []ServedIsFresh
  <1>1. FreshInv => ServedIsFresh
    BY DEF FreshInv, Fresh, ServedIsFresh
  <1> QED BY <1>1, CacheInitOK, CacheNextOK, PTL DEF CacheSpec

----------------------------------------------------------------------------
(* The avatars. *)

\* Reviews are numbered as they come.
ReviewsInTurn == \E k \in 0..MaxReviews : Submitted = 1..k

\* Nobody else was sent to review with the picture of this one.
OwnPicture(n) == \A i \in Submitted : review[i].pic = review[n].pic => i = n

\* A submission is over before anybody can know the verdict.
CallbackOK(c) ==
    callback[c] # 0 => /\ callback[c] \in Submitted
                       /\ step[callback[c]] = "done" /\ verdict[callback[c]] # "none"

AvatarOK ==
    avatar # 0 => /\ avatar \in Submitted /\ review[avatar].status = "PASSED"
                  /\ step[avatar] = "done" /\ verdict[avatar] = "pass"

PictureStands(n) == OwnPicture(n) => picture[review[n].pic] = "ATTACHED"

AvatarInv ==
    /\ ReviewTypeOK
    /\ ReviewsInTurn
    /\ \A n \in Reviews : step[n] = "none" <=> review[n].status = "NONE"
    /\ \A c \in Callbacks : CallbackOK(c)
    /\ AvatarOK
    /\ \A n \in Submitted : review[n].status = "PENDING" => PictureStands(n)
    /\ avatar # 0 => PictureStands(avatar)

\* The latest review is the one with the greatest number.
LEMMA LatestIs ==
    ASSUME AvatarInv
    PROVE  /\ Latest \in Submitted \cup {0} /\ Submitted = 1..Latest
           /\ Latest \in Nat /\ Submitted \subseteq Reviews /\ Reviews \subseteq Nat
  <1>1. PICK k \in 0..MaxReviews : Submitted = 1..k
    BY DEF AvatarInv, ReviewsInTurn
  <1>2. k \in Nat /\ MaxReviews \in Nat
    BY ReviewsAssumption
  <1>3. k \in Submitted \cup {0} /\ \A i \in Submitted : i <= k
    BY <1>1, <1>2
  <1>4. Latest \in Submitted \cup {0} /\ \A i \in Submitted : i <= Latest
    BY <1>3 DEF Latest
  <1>5. Latest = k
    BY <1>1, <1>2, <1>3, <1>4
  <1> QED BY <1>1, <1>2, <1>3, <1>5 DEF Reviews, Submitted

\* The profile starts without an avatar.
LEMMA ReviewInitOK == ReviewInit => AvatarInv
  <1> SUFFICES ASSUME ReviewInit PROVE AvatarInv
    OBVIOUS
  <1>1. PICK m \in Urls : m = CHOOSE u \in Urls : TRUE
    BY ReviewsAssumption
  <1>2. review = [n \in Reviews |-> [status |-> "NONE", pic |-> m]]
    BY <1>1 DEF ReviewInit
  <1>3. Submitted = {} /\ Submitted = 1..0
    BY <1>2 DEF Submitted
  <1>4. ReviewTypeOK
    <2>1. review \in [Reviews -> [status: Statuses, pic: Urls]]
      BY <1>2 DEF Statuses
    <2>2. picture \in [Urls -> AssetState]
      BY DEF ReviewInit, AssetState
    <2>3. /\ step = [n \in Reviews |-> "none"] /\ verdict = [n \in Reviews |-> "none"]
          /\ old = {} /\ callback = [c \in Callbacks |-> 0] /\ avatar = 0
      BY DEF ReviewInit
    <2>4. OnePending
      BY <1>2 DEF OnePending
    <2> QED BY <2>1, <2>2, <2>3, <2>4 DEF ReviewTypeOK
  <1>5. ReviewsInTurn
    BY <1>3, ReviewsAssumption DEF ReviewsInTurn
  <1>6. /\ avatar = 0 /\ \A c \in Callbacks : callback[c] = 0
        /\ \A n \in Reviews : step[n] = "none"
    BY DEF ReviewInit
  <1> QED BY <1>2, <1>3, <1>4, <1>5, <1>6 DEF AvatarInv, CallbackOK, AvatarOK

\* A step that leaves the reviews, the avatar and the pictures as they are.
LEMMA NothingShown ==
    ASSUME AvatarInv, UNCHANGED <<review, avatar, picture>>,
           step' \in [Reviews -> {"none", "asking", "accepted", "done"}],
           verdict' \in [Reviews -> Verdicts \cup {"none"}],
           old' \subseteq Reviews, callback' \in [Callbacks -> {0} \cup Reviews],
           \A n \in Reviews : step[n] \in {"none", "done"} => step'[n] = step[n] /\ verdict'[n] = verdict[n],
           \A n \in Reviews : step'[n] = "none" <=> step[n] = "none",
           \A c \in Callbacks : callback'[c] # 0 /\ callback'[c] # callback[c] =>
                                    /\ callback'[c] \in Submitted
                                    /\ step[callback'[c]] = "done" /\ verdict[callback'[c]] # "none"
    PROVE  AvatarInv'
  <1>1. ReviewTypeOK'
    BY DEF AvatarInv, ReviewTypeOK, OnePending
  <1>2. Submitted' = Submitted /\ ReviewsInTurn' /\ Submitted \subseteq Reviews
    BY DEF AvatarInv, ReviewsInTurn, Submitted
  <1>3. \A c \in Callbacks : CallbackOK(c)'
    BY <1>2 DEF AvatarInv, CallbackOK
  <1>4. AvatarOK'
    BY <1>2 DEF AvatarInv, AvatarOK
  <1>5. \A n : PictureStands(n)' <=> PictureStands(n)
    BY <1>2 DEF PictureStands, OwnPicture
  <1> QED BY <1>1, <1>2, <1>3, <1>4, <1>5 DEF AvatarInv

\* A step that ends a review which is not the one shown, and gives up pictures of such reviews.
LEMMA ReviewEnds ==
    ASSUME AvatarInv, NEW n \in Submitted, NEW status \in {"FAILED", "REJECTED", "SUPERSEDED"},
           n # avatar, Settle(n, status),
           step' \in [Reviews -> {"none", "asking", "accepted", "done"}],
           \A i \in Reviews : step[i] \in {"none", "done"} => step'[i] = step[i],
           \A i \in Reviews : step'[i] = "none" <=> step[i] = "none",
           callback' \in [Callbacks -> {0} \cup Reviews],
           \A c \in Callbacks : callback'[c] \in {0, callback[c]},
           picture' = picture \/ picture' = RequestDelete(picture, {review[n].pic}),
           UNCHANGED <<verdict, old, avatar>>
    PROVE  AvatarInv'
  <1>0. Submitted \subseteq Reviews /\ n \in Reviews /\ review \in [Reviews -> [status: Statuses, pic: Urls]]
        /\ picture \in [Urls -> AssetState] /\ status \in Statuses
    BY DEF Submitted, AvatarInv, ReviewTypeOK, Statuses
  <1>1. /\ review' \in [Reviews -> [status: Statuses, pic: Urls]]
        /\ \A i \in Reviews : /\ review'[i].pic = review[i].pic
                              /\ review'[i].status = IF i = n THEN status ELSE review[i].status
    BY <1>0 DEF Settle
  <1>2. Submitted' = Submitted
    BY <1>0, <1>1, ZenonT(40) DEF Submitted
  <1>3. picture' \in [Urls -> AssetState] /\ \A m \in Urls : m # review[n].pic => picture'[m] = picture[m]
    BY <1>0 DEF RequestDelete, AssetState
  <1>4. ReviewTypeOK'
    BY <1>0, <1>1, <1>3 DEF AvatarInv, ReviewTypeOK, OnePending
  <1>5. ReviewsInTurn' /\ \A i \in Reviews : step'[i] = "none" <=> review'[i].status = "NONE"
    BY <1>0, <1>1, <1>2 DEF AvatarInv, ReviewsInTurn, Submitted
  <1>6. \A c \in Callbacks : CallbackOK(c)'
    BY <1>0, <1>2 DEF AvatarInv, CallbackOK
  <1>7. AvatarOK'
    BY <1>0, <1>1, <1>2 DEF AvatarInv, AvatarOK
  <1>8. ASSUME NEW i \in Submitted, i # n, PictureStands(i) PROVE PictureStands(i)'
    <2>1. OwnPicture(i)' => OwnPicture(i) /\ review[i].pic # review[n].pic
      BY <1>0, <1>1, <1>2, <1>8 DEF OwnPicture
    <2> QED BY <1>0, <1>1, <1>3, <1>8, <2>1 DEF PictureStands
  <1>9. \A i \in Submitted : review'[i].status = "PENDING" => PictureStands(i)'
    BY <1>0, <1>1, <1>8 DEF AvatarInv
  <1>10. avatar' # 0 => PictureStands(avatar)'
    <2>1. avatar # 0 => PictureStands(avatar) /\ avatar \in Submitted
      BY DEF AvatarInv, AvatarOK
    <2>2. PICK a : a = avatar
      OBVIOUS
    <2>3. avatar # 0 => PictureStands(a)'
      BY <1>8, <2>1, <2>2
    <2> QED BY <2>2, <2>3 DEF PictureStands, OwnPicture
  <1> QED BY <1>2, <1>4, <1>5, <1>6, <1>7, <1>9, <1>10 DEF AvatarInv

\* All steps, and what each does to the avatar.
LEMMA ReviewNextOK ==
    ASSUME AvatarInv, [ReviewNext]_avatarVars
    PROVE  AvatarInv' /\ (avatar' # avatar => avatar' > avatar /\ verdict[avatar'] = "pass")
  <1>0. /\ Latest \in Submitted \cup {0} /\ Submitted = 1..Latest /\ Latest \in Nat
        /\ Submitted \subseteq Reviews /\ Reviews \subseteq Nat /\ 0 \notin Reviews
        /\ ReviewTypeOK /\ (avatar # 0 => avatar \in Submitted)
    BY LatestIs DEF AvatarInv, AvatarOK, Reviews
  <1>1. CASE UNCHANGED avatarVars
    BY <1>1, NothingShown DEF avatarVars, AvatarInv, ReviewTypeOK
  <1>2. ASSUME NEW n \in Reviews, NEW m \in Urls, CreateReview(n, m) PROVE AvatarInv' /\ avatar' = avatar
    <2>1. /\ n = Latest + 1 /\ picture' = [picture EXCEPT ![m] = "PENDING"]
          /\ review' = [review EXCEPT ![n] = [status |-> "SUBMITTING", pic |-> m]]
          /\ step' = [step EXCEPT ![n] = "asking"]
          /\ UNCHANGED <<verdict, old, callback, avatar>>
      BY <1>2 DEF CreateReview
    <2>2. n \notin Submitted
      BY <1>0, <2>1
    <2>3. /\ review' \in [Reviews -> [status: Statuses, pic: Urls]]
          /\ review'[n].status = "SUBMITTING" /\ review'[n].pic = m
          /\ \A i \in Reviews \ {n} : review'[i] = review[i]
      BY <1>0, <2>1 DEF ReviewTypeOK, Statuses
    <2>4. Submitted' = Submitted \cup {n}
      BY <1>0, <2>3 DEF Submitted
    <2>5. ReviewTypeOK'
      BY <1>0, <2>1, <2>3 DEF ReviewTypeOK, OnePending, AssetState
    <2>6. ReviewsInTurn'
      <3>1. Submitted' = 1..n /\ n \in 0..MaxReviews
        BY <1>0, <2>1, <2>4, ReviewsAssumption DEF Reviews
      <3> QED BY <3>1 DEF ReviewsInTurn
    <2>7. \A i \in Reviews : step'[i] = "none" <=> review'[i].status = "NONE"
      BY <1>0, <2>1, <2>3 DEF AvatarInv, ReviewTypeOK
    <2>8. \A c \in Callbacks : CallbackOK(c)'
      BY <1>0, <2>1, <2>2, <2>4 DEF AvatarInv, CallbackOK, ReviewTypeOK
    <2>9. AvatarOK'
      BY <1>0, <2>1, <2>2, <2>3, <2>4 DEF AvatarInv, AvatarOK, ReviewTypeOK
    <2>10. ASSUME NEW i \in Submitted, PictureStands(i) PROVE PictureStands(i)'
      <3>1. i # n /\ i \in Reviews
        BY <1>0, <2>2, <2>10
      <3>2. OwnPicture(i)' => OwnPicture(i) /\ review[i].pic # m
        BY <1>0, <2>2, <2>3, <2>4, <3>1 DEF OwnPicture
      <3>3. review[i].pic \in Urls
        BY <1>0, <3>1 DEF ReviewTypeOK
      <3> QED BY <1>0, <2>1, <2>3, <2>10, <3>1, <3>2, <3>3 DEF PictureStands, ReviewTypeOK
    <2>11. \A i \in Submitted' : review'[i].status = "PENDING" => PictureStands(i)'
      BY <1>0, <2>3, <2>4, <2>10 DEF AvatarInv
    <2>12. avatar' # 0 => PictureStands(avatar)'
      <3>1. PICK a : a = avatar
        OBVIOUS
      <3>2. avatar # 0 => PictureStands(a)'
        BY <1>0, <2>10, <3>1 DEF AvatarInv
      <3> QED BY <2>1, <3>1, <3>2 DEF PictureStands, OwnPicture
    <2> QED BY <2>1, <2>5, <2>6, <2>7, <2>8, <2>9, <2>11, <2>12 DEF AvatarInv
  <1>3. ASSUME NEW n \in Reviews, NEW v \in Verdicts, WechatAccepts(n, v) PROVE AvatarInv' /\ avatar' = avatar
    <2>1. /\ step[n] = "asking" /\ step' = [step EXCEPT ![n] = "accepted"]
          /\ verdict' = [verdict EXCEPT ![n] = v]
          /\ UNCHANGED <<review, old, callback, avatar, picture>>
      BY <1>3 DEF WechatAccepts
    <2>2. /\ step' \in [Reviews -> {"none", "asking", "accepted", "done"}]
          /\ verdict' \in [Reviews -> Verdicts \cup {"none"}]
          /\ \A i \in Reviews : step[i] \in {"none", "done"} => step'[i] = step[i] /\ verdict'[i] = verdict[i]
          /\ \A i \in Reviews : step'[i] = "none" <=> step[i] = "none"
      BY <1>0, <2>1 DEF ReviewTypeOK
    <2> QED BY <1>0, <2>1, <2>2, NothingShown DEF ReviewTypeOK
  <1>4. ASSUME NEW n \in Reviews, step[n] \in {"asking", "accepted"} PROVE n \in Submitted /\ n # avatar
    BY <1>0, <1>4 DEF AvatarInv, AvatarOK, Submitted
  <1>5. ASSUME NEW n \in Reviews, WechatRefuses(n) PROVE AvatarInv' /\ avatar' = avatar
    <2>1. /\ step[n] = "asking" /\ Settle(n, "FAILED") /\ step' = [step EXCEPT ![n] = "done"]
          /\ UNCHANGED <<verdict, old, callback, avatar, picture>>
      BY <1>5 DEF WechatRefuses
    <2>2. /\ step' \in [Reviews -> {"none", "asking", "accepted", "done"}]
          /\ \A i \in Reviews : step[i] \in {"none", "done"} => step'[i] = step[i]
          /\ \A i \in Reviews : step'[i] = "none" <=> step[i] = "none"
      BY <1>0, <2>1 DEF ReviewTypeOK
    <2> QED BY <1>0, <1>4, <2>1, <2>2, ReviewEnds DEF ReviewTypeOK
  <1>6. ASSUME NEW n \in Reviews, submit(n) PROVE AvatarInv' /\ avatar' = avatar
    <2>1. /\ step[n] = "accepted" /\ step' = [step EXCEPT ![n] = "done"]
          /\ UNCHANGED <<verdict, old, callback, avatar>>
      BY <1>6 DEF submit
    <2>2. /\ step' \in [Reviews -> {"none", "asking", "accepted", "done"}]
          /\ \A i \in Reviews : step[i] \in {"none", "done"} => step'[i] = step[i]
          /\ \A i \in Reviews : step'[i] = "none" <=> step[i] = "none"
      BY <1>0, <2>1 DEF ReviewTypeOK
    <2>3. n \in Submitted /\ n # avatar
      BY <1>4, <2>1
    <2>4. CASE n # Latest
      BY <1>0, <1>6, <2>1, <2>2, <2>3, <2>4, ReviewEnds DEF submit, ReviewTypeOK
    <2>5. CASE n = Latest
      <3> DEFINE gone == {review[i].pic : i \in Superseded(n)}
      <3>1. /\ picture[review[n].pic] \in {"PENDING", "ATTACHED"}
            /\ review' = [i \in Reviews |->
                            IF i = n THEN [review[i] EXCEPT !.status = "PENDING"]
                            ELSE IF i \in Superseded(n) THEN [review[i] EXCEPT !.status = "SUPERSEDED"]
                            ELSE review[i]]
            /\ picture' = RequestDelete(Attach(picture, {review[n].pic}), gone)
        BY <1>6, <2>5 DEF submit, MayAttach
      <3>2. /\ review' \in [Reviews -> [status: Statuses, pic: Urls]]
            /\ review'[n].status = "PENDING"
            /\ \A i \in Reviews : review'[i].pic = review[i].pic
            /\ \A i \in Reviews \ {n} : review'[i].status \in {review[i].status, "SUPERSEDED"}
                                        /\ review'[i].status # "PENDING"
            /\ \A i \in Reviews : review'[i].status = "NONE" <=> review[i].status = "NONE"
            /\ \A i \in Reviews : review[i].status = "PASSED" /\ i # n => review'[i].status = "PASSED"
        <4>1. review \in [Reviews -> [status: Statuses, pic: Urls]] /\ n \in Submitted
          BY <1>0, <2>3 DEF ReviewTypeOK
        <4> QED BY <3>1, <4>1 DEF Statuses, Submitted, Superseded, Open
      <3>3. Submitted' = Submitted
        BY <3>2 DEF Submitted
      <3>4. /\ picture' \in [Urls -> AssetState]
            /\ review[n].pic \notin gone => picture'[review[n].pic] = "ATTACHED"
            /\ \A m \in Urls \ gone : picture[m] = "ATTACHED" => picture'[m] = "ATTACHED"
        BY <1>0, <2>3, <3>1 DEF ReviewTypeOK, Attach, RequestDelete, AssetState
      <3>5. ReviewTypeOK'
        BY <1>0, <2>1, <2>2, <3>2, <3>4 DEF ReviewTypeOK, OnePending
      <3>6. ReviewsInTurn' /\ \A i \in Reviews : step'[i] = "none" <=> review'[i].status = "NONE"
        BY <2>2, <3>2, <3>3 DEF AvatarInv, ReviewsInTurn
      <3>7. \A c \in Callbacks : CallbackOK(c)'
        BY <1>0, <2>1, <2>2, <3>3 DEF AvatarInv, CallbackOK
      <3>8. AvatarOK'
        BY <1>0, <2>1, <2>2, <2>3, <3>2, <3>3 DEF AvatarInv, AvatarOK
      <3>9. ASSUME NEW i \in Submitted, OwnPicture(i)', i = n \/ i \notin Superseded(n)
            PROVE  OwnPicture(i) /\ review[i].pic \in Urls \ gone
        BY <1>0, <2>3, <3>2, <3>3, <3>9 DEF OwnPicture, Superseded, Open, Submitted, ReviewTypeOK
      <3>10. PictureStands(n)'
        BY <1>0, <2>3, <3>2, <3>4, <3>9 DEF PictureStands
      <3>11. \A i \in Submitted : review'[i].status = "PENDING" => PictureStands(i)'
        BY <1>0, <3>2, <3>10
      <3>12. avatar' # 0 => PictureStands(avatar)'
        <4>1. PICK a : a = avatar
          OBVIOUS
        <4>2. a # 0 => /\ PictureStands(a) /\ a \in Submitted /\ a \notin Superseded(n)
          BY <4>1 DEF AvatarInv, AvatarOK, Superseded, Open
        <4>3. a # 0 => PictureStands(a)'
          BY <1>0, <3>2, <3>4, <3>9, <4>2 DEF PictureStands
        <4> QED BY <2>1, <4>1, <4>3 DEF PictureStands, OwnPicture
      <3> QED BY <2>1, <3>3, <3>5, <3>6, <3>7, <3>8, <3>11, <3>12 DEF AvatarInv
    <2> QED BY <2>4, <2>5
  <1>7. ASSUME NEW n \in Reviews, SubmitLost(n) PROVE AvatarInv' /\ avatar' = avatar
    <2>1. /\ step[n] \in {"asking", "accepted"} /\ step' = [step EXCEPT ![n] = "done"]
          /\ UNCHANGED <<review, verdict, old, callback, avatar, picture>>
      BY <1>7 DEF SubmitLost
    <2>2. /\ step' \in [Reviews -> {"none", "asking", "accepted", "done"}]
          /\ \A i \in Reviews : step[i] \in {"none", "done"} => step'[i] = step[i]
          /\ \A i \in Reviews : step'[i] = "none" <=> step[i] = "none"
      BY <1>0, <2>1 DEF ReviewTypeOK
    <2> QED BY <1>0, <2>1, <2>2, NothingShown DEF ReviewTypeOK
  <1>8. ASSUME NEW n \in Reviews, Age(n) PROVE AvatarInv' /\ avatar' = avatar
    BY <1>0, <1>8, NothingShown DEF Age, ReviewTypeOK
  <1>9. ASSUME NEW n \in Reviews, getStatus(n) PROVE AvatarInv' /\ avatar' = avatar
    <2>1. /\ review[n].status \in Open /\ Settle(n, "FAILED")
          /\ UNCHANGED <<step, verdict, old, callback, avatar, picture>>
      BY <1>9 DEF getStatus
    <2>2. n \in Submitted /\ n # avatar
      BY <1>0, <2>1 DEF Open, Submitted, AvatarInv, AvatarOK
    <2> QED BY <1>0, <2>1, <2>2, ReviewEnds DEF ReviewTypeOK
  <1>10. ASSUME NEW c \in Callbacks, Answered(c)
         PROVE  /\ callback' \in [Callbacks -> {0} \cup Reviews]
                /\ \A d \in Callbacks : callback'[d] \in {0, callback[d]}
    BY <1>0, <1>10 DEF Answered, ReviewTypeOK
  <1>11. ASSUME NEW c \in Callbacks, ResultError(c) PROVE AvatarInv' /\ avatar' = avatar
    <2> DEFINE n == callback[c]
               status == IF verdict[n] = "error" THEN "FAILED" ELSE "REJECTED"
    <2>1. /\ n # 0 /\ verdict[n] \in {"error", "reject"} /\ Settle(n, status)
          /\ picture' = RequestDelete(picture, {review[n].pic}) /\ Answered(c)
          /\ UNCHANGED <<step, verdict, old, avatar>>
      BY <1>11 DEF ResultError
    <2>2. n \in Submitted /\ n # avatar
      BY <2>1 DEF AvatarInv, CallbackOK, AvatarOK
    <2> QED BY <1>0, <1>10, <2>1, <2>2, ReviewEnds DEF ReviewTypeOK
  <1>12. ASSUME NEW c \in Callbacks, ResultPass(c)
         PROVE  AvatarInv' /\ (avatar' # avatar => avatar' > avatar /\ verdict[avatar'] = "pass")
    <2>0. PICK n : n = callback[c]
      OBVIOUS
    <2>1. n # 0 /\ verdict[n] = "pass" /\ Answered(c) /\ UNCHANGED <<step, verdict, old>>
      BY <1>12, <2>0 DEF ResultPass
    <2>2. n \in Submitted /\ n \in Reviews /\ step[n] = "done"
      BY <1>0, <2>0, <2>1 DEF AvatarInv, CallbackOK
    <2>3. CASE ~StillDue(n)
      <3>1. /\ review[n].status = "PENDING" => Settle(n, "SUPERSEDED")
            /\ review[n].status # "PENDING" => UNCHANGED review
            /\ UNCHANGED <<avatar, picture>>
        BY <1>12, <2>0, <2>3 DEF ResultPass
      <3>2. CASE review[n].status = "PENDING"
        <4>1. n # avatar
          BY <2>1, <3>2 DEF AvatarInv, AvatarOK
        <4> QED BY <1>0, <1>10, <2>1, <2>2, <3>1, <3>2, <4>1, ReviewEnds DEF ReviewTypeOK
      <3>3. CASE review[n].status # "PENDING"
        BY <1>0, <1>10, <2>1, <3>1, <3>3, NothingShown DEF ReviewTypeOK
      <3> QED BY <3>2, <3>3
    <2>4. CASE StillDue(n)
      <3>1. /\ review[n].status = "PENDING" /\ n = Latest /\ avatar' = n
            /\ review' = [review EXCEPT ![n].status = "PASSED"]
            /\ picture' = RequestDelete(picture, PreviousPicture(n))
        BY <1>12, <2>0, <2>4 DEF ResultPass, StillDue, Settle
      <3>2. avatar # n /\ avatar < n
        <4>1. avatar # n
          BY <2>1, <3>1 DEF AvatarInv, AvatarOK
        <4>2. avatar \in 0..n
          BY <1>0, <3>1
        <4> QED BY <1>0, <2>2, <4>1, <4>2
      <3>3. /\ review' \in [Reviews -> [status: Statuses, pic: Urls]]
            /\ review'[n].status = "PASSED"
            /\ \A i \in Reviews : review'[i].pic = review[i].pic
            /\ \A i \in Reviews \ {n} : review'[i].status = review[i].status
        BY <1>0, <2>2, <3>1 DEF ReviewTypeOK, Statuses
      <3>4. Submitted' = Submitted
        BY <1>0, <2>2, <3>3 DEF Submitted
      <3>5. \A i \in Reviews \ {n} : review[i].status # "PENDING"
        BY <1>0, <2>2, <3>1 DEF ReviewTypeOK, OnePending
      <3>6. /\ picture' \in [Urls -> AssetState]
            /\ picture[review[n].pic] = "ATTACHED" => picture'[review[n].pic] = "ATTACHED"
        BY <1>0, <2>2, <3>1 DEF ReviewTypeOK, RequestDelete, AssetState, PreviousPicture
      <3>7. ReviewTypeOK'
        BY <1>0, <1>10, <2>1, <2>2, <3>1, <3>3, <3>5, <3>6 DEF ReviewTypeOK, OnePending
      <3>8. ReviewsInTurn' /\ \A i \in Reviews : step'[i] = "none" <=> review'[i].status = "NONE"
        BY <2>1, <2>2, <3>1, <3>3, <3>4 DEF AvatarInv, ReviewsInTurn
      <3>9. \A d \in Callbacks : CallbackOK(d)'
        BY <1>0, <1>10, <2>1, <3>4 DEF AvatarInv, CallbackOK
      <3>10. AvatarOK'
        BY <2>1, <2>2, <3>1, <3>3, <3>4 DEF AvatarOK
      <3>11. PictureStands(n)'
        <4>1. OwnPicture(n)' => OwnPicture(n)
          BY <1>0, <2>2, <3>3, <3>4 DEF OwnPicture
        <4>2. PictureStands(n)
          BY <2>2, <3>1 DEF AvatarInv
        <4> QED BY <2>2, <3>3, <3>6, <4>1, <4>2 DEF PictureStands
      <3>12. PictureStands(avatar)'
        BY <3>1, <3>11 DEF PictureStands, OwnPicture
      <3>13. \A i \in Submitted' : review'[i].status = "PENDING" => PictureStands(i)'
        BY <1>0, <2>2, <3>3, <3>4, <3>5
      <3> QED BY <2>1, <3>1, <3>2, <3>7, <3>8, <3>9, <3>10, <3>12, <3>13 DEF AvatarInv
    <2> QED BY <2>3, <2>4
  <1>13. ASSUME NEW c \in Callbacks, ResultLost(c) PROVE AvatarInv' /\ avatar' = avatar
    BY <1>0, <1>10, <1>13, NothingShown DEF ResultLost, ReviewTypeOK
  <1>14. ASSUME NEW c \in Callbacks, NEW n \in Reviews, BeginResult(c, n) PROVE AvatarInv' /\ avatar' = avatar
    <2>1. /\ step[n] = "done" /\ verdict[n] # "none" /\ review[n].status = "PENDING"
          /\ callback' = [callback EXCEPT ![c] = n]
          /\ UNCHANGED <<review, step, verdict, old, avatar, picture>>
      BY <1>14 DEF BeginResult, Known
    <2>2. /\ n \in Submitted /\ callback' \in [Callbacks -> {0} \cup Reviews]
          /\ \A d \in Callbacks : callback'[d] \in {n, callback[d]}
      BY <1>0, <2>1 DEF Submitted, ReviewTypeOK
    <2> QED BY <1>0, <2>1, <2>2, NothingShown DEF ReviewTypeOK
  <1> QED BY <1>1, <1>2, <1>3, <1>5, <1>6, <1>7, <1>8, <1>9, <1>11, <1>12, <1>13, <1>14 DEF ReviewNext

\* All of it holds of every behaviour.
LEMMA ReviewReached == ReviewSpec => []AvatarInv
  <1>1. AvatarInv /\ [ReviewNext]_avatarVars => AvatarInv'
    BY ReviewNextOK
  <1> QED BY <1>1, ReviewInitOK, PTL DEF ReviewSpec

\* The picture a profile shows, if it was sent to review once only, is never given up to
\* the cleanup, whatever verdicts come late, twice or after a time-out
\* (avatar-review.service.ts:88-92, 135-151, 176-179).
THEOREM AvatarStays == ReviewSpec => []AvatarIsKept
  <1>1. AvatarInv => AvatarIsKept
    BY DEF AvatarInv, AvatarIsKept, AvatarOK, PictureStands, OwnPicture
  <1> QED BY <1>1, ReviewReached, PTL

\* Only a younger review that passed takes the place of the avatar shown
\* (avatar-review.service.ts:155-171).
THEOREM AvatarAdvances == ReviewSpec => AvatarMovesForward
  <1>1. AvatarInv /\ [ReviewNext]_avatarVars =>
          [avatar' # avatar => avatar' > avatar /\ verdict[avatar'] = "pass"]_avatarVars
    BY ReviewNextOK
  <1> QED BY <1>1, ReviewReached, PTL DEF ReviewSpec, AvatarMovesForward

----------------------------------------------------------------------------
(* The entries of the mini program. *)

\* The first k rows are there, and unless these are none or all, somebody inserts the next.
RowsUpTo(k) ==
    /\ ThereTabs(tab) = 1..k
    /\ \A c \in Callers : At(c, "create") => call[c].next \in 1..(k + 1)
    /\ k \in 1..(LastTab - 1) => \E c \in Callers : At(c, "create") /\ call[c].next = k + 1

\* Where a request is, says what it goes by.
CallOK(c) ==
    /\ At(c, "lookup") \/ At(c, "count") => call[c].next = 1
    /\ At(c, "create") => call[c].next \in Tabs
    /\ At(c, "update") => tab[call[c].key] # "none"

\* Whoever reads or stores them has all of them.
ReadsAll(c) ==
    /\ At(c, "read") => ThereTabs(tab) = Tabs
    /\ At(c, "store") => ThereTabs(call[c].value) = Tabs

BInv ==
    /\ TabsTypeOK
    /\ \A c \in Callers : CallOK(c)
    /\ ~cutShort => \E k \in 0..LastTab : RowsUpTo(k)
    /\ ~cutShort /\ ~halfway => /\ ThereTabs(keptTabs) \in {{}, Tabs}
                                /\ \A c \in Callers : ReadsAll(c)

\* There is nothing but requests and the mark for none.
LEMMA CallsAre ==
    ASSUME BInv
    PROVE  /\ NoCall \notin Call /\ NoTabs \in Entries /\ ThereTabs(NoTabs) = {} /\ 1 \in Tabs
           /\ LastTab \in Tabs /\ Tabs \subseteq Nat /\ LastTab \in Nat
           /\ \A c \in Callers : call[c] # NoCall => call[c] \in Call
           /\ \A c \in Callers : \A where : At(c, where) => call[c] \in Call /\ call[c].at = where
  <1>1. NoCall \notin Call
    BY DEF NoCall, Call
  <1>2. NoTabs \in Entries /\ ThereTabs(NoTabs) = {}
    BY DEF NoTabs, Entries, ThereTabs
  <1> QED BY <1>1, <1>2, TabsAssumption DEF BInv, TabsTypeOK, At, Tabs

\* No row, nobody at work.
LEMMA TabsInitOK == TabsInit => BInv
  <1> SUFFICES ASSUME TabsInit PROVE BInv
    OBVIOUS
  <1>1. \A c \in Callers : \A where : ~At(c, where)
    BY DEF TabsInit, At
  <1>2. ThereTabs(tab) = {} /\ ThereTabs(keptTabs) = {} /\ 1..0 = {}
    BY DEF TabsInit, NoTabs, ThereTabs
  <1>3. TabsTypeOK
    BY DEF TabsInit, TabsTypeOK, NoTabs, Entries
  <1>4. 0 \in 0..LastTab /\ RowsUpTo(0)
    BY <1>1, <1>2, TabsAssumption DEF RowsUpTo
  <1> QED BY <1>1, <1>2, <1>3, <1>4 DEF BInv, CallOK, ReadsAll

\* A step of one request that inserts no row and does not stop among its inserts.
LEMMA CallMoves ==
    ASSUME BInv, NEW c \in Callers, NEW q \in Call \cup {NoCall},
           call' = [call EXCEPT ![c] = q],
           tab' \in Entries, keptTabs' \in Entries, halfway' \in BOOLEAN, UNCHANGED cutShort,
           halfway => halfway', ThereTabs(tab') = ThereTabs(tab),
           cutShort \/ ~At(c, "create") \/ call[c].next \in ThereTabs(tab),
           q # NoCall => /\ q.at \in {"lookup", "count", "create"} => q.next = 1
                         /\ q.at = "create" => ThereTabs(tab) = {}
                         /\ q.at = "update" => tab[q.key] # "none",
           ~cutShort /\ ~halfway' =>
               /\ ThereTabs(keptTabs') \in {{}, Tabs}
               /\ q # NoCall => /\ q.at = "read" => ThereTabs(tab) = Tabs
                                /\ q.at = "store" => ThereTabs(q.value) = Tabs
    PROVE  BInv'
  <1>0. /\ NoCall \notin Call /\ 1 \in Tabs /\ LastTab \in Nat /\ Tabs = 1..LastTab
        /\ call \in [Callers -> Call \cup {NoCall}] /\ tab \in Entries
    BY CallsAre DEF BInv, TabsTypeOK, Tabs
  <1>1. /\ call'[c] = q /\ \A d \in Callers \ {c} : call'[d] = call[d]
        /\ call' \in [Callers -> Call \cup {NoCall}]
    BY <1>0
  <1>2. TabsTypeOK'
    BY <1>1 DEF BInv, TabsTypeOK
  <1>3. /\ \A d \in Callers \ {c} : \A where : At(d, where)' <=> At(d, where)
        /\ \A where : At(c, where)' <=> q # NoCall /\ q.at = where
    BY <1>1 DEF At
  <1>4. \A t \in Tabs : tab'[t] # "none" <=> tab[t] # "none"
    BY DEF ThereTabs
  <1>5. \A d \in Callers : CallOK(d)'
    <2>1. CallOK(c)'
      <3>1. q \in Call => q.key \in Tabs
        BY DEF Call
      <3> QED BY <1>0, <1>1, <1>3, <1>4, <3>1 DEF CallOK
    <2>2. ASSUME NEW d \in Callers \ {c} PROVE CallOK(d)'
      <3>1. CallOK(d) /\ (At(d, "update") => call[d].key \in Tabs)
        BY <1>0 DEF BInv, Call, At
      <3> QED BY <1>1, <1>3, <1>4, <3>1 DEF CallOK
    <2> QED BY <2>1, <2>2
  <1>6. ASSUME ~cutShort', NEW k \in 0..LastTab, RowsUpTo(k) PROVE RowsUpTo(k)'
    <2>1. ThereTabs(tab)' = 1..k
      BY <1>6 DEF RowsUpTo, ThereTabs
    <2>2. \A d \in Callers : At(d, "create")' => call'[d].next \in 1..(k + 1)
      BY <1>0, <1>1, <1>3, <1>6 DEF RowsUpTo
    <2>3. ASSUME k \in 1..(LastTab - 1) PROVE \E d \in Callers : At(d, "create")' /\ call'[d].next = k + 1
      <3>1. PICK d \in Callers : At(d, "create") /\ call[d].next = k + 1
        BY <1>6, <2>3 DEF RowsUpTo
      <3>2. d # c
        BY <1>0, <1>6, <2>3, <3>1 DEF RowsUpTo
      <3> QED BY <1>1, <1>3, <3>1, <3>2
    <2> QED BY <2>1, <2>2, <2>3 DEF RowsUpTo
  <1>7. ASSUME ~cutShort', ~halfway'
        PROVE  ThereTabs(keptTabs)' \in {{}, Tabs} /\ \A d \in Callers : ReadsAll(d)'
    <2>1. \A d \in Callers \ {c} : ReadsAll(d)
      BY <1>7 DEF BInv, TabsTypeOK
    <2>2. ThereTabs(tab)' = ThereTabs(tab) /\ ThereTabs(keptTabs)' = ThereTabs(keptTabs')
          /\ \A d \in Callers : ThereTabs(call[d].value)' = ThereTabs(call'[d].value)
      BY DEF ThereTabs
    <2> QED BY <1>1, <1>3, <1>7, <2>1, <2>2 DEF ReadsAll
  <1> QED BY <1>2, <1>5, <1>6, <1>7 DEF BInv

\* All steps.
LEMMA TabsNextOK == BInv /\ [TabsNext]_tabsVars => BInv'
  <1> SUFFICES ASSUME BInv, [TabsNext]_tabsVars PROVE BInv'
    OBVIOUS
  <1>0. /\ NoCall \notin Call /\ NoTabs \in Entries /\ ThereTabs(NoTabs) = {} /\ 1 \in Tabs
        /\ LastTab \in Tabs /\ LastTab \in Nat /\ Tabs = 1..LastTab
        /\ call \in [Callers -> Call \cup {NoCall}] /\ tab \in Entries /\ keptTabs \in Entries
        /\ cutShort \in BOOLEAN /\ halfway \in BOOLEAN
        /\ \A c \in Callers : call[c] # NoCall => call[c] \in Call
        /\ \A c \in Callers : \A where : At(c, where) => call[c] \in Call /\ call[c].at = where
    BY CallsAre DEF BInv, TabsTypeOK, Tabs
  <1>1. ~cutShort /\ ~halfway => /\ ThereTabs(keptTabs) \in {{}, Tabs}
                                 /\ \A c \in Callers : ReadsAll(c)
    BY DEF BInv
  <1>2. CASE UNCHANGED tabsVars
    BY <1>2 DEF tabsVars, BInv, TabsTypeOK, CallOK, RowsUpTo, ReadsAll, At, ThereTabs
  <1>3. CASE TabsExpire
    <2>1. keptTabs' = NoTabs /\ UNCHANGED <<tab, call, cutShort, halfway>>
      BY <1>3 DEF TabsExpire
    <2>2. ThereTabs(keptTabs)' = {}
      BY <1>0, <2>1 DEF ThereTabs
    <2>3. TabsTypeOK'
      BY <1>0, <2>1 DEF TabsTypeOK, BInv
    <2>4. \A c \in Callers : CallOK(c)' /\ (ReadsAll(c) => ReadsAll(c)')
      BY <2>1 DEF BInv, CallOK, At, ReadsAll, ThereTabs
    <2>5. \A k \in 0..LastTab : RowsUpTo(k) => RowsUpTo(k)'
      BY <2>1 DEF RowsUpTo, At, ThereTabs
    <2> QED BY <1>1, <2>1, <2>2, <2>3, <2>4, <2>5 DEF BInv
  <1>4. ASSUME NEW c \in Callers, NEW q \in Call, Enter(c, q),
               q.at \in {"lookup", "count"}, q.next = 1
        PROVE  BInv'
    BY <1>0, <1>1, <1>4, CallMoves DEF Enter, At
  <1>5. ASSUME NEW op \in {"get", "list", "set"}, NEW at \in {"lookup", "count"}
        PROVE  /\ NewCall(op, at) \in Call /\ NewCall(op, at).at = at /\ NewCall(op, at).next = 1
    BY <1>0 DEF NewCall, Call
  <1>6. ASSUME NEW c \in Callers, getModuleEntryTabs(c) \/ listModuleEntryTabsForAdmin(c) PROVE BInv'
    BY <1>4, <1>5, <1>6 DEF getModuleEntryTabs, listModuleEntryTabsForAdmin
  <1>7. ASSUME NEW c \in Callers, NEW t \in Tabs, NEW on \in {"on", "off"}, setModuleTabEnabled(c, t, on)
        PROVE  BInv'
    <2> DEFINE q == [NewCall("set", "count") EXCEPT !.key = t, !.enabled = on]
    <2>1. PICK n \in Call : n = NewCall("set", "count") /\ n.at = "count" /\ n.next = 1
      BY <1>5
    <2>2. q \in Call /\ q.at = "count" /\ q.next = 1
      BY <2>1 DEF Call
    <2>3. Enter(c, q)
      BY <1>7 DEF setModuleTabEnabled
    <2> HIDE DEF q
    <2> QED BY <1>4, <2>2, <2>3
  <1>8. ASSUME NEW c \in Callers, TabsHit(c) PROVE BInv'
    BY <1>0, <1>1, <1>8, CallMoves DEF TabsHit, Return, At
  <1>9. ASSUME NEW c \in Callers, NEW at \in {"lookup", "count", "create", "read", "store", "update", "announce"},
               call[c] # NoCall, GoTo(c, at)
        PROVE  \E q \in Call : /\ q.at = at /\ q.next = call[c].next /\ q.key = call[c].key
                               /\ call' = [call EXCEPT ![c] = q]
    <2>1. call' = [call EXCEPT ![c] = [call[c] EXCEPT !.at = at]]
      BY <1>9 DEF GoTo
    <2> QED BY <1>0, <1>9, <2>1, ZenonT(40) DEF Call
  <1>10. ASSUME NEW c \in Callers, TabsMiss(c) PROVE BInv'
    <2>1. /\ call[c] # NoCall /\ call[c].next = 1 /\ ~At(c, "create") /\ GoTo(c, "count")
          /\ UNCHANGED <<tab, keptTabs, cutShort, halfway>>
      BY <1>10 DEF TabsMiss, At, BInv, CallOK
    <2>2. PICK q \in Call : q.at = "count" /\ q.next = 1 /\ call' = [call EXCEPT ![c] = q]
      BY <1>9, <2>1
    <2> QED BY <1>0, <1>1, <2>1, <2>2, CallMoves
  <1>11. ASSUME NEW c \in Callers, CountTabs(c) PROVE BInv'
    <2>1. /\ call[c] # NoCall /\ call[c].next = 1 /\ ~At(c, "create")
          /\ halfway' = (halfway \/ ThereTabs(tab) \notin {{}, Tabs})
          /\ UNCHANGED <<tab, keptTabs, cutShort>>
      BY <1>11 DEF CountTabs, At, BInv, CallOK
    <2>2. CASE ThereTabs(tab) = {}
      <3>1. GoTo(c, "create")
        BY <1>11, <2>2 DEF CountTabs
      <3>2. PICK q \in Call : q.at = "create" /\ q.next = 1 /\ call' = [call EXCEPT ![c] = q]
        BY <1>9, <2>1, <3>1
      <3> QED BY <1>0, <1>1, <2>1, <2>2, <3>2, CallMoves
    <2>3. CASE ThereTabs(tab) # {}
      <3>1. GoTo(c, "read")
        BY <1>11, <2>3 DEF CountTabs
      <3>2. PICK q \in Call : q.at = "read" /\ call' = [call EXCEPT ![c] = q]
        BY <1>9, <2>1, <3>1
      <3> QED BY <1>0, <1>1, <2>1, <2>3, <3>2, CallMoves
    <2> QED BY <2>2, <2>3
  <1>12. ASSUME NEW c \in Callers, Interrupted(c) PROVE BInv'
    <2>1. /\ call[c] # NoCall /\ call' = [call EXCEPT ![c] = NoCall]
          /\ cutShort' = (cutShort \/ call[c].at = "create")
          /\ UNCHANGED <<tab, keptTabs, halfway>>
      BY <1>12 DEF Interrupted, Return
    <2>2. CASE cutShort' <=> cutShort
      BY <1>0, <1>1, <2>1, <2>2, CallMoves DEF At
    <2>3. CASE cutShort'
      <3>1. TabsTypeOK'
        BY <1>0, <2>1 DEF TabsTypeOK
      <3>2. \A d \in Callers : CallOK(d)'
        BY <1>0, <2>1 DEF BInv, CallOK, At
      <3> QED BY <2>3, <3>1, <3>2 DEF BInv
    <2> QED BY <1>0, <2>1, <2>2, <2>3
  <1>13. ASSUME NEW c \in Callers, ReadTabs(c) PROVE BInv'
    <2>1. /\ call[c] # NoCall /\ call[c] \in Call /\ call[c].at = "read" /\ ~At(c, "create")
          /\ At(c, "read") /\ UNCHANGED <<tab, keptTabs, cutShort, halfway>>
      BY <1>0, <1>13 DEF ReadTabs, At
    <2>2. CASE call[c].op = "get"
      <3> DEFINE q == [call[c] EXCEPT !.at = "store", !.value = tab]
      <3>1. q \in Call /\ q.at = "store" /\ q.value = tab /\ call' = [call EXCEPT ![c] = q]
        BY <1>0, <1>13, <2>1, <2>2 DEF ReadTabs, Call
      <3> HIDE DEF q
      <3> QED BY <1>0, <1>1, <2>1, <3>1, CallMoves DEF ReadsAll
    <2>3. CASE Return(c)
      BY <1>0, <1>1, <2>1, <2>3, CallMoves DEF Return
    <2>4. CASE tab[call[c].key] # "none" /\ GoTo(c, "update")
      <3>1. PICK q \in Call : q.at = "update" /\ q.key = call[c].key /\ call' = [call EXCEPT ![c] = q]
        BY <1>9, <2>1, <2>4
      <3> QED BY <1>0, <1>1, <2>1, <2>4, <3>1, CallMoves
    <2>5. call[c].op \in {"get", "list", "set"}
      BY <2>1 DEF Call
    <2> QED BY <1>13, <2>2, <2>3, <2>4, <2>5 DEF ReadTabs
  <1>14. ASSUME NEW c \in Callers, StoreTabs(c) PROVE BInv'
    <2>1. /\ At(c, "store") /\ call[c] \in Call /\ ~At(c, "create") /\ call[c].value \in Entries
          /\ keptTabs' \in {keptTabs, call[c].value} /\ call' = [call EXCEPT ![c] = NoCall]
          /\ UNCHANGED <<tab, cutShort, halfway>>
      BY <1>0, <1>14 DEF StoreTabs, Return, Call, At
    <2> QED BY <1>0, <1>1, <2>1, CallMoves, ZenonT(40) DEF ReadsAll
  <1>15. ASSUME NEW c \in Callers, UpdateTab(c) PROVE BInv'
    <2>1. /\ call[c] # NoCall /\ call[c] \in Call /\ ~At(c, "create") /\ tab[call[c].key] # "none"
          /\ call[c].key \in Tabs /\ call[c].enabled \in {"on", "off"}
          /\ tab' = [tab EXCEPT ![call[c].key] = call[c].enabled] /\ GoTo(c, "announce")
          /\ UNCHANGED <<keptTabs, cutShort, halfway>>
      BY <1>0, <1>15 DEF UpdateTab, At, BInv, CallOK, Call
    <2>2. tab' \in Entries /\ ThereTabs(tab') = ThereTabs(tab)
      BY <1>0, <2>1 DEF Entries, ThereTabs
    <2>3. PICK q \in Call : q.at = "announce" /\ call' = [call EXCEPT ![c] = q]
      BY <1>9, <2>1
    <2> QED BY <1>0, <1>1, <2>1, <2>2, <2>3, CallMoves
  <1>16. ASSUME NEW c \in Callers, invalidateModuleEntryTabsCache(c) PROVE BInv'
    <2>1. /\ call[c] # NoCall /\ ~At(c, "create") /\ keptTabs' \in {keptTabs, NoTabs}
          /\ call' = [call EXCEPT ![c] = NewCall("list", "count")]
          /\ UNCHANGED <<tab, cutShort, halfway>>
      BY <1>0, <1>16 DEF invalidateModuleEntryTabsCache, At
    <2> QED BY <1>0, <1>1, <1>5, <2>1, CallMoves
  <1>17. ASSUME NEW c \in Callers, InsertTab(c) PROVE BInv'
    <2>1. /\ call[c] # NoCall /\ call[c] \in Call /\ At(c, "create") /\ call[c].next \in Tabs
          /\ UNCHANGED <<keptTabs, cutShort, halfway>>
      BY <1>0, <1>17 DEF InsertTab, At, BInv, CallOK
    <2>2. CASE tab[call[c].next] # "none"
      <3>1. call' = [call EXCEPT ![c] = NoCall] /\ UNCHANGED tab /\ call[c].next \in ThereTabs(tab)
        BY <1>17, <2>1, <2>2 DEF InsertTab, Return, ThereTabs
      <3> QED BY <1>0, <1>1, <2>1, <3>1, CallMoves
    <2>3. CASE tab[call[c].next] = "none"
      <3> DEFINE n == call[c].next
                 q == [call[c] EXCEPT !.at = AfterInsert(call[c]), !.next = n + 1]
      <3>1. /\ tab' = [tab EXCEPT ![n] = "on"] /\ call' = [call EXCEPT ![c] = q]
            /\ q \in Call /\ q.at = AfterInsert(call[c]) /\ q.next = n + 1
        <4>1. tab' = [tab EXCEPT ![n] = "on"] /\ call' = [call EXCEPT ![c] = q]
          BY <1>17, <2>3 DEF InsertTab
        <4>2. n + 1 \in 1..(LastTab + 1) /\ AfterInsert(call[c]) \in {"read", "create"}
          BY <1>0, <2>1 DEF AfterInsert
        <4> QED BY <2>1, <4>1, <4>2 DEF Call
      <3>2. /\ call'[c] = q /\ \A d \in Callers \ {c} : call'[d] = call[d]
            /\ call' \in [Callers -> Call \cup {NoCall}]
            /\ tab' \in Entries /\ tab'[n] = "on" /\ \A t \in Tabs \ {n} : tab'[t] = tab[t]
        BY <1>0, <2>1, <3>1 DEF Entries
      <3>3. PICK m \in Tabs : m = n
        BY <2>1
      <3>4. ThereTabs(tab)' = ThereTabs(tab) \cup {m} /\ m \notin ThereTabs(tab)
        BY <2>3, <3>2, <3>3 DEF ThereTabs
      <3>5. /\ \A d \in Callers \ {c} : \A where : At(d, where)' <=> At(d, where)
            /\ At(c, "create")' <=> m # LastTab
            /\ At(c, "read")' <=> m = LastTab
            /\ \A where : At(c, where)' => where \in {"create", "read"}
            /\ call'[c].next = m + 1
        BY <1>0, <3>1, <3>2, <3>3 DEF At, AfterInsert
      <3>6. TabsTypeOK'
        BY <1>0, <2>1, <3>2 DEF TabsTypeOK
      <3>7. \A d \in Callers : CallOK(d)'
        <4>1. CallOK(c)'
          BY <1>0, <3>3, <3>5 DEF CallOK
        <4>2. ASSUME NEW d \in Callers \ {c} PROVE CallOK(d)'
          <5>1. CallOK(d) /\ (At(d, "update") => call[d].key \in Tabs)
            BY <1>0 DEF BInv, Call
          <5> QED BY <3>2, <3>5, <5>1 DEF CallOK
        <4> QED BY <4>1, <4>2
      <3>8. ASSUME ~cutShort, NEW k \in 0..LastTab, RowsUpTo(k)
            PROVE  m = k + 1 /\ RowsUpTo(m)'
        <4>1. m = k + 1
          BY <1>0, <2>1, <3>3, <3>4, <3>8 DEF RowsUpTo
        <4>2. ThereTabs(tab)' = 1..m
          BY <1>0, <3>4, <3>8, <4>1 DEF RowsUpTo
        <4>3. \A d \in Callers : At(d, "create")' => call'[d].next \in 1..(m + 1)
          <5>1. m + 1 \in 1..(m + 1)
            BY <1>0
          <5>2. ASSUME NEW d \in Callers \ {c}, At(d, "create")' PROVE call'[d].next \in 1..(m + 1)
            <6>1. call[d].next \in 1..(k + 1) /\ call'[d] = call[d]
              BY <3>2, <3>5, <3>8, <5>2 DEF RowsUpTo
            <6> QED BY <4>1, <6>1
          <5> QED BY <3>5, <5>1, <5>2
        <4>4. m \in 1..(LastTab - 1) => At(c, "create")' /\ call'[c].next = m + 1
          BY <1>0, <3>5
        <4> QED BY <4>1, <4>2, <4>3, <4>4 DEF RowsUpTo
      <3>9. ~cutShort => \E k \in 0..LastTab : RowsUpTo(k)'
        BY <1>0, <3>8 DEF BInv
      <3>10. ASSUME ~cutShort, ~halfway PROVE \A d \in Callers : ReadsAll(d)'
        <4>1. PICK k \in 0..LastTab : RowsUpTo(k)
          BY <3>10 DEF BInv
        <4>2. ReadsAll(c)'
          <5>1. m = LastTab => ThereTabs(tab)' = Tabs
            BY <1>0, <3>8, <3>10, <4>1 DEF RowsUpTo
          <5> QED BY <3>5, <5>1 DEF ReadsAll
        <4>3. ASSUME NEW d \in Callers \ {c} PROVE ReadsAll(d)'
          <5>1. ReadsAll(d) /\ Tabs \cup {m} = Tabs
            BY <1>1, <3>10
          <5>2. ThereTabs(call[d].value)' = ThereTabs(call[d].value)
            BY <3>2 DEF ThereTabs
          <5> QED BY <3>2, <3>4, <3>5, <5>1, <5>2 DEF ReadsAll
        <4> QED BY <4>2, <4>3
      <3>11. ThereTabs(keptTabs)' = ThereTabs(keptTabs)
        BY <2>1 DEF ThereTabs
      <3> QED BY <1>1, <2>1, <3>6, <3>7, <3>9, <3>10, <3>11 DEF BInv
    <2> QED BY <2>2, <2>3
  <1> QED BY <1>2, <1>3, <1>6, <1>7, <1>8, <1>10, <1>11, <1>12, <1>13, <1>14, <1>15, <1>16, <1>17
          DEF TabsNext

\* Every call of ensureModuleTabs keeps the rows it finds a run from the first.
LEMMA TabsReached == TabsSpec => []BInv
BY TabsInitOK, TabsNextOK, PTL DEF TabsSpec

\* However many requests create the entries at once, all of them are there in the end, and
\* what is kept in Redis is all of them, unless somebody died among his inserts or counted
\* in between (settings.service.ts:15-19, 62-97).
THEOREM TabsComplete == TabsSpec => []TabsAreWhole
  <1>1. BInv => TabsAreWhole
    <2> SUFFICES ASSUME BInv, ~cutShort PROVE TabsAreWhole
      BY DEF TabsAreWhole
    <2>1. PICK k \in 0..LastTab : RowsUpTo(k)
      BY DEF BInv
    <2>2. (\A c \in Callers : ~At(c, "create")) => k = 0 \/ k = LastTab
      BY <2>1, TabsAssumption DEF RowsUpTo
    <2>3. k = 0 \/ k = LastTab => ThereTabs(tab) \in {{}, Tabs}
      BY <2>1, TabsAssumption DEF RowsUpTo, Tabs
    <2> QED BY <2>2, <2>3 DEF BInv, TabsAreWhole
  <1> QED BY <1>1, TabsReached, PTL

----------------------------------------------------------------------------
(* The first page of the forum. *)

PostRow == [at: {"ABSENT", "THERE", "DELETED"}, online: BOOLEAN, pinned: BOOLEAN]

\* Whatever the page shows in the wrong place moved, for whoever is given it under version e.
GoodPage(page, e) ==
    /\ e <= edition
    /\ e = edition => Posts \subseteq Placed(page) \cup Unannounced
    /\ \A v \in Visitors : visit[v] # NoVisit /\ visit[v].edition = e =>
                               Posts \subseteq Placed(page) \cup visit[v].moved

\* What a request has read is right but for what moved.
ReadRight(v) ==
    \A p \in Posts \ visit[v].moved :
        /\ visit[v].page.pinned # {0} => (p \in visit[v].page.pinned <=> p \in Pinned)
        /\ visit[v].page.others # {0} => (p \in visit[v].page.others <=> p \in Others)

\* Requests of one version have seen the same posts move.
SameMoved(v) ==
    /\ visit[v].edition <= edition
    /\ visit[v].edition = edition => visit[v].moved = Unannounced
    /\ \A x \in Visitors : visit[x] # NoVisit /\ visit[x].edition = visit[v].edition =>
                               visit[x].moved = visit[v].moved

FeedFresh ==
    /\ ~misplaced
    /\ \A v \in Visitors : visit[v] # NoVisit => SameMoved(v) /\ ReadRight(v)
    /\ \A e \in Editions : feed[e] # NoPage => GoodPage(feed[e], e)

FInv == FeedTypeOK /\ (unanswered \/ FeedFresh)

\* The marks for nothing are none of what they stand beside.
LEMMA FeedSentinels ==
    /\ NoVisit \notin Visit /\ NoPoster \notin Poster
    /\ \A q \in Poster : /\ q.post \in Posts
                         /\ q.at = "write" => q.fields \in Fields
  BY DEF NoVisit, Visit, NoPoster, Poster

\* No page is kept and nobody reads.
LEMMA FeedInitOK == FeedInit => FInv
  <1> SUFFICES ASSUME FeedInit PROVE FInv
    OBVIOUS
  <1>1. 0 \in Editions
    BY FeedAssumption DEF Editions
  <1>2. FeedTypeOK
    BY <1>1 DEF FeedInit, FeedTypeOK
  <1>3. FeedFresh
    BY DEF FeedInit, FeedFresh
  <1> QED BY <1>2, <1>3 DEF FInv

\* A post is written: it counts as moved for everybody from now on.
LEMMA WriteOK ==
    ASSUME FInv, ~unanswered, NEW w \in Posters, NEW p \in Posts, NEW row \in PostRow,
           poster[w].at # "announce", Write(w, p, row)
    PROVE  FInv'
  <1>0. /\ FeedTypeOK /\ FeedFresh /\ post \in [Posts -> PostRow]
        /\ NoVisit \notin Visit /\ visit \in [Visitors -> Visit \cup {NoVisit}]
    BY FeedSentinels DEF FInv, FeedTypeOK, PostRow
  <1>1. /\ post' = [post EXCEPT ![p] = row]
        /\ poster' = [poster EXCEPT ![w] = [at |-> "announce", post |-> p]]
        /\ visit' = [v \in Visitors |-> IF visit[v] = NoVisit THEN NoVisit
                                        ELSE [visit[v] EXCEPT !.moved = @ \cup {p}]]
        /\ UNCHANGED <<edition, feed, misplaced, unanswered>>
    BY DEF Write
  <1>2. ASSUME NEW v \in Visitors
        PROVE  /\ visit'[v] # NoVisit <=> visit[v] # NoVisit
               /\ visit'[v] \in Visit \cup {NoVisit}
               /\ visit[v] # NoVisit => /\ visit'[v].edition = visit[v].edition
                                        /\ visit'[v].page = visit[v].page
                                        /\ visit'[v].moved = visit[v].moved \cup {p}
    <2>1. CASE visit[v] = NoVisit
      BY <1>1, <2>1
    <2>2. CASE visit[v] # NoVisit
      <3>1. visit[v] \in Visit /\ visit'[v] = [visit[v] EXCEPT !.moved = visit[v].moved \cup {p}]
        BY <1>0, <1>1, <2>2
      <3>2. visit'[v] \in Visit
        BY <3>1 DEF Visit
      <3> QED BY <1>0, <2>2, <3>1, <3>2 DEF Visit
    <2> QED BY <2>1, <2>2
  <1>3. Unannounced' = Unannounced \cup {p}
    <2>1. poster'[w] = [at |-> "announce", post |-> p] /\ \A x \in Posters \ {w} : poster'[x] = poster[x]
      BY <1>0, <1>1 DEF FeedTypeOK
    <2> QED BY <2>1 DEF Unannounced
  <1>4. \A q \in Posts \ {p} : (q \in Pinned' <=> q \in Pinned) /\ (q \in Others' <=> q \in Others)
    BY <1>0, <1>1 DEF Pinned, Others, Visible
  <1>5. \A page : \A q \in Posts \ {p} : q \in Placed(page) => q \in Placed(page)'
    BY <1>4 DEF Placed
  <1>6. FeedTypeOK'
    <2>1. post' \in [Posts -> PostRow]
      BY <1>0, <1>1
    <2>2. poster' \in [Posters -> Poster \cup {NoPoster}]
      BY <1>0, <1>1 DEF FeedTypeOK, Poster
    <2>3. visit' \in [Visitors -> Visit \cup {NoVisit}]
      BY <1>1, <1>2
    <2> QED BY <1>0, <1>1, <2>1, <2>2, <2>3 DEF FeedTypeOK, PostRow
  <1>7. ASSUME NEW page, NEW e, GoodPage(page, e) PROVE GoodPage(page, e)'
    BY <1>1, <1>2, <1>3, <1>5, <1>7 DEF GoodPage
  <1>8. ASSUME NEW v \in Visitors, visit[v] # NoVisit PROVE SameMoved(v)' /\ ReadRight(v)'
    <2>1. SameMoved(v) /\ ReadRight(v)
      BY <1>0, <1>8 DEF FeedFresh
    <2>2. SameMoved(v)'
      <3>1. visit'[v].edition <= edition'
        BY <1>1, <1>2, <1>8, <2>1 DEF SameMoved
      <3>2. visit'[v].edition = edition' => visit'[v].moved = Unannounced'
        BY <1>1, <1>2, <1>3, <1>8, <2>1 DEF SameMoved
      <3>3. ASSUME NEW x \in Visitors, visit'[x] # NoVisit, visit'[x].edition = visit'[v].edition
            PROVE  visit'[x].moved = visit'[v].moved
        <4>1. visit[x] # NoVisit /\ visit[x].edition = visit[v].edition
          BY <1>2, <1>8, <3>3
        <4> QED BY <1>2, <1>8, <2>1, <4>1 DEF SameMoved
      <3> QED BY <3>1, <3>2, <3>3 DEF SameMoved
    <2>3. ReadRight(v)'
      BY <1>2, <1>4, <1>8, <2>1 DEF ReadRight
    <2> QED BY <2>2, <2>3
  <1>9. \A e \in Editions : feed[e] # NoPage => GoodPage(feed[e], e)'
    <2>1. ASSUME NEW e \in Editions, feed[e] # NoPage PROVE GoodPage(feed[e], e)'
      <3>1. PICK page : page = feed[e]
        OBVIOUS
      <3>2. GoodPage(page, e)'
        BY <1>0, <1>7, <2>1, <3>1 DEF FeedFresh
      <3> QED BY <1>1, <3>1, <3>2 DEF GoodPage
    <2> QED BY <2>1
  <1>10. FeedFresh'
    BY <1>0, <1>1, <1>2, <1>8, <1>9 DEF FeedFresh
  <1> QED BY <1>6, <1>10 DEF FInv

\* Steps that change no post: what is good for a version stays so, if requests only join
\* the version under way, and nobody is told of more or fewer moves.
LEMMA FeedStays ==
    ASSUME FInv, ~unanswered, UNCHANGED <<post, edition, unanswered>>, Unannounced' = Unannounced,
           FeedTypeOK', ~misplaced',
           \A v \in Visitors :
              visit'[v] # NoVisit =>
                 \/ /\ visit[v] # NoVisit
                    /\ visit'[v].edition = visit[v].edition /\ visit'[v].moved = visit[v].moved
                    /\ visit'[v].page.pinned \in {visit[v].page.pinned, Pinned}
                    /\ visit'[v].page.others \in {visit[v].page.others, Others}
                 \/ /\ visit'[v].edition = edition /\ visit'[v].moved = Unannounced
                    /\ visit'[v].page = NoPage,
           \A e \in Editions : feed'[e] = feed[e] \/ GoodPage(feed'[e], e)
    PROVE  FInv'
  <1>0. FeedFresh /\ FeedTypeOK
    BY DEF FInv
  <1>1. Pinned' = Pinned /\ Others' = Others
    BY DEF Pinned, Others, Visible
  <1>2. \A page : Placed(page)' = Placed(page)
    BY <1>1 DEF Placed
  <1>3. \A page, e : GoodPage(page, e) => GoodPage(page, e)'
    BY <1>2 DEF GoodPage
  <1>4. ASSUME NEW v \in Visitors, visit'[v] # NoVisit PROVE SameMoved(v)' /\ ReadRight(v)'
    <2>1. CASE visit[v] # NoVisit /\ visit'[v].edition = visit[v].edition /\ visit'[v].moved = visit[v].moved
               /\ visit'[v].page.pinned \in {visit[v].page.pinned, Pinned}
               /\ visit'[v].page.others \in {visit[v].page.others, Others}
      BY <1>0, <1>1, <2>1 DEF FeedFresh, SameMoved, ReadRight
    <2>2. CASE visit'[v].edition = edition /\ visit'[v].moved = Unannounced /\ visit'[v].page = NoPage
      <3>1. SameMoved(v)'
        BY <1>0, <2>2, FeedAssumption DEF FeedFresh, SameMoved, FeedTypeOK, Editions
      <3>2. ReadRight(v)'
        BY <2>2 DEF ReadRight, NoPage
      <3> QED BY <3>1, <3>2
    <2> QED BY <1>4, <2>1, <2>2
  <1>5. ASSUME NEW e \in Editions, feed'[e] # NoPage PROVE GoodPage(feed[e], e)'
    <2>1. PICK page : page = feed'[e]
      OBVIOUS
    <2>2. GoodPage(page, e)'
      BY <1>0, <1>3, <1>5, <2>1 DEF FeedFresh
    <2> QED BY <2>1, <2>2 DEF GoodPage, Placed
  <1>6. FeedFresh'
    BY <1>4, <1>5 DEF FeedFresh
  <1> QED BY <1>6 DEF FInv

\* The steps of those who change a post.
LEMMA PostersOK ==
    ASSUME FInv, ~unanswered, NEW w \in Posters,
           \/ \E p \in Posts :
                \/ \E pinned \in BOOLEAN : publishPost(w, p, pinned) \/ BeginSetPinned(w, p, pinned)
                \/ \E fields \in Fields : BeginUpdateState(w, p, fields)
                \/ deletePost(w, p)
           \/ WriteState(w) \/ invalidateForumPostListCache(w) \/ AnnouncementFails(w)
    PROVE  FInv'
  <1>0. /\ FeedTypeOK /\ FeedFresh /\ post \in [Posts -> PostRow]
        /\ NoPoster \notin Poster /\ NoPoster.at = "none"
        /\ \A x \in Posters : poster[x] # NoPoster => poster[x] \in Poster
    BY FeedSentinels DEF FInv, FeedTypeOK, PostRow, NoPoster
  <1>1. ASSUME NEW p \in Posts, NEW fields \in Fields, Check(w, p, fields) PROVE FInv'
    <2>1. /\ poster[w] = NoPoster
          /\ poster' = [poster EXCEPT ![w] = [at |-> "write", post |-> p, fields |-> fields]]
          /\ UNCHANGED <<post, edition, feed, visit, misplaced, unanswered>>
      BY <1>1 DEF Check
    <2>2. /\ poster'[w].at = "write" /\ poster[w].at # "announce"
          /\ \A x \in Posters \ {w} : poster'[x] = poster[x]
      BY <1>0, <2>1 DEF FeedTypeOK
    <2>3. Unannounced' = Unannounced
      BY <2>2 DEF Unannounced
    <2>4. FeedTypeOK'
      BY <1>0, <2>1 DEF FeedTypeOK, Poster
    <2> QED BY <1>0, <2>1, <2>3, <2>4, FeedStays DEF FeedFresh
  <1>2. ASSUME NEW p \in Posts, NEW pinned \in BOOLEAN, publishPost(w, p, pinned) PROVE FInv'
    <2>1. [at |-> "THERE", online |-> TRUE, pinned |-> pinned] \in PostRow
      BY DEF PostRow
    <2> QED BY <1>0, <1>2, <2>1, WriteOK DEF publishPost
  <1>3. ASSUME NEW p \in Posts, deletePost(w, p) PROVE FInv'
    <2>1. [post[p] EXCEPT !.at = "DELETED"] \in PostRow
      BY <1>0 DEF PostRow
    <2> QED BY <1>0, <1>3, <2>1, WriteOK DEF deletePost
  <1>4. ASSUME NEW p \in Posts, NEW pinned \in BOOLEAN, BeginSetPinned(w, p, pinned) PROVE FInv'
    <2>1. [pinned |-> pinned] \in Fields
      BY DEF Fields
    <2> QED BY <1>1, <1>4, <2>1 DEF BeginSetPinned
  <1>5. ASSUME NEW p \in Posts, NEW fields \in Fields, BeginUpdateState(w, p, fields) PROVE FInv'
    BY <1>1, <1>5 DEF BeginUpdateState
  <1>6. ASSUME WriteState(w) PROVE FInv'
    <2>1. poster[w].at = "write" /\ poster[w].post \in Posts /\ poster[w].fields \in Fields
      BY <1>0, <1>6, FeedSentinels DEF WriteState
    <2>2. ASSUME NEW fields \in Fields, NEW row \in PostRow PROVE Changed(row, fields) \in PostRow
      <3>1. /\ row = [at |-> row.at, online |-> row.online, pinned |-> row.pinned]
            /\ row.at \in {"ABSENT", "THERE", "DELETED"} /\ row.online \in BOOLEAN /\ row.pinned \in BOOLEAN
            /\ DOMAIN row = {"at", "online", "pinned"}
        BY DEF PostRow
      <3>2. /\ DOMAIN fields \subseteq {"online", "pinned"}
            /\ \A f \in DOMAIN fields : fields[f] \in BOOLEAN
        BY DEF Fields
      <3>3. PICK new : new = Changed(row, fields)
        OBVIOUS
      <3>4. /\ new = [at |-> new.at, online |-> new.online, pinned |-> new.pinned]
            /\ new.at \in {"ABSENT", "THERE", "DELETED"} /\ new.online \in BOOLEAN /\ new.pinned \in BOOLEAN
        BY <3>1, <3>2, <3>3 DEF Changed
      <3> QED BY <3>3, <3>4 DEF PostRow
    <2> QED BY <1>0, <1>6, <2>1, <2>2, WriteOK DEF WriteState
  <1>7. ASSUME invalidateForumPostListCache(w) PROVE FInv'
    <2>1. /\ edition < MaxEditions /\ edition' = edition + 1
          /\ poster' = [poster EXCEPT ![w] = NoPoster]
          /\ UNCHANGED <<post, feed, visit, misplaced, unanswered>>
      BY <1>7 DEF invalidateForumPostListCache
    <2>2. edition \in Nat /\ edition' \in Editions /\ Editions \subseteq Nat
      BY <1>0, <2>1, FeedAssumption DEF FeedTypeOK, Editions
    <2>3. FeedTypeOK'
      BY <1>0, <2>1, <2>2 DEF FeedTypeOK
    <2>4. \A page : Placed(page)' = Placed(page)
      BY <2>1 DEF Placed, Pinned, Others, Visible
    <2>5. \A page : \A e \in Nat : GoodPage(page, e) => GoodPage(page, e)'
      BY <2>1, <2>2, <2>4 DEF GoodPage
    <2>6. ASSUME NEW v \in Visitors, visit[v] # NoVisit PROVE SameMoved(v)' /\ ReadRight(v)'
      <3>1. SameMoved(v) /\ ReadRight(v) /\ visit[v].edition \in Nat
        BY <1>0, <2>2, <2>6 DEF FeedFresh, FeedTypeOK, Visit
      <3>2. SameMoved(v)'
        BY <2>1, <2>2, <3>1 DEF SameMoved
      <3>3. ReadRight(v)'
        BY <2>1, <3>1 DEF ReadRight, Pinned, Others, Visible
      <3> QED BY <3>2, <3>3
    <2>7. FeedFresh'
      <3>1. ASSUME NEW e \in Editions, feed[e] # NoPage PROVE GoodPage(feed[e], e)'
        <4>1. PICK page : page = feed[e]
          OBVIOUS
        <4>2. GoodPage(page, e)'
          BY <1>0, <2>2, <2>5, <3>1, <4>1 DEF FeedFresh
        <4> QED BY <2>1, <4>1, <4>2 DEF GoodPage
      <3> QED BY <1>0, <2>1, <2>6, <3>1 DEF FeedFresh
    <2> QED BY <2>3, <2>7 DEF FInv
  <1>8. ASSUME AnnouncementFails(w) PROVE FInv'
    BY <1>0, <1>8 DEF AnnouncementFails, FInv, FeedTypeOK
  <1> QED BY <1>2, <1>3, <1>4, <1>5, <1>6, <1>7, <1>8

\* The steps of those who ask for the page.
LEMMA VisitorsOK ==
    ASSUME FInv, ~unanswered, NEW v \in Visitors,
           \/ forumPostListCacheKey(v) \/ VersionFails(v) \/ PageHit(v) \/ PageMiss(v)
           \/ ReadPinned(v) \/ ReadOthers(v) \/ StorePage(v)
    PROVE  FInv'
  <1>0. /\ FeedTypeOK /\ FeedFresh /\ NoVisit \notin Visit /\ NoVisit.at = "none" /\ ~misplaced
        /\ visit \in [Visitors -> Visit \cup {NoVisit}] /\ edition \in Editions
        /\ \A x \in Visitors : visit[x] # NoVisit => visit[x] \in Visit
        /\ Pinned \in SUBSET Posts /\ Others \in SUBSET Posts /\ Unannounced \in SUBSET Posts
        /\ 0 \in Editions
    BY FeedSentinels, FeedAssumption DEF FInv, FeedTypeOK, NoVisit, FeedFresh, Pinned, Others, Unannounced,
       Poster, NoPoster, Editions
  <1>1. UNCHANGED poster => Unannounced' = Unannounced
    BY DEF Unannounced
  <1>2. ASSUME NEW e \in Editions, AskForPage(v, e) PROVE FeedTypeOK' \/ unanswered' \notin BOOLEAN
    <2>1. [at |-> "lookup", edition |-> e, page |-> NoPage, moved |-> Unannounced] \in Visit
      <3>1. NoPage \in [pinned: {{0}} \cup SUBSET Posts, others: {{0}} \cup SUBSET Posts]
        BY DEF NoPage
      <3> QED BY <1>0, <3>1 DEF Visit
    <2> QED BY <1>0, <1>2, <2>1 DEF AskForPage, FeedTypeOK
  <1>3. ASSUME forumPostListCacheKey(v) PROVE FInv'
    <2>1. FeedTypeOK'
      BY <1>0, <1>2, <1>3 DEF forumPostListCacheKey, FeedTypeOK
    <2> QED BY <1>0, <1>1, <1>3, <2>1, FeedStays DEF forumPostListCacheKey, AskForPage
  <1>4. ASSUME VersionFails(v) PROVE FInv'
    BY <1>0, <1>2, <1>4 DEF VersionFails, FInv
  <1>5. ASSUME NEW q \in Visit, visit[v] # NoVisit, visit' = [visit EXCEPT ![v] = q],
               q.edition = visit[v].edition, q.moved = visit[v].moved,
               q.page.pinned \in {visit[v].page.pinned, Pinned},
               q.page.others \in {visit[v].page.others, Others},
               UNCHANGED <<post, edition, feed, poster, misplaced, unanswered>>
        PROVE  FInv'
    <2>1. visit'[v] = q /\ \A x \in Visitors \ {v} : visit'[x] = visit[x]
      BY <1>0, <1>5
    <2>2. FeedTypeOK'
      BY <1>0, <1>5 DEF FeedTypeOK
    <2> QED BY <1>0, <1>1, <1>5, <2>1, <2>2, FeedStays
  <1>6. ASSUME PageMiss(v) PROVE FInv'
    <2> DEFINE q == [visit[v] EXCEPT !.at = "load"]
    <2>1. visit[v] \in Visit /\ visit' = [visit EXCEPT ![v] = q]
          /\ UNCHANGED <<post, edition, feed, poster, misplaced, unanswered>>
      BY <1>0, <1>6 DEF PageMiss
    <2>2. q \in Visit /\ q.edition = visit[v].edition /\ q.moved = visit[v].moved /\ q.page = visit[v].page
      BY <2>1 DEF Visit
    <2> HIDE DEF q
    <2> QED BY <1>0, <1>5, <2>1, <2>2
  <1>7. ASSUME ReadPinned(v) PROVE FInv'
    <2> DEFINE q == [visit[v] EXCEPT !.page = [visit[v].page EXCEPT !.pinned = Pinned]]
    <2>1. visit[v] \in Visit /\ visit' = [visit EXCEPT ![v] = q]
          /\ UNCHANGED <<post, edition, feed, poster, misplaced, unanswered>>
      BY <1>0, <1>7 DEF ReadPinned
    <2>2. q \in Visit /\ q.edition = visit[v].edition /\ q.moved = visit[v].moved
          /\ q.page.pinned = Pinned /\ q.page.others = visit[v].page.others
      BY <1>0, <2>1 DEF Visit
    <2> HIDE DEF q
    <2> QED BY <1>0, <1>5, <2>1, <2>2
  <1>8. ASSUME ReadOthers(v) PROVE FInv'
    <2> DEFINE q == [visit[v] EXCEPT !.page = [visit[v].page EXCEPT !.others = Others]]
    <2>1. visit[v] \in Visit /\ visit' = [visit EXCEPT ![v] = q]
          /\ UNCHANGED <<post, edition, feed, poster, misplaced, unanswered>>
      BY <1>0, <1>8 DEF ReadOthers
    <2>2. q \in Visit /\ q.edition = visit[v].edition /\ q.moved = visit[v].moved
          /\ q.page.pinned = visit[v].page.pinned /\ q.page.others = Others
      BY <1>0, <2>1 DEF Visit
    <2> HIDE DEF q
    <2> QED BY <1>0, <1>5, <2>1, <2>2
  <1>9. ASSUME NEW page \in FeedPage \cup {NoPage}, visit[v] # NoVisit, GoodPage(page, visit[v].edition),
               feed' = feed \/ feed' = [feed EXCEPT ![visit[v].edition] = page],
               PageShown(v, page), UNCHANGED <<post, edition, poster, unanswered>>
        PROVE  FInv'
    <2>1. /\ visit' = [visit EXCEPT ![v] = NoVisit] /\ ~misplaced'
          /\ \A x \in Visitors : visit'[x] \in {visit[x], NoVisit}
      <3>1. Posts \subseteq Placed(page) \cup visit[v].moved
        BY <1>9 DEF GoodPage
      <3>2. visit' = [visit EXCEPT ![v] = NoVisit] /\ ~misplaced'
        BY <1>0, <1>9, <3>1 DEF PageShown
      <3> QED BY <1>0, <3>2
    <2>2. /\ feed' \in [Editions -> FeedPage \cup {NoPage}]
          /\ \A e \in Editions : feed'[e] = feed[e] \/ (e = visit[v].edition /\ feed'[e] = page)
      BY <1>0, <1>9 DEF FeedTypeOK
    <2>3. FeedTypeOK'
      <3>1. misplaced' \in BOOLEAN
        BY <1>9 DEF PageShown
      <3> QED BY <1>0, <1>9, <2>1, <2>2, <3>1 DEF FeedTypeOK
    <2> QED BY <1>0, <1>1, <1>9, <2>1, <2>2, <2>3, FeedStays
  <1>10. ASSUME PageHit(v) PROVE FInv'
    <2>1. visit[v] # NoVisit /\ visit[v].edition \in Editions
      BY <1>0, <1>10 DEF PageHit, Visit
    <2>2. PICK page : page = feed[visit[v].edition]
      OBVIOUS
    <2>3. page \in FeedPage \cup {NoPage} /\ GoodPage(page, visit[v].edition)
      BY <1>0, <1>10, <2>1, <2>2 DEF PageHit, FeedFresh, FeedTypeOK
    <2> QED BY <1>9, <1>10, <2>1, <2>2, <2>3 DEF PageHit
  <1>11. ASSUME StorePage(v) PROVE FInv'
    <2>1. PICK page : page = visit[v].page
      OBVIOUS
    <2>2. visit[v] # NoVisit /\ visit[v] \in Visit /\ page.pinned # {0} /\ page.others # {0}
      BY <1>0, <1>11, <2>1 DEF StorePage
    <2>3. page \in FeedPage
      <3>1. page \in [pinned: {{0}} \cup SUBSET Posts, others: {{0}} \cup SUBSET Posts]
        BY <2>1, <2>2 DEF Visit
      <3>2. page.pinned \in SUBSET Posts /\ page.others \in SUBSET Posts
        BY <2>2, <3>1
      <3> QED BY <3>1, <3>2 DEF FeedPage
    <2>4. Posts \subseteq Placed(page) \cup visit[v].moved
      BY <1>0, <2>1, <2>2 DEF FeedFresh, ReadRight, Placed
    <2>5. GoodPage(page, visit[v].edition)
      BY <1>0, <2>2, <2>4 DEF FeedFresh, SameMoved, GoodPage
    <2> QED BY <1>9, <1>11, <2>1, <2>2, <2>3, <2>5 DEF StorePage
  <1> QED BY <1>3, <1>4, <1>6, <1>7, <1>8, <1>10, <1>11

\* One step per step of the handlers that list, write and announce.
LEMMA FeedNextOK == FInv /\ [FeedNext]_feedVars => FInv'
  <1> SUFFICES ASSUME FInv, [FeedNext]_feedVars PROVE FInv'
    OBVIOUS
  <1>1. CASE UNCHANGED feedVars
    <2>1. FeedTypeOK' /\ Unannounced' = Unannounced /\ (FeedTypeOK => FInv' \/ ~unanswered)
      BY <1>1 DEF FInv, FeedTypeOK, feedVars, Unannounced
    <2> QED BY <1>1, <2>1, FeedStays DEF FInv, FeedFresh, feedVars
  <1>2. CASE FeedNext
    BY <1>2, PostersOK, VisitorsOK DEF FeedNext
  <1> QED BY <1>1, <1>2

\* Nobody is given a page that shows a post twice, not at all or in the wrong place, unless
\* that post moved while he asked, however pages are loaded, kept and announced
\* (forum.service.ts:75-133, 310-321).
THEOREM FeedWhole == FeedSpec => []FeedIsWhole
  <1>1. FInv => FeedIsWhole
    BY DEF FInv, FeedFresh, FeedIsWhole
  <1> QED BY <1>1, FeedInitOK, FeedNextOK, PTL DEF FeedSpec

----------------------------------------------------------------------------
(* The parts together. *)

\* A behaviour of the run is one of every part: the parts that are not picked stay as they
\* begin.
LEMMA PartsRun ==
    Spec => /\ ReviewSpec /\ SessionSpec /\ NoticeSpec /\ CacheSpec
            /\ ConfigSpec /\ FeedSpec /\ DetailSpec /\ TabsSpec
<1>1. Init => /\ ReviewInit /\ SessionInit /\ NoticeInit /\ CacheInit
              /\ ConfigInit /\ FeedInit /\ DetailInit /\ TabsInit
  BY DEF Init
<1> DEFINE Steps == /\ [ReviewNext]_avatarVars /\ [SessionNext]_sessionVars
                    /\ [NoticeNext]_noticeVars /\ [CacheNext]_cacheVars
                    /\ [ConfigNext]_configVars /\ [FeedNext]_feedVars
                    /\ [DetailNext]_detailVars /\ [TabsNext]_tabsVars
<1>2. [Next]_<<part, allVars>> => Steps
  BY DEF Next, allVars
<1> QED BY <1>1, <1>2, PTL DEF Spec, ReviewSpec, SessionSpec, NoticeSpec, CacheSpec, ConfigSpec,
                               FeedSpec, DetailSpec, TabsSpec

\* Every part keeps its types, whatever runs in it.
THEOREM TypesAreKept == Spec => []TypeOK
<1>1. /\ AvatarInv => ReviewTypeOK
      /\ NInv => NoticeTypeOK
      /\ FreshInv => CacheTypeOK
      /\ FInv => FeedTypeOK
      /\ DInv => DetailTypeOK
      /\ BInv => TabsTypeOK
  BY DEF AvatarInv, NInv, FreshInv, FInv, DInv, BInv
<1>2. ReviewTypeOK /\ SessionTypeOK /\ NoticeTypeOK /\ CacheTypeOK
        /\ ConfigTypeOK /\ FeedTypeOK /\ DetailTypeOK /\ TabsTypeOK => TypeOK
  BY DEF TypeOK
<1>3. ReviewSpec => []AvatarInv
  BY ReviewReached
<1>4. NoticeSpec => []NInv
  BY NoticeInitOK, NoticeNextOK, PTL DEF NoticeSpec
<1>5. CacheSpec => []FreshInv
  BY CacheInitOK, CacheNextOK, PTL DEF CacheSpec
<1>6. FeedSpec => []FInv
  BY FeedInitOK, FeedNextOK, PTL DEF FeedSpec
<1>7. DetailSpec => []DInv
  BY DetailInitOK, DetailNextOK, PTL DEF DetailSpec
<1>8. TabsSpec => []BInv
  BY TabsReached
<1> QED BY <1>1, <1>2, <1>3, <1>4, <1>5, <1>6, <1>7, <1>8, SessionReached, ConfigReached, PartsRun, PTL

\* Whatever is served out of Redis is as new as what was announced when the request came: the
\* lists and details of the mall and the first page of the forum until Redis first fails to
\* answer for a version or an invalidation; the replies of a post however often it fails, but
\* not to those it gives no version (redis-cache.ts, forum.service.ts:75-159, 198-271).
THEOREM CachesStayFresh == Spec => []CachesAreFresh
<1>1. ServedIsFresh /\ FeedIsWhole /\ RepliesAreCurrent => CachesAreFresh
  BY DEF CachesAreFresh
<1> QED BY <1>1, ServedFresh, FeedWhole, RepliesCurrent, PartsRun, PTL

\* What is shown below a post is in its place (forum.service.ts:968-1087).
THEOREM LayoutIsKept == Spec => []RepliesAreLaidOut
BY RepliesInTheirPlaces, PartsRun, PTL

=============================================================================
