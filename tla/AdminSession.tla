---------------------------- MODULE AdminSession ----------------------------
(***************************************************************************)
(* The sessions of one administrator: login, refresh, and what ends a      *)
(* session (AdminService, admin-session.ts, admin-auth.ts).                *)
(*                                                                         *)
(* A handler reads the account (and compares passwords, which takes a      *)
(* while), then updates it by id.  Tokens carry the session version of the *)
(* login they come from.                                                   *)
(***************************************************************************)
EXTENDS Naturals

CONSTANTS Browsers,     \* requests in flight at once
          MaxVersion,   \* bound on session versions
          NoRead

ASSUME SessionAssumption == MaxVersion \in Nat

VARIABLES account,   \* the row of admin_users
          token,     \* every token ever signed: its type, its login, its version
          logins,    \* history: successful logins so far
          asked,     \* requests in flight
          alone      \* history: no change of `enabled` overlapped another, or a login

sessionVars == <<account, token, logins, asked, alone>>

Versions == 0..MaxVersion
Token    == [typ: {"access", "refresh"}, login: 0..MaxVersion, version: Versions]
Account  == [there: BOOLEAN, enabled: BOOLEAN, version: Versions]
Asked    == [op: {"login", "changeMyPassword", "updateAdmin", "resetPassword", "deleteAdmin"},
             enable: BOOLEAN, read: Account]

SessionTypeOK ==
    /\ account \in Account
    /\ token \subseteq Token
    /\ logins \in 0..MaxVersion
    /\ asked \in [Browsers -> Asked \cup {NoRead}]
    /\ alone \in BOOLEAN

SessionInit ==
    /\ account = [there |-> TRUE, enabled |-> TRUE, version |-> 0]
    /\ token = {}
    /\ logins = 0
    /\ asked = [b \in Browsers |-> NoRead]
    /\ alone = TRUE

\* adminAuth lets a request in, refreshToken signs on.
InForce(t) == account.there /\ account.enabled /\ t.version = account.version

Ask(b, op, enable) ==
    /\ asked[b] = NoRead
    /\ account.there
    /\ asked' = [asked EXCEPT ![b] = [op |-> op, enable |-> enable, read |-> account]]
    /\ alone' = (alone /\ \A other \in Browsers :
                   asked[other] # NoRead => {op, asked[other].op} \notin
                     {{"updateAdmin"}, {"updateAdmin", "login"}})
    /\ UNCHANGED <<account, token, logins>>

Done(b) == asked' = [asked EXCEPT ![b] = NoRead] /\ UNCHANGED alone

\* The password was right, and the account was not disabled when it was read.
BeginLogin(b) == account.enabled /\ Ask(b, "login", TRUE)

SlipOpenAdminSession(read) ==
    /\ account.there
    /\ account' = [account EXCEPT !.version = read.version + 1]

\* The increment is made by the database, on the row as it is.
openAdminSession(read) ==
    /\ account.there
    /\ account' = [account EXCEPT !.version = @ + 1]

login(b) ==
    LET q == asked[b] IN
    /\ q # NoRead /\ q.op = "login"
    /\ account.version < MaxVersion
    /\ openAdminSession(q.read)
    /\ logins' = logins + 1
    /\ token' = token \cup {[typ |-> typ, login |-> logins + 1, version |-> account'.version] :
                              typ \in {"access", "refresh"}}
    /\ Done(b)

\* One read of the account; the new access token belongs to the session of the old one.
refreshToken ==
    \E t \in token :
        /\ t.typ = "refresh" /\ InForce(t)
        /\ token' = token \cup {[typ |-> "access", login |-> t.login, version |-> account.version]}
        /\ UNCHANGED <<account, logins, asked, alone>>

\* Only who is let in changes his own password, and the super administrator the rest.
BeginChangeMyPassword(b) ==
    (\E t \in token : t.typ = "access" /\ InForce(t)) /\ Ask(b, "changeMyPassword", TRUE)

BeginUpdateAdmin(b)   == \E enable \in BOOLEAN : Ask(b, "updateAdmin", enable)
BeginResetPassword(b) == Ask(b, "resetPassword", TRUE)
BeginDeleteAdmin(b)   == Ask(b, "deleteAdmin", TRUE)

\* The hash and the version are one update.
NewPassword(b) ==
    /\ account.there /\ account.version < MaxVersion
    /\ account' = [account EXCEPT !.version = @ + 1]
    /\ Done(b)
    /\ UNCHANGED <<token, logins>>

changeMyPassword(b) == asked[b] # NoRead /\ asked[b].op = "changeMyPassword" /\ NewPassword(b)

superAdminResetRandomPassword(b) ==
    asked[b] # NoRead /\ asked[b].op = "resetPassword" /\ NewPassword(b)

SlipShouldInvalidate(q) == FALSE

\* Whether the session ends is decided on the account as it was read.
ShouldInvalidate(q) == q.read.enabled /\ ~q.enable

updateAdmin(b) ==
    LET q == asked[b] IN
    /\ q # NoRead /\ q.op = "updateAdmin"
    /\ account.there /\ account.version < MaxVersion
    /\ account' = [account EXCEPT !.enabled = q.enable,
                                  !.version = IF ShouldInvalidate(q) THEN @ + 1 ELSE @]
    /\ Done(b)
    /\ UNCHANGED <<token, logins>>

deleteAdmin(b) ==
    /\ asked[b] # NoRead /\ asked[b].op = "deleteAdmin"
    /\ account.there
    /\ account' = [account EXCEPT !.there = FALSE]
    /\ Done(b)
    /\ UNCHANGED <<token, logins>>

\* A check threw, or the row is gone.
Rejected(b) ==
    /\ asked[b] # NoRead
    /\ Done(b)
    /\ UNCHANGED <<account, token, logins>>

SessionNext ==
    \/ refreshToken
    \/ \E b \in Browsers :
         \/ BeginLogin(b) \/ login(b) \/ BeginChangeMyPassword(b) \/ changeMyPassword(b)
         \/ BeginUpdateAdmin(b) \/ updateAdmin(b) \/ BeginDeleteAdmin(b) \/ deleteAdmin(b)
         \/ BeginResetPassword(b) \/ superAdminResetRandomPassword(b) \/ Rejected(b)

SessionSpec == SessionInit /\ [][SessionNext]_sessionVars

----------------------------------------------------------------------------
\* However logins, refreshes and changes of the account overlap, the tokens that are let
\* in come from one login, the last one (admin-session.ts:20-30, admin.service.ts:482-495).
OneSession == \A t \in token : InForce(t) => t.login = logins

\* What ended a session ended it for good: no refresh, and no later enabling of the
\* account, makes a token work again, unless a change of `enabled` overlapped another or a
\* login (admin.service.ts:763, 791-804; admin-session.ts:31-37).
SessionsEndForGood == [][alone => \A t \in token : ~InForce(t) => ~InForce(t)']_sessionVars
=============================================================================
