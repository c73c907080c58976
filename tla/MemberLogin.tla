---------------------------- MODULE MemberLogin ----------------------------
(***************************************************************************)
(* Logins to the mini program (AuthService): by openid, which WeChat tells *)
(* for a device's code, and by a phone number it vouches for, which takes  *)
(* the account it is bound to along to the openid of the login.  A login   *)
(* finds its account with one statement and writes it with the next,       *)
(* outside any transaction; openid and phone number are unique keys.       *)
(* The calls to WeChat come before the first statement and change nothing. *)
(***************************************************************************)
EXTENDS Naturals

CONSTANTS Openids, Phones,
          NoOne,          \* no openid: a row that is not there; no phone number
          MaxAccounts,    \* bound on accounts
          Devices         \* logins in flight at once

ASSUME LoginAssumption == MaxAccounts \in Nat /\ NoOne \notin Openids \cup Phones

VARIABLES user,           \* the rows of users
          entering,       \* logins in flight, each with the account it has found
          rebound,        \* history: an account got another openid or phone number while a
                          \* login that had found it was in flight
          strayed         \* history: a login was given an account that is not its own

memberVars == <<user, entering, rebound, strayed>>

Accounts == 1..MaxAccounts
Unknown  == 0
User     == [openid: Openids \cup {NoOne}, phone: Phones \cup {NoOne}, enabled: BOOLEAN]
NoLogin  == [at |-> "none"]
Entering == [at: {"profile", "migrate", "upsert"}, openid: Openids, phone: Phones \cup {NoOne},
             found: Accounts \cup {Unknown}]

MemberTypeOK ==
    /\ user \in [Accounts -> User]
    /\ \A a, b \in Accounts : a # b =>
         /\ user[a].openid = user[b].openid => user[a].openid = NoOne
         /\ user[a].phone = user[b].phone => user[a].phone = NoOne
    /\ entering \in [Devices -> Entering \cup {NoLogin}]
    /\ rebound \in BOOLEAN /\ strayed \in BOOLEAN

MemberInit ==
    /\ user = [a \in Accounts |-> [openid |-> NoOne, phone |-> NoOne, enabled |-> TRUE]]
    /\ entering = [d \in Devices |-> NoLogin]
    /\ rebound = FALSE /\ strayed = FALSE

Known(a)        == user[a].openid # NoOne
OpenidOf(o)     == {a \in Accounts : user[a].openid = o}
PhoneOf(p)      == {a \in Accounts : user[a].phone = p}
NewAccount      == {a \in Accounts : ~Known(a) /\ \A b \in Accounts : b < a => Known(b)}

----------------------------------------------------------------------------
(* The answer of a login is the row its last statement returns; a frozen account has been *)
(* written all the same, and gets no token. *)

Answered(d, row, openid, phone) ==
    /\ entering' = [entering EXCEPT ![d] = NoLogin]
    /\ strayed' = \/ strayed
                  \/ row.enabled /\ (row.openid # openid \/ phone \notin {NoOne, row.phone})

Bind(d, a, row, openid, phone) ==
    /\ user' = [user EXCEPT ![a] = row]
    /\ rebound' = \/ rebound
                  \/ /\ <<row.openid, row.phone>> # <<user[a].openid, user[a].phone>>
                     /\ \E other \in Devices \ {d} :
                          entering[other] # NoLogin /\ entering[other].found = a
    /\ Answered(d, row, openid, phone)

\* upsertWechatLoginUser: a new account, or the one there is, whose name or gender may have
\* to be brought up to date first.
wechatLogin(d, o) ==
    /\ entering[d] = NoLogin
    /\ \/ \E a \in OpenidOf(o) :
            /\ \/ Answered(d, user[a], o, NoOne)
               \/ /\ entering' = [entering EXCEPT ![d] = [at |-> "profile", openid |-> o,
                                                          phone |-> NoOne, found |-> a]]
                  /\ UNCHANGED strayed
            /\ UNCHANGED <<user, rebound>>
       \/ /\ OpenidOf(o) = {}
          /\ \E a \in NewAccount :
               Bind(d, a, [openid |-> o, phone |-> NoOne, enabled |-> TRUE], o, NoOne)

\* By id, and the row as it is then is the answer.
updateExistingWechatUser(d) ==
    /\ entering[d] # NoLogin /\ entering[d].at = "profile"
    /\ Answered(d, user[entering[d].found], entering[d].openid, NoOne)
    /\ UNCHANGED <<user, rebound>>

resolvePhoneLoginBindingAction(bound, o) ==
    IF \E a \in bound : user[a].openid # o THEN "migrate" ELSE "upsert"

BeginPhoneLogin(d, o, p) ==
    /\ entering[d] = NoLogin
    /\ \E found \in IF PhoneOf(p) = {} THEN {Unknown} ELSE PhoneOf(p) :
         entering' = [entering EXCEPT ![d] =
                        [at |-> resolvePhoneLoginBindingAction(PhoneOf(p), o), openid |-> o,
                         phone |-> p, found |-> found]]
    /\ UNCHANGED <<user, rebound, strayed>>

\* By id; an openid that has an account of its own makes it fail.
migrateBoundUser(d) ==
    LET q == entering[d] IN
    /\ q # NoLogin /\ q.at = "migrate"
    /\ OpenidOf(q.openid) \subseteq {q.found}
    /\ Bind(d, q.found, [user[q.found] EXCEPT !.openid = q.openid], q.openid, q.phone)

SlipWithPhone(row, p) == row

WithPhone(row, p) == [row EXCEPT !.phone = p]

\* By openid; a phone number that is somebody else's by now makes it fail.
upsertCurrentOpenid(d) ==
    LET q == entering[d] IN
    /\ q # NoLogin /\ q.at = "upsert"
    /\ \E a \in IF OpenidOf(q.openid) = {} THEN NewAccount ELSE OpenidOf(q.openid) :
         /\ PhoneOf(q.phone) \subseteq {a}
         /\ Bind(d, a, WithPhone([user[a] EXCEPT !.openid = q.openid], q.phone),
                 q.openid, q.phone)

\* A unique key is taken, or the database fails.
LoginFails(d) ==
    /\ entering[d] # NoLogin
    /\ entering' = [entering EXCEPT ![d] = NoLogin]
    /\ UNCHANGED <<user, rebound, strayed>>

updateUserEnabled(a, enabled) ==
    /\ Known(a)
    /\ user' = [user EXCEPT ![a].enabled = enabled]
    /\ UNCHANGED <<entering, rebound, strayed>>

MemberNext ==
    \/ \E d \in Devices :
         \/ \E o \in Openids : wechatLogin(d, o) \/ \E p \in Phones : BeginPhoneLogin(d, o, p)
         \/ updateExistingWechatUser(d) \/ migrateBoundUser(d) \/ upsertCurrentOpenid(d)
         \/ LoginFails(d)
    \/ \E a \in Accounts, enabled \in BOOLEAN : updateUserEnabled(a, enabled)

MemberSpec == MemberInit /\ [][MemberNext]_memberVars

----------------------------------------------------------------------------
\* A login that succeeds is given the account that has its openid and its phone number at
\* that moment, however many devices create, take along and rebind accounts at once: the
\* unique keys stop all of them but one.  They do not stop a login whose account is bound
\* anew between its two statements, for the second one goes by the id alone
\* (auth.service.ts:87-103, 209-230).
LoginMeetsItsAccount == rebound \/ ~strayed
=============================================================================
