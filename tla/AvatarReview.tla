---------------------------- MODULE AvatarReview ----------------------------
(***************************************************************************)
(* One user's avatar and the reviews its candidates go through             *)
(* (AvatarReviewService): submission to WeChat, the asynchronous verdict,  *)
(* which may come late, early, twice or never, and the time-out found by   *)
(* whoever asks for the status.                                            *)
(*                                                                         *)
(* Reviews are numbered in the order of their createdAt and id.            *)
(***************************************************************************)
EXTENDS Naturals, MediaRows

CONSTANTS MaxReviews,   \* bound on reviews ever submitted
          Callbacks,    \* deliveries of a verdict handled at once
          Uploader      \* the user

ASSUME ReviewsAssumption ==
    MaxReviews \in Nat /\ Urls # {} /\ \A m \in Urls : Owner[m] = Uploader

VARIABLES review,     \* avatar_reviews: status, picture
          step,       \* the submission of each review: what the handler waits for
          verdict,    \* what WeChat will say of it, once it took it
          old,        \* reviews older than AVATAR_REVIEW_TIMEOUT_MS
          callback,   \* deliveries past their first read: the review, 0 for none
          avatar,     \* the review whose picture the profile shows, 0 for none
          picture     \* media_assets

avatarVars == <<review, step, verdict, old, callback, avatar, picture>>

Reviews  == 1..MaxReviews
Statuses == {"NONE", "SUBMITTING", "PENDING", "PASSED", "REJECTED", "FAILED", "SUPERSEDED"}
Open     == {"SUBMITTING", "PENDING"}
Verdicts == {"pass", "reject", "error"}

\* One review of a user waits for its verdict at a time (submit, under the lock).
OnePending ==
    \A i, j \in Reviews : review[i].status = "PENDING" /\ review[j].status = "PENDING" => i = j

ReviewTypeOK ==
    /\ review \in [Reviews -> [status: Statuses, pic: Urls]]
    /\ step \in [Reviews -> {"none", "asking", "accepted", "done"}]
    /\ verdict \in [Reviews -> Verdicts \cup {"none"}]
    /\ old \subseteq Reviews
    /\ callback \in [Callbacks -> {0} \cup Reviews]
    /\ avatar \in {0} \cup Reviews
    /\ picture \in [Urls -> AssetState]
    /\ OnePending

ReviewInit ==
    /\ review = [n \in Reviews |-> [status |-> "NONE", pic |-> CHOOSE m \in Urls : TRUE]]
    /\ step = [n \in Reviews |-> "none"]
    /\ verdict = [n \in Reviews |-> "none"]
    /\ old = {}
    /\ callback = [c \in Callbacks |-> 0]
    /\ avatar = 0
    /\ picture = [m \in Urls |-> "ABSENT"]

Submitted == {n \in Reviews : review[n].status # "NONE"}
Latest    == CHOOSE n \in Submitted \cup {0} : \A i \in Submitted : i <= n
Settle(n, status) == review' = [review EXCEPT ![n].status = status]

----------------------------------------------------------------------------
(* submit *)

\* The upload registers the picture, again if it was uploaded before; then the row.
CreateReview(n, m) ==
    /\ n = Latest + 1
    /\ picture' = [picture EXCEPT ![m] = "PENDING"]
    /\ review' = [review EXCEPT ![n] = [status |-> "SUBMITTING", pic |-> m]]
    /\ step' = [step EXCEPT ![n] = "asking"]
    /\ UNCHANGED <<verdict, old, callback, avatar>>

\* WeChat takes the picture and will answer under the trace id it returns.
WechatAccepts(n, v) ==
    /\ step[n] = "asking"
    /\ step' = [step EXCEPT ![n] = "accepted"]
    /\ verdict' = [verdict EXCEPT ![n] = v]
    /\ UNCHANGED <<review, old, callback, avatar, picture>>

\* It refuses or does not answer: FAILED, whatever the row has become.
WechatRefuses(n) ==
    /\ step[n] = "asking"
    /\ Settle(n, "FAILED")
    /\ step' = [step EXCEPT ![n] = "done"]
    /\ UNCHANGED <<verdict, old, callback, avatar, picture>>

SlipSuperseded(n) == {i \in Reviews \ {n} : review[i].status = "SUBMITTING"}

Superseded(n) == {i \in Reviews \ {n} : review[i].status \in Open}

\* Under the user's lock: an older review than the latest is superseded; the latest
\* supersedes the open ones, and waits from now on, also if it was timed out before.
submit(n) ==
    /\ step[n] = "accepted"
    /\ IF n # Latest
       THEN Settle(n, "SUPERSEDED") /\ UNCHANGED picture
       ELSE /\ MayAttach(picture, Uploader, {review[n].pic})
            /\ review' = [i \in Reviews |->
                            IF i = n THEN [review[i] EXCEPT !.status = "PENDING"]
                            ELSE IF i \in Superseded(n) THEN [review[i] EXCEPT !.status = "SUPERSEDED"]
                            ELSE review[i]]
            /\ picture' = RequestDelete(Attach(picture, {review[n].pic}),
                                        {review[i].pic : i \in Superseded(n)})
    /\ step' = [step EXCEPT ![n] = "done"]
    /\ UNCHANGED <<verdict, old, callback, avatar>>

\* The process dies, or the transaction fails: WeChat has the picture, the row not its trace id.
SubmitLost(n) ==
    /\ step[n] \in {"asking", "accepted"}
    /\ step' = [step EXCEPT ![n] = "done"]
    /\ UNCHANGED <<review, verdict, old, callback, avatar, picture>>

----------------------------------------------------------------------------
(* getStatus *)

Age(n) ==
    /\ n \in Submitted \ old
    /\ old' = old \cup {n}
    /\ UNCHANGED <<review, step, verdict, callback, avatar, picture>>

\* Checked again under the lock.
getStatus(n) ==
    /\ n \in old /\ review[n].status \in Open
    /\ Settle(n, "FAILED")
    /\ UNCHANGED <<step, verdict, old, callback, avatar, picture>>

----------------------------------------------------------------------------
(* handleResult: delivered any number of times, and before submit commits, when *)
(* nobody knows the trace id and WeChat is told to try again.                   *)

Known(n) == step[n] = "done" /\ verdict[n] # "none" /\ review[n].status # "SUBMITTING"

BeginResult(c, n) ==
    /\ callback[c] = 0
    /\ Known(n) /\ review[n].status = "PENDING"
    /\ callback' = [callback EXCEPT ![c] = n]
    /\ UNCHANGED <<review, step, verdict, old, avatar, picture>>

Answered(c) == callback' = [callback EXCEPT ![c] = 0]

\* An error and any suggestion but pass are written by id, without the lock.
ResultError(c) ==
    LET n == callback[c] IN
    /\ n # 0 /\ verdict[n] \in {"error", "reject"}
    /\ Settle(n, IF verdict[n] = "error" THEN "FAILED" ELSE "REJECTED")
    /\ picture' = RequestDelete(picture, {review[n].pic})
    /\ Answered(c)
    /\ UNCHANGED <<step, verdict, old, avatar>>

SlipStillDue(n) == TRUE

\* Under the lock: still pending, and still the latest.
StillDue(n) == review[n].status = "PENDING" /\ n = Latest

SlipPreviousPicture(n) == IF avatar = 0 THEN {} ELSE {review[avatar].pic, review[n].pic}

\* The picture shown so far is given up, unless it is the same.
PreviousPicture(n) == IF avatar = 0 THEN {} ELSE {review[avatar].pic} \ {review[n].pic}

ResultPass(c) ==
    LET n == callback[c] IN
    /\ n # 0 /\ verdict[n] = "pass"
    /\ IF StillDue(n)
       THEN /\ Settle(n, "PASSED")
            /\ avatar' = n
            /\ picture' = RequestDelete(picture, PreviousPicture(n))
       ELSE /\ review[n].status = "PENDING" => Settle(n, "SUPERSEDED")
            /\ review[n].status # "PENDING" => UNCHANGED review
            /\ UNCHANGED <<avatar, picture>>
    /\ Answered(c)
    /\ UNCHANGED <<step, verdict, old>>

\* The process dies or the transaction fails; WeChat delivers again.
ResultLost(c) ==
    /\ callback[c] # 0
    /\ Answered(c)
    /\ UNCHANGED <<review, step, verdict, old, avatar, picture>>

ReviewNext ==
    \/ \E n \in Reviews :
         \/ \E m \in Urls : CreateReview(n, m)
         \/ \E v \in Verdicts : WechatAccepts(n, v)
         \/ WechatRefuses(n) \/ submit(n) \/ SubmitLost(n) \/ Age(n) \/ getStatus(n)
    \/ \E c \in Callbacks :
         \/ ResultError(c) \/ ResultPass(c) \/ ResultLost(c)
         \/ \E n \in Reviews : BeginResult(c, n)

ReviewSpec == ReviewInit /\ [][ReviewNext]_avatarVars

----------------------------------------------------------------------------
\* The profile shows a picture WeChat passed, and once it does, only a younger review
\* takes its place: a late or repeated verdict on an older one never does
\* (avatar-review.service.ts:155-171).
AvatarMovesForward ==
    [][avatar' # avatar => avatar' > avatar /\ verdict[avatar'] = "pass"]_avatarVars

\* The picture of the profile is never given up to the cleanup, as long as it was sent
\* to review once only (avatar-review.service.ts:88-92, 135-151, 176-179).
AvatarIsKept ==
    avatar # 0 /\ (\A n \in Submitted : review[n].pic = review[avatar].pic => n = avatar)
      => picture[review[avatar].pic] = "ATTACHED"
=============================================================================
