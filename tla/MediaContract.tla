--------------------------- MODULE MediaContract ---------------------------
(***************************************************************************)
(* What a picture's row and its object in the store promise together: the  *)
(* object is put before the row, a picture waits for a content, is used,   *)
(* is released and removed, in this order and never back.  The cleanup     *)
(* takes up what was released, or what nobody used until it was stale.     *)
(*                                                                         *)
(* Nothing here knows of batches, of claims or of what a worker has read;  *)
(* of a picture that is uploaded again nothing is promised.                *)
(***************************************************************************)
CONSTANT Pictures

VARIABLE media    \* for every picture: where it is in its life, and its object

Life == {"none", "waiting", "stale", "used", "released", "leaving", "gone", "again"}

Entry == [life: Life, stored: BOOLEAN]

TypeOK == media \in [Pictures -> Entry]

Nothing == [life |-> "none", stored |-> FALSE]
Beyond  == [life |-> "again", stored |-> FALSE]

Init == media = [m \in Pictures |-> Nothing]

\* The pictures of S go from one of the lives `from` to another; their objects stay.
Turn(S, from, to) ==
    /\ \A m \in S : media[m].life \in from
    /\ media' = [m \in Pictures |-> IF m \in S THEN [media[m] EXCEPT !.life = to] ELSE media[m]]

\* The object is put into the store, or removed from it.
Store(m, from, there) ==
    /\ media[m].life \in from
    /\ media' = [media EXCEPT ![m].stored = there]

Put(m)      == Store(m, {"none"}, TRUE)
TakeBack(m) == Store(m, {"none"}, FALSE)
Register(m) == media[m].stored /\ Turn({m}, {"none"}, "waiting")
Age(m)      == Turn({m}, {"waiting"}, "stale")

\* A content takes all its pictures at once, and gives them up at once.
Use(S)      == Turn(S, {"waiting", "stale"}, "used")
Release(S)  == Turn(S, {"used"}, "released")

\* The cleanup.  An attempt may fail and leave the picture as it was released.
Expire(m)   == Turn({m}, {"stale"}, "leaving")
Take(m)     == Turn({m}, {"released"}, "leaving")
Refuse(m)   == Turn({m}, {"leaving"}, "released")
Remove(m)   == Store(m, {"released", "leaving"}, FALSE)
Close(m)    == ~media[m].stored /\ Turn({m}, {"leaving"}, "gone")

Again(m)    == media' = [media EXCEPT ![m] = Beyond]

Next ==
    \/ \E m \in Pictures :
         \/ Put(m) \/ TakeBack(m) \/ Register(m) \/ Age(m) \/ Again(m)
         \/ Expire(m) \/ Take(m) \/ Refuse(m) \/ Remove(m) \/ Close(m)
    \/ \E S \in SUBSET Pictures : Use(S) \/ Release(S)

Spec == Init /\ [][Next]_media
=============================================================================
