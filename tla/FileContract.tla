---------------------------- MODULE FileContract ----------------------------
(***************************************************************************)
(* What the forum promises of a file that is uploaded again and again: one *)
(* object serves all its uploads.  Each upload has an asset that waits for *)
(* a post, is shown by one, is left over or given up, and goes; the object *)
(* is there whenever an asset is made, and is only removed for the sake of *)
(* the last asset there is, when nobody can show that one any more.        *)
(*                                                                         *)
(* Nothing here knows of keys, marks, counts, batches, or of what a        *)
(* request or a worker has read.                                           *)
(***************************************************************************)
CONSTANTS Assets, Posts, NoPost

VARIABLES life,      \* where every asset is in its life
          relation,  \* the post that shows it
          stored     \* the object all of them share can be fetched

contractVars == <<life, relation, stored>>

Life == {"none", "waiting", "stale", "shown", "loose", "leaving", "gone"}

TypeOK ==
    /\ life \in [Assets -> Life]
    /\ relation \in [Assets -> Posts \cup {NoPost}]
    /\ stored \in BOOLEAN

Init ==
    /\ life = [a \in Assets |-> "none"]
    /\ relation = [a \in Assets |-> NoPost]
    /\ stored = FALSE

Turn(a, from, to) == life[a] \in from /\ life' = [life EXCEPT ![a] = to]

\* The object was there and is shared, or comes with the asset.
Upload(a) == Turn(a, {"none"}, "waiting") /\ stored' = TRUE /\ UNCHANGED relation
Age(a)    == Turn(a, {"waiting"}, "stale") /\ UNCHANGED <<relation, stored>>

\* From now on the post shows S and nothing else.  Of what it showed, or what was left over,
\* some is given up; the rest of what it showed is left over.
Show(p, S) ==
    /\ relation' = [a \in Assets |-> IF a \in S THEN p
                                     ELSE IF relation[a] = p THEN NoPost ELSE relation[a]]
    /\ \A a \in S : life[a] \in {"waiting", "stale", "loose"} \/ relation[a] = p
    /\ \E givenUp \in SUBSET {a \in Assets \ S : life[a] = "loose" \/ relation[a] = p} :
          life' = [a \in Assets |-> IF a \in S THEN "shown"
                                   ELSE IF a \in givenUp THEN "leaving"
                                   ELSE IF relation[a] = p THEN "loose" ELSE life[a]]
    /\ UNCHANGED stored

\* The cleanup.  What nobody shows, and has not just been uploaded, is taken up; it may be
\* given back, as long as the object is there.
Take(a)   == Turn(a, {"stale", "loose"}, "leaving") /\ UNCHANGED <<relation, stored>>
Return(a) == stored /\ Turn(a, {"leaving"}, "loose") /\ UNCHANGED <<relation, stored>>
Close(a)  == Turn(a, {"leaving"}, "gone") /\ UNCHANGED <<relation, stored>>

Remove(a) ==
    /\ life[a] = "leaving"
    /\ \A b \in Assets \ {a} : life[b] \in {"none", "gone"}
    /\ stored' = FALSE
    /\ UNCHANGED <<life, relation>>

Next ==
    \/ \E p \in Posts, S \in SUBSET Assets : Show(p, S)
    \/ \E a \in Assets : Upload(a) \/ Age(a) \/ Take(a) \/ Return(a) \/ Close(a) \/ Remove(a)

Spec == Init /\ [][Next]_contractVars
=============================================================================
