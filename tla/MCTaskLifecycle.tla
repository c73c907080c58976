-------------------------- MODULE MCTaskLifecycle --------------------------
(* Instances of TaskLifecycle for TLC. *)
EXTENDS TaskLifecycle, TLC

CONSTANTS u1, u2

\* Nothing is uploaded: the life of a task alone.
NoUrls   == {}
NobodysUrls == <<>>

\* u1 uploaded everything, or u2 (who proves the work) did.
OwnedByU1 == [m \in Urls |-> u1]
OwnedByU2 == [m \in Urls |-> u2]

Interchangeable == Permutations(Users) \cup Permutations(Requests)
RequestsAlike   == Permutations(Requests)
=============================================================================
