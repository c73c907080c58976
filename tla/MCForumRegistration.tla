------------------------ MODULE MCForumRegistration ------------------------
(* Instances of ForumRegistration for TLC. *)
EXTENDS ForumRegistration, TLC

Interchangeable == Permutations(Users) \cup Permutations(Requests)
=============================================================================
