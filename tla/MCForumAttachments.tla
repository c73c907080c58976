------------------------- MODULE MCForumAttachments -------------------------
(* Instances of ForumAttachments for TLC. *)
EXTENDS ForumAttachments, TLC

Interchangeable == Permutations(Posts) \cup Permutations(Requests)
                     \cup Permutations(Uploads) \cup Permutations(Workers)
=============================================================================
