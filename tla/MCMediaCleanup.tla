--------------------------- MODULE MCMediaCleanup ---------------------------
(* Instances of MediaCleanup for TLC. *)
EXTENDS MediaCleanup

CONSTANTS m1, m2, user

OneUploader == [m \in Urls |-> user]
FirstIsM1   == [m \in Urls |-> IF m = m1 THEN 1 ELSE 2]
=============================================================================
