----------------------------- MODULE MediaRows -----------------------------
(***************************************************************************)
(* The media_assets table as the business transactions use it              *)
(* (src/modules/media/media-asset.service.ts).  An uploaded object is      *)
(* named by its url; the uploader is part of the object key, so it is a    *)
(* constant of the url.  A row is reduced to its state: the columns that   *)
(* only keep timestamps and error texts are left out.                      *)
(***************************************************************************)
CONSTANTS Urls,      \* the managed media urls
          Owner      \* [Urls -> uploader], the id that is a segment of the object key

AssetState == {"ABSENT", "PENDING", "ATTACHED", "DELETE_PENDING",
               "DELETING", "DELETED", "DELETE_FAILED"}

\* attachUrls, the checks: every url has a row of this uploader that waits for
\* content or already has some.  `seen` is the table as the transaction reads it.
MayAttach(seen, uploader, urls) ==
    \A m \in urls : Owner[m] = uploader /\ seen[m] \in {"PENDING", "ATTACHED"}

\* A slip the properties must notice: the write forgets the state.
SlipAttach(rows, urls) ==
    [m \in Urls |-> IF m \in urls THEN "ATTACHED" ELSE rows[m]]

\* attachUrls, the write: a conditional update whose count nobody looks at.
Attach(rows, urls) ==
    [m \in Urls |-> IF m \in urls /\ rows[m] = "PENDING" THEN "ATTACHED" ELSE rows[m]]

Condemnable == {"PENDING", "ATTACHED", "DELETE_FAILED"}

\* requestDeleteUrls: queue the objects for the cleanup worker.
RequestDelete(rows, urls) ==
    [m \in Urls |-> IF m \in urls /\ rows[m] \in Condemnable
                    THEN "DELETE_PENDING" ELSE rows[m]]
=============================================================================
