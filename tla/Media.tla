------------------------------- MODULE Media -------------------------------
(***************************************************************************)
(* Image uploads.  A request checks and decodes its file, puts the object  *)
(* into the bucket and then inserts the images row that a profile can refer*)
(* to.  put creates the bucket on first use, in two calls: create_bucket   *)
(* and put_bucket_policy, without which nobody can read the objects.       *)
(***************************************************************************)
EXTENDS Integers, FiniteSets

CONSTANT Uploads  \* concurrent upload requests; each has an image id of its own

VARIABLES
  bucket,      \* the bucket of S3_BUCKET: none, private (no policy), public
  stored,      \* images whose object is in the bucket
  images,      \* images with a row
  uploads,     \* where each request stands
  policyLost   \* history: a request ended between create_bucket and the policy

mediaVars == <<bucket, stored, images, uploads, policyLost>>

MediaInit ==
  /\ bucket = "none"
  /\ stored = {}
  /\ images = {}
  /\ uploads = [u \in Uploads |-> "idle"]
  /\ policyLost = FALSE

-----------------------------------------------------------------------------
(* upload_image.                                                           *)

Goes(u, pc) == uploads' = [uploads EXCEPT ![u] = pc]

\* validate_upload and process_image: size, declared and found type, dimensions and
\* decoding.  A file that is refused ends the request with a validation error.
AfterChecks(accepted) == IF accepted THEN "head" ELSE "ended"

upload_image(u, accepted) ==
  /\ uploads[u] = "idle"
  /\ Goes(u, AfterChecks(accepted))
  /\ UNCHANGED <<bucket, stored, images, policyLost>>

\* head_bucket; any error of it counts as a missing bucket.
HeadBucket(u, found) ==
  /\ uploads[u] = "head"
  /\ found => bucket # "none"
  /\ Goes(u, IF found THEN "put" ELSE "create")
  /\ UNCHANGED <<bucket, stored, images, policyLost>>

\* create_bucket; BucketAlreadyOwnedByYou counts as success.
CreateBucket(u) ==
  /\ uploads[u] = "create"
  /\ bucket' = IF bucket = "none" THEN "private" ELSE bucket
  /\ Goes(u, "policy")
  /\ UNCHANGED <<stored, images, policyLost>>

PutBucketPolicy(u) ==
  /\ uploads[u] = "policy"
  /\ bucket' = "public"
  /\ Goes(u, "put")
  /\ UNCHANGED <<stored, images, policyLost>>

\* Faulty variant: an object that was not stored gets its row.
IgnoresErrorFaulty(ok) == "insert"

AfterPut(ok) == IF ok THEN "insert" ELSE "ended"

PutObject(u, ok) ==
  /\ uploads[u] = "put"
  /\ stored' = IF ok THEN stored \cup {u} ELSE stored
  /\ Goes(u, AfterPut(ok))
  /\ UNCHANGED <<bucket, images, policyLost>>

\* image_repository.create.
InsertImage(u) ==
  /\ uploads[u] = "insert"
  /\ images' = images \cup {u}
  /\ Goes(u, "ended")
  /\ UNCHANGED <<bucket, stored, policyLost>>

\* An error of storage or database, or a cancelled request: nothing is undone.
UploadFails(u) ==
  /\ uploads[u] \in {"head", "create", "policy", "insert"}
  /\ policyLost' = (policyLost \/ uploads[u] = "policy")
  /\ Goes(u, "ended")
  /\ UNCHANGED <<bucket, stored, images>>

UploadStep(u) ==
  \/ \E accepted \in BOOLEAN : upload_image(u, accepted)
  \/ \E found \in BOOLEAN : HeadBucket(u, found)
  \/ CreateBucket(u)
  \/ PutBucketPolicy(u)
  \/ \E ok \in BOOLEAN : PutObject(u, ok)
  \/ InsertImage(u)
  \/ UploadFails(u)

MediaNext == \E u \in Uploads : UploadStep(u)

MediaSpec == MediaInit /\ [][MediaNext]_mediaVars

-----------------------------------------------------------------------------
(* Properties.                                                             *)

(* An image that a profile can refer to is there and can be read by        *)
(* everyone, except while the request that created the bucket is about to  *)
(* set its policy, or once such a request has ended without setting it:    *)
(* head_bucket then finds the bucket and the policy is never set.          *)
ImagesAreServed ==
  \A i \in images :
    /\ i \in stored
    /\ bucket = "public" \/ policyLost \/ \E u \in Uploads : uploads[u] = "policy"
=============================================================================
