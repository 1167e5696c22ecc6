-------------------------------- MODULE Storage --------------------------------
(***************************************************************************)
(* R2Service: the bucket.  A presigned URL is made without asking the      *)
(* store whether the object exists.                                        *)
(***************************************************************************)
EXTENDS Tables

VARIABLES
    bucket,       \* the keys of the objects stored
    configured    \* whether this process booted with the credentials of R2

storageVars == <<bucket, configured>>

\* getUploadUrl and getDownloadUrl refuse without the credentials, and so does putObject;
\* deleteObject then does nothing.
PutObject(key) == configured /\ bucket' = bucket \union {key} /\ UNCHANGED configured
DeleteObject(key) ==
    /\ bucket' = IF configured THEN bucket \ {key} ELSE bucket
    /\ UNCHANGED configured

StorageInit == bucket = {} /\ configured \in BOOLEAN
=============================================================================
