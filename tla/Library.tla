-------------------------------- MODULE Library --------------------------------
(***************************************************************************)
(* ResourcesService: files that a client puts into the bucket under a      *)
(* presigned URL, and the resources that offer them for download.  Nothing *)
(* ties the row of a resource to the object: the key of a new resource has *)
(* to look right, and is not unique; the object of an archived one is      *)
(* deleted in the background.                                              *)
(***************************************************************************)
EXTENDS Storage

CONSTANTS
    Resources,
    FileKeys     \* keys {organisation}/{uuid}.{ext}

VARIABLES
    resource,    \* the rows
    url,         \* per key: no upload URL yet, a valid one, one that has expired
    deleting,    \* the resources whose object is being deleted
    uploaded     \* history: the keys under which a file was uploaded

libraryVars == <<resource, url, deleting, uploaded>>

Offer(key, k, closed) == [key |-> key, course |-> k, archived |-> closed]
NoResource == Offer(None, None, FALSE)
Offered(x) == resource[x] # NoResource /\ ~resource[x].archived

LibraryCalls == [at : {"archiveResource"}, resource : Resources]

LibraryTypeOK ==
    /\ resource \in [Resources ->
           [key : FileKeys, course : Courses \union {None}, archived : BOOLEAN]
           \union {NoResource}]
    /\ url \in [FileKeys -> {None, "valid", "expired"}]
    /\ deleting \subseteq Resources
    /\ uploaded \subseteq FileKeys

LibraryInit ==
    /\ resource = [x \in Resources |-> NoResource]
    /\ url = [key \in FileKeys |-> None]
    /\ deleting = {}
    /\ uploaded = {}

\* listResources and getResource: as for meetings, and a resource without a course is
\* for administrators.
SeesResource(u, x) ==
    /\ Offered(x)
    /\ LET k == resource[x].course
       IN  \/ u = Admin
           \/ k # None /\ u \in Mentors /\ EverMentorOf(u, k)
           \/ k # None /\ u \in Scholars /\ <<k, u>> \in members

\* A fresh uuid.
GenerateUploadUrl(key) ==
    /\ configured
    /\ url[key] = None
    /\ url' = [url EXCEPT ![key] = "valid"]
    /\ UNCHANGED <<tables, call, storageVars, resource, deleting, uploaded>>

\* The client uploads, once or again; the store takes the URL for 15 minutes.
Upload(key) ==
    /\ url[key] = "valid"
    /\ PutObject(key)
    /\ uploaded' = uploaded \union {key}
    /\ UNCHANGED <<tables, call, resource, url, deleting>>
UrlExpires(key) ==
    /\ url[key] = "valid"
    /\ url' = [url EXCEPT ![key] = "expired"]
    /\ UNCHANGED <<tables, call, storageVars, resource, deleting, uploaded>>

\* The key is any that fits the pattern.  The audit entry that follows changes no row.
CreateResource(x, key, k) ==
    /\ resource[x] = NoResource
    /\ resource' = [resource EXCEPT ![x] = Offer(key, k, FALSE)]
    /\ UNCHANGED <<tables, call, storageVars, url, deleting, uploaded>>

ArchiveResource(c, x) ==
    /\ call[c] = Idle
    /\ Offered(x)
    /\ Goes(c, [at |-> "archiveResource", resource |-> x])
    /\ UNCHANGED <<tables, storageVars, libraryVars>>

\* The deletion is started and not awaited; the audit entry comes after it.
ArchiveResourceWrites(c) ==
    /\ call[c].at = "archiveResource"
    /\ LET x == call[c].resource
       IN  /\ resource' = [resource EXCEPT ![x].archived = TRUE]
           /\ deleting' = deleting \union {x}
    /\ Goes(c, Idle)
    /\ UNCHANGED <<tables, storageVars, url, uploaded>>

ArchiveResourceFails(c) ==
    /\ call[c].at = "archiveResource"
    /\ Goes(c, Idle)
    /\ UNCHANGED <<tables, storageVars, libraryVars>>

DeleteFile(x) ==
    /\ x \in deleting
    /\ DeleteObject(resource[x].key)
    /\ deleting' = deleting \ {x}
    /\ UNCHANGED <<tables, call, resource, url, uploaded>>

\* The failure is logged and forgotten, and so is a deletion the process dies under.
DeleteFails(x) ==
    /\ x \in deleting
    /\ deleting' = deleting \ {x}
    /\ UNCHANGED <<tables, call, storageVars, resource, url, uploaded>>

LibraryNext ==
    \/ \E key \in FileKeys : GenerateUploadUrl(key) \/ Upload(key) \/ UrlExpires(key)
    \/ \E x \in Resources, key \in FileKeys, k \in Courses \union {None} : CreateResource(x, key, k)
    \/ \E c \in Calls, x \in Resources : ArchiveResource(c, x)
    \/ \E c \in Calls : ArchiveResourceWrites(c) \/ ArchiveResourceFails(c)
    \/ \E x \in Resources : DeleteFile(x) \/ DeleteFails(x)

\* Whose archiving may take the file of x away: a resource under the same key.
Rivals(x) ==
    {y \in Resources \ {x} : resource[y].archived /\ resource[y].key = resource[x].key}

\* A file that was uploaded for a resource that is still offered is in the bucket,
\* unless a resource under the same key was archived (archiveResource).
FilesKept ==
    \A x \in Resources :
        Offered(x) /\ resource[x].key \in uploaded /\ Rivals(x) = {} =>
            resource[x].key \in bucket
=============================================================================
