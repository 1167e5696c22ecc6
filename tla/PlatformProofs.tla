---------------------------- MODULE PlatformProofs ----------------------------
(***************************************************************************)
(* Proofs about Platform: the reports, the library and the sessions, and   *)
(* with AttendanceProofs and StandingProofs the invariants of the whole.   *)
(***************************************************************************)
EXTENDS Platform, AttendanceProofs, StandingProofs, FiniteSetTheorems, SequenceTheorems

-----------------------------------------------------------------------------
(* Reports.                                                                *)

\* What a report, its job and its notices may be, one beside the other.
LastOf(j) == j.made + 1 >= Attempts
Running == {"waiting", "returned", "threw"} \union Generating \union Failing

\* A job that goes on has attempts and stalls left, and the failure path belongs to the
\* last attempt.
JobOK(e, j) ==
    /\ j.at \in Running => j.made < Attempts /\ j.stalls <= MaxStalls
    /\ j.at \in {"fail", "tellFailed"} => LastOf(j)
    /\ e = NoExport => j.at = None
\* What the status of the report is by then.
StatusOK(e, j) ==
    /\ j.at \in {"claim", "put", "complete"} => e.status # "COMPLETED"
    /\ j.at \in {"audit", "ready", "mail"} => e.status = "COMPLETED"
    /\ j.at = "tellFailed" => e.status = "FAILED"
\* While no worker has died, the requester has heard nothing before notifyReady, nothing
\* bad before the last attempt is over, and something good only of a report that stands.
NoticesOK(e, j, n) ==
    /\ j.at = None => n.ready = 0 /\ n.failed = 0
    /\ j.stalls = 0 =>
          /\ j.at \in Generating \ {"mail"} => n.ready = 0
          /\ n.failed # 0 => j.at = "failed" \/ (j.at = "threw" /\ LastOf(j))
          /\ n.ready # 0 /\ j.at # None =>
                \/ e.status = "COMPLETED"
                \/ j.at \in {"tellFailed", "failed"} \/ (j.at = "threw" /\ LastOf(j))
ReportOK(e, j, n) == JobOK(e, j) /\ StatusOK(e, j) /\ NoticesOK(e, j, n)

ExportType ==
    [status : {"PENDING", "PROCESSING"} \union Settled, keyed : BOOLEAN, expired : BOOLEAN]
    \union {NoExport}
JobType == [at : Running \union Final, made : 0 .. Attempts, stalls : 0 .. MaxStalls + 1]
NoticeType == [ready : Nat, failed : Nat]

Stored ==
    \A r \in Exports : export[r].keyed \/ job[r].at = "complete" => FileOf(r) \in bucket

\* A request that has yet to queue its job is the only one about that report.
QueueingOK ==
    \A c \in Calls : call[c] # Idle =>
        /\ export[call[c].export] # NoExport
        /\ job[call[c].export].at = None
        /\ \A d \in Calls : call[d] # Idle /\ call[d].export = call[c].export => d = c

ReportsInv ==
    /\ export \in [Exports -> ExportType]
    /\ job \in [Exports -> JobType \union {NoJob}]
    /\ notices \in [Exports -> NoticeType]
    /\ handlers \in {{Unnamed}, {Generate}}
    /\ untold \subseteq Exports
    /\ bucket \subseteq {FileOf(r) : r \in Exports}
    /\ configured \in BOOLEAN
    /\ call \in [Calls -> ReportCalls \union {Idle}]
    /\ QueueingOK
    /\ Stored
    /\ \A r \in Exports : ReportOK(export[r], job[r], notices[r])

LEMMA ReportsInvTypes == ASSUME ReportsInv PROVE ReportsTypeOK
  BY DEF ReportsInv, ReportsTypeOK, ExportType, JobType, NoticeType, Running

LEMMA JobBuilt ==
    ASSUME NEW at \in Running \union Final, NEW n \in 0 .. Attempts, NEW k \in 0 .. MaxStalls + 1
    PROVE  /\ Job(at, n, k) \in JobType
           /\ Job(at, n, k).at = at /\ Job(at, n, k).made = n /\ Job(at, n, k).stalls = k
  BY DEF Job, JobType

LEMMA JobMoves ==
    ASSUME ReportsInv, NEW r \in Exports, job[r].at # None, NEW at \in Running \union Final, JobAt(r, at)
    PROVE  job' = [job EXCEPT ![r] = Job(at, job[r].made, job[r].stalls)]
  <1>1. job[r] \in JobType
    BY DEF ReportsInv, NoJob, Job
  <1>2. [job[r] EXCEPT !.at = at] = Job(at, job[r].made, job[r].stalls)
    BY <1>1 DEF JobType, Job
  <1>3. job' = [job EXCEPT ![r] = [job[r] EXCEPT !.at = at]]
    BY DEF JobAt
  <1> QED
    BY <1>2, <1>3

LEMMA ToldOnce ==
    ASSUME ReportsInv, NEW r \in Exports
    PROVE  /\ Told(r, "ready") => notices' = [notices EXCEPT ![r] =
                  [ready |-> notices[r].ready + 1, failed |-> notices[r].failed]]
           /\ Told(r, "failed") => notices' = [notices EXCEPT ![r] =
                  [ready |-> notices[r].ready, failed |-> notices[r].failed + 1]]
  <1>1. notices[r] \in NoticeType
    BY DEF ReportsInv
  <1>2. [notices[r] EXCEPT !["ready"] = @ + 1] =
            [ready |-> notices[r].ready + 1, failed |-> notices[r].failed]
    BY <1>1 DEF NoticeType
  <1>3. [notices[r] EXCEPT !["failed"] = @ + 1] =
            [ready |-> notices[r].ready, failed |-> notices[r].failed + 1]
    BY <1>1 DEF NoticeType
  <1>4. Told(r, "ready") => notices' = [notices EXCEPT ![r] = [notices[r] EXCEPT !["ready"] = @ + 1]]
    BY DEF Told
  <1>5. Told(r, "failed") => notices' = [notices EXCEPT ![r] = [notices[r] EXCEPT !["failed"] = @ + 1]]
    BY DEF Told
  <1> QED
    BY <1>2, <1>3, <1>4, <1>5

\* A step of the worker for report r, which turns its row, its job and its notices into
\* e, j and n.
LEMMA WorkInv ==
    ASSUME ReportsInv, NEW r \in Exports, NEW e \in ExportType, NEW j \in JobType, NEW n \in NoticeType,
           export' = [export EXCEPT ![r] = e],
           job' = [job EXCEPT ![r] = j],
           notices' = [notices EXCEPT ![r] = n],
           untold' \subseteq Exports,
           bucket' = bucket \/ bucket' = bucket \union {FileOf(r)},
           UNCHANGED <<call, handlers, configured>>,
           job[r].at # None,
           e.keyed \/ j.at = "complete" => FileOf(r) \in bucket',
           ReportOK(e, j, n)
    PROVE  ReportsInv'
  <1>1. /\ export' \in [Exports -> ExportType] /\ export'[r] = e
        /\ job' \in [Exports -> JobType \union {NoJob}] /\ job'[r] = j
        /\ notices' \in [Exports -> NoticeType] /\ notices'[r] = n
        /\ \A q \in Exports \ {r} :
              export'[q] = export[q] /\ job'[q] = job[q] /\ notices'[q] = notices[q]
    BY DEF ReportsInv
  <1>2. bucket \subseteq bucket' /\ bucket' \subseteq {FileOf(q) : q \in Exports}
    BY DEF ReportsInv
  <1>3. Stored'
    BY <1>1, <1>2 DEF Stored, ReportsInv, FileOf
  <1>4. \A q \in Exports : ReportOK(export[q], job[q], notices[q])'
    <2> SUFFICES ASSUME NEW q \in Exports
                 PROVE  ReportOK(export'[q], job'[q], notices'[q])
      BY DEF ReportOK, JobOK, StatusOK, NoticesOK, LastOf
    <2> QED
      BY <1>1 DEF ReportsInv
  <1>5. QueueingOK'
    <2> SUFFICES ASSUME NEW c \in Calls, call[c] # Idle
                 PROVE  /\ export'[call[c].export] # NoExport
                        /\ job'[call[c].export].at = None
      BY DEF QueueingOK, ReportsInv
    <2>1. call[c].export \in Exports
      BY DEF ReportsInv, ReportCalls
    <2>2. call[c].export # r /\ job[call[c].export].at = None /\ export[call[c].export] # NoExport
      BY DEF ReportsInv, QueueingOK
    <2> QED
      BY <1>1, <2>1, <2>2
  <1> QED
    BY <1>1, <1>2, <1>3, <1>4, <1>5 DEF ReportsInv

LEMMA RunningJob ==
    ASSUME ReportsInv, NEW r \in Exports, job[r].at \in Running
    PROVE  /\ job[r] \in JobType /\ job[r].at # None
           /\ job[r].made \in 0 .. Attempts - 1 /\ job[r].stalls \in 0 .. MaxStalls
           /\ LastAttempt(r) <=> LastOf(job[r])
           /\ export[r] \in ExportType /\ export[r] # NoExport
           /\ notices[r] \in NoticeType
           /\ ReportOK(export[r], job[r], notices[r])
           /\ export[r].keyed => FileOf(r) \in bucket
  <1>1. None \notin Running
    BY DEF None, Running, Generating, Failing
  <1>2. job[r] \in JobType /\ job[r].at # None
    BY <1>1 DEF ReportsInv, NoJob, Job
  <1>3. export[r] \in ExportType /\ notices[r] \in NoticeType
        /\ ReportOK(export[r], job[r], notices[r])
    BY DEF ReportsInv
  <1>4. job[r].made \in 0 .. Attempts - 1 /\ job[r].stalls \in 0 .. MaxStalls
    BY <1>2, <1>3, QueueAssumption DEF ReportOK, JobOK, JobType
  <1>5. export[r] # NoExport
    BY <1>2, <1>3 DEF ReportOK, JobOK
  <1> QED
    BY <1>2, <1>3, <1>4, <1>5 DEF LastAttempt, LastOf, ReportsInv, Stored

\* The same, with what the actions say of the three.
LEMMA MoveInv ==
    ASSUME ReportsInv, NEW r \in Exports, job[r].at \in Running,
           NEW at \in Running \union Final, JobAt(r, at),
           NEW e \in ExportType, export' = [export EXCEPT ![r] = e],
           NEW n \in NoticeType, notices' = [notices EXCEPT ![r] = n],
           untold' \subseteq Exports,
           bucket' = bucket \/ bucket' = bucket \union {FileOf(r)},
           UNCHANGED <<call, handlers, configured>>,
           e.keyed \/ at = "complete" => FileOf(r) \in bucket',
           JobOK(e, Job(at, job[r].made, job[r].stalls)),
           StatusOK(e, Job(at, job[r].made, job[r].stalls)),
           NoticesOK(e, Job(at, job[r].made, job[r].stalls), n)
    PROVE  ReportsInv'
  <1> DEFINE j == Job(at, job[r].made, job[r].stalls)
  <1>1. job[r] \in JobType /\ job[r].at # None
    BY RunningJob
  <1>2. job' = [job EXCEPT ![r] = j]
    BY <1>1, JobMoves
  <1>3. j \in JobType /\ j.at = at
    BY <1>1, JobBuilt DEF JobType
  <1>4. ReportOK(e, j, n)
    BY DEF ReportOK
  <1> HIDE DEF j
  <1> QED
    BY <1>1, <1>2, <1>3, <1>4, WorkInv

\* Where the status of a report changes, or the requester hears of it.
LEMMA MarkingInv ==
    ASSUME ReportsInv, NEW r \in Exports, UNCHANGED <<tables, call, handlers>>,
           \/ ClaimReport(r) \/ CompleteReport(r) \/ FailReport(r)
           \/ TellReady(r) \/ TellFailed(r) \/ PutReport(r)
    PROVE  ReportsInv'
  <1> DEFINE old == job[r]
             J(at) == Job(at, job[r].made, job[r].stalls)
  <1>1. old.at \in Running
    BY DEF ClaimReport, CompleteReport, FailReport, TellReady, TellFailed, PutReport, Running,
           Generating, Failing
  <1>2. /\ old \in JobType /\ export[r] \in ExportType /\ export[r] # NoExport
        /\ notices[r] \in NoticeType
        /\ JobOK(export[r], old) /\ StatusOK(export[r], old) /\ NoticesOK(export[r], old, notices[r])
        /\ export[r].keyed => FileOf(r) \in bucket
    BY <1>1, RunningJob DEF ReportOK
  <1>3. \A at \in Running \union Final :
            J(at).at = at /\ J(at).made = old.made /\ J(at).stalls = old.stalls
    BY <1>2, JobBuilt DEF JobType
  <1>4. export = [export EXCEPT ![r] = export[r]] /\ notices = [notices EXCEPT ![r] = notices[r]]
        /\ untold \subseteq Exports
    BY DEF ReportsInv
  <1>5. \A st \in {"PROCESSING"} \union Settled, keyed \in BOOLEAN, expired \in BOOLEAN :
            /\ Export(st, keyed, expired) \in ExportType
            /\ Export(st, keyed, expired) # NoExport
            /\ Export(st, keyed, expired).status = st
            /\ Export(st, keyed, expired).keyed = keyed
    BY DEF Export, ExportType, NoExport, Settled, None
  <1>6. export[r].keyed \in BOOLEAN /\ export[r].expired \in BOOLEAN
    BY <1>2 DEF ExportType
  <1>0. {"claim", "put", "complete", "audit", "ready", "mail", "fail", "tellFailed", "threw"}
            \subseteq Running
    BY DEF Running, Generating, Failing
  <1> HIDE DEF J, old
  <1>7. CASE ClaimReport(r)
    <2> DEFINE e == Export("PROCESSING", export[r].keyed, export[r].expired)
    <2>1. e \in ExportType /\ e # NoExport /\ e.status = "PROCESSING" /\ e.keyed = export[r].keyed
      BY <1>5, <1>6 DEF Settled
    <2>2. old.at = "claim" /\ JobAt(r, "put") /\ export' = [export EXCEPT ![r] = e]
          /\ UNCHANGED <<notices, untold, bucket, configured>>
      BY <1>7 DEF ClaimReport, Marked, old, storageVars
    <2> HIDE DEF e
    <2>3. JobOK(e, J("put")) /\ StatusOK(e, J("put")) /\ NoticesOK(e, J("put"), notices[r])
      BY <1>0, <1>2, <1>3, <2>1, <2>2 DEF JobOK, StatusOK, NoticesOK, LastOf, Running, Generating, Failing, None
    <2>4. /\ export' = [export EXCEPT ![r] = e] /\ notices' = [notices EXCEPT ![r] = notices[r]]
          /\ untold' \subseteq Exports
      BY <1>4, <2>2
    <2>5. e.keyed \/ "put" = "complete" => FileOf(r) \in bucket'
      BY <1>2, <1>4, <2>1, <2>2
    <2> QED
      BY <1>0, <1>1, <1>2, <2>1, <2>2, <2>3, <2>4, <2>5, MoveInv DEF J, old
  <1>8. CASE CompleteReport(r)
    <2> DEFINE e == Export("COMPLETED", TRUE, FALSE)
    <2>1. e \in ExportType /\ e # NoExport /\ e.status = "COMPLETED" /\ e.keyed
      BY <1>5 DEF Settled
    <2>2. old.at = "complete" /\ JobAt(r, "audit") /\ export' = [export EXCEPT ![r] = e]
          /\ UNCHANGED <<notices, untold, bucket, configured>>
      BY <1>8 DEF CompleteReport, Marked, old, storageVars
    <2> HIDE DEF e
    <2>3. JobOK(e, J("audit")) /\ StatusOK(e, J("audit")) /\ NoticesOK(e, J("audit"), notices[r])
      BY <1>0, <1>2, <1>3, <2>1, <2>2 DEF JobOK, StatusOK, NoticesOK, LastOf, Running, Generating, Failing, None
    <2>4. /\ export' = [export EXCEPT ![r] = e] /\ notices' = [notices EXCEPT ![r] = notices[r]]
          /\ untold' \subseteq Exports
      BY <1>4, <2>2
    <2>5. e.keyed \/ "audit" = "complete" => FileOf(r) \in bucket'
      BY <1>2, <1>4, <2>1, <2>2 DEF ReportsInv, Stored, old
    <2> QED
      BY <1>0, <1>1, <1>2, <2>1, <2>2, <2>3, <2>4, <2>5, MoveInv DEF J, old
  <1>9. CASE FailReport(r)
    <2> DEFINE e == Export("FAILED", export[r].keyed, export[r].expired)
    <2>1. e \in ExportType /\ e # NoExport /\ e.status = "FAILED" /\ e.keyed = export[r].keyed
      BY <1>5, <1>6 DEF Settled
    <2>2. old.at = "fail" /\ JobAt(r, "tellFailed") /\ export' = [export EXCEPT ![r] = e]
          /\ UNCHANGED <<notices, untold, bucket, configured>>
      BY <1>9 DEF FailReport, Marked, old, storageVars
    <2> HIDE DEF e
    <2>3. JobOK(e, J("tellFailed")) /\ StatusOK(e, J("tellFailed"))
          /\ NoticesOK(e, J("tellFailed"), notices[r])
      BY <1>0, <1>2, <1>3, <2>1, <2>2 DEF JobOK, StatusOK, NoticesOK, LastOf, Running, Generating, Failing, None
    <2>4. /\ export' = [export EXCEPT ![r] = e] /\ notices' = [notices EXCEPT ![r] = notices[r]]
          /\ untold' \subseteq Exports
      BY <1>4, <2>2
    <2>5. e.keyed \/ "tellFailed" = "complete" => FileOf(r) \in bucket'
      BY <1>2, <1>4, <2>1, <2>2
    <2> QED
      BY <1>0, <1>1, <1>2, <2>1, <2>2, <2>3, <2>4, <2>5, MoveInv DEF J, old
  <1>10. CASE TellReady(r)
    <2> DEFINE n == [ready |-> notices[r].ready + 1, failed |-> notices[r].failed]
    <2>1. n \in NoticeType /\ n.failed = notices[r].failed
      BY <1>2 DEF NoticeType
    <2>2. old.at = "ready" /\ JobAt(r, "mail") /\ notices' = [notices EXCEPT ![r] = n]
          /\ UNCHANGED <<export, untold, bucket, configured>>
      BY <1>10, ToldOnce DEF TellReady, old, storageVars
    <2> HIDE DEF n
    <2>3. JobOK(export[r], J("mail")) /\ StatusOK(export[r], J("mail"))
          /\ NoticesOK(export[r], J("mail"), n)
      BY <1>0, <1>2, <1>3, <2>1, <2>2 DEF JobOK, StatusOK, NoticesOK, LastOf, Running, Generating, Failing, None
    <2>4. /\ export' = [export EXCEPT ![r] = export[r]] /\ notices' = [notices EXCEPT ![r] = n]
          /\ untold' \subseteq Exports
      BY <1>4, <2>2
    <2>5. export[r].keyed \/ "mail" = "complete" => FileOf(r) \in bucket'
      BY <1>2, <1>4, <2>1, <2>2
    <2> QED
      BY <1>0, <1>1, <1>2, <2>1, <2>2, <2>3, <2>4, <2>5, MoveInv DEF J, old
  <1>11. CASE TellFailed(r)
    <2> DEFINE n == [ready |-> notices[r].ready, failed |-> notices[r].failed + 1]
    <2>1. n \in NoticeType /\ n.ready = notices[r].ready
      BY <1>2 DEF NoticeType
    <2>2. old.at = "tellFailed" /\ JobAt(r, "threw") /\ notices' = [notices EXCEPT ![r] = n]
          /\ UNCHANGED <<export, untold, bucket, configured>>
      BY <1>11, ToldOnce DEF TellFailed, old, storageVars
    <2> HIDE DEF n
    <2>3. JobOK(export[r], J("threw")) /\ StatusOK(export[r], J("threw"))
          /\ NoticesOK(export[r], J("threw"), n)
      BY <1>0, <1>2, <1>3, <2>1, <2>2 DEF JobOK, StatusOK, NoticesOK, LastOf, Running, Generating, Failing, None
    <2>4. /\ export' = [export EXCEPT ![r] = export[r]] /\ notices' = [notices EXCEPT ![r] = n]
          /\ untold' \subseteq Exports
      BY <1>4, <2>2
    <2>5. export[r].keyed \/ "threw" = "complete" => FileOf(r) \in bucket'
      BY <1>2, <1>4, <2>1, <2>2
    <2> QED
      BY <1>0, <1>1, <1>2, <2>1, <2>2, <2>3, <2>4, <2>5, MoveInv DEF J, old
  <1>12. CASE PutReport(r)
    <2>2. old.at = "put" /\ JobAt(r, "complete") /\ bucket' = bucket \union {FileOf(r)}
          /\ UNCHANGED <<export, notices, untold, configured>>
      BY <1>12 DEF PutReport, PutObject, old
    <2>3. JobOK(export[r], J("complete")) /\ StatusOK(export[r], J("complete"))
          /\ NoticesOK(export[r], J("complete"), notices[r])
      BY <1>0, <1>2, <1>3, <2>2 DEF JobOK, StatusOK, NoticesOK, LastOf, Running, Generating, Failing, None
    <2>4. /\ export' = [export EXCEPT ![r] = export[r]] /\ notices' = [notices EXCEPT ![r] = notices[r]]
          /\ untold' \subseteq Exports
      BY <1>4, <2>2
    <2>5. export[r].keyed => FileOf(r) \in bucket'
      BY <1>2, <1>4, <2>2
    <2> QED
      BY <1>0, <1>1, <1>2, <2>2, <2>3, <2>4, <2>5, MoveInv DEF J, old
  <1> QED
    BY <1>7, <1>8, <1>9, <1>10, <1>11, <1>12

\* A step that changes the job alone.
LEMMA PlainMove ==
    ASSUME ReportsInv, NEW r \in Exports, job[r].at \in Running,
           NEW at \in (Running \union Final) \ {"complete"}, JobAt(r, at), untold' \subseteq Exports,
           UNCHANGED <<export, notices, call, handlers, bucket, configured>>,
           ReportOK(export[r], Job(at, job[r].made, job[r].stalls), notices[r])
    PROVE  ReportsInv'
  <1>1. /\ export[r] \in ExportType /\ notices[r] \in NoticeType
        /\ export' = [export EXCEPT ![r] = export[r]]
        /\ notices' = [notices EXCEPT ![r] = notices[r]]
    BY DEF ReportsInv
  <1>2. export[r].keyed => FileOf(r) \in bucket'
    BY DEF ReportsInv, Stored
  <1> QED
    BY <1>1, <1>2, MoveInv DEF ReportOK

LEMMA MovingInv ==
    ASSUME ReportsInv, NEW r \in Exports, UNCHANGED <<tables, call, handlers>>,
           \/ NoHandler(r) \/ CheckReport(r) \/ AuditReport(r) \/ MailReady(r)
           \/ AuditFailure(r) \/ StepThrows(r) \/ JobReturns(r)
    PROVE  ReportsInv'
  <1> DEFINE old == job[r]
             J(at) == Job(at, job[r].made, job[r].stalls)
  <1>0. old.at \in Running
    BY DEF NoHandler, CheckReport, AuditReport, MailReady, AuditFailure, StepThrows, JobReturns,
           Running, Generating, Failing
  <1>1. /\ old \in JobType /\ export[r] # NoExport
        /\ JobOK(export[r], old) /\ StatusOK(export[r], old) /\ NoticesOK(export[r], old, notices[r])
        /\ LastAttempt(r) <=> LastOf(old)
    BY <1>0, RunningJob DEF ReportOK
  <1>2. \A at \in Running \union Final :
            J(at).at = at /\ J(at).made = old.made /\ J(at).stalls = old.stalls
    BY <1>1, JobBuilt DEF JobType
  <1>3. UNCHANGED <<export, notices, call, handlers, bucket, configured>> /\ untold' \subseteq Exports
    BY DEF NoHandler, CheckReport, AuditReport, MailReady, AuditFailure, StepThrows, JobReturns,
           storageVars, ReportsInv
  <1>4. PICK at \in (Running \union Final) \ {"complete"} :
           /\ JobAt(r, at)
           /\ \/ old.at = "waiting" /\ at = "threw"
              \/ old.at = "waiting" /\ at = "returned"
              \/ old.at = "waiting" /\ at = "claim" /\ export[r].status # "COMPLETED"
              \/ old.at = "audit" /\ at = "ready"
              \/ old.at = "mail" /\ at = "returned"
              \/ old.at = "failAudit" /\ at = "fail" /\ LastOf(old)
              \/ old.at \in Failing /\ at = "threw"
              \/ old.at = "claim" /\ at = "threw"
              \/ old.at \in Generating \ {"claim"} /\ at = "failAudit"
              \/ old.at = "returned" /\ at = "completed"
    <2> USE DEF Running, Generating, Failing, Final
    <2>1. CASE NoHandler(r)
      BY <2>1 DEF NoHandler
    <2>2. CASE CheckReport(r)
      BY <2>2 DEF CheckReport
    <2>3. CASE AuditReport(r)
      BY <2>3 DEF AuditReport
    <2>4. CASE MailReady(r)
      BY <2>4 DEF MailReady
    <2>5. CASE AuditFailure(r)
      BY <1>1, <2>5 DEF AuditFailure
    <2>6. CASE StepThrows(r)
      BY <2>6 DEF StepThrows
    <2>7. CASE JobReturns(r)
      BY <2>7 DEF JobReturns
    <2> QED
      BY <2>1, <2>2, <2>3, <2>4, <2>5, <2>6, <2>7
  <1> HIDE DEF J, old
  <1>5. JobOK(export[r], J(at))
    BY <1>1, <1>2, <1>4 DEF JobOK, LastOf, Running, Generating, Failing, Final, None
  <1>6. StatusOK(export[r], J(at))
    BY <1>1, <1>2, <1>4 DEF StatusOK, Running, Generating, Failing, Final
  <1>7. NoticesOK(export[r], J(at), notices[r])
    BY <1>1, <1>2, <1>4 DEF NoticesOK, StatusOK, JobOK, LastOf, Running, Generating, Failing, Final, None
  <1>8. ReportOK(export[r], J(at), notices[r])
    BY <1>5, <1>6, <1>7 DEF ReportOK
  <1> QED
    BY <1>0, <1>3, <1>4, <1>8, PlainMove DEF J, old

\* Bull takes the job up again, or gives it up.
LEMMA RetryInv ==
    ASSUME ReportsInv, NEW r \in Exports, UNCHANGED <<tables, call, handlers>>,
           JobThrew(r) \/ JobStalls(r)
    PROVE  ReportsInv'
  <1>0. job[r].at \in Running
    BY DEF JobThrew, JobStalls, Running
  <1>1. PICK old \in JobType :
           /\ old = job[r] /\ old.at \in Running /\ old.at # None
           /\ old.made \in 0 .. Attempts - 1 /\ old.stalls \in 0 .. MaxStalls
           /\ export[r] # NoExport
           /\ JobOK(export[r], old) /\ NoticesOK(export[r], old, notices[r])
           /\ LastAttempt(r) <=> LastOf(old)
    BY <1>0, RunningJob DEF ReportOK
  <1>2. PICK at \in {"waiting", "failed"}, n \in 0 .. Attempts, k \in 0 .. MaxStalls + 1 :
           /\ job' = [job EXCEPT ![r] = Job(at, n, k)]
           /\ \/ old.at = "threw" /\ n = old.made + 1 /\ k = old.stalls
                 /\ (at = "waiting" => ~LastOf(old))
              \/ n = old.made /\ k = old.stalls + 1 /\ (at = "waiting" => old.stalls < MaxStalls)
    <2>1. CASE JobThrew(r)
      <3>1. job' = [job EXCEPT ![r] =
                       Job(IF LastOf(old) THEN "failed" ELSE "waiting", old.made + 1, old.stalls)]
        BY <1>1, <2>1 DEF JobThrew
      <3>2. old.at = "threw" /\ old.made + 1 \in 0 .. Attempts /\ old.stalls \in 0 .. MaxStalls + 1
        BY <1>1, <2>1, QueueAssumption DEF JobThrew
      <3> QED
        BY <3>1, <3>2
    <2>2. CASE JobStalls(r)
      <3>1. job' = [job EXCEPT ![r] =
                       Job(IF old.stalls < MaxStalls THEN "waiting" ELSE "failed", old.made, old.stalls + 1)]
        BY <1>1, <2>2 DEF JobStalls
      <3>2. old.stalls + 1 \in 0 .. MaxStalls + 1 /\ old.made \in 0 .. Attempts
        BY <1>1, QueueAssumption
      <3> QED
        BY <3>1, <3>2
    <2> QED
      BY <2>1, <2>2
  <1>3. PICK j \in JobType : j = Job(at, n, k) /\ j.at = at /\ j.made = n /\ j.stalls = k
    BY <1>2, JobBuilt DEF Running, Final
  <1>4. JobOK(export[r], j)
    BY <1>1, <1>2, <1>3, QueueAssumption DEF JobOK, LastOf, Running, Generating, Failing, None
  <1>5. StatusOK(export[r], j)
    BY <1>2, <1>3 DEF StatusOK
  <1>6. NoticesOK(export[r], j, notices[r])
    BY <1>1, <1>2, <1>3, QueueAssumption DEF NoticesOK, LastOf, Generating, None
  <1>7. /\ export[r] \in ExportType /\ notices[r] \in NoticeType /\ untold' \subseteq Exports
        /\ export' = [export EXCEPT ![r] = export[r]]
        /\ notices' = [notices EXCEPT ![r] = notices[r]]
        /\ UNCHANGED <<call, handlers, bucket, configured>>
    BY DEF ReportsInv, JobThrew, JobStalls, storageVars
  <1>8. export[r].keyed \/ j.at = "complete" => FileOf(r) \in bucket'
    BY <1>2, <1>3, <1>7 DEF ReportsInv, Stored
  <1>9. ReportOK(export[r], j, notices[r]) /\ job' = [job EXCEPT ![r] = j] /\ job[r].at # None
    BY <1>1, <1>2, <1>3, <1>4, <1>5, <1>6 DEF ReportOK
  <1> QED
    BY <1>7, <1>8, <1>9, WorkInv

LEMMA ReportCallFacts ==
    ASSUME ReportsInv, NEW c \in Calls, call[c] # Idle
    PROVE  /\ call[c].export \in Exports
           /\ [call[c] EXCEPT !.at = "reportQueue"] = [at |-> "reportQueue", export |-> call[c].export]
           /\ [at |-> "reportQueue", export |-> call[c].export] \in ReportCalls
  BY DEF ReportsInv, ReportCalls

\* The service: a row, and some awaits later its job.
LEMMA RequestInv ==
    ASSUME ReportsInv, NEW c \in Calls, NEW r \in Exports, NEW q \in Requests, RequestReport(c, r, q)
    PROVE  ReportsInv'
  <1> DEFINE e == Export("PENDING", FALSE, FALSE)
             next == [at |-> "reportAudit", export |-> r]
  <1>1. /\ e \in ExportType /\ ~e.keyed /\ e # NoExport /\ e.status = "PENDING"
        /\ next \in ReportCalls /\ next # Idle /\ next.export = r
    BY DEF Export, ExportType, NoExport, None, ReportCalls, Idle
  <1>2. /\ export[r] = NoExport /\ export' = [export EXCEPT ![r] = e]
        /\ call[c] = Idle /\ call' = [call EXCEPT ![c] = next]
        /\ UNCHANGED <<bucket, configured, job, notices, handlers, untold>>
    BY DEF RequestReport, Goes, storageVars
  <1> HIDE DEF e, next
  <1>3. ReportOK(export[r], job[r], notices[r])
    BY DEF ReportsInv
  <1>4. job[r].at = None
    BY <1>2, <1>3 DEF ReportOK, JobOK
  <1>5. ReportOK(e, job[r], notices[r])
    BY <1>1, <1>3, <1>4
    DEF ReportOK, JobOK, StatusOK, NoticesOK, Running, Generating, Failing, None
  <1>6. /\ export' \in [Exports -> ExportType] /\ export'[r] = e
        /\ \A d \in Exports \ {r} : export'[d] = export[d]
        /\ call' \in [Calls -> ReportCalls \union {Idle}] /\ call'[c] = next
        /\ \A d \in Calls \ {c} : call'[d] = call[d]
    BY <1>1, <1>2 DEF ReportsInv
  <1>7. \A d \in Exports : ReportOK(export'[d], job[d], notices[d])
    BY <1>5, <1>6 DEF ReportsInv
  <1>8. Stored'
    BY <1>1, <1>2, <1>6 DEF ReportsInv, Stored
  <1>9. QueueingOK'
    <2> SUFFICES ASSUME NEW d \in Calls, call'[d] # Idle
                 PROVE  /\ export'[call'[d].export] # NoExport
                        /\ job'[call'[d].export].at = None
                        /\ \A f \in Calls : call'[f] # Idle /\ call'[f].export = call'[d].export => f = d
      BY DEF QueueingOK
    <2>1. \A f \in Calls : call[f] # Idle => call[f].export \in Exports \ {r}
      BY <1>2, ReportCallFacts DEF ReportsInv, QueueingOK
    <2>2. CASE d = c
      BY <1>1, <1>2, <1>4, <1>6, <2>1, <2>2
    <2>3. CASE d # c
      BY <1>1, <1>2, <1>6, <2>1, <2>3 DEF ReportsInv, QueueingOK
    <2> QED
      BY <2>2, <2>3
  <1> QED
    BY <1>2, <1>6, <1>7, <1>8, <1>9 DEF ReportsInv

LEMMA QueueInv ==
    ASSUME ReportsInv, NEW c \in Calls, ReportQueues(c)
    PROVE  ReportsInv'
  <1> DEFINE r == call[c].export
             j == Job("waiting", 0, 0)
  <1>0. call[c] # Idle
    BY DEF ReportQueues, Idle
  <1>1. call[c] # Idle /\ r \in Exports
    BY <1>0, ReportCallFacts
  <1>2. /\ job' = [job EXCEPT ![r] = j] /\ call' = [call EXCEPT ![c] = Idle]
        /\ UNCHANGED <<bucket, configured, export, notices, handlers, untold>>
    BY DEF ReportQueues, Goes, storageVars
  <1>3. j \in JobType /\ j.at = "waiting" /\ j.made = 0 /\ j.stalls = 0
    BY JobBuilt, QueueAssumption DEF Running
  <1> HIDE DEF r, j
  <1>4. export[r] # NoExport /\ job[r].at = None /\ ReportOK(export[r], job[r], notices[r])
    BY <1>1 DEF ReportsInv, QueueingOK, r
  <1>5. notices[r].ready = 0 /\ notices[r].failed = 0
    BY <1>4 DEF ReportOK, NoticesOK
  <1>6. ReportOK(export[r], j, notices[r])
    BY <1>3, <1>4, <1>5, QueueAssumption
    DEF ReportOK, JobOK, StatusOK, NoticesOK, Generating, Failing, LastOf
  <1>7. /\ job' \in [Exports -> JobType \union {NoJob}] /\ job'[r] = j
        /\ \A d \in Exports \ {r} : job'[d] = job[d]
        /\ call' \in [Calls -> ReportCalls \union {Idle}] /\ call'[c] = Idle
        /\ \A d \in Calls \ {c} : call'[d] = call[d]
    BY <1>1, <1>2, <1>3 DEF ReportsInv
  <1>8. \A d \in Exports : ReportOK(export[d], job'[d], notices[d])
    BY <1>6, <1>7 DEF ReportsInv
  <1>9. Stored'
    BY <1>2, <1>3, <1>7 DEF ReportsInv, Stored
  <1>10. QueueingOK'
    <2> SUFFICES ASSUME NEW d \in Calls, call'[d] # Idle
                 PROVE  /\ export'[call'[d].export] # NoExport
                        /\ job'[call'[d].export].at = None
                        /\ \A f \in Calls : call'[f] # Idle /\ call'[f].export = call'[d].export => f = d
      BY DEF QueueingOK
    <2>1. d # c /\ call'[d] = call[d] /\ call[d].export \in Exports
      BY <1>7, ReportCallFacts
    <2>2. call[d].export # r
      BY <1>1, <1>7, <2>1 DEF ReportsInv, QueueingOK, r
    <2> QED
      BY <1>2, <1>7, <2>1, <2>2 DEF ReportsInv, QueueingOK
  <1> QED
    BY <1>2, <1>7, <1>8, <1>9, <1>10 DEF ReportsInv

LEMMA ReportServiceInv ==
    ASSUME ReportsInv, NEW c \in Calls, ReportAudits(c) \/ ReportCallFails(c)
    PROVE  ReportsInv'
  <1>1. UNCHANGED <<bucket, configured, export, job, notices, handlers, untold>>
    BY DEF ReportAudits, ReportCallFails, storageVars, reportsVars
  <1>2. call[c] # Idle
    BY DEF ReportAudits, ReportCallFails, Idle, ReportCalls
  <1>3. PICK next \in ReportCalls \union {Idle} :
           call' = [call EXCEPT ![c] = next] /\ (next # Idle => next.export = call[c].export)
    <2> DEFINE next == [at |-> "reportQueue", export |-> call[c].export]
    <2>1. CASE ReportAudits(c)
      <3>1. [call[c] EXCEPT !.at = "reportQueue"] = next /\ next \in ReportCalls
        BY <1>2, ReportCallFacts
      <3>2. call' = [call EXCEPT ![c] = next] /\ next.export = call[c].export
        BY <2>1, <3>1 DEF ReportAudits, Steps, Goes
      <3> QED
        BY <3>1, <3>2
    <2>2. CASE ReportCallFails(c)
      BY <2>2 DEF ReportCallFails, Goes
    <2> QED
      BY <2>1, <2>2
  <1>4. /\ call' \in [Calls -> ReportCalls \union {Idle}] /\ call'[c] = next
        /\ \A d \in Calls \ {c} : call'[d] = call[d]
    BY <1>3 DEF ReportsInv
  <1>5. QueueingOK'
    BY <1>1, <1>2, <1>3, <1>4 DEF ReportsInv, QueueingOK
  <1> QED
    BY <1>1, <1>4, <1>5 DEF ReportsInv, Stored

LEMMA ExpiresInv ==
    ASSUME ReportsInv, NEW r \in Exports, ExportExpires(r)
    PROVE  ReportsInv'
  <1>1. PICK e \in ExportType :
           /\ export' = [export EXCEPT ![r] = e] /\ e # NoExport /\ export[r] # NoExport
           /\ e.status = export[r].status /\ e.keyed /\ export[r].keyed
    <2>1. export[r] \in ExportType /\ export[r] # NoExport
      BY DEF ExportExpires, ReportsInv, NoExport, Export
    <2>2. /\ [export[r] EXCEPT !.expired = TRUE] \in ExportType
          /\ [export[r] EXCEPT !.expired = TRUE].status = export[r].status
          /\ [export[r] EXCEPT !.expired = TRUE].keyed = export[r].keyed
          /\ [export[r] EXCEPT !.expired = TRUE] # NoExport
      BY <2>1 DEF ExportType, NoExport, Export, None, Settled
    <2>3. export' = [export EXCEPT ![r] = [export[r] EXCEPT !.expired = TRUE]] /\ export[r].keyed
      BY DEF ExportExpires
    <2> QED
      BY <2>1, <2>2, <2>3
  <1>2. UNCHANGED <<call, bucket, configured, job, notices, handlers, untold>>
    BY DEF ExportExpires, storageVars
  <1>3. ReportOK(export[r], job[r], notices[r])
    BY DEF ReportsInv
  <1>4. ReportOK(e, job[r], notices[r])
    BY <1>1, <1>3 DEF ReportOK, JobOK, StatusOK, NoticesOK
  <1>5. /\ export' \in [Exports -> ExportType] /\ export'[r] = e
        /\ \A d \in Exports \ {r} : export'[d] = export[d]
    BY <1>1 DEF ReportsInv
  <1>6. \A d \in Exports : ReportOK(export'[d], job[d], notices[d])
    BY <1>4, <1>5 DEF ReportsInv
  <1>7. Stored'
    BY <1>1, <1>2, <1>5 DEF ReportsInv, Stored
  <1>8. QueueingOK'
    BY <1>1, <1>2, <1>5, ReportCallFacts DEF ReportsInv, QueueingOK
  <1> QED
    BY <1>2, <1>5, <1>6, <1>7, <1>8 DEF ReportsInv

LEMMA HandleInv ==
    ASSUME ReportsInv, NEW r \in Exports, HandleReport(r)
    PROVE  ReportsInv'
  BY MarkingInv, MovingInv, RetryInv DEF HandleReport

LEMMA ReportsNextInv ==
    ASSUME ReportsInv, ReportsNext
    PROVE  ReportsInv'
  BY RequestInv, QueueInv, ReportServiceInv, ExpiresInv, HandleInv DEF ReportsNext

LEMMA ReportsInvHolds ==
    ASSUME ReportsInv
    PROVE  ReportsBacked
  BY DEF ReportsInv, Stored, ReportsBacked, Downloadable

\* What OutcomeIsKept says of a step and a report.
OutcomeOf(r) ==
    /\ export[r].status = "COMPLETED" /\ export'[r].status # "COMPLETED" =>
           export'[r].status = "FAILED" /\ job[r].at = "fail" /\ LastAttempt(r)
    /\ notices'[r] # notices[r] /\ notices[r] # [ready |-> 0, failed |-> 0] =>
           \/ job[r].stalls > 0
           \/ export[r].status = "FAILED" /\ notices'[r].failed = 1

LEMMA ReportsOutcome ==
    ASSUME ReportsInv, ReportsNext, NEW r \in Exports
    PROVE  OutcomeOf(r)
  <1>1. ASSUME NEW q \in Exports, HandleReport(q), q # r
        PROVE  export'[r] = export[r] /\ notices'[r] = notices[r]
    BY <1>1 DEF HandleReport, NoHandler, CheckReport, ClaimReport, PutReport, CompleteReport,
                AuditReport, TellReady, MailReady, AuditFailure, FailReport, TellFailed, StepThrows,
                JobReturns, JobThrew, JobStalls, Marked, Told, ReportsInv
  <1>2. CASE HandleReport(r)
    <2>1. CASE ClaimReport(r) \/ FailReport(r) \/ TellReady(r) \/ TellFailed(r)
      <3>1. job[r].at \in {"claim", "fail", "ready", "tellFailed"}
        BY <2>1 DEF ClaimReport, FailReport, TellReady, TellFailed
      <3>2. job[r].at \in Running
        BY <3>1 DEF Running, Generating, Failing
      <3>3. PICK n \in NoticeType, k \in Nat :
               n = notices[r] /\ k = job[r].stalls
               /\ JobOK(export[r], job[r]) /\ StatusOK(export[r], job[r])
               /\ NoticesOK(export[r], job[r], n)
               /\ (LastAttempt(r) <=> LastOf(job[r]))
        BY <3>2, RunningJob DEF ReportOK
      <3>4. ASSUME k = 0, job[r].at \in {"ready", "tellFailed"}
            PROVE  n.failed = 0 /\ (job[r].at = "ready" => n.ready = 0)
        BY <3>3, <3>4 DEF NoticesOK, Generating
      <3>5. CASE ClaimReport(r)
        BY <3>3, <3>5 DEF ClaimReport, StatusOK, OutcomeOf
      <3>6. CASE FailReport(r)
        <4>1. export' = [export EXCEPT ![r] = Export("FAILED", export[r].keyed, export[r].expired)]
          BY <3>6 DEF FailReport, Marked
        <4>2. export'[r].status = "FAILED"
          BY <4>1 DEF ReportsInv, Export
        <4> QED
          BY <3>3, <3>6, <4>2 DEF FailReport, JobOK, OutcomeOf
      <3>7. CASE TellReady(r)
        <4>1. export' = export /\ job[r].at = "ready"
          BY <3>7 DEF TellReady
        <4>2. ASSUME n # [ready |-> 0, failed |-> 0] PROVE k > 0
          BY <3>3, <3>4, <4>1, <4>2 DEF NoticeType
        <4> QED
          BY <3>3, <4>1, <4>2 DEF OutcomeOf
      <3>8. CASE TellFailed(r)
        <4>1. export' = export /\ job[r].at = "tellFailed" /\ export[r].status = "FAILED"
          BY <3>3, <3>8 DEF TellFailed, StatusOK
        <4>2. notices'[r] = [ready |-> n.ready, failed |-> n.failed + 1]
          BY <3>3, <3>8, ToldOnce DEF TellFailed, ReportsInv
        <4>3. ASSUME k = 0 PROVE notices'[r].failed = 1
          BY <3>4, <4>1, <4>2, <4>3
        <4> QED
          BY <3>3, <4>1, <4>3 DEF OutcomeOf
      <3> QED
        BY <2>1, <3>5, <3>6, <3>7, <3>8
    <2>2. CASE CompleteReport(r)
      <3>1. export' = [export EXCEPT ![r] = Export("COMPLETED", TRUE, FALSE)] /\ notices' = notices
        BY <2>2 DEF CompleteReport, Marked
      <3>2. export'[r].status = "COMPLETED"
        BY <3>1 DEF ReportsInv, Export
      <3> QED
        BY <3>1, <3>2 DEF OutcomeOf
    <2>3. CASE export' = export /\ notices' = notices
      BY <2>3 DEF OutcomeOf
    <2> QED
      BY <1>2, <2>1, <2>2, <2>3
      DEF HandleReport, NoHandler, CheckReport, PutReport, AuditReport, MailReady, AuditFailure,
          StepThrows, JobReturns, JobThrew, JobStalls
  <1>3. ASSUME NEW c \in Calls, NEW p \in Exports, NEW q \in Requests, RequestReport(c, p, q)
        PROVE  OutcomeOf(r)
    BY <1>3 DEF RequestReport, ReportsInv, NoExport, Export, None, OutcomeOf
  <1>4. ASSUME NEW q \in Exports, ExportExpires(q) PROVE OutcomeOf(r)
    <2>1. export'[r].status = export[r].status /\ notices' = notices
      BY <1>4 DEF ExportExpires, ReportsInv, ExportType, NoExport, Export
    <2> QED
      BY <2>1 DEF OutcomeOf
  <1>5. ASSUME NEW c \in Calls, ReportAudits(c) \/ ReportQueues(c) \/ ReportCallFails(c)
        PROVE  OutcomeOf(r)
    BY <1>5 DEF ReportAudits, ReportQueues, ReportCallFails, reportsVars, OutcomeOf
  <1>6. ASSUME NEW q \in Exports, HandleReport(q) PROVE OutcomeOf(r)
    BY <1>1, <1>2, <1>6 DEF OutcomeOf
  <1> QED
    BY <1>3, <1>4, <1>5, <1>6 DEF ReportsNext

-----------------------------------------------------------------------------
(* The library.  A file that was uploaded is in the bucket, or a resource  *)
(* under its key was archived: only what is archived is being deleted, and *)
(* nothing that is archived is ever offered again.                         *)

OfferType ==
    [key : FileKeys, course : Courses \union {None}, archived : BOOLEAN] \union {NoResource}

LibraryInv ==
    /\ LibraryTypeOK
    /\ bucket \subseteq FileKeys
    /\ configured \in BOOLEAN
    /\ call \in [Calls -> LibraryCalls \union {Idle}]
    /\ \A c \in Calls :
          call[c].at = "archiveResource" => resource[call[c].resource] # NoResource
    /\ \A x \in deleting : resource[x].archived
    /\ \A key \in uploaded :
          key \in bucket \/ \E x \in Resources : resource[x].archived /\ resource[x].key = key

LEMMA ArchivingCall ==
    ASSUME LibraryInv, NEW c \in Calls, call[c].at = "archiveResource"
    PROVE  /\ call[c].resource \in Resources
           /\ resource[call[c].resource] \in OfferType \ {NoResource}
  BY DEF LibraryInv, LibraryTypeOK, LibraryCalls, Idle, OfferType

LEMMA UploadInv ==
    ASSUME LibraryInv, NEW key \in FileKeys, GenerateUploadUrl(key) \/ Upload(key) \/ UrlExpires(key)
    PROVE  LibraryInv'
  <1>1. UNCHANGED <<call, configured, resource, deleting>>
    BY DEF GenerateUploadUrl, Upload, UrlExpires, storageVars, PutObject
  <1>2. url' \in [FileKeys -> {None, "valid", "expired"}]
    BY DEF GenerateUploadUrl, Upload, UrlExpires, LibraryInv, LibraryTypeOK
  <1>3. \/ bucket' = bucket /\ uploaded' = uploaded
        \/ bucket' = bucket \union {key} /\ uploaded' = uploaded \union {key}
    BY DEF GenerateUploadUrl, Upload, UrlExpires, storageVars, PutObject
  <1> QED
    BY <1>1, <1>2, <1>3 DEF LibraryInv, LibraryTypeOK

\* The rows change: from nothing to an offer, or to one that is archived.
LEMMA OfferInv ==
    ASSUME LibraryInv, NEW x \in Resources, NEW e \in OfferType \ {NoResource},
           resource' = [resource EXCEPT ![x] = e],
           resource[x].archived => e.archived /\ e.key = resource[x].key,
           deleting' = deleting \/ (deleting' = deleting \union {x} /\ e.archived),
           NEW c \in Calls, call' = call \/ call' = [call EXCEPT ![c] = Idle],
           UNCHANGED <<storageVars, url, uploaded>>
    PROVE  LibraryInv'
  <1>1. /\ resource' \in [Resources -> OfferType] /\ resource'[x] = e
        /\ \A y \in Resources \ {x} : resource'[y] = resource[y]
    BY DEF LibraryInv, LibraryTypeOK, OfferType
  <1>2. LibraryTypeOK'
    BY <1>1 DEF LibraryInv, LibraryTypeOK, OfferType
  <1>3. call' \in [Calls -> LibraryCalls \union {Idle}]
    BY DEF LibraryInv
  <1>4. ASSUME NEW d \in Calls, call'[d].at = "archiveResource"
        PROVE  resource'[call'[d].resource] # NoResource
    <2>1. call'[d] = call[d]
      BY <1>4 DEF LibraryInv, Idle
    <2> QED
      BY <1>1, <1>4, <2>1, ArchivingCall DEF LibraryInv
  <1>5. \A y \in deleting' : resource'[y].archived
    BY <1>1 DEF LibraryInv, LibraryTypeOK
  <1>6. ASSUME NEW key \in uploaded'
        PROVE  key \in bucket' \/ \E y \in Resources : resource'[y].archived /\ resource'[y].key = key
    <2>1. key \in bucket \/ \E y \in Resources : resource[y].archived /\ resource[y].key = key
      BY DEF LibraryInv
    <2>2. ASSUME NEW y \in Resources, resource[y].archived
          PROVE  resource'[y].archived /\ resource'[y].key = resource[y].key
      BY <1>1, <2>2
    <2> QED
      BY <2>1, <2>2 DEF storageVars
  <1> QED
    BY <1>2, <1>3, <1>4, <1>5, <1>6 DEF LibraryInv, storageVars

LEMMA CreateInv ==
    ASSUME LibraryInv, NEW x \in Resources, NEW key \in FileKeys, NEW k \in Courses \union {None},
           CreateResource(x, key, k)
    PROVE  LibraryInv'
  <1> DEFINE e == Offer(key, k, FALSE)
  <1>1. e \in OfferType /\ resource[x] = NoResource /\ ~resource[x].archived
    BY DEF OfferType, Offer, CreateResource, NoResource
  <1>2. resource' = [resource EXCEPT ![x] = e]
        /\ UNCHANGED <<call, storageVars, url, deleting, uploaded>>
    BY DEF CreateResource
  <1>3. CASE e = NoResource
    <2>1. resource' = resource
      BY <1>1, <1>2, <1>3 DEF LibraryInv, LibraryTypeOK
    <2> QED
      BY <1>2, <2>1 DEF LibraryInv, LibraryTypeOK, storageVars
  <1>4. CASE e # NoResource
    <2> HIDE DEF e
    <2>1. CASE Calls = {}
      <3>1. resource' \in [Resources -> OfferType]
            /\ \A y \in Resources : resource[y].archived => resource'[y] = resource[y]
        BY <1>1, <1>2 DEF LibraryInv, LibraryTypeOK, OfferType
      <3> QED
        BY <1>2, <2>1, <3>1 DEF LibraryInv, LibraryTypeOK, storageVars, OfferType
    <2>2. CASE Calls # {}
      <3>1. PICK c \in Calls : TRUE
        BY <2>2
      <3> QED
        BY <1>1, <1>2, <1>4, <3>1, OfferInv
    <2> QED
      BY <2>1, <2>2
  <1> QED
    BY <1>3, <1>4

LEMMA ArchivingInv ==
    ASSUME LibraryInv, NEW c \in Calls, ArchiveResourceWrites(c)
    PROVE  LibraryInv'
  <1>1. PICK x \in Resources, e \in OfferType \ {NoResource} : x = call[c].resource /\ e = resource[x]
    BY ArchivingCall DEF ArchiveResourceWrites
  <1> DEFINE new == [e EXCEPT !.archived = TRUE]
  <1>2. new \in OfferType /\ new # NoResource /\ new.archived /\ new.key = e.key
    BY <1>1 DEF OfferType, NoResource, Offer
  <1>3. /\ resource' = [resource EXCEPT ![x] = new] /\ deleting' = deleting \union {x}
        /\ call' = [call EXCEPT ![c] = Idle] /\ UNCHANGED <<storageVars, url, uploaded>>
    BY <1>1 DEF ArchiveResourceWrites, Goes
  <1> HIDE DEF new
  <1> QED
    BY <1>1, <1>2, <1>3, OfferInv

LEMMA ArchiveCallInv ==
    ASSUME LibraryInv, NEW c \in Calls,
           (\E x \in Resources : ArchiveResource(c, x)) \/ ArchiveResourceFails(c)
    PROVE  LibraryInv'
  <1>1. UNCHANGED <<storageVars, libraryVars>>
    BY DEF ArchiveResource, ArchiveResourceFails
  <1>2. PICK next \in LibraryCalls \union {Idle} :
           /\ call' = [call EXCEPT ![c] = next]
           /\ next.at = "archiveResource" => resource[next.resource] # NoResource
    <2>1. ASSUME NEW x \in Resources, ArchiveResource(c, x)
          PROVE  \E next \in LibraryCalls \union {Idle} :
                    /\ call' = [call EXCEPT ![c] = next]
                    /\ next.at = "archiveResource" => resource[next.resource] # NoResource
      <3> DEFINE next == [at |-> "archiveResource", resource |-> x]
      <3>1. next \in LibraryCalls /\ next.resource = x
        BY DEF LibraryCalls
      <3>2. call' = [call EXCEPT ![c] = next] /\ resource[x] # NoResource
        BY <2>1 DEF ArchiveResource, Goes, Offered
      <3> QED
        BY <3>1, <3>2
    <2>2. CASE ArchiveResourceFails(c)
      <3>1. Idle.at # "archiveResource" /\ call' = [call EXCEPT ![c] = Idle]
        BY <2>2 DEF ArchiveResourceFails, Goes, Idle
      <3> QED
        BY <3>1
    <2> QED
      BY <2>1, <2>2
  <1>3. /\ call' \in [Calls -> LibraryCalls \union {Idle}] /\ call'[c] = next
        /\ \A d \in Calls \ {c} : call'[d] = call[d]
    BY <1>2 DEF LibraryInv
  <1>4. \A d \in Calls :
            call'[d].at = "archiveResource" => resource[call'[d].resource] # NoResource
    BY <1>2, <1>3 DEF LibraryInv
  <1> QED
    BY <1>1, <1>3, <1>4 DEF LibraryInv, LibraryTypeOK, storageVars, libraryVars

LEMMA DeletionInv ==
    ASSUME LibraryInv, NEW x \in Resources, DeleteFile(x) \/ DeleteFails(x)
    PROVE  LibraryInv'
  <1>1. /\ UNCHANGED <<call, configured, resource, url, uploaded>>
        /\ deleting' = deleting \ {x} /\ resource[x].archived
        /\ bucket \ {resource[x].key} \subseteq bucket' /\ bucket' \subseteq bucket
    BY DEF DeleteFile, DeleteFails, DeleteObject, storageVars, LibraryInv
  <1> QED
    BY <1>1 DEF LibraryInv, LibraryTypeOK

LEMMA LibraryNextInv ==
    ASSUME LibraryInv, LibraryNext
    PROVE  LibraryInv'
  BY UploadInv, CreateInv, ArchivingInv, ArchiveCallInv, DeletionInv DEF LibraryNext

LEMMA LibraryInvHolds ==
    ASSUME LibraryInv
    PROVE  FilesKept
  BY DEF LibraryInv, LibraryTypeOK, FilesKept, Offered, Rivals

-----------------------------------------------------------------------------
(* Sessions.  A line has one bearer at most: a token that nobody revoked,  *)
(* or a request that revoked it and has yet to create the next.            *)

TokenType == [of : LinesOf(Lines), state : {"live", "revoked", "expired"}]
CodeType == [user : Accounts, state : {"live", "used", "expired"}]
IssueCalls == [at : {"issue"}, of : LinesOf(Lines \union {NewLine})]
RevokeCalls == [at : {"revoke"}, of : LinesOf(Lines), token : Lines]

Knows(of, pw) == of.knows = pw[of.user] \/ of.crossed
\* A token of the sequence, and a request beside them.
TokenOK(tok, i, pw) == tok[i].of.line <= i /\ (tok[i].state = "live" => Knows(tok[i].of, pw))
CallOK(x, tok, pw) ==
    /\ x.at = "issue" => x.of.line <= Len(tok) /\ Knows(x.of, pw)
    /\ x.at = "revoke" =>
          /\ x.token \in 1 .. Len(tok) /\ Knows(x.of, pw)
          /\ x.of.line = tok[x.token].of.line /\ x.of.forked = tok[x.token].of.forked

TokenBears(t, line) == t.state # "revoked" /\ t.of.line = line /\ ~t.of.forked
CallBears(x, line) == x.at = "issue" /\ x.of.line = line /\ ~x.of.forked
OneBearer(line) ==
    /\ \A i, j \in 1 .. Len(token) :
          TokenBears(token[i], line) /\ TokenBears(token[j], line) => i = j
    /\ \A c, d \in Calls : CallBears(call[c], line) /\ CallBears(call[d], line) => c = d
    /\ \A i \in 1 .. Len(token), c \in Calls :
          ~(TokenBears(token[i], line) /\ CallBears(call[c], line))

CodesInv ==
    /\ code \in Seq(CodeType)
    /\ Len(code) <= MaxCodes
    /\ permits \subseteq Accounts
    /\ \A c \in Calls : call[c].at = "useCode" => call[c].code \in 1 .. Len(code)

SessionsInv ==
    /\ password \in [Accounts -> Nat]
    /\ token \in Seq(TokenType)
    /\ Len(token) <= MaxTokens
    /\ call \in [Calls -> SessionCalls \union {Idle}]
    /\ CodesInv
    /\ \A i \in 1 .. Len(token) : TokenOK(token, i, password)
    /\ \A c \in Calls : CallOK(call[c], token, password)
    /\ \A line \in Lines : OneBearer(line)

LEMMA SessionCallShapes ==
    ASSUME NEW x \in SessionCalls \union {Idle}
    PROVE  /\ x.at = "issue" => x \in IssueCalls
           /\ x.at = "revoke" => x \in RevokeCalls
           /\ x.at = "useCode" => x.code \in 1 .. MaxCodes
           /\ x.at = "reset" => x.user \in Accounts
  BY DEF SessionCalls, Idle, IssueCalls, RevokeCalls

LEMMA LineFacts ==
    ASSUME NEW lines, NEW of \in LinesOf(lines), NEW b \in BOOLEAN, NEW line
    PROVE  /\ of.user \in Accounts /\ of.line \in lines /\ of.forked \in BOOLEAN
           /\ of = Line(of.user, of.line, of.knows, of.crossed, of.forked)
           /\ [of EXCEPT !.forked = b] = Line(of.user, of.line, of.knows, of.crossed, b)
           /\ [of EXCEPT !.crossed = b] = Line(of.user, of.line, of.knows, b, of.forked)
           /\ [of EXCEPT !.line = line] = Line(of.user, line, of.knows, of.crossed, of.forked)
  BY DEF LinesOf, Line

LEMMA TokenFacts ==
    ASSUME SessionsInv, NEW i \in 1 .. Len(token)
    PROVE  /\ token[i] \in TokenType
           /\ token[i].of \in LinesOf(Lines) /\ token[i].state \in {"live", "revoked", "expired"}
           /\ token[i].of.line \in Lines
           /\ \A state : [token[i] EXCEPT !.state = state] = Token(token[i].of, state)
           /\ i \in Lines
  <1>1. token[i] \in TokenType
    BY DEF SessionsInv
  <1>2. Len(token) \in Nat /\ MaxTokens \in Nat
    BY SessionsAssumption DEF SessionsInv
  <1> QED
    BY <1>1, <1>2 DEF SessionsInv, TokenType, Token, LinesOf, Lines

\* A step that gives nobody a line he did not bear.
LEMMA BearersKept ==
    ASSUME \A line \in Lines : OneBearer(line), Len(token') = Len(token),
           \A line \in Lines :
              /\ \A i \in 1 .. Len(token) : TokenBears(token'[i], line) => TokenBears(token[i], line)
              /\ \A c \in Calls : CallBears(call'[c], line) => CallBears(call[c], line)
    PROVE  \A line \in Lines : OneBearer(line)'
  <1> SUFFICES ASSUME NEW line \in Lines PROVE OneBearer(line)'
    OBVIOUS
  <1>1. /\ \A i \in 1 .. Len(token) : TokenBears(token'[i], line) => TokenBears(token[i], line)
        /\ \A c \in Calls : CallBears(call'[c], line) => CallBears(call[c], line)
        /\ OneBearer(line) /\ Len(token') = Len(token)
    OBVIOUS
  <1>2. /\ \A i, j \in 1 .. Len(token') :
              TokenBears(token'[i], line) /\ TokenBears(token'[j], line) => i = j
        /\ \A c, d \in Calls : CallBears(call'[c], line) /\ CallBears(call'[d], line) => c = d
        /\ \A i \in 1 .. Len(token'), c \in Calls :
              ~(TokenBears(token'[i], line) /\ CallBears(call'[c], line))
    BY <1>1 DEF OneBearer
  <1> QED
    BY <1>2 DEF OneBearer, TokenBears, CallBears

\* A step of one request that writes no token.
LEMMA SessionStep ==
    ASSUME SessionsInv, NEW c \in Calls, NEW x \in SessionCalls \union {Idle}, Goes(c, x),
           CallOK(x, token, password),
           x.at = "issue" => x.of.line = NewLine,
           UNCHANGED <<password, token>>, CodesInv'
    PROVE  SessionsInv'
  <1>1. /\ call' \in [Calls -> SessionCalls \union {Idle}] /\ call'[c] = x
        /\ \A d \in Calls \ {c} : call'[d] = call[d]
    BY DEF SessionsInv, Goes
  <1>2. \A d \in Calls : CallOK(call'[d], token, password)
    BY <1>1 DEF SessionsInv
  <1>3. \A line \in Lines :
            /\ \A i \in 1 .. Len(token) : TokenBears(token'[i], line) => TokenBears(token[i], line)
            /\ \A d \in Calls : CallBears(call'[d], line) => CallBears(call[d], line)
    BY <1>1 DEF CallBears, Lines, NewLine
  <1>4. \A line \in Lines : OneBearer(line)'
    BY <1>3, BearersKept DEF SessionsInv
  <1> QED
    BY <1>1, <1>2, <1>4 DEF SessionsInv

LEMMA ReadsInv ==
    ASSUME SessionsInv, NEW c \in Calls,
           \/ \E v \in Accounts : LoginReads(c, v) \/ VerifyOtp(c, v) \/ ResetReads(c, v)
           \/ \E i \in Lines : RefreshReads(c, i)
           \/ SessionCallFails(c)
    PROVE  SessionsInv'
  <1>1. UNCHANGED sessionsVars
    BY DEF LoginReads, VerifyOtp, ResetReads, RefreshReads, SessionCallFails
  <1>2. ASSUME NEW x \in SessionCalls \union {Idle}, Goes(c, x), CallOK(x, token, password),
               x.at = "issue" => x.of.line = NewLine,
               x.at = "useCode" => x.code \in 1 .. Len(code)
        PROVE  SessionsInv'
    <2>1. \A d \in Calls : call'[d] = IF d = c THEN x ELSE call[d]
      BY <1>2 DEF SessionsInv, Goes
    <2>2. CodesInv'
      BY <1>1, <1>2, <2>1 DEF SessionsInv, CodesInv, sessionsVars
    <2> QED
      BY <1>1, <1>2, <2>2, SessionStep DEF sessionsVars
  <1>3. ASSUME NEW v \in Accounts, LoginReads(c, v) PROVE SessionsInv'
    <2> DEFINE of == Line(v, NewLine, password[v], FALSE, FALSE)
    <2>1. password[v] \in Nat
      BY DEF SessionsInv
    <2>2. of \in LinesOf(Lines \union {NewLine}) /\ of.user = v /\ of.line = NewLine /\ of.knows = password[v]
      BY <2>1 DEF LinesOf, Line
    <2> HIDE DEF of
    <2>3. Issue(of) \in SessionCalls /\ Issue(of).at = "issue" /\ Issue(of).of = of
      BY <2>2 DEF Issue, SessionCalls
    <2>4. CallOK(Issue(of), token, password)
      BY <2>2, <2>3 DEF CallOK, Knows, NewLine, SessionsInv
    <2> QED
      BY <1>2, <1>3, <2>2, <2>3, <2>4 DEF LoginReads, of
  <1>4. ASSUME NEW v \in Accounts, VerifyOtp(c, v) PROVE SessionsInv'
    <2>1. PICK i \in Newest(v) : Goes(c, [at |-> "useCode", code |-> i])
      BY <1>4 DEF VerifyOtp
    <2>2. i \in 1 .. Len(code) /\ i \in 1 .. MaxCodes
      BY <2>1, SessionsAssumption DEF Newest, SessionsInv, CodesInv
    <2> DEFINE x == [at |-> "useCode", code |-> i]
    <2>3. x \in SessionCalls /\ x.at = "useCode" /\ x.code = i
      BY <2>2 DEF SessionCalls
    <2>4. CallOK(x, token, password)
      BY DEF CallOK
    <2> QED
      BY <1>2, <2>1, <2>2, <2>3, <2>4
  <1>5. ASSUME NEW v \in Accounts, ResetReads(c, v) PROVE SessionsInv'
    <2> DEFINE x == [at |-> "reset", user |-> v]
    <2>1. x \in SessionCalls /\ x.at = "reset"
      BY DEF SessionCalls
    <2>2. CallOK(x, token, password)
      BY DEF CallOK
    <2> QED
      BY <1>2, <1>5, <2>1, <2>2 DEF ResetReads
  <1>6. ASSUME NEW i \in Lines, RefreshReads(c, i) PROVE SessionsInv'
    <2>1. i \in 1 .. Len(token) /\ token[i].state = "live" /\ TokenOK(token, i, password)
      BY <1>6 DEF RefreshReads, Live, SessionsInv
    <2>2. /\ Refresh(i) \in SessionCalls /\ Refresh(i).at = "revoke"
          /\ Refresh(i).of = token[i].of /\ Refresh(i).token = i
      BY <2>1, TokenFacts DEF Refresh, SessionCalls
    <2>3. CallOK(Refresh(i), token, password)
      BY <2>1, <2>2 DEF CallOK, TokenOK
    <2> QED
      BY <1>2, <1>6, <2>2, <2>3 DEF RefreshReads
  <1>7. CASE SessionCallFails(c)
    <2>1. CallOK(Idle, token, password) /\ Idle.at = "idle"
      BY DEF CallOK, Idle
    <2> QED
      BY <1>2, <1>7, <2>1 DEF SessionCallFails
  <1> QED
    BY <1>3, <1>4, <1>5, <1>6, <1>7

LEMMA IssueInv ==
    ASSUME SessionsInv, NEW c \in Calls, IssueToken(c)
    PROVE  SessionsInv'
  <1> DEFINE n == Len(token)
  <1>1. n \in Nat /\ n < MaxTokens /\ n + 1 \in Lines
    BY SessionsAssumption DEF IssueToken, SessionsInv, Lines
  <1>2. call[c] \in IssueCalls /\ CallOK(call[c], token, password)
    BY SessionCallShapes DEF IssueToken, SessionsInv
  <1>3. PICK of \in LinesOf(Lines \union {NewLine}) :
           of = call[c].of /\ of.line <= n /\ Knows(of, password) /\ call[c].at = "issue"
    BY <1>2 DEF IssueCalls, CallOK, IssueToken
  <1>4. PICK new \in LinesOf(Lines) :
           /\ new = [of EXCEPT !.line = IF @ = NewLine THEN n + 1 ELSE @]
           /\ new.line = (IF of.line = NewLine THEN n + 1 ELSE of.line)
           /\ new.forked = of.forked /\ Knows(new, password)
    <2> DEFINE line == IF of.line = NewLine THEN n + 1 ELSE of.line
    <2>1. line \in Lines /\ of.user \in Accounts /\ of.knows \in Nat /\ of.crossed \in BOOLEAN
          /\ of.forked \in BOOLEAN
      BY <1>1, <1>3 DEF LinesOf
    <2>2. [of EXCEPT !.line = IF @ = NewLine THEN n + 1 ELSE @] =
              Line(of.user, line, of.knows, of.crossed, of.forked)
      BY <1>3 DEF LinesOf, Line
    <2> HIDE DEF line
    <2> DEFINE new == Line(of.user, line, of.knows, of.crossed, of.forked)
    <2>3. new \in LinesOf(Lines) /\ new.line = line /\ new.forked = of.forked
      BY <2>1 DEF LinesOf, Line
    <2>4. Knows(new, password)
      BY <1>3 DEF Line, Knows
    <2> HIDE DEF new
    <2> QED
      BY <2>2, <2>3, <2>4 DEF line, new
  <1> DEFINE t == Token(new, "live")
  <1>5. t \in TokenType /\ t.of = new /\ t.state = "live"
    BY <1>4 DEF TokenType, Token
  <1>6. token' = Append(token, t) /\ Goes(c, Idle) /\ UNCHANGED <<password, code, permits>>
    BY <1>3, <1>4 DEF IssueToken
  <1> HIDE DEF t
  <1>7. /\ token' \in Seq(TokenType) /\ Len(token') = n + 1 /\ token'[n + 1] = t
        /\ \A i \in 1 .. n : token'[i] = token[i]
    BY <1>5, <1>6 DEF SessionsInv
  <1>8. /\ call' \in [Calls -> SessionCalls \union {Idle}] /\ call'[c] = Idle
        /\ \A d \in Calls \ {c} : call'[d] = call[d]
    BY <1>6 DEF SessionsInv, Goes
  <1> HIDE DEF n
  <1>9. \A i \in 1 .. n + 1 : TokenOK(token', i, password)
    <2>0. new.line <= n + 1
      BY <1>1, <1>3, <1>4 DEF LinesOf, Lines
    <2>1. TokenOK(token', n + 1, password)
      BY <1>4, <1>5, <1>7, <2>0 DEF TokenOK
    <2>2. ASSUME NEW i \in 1 .. n PROVE TokenOK(token', i, password)
      BY <1>7 DEF TokenOK, SessionsInv, n
    <2> QED
      BY <1>1, <2>1, <2>2
  <1>10. \A d \in Calls : CallOK(call'[d], token', password)
    <2>1. CallOK(call'[c], token', password)
      BY <1>8 DEF CallOK, Idle
    <2>2. ASSUME NEW d \in Calls \ {c} PROVE CallOK(call'[d], token', password)
      <3>1. call'[d] = call[d] /\ CallOK(call[d], token, password) /\ n = Len(token)
        BY <1>8 DEF SessionsInv, n
      <3>2. call[d].at = "issue" => call[d].of.line \in Int
        BY SessionCallShapes DEF SessionsInv, IssueCalls, LinesOf, Lines, NewLine
      <3> QED
        BY <1>1, <1>7, <3>1, <3>2 DEF CallOK
    <2> QED
      BY <2>1, <2>2
  <1>11. \A line \in Lines : OneBearer(line)'
    <2> SUFFICES ASSUME NEW line \in Lines PROVE OneBearer(line)'
      OBVIOUS
    <2>0. n = Len(token) /\ OneBearer(line)
      BY DEF SessionsInv, n
    <2>1. \A d \in Calls : CallBears(call'[d], line) => d # c /\ CallBears(call[d], line)
      BY <1>8 DEF CallBears, Idle
    <2>2. ASSUME TokenBears(t, line)
          PROVE  /\ \A i \in 1 .. n : ~TokenBears(token[i], line)
                 /\ \A d \in Calls \ {c} : ~CallBears(call[d], line)
      <3>1. new.line = line /\ ~new.forked
        BY <1>5, <2>2 DEF TokenBears
      <3>2. CASE of.line = NewLine
        <4>1. line = n + 1
          BY <1>4, <3>1, <3>2
        <4>2. ASSUME NEW i \in 1 .. n PROVE token[i].of.line \in Lines /\ token[i].of.line <= n
          BY <1>1, <2>0, TokenFacts DEF TokenOK, SessionsInv, Lines
        <4>3. ASSUME NEW d \in Calls, call[d].at = "issue" PROVE call[d].of.line <= n
          BY <2>0, <4>3 DEF SessionsInv, CallOK
        <4> QED
          BY <1>1, <4>1, <4>2, <4>3 DEF TokenBears, CallBears
      <3>3. CASE of.line # NewLine
        <4>1. CallBears(call[c], line)
          BY <1>3, <1>4, <3>1, <3>3 DEF CallBears
        <4> QED
          BY <2>0, <4>1 DEF OneBearer
      <3> QED
        BY <3>2, <3>3
    <2>3. /\ \A i, j \in 1 .. n + 1 :
                TokenBears(token'[i], line) /\ TokenBears(token'[j], line) => i = j
          /\ \A i \in 1 .. n + 1, d \in Calls :
                ~(TokenBears(token'[i], line) /\ CallBears(call'[d], line))
      <3>1. \A i \in 1 .. n + 1 : i \in 1 .. n \/ i = n + 1
        BY <1>1
      <3> QED
        BY <1>7, <2>0, <2>1, <2>2, <3>1 DEF OneBearer
    <2>4. \A d, f \in Calls : CallBears(call'[d], line) /\ CallBears(call'[f], line) => d = f
      BY <2>0, <2>1 DEF OneBearer
    <2> QED
      BY <1>7, <2>3, <2>4 DEF OneBearer, TokenBears, CallBears
  <1>12. CodesInv'
    BY <1>6, <1>8 DEF SessionsInv, CodesInv, Idle
  <1>13. n + 1 <= MaxTokens
    BY <1>1, SessionsAssumption
  <1> QED
    BY <1>6, <1>7, <1>8, <1>9, <1>10, <1>11, <1>12, <1>13 DEF SessionsInv

LEMMA RefreshInv ==
    ASSUME SessionsInv, NEW c \in Calls, RefreshRevokes(c)
    PROVE  SessionsInv'
  <1>1. call[c] \in RevokeCalls /\ call[c].at = "revoke" /\ CallOK(call[c], token, password)
    BY SessionCallShapes DEF RefreshRevokes, SessionsInv
  <1>2. PICK i \in 1 .. Len(token), of \in LinesOf(Lines) :
           /\ i = call[c].token /\ of = call[c].of /\ Knows(of, password)
           /\ of.line = token[i].of.line /\ of.forked = token[i].of.forked
    BY <1>1 DEF CallOK, RevokeCalls
  <1>3. PICK f \in BOOLEAN, new \in LinesOf(Lines) :
           /\ new = [of EXCEPT !.forked = @ \/ token[i].state = "revoked"]
           /\ f <=> (of.forked \/ token[i].state = "revoked")
           /\ new.line = of.line /\ new.forked = f /\ Knows(new, password)
    <2>1. PICK f \in BOOLEAN : f = (of.forked \/ token[i].state = "revoked")
      OBVIOUS
    <2>2. [of EXCEPT !.forked = @ \/ token[i].state = "revoked"] =
              Line(of.user, of.line, of.knows, of.crossed, f)
      BY <2>1 DEF LinesOf, Line
    <2>3. of.line \in Lines
      BY DEF LinesOf
    <2> DEFINE new == Line(of.user, of.line, of.knows, of.crossed, f)
    <2>4. new \in LinesOf(Lines) /\ new.line = of.line /\ new.forked = f
      BY <2>3 DEF LinesOf, Line
    <2>5. Knows(new, password)
      BY <1>2 DEF Line, Knows
    <2> HIDE DEF new
    <2> QED
      BY <2>1, <2>2, <2>4, <2>5 DEF new
  <1> DEFINE t == Token(token[i].of, "revoked")
  <1>4. t \in TokenType /\ t.of = token[i].of /\ t.state = "revoked" /\ [token[i] EXCEPT !.state = "revoked"] = t
    BY TokenFacts DEF TokenType, Token
  <1>5. token' = [token EXCEPT ![i] = t] /\ Goes(c, Issue(new)) /\ UNCHANGED <<password, code, permits>>
    BY <1>2, <1>3, <1>4 DEF RefreshRevokes
  <1> HIDE DEF t
  <1>6. /\ token' \in Seq(TokenType) /\ Len(token') = Len(token) /\ token'[i] = t
        /\ \A j \in 1 .. Len(token) : j # i => token'[j] = token[j]
    BY <1>4, <1>5, ExceptSeq DEF SessionsInv
  <1>7. /\ Issue(new) \in SessionCalls /\ Issue(new).at = "issue" /\ Issue(new).of = new
    BY <1>3 DEF Issue, SessionCalls, LinesOf
  <1>8. /\ call' \in [Calls -> SessionCalls \union {Idle}] /\ call'[c] = Issue(new)
        /\ \A d \in Calls \ {c} : call'[d] = call[d]
    BY <1>5, <1>7 DEF SessionsInv, Goes
  <1>9. \A j \in 1 .. Len(token) : token'[j].of = token[j].of
    BY <1>4, <1>6
  <1>10. \A j \in 1 .. Len(token) : TokenOK(token', j, password)
    BY <1>4, <1>6 DEF TokenOK, SessionsInv
  <1>11. \A d \in Calls : CallOK(call'[d], token', password)
    <2>1. new.line <= Len(token)
      <3>1. token[i].of.line <= i /\ token[i].of.line \in Lines /\ Len(token) \in Nat
        BY TokenFacts DEF SessionsInv, TokenOK
      <3> QED
        BY <1>2, <1>3, <3>1 DEF Lines
    <2>2. CallOK(Issue(new), token', password)
      BY <1>3, <1>6, <1>7, <2>1 DEF CallOK
    <2>3. ASSUME NEW d \in Calls \ {c} PROVE CallOK(call[d], token', password)
      BY <1>6, <1>9 DEF CallOK, SessionsInv
    <2> QED
      BY <1>8, <2>2, <2>3
  <1>12. \A line \in Lines : OneBearer(line)'
    <2> SUFFICES ASSUME NEW line \in Lines PROVE OneBearer(line)'
      OBVIOUS
    <2>0. OneBearer(line)
      BY DEF SessionsInv
    <2>1. \A j \in 1 .. Len(token) :
              TokenBears(token'[j], line) => j # i /\ TokenBears(token[j], line)
      BY <1>4, <1>6 DEF TokenBears
    <2>2. CallBears(Issue(new), line) => TokenBears(token[i], line)
      BY <1>2, <1>3, <1>7 DEF CallBears, TokenBears
    <2>3. \A d \in Calls \ {c} : CallBears(call'[d], line) => CallBears(call[d], line)
      BY <1>8
    <2>4. /\ \A j, k \in 1 .. Len(token) :
                TokenBears(token'[j], line) /\ TokenBears(token'[k], line) => j = k
          /\ \A d, e \in Calls : CallBears(call'[d], line) /\ CallBears(call'[e], line) => d = e
          /\ \A j \in 1 .. Len(token), d \in Calls :
                ~(TokenBears(token'[j], line) /\ CallBears(call'[d], line))
      BY <1>8, <2>0, <2>1, <2>2, <2>3 DEF OneBearer
    <2> QED
      BY <1>6, <2>4 DEF OneBearer, TokenBears, CallBears
  <1>13. CodesInv'
    BY <1>5, <1>7, <1>8 DEF SessionsInv, CodesInv
  <1> QED
    BY <1>5, <1>6, <1>8, <1>10, <1>11, <1>12, <1>13 DEF SessionsInv

\* Tokens end, and requests notice at most that the password was reset.
LEMMA TokensEnd ==
    ASSUME SessionsInv, token' \in Seq(TokenType), Len(token') = Len(token),
           \A i \in 1 .. Len(token) :
              /\ token'[i].of = token[i].of
              /\ token[i].state = "revoked" => token'[i].state = "revoked"
              /\ token'[i].state = "live" =>
                    token[i].state = "live" /\ (Knows(token[i].of, password) => Knows(token[i].of, password')),
           password' \in [Accounts -> Nat],
           call' \in [Calls -> SessionCalls \union {Idle}],
           \A c \in Calls :
              /\ CallOK(call[c], token, password) => CallOK(call'[c], token, password')
              /\ \A line \in Lines : CallBears(call'[c], line) => CallBears(call[c], line),
           CodesInv'
    PROVE  SessionsInv'
  <1>1. \A i \in 1 .. Len(token') : TokenOK(token', i, password')
    BY DEF TokenOK, SessionsInv
  <1>2. \A c \in Calls : CallOK(call'[c], token', password')
    BY DEF CallOK, SessionsInv
  <1>3. \A line \in Lines : OneBearer(line)'
    <2>1. \A line \in Lines :
              /\ \A i \in 1 .. Len(token) : TokenBears(token'[i], line) => TokenBears(token[i], line)
              /\ \A c \in Calls : CallBears(call'[c], line) => CallBears(call[c], line)
      BY DEF TokenBears
    <2> QED
      BY <2>1, BearersKept DEF SessionsInv
  <1> QED
    BY <1>1, <1>2, <1>3 DEF SessionsInv

LEMMA RevokedFacts ==
    ASSUME SessionsInv, NEW v \in Accounts
    PROVE  /\ Revoked(v) \in Seq(TokenType) /\ Len(Revoked(v)) = Len(token)
           /\ \A i \in 1 .. Len(token) :
                 /\ Revoked(v)[i].of = token[i].of
                 /\ token[i].of.user = v => Revoked(v)[i].state = "revoked"
                 /\ token[i].of.user # v => Revoked(v)[i] = token[i]
                 /\ token[i].state = "revoked" => Revoked(v)[i].state = "revoked"
  <1> DEFINE F(i) == IF token[i].of.user = v THEN Token(token[i].of, "revoked") ELSE token[i]
  <1>1. Len(token) \in Nat /\ DOMAIN token = 1 .. Len(token)
    BY DEF SessionsInv
  <1>2. ASSUME NEW i \in 1 .. Len(token)
        PROVE  /\ F(i) \in TokenType /\ F(i).of = token[i].of
               /\ token[i].of.user = v => F(i).state = "revoked"
               /\ token[i].of.user # v => F(i) = token[i]
               /\ token[i].state = "revoked" => F(i).state = "revoked"
    <2>1. token[i] \in TokenType
      BY TokenFacts
    <2> QED
      BY <2>1 DEF TokenType, Token
  <1>3. Revoked(v) = [i \in 1 .. Len(token) |-> F(i)]
    BY <1>1 DEF Revoked
  <1> HIDE DEF F
  <1>4. Revoked(v) \in [1 .. Len(token) -> TokenType]
    BY <1>2, <1>3
  <1>5. Revoked(v) \in Seq(TokenType) /\ Len(Revoked(v)) = Len(token)
    BY <1>1, <1>4
  <1> QED
    BY <1>2, <1>3, <1>5

LEMMA LogoutInv ==
    ASSUME SessionsInv, NEW v \in Accounts, Logout(v)
    PROVE  SessionsInv'
  <1>1. token' = Revoked(v) /\ UNCHANGED <<call, password, code, permits>>
    BY DEF Logout
  <1>2. CodesInv'
    BY <1>1 DEF SessionsInv, CodesInv
  <1>3. \A i \in 1 .. Len(token) :
            /\ token'[i].of = token[i].of
            /\ token[i].state = "revoked" => token'[i].state = "revoked"
            /\ token'[i].state = "live" => token[i].state = "live"
    BY <1>1, RevokedFacts
  <1>4. token' \in Seq(TokenType) /\ Len(token') = Len(token)
    BY <1>1, RevokedFacts
  <1>5. password' \in [Accounts -> Nat] /\ call' \in [Calls -> SessionCalls \union {Idle}]
    BY <1>1 DEF SessionsInv
  <1> QED
    BY <1>1, <1>2, <1>3, <1>4, <1>5, TokensEnd

LEMMA ResetInv ==
    ASSUME SessionsInv, NEW c \in Calls, ResetWrites(c)
    PROVE  SessionsInv'
  <1>1. PICK v \in Accounts : v = call[c].user
    BY SessionCallShapes DEF ResetWrites, SessionsInv
  <1>2. /\ password' = [password EXCEPT ![v] = @ + 1] /\ token' = Revoked(v)
        /\ UNCHANGED <<code, permits>>
        /\ call' = [d \in Calls |->
               IF d = c THEN Idle
               ELSE IF call[d].at \in {"revoke", "issue"} /\ call[d].of.user = v
               THEN [call[d] EXCEPT !.of.crossed = TRUE] ELSE call[d]]
    BY <1>1 DEF ResetWrites
  <1>3. /\ password' \in [Accounts -> Nat]
        /\ \A u \in Accounts \ {v} : password'[u] = password[u]
    BY <1>2 DEF SessionsInv
  <1>4. \A d \in Calls :
            \/ call'[d] = Idle
            \/ call'[d] = call[d] /\ ~(call[d].at \in {"revoke", "issue"} /\ call[d].of.user = v)
            \/ call[d].at \in {"revoke", "issue"} /\ call'[d] = [call[d] EXCEPT !.of.crossed = TRUE]
    BY <1>2
  <1>5. ASSUME NEW d \in Calls
        PROVE  /\ call'[d] \in SessionCalls \union {Idle}
               /\ call'[d].at = "useCode" => call'[d] = call[d]
               /\ CallOK(call[d], token, password) => CallOK(call'[d], token, password')
               /\ \A line \in Lines : CallBears(call'[d], line) => CallBears(call[d], line)
    <2>1. CASE call'[d] = Idle
      BY <2>1 DEF Idle, CallOK, CallBears
    <2>2. CASE call'[d] = call[d] /\ ~(call[d].at \in {"revoke", "issue"} /\ call[d].of.user = v)
      <3>1. call[d] \in SessionCalls \union {Idle}
        BY DEF SessionsInv
      <3>2. call[d].at \in {"revoke", "issue"} => call[d].of.user \in Accounts \ {v}
        BY <2>2, <3>1, SessionCallShapes DEF IssueCalls, RevokeCalls, LinesOf
      <3> QED
        BY <1>3, <2>2, <3>1, <3>2 DEF CallOK, Knows
    <2>3. CASE call[d].at \in {"revoke", "issue"} /\ call'[d] = [call[d] EXCEPT !.of.crossed = TRUE]
      <3>1. call[d] \in IssueCalls \union RevokeCalls
        BY <2>3, SessionCallShapes DEF SessionsInv
      <3>2. /\ call'[d] \in IssueCalls \union RevokeCalls /\ call'[d].at = call[d].at
            /\ call[d].at = "revoke" => call'[d].token = call[d].token
            /\ call'[d].of.line = call[d].of.line /\ call'[d].of.forked = call[d].of.forked
            /\ call'[d].of.crossed
        <4> DEFINE x == call[d]
                   y == [x EXCEPT !.of.crossed = TRUE]
        <4>1. y.of = [x.of EXCEPT !.crossed = TRUE] /\ y.at = x.at
              /\ (x.at = "revoke" => y.token = x.token)
          BY <3>1 DEF IssueCalls, RevokeCalls
        <4>2. x.at = "issue" => x = Issue(x.of)
          BY <3>1 DEF IssueCalls, RevokeCalls, Issue
        <4>3. x.at = "revoke" => x = [at |-> "revoke", of |-> x.of, token |-> x.token]
          BY <3>1 DEF IssueCalls, RevokeCalls
        <4>7. /\ x.at = "issue" => y = Issue(y.of)
              /\ x.at = "revoke" => y = [at |-> "revoke", of |-> y.of, token |-> x.token]
          <5>1. PICK of, new, j : of = x.of /\ new = [x.of EXCEPT !.crossed = TRUE] /\ j = x.token
            OBVIOUS
          <5>2. y = [x EXCEPT !.of = new]
            BY <5>1
          <5>3. /\ [Issue(of) EXCEPT !.of = new] = Issue(new)
                /\ [[at |-> "revoke", of |-> of, token |-> j] EXCEPT !.of = new] =
                       [at |-> "revoke", of |-> new, token |-> j]
            BY DEF Issue
          <5>4. y.of = new
            BY <4>1, <5>1
          <5> HIDE DEF x, y
          <5> QED
            BY <4>2, <4>3, <5>1, <5>2, <5>3, <5>4
        <4>4. \A lines : x.of \in LinesOf(lines) =>
                  /\ [x.of EXCEPT !.crossed = TRUE] \in LinesOf(lines)
                  /\ [x.of EXCEPT !.crossed = TRUE].line = x.of.line
                  /\ [x.of EXCEPT !.crossed = TRUE].forked = x.of.forked
                  /\ [x.of EXCEPT !.crossed = TRUE].crossed
          BY DEF LinesOf
        <4>5. /\ x.at = "issue" => x.of \in LinesOf(Lines \union {NewLine})
              /\ x.at = "revoke" => x.of \in LinesOf(Lines) /\ x.token \in Lines
              /\ x.at \in {"issue", "revoke"} /\ call'[d] = y
          BY <2>3, <3>1 DEF IssueCalls, RevokeCalls
        <4> HIDE DEF x, y
        <4>6. y \in IssueCalls \union RevokeCalls
          BY <4>1, <4>4, <4>5, <4>7 DEF IssueCalls, RevokeCalls, Issue
        <4> QED
          BY <4>1, <4>4, <4>5, <4>6 DEF x
      <3>3. call'[d] \in SessionCalls
        BY <3>2 DEF IssueCalls, RevokeCalls, SessionCalls
      <3> QED
        BY <2>3, <3>2, <3>3 DEF CallOK, CallBears, Knows
    <2> QED
      BY <1>4, <2>1, <2>2, <2>3
  <1>6. call' \in [Calls -> SessionCalls \union {Idle}]
    BY <1>2, <1>5
  <1>7. CodesInv'
    BY <1>2, <1>5 DEF SessionsInv, CodesInv
  <1>8. ASSUME NEW i \in 1 .. Len(token)
        PROVE  /\ token'[i].of = token[i].of
               /\ token[i].state = "revoked" => token'[i].state = "revoked"
               /\ token'[i].state = "live" =>
                     token[i].state = "live" /\ (Knows(token[i].of, password) => Knows(token[i].of, password'))
    <2>1. token[i].of.user \in Accounts
      BY TokenFacts DEF LinesOf
    <2>2. CASE token[i].of.user = v
      BY <1>2, <2>2, RevokedFacts
    <2>3. CASE token[i].of.user # v
      BY <1>2, <1>3, <2>1, <2>3, RevokedFacts DEF Knows
    <2> QED
      BY <2>2, <2>3
  <1>9. token' \in Seq(TokenType) /\ Len(token') = Len(token)
    BY <1>2, RevokedFacts
  <1> QED
    BY <1>3, <1>5, <1>6, <1>7, <1>8, <1>9, TokensEnd

LEMMA CodesStep ==
    ASSUME SessionsInv, NEW c \in Calls, CodesInv',
           UNCHANGED <<password, token>>, call' = call \/ Goes(c, Idle)
    PROVE  SessionsInv'
  <1>1. CASE Goes(c, Idle)
    <2>1. CallOK(Idle, token, password) /\ Idle.at = "idle"
      BY DEF CallOK, Idle
    <2> QED
      BY <1>1, <2>1, SessionStep
  <1>2. CASE call' = call
    BY <1>2, TokensEnd DEF SessionsInv
  <1> QED
    BY <1>1, <1>2

LEMMA CodesMove ==
    ASSUME SessionsInv,
           \/ \E c \in Calls : VerifyOtpWrites(c)
           \/ \E v \in Accounts : ForgotPassword(v) \/ (Archive(v) /\ UNCHANGED sessionsVars)
    PROVE  SessionsInv'
  <1>1. ASSUME NEW c \in Calls, VerifyOtpWrites(c) PROVE SessionsInv'
    <2>1. call[c].at = "useCode" /\ call[c] \in SessionCalls \union {Idle}
      BY <1>1 DEF VerifyOtpWrites, SessionsInv
    <2>2. PICK i \in 1 .. Len(code) : i = call[c].code
      BY <2>1 DEF SessionsInv, CodesInv
    <2>3. code[i] \in CodeType
      BY DEF SessionsInv, CodesInv
    <2>4. [code[i] EXCEPT !.state = "used"] \in CodeType /\ code[i].user \in Accounts
      BY <2>3 DEF CodeType
    <2>5. /\ code' = [code EXCEPT ![i] = [code[i] EXCEPT !.state = "used"]]
          /\ permits' = permits \union {code[i].user}
          /\ call' = [call EXCEPT ![c] = Idle] /\ UNCHANGED <<password, token>>
      BY <1>1, <2>2 DEF VerifyOtpWrites, Goes
    <2>6. code' \in Seq(CodeType) /\ Len(code') = Len(code)
      BY <2>4, <2>5, ExceptSeq DEF SessionsInv, CodesInv
    <2>7. \A d \in Calls : call'[d] = IF d = c THEN Idle ELSE call[d]
      BY <2>5 DEF SessionsInv
    <2>8. CodesInv'
      BY <2>4, <2>5, <2>6, <2>7 DEF SessionsInv, CodesInv, Idle
    <2> QED
      BY <2>5, <2>8, CodesStep DEF Goes
  <1>2. ASSUME NEW v \in Accounts, ForgotPassword(v) PROVE SessionsInv'
    <2>1. Code(v, "live") \in CodeType
      BY DEF Code, CodeType
    <2>2. code' = Append(code, Code(v, "live")) /\ Len(code) < MaxCodes
          /\ UNCHANGED <<password, token, call, permits>>
      BY <1>2 DEF ForgotPassword
    <2>3. code' \in Seq(CodeType) /\ Len(code') = Len(code) + 1 /\ Len(code) \in Nat
      BY <2>1, <2>2 DEF SessionsInv, CodesInv
    <2>4. Len(code') <= MaxCodes /\ 1 .. Len(code) \subseteq 1 .. Len(code')
      BY <2>2, <2>3, SessionsAssumption
    <2>5. CodesInv'
      BY <2>2, <2>3, <2>4 DEF SessionsInv, CodesInv
    <2> QED
      BY <2>2, <2>5, TokensEnd DEF SessionsInv
  <1>3. ASSUME NEW v \in Accounts, Archive(v), UNCHANGED sessionsVars PROVE SessionsInv'
    <2>1. UNCHANGED <<password, token, code, permits, call>>
      BY <1>3 DEF Archive, sessionsVars
    <2>2. CodesInv'
      BY <2>1 DEF SessionsInv, CodesInv
    <2> QED
      BY <2>1, <2>2, TokensEnd DEF SessionsInv
  <1> QED
    BY <1>1, <1>2, <1>3

LEMMA ExpiryInv ==
    ASSUME SessionsInv, Expires
    PROVE  SessionsInv'
  <1>0. UNCHANGED <<call, password>>
    BY DEF Expires
  <1>1. ASSUME NEW i \in 1 .. Len(token), Live(i), token' = [token EXCEPT ![i].state = "expired"],
               UNCHANGED <<code, permits>>
        PROVE  SessionsInv'
    <2>1. token[i].of \in LinesOf(Lines)
          /\ [token[i] EXCEPT !.state = "expired"] = Token(token[i].of, "expired")
      BY TokenFacts
    <2>2. PICK t \in TokenType :
             t = [token[i] EXCEPT !.state = "expired"] /\ t.of = token[i].of /\ t.state = "expired"
      BY <2>1 DEF TokenType, Token
    <2>3. token' = [token EXCEPT ![i] = t]
      BY <1>1, <2>2
    <2>4. /\ token' \in Seq(TokenType) /\ Len(token') = Len(token) /\ token'[i] = t
          /\ \A j \in 1 .. Len(token) : j # i => token'[j] = token[j]
      BY <2>3, ExceptSeq DEF SessionsInv
    <2>5. CodesInv'
      BY <1>0, <1>1 DEF SessionsInv, CodesInv
    <2>6. \A j \in 1 .. Len(token) :
              /\ token'[j].of = token[j].of
              /\ token[j].state = "revoked" => token'[j].state = "revoked"
              /\ token'[j].state = "live" => token[j].state = "live"
      BY <1>1, <2>2, <2>4 DEF Live
    <2> QED
      BY <1>0, <2>4, <2>5, <2>6, TokensEnd DEF SessionsInv
  <1>2. ASSUME UNCHANGED token, code' \in Seq(CodeType), Len(code') = Len(code), permits' \subseteq Accounts
        PROVE  SessionsInv'
    <2>1. CodesInv'
      BY <1>0, <1>2 DEF SessionsInv, CodesInv
    <2> QED
      BY <1>0, <1>2, <2>1, TokensEnd DEF SessionsInv
  <1>3. ASSUME NEW i \in 1 .. Len(code), code' = [code EXCEPT ![i].state = "expired"],
               UNCHANGED <<token, permits>>
        PROVE  SessionsInv'
    <2>1. code[i] \in CodeType
      BY DEF SessionsInv, CodesInv
    <2>2. PICK e \in CodeType : e = [code[i] EXCEPT !.state = "expired"]
      BY <2>1 DEF CodeType
    <2>3. code' = [code EXCEPT ![i] = e]
      BY <1>3, <2>2
    <2>4. code' \in Seq(CodeType) /\ Len(code') = Len(code)
      BY <2>3, ExceptSeq DEF SessionsInv, CodesInv
    <2> QED
      BY <1>2, <1>3, <2>4 DEF SessionsInv, CodesInv
  <1>4. ASSUME NEW v \in permits, permits' = permits \ {v}, UNCHANGED <<token, code>>
        PROVE  SessionsInv'
    BY <1>2, <1>4 DEF SessionsInv, CodesInv
  <1>5. DOMAIN token = 1 .. Len(token) /\ DOMAIN code = 1 .. Len(code)
    BY DEF SessionsInv, CodesInv
  <1> QED
    BY <1>1, <1>3, <1>4, <1>5 DEF Expires

LEMMA SessionsNextInv ==
    ASSUME SessionsInv, SessionsNext
    PROVE  SessionsInv'
  BY ReadsInv, IssueInv, RefreshInv, LogoutInv, ResetInv, CodesMove, ExpiryInv DEF SessionsNext

LEMMA FewElements ==
    ASSUME NEW S, \A x, y \in S : x = y
    PROVE  Cardinality(S) = IF S = {} THEN 0 ELSE 1
  <1>1. CASE S = {}
    BY <1>1, FS_EmptySet
  <1>2. CASE S # {}
    <2>1. PICK x \in S : TRUE
      BY <1>2
    <2>2. S = {x}
      BY <2>1
    <2> QED
      BY <2>2, FS_Singleton
  <1> QED
    BY <1>1, <1>2

LEMMA SessionsInvHolds ==
    ASSUME SessionsInv
    PROVE  SessionsAccounted /\ SessionsTypeOK
  <1>0. DOMAIN token = 1 .. Len(token) /\ DOMAIN code = 1 .. Len(code)
    BY DEF SessionsInv, CodesInv
  <1>1. SessionsKnowPassword
    BY <1>0 DEF SessionsKnowPassword, SessionsInv, TokenOK, Knows, Live
  <1>2. OneSessionPerLogin
    <2> SUFFICES ASSUME NEW line \in Lines
                 PROVE  Cardinality({i \in DOMAIN token :
                            Live(i) /\ token[i].of.line = line /\ ~token[i].of.forked})
                        + Cardinality({c \in Calls : call[c].at = "issue" /\ call[c].of.line = line
                                                    /\ ~call[c].of.forked}) <= 1
      BY DEF OneSessionPerLogin
    <2> DEFINE T == {i \in DOMAIN token : Live(i) /\ token[i].of.line = line /\ ~token[i].of.forked}
               C == {c \in Calls : call[c].at = "issue" /\ call[c].of.line = line /\ ~call[c].of.forked}
    <2>1. OneBearer(line)
      BY DEF SessionsInv
    <2>2. /\ \A i \in T : i \in 1 .. Len(token) /\ TokenBears(token[i], line)
          /\ \A c \in C : c \in Calls /\ CallBears(call[c], line)
      BY <1>0 DEF Live, TokenBears, CallBears
    <2> HIDE DEF T, C
    <2>3. \A i, j \in T : i = j
      BY <2>1, <2>2 DEF OneBearer
    <2>4. \A c, d \in C : c = d
      BY <2>1, <2>2 DEF OneBearer
    <2>5. T = {} \/ C = {}
      BY <2>1, <2>2 DEF OneBearer
    <2>6. Cardinality(T) = (IF T = {} THEN 0 ELSE 1) /\ Cardinality(C) = (IF C = {} THEN 0 ELSE 1)
      BY <2>3, <2>4, FewElements
    <2>7. Cardinality(T) + Cardinality(C) <= 1
      BY <2>5, <2>6
    <2> QED
      BY <2>7 DEF T, C
  <1>3. SessionsTypeOK
    BY DEF SessionsTypeOK, SessionsInv, CodesInv, TokenType, CodeType
  <1> QED
    BY <1>1, <1>2, <1>3 DEF SessionsAccounted

-----------------------------------------------------------------------------
(* The platform.  The group at work keeps its own invariant; what the      *)
(* other groups hold is as the history of the behaviour left it.           *)

\* Without requests in flight, nobody but the tables answers for a record.
RecordsSettled ==
    \A m \in Meetings, s \in Users, status \in Marks :
        record[m, s] = status =>
            /\ \E action \in {"RECORDED", "CORRECTED"} : Entry(m, s, status, action) \in audited
            /\ status = "ABSENT" =>
                  <<m, s>> \in told \/ Entry(m, s, "ABSENT", "CORRECTED") \in audited

AttendancePart ==
    IF focus \in {"calendar", "attendance"} THEN AttendanceInv
    ELSE AttendanceTypeOK /\ RecordsSettled
SettingsPart == IF focus = "settings" THEN SettingsInv ELSE SettingsTypeOK /\ AddUp
StandingPart ==
    StandingTypeOK /\ (focus = "standing" => call = [c \in Calls |-> Idle])
StoragePart == focus \notin {"reports", "library"} => StorageInit
LibraryPart == IF focus = "library" THEN LibraryInv ELSE LibraryInit
ReportsPart == IF focus = "reports" THEN ReportsInv ELSE ReportsInit
SessionsPart == IF focus = "sessions" THEN SessionsInv ELSE SessionsInit
\* Where the views are compared: a record is of a meeting there is, and no more people
\* with a row have left the course than there were upheavals, unless its assignment has
\* moved to another one.
ViewsPart ==
    focus \in {"standing", "library"} =>
        RecordsHeld /\ \A a \in Assignments : a \notin moved => Cardinality(Departed(a)) <= upheavals

PlatformInv ==
    /\ focus \in Focuses
    /\ archived \subseteq Courses \union Users
    /\ AttendancePart /\ SettingsPart /\ StandingPart /\ StoragePart /\ LibraryPart
    /\ ReportsPart /\ SessionsPart /\ ViewsPart

\* A group that is not at work stays as it is.
LEMMA AttendanceRests ==
    ASSUME AttendancePart, focus \notin {"calendar", "attendance"},
           UNCHANGED <<focus, meeting, members, pairing, record, attendanceVars>>
    PROVE  AttendancePart'
  BY DEF AttendancePart, AttendanceTypeOK, RecordsSettled, attendanceVars

LEMMA SettingsRest ==
    ASSUME SettingsPart, focus # "settings", UNCHANGED <<focus, settingsVars>>
    PROVE  SettingsPart'
  BY DEF SettingsPart, SettingsTypeOK, AddUp, Weight, settingsVars

LEMMA StandingRests ==
    ASSUME StandingPart, focus # "standing", UNCHANGED <<focus, row, courseOf, standingVars>>
    PROVE  StandingPart'
  BY DEF StandingPart, StandingTypeOK, standingVars

LEMMA StorageRests ==
    ASSUME StoragePart, focus \notin {"reports", "library"}, UNCHANGED <<focus, storageVars>>
    PROVE  StoragePart'
  BY DEF StoragePart, StorageInit, storageVars

LEMMA LibraryRests ==
    ASSUME LibraryPart, focus # "library", UNCHANGED <<focus, libraryVars>>
    PROVE  LibraryPart'
  BY DEF LibraryPart, LibraryInit, libraryVars

LEMMA ReportsRest ==
    ASSUME ReportsPart, focus # "reports", UNCHANGED <<focus, reportsVars>>
    PROVE  ReportsPart'
  BY DEF ReportsPart, ReportsInit, reportsVars

LEMMA SessionsRest ==
    ASSUME SessionsPart, focus # "sessions", UNCHANGED <<focus, sessionsVars>>
    PROVE  SessionsPart'
  BY DEF SessionsPart, SessionsInit, sessionsVars

LEMMA ViewsRest ==
    ASSUME ViewsPart, focus # "standing", UNCHANGED focus,
           focus = "library" => UNCHANGED <<tables, standingVars>>
    PROVE  ViewsPart'
  BY DEF ViewsPart, RecordsHeld, Exists, Departed, CourseMembers, tables, standingVars

LEMMA CalendarStep ==
    ASSUME PlatformInv, Calendar \/ Attending, UNCHANGED focus
    PROVE  PlatformInv'
  <1>1. focus \in {"calendar", "attendance"}
        /\ UNCHANGED <<settingsVars, standingVars, storageVars, libraryVars, reportsVars, sessionsVars>>
    BY DEF Calendar, Attending
  <1>2. UNCHANGED <<row, courseOf, archived>>
    BY DEF Calendar, Attending, CalendarNext, AttendanceNext, CreateMeeting, UpdateReads, ArchiveReads,
           UpdateWrites, ArchiveWrites, AttendanceCallFails, RecordBulk, CorrectReads,
           BulkChecksPairing, BulkChecksMembers, BulkReads, BulkWrites, BulkAudits, BulkRefreshes,
           BulkNotifies, CorrectWrites, CorrectAudits, CorrectRefreshes, tables
  <1>3. AttendanceInv
    BY <1>1 DEF PlatformInv, AttendancePart
  <1>4. AttendanceInv'
    <2>1. Subjects \cap Meetings \in SUBSET Meetings /\ Subjects \cap Users \in SUBSET Users
      OBVIOUS
    <2>2. CASE CalendarNext(Subjects \cap Meetings)
      BY <1>3, <2>1, <2>2, CalendarInv
    <2>3. CASE AttendanceNext(Subjects \cap Meetings, Subjects \cap Users)
      BY <1>3, <2>1, <2>3, AttendingInv
    <2> QED
      BY <2>2, <2>3 DEF Calendar, Attending
  <1>5. AttendancePart'
    BY <1>1, <1>4 DEF AttendancePart
  <1>6. SettingsPart' /\ StandingPart' /\ StoragePart' /\ LibraryPart' /\ ReportsPart' /\ SessionsPart'
    BY <1>1, <1>2, SettingsRest, StandingRests, StorageRests, LibraryRests, ReportsRest, SessionsRest
    DEF PlatformInv
  <1>7. ViewsPart'
    BY <1>1, ViewsRest DEF PlatformInv
  <1> QED
    BY <1>2, <1>5, <1>6, <1>7 DEF PlatformInv

LEMMA SettingStep ==
    ASSUME PlatformInv, Setting, UNCHANGED focus
    PROVE  PlatformInv'
  <1>1. focus = "settings" /\ SettingsNext
        /\ UNCHANGED <<attendanceVars, standingVars, storageVars, libraryVars, reportsVars, sessionsVars>>
    BY DEF Setting
  <1>2. UNCHANGED tables
    BY <1>1 DEF SettingsNext, UpdateSettings, WriteSetting, UpdateFails, tables
  <1>3. SettingsInv
    BY <1>1 DEF PlatformInv, SettingsPart
  <1>4. SettingsInv'
    BY <1>1, <1>3, SettingsNextInv
  <1>5. SettingsPart'
    BY <1>1, <1>4 DEF SettingsPart
  <1>6. AttendancePart' /\ StandingPart' /\ StoragePart' /\ LibraryPart' /\ ReportsPart' /\ SessionsPart'
    BY <1>1, <1>2, AttendanceRests, StandingRests, StorageRests, LibraryRests, ReportsRest, SessionsRest
    DEF PlatformInv, tables
  <1>7. ViewsPart'
    BY <1>1, <1>2, ViewsRest DEF PlatformInv
  <1> QED
    BY <1>2, <1>5, <1>6, <1>7 DEF PlatformInv, tables

LEMMA FilingStep ==
    ASSUME PlatformInv, Filing, UNCHANGED focus
    PROVE  PlatformInv'
  <1>1. focus = "library" /\ LibraryNext
        /\ UNCHANGED <<attendanceVars, settingsVars, standingVars, reportsVars, sessionsVars>>
    BY DEF Filing
  <1>2. UNCHANGED tables
    BY <1>1 DEF LibraryNext, GenerateUploadUrl, Upload, UrlExpires, CreateResource, ArchiveResource,
                ArchiveResourceWrites, ArchiveResourceFails, DeleteFile, DeleteFails
  <1>3. LibraryInv
    BY <1>1 DEF PlatformInv, LibraryPart
  <1>4. LibraryInv'
    BY <1>1, <1>3, LibraryNextInv
  <1>5. LibraryPart' /\ StoragePart'
    BY <1>1, <1>4 DEF LibraryPart, StoragePart
  <1>6. AttendancePart' /\ StandingPart' /\ SettingsPart' /\ ReportsPart' /\ SessionsPart'
    BY <1>1, <1>2, AttendanceRests, StandingRests, SettingsRest, ReportsRest, SessionsRest
    DEF PlatformInv, tables
  <1>7. ViewsPart'
    BY <1>1, <1>2, ViewsRest DEF PlatformInv
  <1> QED
    BY <1>2, <1>5, <1>6, <1>7 DEF PlatformInv, tables

LEMMA ReportingStep ==
    ASSUME PlatformInv, Reporting, UNCHANGED focus
    PROVE  PlatformInv'
  <1>1. focus = "reports" /\ ReportsNext
        /\ UNCHANGED <<attendanceVars, settingsVars, standingVars, libraryVars, sessionsVars>>
    BY DEF Reporting, Elsewhere
  <1>2. UNCHANGED tables
    BY <1>1 DEF ReportsNext, RequestReport, ReportAudits, ReportQueues, ReportCallFails, ExportExpires,
                HandleReport
  <1>3. ReportsInv
    BY <1>1 DEF PlatformInv, ReportsPart
  <1>4. ReportsInv'
    BY <1>1, <1>3, ReportsNextInv
  <1>5. ReportsPart' /\ StoragePart'
    BY <1>1, <1>4 DEF ReportsPart, StoragePart
  <1>6. AttendancePart' /\ StandingPart' /\ SettingsPart' /\ LibraryPart' /\ SessionsPart'
    BY <1>1, <1>2, AttendanceRests, StandingRests, SettingsRest, LibraryRests, SessionsRest
    DEF PlatformInv, tables
  <1>7. ViewsPart'
    BY <1>1, <1>2, ViewsRest DEF PlatformInv
  <1> QED
    BY <1>2, <1>5, <1>6, <1>7 DEF PlatformInv, tables

LEMMA SigningStep ==
    ASSUME PlatformInv, Signing, UNCHANGED focus
    PROVE  PlatformInv'
  <1>1. focus = "sessions" /\ SessionsNext
        /\ UNCHANGED <<attendanceVars, settingsVars, standingVars, storageVars, libraryVars, reportsVars>>
    BY DEF Signing
  <1>2. UNCHANGED <<meeting, members, pairing, record, row, courseOf>>
        /\ archived' \subseteq archived \union Accounts
    BY <1>1 DEF SessionsNext, LoginReads, VerifyOtp, ResetReads, RefreshReads, IssueToken, RefreshRevokes,
                VerifyOtpWrites, ResetWrites, SessionCallFails, Logout, ForgotPassword, Archive, Expires,
                tables
  <1>3. SessionsInv
    BY <1>1 DEF PlatformInv, SessionsPart
  <1>4. SessionsInv'
    BY <1>1, <1>3, SessionsNextInv
  <1>5. SessionsPart'
    BY <1>1, <1>4 DEF SessionsPart
  <1>6. AttendancePart' /\ StandingPart' /\ SettingsPart' /\ LibraryPart' /\ ReportsPart' /\ StoragePart'
    BY <1>1, <1>2, AttendanceRests, StandingRests, SettingsRest, LibraryRests, ReportsRest, StorageRests
    DEF PlatformInv
  <1>7. ViewsPart'
    BY <1>1, ViewsRest DEF PlatformInv
  <1> QED
    BY <1>2, <1>5, <1>6, <1>7, SessionsAssumption DEF PlatformInv

\* Who leaves, or is archived, is one of the upheavals; whoever gets a row has one.
LEMMA ViewsMove ==
    ASSUME ViewsPart, focus = "standing", UNCHANGED focus, AttendanceTypeOK, StandingTypeOK,
           StandingNext(Subjects \cap Users)
    PROVE  ViewsPart'
  <1>1. RecordsHeld /\ (\A a \in Assignments : a \notin moved => Cardinality(Departed(a)) <= upheavals)
        /\ upheavals \in Nat
    BY UpheavalsAssumption DEF ViewsPart, StandingTypeOK
  <1>2. \A a \in Assignments : IsFiniteSet(Departed(a)) /\ Cardinality(Departed(a)) \in Nat
    <2> SUFFICES ASSUME NEW a \in Assignments
                 PROVE  IsFiniteSet(Departed(a)) /\ Cardinality(Departed(a)) \in Nat
      OBVIOUS
    <2>1. Departed(a) \subseteq Users
      BY DEF Departed
    <2> QED
      BY <2>1, FiniteUsers, FS_Subset, FS_CardinalityType
  <1>3. ASSUME NEW m \in Meetings, NEW s \in Users, NEW status \in Marks, Mark(m, s, status)
        PROVE  ViewsPart'
    <2>1. UNCHANGED <<meeting, row, courseOf, members, archived, upheavals, moved>> /\ Exists(m)
          /\ record' = [record EXCEPT ![<<m, s>>] = status]
      BY <1>3 DEF Mark, standingVars
    <2>2. RecordsHeld'
      BY <1>1, <2>1 DEF RecordsHeld, Exists, AttendanceTypeOK
    <2>3. \A a \in Assignments : Departed(a)' = Departed(a)
      BY <2>1 DEF Departed, CourseMembers
    <2> QED
      BY <1>1, <2>1, <2>2, <2>3 DEF ViewsPart
  <1>4. ASSUME NEW b \in Assignments, NEW s \in Users, NEW status \in Rows, RowMoves(b, s, status)
        PROVE  ViewsPart'
    <2>1. UNCHANGED <<meeting, record, courseOf, members, archived, upheavals, moved>> /\ row[b, s] # None
          /\ row' = [row EXCEPT ![<<b, s>>] = status]
      BY <1>4 DEF RowMoves, standingVars
    <2>2. RecordsHeld'
      BY <1>1, <2>1 DEF RecordsHeld, Exists
    <2>3. \A a \in Assignments, v \in Users : row'[<<a, v>>] # None <=> row[<<a, v>>] # None
      BY <2>1 DEF StandingTypeOK, Rows, None
    <2>4. \A a \in Assignments : Departed(a)' = Departed(a)
      BY <2>1, <2>3 DEF Departed, CourseMembers
    <2> QED
      BY <1>1, <2>1, <2>2, <2>4 DEF ViewsPart
  <1>5. ASSUME Upheaval PROVE ViewsPart'
    <2>1. UNCHANGED <<meeting, record, row>> /\ upheavals' = upheavals + 1
      BY <1>5 DEF Upheaval, Archive, MemberLeaves, PairingEnds, AssignmentMoves
    <2>2. RecordsHeld'
      BY <1>1, <2>1 DEF RecordsHeld, Exists
    <2>3. /\ \A a \in Assignments : a \notin moved' => a \notin moved /\ courseOf'[a] = courseOf[a]
          /\ \E x : \A k \in Courses : CourseMembers(k) \subseteq CourseMembers(k)' \union {x}
      <3>1. CASE (\E y \in Courses \union (Users \ {Admin}) : Archive(y)) /\ UNCHANGED moved
        BY <3>1 DEF Archive, CourseMembers
      <3>2. CASE (\E k \in Courses, v \in Users : MemberLeaves(k, v)) /\ UNCHANGED moved
        BY <3>2 DEF MemberLeaves, CourseMembers
      <3>3. CASE (\E u \in Mentors, k \in Courses, s \in Scholars : PairingEnds(u, k, s)) /\ UNCHANGED moved
        BY <3>3 DEF PairingEnds, CourseMembers
      <3>4. CASE \E a \in Assignments, k \in Courses : AssignmentMoves(a, k) /\ moved' = moved \union {a}
        BY <3>4 DEF AssignmentMoves, CourseMembers, StandingTypeOK
      <3> QED
        BY <1>5, <3>1, <3>2, <3>3, <3>4 DEF Upheaval
    <2>4. PICK x : \A k \in Courses : CourseMembers(k) \subseteq CourseMembers(k)' \union {x}
      BY <2>3
    <2>5. ASSUME NEW a \in Assignments, a \notin moved' PROVE Cardinality(Departed(a)') <= upheavals'
      <3>0. a \notin moved /\ courseOf'[a] = courseOf[a] /\ courseOf[a] \in Courses
        BY <2>3, <2>5 DEF StandingTypeOK
      <3>1. Departed(a)' \subseteq Departed(a) \union {x}
        BY <2>1, <2>4, <3>0 DEF Departed
      <3>2. IsFiniteSet(Departed(a)) /\ Cardinality(Departed(a)) \in Nat
            /\ Cardinality(Departed(a)) <= upheavals
        BY <1>1, <1>2, <3>0
      <3>3. /\ IsFiniteSet(Departed(a) \union {x})
            /\ \/ Cardinality(Departed(a) \union {x}) = Cardinality(Departed(a))
               \/ Cardinality(Departed(a) \union {x}) = Cardinality(Departed(a)) + 1
        BY <3>2, FS_AddElement
      <3>4. Cardinality(Departed(a)') <= Cardinality(Departed(a) \union {x})
            /\ Cardinality(Departed(a)') \in Nat
        BY <3>1, <3>3, Fewer
      <3> QED
        BY <1>1, <2>1, <3>2, <3>3, <3>4
    <2> QED
      BY <2>2, <2>5 DEF ViewsPart
  <1> QED
    BY <1>3, <1>4, <1>5 DEF StandingNext

LEMMA MovingStep ==
    ASSUME PlatformInv, Moving, UNCHANGED focus
    PROVE  PlatformInv'
  <1>1. focus = "standing" /\ StandingNext(Subjects \cap Users)
        /\ UNCHANGED <<cut, settingsVars, storageVars, libraryVars, reportsVars, sessionsVars>>
    BY DEF Moving
  <1>2. AttendanceTypeOK /\ RecordsSettled /\ StandingTypeOK /\ call = [c \in Calls |-> Idle]
        /\ archived \subseteq Courses \union Users
    BY <1>1 DEF PlatformInv, AttendancePart, StandingPart
  <1> DEFINE changed == {x \in Meetings \X Users : record'[x] # record[x]}
  <1>3. /\ audited' = audited \union {Entry(x[1], x[2], record'[x], "RECORDED") : x \in changed}
        /\ told' = told \union {x \in changed : record'[x] = "ABSENT"}
    BY DEF Moving
  <1>4. \/ UNCHANGED record
        \/ \E m \in Meetings, s \in Users, status \in Marks :
               record' = [record EXCEPT ![<<m, s>>] = status]
    BY <1>1 DEF StandingNext, Mark, RowMoves, Upheaval, Archive, MemberLeaves, PairingEnds, AssignmentMoves
  <1>5. record' \in [Meetings \X Users -> Marks \union {None}]
    BY <1>2, <1>4 DEF AttendanceTypeOK
  <1>6. \A x \in changed : record'[x] \in Marks
    <2>1. CASE UNCHANGED record
      BY <2>1
    <2>2. ASSUME NEW m \in Meetings, NEW s \in Users, NEW status \in Marks,
                 record' = [record EXCEPT ![<<m, s>>] = status]
          PROVE  \A x \in changed : record'[x] \in Marks
      BY <1>2, <2>2 DEF AttendanceTypeOK
    <2> QED
      BY <1>4, <2>1, <2>2
  <1>7. /\ UNCHANGED <<meeting, call, cut>>
        /\ members' \subseteq members
        /\ pairing' \in [Mentors \X Courses \X Scholars -> {None, "ACTIVE", "ENDED"}]
        /\ archived' \subseteq Courses \union Users
        /\ row' \in [Assignments \X Users -> Rows \union {None}]
        /\ courseOf' \in [Assignments -> Courses]
        /\ upheavals' \in 0 .. MaxUpheavals /\ moved' \subseteq Assignments
    <2> USE <1>2 DEF AttendanceTypeOK, StandingTypeOK
    <2>1. ASSUME NEW m \in Meetings, NEW s \in Users, NEW status \in Marks, Mark(m, s, status)
          PROVE  UNCHANGED <<meeting, call, members, pairing, archived, row, courseOf, upheavals, moved>>
      BY <2>1 DEF Mark, standingVars
    <2>2. ASSUME NEW a \in Assignments, NEW s \in Users, NEW status \in Rows, RowMoves(a, s, status)
          PROVE  /\ UNCHANGED <<meeting, call, members, pairing, archived, courseOf, upheavals, moved>>
                 /\ row' \in [Assignments \X Users -> Rows \union {None}]
      BY <2>2 DEF RowMoves, standingVars
    <2>3. CASE Upheaval
      <3>0. upheavals < MaxUpheavals /\ upheavals' = upheavals + 1
        BY <2>3 DEF Upheaval
      <3>1. upheavals' \in 0 .. MaxUpheavals
        BY <3>0, UpheavalsAssumption
      <3>5. UNCHANGED <<meeting, call, row>>
        BY <2>3 DEF Upheaval, Archive, MemberLeaves, PairingEnds, AssignmentMoves
      <3>2. archived' \subseteq Courses \union Users
        <4>1. archived' = archived \/ \E x \in Courses \union Users : archived' = archived \union {x}
          BY <2>3 DEF Upheaval, Archive, MemberLeaves, PairingEnds, AssignmentMoves
        <4> QED
          BY <4>1
      <3>3. members' \subseteq members
        BY <2>3 DEF Upheaval, Archive, MemberLeaves, PairingEnds, AssignmentMoves
      <3>4. pairing' = pairing \/ \E x \in Mentors \X Courses \X Scholars :
                pairing' = [pairing EXCEPT ![x] = "ENDED"]
        BY <2>3 DEF Upheaval, Archive, MemberLeaves, PairingEnds, AssignmentMoves
      <3>6. pairing' \in [Mentors \X Courses \X Scholars -> {None, "ACTIVE", "ENDED"}]
        BY <3>4
      <3>7. courseOf' = courseOf \/ \E a \in Assignments, k \in Courses :
                courseOf' = [courseOf EXCEPT ![a] = k]
        BY <2>3 DEF Upheaval, Archive, MemberLeaves, PairingEnds, AssignmentMoves
      <3>8. courseOf' \in [Assignments -> Courses]
        BY <3>7
      <3>9. moved' \subseteq Assignments
        BY <2>3 DEF Upheaval
      <3> QED
        BY <1>1, <3>1, <3>2, <3>3, <3>5, <3>6, <3>8, <3>9
    <2> QED
      BY <1>1, <2>1, <2>2, <2>3 DEF StandingNext
  <1> HIDE DEF changed
  <1>8. audited' \subseteq Entries /\ told' \subseteq Meetings \X Users
    <2>1. ASSUME NEW x \in changed
          PROVE  x \in Meetings \X Users /\ Entry(x[1], x[2], record'[x], "RECORDED") \in Entries
      BY <1>6 DEF Entry, Entries, changed
    <2> QED
      BY <1>2, <1>3, <2>1 DEF AttendanceTypeOK
  <1>9. AttendanceTypeOK'
    BY <1>2, <1>5, <1>7, <1>8 DEF AttendanceTypeOK
  <1>10. RecordsSettled'
    <2> SUFFICES ASSUME NEW m \in Meetings, NEW s \in Users, NEW status \in Marks,
                        record'[<<m, s>>] = status
                 PROVE  /\ \E action \in {"RECORDED", "CORRECTED"} : Entry(m, s, status, action) \in audited'
                        /\ status = "ABSENT" =>
                              <<m, s>> \in told' \/ Entry(m, s, "ABSENT", "CORRECTED") \in audited'
      BY DEF RecordsSettled, Entry
    <2>1. CASE record[<<m, s>>] = status
      BY <1>2, <1>3, <2>1 DEF RecordsSettled
    <2>2. CASE record[<<m, s>>] # status
      <3>1. <<m, s>> \in changed
        BY <2>2 DEF changed
      <3>2. PICK x \in changed : x = <<m, s>> /\ x[1] = m /\ x[2] = s /\ record'[x] = status
        BY <3>1
      <3> QED
        BY <1>3, <3>2
    <2> QED
      BY <2>1, <2>2
  <1>11. AttendancePart'
    BY <1>1, <1>9, <1>10 DEF AttendancePart
  <1>12. StandingPart'
    BY <1>2, <1>7 DEF StandingPart, StandingTypeOK
  <1>13. SettingsPart' /\ StoragePart' /\ LibraryPart' /\ ReportsPart' /\ SessionsPart'
    BY <1>1, SettingsRest, StorageRests, LibraryRests, ReportsRest, SessionsRest DEF PlatformInv
  <1>14. ViewsPart'
    BY <1>1, ViewsMove DEF PlatformInv, AttendancePart, StandingPart
  <1> QED
    BY <1>7, <1>11, <1>12, <1>13, <1>14 DEF PlatformInv

LEMMA PlatformStutters ==
    ASSUME PlatformInv, UNCHANGED vars
    PROVE  PlatformInv'
  <1>1. /\ UNCHANGED <<focus, call, meeting, members, pairing, record, row, courseOf, archived>>
        /\ UNCHANGED <<attendanceVars, settingsVars, standingVars, storageVars, libraryVars, reportsVars,
                       sessionsVars>>
    BY DEF vars, tables
  <1>2. AttendancePart'
    <2>1. CASE focus \in {"calendar", "attendance"}
      <3>1. AttendanceTypeOK' /\ AttendanceCallsOK' /\ MeetingsFound'
        BY <1>1, <2>1 DEF PlatformInv, AttendancePart, AttendanceInv, AttendanceTypeOK, AttendanceCallsOK,
            MeetingsFound, attendanceVars
      <3>2. ASSUME NEW m \in Meetings, NEW s \in Users, NEW status \in Marks
            PROVE  Accounted(m, s, status)' <=> Accounted(m, s, status)
        BY <1>1 DEF Accounted, Known, Answered, DutyToTell, DutyToAudit, WillTell, Of, Status, Scholar,
            attendanceVars
      <3>3. AttendanceInv
        BY <2>1 DEF PlatformInv, AttendancePart
      <3>4. RecordsAccounted'
        BY <1>1, <3>2, <3>3 DEF AttendanceInv, RecordsAccounted
      <3>5. RelianceOK'
        BY <1>1, <3>2, <3>3 DEF AttendanceInv, RelianceOK, Relies, Of, Status, Scholar
      <3> QED
        BY <1>1, <2>1, <3>1, <3>4, <3>5 DEF AttendancePart, AttendanceInv
    <2>2. CASE focus \notin {"calendar", "attendance"}
      BY <1>1, <2>2, AttendanceRests DEF PlatformInv
    <2> QED
      BY <2>1, <2>2
  <1>3. SettingsPart'
    BY <1>1 DEF PlatformInv, SettingsPart, SettingsInv, SettingsTypeOK, UpdatesOK, AloneInv, TornInv,
        Updating, WillAddUp, Pending, Untouched, AddUp, Weight, settingsVars
  <1>4. StandingPart' /\ StoragePart'
    BY <1>1 DEF PlatformInv, StandingPart, StandingTypeOK, StoragePart, StorageInit, standingVars, storageVars
  <1>5. LibraryPart'
    BY <1>1 DEF PlatformInv, LibraryPart, LibraryInv, LibraryInit, LibraryTypeOK, libraryVars, storageVars
  <1>6. ReportsPart'
    BY <1>1 DEF PlatformInv, ReportsPart, ReportsInv, ReportsInit, QueueingOK, Stored, ReportOK, JobOK,
        StatusOK, NoticesOK, LastOf, reportsVars, storageVars
  <1>7. SessionsPart'
    BY <1>1 DEF PlatformInv, SessionsPart, SessionsInv, SessionsInit, CodesInv, TokenOK, CallOK, Knows,
        OneBearer, TokenBears, CallBears, sessionsVars
  <1>8. ViewsPart'
    BY <1>1 DEF PlatformInv, ViewsPart, RecordsHeld, Exists, Departed, CourseMembers, standingVars
  <1> QED
    BY <1>1, <1>2, <1>3, <1>4, <1>5, <1>6, <1>7, <1>8 DEF PlatformInv

LEMMA PlatformStep ==
    ASSUME PlatformInv, [Next]_vars
    PROVE  PlatformInv'
  BY CalendarStep, SettingStep, MovingStep, FilingStep, ReportingStep, SigningStep, PlatformStutters
  DEF Next

LEMMA PlatformStarts ==
    ASSUME Init
    PROVE  PlatformInv
  <1>1. PICK h \in Histories :
           /\ focus = h.focus
           /\ meeting = h.meeting /\ members = h.members /\ pairing = h.pairing
           /\ record = h.record /\ row = h.row /\ courseOf = h.courseOf
           /\ audited = h.audited /\ told = h.told
           /\ setting = h.setting
    BY DEF Init
  <1>2. call = [c \in Calls |-> Idle] /\ archived = {} /\ cut = {} /\ torn = FALSE /\ alone = {}
    BY DEF Init
  <1>0. HistoryOK(h)
    BY HistoriesAssumption
  <1>3. focus \in Focuses /\ AttendanceTypeOK
    BY <1>0, <1>1, <1>2 DEF HistoryOK, AttendanceTypeOK
  <1>4. RecordsSettled
    <2> SUFFICES ASSUME NEW m \in Meetings, NEW s \in Users, NEW status \in Marks, record[m, s] = status
                 PROVE  /\ \E action \in {"RECORDED", "CORRECTED"} : Entry(m, s, status, action) \in audited
                        /\ status = "ABSENT" =>
                              <<m, s>> \in told \/ Entry(m, s, "ABSENT", "CORRECTED") \in audited
      BY DEF RecordsSettled
    <2>1. h.record[m, s] = status /\ status # None
      BY <1>1 DEF Marks, None
    <2>2. RecordsLeft(h)
      BY <1>0 DEF HistoryOK
    <2> QED
      BY <1>1, <2>1, <2>2 DEF RecordsLeft
  <1>5. AddUp
    <2>1. NearWhole(WeightLeft(h, AssignmentWeight) + WeightLeft(h, AttendanceWeight))
      BY <1>0 DEF HistoryOK
    <2> QED
      BY <1>1, <2>1 DEF WeightLeft, AddUp, Weight
  <1>6. AttendancePart
    <2>1. AttendanceCallsOK /\ MeetingsFound /\ RelianceOK
      BY <1>2 DEF AttendanceCallsOK, MeetingsFound, RelianceOK, Relies, Idle
    <2>2. RecordsAccounted
      BY <1>4 DEF RecordsSettled, RecordsAccounted, Accounted, Known, Answered
    <2> QED
      BY <1>3, <1>4, <2>1, <2>2 DEF AttendancePart, AttendanceInv
  <1>7. SettingsPart
    <2>1. SettingsTypeOK
      BY <1>0, <1>1, <1>2 DEF HistoryOK, SettingsTypeOK
    <2>2. Updating = {} /\ UpdatesOK
      BY <1>2 DEF Updating, UpdatesOK, Idle
    <2> QED
      BY <1>2, <1>5, <2>1, <2>2 DEF SettingsPart, SettingsInv, AloneInv, TornInv
  <1>8. StandingPart
    <2>1. upheavals \in 0 .. MaxUpheavals /\ moved \subseteq Assignments
      BY UpheavalsAssumption DEF Init, StandingInit
    <2>2. row \in [Assignments \X Users -> Rows \union {None}] /\ courseOf \in [Assignments -> Courses]
      BY <1>0, <1>1 DEF HistoryOK
    <2> QED
      BY <1>2, <2>1, <2>2 DEF StandingPart, StandingTypeOK
  <1>9. StorageInit /\ LibraryInit /\ ReportsInit /\ SessionsInit
    BY DEF Init
  <1>10. LibraryPart
    BY <1>2, <1>9 DEF LibraryPart, LibraryInit, LibraryInv, LibraryTypeOK, StorageInit, Idle, NoResource, Offer
  <1>11. ReportsPart
    <2>1. /\ NoExport.keyed = FALSE /\ NoJob.at = None
          /\ ReportOK(NoExport, NoJob, [ready |-> 0, failed |-> 0])
      BY DEF NoExport, Export, NoJob, Job, None, ReportOK, JobOK, StatusOK, NoticesOK, Running, Generating, Failing
    <2>2. QueueingOK
      BY <1>2 DEF QueueingOK
    <2>3. Stored
      BY <1>9, <2>1 DEF Stored, ReportsInit, None
    <2> QED
      BY <1>2, <1>9, <2>1, <2>2, <2>3
      DEF ReportsPart, ReportsInv, ReportsInit, StorageInit, ExportType, NoticeType, Idle
  <1>12. SessionsPart
    <2>1. token = <<>> /\ code = <<>> /\ Len(token) = 0 /\ Len(code) = 0 /\ permits = {}
      BY <1>9 DEF SessionsInit
    <2>2. CodesInv
      BY <1>2, <2>1, SessionsAssumption DEF CodesInv, Idle
    <2>3. \A c \in Calls : CallOK(call[c], token, password)
      BY <1>2 DEF CallOK, Idle
    <2>4. \A line \in Lines : OneBearer(line)
      BY <1>2, <2>1 DEF OneBearer, CallBears, Idle
    <2> QED
      BY <1>2, <1>9, <2>1, <2>2, <2>3, <2>4, SessionsAssumption
      DEF SessionsPart, SessionsInv, SessionsInit, TokenOK
  <1>13. ViewsPart
    <2> SUFFICES ASSUME focus \in {"standing", "library"}
                 PROVE  /\ RecordsHeld
                        /\ \A a \in Assignments : a \notin moved => Cardinality(Departed(a)) <= upheavals
      BY DEF ViewsPart
    <2>1. RecordsHeld
      BY <1>0, <1>1 DEF HistoryOK, RecordsLeft, RecordsHeld, Exists
    <2>2. \A a \in Assignments : Departed(a) = {}
      BY <1>0, <1>1, <1>2 DEF HistoryOK, NobodyLeft, Departed, CourseMembers
    <2>3. upheavals = 0
      BY DEF Init, StandingInit
    <2> QED
      BY <2>1, <2>2, <2>3, FS_EmptySet
  <1> QED
    BY <1>2, <1>3, <1>6, <1>7, <1>8, <1>9, <1>10, <1>11, <1>12, <1>13 DEF PlatformInv, StoragePart

\* Whatever is in the tables while nobody writes them.
LEMMA SettledRecords ==
    ASSUME AttendanceTypeOK, RecordsSettled
    PROVE  AbsentIsTold /\ RecordedIsAudited
  <1>1. ASSUME NEW m \in Meetings, NEW s \in Users, record[m, s] # None
        PROVE  \E action \in {"RECORDED", "CORRECTED"} : Entry(m, s, record[m, s], action) \in audited
    <2>1. PICK status \in Marks : status = record[m, s]
      BY <1>1 DEF AttendanceTypeOK
    <2> QED
      BY <2>1 DEF RecordsSettled
  <1>2. ASSUME NEW m \in Meetings, NEW s \in Users, record[m, s] = "ABSENT"
        PROVE  <<m, s>> \in told \/ Entry(m, s, "ABSENT", "CORRECTED") \in audited
    BY <1>2 DEF RecordsSettled, Marks
  <1> QED
    BY <1>1, <1>2 DEF AbsentIsTold, RecordedIsAudited

\* The requests in flight are those of the group at work.
LEMMA CallsOfGroups ==
    ASSUME PlatformInv
    PROVE  /\ call \in [Calls ->
                  AttendanceCalls \union Updates \union LibraryCalls \union ReportCalls
                  \union SessionCalls \union {Idle}]
           /\ focus # "sessions" => \A c \in Calls : call[c].at # "issue"
  <1> DEFINE Others == AttendanceCalls \union Updates \union LibraryCalls \union ReportCalls \union {Idle}
  <1>1. \A x \in Others : x.at # "issue"
    BY DEF AttendanceCalls, Updates, LibraryCalls, ReportCalls, Idle
  <1>2. CASE focus = "sessions"
    BY <1>2 DEF PlatformInv, SessionsPart, SessionsInv
  <1>3. CASE focus # "sessions"
    <2>1. call \in [Calls -> Others]
      <3>1. focus \in {"calendar", "attendance"} => call \in [Calls -> AttendanceCalls \union {Idle}]
        BY DEF PlatformInv, AttendancePart, AttendanceInv, AttendanceCallsOK
      <3>2. focus = "settings" => call \in [Calls -> Updates \union {Idle}]
        BY DEF PlatformInv, SettingsPart, SettingsInv, UpdatesOK
      <3>3. focus = "standing" => call \in [Calls -> {Idle}]
        BY DEF PlatformInv, StandingPart
      <3>4. focus = "library" => call \in [Calls -> LibraryCalls \union {Idle}]
        BY DEF PlatformInv, LibraryPart, LibraryInv
      <3>5. focus = "reports" => call \in [Calls -> ReportCalls \union {Idle}]
        BY DEF PlatformInv, ReportsPart, ReportsInv
      <3> HIDE DEF Others
      <3>6. focus \in Focuses
        BY DEF PlatformInv
      <3>7. \A S : call \in [Calls -> S] /\ S \subseteq Others => call \in [Calls -> Others]
        OBVIOUS
      <3> QED
        BY <1>3, <3>1, <3>2, <3>3, <3>4, <3>5, <3>6, <3>7 DEF Focuses, Others
    <2> HIDE DEF Others
    <2>2. \A c \in Calls : call[c].at # "issue"
      BY <1>1, <2>1
    <2> QED
      BY <2>1, <2>2 DEF Others
  <1> QED
    BY <1>2, <1>3

LEMMA PlatformInvHolds ==
    ASSUME PlatformInv
    PROVE  /\ PlatformTypeOK
           /\ AbsentIsTold /\ RecordedIsAudited
           /\ WeightsSettle /\ OffersBacked /\ SessionsAccounted
  <1>1. AbsentIsTold /\ RecordedIsAudited
    BY AttendanceInvHolds, SettledRecords DEF PlatformInv, AttendancePart
  <1>2. WeightsSettle
    BY SettingsInvHolds, AddUpSettles DEF PlatformInv, SettingsPart, WeightsSettle
  <1>3. OffersBacked
    <2>1. ReportsBacked
      <3>1. CASE focus = "reports"
        BY <3>1, ReportsInvHolds DEF PlatformInv, ReportsPart
      <3>2. CASE focus # "reports"
        BY <3>2 DEF PlatformInv, ReportsPart, ReportsInit, ReportsBacked, Downloadable, NoExport, Export
      <3> QED
        BY <3>1, <3>2
    <2>2. FilesKept
      <3>1. CASE focus = "library"
        BY <3>1, LibraryInvHolds DEF PlatformInv, LibraryPart
      <3>2. CASE focus # "library"
        BY <3>2 DEF PlatformInv, LibraryPart, LibraryInit, FilesKept, Offered
      <3> QED
        BY <3>1, <3>2
    <2> QED
      BY <2>1, <2>2 DEF OffersBacked
  <1>4. SessionsAccounted /\ SessionsTypeOK
    <2>1. CASE focus = "sessions"
      BY <2>1, SessionsInvHolds DEF PlatformInv, SessionsPart
    <2>2. CASE focus # "sessions"
      <3>1. SessionsInit
        BY <2>2 DEF PlatformInv, SessionsPart
      <3>2. DOMAIN token = {} /\ SessionsTypeOK
        BY <3>1 DEF SessionsInit, SessionsTypeOK
      <3>3. \A c \in Calls : call[c].at # "issue"
        BY <2>2, CallsOfGroups
      <3>4. SessionsKnowPassword
        BY <3>2 DEF SessionsKnowPassword
      <3>5. OneSessionPerLogin
        <4> SUFFICES ASSUME NEW line \in Lines
                     PROVE  Cardinality({i \in DOMAIN token :
                                Live(i) /\ token[i].of.line = line /\ ~token[i].of.forked})
                            + Cardinality({c \in Calls : call[c].at = "issue" /\ call[c].of.line = line
                                                        /\ ~call[c].of.forked}) <= 1
          BY DEF OneSessionPerLogin
        <4> DEFINE T == {i \in DOMAIN token : Live(i) /\ token[i].of.line = line /\ ~token[i].of.forked}
                   C == {c \in Calls : call[c].at = "issue" /\ call[c].of.line = line /\ ~call[c].of.forked}
        <4>1. T = {} /\ C = {}
          BY <3>2, <3>3
        <4> HIDE DEF T, C
        <4>2. Cardinality(T) = 0 /\ Cardinality(C) = 0
          BY <4>1, FS_EmptySet
        <4>3. Cardinality(T) + Cardinality(C) <= 1
          BY <4>2
        <4> QED
          BY <4>3 DEF T, C
      <3> QED
        BY <3>2, <3>4, <3>5 DEF SessionsAccounted
    <2> QED
      BY <2>1, <2>2
  <1>5. PlatformTypeOK
    <2>1. AttendanceTypeOK /\ SettingsTypeOK /\ StandingTypeOK
      BY DEF PlatformInv, AttendancePart, AttendanceInv, SettingsPart, SettingsInv, StandingPart
    <2>2. LibraryTypeOK
      BY DEF PlatformInv, LibraryPart, LibraryInv, LibraryInit, LibraryTypeOK
    <2>3. ReportsTypeOK
      <3>1. CASE focus = "reports"
        BY <3>1, ReportsInvTypes DEF PlatformInv, ReportsPart
      <3>2. CASE focus # "reports"
        BY <3>2 DEF PlatformInv, ReportsPart, ReportsInit, ReportsTypeOK
      <3> QED
        BY <3>1, <3>2
    <2>4. bucket \subseteq FileKeys \union {FileOf(r) : r \in Exports} /\ configured \in BOOLEAN
      BY DEF PlatformInv, StoragePart, StorageInit, LibraryPart, LibraryInv, ReportsPart, ReportsInv
    <2>5. call \in [Calls ->
              AttendanceCalls \union Updates \union LibraryCalls \union ReportCalls
              \union SessionCalls \union {Idle}]
      BY CallsOfGroups
    <2> QED
      BY <1>4, <2>1, <2>2, <2>3, <2>4, <2>5 DEF PlatformTypeOK, PlatformInv
  <1> QED
    BY <1>1, <1>2, <1>3, <1>4, <1>5
-----------------------------------------------------------------------------
(* The views of the tables, and what a step does to them.                  *)

LEMMA TablesHold ==
    ASSUME PlatformInv
    PROVE  TablesOK /\ SettingsTypeOK /\ StandingTypeOK /\ AttendanceTypeOK
  <1>1. AttendanceTypeOK /\ SettingsTypeOK /\ StandingTypeOK
    BY DEF PlatformInv, AttendancePart, AttendanceInv, SettingsPart, SettingsInv, StandingPart
  <1>2. \A m \in Meetings : Exists(m) => meeting[m].course \in Courses
    BY <1>1 DEF AttendanceTypeOK, Exists, Timetable
  <1> QED
    BY <1>1, <1>2 DEF TablesOK, AttendanceTypeOK, StandingTypeOK

LEMMA ReadersHold == ReadersAgree
  <1> SUFFICES ASSUME NEW u \in Users, NEW k \in Courses, MayReadCourse(u, k)
               PROVE  /\ MeetsIn(u, k)
                      /\ \A x \in Resources :
                            Offered(x) /\ resource[x].course = k => SeesResource(u, x)
    BY DEF ReadersAgree
  <1>1. \/ u = Admin
        \/ u \in Scholars /\ <<k, u>> \in members
        \/ u \in Mentors /\ EverMentorOf(u, k)
    BY DEF MayReadCourse, MentorOf, EverMentorOf, Active, None
  <1> QED
    BY <1>1, CoursesNamed DEF MeetsIn, SeesResource

LEMMA ViewsHold ==
    ASSUME PlatformInv
    PROVE  ViewsAgree
  <1> SUFFICES ASSUME focus \in {"standing", "library"}
               PROVE  SummariesAgree /\ RosterAgrees /\ ScopesAgree /\ CoursesAddUp /\ ReadersAgree
    BY DEF ViewsAgree
  <1>1. TablesOK /\ RecordsHeld
    BY TablesHold DEF PlatformInv, ViewsPart
  <1>2. /\ upheavals \in Nat
        /\ \A a \in Assignments : a \notin moved => Cardinality(Departed(a)) <= upheavals
    BY TablesHold, UpheavalsAssumption DEF StandingTypeOK, PlatformInv, ViewsPart
  <1> QED
    BY <1>1, <1>2, SummariesHold, RosterHolds, ScopesHold, CoursesHold, ReadersHold

\* One step writes one record or one row, and nothing else that the figures read.
WritesRecord ==
    /\ UNCHANGED <<meeting, row, courseOf, setting>>
    /\ \E m \in Meetings, v \in Users, status \in Marks :
          record' = [record EXCEPT ![<<m, v>>] = status]
WritesRow ==
    /\ UNCHANGED <<meeting, record, courseOf, setting>>
    /\ \E a \in Assignments, v \in Users, status \in Rows :
          row[<<a, v>>] # None /\ row' = [row EXCEPT ![<<a, v>>] = status]

LEMMA WritesOne ==
    ASSUME PlatformInv, [Next]_vars
    PROVE  UNCHANGED <<record, row>> \/ WritesRecord \/ WritesRow
  <1>1. ASSUME NEW c \in Calls, AttendanceInv, BulkWrites(c) \/ CorrectWrites(c)
        PROVE  /\ UNCHANGED <<meeting, row, courseOf>>
               /\ \E m \in Meetings, v \in Users, status \in Marks :
                     record' = [record EXCEPT ![<<m, v>>] = status]
    <2>1. CASE BulkWrites(c)
      <3>1. PICK m \in Meetings, v \in Users, status \in Marks :
               Of(c) = <<m, v>> /\ status = Status(c)
        BY <1>1, <2>1, BulkCall, SuffixFacts
        DEF BulkWrites, BulkSteps, AttendanceInv, Of, Scholar, Status
      <3> QED
        BY <2>1, <3>1 DEF BulkWrites
    <2>2. CASE CorrectWrites(c)
      <3>1. call[c].meeting \in Meetings /\ call[c].scholar \in Users /\ call[c].status \in Marks
        BY <1>1, <2>2, CorrectCall DEF CorrectWrites, CorrectSteps, AttendanceInv
      <3> QED
        BY <2>2, <3>1 DEF CorrectWrites
    <2> QED
      BY <1>1, <2>1, <2>2
  <1>2. CASE Attending
    <2>1. AttendanceInv /\ UNCHANGED setting
      BY <1>2 DEF Attending, PlatformInv, AttendancePart, settingsVars
    <2>2. UNCHANGED <<record, row>> \/ \E c \in Calls : BulkWrites(c) \/ CorrectWrites(c)
      BY <1>2 DEF Attending, AttendanceNext, RecordBulk, CorrectReads, BulkChecksPairing,
                  BulkChecksMembers, BulkReads, BulkAudits, BulkRefreshes, BulkNotifies,
                  CorrectAudits, CorrectRefreshes, AttendanceCallFails, tables
    <2> QED
      BY <1>1, <2>1, <2>2 DEF WritesRecord
  <1>3. CASE Moving
    <2>1. UNCHANGED setting /\ StandingNext(Subjects \cap Users)
      BY <1>3 DEF Moving, settingsVars
    <2>2. ASSUME NEW m \in Meetings, NEW s \in Users, NEW status \in Marks, Mark(m, s, status)
          PROVE  WritesRecord
      BY <2>1, <2>2 DEF Mark, WritesRecord
    <2>3. ASSUME NEW a \in Assignments, NEW s \in Users, NEW status \in Rows, RowMoves(a, s, status)
          PROVE  WritesRow
      <3>1. /\ UNCHANGED <<meeting, record, courseOf>> /\ s \in Users
            /\ row[<<a, s>>] # None /\ row' = [row EXCEPT ![<<a, s>>] = status]
        BY <2>3 DEF RowMoves
      <3> QED
        BY <2>1, <3>1 DEF WritesRow
    <2>4. Upheaval => UNCHANGED <<record, row>>
      BY DEF Upheaval, Archive, MemberLeaves, PairingEnds, AssignmentMoves
    <2> QED
      BY <2>1, <2>2, <2>3, <2>4 DEF StandingNext
  <1>4. CASE Calendar \/ Setting \/ Filing \/ Reporting \/ Signing \/ UNCHANGED vars
    <2>1. Calendar => UNCHANGED <<record, row>>
      BY DEF Calendar, CalendarNext, CreateMeeting, UpdateReads, ArchiveReads, UpdateWrites,
             ArchiveWrites, AttendanceCallFails, tables
    <2>2. Setting => UNCHANGED <<record, row>>
      BY DEF Setting, SettingsNext, UpdateSettings, WriteSetting, UpdateFails, tables
    <2>3. Filing => UNCHANGED <<record, row>>
      BY DEF Filing, LibraryNext, GenerateUploadUrl, Upload, UrlExpires, CreateResource,
             ArchiveResource, ArchiveResourceWrites, ArchiveResourceFails, DeleteFile, DeleteFails, tables
    <2>4. Reporting => UNCHANGED <<record, row>>
      BY DEF Reporting, ReportsNext, RequestReport, ReportAudits, ReportQueues, ReportCallFails,
             ExportExpires, HandleReport, tables
    <2>5. Signing => UNCHANGED <<record, row>>
      BY DEF Signing, SessionsNext, LoginReads, VerifyOtp, ResetReads, RefreshReads, IssueToken,
             RefreshRevokes, VerifyOtpWrites, ResetWrites, SessionCallFails, Logout, ForgotPassword,
             Archive, Expires, tables
    <2>6. UNCHANGED vars => UNCHANGED <<record, row>>
      BY DEF vars, tables
    <2> QED
      BY <1>4, <2>1, <2>2, <2>3, <2>4, <2>5, <2>6
  <1> QED
    BY <1>2, <1>3, <1>4 DEF Next

LEMMA StepHelps ==
    ASSUME PlatformInv, [Next]_vars, NEW s \in Scholars, Favourable(s)
    PROVE  Helped(s) \/ UNCHANGED <<record, row>>
  <1>1. TablesOK /\ SettingsTypeOK
    BY TablesHold
  <1> QED
    BY <1>1, WritesOne, RecordHelps, RowHelps DEF WritesRecord, WritesRow
-----------------------------------------------------------------------------
(* The theorems.                                                           *)

\* The invariant of the whole is one of the specification.
THEOREM Invariance == Spec => []PlatformInv
  <1>1. Init => PlatformInv
    BY PlatformStarts
  <1>2. PlatformInv /\ [Next]_vars => PlatformInv'
    BY PlatformStep
  <1> QED
    BY <1>1, <1>2, PTL DEF Spec

\* The rows, the requests and the jobs keep their types, whatever step comes next: the
\* end of a meeting, say, is its start and its length, however two changes of its
\* schedule cross (updateMeeting), and a job has no attempt too many.
THEOREM TypeCorrectness == Spec => []PlatformTypeOK
  <1>1. PlatformInv => PlatformTypeOK
    BY PlatformInvHolds
  <1> QED
    BY <1>1, Invariance, PTL

\* Whoever is recorded as absent has been told, or somebody is about to tell him, or a
\* correction or a request that failed half way is the reason that nobody will
\* (recordBulk, correct), for any bodies and however many requests cross.
THEOREM AbsencesTold == Spec => []AbsentIsTold
  <1>1. PlatformInv => AbsentIsTold
    BY PlatformInvHolds
  <1> QED
    BY <1>1, Invariance, PTL

\* No record holds a status that no audit entry names, unless one is about to, or its
\* request failed before it could (recordBulk, "5. Audit each change").
THEOREM RecordsAudited == Spec => []RecordedIsAudited
  <1>1. PlatformInv => RecordedIsAudited
    BY PlatformInvHolds
  <1> QED
    BY <1>1, Invariance, PTL

\* An update of the weights that ran by itself settles them to a whole within the
\* tolerance, for any weights of four decimals that may be asked for and whatever the
\* updates before it left behind (updateSettings).
THEOREM WeightsAddUp == Spec => []WeightsSettle
  <1>1. PlatformInv => WeightsSettle
    BY PlatformInvHolds
  <1> QED
    BY <1>1, Invariance, PTL

\* What is offered for download is in the bucket: the file of a COMPLETED report through
\* any number of attempts and stalls, and the file of a resource whose key no archived
\* one shares (handleReport, archiveResource).
THEOREM DownloadsBacked == Spec => []OffersBacked
  <1>1. PlatformInv => OffersBacked
    BY PlatformInvHolds
  <1> QED
    BY <1>1, Invariance, PTL

\* A login is worth one session at a time, and of the password it knew, but for requests
\* that crossed another one (refresh, resetPassword), for any number of them.
THEOREM SessionsOfLogins == Spec => []SessionsAccounted
  <1>1. PlatformInv => SessionsAccounted
    BY PlatformInvHolds
  <1> QED
    BY <1>1, Invariance, PTL

\* Everything that shows the standing of a scholar says the same of him, for any number
\* of scholars, mentors, courses, meetings and assignments and any history of theirs:
\* the three computations of a rate, the roster and his own page, the dashboards and
\* whom they are about, the figures of a course and of the organisation, whoever has
\* been marked and wherever assignments have moved.
THEOREM ViewsAgreeing == Spec => []ViewsAgree
  <1>1. PlatformInv => ViewsAgree
    BY ViewsHold
  <1> QED
    BY <1>1, Invariance, PTL

\* Whoever attends or is excused after all, hands in or gets the better verdict loses no
\* progress and is not at risk because of it, for any number of records and rows and
\* any weights, rounding included.
THEOREM ChangesHelp == Spec => FavourableChangeHelps
  <1> DEFINE HelpfulStep == \A s \in Scholars : Favourable(s) => Helped(s)
  <1>1. PlatformInv /\ [Next]_vars => [HelpfulStep]_<<record, row>>
    BY StepHelps
  <1>2. [HelpfulStep]_<<record, row>> =>
            [\A s \in Scholars : Favourable(s) =>
                LET before == ScholarMetrics(s)
                    after == ScholarMetrics(s)'
                IN  /\ before.progress <= after.progress \/ after.progress = Null
                    /\ after.atRisk = "yes" => before.atRisk = "yes"]_<<record, row>>
    BY DEF Helped
  <1> QED
    BY <1>1, <1>2, Invariance, PTL DEF Spec, FavourableChangeHelps

\* What the requester of a report heard stands, for any number of attempts and of stalls
\* (handleReport, "a COMPLETED report must never be regenerated").
THEOREM OutcomesKept == Spec => OutcomeIsKept
  <1> DEFINE OutcomeStep == \A r \in Exports : OutcomeOf(r)
  <1>1. ASSUME PlatformInv, [Next]_vars PROVE [OutcomeStep]_<<export, notices>>
    <2>1. CASE Reporting
      <3>1. ReportsInv /\ ReportsNext
        BY <1>1, <2>1 DEF Reporting, PlatformInv, ReportsPart
      <3> QED
        BY <3>1, ReportsOutcome
    <2>2. CASE UNCHANGED <<export, notices>>
      BY <2>2
    <2>3. Reporting \/ UNCHANGED <<export, notices>>
      BY <1>1 DEF Next, Calendar, Attending, Setting, Moving, Filing, Signing, reportsVars, vars
    <2> QED
      BY <2>1, <2>2, <2>3
  <1>2. [OutcomeStep]_<<export, notices>> => [\A r \in Exports :
          /\ export[r].status = "COMPLETED" /\ export'[r].status # "COMPLETED" =>
                 export'[r].status = "FAILED" /\ job[r].at = "fail" /\ LastAttempt(r)
          /\ notices'[r] # notices[r] /\ notices[r] # [ready |-> 0, failed |-> 0] =>
                 \/ job[r].stalls > 0
                 \/ export[r].status = "FAILED" /\ notices'[r].failed = 1
      ]_<<export, notices>>
    BY DEF OutcomeOf
  <1> QED
    BY <1>1, <1>2, Invariance, PTL DEF Spec, OutcomeIsKept
=============================================================================
