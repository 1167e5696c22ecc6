-------------------------------- MODULE Reports --------------------------------
(***************************************************************************)
(* ReportsService and ReportGeneratorProcessor: a large report is a row    *)
(* and a job of the reports queue; the worker puts the file into the       *)
(* bucket, marks the row and tells the requester.                          *)
(*                                                                         *)
(* Bull runs a job until its handler returns, at most Attempts times when  *)
(* the handler throws, and MaxStalls times more when the process dies      *)
(* under it.  It looks the handler up by the name of the job.              *)
(***************************************************************************)
EXTENDS Storage

CONSTANTS
    Exports,     \* the rows of report_exports
    Requests,    \* the bodies of POST /reports: a type and its filters
    SyncLimit,   \* below this many rows the answer is the report
    Attempts,    \* attempts of a job
    MaxStalls    \* Bull's maxStalledCount

ASSUME QueueAssumption == Attempts \in Nat \ {0} /\ MaxStalls \in Nat

VARIABLES
    export,      \* the rows
    job,         \* the jobs of the reports queue
    notices,     \* the notices created for the requester, per report and kind
    handlers,    \* the names under which the worker registered its handler
    untold       \* history: reports whose last attempt failed outside its failure path,
                 \* or in it

reportsVars == <<export, job, notices, handlers, untold>>

\* @Process() without a name.
Unnamed == "__default__"
Generate == "generate"

Export(status, keyed, expired) == [status |-> status, keyed |-> keyed, expired |-> expired]
NoExport == Export(None, FALSE, FALSE)
FileOf(r) == r   \* reports/{organisation}/{id}.csv

Job(at, made, stalls) == [at |-> at, made |-> made, stalls |-> stalls]
NoJob == Job(None, 0, 0)
Generating == {"claim", "put", "complete", "audit", "ready", "mail"}
Failing == {"failAudit", "fail", "tellFailed"}
Final == {"completed", "failed"}
Settled == {"COMPLETED", "FAILED"}

ReportCalls == [at : {"reportAudit", "reportQueue"}, export : Exports]

ReportsTypeOK ==
    /\ export \in [Exports ->
           [status : {"PENDING", "PROCESSING"} \union Settled,
            keyed : BOOLEAN, expired : BOOLEAN] \union {NoExport}]
    /\ job \in [Exports ->
           [at : {"waiting", "returned", "threw"} \union Generating \union Failing \union Final,
            made : 0 .. Attempts, stalls : 0 .. MaxStalls + 1] \union {NoJob}]
    /\ notices \in [Exports -> [ready : Nat, failed : Nat]]
    /\ handlers \in {{Unnamed}, {Generate}}
    /\ untold \subseteq Exports

\* What the worker registers is Unnamed; Generate is the handler as the code's own
\* test calls it.
ReportsInit ==
    /\ export = [r \in Exports |-> NoExport]
    /\ job = [r \in Exports |-> NoJob]
    /\ notices = [r \in Exports |-> [ready |-> 0, failed |-> 0]]
    /\ handlers \in {{Unnamed}, {Generate}}
    /\ untold = {}
-----------------------------------------------------------------------------
(* ReportsService.                                                         *)

\* fetchReportRows and its filters; the ranges of dates are left out.
In(k, q) == q.course \in {None, k}
Holds(status, q) == q.status \in {None, status}
ReportRows(q) ==
    CASE q.type = "scholars" ->
           {s \in Scholars \ archived : q.course = None \/ <<q.course, s>> \in members}
      [] q.type = "attendance" ->
           {x \in Meetings \X Users : record[x] # None
               /\ In(meeting[x[1]].course, q) /\ Holds(record[x], q)}
      [] q.type = "assignments" ->
           {x \in Assignments \X Users : row[x] # None
               /\ In(courseOf[x[1]], q) /\ Holds(row[x], q)}
      [] q.type = "meetings" ->
           {m \in Meetings : Exists(m) /\ ~meeting[m].archived /\ In(meeting[m].course, q)}

\* A small report is answered at once and leaves nothing behind; a large one becomes
\* a row.  The rows are only counted here: the worker fetches them again.
RequestReport(c, r, q) ==
    /\ call[c] = Idle
    /\ export[r] = NoExport
    /\ Cardinality(ReportRows(q)) >= SyncLimit
    /\ export' = [export EXCEPT ![r] = Export("PENDING", FALSE, FALSE)]
    /\ Goes(c, [at |-> "reportAudit", export |-> r])
    /\ UNCHANGED <<tables, storageVars, job, notices, handlers, untold>>
ReportAudits(c) ==
    /\ call[c].at = "reportAudit"
    /\ Steps(c, "reportQueue")
    /\ UNCHANGED <<tables, storageVars, reportsVars>>
ReportQueues(c) ==
    /\ call[c].at = "reportQueue"
    /\ job' = [job EXCEPT ![call[c].export] = Job("waiting", 0, 0)]
    /\ Goes(c, Idle)
    /\ UNCHANGED <<tables, storageVars, export, notices, handlers, untold>>
ReportCallFails(c) ==
    /\ call[c] \in ReportCalls
    /\ Goes(c, Idle)
    /\ UNCHANGED <<tables, storageVars, reportsVars>>

\* download: the link of a report that is ready and has not expired.
Downloadable(r) ==
    export[r].status = "COMPLETED" /\ export[r].keyed /\ ~export[r].expired /\ configured
ExportExpires(r) ==
    /\ export[r].keyed /\ ~export[r].expired
    /\ export' = [export EXCEPT ![r].expired = TRUE]
    /\ UNCHANGED <<tables, call, storageVars, job, notices, handlers, untold>>
-----------------------------------------------------------------------------
(* ReportGeneratorProcessor.handleReport.                                  *)

JobAt(r, at) == job' = [job EXCEPT ![r].at = at]
Marked(r, e) == export' = [export EXCEPT ![r] = e]
Told(r, kind) == notices' = [notices EXCEPT ![r][kind] = @ + 1]
LastAttempt(r) == job[r].made + 1 >= Attempts

\* Nobody takes the job: Bull fails the attempt.
NoHandler(r) ==
    /\ job[r].at = "waiting"
    /\ Generate \notin handlers
    /\ JobAt(r, "threw")
    /\ UNCHANGED <<export, notices, untold, storageVars>>

\* Mutant of CheckReport: a retry starts over.
CheckNoReport(r) ==
    /\ job[r].at = "waiting"
    /\ Generate \in handlers
    /\ JobAt(r, "claim")
    /\ UNCHANGED <<export, notices, untold, storageVars>>

\* A report that is COMPLETED is not generated again.
CheckReport(r) ==
    /\ job[r].at = "waiting"
    /\ Generate \in handlers
    /\ JobAt(r, IF export[r].status = "COMPLETED" THEN "returned" ELSE "claim")
    /\ UNCHANGED <<export, notices, untold, storageVars>>

ClaimReport(r) ==
    /\ job[r].at = "claim"
    /\ Marked(r, Export("PROCESSING", export[r].keyed, export[r].expired))
    /\ JobAt(r, "put")
    /\ UNCHANGED <<notices, untold, storageVars>>

\* Mutant of PutReport: the row is marked first.
PutReportLater(r) ==
    /\ job[r].at = "put"
    /\ Marked(r, Export("COMPLETED", TRUE, FALSE))
    /\ JobAt(r, "complete")
    /\ UNCHANGED <<notices, untold, storageVars>>

\* The rows are fetched and encoded, and the file is stored.
PutReport(r) ==
    /\ job[r].at = "put"
    /\ PutObject(FileOf(r))
    /\ JobAt(r, "complete")
    /\ UNCHANGED <<export, notices, untold>>

CompleteReport(r) ==
    /\ job[r].at = "complete"
    /\ Marked(r, Export("COMPLETED", TRUE, FALSE))
    /\ JobAt(r, "audit")
    /\ UNCHANGED <<notices, untold, storageVars>>

AuditReport(r) ==
    /\ job[r].at = "audit"
    /\ JobAt(r, "ready")
    /\ UNCHANGED <<export, notices, untold, storageVars>>

\* notifyReady: the notice, and then the mail about it.
TellReady(r) ==
    /\ job[r].at = "ready"
    /\ Told(r, "ready")
    /\ JobAt(r, "mail")
    /\ UNCHANGED <<export, untold, storageVars>>
MailReady(r) ==
    /\ job[r].at = "mail"
    /\ JobAt(r, "returned")
    /\ UNCHANGED <<export, notices, untold, storageVars>>

\* Mutant of AuditFailure: the attempt under way is not counted.
AuditFailureOfEarlier(r) ==
    /\ job[r].at = "failAudit"
    /\ JobAt(r, IF job[r].made >= Attempts THEN "fail" ELSE "threw")
    /\ UNCHANGED <<export, notices, untold, storageVars>>

\* The failure path: the audit entry, and on the last attempt the row and the notice.
AuditFailure(r) ==
    /\ job[r].at = "failAudit"
    /\ JobAt(r, IF LastAttempt(r) THEN "fail" ELSE "threw")
    /\ UNCHANGED <<export, notices, untold, storageVars>>
FailReport(r) ==
    /\ job[r].at = "fail"
    /\ Marked(r, Export("FAILED", export[r].keyed, export[r].expired))
    /\ JobAt(r, "tellFailed")
    /\ UNCHANGED <<notices, untold, storageVars>>
TellFailed(r) ==
    /\ job[r].at = "tellFailed"
    /\ Told(r, "failed")
    /\ JobAt(r, "threw")
    /\ UNCHANGED <<export, untold, storageVars>>

\* An await rejects.  The check and the claim stand outside the try block; what
\* follows them leads to the failure path, whose own failures lead nowhere.
StepThrows(r) ==
    /\ \/ job[r].at = "waiting" /\ Generate \in handlers
       \/ job[r].at \in Generating \union Failing
    /\ LET caught == job[r].at \in Generating \ {"claim"}
       IN  /\ JobAt(r, IF caught THEN "failAudit" ELSE "threw")
           /\ untold' = IF LastAttempt(r) /\ ~caught THEN untold \union {r} ELSE untold
    /\ UNCHANGED <<export, notices, storageVars>>

\* Bull: the job is over, or tried again, or taken up by another process.
JobReturns(r) ==
    /\ job[r].at = "returned"
    /\ JobAt(r, "completed")
    /\ UNCHANGED <<export, notices, untold, storageVars>>
JobThrew(r) ==
    /\ job[r].at = "threw"
    /\ job' = [job EXCEPT ![r] =
           Job(IF LastAttempt(r) THEN "failed" ELSE "waiting", @.made + 1, @.stalls)]
    /\ UNCHANGED <<export, notices, untold, storageVars>>
JobStalls(r) ==
    /\ job[r].at \in Generating \union Failing \union {"returned", "threw"}
    /\ job' = [job EXCEPT ![r] =
           Job(IF job[r].stalls < MaxStalls THEN "waiting" ELSE "failed", @.made, @.stalls + 1)]
    /\ UNCHANGED <<export, notices, untold, storageVars>>

HandleReport(r) ==
    /\ \/ NoHandler(r) \/ CheckReport(r) \/ ClaimReport(r) \/ PutReport(r)
       \/ CompleteReport(r) \/ AuditReport(r) \/ TellReady(r) \/ MailReady(r)
       \/ AuditFailure(r) \/ FailReport(r) \/ TellFailed(r)
       \/ StepThrows(r) \/ JobReturns(r) \/ JobThrew(r) \/ JobStalls(r)
    /\ UNCHANGED <<tables, call, handlers>>

ReportsNext ==
    \/ \E c \in Calls, r \in Exports, q \in Requests : RequestReport(c, r, q)
    \/ \E c \in Calls : ReportAudits(c) \/ ReportQueues(c) \/ ReportCallFails(c)
    \/ \E r \in Exports : ExportExpires(r) \/ HandleReport(r)
-----------------------------------------------------------------------------
(* Properties.                                                             *)

\* Once COMPLETED, a report is only ever marked FAILED, by a last attempt that could not
\* tell the requester, and the requester hears of it again only if the worker died
\* (handleReport, "a COMPLETED report must never be regenerated").
OutcomeIsKept ==
    [][\A r \in Exports :
          /\ export[r].status = "COMPLETED" /\ export'[r].status # "COMPLETED" =>
                 export'[r].status = "FAILED" /\ job[r].at = "fail" /\ LastAttempt(r)
          /\ notices'[r] # notices[r] /\ notices[r] # [ready |-> 0, failed |-> 0] =>
                 \/ job[r].stalls > 0
                 \/ export[r].status = "FAILED" /\ notices'[r].failed = 1
      ]_<<export, notices>>

\* Why a job may end and leave its report as it is: nobody handles it, the worker died
\* once too often, or its last attempt failed where no failure is recorded.
Excused(r) ==
    /\ job[r].at = "failed"
    /\ handlers = {Unnamed} \/ job[r].stalls > MaxStalls \/ r \in untold

\* The job of a report ends, and the report with it: whoever polls sees COMPLETED or
\* FAILED in the end, unless nobody was left to write it (handleFailure).
ReportSettles ==
    \A r \in Exports :
        job[r].at = "waiting" ~>
            (job[r].at \in Final /\ export[r].status \in Settled) \/ Excused(r)

\* What a download offers is there: a COMPLETED report never points at a missing file
\* (handleReport, "upload to R2 BEFORE marking COMPLETED").
ReportsBacked == \A r \in Exports : Downloadable(r) => FileOf(r) \in bucket
=============================================================================
