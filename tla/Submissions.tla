----------------------------- MODULE Submissions -----------------------------
(***************************************************************************)
(* The rows of one published assignment (table scholar_assignments, one    *)
(* row per scholar) and everything that writes them: the handlers submit   *)
(* and verify of AssignmentsService and the hourly overdue check.          *)
(*                                                                         *)
(* Each handler is an async function: it reads, awaits, decides on what it *)
(* read and writes unconditionally by id.  No transaction or row version   *)
(* ties the read to the write, so any other handler may run at every       *)
(* await.  A call in flight is a record in call[c]; its field "at" names   *)
(* the next database access.                                               *)
(***************************************************************************)
EXTENDS Integers

CONSTANTS
    Scholars,   \* the scholars with a row
    Verifiers,  \* users with the permission assignments.verify; an enrolled
                \* SUPER_ADMIN is in both sets
    Nobody,     \* the null of a user column
    Calls,      \* how many requests may be in flight at once
    Penalties,  \* values of late_submission_penalty_percentage
    MaxTime,    \* bound on the clock
    Attempts,   \* attempts of a job of the assignments queue
    MaxFaults   \* bound on the failures of the overdue check

ASSUME NobodyAssumption == Nobody \notin Scholars \union Verifiers
ASSUME PenaltiesAssumption == Penalties \subseteq 0 .. 100 /\ Penalties # {}
ASSUME BoundsAssumption ==
    MaxTime \in Nat /\ Attempts \in Nat \ {0} /\ MaxFaults \in Nat

VARIABLES
    now,          \* the server's clock
    due,          \* due_at of the assignment
    penalty,      \* the organisation's late penalty
    status,       \* ScholarAssignment.status
    isLate,       \* ScholarAssignment.is_late; set together with marked_done_at
    earnedCredit, \* ScholarAssignment.earned_credit
    verifiedBy,   \* ScholarAssignment.verified_by
    call,         \* the requests in flight
    check,        \* the overdue check in flight
    warnings,     \* overdue notifications created, per scholar
    faults        \* failures of the check so far

rows == <<status, isLate, earnedCredit, verifiedBy>>
env == <<now, due, penalty>>
vars == <<now, due, penalty, status, isLate, earnedCredit, verifiedBy,
          call, check, warnings, faults>>

Times == 0 .. MaxTime

Open == {"NOT_STARTED", "IN_PROGRESS"}
Status == Open \union {"PENDING_VERIFICATION", "VERIFIED", "VERIFIED_LATE",
                       "RESUBMISSION_REQUIRED", "OVERDUE"}
Lateness == {"unset", "onTime", "late"}

NoCredit == -1
FullCredit == 100
LateCredit(p) == IF p > 100 THEN 0 ELSE 100 - p
LateCredits == {LateCredit(p) : p \in Penalties}

Steps == {"stampSubmission", "writeSubmission",
          "readPenalty", "writeVerdict", "writeResubmission"}
\* A request in flight: its next step, the row, the verifier, and what it has
\* read so far of the due date, the lateness and the penalty.
Request(at, s, v, d, late, p) ==
    [at |-> at, scholar |-> s, by |-> v, due |-> d, late |-> late, penalty |-> p]
Idle == Request("idle", Nobody, Nobody, 0, "unset", 0)
InFlight == [at : Steps, scholar : Scholars,
             by : Verifiers \union {Nobody}, due : Times, late : Lateness,
             penalty : Penalties \union {0}]

\* The overdue check: its next step, the candidates it still has to deal with,
\* and the attempt of the job.
Job(at, found, attempt) == [at |-> at, found |-> found, attempt |-> attempt]
NoCheck == Job("idle", {}, 0)

TypeOK ==
    /\ now \in Times
    /\ due \in Times
    /\ penalty \in Penalties
    /\ status \in [Scholars -> Status]
    /\ isLate \in [Scholars -> Lateness]
    /\ earnedCredit \in [Scholars -> 0 .. 100 \union {NoCredit}]
    /\ verifiedBy \in [Scholars -> Verifiers \union {Nobody}]
    /\ call \in [Calls -> InFlight \union {Idle}]
    /\ check \in [at : {"idle", "find", "mark", "notify"},
                  found : SUBSET Scholars, attempt : 0 .. Attempts]
    /\ warnings \in [Scholars -> Nat]
    /\ faults \in 0 .. MaxFaults

Init ==
    /\ now = 0
    /\ due \in Times
    /\ penalty \in Penalties
    /\ status = [s \in Scholars |-> "NOT_STARTED"]
    /\ isLate = [s \in Scholars |-> "unset"]
    /\ earnedCredit = [s \in Scholars |-> NoCredit]
    /\ verifiedBy = [s \in Scholars |-> Nobody]
    /\ call = [c \in Calls |-> Idle]
    /\ check = NoCheck
    /\ warnings = [s \in Scholars |-> 0]
    /\ faults = 0

-----------------------------------------------------------------------------
(* AssignmentsService.submit: the scholar marks the work done.             *)

\* Reads the assignment, and with it the due date the call will compare with.
SubmitReadAssignment(c, s) ==
    /\ call[c] = Idle
    /\ call' = [call EXCEPT
           ![c] = Request("stampSubmission", s, Nobody, due, "unset", 0)]
    /\ UNCHANGED <<env, rows, check, warnings, faults>>

\* Reads the row (only its id is used), then takes the server's time and
\* decides lateness against the due date read before.
SubmitStamp(c) ==
    /\ call[c].at = "stampSubmission"
    /\ call' = [call EXCEPT
           ![c] = Request("writeSubmission", @.scholar, Nobody, 0,
                          IF now > @.due THEN "late" ELSE "onTime", 0)]
    /\ UNCHANGED <<env, rows, check, warnings, faults>>

\* Updates the row by id, whatever its status is by now.  The mail to the mentor
\* and the audit entry that follow leave this component's state alone; the
\* mail is modelled in Delivery.
SubmitWrite(c) ==
    /\ call[c].at = "writeSubmission"
    /\ LET s == call[c].scholar
       IN  /\ status' = [status EXCEPT ![s] = "PENDING_VERIFICATION"]
           /\ isLate' = [isLate EXCEPT ![s] = call[c].late]
    /\ call' = [call EXCEPT ![c] = Idle]
    /\ UNCHANGED <<env, earnedCredit, verifiedBy, check, warnings, faults>>

-----------------------------------------------------------------------------
(* AssignmentsService.verify: a verdict, or a request to resubmit.         *)

\* Mutant of VerifyReadRow: self-verification is not refused.
VerifyReadOwnRow(c, v, s, next) ==
    /\ call[c] = Idle
    /\ call' = [call EXCEPT ![c] = Request(next, s, v, 0, isLate[s], 0)]
    /\ UNCHANGED <<env, rows, check, warnings, faults>>

\* Refuses a self-verification, then reads the row: its is_late decides the
\* verdict.  Its status is not looked at.
VerifyReadRow(c, v, s, next) ==
    /\ call[c] = Idle
    /\ v # s
    /\ call' = [call EXCEPT ![c] = Request(next, s, v, 0, isLate[s], 0)]
    /\ UNCHANGED <<env, rows, check, warnings, faults>>

\* OrganizationsService.getSettings, awaited between the read and the write.
VerifyReadPenalty(c) ==
    /\ call[c].at = "readPenalty"
    /\ call' = [call EXCEPT
           ![c] = Request("writeVerdict", @.scholar, @.by, 0, @.late, penalty)]
    /\ UNCHANGED <<env, rows, check, warnings, faults>>

\* Mutant of VerifyWrite: the status follows the row as it is now, the credit
\* the row as it was read.
VerifyWriteFresh(c) ==
    /\ call[c].at = "writeVerdict"
    /\ LET s == call[c].scholar
       IN  /\ status' = [status EXCEPT
                  ![s] = IF isLate[s] = "late" THEN "VERIFIED_LATE" ELSE "VERIFIED"]
           /\ earnedCredit' = [earnedCredit EXCEPT
                  ![s] = IF call[c].late = "late" THEN LateCredit(call[c].penalty)
                         ELSE FullCredit]
           /\ verifiedBy' = [verifiedBy EXCEPT ![s] = call[c].by]
    /\ call' = [call EXCEPT ![c] = Idle]
    /\ UNCHANGED <<env, isLate, check, warnings, faults>>

\* Status and credit both follow from the row as it was read.  The refresh job,
\* the audit entry and the push to the scholar that follow write no row.
VerifyWrite(c) ==
    /\ call[c].at = "writeVerdict"
    /\ LET s == call[c].scholar
           late == call[c].late = "late"
       IN  /\ status' = [status EXCEPT ![s] = IF late THEN "VERIFIED_LATE" ELSE "VERIFIED"]
           /\ earnedCredit' = [earnedCredit EXCEPT
                  ![s] = IF late THEN LateCredit(call[c].penalty) ELSE FullCredit]
           /\ verifiedBy' = [verifiedBy EXCEPT ![s] = call[c].by]
    /\ call' = [call EXCEPT ![c] = Idle]
    /\ UNCHANGED <<env, isLate, check, warnings, faults>>

\* Mutant of ResubmissionWrite: takes the submission back.
ResubmissionClears(c) ==
    /\ call[c].at = "writeResubmission"
    /\ status' = [status EXCEPT ![call[c].scholar] = "RESUBMISSION_REQUIRED"]
    /\ isLate' = [isLate EXCEPT ![call[c].scholar] = "unset"]
    /\ call' = [call EXCEPT ![c] = Idle]
    /\ UNCHANGED <<env, earnedCredit, verifiedBy, check, warnings, faults>>

\* Mutant of ResubmissionWrite: the row starts over.
ResubmissionReopens(c) ==
    /\ call[c].at = "writeResubmission"
    /\ status' = [status EXCEPT ![call[c].scholar] = "NOT_STARTED"]
    /\ call' = [call EXCEPT ![c] = Idle]
    /\ UNCHANGED <<env, isLate, earnedCredit, verifiedBy, check, warnings, faults>>

\* REQUEST_RESUBMISSION writes the status alone: the lateness, the credit and
\* the verifier of an earlier verdict stay.  A mail and an audit entry follow.
ResubmissionWrite(c) ==
    /\ call[c].at = "writeResubmission"
    /\ status' = [status EXCEPT ![call[c].scholar] = "RESUBMISSION_REQUIRED"]
    /\ call' = [call EXCEPT ![c] = Idle]
    /\ UNCHANGED <<env, isLate, earnedCredit, verifiedBy, check, warnings, faults>>

\* Any await may reject (database or Redis down, process stopped): the request
\* ends there and what it wrote stays.
CallFails(c) ==
    /\ call[c] # Idle
    /\ call' = [call EXCEPT ![c] = Idle]
    /\ UNCHANGED <<env, rows, check, warnings, faults>>

-----------------------------------------------------------------------------
(* OverdueAssignmentProcessor.handleOverdueCheck, a repeatable Bull job.   *)

\* The hourly rule, registered once under a fixed job id, starts a new job.  A
\* job and its retries take seconds, so one is over before the next begins.
CheckStart ==
    /\ check.at = "idle"
    /\ check' = Job("find", {}, 1)
    /\ UNCHANGED <<env, rows, call, warnings, faults>>

\* Mutant of CheckFind: the rows that are not due yet.
CheckFindUpcoming ==
    /\ check.at = "find"
    /\ LET found == {s \in Scholars : status[s] \in Open /\ now < due}
       IN  check' = Job(IF found = {} THEN "notify" ELSE "mark", found, check.attempt)
    /\ UNCHANGED <<env, rows, call, warnings, faults>>

\* Mutant of CheckFind: notifies before it marks.
CheckFindAndNotify ==
    /\ check.at = "find"
    /\ check' = Job("notify", {s \in Scholars : status[s] \in Open /\ due < now}, check.attempt)
    /\ UNCHANGED <<env, rows, call, warnings, faults>>

\* Finds the open rows whose due date has passed.
CheckFind ==
    /\ check.at = "find"
    /\ LET found == {s \in Scholars : status[s] \in Open /\ due < now}
       IN  check' = Job(IF found = {} THEN "notify" ELSE "mark", found, check.attempt)
    /\ UNCHANGED <<env, rows, call, warnings, faults>>

\* updateMany by id: the status that made a row a candidate is not re-checked.
CheckMark ==
    /\ check.at = "mark"
    /\ status' = [s \in Scholars |-> IF s \in check.found THEN "OVERDUE" ELSE status[s]]
    /\ check' = Job("notify", check.found, check.attempt)
    /\ UNCHANGED <<env, isLate, earnedCredit, verifiedBy, call, warnings, faults>>

\* One notification per candidate, in the order of the query.
CheckNotify(s) ==
    /\ check.at = "notify"
    /\ s \in check.found
    /\ warnings' = [warnings EXCEPT ![s] = @ + 1]
    /\ check' = Job("notify", check.found \ {s}, check.attempt)
    /\ UNCHANGED <<env, rows, call, faults>>

CheckDone ==
    /\ check.at = "notify"
    /\ check.found = {}
    /\ check' = NoCheck
    /\ UNCHANGED <<env, rows, call, warnings, faults>>

\* Mutant of CheckFails: one attempt too many.
CheckFailsOnceMore ==
    /\ check.at # "idle"
    /\ faults < MaxFaults
    /\ faults' = faults + 1
    /\ check' = Job("find", {}, check.attempt + 1)
    /\ UNCHANGED <<env, rows, call, warnings>>

\* The handler rethrows: Bull runs the job again from the start, until its
\* attempts are used up; the next hour brings a new job.
CheckFails ==
    /\ check.at # "idle"
    /\ faults < MaxFaults
    /\ faults' = faults + 1
    /\ check' = IF check.attempt < Attempts
                THEN Job("find", {}, check.attempt + 1)
                ELSE NoCheck
    /\ UNCHANGED <<env, rows, call, warnings>>

-----------------------------------------------------------------------------
(* What the other components change under the handlers' feet.              *)

Tick ==
    /\ now < MaxTime
    /\ now' = now + 1
    /\ UNCHANGED <<due, penalty, rows, call, check, warnings, faults>>

\* AssignmentsService.update within the edit window, or an approved change
\* request, moves the due date; neither touches the rows.
MoveDueDate(d) ==
    /\ due' = d
    /\ UNCHANGED <<now, penalty, rows, call, check, warnings, faults>>

\* OrganizationsService.updateSettings changes the penalty.
SetPenalty(p) ==
    /\ penalty' = p
    /\ UNCHANGED <<now, due, rows, call, check, warnings, faults>>

-----------------------------------------------------------------------------
CallStep(c) ==
    \/ \E s \in Scholars : SubmitReadAssignment(c, s)
    \/ SubmitStamp(c) \/ SubmitWrite(c)
    \/ \E v \in Verifiers, s \in Scholars, next \in {"readPenalty", "writeResubmission"} :
          VerifyReadRow(c, v, s, next)
    \/ VerifyReadPenalty(c) \/ VerifyWrite(c)
    \/ ResubmissionWrite(c)
    \/ CallFails(c)

CheckStep ==
    \/ CheckStart \/ CheckFind \/ CheckMark \/ CheckDone
    \/ \E s \in Scholars : CheckNotify(s)

Environment ==
    \/ Tick
    \/ \E d \in Times : MoveDueDate(d)
    \/ \E p \in Penalties : SetPenalty(p)

Next ==
    \/ \E c \in Calls : CallStep(c)
    \/ CheckStep
    \/ CheckFails
    \/ Environment

\* The queue worker keeps taking jobs: the check runs every hour and each of
\* its steps completes or fails.
Fairness == WF_vars(CheckStep)

Spec == Init /\ [][Next]_vars
FairSpec == Spec /\ Fairness

-----------------------------------------------------------------------------
(* Properties.                                                             *)

\* A verdict and its credit agree, although the lateness was read one await
\* and the penalty another await before they are written, and although the
\* other writers of the status leave the credit behind (verify).
VerdictPriced ==
    \A s \in Scholars :
        /\ status[s] = "VERIFIED" => earnedCredit[s] = FullCredit
        /\ status[s] = "VERIFIED_LATE" => earnedCredit[s] \in LateCredits

\* A late verdict stands only on a row that was handed in: no handler that ran
\* since the verifier read the row has taken the submission back (verify).
LateVerdictWasSubmitted ==
    \A s \in Scholars : status[s] = "VERIFIED_LATE" => isLate[s] # "unset"

\* A scholar who was told that the work is overdue has a row that is closed,
\* whatever was handed in or verified meanwhile and however often the check was
\* retried (handleOverdueCheck marks before it notifies).
WarnedRowsAreClosed ==
    \A s \in Scholars : warnings[s] > 0 => status[s] \notin Open

\* Retries and later checks do not repeat an overdue notification: "re-running
\* is a no-op" (handleOverdueCheck).
WarnedAtMostOnce == \A s \in Scholars : warnings[s] <= 1

\* Submissions implements the abstract gradebook.
Abstract == INSTANCE Gradebook WITH
    handedIn <- {s \in Scholars : isLate[s] # "unset"},
    warned <- {s \in Scholars : warnings[s] > 0}
ImplementsGradebook == Abstract!Spec

\* A row that is open after its due date is closed in the end, unless the due
\* date is moved: failures delay the hourly check and do not stop it.
PastDueIsMarked ==
    \A s \in Scholars :
        (status[s] \in Open /\ due < now) ~> (status[s] \notin Open \/ due >= now)

\* "Never flip VERIFIED/submitted rows": what the overdue check says of itself.
\* It does not hold: a row submitted after the candidates were read is flipped.
CheckSparesSubmitted ==
    [][\A s \in Scholars :
          status[s] \in {"PENDING_VERIFICATION", "VERIFIED", "VERIFIED_LATE"}
              => status'[s] # "OVERDUE"]_vars

\* "Set status: VERIFIED or VERIFIED_LATE (based on is_late)": what the plan says
\* of verify.  It does not hold: a submission may land after the row was read.
VerdictMatchesLateness ==
    \A s \in Scholars : status[s] = "VERIFIED" => isLate[s] # "late"
=============================================================================
