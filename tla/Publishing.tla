----------------------------- MODULE Publishing -----------------------------
(***************************************************************************)
(* One assignment from draft to published: the handlers update, publish,   *)
(* createChangeRequest and reviewChangeRequest of AssignmentsService, the  *)
(* course memberships that publish turns into rows (CoursesService), and   *)
(* the reminder jobs it leaves behind (AssignmentReminderProcessor).       *)
(*                                                                         *)
(* As in Submissions, a handler is a chain of awaited database accesses; a *)
(* call in flight is a record whose field "at" names the next one.  Only   *)
(* publish and the approval of a change request write in a transaction.    *)
(***************************************************************************)
EXTENDS Integers

CONSTANTS
    Scholars,       \* users who may be members of a course
    Joiners,        \* those of them who may be added while the model runs
    Courses,
    Contents,       \* values of the editable fields, the due date included
    Requests,       \* change requests that may be made
    ReminderTypes,  \* "24h" and "1h"
    Windows,        \* values of assignment_edit_window_minutes
    Calls,          \* how many requests may be in flight at once
    Attempts,       \* attempts of a job of the assignments queue
    MaxTime,        \* bound on the clock
    MaxCrashes      \* bound on the requests that end half-way

ASSUME JoinersAssumption == Joiners \subseteq Scholars
ASSUME WindowsAssumption == Windows \subseteq Nat \ {0}
ASSUME PublishingBounds ==
    MaxTime \in Nat /\ MaxCrashes \in Nat /\ Attempts \in Nat \ {0}

VARIABLES
    now,          \* the server's clock
    status,       \* Assignment.status
    content,      \* title, description, due_at and max_score, as one value
    course,       \* Assignment.course_id
    windowEnd,    \* Assignment.edit_window_expires_at
    members,      \* members of each course (course_memberships)
    row,          \* the scholar_assignments of the assignment
    request,      \* its assignment_change_requests
    call,         \* the requests in flight
    reminder,     \* the reminder job of each scholar and type
    reminded,     \* the reminders created
    crashes       \* requests that ended half-way so far

assignment == <<status, content, course, windowEnd>>
rows == <<members, row>>
jobs == <<reminder, reminded>>
vars == <<now, status, content, course, windowEnd, members, row, request,
          call, reminder, reminded, crashes>>

Times == 0 .. MaxTime
NoWindow == -1
Keys == Scholars \X ReminderTypes

\* The statuses of a row as the handlers here tell them apart: OVERDUE stands
\* for RESUBMISSION_REQUIRED too, VERIFIED for VERIFIED_LATE, NOT_STARTED for
\* IN_PROGRESS (which nothing sets).
RowStatus == {"NOT_STARTED", "PENDING_VERIFICATION", "VERIFIED", "OVERDUE"}
NoRow == "none"
ActiveStatus == {"NOT_STARTED", "PENDING_VERIFICATION"}
CompletedOrSubmitted == {"PENDING_VERIFICATION", "VERIFIED"}

\* A change request: its status and the value it asks for.
NoRequest == [status |-> "none"]
ChangeRequest(st, x) == [status |-> st, value |-> x]

\* A request in flight: its next step, with what it carries from its input and
\* from its reads.  An update remembers when it was admitted.
Idle == [at |-> "idle"]
InFlight ==
    [at : {"writeUpdate"}, content : Contents, course : Courses, since : Times]
      \union [at : {"readMembers"}, course : Courses]
      \union [at : {"writePublish"}, found : SUBSET Scholars]
      \union [at : {"queueReminders"}, todo : SUBSET Keys]
      \union [at : {"createRequest"}, request : Requests, content : Contents]
      \union [at : {"approve", "reject"}, request : Requests]
      \union [at : {"removeMember"}, course : Courses, member : Scholars]
Goes(c, next) == call' = [call EXCEPT ![c] = next]

\* A reminder job: where it is in the queue or the worker, and its attempt.
Job(at, attempt) == [at |-> at, attempt |-> attempt]
NoJob == Job("none", 0)

TypeOK ==
    /\ now \in Times
    /\ status \in {"DRAFT", "PUBLISHED"}
    /\ content \in Contents
    /\ course \in Courses
    /\ windowEnd \in Nat \union {NoWindow}
    /\ members \in [Courses -> SUBSET Scholars]
    /\ row \in [Scholars -> RowStatus \union {NoRow}]
    /\ request \in [Requests -> {NoRequest}
           \union [status : {"PENDING", "APPROVED", "REJECTED"}, value : Contents]]
    /\ call \in [Calls -> InFlight \union {Idle}]
    /\ reminder \in [Keys -> [at : {"none", "waiting", "notify", "failed"},
                              attempt : 0 .. Attempts]]
    /\ reminded \subseteq Keys
    /\ crashes \in 0 .. MaxCrashes

\* AssignmentsService.create leaves a draft of some course of the organisation.
Init ==
    /\ now = 0
    /\ status = "DRAFT"
    /\ content \in Contents
    /\ course \in Courses
    /\ windowEnd = NoWindow
    /\ members \in [Courses -> SUBSET Scholars]
    /\ row = [s \in Scholars |-> NoRow]
    /\ request = [r \in Requests |-> NoRequest]
    /\ call = [c \in Calls |-> Idle]
    /\ reminder = [k \in Keys |-> NoJob]
    /\ reminded = {}
    /\ crashes = 0

-----------------------------------------------------------------------------
(* AssignmentsService.update.                                              *)

\* Mutant of UpdateRead: the window is taken as closed one tick late.
UpdateReadLate(c, x, k) ==
    /\ call[c] = Idle
    /\ status = "PUBLISHED" => now <= windowEnd
    /\ Goes(c, [at |-> "writeUpdate", content |-> x, course |-> k, since |-> now])
    /\ UNCHANGED <<now, assignment, rows, request, jobs, crashes>>

\* Admits the edit of a draft, or of a published assignment within its window.
UpdateRead(c, x, k) ==
    /\ call[c] = Idle
    /\ status = "PUBLISHED" => now < windowEnd
    /\ Goes(c, [at |-> "writeUpdate", content |-> x, course |-> k, since |-> now])
    /\ UNCHANGED <<now, assignment, rows, request, jobs, crashes>>

\* Writes by id; the rows of a published assignment do not follow its course.
UpdateWrite(c) ==
    /\ call[c].at = "writeUpdate"
    /\ content' = call[c].content
    /\ course' = call[c].course
    /\ Goes(c, Idle)
    /\ UNCHANGED <<now, status, windowEnd, rows, request, jobs, crashes>>

-----------------------------------------------------------------------------
(* AssignmentsService.publish.                                             *)

PublishRead(c) ==
    /\ call[c] = Idle
    /\ status = "DRAFT"
    /\ Goes(c, [at |-> "readMembers", course |-> course])
    /\ UNCHANGED <<now, assignment, rows, request, jobs, crashes>>

\* Mutant of PublishReadMembers: queues the reminders before the transaction.
PublishReadAndQueue(c) ==
    /\ call[c].at = "readMembers"
    /\ LET found == members[call[c].course]
       IN  /\ Goes(c, [at |-> "writePublish", found |-> found])
           /\ reminder' = [k \in Keys |->
                 IF k[1] \in found /\ reminder[k] = NoJob THEN Job("waiting", 1) ELSE reminder[k]]
    /\ UNCHANGED <<now, assignment, rows, request, reminded, crashes>>

\* Reads the settings, then the members of the course read before.
PublishReadMembers(c) ==
    /\ call[c].at = "readMembers"
    /\ Goes(c, [at |-> "writePublish", found |-> members[call[c].course]])
    /\ UNCHANGED <<now, assignment, rows, request, jobs, crashes>>

\* Mutant of PublishWrite: an upsert that starts every row over.
PublishWriteUpsert(c) ==
    /\ call[c].at = "writePublish"
    /\ status' = "PUBLISHED"
    /\ \E w \in Windows : windowEnd' = now + w
    /\ row' = [s \in Scholars |-> IF s \in call[c].found THEN "NOT_STARTED" ELSE row[s]]
    /\ Goes(c, [at |-> "queueReminders", todo |-> call[c].found \X ReminderTypes])
    /\ UNCHANGED <<now, content, course, members, request, jobs, crashes>>

\* Mutant of PublishWrite: the rows are left to whoever is reminded first.
PublishWriteAlone(c) ==
    /\ call[c].at = "writePublish"
    /\ status' = "PUBLISHED"
    /\ \E w \in Windows : windowEnd' = now + w
    /\ Goes(c, [at |-> "queueReminders", todo |-> call[c].found \X ReminderTypes])
    /\ UNCHANGED <<now, content, course, rows, request, jobs, crashes>>

\* The transaction: publishes, opens the edit window and creates the missing
\* rows (createMany with skipDuplicates).  The status is not read again.
PublishWrite(c) ==
    /\ call[c].at = "writePublish"
    /\ status' = "PUBLISHED"
    /\ \E w \in Windows : windowEnd' = now + w
    /\ row' = [s \in Scholars |->
                 IF s \in call[c].found /\ row[s] = NoRow THEN "NOT_STARTED" ELSE row[s]]
    /\ Goes(c, [at |-> "queueReminders", todo |-> call[c].found \X ReminderTypes])
    /\ UNCHANGED <<now, content, course, members, request, jobs, crashes>>

\* Mutant of PublishQueue: the job id does not name the scholar.
PublishQueueByType(c, k) ==
    /\ call[c].at = "queueReminders"
    /\ k \in call[c].todo
    /\ reminder' = [reminder EXCEPT
           ![k] = IF \A j \in Keys : j[2] = k[2] => reminder[j] = NoJob THEN Job("waiting", 1) ELSE @]
    /\ Goes(c, [at |-> "queueReminders", todo |-> call[c].todo \ {k}])
    /\ UNCHANGED <<now, assignment, rows, request, reminded, crashes>>

\* After the commit, one delayed job per member and type; a job id that is in
\* use (waiting, running or failed) makes the add a no-op.
PublishQueue(c, k) ==
    /\ call[c].at = "queueReminders"
    /\ k \in call[c].todo
    /\ reminder' = [reminder EXCEPT ![k] = IF @ = NoJob THEN Job("waiting", 1) ELSE @]
    /\ Goes(c, [at |-> "queueReminders", todo |-> call[c].todo \ {k}])
    /\ UNCHANGED <<now, assignment, rows, request, reminded, crashes>>

\* The e-mails and the audit entry that are left write nothing modelled here.
PublishDone(c) ==
    /\ call[c].at = "queueReminders"
    /\ call[c].todo = {}
    /\ Goes(c, Idle)
    /\ UNCHANGED <<now, assignment, rows, request, jobs, crashes>>

-----------------------------------------------------------------------------
(* AssignmentsService.createChangeRequest and reviewChangeRequest.         *)

\* Accepted only when there is a window and it is over.  r is the id the row
\* will get; the pool Requests bounds how many may be made.
ChangeRequestRead(c, r, x) ==
    /\ call[c] = Idle
    /\ request[r] = NoRequest
    /\ \A d \in Calls : call[d].at = "createRequest" => call[d].request # r
    /\ windowEnd # NoWindow
    /\ now >= windowEnd
    /\ Goes(c, [at |-> "createRequest", request |-> r, content |-> x])
    /\ UNCHANGED <<now, assignment, rows, request, jobs, crashes>>

ChangeRequestCreate(c) ==
    /\ call[c].at = "createRequest"
    /\ request' = [request EXCEPT
           ![call[c].request] = ChangeRequest("PENDING", call[c].content)]
    /\ Goes(c, Idle)
    /\ UNCHANGED <<now, assignment, rows, jobs, crashes>>

\* Refuses a request that is not pending any more.
ReviewRead(c, r, next) ==
    /\ call[c] = Idle
    /\ request[r].status = "PENDING"
    /\ Goes(c, [at |-> next, request |-> r])
    /\ UNCHANGED <<now, assignment, rows, request, jobs, crashes>>

\* Mutant of ApproveWrite: the change is left to a write of its own.
ApproveWriteAlone(c) ==
    /\ call[c].at = "approve"
    /\ LET r == call[c].request
       IN  request' = [request EXCEPT ![r] = ChangeRequest("APPROVED", @.value)]
    /\ Goes(c, Idle)
    /\ UNCHANGED <<now, assignment, rows, jobs, crashes>>

\* The transaction: applies the value and records the approval.
ApproveWrite(c) ==
    /\ call[c].at = "approve"
    /\ LET r == call[c].request
       IN  /\ content' = request[r].value
           /\ request' = [request EXCEPT ![r] = ChangeRequest("APPROVED", @.value)]
    /\ Goes(c, Idle)
    /\ UNCHANGED <<now, status, course, windowEnd, rows, jobs, crashes>>

\* Records the rejection, whatever another reviewer decided meanwhile.
RejectWrite(c) ==
    /\ call[c].at = "reject"
    /\ LET r == call[c].request
       IN  request' = [request EXCEPT ![r] = ChangeRequest("REJECTED", @.value)]
    /\ Goes(c, Idle)
    /\ UNCHANGED <<now, assignment, rows, jobs, crashes>>

-----------------------------------------------------------------------------
(* CoursesService.addCourseMember and removeCourseMember.                  *)

\* An upsert: adding a member twice changes nothing.
AddMember(k, s) ==
    /\ members' = [members EXCEPT ![k] = @ \union {s}]
    /\ UNCHANGED <<now, assignment, row, request, call, jobs, crashes>>

\* Refuses to remove a scholar with an active row in this course.
RemoveRead(c, k, s) ==
    /\ call[c] = Idle
    /\ ~(course = k /\ row[s] \in ActiveStatus)
    /\ Goes(c, [at |-> "removeMember", course |-> k, member |-> s])
    /\ UNCHANGED <<now, assignment, rows, request, jobs, crashes>>

RemoveWrite(c) ==
    /\ call[c].at = "removeMember"
    /\ members' = [members EXCEPT ![call[c].course] = @ \ {call[c].member}]
    /\ Goes(c, Idle)
    /\ UNCHANGED <<now, assignment, row, request, jobs, crashes>>

\* Any await of a call may reject, or the process stop: what it wrote stays.
Crash(c) ==
    /\ call[c] # Idle
    /\ crashes < MaxCrashes
    /\ crashes' = crashes + 1
    /\ Goes(c, Idle)
    /\ UNCHANGED <<now, assignment, rows, request, jobs>>

-----------------------------------------------------------------------------
(* AssignmentReminderProcessor.handleReminder.                             *)

\* Re-validates the row: a job of a row that is done with, or of an assignment
\* that is not published, completes without a word.
ReminderRead(k) ==
    /\ reminder[k].at = "waiting"
    /\ reminder' = [reminder EXCEPT ![k] =
           IF status # "PUBLISHED" \/ row[k[1]] \in CompletedOrSubmitted \union {NoRow}
           THEN NoJob ELSE Job("notify", @.attempt)]
    /\ UNCHANGED <<now, assignment, rows, request, call, reminded, crashes>>

\* NotificationsService.create, then the job completes and its id is free again.
ReminderNotify(k) ==
    /\ reminder[k].at = "notify"
    /\ reminded' = reminded \union {k}
    /\ reminder' = [reminder EXCEPT ![k] = NoJob]
    /\ UNCHANGED <<now, assignment, rows, request, call, crashes>>

\* Mutant of ReminderFails: one attempt too many.
ReminderFailsOnceMore(k) ==
    /\ reminder[k].at \in {"waiting", "notify"}
    /\ reminder' = [reminder EXCEPT ![k] =
           IF @.attempt <= Attempts THEN Job("waiting", @.attempt + 1)
           ELSE Job("failed", @.attempt)]
    /\ UNCHANGED <<now, assignment, rows, request, call, reminded, crashes>>

\* The handler rethrows, before or after the notification was created; Bull
\* retries until the attempts are used up and then keeps the failed job.
ReminderFails(k) ==
    /\ reminder[k].at \in {"waiting", "notify"}
    /\ reminder' = [reminder EXCEPT ![k] =
           IF @.attempt < Attempts THEN Job("waiting", @.attempt + 1)
           ELSE Job("failed", @.attempt)]
    /\ reminded' \in {reminded, IF reminder[k].at = "notify" THEN reminded \union {k} ELSE reminded}
    /\ UNCHANGED <<now, assignment, rows, request, call, crashes>>

-----------------------------------------------------------------------------
(* What happens around them.                                               *)

Tick ==
    /\ now < MaxTime
    /\ now' = now + 1
    /\ UNCHANGED <<assignment, rows, request, call, jobs, crashes>>

\* Submissions moves a row from any status to any status but the first.
RowMoves(s, to) ==
    /\ row[s] # NoRow
    /\ row' = [row EXCEPT ![s] = to]
    /\ UNCHANGED <<now, assignment, members, request, call, jobs, crashes>>

-----------------------------------------------------------------------------
Arrive(c) ==
    \/ \E x \in Contents, k \in Courses : UpdateRead(c, x, k)
    \/ PublishRead(c)
    \/ \E r \in Requests, x \in Contents : ChangeRequestRead(c, r, x)
    \/ \E r \in Requests, next \in {"approve", "reject"} : ReviewRead(c, r, next)
    \/ \E k \in Courses, s \in Scholars : RemoveRead(c, k, s)

Proceed(c) ==
    \/ UpdateWrite(c)
    \/ PublishReadMembers(c) \/ PublishWrite(c) \/ PublishDone(c)
    \/ \E k \in Keys : PublishQueue(c, k)
    \/ ChangeRequestCreate(c) \/ ApproveWrite(c) \/ RejectWrite(c)
    \/ RemoveWrite(c)

Remind(k) == ReminderRead(k) \/ ReminderNotify(k)

Next ==
    \/ \E c \in Calls : Arrive(c) \/ Proceed(c) \/ Crash(c)
    \/ \E k \in Keys : Remind(k) \/ ReminderFails(k)
    \/ \E k \in Courses, s \in Joiners : AddMember(k, s)
    \/ Tick
    \/ \E s \in Scholars, to \in RowStatus \ {"NOT_STARTED"} : RowMoves(s, to)

\* The event loop resumes every call whose await has settled, and the worker
\* takes every job whose delay is over.
Fairness ==
    /\ \A c \in Calls : WF_vars(Proceed(c))
    /\ \A k \in Keys : WF_vars(Remind(k))

Spec == Init /\ [][Next]_vars
FairSpec == Spec /\ Fairness

-----------------------------------------------------------------------------
(* Properties.                                                             *)

\* A row that a scholar or a verifier has touched is never started over, even
\* when two publishes of the draft are in flight and the second commits after
\* the scholar has handed in (publish, skipDuplicates).
RowsNeverRestart ==
    [][\A s \in Scholars :
          row[s] \notin {NoRow, "NOT_STARTED"} => row'[s] \notin {NoRow, "NOT_STARTED"}]_vars

\* Publishing misses nobody: a scholar who was enrolled from the start and still
\* is has a row as soon as the assignment is published.  Scholars who may join
\* later are left out, and so is a move to another course (publish, update).
MembersHaveRows ==
    status = "PUBLISHED" => \A s \in members[course] \ Joiners : row[s] # NoRow

\* A reminder is only ever queued or sent for a published assignment and a
\* scholar with a row, whatever the publish calls in flight (publish queues
\* after its transaction).
RemindersFollowRows ==
    \A k \in Keys :
        reminder[k] # NoJob \/ k \in reminded => status = "PUBLISHED" /\ row[k[1]] # NoRow

\* The edit lock: an update that is still to be written was admitted before the
\* window closed, also when the assignment was published after it was admitted
\* or was published twice (update).
AdmittedBeforeLock ==
    \A c \in Calls :
        call[c].at = "writeUpdate" /\ windowEnd # NoWindow => call[c].since < windowEnd

\* A request is marked approved only by the step that applies its change, so a
\* crash cannot separate the two (reviewChangeRequest, the transaction).
ApprovedIsApplied ==
    [][\A r \in Requests :
          request[r].status # "APPROVED" /\ request'[r].status = "APPROVED"
              => content' = request[r].value]_vars

\* A change is only ever requested of a published assignment, although drafts
\* have no edit window that could be over (createChangeRequest).
RequestsFollowPublication ==
    (\E r \in Requests : request[r] # NoRequest) => status = "PUBLISHED"

\* Unless a publish call ends half-way, a scholar who never touches the row is
\* reminded in the end, or the job has used up its attempts (publish,
\* handleReminder).
UntouchedRowIsReminded ==
    \A k \in Keys :
        row[k[1]] = "NOT_STARTED"
            ~> (k \in reminded \/ row[k[1]] # "NOT_STARTED" \/ reminder[k].at = "failed")

\* "Change request has already been reviewed": what reviewChangeRequest answers
\* to a second review.  It does not hold: both reviewers may have read PENDING.
ReviewIsFinal ==
    [][\A r \in Requests :
          request[r].status \in {"APPROVED", "REJECTED"} => request'[r] = request[r]]_vars
=============================================================================
