# TraqBE in TLA+

TraqBE is the backend of a scholarship programme: a NestJS service over
PostgreSQL (Prisma), Redis and Bull queues, with Resend for mail and Cloudflare
R2 for files. It runs as one process that answers requests, hosts the queue
workers and pushes to web sockets.

This directory holds TLA+ models of its core, the TLC configurations that check
them on small instances, and proofs, checked by TLAPS, that hold for every
instance. `PROJECT.json` maps each definition to the lines that it models.

## The system

Every handler is an async function: it reads the database, awaits, decides,
awaits again and writes, mostly by id and unconditionally. A few writes are
grouped in a `$transaction`; PostgreSQL runs them READ COMMITTED, and no query
locks a row or repeats in its `where` the condition that was checked. So the unit
of interleaving is the single awaited access (or the transaction), and between
two of them anything may happen: other requests, jobs, a failure of the access
itself, the end of the process. The models are built around that fact.

| Component | State | Operations | Where |
| --- | --- | --- | --- |
| Assignments: submissions | `scholar_assignments`: status, is_late, earned_credit, verified_by | submit, verify, the hourly overdue check | `Submissions`, `Gradebook` |
| Assignments: documents | `assignments`: status, content, course, edit window; change requests; reminder jobs | create, update, publish, request and review a change, remind | `Publishing` |
| Mentor pairing | `mentor_scholar_assignments` | create, reassign, end | `MentorPairing` |
| Notifications and mail | notifications, deliveries, jobs of the email queue | create, send | `Delivery` |
| Invitations, users, bulk import | invitations, users, roles, reminder jobs | invite, import, resend, revoke, register; update and archive a user | `Onboarding`, `Admission`; archiving in `Standing` |
| Auth | refresh tokens, codes and passwords | login, refresh, logout, forgotten password, verify code, reset; register | `Sessions`, registration in `Onboarding` |
| Meetings, attendance | meetings, attendance records | create, update, archive; record in bulk, correct | `Attendance` |
| Settings | key/value rows per organisation | read, update | weights in `Settings`, late penalty in `Submissions`, edit window in `Publishing` |
| Analytics | none of its own | rate, score, progress, at risk, rosters, dashboards, who may read them | `Standing` |
| Reports | `report_exports`, their files, the reports queue | request, generate, download | `Reports`, `Storage` |
| Resources | `resources`, files, upload URLs | upload, create, list, archive | `Library`, `Storage` |
| Courses | memberships | add and remove a member; create, update, archive | memberships in `Publishing`, `MentorPairing`, `Tables` |
| Programs | programs, their memberships | create, update, archive, join; progress | progress in `Standing` |
| Rate limiter, audit, health, guards, schema | a counter per address, rows of their own, or none | count, log, probe | not modelled, see the end |

How they meet: `publish` turns the memberships of a course into rows and queues
reminders; `submit` and `verify` move the rows; the overdue check and the
reminder worker read them; all of them call `NotificationsService.create` or
queue a plain mail; `verify` reads the settings. Four handlers and a queue make
invitations, two others write them by id, and registration turns them into users;
all of them share `scheduleReminders` and its jobs. Pairings and memberships
refer to each other without either looking after the other. Analytics, users,
programs, courses and reports each compute figures from the same records and rows with
queries of their own. Reports and resources share the bucket.

What is hard here:

- a check and a write with awaits between them (submit, verify, update, publish,
  review, create and reassign a pairing);
- a batch that was selected by a condition and is updated by id (overdue check);
- work split between a transaction and queue calls after it (publish, review);
- jobs that run again from the start after a failure (at most three attempts), or
  because the process died under them (Bull's stalled check);
- a provider that may accept a mail and lose the answer;
- a link that is checked, a password hashed for a while, and the invitation then
  marked by id, with resends and revocations in between;
- work on many records without a transaction, each record in five awaits
  (`recordBulk`), or on two keys that belong together (`updateSettings`);
- a worker whose failure path may fail itself, and whose last step comes after the
  outcome is written (reports);
- deletions that nobody waits for (resources), and tokens that are read, revoked and
  replaced in three steps (refresh) while a reset revokes all there are.

For each component, what makes it correct:

- *submissions*: a verdict and its credit agree; a late verdict needs a submission;
  nobody is warned twice, or about an open row; every row past its due date is
  closed in the end;
- *documents*: the edit lock holds; whatever is approved is applied; enrolled
  scholars get rows; rows never start over; reminders belong to rows and come;
- *pairings*: a replaced mentor is out; only an end leaves a scholar without;
  history stays;
- *mail*: a completed job was sent; SENT means accepted; copies are bounded by
  faults; no mail stays in the queue;
- *invitations*: whoever has an account came by a link of one invitation, to the
  own address, in its role, in time and once; no invitation is left without its
  link and reminders; a retried import does not invite twice;
- *attendance*: who is absent is told; no status without an audit entry;
- *settings*: the weights come back to a whole, within the tolerance of their check;
- *figures*: every view of a scholar agrees with the others; doing better never
  looks worse; nobody's view exceeds what he may read;
- *reports*: a report ends; its outcome is final; what is offered can be downloaded;
- *resources*: a file stays as long as something refers to it;
- *sessions*: a login is worth one session; a session does not outlive its password.

## The modules

### `Gradebook`: what a scholar may rely on

The abstract specification of one published assignment, without requests, clocks
or jobs: who may hand in, award, ask again, mark and warn, and under what
condition. A verdict carries the credit that belongs to it and is given by
somebody else; a late verdict needs a submission; a row once touched is never open
again; a scholar is warned at most once, about a row that is closed.

### `Submissions`: the rows of one assignment

State: the four columns of each row, the clock, the due date and the penalty
(which other components change at any time), the requests in flight, the overdue
check, and the history of warnings. One action per awaited access:

| Code | Actions |
| --- | --- |
| `submit` | `SubmitReadAssignment`, `SubmitStamp`, `SubmitWrite` |
| `verify` | `VerifyReadRow`, `VerifyReadPenalty`, `VerifyWrite` or `ResubmissionWrite` |
| `handleOverdueCheck` | `CheckStart`, `CheckFind`, `CheckMark`, `CheckNotify` per scholar, `CheckDone` |
| a rejected await | `CallFails`, `CheckFails` (with Bull's attempts) |
| the surroundings | `Tick`, `MoveDueDate`, `SetPenalty` |

A request carries what it has read: the due date, the lateness, the penalty. The
record of a finished request is reset, so that states differ only where behaviour
does. `Submissions` implements `Gradebook` under the mapping "handed in = is_late
is set, warned = a warning was created".

### `Publishing`: one assignment from draft to published

State: status, content (all the editable fields as one value), course and edit
window of the assignment, the memberships of each course, the rows as far as
publishing tells their statuses apart, the change requests, the reminder job of
each scholar and type, and the requests in flight. `publish` is five actions:
read, read the members, the transaction, one queue call per reminder in any
order, done; `Crash` ends a request between any two of them. `RowMoves` stands for
what `Submissions` does to a row. The reminder worker may take a job at any time,
since the delay was computed from a due date that may have moved.

### `MentorPairing`: the pairings of one course

The rows in the order of creation; a row that came of a reassignment remembers,
as history, which one it replaced. `create` checks the members, then the active
pairings, then writes in a transaction of its own; `reassign` and
`endAssignment` read first and write by id. `scholarIds` may repeat a scholar, as
the DTO allows.

### `Delivery`: from notification to mail

`NotificationsService.create` (notification, delivery rows, queue) and
`EmailProcessor.handleEmail` (look at the row, send, mark), with the parts of
Bull and of Resend they depend on, as the code uses them: a job runs until its
handler returns, at most `Attempts` times when it throws and `MaxStalls` times more
when the process dies under it; Resend may accept a mail and lose the answer.
The number of concurrent workers is left open, one job is never run by two of them
at once (Bull's lock). `configured` is whether the process booted with a key;
a restart may change it. Other services queue mails that have no delivery row.

### `Admission`: what the invited may rely on

The abstract specification of how people come into an organisation: an offer is
made to one address for one role; a link belongs to one offer and is given out
once; who joins does so through a link of an offer to the own address, in the role
offered, and no address joins twice. It knows no expiry, no calls and no queue.

### `Onboarding`: the invitations of one organisation

State: the rows in the order of creation, the number of tokens made, the links
mailed, the reminder jobs, the accounts (with the invitation they came of and the
time it was read, as history), the addresses with an account elsewhere, and the
calls in flight. A token stands for the raw token and its hash; it is a number,
counted up, since tokens are random and do not repeat.

| Code | Actions |
| --- | --- |
| `createInvitation` (way "create") | `Ask`, `CheckPending`, `Insert` |
| `inviteUser` ("invite") | `Ask`, `CheckMember`, `CheckConflict`, `Insert` |
| `processInviteBatch` ("batch") | `Ask`, `CheckMember`, `Insert` |
| `handleBulkImport` ("import") | `Ask`, `CheckMember`, `CheckPending`, `Insert`, and again after a failure |
| the mail, then `scheduleReminders` | `QueueMail`, then `RemoveReminder` and `AddReminder` per reminder |
| `resend`, `revoke` | `ResendRead`, `ResendWrite` and the follow-up; `RevokeRead`, `RevokeWrite` |
| `registerFromInvitation` | `RegisterRead`, `RegisterWrite` (the transaction) |
| a rejected await, the end of the process | `CallFails` |
| another organisation, the clock | `JoinElsewhere`, `Tick` |

Each way has its own checks, as in the code: only two of the four look for a pending
invitation, three look for a member, one for a conflicting role. An import job is
modelled for one row of its file; rows do not depend on each other except that a
failure stops those after it, which is the same as not having asked for them.
`FollowedUp` leaves out an invitation on which a call has failed after its write
(`neglected`): the code does not repair it, and the import's retry skips it.
`Onboarding` implements `Admission`, with rows as offers and mailed tokens as links.

### `Tables`: the rows that components share

Meetings, memberships, pairings, attendance records, assignment rows and what is
archived, with the requests in flight, one record per request, as in the other
modules. `Attendance`, `Settings`, `Standing`, `Storage` (and through it `Library` and
`Reports`) and `Sessions` extend it. Records and rows may be of any user, since any user may
be a member of a course; "scholar" is only the name of the column. `MentorOf` and `EverMentorOf` are the two notions of
a mentor that the code has: recording attendance and reading figures need an active
pairing, listing meetings and resources one that existed. `MemberLeaves`,
`PairingEnds`, `Archive` and `AssignmentMoves` are what other services do to these rows; what
guards a removal is in `Publishing`, and a pairing's end in `MentorPairing`. `AssignmentMoves` is
the `update` of a published assignment that names another course (`assignments.service.ts:232`):
`courseOf` changes, and the rows stay with those whom the first course had.

### `Attendance`: the calendar, and who was there

| Code | Actions |
| --- | --- |
| `createMeeting`, `updateMeeting`, `archiveMeeting` | `CreateMeeting`; `UpdateReads`, `UpdateWrites`; `ArchiveReads`, `ArchiveWrites` |
| `recordBulk` | `RecordBulk`, `BulkChecksPairing` (mentors), `BulkChecksMembers`, then for each record `BulkReads`, `BulkWrites`, `BulkAudits`, `BulkRefreshes`, `BulkNotifies` |
| `correct` | `CorrectReads`, `CorrectWrites`, `CorrectAudits`, `CorrectRefreshes` |
| a rejected await | `AttendanceCallFails` |

`recordBulk` asks that everybody in the batch is a member of the course, and of a mentor
that those he is paired with are (`attendance.service.ts:59`); it asks for nobody's role.
So mentors and administrators who are members are marked like scholars, and the batches
of the run name the mentor too.

The type invariant holds the end of a meeting to be its start and its length, across
two partial updates that cross. `isNew` means, as in the code, that the status read was
another one; a request whose status was there already writes it all the same, without
audit entry and without notice. So a record may be overwritten in silence, although
the code says "5. Audit each change" (`attendance.service.ts:124`); what holds, and is
checked, is that the log has heard of the status (`RecordedIsAudited`), and that whoever
is recorded as absent was told or will be (`AbsentIsTold`), unless the request that wrote
it was cut off (`cut`, history) or it was a correction, which tells nobody.

### `Settings`: two weights that belong together

`updateSettings` checks the sum once, against what is stored, and then upserts key by
key. `torn` remembers that an update failed between its writes or met another one;
then the weights may not add up, and the next partial update is checked against what
was left.

Weights have four decimals (`update-settings.dto.ts:14`, `:22`) and are kept in ten-thousandths.
The check lets a sum through that is off by at most 0.0001 (`organizations.service.ts:88`,
`NearWhole`). The code subtracts doubles: of the pairs with the sum 1.0001 all pass, of
those with 0.9999 most, and the few that it refuses are let through here, where a
refusal would change nothing. Weights of 0.5 and 0.4999 are therefore accepted, and full marks
come to 99.99. `WeightsSettle` says what the tolerance leaves of the rule: after an update
that ran by itself, of both weights or of one, full marks are full progress to one
hundredth of a percentage point, and no drift adds up over updates, for the check of each
has seen what it leaves.

### `Standing`: the figures

Pure operators over the tables, one for each piece of code that computes a figure:
`computeScholarsMetrics`, `computeScholarPerCourse`, `getCourseMetrics` and `getDashboard`
of analytics, `getProgressSummary` of users, `getProgram` of programs, with the rounding to
two decimals at each level, the nulls, and the rules of who may read what. The
properties compare them with each other (`ViewsAgree`) and with themselves across a
step (`FavourableChangeHelps`). The tables change by steps that abbreviate
`Attendance` and `Submissions` (`Mark`, `RowMoves`), and by upheavals: somebody leaves or is
archived, a pairing ends, an assignment moves to another course (`moved` remembers which).

A figure that may be rounded either way is the set of what it may be. `Math.round` of a
rate or a score takes a tie up, and these quotients are computed from few integers; but
`toFixed(4)` (`users.service.ts:423`, `programs.service.ts:142`) rounds the double that the
quotient has become, and an average is a sum of doubles in the order of the rows, so that
a tie may go down (`Nearest`, `ToFixed`, `Average`). The views then agree but for such a
tie. Progress is a weighted sum of doubles too; all views compute it with the same code from
the same score and rate, so which way its ties go tells no two of them apart, and the
model takes them up.

What came out and the properties take in:

- any user of the organisation may be a member of a course (`courses.service.ts:252` asks
  for no role), so `publish` gives mentors and administrators rows, and `recordBulk` marks them.
  They count in their course's totals, at risk, and in its average rate once marked
  (`analytics.service.ts:297`), while no dashboard knows of them. `CoursesAddUp` compares the
  averages of the scholars of a course with those of the organisation always, and those
  of the course itself when none of the others has a rate;
- the counts of an assignment can exceed the members of its course: the rows of those who
  left stay, which `upheavals` counts, and an assignment that has moved keeps the rows
  of another course, for which no bound holds (`moved`);
- the score divides by all rows, though its comment speaks of the average of verified ones.

### `Storage`, `Library`, `Reports`: the bucket and what points into it

`Storage` is the bucket, with or without credentials. In `Library` a client uploads under
a URL that was signed before; a resource may be created under any key of the right
form, uploaded or not, and taken or not; archiving deletes the object in the
background. In `Reports`:

| Code | Actions |
| --- | --- |
| `create` | `RequestReport` (the count of rows decides), `ReportAudits`, `ReportQueues` |
| `handleReport` | `CheckReport`, `ClaimReport`, `PutReport`, `CompleteReport`, `AuditReport`, `TellReady`, `MailReady` |
| `handleFailure` | `AuditFailure`, `FailReport`, `TellFailed` |
| a rejected await, Bull | `StepThrows`; `NoHandler`, `JobReturns`, `JobThrew`, `JobStalls` |

The job is queued as `generate` (`reports.service.ts:108`) and the worker registers a
handler without a name; whether Bull brings them together is the library's to say,
so the model starts with either (`handlers`). `untold` remembers a last attempt that failed
where no failure is recorded: in the check, the claim, or the failure path itself. Two
more ways a report stays as it is: a request that ends between the row and the
queue, and a worker that dies once too often. A COMPLETED report turns FAILED when its
last attempt could not tell the requester.

### `Sessions`: tokens

| Code | Actions |
| --- | --- |
| `login` | `LoginReads`, `IssueToken` |
| `refresh` | `RefreshReads`, `RefreshRevokes`, `IssueToken` |
| `logout` | `Logout` |
| `forgotPassword`, `verifyOtp` | `ForgotPassword`; `VerifyOtp`, `VerifyOtpWrites` |
| `resetPassword` | `ResetReads`, `ResetWrites` (the transaction) |
| a rejected await, time | `SessionCallFails`, `Expires` |

A line of tokens is a login and the refreshes that follow. `crossed` and `forked` are
history: a reset came while a request of the line was in flight, a refresh read a token
that somebody else revoked before it. `SessionsAccounted` says that only these two
let a session outlive its password or a login be worth two sessions. A refresh looks
neither at the role nor at the archiving of its user, and one that fails after the
revocation has lost the session; the model has both.

### `Platform`: them together

Extends these modules and says which of their steps may interleave. Components
that write nothing in common cannot disturb each other, so a behaviour explores one
group of them (`focus`): the calendar, attendance, settings, the figures with all that
changes them, library, reports, sessions. What a group reads of the others is
the history it starts with. `HistoryOK` says what a history is: tables of their types, in
which a record is of a meeting there is (meetings are archived, never deleted), each
record has its audit entry, each absence was told or corrected (`RecordsLeft`), and the two
weights add up within the tolerance; where views are compared, whoever has a row is a
member of its assignment's course (`NobodyLeft`), for `upheavals` and `moved` count from there.
`MCPlatform` gives TLC nine such histories, with the mentor and the administrator among the
members of courses; the proofs have any.

## The runs

| Run | Instance | Shows |
| --- | --- | --- |
| `submissions_verdicts` | one scholar, a mentor and the scholar as verifiers, two requests beside the check, two penalties | types, `VerdictPriced`, `LateVerdictWasSubmitted`, refinement of `Gradebook` |
| `submissions_overdue` | two scholars, one request beside the check, two failures | `WarnedRowsAreClosed`, `WarnedAtMostOnce`, `PastDueIsMarked` |
| `publishing_documents` | two courses, two contents, one change request, two requests in flight, a crash | `AdmittedBeforeLock`, `ApprovedIsApplied` |
| `publishing_enrolment` | two scholars, one of whom joins, two requests in flight | types, `MembersHaveRows`, `RemindersFollowRows`, `RowsNeverRestart`, `UntouchedRowIsReminded` |
| `mentor_pairings` | two mentors, one scholar, two requests, batches of up to two, three rows | types, `ReplacedHasEnded`, `OnlyEndUncovers`, `HistoryIsKept` |
| `delivery_emails` | two callers, two notifications, two mails, two attempts, one stall | types, `CompletedWasSent`, `RecordMatchesMail`, `CopiesNeedFaults`, `NoCopyOnceRecorded`, `EmailSettles` |
| `onboarding_invitations` | one address, the two exclusive roles, two calls, two invitations, three tokens, two attempts, one reminder | types, `UsedOnce`, `EnteredInTime`, `FollowedUp`, `RetryInvitesOnce`, refinement of `Admission` |
| `platform` | a mentor, two scholars, two courses, three meetings and assignments, two requests in flight, one report with three attempts and a stall, two resources under one key, three tokens | types, `AbsentIsTold`, `RecordedIsAudited`, `ViewsAgree`, `WeightsSettle`, `OffersBacked`, `SessionsAccounted`, `FavourableChangeHelps`, `OutcomeIsKept`, `ReportSettles` |
| `submissions_flipped` | one scholar | finding 1: `CheckSparesSubmitted` fails |
| `submissions_lateness` | one scholar, two requests | finding 2: `VerdictMatchesLateness` fails |
| `publishing_review` | two reviews of one request | finding 3: `ReviewIsFinal` fails |
| `pairings_exclusive` | two creates | finding 4: `OneActiveMentor` fails |

Why the bounds are enough. Rows of different scholars meet only in the batch of
the overdue check and in the member list of publish, so one scholar shows every
race on a row and two show every split of a batch. A race on a row needs two
requests: the one that holds a stale value and the one that made it stale; the
check and the environment are there besides. The clock has the instants before and
after one deadline (`MaxTime` is one or two). Two attempts have a first, a retry
and an end, as three have. Three pairings are a row, its successor and one row of
another request. Invitations of different addresses never meet, so one address
shows every race; two invitations of it and three tokens let one be renewed while
another is used, and its two roles are interchangeable (`MCOnboarding` declares
the symmetry, as it does for calls). One reminder job of the two is enough for TLC,
as they are handled alike; the proofs have any number. `MaxFaults` and `MaxCrashes` bound failures in liveness runs; the
proofs have none of these bounds as a hypothesis other than "a natural number".

In `platform`, each group has what its races need. Attendance: one meeting, records of
one scholar and of a scholar and the mentor, two requests of the mentor, the administrator or a correction;
it starts once with everybody in place and once after the mentor's pairing has ended
and he and a scholar have left (`Later`). Settings: four weights, of which
0.3 and 0.7 or 0.5 and 0.5 add up, and 0.5 and 0.4999 nearly. The figures: three meetings
and as many assignments in two courses, with the weights 0.5 and 0.5, or two of the meetings
and one row more, with 0.5 and 0.4999 and the mentor marked absent in one of them; and one
upheaval of any kind (`MaxUpheavals`). The rows and records of one scholar (`Subjects`)
move while those of the others stand still, which is enough for figures that are computed
member by member and then averaged; the thresholds and the late penalty are the
defaults. Reports: one report, since reports
share nothing; its rows are counted over tables that do not change meanwhile, for the
worker fetches them again. The library: two resources under one key. Sessions: one
user, three tokens, one code, one reset (`MaxTokens`, `MaxCodes`, `MaxResets`); with one
code the rule that the newest counts is not exercised, and no property is about it.

`MaxTime`, `MaxPairings`, `MaxNotifications`, `MaxMails`, `MaxInvitations` and
`MaxTokens` cap what is unbounded in
the code, and appear only as guards.

Deadlock checking is off in the runs `delivery_emails`, `publishing_review`,
`onboarding_invitations` and `platform`, where everything may be settled and all numbers used up.

### Fairness

- `Submissions`: weak fairness of the check as a whole. The rule is registered for
  every hour and the worker runs in the same process; a step may fail instead of
  completing, finitely often (`MaxFaults`). Requests are given no fairness.
- `Publishing`: weak fairness of each request in flight (the event loop resumes an
  await that has settled) and of each reminder job (Bull runs it when its delay is
  over). Users are given none.
- `Delivery`: weak fairness of the work on each mail: a started query or send ends,
  with an answer or an error. Which of them is not constrained.
- `Platform`: weak fairness of the worker on each report. Its attempts are counted, so
  that no bound on failures is needed; requests and users are given none.

## Findings

1. The overdue check flips rows that were submitted or verified after it had read
   its candidates, which its comments exclude
   (`overdue-assignment.processor.ts:59`, `:85`, the update at `:89`).
2. A verdict may disagree with `is_late`, because it follows the row as it was read
   before the settings were awaited (`assignments.service.ts:497`).
3. A review of a change request is not final: of two concurrent reviews the later
   wins, even over a change that has been applied (`assignments.service.ts:709`).
4. A scholar can have two active mentors in a course: two requests, a batch that
   names the scholar twice, or a reassignment of an ended pairing
   (`mentor-pairing.service.ts:150`).

Disagreements that were met while modelling and that no run states, because what holds
instead is checked: weights that "must equal 1.0" (`update-settings.dto.ts:8`) and need only come within
0.0001 of it (`organizations.service.ts:88`); weights that do not add up after updates that
cross or fail (`organizations.service.ts:124`); mails that without a key are "skipped
(retried) until it is configured" (`email.processor.ts:25`) and whose job "self-heals once
RESEND_API_KEY is configured" (`:63`), while the job has three attempts and the key is
read once, when the process starts, so that a mail whose attempts are over before a
restart with a key ends as failed (`EmailSettles` allows it, `CompletedWasSent` holds that
it is never taken for sent); a record overwritten without an audit entry
(`attendance.service.ts:104`); a report that stays PENDING or PROCESSING when its check, its claim
or its failure path fails for the last time (`report-generator.processor.ts:63`); a report that was
COMPLETED and is marked FAILED (`report-generator.processor.ts:101`); "File deleted from
storage" in an answer that does not wait for the deletion (`resources.service.ts:399`); mentors
at risk in their courses, and their attendance in the averages of these (`analytics.service.ts:297`); the sessions that survive a reset
(`auth.service.ts:291`) and the two that come of one token (`auth.service.ts:166`).

## The proofs

The theorems are in `SubmissionsProofs`, `PublishingProofs`, `MentorPairingProofs`,
`DeliveryProofs`, `OnboardingProofs` and `PlatformProofs`; the last one rests on
`AttendanceProofs` and `StandingProofs`, which prove what concerns one group of the
platform. They hold for every value of the constants that satisfies the named
assumptions, and TLC evaluates these in the runs:

- the users and roles may be any sets (a mentor of a pairing is no scholar, the
  administrator is neither), the bounds any naturals, the attempts at least one, penalties
  between 0 and 100, weights between 0 and a whole in ten-thousandths, windows and meetings at least a minute,
  invitations that last;
- a batch of `recordBulk` names at least one record, as its DTO asks (`BatchesAssumption`);
- users, meetings and assignments are finitely many (`FiniteTables`), since figures count them; null
  is no course (`CoursesNamed`);
- a behaviour of the platform starts with any of a set of histories (`HistoriesAssumption`).

Each proof has the same shape: an inductive invariant `IInv`, preserved by every
action (one lemma per action or group of actions), and the properties as
consequences of it, or of it and one step. The invariants, and why the
properties alone are not inductive:

- `Submissions`: `VerdictPriced` depends on what requests carry: a penalty that was
  read is one of the possible ones, and a late one belongs to a row that has been
  handed in. `WarnedRowsAreClosed` needs that the candidates still to be notified
  are closed already and have not been warned. The refinement takes one case per
  action; the invariant gives the guards of the gradebook's actions.
- `Publishing`: `AdmittedBeforeLock` needs that no request was admitted in the future
  and that a window, once set, ends after the instant of the publish that set it;
  windows of at least one minute are an assumption that the settings DTO enforces.
  `RemindersFollowRows` needs that a publish which is still queueing has committed
  rows for whatever it has still to queue. `MembersHaveRows` needs that a publish in
  flight has seen every member who was there from the start and has not left. It is proved
  for behaviours in which the assignment stays in its course from the moment a publish
  has read it (`CourseSettled`), because `update` moves published assignments between courses
  without their rows; a single course, as in the run, is a special case.
- `MentorPairing`: `ReplacedHasEnded` needs that the rows referred to exist. The
  action properties rest on the lemma that says who writes what.
- `Delivery`: a notification belongs to one call or to one mail, never to two, its
  row exists before its mail does, and a mail that is about to be sent is not
  recorded as sent; copies are counted against the attempts and stalls.

- `Onboarding`: a token, in a mail, a row or a call, belongs to one invitation and is
  no later than the last one issued, so a link leads to the row it was mailed for or
  nowhere; what a call has read is still true of the row as far as it matters: rows
  keep their addressee, and an expiry is moved to the present or beyond it, never
  behind the time of a read. `RetryInvitesOnce` needs that a job which has passed
  its check for pending invitations cannot see its own first one come back to
  life with the same token: only a renewal could, and that replaces the token.

- `AttendanceProofs`: `AbsentIsTold` and `RecordedIsAudited` are not inductive, because a
  `recordBulk` that has read the status it is going to write will write it without audit entry
  and notice, when the record may have changed and changed back. The invariant says that
  whatever is recorded is accounted for (by an entry, a notice, a cut, or a request that
  still owes them), and so is whatever such a request relies on (`RelianceOK`); every step
  of a request that drops a duty discharges it (`Discharged`).
- `StandingProofs`, settings: an update that is alone will leave weights that add up within the
  tolerance, whichever of its writes are still pending, and nothing is torn unless an update met
  another one or failed between two writes.
- `StandingProofs`, figures: rounding is monotone (`RoundDivGrows`), so that better counts
  give no smaller figure at any level (`RecordHelps`, `RowHelps`), and a change can take a
  scholar's rate away (his only absence is excused) but never his score. The views agree
  because each reads the same finite sets, written differently; what needs an
  invariant is that records are of meetings there are, and that, unless an assignment has
  moved, no more people with a row have left its course than there were upheavals
  (`ViewsPart`).
- `PlatformProofs`, reports: the row, the job and the notices of a report fit together at each
  step of the worker (`JobOK`, `StatusOK`, `NoticesOK`), a job that puts or has put a file has
  it in the bucket, and a request that has yet to queue its job is the only one about
  that report.
- library: only what is archived is being deleted, and a key that was uploaded is in
  the bucket or some archived resource has it.
- sessions: each line of tokens has at most one bearer, an unrevoked token or a request about
  to issue one, and a request that will revoke a token agrees with that token about
  its line.
- `PlatformProofs`, all together: the group at work (`focus`) keeps its own invariant, and what
  the others hold is as the history left it.

`Refinement` states that every behaviour of `Submissions` is one of `Gradebook`, and
in `OnboardingProofs` that every behaviour of `Onboarding` is one of `Admission`.

Every invariant and every action property that a passing run checks is stated by a theorem.
Only model-checked: the liveness properties (`PastDueIsMarked`,
`UntouchedRowIsReminded`, `EmailSettles`, `ReportSettles`), which are beyond the prover, as
everything that rests on fairness or ENABLED is. What the sum of an average comes to is
left as it is: the proof about a course and its organisation compares two averages of the same
figures, and does not compute them.
`RequestsFollowPublication` is only proved: no step of the code comes near to breaking it,
and it serves the invariant of `Publishing`. No module with a theorem uses a RECURSIVE
operator.

## What is not modelled, and the plan

Abstracted everywhere: tenancy (each model is of one organisation; every query is
scoped by it), permissions (callers have them), texts, and the audit log except
that of attendance: no handler reads it, and its call is an await like any other; a
rejection after the last write is a request that ends, and is covered by the failure
actions.

Not modelled:

- courses and programs, create and update; updateUser and updateMyProfile: single-row writes
  by id, without a guard that another step could invalidate. Roles stay as registration
  made them, so `UsedOnce` speaks of the role given at entry; courses never change
  their status but by archiving;
- notifications as far as they are a list: the read marks and the sockets touch only
  the user's own view;
- the reminder worker of invitations: its jobs are added without a name while it
  registers one, so that none reaches it; the texts and times of reminders;
- the rate limiter: one counter per address that nothing else reads. INCR and PEXPIRE are two
  commands (`rate-limit.middleware.ts:60`), so that a failure between them leaves a counter
  that never expires; stated as a property this would only repeat the two lines;
- health, guards, filters, pagination, the formats of reports and mails.

Next, in this order:

1. The safety part of the liveness properties, as far as it can be stated without
   fairness: that a row past its due date, a waiting mail and a running report always
   have a step of the worker before them.
2. The read-then-write races of invitations that contradict comments of the code:
   two active invitations of one address (`auth.service.ts:330`), a revoked one
   used by a registration in flight (`invitations.service.ts:157`), and a scholar's
   and a mentor's invitation pending together (`users.service.ts:243`).
