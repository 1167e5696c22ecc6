------------------------------- MODULE Standing -------------------------------
(***************************************************************************)
(* How the scholars stand: what AnalyticsService, UsersService and         *)
(* ProgramsService make of the attendance records and the assignment rows, *)
(* who may read it, and the steps by which those tables change.            *)
(*                                                                         *)
(* Percentages are integers in hundredths, as the code rounds them.        *)
(***************************************************************************)
EXTENDS Settings, Functions

CONSTANTS
    MaxUpheavals    \* bound on archivings, on memberships and pairings that end, and
                    \* on assignments that move

ASSUME UpheavalsAssumption == MaxUpheavals \in Nat

VARIABLES
    upheavals,      \* how many of them there have been
    moved           \* history: the assignments that have left the course of their rows

standingVars == <<upheavals, moved>>

Null == -1
NoMetric == "null"

\* Math.round(n * 100) / 100, for a quotient: a tie goes up.
RoundDiv(a, b) == (2 * a + b) \div (2 * b)

\* What else may come of a quotient: toFixed rounds the double that it is, and the sum of
\* doubles depends on their order, so that a tie may go down.
IsTie(a, b) == (2 * a + b) % (2 * b) = 0
Nearest(a, b) == {RoundDiv(a, b)} \union IF IsTie(a, b) THEN {RoundDiv(a, b) - 1} ELSE {}

\* Of those that are known.
Average(figure) ==
    LET known == Restrict(figure, {x \in DOMAIN figure : figure[x] # Null})
    IN  IF DOMAIN known = {} THEN {Null}
        ELSE Nearest(SumFunction(known), Cardinality(DOMAIN known))

\* What is read of a member: the attendance records and the assignment rows.
\* Assignments are never archived by any operation of the code.
RecordsOf(s, K) == {m \in Meetings : Exists(m) /\ meeting[m].course \in K /\ record[m, s] # None}
RowsOf(s, K) == {a \in Assignments : courseOf[a] \in K /\ row[a, s] # None}
With(s, M, marks) == {m \in M : record[m, s] \in marks}
Submitted == {"PENDING_VERIFICATION", "VERIFIED", "VERIFIED_LATE"}
Verified == {"VERIFIED", "VERIFIED_LATE"}
-----------------------------------------------------------------------------
(* AnalyticsService: the metrics.                                          *)

\* Mutant of AttendanceRate: whoever is excused was not there.
AttendanceRateOfAll(s, M) ==
    LET held == With(s, M, Marks)
    IN  IF held = {} THEN Null
        ELSE RoundDiv(10000 * Cardinality(With(s, M, {"PRESENT"})), Cardinality(held))

AttendanceRate(s, M) ==
    LET applicable == With(s, M, Marks \ {"EXCUSED"})
    IN  IF applicable = {} THEN Null
        ELSE RoundDiv(10000 * Cardinality(With(s, M, {"PRESENT"})), Cardinality(applicable))

\* Only a verdict earns credit.
Earned(s, A) ==
    LET Of(verdict) == Credit(verdict) * Cardinality({a \in A : row[a, s] = verdict})
    IN  Of("VERIFIED") + Of("VERIFIED_LATE")

\* Mutant of AssignmentScore: the average of the verdicts.
AssignmentScoreOfVerdicts(s, A) ==
    LET verdicts == {a \in A : row[a, s] \in Verified}
    IN  IF verdicts = {} THEN Null
        ELSE RoundDiv(100 * Earned(s, verdicts), Cardinality(verdicts))

\* The rows without a verdict earn nothing, and count.
AssignmentScore(s, A) ==
    IF A = {} THEN Null ELSE RoundDiv(100 * Earned(s, A), Cardinality(A))

OverallProgress(score, rate) ==
    IF score = Null \/ rate = Null THEN Null
    ELSE RoundDiv(score * Weight(AssignmentWeight) + rate * Weight(AttendanceWeight), Whole)

AtRisk(score, rate, overdue) ==
    IF score = Null /\ rate = Null /\ overdue = 0 THEN NoMetric
    ELSE IF \/ rate # Null /\ rate < AtRiskAttendance
            \/ score # Null /\ score < AtRiskAssignment
            \/ overdue >= AtRiskOverdue
         THEN "yes" ELSE "no"

Overdue(s, A) == {a \in A : row[a, s] = "OVERDUE"}

Metrics(s, M, A) ==
    LET score == AssignmentScore(s, A)
        rate == AttendanceRate(s, M)
    IN  [score |-> score, rate |-> rate, progress |-> OverallProgress(score, rate),
         overdue |-> Cardinality(Overdue(s, A)),
         atRisk |-> AtRisk(score, rate, Cardinality(Overdue(s, A)))]

\* computeScholarsMetrics reads everything there is of a scholar, whatever the
\* courses and whether he is still a member of them.
ScholarMetrics(s) == Metrics(s, RecordsOf(s, Courses), RowsOf(s, Courses))

\* computeScholarPerCourse: the courses he is a member of and that are not archived.
PerCourse(s) ==
    [k \in {k \in Courses : <<k, s>> \in members /\ k \notin archived} |->
        LET score == AssignmentScore(s, {a \in RowsOf(s, Courses) : courseOf[a] = k})
            rate == AttendanceRate(s, {m \in RecordsOf(s, Courses) : meeting[m].course = k})
        IN  [score |-> score, rate |-> rate, progress |-> OverallProgress(score, rate)]]

\* getCourseMetrics: its members, archived users aside but mentors not, within the
\* course; and how far its assignments have got, whoever the rows belong to and whatever
\* course they were handed out in.
CourseMembers(k) == {v \in Users : <<k, v>> \in members /\ v \notin archived}
Roster(k) == [s \in CourseMembers(k) |-> Metrics(s, RecordsOf(s, {k}), RowsOf(s, {k}))]
CourseMetrics(k) ==
    LET roster == Roster(k)
    IN  [total |-> Cardinality(DOMAIN roster),
         atRisk |-> Cardinality({s \in DOMAIN roster : roster[s].atRisk = "yes"}),
         progress |-> Average([s \in DOMAIN roster |-> roster[s].progress]),
         rate |-> Average([s \in DOMAIN roster |-> roster[s].rate])]
Completion(a) ==
    LET Having(statuses) == Cardinality({v \in Users : row[a, v] \in statuses})
    IN  [submitted |-> Having(Submitted), verified |-> Having(Verified),
         total |-> Cardinality(CourseMembers(courseOf[a]))]
-----------------------------------------------------------------------------
(* AnalyticsService: who may read what, and the dashboard.                 *)

\* assertScholarReadAccess and assertCourseReadAccess; a scholar who has been archived
\* is not found.
MayReadScholar(u, s) ==
    /\ s \notin archived
    /\ u = Admin \/ u = s \/ \E k \in Courses : u \in Mentors /\ Active(u, k, s)
MayReadCourse(u, k) ==
    \/ u = Admin
    \/ u \in Scholars /\ <<k, u>> \in members
    \/ u \in Mentors /\ MentorOf(u, k)

\* The scholars of a dashboard: only an administrator's leaves archived ones out.
Scope(u) ==
    IF u = Admin THEN Scholars \ archived
    ELSE IF u \in Mentors THEN {s \in Scholars : \E k \in Courses : Active(u, k, s)}
    ELSE {u}

Dashboard(u) ==
    LET metrics == [s \in Scope(u) |-> ScholarMetrics(s)]
        Counted(status) ==
            Cardinality({x \in Assignments \X Users :
                (u = Admin \/ x[2] \in Scope(u)) /\ row[x] = status})
    IN  [total |-> Cardinality(Scope(u)),
         active |-> Cardinality({s \in Scope(u) \ archived : \E k \in Courses : <<k, s>> \in members}),
         atRisk |-> Cardinality({s \in Scope(u) : metrics[s].atRisk = "yes"}),
         progress |-> Average([s \in Scope(u) |-> metrics[s].progress]),
         rate |-> Average([s \in Scope(u) |-> metrics[s].rate]),
         pending |-> Counted("PENDING_VERIFICATION"),
         overdue |-> Counted("OVERDUE")]
-----------------------------------------------------------------------------
(* UsersService.getProgressSummary, and the progress of a program.  A rate *)
(* without records is 0 there, and a row counts once it is handed in.  The *)
(* rates are given as the set of what toFixed(4) may make of the quotient. *)

ToFixed(n, of) == IF of > 0 THEN Nearest(10000 * n, of) ELSE {0}

ProgressSummary(s) ==
    LET M == RecordsOf(s, Courses)
        A == RowsOf(s, Courses)
        denominator == Cardinality({m \in M : record[m, s] # "EXCUSED"})
    IN  [total |-> Cardinality(A),
         completed |-> Cardinality({a \in A : row[a, s] \in Submitted}),
         rate |-> ToFixed(Cardinality(With(s, M, {"PRESENT"})), denominator)]

\* getProgram: the scholars of the program are taken together.
ProgramProgress(S) ==
    LET records == {x \in Meetings \X S : record[x] # None}
        rows == {x \in Assignments \X S : row[x] # None}
        present == {x \in records : record[x] = "PRESENT"}
        applicable == {x \in records : record[x] # "EXCUSED"}
        completed == {x \in rows : row[x] \in Submitted}
    IN  [completion |-> ToFixed(Cardinality(completed), Cardinality(rows)),
         rate |-> ToFixed(Cardinality(present), Cardinality(applicable))]
-----------------------------------------------------------------------------
(* The tables change.  The handlers that write them are modelled step by   *)
(* step in Attendance and Submissions; here each of their writes is one    *)
(* step.                                                                   *)

\* recordBulk, of a member of the course, or correct, of a record there is.
Mark(m, s, status) ==
    /\ Exists(m)
    /\ record[m, s] # None \/ <<meeting[m].course, s>> \in members
    /\ record' = [record EXCEPT ![<<m, s>>] = status]
    /\ UNCHANGED <<meeting, members, pairing, row, courseOf, archived, call, standingVars>>

\* submit, verify and the overdue check, which takes open rows alone.
RowMoves(a, s, status) ==
    /\ row[a, s] # None
    /\ status = "OVERDUE" => row[a, s] = "OPEN"
    /\ row' = [row EXCEPT ![<<a, s>>] = status]
    /\ UNCHANGED <<meeting, members, pairing, record, courseOf, archived, call, standingVars>>

Upheaval ==
    /\ upheavals < MaxUpheavals
    /\ upheavals' = upheavals + 1
    \* An administrator cannot archive himself.
    /\ \/ /\ \/ \E x \in Courses \union (Users \ {Admin}) : Archive(x)
             \/ \E k \in Courses, v \in Users : MemberLeaves(k, v)
             \/ \E u \in Mentors, k \in Courses, s \in Scholars : PairingEnds(u, k, s)
          /\ UNCHANGED moved
       \/ \E a \in Assignments, k \in Courses :
             AssignmentMoves(a, k) /\ moved' = moved \union {a}

StandingTypeOK ==
    /\ row \in [Assignments \X Users -> Rows \union {None}]
    /\ courseOf \in [Assignments -> Courses]
    /\ upheavals \in 0 .. MaxUpheavals
    /\ moved \subseteq Assignments

StandingInit == upheavals = 0 /\ moved = {}

\* S: the members whose records and rows change.
StandingNext(S) ==
    \/ \E m \in Meetings, s \in S, status \in Marks : Mark(m, s, status)
    \/ \E a \in Assignments, s \in S, status \in Rows : RowMoves(a, s, status)
    \/ Upheaval
-----------------------------------------------------------------------------
(* Properties.                                                             *)

\* The three pieces of code that compute an attendance rate, and the two that compute
\* the completion of assignments, agree on a scholar, but for a tie that one rounds up and
\* another down (analytics, users, programs).
SummariesAgree ==
    \A s \in Scholars :
        LET rate == ScholarMetrics(s).rate
            summary == ProgressSummary(s)
            program == ProgramProgress({s})
        IN  /\ (IF rate = Null THEN 0 ELSE rate) \in summary.rate
            /\ program.rate = summary.rate
            /\ program.completion = ToFixed(summary.completed, summary.total)

\* What a member reads of himself in a course is what the roster of the course says.
RosterAgrees ==
    \A s \in Scholars \ archived :
        LET own == PerCourse(s)
        IN  \A k \in DOMAIN own :
                LET entry == Roster(k)[s]
                IN  own[k] = [score |-> entry.score, rate |-> entry.rate, progress |-> entry.progress]

\* A dashboard is about the scholars whose progress its reader may open, and counts
\* among them those he would find at risk; nobody's counts exceed the administrator's.
ScopesAgree ==
    LET atRisk == {s \in Scholars : ScholarMetrics(s).atRisk = "yes"}
        all == Dashboard(Admin)
    IN  \A u \in Users :
            LET board == Dashboard(u)
                readable == {s \in Scholars : MayReadScholar(u, s)}
            IN  /\ Scope(u) \ archived = readable
                /\ Scope(u) = readable => board.atRisk = Cardinality(atRisk \cap readable)
                /\ board.overdue <= all.overdue /\ board.pending <= all.pending
                /\ board.active <= board.total

\* In a course that holds all the records and rows of the scholars, these come to the
\* averages of the organisation, ties apart, and so does the course unless a member who is
\* no scholar has been marked: any user of the organisation may be one.  Such members are
\* the only ones at risk that no dashboard knows of.  The counts of an assignment that
\* stays in its course exceed the members of it only by the rows of those who left or were
\* archived (getCourseMetrics, getDashboard).
CoursesAddUp ==
    /\ \A k \in Courses :
          CourseMembers(k) \cap Scholars = Scholars \ archived
          /\ (\A s \in CourseMembers(k) \cap Scholars :
                 /\ RecordsOf(s, {k}) = RecordsOf(s, Courses)
                 /\ RowsOf(s, {k}) = RowsOf(s, Courses))
          => LET course == CourseMetrics(k)
                 board == Dashboard(Admin)
                 roster == Roster(k)
                 ours == CourseMembers(k) \cap Scholars
                 others == CourseMembers(k) \ Scholars
             IN  /\ Average([s \in ours |-> roster[s].progress]) = board.progress
                 /\ Average([s \in ours |-> roster[s].rate]) = board.rate
                 /\ (\A u \in others : roster[u].rate = Null) =>
                        course.progress = board.progress /\ course.rate = board.rate
                 /\ course.atRisk = board.atRisk
                      + Cardinality({u \in others : roster[u].atRisk = "yes"})
                 /\ course.total = board.total + Cardinality(others)
    /\ \A a \in Assignments :
          LET counts == Completion(a)
          IN  /\ counts.verified <= counts.submitted
              /\ a \notin moved => counts.submitted <= counts.total + upheavals

\* A record or a row of a scholar changes for the better.
Favourable(s) ==
    \/ \E m \in Meetings : record[m, s] = "ABSENT" /\ record'[m, s] # "ABSENT"
    \/ \E a \in Assignments :
          row[a, s] # row'[a, s] /\ Credit(row'[a, s]) >= Credit(row[a, s]) /\ row'[a, s] # "OVERDUE"

\* A scholar who attends or is excused after all, hands in or gets the better verdict
\* loses no progress by it, and is not at risk because of it (computeAssignmentScore,
\* computeOverallProgress, computeIsAtRisk).
FavourableChangeHelps ==
    [][\A s \in Scholars : Favourable(s) =>
          LET before == ScholarMetrics(s)
              after == ScholarMetrics(s)'
          IN  /\ before.progress <= after.progress \/ after.progress = Null
              /\ after.atRisk = "yes" => before.atRisk = "yes"]_<<record, row>>

\* Once nothing is being written, and the last update that ran into trouble has been
\* followed by one that ran by itself, of one weight or of both, full marks are full
\* progress, to one hundredth, and no marks none: whatever was let through in between
\* (updateSettings).
WeightsSettle ==
    Updating = {} /\ ~torn =>
        NearWhole(OverallProgress(10000, 10000)) /\ OverallProgress(0, 0) = 0
=============================================================================
