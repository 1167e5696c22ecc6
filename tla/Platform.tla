------------------------------- MODULE Platform -------------------------------
(***************************************************************************)
(* The components that share the tables of an organisation, put together:  *)
(* calendar and attendance, settings and standing, reports and library,    *)
(* and the sessions of those who use them.                                 *)
(*                                                                         *)
(* Components that write no common state do not disturb each other, so     *)
(* that a behaviour explores one group of them ("focus") on a history of   *)
(* the tables; what they read of the others is in that history.            *)
(***************************************************************************)
EXTENDS Attendance, Standing, Reports, Library, Sessions

CONSTANTS
    Subjects,    \* the members and the meetings that the requests are about
    Histories    \* what a behaviour starts with: records with the fields focus, meeting,
                 \* members, pairing, record, row, courseOf, setting, audited and told

Focuses == {"calendar", "attendance", "settings", "standing", "reports", "library", "sessions"}

\* What the code has left behind by the start: tables of their types, in which each
\* record is of a meeting there is and has its audit entry, each absence was told or
\* corrected, and the two weights add up within the tolerance.  Where views are
\* compared, no assignment has moved and everybody who was given a row is still there:
\* what leaves from then on is counted by upheavals and moved.
RecordsLeft(h) ==
    \A m \in Meetings, s \in Users :
        /\ h.record[m, s] # None => h.meeting[m] # NoMeeting
        /\ h.record[m, s] # None =>
               \E action \in {"RECORDED", "CORRECTED"} :
                   Entry(m, s, h.record[m, s], action) \in h.audited
        /\ h.record[m, s] = "ABSENT" =>
               <<m, s>> \in h.told \/ Entry(m, s, "ABSENT", "CORRECTED") \in h.audited
WeightLeft(h, key) == IF h.setting[key] = Unset THEN Default[key] ELSE h.setting[key]
NobodyLeft(h) ==
    \A a \in Assignments, v \in Users :
        h.row[a, v] # None => <<h.courseOf[a], v>> \in h.members
HistoryOK(h) ==
    /\ h.focus \in Focuses
    /\ h.meeting \in [Meetings -> Timetable \union {NoMeeting}]
    /\ h.members \subseteq Courses \X Users
    /\ h.pairing \in [Mentors \X Courses \X Scholars -> {None, "ACTIVE", "ENDED"}]
    /\ h.record \in [Meetings \X Users -> Marks \union {None}]
    /\ h.row \in [Assignments \X Users -> Rows \union {None}]
    /\ h.courseOf \in [Assignments -> Courses]
    /\ h.setting \in [Keys -> Weights \union {Unset}]
    /\ h.audited \subseteq Entries
    /\ h.told \subseteq Meetings \X Users
    /\ RecordsLeft(h)
    /\ h.focus \in {"standing", "library"} => NobodyLeft(h)
    /\ NearWhole(WeightLeft(h, AssignmentWeight) + WeightLeft(h, AttendanceWeight))
ASSUME HistoriesAssumption == \A h \in Histories : HistoryOK(h)

VARIABLE focus   \* the group of components at work

vars == <<tables, call, attendanceVars, settingsVars, standingVars,
          storageVars, libraryVars, reportsVars, sessionsVars, focus>>

PlatformTypeOK ==
    /\ AttendanceTypeOK /\ SettingsTypeOK /\ StandingTypeOK /\ LibraryTypeOK /\ ReportsTypeOK
    /\ SessionsTypeOK
    /\ bucket \subseteq FileKeys \union {FileOf(r) : r \in Exports}
    /\ configured \in BOOLEAN
    /\ archived \subseteq Courses \union Users
    /\ call \in [Calls ->
           AttendanceCalls \union Updates \union LibraryCalls \union ReportCalls
           \union SessionCalls \union {Idle}]
    /\ focus \in Focuses

Init ==
    /\ \E h \in Histories :
          /\ focus = h.focus
          /\ meeting = h.meeting /\ members = h.members /\ pairing = h.pairing
          /\ record = h.record /\ row = h.row /\ courseOf = h.courseOf
          /\ audited = h.audited /\ told = h.told
          /\ setting = h.setting
    /\ call = [c \in Calls |-> Idle]
    /\ archived = {}
    /\ cut = {}
    /\ torn = FALSE /\ alone = {}
    /\ StandingInit
    /\ StorageInit /\ (focus \notin {"reports", "library"} => configured)
    /\ LibraryInit
    /\ ReportsInit /\ (focus # "reports" => handlers = {Unnamed})
    /\ SessionsInit

Calendar ==
    /\ focus = "calendar" /\ CalendarNext(Subjects \cap Meetings)
    /\ UNCHANGED <<settingsVars, standingVars, storageVars, libraryVars, reportsVars, sessionsVars>>
Attending ==
    /\ focus = "attendance" /\ AttendanceNext(Subjects \cap Meetings, Subjects \cap Users)
    /\ UNCHANGED <<settingsVars, standingVars, storageVars, libraryVars, reportsVars, sessionsVars>>
Setting ==
    /\ focus = "settings" /\ SettingsNext
    /\ UNCHANGED <<attendanceVars, standingVars, storageVars, libraryVars, reportsVars, sessionsVars>>
\* A record that changes in one step is audited, and the member told, in that step.
Moving ==
    /\ focus = "standing" /\ StandingNext(Subjects \cap Users)
    /\ LET changed == {x \in Meetings \X Users : record'[x] # record[x]}
       IN  /\ audited' = audited \union {Entry(x[1], x[2], record'[x], "RECORDED") : x \in changed}
           /\ told' = told \union {x \in changed : record'[x] = "ABSENT"}
    /\ UNCHANGED <<cut, settingsVars, storageVars, libraryVars, reportsVars, sessionsVars>>
Filing ==
    /\ focus = "library" /\ LibraryNext
    /\ UNCHANGED <<attendanceVars, settingsVars, standingVars, reportsVars, sessionsVars>>
Elsewhere ==
    UNCHANGED <<attendanceVars, settingsVars, standingVars, libraryVars, sessionsVars>>
Reporting == focus = "reports" /\ ReportsNext /\ Elsewhere
Signing ==
    /\ focus = "sessions" /\ SessionsNext
    /\ UNCHANGED <<attendanceVars, settingsVars, standingVars, storageVars, libraryVars, reportsVars>>

Next ==
    /\ Calendar \/ Attending \/ Setting \/ Moving \/ Filing \/ Reporting \/ Signing
    /\ UNCHANGED focus

\* The worker of the reports queue keeps taking jobs, and each of their steps ends, one
\* way or the other.
Worker(r) == HandleReport(r) /\ Elsewhere /\ UNCHANGED focus

Spec == Init /\ [][Next]_vars /\ \A r \in Exports : WF_vars(Worker(r))
-----------------------------------------------------------------------------
\* Whoever may read the metrics of a course sees its meetings and its resources,
\* though each of the three services decides for itself (assertCourseReadAccess).
ReadersAgree ==
    \A u \in Users, k \in Courses :
        MayReadCourse(u, k) =>
            /\ MeetsIn(u, k)
            /\ \A x \in Resources : Offered(x) /\ resource[x].course = k => SeesResource(u, x)

\* The views of one scholar agree wherever they are shown, however records, rows,
\* memberships and pairings have changed since (getDashboard, getScholarProgress,
\* getCourseMetrics, getProgressSummary, getProgram, listMeetings, listResources).  Only
\* two groups change what the views show.
ViewsAgree ==
    focus \in {"standing", "library"} =>
        SummariesAgree /\ RosterAgrees /\ ScopesAgree /\ CoursesAddUp /\ ReadersAgree

\* Whatever is offered for download is in the bucket: the file of a COMPLETED report,
\* and a file that was uploaded for a resource, unless a resource under the same key
\* was archived (handleReport, archiveResource).
OffersBacked == ReportsBacked /\ FilesKept
=============================================================================
