-------------------------------- MODULE Tables --------------------------------
(***************************************************************************)
(* The rows of one organisation that several components read and write,    *)
(* and the requests in flight: what the services of meetings, attendance,  *)
(* analytics, reports, resources and sessions share.                       *)
(***************************************************************************)
EXTENDS Integers, Sequences, FiniteSets

CONSTANTS
    Admin,         \* a SUPER_ADMIN
    Mentors,
    Scholars,
    Courses,
    Meetings,
    Assignments,
    Calls          \* the requests that may be in flight at once

Users == {Admin} \union Mentors \union Scholars

ASSUME UserRoles == Admin \notin Mentors \union Scholars /\ Mentors \cap Scholars = {}
ASSUME FiniteTables ==
    /\ IsFiniteSet(Mentors) /\ IsFiniteSet(Scholars)
    /\ IsFiniteSet(Meetings) /\ IsFiniteSet(Assignments)

VARIABLES
    meeting,   \* the meetings
    members,   \* the course memberships, of any users
    pairing,   \* the pairings of mentors and scholars in a course
    record,    \* the attendance records, of any members: recordBulk asks for no role
    archived,  \* the courses and the users that have been archived
    row,       \* the scholar assignments: publish gives one to each member, mentors too
    courseOf,  \* the courses of the published assignments
    call       \* the requests in flight

tables == <<meeting, members, pairing, record, row, courseOf, archived>>

None == "NONE"   \* no such row
ASSUME CoursesNamed == None \notin Courses

Marks == {"PRESENT", "ABSENT", "EXCUSED"}

\* The credit of a row is fixed by its verdict, at the late penalty of the defaults;
\* the states in which the scholar has yet to hand in are one here.
Credit(status) == IF status = "VERIFIED" THEN 100 ELSE IF status = "VERIFIED_LATE" THEN 80 ELSE 0
Rows == {"OPEN", "OVERDUE", "PENDING_VERIFICATION", "VERIFIED", "VERIFIED_LATE"}

Meeting(k, starts, minutes, ends, closed) ==
    [course |-> k, starts |-> starts, minutes |-> minutes, ends |-> ends,
     archived |-> closed]
NoMeeting == [course |-> None]
Exists(m) == meeting[m] # NoMeeting

\* mentor_scholar_assignments: a pairing ends, and is kept.
Active(u, k, s) == pairing[u, k, s] = "ACTIVE"
MentorOf(u, k) == \E s \in Scholars : Active(u, k, s)
EverMentorOf(u, k) == \E s \in Scholars : pairing[u, k, s] # None

\* listMeetings: mentors see those of the courses they have been paired
\* in, scholars those of the courses they are members of.
MeetsIn(u, k) ==
    \/ u = Admin
    \/ u \in Mentors /\ EverMentorOf(u, k)
    \/ u \in Scholars /\ <<k, u>> \in members

Idle == [at |-> "idle"]
Goes(c, next) == call' = [call EXCEPT ![c] = next]
Steps(c, at) == Goes(c, [call[c] EXCEPT !.at = at])

\* What other components do to these rows.  removeCourseMember looks for active rows
\* some awaits before it deletes, and spares those to be handed in again: it may
\* end the membership in any state of the rows that is told apart here.
MemberLeaves(k, v) ==
    /\ <<k, v>> \in members
    /\ members' = members \ {<<k, v>>}
    /\ UNCHANGED <<meeting, pairing, record, row, courseOf, archived, call>>

\* endAssignment.
PairingEnds(u, k, s) ==
    /\ Active(u, k, s)
    /\ pairing' = [pairing EXCEPT ![<<u, k, s>>] = "ENDED"]
    /\ UNCHANGED <<meeting, members, record, row, courseOf, archived, call>>

\* archiveCourse and archiveUser set a date and touch nothing else.
Archive(x) ==
    /\ x \notin archived
    /\ archived' = archived \union {x}
    /\ UNCHANGED <<meeting, members, pairing, record, row, courseOf, call>>

\* update moves an assignment to another course as long as its edit window is open,
\* which a setting of any length may keep it.  Its rows stay with those who got them.
AssignmentMoves(a, k) ==
    /\ courseOf[a] # k
    /\ courseOf' = [courseOf EXCEPT ![a] = k]
    /\ UNCHANGED <<meeting, members, pairing, record, row, archived, call>>
=============================================================================
