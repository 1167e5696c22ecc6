------------------------------ MODULE Attendance ------------------------------
(***************************************************************************)
(* MeetingsService and AttendanceService: the calendar of the courses, and *)
(* the attendance that mentors record and administrators correct.          *)
(*                                                                         *)
(* recordBulk runs outside a transaction: for each record of the request   *)
(* it reads the row, writes it, and then, if the status it had read was    *)
(* another one, writes the audit entry, queues the refresh of the          *)
(* analytics and tells whoever was absent.                                 *)
(***************************************************************************)
EXTENDS Tables

CONSTANTS
    Starts,     \* the times at which a meeting may start
    Lengths,    \* how long it may last
    Batches     \* the bodies of recordBulk: sequences of [scholar, status]

ASSUME TimesAssumption == Starts \subseteq Nat /\ Lengths \subseteq Nat \ {0}

\* The DTO asks for at least one record.
ASSUME BatchesAssumption == Batches \subseteq Seq([scholar : Users, status : Marks]) \ {<<>>}

VARIABLES
    audited,    \* the audit entries of attendance records
    told,       \* who was told of an absence, per meeting
    cut         \* history: records whose request failed after it wrote them

attendanceVars == <<audited, told, cut>>

Entry(m, s, status, action) == [meeting |-> m, scholar |-> s, status |-> status, action |-> action]
Entries == [meeting : Meetings, scholar : Users, status : Marks,
            action : {"RECORDED", "CORRECTED"}]

Timetable ==
    {e \in [course : Courses, starts : Starts, minutes : Lengths, ends : Nat, archived : BOOLEAN] :
        e.ends = e.starts + e.minutes}

\* A recordBulk that has begun: its body, of which the first record is next.
Bulk(at, m, batch, isNew) == [at |-> at, meeting |-> m, batch |-> batch, isNew |-> isNew]
Admission(m, batch, u) == [at |-> "pairing", meeting |-> m, batch |-> batch, mentor |-> u]
Correction(at, m, s, status) == [at |-> at, meeting |-> m, scholar |-> s, status |-> status]
Change(at, m, starts, minutes) == [at |-> at, meeting |-> m, starts |-> starts, minutes |-> minutes]

Suffixes == UNION {{SubSeq(b, i, Len(b)) : i \in 1 .. Len(b)} : b \in Batches}
AttendanceCalls ==
    [at : {"enrolled", "read", "write", "audit", "refresh", "notify"},
     meeting : Meetings, batch : Suffixes, isNew : BOOLEAN]
    \union [at : {"pairing"}, meeting : Meetings, batch : Batches, mentor : Mentors]
    \union [at : {"correct", "correctAudit", "correctRefresh"},
            meeting : Meetings, scholar : Users, status : Marks]
    \union [at : {"reschedule"}, meeting : Meetings, starts : Starts, minutes : Lengths]
    \union [at : {"archive"}, meeting : Meetings]

AttendanceTypeOK ==
    /\ meeting \in [Meetings -> Timetable \union {NoMeeting}]
    /\ members \subseteq Courses \X Users
    /\ pairing \in [Mentors \X Courses \X Scholars -> {None, "ACTIVE", "ENDED"}]
    /\ record \in [Meetings \X Users -> Marks \union {None}]
    /\ audited \subseteq Entries
    /\ told \subseteq Meetings \X Users
    /\ cut \subseteq Meetings \X Users

-----------------------------------------------------------------------------
(* MeetingsService.                                                        *)

\* A course is never deleted, so that finding it and creating the meeting are one.
CreateMeeting(m, k, starts, minutes) ==
    /\ ~Exists(m)
    /\ meeting' = [meeting EXCEPT ![m] = Meeting(k, starts, minutes, starts + minutes, FALSE)]
    /\ UNCHANGED <<members, pairing, record, row, courseOf, archived, call, attendanceVars>>

\* Only a change of the schedule (of the start, the length or both) reads the row
\* again, for the part it keeps.
UpdateReads(c, m, part, starts, minutes) ==
    /\ call[c] = Idle
    /\ Exists(m)
    /\ Goes(c, Change("reschedule", m,
                      IF "starts" \in part THEN starts ELSE meeting[m].starts,
                      IF "minutes" \in part THEN minutes ELSE meeting[m].minutes))
    /\ UNCHANGED <<tables, attendanceVars>>

\* Mutant of UpdateWrites: the end follows from the length of the row as it is.
UpdateWritesOldEnd(c) ==
    /\ call[c].at = "reschedule"
    /\ LET m == call[c].meeting
       IN  meeting' = [meeting EXCEPT ![m] =
               Meeting(meeting[m].course, call[c].starts, call[c].minutes,
                       call[c].starts + meeting[m].minutes, meeting[m].archived)]
    /\ Goes(c, Idle)
    /\ UNCHANGED <<members, pairing, record, row, courseOf, archived, attendanceVars>>

\* The write names the start, the length and the end.
UpdateWrites(c) ==
    /\ call[c].at = "reschedule"
    /\ LET m == call[c].meeting
       IN  meeting' = [meeting EXCEPT ![m] =
               Meeting(meeting[m].course, call[c].starts, call[c].minutes,
                       call[c].starts + call[c].minutes, meeting[m].archived)]
    /\ Goes(c, Idle)
    /\ UNCHANGED <<members, pairing, record, row, courseOf, archived, attendanceVars>>

ArchiveReads(c, m) ==
    /\ call[c] = Idle
    /\ Exists(m) /\ ~meeting[m].archived
    /\ Goes(c, [at |-> "archive", meeting |-> m])
    /\ UNCHANGED <<tables, attendanceVars>>
ArchiveWrites(c) ==
    /\ call[c].at = "archive"
    /\ meeting' = [meeting EXCEPT ![call[c].meeting].archived = TRUE]
    /\ Goes(c, Idle)
    /\ UNCHANGED <<members, pairing, record, row, courseOf, archived, attendanceVars>>
-----------------------------------------------------------------------------
(* AttendanceService.                                                      *)

RecordBulk(c, u, m, batch) ==
    /\ call[c] = Idle
    /\ Exists(m)
    /\ Goes(c, IF u \in Mentors THEN Admission(m, batch, u) ELSE Bulk("enrolled", m, batch, FALSE))
    /\ UNCHANGED <<tables, attendanceVars>>

\* A mentor needs an active pairing in the course.
BulkChecksPairing(c) ==
    /\ call[c].at = "pairing"
    /\ Goes(c, IF MentorOf(call[c].mentor, meeting[call[c].meeting].course)
               THEN Bulk("enrolled", call[c].meeting, call[c].batch, FALSE) ELSE Idle)
    /\ UNCHANGED <<tables, attendanceVars>>

\* Everybody named is a member of the course, in whatever role: "scholar" is the name
\* of the column.
BulkChecksMembers(c) ==
    /\ call[c].at = "enrolled"
    /\ IF \A i \in DOMAIN call[c].batch :
             <<meeting[call[c].meeting].course, call[c].batch[i].scholar>> \in members
       THEN Steps(c, "read") ELSE Goes(c, Idle)
    /\ UNCHANGED <<tables, attendanceVars>>

Scholar(c) == call[c].batch[1].scholar
Status(c) == call[c].batch[1].status
Of(c) == <<call[c].meeting, Scholar(c)>>

\* The record of the request that is being written is done; the next one, if any.
RecordDone(c) ==
    IF Len(call[c].batch) = 1 THEN Goes(c, Idle)
    ELSE Goes(c, Bulk("read", call[c].meeting, Tail(call[c].batch), FALSE))

\* Mutant of BulkReads: isNew as its name has it, so that a changed status is none.
BulkReadsFirst(c) ==
    /\ call[c].at = "read"
    /\ Goes(c, Bulk("write", call[c].meeting, call[c].batch, record[Of(c)] = None))
    /\ UNCHANGED <<tables, attendanceVars>>

\* isNew: the row had another status, or there was none.
BulkReads(c) ==
    /\ call[c].at = "read"
    /\ Goes(c, Bulk("write", call[c].meeting, call[c].batch,
                    record[Of(c)] # Status(c)))
    /\ UNCHANGED <<tables, attendanceVars>>

\* Mutant of BulkWrites: no audit entry.
BulkWritesSilently(c) ==
    /\ call[c].at = "write"
    /\ record' = [record EXCEPT ![Of(c)] = Status(c)]
    /\ IF call[c].isNew THEN Steps(c, "refresh") ELSE RecordDone(c)
    /\ UNCHANGED <<meeting, members, pairing, row, courseOf, archived, attendanceVars>>

BulkWrites(c) ==
    /\ call[c].at = "write"
    /\ record' = [record EXCEPT ![Of(c)] = Status(c)]
    /\ IF call[c].isNew THEN Steps(c, "audit") ELSE RecordDone(c)
    /\ UNCHANGED <<meeting, members, pairing, row, courseOf, archived, attendanceVars>>

BulkAudits(c) ==
    /\ call[c].at = "audit"
    /\ audited' = audited \union {Entry(call[c].meeting, Scholar(c), Status(c), "RECORDED")}
    /\ Steps(c, "refresh")
    /\ UNCHANGED <<tables, told, cut>>

\* The job of the analytics queue: its worker has no body yet, and does nothing.
BulkRefreshes(c) ==
    /\ call[c].at = "refresh"
    /\ IF Status(c) = "ABSENT" THEN Steps(c, "notify") ELSE RecordDone(c)
    /\ UNCHANGED <<tables, attendanceVars>>

BulkNotifies(c) ==
    /\ call[c].at = "notify"
    /\ told' = told \union {Of(c)}
    /\ RecordDone(c)
    /\ UNCHANGED <<tables, audited, cut>>

\* correct, for administrators: whoever is marked is not told.
CorrectReads(c, m, s, status) ==
    /\ call[c] = Idle
    /\ Exists(m) /\ record[m, s] # None
    /\ Goes(c, Correction("correct", m, s, status))
    /\ UNCHANGED <<tables, attendanceVars>>
CorrectWrites(c) ==
    /\ call[c].at = "correct"
    /\ record' = [record EXCEPT ![<<call[c].meeting, call[c].scholar>>] = call[c].status]
    /\ Steps(c, "correctAudit")
    /\ UNCHANGED <<meeting, members, pairing, row, courseOf, archived, attendanceVars>>
CorrectAudits(c) ==
    /\ call[c].at = "correctAudit"
    /\ audited' = audited \union
           {Entry(call[c].meeting, call[c].scholar, call[c].status, "CORRECTED")}
    /\ Steps(c, "correctRefresh")
    /\ UNCHANGED <<tables, told, cut>>
CorrectRefreshes(c) ==
    /\ call[c].at = "correctRefresh"
    /\ Goes(c, Idle)
    /\ UNCHANGED <<tables, attendanceVars>>

\* Any await may reject.  What is written stays, and nobody comes back to it.
AttendanceCallFails(c) ==
    /\ call[c] \in AttendanceCalls
    /\ cut' = cut \union
           (CASE call[c].at \in {"audit", "refresh", "notify"} -> {Of(c)}
              [] call[c].at = "correctAudit" -> {<<call[c].meeting, call[c].scholar>>}
              [] OTHER -> {})
    /\ Goes(c, Idle)
    /\ UNCHANGED <<tables, audited, told>>

\* M and S: the meetings and the members that the requests are about.
CalendarNext(M) ==
    \/ \E m \in M, k \in Courses, t \in Starts, d \in Lengths : CreateMeeting(m, k, t, d)
    \/ \E c \in Calls, m \in M, part \in (SUBSET {"starts", "minutes"}) \ {{}},
          t \in Starts, d \in Lengths : UpdateReads(c, m, part, t, d)
    \/ \E c \in Calls, m \in M : ArchiveReads(c, m)
    \/ \E c \in Calls : UpdateWrites(c) \/ ArchiveWrites(c) \/ AttendanceCallFails(c)

AttendanceNext(M, S) ==
    \/ \E c \in Calls, u \in {Admin} \union Mentors, m \in M, b \in Batches :
          RecordBulk(c, u, m, b)
    \/ \E c \in Calls, m \in M, s \in S, status \in Marks :
          CorrectReads(c, m, s, status)
    \/ \E c \in Calls :
          \/ BulkChecksPairing(c) \/ BulkChecksMembers(c)
          \/ BulkReads(c) \/ BulkWrites(c)
          \/ BulkAudits(c) \/ BulkRefreshes(c) \/ BulkNotifies(c)
          \/ CorrectWrites(c) \/ CorrectAudits(c) \/ CorrectRefreshes(c)
          \/ AttendanceCallFails(c)

-----------------------------------------------------------------------------
(* Properties.                                                             *)

\* Call c will still tell member s, or write the audit entry of the status it wrote.
WillTell(c, m, s) ==
    /\ call[c].at \in {"audit", "refresh", "notify"}
    /\ Of(c) = <<m, s>> /\ Status(c) = "ABSENT"
WillAudit(c, m, s) ==
    \/ call[c].at = "audit" /\ Of(c) = <<m, s>> /\ Status(c) = record[m, s]
    \/ /\ call[c].at = "correctAudit"
       /\ <<call[c].meeting, call[c].scholar>> = <<m, s>> /\ call[c].status = record[m, s]

\* Whoever is recorded as absent has been told, or is about to be, unless the
\* absence is the work of a correction or of a request that failed half way: a
\* recordBulk that finds the member absent already may rely on the one that wrote
\* it (recordBulk, correct).
AbsentIsTold ==
    \A m \in Meetings, s \in Users :
        record[m, s] = "ABSENT" =>
            \/ <<m, s>> \in told \union cut
            \/ Entry(m, s, "ABSENT", "CORRECTED") \in audited
            \/ \E c \in Calls :
                  \/ WillTell(c, m, s)
                  \/ call[c].at = "correctAudit" /\ WillAudit(c, m, s)

\* No record holds a status that the audit log has never heard of, however the
\* requests cross: whoever writes without an audit entry has seen the status in the
\* row, and so somebody else answers for it (recordBulk, "5. Audit each change").
RecordedIsAudited ==
    \A m \in Meetings, s \in Users :
        record[m, s] # None =>
            \/ <<m, s>> \in cut
            \/ \E a \in {"RECORDED", "CORRECTED"} : Entry(m, s, record[m, s], a) \in audited
            \/ \E c \in Calls : WillAudit(c, m, s)
=============================================================================
