--------------------------- MODULE AttendanceProofs ---------------------------
(***************************************************************************)
(* Proofs about Attendance, for any meetings, members and bodies of       *)
(* recordBulk, and any number of requests in flight.                       *)
(***************************************************************************)
EXTENDS Attendance, TLAPS

Item == [scholar : Users, status : Marks]
BulkSteps == {"enrolled", "read", "write", "audit", "refresh", "notify"}
CorrectSteps == {"correct", "correctAudit", "correctRefresh"}

AttendanceCallsOK == call \in [Calls -> AttendanceCalls \union {Idle}]

LEMMA SuffixFacts ==
    ASSUME NEW b \in Suffixes
    PROVE  /\ b \in Seq(Item)
           /\ Len(b) \in Nat \ {0}
           /\ b[1].scholar \in Users /\ b[1].status \in Marks
           /\ Len(b) # 1 => Tail(b) \in Suffixes
  <1>1. PICK a \in Batches : \E i \in 1 .. Len(a) : b = SubSeq(a, i, Len(a))
    BY DEF Suffixes
  <1>0. PICK i \in 1 .. Len(a) : b = SubSeq(a, i, Len(a))
    BY <1>1
  <1>2. a \in Seq(Item) /\ a # <<>>
    BY <1>1, BatchesAssumption DEF Item
  <1>3. b \in Seq(Item) /\ Len(b) = Len(a) - i + 1 /\ Len(a) \in Nat
    BY <1>0, <1>2
  <1>4. b[1] \in Item
    BY <1>3
  <1>5. ASSUME Len(b) # 1
        PROVE  Tail(b) = SubSeq(a, i + 1, Len(a)) /\ i + 1 \in 1 .. Len(a)
    BY <1>0, <1>2, <1>3, <1>5
  <1> QED
    BY <1>1, <1>3, <1>4, <1>5 DEF Item, Suffixes

LEMMA WholeBatch ==
    ASSUME NEW b \in Batches
    PROVE  b \in Suffixes
  <1>1. b \in Seq(Item) /\ b # <<>>
    BY BatchesAssumption DEF Item
  <1>2. b = SubSeq(b, 1, Len(b)) /\ 1 \in 1 .. Len(b)
    BY <1>1
  <1> QED
    BY <1>2 DEF Suffixes

LEMMA BulkCall ==
    ASSUME AttendanceCallsOK, NEW c \in Calls, call[c].at \in BulkSteps
    PROVE  /\ call[c].meeting \in Meetings
           /\ call[c].batch \in Suffixes
           /\ call[c].isNew \in BOOLEAN
           /\ \A at : [call[c] EXCEPT !.at = at] = Bulk(at, call[c].meeting, call[c].batch, call[c].isNew)
  <1>1. call[c] \in [at : BulkSteps, meeting : Meetings, batch : Suffixes, isNew : BOOLEAN]
    BY DEF AttendanceCallsOK, AttendanceCalls, BulkSteps, Idle
  <1> QED
    BY <1>1 DEF Bulk

LEMMA CorrectCall ==
    ASSUME AttendanceCallsOK, NEW c \in Calls, call[c].at \in CorrectSteps
    PROVE  /\ call[c].meeting \in Meetings
           /\ call[c].scholar \in Users
           /\ call[c].status \in Marks
           /\ \A at : [call[c] EXCEPT !.at = at] = Correction(at, call[c].meeting, call[c].scholar, call[c].status)
  <1>1. call[c] \in [at : CorrectSteps, meeting : Meetings, scholar : Users, status : Marks]
    BY DEF AttendanceCallsOK, AttendanceCalls, CorrectSteps, Idle
  <1> QED
    BY <1>1 DEF Correction
-----------------------------------------------------------------------------
(* The inductive invariant: whatever is recorded, some entry, notice or    *)
(* request in flight answers for it, and so it does for what a request     *)
(* that is about to write has seen already and will not audit again.       *)

DutyToTell(c, m, s) ==
    \/ WillTell(c, m, s)
    \/ call[c] = Correction("correctAudit", m, s, "ABSENT")
DutyToAudit(c, m, s, status) ==
    \/ call[c].at = "audit" /\ Of(c) = <<m, s>> /\ Status(c) = status
    \/ call[c] = Correction("correctAudit", m, s, status)

Answered(m, s) ==
    \/ <<m, s>> \in told \union cut
    \/ Entry(m, s, "ABSENT", "CORRECTED") \in audited
    \/ \E c \in Calls : DutyToTell(c, m, s)
Known(m, s, status) ==
    \/ <<m, s>> \in cut
    \/ \E action \in {"RECORDED", "CORRECTED"} : Entry(m, s, status, action) \in audited
    \/ \E c \in Calls : DutyToAudit(c, m, s, status)

Accounted(m, s, status) == Known(m, s, status) /\ (status = "ABSENT" => Answered(m, s))

RecordsAccounted ==
    \A m \in Meetings, s \in Users, status \in Marks :
        record[m, s] = status => Accounted(m, s, status)

\* A request that will not audit what it writes relies on somebody else.
Relies(c, m, s, status) ==
    call[c].at = "write" /\ ~call[c].isNew /\ Of(c) = <<m, s>> /\ Status(c) = status
RelianceOK ==
    \A c \in Calls, m \in Meetings, s \in Users, status \in Marks :
        Relies(c, m, s, status) => Accounted(m, s, status)

MeetingsFound ==
    \A c \in Calls :
        call[c].at \in {"reschedule", "archive"} => meeting[call[c].meeting] \in Timetable

AttendanceInv ==
    AttendanceTypeOK /\ AttendanceCallsOK /\ MeetingsFound /\ RecordsAccounted /\ RelianceOK

\* Two facts about a step: what was accounted for still is, and the duties of c are done
\* or handed on.
Kept ==
    \A m \in Meetings, s \in Users, status \in Marks :
        Accounted(m, s, status) => Accounted(m, s, status)'
Discharged(c) ==
    \A m \in Meetings, s \in Users :
        /\ DutyToTell(c, m, s) => Answered(m, s)'
        /\ \A status \in Marks : DutyToAudit(c, m, s, status) => Known(m, s, status)'

LEMMA DischargedKeeps ==
    ASSUME AttendanceCallsOK, NEW c \in Calls, NEW next, Goes(c, next), Discharged(c),
           told \subseteq told', audited \subseteq audited', cut \subseteq cut'
    PROVE  Kept
  <1> SUFFICES ASSUME NEW m \in Meetings, NEW s \in Users, NEW status \in Marks,
                      Accounted(m, s, status)
               PROVE  Accounted(m, s, status)'
    BY DEF Kept
  <1>1. \A d \in Calls \ {c} : call'[d] = call[d]
    BY DEF Goes, AttendanceCallsOK
  <1>2. ASSUME Answered(m, s) PROVE Answered(m, s)'
    <2>1. ASSUME NEW d \in Calls \ {c}, DutyToTell(d, m, s) PROVE Answered(m, s)'
      BY <1>1, <2>1 DEF Answered, DutyToTell, WillTell, Of, Scholar, Status
    <2>2. CASE DutyToTell(c, m, s)
      BY <2>2 DEF Discharged
    <2> QED
      BY <1>2, <2>1, <2>2 DEF Answered
  <1>3. ASSUME Known(m, s, status) PROVE Known(m, s, status)'
    <2>1. ASSUME NEW d \in Calls \ {c}, DutyToAudit(d, m, s, status) PROVE Known(m, s, status)'
      BY <1>1, <2>1 DEF Known, DutyToAudit, Of, Scholar, Status
    <2>2. CASE DutyToAudit(c, m, s, status)
      BY <2>2 DEF Discharged
    <2> QED
      BY <1>3, <2>1, <2>2 DEF Known
  <1> QED
    BY <1>2, <1>3 DEF Accounted

LEMMA NoDuty ==
    ASSUME NEW c \in Calls, call[c].at \notin {"audit", "refresh", "notify", "correctAudit"}
    PROVE  Discharged(c)
  BY DEF Discharged, DutyToTell, DutyToAudit, WillTell, Correction

\* A step that writes no record, and makes c rely only on what it read.
LEMMA NothingRecorded ==
    ASSUME AttendanceInv, Kept, NEW c \in Calls, NEW next, Goes(c, next), UNCHANGED record,
           \A m \in Meetings, s \in Users, status \in Marks :
               Relies(c, m, s, status)' => record[m, s] = status
    PROVE  RecordsAccounted' /\ RelianceOK'
  <1>1. RecordsAccounted'
    BY DEF Kept, RecordsAccounted, AttendanceInv
  <1>2. RelianceOK'
    <2> SUFFICES ASSUME NEW d \in Calls, NEW m \in Meetings, NEW s \in Users,
                        NEW status \in Marks, Relies(d, m, s, status)'
                 PROVE  Accounted(m, s, status)'
      BY DEF RelianceOK
    <2>1. CASE d = c
      BY <2>1 DEF Kept, RecordsAccounted, AttendanceInv
    <2>2. CASE d # c
      <3>1. call'[d] = call[d]
        BY <2>2 DEF Goes, AttendanceInv, AttendanceCallsOK
      <3>2. Relies(d, m, s, status)
        BY <3>1 DEF Relies, Of, Scholar, Status
      <3> QED
        BY <3>2 DEF Kept, RelianceOK, AttendanceInv
    <2> QED
      BY <2>1, <2>2
  <1> QED
    BY <1>1, <1>2
-----------------------------------------------------------------------------
(* What the actions build.                                                 *)

LEMMA CallsBuilt ==
    ASSUME NEW m \in Meetings
    PROVE  /\ \A at \in BulkSteps, b \in Suffixes, n \in BOOLEAN :
                 Bulk(at, m, b, n) \in AttendanceCalls
           /\ \A b \in Batches, u \in Mentors : Admission(m, b, u) \in AttendanceCalls
           /\ \A at \in CorrectSteps, s \in Users, status \in Marks :
                 Correction(at, m, s, status) \in AttendanceCalls
           /\ \A t \in Starts, d \in Lengths :
                 Change("reschedule", m, t, d) \in AttendanceCalls
           /\ [at |-> "archive", meeting |-> m] \in AttendanceCalls
  BY DEF AttendanceCalls, BulkSteps, CorrectSteps, Bulk, Admission, Correction, Change

LEMMA MeetingCall ==
    ASSUME NEW e \in AttendanceCalls \union {Idle}, e.at \in {"reschedule", "archive"}
    PROVE  /\ e.meeting \in Meetings
           /\ e.at = "reschedule" => e.starts \in Starts /\ e.minutes \in Lengths
  <1>1. \/ e \in [at : {"reschedule"}, meeting : Meetings, starts : Starts, minutes : Lengths]
        \/ e \in [at : {"archive"}, meeting : Meetings]
    BY DEF AttendanceCalls, Idle
  <1> QED
    BY <1>1

LEMMA MeetingsBuilt ==
    ASSUME NEW t \in Starts, NEW d \in Lengths
    PROVE  /\ \A k \in Courses : Meeting(k, t, d, t + d, FALSE) \in Timetable
           /\ \A e \in Timetable : Meeting(e.course, t, d, t + d, e.archived) \in Timetable
  BY TimesAssumption DEF Timetable, Meeting

LEMMA MeetingsKnown ==
    ASSUME NEW e \in Timetable
    PROVE  /\ e.starts \in Starts /\ e.minutes \in Lengths
           /\ [e EXCEPT !.archived = TRUE] \in Timetable
  BY DEF Timetable

Monotone == told \subseteq told' /\ audited \subseteq audited' /\ cut \subseteq cut'
MeetingsKept == \A m \in Meetings : meeting[m] \in Timetable => meeting'[m] \in Timetable

LEMMA StepInv ==
    ASSUME AttendanceInv, AttendanceTypeOK', Monotone, MeetingsKept, UNCHANGED record,
           NEW c \in Calls, NEW next \in AttendanceCalls \union {Idle}, Goes(c, next),
           Discharged(c),
           next.at \in {"reschedule", "archive"} => meeting'[next.meeting] \in Timetable,
           next.at = "write" /\ ~next.isNew =>
               record[next.meeting, next.batch[1].scholar] = next.batch[1].status
    PROVE  AttendanceInv'
  <1>1. call'[c] = next /\ \A d \in Calls \ {c} : call'[d] = call[d]
    BY DEF Goes, AttendanceInv, AttendanceCallsOK
  <1>2. AttendanceCallsOK'
    BY DEF Goes, AttendanceInv, AttendanceCallsOK
  <1>3. Kept
    BY DischargedKeeps DEF AttendanceInv, Monotone
  <1>4. MeetingsFound'
    <2> SUFFICES ASSUME NEW d \in Calls, call'[d].at \in {"reschedule", "archive"}
                 PROVE  meeting'[call'[d].meeting] \in Timetable
      BY DEF MeetingsFound
    <2>1. call'[d].meeting \in Meetings
      BY <1>2, MeetingCall DEF AttendanceCallsOK
    <2> QED
      BY <1>1, <2>1 DEF AttendanceInv, MeetingsFound, MeetingsKept
  <1>5. \A m \in Meetings, s \in Users, status \in Marks :
            Relies(c, m, s, status)' => record[m, s] = status
    BY <1>1 DEF Relies, Of, Scholar, Status
  <1>6. RecordsAccounted' /\ RelianceOK'
    BY <1>3, <1>5, NothingRecorded
  <1> QED
    BY <1>2, <1>4, <1>6 DEF AttendanceInv

\* The same for a step that writes neither meeting nor record.
LEMMA PlainStep ==
    ASSUME AttendanceInv, AttendanceTypeOK', Monotone, UNCHANGED <<meeting, record>>,
           NEW c \in Calls, NEW next \in AttendanceCalls \union {Idle}, Goes(c, next),
           Discharged(c), next.at \notin {"reschedule", "archive", "write"}
    PROVE  AttendanceInv'
  BY StepInv DEF MeetingsKept

LEMMA FailedStep ==
    ASSUME AttendanceInv, AttendanceTypeOK', Monotone, NEW c \in Calls, AttendanceCallFails(c),
           Discharged(c)
    PROVE  AttendanceInv'
  <1>1. Idle.at = "idle"
    BY DEF Idle
  <1> QED
    BY <1>1, PlainStep DEF AttendanceCallFails, tables

NextItem(c) ==
    IF Len(call[c].batch) = 1 THEN Idle
    ELSE Bulk("read", call[c].meeting, Tail(call[c].batch), FALSE)

LEMMA RecordDoneGoes ==
    ASSUME AttendanceCallsOK, NEW c \in Calls, call[c].at \in BulkSteps, RecordDone(c)
    PROVE  /\ Goes(c, NextItem(c))
           /\ NextItem(c) \in AttendanceCalls \union {Idle}
           /\ NextItem(c).at \in {"idle", "read"}
  <1>1. call[c].meeting \in Meetings /\ call[c].batch \in Suffixes
    BY BulkCall
  <1>2. Len(call[c].batch) # 1 =>
            Bulk("read", call[c].meeting, Tail(call[c].batch), FALSE) \in AttendanceCalls
    BY <1>1, SuffixFacts, CallsBuilt DEF BulkSteps
  <1> QED
    BY <1>2 DEF RecordDone, NextItem, Bulk, Idle
\* A request that fails leaves the records it had yet to answer for in cut.
LEMMA FailsInv ==
    ASSUME AttendanceInv, NEW c \in Calls, AttendanceCallFails(c)
    PROVE  AttendanceInv'
  <1>1. CASE call[c].at \in {"audit", "refresh", "notify"}
    <2>1. /\ call[c].meeting \in Meetings /\ Scholar(c) \in Users
          /\ cut' = cut \union {Of(c)}
      BY <1>1, BulkCall, SuffixFacts
      DEF AttendanceCallFails, BulkSteps, AttendanceInv, Scholar
    <2>2. Discharged(c)
      BY <1>1, <2>1 DEF Discharged, DutyToTell, DutyToAudit, WillTell, Answered, Known, Correction
    <2>3. AttendanceTypeOK' /\ Monotone
      BY <2>1 DEF AttendanceCallFails, AttendanceInv, AttendanceTypeOK, Monotone, Of, tables
    <2> QED
      BY <2>2, <2>3, FailedStep
  <1>2. CASE call[c].at = "correctAudit"
    <2>1. /\ call[c].meeting \in Meetings /\ call[c].scholar \in Users
          /\ cut' = cut \union {<<call[c].meeting, call[c].scholar>>}
      BY <1>2, CorrectCall DEF AttendanceCallFails, CorrectSteps, AttendanceInv
    <2>2. Discharged(c)
      BY <1>2, <2>1 DEF Discharged, DutyToTell, DutyToAudit, WillTell, Answered, Known, Correction
    <2>3. AttendanceTypeOK' /\ Monotone
      BY <2>1 DEF AttendanceCallFails, AttendanceInv, AttendanceTypeOK, Monotone, tables
    <2> QED
      BY <2>2, <2>3, FailedStep
  <1>3. CASE call[c].at \notin {"audit", "refresh", "notify", "correctAudit"}
    <2>1. cut' = cut
      BY <1>3 DEF AttendanceCallFails
    <2>2. Discharged(c)
      BY <1>3, NoDuty
    <2>3. AttendanceTypeOK' /\ Monotone
      BY <2>1 DEF AttendanceCallFails, AttendanceInv, AttendanceTypeOK, Monotone, tables
    <2> QED
      BY <2>2, <2>3, FailedStep
  <1> QED
    BY <1>1, <1>2, <1>3

-----------------------------------------------------------------------------
(* The steps of the calendar.                                              *)

LEMMA CalendarInv ==
    ASSUME AttendanceInv, NEW M \in SUBSET Meetings, CalendarNext(M)
    PROVE  AttendanceInv'
  <1> USE DEF tables, attendanceVars
  <1>1. ASSUME NEW m \in M, NEW k \in Courses, NEW t \in Starts, NEW d \in Lengths,
               CreateMeeting(m, k, t, d)
        PROVE  AttendanceInv'
    <2>1. AttendanceTypeOK' /\ MeetingsKept
      <3>1. Meeting(k, t, d, t + d, FALSE) \in Timetable
        BY MeetingsBuilt
      <3> QED
        BY <1>1, <3>1 DEF CreateMeeting, AttendanceInv, AttendanceTypeOK, MeetingsKept
    <2>2. \A x \in Meetings, s \in Users, status \in Marks :
              Accounted(x, s, status) <=> Accounted(x, s, status)'
      BY <1>1 DEF CreateMeeting, Accounted, Known, Answered, DutyToTell, DutyToAudit, WillTell,
                  Of, Scholar, Status
    <2>3. RecordsAccounted' /\ RelianceOK'
      BY <1>1, <2>2 DEF CreateMeeting, RecordsAccounted, RelianceOK, Relies, Of, Scholar, Status,
                        AttendanceInv
    <2>4. AttendanceCallsOK'
      BY <1>1 DEF CreateMeeting, AttendanceCallsOK, AttendanceInv
    <2>5. MeetingsFound'
      <3> SUFFICES ASSUME NEW c \in Calls, call[c].at \in {"reschedule", "archive"}
                   PROVE  meeting'[call[c].meeting] \in Timetable
        BY <1>1 DEF CreateMeeting, MeetingsFound
      <3>1. call[c].meeting \in Meetings
        BY MeetingCall DEF AttendanceInv, AttendanceCallsOK
      <3> QED
        BY <2>1, <3>1 DEF MeetingsKept, MeetingsFound, AttendanceInv
    <2> QED
      BY <2>1, <2>3, <2>4, <2>5 DEF AttendanceInv
  <1>2. ASSUME NEW c \in Calls, NEW m \in M, NEW part \in SUBSET {"starts", "minutes"},
               NEW t \in Starts, NEW d \in Lengths, UpdateReads(c, m, part, t, d)
        PROVE  AttendanceInv'
    <2> DEFINE next == Change("reschedule", m,
                              IF "starts" \in part THEN t ELSE meeting[m].starts,
                              IF "minutes" \in part THEN d ELSE meeting[m].minutes)
    <2>1. meeting[m] \in Timetable
      BY <1>2 DEF UpdateReads, Exists, AttendanceInv, AttendanceTypeOK
    <2>2. meeting[m].starts \in Starts /\ meeting[m].minutes \in Lengths
      BY <2>1, MeetingsKnown
    <2>3. next \in AttendanceCalls /\ next.at = "reschedule" /\ next.meeting = m
      BY <2>2, CallsBuilt DEF Change
    <2>4. AttendanceTypeOK' /\ Monotone /\ MeetingsKept /\ UNCHANGED <<meeting, record>>
      BY <1>2 DEF UpdateReads, AttendanceInv, AttendanceTypeOK, Monotone, MeetingsKept
    <2>5. Discharged(c)
      BY <1>2, NoDuty DEF UpdateReads, Idle
    <2>6. Goes(c, next)
      BY <1>2 DEF UpdateReads
    <2> HIDE DEF next
    <2> QED
      BY <2>1, <2>3, <2>4, <2>5, <2>6, StepInv
  <1>3. ASSUME NEW c \in Calls, NEW m \in M, ArchiveReads(c, m)
        PROVE  AttendanceInv'
    <2> DEFINE next == [at |-> "archive", meeting |-> m]
    <2>1. meeting[m] \in Timetable
      BY <1>3 DEF ArchiveReads, Exists, AttendanceInv, AttendanceTypeOK
    <2>2. next \in AttendanceCalls /\ next.at = "archive" /\ next.meeting = m
      BY CallsBuilt
    <2>3. AttendanceTypeOK' /\ Monotone /\ MeetingsKept /\ UNCHANGED <<meeting, record>>
      BY <1>3 DEF ArchiveReads, AttendanceInv, AttendanceTypeOK, Monotone, MeetingsKept
    <2>4. Discharged(c)
      BY <1>3, NoDuty DEF ArchiveReads, Idle
    <2>5. Goes(c, next)
      BY <1>3 DEF ArchiveReads
    <2> HIDE DEF next
    <2> QED
      BY <2>1, <2>2, <2>3, <2>4, <2>5, StepInv
  <1>4. ASSUME NEW c \in Calls, UpdateWrites(c)
        PROVE  AttendanceInv'
    <2>1. call[c].meeting \in Meetings /\ call[c].starts \in Starts /\ call[c].minutes \in Lengths
      BY <1>4, MeetingCall DEF UpdateWrites, AttendanceInv, AttendanceCallsOK
    <2>2. meeting[call[c].meeting] \in Timetable
      BY <1>4 DEF UpdateWrites, AttendanceInv, MeetingsFound
    <2>3. PICK m \in Meetings, e \in Timetable :
             m = call[c].meeting /\ meeting' = [meeting EXCEPT ![m] = e]
      BY <1>4, <2>1, <2>2, MeetingsBuilt DEF UpdateWrites
    <2>4. AttendanceTypeOK' /\ Monotone /\ MeetingsKept /\ UNCHANGED record
      BY <1>4, <2>3 DEF UpdateWrites, AttendanceInv, AttendanceTypeOK, Monotone, MeetingsKept
    <2>5. Goes(c, Idle) /\ Discharged(c)
      BY <1>4, NoDuty DEF UpdateWrites
    <2>6. Idle.at = "idle"
      BY DEF Idle
    <2> QED
      BY <2>4, <2>5, <2>6, StepInv
  <1>5. ASSUME NEW c \in Calls, ArchiveWrites(c)
        PROVE  AttendanceInv'
    <2>1. call[c].meeting \in Meetings
      BY <1>5, MeetingCall DEF ArchiveWrites, AttendanceInv, AttendanceCallsOK
    <2>2. meeting[call[c].meeting] \in Timetable
      BY <1>5 DEF ArchiveWrites, AttendanceInv, MeetingsFound
    <2>3. PICK m \in Meetings, e \in Timetable :
             m = call[c].meeting /\ meeting' = [meeting EXCEPT ![m] = e]
      <3>1. meeting' = [meeting EXCEPT ![call[c].meeting] =
                           [meeting[call[c].meeting] EXCEPT !.archived = TRUE]]
        BY <1>5 DEF ArchiveWrites
      <3> QED
        BY <2>1, <2>2, <3>1, MeetingsKnown
    <2>4. AttendanceTypeOK' /\ Monotone /\ MeetingsKept /\ UNCHANGED record
      BY <1>5, <2>3 DEF ArchiveWrites, AttendanceInv, AttendanceTypeOK, Monotone, MeetingsKept
    <2>5. Goes(c, Idle) /\ Discharged(c)
      BY <1>5, NoDuty DEF ArchiveWrites
    <2>6. Idle.at = "idle"
      BY DEF Idle
    <2> QED
      BY <2>4, <2>5, <2>6, StepInv
  <1>6. ASSUME NEW c \in Calls, AttendanceCallFails(c)
        PROVE  AttendanceInv'
    BY <1>6, FailsInv
  <1> QED
    BY <1>1, <1>2, <1>3, <1>4, <1>5, <1>6 DEF CalendarNext
-----------------------------------------------------------------------------
(* The steps of attendance.                                                *)

\* Requests that arrive, and are checked.
LEMMA ArrivalInv ==
    ASSUME AttendanceInv, NEW c \in Calls, NEW m \in Meetings,
           \/ \E u \in {Admin} \union Mentors, b \in Batches : RecordBulk(c, u, m, b)
           \/ \E s \in Users, status \in Marks : CorrectReads(c, m, s, status)
    PROVE  AttendanceInv'
  <1> USE DEF tables, attendanceVars
  <1>1. ASSUME NEW u \in {Admin} \union Mentors, NEW b \in Batches, RecordBulk(c, u, m, b)
        PROVE  AttendanceInv'
    <2>1. PICK next \in AttendanceCalls :
             Goes(c, next) /\ next.at \in {"pairing", "enrolled"}
      BY <1>1, CallsBuilt, WholeBatch DEF RecordBulk, BulkSteps, Admission, Bulk
    <2>2. AttendanceTypeOK' /\ Monotone /\ UNCHANGED <<meeting, record>>
      BY <1>1 DEF RecordBulk, AttendanceInv, AttendanceTypeOK, Monotone
    <2>3. Discharged(c)
      BY <1>1, NoDuty DEF RecordBulk, Idle
    <2> QED
      BY <2>1, <2>2, <2>3, PlainStep
  <1>2. ASSUME NEW s \in Users, NEW status \in Marks, CorrectReads(c, m, s, status)
        PROVE  AttendanceInv'
    <2>1. PICK next \in AttendanceCalls : Goes(c, next) /\ next.at = "correct"
      BY <1>2, CallsBuilt DEF CorrectReads, CorrectSteps, Correction
    <2>2. AttendanceTypeOK' /\ Monotone /\ UNCHANGED <<meeting, record>>
      BY <1>2 DEF CorrectReads, AttendanceInv, AttendanceTypeOK, Monotone
    <2>3. Discharged(c)
      <3>0. call[c] = Idle
        BY <1>2 DEF CorrectReads
      <3>1. call[c].at = "idle"
        BY <3>0 DEF Idle
      <3> QED
        BY <3>1, NoDuty
    <2> QED
      BY <2>1, <2>2, <2>3, PlainStep
  <1> QED
    BY <1>1, <1>2

LEMMA ChecksInv ==
    ASSUME AttendanceInv, NEW c \in Calls, BulkChecksPairing(c) \/ BulkChecksMembers(c)
    PROVE  AttendanceInv'
  <1> USE DEF tables, attendanceVars
  <1>1. Idle.at = "idle"
    BY DEF Idle
  <1>2. AttendanceTypeOK' /\ Monotone /\ UNCHANGED <<meeting, record>>
    BY DEF BulkChecksPairing, BulkChecksMembers, AttendanceInv, AttendanceTypeOK, Monotone
  <1>3. Discharged(c)
    BY NoDuty DEF BulkChecksPairing, BulkChecksMembers
  <1>4. CASE BulkChecksPairing(c)
    <2>1. call[c] \in [at : {"pairing"}, meeting : Meetings, batch : Batches, mentor : Mentors]
      BY <1>4 DEF BulkChecksPairing, AttendanceInv, AttendanceCallsOK, AttendanceCalls, Idle
    <2>2. PICK next \in AttendanceCalls \union {Idle} :
             Goes(c, next) /\ next.at \in {"idle", "enrolled"}
      <3>1. Bulk("enrolled", call[c].meeting, call[c].batch, FALSE) \in AttendanceCalls
        BY <2>1, CallsBuilt, WholeBatch DEF BulkSteps
      <3>2. Bulk("enrolled", call[c].meeting, call[c].batch, FALSE).at = "enrolled"
        BY DEF Bulk
      <3> QED
        BY <1>1, <1>4, <3>1, <3>2 DEF BulkChecksPairing
    <2> QED
      BY <1>2, <1>3, <2>2, PlainStep
  <1>5. CASE BulkChecksMembers(c)
    <2>1. [call[c] EXCEPT !.at = "read"] =
              Bulk("read", call[c].meeting, call[c].batch, call[c].isNew)
          /\ Bulk("read", call[c].meeting, call[c].batch, call[c].isNew) \in AttendanceCalls
      BY <1>5, BulkCall, CallsBuilt DEF BulkChecksMembers, BulkSteps, AttendanceInv
    <2>2. PICK next \in AttendanceCalls \union {Idle} :
             Goes(c, next) /\ next.at \in {"idle", "read"}
      BY <1>1, <1>5, <2>1 DEF BulkChecksMembers, Steps, Bulk
    <2> QED
      BY <1>2, <1>3, <2>2, PlainStep
  <1> QED
    BY <1>4, <1>5

\* recordBulk reads the row: what it will not audit, it has seen.
LEMMA BulkReadsInv ==
    ASSUME AttendanceInv, NEW c \in Calls, BulkReads(c)
    PROVE  AttendanceInv'
  <1>1. call[c].meeting \in Meetings /\ call[c].batch \in Suffixes
    BY BulkCall DEF BulkReads, BulkSteps, AttendanceInv
  <1>2. PICK new \in BOOLEAN : new = (record[Of(c)] # Status(c))
    OBVIOUS
  <1>3. Goes(c, Bulk("write", call[c].meeting, call[c].batch, new))
    BY <1>2 DEF BulkReads
  <1>4. Bulk("write", call[c].meeting, call[c].batch, new) \in AttendanceCalls
    BY <1>1, CallsBuilt DEF BulkSteps
  <1>5. ~new => record[call[c].meeting, call[c].batch[1].scholar] = call[c].batch[1].status
    BY <1>2 DEF Of, Scholar, Status
  <1>6. AttendanceTypeOK' /\ Monotone /\ MeetingsKept /\ UNCHANGED <<meeting, record>>
    BY DEF BulkReads, AttendanceInv, AttendanceTypeOK, Monotone, MeetingsKept, tables, attendanceVars
  <1>7. Discharged(c)
    BY NoDuty DEF BulkReads
  <1> QED
    BY <1>3, <1>4, <1>5, <1>6, <1>7, StepInv DEF Bulk

LEMMA BulkAuditsInv ==
    ASSUME AttendanceInv, NEW c \in Calls, BulkAudits(c)
    PROVE  AttendanceInv'
  <1> DEFINE next == Bulk("refresh", call[c].meeting, call[c].batch, call[c].isNew)
  <1>1. /\ call[c].meeting \in Meetings /\ call[c].batch \in Suffixes
        /\ Scholar(c) \in Users /\ Status(c) \in Marks
        /\ Goes(c, next) /\ next \in AttendanceCalls
    BY BulkCall, SuffixFacts, CallsBuilt
    DEF BulkAudits, BulkSteps, AttendanceInv, Steps, Scholar, Status
  <1>2. audited' = audited \union {Entry(call[c].meeting, Scholar(c), Status(c), "RECORDED")}
    BY DEF BulkAudits
  <1>3. AttendanceTypeOK' /\ Monotone /\ UNCHANGED <<meeting, record>>
    BY <1>1, <1>2
    DEF BulkAudits, AttendanceInv, AttendanceTypeOK, Monotone, tables, Entry, Entries
  <1>4. call'[c] = next
    BY <1>1 DEF Goes, AttendanceInv, AttendanceCallsOK
  <1>5. Discharged(c)
    <2> SUFFICES ASSUME NEW m \in Meetings, NEW s \in Users
                 PROVE  /\ DutyToTell(c, m, s) => Answered(m, s)'
                        /\ \A status \in Marks : DutyToAudit(c, m, s, status) => Known(m, s, status)'
      BY DEF Discharged
    <2>1. ASSUME DutyToTell(c, m, s) PROVE Answered(m, s)'
      <3>1. WillTell(c, m, s)
        BY <2>1 DEF DutyToTell, BulkAudits, Correction
      <3>2. WillTell(c, m, s)'
        BY <1>4, <3>1 DEF WillTell, Of, Scholar, Status, Bulk
      <3> QED
        BY <3>2 DEF Answered, DutyToTell
    <2>2. ASSUME NEW status \in Marks, DutyToAudit(c, m, s, status) PROVE Known(m, s, status)'
      <3>1. Of(c) = <<m, s>> /\ Status(c) = status
        BY <2>2 DEF DutyToAudit, BulkAudits, Correction
      <3>2. Entry(m, s, status, "RECORDED") \in audited'
        BY <1>2, <3>1 DEF Of
      <3> QED
        BY <3>2 DEF Known
    <2> QED
      BY <2>1, <2>2
  <1>6. next.at = "refresh"
    BY DEF Bulk
  <1> HIDE DEF next
  <1> QED
    BY <1>1, <1>3, <1>5, <1>6, PlainStep

LEMMA BulkRefreshesInv ==
    ASSUME AttendanceInv, NEW c \in Calls, BulkRefreshes(c)
    PROVE  AttendanceInv'
  <1>1. AttendanceTypeOK' /\ Monotone /\ UNCHANGED <<meeting, record>>
    BY DEF BulkRefreshes, AttendanceInv, AttendanceTypeOK, Monotone, tables, attendanceVars
  <1>2. CASE Status(c) = "ABSENT"
    <2> DEFINE next == Bulk("notify", call[c].meeting, call[c].batch, call[c].isNew)
    <2>1. Goes(c, next) /\ next \in AttendanceCalls
      BY <1>2, BulkCall, CallsBuilt DEF BulkRefreshes, BulkSteps, AttendanceInv, Steps
    <2>2. call'[c] = next /\ next.at = "notify"
      BY <2>1 DEF Goes, AttendanceInv, AttendanceCallsOK, Bulk
    <2>3. ASSUME NEW m \in Meetings, NEW s \in Users, DutyToTell(c, m, s)
          PROVE  Answered(m, s)'
      <3>1. WillTell(c, m, s)
        BY <2>3 DEF DutyToTell, BulkRefreshes, Correction
      <3>2. WillTell(c, m, s)'
        BY <2>2, <3>1 DEF WillTell, Of, Scholar, Status, Bulk
      <3> QED
        BY <3>2 DEF Answered, DutyToTell
    <2>4. Discharged(c)
      BY <2>3 DEF Discharged, DutyToAudit, BulkRefreshes, Correction
    <2> HIDE DEF next
    <2> QED
      BY <1>1, <2>1, <2>2, <2>4, PlainStep
  <1>3. CASE Status(c) # "ABSENT"
    <2>1. Discharged(c)
      BY <1>3 DEF Discharged, DutyToTell, DutyToAudit, WillTell, BulkRefreshes, Correction
    <2>2. RecordDone(c) /\ call[c].at \in BulkSteps
      BY <1>3 DEF BulkRefreshes, BulkSteps
    <2> QED
      BY <1>1, <2>1, <2>2, RecordDoneGoes, PlainStep DEF AttendanceInv
  <1> QED
    BY <1>2, <1>3

LEMMA BulkNotifiesInv ==
    ASSUME AttendanceInv, NEW c \in Calls, BulkNotifies(c)
    PROVE  AttendanceInv'
  <1>1. call[c].meeting \in Meetings /\ Scholar(c) \in Users /\ told' = told \union {Of(c)}
    BY BulkCall, SuffixFacts DEF BulkNotifies, BulkSteps, AttendanceInv, Scholar
  <1>2. AttendanceTypeOK' /\ Monotone /\ UNCHANGED <<meeting, record>>
    BY <1>1 DEF BulkNotifies, AttendanceInv, AttendanceTypeOK, Monotone, tables, Of
  <1>3. Discharged(c)
    BY <1>1 DEF Discharged, DutyToTell, DutyToAudit, WillTell, Answered, BulkNotifies, Correction
  <1>4. RecordDone(c) /\ call[c].at \in BulkSteps
    BY DEF BulkNotifies, BulkSteps
  <1> QED
    BY <1>2, <1>3, <1>4, RecordDoneGoes, PlainStep DEF AttendanceInv
-----------------------------------------------------------------------------
(* The two writes of a record.                                             *)

\* Whoever writes a status answers for it, or relies on somebody who does.
LEMMA RecordWritten ==
    ASSUME AttendanceInv, NEW c \in Calls, NEW m \in Meetings, NEW s \in Users,
           NEW new \in Marks, NEW next \in AttendanceCalls \union {Idle}, Goes(c, next),
           record' = [record EXCEPT ![<<m, s>>] = new],
           UNCHANGED <<meeting, members, pairing, audited, told, cut>>,
           Discharged(c), Accounted(m, s, new)',
           next.at \notin {"reschedule", "archive", "write"}
    PROVE  AttendanceInv'
  <1>1. call'[c] = next /\ \A d \in Calls \ {c} : call'[d] = call[d]
    BY DEF Goes, AttendanceInv, AttendanceCallsOK
  <1>2. AttendanceCallsOK'
    BY DEF Goes, AttendanceInv, AttendanceCallsOK
  <1>3. AttendanceTypeOK'
    BY DEF AttendanceInv, AttendanceTypeOK
  <1>4. Kept
    BY DischargedKeeps DEF AttendanceInv
  <1>5. RecordsAccounted'
    <2> SUFFICES ASSUME NEW x \in Meetings, NEW z \in Users, NEW status \in Marks,
                        record'[x, z] = status
                 PROVE  Accounted(x, z, status)'
      BY DEF RecordsAccounted
    <2>1. CASE <<x, z>> = <<m, s>>
      <3>1. x = m /\ z = s /\ status = new
        BY <2>1 DEF AttendanceInv, AttendanceTypeOK
      <3> QED
        BY <3>1
    <2>2. CASE <<x, z>> # <<m, s>>
      <3>1. record[x, z] = status
        BY <2>2 DEF AttendanceInv, AttendanceTypeOK
      <3> QED
        BY <1>4, <3>1 DEF AttendanceInv, RecordsAccounted, Kept
    <2> QED
      BY <2>1, <2>2
  <1>6. RelianceOK'
    <2> SUFFICES ASSUME NEW d \in Calls, NEW x \in Meetings, NEW z \in Users,
                        NEW status \in Marks, Relies(d, x, z, status)'
                 PROVE  Accounted(x, z, status)'
      BY DEF RelianceOK
    <2>1. d # c
      BY <1>1 DEF Relies
    <2>2. Relies(d, x, z, status)
      BY <1>1, <2>1 DEF Relies, Of, Scholar, Status
    <2> QED
      BY <1>4, <2>2 DEF AttendanceInv, RelianceOK, Kept
  <1>7. MeetingsFound'
    BY <1>1 DEF MeetingsFound, AttendanceInv
  <1> QED
    BY <1>2, <1>3, <1>5, <1>6, <1>7 DEF AttendanceInv

LEMMA BulkWritesInv ==
    ASSUME AttendanceInv, NEW c \in Calls, BulkWrites(c)
    PROVE  AttendanceInv'
  <1>1. PICK m \in Meetings, s \in Users, new \in Marks, batch \in Suffixes, isNew \in BOOLEAN :
           /\ m = call[c].meeting /\ batch = call[c].batch /\ isNew = call[c].isNew
           /\ s = Scholar(c) /\ new = Status(c)
    BY BulkCall, SuffixFacts DEF BulkWrites, BulkSteps, AttendanceInv, Scholar, Status
  <1>2. record' = [record EXCEPT ![<<m, s>>] = new]
    BY <1>1 DEF BulkWrites, Of
  <1>3. UNCHANGED <<meeting, members, pairing, audited, told, cut>>
    BY DEF BulkWrites, attendanceVars
  <1>4. Discharged(c)
    BY NoDuty DEF BulkWrites
  <1>5. CASE isNew
    <2> DEFINE next == Bulk("audit", m, batch, isNew)
    <2>1. Goes(c, next) /\ next \in AttendanceCalls
      BY <1>1, <1>5, BulkCall, CallsBuilt DEF BulkWrites, BulkSteps, AttendanceInv, Steps
    <2>2. call'[c] = next /\ next.at = "audit" /\ next.meeting = m /\ next.batch = batch
      BY <2>1 DEF Goes, AttendanceInv, AttendanceCallsOK, Bulk
    <2>3. Of(c)' = <<m, s>> /\ Status(c)' = new
      BY <1>1, <2>2 DEF Of, Scholar, Status
    <2>4. Accounted(m, s, new)'
      BY <2>2, <2>3 DEF Accounted, Known, Answered, DutyToTell, DutyToAudit, WillTell
    <2> HIDE DEF next
    <2> QED
      BY <1>2, <1>3, <1>4, <2>1, <2>2, <2>4, RecordWritten
  <1>6. CASE ~isNew
    <2>1. RecordDone(c) /\ call[c].at \in BulkSteps
      BY <1>1, <1>6 DEF BulkWrites, BulkSteps
    <2>2. Relies(c, m, s, new)
      BY <1>1, <1>6 DEF Relies, BulkWrites, Of
    <2>3. Kept
      BY <1>3, <1>4, <2>1, RecordDoneGoes, DischargedKeeps DEF AttendanceInv
    <2>4. Accounted(m, s, new)'
      BY <2>2, <2>3 DEF AttendanceInv, RelianceOK, Kept
    <2> QED
      BY <1>2, <1>3, <1>4, <2>1, <2>4, RecordDoneGoes, RecordWritten DEF AttendanceInv
  <1> QED
    BY <1>5, <1>6

LEMMA CorrectionInv ==
    ASSUME AttendanceInv, NEW c \in Calls,
           CorrectWrites(c) \/ CorrectAudits(c) \/ CorrectRefreshes(c)
    PROVE  AttendanceInv'
  <1>1. PICK m \in Meetings, s \in Users, new \in Marks :
           m = call[c].meeting /\ s = call[c].scholar /\ new = call[c].status
    BY CorrectCall DEF CorrectWrites, CorrectAudits, CorrectRefreshes, CorrectSteps, AttendanceInv
  <1>2. CASE CorrectWrites(c)
    <2> DEFINE next == Correction("correctAudit", m, s, new)
    <2>1. Goes(c, next) /\ next \in AttendanceCalls
      BY <1>1, <1>2, CorrectCall, CallsBuilt DEF CorrectWrites, CorrectSteps, AttendanceInv, Steps
    <2>2. call'[c] = next /\ next.at = "correctAudit"
      BY <2>1 DEF Goes, AttendanceInv, AttendanceCallsOK, Correction
    <2>3. Accounted(m, s, new)'
      BY <2>2 DEF Accounted, Known, Answered, DutyToTell, DutyToAudit
    <2>4. /\ record' = [record EXCEPT ![<<m, s>>] = new]
          /\ UNCHANGED <<meeting, members, pairing, audited, told, cut>>
      BY <1>1, <1>2 DEF CorrectWrites, attendanceVars
    <2>5. Discharged(c)
      BY <1>2, NoDuty DEF CorrectWrites
    <2> HIDE DEF next
    <2> QED
      BY <2>1, <2>2, <2>3, <2>4, <2>5, RecordWritten
  <1>3. CASE CorrectAudits(c)
    <2> DEFINE next == Correction("correctRefresh", m, s, new)
    <2>1. Goes(c, next) /\ next \in AttendanceCalls /\ next.at = "correctRefresh"
      BY <1>1, <1>3, CorrectCall, CallsBuilt
      DEF CorrectAudits, CorrectSteps, AttendanceInv, Steps, Correction
    <2>2. audited' = audited \union {Entry(m, s, new, "CORRECTED")}
      BY <1>1, <1>3 DEF CorrectAudits
    <2>3. AttendanceTypeOK' /\ Monotone /\ UNCHANGED <<meeting, record>>
      BY <1>3, <2>2
      DEF CorrectAudits, AttendanceInv, AttendanceTypeOK, Monotone, tables, Entry, Entries
    <2>4. Discharged(c)
      BY <1>1, <1>3, <2>2
      DEF CorrectAudits, Discharged, DutyToTell, DutyToAudit, WillTell, Answered, Known, Correction
    <2> HIDE DEF next
    <2> QED
      BY <2>1, <2>3, <2>4, PlainStep
  <1>4. CASE CorrectRefreshes(c)
    <2>1. Goes(c, Idle) /\ Idle.at = "idle"
      BY <1>4 DEF CorrectRefreshes, Idle
    <2>2. AttendanceTypeOK' /\ Monotone /\ UNCHANGED <<meeting, record>>
      BY <1>4
      DEF CorrectRefreshes, AttendanceInv, AttendanceTypeOK, Monotone, tables, attendanceVars
    <2>3. Discharged(c)
      BY <1>4, NoDuty DEF CorrectRefreshes
    <2> QED
      BY <2>1, <2>2, <2>3, PlainStep
  <1> QED
    BY <1>2, <1>3, <1>4

LEMMA AttendingInv ==
    ASSUME AttendanceInv, NEW M \in SUBSET Meetings, NEW S \in SUBSET Users,
           AttendanceNext(M, S)
    PROVE  AttendanceInv'
  <1>1. ASSUME NEW c \in Calls, NEW u \in {Admin} \union Mentors, NEW m \in M, NEW b \in Batches,
               RecordBulk(c, u, m, b)
        PROVE  AttendanceInv'
    BY <1>1, ArrivalInv
  <1>2. ASSUME NEW c \in Calls, NEW m \in M, NEW s \in S, NEW status \in Marks,
               CorrectReads(c, m, s, status)
        PROVE  AttendanceInv'
    BY <1>2, ArrivalInv
  <1> QED
    BY <1>1, <1>2, ChecksInv, BulkReadsInv, BulkWritesInv, BulkAuditsInv, BulkRefreshesInv,
       BulkNotifiesInv, CorrectionInv, FailsInv DEF AttendanceNext

LEMMA CorrectionFields ==
    ASSUME NEW at, NEW m, NEW s, NEW status
    PROVE  /\ Correction(at, m, s, status).at = at
           /\ Correction(at, m, s, status).meeting = m
           /\ Correction(at, m, s, status).scholar = s
           /\ Correction(at, m, s, status).status = status
  BY DEF Correction

LEMMA AttendanceInvHolds ==
    ASSUME AttendanceInv
    PROVE  AbsentIsTold /\ RecordedIsAudited
  <1>1. ASSUME NEW m \in Meetings, NEW s \in Users, record[m, s] = "ABSENT"
        PROVE  \/ <<m, s>> \in told \union cut
               \/ Entry(m, s, "ABSENT", "CORRECTED") \in audited
               \/ \E c \in Calls :
                     \/ WillTell(c, m, s)
                     \/ call[c].at = "correctAudit" /\ WillAudit(c, m, s)
    <2>1. Answered(m, s)
      BY <1>1 DEF AttendanceInv, RecordsAccounted, Accounted, Marks
    <2>2. ASSUME NEW c \in Calls, call[c] = Correction("correctAudit", m, s, "ABSENT")
          PROVE  call[c].at = "correctAudit" /\ WillAudit(c, m, s)
      <3>1. /\ call[c].at = "correctAudit" /\ call[c].status = "ABSENT"
            /\ call[c].meeting = m /\ call[c].scholar = s
        BY <2>2, CorrectionFields
      <3> QED
        BY <1>1, <3>1 DEF WillAudit
    <2> QED
      BY <2>1, <2>2 DEF Answered, DutyToTell
  <1>2. ASSUME NEW m \in Meetings, NEW s \in Users, record[m, s] # None
        PROVE  \/ <<m, s>> \in cut
               \/ \E a \in {"RECORDED", "CORRECTED"} : Entry(m, s, record[m, s], a) \in audited
               \/ \E c \in Calls : WillAudit(c, m, s)
    <2>1. PICK status \in Marks : status = record[m, s]
      BY <1>2 DEF AttendanceInv, AttendanceTypeOK
    <2>2. Known(m, s, status)
      BY <2>1 DEF AttendanceInv, RecordsAccounted, Accounted
    <2>3. ASSUME NEW c \in Calls, DutyToAudit(c, m, s, status)
          PROVE  WillAudit(c, m, s)
      <3>1. CASE call[c].at = "audit" /\ Of(c) = <<m, s>> /\ Status(c) = status
        BY <2>1, <3>1 DEF WillAudit
      <3>2. CASE call[c] = Correction("correctAudit", m, s, status)
        <4>1. /\ call[c].at = "correctAudit" /\ call[c].status = status
              /\ call[c].meeting = m /\ call[c].scholar = s
          BY <3>2, CorrectionFields
        <4> QED
          BY <2>1, <4>1 DEF WillAudit
      <3> QED
        BY <2>3, <3>1, <3>2 DEF DutyToAudit
    <2> QED
      BY <2>1, <2>2, <2>3 DEF Known
  <1> QED
    BY <1>1, <1>2 DEF AbsentIsTold, RecordedIsAudited
=============================================================================
