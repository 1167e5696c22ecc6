------------------------------ MODULE MCPlatform ------------------------------
(***************************************************************************)
(* The instance of Platform that is model-checked.                         *)
(***************************************************************************)
EXTENDS Platform

CONSTANTS a, u, s, t, k1, k2, m1, m2, m3, hw, ex, pr, x1, x2

\* Two assignments of course k1, one of course k2.
MCCourseOf(assignment) == IF assignment = pr THEN k2 ELSE k1

Item(scholar, status) == [scholar |-> scholar, status |-> status]
MCBatches == {<<Item(s, "PRESENT")>>, <<Item(s, "ABSENT"), Item(u, "EXCUSED")>>}

MCRequests ==
    {[type |-> "attendance", course |-> k1, status |-> None],
     [type |-> "assignments", course |-> None, status |-> "VERIFIED"],
     [type |-> "meetings", course |-> k1, status |-> None],
     [type |-> "scholars", course |-> None, status |-> None]}

OneMeeting == [d \in {m1} |-> Meeting(k1, 1, 1, 2, FALSE)]
AllMeetings ==
    [d \in {m1, m2, m3} |-> Meeting(IF d = m3 THEN k2 ELSE k1, 1, 1, 2, FALSE)]
TwoMeetings == [d \in {m1, m3} |-> AllMeetings[d]]
Held(some) == [d \in Meetings |-> IF d \in DOMAIN some THEN some[d] ELSE NoMeeting]

\* Where nothing is recorded, handed out or saved; and who is paired with whom.
NoRecords == [e \in Meetings \X Users |-> None]
NoRows == [e \in Assignments \X Users |-> None]
Paired == [e \in Mentors \X Courses \X Scholars |->
              IF e = <<u, k1, s>> THEN "ACTIVE" ELSE IF e = <<u, k2, t>> THEN "ENDED" ELSE None]
Unsaved == [key \in Keys |-> Unset]
NearlyWhole == [key \in Keys |-> IF key = AssignmentWeight THEN 5000 ELSE 4999]

\* With "everything", all audit entries and notices are there from the start, so that the
\* steps of Standing do not multiply the states by them.
History(f, meetings, records, rows, settings, everything) ==
    [focus |-> f, meeting |-> Held(meetings),
     members |-> {<<k1, u>>, <<k1, s>>, <<k1, t>>, <<k2, s>>, <<k2, a>>}, pairing |-> Paired,
     record |-> [e \in DOMAIN records |-> IF e[1] \in DOMAIN meetings THEN records[e] ELSE None],
     row |-> rows, courseOf |-> [e \in Assignments |-> MCCourseOf(e)], setting |-> settings,
     audited |-> IF everything THEN Entries ELSE
         {Entry(e[1], e[2], records[e], "RECORDED") :
             e \in {e \in DOMAIN records : records[e] # None}},
     told |-> IF everything THEN Meetings \X Users ELSE
         {e \in DOMAIN records : records[e] = "ABSENT"}]

\* What the scholars hold at the start: the records of s in the first meeting are r.
Records(r) == [e \in Meetings \X Users |->
                  IF e = <<m1, s>> THEN r ELSE IF e[2] = t /\ e[1] # m3 THEN "PRESENT" ELSE None]
\* And those of the mentor of k1, who is one of its members.
MentorMarked(r) == [Records(r) EXCEPT ![m1, u] = "ABSENT"]
SomeRows == [e \in Assignments \X Users |->
                IF e[2] = a \/ MCCourseOf(e[1]) = k2 THEN None
                ELSE IF e[1] = ex /\ e[2] # u THEN "VERIFIED" ELSE "OPEN"]
AllRows == [SomeRows EXCEPT ![pr, s] = "OPEN"]

\* The mentor's pairing has ended, and he and scholar t have left.
Later(h) == [h EXCEPT !.members = {<<k1, s>>}, !.pairing = [e \in DOMAIN h.pairing |->
                IF h.pairing[e] = None THEN None ELSE "ENDED"]]

\* One meeting and no records where they are what changes; full tables where reports count
\* them and where they change in one step.
MCHistories ==
    {History(f, OneMeeting, NoRecords, NoRows, Unsaved, FALSE) :
        f \in {"calendar", "attendance", "settings", "library", "sessions"}}
    \union {Later(History("attendance", OneMeeting, NoRecords, NoRows, Unsaved, FALSE))}
    \union {History("reports", AllMeetings, Records("PRESENT"), SomeRows, Unsaved, FALSE)}
    \union {History("standing", AllMeetings, Records(None), SomeRows, [key \in Keys |-> 5000], TRUE),
            History("standing", TwoMeetings, MentorMarked(None), AllRows, NearlyWhole, TRUE)}
=============================================================================
