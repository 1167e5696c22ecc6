-------------------------- MODULE PublishingProofs --------------------------
(***************************************************************************)
(* Proofs about Publishing, for any number of scholars, courses, change    *)
(* requests and calls in flight.                                           *)
(***************************************************************************)
EXTENDS Publishing, TLAPS

\* Exactly a published assignment has an edit window.
WindowInv == status = "PUBLISHED" <=> windowEnd # NoWindow

\* What a call in flight relies on still holds when it takes its next step.
CallsInv ==
    \A c \in Calls :
        /\ call[c].at = "writeUpdate" => call[c].since <= now
        /\ call[c].at = "queueReminders" =>
              /\ status = "PUBLISHED"
              /\ \A k \in call[c].todo : row[k[1]] # NoRow
        /\ call[c].at = "createRequest" => status = "PUBLISHED"
        /\ call[c].at \in {"approve", "reject"} => request[call[c].request] # NoRequest

IInv ==
    /\ TypeOK
    /\ WindowInv
    /\ CallsInv
    /\ RemindersFollowRows
    /\ AdmittedBeforeLock
    /\ RequestsFollowPublication

-----------------------------------------------------------------------------
(* Facts about the data.                                                   *)

\* The step a call is at says what it carries.
LEMMA CallKinds ==
    ASSUME TypeOK, NEW c \in Calls
    PROVE  /\ call[c].at = "writeUpdate" =>
                 call[c].content \in Contents /\ call[c].course \in Courses
                 /\ call[c].since \in Times
           /\ call[c].at = "readMembers" => call[c].course \in Courses
           /\ call[c].at = "writePublish" => call[c].found \subseteq Scholars
           /\ call[c].at = "queueReminders" => call[c].todo \subseteq Keys
           /\ call[c].at = "createRequest" =>
                 call[c].request \in Requests /\ call[c].content \in Contents
           /\ call[c].at \in {"approve", "reject"} => call[c].request \in Requests
           /\ call[c].at = "removeMember" =>
                 call[c].course \in Courses /\ call[c].member \in Scholars
  BY DEF TypeOK, InFlight, Idle

\* Sending a call on touches no other call.
LEMMA GoesOnlyThere ==
    ASSUME TypeOK, NEW c \in Calls, NEW next \in InFlight \union {Idle}, Goes(c, next)
    PROVE  /\ call' \in [Calls -> InFlight \union {Idle}]
           /\ call'[c] = next
           /\ \A d \in Calls \ {c} : call'[d] = call[d]
  BY DEF TypeOK, Goes

\* A job record is well formed.
LEMMA JobType ==
    /\ NoJob \in [at : {"none", "waiting", "notify", "failed"}, attempt : 0 .. Attempts]
    /\ NoJob.at = "none"
    /\ \A at \in {"waiting", "notify", "failed"}, n \in 1 .. Attempts :
          /\ Job(at, n) \in [at : {"none", "waiting", "notify", "failed"}, attempt : 0 .. Attempts]
          /\ Job(at, n) # NoJob
  BY PublishingBounds DEF NoJob, Job

-----------------------------------------------------------------------------
(* The inductive invariant.                                                *)

LEMMA InitIInv == Init => IInv
  <1> SUFFICES ASSUME Init PROVE IInv
    OBVIOUS
  <1>1. TypeOK
    BY PublishingBounds, JobType DEF Init, TypeOK, Times, NoWindow
  <1> QED
    BY <1>1 DEF Init, IInv, WindowInv, CallsInv, RemindersFollowRows, AdmittedBeforeLock,
               RequestsFollowPublication, Idle

\* A new call changes nothing but itself, and starts out as CallsInv asks.
LEMMA ArriveIInv ==
    ASSUME IInv, NEW c \in Calls, Arrive(c)
    PROVE  IInv'
  <1> USE DEF assignment, rows, jobs
  <1>1. ASSUME NEW next \in InFlight, Goes(c, next),
               UNCHANGED <<now, assignment, rows, request, jobs, crashes>>,
               next.at = "writeUpdate" => next.since = now /\ (windowEnd # NoWindow => now < windowEnd),
               next.at # "queueReminders",
               next.at = "createRequest" => status = "PUBLISHED",
               next.at \in {"approve", "reject"} => request[next.request] # NoRequest
        PROVE  IInv'
    <2>1. /\ call' \in [Calls -> InFlight \union {Idle}]
          /\ call'[c] = next
          /\ \A d \in Calls \ {c} : call'[d] = call[d]
      BY <1>1, GoesOnlyThere DEF IInv
    <2>2. TypeOK'
      BY <1>1, <2>1 DEF IInv, TypeOK
    <2>3. CallsInv'
      BY <1>1, <2>1 DEF IInv, CallsInv, TypeOK, Times
    <2>4. AdmittedBeforeLock'
      BY <1>1, <2>1 DEF IInv, AdmittedBeforeLock
    <2> QED
      BY <1>1, <2>2, <2>3, <2>4
      DEF IInv, WindowInv, RemindersFollowRows, RequestsFollowPublication
  <1>2. ASSUME NEW x \in Contents, NEW k \in Courses, UpdateRead(c, x, k)
        PROVE  IInv'
    BY <1>1, <1>2 DEF UpdateRead, InFlight, IInv, TypeOK, WindowInv
  <1>3. CASE PublishRead(c)
    BY <1>1, <1>3 DEF PublishRead, InFlight, IInv, TypeOK
  <1>4. ASSUME NEW r \in Requests, NEW x \in Contents, ChangeRequestRead(c, r, x)
        PROVE  IInv'
    BY <1>1, <1>4 DEF ChangeRequestRead, InFlight, IInv, TypeOK, WindowInv
  <1>5. ASSUME NEW r \in Requests, NEW next \in {"approve", "reject"}, ReviewRead(c, r, next)
        PROVE  IInv'
    BY <1>1, <1>5 DEF ReviewRead, InFlight, NoRequest
  <1>6. ASSUME NEW k \in Courses, NEW s \in Scholars, RemoveRead(c, k, s)
        PROVE  IInv'
    BY <1>1, <1>6 DEF RemoveRead, InFlight
  <1> QED
    BY <1>2, <1>3, <1>4, <1>5, <1>6 DEF Arrive

\* The writes of update, of the change requests and of a removal.
LEMMA WriteIInv ==
    ASSUME IInv, NEW c \in Calls,
           \/ UpdateWrite(c) \/ ChangeRequestCreate(c) \/ ApproveWrite(c)
           \/ RejectWrite(c) \/ RemoveWrite(c)
    PROVE  IInv'
  <1> USE DEF assignment, rows, jobs
  <1>1. Goes(c, Idle)
    BY DEF UpdateWrite, ChangeRequestCreate, ApproveWrite, RejectWrite, RemoveWrite
  <1>2. /\ call' \in [Calls -> InFlight \union {Idle}]
        /\ call'[c].at = "idle"
        /\ \A d \in Calls \ {c} : call'[d] = call[d]
    BY <1>1, GoesOnlyThere DEF IInv, Idle
  <1>3. UNCHANGED <<now, status, windowEnd, row, jobs, crashes>>
    BY DEF UpdateWrite, ChangeRequestCreate, ApproveWrite, RejectWrite, RemoveWrite
  <1>4. /\ content' \in Contents
        /\ course' \in Courses
        /\ members' \in [Courses -> SUBSET Scholars]
        /\ request' \in [Requests -> {NoRequest}
               \union [status : {"PENDING", "APPROVED", "REJECTED"}, value : Contents]]
        /\ \A r \in Requests :
              request'[r] # request[r] => request[r] # NoRequest \/ status = "PUBLISHED"
        /\ \A r \in Requests : request[r] # NoRequest => request'[r] # NoRequest
    <2>1. CASE UpdateWrite(c)
      BY <2>1, CallKinds DEF UpdateWrite, IInv, TypeOK
    <2>2. CASE ChangeRequestCreate(c)
      BY <2>2, CallKinds
      DEF ChangeRequestCreate, ChangeRequest, NoRequest, IInv, TypeOK, CallsInv
    <2>3. CASE ApproveWrite(c) \/ RejectWrite(c)
      <3>1. PICK r \in Requests : r = call[c].request /\ request[r] # NoRequest
        BY <2>3, CallKinds DEF ApproveWrite, RejectWrite, IInv, CallsInv
      <3>2. request[r].value \in Contents
        BY <3>1 DEF IInv, TypeOK
      <3> QED
        BY <2>3, <3>1, <3>2
        DEF ApproveWrite, RejectWrite, ChangeRequest, NoRequest, IInv, TypeOK
    <2>4. CASE RemoveWrite(c)
      BY <2>4, CallKinds DEF RemoveWrite, IInv, TypeOK
    <2> QED
      BY <2>1, <2>2, <2>3, <2>4
  <1>5. TypeOK'
    BY <1>2, <1>3, <1>4 DEF IInv, TypeOK
  <1>6. CallsInv'
    <2> SUFFICES ASSUME NEW d \in Calls, call'[d].at # "idle"
                 PROVE  /\ d # c
                        /\ call'[d] = call[d]
                        /\ call[d].at \in {"approve", "reject"} => request'[call[d].request] # NoRequest
      BY <1>2, <1>3 DEF IInv, CallsInv
    <2> QED
      BY <1>2, <1>4, CallKinds DEF IInv, CallsInv
  <1>7. AdmittedBeforeLock' /\ RemindersFollowRows' /\ WindowInv'
    BY <1>2, <1>3 DEF IInv, AdmittedBeforeLock, RemindersFollowRows, WindowInv
  <1>8. RequestsFollowPublication'
    BY <1>3, <1>4 DEF IInv, RequestsFollowPublication, TypeOK
  <1> QED
    BY <1>5, <1>6, <1>7, <1>8 DEF IInv

\* The steps of publish.
LEMMA PublishIInv ==
    ASSUME IInv, NEW c \in Calls,
           \/ PublishReadMembers(c) \/ PublishWrite(c) \/ PublishDone(c)
           \/ \E k \in Keys : PublishQueue(c, k)
    PROVE  IInv'
  <1> USE DEF assignment, rows, jobs
  <1>1. CASE PublishReadMembers(c)
    <2>1. [at |-> "writePublish", found |-> members[call[c].course]] \in InFlight
      BY <1>1, CallKinds DEF PublishReadMembers, InFlight, IInv, TypeOK
    <2>2. /\ call' \in [Calls -> InFlight \union {Idle}]
          /\ call'[c].at = "writePublish"
          /\ \A d \in Calls \ {c} : call'[d] = call[d]
      BY <1>1, <2>1, GoesOnlyThere DEF PublishReadMembers, IInv
    <2> QED
      BY <1>1, <2>2
      DEF PublishReadMembers, IInv, TypeOK, CallsInv, WindowInv, AdmittedBeforeLock,
          RemindersFollowRows, RequestsFollowPublication
  <1>2. CASE PublishWrite(c)
    <2>1. PICK S \in SUBSET Scholars : S = call[c].found
      BY <1>2, CallKinds DEF PublishWrite, IInv
    <2>2. [at |-> "queueReminders", todo |-> S \X ReminderTypes] \in InFlight
      BY <2>1 DEF InFlight, Keys
    <2>3. /\ call' \in [Calls -> InFlight \union {Idle}]
          /\ call'[c] = [at |-> "queueReminders", todo |-> S \X ReminderTypes]
          /\ \A d \in Calls \ {c} : call'[d] = call[d]
      BY <1>2, <2>1, <2>2, GoesOnlyThere DEF PublishWrite, IInv
    <2>4. windowEnd' \in Nat /\ windowEnd' > now
      BY <1>2, WindowsAssumption DEF PublishWrite, IInv, TypeOK, Times
    <2>5. /\ row' \in [Scholars -> RowStatus \union {NoRow}]
          /\ \A s \in Scholars : row[s] # NoRow \/ s \in S => row'[s] # NoRow
      BY <1>2, <2>1 DEF PublishWrite, IInv, TypeOK, RowStatus, NoRow
    <2>6. TypeOK'
      BY <1>2, <2>3, <2>4, <2>5 DEF PublishWrite, IInv, TypeOK
    <2>7. CallsInv'
      <3>1. \A k \in call'[c].todo : row'[k[1]] # NoRow
        BY <2>3, <2>5
      <3>2. ASSUME NEW d \in Calls, d # c, call[d].at = "queueReminders"
            PROVE  \A k \in call[d].todo : row'[k[1]] # NoRow
        BY <2>5, <3>2, CallKinds DEF IInv, CallsInv, Keys
      <3> QED
        BY <1>2, <2>3, <3>1, <3>2 DEF PublishWrite, IInv, CallsInv
    <2>8. AdmittedBeforeLock'
      <3> SUFFICES ASSUME NEW d \in Calls, call'[d].at = "writeUpdate"
                   PROVE  call'[d].since < windowEnd'
        BY DEF AdmittedBeforeLock
      <3>1. call'[d] = call[d] /\ call[d].since <= now
        BY <2>3 DEF IInv, CallsInv
      <3> QED
        BY <2>4, <3>1, CallKinds DEF IInv, TypeOK, Times
    <2>9. RemindersFollowRows'
      BY <1>2, <2>5 DEF PublishWrite, IInv, RemindersFollowRows, Keys
    <2> QED
      BY <1>2, <2>4, <2>6, <2>7, <2>8, <2>9
      DEF PublishWrite, IInv, WindowInv, NoWindow, RequestsFollowPublication
  <1>3. ASSUME NEW k \in Keys, PublishQueue(c, k)
        PROVE  IInv'
    <2>1. [at |-> "queueReminders", todo |-> call[c].todo \ {k}] \in InFlight
      BY <1>3, CallKinds DEF PublishQueue, InFlight, IInv
    <2>2. /\ call' \in [Calls -> InFlight \union {Idle}]
          /\ call'[c] = [at |-> "queueReminders", todo |-> call[c].todo \ {k}]
          /\ \A d \in Calls \ {c} : call'[d] = call[d]
      BY <1>3, <2>1, GoesOnlyThere DEF PublishQueue, IInv
    <2>3. reminder' \in [Keys -> [at : {"none", "waiting", "notify", "failed"},
                                  attempt : 0 .. Attempts]]
      BY <1>3, JobType, PublishingBounds DEF PublishQueue, IInv, TypeOK
    <2>4. status = "PUBLISHED" /\ row[k[1]] # NoRow
      BY <1>3 DEF PublishQueue, IInv, CallsInv
    <2>5. RemindersFollowRows'
      BY <1>3, <2>4 DEF PublishQueue, IInv, TypeOK, RemindersFollowRows
    <2>6. CallsInv'
      BY <1>3, <2>2, <2>4 DEF PublishQueue, IInv, CallsInv
    <2> QED
      BY <1>3, <2>2, <2>3, <2>5, <2>6
      DEF PublishQueue, IInv, TypeOK, WindowInv, AdmittedBeforeLock, RequestsFollowPublication
  <1>4. CASE PublishDone(c)
    <2>1. /\ call' \in [Calls -> InFlight \union {Idle}]
          /\ call'[c].at = "idle"
          /\ \A d \in Calls \ {c} : call'[d] = call[d]
      BY <1>4, GoesOnlyThere DEF PublishDone, IInv, Idle
    <2> QED
      BY <1>4, <2>1
      DEF PublishDone, IInv, TypeOK, CallsInv, WindowInv, AdmittedBeforeLock,
          RemindersFollowRows, RequestsFollowPublication
  <1> QED
    BY <1>1, <1>2, <1>3, <1>4

LEMMA CrashIInv ==
    ASSUME IInv, NEW c \in Calls, Crash(c)
    PROVE  IInv'
  <1>1. /\ call' \in [Calls -> InFlight \union {Idle}]
        /\ call'[c].at = "idle"
        /\ \A d \in Calls \ {c} : call'[d] = call[d]
    BY GoesOnlyThere DEF Crash, IInv, Idle
  <1>2. crashes' \in 0 .. MaxCrashes
    BY PublishingBounds DEF Crash, IInv, TypeOK
  <1> QED
    BY <1>1, <1>2
    DEF Crash, assignment, rows, jobs, IInv, TypeOK, CallsInv, WindowInv, AdmittedBeforeLock,
        RemindersFollowRows, RequestsFollowPublication

\* The reminder job keeps to rows that exist.
LEMMA ReminderIInv ==
    ASSUME IInv, NEW k \in Keys, Remind(k) \/ ReminderFails(k)
    PROVE  IInv'
  <1> USE DEF assignment, rows, jobs
  <1>1. UNCHANGED <<now, assignment, rows, request, call, crashes>>
    BY DEF Remind, ReminderRead, ReminderNotify, ReminderFails
  <1>2. reminder[k] # NoJob
    BY JobType DEF Remind, ReminderRead, ReminderNotify, ReminderFails
  <1>3. reminder[k].attempt \in 0 .. Attempts
    BY DEF IInv, TypeOK
  <1>4. /\ reminder' \in [Keys -> [at : {"none", "waiting", "notify", "failed"},
                                   attempt : 0 .. Attempts]]
        /\ \A j \in Keys \ {k} : reminder'[j] = reminder[j]
        /\ reminded' \subseteq reminded \union {k}
    BY <1>3, JobType, PublishingBounds
    DEF Remind, ReminderRead, ReminderNotify, ReminderFails, Job, IInv, TypeOK
  <1>5. TypeOK'
    BY <1>1, <1>4 DEF IInv, TypeOK
  <1>6. RemindersFollowRows'
    BY <1>1, <1>2, <1>4 DEF IInv, RemindersFollowRows
  <1> QED
    BY <1>1, <1>5, <1>6
    DEF IInv, CallsInv, WindowInv, AdmittedBeforeLock, RequestsFollowPublication

\* Enrolment, the clock, and the scholars' and verifiers' work on the rows.
LEMMA AroundIInv ==
    ASSUME IInv,
           \/ \E k \in Courses, s \in Scholars : AddMember(k, s)
           \/ Tick
           \/ \E s \in Scholars, to \in RowStatus \ {"NOT_STARTED"} : RowMoves(s, to)
           \/ UNCHANGED vars
    PROVE  IInv'
  <1> USE DEF assignment, rows, jobs
  <1>1. ASSUME NEW k \in Courses, NEW s \in Scholars, AddMember(k, s)
        PROVE  IInv'
    BY <1>1
    DEF AddMember, IInv, TypeOK, CallsInv, WindowInv, AdmittedBeforeLock,
        RemindersFollowRows, RequestsFollowPublication
  <1>2. CASE Tick
    <2>1. now' \in Times /\ now' >= now
      BY <1>2, PublishingBounds DEF Tick, IInv, TypeOK, Times
    <2>2. CallsInv'
      <3> SUFFICES ASSUME NEW c \in Calls, call[c].at = "writeUpdate"
                   PROVE  call[c].since <= now'
        BY <1>2 DEF Tick, IInv, CallsInv
      <3> QED
        BY <2>1, CallKinds DEF IInv, CallsInv, TypeOK, Times
    <2> QED
      BY <1>2, <2>1, <2>2
      DEF Tick, IInv, TypeOK, WindowInv, AdmittedBeforeLock,
          RemindersFollowRows, RequestsFollowPublication
  <1>3. ASSUME NEW s \in Scholars, NEW to \in RowStatus \ {"NOT_STARTED"}, RowMoves(s, to)
        PROVE  IInv'
    <2>1. /\ row' \in [Scholars -> RowStatus \union {NoRow}]
          /\ \A z \in Scholars : row[z] # NoRow => row'[z] # NoRow
      BY <1>3 DEF RowMoves, IInv, TypeOK, RowStatus, NoRow
    <2>2. CallsInv'
      <3> SUFFICES ASSUME NEW d \in Calls, call[d].at = "queueReminders"
                   PROVE  \A k \in call[d].todo : row'[k[1]] # NoRow
        BY <1>3 DEF RowMoves, IInv, CallsInv
      <3> QED
        BY <2>1, CallKinds DEF IInv, CallsInv, Keys
    <2>3. RemindersFollowRows'
      BY <1>3, <2>1 DEF RowMoves, IInv, RemindersFollowRows, Keys
    <2> QED
      BY <1>3, <2>1, <2>2, <2>3
      DEF RowMoves, IInv, TypeOK, WindowInv, AdmittedBeforeLock, RequestsFollowPublication
  <1>4. CASE UNCHANGED vars
    BY <1>4
    DEF vars, IInv, TypeOK, CallsInv, WindowInv, AdmittedBeforeLock,
        RemindersFollowRows, RequestsFollowPublication
  <1> QED
    BY <1>1, <1>2, <1>3, <1>4

LEMMA NextIInv == IInv /\ [Next]_vars => IInv'
  <1> SUFFICES ASSUME IInv, [Next]_vars
               PROVE  IInv'
    OBVIOUS
  <1>1. ASSUME NEW c \in Calls, Proceed(c)
        PROVE  IInv'
    BY <1>1, WriteIInv, PublishIInv DEF Proceed
  <1> QED
    BY <1>1, ArriveIInv, CrashIInv, ReminderIInv, AroundIInv, JoinersAssumption DEF Next

\* IInv is an invariant of Publishing.
THEOREM Invariance == Spec => []IInv
  BY InitIInv, NextIInv, PTL DEF Spec

-----------------------------------------------------------------------------
(* Who writes what.                                                        *)

LEMMA RowWriters ==
    ASSUME [Next]_vars
    PROVE  \/ UNCHANGED <<status, row>>
           \/ \E c \in Calls : PublishWrite(c)
           \/ \E s \in Scholars, to \in RowStatus \ {"NOT_STARTED"} : RowMoves(s, to)
  <1> USE DEF assignment, rows, jobs
  <1>1. ASSUME NEW c \in Calls, Arrive(c) \/ Crash(c)
        PROVE  UNCHANGED <<status, row>>
    BY <1>1
    DEF Arrive, UpdateRead, PublishRead, ChangeRequestRead, ReviewRead, RemoveRead, Crash
  <1>2. ASSUME NEW c \in Calls, Proceed(c)
        PROVE  UNCHANGED <<status, row>> \/ PublishWrite(c)
    BY <1>2
    DEF Proceed, UpdateWrite, PublishReadMembers, PublishDone, PublishQueue,
        ChangeRequestCreate, ApproveWrite, RejectWrite, RemoveWrite
  <1>3. ASSUME NEW k \in Keys, Remind(k) \/ ReminderFails(k)
        PROVE  UNCHANGED <<status, row>>
    BY <1>3 DEF Remind, ReminderRead, ReminderNotify, ReminderFails
  <1> QED
    BY <1>1, <1>2, <1>3 DEF Next, AddMember, Tick, vars

LEMMA RequestWriters ==
    ASSUME [Next]_vars
    PROVE  \/ UNCHANGED request
           \/ \E c \in Calls : ChangeRequestCreate(c) \/ ApproveWrite(c) \/ RejectWrite(c)
  <1> USE DEF assignment, rows, jobs
  <1>1. ASSUME NEW c \in Calls, Arrive(c) \/ Crash(c)
        PROVE  UNCHANGED request
    BY <1>1
    DEF Arrive, UpdateRead, PublishRead, ChangeRequestRead, ReviewRead, RemoveRead, Crash
  <1>2. ASSUME NEW c \in Calls, Proceed(c)
        PROVE  UNCHANGED request
                 \/ ChangeRequestCreate(c) \/ ApproveWrite(c) \/ RejectWrite(c)
    BY <1>2
    DEF Proceed, UpdateWrite, PublishReadMembers, PublishWrite, PublishDone, PublishQueue,
        RemoveWrite
  <1>3. ASSUME NEW k \in Keys, Remind(k) \/ ReminderFails(k)
        PROVE  UNCHANGED request
    BY <1>3 DEF Remind, ReminderRead, ReminderNotify, ReminderFails
  <1> QED
    BY <1>1, <1>2, <1>3 DEF Next, AddMember, Tick, RowMoves, vars

LEMMA MembersWriters ==
    ASSUME [Next]_vars
    PROVE  \/ UNCHANGED members
           \/ \E c \in Calls : RemoveWrite(c)
           \/ \E k \in Courses, s \in Joiners : AddMember(k, s)
  <1> USE DEF assignment, rows, jobs
  <1>1. ASSUME NEW c \in Calls, Arrive(c) \/ Crash(c)
        PROVE  UNCHANGED members
    BY <1>1
    DEF Arrive, UpdateRead, PublishRead, ChangeRequestRead, ReviewRead, RemoveRead, Crash
  <1>2. ASSUME NEW c \in Calls, Proceed(c)
        PROVE  UNCHANGED members \/ RemoveWrite(c)
    BY <1>2
    DEF Proceed, UpdateWrite, PublishReadMembers, PublishWrite, PublishDone, PublishQueue,
        ChangeRequestCreate, ApproveWrite, RejectWrite
  <1>3. ASSUME NEW k \in Keys, Remind(k) \/ ReminderFails(k)
        PROVE  UNCHANGED members
    BY <1>3 DEF Remind, ReminderRead, ReminderNotify, ReminderFails
  <1> QED
    BY <1>1, <1>2, <1>3 DEF Next, Tick, RowMoves, vars

\* A call about to publish has just read the members, or was about to before.
LEMMA FoundWriters ==
    ASSUME IInv, [Next]_vars, NEW c \in Calls, call'[c].at = "writePublish"
    PROVE  call'[c] = call[c] \/ PublishReadMembers(c)
  <1> USE DEF assignment, rows, jobs
  <1>1. ASSUME NEW d \in Calls, Arrive(d) \/ Crash(d)
        PROVE  call'[c] = call[c]
    <2>1. d # c
      BY <1>1
      DEF Arrive, UpdateRead, PublishRead, ChangeRequestRead, ReviewRead, RemoveRead, Crash,
          Idle, Goes, IInv, TypeOK
    <2> QED
      BY <1>1, <2>1
      DEF Arrive, UpdateRead, PublishRead, ChangeRequestRead, ReviewRead, RemoveRead, Crash,
          Goes, IInv, TypeOK
  <1>2. ASSUME NEW d \in Calls, Proceed(d)
        PROVE  call'[c] = call[c] \/ PublishReadMembers(c)
    <2>1. d # c \/ PublishReadMembers(c)
      BY <1>2
      DEF Proceed, UpdateWrite, PublishWrite, PublishDone, PublishQueue, ChangeRequestCreate,
          ApproveWrite, RejectWrite, RemoveWrite, Idle, Goes, IInv, TypeOK
    <2> QED
      BY <1>2, <2>1
      DEF Proceed, UpdateWrite, PublishReadMembers, PublishWrite, PublishDone, PublishQueue,
          ChangeRequestCreate, ApproveWrite, RejectWrite, RemoveWrite, Goes, IInv, TypeOK
  <1>3. ASSUME NEW k \in Keys, Remind(k) \/ ReminderFails(k)
        PROVE  UNCHANGED call
    BY <1>3 DEF Remind, ReminderRead, ReminderNotify, ReminderFails
  <1> QED
    BY <1>1, <1>2, <1>3 DEF Next, AddMember, Tick, RowMoves, vars

-----------------------------------------------------------------------------
(* What follows for the checked properties.                                *)

\* Every reachable state is well typed.
THEOREM TypeCorrect == Spec => []TypeOK
  <1>1. IInv => TypeOK
    BY DEF IInv
  <1> QED
    BY <1>1, Invariance, PTL

\* The edit lock: whatever is still to be written was admitted before the window
\* closed, for any lengths of the window and any number of publishes (update).
THEOREM EditsWereAdmitted == Spec => []AdmittedBeforeLock
  <1>1. IInv => AdmittedBeforeLock
    BY DEF IInv
  <1> QED
    BY <1>1, Invariance, PTL

\* Reminders are queued and sent only for published assignments and for scholars
\* with a row (publish, handleReminder).
THEOREM RemindersAreFounded == Spec => []RemindersFollowRows
  <1>1. IInv => RemindersFollowRows
    BY DEF IInv
  <1> QED
    BY <1>1, Invariance, PTL

\* Changes are requested only of published assignments (createChangeRequest).
THEOREM RequestsAreFounded == Spec => []RequestsFollowPublication
  <1>1. IInv => RequestsFollowPublication
    BY DEF IInv
  <1> QED
    BY <1>1, Invariance, PTL

\* No step starts a touched row over, in particular no second publish (publish).
THEOREM RowsGoOn == Spec => RowsNeverRestart
  <1>1. ASSUME IInv, [Next]_vars, NEW s \in Scholars, row[s] \notin {NoRow, "NOT_STARTED"}
        PROVE  row'[s] \notin {NoRow, "NOT_STARTED"}
    <2>1. CASE UNCHANGED row
      BY <1>1, <2>1
    <2>2. ASSUME NEW c \in Calls, PublishWrite(c)
          PROVE  row'[s] \notin {NoRow, "NOT_STARTED"}
      BY <1>1, <2>2 DEF PublishWrite
    <2>3. ASSUME NEW z \in Scholars, NEW to \in RowStatus \ {"NOT_STARTED"}, RowMoves(z, to)
          PROVE  row'[s] \notin {NoRow, "NOT_STARTED"}
      BY <1>1, <2>3 DEF RowMoves, IInv, TypeOK, RowStatus, NoRow
    <2> QED
      BY <1>1, <2>1, <2>2, <2>3, RowWriters
  <1>2. IInv /\ [Next]_vars
            => [\A s \in Scholars :
                   row[s] \notin {NoRow, "NOT_STARTED"} => row'[s] \notin {NoRow, "NOT_STARTED"}]_vars
    BY <1>1
  <1> QED
    BY <1>2, Invariance, PTL DEF Spec, RowsNeverRestart

\* A change request becomes approved only together with its change
\* (reviewChangeRequest).
THEOREM ApprovalsApply == Spec => ApprovedIsApplied
  <1>1. ASSUME IInv, [Next]_vars, NEW r \in Requests,
               request[r].status # "APPROVED", request'[r].status = "APPROVED"
        PROVE  content' = request[r].value
    <2>1. ASSUME NEW c \in Calls, ChangeRequestCreate(c)
          PROVE  FALSE
      BY <1>1, <2>1 DEF ChangeRequestCreate, ChangeRequest, IInv, TypeOK
    <2>2. ASSUME NEW c \in Calls, ApproveWrite(c)
          PROVE  content' = request[r].value
      BY <1>1, <2>2, CallKinds DEF ApproveWrite, IInv, TypeOK
    <2>3. ASSUME NEW c \in Calls, RejectWrite(c)
          PROVE  FALSE
      BY <1>1, <2>3 DEF RejectWrite, ChangeRequest, IInv, TypeOK
    <2> QED
      BY <1>1, <2>1, <2>2, <2>3, RequestWriters
  <1>2. IInv /\ [Next]_vars
            => [\A r \in Requests :
                   request[r].status # "APPROVED" /\ request'[r].status = "APPROVED"
                       => content' = request[r].value]_vars
    BY <1>1
  <1> QED
    BY <1>2, Invariance, PTL DEF Spec, ApprovedIsApplied

-----------------------------------------------------------------------------
(* Publishing misses nobody, as long as the assignment stays in its course *)
(* from the moment a publish call has read it.                             *)

Publishes(c) == call[c].at \in {"readMembers", "writePublish"}
CourseSettled ==
    status = "PUBLISHED" \/ (\E c \in Calls : Publishes(c)) => UNCHANGED course

\* A publish call that is about to read the members has read the course there is; the
\* members it has then read include all who are left of those who were there from the
\* start.
EnrolInv ==
    /\ \A c \in Calls :
          /\ call[c].at = "readMembers" => call[c].course = course
          /\ call[c].at = "writePublish" => members[course] \ Joiners \subseteq call[c].found
    /\ MembersHaveRows

\* A call about to read the members has just read the assignment, or was about to before.
LEMMA PublishStarts ==
    ASSUME IInv, [Next]_vars, NEW c \in Calls, call'[c].at = "readMembers"
    PROVE  call'[c] = call[c] \/ PublishRead(c)
  <1> USE DEF assignment, rows, jobs
  <1>1. ASSUME NEW d \in Calls, Arrive(d) \/ Crash(d)
        PROVE  call'[c] = call[c] \/ PublishRead(c)
    <2>1. d # c \/ PublishRead(c)
      BY <1>1
      DEF Arrive, UpdateRead, ChangeRequestRead, ReviewRead, RemoveRead, Crash, Idle, Goes,
          IInv, TypeOK
    <2> QED
      BY <1>1, <2>1
      DEF Arrive, UpdateRead, PublishRead, ChangeRequestRead, ReviewRead, RemoveRead, Crash,
          Goes, IInv, TypeOK
  <1>2. ASSUME NEW d \in Calls, Proceed(d)
        PROVE  call'[c] = call[c]
    <2>1. d # c
      BY <1>2
      DEF Proceed, UpdateWrite, PublishReadMembers, PublishWrite, PublishDone, PublishQueue,
          ChangeRequestCreate, ApproveWrite, RejectWrite, RemoveWrite, Idle, Goes, IInv, TypeOK
    <2> QED
      BY <1>2, <2>1
      DEF Proceed, UpdateWrite, PublishReadMembers, PublishWrite, PublishDone, PublishQueue,
          ChangeRequestCreate, ApproveWrite, RejectWrite, RemoveWrite, Goes, IInv, TypeOK
  <1>3. ASSUME NEW k \in Keys, Remind(k) \/ ReminderFails(k)
        PROVE  UNCHANGED call
    BY <1>3 DEF Remind, ReminderRead, ReminderNotify, ReminderFails
  <1> QED
    BY <1>1, <1>2, <1>3 DEF Next, AddMember, Tick, RowMoves, vars

LEMMA EnrolStep ==
    ASSUME IInv, EnrolInv, [Next]_vars, CourseSettled
    PROVE  EnrolInv'
  <1> USE DEF assignment, rows, jobs
  <1>1. TypeOK /\ TypeOK' /\ course \in Courses /\ course' \in Courses
    BY NextIInv DEF IInv, TypeOK
  <1>2. \A k \in Courses : members'[k] \ Joiners \subseteq members[k] \ Joiners
    <2>1. ASSUME NEW k \in Courses, NEW s \in Joiners, AddMember(k, s)
          PROVE  \A j \in Courses : members'[j] \ Joiners \subseteq members[j] \ Joiners
      BY <1>1, <2>1 DEF AddMember, TypeOK
    <2>2. ASSUME NEW c \in Calls, RemoveWrite(c)
          PROVE  \A j \in Courses : members'[j] \subseteq members[j]
      BY <1>1, <2>2 DEF RemoveWrite, TypeOK
    <2> QED
      BY <2>1, <2>2, MembersWriters
  <1>3. ASSUME NEW c \in Calls, call'[c].at = "readMembers"
        PROVE  call'[c].course = course'
    <2>1. CASE call'[c] = call[c]
      BY <1>3, <2>1 DEF EnrolInv, CourseSettled, Publishes
    <2>2. CASE PublishRead(c)
      BY <1>1, <2>2 DEF PublishRead, Goes, TypeOK
    <2> QED
      BY <1>3, <2>1, <2>2, PublishStarts
  <1>4. ASSUME NEW c \in Calls, call'[c].at = "writePublish"
        PROVE  members'[course'] \ Joiners \subseteq call'[c].found
    <2>1. CASE call'[c] = call[c]
      <3>1. course' = course /\ members[course] \ Joiners \subseteq call[c].found
        BY <1>4, <2>1 DEF EnrolInv, CourseSettled, Publishes
      <3> QED
        BY <1>1, <1>2, <2>1, <3>1
    <2>2. CASE PublishReadMembers(c)
      <3>1. call[c].course = course /\ course' = course
        BY <2>2 DEF PublishReadMembers, EnrolInv
      <3>2. call'[c].found = members[course]
        BY <1>1, <2>2, <3>1 DEF PublishReadMembers, Goes, TypeOK
      <3> QED
        BY <1>1, <1>2, <3>1, <3>2
    <2> QED
      BY <1>4, <2>1, <2>2, FoundWriters
  <1>5. MembersHaveRows'
    <2> SUFFICES ASSUME status' = "PUBLISHED", NEW s \in members'[course'] \ Joiners
                 PROVE  row'[s] # NoRow
      BY DEF MembersHaveRows
    <2>1. CASE UNCHANGED <<status, row>>
      <3>1. course' = course
        BY <2>1 DEF CourseSettled
      <3> QED
        BY <1>1, <1>2, <2>1, <3>1 DEF EnrolInv, MembersHaveRows
    <2>2. ASSUME NEW c \in Calls, PublishWrite(c)
          PROVE  row'[s] # NoRow
      <3>1. course' = course /\ s \in call[c].found /\ s \in Scholars
        BY <1>1, <2>2 DEF PublishWrite, EnrolInv, TypeOK
      <3> QED
        BY <2>2, <3>1 DEF PublishWrite, NoRow
    <2>3. ASSUME NEW z \in Scholars, NEW to \in RowStatus \ {"NOT_STARTED"}, RowMoves(z, to)
          PROVE  row'[s] # NoRow
      <3>1. status = "PUBLISHED" /\ course' = course /\ row[s] # NoRow /\ s \in Scholars
        BY <1>1, <2>3 DEF RowMoves, EnrolInv, MembersHaveRows, TypeOK
      <3> QED
        BY <1>1, <2>3, <3>1 DEF RowMoves, TypeOK, RowStatus, NoRow
    <2> QED
      BY <2>1, <2>2, <2>3, RowWriters
  <1> QED
    BY <1>3, <1>4, <1>5 DEF EnrolInv

\* While a draft may be moved from course to course, an assignment that stays where it
\* is once its publishing has begun has a row for every scholar who was enrolled there
\* from the start and still is, for any number of courses and of publish calls
\* (publish, update).
THEOREM PublishingMissesNobody == Spec /\ [][CourseSettled]_vars => []MembersHaveRows
  <1>1. Init => EnrolInv
    BY DEF Init, EnrolInv, MembersHaveRows, Idle
  <1>2. IInv /\ EnrolInv /\ [Next]_vars /\ [CourseSettled]_vars => EnrolInv'
    <2>1. UNCHANGED vars => CourseSettled
      BY DEF vars, assignment, CourseSettled
    <2> QED
      BY <2>1, EnrolStep
  <1>3. EnrolInv => MembersHaveRows
    BY DEF EnrolInv
  <1> QED
    BY <1>1, <1>2, <1>3, Invariance, PTL DEF Spec

\* So does every assignment where there is a single course to be in.
THEOREM SingleCourseMissesNobody ==
    ASSUME NEW k0, Courses = {k0}
    PROVE  Spec => []MembersHaveRows
  <1>1. IInv /\ IInv' => [CourseSettled]_vars
    BY DEF IInv, TypeOK, CourseSettled
  <1> QED
    BY <1>1, Invariance, PublishingMissesNobody, PTL
=============================================================================
