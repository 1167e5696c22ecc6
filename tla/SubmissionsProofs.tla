-------------------------- MODULE SubmissionsProofs --------------------------
(***************************************************************************)
(* Proofs about Submissions, for any number of scholars, verifiers and     *)
(* requests in flight: type correctness, the invariants about verdicts and *)
(* overdue warnings, and that Submissions implements Gradebook.            *)
(***************************************************************************)
EXTENDS Submissions, TLAPS

\* What a request in flight knows still holds when it is used.
CallsInv ==
    \A c \in Calls :
        /\ call[c].at = "writeSubmission" => call[c].late # "unset"
        /\ call[c].at = "writeVerdict" => call[c].penalty \in Penalties
        /\ call[c].at \in {"readPenalty", "writeVerdict"} =>
              /\ call[c].late # "unset" => isLate[call[c].scholar] # "unset"
              /\ call[c].by \in Verifiers \ {call[c].scholar}

\* The rows a check has found have not been warned about, and are closed by
\* the time it notifies.
CheckInv ==
    /\ check.at \in {"mark", "notify"} => \A s \in check.found : warnings[s] = 0
    /\ check.at = "notify" => \A s \in check.found : status[s] \notin Open

IInv ==
    /\ TypeOK
    /\ CallsInv
    /\ CheckInv
    /\ VerdictPriced
    /\ LateVerdictWasSubmitted
    /\ WarnedRowsAreClosed
    /\ WarnedAtMostOnce

-----------------------------------------------------------------------------
(* Facts about the data the actions build.                                 *)

LEMMA IdleFacts ==
    /\ Idle.at = "idle"
    /\ Idle \notin InFlight
  BY DEF Idle, Request, InFlight, Steps

LEMMA LateCreditRange ==
    \A p \in Penalties : LateCredit(p) \in 0 .. 100 /\ LateCredit(p) \in LateCredits
  BY PenaltiesAssumption DEF LateCredit, LateCredits

\* A request that is about to access the database is well formed.
LEMMA BusyCall ==
    ASSUME TypeOK, NEW c \in Calls, call[c] # Idle
    PROVE  call[c] \in InFlight
  BY DEF TypeOK

LEMMA StepIsBusy ==
    ASSUME TypeOK, NEW c \in Calls, call[c].at \in Steps
    PROVE  call[c] \in InFlight
  BY BusyCall, IdleFacts DEF Steps

-----------------------------------------------------------------------------
(* Type correctness.                                                       *)

LEMMA InitTypeOK == Init => TypeOK
  BY PenaltiesAssumption, BoundsAssumption
  DEF Init, TypeOK, Times, Status, Open, Lateness, NoCredit, NoCheck, Job

\* The one action a request takes next.
LEMMA CallStepTypeOK ==
    ASSUME TypeOK, CallsInv, NEW c \in Calls, CallStep(c)
    PROVE  TypeOK'
  <1> USE DEF env, rows
  <1>1. ASSUME NEW s \in Scholars, SubmitReadAssignment(c, s)
        PROVE  TypeOK'
    <2>1. Request("stampSubmission", s, Nobody, due, "unset", 0) \in InFlight
      BY DEF TypeOK, Request, InFlight, Steps, Lateness
    <2> QED
      BY <1>1, <2>1 DEF SubmitReadAssignment, TypeOK
  <1>2. CASE SubmitStamp(c)
    <2>1. call[c] \in InFlight
      BY <1>2, StepIsBusy DEF SubmitStamp, Steps
    <2>2. Request("writeSubmission", call[c].scholar, Nobody, 0,
                  IF now > call[c].due THEN "late" ELSE "onTime", 0) \in InFlight
      BY <2>1, BoundsAssumption DEF Request, InFlight, Steps, Times, Lateness
    <2> QED
      BY <1>2, <2>2 DEF SubmitStamp, TypeOK
  <1>3. CASE SubmitWrite(c)
    <2>1. call[c].scholar \in Scholars /\ call[c].late \in Lateness
      BY <1>3, StepIsBusy DEF SubmitWrite, Steps, InFlight
    <2> QED
      BY <1>3, <2>1 DEF SubmitWrite, TypeOK, Status
  <1>4. ASSUME NEW v \in Verifiers, NEW s \in Scholars,
               NEW next \in {"readPenalty", "writeResubmission"},
               VerifyReadRow(c, v, s, next)
        PROVE  TypeOK'
    <2>1. Request(next, s, v, 0, isLate[s], 0) \in InFlight
      BY BoundsAssumption DEF TypeOK, Request, InFlight, Steps, Times
    <2> QED
      BY <1>4, <2>1 DEF VerifyReadRow, TypeOK
  <1>5. CASE VerifyReadPenalty(c)
    <2>1. call[c] \in InFlight
      BY <1>5, StepIsBusy DEF VerifyReadPenalty, Steps
    <2>2. Request("writeVerdict", call[c].scholar, call[c].by, 0, call[c].late, penalty)
              \in InFlight
      BY <2>1, BoundsAssumption DEF Request, InFlight, Steps, Times, TypeOK
    <2> QED
      BY <1>5, <2>2 DEF VerifyReadPenalty, TypeOK
  <1>6. CASE VerifyWrite(c)
    <2>1. call[c].scholar \in Scholars /\ call[c].by \in Verifiers \union {Nobody}
      BY <1>6, StepIsBusy DEF VerifyWrite, Steps, InFlight
    <2>2. LateCredit(call[c].penalty) \in 0 .. 100
      BY <1>6, LateCreditRange DEF VerifyWrite, CallsInv
    <2> QED
      BY <1>6, <2>1, <2>2 DEF VerifyWrite, TypeOK, Status, FullCredit
  <1>7. CASE ResubmissionWrite(c)
    <2>1. call[c].scholar \in Scholars
      BY <1>7, StepIsBusy DEF ResubmissionWrite, Steps, InFlight
    <2> QED
      BY <1>7, <2>1 DEF ResubmissionWrite, TypeOK, Status
  <1>8. CASE CallFails(c)
    BY <1>8 DEF CallFails, TypeOK
  <1> QED
    BY <1>1, <1>2, <1>3, <1>4, <1>5, <1>6, <1>7, <1>8 DEF CallStep

LEMMA CheckStepTypeOK ==
    ASSUME TypeOK, CheckStep \/ CheckFails
    PROVE  TypeOK'
  <1> USE BoundsAssumption DEF env, rows, Job, NoCheck
  <1>1. CASE CheckStart
    BY <1>1 DEF CheckStart, TypeOK
  <1>2. CASE CheckFind
    BY <1>2 DEF CheckFind, TypeOK
  <1>3. CASE CheckMark
    BY <1>3 DEF CheckMark, TypeOK, Status
  <1>4. CASE CheckDone
    BY <1>4 DEF CheckDone, TypeOK
  <1>5. ASSUME NEW s \in Scholars, CheckNotify(s)
        PROVE  TypeOK'
    BY <1>5 DEF CheckNotify, TypeOK
  <1>6. CASE CheckFails
    BY <1>6 DEF CheckFails, TypeOK
  <1> QED
    BY <1>1, <1>2, <1>3, <1>4, <1>5, <1>6 DEF CheckStep

LEMMA EnvironmentTypeOK ==
    ASSUME TypeOK, Environment
    PROVE  TypeOK'
  <1>1. CASE Tick
    BY <1>1, BoundsAssumption DEF Tick, TypeOK, Times, rows
  <1>2. ASSUME NEW d \in Times, MoveDueDate(d)
        PROVE  TypeOK'
    BY <1>2 DEF MoveDueDate, TypeOK, rows
  <1>3. ASSUME NEW p \in Penalties, SetPenalty(p)
        PROVE  TypeOK'
    BY <1>3 DEF SetPenalty, TypeOK, rows
  <1> QED
    BY <1>1, <1>2, <1>3 DEF Environment

-----------------------------------------------------------------------------
(* The inductive invariant.                                                *)

LEMMA InitIInv == Init => IInv
  <1> SUFFICES ASSUME Init PROVE IInv
    OBVIOUS
  <1>1. TypeOK
    BY InitTypeOK
  <1>2. CallsInv
    BY DEF Init, CallsInv, Idle, Request
  <1>3. CheckInv
    BY DEF Init, CheckInv, NoCheck, Job
  <1>4. VerdictPriced /\ LateVerdictWasSubmitted
    BY DEF Init, VerdictPriced, LateVerdictWasSubmitted
  <1>5. WarnedRowsAreClosed /\ WarnedAtMostOnce
    BY DEF Init, WarnedRowsAreClosed, WarnedAtMostOnce
  <1> QED
    BY <1>1, <1>2, <1>3, <1>4, <1>5 DEF IInv

\* A step of a request that leaves the rows and the check's view of them alone
\* has only the requests to account for.
LEMMA ReadStepIInv ==
    ASSUME IInv, TypeOK', CallsInv', UNCHANGED <<status, isLate, earnedCredit>>,
           UNCHANGED <<check, warnings>>
    PROVE  IInv'
  BY DEF IInv, CheckInv, VerdictPriced, LateVerdictWasSubmitted,
         WarnedRowsAreClosed, WarnedAtMostOnce

\* What the other requests know survives a step that takes no submission back.
LEMMA OtherCalls ==
    ASSUME TypeOK, CallsInv, NEW c \in Calls, NEW r,
           call' = [call EXCEPT ![c] = r],
           \A s \in Scholars : isLate[s] # "unset" => isLate'[s] # "unset",
           r.at = "writeSubmission" => r.late # "unset",
           r.at = "writeVerdict" => r.penalty \in Penalties,
           r.at \in {"readPenalty", "writeVerdict"} =>
              /\ r.late # "unset" => isLate'[r.scholar] # "unset"
              /\ r.by \in Verifiers \ {r.scholar}
    PROVE  CallsInv'
  <1> SUFFICES ASSUME NEW d \in Calls
               PROVE /\ call'[d].at = "writeSubmission" => call'[d].late # "unset"
                     /\ call'[d].at = "writeVerdict" => call'[d].penalty \in Penalties
                     /\ call'[d].at \in {"readPenalty", "writeVerdict"} =>
                           /\ call'[d].late # "unset" => isLate'[call'[d].scholar] # "unset"
                           /\ call'[d].by \in Verifiers \ {call'[d].scholar}
    BY DEF CallsInv
  <1>1. CASE d = c
    <2>1. call'[d] = r
      BY <1>1 DEF TypeOK
    <2> QED
      BY <2>1
  <1>2. CASE d # c
    <2>1. call'[d] = call[d]
      BY <1>2 DEF TypeOK
    <2>2. call[d].at \in {"readPenalty", "writeVerdict"} => call[d].scholar \in Scholars
      BY StepIsBusy DEF Steps, InFlight
    <2> QED
      BY <2>1, <2>2 DEF CallsInv
  <1> QED
    BY <1>1, <1>2

LEMMA CallStepIInv ==
    ASSUME IInv, NEW c \in Calls, CallStep(c)
    PROVE  IInv'
  <1> USE DEF env, rows
  <1>0. TypeOK /\ CallsInv /\ TypeOK'
    BY CallStepTypeOK DEF IInv
  <1>1. ASSUME NEW s \in Scholars, SubmitReadAssignment(c, s)
        PROVE  IInv'
    <2> DEFINE r == Request("stampSubmission", s, Nobody, due, "unset", 0)
    <2>1. r.at = "stampSubmission"
      BY DEF Request
    <2> HIDE DEF r
    <2>2. CallsInv'
      BY <1>0, <1>1, <2>1, OtherCalls DEF SubmitReadAssignment, r
    <2> QED
      BY <1>0, <1>1, <2>2, ReadStepIInv DEF SubmitReadAssignment
  <1>2. CASE SubmitStamp(c)
    <2> DEFINE r == Request("writeSubmission", call[c].scholar, Nobody, 0,
                            IF now > call[c].due THEN "late" ELSE "onTime", 0)
    <2>1. r.at = "writeSubmission" /\ r.late # "unset"
      BY DEF Request
    <2>2. call' = [call EXCEPT ![c] = r]
      BY <1>0, <1>2 DEF SubmitStamp
    <2> HIDE DEF r
    <2>3. CallsInv'
      BY <1>0, <1>2, <2>1, <2>2, OtherCalls DEF SubmitStamp
    <2> QED
      BY <1>0, <1>2, <2>3, ReadStepIInv DEF SubmitStamp
  <1>3. CASE SubmitWrite(c)
    <2>1. call[c].scholar \in Scholars /\ call[c].late # "unset"
      BY <1>0, <1>3, StepIsBusy DEF SubmitWrite, CallsInv, Steps, InFlight
    <2>2. \A s \in Scholars : isLate[s] # "unset" => isLate'[s] # "unset"
      BY <1>0, <1>3, <2>1 DEF SubmitWrite, TypeOK
    <2>3. CallsInv'
      BY <1>0, <1>3, <2>2, OtherCalls, IdleFacts DEF SubmitWrite
    <2>4. \A s \in Scholars : status'[s] = status[s] \/ status'[s] = "PENDING_VERIFICATION"
      BY <1>0, <1>3 DEF SubmitWrite, TypeOK
    <2>5. CheckInv' /\ WarnedRowsAreClosed' /\ WarnedAtMostOnce'
      BY <1>0, <1>3, <2>4
      DEF SubmitWrite, IInv, CheckInv, WarnedRowsAreClosed, WarnedAtMostOnce, Open, TypeOK
    <2>6. VerdictPriced' /\ LateVerdictWasSubmitted'
      BY <1>3, <2>2, <2>4 DEF SubmitWrite, IInv, VerdictPriced, LateVerdictWasSubmitted
    <2> QED
      BY <1>0, <2>3, <2>5, <2>6 DEF IInv
  <1>4. ASSUME NEW v \in Verifiers, NEW s \in Scholars,
               NEW next \in {"readPenalty", "writeResubmission"},
               VerifyReadRow(c, v, s, next)
        PROVE  IInv'
    <2> DEFINE r == Request(next, s, v, 0, isLate[s], 0)
    <2>1. /\ r.at \in {"readPenalty", "writeResubmission"}
          /\ r.scholar = s /\ r.by = v /\ r.late = isLate[s]
      BY DEF Request
    <2>2. call' = [call EXCEPT ![c] = r] /\ v # s /\ isLate' = isLate
      BY <1>4 DEF VerifyReadRow
    <2> HIDE DEF r
    <2>3. CallsInv'
      BY <1>0, <2>1, <2>2, OtherCalls
    <2> QED
      BY <1>0, <1>4, <2>3, ReadStepIInv DEF VerifyReadRow
  <1>5. CASE VerifyReadPenalty(c)
    <2> DEFINE r == Request("writeVerdict", call[c].scholar, call[c].by, 0,
                            call[c].late, penalty)
    <2>1. /\ r.at = "writeVerdict" /\ r.penalty \in Penalties
          /\ r.scholar = call[c].scholar /\ r.by = call[c].by /\ r.late = call[c].late
      BY <1>0 DEF Request, TypeOK
    <2>2. call' = [call EXCEPT ![c] = r] /\ isLate' = isLate
      BY <1>0, <1>5 DEF VerifyReadPenalty
    <2>3. /\ call[c].late # "unset" => isLate[call[c].scholar] # "unset"
          /\ call[c].by \in Verifiers \ {call[c].scholar}
      BY <1>0, <1>5 DEF VerifyReadPenalty, CallsInv
    <2> HIDE DEF r
    <2>4. CallsInv'
      BY <1>0, <2>1, <2>2, <2>3, OtherCalls
    <2> QED
      BY <1>0, <1>5, <2>4, ReadStepIInv DEF VerifyReadPenalty
  <1>6. CASE VerifyWrite(c)
    <2> DEFINE s == call[c].scholar
    <2>1. s \in Scholars
      BY <1>0, <1>6, StepIsBusy DEF VerifyWrite, Steps, InFlight
    <2>2. /\ call[c].late # "unset" => isLate[s] # "unset"
          /\ LateCredit(call[c].penalty) \in LateCredits
      BY <1>0, <1>6, LateCreditRange DEF VerifyWrite, CallsInv
    <2>3. CallsInv'
      BY <1>0, <1>6, OtherCalls, IdleFacts DEF VerifyWrite
    <2>4. \A t \in Scholars : t # s => /\ status'[t] = status[t]
                                      /\ earnedCredit'[t] = earnedCredit[t]
      BY <1>0, <1>6 DEF VerifyWrite, TypeOK
    <2>5. \/ /\ call[c].late = "late"
             /\ status'[s] = "VERIFIED_LATE"
             /\ earnedCredit'[s] = LateCredit(call[c].penalty)
          \/ /\ status'[s] = "VERIFIED"
             /\ earnedCredit'[s] = FullCredit
      BY <1>0, <1>6, <2>1 DEF VerifyWrite, TypeOK
    <2>6. CheckInv' /\ WarnedRowsAreClosed' /\ WarnedAtMostOnce'
      BY <1>0, <1>6, <2>4, <2>5
      DEF VerifyWrite, IInv, CheckInv, WarnedRowsAreClosed, WarnedAtMostOnce, Open, TypeOK
    <2>7. VerdictPriced'
      BY <2>2, <2>4, <2>5 DEF IInv, VerdictPriced
    <2>8. LateVerdictWasSubmitted'
      BY <1>6, <2>2, <2>4, <2>5 DEF VerifyWrite, IInv, LateVerdictWasSubmitted
    <2> QED
      BY <1>0, <2>3, <2>6, <2>7, <2>8 DEF IInv
  <1>7. CASE ResubmissionWrite(c)
    <2>1. CallsInv'
      BY <1>0, <1>7, OtherCalls, IdleFacts DEF ResubmissionWrite
    <2>2. \A s \in Scholars : status'[s] = status[s] \/ status'[s] = "RESUBMISSION_REQUIRED"
      BY <1>0, <1>7 DEF ResubmissionWrite, TypeOK
    <2>3. CheckInv' /\ WarnedRowsAreClosed' /\ WarnedAtMostOnce'
      BY <1>0, <1>7, <2>2
      DEF ResubmissionWrite, IInv, CheckInv, WarnedRowsAreClosed, WarnedAtMostOnce, Open, TypeOK
    <2>4. VerdictPriced' /\ LateVerdictWasSubmitted'
      BY <1>7, <2>2 DEF ResubmissionWrite, IInv, VerdictPriced, LateVerdictWasSubmitted
    <2> QED
      BY <1>0, <2>1, <2>3, <2>4 DEF IInv
  <1>8. CASE CallFails(c)
    <2>1. CallsInv'
      BY <1>0, <1>8, OtherCalls, IdleFacts DEF CallFails
    <2> QED
      BY <1>0, <1>8, <2>1, ReadStepIInv DEF CallFails
  <1> QED
    BY <1>1, <1>2, <1>3, <1>4, <1>5, <1>6, <1>7, <1>8 DEF CallStep

LEMMA CheckStepIInv ==
    ASSUME IInv, CheckStep \/ CheckFails
    PROVE  IInv'
  <1> USE DEF env, rows, Job, NoCheck
  <1>0. TypeOK /\ CallsInv /\ TypeOK'
    BY CheckStepTypeOK DEF IInv
  <1>1. CASE CheckStart
    BY <1>0, <1>1 DEF CheckStart, IInv, CallsInv, CheckInv, VerdictPriced,
       LateVerdictWasSubmitted, WarnedRowsAreClosed, WarnedAtMostOnce
  <1>2. CASE CheckFind
    <2> DEFINE found == {s \in Scholars : status[s] \in Open /\ due < now}
    <2>1. \A s \in found : warnings[s] = 0
      BY <1>0 DEF IInv, WarnedRowsAreClosed, TypeOK
    <2>2. CheckInv'
      BY <1>0, <1>2, <2>1 DEF CheckFind, CheckInv
    <2> QED
      BY <1>0, <1>2, <2>2 DEF CheckFind, IInv, CallsInv, VerdictPriced,
         LateVerdictWasSubmitted, WarnedRowsAreClosed, WarnedAtMostOnce
  <1>3. CASE CheckMark
    <2>1. \A s \in Scholars : status'[s] = status[s] \/ status'[s] = "OVERDUE"
      BY <1>3 DEF CheckMark
    <2>2. CheckInv'
      BY <1>0, <1>3 DEF CheckMark, IInv, CheckInv, Open, TypeOK
    <2>3. WarnedRowsAreClosed' /\ WarnedAtMostOnce'
      BY <1>3, <2>1 DEF CheckMark, IInv, WarnedRowsAreClosed, WarnedAtMostOnce, Open
    <2>4. VerdictPriced' /\ LateVerdictWasSubmitted'
      BY <1>3, <2>1 DEF CheckMark, IInv, VerdictPriced, LateVerdictWasSubmitted
    <2>5. CallsInv'
      BY <1>0, <1>3 DEF CheckMark, CallsInv
    <2> QED
      BY <1>0, <2>2, <2>3, <2>4, <2>5 DEF IInv
  <1>4. CASE CheckDone
    BY <1>0, <1>4 DEF CheckDone, IInv, CallsInv, CheckInv, VerdictPriced,
       LateVerdictWasSubmitted, WarnedRowsAreClosed, WarnedAtMostOnce
  <1>5. ASSUME NEW s \in Scholars, CheckNotify(s)
        PROVE  IInv'
    <2>1. warnings[s] = 0 /\ status[s] \notin Open
      BY <1>5 DEF CheckNotify, IInv, CheckInv
    <2>2. warnings'[s] = 1 /\ \A t \in Scholars \ {s} : warnings'[t] = warnings[t]
      BY <1>0, <1>5, <2>1 DEF CheckNotify, TypeOK
    <2>3. CheckInv'
      BY <1>0, <1>5, <2>2 DEF CheckNotify, IInv, CheckInv, TypeOK
    <2>4. WarnedRowsAreClosed' /\ WarnedAtMostOnce'
      BY <1>5, <2>1, <2>2 DEF CheckNotify, IInv, WarnedRowsAreClosed, WarnedAtMostOnce
    <2> QED
      BY <1>0, <1>5, <2>3, <2>4
      DEF CheckNotify, IInv, CallsInv, VerdictPriced, LateVerdictWasSubmitted
  <1>6. CASE CheckFails
    BY <1>0, <1>6 DEF CheckFails, IInv, CallsInv, CheckInv, VerdictPriced,
       LateVerdictWasSubmitted, WarnedRowsAreClosed, WarnedAtMostOnce
  <1> QED
    BY <1>1, <1>2, <1>3, <1>4, <1>5, <1>6 DEF CheckStep

LEMMA EnvironmentIInv ==
    ASSUME IInv, Environment
    PROVE  IInv'
  <1>1. TypeOK'
    BY EnvironmentTypeOK DEF IInv
  <1>2. UNCHANGED <<status, isLate, earnedCredit, call, check, warnings>>
    BY DEF Environment, Tick, MoveDueDate, SetPenalty, rows
  <1> QED
    BY <1>1, <1>2, ReadStepIInv DEF IInv, CallsInv

LEMMA NextIInv == IInv /\ [Next]_vars => IInv'
  <1> SUFFICES ASSUME IInv, [Next]_vars PROVE IInv'
    OBVIOUS
  <1>1. CASE UNCHANGED vars
    BY <1>1 DEF vars, IInv, TypeOK, CallsInv, CheckInv, VerdictPriced,
       LateVerdictWasSubmitted, WarnedRowsAreClosed, WarnedAtMostOnce
  <1> QED
    BY <1>1, CallStepIInv, CheckStepIInv, EnvironmentIInv DEF Next

\* The inductive invariant holds in every reachable state.
THEOREM Invariance == Spec => []IInv
  BY InitIInv, NextIInv, PTL DEF Spec

\* Every variable keeps its type, whatever the races.
THEOREM TypeCorrect == Spec => []TypeOK
  <1>1. IInv => TypeOK
    BY DEF IInv
  <1> QED
    BY <1>1, Invariance, PTL

\* A verdict and its credit agree in every reachable state (verify).
THEOREM VerdictsArePriced == Spec => []VerdictPriced
  <1>1. IInv => VerdictPriced
    BY DEF IInv
  <1> QED
    BY <1>1, Invariance, PTL

\* A late verdict stands only on a row that was handed in (submit, verify).
THEOREM LateVerdictsWereSubmitted == Spec => []LateVerdictWasSubmitted
  <1>1. IInv => LateVerdictWasSubmitted
    BY DEF IInv
  <1> QED
    BY <1>1, Invariance, PTL

\* Nobody is warned about an open row (handleOverdueCheck).
THEOREM WarningsAreSound == Spec => []WarnedRowsAreClosed
  <1>1. IInv => WarnedRowsAreClosed
    BY DEF IInv
  <1> QED
    BY <1>1, Invariance, PTL

\* Nobody is warned twice, however often the check is tried again (handleOverdueCheck).
THEOREM WarningsAreSingle == Spec => []WarnedAtMostOnce
  <1>1. IInv => WarnedAtMostOnce
    BY DEF IInv
  <1> QED
    BY <1>1, Invariance, PTL

-----------------------------------------------------------------------------
(* Submissions implements Gradebook.                                       *)

LEMMA InitRefines == Init => Abstract!Init
  BY DEF Init, Abstract!Init, NoCredit, Abstract!NoCredit

\* Every step of a request is a step of the gradebook, or leaves it alone.
LEMMA CallStepRefines ==
    ASSUME IInv, NEW c \in Calls, CallStep(c)
    PROVE  Abstract!Next \/ UNCHANGED Abstract!vars
  <1> USE DEF env, rows
  <1>0. TypeOK /\ CallsInv
    BY DEF IInv
  <1>1. CASE SubmitWrite(c)
    <2>1. PICK s \in Scholars : s = call[c].scholar
      BY <1>0, <1>1, StepIsBusy DEF SubmitWrite, Steps, InFlight
    <2>2. call[c].late # "unset"
      BY <1>0, <1>1 DEF SubmitWrite, CallsInv
    <2>3. {t \in Scholars : isLate'[t] # "unset"}
              = {t \in Scholars : isLate[t] # "unset"} \union {s}
      BY <1>0, <1>1, <2>1, <2>2 DEF SubmitWrite, TypeOK
    <2>4. Abstract!HandIn(s)
      BY <1>1, <2>1, <2>3 DEF SubmitWrite, Abstract!HandIn
    <2> QED
      BY <2>4 DEF Abstract!Next
  <1>2. CASE VerifyWrite(c)
    <2> DEFINE s == call[c].scholar
               v == call[c].by
    <2>1. s \in Scholars /\ v \in Verifiers /\ v # s
      BY <1>0, <1>2, StepIsBusy DEF VerifyWrite, CallsInv, Steps, InFlight
    <2>2. CASE call[c].late = "late"
      <3>1. s \in {t \in Scholars : isLate[t] # "unset"}
        BY <1>0, <1>2, <2>1, <2>2 DEF VerifyWrite, CallsInv
      <3>2. LateCredit(call[c].penalty) \in LateCredits
        BY <1>0, <1>2, LateCreditRange DEF VerifyWrite, CallsInv
      <3>3. Abstract!AwardLate(v, s)
        BY <1>2, <2>1, <2>2, <3>1, <3>2 DEF VerifyWrite, Abstract!AwardLate
      <3> QED
        BY <2>1, <3>3 DEF Abstract!Next
    <2>3. CASE call[c].late # "late"
      <3>1. Abstract!AwardFull(v, s)
        BY <1>2, <2>1, <2>3 DEF VerifyWrite, Abstract!AwardFull
      <3> QED
        BY <2>1, <3>1 DEF Abstract!Next
    <2> QED
      BY <2>2, <2>3
  <1>3. CASE ResubmissionWrite(c)
    <2>1. call[c].scholar \in Scholars
      BY <1>0, <1>3, StepIsBusy DEF ResubmissionWrite, Steps, InFlight
    <2>2. Abstract!AskAgain(call[c].scholar)
      BY <1>3 DEF ResubmissionWrite, Abstract!AskAgain
    <2> QED
      BY <2>1, <2>2 DEF Abstract!Next
  <1>4. CASE ~ (SubmitWrite(c) \/ VerifyWrite(c) \/ ResubmissionWrite(c))
    <2>1. UNCHANGED <<status, earnedCredit, verifiedBy, isLate, warnings>>
      BY <1>4 DEF CallStep, SubmitReadAssignment, SubmitStamp, VerifyReadRow,
         VerifyReadPenalty, CallFails
    <2> QED
      BY <2>1 DEF Abstract!vars
  <1> QED
    BY <1>1, <1>2, <1>3, <1>4

LEMMA CheckStepRefines ==
    ASSUME IInv, CheckStep \/ CheckFails
    PROVE  Abstract!Next \/ UNCHANGED Abstract!vars
  <1> USE DEF env, rows, Job, NoCheck
  <1>0. TypeOK /\ CheckInv
    BY DEF IInv
  <1>1. CASE CheckMark
    <2>1. check.found \in SUBSET Scholars
      BY <1>0 DEF TypeOK
    <2>2. check.found \intersect {s \in Scholars : warnings[s] > 0} = {}
      BY <1>0, <1>1 DEF CheckMark, CheckInv
    <2>3. Abstract!MarkOverdue(check.found)
      BY <1>1, <2>2 DEF CheckMark, Abstract!MarkOverdue
    <2> QED
      BY <2>1, <2>3 DEF Abstract!Next
  <1>2. ASSUME NEW s \in Scholars, CheckNotify(s)
        PROVE  Abstract!Next \/ UNCHANGED Abstract!vars
    <2>1. warnings[s] = 0 /\ status[s] \notin Open
      BY <1>0, <1>2 DEF CheckNotify, CheckInv
    <2>2. {t \in Scholars : warnings'[t] > 0} = {t \in Scholars : warnings[t] > 0} \union {s}
      BY <1>0, <1>2, <2>1 DEF CheckNotify, TypeOK
    <2>3. Abstract!Warn(s)
      BY <1>2, <2>1, <2>2 DEF CheckNotify, Abstract!Warn, Open, Abstract!Open
    <2> QED
      BY <2>3 DEF Abstract!Next
  <1>3. CASE CheckStart \/ CheckFind \/ CheckDone \/ CheckFails
    BY <1>3 DEF CheckStart, CheckFind, CheckDone, CheckFails, Abstract!vars
  <1> QED
    BY <1>1, <1>2, <1>3 DEF CheckStep

\* Whatever the requests and the check do to the rows is what the abstract
\* gradebook allows.
THEOREM Refinement == Spec => ImplementsGradebook
  <1>1. IInv /\ [Next]_vars => [Abstract!Next]_(Abstract!vars)
    <2> SUFFICES ASSUME IInv, [Next]_vars
                 PROVE  Abstract!Next \/ UNCHANGED Abstract!vars
      OBVIOUS
    <2>1. CASE Environment \/ UNCHANGED vars
      BY <2>1 DEF Environment, Tick, MoveDueDate, SetPenalty, rows, vars, Abstract!vars
    <2> QED
      BY <2>1, CallStepRefines, CheckStepRefines DEF Next
  <1> QED
    BY <1>1, InitRefines, Invariance, PTL DEF Spec, ImplementsGradebook, Abstract!Spec
=============================================================================
