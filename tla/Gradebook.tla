------------------------------ MODULE Gradebook ------------------------------
(***************************************************************************)
(* What the scholars of one published assignment may rely on, whatever the *)
(* requests and jobs that are in flight: the abstract specification that   *)
(* Submissions implements.                                                 *)
(*                                                                         *)
(*  - a verdict is given by somebody else, and comes with the credit that  *)
(*    belongs to it: the full credit, or the credit of a late submission;  *)
(*  - a late verdict is only ever given on work that was handed in;        *)
(*  - a row, once touched, is never open again;                            *)
(*  - the overdue check warns a scholar at most once, about a row it has   *)
(*    closed, and never marks a row it has already warned about.           *)
(***************************************************************************)
EXTENDS Integers

CONSTANTS
    Scholars,     \* the enrolled scholars, one row each
    Verifiers,    \* the users who may pass a verdict
    Nobody,       \* who has verified a row without a verdict
    FullCredit,   \* the credit of work handed in on time
    LateCredits   \* the credits a late submission may earn

VARIABLES
    status,       \* status of each row
    earnedCredit, \* credit of the last verdict on each row
    verifiedBy,   \* who gave the last verdict on each row
    handedIn,     \* scholars who have handed in at least once
    warned        \* scholars who were told that they are overdue

vars == <<status, earnedCredit, verifiedBy, handedIn, warned>>

Open == {"NOT_STARTED", "IN_PROGRESS"}

NoCredit == -1

HandIn(s) ==
    /\ status' = [status EXCEPT ![s] = "PENDING_VERIFICATION"]
    /\ handedIn' = handedIn \union {s}
    /\ UNCHANGED <<earnedCredit, verifiedBy, warned>>

AwardFull(v, s) ==
    /\ v # s
    /\ status' = [status EXCEPT ![s] = "VERIFIED"]
    /\ earnedCredit' = [earnedCredit EXCEPT ![s] = FullCredit]
    /\ verifiedBy' = [verifiedBy EXCEPT ![s] = v]
    /\ UNCHANGED <<handedIn, warned>>

AwardLate(v, s) ==
    /\ v # s
    /\ s \in handedIn
    /\ status' = [status EXCEPT ![s] = "VERIFIED_LATE"]
    /\ \E credit \in LateCredits :
          earnedCredit' = [earnedCredit EXCEPT ![s] = credit]
    /\ verifiedBy' = [verifiedBy EXCEPT ![s] = v]
    /\ UNCHANGED <<handedIn, warned>>

AskAgain(s) ==
    /\ status' = [status EXCEPT ![s] = "RESUBMISSION_REQUIRED"]
    /\ UNCHANGED <<earnedCredit, verifiedBy, handedIn, warned>>

MarkOverdue(rows) ==
    /\ rows \intersect warned = {}
    /\ status' = [s \in Scholars |-> IF s \in rows THEN "OVERDUE" ELSE status[s]]
    /\ UNCHANGED <<earnedCredit, verifiedBy, handedIn, warned>>

Warn(s) ==
    /\ s \notin warned
    /\ status[s] \notin Open
    /\ warned' = warned \union {s}
    /\ UNCHANGED <<status, earnedCredit, verifiedBy, handedIn>>

Init ==
    /\ status = [s \in Scholars |-> "NOT_STARTED"]
    /\ earnedCredit = [s \in Scholars |-> NoCredit]
    /\ verifiedBy = [s \in Scholars |-> Nobody]
    /\ handedIn = {}
    /\ warned = {}

Next ==
    \/ \E s \in Scholars : HandIn(s) \/ AskAgain(s) \/ Warn(s)
    \/ \E v \in Verifiers, s \in Scholars : AwardFull(v, s) \/ AwardLate(v, s)
    \/ \E rows \in SUBSET Scholars : MarkOverdue(rows)

Spec == Init /\ [][Next]_vars
=============================================================================
