---------------------------- MODULE MentorPairing ----------------------------
(***************************************************************************)
(* The mentor pairings of one course (table mentor_scholar_assignments)    *)
(* and the handlers create, reassign and endAssignment of                  *)
(* MentorPairingService.                                                   *)
(*                                                                         *)
(* create and reassign check first and write later, in a transaction of    *)
(* their own; no constraint of the table repeats the check.  A call in     *)
(* flight is a record whose field "at" names its next database access.     *)
(***************************************************************************)
EXTENDS Integers, Sequences, FiniteSets

CONSTANTS
    Mentors,      \* users with the role MENTOR
    Scholars,     \* users with the role SCHOLAR
    Calls,        \* how many requests may be in flight at once
    MaxBatch,     \* bound on the scholars of one request
    MaxPairings   \* bound on the rows

ASSUME RolesAssumption == Mentors \intersect Scholars = {}
ASSUME PairingBounds == MaxBatch \in Nat \ {0} /\ MaxPairings \in Nat

VARIABLES
    members,   \* members of the course
    pairing,   \* the rows, in the order in which they were created
    call       \* the requests in flight

vars == <<members, pairing, call>>

\* A row.  replaces is history: the pairing that reassign ended for it, or 0.
Pairing(m, s, ended, old) ==
    [mentor |-> m, scholar |-> s, ended |-> ended, replaces |-> old]
Pairings == [mentor : Mentors, scholar : Scholars, ended : BOOLEAN, replaces : Nat]

\* scholarIds of a request: not empty, and not checked for duplicates.
Batches == UNION {[1 .. n -> Scholars] : n \in 1 .. MaxBatch}

Idle == [at |-> "idle"]
InFlight ==
    [at : {"checkPairs", "createPairs"}, mentor : Mentors, scholars : Batches]
      \union [at : {"reassign"}, mentor : Mentors, pairing : Nat \ {0}]
      \union [at : {"end"}, pairing : Nat \ {0}]
Goes(c, next) == call' = [call EXCEPT ![c] = next]

\* The rows of a scholar with ends_at = null.
Active(s) == {p \in DOMAIN pairing : pairing[p].scholar = s /\ ~pairing[p].ended}

\* The rows once pairing p has got its ends_at.
Ended(p) ==
    [pairing EXCEPT ![p] =
        Pairing(pairing[p].mentor, pairing[p].scholar, TRUE, pairing[p].replaces)]

TypeOK ==
    /\ members \subseteq Mentors \union Scholars
    /\ pairing \in Seq(Pairings)
    /\ call \in [Calls -> InFlight \union {Idle}]

Init ==
    /\ members \in SUBSET (Mentors \union Scholars)
    /\ pairing = <<>>
    /\ call = [c \in Calls |-> Idle]

-----------------------------------------------------------------------------
(* MentorPairingService.create.                                            *)

\* Checks the roles, then that everybody is a member of the course.
CreateCheckMembers(c, m, batch) ==
    /\ call[c] = Idle
    /\ {m} \union {batch[i] : i \in DOMAIN batch} \subseteq members
    /\ Goes(c, [at |-> "checkPairs", mentor |-> m, scholars |-> batch])
    /\ UNCHANGED <<members, pairing>>

\* Refuses a batch in which somebody has an active mentor by now.
CreateCheckPairs(c) ==
    /\ call[c].at = "checkPairs"
    /\ IF \A i \in DOMAIN call[c].scholars : Active(call[c].scholars[i]) = {}
       THEN Goes(c, [call[c] EXCEPT !.at = "createPairs"])
       ELSE Goes(c, Idle)
    /\ UNCHANGED <<members, pairing>>

\* The transaction: one row per scholar of the batch, whatever was created since.
CreateWrite(c) ==
    /\ call[c].at = "createPairs"
    /\ LET batch == call[c].scholars
       IN  /\ Len(pairing) + Len(batch) <= MaxPairings
           /\ pairing' = pairing \o
                  [i \in 1 .. Len(batch) |-> Pairing(call[c].mentor, batch[i], FALSE, 0)]
    /\ Goes(c, Idle)
    /\ UNCHANGED members

-----------------------------------------------------------------------------
(* MentorPairingService.reassign.                                          *)

\* Finds the pairing, ended or not, then checks the new mentor's role and
\* membership.
ReassignRead(c, p, m) ==
    /\ call[c] = Idle
    /\ m \in members
    /\ Goes(c, [at |-> "reassign", mentor |-> m, pairing |-> p])
    /\ UNCHANGED <<members, pairing>>

\* Mutant of ReassignWrite: mentor and scholar are swapped in the new row.
ReassignWriteSwapped(c) ==
    /\ call[c].at = "reassign"
    /\ Len(pairing) < MaxPairings
    /\ LET p == call[c].pairing
       IN  pairing' = Append(Ended(p), Pairing(pairing[p].scholar, call[c].mentor, FALSE, p))
    /\ Goes(c, Idle)
    /\ UNCHANGED members

\* Mutant of ReassignWrite: the pairing is not ended.
ReassignWriteAdds(c) ==
    /\ call[c].at = "reassign"
    /\ Len(pairing) < MaxPairings
    /\ LET p == call[c].pairing
       IN  pairing' = Append(pairing, Pairing(call[c].mentor, pairing[p].scholar, FALSE, p))
    /\ Goes(c, Idle)
    /\ UNCHANGED members

\* Mutant of ReassignWrite: no transaction, and the second write fails.
ReassignWriteHalf(c) ==
    /\ call[c].at = "reassign"
    /\ pairing' = Ended(call[c].pairing)
    /\ Goes(c, Idle)
    /\ UNCHANGED members

\* Mutant of ReassignWrite: the row changes its mentor.
ReassignWriteInPlace(c) ==
    /\ call[c].at = "reassign"
    /\ LET p == call[c].pairing
           old == pairing[p]
       IN  pairing' = [pairing EXCEPT
               ![p] = Pairing(call[c].mentor, old.scholar, FALSE, old.replaces)]
    /\ Goes(c, Idle)
    /\ UNCHANGED members

\* The transaction: ends the pairing and creates its successor.
ReassignWrite(c) ==
    /\ call[c].at = "reassign"
    /\ Len(pairing) < MaxPairings
    /\ LET p == call[c].pairing
       IN  pairing' = Append(Ended(p), Pairing(call[c].mentor, pairing[p].scholar, FALSE, p))
    /\ Goes(c, Idle)
    /\ UNCHANGED members

-----------------------------------------------------------------------------
(* MentorPairingService.endAssignment.                                     *)

\* A pairing that has ended already is answered without a write.
EndRead(c, p) ==
    /\ call[c] = Idle
    /\ ~pairing[p].ended
    /\ Goes(c, [at |-> "end", pairing |-> p])
    /\ UNCHANGED <<members, pairing>>

EndWrite(c) ==
    /\ call[c].at = "end"
    /\ pairing' = Ended(call[c].pairing)
    /\ Goes(c, Idle)
    /\ UNCHANGED members

-----------------------------------------------------------------------------
\* Any await may reject; a transaction that fails leaves nothing.
CallFails(c) ==
    /\ call[c] # Idle
    /\ Goes(c, Idle)
    /\ UNCHANGED <<members, pairing>>

\* CoursesService adds and removes members without a look at the pairings.
Enrol(u) ==
    /\ members' = members \union {u}
    /\ UNCHANGED <<pairing, call>>

Withdraw(u) ==
    /\ members' = members \ {u}
    /\ UNCHANGED <<pairing, call>>

CallStep(c) ==
    \/ \E m \in Mentors, batch \in Batches : CreateCheckMembers(c, m, batch)
    \/ CreateCheckPairs(c) \/ CreateWrite(c)
    \/ \E p \in DOMAIN pairing, m \in Mentors : ReassignRead(c, p, m)
    \/ ReassignWrite(c)
    \/ \E p \in DOMAIN pairing : EndRead(c, p)
    \/ EndWrite(c)
    \/ CallFails(c)

Next ==
    \/ \E c \in Calls : CallStep(c)
    \/ \E u \in Mentors \union Scholars : Enrol(u) \/ Withdraw(u)

Spec == Init /\ [][Next]_vars

-----------------------------------------------------------------------------
(* Properties.                                                             *)

\* The mentor who was replaced is out: no interleaving of two reassignments, or
\* of a reassignment and an end, leaves the pairing that a successor replaced
\* active (reassign).
ReplacedHasEnded ==
    \A p \in DOMAIN pairing :
        pairing[p].replaces # 0 => pairing[pairing[p].replaces].ended

\* A scholar who has a mentor keeps one until somebody ends a pairing: no
\* reassignment, however it races or fails, leaves the scholar without
\* (reassign, the transaction).
OnlyEndUncovers ==
    [][\A s \in Scholars :
          Active(s) # {} /\ Active(s)' = {}
              => \E c \in Calls : call[c].at = "end"
                                  /\ pairing[call[c].pairing].scholar = s]_vars

\* "Historical data is preserved": a row keeps its mentor and its scholar for
\* good, and an ended one stays ended (reassign, endAssignment).
HistoryIsKept ==
    [][\A p \in DOMAIN pairing :
          /\ p \in DOMAIN pairing'
          /\ pairing'[p].mentor = pairing[p].mentor
          /\ pairing'[p].scholar = pairing[p].scholar
          /\ pairing[p].ended => pairing'[p].ended]_vars

\* "Check scholars don't already have an active mentor in this course": what
\* create promises.  It does not hold, with two requests in flight, with an ended
\* pairing reassigned, or with a scholar named twice.
OneActiveMentor == \A s \in Scholars : Cardinality(Active(s)) <= 1
=============================================================================
