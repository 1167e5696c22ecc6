------------------------- MODULE MentorPairingProofs -------------------------
(***************************************************************************)
(* Proofs about MentorPairing, for any number of mentors, scholars, rows   *)
(* and requests in flight.                                                 *)
(***************************************************************************)
EXTENDS MentorPairing, TLAPS

\* The rows that the requests in flight and the other rows refer to exist.
RefsInv ==
    /\ \A c \in Calls :
          call[c].at \in {"reassign", "end"} => call[c].pairing \in DOMAIN pairing
    /\ \A p \in DOMAIN pairing :
          pairing[p].replaces # 0 => pairing[p].replaces \in DOMAIN pairing

IInv ==
    /\ TypeOK
    /\ RefsInv
    /\ ReplacedHasEnded

-----------------------------------------------------------------------------
(* Facts about the data.                                                   *)

LEMMA CallKinds ==
    ASSUME TypeOK, NEW c \in Calls
    PROVE  /\ call[c].at \in {"checkPairs", "createPairs"} =>
                 call[c].mentor \in Mentors /\ call[c].scholars \in Batches
           /\ call[c].at = "reassign" =>
                 call[c].mentor \in Mentors /\ call[c].pairing \in Nat \ {0}
           /\ call[c].at = "end" => call[c].pairing \in Nat \ {0}
  BY DEF TypeOK, InFlight, Idle

LEMMA GoesOnlyThere ==
    ASSUME TypeOK, NEW c \in Calls, NEW next \in InFlight \union {Idle}, Goes(c, next)
    PROVE  /\ call' \in [Calls -> InFlight \union {Idle}]
           /\ call'[c] = next
           /\ \A d \in Calls \ {c} : call'[d] = call[d]
  BY DEF TypeOK, Goes

LEMMA IdleCall == Idle \in InFlight \union {Idle} /\ Idle.at = "idle"
  BY DEF Idle

\* A batch is a sequence of scholars.
LEMMA BatchType == ASSUME NEW b \in Batches
                   PROVE  b \in Seq(Scholars) /\ Len(b) \in Nat
  BY PairingBounds DEF Batches

\* Ending a row leaves a sequence of rows in which only that row has ended.
LEMMA Ending ==
    ASSUME TypeOK, NEW p \in DOMAIN pairing
    PROVE  /\ Ended(p) \in Seq(Pairings)
           /\ Len(Ended(p)) = Len(pairing)
           /\ DOMAIN Ended(p) = DOMAIN pairing
           /\ Ended(p)[p].ended
           /\ \A q \in DOMAIN pairing :
                 /\ q # p => Ended(p)[q] = pairing[q]
                 /\ Ended(p)[q].mentor = pairing[q].mentor
                 /\ Ended(p)[q].scholar = pairing[q].scholar
                 /\ Ended(p)[q].replaces = pairing[q].replaces
                 /\ pairing[q].ended => Ended(p)[q].ended
  <1>1. pairing \in Seq(Pairings) /\ pairing[p] \in Pairings
    BY DEF TypeOK
  <1>2. Pairing(pairing[p].mentor, pairing[p].scholar, TRUE, pairing[p].replaces) \in Pairings
    BY <1>1 DEF Pairing, Pairings
  <1> QED
    BY <1>1, <1>2 DEF Ended, Pairing

-----------------------------------------------------------------------------
(* What the three writes do to the rows.                                   *)

LEMMA CreateRows ==
    ASSUME IInv, NEW c \in Calls, CreateWrite(c)
    PROVE  /\ pairing' \in Seq(Pairings)
           /\ Len(pairing') >= Len(pairing)
           /\ \A p \in DOMAIN pairing : p \in DOMAIN pairing' /\ pairing'[p] = pairing[p]
           /\ \A p \in DOMAIN pairing' \ DOMAIN pairing : pairing'[p].replaces = 0
  <1>1. PICK m \in Mentors, b \in Batches : m = call[c].mentor /\ b = call[c].scholars
    BY CallKinds DEF IInv, CreateWrite
  <1>2. PICK new : new = [i \in 1 .. Len(b) |-> Pairing(m, b[i], FALSE, 0)]
    OBVIOUS
  <1>3. new \in Seq(Pairings) /\ \A i \in DOMAIN new : new[i].replaces = 0
    BY <1>1, <1>2, BatchType DEF Pairing, Pairings
  <1>4. pairing \in Seq(Pairings) /\ pairing' = pairing \o new
    BY <1>1, <1>2 DEF CreateWrite, IInv, TypeOK
  <1> QED
    BY <1>3, <1>4

LEMMA ReassignRows ==
    ASSUME IInv, NEW c \in Calls, ReassignWrite(c)
    PROVE  \E p \in DOMAIN pairing :
              /\ pairing' \in Seq(Pairings)
              /\ DOMAIN pairing' = DOMAIN pairing \union {Len(pairing) + 1}
              /\ pairing'[p].ended
              /\ \A q \in DOMAIN pairing :
                    /\ q # p => pairing'[q] = pairing[q]
                    /\ pairing'[q].mentor = pairing[q].mentor
                    /\ pairing'[q].scholar = pairing[q].scholar
                    /\ pairing'[q].replaces = pairing[q].replaces
                    /\ pairing[q].ended => pairing'[q].ended
              /\ pairing'[Len(pairing) + 1].replaces = p
              /\ pairing'[Len(pairing) + 1].scholar = pairing[p].scholar
              /\ ~pairing'[Len(pairing) + 1].ended
  <1>1. PICK p \in DOMAIN pairing, m \in Mentors : p = call[c].pairing /\ m = call[c].mentor
    BY CallKinds DEF ReassignWrite, IInv, RefsInv
  <1>2. pairing \in Seq(Pairings) /\ pairing[p] \in Pairings
    BY DEF IInv, TypeOK
  <1>3. PICK new : new = Pairing(m, pairing[p].scholar, FALSE, p)
    OBVIOUS
  <1>4. /\ new \in Pairings
        /\ new.replaces = p
        /\ new.scholar = pairing[p].scholar
        /\ ~new.ended
    BY <1>2, <1>3 DEF Pairing, Pairings
  <1>5. pairing' = Append(Ended(p), new)
    BY <1>1, <1>3 DEF ReassignWrite
  <1>6. /\ Ended(p) \in Seq(Pairings)
        /\ Len(Ended(p)) = Len(pairing)
        /\ DOMAIN Ended(p) = DOMAIN pairing
        /\ Ended(p)[p].ended
        /\ \A q \in DOMAIN pairing :
              /\ q # p => Ended(p)[q] = pairing[q]
              /\ Ended(p)[q].mentor = pairing[q].mentor
              /\ Ended(p)[q].scholar = pairing[q].scholar
              /\ Ended(p)[q].replaces = pairing[q].replaces
              /\ pairing[q].ended => Ended(p)[q].ended
    BY Ending DEF IInv
  <1>7. /\ pairing' \in Seq(Pairings)
        /\ DOMAIN pairing' = DOMAIN pairing \union {Len(pairing) + 1}
        /\ \A q \in DOMAIN pairing : pairing'[q] = Ended(p)[q]
        /\ pairing'[Len(pairing) + 1] = new
    BY <1>2, <1>4, <1>5, <1>6
  <1> QED
    BY <1>4, <1>6, <1>7

LEMMA EndRows ==
    ASSUME IInv, NEW c \in Calls, EndWrite(c)
    PROVE  \E p \in DOMAIN pairing :
              /\ p = call[c].pairing
              /\ pairing' \in Seq(Pairings)
              /\ DOMAIN pairing' = DOMAIN pairing
              /\ \A q \in DOMAIN pairing :
                    /\ q # p => pairing'[q] = pairing[q]
                    /\ pairing'[q].mentor = pairing[q].mentor
                    /\ pairing'[q].scholar = pairing[q].scholar
                    /\ pairing'[q].replaces = pairing[q].replaces
                    /\ pairing[q].ended => pairing'[q].ended
  <1>1. PICK p \in DOMAIN pairing : p = call[c].pairing
    BY DEF EndWrite, IInv, RefsInv
  <1>2. pairing' = Ended(p)
    BY <1>1 DEF EndWrite
  <1> QED
    BY <1>1, <1>2, Ending DEF IInv

-----------------------------------------------------------------------------
(* The inductive invariant.                                                *)

LEMMA InitIInv == Init => IInv
  BY DEF Init, IInv, TypeOK, RefsInv, ReplacedHasEnded, Idle

\* A step that leaves the rows alone and sends one call on.
LEMMA QuietIInv ==
    ASSUME IInv, NEW c \in Calls, NEW next \in InFlight \union {Idle}, Goes(c, next),
           UNCHANGED <<members, pairing>>,
           next.at \in {"reassign", "end"} => next.pairing \in DOMAIN pairing
    PROVE  IInv'
  <1>1. /\ call' \in [Calls -> InFlight \union {Idle}]
        /\ call'[c] = next
        /\ \A d \in Calls \ {c} : call'[d] = call[d]
    BY GoesOnlyThere DEF IInv
  <1> QED
    BY <1>1 DEF IInv, TypeOK, RefsInv, ReplacedHasEnded

\* A step that writes the rows and ends its call: what it has to keep.
LEMMA WriteIInv ==
    ASSUME IInv, NEW c \in Calls, Goes(c, Idle), UNCHANGED members,
           pairing' \in Seq(Pairings), DOMAIN pairing \subseteq DOMAIN pairing',
           ReplacedHasEnded',
           \A p \in DOMAIN pairing' : pairing'[p].replaces # 0 => pairing'[p].replaces \in DOMAIN pairing'
    PROVE  IInv'
  <1>1. /\ call' \in [Calls -> InFlight \union {Idle}]
        /\ call'[c].at = "idle"
        /\ \A d \in Calls \ {c} : call'[d] = call[d]
    BY GoesOnlyThere, IdleCall DEF IInv
  <1>2. TypeOK'
    BY <1>1 DEF IInv, TypeOK
  <1>3. RefsInv'
    BY <1>1 DEF IInv, RefsInv
  <1> QED
    BY <1>2, <1>3 DEF IInv

LEMMA NextIInv == IInv /\ [Next]_vars => IInv'
  <1> SUFFICES ASSUME IInv, [Next]_vars
               PROVE  IInv'
    OBVIOUS
  <1>1. ASSUME NEW c \in Calls, NEW m \in Mentors, NEW b \in Batches, CreateCheckMembers(c, m, b)
        PROVE  IInv'
    <2>1. [at |-> "checkPairs", mentor |-> m, scholars |-> b] \in InFlight
      BY DEF InFlight
    <2> QED
      BY <1>1, <2>1, QuietIInv DEF CreateCheckMembers
  <1>2. ASSUME NEW c \in Calls, CreateCheckPairs(c)
        PROVE  IInv'
    <2>1. [call[c] EXCEPT !.at = "createPairs"] \in InFlight
      BY <1>2 DEF CreateCheckPairs, InFlight, IInv, TypeOK, Idle
    <2>2. [call[c] EXCEPT !.at = "createPairs"].at = "createPairs"
      BY <1>2 DEF CreateCheckPairs, InFlight, IInv, TypeOK, Idle
    <2> QED
      BY <1>2, <2>1, <2>2, QuietIInv, IdleCall DEF CreateCheckPairs
  <1>3. ASSUME NEW c \in Calls, CreateWrite(c)
        PROVE  IInv'
    <2>1. ReplacedHasEnded'
      BY <1>3, CreateRows DEF IInv, RefsInv, ReplacedHasEnded
    <2>2. \A p \in DOMAIN pairing' : pairing'[p].replaces # 0 => pairing'[p].replaces \in DOMAIN pairing'
      BY <1>3, CreateRows DEF IInv, RefsInv
    <2> QED
      BY <1>3, <2>1, <2>2, CreateRows, WriteIInv DEF CreateWrite
  <1>4. ASSUME NEW c \in Calls, NEW p \in DOMAIN pairing, NEW m \in Mentors, ReassignRead(c, p, m)
        PROVE  IInv'
    <2>1. [at |-> "reassign", mentor |-> m, pairing |-> p] \in InFlight
      BY DEF InFlight, IInv, TypeOK
    <2> QED
      BY <1>4, <2>1, QuietIInv DEF ReassignRead
  <1>5. ASSUME NEW c \in Calls, ReassignWrite(c)
        PROVE  IInv'
    <2>1. ReplacedHasEnded'
      BY <1>5, ReassignRows DEF IInv, RefsInv, ReplacedHasEnded
    <2>2. \A p \in DOMAIN pairing' : pairing'[p].replaces # 0 => pairing'[p].replaces \in DOMAIN pairing'
      BY <1>5, ReassignRows DEF IInv, RefsInv
    <2> QED
      BY <1>5, <2>1, <2>2, ReassignRows, WriteIInv DEF ReassignWrite
  <1>6. ASSUME NEW c \in Calls, NEW p \in DOMAIN pairing, EndRead(c, p)
        PROVE  IInv'
    <2>1. [at |-> "end", pairing |-> p] \in InFlight
      BY DEF InFlight, IInv, TypeOK
    <2> QED
      BY <1>6, <2>1, QuietIInv DEF EndRead
  <1>7. ASSUME NEW c \in Calls, EndWrite(c)
        PROVE  IInv'
    <2>1. ReplacedHasEnded'
      BY <1>7, EndRows DEF IInv, RefsInv, ReplacedHasEnded
    <2>2. \A p \in DOMAIN pairing' : pairing'[p].replaces # 0 => pairing'[p].replaces \in DOMAIN pairing'
      BY <1>7, EndRows DEF IInv, RefsInv
    <2> QED
      BY <1>7, <2>1, <2>2, EndRows, WriteIInv DEF EndWrite
  <1>8. ASSUME NEW c \in Calls, CallFails(c)
        PROVE  IInv'
    BY <1>8, QuietIInv, IdleCall DEF CallFails
  <1>9. ASSUME NEW u \in Mentors \union Scholars, Enrol(u) \/ Withdraw(u)
        PROVE  IInv'
    BY <1>9 DEF Enrol, Withdraw, IInv, TypeOK, RefsInv, ReplacedHasEnded
  <1>10. CASE UNCHANGED vars
    BY <1>10 DEF vars, IInv, TypeOK, RefsInv, ReplacedHasEnded
  <1> QED
    BY <1>1, <1>2, <1>3, <1>4, <1>5, <1>6, <1>7, <1>8, <1>9, <1>10 DEF Next, CallStep

-----------------------------------------------------------------------------
(* The theorems.                                                           *)

\* IInv is an invariant of MentorPairing.
THEOREM Invariance == Spec => []IInv
  BY InitIInv, NextIInv, PTL DEF Spec

\* Every reachable state is well typed.
THEOREM TypeCorrect == Spec => []TypeOK
  <1>1. IInv => TypeOK
    BY DEF IInv
  <1> QED
    BY <1>1, Invariance, PTL

\* A pairing that a reassignment replaced has ended, whatever was in flight
\* (reassign).
THEOREM ReplacedMentorsAreOut == Spec => []ReplacedHasEnded
  <1>1. IInv => ReplacedHasEnded
    BY DEF IInv
  <1> QED
    BY <1>1, Invariance, PTL

\* Which steps write the rows.
LEMMA RowWriters ==
    ASSUME [Next]_vars
    PROVE  UNCHANGED pairing
             \/ \E c \in Calls : CreateWrite(c) \/ ReassignWrite(c) \/ EndWrite(c)
  BY DEF Next, CallStep, CreateCheckMembers, CreateCheckPairs, ReassignRead, EndRead,
         CallFails, Enrol, Withdraw, vars

\* Rows are never taken away, never change hands and never become active again
\* (reassign, endAssignment).
THEOREM HistoryStays == Spec => HistoryIsKept
  <1>1. ASSUME IInv, [Next]_vars, NEW p \in DOMAIN pairing
        PROVE  /\ p \in DOMAIN pairing'
               /\ pairing'[p].mentor = pairing[p].mentor
               /\ pairing'[p].scholar = pairing[p].scholar
               /\ pairing[p].ended => pairing'[p].ended
    <2>1. CASE UNCHANGED pairing
      BY <2>1
    <2>2. ASSUME NEW c \in Calls, CreateWrite(c) \/ ReassignWrite(c) \/ EndWrite(c)
          PROVE  /\ p \in DOMAIN pairing'
                 /\ pairing'[p].mentor = pairing[p].mentor
                 /\ pairing'[p].scholar = pairing[p].scholar
                 /\ pairing[p].ended => pairing'[p].ended
      BY <1>1, <2>2, CreateRows, ReassignRows, EndRows
    <2> QED
      BY <1>1, <2>1, <2>2, RowWriters
  <1>2. IInv /\ [Next]_vars
            => [\A p \in DOMAIN pairing :
                   /\ p \in DOMAIN pairing'
                   /\ pairing'[p].mentor = pairing[p].mentor
                   /\ pairing'[p].scholar = pairing[p].scholar
                   /\ pairing[p].ended => pairing'[p].ended]_vars
    BY <1>1
  <1> QED
    BY <1>2, Invariance, PTL DEF Spec, HistoryIsKept

\* Only an end leaves a scholar without a mentor (reassign, endAssignment).
THEOREM CoverIsKept == Spec => OnlyEndUncovers
  <1>1. ASSUME IInv, [Next]_vars, NEW s \in Scholars, Active(s) # {}, Active(s)' = {}
        PROVE  \E c \in Calls : call[c].at = "end" /\ pairing[call[c].pairing].scholar = s
    <2>1. PICK q \in DOMAIN pairing : pairing[q].scholar = s /\ ~pairing[q].ended
      BY <1>1 DEF Active
    <2>2. \A p \in DOMAIN pairing' : pairing'[p].scholar = s => pairing'[p].ended
      BY <1>1 DEF Active
    <2>3. ASSUME NEW c \in Calls, CreateWrite(c)
          PROVE  FALSE
      BY <1>1, <2>1, <2>2, <2>3, CreateRows
    <2>4. ASSUME NEW c \in Calls, ReassignWrite(c)
          PROVE  FALSE
      BY <1>1, <2>1, <2>2, <2>4, ReassignRows
    <2>5. ASSUME NEW c \in Calls, EndWrite(c)
          PROVE  call[c].at = "end" /\ pairing[call[c].pairing].scholar = s
      BY <1>1, <2>1, <2>2, <2>5, EndRows DEF EndWrite
    <2>6. ~UNCHANGED pairing
      BY <2>1, <2>2
    <2> QED
      BY <1>1, <2>3, <2>4, <2>5, <2>6, RowWriters
  <1>2. IInv /\ [Next]_vars
            => [\A s \in Scholars :
                   Active(s) # {} /\ Active(s)' = {}
                       => \E c \in Calls : call[c].at = "end"
                                           /\ pairing[call[c].pairing].scholar = s]_vars
    BY <1>1
  <1> QED
    BY <1>2, Invariance, PTL DEF Spec, OnlyEndUncovers
=============================================================================
