---------------------------- MODULE DeliveryProofs ----------------------------
(***************************************************************************)
(* Proofs of the safety properties of Delivery, for every number of        *)
(* callers, attempts, stalls, notifications and mails.                     *)
(*                                                                         *)
(* The invariant that carries them says, besides the types: a notification *)
(* belongs to one call or to one mail, never to two; a mail's delivery row *)
(* is there before the mail is; and what a mail's next step tells about    *)
(* its row and its copies.                                                 *)
(***************************************************************************)
EXTENDS Delivery, TLAPS

\* A call's notification is its own and has no mail yet.
CallsInv ==
    /\ \A c \in Callers : creating[c] # Idle =>
          /\ creating[c].notification \in DOMAIN email
          /\ creating[c].at = "queue" => email[creating[c].notification] = "PENDING"
          /\ \A j \in DOMAIN mail : mail[j].notification # creating[c].notification
    /\ \A c, d \in Callers :
          c # d /\ creating[c] # Idle /\ creating[d] # Idle
              => creating[c].notification # creating[d].notification

\* No two mails are of one notification.
MailsDistinct ==
    \A j, k \in DOMAIN mail :
        j # k /\ mail[j].notification # 0 => mail[j].notification # mail[k].notification

\* What holds of a mail m, given the rows e.
RowKnows(m, e) ==
    m.notification # 0 =>
        /\ m.notification \in DOMAIN e
        /\ e[m.notification] \in {"PENDING", "SENT"}
        /\ e[m.notification] = "SENT" => m.copies > 0
        /\ m.at \in {"checked", "accepted"} => e[m.notification] = "PENDING"
        /\ m.at \in {"returned", "completed"} => e[m.notification] = "SENT"
CopiesKnow(m) ==
    /\ m.at \in {"accepted", "returned", "completed"} => m.copies > 0
    /\ m.copies <= m.made + m.stalls
                     + (IF m.at \in {"accepted", "returned", "completed"} THEN 1 ELSE 0)
LimitsLeft(m) ==
    m.at \in Underway \union {"waiting"} => m.made < Attempts /\ m.stalls <= MaxStalls
MailKnows(m, e) == RowKnows(m, e) /\ CopiesKnow(m) /\ LimitsLeft(m)
MailsInv == \A j \in DOMAIN mail : MailKnows(mail[j], email)

\* The inductive invariant.
IInv == TypeOK /\ CallsInv /\ MailsDistinct /\ MailsInv

-----------------------------------------------------------------------------
(* The records.                                                            *)

\* The fields of a mail, in range.
LEMMA MailTypes ==
    ASSUME NEW m \in Mails
    PROVE  /\ m.notification \in 0 .. MaxNotifications
           /\ m.at \in Underway \union {"waiting", "completed", "failed"}
           /\ m.made \in 0 .. Attempts
           /\ m.stalls \in 0 .. MaxStalls + 1
           /\ m.copies \in Nat
  BY DEF Mails

\* A mail that is built from parts has these fields, and is typed if they are.
LEMMA MailBuilt ==
    ASSUME NEW n, NEW at, NEW made, NEW stalls, NEW copies
    PROVE  /\ Mail(n, at, made, stalls, copies).notification = n
           /\ Mail(n, at, made, stalls, copies).at = at
           /\ Mail(n, at, made, stalls, copies).made = made
           /\ Mail(n, at, made, stalls, copies).stalls = stalls
           /\ Mail(n, at, made, stalls, copies).copies = copies
           /\ /\ n \in 0 .. MaxNotifications
              /\ at \in Underway \union {"waiting", "completed", "failed"}
              /\ made \in 0 .. Attempts
              /\ stalls \in 0 .. MaxStalls + 1
              /\ copies \in Nat
              => Mail(n, at, made, stalls, copies) \in Mails
  BY DEF Mail, Mails

\* A call that is not idle has a notification.
LEMMA CallKinds ==
    ASSUME TypeOK, NEW c \in Callers
    PROVE  /\ creating[c] \in Calls \union {Idle}
           /\ creating[c].at \in {"deliveries", "queue"} => creating[c] # Idle
           /\ creating[c] # Idle => creating[c].notification \in 1 .. MaxNotifications
  BY DEF TypeOK, Calls, Idle

-----------------------------------------------------------------------------
(* The invariant is inductive.                                             *)

LEMMA InitIInv == Init => IInv
  BY DeliveryBounds DEF Init, IInv, TypeOK, CallsInv, MailsDistinct, MailsInv

\* A call that moves on, or gives up, while the mails stay.
LEMMA IdleCall ==
    ASSUME IInv, NEW c \in Callers, Goes(c, Idle), UNCHANGED <<email, mail, configured>>
    PROVE  IInv'
  <1>1. TypeOK'
    BY DEF IInv, TypeOK, Goes
  <1>2. \A d \in Callers : creating'[d] # Idle => d # c /\ creating'[d] = creating[d]
    BY DEF IInv, TypeOK, Goes
  <1>3. CallsInv'
    BY <1>2 DEF IInv, CallsInv
  <1> QED
    BY <1>1, <1>3 DEF IInv, MailsDistinct, MailsInv, MailKnows, RowKnows, CopiesKnow, LimitsLeft

\* A mail that moves on alone.
LEMMA MailStep ==
    ASSUME IInv, NEW j \in DOMAIN mail, NEW m \in Mails,
           m.notification = mail[j].notification, MailKnows(m, email),
           Becomes(j, m), UNCHANGED <<email, creating, configured>>
    PROVE  IInv'
  <1>1. /\ mail' \in Seq(Mails)
        /\ DOMAIN mail' = DOMAIN mail
        /\ mail'[j] = m
        /\ \A k \in DOMAIN mail : k # j => mail'[k] = mail[k]
    BY DEF IInv, TypeOK, Becomes
  <1>2. \A k \in DOMAIN mail : mail'[k].notification = mail[k].notification
    BY <1>1
  <1>3. TypeOK'
    BY <1>1 DEF IInv, TypeOK
  <1>4. CallsInv' /\ MailsDistinct'
    BY <1>1, <1>2 DEF IInv, CallsInv, MailsDistinct
  <1>5. \A k \in DOMAIN mail : MailKnows(mail'[k], email')
    BY <1>1 DEF IInv, MailsInv
  <1> QED
    BY <1>1, <1>3, <1>4, <1>5 DEF IInv, MailsInv

\* A mail that is added, of no notification or of one that has no mail or call.
LEMMA MailAdded ==
    ASSUME IInv, NEW n \in 0 .. MaxNotifications, mail' = Append(mail, NewMail(n)),
           n # 0 => /\ n \in DOMAIN email
                    /\ email[n] = "PENDING"
                    /\ \A j \in DOMAIN mail : mail[j].notification # n
                    /\ \A c \in Callers : creating'[c] # Idle => creating'[c].notification # n,
           \A c \in Callers : creating'[c] # Idle => creating'[c] = creating[c],
           creating' \in [Callers -> Calls \union {Idle}],
           UNCHANGED <<email, configured>>
    PROVE  IInv'
  <1> DEFINE m == NewMail(n)
  <1>1. m \in Mails /\ m.notification = n /\ MailKnows(m, email)
    BY JobLimits, MailBuilt DEF NewMail, MailKnows, RowKnows, CopiesKnow, LimitsLeft, Underway
  <1> HIDE DEF m
  <1>2. /\ mail' \in Seq(Mails)
        /\ DOMAIN mail' = DOMAIN mail \union {Len(mail) + 1}
        /\ Len(mail) + 1 \notin DOMAIN mail
        /\ mail'[Len(mail) + 1] = m
        /\ \A k \in DOMAIN mail : mail'[k] = mail[k]
    BY <1>1 DEF IInv, TypeOK, m
  <1>3. TypeOK'
    BY <1>2 DEF IInv, TypeOK
  <1>4. CallsInv'
    <2>1. \A c \in Callers : creating'[c] # Idle => creating'[c].notification # 0
      BY CallKinds DEF IInv, CallsInv
    <2>2. \A c \in Callers, k \in DOMAIN mail' :
             creating'[c] # Idle => mail'[k].notification # creating'[c].notification
      BY <1>1, <1>2, <2>1 DEF IInv, CallsInv
    <2> QED
      BY <2>2 DEF IInv, CallsInv
  <1>5. MailsDistinct'
    BY <1>1, <1>2 DEF IInv, MailsDistinct
  <1>6. \A k \in DOMAIN mail' : MailKnows(mail'[k], email')
    BY <1>1, <1>2 DEF IInv, MailsInv
  <1> QED
    BY <1>3, <1>4, <1>5, <1>6 DEF IInv, MailsInv

\* NotificationsService.create.
LEMMA CreateIInv ==
    ASSUME IInv, NEW c \in Callers, CallStep(c)
    PROVE  IInv'
  <1>1. ASSUME NEW byEmail \in BOOLEAN, CreateNotification(c, byEmail)
        PROVE  IInv'
    <2> DEFINE n == Len(email) + 1
               next == [at |-> "deliveries", notification |-> n, byEmail |-> byEmail]
    <2>1. /\ email' = Append(email, "NONE") /\ n \in 1 .. MaxNotifications
          /\ DOMAIN email' = DOMAIN email \union {n} /\ n \notin DOMAIN email
          /\ \A k \in DOMAIN email : email'[k] = email[k]
          /\ next \in Calls /\ next.at = "deliveries" /\ next.notification = n
      BY <1>1, DeliveryBounds DEF IInv, TypeOK, CreateNotification, Calls
    <2>2. /\ creating' \in [Callers -> Calls \union {Idle}]
          /\ creating'[c] = next
          /\ \A d \in Callers : d # c => creating'[d] = creating[d]
          /\ UNCHANGED mail
      BY <1>1, <2>1 DEF IInv, TypeOK, CreateNotification, Goes
    <2> HIDE DEF next, n
    <2>3. TypeOK'
      BY <1>1, <2>1, <2>2 DEF IInv, TypeOK, CreateNotification, n
    <2>4. \A j \in DOMAIN mail : mail[j].notification # n
      <3> TAKE j \in DOMAIN mail
      <3>1. mail[j].notification = 0 \/ mail[j].notification \in DOMAIN email
        BY DEF IInv, MailsInv, MailKnows, RowKnows
      <3> QED
        BY <3>1, <2>1
    <2>5. CallsInv'
      BY <2>1, <2>2, <2>4 DEF IInv, CallsInv
    <2>6. \A j \in DOMAIN mail : MailKnows(mail[j], email')
      BY <2>1 DEF IInv, MailsInv, MailKnows, RowKnows
    <2> QED
      BY <2>2, <2>3, <2>5, <2>6 DEF IInv, MailsDistinct, MailsInv
  <1>2. CASE CreateDeliveries(c) /\ creating[c].byEmail
    <2> DEFINE n == creating[c].notification
               next == [at |-> "queue", notification |-> n, byEmail |-> TRUE]
    <2>1. /\ n \in DOMAIN email /\ creating[c] # Idle
          /\ \A j \in DOMAIN mail : mail[j].notification # n
          /\ \A d \in Callers : d # c /\ creating[d] # Idle => creating[d].notification # n
      BY <1>2, CallKinds DEF CreateDeliveries, IInv, CallsInv
    <2>2. /\ email' = [email EXCEPT ![n] = "PENDING"]
          /\ next \in Calls /\ next.at = "queue" /\ next.notification = n
          /\ Goes(c, next) /\ UNCHANGED <<mail, configured>>
      BY <1>2, <2>1, CallKinds DEF CreateDeliveries, Calls, IInv
    <2> HIDE DEF n, next
    <2>3. /\ email' \in Seq({"NONE", "PENDING", "SENT"})
          /\ Len(email') = Len(email) /\ DOMAIN email' = DOMAIN email
          /\ email'[n] = "PENDING"
          /\ \A k \in DOMAIN email : k # n => email'[k] = email[k]
      BY <2>1, <2>2 DEF IInv, TypeOK
    <2>4. /\ creating' \in [Callers -> Calls \union {Idle}]
          /\ creating'[c] = next
          /\ \A d \in Callers : d # c => creating'[d] = creating[d]
      BY <2>2 DEF IInv, TypeOK, Goes
    <2>5. CallsInv'
      BY <2>1, <2>2, <2>3, <2>4 DEF IInv, CallsInv
    <2>6. \A j \in DOMAIN mail : MailKnows(mail[j], email')
      BY <2>1, <2>3 DEF IInv, MailsInv, MailKnows, RowKnows
    <2> QED
      BY <2>2, <2>3, <2>4, <2>5, <2>6 DEF IInv, TypeOK, MailsDistinct, MailsInv
  <1>3. CASE CreateDeliveries(c) /\ ~creating[c].byEmail
    BY <1>3, IdleCall DEF CreateDeliveries
  <1>4. CASE QueueEmail(c)
    <2>1. creating[c] # Idle /\ creating[c].notification \in 1 .. MaxNotifications
      BY <1>4, CallKinds DEF QueueEmail, IInv
    <2>2. /\ creating' \in [Callers -> Calls \union {Idle}]
          /\ creating'[c] = Idle
          /\ \A d \in Callers : d # c => creating'[d] = creating[d]
      BY <1>4 DEF QueueEmail, Goes, IInv, TypeOK
    <2> QED
      BY <1>4, <2>1, <2>2, MailAdded, DeliveryBounds DEF QueueEmail, IInv, CallsInv
  <1>5. CASE CreateFails(c)
    BY <1>5, IdleCall DEF CreateFails
  <1> QED
    BY <1>1, <1>2, <1>3, <1>4, <1>5 DEF CallStep, CreateDeliveries

LEMMA PlainIInv == IInv /\ QueuePlainEmail => IInv'
  BY MailAdded, DeliveryBounds DEF QueuePlainEmail, IInv, TypeOK

\* EmailProcessor.handleEmail.
LEMMA WorkIInv ==
    ASSUME IInv, NEW j \in DOMAIN mail, Work(j)
    PROVE  IInv'
  <1> DEFINE m == mail[j]
  <1>1. /\ m \in Mails /\ MailKnows(m, email)
        /\ m.notification \in 0 .. MaxNotifications
        /\ m.at \in Underway \union {"waiting", "completed", "failed"}
        /\ m.made \in 0 .. Attempts
        /\ m.stalls \in 0 .. MaxStalls + 1
        /\ m.copies \in Nat
    BY MailTypes DEF IInv, TypeOK, MailsInv
  <1> USE DEF MailKnows, RowKnows, CopiesKnow, LimitsLeft, Underway
  <1>2. CASE Check(j)
    BY <1>1, <1>2, MailStep, MailBuilt DEF Check, MovesTo, RecordedSent
  <1>3. CASE Send(j)
    BY <1>1, <1>3, MailStep, MailBuilt DEF Send, Accepted
  <1>4. CASE SendUnanswered(j)
    BY <1>1, <1>4, MailStep, MailBuilt, JobLimits DEF SendUnanswered, Thrown
  <1>5. CASE Complete(j)
    BY <1>1, <1>5, MailStep, MailBuilt DEF Complete, MovesTo
  <1>6. CASE HandlerThrows(j)
    BY <1>1, <1>6, MailStep, MailBuilt, JobLimits DEF HandlerThrows, Thrown
  <1>7. CASE MarkSent(j)
    <2> DEFINE n == m.notification
               next == Mail(n, "returned", m.made, m.stalls, m.copies)
    <2>1. /\ next \in Mails /\ next.notification = n /\ next.at = "returned"
          /\ next.made = m.made /\ next.stalls = m.stalls /\ next.copies = m.copies
      BY <1>1, MailBuilt
    <2>2. /\ n # 0 => n \in DOMAIN email /\ email[n] = "PENDING"
          /\ m.copies > 0 /\ CopiesKnow(next) /\ LimitsLeft(next)
      BY <1>1, <1>7, <2>1 DEF MarkSent
    <2>3. /\ mail' = [mail EXCEPT ![j] = next]
          /\ email' = IF n # 0 THEN [email EXCEPT ![n] = "SENT"] ELSE email
          /\ UNCHANGED <<creating, configured>>
      BY <1>7, <2>2 DEF MarkSent, MovesTo, Becomes
    <2> HIDE DEF m, n, next
    <2>4. /\ mail' \in Seq(Mails) /\ DOMAIN mail' = DOMAIN mail
          /\ mail'[j] = next /\ \A k \in DOMAIN mail : k # j => mail'[k] = mail[k]
      BY <2>1, <2>3 DEF IInv, TypeOK
    <2>5. /\ email' \in Seq({"NONE", "PENDING", "SENT"})
          /\ Len(email') = Len(email) /\ DOMAIN email' = DOMAIN email
          /\ n # 0 => email'[n] = "SENT"
          /\ \A k \in DOMAIN email : k # n => email'[k] = email[k]
      BY <2>2, <2>3 DEF IInv, TypeOK
    <2>6. \A k \in DOMAIN mail : mail'[k].notification = mail[k].notification
      BY <2>1, <2>4 DEF n, m
    <2>7. TypeOK'
      BY <2>3, <2>4, <2>5 DEF IInv, TypeOK
    <2>8. CallsInv' /\ MailsDistinct'
      <3>1. \A c \in Callers : creating[c] # Idle =>
               creating[c].notification # n /\ creating[c].notification \in DOMAIN email
        BY DEF IInv, CallsInv, m, n
      <3>2. MailsDistinct'
        BY <2>4, <2>6 DEF IInv, MailsDistinct
      <3>3. CallsInv'
        BY <2>3, <2>4, <2>5, <2>6, <3>1 DEF IInv, CallsInv
      <3> QED
        BY <3>2, <3>3
    <2>9. \A k \in DOMAIN mail : MailKnows(mail'[k], email')
      <3> TAKE k \in DOMAIN mail
      <3>1. CASE k = j
        BY <2>1, <2>2, <2>4, <2>5, <3>1
      <3>2. CASE k # j
        <4>1. mail'[k] = mail[k] /\ MailKnows(mail[k], email)
          BY <2>4, <3>2 DEF IInv, MailsInv
        <4>2. mail[k].notification # 0 => mail[k].notification # n
          BY <3>2 DEF IInv, MailsDistinct, m, n
        <4> QED
          BY <2>5, <4>1, <4>2
      <3> QED
        BY <3>1, <3>2
    <2> QED
      BY <2>4, <2>7, <2>8, <2>9 DEF IInv, MailsInv
  <1> QED
    BY <1>2, <1>3, <1>4, <1>5, <1>6, <1>7 DEF Work

LEMMA RestartIInv ==
    ASSUME IInv, NEW key \in BOOLEAN, Restart(key)
    PROVE  IInv'
  <1>1. /\ creating' = [c \in Callers |-> Idle] /\ UNCHANGED email /\ configured' = key
        /\ mail' = [j \in DOMAIN mail |->
                      IF mail[j].at \in Underway THEN Stalled(mail[j]) ELSE mail[j]]
    BY DEF Restart
  <1>2. ASSUME NEW j \in DOMAIN mail
        PROVE  /\ mail'[j] \in Mails
               /\ mail'[j].notification = mail[j].notification
               /\ MailKnows(mail'[j], email)
    <2> DEFINE m == mail[j]
    <2>1. /\ m \in Mails /\ MailKnows(m, email)
          /\ m.notification \in 0 .. MaxNotifications
          /\ m.made \in 0 .. Attempts
          /\ m.stalls \in 0 .. MaxStalls + 1
          /\ m.copies \in Nat
      BY MailTypes DEF IInv, TypeOK, MailsInv
    <2>2. CASE m.at \in Underway
      <3>1. mail'[j] = Stalled(m)
        BY <1>1, <2>2
      <3> QED
        BY <2>1, <2>2, <3>1, MailBuilt, JobLimits
        DEF Stalled, MailKnows, RowKnows, CopiesKnow, LimitsLeft, Underway
    <2>3. CASE m.at \notin Underway
      BY <1>1, <2>1, <2>3
    <2> QED
      BY <2>2, <2>3
  <1>3. mail' \in Seq(Mails) /\ DOMAIN mail' = DOMAIN mail
    <2>1. mail \in Seq(Mails) /\ DOMAIN mail' = 1 .. Len(mail) /\ Len(mail) \in Nat
      BY <1>1 DEF IInv, TypeOK
    <2> QED
      BY <1>2, <2>1, <1>1
  <1>4. TypeOK'
    BY <1>1, <1>3 DEF IInv, TypeOK
  <1>5. CallsInv' /\ MailsDistinct' /\ MailsInv'
    BY <1>1, <1>2, <1>3 DEF IInv, CallsInv, MailsDistinct, MailsInv
  <1> QED
    BY <1>4, <1>5 DEF IInv

LEMMA NextIInv == IInv /\ [Next]_vars => IInv'
  <1> SUFFICES ASSUME IInv, [Next]_vars PROVE IInv'
    OBVIOUS
  <1>1. CASE UNCHANGED vars
    BY <1>1 DEF vars, IInv, TypeOK, CallsInv, MailsDistinct, MailsInv, MailKnows,
                RowKnows, CopiesKnow, LimitsLeft
  <1> QED
    BY <1>1, CreateIInv, PlainIInv, WorkIInv, RestartIInv DEF Next

-----------------------------------------------------------------------------
(* The theorems.                                                           *)

\* Every state of every behaviour satisfies the inductive invariant (all the
\* steps of create and handleEmail, and restarts).
THEOREM Invariance == Spec => []IInv
  BY InitIInv, NextIInv, PTL DEF Spec

\* The state keeps its types: a job never makes more than its attempts.
THEOREM TypeCorrect == Spec => []TypeOK
  <1>1. IInv => TypeOK
    BY DEF IInv
  <1> QED
    BY <1>1, Invariance, PTL

\* A job that is complete has had its mail accepted by the provider (handleEmail).
THEOREM CompletionIsHonest == Spec => []CompletedWasSent
  <1>1. IInv => CompletedWasSent
    BY DEF IInv, MailsInv, MailKnows, CopiesKnow, CompletedWasSent
  <1> QED
    BY <1>1, Invariance, PTL

\* The delivery row and the job agree (create, handleEmail).
THEOREM RowsAreHonest == Spec => []RecordMatchesMail
  <1>1. IInv => RecordMatchesMail
    BY DEF IInv, MailsInv, MailKnows, RowKnows, RecordMatchesMail, RecordedSent
  <1> QED
    BY <1>1, Invariance, PTL

\* The recipient gets at most one copy more than there were faults (handleEmail,
\* attempts, maxStalledCount).
THEOREM CopiesAreBounded == Spec => []CopiesNeedFaults
  <1>1. ASSUME IInv PROVE CopiesNeedFaults
    <2> SUFFICES ASSUME NEW j \in DOMAIN mail
                 PROVE  mail[j].copies <= 1 + mail[j].made + mail[j].stalls
      BY DEF CopiesNeedFaults
    <2>1. CopiesKnow(mail[j]) /\ mail[j] \in Mails
      BY <1>1 DEF IInv, TypeOK, MailsInv, MailKnows
    <2> QED
      BY <2>1, MailTypes DEF CopiesKnow
  <1> QED
    BY <1>1, Invariance, PTL

\* A recorded mail makes no further copy (handleEmail, the check of the row).
THEOREM RecordedIsFinal == Spec => NoCopyOnceRecorded
  <1> DEFINE NoCopy == \A j \in DOMAIN mail :
                          RecordedSent(j) => mail'[j].copies = mail[j].copies
  <1>1. ASSUME IInv, [Next]_vars PROVE NoCopy \/ UNCHANGED vars
    <2> SUFFICES ASSUME NEW j \in DOMAIN mail, RecordedSent(j)
                 PROVE  mail'[j].copies = mail[j].copies
      OBVIOUS
    <2>1. /\ mail[j].at \notin {"checked", "accepted"}
          /\ mail \in Seq(Mails) /\ Len(mail) \in Nat
      BY <1>1 DEF IInv, TypeOK, MailsInv, MailKnows, RowKnows, RecordedSent
    <2>2. CASE UNCHANGED mail
      BY <2>2
    <2>3. ASSUME NEW n, mail' = Append(mail, NewMail(n))
          PROVE  mail'[j] = mail[j]
      <3>1. PICK new : new = NewMail(n)
        OBVIOUS
      <3> QED
        BY <2>1, <2>3, <3>1
    <2>4. ASSUME NEW k \in DOMAIN mail, Work(k)
          PROVE  mail'[j].copies = mail[j].copies
      <3>1. CASE k # j
        BY <2>4, <3>1 DEF Work, Check, Send, SendUnanswered, MarkSent, Complete,
                          HandlerThrows, MovesTo, Becomes
      <3>2. CASE k = j
        BY <2>1, <2>4, <3>2, MailBuilt
        DEF Work, Check, Send, SendUnanswered, MarkSent, Complete, HandlerThrows,
            MovesTo, Becomes, Thrown
      <3> QED
        BY <3>1, <3>2
    <2>5. ASSUME NEW key \in BOOLEAN, Restart(key)
          PROVE  mail'[j].copies = mail[j].copies
      BY <2>1, <2>5, MailBuilt DEF Restart, Stalled
    <2> QED
      BY <1>1, <2>2, <2>3, <2>4, <2>5
      DEF Next, CallStep, CreateNotification, CreateDeliveries, QueueEmail, CreateFails,
          QueuePlainEmail, vars
  <1> QED
    BY <1>1, Invariance, PTL DEF Spec, NoCopyOnceRecorded
=============================================================================
