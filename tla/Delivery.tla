------------------------------- MODULE Delivery -------------------------------
(***************************************************************************)
(* How a notification becomes an email: NotificationsService.create, which *)
(* the services and the processors call, and EmailProcessor.handleEmail,   *)
(* the worker of the email queue.                                          *)
(*                                                                         *)
(* A mail is a job of the queue.  One that create queued knows its         *)
(* notification, whose EMAIL delivery row records what became of it; the   *)
(* other services queue plain mails, which know none.  Bull runs a job     *)
(* until its handler returns, at most Attempts times when the handler      *)
(* throws, and MaxStalls times more when the process dies under it.        *)
(* The provider (Resend) may accept a mail whose answer never arrives.     *)
(***************************************************************************)
EXTENDS Integers, Sequences

CONSTANTS
    Callers,           \* how many calls of create may be in flight at once
    Attempts,          \* attempts of a job
    MaxStalls,         \* Bull's maxStalledCount
    MaxNotifications,  \* bound on the notifications
    MaxMails           \* bound on the jobs

ASSUME JobLimits == Attempts \in Nat \ {0} /\ MaxStalls \in Nat
ASSUME DeliveryBounds == MaxNotifications \in Nat /\ MaxMails \in Nat

VARIABLES
    email,       \* per notification, the status of its EMAIL delivery row
    creating,    \* the calls of create in flight
    mail,        \* the jobs of the email queue, in the order they were added
    configured   \* whether this process booted with RESEND_API_KEY

vars == <<email, creating, mail, configured>>

\* A mail's next step.  "returned" is a handler whose job Bull has yet to
\* complete; "completed" and "failed" are final.
Underway == {"checked", "accepted", "returned"}
Mail(n, at, made, stalls, copies) ==
    [notification |-> n, at |-> at, made |-> made, stalls |-> stalls, copies |-> copies]
Mails ==
    [notification : 0 .. MaxNotifications,   \* 0 for a plain mail
     at : Underway \union {"waiting", "completed", "failed"},
     made : 0 .. Attempts,                   \* attempts that threw
     stalls : 0 .. MaxStalls + 1,
     copies : Nat]                           \* history: accepted by the provider
NewMail(n) == Mail(n, "waiting", 0, 0, 0)

Idle == [at |-> "idle"]
Calls == [at : {"deliveries", "queue"}, notification : 1 .. MaxNotifications,
          byEmail : BOOLEAN]

Becomes(j, m) == mail' = [mail EXCEPT ![j] = m]
MovesTo(j, at) ==
    Becomes(j, Mail(mail[j].notification, at, mail[j].made, mail[j].stalls, mail[j].copies))
Goes(c, next) == creating' = [creating EXCEPT ![c] = next]

\* The attempt threw: once more, unless it was the last one.
Thrown(m, copies) ==
    Mail(m.notification, IF m.made + 1 < Attempts THEN "waiting" ELSE "failed",
         m.made + 1, m.stalls, copies)

\* The process died under the job.
Stalled(m) ==
    Mail(m.notification, IF m.stalls < MaxStalls THEN "waiting" ELSE "failed",
         m.made, m.stalls + 1, m.copies)

TypeOK ==
    /\ email \in Seq({"NONE", "PENDING", "SENT"})
    /\ Len(email) <= MaxNotifications
    /\ creating \in [Callers -> Calls \union {Idle}]
    /\ mail \in Seq(Mails)
    /\ configured \in BOOLEAN

Init ==
    /\ email = <<>>
    /\ creating = [c \in Callers |-> Idle]
    /\ mail = <<>>
    /\ configured \in BOOLEAN

-----------------------------------------------------------------------------
(* NotificationsService.create.                                            *)

CreateNotification(c, byEmail) ==
    /\ creating[c] = Idle
    /\ Len(email) < MaxNotifications
    /\ email' = Append(email, "NONE")
    /\ Goes(c, [at |-> "deliveries", notification |-> Len(email) + 1, byEmail |-> byEmail])
    /\ UNCHANGED <<mail, configured>>

\* The delivery rows; then the push to the user's sockets, and the queue if the
\* EMAIL channel is asked for.
CreateDeliveries(c) ==
    /\ creating[c].at = "deliveries"
    /\ LET n == creating[c].notification
       IN  IF creating[c].byEmail
           THEN /\ email' = [email EXCEPT ![n] = "PENDING"]
                /\ Goes(c, [at |-> "queue", notification |-> n, byEmail |-> TRUE])
           ELSE Goes(c, Idle) /\ UNCHANGED email
    /\ UNCHANGED <<mail, configured>>

\* Mutant of QueueEmail: queued ahead of the delivery rows.
QueueEmailFirst(c) ==
    /\ creating[c].at = "deliveries"
    /\ creating[c].byEmail
    /\ Len(mail) < MaxMails
    /\ mail' = Append(mail, NewMail(creating[c].notification))
    /\ UNCHANGED <<email, creating, configured>>

QueueEmail(c) ==
    /\ creating[c].at = "queue"
    /\ Len(mail) < MaxMails
    /\ mail' = Append(mail, NewMail(creating[c].notification))
    /\ Goes(c, Idle)
    /\ UNCHANGED <<email, configured>>

\* Any await may reject.  What is written stays; a caller that retries starts
\* with a new notification.
CreateFails(c) ==
    /\ creating[c] # Idle
    /\ Goes(c, Idle)
    /\ UNCHANGED <<email, mail, configured>>

\* A service queues a plain mail.
QueuePlainEmail ==
    /\ Len(mail) < MaxMails
    /\ mail' = Append(mail, NewMail(0))
    /\ UNCHANGED <<email, creating, configured>>

-----------------------------------------------------------------------------
(* EmailProcessor.handleEmail.                                             *)

\* Whether the delivery row says that mail j has been sent; a plain mail has none.
RecordedSent(j) == mail[j].notification # 0 /\ email[mail[j].notification] = "SENT"

\* Mutant of Check: the delivery row is not looked at.
CheckNothing(j) ==
    /\ mail[j].at = "waiting"
    /\ MovesTo(j, "checked")
    /\ UNCHANGED <<email, creating, configured>>

\* A mail that was sent already is skipped.
Check(j) ==
    /\ mail[j].at = "waiting"
    /\ MovesTo(j, IF RecordedSent(j) THEN "returned" ELSE "checked")
    /\ UNCHANGED <<email, creating, configured>>

\* The mail with one more copy at the provider.
Accepted(m, at) == Mail(m.notification, at, m.made, m.stalls, m.copies + 1)

\* Mutant of Send: a client that tries again by itself.
SendAgain(j) ==
    /\ mail[j].at = "checked"
    /\ configured
    /\ \/ Becomes(j, Accepted(mail[j], "accepted"))
       \/ Becomes(j, Accepted(mail[j], "checked"))
    /\ UNCHANGED <<email, creating, configured>>

\* Mutant of Send: without a key the job is skipped.
SendOrSkip(j) ==
    /\ mail[j].at = "checked"
    /\ IF configured
       THEN Becomes(j, Accepted(mail[j], "accepted"))
       ELSE MovesTo(j, "returned")
    /\ UNCHANGED <<email, creating, configured>>

\* The provider accepts the mail and says so.
Send(j) ==
    /\ mail[j].at = "checked"
    /\ configured
    /\ Becomes(j, Accepted(mail[j], "accepted"))
    /\ UNCHANGED <<email, creating, configured>>

\* The provider accepts the mail, but the answer is an error or none.
SendUnanswered(j) ==
    /\ mail[j].at = "checked"
    /\ configured
    /\ Becomes(j, Thrown(mail[j], mail[j].copies + 1))
    /\ UNCHANGED <<email, creating, configured>>

\* A plain mail is recorded nowhere.
MarkSent(j) ==
    /\ mail[j].at = "accepted"
    /\ LET n == mail[j].notification
       IN  email' = IF n # 0 /\ email[n] = "PENDING"
                    THEN [email EXCEPT ![n] = "SENT"]
                    ELSE email
    /\ MovesTo(j, "returned")
    /\ UNCHANGED <<creating, configured>>

Complete(j) ==
    /\ mail[j].at = "returned"
    /\ MovesTo(j, "completed")
    /\ UNCHANGED <<email, creating, configured>>

\* Mutant of HandlerThrows: the limit of the attempts is passed.
HandlerThrowsOnceMore(j) ==
    /\ mail[j].at \in {"waiting", "checked", "accepted"}
    /\ Becomes(j, Mail(mail[j].notification,
                       IF mail[j].made <= Attempts THEN "waiting" ELSE "failed",
                       mail[j].made + 1, mail[j].stalls, mail[j].copies))
    /\ UNCHANGED <<email, creating, configured>>

\* Mutant of HandlerThrows: the handler puts the job back by itself.
HandlerPutsBack(j) ==
    /\ mail[j].at \in {"waiting", "checked", "accepted"}
    /\ MovesTo(j, "waiting")
    /\ UNCHANGED <<email, creating, configured>>

\* The query for the row fails, there is no key or no html, the provider refuses,
\* or the update of the row fails.
HandlerThrows(j) ==
    /\ mail[j].at \in {"waiting", "checked", "accepted"}
    /\ Becomes(j, Thrown(mail[j], mail[j].copies))
    /\ UNCHANGED <<email, creating, configured>>

\* The process dies and comes up again, perhaps with another environment.
Restart(key) ==
    /\ creating' = [c \in Callers |-> Idle]
    /\ mail' = [j \in DOMAIN mail |->
                  IF mail[j].at \in Underway THEN Stalled(mail[j]) ELSE mail[j]]
    /\ configured' = key
    /\ UNCHANGED email

-----------------------------------------------------------------------------
CallStep(c) ==
    \/ \E byEmail \in BOOLEAN : CreateNotification(c, byEmail)
    \/ CreateDeliveries(c) \/ QueueEmail(c) \/ CreateFails(c)

Work(j) ==
    \/ Check(j) \/ Send(j) \/ SendUnanswered(j) \/ MarkSent(j) \/ Complete(j)
    \/ HandlerThrows(j)

Next ==
    \/ \E c \in Callers : CallStep(c)
    \/ QueuePlainEmail
    \/ \E j \in DOMAIN mail : Work(j)
    \/ \E key \in BOOLEAN : Restart(key)

Spec == Init /\ [][Next]_vars

\* The workers go on: every request of a handler ends, with an answer or an error.
\* Which one is up to the provider and the database, and the process may die.
Fairness == \A j \in 1 .. MaxMails : WF_vars(j \in DOMAIN mail /\ Work(j))
FairSpec == Spec /\ Fairness

-----------------------------------------------------------------------------
(* Properties.                                                             *)

\* "A job is only marked complete when the email is actually sent": whatever
\* failed, was retried or died before, the provider has a copy (handleEmail).
CompletedWasSent ==
    \A j \in DOMAIN mail : mail[j].at = "completed" => mail[j].copies > 0

\* The row agrees with the job: it says SENT only of a mail that the provider
\* has, and says so of every mail whose job completed (create, handleEmail).
RecordMatchesMail ==
    \A j \in DOMAIN mail : mail[j].notification # 0 =>
        /\ RecordedSent(j) => mail[j].copies > 0
        /\ mail[j].at = "completed" => RecordedSent(j)

\* "Check delivery status before resending": once the row says SENT, the
\* provider gets no further copy of the mail, however its job is retried.
NoCopyOnceRecorded ==
    [][\A j \in DOMAIN mail :
          RecordedSent(j) => mail'[j].copies = mail[j].copies]_vars

\* A further copy takes a failure: a mail, plain or not, reaches the recipient
\* at most once more than its handler threw or its process died.
CopiesNeedFaults ==
    \A j \in DOMAIN mail : mail[j].copies <= 1 + mail[j].made + mail[j].stalls

\* No mail stays in the queue: it is completed or given up, even if every answer
\* is lost and every process dies (attempts, maxStalledCount).
EmailSettles ==
    \A j \in 1 .. MaxMails :
        j \in DOMAIN mail ~> j \in DOMAIN mail /\ mail[j].at \in {"completed", "failed"}
=============================================================================
