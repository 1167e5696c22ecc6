------------------------------ MODULE Onboarding ------------------------------
(***************************************************************************)
(* How people come into one organisation: the invitations (table           *)
(* invitations), the handlers that make them (AuthService.createInvitation,*)
(* UsersService.inviteUser and bulkImport with its queue), resend and      *)
(* revoke of InvitationsService, and registerFromInvitation.               *)
(*                                                                         *)
(* Making an invitation is one call: checks, the row, the mail with the    *)
(* link, two reminder jobs.  Nothing ties these steps together, and the    *)
(* other calls write the row by id.  The row of a link is found by the     *)
(* token in it (its hash, in the code).  A job of the import queue starts  *)
(* over when it fails; it is modelled for one row of the file.             *)
(***************************************************************************)
EXTENDS Integers, Sequences

CONSTANTS
    Emails,          \* the addresses
    Roles,           \* the roles somebody may be invited for
    Scholar, Mentor, \* the two of them that exclude each other
    Calls,           \* how many requests and jobs may be in flight at once
    InvitationLife,  \* how long a new invitation lasts
    ResentLives,     \* how long a resent one may last (the settings)
    Attempts,        \* attempts of an import job
    Reminders,       \* how many reminder jobs an invitation gets (two)
    MaxTime,         \* bound on the clock
    MaxInvitations,  \* bound on the rows
    MaxTokens        \* bound on the tokens

ASSUME LivesAssumption ==
    /\ InvitationLife \in Nat \ {0}
    /\ ResentLives \subseteq Nat \ {0}
ASSUME ExclusiveRoles == {Scholar, Mentor} \subseteq Roles
ASSUME JobNumbers == Attempts \in Nat \ {0} /\ Reminders \in Nat \ {0}
ASSUME OnboardingBounds ==
    MaxTime \in Nat /\ MaxInvitations \in Nat /\ MaxTokens \in Nat

VARIABLES
    now,          \* the clock
    invitation,   \* the rows, in the order in which they were created
    issued,       \* how many tokens were made; the last one is token number issued
    mailed,       \* pairs of an invitation and the token of a link mailed for it
    reminders,    \* pairs of an invitation and the number of a reminder job it has
    accounts,     \* the users of this organisation with their roles
    elsewhere,    \* addresses with an account in another organisation only
    neglected,    \* history: invitations of which a call failed after its write
    call          \* the requests and jobs in flight

vars == <<now, invitation, issued, mailed, reminders, accounts, elsewhere,
          neglected, call>>
rows == <<invitation, issued>>
people == <<accounts, elsewhere>>
followUps == <<mailed, reminders, neglected>>

Times == 0 .. MaxTime

\* A row: to whom, as what, the token, expires_at, and whether used_at is set.
Invitation(e, r, token, expires, used) ==
    [email |-> e, role |-> r, token |-> token, expires |-> expires, used |-> used]
Invitations ==
    [email : Emails, role : Roles, token : Nat \ {0}, expires : Nat, used : BOOLEAN]

\* A user and the one role row.  from and admitted are history: the invitation,
\* and when its row was read.
Account(e, r, i, t) == [email |-> e, role |-> r, from |-> i, admitted |-> t]
Accounts == [email : Emails, role : Roles, from : Nat \ {0}, admitted : Nat]

\* The ways to make an invitation.
Ways == {"create", "invite", "import", "batch"}

\* A call that is to make an invitation.  tries counts the attempts of an import
\* job that failed; one that starts over keeps, as history, the invitation it made
\* and its token.
Making(at, via, e, r, tries, i, token) ==
    [at |-> at, via |-> via, email |-> e, role |-> r, tries |-> tries,
     invitation |-> i, token |-> token]
Makings ==
    [at : {"checkMember", "checkPending", "checkConflict", "insert"}, via : Ways,
     email : Emails, role : Roles, tries : 0 .. Attempts - 1,
     invitation : Nat, token : Nat]
Idle == [at |-> "idle"]

\* A call that follows an invitation up: the mail, then reminder number nth.
\* again is what becomes of it if it fails.
Following(at, i, token, nth, again) ==
    [at |-> at, invitation |-> i, token |-> token, nth |-> nth, again |-> again]
FollowUp == {"mail", "remove", "add"}
Followings ==
    [at : FollowUp, invitation : Nat \ {0}, token : Nat \ {0}, nth : 1 .. Reminders,
     again : Makings \union {Idle}]

Others ==
    [at : {"resend", "revoke"}, invitation : Nat \ {0}]
      \union [at : {"register"}, invitation : Nat \ {0}, since : Nat]

Goes(c, next) == call' = [call EXCEPT ![c] = next]
Passes(c, at) ==
    Goes(c, Making(at, call[c].via, call[c].email, call[c].role, call[c].tries,
                   call[c].invitation, call[c].token))

\* What becomes of a call that fails after it has made invitation i, or none yet
\* (i = 0): an import job starts over, if it may.
Again(m, i, token) ==
    IF m.via = "import" /\ m.tries + 1 < Attempts
    THEN Making("checkMember", "import", m.email, m.role, m.tries + 1, i, token)
    ELSE Idle

\* Not used and not expired: what the checks call pending.
Active(i) == ~invitation[i].used /\ invitation[i].expires > now

\* What validateInvitation and registerFromInvitation accept; in the very instant
\* of its expiry an invitation is not pending, but it admits.
Admits(i) == ~invitation[i].used /\ invitation[i].expires >= now

\* isRoleConflict.
Conflict(r, s) == {r, s} = {Scholar, Mentor}

\* Invitation i with another token and expiry.
Renewed(i, token, expires) ==
    [invitation EXCEPT ![i] =
        Invitation(invitation[i].email, invitation[i].role, token, expires,
                   invitation[i].used)]

TypeOK ==
    /\ now \in Times
    /\ invitation \in Seq(Invitations)
    /\ issued \in 0 .. MaxTokens
    /\ mailed \subseteq (DOMAIN invitation) \X (1 .. issued)
    /\ reminders \subseteq (DOMAIN invitation) \X (1 .. Reminders)
    /\ accounts \subseteq Accounts
    /\ elsewhere \subseteq Emails
    /\ neglected \subseteq DOMAIN invitation
    /\ call \in [Calls -> Makings \union Followings \union Others \union {Idle}]

Init ==
    /\ now = 0
    /\ invitation = <<>>
    /\ issued = 0
    /\ mailed = {}
    /\ reminders = {}
    /\ accounts = {}
    /\ elsewhere \in SUBSET Emails
    /\ neglected = {}
    /\ call = [c \in Calls |-> Idle]

-----------------------------------------------------------------------------
(* Making an invitation.                                                   *)

\* createInvitation looks for pending invitations only; the others look for a
\* member first.
Ask(c, via, e, r) ==
    /\ call[c] = Idle
    /\ Goes(c, Making(IF via = "create" THEN "checkPending" ELSE "checkMember",
                      via, e, r, 0, 0, 0))
    /\ UNCHANGED <<now, rows, followUps, people>>

\* An address that has a role here is refused (skipped, in an import).
CheckMember(c) ==
    /\ call[c].at = "checkMember"
    /\ IF \E a \in accounts : a.email = call[c].email
       THEN Goes(c, Idle)
       ELSE Passes(c, CASE call[c].via = "invite" -> "checkConflict"
                        [] call[c].via = "import" -> "checkPending"
                        [] OTHER -> "insert")
    /\ UNCHANGED <<now, rows, followUps, people>>

\* Mutant of CheckPending: a job does not look whether it has been here before.
CheckPendingRequests(c) ==
    /\ call[c].at = "checkPending"
    /\ IF \E i \in DOMAIN invitation :
             invitation[i].email = call[c].email /\ Active(i) /\ call[c].via = "create"
       THEN Goes(c, Idle)
       ELSE Passes(c, "insert")
    /\ UNCHANGED <<now, rows, followUps, people>>

\* createInvitation and the import job: one pending invitation is enough.
CheckPending(c) ==
    /\ call[c].at = "checkPending"
    /\ IF \E i \in DOMAIN invitation : invitation[i].email = call[c].email /\ Active(i)
       THEN Goes(c, Idle)
       ELSE Passes(c, "insert")
    /\ UNCHANGED <<now, rows, followUps, people>>

\* inviteUser: nobody is invited as scholar and as mentor.
CheckConflict(c) ==
    /\ call[c].at = "checkConflict"
    /\ IF \E i \in DOMAIN invitation :
             /\ invitation[i].email = call[c].email
             /\ Active(i)
             /\ Conflict(invitation[i].role, call[c].role)
       THEN Goes(c, Idle)
       ELSE Passes(c, "insert")
    /\ UNCHANGED <<now, rows, followUps, people>>

Insert(c) ==
    /\ call[c].at = "insert"
    /\ Len(invitation) < MaxInvitations
    /\ issued < MaxTokens
    /\ issued' = issued + 1
    /\ invitation' = Append(invitation,
           Invitation(call[c].email, call[c].role, issued + 1, now + InvitationLife, FALSE))
    /\ LET i == Len(invitation) + 1
       IN  Goes(c, Following("mail", i, issued + 1, 1, Again(call[c], i, issued + 1)))
    /\ UNCHANGED <<now, followUps, people>>

-----------------------------------------------------------------------------
(* Following an invitation up: the mail, then scheduleReminders.           *)

QueueMail(c) ==
    /\ call[c].at = "mail"
    /\ mailed' = mailed \union {<<call[c].invitation, call[c].token>>}
    /\ Goes(c, Following("remove", call[c].invitation, call[c].token, 1, call[c].again))
    /\ UNCHANGED <<now, rows, reminders, neglected, people>>

\* The job of an earlier round is removed; if that fails it stays.
RemoveReminder(c) ==
    /\ call[c].at = "remove"
    /\ reminders' \in {reminders, reminders \ {<<call[c].invitation, call[c].nth>>}}
    /\ Goes(c, Following("add", call[c].invitation, call[c].token, call[c].nth,
                         call[c].again))
    /\ UNCHANGED <<now, rows, mailed, neglected, people>>

AddReminder(c) ==
    /\ call[c].at = "add"
    /\ reminders' = reminders \union {<<call[c].invitation, call[c].nth>>}
    /\ Goes(c, IF call[c].nth < Reminders
               THEN Following("remove", call[c].invitation, call[c].token,
                              call[c].nth + 1, call[c].again)
               ELSE Idle)
    /\ UNCHANGED <<now, rows, mailed, neglected, people>>

-----------------------------------------------------------------------------
(* InvitationsService.resend and revoke.                                   *)

\* Either finds the row and refuses one that has been used.
ResendRead(c, i) ==
    /\ call[c] = Idle
    /\ ~invitation[i].used
    /\ Goes(c, [at |-> "resend", invitation |-> i])
    /\ UNCHANGED <<now, rows, followUps, people>>

\* Mutant of ResendWrite: the mail carries the token that was read.
ResendWriteOldLink(c) ==
    /\ call[c].at = "resend"
    /\ issued < MaxTokens
    /\ issued' = issued + 1
    /\ LET i == call[c].invitation
       IN  /\ \E life \in ResentLives : invitation' = Renewed(i, issued + 1, now + life)
           /\ Goes(c, Following("mail", i, invitation[i].token, 1, Idle))
    /\ UNCHANGED <<now, followUps, people>>

\* The settings have been read; token and expiry of the row are replaced by id.
ResendWrite(c) ==
    /\ call[c].at = "resend"
    /\ issued < MaxTokens
    /\ issued' = issued + 1
    /\ LET i == call[c].invitation
       IN  /\ \E life \in ResentLives : invitation' = Renewed(i, issued + 1, now + life)
           /\ Goes(c, Following("mail", i, issued + 1, 1, Idle))
    /\ UNCHANGED <<now, followUps, people>>

RevokeRead(c, i) ==
    /\ call[c] = Idle
    /\ ~invitation[i].used
    /\ Goes(c, [at |-> "revoke", invitation |-> i])
    /\ UNCHANGED <<now, rows, followUps, people>>

RevokeWrite(c) ==
    /\ call[c].at = "revoke"
    /\ LET i == call[c].invitation IN invitation' = Renewed(i, invitation[i].token, now)
    /\ Goes(c, Idle)
    /\ UNCHANGED <<now, issued, followUps, people>>

-----------------------------------------------------------------------------
(* AuthService.registerFromInvitation.                                     *)

\* Mutant of RegisterRead: expires_at is not looked at.
RegisterReadAny(c, link) ==
    /\ call[c] = Idle
    /\ \E i \in DOMAIN invitation :
          /\ invitation[i].token = link[2]
          /\ ~invitation[i].used
          /\ Goes(c, [at |-> "register", invitation |-> i, since |-> now])
    /\ UNCHANGED <<now, rows, followUps, people>>

\* Somebody opens a link: the row with its token is found, unless it has been
\* replaced, and must admit.
RegisterRead(c, link) ==
    /\ call[c] = Idle
    /\ \E i \in DOMAIN invitation :
          /\ invitation[i].token = link[2]
          /\ Admits(i)
          /\ Goes(c, [at |-> "register", invitation |-> i, since |-> now])
    /\ UNCHANGED <<now, rows, followUps, people>>

\* The user and the role that a registration creates, and the row marked as used.
NewAccount(c) ==
    LET i == call[c].invitation
    IN  Account(invitation[i].email, invitation[i].role, i, call[c].since)
Used(i) ==
    [invitation EXCEPT ![i] =
        Invitation(invitation[i].email, invitation[i].role, invitation[i].token,
                   invitation[i].expires, TRUE)]

\* Whether user.create keeps the constraint that emails are unique.
NewEmail(e) == e \notin elsewhere /\ \A a \in accounts : a.email # e

\* Mutant of RegisterWrite: emails need not be unique.
RegisterWriteTwin(c) ==
    /\ call[c].at = "register"
    /\ accounts' = accounts \union {NewAccount(c)}
    /\ invitation' = Used(call[c].invitation)
    /\ Goes(c, Idle)
    /\ UNCHANGED <<now, issued, followUps, elsewhere>>

\* Mutant of RegisterWrite: no transaction, and the last write fails.
RegisterWriteHalf(c) ==
    /\ call[c].at = "register"
    /\ NewEmail(invitation[call[c].invitation].email)
    /\ accounts' = accounts \union {NewAccount(c)}
    /\ Goes(c, Idle)
    /\ UNCHANGED <<now, rows, followUps, elsewhere>>

\* The password has been hashed; the transaction creates the user and the role and
\* marks the invitation by id, or it fails as a whole.
RegisterWrite(c) ==
    /\ call[c].at = "register"
    /\ IF NewEmail(invitation[call[c].invitation].email)
       THEN /\ accounts' = accounts \union {NewAccount(c)}
            /\ invitation' = Used(call[c].invitation)
       ELSE UNCHANGED <<accounts, invitation>>
    /\ Goes(c, Idle)
    /\ UNCHANGED <<now, issued, followUps, elsewhere>>

-----------------------------------------------------------------------------
\* Where a failed call goes on, and whose follow-up is left undone.
AfterFailure(m) ==
    CASE m.at \in FollowUp -> m.again
      [] m.at \in {"resend", "revoke", "register"} -> Idle
      [] OTHER -> Again(m, m.invitation, m.token)
Undone(m) == IF m.at \in FollowUp THEN {m.invitation} ELSE {}

\* Mutant of CallFails: one attempt too many.
CallFailsOnceMore(c) ==
    /\ call[c].at = "checkMember"
    /\ Goes(c, Making("checkMember", "import", call[c].email, call[c].role,
                      call[c].tries + 1, call[c].invitation, call[c].token))
    /\ UNCHANGED <<now, rows, followUps, people>>

\* Any await may reject, and the process may die; what is written stays.
CallFails(c) ==
    /\ call[c] # Idle
    /\ neglected' = neglected \union Undone(call[c])
    /\ Goes(c, AfterFailure(call[c]))
    /\ UNCHANGED <<now, rows, mailed, reminders, people>>

\* Another organisation registers somebody: users are shared.
JoinElsewhere(e) ==
    /\ NewEmail(e)
    /\ elsewhere' = elsewhere \union {e}
    /\ UNCHANGED <<now, rows, followUps, accounts, call>>

Tick ==
    /\ now < MaxTime
    /\ now' = now + 1
    /\ UNCHANGED <<rows, followUps, people, call>>

MakingStep(c) ==
    \/ \E via \in Ways, e \in Emails, r \in Roles : Ask(c, via, e, r)
    \/ CheckMember(c) \/ CheckPending(c) \/ CheckConflict(c) \/ Insert(c)
    \/ QueueMail(c) \/ RemoveReminder(c) \/ AddReminder(c)

CallStep(c) ==
    \/ MakingStep(c)
    \/ \E i \in DOMAIN invitation : ResendRead(c, i) \/ RevokeRead(c, i)
    \/ ResendWrite(c) \/ RevokeWrite(c)
    \/ \E link \in mailed : RegisterRead(c, link)
    \/ RegisterWrite(c)
    \/ CallFails(c)

Next ==
    \/ \E c \in Calls : CallStep(c)
    \/ \E e \in Emails : JoinElsewhere(e)
    \/ Tick

Spec == Init /\ [][Next]_vars

-----------------------------------------------------------------------------
(* Properties.                                                             *)

\* "Mark invitation as used": an invitation is used exactly when it has made an
\* account, for its address and in its role, and no address has two; however many
\* registrations, resends and revocations cross (registerFromInvitation).
UsedOnce ==
    /\ \A a \in accounts :
          /\ a.from \in DOMAIN invitation
          /\ invitation[a.from].used
          /\ a.email = invitation[a.from].email
          /\ a.role = invitation[a.from].role
          /\ \A b \in accounts : a.email = b.email => a = b
    /\ \A i \in DOMAIN invitation :
          invitation[i].used => \E a \in accounts : a.from = i

\* Whoever has an account opened the link no later than the row's expiry, as the
\* row says now: a revocation or resend that overtakes a registration never makes
\* it look admitted after the end (registerFromInvitation, resend, revoke).
EnteredInTime ==
    \A a \in accounts : a.admitted <= invitation[a.from].expires

\* Call c still has to mail this token, or to set this reminder.
WillMail(c, i, token) ==
    call[c].at = "mail" /\ call[c].invitation = i /\ call[c].token = token
WillRemind(c, i, nth) ==
    call[c].at \in FollowUp /\ call[c].invitation = i /\ call[c].nth <= nth

\* No invitation is left alone: the link that works has been mailed and both
\* reminders are set, or a call is about to do so, or a call on the invitation has
\* failed.  Resends that cross do not lose a link or a reminder to each other.
FollowedUp ==
    \A i \in DOMAIN invitation \ neglected :
        /\ \/ <<i, invitation[i].token>> \in mailed
           \/ \E c \in Calls : WillMail(c, i, invitation[i].token)
        /\ \A nth \in 1 .. Reminders :
              <<i, nth>> \in reminders \/ \E c \in Calls : WillRemind(c, i, nth)

\* A job that starts over does not invite again as long as its first invitation is
\* pending, unless somebody has renewed that one in between (handleBulkImport).
RetryInvitesOnce ==
    [][\A c \in Calls :
          call[c].at = "insert" /\ call[c].invitation # 0 /\ call'[c].at = "mail"
              => LET i == call[c].invitation
                 IN  ~(Active(i) /\ invitation[i].token = call[c].token)]_vars

\* Admission, with an invitation as an offer and a mailed token as a link.
Admitted == INSTANCE Admission WITH
    offers <- [i \in DOMAIN invitation |->
                  [email |-> invitation[i].email, role |-> invitation[i].role]],
    Links <- 1 .. MaxTokens,
    links <- mailed,
    members <- {[email |-> a.email, role |-> a.role, offer |-> a.from] : a \in accounts}

\* Every step is one that Admission allows: nobody joins but through a link of an
\* invitation to the own address, in its role, and once.
ImplementsAdmission == Admitted!Spec
=============================================================================
