--------------------------- MODULE OnboardingProofs ---------------------------
(***************************************************************************)
(* Proofs about Onboarding, for any addresses, roles, lives of an          *)
(* invitation, attempts, reminders and calls in flight.                    *)
(***************************************************************************)
EXTENDS Onboarding, TLAPS

Checking == {"checkMember", "checkPending", "checkConflict", "insert"}
Writing == {"resend", "revoke", "register"}

\* The invitation that a job made before it started over.
Earlier(m) ==
    m.invitation # 0 =>
        /\ m.via = "import"
        /\ m.invitation \in DOMAIN invitation
        /\ m.token <= issued
        /\ m.email = invitation[m.invitation].email

\* What a call carries is sound.
GoodCall(m) ==
    /\ m.at \in Checking => Earlier(m)
    /\ m.at = "checkConflict" => m.via = "invite"
    /\ m.at = "insert" /\ m.invitation # 0 =>
          ~(Active(m.invitation) /\ invitation[m.invitation].token = m.token)
    /\ m.at \in FollowUp =>
          /\ m.invitation \in DOMAIN invitation
          /\ m.token <= issued
          /\ m.again # Idle => m.again.at = "checkMember" /\ Earlier(m.again)
    /\ m.at \in Writing => m.invitation \in DOMAIN invitation
    /\ m.at = "register" =>
          /\ m.since <= now
          /\ m.since <= invitation[m.invitation].expires
          /\ \E l \in mailed : l[1] = m.invitation

CallsInv == \A c \in Calls : GoodCall(call[c])

\* Token t has been seen with invitation i: in a mail, in the row, or in a call.
Known(i, t) ==
    \/ <<i, t>> \in mailed
    \/ i \in DOMAIN invitation /\ invitation[i].token = t
    \/ \E c \in Calls : call[c].at \in FollowUp /\ call[c].invitation = i /\ call[c].token = t

\* A token belongs to one invitation, and no later one has been made.
OwnersInv ==
    \A i, t :
        Known(i, t) => t \in 1 .. issued /\ \A j : Known(j, t) => i = j

AdmittedInv == \A a \in accounts : a.admitted <= now

IInv ==
    /\ TypeOK
    /\ CallsInv
    /\ OwnersInv
    /\ AdmittedInv
    /\ UsedOnce
    /\ EnteredInTime
    /\ FollowedUp

-----------------------------------------------------------------------------
(* Facts about the data.                                                   *)

AllCalls == Makings \union Followings \union Others \union {Idle}

LEMMA CallKinds ==
    ASSUME NEW m \in AllCalls
    PROVE  /\ m.at \in Checking =>
                 /\ m \in Makings
                 /\ m.via \in Ways /\ m.email \in Emails /\ m.role \in Roles
                 /\ m.tries \in 0 .. Attempts - 1
                 /\ m.invitation \in Nat /\ m.token \in Nat
           /\ m.at \in FollowUp =>
                 /\ m \in Followings
                 /\ m.invitation \in Nat \ {0} /\ m.token \in Nat \ {0}
                 /\ m.nth \in 1 .. Reminders
                 /\ m.again \in Makings \union {Idle}
           /\ m.at \in Writing => m \in Others /\ m.invitation \in Nat \ {0}
           /\ m.at = "register" => m.since \in Nat
           /\ m.at = "idle" <=> m = Idle
           /\ m.at \in Checking \union FollowUp \union Writing \union {"idle"}
  BY DEF AllCalls, Makings, Followings, Others, Idle, Checking, FollowUp, Writing

LEMMA CallTyped ==
    ASSUME TypeOK, NEW c \in Calls
    PROVE  call[c] \in AllCalls
  BY DEF TypeOK, AllCalls

LEMMA AgainKind ==
    ASSUME NEW m \in Makings \union {Idle}
    PROVE  m # Idle => /\ m \in Makings /\ m.at \in Checking
                       /\ m.invitation \in Nat /\ m.token \in Nat
  BY DEF Makings, Idle, Checking

LEMMA MakingBuilt ==
    ASSUME NEW at \in Checking, NEW via \in Ways, NEW e \in Emails, NEW r \in Roles,
           NEW tries \in 0 .. Attempts - 1, NEW i \in Nat, NEW t \in Nat
    PROVE  LET m == Making(at, via, e, r, tries, i, t)
           IN  /\ m \in Makings /\ m \in AllCalls
               /\ m.at = at /\ m.via = via /\ m.email = e /\ m.invitation = i /\ m.token = t
               /\ m # Idle
  BY DEF Making, Makings, AllCalls, Checking, Idle

LEMMA FollowingBuilt ==
    ASSUME NEW at \in FollowUp, NEW i \in Nat \ {0}, NEW t \in Nat \ {0},
           NEW n \in 1 .. Reminders, NEW again \in Makings \union {Idle}
    PROVE  LET m == Following(at, i, t, n, again)
           IN  /\ m \in AllCalls
               /\ m.at = at /\ m.invitation = i /\ m.token = t /\ m.nth = n
               /\ m.again = again
  BY DEF Following, Followings, AllCalls

LEMMA IdleGood == Idle \in AllCalls /\ Idle.at = "idle" /\ GoodCall(Idle)
  BY DEF AllCalls, Idle, GoodCall, Checking, FollowUp, Writing

LEMMA GoesOnlyThere ==
    ASSUME TypeOK, NEW c \in Calls, NEW next \in AllCalls, Goes(c, next)
    PROVE  /\ call' \in [Calls -> AllCalls]
           /\ call'[c] = next
           /\ \A d \in Calls \ {c} : call'[d] = call[d]
  BY DEF TypeOK, AllCalls, Goes

\* What a failure makes of a call before its write, or at it.
LEMMA AgainBuilt ==
    ASSUME NEW m \in Makings, NEW i \in Nat, NEW t \in Nat
    PROVE  /\ Again(m, i, t) \in Makings \union {Idle}
           /\ Again(m, i, t) # Idle =>
                 /\ Again(m, i, t).at = "checkMember"
                 /\ Again(m, i, t).via = "import"
                 /\ Again(m, i, t).email = m.email
                 /\ Again(m, i, t).invitation = i
                 /\ Again(m, i, t).token = t
  <1>1. CASE m.via = "import" /\ m.tries + 1 < Attempts
    <2>1. m.tries + 1 \in 0 .. Attempts - 1 /\ m.email \in Emails /\ m.role \in Roles
      BY <1>1, JobNumbers DEF Makings
    <2>2. "checkMember" \in Checking /\ "import" \in Ways
      BY DEF Checking, Ways
    <2>3. PICK n : n = Making("checkMember", "import", m.email, m.role, m.tries + 1, i, t)
      OBVIOUS
    <2>4. /\ n \in Makings
          /\ n.at = "checkMember" /\ n.via = "import" /\ n.email = m.email
          /\ n.invitation = i /\ n.token = t
      BY <2>1, <2>2, <2>3, MakingBuilt
    <2>5. Again(m, i, t) = n
      BY <1>1, <2>3 DEF Again
    <2> QED
      BY <2>4, <2>5
  <1>2. CASE ~(m.via = "import" /\ m.tries + 1 < Attempts)
    BY <1>2 DEF Again
  <1> QED
    BY <1>1, <1>2

LEMMA RowKind ==
    ASSUME TypeOK, NEW i \in DOMAIN invitation
    PROVE  /\ invitation[i] \in Invitations
           /\ invitation[i].email \in Emails /\ invitation[i].role \in Roles
           /\ invitation[i].token \in Nat \ {0}
           /\ invitation[i].expires \in Nat /\ invitation[i].used \in BOOLEAN
           /\ i \in Nat \ {0}
  <1>1. invitation \in Seq(Invitations)
    BY DEF TypeOK
  <1>2. invitation[i] \in Invitations /\ i \in Nat \ {0}
    BY <1>1
  <1> QED
    BY <1>2 DEF Invitations

LEMMA RowBuilt ==
    ASSUME NEW e \in Emails, NEW r \in Roles, NEW t \in Nat \ {0}, NEW x \in Nat,
           NEW u \in BOOLEAN
    PROVE  LET row == Invitation(e, r, t, x, u)
           IN  /\ row \in Invitations
               /\ row.email = e /\ row.role = r /\ row.token = t
               /\ row.expires = x /\ row.used = u
  BY DEF Invitation, Invitations

\* Rows inv are the present ones with another token and expiry of row i.
Renews(inv, i, t, x) ==
    /\ inv \in Seq(Invitations)
    /\ DOMAIN inv = DOMAIN invitation
    /\ inv[i].token = t /\ inv[i].expires = x
    /\ \A j \in DOMAIN invitation :
          /\ j # i => inv[j] = invitation[j]
          /\ inv[j].email = invitation[j].email
          /\ inv[j].role = invitation[j].role
          /\ inv[j].used = invitation[j].used

\* Renewing a row changes the token and the expiry of that row alone.
LEMMA Renewing ==
    ASSUME TypeOK, NEW i \in DOMAIN invitation, NEW t \in Nat \ {0}, NEW x \in Nat
    PROVE  Renews(Renewed(i, t, x), i, t, x)
  <1>1. PICK row : row = Invitation(invitation[i].email, invitation[i].role, t, x,
                                    invitation[i].used)
    OBVIOUS
  <1>2. /\ row \in Invitations
        /\ row.email = invitation[i].email /\ row.role = invitation[i].role
        /\ row.token = t /\ row.expires = x /\ row.used = invitation[i].used
    BY <1>1, RowKind, RowBuilt
  <1>3. Renewed(i, t, x) = [invitation EXCEPT ![i] = row] /\ invitation \in Seq(Invitations)
    BY <1>1 DEF Renewed, TypeOK
  <1> QED
    BY <1>2, <1>3 DEF Renews

\* Rows inv are the present ones with row i marked as used.
Uses(inv, i) ==
    /\ inv \in Seq(Invitations)
    /\ DOMAIN inv = DOMAIN invitation
    /\ inv[i].used
    /\ \A j \in DOMAIN invitation :
          /\ j # i => inv[j] = invitation[j]
          /\ inv[j].email = invitation[j].email
          /\ inv[j].role = invitation[j].role
          /\ inv[j].token = invitation[j].token
          /\ inv[j].expires = invitation[j].expires

LEMMA Using ==
    ASSUME TypeOK, NEW i \in DOMAIN invitation
    PROVE  Uses(Used(i), i)
  <1>1. PICK row : row = Invitation(invitation[i].email, invitation[i].role,
                                    invitation[i].token, invitation[i].expires, TRUE)
    OBVIOUS
  <1>2. /\ row \in Invitations
        /\ row.email = invitation[i].email /\ row.role = invitation[i].role
        /\ row.token = invitation[i].token /\ row.expires = invitation[i].expires
        /\ row.used
    BY <1>1, RowKind DEF Invitation, Invitations
  <1>3. Used(i) = [invitation EXCEPT ![i] = row] /\ invitation \in Seq(Invitations)
    BY <1>1 DEF Used, TypeOK
  <1> QED
    BY <1>2, <1>3 DEF Uses

-----------------------------------------------------------------------------
(* What survives a step of somebody else.                                  *)

\* The clock and the tokens go on, rows keep their addressee, and a row becomes
\* pending again only with a new token.
Later ==
    /\ DOMAIN invitation \subseteq DOMAIN invitation'
    /\ issued <= issued' /\ now <= now' /\ mailed \subseteq mailed'
    /\ \A i \in DOMAIN invitation :
          /\ invitation'[i].email = invitation[i].email
          /\ invitation'[i].role = invitation[i].role
          /\ \/ invitation'[i].expires >= invitation[i].expires
             \/ invitation'[i].expires >= now
          /\ \/ invitation'[i].token > issued
             \/ invitation'[i].token = invitation[i].token /\ (Active(i)' => Active(i))

LEMMA StaysGood ==
    ASSUME IInv, TypeOK', Later, NEW d \in Calls, call'[d] = call[d]
    PROVE  GoodCall(call[d])'
  <1>1. PICK m \in AllCalls : m = call[d]
    BY CallTyped DEF IInv
  <1>2. GoodCall(m) /\ call'[d] = m
    BY <1>1 DEF IInv, CallsInv
  <1>3. now \in Nat /\ now' \in Nat /\ issued \in Nat /\ issued' \in Nat
    BY OnboardingBounds DEF IInv, TypeOK, Times
  <1>4. \A i \in DOMAIN invitation :
           invitation[i].expires \in Nat /\ invitation'[i].expires \in Nat
    <2> TAKE i \in DOMAIN invitation
    <2>1. invitation[i].expires \in Nat
      BY RowKind DEF IInv
    <2>2. i \in DOMAIN invitation' /\ invitation' \in Seq(Invitations)
      BY DEF Later, TypeOK
    <2>3. invitation'[i] \in Invitations
      BY <2>2
    <2> QED
      BY <2>1, <2>3 DEF Invitations
  <1>5. ASSUME NEW n \in Makings, Earlier(n)
        PROVE  n.invitation # 0 =>
                 /\ n.via = "import"
                 /\ n.invitation \in DOMAIN invitation'
                 /\ n.token <= issued'
                 /\ n.email = invitation'[n.invitation].email
    BY <1>3, <1>5 DEF Earlier, Later, Makings
  <1>6. ASSUME m.at \in Checking
        PROVE  GoodCall(call[d])'
    <2>1. m \in Makings /\ Earlier(m) /\ m.at \notin FollowUp \union Writing
          /\ m.token \in Nat
      BY <1>2, <1>6, CallKinds DEF GoodCall, Checking, FollowUp, Writing
    <2>2. m.at = "insert" /\ m.invitation # 0 =>
             ~(Active(m.invitation)' /\ invitation'[m.invitation].token = m.token)
      BY <1>2, <1>3, <2>1 DEF GoodCall, Earlier, Later
    <2>3. m.at # "register"
      BY <2>1 DEF Writing
    <2> QED
      BY <1>2, <1>5, <2>1, <2>2, <2>3 DEF GoodCall, Earlier, Active
  <1>7. ASSUME m.at \in FollowUp
        PROVE  GoodCall(call[d])'
    <2>1. m.at \notin Checking \union Writing
          /\ m.at \notin {"checkConflict", "insert", "register"}
      BY <1>7 DEF Checking, FollowUp, Writing
    <2>2. m.invitation \in DOMAIN invitation' /\ m.token <= issued'
      BY <1>2, <1>3, <1>7, CallKinds DEF GoodCall, Later
    <2>3. m.again # Idle =>
             m.again \in Makings /\ m.again.at = "checkMember" /\ Earlier(m.again)
      BY <1>2, <1>7, CallKinds, AgainKind DEF GoodCall
    <2> QED
      BY <1>2, <1>5, <2>1, <2>2, <2>3 DEF GoodCall, Earlier
  <1>8. ASSUME m.at \in Writing
        PROVE  GoodCall(call[d])'
    <2>1. m.at \notin Checking \union FollowUp /\ m.at \notin {"checkConflict", "insert"}
      BY <1>8 DEF Checking, FollowUp, Writing
    <2>2. m.invitation \in DOMAIN invitation /\ m.invitation \in DOMAIN invitation'
      BY <1>2, <1>8 DEF GoodCall, Later
    <2>3. ASSUME m.at = "register"
          PROVE  /\ m.since <= now'
                 /\ m.since <= invitation'[m.invitation].expires
                 /\ \E l \in mailed' : l[1] = m.invitation
      <3>1. /\ m.since \in Nat /\ m.since <= now
            /\ m.since <= invitation[m.invitation].expires
            /\ \E l \in mailed : l[1] = m.invitation
        BY <1>2, <2>3, CallKinds DEF GoodCall
      <3> QED
        BY <1>3, <1>4, <2>2, <3>1 DEF Later
    <2> QED
      BY <1>2, <2>1, <2>2, <2>3 DEF GoodCall
  <1>9. ASSUME m.at = "idle"
        PROVE  GoodCall(call[d])'
    BY <1>2, <1>9 DEF GoodCall, Checking, FollowUp, Writing
  <1> QED
    BY <1>6, <1>7, <1>8, <1>9, CallKinds

LEMMA PeopleStay ==
    ASSUME IInv, TypeOK', Later, UNCHANGED accounts,
           \A i \in DOMAIN invitation : invitation'[i].used = invitation[i].used,
           \A i \in DOMAIN invitation' \ DOMAIN invitation : ~invitation'[i].used
    PROVE  AdmittedInv' /\ UsedOnce' /\ EnteredInTime'
  <1>1. now \in Nat /\ now' \in Nat
    BY OnboardingBounds DEF IInv, TypeOK, Times
  <1>2. \A a \in accounts : a.admitted \in Nat /\ a.admitted <= now
                            /\ a.from \in DOMAIN invitation
    BY DEF IInv, TypeOK, Accounts, AdmittedInv, UsedOnce
  <1>3. AdmittedInv'
    BY <1>1, <1>2 DEF AdmittedInv, Later
  <1>4. UsedOnce'
    BY <1>2 DEF IInv, UsedOnce, Later
  <1>5. EnteredInTime'
    <2> SUFFICES ASSUME NEW a \in accounts
                 PROVE  a.admitted <= invitation'[a.from].expires
      BY DEF EnteredInTime
    <2>1. PICK i \in DOMAIN invitation : i = a.from
      BY <1>2
    <2>2. a.admitted <= invitation[i].expires
      BY <2>1 DEF IInv, EnteredInTime
    <2>3. invitation[i].expires \in Nat
      BY RowKind DEF IInv
    <2>4. i \in DOMAIN invitation' /\ invitation' \in Seq(Invitations)
      BY DEF Later, TypeOK
    <2>5. invitation'[i] \in Invitations
      BY <2>4
    <2>6. invitation'[i].expires \in Nat
      BY <2>5 DEF Invitations
    <2> QED
      BY <1>1, <1>2, <2>1, <2>2, <2>3, <2>6 DEF Later
  <1> QED
    BY <1>3, <1>4, <1>5

LEMMA OwnersStay ==
    ASSUME IInv, TypeOK', issued <= issued', \A i, t : Known(i, t)' => Known(i, t)
    PROVE  OwnersInv'
  <1>1. issued \in Nat /\ issued' \in Nat
    BY OnboardingBounds DEF IInv, TypeOK
  <1> SUFFICES ASSUME NEW i, NEW t, Known(i, t)'
               PROVE  t \in 1 .. issued' /\ \A j : Known(j, t)' => i = j
    BY DEF OwnersInv
  <1>2. Known(i, t)
    OBVIOUS
  <1>3. t \in 1 .. issued /\ \A j : Known(j, t) => i = j
    BY <1>2 DEF IInv, OwnersInv
  <1> QED
    BY <1>1, <1>3

LEMMA OwnersGrow ==
    ASSUME IInv, TypeOK', issued' = issued + 1, NEW new,
           \A i, t : Known(i, t)' => Known(i, t) \/ (i = new /\ t = issued + 1)
    PROVE  OwnersInv'
  <1>1. issued \in Nat /\ issued' \in Nat
    BY OnboardingBounds DEF IInv, TypeOK
  <1> SUFFICES ASSUME NEW i, NEW t, Known(i, t)'
               PROVE  t \in 1 .. issued' /\ \A j : Known(j, t)' => i = j
    BY DEF OwnersInv
  <1>2. \A j, u : Known(j, u) => u \in 1 .. issued /\ \A k : Known(k, u) => j = k
    BY DEF IInv, OwnersInv
  <1>3. CASE Known(i, t)
    <2>1. t \in 1 .. issued /\ t # issued + 1
      BY <1>1, <1>2, <1>3
    <2> QED
      BY <1>1, <1>2, <1>3, <2>1
  <1>4. CASE i = new /\ t = issued + 1
    <2>1. \A j : ~Known(j, t)
      BY <1>1, <1>2, <1>4
    <2> QED
      BY <1>1, <1>4, <2>1
  <1> QED
    BY <1>3, <1>4

\* Somebody looks after invitation i.
Tended(i) ==
    /\ \/ <<i, invitation[i].token>> \in mailed
       \/ \E c \in Calls : WillMail(c, i, invitation[i].token)
    /\ \A nth \in 1 .. Reminders :
          <<i, nth>> \in reminders \/ \E c \in Calls : WillRemind(c, i, nth)

LEMMA TendedStays ==
    ASSUME IInv, NEW c \in Calls, call[c].at \notin FollowUp,
           \A d \in Calls \ {c} : call'[d] = call[d],
           mailed \subseteq mailed', reminders \subseteq reminders',
           NEW i \in DOMAIN invitation \ neglected,
           invitation'[i].token = invitation[i].token
    PROVE  Tended(i)'
  <1>1. Tended(i)
    BY DEF IInv, FollowedUp, Tended
  <1>2. \A d \in Calls : \A t : WillMail(d, i, t) => WillMail(d, i, t)'
    BY DEF WillMail, FollowUp
  <1>3. \A d \in Calls : \A n : WillRemind(d, i, n) => WillRemind(d, i, n)'
    BY DEF WillRemind
  <1> QED
    BY <1>1, <1>2, <1>3 DEF Tended

-----------------------------------------------------------------------------
(* The steps of a call that write nothing.                                 *)

LEMMA QuietMove ==
    ASSUME IInv, NEW c \in Calls, NEW next \in AllCalls, Goes(c, next),
           UNCHANGED <<now, rows, followUps, people>>,
           call[c].at \notin FollowUp, next.at \notin FollowUp, GoodCall(next)
    PROVE  IInv'
  <1>1. /\ call' \in [Calls -> AllCalls] /\ call'[c] = next
        /\ \A d \in Calls \ {c} : call'[d] = call[d]
    BY GoesOnlyThere DEF IInv
  <1>2. TypeOK'
    BY <1>1 DEF IInv, TypeOK, AllCalls, rows, followUps, people
  <1>3. Later
    <2>1. now \in Nat /\ issued \in Nat
      BY OnboardingBounds DEF IInv, TypeOK, Times
    <2>2. \A i \in DOMAIN invitation : invitation[i].expires \in Nat
      BY RowKind DEF IInv
    <2> QED
      BY <2>1, <2>2 DEF Later, Active, rows, followUps
  <1>4. CallsInv'
    <2>1. GoodCall(call[c])'
      BY <1>1 DEF GoodCall, Earlier, Active, rows, followUps
    <2>2. \A d \in Calls \ {c} : GoodCall(call[d])'
      BY <1>1, <1>2, <1>3, StaysGood
    <2> QED
      BY <2>1, <2>2 DEF CallsInv
  <1>5. OwnersInv'
    <2>1. \A i, t : Known(i, t)' => Known(i, t)
      BY <1>1 DEF Known, rows, followUps
    <2>2. issued <= issued'
      BY <1>3 DEF Later
    <2> QED
      BY <1>2, <2>1, <2>2, OwnersStay
  <1>6. AdmittedInv' /\ UsedOnce' /\ EnteredInTime'
    BY <1>2, <1>3, PeopleStay DEF rows, people
  <1>7. FollowedUp'
    <2>1. \A i \in DOMAIN invitation \ neglected : Tended(i)'
      BY <1>1, TendedStays DEF rows, followUps
    <2> QED
      BY <2>1 DEF FollowedUp, Tended, rows, followUps
  <1> QED
    BY <1>2, <1>4, <1>5, <1>6, <1>7 DEF IInv

\* A call that has not made anything yet carries nothing to be wrong.
LEMMA FreshGood ==
    ASSUME NEW at \in Checking, NEW via \in Ways, NEW e \in Emails, NEW r \in Roles,
           0 \in 0 .. Attempts - 1, at # "checkConflict"
    PROVE  LET m == Making(at, via, e, r, 0, 0, 0)
           IN  m \in AllCalls /\ m.at \notin FollowUp /\ GoodCall(m)
  <1>1. PICK m : m = Making(at, via, e, r, 0, 0, 0)
    OBVIOUS
  <1>2. m \in AllCalls /\ m.at = at /\ m.invitation = 0
    BY <1>1, MakingBuilt
  <1>3. m.at \notin FollowUp /\ m.at \notin Writing /\ m.at # "register"
    BY <1>2 DEF Checking, FollowUp, Writing
  <1> QED
    BY <1>1, <1>2, <1>3 DEF GoodCall, Earlier

LEMMA AskStep ==
    ASSUME IInv, NEW c \in Calls, NEW via \in Ways, NEW e \in Emails, NEW r \in Roles,
           Ask(c, via, e, r)
    PROVE  IInv'
  <1>1. PICK at : at = IF via = "create" THEN "checkPending" ELSE "checkMember"
    OBVIOUS
  <1>2. at \in Checking /\ at # "checkConflict"
    BY <1>1 DEF Checking
  <1>3. PICK next : next = Making(at, via, e, r, 0, 0, 0)
    OBVIOUS
  <1>4. next \in AllCalls /\ next.at \notin FollowUp /\ GoodCall(next)
    BY <1>2, <1>3, FreshGood, JobNumbers
  <1>5. Goes(c, next) /\ UNCHANGED <<now, rows, followUps, people>>
    BY <1>1, <1>3 DEF Ask
  <1>6. call[c].at \notin FollowUp
    BY DEF Ask, Idle, FollowUp
  <1> QED
    BY <1>4, <1>5, <1>6, QuietMove

\* A call that passes a check keeps what it carries.
LEMMA PassStep ==
    ASSUME IInv, NEW c \in Calls, call[c].at \in Checking, NEW at \in Checking,
           Passes(c, at), UNCHANGED <<now, rows, followUps, people>>,
           at = "checkConflict" => call[c].via = "invite",
           at = "insert" /\ call[c].invitation # 0 =>
              ~(Active(call[c].invitation)
                /\ invitation[call[c].invitation].token = call[c].token)
    PROVE  IInv'
  <1>1. PICK m \in AllCalls : m = call[c]
    BY CallTyped DEF IInv
  <1>2. /\ m.via \in Ways /\ m.email \in Emails /\ m.role \in Roles
        /\ m.tries \in 0 .. Attempts - 1 /\ m.invitation \in Nat /\ m.token \in Nat
    BY <1>1, CallKinds
  <1>3. PICK next : next = Making(at, m.via, m.email, m.role, m.tries, m.invitation, m.token)
    OBVIOUS
  <1>4. /\ next \in AllCalls /\ next.at = at /\ next.email = m.email /\ next.via = m.via
        /\ next.invitation = m.invitation /\ next.token = m.token
    BY <1>2, <1>3, MakingBuilt
  <1>5. Earlier(m)
    BY <1>1 DEF IInv, CallsInv, GoodCall
  <1>6. next.at \notin FollowUp \union Writing /\ next.at # "register"
    BY <1>4 DEF Checking, FollowUp, Writing
  <1>7. GoodCall(next)
    BY <1>1, <1>4, <1>5, <1>6 DEF GoodCall, Earlier
  <1>8. Goes(c, next)
    BY <1>1, <1>3 DEF Passes
  <1>9. call[c].at \notin FollowUp
    BY DEF Checking, FollowUp
  <1> QED
    BY <1>4, <1>6, <1>7, <1>8, <1>9, QuietMove

LEMMA GiveUpStep ==
    ASSUME IInv, NEW c \in Calls, call[c].at \notin FollowUp, Goes(c, Idle),
           UNCHANGED <<now, rows, followUps, people>>
    PROVE  IInv'
  BY IdleGood, QuietMove DEF FollowUp

LEMMA CheckStep ==
    ASSUME IInv, NEW c \in Calls, CheckMember(c) \/ CheckPending(c) \/ CheckConflict(c)
    PROVE  IInv'
  <1>1. PICK m \in AllCalls : m = call[c]
    BY CallTyped DEF IInv
  <1>2. m.at \in {"checkMember", "checkPending", "checkConflict"} /\ m.at \in Checking
        /\ call[c].at \notin FollowUp
    BY <1>1 DEF CheckMember, CheckPending, CheckConflict, Checking, FollowUp
  <1>3. UNCHANGED <<now, rows, followUps, people>>
    BY DEF CheckMember, CheckPending, CheckConflict
  <1>4. CASE Goes(c, Idle)
    BY <1>2, <1>3, <1>4, GiveUpStep
  <1>5. ASSUME CheckMember(c), ~Goes(c, Idle)
        PROVE  IInv'
    <2>1. PICK at : at = CASE m.via = "invite" -> "checkConflict"
                           [] m.via = "import" -> "checkPending"
                           [] OTHER -> "insert"
      OBVIOUS
    <2>2. /\ at \in Checking
          /\ at = "checkConflict" => m.via = "invite"
          /\ at = "insert" => m.via # "import"
      BY <2>1 DEF Checking
    <2>3. Passes(c, at)
      BY <1>1, <1>5, <2>1 DEF CheckMember
    <2>4. m.invitation # 0 => m.via = "import"
      BY <1>1, <1>2 DEF IInv, CallsInv, GoodCall, Earlier
    <2> QED
      BY <1>1, <1>2, <1>3, <2>2, <2>3, <2>4, PassStep
  <1>6. ASSUME CheckPending(c), ~Goes(c, Idle)
        PROVE  IInv'
    <2>1. Passes(c, "insert")
          /\ \A i \in DOMAIN invitation : invitation[i].email = m.email => ~Active(i)
      BY <1>1, <1>6 DEF CheckPending
    <2>2. m.invitation # 0 =>
             m.invitation \in DOMAIN invitation /\ m.email = invitation[m.invitation].email
      BY <1>1, <1>2 DEF IInv, CallsInv, GoodCall, Earlier
    <2>3. "insert" \in Checking
      BY DEF Checking
    <2> QED
      BY <1>1, <1>2, <1>3, <2>1, <2>2, <2>3, PassStep
  <1>7. ASSUME CheckConflict(c), ~Goes(c, Idle)
        PROVE  IInv'
    <2>1. Passes(c, "insert") /\ m.at = "checkConflict"
      BY <1>1, <1>7 DEF CheckConflict
    <2>2. m.invitation # 0 => m.via = "import" /\ m.via = "invite"
      BY <1>1, <1>2, <2>1 DEF IInv, CallsInv, GoodCall, Earlier
    <2>3. "insert" \in Checking
      BY DEF Checking
    <2> QED
      BY <1>1, <1>2, <1>3, <2>1, <2>2, <2>3, PassStep
  <1> QED
    BY <1>4, <1>5, <1>6, <1>7

LEMMA ReadStep ==
    ASSUME IInv, NEW c \in Calls,
           \/ \E i \in DOMAIN invitation : ResendRead(c, i) \/ RevokeRead(c, i)
           \/ \E link \in mailed : RegisterRead(c, link)
    PROVE  IInv'
  <1>1. UNCHANGED <<now, rows, followUps, people>> /\ call[c].at \notin FollowUp
    <2>1. UNCHANGED <<now, rows, followUps, people>>
      BY DEF ResendRead, RevokeRead, RegisterRead
    <2>2. call[c] = Idle
      BY DEF ResendRead, RevokeRead, RegisterRead
    <2>3. Idle.at \notin FollowUp
      BY DEF Idle, FollowUp
    <2> QED
      BY <2>1, <2>2, <2>3
  <1>2. ASSUME NEW i \in DOMAIN invitation, NEW at \in {"resend", "revoke"},
               Goes(c, [at |-> at, invitation |-> i])
        PROVE  IInv'
    <2>1. PICK next : next = [at |-> at, invitation |-> i]
      OBVIOUS
    <2>2. next \in AllCalls /\ next.at = at /\ next.invitation = i
      BY <2>1, RowKind DEF AllCalls, Others, IInv
    <2>3. next.at \notin FollowUp \union Checking
          /\ next.at \notin {"checkConflict", "insert", "register"}
      BY <2>2 DEF FollowUp, Checking
    <2>4. GoodCall(next)
      BY <2>2, <2>3 DEF GoodCall
    <2> QED
      BY <1>1, <1>2, <2>1, <2>2, <2>3, <2>4, QuietMove
  <1>3. ASSUME NEW link \in mailed, RegisterRead(c, link)
        PROVE  IInv'
    <2>1. PICK i \in DOMAIN invitation :
             /\ invitation[i].token = link[2] /\ Admits(i)
             /\ Goes(c, [at |-> "register", invitation |-> i, since |-> now])
      BY <1>3 DEF RegisterRead
    <2>2. PICK next : next = [at |-> "register", invitation |-> i, since |-> now]
      OBVIOUS
    <2>3. now \in Nat
      BY OnboardingBounds DEF IInv, TypeOK, Times
    <2>4. /\ next \in AllCalls /\ next.at = "register"
          /\ next.invitation = i /\ next.since = now
      BY <2>2, <2>3, RowKind DEF AllCalls, Others, IInv
    <2>5. next.at \notin FollowUp \union Checking
          /\ next.at \notin {"checkConflict", "insert"}
      BY <2>4 DEF FollowUp, Checking
    <2>6. link[1] = i
      <3>1. link = <<link[1], link[2]>>
        BY DEF IInv, TypeOK
      <3>2. Known(link[1], link[2]) /\ Known(i, link[2])
        BY <2>1, <3>1 DEF Known
      <3> QED
        BY <3>2 DEF IInv, OwnersInv
    <2>7. GoodCall(next)
      BY <2>1, <2>3, <2>4, <2>5, <2>6, RowKind DEF GoodCall, Admits, IInv
    <2> QED
      BY <1>1, <2>1, <2>2, <2>4, <2>5, <2>7, QuietMove
  <1> QED
    BY <1>2, <1>3 DEF ResendRead, RevokeRead

-----------------------------------------------------------------------------
(* The steps that write a row.                                             *)

\* A call gives invitation i a new token and is about to mail it.
LEMMA NewToken ==
    ASSUME IInv, TypeOK', Later, NEW c \in Calls, call[c].at \notin FollowUp,
           NEW i \in Nat \ {0}, DOMAIN invitation' = DOMAIN invitation \union {i},
           NEW again \in Makings \union {Idle},
           again # Idle => again.at = "checkMember" /\ Earlier(again)',
           Goes(c, Following("mail", i, issued + 1, 1, again)),
           issued' = issued + 1, invitation'[i].token = issued + 1,
           \A j \in DOMAIN invitation \ {i} : invitation'[j].token = invitation[j].token,
           UNCHANGED followUps
    PROVE  CallsInv' /\ OwnersInv' /\ FollowedUp'
  <1>1. PICK next : next = Following("mail", i, issued + 1, 1, again)
    OBVIOUS
  <1>2. issued \in Nat /\ issued + 1 \in Nat \ {0} /\ 1 \in 1 .. Reminders
        /\ "mail" \in FollowUp
    BY OnboardingBounds, JobNumbers DEF IInv, TypeOK, FollowUp
  <1>3. /\ next \in AllCalls
        /\ next.at = "mail" /\ next.invitation = i /\ next.token = issued + 1
        /\ next.nth = 1 /\ next.again = again
    BY <1>1, <1>2, FollowingBuilt
  <1>4. /\ call'[c] = next
        /\ \A d \in Calls \ {c} : call'[d] = call[d]
    BY <1>1, <1>3, GoesOnlyThere DEF IInv
  <1>5. CallsInv'
    <2>1. next.at \notin Checking \union Writing
          /\ next.at \notin {"checkConflict", "insert", "register"}
      BY <1>3 DEF Checking, Writing
    <2>2. i \in DOMAIN invitation' /\ next.token <= issued'
      BY <1>2, <1>3
    <2>3. GoodCall(call[c])'
      BY <1>3, <1>4, <2>1, <2>2 DEF GoodCall, Earlier
    <2>4. \A d \in Calls \ {c} : GoodCall(call[d])'
      BY <1>4, StaysGood
    <2> QED
      BY <2>3, <2>4 DEF CallsInv
  <1>6. OwnersInv'
    <2>1. ASSUME NEW j, NEW t, Known(j, t)'
          PROVE  Known(j, t) \/ (j = i /\ t = issued + 1)
      <3>1. CASE <<j, t>> \in mailed'
        BY <3>1 DEF Known, followUps
      <3>2. CASE j \in DOMAIN invitation' /\ invitation'[j].token = t
        BY <3>2 DEF Known
      <3>3. CASE \E d \in Calls : call'[d].at \in FollowUp /\ call'[d].invitation = j
                                  /\ call'[d].token = t
        BY <1>3, <1>4, <3>3 DEF Known
      <3> QED
        BY <2>1, <3>1, <3>2, <3>3 DEF Known
    <2> QED
      BY <2>1, OwnersGrow
  <1>7. FollowedUp'
    <2>1. Tended(i)'
      <3>1. WillMail(c, i, invitation[i].token)'
        BY <1>3, <1>4 DEF WillMail
      <3>2. \A nth \in 1 .. Reminders : WillRemind(c, i, nth)'
        BY <1>2, <1>3, <1>4, JobNumbers DEF WillRemind
      <3> QED
        BY <3>1, <3>2 DEF Tended
    <2>2. \A j \in DOMAIN invitation \ neglected : j # i => Tended(j)'
      BY <1>4, TendedStays DEF followUps
    <2> QED
      BY <2>1, <2>2 DEF FollowedUp, Tended, followUps
  <1> QED
    BY <1>5, <1>6, <1>7

LEMMA InsertStep ==
    ASSUME IInv, NEW c \in Calls, Insert(c)
    PROVE  IInv'
  <1>1. PICK m \in AllCalls : m = call[c]
    BY CallTyped DEF IInv
  <1>2. m.at = "insert" /\ m.at \in Checking /\ m.at \notin FollowUp
    BY <1>1 DEF Insert, Checking, FollowUp
  <1>3. m \in Makings /\ m.email \in Emails /\ m.role \in Roles
    BY <1>2, CallKinds
  <1>4. PICK i : i = Len(invitation) + 1
    OBVIOUS
  <1>5. PICK t : t = issued + 1
    OBVIOUS
  <1>6. PICK row : row = Invitation(m.email, m.role, t, now + InvitationLife, FALSE)
    OBVIOUS
  <1>7. now \in Nat /\ issued \in Nat /\ t \in Nat \ {0} /\ issued' = t
        /\ t \in 0 .. MaxTokens /\ now + InvitationLife \in Nat
    BY <1>5, OnboardingBounds, LivesAssumption DEF IInv, TypeOK, Times, Insert
  <1>8. row \in Invitations /\ row.token = t /\ ~row.used /\ row.email = m.email
    BY <1>3, <1>6, <1>7 DEF Invitation, Invitations
  <1>9. invitation \in Seq(Invitations) /\ invitation' = Append(invitation, row)
    BY <1>1, <1>5, <1>6 DEF Insert, IInv, TypeOK
  <1>10. /\ invitation' \in Seq(Invitations)
         /\ i \in Nat \ {0} /\ i \notin DOMAIN invitation
         /\ DOMAIN invitation' = DOMAIN invitation \union {i}
         /\ invitation'[i] = row
         /\ \A j \in DOMAIN invitation : invitation'[j] = invitation[j]
    BY <1>4, <1>8, <1>9
  <1>11. UNCHANGED <<now, followUps, people>>
    BY DEF Insert
  <1>12. PICK again : again = Again(m, i, t)
    OBVIOUS
  <1>13. /\ again \in Makings \union {Idle}
         /\ again # Idle =>
               again.at = "checkMember" /\ again.via = "import" /\ again.email = m.email
               /\ again.invitation = i /\ again.token = t
    <2>1. i \in Nat /\ t \in Nat
      BY <1>7, <1>10
    <2> QED
      BY <1>3, <1>12, <2>1, AgainBuilt
  <1>14. again # Idle => again.at = "checkMember" /\ Earlier(again)'
    BY <1>7, <1>8, <1>10, <1>13 DEF Earlier
  <1>15. Goes(c, Following("mail", i, t, 1, again))
    BY <1>1, <1>4, <1>5, <1>12 DEF Insert
  <1>16. TypeOK'
    <2>1. "mail" \in FollowUp /\ 1 \in 1 .. Reminders
      BY JobNumbers DEF FollowUp
    <2>2. Following("mail", i, t, 1, again) \in AllCalls
      BY <1>7, <1>10, <1>13, <2>1, FollowingBuilt
    <2>3. call' \in [Calls -> AllCalls]
      BY <1>15, <2>2, GoesOnlyThere DEF IInv
    <2>4. mailed \subseteq (DOMAIN invitation') \X (1 .. issued')
      <3>1. mailed \subseteq (DOMAIN invitation) \X (1 .. issued)
        BY DEF IInv, TypeOK
      <3>2. DOMAIN invitation \subseteq DOMAIN invitation' /\ 1 .. issued \subseteq 1 .. issued'
        BY <1>5, <1>7, <1>10
      <3> QED
        BY <3>1, <3>2
    <2>5. reminders \subseteq (DOMAIN invitation') \X (1 .. Reminders)
          /\ neglected \subseteq DOMAIN invitation'
      BY <1>10 DEF IInv, TypeOK
    <2> QED
      BY <1>7, <1>10, <1>11, <2>3, <2>4, <2>5 DEF IInv, TypeOK, AllCalls, followUps, people
  <1>17. Later
    <2>1. \A j \in DOMAIN invitation : invitation[j].expires \in Nat
      BY RowKind DEF IInv
    <2> QED
      BY <1>5, <1>7, <1>10, <1>11, <2>1 DEF Later, Active, followUps
  <1>18. CallsInv' /\ OwnersInv' /\ FollowedUp'
    <2>1. Goes(c, Following("mail", i, issued + 1, 1, again)) /\ call[c].at \notin FollowUp
      BY <1>1, <1>2, <1>5, <1>15
    <2>2. issued' = issued + 1 /\ invitation'[i].token = issued + 1
      BY <1>5, <1>7, <1>8, <1>10
    <2> QED
      BY <1>10, <1>11, <1>13, <1>14, <1>16, <1>17, <2>1, <2>2, NewToken
  <1>19. AdmittedInv' /\ UsedOnce' /\ EnteredInTime'
    BY <1>8, <1>10, <1>11, <1>16, <1>17, PeopleStay DEF people
  <1> QED
    BY <1>16, <1>18, <1>19 DEF IInv

LEMMA ResendStep ==
    ASSUME IInv, NEW c \in Calls, ResendWrite(c)
    PROVE  IInv'
  <1>1. PICK m \in AllCalls : m = call[c]
    BY CallTyped DEF IInv
  <1>2. m.at = "resend" /\ m.at \in Writing /\ m.at \notin FollowUp
    BY <1>1 DEF ResendWrite, Writing, FollowUp
  <1>3. PICK i \in DOMAIN invitation : i = m.invitation
    BY <1>1, <1>2 DEF IInv, CallsInv, GoodCall
  <1>4. PICK t : t = issued + 1
    OBVIOUS
  <1>5. PICK life \in ResentLives : invitation' = Renewed(i, t, now + life)
    BY <1>1, <1>3, <1>4 DEF ResendWrite
  <1>6. now \in Nat /\ issued \in Nat /\ t \in Nat \ {0} /\ issued' = t
        /\ t \in 0 .. MaxTokens /\ now + life \in Nat /\ now + life >= now
    BY <1>4, OnboardingBounds, LivesAssumption DEF IInv, TypeOK, Times, ResendWrite
  <1>7. /\ invitation' \in Seq(Invitations)
        /\ DOMAIN invitation' = DOMAIN invitation
        /\ invitation'[i].token = t /\ invitation'[i].expires = now + life
        /\ \A j \in DOMAIN invitation :
              /\ j # i => invitation'[j] = invitation[j]
              /\ invitation'[j].email = invitation[j].email
              /\ invitation'[j].role = invitation[j].role
              /\ invitation'[j].used = invitation[j].used
    <2>1. PICK x : x = now + life
      OBVIOUS
    <2>2. x \in Nat /\ t \in Nat \ {0} /\ TypeOK /\ invitation' = Renewed(i, t, x)
      BY <1>5, <1>6, <2>1 DEF IInv
    <2>3. Renews(invitation', i, t, x)
      BY <2>2, Renewing
    <2> QED
      BY <2>1, <2>3 DEF Renews
  <1>8. UNCHANGED <<now, followUps, people>>
    BY DEF ResendWrite
  <1>9. Goes(c, Following("mail", i, t, 1, Idle)) /\ i \in Nat \ {0}
    BY <1>1, <1>3, <1>4, RowKind DEF ResendWrite, IInv
  <1>10. TypeOK'
    <2>1. "mail" \in FollowUp /\ 1 \in 1 .. Reminders /\ Idle \in Makings \union {Idle}
      BY JobNumbers DEF FollowUp
    <2>2. Following("mail", i, t, 1, Idle) \in AllCalls
      BY <1>6, <1>9, <2>1, FollowingBuilt
    <2>3. call' \in [Calls -> AllCalls]
      BY <1>9, <2>2, GoesOnlyThere DEF IInv
    <2>4. mailed \subseteq (DOMAIN invitation') \X (1 .. issued')
      <3>1. mailed \subseteq (DOMAIN invitation) \X (1 .. issued)
        BY DEF IInv, TypeOK
      <3>2. 1 .. issued \subseteq 1 .. issued'
        BY <1>4, <1>6
      <3> QED
        BY <1>7, <3>1, <3>2
    <2> QED
      BY <1>6, <1>7, <1>8, <2>3, <2>4 DEF IInv, TypeOK, AllCalls, followUps, people
  <1>11. Later
    <2>1. \A j \in DOMAIN invitation : invitation[j].expires \in Nat
      BY RowKind DEF IInv
    <2> QED
      BY <1>4, <1>6, <1>7, <1>8, <2>1 DEF Later, Active, followUps
  <1>12. CallsInv' /\ OwnersInv' /\ FollowedUp'
    <2>1. Goes(c, Following("mail", i, issued + 1, 1, Idle)) /\ call[c].at \notin FollowUp
      BY <1>1, <1>2, <1>4, <1>9
    <2>2. issued' = issued + 1 /\ invitation'[i].token = issued + 1
          /\ DOMAIN invitation' = DOMAIN invitation \union {i}
      BY <1>4, <1>6, <1>7
    <2>3. Idle \in Makings \union {Idle} /\ UNCHANGED followUps
      BY <1>8
    <2> QED
      BY <1>7, <1>9, <1>10, <1>11, <2>1, <2>2, <2>3, NewToken
  <1>13. AdmittedInv' /\ UsedOnce' /\ EnteredInTime'
    BY <1>7, <1>8, <1>10, <1>11, PeopleStay DEF people
  <1> QED
    BY <1>10, <1>12, <1>13 DEF IInv

\* A call that ends with its write, and leaves all tokens as they are.
LEMMA EndsWithWrite ==
    ASSUME IInv, TypeOK', Later, NEW c \in Calls, call[c].at \notin FollowUp,
           Goes(c, Idle), UNCHANGED <<issued, followUps>>,
           DOMAIN invitation' = DOMAIN invitation,
           \A i \in DOMAIN invitation : invitation'[i].token = invitation[i].token
    PROVE  CallsInv' /\ OwnersInv' /\ FollowedUp'
  <1>1. /\ call'[c] = Idle
        /\ \A d \in Calls \ {c} : call'[d] = call[d]
    BY IdleGood, GoesOnlyThere DEF IInv
  <1>2. CallsInv'
    <2>1. GoodCall(call[c])'
      BY <1>1 DEF GoodCall, Idle, Checking, FollowUp, Writing
    <2>2. \A d \in Calls \ {c} : GoodCall(call[d])'
      BY <1>1, StaysGood
    <2> QED
      BY <2>1, <2>2 DEF CallsInv
  <1>3. OwnersInv'
    <2>1. Idle.at \notin FollowUp
      BY DEF Idle, FollowUp
    <2>2. \A i, t : Known(i, t)' => Known(i, t)
      BY <1>1, <2>1 DEF Known, followUps
    <2>3. issued <= issued'
      BY DEF Later
    <2> QED
      BY <2>2, <2>3, OwnersStay
  <1>4. \A i \in DOMAIN invitation \ neglected : Tended(i)'
    BY <1>1, TendedStays DEF followUps
  <1> QED
    BY <1>2, <1>3, <1>4 DEF FollowedUp, Tended, followUps

LEMMA RevokeStep ==
    ASSUME IInv, NEW c \in Calls, RevokeWrite(c)
    PROVE  IInv'
  <1>1. call[c].at = "revoke" /\ call[c].at \in Writing /\ call[c].at \notin FollowUp
    BY DEF RevokeWrite, Writing, FollowUp
  <1>2. PICK i \in DOMAIN invitation : i = call[c].invitation
    BY <1>1 DEF IInv, CallsInv, GoodCall
  <1>3. PICK t : t = invitation[i].token
    OBVIOUS
  <1>4. now \in Nat /\ issued \in Nat /\ t \in Nat \ {0}
    BY <1>3, OnboardingBounds, RowKind DEF IInv, TypeOK, Times
  <1>5. PICK x \in Nat : x = now /\ invitation' = Renewed(i, t, x)
    BY <1>2, <1>3, <1>4 DEF RevokeWrite
  <1>6. Renews(invitation', i, t, x)
    <2>1. TypeOK /\ t \in Nat \ {0} /\ x \in Nat
      BY <1>4 DEF IInv
    <2> QED
      BY <1>5, <2>1, Renewing
  <1>7. /\ invitation' \in Seq(Invitations)
        /\ DOMAIN invitation' = DOMAIN invitation
        /\ invitation'[i].expires = now
        /\ \A j \in DOMAIN invitation :
              /\ j # i => invitation'[j] = invitation[j]
              /\ invitation'[j].email = invitation[j].email
              /\ invitation'[j].role = invitation[j].role
              /\ invitation'[j].token = invitation[j].token
              /\ invitation'[j].used = invitation[j].used
    BY <1>3, <1>5, <1>6 DEF Renews
  <1>8. UNCHANGED <<now, issued, followUps, people>> /\ Goes(c, Idle)
    BY DEF RevokeWrite
  <1>9. TypeOK'
    <2>1. call' \in [Calls -> AllCalls]
      BY <1>8, IdleGood, GoesOnlyThere DEF IInv
    <2> QED
      BY <1>7, <1>8, <2>1 DEF IInv, TypeOK, AllCalls, followUps, people
  <1>10. Later
    <2>1. \A j \in DOMAIN invitation : invitation[j].expires \in Nat
      BY RowKind DEF IInv
    <2> QED
      BY <1>4, <1>7, <1>8, <2>1 DEF Later, Active, followUps
  <1>11. CallsInv' /\ OwnersInv' /\ FollowedUp'
    BY <1>1, <1>7, <1>8, <1>9, <1>10, EndsWithWrite
  <1>12. AdmittedInv' /\ UsedOnce' /\ EnteredInTime'
    BY <1>7, <1>8, <1>9, <1>10, PeopleStay DEF people
  <1> QED
    BY <1>9, <1>11, <1>12 DEF IInv

LEMMA RegisterStep ==
    ASSUME IInv, NEW c \in Calls, RegisterWrite(c)
    PROVE  IInv'
  <1>1. call[c].at = "register" /\ call[c].at \in Writing /\ call[c].at \notin FollowUp
    BY DEF RegisterWrite, Writing, FollowUp
  <1>2. PICK i \in DOMAIN invitation : i = call[c].invitation
    BY <1>1 DEF IInv, CallsInv, GoodCall
  <1>3. UNCHANGED <<now, issued, followUps, elsewhere>> /\ Goes(c, Idle)
    BY DEF RegisterWrite
  <1>4. CASE ~NewEmail(invitation[i].email)
    <2>1. UNCHANGED <<now, rows, followUps, people>>
      BY <1>2, <1>3, <1>4 DEF RegisterWrite, rows, people
    <2> QED
      BY <1>1, <1>3, <2>1, GiveUpStep
  <1>5. CASE NewEmail(invitation[i].email)
    <2>1. PICK s : s = call[c].since
      OBVIOUS
    <2>2. /\ s \in Nat /\ s <= now /\ s <= invitation[i].expires
      BY <1>1, <1>2, <2>1, CallTyped, CallKinds DEF IInv, CallsInv, GoodCall
    <2>3. PICK a : a = Account(invitation[i].email, invitation[i].role, i, s)
      OBVIOUS
    <2>4. /\ a \in Accounts /\ a.from = i /\ a.admitted = s
          /\ a.email = invitation[i].email /\ a.role = invitation[i].role
      BY <2>2, <2>3, RowKind DEF Account, Accounts, IInv
    <2>5. accounts' = accounts \union {a} /\ invitation' = Used(i)
      BY <1>2, <1>5, <2>1, <2>3 DEF RegisterWrite, NewAccount
    <2>6. /\ invitation' \in Seq(Invitations)
          /\ DOMAIN invitation' = DOMAIN invitation
          /\ invitation'[i].used
          /\ \A j \in DOMAIN invitation :
                /\ j # i => invitation'[j] = invitation[j]
                /\ invitation'[j].email = invitation[j].email
                /\ invitation'[j].role = invitation[j].role
                /\ invitation'[j].token = invitation[j].token
                /\ invitation'[j].expires = invitation[j].expires
      <3>1. Uses(invitation', i)
        BY <2>5, Using DEF IInv
      <3> QED
        BY <3>1 DEF Uses
    <2>7. TypeOK'
      <3>1. call' \in [Calls -> AllCalls]
        BY <1>3, IdleGood, GoesOnlyThere DEF IInv
      <3> QED
        BY <1>3, <2>4, <2>5, <2>6, <3>1 DEF IInv, TypeOK, AllCalls, followUps
    <2>8. Later
      <3>1. now \in Nat /\ issued \in Nat
        BY OnboardingBounds DEF IInv, TypeOK, Times
      <3>2. \A j \in DOMAIN invitation : invitation[j].expires \in Nat
        BY RowKind DEF IInv
      <3> QED
        BY <1>3, <2>5, <2>6, <3>1, <3>2 DEF Later, Active, followUps
    <2>9. CallsInv' /\ OwnersInv' /\ FollowedUp'
      BY <1>1, <1>3, <2>5, <2>6, <2>7, <2>8, EndsWithWrite
    <2>10. AdmittedInv'
      BY <1>3, <2>2, <2>4, <2>5 DEF IInv, AdmittedInv
    <2>11. UsedOnce'
      <3>1. \A b \in accounts : b.email # a.email
        BY <1>5, <2>4 DEF NewEmail
      <3>2. ASSUME NEW b \in accounts'
            PROVE  /\ b.from \in DOMAIN invitation'
                   /\ invitation'[b.from].used
                   /\ b.email = invitation'[b.from].email
                   /\ b.role = invitation'[b.from].role
                   /\ \A d \in accounts' : b.email = d.email => b = d
        BY <2>4, <2>5, <2>6, <3>1 DEF IInv, UsedOnce
      <3>3. \A j \in DOMAIN invitation' :
               invitation'[j].used => \E b \in accounts' : b.from = j
        BY <2>4, <2>5, <2>6 DEF IInv, UsedOnce
      <3> QED
        BY <3>2, <3>3 DEF UsedOnce
    <2>12. EnteredInTime'
      BY <2>2, <2>4, <2>5, <2>6 DEF IInv, UsedOnce, EnteredInTime
    <2> QED
      BY <2>7, <2>9, <2>10, <2>11, <2>12 DEF IInv
  <1> QED
    BY <1>4, <1>5

-----------------------------------------------------------------------------
(* The steps of a follow-up.                                               *)

\* A call mails its token or looks after a reminder, or is done, or fails.
LEMMA FollowMove ==
    ASSUME IInv, TypeOK', NEW c \in Calls, call[c].at \in FollowUp,
           NEW next \in AllCalls, Goes(c, next), GoodCall(next),
           next.at \in FollowUp =>
              next.invitation = call[c].invitation /\ next.token = call[c].token,
           mailed \subseteq mailed',
           \A l \in mailed' : l \in mailed \/ l = <<call[c].invitation, call[c].token>>,
           UNCHANGED <<now, rows, people>>
    PROVE  CallsInv' /\ OwnersInv' /\ AdmittedInv' /\ UsedOnce' /\ EnteredInTime'
  <1>1. /\ call'[c] = next
        /\ \A d \in Calls \ {c} : call'[d] = call[d]
    BY GoesOnlyThere DEF IInv
  <1>2. Later
    <2>1. now \in Nat /\ issued \in Nat
      BY OnboardingBounds DEF IInv, TypeOK, Times
    <2>2. \A i \in DOMAIN invitation : invitation[i].expires \in Nat
      BY RowKind DEF IInv
    <2> QED
      BY <2>1, <2>2 DEF Later, Active, rows
  <1>3. CallsInv'
    <2>1. GoodCall(call[c])'
      BY <1>1 DEF GoodCall, Earlier, Active, rows
    <2>2. \A d \in Calls \ {c} : GoodCall(call[d])'
      BY <1>1, <1>2, StaysGood
    <2> QED
      BY <2>1, <2>2 DEF CallsInv
  <1>4. OwnersInv'
    <2>1. ASSUME NEW i, NEW t, Known(i, t)'
          PROVE  Known(i, t)
      <3>1. CASE <<i, t>> \in mailed'
        BY <3>1 DEF Known
      <3>2. CASE i \in DOMAIN invitation' /\ invitation'[i].token = t
        BY <3>2 DEF Known, rows
      <3>3. CASE \E d \in Calls : call'[d].at \in FollowUp /\ call'[d].invitation = i
                                  /\ call'[d].token = t
        BY <1>1, <3>3 DEF Known
      <3> QED
        BY <2>1, <3>1, <3>2, <3>3 DEF Known
    <2>2. issued <= issued'
      BY <1>2 DEF Later
    <2> QED
      BY <2>1, <2>2, OwnersStay
  <1>5. AdmittedInv' /\ UsedOnce' /\ EnteredInTime'
    BY <1>2, PeopleStay DEF rows, people
  <1> QED
    BY <1>3, <1>4, <1>5

\* A call that goes on with its follow-up.
LEMMA NextFollowing ==
    ASSUME IInv, NEW c \in Calls, call[c].at \in FollowUp, NEW at \in FollowUp,
           NEW n \in 1 .. Reminders
    PROVE  LET next == Following(at, call[c].invitation, call[c].token, n, call[c].again)
           IN  /\ next \in AllCalls /\ GoodCall(next)
               /\ next.at = at /\ next.nth = n
               /\ next.invitation = call[c].invitation /\ next.token = call[c].token
  <1>1. PICK m \in AllCalls : m = call[c] /\ GoodCall(m)
    BY CallTyped DEF IInv, CallsInv
  <1>2. /\ m.invitation \in Nat \ {0} /\ m.token \in Nat \ {0}
        /\ m.again \in Makings \union {Idle}
    BY <1>1, CallKinds
  <1>3. PICK next : next = Following(at, m.invitation, m.token, n, m.again)
    OBVIOUS
  <1>4. /\ next \in AllCalls /\ next.at = at /\ next.invitation = m.invitation
        /\ next.token = m.token /\ next.nth = n /\ next.again = m.again
    BY <1>2, <1>3, FollowingBuilt
  <1>5. next.at \notin Checking \union Writing
        /\ next.at \notin {"checkConflict", "insert", "register"}
    BY <1>4 DEF Checking, FollowUp, Writing
  <1>6. GoodCall(next)
    BY <1>1, <1>4, <1>5 DEF GoodCall
  <1> QED
    BY <1>1, <1>3, <1>4, <1>6

LEMMA QueueMailStep ==
    ASSUME IInv, NEW c \in Calls, QueueMail(c)
    PROVE  IInv'
  <1>1. call[c].at = "mail" /\ call[c].at \in FollowUp
    BY DEF QueueMail, FollowUp
  <1>2. PICK i, t : i \in DOMAIN invitation /\ i = call[c].invitation /\ t = call[c].token
    BY <1>1 DEF IInv, CallsInv, GoodCall
  <1>3. PICK next : next = Following("remove", i, t, 1, call[c].again)
    OBVIOUS
  <1>4. "remove" \in FollowUp /\ 1 \in 1 .. Reminders
    BY JobNumbers DEF FollowUp
  <1>5. /\ next \in AllCalls /\ GoodCall(next) /\ next.at = "remove" /\ next.nth = 1
        /\ next.invitation = i /\ next.token = t
    BY <1>1, <1>2, <1>3, <1>4, NextFollowing
  <1>6. /\ Goes(c, next) /\ mailed' = mailed \union {<<i, t>>}
        /\ UNCHANGED <<now, rows, reminders, neglected, people>>
    BY <1>2, <1>3 DEF QueueMail
  <1>7. /\ call' \in [Calls -> AllCalls] /\ call'[c] = next
        /\ \A d \in Calls \ {c} : call'[d] = call[d]
    BY <1>5, <1>6, GoesOnlyThere DEF IInv
  <1>8. TypeOK'
    <2>1. t \in 1 .. issued
      <3>1. Known(i, t)
        BY <1>1, <1>2 DEF Known
      <3> QED
        BY <3>1 DEF IInv, OwnersInv
    <2> QED
      BY <1>2, <1>6, <1>7, <2>1 DEF IInv, TypeOK, AllCalls, rows, people
  <1>9. FollowedUp'
    <2> SUFFICES ASSUME NEW j \in DOMAIN invitation \ neglected
                 PROVE  Tended(j)'
      BY <1>6 DEF FollowedUp, Tended, rows
    <2>1. Tended(j)
      BY DEF IInv, FollowedUp, Tended
    <2>2. <<j, invitation'[j].token>> \in mailed'
             \/ \E d \in Calls : WillMail(d, j, invitation[j].token)'
      <3>1. CASE <<j, invitation[j].token>> \in mailed
        BY <1>6, <3>1 DEF rows
      <3>2. ASSUME NEW d \in Calls, WillMail(d, j, invitation[j].token)
            PROVE  <<j, invitation'[j].token>> \in mailed'
                      \/ \E e \in Calls : WillMail(e, j, invitation[j].token)'
        BY <1>2, <1>6, <1>7, <3>2 DEF WillMail, rows
      <3> QED
        BY <2>1, <3>1, <3>2 DEF Tended
    <2>3. ASSUME NEW n \in 1 .. Reminders
          PROVE  <<j, n>> \in reminders' \/ \E d \in Calls : WillRemind(d, j, n)'
      <3>1. CASE <<j, n>> \in reminders
        BY <1>6, <3>1
      <3>2. ASSUME NEW d \in Calls, WillRemind(d, j, n)
            PROVE  WillRemind(d, j, n)'
        BY <1>2, <1>4, <1>5, <1>7, <3>2, JobNumbers DEF WillRemind
      <3> QED
        BY <2>1, <3>1, <3>2 DEF Tended
    <2> QED
      BY <2>2, <2>3 DEF Tended
  <1>10. CallsInv' /\ OwnersInv' /\ AdmittedInv' /\ UsedOnce' /\ EnteredInTime'
    BY <1>1, <1>2, <1>5, <1>6, <1>8, FollowMove
  <1> QED
    BY <1>8, <1>9, <1>10 DEF IInv

\* The link of an invitation stays in good hands while another call moves, or
\* while one moves that has mailed already.
LEMMA LinkStays ==
    ASSUME IInv, NEW c \in Calls, \A d \in Calls \ {c} : call'[d] = call[d],
           UNCHANGED <<rows, mailed>>,
           NEW j \in DOMAIN invitation \ neglected,
           call[c].at # "mail" \/ call[c].invitation # j
    PROVE  \/ <<j, invitation'[j].token>> \in mailed'
           \/ \E d \in Calls : WillMail(d, j, invitation[j].token)'
  <1>1. \/ <<j, invitation[j].token>> \in mailed
        \/ \E d \in Calls : WillMail(d, j, invitation[j].token)
    BY DEF IInv, FollowedUp
  <1>2. ASSUME NEW d \in Calls, WillMail(d, j, invitation[j].token)
        PROVE  WillMail(d, j, invitation[j].token)'
    BY <1>2 DEF WillMail, rows
  <1> QED
    BY <1>1, <1>2 DEF rows

LEMMA RemoveStep ==
    ASSUME IInv, NEW c \in Calls, RemoveReminder(c)
    PROVE  IInv'
  <1>1. call[c].at = "remove" /\ call[c].at \in FollowUp
    BY DEF RemoveReminder, FollowUp
  <1>2. PICK i, t : i \in DOMAIN invitation /\ i = call[c].invitation /\ t = call[c].token
    BY <1>1 DEF IInv, CallsInv, GoodCall
  <1>3. PICK n \in 1 .. Reminders : n = call[c].nth
    BY <1>1, CallTyped, CallKinds DEF IInv
  <1>4. PICK next : next = Following("add", i, t, n, call[c].again)
    OBVIOUS
  <1>5. /\ next \in AllCalls /\ GoodCall(next) /\ next.at = "add" /\ next.nth = n
        /\ next.invitation = i /\ next.token = t
    <2>1. "add" \in FollowUp
      BY DEF FollowUp
    <2> QED
      BY <1>1, <1>2, <1>4, <2>1, NextFollowing
  <1>6. /\ Goes(c, next) /\ reminders' \in {reminders, reminders \ {<<i, n>>}}
        /\ UNCHANGED <<now, rows, mailed, neglected, people>>
    BY <1>2, <1>3, <1>4 DEF RemoveReminder
  <1>7. /\ call' \in [Calls -> AllCalls] /\ call'[c] = next
        /\ \A d \in Calls \ {c} : call'[d] = call[d]
    BY <1>5, <1>6, GoesOnlyThere DEF IInv
  <1>8. TypeOK'
    BY <1>6, <1>7 DEF IInv, TypeOK, AllCalls, rows, people
  <1>9. FollowedUp'
    <2> SUFFICES ASSUME NEW j \in DOMAIN invitation \ neglected
                 PROVE  Tended(j)'
      BY <1>6 DEF FollowedUp, Tended, rows
    <2>1. <<j, invitation'[j].token>> \in mailed'
             \/ \E d \in Calls : WillMail(d, j, invitation[j].token)'
      BY <1>1, <1>6, <1>7, LinkStays
    <2>2. ASSUME NEW k \in 1 .. Reminders
          PROVE  <<j, k>> \in reminders' \/ \E d \in Calls : WillRemind(d, j, k)'
      <3>1. <<j, k>> \in reminders \/ \E d \in Calls : WillRemind(d, j, k)
        BY DEF IInv, FollowedUp
      <3>2. CASE <<j, k>> \in reminders /\ <<j, k>> # <<i, n>>
        BY <1>6, <3>2
      <3>3. CASE <<j, k>> = <<i, n>>
        <4>1. WillRemind(c, j, k)'
          BY <1>5, <1>7, <3>3 DEF WillRemind, FollowUp
        <4> QED
          BY <4>1
      <3>4. ASSUME NEW d \in Calls, WillRemind(d, j, k)
            PROVE  WillRemind(d, j, k)'
        BY <1>2, <1>3, <1>5, <1>7, <3>4 DEF WillRemind, FollowUp
      <3> QED
        BY <3>1, <3>2, <3>3, <3>4
    <2> QED
      BY <2>1, <2>2 DEF Tended
  <1>10. CallsInv' /\ OwnersInv' /\ AdmittedInv' /\ UsedOnce' /\ EnteredInTime'
    BY <1>1, <1>2, <1>5, <1>6, <1>8, FollowMove
  <1> QED
    BY <1>8, <1>9, <1>10 DEF IInv

LEMMA AddStep ==
    ASSUME IInv, NEW c \in Calls, AddReminder(c)
    PROVE  IInv'
  <1>1. call[c].at = "add" /\ call[c].at \in FollowUp
    BY DEF AddReminder, FollowUp
  <1>2. PICK i, t : i \in DOMAIN invitation /\ i = call[c].invitation /\ t = call[c].token
    BY <1>1 DEF IInv, CallsInv, GoodCall
  <1>3. PICK n \in 1 .. Reminders : n = call[c].nth
    BY <1>1, CallTyped, CallKinds DEF IInv
  <1>4. PICK next : next = IF n < Reminders
                           THEN Following("remove", i, t, n + 1, call[c].again) ELSE Idle
    OBVIOUS
  <1>5. /\ next \in AllCalls /\ GoodCall(next)
        /\ n < Reminders => /\ next.at = "remove" /\ next.nth = n + 1
                            /\ next.invitation = i /\ next.token = t
        /\ ~(n < Reminders) => next = Idle
    <2>1. CASE n < Reminders
      <3>1. "remove" \in FollowUp /\ n + 1 \in 1 .. Reminders
        BY <2>1, JobNumbers DEF FollowUp
      <3> QED
        BY <1>1, <1>2, <1>4, <2>1, <3>1, NextFollowing
    <2>2. CASE ~(n < Reminders)
      BY <1>4, <2>2, IdleGood
    <2> QED
      BY <2>1, <2>2
  <1>6. /\ Goes(c, next) /\ reminders' = reminders \union {<<i, n>>}
        /\ UNCHANGED <<now, rows, mailed, neglected, people>>
    BY <1>2, <1>3, <1>4 DEF AddReminder
  <1>7. /\ call' \in [Calls -> AllCalls] /\ call'[c] = next
        /\ \A d \in Calls \ {c} : call'[d] = call[d]
    BY <1>5, <1>6, GoesOnlyThere DEF IInv
  <1>8. TypeOK'
    BY <1>2, <1>6, <1>7 DEF IInv, TypeOK, AllCalls, rows, people
  <1>9. FollowedUp'
    <2> SUFFICES ASSUME NEW j \in DOMAIN invitation \ neglected
                 PROVE  Tended(j)'
      BY <1>6 DEF FollowedUp, Tended, rows
    <2>1. <<j, invitation'[j].token>> \in mailed'
             \/ \E d \in Calls : WillMail(d, j, invitation[j].token)'
      BY <1>1, <1>6, <1>7, LinkStays
    <2>2. ASSUME NEW k \in 1 .. Reminders
          PROVE  <<j, k>> \in reminders' \/ \E d \in Calls : WillRemind(d, j, k)'
      <3>1. <<j, k>> \in reminders \/ \E d \in Calls : WillRemind(d, j, k)
        BY DEF IInv, FollowedUp
      <3>2. CASE <<j, k>> \in reminders \/ <<j, k>> = <<i, n>>
        BY <1>6, <3>2
      <3>3. ASSUME NEW d \in Calls, WillRemind(d, j, k), <<j, k>> # <<i, n>>
            PROVE  WillRemind(d, j, k)'
        <4>1. CASE d # c
          BY <1>7, <3>3, <4>1 DEF WillRemind
        <4>2. CASE d = c
          <5>1. j = i /\ n <= k /\ k # n
            BY <1>2, <1>3, <3>3, <4>2 DEF WillRemind
          <5>2. n < Reminders /\ n + 1 <= k
            BY <5>1, JobNumbers
          <5> QED
            BY <1>5, <1>7, <4>2, <5>1, <5>2 DEF WillRemind, FollowUp
        <4> QED
          BY <4>1, <4>2
      <3> QED
        BY <3>1, <3>2, <3>3
    <2> QED
      BY <2>1, <2>2 DEF Tended
  <1>10. CallsInv' /\ OwnersInv' /\ AdmittedInv' /\ UsedOnce' /\ EnteredInTime'
    <2>1. next.at \in FollowUp => next.invitation = i /\ next.token = t
      BY <1>5 DEF Idle, FollowUp
    <2> QED
      BY <1>1, <1>2, <1>5, <1>6, <1>8, <2>1, FollowMove
  <1> QED
    BY <1>8, <1>9, <1>10 DEF IInv

\* Where a failed call goes on is sound, and writes nothing any more.
LEMMA AfterFailureGood ==
    ASSUME IInv, NEW c \in Calls, call[c] # Idle
    PROVE  /\ AfterFailure(call[c]) \in AllCalls
           /\ GoodCall(AfterFailure(call[c]))
           /\ AfterFailure(call[c]).at \notin FollowUp
  <1>1. PICK m \in AllCalls : m = call[c] /\ GoodCall(m)
    BY CallTyped DEF IInv, CallsInv
  <1>2. ASSUME NEW n \in Makings \union {Idle},
               n # Idle => n.at = "checkMember" /\ Earlier(n)
        PROVE  n \in AllCalls /\ GoodCall(n) /\ n.at \notin FollowUp
    BY <1>2, IdleGood DEF GoodCall, AllCalls, Checking, FollowUp, Writing, Idle
  <1>3. CASE m.at \in FollowUp
    <2>1. AfterFailure(m) = m.again
      BY <1>3 DEF AfterFailure, FollowUp
    <2>2. m.again \in Makings \union {Idle}
      BY <1>3, CallKinds
    <2>3. m.again # Idle => m.again.at = "checkMember" /\ Earlier(m.again)
      BY <1>1, <1>3 DEF GoodCall
    <2> QED
      BY <1>1, <1>2, <2>1, <2>2, <2>3
  <1>4. CASE m.at \in Writing
    <2>1. AfterFailure(m) = Idle
      BY <1>4 DEF AfterFailure, FollowUp, Writing
    <2> QED
      BY <1>1, <1>2, <2>1
  <1>5. CASE m.at \in Checking
    <2>1. PICK n : n = Again(m, m.invitation, m.token)
      OBVIOUS
    <2>2. AfterFailure(m) = n
      BY <1>5, <2>1 DEF AfterFailure, Checking, FollowUp
    <2>3. m \in Makings /\ m.invitation \in Nat /\ m.token \in Nat
      BY <1>5, CallKinds
    <2>4. /\ n \in Makings \union {Idle}
          /\ n # Idle =>
                /\ n.at = "checkMember" /\ n.via = "import" /\ n.email = m.email
                /\ n.invitation = m.invitation /\ n.token = m.token
      BY <2>1, <2>3, AgainBuilt
    <2>5. n # Idle => Earlier(n)
      BY <1>1, <1>5, <2>4 DEF GoodCall, Earlier
    <2> QED
      BY <1>1, <1>2, <2>2, <2>4, <2>5
  <1> QED
    BY <1>1, <1>3, <1>4, <1>5, CallKinds

LEMMA FailStep ==
    ASSUME IInv, NEW c \in Calls, CallFails(c)
    PROVE  IInv'
  <1>1. PICK next \in AllCalls :
           next = AfterFailure(call[c]) /\ GoodCall(next) /\ next.at \notin FollowUp
    BY AfterFailureGood DEF CallFails
  <1>2. /\ Goes(c, next) /\ neglected' = neglected \union Undone(call[c])
        /\ UNCHANGED <<now, rows, mailed, reminders, people>>
    BY <1>1 DEF CallFails
  <1>3. CASE call[c].at \notin FollowUp
    <2>1. UNCHANGED followUps
      BY <1>2, <1>3 DEF Undone, followUps
    <2> QED
      BY <1>1, <1>2, <1>3, <2>1, QuietMove
  <1>4. CASE call[c].at \in FollowUp
    <2>1. PICK i \in DOMAIN invitation : i = call[c].invitation
      BY <1>4 DEF IInv, CallsInv, GoodCall
    <2>2. neglected' = neglected \union {i}
      BY <1>2, <1>4, <2>1 DEF Undone
    <2>3. /\ call' \in [Calls -> AllCalls] /\ call'[c] = next
          /\ \A d \in Calls \ {c} : call'[d] = call[d]
      BY <1>1, <1>2, GoesOnlyThere DEF IInv
    <2>4. TypeOK'
      BY <1>2, <2>2, <2>3 DEF IInv, TypeOK, AllCalls, rows, people
    <2>5. FollowedUp'
      <3> SUFFICES ASSUME NEW j \in DOMAIN invitation \ neglected, j # i
                   PROVE  Tended(j)'
        BY <1>2, <2>2 DEF FollowedUp, Tended, rows
      <3>1. <<j, invitation'[j].token>> \in mailed'
               \/ \E d \in Calls : WillMail(d, j, invitation[j].token)'
        BY <1>2, <2>1, <2>3, LinkStays
      <3>2. ASSUME NEW k \in 1 .. Reminders
            PROVE  <<j, k>> \in reminders' \/ \E d \in Calls : WillRemind(d, j, k)'
        <4>1. <<j, k>> \in reminders \/ \E d \in Calls : WillRemind(d, j, k)
          BY DEF IInv, FollowedUp
        <4>2. ASSUME NEW d \in Calls, WillRemind(d, j, k)
              PROVE  WillRemind(d, j, k)'
          BY <2>1, <2>3, <4>2 DEF WillRemind
        <4> QED
          BY <1>2, <4>1, <4>2
      <3> QED
        BY <3>1, <3>2 DEF Tended
    <2>6. CallsInv' /\ OwnersInv' /\ AdmittedInv' /\ UsedOnce' /\ EnteredInTime'
      BY <1>1, <1>2, <1>4, <2>4, FollowMove
    <2> QED
      BY <2>4, <2>5, <2>6 DEF IInv
  <1> QED
    BY <1>3, <1>4

-----------------------------------------------------------------------------
(* The steps outside the calls, and the invariant.                         *)

LEMMA JoinStep ==
    ASSUME IInv, NEW e \in Emails, JoinElsewhere(e)
    PROVE  IInv'
  <1>1. TypeOK'
    BY DEF IInv, TypeOK, JoinElsewhere, rows, followUps
  <1>2. UNCHANGED <<now, invitation, issued, mailed, reminders, accounts, neglected, call>>
    BY DEF JoinElsewhere, rows, followUps
  <1> QED
    BY <1>1, <1>2 DEF IInv, CallsInv, GoodCall, Earlier, Active, OwnersInv, Known,
       AdmittedInv, UsedOnce, EnteredInTime, FollowedUp, WillMail, WillRemind

LEMMA TickStep ==
    ASSUME IInv, Tick
    PROVE  IInv'
  <1>1. now \in Nat /\ issued \in Nat /\ now' = now + 1 /\ now' \in Times
    BY OnboardingBounds DEF IInv, TypeOK, Times, Tick
  <1>2. UNCHANGED <<invitation, issued, mailed, reminders, accounts, elsewhere,
                    neglected, call>>
    BY DEF Tick, rows, followUps, people
  <1>3. TypeOK'
    BY <1>1, <1>2 DEF IInv, TypeOK
  <1>4. Later
    <2>1. \A i \in DOMAIN invitation : invitation[i].expires \in Nat
      BY RowKind DEF IInv
    <2> QED
      BY <1>1, <1>2, <2>1 DEF Later, Active
  <1>5. CallsInv'
    BY <1>2, <1>3, <1>4, StaysGood DEF CallsInv
  <1>6. AdmittedInv' /\ UsedOnce' /\ EnteredInTime'
    BY <1>2, <1>3, <1>4, PeopleStay
  <1>7. OwnersInv' /\ FollowedUp'
    BY <1>2 DEF IInv, OwnersInv, Known, FollowedUp, WillMail, WillRemind
  <1> QED
    BY <1>3, <1>5, <1>6, <1>7 DEF IInv

LEMMA InitInv == Init => IInv
  <1> SUFFICES ASSUME Init PROVE IInv
    OBVIOUS
  <1>1. TypeOK
    BY OnboardingBounds DEF Init, TypeOK, Times
  <1>2. CallsInv
    BY IdleGood DEF Init, CallsInv
  <1>3. OwnersInv
    BY DEF Init, OwnersInv, Known, Idle, FollowUp
  <1>4. AdmittedInv /\ UsedOnce /\ EnteredInTime /\ FollowedUp
    BY DEF Init, AdmittedInv, UsedOnce, EnteredInTime, FollowedUp
  <1> QED
    BY <1>1, <1>2, <1>3, <1>4 DEF IInv

LEMMA NextInv == IInv /\ [Next]_vars => IInv'
  <1> SUFFICES ASSUME IInv, [Next]_vars PROVE IInv'
    OBVIOUS
  <1>1. ASSUME NEW c \in Calls, MakingStep(c)
        PROVE  IInv'
    BY <1>1, AskStep, CheckStep, InsertStep, QueueMailStep, RemoveStep, AddStep
       DEF MakingStep
  <1>2. ASSUME NEW c \in Calls, CallStep(c)
        PROVE  IInv'
    BY <1>1, <1>2, ReadStep, ResendStep, RevokeStep, RegisterStep, FailStep DEF CallStep
  <1>3. CASE UNCHANGED vars
    BY <1>3 DEF vars, IInv, TypeOK, CallsInv, GoodCall, Earlier, Active, OwnersInv, Known,
       AdmittedInv, UsedOnce, EnteredInTime, FollowedUp, WillMail, WillRemind
  <1> QED
    BY <1>2, <1>3, JoinStep, TickStep DEF Next

\* What the calls carry, the tokens, the rows and the accounts fit together in every
\* reachable state.
THEOREM Invariance == Spec => []IInv
  BY InitInv, NextInv, PTL DEF Spec

\* Every variable keeps its type, whatever the races of requests and jobs.
THEOREM TypeCorrect == Spec => []TypeOK
  <1>1. IInv => TypeOK
    BY DEF IInv
  <1> QED
    BY <1>1, Invariance, PTL

\* An invitation is used exactly when it has made an account, for its address and in
\* its role (registerFromInvitation).
THEOREM InvitationsAreUsedOnce == Spec => []UsedOnce
  <1>1. IInv => UsedOnce
    BY DEF IInv
  <1> QED
    BY <1>1, Invariance, PTL

\* Nobody has an account through an invitation that had expired, whatever resends and
\* revocations overtook the registration (registerFromInvitation, resend, revoke).
THEOREM EntryIsInTime == Spec => []EnteredInTime
  <1>1. IInv => EnteredInTime
    BY DEF IInv
  <1> QED
    BY <1>1, Invariance, PTL

\* Unless a call fails, the working link of an invitation is mailed and its reminders
\* are set, or about to be (createInvitation, scheduleReminders, resend).
THEOREM NobodyIsForgotten == Spec => []FollowedUp
  <1>1. IInv => FollowedUp
    BY DEF IInv
  <1> QED
    BY <1>1, Invariance, PTL

\* A job that starts over never doubles a pending invitation of its own
\* (handleBulkImport).
THEOREM RetriesInviteOnce == Spec => RetryInvitesOnce
  <1> DEFINE Once ==
        \A c \in Calls :
           call[c].at = "insert" /\ call[c].invitation # 0 /\ call'[c].at = "mail"
               => LET i == call[c].invitation
                  IN  ~(Active(i) /\ invitation[i].token = call[c].token)
  <1>1. IInv => Once
    BY DEF IInv, CallsInv, GoodCall
  <1>2. IInv /\ [Next]_vars => [Once]_vars
    BY <1>1
  <1> HIDE DEF Once
  <1>3. Spec => [][Once]_vars
    BY <1>2, Invariance, PTL DEF Spec
  <1> QED
    BY <1>3 DEF Once, RetryInvitesOnce

-----------------------------------------------------------------------------
(* Onboarding implements Admission.                                        *)

\* The offers, and the members, that the rows and the accounts stand for.
OffersOf(inv) ==
    [i \in DOMAIN inv |-> [email |-> inv[i].email, role |-> inv[i].role]]
MembersOf(acc) ==
    {[email |-> a.email, role |-> a.role, offer |-> a.from] : a \in acc}

LEMMA InitRefines == Init => Admitted!Init
  <1> SUFFICES ASSUME Init PROVE Admitted!Init
    OBVIOUS
  <1>1. OffersOf(invitation) = <<>>
    BY DEF Init, OffersOf
  <1>2. MembersOf(accounts) = {}
    BY DEF Init, MembersOf
  <1> QED
    BY <1>1, <1>2 DEF Init, Admitted!Init, OffersOf, MembersOf

\* Rows that keep their addressees stand for the same offers.
LEMMA SameOffers ==
    ASSUME DOMAIN invitation' = DOMAIN invitation,
           \A i \in DOMAIN invitation :
              invitation'[i].email = invitation[i].email
              /\ invitation'[i].role = invitation[i].role
    PROVE  OffersOf(invitation') = OffersOf(invitation)
  BY DEF OffersOf

\* An inserted row is a new offer.
LEMMA InsertRefines ==
    ASSUME IInv, NEW c \in Calls, Insert(c)
    PROVE  Admitted!Next
  <1>1. PICK m \in AllCalls : m = call[c]
    BY CallTyped DEF IInv
  <1>2. m.at \in Checking
    BY <1>1 DEF Insert, Checking
  <1>3. m.email \in Emails /\ m.role \in Roles
    BY <1>2, CallKinds
  <1>4. PICK row : row = Invitation(m.email, m.role, issued + 1, now + InvitationLife, FALSE)
    OBVIOUS
  <1>5. row.email = m.email /\ row.role = m.role
    BY <1>4 DEF Invitation
  <1>6. invitation \in Seq(Invitations) /\ invitation' = Append(invitation, row)
        /\ UNCHANGED <<mailed, accounts>>
    BY <1>1, <1>4 DEF Insert, IInv, TypeOK, followUps, people
  <1>7. OffersOf(invitation') =
           Append(OffersOf(invitation), [email |-> m.email, role |-> m.role])
    BY <1>5, <1>6 DEF OffersOf
  <1>8. Admitted!Offer(m.email, m.role)
    BY <1>6, <1>7 DEF Admitted!Offer, OffersOf
  <1> QED
    BY <1>3, <1>8 DEF Admitted!Next

\* A mailed token is a link that nobody has had, unless it is mailed again.
LEMMA QueueMailRefines ==
    ASSUME IInv, NEW c \in Calls, QueueMail(c)
    PROVE  Admitted!Next \/ UNCHANGED Admitted!vars
  <1>1. call[c].at \in FollowUp
    BY DEF QueueMail, FollowUp
  <1>2. PICK i, t : i \in DOMAIN invitation /\ i = call[c].invitation /\ t = call[c].token
    BY <1>1 DEF IInv, CallsInv, GoodCall
  <1>3. mailed' = mailed \union {<<i, t>>} /\ UNCHANGED <<invitation, accounts>>
    BY <1>2 DEF QueueMail, rows, people
  <1>4. Known(i, t)
    BY <1>1, <1>2 DEF Known
  <1>5. CASE <<i, t>> \in mailed
    BY <1>3, <1>5 DEF Admitted!vars
  <1>6. CASE <<i, t>> \notin mailed
    <2>1. t \in 1 .. MaxTokens
      BY <1>4, OnboardingBounds DEF IInv, OwnersInv, TypeOK
    <2>2. \A l \in mailed : l[2] # t
      <3> SUFFICES ASSUME NEW l \in mailed, l[2] = t
                   PROVE  FALSE
        OBVIOUS
      <3>1. l = <<l[1], l[2]>>
        BY DEF IInv, TypeOK
      <3>2. Known(l[1], t)
        BY <3>1 DEF Known
      <3> QED
        BY <1>4, <1>6, <3>1, <3>2 DEF IInv, OwnersInv
    <2>3. Admitted!Link(i, t)
      BY <1>3, <2>2 DEF Admitted!Link
    <2>4. i \in DOMAIN OffersOf(invitation)
      BY <1>2 DEF OffersOf
    <2> QED
      BY <2>1, <2>3, <2>4 DEF Admitted!Next, OffersOf
  <1> QED
    BY <1>5, <1>6

\* A registration that goes through lets somebody join by a link of the invitation.
LEMMA RegisterRefines ==
    ASSUME IInv, NEW c \in Calls, RegisterWrite(c)
    PROVE  Admitted!Next \/ UNCHANGED Admitted!vars
  <1>1. call[c].at = "register" /\ call[c].at \in Writing
    BY DEF RegisterWrite, Writing
  <1>2. PICK i \in DOMAIN invitation : i = call[c].invitation
    BY <1>1 DEF IInv, CallsInv, GoodCall
  <1>3. UNCHANGED mailed
    BY DEF RegisterWrite, followUps
  <1>4. CASE ~NewEmail(invitation[i].email)
    <2>1. UNCHANGED <<invitation, accounts>>
      BY <1>2, <1>4 DEF RegisterWrite
    <2> QED
      BY <1>3, <2>1 DEF Admitted!vars
  <1>5. CASE NewEmail(invitation[i].email)
    <2>1. PICK a : a = Account(invitation[i].email, invitation[i].role, i, call[c].since)
      OBVIOUS
    <2>2. a.email = invitation[i].email /\ a.role = invitation[i].role /\ a.from = i
      BY <2>1 DEF Account
    <2>3. accounts' = accounts \union {a} /\ invitation' = Used(i)
      BY <1>2, <1>5, <2>1 DEF RegisterWrite, NewAccount
    <2>4. OffersOf(invitation') = OffersOf(invitation)
      <3>1. TypeOK
        BY DEF IInv
      <3>2. Uses(invitation', i)
        BY <2>3, <3>1, Using
      <3>3. /\ DOMAIN invitation' = DOMAIN invitation
            /\ \A j \in DOMAIN invitation :
                  invitation'[j].email = invitation[j].email
                  /\ invitation'[j].role = invitation[j].role
        BY <3>2 DEF Uses
      <3> QED
        BY <3>3, SameOffers
    <2>5. i \in DOMAIN OffersOf(invitation)
          /\ OffersOf(invitation)[i].email = invitation[i].email
          /\ OffersOf(invitation)[i].role = invitation[i].role
      BY DEF OffersOf
    <2>6. MembersOf(accounts') =
             MembersOf(accounts) \union
                {[email |-> invitation[i].email, role |-> invitation[i].role, offer |-> i]}
      BY <2>2, <2>3 DEF MembersOf
    <2>7. \E l \in mailed : l[1] = i
      BY <1>1, <1>2 DEF IInv, CallsInv, GoodCall
    <2>8. \A m \in MembersOf(accounts) : m.email # invitation[i].email
      BY <1>5 DEF NewEmail, MembersOf
    <2>9. Admitted!Join(i)
      BY <1>3, <2>4, <2>5, <2>6, <2>7, <2>8 DEF Admitted!Join, OffersOf, MembersOf
    <2> QED
      BY <2>5, <2>9 DEF Admitted!Next, OffersOf
  <1> QED
    BY <1>4, <1>5

\* A new token or expiry changes no offer.
LEMMA RenewRefines ==
    ASSUME IInv, NEW c \in Calls, ResendWrite(c) \/ RevokeWrite(c)
    PROVE  UNCHANGED Admitted!vars
  <1>1. call[c].at \in Writing /\ UNCHANGED <<mailed, accounts>>
    BY DEF ResendWrite, RevokeWrite, Writing, followUps, people
  <1>2. PICK i \in DOMAIN invitation : i = call[c].invitation
    BY <1>1 DEF IInv, CallsInv, GoodCall
  <1>3. PICK t \in Nat \ {0}, x \in Nat : invitation' = Renewed(i, t, x)
    <2>1. now \in Nat /\ issued + 1 \in Nat \ {0} /\ invitation[i].token \in Nat \ {0}
          /\ \A life \in ResentLives : now + life \in Nat
      BY OnboardingBounds, LivesAssumption, RowKind DEF IInv, TypeOK, Times
    <2>2. CASE ResendWrite(c)
      <3>1. PICK life \in ResentLives : invitation' = Renewed(i, issued + 1, now + life)
        BY <1>2, <2>2 DEF ResendWrite
      <3> QED
        BY <2>1, <3>1
    <2>3. CASE RevokeWrite(c)
      <3>1. invitation' = Renewed(i, invitation[i].token, now)
        BY <1>2, <2>3 DEF RevokeWrite
      <3> QED
        BY <2>1, <3>1
    <2> QED
      BY <2>2, <2>3
  <1>4. OffersOf(invitation') = OffersOf(invitation)
    <2>1. TypeOK
      BY DEF IInv
    <2>2. Renews(invitation', i, t, x)
      BY <1>3, <2>1, Renewing
    <2>3. /\ DOMAIN invitation' = DOMAIN invitation
          /\ \A j \in DOMAIN invitation :
                invitation'[j].email = invitation[j].email
                /\ invitation'[j].role = invitation[j].role
      BY <2>2 DEF Renews
    <2> QED
      BY <2>3, SameOffers
  <1> QED
    BY <1>1, <1>4 DEF Admitted!vars, OffersOf

\* Whatever requests and jobs do, people are admitted as Admission says: through a
\* mailed link of an offer to them, in its role, and once.
THEOREM Refinement == Spec => ImplementsAdmission
  <1>1. IInv /\ [Next]_vars => [Admitted!Next]_(Admitted!vars)
    <2> SUFFICES ASSUME IInv, [Next]_vars
                 PROVE  Admitted!Next \/ UNCHANGED Admitted!vars
      OBVIOUS
    <2>1. CASE UNCHANGED <<invitation, mailed, accounts>>
      BY <2>1 DEF Admitted!vars
    <2>2. ASSUME NEW c \in Calls, CallStep(c), ~UNCHANGED <<invitation, mailed, accounts>>
          PROVE  Admitted!Next \/ UNCHANGED Admitted!vars
      <3>1. Insert(c) \/ QueueMail(c) \/ ResendWrite(c) \/ RevokeWrite(c) \/ RegisterWrite(c)
        BY <2>2 DEF CallStep, MakingStep, Ask, CheckMember, CheckPending, CheckConflict,
           RemoveReminder, AddReminder, ResendRead, RevokeRead, RegisterRead, CallFails,
           rows, followUps, people
      <3> QED
        BY <3>1, InsertRefines, QueueMailRefines, RenewRefines, RegisterRefines
    <2> QED
      BY <2>1, <2>2 DEF Next, vars, JoinElsewhere, Tick, rows, followUps, people
  <1> QED
    BY <1>1, InitRefines, Invariance, PTL DEF Spec, ImplementsAdmission, Admitted!Spec
=============================================================================
