\* One address, the two roles that exclude each other, two invitations of it, two
\* requests or jobs in flight: every race of invite, import, resend, revoke and
\* register.
SPECIFICATION Spec
CONSTANTS
  Emails = {e1}
  Scholar = SCHOLAR
  Mentor = MENTOR
  Roles = {SCHOLAR, MENTOR}
  Calls = {c1, c2}
  InvitationLife = 1
  ResentLives = {1}
  Attempts = 2
  Reminders = 1
  MaxTime = 1
  MaxInvitations = 2
  MaxTokens = 3
INVARIANTS
  TypeOK
  UsedOnce
  EnteredInTime
  FollowedUp
PROPERTIES
  RetryInvitesOnce
  ImplementsAdmission
SYMMETRY Symmetry
CHECK_DEADLOCK FALSE
