\* Two scholars of one course, one of whom may join late, two requests in
\* flight and no crash: the rows and reminders that publishing leaves behind.
SPECIFICATION FairSpec
CONSTANTS
  Scholars = {s1, s2}
  Joiners = {s2}
  Courses = {k1}
  Contents = {x}
  Requests = {}
  ReminderTypes = {h24}
  Windows = {1}
  Calls = {c1, c2}
  Attempts = 2
  MaxTime = 0
  MaxCrashes = 0
INVARIANTS
  TypeOK
  MembersHaveRows
  RemindersFollowRows
PROPERTIES
  RowsNeverRestart
  UntouchedRowIsReminded
