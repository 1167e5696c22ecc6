\* One change request and two reviewers: an approved request ends as rejected.  The
\* clock and the one request are used up in the end.
SPECIFICATION Spec
CONSTANTS
  Scholars = {}
  Joiners = {}
  Courses = {k1}
  Contents = {x, y}
  Requests = {r1}
  ReminderTypes = {}
  Windows = {1}
  Calls = {c1, c2}
  Attempts = 1
  MaxTime = 1
  MaxCrashes = 0
CHECK_DEADLOCK FALSE
PROPERTY ReviewIsFinal
