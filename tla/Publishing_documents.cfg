\* One scholar, two courses, two change requests and two requests in flight:
\* every race of update, publish, change requests and reviews.
SPECIFICATION Spec
CONSTANTS
  Scholars = {s1}
  Joiners = {}
  Courses = {k1, k2}
  Contents = {x, y}
  Requests = {r1}
  ReminderTypes = {}
  Windows = {1}
  Calls = {c1, c2}
  Attempts = 2
  MaxTime = 2
  MaxCrashes = 1
INVARIANT AdmittedBeforeLock
PROPERTY ApprovedIsApplied
