\* Two mentors, one scholar (perhaps named twice in a request), two requests in
\* flight, up to three rows: every race of create, reassign and endAssignment.
SPECIFICATION Spec
CONSTANTS
  Mentors = {m1, m2}
  Scholars = {s1}
  Calls = {c1, c2}
  MaxBatch = 2
  MaxPairings = 3
INVARIANTS
  TypeOK
  ReplacedHasEnded
PROPERTIES
  OnlyEndUncovers
  HistoryIsKept
