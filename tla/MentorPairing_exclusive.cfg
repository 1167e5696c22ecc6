\* One scholar: two active mentors.
SPECIFICATION Spec
CONSTANTS
  Mentors = {m1, m2}
  Scholars = {s1}
  Calls = {c1, c2}
  MaxBatch = 1
  MaxPairings = 3
INVARIANT OneActiveMentor
