\* One scholar, one request, the overdue check: a submission is marked overdue.
SPECIFICATION Spec
CONSTANTS
  Scholars = {s1}
  Verifiers = {m}
  Nobody = Nobody
  Calls = {c1}
  Penalties = {20}
  MaxTime = 1
  Attempts = 2
  MaxFaults = 0
PROPERTY CheckSparesSubmitted
