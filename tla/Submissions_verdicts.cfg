\* One scholar, two requests in flight beside the overdue check: every race
\* of submit, verify and the check on one row.
SPECIFICATION Spec
CONSTANTS
  Scholars = {s1}
  Verifiers = {m, s1}
  Nobody = Nobody
  Calls = {c1, c2}
  Penalties = {0, 20}
  MaxTime = 1
  Attempts = 2
  MaxFaults = 2
INVARIANTS
  TypeOK
  VerdictPriced
  LateVerdictWasSubmitted
PROPERTY ImplementsGradebook
