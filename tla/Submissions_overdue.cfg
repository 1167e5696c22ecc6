\* Two scholars, one request in flight beside the overdue check: the check's
\* batch, its retries and its liveness.
SPECIFICATION FairSpec
CONSTANTS
  Scholars = {s1, s2}
  Verifiers = {m}
  Nobody = Nobody
  Calls = {c1}
  Penalties = {20}
  MaxTime = 1
  Attempts = 2
  MaxFaults = 2
INVARIANTS
  WarnedRowsAreClosed
  WarnedAtMostOnce
PROPERTY PastDueIsMarked
