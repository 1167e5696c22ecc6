\* One scholar, a submission racing a verdict: late work verified as on time.
SPECIFICATION Spec
CONSTANTS
  Scholars = {s1}
  Verifiers = {m}
  Nobody = Nobody
  Calls = {c1, c2}
  Penalties = {20}
  MaxTime = 1
  Attempts = 2
  MaxFaults = 0
INVARIANT VerdictMatchesLateness
