SPECIFICATION MCSlowSpec
CONSTANTS
  h3 = h3
  r1 = r1
  Hash = {h1, h2, h3}
  Resolver = {r1, r2}
  Workers = 1
  Imported = {"import"}
  Lease = 2
  FirstDelay = 1
  MaxDelay = 1
  MaxAttempts = 2
  MaxFaults = 1
INVARIANT ExclusiveClaim
CHECK_DEADLOCK FALSE
