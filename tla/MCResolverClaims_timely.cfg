SPECIFICATION MCSpec
CONSTANTS
  h3 = h3
  r1 = r1
  Hash = {h1, h2, h3}
  Resolver = {r1, r2}
  Workers = 1
  Imported = {"announce", "upload"}
  Lease = 2
  FirstDelay = 1
  MaxDelay = 1
  MaxAttempts = 2
  MaxFaults = 1
INVARIANTS TypeOK ExclusiveClaim FilesStoredOnce
PROPERTIES ClaimUsesItsSlots WaitingIsClaimed 
CHECK_DEADLOCK FALSE
