CONSTANTS
  s1 = s1 s2 = s2 s3 = s3
  Session = {s1, s2}
  Ttl = 2
  ExtendTtls = {1, 3}
  MaxAttempts = 2
  None = None
SPECIFICATION FairSpec
INVARIANTS TypeOK LeaseHolds
PROPERTIES OthersUntouched ImplementsLease LockEnds
