SPECIFICATION Spec
CONSTANTS
  alice = alice  w1 = w1  w2 = w2  i1 = i1  i2 = i2
  None = None
  PayMode = "write"
  Names = {}
  Pubkeys = {alice}
  Workers = {w1, w2}
  Invoices = {i1}
  DbFaults = TRUE
  Events <- Wraps
  Authors = {}
  RequireAuth = FALSE
  CacheSecs = 2
  FailSecs = 1
  LookupSecs = 1
SYMMETRY AccessSymmetry
INVARIANTS PublishersHavePaid AcceptedOnFreshVerdict PaidIsHonoured
