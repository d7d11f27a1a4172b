\* Two Runners at a time and four envelopes: two provision a generation, one uses it, one has none.
SPECIFICATION LocalSpec
CONSTANTS
  Runners = {r1, r2}
  Runs = {1, 2, 3, 4}
  g1 = g1
  g2 = g2
  key = key
  Generations = {g1, g2}
  Legacy = Legacy
  AccountOf <- MCAccountOf
  Payload <- MCPayload
  ScopedAccounts = {}
  Keys = {key}
  BindingEAB = BindingEAB
  Expiry <- MCExpiry
  Validity = 2
  Skew = 1
  MaxRunTime <- MCMaxRunTime
  StaleAfter <- MCStaleAfter
  None = None
  MaxBegins = 2
  MaxTime = 3
  MaxFaults = 1
  MaxStops = 1
INVARIANTS
  WorkedOnce
  RegisteredIsPublished
  RegisteredForItself
  WorkDirOwned
  RunDirOwned
PROPERTIES
  GenerationNeverLost
CONSTRAINTS
  WithProvisioning
  OneFailureBeside
SYMMETRY RunnerSymmetry
CHECK_DEADLOCK FALSE
