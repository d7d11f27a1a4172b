\* Two targets and two executors share one pending generation.
SPECIFICATION Spec
CONSTANTS
  Targets = {t1, t2}
  Policies = {p1}
  Bindings = {b1}
  ProvisioningBindings = {b1}
  TargetScopedBindings = {}
  NoScope = NoScope
  MaxRuns = 2
  MaxGeneration = 1
  MaxRevision = 1
  MaxConcurrentRuns = 2
  LauncherReaps = TRUE
  MaxFaults = 0
  MaxStops = 0
INVARIANTS
  PayloadHeld
  OneRunnerPerTarget
SYMMETRY TargetSymmetry
CONSTRAINT PoliciesStay
