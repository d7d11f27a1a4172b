\* A second generation replaces the first; the process stops, also while a Runner
\* holds a payload.
SPECIFICATION Spec
CONSTANTS
  Targets = {t1}
  Policies = {p1}
  Bindings = {b1}
  ProvisioningBindings = {b1}
  TargetScopedBindings = {}
  NoScope = NoScope
  MaxRuns = 2
  MaxGeneration = 2
  MaxRevision = 1
  MaxConcurrentRuns = 1
  LauncherReaps = FALSE
  MaxFaults = 0
  MaxStops = 1
INVARIANTS
  ActiveIsRegistered
  PayloadSpentOnce
PROPERTIES
  ActiveNeverLost
CONSTRAINTS
  PoliciesStay
  TargetsStay
  NotCancelled
  RunnersCarry
