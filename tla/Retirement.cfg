\* A target with an account of its own is disabled, retired, and may have been
\* executing when the process stopped.
SPECIFICATION Spec
CONSTANTS
  Targets = {t1}
  Policies = {p1}
  Bindings = {b1}
  ProvisioningBindings = {b1}
  TargetScopedBindings = {b1}
  NoScope = NoScope
  MaxRuns = 1
  MaxGeneration = 1
  MaxRevision = 3
  MaxConcurrentRuns = 1
  LauncherReaps = FALSE
  MaxFaults = 0
  MaxStops = 1
INVARIANTS
  RetiredIsQuiet
