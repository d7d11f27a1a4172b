\* One run, three failing registry calls, a stop.
SPECIFICATION FairSpec
CONSTANTS
  Targets = {t1}
  Policies = {p1}
  Bindings = {b1}
  ProvisioningBindings = {}
  TargetScopedBindings = {}
  NoScope = NoScope
  MaxRuns = 1
  MaxGeneration = 0
  MaxRevision = 1
  MaxConcurrentRuns = 1
  LauncherReaps = FALSE
  MaxFaults = 3
  MaxStops = 1
INVARIANTS
  RereadConverges
PROPERTIES
  EveryRunEnds
