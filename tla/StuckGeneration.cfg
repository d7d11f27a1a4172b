\* A process stops while its run carries a generation.
SPECIFICATION FairSpec
CONSTANTS
  Targets = {t1}
  Policies = {p1}
  Bindings = {b1}
  ProvisioningBindings = {b1}
  TargetScopedBindings = {}
  NoScope = NoScope
  MaxRuns = 1
  MaxGeneration = 1
  MaxRevision = 1
  MaxConcurrentRuns = 1
  LauncherReaps = FALSE
  MaxFaults = 0
  MaxStops = 1
PROPERTIES
  AttachmentResolved
