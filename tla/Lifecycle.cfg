\* Two targets, two runs and one executor; a registry call fails and the
\* process stops, anywhere.
SPECIFICATION Spec
CONSTANTS
  Targets = {t1, t2}
  Policies = {p1}
  Bindings = {b1}
  ProvisioningBindings = {}
  TargetScopedBindings = {}
  NoScope = NoScope
  MaxRuns = 2
  MaxGeneration = 0
  MaxRevision = 1
  MaxConcurrentRuns = 1
  LauncherReaps = FALSE
  MaxFaults = 1
  MaxStops = 1
INVARIANTS
  TypeOK
  OneActiveRun
  ExecutorOwnsRun
  AuditExact
PROPERTIES
  OutcomeIsFinal
  ImplementsRunLifecycle
SYMMETRY TargetSymmetry
CONSTRAINT PoliciesStay
