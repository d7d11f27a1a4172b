\* Two handlers and two targets under at most two policies, edited, retired and executed at once.
SPECIFICATION Spec
CONSTANTS
  Policies = {p1, p2}
  Targets = {t1, t2}
  Handlers = {h1, h2}
  PolicyInputs <- MCPolicyInputs
  TargetInputs <- MCTargetInputs
  Bindings <- MCBindings
  Trusted <- MCTrusted
  NoRow = NoRow
  MaxNames = 2
  MaxRevision = 2
  MaxVersion = 1
  MaxFQDNLength = 8
  MaxLabelLength = 2
INVARIANTS
  CoveredUnlessRaced
  JobWithinPolicy
  NamesExclusive
PROPERTIES
  EditOnRowRead
  RetiredIsFinal
CONSTRAINT OneThingMore
SYMMETRY AdminSymmetry
CHECK_DEADLOCK FALSE
