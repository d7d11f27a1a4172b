\* One offer and one execution; nothing fails.
SPECIFICATION Spec
CONSTANTS
  Runs = {1}
  Executions = {e1}
  NoExecution = NoExecution
  MaxLag = 0
  MaxShareFaults = 0
  MaxStops = 0
INVARIANTS
  StartErrorMeansNoRunner
CHECK_DEADLOCK FALSE
