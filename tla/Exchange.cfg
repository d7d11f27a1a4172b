\* One offer, two executions, a failing operation on the share, a kill; the platform
\* may never come to know the execution.
SPECIFICATION FairSpec
CONSTANTS
  Runs = {1}
  Executions = {e1, e2}
  NoExecution = NoExecution
  MaxLag = 5
  MaxShareFaults = 1
  MaxStops = 1
INVARIANTS
  TypeOK
  TakenIsReadable
  NeverDisappears
  NoOrphanedOffer
  ResultDelivered
PROPERTIES
  ImplementsJobOffer
  EveryStartReturns
\* Every run may be over and every execution ended.
CHECK_DEADLOCK FALSE
