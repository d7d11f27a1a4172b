\* Two requests at a time and a provider that rotates its keys and fails at will.
SPECIFICATION FairSpec
CONSTANTS
  Callers = {c1, c2}
  Requests <- MCRequests
  Documents <- MCDocuments
  Kids = {"k1", "k2"}
  None = None
  MinInterval = 1
  KeyCache = 2
  FetchTimeout = 1
  MaxKeys = 3
INVARIANTS
  ServedGenuine
PROPERTIES
  WithdrawnKeyGoes
  PublishedKeyKnown
  RefreshesApart
  Answered
