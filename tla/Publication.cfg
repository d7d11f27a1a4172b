\* Three writers and a reader of one directory; operations fail, processes are
\* killed and power is lost, anywhere.
SPECIFICATION Spec
CONSTANTS
  Writers = {w1, w2, w3}
  Readers = {r1, r2}
  None = None
  Unread = Unread
  Corrupt = Corrupt
  MaxFaults = 2
  MaxStops = 2
INVARIANTS
  LinkNeverDangles
  ReportedStays
PROPERTIES
  ImplementsPublished
SYMMETRY WriterSymmetry
\* Every writer may have returned.
CHECK_DEADLOCK FALSE
