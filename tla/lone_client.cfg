SPECIFICATION FairSpec
CONSTANTS
  c1 = c1
  c2 = c2
  Clients = {c1}
  Counts = {0, 1, 3, 4, 16, 17, 255}
  MAX_CHECK_COUNT = 2
  Faults = {"ec", "read", "exit"}
INVARIANT PagesInOrder
INVARIANT RequestsMatch
INVARIANT FreshStart
INVARIANT CountIsRecorded
INVARIANT PageInWindow
PROPERTY TransferImplemented
PROPERTY CallReturns
