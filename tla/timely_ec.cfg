SPECIFICATION FairECSpec
CONSTANTS
  c1 = c1
  c2 = c2
  Clients = {c1}
  Counts = {0, 1, 3, 4, 5, 16, 17}
  MAX_CHECK_COUNT = 2
  Faults = {}
INVARIANT TimelyNeverFails
INVARIANT SuccessMeansTold
PROPERTY MailboxSettles
