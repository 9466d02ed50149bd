SPECIFICATION Spec
CONSTANTS
  v1 = v1
  v2 = v2
  c1 = c1
  c2 = c2
  Binaries = {v1, v2}
  Clients = {c1, c2}
  Faults = {"volume"}
INVARIANT InstalledRuns
