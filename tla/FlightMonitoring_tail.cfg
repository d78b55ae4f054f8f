SPECIFICATION FairSpec
CONSTANTS
  Flights = {f1}
  Workers = {w1}
  Clients = {c1}
  NoKey = NoKey
  Reports = {"ONTIME", "CANCELLED", "LANDED"}
  Checkpoints = {1}
  Opens = 0
  TailEnd = 1
  WindowLength = 1
  Horizon = 1
  MaxChecks = 1
  MaxObservations = 2
  MaxRevision = 2
  MaxFaults = 1
  MaxOutages = 0
PROPERTIES WindowStands ModeCatchesUp TailRunsOut
CHECK_DEADLOCK FALSE
