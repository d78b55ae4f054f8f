SPECIFICATION Spec
CONSTANTS
  Flights = {f1, f2}
  Workers = {w1}
  Clients = {c1}
  NoKey = NoKey
  Reports = {"ONTIME", "CANCELLED"}
  Checkpoints = {1}
  Opens = 0
  TailEnd = 1
  WindowLength = 1
  Horizon = 0
  MaxChecks = 1
  MaxObservations = 3
  MaxRevision = 3
  MaxFaults = 0
  MaxOutages = 1
INVARIANTS WorkIsAuthorised DecisionsFollowBinding CancellationToldOnce
CHECK_DEADLOCK FALSE
