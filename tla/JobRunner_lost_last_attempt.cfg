SPECIFICATION FairSpec
CONSTANTS
    Jobs = {j1}
    Workers = {w1}
    NoWorker = NoWorker
    NoJob = NoJob
    MaxAttempts = 2
    MaxFaults = 2
    MaxReactivations = 0
PROPERTIES RunningRecovers
