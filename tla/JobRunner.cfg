SPECIFICATION FairSpec
CONSTANTS
    Jobs = {j1}
    Workers = {w1, w2}
    NoWorker = NoWorker
    NoJob = NoJob
    MaxAttempts = 2
    MaxFaults = 2
    MaxReactivations = 1
PROPERTIES SettledByHolder LifecycleSpec EventuallySettled
