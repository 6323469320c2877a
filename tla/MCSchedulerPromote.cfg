SPECIFICATION Spec
CONSTANTS
    NumCpus = 2
    MaxEvents = 2
    Workloads <- SpawnExit
INVARIANT NoPanic
