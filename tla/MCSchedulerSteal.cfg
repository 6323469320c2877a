SPECIFICATION Spec
CONSTANTS
    NumCpus = 3
    MaxEvents = 2
    Workloads <- SpawnMany
INVARIANT StolenIsQueued
