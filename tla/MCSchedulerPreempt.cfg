SPECIFICATION FairSpec
CONSTANTS
    NumCpus = 2
    MaxEvents = 2
    Workloads <- SpawnKill
PROPERTY KilledThreadStops
