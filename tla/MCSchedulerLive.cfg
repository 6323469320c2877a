SPECIFICATION CooperativeSpec
CONSTANTS
    NumCpus = 2
    MaxEvents = 2
    Workloads <- LiveWorkloads
PROPERTIES DyingTaskDies AllExit RoundRobin KilledThreadStops
