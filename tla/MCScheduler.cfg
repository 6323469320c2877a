SPECIFICATION Spec
CONSTANTS
    NumCpus = 2
    MaxEvents = 2
    Workloads <- SafetyWorkloads
INVARIANTS QueuesConsistent CountsExact RunsOnOneCpu OwnAddressSpace HandleNamesPendingEvent NoPanicWithoutSpawn
PROPERTIES DeathIsFinal
