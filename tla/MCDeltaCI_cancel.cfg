CONSTANTS
    build = build
    test = test
    lint = lint
    Jobs = {build}
    Required = {build}
    Order <- SoloOrder
    DependsOn <- SoloDeps
    Leases = {l1, l2}
    NoLease = NoLease
    NoJob = NoJob
    MaxCancels = 1
    MaxCrashes = 1
    MaxAborts = 0
    SlowRunners = FALSE
    LongCommands = TRUE
SPECIFICATION HeartbeatSpec
INVARIANTS
    CanceledIsQuiet
    
    OneRunner
PROPERTIES
    FinalStateIsKept
    NoGrantAfterCanceled
    CancelStopsCommands
CHECK_DEADLOCK FALSE
