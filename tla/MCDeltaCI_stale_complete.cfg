CONSTANTS
    build = build
    test = test
    lint = lint
    Jobs = {build}
    Required = {build}
    Order <- SoloOrder
    DependsOn <- SoloDeps
    Leases = {l1, l2}
    NoLease = NoLease
    NoJob = NoJob
    MaxCancels = 0
    MaxCrashes = 0
    MaxAborts = 0
    SlowRunners = TRUE
    LongCommands = FALSE
SPECIFICATION Spec
PROPERTIES
    FinalStateIsFenced
CHECK_DEADLOCK FALSE
