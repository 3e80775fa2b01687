CONSTANTS
    build = build
    test = test
    lint = lint
    Jobs = {build}
    Required = {build}
    Order <- SoloOrder
    DependsOn <- SoloDeps
    Leases = {l1, l2}
    NoLease = NoLease
    NoJob = NoJob
    MaxCancels = 0
    MaxCrashes = 0
    MaxAborts = 1
    SlowRunners = FALSE
    LongCommands = FALSE
SPECIFICATION Spec
INVARIANTS
    WorkRemains
CHECK_DEADLOCK FALSE
