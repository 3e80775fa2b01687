CONSTANTS
    build = build
    test = test
    lint = lint
    Jobs = {build}
    Required = {build}
    Order <- SoloOrder
    DependsOn <- SoloDeps
    Leases = {l1, l2}
    NoLease = NoLease
    NoJob = NoJob
    MaxCancels = 1
    MaxCrashes = 0
    MaxAborts = 0
    SlowRunners = FALSE
    LongCommands = FALSE
SPECIFICATION FairSpec
PROPERTIES
    CancelFinishes
CHECK_DEADLOCK FALSE
