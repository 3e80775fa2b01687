CONSTANTS
    build = build
    test = test
    lint = lint
    Jobs = {build, test}
    Required = {build, test}
    Order <- ChainOrder
    DependsOn <- ChainDeps
    Leases = {l1, l2, l3}
    NoLease = NoLease
    NoJob = NoJob
    MaxCancels = 0
    MaxCrashes = 1
    MaxAborts = 0
    SlowRunners = FALSE
    LongCommands = FALSE
SPECIFICATION FairSpec
PROPERTIES
    RunFinishes
CHECK_DEADLOCK FALSE
