CONSTANTS
    build = build
    test = test
    lint = lint
    Jobs = {build, test, lint}
    Required = {build, test}
    Order <- GoOrder
    DependsOn <- GoDeps
    Leases = {l1, l2, l3, l4}
    NoLease = NoLease
    NoJob = NoJob
    MaxCancels = 0
    MaxCrashes = 1
    MaxAborts = 0
    SlowRunners = FALSE
    LongCommands = FALSE
SPECIFICATION Spec
SYMMETRY Symmetry
INVARIANTS
    TypeOK
    OneRunner
    NoLostAttempt
    SuccessIsHonest
    WorkRemains
PROPERTIES
    FinalStateIsKept
    ImplementsStore
    FailureIsHonest
CHECK_DEADLOCK FALSE
