CONSTANTS
    build = build
    test = test
    lint = lint
    Jobs = {build, lint, test}
    Required = {build, lint, test}
    Order <- FanInOrder
    DependsOn <- FanInDeps
    Leases = {l1, l2}
    NoLease = NoLease
    NoJob = NoJob
    MaxCancels = 0
    MaxCrashes = 1
    MaxAborts = 1
    SlowRunners = TRUE
    LongCommands = FALSE
SPECIFICATION Spec
SYMMETRY Symmetry
INVARIANTS
    LiveLeaseIsCurrent
    LeaseExclusive
    DependencyOrder
    SettledResultsAgree
PROPERTIES
    ImplementsLifecycle
    DependenciesStaySatisfied
CHECK_DEADLOCK FALSE
