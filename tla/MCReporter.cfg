CONSTANTS
    Callers = {start, c1, c2}
    Starter = start
    Triggers = {"none", "push", "pull_request"}
    MaxFailures = 1
SPECIFICATION FairSpec
INVARIANTS
    ReporterTypeOK
    ReportedAfterPublished
PROPERTIES
    IdsSettle
    FinishedIsReported
CHECK_DEADLOCK FALSE
