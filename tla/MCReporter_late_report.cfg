CONSTANTS
    Callers = {start, c1, c2}
    Starter = start
    Triggers = {"pull_request"}
    MaxFailures = 0
SPECIFICATION Spec
INVARIANTS
    FinalStatusShown
CHECK_DEADLOCK FALSE
