CONSTANTS
    Handlers = {h1, h2}
    Finalizers = {f1}
    IdempotencyKeys = {"again"}
    Requests <- SomeRequests
    Scenarios <- Recycling
    QuietCheckout = TRUE
SPECIFICATION Spec
INVARIANTS
    CodeChangeIsTested
CHECK_DEADLOCK FALSE
