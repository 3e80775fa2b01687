CONSTANTS
    Handlers = {h1, h2, h3}
    Finalizers = {f1, f2}
    IdempotencyKeys = {"again"}
    Requests <- SomeRequests
    Scenarios <- AllScenarios
    QuietCheckout = TRUE
SPECIFICATION Spec
SYMMETRY Symmetry
INVARIANTS
    IntakeTypeOK
    AnswerFitsRequest
    NobodyIsStranded
    ImpactIsTested
    NothingNeedless
    RecipeIsGreen
    RecipesAgree
    RecipeFitsCheckout
PROPERTIES
    ImplementsIdempotency
    RecipeIsKept
CHECK_DEADLOCK FALSE
