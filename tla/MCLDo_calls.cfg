SPECIFICATION Spec
CONSTANTS
    main = main
    co1 = co1
    co2 = co2
    Main = main
    Coroutines <- SomeCoroutines
    Programs <- SomePrograms
    LUAI_MAXCCALLS = 5
    ErrorCcalls = 2
    LUAI_MAXCALLS = 4
    BASIC_CI_SIZE = 1
    ManyResults = FALSE
INVARIANTS
    AssertionsHold
    LevelsExact
    HandlerCurrent
    YieldLosesNothing
    StatusTrue
