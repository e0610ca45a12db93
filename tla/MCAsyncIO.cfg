SPECIFICATION LoopSpec
CONSTANTS
    w1 = w1
    w2 = w2
    d1 = d1
    d2 = d2
    d3 = d3
    g1 = g1
    r1 = r1
    Main = main
    Starter = starter
    Workers <- WorkersDef
    Deferred <- DeferredDef
    General <- GeneralDef
    Repeating <- RepeatingDef
    Variants <- VariantsDef
    BatchSize = 2
    Throttle = 1
INVARIANT TasksInOneQueue
PROPERTIES EveryTaskHandled LoopsGoOn
CHECK_DEADLOCK FALSE
