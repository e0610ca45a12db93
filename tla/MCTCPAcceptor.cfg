SPECIFICATION Spec
CONSTANTS
    w1 = w1
    w2 = w2
    a1 = a1
    a2 = a2
    s1 = s1
    s2 = s2
    Main = main
    Starter = starter
    NoSocket = noSocket
    NoTask = noTask
    Workers <- WorkersDef
    Deferred = {}
    General = {}
    Repeating = {}
    AcceptTasks <- AcceptDef
    Sockets <- SocketsDef
    Variants = {"reactive"}
    BatchSize = 2
    Throttle = 1
    MaxStarts = 2
    Faults = TRUE
SYMMETRY Symmetry
INVARIANTS AcceptorInv AcceptingIsTrue
CHECK_DEADLOCK FALSE
