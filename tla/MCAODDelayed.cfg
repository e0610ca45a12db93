CONSTANTS
    io = io  gA = gA
    w1 = w1  w2 = w2  w3 = w3
    Groups <- WithIo
    Team <- IoTwo
    Active = {gA}
    Timers = {gA}
    AODs = {gA}
    Wrap = 2
    Tasks = {t1, t2}
    Delays = {0, 1}
    MaxNow = 2
    Null = Null
SPECIFICATION AODFairSpec
INVARIANTS FateInv SameThread
PROPERTY AODProcessed
CHECK_DEADLOCK FALSE
