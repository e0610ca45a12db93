CONSTANTS
    io = io  timerA = timerA
    w1 = w1  w2 = w2
    Groups <- IoAndTimer
    Team <- OneEach
    Active = {timerA}
    Timers = {timerA}
    AODs = {}
    Wrap = 2
    Tasks = {t1, t2}
    Delays = {1}
    MaxNow = 2
    Null = Null
SPECIFICATION FairSpec
INVARIANTS RefsInv NoTaskHogsTheTick
PROPERTIES KeepsPromise Processed
CHECK_DEADLOCK FALSE
