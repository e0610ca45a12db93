CONSTANTS
    thA = thA  thB = thB  oA = oA  oB = oB
    Threads = {thA, thB}
    Objects = {oA, oB}
    Tasks = {t1, t2, t3}
    Kinds = {"Shared"}
    KindOf <- AllShared
    None = None
SPECIFICATION FairSpec
INVARIANTS ConsumerInv ObjectLife
PROPERTIES SerialExecution EveryTaskRuns UnownedIsFreed
CHECK_DEADLOCK FALSE
