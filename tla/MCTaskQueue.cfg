CONSTANTS
    Producers = {p1, p2}
    Tasks = {t1, t2, t3}
    Stub = Stub
    Nil = Nil
SPECIFICATION FairSpec
INVARIANTS ListInv NoWriteToFreedTask NullOnlyIfEmptyOrRaced
PROPERTIES Fifo EveryTaskPopped
