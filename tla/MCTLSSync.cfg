CONSTANTS
    w1 = w1  w2 = w2
    Workers = {w1, w2}
    Tasks = {t1, t2, t3, t4, t5}
    Size = 4
    MaxOutstanding = 3
    Null = Null
SPECIFICATION FairSpec
INVARIANTS RingInv FreedLast
PROPERTIES BroadcastInOrder EveryTaskFinalized
CHECK_DEADLOCK FALSE
