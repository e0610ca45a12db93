CONSTANTS
    t1 = t1  t2 = t2  t3 = t3  m1 = m1  m2 = m2
    Threads = {t1, t2, t3}
    Blocks = {m1, m2}
    Kinds = {"object", "array", "virtual"}
    Sizes = {48, 60, 300}
    ClassLimits = {64, 128}
    ObjectHeader = 8
    ArrayHeader = 16
    DeleterSize = 8
    Null = Null
SYMMETRY Symmetry
SPECIFICATION Spec
INVARIANTS RefsInv DestroyedByLast GoesHome
