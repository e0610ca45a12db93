CONSTANTS
    a = a  b = b  c = c  w = w  x = x  y = y  z = z
    Threads = {a, b, c}
    Blocks = {w, x, y, z}
    PoolSize = 2
    Variants = {"spinlock", "atomic"}
    MaxTickets = 4
    Null = Null
SYMMETRY Symmetry
SPECIFICATION PoolSpec
INVARIANTS PoolInv RingServes
CHECK_DEADLOCK FALSE
