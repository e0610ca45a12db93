CONSTANTS
    Workers = {w1, w2}
    ServerTasks = {s1}
    GroupTasks = {g1}
    Size = 4
    MaxOutstanding = 3
    Null = Null
SPECIFICATION Spec
INVARIANT GroupTasksRunOnAll
CHECK_DEADLOCK FALSE
