CONSTANTS
    a = a  b = b  c = c
    Threads = {a, b, c}
    MaxUID = 2
    Width = 4
    MaxActivations = 2
    Users = {"entities", "direct"}
SYMMETRY Symmetry
SPECIFICATION Spec
INVARIANTS EntityInv LivesApart DeallocateSucceeds IdsKept AllFreedOnce
