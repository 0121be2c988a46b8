SPECIFICATION Spec
CONSTANTS
    Procs = {p1, p2}
    Operators = {o1, o2}
    Requests = {"revoke"}
    Starts <- PlainStart
    Faults = FALSE
    MaxStep = 2
    NoOne = NoOne
CHECK_DEADLOCK FALSE
SYMMETRY Symmetry
INVARIANT AnOwnerRemains
