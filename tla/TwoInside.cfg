SPECIFICATION Spec
CONSTANTS
    w1 = w1
    w2 = w2
    s = s
    NoThread = NoThread
    Threads = {w1, w2, s}
    Program <- TimeoutProgram
    Budget <- TimeoutBudget
CHECK_DEADLOCK FALSE
INVARIANTS MutualExclusion
