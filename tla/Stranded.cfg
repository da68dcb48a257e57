SPECIFICATION Spec
CONSTANTS
    P = P
    C = C
    K = K
    NoThread = NoThread
    Threads = {P, C, K}
    Program <- TwoProgram
    Budget <- TwoBudget
    Victims = {}
    Sized = FALSE
    Sizes = {1, 2}
CHECK_DEADLOCK FALSE
INVARIANTS PopServed
