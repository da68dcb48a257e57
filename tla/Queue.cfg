SPECIFICATION FairSpec
CONSTANTS
    P = P
    C = C
    K = K
    NoThread = NoThread
    Threads = {P, C, K}
    Program <- ControlProgram
    Budget <- ControlBudget
    Victims = {P, C}
    Sized = TRUE
    Sizes = {1, 2}
CHECK_DEADLOCK FALSE
INVARIANTS TypeOK SleeperListed ProducerListed PopServed
PROPERTIES SeenItemKept PushKeepsBound PopWakes ImplementsQueue
