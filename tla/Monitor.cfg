SPECIFICATION FairSpec
CONSTANTS
    w1 = w1
    w2 = w2
    s = s
    NoThread = NoThread
    Threads = {w1, w2, s}
    Program <- WaitProgram
    Budget <- WaitBudget
CHECK_DEADLOCK FALSE
INVARIANTS TypeOK OwnerInside BlockLeaves WaiterListed EntriesSleep
PROPERTIES ImplementsMonitor CalledWakes 
