SPECIFICATION FairSpec
CONSTANTS
    Main = Main
    t1 = t1
    t2 = t2
    m1 = m1
    m2 = m2
    NoThread = NoThread
    NoArg = NoArg
    Threads = {Main, t1}
    Mutexes = {m1}
    Program <- KillProgram
    Budget <- KillBudget
CHECK_DEADLOCK FALSE
PROPERTIES KilledDies
