SPECIFICATION FairSpec
CONSTANTS
    Main = Main
    t1 = t1
    t2 = t2
    app = app
    lib = lib
    NoThread = NoThread
    NoFile = NoFile
    NoBarrier = NoBarrier
    Threads = {Main, t1, t2}
    Files = {app, lib}
    Barriers = {1, 2, 3, 4, 5}
    Requires <- Chain
    Failing = {lib}
    Program <- LoadProgram
    Budget <- LoadBudget
INVARIANTS TypeOK LoadsSerialized LoadedOnce WaitedIsLoading
PROPERTIES WaitReturnsLoaded 
