SPECIFICATION FairSpec
CONSTANTS
    main = main
    w1 = w1
    u1 = u1
    u2 = u2
    NoThread = NoThread
    Main = main
    Web <- MCWeb
    Updaters <- MCUpdaters
    Threads <- MCThreads
    NTrees = 2
CHECK_DEADLOCK TRUE
INVARIANTS ReadersCounted AnswersHaveTrees OneGeneration
PROPERTIES UpdatesEnd
