CONSTANTS
    c1 = c1
    c2 = c2
    main = main
    Caller <- MCCaller
    Main = main
    Log <- MCLog
    Version <- MCVersion
    N = 3
    PollSize = 2
    MaxLogs = 2
    MaxInits = 2
    MaxStarts = 2
SPECIFICATION Spec
\* The output thread sleeps once every log is printed.
CHECK_DEADLOCK FALSE
INVARIANTS NoLostWakeup OutputInOrder NothingLostOrTwice OrderlyDeinitIsSafe
PROPERTIES EveryCallReturns EmittedIsPrinted
