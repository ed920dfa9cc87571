CONSTANTS
    a = a
    a1 = a1
    a11 = a11
    a111 = a111
    a2 = a2
    b = b
    b1 = b1
    root = root
    null = null
    State <- MCState
    Root = root
    NoState = null
    Parent <- MCParent
    Level <- MCLevel
    Event <- MCEvent
    RunEvent <- MCRunEvent
    Handler <- MCHandler
    InitState = a
    MAX_DEPTH = 5
SPECIFICATION Spec
INVARIANTS TypeOK IdleConsistent ActivePath
PROPERTIES TransitionOrder EngineReturns
