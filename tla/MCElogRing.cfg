CONSTANTS
    a = a
    b = b
    nl = nl
    nul = nul
    N = 5
    PollSize = 3
    Byte <- MCByte
    Newline = nl
    Zero = nul
    Log <- MCLog
SPECIFICATION RingSpec
INVARIANT Agree
PROPERTIES EmptyMeansDrained DropsOnlyBeyondSpace ImplementsByteQueue
