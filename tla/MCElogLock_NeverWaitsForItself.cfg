CONSTANTS
    t1 = t1
    Nobody = Nobody
    Thread <- MCThread
SPECIFICATION Spec
INVARIANT NeverWaitsForItself
