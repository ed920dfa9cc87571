CONSTANTS
    MaxRotate = 2
    MaxSize = 2
    LineSize <- MCLineSize
    MaxLines = 7
    Faults = {"kill", "rename", "open", "probe"}
SPECIFICATION Spec
INVARIANTS SizeBound Retention
PROPERTIES ImplementsHistory
