CONSTANTS
    MaxNodes = 4
    NestingLimit = 2
    Name = {}
    Fold <- NoFold
SPECIFICATION BuildSpec
INVARIANTS ListsLinked OwnedOnce CopyIsEqual
PROPERTIES ImplementsForest
