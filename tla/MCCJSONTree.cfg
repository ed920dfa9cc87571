CONSTANTS
    MaxNodes = 3
    NestingLimit = 2
    Name <- MCName
    Fold <- MCFold
SPECIFICATION BuildSpec
INVARIANT NamesFreedRight
PROPERTIES ImplementsForest
