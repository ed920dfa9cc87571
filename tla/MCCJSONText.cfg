CONSTANTS
    Tree <- MCTree
    Room <- MCRoom
    DefaultSize = 4
    IntMax = 46
    Given <- MCGiven
    Literal <- MCLiteral
    Numeral <- MCNumeral
    Lower <- MCLower
    NestingLimit = 3
SPECIFICATION TextSpec
INVARIANTS PrintsTheTree StaysInside FailsOnlyForRoom BuffersFreed ReadsBack MinifyUnformats StringsReadRight
