CONSTANTS
    Slots = 2
    Tag <- MCTag
    Key <- MCKey
    Cut <- MCCut
    NoTag <- MCNoTag
    UsedLevel = {0, 3, 5}
    Message <- MCMessage
    Keyword <- MCKeyword
    Part <- MCPart
    Format <- MCFormat
    Info <- MCInfo
    Size = 16
    TagMax = 4
    KwMax = 2
    LineNumMax = 2
    Wrap = 16
    Dump <- MCDump
SPECIFICATION OutputSpec
INVARIANTS OneSlotEach LineIsWhole
PROPERTIES ImplementsTable HexDumpReturns
