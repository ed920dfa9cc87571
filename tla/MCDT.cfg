CONSTANT InitialFile <- MCInitialFile
SPECIFICATION Spec
INVARIANTS RecordFollowsMode LogTellsTheMove
PROPERTIES LostFileStaysLost ImplementsDTMode KeyAnswered
