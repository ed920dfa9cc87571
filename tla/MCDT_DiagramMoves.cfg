CONSTANT InitialFile <- AssetFile
SPECIFICATION Spec
INVARIANT DiagramMoves
