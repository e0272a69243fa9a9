CONSTANTS
    Blocks = {b1, b2}
    Chunks = {c1, c2}
    None = None
    Pages = {1, 2}
    Cells <- MCCells
    Alias = 3
    DirtyMax = 1
SPECIFICATION Spec
INVARIANTS  ListsMatchBlocks ChunksSufficeUnlessLeaked
CHECK_DEADLOCK FALSE
SYMMETRY MCSymmetry
VIEW MCView
