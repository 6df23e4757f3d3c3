SPECIFICATION Spec
CONSTANTS
    CANVAS_SIZE_FACTOR = 2
    MaxWidth = 4
    MaxHeight = 1
    MaxStack = 1
    Boxes <- BoxesDef
    SrcCoords = {1}
    Sizes <- SizesDef
    Masks = {2}
    Rasters = {3, 6}
INVARIANTS StackMirrorsContext BaselineIsClean
PROPERTY ResizeKeepsPixels
CHECK_DEADLOCK FALSE
