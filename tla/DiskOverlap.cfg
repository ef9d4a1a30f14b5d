CONSTANTS
    Gadgets <- MCMiddle
    SizeFlags <- MCSizeFlags
    SectorSizes = {512, 4096}
    ContentSizes <- MCContentSizes
    ext4Padding <- MCPadding
    Word = 1073741824
    MBRWord = 1048576
SPECIFICATION Spec
INVARIANT PartitionsDisjoint
CHECK_DEADLOCK FALSE
