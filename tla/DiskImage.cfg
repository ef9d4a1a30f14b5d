CONSTANTS
    Gadgets <- MCGadgets
    SizeFlags <- MCSizeFlags
    SectorSizes = {512, 4096}
    ContentSizes <- MCContentSizes
    ext4Padding <- MCPadding
    Word = 1073741824
    MBRWord = 1048576
SPECIFICATION Spec
INVARIANTS
    TypeOK
    PartitionsFit
    PartitionsDisjoint
    ContentInPartition
    ImageSizeHonoured
    GrubPartitionsRight
    VolumesInOrder
CHECK_DEADLOCK FALSE
