--------------------------- MODULE PartitionTable ----------------------------
(***************************************************************************)
(* Sizes and offsets of the structures of a gadget volume, and the         *)
(* partition table made for it: internal/partition, with what it takes     *)
(* from snapd.  There is no state here; DiskImage uses these operators.    *)
(* Sizes and offsets are bytes unless the name says sectors.               *)
(***************************************************************************)
EXTENDS Integers, Sequences, FiniteSets

CONSTANTS
    Word,    \* 2^64 in the code: byte and sector counts are unsigned
    MBRWord  \* 2^32 in the code: the fields of an MBR partition

ASSUME WordAssumption == Word \in Nat \ {0} /\ MBRWord \in Nat \ {0}

Unknown == -1

\* A structure: "bios" is a system-boot structure with a name in BIOS; "bare"
\* and "mbr" structures are not partitions.
Roles == {"mbr", "bare", "bios", "boot", "data", "seed", "save", "other"}
Structures == [role : Roles, offset : Nat \cup {Unknown}, size : Nat, min : Nat,
               offsetWrite : BOOLEAN]
Volumes == [schema : {"gpt", "mbr", "emmc"}, bootloader : {"grub", "u-boot"},
            structure : Seq(Structures)]

IsPartition(s) == s.role \notin {"mbr", "bare"}
IsSystemBootStructure(s) == s.role \in {"boot", "bios"}
IsBIOSBootStructure(s) == s.role = "bios"
IsRootfsStructure(s) == s.role = "data"
ShouldSkipStructure(s, isSeeded) ==
    isSeeded /\ s.role \in {"boot", "bios", "data", "save"}

\* ceil(a / b), on floats in the code, which hold these values exactly.
Ceil(a, b) == (a + b - 1) \div b
Larger(a, b) == IF a >= b THEN a ELSE b

(***************************************************************************)
(* Where structures start, given their sizes: at their offset or where the *)
(* one before ends.  Structures come in the order of their offsets.        *)
(***************************************************************************)
Starts(v, sizes) ==
    LET s == v.structure
        start[i \in 1..Len(s)] ==
            IF s[i].offset # Unknown THEN s[i].offset
            ELSE IF i = 1 THEN 0 ELSE start[i - 1] + sizes[i - 1]
    IN  start

VolumeEnd(v, sizes) ==
    IF v.structure = <<>> THEN 0
    ELSE LET last == Len(v.structure) IN Starts(v, sizes)[last] + sizes[last]

Sizes(v) == [i \in DOMAIN v.structure |-> v.structure[i].size]
StartOffset(v) == Starts(v, Sizes(v))
VolumeSize(v) == VolumeEnd(v, Sizes(v))
VolumeMinSize(v) == VolumeEnd(v, [i \in DOMAIN v.structure |-> v.structure[i].min])

-----------------------------------------------------------------------------
gptPartitionEntriesSectors(sectorSize) == IF sectorSize = 4096 THEN 4 ELSE 32
\* The protective MBR, the header and the entries; at the end no MBR.
primaryGPTSectors(sectorSize) == 1 + 1 + gptPartitionEntriesSectors(sectorSize)
secondaryGPTSectors(sectorSize) == 1 + gptPartitionEntriesSectors(sectorSize)

PartitionTableSize(v, sectorSize) ==
    IF v.schema = "mbr" THEN sectorSize
    ELSE (primaryGPTSectors(sectorSize) + secondaryGPTSectors(sectorSize)) * sectorSize

structureOverlapsTable(startSector, size, diskSize, sectorSize) ==
    \/ startSector < primaryGPTSectors(sectorSize)
    \/ startSector + Ceil(size, sectorSize)
         > (Ceil(diskSize, sectorSize) - secondaryGPTSectors(sectorSize)) % Word

\* One sector too many when the size is a whole number of them.
PartitionWithEnd(v, i, sectorSize) ==
    [structure |-> i, start |-> Ceil(StartOffset(v)[i], sectorSize),
     sectors |-> v.structure[i].size \div sectorSize + 1, bootable |-> FALSE]

\* The entry of structure i.  MBR fields keep 32 bits.  A GPT is given the size
\* in bytes, of which go-diskfs keeps whole sectors.
Partition(v, i, sectorSize) ==
    LET start == Ceil(StartOffset(v)[i], sectorSize)
        size == v.structure[i].size
    IN  IF v.schema = "mbr"
        THEN [structure |-> i, start |-> start % MBRWord,
              sectors |-> Ceil(size, sectorSize) % MBRWord,
              bootable |-> IsSystemBootStructure(v.structure[i])]
        ELSE [structure |-> i, start |-> start, sectors |-> size \div sectorSize,
              bootable |-> FALSE]

Added(v, isSeeded) ==
    {i \in DOMAIN v.structure : /\ IsPartition(v.structure[i])
                                /\ ~ShouldSkipStructure(v.structure[i], isSeeded)}

\* The value of partitionNumber when the loop is at structure i.
PartitionNumber(v, isSeeded, i) == 1 + Cardinality({j \in Added(v, isSeeded) : j < i})

LastNumber(v, isSeeded, S) ==
    IF S = {} THEN -1
    ELSE PartitionNumber(v, isSeeded, CHOOSE i \in S : \A j \in S : j <= i)

(***************************************************************************)
(* The boot partition is recorded before it is decided whether to skip the *)
(* structure, the rootfs after it.                                         *)
(***************************************************************************)
RootfsNumber(v, isSeeded) ==
    LastNumber(v, isSeeded, {i \in Added(v, isSeeded) : IsRootfsStructure(v.structure[i])})
BootNumber(v, isSeeded) ==
    LastNumber(v, isSeeded, {i \in DOMAIN v.structure : IsSystemBootStructure(v.structure[i])})

GeneratePartitionTable(v, sectorSize, diskSize, isSeeded) ==
    LET added == Added(v, isSeeded) IN
    [ok |-> \/ v.schema = "mbr"
            \/ \A i \in added :
                 ~structureOverlapsTable(Ceil(StartOffset(v)[i], sectorSize),
                                         v.structure[i].size, diskSize, sectorSize),
     partitions |-> [n \in 1..Cardinality(added) |->
                       Partition(v, CHOOSE i \in added : PartitionNumber(v, isSeeded, i) = n,
                                 sectorSize)],
     rootfs |-> RootfsNumber(v, isSeeded),
     boot   |-> BootNumber(v, isSeeded),
     bios   |-> \E s \in {v.structure[i] : i \in DOMAIN v.structure} : IsBIOSBootStructure(s)]

=============================================================================
