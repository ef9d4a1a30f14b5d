------------------------------ MODULE DiskImage ------------------------------
(***************************************************************************)
(* From gadget.yaml to disk images: the state functions that read the      *)
(* gadget, size the rootfs, prepare the content of the structures, make    *)
(* one disk per volume and choose what the boot loader is installed on.    *)
(* They communicate through GadgetInfo, ImageSizes and the partition       *)
(* numbers, each correcting what the one before left there; whether the    *)
(* result fits on the disk is checked for GPT partitions only, at the end. *)
(***************************************************************************)
EXTENDS PartitionTable, Functions

CONSTANTS
    Gadgets,      \* gadgets considered
    SizeFlags,    \* values of --image-size considered
    SectorSizes,  \* values of --sector-size
    ContentSizes, \* sizes of the rootfs directory, as du tells
    ext4Padding   \* what is added to it: 8 MiB in the code

(***************************************************************************)
(* A gadget has its volumes by name; the names of volumes that its text    *)
(* has before a colon, in the order in which they start, be they keys or   *)
(* ends of others; and the place among them where each volume is declared. *)
(***************************************************************************)
NameOf(g) == DOMAIN g.volumes
noName == ""

\* An argument of --image-size: for "all" volumes, or for one by its "number"
\* or "name".
Arguments == [by : {"all"}, size : Nat] \cup [by : {"number"}, number : Int, size : Nat]
               \cup [by : {"name"}, name : STRING, size : Nat]
NotSet == -1

ASSUME DiskAssumptions ==
    /\ SectorSizes \subseteq {512, 4096}
    /\ ContentSizes \subseteq Nat /\ ext4Padding \in Nat
    /\ SizeFlags \subseteq Seq(Arguments)
    /\ \A g \in Gadgets :
         /\ g.volumes \in [NameOf(g) -> Volumes] /\ noName \notin NameOf(g)
         /\ g.matches \in Seq(NameOf(g)) /\ g.declared \in [NameOf(g) -> DOMAIN g.matches]
         /\ \A v \in NameOf(g) : g.matches[g.declared[v]] = v


VARIABLES
    gadget, sizeFlag, SectorSize, content,  \* inputs
    pc,                 \* the state function
    volumes,            \* GadgetInfo.Volumes
    VolumeOrder, IsSeeded, ImageSizes, RootfsSize,
    VolumeNames,        \* volumes with the name of an image
    partImg,            \* size of the content prepared for each structure
    left,               \* volumes makeDisk has not come to
    images,             \* the disk images, by volume
    RootfsVolName, RootfsPartNum, BootPartNum, HasBIOSPartition,
    error               \* why the build stopped, or "none"

inputs == <<gadget, sizeFlag, SectorSize, content>>
numbers == <<RootfsVolName, RootfsPartNum, BootPartNum, HasBIOSPartition>>
vars == <<inputs, pc, volumes, VolumeOrder, IsSeeded, ImageSizes, RootfsSize,
          VolumeNames, partImg, left, images, numbers, error>>

Init ==
    /\ gadget \in Gadgets /\ sizeFlag \in SizeFlags
    /\ SectorSize \in SectorSizes /\ content \in ContentSizes
    /\ pc = "load_gadget_yaml"
    /\ volumes = gadget.volumes /\ VolumeOrder = <<>> /\ IsSeeded = FALSE
    /\ ImageSizes = [v \in NameOf(gadget) |-> NotSet] /\ RootfsSize = 0
    /\ VolumeNames = {} /\ partImg = <<>> /\ left = {} /\ images = <<>>
    /\ RootfsVolName = noName /\ RootfsPartNum = 0 /\ BootPartNum = 0
    /\ HasBIOSPartition = FALSE
    /\ error = "none"

Goto(state) == pc' = state /\ UNCHANGED error
Stop(why) == pc' = "failed" /\ error' = why

align(size) == Ceil(size, SectorSize) * SectorSize
structures(v) == DOMAIN volumes[v].structure
\* Structures that are not left to the first boot of a seeded image.
present(v) == {i \in structures(v) : ~ShouldSkipStructure(volumes[v].structure[i], IsSeeded)}

-----------------------------------------------------------------------------
(***************************************************************************)
(* load_gadget_yaml.  Volumes are a map in GadgetInfo: saveVolumeOrder     *)
(* finds the order of the text again, by the first place where a name      *)
(* comes before a colon.                                                   *)
(***************************************************************************)
firstMatch(g, v) == CHOOSE i \in DOMAIN g.matches :
                        g.matches[i] = v /\ \A j \in 1..i - 1 : g.matches[j] # v
lastMatch(g, v) == CHOOSE i \in DOMAIN g.matches :
                       g.matches[i] = v /\ \A j \in i + 1..Len(g.matches) : g.matches[j] # v
index(g, v) == firstMatch(g, v)
saveVolumeOrder(g) ==
    CHOOSE order \in [1..Cardinality(NameOf(g)) -> NameOf(g)] :
        \A i, j \in DOMAIN order : i < j => index(g, order[i]) < index(g, order[j])

Seeded(g) == \E v \in NameOf(g) : \E i \in DOMAIN g.volumes[v].structure :
                 g.volumes[v].structure[i].role = "seed"

\* The rootfs that no structure declares goes at the end, if the end is known.
RootfsAt(offset) == [role |-> "data", offset |-> offset, size |-> 0, min |-> 0,
                     offsetWrite |-> FALSE]
farthestOffset(v) ==
    LET ends == {s.offset + s.size : s \in Range(v.structure)} \cup {0}
    IN  CHOOSE e \in ends : \A f \in ends : f <= e

fixMissingSystemData(g) ==
    LET all == UNION {Range(g.volumes[v].structure) : v \in NameOf(g)} IN
    IF \/ Cardinality(NameOf(g)) # 1
       \/ \E s \in all : s.offset = Unknown \/ IsRootfsStructure(s)
    THEN g.volumes
    ELSE [v \in NameOf(g) |->
            [g.volumes[v] EXCEPT !.structure = Append(@, RootfsAt(farthestOffset(g.volumes[v])))]]

\* handleSingleImageSize and handleMultipleImageSizes: later arguments win.
sizeOf(order, arg) ==
    IF arg.by = "all" THEN Range(order)
    ELSE IF arg.by = "name" THEN {arg.name} ELSE {order[arg.number + 1]}
valid(order, arg) ==
    CASE arg.by = "all"  -> TRUE
      [] arg.by = "name" -> arg.name \in Range(order)
      [] arg.by = "number" -> arg.number \in 0..Len(order) - 1
parseImageSizes(order) ==
    [v \in Range(order) |->
       LET args == {i \in DOMAIN sizeFlag : v \in sizeOf(order, sizeFlag[i])}
       IN  IF args = {} THEN NotSet
           ELSE sizeFlag[CHOOSE i \in args : \A j \in args : j <= i].size]

\* The first argument that is not valid decides; a negative number panics.
badArgument(order) ==
    LET i == CHOOSE i \in DOMAIN sizeFlag :
                 /\ ~valid(order, sizeFlag[i])
                 /\ \A j \in 1..i - 1 : valid(order, sizeFlag[j])
    IN  IF sizeFlag[i].by = "number" /\ sizeFlag[i].number < 0 THEN "panic"
        ELSE "no such volume"

loadGadgetYaml ==
    /\ pc = "load_gadget_yaml"
    /\ VolumeOrder' = saveVolumeOrder(gadget)
    /\ IsSeeded' = Seeded(gadget)
    /\ volumes' = fixMissingSystemData(gadget)
    /\ IF \A i \in DOMAIN sizeFlag : valid(VolumeOrder', sizeFlag[i])
       THEN /\ ImageSizes' = parseImageSizes(VolumeOrder')
            /\ Goto("verify_artifact_names")
       ELSE Stop(badArgument(VolumeOrder')) /\ UNCHANGED ImageSizes
    /\ UNCHANGED <<inputs, RootfsSize, VolumeNames, partImg, left, images, numbers>>

\* Snap images have an image of each volume, classic ones those of the artifacts.
artifactNames ==
    /\ pc = "verify_artifact_names"
    /\ VolumeNames' \in (SUBSET NameOf(gadget)) \ {{}}
    /\ Goto("calculate_rootfs_size")
    /\ UNCHANGED <<inputs, volumes, VolumeOrder, IsSeeded, ImageSizes, RootfsSize,
                   partImg, left, images, numbers>>

-----------------------------------------------------------------------------
(***************************************************************************)
(* calculate_rootfs_size.                                                  *)
(***************************************************************************)
getRootfsMinSize == align(Ceil(3 * content, 2) + ext4Padding)

\* calculateNoRootfsSize: where the structures end that are not the rootfs.
calculateNoRootfsSize(v) ==
    LET s == v.structure
        size[i \in 0..Len(s)] ==
            IF i = 0 THEN 0
            ELSE IF IsRootfsStructure(s[i]) THEN size[i - 1]
            ELSE Larger(s[i].offset, size[i - 1]) + s[i].min
    IN  size[Len(s)]

SafeQuantitySubtraction(a, b) == IF a >= b THEN a - b ELSE 0

desiredWithoutOffsets(name) ==
    align(SafeQuantitySubtraction(ImageSizes[name],
                                  PartitionTableSize(volumes[name], SectorSize)))

getRootfsDesiredSize(name) ==
    align(SafeQuantitySubtraction(ImageSizes[name],
            calculateNoRootfsSize(volumes[name])
              + PartitionTableSize(volumes[name], SectorSize)))

rootfsSize(name, i) ==
    LET needed == Larger(getRootfsMinSize, align(volumes[name].structure[i].min))
    IN  IF ImageSizes[name] = NotSet THEN needed
        ELSE Larger(needed, getRootfsDesiredSize(name))

raiseMinOnly(s, size) == [s EXCEPT !.min = Larger(@, size)]
raiseStructureSizes(s, size) == [s EXCEPT !.min = Larger(@, size), !.size = Larger(@, size)]

\* findRootfsVolumeStructure ranges over a map: any volume that has a rootfs.
rootfsStructures(v) == {i \in structures(v) : IsRootfsStructure(volumes[v].structure[i])}

calculateRootfsSize ==
    /\ pc = "calculate_rootfs_size"
    /\ \/ /\ \A v \in DOMAIN volumes : rootfsStructures(v) = {}
          /\ RootfsSize' = getRootfsMinSize /\ UNCHANGED volumes
       \/ \E v \in DOMAIN volumes : \E i \in rootfsStructures(v) :
            /\ \A j \in rootfsStructures(v) : i <= j
            /\ RootfsSize' = rootfsSize(v, i)
            /\ volumes' = [volumes EXCEPT ![v].structure[i] =
                             raiseStructureSizes(@, RootfsSize')]
    /\ Goto("populate_prepare_partitions")
    /\ UNCHANGED <<inputs, VolumeOrder, IsSeeded, ImageSizes, VolumeNames, partImg,
                   left, images, numbers>>

(***************************************************************************)
(* populate_prepare_partitions makes the content of each structure, and    *)
(* raises the size of the image to the volume's when it is too small.      *)
(***************************************************************************)
partSize(s) == IF IsRootfsStructure(s) THEN RootfsSize ELSE s.size
growImageSize(v) ==
    IF volumes[v].schema = "emmc" THEN ImageSizes[v]
    ELSE Larger(ImageSizes[v], VolumeMinSize(volumes[v]))

populatePreparePartitions ==
    /\ pc = "populate_prepare_partitions"
    /\ partImg' = [v \in DOMAIN volumes |->
                     [i \in IF volumes[v].schema = "emmc" THEN {} ELSE present(v) |->
                        partSize(volumes[v].structure[i])]]
    /\ ImageSizes' = [v \in DOMAIN volumes |-> growImageSize(v)]
    /\ left' = DOMAIN volumes
    /\ Goto("make_disk")
    /\ UNCHANGED <<inputs, volumes, VolumeOrder, IsSeeded, RootfsSize, VolumeNames,
                   images, numbers>>

-----------------------------------------------------------------------------
(***************************************************************************)
(* make_disk, volume after volume in the order of a map.                   *)
(***************************************************************************)
createDiskWithoutTable(v) == align(Larger(VolumeSize(volumes[v]), ImageSizes[v]))
createDiskImage(v) ==
    align(Larger(VolumeSize(volumes[v]), ImageSizes[v]))
      + PartitionTableSize(volumes[v], SectorSize)

\* copyDataToImage: dd seeks to a whole sector and stops after count sectors.
seek(v, i) == StartOffset(volumes[v])[i] \div SectorSize
count(v, i) == Ceil(volumes[v].structure[i].size, SectorSize)

copyDataToImage(v) ==
    [i \in present(v) |->
       [seek |-> seek(v, i),
        bytes |-> LET most == count(v, i) * SectorSize
                  IN  IF partImg[v][i] <= most THEN partImg[v][i] ELSE most]]

\* writeOffsetValues: the sector of a structure, written at another place.
offsetsToWrite(v) == {i \in structures(v) : volumes[v].structure[i].offsetWrite}
offsetValue(v, i) == volumes[v].structure[i].offset \div SectorSize

recordFound(v, table) ==
    /\ RootfsPartNum' = IF table.rootfs # -1 THEN table.rootfs ELSE RootfsPartNum
    /\ BootPartNum' = IF table.boot # -1 THEN table.boot ELSE BootPartNum
    /\ HasBIOSPartition' = (HasBIOSPartition \/ table.bios)
    /\ RootfsVolName' = IF table.rootfs # -1 THEN v ELSE RootfsVolName
recordNumbers(v, table) ==
    /\ RootfsPartNum' = table.rootfs /\ BootPartNum' = table.boot
    /\ HasBIOSPartition' = table.bios
    /\ RootfsVolName' = IF table.rootfs # -1 THEN v ELSE RootfsVolName

everyVolume(v) == volumes[v].schema # "emmc"
HasImage(v) == v \in VolumeNames /\ volumes[v].schema # "emmc"

makeDisk(v) ==
    /\ pc = "make_disk" /\ v \in left /\ HasImage(v)
    /\ LET size  == createDiskImage(v)
           table == GeneratePartitionTable(volumes[v], SectorSize, size, IsSeeded)
           written == offsetsToWrite(v)
       IN  IF ~table.ok
           THEN Stop("overlaps GPT") /\ UNCHANGED <<images, numbers>>
           ELSE /\ recordNumbers(v, table)
                /\ images' = [w \in DOMAIN images \cup {v} |->
                                IF w # v THEN images[w]
                                ELSE [size |-> size, partitions |-> table.partitions,
                                      data |-> copyDataToImage(v),
                                      offsets |-> [i \in written |-> offsetValue(v, i)]]]
                /\ IF \E i \in written : volumes[v].structure[i].offset = Unknown
                   THEN Stop("panic")
                   ELSE IF \E i \in written : (size - 4) % Word < offsetValue(v, i)
                   THEN Stop("write offset") ELSE Goto("make_disk")
    /\ left' = left \ {v}
    /\ UNCHANGED <<inputs, volumes, VolumeOrder, IsSeeded, ImageSizes, RootfsSize,
                   VolumeNames, partImg>>

makeNoDisk(v) ==
    /\ pc = "make_disk" /\ v \in left /\ ~HasImage(v)
    /\ left' = left \ {v}
    /\ UNCHANGED <<inputs, pc, volumes, VolumeOrder, IsSeeded, ImageSizes, RootfsSize,
                   VolumeNames, partImg, images, numbers, error>>

disksMade ==
    /\ pc = "make_disk" /\ left = {}
    /\ Goto("setup_bootloader")
    /\ UNCHANGED <<inputs, volumes, VolumeOrder, IsSeeded, ImageSizes, RootfsSize,
                   VolumeNames, partImg, left, images, numbers>>

\* setup_bootloader: at "grub", setupGrub is called with the numbers.
setupBootloader ==
    /\ pc = "setup_bootloader"
    /\ \/ RootfsVolName \notin DOMAIN volumes /\ Stop("no volume")
       \/ /\ RootfsVolName \in DOMAIN volumes
          /\ IF \/ volumes[RootfsVolName].bootloader # "grub"
                \/ RootfsPartNum = -1 \/ BootPartNum = -1
             THEN Goto("done") ELSE Goto("grub") \/ Stop("architecture")
    /\ UNCHANGED <<inputs, volumes, VolumeOrder, IsSeeded, ImageSizes, RootfsSize,
                   VolumeNames, partImg, left, images, numbers>>

setupGrub ==
    /\ pc = "grub"
    /\ Goto("done") \/ Stop("grub")
    /\ UNCHANGED <<inputs, volumes, VolumeOrder, IsSeeded, ImageSizes, RootfsSize,
                   VolumeNames, partImg, left, images, numbers>>

Next ==
    \/ loadGadgetYaml \/ artifactNames \/ calculateRootfsSize
    \/ populatePreparePartitions \/ disksMade \/ setupBootloader \/ setupGrub
    \/ \E v \in left : makeDisk(v) \/ makeNoDisk(v)

Spec == Init /\ [][Next]_vars

-----------------------------------------------------------------------------
(***************************************************************************)
(* What properties below ask of gadgets, when they are taken for all of    *)
(* them.  Structures come one after another and are not smaller than their *)
(* least size, and partitions start at sectors after the table; what       *)
(* follows the rootfs has no offset of its own, so that it moves when the  *)
(* rootfs grows; and there is one rootfs.                                  *)
(***************************************************************************)
WellLaid(g) ==
    LET laid == fixMissingSystemData(g)
        rootfs(v) == {i \in DOMAIN laid[v].structure : IsRootfsStructure(laid[v].structure[i])}
    IN  /\ \A v, w \in NameOf(g) : \A i \in rootfs(v), j \in rootfs(w) : v = w /\ i = j
        /\ \A v \in NameOf(g) : \A i \in DOMAIN laid[v].structure :
             LET s == laid[v].structure[i]
                 start == StartOffset(laid[v])
                 after == {j \in DOMAIN laid[v].structure : i < j}
             IN  /\ s.min <= s.size
                 /\ s.offsetWrite => s.offset # Unknown
                 /\ \A j \in after : start[i] + s.size <= start[j]
                 /\ IsPartition(s) => \A b \in SectorSizes :
                      start[i] % b = 0 /\ start[i] >= primaryGPTSectors(b) * b
                 /\ IsRootfsStructure(s) =>
                      /\ \A b \in SectorSizes : s.size % b = 0
                      /\ \A j \in after : laid[v].structure[j].offset = Unknown

\* No gaps: a volume is as large as its structures together, at their least
\* sizes except for the rootfs.
NoGaps(g) ==
    \A v \in NameOf(g) : LET d == fixMissingSystemData(g)[v] IN
        \A i \in DOMAIN d.structure : IsRootfsStructure(d.structure[i]) =>
            VolumeSize(d) = calculateNoRootfsSize(d) + d.structure[i].size

\* The sizes of partitions are whole numbers of sectors: a GPT keeps no more of
\* them, and their contents are not cut there.
WholeSectors(g) ==
    \A v \in NameOf(g) : \A s \in Range(fixMissingSystemData(g)[v].structure) :
        IsPartition(s) => \A b \in SectorSizes : s.size % b = 0

\* No name comes before a colon above the declaration of an earlier volume.
NamedInOrder(g) ==
    \A v, w \in NameOf(g) : g.declared[v] < g.declared[w] =>
        \A i \in 1..g.declared[v] : g.matches[i] # w

\* Disks have no more sectors than their tables can count.
WithinTables ==
    pc = "make_disk" => \A v \in left :
        createDiskImage(v) \div SectorSize
          < IF volumes[v].schema = "mbr" THEN MBRWord ELSE Word

\* Types; a volume has an image only when makeDisk has come to it.
TypeOK ==
    /\ volumes \in [NameOf(gadget) -> Volumes]
    /\ IsInjective(VolumeOrder) /\ Range(VolumeOrder) \subseteq NameOf(gadget)
    /\ ImageSizes \in [NameOf(gadget) -> Nat \cup {NotSet}]
    /\ RootfsSize \in Nat /\ {IsSeeded, HasBIOSPartition} \subseteq BOOLEAN
    /\ VolumeNames \subseteq NameOf(gadget)
    /\ left \subseteq NameOf(gadget)
    /\ DOMAIN images \subseteq VolumeNames \ left
    /\ {RootfsPartNum, BootPartNum} \subseteq Nat \cup {-1}
    /\ pc = "failed" <=> error # "none"

Partitions(v) == Range(images[v].partitions)
FirstUsable(v) == IF volumes[v].schema = "mbr" THEN 1 ELSE primaryGPTSectors(SectorSize)
EndUsable(v) == images[v].size \div SectorSize
                  - IF volumes[v].schema = "mbr" THEN 0 ELSE secondaryGPTSectors(SectorSize)

\* Whatever size is asked for, and however the rootfs grew, the disk that
\* makeDisk creates has room for every partition between its tables: the check
\* of AddPartition never fails, and MBR volumes, which have no check, would pass
\* it too.
PartitionsFit ==
    /\ error # "overlaps GPT"
    /\ \A v \in DOMAIN images : \A p \in Partitions(v) :
         FirstUsable(v) <= p.start /\ p.start + p.sectors <= EndUsable(v)

\* No two partitions of an image share a sector.  The comment of
\* populatePreparePartitions says that offsets are tracked for that; nothing
\* checks it once calculateRootfsSize has raised the rootfs.
PartitionsDisjoint ==
    \A v \in DOMAIN images : \A m, n \in DOMAIN images[v].partitions :
        LET p == images[v].partitions[m]
            q == images[v].partitions[n]
        IN  m = n \/ p.start + p.sectors <= q.start \/ q.start + q.sectors <= p.start

\* What was prepared for a partition is in it, from its first sector and whole,
\* and sectors written for boot loaders are the ones of the table; the rootfs
\* has the room that its content needs.
ContentInPartition ==
    \A v \in DOMAIN images : \A p \in Partitions(v) :
        LET d == images[v].data[p.structure] IN
        /\ d.seek = p.start
        /\ d.bytes = partImg[v][p.structure] /\ d.bytes <= p.sectors * SectorSize
        /\ IsRootfsStructure(volumes[v].structure[p.structure]) => d.bytes >= getRootfsMinSize
        /\ p.structure \in DOMAIN images[v].offsets => images[v].offsets[p.structure] = p.start

\* The least size of a volume, without its table: as declared, with the rootfs
\* as large as its content needs.
LeastSize(v) ==
    LET needed(s) == IF IsRootfsStructure(s) THEN raiseStructureSizes(s, getRootfsMinSize) ELSE s
        declared == fixMissingSystemData(gadget)[v]
    IN  VolumeSize([declared EXCEPT !.structure = [i \in DOMAIN @ |-> needed(@[i])]])

\* What --image-size makes of a disk.  It has the size asked for, or the least
\* size of its volume when that is larger or nothing is asked, in whole sectors
\* and with the size of the table added.  The rootfs takes what is left to it:
\* nothing as long as the size asked for is not above the least size and the
\* table together, so that up to there the volume is as without the option, if
\* not the disk; and above, all of what the table and the others leave, to the
\* next sector.  calculate_rootfs_size takes the table off the size asked for,
\* makeDisk adds it, and both it and growImageSize compare sizes without it.
ImageSizeHonoured ==
    \A v \in DOMAIN images :
        LET asked == parseImageSizes(VolumeOrder)[v]
            table == PartitionTableSize(volumes[v], SectorSize)
            least == LeastSize(v)
            size  == VolumeSize(volumes[v])
        IN  /\ images[v].size = align(Larger(asked, least)) + table
            /\ IF asked <= least + table \/ rootfsStructures(v) = {}
               THEN size = least
               ELSE asked - table <= size /\ size < asked - table + SectorSize

\* When GRUB is installed, the numbers it is given are those of the rootfs and
\* of a boot partition in the table of the image it is installed on, in whatever
\* order makeDisk went through the volumes.
GrubPartitionsRight ==
    pc = "grub" =>
        /\ RootfsVolName \in DOMAIN images
        /\ LET role(n) == volumes[RootfsVolName].structure[
                             images[RootfsVolName].partitions[n].structure].role
           IN  /\ {RootfsPartNum, BootPartNum} \subseteq DOMAIN images[RootfsVolName].partitions
               /\ role(RootfsPartNum) = "data" /\ role(BootPartNum) \in {"boot", "bios"}
               /\ HasBIOSPartition <=>
                    \E n \in DOMAIN images[RootfsVolName].partitions : role(n) = "bios"

\* Volumes are numbered in the order of gadget.yaml, as --image-size does.
VolumesInOrder ==
    pc \notin {"load_gadget_yaml", "failed"} =>
        \A v, w \in NameOf(gadget) :
            LET number(n) == CHOOSE k \in DOMAIN VolumeOrder : VolumeOrder[k] = n
            IN  gadget.declared[v] < gadget.declared[w] => number(v) < number(w)

=============================================================================
