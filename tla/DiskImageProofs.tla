--------------------------- MODULE DiskImageProofs ---------------------------
(***************************************************************************)
(* Proofs about DiskImage.                                                 *)
(***************************************************************************)
EXTENDS DiskImage, PartitionTableProofs

-----------------------------------------------------------------------------
(***************************************************************************)
(* The numbers recorded by make_disk, in any order of the volumes, are -1  *)
(* or those of the volume that has the rootfs.                             *)
(***************************************************************************)
VolumesInv ==
    /\ gadget \in Gadgets /\ DOMAIN volumes = NameOf(gadget)
    /\ left \subseteq NameOf(gadget)
    /\ \A v \in DOMAIN volumes : /\ "structure" \in DOMAIN volumes[v]
                                 /\ \E n \in Nat : DOMAIN volumes[v].structure = 1..n

RoleOf(n) ==
    volumes[RootfsVolName].structure[images[RootfsVolName].partitions[n].structure].role

NumbersRight ==
    /\ RootfsVolName \in DOMAIN images
    /\ RootfsPartNum \in DOMAIN images[RootfsVolName].partitions
    /\ RoleOf(RootfsPartNum) = "data"
    /\ BootPartNum # -1 => /\ BootPartNum \in DOMAIN images[RootfsVolName].partitions
                          /\ RoleOf(BootPartNum) \in {"boot", "bios"}
    /\ HasBIOSPartition <=>
         \E n \in DOMAIN images[RootfsVolName].partitions : RoleOf(n) = "bios"

NumbersInv ==
    /\ pc \in {"load_gadget_yaml", "verify_artifact_names", "calculate_rootfs_size",
              "populate_prepare_partitions"} => RootfsVolName = noName
    /\ RootfsVolName = noName \/ RootfsPartNum = -1 \/ NumbersRight
    /\ pc = "grub" => RootfsVolName # noName /\ RootfsPartNum # -1 /\ BootPartNum # -1

LEMMA VolumesKept ==
    ASSUME VolumesInv, gadget' = gadget, volumes' = volumes,
           left' \subseteq left \/ left' = DOMAIN volumes
    PROVE  VolumesInv'
  BY DEF VolumesInv

LEMMA SequenceDomain ==
    ASSUME NEW S, NEW q \in Seq(S) PROVE \E n \in Nat : DOMAIN q = 1..n
<1>1. Len(q) \in Nat /\ DOMAIN q = 1..Len(q)
  OBVIOUS
<1>2. QED
  BY <1>1

LEMMA AppendedDomain ==
    ASSUME NEW S, NEW q \in Seq(S), NEW e
    PROVE  \E n \in Nat : DOMAIN Append(q, e) = 1..n
<1>1. q \in Seq(S \cup {e})
  OBVIOUS
<1>2. Append(q, e) \in Seq(S \cup {e})
  BY <1>1
<1>3. QED
  BY <1>2, SequenceDomain

LEMMA Declared ==
    ASSUME NEW g \in Gadgets
    PROVE  /\ noName \notin NameOf(g) /\ DOMAIN g.volumes = NameOf(g)
           /\ \A v \in NameOf(g) : /\ "structure" \in DOMAIN g.volumes[v]
                                    /\ g.volumes[v].structure \in Seq(Structures)
<1>1. g.volumes \in [NameOf(g) -> Volumes] /\ noName \notin NameOf(g)
  BY DiskAssumptions
<1>2. \A v \in NameOf(g) : g.volumes[v] \in Volumes
  BY <1>1
<1>3. QED
  BY <1>1, <1>2 DEF Volumes

LEMMA VolumesAtLoad ==
    ASSUME VolumesInv, loadGadgetYaml PROVE VolumesInv'
<1>1. /\ gadget' = gadget /\ gadget \in Gadgets /\ left' = left
      /\ volumes' = fixMissingSystemData(gadget)
  BY DEF loadGadgetYaml, inputs, VolumesInv
<1>2. /\ DOMAIN gadget.volumes = NameOf(gadget)
      /\ \A v \in NameOf(gadget) : /\ "structure" \in DOMAIN gadget.volumes[v]
                                    /\ gadget.volumes[v].structure \in Seq(Structures)
  BY <1>1, Declared
<1>3. CASE volumes' = gadget.volumes
  <2>1. \A v \in NameOf(gadget) : \E n \in Nat : DOMAIN gadget.volumes[v].structure = 1..n
    BY <1>2, SequenceDomain
  <2>2. QED
    BY <1>1, <1>2, <1>3, <2>1 DEF VolumesInv
<1>4. CASE volumes' # gadget.volumes
  <2> DEFINE appended(v) == Append(gadget.volumes[v].structure,
                                   RootfsAt(farthestOffset(gadget.volumes[v])))
  <2>1. volumes' = [v \in NameOf(gadget) |->
                      [gadget.volumes[v] EXCEPT !.structure = appended(v)]]
    BY <1>1, <1>4 DEF fixMissingSystemData
  <2>2. \A v \in NameOf(gadget) : \E n \in Nat : DOMAIN appended(v) = 1..n
    BY <1>2, AppendedDomain
  <2> HIDE DEF appended
  <2>4. \A v \in NameOf(gadget) : /\ volumes'[v].structure = appended(v)
                                  /\ "structure" \in DOMAIN volumes'[v]
    BY <1>2, <2>1
  <2>5. QED
    BY <1>1, <2>1, <2>2, <2>4 DEF VolumesInv
<1>5. QED
  BY <1>3, <1>4

LEMMA VolumesAtSize ==
    ASSUME VolumesInv, calculateRootfsSize PROVE VolumesInv'
<1>1. gadget' = gadget /\ left' = left
  BY DEF calculateRootfsSize, inputs
<1>2. CASE volumes' = volumes
  BY <1>1, <1>2, VolumesKept
<1>3. CASE volumes' # volumes
  <2>0. PICK v \in DOMAIN volumes : \E i \in rootfsStructures(v) :
          volumes' = [volumes EXCEPT ![v].structure[i] =
                        raiseStructureSizes(@, RootfsSize')]
    BY <1>3 DEF calculateRootfsSize
  <2>1. PICK i \in rootfsStructures(v) :
          volumes' = [volumes EXCEPT ![v].structure[i] =
                        raiseStructureSizes(@, RootfsSize')]
    BY <2>0
  <2>2. DOMAIN volumes' = DOMAIN volumes
    BY <2>1
  <2>3. ASSUME NEW w \in DOMAIN volumes
        PROVE  /\ DOMAIN volumes'[w].structure = DOMAIN volumes[w].structure
               /\ "structure" \in DOMAIN volumes'[w]
    <3>1. CASE w # v
      BY <2>1, <3>1 DEF VolumesInv
    <3>2. CASE w = v
      <4>1. volumes'[v] = [volumes[v] EXCEPT !.structure[i] =
                             raiseStructureSizes(@, RootfsSize')]
        BY <2>1
      <4>2. "structure" \in DOMAIN volumes[v]
        BY DEF VolumesInv
      <4>3. QED
        BY <3>2, <4>1, <4>2
    <3>3. QED
      BY <3>1, <3>2
  <2>4. QED
    BY <1>1, <2>2, <2>3 DEF VolumesInv
<1>4. QED
  BY <1>2, <1>3

LEMMA VolumesStep == ASSUME VolumesInv, [Next]_vars PROVE VolumesInv'
<1>1. CASE loadGadgetYaml
  BY <1>1, VolumesAtLoad
<1>2. CASE calculateRootfsSize
  BY <1>2, VolumesAtSize
<1>3. CASE \/ artifactNames \/ populatePreparePartitions \/ disksMade \/ setupBootloader
           \/ setupGrub \/ UNCHANGED vars \/ \E v \in left : makeDisk(v) \/ makeNoDisk(v)
  <2>1. /\ gadget' = gadget /\ volumes' = volumes
        /\ left' \subseteq left \/ left' = DOMAIN volumes
    BY <1>3 DEF artifactNames, populatePreparePartitions, disksMade, setupBootloader, setupGrub,
                vars, makeDisk, makeNoDisk, inputs
  <2>2. QED
    BY <2>1, VolumesKept
<1>4. QED
  BY <1>1, <1>2, <1>3 DEF Next

LEMMA NumbersRightKept ==
    ASSUME numbers' = numbers, images' = images, volumes' = volumes, NumbersRight
    PROVE  NumbersRight'
<1>1. /\ RootfsVolName' = RootfsVolName /\ RootfsPartNum' = RootfsPartNum
      /\ BootPartNum' = BootPartNum /\ HasBIOSPartition' = HasBIOSPartition
  BY DEF numbers
<1>2. \A m : RoleOf(m)' = RoleOf(m)
  BY <1>1 DEF RoleOf
<1>3. QED
  BY <1>1, <1>2 DEF NumbersRight

\* Before make_disk, and when it makes no disk.
LEMMA NumbersKept ==
    ASSUME NumbersInv, numbers' = numbers, images' = images,
           volumes' = volumes \/ RootfsVolName = noName,
           pc' # "grub",
           RootfsVolName = noName \/
             pc' \notin {"load_gadget_yaml", "verify_artifact_names", "calculate_rootfs_size",
                        "populate_prepare_partitions"}
    PROVE  NumbersInv'
<1>1. RootfsVolName' = RootfsVolName /\ RootfsPartNum' = RootfsPartNum
  BY DEF numbers
<1>2. RootfsVolName = noName \/ RootfsPartNum = -1 \/ NumbersRight'
  BY NumbersRightKept DEF NumbersInv
<1>3. QED
  BY <1>1, <1>2 DEF NumbersInv

LEMMA NumbersAtDisk ==
    ASSUME VolumesInv, NumbersInv, NEW v \in left, makeDisk(v) PROVE NumbersInv'
<1> DEFINE size == createDiskImage(v)
           table == GeneratePartitionTable(volumes[v], SectorSize, size, IsSeeded)
<1>1. pc' \in {"failed", "make_disk"} /\ volumes' = volumes
  BY DEF makeDisk, Stop, Goto
<1>2. PICK n \in Nat : DOMAIN volumes[v].structure = 1..n
  BY DEF VolumesInv
<1>3. CASE ~table.ok
  <2>1. numbers' = numbers /\ images' = images
    BY <1>3 DEF makeDisk
  <2>2. QED
    BY <1>1, <2>1, NumbersKept
<1>4. CASE table.ok
  <2>1. /\ recordNumbers(v, table) /\ v \in DOMAIN images'
        /\ images'[v].partitions = table.partitions
    <3> DEFINE made == [size |-> size, partitions |-> table.partitions,
                        data |-> copyDataToImage(v),
                        offsets |-> [i \in offsetsToWrite(v) |-> offsetValue(v, i)]]
    <3>1. /\ recordNumbers(v, table)
          /\ images' = [w \in DOMAIN images \cup {v} |-> IF w # v THEN images[w] ELSE made]
      BY <1>4 DEF makeDisk
    <3>2. made.partitions = table.partitions
      OBVIOUS
    <3> HIDE DEF made, table
    <3>3. QED
      BY <3>1, <3>2
  <2>2. /\ RootfsPartNum' = table.rootfs /\ BootPartNum' = table.boot
        /\ HasBIOSPartition' = table.bios
        /\ table.rootfs # -1 => RootfsVolName' = v
    BY <2>1 DEF recordNumbers
  <2>3. CASE table.rootfs = -1
    BY <1>1, <2>2, <2>3 DEF NumbersInv
  <2>4. CASE table.rootfs # -1
    <3>1. /\ table.rootfs \in DOMAIN table.partitions
          /\ IsRootfsStructure(volumes[v].structure[table.partitions[table.rootfs].structure])
          /\ table.boot # -1 =>
               /\ table.boot \in DOMAIN table.partitions
               /\ IsSystemBootStructure(
                    volumes[v].structure[table.partitions[table.boot].structure])
          /\ table.bios <=> \E m \in DOMAIN table.partitions :
                IsBIOSBootStructure(volumes[v].structure[table.partitions[m].structure])
      <4> HIDE DEF size
      <4>1. DOMAIN volumes[v].structure = 1..n /\ table.rootfs # -1
        BY <1>2, <2>4
      <4>2. QED
        BY <4>1, TableNumbers
    <3> HIDE DEF table
    <3>2. \A m : RoleOf(m)' = volumes[v].structure[table.partitions[m].structure].role
      BY <1>1, <2>1, <2>2, <2>4 DEF RoleOf
    <3>3. NumbersRight'
      BY <2>1, <2>2, <2>4, <3>1, <3>2
         DEF NumbersRight, IsRootfsStructure, IsSystemBootStructure, IsBIOSBootStructure
    <3>4. QED
      BY <1>1, <3>3 DEF NumbersInv
  <2>5. QED
    BY <2>3, <2>4
<1>5. QED
  BY <1>3, <1>4

LEMMA NumbersAtBootloader ==
    ASSUME VolumesInv, NumbersInv, setupBootloader PROVE NumbersInv'
<1>1. /\ numbers' = numbers /\ images' = images /\ volumes' = volumes
      /\ pc' \in {"failed", "done", "grub"}
  BY DEF setupBootloader, Stop, Goto
<1>2. noName \notin DOMAIN volumes
  BY Declared DEF VolumesInv
<1>3. CASE pc' = "grub"
  <2>1. RootfsVolName # noName /\ RootfsPartNum # -1 /\ BootPartNum # -1
    BY <1>2, <1>3 DEF setupBootloader, Stop, Goto
  <2>2. QED
    <3>1. /\ RootfsVolName' = RootfsVolName /\ RootfsPartNum' = RootfsPartNum
          /\ BootPartNum' = BootPartNum
      BY <1>1 DEF numbers
    <3>2. NumbersRight'
      BY <1>1, <2>1, NumbersRightKept DEF NumbersInv
    <3>3. QED
      BY <1>3, <2>1, <3>1, <3>2 DEF NumbersInv
<1>4. CASE pc' # "grub"
  BY <1>1, <1>4, NumbersKept
<1>5. QED
  BY <1>3, <1>4

LEMMA NumbersStep == ASSUME VolumesInv, NumbersInv, [Next]_vars PROVE NumbersInv'
<1>1. CASE loadGadgetYaml \/ artifactNames \/ calculateRootfsSize \/ populatePreparePartitions
  <2>1. /\ numbers' = numbers /\ images' = images /\ pc' # "grub"
        /\ pc \in {"load_gadget_yaml", "verify_artifact_names", "calculate_rootfs_size",
                  "populate_prepare_partitions"}
    BY <1>1 DEF loadGadgetYaml, artifactNames, calculateRootfsSize,
                populatePreparePartitions, Goto, Stop
  <2>2. RootfsVolName = noName
    BY <2>1 DEF NumbersInv
  <2>3. QED
    BY <2>1, <2>2, NumbersKept
<1>2. CASE disksMade
  <2>1. /\ numbers' = numbers /\ images' = images /\ volumes' = volumes
        /\ pc' = "setup_bootloader"
    BY <1>2 DEF disksMade, Goto
  <2>2. QED
    BY <2>1, NumbersKept
<1>3. CASE setupBootloader
  BY <1>3, NumbersAtBootloader
<1>4. ASSUME NEW v \in left, makeDisk(v) PROVE NumbersInv'
  BY <1>4, NumbersAtDisk
<1>5. ASSUME NEW v \in left, makeNoDisk(v) PROVE NumbersInv'
  <2>1. /\ numbers' = numbers /\ images' = images /\ volumes' = volumes
        /\ pc' = "make_disk"
    BY <1>5 DEF makeNoDisk
  <2>2. QED
    BY <2>1, NumbersKept
<1>6. CASE setupGrub
  <2>1. /\ numbers' = numbers /\ images' = images /\ volumes' = volumes
        /\ pc' \in {"done", "failed"}
    BY <1>6 DEF setupGrub, Goto, Stop
  <2>2. QED
    BY <2>1, NumbersKept
<1>7. CASE UNCHANGED vars
  BY <1>7 DEF vars, numbers, NumbersInv, NumbersRight, RoleOf
<1>8. QED
  BY <1>1, <1>2, <1>3, <1>4, <1>5, <1>6, <1>7 DEF Next

\* When GRUB is installed the numbers it is given are those of the rootfs and
\* of a boot partition of one and the same image, for gadgets of any number of
\* volumes, made in any order.
THEOREM GrubCorrect == Spec => []GrubPartitionsRight
<1>1. Init => VolumesInv /\ NumbersInv
  <2> SUFFICES ASSUME Init PROVE VolumesInv /\ NumbersInv
    OBVIOUS
  <2>1. /\ gadget \in Gadgets /\ volumes = gadget.volumes /\ left = {}
        /\ pc = "load_gadget_yaml" /\ RootfsVolName = noName
    BY DEF Init
  <2>2. VolumesInv
    BY <2>1, Declared, SequenceDomain DEF VolumesInv
  <2>3. QED
    BY <2>1, <2>2 DEF NumbersInv
<1>2. VolumesInv /\ NumbersInv /\ [Next]_vars => (VolumesInv /\ NumbersInv)'
  BY VolumesStep, NumbersStep
<1>3. NumbersInv => GrubPartitionsRight
  <2> SUFFICES ASSUME NumbersInv, pc = "grub" PROVE GrubPartitionsRight
    BY DEF GrubPartitionsRight
  <2>1. NumbersRight /\ BootPartNum # -1
    BY DEF NumbersInv
  <2>2. QED
    BY <2>1 DEF NumbersRight, RoleOf, GrubPartitionsRight
<1>4. QED
  BY <1>1, <1>2, <1>3, PTL DEF Spec

-----------------------------------------------------------------------------
(***************************************************************************)
(* saveVolumeOrder: the volumes in the order of the first places where     *)
(* their names come before a colon.                                        *)
(***************************************************************************)
Sorted(g, order) ==
    \A i, j \in DOMAIN order : i < j => index(g, order[i]) < index(g, order[j])

LEMMA FirstMatch ==
    ASSUME NEW g \in Gadgets, NEW v \in NameOf(g)
    PROVE  /\ index(g, v) \in DOMAIN g.matches /\ g.matches[index(g, v)] = v
           /\ \A i \in DOMAIN g.matches : g.matches[i] = v => index(g, v) <= i
<1> DEFINE places == {i \in DOMAIN g.matches : g.matches[i] = v}
           First(i) == i \in DOMAIN g.matches /\ g.matches[i] = v
                         /\ \A j \in 1..i - 1 : g.matches[j] # v
<1>1. g.matches \in Seq(NameOf(g)) /\ g.declared[v] \in places
  BY DiskAssumptions
<1>2. DOMAIN g.matches = 1..Len(g.matches) /\ Len(g.matches) \in Nat
  BY <1>1
<1>3. places \in SUBSET Nat /\ places # {}
  BY <1>1, <1>2
<1>4. PICK i \in places : \A j \in places : i <= j
  <2> HIDE DEF places
  <2>1. QED
    BY <1>3, Least
<1>5. First(i)
  <2>1. i \in 1..Len(g.matches) /\ g.matches[i] = v
    BY <1>2, <1>4
  <2>2. ASSUME NEW j \in 1..i - 1 PROVE g.matches[j] # v
    <3>1. j \in 1..Len(g.matches) /\ j < i /\ j \in Nat /\ i \in Nat
      BY <1>2, <2>1
    <3>2. j \notin places
      <4> HIDE DEF places
      <4>1. QED
        BY <1>4, <3>1
    <3>3. QED
      BY <1>2, <3>1, <3>2
  <2>3. QED
    BY <1>2, <2>1, <2>2
<1>6. index(g, v) = CHOOSE k \in DOMAIN g.matches :
                      g.matches[k] = v /\ \A j \in 1..k - 1 : g.matches[j] # v
  BY DEF index, firstMatch
<1>7. First(index(g, v))
  BY <1>5, <1>6
<1> HIDE DEF First
<1>8. PICK k : k = index(g, v)
  OBVIOUS
<1>9. k \in 1..Len(g.matches) /\ g.matches[k] = v /\ \A j \in 1..k - 1 : g.matches[j] # v
  BY <1>2, <1>7, <1>8 DEF First
<1>10. ASSUME NEW j \in 1..Len(g.matches), g.matches[j] = v PROVE k <= j
  BY <1>2, <1>9, <1>10
<1>11. QED
  BY <1>2, <1>8, <1>9, <1>10

LEMMA NamesFinite ==
    ASSUME NEW g \in Gadgets
    PROVE  LET firsts == {index(g, v) : v \in NameOf(g)} IN
           /\ Len(g.matches) \in Nat /\ firsts \in SUBSET (1..Len(g.matches))
           /\ IsFiniteSet(NameOf(g)) /\ Cardinality(NameOf(g)) \in Nat
           /\ Cardinality(firsts) = Cardinality(NameOf(g))
<1> DEFINE firsts == {index(g, v) : v \in NameOf(g)}
           first == [v \in NameOf(g) |-> index(g, v)]
<1>1. g.matches \in Seq(NameOf(g))
  BY DiskAssumptions
<1>2. DOMAIN g.matches = 1..Len(g.matches) /\ Len(g.matches) \in Nat
  BY <1>1
<1>3. firsts \in SUBSET (1..Len(g.matches))
  BY <1>2, FirstMatch
<1>4. first \in Injection(NameOf(g), firsts) /\ first \in Surjection(NameOf(g), firsts)
  <2>1. \A v, w \in NameOf(g) : index(g, v) = index(g, w) => v = w
    <3> TAKE v, w \in NameOf(g)
    <3>1. g.matches[index(g, v)] = v /\ g.matches[index(g, w)] = w
      BY FirstMatch
    <3>2. QED
      BY <3>1
  <2>2. QED
    BY <2>1 DEF Injection, IsInjective, Surjection
<1>5. IsFiniteSet(firsts)
  <2>1. IsFiniteSet(1..Len(g.matches))
    BY <1>2, FS_Interval
  <2>2. QED
    BY <1>3, <2>1, FS_Subset
<1> HIDE DEF first, firsts
<1>6. IsFiniteSet(NameOf(g)) /\ Cardinality(NameOf(g)) = Cardinality(firsts)
  BY <1>4, <1>5, FS_Injection
<1>7. QED
  BY <1>2, <1>3, <1>6, FS_CardinalityType DEF firsts

LEMMA SortedExists ==
    ASSUME NEW g \in Gadgets
    PROVE  \E order \in [1..Cardinality(NameOf(g)) -> NameOf(g)] : Sorted(g, order)
<1> DEFINE firsts == {index(g, v) : v \in NameOf(g)}
           n == Len(g.matches)
           c == Cardinality(NameOf(g))
<1>1. n \in Nat /\ firsts \in SUBSET (1..n) /\ c \in Nat /\ Cardinality(firsts) = c
  BY NamesFinite
<1>2. ASSUME NEW k \in 1..c
      PROVE  \E v \in NameOf(g) : Rank(firsts, index(g, v)) = k
  <2>1. PICK i \in firsts : Rank(firsts, i) = k
    <3> HIDE DEF firsts, n, c
    <3>1. QED
      BY <1>1, <1>2, RankSurjective
  <2>2. QED
    BY <2>1
<1> DEFINE order == [k \in 1..c |-> CHOOSE v \in NameOf(g) : Rank(firsts, index(g, v)) = k]
<1>3. \A k \in 1..c : order[k] \in NameOf(g) /\ Rank(firsts, index(g, order[k])) = k
  <2> HIDE DEF firsts
  <2>1. QED
    BY <1>2
<1>4. ASSUME NEW i \in 1..c, NEW j \in 1..c, i < j
      PROVE  index(g, order[i]) < index(g, order[j])
  <2> DEFINE a == index(g, order[i])
             b == index(g, order[j])
  <2>1. a \in firsts /\ b \in firsts /\ Rank(firsts, a) = i /\ Rank(firsts, b) = j
    <3> HIDE DEF order
    <3>1. QED
      BY <1>3
  <2> HIDE DEF firsts, order, a, b
  <2>2. a \in Nat /\ b \in Nat
    BY <1>1, <2>1
  <2>3. ~(b < a)
    <3>1. ASSUME b < a PROVE FALSE
      <4>1. Rank(firsts, b) < Rank(firsts, a)
        BY <1>1, <2>1, <3>1, RankGrows
      <4>2. QED
        BY <1>1, <1>4, <2>1, <4>1
    <3>2. QED
      BY <3>1
  <2>4. a # b
    BY <1>1, <1>4, <2>1
  <2>5. QED
    BY <2>2, <2>3, <2>4 DEF a, b
<1>5. order \in [1..c -> NameOf(g)]
  BY <1>3
<1>6. DOMAIN order = 1..c
  OBVIOUS
<1> HIDE DEF order
<1>7. Sorted(g, order)
  BY <1>4, <1>6 DEF Sorted
<1>8. QED
  BY <1>5, <1>7

\* Every volume is in the order once.
LEMMA Ordered ==
    ASSUME NEW g \in Gadgets, NEW order, order = saveVolumeOrder(g)
    PROVE  /\ order \in [1..Cardinality(NameOf(g)) -> NameOf(g)]
           /\ Sorted(g, order) /\ IsInjective(order) /\ Range(order) = NameOf(g)
           /\ Cardinality(NameOf(g)) \in Nat /\ order \in Seq(NameOf(g))
<1> DEFINE c == Cardinality(NameOf(g))
<1>1. order \in [1..c -> NameOf(g)] /\ Sorted(g, order)
  BY SortedExists DEF saveVolumeOrder, Sorted
<1>2. c \in Nat /\ IsFiniteSet(NameOf(g))
  BY NamesFinite
<1> HIDE DEF c
<1>3. ASSUME NEW i \in 1..c, NEW j \in 1..c, i < j PROVE order[i] # order[j]
  <2>1. index(g, order[i]) < index(g, order[j])
    BY <1>1, <1>3 DEF Sorted
  <2>2. index(g, order[i]) \in Nat
    <3>1. order[i] \in NameOf(g)
      BY <1>1
    <3>2. index(g, order[i]) \in DOMAIN g.matches /\ g.matches \in Seq(NameOf(g))
      BY <3>1, FirstMatch, DiskAssumptions
    <3>3. QED
      BY <3>2
  <2>3. QED
    BY <2>1, <2>2
<1>4. IsInjective(order)
  <2>1. ASSUME NEW i \in 1..c, NEW j \in 1..c, order[i] = order[j] PROVE i = j
    <3>1. ~(i < j) /\ ~(j < i)
      BY <1>3, <2>1
    <3>2. QED
      BY <1>2, <3>1
  <2>2. QED
    BY <1>1, <2>1 DEF IsInjective
<1>5. Range(order) = NameOf(g)
  <2>1. order \in Injection(1..c, NameOf(g))
    BY <1>1, <1>4 DEF Injection
  <2>2. Cardinality(1..c) = Cardinality(NameOf(g))
    <3>1. Cardinality(1..c) = c
      BY <1>2, FS_Interval
    <3>2. QED
      BY <3>1 DEF c
  <2>3. order \in Surjection(1..c, NameOf(g))
    BY <1>2, <2>1, <2>2, FS_Injection
  <2>4. QED
    BY <1>1, <2>3 DEF Surjection, Range
<1>6. order \in Seq(NameOf(g))
  BY <1>1, <1>2
<1>7. QED
  BY <1>1, <1>2, <1>4, <1>5, <1>6 DEF c

\* When no name comes before a colon above the declaration of a volume that is
\* declared before, the order is that of the declarations.
LEMMA OrderedAsDeclared ==
    ASSUME NEW g \in Gadgets, NamedInOrder(g), NEW order, order = saveVolumeOrder(g),
           NEW v \in NameOf(g), NEW w \in NameOf(g), g.declared[v] < g.declared[w]
    PROVE  LET number(n) == CHOOSE k \in DOMAIN order : order[k] = n
           IN  number(v) < number(w)
<1> DEFINE number(n) == CHOOSE k \in DOMAIN order : order[k] = n
           c == Cardinality(NameOf(g))
<1>1. /\ order \in [1..c -> NameOf(g)] /\ Sorted(g, order) /\ Range(order) = NameOf(g)
      /\ c \in Nat
  BY Ordered
<1>2. \A n \in NameOf(g) : number(n) \in 1..c /\ order[number(n)] = n
  BY <1>1 DEF Range
<1>3. g.declared[v] \in DOMAIN g.matches /\ g.declared[w] \in DOMAIN g.matches
      /\ g.matches[g.declared[v]] = v /\ DOMAIN g.matches \subseteq Nat
  <2>1. g.matches \in Seq(NameOf(g))
    BY DiskAssumptions
  <2>2. DOMAIN g.matches \subseteq Nat
    BY <2>1
  <2>3. QED
    BY <2>2, DiskAssumptions
<1>4. index(g, v) <= g.declared[v]
  BY <1>3, FirstMatch
<1>5. ~(index(g, w) <= g.declared[v])
  <2>1. \A i \in 1..g.declared[v] : g.matches[i] # w
    BY DEF NamedInOrder
  <2>2. index(g, w) \in DOMAIN g.matches /\ g.matches[index(g, w)] = w
    BY FirstMatch
  <2>3. index(g, w) \in Nat /\ index(g, w) >= 1 /\ g.declared[v] \in Nat
    <3>1. g.matches \in Seq(NameOf(g))
      BY DiskAssumptions
    <3>2. DOMAIN g.matches = 1..Len(g.matches)
      BY <3>1
    <3>3. QED
      BY <1>3, <2>2, <3>2
  <2>4. QED
    BY <2>1, <2>2, <2>3
<1>6. index(g, v) \in Nat /\ index(g, w) \in Nat /\ g.declared[v] \in Nat
  BY <1>3, FirstMatch
<1>7. index(g, v) < index(g, w)
  BY <1>4, <1>5, <1>6
<1> HIDE DEF number, c
<1>8. number(v) # number(w)
  BY <1>2, <1>6, <1>7
<1>9. ~(number(w) < number(v))
  <2>1. ASSUME number(w) < number(v) PROVE FALSE
    <3>1. index(g, order[number(w)]) < index(g, order[number(v)])
      BY <1>1, <1>2, <2>1 DEF Sorted
    <3>2. index(g, w) < index(g, v)
      BY <1>2, <3>1
    <3>3. QED
      BY <1>6, <1>7, <3>2
  <2>2. QED
    BY <2>1
<1>10. number(v) \in Nat /\ number(w) \in Nat
  BY <1>1, <1>2
<1>11. number(v) < number(w)
  BY <1>8, <1>9, <1>10
<1>12. QED
  BY <1>11 DEF number

-----------------------------------------------------------------------------
(***************************************************************************)
(* Types of what is computed on the way.                                   *)
(***************************************************************************)
LEMMA FarthestOfSome ==
    ASSUME NEW n \in Nat, NEW f \in [1..n -> Nat]
    PROVE  LET ends == {f[i] : i \in 1..n} \cup {0}
           IN  \E e \in ends : \A x \in ends : x <= e
<1> DEFINE ends(m) == {f[i] : i \in 1..m} \cup {0}
           T == {m \in Nat : m <= n => \E e \in ends(m) : \A x \in ends(m) : x <= e}
<1>1. 0 \in T
  <2>1. ends(0) = {0}
    OBVIOUS
  <2>2. QED
    BY <2>1
<1>2. ASSUME NEW m \in T, m + 1 <= n
      PROVE  \E e \in ends(m + 1) : \A x \in ends(m + 1) : x <= e
  <2>1. m \in Nat /\ m <= n /\ m + 1 \in 1..n
    BY <1>2
  <2>2. PICK e \in ends(m) : \A x \in ends(m) : x <= e
    BY <2>1
  <2>3. ends(m + 1) = ends(m) \cup {f[m + 1]}
    <3>1. 1..m + 1 = (1..m) \cup {m + 1}
      BY <2>1
    <3>2. QED
      BY <3>1
  <2>4. ends(m) \subseteq Nat /\ f[m + 1] \in Nat
    BY <2>1
  <2> HIDE DEF ends, T
  <2>5. CASE f[m + 1] <= e
    BY <2>2, <2>3, <2>5
  <2>6. CASE ~(f[m + 1] <= e)
    <3>1. \A x \in ends(m + 1) : x <= f[m + 1]
      BY <2>2, <2>3, <2>4, <2>6
    <3>2. QED
      BY <2>3, <3>1
  <2>7. QED
    BY <2>5, <2>6
<1>3. T \in SUBSET Nat /\ \A m \in T : m + 1 \in T
  <2>1. \A m \in T : m + 1 \in Nat
    OBVIOUS
  <2> HIDE DEF ends
  <2>2. QED
    BY <1>2, <2>1
<1> HIDE DEF T
<1>4. n \in T
  BY <1>1, <1>3, Induction
<1> USE DEF T
<1>5. QED
  BY <1>4

LEMMA FarthestOffset ==
    ASSUME NEW v, v.structure \in Seq(Structures),
           \A s \in Range(v.structure) : s.offset # Unknown
    PROVE  farthestOffset(v) \in Nat
<1> DEFINE n == Len(v.structure)
           f == [i \in 1..n |-> v.structure[i].offset + v.structure[i].size]
           ends == {s.offset + s.size : s \in Range(v.structure)} \cup {0}
<1>1. n \in Nat /\ DOMAIN v.structure = 1..n
  OBVIOUS
<1>2. \A i \in 1..n : v.structure[i] \in Structures /\ v.structure[i].offset # Unknown
  BY DEF Range
<1>3. \A i \in 1..n : v.structure[i].offset \in Nat /\ v.structure[i].size \in Nat
  BY <1>2 DEF Structures
<1>4. f \in [1..n -> Nat]
  BY <1>3
<1>5. ends = {f[i] : i \in 1..n} \cup {0}
  BY <1>1 DEF Range
<1> HIDE DEF f, n
<1>6. /\ \E e \in ends : \A x \in ends : x <= e
      /\ ends \subseteq Nat
  <2> DEFINE values == {f[i] : i \in 1..n} \cup {0}
  <2>1. values \subseteq Nat
    BY <1>4
  <2>2. \E e \in values : \A x \in values : x <= e
    BY <1>1, <1>4, FarthestOfSome
  <2>3. ends = values
    BY <1>5
  <2> HIDE DEF values, ends
  <2>4. QED
    BY <2>1, <2>2, <2>3
<1>7. farthestOffset(v) = CHOOSE e \in ends : \A x \in ends : x <= e
  BY DEF farthestOffset
<1> HIDE DEF ends
<1>8. QED
  BY <1>6, <1>7

LEMMA FixedVolumes ==
    ASSUME NEW g \in Gadgets
    PROVE  fixMissingSystemData(g) \in [NameOf(g) -> Volumes]
<1> DEFINE all == UNION {Range(g.volumes[v].structure) : v \in NameOf(g)}
           added(v) == [g.volumes[v] EXCEPT
                          !.structure = Append(@, RootfsAt(farthestOffset(g.volumes[v])))]
<1>1. g.volumes \in [NameOf(g) -> Volumes]
  BY DiskAssumptions
<1>2. CASE fixMissingSystemData(g) = g.volumes
  BY <1>1, <1>2
<1>3. CASE fixMissingSystemData(g) # g.volumes
  <2>1. /\ \A s \in all : s.offset # Unknown
        /\ fixMissingSystemData(g) = [v \in NameOf(g) |-> added(v)]
    BY <1>3 DEF fixMissingSystemData
  <2>2. ASSUME NEW v \in NameOf(g) PROVE added(v) \in Volumes
    <3>1. g.volumes[v] \in Volumes
      BY <1>1
    <3>2. farthestOffset(g.volumes[v]) \in Nat
      <4>1. \A s \in Range(g.volumes[v].structure) : s.offset # Unknown
        BY <2>1
      <4>2. g.volumes[v].structure \in Seq(Structures)
        BY <3>1 DEF Volumes
      <4> HIDE DEF all
      <4>3. QED
        BY <4>1, <4>2, FarthestOffset
    <3>3. RootfsAt(farthestOffset(g.volumes[v])) \in Structures
      BY <3>2 DEF RootfsAt, Structures, Roles
    <3> DEFINE s == g.volumes[v].structure
               e == RootfsAt(farthestOffset(g.volumes[v]))
    <3>4. s \in Seq(Structures)
      BY <3>1 DEF Volumes
    <3> HIDE DEF e
    <3>5. Append(s, e) \in Seq(Structures)
      BY <3>3, <3>4 DEF e
    <3>6. added(v) = [g.volumes[v] EXCEPT !.structure = Append(s, e)]
      BY DEF e
    <3> HIDE DEF added, s
    <3>7. QED
      BY <3>1, <3>5, <3>6 DEF Volumes
  <2> HIDE DEF added, all
  <2>3. QED
    BY <2>1, <2>2
<1>4. QED
  BY <1>2, <1>3

LEMMA NoRootfsSize ==
    ASSUME NEW v \in Volumes
    PROVE  \E size \in [0..Len(v.structure) -> Nat] :
             /\ calculateNoRootfsSize(v) = size[Len(v.structure)] /\ size[0] = 0
             /\ \A i \in 1..Len(v.structure) :
                  size[i] = IF IsRootfsStructure(v.structure[i]) THEN size[i - 1]
                            ELSE Larger(v.structure[i].offset, size[i - 1]) + v.structure[i].min
<1> DEFINE s == v.structure
           n == Len(s)
           Unfolded(f) == f = [i \in 0..n |->
                 IF i = 0 THEN 0
                 ELSE IF IsRootfsStructure(s[i]) THEN f[i - 1]
                 ELSE Larger(s[i].offset, f[i - 1]) + s[i].min]
           step(i, x) == IF i \notin 1..n \/ IsRootfsStructure(s[i]) THEN x
                         ELSE Larger(s[i].offset, x) + s[i].min
           next == [i \in Nat |-> [x \in Nat |-> step(i + 1, x)]]
<1>1. n \in Nat /\ DOMAIN s = 1..n /\ \A i \in 1..n : s[i] \in Structures
  BY DEF Volumes
<1>2. \A i \in Nat, x \in Nat : step(i, x) \in Nat
  <2> TAKE i \in Nat, x \in Nat
  <2>1. CASE i \in 1..n /\ ~IsRootfsStructure(s[i])
    <3>1. s[i].offset \in Nat \cup {Unknown} /\ s[i].min \in Nat
      BY <1>1, <2>1 DEF Structures
    <3>2. Larger(s[i].offset, x) \in Nat
      BY <3>1 DEF Larger, Unknown
    <3>3. QED
      BY <2>1, <3>1, <3>2
  <2>2. QED
    BY <2>1
<1>3. next \in [Nat -> [Nat -> Nat]]
  <2>1. \A i \in Nat : i + 1 \in Nat
    OBVIOUS
  <2> HIDE DEF step
  <2>2. QED
    BY <1>2, <2>1
<1>4. PICK g \in [Nat -> Nat] : Recurs(g, 0, next)
  <2> HIDE DEF next
  <2>1. 0 \in Nat
    OBVIOUS
  <2>2. QED
    BY <1>3, <2>1, Recursion
<1>5. g[0] = 0 /\ \A i \in Nat : g[i + 1] = step(i + 1, g[i])
  BY <1>4 DEF Recurs
<1> DEFINE f == [i \in 0..n |-> g[i]]
<1>6. f \in [0..n -> Nat] /\ f[0] = 0
  BY <1>1, <1>5
<1>7. ASSUME NEW i \in 1..n PROVE f[i] = step(i, f[i - 1])
  <2>1. i - 1 \in Nat /\ (i - 1) + 1 = i /\ i - 1 \in 0..n /\ i \in 0..n
    <3> HIDE DEF n, s
    <3>1. QED
      BY <1>1
  <2> HIDE DEF step
  <2>2. g[(i - 1) + 1] = step((i - 1) + 1, g[i - 1])
    BY <1>5, <2>1
  <2>3. QED
    BY <2>1, <2>2
<1>8. Unfolded(f)
  <2>1. \A i \in 0..n : i = 0 \/ i \in 1..n
    BY <1>1
  <2>2. f = [i \in 0..n |-> f[i]]
    OBVIOUS
  <2> HIDE DEF f, n, s
  <2>3. \A i \in 0..n : f[i] = IF i = 0 THEN 0
                 ELSE IF IsRootfsStructure(s[i]) THEN f[i - 1]
                 ELSE Larger(s[i].offset, f[i - 1]) + s[i].min
    BY <1>6, <1>7, <2>1
  <2>4. QED
    BY <2>2, <2>3
<1>9. calculateNoRootfsSize(v) = (CHOOSE h : Unfolded(h))[n]
  BY DEF calculateNoRootfsSize
<1>10. Unfolded(CHOOSE h : Unfolded(h))
  <2> HIDE DEF Unfolded
  <2>1. QED
    BY <1>8, Zenon
<1>11. PICK h : h = CHOOSE h_1 : Unfolded(h_1)
  OBVIOUS
<1>12. Unfolded(h) /\ calculateNoRootfsSize(v) = h[n]
  <2> HIDE DEF Unfolded, n
  <2>1. QED
    BY <1>9, <1>10, <1>11
<1>13. \A i \in 0..n : h[i] = IF i = 0 THEN 0
                 ELSE IF IsRootfsStructure(s[i]) THEN h[i - 1]
                 ELSE Larger(s[i].offset, h[i - 1]) + s[i].min
  BY <1>12
<1> DEFINE before(i) == IF IsRootfsStructure(s[i]) THEN h[i - 1]
                       ELSE Larger(s[i].offset, h[i - 1]) + s[i].min
<1>14. h[0] = 0 /\ \A i \in 1..n : h[i] = before(i)
  <2>1. 0 \in 0..n /\ \A i \in 1..n : i \in 0..n /\ i # 0
    <3>1. n \in Nat
      BY <1>1
    <3> HIDE DEF n
    <3>2. QED
      BY <3>1
  <2>2. \A i \in 0..n : h[i] = IF i = 0 THEN 0 ELSE before(i)
    BY <1>13
  <2> HIDE DEF s, n, Unfolded, before
  <2>3. QED
    BY <2>1, <2>2
<1>15. \A i \in Nat : i <= n => h[i] \in Nat
  <2> DEFINE T == {i \in Nat : i <= n => h[i] \in Nat}
  <2>1. 0 \in T
    BY <1>14
  <2>2. ASSUME NEW i \in T PROVE i + 1 \in T
    <3>1. CASE i + 1 \in 1..n
      <4>1. i \in Nat /\ (i + 1) - 1 = i /\ h[i] \in Nat
        <5>1. i \in Nat /\ (i <= n => h[i] \in Nat)
          BY <2>2
        <5> HIDE DEF T, n
        <5>2. n \in Nat
          BY <1>1
        <5>3. i <= n /\ (i + 1) - 1 = i
          BY <3>1, <5>1, <5>2
        <5>4. QED
          BY <5>1, <5>3
      <4>2. h[i + 1] = step(i + 1, h[i])
        <5> HIDE DEF T, n, s
        <5>1. h[i + 1] = before(i + 1)
          <6> HIDE DEF before
          <6>1. QED
            BY <1>14, <3>1
        <5>2. before(i + 1) = step(i + 1, h[i])
          BY <3>1, <4>1
        <5> HIDE DEF before, step
        <5>3. QED
          BY <5>1, <5>2
      <4> HIDE DEF step
      <4>3. h[i + 1] \in Nat
        <5>1. i + 1 \in Nat
          BY <4>1
        <5>2. QED
          BY <1>2, <4>1, <4>2, <5>1
      <4>4. QED
        BY <4>3
    <3>2. CASE i + 1 \notin 1..n
      <4> HIDE DEF n, s
      <4>1. ~(i + 1 <= n)
        BY <1>1, <3>2
      <4>2. QED
        BY <4>1
    <3>3. QED
      BY <3>1, <3>2
  <2>3. T = Nat
    <3> HIDE DEF s, n, Unfolded, step, next
    <3>1. QED
      BY <2>1, <2>2, Induction
  <2>4. QED
    BY <2>3
<1>16. h \in [0..n -> Nat]
  <2>1. \A i \in 0..n : h[i] \in Nat
    BY <1>1, <1>15
  <2>2. h = [i \in 0..n |-> h[i]]
    BY <1>12
  <2>3. QED
    BY <2>1, <2>2
<1>17. QED
  <2> HIDE DEF Unfolded, step, next
  <2>1. QED
    BY <1>12, <1>14, <1>16

LEMMA Aligned ==
    ASSUME SectorSize \in SectorSizes, NEW a \in Nat
    PROVE  /\ SectorSize \in KnownSizes /\ align(a) \in Nat
           /\ a <= align(a) /\ align(a) < a + SectorSize /\ align(a) % SectorSize = 0
<1>1. SectorSize \in KnownSizes
  BY DiskAssumptions DEF KnownSizes
<1>2. CASE SectorSize = 512
  BY <1>1, <1>2 DEF align, Ceil
<1>3. CASE SectorSize = 4096
  BY <1>1, <1>3 DEF align, Ceil
<1>4. QED
  BY <1>1, <1>2, <1>3 DEF KnownSizes

LEMMA ParsedSizes ==
    ASSUME sizeFlag \in SizeFlags, NEW order
    PROVE  parseImageSizes(order) \in [Range(order) -> Nat \cup {NotSet}]
<1>1. sizeFlag \in Seq(Arguments)
  BY DiskAssumptions
<1>2. /\ Len(sizeFlag) \in Nat /\ DOMAIN sizeFlag = 1..Len(sizeFlag)
      /\ \A i \in 1..Len(sizeFlag) : sizeFlag[i].size \in Nat
  <2>1. \A i \in 1..Len(sizeFlag) : sizeFlag[i] \in Arguments
    BY <1>1
  <2>2. \A a \in Arguments : a.size \in Nat
    BY DEF Arguments
  <2>3. QED
    BY <1>1, <2>1, <2>2
<1>3. ASSUME NEW v, NEW args \in SUBSET (1..Len(sizeFlag)), args # {}
      PROVE  sizeFlag[CHOOSE i \in args : \A j \in args : j <= i].size \in Nat
  <2>1. \E i \in args : \A j \in args : j <= i
    BY <1>2, <1>3, Largest
  <2>2. QED
    BY <1>2, <2>1
<1>4. QED
  <2> DEFINE args(v) == {i \in DOMAIN sizeFlag : v \in sizeOf(order, sizeFlag[i])}
             parsed(v) == IF args(v) = {} THEN NotSet
                          ELSE sizeFlag[CHOOSE i \in args(v) : \A j \in args(v) : j <= i].size
  <2>1. ASSUME NEW v PROVE parsed(v) \in Nat \cup {NotSet}
    <3>1. args(v) \in SUBSET (1..Len(sizeFlag))
      BY <1>2
    <3> HIDE DEF args
    <3>2. QED
      BY <1>3, <3>1
  <2>2. parseImageSizes(order) = [v \in Range(order) |-> parsed(v)]
    BY DEF parseImageSizes
  <2> HIDE DEF parsed
  <2>3. QED
    BY <2>1, <2>2

LEMMA RaisedVolumes ==
    ASSUME NEW N, NEW vols \in [N -> Volumes], NEW v \in N,
           NEW i \in DOMAIN vols[v].structure, NEW size \in Nat
    PROVE  [vols EXCEPT ![v].structure[i] = raiseStructureSizes(@, size)] \in [N -> Volumes]
<1> DEFINE s == vols[v].structure
           raised == raiseStructureSizes(s[i], size)
<1>1. vols[v] \in Volumes /\ s \in Seq(Structures)
  BY DEF Volumes
<1>2. s[i] \in Structures
  BY <1>1
<1>3. raised \in Structures
  BY <1>2 DEF raiseStructureSizes, Larger, Structures
<1> HIDE DEF raised
<1>4. [s EXCEPT ![i] = raised] \in Seq(Structures)
  BY <1>1, <1>3
<1>5. [vols[v] EXCEPT !.structure = [s EXCEPT ![i] = raised]] \in Volumes
  <2> DEFINE t == [s EXCEPT ![i] = raised]
  <2>1. t \in Seq(Structures)
    BY <1>4
  <2> HIDE DEF t
  <2>2. [vols[v] EXCEPT !.structure = t] \in Volumes
    BY <1>1, <2>1 DEF Volumes
  <2>3. QED
    BY <2>2 DEF t
<1>6. QED
  <2> DEFINE u == [vols[v] EXCEPT !.structure[i] = raiseStructureSizes(@, size)]
  <2>1. u \in Volumes
    BY <1>5 DEF raised
  <2>2. [vols EXCEPT ![v].structure[i] = raiseStructureSizes(@, size)] = [vols EXCEPT ![v] = u]
    OBVIOUS
  <2> HIDE DEF u
  <2>3. QED
    BY <2>1, <2>2

LEMMA NumberTypes ==
    ASSUME NEW v, NEW n \in Nat, DOMAIN v.structure = 1..n, NEW isSeeded
    PROVE  {RootfsNumber(v, isSeeded), BootNumber(v, isSeeded)} \subseteq Nat \cup {-1}
<1>1. \A i : PartitionNumber(v, isSeeded, i) \in Nat
  <2> TAKE i
  <2>1. IsFiniteSet(1..n)
    BY FS_Interval
  <2>2. {j \in Added(v, isSeeded) : j < i} \subseteq 1..n
    BY DEF Added
  <2>3. Cardinality({j \in Added(v, isSeeded) : j < i}) \in Nat
    BY <2>1, <2>2, FS_Subset, FS_CardinalityType
  <2>4. QED
    BY <2>3 DEF PartitionNumber
<1>2. \A S : LastNumber(v, isSeeded, S) \in Nat \cup {-1}
  BY <1>1 DEF LastNumber
<1>3. QED
  BY <1>2 DEF RootfsNumber, BootNumber

LEMMA SizeTypes ==
    ASSUME SectorSize \in SectorSizes, content \in ContentSizes,
           volumes \in [NameOf(gadget) -> Volumes],
           ImageSizes \in [NameOf(gadget) -> Nat \cup {NotSet}]
    PROVE  /\ getRootfsMinSize \in Nat
           /\ \A v \in NameOf(gadget) : \A i \in DOMAIN volumes[v].structure :
                rootfsSize(v, i) \in Nat
<1>1. getRootfsMinSize \in Nat
  <2>1. content \in Nat /\ ext4Padding \in Nat
    BY DiskAssumptions
  <2>2. Ceil(3 * content, 2) \in Nat
    BY <2>1 DEF Ceil
  <2>3. Ceil(3 * content, 2) + ext4Padding \in Nat
    BY <2>1, <2>2
  <2>4. QED
    BY <2>3, Aligned DEF getRootfsMinSize
<1>2. ASSUME NEW v \in NameOf(gadget), NEW i \in DOMAIN volumes[v].structure
      PROVE  rootfsSize(v, i) \in Nat
  <2>1. volumes[v] \in Volumes /\ volumes[v].structure[i] \in Structures
    BY DEF Volumes
  <2>2. align(volumes[v].structure[i].min) \in Nat
    BY <2>1, Aligned DEF Structures
  <2>3. ASSUME ImageSizes[v] # NotSet PROVE getRootfsDesiredSize(v) \in Nat
    <3>1. ImageSizes[v] \in Nat
      BY <2>3
    <3>2. calculateNoRootfsSize(volumes[v]) \in Nat
      <4>1. Len(volumes[v].structure) \in Nat
        BY <2>1 DEF Volumes
      <4>2. PICK size \in [0..Len(volumes[v].structure) -> Nat] :
              calculateNoRootfsSize(volumes[v]) = size[Len(volumes[v].structure)]
        BY <2>1, NoRootfsSize
      <4>3. QED
        BY <4>1, <4>2
    <3>3. PartitionTableSize(volumes[v], SectorSize) \in Nat
      <4>1. SectorSize \in KnownSizes
        BY DiskAssumptions DEF KnownSizes
      <4>2. QED
        BY <4>1, TableSize
    <3>4. SafeQuantitySubtraction(ImageSizes[v],
            calculateNoRootfsSize(volumes[v]) + PartitionTableSize(volumes[v], SectorSize)) \in Nat
      BY <3>1, <3>2, <3>3 DEF SafeQuantitySubtraction
    <3>5. QED
      BY <3>4, Aligned DEF getRootfsDesiredSize
  <2>4. QED
    BY <1>1, <2>2, <2>3 DEF rootfsSize, Larger
<1>3. QED
  BY <1>1, <1>2

LEMMA VolumeSizes ==
    ASSUME NEW v \in Volumes
    PROVE  VolumeSize(v) \in Nat /\ VolumeMinSize(v) \in Nat
<1>1. v.structure \in Seq(Structures)
  BY DEF Volumes
<1>2. ASSUME NEW size \in [DOMAIN v.structure -> Nat] PROVE VolumeEnd(v, size) \in Nat
  <2>1. CASE v.structure = <<>>
    BY <2>1 DEF VolumeEnd
  <2>2. CASE v.structure # <<>>
    <3> DEFINE n == Len(v.structure)
               f == Starts(v, size)
    <3>1. n \in DOMAIN v.structure /\ DOMAIN v.structure = 1..n
      BY <1>1, <2>2
    <3>2. f \in [1..n -> Nat]
      BY <1>1, StartsLaid DEF Laid
    <3>3. VolumeEnd(v, size) = f[n] + size[n]
      BY <2>2 DEF VolumeEnd
    <3> HIDE DEF n, f
    <3>4. QED
      BY <3>1, <3>2, <3>3
  <2>3. QED
    BY <2>1, <2>2
<1>3. \A i \in DOMAIN v.structure : v.structure[i] \in Structures
  BY <1>1
<1>4. /\ Sizes(v) \in [DOMAIN v.structure -> Nat]
      /\ [i \in DOMAIN v.structure |-> v.structure[i].min] \in [DOMAIN v.structure -> Nat]
  BY <1>3 DEF Sizes, Structures
<1>5. QED
  BY <1>2, <1>4 DEF VolumeSize, VolumeMinSize

-----------------------------------------------------------------------------
(***************************************************************************)
(* Types, and the order of the volumes.                                    *)
(***************************************************************************)
BeforeDisks == {"load_gadget_yaml", "verify_artifact_names", "calculate_rootfs_size",
                "populate_prepare_partitions"}

TypesInv ==
    /\ gadget \in Gadgets /\ sizeFlag \in SizeFlags
    /\ SectorSize \in SectorSizes /\ content \in ContentSizes
    /\ pc \in BeforeDisks => images = <<>>
    /\ VolumeOrder = IF pc = "load_gadget_yaml" THEN <<>> ELSE saveVolumeOrder(gadget)
    /\ TypeOK

LEMMA EmptyOrder == IsInjective(<<>>) /\ Range(<<>>) = {} /\ DOMAIN <<>> = {}
  BY DEF IsInjective, Range

LEMMA TypesInit == ASSUME Init PROVE TypesInv
<1>1. gadget.volumes \in [NameOf(gadget) -> Volumes]
  BY DiskAssumptions DEF Init
<1>2. [v \in NameOf(gadget) |-> NotSet] \in [NameOf(gadget) -> Nat \cup {NotSet}]
  OBVIOUS
<1>3. DOMAIN images \subseteq VolumeNames \ left
  BY EmptyOrder DEF Init
<1>4. TypeOK
  <2>1. IsInjective(VolumeOrder) /\ Range(VolumeOrder) \subseteq NameOf(gadget)
    BY EmptyOrder DEF Init
  <2>2. /\ IsSeeded = FALSE /\ HasBIOSPartition = FALSE
        /\ RootfsPartNum = 0 /\ BootPartNum = 0 /\ RootfsSize = 0
        /\ VolumeNames = {} /\ left = {}
        /\ pc = "load_gadget_yaml" /\ error = "none"
    BY DEF Init
  <2>3. /\ volumes \in [NameOf(gadget) -> Volumes]
        /\ ImageSizes \in [NameOf(gadget) -> Nat \cup {NotSet}]
    BY <1>1, <1>2 DEF Init
  <2>4. {IsSeeded, HasBIOSPartition} \subseteq BOOLEAN
    BY <2>2, Zenon
  <2>5. {RootfsPartNum, BootPartNum} \subseteq Nat \cup {-1} /\ RootfsSize \in Nat
    BY <2>2
  <2>6. /\ VolumeNames \subseteq NameOf(gadget) /\ left \subseteq NameOf(gadget)
        /\ pc = "failed" <=> error # "none"
    BY <2>2
  <2>7. QED
    BY <1>3, <2>1, <2>3, <2>4, <2>5, <2>6, Zenon DEF TypeOK
<1>5. QED
  BY <1>4 DEF Init, TypesInv, BeforeDisks

\* What most actions leave alone.
LEMMA TypesKept ==
    ASSUME TypesInv, UNCHANGED <<inputs, volumes, VolumeOrder, IsSeeded, RootfsSize, images>>,
           pc # "load_gadget_yaml", pc' # "load_gadget_yaml",
           pc' \in BeforeDisks => pc \in BeforeDisks,
           ImageSizes' \in [NameOf(gadget) -> Nat \cup {NotSet}],
           VolumeNames' \subseteq NameOf(gadget), left' \subseteq NameOf(gadget),
           DOMAIN images \subseteq VolumeNames' \ left',
           HasBIOSPartition' \in BOOLEAN,
           {RootfsPartNum', BootPartNum'} \subseteq Nat \cup {-1},
           pc' = "failed" <=> error' # "none"
    PROVE  TypesInv'
<1>1. /\ gadget' = gadget /\ sizeFlag' = sizeFlag /\ SectorSize' = SectorSize
      /\ content' = content
  BY DEF inputs
<1>2. TypeOK'
  BY <1>1 DEF TypesInv, TypeOK
<1>3. VolumeOrder' = IF pc' = "load_gadget_yaml" THEN <<>> ELSE saveVolumeOrder(gadget)'
  BY <1>1 DEF TypesInv
<1>4. QED
  BY <1>1, <1>2, <1>3 DEF TypesInv

LEMMA TypesAtLoad == ASSUME TypesInv, loadGadgetYaml PROVE TypesInv'
<1>1. /\ gadget \in Gadgets /\ gadget' = gadget /\ sizeFlag' = sizeFlag
      /\ SectorSize' = SectorSize /\ content' = content
      /\ VolumeOrder' = saveVolumeOrder(gadget)
      /\ volumes' = fixMissingSystemData(gadget) /\ IsSeeded' = Seeded(gadget)
      /\ pc = "load_gadget_yaml" /\ RootfsSize' = RootfsSize
      /\ VolumeNames' = VolumeNames /\ left' = left /\ images' = images
      /\ UNCHANGED numbers
  BY DEF loadGadgetYaml, inputs, TypesInv
<1>2. /\ Range(VolumeOrder') = NameOf(gadget) /\ IsInjective(VolumeOrder')
  BY <1>1, Ordered
<1>3. volumes' \in [NameOf(gadget) -> Volumes]
  BY <1>1, FixedVolumes
<1>4. IsSeeded' \in BOOLEAN
  BY <1>1 DEF Seeded
<1>5. ImageSizes' \in [NameOf(gadget) -> Nat \cup {NotSet}]
  <2>1. CASE ImageSizes' = ImageSizes
    BY <2>1 DEF TypesInv, TypeOK
  <2>2. CASE ImageSizes' = parseImageSizes(VolumeOrder')
    <3>1. parseImageSizes(VolumeOrder') \in [Range(VolumeOrder') -> Nat \cup {NotSet}]
      BY ParsedSizes DEF TypesInv
    <3>2. QED
      BY <1>2, <2>2, <3>1
  <2>3. QED
    BY <2>1, <2>2 DEF loadGadgetYaml
<1>6. /\ pc' \in {"verify_artifact_names", "failed"}
      /\ pc' = "failed" <=> error' # "none"
  <2>1. badArgument(VolumeOrder') # "none"
    BY DEF badArgument
  <2>2. error = "none"
    BY <1>1 DEF TypesInv, TypeOK
  <2>3. QED
    BY <2>1, <2>2 DEF loadGadgetYaml, Goto, Stop
<1>7. images = <<>>
  BY <1>1 DEF TypesInv, BeforeDisks
<1>8. TypeOK'
  BY <1>1, <1>2, <1>3, <1>4, <1>5, <1>6 DEF TypesInv, TypeOK, numbers
<1>9. VolumeOrder' = IF pc' = "load_gadget_yaml" THEN <<>> ELSE saveVolumeOrder(gadget)'
  BY <1>1, <1>6
<1>10. QED
  BY <1>1, <1>7, <1>8, <1>9 DEF TypesInv

LEMMA TypesAtSize == ASSUME TypesInv, calculateRootfsSize PROVE TypesInv'
<1>1. /\ gadget' = gadget /\ sizeFlag' = sizeFlag /\ SectorSize' = SectorSize
      /\ content' = content /\ UNCHANGED <<VolumeOrder, IsSeeded, ImageSizes, VolumeNames,
                                         left, images, numbers>>
      /\ pc = "calculate_rootfs_size" /\ pc' = "populate_prepare_partitions" /\ error' = error
  BY DEF calculateRootfsSize, inputs, Goto
<1>2. /\ volumes \in [NameOf(gadget) -> Volumes]
      /\ ImageSizes \in [NameOf(gadget) -> Nat \cup {NotSet}]
      /\ SectorSize \in SectorSizes /\ content \in ContentSizes
  BY DEF TypesInv, TypeOK
<1>3. /\ getRootfsMinSize \in Nat
      /\ \A v \in NameOf(gadget) : \A i \in DOMAIN volumes[v].structure :
           rootfsSize(v, i) \in Nat
  BY <1>2, SizeTypes
<1>4. RootfsSize' \in Nat /\ volumes' \in [NameOf(gadget) -> Volumes]
  <2>1. CASE RootfsSize' = getRootfsMinSize /\ UNCHANGED volumes
    BY <1>2, <1>3, <2>1
  <2>2. ASSUME NEW v \in DOMAIN volumes, NEW i \in rootfsStructures(v),
               RootfsSize' = rootfsSize(v, i),
               volumes' = [volumes EXCEPT ![v].structure[i] =
                             raiseStructureSizes(@, RootfsSize')]
        PROVE  RootfsSize' \in Nat /\ volumes' \in [NameOf(gadget) -> Volumes]
    <3>1. v \in NameOf(gadget) /\ i \in DOMAIN volumes[v].structure
      BY <1>2 DEF rootfsStructures, structures
    <3>2. RootfsSize' \in Nat
      BY <1>3, <2>2, <3>1
    <3>3. QED
      BY <1>2, <2>2, <3>1, <3>2, RaisedVolumes
  <2>3. QED
    BY <2>1, <2>2 DEF calculateRootfsSize
<1>5. TypeOK'
  BY <1>1, <1>4 DEF TypesInv, TypeOK, numbers
<1>6. VolumeOrder' = IF pc' = "load_gadget_yaml" THEN <<>> ELSE saveVolumeOrder(gadget)'
  BY <1>1 DEF TypesInv
<1>7. QED
  BY <1>1, <1>5, <1>6 DEF TypesInv, BeforeDisks

LEMMA TypesAtPopulate == ASSUME TypesInv, populatePreparePartitions PROVE TypesInv'
<1>1. /\ UNCHANGED <<inputs, volumes, VolumeOrder, IsSeeded, RootfsSize, images>>
      /\ VolumeNames' = VolumeNames /\ left' = DOMAIN volumes /\ UNCHANGED numbers
      /\ pc = "populate_prepare_partitions" /\ pc' = "make_disk" /\ error' = error
      /\ ImageSizes' = [v \in DOMAIN volumes |-> growImageSize(v)]
  BY DEF populatePreparePartitions, Goto
<1>2. DOMAIN volumes = NameOf(gadget) /\ images = <<>> /\ error = "none"
  BY <1>1 DEF TypesInv, TypeOK, BeforeDisks
<1>3. ASSUME NEW v \in NameOf(gadget) PROVE growImageSize(v) \in Nat \cup {NotSet}
  <2>1. volumes[v] \in Volumes /\ ImageSizes[v] \in Nat \cup {NotSet}
    BY DEF TypesInv, TypeOK
  <2>2. VolumeMinSize(volumes[v]) \in Nat
    BY <2>1, VolumeSizes
  <2>3. QED
    BY <2>1, <2>2 DEF growImageSize, Larger
<1>4. ImageSizes' \in [NameOf(gadget) -> Nat \cup {NotSet}]
  BY <1>1, <1>2, <1>3
<1>5. DOMAIN images \subseteq VolumeNames' \ left'
  BY <1>2, EmptyOrder
<1>6. QED
  BY <1>1, <1>2, <1>4, <1>5, TypesKept DEF TypesInv, TypeOK, numbers, BeforeDisks

LEMMA TypesAtDisk == ASSUME TypesInv, NEW v \in left, makeDisk(v) PROVE TypesInv'
<1> DEFINE table == GeneratePartitionTable(volumes[v], SectorSize, createDiskImage(v), IsSeeded)
<1>1. /\ gadget' = gadget /\ sizeFlag' = sizeFlag /\ SectorSize' = SectorSize
      /\ content' = content
      /\ UNCHANGED <<volumes, VolumeOrder, IsSeeded, ImageSizes, RootfsSize, VolumeNames>>
      /\ left' = left \ {v} /\ v \in VolumeNames /\ pc = "make_disk"
  BY DEF makeDisk, inputs, HasImage
<1>2. DOMAIN images \subseteq VolumeNames \ left /\ error = "none"
  BY <1>1 DEF TypesInv, TypeOK
<1>3. /\ pc' \in {"make_disk", "failed"}
      /\ pc' = "failed" <=> error' # "none"
  BY <1>2 DEF makeDisk, Stop, Goto
<1>4. \/ images' = images
      \/ DOMAIN images' = DOMAIN images \cup {v}
  BY DEF makeDisk
<1>5. DOMAIN images' \subseteq VolumeNames' \ left'
  BY <1>1, <1>2, <1>4
<1>6. numbers' = numbers \/ recordNumbers(v, table)
  BY DEF makeDisk
<1>7. /\ HasBIOSPartition' \in BOOLEAN
      /\ {RootfsPartNum', BootPartNum'} \subseteq Nat \cup {-1}
  <2>1. CASE numbers' = numbers
    BY <2>1 DEF numbers, TypesInv, TypeOK
  <2>2. CASE recordNumbers(v, table)
    <3>1. /\ table.rootfs = RootfsNumber(volumes[v], IsSeeded)
          /\ table.boot = BootNumber(volumes[v], IsSeeded)
          /\ table.bios \in BOOLEAN
      BY DEF GeneratePartitionTable
    <3>2. volumes[v].structure \in Seq(Structures)
      BY DEF TypesInv, TypeOK, Volumes
    <3>3. \E n \in Nat : DOMAIN volumes[v].structure = 1..n
      BY <3>2, SequenceDomain
    <3>4. {table.rootfs, table.boot} \subseteq Nat \cup {-1}
      BY <3>1, <3>3, NumberTypes
    <3> HIDE DEF table
    <3>5. QED
      BY <2>2, <3>1, <3>4 DEF recordNumbers
  <2>3. QED
    BY <1>6, <2>1, <2>2
<1>8. TypeOK'
  BY <1>1, <1>3, <1>5, <1>7 DEF TypesInv, TypeOK
<1>9. VolumeOrder' = IF pc' = "load_gadget_yaml" THEN <<>> ELSE saveVolumeOrder(gadget)'
  BY <1>1, <1>3 DEF TypesInv
<1>10. QED
  BY <1>1, <1>3, <1>8, <1>9 DEF TypesInv, BeforeDisks

LEMMA TypesStep == ASSUME TypesInv, [Next]_vars PROVE TypesInv'
<1>1. CASE loadGadgetYaml
  BY <1>1, TypesAtLoad
<1>2. CASE artifactNames
  BY <1>2, TypesKept, EmptyOrder
     DEF artifactNames, Goto, TypesInv, TypeOK, numbers, BeforeDisks
<1>3. CASE calculateRootfsSize
  BY <1>3, TypesAtSize
<1>4. CASE populatePreparePartitions
  BY <1>4, TypesAtPopulate
<1>5. CASE disksMade
  BY <1>5, TypesKept DEF disksMade, Goto, TypesInv, TypeOK, numbers, BeforeDisks
<1>6. CASE setupBootloader
  BY <1>6, TypesKept DEF setupBootloader, Goto, Stop, TypesInv, TypeOK, numbers, BeforeDisks
<1>7. ASSUME NEW v \in left, makeDisk(v) PROVE TypesInv'
  BY <1>7, TypesAtDisk
<1>8. ASSUME NEW v \in left, makeNoDisk(v) PROVE TypesInv'
  BY <1>8, TypesKept DEF makeNoDisk, TypesInv, TypeOK, numbers, BeforeDisks
<1>9. CASE UNCHANGED vars
  BY <1>9 DEF vars, inputs, numbers, TypesInv, TypeOK
<1>10. CASE setupGrub
  BY <1>10, TypesKept DEF setupGrub, Goto, Stop, TypesInv, TypeOK, numbers, BeforeDisks
<1>11. QED
  BY <1>1, <1>2, <1>3, <1>4, <1>5, <1>6, <1>7, <1>8, <1>9, <1>10 DEF Next

\* Types, for gadgets and arguments of --image-size of any number.
THEOREM TypeCorrect == Spec => []TypeOK
<1>1. Init => TypesInv
  BY TypesInit
<1>2. TypesInv /\ [Next]_vars => TypesInv'
  BY TypesStep
<1>3. TypesInv => TypeOK
  BY DEF TypesInv
<1>4. QED
  BY <1>1, <1>2, <1>3, PTL DEF Spec

\* Volumes are numbered in the order of gadget.yaml, unless the name of one
\* comes before a colon above the declaration of another that is declared before.
THEOREM OrderCorrect == Spec /\ NamedInOrder(gadget) => []VolumesInOrder
<1> DEFINE Inv == TypesInv /\ NamedInOrder(gadget)
<1>1. Init => TypesInv
  BY TypesInit
<1>2. Inv /\ [Next]_vars => Inv'
  <2> SUFFICES ASSUME Inv, [Next]_vars PROVE Inv'
    OBVIOUS
  <2>1. gadget' = gadget
    BY DEF Next, vars, inputs, loadGadgetYaml, artifactNames, calculateRootfsSize,
           populatePreparePartitions, disksMade, setupBootloader, setupGrub, makeDisk, makeNoDisk
  <2>2. QED
    BY <2>1, TypesStep
<1>3. Inv => VolumesInOrder
  <2> SUFFICES ASSUME Inv, pc # "load_gadget_yaml",
                      NEW v \in NameOf(gadget), NEW w \in NameOf(gadget),
                      gadget.declared[v] < gadget.declared[w]
               PROVE  LET number(n) == CHOOSE k \in DOMAIN VolumeOrder : VolumeOrder[k] = n
                      IN  number(v) < number(w)
    BY DEF VolumesInOrder
  <2>1. gadget \in Gadgets /\ VolumeOrder = saveVolumeOrder(gadget)
    BY DEF TypesInv
  <2>2. QED
    BY <2>1, OrderedAsDeclared
<1>4. QED
  BY <1>1, <1>2, <1>3, PTL DEF Spec

-----------------------------------------------------------------------------
(***************************************************************************)
(* Volumes as the gadget declares them, and with the rootfs raised.        *)
(***************************************************************************)
Raised(d, size) ==
    [d EXCEPT !.structure = [i \in DOMAIN d.structure |->
        IF IsRootfsStructure(d.structure[i]) THEN raiseStructureSizes(d.structure[i], size)
        ELSE d.structure[i]]]

LEMMA RaisedTypes ==
    ASSUME NEW d \in Volumes, NEW size \in Nat
    PROVE  LET u == Raised(d, size) IN
           /\ u \in Volumes /\ u.schema = d.schema /\ u.bootloader = d.bootloader
           /\ DOMAIN u.structure = DOMAIN d.structure /\ Len(u.structure) = Len(d.structure)
           /\ \A i \in DOMAIN d.structure :
                u.structure[i] = IF IsRootfsStructure(d.structure[i])
                                 THEN raiseStructureSizes(d.structure[i], size)
                                 ELSE d.structure[i]
           /\ (\A i \in DOMAIN d.structure : ~IsRootfsStructure(d.structure[i])) => u = d
<1> DEFINE n == Len(d.structure)
           s == [i \in 1..n |-> IF IsRootfsStructure(d.structure[i])
                               THEN raiseStructureSizes(d.structure[i], size)
                               ELSE d.structure[i]]
<1>1. /\ n \in Nat /\ DOMAIN d.structure = 1..n
      /\ \A i \in 1..n : d.structure[i] \in Structures
      /\ d.structure \in Seq(Structures)
  BY DEF Volumes
<1>2. \A i \in 1..n : s[i] \in Structures
  <2> TAKE i \in 1..n
  <2>1. d.structure[i] \in Structures
    BY <1>1
  <2>2. raiseStructureSizes(d.structure[i], size) \in Structures
    BY <2>1 DEF raiseStructureSizes, Larger, Structures
  <2>3. QED
    BY <2>1, <2>2
<1>3. s \in Seq(Structures) /\ Len(s) = n /\ DOMAIN s = 1..n
  <2> HIDE DEF n
  <2>1. s \in [1..n -> Structures]
    BY <1>2
  <2> HIDE DEF s
  <2>2. QED
    BY <1>1, <2>1
<1>4. Raised(d, size) = [d EXCEPT !.structure = s]
  BY <1>1 DEF Raised
<1>5. ASSUME \A i \in 1..n : ~IsRootfsStructure(d.structure[i])
      PROVE  Raised(d, size) = d
  <2>1. s = d.structure
    <3>1. s = [i \in 1..n |-> d.structure[i]]
      BY <1>5
    <3> HIDE DEF s, n
    <3>2. d.structure = [i \in 1..n |-> d.structure[i]]
      BY <1>1
    <3>3. QED
      BY <3>1, <3>2
  <2> HIDE DEF s
  <2>2. QED
    BY <1>4, <2>1 DEF Volumes
<1>6. /\ Raised(d, size) \in Volumes /\ Raised(d, size).schema = d.schema
      /\ Raised(d, size).bootloader = d.bootloader /\ Raised(d, size).structure = s
  <2> HIDE DEF s
  <2>1. QED
    BY <1>3, <1>4 DEF Volumes
<1>7. \A i \in 1..n : s[i] = IF IsRootfsStructure(d.structure[i])
                            THEN raiseStructureSizes(d.structure[i], size)
                            ELSE d.structure[i]
  OBVIOUS
<1> HIDE DEF s
<1>8. QED
  BY <1>1, <1>3, <1>5, <1>6, <1>7

LEMMA RaisedGeometry ==
    ASSUME NEW d \in Volumes, NEW size \in Nat
    PROVE  LET u == Raised(d, size)
               n == Len(d.structure)
           IN  /\ n \in Nat /\ Offsets(u) = Offsets(d)
               /\ Sizes(u) \in [1..n -> Nat]
               /\ \A i \in 1..n :
                    Sizes(u)[i] = IF IsRootfsStructure(d.structure[i])
                                  THEN Larger(Sizes(d)[i], size) ELSE Sizes(d)[i]
               /\ Laid(StartOffset(u), n, Offsets(d), Sizes(u))
               /\ VolumeSize(u) = IF n = 0 THEN 0 ELSE StartOffset(u)[n] + Sizes(u)[n]
<1> DEFINE u == Raised(d, size)
           n == Len(d.structure)
<1>1. /\ u \in Volumes /\ Len(u.structure) = n
      /\ \A i \in DOMAIN d.structure :
           u.structure[i] = IF IsRootfsStructure(d.structure[i])
                            THEN raiseStructureSizes(d.structure[i], size)
                            ELSE d.structure[i]
  BY RaisedTypes
<1>2. /\ n \in Nat /\ DOMAIN d.structure = 1..n
      /\ \A i \in 1..n : d.structure[i] \in Structures
      /\ Offsets(d) = [i \in 1..n |-> d.structure[i].offset]
      /\ Sizes(d) = [i \in 1..n |-> d.structure[i].size]
  BY Geometry
<1> HIDE DEF u
<1>3. /\ Offsets(u) = [i \in 1..n |-> u.structure[i].offset]
      /\ Sizes(u) \in [1..n -> Nat] /\ Sizes(u) = [i \in 1..n |-> u.structure[i].size]
      /\ Laid(StartOffset(u), n, Offsets(u), Sizes(u))
      /\ VolumeSize(u) = IF n = 0 THEN 0 ELSE StartOffset(u)[n] + Sizes(u)[n]
  BY <1>1, Geometry
<1> HIDE DEF n
<1>4. \A i \in 1..n : u.structure[i].offset = d.structure[i].offset
  BY <1>1, <1>2 DEF raiseStructureSizes, Structures
<1>5. \A i \in 1..n : u.structure[i].size = IF IsRootfsStructure(d.structure[i])
                                           THEN Larger(d.structure[i].size, size)
                                           ELSE d.structure[i].size
  BY <1>1, <1>2 DEF raiseStructureSizes, Structures
<1>6. Offsets(u) = Offsets(d)
  BY <1>2, <1>3, <1>4
<1>7. \A i \in 1..n :
        Sizes(u)[i] = IF IsRootfsStructure(d.structure[i])
                      THEN Larger(Sizes(d)[i], size) ELSE Sizes(d)[i]
  BY <1>2, <1>3, <1>5
<1>8. QED
  BY <1>2, <1>3, <1>6, <1>7 DEF n, u

\* What a well laid gadget says of a structure of one of its volumes.
LaidOut(d, b, i) ==
    LET s == d.structure[i]
        start == StartOffset(d)
    IN  /\ s.min <= s.size
        /\ s.offsetWrite => s.offset # Unknown
        /\ \A j \in DOMAIN d.structure : i < j => start[i] + s.size <= start[j]
        /\ IsPartition(s) => start[i] % b = 0 /\ start[i] >= primaryGPTSectors(b) * b
        /\ IsRootfsStructure(s) =>
             /\ s.size % b = 0
             /\ \A j \in DOMAIN d.structure : i < j => d.structure[j].offset = Unknown

LEMMA WellLaidStructure ==
    ASSUME NEW g, WellLaid(g), NEW v \in NameOf(g),
           NEW i \in DOMAIN fixMissingSystemData(g)[v].structure, NEW b \in SectorSizes
    PROVE  LaidOut(fixMissingSystemData(g)[v], b, i)
<1> DEFINE laid == fixMissingSystemData(g)
           After(k) == {j \in DOMAIN laid[v].structure : k < j}
           Facts(k) ==
             LET s == laid[v].structure[k]
                 start == StartOffset(laid[v])
             IN  /\ s.min <= s.size
                 /\ s.offsetWrite => s.offset # Unknown
                 /\ \A j \in After(k) : start[k] + s.size <= start[j]
                 /\ IsPartition(s) => \A c \in SectorSizes :
                      start[k] % c = 0 /\ start[k] >= primaryGPTSectors(c) * c
                 /\ IsRootfsStructure(s) =>
                      /\ \A c \in SectorSizes : s.size % c = 0
                      /\ \A j \in After(k) : laid[v].structure[j].offset = Unknown
<1>1. \A k \in DOMAIN laid[v].structure : Facts(k)
  BY DEF WellLaid
<1> HIDE DEF laid
<1>2. laid = fixMissingSystemData(g)
  BY DEF laid
<1>3. Facts(i)
  <2> HIDE DEF Facts
  <2>1. QED
    BY <1>1, <1>2
<1>4. LaidOut(laid[v], b, i)
  BY <1>3 DEF LaidOut
<1>5. QED
  BY <1>2, <1>4

LEMMA OneRootfs ==
    ASSUME NEW g, WellLaid(g), NEW v \in NameOf(g), NEW w \in NameOf(g),
           NEW i \in DOMAIN fixMissingSystemData(g)[v].structure,
           NEW j \in DOMAIN fixMissingSystemData(g)[w].structure,
           IsRootfsStructure(fixMissingSystemData(g)[v].structure[i]),
           IsRootfsStructure(fixMissingSystemData(g)[w].structure[j])
    PROVE  v = w /\ i = j
<1> DEFINE laid == fixMissingSystemData(g)
           rootfs(x) == {k \in DOMAIN laid[x].structure : IsRootfsStructure(laid[x].structure[k])}
<1>1. \A x, y \in NameOf(g) : \A k \in rootfs(x), m \in rootfs(y) : x = y /\ k = m
  BY DEF WellLaid
<1> HIDE DEF laid
<1>2. i \in rootfs(v) /\ j \in rootfs(w)
  BY DEF laid
<1>3. QED
  BY <1>1, <1>2

\* Raising the rootfs of a well laid volume by delta moves what follows it.
MovedBy(d, u, r, delta) ==
    LET n == Len(d.structure)
        start == StartOffset(d)
    IN  /\ delta \in Nat
        /\ \A i \in 1..n : start[i] \in Nat
        /\ \A i \in 1..n : StartOffset(u)[i] = IF r < i THEN start[i] + delta ELSE start[i]
        /\ \A i \in 1..n : Sizes(u)[i] = IF i = r THEN Sizes(d)[i] + delta ELSE Sizes(d)[i]
        /\ VolumeSize(u) = VolumeSize(d) + delta

LEMMA RaisedMoves ==
    ASSUME NEW g \in Gadgets, WellLaid(g), NEW v \in NameOf(g), NEW d,
           d = fixMissingSystemData(g)[v], NEW size \in Nat, NEW r \in DOMAIN d.structure,
           IsRootfsStructure(d.structure[r]), NEW b \in SectorSizes, NEW delta,
           delta = Larger(Sizes(d)[r], size) - Sizes(d)[r]
    PROVE  MovedBy(d, Raised(d, size), r, delta)
<1> DEFINE u == Raised(d, size)
           n == Len(d.structure)
           f == StartOffset(d)
           h == StartOffset(u)
<1>1. d \in Volumes
  BY FixedVolumes
<1>2. /\ n \in Nat /\ DOMAIN d.structure = 1..n
      /\ Offsets(d) = [i \in 1..n |-> d.structure[i].offset]
      /\ Sizes(d) \in [1..n -> Nat]
      /\ Laid(f, n, Offsets(d), Sizes(d))
      /\ VolumeSize(d) = IF n = 0 THEN 0 ELSE f[n] + Sizes(d)[n]
  BY <1>1, Geometry
<1>3. /\ Sizes(u) \in [1..n -> Nat]
      /\ \A i \in 1..n : Sizes(u)[i] = IF IsRootfsStructure(d.structure[i])
                                       THEN Larger(Sizes(d)[i], size) ELSE Sizes(d)[i]
      /\ Laid(h, n, Offsets(d), Sizes(u))
      /\ VolumeSize(u) = IF n = 0 THEN 0 ELSE h[n] + Sizes(u)[n]
  BY <1>1, RaisedGeometry
<1>4. \A i \in 1..n : IsRootfsStructure(d.structure[i]) <=> i = r
  <2>1. \A i \in DOMAIN d.structure : IsRootfsStructure(d.structure[i]) => i = r
    BY OneRootfs
  <2>2. QED
    BY <1>2, <2>1
<1>5. \A i \in 1..n : r < i => Offsets(d)[i] = Unknown
  <2>1. \A j \in DOMAIN d.structure : r < j => d.structure[j].offset = Unknown
    <3>1. LaidOut(d, b, r)
      BY WellLaidStructure
    <3>2. QED
      BY <3>1 DEF LaidOut
  <2>2. \A i \in 1..n : Offsets(d)[i] = d.structure[i].offset
    BY <1>2
  <2> HIDE DEF n
  <2>3. QED
    BY <1>2, <2>1, <2>2
<1> HIDE DEF u, n, f, h
<1>6. delta \in Nat /\ Larger(Sizes(d)[r], size) = Sizes(d)[r] + delta /\ r \in 1..n
  <2>1. Sizes(d)[r] \in Nat
    BY <1>2
  <2>2. QED
    BY <1>2, <2>1 DEF Larger
<1>7. \A i \in 1..n : Sizes(u)[i] = IF i = r THEN Sizes(d)[i] + delta ELSE Sizes(d)[i]
  BY <1>3, <1>4, <1>6
<1>8. \A i \in 1..n : h[i] = IF r < i THEN f[i] + delta ELSE f[i]
  <2>1. /\ n \in Nat /\ Sizes(d) \in [1..n -> Nat] /\ Sizes(u) \in [1..n -> Nat]
        /\ Laid(f, n, Offsets(d), Sizes(d)) /\ Laid(h, n, Offsets(d), Sizes(u))
    BY <1>2, <1>3
  <2>2. Grown(n, Offsets(d), Sizes(d), Sizes(u), r, delta)
    BY <1>5, <1>6, <1>7, <2>1 DEF Grown
  <2>3. Moved(f, h, n, r, delta)
    BY <2>1, <2>2, LaidMoves
  <2>4. QED
    BY <2>3 DEF Moved
<1>9. \A i \in 1..n : f[i] \in Nat
  BY <1>2 DEF Laid
<1>10. VolumeSize(u) = VolumeSize(d) + delta
  <2>1. n # 0 /\ n \in 1..n /\ r <= n /\ r \in Nat
    BY <1>2, <1>6
  <2>2. f[n] \in Nat /\ Sizes(d)[n] \in Nat
    BY <1>2, <1>9, <2>1
  <2>3. VolumeSize(u) = h[n] + Sizes(u)[n] /\ VolumeSize(d) = f[n] + Sizes(d)[n]
    BY <1>2, <1>3, <2>1
  <2>4. /\ h[n] = IF r < n THEN f[n] + delta ELSE f[n]
        /\ Sizes(u)[n] = IF n = r THEN Sizes(d)[n] + delta ELSE Sizes(d)[n]
    BY <1>7, <1>8, <2>1
  <2>5. delta \in Nat
    BY <1>6
  <2>6. CASE r = n
    BY <2>1, <2>2, <2>3, <2>4, <2>5, <2>6
  <2>7. CASE r < n
    BY <2>1, <2>2, <2>3, <2>4, <2>5, <2>7
  <2>8. QED
    BY <1>2, <2>1, <2>6, <2>7
<1>11. QED
  BY <1>6, <1>7, <1>8, <1>9, <1>10 DEF MovedBy, u, n, f, h

LEMMA DeclaredTidy ==
    ASSUME NEW g \in Gadgets, WellLaid(g), NEW v \in NameOf(g), NEW d,
           d = fixMissingSystemData(g)[v], NEW b \in SectorSizes
    PROVE  Tidy(d, b)
<1> DEFINE n == Len(d.structure)
           f == StartOffset(d)
<1>1. d \in Volumes
  BY FixedVolumes
<1>2. /\ n \in Nat /\ DOMAIN d.structure = 1..n
      /\ \A i \in 1..n : d.structure[i] \in Structures
      /\ Offsets(d) = [i \in 1..n |-> d.structure[i].offset]
      /\ Sizes(d) \in [1..n -> Nat] /\ Sizes(d) = [i \in 1..n |-> d.structure[i].size]
      /\ Laid(f, n, Offsets(d), Sizes(d))
      /\ VolumeSize(d) = IF n = 0 THEN 0 ELSE f[n] + Sizes(d)[n]
  BY <1>1, Geometry
<1> HIDE DEF n, f
<1>3. ASSUME NEW i \in 1..n PROVE TidyAt(d, b, i)
  <2>1. LaidOut(d, b, i)
    BY <1>2, <1>3, WellLaidStructure
  <2>2. f[i] \in Nat /\ (d.structure[i].offset # Unknown => d.structure[i].offset = f[i])
    <3>1. Offsets(d)[i] = d.structure[i].offset
      BY <1>2
    <3>2. /\ f[i] \in Nat
          /\ Offsets(d)[i] # Unknown => f[i] = Offsets(d)[i]
      BY <1>2 DEF Laid
    <3>3. QED
      BY <3>1, <3>2
  <2>3. f[i] + d.structure[i].size <= VolumeSize(d)
    <3>1. n \in 1..n /\ n # 0 /\ i <= n
      BY <1>2, <1>3
    <3>2. VolumeSize(d) = f[n] + Sizes(d)[n] /\ Sizes(d)[n] \in Nat /\ f[n] \in Nat
      BY <1>2, <3>1 DEF Laid
    <3>3. Sizes(d)[i] = d.structure[i].size
      BY <1>2, <1>3
    <3>4. CASE i = n
      BY <3>2, <3>3, <3>4
    <3>5. CASE i # n
      <4>1. i < n /\ n \in DOMAIN d.structure
        BY <1>2, <3>1, <3>5
      <4>2. f[i] + d.structure[i].size <= f[n]
        BY <2>1, <4>1 DEF LaidOut, f
      <4>3. d.structure[i].size \in Nat
        BY <1>2, <1>3 DEF Structures
      <4>4. QED
        BY <2>2, <3>2, <4>2, <4>3
    <3>6. QED
      BY <3>4, <3>5
  <2>4. QED
    BY <2>1, <2>2, <2>3 DEF TidyAt, LaidOut, f
<1>4. QED
  BY <1>2, <1>3 DEF Tidy

LEMMA RaisedTidy ==
    ASSUME NEW g \in Gadgets, WellLaid(g), NEW v \in NameOf(g), NEW d,
           d = fixMissingSystemData(g)[v], NEW b \in SectorSizes,
           NEW size \in Nat, size % b = 0
    PROVE  Tidy(Raised(d, size), b)
<1> DEFINE u == Raised(d, size)
           n == Len(d.structure)
           f == StartOffset(d)
           h == StartOffset(u)
<1>1. d \in Volumes /\ b \in KnownSizes
  BY FixedVolumes, DiskAssumptions DEF KnownSizes
<1>2. Tidy(d, b)
  BY DeclaredTidy
<1>3. /\ DOMAIN u.structure = DOMAIN d.structure
      /\ \A i \in DOMAIN d.structure :
           u.structure[i] = IF IsRootfsStructure(d.structure[i])
                            THEN raiseStructureSizes(d.structure[i], size)
                            ELSE d.structure[i]
      /\ (\A i \in DOMAIN d.structure : ~IsRootfsStructure(d.structure[i])) => u = d
      /\ u \in Volumes
  BY <1>1, RaisedTypes
<1>4. CASE \A i \in DOMAIN d.structure : ~IsRootfsStructure(d.structure[i])
  BY <1>2, <1>3, <1>4
<1>5. ASSUME NEW r \in DOMAIN d.structure, IsRootfsStructure(d.structure[r])
      PROVE  Tidy(u, b)
  <2> DEFINE delta == Larger(Sizes(d)[r], size) - Sizes(d)[r]
  <2>1. /\ delta \in Nat
        /\ \A i \in 1..n : f[i] \in Nat
        /\ \A i \in 1..n : h[i] = IF r < i THEN f[i] + delta ELSE f[i]
        /\ \A i \in 1..n : Sizes(u)[i] = IF i = r THEN Sizes(d)[i] + delta ELSE Sizes(d)[i]
        /\ VolumeSize(u) = VolumeSize(d) + delta
    <3>1. PICK more : more = delta
      OBVIOUS
    <3>2. MovedBy(d, u, r, more)
      BY <1>5, <3>1, RaisedMoves
    <3>3. QED
      BY <3>1, <3>2 DEF MovedBy
  <2>2. /\ n \in Nat /\ DOMAIN d.structure = 1..n
        /\ \A i \in 1..n : d.structure[i] \in Structures
        /\ Sizes(d) \in [1..n -> Nat] /\ Sizes(d) = [i \in 1..n |-> d.structure[i].size]
        /\ VolumeSize(d) = IF n = 0 THEN 0 ELSE f[n] + Sizes(d)[n]
    BY <1>1, Geometry
  <2>3. Len(u.structure) = n
    BY <1>1, RaisedTypes
  <2> HIDE DEF u, n, f, h
  <2>4. Sizes(u) = [i \in 1..n |-> u.structure[i].size]
    <3>1. u \in Volumes
      BY <1>3
    <3>2. Sizes(u) = [i \in 1..Len(u.structure) |-> u.structure[i].size]
      BY <3>1, Geometry
    <3>3. QED
      BY <2>3, <3>2
  <2>5. delta % b = 0
    <3>1. Sizes(d)[r] \in Nat /\ Sizes(d)[r] % b = 0
      <4>1. LaidOut(d, b, r) /\ Sizes(d)[r] = d.structure[r].size /\ Sizes(d)[r] \in Nat
        BY <1>5, <2>2, WellLaidStructure
      <4>2. QED
        BY <1>5, <4>1 DEF LaidOut
    <3>2. CASE Sizes(d)[r] <= size
      <4>1. delta = size - Sizes(d)[r]
        BY <3>1, <3>2 DEF Larger
      <4> HIDE DEF delta
      <4>2. QED
        BY <1>1, <3>1, <3>2, <4>1, Multiples
    <3>3. CASE ~(Sizes(d)[r] <= size)
      <4>1. delta = Sizes(d)[r] - Sizes(d)[r]
        BY <3>1, <3>3 DEF Larger
      <4> HIDE DEF delta
      <4>2. QED
        BY <1>1, <3>1, <4>1, Multiples
    <3>4. QED
      BY <3>2, <3>3
  <2> HIDE DEF delta
  <2>6. ASSUME NEW i \in 1..n PROVE TidyAt(u, b, i)
    <3> DEFINE s == d.structure[i]
               t == u.structure[i]
    <3>1. /\ f[i] \in Nat /\ s.min <= s.size /\ f[i] + s.size <= VolumeSize(d)
          /\ s.offsetWrite => s.offset = f[i]
          /\ \A j \in 1..n : i < j => f[i] + s.size <= f[j]
          /\ IsPartition(s) => f[i] % b = 0 /\ f[i] >= primaryGPTSectors(b) * b
      BY <1>2, <2>2, <2>6 DEF Tidy, TidyAt, f
    <3>2. /\ s \in Structures /\ s.size \in Nat /\ s.min \in Nat
      BY <2>2, <2>6 DEF Structures
    <3>3. /\ t.size = IF i = r THEN s.size + delta ELSE s.size
          /\ h[i] = IF r < i THEN f[i] + delta ELSE f[i]
      BY <2>1, <2>2, <2>4, <2>6
    <3>4. t = s \/ t = raiseStructureSizes(s, size)
      BY <1>3, <2>2, <2>6
    <3>5. /\ t.offset = s.offset /\ t.role = s.role /\ t.offsetWrite = s.offsetWrite
          /\ t.min <= t.size
      <4>1. CASE t = s
        BY <3>1, <4>1
      <4>2. CASE t = raiseStructureSizes(s, size)
        BY <3>1, <3>2, <4>2 DEF raiseStructureSizes, Larger, Structures
      <4>3. QED
        BY <3>4, <4>1, <4>2
    <3>6. s.offset # Unknown => h[i] = f[i]
      <4>1. r < i => s.offset = Unknown
        <5>1. LaidOut(d, b, r) /\ i \in DOMAIN d.structure
          BY <1>5, <2>2, <2>6, WellLaidStructure
        <5>2. QED
          BY <1>5, <5>1 DEF LaidOut
      <4>2. QED
        BY <3>3, <4>1
    <3> HIDE DEF s, t
    <3>7. h[i] \in Nat /\ r \in Nat /\ i \in Nat
      BY <1>5, <2>1, <2>2, <2>6, <3>1, <3>3
    <3>8. h[i] + t.size <= VolumeSize(u)
      <4>1. VolumeSize(d) \in Nat
        BY <1>1, VolumeSizes
      <4>2. CASE i < r
        <5>1. VolumeSize(u) >= VolumeSize(d)
          BY <2>1, <4>1
        <5>2. QED
          BY <2>1, <3>1, <3>2, <3>3, <3>7, <4>1, <4>2
      <4>3. CASE i >= r
        BY <2>1, <3>1, <3>2, <3>3, <3>7, <4>1, <4>3
      <4>4. QED
        BY <3>7, <4>2, <4>3
    <3>9. ASSUME NEW j \in 1..n, i < j PROVE h[i] + t.size <= h[j]
      <4>1. f[i] + s.size <= f[j] /\ f[j] \in Nat /\ j \in Nat
        BY <2>1, <3>1, <3>9
      <4>2. h[j] = IF r < j THEN f[j] + delta ELSE f[j]
        BY <2>1
      <4>3. CASE i < r
        BY <2>1, <3>1, <3>2, <3>3, <3>7, <4>1, <4>2, <4>3
      <4>4. CASE i >= r
        BY <2>1, <3>1, <3>2, <3>3, <3>7, <3>9, <4>1, <4>2, <4>4
      <4>5. QED
        BY <3>7, <4>3, <4>4
    <3>10. ASSUME IsPartition(t) PROVE h[i] % b = 0 /\ h[i] >= primaryGPTSectors(b) * b
      <4>1. f[i] % b = 0 /\ f[i] >= primaryGPTSectors(b) * b
        BY <3>1, <3>5, <3>10 DEF IsPartition
      <4>2. (f[i] + delta) % b = 0
        BY <1>1, <2>1, <2>5, <3>1, <4>1, CeilSum
      <4>3. h[i] % b = 0
        BY <3>3, <4>1, <4>2
      <4>4. h[i] >= f[i]
        BY <2>1, <3>1, <3>3
      <4>5. primaryGPTSectors(b) * b \in Nat
        BY <1>1 DEF KnownSizes, primaryGPTSectors, gptPartitionEntriesSectors
      <4>6. QED
        BY <3>1, <3>7, <4>1, <4>3, <4>4, <4>5
    <3>11. t.offsetWrite => t.offset = h[i]
      <4>1. s.offsetWrite => s.offset # Unknown
        BY <3>1 DEF Unknown
      <4>2. QED
        BY <3>1, <3>5, <3>6, <4>1
    <3>12. QED
      BY <1>3, <2>2, <3>5, <3>7, <3>8, <3>9, <3>10, <3>11 DEF TidyAt, h, t
  <2>7. DOMAIN u.structure = 1..n
    BY <1>3, <2>2
  <2>8. QED
    BY <2>6, <2>7 DEF Tidy
<1>6. QED
  BY <1>4, <1>5

-----------------------------------------------------------------------------
(***************************************************************************)
(* Volumes once the rootfs has its size, and the images made of them.      *)
(***************************************************************************)
\* The size of the rootfs, structure i of volume v, from what is declared and
\* asked for.
wantedSize(v, i) ==
    LET d == fixMissingSystemData(gadget)[v]
        asked == parseImageSizes(VolumeOrder)[v]
        needed == Larger(getRootfsMinSize, align(d.structure[i].min))
    IN  IF asked = NotSet THEN needed
        ELSE Larger(needed, align(SafeQuantitySubtraction(asked,
                              calculateNoRootfsSize(d) + PartitionTableSize(d, SectorSize))))

Loaded ==
    /\ volumes = fixMissingSystemData(gadget)
    /\ ImageSizes = parseImageSizes(VolumeOrder)

Sized ==
    /\ RootfsSize % SectorSize = 0 /\ getRootfsMinSize <= RootfsSize
    /\ \A v \in NameOf(gadget) :
         volumes[v] = Raised(fixMissingSystemData(gadget)[v], RootfsSize)
    /\ \A v \in NameOf(gadget) : \A i \in DOMAIN fixMissingSystemData(gadget)[v].structure :
         IsRootfsStructure(fixMissingSystemData(gadget)[v].structure[i]) =>
           RootfsSize = wantedSize(v, i)

Prepared ==
    /\ Sized
    /\ \A v \in NameOf(gadget) : volumes[v].schema # "emmc" =>
         /\ ImageSizes[v] = Larger(parseImageSizes(VolumeOrder)[v], VolumeMinSize(volumes[v]))
         /\ \A i \in present(v) : partImg[v][i] = partSize(volumes[v].structure[i])

Counted(v) == createDiskImage(v) \div SectorSize
                < IF volumes[v].schema = "mbr" THEN MBRWord ELSE Word

tableOf(v) == GeneratePartitionTable(volumes[v], SectorSize, createDiskImage(v), IsSeeded)

ImageMade(v) ==
    /\ volumes[v].schema # "emmc" /\ Counted(v)
    /\ images[v].size = createDiskImage(v)
    /\ images[v].partitions = tableOf(v).partitions
    /\ images[v].data = copyDataToImage(v)
    /\ images[v].offsets = [i \in offsetsToWrite(v) |-> offsetValue(v, i)]

LayoutInv ==
    /\ WellLaid(gadget) /\ error # "overlaps GPT"
    /\ pc \in {"verify_artifact_names", "calculate_rootfs_size"} => Loaded
    /\ pc = "populate_prepare_partitions" =>
         Sized /\ ImageSizes = parseImageSizes(VolumeOrder)
    /\ pc \in {"make_disk", "setup_bootloader", "grub", "done"} => Prepared
    /\ \A v \in DOMAIN images : Prepared /\ ImageMade(v)

\* What these say when nothing that they are about changes.
LEMMA SizedKept ==
    ASSUME Sized, UNCHANGED <<inputs, volumes, VolumeOrder, RootfsSize>>
    PROVE  Sized' /\ parseImageSizes(VolumeOrder)' = parseImageSizes(VolumeOrder)
<1>1. /\ gadget' = gadget /\ sizeFlag' = sizeFlag /\ SectorSize' = SectorSize
      /\ content' = content
  BY DEF inputs
<1>2. parseImageSizes(VolumeOrder)' = parseImageSizes(VolumeOrder)
  BY <1>1 DEF parseImageSizes
<1>3. \A a : align(a)' = align(a)
  BY <1>1 DEF align
<1>4. getRootfsMinSize' = getRootfsMinSize
  BY <1>1 DEF getRootfsMinSize, align
<1>5. \A v, i : wantedSize(v, i)' = wantedSize(v, i)
  BY <1>1, <1>2, <1>4 DEF wantedSize, align
<1>6. QED
  BY <1>1, <1>2, <1>4, <1>5 DEF Sized

LEMMA PreparedKept ==
    ASSUME Prepared, UNCHANGED <<inputs, volumes, VolumeOrder, RootfsSize, IsSeeded,
                                 ImageSizes, partImg>>
    PROVE  Prepared'
<1>1. Sized' /\ parseImageSizes(VolumeOrder)' = parseImageSizes(VolumeOrder)
  BY SizedKept DEF Prepared
<1>2. gadget' = gadget
  BY DEF inputs
<1>3. \A v : present(v)' = present(v)
  BY DEF present, structures
<1>4. \A s : partSize(s)' = partSize(s)
  BY DEF partSize
<1>5. QED
  BY <1>1, <1>2, <1>3, <1>4 DEF Prepared

LEMMA DiskKept ==
    ASSUME UNCHANGED <<inputs, volumes, RootfsSize, IsSeeded, ImageSizes, partImg>>, NEW v
    PROVE  /\ createDiskImage(v)' = createDiskImage(v) /\ Counted(v)' = Counted(v)
           /\ tableOf(v)' = tableOf(v) /\ copyDataToImage(v)' = copyDataToImage(v)
           /\ [i \in offsetsToWrite(v) |-> offsetValue(v, i)]'
                = [i \in offsetsToWrite(v) |-> offsetValue(v, i)]
<1>1. SectorSize' = SectorSize
  BY DEF inputs
<1>2. createDiskImage(v)' = createDiskImage(v)
  BY <1>1 DEF createDiskImage, align
<1>3. tableOf(v)' = tableOf(v) /\ Counted(v)' = Counted(v)
  BY <1>1, <1>2 DEF tableOf, Counted
<1>4. copyDataToImage(v)' = copyDataToImage(v)
  BY <1>1 DEF copyDataToImage, present, structures, seek, count
<1>5. [i \in offsetsToWrite(v) |-> offsetValue(v, i)]'
        = [i \in offsetsToWrite(v) |-> offsetValue(v, i)]
  BY <1>1 DEF offsetsToWrite, offsetValue, structures
<1>6. QED
  BY <1>2, <1>3, <1>4, <1>5

LEMMA MadeKept ==
    ASSUME NEW v \in DOMAIN images, ImageMade(v),
           UNCHANGED <<inputs, volumes, RootfsSize, IsSeeded, ImageSizes, partImg>>,
           images'[v] = images[v]
    PROVE  ImageMade(v)'
  BY DiskKept DEF ImageMade

\* The steps that change nothing of that once images are made.
LEMMA LayoutKept ==
    ASSUME LayoutInv, UNCHANGED <<inputs, volumes, VolumeOrder, RootfsSize, IsSeeded,
                                  ImageSizes, partImg, images>>,
           pc \in {"make_disk", "setup_bootloader", "grub", "done", "failed"},
           pc' \in {"make_disk", "setup_bootloader", "grub", "done"} =>
             pc \in {"make_disk", "setup_bootloader", "grub", "done"},
           pc' \in {"make_disk", "setup_bootloader", "grub", "done", "failed"},
           error' # "overlaps GPT"
    PROVE  LayoutInv'
<1>1. gadget' = gadget
  BY DEF inputs
<1>2. Prepared => Prepared'
  BY PreparedKept
<1>3. \A v \in DOMAIN images' : Prepared' /\ ImageMade(v)'
  BY <1>2, MadeKept DEF LayoutInv
<1>4. pc' \in {"make_disk", "setup_bootloader", "grub", "done"} => Prepared'
  BY <1>2 DEF LayoutInv
<1>5. QED
  BY <1>1, <1>3, <1>4 DEF LayoutInv

\* Raising the one rootfs of a volume is what calculateRootfsSize does to it.
LEMMA RaisedOne ==
    ASSUME NEW d \in Volumes, NEW size \in Nat, NEW r \in DOMAIN d.structure,
           \A i \in DOMAIN d.structure : IsRootfsStructure(d.structure[i]) <=> i = r
    PROVE  [d EXCEPT !.structure[r] = raiseStructureSizes(@, size)] = Raised(d, size)
<1> DEFINE s == d.structure
           t == [i \in DOMAIN s |-> IF IsRootfsStructure(s[i]) THEN raiseStructureSizes(s[i], size)
                                   ELSE s[i]]
           raised == raiseStructureSizes(s[r], size)
<1>1. s \in Seq(Structures) /\ d = [d EXCEPT !.structure = s]
  BY DEF Volumes
<1>2. s = [i \in DOMAIN s |-> s[i]]
  BY <1>1
<1> HIDE DEF s
<1>3. [s EXCEPT ![r] = raised] = t
  BY <1>2 DEF s
<1>4. [d EXCEPT !.structure[r] = raiseStructureSizes(@, size)]
        = [d EXCEPT !.structure = [s EXCEPT ![r] = raised]]
  BY DEF s
<1>5. Raised(d, size) = [d EXCEPT !.structure = t]
  BY DEF Raised, s
<1> HIDE DEF t, raised
<1>6. QED
  BY <1>3, <1>4, <1>5

LEMMA LayoutAtLoad == ASSUME TypesInv, LayoutInv, loadGadgetYaml PROVE LayoutInv'
<1>1. /\ gadget' = gadget /\ images' = images /\ pc' \in {"verify_artifact_names", "failed"}
      /\ volumes' = fixMissingSystemData(gadget) /\ sizeFlag' = sizeFlag
      /\ pc' = "verify_artifact_names" => ImageSizes' = parseImageSizes(VolumeOrder')
      /\ pc = "load_gadget_yaml"
  BY DEF loadGadgetYaml, inputs, Goto, Stop
<1>2. images = <<>>
  BY <1>1 DEF TypesInv, BeforeDisks
<1>3. error' # "overlaps GPT"
  BY DEF loadGadgetYaml, Goto, Stop, badArgument, LayoutInv
<1>4. pc' = "verify_artifact_names" => Loaded'
  BY <1>1 DEF Loaded, parseImageSizes
<1>5. DOMAIN images' = {}
  BY <1>1, <1>2, EmptyOrder
<1>6. QED
  BY <1>1, <1>3, <1>4, <1>5 DEF LayoutInv

LEMMA LayoutAtNames == ASSUME TypesInv, LayoutInv, artifactNames PROVE LayoutInv'
<1>1. /\ gadget' = gadget /\ images' = images /\ pc' = "calculate_rootfs_size"
      /\ sizeFlag' = sizeFlag /\ pc = "verify_artifact_names" /\ error' = error
      /\ UNCHANGED <<volumes, VolumeOrder, ImageSizes>>
  BY DEF artifactNames, inputs, Goto
<1>2. DOMAIN images' = {}
  BY <1>1, EmptyOrder DEF TypesInv, BeforeDisks
<1>3. Loaded'
  <2>1. Loaded
    BY <1>1 DEF LayoutInv
  <2>2. parseImageSizes(VolumeOrder)' = parseImageSizes(VolumeOrder)
    BY <1>1 DEF parseImageSizes
  <2>3. QED
    BY <1>1, <2>1, <2>2 DEF Loaded
<1>4. QED
  BY <1>1, <1>2, <1>3 DEF LayoutInv

LEMMA LayoutAtSize == ASSUME TypesInv, LayoutInv, calculateRootfsSize PROVE LayoutInv'
<1> DEFINE laid == fixMissingSystemData(gadget)
<1>1. /\ gadget' = gadget /\ sizeFlag' = sizeFlag /\ SectorSize' = SectorSize
      /\ content' = content /\ UNCHANGED <<VolumeOrder, ImageSizes, images>>
      /\ pc = "calculate_rootfs_size" /\ pc' = "populate_prepare_partitions" /\ error' = error
  BY DEF calculateRootfsSize, inputs, Goto
<1>2. /\ gadget \in Gadgets /\ WellLaid(gadget) /\ volumes = laid
      /\ ImageSizes = parseImageSizes(VolumeOrder)
      /\ SectorSize \in SectorSizes /\ content \in ContentSizes
      /\ volumes \in [NameOf(gadget) -> Volumes]
      /\ ImageSizes \in [NameOf(gadget) -> Nat \cup {NotSet}]
  BY <1>1 DEF TypesInv, LayoutInv, Loaded, TypeOK
<1>3. /\ getRootfsMinSize \in Nat
      /\ \A v \in NameOf(gadget) : \A i \in DOMAIN volumes[v].structure :
           rootfsSize(v, i) \in Nat
  BY <1>2, SizeTypes
<1>4. /\ parseImageSizes(VolumeOrder)' = parseImageSizes(VolumeOrder)
      /\ getRootfsMinSize' = getRootfsMinSize
  BY <1>1 DEF parseImageSizes, getRootfsMinSize, align
<1>5. \A v, i : wantedSize(v, i)' = wantedSize(v, i)
  BY <1>1, <1>4 DEF wantedSize, align
<1>6. \A v \in NameOf(gadget) : \A i : rootfsSize(v, i) = wantedSize(v, i)
  BY <1>2 DEF rootfsSize, wantedSize, getRootfsDesiredSize
<1>7. SectorSize \in KnownSizes /\ \A a \in Nat : align(a) \in Nat /\ align(a) % SectorSize = 0
  BY <1>2, Aligned
<1>8. \A v \in NameOf(gadget) : laid[v] \in Volumes
  BY <1>2
<1> HIDE DEF laid
<1>9. ASSUME \A v \in DOMAIN volumes : rootfsStructures(v) = {},
             RootfsSize' = getRootfsMinSize, volumes' = volumes
      PROVE  Sized'
  <2>1. \A v \in NameOf(gadget) : \A i \in DOMAIN laid[v].structure :
          ~IsRootfsStructure(laid[v].structure[i])
    BY <1>2, <1>9 DEF rootfsStructures, structures
  <2>2. \A v \in NameOf(gadget) : Raised(laid[v], RootfsSize') = laid[v]
    BY <1>3, <1>8, <1>9, <2>1, RaisedTypes
  <2>3. getRootfsMinSize % SectorSize = 0
    <3>1. Ceil(3 * content, 2) + ext4Padding \in Nat
      <4>1. content \in Nat /\ ext4Padding \in Nat
        BY <1>2, DiskAssumptions
      <4>2. QED
        BY <4>1 DEF Ceil
    <3>2. QED
      BY <1>7, <3>1 DEF getRootfsMinSize
  <2>4. QED
    BY <1>1, <1>2, <1>3, <1>4, <1>9, <2>1, <2>2, <2>3 DEF Sized, laid
<1>10. ASSUME NEW v \in DOMAIN volumes, NEW i \in rootfsStructures(v),
              RootfsSize' = rootfsSize(v, i),
              volumes' = [volumes EXCEPT ![v].structure[i] =
                            raiseStructureSizes(@, RootfsSize')]
       PROVE  Sized'
  <2>1. /\ v \in NameOf(gadget) /\ i \in DOMAIN laid[v].structure
        /\ IsRootfsStructure(laid[v].structure[i])
    BY <1>2, <1>10 DEF rootfsStructures, structures
  <2>2. ASSUME NEW w \in NameOf(gadget), NEW j \in DOMAIN laid[w].structure,
               IsRootfsStructure(laid[w].structure[j])
        PROVE  w = v /\ j = i
    BY <1>2, <2>1, <2>2, OneRootfs DEF laid
  <2>3. RootfsSize' = wantedSize(v, i) /\ RootfsSize' \in Nat
    BY <1>2, <1>3, <1>6, <1>10, <2>1
  <2>4. RootfsSize' % SectorSize = 0 /\ getRootfsMinSize <= RootfsSize'
    <3> DEFINE asked == SafeQuantitySubtraction(ImageSizes[v],
                          calculateNoRootfsSize(volumes[v])
                            + PartitionTableSize(volumes[v], SectorSize))
               min == volumes[v].structure[i].min
    <3>1. min \in Nat
      <4>1. volumes[v].structure[i] \in Structures
        BY <1>2, <2>1, <1>8 DEF Volumes
      <4>2. QED
        BY <4>1 DEF Structures
    <3>2. Ceil(3 * content, 2) + ext4Padding \in Nat
      <4>1. content \in Nat /\ ext4Padding \in Nat
        BY <1>2, DiskAssumptions
      <4>2. QED
        BY <4>1 DEF Ceil
    <3>3. /\ getRootfsMinSize \in Nat /\ getRootfsMinSize % SectorSize = 0
          /\ align(min) \in Nat /\ align(min) % SectorSize = 0
      BY <1>3, <1>7, <3>1, <3>2 DEF getRootfsMinSize
    <3>4. ImageSizes[v] # NotSet => align(asked) \in Nat /\ align(asked) % SectorSize = 0
      <4>1. ASSUME ImageSizes[v] # NotSet PROVE asked \in Nat
        <5>1. ImageSizes[v] \in Nat
          BY <1>2, <2>1, <4>1
        <5>2. PartitionTableSize(volumes[v], SectorSize) \in Nat
          BY <1>7, TableSize
        <5>3. calculateNoRootfsSize(volumes[v]) \in Nat
          <6>1. volumes[v] \in Volumes
            BY <1>2, <2>1
          <6>2. PICK size \in [0..Len(volumes[v].structure) -> Nat] :
                  calculateNoRootfsSize(volumes[v]) = size[Len(volumes[v].structure)]
            BY <6>1, NoRootfsSize
          <6>3. Len(volumes[v].structure) \in Nat
            BY <6>1, Geometry
          <6>4. QED
            BY <6>2, <6>3
        <5>4. QED
          BY <5>1, <5>2, <5>3 DEF SafeQuantitySubtraction
      <4> HIDE DEF asked
      <4>2. QED
        BY <1>7, <4>1
    <3>5. RootfsSize' = LET needed == Larger(getRootfsMinSize, align(min)) IN
                        IF ImageSizes[v] = NotSet THEN needed ELSE Larger(needed, align(asked))
      BY <1>10 DEF rootfsSize, getRootfsDesiredSize
    <3> HIDE DEF asked, min
    <3>6. QED
      BY <3>3, <3>4, <3>5 DEF Larger
  <2>5. ASSUME NEW w \in NameOf(gadget) PROVE volumes'[w] = Raised(laid[w], RootfsSize')
    <3>1. CASE w # v
      <4>1. \A j \in DOMAIN laid[w].structure : ~IsRootfsStructure(laid[w].structure[j])
        BY <2>2, <3>1
      <4>2. Raised(laid[w], RootfsSize') = laid[w]
        BY <1>8, <2>3, <4>1, RaisedTypes
      <4>3. volumes'[w] = volumes[w]
        BY <1>2, <1>10, <3>1
      <4>4. QED
        BY <1>2, <4>2, <4>3
    <3>2. CASE w = v
      <4>1. volumes'[v] = [volumes[v] EXCEPT !.structure[i] = raiseStructureSizes(@, RootfsSize')]
        BY <1>2, <1>10
      <4>2. \A j \in DOMAIN laid[v].structure : IsRootfsStructure(laid[v].structure[j]) <=> j = i
        BY <2>1, <2>2
      <4>3. [laid[v] EXCEPT !.structure[i] = raiseStructureSizes(@, RootfsSize')]
              = Raised(laid[v], RootfsSize')
        BY <1>8, <2>1, <2>3, <4>2, RaisedOne
      <4>4. QED
        BY <1>2, <3>2, <4>1, <4>3
    <3>3. QED
      BY <3>1, <3>2
  <2>6. QED
    BY <1>1, <1>4, <1>5, <2>2, <2>3, <2>4, <2>5 DEF Sized, laid
<1>11. Sized'
  BY <1>9, <1>10 DEF calculateRootfsSize
<1>12. DOMAIN images' = {}
  BY <1>1, EmptyOrder DEF TypesInv, BeforeDisks
<1>13. QED
  BY <1>1, <1>2, <1>4, <1>11, <1>12 DEF LayoutInv

LEMMA LayoutAtPopulate == ASSUME TypesInv, LayoutInv, populatePreparePartitions PROVE LayoutInv'
<1>1. /\ UNCHANGED <<inputs, volumes, VolumeOrder, IsSeeded, RootfsSize, images>>
      /\ pc = "populate_prepare_partitions" /\ pc' = "make_disk" /\ error' = error
      /\ ImageSizes' = [v \in DOMAIN volumes |-> growImageSize(v)]
      /\ partImg' = [v \in DOMAIN volumes |->
                     [i \in IF volumes[v].schema = "emmc" THEN {} ELSE present(v) |->
                        partSize(volumes[v].structure[i])]]
  BY DEF populatePreparePartitions, Goto
<1>2. /\ Sized /\ ImageSizes = parseImageSizes(VolumeOrder) /\ gadget' = gadget
      /\ WellLaid(gadget) /\ error # "overlaps GPT" /\ DOMAIN volumes = NameOf(gadget)
  BY <1>1 DEF LayoutInv, inputs, TypesInv, TypeOK
<1>3. Sized' /\ parseImageSizes(VolumeOrder)' = parseImageSizes(VolumeOrder)
  BY <1>1, <1>2, SizedKept
<1>4. ASSUME NEW v \in NameOf(gadget), volumes[v].schema # "emmc"
      PROVE  /\ ImageSizes'[v] = Larger(parseImageSizes(VolumeOrder)[v],
                                        VolumeMinSize(volumes[v]))
             /\ \A i \in present(v) : partImg'[v][i] = partSize(volumes[v].structure[i])
  BY <1>1, <1>2, <1>4 DEF growImageSize
<1>5. \A v : present(v)' = present(v)
  BY <1>1 DEF present, structures
<1>6. \A s : partSize(s)' = partSize(s)
  BY <1>1 DEF partSize
<1>7. Prepared'
  BY <1>1, <1>2, <1>3, <1>4, <1>5, <1>6 DEF Prepared
<1>8. DOMAIN images' = {}
  BY <1>1, EmptyOrder DEF TypesInv, BeforeDisks
<1>9. QED
  BY <1>1, <1>2, <1>7, <1>8 DEF LayoutInv

\* A disk of createDiskImage has room for the volume and its table.
LEMMA DiskFits ==
    ASSUME TypesInv, WellLaid(gadget), Prepared, NEW v \in NameOf(gadget), Counted(v)
    PROVE  /\ volumes[v] \in Volumes /\ SectorSize \in KnownSizes /\ Tidy(volumes[v], SectorSize)
           /\ tableOf(v).ok
           /\ \A m \in DOMAIN tableOf(v).partitions :
                EntryRight(volumes[v], SectorSize, IsSeeded, createDiskImage(v),
                           tableOf(v).partitions[m])
           /\ \A m, n \in DOMAIN tableOf(v).partitions :
                LET p == tableOf(v).partitions[m]
                    q == tableOf(v).partitions[n]
                IN  m = n \/ p.start + p.sectors <= q.start \/ q.start + q.sectors <= p.start
<1> DEFINE u == volumes[v]
           x == align(Larger(VolumeSize(u), ImageSizes[v]))
<1>1. /\ gadget \in Gadgets /\ SectorSize \in SectorSizes /\ RootfsSize \in Nat
      /\ u \in Volumes /\ ImageSizes[v] \in Nat \cup {NotSet}
      /\ RootfsSize % SectorSize = 0
      /\ u = Raised(fixMissingSystemData(gadget)[v], RootfsSize)
  BY DEF TypesInv, TypeOK, Prepared, Sized
<1>2. Tidy(u, SectorSize)
  BY <1>1, RaisedTidy
<1>3. SectorSize \in KnownSizes
  BY <1>1, DiskAssumptions DEF KnownSizes
<1>4. VolumeSize(u) \in Nat
  BY <1>1, VolumeSizes
<1>5. Larger(VolumeSize(u), ImageSizes[v]) \in Nat /\ VolumeSize(u) <= Larger(VolumeSize(u), ImageSizes[v])
  BY <1>1, <1>4 DEF Larger, NotSet
<1>6. x \in Nat /\ x % SectorSize = 0 /\ VolumeSize(u) <= x
  <2> DEFINE most == Larger(VolumeSize(u), ImageSizes[v])
  <2>1. most \in Nat /\ VolumeSize(u) <= most
    BY <1>5
  <2> HIDE DEF most
  <2>2. align(most) \in Nat /\ align(most) % SectorSize = 0 /\ most <= align(most)
    BY <1>1, <2>1, Aligned
  <2>3. VolumeSize(u) <= align(most)
    BY <1>4, <2>1, <2>2
  <2>4. QED
    BY <2>2, <2>3 DEF most
<1>7. createDiskImage(v) = x + PartitionTableSize(u, SectorSize)
  BY DEF createDiskImage
<1>8. createDiskImage(v) \div SectorSize < IF u.schema = "mbr" THEN MBRWord ELSE Word
  BY DEF Counted
<1>9. tableOf(v) = GeneratePartitionTable(u, SectorSize, createDiskImage(v), IsSeeded)
  BY DEF tableOf
<1> HIDE DEF u, x
<1>10. /\ tableOf(v).ok
       /\ \A m \in DOMAIN tableOf(v).partitions :
            EntryRight(u, SectorSize, IsSeeded, createDiskImage(v), tableOf(v).partitions[m])
       /\ \A m, n \in DOMAIN tableOf(v).partitions :
            LET p == tableOf(v).partitions[m]
                q == tableOf(v).partitions[n]
            IN  m = n \/ p.start + p.sectors <= q.start \/ q.start + q.sectors <= p.start
  BY <1>1, <1>2, <1>3, <1>6, <1>7, <1>8, <1>9, TableFits
<1>11. QED
  BY <1>1, <1>2, <1>3, <1>10 DEF u

LEMMA LayoutAtDisk ==
    ASSUME TypesInv, LayoutInv, WithinTables, NEW v \in left, makeDisk(v)
    PROVE  LayoutInv'
<1>1. /\ UNCHANGED <<inputs, volumes, VolumeOrder, IsSeeded, ImageSizes, RootfsSize, partImg>>
      /\ pc = "make_disk" /\ pc' \in {"make_disk", "failed"} /\ gadget' = gadget
      /\ volumes[v].schema # "emmc" /\ v \in NameOf(gadget)
  BY DEF makeDisk, inputs, Goto, Stop, HasImage, TypesInv, TypeOK
<1>2. Prepared /\ WellLaid(gadget) /\ Counted(v) /\ error # "overlaps GPT"
  BY <1>1 DEF LayoutInv, WithinTables, Counted
<1>3. tableOf(v).ok
  BY <1>1, <1>2, DiskFits
<1>4. Prepared'
  BY <1>1, <1>2, PreparedKept
<1>5. error' # "overlaps GPT"
  BY <1>2, <1>3 DEF makeDisk, tableOf, Goto, Stop
<1> DEFINE made == [size |-> createDiskImage(v), partitions |-> tableOf(v).partitions,
                    data |-> copyDataToImage(v),
                    offsets |-> [i \in offsetsToWrite(v) |-> offsetValue(v, i)]]
<1>6. images' = [w \in DOMAIN images \cup {v} |-> IF w # v THEN images[w] ELSE made]
  BY <1>3 DEF makeDisk, tableOf
<1>7. ImageMade(v)'
  <2>1. /\ made.size = createDiskImage(v) /\ made.partitions = tableOf(v).partitions
        /\ made.data = copyDataToImage(v)
        /\ made.offsets = [i \in offsetsToWrite(v) |-> offsetValue(v, i)]
    OBVIOUS
  <2> HIDE DEF made
  <2>2. images'[v] = made
    BY <1>6
  <2>3. QED
    BY <1>1, <1>2, <2>1, <2>2, DiskKept DEF ImageMade
<1> HIDE DEF made
<1>8. ASSUME NEW w \in DOMAIN images' PROVE ImageMade(w)'
  <2>1. CASE w = v
    BY <1>7, <2>1
  <2>2. CASE w # v
    <3>1. w \in DOMAIN images /\ images'[w] = images[w]
      BY <1>6, <2>2
    <3>2. ImageMade(w)
      BY <3>1 DEF LayoutInv
    <3>3. QED
      BY <1>1, <3>1, <3>2, MadeKept
  <2>3. QED
    BY <2>1, <2>2
<1>9. QED
  BY <1>1, <1>2, <1>4, <1>5, <1>8 DEF LayoutInv

LEMMA LayoutStep ==
    ASSUME TypesInv, LayoutInv, WithinTables, [Next]_vars PROVE LayoutInv'
<1>1. CASE loadGadgetYaml
  BY <1>1, LayoutAtLoad
<1>2. CASE artifactNames
  BY <1>2, LayoutAtNames
<1>3. CASE calculateRootfsSize
  BY <1>3, LayoutAtSize
<1>4. CASE populatePreparePartitions
  BY <1>4, LayoutAtPopulate
<1>5. CASE disksMade
  <2>1. error' = error /\ pc = "make_disk" /\ pc' = "setup_bootloader"
    BY <1>5 DEF disksMade, Goto
  <2>2. QED
    BY <1>5, <2>1, LayoutKept DEF disksMade, LayoutInv
<1>6. CASE setupBootloader
  <2>1. /\ error' \in {error, "no volume", "architecture"} /\ pc = "setup_bootloader"
        /\ pc' \in {"failed", "grub", "done"}
    BY <1>6 DEF setupBootloader, Goto, Stop
  <2>2. QED
    BY <1>6, <2>1, LayoutKept DEF setupBootloader, LayoutInv
<1>7. ASSUME NEW v \in left, makeDisk(v) PROVE LayoutInv'
  BY <1>7, LayoutAtDisk
<1>8. ASSUME NEW v \in left, makeNoDisk(v) PROVE LayoutInv'
  <2>1. error' = error /\ pc = "make_disk" /\ pc' = "make_disk"
    BY <1>8 DEF makeNoDisk
  <2>2. QED
    BY <1>8, <2>1, LayoutKept DEF makeNoDisk, LayoutInv
<1>9. CASE UNCHANGED vars
  <2>1. /\ UNCHANGED <<inputs, volumes, VolumeOrder, RootfsSize, IsSeeded, ImageSizes,
                       partImg, images>>
        /\ pc' = pc /\ error' = error /\ gadget' = gadget
    BY <1>9 DEF vars, inputs
  <2>2. Prepared => Prepared'
    BY <2>1, PreparedKept
  <2>3. \A v \in DOMAIN images' : Prepared' /\ ImageMade(v)'
    BY <2>1, <2>2, MadeKept DEF LayoutInv
  <2>4. Sized => Sized' /\ parseImageSizes(VolumeOrder)' = parseImageSizes(VolumeOrder)
    BY <2>1, SizedKept
  <2>5. Loaded => Loaded'
    <3>1. parseImageSizes(VolumeOrder)' = parseImageSizes(VolumeOrder)
      BY <2>1 DEF parseImageSizes, inputs
    <3>2. QED
      BY <2>1, <3>1 DEF Loaded
  <2>6. QED
    BY <2>1, <2>2, <2>3, <2>4, <2>5 DEF LayoutInv
<1>10. CASE setupGrub
  <2>1. error' \in {error, "grub"} /\ pc = "grub" /\ pc' \in {"failed", "done"}
    BY <1>10 DEF setupGrub, Goto, Stop
  <2>2. QED
    BY <1>10, <2>1, LayoutKept DEF setupGrub, LayoutInv
<1>11. QED
  BY <1>1, <1>2, <1>3, <1>4, <1>5, <1>6, <1>7, <1>8, <1>9, <1>10 DEF Next

LEMMA LayoutInit == ASSUME Init, WellLaid(gadget) PROVE TypesInv /\ LayoutInv
<1>1. pc = "load_gadget_yaml" /\ images = <<>> /\ error = "none"
  BY DEF Init
<1>2. DOMAIN images = {}
  BY <1>1, EmptyOrder
<1>3. LayoutInv
  BY <1>1, <1>2 DEF LayoutInv
<1>4. QED
  BY <1>3, TypesInit

LEMMA LayoutAlways ==
    Spec /\ WellLaid(gadget) /\ []WithinTables => [](TypesInv /\ LayoutInv)
<1>1. Init /\ WellLaid(gadget) => TypesInv /\ LayoutInv
  BY LayoutInit
<1>2. TypesInv /\ LayoutInv /\ WithinTables /\ [Next]_vars => (TypesInv /\ LayoutInv)'
  BY TypesStep, LayoutStep
<1>3. QED
  BY <1>1, <1>2, PTL DEF Spec

LEMMA ImageRight ==
    ASSUME TypesInv, LayoutInv, NEW v \in DOMAIN images
    PROVE  /\ v \in NameOf(gadget) /\ Prepared /\ Sized /\ ImageMade(v)
           /\ WellLaid(gadget) /\ Counted(v)
<1>1. v \in NameOf(gadget)
  BY DEF TypesInv, TypeOK
<1>2. QED
  BY <1>1 DEF LayoutInv, Prepared, ImageMade

\* However large the rootfs is, and whatever size is asked for, the disks made
\* of a well laid gadget have room for every partition between their tables,
\* when they have no more sectors than the tables can count.
THEOREM FitCorrect == Spec /\ WellLaid(gadget) /\ []WithinTables => []PartitionsFit
<1>1. TypesInv /\ LayoutInv => PartitionsFit
  <2> SUFFICES ASSUME TypesInv, LayoutInv PROVE PartitionsFit
    OBVIOUS
  <2>1. ASSUME NEW v \in DOMAIN images, NEW p \in Partitions(v)
        PROVE  FirstUsable(v) <= p.start /\ p.start + p.sectors <= EndUsable(v)
    <3>1. /\ v \in NameOf(gadget) /\ Prepared /\ WellLaid(gadget) /\ Counted(v) /\ ImageMade(v)
      BY ImageRight
    <3>2. PICK m \in DOMAIN tableOf(v).partitions : p = tableOf(v).partitions[m]
      BY <2>1, <3>1 DEF Partitions, Range, ImageMade
    <3>3. EntryRight(volumes[v], SectorSize, IsSeeded, createDiskImage(v), p)
      BY <3>1, <3>2, DiskFits
    <3>4. images[v].size = createDiskImage(v)
      BY <3>1 DEF ImageMade
    <3>5. QED
      BY <3>3, <3>4 DEF EntryRight, FirstUsable, EndUsable
  <2>2. QED
    BY <2>1 DEF PartitionsFit, LayoutInv
<1>2. QED
  BY <1>1, LayoutAlways, PTL

\* No two partitions of a disk made of a well laid gadget share a sector.
THEOREM DisjointCorrect == Spec /\ WellLaid(gadget) /\ []WithinTables => []PartitionsDisjoint
<1>1. TypesInv /\ LayoutInv => PartitionsDisjoint
  <2> SUFFICES ASSUME TypesInv, LayoutInv, NEW v \in DOMAIN images,
                      NEW m \in DOMAIN images[v].partitions,
                      NEW n \in DOMAIN images[v].partitions
               PROVE  LET p == images[v].partitions[m]
                          q == images[v].partitions[n]
                      IN  \/ m = n \/ p.start + p.sectors <= q.start
                          \/ q.start + q.sectors <= p.start
    BY DEF PartitionsDisjoint
  <2>1. /\ v \in NameOf(gadget) /\ Prepared /\ WellLaid(gadget) /\ Counted(v) /\ ImageMade(v)
    BY ImageRight
  <2>2. images[v].partitions = tableOf(v).partitions
    BY <2>1 DEF ImageMade
  <2>3. QED
    BY <2>1, <2>2, DiskFits
<1>2. QED
  BY <1>1, LayoutAlways, PTL

\* The rootfs has the room that its content needs.
LEMMA RootfsRoom ==
    ASSUME TypesInv, Sized, NEW v \in NameOf(gadget), NEW i \in DOMAIN volumes[v].structure
    PROVE  /\ partSize(volumes[v].structure[i]) \in Nat
           /\ partSize(volumes[v].structure[i]) <= volumes[v].structure[i].size
           /\ IsRootfsStructure(volumes[v].structure[i]) =>
                partSize(volumes[v].structure[i]) >= getRootfsMinSize
<1> DEFINE d == fixMissingSystemData(gadget)[v]
           s == volumes[v].structure[i]
<1>1. /\ gadget \in Gadgets /\ RootfsSize \in Nat /\ volumes[v] \in Volumes
      /\ volumes[v] = Raised(d, RootfsSize) /\ getRootfsMinSize <= RootfsSize
  BY DEF TypesInv, TypeOK, Sized
<1>2. getRootfsMinSize \in Nat
  BY SizeTypes DEF TypesInv, TypeOK
<1>3. d \in Volumes
  BY <1>1, FixedVolumes
<1>4. s \in Structures
  <2>1. volumes[v].structure[i] \in Structures
    BY <1>1, Geometry
  <2>2. QED
    BY <2>1
<1>5. /\ i \in DOMAIN d.structure
      /\ s = IF IsRootfsStructure(d.structure[i])
             THEN raiseStructureSizes(d.structure[i], RootfsSize) ELSE d.structure[i]
  BY <1>1, <1>3, RaisedTypes
<1>6. d.structure[i] \in Structures
  BY <1>3, <1>5, Geometry
<1> HIDE DEF d
<1>7. s.size \in Nat /\ s.role = d.structure[i].role
  BY <1>4, <1>5, <1>6 DEF Structures, raiseStructureSizes
<1>8. IsRootfsStructure(s) => RootfsSize <= s.size
  <2>1. SUFFICES ASSUME IsRootfsStructure(s) PROVE RootfsSize <= s.size
    OBVIOUS
  <2>2. IsRootfsStructure(d.structure[i])
    BY <1>7, <2>1 DEF IsRootfsStructure
  <2>3. s.size = Larger(d.structure[i].size, RootfsSize)
    BY <1>5, <1>6, <2>2 DEF Structures, raiseStructureSizes
  <2>4. d.structure[i].size \in Nat
    BY <1>6 DEF Structures
  <2>5. QED
    BY <1>1, <2>3, <2>4 DEF Larger
<1>9. partSize(s) = IF IsRootfsStructure(s) THEN RootfsSize ELSE s.size
  BY DEF partSize
<1> HIDE DEF s
<1>10. /\ partSize(s) \in Nat /\ partSize(s) <= s.size
       /\ IsRootfsStructure(s) => partSize(s) >= getRootfsMinSize
  BY <1>1, <1>2, <1>7, <1>8, <1>9
<1>11. QED
  BY <1>10 DEF s

LEMMA GadgetKept == ASSUME [Next]_vars PROVE gadget' = gadget
  BY DEF Next, vars, inputs, loadGadgetYaml, artifactNames, calculateRootfsSize,
         populatePreparePartitions, makeDisk, makeNoDisk, disksMade, setupBootloader, setupGrub

\* Sizes of partitions stay whole numbers of sectors when the rootfs is raised.
LEMMA RaisedWhole ==
    ASSUME TypesInv, WholeSectors(gadget), Prepared, NEW v \in NameOf(gadget),
           NEW i \in DOMAIN volumes[v].structure, IsPartition(volumes[v].structure[i])
    PROVE  volumes[v].structure[i].size % SectorSize = 0
<1> DEFINE d == fixMissingSystemData(gadget)[v]
           s == d.structure[i]
           u == volumes[v]
<1>1. /\ Sized /\ gadget \in Gadgets /\ SectorSize \in SectorSizes
      /\ RootfsSize \in Nat /\ RootfsSize % SectorSize = 0
      /\ u = Raised(d, RootfsSize)
  BY DEF Prepared, TypesInv, TypeOK, Sized
<1>2. d \in Volumes
  BY <1>1, FixedVolumes
<1>3. /\ i \in DOMAIN d.structure
      /\ u.structure[i] = IF IsRootfsStructure(s) THEN raiseStructureSizes(s, RootfsSize) ELSE s
  BY <1>1, <1>2, RaisedTypes
<1>4. s \in Structures
  BY <1>2, <1>3, Geometry
<1>5. u.structure[i].role = s.role
      /\ (u.structure[i].size = s.size \/ u.structure[i].size = RootfsSize)
  <2> HIDE DEF s, u
  <2>1. QED
    BY <1>3, <1>4 DEF raiseStructureSizes, Larger, Structures
<1>6. IsPartition(s) /\ s \in Range(d.structure)
  BY <1>3, <1>5 DEF IsPartition, Range
<1>7. s.size % SectorSize = 0
  <2>1. \A t \in Range(d.structure) : IsPartition(t) => \A b \in SectorSizes : t.size % b = 0
    BY DEF WholeSectors
  <2> HIDE DEF d, s
  <2>2. QED
    BY <1>1, <1>6, <2>1
<1>8. QED
  BY <1>1, <1>5, <1>7

\* What makeDisk copies for an entry of the table, and what it writes of it.
DataRight(v, p) ==
    LET d == copyDataToImage(v)[p.structure] IN
    /\ d.seek = p.start
    /\ d.bytes = partImg[v][p.structure] /\ d.bytes <= p.sectors * SectorSize
    /\ IsRootfsStructure(volumes[v].structure[p.structure]) => d.bytes >= getRootfsMinSize
    /\ p.structure \in offsetsToWrite(v) => offsetValue(v, p.structure) = p.start

LEMMA DataCopied ==
    ASSUME TypesInv, WellLaid(gadget), WholeSectors(gadget), Prepared, NEW v \in NameOf(gadget), Counted(v),
           volumes[v].schema # "emmc", NEW p, 
           EntryRight(volumes[v], SectorSize, IsSeeded, createDiskImage(v), p)
    PROVE  DataRight(v, p)
<1> DEFINE i == p.structure
           u == volumes[v]
           part == partSize(u.structure[i])
           size == u.structure[i].size
           sectors == Ceil(size, SectorSize)
<1>1. /\ u \in Volumes /\ SectorSize \in KnownSizes /\ Tidy(u, SectorSize)
  BY DiskFits
<1>2. /\ i \in Added(u, IsSeeded) /\ p.sectors \in Nat
      /\ size % SectorSize = 0 => p.sectors * SectorSize = size
      /\ p.start = StartOffset(u)[i] \div SectorSize
  BY DEF EntryRight
<1>3. i \in DOMAIN u.structure /\ i \in present(v)
  BY <1>2 DEF Added, present, structures
<1>4. Sized /\ partImg[v][i] = part
  BY <1>3 DEF Prepared
<1>5. /\ part \in Nat /\ part <= size
      /\ IsRootfsStructure(u.structure[i]) => part >= getRootfsMinSize
  BY <1>3, <1>4, RootfsRoom
<1>6. size \in Nat
  <2>1. u.structure[i] \in Structures
    BY <1>1, <1>3, Geometry
  <2>2. QED
    BY <2>1 DEF Structures
<1>7. copyDataToImage(v)[i] =
        [seek |-> StartOffset(u)[i] \div SectorSize,
         bytes |-> IF part <= sectors * SectorSize THEN part ELSE sectors * SectorSize]
  <2>1. copyDataToImage(v)[i] =
          [seek |-> seek(v, i),
           bytes |-> LET most == count(v, i) * SectorSize
                     IN  IF partImg[v][i] <= most THEN partImg[v][i] ELSE most]
    BY <1>3 DEF copyDataToImage
  <2>2. QED
    BY <1>4, <2>1 DEF seek, count
<1>13. p.sectors * SectorSize = size
  <2>1. IsPartition(u.structure[i])
    BY <1>2 DEF Added
  <2>2. QED
    BY <1>2, <1>3, <2>1, RaisedWhole
<1> HIDE DEF part, size
<1>8. sectors * SectorSize \in Nat /\ size <= sectors * SectorSize
  BY <1>1, <1>6, CeilTypes
<1> HIDE DEF sectors
<1>9. part <= sectors * SectorSize
  BY <1>5, <1>6, <1>8
<1>10. i \in offsetsToWrite(v) => offsetValue(v, i) = p.start
  <2>1. TidyAt(u, SectorSize, i)
    BY <1>1, <1>3 DEF Tidy
  <2>2. u.structure[i].offsetWrite => u.structure[i].offset = StartOffset(u)[i]
    BY <2>1 DEF TidyAt
  <2>3. QED
    BY <1>2, <2>2 DEF offsetsToWrite, offsetValue
<1>11. copyDataToImage(v)[i].seek = p.start /\ copyDataToImage(v)[i].bytes = part
  BY <1>2, <1>7, <1>9
<1> HIDE DEF i, u
<1>12. QED
  BY <1>2, <1>4, <1>5, <1>10, <1>11, <1>13 DEF DataRight, i, u

\* What was prepared for a partition of a disk of a well laid gadget is in it,
\* from its first sector and whole, and the rootfs has the room it needs, when
\* the sizes of partitions are whole numbers of sectors.
THEOREM ContentCorrect ==
    Spec /\ WellLaid(gadget) /\ WholeSectors(gadget) /\ []WithinTables => []ContentInPartition
<1>1. TypesInv /\ LayoutInv /\ WholeSectors(gadget) => ContentInPartition
  <2> SUFFICES ASSUME TypesInv, LayoutInv, WholeSectors(gadget), NEW v \in DOMAIN images, NEW p \in Partitions(v)
               PROVE  LET d == images[v].data[p.structure] IN
                 /\ d.seek = p.start
                 /\ d.bytes = partImg[v][p.structure] /\ d.bytes <= p.sectors * SectorSize
                 /\ IsRootfsStructure(volumes[v].structure[p.structure]) =>
                      d.bytes >= getRootfsMinSize
                 /\ p.structure \in DOMAIN images[v].offsets =>
                      images[v].offsets[p.structure] = p.start
    BY DEF ContentInPartition
  <2>1. /\ v \in NameOf(gadget) /\ Prepared /\ WellLaid(gadget) /\ Counted(v) /\ ImageMade(v)
    BY ImageRight
  <2>2. PICK m \in DOMAIN tableOf(v).partitions : p = tableOf(v).partitions[m]
    BY <2>1 DEF Partitions, Range, ImageMade
  <2>3. EntryRight(volumes[v], SectorSize, IsSeeded, createDiskImage(v), p)
    BY <2>1, <2>2, DiskFits
  <2>4. /\ images[v].data = copyDataToImage(v) /\ volumes[v].schema # "emmc"
        /\ images[v].offsets = [i \in offsetsToWrite(v) |-> offsetValue(v, i)]
    BY <2>1 DEF ImageMade
  <2>5. DataRight(v, p)
    BY <2>1, <2>3, <2>4, DataCopied
  <2>6. QED
    BY <2>4, <2>5 DEF DataRight
<1>2. Spec /\ WholeSectors(gadget) => []WholeSectors(gadget)
  <2>1. WholeSectors(gadget) /\ [Next]_vars => WholeSectors(gadget)'
    <3> SUFFICES ASSUME WholeSectors(gadget), [Next]_vars PROVE WholeSectors(gadget')
      BY DEF WholeSectors
    <3>1. gadget' = gadget
      BY GadgetKept
    <3>2. QED
      BY <3>1
  <2>2. QED
    BY <2>1, PTL DEF Spec
<1>3. QED
  BY <1>1, <1>2, LayoutAlways, PTL

\* A volume with its rootfs raised is as much larger as the rootfs is.
LEMMA RaisedSize ==
    ASSUME TypesInv, WellLaid(gadget), NEW v \in NameOf(gadget), NEW d,
           d = fixMissingSystemData(gadget)[v], NEW r \in DOMAIN d.structure,
           IsRootfsStructure(d.structure[r]), NEW size \in Nat,
           NEW declared, declared = d.structure[r].size
    PROVE  /\ declared \in Nat /\ VolumeSize(d) \in Nat
           /\ VolumeSize(Raised(d, size)) =
                VolumeSize(d) + IF declared >= size THEN 0 ELSE size - declared
<1> DEFINE delta == Larger(declared, size) - declared
<1>1. gadget \in Gadgets /\ SectorSize \in SectorSizes
  BY DEF TypesInv
<1>2. d \in Volumes
  BY <1>1, FixedVolumes
<1>3. /\ DOMAIN d.structure = 1..Len(d.structure)
      /\ Sizes(d) = [i \in 1..Len(d.structure) |-> d.structure[i].size]
      /\ Sizes(d) \in [1..Len(d.structure) -> Nat]
  BY <1>2, Geometry
<1>4. Sizes(d)[r] = declared /\ declared \in Nat
  BY <1>3
<1>5. VolumeSize(d) \in Nat
  BY <1>2, VolumeSizes
<1>6. delta = IF declared >= size THEN 0 ELSE size - declared
  BY <1>4 DEF Larger
<1>7. MovedBy(d, Raised(d, size), r, delta)
  BY <1>1, <1>4, RaisedMoves
<1> HIDE DEF delta
<1>8. VolumeSize(Raised(d, size)) = VolumeSize(d) + delta
  BY <1>7 DEF MovedBy
<1>9. QED
  BY <1>4, <1>5, <1>6, <1>8

LEMMA NoRootfsTypes == ASSUME NEW d \in Volumes PROVE calculateNoRootfsSize(d) \in Nat
<1>1. PICK size \in [0..Len(d.structure) -> Nat] : calculateNoRootfsSize(d) = size[Len(d.structure)]
  BY NoRootfsSize
<1>2. Len(d.structure) \in 0..Len(d.structure)
  <2>1. Len(d.structure) \in Nat
    BY Geometry
  <2>2. QED
    BY <2>1
<1>3. QED
  BY <1>1, <1>2

\* A least size that sectors round is not above a size in whole sectors.
LEMMA LeastAligned ==
    ASSUME SectorSize \in SectorSizes, NEW least \in Nat, NEW size \in Nat, least <= size,
           size % SectorSize = 0
    PROVE  align(least) \in Nat /\ align(least) <= size
<1>1. SectorSize \in KnownSizes
  BY DiskAssumptions DEF KnownSizes
<1>2. align(least) \in Nat
  BY Aligned
<1>3. Ceil(least, SectorSize) * SectorSize <= Ceil(size, SectorSize) * SectorSize
  BY <1>1, CeilGrows
<1>4. Ceil(size, SectorSize) * SectorSize = size
  BY <1>1, CeilExact
<1>5. QED
  BY <1>2, <1>3, <1>4 DEF align

\* What is left to the rootfs by the others and the table: nothing that asks for
\* more than it has as long as the size asked for is not above all of them, and
\* the difference, to the next sector, when it is.
LEMMA Desired ==
    ASSUME SectorSize \in SectorSizes, NEW asked \in Nat, NEW others \in Nat, NEW table \in Nat,
           NEW rootfs \in Nat, rootfs % SectorSize = 0
    PROVE  LET desired == align(SafeQuantitySubtraction(asked, others + table)) IN
           /\ desired \in Nat
           /\ asked <= others + rootfs + table => desired <= rootfs
           /\ asked > others + rootfs + table =>
                /\ desired > rootfs /\ asked - table <= others + desired
                /\ others + desired < asked - table + SectorSize
<1> DEFINE room == SafeQuantitySubtraction(asked, others + table)
           desired == align(room)
<1>1. /\ room \in Nat /\ SectorSize \in Nat
      /\ room = IF asked >= others + table THEN asked - (others + table) ELSE 0
  BY DiskAssumptions DEF SafeQuantitySubtraction
<1> HIDE DEF room
<1>2. desired = align(room)
  OBVIOUS
<1> HIDE DEF desired
<1>3. desired \in Nat /\ room <= desired /\ desired < room + SectorSize
  BY <1>1, <1>2, Aligned
<1>4. room <= rootfs => desired <= rootfs
  BY <1>1, <1>2, LeastAligned
<1>5. /\ asked <= others + rootfs + table => desired <= rootfs
      /\ asked > others + rootfs + table =>
           /\ desired > rootfs /\ asked - table <= others + desired
           /\ others + desired < asked - table + SectorSize
  BY <1>1, <1>3, <1>4
<1>6. QED
  BY <1>3, <1>5 DEF desired, room

\* The size of a volume with the rootfs as large as calculateRootfsSize has it:
\* the least, or what is asked for without the table, to the next sector.
LEMMA AskedSize ==
    ASSUME TypesInv, WellLaid(gadget), NoGaps(gadget), Sized, NEW v \in NameOf(gadget),
           NEW d, d = fixMissingSystemData(gadget)[v],
           NEW asked, asked = parseImageSizes(VolumeOrder)[v], asked \in Nat \cup {NotSet},
           NEW table, table = PartitionTableSize(d, SectorSize),
           NEW smallest, smallest = VolumeSize(Raised(d, getRootfsMinSize)),
           NEW actual, actual = VolumeSize(volumes[v])
    PROVE  IF asked <= smallest + table \/ \A i \in DOMAIN d.structure : ~IsRootfsStructure(d.structure[i])
           THEN actual = smallest
           ELSE asked - table <= actual /\ actual < asked - table + SectorSize
<1> DEFINE others == calculateNoRootfsSize(d)
           min == getRootfsMinSize
<1>1. /\ gadget \in Gadgets /\ SectorSize \in SectorSizes /\ RootfsSize \in Nat
      /\ volumes[v] = Raised(d, RootfsSize)
  BY DEF TypesInv, TypeOK, Sized
<1>2. min \in Nat /\ min % SectorSize = 0
  <2>1. Ceil(3 * content, 2) + ext4Padding \in Nat
    <3>1. content \in Nat /\ ext4Padding \in Nat
      BY DiskAssumptions DEF TypesInv
    <3>2. QED
      BY <3>1 DEF Ceil
  <2>2. QED
    BY <1>1, <2>1, Aligned DEF getRootfsMinSize
<1>3. d \in Volumes
  BY <1>1, FixedVolumes
<1>4. table \in Nat
  <2>1. SectorSize \in KnownSizes
    BY <1>1, DiskAssumptions DEF KnownSizes
  <2>2. QED
    BY <2>1, TableSize
<1>5. others \in Nat
  BY <1>3, NoRootfsTypes
<1> HIDE DEF others, min
<1>6. CASE \A i \in DOMAIN d.structure : ~IsRootfsStructure(d.structure[i])
  <2>1. Raised(d, min) = d /\ Raised(d, RootfsSize) = d
    BY <1>1, <1>2, <1>3, <1>6, RaisedTypes
  <2>2. QED
    BY <1>1, <1>6, <2>1 DEF min
<1>7. ASSUME NEW r \in DOMAIN d.structure, IsRootfsStructure(d.structure[r])
      PROVE  IF asked <= smallest + table THEN actual = smallest
             ELSE asked - table <= actual /\ actual < asked - table + SectorSize
  <2> DEFINE size == d.structure[r].size
             least == d.structure[r].min
             rounded == align(least)
             desired == align(SafeQuantitySubtraction(asked, others + table))
             rootfs == Larger(size, min)
  <2>1. RootfsSize = IF asked = NotSet THEN Larger(min, rounded)
                     ELSE Larger(Larger(min, rounded), desired)
    <3>1. RootfsSize = wantedSize(v, r)
      BY <1>7 DEF Sized
    <3>2. QED
      BY <3>1 DEF wantedSize, others, min
  <2>2. size \in Nat /\ least \in Nat /\ least <= size /\ size % SectorSize = 0
    <3>1. LaidOut(d, SectorSize, r)
      BY <1>1, WellLaidStructure
    <3>2. d.structure[r] \in Structures
      BY <1>3, Geometry
    <3>3. QED
      BY <1>7, <3>1, <3>2 DEF LaidOut, Structures
  <2>3. rounded \in Nat /\ rounded <= size
    <3> HIDE DEF size, least
    <3>1. QED
      BY <1>1, <2>2, LeastAligned
  <2>4. VolumeSize(d) = others + size
    <3> DEFINE All(e) == \A i \in DOMAIN e.structure : IsRootfsStructure(e.structure[i]) =>
                           VolumeSize(e) = calculateNoRootfsSize(e) + e.structure[i].size
    <3>1. All(d)
      <4>1. \A w \in NameOf(gadget) : All(fixMissingSystemData(gadget)[w])
        BY DEF NoGaps
      <4> HIDE DEF All
      <4>2. QED
        BY <4>1
    <3>2. QED
      BY <1>7, <3>1 DEF others
  <2>5. smallest = others + rootfs /\ actual = others + Larger(size, RootfsSize)
    <3>1. size = d.structure[r].size
      OBVIOUS
    <3> HIDE DEF size, desired, least, rounded, rootfs
    <3>2. \A x \in Nat :
            VolumeSize(Raised(d, x)) = VolumeSize(d) + IF size >= x THEN 0 ELSE x - size
      BY <1>7, <3>1, RaisedSize
    <3>3. \A x \in Nat : VolumeSize(Raised(d, x)) = others + Larger(size, x)
      BY <1>5, <2>2, <2>4, <3>2 DEF Larger
    <3>4. QED
      BY <1>1, <1>2, <3>3 DEF rootfs, min
  <2> HIDE DEF size, least, rounded
  <2>6. rootfs \in Nat /\ rootfs % SectorSize = 0
    BY <1>2, <2>2 DEF Larger
  <2> HIDE DEF rootfs
  <2>7. CASE asked = NotSet
    <3>1. Larger(size, RootfsSize) = rootfs
      BY <1>2, <2>1, <2>2, <2>3, <2>7 DEF Larger, rootfs
    <3>2. asked <= smallest + table
      BY <1>4, <1>5, <2>5, <2>6, <2>7 DEF NotSet
    <3>3. QED
      BY <2>5, <3>1, <3>2
  <2>8. CASE asked # NotSet
    <3>1. asked \in Nat
      BY <2>8
    <3>2. /\ desired \in Nat
          /\ asked <= others + rootfs + table => desired <= rootfs
          /\ asked > others + rootfs + table =>
               /\ desired > rootfs /\ asked - table <= others + desired
               /\ others + desired < asked - table + SectorSize
      BY <1>1, <1>4, <1>5, <2>6, <3>1, Desired
    <3> HIDE DEF desired
    <3>3. Larger(size, RootfsSize) = Larger(rootfs, desired)
      BY <1>2, <2>1, <2>2, <2>3, <2>8, <3>2 DEF Larger, rootfs
    <3>4. CASE asked <= smallest + table
      BY <1>4, <1>5, <2>5, <2>6, <3>1, <3>2, <3>3, <3>4 DEF Larger
    <3>5. CASE ~(asked <= smallest + table)
      BY <1>4, <1>5, <2>5, <2>6, <3>1, <3>2, <3>3, <3>5 DEF Larger
    <3>6. QED
      BY <3>4, <3>5
  <2>9. QED
    BY <2>7, <2>8
<1>8. QED
  BY <1>6, <1>7

LEMMA LeastSizeRaised ==
    ASSUME TypesInv, NEW v \in NameOf(gadget)
    PROVE  LeastSize(v) = VolumeSize(Raised(fixMissingSystemData(gadget)[v], getRootfsMinSize))
  BY DEF LeastSize, Raised

\* Whatever size is asked for, the disks of a well laid gadget without gaps have
\* it, or the least size of their volume, with the table added; and the rootfs
\* takes what is left of it without the table, to the next sector, and no more.
THEOREM SizeCorrect ==
    Spec /\ WellLaid(gadget) /\ NoGaps(gadget) /\ []WithinTables => []ImageSizeHonoured
<1>1. TypesInv /\ LayoutInv /\ NoGaps(gadget) => ImageSizeHonoured
  <2> SUFFICES ASSUME TypesInv, LayoutInv, NoGaps(gadget), NEW v \in DOMAIN images
               PROVE  LET asked == parseImageSizes(VolumeOrder)[v]
                          table == PartitionTableSize(volumes[v], SectorSize)
                          least == LeastSize(v)
                          size  == VolumeSize(volumes[v])
                      IN  /\ images[v].size = align(Larger(asked, least)) + table
                          /\ IF asked <= least + table \/ rootfsStructures(v) = {}
                             THEN size = least
                             ELSE asked - table <= size /\ size < asked - table + SectorSize
    BY DEF ImageSizeHonoured
  <2> DEFINE asked == parseImageSizes(VolumeOrder)[v]
             u == volumes[v]
             d == fixMissingSystemData(gadget)[v]
             table == PartitionTableSize(u, SectorSize)
             least == LeastSize(v)
             size == VolumeSize(u)
             declared == VolumeMinSize(u)
  <2>1. /\ v \in NameOf(gadget) /\ Prepared /\ Sized /\ ImageMade(v) /\ WellLaid(gadget)
        /\ Counted(v) /\ gadget \in Gadgets /\ SectorSize \in SectorSizes
        /\ sizeFlag \in SizeFlags /\ u \in Volumes /\ RootfsSize \in Nat
        /\ u = Raised(d, RootfsSize)
    BY ImageRight DEF TypesInv, TypeOK, Sized
  <2>2. d \in Volumes
    BY <2>1, FixedVolumes
  <2>3. table = PartitionTableSize(d, SectorSize)
    <3>1. u.schema = d.schema
      BY <2>1, <2>2, RaisedTypes
    <3>2. QED
      BY <3>1 DEF PartitionTableSize
  <2>4. rootfsStructures(v) = {} <=> \A i \in DOMAIN d.structure : ~IsRootfsStructure(d.structure[i])
    <3>1. /\ DOMAIN u.structure = DOMAIN d.structure
          /\ \A i \in DOMAIN d.structure : d.structure[i] \in Structures
          /\ \A i \in DOMAIN d.structure :
               u.structure[i] = IF IsRootfsStructure(d.structure[i])
                                THEN raiseStructureSizes(d.structure[i], RootfsSize)
                                ELSE d.structure[i]
      BY <2>1, <2>2, RaisedTypes, Geometry
    <3> HIDE DEF u, d
    <3>2. \A i \in DOMAIN d.structure :
            IsRootfsStructure(u.structure[i]) <=> IsRootfsStructure(d.structure[i])
      BY <3>1 DEF IsRootfsStructure, raiseStructureSizes, Structures
    <3>3. rootfsStructures(v) = {i \in DOMAIN u.structure : IsRootfsStructure(u.structure[i])}
      BY DEF rootfsStructures, structures, u
    <3>4. QED
      BY <3>1, <3>2, <3>3
  <2>5. least = VolumeSize(Raised(d, getRootfsMinSize))
    BY <2>1, LeastSizeRaised
  <2>6. least \in Nat /\ size \in Nat
    <3>1. getRootfsMinSize \in Nat
      BY SizeTypes DEF TypesInv, TypeOK
    <3>2. Raised(d, getRootfsMinSize) \in Volumes
      BY <2>2, <3>1, RaisedTypes
    <3>3. QED
      BY <2>1, <2>5, <3>2, VolumeSizes
  <2>7. declared \in Nat /\ declared <= size
    <3>1. Tidy(u, SectorSize)
      BY <2>1, DiskFits
    <3>2. \A i \in DOMAIN u.structure : u.structure[i].min <= u.structure[i].size
      BY <3>1 DEF Tidy, TidyAt
    <3>3. QED
      BY <2>1, <3>2, LeastFits, VolumeSizes
  <2>8. table \in Nat /\ table >= SectorSize /\ SectorSize \in Nat
    <3>1. SectorSize \in KnownSizes
      BY <2>1, DiskAssumptions DEF KnownSizes
    <3>2. QED
      BY <3>1, TableSize DEF KnownSizes
  <2>9. asked \in Nat \cup {NotSet}
    <3>1. pc # "load_gadget_yaml"
      BY EmptyOrder DEF TypesInv, BeforeDisks
    <3>2. VolumeOrder = saveVolumeOrder(gadget)
      BY <3>1 DEF TypesInv
    <3>3. Range(VolumeOrder) = NameOf(gadget)
      BY <2>1, <3>2, Ordered
    <3>4. QED
      BY <2>1, <3>3, ParsedSizes
  <2>10. IF asked <= least + table \/ rootfsStructures(v) = {} THEN size = least
         ELSE asked - table <= size /\ size < asked - table + SectorSize
    BY <2>1, <2>3, <2>4, <2>5, <2>9, AskedSize
  <2>11. images[v].size = align(Larger(size, Larger(asked, declared))) + table
    BY <2>1 DEF Prepared, ImageMade, createDiskImage
  <2> HIDE DEF asked, table, least, size, declared
  <2>12. Larger(size, Larger(asked, declared)) = Larger(asked, least)
    <3>1. asked \in Int /\ Larger(size, Larger(asked, declared)) = Larger(asked, size)
      BY <2>6, <2>7, <2>9 DEF Larger, NotSet
    <3>2. CASE size = least
      BY <3>1, <3>2
    <3>3. CASE asked > least + table /\ size < asked - table + SectorSize
      <4>1. size < asked /\ least < asked
        BY <2>6, <2>8, <3>1, <3>3
      <4>2. Larger(asked, size) = asked /\ Larger(asked, least) = asked
        <5>1. asked \in Int
          BY <3>1
        <5>2. QED
          BY <2>6, <4>1, <5>1 DEF Larger
      <4>3. QED
        BY <3>1, <4>2
    <3>4. CASE ~(asked <= least + table \/ rootfsStructures(v) = {})
      <4>1. asked - table <= size /\ size < asked - table + SectorSize
        BY <2>10, <3>4
      <4>2. ~(asked <= least + table)
        BY <3>4
      <4>3. asked > least + table
        BY <2>6, <2>8, <3>1, <4>2
      <4>4. QED
        BY <3>3, <4>1, <4>3
    <3>5. CASE asked <= least + table \/ rootfsStructures(v) = {}
      BY <2>10, <3>2, <3>5
    <3>6. QED
      BY <3>4, <3>5
  <2>13. QED
    BY <2>10, <2>11, <2>12 DEF asked, table, least, size
<1>2. Spec /\ NoGaps(gadget) => []NoGaps(gadget)
  <2>1. NoGaps(gadget) /\ [Next]_vars => NoGaps(gadget)'
    <3> SUFFICES ASSUME NoGaps(gadget), [Next]_vars PROVE NoGaps(gadget')
      BY DEF NoGaps
    <3>1. gadget' = gadget
      BY GadgetKept
    <3>2. QED
      BY <3>1
  <2>2. QED
    BY <2>1, PTL DEF Spec
<1>3. QED
  BY <1>1, <1>2, LayoutAlways, PTL

=============================================================================
