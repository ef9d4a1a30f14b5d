-------------------------- MODULE ImageBuildProofs --------------------------
(***************************************************************************)
(* The lists of states keep to one order for every image definition; what  *)
(* must come before or after the copy of the chroot follows from it.       *)
(***************************************************************************)
EXTENDS ImageBuild, SequenceTheorems, TLAPS

(***************************************************************************)
(* The place of each state of a classic image in that order.  The lists    *)
(* that calculateStates computes leave states out and never swap any.      *)
(***************************************************************************)
Place(name) ==
    CASE name = "build_gadget_tree" -> 1
      [] name = "prepare_gadget_tree" -> 2
      [] name = "load_gadget_yaml" -> 3
      [] name = "verify_artifact_names" -> 4
      [] name = "germinate" -> 5
      [] name = "create_chroot" -> 6
      [] name = "extract_rootfs_tar" -> 7
      [] name = "build_rootfs_from_tasks" -> 8
      [] name = "upgrade_packages" -> 9
      [] name = "add_extra_ppas" -> 10
      [] name = "install_packages" -> 11
      [] name = "clean_extra_ppas" -> 12
      [] name = "prepare_image" -> 13
      [] name = "preseed_image" -> 14
      [] name = "clean_rootfs" -> 15
      [] name = "customize_sources_list" -> 16
      [] name = "customize_cloud_init" -> 17
      [] name = "customize_fstab" -> 18
      [] name = "perform_manual_customization" -> 19
      [] name = "set_default_locale" -> 20
      [] name = "populate_rootfs_contents" -> 21
      [] name = "generate_disk_info" -> 22
      [] name = "calculate_rootfs_size" -> 23
      [] name = "populate_bootfs_contents" -> 24
      [] name = "populate_prepare_partitions" -> 25
      [] name = "make_disk" -> 26
      [] name = "setup_bootloader" -> 27
      [] name = "make_qcow2_image" -> 28
      [] name = "generate_package_manifest" -> 29
      [] name = "generate_filelist" -> 30
      [] name = "generate_rootfs_tarball" -> 31

ClassicNames ==
    {"build_gadget_tree", "prepare_gadget_tree", "load_gadget_yaml", "verify_artifact_names",
     "germinate", "create_chroot", "extract_rootfs_tar", "build_rootfs_from_tasks",
     "upgrade_packages", "add_extra_ppas", "install_packages", "clean_extra_ppas",
     "prepare_image", "preseed_image", "clean_rootfs", "customize_sources_list",
     "customize_cloud_init", "customize_fstab", "perform_manual_customization",
     "set_default_locale", "populate_rootfs_contents", "generate_disk_info",
     "calculate_rootfs_size", "populate_bootfs_contents", "populate_prepare_partitions",
     "make_disk", "setup_bootloader", "make_qcow2_image", "generate_package_manifest",
     "generate_filelist", "generate_rootfs_tarball"}

\* The same as equations.
LEMMA PlaceOf ==
    /\ Place("build_gadget_tree") = 1 /\ Place("prepare_gadget_tree") = 2
    /\ Place("load_gadget_yaml") = 3 /\ Place("verify_artifact_names") = 4
    /\ Place("germinate") = 5 /\ Place("create_chroot") = 6
    /\ Place("extract_rootfs_tar") = 7 /\ Place("build_rootfs_from_tasks") = 8
    /\ Place("upgrade_packages") = 9 /\ Place("add_extra_ppas") = 10
    /\ Place("install_packages") = 11 /\ Place("clean_extra_ppas") = 12
    /\ Place("prepare_image") = 13 /\ Place("preseed_image") = 14
    /\ Place("clean_rootfs") = 15 /\ Place("customize_sources_list") = 16
    /\ Place("customize_cloud_init") = 17 /\ Place("customize_fstab") = 18
    /\ Place("perform_manual_customization") = 19 /\ Place("set_default_locale") = 20
    /\ Place("populate_rootfs_contents") = 21 /\ Place("generate_disk_info") = 22
    /\ Place("calculate_rootfs_size") = 23 /\ Place("populate_bootfs_contents") = 24
    /\ Place("populate_prepare_partitions") = 25 /\ Place("make_disk") = 26
    /\ Place("setup_bootloader") = 27 /\ Place("make_qcow2_image") = 28
    /\ Place("generate_package_manifest") = 29 /\ Place("generate_filelist") = 30
    /\ Place("generate_rootfs_tarball") = 31
  BY DEF Place

LEMMA Known ==
    /\ "build_gadget_tree" \in ClassicNames /\ "prepare_gadget_tree" \in ClassicNames
    /\ "load_gadget_yaml" \in ClassicNames /\ "verify_artifact_names" \in ClassicNames
    /\ "germinate" \in ClassicNames /\ "create_chroot" \in ClassicNames
    /\ "extract_rootfs_tar" \in ClassicNames /\ "build_rootfs_from_tasks" \in ClassicNames
    /\ "upgrade_packages" \in ClassicNames /\ "add_extra_ppas" \in ClassicNames
    /\ "install_packages" \in ClassicNames /\ "clean_extra_ppas" \in ClassicNames
    /\ "prepare_image" \in ClassicNames /\ "preseed_image" \in ClassicNames
    /\ "clean_rootfs" \in ClassicNames /\ "customize_sources_list" \in ClassicNames
    /\ "customize_cloud_init" \in ClassicNames /\ "customize_fstab" \in ClassicNames
    /\ "perform_manual_customization" \in ClassicNames /\ "set_default_locale" \in ClassicNames
    /\ "populate_rootfs_contents" \in ClassicNames /\ "generate_disk_info" \in ClassicNames
    /\ "calculate_rootfs_size" \in ClassicNames /\ "populate_bootfs_contents" \in ClassicNames
    /\ "populate_prepare_partitions" \in ClassicNames /\ "make_disk" \in ClassicNames
    /\ "setup_bootloader" \in ClassicNames /\ "make_qcow2_image" \in ClassicNames
    /\ "generate_package_manifest" \in ClassicNames /\ "generate_filelist" \in ClassicNames
    /\ "generate_rootfs_tarball" \in ClassicNames
  BY DEF ClassicNames

\* A list in that order, with its places between two bounds.
Ascending(s, low, high) ==
    /\ s \in Seq(ClassicNames)
    /\ \A i \in DOMAIN s : low <= Place(s[i]) /\ Place(s[i]) <= high
    /\ \A i, j \in DOMAIN s : i < j => Place(s[i]) < Place(s[j])

LEMMA Places == \A name \in ClassicNames : Place(name) \in 1..31
  BY DEF ClassicNames, Place

LEMMA InBounds ==
    ASSUME NEW s, NEW a, NEW b, Ascending(s, a, b), NEW i \in DOMAIN s
    PROVE  /\ s[i] \in ClassicNames /\ Place(s[i]) \in Nat
           /\ a <= Place(s[i]) /\ Place(s[i]) <= b
<1>1. s[i] \in ClassicNames
  BY DEF Ascending
<1>2. Place(s[i]) \in Nat
  BY <1>1, Places
<1>3. a <= Place(s[i]) /\ Place(s[i]) <= b
  BY DEF Ascending
<1>4. QED
  BY <1>1, <1>2, <1>3

LEMMA Joined ==
    ASSUME NEW s, NEW t, NEW a \in Nat, NEW b \in Nat, NEW c \in Nat, NEW e \in Nat,
           Ascending(s, a, b), Ascending(t, c, e), b < c, a <= c, b <= e
    PROVE  Ascending(s \o t, a, e)
<1> DEFINE u == s \o t
<1>1. /\ u \in Seq(ClassicNames) /\ Len(u) = Len(s) + Len(t)
      /\ Len(s) \in Nat /\ Len(t) \in Nat
      /\ DOMAIN s = 1..Len(s) /\ DOMAIN t = 1..Len(t) /\ DOMAIN u = 1..Len(u)
      /\ \A i \in 1..Len(u) : u[i] = IF i <= Len(s) THEN s[i] ELSE t[i - Len(s)]
  BY DEF Ascending
<1>2. ASSUME NEW i \in DOMAIN u
      PROVE  \/ i \in DOMAIN s /\ u[i] = s[i]
             \/ i - Len(s) \in DOMAIN t /\ i > Len(s) /\ u[i] = t[i - Len(s)]
  BY <1>1
<1>3. \A i \in DOMAIN s : Place(s[i]) \in Nat /\ a <= Place(s[i]) /\ Place(s[i]) <= b
  BY InBounds
<1>4. \A i \in DOMAIN t : Place(t[i]) \in Nat /\ c <= Place(t[i]) /\ Place(t[i]) <= e
  BY InBounds
<1>5. ASSUME NEW i \in DOMAIN u PROVE a <= Place(u[i]) /\ Place(u[i]) <= e
  <2>1. CASE i \in DOMAIN s /\ u[i] = s[i]
    BY <1>3, <2>1
  <2>2. CASE i - Len(s) \in DOMAIN t /\ u[i] = t[i - Len(s)]
    BY <1>4, <2>2
  <2>3. QED
    BY <1>2, <2>1, <2>2
<1>6. ASSUME NEW i \in DOMAIN u, NEW j \in DOMAIN u, i < j PROVE Place(u[i]) < Place(u[j])
  <2>1. CASE j \in DOMAIN s /\ u[j] = s[j]
    <3>1. i \in DOMAIN s /\ u[i] = s[i]
      BY <1>1, <1>6, <2>1
    <3>2. QED
      BY <1>6, <2>1, <3>1 DEF Ascending
  <2>2. CASE /\ i \in DOMAIN s /\ u[i] = s[i]
             /\ j - Len(s) \in DOMAIN t /\ u[j] = t[j - Len(s)]
    BY <1>3, <1>4, <2>2
  <2>3. CASE /\ i - Len(s) \in DOMAIN t /\ u[i] = t[i - Len(s)]
             /\ j - Len(s) \in DOMAIN t /\ u[j] = t[j - Len(s)]
    <3>1. i - Len(s) < j - Len(s)
      BY <1>1, <1>6
    <3>2. QED
      BY <2>3, <3>1 DEF Ascending
  <2>4. QED
    BY <1>1, <1>2, <1>6, <2>1, <2>2, <2>3
<1>7. QED
  BY <1>1, <1>5, <1>6 DEF Ascending

\* One state, and one that may be left out.
LEMMA One ==
    ASSUME NEW name \in ClassicNames PROVE Ascending(<<name>>, Place(name), Place(name))
  BY Places DEF Ascending

LEMMA Optional ==
    ASSUME NEW s, NEW cond, NEW a, NEW b, Ascending(s, a, b)
    PROVE  Ascending(If(cond, s), a, b)
<1>1. Ascending(<<>>, a, b)
  BY DEF Ascending
<1>2. QED
  BY <1>1 DEF If

LEMMA Wider ==
    ASSUME NEW s, NEW a \in Nat, NEW b \in Nat, NEW c \in Nat, NEW e \in Nat,
           Ascending(s, a, b), c <= a, b <= e
    PROVE  Ascending(s, c, e)
<1>1. \A i \in DOMAIN s : Place(s[i]) \in Nat /\ a <= Place(s[i]) /\ Place(s[i]) <= b
  BY InBounds
<1>2. \A i \in DOMAIN s : c <= Place(s[i]) /\ Place(s[i]) <= e
  BY <1>1
<1>3. QED
  BY <1>2 DEF Ascending

LEMMA Two ==
    ASSUME NEW m \in ClassicNames, NEW n \in ClassicNames, Place(m) < Place(n)
    PROVE  Ascending(<<m, n>>, Place(m), Place(n))
  BY Places DEF Ascending

LEMMA Three ==
    ASSUME NEW l \in ClassicNames, NEW m \in ClassicNames, NEW n \in ClassicNames,
           Place(l) < Place(m), Place(m) < Place(n)
    PROVE  Ascending(<<l, m, n>>, Place(l), Place(n))
  BY Places DEF Ascending

LEMMA InJoined ==
    ASSUME NEW s \in Seq(ClassicNames), NEW t \in Seq(ClassicNames)
    PROVE  Range(s \o t) = Range(s) \cup Range(t)
<1> DEFINE u == s \o t
<1>1. /\ Len(u) = Len(s) + Len(t) /\ Len(s) \in Nat /\ Len(t) \in Nat
      /\ DOMAIN s = 1..Len(s) /\ DOMAIN t = 1..Len(t) /\ DOMAIN u = 1..Len(u)
      /\ \A i \in 1..Len(u) : u[i] = IF i <= Len(s) THEN s[i] ELSE t[i - Len(s)]
  OBVIOUS
<1>2. ASSUME NEW i \in DOMAIN s PROVE s[i] \in Range(u)
  <2>1. i \in DOMAIN u /\ u[i] = s[i]
    BY <1>1
  <2>2. QED
    BY <2>1 DEF Range
<1>3. ASSUME NEW i \in DOMAIN t PROVE t[i] \in Range(u)
  <2>1. i + Len(s) \in DOMAIN u /\ u[i + Len(s)] = t[i]
    BY <1>1
  <2>2. QED
    BY <2>1 DEF Range
<1>4. ASSUME NEW i \in DOMAIN u PROVE u[i] \in Range(s) \cup Range(t)
  BY <1>1 DEF Range
<1>5. QED
  BY <1>2, <1>3, <1>4 DEF Range

-----------------------------------------------------------------------------
(***************************************************************************)
(* The parts of calculateStates, each between its bounds, and with every   *)
(* add_extra_ppas a clean_extra_ppas.                                      *)
(***************************************************************************)
Paired(s) == "add_extra_ppas" \in Range(s) => "clean_extra_ppas" \in Range(s)
Part(s, low, high) == Ascending(s, low, high) /\ Paired(s)

LEMMA PartJoined ==
    ASSUME NEW s, NEW t, NEW a \in Nat, NEW b \in Nat, NEW c \in Nat, NEW e \in Nat,
           Part(s, a, b), Part(t, c, e), b < c, a <= c, b <= e
    PROVE  Part(s \o t, a, e)
<1>1. s \in Seq(ClassicNames) /\ t \in Seq(ClassicNames)
  BY DEF Part, Ascending
<1>2. Range(s \o t) = Range(s) \cup Range(t)
  BY <1>1, InJoined
<1>3. Ascending(s \o t, a, e)
  BY Joined DEF Part
<1>4. QED
  BY <1>2, <1>3 DEF Part, Paired

LEMMA PartWider ==
    ASSUME NEW s, NEW a \in Nat, NEW b \in Nat, NEW c \in Nat, NEW e \in Nat,
           Part(s, a, b), c <= a, b <= e
    PROVE  Part(s, c, e)
  BY Wider DEF Part

LEMMA PartOptional ==
    ASSUME NEW s, NEW cond, NEW a, NEW b, Part(s, a, b) PROVE Part(If(cond, s), a, b)
<1>1. Ascending(If(cond, s), a, b)
  BY Optional DEF Part
<1>2. Paired(If(cond, s))
  <2>1. Paired(<<>>)
    BY DEF Paired, Range
  <2>2. QED
    BY <2>1 DEF If, Part
<1>3. QED
  BY <1>1, <1>2 DEF Part

LEMMA PartOne ==
    ASSUME NEW name \in ClassicNames, name # "add_extra_ppas"
    PROVE  Part(<<name>>, Place(name), Place(name))
<1>1. Range(<<name>>) = {name}
  BY DEF Range
<1>2. QED
  BY <1>1, One DEF Part, Paired

LEMMA PartTwo ==
    ASSUME NEW m \in ClassicNames, NEW n \in ClassicNames, Place(m) < Place(n),
           m # "add_extra_ppas", n # "add_extra_ppas"
    PROVE  Part(<<m, n>>, Place(m), Place(n))
<1>1. Range(<<m, n>>) = {m, n}
  BY DEF Range
<1>2. QED
  BY <1>1, Two DEF Part, Paired

LEMMA GadgetPart == ASSUME NEW d PROVE Part(addGadgetStates(d), 1, 3)
<1>1. Part(<<"build_gadget_tree">>, 1, 1)
  BY PartOne, PlaceOf, Known
<1>2. Part(If(d.gadget = "source", <<"build_gadget_tree">>), 1, 1)
  BY <1>1, PartOptional
<1>3. Part(<<"prepare_gadget_tree", "load_gadget_yaml">>, 2, 3)
  BY PartTwo, PlaceOf, Known
<1>4. QED
  BY <1>2, <1>3, PartJoined DEF addGadgetStates

LEMMA UpgradePart ==
  ASSUME NEW d
  PROVE  Part(If(d.pocket # "release", <<"upgrade_packages">>), 9, 9)
<1>1. Part(<<"upgrade_packages">>, 9, 9)
  BY PartOne, PlaceOf, Known
<1>2. QED
  BY <1>1, PartOptional

LEMMA InstallPart == Part(<<"install_packages">>, 10, 12)
<1>1. Part(<<"install_packages">>, 11, 11)
  BY PartOne, PlaceOf, Known
<1>2. QED
  BY <1>1, PartWider

LEMMA ExtraPart == ASSUME NEW d PROVE Part(extraPackageStates(d), 10, 12)
<1> DEFINE s == <<"add_extra_ppas", "install_packages", "clean_extra_ppas">>
<1>1. Ascending(s, 10, 12)
  BY Three, PlaceOf, Known
<1>2. Range(s) = {"add_extra_ppas", "install_packages", "clean_extra_ppas"}
  BY DEF Range
<1>3. Part(s, 10, 12)
  BY <1>1, <1>2 DEF Part, Paired
<1>4. Part(If("packages" \in d.custom, <<"install_packages">>), 10, 12)
  BY InstallPart, PartOptional
<1>5. QED
  BY <1>3, <1>4 DEF extraPackageStates

LEMMA SnapsPart == Part(<<"prepare_image", "preseed_image">>, 13, 14)
  BY PartTwo, PlaceOf, Known

LEMMA TarballPart == ASSUME NEW d PROVE Part(addRootfsFromTarballStates(d), 5, 14)
<1> DEFINE upgrade == If(d.pocket # "release", <<"upgrade_packages">>)
           snaps == If("snaps" \in d.custom, <<"prepare_image", "preseed_image">>)
<1>1. Part(<<"extract_rootfs_tar">>, 7, 7)
  BY PartOne, PlaceOf, Known
<1>2. Part(<<"extract_rootfs_tar">> \o upgrade, 7, 9)
  BY <1>1, UpgradePart, PartJoined
<1>3. Part(<<"extract_rootfs_tar">> \o upgrade \o extraPackageStates(d), 7, 12)
  BY <1>2, ExtraPart, PartJoined
<1>4. Part(snaps, 13, 14)
  BY SnapsPart, PartOptional
<1>5. Part(addRootfsFromTarballStates(d), 7, 14)
  BY <1>3, <1>4, PartJoined DEF addRootfsFromTarballStates
<1>6. QED
  BY <1>5, PartWider

LEMMA SeedPart == ASSUME NEW d PROVE Part(addRootfsFromSeedStates(d), 5, 14)
<1> DEFINE start == <<"germinate", "create_chroot">>
           upgrade == If(d.pocket # "release", <<"upgrade_packages">>)
           packages == IF "ppas" \in d.custom THEN extraPackageStates(d)
                       ELSE <<"install_packages">>
<1>1. Part(start, 5, 6)
  BY PartTwo, PlaceOf, Known
<1>2. Part(start \o upgrade, 5, 9)
  BY <1>1, UpgradePart, PartJoined
<1>3. Part(packages, 10, 12)
  BY ExtraPart, InstallPart
<1>4. Part(start \o upgrade \o packages, 5, 12)
  BY <1>2, <1>3, PartJoined
<1>5. QED
  BY <1>4, SnapsPart, PartJoined DEF addRootfsFromSeedStates

LEMMA RootfsPart == ASSUME NEW d \in Definitions PROVE Part(rootfsStates(d), 1, 14)
<1> DEFINE gadget == If(d.gadget # "none", addGadgetStates(d))
           verify == If(d.artifacts \cap DiskArtifacts # {}, <<"verify_artifact_names">>)
           rootfs == CASE d.rootfs = "tarball" -> addRootfsFromTarballStates(d)
                       [] d.rootfs = "seed"    -> addRootfsFromSeedStates(d)
                       [] d.rootfs = "tasks"   -> <<"build_rootfs_from_tasks">>
<1>1. Part(gadget, 1, 3)
  BY GadgetPart, PartOptional
<1>2. Part(verify, 4, 4)
  <2>1. Part(<<"verify_artifact_names">>, 4, 4)
    BY PartOne, PlaceOf, Known
  <2>2. QED
    BY <2>1, PartOptional
<1>3. Part(rootfs, 5, 14)
  <2>1. Part(<<"build_rootfs_from_tasks">>, 8, 8)
    BY PartOne, PlaceOf, Known
  <2>2. Part(<<"build_rootfs_from_tasks">>, 5, 14)
    BY <2>1, PartWider
  <2>3. d.rootfs \in {"seed", "tarball", "tasks"}
    BY DEF Definitions
  <2>4. QED
    BY <2>2, <2>3, TarballPart, SeedPart
<1>4. Part(gadget \o verify, 1, 4)
  BY <1>1, <1>2, PartJoined
<1> HIDE DEF gadget, verify, rootfs
<1>5. Part((gadget \o verify) \o rootfs, 1, 14)
  BY <1>3, <1>4, PartJoined
<1>6. QED
  BY <1>5 DEF rootfsStates, gadget, verify, rootfs

LEMMA CustomizationPart == ASSUME NEW d PROVE Part(addCustomizationStates(d), 17, 19)
<1> DEFINE cloudInit == If("cloudInit" \in d.custom, <<"customize_cloud_init">>)
           fstab == If("fstab" \in d.custom, <<"customize_fstab">>)
           manual == If("manual" \in d.custom, <<"perform_manual_customization">>)
<1>1. /\ Part(<<"customize_cloud_init">>, 17, 17) /\ Part(<<"customize_fstab">>, 18, 18)
      /\ Part(<<"perform_manual_customization">>, 19, 19)
  BY PartOne, PlaceOf, Known
<1>2. Part(cloudInit, 17, 17) /\ Part(fstab, 18, 18) /\ Part(manual, 19, 19)
  BY <1>1, PartOptional
<1>3. Part(cloudInit \o fstab, 17, 18)
  BY <1>2, PartJoined
<1>4. Part(cloudInit \o fstab \o manual, 17, 19)
  BY <1>2, <1>3, PartJoined
<1>5. QED
  BY <1>4 DEF addCustomizationStates

LEMMA DiskPart == Part(diskStates, 26, 27)
  BY PartTwo, PlaceOf, Known DEF diskStates

LEMMA SizesPart ==
    LET sizes == <<"calculate_rootfs_size", "populate_bootfs_contents",
                   "populate_prepare_partitions">>
    IN  Part(sizes, 23, 25)
<1> DEFINE sizes == <<"calculate_rootfs_size", "populate_bootfs_contents",
                      "populate_prepare_partitions">>
<1>1. Ascending(sizes, 23, 25)
  BY Three, PlaceOf, Known
<1>2. Range(sizes) = {"calculate_rootfs_size", "populate_bootfs_contents",
                      "populate_prepare_partitions"}
  BY DEF Range
<1>3. QED
  BY <1>1, <1>2 DEF Part, Paired

\* With an img the disk is made; without, the list ends before it.
LEMMA ImgPart ==
    ASSUME NEW d
    PROVE  /\ Part(addImgStates(d), 23, 27)
           /\ "img" \in d.artifacts => "make_disk" \in Range(addImgStates(d))
           /\ "img" \notin d.artifacts => Part(addImgStates(d), 23, 25)
<1> DEFINE sizes == <<"calculate_rootfs_size", "populate_bootfs_contents",
                      "populate_prepare_partitions">>
           disk == If("img" \in d.artifacts, diskStates)
<1>1. Part(sizes, 23, 25)
  BY SizesPart
<1>2. Part(disk, 26, 27)
  BY DiskPart, PartOptional
<1>3. addImgStates(d) = sizes \o disk
  BY DEF addImgStates
<1> HIDE DEF sizes, disk
<1>4. Part(addImgStates(d), 23, 27)
  BY <1>1, <1>2, <1>3, PartJoined
<1>5. ASSUME "img" \in d.artifacts PROVE "make_disk" \in Range(addImgStates(d))
  <2>1. disk = diskStates
    BY <1>5 DEF disk, If
  <2>2. "make_disk" \in Range(diskStates)
    BY DEF Range, diskStates
  <2>3. Range(addImgStates(d)) = Range(sizes) \cup Range(disk)
    BY <1>1, <1>2, <1>3, InJoined DEF Part, Ascending
  <2>4. QED
    BY <2>1, <2>2, <2>3
<1>6. ASSUME "img" \notin d.artifacts PROVE Part(addImgStates(d), 23, 25)
  <2>1. sizes \in Seq(ClassicNames) /\ disk = <<>>
    BY <1>1, <1>6 DEF disk, If, Part, Ascending
  <2>2. QED
    BY <2>1, <1>1, <1>3
<1>7. QED
  BY <1>4, <1>5, <1>6

\* The disk of a qcow2 is made after the sizes or, with an img, not again.
LEMMA Qcow2Part ==
    ASSUME NEW d
    PROVE  LET img == If(d.gadget # "none", addImgStates(d))
           IN  Part(img \o If("qcow2" \in d.artifacts, addQcow2States(img)), 23, 28)
<1> DEFINE img == If(d.gadget # "none", addImgStates(d))
           last == <<"make_qcow2_image">>
<1>1. Part(last, 28, 28)
  BY PartOne, PlaceOf, Known
<1>2. Part(diskStates \o last, 26, 28)
  BY <1>1, DiskPart, PartJoined
<1>3. Part(img, 23, 27)
  BY ImgPart, PartOptional
<1>4. addQcow2States(img) = If("make_disk" \notin Range(img), diskStates) \o last
  BY DEF addQcow2States
<1>5. "make_disk" \notin Range(img) => Part(img, 23, 25)
  <2>1. Part(<<>>, 23, 25)
    BY DEF Part, Ascending, Paired, Range
  <2>2. QED
    BY <2>1, ImgPart DEF If
<1> HIDE DEF img, last
<1>6. CASE "make_disk" \in Range(img)
  <2>1. addQcow2States(img) = last
    <3>1. last \in Seq(ClassicNames)
      BY <1>1 DEF Part, Ascending
    <3>2. QED
      BY <1>4, <1>6, <3>1 DEF If
  <2>2. Part(If("qcow2" \in d.artifacts, last), 28, 28)
    BY <1>1, PartOptional
  <2>3. Part(img \o If("qcow2" \in d.artifacts, addQcow2States(img)), 23, 28)
    BY <1>3, <2>1, <2>2, PartJoined
  <2>4. QED
    BY <2>3 DEF img
<1>7. CASE "make_disk" \notin Range(img)
  <2>1. addQcow2States(img) = diskStates \o last
    BY <1>4, <1>7 DEF If
  <2>2. Part(If("qcow2" \in d.artifacts, addQcow2States(img)), 26, 28)
    BY <1>2, <2>1, PartOptional
  <2>3. Part(img \o If("qcow2" \in d.artifacts, addQcow2States(img)), 23, 28)
    BY <1>5, <1>7, <2>2, PartJoined
  <2>4. QED
    BY <2>3 DEF img
<1>8. QED
  BY <1>6, <1>7

LEMMA ArtifactsPart == ASSUME NEW d PROVE Part(addArtifactsStates(d), 23, 31)
<1> DEFINE img == If(d.gadget # "none", addImgStates(d))
           qcow2 == If("qcow2" \in d.artifacts, addQcow2States(img))
           manifest == If("manifest" \in d.artifacts, <<"generate_package_manifest">>)
           filelist == If("filelist" \in d.artifacts, <<"generate_filelist">>)
           tarball == If("rootfsTar" \in d.artifacts, <<"generate_rootfs_tarball">>)
<1>1. Part(img \o qcow2, 23, 28)
  BY Qcow2Part
<1>2. /\ Part(<<"generate_package_manifest">>, 29, 29) /\ Part(<<"generate_filelist">>, 30, 30)
      /\ Part(<<"generate_rootfs_tarball">>, 31, 31)
  BY PartOne, PlaceOf, Known
<1>3. Part(manifest, 29, 29) /\ Part(filelist, 30, 30) /\ Part(tarball, 31, 31)
  BY <1>2, PartOptional
<1>4. addArtifactsStates(d) = (((img \o qcow2) \o manifest) \o filelist) \o tarball
  BY DEF addArtifactsStates
<1> HIDE DEF img, qcow2, manifest, filelist, tarball
<1>5. Part((img \o qcow2) \o manifest, 23, 29)
  BY <1>1, <1>3, PartJoined
<1>6. Part(((img \o qcow2) \o manifest) \o filelist, 23, 30)
  BY <1>3, <1>5, PartJoined
<1>7. QED
  BY <1>3, <1>4, <1>6, PartJoined

(***************************************************************************)
(* The whole list.                                                         *)
(***************************************************************************)
LEMMA ClassicList ==
    ASSUME NEW d \in Definitions
    PROVE  /\ Part(calculateStates(d), 1, 31)
           /\ {"clean_rootfs", "customize_sources_list"} \subseteq Range(calculateStates(d))
<1> DEFINE rootfs == rootfsStates(d)
           middle == <<"clean_rootfs", "customize_sources_list">>
           custom == addCustomizationStates(d)
           copy == <<"set_default_locale", "populate_rootfs_contents">>
           info == If(d.diskInfo, <<"generate_disk_info">>)
           artifacts == If(d.artifacts # {}, addArtifactsStates(d))
<1>1. Part(rootfs, 1, 14)
  BY RootfsPart
<1>2. Part(middle, 15, 16) /\ Part(copy, 20, 21)
  BY PartTwo, PlaceOf, Known
<1>3. Part(custom, 17, 19)
  BY CustomizationPart
<1>4. Part(info, 22, 22)
  <2>1. Part(<<"generate_disk_info">>, 22, 22)
    BY PartOne, PlaceOf, Known
  <2>2. QED
    BY <2>1, PartOptional
<1>5. Part(artifacts, 23, 31)
  BY ArtifactsPart, PartOptional
<1>6. Range(middle) = {"clean_rootfs", "customize_sources_list"}
  BY DEF Range
<1>7. calculateStates(d) = ((((rootfs \o middle) \o custom) \o copy) \o info) \o artifacts
  BY DEF calculateStates
<1> HIDE DEF rootfs, middle, custom, copy, info, artifacts
<1>8. Part(rootfs \o middle, 1, 16)
  BY <1>1, <1>2, PartJoined
<1>9. Part((rootfs \o middle) \o custom, 1, 19)
  BY <1>3, <1>8, PartJoined
<1>10. Part(((rootfs \o middle) \o custom) \o copy, 1, 21)
  BY <1>2, <1>9, PartJoined
<1>11. Part((((rootfs \o middle) \o custom) \o copy) \o info, 1, 22)
  BY <1>4, <1>10, PartJoined
<1>12. Part(calculateStates(d), 1, 31)
  BY <1>5, <1>7, <1>11, PartJoined
<1>13. Range(middle) \subseteq Range(calculateStates(d))
  <2>1. Range(middle) \subseteq Range(rootfs \o middle)
    BY <1>1, <1>2, InJoined DEF Part, Ascending
  <2>2. Range(rootfs \o middle) \subseteq Range((rootfs \o middle) \o custom)
    BY <1>3, <1>8, InJoined DEF Part, Ascending
  <2>3. Range((rootfs \o middle) \o custom)
          \subseteq Range(((rootfs \o middle) \o custom) \o copy)
    BY <1>2, <1>9, InJoined DEF Part, Ascending
  <2>4. Range(((rootfs \o middle) \o custom) \o copy)
          \subseteq Range((((rootfs \o middle) \o custom) \o copy) \o info)
    BY <1>4, <1>10, InJoined DEF Part, Ascending
  <2>5. Range((((rootfs \o middle) \o custom) \o copy) \o info)
          \subseteq Range(calculateStates(d))
    BY <1>5, <1>7, <1>11, InJoined DEF Part, Ascending
  <2>6. QED
    BY <2>1, <2>2, <2>3, <2>4, <2>5
<1>14. QED
  BY <1>6, <1>12, <1>13

-----------------------------------------------------------------------------
(***************************************************************************)
(* What the functions of the table do to the copy of the chroot and to     *)
(* what the image must not have.                                           *)
(***************************************************************************)
Unwanted == {"secrets", "build sources", "ppa sources"}

LEMMA ClassicFunctions ==
    ASSUME NEW d, d.type # "snap"
    PROVE
    /\ stateFunc(d, "build_gadget_tree") = buildGadgetTree
    /\ stateFunc(d, "prepare_gadget_tree") = prepareGadgetTree(d)
    /\ stateFunc(d, "load_gadget_yaml") = loadGadgetYaml
    /\ stateFunc(d, "verify_artifact_names") = verifyArtifactNames(d)
    /\ stateFunc(d, "germinate") = germinate
    /\ stateFunc(d, "create_chroot") = createChroot(d)
    /\ stateFunc(d, "extract_rootfs_tar") = extractRootfsTar
    /\ stateFunc(d, "build_rootfs_from_tasks") = buildRootfsFromTasks
    /\ stateFunc(d, "upgrade_packages") = upgradePackages
    /\ stateFunc(d, "add_extra_ppas") = addExtraPPAs
    /\ stateFunc(d, "install_packages") = installPackages(d)
    /\ stateFunc(d, "clean_extra_ppas") = cleanExtraPPAs
    /\ stateFunc(d, "prepare_image") = prepareClassicImage(d)
    /\ stateFunc(d, "preseed_image") = preseedClassicImage
    /\ stateFunc(d, "clean_rootfs") = cleanRootfs
    /\ stateFunc(d, "customize_sources_list") = customizeSourcesList
    /\ stateFunc(d, "customize_cloud_init") = customizeCloudInit
    /\ stateFunc(d, "customize_fstab") = customizeFstab
    /\ stateFunc(d, "perform_manual_customization") = manualCustomization
    /\ stateFunc(d, "set_default_locale") = setDefaultLocale
    /\ stateFunc(d, "populate_rootfs_contents") = populateClassicRootfsContents
    /\ stateFunc(d, "generate_disk_info") = generateDiskInfo(d)
    /\ stateFunc(d, "calculate_rootfs_size") = calculateRootfsSize
    /\ stateFunc(d, "populate_bootfs_contents") = populateBootfsContents
    /\ stateFunc(d, "populate_prepare_partitions") = populatePreparePartitions
    /\ stateFunc(d, "make_disk") = makeDisk
    /\ stateFunc(d, "setup_bootloader") = setupBootloader
    /\ stateFunc(d, "make_qcow2_image") = makeQcow2Img
    /\ stateFunc(d, "generate_package_manifest") = generatePackageManifest
    /\ stateFunc(d, "generate_filelist") = generateFilelist
    /\ stateFunc(d, "generate_rootfs_tarball") = generateRootfsTarball
  BY DEF stateFunc

\* What the copy and the image rely on, of the function f of a state.
InItsPlace(name, f) ==
    /\ f.gives \subseteq Fields \cup Pieces
    /\ "rootfs" \in f.gives => name = "populate_rootfs_contents"
    /\ "rootfs" \in f.drops => Place(name) < Place("populate_rootfs_contents")
    /\ "secrets" \in f.gives => Place(name) < Place("clean_rootfs")
    /\ "build sources" \in f.gives => Place(name) < Place("customize_sources_list")
    /\ "ppa sources" \in f.gives => name = "add_extra_ppas"
    /\ name = "clean_rootfs" => "secrets" \in f.drops
    /\ name = "customize_sources_list" => "build sources" \in f.drops
    /\ name = "clean_extra_ppas" => "ppa sources" \in f.drops

LEMMA ClassicEffects ==
    ASSUME NEW d, d.type # "snap", NEW name \in ClassicNames
    PROVE  InItsPlace(name, stateFunc(d, name))
<1> USE PlaceOf DEF InItsPlace, Effect, Fields, Pieces
<1>1. InItsPlace("build_gadget_tree", buildGadgetTree)
  BY DEF buildGadgetTree
<1>2. InItsPlace("prepare_gadget_tree", prepareGadgetTree(d))
  BY DEF prepareGadgetTree
<1>3. InItsPlace("load_gadget_yaml", loadGadgetYaml)
  BY DEF loadGadgetYaml
<1>4. InItsPlace("verify_artifact_names", verifyArtifactNames(d))
  BY DEF verifyArtifactNames
<1>5. InItsPlace("germinate", germinate)
  BY DEF germinate
<1>6. InItsPlace("create_chroot", createChroot(d))
  BY DEF createChroot
<1>7. InItsPlace("extract_rootfs_tar", extractRootfsTar)
  BY DEF extractRootfsTar
<1>8. InItsPlace("build_rootfs_from_tasks", buildRootfsFromTasks)
  BY DEF buildRootfsFromTasks
<1>9. InItsPlace("upgrade_packages", upgradePackages)
  BY DEF upgradePackages
<1>10. InItsPlace("add_extra_ppas", addExtraPPAs)
  BY DEF addExtraPPAs
<1>11. InItsPlace("install_packages", installPackages(d))
  <2>1. installPackages(d).gives \subseteq {"secrets", "kernel", "packages"}
    BY DEF installPackages
  <2>2. installPackages(d).drops = {"rootfs"}
    BY DEF installPackages
  <2>3. installPackages(d).gives \subseteq Fields \cup Pieces
    BY <2>1
  <2>4. /\ "rootfs" \notin installPackages(d).gives
        /\ "build sources" \notin installPackages(d).gives
        /\ "ppa sources" \notin installPackages(d).gives
    BY <2>1
  <2>5. /\ Place("install_packages") < Place("populate_rootfs_contents")
        /\ Place("install_packages") < Place("clean_rootfs")
    OBVIOUS
  <2> HIDE PlaceOf DEF Effect, Fields, Pieces
  <2>6. QED
    BY <2>2, <2>3, <2>4, <2>5
<1>12. InItsPlace("clean_extra_ppas", cleanExtraPPAs)
  BY DEF cleanExtraPPAs
<1>13. InItsPlace("prepare_image", prepareClassicImage(d))
  BY DEF prepareClassicImage
<1>14. InItsPlace("preseed_image", preseedClassicImage)
  BY DEF preseedClassicImage
<1>15. InItsPlace("clean_rootfs", cleanRootfs)
  BY DEF cleanRootfs
<1>16. InItsPlace("customize_sources_list", customizeSourcesList)
  BY DEF customizeSourcesList
<1>17. InItsPlace("customize_cloud_init", customizeCloudInit)
  BY DEF customizeCloudInit
<1>18. InItsPlace("customize_fstab", customizeFstab)
  BY DEF customizeFstab
<1>19. InItsPlace("perform_manual_customization", manualCustomization)
  BY DEF manualCustomization
<1>20. InItsPlace("set_default_locale", setDefaultLocale)
  BY DEF setDefaultLocale
<1>21. InItsPlace("populate_rootfs_contents", populateClassicRootfsContents)
  BY DEF populateClassicRootfsContents
<1>22. InItsPlace("generate_disk_info", generateDiskInfo(d))
  BY DEF generateDiskInfo
<1>23. InItsPlace("calculate_rootfs_size", calculateRootfsSize)
  BY DEF calculateRootfsSize
<1>24. InItsPlace("populate_bootfs_contents", populateBootfsContents)
  BY DEF populateBootfsContents
<1>25. InItsPlace("populate_prepare_partitions", populatePreparePartitions)
  BY DEF populatePreparePartitions
<1>26. InItsPlace("make_disk", makeDisk)
  BY DEF makeDisk
<1>27. InItsPlace("setup_bootloader", setupBootloader)
  BY DEF setupBootloader
<1>28. InItsPlace("make_qcow2_image", makeQcow2Img)
  BY DEF makeQcow2Img
<1>29. InItsPlace("generate_package_manifest", generatePackageManifest)
  BY DEF generatePackageManifest
<1>30. InItsPlace("generate_filelist", generateFilelist)
  BY DEF generateFilelist
<1>31. InItsPlace("generate_rootfs_tarball", generateRootfsTarball)
  BY DEF generateRootfsTarball
<1> HIDE PlaceOf DEF InItsPlace, Effect, Fields, Pieces
<1>32. \A n \in ClassicNames : InItsPlace(n, stateFunc(d, n))
  BY <1>1, <1>2, <1>3, <1>4, <1>5, <1>6, <1>7, <1>8, <1>9, <1>10, <1>11, <1>12, <1>13,
     <1>14, <1>15, <1>16, <1>17, <1>18, <1>19, <1>20, <1>21, <1>22, <1>23, <1>24, <1>25,
     <1>26, <1>27, <1>28, <1>29, <1>30, <1>31, ClassicFunctions DEF ClassicNames
<1>33. QED
  BY <1>32

SnapNames ==
    {"prepare_image", "load_gadget_yaml", "set_artifact_names", "populate_rootfs_contents",
     "generate_disk_info", "calculate_rootfs_size", "populate_bootfs_contents",
     "populate_prepare_partitions", "make_disk", "generate_snap_manifest"}

LEMMA SnapFunctions ==
    ASSUME NEW d, d.type = "snap"
    PROVE
    /\ stateFunc(d, "prepare_image") = prepareImage
    /\ stateFunc(d, "load_gadget_yaml") = loadGadgetYaml
    /\ stateFunc(d, "set_artifact_names") = setArtifactNames
    /\ stateFunc(d, "populate_rootfs_contents") = populateSnapRootfsContents
    /\ stateFunc(d, "generate_disk_info") = generateDiskInfo(d)
    /\ stateFunc(d, "calculate_rootfs_size") = calculateRootfsSize
    /\ stateFunc(d, "populate_bootfs_contents") = populateBootfsContents
    /\ stateFunc(d, "populate_prepare_partitions") = populatePreparePartitions
    /\ stateFunc(d, "make_disk") = makeDisk
    /\ stateFunc(d, "generate_snap_manifest") = generateSnapManifest
  BY DEF stateFunc

\* Snap images never have what classic ones must lose.
Clean(f) == f.gives \subseteq (Fields \cup Pieces) \ Unwanted /\ "rootfs" \notin f.drops

LEMMA SnapEffects ==
    ASSUME NEW d, d.type = "snap", NEW name \in SnapNames
    PROVE  Clean(stateFunc(d, name))
<1> USE DEF Clean, Effect, Fields, Pieces, Unwanted
<1>1. Clean(prepareImage)
  BY DEF prepareImage
<1>2. Clean(loadGadgetYaml)
  BY DEF loadGadgetYaml
<1>3. Clean(setArtifactNames)
  BY DEF setArtifactNames
<1>4. Clean(populateSnapRootfsContents)
  BY DEF populateSnapRootfsContents
<1>5. Clean(generateDiskInfo(d))
  BY DEF generateDiskInfo
<1>6. Clean(calculateRootfsSize)
  BY DEF calculateRootfsSize
<1>7. Clean(populateBootfsContents)
  BY DEF populateBootfsContents
<1>8. Clean(populatePreparePartitions)
  BY DEF populatePreparePartitions
<1>9. Clean(makeDisk)
  BY DEF makeDisk
<1>10. Clean(generateSnapManifest)
  BY DEF generateSnapManifest
<1> HIDE DEF Clean, Effect, Fields, Pieces, Unwanted
<1>11. QED
  BY <1>1, <1>2, <1>3, <1>4, <1>5, <1>6, <1>7, <1>8, <1>9, <1>10, SnapFunctions DEF SnapNames

LEMMA SnapList ==
    /\ snapStates \in Seq(SnapNames)
    /\ \A i, j \in DOMAIN snapStates : snapStates[i] = snapStates[j] => i = j
<1>1. snapStates \in Seq(SnapNames)
  BY DEF snapStates, SnapNames
<1>2. QED
  BY <1>1 DEF snapStates

-----------------------------------------------------------------------------
(***************************************************************************)
(* The build: what has been performed is the beginning of the list.        *)
(***************************************************************************)
Names == ClassicNames \cup SnapNames

LEMMA ListTypes ==
    ASSUME NEW d \in Definitions
    PROVE  /\ States(d) \in Seq(Names)
           /\ \A i, j \in DOMAIN States(d) : States(d)[i] = States(d)[j] => i = j
<1>1. CASE d.type = "snap"
  BY <1>1, SnapList DEF States, Names
<1>2. CASE d.type # "snap"
  <2>1. States(d) = calculateStates(d) /\ Ascending(calculateStates(d), 1, 31)
    BY <1>2, ClassicList DEF States, Part
  <2>2. \A i \in DOMAIN States(d) : Place(States(d)[i]) \in Nat
    BY <2>1, InBounds
  <2>3. \A i, j \in DOMAIN States(d) : i < j => Place(States(d)[i]) < Place(States(d)[j])
    BY <2>1 DEF Ascending
  <2>4. States(d) \in Seq(ClassicNames)
    BY <2>1 DEF Ascending
  <2>5. QED
    BY <2>2, <2>3, <2>4 DEF Names
<1>3. QED
  BY <1>1, <1>2

Inv ==
    /\ imageDef \in ImageDefs
    /\ have \subseteq Fields \cup Pieces
    /\ resumes \in 0..MaxResumes
    /\ outcome \in {"building", "failed", "done"}
    /\ performed \in Seq(Names)
    /\ Len(performed) <= Len(States(imageDef))
    /\ \A i \in 1..Len(performed) : performed[i] = States(imageDef)[i]

LEMMA InvTypes ==
    ASSUME Inv
    PROVE  /\ imageDef \in Definitions
           /\ States(imageDef) \in Seq(Names) /\ Len(States(imageDef)) \in Nat
           /\ DOMAIN States(imageDef) = 1..Len(States(imageDef))
           /\ Len(performed) \in Nat /\ DOMAIN performed = 1..Len(performed)
           /\ \A i \in DOMAIN performed : i \in DOMAIN States(imageDef)
<1>1. imageDef \in Definitions
  BY BoundsAssumption DEF Inv
<1>2. States(imageDef) \in Seq(Names)
  BY <1>1, ListTypes
<1>3. QED
  BY <1>1, <1>2 DEF Inv

\* The next state is the one after those that have been performed.
LEMMA Performs ==
    ASSUME Inv, Perform
    PROVE  LET next == Len(performed) + 1
               name == States(imageDef)[next]
               f    == stateFunc(imageDef, name)
           IN  /\ next \in DOMAIN States(imageDef)
               /\ name \in Names
               /\ imageDef' = imageDef /\ resumes' = resumes /\ outcome = "building"
               /\ \/ /\ have' = (have \ f.drops) \cup f.gives
                     /\ performed' = Append(performed, name) /\ outcome' = outcome
                  \/ have' = have /\ performed' = performed /\ outcome' = "failed"
<1> DEFINE next == Len(performed) + 1
<1>1. toPerform = SubSeq(States(imageDef), next, Len(States(imageDef)))
  BY DEF toPerform, remaining
<1>2. next \in Nat /\ next > 0 /\ next \in Int /\ Len(States(imageDef)) \in Int
  BY InvTypes
<1>3. next <= Len(States(imageDef))
  BY <1>1, <1>2, SubSeqEmpty DEF Perform
<1>4. Head(toPerform) = States(imageDef)[next]
  BY <1>1, <1>2, <1>3, InvTypes, HeadTailOfSubSeq
<1>5. next \in DOMAIN States(imageDef) /\ States(imageDef)[next] \in Names
  BY <1>2, <1>3, InvTypes
<1>6. QED
  BY <1>4, <1>5 DEF Perform

LEMMA InvInit == Init => Inv
<1> SUFFICES ASSUME Init PROVE Inv
  OBVIOUS
<1>1. imageDef \in Definitions /\ imageDef \in ImageDefs
  BY BoundsAssumption DEF Init
<1>2. Len(States(imageDef)) \in Nat
  BY <1>1, ListTypes
<1>3. performed \in Seq(Names) /\ Len(performed) = 0
  BY DEF Init
<1>4. QED
  BY <1>1, <1>2, <1>3, BoundsAssumption DEF Init, Inv

LEMMA InvStep == Inv /\ [Next]_vars => Inv'
<1> SUFFICES ASSUME Inv, [Next]_vars PROVE Inv'
  OBVIOUS
<1>1. CASE Perform
  <2> DEFINE next == Len(performed) + 1
             name == States(imageDef)[next]
             f    == stateFunc(imageDef, name)
  <2>1. /\ next \in DOMAIN States(imageDef) /\ name \in Names
        /\ imageDef' = imageDef /\ resumes' = resumes /\ outcome = "building"
        /\ \/ /\ have' = (have \ f.drops) \cup f.gives
              /\ performed' = Append(performed, name) /\ outcome' = outcome
           \/ have' = have /\ performed' = performed /\ outcome' = "failed"
    BY <1>1, Performs
  <2>2. f.gives \subseteq Fields \cup Pieces
    <3>1. CASE imageDef.type = "snap"
      <4>1. name \in SnapNames
        BY <2>1, <3>1, SnapList DEF States
      <4>2. QED
        BY <3>1, <4>1, SnapEffects DEF Clean
    <3>2. CASE imageDef.type # "snap"
      <4>1. name \in ClassicNames
        BY <2>1, <3>2, InvTypes, ClassicList DEF States, Part, Ascending
      <4>2. QED
        BY <3>2, <4>1, ClassicEffects DEF InItsPlace
    <3>3. QED
      BY <3>1, <3>2
  <2>3. CASE performed' = Append(performed, name) /\ have' = (have \ f.drops) \cup f.gives
             /\ outcome' = outcome
    <3>1. performed' \in Seq(Names) /\ Len(performed') = next
      BY <2>1, <2>3 DEF Inv
    <3>2. Len(performed') <= Len(States(imageDef'))
      BY <2>1, <3>1, InvTypes
    <3>3. ASSUME NEW i \in 1..Len(performed') PROVE performed'[i] = States(imageDef')[i]
      <4>1. CASE i = next
        BY <2>1, <2>3, <4>1, InvTypes DEF Inv
      <4>2. CASE i # next
        <5>1. i \in 1..Len(performed)
          BY <3>1, <4>2, InvTypes
        <5>2. QED
          BY <2>1, <2>3, <5>1, InvTypes DEF Inv
      <4>3. QED
        BY <4>1, <4>2
    <3>4. have' \subseteq Fields \cup Pieces
      BY <2>2, <2>3 DEF Inv
    <3> HIDE DEF next, name, f
    <3>5. QED
      BY <2>1, <2>3, <3>1, <3>2, <3>3, <3>4 DEF Inv
  <2>4. CASE have' = have /\ performed' = performed /\ outcome' = "failed"
    BY <2>1, <2>4 DEF Inv
  <2>5. QED
    BY <2>1, <2>3, <2>4
<1>2. CASE Resume
  BY <1>2, BoundsAssumption DEF Resume, Inv
<1>3. CASE Finish
  BY <1>3 DEF Finish, Inv
<1>4. CASE UNCHANGED vars
  BY <1>4 DEF vars, Inv
<1>5. QED
  BY <1>1, <1>2, <1>3, <1>4 DEF Next

LEMMA Invariant == Spec => []Inv
  BY InvInit, InvStep, PTL DEF Spec

\* What is performed is the beginning of the list of states of the definition,
\* whatever was resumed, and every state leaves known pieces.
THEOREM TypeCorrect == Spec => []TypeOK
<1>1. ASSUME Inv PROVE TypeOK
  <2>1. Len(performed) \in 0..Len(States(imageDef))
    BY <1>1, InvTypes DEF Inv
  <2>2. performed = SubSeq(States(imageDef), 1, Len(performed))
    <3> DEFINE n == Len(performed)
               s == SubSeq(States(imageDef), 1, n)
    <3>1. 1 \in Int /\ n \in Int /\ \A i \in 1..n : States(imageDef)[i] \in Names
      BY <1>1, InvTypes DEF Inv
    <3>2. s \in Seq(Names) /\ Len(s) = n /\ \A i \in 1..n : s[i] = States(imageDef)[i]
      BY <1>1, <3>1, SubSeqProperties, InvTypes
    <3> HIDE DEF s
    <3>3. QED
      BY <1>1, <3>2, InvTypes, SeqEqual DEF Inv, s
  <2>3. QED
    BY <1>1, <2>2, InvTypes DEF Inv, TypeOK
<1>2. QED
  BY <1>1, Invariant, PTL

\* No state function is performed twice, for any artifacts: an img and a qcow2
\* share one make_disk.
THEOREM OnceCorrect == Spec => []EachStateOnce
<1>1. ASSUME Inv PROVE EachStateOnce
  <2>1. \A i, j \in DOMAIN performed : performed[i] = performed[j] => i = j
    BY <1>1, InvTypes, ListTypes DEF Inv
  <2>2. QED
    BY <2>1 DEF EachStateOnce, IsInjective
<1>2. QED
  BY <1>1, Invariant, PTL

-----------------------------------------------------------------------------
(***************************************************************************)
(* Lists in their order: what comes before and after the copy.             *)
(***************************************************************************)
Performed(name) == \E i \in 1..Len(performed) : performed[i] = name

LEMMA ClassicOrder ==
    ASSUME Inv, imageDef.type # "snap"
    PROVE  /\ \A i \in DOMAIN States(imageDef) : States(imageDef)[i] \in ClassicNames
           /\ \A i, j \in DOMAIN States(imageDef) :
                Place(States(imageDef)[i]) < Place(States(imageDef)[j]) => i < j
           /\ \E i \in DOMAIN States(imageDef) : States(imageDef)[i] = "clean_rootfs"
           /\ \E i \in DOMAIN States(imageDef) : States(imageDef)[i] = "customize_sources_list"
           /\ \A i \in DOMAIN States(imageDef) : States(imageDef)[i] = "add_extra_ppas" =>
                \E j \in DOMAIN States(imageDef) : States(imageDef)[j] = "clean_extra_ppas"
<1> DEFINE s == States(imageDef)
<1>1. /\ Part(s, 1, 31) /\ {"clean_rootfs", "customize_sources_list"} \subseteq Range(s)
  BY InvTypes, ClassicList DEF States
<1> HIDE DEF s
<1>2. \A i \in DOMAIN s : s[i] \in ClassicNames /\ Place(s[i]) \in Nat
  BY <1>1, InBounds DEF Part
<1>3. \A i, j \in DOMAIN s : i < j => Place(s[i]) < Place(s[j])
  BY <1>1 DEF Part, Ascending
<1>4. DOMAIN s = 1..Len(s) /\ Len(s) \in Nat
  BY InvTypes DEF s
<1>5. ASSUME NEW i \in DOMAIN s, NEW j \in DOMAIN s, Place(s[i]) < Place(s[j]) PROVE i < j
  <2>1. i = j \/ i < j \/ j < i
    BY <1>4
  <2>2. QED
    BY <1>2, <1>3, <1>5, <2>1
<1>6. \A name \in Range(s) : \E i \in DOMAIN s : s[i] = name
  BY DEF Range
<1>7. \A i \in DOMAIN s : s[i] \in Range(s)
  BY DEF Range
<1>8. QED
  BY <1>1, <1>2, <1>5, <1>6, <1>7 DEF Part, Paired, s

\* What has a smaller place than a state performed has been performed.
LEMMA PerformedBefore ==
    ASSUME Inv, imageDef.type # "snap", NEW a, NEW b, Place(a) < Place(b), Performed(b),
           \E i \in DOMAIN States(imageDef) : States(imageDef)[i] = a
    PROVE  Performed(a)
<1>1. PICK i \in DOMAIN States(imageDef) : States(imageDef)[i] = a
  OBVIOUS
<1>2. PICK j \in 1..Len(performed) : performed[j] = b
  BY DEF Performed
<1>3. j \in DOMAIN States(imageDef) /\ States(imageDef)[j] = b
  BY <1>2, InvTypes DEF Inv
<1>4. i < j
  BY <1>1, <1>3, ClassicOrder
<1>5. i \in 1..Len(performed)
  BY <1>1, <1>2, <1>4, InvTypes
<1>6. QED
  BY <1>1, <1>5 DEF Inv, Performed

\* The state that is next has a larger place than all that have been performed.
LEMMA NextIsLarger ==
    ASSUME Inv, imageDef.type # "snap", Len(performed) + 1 \in DOMAIN States(imageDef),
           NEW name, Performed(name)
    PROVE  ~(Place(States(imageDef)[Len(performed) + 1]) < Place(name))
           /\ States(imageDef)[Len(performed) + 1] # name
<1>1. PICK i \in 1..Len(performed) : performed[i] = name
  BY DEF Performed
<1>2. i \in DOMAIN States(imageDef) /\ States(imageDef)[i] = name
  BY <1>1, InvTypes DEF Inv
<1>3. ~(Len(performed) + 1 < i) /\ i # Len(performed) + 1
  BY <1>1, InvTypes
<1>4. QED
  BY <1>2, <1>3, ClassicOrder, ListTypes, InvTypes

\* While the copy is there it has been made after everything that changes the
\* chroot, and each thing to be removed waits for the state that removes it.
CopyInv ==
    /\ imageDef.type = "snap" => have \cap Unwanted = {}
    /\ imageDef.type # "snap" =>
         /\ "rootfs" \in have => Performed("populate_rootfs_contents")
         /\ "secrets" \in have => ~Performed("clean_rootfs")
         /\ "build sources" \in have => ~Performed("customize_sources_list")
         /\ "ppa sources" \in have =>
              Performed("add_extra_ppas") /\ ~Performed("clean_extra_ppas")

LEMMA CopyInit == Init => CopyInv
  BY DEF Init, CopyInv

LEMMA ClassicStep ==
    ASSUME Inv, CopyInv, Perform, imageDef.type # "snap"
    PROVE  CopyInv'
<1> DEFINE next == Len(performed) + 1
           name == States(imageDef)[next]
           f    == stateFunc(imageDef, name)
<1>1. /\ next \in DOMAIN States(imageDef) /\ imageDef' = imageDef
      /\ \/ have' = (have \ f.drops) \cup f.gives /\ performed' = Append(performed, name)
         \/ have' = have /\ performed' = performed
  BY Performs
<1>2. name \in ClassicNames /\ InItsPlace(name, f)
  BY <1>1, ClassicOrder, ClassicEffects
<1>3. \A n : Performed(n) => ~(Place(name) < Place(n)) /\ name # n
  BY <1>1, NextIsLarger
<1> HIDE DEF name, f
<1>4. CASE have' = (have \ f.drops) \cup f.gives /\ performed' = Append(performed, name)
  <2>1. ASSUME NEW n PROVE Performed(n)' <=> Performed(n) \/ name = n
    <3>1. /\ performed \in Seq(Names) /\ Len(performed') = next /\ performed'[next] = name
          /\ \A k \in 1..Len(performed) : performed'[k] = performed[k]
          /\ Len(performed) \in Nat
      BY <1>1, <1>4, InvTypes DEF Inv, name
    <3>2. 1..Len(performed') = 1..Len(performed) \cup {next}
      BY <3>1
    <3>3. QED
      BY <3>1, <3>2 DEF Performed
  <2>2. "rootfs" \in have' => Performed("populate_rootfs_contents")'
    BY <1>2, <1>4, <2>1 DEF InItsPlace, CopyInv
  <2>3. "secrets" \in have' => ~Performed("clean_rootfs")'
    <3>1. ~(Place("clean_rootfs") < Place("clean_rootfs"))
      BY PlaceOf
    <3>2. QED
      BY <1>2, <1>3, <1>4, <2>1, <3>1 DEF InItsPlace, CopyInv
  <2>4. "build sources" \in have' => ~Performed("customize_sources_list")'
    <3>1. ~(Place("customize_sources_list") < Place("customize_sources_list"))
      BY PlaceOf
    <3>2. QED
      BY <1>2, <1>3, <1>4, <2>1, <3>1 DEF InItsPlace, CopyInv
  <2>5. "ppa sources" \in have'
          => Performed("add_extra_ppas")' /\ ~Performed("clean_extra_ppas")'
    <3>1. Place("add_extra_ppas") < Place("clean_extra_ppas")
      BY PlaceOf
    <3>2. CASE "ppa sources" \in f.gives
      BY <1>2, <1>3, <2>1, <3>1, <3>2 DEF InItsPlace
    <3>3. CASE "ppa sources" \in have \ f.drops
      BY <1>2, <2>1, <3>3 DEF InItsPlace, CopyInv
    <3>4. QED
      BY <1>4, <3>2, <3>3
  <2>6. QED
    BY <1>1, <2>2, <2>3, <2>4, <2>5 DEF CopyInv
<1>5. CASE have' = have /\ performed' = performed
  BY <1>1, <1>5 DEF CopyInv, Performed
<1>6. QED
  BY <1>1, <1>4, <1>5 DEF name, f

LEMMA SnapStep ==
    ASSUME Inv, Perform, imageDef.type = "snap"
    PROVE  /\ imageDef' = imageDef
           /\ \E f : Clean(f) /\ (have' = (have \ f.drops) \cup f.gives \/ have' = have)
<1> DEFINE name == States(imageDef)[Len(performed) + 1]
           f    == stateFunc(imageDef, name)
<1>1. /\ Len(performed) + 1 \in DOMAIN States(imageDef) /\ imageDef' = imageDef
      /\ have' = (have \ f.drops) \cup f.gives \/ have' = have
  BY Performs
<1>2. name \in SnapNames
  BY <1>1, SnapList DEF States
<1>3. Clean(f)
  BY <1>2, SnapEffects
<1>4. QED
  BY <1>1, <1>3

LEMMA CopyStep == ASSUME Inv, CopyInv, [Next]_vars PROVE CopyInv'
<1>1. CASE Perform
  <2>1. CASE imageDef.type = "snap"
    <3>1. have' \cap Unwanted = {} /\ imageDef' = imageDef
      BY <1>1, <2>1, SnapStep DEF Clean, CopyInv
    <3>2. QED
      BY <2>1, <3>1 DEF CopyInv
  <2>2. QED
    BY <1>1, <2>1, ClassicStep
<1>2. CASE Resume
  BY <1>2 DEF Resume, CopyInv, Performed
<1>3. CASE Finish
  BY <1>3 DEF Finish, CopyInv, Performed
<1>4. CASE UNCHANGED vars
  BY <1>4 DEF vars, CopyInv, Performed
<1>5. QED
  BY <1>1, <1>2, <1>3, <1>4 DEF Next

LEMMA CopyAlways == Spec => [](Inv /\ CopyInv)
<1>1. Inv /\ CopyInv /\ [Next]_vars => CopyInv'
  BY CopyStep
<1>2. QED
  BY <1>1, CopyInit, Invariant, PTL DEF Spec

\* The copy of the chroot holds no secrets of the build, none of its sources
\* and no PPA used only to build, whatever the definition asks for.
THEOREM CleanCorrect == Spec => []ImageIsClean
<1>1. ASSUME Inv, CopyInv PROVE ImageIsClean
  <2> SUFFICES ASSUME "rootfs" \in have PROVE have \cap Unwanted = {}
    BY DEF ImageIsClean, Unwanted
  <2>1. CASE imageDef.type = "snap"
    BY <1>1, <2>1 DEF CopyInv
  <2>2. CASE imageDef.type # "snap"
    <3>1. Performed("populate_rootfs_contents")
      BY <1>1, <2>2 DEF CopyInv
    <3>2. /\ Place("clean_rootfs") < Place("populate_rootfs_contents")
          /\ Place("customize_sources_list") < Place("populate_rootfs_contents")
          /\ Place("clean_extra_ppas") < Place("populate_rootfs_contents")
      BY PlaceOf
    <3>3. "secrets" \notin have
      <4>1. Performed("clean_rootfs")
        BY <1>1, <2>2, <3>1, <3>2, ClassicOrder, PerformedBefore
      <4>2. QED
        BY <1>1, <2>2, <4>1 DEF CopyInv
    <3>4. "build sources" \notin have
      <4>1. Performed("customize_sources_list")
        BY <1>1, <2>2, <3>1, <3>2, ClassicOrder, PerformedBefore
      <4>2. QED
        BY <1>1, <2>2, <4>1 DEF CopyInv
    <3>5. "ppa sources" \notin have
      <4>1. SUFFICES ASSUME "ppa sources" \in have PROVE FALSE
        OBVIOUS
      <4>2. Performed("add_extra_ppas") /\ ~Performed("clean_extra_ppas")
        BY <1>1, <2>2, <4>1 DEF CopyInv
      <4>3. \E i \in DOMAIN States(imageDef) : States(imageDef)[i] = "add_extra_ppas"
        BY <1>1, <4>2, InvTypes DEF Performed, Inv
      <4>4. \E i \in DOMAIN States(imageDef) : States(imageDef)[i] = "clean_extra_ppas"
        BY <1>1, <2>2, <4>3, ClassicOrder
      <4>5. QED
        BY <1>1, <2>2, <3>1, <3>2, <4>2, <4>4, PerformedBefore
    <3>6. QED
      BY <3>3, <3>4, <3>5 DEF Unwanted
  <2>3. QED
    BY <2>1, <2>2
<1>2. QED
  BY <1>1, CopyAlways, PTL

\* Nothing changes the chroot once it has been copied: artifacts are made from
\* the same contents.
THEOREM CopyCorrect == Spec => CopyIsFinal
<1>1. ASSUME Inv, CopyInv, [Next]_vars, "rootfs" \in have PROVE "rootfs" \in have'
  <2>1. CASE Perform
    <3>1. CASE imageDef.type = "snap"
      BY <1>1, <2>1, <3>1, SnapStep DEF Clean
    <3>2. CASE imageDef.type # "snap"
      <4> DEFINE name == States(imageDef)[Len(performed) + 1]
                 f    == stateFunc(imageDef, name)
      <4>1. /\ Len(performed) + 1 \in DOMAIN States(imageDef)
            /\ have' = (have \ f.drops) \cup f.gives \/ have' = have
        BY <1>1, <2>1, Performs
      <4>2. InItsPlace(name, f)
        BY <1>1, <3>2, <4>1, ClassicOrder, ClassicEffects
      <4>3. ~(Place(name) < Place("populate_rootfs_contents"))
        BY <1>1, <3>2, <4>1, NextIsLarger DEF CopyInv
      <4> HIDE DEF name, f
      <4>4. "rootfs" \notin f.drops
        BY <4>2, <4>3 DEF InItsPlace
      <4>5. QED
        BY <1>1, <4>1, <4>4 DEF f
    <3>3. QED
      BY <3>1, <3>2
  <2>2. CASE Resume
    <3>1. "rootfs" \notin Fields
      BY DEF Fields
    <3>2. QED
      BY <1>1, <2>2, <3>1 DEF Resume
  <2>3. CASE Finish
    BY <1>1, <2>3 DEF Finish
  <2>4. CASE UNCHANGED vars
    BY <1>1, <2>4 DEF vars
  <2>5. QED
    BY <1>1, <2>1, <2>2, <2>3, <2>4 DEF Next
<1>2. Inv /\ CopyInv /\ [Next]_vars => ["rootfs" \in have => "rootfs" \in have']_vars
  BY <1>1
<1>3. QED
  BY <1>2, CopyAlways, PTL DEF CopyIsFinal, Spec

\* The sources of the target come after everything that installs packages and
\* before the customizations of the image, in every list.
THEOREM SourcesListCorrect == Spec => []SourcesListInPlace
<1>1. ASSUME Inv, imageDef.type = "snap"
      PROVE  \A i \in DOMAIN performed : performed[i] \in SnapNames
  <2>1. States(imageDef) \in Seq(SnapNames)
    BY <1>1, SnapList DEF States
  <2>2. QED
    BY <1>1, <2>1, InvTypes DEF Inv
<1>2. ASSUME Inv, imageDef.type # "snap", NEW a, NEW b, Place(a) < Place(b) PROVE Before(a, b)
  <2>1. ASSUME NEW i \in DOMAIN performed, NEW j \in DOMAIN performed,
               performed[i] = a, performed[j] = b
        PROVE  i < j
    <3>1. /\ i \in DOMAIN States(imageDef) /\ States(imageDef)[i] = a
          /\ j \in DOMAIN States(imageDef) /\ States(imageDef)[j] = b
      BY <1>2, <2>1, InvTypes DEF Inv
    <3>2. QED
      BY <1>2, <3>1, ClassicOrder
  <2>2. QED
    BY <2>1 DEF Before
<1>3. ASSUME Inv PROVE SourcesListInPlace
  <2>1. CASE imageDef.type = "snap"
    <3>1. "customize_sources_list" \notin SnapNames
      BY DEF SnapNames
    <3>2. \A i \in DOMAIN performed : performed[i] # "customize_sources_list"
      BY <1>1, <1>3, <2>1, <3>1
    <3>3. QED
      BY <3>2 DEF SourcesListInPlace, Before
  <2>2. CASE imageDef.type # "snap"
    <3>1. \A a \in {"upgrade_packages", "install_packages", "clean_extra_ppas"} :
            Place(a) < Place("customize_sources_list")
      BY PlaceOf
    <3>2. \A b \in {"customize_cloud_init", "customize_fstab", "perform_manual_customization"} :
            Place("customize_sources_list") < Place(b)
      BY PlaceOf
    <3>3. QED
      BY <1>2, <1>3, <2>2, <3>1, <3>2 DEF SourcesListInPlace
  <2>3. QED
    BY <2>1, <2>2
<1>4. QED
  BY <1>3, Invariant, PTL

=============================================================================
